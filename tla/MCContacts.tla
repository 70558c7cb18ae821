----------------------------- MODULE MCContacts -----------------------------
(* Few addresses, keys and links for TLC.                                  *)
EXTENDS Contacts, TLC
Alike == Permutations(Fps) \cup Permutations(Links)
=============================================================================
