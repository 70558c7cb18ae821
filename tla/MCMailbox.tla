----------------------------- MODULE MCMailbox ------------------------------
(* Mailboxes for TLC: one that holds a blob for each of two recipients; and *)
(* one for three recipients with room for two, where blobs of one and two   *)
(* units share three units.                                                 *)
EXTENDS Mailbox, TLC
CONSTANTS r1, r2, r3, a, b
TwoFps == {r1, r2}
OneId == {a}
SizeOfOne == a :> 1
ThreeFps == {r1, r2, r3}
TwoIds == {a, b}
SizesOfTwo == (a :> 1) @@ (b :> 2)
Alike == Permutations(ThreeFps)
=============================================================================
