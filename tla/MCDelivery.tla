----------------------------- MODULE MCDelivery -----------------------------
(***************************************************************************)
(* Instances of Delivery for TLC.                                          *)
(***************************************************************************)
EXTENDS Delivery, TLC

\* Nothing but unreachable contacts.
Quiet == [vault |-> FALSE, errors |-> {"plain"}, oldest |-> 0, restarts |-> 0,
          contact |-> 0, expire |-> FALSE]

LinksPlans == {Quiet}

\* Everything that may go wrong while the sender runs; the history sealed, and
\* locked and unlocked again; a restart of the sender between any two steps.
Running    == [Quiet EXCEPT !.errors = Errors, !.oldest = 1, !.expire = TRUE]
Sealing    == [Quiet EXCEPT !.vault = TRUE, !.errors = {"plain", "self"}, !.oldest = 1]
Restarting == [Quiet EXCEPT !.restarts = 1]
WaysPlans  == {Running, Sealing, Restarting}

LivePlans  == {[Quiet EXCEPT !.oldest = 2, !.contact = 1]}

\* The messages are alike, and so are the links.
Symmetry == Permutations(Msgs) \cup Permutations(Links)

\* What is not read any more is left out of the fingerprint: the contact's disk
\* when it does not restart (all runs with this view), and the sender's once it
\* does not restart again.
Seen == <<msg, age, est, key, vaultVars, link, bound, dialing, asked, got, everGot, late,
          boxVars, env, IF env.sender < env.plan.restarts THEN saveVars ELSE None>>
=============================================================================
