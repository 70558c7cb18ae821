------------------------------- MODULE Courier ------------------------------
(***************************************************************************)
(* What nodesignald promises the operator about each message written to a  *)
(* contact, with nothing of how it is carried: which verdicts a message    *)
(* may show, one after the other, and that "delivered" is only shown for a *)
(* message the contact stored.  Delivery implements it.                    *)
(***************************************************************************)
EXTENDS Naturals

CONSTANT Msgs

VARIABLES
  verdict,    \* what the console shows of each message
  stored,     \* messages that reached the contact's history at some time
  epoch       \* restarts of the daemon

vars == <<verdict, stored, epoch>>

Failures == {"cancelled", "gaveup", "self"}
Verdicts == {"absent", "waiting", "held", "delivered"} \cup Failures

Init ==
  /\ verdict = [m \in Msgs |-> "absent"]
  /\ stored = {}
  /\ epoch = 0

\* What may follow a verdict while the daemon runs.  A held message does not
\* fail for its age; an acknowledgement or the mailbox's answer may come after
\* a failure; nothing follows "delivered".
After(v) ==
  CASE v = "absent"    -> {"waiting"}
    [] v = "waiting"   -> {"held", "delivered"} \cup Failures
    [] v = "held"      -> {"delivered", "cancelled", "self"}
    [] v \in Failures  -> {"held", "delivered"}
    [] OTHER           -> {}

\* Verdicts move on, for several messages at once if a dial or a timer was for
\* all of them; what moves to "delivered" has been stored.
Report ==
  /\ verdict' \in [Msgs -> Verdicts]
  /\ \A m \in Msgs : verdict'[m] # verdict[m] =>
       /\ verdict'[m] \in After(verdict[m])
       /\ verdict'[m] = "delivered" => m \in stored
  /\ UNCHANGED <<stored, epoch>>

\* A message reaches the contact's history.
Store ==
  /\ \E m \in Msgs : stored' = stored \cup {m}
  /\ UNCHANGED <<verdict, epoch>>

\* The daemon starts again from an older save: verdicts may go back, but none
\* is made up.
Restart ==
  /\ epoch' = epoch + 1
  /\ verdict' \in [Msgs -> Verdicts]
  /\ \A m \in Msgs : verdict'[m] = "delivered" => m \in stored
  /\ UNCHANGED stored

Next == Report \/ Store \/ Restart

Spec == Init /\ [][Next]_vars
=============================================================================
