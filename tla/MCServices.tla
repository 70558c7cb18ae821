----------------------------- MODULE MCServices -----------------------------
(***************************************************************************)
(* What nodesignald does beside the messages: the onion service, the       *)
(* router port mapping, updates, collecting the operator's own mail from a *)
(* mailbox; and the processes that run it.                                 *)
(* They share no state, so what holds of each alone holds of all together; *)
(* one run checks them, each by itself (which), so that its states are a   *)
(* sum and not a product.                                                  *)
(***************************************************************************)
EXTENDS Onion

CONSTANTS
  Methods, LeaseSeconds, OnlyPermanent, Picky, OthersMap, MaxFaults,
  Kinds, Calls, Newest,
  Sups, Processes, Commands, Races, Backoff, MaxBackoff, StableTime, CrashLimit, Window, EndOfTime,
  MaxSupKills,                                              \* of Supervisor
  Ids, From(_), Text(_), Known, Before, PAGE, BATCH, MAX_STRANGERS, MaxLosses   \* of Fetch

VARIABLES
  which,
  fwd, pmp, pc, job, lease, current, mapTimer, mapStopped, finished, stopper, removal,
  mapStatus, faults, others,
  kind, released, info, checking, last, call, want, whole, part, dest,
  manifest, request, result, asked, root, rootJob, copy, installed,
  win, sup, daemon, serves, supFile, kidFile, cmd, clock, supKills, starts, met,
  store, opened, boxFile, pending, failed, serving, leaving, now,
  link, home, homeFile, sent, losses, taken, forgot

mapVars    == <<fwd, pmp, pc, job, lease, current, mapTimer, mapStopped, finished, stopper,
                removal, mapStatus, faults, others>>
updateVars == <<kind, released, info, checking, last, call, want, whole, part, dest,
                manifest, request, result, asked, root, rootJob, copy, installed>>
supVars    == <<win, sup, daemon, serves, supFile, kidFile, cmd, clock, supKills, starts, met>>
mailVars   == <<store, opened, boxFile, pending, failed, serving, leaving, now,
                link, home, homeFile, sent, losses, taken, forgot>>

P == INSTANCE Portmap WITH timer <- mapTimer, stopped <- mapStopped, status <- mapStatus
U == INSTANCE Update WITH job <- rootJob, MaxChecks <- 2
V == INSTANCE Supervisor WITH Daemons <- Processes, MaxKills <- MaxSupKills,
       serving <- serves, now <- clock, kills <- supKills
F == INSTANCE Fetch

ASSUME NewestAssumption == Newest \in Nat
ASSUME FaultsAssumption == MaxFaults \in Nat /\ OthersMap \in Nat
ASSUME NoMappingAssumption == None \notin P!Mapping \cup P!Entries
ASSUME NoSupAssumption == None \notin Sups \cup Processes
ASSUME PagesAssumption == PAGE \in Nat /\ BATCH \in Nat \ {0}
ASSUME NoBoxAssumption == None \notin F!M!Box

ServicesInit ==
  /\ which \in {"onion", "portmap", "update", "processes", "fetch"}
  /\ Init /\ P!Init /\ U!Init /\ V!Init /\ F!Init
  /\ which # "processes" => win

\* All processes may have ended.
ServicesNext ==
  \/ which = "onion" /\ Next /\ UNCHANGED <<which, mapVars, updateVars, supVars, mailVars>>
  \/ which = "portmap" /\ P!Next /\ UNCHANGED <<which, vars, updateVars, supVars, mailVars>>
  \/ which = "update" /\ U!Next /\ UNCHANGED <<which, vars, mapVars, supVars, mailVars>>
  \/ which = "processes" /\ [V!Next]_supVars /\ UNCHANGED <<which, vars, mapVars, updateVars, mailVars>>
  \/ which = "fetch" /\ F!Next /\ UNCHANGED <<which, vars, mapVars, updateVars, supVars>>

ServicesSpec == ServicesInit /\ [][ServicesNext]_<<which, vars, mapVars, updateVars, supVars, mailVars>>

-----------------------------------------------------------------------------
(* The run's mail: a stranger leaves one message twice, then a contact leaves *)
(* one; pages of two, in frames of one; room for one stranger, which another *)
(* has.  Time stands still for its processes: every wait is over at once, and *)
(* no end of a daemon is recent.                                            *)

Sender(i)  == IF i = 3 THEN "contact" ELSE "stranger"
Message(i) == IF i = 3 THEN "m2" ELSE "m1"

-----------------------------------------------------------------------------
(* The properties of Portmap, Update, Supervisor and Fetch, stated there.  *)

\* The variables of all keep their types.
ServicesTypeOK == TypeOK /\ P!TypeOK /\ U!TypeOK /\ V!TypeOK /\ F!TypeOK

\* stop() leaves no forwarding behind.
LeavesNothing == P!LeavesNothing

\* Only a whole package of a signed release is installed.
InstallsOnlyWhole == U!InstallsOnlyWhole

\* `stop` leaves nothing running.
StopLeavesNone == V!StopLeavesNone

\* The operator's own mail is kept once its mailbox has let go of it, and once.
NoneLost == F!NoneLost

\* What makes the daemon run and be reached comes back until it is stopped: its
\* onion service whenever it was lost; the port mapping again and again, and stop()
\* comes to an end; the daemon, which never runs on without its supervisor.
ComesUpAgain ==
  /\ which = "onion" => ComesBack
  /\ which = "portmap" => P!KeptMapped /\ P!StopFinishes
  /\ which = "processes" /\ V!Fairness => V!KeepsUp

\* What was begun comes to an end: an install is over on the console, and the
\* operator's own mail is collected, unless strangers fill a page.
RunsItsCourse ==
  /\ which = "update" => U!InstallEnds
  /\ which = "fetch" => F!Collected
=============================================================================
