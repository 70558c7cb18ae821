------------------------------ MODULE Portmap -------------------------------
(***************************************************************************)
(* The router port mapping controller of portmap.js: map, renew, map again *)
(* after a failure, and remove on stop, against a router that may lose      *)
(* requests or answers, forget entries, and forward the same port for      *)
(* another device.  Every call to the router is one step; between two of    *)
(* them anything else may happen.  Addresses, SSDP and XML are left out:    *)
(* a call that fails for their sake is a lost call here.                    *)
(***************************************************************************)
EXTENDS Naturals

CONSTANTS
  Methods,          \* methods tried, in the order upnp, natpmp
  LeaseSeconds,     \* the lease asked for (0: permanent)
  OnlyPermanent,    \* the router refuses timed leases (725)
  Picky,            \* the router answers 718 for an entry of ours too
  OthersMap,        \* bound: how often another device forwards the same port
  MaxFaults,        \* bound: calls that fail before stop(), and again after it
  None

VARIABLES
  fwd,        \* the router's UPnP entry for the external port
  pmp,        \* it forwards the port for us by NAT-PMP
  pc,         \* where the cycle in flight is; idle: inflight is null
  job,        \* "renew" or "map"
  lease,      \* the lease AddPortMapping asks for next
  current,    \* the mapping held
  timer,      \* a cycle is scheduled
  stopped, finished,    \* stop() was called; stopFinished
  stopper,    \* the work stop() waits for
  removal,    \* remove() calls: stop()'s, and adopt()'s after it gave up
  status,     \* st.state
  faults, others        \* the environment's bounded moves

router == <<fwd, pmp>>
cycle  == <<pc, job, lease, current, timer, status>>
stop   == <<stopped, finished, stopper, removal>>
vars   == <<router, cycle, stop, faults, others>>

Leases   == {"timed", "permanent"}
Ours(l)  == [who |-> "us", lease |-> l]
Others   == [who |-> "other", lease |-> "permanent"]
Entries  == [who : {"us", "other"}, lease : Leases]
Mapping  == [method : {"upnp", "natpmp"}, lease : Leases]
Removers == {"stop", "late"}
Requested == IF LeaseSeconds > 0 THEN "timed" ELSE "permanent"

TypeOK ==
  /\ fwd \in Entries \cup {None} /\ pmp \in BOOLEAN
  /\ pc \in {"idle", "add", "owner", "replace", "again", "natpmp"}
  /\ job \in {"renew", "map"} /\ lease \in Leases
  /\ current \in Mapping \cup {None}
  /\ timer \in BOOLEAN /\ stopped \in BOOLEAN /\ finished \in BOOLEAN
  /\ stopper \in {"no", "waiting", "removing", "done"}
  /\ removal \in [Removers -> {"no", "owner", "delete", "natpmp"}]
  /\ status \in {"mapping", "mapped", "failed", "stopped"}
  /\ faults \in [run : 0..MaxFaults, stop : 0..MaxFaults] /\ others \in 0..OthersMap

\* timer: the first cycle is queued as a microtask.
Init ==
  /\ fwd = None /\ pmp = FALSE
  /\ pc = "idle" /\ job = "map" /\ lease = Requested
  /\ current = None /\ timer = TRUE
  /\ stopped = FALSE /\ finished = FALSE /\ stopper = "no"
  /\ removal = [w \in Removers |-> "no"]
  /\ status = "mapping"
  /\ faults = [run |-> 0, stop |-> 0] /\ others = 0

IsOurs == \E l \in Leases : fwd = Ours(l)

\* A call may fail in this step: refused, timed out, or its answer lost.
Fault ==
  IF stopped THEN faults.stop < MaxFaults /\ faults' = [faults EXCEPT !.stop = @ + 1]
             ELSE faults.run < MaxFaults /\ faults' = [faults EXCEPT !.run = @ + 1]

-----------------------------------------------------------------------------
(* How a cycle ends or goes on.                                            *)

FirstMethod == IF "upnp" \in Methods THEN "add" ELSE "natpmp"

\* remove() of a mapping: UPnP asks first whose entry it is.
Removing(method) == IF method = "upnp" THEN "owner" ELSE "natpmp"

\* adopt(r), once stopped: kept for stop() to remove, or removed at once.
Adopt_Dropped(r) == UNCHANGED <<current, removal>>                 \* mutant
Adopt(r) ==
  IF finished THEN removal' = [removal EXCEPT !["late"] = Removing(r.method)] /\ UNCHANGED current
              ELSE current' = r /\ UNCHANGED removal

\* The mapping was granted: ok(), or adopt().
Granted(r) ==
  /\ pc' = "idle"
  /\ IF stopped
     THEN Adopt(r) /\ UNCHANGED <<timer, status>>
     ELSE current' = r /\ timer' = TRUE /\ status' = "mapped" /\ UNCHANGED removal
  /\ UNCHANGED <<job, stopped, finished, stopper>>

\* renew() failed: map from scratch.  A method failed: try the next, then give
\* up until the backoff is over.
Missed ==
  \/ /\ job = "renew" /\ ~stopped
     /\ job' = "map" /\ pc' = FirstMethod /\ lease' = Requested
     /\ current' = None /\ status' = "mapping"
     /\ UNCHANGED <<timer, stop>>
  \/ /\ job = "renew" /\ stopped
     /\ pc' = "idle"
     /\ UNCHANGED <<job, lease, current, timer, status, stop>>
  \/ /\ job = "map" /\ pc # "natpmp" /\ "natpmp" \in Methods
     /\ pc' = "natpmp"
     /\ UNCHANGED <<job, lease, current, timer, status, stop>>
  \/ /\ job = "map" /\ (pc = "natpmp" \/ "natpmp" \notin Methods)
     /\ pc' = "idle"
     /\ IF stopped THEN UNCHANGED <<timer, status>> ELSE timer' = TRUE /\ status' = "failed"
     /\ UNCHANGED <<job, lease, current, stop>>

-----------------------------------------------------------------------------
(* The cycle.                                                              *)

\* The timer fires: run() starts a cycle.
Cycle_ByName ==                                                    \* mutant
  /\ timer /\ pc = "idle" /\ ~stopped
  /\ timer' = FALSE /\ job' = IF current # None THEN "renew" ELSE "map"
  /\ pc' = IF current # None THEN current.method ELSE FirstMethod
  /\ lease' = Requested
  /\ UNCHANGED <<current, status, router, stop, faults, others>>
Cycle ==
  /\ timer /\ pc = "idle" /\ ~stopped
  /\ timer' = FALSE
  /\ IF current # None
     THEN /\ job' = "renew" /\ pc' = IF current.method = "upnp" THEN "add" ELSE "natpmp"
          /\ lease' = current.lease
          /\ UNCHANGED status
     ELSE /\ job' = "map" /\ pc' = FirstMethod /\ lease' = Requested
          /\ status' = "mapping"
  /\ UNCHANGED <<current, router, stop, faults, others>>

\* AddPortMapping, the first time or after our stale entry was deleted.
Taken == fwd = Others \/ (fwd # None /\ Picky)
Add ==
  /\ pc \in {"add", "again"}
  /\ \/ /\ OnlyPermanent /\ lease = "timed"                        \* 725
        /\ lease' = "permanent"
        /\ UNCHANGED <<fwd, pc, job, current, timer, status, stop, faults>>
     \/ /\ ~(OnlyPermanent /\ lease = "timed") /\ Taken            \* 718
        /\ IF pc = "add" THEN pc' = "owner" /\ UNCHANGED <<job, lease, current, timer, status, stop>>
                         ELSE Missed
        /\ UNCHANGED <<fwd, faults>>
     \/ /\ ~(OnlyPermanent /\ lease = "timed") /\ ~Taken
        /\ fwd' = Ours(lease)
        /\ \/ Granted([method |-> "upnp", lease |-> lease]) /\ UNCHANGED <<lease, faults>>
           \/ Fault /\ Missed                                      \* the answer is lost
     \/ Fault /\ Missed /\ UNCHANGED fwd
  /\ UNCHANGED <<pmp, others>>

\* 718: whose entry is it?  Only our own stale one is replaced.
Owner ==
  /\ pc = "owner"
  /\ \/ /\ IsOurs
        /\ pc' = "replace"
        /\ UNCHANGED <<job, lease, current, timer, status, stop, faults>>
     \/ ~IsOurs /\ Missed /\ UNCHANGED faults
     \/ Fault /\ Missed
  /\ UNCHANGED <<router, others>>

\* DeletePortMapping; whatever it answers, the mapping is added again.
Replace ==
  /\ pc = "replace"
  /\ pc' = "again"
  /\ \/ fwd' = None /\ UNCHANGED faults
     \/ fwd' \in {None, fwd} /\ Fault
  /\ UNCHANGED <<pmp, job, lease, current, timer, status, stop, others>>

\* The NAT-PMP request, for a new mapping or a renewal.
Natpmp ==
  /\ pc = "natpmp"
  /\ \/ /\ pmp' = TRUE
        /\ Granted([method |-> "natpmp", lease |-> "timed"])
        /\ UNCHANGED <<lease, faults>>
     \/ pmp' \in {pmp, TRUE} /\ Fault /\ Missed
  /\ UNCHANGED <<fwd, others>>

-----------------------------------------------------------------------------
(* stop().                                                                 *)

Stop ==
  /\ ~stopped
  /\ stopped' = TRUE /\ timer' = FALSE /\ stopper' = "waiting"
  /\ UNCHANGED <<router, pc, job, lease, current, status, finished, removal, faults, others>>

\* The cycle in flight is over: what it left is removed.
StopTakes ==
  /\ stopper = "waiting" /\ pc = "idle"
  /\ current' = None
  /\ IF current = None
     THEN stopper' = "done" /\ UNCHANGED removal
     ELSE stopper' = "removing" /\ removal' = [removal EXCEPT !["stop"] = Removing(current.method)]
  /\ UNCHANGED <<router, pc, job, lease, timer, status, stopped, finished, faults, others>>

\* stop() returns: its work is done, or stopTimeoutMs is over.
StopEnds ==
  /\ stopped /\ ~finished
  /\ finished' = TRUE /\ status' = "stopped"
  /\ UNCHANGED <<router, pc, job, lease, current, timer, stopped, stopper, removal, faults, others>>

RemovalOver(w) ==
  /\ removal' = [removal EXCEPT ![w] = "no"]
  /\ stopper' = IF w = "stop" THEN "done" ELSE stopper

\* upnpDelete asks whose entry it is; with no answer it goes on.
RemovalAsks(w) ==
  /\ removal[w] = "owner"
  /\ \/ /\ IsOurs
        /\ removal' = [removal EXCEPT ![w] = "delete"]
        /\ UNCHANGED <<stopper, faults>>
     \/ ~IsOurs /\ RemovalOver(w) /\ UNCHANGED faults
     \/ Fault /\ removal' = [removal EXCEPT ![w] = "delete"] /\ UNCHANGED stopper
  /\ UNCHANGED <<router, cycle, stopped, finished, others>>

\* DeletePortMapping, or the NAT-PMP request with lifetime 0.
RemovalDeletes(w) ==
  /\ removal[w] \in {"delete", "natpmp"}
  /\ RemovalOver(w)
  /\ IF removal[w] = "delete"
     THEN UNCHANGED pmp /\ \/ fwd' = None /\ UNCHANGED faults
                           \/ fwd' \in {None, fwd} /\ Fault
     ELSE UNCHANGED fwd /\ \/ pmp' = FALSE /\ UNCHANGED faults
                           \/ pmp' \in {FALSE, pmp} /\ Fault
  /\ UNCHANGED <<cycle, stopped, finished, others>>

-----------------------------------------------------------------------------
(* The router by itself.                                                   *)

\* A timed lease lapses, or the router restarts and forgets.
Forgets ==
  /\ \/ fwd # None /\ fwd' = None /\ UNCHANGED pmp
     \/ pmp /\ pmp' = FALSE /\ UNCHANGED fwd
  /\ UNCHANGED <<cycle, stop, faults, others>>

\* Another device forwards the port to itself.
OtherMaps ==
  /\ fwd = None /\ others < OthersMap
  /\ fwd' = Others /\ others' = others + 1
  /\ UNCHANGED <<pmp, cycle, stop, faults>>

\* Nothing is left to do after stop().
Quiet == finished /\ pc = "idle" /\ stopper = "done" /\ \A w \in Removers : removal[w] = "no"

Controller == \/ Cycle \/ Add \/ Owner \/ Replace \/ Natpmp \/ Stop \/ StopTakes \/ StopEnds
              \/ \E w \in Removers : RemovalAsks(w) \/ RemovalDeletes(w)

\* The only state without a move: stopped, with nothing left to do.
Done == Quiet /\ UNCHANGED vars

Next == Controller \/ Forgets \/ OtherMaps \/ Done

Spec == Init /\ [][Next]_vars

-----------------------------------------------------------------------------

\* stop() leaves nothing behind, at whatever moment it is called (also in the
\* first attempt), even if it returns before the router has answered, as long
\* as the router answers.
LeavesNothing ==
  Quiet /\ faults.run + faults.stop = 0 => ~pmp /\ ~IsOurs

-----------------------------------------------------------------------------
(* Liveness: timers fire and calls end.  The router has finitely many       *)
(* faults and no other device keeps the port.                               *)

CallsEnd ==
  /\ WF_vars(Cycle \/ Add \/ Owner \/ Replace \/ Natpmp)
  /\ WF_vars(StopTakes \/ StopEnds)
  /\ \A w \in Removers : WF_vars(RemovalAsks(w) \/ RemovalDeletes(w))

\* Until it is stopped the controller maps the port again and again: whatever
\* kind of lease the router wants, and whatever it forgets.
KeptMapped == CallsEnd => []<>(IsOurs \/ pmp \/ stopped)

\* stop() always returns, and what it started comes to an end.
StopFinishes == CallsEnd => (stopped ~> Quiet)
=============================================================================
