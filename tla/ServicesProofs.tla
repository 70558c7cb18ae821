---------------------------- MODULE ServicesProofs ---------------------------
(***************************************************************************)
(* Proofs about the services of MCServices, for any values of the          *)
(* constants: the onion service (one address for good, one attempt at a    *)
(* time, an honest status, a stop() that holds, no secret before the other *)
(* end's proof); the port mapping (nothing is left on the router), updates *)
(* (only what is whole is installed), the processes (`stop` leaves none)   *)
(* and the operator's own mail (none is lost).  Each has an inductive      *)
(* invariant of its own, which every step of ServicesSpec preserves.       *)
(***************************************************************************)
EXTENDS MCServices, FiniteSetTheorems, SequenceTheorems, TLAPS

LEMMA Constants ==
  Ports \in Nat \ {0} /\ MaxKills \in Nat /\ HasPassword \in BOOLEAN /\ None \notin Nat
  BY PortsAssumption, FlagsAssumption, BoundsAssumption, NoneAssumption

-----------------------------------------------------------------------------
(* The inductive invariant.                                                *)

\* The key in memory is the key on disk, and peers know no other.
KeyKept ==
  /\ key = saved
  /\ announced \subseteq {saved} \ {None}
  /\ saved = None => keys = 0

\* Who is at work.
ServiceUp == live /\ step = "idle" /\ ~timer
AttemptRuns == ~live /\ step # "idle" /\ ~timer
AttemptTimed == ~live /\ step = "idle" /\ timer

Busy ==
  /\ ~stopped => ServiceUp \/ AttemptRuns \/ AttemptTimed
  /\ step \in {"idle", "connect"} => ~trying
  /\ StopHolds
  /\ StatusIsTrue

\* Before the answer to the challenge nothing was sent.
Unsent ==
  /\ step \in {"idle", "connect", "info", "cookie", "challenge"} => given = {}
  /\ proof = "asked" => step = "challenge"

IInv == TypeOK /\ KeyKept /\ Busy /\ Unsent

\* The types, in three parts.
AttemptTyped ==
  /\ step \in Awaits \cup {"idle"} /\ at \in 1..Ports
  /\ how \in AuthMethods \cup {None} /\ proof \in {"none", "asked", "good"} /\ given \subseteq Secrets
FlagsTyped ==
  spare \in BOOLEAN /\ trying \in BOOLEAN /\ live \in BOOLEAN /\ timer \in BOOLEAN /\ stopped \in BOOLEAN
ServiceTyped ==
  /\ key \in Keys \cup {None} /\ saved \in Keys \cup {None} /\ onion \in Keys \cup {None}
  /\ status \in {"starting", "up", "reconnecting", "unavailable"}
  /\ keys \in 0..(MaxKills + 1) /\ kills \in 0..MaxKills /\ announced \subseteq Keys

LEMMA Types == TypeOK <=> AttemptTyped /\ FlagsTyped /\ ServiceTyped
  BY DEF TypeOK, AttemptTyped, FlagsTyped, ServiceTyped

LEMMA Start == ASSUME Init PROVE IInv
<1>1. AttemptTyped
  BY Constants DEF Init, AttemptTyped, Awaits
<1>2. FlagsTyped
  BY DEF Init, FlagsTyped
<1>3. ServiceTyped
  BY Constants DEF Init, ServiceTyped
<1>4. KeyKept
  BY DEF Init, KeyKept
<1>5. Busy
  BY DEF Init, Busy, StopHolds, StatusIsTrue, AttemptTimed
<1>6. Unsent
  BY DEF Init, Unsent
<1>7. QED
  BY <1>1, <1>2, <1>3, <1>4, <1>5, <1>6, Types DEF IInv

\* At the end of a candidate the next one is tried, or a new attempt timed.
LEMMA NextPortBusy ==
  ASSUME TypeOK, Busy, step # "idle", NextPort, UNCHANGED <<live, onion, stopped>>
  PROVE  Busy'
<1>1. ~live /\ ~timer /\ ~trying'
  BY DEF Busy, StopHolds, ServiceUp, AttemptRuns, AttemptTimed, NextPort
<1>2. CASE stopped
  BY <1>1, <1>2 DEF NextPort, Busy, StopHolds, StatusIsTrue
<1>3. CASE ~stopped /\ at < Ports
  BY <1>1, <1>3 DEF TypeOK, NextPort, Busy, StopHolds, StatusIsTrue, AttemptRuns
<1>4. CASE ~stopped /\ ~(at < Ports)
  <2>1. step' = "idle" /\ timer' = ~stopped
        /\ status' = IF onion = None THEN "unavailable" ELSE "reconnecting"
    BY <1>4 DEF NextPort, Down
  <2>2. status' # "up"
    BY <2>1
  <2>3. timer' /\ ~live' /\ ~stopped'
    BY <1>1, <1>4, <2>1
  <2>4. QED
    BY <1>1, <2>1, <2>2, <2>3 DEF Busy, StopHolds, StatusIsTrue, AttemptTimed
<1>5. QED
  BY <1>2, <1>3, <1>4

(* The invariant, one step per action. *)
LEMMA Step ==
  ASSUME IInv, [Next]_vars
  PROVE  IInv'
<1> USE DEF IInv
<1>1. CASE Attempt
  <2>1. TypeOK'
    <3>1. AttemptTyped'
      BY <1>1, Types, Constants DEF Attempt, vars, attempt, service, AttemptTyped, Awaits, AuthMethods, Secrets
    <3>2. FlagsTyped'
      BY <1>1, Types DEF Attempt, vars, attempt, service, FlagsTyped
    <3>3. ServiceTyped'
      BY <1>1, Types, Constants DEF Attempt, vars, attempt, service, ServiceTyped, KeyKept, Keys
    <3>4. QED
      BY <3>1, <3>2, <3>3 DEF TypeOK, AttemptTyped, FlagsTyped, ServiceTyped
  <2>2. KeyKept'
    BY <1>1, Constants DEF Attempt, vars, attempt, service, TypeOK, KeyKept, Keys
  <2>3. Busy'
    BY <1>1 DEF Attempt, vars, attempt, service, TypeOK, Busy, StopHolds, StatusIsTrue, ServiceUp, AttemptRuns, AttemptTimed, Awaits
  <2>4. Unsent'
    BY <1>1 DEF Attempt, vars, attempt, service, TypeOK, Unsent, Awaits
  <2>5. QED
    BY <2>1, <2>2, <2>3, <2>4
<1>2. CASE Fails
  <2>1. TypeOK'
    <3>1. AttemptTyped'
      BY <1>2, Types, Constants DEF Fails, NextPort, Down, vars, attempt, service, AttemptTyped, Awaits, AuthMethods, Secrets
    <3>2. FlagsTyped'
      BY <1>2, Types DEF Fails, NextPort, Down, vars, attempt, service, FlagsTyped
    <3>3. ServiceTyped'
      BY <1>2, Types, Constants DEF Fails, NextPort, Down, vars, attempt, service, ServiceTyped, KeyKept, Keys
    <3>4. QED
      BY <3>1, <3>2, <3>3 DEF TypeOK, AttemptTyped, FlagsTyped, ServiceTyped
  <2>2. KeyKept'
    BY <1>2, Constants DEF Fails, NextPort, Down, vars, attempt, service, TypeOK, KeyKept, Keys
  <2>3. Busy'
    <3>1. step # "idle" /\ NextPort /\ UNCHANGED <<live, onion, stopped>>
      BY <1>2 DEF Fails, service
    <3>2. QED
      BY <3>1, NextPortBusy
  <2>4. Unsent'
    BY <1>2 DEF Fails, NextPort, Down, vars, attempt, service, TypeOK, Unsent, Awaits
  <2>5. QED
    BY <2>1, <2>2, <2>3, <2>4
<1>3. CASE Connected
  <2>1. TypeOK'
    <3>1. AttemptTyped'
      BY <1>3, Types, Constants DEF Connected, vars, attempt, service, AttemptTyped, Awaits, AuthMethods, Secrets
    <3>2. FlagsTyped'
      BY <1>3, Types DEF Connected, vars, attempt, service, FlagsTyped
    <3>3. ServiceTyped'
      BY <1>3, Types, Constants DEF Connected, vars, attempt, service, ServiceTyped, KeyKept, Keys
    <3>4. QED
      BY <3>1, <3>2, <3>3 DEF TypeOK, AttemptTyped, FlagsTyped, ServiceTyped
  <2>2. KeyKept'
    BY <1>3, Constants DEF Connected, vars, attempt, service, TypeOK, KeyKept, Keys
  <2>3. Busy'
    BY <1>3 DEF Connected, vars, attempt, service, TypeOK, Busy, StopHolds, StatusIsTrue, ServiceUp, AttemptRuns, AttemptTimed, Awaits
  <2>4. Unsent'
    BY <1>3 DEF Connected, vars, attempt, service, TypeOK, Unsent, Awaits
  <2>5. QED
    BY <2>1, <2>2, <2>3, <2>4
<1>4. CASE CookieRead
  <2>1. TypeOK'
    <3>1. AttemptTyped'
      BY <1>4, Types, Constants DEF CookieRead, AuthenticatesBy, Sends, vars, attempt, service, AttemptTyped, Awaits, AuthMethods, Secrets
    <3>2. FlagsTyped'
      BY <1>4, Types DEF CookieRead, AuthenticatesBy, Sends, vars, attempt, service, FlagsTyped
    <3>3. ServiceTyped'
      BY <1>4, Types, Constants DEF CookieRead, AuthenticatesBy, Sends, vars, attempt, service, ServiceTyped, KeyKept, Keys
    <3>4. QED
      BY <3>1, <3>2, <3>3 DEF TypeOK, AttemptTyped, FlagsTyped, ServiceTyped
  <2>2. KeyKept'
    BY <1>4, Constants DEF CookieRead, AuthenticatesBy, Sends, vars, attempt, service, TypeOK, KeyKept, Keys
  <2>3. Busy'
    BY <1>4 DEF CookieRead, AuthenticatesBy, Sends, vars, attempt, service, TypeOK, Busy, StopHolds, StatusIsTrue, ServiceUp, AttemptRuns, AttemptTimed, Awaits
  <2>4. Unsent'
    BY <1>4 DEF CookieRead, AuthenticatesBy, Sends, vars, attempt, service, TypeOK, Unsent, Awaits
  <2>5. QED
    BY <2>1, <2>2, <2>3, <2>4
<1>5. CASE CookieUnreadable
  <2>1. TypeOK'
    <3>1. AttemptTyped'
      BY <1>5, Types, Constants DEF CookieUnreadable, AuthenticatesBy, Sends, vars, attempt, service, AttemptTyped, Awaits, AuthMethods, Secrets
    <3>2. FlagsTyped'
      BY <1>5, Types DEF CookieUnreadable, AuthenticatesBy, Sends, vars, attempt, service, FlagsTyped
    <3>3. ServiceTyped'
      BY <1>5, Types, Constants DEF CookieUnreadable, AuthenticatesBy, Sends, vars, attempt, service, ServiceTyped, KeyKept, Keys
    <3>4. QED
      BY <3>1, <3>2, <3>3 DEF TypeOK, AttemptTyped, FlagsTyped, ServiceTyped
  <2>2. KeyKept'
    BY <1>5, Constants DEF CookieUnreadable, AuthenticatesBy, Sends, vars, attempt, service, TypeOK, KeyKept, Keys
  <2>3. Busy'
    BY <1>5 DEF CookieUnreadable, AuthenticatesBy, Sends, vars, attempt, service, TypeOK, Busy, StopHolds, StatusIsTrue, ServiceUp, AttemptRuns, AttemptTimed, Awaits
  <2>4. Unsent'
    BY <1>5 DEF CookieUnreadable, AuthenticatesBy, Sends, vars, attempt, service, TypeOK, Unsent, Awaits
  <2>5. QED
    BY <2>1, <2>2, <2>3, <2>4
<1>6. CASE Proven
  <2>1. TypeOK'
    <3>1. AttemptTyped'
      BY <1>6, Types, Constants DEF Proven, AuthenticatesBy, Sends, vars, attempt, service, AttemptTyped, Awaits, AuthMethods, Secrets
    <3>2. FlagsTyped'
      BY <1>6, Types DEF Proven, AuthenticatesBy, Sends, vars, attempt, service, FlagsTyped
    <3>3. ServiceTyped'
      BY <1>6, Types, Constants DEF Proven, AuthenticatesBy, Sends, vars, attempt, service, ServiceTyped, KeyKept, Keys
    <3>4. QED
      BY <3>1, <3>2, <3>3 DEF TypeOK, AttemptTyped, FlagsTyped, ServiceTyped
  <2>2. KeyKept'
    BY <1>6, Constants DEF Proven, AuthenticatesBy, Sends, vars, attempt, service, TypeOK, KeyKept, Keys
  <2>3. Busy'
    BY <1>6 DEF Proven, AuthenticatesBy, Sends, vars, attempt, service, TypeOK, Busy, StopHolds, StatusIsTrue, ServiceUp, AttemptRuns, AttemptTimed, Awaits
  <2>4. Unsent'
    BY <1>6 DEF Proven, AuthenticatesBy, Sends, vars, attempt, service, TypeOK, Unsent, Awaits
  <2>5. QED
    BY <2>1, <2>2, <2>3, <2>4
<1>7. CASE Unproven
  <2>1. TypeOK'
    <3>1. AttemptTyped'
      BY <1>7, Types, Constants DEF Unproven, NextPort, Down, vars, attempt, service, AttemptTyped, Awaits, AuthMethods, Secrets
    <3>2. FlagsTyped'
      BY <1>7, Types DEF Unproven, NextPort, Down, vars, attempt, service, FlagsTyped
    <3>3. ServiceTyped'
      BY <1>7, Types, Constants DEF Unproven, NextPort, Down, vars, attempt, service, ServiceTyped, KeyKept, Keys
    <3>4. QED
      BY <3>1, <3>2, <3>3 DEF TypeOK, AttemptTyped, FlagsTyped, ServiceTyped
  <2>2. KeyKept'
    BY <1>7, Constants DEF Unproven, NextPort, Down, vars, attempt, service, TypeOK, KeyKept, Keys
  <2>3. Busy'
    <3>1. step # "idle" /\ NextPort /\ UNCHANGED <<live, onion, stopped>>
      BY <1>7 DEF Unproven, service
    <3>2. QED
      BY <3>1, NextPortBusy
  <2>4. Unsent'
    BY <1>7 DEF Unproven, NextPort, Down, vars, attempt, service, TypeOK, Unsent, Awaits
  <2>5. QED
    BY <2>1, <2>2, <2>3, <2>4
<1>8. ASSUME NEW offered \in SUBSET AuthMethods, Informed(offered) PROVE IInv'
  <2>1. TypeOK'
    <3>1. AttemptTyped'
      BY <1>8, Types, Constants DEF Informed, AuthenticatesBy, Sends, vars, attempt, service, AttemptTyped, Awaits, AuthMethods, Secrets
    <3>2. FlagsTyped'
      BY <1>8, Types DEF Informed, AuthenticatesBy, Sends, vars, attempt, service, FlagsTyped
    <3>3. ServiceTyped'
      BY <1>8, Types, Constants DEF Informed, AuthenticatesBy, Sends, vars, attempt, service, ServiceTyped, KeyKept, Keys
    <3>4. QED
      BY <3>1, <3>2, <3>3 DEF TypeOK, AttemptTyped, FlagsTyped, ServiceTyped
  <2>2. KeyKept'
    BY <1>8, Constants DEF Informed, AuthenticatesBy, Sends, vars, attempt, service, TypeOK, KeyKept, Keys
  <2>3. Busy'
    BY <1>8 DEF Informed, AuthenticatesBy, Sends, vars, attempt, service, TypeOK, Busy, StopHolds, StatusIsTrue, ServiceUp, AttemptRuns, AttemptTimed, Awaits
  <2>4. Unsent'
    BY <1>8 DEF Informed, AuthenticatesBy, Sends, vars, attempt, service, TypeOK, Unsent, Awaits
  <2>5. QED
    BY <2>1, <2>2, <2>3, <2>4
<1>9. CASE Authenticated
  <2>1. TypeOK'
    <3>1. AttemptTyped'
      BY <1>9, Types, Constants DEF Authenticated, vars, attempt, service, AttemptTyped, Awaits, AuthMethods, Secrets
    <3>2. FlagsTyped'
      BY <1>9, Types DEF Authenticated, vars, attempt, service, FlagsTyped
    <3>3. ServiceTyped'
      BY <1>9, Types, Constants DEF Authenticated, vars, attempt, service, ServiceTyped, KeyKept, Keys
    <3>4. QED
      BY <3>1, <3>2, <3>3 DEF TypeOK, AttemptTyped, FlagsTyped, ServiceTyped
  <2>2. KeyKept'
    BY <1>9, Constants DEF Authenticated, vars, attempt, service, TypeOK, KeyKept, Keys
  <2>3. Busy'
    BY <1>9 DEF Authenticated, vars, attempt, service, TypeOK, Busy, StopHolds, StatusIsTrue, ServiceUp, AttemptRuns, AttemptTimed, Awaits
  <2>4. Unsent'
    BY <1>9 DEF Authenticated, vars, attempt, service, TypeOK, Unsent, Awaits
  <2>5. QED
    BY <2>1, <2>2, <2>3, <2>4
<1>10. CASE Added
  <2>1. TypeOK'
    <3>1. AttemptTyped'
      BY <1>10, Types, Constants DEF Added, Up, vars, attempt, service, AttemptTyped, Awaits, AuthMethods, Secrets
    <3>2. FlagsTyped'
      BY <1>10, Types DEF Added, Up, vars, attempt, service, FlagsTyped
    <3>3. ServiceTyped'
      BY <1>10, Types, Constants DEF Added, Up, vars, attempt, service, ServiceTyped, KeyKept, Keys
    <3>4. QED
      BY <3>1, <3>2, <3>3 DEF TypeOK, AttemptTyped, FlagsTyped, ServiceTyped
  <2>2. KeyKept'
    BY <1>10, Constants DEF Added, Up, vars, attempt, service, TypeOK, KeyKept, Keys
  <2>3. Busy'
    BY <1>10 DEF Added, Up, vars, attempt, service, TypeOK, Busy, StopHolds, StatusIsTrue, ServiceUp, AttemptRuns, AttemptTimed, Awaits
  <2>4. Unsent'
    BY <1>10 DEF Added, Up, vars, attempt, service, TypeOK, Unsent, Awaits
  <2>5. QED
    BY <2>1, <2>2, <2>3, <2>4
<1>11. CASE Lost
  <2>1. TypeOK'
    <3>1. AttemptTyped'
      BY <1>11, Types, Constants DEF Lost, Down, vars, attempt, service, AttemptTyped, Awaits, AuthMethods, Secrets
    <3>2. FlagsTyped'
      BY <1>11, Types DEF Lost, Down, vars, attempt, service, FlagsTyped
    <3>3. ServiceTyped'
      BY <1>11, Types, Constants DEF Lost, Down, vars, attempt, service, ServiceTyped, KeyKept, Keys
    <3>4. QED
      BY <3>1, <3>2, <3>3 DEF TypeOK, AttemptTyped, FlagsTyped, ServiceTyped
  <2>2. KeyKept'
    BY <1>11, Constants DEF Lost, Down, vars, attempt, service, TypeOK, KeyKept, Keys
  <2>3. Busy'
    BY <1>11 DEF Lost, Down, vars, attempt, service, TypeOK, Busy, StopHolds, StatusIsTrue, ServiceUp, AttemptRuns, AttemptTimed, Awaits
  <2>4. Unsent'
    BY <1>11 DEF Lost, Down, vars, attempt, service, TypeOK, Unsent, Awaits
  <2>5. QED
    BY <2>1, <2>2, <2>3, <2>4
<1>12. CASE Stop
  <2>1. TypeOK'
    <3>1. AttemptTyped'
      BY <1>12, Types, Constants DEF Stop, vars, attempt, service, AttemptTyped, Awaits, AuthMethods, Secrets
    <3>2. FlagsTyped'
      BY <1>12, Types DEF Stop, vars, attempt, service, FlagsTyped
    <3>3. ServiceTyped'
      BY <1>12, Types, Constants DEF Stop, vars, attempt, service, ServiceTyped, KeyKept, Keys
    <3>4. QED
      BY <3>1, <3>2, <3>3 DEF TypeOK, AttemptTyped, FlagsTyped, ServiceTyped
  <2>2. KeyKept'
    BY <1>12, Constants DEF Stop, vars, attempt, service, TypeOK, KeyKept, Keys
  <2>3. Busy'
    BY <1>12 DEF Stop, vars, attempt, service, TypeOK, Busy, StopHolds, StatusIsTrue, ServiceUp, AttemptRuns, AttemptTimed, Awaits
  <2>4. Unsent'
    BY <1>12 DEF Stop, vars, attempt, service, TypeOK, Unsent, Awaits
  <2>5. QED
    BY <2>1, <2>2, <2>3, <2>4
<1>13. CASE Restart
  <2>1. TypeOK'
    <3>1. AttemptTyped'
      BY <1>13, Types, Constants DEF Restart, Boots, vars, attempt, service, AttemptTyped, Awaits, AuthMethods, Secrets
    <3>2. FlagsTyped'
      BY <1>13, Types DEF Restart, Boots, vars, attempt, service, FlagsTyped
    <3>3. ServiceTyped'
      BY <1>13, Types, Constants DEF Restart, Boots, vars, attempt, service, ServiceTyped, KeyKept, Keys
    <3>4. QED
      BY <3>1, <3>2, <3>3 DEF TypeOK, AttemptTyped, FlagsTyped, ServiceTyped
  <2>2. KeyKept'
    BY <1>13, Constants DEF Restart, Boots, vars, attempt, service, TypeOK, KeyKept, Keys
  <2>3. Busy'
    BY <1>13 DEF Restart, Boots, vars, attempt, service, TypeOK, Busy, StopHolds, StatusIsTrue, ServiceUp, AttemptRuns, AttemptTimed, Awaits
  <2>4. Unsent'
    BY <1>13 DEF Restart, Boots, vars, attempt, service, TypeOK, Unsent, Awaits
  <2>5. QED
    BY <2>1, <2>2, <2>3, <2>4
<1>14. CASE Over
  <2>1. TypeOK'
    <3>1. AttemptTyped'
      BY <1>14, Types, Constants DEF Over, vars, attempt, service, AttemptTyped, Awaits, AuthMethods, Secrets
    <3>2. FlagsTyped'
      BY <1>14, Types DEF Over, vars, attempt, service, FlagsTyped
    <3>3. ServiceTyped'
      BY <1>14, Types, Constants DEF Over, vars, attempt, service, ServiceTyped, KeyKept, Keys
    <3>4. QED
      BY <3>1, <3>2, <3>3 DEF TypeOK, AttemptTyped, FlagsTyped, ServiceTyped
  <2>2. KeyKept'
    BY <1>14, Constants DEF Over, vars, attempt, service, TypeOK, KeyKept, Keys
  <2>3. Busy'
    BY <1>14 DEF Over, vars, attempt, service, TypeOK, Busy, StopHolds, StatusIsTrue, ServiceUp, AttemptRuns, AttemptTimed, Awaits
  <2>4. Unsent'
    BY <1>14 DEF Over, vars, attempt, service, TypeOK, Unsent, Awaits
  <2>5. QED
    BY <2>1, <2>2, <2>3, <2>4
<1>15. CASE UNCHANGED vars
  BY <1>15 DEF vars, attempt, service, TypeOK, KeyKept, Busy, Unsent, StopHolds, StatusIsTrue, ServiceUp, AttemptRuns, AttemptTimed
<1>16. QED
  BY <1>1, <1>2, <1>3, <1>4, <1>5, <1>6, <1>7, <1>8, <1>9, <1>10, <1>11, <1>12, <1>13, <1>14, <1>15 DEF Next

\* A step of the services is a step of one of them, and none of the others.
LEMMA ServicesSteps ==
  ASSUME [ServicesNext]_<<which, vars, mapVars, updateVars, supVars, mailVars>>
  PROVE  /\ [Next]_vars
         /\ [P!Next]_mapVars
         /\ [U!Next]_updateVars
         /\ [V!Next]_supVars
         /\ [F!Next]_mailVars
<1>1. CASE UNCHANGED <<which, vars, mapVars, updateVars, supVars, mailVars>>
  BY <1>1
<1>2. CASE ServicesNext
  BY <1>2 DEF ServicesNext
<1>3. QED
  BY <1>1, <1>2

LEMMA Invariant == ServicesSpec => []IInv
<1>1. ServicesInit => IInv
  BY Start DEF ServicesInit
<1>2. IInv /\ [ServicesNext]_<<which, vars, mapVars, updateVars, supVars, mailVars>> => IInv'
  BY Step, ServicesSteps
<1>3. QED
  BY <1>1, <1>2, PTL DEF ServicesSpec

-----------------------------------------------------------------------------

\* The variables of startOnionService and startOnion keep their types.
THEOREM TypeCorrect == ServicesSpec => []TypeOK
<1>1. IInv => TypeOK
  BY DEF IInv
<1>2. QED
  BY <1>1, Invariant, PTL

\* Peers are told one onion address for good: startOnion saves a new key
\* before it announces the address, and every restart takes the saved one.
THEOREM OneAddressTheorem == ServicesSpec => []OneAddress
<1>1. IInv => OneAddress
  <2> SUFFICES ASSUME IInv PROVE Cardinality(announced) <= 1
    BY DEF OneAddress
  <2>1. announced \subseteq {saved}
    BY DEF IInv, KeyKept
  <2>2. IsFiniteSet({saved}) /\ Cardinality({saved}) = 1
    BY FS_Singleton
  <2>3. Cardinality(announced) <= Cardinality({saved})
    BY <2>1, <2>2, FS_Subset
  <2>4. QED
    BY <2>2, <2>3
<1>2. QED
  BY <1>1, Invariant, PTL

\* One service, one attempt or one timer, until stop(); then at most the
\* attempt that was under way.
THEOREM OneOfThreeTheorem == ServicesSpec => []OneOfThree
<1>1. IInv => OneOfThree
  <2> SUFFICES ASSUME IInv PROVE OneOfThree
    OBVIOUS
  <2> DEFINE Now == {x \in {"live", "attempt", "timer"} :
                      \/ x = "live" /\ live
                      \/ x = "attempt" /\ step # "idle"
                      \/ x = "timer" /\ timer}
  <2>1. stopped /\ step = "idle" => Now = {}
    BY DEF IInv, Busy, StopHolds
  <2>2. stopped /\ step # "idle" => Now = {"attempt"}
    BY DEF IInv, Busy, StopHolds
  <2>3. ~stopped => Now = {"live"} \/ Now = {"attempt"} \/ Now = {"timer"}
    <3>1. CASE ServiceUp
      BY <3>1 DEF ServiceUp
    <3>2. CASE AttemptRuns
      BY <3>2 DEF AttemptRuns
    <3>3. CASE AttemptTimed
      BY <3>3 DEF AttemptTimed
    <3>4. QED
      BY <3>1, <3>2, <3>3 DEF IInv, Busy
  <2>4. Cardinality({}) = 0 /\ \A x : Cardinality({x}) = 1
    BY FS_EmptySet, FS_Singleton
  <2>5. Cardinality(Now) = IF stopped THEN (IF step = "idle" THEN 0 ELSE 1) ELSE 1
    <3> HIDE DEF Now
    <3>1. CASE stopped
      BY <2>1, <2>2, <2>4, <3>1
    <3>2. CASE ~stopped
      BY <2>3, <2>4, <3>2
    <3>3. QED
      BY <3>1, <3>2
  <2>6. QED
    BY <2>5 DEF OneOfThree
<1>2. QED
  BY <1>1, Invariant, PTL

\* The console's word on the service is true, and stop() holds.
THEOREM HonestAndStopped == ServicesSpec => [](StatusIsTrue /\ StopHolds)
<1>1. IInv => StatusIsTrue /\ StopHolds
  BY DEF IInv, Busy
<1>2. QED
  BY <1>1, Invariant, PTL

\* Whatever fails at whatever await, neither a second service or attempt comes of
\* it nor none at all, and stop() leaves none.
THEOREM OneAttemptTheorem == ServicesSpec => []OneAttempt
<1>1. StatusIsTrue /\ StopHolds /\ OneOfThree => OneAttempt
  BY DEF OneAttempt
<1>2. QED
  BY <1>1, OneOfThreeTheorem, HonestAndStopped, PTL

\* No secret goes to an end that was challenged and has not answered well.
THEOREM NothingForImpostorsTheorem == ServicesSpec => []NothingForImpostors
<1>1. IInv => NothingForImpostors
  BY DEF IInv, Unsent, NothingForImpostors
<1>2. QED
  BY <1>1, Invariant, PTL

-----------------------------------------------------------------------------
(* The port mapping.                                                       *)

\* The types, in three parts.
RouterTyped ==
  /\ fwd \in P!Entries \cup {None} /\ others \in 0..OthersMap
  /\ faults \in [run : 0..MaxFaults, stop : 0..MaxFaults]
MapTyped ==
  /\ pc \in {"idle", "add", "owner", "replace", "again", "natpmp"}
  /\ job \in {"renew", "map"} /\ lease \in P!Leases
  /\ current \in P!Mapping \cup {None}
  /\ stopper \in {"no", "waiting", "removing", "done"}
  /\ removal \in [P!Removers -> {"no", "owner", "delete", "natpmp"}]
  /\ mapStatus \in {"mapping", "mapped", "failed", "stopped"}
MapMarked ==
  pmp \in BOOLEAN /\ mapTimer \in BOOLEAN /\ mapStopped \in BOOLEAN /\ finished \in BOOLEAN

\* Where stop() is.
StopOrder ==
  /\ stopper = "no" <=> ~mapStopped
  /\ stopper = "removing" <=> removal["stop"] # "no"
  /\ finished => mapStopped
  /\ stopper \in {"removing", "done"} => pc = "idle" /\ current = None
  /\ removal["late"] # "no" => finished /\ pc = "idle"

\* What a cycle is about.
CycleOrder ==
  pc # "idle" =>
    /\ job = "map" => current = None
    /\ job = "renew" => current # None /\ (current.method = "natpmp" <=> pc = "natpmp")

\* The mapping held, and what is being removed.
Held(method) == current # None /\ current.method = method
Going(method) ==
  \E w \in P!Removers : removal[w] \in IF method = "upnp" THEN {"owner", "delete"} ELSE {"natpmp"}

\* Without faults, what the router forwards for us is held, or being removed.
NoFaults == faults.run + faults.stop = 0
Accounted ==
  NoFaults =>
    /\ P!IsOurs => Held("upnp") \/ Going("upnp")
    /\ pmp => Held("natpmp") \/ Going("natpmp")
    /\ pc = "again" => ~P!IsOurs

MapInv == RouterTyped /\ MapTyped /\ StopOrder /\ CycleOrder /\ Accounted

LEMMA MapStart == ASSUME P!Init PROVE MapInv
<1>1. RouterTyped
  BY FaultsAssumption DEF P!Init, RouterTyped
<1>2. MapTyped
  BY DEF P!Init, MapTyped, P!Requested, P!Leases, P!Removers
<1>3. StopOrder /\ CycleOrder
  BY DEF P!Init, StopOrder, CycleOrder, P!Removers
<1>4. Accounted
  BY NoMappingAssumption DEF P!Init, Accounted, P!IsOurs, P!Ours, P!Entries, P!Leases
<1>5. QED
  BY <1>1, <1>2, <1>3, <1>4 DEF MapInv

\* A fault is counted, and others stay.
LEMMA Faulty ==
  ASSUME RouterTyped, P!Fault
  PROVE  faults' \in [run : 0..MaxFaults, stop : 0..MaxFaults] /\ ~NoFaults'
BY FaultsAssumption DEF RouterTyped, P!Fault, NoFaults

\* How a cycle ends: what the step itself did to the router is Owned.
LEMMA Misses ==
  ASSUME MapInv, pc # "idle", P!Missed
  PROVE  /\ MapTyped' /\ StopOrder' /\ CycleOrder' /\ pc' # "again"
         /\ removal' = removal /\ stopper' = stopper /\ mapStopped' = mapStopped
         /\ current' = current \/ (job = "renew" /\ current' = None /\ ~mapStopped)
<1> USE DEF P!stop
<1>1. MapTyped /\ StopOrder /\ CycleOrder
  BY DEF MapInv
<1>2. P!FirstMethod \in {"add", "natpmp"} /\ P!Requested \in P!Leases
  BY DEF P!FirstMethod, P!Requested, P!Leases
<1>3. MapTyped'
  BY <1>1, <1>2 DEF P!Missed, MapTyped
<1>4. StopOrder'
  BY <1>1, <1>2 DEF P!Missed, StopOrder, MapTyped
<1>5. CycleOrder'
  BY <1>1, <1>2 DEF P!Missed, CycleOrder, MapTyped
<1>6. QED
  BY <1>3, <1>4, <1>5, <1>2 DEF P!Missed

LEMMA Grants ==
  ASSUME MapInv, pc # "idle", NEW m \in {"upnp", "natpmp"}, NEW l \in P!Leases,
         (m = "natpmp") <=> (pc = "natpmp"),
         P!Granted([method |-> m, lease |-> l]), lease' = lease
  PROVE  /\ MapTyped' /\ StopOrder' /\ CycleOrder' /\ pc' = "idle"
         /\ Held(m)' \/ Going(m)'
         /\ \A o \in {"upnp", "natpmp"} \ {m} : Held(o) \/ Going(o) => Held(o)' \/ Going(o)'
<1> DEFINE r == [method |-> m, lease |-> l]
<1>1. MapTyped /\ StopOrder /\ CycleOrder
  BY DEF MapInv
<1>2. r \in P!Mapping /\ r # None /\ r.method = m
  BY NoMappingAssumption DEF P!Mapping
<1> HIDE DEF r
<1>3. P!Granted(r)
  BY DEF r
<1>4. P!Removing(m) = IF m = "upnp" THEN "owner" ELSE "natpmp"
  BY DEF P!Removing
<1>5. CASE mapStopped /\ finished
  <2>1. removal' = [removal EXCEPT !["late"] = P!Removing(m)] /\ current' = current
    BY <1>2, <1>3, <1>5 DEF P!Granted, P!Adopt
  <2>2. pc' = "idle" /\ UNCHANGED <<mapTimer, mapStatus, job, mapStopped, finished, stopper>>
    BY <1>3, <1>5 DEF P!Granted
  <2>3. removal["late"] = "no"
    BY <1>1 DEF StopOrder
  <2>4. /\ removal'["late"] = P!Removing(m) /\ removal'["stop"] = removal["stop"]
        /\ removal' \in [P!Removers -> {"no", "owner", "delete", "natpmp"}]
    BY <1>1, <1>4, <2>1 DEF MapTyped, P!Removers
  <2>5. MapTyped' /\ StopOrder' /\ CycleOrder'
    BY <1>1, <1>4, <1>5, <2>1, <2>2, <2>4 DEF MapTyped, StopOrder, CycleOrder
  <2>6. Going(m)'
    BY <1>4, <2>4 DEF Going, P!Removers
  <2>7. ASSUME NEW o \in {"upnp", "natpmp"} \ {m}, Held(o) \/ Going(o) PROVE Held(o)' \/ Going(o)'
    BY <2>1, <2>3, <2>4, <2>7 DEF Held, Going, P!Removers
  <2>8. QED
    BY <2>2, <2>5, <2>6, <2>7
<1>6. CASE ~(mapStopped /\ finished)
  <2>1. current' = r /\ removal' = removal
    BY <1>3, <1>6 DEF P!Granted, P!Adopt
  <2>2. pc' = "idle" /\ UNCHANGED <<job, mapStopped, finished, stopper>> /\ mapStatus' \in {mapStatus, "mapped"}
    BY <1>3, <1>6 DEF P!Granted
  <2>3. stopper \notin {"removing", "done"}
    BY <1>1 DEF StopOrder
  <2>4. MapTyped' /\ StopOrder' /\ CycleOrder'
    BY <1>1, <1>2, <2>1, <2>2, <2>3 DEF MapTyped, StopOrder, CycleOrder
  <2>5. Held(m)'
    BY <1>2, <2>1 DEF Held
  <2>6. ASSUME NEW o \in {"upnp", "natpmp"} \ {m}, Held(o) \/ Going(o) PROVE Going(o)'
    <3>1. ~Held(o)
      BY <1>1 DEF Held, CycleOrder, MapTyped
    <3>2. QED
      BY <2>1, <2>6, <3>1 DEF Going
  <2>7. QED
    BY <2>2, <2>4, <2>5, <2>6
<1>7. QED
  BY <1>5, <1>6

\* While a cycle is under way nothing is being removed.
LEMMA NothingGoes ==
  ASSUME MapInv, pc # "idle"
  PROVE  ~Going("upnp") /\ ~Going("natpmp")
BY DEF MapInv, MapTyped, StopOrder, Going, P!Removers

LEMMA MapAdd == ASSUME MapInv, P!Add PROVE MapInv'
<1>0. RouterTyped /\ MapTyped /\ StopOrder /\ CycleOrder /\ Accounted /\ pc # "idle" /\ pc # "natpmp" /\ pmp' = pmp
      /\ others' = others
  BY DEF MapInv, P!Add
<1>1. P!Ours(lease) \in P!Entries
  BY <1>0 DEF MapTyped, P!Ours, P!Entries
<1>2. CASE lease' = "permanent" /\ UNCHANGED <<fwd, pc, job, current, mapTimer, mapStatus, P!stop, faults>>
  <2> USE DEF P!stop
  <2>1. RouterTyped' /\ MapTyped' /\ StopOrder' /\ CycleOrder'
    BY <1>0, <1>2 DEF RouterTyped, MapTyped, StopOrder, CycleOrder, P!Leases
  <2>2. Accounted'
    BY <1>0, <1>2 DEF Accounted, NoFaults, Held, Going, P!IsOurs
  <2>3. QED
    BY <2>1, <2>2 DEF MapInv
<1>3. CASE pc' = "owner" /\ UNCHANGED <<fwd, faults, job, lease, current, mapTimer, mapStatus, P!stop>>
  <2> USE DEF P!stop
  <2>1. RouterTyped' /\ MapTyped' /\ StopOrder' /\ CycleOrder'
    BY <1>0, <1>3 DEF RouterTyped, MapTyped, StopOrder, CycleOrder
  <2>2. Accounted'
    BY <1>0, <1>3 DEF Accounted, NoFaults, Held, Going, P!IsOurs
  <2>3. QED
    BY <2>1, <2>2 DEF MapInv
<1>4. CASE pc = "again" /\ P!Missed /\ UNCHANGED <<fwd, faults>>
  <2>1. RouterTyped'
    BY <1>0, <1>4 DEF RouterTyped
  <2>2. ~NoFaults' \/ ~P!IsOurs
    BY <1>0, <1>4 DEF Accounted, NoFaults
  <2>3. ~Held("natpmp") /\ ~Going("natpmp")
    BY <1>0, NothingGoes DEF Held, CycleOrder, MapTyped
  <2>4. Accounted'
    BY <1>0, <1>4, <2>2, <2>3, Misses DEF Accounted, NoFaults, P!IsOurs
  <2>5. QED
    BY <1>0, <1>4, <2>1, <2>4, Misses DEF MapInv
<1>5. CASE fwd' = P!Ours(lease) /\ lease' = lease /\ faults' = faults
           /\ P!Granted([method |-> "upnp", lease |-> lease])
  <2>1. RouterTyped'
    BY <1>0, <1>1, <1>5 DEF RouterTyped
  <2>2. /\ MapTyped' /\ StopOrder' /\ CycleOrder' /\ pc' = "idle"
        /\ Held("upnp")' \/ Going("upnp")'
        /\ Held("natpmp") \/ Going("natpmp") => Held("natpmp")' \/ Going("natpmp")'
    <3>1. lease \in P!Leases
      BY <1>0 DEF MapTyped
    <3>2. QED
      BY <1>0, <1>5, <3>1, Grants
  <2>3. Accounted'
    BY <1>0, <1>5, <2>2 DEF Accounted, NoFaults
  <2>4. QED
    BY <2>1, <2>2, <2>3 DEF MapInv
<1>6. CASE fwd' \in {fwd, P!Ours(lease)} /\ P!Fault /\ P!Missed
  <2>1. RouterTyped' /\ ~NoFaults'
    BY <1>0, <1>1, <1>6, Faulty DEF RouterTyped
  <2>2. QED
    BY <1>0, <1>6, <2>1, Misses DEF MapInv, Accounted
<1>7. QED
  BY <1>2, <1>3, <1>4, <1>5, <1>6 DEF P!Add

LEMMA MapOwner == ASSUME MapInv, P!Owner PROVE MapInv'
<1>0. RouterTyped /\ MapTyped /\ StopOrder /\ CycleOrder /\ Accounted /\ pc = "owner"
      /\ UNCHANGED <<fwd, pmp, others>>
  BY DEF MapInv, P!Owner, P!router
<1>1. CASE pc' = "replace" /\ UNCHANGED <<job, lease, current, mapTimer, mapStatus, P!stop, faults>>
  <2> USE DEF P!stop
  <2>1. RouterTyped' /\ MapTyped' /\ StopOrder' /\ CycleOrder'
    BY <1>0, <1>1 DEF RouterTyped, MapTyped, StopOrder, CycleOrder
  <2>2. Accounted'
    BY <1>0, <1>1 DEF Accounted, NoFaults, Held, Going, P!IsOurs
  <2>3. QED
    BY <2>1, <2>2 DEF MapInv
<1>2. CASE ~P!IsOurs /\ P!Missed /\ faults' = faults
  <2>1. RouterTyped'
    BY <1>0, <1>2 DEF RouterTyped
  <2>2. ~Held("natpmp") /\ ~Going("natpmp")
    BY <1>0, NothingGoes DEF Held, CycleOrder, MapTyped
  <2>3. Accounted'
    BY <1>0, <1>2, <2>2, Misses DEF Accounted, NoFaults, P!IsOurs
  <2>4. QED
    BY <1>0, <1>2, <2>1, <2>3, Misses DEF MapInv
<1>3. CASE P!Fault /\ P!Missed
  <2>1. RouterTyped' /\ ~NoFaults'
    BY <1>0, <1>3, Faulty DEF RouterTyped
  <2>2. QED
    BY <1>0, <1>3, <2>1, Misses DEF MapInv, Accounted
<1>4. QED
  BY <1>1, <1>2, <1>3 DEF P!Owner

LEMMA MapReplace == ASSUME MapInv, P!Replace PROVE MapInv'
<1> USE DEF P!stop
<1>0. RouterTyped /\ MapTyped /\ StopOrder /\ CycleOrder /\ Accounted
  BY DEF MapInv
<1>1. MapTyped' /\ StopOrder' /\ CycleOrder'
  BY <1>0 DEF P!Replace, MapTyped, StopOrder, CycleOrder
<1>2. RouterTyped'
  BY <1>0, Faulty DEF P!Replace, RouterTyped
<1>3. Accounted'
  <2>1. CASE fwd' = None /\ faults' = faults
    <3>1. ~P!IsOurs'
      BY <1>0, <2>1, NoMappingAssumption DEF P!IsOurs, P!Ours, P!Entries, P!Leases
    <3>2. QED
      BY <1>0, <2>1, <3>1 DEF P!Replace, Accounted, NoFaults, Held, Going
  <2>2. CASE P!Fault
    BY <1>0, <2>2, Faulty DEF Accounted
  <2>3. QED
    BY <2>1, <2>2 DEF P!Replace
<1>4. QED
  BY <1>1, <1>2, <1>3 DEF MapInv

LEMMA MapNatpmp == ASSUME MapInv, P!Natpmp PROVE MapInv'
<1>0. RouterTyped /\ MapTyped /\ StopOrder /\ CycleOrder /\ Accounted /\ pc = "natpmp"
      /\ UNCHANGED <<fwd, others>>
  BY DEF MapInv, P!Natpmp
<1>1. CASE P!Granted([method |-> "natpmp", lease |-> "timed"]) /\ lease' = lease /\ faults' = faults
  <2>1. RouterTyped'
    BY <1>0, <1>1 DEF RouterTyped
  <2>2. /\ MapTyped' /\ StopOrder' /\ CycleOrder' /\ pc' = "idle"
        /\ Held("natpmp")' \/ Going("natpmp")'
        /\ Held("upnp") \/ Going("upnp") => Held("upnp")' \/ Going("upnp")'
    <3>1. "timed" \in P!Leases
      BY DEF P!Leases
    <3>2. QED
      BY <1>0, <1>1, <3>1, Grants
  <2>3. Accounted'
    BY <1>0, <1>1, <2>2 DEF Accounted, NoFaults, P!IsOurs
  <2>4. QED
    BY <2>1, <2>2, <2>3 DEF MapInv
<1>2. CASE P!Fault /\ P!Missed
  <2>1. RouterTyped' /\ ~NoFaults'
    BY <1>0, <1>2, Faulty DEF RouterTyped
  <2>2. QED
    BY <1>0, <1>2, <2>1, Misses DEF MapInv, Accounted
<1>3. QED
  BY <1>1, <1>2 DEF P!Natpmp

\* One removal goes on or is over.
LEMMA RemovalStep ==
  ASSUME MapInv, NEW w \in P!Removers, removal[w] # "no", NEW to \in {"no", "delete"},
         removal' = [removal EXCEPT ![w] = to],
         stopper' = IF w = "stop" /\ to = "no" THEN "done" ELSE stopper,
         UNCHANGED <<pc, job, lease, current, mapTimer, mapStatus, mapStopped, finished>>
  PROVE  /\ MapTyped' /\ StopOrder' /\ CycleOrder'
         /\ removal'[w] = to /\ \A v \in P!Removers \ {w} : removal'[v] = removal[v]
<1>1. MapTyped /\ StopOrder /\ CycleOrder
  BY DEF MapInv
<1>2. removal'[w] = to /\ \A v \in P!Removers \ {w} : removal'[v] = removal[v]
  BY <1>1 DEF MapTyped
<1>3. MapTyped'
  BY <1>1 DEF MapTyped
<1>4. CASE w = "stop"
  <2>1. stopper = "removing"
    BY <1>1, <1>4 DEF StopOrder
  <2>2. removal'["late"] = removal["late"]
    BY <1>2, <1>4 DEF P!Removers
  <2>3. StopOrder'
    BY <1>1, <1>2, <1>4, <2>1, <2>2 DEF StopOrder
  <2>4. QED
    BY <1>1, <1>2, <1>3, <2>3 DEF CycleOrder
<1>5. CASE w = "late"
  <2>1. removal'["stop"] = removal["stop"]
    BY <1>2, <1>5 DEF P!Removers
  <2>2. StopOrder'
    BY <1>1, <1>2, <1>5, <2>1 DEF StopOrder
  <2>3. QED
    BY <1>1, <1>2, <1>3, <2>2 DEF CycleOrder
<1>6. QED
  BY <1>4, <1>5 DEF P!Removers

LEMMA MapAsks == ASSUME MapInv, NEW w \in P!Removers, P!RemovalAsks(w) PROVE MapInv'
<1> USE DEF P!router, P!cycle
<1>0. RouterTyped /\ MapTyped /\ StopOrder /\ CycleOrder /\ Accounted /\ removal[w] = "owner"
      /\ UNCHANGED <<fwd, pmp, pc, job, lease, current, mapTimer, mapStatus, mapStopped, finished, others>>
  BY DEF MapInv, P!RemovalAsks
<1>1. CASE removal' = [removal EXCEPT ![w] = "delete"] /\ stopper' = stopper
           /\ (faults' = faults \/ P!Fault)
  <2>1. /\ MapTyped' /\ StopOrder' /\ CycleOrder'
        /\ removal'[w] = "delete" /\ \A v \in P!Removers \ {w} : removal'[v] = removal[v]
    BY <1>0, <1>1, RemovalStep
  <2>2. RouterTyped'
    BY <1>0, <1>1, Faulty DEF RouterTyped
  <2>3. Going("upnp")' /\ (Going("natpmp") => Going("natpmp")')
    BY <1>0, <2>1 DEF Going
  <2>4. Accounted'
    <3>1. CASE P!Fault
      BY <1>0, <3>1, Faulty DEF Accounted
    <3>2. CASE faults' = faults
      BY <1>0, <2>3, <3>2 DEF Accounted, NoFaults, Held, P!IsOurs
    <3>3. QED
      BY <1>1, <3>1, <3>2
  <2>5. QED
    BY <2>1, <2>2, <2>4 DEF MapInv
<1>2. CASE ~P!IsOurs /\ P!RemovalOver(w) /\ faults' = faults
  <2>1. /\ MapTyped' /\ StopOrder' /\ CycleOrder'
        /\ removal'[w] = "no" /\ \A v \in P!Removers \ {w} : removal'[v] = removal[v]
    BY <1>0, <1>2, RemovalStep DEF P!RemovalOver
  <2>2. RouterTyped'
    BY <1>0, <1>2 DEF RouterTyped
  <2>3. Going("natpmp") => Going("natpmp")'
    BY <1>0, <2>1 DEF Going
  <2>4. Accounted'
    BY <1>0, <1>2, <2>3 DEF Accounted, NoFaults, Held, P!IsOurs
  <2>5. QED
    BY <2>1, <2>2, <2>4 DEF MapInv
<1>3. QED
  BY <1>1, <1>2 DEF P!RemovalAsks

LEMMA MapDeletes == ASSUME MapInv, NEW w \in P!Removers, P!RemovalDeletes(w) PROVE MapInv'
<1> USE DEF P!cycle
<1>0. RouterTyped /\ MapTyped /\ StopOrder /\ CycleOrder /\ Accounted /\ removal[w] \in {"delete", "natpmp"}
      /\ UNCHANGED <<pc, job, lease, current, mapTimer, mapStatus, mapStopped, finished, others>>
  BY DEF MapInv, P!RemovalDeletes
<1>1. /\ MapTyped' /\ StopOrder' /\ CycleOrder'
      /\ removal'[w] = "no" /\ \A v \in P!Removers \ {w} : removal'[v] = removal[v]
  BY <1>0, RemovalStep DEF P!RemovalDeletes, P!RemovalOver
<1>2. RouterTyped'
  BY <1>0, Faulty DEF P!RemovalDeletes, RouterTyped
<1>3. CASE P!Fault
  BY <1>0, <1>1, <1>2, <1>3, Faulty DEF MapInv, Accounted
<1>4. CASE removal[w] = "delete" /\ pmp' = pmp /\ fwd' = None /\ faults' = faults
  <2>1. ~P!IsOurs'
    BY <1>0, <1>4, NoMappingAssumption DEF P!IsOurs, P!Ours, P!Entries, P!Leases
  <2>2. Going("natpmp") => Going("natpmp")'
    BY <1>0, <1>1, <1>4 DEF Going
  <2>3. Accounted'
    BY <1>0, <1>4, <2>1, <2>2 DEF Accounted, NoFaults, Held
  <2>4. QED
    BY <1>1, <1>2, <2>3 DEF MapInv
<1>5. CASE removal[w] = "natpmp" /\ fwd' = fwd /\ pmp' = FALSE /\ faults' = faults
  <2>1. Going("upnp") => Going("upnp")'
    BY <1>0, <1>1, <1>5 DEF Going
  <2>2. Accounted'
    BY <1>0, <1>5, <2>1 DEF Accounted, NoFaults, Held, P!IsOurs
  <2>3. QED
    BY <1>1, <1>2, <2>2 DEF MapInv
<1>6. QED
  BY <1>0, <1>3, <1>4, <1>5 DEF P!RemovalDeletes

LEMMA MapStops == ASSUME MapInv, P!Stop \/ P!StopTakes \/ P!StopEnds \/ P!Cycle PROVE MapInv'
<1> USE DEF P!router, P!stop
<1>0. RouterTyped /\ MapTyped /\ StopOrder /\ CycleOrder /\ Accounted
      /\ UNCHANGED <<fwd, pmp, faults, others>>
  BY DEF MapInv, P!Stop, P!StopTakes, P!StopEnds, P!Cycle
<1>1. RouterTyped'
  BY <1>0 DEF RouterTyped
<1>2. CASE P!Stop
  <2>1. MapTyped' /\ StopOrder' /\ CycleOrder'
    BY <1>0, <1>2 DEF P!Stop, MapTyped, StopOrder, CycleOrder
  <2>2. Accounted'
    BY <1>0, <1>2 DEF P!Stop, Accounted, NoFaults, Held, Going, P!IsOurs
  <2>3. QED
    BY <1>1, <2>1, <2>2 DEF MapInv
<1>3. CASE P!StopEnds
  <2>1. MapTyped' /\ StopOrder' /\ CycleOrder'
    BY <1>0, <1>3 DEF P!StopEnds, MapTyped, StopOrder, CycleOrder
  <2>2. Accounted'
    BY <1>0, <1>3 DEF P!StopEnds, Accounted, NoFaults, Held, Going, P!IsOurs
  <2>3. QED
    BY <1>1, <2>1, <2>2 DEF MapInv
<1>4. CASE P!Cycle
  <2>0. P!FirstMethod \in {"add", "natpmp"} /\ P!Requested \in P!Leases
    BY DEF P!FirstMethod, P!Requested, P!Leases
  <2>1. current # None => current.lease \in P!Leases /\ current.method \in {"upnp", "natpmp"}
    BY <1>0 DEF MapTyped, P!Mapping
  <2>2. MapTyped'
    BY <1>0, <1>4, <2>0, <2>1 DEF P!Cycle, MapTyped
  <2>3. StopOrder' /\ CycleOrder' /\ pc' # "again"
    BY <1>0, <1>4, <2>0, <2>1 DEF P!Cycle, StopOrder, CycleOrder
  <2>4. Accounted'
    BY <1>0, <1>4, <2>3 DEF P!Cycle, Accounted, NoFaults, Held, Going, P!IsOurs
  <2>5. QED
    BY <1>1, <2>2, <2>3, <2>4 DEF MapInv
<1>5. CASE P!StopTakes
  <2>1. removal["stop"] = "no"
    BY <1>0, <1>5 DEF P!StopTakes, StopOrder
  <2>2. CASE current = None
    <3>1. MapTyped' /\ StopOrder' /\ CycleOrder'
      BY <1>0, <1>5, <2>1, <2>2 DEF P!StopTakes, MapTyped, StopOrder, CycleOrder
    <3>2. Accounted'
      BY <1>0, <1>5, <2>2 DEF P!StopTakes, Accounted, NoFaults, Held, Going, P!IsOurs
    <3>3. QED
      BY <1>1, <3>1, <3>2 DEF MapInv
  <2>3. CASE current # None
    <3>1. current.method \in {"upnp", "natpmp"}
      BY <1>0, <2>3 DEF MapTyped, P!Mapping
    <3>2. P!Removing(current.method) = IF current.method = "upnp" THEN "owner" ELSE "natpmp"
      BY DEF P!Removing
    <3>3. /\ removal' \in [P!Removers -> {"no", "owner", "delete", "natpmp"}]
          /\ removal'["stop"] = P!Removing(current.method) /\ removal'["late"] = removal["late"]
      BY <1>0, <1>5, <2>3, <3>2 DEF P!StopTakes, MapTyped, P!Removers
    <3>4. /\ current' = None /\ stopper' = "removing" /\ pc = "idle"
          /\ UNCHANGED <<pc, job, lease, mapStatus, mapStopped, finished>> /\ stopper = "waiting"
      BY <1>5, <2>3 DEF P!StopTakes
    <3>5. MapTyped' /\ StopOrder' /\ CycleOrder'
      BY <1>0, <3>2, <3>3, <3>4 DEF MapTyped, StopOrder, CycleOrder
    <3>6. ASSUME NEW m \in {"upnp", "natpmp"}, Held(m) \/ Going(m) PROVE Going(m)'
      BY <2>1, <3>1, <3>2, <3>3, <3>6 DEF Held, Going, P!Removers
    <3>7. Accounted'
      BY <1>0, <3>4, <3>6 DEF Accounted, NoFaults, P!IsOurs
    <3>8. QED
      BY <1>1, <3>5, <3>7 DEF MapInv
  <2>4. QED
    BY <2>2, <2>3
<1>6. QED
  BY <1>2, <1>3, <1>4, <1>5

LEMMA MapWorld == ASSUME MapInv, P!Forgets \/ P!OtherMaps \/ P!Done \/ UNCHANGED mapVars PROVE MapInv'
<1> USE DEF P!cycle, P!stop, P!vars, P!router, mapVars
<1>0. RouterTyped /\ MapTyped /\ StopOrder /\ CycleOrder /\ Accounted
      /\ UNCHANGED <<pc, job, lease, current, mapTimer, mapStatus, mapStopped, finished, stopper, removal, faults>>
      /\ (pmp' = pmp \/ ~pmp')
      /\ (fwd' = fwd \/ fwd' = None \/ fwd' = P!Others)
      /\ others' \in {others, others + 1} /\ (others' = others \/ others < OthersMap)
  BY DEF MapInv, P!Forgets, P!OtherMaps, P!Done
<1>1. P!Others \in P!Entries /\ P!Others # None
  BY NoMappingAssumption DEF P!Others, P!Entries, P!Leases
<1>2. RouterTyped'
  BY <1>0, <1>1, FaultsAssumption DEF RouterTyped
<1>3. MapTyped' /\ StopOrder' /\ CycleOrder'
  BY <1>0 DEF MapTyped, StopOrder, CycleOrder
<1>4. P!IsOurs' => P!IsOurs
  BY <1>0, NoMappingAssumption DEF P!IsOurs, P!Ours, P!Others, P!Entries, P!Leases
<1>5. Accounted'
  BY <1>0, <1>4 DEF Accounted, NoFaults, Held, Going
<1>6. QED
  BY <1>2, <1>3, <1>5 DEF MapInv

LEMMA MapStep == ASSUME MapInv, [P!Next]_mapVars PROVE MapInv'
<1>1. CASE UNCHANGED mapVars
  BY <1>1, MapWorld
<1>2. CASE P!Next
  BY <1>2, MapAdd, MapOwner, MapReplace, MapNatpmp, MapStops, MapAsks, MapDeletes, MapWorld
     DEF P!Next, P!Controller
<1>3. QED
  BY <1>1, <1>2

LEMMA MapMarks == ASSUME MapMarked, [P!Next]_mapVars PROVE MapMarked'
<1> USE DEF MapMarked, P!router, P!cycle, P!stop
<1>1. ASSUME P!Missed PROVE mapTimer' \in BOOLEAN /\ UNCHANGED <<mapStopped, finished>>
  BY <1>1 DEF P!Missed
<1>2. ASSUME NEW r, P!Granted(r) PROVE mapTimer' \in BOOLEAN /\ UNCHANGED <<mapStopped, finished>>
  BY <1>2 DEF P!Granted
<1>3. CASE P!Add \/ P!Owner
  BY <1>3, <1>1, <1>2 DEF P!Add, P!Owner
<1>4. CASE P!Natpmp
  BY <1>4, <1>1, <1>2 DEF P!Natpmp
<1>5. CASE P!Cycle \/ P!Replace \/ P!Stop \/ P!StopTakes \/ P!StopEnds \/ P!Forgets \/ P!OtherMaps \/ P!Done
  BY <1>5 DEF P!Cycle, P!Replace, P!Stop, P!StopTakes, P!StopEnds, P!Forgets, P!OtherMaps, P!Done, P!vars
<1>6. ASSUME NEW w, P!RemovalAsks(w) \/ P!RemovalDeletes(w) PROVE MapMarked'
  BY <1>6 DEF P!RemovalAsks, P!RemovalDeletes
<1>7. CASE UNCHANGED mapVars
  BY <1>7 DEF mapVars
<1>8. QED
  BY <1>3, <1>4, <1>5, <1>6, <1>7 DEF P!Next, P!Controller

LEMMA MapTypes == MapInv /\ MapMarked => P!TypeOK
  BY DEF MapInv, RouterTyped, MapTyped, MapMarked, P!TypeOK

LEMMA MapInvariant == ServicesSpec => [](MapInv /\ MapMarked)
<1>1. ServicesInit => MapInv /\ MapMarked
  BY MapStart DEF ServicesInit, P!Init, MapMarked
<1>2. MapInv /\ MapMarked /\ [ServicesNext]_<<which, vars, mapVars, updateVars, supVars, mailVars>>
        => (MapInv /\ MapMarked)'
  BY MapStep, MapMarks, ServicesSteps
<1>3. QED
  BY <1>1, <1>2, PTL DEF ServicesSpec

\* stop() leaves nothing at the router, at whatever moment it is called and however many
\* answers are still to come when it returns, as long as the router answers.
THEOREM LeavesNothingTheorem == ServicesSpec => []LeavesNothing
<1>1. MapInv => LeavesNothing
  <2> SUFFICES ASSUME MapInv, P!Quiet, NoFaults PROVE ~pmp /\ ~P!IsOurs
    BY DEF LeavesNothing, P!LeavesNothing, NoFaults
  <2>1. current = None /\ \A w \in P!Removers : removal[w] = "no"
    BY DEF P!Quiet, MapInv, StopOrder
  <2>2. QED
    BY <2>1 DEF MapInv, Accounted, Held, Going
<1>2. QED
  BY <1>1, MapInvariant, PTL

-----------------------------------------------------------------------------
(* Updates.                                                                *)

\* The types, in four parts.
CallsTyped ==
  /\ call \in [Calls -> {"none", "waits", "over"} \cup U!Awaits]
  /\ want \in [Calls -> U!Versions] /\ whole \in [Calls -> BOOLEAN]
  /\ part \in Calls \cup {None} /\ dest \in Calls \cup {None}
DaemonTyped ==
  /\ kind \in Kinds /\ released \in U!Versions
  /\ info \in {"idle", "checking", "available", "error", "installing"}
  /\ last \in U!Versions
  /\ manifest \in U!Versions /\ request \in U!Versions
  /\ result \in U!Answers \cup {None}
Marked == checking \in 0..2 /\ asked \in BOOLEAN
RootTyped ==
  /\ root \in {"idle", "verify", "package", "install", "tidy"} /\ rootJob \in U!Versions
  /\ copy \in U!Program /\ installed \in U!Program

\* What was offered, or is in a file, is a release.
Offered ==
  /\ last <= released /\ \A c \in Calls : want[c] <= released
  /\ \A p \in {copy, installed} : p.version <= released

\* What root's side or Windows has taken for itself is a whole one; and on Windows
\* nothing is left to root's side, and the file to start has its name.
Trusted ==
  /\ copy.whole /\ installed.whole
  /\ kind = "windows" =>
       /\ request = 0 /\ root = "idle"
       /\ \A c \in Calls : call[c] = "hand" => dest # None

UpdateInv == CallsTyped /\ DaemonTyped /\ RootTyped /\ Offered /\ Trusted

LEMMA UpStart == ASSUME U!Init PROVE UpdateInv
<1>1. CallsTyped
  BY NewestAssumption DEF U!Init, CallsTyped, U!Versions, U!Awaits
<1>2. DaemonTyped
  BY NewestAssumption DEF U!Init, DaemonTyped, U!Versions, U!Answers
<1>3. RootTyped
  BY NewestAssumption DEF U!Init, RootTyped, U!Versions, U!Program, U!Program0
<1>4. Offered
  BY DEF U!Init, Offered, U!Program0
<1>5. Trusted
  BY DEF U!Init, Trusted, U!Program0
<1>6. QED
  BY <1>1, <1>2, <1>3, <1>4, <1>5 DEF UpdateInv

\* A restart forgets the calls.
LEMMA UpRestarts ==
  ASSUME UpdateInv, NEW answer, answer \in U!Answers \cup {None}, U!DaemonRestarts(answer),
         UNCHANGED <<kind, released, whole, part, dest, manifest, request, asked>>
  PROVE  CallsTyped' /\ DaemonTyped' /\ last' = 0 /\ \A c \in Calls : call'[c] # "hand"
<1>1. CallsTyped'
  BY DEF UpdateInv, U!DaemonRestarts, CallsTyped, U!Awaits
<1>2. DaemonTyped'
  BY NewestAssumption DEF UpdateInv, U!DaemonRestarts, DaemonTyped, U!Answers, U!Versions
<1>3. QED
  BY <1>1, <1>2 DEF U!DaemonRestarts

LEMMA UpStep == ASSUME UpdateInv, [U!Next]_updateVars PROVE UpdateInv'
<1> USE DEF U!memory, U!disk, U!handed, U!rooted
<1>0. CallsTyped /\ DaemonTyped /\ RootTyped /\ Offered /\ Trusted
  BY DEF UpdateInv
<1>1. CASE U!Releases
  BY <1>0, <1>1, NewestAssumption
     DEF UpdateInv, U!Releases, CallsTyped, DaemonTyped, RootTyped, Offered, Trusted, U!Versions, U!Program
<1>2. CASE U!Check \/ U!Checked
  BY <1>0, <1>2, NewestAssumption
     DEF UpdateInv, U!Check, U!Checked, CallsTyped, DaemonTyped, RootTyped, Offered, Trusted, U!Versions, U!Program
<1>3. CASE U!Restart
  <2>1. CallsTyped' /\ DaemonTyped' /\ last' = 0 /\ \A c \in Calls : call'[c] # "hand"
    BY <1>0, <1>3, UpRestarts DEF U!Restart, DaemonTyped
  <2>2. RootTyped'
    BY <1>0, <1>3 DEF U!Restart, RootTyped
  <2>3. Offered' /\ Trusted'
    BY <1>0, <1>3, <2>1 DEF U!Restart, U!DaemonRestarts, Offered, Trusted, DaemonTyped, U!Versions
  <2>4. QED
    BY <2>1, <2>2, <2>3 DEF UpdateInv
<1>4. CASE U!Root
  <2>1. CASE U!Applies
    BY <1>0, <2>1, NewestAssumption
       DEF UpdateInv, U!Applies, U!RootGoes, CallsTyped, DaemonTyped, RootTyped, Offered, Trusted, U!Versions
  <2>2. CASE U!Verifies
    BY <1>0, <2>2 DEF UpdateInv, U!Verifies, U!RootGoes, CallsTyped, DaemonTyped, RootTyped, Offered, Trusted
  <2>3. CASE U!Copies
    <3>1. copy' = [version |-> want[dest], whole |-> TRUE] /\ dest \in Calls
      BY <1>0, <2>3 DEF U!Copies, U!AtDest, CallsTyped
    <3>2. RootTyped'
      BY <1>0, <2>3, <3>1 DEF U!Copies, RootTyped, CallsTyped, U!Program
    <3>3. Offered' /\ Trusted'
      BY <1>0, <2>3, <3>1 DEF U!Copies, Offered, Trusted
    <3>4. CallsTyped' /\ DaemonTyped'
      BY <1>0, <2>3 DEF U!Copies, CallsTyped, DaemonTyped
    <3>5. QED
      BY <3>2, <3>3, <3>4 DEF UpdateInv
  <2>4. CASE U!Installs
    <3>1. CallsTyped' /\ DaemonTyped' /\ last' = 0 /\ \A c \in Calls : call'[c] # "hand"
      BY <1>0, <2>4, UpRestarts DEF U!Installs, DaemonTyped
    <3>2. RootTyped'
      BY <1>0, <2>4 DEF U!Installs, U!RootGoes, RootTyped
    <3>3. Offered' /\ Trusted'
      BY <1>0, <2>4, <3>1 DEF U!Installs, U!RootGoes, U!DaemonRestarts, Offered, Trusted, DaemonTyped, U!Versions
    <3>4. QED
      BY <3>1, <3>2, <3>3 DEF UpdateInv
  <2>5. ASSUME NEW a \in U!Answers, U!Tidies(a), root # "idle" PROVE UpdateInv'
    BY <1>0, <2>5, NewestAssumption
       DEF UpdateInv, U!Tidies, U!RootGoes, CallsTyped, DaemonTyped, RootTyped, Offered, Trusted, U!Versions
  <2>6. QED
    BY <1>4, <2>1, <2>2, <2>3, <2>4, <2>5 DEF U!Root, U!Succeeds, U!Refuses, U!Answers
<1>5. ASSUME NEW c \in Calls,
             \/ U!Install(c) \/ U!RemovesPart(c) \/ U!OpensPart(c) \/ U!Filled(c)
             \/ U!Breaks(c) \/ U!Cleans(c) \/ U!TimesOut(c)
      PROVE  UpdateInv'
  <2>1. CallsTyped'
    BY <1>0, <1>5 DEF U!Install, U!RemovesPart, U!OpensPart, U!Filled, U!Breaks, U!Cleans, U!TimesOut,
                      U!Goes, CallsTyped, DaemonTyped, U!Awaits
  <2>2. DaemonTyped'
    BY <1>0, <1>5 DEF U!Install, U!RemovesPart, U!OpensPart, U!Filled, U!Breaks, U!Cleans, U!TimesOut, DaemonTyped
  <2>3. RootTyped'
    BY <1>0, <1>5 DEF U!Install, U!RemovesPart, U!OpensPart, U!Filled, U!Breaks, U!Cleans, U!TimesOut, RootTyped
  <2>4. Offered'
    BY <1>0, <1>5 DEF U!Install, U!RemovesPart, U!OpensPart, U!Filled, U!Breaks, U!Cleans, U!TimesOut,
                      Offered, CallsTyped
  <2>5. Trusted'
    BY <1>0, <1>5 DEF U!Install, U!RemovesPart, U!OpensPart, U!Filled, U!Breaks, U!Cleans, U!TimesOut,
                      U!Goes, Trusted, CallsTyped
  <2>6. QED
    BY <2>1, <2>2, <2>3, <2>4, <2>5 DEF UpdateInv
<1>6. ASSUME NEW c \in Calls, U!Renames(c) PROVE UpdateInv'
  <2>1. CallsTyped'
    BY <1>0, <1>6 DEF U!Renames, U!Goes, CallsTyped, U!Awaits
  <2>2. DaemonTyped' /\ RootTyped' /\ Offered'
    BY <1>0, <1>6 DEF U!Renames, DaemonTyped, RootTyped, Offered
  <2>3. Trusted'
    BY <1>0, <1>6 DEF U!Renames, U!Goes, Trusted, CallsTyped
  <2>4. QED
    BY <2>1, <2>2, <2>3 DEF UpdateInv
<1>7. ASSUME NEW c \in Calls, U!HandsOver(c) \/ U!HandsFail(c) PROVE UpdateInv'
  <2>1. CallsTyped'
    BY <1>0, <1>7 DEF U!HandsOver, U!HandsFail, U!Goes, CallsTyped, U!Awaits
  <2>2. DaemonTyped'
    BY <1>0, <1>7 DEF U!HandsOver, U!HandsFail, DaemonTyped, CallsTyped
  <2>3. RootTyped' /\ Offered'
    BY <1>0, <1>7 DEF U!HandsOver, U!HandsFail, RootTyped, Offered
  <2>4. Trusted'
    BY <1>0, <1>7 DEF U!HandsOver, U!HandsFail, Trusted
  <2>5. QED
    BY <2>1, <2>2, <2>3, <2>4 DEF UpdateInv
<1>8. ASSUME NEW c \in Calls, U!Launches(c) PROVE UpdateInv'
  <2>1. CallsTyped' /\ DaemonTyped'
    BY <1>0, <1>8 DEF U!Launches, U!Goes, CallsTyped, DaemonTyped, U!Awaits
  <2>2. dest \in Calls
    BY <1>0, <1>8 DEF U!Launches, Trusted, CallsTyped
  <2>3. copy' = copy \/ (copy' = [version |-> want[dest], whole |-> TRUE])
    BY <1>0, <1>8, <2>2 DEF U!Launches, U!AtDest, CallsTyped
  <2>4. RootTyped'
    <3>1. want[dest] \in U!Versions
      BY <1>0, <2>2 DEF CallsTyped
    <3>2. [version |-> want[dest], whole |-> TRUE] \in U!Program
      BY <3>1 DEF U!Program
    <3>3. copy' \in U!Program
      BY <1>0, <2>3, <3>2 DEF RootTyped
    <3>4. QED
      BY <1>0, <1>8, <3>3 DEF U!Launches, RootTyped
  <2>5. Offered'
    BY <1>0, <1>8, <2>2, <2>3 DEF U!Launches, Offered
  <2>6. Trusted'
    BY <1>0, <1>8, <2>2, <2>3 DEF U!Launches, U!Goes, Trusted, CallsTyped
  <2>7. QED
    BY <2>1, <2>4, <2>5, <2>6 DEF UpdateInv
<1>9. ASSUME NEW c \in Calls, U!Upgrades(c) PROVE UpdateInv'
  <2>1. CallsTyped' /\ DaemonTyped' /\ last' = 0 /\ \A b \in Calls : call'[b] # "hand"
    BY <1>0, <1>9, UpRestarts DEF U!Upgrades, DaemonTyped
  <2>2. RootTyped'
    BY <1>0, <1>9 DEF U!Upgrades, RootTyped
  <2>3. Offered' /\ Trusted'
    BY <1>0, <1>9, <2>1 DEF U!Upgrades, U!DaemonRestarts, Offered, Trusted, DaemonTyped, U!Versions
  <2>4. QED
    BY <2>1, <2>2, <2>3 DEF UpdateInv
<1>10. CASE UNCHANGED updateVars
  BY <1>0, <1>10 DEF UpdateInv, updateVars, CallsTyped, DaemonTyped, RootTyped, Offered, Trusted
<1>11. CASE U!Next
  BY <1>11, <1>1, <1>2, <1>3, <1>4, <1>5, <1>6, <1>7, <1>8, <1>9 DEF U!Next, U!Daemon
<1>12. QED
  BY <1>10, <1>11

LEMMA UpMarks == ASSUME Marked, [U!Next]_updateVars PROVE Marked'
<1> USE DEF U!memory, U!disk, U!handed, U!rooted
<1> DEFINE Marks == checking' \in {checking, 0} /\ asked' \in BOOLEAN
<1>0. checking \in 0..2 /\ asked \in BOOLEAN
  BY DEF Marked
<1>a. Marks => Marked'
  <2>1. 0 \in 0..2
    OBVIOUS
  <2>2. QED
    BY <1>0, <2>1, Zenon DEF Marked
<1>1. CASE U!Check \/ U!Checked
  <2>1. asked' = asked
    BY <1>1 DEF U!Check, U!Checked
  <2>2. checking' \in 0..2
    BY <1>0, <1>1 DEF U!Check, U!Checked
  <2>3. QED
    BY <1>0, <2>1, <2>2, Zenon DEF Marked
<1>b. CASE U!Releases \/ U!Restart
  BY <1>0, <1>b, <1>a DEF U!Releases, U!Restart, U!DaemonRestarts
<1>2. CASE U!Root
  BY <1>0, <1>2, <1>a DEF U!Root, U!Applies, U!Verifies, U!Copies, U!Installs, U!Succeeds, U!Refuses, U!Tidies, U!DaemonRestarts
<1>3. ASSUME NEW c \in Calls, U!Install(c) \/ U!Breaks(c) \/ U!HandsFail(c) \/ U!Daemon(c) \/ U!Upgrades(c)
      PROVE  Marked'
  BY <1>0, <1>3, <1>a DEF U!Install, U!Breaks, U!HandsFail, U!Daemon, U!Upgrades, U!DaemonRestarts, U!RemovesPart,
              U!OpensPart, U!Filled, U!Renames, U!Cleans, U!HandsOver, U!TimesOut, U!Launches
<1>4. CASE UNCHANGED updateVars
  BY <1>0, <1>4, <1>a DEF updateVars
<1>5. QED
  BY <1>1, <1>b, <1>2, <1>3, <1>4 DEF U!Next

LEMMA UpTypes == UpdateInv /\ Marked => U!TypeOK
  BY DEF UpdateInv, Marked, U!TypeOK, CallsTyped, DaemonTyped, RootTyped

LEMMA UpInvariant == ServicesSpec => [](UpdateInv /\ Marked)
<1>1. ServicesInit => UpdateInv /\ Marked
  <2>1. U!Init => checking = 0 /\ asked = FALSE
    BY DEF U!Init
  <2>2. 0 \in 0..2 /\ FALSE \in BOOLEAN
    OBVIOUS
  <2>3. U!Init => Marked
    BY <2>1, <2>2, Zenon DEF Marked
  <2>4. QED
    BY UpStart, <2>3 DEF ServicesInit
<1>2. UpdateInv /\ Marked /\ [ServicesNext]_<<which, vars, mapVars, updateVars, supVars, mailVars>>
        => (UpdateInv /\ Marked)'
  BY UpStep, UpMarks, ServicesSteps
<1>3. QED
  BY <1>1, <1>2, PTL DEF ServicesSpec

\* Whatever two calls do to each other's files, and whenever either is forgotten: only a
\* package with all the bytes that were signed, of a version that was, is installed.
THEOREM InstallsOnlyWholeTheorem == ServicesSpec => []InstallsOnlyWhole
<1>1. UpdateInv => InstallsOnlyWhole
  BY DEF UpdateInv, Offered, Trusted, InstallsOnlyWhole, U!InstallsOnlyWhole
<1>2. QED
  BY <1>1, UpInvariant, PTL

-----------------------------------------------------------------------------
(* The processes.                                                          *)

ProcTyped ==
  /\ DOMAIN sup = Sups /\ \A s \in Sups : DOMAIN sup[s] = DOMAIN V!Nobody
  /\ daemon \in [Processes -> [at : {"none", "up", "leaving"}, of : Sups \cup {None}]]
  /\ cmd \in [Commands -> [at : {"idle", "sup", "wait", "kid", "kidwait", "files", "start", "done"},
                           sup : Sups \cup {None}, kid : Processes \cup {None}, again : BOOLEAN]]
  /\ supFile \in Sups \cup {None} /\ kidFile \in Processes \cup {None}

\* Every daemon that runs is some supervisor's.
Owned == \A d \in Processes : V!Runs(d) => daemon[d].of \in Sups

Active(c) == cmd[c].at \notin {"idle", "done"}

\* One supervisor, whose number is on disk once it is up; and one command at a time,
\* none while a supervisor starts.
OneSup ==
  /\ \A s \in Sups : sup[s].at \in {"up", "stopping"} => supFile = s
  /\ \A s \in Sups : sup[s].at = "begun" =>
       /\ \A t \in Sups \ {s} : ~V!Alive(t)
       /\ \A c \in Commands : ~Active(c)
  /\ \A c \in Commands : Active(c) => \A b \in Commands \ {c} : ~Active(b)

\* What a command has seen to.
Stopping ==
  \A c \in Commands :
    /\ cmd[c].at \in {"sup", "wait"} => \A s \in Sups : V!Alive(s) => s = cmd[c].sup
    /\ cmd[c].at \in {"kid", "kidwait", "files", "start"} => \A s \in Sups : ~V!Alive(s)

ProcInv == ProcTyped /\ Owned /\ OneSup /\ Stopping

LEMMA ProcStart == ASSUME V!Init PROVE ProcInv
<1>1. ProcTyped
  BY DEF V!Init, ProcTyped, V!Nobody, V!NoDaemon, V!Idle
<1>2. Owned
  BY DEF V!Init, Owned, V!Runs, V!NoDaemon
<1>3. OneSup /\ Stopping
  BY DEF V!Init, OneSup, Stopping, Active, V!Alive, V!Nobody, V!Idle
<1>4. QED
  BY <1>1, <1>2, <1>3 DEF ProcInv

\* Supervisors go on or end, commands go on once they may.
LEMMA Calmer ==
  ASSUME OneSup, Stopping,
         \A t \in Sups : \/ sup'[t].at = sup[t].at
                         \/ sup'[t].at \in {"gone", "gaveup"}
                         \/ sup[t].at \in {"up", "stopping"} /\ sup'[t].at \in {"up", "stopping"},
         \A t \in Sups : sup'[t].at \in {"up", "stopping"} /\ supFile = t => supFile' = t,
         \A c \in Commands :
           /\ Active(c)' => Active(c)
           /\ cmd'[c].at \in {"sup", "wait"} => cmd[c].at \in {"sup", "wait"} /\ cmd'[c].sup = cmd[c].sup
           /\ cmd'[c].at \in {"kid", "kidwait", "files", "start"} =>
                \/ cmd[c].at \in {"kid", "kidwait", "files", "start"}
                \/ \A t \in Sups : ~V!Alive(t)'
  PROVE  OneSup' /\ Stopping'
<1>1. \A t \in Sups : V!Alive(t)' => V!Alive(t)
  BY DEF V!Alive
<1>2. OneSup'
  BY <1>1 DEF OneSup
<1>3. Stopping'
  BY <1>1 DEF Stopping
<1>4. QED
  BY <1>2, <1>3

\* A command goes from one place to another.
LEMMA Moves ==
  ASSUME ProcTyped, NEW c \in Commands,
         NEW to \in {"idle", "sup", "wait", "kid", "kidwait", "files", "start", "done"}, V!To(c, to)
  PROVE  /\ cmd' \in [Commands -> [at : {"idle", "sup", "wait", "kid", "kidwait", "files", "start", "done"},
                                   sup : Sups \cup {None}, kid : Processes \cup {None}, again : BOOLEAN]]
         /\ cmd'[c].at = to /\ cmd'[c].sup = cmd[c].sup
         /\ \A b \in Commands \ {c} : cmd'[b] = cmd[b]
<1>1. cmd' = [cmd EXCEPT ![c].at = to]
  BY DEF V!To
<1>2. DOMAIN cmd = Commands /\ \A b \in Commands :
        cmd[b] \in [at : {"idle", "sup", "wait", "kid", "kidwait", "files", "start", "done"},
                    sup : Sups \cup {None}, kid : Processes \cup {None}, again : BOOLEAN]
  BY DEF ProcTyped
<1>3. QED
  BY <1>1, <1>2 DEF ProcTyped

\* Daemons end, or leave.
LEMMA Fewer ==
  ASSUME ProcTyped, Owned, NEW D, \/ daemon' = V!GoneFrom(daemon, D)
                                  \/ daemon' = [daemon EXCEPT ![D].at = "leaving"] /\ (D \in Processes => V!Runs(D))
                                  \/ daemon' = daemon
  PROVE  Owned' /\ daemon' \in [Processes -> [at : {"none", "up", "leaving"}, of : Sups \cup {None}]]
<1>1. CASE daemon' = V!GoneFrom(daemon, D)
  BY <1>1 DEF ProcTyped, Owned, V!Runs, V!GoneFrom, V!NoDaemon
<1>2. CASE daemon' = [daemon EXCEPT ![D].at = "leaving"] /\ (D \in Processes => V!Runs(D))
  <2>1. DOMAIN daemon = Processes
        /\ \A d \in Processes : daemon[d] \in [at : {"none", "up", "leaving"}, of : Sups \cup {None}]
    BY DEF ProcTyped
  <2>2. CASE D \notin Processes
    <3>1. /\ daemon' \in [Processes -> [at : {"none", "up", "leaving"}, of : Sups \cup {None}]]
          /\ \A d \in Processes : daemon'[d] = daemon[d]
      BY <1>2, <2>1, <2>2 DEF ProcTyped
    <3>2. QED
      BY <3>1 DEF Owned, V!Runs
  <2>3. CASE D \in Processes
    <3>1. /\ daemon' \in [Processes -> [at : {"none", "up", "leaving"}, of : Sups \cup {None}]]
          /\ daemon'[D].of = daemon[D].of /\ \A d \in Processes \ {D} : daemon'[d] = daemon[d]
      BY <1>2, <2>1, <2>3 DEF ProcTyped
    <3>2. Owned'
      BY <1>2, <2>3, <3>1 DEF Owned, V!Runs
    <3>3. QED
      BY <3>1, <3>2
  <2>4. QED
    BY <2>2, <2>3
<1>3. CASE daemon' = daemon
  BY <1>3 DEF ProcTyped, Owned, V!Runs
<1>4. QED
  BY <1>1, <1>2, <1>3

\* What becomes of one supervisor.
LEMMA Cleans ==
  ASSUME ProcTyped, NEW s \in Sups, NEW way \in {"gone", "gaveup"},
         sup' = [sup EXCEPT ![s] = [V!Nobody EXCEPT !.at = way]]
  PROVE  /\ DOMAIN sup' = Sups /\ \A t \in Sups : DOMAIN sup'[t] = DOMAIN V!Nobody
         /\ sup'[s].at = way /\ \A t \in Sups \ {s} : sup'[t] = sup[t]
BY DEF ProcTyped, V!Nobody

LEMMA Begins ==
  ASSUME ProcTyped, NEW s \in Sups, NEW d \in Processes, V!Starting(s, d, sup), Owned
  PROVE  /\ DOMAIN sup' = Sups /\ \A t \in Sups : DOMAIN sup'[t] = DOMAIN V!Nobody
         /\ sup'[s].at = "up" /\ \A t \in Sups \ {s} : sup'[t] = sup[t]
         /\ daemon' \in [Processes -> [at : {"none", "up", "leaving"}, of : Sups \cup {None}]]
         /\ Owned' /\ kidFile' \in Processes
<1>1. /\ DOMAIN sup' = Sups /\ \A t \in Sups : DOMAIN sup'[t] = DOMAIN V!Nobody
      /\ sup'[s].at = "up" /\ \A t \in Sups \ {s} : sup'[t] = sup[t]
  BY DEF V!Starting, ProcTyped, V!Nobody
<1>2. daemon' = [daemon EXCEPT ![d] = [at |-> "up", of |-> s]] /\ kidFile' = d
  BY DEF V!Starting
<1>3. daemon' \in [Processes -> [at : {"none", "up", "leaving"}, of : Sups \cup {None}]]
  BY <1>2 DEF ProcTyped
<1>4. Owned'
  BY <1>2 DEF Owned, V!Runs, ProcTyped
<1>5. QED
  BY <1>1, <1>2, <1>3, <1>4

LEMMA Looked ==
  ASSUME ProcTyped, NEW s \in Sups, sup' = V!Looks(sup, s)
  PROVE  /\ DOMAIN sup' = Sups /\ \A t \in Sups : DOMAIN sup'[t] = DOMAIN V!Nobody
         /\ sup'[s].at = IF V!OurSup(supFile) THEN "gone" ELSE "begun"
         /\ \A t \in Sups \ {s} : sup'[t] = sup[t]
BY DEF ProcTyped, V!Nobody, V!Looks

\* Asked to stop, a supervisor cleans up or waits for its daemon.
LEMMA StopAsked ==
  ASSUME ProcTyped, Owned, NEW s \in Sups, V!RequestStop(s)
  PROVE  /\ DOMAIN sup' = Sups /\ \A t \in Sups : DOMAIN sup'[t] = DOMAIN V!Nobody
         /\ \A t \in Sups : \/ sup'[t].at = sup[t].at
                            \/ sup'[t].at \in {"gone", "gaveup"}
                            \/ sup[t].at \in {"up", "stopping"} /\ sup'[t].at \in {"up", "stopping"}
         /\ \A t \in Sups : sup'[t].at \in {"up", "stopping"} /\ supFile = t => supFile' = t
         /\ daemon' \in [Processes -> [at : {"none", "up", "leaving"}, of : Sups \cup {None}]]
         /\ Owned' /\ supFile' \in Sups \cup {None} /\ kidFile' \in Processes \cup {None}
<1>1. CASE sup[s].at # "up"
  BY <1>1 DEF V!RequestStop, ProcTyped, Owned, V!Runs
<1>2. CASE sup[s].at = "up" /\ sup[s].child = None
  <2>1. V!Cleanup(s, "gone") /\ daemon' = daemon
    BY <1>2 DEF V!RequestStop
  <2>2. /\ DOMAIN sup' = Sups /\ \A t \in Sups : DOMAIN sup'[t] = DOMAIN V!Nobody
        /\ sup'[s].at = "gone" /\ \A t \in Sups \ {s} : sup'[t] = sup[t]
    BY <2>1, Cleans DEF V!Cleanup
  <2>3. Owned' /\ daemon' \in [Processes -> [at : {"none", "up", "leaving"}, of : Sups \cup {None}]]
    BY <2>1, Fewer
  <2>4. QED
    BY <2>1, <2>2, <2>3 DEF V!Cleanup, ProcTyped
<1>3. CASE sup[s].at = "up" /\ sup[s].child # None
  <2>1. sup' = V!Asked(sup, s) /\ UNCHANGED <<supFile, kidFile>>
    BY <1>3 DEF V!RequestStop
  <2>2. /\ DOMAIN sup' = Sups /\ \A t \in Sups : DOMAIN sup'[t] = DOMAIN V!Nobody
        /\ sup'[s].at = "stopping" /\ \A t \in Sups \ {s} : sup'[t] = sup[t]
    BY <2>1 DEF V!Asked, ProcTyped, V!Nobody
  <2>3. Owned' /\ daemon' \in [Processes -> [at : {"none", "up", "leaving"}, of : Sups \cup {None}]]
    BY <1>3, Fewer DEF V!RequestStop
  <2>4. QED
    BY <1>3, <2>1, <2>2, <2>3 DEF ProcTyped
<1>4. QED
  BY <1>1, <1>2, <1>3

\* A supervisor's daemon has ended.
LEMMA ChildGone ==
  ASSUME ProcTyped, NEW s \in Sups, V!Exited(s)
  PROVE  /\ DOMAIN sup' = Sups /\ \A t \in Sups : DOMAIN sup'[t] = DOMAIN V!Nobody
         /\ \A t \in Sups : \/ sup'[t].at = sup[t].at
                            \/ sup'[t].at \in {"gone", "gaveup"}
         /\ \A t \in Sups : sup'[t].at \in {"up", "stopping"} /\ supFile = t => supFile' = t
         /\ supFile' \in Sups \cup {None} /\ kidFile' \in Processes \cup {None}
<1>1. ASSUME NEW way \in {"gone", "gaveup"}, V!Cleanup(s, way)
      PROVE  /\ DOMAIN sup' = Sups /\ \A t \in Sups : DOMAIN sup'[t] = DOMAIN V!Nobody
             /\ \A t \in Sups : \/ sup'[t].at = sup[t].at
                                \/ sup'[t].at \in {"gone", "gaveup"}
             /\ \A t \in Sups : sup'[t].at \in {"up", "stopping"} /\ supFile = t => supFile' = t
             /\ supFile' \in Sups \cup {None} /\ kidFile' \in Processes \cup {None}
  BY <1>1, Cleans DEF V!Cleanup, ProcTyped
<1>2. CASE sup[s].at = "stopping"
  BY <1>1, <1>2 DEF V!Exited
<1>3. CASE sup[s].at # "stopping" /\ V!Cleanup(s, "gaveup")
  BY <1>1, <1>3
<1>4. CASE sup[s].at # "stopping" /\ ~V!Cleanup(s, "gaveup")
  <2> DEFINE streak == 1 + IF clock - sup[s].startedAt >= StableTime THEN 0 ELSE sup[s].streak
             times  == V!Recent(Append(sup[s].crashes, clock))
             delay  == V!Delay(streak)
  <2>1. /\ sup' = [sup EXCEPT ![s].child = None, ![s].streak = streak, ![s].crashes = times,
                              ![s].due = clock + delay]
        /\ kidFile' = (IF kidFile = sup[s].child THEN None ELSE kidFile)
        /\ supFile' = supFile
    BY <1>4 DEF V!Exited, V!Crashed
  <2> HIDE DEF streak, times, delay
  <2>2. /\ DOMAIN sup' = Sups /\ \A t \in Sups : DOMAIN sup'[t] = DOMAIN V!Nobody
        /\ sup'[s].at = sup[s].at /\ \A t \in Sups \ {s} : sup'[t] = sup[t]
    BY <2>1 DEF ProcTyped, V!Nobody
  <2>3. QED
    BY <2>1, <2>2 DEF ProcTyped
<1>5. QED
  BY <1>2, <1>3, <1>4

LEMMA ProcStep == ASSUME ProcInv, ~Races, [V!Next]_supVars PROVE ProcInv'
<1>0. ProcTyped /\ Owned /\ OneSup /\ Stopping
  BY DEF ProcInv
<1>1. ASSUME NEW s \in Sups, V!Run(s) PROVE ProcInv'
  <2>1. sup' = V!Looks(sup, s) /\ UNCHANGED <<daemon, supFile, kidFile, cmd>> /\ ~V!Busy
    BY <1>1 DEF V!Run
  <2>2. /\ DOMAIN sup' = Sups /\ \A t \in Sups : DOMAIN sup'[t] = DOMAIN V!Nobody
        /\ sup'[s].at = IF V!OurSup(supFile) THEN "gone" ELSE "begun"
        /\ \A t \in Sups \ {s} : sup'[t] = sup[t]
    BY <1>0, <2>1, Looked
  <2>3. ProcTyped' /\ Owned'
    BY <1>0, <2>1, <2>2 DEF ProcTyped, Owned, V!Runs
  <2>4. CASE V!OurSup(supFile)
    BY <1>0, <2>1, <2>2, <2>3, <2>4, Calmer DEF ProcInv, Active
  <2>5. CASE ~V!OurSup(supFile)
    <3>1. \A t \in Sups : ~V!Alive(t)
      BY <1>0, <2>1, <2>5, NoSupAssumption DEF OneSup, V!OurSup, V!Alive, V!Busy
    <3>2. \A c \in Commands : ~Active(c) /\ cmd'[c] = cmd[c]
      BY <2>1 DEF V!Busy, Active
    <3>3. OneSup'
      BY <2>2, <2>5, <3>1, <3>2 DEF OneSup, V!Alive, Active
    <3>4. Stopping'
      BY <3>2 DEF Stopping, Active
    <3>5. QED
      BY <2>3, <3>3, <3>4 DEF ProcInv
  <2>6. QED
    BY <2>4, <2>5
<1>2. ASSUME NEW s \in Sups, V!Claims(s) PROVE ProcInv'
  <2>1. PICK d \in V!Unused : V!Starting(s, d, sup)
    BY <1>2 DEF V!Claims
  <2>2. d \in Processes
    BY DEF V!Unused
  <2>3. /\ DOMAIN sup' = Sups /\ \A t \in Sups : DOMAIN sup'[t] = DOMAIN V!Nobody
        /\ sup'[s].at = "up" /\ \A t \in Sups \ {s} : sup'[t] = sup[t]
        /\ daemon' \in [Processes -> [at : {"none", "up", "leaving"}, of : Sups \cup {None}]]
        /\ Owned' /\ kidFile' \in Processes
    BY <1>0, <2>1, <2>2, Begins
  <2>4. sup[s].at = "begun" /\ supFile' = s /\ cmd' = cmd
    BY <1>2 DEF V!Claims
  <2>5. ProcTyped'
    BY <1>0, <2>3, <2>4 DEF ProcTyped
  <2>6. \A t \in Sups \ {s} : ~V!Alive(t) /\ ~V!Alive(t)'
    BY <1>0, <2>3, <2>4 DEF OneSup, V!Alive
  <2>7. \A c \in Commands : ~Active(c) /\ ~Active(c)'
    BY <1>0, <2>4 DEF OneSup, Active
  <2>8. OneSup'
    BY <2>3, <2>4, <2>6, <2>7 DEF OneSup, V!Alive
  <2>9. Stopping'
    BY <2>7 DEF Stopping, Active
  <2>10. QED
    BY <2>3, <2>5, <2>8, <2>9 DEF ProcInv
<1>3. ASSUME NEW s \in Sups, V!TimerStarts(s) PROVE ProcInv'
  <2>1. PICK d \in V!Unused : V!Starting(s, d, sup)
    BY <1>3 DEF V!TimerStarts
  <2>2. d \in Processes
    BY DEF V!Unused
  <2>3. /\ DOMAIN sup' = Sups /\ \A t \in Sups : DOMAIN sup'[t] = DOMAIN V!Nobody
        /\ sup'[s].at = "up" /\ \A t \in Sups \ {s} : sup'[t] = sup[t]
        /\ daemon' \in [Processes -> [at : {"none", "up", "leaving"}, of : Sups \cup {None}]]
        /\ Owned' /\ kidFile' \in Processes
    BY <1>0, <2>1, <2>2, Begins
  <2>4. sup[s].at = "up" /\ supFile' = supFile /\ cmd' = cmd
    BY <1>3 DEF V!TimerStarts
  <2>5. ProcTyped'
    BY <1>0, <2>3, <2>4 DEF ProcTyped
  <2>6. OneSup' /\ Stopping'
    BY <1>0, <2>3, <2>4, Calmer DEF Active
  <2>7. QED
    BY <2>3, <2>5, <2>6 DEF ProcInv
<1>4. ASSUME NEW s \in Sups, V!Exited(s) PROVE ProcInv'
  <2>1. /\ DOMAIN sup' = Sups /\ \A t \in Sups : DOMAIN sup'[t] = DOMAIN V!Nobody
        /\ \A t \in Sups : \/ sup'[t].at = sup[t].at
                           \/ sup'[t].at \in {"gone", "gaveup"}
        /\ \A t \in Sups : sup'[t].at \in {"up", "stopping"} /\ supFile = t => supFile' = t
        /\ supFile' \in Sups \cup {None} /\ kidFile' \in Processes \cup {None}
    BY <1>0, <1>4, ChildGone
  <2>2. UNCHANGED <<daemon, cmd>>
    BY <1>4 DEF V!Exited
  <2>3. ProcTyped' /\ Owned'
    BY <1>0, <2>1, <2>2 DEF ProcTyped, Owned, V!Runs
  <2>4. OneSup' /\ Stopping'
    BY <1>0, <2>1, <2>2, Calmer DEF Active
  <2>5. QED
    BY <2>3, <2>4 DEF ProcInv
<1>5. ASSUME NEW s \in Sups, V!Signal(s) PROVE ProcInv'
  <2>1. /\ DOMAIN sup' = Sups /\ \A t \in Sups : DOMAIN sup'[t] = DOMAIN V!Nobody
        /\ \A t \in Sups : \/ sup'[t].at = sup[t].at
                           \/ sup'[t].at \in {"gone", "gaveup"}
                           \/ sup[t].at \in {"up", "stopping"} /\ sup'[t].at \in {"up", "stopping"}
        /\ \A t \in Sups : sup'[t].at \in {"up", "stopping"} /\ supFile = t => supFile' = t
        /\ daemon' \in [Processes -> [at : {"none", "up", "leaving"}, of : Sups \cup {None}]]
        /\ Owned' /\ supFile' \in Sups \cup {None} /\ kidFile' \in Processes \cup {None}
    BY <1>0, <1>5, StopAsked DEF V!Signal
  <2>2. cmd' = cmd
    BY <1>5 DEF V!Signal
  <2>3. ProcTyped'
    BY <1>0, <2>1, <2>2 DEF ProcTyped
  <2>4. OneSup' /\ Stopping'
    BY <1>0, <2>1, <2>2, Calmer DEF Active
  <2>5. QED
    BY <2>1, <2>3, <2>4 DEF ProcInv
<1>6. ASSUME NEW s \in Sups, V!SupKilled(s) PROVE ProcInv'
  <2>1. /\ DOMAIN sup' = Sups /\ \A t \in Sups : DOMAIN sup'[t] = DOMAIN V!Nobody
        /\ sup'[s].at = "gone" /\ \A t \in Sups \ {s} : sup'[t] = sup[t]
    BY <1>0, <1>6, Cleans DEF V!SupKilled, V!Dies
  <2>2. UNCHANGED <<daemon, supFile, kidFile, cmd>>
    BY <1>6 DEF V!SupKilled
  <2>3. ProcTyped' /\ Owned'
    BY <1>0, <2>1, <2>2 DEF ProcTyped, Owned, V!Runs
  <2>4. OneSup' /\ Stopping'
    BY <1>0, <2>1, <2>2, Calmer DEF Active
  <2>5. QED
    BY <2>3, <2>4 DEF ProcInv
<1>7. ASSUME \/ \E s \in Sups : V!GraceOver(s)
             \/ \E d \in Processes : V!Serves(d) \/ V!DaemonEnds(d) \/ V!OrphanLeaves(d)
             \/ V!Tick \/ UNCHANGED supVars
      PROVE  ProcInv'
  <2>1. UNCHANGED <<sup, supFile, kidFile, cmd>>
    BY <1>7 DEF V!GraceOver, V!Serves, V!DaemonEnds, V!OrphanLeaves, V!Tick, supVars
  <2>2. Owned' /\ daemon' \in [Processes -> [at : {"none", "up", "leaving"}, of : Sups \cup {None}]]
    BY <1>0, <1>7, Fewer DEF V!GraceOver, V!Serves, V!DaemonEnds, V!OrphanLeaves, V!Guards, V!Runs, V!Tick, supVars
  <2>3. ProcTyped'
    BY <1>0, <2>1, <2>2 DEF ProcTyped
  <2>4. OneSup' /\ Stopping'
    BY <1>0, <2>1, Calmer DEF Active
  <2>5. QED
    BY <2>2, <2>3, <2>4 DEF ProcInv
<1>8. ASSUME NEW c \in Commands, V!Begin(c) PROVE ProcInv'
  <2>1. PICK again \in BOOLEAN :
          cmd' = [cmd EXCEPT ![c] = [at |-> "sup", sup |-> supFile, kid |-> kidFile, again |-> again]]
    BY <1>8 DEF V!Begin
  <2>2. UNCHANGED <<sup, daemon, supFile, kidFile>> /\ ~V!Busy
    BY <1>8 DEF V!Begin
  <2>3. [at |-> "sup", sup |-> supFile, kid |-> kidFile, again |-> again]
          \in [at : {"idle", "sup", "wait", "kid", "kidwait", "files", "start", "done"},
               sup : Sups \cup {None}, kid : Processes \cup {None}, again : BOOLEAN]
    BY <1>0 DEF ProcTyped
  <2>4. /\ cmd'[c].at = "sup" /\ cmd'[c].sup = supFile /\ \A b \in Commands \ {c} : cmd'[b] = cmd[b]
        /\ cmd' \in [Commands -> [at : {"idle", "sup", "wait", "kid", "kidwait", "files", "start", "done"},
                                  sup : Sups \cup {None}, kid : Processes \cup {None}, again : BOOLEAN]]
    BY <1>0, <2>1, <2>3 DEF ProcTyped
  <2>5. ProcTyped' /\ Owned'
    BY <1>0, <2>2, <2>4 DEF ProcTyped, Owned, V!Runs
  <2>6. (\A b \in Commands : ~Active(b)) /\ \A s \in Sups : sup[s].at # "begun"
    BY <2>2 DEF V!Busy, Active
  <2>7. \A b \in Commands \ {c} : ~Active(b)'
    BY <2>4, <2>6 DEF Active
  <2>8. OneSup'
    BY <1>0, <2>2, <2>6, <2>7 DEF OneSup
  <2>9. Stopping'
    BY <1>0, <2>2, <2>4, <2>6, <2>7 DEF OneSup, Stopping, Active, V!Alive
  <2>10. QED
    BY <2>5, <2>8, <2>9 DEF ProcInv
<1>9. ASSUME NEW c \in Commands, V!EndsSup(c) PROVE ProcInv'
  <2>1. cmd[c].at = "sup" /\ cmd[c].sup \in Sups \cup {None}
    BY <1>0, <1>9 DEF V!EndsSup, ProcTyped
  <2>2. CASE ~V!OurSup(cmd[c].sup)
    <3>1. V!To(c, "kid") /\ UNCHANGED <<sup, daemon, supFile, kidFile>>
      BY <1>9, <2>2 DEF V!EndsSup
    <3>2. /\ cmd' \in [Commands -> [at : {"idle", "sup", "wait", "kid", "kidwait", "files", "start", "done"},
                                    sup : Sups \cup {None}, kid : Processes \cup {None}, again : BOOLEAN]]
          /\ cmd'[c].at = "kid" /\ cmd'[c].sup = cmd[c].sup
          /\ \A b \in Commands \ {c} : cmd'[b] = cmd[b]
      BY <1>0, <3>1, Moves
    <3>3. \A s \in Sups : ~V!Alive(s)'
      BY <1>0, <2>1, <2>2, <3>1, NoSupAssumption DEF Stopping, V!OurSup, V!Alive
    <3>4. OneSup' /\ Stopping'
      BY <1>0, <2>1, <3>1, <3>2, <3>3, Calmer DEF Active
    <3>5. QED
      BY <1>0, <3>1, <3>2, <3>4 DEF ProcInv, ProcTyped, Owned, V!Runs
  <2>3. CASE V!OurSup(cmd[c].sup)
    <3> DEFINE s == cmd[c].sup
    <3>1. V!To(c, "wait") /\ s \in Sups
      BY <1>9, <2>1, <2>3 DEF V!EndsSup, V!OurSup
    <3>2. /\ cmd' \in [Commands -> [at : {"idle", "sup", "wait", "kid", "kidwait", "files", "start", "done"},
                                    sup : Sups \cup {None}, kid : Processes \cup {None}, again : BOOLEAN]]
          /\ cmd'[c].at = "wait" /\ cmd'[c].sup = cmd[c].sup
          /\ \A b \in Commands \ {c} : cmd'[b] = cmd[b]
      BY <1>0, <3>1, Moves
    <3>3. /\ DOMAIN sup' = Sups /\ \A t \in Sups : DOMAIN sup'[t] = DOMAIN V!Nobody
          /\ \A t \in Sups : \/ sup'[t].at = sup[t].at
                             \/ sup'[t].at \in {"gone", "gaveup"}
                             \/ sup[t].at \in {"up", "stopping"} /\ sup'[t].at \in {"up", "stopping"}
          /\ \A t \in Sups : sup'[t].at \in {"up", "stopping"} /\ supFile = t => supFile' = t
          /\ daemon' \in [Processes -> [at : {"none", "up", "leaving"}, of : Sups \cup {None}]]
          /\ Owned' /\ supFile' \in Sups \cup {None} /\ kidFile' \in Processes \cup {None}
      <4>1. CASE win
        <5>1. V!Dies(s) /\ UNCHANGED <<supFile, kidFile>>
              /\ daemon' = V!GoneFrom(daemon, {k \in Processes : V!Runs(k) /\ daemon[k].of = s})
          BY <1>9, <2>3, <4>1 DEF V!EndsSup
        <5>2. /\ DOMAIN sup' = Sups /\ \A t \in Sups : DOMAIN sup'[t] = DOMAIN V!Nobody
              /\ sup'[s].at = "gone" /\ \A t \in Sups \ {s} : sup'[t] = sup[t]
          BY <1>0, <3>1, <5>1, Cleans DEF V!Dies
        <5>3. Owned' /\ daemon' \in [Processes -> [at : {"none", "up", "leaving"}, of : Sups \cup {None}]]
          BY <1>0, <5>1, Fewer
        <5>4. QED
          BY <1>0, <5>1, <5>2, <5>3 DEF ProcTyped
      <4>2. CASE ~win
        <5>1. V!RequestStop(s)
          BY <1>9, <2>3, <4>2 DEF V!EndsSup
        <5> HIDE DEF s
        <5>2. QED
          BY <1>0, <3>1, <5>1, StopAsked
      <4>3. QED
        BY <4>1, <4>2
    <3>4. OneSup' /\ Stopping'
      BY <1>0, <2>1, <3>2, <3>3, Calmer DEF Active
    <3>5. QED
      BY <1>0, <3>2, <3>3, <3>4 DEF ProcInv, ProcTyped
  <2>4. QED
    BY <2>2, <2>3
<1>10. ASSUME NEW c \in Commands, V!SupTooSlow(c) PROVE ProcInv'
  <2>1. V!Dies(cmd[c].sup) /\ UNCHANGED <<daemon, supFile, kidFile, cmd>>
    BY <1>10 DEF V!SupTooSlow
  <2>2. CASE cmd[c].sup \in Sups
    <3>1. /\ DOMAIN sup' = Sups /\ \A t \in Sups : DOMAIN sup'[t] = DOMAIN V!Nobody
          /\ sup'[cmd[c].sup].at = "gone" /\ \A t \in Sups \ {cmd[c].sup} : sup'[t] = sup[t]
      BY <1>0, <2>1, <2>2, Cleans DEF V!Dies
    <3>2. ProcTyped' /\ Owned'
      BY <1>0, <2>1, <3>1 DEF ProcTyped, Owned, V!Runs
    <3>3. OneSup' /\ Stopping'
      BY <1>0, <2>1, <3>1, Calmer DEF Active
    <3>4. QED
      BY <3>2, <3>3 DEF ProcInv
  <2>3. CASE cmd[c].sup \notin Sups
    <3>1. DOMAIN sup' = Sups /\ \A t \in Sups : sup'[t] = sup[t]
      BY <1>0, <2>1, <2>3 DEF V!Dies, ProcTyped
    <3>2. ProcTyped' /\ Owned'
      BY <1>0, <2>1, <3>1 DEF ProcTyped, Owned, V!Runs
    <3>3. OneSup' /\ Stopping'
      BY <1>0, <2>1, <3>1, Calmer DEF Active
    <3>4. QED
      BY <3>2, <3>3 DEF ProcInv
  <2>4. QED
    BY <2>2, <2>3
<1>11. ASSUME NEW c \in Commands, V!SupGone(c) \/ V!EndsKid(c) \/ V!KidGone(c) \/ V!Removes(c) PROVE ProcInv'
  <2>1. PICK to \in {"kid", "kidwait", "files", "start", "done"} :
          /\ V!To(c, to)
          /\ \/ cmd[c].at = "wait" /\ to = "kid" /\ ~V!Alive(cmd[c].sup)
             \/ cmd[c].at \in {"kid", "kidwait", "files"}
    BY <1>11 DEF V!SupGone, V!EndsKid, V!KidGone, V!Removes
  <2>2. /\ cmd' \in [Commands -> [at : {"idle", "sup", "wait", "kid", "kidwait", "files", "start", "done"},
                                  sup : Sups \cup {None}, kid : Processes \cup {None}, again : BOOLEAN]]
        /\ cmd'[c].at = to /\ cmd'[c].sup = cmd[c].sup
        /\ \A b \in Commands \ {c} : cmd'[b] = cmd[b]
    BY <1>0, <2>1, Moves
  <2>3. /\ sup' = sup /\ supFile' \in {supFile, None} /\ kidFile' \in {kidFile, None}
        /\ supFile' = supFile \/ cmd[c].at = "files"
    BY <1>11 DEF V!SupGone, V!EndsKid, V!KidGone, V!Removes
  <2>4. Owned' /\ daemon' \in [Processes -> [at : {"none", "up", "leaving"}, of : Sups \cup {None}]]
    <3>1. CASE V!EndsKid(c)
      BY <1>0, <3>1, Fewer DEF V!EndsKid, V!OurKid
    <3>2. CASE V!KidGone(c)
      BY <1>0, <3>2, Fewer DEF V!KidGone
    <3>3. CASE V!SupGone(c) \/ V!Removes(c)
      BY <1>0, <3>3, Fewer DEF V!SupGone, V!Removes
    <3>4. QED
      BY <1>11, <3>1, <3>2, <3>3
  <2>5. \A t \in Sups : ~V!Alive(t) /\ ~V!Alive(t)'
    <3>1. \A t \in Sups : ~V!Alive(t)
      BY <1>0, <2>1 DEF Stopping
    <3>2. QED
      BY <2>3, <3>1 DEF V!Alive
  <2>6. OneSup' /\ Stopping'
    <3>1. \A t \in Sups : ~(sup'[t].at \in {"up", "stopping"})
      BY <2>5 DEF V!Alive
    <3>2. Active(c)
      BY <2>1 DEF Active
    <3>3. QED
      BY <1>0, <2>1, <2>2, <2>3, <2>5, <3>1, <3>2, Calmer DEF Active
  <2>7. QED
    BY <1>0, <2>2, <2>3, <2>4, <2>6 DEF ProcInv, ProcTyped
<1>12. ASSUME NEW c \in Commands, V!Restarts(c) PROVE ProcInv'
  <2>1. V!To(c, "done") /\ cmd[c].at = "start" /\ UNCHANGED <<daemon, supFile, kidFile>>
    BY <1>12 DEF V!Restarts
  <2>2. /\ cmd' \in [Commands -> [at : {"idle", "sup", "wait", "kid", "kidwait", "files", "start", "done"},
                                  sup : Sups \cup {None}, kid : Processes \cup {None}, again : BOOLEAN]]
        /\ cmd'[c].at = "done" /\ \A b \in Commands \ {c} : cmd'[b] = cmd[b]
    BY <1>0, <2>1, Moves
  <2>3. PICK s \in Sups : sup' = V!Looks(sup, s)
    BY <1>12 DEF V!Restarts
  <2>4. /\ DOMAIN sup' = Sups /\ \A t \in Sups : DOMAIN sup'[t] = DOMAIN V!Nobody
        /\ sup'[s].at \in {"gone", "begun"}
        /\ \A t \in Sups \ {s} : sup'[t] = sup[t]
    BY <1>0, <2>3, Looked
  <2>5. ProcTyped' /\ Owned'
    BY <1>0, <2>1, <2>2, <2>4 DEF ProcTyped, Owned, V!Runs
  <2>6. \A t \in Sups : ~V!Alive(t)
    BY <1>0, <2>1 DEF Stopping
  <2>7. \A b \in Commands : ~Active(b)'
    BY <1>0, <2>1, <2>2 DEF OneSup, Active
  <2>8. \A t \in Sups \ {s} : ~V!Alive(t)'
    BY <2>4, <2>6 DEF V!Alive
  <2>9. OneSup'
    BY <2>4, <2>7, <2>8 DEF OneSup, V!Alive
  <2>10. Stopping'
    BY <2>7 DEF Stopping, Active
  <2>11. QED
    BY <2>5, <2>9, <2>10 DEF ProcInv
<1>13. CASE V!Next
  BY <1>13, <1>1, <1>2, <1>3, <1>4, <1>5, <1>6, <1>7, <1>8, <1>9, <1>10, <1>11, <1>12
     DEF V!Next, V!SupSteps, V!CmdSteps
<1>14. QED
  BY <1>13, <1>7

\* While starts and commands do not overlap, `stop` leaves no supervisor, whatever died
\* or was killed meanwhile; and no daemon that would not leave by itself.
THEOREM StopLeavesNoneTheorem == ~Races => (ServicesSpec => StopLeavesNone)
<1> SUFFICES ASSUME ~Races PROVE ServicesSpec => StopLeavesNone
  OBVIOUS
<1>1. ServicesInit => ProcInv
  BY ProcStart DEF ServicesInit
<1>2. ProcInv /\ [ServicesNext]_<<which, vars, mapVars, updateVars, supVars, mailVars>> => ProcInv'
  BY ProcStep, ServicesSteps
<1>3. ServicesSpec => []ProcInv
  BY <1>1, <1>2, PTL DEF ServicesSpec
<1> DEFINE Left == \A c \in Commands :
              cmd[c].at = "files" /\ cmd'[c].at # "files" /\ ~met =>
                /\ \A s \in Sups : ~V!Alive(s)
                /\ \A d \in Processes : V!Runs(d) => daemon[d].at = "leaving" \/ V!Guards(d)
<1>4. ProcInv => Left
  <2> SUFFICES ASSUME ProcInv, NEW c \in Commands, cmd[c].at = "files"
               PROVE  /\ \A s \in Sups : ~V!Alive(s)
                      /\ \A d \in Processes : V!Runs(d) => daemon[d].at = "leaving" \/ V!Guards(d)
    OBVIOUS
  <2>1. \A s \in Sups : ~V!Alive(s)
    BY DEF ProcInv, Stopping
  <2>2. ASSUME NEW d \in Processes, V!Runs(d) PROVE daemon[d].at = "leaving" \/ V!Guards(d)
    BY <2>1, <2>2 DEF ProcInv, ProcTyped, Owned, V!Runs, V!Guards
  <2>3. QED
    BY <2>1, <2>2
<1>5. ProcInv /\ [ServicesNext]_<<which, vars, mapVars, updateVars, supVars, mailVars>> => [Left]_(V!vars)
  BY <1>4
<1> HIDE DEF Left
<1>6. ServicesSpec => [][Left]_(V!vars)
  BY <1>3, <1>5, PTL DEF ServicesSpec
<1>7. QED
  BY <1>6 DEF Left, StopLeavesNone, V!StopLeavesNone

-----------------------------------------------------------------------------
(* The operator's own mail.                                                *)

OF == INSTANCE Folding WITH Op <- LAMBDA k, h, i : F!Filed(h, i)
OD == INSTANCE Folding WITH Op <- LAMBDA k, u, it : F!M!Deposit(u, k, it.id, it.at)
OB == INSTANCE Folding WITH Op <- LAMBDA k, n, it : n + k[it.id]
OO == INSTANCE Folding WITH Op <- LAMBDA k, r, x : IF x \in k THEN Append(r, x) ELSE r

\* A message once, in a list of messages.
Once(msgs) == \A i, j \in DOMAIN msgs : msgs[i] = msgs[j] => i = j
Homes == {h \in [msgs : Seq(F!Texts), strangers : SUBSET ({From(i) : i \in Ids} \cup Before)] : Once(h.msgs)}

OwnItem == [id : Ids, at : F!M!Times]
OwnBoxes == [{"me"} -> F!M!Box \cup {None}]
Stores == [box : OwnBoxes, bytes : Int]

Part == [ids : Seq(Ids), more : BOOLEAN]
BoxesTyped ==
  store \in Stores /\ boxFile \in OwnBoxes /\ now \in F!M!Times
LinkTyped ==
  /\ DOMAIN link = {"at", "out", "in", "busy", "waits"}
  /\ link.out \in Seq(F!Frame) /\ link.in \in Seq(Part)
HomesTyped == home \in Homes /\ homeFile \in Homes
\* What is acknowledged, on its way, is in the history.
AckedKept == \A k \in DOMAIN link.out : \A i \in link.out[k].ids : Text(i) \in F!ToSet(home.msgs) \cup forgot

MailInv == BoxesTyped /\ LinkTyped /\ HomesTyped /\ AckedKept /\ F!TakenIsKept

\* filter(), in order.
LEMMA MailOnly ==
  ASSUME NEW S, NEW T, NEW s \in Seq(T), NEW r, r = OO!Value(S, <<>>, s)
  PROVE  /\ r \in Seq(T)
         /\ \A i \in DOMAIN r : r[i] \in S /\ \E j \in DOMAIN s : r[i] = s[j]
         /\ \A j \in DOMAIN s : s[j] \in S => \E i \in DOMAIN r : r[i] = s[j]
         /\ Once(s) => Once(r)
<1>2. \A q \in Seq(T), x \in T : (IF x \in S THEN Append(q, x) ELSE q) = IF x \in S THEN Append(q, x) ELSE q
  OBVIOUS
<1>3. /\ OO!Value(S, <<>>, s) \in Seq(T)
      /\ \E f : OO!Picked(S, s, Len(s), OO!Value(S, <<>>, s), f)
  BY <1>2, OO!Picks
<1>4. r \in Seq(T) /\ \E f : OO!Picked(S, s, Len(s), r, f)
  BY <1>3
<1>5. PICK f : OO!Picked(S, s, Len(s), r, f)
  BY <1>4
<1>6. /\ f \in [1..Len(r) -> 1..Len(s)]
      /\ \A i \in 1..Len(r) : r[i] = s[f[i]] /\ s[f[i]] \in S
      /\ \A i, j \in 1..Len(r) : i < j => f[i] < f[j]
      /\ \A p \in 1..Len(s) : s[p] \in S => \E i \in 1..Len(r) : f[i] = p
  BY <1>5 DEF OO!Picked
<1>7. DOMAIN r = 1..Len(r) /\ DOMAIN s = 1..Len(s) /\ Len(r) \in Nat
  BY <1>4
<1>8. \A i \in DOMAIN r : r[i] \in S /\ \E j \in DOMAIN s : r[i] = s[j]
  BY <1>6, <1>7
<1>9. \A j \in DOMAIN s : s[j] \in S => \E i \in DOMAIN r : r[i] = s[j]
  BY <1>6, <1>7
<1>10. ASSUME Once(s), NEW i \in 1..Len(r), NEW j \in 1..Len(r), r[i] = r[j] PROVE i = j
  <2>1. f[i] \in DOMAIN s /\ f[j] \in DOMAIN s /\ s[f[i]] = s[f[j]]
    BY <1>6, <1>7, <1>10
  <2>2. f[i] = f[j]
    BY <1>10, <2>1 DEF Once
  <2>3. ~(i < j) /\ ~(j < i)
    BY <1>6, <2>1, <2>2
  <2>4. QED
    BY <1>7, <2>3
<1>11. Once(s) => Once(r)
  BY <1>7, <1>10 DEF Once
<1>12. QED
  BY <1>4, <1>8, <1>9, <1>11

\* onMailboxItem keeps what is there, and files what it does not refuse.
LEMMA FiledKeeps ==
  ASSUME NEW h \in Homes, NEW i \in Ids
  PROVE  /\ F!Filed(h, i) \in Homes
         /\ F!ToSet(h.msgs) \subseteq F!ToSet(F!Filed(h, i).msgs)
         /\ ~F!Refuses(h, i) => Text(i) \in F!ToSet(F!Filed(h, i).msgs)
<1> DEFINE t == Text(i)
           m == IF F!Contains(h.msgs, t) THEN h.msgs ELSE Append(h.msgs, t)
<1>1. h.msgs \in Seq(F!Texts) /\ Once(h.msgs) /\ h.strangers \in SUBSET ({From(j) : j \in Ids} \cup Before)
  BY DEF Homes
<1>2. t \in F!Texts
  BY DEF F!Texts
<1> HIDE DEF t
<1>3. DOMAIN h.msgs = 1..Len(h.msgs) /\ Len(h.msgs) \in Nat
  BY <1>1
<1>4. m \in Seq(F!Texts) /\ Once(m) /\ F!ToSet(h.msgs) \subseteq F!ToSet(m) /\ t \in F!ToSet(m)
  <2>1. CASE F!Contains(h.msgs, t)
    BY <1>1, <1>3, <2>1 DEF F!Contains, F!ToSet
  <2>2. CASE ~F!Contains(h.msgs, t)
    <3>1. m = Append(h.msgs, t)
      BY <2>2
    <3>2. m \in Seq(F!Texts) /\ DOMAIN m = 1..(Len(h.msgs) + 1) /\ m[Len(h.msgs) + 1] = t
      BY <1>1, <1>2, <3>1
    <3>3. \A j \in 1..Len(h.msgs) : m[j] = h.msgs[j] /\ m[j] # t
      BY <1>1, <1>2, <2>2, <3>1 DEF F!Contains
    <3> HIDE DEF m
    <3>4. \A j \in 1..(Len(h.msgs) + 1) : j \in 1..Len(h.msgs) \/ j = Len(h.msgs) + 1
      BY <1>3
    <3>5. Once(m)
      BY <1>1, <1>3, <3>2, <3>3, <3>4 DEF Once
    <3>6. Len(h.msgs) + 1 \in DOMAIN m /\ \A j \in DOMAIN h.msgs : j \in DOMAIN m
      BY <1>3, <3>2
    <3>7. F!ToSet(h.msgs) \subseteq F!ToSet(m) /\ t \in F!ToSet(m)
      BY <1>3, <3>2, <3>3, <3>6 DEF F!ToSet
    <3>8. QED
      BY <3>2, <3>5, <3>7
  <2>3. QED
    BY <2>1, <2>2
<1>5. CASE F!Refuses(h, i)
  BY <1>5 DEF F!Filed
<1>6. CASE ~F!Refuses(h, i)
  <2>1. F!Filed(h, i) = [msgs |-> m, strangers |-> h.strangers \cup ({From(i)} \ Known)]
    BY <1>6 DEF F!Filed, t
  <2> HIDE DEF m
  <2>2. h.strangers \cup ({From(i)} \ Known) \in SUBSET ({From(j) : j \in Ids} \cup Before)
    BY <1>1
  <2>3. F!Filed(h, i) \in Homes /\ F!Filed(h, i).msgs = m
    BY <1>4, <2>1, <2>2 DEF Homes
  <2>4. QED
    BY <1>4, <2>3 DEF t
<1>7. QED
  BY <1>5, <1>6

\* mb-items: what was there stays, and what is acknowledged is there.
LEMMA FiledAll ==
  ASSUME NEW h \in Homes, NEW ids \in Seq(Ids), NEW g, g = F!FoldLeft(F!Filed, h, ids)
  PROVE  /\ g \in Homes
         /\ F!ToSet(h.msgs) \subseteq F!ToSet(g.msgs)
         /\ \A i \in F!Done(h, ids) : i \in Ids /\ Text(i) \in F!ToSet(g.msgs)
<1> DEFINE n == Len(ids)
           A(l) == OF!After(1, h, ids, l)
           D == {x \in Homes : F!ToSet(h.msgs) \subseteq F!ToSet(x.msgs)}
<1>1. n \in Nat /\ DOMAIN ids = 1..n /\ \A k \in 1..n : ids[k] \in Ids
  OBVIOUS
<1>2. \A s : F!FoldLeft(F!Filed, h, s) = OF!Value(1, h, s)
  BY DEF F!FoldLeft, F!MapThenFoldSet, OF!Value, OF!FoldOf, OF!Folds, OF!Max, F!Max
<1>3. \A x \in D, k \in 1..n : F!Filed(x, ids[k]) \in D
  BY <1>1, FiledKeeps
<1>4. h \in D
  OBVIOUS
<1>5. OF!Value(1, h, ids) \in D
  <2> HIDE DEF D, n
  <2>1. QED
    BY <1>1, <1>3, <1>4, OF!Run
<1>6. ASSUME NEW i \in F!Done(h, ids) PROVE i \in Ids /\ Text(i) \in F!ToSet(g.msgs)
  <2>1. PICK x \in 1..n : ids[x] = i /\ ~F!Refuses(F!FoldLeft(F!Filed, h, SubSeq(ids, 1, x - 1)), i)
    BY <1>1, <1>6 DEF F!Done
  <2> DEFINE p == SubSeq(ids, 1, x - 1)
  <2>2. x \in Nat /\ x - 1 \in 0..n /\ DOMAIN p = 1..(x - 1) /\ \A k \in 1..(x - 1) : p[k] = ids[k]
    BY <1>1
  <2>3. F!FoldLeft(F!Filed, h, p) = A(x - 1)
    <3> HIDE DEF p, n
    <3>1. OF!Value(1, h, p) = OF!After(1, h, ids, x - 1)
      BY <1>1, <2>2, OF!Prefix
    <3>2. QED
      BY <1>2, <3>1
  <2>4. A(x) = F!Filed(A(x - 1), ids[x])
    <3> HIDE DEF n
    <3>1. QED
      BY <1>1, OF!Steps
  <2>5. A(x - 1) \in Homes
    <3>1. \A k \in 1..(x - 1) : p[k] \in Ids
      BY <1>1, <2>2
    <3>2. \A u \in D, k \in 1..(x - 1) : F!Filed(u, p[k]) \in D
      BY <3>1, FiledKeeps
    <3>3. OF!Value(1, h, p) \in D
      <4> HIDE DEF D, p
      <4>1. x - 1 \in Nat
        BY <2>2
      <4>2. QED
        BY <1>4, <2>2, <3>2, <4>1, OF!Run
    <3>4. OF!Value(1, h, p) = A(x - 1)
      BY <1>2, <2>3
    <3>5. QED
      BY <3>3, <3>4
  <2> DEFINE E == {u \in Homes : Text(i) \in F!ToSet(u.msgs)}
  <2>6. A(x) \in E
    <3> HIDE DEF A
    <3>1. i \in Ids /\ ~F!Refuses(A(x - 1), i)
      BY <1>1, <2>1, <2>3
    <3>2. QED
      BY <2>1, <2>4, <2>5, <3>1, FiledKeeps
  <2>7. \A u \in E, k \in 1..n : F!Filed(u, ids[k]) \in E
    BY <1>1, FiledKeeps
  <2>8. OF!Value(1, h, ids) \in E
    <3> HIDE DEF E, n
    <3>1. n \in Nat /\ x \in 0..n /\ \A u \in E, k \in 1..n : k > x => F!Filed(u, ids[k]) \in E
      BY <1>1, <2>7
    <3>2. QED
      BY <1>1, <2>6, <3>1, OF!RunFrom
  <2>9. QED
    BY <1>1, <1>2, <2>1, <2>8
<1>7. QED
  BY <1>2, <1>5, <1>6

\* The boundaries of the frames of a page.
LEMMA Frames ==
  ASSUME NEW l \in Nat, NEW b \in Nat \ {0}, l > 0, NEW n, n = (l + b - 1) \div b
  PROVE  /\ n \in Nat
         /\ \A k \in 1..n : (k - 1) * b + 1 \in 1..l /\ (k # n => k * b \in 1..l)
<1>1. n \in Int
  OBVIOUS
<1>2. b * n <= l + b - 1 /\ b * n >= l
  <2> DEFINE x == l + b - 1
  <2>1. x \in Nat /\ n = x \div b
    OBVIOUS
  <2> HIDE DEF x
  <2>2. b * n <= x
    BY <2>1
  <2>3. x < b * n + b
    BY <2>1
  <2>4. QED
    BY <1>1, <2>2, <2>3 DEF x
<1>3. n >= 1
  <2>1. n <= 0 => b * n <= 0
    BY <1>1
  <2>2. QED
    BY <1>1, <1>2, <2>1
<1>4. ASSUME NEW k \in 1..n PROVE (k - 1) * b + 1 \in 1..l /\ (k # n => k * b \in 1..l)
  <2>1. /\ (k - 1) * b \in Int /\ k * b \in Int /\ (n - 1) * b \in Int
        /\ (k - 1) * b >= 0 /\ k * b >= 1 /\ (n - 1) * b = b * n - b
    BY <1>1, <1>4
  <2>2. (k - 1) * b <= (n - 1) * b
    BY <1>1, <1>4
  <2>3. k # n => k * b <= (n - 1) * b
    BY <1>1, <1>4
  <2>4. QED
    BY <1>1, <1>2, <2>1, <2>2, <2>3
<1>5. QED
  BY <1>1, <1>3, <1>4

LEMMA PartsTyped ==
  ASSUME NEW all \in Seq(Ids)
  PROVE  F!Parts(all) \in Seq(Part)
<1> DEFINE page == SubSeq(all, 1, IF Len(all) < PAGE THEN Len(all) ELSE PAGE)
           n == IF page = <<>> THEN 1 ELSE (Len(page) + BATCH - 1) \div BATCH
           ids(k) == SubSeq(page, (k - 1) * BATCH + 1, IF k = n THEN Len(page) ELSE k * BATCH)
           more(k) == (k = n /\ Len(all) > Len(page))
           q == [k \in 1..n |-> [ids |-> ids(k), more |-> more(k)]]
<1>1. page \in Seq(Ids) /\ Len(page) \in Nat
  BY PagesAssumption
<1>2. F!Parts(all) = q
  BY DEF F!Parts
<1>3. \A k : more(k) \in BOOLEAN
  OBVIOUS
<1> HIDE DEF page, more
<1>4. n \in Nat /\ \A k \in 1..n : ids(k) \in Seq(Ids)
  <2>1. CASE page = <<>>
    <3>1. Len(page) = 0 /\ n = 1
      BY <2>1
    <3> SUFFICES ids(1) \in Seq(Ids)
      BY <3>1
    <3>2. ids(1) = SubSeq(page, (1 - 1) * BATCH + 1, 0)
      BY <3>1
    <3>3. (1 - 1) * BATCH + 1 = 1
      BY PagesAssumption
    <3>4. SubSeq(page, 1, 0) \in Seq(Ids)
      BY <1>1
    <3>5. QED
      BY <3>2, <3>3, <3>4
  <2>2. CASE page # <<>>
    <3>1. Len(page) > 0
      BY <1>1, <2>2
    <3>2. n = (Len(page) + BATCH - 1) \div BATCH
      BY <2>2
    <3> HIDE DEF n
    <3>3. /\ n \in Nat
          /\ \A k \in 1..n : (k - 1) * BATCH + 1 \in 1..Len(page) /\ (k # n => k * BATCH \in 1..Len(page))
      BY <1>1, <3>1, <3>2, PagesAssumption, Frames
    <3>4. ASSUME NEW k \in 1..n PROVE ids(k) \in Seq(Ids)
      <4>1. (k - 1) * BATCH + 1 \in 1..Len(page) /\ (k # n => k * BATCH \in 1..Len(page))
        BY <3>3
      <4> DEFINE a == (k - 1) * BATCH + 1
                 b == IF k = n THEN Len(page) ELSE k * BATCH
      <4>2. a \in 1..Len(page) /\ b \in 0..Len(page)
        BY <1>1, <4>1
      <4> HIDE DEF a, b
      <4>3. SubSeq(page, a, b) \in Seq(Ids)
        BY <1>1, <4>2
      <4>4. QED
        BY <4>3 DEF a, b
    <3>5. QED
      BY <3>3, <3>4
  <2>3. QED
    BY <2>1, <2>2
<1> HIDE DEF n, ids
<1>5. \A k \in 1..n : [ids |-> ids(k), more |-> more(k)] \in Part
  BY <1>3, <1>4 DEF Part
<1>6. q \in [1..n -> Part]
  BY <1>5
<1> HIDE DEF q
<1>7. QED
  BY <1>2, <1>4, <1>6, SeqDef

-----------------------------------------------------------------------------
LEMMA MeIs == F!Me = "me"
  BY DEF F!Me

LEMMA BoxIs == \A x : x \in F!M!Box <=> x \in [seen : F!M!Times, items : Seq(OwnItem)]
  BY DEF F!M!Box, OwnItem

LEMMA BytesTyped == ASSUME NEW items \in Seq(OwnItem) PROVE F!M!Bytes(items) \in Int
<1> DEFINE k == [i \in Ids |-> 1]
<1>1. F!M!Bytes(items) = OB!Value(k, 0, items)
  BY DEF F!M!Bytes, F!M!FoldLeft, F!M!MapThenFoldSet, OB!Value, OB!FoldOf, OB!Folds, OB!Max, F!M!Max
<1>2. Len(items) \in Nat /\ DOMAIN items = 1..Len(items) /\ \A i \in 1..Len(items) : items[i] \in OwnItem
  OBVIOUS
<1>3. \A n \in Int, i \in 1..Len(items) : n + k[items[i].id] \in Int
  BY <1>2 DEF OwnItem
<1> HIDE DEF k
<1> DEFINE l == Len(items)
           D == Int
<1>a. l \in Nat /\ DOMAIN items = 1..l /\ 0 \in D /\ \A n \in D, i \in 1..l : n + k[items[i].id] \in D
  BY <1>2, <1>3
<1> HIDE DEF l, D
<1>b. OB!Value(k, 0, items) \in D
  BY <1>a, OB!Run
<1>4. OB!Value(k, 0, items) \in Int
  BY <1>b DEF D
<1>5. QED
  BY <1>1, <1>4

LEMMA OwnBoxSet ==
  ASSUME NEW u \in Stores, NEW bx \in F!M!Box \cup {None}, NEW n \in Int, 
         NEW v, v = [box |-> [u.box EXCEPT !["me"] = bx], bytes |-> n]
  PROVE  v \in Stores /\ v.box["me"] = bx
BY DEF Stores, OwnBoxes

LEMMA OwnBoxReset ==
  ASSUME NEW u \in Stores, NEW bx \in F!M!Box \cup {None}, NEW v, v = [u EXCEPT !.box["me"] = bx]
  PROVE  v \in Stores /\ v.box["me"] = bx
BY DEF Stores, OwnBoxes

LEMMA RegisterTyped ==
  ASSUME NEW u \in Stores, NEW t \in F!M!Times, NEW v, v = F!M!Register(u, "me", t)
  PROVE  /\ v \in Stores
         /\ u.box["me"] # None => v.box["me"] # None /\ v.box["me"].items = u.box["me"].items
<1>1. u.box["me"] \in F!M!Box \cup {None}
  BY DEF Stores, OwnBoxes
<1>2. CASE u.box["me"] # None
  <2> DEFINE b == u.box["me"]
             s == IF t > b.seen THEN t ELSE b.seen
             bx == [b EXCEPT !.seen = s]
  <2>1. b \in F!M!Box
    BY <1>1, <1>2
  <2>2. b \in [seen : F!M!Times, items : Seq(OwnItem)]
    BY <2>1, BoxIs
  <2>3. s \in F!M!Times
    BY <2>2
  <2> HIDE DEF s
  <2>4. bx \in [seen : F!M!Times, items : Seq(OwnItem)] /\ bx.items = b.items
    BY <2>2, <2>3
  <2>5. v = [u EXCEPT !.box["me"] = bx]
    BY <1>2 DEF F!M!Register, F!M!Registered, Stores, OwnBoxes, s
  <2>6. bx \in F!M!Box /\ bx # None
    BY <2>4, BoxIs, NoBoxAssumption
  <2> HIDE DEF b, bx
  <2>7. v \in Stores /\ v.box["me"] = bx
    BY <2>5, <2>6, OwnBoxReset
  <2>8. QED
    BY <2>4, <2>6, <2>7 DEF b
<1>3. CASE u.box["me"] = None
  <2> DEFINE bx == [seen |-> t, items |-> <<>>]
  <2>0. bx \in [seen : F!M!Times, items : Seq(OwnItem)]
    OBVIOUS
  <2>1. bx \in F!M!Box
    BY <2>0, BoxIs
  <2> HIDE DEF bx
  <2>2. v = u \/ v = [u EXCEPT !.box["me"] = bx]
    BY <1>3 DEF F!M!Register, F!M!Registered, bx
  <2>3. v \in Stores
    BY <2>1, <2>2, OwnBoxReset
  <2>4. QED
    BY <1>3, <2>3
<1>4. QED
  BY <1>2, <1>3

LEMMA DepositTyped ==
  ASSUME NEW u \in Stores, NEW id \in Ids, NEW t \in F!M!Times
  PROVE  F!M!Deposit(u, "me", id, t) \in Stores
<1> SUFFICES ASSUME u.box["me"] # None,
                    F!M!Deposit(u, "me", id, t) =
                      [box |-> [u.box EXCEPT !["me"].items = Append(@, [id |-> id, at |-> t])],
                       bytes |-> u.bytes + [i \in Ids |-> 1][id]]
             PROVE  F!M!Deposit(u, "me", id, t) \in Stores
  BY DEF F!M!Deposit, F!M!Takes, F!M!Registered
<1> DEFINE b == u.box["me"]
           bx == [b EXCEPT !.items = Append(@, [id |-> id, at |-> t])]
<1>1. b \in [seen : F!M!Times, items : Seq(OwnItem)] /\ u.bytes \in Int
  BY BoxIs DEF Stores, OwnBoxes
<1>2. [id |-> id, at |-> t] \in OwnItem
  BY DEF OwnItem
<1>a. Append(b.items, [id |-> id, at |-> t]) \in Seq(OwnItem)
  BY <1>1, <1>2
<1>3. bx \in [seen : F!M!Times, items : Seq(OwnItem)]
  BY <1>1, <1>a
<1>4. bx \in F!M!Box /\ u.bytes + [i \in Ids |-> 1][id] \in Int
  BY <1>1, <1>3, BoxIs
<1>5. [u.box EXCEPT !["me"].items = Append(@, [id |-> id, at |-> t])] = [u.box EXCEPT !["me"] = bx]
  BY DEF Stores, OwnBoxes
<1> HIDE DEF bx
<1> DEFINE v == F!M!Deposit(u, "me", id, t)   n == u.bytes + [i \in Ids |-> 1][id]
<1>6. v = [box |-> [u.box EXCEPT !["me"] = bx], bytes |-> n] /\ n \in Int
  BY <1>4, <1>5
<1> HIDE DEF v, n
<1>7. v \in Stores
  BY <1>4, <1>6, OwnBoxSet
<1>8. QED
  BY <1>7 DEF v

\* ack() takes nothing but what is named.
LEMMA WithoutTyped ==
  ASSUME NEW u \in Stores, u.box["me"] # None, NEW ids, NEW v, v = F!M!Without(u, "me", ids)
  PROVE  /\ v \in Stores /\ v.box["me"] # None
         /\ \A k \in DOMAIN u.box["me"].items : u.box["me"].items[k].id \notin ids =>
              \E j \in DOMAIN v.box["me"].items : v.box["me"].items[j] = u.box["me"].items[k]
<1> DEFINE b == u.box["me"]
           S == {it \in F!M!ToSet(b.items) : it.id \notin ids}
           left == F!M!Only(b.items, S)
           n == u.bytes - F!M!Bytes(b.items) + F!M!Bytes(left)
           bx == [b EXCEPT !.items = left]
<1>1. b \in [seen : F!M!Times, items : Seq(OwnItem)] /\ u.bytes \in Int
  BY BoxIs DEF Stores, OwnBoxes
<1>2. v = [box |-> [u.box EXCEPT !["me"].items = left], bytes |-> n]
  BY DEF F!M!Without
<1>3. left = OO!Value(S, <<>>, b.items)
  <2> HIDE DEF S
  <2>1. QED
    BY DEF F!M!Only, F!M!FoldLeft, F!M!MapThenFoldSet, OO!Value, OO!FoldOf, OO!Folds, OO!Max, F!M!Max
<1>4. \A k \in DOMAIN b.items : b.items[k].id \notin ids => b.items[k] \in S
  BY DEF F!M!ToSet
<1> HIDE DEF S, left
<1>5. /\ left \in Seq(OwnItem)
      /\ \A j \in DOMAIN b.items : b.items[j] \in S => \E i \in DOMAIN left : left[i] = b.items[j]
  BY <1>1, <1>3, MailOnly
<1>6. n \in Int
  BY <1>1, <1>5, BytesTyped
<1>7. bx \in F!M!Box /\ bx # None /\ bx.items = left
  <2>1. bx \in [seen : F!M!Times, items : Seq(OwnItem)] /\ bx.items = left
    BY <1>1, <1>5
  <2>2. QED
    BY <2>1, BoxIs, NoBoxAssumption
<1>8. [u.box EXCEPT !["me"].items = left] = [u.box EXCEPT !["me"] = bx]
  BY DEF Stores, OwnBoxes
<1> HIDE DEF n, bx
<1>9. v \in Stores /\ v.box["me"] = bx
  <2>1. v = [box |-> [u.box EXCEPT !["me"] = bx], bytes |-> n]
    BY <1>2, <1>8
  <2>2. QED
    BY <1>6, <1>7, <2>1, OwnBoxSet
<1>10. QED
  BY <1>4, <1>5, <1>7, <1>9

OX == INSTANCE Folding WITH Op <- LAMBDA k, u, fp :
        IF F!M!HasRoom(u, fp)
        THEN F!M!FoldLeft(LAMBDA w, it : F!M!Deposit(w, fp, it.id, it.at),
                          F!M!Register(u, fp, k[fp].seen), k[fp].items)
        ELSE u

LEMMA SameOrder == ASSUME NEW S, NEW by PROVE F!M!SortedBy(S, by) = OF!SortedBy(S, by)
  BY DEF F!M!SortedBy, OF!SortedBy, F!M!SetToSeqs, OF!SetToSeqs, F!M!Cardinality, OF!Cardinality

LEMMA RestoreTyped == ASSUME NEW image \in OwnBoxes PROVE F!M!Restore(image) \in Stores
<1> DEFINE there == {fp \in {"me"} : image[fp] # None}
           by == [fp \in there |-> 0 - image[fp].seen]
           order == F!M!SortedBy(there, by)
<1>1. F!M!Restore(image) = OX!Value(image, F!M!Empty, order)
  BY MeIs DEF F!M!Restore, F!M!FoldLeft, F!M!MapThenFoldSet, OX!Value, OX!FoldOf, OX!Folds, OX!Max, F!M!Max
<1>2. F!M!Empty \in Stores
  BY MeIs DEF F!M!Empty, Stores, OwnBoxes
<1>3. \A fp \in there : fp = "me" /\ image[fp] \in [seen : F!M!Times, items : Seq(OwnItem)]
  BY BoxIs DEF OwnBoxes
<1>4. \A x \in there : by[x] \in Int
  BY <1>3 DEF F!M!Times
<1>5. IsFiniteSet(there)
  BY FS_Singleton, FS_Subset
<1>6. order = OF!SortedBy(there, by)
  BY SameOrder
<1> DEFINE n == Cardinality(there)
<1> HIDE DEF there, by
<1>7. n \in Nat /\ OF!SortedBy(there, by) \in [1..n -> there]
  <2>1. OF!IsFiniteSet(there)
    BY <1>5 DEF OF!IsFiniteSet, IsFiniteSet
  <2>2. n = OF!Cardinality(there)
    BY DEF n, OF!Cardinality, Cardinality
  <2>3. QED
    BY <1>4, <2>1, <2>2, OF!Sorted
<1>8. n \in Nat /\ DOMAIN order = 1..n /\ \A i \in 1..n : order[i] \in there
  BY <1>6, <1>7
<1> HIDE DEF n, order
<1> DEFINE Fills(u, fp) ==
             IF F!M!HasRoom(u, fp)
             THEN F!M!FoldLeft(LAMBDA w, it : F!M!Deposit(w, fp, it.id, it.at),
                               F!M!Register(u, fp, image[fp].seen), image[fp].items)
             ELSE u
<1>9. ASSUME NEW u \in Stores, NEW fp \in there PROVE Fills(u, fp) \in Stores
  <2> DEFINE items == image["me"].items
             v == F!M!Register(u, "me", image["me"].seen)
  <2>1. fp = "me" /\ image["me"].seen \in F!M!Times /\ items \in Seq(OwnItem)
    BY <1>3
  <2>2. v \in Stores
    BY <2>1, RegisterTyped
  <2>3. F!M!FoldLeft(LAMBDA w, it : F!M!Deposit(w, "me", it.id, it.at), v, items) = OD!Value("me", v, items)
    BY DEF F!M!FoldLeft, F!M!MapThenFoldSet, OD!Value, OD!FoldOf, OD!Folds, OD!Max, F!M!Max
  <2> HIDE DEF items, v
  <2>a. \A i \in 1..Len(items) : items[i].id \in Ids /\ items[i].at \in F!M!Times
    <3>1. \A i \in 1..Len(items) : items[i] \in OwnItem
      BY <2>1
    <3>2. QED
      BY <3>1 DEF OwnItem
  <2>4. \A w \in Stores, i \in 1..Len(items) : F!M!Deposit(w, "me", items[i].id, items[i].at) \in Stores
    BY <2>a, DepositTyped
  <2>5. Len(items) \in Nat /\ DOMAIN items = 1..Len(items)
    BY <2>1
  <2>6. OD!Value("me", v, items) \in Stores
    BY <2>2, <2>4, <2>5, OD!Run
  <2>7. Fills(u, "me") = IF F!M!HasRoom(u, "me") THEN OD!Value("me", v, items) ELSE u
    BY <2>3 DEF items, v
  <2> HIDE DEF Fills
  <2>8. QED
    BY <2>1, <2>6, <2>7
<1>10. \A u \in Stores, i \in 1..n : Fills(u, order[i]) \in Stores
  BY <1>8, <1>9
<1>11. OX!Value(image, F!M!Empty, order) \in Stores
  BY <1>2, <1>8, <1>10, OX!Run
<1>12. QED
  BY <1>1, <1>11

\* What mb-get would send of a store.
MailOf(u) ==
  IF u.box["me"] # None THEN [i \in DOMAIN u.box["me"].items |-> u.box["me"].items[i].id] ELSE <<>>

LEMMA MailIs == F!Mail = MailOf(store)
  BY DEF F!Mail, MailOf, F!M!Registered, F!Me

LEMMA MailTyped == ASSUME NEW u \in Stores PROVE MailOf(u) \in Seq(Ids)
<1>1. CASE u.box["me"] # None
  <2> DEFINE items == u.box["me"].items
             q == [i \in DOMAIN items |-> items[i].id]
  <2>1. items \in Seq(OwnItem)
    BY <1>1, BoxIs DEF Stores, OwnBoxes
  <2> HIDE DEF items
  <2>2. Len(items) \in Nat /\ DOMAIN items = 1..Len(items) /\ \A i \in 1..Len(items) : items[i] \in OwnItem
    BY <2>1
  <2>3. q \in [1..Len(items) -> Ids]
    BY <2>2 DEF OwnItem
  <2>4. MailOf(u) = q
    BY <1>1 DEF MailOf, items
  <2> HIDE DEF q
  <2>5. QED
    BY <2>2, <2>3, <2>4, SeqDef
<1>2. CASE u.box["me"] = None
  BY <1>2 DEF MailOf
<1>3. QED
  BY <1>1, <1>2

\* mb-reg leaves the mail where it is.
LEMMA PollKeeps ==
  ASSUME NEW u \in Stores, NEW t \in F!M!Times, NEW v, v = F!M!Register(u, "me", t)
  PROVE  F!ToSet(MailOf(u)) \subseteq F!ToSet(MailOf(v))
<1>1. u.box["me"] # None => v.box["me"] # None /\ v.box["me"].items = u.box["me"].items
  BY RegisterTyped
<1>2. CASE u.box["me"] # None
  BY <1>1, <1>2 DEF MailOf
<1>3. CASE u.box["me"] = None
  <2>1. MailOf(u) = <<>>
    BY <1>3 DEF MailOf
  <2>2. F!ToSet(<<>>) = {}
    BY DEF F!ToSet
  <2>3. QED
    BY <2>1, <2>2
<1>4. QED
  BY <1>2, <1>3

LEMMA AckTakes ==
  ASSUME NEW u \in Stores, u.box["me"] # None, NEW ids, NEW v, v = F!M!Without(u, "me", ids)
  PROVE  F!ToSet(MailOf(u)) \ F!ToSet(MailOf(v)) \subseteq ids
<1> SUFFICES ASSUME NEW i \in F!ToSet(MailOf(u)), i \notin ids PROVE i \in F!ToSet(MailOf(v))
  OBVIOUS
<1>1. PICK k \in DOMAIN u.box["me"].items : u.box["me"].items[k].id = i
  BY DEF F!ToSet, MailOf
<1>2. /\ v.box["me"] # None
      /\ \E j \in DOMAIN v.box["me"].items : v.box["me"].items[j] = u.box["me"].items[k]
  BY <1>1, WithoutTyped
<1>3. QED
  BY <1>1, <1>2 DEF F!ToSet, MailOf

LEMMA AskTyped == ASSUME NEW t \in {"poll", "get"} PROVE F!Ask(t) \in F!Frame /\ F!Ask(t).ids = {}
  BY DEF F!Ask, F!Frame

\* The frames that wait, one more or one less of them.
LEMMA OneAsked ==
  ASSUME LinkTyped, NEW t \in {"poll", "get"}, NEW l, DOMAIN l = {"at", "out", "in", "busy", "waits"},
         l.out = <<F!Ask(t)>>, l.in \in Seq(Part), link' = l
  PROVE  LinkTyped' /\ \A k \in DOMAIN link'.out : link'.out[k].ids = {}
<1> DEFINE a == F!Ask(t)
<1>1. a \in F!Frame /\ a.ids = {}
  BY AskTyped
<1> HIDE DEF a
<1>2. <<a>> \in Seq(F!Frame) /\ \A k \in DOMAIN <<a>> : <<a>>[k].ids = {}
  BY <1>1
<1>3. QED
  BY <1>2 DEF LinkTyped, a

LEMMA AnswerTyped ==
  ASSUME LinkTyped, BoxesTyped, NEW rest \in Seq(F!Frame), F!Answer(rest)
  PROVE  LinkTyped' /\ link'.out = rest
<1> DEFINE p == F!Parts(MailOf(store))
           in == IF link.at = "cut" THEN link.in ELSE link.in \o p
<1>1. p \in Seq(Part)
  BY MailTyped, PartsTyped DEF BoxesTyped
<1>2. link.in \in Seq(Part) /\ DOMAIN link = {"at", "out", "in", "busy", "waits"}
  BY DEF LinkTyped
<1> HIDE DEF p
<1>3. in \in Seq(Part)
  BY <1>1, <1>2
<1>4. link' = [link EXCEPT !.out = rest, !.waits = FALSE, !.busy = TRUE, !.in = in]
  BY MailIs DEF F!Answer, p
<1> HIDE DEF in
<1>5. DOMAIN link' = {"at", "out", "in", "busy", "waits"} /\ link'.out = rest /\ link'.in = in
  BY <1>2, <1>4
<1>6. link'.out \in Seq(F!Frame) /\ link'.in \in Seq(Part)
  BY <1>3, <1>5
<1>7. LinkTyped'
  BY <1>5, <1>6, Zenon DEF LinkTyped
<1>8. QED
  BY <1>5, <1>7

LEMMA TakesGets ==
  ASSUME LinkTyped, BoxesTyped, NEW rest \in Seq(F!Frame), F!TakesGet(rest)
  PROVE  LinkTyped' /\ link'.out = rest
<1>1. CASE link.busy
  BY <1>1 DEF F!TakesGet, LinkTyped
<1>2. CASE ~link.busy
  <2>1. F!Answer(rest)
    BY <1>2 DEF F!TakesGet
  <2>2. QED
    BY <2>1, AnswerTyped
<1>3. QED
  BY <1>1, <1>2

LEMMA MailLink == ASSUME MailInv, F!LinkUp \/ F!Poke \/ F!LinkLost \/ F!Drained PROVE MailInv'
<1>0. BoxesTyped /\ LinkTyped /\ HomesTyped /\ AckedKept /\ F!TakenIsKept
  BY DEF MailInv
<1>1. UNCHANGED <<F!boxVars, home, homeFile, taken, forgot>>
  BY DEF F!LinkUp, F!Poke, F!LinkLost, F!Drained
<1>2. BoxesTyped' /\ HomesTyped' /\ F!TakenIsKept'
  BY <1>0, <1>1 DEF F!boxVars, BoxesTyped, HomesTyped, F!TakenIsKept
<1>3. LinkTyped' /\ (link'.out = link.out \/ \A k \in DOMAIN link'.out : link'.out[k].ids = {})
  <2>1. CASE F!LinkUp
    <3> DEFINE l == [F!Down EXCEPT !.at = "up", !.out = <<F!Ask("poll")>>]
    <3>1. DOMAIN l = {"at", "out", "in", "busy", "waits"} /\ l.out = <<F!Ask("poll")>> /\ l.in \in Seq(Part)
      BY DEF F!Down
    <3>2. link' = l
      BY <2>1 DEF F!LinkUp
    <3> HIDE DEF l
    <3>3. QED
      BY <1>0, <3>1, <3>2, OneAsked
  <2>2. CASE F!Poke
    <3> DEFINE l == [link EXCEPT !.out = <<F!Ask("poll")>>]
    <3>1. DOMAIN l = {"at", "out", "in", "busy", "waits"} /\ l.out = <<F!Ask("poll")>> /\ l.in \in Seq(Part)
      BY <1>0 DEF LinkTyped
    <3>2. link' = l
      BY <2>2 DEF F!Poke
    <3> HIDE DEF l
    <3>3. QED
      BY <1>0, <3>1, <3>2, OneAsked
  <2>3. CASE F!LinkLost
    BY <2>3 DEF F!LinkLost, F!Down, LinkTyped
  <2>4. CASE F!Drained
    <3>1. CASE link.waits
      <4>1. F!Answer(link.out)
        BY <2>4, <3>1 DEF F!Drained
      <4>2. link.out \in Seq(F!Frame)
        BY <1>0 DEF LinkTyped
      <4>3. QED
        BY <1>0, <4>1, <4>2, AnswerTyped
    <3>2. CASE ~link.waits
      BY <1>0, <2>4, <3>2 DEF F!Drained, LinkTyped
    <3>3. QED
      BY <3>1, <3>2
  <2>5. QED
    BY <2>1, <2>2, <2>3, <2>4
<1>4. AckedKept'
  BY <1>0, <1>1, <1>3 DEF AckedKept
<1>5. QED
  BY <1>2, <1>3, <1>4 DEF MailInv

\* The first frame is taken.
LEMMA FrameTaken ==
  ASSUME NEW out \in Seq(F!Frame), out # <<>>
  PROVE  /\ Head(out) \in F!Frame /\ Head(out) = out[1] /\ 1 \in DOMAIN out
         /\ Tail(out) \in Seq(F!Frame)
         /\ \A k \in DOMAIN Tail(out) : k + 1 \in DOMAIN out /\ Tail(out)[k] = out[k + 1]
OBVIOUS

LEMMA MailFrame == ASSUME MailInv, F!TakesFrame PROVE MailInv'
<1> DEFINE f == Head(link.out)   rest == Tail(link.out)
<1>0. BoxesTyped /\ LinkTyped /\ HomesTyped /\ AckedKept /\ F!TakenIsKept
  BY DEF MailInv
<1>1. /\ UNCHANGED <<home, homeFile, forgot>>
      /\ taken' = taken \cup (F!ToSet(MailOf(store)) \ F!ToSet(MailOf(store')))
  <2>1. F!Mail' = MailOf(store')
    BY DEF F!Mail, MailOf, F!M!Registered, F!Me
  <2>2. QED
    BY <2>1, MailIs DEF F!TakesFrame
<1>2. link.out \in Seq(F!Frame) /\ link.out # <<>>
  BY <1>0 DEF LinkTyped, F!TakesFrame
<1>3. /\ f \in F!Frame /\ f = link.out[1] /\ 1 \in DOMAIN link.out
      /\ rest \in Seq(F!Frame)
      /\ \A k \in DOMAIN rest : k + 1 \in DOMAIN link.out /\ rest[k] = link.out[k + 1]
  BY <1>2, FrameTaken
<1> HIDE DEF f, rest
<1>4. /\ LinkTyped' /\ link'.out = rest /\ boxFile' = boxFile /\ now' = now
      /\ store' \in Stores
      /\ F!ToSet(MailOf(store)) \ F!ToSet(MailOf(store')) \subseteq f.ids
  <2>0. store \in Stores /\ now \in F!M!Times
    BY <1>0 DEF BoxesTyped
  <2>1. CASE F!TakesGet(rest) /\ UNCHANGED F!boxVars
    BY <1>0, <1>3, <2>0, <2>1, TakesGets DEF F!boxVars
  <2>2. CASE F!TakesGet(rest) /\ F!M!Reg(F!Me)
    <3>1. store' = F!M!Register(store, "me", now) /\ boxFile' = boxFile /\ now' = now
      BY <2>2, MeIs DEF F!M!Reg
    <3>2. store' \in Stores
      BY <2>0, <3>1, RegisterTyped
    <3>3. F!ToSet(MailOf(store)) \subseteq F!ToSet(MailOf(store'))
      BY <2>0, <3>1, PollKeeps
    <3>4. LinkTyped' /\ link'.out = rest
      BY <1>0, <1>3, <2>2, TakesGets
    <3>5. QED
      BY <3>1, <3>2, <3>3, <3>4
  <2>3. CASE /\ link' = [link EXCEPT !.out = rest]
             /\ IF opened /\ f.ids \cap F!ToSet(F!Mail) # {} THEN F!M!Ack(F!Me, f.ids) ELSE UNCHANGED F!boxVars
    <3>1. LinkTyped' /\ link'.out = rest
      BY <1>0, <1>3, <2>3 DEF LinkTyped
    <3>2. CASE UNCHANGED F!boxVars
      BY <2>0, <3>1, <3>2 DEF F!boxVars
    <3>3. CASE F!M!Ack(F!Me, f.ids)
      <4>1. /\ store' = F!M!Without(store, "me", f.ids) /\ boxFile' = boxFile /\ now' = now
            /\ store.box["me"] # None
        BY <3>3, MeIs DEF F!M!Ack, F!M!Holds, F!M!Registered
      <4>2. store' \in Stores
        BY <2>0, <4>1, WithoutTyped
      <4>3. F!ToSet(MailOf(store)) \ F!ToSet(MailOf(store')) \subseteq f.ids
        BY <2>0, <4>1, AckTakes
      <4>4. QED
        BY <3>1, <4>1, <4>2, <4>3
    <3>4. QED
      BY <2>3, <3>2, <3>3
  <2>4. QED
    BY <2>1, <2>2, <2>3 DEF F!TakesFrame, f, rest
<1>5. BoxesTyped' /\ HomesTyped'
  BY <1>0, <1>1, <1>4 DEF BoxesTyped, HomesTyped
<1>6. AckedKept'
  BY <1>0, <1>1, <1>3, <1>4 DEF AckedKept
<1>7. F!TakenIsKept'
  <2>1. \A i \in f.ids : Text(i) \in F!ToSet(home.msgs) \cup forgot
    BY <1>0, <1>3 DEF AckedKept
  <2>2. taken' \subseteq taken \cup f.ids
    BY <1>1, <1>4
  <2>3. QED
    BY <1>0, <1>1, <2>1, <2>2 DEF F!TakenIsKept
<1>8. QED
  BY <1>0, <1>4, <1>5, <1>6, <1>7 DEF MailInv

\* Nothing but the boxes changes.
LEMMA MailBoxes ==
  ASSUME MailInv, store' \in Stores, boxFile' \in OwnBoxes, now' = now,
         UNCHANGED <<home, homeFile, taken, forgot>>, link' \in {link, F!Down}
  PROVE  MailInv'
<1>0. BoxesTyped /\ LinkTyped /\ HomesTyped /\ AckedKept /\ F!TakenIsKept
  BY DEF MailInv
<1>1. BoxesTyped' /\ HomesTyped' /\ F!TakenIsKept'
  BY <1>0 DEF BoxesTyped, HomesTyped, F!TakenIsKept
<1>2. LinkTyped' /\ AckedKept'
  <2>1. CASE link' = link
    BY <1>0, <2>1 DEF LinkTyped, AckedKept
  <2>2. CASE link' = F!Down
    <3>1. DOMAIN link' = {"at", "out", "in", "busy", "waits"} /\ link'.out = <<>> /\ link'.in = <<>>
      BY <2>2 DEF F!Down
    <3>2. QED
      BY <3>1 DEF LinkTyped, AckedKept
  <2>3. QED
    BY <2>1, <2>2
<1>3. QED
  BY <1>1, <1>2 DEF MailInv

LEMMA MailMailbox ==
  ASSUME MailInv, (\E i \in Ids : F!Deposits(i)) \/ F!MailboxSaves \/ F!MailboxKilled
  PROVE  MailInv'
<1>0. store \in Stores /\ boxFile \in OwnBoxes /\ now \in F!M!Times
  BY DEF MailInv, BoxesTyped
<1>1. ASSUME NEW i \in Ids, F!Deposits(i) PROVE MailInv'
  <2>1. /\ store' = F!M!Deposit(store, "me", i, now) /\ boxFile' = boxFile /\ now' = now
        /\ UNCHANGED <<link, home, homeFile, taken, forgot>>
    BY <1>1, MeIs DEF F!Deposits, F!M!Put
  <2>2. store' \in Stores
    BY <1>0, <2>1, DepositTyped
  <2>3. QED
    BY <1>0, <2>1, <2>2, MailBoxes
<1>2. CASE F!MailboxSaves
  <2>1. /\ store' = store /\ boxFile' \in {boxFile, store.box} /\ now' = now
        /\ UNCHANGED <<link, home, homeFile, taken, forgot>>
    BY <1>2 DEF F!MailboxSaves, F!M!Write, F!M!Writes
  <2>2. boxFile' \in OwnBoxes
    BY <1>0, <2>1 DEF Stores
  <2>3. QED
    BY <1>0, <2>1, <2>2, MailBoxes
<1>3. CASE F!MailboxKilled
  <2>1. /\ store' = F!M!Restore(boxFile) /\ boxFile' = boxFile /\ now' = now /\ link' = F!Down
        /\ UNCHANGED <<home, homeFile, taken, forgot>>
    BY <1>3 DEF F!MailboxKilled, F!M!Crash, F!M!Reopened
  <2>2. store' \in Stores
    BY <1>0, <2>1, RestoreTyped
  <2>3. QED
    BY <1>0, <2>1, <2>2, MailBoxes
<1>4. QED
  BY <1>1, <1>2, <1>3

\* What was filed stays filed, or is forgotten.
LEMMA MailKept ==
  ASSUME AckedKept, F!TakenIsKept, F!ToSet(home.msgs) \cup forgot \subseteq F!ToSet(home'.msgs) \cup forgot', taken' = taken
  PROVE  F!TakenIsKept' /\ (link'.out = link.out => AckedKept')
BY DEF AckedKept, F!TakenIsKept

LEMMA MailItems == ASSUME MailInv, F!TakesItems PROVE MailInv'
<1> DEFINE f == Head(link.in)
           done == F!Done(home, f.ids)
           ack == IF done = {} THEN <<>> ELSE <<[t |-> "ack", ids |-> done]>>
           more == IF f.more /\ done # {} THEN <<F!Ask("get")>> ELSE <<>>
<1>0. BoxesTyped /\ LinkTyped /\ HomesTyped /\ AckedKept /\ F!TakenIsKept
  BY DEF MailInv
<1>1. /\ UNCHANGED <<F!boxVars, homeFile, taken, forgot>>
      /\ home' = F!FoldLeft(F!Filed, home, f.ids)
      /\ link' = [link EXCEPT !.in = Tail(link.in), !.out = link.out \o ack \o more]
  BY DEF F!TakesItems
<1>2. link.in \in Seq(Part) /\ link.in # <<>> /\ link.out \in Seq(F!Frame) /\ home \in Homes
  BY <1>0 DEF LinkTyped, F!TakesItems, HomesTyped
<1>3. f \in Part /\ Tail(link.in) \in Seq(Part)
  BY <1>2
<1>4. f.ids \in Seq(Ids)
  BY <1>3 DEF Part
<1>5. /\ home' \in Homes /\ F!ToSet(home.msgs) \subseteq F!ToSet(home'.msgs)
      /\ \A i \in done : i \in Ids /\ Text(i) \in F!ToSet(home'.msgs)
  BY <1>1, <1>2, <1>4, FiledAll
<1> HIDE DEF done, f
<1>6. ack \in Seq(F!Frame) /\ \A k \in DOMAIN ack : ack[k].ids \subseteq done
  <2> DEFINE a == [t |-> "ack", ids |-> done]
  <2>1. a \in F!Frame /\ a.ids = done
    BY <1>5 DEF F!Frame
  <2> HIDE DEF a
  <2>2. <<a>> \in Seq(F!Frame) /\ \A k \in DOMAIN <<a>> : <<a>>[k].ids = done
    BY <2>1
  <2>3. QED
    BY <2>2 DEF a
<1>7. more \in Seq(F!Frame) /\ \A k \in DOMAIN more : more[k].ids \subseteq done
  <2> DEFINE a == F!Ask("get")
  <2>1. a \in F!Frame /\ a.ids = {}
    BY AskTyped
  <2> HIDE DEF a
  <2>2. <<a>> \in Seq(F!Frame) /\ \A k \in DOMAIN <<a>> : <<a>>[k].ids = {}
    BY <2>1
  <2>3. CASE f.more /\ done # {}
    BY <2>2, <2>3 DEF a
  <2>4. CASE ~(f.more /\ done # {})
    BY <2>4
  <2>5. QED
    BY <2>3, <2>4
<1> HIDE DEF ack, more
<1> DEFINE out == link.out \o ack \o more
<1>8. /\ out \in Seq(F!Frame)
      /\ \A k \in DOMAIN out : \/ \E j \in DOMAIN link.out : out[k] = link.out[j]
                               \/ out[k].ids \subseteq done
  <2> DEFINE two == link.out \o ack
  <2>1. /\ two \in Seq(F!Frame) /\ Len(two) = Len(link.out) + Len(ack)
        /\ \A k \in 1..(Len(link.out) + Len(ack)) :
             two[k] = IF k <= Len(link.out) THEN link.out[k] ELSE ack[k - Len(link.out)]
    BY <1>2, <1>6, ConcatProperties, Zenon
  <2> HIDE DEF two
  <2> DEFINE three == two \o more
  <2>a. /\ three \in Seq(F!Frame) /\ Len(three) = Len(two) + Len(more)
        /\ \A k \in 1..(Len(two) + Len(more)) : three[k] = IF k <= Len(two) THEN two[k] ELSE more[k - Len(two)]
    <3>1. two \in Seq(F!Frame) /\ more \in Seq(F!Frame)
      BY <1>7, <2>1
    <3>2. QED
      BY <3>1, ConcatProperties, Zenon
  <2>b. out = three
    BY DEF two
  <2> HIDE DEF three, out
  <2>2. /\ out \in Seq(F!Frame) /\ Len(out) = Len(two) + Len(more)
        /\ \A k \in 1..(Len(two) + Len(more)) : out[k] = IF k <= Len(two) THEN two[k] ELSE more[k - Len(two)]
    BY <2>a, <2>b, Zenon
  <2>3. /\ DOMAIN link.out = 1..Len(link.out) /\ DOMAIN ack = 1..Len(ack) /\ DOMAIN more = 1..Len(more)
        /\ Len(link.out) \in Nat /\ Len(ack) \in Nat /\ Len(more) \in Nat /\ DOMAIN out = 1..Len(out)
    BY <1>2, <1>6, <1>7, <2>2
  <2>4. ASSUME NEW k \in DOMAIN out
        PROVE  \/ \E j \in DOMAIN link.out : out[k] = link.out[j]
               \/ out[k].ids \subseteq done
    <3>1. k \in 1..(Len(link.out) + Len(ack) + Len(more))
      BY <2>1, <2>2, <2>3
    <3>2. CASE k <= Len(link.out)
      <4>1. k \in DOMAIN link.out /\ out[k] = link.out[k]
        BY <2>1, <2>2, <2>3, <3>1, <3>2
      <4>2. QED
        BY <4>1
    <3>3. CASE ~(k <= Len(link.out)) /\ k <= Len(two)
      <4>1. k - Len(link.out) \in DOMAIN ack /\ out[k] = ack[k - Len(link.out)]
        <5>1. k - Len(link.out) \in DOMAIN ack
          BY <2>1, <2>3, <3>1, <3>3
        <5>2. k \in 1..(Len(two) + Len(more)) /\ k \in 1..(Len(link.out) + Len(ack))
          BY <2>1, <2>3, <3>1, <3>3
        <5>a. out[k] = two[k]
          BY <2>2, <3>3, <5>2
        <5>b. two[k] = ack[k - Len(link.out)]
          BY <2>1, <3>3, <5>2
        <5>3. QED
          BY <5>1, <5>a, <5>b
      <4>2. QED
        BY <1>6, <4>1
    <3>4. CASE ~(k <= Len(two))
      <4>1. k - Len(two) \in DOMAIN more /\ out[k] = more[k - Len(two)]
        BY <2>1, <2>2, <2>3, <3>1, <3>4
      <4>2. QED
        BY <1>7, <4>1
    <3>5. QED
      BY <3>2, <3>3, <3>4
  <2>5. QED
    BY <2>2, <2>4
<1>9. link' = [link EXCEPT !.in = Tail(link.in), !.out = out]
  BY <1>1
<1> HIDE DEF out
<1>10. LinkTyped' /\ link'.out = out
  <2>1. DOMAIN link' = {"at", "out", "in", "busy", "waits"} /\ link'.out = out /\ link'.in = Tail(link.in)
    BY <1>0, <1>9 DEF LinkTyped
  <2>2. QED
    BY <1>3, <1>8, <2>1 DEF LinkTyped
<1>11. AckedKept'
  BY <1>0, <1>1, <1>5, <1>8, <1>10 DEF AckedKept
<1>12. F!TakenIsKept'
  BY <1>0, <1>1, <1>5, MailKept
<1>13. BoxesTyped' /\ HomesTyped'
  BY <1>0, <1>1, <1>5 DEF BoxesTyped, HomesTyped, F!boxVars
<1>14. QED
  BY <1>10, <1>11, <1>12, <1>13 DEF MailInv

\* Removes: what the stranger wrote leaves, the rest stays.
LEMMA MailRemoved ==
  ASSUME NEW h \in Homes, NEW T, NEW r, r = F!Only(h.msgs, T), NEW st \in SUBSET h.strangers
  PROVE  /\ [msgs |-> r, strangers |-> st] \in Homes
         /\ F!ToSet(h.msgs) \cap T \subseteq F!ToSet(r)
<1>1. h.msgs \in Seq(F!Texts) /\ Once(h.msgs) /\ h.strangers \in SUBSET ({From(i) : i \in Ids} \cup Before)
  BY DEF Homes
<1>2. r = OO!Value(T, <<>>, h.msgs)
  BY DEF F!Only, F!FoldLeft, F!MapThenFoldSet, OO!Value, OO!FoldOf, OO!Folds, OO!Max, F!Max
<1>3. /\ r \in Seq(F!Texts)
      /\ \A j \in DOMAIN h.msgs : h.msgs[j] \in T => \E i \in DOMAIN r : r[i] = h.msgs[j]
      /\ Once(r)
  BY <1>1, <1>2, MailOnly
<1>4. [msgs |-> r, strangers |-> st] \in Homes
  BY <1>1, <1>3 DEF Homes
<1>5. F!ToSet(h.msgs) \cap T \subseteq F!ToSet(r)
  BY <1>3 DEF F!ToSet
<1>6. QED
  BY <1>4, <1>5

LEMMA MailHome ==
  ASSUME MailInv, F!Saves \/ F!Killed \/ \E s \in home.strangers : F!Removes(s)
  PROVE  MailInv'
<1>0. BoxesTyped /\ LinkTyped /\ HomesTyped /\ AckedKept /\ F!TakenIsKept
  BY DEF MailInv
<1>1. UNCHANGED <<F!boxVars, taken>>
  BY DEF F!Saves, F!Killed, F!Removes
<1>2. BoxesTyped'
  BY <1>0, <1>1 DEF BoxesTyped, F!boxVars
<1>3. CASE F!Saves
  <2>1. home' = home /\ homeFile' = home /\ UNCHANGED <<link, forgot>>
    BY <1>3 DEF F!Saves
  <2>2. LinkTyped' /\ HomesTyped' /\ AckedKept' /\ F!TakenIsKept'
    BY <1>0, <1>1, <2>1 DEF LinkTyped, HomesTyped, AckedKept, F!TakenIsKept
  <2>3. QED
    BY <1>2, <2>2 DEF MailInv
<1>4. CASE F!Killed
  <2>1. /\ home' = homeFile /\ forgot' = forgot \cup (F!ToSet(home.msgs) \ F!ToSet(homeFile.msgs))
        /\ homeFile' = homeFile /\ link' \in {link, [link EXCEPT !.at = "cut", !.in = <<>>]}
    BY <1>4 DEF F!Killed
  <2>2. LinkTyped' /\ link'.out = link.out
    <3>1. DOMAIN link' = {"at", "out", "in", "busy", "waits"} /\ link'.out = link.out /\ link'.in \in {<<>>, link.in}
      BY <1>0, <2>1 DEF LinkTyped
    <3>2. link'.in \in Seq(Part) /\ link'.out \in Seq(F!Frame)
      <4>1. link.in \in Seq(Part) /\ link.out \in Seq(F!Frame)
        BY <1>0 DEF LinkTyped
      <4>2. <<>> \in Seq(Part)
        OBVIOUS
      <4>3. QED
        BY <3>1, <4>1, <4>2
    <3>3. QED
      BY <3>1, <3>2, Zenon DEF LinkTyped
  <2>3. F!ToSet(home.msgs) \cup forgot \subseteq F!ToSet(home'.msgs) \cup forgot'
    BY <2>1
  <2>4. AckedKept' /\ F!TakenIsKept'
    BY <1>0, <1>1, <2>2, <2>3, MailKept
  <2>5. HomesTyped'
    BY <1>0, <2>1 DEF HomesTyped
  <2>6. QED
    BY <1>2, <2>2, <2>4, <2>5 DEF MailInv
<1>5. ASSUME NEW s \in home.strangers, F!Removes(s) PROVE MailInv'
  <2> DEFINE theirs == {Text(i) : i \in {x \in Ids : From(x) = s}}
             T == F!Texts \ theirs
             r == F!Only(home.msgs, T)
             st == home.strangers \ {s}
  <2>1. /\ home' = [msgs |-> r, strangers |-> st]
        /\ forgot' = forgot \cup (theirs \cap F!ToSet(home.msgs))
        /\ UNCHANGED <<link, homeFile>>
    BY <1>5 DEF F!Removes
  <2>2. home \in Homes /\ st \in SUBSET home.strangers
    BY <1>0 DEF HomesTyped
  <2>3. F!ToSet(home.msgs) \subseteq F!Texts
    <3>1. home.msgs \in Seq(F!Texts)
      BY <2>2 DEF Homes
    <3>2. QED
      BY <3>1 DEF F!ToSet
  <2> HIDE DEF theirs, r, st
  <2>4. [msgs |-> r, strangers |-> st] \in Homes /\ F!ToSet(home.msgs) \cap T \subseteq F!ToSet(r)
    <3>1. r = F!Only(home.msgs, T)
      BY DEF r
    <3> HIDE DEF T
    <3>2. QED
      BY <2>2, <3>1, MailRemoved
  <2>5. home' \in Homes /\ home'.msgs = r
    BY <2>1, <2>4
  <2>6. F!ToSet(home.msgs) \cup forgot \subseteq F!ToSet(home'.msgs) \cup forgot'
    BY <2>1, <2>3, <2>4, <2>5
  <2>7. AckedKept' /\ F!TakenIsKept'
    BY <1>0, <1>1, <2>1, <2>6, MailKept
  <2>8. HomesTyped' /\ LinkTyped'
    BY <1>0, <2>1, <2>5 DEF HomesTyped, LinkTyped
  <2>9. QED
    BY <1>2, <2>7, <2>8 DEF MailInv
<1>6. QED
  BY <1>3, <1>4, <1>5

LEMMA MailStart == ASSUME F!Init PROVE MailInv
<1>1. store = F!M!Empty /\ boxFile = F!M!Empty.box /\ now = 0 /\ link = F!Down
  BY DEF F!Init, F!M!Init
<1>2. BoxesTyped
  <2>1. F!M!Empty \in Stores /\ F!M!Empty.box \in OwnBoxes
    BY MeIs DEF F!M!Empty, Stores, OwnBoxes
  <2>2. 0 \in F!M!Times
    BY DEF F!M!Times
  <2>3. QED
    BY <1>1, <2>1, <2>2 DEF BoxesTyped
<1>3. LinkTyped /\ link.out = <<>>
  <2>1. DOMAIN link = {"at", "out", "in", "busy", "waits"} /\ link.out = <<>> /\ link.in = <<>>
    BY <1>1 DEF F!Down
  <2>2. QED
    BY <2>1 DEF LinkTyped
<1>4. HomesTyped
  <2> DEFINE h == [msgs |-> <<>>, strangers |-> Before]
  <2>1. h \in Homes
    <3>1. h \in [msgs : Seq(F!Texts), strangers : SUBSET ({From(i) : i \in Ids} \cup Before)] /\ h.msgs = <<>>
      OBVIOUS
    <3> HIDE DEF h
    <3>2. Once(h.msgs)
      BY <3>1 DEF Once
    <3>3. QED
      BY <3>1, <3>2 DEF Homes
  <2> HIDE DEF h
  <2>2. home = h /\ homeFile = home
    BY DEF F!Init, h
  <2>3. QED
    BY <2>1, <2>2 DEF HomesTyped
<1>5. AckedKept
  BY <1>3 DEF AckedKept
<1>6. F!TakenIsKept
  BY DEF F!Init, F!TakenIsKept
<1>7. QED
  BY <1>2, <1>3, <1>4, <1>5, <1>6 DEF MailInv

LEMMA MailStep == ASSUME MailInv, [F!Next]_mailVars PROVE MailInv'
<1>1. CASE F!Next
  BY <1>1, MailLink, MailFrame, MailMailbox, MailItems, MailHome DEF F!Next
<1>2. CASE UNCHANGED mailVars
  BY <1>2 DEF mailVars, MailInv, BoxesTyped, LinkTyped, HomesTyped, AckedKept, F!TakenIsKept
<1>3. QED
  BY <1>1, <1>2

\* What the mailbox has let go of is in the history, once, unless the operator removed it
\* or a kill took it: whatever is lost, sent twice or read late, on either side.
THEOREM NoneLostTheorem == ServicesSpec => []NoneLost
<1>1. ServicesInit => MailInv
  BY MailStart DEF ServicesInit
<1>2. MailInv /\ [ServicesNext]_<<which, vars, mapVars, updateVars, supVars, mailVars>> => MailInv'
  BY MailStep, ServicesSteps
<1>3. MailInv => NoneLost
  BY DEF MailInv, HomesTyped, Homes, Once, NoneLost, F!NoneLost, F!KeptOnce
<1>4. QED
  BY <1>1, <1>2, <1>3, PTL DEF ServicesSpec
=============================================================================
