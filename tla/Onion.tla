-------------------------------- MODULE Onion --------------------------------
(***************************************************************************)
(* The onion service: startOnionService of torcontrol.js, which tries the  *)
(* control ports it knows one after the other, authenticates, adds the     *)
(* service and tries again when the connection that holds it is lost; and  *)
(* startOnion of nodesignald.js, which saves the service's key and         *)
(* announces its address.  Each await of the code ends in one step: its    *)
(* answer, or a failure of any kind.  Replies, files and encodings are     *)
(* left out; an address is its key.                                        *)
(***************************************************************************)
EXTENDS Naturals, FiniteSets

CONSTANTS
  Ports,            \* how many control ports are known (candidates)
  HasPassword,      \* the operator configured a control password
  MaxKills,         \* bound: how often the daemon is killed and started again
  None

ASSUME PortsAssumption == Ports \in Nat \ {0}
ASSUME FlagsAssumption == HasPassword \in BOOLEAN
ASSUME BoundsAssumption == MaxKills \in Nat
ASSUME NoneAssumption == None \notin Nat

VARIABLES
  step,             \* the await the attempt is at; idle: no attempt runs
  at,               \* the candidate it tries
  how,              \* the authentication method chosen
  spare,            \* Tor takes a password as well, and one is configured
  trying,           \* the attempt's connection is open
  proof,            \* whether the other end was asked for, and gave, the SAFECOOKIE proof
  given,            \* the secrets it was sent, on this connection
  live,             \* the connection that holds the service is open
  timer,            \* an attempt is scheduled
  stopped,          \* stop() was called
  key,              \* the service's key, in memory
  saved,            \* state.onionKey in state.json
  onion,            \* myOnion: the address peers are told
  status,           \* torStatus.state
  keys, kills,      \* keys Tor has made; kills so far
  announced         \* addresses ever told to peers

attempt == <<step, at, how, spare, trying, proof, given>>
service == <<live, key, saved, onion, announced, status>>
vars    == <<attempt, service, timer, stopped, keys, kills>>

AuthMethods == {"NULL", "SAFECOOKIE", "COOKIE", "HASHEDPASSWORD"}
Secrets == {"cookie", "password", "key"}
Awaits  == {"connect", "info", "cookie", "challenge", "auth", "add"}
Keys    == 1..(MaxKills + 1)

TypeOK ==
  /\ step \in Awaits \cup {"idle"} /\ at \in 1..Ports
  /\ how \in AuthMethods \cup {None} /\ spare \in BOOLEAN /\ trying \in BOOLEAN
  /\ proof \in {"none", "asked", "good"} /\ given \subseteq Secrets
  /\ live \in BOOLEAN /\ timer \in BOOLEAN /\ stopped \in BOOLEAN
  /\ key \in Keys \cup {None} /\ saved \in Keys \cup {None} /\ onion \in Keys \cup {None}
  /\ status \in {"starting", "up", "reconnecting", "unavailable"}
  /\ keys \in 0..(MaxKills + 1) /\ kills \in 0..MaxKills
  /\ announced \subseteq Keys

\* startOnion at boot: the key is the saved one, the first attempt is timed.
Boots ==
  /\ step' = "idle" /\ at' = 1 /\ how' = None /\ spare' = FALSE /\ trying' = FALSE
  /\ proof' = "none" /\ given' = {}
  /\ live' = FALSE /\ timer' = TRUE /\ stopped' = FALSE
  /\ key' = saved /\ onion' = None /\ status' = "starting"

Init ==
  /\ step = "idle" /\ at = 1 /\ how = None /\ spare = FALSE /\ trying = FALSE
  /\ proof = "none" /\ given = {}
  /\ live = FALSE /\ timer = TRUE /\ stopped = FALSE
  /\ key = None /\ saved = None /\ onion = None /\ status = "starting"
  /\ keys = 0 /\ kills = 0 /\ announced = {}

-----------------------------------------------------------------------------
(* An attempt.                                                             *)

\* down(): the console is told, and a new attempt is timed.
Down_GivesUp ==                                                    \* mutant
  /\ timer' = (~stopped /\ onion = None)
  /\ status' = IF onion = None THEN "unavailable" ELSE "reconnecting"
Down ==
  /\ timer' = ~stopped
  /\ status' = IF onion = None THEN "unavailable" ELSE "reconnecting"

\* The loop over the candidates: on to the next port, or all have failed.
NextPort ==
  /\ how' = None /\ spare' = FALSE /\ trying' = FALSE /\ proof' = "none" /\ given' = {}
  /\ \/ /\ stopped
        /\ step' = "idle" /\ UNCHANGED <<at, timer, status>>
     \/ /\ ~stopped /\ at < Ports
        /\ step' = "connect" /\ at' = at + 1 /\ UNCHANGED <<timer, status>>
     \/ /\ ~stopped /\ at = Ports
        /\ step' = "idle" /\ UNCHANGED at
        /\ Down

Attempt ==
  /\ timer /\ step = "idle"
  /\ timer' = FALSE
  /\ step' = "connect" /\ at' = 1
  /\ UNCHANGED <<how, spare, trying, proof, given, service, stopped, keys, kills>>

\* Any await may fail: nothing listens, the answer is a refusal or makes no
\* sense, none comes in time, the connection closes (stop() closes it, too).
\* A cookie that cannot be read is no failure with a password to spare.
Fails ==
  /\ step # "idle" /\ (step = "cookie" /\ trying => ~spare)
  /\ NextPort
  /\ UNCHANGED <<live, key, saved, onion, announced, stopped, keys, kills>>

\* The connection is open; stop() did not know of it until now.
Connected_Unchecked ==                                             \* mutant
  /\ step = "connect"
  /\ step' = "info" /\ trying' = TRUE
  /\ UNCHANGED <<at, how, spare, proof, given, timer, service, stopped, keys, kills>>
Connected ==
  /\ step = "connect"
  /\ IF stopped THEN step' = "idle" /\ UNCHANGED trying
                ELSE step' = "info" /\ trying' = TRUE
  /\ UNCHANGED <<at, how, spare, proof, given, timer, service, stopped, keys, kills>>

\* Authenticating with a method; what it sends.
Sends(m) == CASE m = "COOKIE" -> {"cookie"} [] m = "HASHEDPASSWORD" -> {"password"} [] OTHER -> {}
AuthenticatesBy(m) == step' = "auth" /\ how' = m /\ given' = given \cup Sends(m)

\* PROTOCOLINFO: NULL before a cookie, a cookie before the password.
Informed(offered) ==
  /\ step = "info" /\ trying
  /\ \/ "NULL" \in offered /\ AuthenticatesBy("NULL")
     \/ /\ "NULL" \notin offered /\ offered \cap {"SAFECOOKIE", "COOKIE"} # {}
        /\ step' = "cookie" /\ UNCHANGED given
        /\ how' = IF "SAFECOOKIE" \in offered THEN "SAFECOOKIE" ELSE "COOKIE"
     \/ offered = {"HASHEDPASSWORD"} /\ HasPassword /\ AuthenticatesBy("HASHEDPASSWORD")
  /\ spare' = (HasPassword /\ "HASHEDPASSWORD" \in offered)
  /\ UNCHANGED <<at, trying, proof, timer, service, stopped, keys, kills>>

\* The cookie file was read; with SAFECOOKIE the AUTHCHALLENGE goes out.
CookieRead ==
  /\ step = "cookie" /\ trying
  /\ IF how = "SAFECOOKIE" THEN step' = "challenge" /\ proof' = "asked" /\ UNCHANGED <<how, given>>
                           ELSE AuthenticatesBy("COOKIE") /\ UNCHANGED proof
  /\ UNCHANGED <<at, spare, trying, timer, service, stopped, keys, kills>>

\* It could not be, and Tor offered to take the password as well.
CookieUnreadable ==
  /\ step = "cookie" /\ trying /\ spare
  /\ AuthenticatesBy("HASHEDPASSWORD")
  /\ UNCHANGED <<at, spare, trying, proof, timer, service, stopped, keys, kills>>

\* The other end shows that it knows the cookie.
Proven ==
  /\ step = "challenge" /\ trying
  /\ proof' = "good" /\ AuthenticatesBy("SAFECOOKIE")
  /\ UNCHANGED <<at, spare, trying, timer, service, stopped, keys, kills>>

\* It does not: this port is left.
Unproven_Password ==                                               \* mutant
  /\ step = "challenge" /\ trying /\ spare
  /\ AuthenticatesBy("HASHEDPASSWORD")
  /\ UNCHANGED <<at, spare, trying, proof, timer, service, stopped, keys, kills>>
Unproven ==
  /\ step = "challenge" /\ trying
  /\ NextPort
  /\ UNCHANGED <<live, key, saved, onion, announced, stopped, keys, kills>>

\* Tor lets us in: ADD_ONION goes out, with the key if there is one.
Authenticated ==
  /\ step = "auth" /\ trying
  /\ step' = "add"
  /\ given' = IF key = None THEN given ELSE given \cup {"key"}
  /\ UNCHANGED <<at, how, spare, trying, proof, timer, service, stopped, keys, kills>>

\* onUp: a new key is saved at once, then the address is announced (rehello).
Up_SavesLater(k) ==                                                \* mutant
  /\ onion' = k /\ status' = "up" /\ announced' = announced \cup {k}
  /\ \/ saved' = k
     \/ saved' = saved
Up(k) ==
  /\ saved' = k
  /\ onion' = k /\ status' = "up" /\ announced' = announced \cup {k}

\* The service is up.
Added ==
  LET k == IF key = None THEN keys + 1 ELSE key IN
  /\ step = "add" /\ trying
  /\ step' = "idle" /\ how' = None /\ spare' = FALSE /\ trying' = FALSE /\ proof' = "none" /\ given' = {}
  /\ keys' = IF key = None THEN k ELSE keys
  /\ key' = k /\ live' = TRUE
  /\ Up(k)
  /\ UNCHANGED <<at, timer, stopped, kills>>

-----------------------------------------------------------------------------

\* The connection that holds the service is lost (Tor stopped).
Lost ==
  /\ live
  /\ live' = FALSE
  /\ Down
  /\ UNCHANGED <<attempt, key, saved, onion, announced, stopped, keys, kills>>

\* stop().  Both connections are closed; an attempt in flight ends by itself.
Stop ==
  /\ ~stopped
  /\ stopped' = TRUE /\ timer' = FALSE
  /\ live' = FALSE /\ trying' = FALSE
  /\ UNCHANGED <<step, at, how, spare, proof, given, key, saved, onion, announced, status, keys, kills>>

\* The daemon stops or is killed, and starts again; Tor drops the service
\* with the connection.
Restart ==
  /\ kills < MaxKills /\ kills' = kills + 1
  /\ Boots
  /\ UNCHANGED <<saved, keys, announced>>

Over == stopped /\ step = "idle" /\ kills = MaxKills /\ UNCHANGED vars

Next ==
  \/ Attempt \/ Fails \/ Connected \/ CookieRead \/ CookieUnreadable \/ Proven \/ Unproven
  \/ \E offered \in SUBSET AuthMethods : Informed(offered)
  \/ Authenticated \/ Added \/ Lost \/ Stop \/ Restart \/ Over

Spec == Init /\ [][Next]_vars

-----------------------------------------------------------------------------

\* Peers are told one address for good: a key that was announced survives
\* every restart, wherever it falls between Tor's answer and the save.
OneAddress == Cardinality(announced) <= 1

\* Until stop() there is one service, or one attempt, or one timer, and never
\* two: no attempt is lost for a failure, and none runs beside another.
OneOfThree ==
  Cardinality({x \in {"live", "attempt", "timer"} :
    \/ x = "live" /\ live
    \/ x = "attempt" /\ step # "idle"
    \/ x = "timer" /\ timer})
    = IF stopped THEN (IF step = "idle" THEN 0 ELSE 1) ELSE 1

\* "A failed SAFECOOKIE proof never falls back: an impostor must not get the
\* password" (torcontrol.js, above authenticate), nor the service's key: once
\* the other end was challenged it gets no secret before it has answered well.
NothingForImpostors == proof = "asked" => given = {}

\* The console says that the service is up while it is, and not longer.
StatusIsTrue == ~stopped => (status = "up" <=> live)

\* After stop() nothing comes up and no connection is left: what an attempt
\* was waiting for is closed when it arrives.
StopHolds == stopped => ~live /\ ~trying /\ ~timer

\* One service, attempt or timer until stop(), and none after it.
OneAttempt == OneOfThree /\ StopHolds

-----------------------------------------------------------------------------
(* Timers fire and awaits end (each has a timeout).  Tor answers again and  *)
(* again at every step, with a method that works here.                      *)

Usable == {offered \in SUBSET AuthMethods : offered # {} /\ (HasPassword \/ offered # {"HASHEDPASSWORD"})}
InformedUsably == \E offered \in Usable : Informed(offered)
Answers ==
  /\ WF_vars(Attempt \/ Fails)
  /\ SF_vars(Connected) /\ SF_vars(InformedUsably) /\ SF_vars(CookieRead)
  /\ SF_vars(Proven) /\ SF_vars(Authenticated) /\ SF_vars(Added)

\* The service comes back whenever it was lost.
ComesBack == Answers => []<>(live \/ stopped)
=============================================================================
