------------------------------ MODULE Supervisor -----------------------------
(***************************************************************************)
(* The processes of an installed NodeSignal (packaging/windows/sea-main.js):*)
(* `run`, the supervisor, which starts the daemon again when it ends, later *)
(* each time, and gives up when it ends too often; the daemon's guard       *)
(* against running on without a supervisor; and the commands that stop or   *)
(* restart both, which know them by two pid files.  Any process may end at  *)
(* any moment.  The clock only moves while no timer is due.                 *)
(***************************************************************************)
EXTENDS Integers, Sequences, FiniteSetsExt

CONSTANTS
  Sups, Daemons,    \* process numbers of supervisors (each used once) and of daemons
  Commands,         \* stopRunning calls
  Races,            \* starts and commands may overlap
  Backoff, MaxBackoff, StableTime,  \* the first and longest wait, and when it is the first again
  CrashLimit, Window,               \* gives up at so many ends within so long
  EndOfTime,        \* bound: the clock
  MaxKills,         \* bound: supervisors ended from outside, stops that take too long
  None

VARIABLES
  win,              \* Windows: a kill is forced, and takes the children along
  sup,              \* the supervisors
  daemon,           \* the daemons: whose child each is, and where it is
  serving,          \* the daemon that has the ports
  supFile, kidFile, \* nodesignal.pid, nodesignal-daemon.pid
  cmd,              \* the commands
  now, kills,
  starts,           \* history: when each supervisor started its last CrashLimit + 1 daemons
  met               \* history: what started while a command ran

vars == <<win, sup, daemon, serving, supFile, kidFile, cmd, now, kills, starts, met>>

Nobody == [at |-> "none", child |-> None, startedAt |-> 0, streak |-> 0,
           crashes |-> <<>>, due |-> None]
NoDaemon == [at |-> "none", of |-> None]
Idle == [at |-> "idle", sup |-> None, kid |-> None, again |-> FALSE]

TypeOK ==
  /\ win \in BOOLEAN
  /\ sup \in [Sups -> [at : {"none", "begun", "up", "stopping", "gone", "gaveup"},
                       child : Daemons \cup {None}, startedAt : 0..EndOfTime,
                       streak : Nat, crashes : Seq(0..EndOfTime), due : Nat \cup {None}]]
  /\ daemon \in [Daemons -> [at : {"none", "up", "leaving"}, of : Sups \cup {None}]]
  /\ serving \in Daemons \cup {None}
  /\ supFile \in Sups \cup {None} /\ kidFile \in Daemons \cup {None}
  /\ cmd \in [Commands -> [at : {"idle", "sup", "wait", "kid", "kidwait", "files", "start", "done"},
                           sup : Sups \cup {None}, kid : Daemons \cup {None}, again : BOOLEAN]]
  /\ now \in 0..EndOfTime /\ kills \in 0..MaxKills
  /\ starts \in [Sups -> Seq(0..EndOfTime)] /\ met \in BOOLEAN

Init ==
  /\ win \in BOOLEAN
  /\ sup = [s \in Sups |-> Nobody] /\ daemon = [d \in Daemons |-> NoDaemon]
  /\ serving = None /\ supFile = None /\ kidFile = None
  /\ cmd = [c \in Commands |-> Idle]
  /\ now = 0 /\ kills = 0
  /\ starts = [s \in Sups |-> <<>>] /\ met = FALSE

Alive(s) == sup[s].at \in {"begun", "up", "stopping"}
Runs(d)  == daemon[d].at # "none"
\* isOurs
OurSup(s) == s # None /\ Alive(s)
OurKid(d) == d # None /\ Runs(d)
\* Daemons without those in D, and the ports without them.
GoneFrom(table, D) == [d \in Daemons |-> IF d \in D THEN NoDaemon ELSE table[d]]
Freed(D) == IF serving \in D THEN None ELSE serving
\* A number no process has, and no file or command speaks of.
Unused == {d \in Daemons : ~Runs(d) /\ kidFile # d /\ (\A c \in Commands : cmd[c].kid # d)
                           /\ \A s \in Sups : sup[s].child # d}
Busy == (\E s \in Sups : sup[s].at = "begun") \/ \E c \in Commands : cmd[c].at \notin {"idle", "done"}

-----------------------------------------------------------------------------
(* The supervisor.                                                         *)

\* Started by the sign-in launcher, a shortcut or `start`: is one running?
Looks(table, s) == [table EXCEPT ![s].at = IF OurSup(supFile) THEN "gone" ELSE "begun"]
Run(s) ==
  /\ sup[s].at = "none" /\ (Busy => Races)
  /\ sup' = Looks(sup, s) /\ met' = TRUE
  /\ UNCHANGED <<win, daemon, serving, supFile, kidFile, cmd, now, kills, starts>>

LastOf(times) == IF Len(times) > CrashLimit + 1 THEN Tail(times) ELSE times
\* start(): the new child, and its number on disk.
Starting(s, d, table) ==
  /\ sup' = [table EXCEPT ![s].at = "up", ![s].child = d, ![s].startedAt = now, ![s].due = None]
  /\ daemon' = [daemon EXCEPT ![d] = [at |-> "up", of |-> s]]
  /\ kidFile' = d
  /\ starts' = [starts EXCEPT ![s] = LastOf(Append(@, now))]

\* The supervisor's own number on disk, and the first daemon.
Claims(s) ==
  /\ sup[s].at = "begun" /\ supFile' = s
  /\ \E d \in Unused : Starting(s, d, sup)
  /\ UNCHANGED <<win, serving, cmd, now, kills, met>>

TimerStarts(s) ==
  /\ sup[s].at = "up" /\ sup[s].due # None /\ sup[s].due <= now
  /\ \E d \in Unused : Starting(s, d, sup)
  /\ UNCHANGED <<win, serving, supFile, cmd, now, kills, met>>

\* cleanup and exit: its own pid file, and the daemon's whatever it says.
Cleanup(s, how) ==
  /\ sup' = [sup EXCEPT ![s] = [Nobody EXCEPT !.at = how]]
  /\ supFile' = IF supFile = s THEN None ELSE supFile
  /\ kidFile' = None

Smaller(a, b) == IF a <= b THEN a ELSE b
Delay(streak) == Smaller(Backoff * 2 ^ (streak - 1), MaxBackoff)
\* Those at the front that are too long ago are dropped.
Recent(times) ==
  LET fresh == {i \in DOMAIN times : now - times[i] < Window}
  IN  IF fresh = {} THEN <<>> ELSE SubSeq(times, Min(fresh), Len(times))
TooMany_Late(times) == Len(times) > CrashLimit                      \* mutant
TooMany(times) == Len(times) >= CrashLimit

\* exited(): an end nobody asked for counts as a crash.
Crashed(s) ==
  LET streak == 1 + IF now - sup[s].startedAt >= StableTime THEN 0 ELSE sup[s].streak
      times  == Recent(Append(sup[s].crashes, now))
  IN IF TooMany(times) THEN Cleanup(s, "gaveup")
     ELSE /\ sup' = [sup EXCEPT ![s].child = None, ![s].streak = streak, ![s].crashes = times,
                                ![s].due = now + Delay(streak)]
          /\ kidFile' = IF kidFile = sup[s].child THEN None ELSE kidFile
          /\ UNCHANGED supFile
Exited(s) ==
  /\ sup[s].at \in {"up", "stopping"} /\ sup[s].child # None /\ ~Runs(sup[s].child)
  /\ IF sup[s].at = "stopping" THEN Cleanup(s, "gone") ELSE Crashed(s)
  /\ UNCHANGED <<win, daemon, serving, cmd, now, kills, starts, met>>

\* requestStop: no more timer; the daemon is asked to leave (SIGTERM, or the
\* end of its stdin).
Asked(table, s) == [table EXCEPT ![s].at = "stopping", ![s].due = None]
RequestStop(s) ==
  IF sup[s].at # "up" THEN UNCHANGED <<sup, daemon, supFile, kidFile>>
  ELSE IF sup[s].child = None THEN Cleanup(s, "gone") /\ UNCHANGED daemon
  ELSE /\ sup' = Asked(sup, s)
       /\ daemon' = IF Runs(sup[s].child) THEN [daemon EXCEPT ![sup[s].child].at = "leaving"]
                    ELSE daemon
       /\ UNCHANGED <<supFile, kidFile>>
\* A signal: the session ends, Ctrl+C.
Signal(s) ==
  /\ sup[s].at = "up" /\ RequestStop(s)
  /\ UNCHANGED <<win, serving, cmd, now, kills, starts, met>>

\* A daemon that does not leave within ten seconds is ended.
GraceOver(s) ==
  /\ sup[s].at = "stopping" /\ Runs(sup[s].child)
  /\ daemon' = GoneFrom(daemon, {sup[s].child}) /\ serving' = Freed({sup[s].child})
  /\ UNCHANGED <<win, sup, supFile, kidFile, cmd, now, kills, starts, met>>

\* Ended from outside: nothing is cleaned up.
Dies(s) == sup' = [sup EXCEPT ![s] = [Nobody EXCEPT !.at = "gone"]]
SupKilled(s) ==
  /\ Alive(s) /\ kills < MaxKills /\ kills' = kills + 1
  /\ Dies(s)
  /\ UNCHANGED <<win, daemon, serving, supFile, kidFile, cmd, now, starts, met>>

-----------------------------------------------------------------------------
(* The daemon.                                                             *)

Serves(d) ==
  /\ daemon[d].at = "up" /\ serving = None /\ serving' = d
  /\ UNCHANGED <<win, sup, daemon, supFile, kidFile, cmd, now, kills, starts, met>>

\* It crashes at any time, or finds its ports taken, or has been asked to leave.
DaemonEnds(d) ==
  /\ Runs(d)
  /\ daemon' = GoneFrom(daemon, {d}) /\ serving' = Freed({d})
  /\ UNCHANGED <<win, sup, supFile, kidFile, cmd, now, kills, starts, met>>

\* The orphan guard: stdin closes when the supervisor is gone.
Guards_Not(d) == daemon[d].at = "up" /\ daemon[d].of = None          \* mutant
Guards(d) == daemon[d].at = "up" /\ ~Alive(daemon[d].of)
OrphanLeaves(d) ==
  /\ Guards(d) /\ daemon' = [daemon EXCEPT ![d].at = "leaving"]
  /\ UNCHANGED <<win, sup, serving, supFile, kidFile, cmd, now, kills, starts, met>>

-----------------------------------------------------------------------------
(* stopRunning(), for `stop`, `restart`, the installer and `uninstall`.     *)

\* The two numbers are read once.
Begin(c) ==
  /\ cmd[c].at = "idle" /\ (Busy => Races)
  /\ \E again \in BOOLEAN :
        cmd' = [cmd EXCEPT ![c] = [at |-> "sup", sup |-> supFile, kid |-> kidFile, again |-> again]]
  /\ met' = FALSE
  /\ UNCHANGED <<win, sup, daemon, serving, supFile, kidFile, now, kills, starts>>

To(c, at) == cmd' = [cmd EXCEPT ![c].at = at]

\* The supervisor, if the number is one: with its child, or politely.
EndsSup(c) ==
  LET s == cmd[c].sup
      children == {k \in Daemons : Runs(k) /\ daemon[k].of = s}
  IN /\ cmd[c].at = "sup"
     /\ IF ~OurSup(s)
        THEN To(c, "kid") /\ UNCHANGED <<sup, daemon, serving, supFile, kidFile>>
        ELSE /\ To(c, "wait")
             /\ IF win THEN /\ Dies(s) /\ UNCHANGED <<supFile, kidFile>>
                            /\ daemon' = GoneFrom(daemon, children) /\ serving' = Freed(children)
                ELSE RequestStop(s) /\ UNCHANGED serving
     /\ UNCHANGED <<win, now, kills, starts, met>>

\* waitGone, and SIGKILL for one that takes longer than fifteen seconds.
SupGone(c) ==
  /\ cmd[c].at = "wait" /\ ~Alive(cmd[c].sup) /\ To(c, "kid")
  /\ UNCHANGED <<win, sup, daemon, serving, supFile, kidFile, now, kills, starts, met>>
SupTooSlow(c) ==
  /\ cmd[c].at = "wait" /\ Alive(cmd[c].sup) /\ kills < MaxKills /\ kills' = kills + 1
  /\ Dies(cmd[c].sup)
  /\ UNCHANGED <<win, daemon, serving, supFile, kidFile, cmd, now, starts, met>>

\* A daemon left behind, by the number read at the start.
EndsKid(c) ==
  LET d == cmd[c].kid
  IN /\ cmd[c].at = "kid" /\ To(c, "kidwait")
     /\ daemon' = IF OurKid(d) THEN [daemon EXCEPT ![d].at = "leaving"] ELSE daemon
     /\ UNCHANGED <<win, sup, serving, supFile, kidFile, now, kills, starts, met>>
\* It is gone, or ended after five seconds.
KidGone(c) ==
  /\ cmd[c].at = "kidwait" /\ To(c, "files")
  /\ daemon' = GoneFrom(daemon, {cmd[c].kid}) /\ serving' = Freed({cmd[c].kid})
  /\ UNCHANGED <<win, sup, supFile, kidFile, now, kills, starts, met>>

\* Both files go, whoever wrote them; restart starts anew.
Removes(c) ==
  /\ cmd[c].at = "files" /\ supFile' = None /\ kidFile' = None
  /\ To(c, IF cmd[c].again THEN "start" ELSE "done")
  /\ UNCHANGED <<win, sup, daemon, serving, now, kills, starts, met>>
Restarts(c) ==
  /\ cmd[c].at = "start" /\ To(c, "done")
  /\ \E s \in Sups : sup[s].at = "none" /\ sup' = Looks(sup, s)
  /\ UNCHANGED <<win, daemon, serving, supFile, kidFile, now, kills, starts, met>>

-----------------------------------------------------------------------------
Due(s) == sup[s].at = "up" /\ sup[s].due # None /\ sup[s].due <= now
Tick ==
  /\ now < EndOfTime /\ (\A s \in Sups : ~Due(s)) /\ now' = now + 1
  /\ UNCHANGED <<win, sup, daemon, serving, supFile, kidFile, cmd, kills, starts, met>>

SupSteps(s) == Claims(s) \/ TimerStarts(s) \/ Exited(s) \/ GraceOver(s)
CmdSteps(c) == EndsSup(c) \/ SupGone(c) \/ EndsKid(c) \/ KidGone(c) \/ Removes(c) \/ Restarts(c)
Next ==
  \/ \E s \in Sups : Run(s) \/ Signal(s) \/ SupKilled(s) \/ SupSteps(s)
  \/ \E d \in Daemons : Serves(d) \/ DaemonEnds(d) \/ OrphanLeaves(d)
  \/ \E c \in Commands : Begin(c) \/ SupTooSlow(c) \/ CmdSteps(c)
  \/ Tick

\* A process that can run does; a daemon that leaves is gone in the end (it ends
\* itself after five seconds).
Fairness ==
  /\ \A s \in Sups : WF_vars(SupSteps(s))
  /\ \A d \in Daemons :
       WF_vars(OrphanLeaves(d) \/ Serves(d) \/ (daemon[d].at = "leaving" /\ DaemonEnds(d)))
  /\ \A c \in Commands : WF_vars(CmdSteps(c))
Spec == Init /\ [][Next]_vars /\ Fairness

-----------------------------------------------------------------------------
(* Properties.                                                             *)

\* A supervisor starts no more than CrashLimit daemons within any Window,
\* however they end (the give-up rule, at any back-off).
NeverSpins ==
  \A s \in Sups : LET times == starts[s] IN
    Len(times) = CrashLimit + 1 => times[Len(times)] - times[1] >= Window

\* When stopRunning is done no supervisor runs, and what daemon is left leaves by
\* itself: whatever died meanwhile, and unless NodeSignal was started meanwhile.
StopLeavesNone ==
  [][\A c \in Commands :
       cmd[c].at = "files" /\ cmd'[c].at # "files" /\ ~met =>
         /\ \A s \in Sups : ~Alive(s)
         /\ \A d \in Daemons : Runs(d) => daemon[d].at = "leaving" \/ Guards(d)]_vars

\* A running supervisor brings a daemon up again and again until it is stopped
\* or gives up; and no daemon runs on without its supervisor.
KeepsUp ==
  /\ \A s \in Sups : []<>(sup[s].at = "up" =>
                           sup[s].child # None /\ daemon[sup[s].child].at = "up")
  /\ \A d \in Daemons : []<>(Runs(d) => Alive(daemon[d].of))

-----------------------------------------------------------------------------
(* The invariant NeverSpins rests on.                                       *)

\* How many of the daemons in starts have ended: the last may still run.
Ended(s) == Len(starts[s]) - (IF sup[s].child = None THEN 0 ELSE 1)

\* Every one of those has its end among the crashes, at or after its start and in
\* the same order, unless that was dropped: then it started Window ago or before.
Counted(s, j) ==
  LET i == Len(sup[s].crashes) - Ended(s) + j
  IN  \/ i \in DOMAIN sup[s].crashes /\ starts[s][j] <= sup[s].crashes[i]
      \/ now - starts[s][j] >= Window

CrashesOf(s) ==
  /\ DOMAIN sup[s] = DOMAIN Nobody
  /\ starts[s] \in Seq(Nat) /\ Len(starts[s]) <= CrashLimit + 1
  /\ \A j \in DOMAIN starts[s] : starts[s][j] <= now
  /\ sup[s].at \in {"none", "begun"} =>
       starts[s] = <<>> /\ sup[s].child = None /\ sup[s].crashes = <<>>
  /\ sup[s].at \in {"up", "stopping"} =>
       /\ sup[s].crashes \in Seq(Nat) /\ Len(sup[s].crashes) < CrashLimit
       /\ sup[s].due # None => sup[s].child = None
       /\ sup[s].child # None => starts[s] # <<>>
       /\ \A j \in 1..Ended(s) : Counted(s, j)

CrashesInv ==
  /\ now \in Nat /\ DOMAIN sup = Sups /\ DOMAIN starts = Sups
  /\ \A s \in Sups : CrashesOf(s)
  /\ NeverSpins
=============================================================================
