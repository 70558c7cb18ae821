------------------------------- MODULE MCHost -------------------------------
(***************************************************************************)
(* A daemon and the machine it lives on: the contacts, and what is below    *)
(* and around them.  Below: who may connect, and who they are (Limits,      *)
(* Noise), and one attempt at a port mapping (Gateway).  Around: the        *)
(* Bitcoin node (Detect, Conf, Login, NodeRpc), the installation (Install,  *)
(* StateCopy, Supervisor's clock) and a restore (Backup).  They share no    *)
(* state; one run checks them, each by itself (which), so that its states   *)
(* are a sum and not a product.  Beside the contacts only one of them has   *)
(* a state in a behaviour, so they share the variables v1, v2, ...          *)
(***************************************************************************)
EXTENDS Contacts, TLC

CONSTANTS
  Confs, MaxPass, MaxNodeMoves,       \* of Login
  Files, Main, Versions,              \* of Install
  MaxKills,                           \* of both
  Callers, Answerers, MaxFrames,      \* of Noise, on lines of each their own
  SameCallers, SameAnswerers, MaxSameFrames,
  Key(_),
  KnownHosts, Called, Keys, Rooms, Msgs,   \* of Backup: Called called in
  StateFiles,                         \* of StateCopy
  Devices, Kinds,                     \* of Gateway
  Polls, MaxHeight, MaxPolls,         \* of NodeRpc
  Sources, Tor, Socks, MAX_CONNS, RL_BURST, RL_REFILL, RL_MAX_BLOCKS, TorShare, IDLE,
  LimitsEnd,                          \* of Limits
  Sups, Daemons, Commands, Races, SupKills, Backoff, MaxBackoff, StableTime, CrashLimit, Window,
  ClockEnd                            \* of Supervisor

VARIABLES which, v1, v2, v3, v4, v5, v6, v7, v8, v9, v10, v11, v12, v13
hostVars == <<which, v1, v2, v3, v4, v5, v6, v7, v8, v9, v10, v11, v12, v13>>

Alike == Permutations(Fps) \cup Permutations(Links)

-----------------------------------------------------------------------------
(* The instances.                                                          *)

\* One line of the operator's, and one edit of hers or one kill.
Cf == INSTANCE Conf WITH MaxLines <- 1, MaxSize <- 10, MaxEvents <- 1,
        conf <- v1, access <- v2, backup <- v3, edit <- v4, done <- v5, edits <- v6,
        kills <- v7, had <- v8

Lg == INSTANCE Login WITH MaxMoves <- MaxNodeMoves,
        block <- v1, nodeConf <- v2, record <- v3, cfg <- v4, daemon <- v5, job <- v6,
        made <- v7, moves <- v8, kills <- v9, last <- v10

In == INSTANCE Install WITH
        app <- v1, new <- v2, old <- v3, exe <- v4, settings <- v5, daemon <- v6, cut <- v7,
        job <- v8, kills <- v9, last <- v10

\* A host the operator added, and one that called.
Bk == INSTANCE Backup WITH Hosts <- KnownHosts, Strangers <- Called, MaxKills <- 1,
        running <- v1, mem <- v2, disk <- v3, backup <- v4, job <- v5, kills <- v6, stored <- v7

\* One file before state.json and one after it.
OldFiles == <<"social.json", "state.json", "updates">>
Sc == INSTANCE StateCopy WITH Files <- StateFiles,
        MaxSaves <- 2, MaxKills <- 2,
        deb <- v1, folder <- v2, src <- v3, dst <- v4, euid <- v5, job <- v6, oldRuns <- v7,
        new <- v8, kills <- v9, half <- v10

\* A node with each combination of a -datadir and a -conf of its own, and one
\* whose -conf belongs to a third account.
NodesOfAll ==
  [exe : {"root", "unknown"}, uid : {"btc"}, datadir : {None, "given"}, conf : {None, "own"}, foreign : {FALSE}]
  \cup {[exe |-> "root", uid |-> "btc", datadir |-> None, conf |-> "own", foreign |-> TRUE]}
Says(chain, port, connect, cport) == [chain |-> chain, port |-> port, connect |-> connect, cport |-> cport]
OptionsOfAll == {Says("main", 9, "local", 7), Says("test", 9, "local", 7), Says("main", 0, "none", 0),
                 Says("main", 0, "local", 7), Says("main", 0, "remote", 7)}
Dt == INSTANCE Detect WITH Nodes <- NodesOfAll, Options <- OptionsOfAll,
        machine <- v1, found <- v2, told <- v3

\* A router with two WAN services, and all that differ from it in one respect.
Router == [igd |-> TRUE, location |-> "own", control |-> TRUE, wan |-> {"ip", "ppp"},
           connected |-> "ppp", port |-> "free", pmp |-> "grants"]
KindsOfAll ==
  {Router, [Router EXCEPT !.port = "other", !.pmp = "refuses"],
   [Router EXCEPT !.wan = {"ip"}, !.connected = "ip"],
   [Router EXCEPT !.wan = {"ip"}, !.connected = None, !.pmp = "off"],
   [Router EXCEPT !.location = "remote"], [Router EXCEPT !.location = "local", !.control = FALSE],
   [Router EXCEPT !.igd = FALSE, !.wan = {}], [Router EXCEPT !.wan = {}]}
Gw == INSTANCE Gateway WITH MaxLost <- 1,
        kind <- v1, route <- v2, stage <- v3, heard <- v4, grace <- v5, asked <- v6, service <- v7,
        entry <- v8, errs <- v9, local <- v10, result <- v11, lost <- v12, dark <- v13

\* Two calls at once, of one caller to two peers and of two callers to one; and two
\* calls of one caller, with frames enough to swap, drop and repeat.
KeyOf(x) == IF x \in {"a1", "a2"} THEN <<"A">> ELSE <<x>>
Two == INSTANCE Noise WITH end <- v1, wire <- v2
One == INSTANCE Noise WITH
        Callers <- SameCallers, Answerers <- SameAnswerers, MaxFrames <- MaxSameFrames,
        end <- v1, wire <- v2

ASSUME RolesAssumption == Two!RolesApart /\ One!RolesApart
ASSUME ConfsAssumption == None \notin Confs /\ None \notin Nat
ASSUME StateFilesAssumption == StateFiles \in Seq(STRING) /\ Sc!State \in Sc!Names /\ None \notin Int
ASSUME DevicesAssumption ==
  Kinds \subseteq Gw!KindType /\ None \notin Devices \cup Gw!Forwards \cup Gw!Mappings
ASSUME NodesAssumption ==
  None \notin Dt!Dirs \cup {"etc", "own", "theirs"} /\ None \notin NodesOfAll
ASSUME PollsAssumption == None \notin Polls

Rp == INSTANCE NodeRpc WITH MaxMoves <- 1,
        node <- v1, files <- v2, own <- v3, diag <- v4, call <- v5, pollInFlight <- v6, rpc <- v7,
        polls <- v8, moves <- v9

\* Two buckets for two sources and Tor.
Li == INSTANCE Limits WITH EndOfTime <- LimitsEnd, now <- v1, rlBuckets <- v2, sock <- v3, peerActive <- v4, let <- v5, others <- v6

\* One supervisor: waits of one to four, and at most three ends within eight.
Su == INSTANCE Supervisor WITH EndOfTime <- ClockEnd, MaxKills <- SupKills,
        win <- v1, sup <- v2, daemon <- v3, serving <- v4, supFile <- v5, kidFile <- v6, cmd <- v7,
        now <- v8, kills <- v9, starts <- v10, met <- v11

ASSUME RatesAssumption == Li!Sensible
ASSUME CrashesAssumption == CrashLimit \in Nat \ {0} /\ Window \in Nat /\ None \notin Daemons

-----------------------------------------------------------------------------
(* The sum.                                                                *)

No13 == v13 = None
No12 == v12 = None /\ No13
No11 == v11 = None /\ No12
No10 == v10 = None /\ No11
No9  == v9 = None /\ No10
No8  == v8 = None /\ No9
No7  == v7 = None /\ No8
No6  == v6 = None /\ No7
No5  == v5 = None /\ No6
No4  == v4 = None /\ No5
No3  == v3 = None /\ No4
No1  == v1 = None /\ v2 = None /\ No3

\* The same variables, as a step leaves them.
from13 == <<v13>>
from12 == <<v12, from13>>
from11 == <<v11, from12>>
from10 == <<v10, from11>>
from9  == <<v9, from10>>
from8  == <<v8, from9>>
from7  == <<v7, from8>>
from6  == <<v6, from7>>
from5  == <<v5, from6>>
from4  == <<v4, from5>>
from3  == <<v3, from4>>

HostInit ==
  /\ Init
  /\ \/ which = "contacts" /\ No1
     \/ which = "conf" /\ Cf!Init /\ No9
     \/ which = "login" /\ Lg!Init /\ No11
     \/ which = "install" /\ In!Init /\ No11
     \/ which = "backup" /\ Bk!Init /\ No8
     \/ which = "copy" /\ Sc!Init /\ No11
     \/ which = "detect" /\ Dt!Init /\ No4
     \/ which = "gateway" /\ Gw!Init
     \/ which = "two" /\ Two!Init /\ No3
     \/ which = "one" /\ One!Init /\ No3
     \/ which = "rpc" /\ Rp!Init /\ No10
     \/ which = "limits" /\ Li!Init /\ No7
     \/ which = "clock" /\ Su!Init /\ No12

HostNext ==
  \/ which = "contacts" /\ Next /\ UNCHANGED hostVars
  \/ /\ UNCHANGED <<which, vars>>
     /\ \/ which = "conf" /\ Cf!Next /\ UNCHANGED from9
        \/ which = "login" /\ Lg!Next /\ UNCHANGED from11
        \/ which = "install" /\ In!Next /\ UNCHANGED from11
        \/ which = "backup" /\ Bk!Next /\ UNCHANGED from8
        \/ which = "copy" /\ Sc!Next /\ UNCHANGED from11
        \/ which = "detect" /\ Dt!Next /\ UNCHANGED from4
        \/ which = "gateway" /\ Gw!Next
        \/ which = "two" /\ Two!Next /\ UNCHANGED from3
        \/ which = "one" /\ One!Next /\ UNCHANGED from3
        \/ which = "rpc" /\ Rp!Next /\ UNCHANGED from10
        \/ which = "limits" /\ Li!Next /\ UNCHANGED from7
        \/ which = "clock" /\ Su!Next /\ UNCHANGED from12

HostSpec == HostInit /\ [][HostNext]_<<vars, hostVars>>

-----------------------------------------------------------------------------
(* The properties, stated in the modules.                                  *)

\* The variables of all keep their types, and what holds between the steps of a
\* command, a job or a poll does: the invariants the proofs use.
HostTypeOK ==
  /\ TypeOK
  /\ CASE which = "conf" -> Cf!TypeOK [] which = "login" -> Lg!TypeOK /\ Lg!LoginInv
       [] which = "install" -> In!TypeOK /\ In!InstallInv [] which = "backup" -> Bk!TypeOK /\ Bk!HalfWritten
       [] which = "copy" -> Sc!TypeOK /\ Sc!CopyInv [] which = "detect" -> Dt!TypeOK
       [] which = "gateway" -> Gw!TypeOK /\ Gw!ForwardInv [] which = "two" -> Two!TypeOK
       [] which = "one" -> One!TypeOK [] which = "rpc" -> Rp!TypeOK /\ Rp!NewsInv
       [] which = "limits" -> Li!LimitsInv [] which = "clock" -> Su!TypeOK /\ Su!CrashesInv
       [] OTHER -> No1

\* An edit of bitcoin.conf does what it was asked and nothing else (setup-core.js).
EditsKeep == which = "conf" => Cf!EditsKeep

\* Hash, password and record agree after every command, and a purge leaves none.
LoginInOrder == which = "login" => Lg!LoginInOrder

\* No daemon runs files of two versions, and a job leaves one version or nothing.
NeverMixed == which = "install" => In!NeverMixed

\* A restore adds what is in the backup and drops nothing it found.
MergeKeeps == [][which = "backup" => Bk!Merged]_<<vars, hostVars>>

\* An older install's identity is carried over, without root's rights.
Carried == which = "copy" => Sc!Carried

\* The bitcoin.conf that is edited is the one the node reads.
FindsTheNode == which = "detect" => Dt!FindsTheNode

\* One attempt at a port mapping ends with one forward, or none.
OneForward == which = "gateway" => Gw!OneForward

\* A session is with the peer whose key it names, and nobody reads, changes,
\* swaps or repeats what it carries.
SessionIsTheirs == (which = "two" => Two!SessionIsTheirs) /\ (which = "one" => One!SessionIsTheirs)

\* What is said about the Bitcoin node never goes back to an older answer.
NoOlderNews == [][which = "rpc" => Rp!NewerNews]_<<vars, hostVars>>

\* A source gets its burst and one connection per refill, whoever else comes.
LimitsHold == which = "limits" => Li!LimitsHold

\* The supervisor gives up on a daemon that keeps ending.
NeverSpins == which = "clock" => Su!NeverSpins
=============================================================================
