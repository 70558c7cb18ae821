----------------------------- MODULE StateCopy -----------------------------
(***************************************************************************)
(* Setup carries an older install's state folder over, once (cli.js         *)
(* migrateState, setup-core.js copyStateTree): root reads it as its owner   *)
(* and writes the new one as the service account, never as root in a folder  *)
(* another account can change.  Everything is read first; what is there      *)
(* already stays; a file is made empty and then filled.  Setup may be killed *)
(* at any step and run again, and with the .deb the old daemon runs on       *)
(* meanwhile.  A file's content is the number of the old daemon's save.      *)
(***************************************************************************)
EXTENDS Integers, Sequences

CONSTANTS
  Files,            \* the names in the order they are read (sorted)
  MaxSaves,         \* bound: saves of the old daemon
  MaxKills,         \* bound: setups killed
  None

VARIABLES
  deb,              \* the .deb's postinst, not install-node.sh
  folder,           \* the old folder: its owner, and what could be wrong with it
  src, dst,         \* the files in the old and the new folder
  euid,             \* whose rights setup uses
  job,
  oldRuns, new,     \* the old daemon; the new one
  kills,
  half              \* history: a setup was killed while it filled a file

vars == <<deb, folder, src, dst, euid, job, oldRuns, new, kills, half>>

Names == {Files[i] : i \in 1..Len(Files)}
State == "state.json"
Link == -1    \* a link, a FIFO: not read
Empty == 0    \* made, not yet filled
Own == -2     \* the new daemon's own first save

NoJob == [at |-> "none", i |-> 0, items |-> <<>>, refused |-> FALSE]
NotYet == [runs |-> FALSE, state |-> None, said |-> FALSE]

TypeOK ==
  /\ deb \in BOOLEAN /\ oldRuns \in BOOLEAN /\ half \in BOOLEAN /\ kills \in 0..MaxKills
  /\ folder \in [owner : {"root", "old"}, safe : BOOLEAN, real : BOOLEAN, fits : BOOLEAN]
  /\ src \in [Names -> (Link..MaxSaves) \cup {None}] /\ dst \in [Names -> (Own..MaxSaves) \cup {None}]
  /\ euid \in {"root", "old", "new"}
  /\ job.at \in {"none", "look", "read", "write", "fill", "start"} /\ job.i \in 0..Len(Files) + 1
  /\ new \in [runs : BOOLEAN, state : (Own..MaxSaves) \cup {None}, said : BOOLEAN]

Init ==
  /\ deb \in BOOLEAN
  /\ folder \in [owner : {"root", "old"}, safe : BOOLEAN, real : BOOLEAN, fits : BOOLEAN]
  /\ src \in {s \in [Names -> {Link, 1, None}] : s[State] # None}
  /\ dst = [f \in Names |-> None] /\ euid = "root"
  /\ job = NoJob /\ oldRuns = TRUE /\ new = NotYet /\ kills = 0 /\ half = FALSE

To(at) == job' = [job EXCEPT !.at = at]
Same == UNCHANGED <<deb, folder>>

-----------------------------------------------------------------------------
OldSaves ==
  /\ oldRuns /\ src[State] \in 1..MaxSaves - 1
  /\ src' = [f \in Names |-> IF src[f] \in 1..MaxSaves THEN src[State] + 1 ELSE src[f]]
  /\ Same /\ UNCHANGED <<dst, euid, job, oldRuns, new, kills, half>>

\* install-node.sh stops the service first; the .deb restarts it at the end.
Begin ==
  /\ job = NoJob /\ ~new.runs /\ job' = [NoJob EXCEPT !.at = "look"]
  /\ oldRuns' = (deb /\ oldRuns)
  /\ Same /\ UNCHANGED <<src, dst, euid, new, kills, half>>

\* A state.json that is there already is left alone; a folder that is a link,
\* or root's but not root's alone, is refused.
HasOne_Any == \E f \in Names : dst[f] # None                          \* mutant
HasOne == dst[State] # None
UnsafeFolder == ~folder.safe
Refused == ~folder.real \/ (folder.owner = "root" /\ UnsafeFolder)
\* asOwner: until the work is done or has failed; then root again.
AsOwner(who) == euid' = who
Looks ==
  /\ job.at = "look"
  /\ IF HasOne THEN To("start") /\ UNCHANGED euid
     ELSE IF Refused THEN job' = [job EXCEPT !.at = "start", !.refused = TRUE] /\ UNCHANGED euid
     ELSE To("read") /\ AsOwner(folder.owner)
  /\ Same /\ UNCHANGED <<src, dst, oldRuns, new, kills, half>>

\* Everything is read, plain files only; too much, or no state.json, and it ends
\* with nothing written.
Reads ==
  /\ job.at = "read"
  /\ IF folder.fits /\ src[State] # Link
     THEN /\ job' = [job EXCEPT !.at = "write", !.i = 1, !.items = src] /\ AsOwner("new")
     ELSE /\ job' = [job EXCEPT !.at = "start", !.refused = TRUE] /\ AsOwner("root")
  /\ Same /\ UNCHANGED <<src, dst, oldRuns, new, kills, half>>

\* O_EXCL: made by us, or kept as it is.
Writes ==
  /\ job.at = "write" /\ job.i <= Len(Files)
  /\ LET f == Files[job.i] IN
     IF job.items[f] \notin {None, Link} /\ dst[f] = None
     THEN dst' = [dst EXCEPT ![f] = Empty] /\ To("fill")
     ELSE job' = [job EXCEPT !.i = @ + 1] /\ UNCHANGED dst
  /\ Same /\ UNCHANGED <<src, euid, oldRuns, new, kills, half>>
Fills ==
  /\ job.at = "fill" /\ dst' = [dst EXCEPT ![Files[job.i]] = job.items[Files[job.i]]]
  /\ job' = [job EXCEPT !.at = "write", !.i = @ + 1]
  /\ Same /\ UNCHANGED <<src, euid, oldRuns, new, kills, half>>
Written ==
  /\ job.at = "write" /\ job.i > Len(Files) /\ To("start") /\ AsOwner("root")
  /\ Same /\ UNCHANGED <<src, dst, oldRuns, new, kills, half>>

\* The service starts.  It refuses a state.json it cannot read, and only a
\* missing one means a new identity.
Starts ==
  /\ job.at = "start" /\ job' = NoJob /\ oldRuns' = FALSE
  /\ IF dst[State] = Empty THEN UNCHANGED <<dst, new>>
     ELSE /\ dst' = IF dst[State] = None THEN [dst EXCEPT ![State] = Own] ELSE dst
          /\ new' = [runs |-> TRUE, state |-> dst'[State], said |-> job.refused]
  /\ Same /\ UNCHANGED <<src, euid, kills, half>>

Kill ==
  /\ job # NoJob /\ kills < MaxKills /\ kills' = kills + 1 /\ job' = NoJob /\ euid' = "root"
  /\ half' = (half \/ job.at = "fill")
  /\ Same /\ UNCHANGED <<src, dst, oldRuns, new>>

Next == OldSaves \/ Begin \/ Looks \/ Reads \/ Writes \/ Fills \/ Written \/ Starts \/ Kill
Spec == Init /\ [][Next]_vars

-----------------------------------------------------------------------------
(* Properties.                                                             *)

\* The new daemon has the identity of the old one, or setup has said that it
\* could not be carried over; and with the old daemon stopped first it has the
\* last save and every plain file that sorts before state.json (posts, mail held
\* for others), unless a setup was killed while it filled a file.
AllCarried ==
  new.runs /\ ~new.said =>
    /\ new.state # Own
    /\ ~deb /\ ~half => /\ new.state = src[State]
                        /\ \A i \in 1..Len(Files) : dst[Files[i]] # src[Files[i]] =>
                             src[Files[i]] \notin 1..MaxSaves \/ \E j \in 1..i - 1 : Files[j] = State

\* Root's rights are never used in a folder another account can change, and
\* always come back.
NeverAsRoot ==
  /\ job.at \in {"read", "write", "fill"} => euid # "root" \/ (folder.owner = "root" /\ folder.safe)
  /\ job.at \in {"none", "look", "start"} => euid = "root"

\* The identity is carried over, by the right account.
Carried == AllCarried /\ NeverAsRoot
-----------------------------------------------------------------------------
(* What Carried rests on.                                                   *)

Content == Int \cup {None}
Whole == {s \in Content : s \notin {Own, Empty}}
JobType == [at : {"none", "look", "read", "write", "fill", "start"}, i : Nat,
            items : {<<>>} \cup [Names -> Whole], refused : BOOLEAN]
Shapes ==
  /\ deb \in BOOLEAN /\ oldRuns \in BOOLEAN /\ half \in BOOLEAN
  /\ folder \in [owner : {"root", "old"}, safe : BOOLEAN, real : BOOLEAN, fits : BOOLEAN]
  /\ src \in [Names -> Whole] /\ src[State] # None
  /\ dst \in [Names -> Content]
  /\ job \in JobType
  /\ new \in [runs : BOOLEAN, state : Content, said : BOOLEAN]

\* A new daemon that runs is the end of it; an old one that was stopped, too.
InTurn ==
  /\ new.runs => job.at = "none" /\ ~oldRuns
  /\ ~deb /\ (job.at # "none" \/ dst[State] # None) => ~oldRuns

\* How far a setup has come in the list.
ListedSoFar ==
  /\ job.at \notin {"none", "start"} => ~job.refused
  /\ job.at \in {"write", "fill"} =>
       /\ job.items \in [Names -> Whole] /\ job.items[State] \notin {None, Link}
       /\ ~deb => job.items = src
       /\ job.i >= 1
       /\ \A j \in 1..Len(Files) : j < job.i => dst[Files[j]] # None \/ job.items[Files[j]] \in {None, Link}
  /\ job.at = "fill" =>
       /\ job.i <= Len(Files) /\ dst[Files[job.i]] = Empty
       /\ job.items[Files[job.i]] \notin {None, Link}
  /\ job.at = "start" /\ ~job.refused => dst[State] # None

\* A file of the new folder is not there, or whole, or it is being filled, or
\* was when a setup was killed.
WholeOrHalf ==
  \A f \in Names :
    /\ ~new.runs => dst[f] # Own
    /\ ~deb /\ dst[f] \notin {None, Empty, Own} => dst[f] = src[f] /\ ~oldRuns
    /\ dst[f] = Empty => half \/ (job.at = "fill" /\ f = Files[job.i])

\* state.json comes last of those before it in the list.
StateLast ==
  ~deb /\ dst[State] \notin {None, Own} =>
    \A i \in 1..Len(Files) : dst[Files[i]] = None =>
      src[Files[i]] \in {None, Link} \/ \E j \in 1..i - 1 : Files[j] = State

CopyInv == Shapes /\ InTurn /\ ListedSoFar /\ WholeOrHalf /\ StateLast /\ Carried
=============================================================================
