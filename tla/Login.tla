------------------------------- MODULE Login --------------------------------
(***************************************************************************)
(* NodeSignal's own login at the Bitcoin node: a block in bitcoin.conf with *)
(* the hash of a password, the password in NodeSignal's config, and a       *)
(* record beside it of which bitcoin.conf holds the block.  The installers  *)
(* (Windows, the .deb's setup, from source), `rpc-access` and the uninstall *)
(* write the three files one after the other, and may be killed in between. *)
(* A password is a number; how the block is put into the file is in Conf.   *)
(***************************************************************************)
EXTENDS Integers

CONSTANTS
  Confs,            \* bitcoin.conf files
  MaxPass,          \* bound: passwords made
  MaxMoves,         \* bound: the node reads another bitcoin.conf
  MaxKills,         \* bound
  None

VARIABLES
  block,            \* whose hash each file holds; 0 for no block
  nodeConf,         \* the file the node reads
  record,           \* the file named beside the config
  cfg,              \* the password in the config: 0 with none, None with no config
  daemon,           \* the password the running daemon uses
  job, made, moves, kills,
  last              \* history: the job that came to its end, if nothing happened since

vars == <<block, nodeConf, record, cfg, daemon, job, made, moves, kills, last>>

Installs == {"windows", "setup", "source"}
Adds     == {"add", "rotate"}
Removes  == {"remove", "uninstall", "purge"}
NoJob == [what |-> "none", at |-> "login", conf |-> None, pass |-> 0, changed |-> FALSE,
          refused |-> FALSE]
Nothing == [what |-> "none", refused |-> FALSE]

TypeOK ==
  /\ block \in [Confs -> 0..MaxPass] /\ nodeConf \in Confs \cup {None}
  /\ record \in Confs \cup {None}
  /\ {cfg, daemon} \subseteq 0..MaxPass \cup {None}
  /\ job \in [what : {"none"} \cup Installs \cup Adds \cup Removes,
              at : {"login", "block", "record", "config", "restart", "unblock", "unrecord", "files"},
              conf : Confs \cup {None}, pass : 0..MaxPass, changed : BOOLEAN, refused : BOOLEAN]
  /\ made \in 0..MaxPass /\ moves \in 0..MaxMoves /\ kills \in 0..MaxKills
  /\ last \in [what : {"none"} \cup Installs \cup Adds \cup Removes, refused : BOOLEAN]

\* A config from before there was a login of its own has none.
Init ==
  /\ block = [c \in Confs |-> 0] /\ nodeConf \in Confs \cup {None} /\ record = None
  /\ cfg \in {None, 0} /\ daemon = None
  /\ job = NoJob /\ made = 0 /\ moves = 0 /\ kills = 0 /\ last = Nothing

-----------------------------------------------------------------------------
(* Installing, adding, changing the login.                                 *)

\* Windows and source go by the node that runs; the others by the record first.
Target_Record(what) == IF what \in {"windows", "source"} \/ (record = None /\ what \notin Removes)
                       THEN nodeConf ELSE record                     \* mutant
Target(what) == IF what \in {"windows", "source"} \/ record = None THEN nodeConf ELSE record

\* What the config holds when the command reads it; rotate forgets the password.
Known(what) == IF what = "rotate" \/ cfg = None THEN 0 ELSE cfg

Begin(what) ==
  /\ job.what = "none"
  /\ what \in Adds => cfg # None /\ Target(what) # None
  /\ what = "remove" => Target(what) # None
  /\ job' = [NoJob EXCEPT !.what = what, !.conf = Target(what), !.pass = Known(what),
                          !.at = IF what \in Removes THEN "unblock" ELSE "login"]
  /\ daemon' = IF what \in {"uninstall", "purge"} THEN None ELSE daemon
  /\ last' = Nothing
  /\ UNCHANGED <<block, nodeConf, record, cfg, made, moves, kills>>

\* ensureRpcLogin
Ensures ==
  /\ job.at = "login" /\ job.what # "none"
  /\ IF job.pass # 0 THEN job' = [job EXCEPT !.at = "block"] /\ UNCHANGED made
     ELSE /\ made < MaxPass /\ made' = made + 1
          /\ job' = [job EXCEPT !.at = "block", !.pass = made + 1, !.changed = TRUE]
  /\ UNCHANGED <<block, nodeConf, record, cfg, daemon, moves, kills, last>>

Ends == job' = NoJob /\ last' = [what |-> job.what, refused |-> job.refused]
\* The installers go on without the block, and say which lines to add by hand;
\* `rpc-access` stops.
GoesWithout ==
  IF job.what \in Installs
  THEN job' = [job EXCEPT !.at = "config", !.refused = TRUE] /\ UNCHANGED last
  ELSE job' = NoJob /\ UNCHANGED last

Blocks ==
  /\ job.at = "block" /\ job.conf # None
  /\ block' = [block EXCEPT ![job.conf] = job.pass]
  /\ job' = [job EXCEPT !.at = "record"]
  /\ UNCHANGED <<nodeConf, record, cfg, daemon, made, moves, kills, last>>
Records ==
  /\ job.at = "record" /\ record' = job.conf
  /\ job' = [job EXCEPT !.at = "config"]
  /\ UNCHANGED <<block, nodeConf, cfg, daemon, made, moves, kills, last>>
\* The file, or the record, cannot be written; or there is no file.
Refused ==
  /\ job.at \in {"block", "record"} /\ GoesWithout
  /\ UNCHANGED <<block, nodeConf, record, cfg, daemon, made, moves, kills>>

\* The config, with the login over what an older install used; on Windows
\* NodeSignal is stopped first.
Writes_New(pass) == cfg' = IF cfg = None THEN pass ELSE cfg           \* mutant
Writes(pass) == cfg' = pass
Configures ==
  /\ job.at = "config"
  /\ daemon' = IF job.what = "windows" THEN None ELSE daemon
  /\ IF job.what \in Installs \/ job.changed
     THEN Writes(job.pass) /\ job' = [job EXCEPT !.at = "restart"] /\ UNCHANGED last
     ELSE Ends /\ UNCHANGED cfg
  /\ UNCHANGED <<block, nodeConf, record, made, moves, kills>>
ConfigFails ==
  /\ job.at = "config" /\ job' = NoJob
  /\ UNCHANGED <<block, nodeConf, record, cfg, daemon, made, moves, kills, last>>

\* Started again, or the operator is told to (from source, or not root).
Restarts ==
  /\ job.at = "restart" /\ Ends
  /\ daemon' \in IF job.what \in {"windows", "setup"} THEN {cfg} ELSE {cfg, daemon}
  /\ UNCHANGED <<block, nodeConf, record, cfg, made, moves, kills>>

-----------------------------------------------------------------------------
(* Removing the login.  A plain uninstall asks.                            *)

Unblocks ==
  /\ job.at = "unblock"
  /\ \E agreed \in {TRUE, job.what # "uninstall"} :
       IF job.conf = None \/ (job.what # "remove" /\ (block[job.conf] = 0 \/ ~agreed))
       THEN job' = [job EXCEPT !.at = "files"] /\ UNCHANGED block
       ELSE block' = [block EXCEPT ![job.conf] = 0] /\ job' = [job EXCEPT !.at = "unrecord"]
  /\ UNCHANGED <<nodeConf, record, cfg, daemon, made, moves, kills, last>>
CannotUnblock ==
  /\ job.at = "unblock"
  /\ job' = IF job.what = "remove" THEN NoJob ELSE [job EXCEPT !.at = "files", !.refused = TRUE]
  /\ UNCHANGED <<block, nodeConf, record, cfg, daemon, made, moves, kills, last>>
Unrecords ==
  /\ job.at = "unrecord" /\ record' = None
  /\ IF job.what = "remove" THEN Ends ELSE job' = [job EXCEPT !.at = "files"] /\ UNCHANGED last
  /\ UNCHANGED <<block, nodeConf, cfg, daemon, made, moves, kills>>
Purges ==
  /\ job.at = "files" /\ Ends
  /\ IF job.what = "purge" THEN cfg' = None /\ record' = None ELSE UNCHANGED <<cfg, record>>
  /\ UNCHANGED <<block, nodeConf, daemon, made, moves, kills>>

-----------------------------------------------------------------------------
(* Around it.                                                              *)

Kill ==
  /\ job.what # "none" /\ kills < MaxKills /\ kills' = kills + 1 /\ job' = NoJob
  /\ UNCHANGED <<block, nodeConf, record, cfg, daemon, made, moves, last>>
\* The operator moves the node, or installs one.
NodeMoves ==
  /\ job.what = "none" /\ moves < MaxMoves /\ moves' = moves + 1
  /\ nodeConf' \in Confs \ {nodeConf} /\ last' = Nothing
  /\ UNCHANGED <<block, record, cfg, daemon, job, made, kills>>
DaemonStarts ==
  /\ cfg # None /\ daemon # cfg /\ daemon' = cfg
  /\ UNCHANGED <<block, nodeConf, record, cfg, job, made, moves, kills, last>>

Next ==
  \/ \E what \in Installs \cup Adds \cup Removes : Begin(what)
  \/ Ensures \/ Blocks \/ Records \/ Refused \/ Configures \/ ConfigFails \/ Restarts
  \/ Unblocks \/ CannotUnblock \/ Unrecords \/ Purges
  \/ Kill \/ NodeMoves \/ DaemonStarts

Spec == Init /\ [][Next]_vars

-----------------------------------------------------------------------------
(* Properties.                                                             *)

\* A command that came to its end without a refusal leaves the hash and the
\* password matching, in the file the record names: whatever was killed or
\* could not be written before it.
LoginMatches ==
  last.what \in Installs \cup Adds /\ ~last.refused =>
    record # None /\ cfg \notin {0, None} /\ block[record] = cfg

\* After a purge no bitcoin.conf holds the block, as long as the node read the
\* same file all the time: also when the installation was cut short.
PurgeLeavesNone ==
  last.what = "purge" /\ ~last.refused => moves > 0 \/ \A c \in Confs : block[c] = 0

\* The three files agree when a command is done, or there are none.
LoginInOrder == LoginMatches /\ PurgeLeavesNone

-----------------------------------------------------------------------------
(* What holds between the steps of a command, on which LoginInOrder rests.  *)

Adding == Installs \cup Adds

Shapes ==
  /\ block \in [Confs -> Nat] /\ {nodeConf, record} \subseteq Confs \cup {None}
  /\ cfg \in Nat \cup {None} /\ made \in Nat /\ moves \in Nat
  /\ job \in [what : {"none"} \cup Adding \cup Removes,
              at : {"login", "block", "record", "config", "restart", "unblock", "unrecord", "files"},
              conf : Confs \cup {None}, pass : Nat, changed : BOOLEAN, refused : BOOLEAN]
  /\ last \in [what : {"none"} \cup Adding \cup Removes, refused : BOOLEAN]

\* How far a command has come is how far its files agree.
Progress ==
  /\ job.what # "none" => last = Nothing
  /\ job.at = "login" => job.what \notin Removes /\ ~job.refused
  /\ job.at \in {"block", "record", "config", "restart"} => job.what \in Adding
  /\ job.at \in {"unblock", "unrecord", "files"} => job.what \in Removes
  /\ job.at \in {"block", "record"} => ~job.refused /\ job.pass # 0
  /\ job.at = "record" => job.conf # None /\ block[job.conf] = job.pass
  /\ job.at \in {"config", "restart"} /\ ~job.refused =>
       job.pass # 0 /\ job.conf # None /\ record = job.conf /\ block[job.conf] = job.pass
  /\ job.at = "restart" => cfg = job.pass
  /\ job.what \in Adds /\ job.pass # 0 /\ ~job.changed => cfg = job.pass

\* Only the file the node reads has a block, and each command goes by it.
OneFile ==
  moves = 0 =>
    /\ \A c \in Confs : block[c] # 0 => c = nodeConf
    /\ record \in {None, nodeConf}
    /\ job.what # "none" => job.conf = nodeConf
    /\ job.what = "purge" /\ job.at \in {"unrecord", "files"} /\ ~job.refused =>
         \A c \in Confs : block[c] = 0

LoginInv == Shapes /\ Progress /\ OneFile /\ LoginInOrder
=============================================================================
