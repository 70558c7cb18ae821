------------------------------- MODULE Backup -------------------------------
(***************************************************************************)
(* Identity backups (backup.js) and how they are restored (cli.js): what a  *)
(* backup holds, what the merge keeps, and a restore that reads the state,   *)
(* asks, stops the daemon and replaces two files, beside a daemon that goes  *)
(* on receiving.  The encryption is left out: a file is opened with the      *)
(* right passphrase or not at all.  A contact's record is the messages in it *)
(* and where it came from; the maps are functions over what they hold.       *)
(***************************************************************************)
EXTENDS Integers, FiniteSets

CONSTANTS
  Hosts,            \* names of contacts
  Strangers,        \* those of them who called in: no backup takes them along
  Keys,             \* identities
  Rooms, Msgs,
  MaxKills,         \* bound: restores killed
  None

VARIABLES
  running, mem,     \* the daemon and the state in its memory
  disk,             \* state.json and social.json
  backup,           \* the backup file
  job, kills,
  stored            \* history: messages the daemon stored

vars == <<running, mem, disk, backup, job, kills, stored>>

\* contacts: [msgs, by] of each name there is; by: who put it there.
Records == [msgs : SUBSET Msgs, by : {"own", "backup"}]
Contacts == UNION {[H -> Records] : H \in SUBSET Hosts}
State == [key : Keys \cup {None}, contacts : Contacts, follows : SUBSET Hosts, rooms : SUBSET Rooms]
Payload == [key : Keys, hosts : SUBSET Hosts, follows : SUBSET Hosts, rooms : SUBSET Rooms]
NoJob == [at |-> "none", st |-> None]

TypeOK ==
  /\ running \in BOOLEAN /\ kills \in 0..MaxKills /\ stored \subseteq Msgs
  /\ mem \in State /\ disk \in State
  /\ backup = None \/ backup \in Payload
  /\ job.at \in {"none", "asks", "writes", "social", "starts"}
  /\ job.st = None \/ job.st \in State

Fresh(k) == [key |-> k, contacts |-> <<>>, follows |-> {}, rooms |-> {}]
\* A backup of another machine, and this one's first start.
Init ==
  /\ \E k \in Keys : mem = Fresh(k) /\ disk = Fresh(k)
  /\ running = TRUE /\ kills = 0 /\ stored = {} /\ job = NoJob
  /\ backup \in [key : Keys, hosts : SUBSET (Hosts \ Strangers), follows : SUBSET Hosts, rooms : SUBSET Rooms]

-----------------------------------------------------------------------------
(* The daemon.  Every change is on disk a moment later, and at the latest   *)
(* when it stops.                                                           *)

Keeps(st) == mem' = st /\ disk' = st
Adds(h) ==
  /\ running /\ h \notin DOMAIN mem.contacts
  /\ Keeps([mem EXCEPT !.contacts = [x \in DOMAIN @ \cup {h} |->
              IF x = h THEN [msgs |-> {}, by |-> "own"] ELSE @[x]]])
  /\ UNCHANGED <<running, backup, job, kills, stored>>
Receives(h, m) ==
  /\ running /\ h \in DOMAIN mem.contacts /\ m \notin stored
  /\ Keeps([mem EXCEPT !.contacts[h].msgs = @ \cup {m}])
  /\ stored' = stored \cup {m}
  /\ UNCHANGED <<running, backup, job, kills>>
Joins(r) ==
  /\ running /\ r \notin mem.rooms /\ Keeps([mem EXCEPT !.rooms = @ \cup {r}])
  /\ UNCHANGED <<running, backup, job, kills, stored>>
DaemonStarts ==
  /\ ~running /\ job.at # "social" /\ running' = TRUE /\ mem' = disk
  /\ UNCHANGED <<disk, backup, job, kills, stored>>

-----------------------------------------------------------------------------
(* The backup.                                                             *)

\* buildPayload: the keys and whom the operator knows, no history.
BuildPayload(st) ==
  [key |-> st.key, hosts |-> DOMAIN st.contacts \ Strangers, follows |-> st.follows, rooms |-> st.rooms]
Export ==
  /\ job = NoJob /\ backup' = BuildPayload(IF running THEN mem ELSE disk)
  /\ UNCHANGED <<running, mem, disk, job, kills, stored>>

\* mergePayload: the keys are replaced, the rest is added to what is there.
Merge_Replacing(st, p) ==                                             \* mutant
  [key |-> p.key, follows |-> st.follows \cup p.follows, rooms |-> st.rooms \cup p.rooms,
   contacts |-> [h \in DOMAIN st.contacts \cup p.hosts |->
      IF h \in p.hosts THEN [msgs |-> {}, by |-> "backup"] ELSE st.contacts[h]]]
Merge(st, p) ==
  [key |-> p.key, follows |-> st.follows \cup p.follows, rooms |-> st.rooms \cup p.rooms,
   contacts |-> [h \in DOMAIN st.contacts \cup p.hosts |->
      IF h \in DOMAIN st.contacts THEN st.contacts[h] ELSE [msgs |-> {}, by |-> "backup"]]]

-----------------------------------------------------------------------------
(* cmdRestore.                                                             *)

\* Both files are read, and the operator is asked.  A social.json that cannot be
\* read counts as none.
Reads ==
  /\ job = NoJob /\ backup # None
  /\ \E rooms \in {disk.rooms, {}} : job' = [at |-> "asks", st |-> [disk EXCEPT !.rooms = rooms]]
  /\ UNCHANGED <<running, mem, disk, backup, kills, stored>>
Declines ==
  /\ job.at = "asks" /\ job' = NoJob
  /\ UNCHANGED <<running, mem, disk, backup, kills, stored>>
\* The daemon is stopped.
Stops ==
  /\ job.at = "asks" /\ running' = FALSE /\ job' = [job EXCEPT !.at = "writes"]
  /\ UNCHANGED <<mem, disk, backup, kills, stored>>
\* One that was started again is seen by its health page.
StillRuns ==
  /\ job.at = "writes" /\ running /\ job' = NoJob
  /\ UNCHANGED <<running, mem, disk, backup, kills, stored>>
\* state.json (a copy of the one before stays beside it), then at once social.json.
WritesState ==
  /\ job.at = "writes" /\ ~running
  /\ disk' = [Merge(job.st, backup) EXCEPT !.rooms = disk.rooms]
  /\ job' = [job EXCEPT !.at = "social"]
  /\ UNCHANGED <<running, mem, backup, kills, stored>>
WritesSocial ==
  /\ job.at = "social"
  /\ disk' = [disk EXCEPT !.rooms = Merge(job.st, backup).rooms]
  /\ job' = NoJob
  /\ UNCHANGED <<running, mem, backup, kills, stored>>
Kill ==
  /\ job # NoJob /\ kills < MaxKills /\ kills' = kills + 1 /\ job' = NoJob
  /\ UNCHANGED <<running, mem, disk, backup, stored>>

Next ==
  \/ \E h \in Hosts : Adds(h) \/ \E m \in Msgs : Receives(h, m)
  \/ \E r \in Rooms : Joins(r)
  \/ DaemonStarts \/ Export
  \/ Reads \/ Declines \/ Stops \/ StillRuns \/ WritesState \/ WritesSocial \/ Kill

Spec == Init /\ [][Next]_vars

-----------------------------------------------------------------------------
(* Properties.                                                             *)

\* A restore that came to its end has the backup's key and everyone in it, and
\* keeps every record, follow and room it read (the rooms of a social.json it
\* could not read are replaced); restoring once more changes nothing.
Merged ==
  job.at = "social" /\ job' = NoJob /\ kills' = kills =>
    /\ disk'.key = backup.key
    /\ backup.hosts \subseteq DOMAIN disk'.contacts /\ backup.rooms \subseteq disk'.rooms
    /\ \A h \in DOMAIN job.st.contacts : disk'.contacts[h] = job.st.contacts[h]
    /\ job.st.follows \cup backup.follows \subseteq disk'.follows /\ job.st.rooms \subseteq disk'.rooms
    /\ Merge(disk', backup) = disk'
MergeKeeps == [][Merged]_vars

\* "keeps the message history that is here" (cli.js:429): what the daemon has
\* stored is still on disk after a restore.
KeepsHistory == stored \subseteq UNION {disk.contacts[h].msgs : h \in DOMAIN disk.contacts}
-----------------------------------------------------------------------------
(* What Merged rests on.                                                    *)

\* Between the two files the daemon stands still, and the first of them is as
\* the merge wants it.
HalfWritten ==
  /\ kills \in Nat /\ running \in BOOLEAN /\ job = [at |-> job.at, st |-> job.st]
  /\ job.at = "social" =>
       ~running /\ disk = [Merge(job.st, backup) EXCEPT !.rooms = disk.rooms]
=============================================================================
