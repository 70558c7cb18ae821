------------------------------- MODULE Detect -------------------------------
(***************************************************************************)
(* Finding the Bitcoin node (detectBitcoinNode of setup-core.js): which     *)
(* data directory, which bitcoin.conf and which RPC address setup will use, *)
(* from the processes that run and from what lies around on the disk.       *)
(* Setup edits the file found here and sends its login to the address       *)
(* found here.  The machine is chosen in Init: the node's own account is    *)
(* btc, other is another account with a node of its own or with remains of  *)
(* one, sys is /var/lib/bitcoind (where only root can make folders), given   *)
(* a folder named with -datadir.                                            *)
(***************************************************************************)
EXTENDS Lists

CONSTANTS
  Nodes,     \* the node processes that may run: none, or one of these
  Options,   \* what a bitcoin.conf may say about RPC
  None

VARIABLES
  machine,   \* processes, folders and files
  found,     \* what detectBitcoinNode returned
  told       \* what checkNode reported; "" before

vars == <<machine, found, told>>

Dirs == {"sys", "home", "other", "given"}
\* none; a log but no blocks (a chain other than main, or no chain yet); blocks and
\* a cookie; the same with a bitcoin.conf; with a bitcoin.conf that names a user
\* and no cookie.
Shapes == {"none", "bare", "noconf", "full", "nocookie"}

\* Another account's node, with a bitcoin.conf of its own.
Stranger == [exe |-> "user", uid |-> "other", datadir |-> "other", conf |-> "theirs", foreign |-> FALSE]

Machines ==
  [node : Nodes \cup {None}, stranger : BOOLEAN, win : BOOLEAN,
   dir : [Dirs -> Shapes], homes : {<<"home", "other">>, <<"other", "home">>},
   etc : {"none", "plain", "sys"}, opt : Options]

TypeOK ==
  /\ machine \in [node : Nodes \cup {None}, stranger : BOOLEAN, win : BOOLEAN, dir : [Dirs -> Shapes],
                  homes : Seq(Dirs), etc : {"none", "plain", "sys"}, opt : Options]
  /\ found = None \/ /\ found.datadir \in Dirs \cup {None}
                     /\ found.conf \in Dirs \cup {"etc", "own", "theirs", None}
  /\ told \in {"", "ok", "no-auth", "refused", "failed"}

\* The shapes that differ for a folder: only the node's own may be half there.
Init ==
  /\ machine \in {m \in Machines :
       /\ m.dir["sys"] \in {"none", "bare", "full"} /\ m.dir["other"] \in {"none", "full"}
       /\ m.dir["given"] # "none"
       /\ m.win => ~m.stranger /\ m.etc = "none" /\ m.dir["sys"] = "none"}
  /\ found = None /\ told = ""

-----------------------------------------------------------------------------
(* The processes, as far as they are believed.                              *)

\* linuxProcesses, windowsProcesses: tasklist tells no arguments and no user.
Listed(m) ==
  LET all == (IF m.stranger THEN <<Stranger>> ELSE <<>>) \o (IF m.node = None THEN <<>> ELSE <<m.node>>)
  IN  IF m.win THEN [i \in DOMAIN all |-> [all[i] EXCEPT !.uid = None, !.datadir = None, !.conf = None]]
               ELSE all

\* trustedProcesses: beside a node root installed no other program counts, and
\* a -conf of a third account is ignored.
Believed_All(m) == Listed(m)                                          \* mutant
Believed(m) ==
  LET all  == Listed(m)
      kept == IF \E i \in DOMAIN all : all[i].exe = "root"
              THEN Only(all, {p \in ToSet(all) : p.exe # "user"}) ELSE all
  IN  IF m.win THEN all
      ELSE [i \in DOMAIN kept |-> IF kept[i].foreign THEN [kept[i] EXCEPT !.conf = None] ELSE kept[i]]

-----------------------------------------------------------------------------
(* Folders and files.                                                       *)

Home(uid) == IF uid = "btc" THEN "home" ELSE "other"
IsConf(m, c) ==
  \/ c \in Dirs /\ m.dir[c] \in {"full", "nocookie"}
  \/ c = "etc" /\ m.etc # "none"
  \/ c \in {"own", "theirs"}
HasDatadir(m, c) == c = "etc" /\ m.etc = "sys"

\* The files named by processes, then the one of the packages.
ConfCandidates(m, ps) ==
  LET named == Only(ps, {p \in ToSet(ps) : p.conf # None})
  IN  [i \in DOMAIN named |-> named[i].conf] \o (IF m.win THEN <<>> ELSE <<"etc">>)

\* Where to look: what the processes use, the usual places, and the folder a
\* system-wide file names.  Windows: the registry's folder, then the usual one.
Candidates(m, ps) ==
  IF m.win THEN <<"given", "home">>
  ELSE [i \in DOMAIN ps |-> IF ps[i].datadir # None THEN ps[i].datadir ELSE Home(ps[i].uid)]
       \o m.homes \o <<"sys">>
       \o (IF m.etc = "sys" THEN <<"sys">> ELSE <<>>)

\* The folder a running node names first, then one holding a chain (blocks count
\* two, the cookie one); with no node running the one only root can make.
Score(m, ps, d) ==
  (IF \E i \in DOMAIN ps : ps[i].datadir = d THEN 4
   ELSE IF ps = <<>> /\ d = "sys" /\ ~m.win THEN 8 ELSE 0)
  + (IF m.dir[d] \in {"noconf", "full"} THEN 3 ELSE IF m.dir[d] = "nocookie" THEN 2 ELSE 0)

\* The first of the best: sort() keeps the order of equals.
Datadir(m, ps) ==
  LET cs    == Candidates(m, ps)
      There == {i \in DOMAIN cs : m.dir[cs[i]] # "none"}
      Best  == {i \in There : \A j \in There : Score(m, ps, cs[j]) <= Score(m, ps, cs[i])}
  IN  IF There = {} THEN None ELSE cs[CHOOSE i \in Best : \A j \in Best : i <= j]

\* A file a process names, then the one in the folder, then the others.
ConfPath(m, ps) ==
  LET d  == Datadir(m, ps)
      cs == ConfCandidates(m, ps)
  IN  FirstThat(Only(cs, {ps[i].conf : i \in DOMAIN ps}) \o (IF d = None THEN <<>> ELSE <<d>>) \o cs,
                LAMBDA c : IsConf(m, c), None)

-----------------------------------------------------------------------------
(* The RPC address.                                                         *)

Plain == [chain |-> "main", port |-> 0, connect |-> "none", cport |-> 0]
Says(m, c) == IF c = None THEN Plain ELSE m.opt
ChainPort(chain) == IF chain = "main" THEN 8332 ELSE 18332
ConfPort(o) == IF o.port # 0 THEN o.port ELSE ChainPort(o.chain)

\* Never an address of another machine; rpcport wins over rpcconnect's port.
Url(o) ==
  IF o.connect = "local" /\ o.cport # 0 /\ o.port = 0
  THEN [host |-> "local", port |-> o.cport]
  ELSE [host |-> "local", port |-> ConfPort(o)]

\* Whom the files belong to: the cookie's, the folder's, or the process's user.
Account(d) == IF d = "other" THEN "other" ELSE "btc"
OwnerOf(m, ps, c, d) ==
  LET eff == IF HasDatadir(m, c) THEN "sys" ELSE d
      at  == FirstThat(<<eff, d>>, LAMBDA x : x # None /\ m.dir[x] # "none", None)
  IN  IF m.win THEN None
      ELSE IF at # None THEN Account(at)
      ELSE FirstThat([i \in DOMAIN ps |-> ps[i].uid], LAMBDA u : u # None, None)

Found(m) ==
  LET ps == Believed(m)   d == Datadir(m, ps)   c == ConfPath(m, ps)   o == Says(m, c)
  IN  [datadir |-> d, conf |-> c, chain |-> o.chain, url |-> Url(o),
       ignored |-> o.connect = "remote", owner |-> OwnerOf(m, ps, c, d), running |-> ps # <<>>]

\* detectBitcoinNode: one look at a machine that stands still.
Detects ==
  /\ found = None
  /\ found' = Found(machine)
  /\ UNCHANGED <<machine, told>>

\* checkNode: with setup's login or without, one call to the address found;
\* failed: login or method refused, still starting, no answer in time.
Checks ==
  /\ found # None /\ told = ""
  /\ told' \in {"no-auth"} \cup (IF found.running THEN {"ok", "failed"} ELSE {"refused"})
  /\ UNCHANGED <<machine, found>>

Next == Detects \/ Checks
Spec == Init /\ [][Next]_vars
-----------------------------------------------------------------------------
\* The bitcoin.conf setup edits is the one our node reads (comment at nodeConfPath;
\* ours: the one root installed, or the only one that runs, and not on Windows,
\* where its arguments are not seen).  That is the file it names with -conf; else
\* the one in the folder it names with -datadir; else the one in its account's
\* own folder, as long as that holds blocks and a cookie: where it does not, Score
\* gives it nothing for the node that runs in it, and another folder that holds a
\* chain is preferred, against the comment at setup-core.js:997.  With no node
\* running it is the system's; nobody else's node is taken for it; the login only
\* goes to this machine, to the port of the file.
FindsTheNode ==
  found # None =>
    LET m == machine   n == m.node   ours == n # None /\ (n.exe = "root" \/ ~m.stranger) /\ ~m.win
    IN  /\ ours /\ n.conf # None /\ ~n.foreign => found.conf = n.conf
        /\ ours /\ (n.conf = None \/ n.foreign) /\ n.datadir # None
             => /\ found.datadir = n.datadir
                /\ IsConf(m, n.datadir) => found.conf = n.datadir
        /\ ours /\ (n.conf = None \/ n.foreign) /\ n.datadir = None
             /\ m.dir[Home(n.uid)] \in {"noconf", "full"}
             => /\ found.datadir = Home(n.uid)
                /\ IsConf(m, Home(n.uid)) => found.conf = Home(n.uid)
        /\ ours /\ n.exe = "root" => found.conf # "theirs"
        /\ n = None /\ ~m.stranger /\ IsConf(m, "sys") => found.conf = "sys"
        /\ found.url.host = "local"
        /\ found.conf # None /\ m.opt.port # 0 => found.url.port = m.opt.port
=============================================================================
