-------------------------------- MODULE Update -------------------------------
(***************************************************************************)
(* Updates: the daemon's check for a release and its install calls         *)
(* (nodesignald.js), the download that is checked on its way to disk       *)
(* (downloadVerified of updater.js), and what takes the file from there:   *)
(* on a .deb install the root side, update-apply of cli.js, which checks   *)
(* everything again; on Windows the downloaded program itself.  Files are  *)
(* shared by name, so two calls at once may work on the same ones.  A      *)
(* release is its version; one that is not newer, not signed or has no     *)
(* installer for this machine is no release here.  A read or write of      *)
(* root's side that fails ends it like a refusal.                          *)
(***************************************************************************)
EXTENDS Naturals

CONSTANTS
  Kinds,            \* ways this copy may be installed: "deb", "windows"
  Calls,            \* update.install calls of the console, one after the other or not
  Newest,           \* bound: the newest release's version (this copy starts as 0)
  MaxChecks,        \* bound: checks that wait for their answers at once
  None

VARIABLES
  kind,             \* INSTALL_KIND
  released,         \* the newest version at GitHub, signed
  info,             \* updateInfo.state
  checking,         \* how many checkForUpdate wait for their answers
  last,             \* what lastRelease offers; 0: nothing to install
  call,             \* where each install call is
  want,             \* ... and the version it installs
  whole,            \* the file each call writes has all its bytes
  part, dest,       \* whose file bears the name .part, and the final name
  manifest, request, result,     \* the files left for root's side, and its answer
  asked,            \* nodesignal-update.path saw the request
  root, job,        \* where update-apply is, and the version it works on
  copy,             \* the package in root's folder, or the program started
  installed         \* the version installed, and whether all of it was there

memory == <<info, checking, last, call, want>>
disk   == <<whole, part, dest>>
handed == <<manifest, request, result, asked>>
rooted == <<root, job, copy>>
vars   == <<kind, released, memory, disk, handed, rooted, installed>>

Versions == 0..Newest
Awaits   == {"rm", "open", "body", "rename", "hand", "clean"}
Answers  == {"installed", "refused"}
Program  == [version : Versions, whole : BOOLEAN]
Program0 == [version |-> 0, whole |-> TRUE]
\* What a reader of the final name gets.
AtDest   == [version |-> want[dest], whole |-> whole[dest]]

TypeOK ==
  /\ kind \in Kinds /\ released \in Versions
  /\ info \in {"idle", "checking", "available", "error", "installing"}
  /\ checking \in 0..MaxChecks /\ last \in Versions
  /\ call \in [Calls -> {"none", "waits", "over"} \cup Awaits]
  /\ want \in [Calls -> Versions] /\ whole \in [Calls -> BOOLEAN]
  /\ part \in Calls \cup {None} /\ dest \in Calls \cup {None}
  /\ manifest \in Versions /\ request \in Versions
  /\ result \in Answers \cup {None} /\ asked \in BOOLEAN
  /\ root \in {"idle", "verify", "package", "install", "tidy"} /\ job \in Versions
  /\ copy \in Program /\ installed \in Program

Init ==
  /\ kind \in Kinds /\ released = 0
  /\ info = "idle" /\ checking = 0 /\ last = 0
  /\ call = [c \in Calls |-> "none"] /\ want = [c \in Calls |-> 0]
  /\ whole = [c \in Calls |-> FALSE] /\ part = None /\ dest = None
  /\ manifest = 0 /\ request = 0 /\ result = None /\ asked = FALSE
  /\ root = "idle" /\ job = 0
  /\ copy = Program0 /\ installed = Program0

\* The daemon starts again: calls and checks are forgotten, files stay.
\* reportUpdateResult reads and removes an answer that is there.
DaemonRestarts(answer) ==
  /\ info' = IF answer = "refused" THEN "error" ELSE "idle"
  /\ checking' = 0 /\ last' = 0
  /\ call' = [c \in Calls |-> IF call[c] = "none" THEN "none" ELSE "over"]
  /\ result' = None /\ UNCHANGED want

-----------------------------------------------------------------------------
(* The check.                                                              *)

Releases ==
  /\ released < Newest /\ released' = released + 1
  /\ UNCHANGED <<kind, memory, disk, handed, rooted, installed>>

\* checkForUpdate, by the daily timer or the console.  An install that fails
\* meanwhile lets a second check begin before the first is back.
Check ==
  /\ info \notin {"checking", "installing"} /\ checking < MaxChecks
  /\ checking' = checking + 1 /\ info' = "checking"
  /\ UNCHANGED <<kind, released, last, call, want, disk, handed, rooted, installed>>

\* checkLatest is back, with a release this copy can install (the newest when
\* GitHub was asked) or without (it may still show one that must be installed by
\* hand); whatever the state has become meanwhile.
Checked ==
  /\ checking > 0 /\ checking' = checking - 1
  /\ \/ /\ last' \in installed.version + 1 .. released
        /\ info' = "available"
     \/ last' = 0 /\ info' \in {"idle", "available", "error"}
  /\ UNCHANGED <<kind, released, call, want, disk, handed, rooted, installed>>

-----------------------------------------------------------------------------
(* An install call.  downloadVerified: the old .part is removed, a new one *)
(* made, filled, and renamed once its size and hash are right.             *)

Goes(c, to) == call' = [call EXCEPT ![c] = to]

Install(c) ==
  /\ call[c] = "none" /\ last # 0
  /\ Goes(c, "rm") /\ want' = [want EXCEPT ![c] = last]
  /\ info' = "installing"
  /\ UNCHANGED <<kind, released, checking, last, disk, handed, rooted, installed>>

RemovesPart(c) ==
  /\ call[c] = "rm" /\ Goes(c, "open")
  /\ part' = None
  /\ UNCHANGED <<kind, released, info, checking, last, want, whole, dest, handed, rooted, installed>>

\* open with "wx": never a file that exists.
OpensPart(c) ==
  /\ call[c] = "open"
  /\ IF part = None THEN part' = c /\ Goes(c, "body") ELSE Goes(c, "clean") /\ UNCHANGED part
  /\ UNCHANGED <<kind, released, info, checking, last, want, whole, dest, handed, rooted, installed>>

\* All bytes are there, their hash is the signed one, the file is closed.
\* The file it wrote may bear another name by now, or none.
Filled(c) ==
  /\ call[c] = "body" /\ Goes(c, "rename")
  /\ whole' = [whole EXCEPT ![c] = TRUE]
  /\ UNCHANGED <<kind, released, info, checking, last, want, part, dest, handed, rooted, installed>>

\* What bears the name .part is renamed.
Renames(c) ==
  /\ call[c] = "rename"
  /\ IF part = None THEN Goes(c, "clean") /\ UNCHANGED <<part, dest>>
                    ELSE Goes(c, "hand") /\ dest' = part /\ part' = None
  /\ UNCHANGED <<kind, released, info, checking, last, want, whole, handed, rooted, installed>>

\* The network or the disk fails.
Breaks(c) ==
  /\ call[c] \in {"rm", "open", "body", "rename"} /\ Goes(c, "clean")
  /\ UNCHANGED <<kind, released, info, checking, last, want, disk, handed, rooted, installed>>

\* The .part is removed, whosever it is, and the call fails.
Cleans(c) ==
  /\ call[c] = "clean" /\ Goes(c, "over")
  /\ part' = None /\ info' = "error"
  /\ UNCHANGED <<kind, released, checking, last, want, whole, dest, handed, rooted, installed>>

\* A .deb: the signed manifest and the request are left for root's side, and
\* a timer of two minutes is set.
HandsOver(c) ==
  /\ call[c] = "hand" /\ kind = "deb" /\ Goes(c, "waits")
  /\ manifest' = want[c] /\ request' = want[c] /\ result' = None
  /\ asked' \in IF root = "idle" THEN {TRUE} ELSE {asked, TRUE}
  /\ UNCHANGED <<kind, released, info, checking, last, want, disk, rooted, installed>>

\* Writing those files fails before the request is there.
HandsFail(c) ==
  /\ call[c] = "hand" /\ kind = "deb" /\ Goes(c, "over")
  /\ info' = "error"
  /\ \/ UNCHANGED <<manifest, result>>
     \/ manifest' = want[c] /\ result' \in {result, None}
  /\ UNCHANGED <<kind, released, checking, last, want, disk, request, asked, rooted, installed>>

\* The two minutes are over.
TimesOut_Silent(c) ==                                              \* mutant
  /\ call[c] = "waits" /\ kind = "deb" /\ Goes(c, "over")
  /\ info' = IF result = "refused" THEN "error" ELSE info
  /\ UNCHANGED <<kind, released, checking, last, want, disk, handed, rooted, installed>>
TimesOut(c) ==
  /\ call[c] = "waits" /\ kind = "deb" /\ Goes(c, "over")
  /\ info' = IF result = "refused" \/ (result = None /\ info = "installing") THEN "error" ELSE info
  /\ UNCHANGED <<kind, released, checking, last, want, disk, handed, rooted, installed>>

\* Windows: the file is started.  A whole one stops the daemon, installs
\* itself and starts the new one; or it fails, and nobody is told.  One with
\* bytes missing, or still written to, cannot be started.
Launches(c) ==
  /\ call[c] = "hand" /\ kind = "windows"
  /\ \/ whole[dest] /\ copy' = AtDest /\ Goes(c, "waits") /\ UNCHANGED info
     \/ ~whole[dest] /\ Goes(c, "over") /\ info' = "error" /\ UNCHANGED copy
  /\ UNCHANGED <<kind, released, checking, last, want, disk, handed, root, job, installed>>

Upgrades(c) ==
  /\ call[c] = "waits" /\ kind = "windows"
  /\ installed' = copy
  /\ DaemonRestarts(result)
  /\ UNCHANGED <<kind, released, disk, manifest, request, asked, rooted>>

-----------------------------------------------------------------------------
(* update-apply, as root.                                                  *)

RootGoes(to, v) == root' = to /\ job' = v /\ UNCHANGED copy

\* The request is read and removed.
Applies ==
  /\ asked /\ asked' = FALSE
  /\ root = "idle" /\ request # 0
  /\ RootGoes("verify", request) /\ request' = 0
  /\ UNCHANGED <<kind, released, memory, disk, manifest, result, installed>>

\* verifyRelease: signed, for the version asked for, newer than this one.
Verifies ==
  /\ root = "verify"
  /\ manifest = job /\ job > installed.version
  /\ RootGoes("package", job)
  /\ UNCHANGED <<kind, released, memory, disk, handed, installed>>

\* The package is read into a folder of root's, and checked there.
Copies_Trusting ==                                                 \* mutant
  /\ root = "package" /\ dest # None
  /\ root' = "install" /\ copy' = AtDest
  /\ UNCHANGED <<kind, released, memory, disk, handed, job, installed>>
Copies ==
  /\ root = "package" /\ dest # None
  /\ AtDest = [version |-> job, whole |-> TRUE]
  /\ root' = "install" /\ copy' = AtDest
  /\ UNCHANGED <<kind, released, memory, disk, handed, job, installed>>

\* The package manager; the package restarts the daemon.
Installs ==
  /\ root = "install"
  /\ installed' = copy
  /\ RootGoes("tidy", job)
  /\ DaemonRestarts(result)
  /\ UNCHANGED <<kind, released, disk, manifest, request, asked>>

\* The answer is left, and what was asked for is removed.
Tidies(answer) ==
  /\ RootGoes("idle", 0)
  /\ result' = answer
  /\ manifest' = 0 /\ dest' = None
  /\ UNCHANGED <<kind, released, memory, whole, part, request, asked, installed>>
Succeeds == root = "tidy" /\ Tidies("installed")
Refuses  == root \in {"verify", "package", "install"} /\ Tidies("refused")

-----------------------------------------------------------------------------

\* The daemon is stopped or killed and starts again.
Restart ==
  /\ DaemonRestarts(result)
  /\ UNCHANGED <<kind, released, disk, manifest, request, asked, rooted, installed>>

Daemon(c) == \/ RemovesPart(c) \/ OpensPart(c) \/ Filled(c) \/ Renames(c) \/ Cleans(c)
             \/ HandsOver(c) \/ TimesOut(c) \/ Launches(c)
Root == Applies \/ Verifies \/ Copies \/ Installs \/ Succeeds \/ Refuses

Next == \/ Releases \/ Check \/ Checked \/ Restart \/ Root
        \/ \E c \in Calls : Install(c) \/ Breaks(c) \/ HandsFail(c) \/ Daemon(c) \/ Upgrades(c)

Spec == Init /\ [][Next]_vars

-----------------------------------------------------------------------------

\* Whatever two calls do to each other's files, root's side installs only a
\* package with all the bytes that were signed, of a version that was.
InstallsOnlyWhole == installed.whole /\ installed.version <= released

\* The daemon's awaits end and its timers fire; root's side may never run.
DaemonGoesOn == \A c \in Calls : WF_vars(Daemon(c))
\* Once the package manager has restarted the daemon, root's side leaves its
\* answer before that daemon has checked, downloaded and handed over anew.
AnswersSoon == [](root = "tidy" => \A c \in Calls : call[c] # "waits")

\* An install that was started ends: the console shows how it went, or the
\* daemon restarts.  (On Windows the console waits for ever if the program it
\* started fails.)
InstallEnds ==
  DaemonGoesOn /\ AnswersSoon =>
    (kind = "deb" /\ info = "installing" ~> info # "installing")
=============================================================================
