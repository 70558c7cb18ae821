------------------------------ MODULE Install -------------------------------
(***************************************************************************)
(* NodeSignal's program files on Windows (packaging/windows/sea-main.js):    *)
(* the app folder and the executable beside it, which an install or an       *)
(* upgrade replaces and an uninstall removes.  The folder is renamed aside   *)
(* and the new one into its place; where Windows refuses that, files are     *)
(* copied one by one.  Anything may fail, the job may be killed at any step, *)
(* and the operator may start NodeSignal meanwhile.                          *)
(***************************************************************************)
EXTENDS Integers

CONSTANTS
  Files, Main,      \* the files of the app; the daemon's own
  Versions,
  MaxKills,         \* bound: jobs killed
  None

VARIABLES
  app, new, old,    \* the folders app, app.new, app.old: the version of each file
  exe,              \* the version of nodesignal.exe
  settings,         \* there is a config
  daemon,           \* the versions the running daemon was loaded from
  cut,              \* history: files in the folder may be of two versions
  job, kills,
  last              \* history: the job that came to its end, if nothing happened since

vars == <<app, new, old, exe, settings, daemon, cut, job, kills, last>>

Empty == [f \in Files |-> None]
Whole(v) == [f \in Files |-> v]
NoJob == [what |-> "none", at |-> "stop", v |-> None]
Nobody == [files |-> Empty, exe |-> None, cut |-> FALSE]

Folder == [Files -> Versions \cup {None}]
TypeOK ==
  /\ {app, new, old} \subseteq Folder /\ exe \in Versions \cup {None}
  /\ settings \in BOOLEAN /\ cut \in BOOLEAN /\ kills \in 0..MaxKills
  /\ daemon \in [files : Folder, exe : Versions \cup {None}, cut : BOOLEAN]
  /\ job \in [what : {"none", "install", "upgrade", "uninstall", "purge"},
              at : {"stop", "unpack", "aside", "inplace", "tidy", "copy", "exe", "exe2",
                    "config", "start", "rmapp", "rmexe"},
              v : Versions \cup {None}]
  /\ last \in [what : {"none", "install", "upgrade", "uninstall", "purge"}, v : Versions \cup {None}]

Init ==
  /\ app = Empty /\ new = Empty /\ old = Empty /\ exe = None /\ settings = FALSE
  /\ daemon = Nobody /\ cut = FALSE
  /\ job = NoJob /\ kills = 0 /\ last = [what |-> "none", v |-> None]

To(at) == job' = [job EXCEPT !.at = at]
Forgets == last' = [what |-> "none", v |-> None]

-----------------------------------------------------------------------------
(* The daemon.                                                             *)

\* installedOk; and a file missing, it ends while it loads.
Loads == exe # None /\ settings /\ \A f \in Files : app[f] # None
Loaded == [files |-> app, exe |-> exe, cut |-> cut]
\* At sign-in, or by the shortcut.
DaemonStarts ==
  /\ daemon = Nobody /\ Loads /\ daemon' = Loaded
  /\ UNCHANGED <<app, new, old, exe, settings, cut, job, kills, last>>
DaemonEnds ==
  /\ daemon # Nobody /\ daemon' = Nobody
  /\ UNCHANGED <<app, new, old, exe, settings, cut, job, kills, last>>

-----------------------------------------------------------------------------
(* The jobs.                                                               *)

\* stopRunning comes first.  An upgrade is for an install that is there.
Begin(what, v) ==
  /\ job.what = "none"
  /\ what = "upgrade" => app[Main] # None /\ settings
  /\ job' = [what |-> what, v |-> v,
             at |-> IF what \in {"install", "upgrade"} THEN "unpack" ELSE "rmapp"]
  /\ daemon' = Nobody /\ Forgets
  /\ UNCHANGED <<app, new, old, exe, settings, cut, kills>>

Unpacks_InPlace ==                                                    \* mutant
  /\ job.at = "unpack" /\ (\E f \in Files : app' = [app EXCEPT ![f] = job.v])
  /\ IF app' = Whole(job.v) THEN To("exe") ELSE UNCHANGED job
  /\ UNCHANGED <<new, old, exe, settings, daemon, cut, kills, last>>
\* extractFiles: the new folder, from nothing.
Unpacks ==
  /\ job.at = "unpack" /\ new' = Whole(job.v) /\ To("aside")
  /\ UNCHANGED <<app, old, exe, settings, daemon, cut, kills, last>>
\* app.old goes, and app becomes app.old.
StepsAside ==
  /\ job.at = "aside" /\ old' = app /\ app' = Empty /\ To("inplace")
  /\ UNCHANGED <<new, exe, settings, daemon, cut, kills, last>>
StepsIn ==
  /\ job.at = "inplace" /\ app' = new /\ new' = Empty /\ cut' = FALSE /\ To("tidy")
  /\ UNCHANGED <<old, exe, settings, daemon, kills, last>>
Tidies ==
  /\ job.at = "tidy" /\ old' = Empty /\ To("exe")
  /\ UNCHANGED <<app, new, exe, settings, daemon, cut, kills, last>>
\* A rename is refused: file by file, into what is there.
HeldOpen ==
  /\ job.at \in {"aside", "inplace"} /\ To("copy")
  /\ old' \in IF job.at = "aside" THEN {Empty} ELSE {old}
  /\ UNCHANGED <<app, new, exe, settings, daemon, cut, kills, last>>
\* app.old cannot be removed: the same way out, but app.new is gone by then,
\* and the job ends in the error.
CannotTidy ==
  /\ job.at = "tidy" /\ job' = NoJob
  /\ UNCHANGED <<app, new, old, exe, settings, daemon, cut, kills, last>>
Due == {f \in Files : app[f] # job.v}
CopiesFile(f) ==
  /\ job.at = "copy" /\ f \in Due /\ app' = [app EXCEPT ![f] = new[f]] /\ cut' = TRUE
  /\ UNCHANGED <<new, old, exe, settings, daemon, job, kills, last>>
Copied ==
  /\ job.at = "copy" /\ Due = {} /\ new' = Empty /\ cut' = FALSE /\ To("exe")
  /\ UNCHANGED <<app, old, exe, settings, daemon, kills, last>>

\* copySelf: over the old one, or the old one is moved aside first.
CopiesSelf ==
  /\ job.at \in {"exe", "exe2"} /\ exe' = job.v
  /\ To(IF job.what = "install" THEN "config" ELSE "start")
  /\ UNCHANGED <<app, new, old, settings, daemon, cut, kills, last>>
MovesSelfAside ==
  /\ job.at = "exe" /\ exe # None /\ exe' = None /\ To("exe2")
  /\ UNCHANGED <<app, new, old, settings, daemon, cut, kills, last>>
Configures ==
  /\ job.at = "config" /\ settings' = TRUE /\ To("start")
  /\ UNCHANGED <<app, new, old, exe, daemon, cut, kills, last>>
\* startDetached: unless one runs already.
Starts ==
  /\ job.at = "start" /\ job' = NoJob /\ last' = [what |-> job.what, v |-> job.v]
  /\ daemon' = IF daemon = Nobody /\ Loads THEN Loaded ELSE daemon
  /\ UNCHANGED <<app, new, old, exe, settings, cut, kills>>

\* cmdUninstall: the folder, file by file, then the executable.
RemovesFile(f) ==
  /\ job.at = "rmapp" /\ app[f] # None /\ app' = [app EXCEPT ![f] = None]
  /\ UNCHANGED <<new, old, exe, settings, daemon, cut, job, kills, last>>
RemovesSettings ==
  /\ job.at = "rmapp" /\ app = Empty /\ To("rmexe") /\ cut' = FALSE
  /\ settings' = IF job.what = "purge" THEN FALSE ELSE settings
  /\ UNCHANGED <<app, new, old, exe, daemon, kills, last>>
RemovesSelf ==
  /\ job.at = "rmexe" /\ exe' = None
  /\ job' = NoJob /\ last' = [what |-> job.what, v |-> None]
  /\ UNCHANGED <<app, new, old, settings, daemon, cut, kills>>

Kill ==
  /\ job.what # "none" /\ kills < MaxKills /\ kills' = kills + 1 /\ job' = NoJob
  /\ UNCHANGED <<app, new, old, exe, settings, daemon, cut, last>>

Next ==
  \/ DaemonStarts \/ DaemonEnds \/ Kill
  \/ \E v \in Versions, what \in {"install", "upgrade"} : Begin(what, v)
  \/ \E what \in {"uninstall", "purge"} : Begin(what, None)
  \/ Unpacks \/ StepsAside \/ StepsIn \/ Tidies \/ HeldOpen \/ CannotTidy \/ Copied
  \/ \E f \in Files : CopiesFile(f) \/ RemovesFile(f)
  \/ CopiesSelf \/ MovesSelfAside \/ Configures \/ Starts
  \/ RemovesSettings \/ RemovesSelf

Spec == Init /\ [][Next]_vars

-----------------------------------------------------------------------------
(* Properties.                                                             *)

\* A daemon never runs files of two versions, whenever it is started and
\* whatever was killed: only a replacement file by file lets it.
OneVersion ==
  \A f, g \in Files : daemon.files[f] # daemon.files[g] => daemon.cut

\* A job that came to its end mends what earlier ones left: the folder and the
\* executable are of its version, and app.new is gone; or all are gone.
LeavesWhole ==
  /\ last.what \in {"install", "upgrade"} => app = Whole(last.v) /\ exe = last.v /\ new = Empty
  /\ last.what \in {"uninstall", "purge"} => app = Empty /\ exe = None

\* What runs is of one version, and so is what a job leaves.
NeverMixed == OneVersion /\ LeavesWhole

-----------------------------------------------------------------------------
(* What holds between the steps of a job, on which NeverMixed rests.        *)

Shapes ==
  /\ app \in Folder /\ new \in Folder
  /\ job \in [what : {"none", "install", "upgrade", "uninstall", "purge"},
              at : {"stop", "unpack", "aside", "inplace", "tidy", "copy", "exe", "exe2",
                    "config", "start", "rmapp", "rmexe"},
              v : Versions \cup {None}]

\* How far a job has come is how much is of its version.
Progress ==
  /\ ~cut => \A f, g \in Files : app[f] # None /\ app[g] # None => app[f] = app[g]
  /\ job.what # "none" => last.what = "none"
  /\ job.at \in {"rmapp", "rmexe"} => job.what \in {"uninstall", "purge"}
  /\ job.at \notin {"stop", "rmapp", "rmexe"} => job.what \in {"install", "upgrade"}
  /\ job.at \in {"aside", "inplace", "copy"} => new = Whole(job.v)
  /\ job.at \in {"tidy", "exe", "exe2", "config", "start"} => app = Whole(job.v) /\ new = Empty
  /\ job.at \in {"config", "start"} => exe = job.v
  /\ job.at = "rmexe" => app = Empty

InstallInv == Shapes /\ Progress /\ NeverMixed
=============================================================================
