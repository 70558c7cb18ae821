--------------------------------- MODULE Conf --------------------------------
(***************************************************************************)
(* The edits NodeSignal makes in the operator's bitcoin.conf (setup-core.js):*)
(* the uacomment line and the block with its RPC login, each put in, renewed *)
(* and taken out on its own, in a file the operator edits too.  A file is   *)
(* its lines and whether the last one ends in a newline.  An edit reads the *)
(* file, keeps a copy the first time, empties the file and writes it again: *)
(* a kill in between leaves it empty.                                       *)
(***************************************************************************)
EXTENDS Naturals, Sequences, SequencesExt

CONSTANTS
  MaxLines,         \* bound: lines of the file when NodeSignal first sees it
  MaxSize,          \* bound: lines it may grow to (blank lines of ours may pile up)
  MaxEvents,        \* bound: later edits of the operator (one in the run: who takes our own
                    \* lines apart twice can undo DoesAsAsked and OthersAsBefore), and kills
  None

VARIABLES
  conf,             \* bitcoin.conf, or None
  access,           \* "ok", "readonly", or "refused": by the file's owner and folders
  backup,           \* bitcoin.conf.nodesignal-backup, or None
  edit,             \* the edit that emptied the file and has not written it: what was
                    \* there (was), what will be (out), and what was asked (ask)
  done,             \* the last edit's question and outcome
  edits, kills,     \* the operator's edits, and kills, so far
  had               \* history: the operator's settings when NodeSignal first looked

vars == <<conf, access, backup, edit, done, edits, kills, had>>

\* The operator's: kv any setting but wl, rpcwhitelist, and inc, includeconf; sec
\* a [section].  bad: a line that is none of these, nor a comment.
Kept  == {"kv", "wl", "inc", "sec"}
Ours  == {"mark", "ua1", "ua2", "begin", "auth1", "auth2", "list", "default0", "end"}
Line  == Kept \cup Ours \cup {"blank", "bad"}
File  == [ls : Seq(Line), nl : BOOLEAN]
Empty == [ls |-> <<>>, nl |-> TRUE]
\* Written as the file's owner; or it can only be read; or not as root, in folders
\* another account can change.
Accesses == {"ok", "readonly", "refused"}
Asks  == {<<"ua", "ua1">>, <<"ua", "ua2">>, <<"ua", "off">>,
          <<"rpc", "auth1">>, <<"rpc", "auth2">>, <<"rpc", "off">>}

-----------------------------------------------------------------------------
(* What is where.  Positions are 0 when there is none.                     *)

FirstSection(ls) == SelectInSeq(ls, LAMBDA l : l = "sec")
\* The last line that applies to every chain.
TopEnd(ls) == IF FirstSection(ls) = 0 THEN Len(ls) ELSE FirstSection(ls) - 1
Readable(ls) == ~Contains(ls, "bad")                     \* analyzeConf
IsUa(l) == l \in {"ua1", "ua2"}
\* Our uacomment lines that apply to every chain.
UaLines(ls) == {i \in 1..TopEnd(ls) : IsUa(ls[i])}
LowestOf(S) == CHOOSE i \in S : \A j \in S : i <= j
HighestOf(S) == CHOOSE i \in S : \A j \in S : j <= i
\* uaCommentState
UaState(ls) == IF UaLines(ls) = {} THEN "off" ELSE ls[HighestOf(UaLines(ls))]

Begin(ls) == SelectInSeq(ls, LAMBDA l : l = "begin")
Ends(ls)  == LET b == Begin(ls) IN
             {i \in 1..Len(ls) : b # 0 /\ i > b /\ ls[i] = "end"}
HasBlock(ls) == Ends(ls) # {}
NoEnd(ls) == Begin(ls) # 0 /\ ~HasBlock(ls)
End(ls)   == LowestOf(Ends(ls))
Inner(ls) == SubSeq(ls, Begin(ls) + 1, End(ls) - 1)
Outside(ls) == IF HasBlock(ls)
               THEN SubSeq(ls, 1, Begin(ls) - 1) \o SubSeq(ls, End(ls) + 1, Len(ls)) ELSE ls
\* rpcAccessState: the rpcauth line of our block
RpcState(ls) ==
  IF ~HasBlock(ls) THEN "off"
  ELSE LET a == SelectInSeq(Inner(ls), LAMBDA l : l \in {"auth1", "auth2"})
       IN IF a = 0 THEN "none" ELSE Inner(ls)[a]

\* The operator's own lines, and the [section] each is in.
Theirs(ls) == SelectSeq(Outside(ls), LAMBDA l : l \in Kept)

-----------------------------------------------------------------------------
(* The edits: whether the file is to change ("ok"), and to what.           *)

Same(f)    == [how |-> "same", to |-> f]
Refused(f) == [how |-> "refused", to |-> f]
To(f)      == [how |-> "ok", to |-> f]

\* At the end, or before the first [section] with a blank line after it.
PutIn(f, block) ==
  LET at == FirstSection(f.ls) IN
  IF at = 0 THEN [ls |-> f.ls \o block, nl |-> TRUE]
  ELSE [f EXCEPT !.ls = SubSeq(@, 1, at - 1) \o block \o <<"blank">> \o SubSeq(@, at, Len(@))]

\* f without the lines at the positions in S.
Without(f, S) ==
  LET kept == SelectSeq([i \in 1..Len(f.ls) |-> i], LAMBDA i : i \notin S) IN
  [ls |-> [i \in 1..Len(kept) |-> f.ls[kept[i]]], nl |-> f.nl \/ Len(f.ls) \in S]

\* A line of ours goes with its marker, and with the blank line put before a [section].
UaDropped_NoBlank(ls) ==                                            \* mutant
  UNION {{i} \cup {j \in 1..TopEnd(ls) : j = i - 1} : i \in UaLines(ls)}
UaDropped(ls) ==
  UNION {{i} \cup {j \in {i - 1} \cap 1..TopEnd(ls) : ls[j] = "mark"}
             \cup {j \in {i + 1} : /\ j = TopEnd(ls) /\ FirstSection(ls) # 0
                                   /\ ls[j] = "blank" /\ i > 1 /\ ls[i - 1] = "mark"}
           : i \in UaLines(ls)}

UaEdit(f, value) ==
  LET mine == UaLines(f.ls)
      first == LowestOf(mine) IN
  IF ~Readable(f.ls) THEN Refused(f)
  ELSE CASE mine = {} /\ value = "off" -> Same(f)
         [] mine = {} /\ value # "off" -> To(PutIn(f, <<"mark", value>>))
         [] mine # {} /\ value = "off" -> To(Without(f, UaDropped(f.ls)))
         [] mine # {} /\ value # "off" ->
              IF f.ls[first] = value THEN Same(f) ELSE To([f EXCEPT !.ls[first] = value])

\* The operator's whitelist settings, and those for one chain only.
Whitelists(ls) == {i \in 1..Len(ls) : ls[i] = "wl"}
OneChain(ls)   == {i \in Whitelists(ls) : FirstSection(ls) # 0 /\ i > FirstSection(ls)}
\* Whether others are whitelisted cannot be seen here, or differs by chain.
Unsafe(ls) == Contains(ls, "inc") \/ OneChain(ls) # {}

Block(ls, auth) ==
  <<"begin", auth, "list">>
    \o (IF Whitelists(ls) = {} THEN <<"default0">> ELSE <<>>) \o <<"end">>

\* The blank line before a [section] goes with the block; a renewed one stays put.
RpcWithout(f) ==
  LET next == End(f.ls) + 1
      gap  == next < Len(f.ls) /\ f.ls[next] = "blank" /\ f.ls[next + 1] = "sec"
  IN Without(f, Begin(f.ls)..(IF gap THEN next ELSE End(f.ls)))
RpcRenewed(f, block) ==
  [ls |-> SubSeq(f.ls, 1, Begin(f.ls) - 1) \o block \o SubSeq(f.ls, End(f.ls) + 1, Len(f.ls)),
   nl |-> f.nl \/ End(f.ls) = Len(f.ls)]

RpcEdit(f, auth) ==
  LET others == Outside(f.ls)
      now == RpcState(f.ls) IN
  IF ~Readable(f.ls) \/ NoEnd(f.ls) THEN Refused(f)
  ELSE CASE now = auth -> Same(f)
         [] now # auth /\ auth = "off" -> To(RpcWithout(f))
         [] now # auth /\ auth # "off" /\ Unsafe(others) -> Refused(f)
         [] now # auth /\ auth # "off" /\ ~Unsafe(others) ->
              To(IF now = "off" THEN PutIn(f, Block(others, auth))
                 ELSE RpcRenewed(f, Block(others, auth)))

Computed(f, ask) == IF ask[1] = "ua" THEN UaEdit(f, ask[2]) ELSE RpcEdit(f, ask[2])

-----------------------------------------------------------------------------
(* The file in use.                                                        *)

TypeOK ==
  /\ conf \in File \cup {None} /\ backup \in File \cup {None}
  /\ access \in Accesses
  /\ edit = None \/ edit \in [was : File, out : File, ask : Asks]
  /\ done \in [ask : Asks, how : {"ok", "same", "refused", "killed"}] \cup {None}
  /\ had \in Seq(Kept) /\ edits \in 0..MaxEvents /\ kills \in 0..MaxEvents

Init ==
  /\ \/ conf = None
     \/ \E n \in 0..MaxLines, nl \in BOOLEAN :
          /\ conf \in [ls : [1..n -> Kept \cup {"blank", "bad"}], nl : {nl \/ n = 0}]
  /\ access \in Accesses
  /\ backup = None /\ edit = None /\ done = None
  /\ edits = 0 /\ kills = 0
  /\ had = IF conf = None THEN <<>> ELSE Theirs(conf.ls)

Ended(ask, how) == done' = [ask |-> ask, how |-> how]

\* A file that is not there is written at once, when there is something to write.
Creates(ask) ==
  /\ edit = None /\ conf = None /\ (access # "refused" \/ ask[2] = "off")
  /\ IF ask[2] = "off" THEN Ended(ask, "same") /\ UNCHANGED conf
     ELSE /\ Ended(ask, "ok")
          /\ conf' = Computed(Empty, ask).to
  /\ UNCHANGED <<access, backup, edit, edits, kills, had>>

\* Nothing to change, nothing NodeSignal dares to change, or may.
Leaves(ask) ==
  LET r == Computed(conf, ask) IN
  /\ edit = None
  /\ \/ access = "refused" /\ Ended(ask, "refused")
     \/ access # "refused" /\ conf # None /\ r.how # "ok" /\ Ended(ask, r.how)
     \/ access = "readonly" /\ conf # None /\ r.how = "ok" /\ Ended(ask, "refused")
  /\ UNCHANGED <<conf, access, backup, edit, edits, kills, had>>

\* ftruncate, after the copy that is kept once.
Keeps(f) == IF backup = None THEN f ELSE backup
Empties(ask) ==
  LET r == Computed(conf, ask) IN
  /\ edit = None /\ conf # None /\ access = "ok"
  /\ r.how = "ok" /\ Len(r.to.ls) <= MaxSize
  /\ backup' = Keeps(conf)
  /\ conf' = Empty
  /\ edit' = [was |-> conf, out |-> r.to, ask |-> ask]
  /\ done' = None /\ UNCHANGED <<access, edits, kills, had>>

Writes ==
  /\ edit # None
  /\ conf' = edit.out /\ edit' = None
  /\ Ended(edit.ask, "ok")
  /\ UNCHANGED <<access, backup, edits, kills, had>>

Killed ==
  /\ edit # None /\ edits + kills < MaxEvents
  /\ kills' = kills + 1 /\ edit' = None
  /\ Ended(edit.ask, "killed")
  /\ UNCHANGED <<conf, access, backup, edits, had>>

\* The operator puts a line in or takes one out, ours included.
OperatorEdits ==
  /\ edit = None /\ conf # None /\ edits + kills < MaxEvents
  /\ edits' = edits + 1 /\ done' = None
  /\ \/ \E i \in 1..Len(conf.ls) + 1, l \in Kept \cup {"blank"} :
          conf' = [ls |-> InsertAt(conf.ls, i, l), nl |-> TRUE]
     \/ \E i \in 1..Len(conf.ls) : conf' = [ls |-> RemoveAt(conf.ls, i), nl |-> TRUE]
  /\ UNCHANGED <<access, backup, edit, kills, had>>

Next ==
  \/ \E ask \in Asks : Creates(ask) \/ Leaves(ask) \/ Empties(ask)
  \/ Writes \/ Killed \/ OperatorEdits

Spec == Init /\ [][Next]_vars

-----------------------------------------------------------------------------
(* Properties.                                                             *)

\* Whatever NodeSignal writes, the operator's settings stay as they were, in
\* their order and in their sections (uaEdit, rpcEdit).
TheirsKept == edit # None => Theirs(edit.out.ls) = Theirs(edit.was.ls)

\* What the last edit was asked for is what the file says now, as uaCommentState
\* and rpcAccessState read it (setUaComment and setRpcAccess report by them),
\* unless it was refused; and asking again changes nothing.
DoesAsAsked ==
  done # None /\ done.how \in {"ok", "same"} =>
    IF conf = None THEN done.ask[2] = "off"
    ELSE /\ (IF done.ask[1] = "ua" THEN UaState(conf.ls) ELSE RpcState(conf.ls)) = done.ask[2]
         /\ Computed(conf, done.ask).how = "same"

\* Whether a chain's other RPC users are limited to a list: bitcoind's rule.
Limited(ls, c) ==
  LET n == IF c = "main" THEN TopEnd(ls) ELSE Len(ls)
      seen == {ls[i] : i \in 1..n} IN
  IF "default0" \in seen THEN FALSE
  ELSE seen \cap {"wl", "list"} # {}

\* The block that is put in changes nothing for the other RPC users of any chain.
OthersAsBefore ==
  edit # None /\ edit.ask[1] = "rpc" /\ RpcState(edit.was.ls) = "off" =>
    \A c \in {"main", "test"} : Limited(edit.out.ls, c) = Limited(edit.was.ls, c)

\* A kill between ftruncate and the write loses no setting that the file had
\* when NodeSignal first changed it: they are in the file or in the copy.
CopyHasIt ==
  edits = 0 /\ conf # None => had \in {Theirs(f.ls) : f \in {conf, backup} \ {None}}

\* Taking out at once what was just put in restores the file, but for the
\* newline a last line did not have.
RestoresIt ==
  edit # None /\ edit.ask[2] # "off" /\ Computed(edit.was, <<edit.ask[1], "off">>).how = "same" =>
    Computed(edit.out, <<edit.ask[1], "off">>).to.ls = edit.was.ls

\* An edit does what it was asked and nothing else, and loses nothing.
EditsKeep == TheirsKept /\ DoesAsAsked /\ OthersAsBefore /\ CopyHasIt /\ RestoresIt
=============================================================================
