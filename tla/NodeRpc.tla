------------------------------ MODULE NodeRpc -------------------------------
(***************************************************************************)
(* The daemon asks its Bitcoin node over RPC (nodesignald.js): every 30     *)
(* seconds, and when the console asks, one poll of three calls.  A call may *)
(* be answered late, refused, or run into its timeout; the node and its     *)
(* bitcoin.conf change meanwhile.  What a poll brought is what contacts and *)
(* the console are told about the node.                                     *)
(***************************************************************************)
EXTENDS Naturals

CONSTANTS
  Polls,        \* names for polls whose calls may be under way
  MaxHeight,    \* bound: blocks the node connects
  MaxPolls,     \* bound: polls started
  MaxMoves,     \* bound: restarts of the node and edits by the operator
  None

VARIABLES
  node,         \* the node: up, height, port; users it lets in
  files,        \* what a daemon without a login of its own can read
  own,          \* setup gave it a login; setup wrote an address: a port
  diag,         \* rpcDiag.port
  call,         \* the calls of each poll
  pollInFlight, \* the poll the next one waits for
  rpc,          \* what contacts and the console are told: ok, and the height
  polls, moves  \* bounds

vars == <<node, files, own, diag, call, pollInFlight, rpc, polls, moves>>

Methods == {"getnetworkinfo", "getblockchaininfo", "getpeerinfo"}
Ports == {8332, 9000}
\* not made; on its way; answered by the node (the height it had); arrived
Unsent == [st |-> "no", height |-> 0]
Quiet == [m \in Methods |-> Unsent]

TypeOK ==
  /\ node \in [up : BOOLEAN, height : 0..MaxHeight, port : Ports, users : SUBSET {"nodesignal", "rpcuser"}]
  /\ files \in [user : BOOLEAN, port : Ports \cup {None}]
  /\ own \in [login : BOOLEAN, url : Ports \cup {None}]
  /\ diag \in Ports \cup {None}
  /\ \A p \in Polls, m \in Methods : call[p][m].st \in {"no", "sent", "answered", "in"}
  /\ pollInFlight \in Polls \cup {None}
  /\ rpc \in [ok : BOOLEAN, height : 0..MaxHeight]
  /\ polls \in 0..MaxPolls /\ moves \in 0..MaxMoves

Init ==
  /\ node \in [up : {TRUE}, height : {0}, port : Ports, users : {{"rpcuser"}, {"rpcuser", "nodesignal"}}]
  /\ files \in [user : BOOLEAN, port : {node.port}]
  /\ own \in {o \in [login : BOOLEAN, url : {None, node.port}] : o.login \/ o.url = None}
  /\ diag = None
  /\ call = [p \in Polls |-> Quiet]
  /\ pollInFlight = None
  /\ rpc = [ok |-> FALSE, height |-> 0]
  /\ polls = 0 /\ moves = 0

-----------------------------------------------------------------------------
(* rpcAuth: setup's login, else what a readable bitcoin.conf says; its       *)
(* rpcport is noticed only while looking for a login there.                  *)

Auth == IF own.login THEN "nodesignal" ELSE IF files.user THEN "rpcuser" ELSE None
Noticed == IF own.login \/ files.port = None THEN diag ELSE files.port

\* rpcCall: where it goes.  An address in the config is used as it is.
Target == IF own.url # None THEN own.url ELSE IF Noticed # None THEN Noticed ELSE 8332

Idle(p) == \A m \in Methods : call[p][m].st \in {"no", "in"}

\* The poll succeeded, the poll failed.
Shows(h) == rpc' = [ok |-> TRUE, height |-> h]
Fails == rpc' = [rpc EXCEPT !.ok = FALSE]

\* pollRpc: one at a time; pollRpcOnce asks for all three at once.  Without a
\* login nothing is sent and the poll has failed.
PollStarts(p) ==
  /\ pollInFlight = None /\ Idle(p) /\ polls < MaxPolls
  /\ polls' = polls + 1
  /\ diag' = Noticed
  /\ IF Auth = None
     THEN Fails /\ UNCHANGED <<call, pollInFlight>>
     ELSE /\ pollInFlight' = p
          /\ call' = [call EXCEPT ![p] = [m \in Methods |-> [Unsent EXCEPT !.st = "sent"]]]
          /\ UNCHANGED rpc
  /\ UNCHANGED <<node, files, own, moves>>

\* The node answers a call that reached it, with what is true then.
Answers(p, m) ==
  /\ call[p][m].st = "sent"
  /\ node.up /\ node.port = Target /\ Auth \in node.users
  /\ call' = [call EXCEPT ![p][m] = [st |-> "answered",
                  height |-> IF m = "getblockchaininfo" THEN node.height ELSE 0]]
  /\ UNCHANGED <<node, files, own, diag, pollInFlight, rpc, polls, moves>>

\* The answer arrives.  With the third the poll is over and its news shown; the
\* answers of a poll that failed already go nowhere.
Arrives_Each(p, m) ==                                                 \* mutant
  /\ call[p][m].st = "answered"
  /\ call' = [call EXCEPT ![p][m].st = "in"]
  /\ Shows(call[p][m].height)
  /\ pollInFlight' = IF pollInFlight = p THEN None ELSE pollInFlight
  /\ UNCHANGED <<node, files, own, diag, polls, moves>>
Arrives(p, m) ==
  /\ call[p][m].st = "answered"
  /\ call' = [call EXCEPT ![p][m].st = "in"]
  /\ IF \A x \in Methods \ {m} : call[p][x].st = "in"
     THEN /\ Shows(call[p]["getblockchaininfo"].height)
          /\ pollInFlight' = IF pollInFlight = p THEN None ELSE pollInFlight
     ELSE UNCHANGED <<rpc, pollInFlight>>
  /\ UNCHANGED <<node, files, own, diag, polls, moves>>

\* A call fails: refused, login or method rejected, timed out, bad answer.
\* Promise.all: the first failure ends the poll; what is still under way is
\* not called back.
CallFails(p, m) ==
  /\ call[p][m].st \in {"sent", "answered"}
  /\ call' = [call EXCEPT ![p][m] = Unsent]
  /\ IF pollInFlight = p /\ \A x \in Methods : call[p][x].st # "no"
     THEN Fails /\ pollInFlight' = None
     ELSE UNCHANGED <<rpc, pollInFlight>>
  /\ UNCHANGED <<node, files, own, diag, polls, moves>>

\* The node connects a block, stops, or starts again; the operator changes its
\* port, or setup adds a login, which the node reads when it starts.
Block ==
  /\ node.up /\ node.height < MaxHeight
  /\ node' = [node EXCEPT !.height = @ + 1]
  /\ UNCHANGED <<files, own, diag, call, pollInFlight, rpc, polls, moves>>
Moves ==
  /\ moves < MaxMoves /\ moves' = moves + 1
  /\ \/ node' = [node EXCEPT !.up = ~@] /\ UNCHANGED files
     \/ \E q \in Ports : node' = [node EXCEPT !.port = q] /\ files' = [files EXCEPT !.port = q]
     \/ node' = [node EXCEPT !.users = @ \cup {"nodesignal"}] /\ UNCHANGED files
  /\ UNCHANGED <<own, diag, call, pollInFlight, rpc, polls>>

Next ==
  \/ \E p \in Polls : PollStarts(p) \/ \E m \in Methods : Answers(p, m) \/ Arrives(p, m) \/ CallFails(p, m)
  \/ Block \/ Moves

Spec == Init /\ [][Next]_vars
-----------------------------------------------------------------------------
\* What is said about the node never goes back to an older answer: what arrives is
\* shown when all of its poll has, and a slow poll is not overtaken by a later one
\* and shown after it (pollRpc: polls do not pile up behind each other).
NewerNews == rpc'.ok => rpc'.height >= rpc.height
NoOlderNews == [][NewerNews]_vars
-----------------------------------------------------------------------------
(* What NewerNews rests on.                                                 *)

Shapes ==
  /\ node \in [up : BOOLEAN, height : Nat, port : Ports, users : SUBSET {"nodesignal", "rpcuser"}]
  /\ call \in [Polls -> [Methods -> [st : {"no", "sent", "answered", "in"}, height : Nat]]]
  /\ pollInFlight \in Polls \cup {None}
  /\ rpc \in [ok : BOOLEAN, height : Nat]

\* Only the poll that is waited for can still bring its third answer, and what
\* it has brought is no older than what is shown.
OneAtATime ==
  /\ rpc.height <= node.height
  /\ \A p \in Polls, m \in Methods : call[p][m].height <= node.height
  /\ \A p \in Polls : p # pollInFlight =>
       (\E m \in Methods : call[p][m].st = "no") \/ \A m \in Methods : call[p][m].st = "in"
  /\ \A p \in Polls : p = pollInFlight =>
       /\ \A m \in Methods : call[p][m].st # "no"
       /\ call[p]["getblockchaininfo"].st # "sent" => call[p]["getblockchaininfo"].height >= rpc.height

NewsInv == Shapes /\ OneAtATime
=============================================================================
