-------------------------------- MODULE Noise --------------------------------
(***************************************************************************)
(* Handshake and session of noise.js: standard Noise XX (version 3) and     *)
(* the handshake of release 1.2 (version 2), each three messages, then      *)
(* numbered frames both ways.  Keys are names; a DH value is the set of the *)
(* two names, a chained or derived key the sequence of what was mixed into  *)
(* it, a hash the sequence of what was hashed, and a sealed text the record *)
(* of its key, number, associated data and contents: it opens under exactly *)
(* those.  The line is not trusted: whatever was written on any line may    *)
(* arrive on any other, in any order, again and again, or not at all, and   *)
(* so may what nobody wrote.                                                *)
(***************************************************************************)
EXTENDS Naturals, Sequences

CONSTANTS
  Callers, Answerers,   \* the ends of the lines, one handshake each
  Key(_),               \* the static key of an end, a name in a tuple
  MaxFrames,            \* bound: frames an end sends
  None

VARIABLES
  end,      \* each end's handshake state and session
  wire      \* everything written so far

vars == <<end, wire>>

Ends == Callers \cup Answerers
\* A socket is dialled or accepted: its end has one role in its one handshake.
RolesApart == Callers \cap Answerers = {}
Junk == [v |-> 0]

DH(a, b) == {a, b}
Sealed(k, n, ad, pt) == [k |-> k, n |-> n, ad |-> ad, pt |-> pt]
\* DECRYPT, open: the tag matches the key, the number and the data.
Opens(c, k, n, ad) == c.k = k /\ c.n = n /\ c.ad = ad

\* The ephemeral key of an end, made when its handshake starts.
Eph(x) == <<x>>

Idle == [st |-> "off", v |-> 0, re |-> None, rs |-> None, ck |-> <<>>, h |-> <<>>,
         tx |-> None, rx |-> None, sent |-> 0, got |-> <<>>]

TypeOK ==
  /\ \A x \in Ends : /\ end[x].st \in {"off", "one", "two", "up", "failed"}
                     /\ end[x].v \in {0, 2, 3} /\ end[x].sent \in 0..MaxFrames
                     /\ Len(end[x].got) <= MaxFrames
                     /\ end[x].st = "up" => end[x].rs # None
Init == end = [x \in Ends |-> Idle] /\ wire = {}

-----------------------------------------------------------------------------
(* The chain of keys.  Both versions mix ee, then es, then se, and seal the  *)
(* answerer's static key after ee and the caller's after es; version 3 also *)
(* seals an empty payload under the newest key and hashes everything.       *)

\* Version 3 starts from the protocol's name and the prologue, 2 from another.
Chain(v, dhs) == <<v>> \o dhs
DHs(ei, er, si, sr) == <<DH(ei, er), DH(ei, sr), DH(si, er)>>

\* What the static key and the payload of message 2 are sealed with.
Two(v, ei, er, sr) ==
  LET d == <<DH(ei, er), DH(ei, sr)>>
      s == Sealed(Chain(v, <<d[1]>>), 0, IF v = 3 THEN <<ei, er>> ELSE <<ei>>, sr)
  IN  [v |-> v, no |-> 2, e |-> er, s |-> s,
       p |-> IF v = 3 THEN Sealed(Chain(v, d), 0, <<ei, er, s>>, None) ELSE None]

\* The same for message 3; version 3 goes on numbering under its second key.
Three(v, ei, er, si, sr) ==
  LET d == DHs(ei, er, si, sr)   m == Two(v, ei, er, sr)
      h == <<ei, er, m.s, m.p>>
      s == Sealed(Chain(v, SubSeq(d, 1, 2)), IF v = 3 THEN 1 ELSE 0, IF v = 3 THEN h ELSE <<er>>, si)
  IN  [v |-> v, no |-> 3, s |-> s,
       p |-> IF v = 3 THEN Sealed(Chain(v, d), 0, h \o <<s>>, None) ELSE None]

\* split(): the caller sends with the first key, the answerer with the second.
Split_Same(x, ck) == [tx |-> <<ck, 1>>, rx |-> <<ck, 1>>]             \* mutant
Split(x, ck) == IF x \in Callers THEN [tx |-> <<ck, 1>>, rx |-> <<ck, 2>>]
                                 ELSE [tx |-> <<ck, 2>>, rx |-> <<ck, 1>>]

Up(x, v, re, rs, ck) ==
  [end[x] EXCEPT !.st = "up", !.v = v, !.re = re, !.rs = rs, !.ck = ck,
                 !.tx = Split(x, ck).tx, !.rx = Split(x, ck).rx]

\* An error closes the line for good.
Failed(x) == end' = [end EXCEPT ![x].st = "failed"] /\ UNCHANGED wire

-----------------------------------------------------------------------------
(* The messages.                                                            *)

\* initStart: the first message is the ephemeral key; its length says which
\* version it is.
InitStart(x, v) ==
  /\ x \in Callers /\ end[x].st = "off"
  /\ end' = [end EXCEPT ![x].st = "one", ![x].v = v]
  /\ wire' = wire \cup {[v |-> v, no |-> 1, e |-> Eph(x)]}

\* respond: one message in, one out.
IsOne(m) == m.v # 0 /\ m.no = 1
Respond(x, m) ==
  /\ x \in Answerers /\ end[x].st = "off"
  /\ IF IsOne(m)
     THEN /\ end' = [end EXCEPT ![x].st = "two", ![x].v = m.v, ![x].re = m.e]
          /\ wire' = wire \cup {Two(m.v, m.e, Eph(x), Key(x))}
     ELSE Failed(x)

\* initFinish: message 2 must be an answer to our message 1, and only its
\* owner can have sealed the key in it.
ReadsTwo(x, m) ==
  /\ m.v = end[x].v /\ m.no = 2
  /\ LET want == Two(m.v, Eph(x), m.e, m.s.pt)
     IN  /\ Opens(m.s, want.s.k, want.s.n, want.s.ad)
         /\ m.v = 3 => Opens(m.p, want.p.k, want.p.n, want.p.ad)
InitFinish(x, m) ==
  /\ x \in Callers /\ end[x].st = "one"
  /\ IF ReadsTwo(x, m)
     THEN /\ end' = [end EXCEPT ![x] = Up(x, m.v, m.e, m.s.pt,
                       Chain(m.v, DHs(Eph(x), m.e, Key(x), m.s.pt)))]
          /\ wire' = wire \cup {Three(m.v, Eph(x), m.e, Key(x), m.s.pt)}
     ELSE Failed(x)

\* finish: message 3, in turn; it names the caller's key and proves it.
ReadsThree(x, m) ==
  /\ m.v = end[x].v /\ m.no = 3
  /\ LET want == Three(m.v, end[x].re, Eph(x), m.s.pt, Key(x))
     IN  /\ Opens(m.s, want.s.k, want.s.n, want.s.ad)
         /\ m.v = 3 => Opens(m.p, want.p.k, want.p.n, want.p.ad)
Finish(x, m) ==
  /\ x \in Answerers /\ end[x].st = "two"
  /\ IF ReadsThree(x, m)
     THEN /\ end' = [end EXCEPT ![x] = Up(x, m.v, @.re, m.s.pt,
                       Chain(m.v, DHs(@.re, Eph(x), m.s.pt, Key(x))))]
          /\ UNCHANGED wire
     ELSE Failed(x)

\* encrypt: frames are numbered from 0 in each direction.
Encrypt(x) ==
  /\ end[x].st = "up" /\ end[x].sent < MaxFrames
  /\ end' = [end EXCEPT ![x].sent = @ + 1]
  /\ wire' = wire \cup {[v |-> 1, no |-> 4, s |-> Sealed(end[x].tx, end[x].sent, <<>>, <<x, end[x].sent>>)]}

\* decrypt: the next number, under the other's key; anything else ends the link.
Decrypt(x, m) ==
  /\ end[x].st = "up"
  /\ IF m.v = 1 /\ Opens(m.s, end[x].rx, Len(end[x].got), <<>>)
     THEN end' = [end EXCEPT ![x].got = Append(@, m.s.pt)] /\ UNCHANGED wire
     ELSE Failed(x)

Next ==
  \/ \E x \in Callers, v \in {2, 3} : InitStart(x, v)
  \/ \E x \in Ends, m \in wire \cup {Junk} :
       \/ Respond(x, m) \/ InitFinish(x, m) \/ Finish(x, m) \/ Decrypt(x, m)
  \/ \E x \in Ends : Encrypt(x)

Spec == Init /\ [][Next]_vars
-----------------------------------------------------------------------------
\* What an end that finished has at the other side: an end that holds the
\* static key it was told, in the other role and of the same version, and that
\* did this handshake with it.
Partner(x, y) ==
  /\ y \in (IF x \in Callers THEN Answerers ELSE Callers) /\ Key(y) = end[x].rs
  /\ end[y].v = end[x].v /\ end[x].re = Eph(y)
  /\ end[y].st \in {"two", "up"} => end[y].re = Eph(x)
  /\ end[y].st = "up" => end[y].rs = Key(x) /\ end[y].tx = end[x].rx /\ end[y].rx = end[x].tx

\* Whoever finished a handshake has the one whose key it was told at the other
\* end, and what it opens is what that one sealed, in that order, nothing
\* twice and nothing left out in between: whatever is passed on, held back,
\* repeated or sent back by what lies between them (noise.js: makeSessionV3,
\* makeSession; the link rule of nodesignald.js openLink).
SessionIsTheirs ==
  \A x \in Ends : end[x].st = "up" =>
    \E y \in Ends : /\ Partner(x, y)
                    /\ end[x].got = [i \in 1..Len(end[x].got) |-> <<y, i - 1>>]
                    /\ Len(end[x].got) <= end[y].sent
=============================================================================
