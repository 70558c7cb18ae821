---------------------------- MODULE NoiseProofs -----------------------------
(***************************************************************************)
(* Proofs about Noise: for any ends, any static keys, shared or not, and   *)
(* any number of frames, no two ends need trust the line between them.     *)
(***************************************************************************)
EXTENDS Noise, TLAPS

-----------------------------------------------------------------------------
(* What is read off the messages and the chained keys.                     *)

\* A chained key tells the first DH that was mixed into it.
LEMMA ChainTells ==
  ASSUME NEW v, NEW w, NEW a, NEW b, NEW c, NEW d, NEW e, NEW f,
         Chain(v, <<a, b, c>>) = Chain(w, <<d, e, f>>)
  PROVE  a = d
<1>1. Chain(v, <<a, b, c>>)[2] = a /\ Chain(w, <<d, e, f>>)[2] = d
  BY DEF Chain
<1>2. QED
  BY <1>1

\* The data its static key is sealed with tell what message 2 answers, and
\* what message 3.
LEMMA TwoTells ==
  ASSUME NEW v, NEW ei, NEW er, NEW sr, NEW di, NEW dr, NEW tr,
         Two(v, ei, er, sr).s.ad = Two(v, di, dr, tr).s.ad
  PROVE  ei = di
<1>1. CASE v = 3
  <2>1. <<ei, er>> = <<di, dr>>
    BY <1>1 DEF Two, Sealed
  <2>2. QED
    BY <2>1
<1>2. CASE v # 3
  <2>1. <<ei>> = <<di>>
    BY <1>2 DEF Two, Sealed
  <2>2. QED
    BY <2>1
<1>3. QED
  BY <1>1, <1>2

LEMMA ThreeTells ==
  ASSUME NEW v, NEW ei, NEW er, NEW si, NEW sr, NEW di, NEW dr, NEW ti, NEW tr,
         Three(v, ei, er, si, sr).s.ad = Three(v, di, dr, ti, tr).s.ad
  PROVE  er = dr
<1>1. CASE v = 3
  <2>1. <<ei, er, Two(v, ei, er, sr).s, Two(v, ei, er, sr).p>> = <<di, dr, Two(v, di, dr, tr).s, Two(v, di, dr, tr).p>>
    BY <1>1 DEF Three, Sealed
  <2>2. QED
    BY <2>1
<1>2. CASE v # 3
  <2>1. <<er>> = <<dr>>
    BY <1>2 DEF Three, Sealed
  <2>2. QED
    BY <2>1
<1>3. QED
  BY <1>1, <1>2

LEMMA EphDiffer == \A x, y : Eph(x) = Eph(y) => x = y
  BY DEF Eph

-----------------------------------------------------------------------------
(* The invariant.                                                          *)

\* Caller x finished its handshake with answerer y, who had answered it.
ChainOf(x, y) == Chain(end[x].v, DHs(Eph(x), Eph(y), Key(x), Key(y)))
Called(x, y) ==
  /\ end[x].st \in {"up", "failed"} /\ end[y].st \in {"two", "up", "failed"}
  /\ end[x].v \in {2, 3} /\ end[y].v = end[x].v
  /\ end[x].re = Eph(y) /\ end[x].rs = Key(y) /\ end[y].re = Eph(x)
  /\ end[x].tx = <<ChainOf(x, y), 1>> /\ end[x].rx = <<ChainOf(x, y), 2>>

\* ... and y finished it with x.
Agreed(x, y) ==
  /\ Called(x, y) /\ end[y].st \in {"up", "failed"}
  /\ end[y].rs = Key(x)
  /\ end[y].tx = <<ChainOf(x, y), 2>> /\ end[y].rx = <<ChainOf(x, y), 1>>

\* What x opened is what y sealed.
Opened(x, y) ==
  /\ end[x].got = [i \in 1..Len(end[x].got) |-> <<y, i - 1>>]
  /\ Len(end[x].got) <= end[y].sent

\* Who wrote a message, and what made it.
IsFirst(m)  == \E x \in Callers :
                 /\ end[x].st # "off" /\ end[x].v \in {2, 3}
                 /\ m = [v |-> end[x].v, no |-> 1, e |-> Eph(x)]
IsSecond(m) == \E y \in Answerers :
                 /\ end[y].st \in {"two", "up", "failed"} /\ end[y].v \in {2, 3}
                 /\ m = Two(end[y].v, end[y].re, Eph(y), Key(y))
IsThird(m)  == \E x \in Callers, y \in Answerers :
                 /\ Called(x, y)
                 /\ m = Three(end[x].v, Eph(x), Eph(y), Key(x), Key(y))
Frame(z, n) == [v |-> 1, no |-> 4, s |-> Sealed(end[z].tx, n, <<>>, <<z, n>>)]
IsFrame(m)  == \E x \in Callers, y \in Answerers, n \in Nat :
                 \/ Called(x, y) /\ n < end[x].sent /\ m = Frame(x, n)
                 \/ Agreed(x, y) /\ n < end[y].sent /\ m = Frame(y, n)
Written(m)  == IsFirst(m) \/ IsSecond(m) \/ IsThird(m) \/ IsFrame(m)

EndTyped(s) ==
  /\ s = [st |-> s.st, v |-> s.v, re |-> s.re, rs |-> s.rs, ck |-> s.ck, h |-> s.h,
          tx |-> s.tx, rx |-> s.rx, sent |-> s.sent, got |-> s.got]
  /\ s.st \in {"off", "one", "two", "up", "failed"}
  /\ s.sent \in Nat /\ s.got \in Seq(Ends \X Nat)
  /\ s.st \in {"off", "one", "two"} => s.got = <<>>

\* What one end knows of the other.
Own(x) ==
  /\ x \in Callers => /\ end[x].st # "two"
                      /\ end[x].st = "one" => end[x].v \in {2, 3}
                      /\ end[x].st = "up" => \E y \in Answerers : Called(x, y) /\ Opened(x, y)
  /\ x \in Answerers => /\ end[x].st # "one"
                        /\ end[x].st = "two" => /\ end[x].v \in {2, 3}
                                                /\ \E y \in Callers : end[x].re = Eph(y)
                        /\ end[x].st = "up" => \E y \in Callers : Agreed(y, x) /\ Opened(x, y)

Inv ==
  /\ end = [x \in Ends |-> end[x]]
  /\ \A x \in Ends : EndTyped(end[x]) /\ Own(x)
  /\ \A m \in wire : Written(m)

-----------------------------------------------------------------------------
(* What an end settled stays.                                              *)

Later(s, e) ==
  /\ s.st # "off" => e.st # "off" /\ e.v = s.v
  /\ s.st \in {"two", "up", "failed"} => e.st \in {"two", "up", "failed"} /\ e.re = s.re
  /\ s.st \in {"up", "failed"} => /\ e.st \in {"up", "failed"}
                                  /\ e.rs = s.rs /\ e.tx = s.tx /\ e.rx = s.rx
  /\ s.sent <= e.sent

LEMMA Stays ==
  ASSUME \A z \in Ends : Later(end[z], end'[z]), \A z \in Ends : end[z].sent \in Nat /\ end'[z].sent \in Nat
  PROVE  /\ \A x \in Callers, y \in Answerers : Called(x, y) => Called(x, y)'
         /\ \A x \in Callers, y \in Answerers : Agreed(x, y) => Agreed(x, y)'
         /\ \A m : Written(m) => Written(m)'
<1> USE DEF Ends
<1>1. ASSUME NEW x \in Callers, NEW y \in Answerers, Called(x, y) PROVE Called(x, y)'
  BY <1>1 DEF Called, Later, ChainOf
<1>2. ASSUME NEW x \in Callers, NEW y \in Answerers, Agreed(x, y) PROVE Agreed(x, y)'
  <2>1. Called(x, y) /\ Called(x, y)' /\ ChainOf(x, y)' = ChainOf(x, y)
    BY <1>1, <1>2 DEF Agreed, Called, Later, ChainOf
  <2>2. QED
    BY <1>2, <2>1 DEF Agreed, Later
<1>3. ASSUME NEW m, IsFirst(m) PROVE IsFirst(m)'
  BY <1>3 DEF IsFirst, Later
<1>4. ASSUME NEW m, IsSecond(m) PROVE IsSecond(m)'
  <2>1. PICK y \in Answerers : /\ end[y].st \in {"two", "up", "failed"} /\ end[y].v \in {2, 3}
                               /\ m = Two(end[y].v, end[y].re, Eph(y), Key(y))
    BY <1>4 DEF IsSecond
  <2>2. end'[y].v = end[y].v /\ end'[y].re = end[y].re /\ end'[y].st \in {"two", "up", "failed"}
    BY <2>1 DEF Later
  <2>3. QED
    BY <2>1, <2>2 DEF IsSecond
<1>5. ASSUME NEW m, IsThird(m) PROVE IsThird(m)'
  <2>1. PICK x \in Callers, y \in Answerers :
          Called(x, y) /\ m = Three(end[x].v, Eph(x), Eph(y), Key(x), Key(y))
    BY <1>5 DEF IsThird
  <2>2. Called(x, y)' /\ end'[x].v = end[x].v
    BY <1>1, <2>1 DEF Called, Later
  <2>3. QED
    BY <2>1, <2>2 DEF IsThird
<1>6. ASSUME NEW m, IsFrame(m) PROVE IsFrame(m)'
  <2>1. PICK x \in Callers, y \in Answerers, n \in Nat :
          \/ Called(x, y) /\ n < end[x].sent /\ m = Frame(x, n)
          \/ Agreed(x, y) /\ n < end[y].sent /\ m = Frame(y, n)
    BY <1>6 DEF IsFrame
  <2>2. CASE Called(x, y) /\ n < end[x].sent /\ m = Frame(x, n)
    <3>1. Called(x, y)' /\ end'[x].tx = end[x].tx /\ n < end'[x].sent
      BY <1>1, <2>2 DEF Called, Later
    <3>2. Frame(x, n)' = Frame(x, n)
      BY <3>1 DEF Frame
    <3>3. QED
      BY <2>2, <3>1, <3>2 DEF IsFrame
  <2>3. CASE Agreed(x, y) /\ n < end[y].sent /\ m = Frame(y, n)
    <3>1. Agreed(x, y)' /\ end'[y].tx = end[y].tx /\ n < end'[y].sent
      BY <1>2, <2>3 DEF Agreed, Later
    <3>2. Frame(y, n)' = Frame(y, n)
      BY <3>1 DEF Frame
    <3>3. QED
      BY <2>3, <3>1, <3>2 DEF IsFrame
  <2>4. QED
    BY <2>1, <2>2, <2>3
<1>7. QED
  BY <1>1, <1>2, <1>3, <1>4, <1>5, <1>6 DEF Written

\* It is enough to look at the end that takes the step, and at what it writes.
LEMMA OneEnd ==
  ASSUME Inv, NEW x \in Ends, NEW e, end' = [end EXCEPT ![x] = e],
         EndTyped(e), Later(end[x], e), Own(x)', \A m \in wire' \ wire : Written(m)'
  PROVE  Inv'
<1>1. end'[x] = e /\ (\A z \in Ends : z # x => end'[z] = end[z]) /\ end' = [z \in Ends |-> end'[z]]
  BY DEF Inv
<1>2. \A z \in Ends : EndTyped(end'[z]) /\ EndTyped(end[z])
  BY <1>1 DEF Inv
<1>s. \A z \in Ends : end[z].sent \in Nat /\ end'[z].sent \in Nat
  BY <1>2 DEF EndTyped
<1>3. ASSUME NEW z \in Ends PROVE Later(end[z], end'[z])
  <2>1. CASE z = x
    BY <1>1, <2>1
  <2>2. CASE z # x
    BY <1>1, <1>s, <2>2 DEF Later
  <2>3. QED
    BY <2>1, <2>2
<1>4. /\ \A y \in Callers, z \in Answerers : Called(y, z) => Called(y, z)'
      /\ \A y \in Callers, z \in Answerers : Agreed(y, z) => Agreed(y, z)'
      /\ \A m : Written(m) => Written(m)'
  BY <1>s, <1>3, Stays
<1>5. ASSUME NEW z \in Ends, z # x PROVE Own(z)'
  <2>1. Own(z) /\ end'[z] = end[z]
    BY <1>1, <1>5 DEF Inv
  <2>2. \A y \in Ends : Opened(z, y) => Opened(z, y)'
    <3>1. Len(end[z].got) \in Nat
      BY <1>2 DEF EndTyped
    <3>2. \A y \in Ends : end[y].sent \in Nat /\ end'[y].sent \in Nat /\ end[y].sent <= end'[y].sent
      BY <1>s, <1>3 DEF Later
    <3>3. ASSUME NEW y \in Ends, Opened(z, y) PROVE Opened(z, y)'
      <4>1. end'[z].got = end[z].got /\ Len(end'[z].got) <= end'[y].sent
        BY <2>1, <3>1, <3>2, <3>3 DEF Opened
      <4>2. end'[z].got = [i \in 1..Len(end'[z].got) |-> <<y, i - 1>>]
        BY <3>3, <4>1 DEF Opened
      <4>3. QED
        BY <4>1, <4>2 DEF Opened
    <3>4. QED
      BY <3>3
  <2>3. QED
    BY <1>4, <2>1, <2>2 DEF Own, Ends
<1>6. \A m \in wire' : Written(m)'
  BY <1>4 DEF Inv
<1>7. QED
  BY <1>1, <1>2, <1>5, <1>6 DEF Inv

-----------------------------------------------------------------------------
(* The steps.                                                              *)

LEMMA TypedEnd ==
  ASSUME Inv, NEW x \in Ends
  PROVE  EndTyped(end[x]) /\ Own(x) /\ end' = end' /\ Later(end[x], end[x])
  BY DEF Inv, EndTyped, Later

\* A stage reached, a field set.
Same(s, e, but) ==
  /\ but # "st" => e.st = s.st
  /\ but # "v" => e.v = s.v
  /\ but # "re" => e.re = s.re
  /\ e.rs = s.rs /\ e.tx = s.tx /\ e.rx = s.rx
  /\ but # "sent" => e.sent = s.sent
  /\ but # "got" => e.got = s.got

LEMMA SetStage ==
  ASSUME NEW s, EndTyped(s), NEW st \in {"one", "two", "up", "failed"},
         st \in {"one", "two"} => s.got = <<>>
  PROVE  /\ EndTyped([s EXCEPT !.st = st]) /\ [s EXCEPT !.st = st].st = st
         /\ Same(s, [s EXCEPT !.st = st], "st")
  BY DEF EndTyped, Same

LEMMA SetVersion ==
  ASSUME NEW s, EndTyped(s), NEW u, NEW e, e = [s EXCEPT !.v = u]
  PROVE  EndTyped(e) /\ e.v = u /\ Same(s, e, "v")
<1>1. /\ e.st = s.st /\ e.v = u /\ e.re = s.re /\ e.rs = s.rs
      /\ e.tx = s.tx /\ e.rx = s.rx /\ e.sent = s.sent /\ e.got = s.got
  BY DEF EndTyped
<1>2. EndTyped(e)
  BY <1>1 DEF EndTyped
<1>3. QED
  BY <1>1, <1>2 DEF Same

LEMMA SetRemote ==
  ASSUME NEW s, EndTyped(s), NEW u, NEW e, e = [s EXCEPT !.re = u]
  PROVE  EndTyped(e) /\ e.re = u /\ Same(s, e, "re")
<1>1. /\ e.st = s.st /\ e.v = s.v /\ e.re = u /\ e.rs = s.rs
      /\ e.tx = s.tx /\ e.rx = s.rx /\ e.sent = s.sent /\ e.got = s.got
  BY DEF EndTyped
<1>2. EndTyped(e)
  BY <1>1 DEF EndTyped
<1>3. QED
  BY <1>1, <1>2 DEF Same

LEMMA FailedStep ==
  ASSUME Inv, NEW x \in Ends, end[x].st \in {"off", "one", "up"} \/ end[x].st = "two", Failed(x)
  PROVE  Inv'
<1> DEFINE e == [end[x] EXCEPT !.st = "failed"]
<1>1. end' = [end EXCEPT ![x] = e] /\ wire' = wire
  BY DEF Failed
<1>2. EndTyped(end[x])
  BY DEF Inv
<1>3. e.st = "failed" /\ Same(end[x], e, "st") /\ EndTyped(e)
  BY <1>2, SetStage
<1> HIDE DEF e
<1>4. Later(end[x], e)
  BY <1>2, <1>3 DEF Later, EndTyped, Same
<1>5. end'[x] = e
  BY <1>1 DEF Inv
<1>6. end'[x].st = "failed"
  BY <1>3, <1>5
<1>7. Own(x)'
  BY <1>6 DEF Own
<1>8. QED
  BY <1>1, <1>3, <1>4, <1>7, OneEnd

LEMMA InitStartStep ==
  ASSUME Inv, NEW x \in Callers, NEW v \in {2, 3}, RolesApart, InitStart(x, v)
  PROVE  Inv'
<1> DEFINE d == [end[x] EXCEPT !.st = "one"]
           e == [d EXCEPT !.v = v]
<1>1. /\ end' = [end EXCEPT ![x] = e] /\ end[x].st = "off"
      /\ wire' = wire \cup {[v |-> v, no |-> 1, e |-> Eph(x)]}
  BY DEF InitStart, Inv
<1>2. EndTyped(end[x]) /\ x \in Ends
  BY DEF Inv, Ends
<1>d. EndTyped(d) /\ d.st = "one" /\ d.sent = end[x].sent
  BY <1>1, <1>2, SetStage DEF EndTyped, Same
<1> HIDE DEF d
<1>3. e.st = "one" /\ e.v = v /\ e.sent = end[x].sent /\ EndTyped(e)
  BY <1>d, SetVersion DEF Same
<1> HIDE DEF e
<1>4. Later(end[x], e)
  BY <1>1, <1>2, <1>3 DEF Later, EndTyped
<1>5. end'[x] = e
  BY <1>1, <1>2 DEF Inv
<1>6. Own(x)'
  BY <1>3, <1>5 DEF Own, RolesApart
<1>7. \A m \in wire' \ wire : IsFirst(m)'
  BY <1>1, <1>3, <1>5 DEF IsFirst
<1>8. QED
  BY <1>1, <1>2, <1>3, <1>4, <1>6, <1>7, OneEnd DEF Written

\* Messages by their numbers: a first one is a caller's, and so on.
LEMMA Kinds ==
  ASSUME Inv, NEW m \in wire
  PROVE  /\ IsOne(m) => IsFirst(m)
         /\ m.no = 2 => IsSecond(m)
         /\ m.no = 3 => IsThird(m)
         /\ m.v = 1 => IsFrame(m)
<1>1. IsFirst(m) => m.no = 1 /\ m.v \in {2, 3}
  BY DEF IsFirst
<1>2. ASSUME IsSecond(m) PROVE m.no = 2 /\ m.v \in {2, 3}
  <2>1. PICK y \in Answerers : end[y].v \in {2, 3} /\ m = Two(end[y].v, end[y].re, Eph(y), Key(y))
    BY <1>2 DEF IsSecond
  <2>2. QED
    BY <2>1 DEF Two
<1>3. ASSUME IsThird(m) PROVE m.no = 3 /\ m.v \in {2, 3}
  <2>1. PICK x \in Callers, y \in Answerers :
          end[x].v \in {2, 3} /\ m = Three(end[x].v, Eph(x), Eph(y), Key(x), Key(y))
    BY <1>3 DEF IsThird, Called
  <2>2. QED
    BY <2>1 DEF Three
<1>4. IsFrame(m) => m.no = 4 /\ m.v = 1
  BY DEF IsFrame, Frame
<1>5. Written(m)
  BY DEF Inv
<1>6. QED
  BY <1>1, <1>2, <1>3, <1>4, <1>5 DEF Written, IsOne

LEMMA RespondStep ==
  ASSUME Inv, NEW x \in Ends, NEW m \in wire \cup {Junk}, RolesApart, Respond(x, m)
  PROVE  Inv'
<1>1. CASE ~IsOne(m)
  BY <1>1, FailedStep DEF Respond
<1>2. CASE IsOne(m)
  <2> DEFINE c == [end[x] EXCEPT !.st = "two"]
             d == [c EXCEPT !.v = m.v]
             e == [d EXCEPT !.re = m.e]
  <2>1. /\ end' = [end EXCEPT ![x] = e] /\ end[x].st = "off" /\ x \in Answerers
        /\ wire' = wire \cup {Two(m.v, m.e, Eph(x), Key(x))}
    BY <1>2 DEF Respond, Inv
  <2>2. EndTyped(end[x])
    BY DEF Inv
  <2>c. EndTyped(c) /\ c.st = "two" /\ c.sent = end[x].sent
    BY <2>1, <2>2, SetStage DEF EndTyped, Same
  <2> HIDE DEF c
  <2>d. EndTyped(d) /\ d.st = "two" /\ d.v = m.v /\ d.sent = end[x].sent
    BY <2>c, SetVersion DEF Same
  <2> HIDE DEF d
  <2>3. /\ e.st = "two" /\ e.v = m.v /\ e.re = m.e /\ e.sent = end[x].sent
        /\ EndTyped(e)
    BY <2>d, SetRemote DEF Same
  <2>4. m.v \in {2, 3} /\ \E y \in Callers : m.e = Eph(y)
    <3>1. m \in wire
      BY <1>2 DEF IsOne, Junk
    <3>2. IsFirst(m)
      BY <1>2, <3>1, Kinds
    <3>3. QED
      BY <3>2 DEF IsFirst
  <2> HIDE DEF e
  <2>5. Later(end[x], e)
    BY <2>1, <2>2, <2>3 DEF Later, EndTyped
  <2>6. end'[x] = e
    BY <2>1 DEF Inv
  <2>7. Own(x)'
    BY <2>1, <2>3, <2>4, <2>6 DEF Own, RolesApart
  <2>8. \A n \in wire' \ wire : IsSecond(n)'
    BY <2>1, <2>3, <2>4, <2>6 DEF IsSecond
  <2>9. QED
    BY <2>1, <2>3, <2>5, <2>7, <2>8, OneEnd DEF Written
<1>3. QED
  BY <1>1, <1>2

LEMMA UpIs ==
  ASSUME NEW x, EndTyped(end[x]), NEW v, NEW re, NEW rs, NEW ck, NEW e, e = Up(x, v, re, rs, ck)
  PROVE  /\ EndTyped(e) /\ e.st = "up" /\ e.v = v /\ e.re = re /\ e.rs = rs
         /\ e.tx = Split(x, ck).tx /\ e.rx = Split(x, ck).rx
         /\ e.sent = end[x].sent /\ e.got = end[x].got
<1>1. /\ e.st = "up" /\ e.v = v /\ e.re = re /\ e.rs = rs /\ e.ck = ck /\ e.h = end[x].h
      /\ e.tx = Split(x, ck).tx /\ e.rx = Split(x, ck).rx
      /\ e.sent = end[x].sent /\ e.got = end[x].got
  BY DEF EndTyped, Up
<1>2. e = [st |-> e.st, v |-> e.v, re |-> e.re, rs |-> e.rs, ck |-> e.ck, h |-> e.h,
           tx |-> e.tx, rx |-> e.rx, sent |-> e.sent, got |-> e.got]
  BY DEF EndTyped, Up
<1>3. EndTyped(e)
  BY <1>1, <1>2 DEF EndTyped
<1>4. QED
  BY <1>1, <1>3

LEMMA InitFinishStep ==
  ASSUME Inv, NEW x \in Ends, NEW m \in wire \cup {Junk}, RolesApart, InitFinish(x, m)
  PROVE  Inv'
<1>1. CASE ~ReadsTwo(x, m)
  BY <1>1, FailedStep DEF InitFinish
<1>2. CASE ReadsTwo(x, m)
  <2>1. /\ x \in Callers /\ x \notin Answerers /\ end[x].st = "one" /\ end[x].v \in {2, 3}
        /\ EndTyped(end[x]) /\ end[x].got = <<>>
    BY DEF RolesApart, InitFinish, Inv, Own, EndTyped
  <2>2. m \in wire /\ m.v = end[x].v /\ m.no = 2
    BY <1>2, <2>1 DEF ReadsTwo, Junk
  <2>3. PICK y \in Answerers : /\ end[y].st \in {"two", "up", "failed"} /\ end[y].v \in {2, 3}
                               /\ m = Two(end[y].v, end[y].re, Eph(y), Key(y))
    BY <2>2, Kinds DEF IsSecond
  <2>4. m.v = end[y].v /\ m.e = Eph(y) /\ m.s.pt = Key(y)
    BY <2>3 DEF Two, Sealed
  <2>5. end[y].re = Eph(x)
    <3>1. Two(m.v, end[y].re, Eph(y), Key(y)).s.ad = Two(m.v, Eph(x), Eph(y), Key(y)).s.ad
      BY <1>2, <2>3, <2>4 DEF ReadsTwo, Opens
    <3>2. QED
      BY <3>1, TwoTells
  <2> DEFINE ck == Chain(m.v, DHs(Eph(x), Eph(y), Key(x), Key(y)))
             e == Up(x, m.v, Eph(y), Key(y), ck)
  <2>6. /\ end' = [end EXCEPT ![x] = e]
        /\ wire' = wire \cup {Three(m.v, Eph(x), Eph(y), Key(x), Key(y))}
    BY <1>2, <2>4 DEF InitFinish
  <2>7. /\ EndTyped(e) /\ e.st = "up" /\ e.v = m.v /\ e.re = Eph(y) /\ e.rs = Key(y)
        /\ e.tx = <<ck, 1>> /\ e.rx = <<ck, 2>> /\ e.sent = end[x].sent /\ e.got = <<>>
    <3> HIDE DEF ck
    <3>1. /\ EndTyped(e) /\ e.st = "up" /\ e.v = m.v /\ e.re = Eph(y) /\ e.rs = Key(y)
          /\ e.tx = Split(x, ck).tx /\ e.rx = Split(x, ck).rx
          /\ e.sent = end[x].sent /\ e.got = end[x].got
      BY <2>1, UpIs
    <3> HIDE DEF e
    <3>2. QED
      BY <2>1, <3>1 DEF Split
  <2> HIDE DEF e
  <2>8. end'[x] = e /\ end'[y] = end[y] /\ y \in Ends
    BY <2>1, <2>6 DEF Inv, Ends
  <2>9. Called(x, y)'
    BY <2>2, <2>3, <2>4, <2>5, <2>7, <2>8 DEF Called, ChainOf
  <2>10. Opened(x, y)'
    <3>1. end[y].sent \in Nat
      BY <2>8 DEF Inv, EndTyped
    <3>2. end'[x].got = <<>> /\ Len(end'[x].got) = 0 /\ end'[y].sent \in Nat
      BY <2>7, <2>8, <3>1
    <3>3. QED
      BY <3>2 DEF Opened
  <2>11. Own(x)'
    BY <2>1, <2>7, <2>8, <2>9, <2>10 DEF Own
  <2>12. Later(end[x], e)
    BY <2>1, <2>2, <2>7 DEF Later, EndTyped
  <2>13. \A n \in wire' \ wire : IsThird(n)'
    BY <2>1, <2>6, <2>7, <2>8, <2>9 DEF IsThird
  <2>14. QED
    BY <2>6, <2>7, <2>11, <2>12, <2>13, OneEnd DEF Written
<1>3. QED
  BY <1>1, <1>2

LEMMA FinishStep ==
  ASSUME Inv, NEW y \in Ends, NEW m \in wire \cup {Junk}, RolesApart, Finish(y, m)
  PROVE  Inv'
<1>1. CASE ~ReadsThree(y, m)
  BY <1>1, FailedStep DEF Finish
<1>2. CASE ReadsThree(y, m)
  <2>1. /\ y \in Answerers /\ y \notin Callers /\ end[y].st = "two" /\ end[y].v \in {2, 3}
        /\ EndTyped(end[y]) /\ end[y].got = <<>>
    BY DEF RolesApart, Finish, Inv, Own, EndTyped
  <2>2. m \in wire /\ m.v = end[y].v /\ m.no = 3
    BY <1>2, <2>1 DEF ReadsThree, Junk
  <2>3. PICK x \in Callers, w \in Answerers :
          Called(x, w) /\ m = Three(end[x].v, Eph(x), Eph(w), Key(x), Key(w))
    BY <2>2, Kinds DEF IsThird
  <2>4. m.v = end[x].v /\ m.s.pt = Key(x)
    BY <2>3 DEF Three, Sealed
  <2>5. w = y
    <3>1. Three(m.v, Eph(x), Eph(w), Key(x), Key(w)).s.ad = Three(m.v, end[y].re, Eph(y), Key(x), Key(y)).s.ad
      BY <1>2, <2>3, <2>4 DEF ReadsThree, Opens
    <3>2. QED
      BY <3>1, ThreeTells, EphDiffer
  <2>6. Called(x, y) /\ end[y].re = Eph(x) /\ x # y /\ x \in Ends
    BY <2>1, <2>3, <2>5 DEF Called, Ends
  <2> DEFINE ck == Chain(m.v, DHs(Eph(x), Eph(y), Key(x), Key(y)))
             e == Up(y, m.v, Eph(x), Key(x), ck)
  <2>7. end' = [end EXCEPT ![y] = e] /\ wire' = wire
    BY <1>2, <2>4, <2>6 DEF Finish, Inv
  <2>8. /\ EndTyped(e) /\ e.st = "up" /\ e.v = m.v /\ e.re = Eph(x) /\ e.rs = Key(x)
        /\ e.tx = <<ck, 2>> /\ e.rx = <<ck, 1>> /\ e.sent = end[y].sent /\ e.got = <<>>
    <3> HIDE DEF ck
    <3>1. /\ EndTyped(e) /\ e.st = "up" /\ e.v = m.v /\ e.re = Eph(x) /\ e.rs = Key(x)
          /\ e.tx = Split(y, ck).tx /\ e.rx = Split(y, ck).rx
          /\ e.sent = end[y].sent /\ e.got = end[y].got
      BY <2>1, UpIs
    <3> HIDE DEF e
    <3>2. QED
      BY <2>1, <3>1 DEF Split
  <2> HIDE DEF e
  <2>9. end'[y] = e /\ end'[x] = end[x]
    BY <2>6, <2>7 DEF Inv
  <2>10. Agreed(x, y)'
    <3>1. Called(x, y)' /\ ChainOf(x, y)' = ck
      BY <2>2, <2>4, <2>6, <2>8, <2>9 DEF Called, ChainOf
    <3>2. QED
      BY <2>8, <2>9, <3>1 DEF Agreed
  <2>11. Opened(y, x)'
    <3>1. end[x].sent \in Nat
      BY <2>6 DEF Inv, EndTyped
    <3>2. end'[y].got = <<>> /\ Len(end'[y].got) = 0 /\ end'[x].sent \in Nat
      BY <2>8, <2>9, <3>1
    <3>3. QED
      BY <3>2 DEF Opened
  <2>12. Own(y)'
    BY <2>1, <2>8, <2>9, <2>10, <2>11 DEF Own
  <2>13. Later(end[y], e)
    BY <2>1, <2>2, <2>6, <2>8 DEF Later, EndTyped
  <2>14. QED
    BY <2>7, <2>8, <2>12, <2>13, OneEnd
<1>3. QED
  BY <1>1, <1>2

LEMMA EncryptStep ==
  ASSUME Inv, NEW x \in Ends, RolesApart, Encrypt(x)
  PROVE  Inv'
<1> DEFINE e == [end[x] EXCEPT !.sent = @ + 1]
<1>0. PICK n \in Nat : n = end[x].sent
  BY DEF Inv, EndTyped
<1>1. end[x].st = "up" /\ end' = [end EXCEPT ![x] = e] /\ wire' = wire \cup {Frame(x, n)}
  BY <1>0 DEF Encrypt, Frame
<1>2. EndTyped(end[x]) /\ Own(x)
  BY DEF Inv
<1>3. /\ e.st = "up" /\ e.v = end[x].v /\ e.re = end[x].re /\ e.rs = end[x].rs /\ e.tx = end[x].tx
      /\ e.rx = end[x].rx /\ e.sent = n + 1 /\ e.got = end[x].got
  BY <1>1, <1>2, <1>0 DEF EndTyped
<1>4. EndTyped(e)
  BY <1>0, <1>1, <1>2, <1>3 DEF EndTyped
<1>5. Later(end[x], e)
  BY <1>0, <1>1, <1>2, <1>3 DEF Later
<1> HIDE DEF e
<1>6. end'[x] = e /\ \A z \in Ends : z # x => end'[z] = end[z]
  BY <1>1 DEF Inv
<1>7. Frame(x, n)' = Frame(x, n) /\ n < end'[x].sent
  BY <1>3, <1>6 DEF Frame
<1>8. CASE x \in Callers
  <2>1. PICK y \in Answerers : Called(x, y) /\ Opened(x, y)
    BY <1>1, <1>2, <1>8 DEF Own
  <2>2. x # y /\ y \in Ends /\ end'[y] = end[y] /\ x \notin Answerers
    BY <1>6, <1>8 DEF RolesApart, Ends
  <2>3. Called(x, y)' /\ Opened(x, y)'
    BY <1>3, <1>6, <2>1, <2>2 DEF Called, ChainOf, Opened
  <2>4. Own(x)'
    BY <1>3, <1>6, <2>2, <2>3 DEF Own
  <2>5. \A k \in wire' \ wire : IsFrame(k)'
    BY <1>1, <1>7, <1>8, <2>3 DEF IsFrame
  <2>6. QED
    BY <1>1, <1>4, <1>5, <2>4, <2>5, OneEnd DEF Written
<1>9. CASE x \in Answerers
  <2>1. PICK y \in Callers : Agreed(y, x) /\ Opened(x, y)
    BY <1>1, <1>2, <1>9 DEF Own
  <2>2. x # y /\ y \in Ends /\ end'[y] = end[y] /\ x \notin Callers
    BY <1>6, <1>9 DEF RolesApart, Ends
  <2>3. Called(y, x)' /\ ChainOf(y, x)' = ChainOf(y, x)
    BY <1>1, <1>3, <1>6, <2>1, <2>2 DEF Agreed, Called, ChainOf
  <2>4. Agreed(y, x)' /\ Opened(x, y)'
    BY <1>3, <1>6, <2>1, <2>2, <2>3 DEF Agreed, Opened
  <2>5. Own(x)'
    BY <1>3, <1>6, <2>2, <2>4 DEF Own
  <2>6. \A k \in wire' \ wire : IsFrame(k)'
    BY <1>1, <1>7, <1>9, <2>4 DEF IsFrame
  <2>7. QED
    BY <1>1, <1>4, <1>5, <2>5, <2>6, OneEnd DEF Written
<1>10. QED
  BY <1>8, <1>9 DEF Ends

\* The sessions of two pairs have different keys.
LEMMA PairOfKey ==
  ASSUME RolesApart, NEW a \in Callers, NEW b \in Answerers, NEW x \in Callers, NEW y \in Answerers,
         ChainOf(a, b) = ChainOf(x, y)
  PROVE  a = x /\ b = y
<1>1. DH(Eph(a), Eph(b)) = DH(Eph(x), Eph(y))
  BY ChainTells DEF ChainOf, DHs
<1>2. Eph(a) \in {Eph(x), Eph(y)} /\ Eph(b) \in {Eph(x), Eph(y)}
  BY <1>1 DEF DH
<1>3. QED
  BY <1>2, EphDiffer DEF RolesApart

\* A frame that opens under a pair's key is the other end's.
LEMMA FrameOpens ==
  ASSUME RolesApart, NEW m, IsFrame(m), NEW x \in Callers, NEW y \in Answerers
  PROVE  /\ m.s.k = <<ChainOf(x, y), 2>> => Agreed(x, y) /\ \E n \in Nat : n < end[y].sent /\ m = Frame(y, n)
         /\ m.s.k = <<ChainOf(x, y), 1>> => Called(x, y) /\ \E n \in Nat : n < end[x].sent /\ m = Frame(x, n)
<1>1. PICK a \in Callers, b \in Answerers, n \in Nat :
        \/ Called(a, b) /\ n < end[a].sent /\ m = Frame(a, n)
        \/ Agreed(a, b) /\ n < end[b].sent /\ m = Frame(b, n)
  BY DEF IsFrame
<1>2. CASE Called(a, b) /\ n < end[a].sent /\ m = Frame(a, n)
  <2>1. m.s.k = <<ChainOf(a, b), 1>>
    BY <1>2 DEF Frame, Sealed, Called
  <2>2. m.s.k = <<ChainOf(x, y), 1>> => ChainOf(a, b) = ChainOf(x, y)
    BY <2>1
  <2>3. m.s.k # <<ChainOf(x, y), 2>>
    BY <2>1
  <2>4. QED
    BY <1>2, <2>2, <2>3, PairOfKey
<1>3. CASE Agreed(a, b) /\ n < end[b].sent /\ m = Frame(b, n)
  <2>1. m.s.k = <<ChainOf(a, b), 2>>
    BY <1>3 DEF Frame, Sealed, Agreed
  <2>2. m.s.k = <<ChainOf(x, y), 2>> => ChainOf(a, b) = ChainOf(x, y)
    BY <2>1
  <2>3. m.s.k # <<ChainOf(x, y), 1>>
    BY <2>1
  <2>4. QED
    BY <1>3, <2>2, <2>3, PairOfKey
<1>4. QED
  BY <1>1, <1>2, <1>3

LEMMA OneMore ==
  ASSUME NEW g \in Seq(Ends \X Nat), NEW y \in Ends, g = [i \in 1..Len(g) |-> <<y, i - 1>>]
  PROVE  LET f == Append(g, <<y, Len(g)>>)
         IN  /\ f \in Seq(Ends \X Nat) /\ Len(f) = Len(g) + 1
             /\ f = [i \in 1..Len(f) |-> <<y, i - 1>>]
<1> DEFINE f == Append(g, <<y, Len(g)>>)
<1>1. f \in Seq(Ends \X Nat) /\ Len(f) = Len(g) + 1 /\ Len(g) \in Nat
  OBVIOUS
<1>2. \A i \in 1..Len(g) : f[i] = <<y, i - 1>>
  OBVIOUS
<1>3. f[Len(g) + 1] = <<y, Len(g)>>
  OBVIOUS
<1> HIDE DEF f
<1>4. \A i \in 1..Len(f) : f[i] = <<y, i - 1>>
  <2> SUFFICES ASSUME NEW i \in 1..Len(f) PROVE f[i] = <<y, i - 1>>
    OBVIOUS
  <2>1. i \in 1..Len(g) \/ i = Len(g) + 1
    BY <1>1
  <2>2. QED
    BY <1>1, <1>2, <1>3, <2>1
<1>5. f = [i \in 1..Len(f) |-> f[i]]
  BY <1>1
<1>6. QED
  BY <1>1, <1>4, <1>5 DEF f

LEMMA SetGot ==
  ASSUME NEW s, EndTyped(s), NEW g, NEW e, e = [s EXCEPT !.got = g]
  PROVE  /\ e.st = s.st /\ e.v = s.v /\ e.re = s.re /\ e.rs = s.rs /\ e.tx = s.tx /\ e.rx = s.rx
         /\ e.sent = s.sent /\ e.got = g /\ e.ck = s.ck /\ e.h = s.h
         /\ e = [st |-> e.st, v |-> e.v, re |-> e.re, rs |-> e.rs, ck |-> e.ck, h |-> e.h,
                 tx |-> e.tx, rx |-> e.rx, sent |-> e.sent, got |-> e.got]
  BY DEF EndTyped

LEMMA DecryptStep ==
  ASSUME Inv, NEW x \in Ends, NEW m \in wire \cup {Junk}, RolesApart, Decrypt(x, m)
  PROVE  Inv'
<1> DEFINE good == m.v = 1 /\ Opens(m.s, end[x].rx, Len(end[x].got), <<>>)
<1>0. end[x].st = "up" /\ EndTyped(end[x]) /\ Own(x)
  BY DEF Decrypt, Inv
<1>1. CASE ~good
  BY <1>0, <1>1, FailedStep DEF Decrypt
<1>2. CASE good
  <2> DEFINE g == Append(end[x].got, m.s.pt)
  <2> DEFINE e == [end[x] EXCEPT !.got = g]
  <2>1. end' = [end EXCEPT ![x] = e] /\ wire' = wire
    BY <1>2 DEF Decrypt
  <2>2. IsFrame(m) /\ m.s.k = end[x].rx /\ m.s.n = Len(end[x].got)
    <3>1. m \in wire
      BY <1>2 DEF Junk
    <3>2. QED
      BY <1>2, <3>1, Kinds DEF Opens
  <2> HIDE DEF g
  <2>3. /\ e.st = "up" /\ e.v = end[x].v /\ e.re = end[x].re /\ e.rs = end[x].rs /\ e.tx = end[x].tx
        /\ e.rx = end[x].rx /\ e.sent = end[x].sent /\ e.got = g
        /\ e.ck = end[x].ck /\ e.h = end[x].h
    BY <1>0, SetGot
  <2>4. e = [st |-> e.st, v |-> e.v, re |-> e.re, rs |-> e.rs, ck |-> e.ck, h |-> e.h,
             tx |-> e.tx, rx |-> e.rx, sent |-> e.sent, got |-> e.got]
    BY <1>0, SetGot
  <2> HIDE DEF e
  <2> HIDE DEF e
  <2>5. end'[x] = e /\ \A z \in Ends : z # x => end'[z] = end[z]
    BY <2>1 DEF Inv
  \* The frame is the next one of the other end.
  <2>6. ASSUME NEW y \in Ends, y # x, Opened(x, y), NEW n \in Nat, n < end[y].sent, m = Frame(y, n)
        PROVE  EndTyped(e) /\ Opened(x, y)'
    <3>1. m.s.pt = <<y, n>> /\ m.s.n = n
      BY <2>6 DEF Frame, Sealed
    <3>2. e.got = Append(end[x].got, <<y, Len(end[x].got)>>) /\ n = Len(end[x].got)
      BY <2>2, <2>3, <3>1 DEF g
    <3>3. end[x].got \in Seq(Ends \X Nat) /\ end[x].got = [i \in 1..Len(end[x].got) |-> <<y, i - 1>>]
      BY <1>0, <2>6 DEF EndTyped, Opened
    <3>4. /\ e.got \in Seq(Ends \X Nat) /\ Len(e.got) = n + 1
          /\ e.got = [i \in 1..Len(e.got) |-> <<y, i - 1>>]
      BY <3>2, <3>3, OneMore
    <3>5. EndTyped(e)
      BY <1>0, <2>3, <2>4, <3>4 DEF EndTyped
    <3>6. end[y].sent \in Nat /\ end'[y].sent = end[y].sent
      BY <2>5, <2>6 DEF Inv, EndTyped
    <3>7. Len(end'[x].got) <= end'[y].sent
      BY <2>5, <2>6, <3>4, <3>6
    <3>8. QED
      BY <2>5, <3>4, <3>5, <3>7 DEF Opened
  <2>7. ASSUME EndTyped(e), Own(x)' PROVE Inv'
    <3>1. Later(end[x], e)
      BY <1>0, <2>3 DEF Later, EndTyped
    <3>2. QED
      BY <2>1, <2>7, <3>1, OneEnd
  <2>8. CASE x \in Callers
    <3>1. PICK y \in Answerers : Called(x, y) /\ Opened(x, y)
      BY <1>0, <2>8 DEF Own
    <3>2. x # y /\ y \in Ends /\ x \notin Answerers
      BY <2>8 DEF RolesApart, Ends
    <3>3. m.s.k = <<ChainOf(x, y), 2>>
      BY <2>2, <3>1 DEF Called
    <3>4. \E n \in Nat : n < end[y].sent /\ m = Frame(y, n)
      BY <2>2, <2>8, <3>3, FrameOpens
    <3>5. EndTyped(e) /\ Opened(x, y)'
      BY <2>6, <3>1, <3>2, <3>4
    <3>6. Called(x, y)'
      BY <2>3, <2>5, <3>1, <3>2 DEF Called, ChainOf
    <3>7. Own(x)'
      BY <2>3, <2>5, <3>2, <3>5, <3>6 DEF Own
    <3>8. QED
      BY <2>7, <3>5, <3>7
  <2>9. CASE x \in Answerers
    <3>1. PICK y \in Callers : Agreed(y, x) /\ Opened(x, y)
      BY <1>0, <2>9 DEF Own
    <3>2. x # y /\ y \in Ends /\ x \notin Callers
      BY <2>9 DEF RolesApart, Ends
    <3>3. m.s.k = <<ChainOf(y, x), 1>>
      BY <2>2, <3>1 DEF Agreed
    <3>4. \E n \in Nat : n < end[y].sent /\ m = Frame(y, n)
      BY <2>2, <2>9, <3>3, FrameOpens
    <3>5. EndTyped(e) /\ Opened(x, y)'
      BY <2>6, <3>1, <3>2, <3>4
    <3>6. Called(y, x)' /\ ChainOf(y, x)' = ChainOf(y, x)
      BY <1>0, <2>3, <2>5, <3>1, <3>2 DEF Agreed, Called, ChainOf
    <3>7. Agreed(y, x)'
      BY <2>3, <2>5, <3>1, <3>6 DEF Agreed
    <3>8. Own(x)'
      BY <2>3, <2>5, <3>2, <3>5, <3>7 DEF Own
    <3>9. QED
      BY <2>7, <3>5, <3>8
  <2>10. QED
    BY <2>8, <2>9 DEF Ends
<1>3. QED
  BY <1>1, <1>2

-----------------------------------------------------------------------------
(* The theorem.                                                            *)

LEMMA InvInit == Init => Inv
<1> SUFFICES ASSUME Init PROVE Inv
  OBVIOUS
<1>1. wire = {} /\ end = [x \in Ends |-> end[x]] /\ \A x \in Ends : end[x] = Idle
  BY DEF Init
<1>2. EndTyped(Idle) /\ Idle.st = "off"
  BY DEF EndTyped, Idle
<1>3. QED
  BY <1>1, <1>2 DEF Inv, Own

LEMMA InvStep == RolesApart /\ Inv /\ [Next]_vars => Inv'
<1> SUFFICES ASSUME RolesApart, Inv, [Next]_vars PROVE Inv'
  OBVIOUS
<1>1. CASE UNCHANGED vars
  <2>1. end' = end /\ wire' = wire
    BY <1>1 DEF vars
  <2>2. \A z \in Ends : Later(end[z], end'[z]) /\ end[z].sent \in Nat /\ end'[z].sent \in Nat
    BY <2>1 DEF Inv, EndTyped, Later
  <2>3. \A m \in wire' : Written(m)'
    BY <2>1, <2>2, Stays DEF Inv
  <2>4. \A z \in Ends : EndTyped(end'[z])
    BY <2>1 DEF Inv
  <2>5. ASSUME NEW z \in Ends PROVE Own(z)'
    <3>1. Own(z)
      BY DEF Inv
    <3>2. \A y \in Ends : Opened(z, y) => Opened(z, y)'
      BY <2>1 DEF Opened
    <3>3. QED
      BY <2>1, <2>2, <3>1, <3>2, Stays DEF Own, Ends
  <2>6. QED
    BY <2>1, <2>3, <2>4, <2>5 DEF Inv
<1>2. CASE Next
  BY <1>2, InitStartStep, RespondStep, InitFinishStep, FinishStep, EncryptStep, DecryptStep DEF Next
<1>3. QED
  BY <1>1, <1>2

LEMMA Theirs == RolesApart /\ Inv => SessionIsTheirs
<1> SUFFICES ASSUME RolesApart, Inv, NEW x \in Ends, end[x].st = "up"
             PROVE  \E y \in Ends : Partner(x, y) /\ Opened(x, y)
  BY DEF SessionIsTheirs, Opened
<1>1. Own(x)
  BY DEF Inv
<1>2. CASE x \in Callers
  <2>1. PICK y \in Answerers : Called(x, y) /\ Opened(x, y)
    BY <1>1, <1>2 DEF Own
  <2>2. y \in Ends /\ y \notin Callers /\ Own(y)
    BY DEF RolesApart, Ends, Inv
  <2>3. end[y].st = "up" => Agreed(x, y)
    BY <2>1, <2>2, EphDiffer DEF Own, Agreed, Called
  <2>4. Partner(x, y)
    BY <1>2, <2>1, <2>3 DEF Partner, Called, Agreed
  <2>5. QED
    BY <2>1, <2>2, <2>4
<1>3. CASE x \in Answerers
  <2>1. PICK y \in Callers : Agreed(y, x) /\ Opened(x, y)
    BY <1>1, <1>3 DEF Own
  <2>2. y \in Ends /\ x \notin Callers
    BY <1>3 DEF RolesApart, Ends
  <2>3. Partner(x, y)
    BY <1>3, <2>1, <2>2 DEF Partner, Called, Agreed
  <2>4. QED
    BY <2>1, <2>2, <2>3
<1>4. QED
  BY <1>2, <1>3 DEF Ends

\* Whatever is passed on, held back, swapped or sent again between any number
\* of ends: who finished a handshake has at the other end the holder of the key
\* it was told, and opens what that one sealed, in order, nothing twice and
\* nothing left out.
THEOREM SessionIsTheirsTheorem == RolesApart /\ Spec => []SessionIsTheirs
<1>1. RolesApart => RolesApart'
  BY DEF RolesApart
<1>2. Init => Inv
  BY InvInit
<1>3. (RolesApart /\ Inv) /\ [Next]_vars => (RolesApart /\ Inv)'
  BY <1>1, InvStep
<1>4. RolesApart /\ Inv => SessionIsTheirs
  BY Theirs
<1>5. QED
  BY <1>2, <1>3, <1>4, PTL DEF Spec
=============================================================================
