----------------------------- MODULE HostProofs -----------------------------
(***************************************************************************)
(* Proofs about the components that MCHost checks side by side, for every   *)
(* value of their constants: the contacts (Contacts), the Bitcoin node that *)
(* is found (Detect), the login there (Login), the                          *)
(* program files on Windows (Install), the sessions (Noise, proved in       *)
(* NoiseProofs), who may connect (Limits, proved in LimitsProofs), what is  *)
(* told about the node (NodeRpc), a restore (Backup), a port mapping        *)
(* (Gateway), the copy of an older install's state (StateCopy) and the      *)
(* give-up rule of the supervisor (Supervisor).  While which names a        *)
(* component, the steps are that component's.                               *)
(***************************************************************************)
EXTENDS MCHost, TLAPS, SequenceTheorems, FiniteSetTheorems, WellFoundedInduction

P2 == INSTANCE NoiseProofs WITH end <- v1, wire <- v2
P1 == INSTANCE NoiseProofs WITH
        Callers <- SameCallers, Answerers <- SameAnswerers, MaxFrames <- MaxSameFrames,
        end <- v1, wire <- v2
PL == INSTANCE LimitsProofs WITH EndOfTime <- LimitsEnd, now <- v1, rlBuckets <- v2, sock <- v3,
        peerActive <- v4, let <- v5, others <- v6

-----------------------------------------------------------------------------
(* One component's steps.                                                  *)

LEMMA Steps ==
  ASSUME [HostNext]_<<vars, hostVars>>
  PROVE  /\ which' = which
         /\ [Next]_vars
         /\ which = "detect" => [Dt!Next]_(Dt!vars)
         /\ which = "login" => [Lg!Next]_(Lg!vars)
         /\ which = "install" => [In!Next]_(In!vars)
         /\ which = "two" => [Two!Next]_(Two!vars)
         /\ which = "one" => [One!Next]_(One!vars)
         /\ which = "backup" => [Bk!Next]_(Bk!vars)
         /\ which = "copy" => [Sc!Next]_(Sc!vars)
         /\ which = "gateway" => [Gw!Next]_(Gw!vars)
         /\ which = "rpc" => [Rp!Next]_(Rp!vars)
         /\ which = "limits" => [Li!Next]_(Li!vars)
         /\ which = "clock" => [Su!Next]_(Su!vars)
  BY DEF HostNext, hostVars, Lg!vars, In!vars, Two!vars, One!vars, Bk!vars, Sc!vars, Gw!vars,
         Gw!search, Rp!vars, Li!vars, Su!vars, Dt!vars

\* A set of numbers has a least.
LEMMA Least ==
  ASSUME NEW T \in SUBSET Nat, T # {}
  PROVE  \E n \in T : \A i \in T : n <= i
<1>1. \E n \in T : \A i \in T : <<i, n>> \notin OpToRel(<, Nat)
  BY WFMin, NatLessThanWellFounded, Zenon
<1>2. \A i, n \in Nat : i < n => <<i, n>> \in OpToRel(<, Nat)
  BY DEF OpToRel
<1>3. \E n \in T : \A i \in T : ~(i < n)
  BY <1>1, <1>2, Zenon
<1>4. QED
  BY <1>3

-----------------------------------------------------------------------------
(* One record.                                                             *)

KeysOf(r) == {r.fp} \cup r.prev

\* A record that holds what its keys wrote, doubts a key only beside another,
\* and is on a stranger's budget while it is one.
Sane(r) ==
  /\ r \in Record
  /\ r.pending # None => r.fp # None
  /\ \A m \in ToSet(r.msgs) : m[1] \in KeysOf(r)
  /\ r.who = "stranger" => Len(r.msgs) <= StrangerMsgs

\* What a handler may make of a record.
Becomes(r, q) ==
  /\ Sane(q)
  /\ KeysOf(r) \ {None} \subseteq KeysOf(q)
  /\ r.fp # None => q.fp \in {r.fp, r.pending}
  /\ q.who = "stranger" => r.who = "stranger"

\* pushMsg drops the oldest and adds one.
LEMMA PushKeeps ==
  ASSUME NEW s \in Seq(Messages), NEW m \in Messages, NEW cap \in Nat \ {0}
  PROVE  LET all == Append(s, m)
             t   == SubSeq(all, IF Len(all) > cap THEN Len(all) - cap + 1 ELSE 1, Len(all))
         IN  /\ t \in Seq(Messages)
             /\ Len(t) <= cap
             /\ ToSet(t) \subseteq ToSet(s) \cup {m}
<1> DEFINE all == Append(s, m)
           from == IF Len(all) > cap THEN Len(all) - cap + 1 ELSE 1
           t == SubSeq(all, from, Len(all))
<1>1. /\ all \in Seq(Messages) /\ Len(all) = Len(s) + 1 /\ Len(s) \in Nat
      /\ \A i \in 1..Len(s) : all[i] = s[i]
      /\ all[Len(s) + 1] = m
  OBVIOUS
<1> HIDE DEF all
<1>2. from \in 1..Len(all)
  BY <1>1
<1>3. Len(all) - from + 1 <= cap
  BY <1>1
<1> HIDE DEF from
<1>4. /\ t \in Seq(Messages) /\ Len(t) = Len(all) - from + 1
      /\ \A i \in 1..Len(t) : t[i] = all[from + i - 1]
  BY <1>1, <1>2
<1> HIDE DEF t
<1>5. ToSet(t) \subseteq ToSet(s) \cup {m}
  <2>1. ASSUME NEW i \in 1..Len(t) PROVE t[i] \in ToSet(s) \cup {m}
    <3>1. from + i - 1 \in 1..(Len(s) + 1)
      BY <1>1, <1>2, <1>4
    <3>2. QED
      BY <1>1, <1>4, <3>1 DEF ToSet
  <2>2. QED
    BY <1>4, <2>1 DEF ToSet
<1>6. QED
  BY <1>3, <1>4, <1>5 DEF t, from, all

\* What the handlers do to a record.
LEMMA RecordSteps ==
  ASSUME NEW r, Sane(r)
  PROVE  /\ Becomes(r, r) /\ Becomes(r, Chosen(r))
         /\ \A fp \in Fps : TofuOk(r, fp) => /\ Becomes(r, Pinned(r, fp))
                                             /\ Becomes(r, Chosen(Pinned(r, fp)))
                                             /\ fp \in KeysOf(Pinned(r, fp))
         /\ \A fp \in Fps : ~TofuOk(r, fp) => Becomes(r, Doubted(r, fp))
         /\ r.pending # None =>
              /\ Becomes(r, [r EXCEPT !.fp = r.pending, !.pending = None, !.prev = @ \cup {r.fp}])
              /\ Becomes(r, [r EXCEPT !.pending = None])
         /\ \A fp \in Fps \cap KeysOf(r), id \in Ids : Becomes(r, Stores(r, <<fp, id>>))
<1>0. r \in Record /\ \A m \in ToSet(r.msgs) : m \in Messages /\ m[1] \in Fps
  BY DEF Sane, Record, ToSet, Messages
<1>1. Becomes(r, r) /\ Becomes(r, Chosen(r))
  BY <1>0 DEF Sane, Becomes, Record, KeysOf, Chosen
<1>2. ASSUME NEW fp \in Fps, TofuOk(r, fp)
      PROVE  /\ Becomes(r, Pinned(r, fp))
             /\ Becomes(r, Chosen(Pinned(r, fp)))
             /\ fp \in KeysOf(Pinned(r, fp))
  <2>1. CASE r.fp = None
    <3> DEFINE q == [r EXCEPT !.fp = fp]
    <3>1. Pinned(r, fp) = q
      BY <2>1 DEF Pinned
    <3>2. /\ q \in Record /\ q.fp = fp /\ q.prev = r.prev /\ q.pending = r.pending
          /\ q.who = r.who /\ q.msgs = r.msgs
      BY <1>0 DEF Record
    <3> HIDE DEF q
    <3>3. Becomes(r, q) /\ fp \in KeysOf(q)
      BY <1>0, <2>1, <3>2, NoneAssumption DEF Sane, Becomes, KeysOf
    <3>4. Becomes(r, Chosen(q))
      BY <1>0, <2>1, <3>2, NoneAssumption DEF Sane, Becomes, KeysOf, Chosen, Record
    <3>5. QED
      BY <3>1, <3>3, <3>4
  <2>2. CASE r.fp # None
    BY <1>1, <1>2, <2>2 DEF Pinned, TofuOk, KeysOf
  <2>3. QED
    BY <2>1, <2>2
<1>3. ASSUME NEW fp \in Fps, ~TofuOk(r, fp) PROVE Becomes(r, Doubted(r, fp))
  BY <1>0, <1>3 DEF Sane, Becomes, KeysOf, Record, Doubted, TofuOk
<1>4. ASSUME r.pending # None
      PROVE  Becomes(r, [r EXCEPT !.fp = r.pending, !.pending = None, !.prev = @ \cup {r.fp}])
  BY <1>0, <1>4 DEF Sane, Becomes, KeysOf, Record
<1>5. Becomes(r, [r EXCEPT !.pending = None])
  BY <1>0 DEF Sane, Becomes, KeysOf, Record
<1>6. ASSUME NEW fp \in Fps \cap KeysOf(r), NEW id \in Ids PROVE Becomes(r, Stores(r, <<fp, id>>))
  <2> DEFINE m == <<fp, id>>
             cap == IF r.who = "stranger" THEN StrangerMsgs ELSE HistoryCap
             t == SubSeq(Append(r.msgs, m),
                         IF Len(Append(r.msgs, m)) > cap THEN Len(Append(r.msgs, m)) - cap + 1 ELSE 1,
                         Len(Append(r.msgs, m)))
  <2>1. CASE m \in ToSet(r.msgs)
    BY <1>1, <2>1 DEF Stores
  <2>2. CASE m \notin ToSet(r.msgs)
    <3>1. Stores(r, m) = [r EXCEPT !.msgs = t]
      BY <2>2 DEF Stores, Push
    <3>2. cap \in Nat \ {0} /\ m \in Messages /\ r.msgs \in Seq(Messages)
      BY <1>0, LimitsAssumption, CapAssumption DEF Messages, Record
    <3>3. t \in Seq(Messages) /\ Len(t) <= cap /\ ToSet(t) \subseteq ToSet(r.msgs) \cup {m}
      <4> HIDE DEF cap, m
      <4>1. QED
        BY <3>2, PushKeeps
    <3>4. m[1] \in KeysOf(r)
      OBVIOUS
    <3>5. r.who = "stranger" => cap = StrangerMsgs
      OBVIOUS
    <3> HIDE DEF t, m, cap
    <3>6. QED
      BY <1>0, <3>1, <3>3, <3>4, <3>5 DEF Sane, Becomes, KeysOf, Record, m
  <2>3. QED
    BY <2>1, <2>2
<1>7. QED
  BY <1>1, <1>2, <1>3, <1>4, <1>5, <1>6

LEMMA NewRecord ==
  ASSUME NEW who \in {"chosen", "stranger", "auto"}, NEW fp \in Fps \cup {None}
  PROVE  /\ Sane(New(who, fp)) /\ New(who, fp) # None
         /\ New(who, fp).who = who /\ New(who, fp).fp = fp
<1> DEFINE r == New(who, fp)
<1>1. /\ r \in Record /\ r.fp = fp /\ r.pending = None /\ r.who = who
      /\ r.msgs = <<>>
  BY DEF New, Record
<1>2. ToSet(r.msgs) = {} /\ Len(r.msgs) = 0
  BY <1>1 DEF ToSet
<1> HIDE DEF r
<1>3. QED
  BY <1>1, <1>2, LimitsAssumption, NoneAssumption DEF Sane, r

-----------------------------------------------------------------------------
(* All records.  A table c is a value of contact.                          *)

Strangers(c) == {h \in Hosts : c[h] # None /\ c[h].who = "stranger"}

SafeTable(c) ==
  /\ c \in [Hosts -> Record \cup {None}]
  /\ \A h \in Hosts : c[h] # None => Sane(c[h])
  /\ IsFiniteSet(Strangers(c)) /\ Cardinality(Strangers(c)) <= MaxStrangers

\* From c to d no listed key changes but to one the operator was shown.
Pin(c, d) ==
  \A h \in Hosts : c[h] # None /\ d[h] # None /\ c[h].fp # None => d[h].fp \in {c[h].fp, c[h].pending}

\* From c to d no record goes, and none forgets a key.
Holds(c, d) ==
  \A h \in Hosts : c[h] # None => d[h] # None /\ KeysOf(c[h]) \ {None} \subseteq KeysOf(d[h])

\* A record at h is made, or made into another.
Edit(c, h, q) ==
  /\ q # None
  /\ c[h] # None => Becomes(c[h], q)
  /\ c[h] = None => Sane(q) /\ (q.who = "stranger" => Cardinality(Strangers(c)) < MaxStrangers)

LEMMA EditKeeps ==
  ASSUME NEW c, SafeTable(c), NEW h \in Hosts, NEW q, Edit(c, h, q)
  PROVE  /\ SafeTable([c EXCEPT ![h] = q])
         /\ Pin(c, [c EXCEPT ![h] = q])
         /\ Holds(c, [c EXCEPT ![h] = q])
<1> DEFINE d == [c EXCEPT ![h] = q]
<1>1. d[h] = q /\ \A k \in Hosts : k # h => d[k] = c[k]
  BY DEF SafeTable
<1>2. Sane(q) /\ q # None
  BY DEF Edit, Becomes
<1>3. d \in [Hosts -> Record \cup {None}]
  BY <1>2 DEF SafeTable, Sane
<1> HIDE DEF d
<1>4. \A k \in Hosts : d[k] # None => Sane(d[k])
  BY <1>1, <1>2 DEF SafeTable
<1>5. IsFiniteSet(Strangers(d)) /\ Cardinality(Strangers(d)) <= MaxStrangers
  <2>0. /\ IsFiniteSet(Strangers(c)) /\ Cardinality(Strangers(c)) \in Nat /\ MaxStrangers \in Nat
        /\ Cardinality(Strangers(c)) <= MaxStrangers
    BY FS_CardinalityType, LimitsAssumption DEF SafeTable
  <2>1. CASE c[h] = None /\ q.who = "stranger"
    <3>1. Strangers(d) = Strangers(c) \cup {h}
      BY <1>1, <1>2, <2>1 DEF Strangers
    <3>2. IsFiniteSet(Strangers(d)) /\ Cardinality(Strangers(d)) <= Cardinality(Strangers(c)) + 1
      BY <2>0, <3>1, FS_AddElement
    <3>3. Cardinality(Strangers(c)) < MaxStrangers
      BY <2>1 DEF Edit
    <3>4. QED
      BY <2>0, <3>2, <3>3, FS_CardinalityType
  <2>2. CASE c[h] # None \/ q.who # "stranger"
    <3>1. Strangers(d) \subseteq Strangers(c)
      BY <1>1, <1>2, <2>2 DEF Strangers, Edit, Becomes
    <3>2. IsFiniteSet(Strangers(d)) /\ Cardinality(Strangers(d)) <= Cardinality(Strangers(c))
      BY <2>0, <3>1, FS_Subset
    <3>3. QED
      BY <2>0, <3>2, FS_CardinalityType
  <2>3. QED
    BY <2>1, <2>2
<1>6. SafeTable(d)
  BY <1>3, <1>4, <1>5 DEF SafeTable
<1>7. Pin(c, d) /\ Holds(c, d)
  BY <1>1, <1>2 DEF Pin, Holds, Edit, Becomes
<1>8. QED
  BY <1>6, <1>7 DEF d

\* rekeyContact: a record moves to a host that has none.
LEMMA MoveKeeps ==
  ASSUME NEW c, SafeTable(c), NEW p \in Hosts, NEW a \in Hosts, c[p] # None, c[a] = None,
         NEW q, q # None, Becomes(c[p], q)
  PROVE  /\ SafeTable([c EXCEPT ![p] = None, ![a] = q])
         /\ Pin(c, [c EXCEPT ![p] = None, ![a] = q])
<1> DEFINE d == [c EXCEPT ![p] = None, ![a] = q]
<1>1. d[a] = q /\ d[p] = None /\ \A k \in Hosts \ {p, a} : d[k] = c[k]
  BY DEF SafeTable
<1>2. Sane(q)
  BY DEF Becomes
<1>3. d \in [Hosts -> Record \cup {None}]
  BY <1>2 DEF SafeTable, Sane
<1> HIDE DEF d
<1>4. \A k \in Hosts : d[k] # None => Sane(d[k])
  BY <1>1, <1>2 DEF SafeTable
<1>5. IsFiniteSet(Strangers(d)) /\ Cardinality(Strangers(d)) <= MaxStrangers
  <2>0. /\ IsFiniteSet(Strangers(c)) /\ Cardinality(Strangers(c)) \in Nat /\ MaxStrangers \in Nat
        /\ Cardinality(Strangers(c)) <= MaxStrangers
    BY FS_CardinalityType, LimitsAssumption DEF SafeTable
  <2>1. CASE q.who = "stranger"
    <3>1. Strangers(d) = (Strangers(c) \ {p}) \cup {a} /\ p \in Strangers(c) /\ a \notin Strangers(c) \ {p}
      BY <1>1, <1>2, <2>1 DEF Strangers, Becomes
    <3>2. IsFiniteSet(Strangers(c) \ {p}) /\ Cardinality(Strangers(c) \ {p}) = Cardinality(Strangers(c)) - 1
      BY <2>0, <3>1, FS_RemoveElement
    <3>3. IsFiniteSet(Strangers(d)) /\ Cardinality(Strangers(d)) = Cardinality(Strangers(c) \ {p}) + 1
      BY <3>1, <3>2, FS_AddElement
    <3>4. QED
      BY <2>0, <3>2, <3>3
  <2>2. CASE q.who # "stranger"
    <3>1. Strangers(d) \subseteq Strangers(c)
      BY <1>1, <2>2 DEF Strangers
    <3>2. IsFiniteSet(Strangers(d)) /\ Cardinality(Strangers(d)) <= Cardinality(Strangers(c))
      BY <2>0, <3>1, FS_Subset
    <3>3. QED
      BY <2>0, <3>2, FS_CardinalityType
  <2>3. QED
    BY <2>1, <2>2
<1>6. SafeTable(d) /\ Pin(c, d)
  BY <1>1, <1>3, <1>4, <1>5 DEF SafeTable, Pin
<1>7. QED
  BY <1>6 DEF d

LEMMA RemoveKeeps ==
  ASSUME NEW c, SafeTable(c), NEW h \in Hosts
  PROVE  SafeTable([c EXCEPT ![h] = None]) /\ Pin(c, [c EXCEPT ![h] = None])
<1> DEFINE d == [c EXCEPT ![h] = None]
<1>1. d[h] = None /\ (\A k \in Hosts : k # h => d[k] = c[k]) /\ d \in [Hosts -> Record \cup {None}]
  BY DEF SafeTable
<1> HIDE DEF d
<1>2. Strangers(d) \subseteq Strangers(c)
  BY <1>1 DEF Strangers
<1>3. /\ IsFiniteSet(Strangers(c)) /\ Cardinality(Strangers(c)) \in Nat /\ MaxStrangers \in Nat
      /\ Cardinality(Strangers(c)) <= MaxStrangers
  BY FS_CardinalityType, LimitsAssumption DEF SafeTable
<1>4. IsFiniteSet(Strangers(d)) /\ Cardinality(Strangers(d)) <= Cardinality(Strangers(c))
  BY <1>2, <1>3, FS_Subset
<1>5. SafeTable(d) /\ Pin(c, d)
  BY <1>1, <1>3, <1>4, FS_CardinalityType DEF SafeTable, Pin
<1>6. QED
  BY <1>5 DEF d

-----------------------------------------------------------------------------
(* Links and dials beside the records.                                     *)

\* A link that files in a record of c came with a key of that record.
FiledIn(c, s) ==
  s.listed => s.host \in Hosts /\ c[s.host] # None /\ s.fp \in KeysOf(c[s.host]) \cap Fps

\* A link that is up proved a key; one whose hello is still to come also has
\* the address it came from.
Proved(s) == s.up # "free" => s.fp \in Fps /\ (s.host = None => s.addr \in Addrs \cup {Loopback})

\* k is a value of link.
SafeLinks(c, k) ==
  /\ k \in [Links -> Session]
  /\ \A l \in Links : FiledIn(c, k[l]) /\ Proved(k[l])

Inv ==
  /\ SafeTable(contact) /\ SafeLinks(contact, link)
  /\ bound \in [Hosts -> Links \cup {None}]
  /\ dial \in [Hosts -> {"no", "listed", "removed"}]
  /\ \A h \in Hosts : dial[h] = "listed" => contact[h] # None
  /\ naming \subseteq Addrs
  /\ moves \in 0..MaxMoves

LEMMA HostsAre == /\ Addrs \subseteq Hosts /\ Placeholders \subseteq Hosts /\ None \notin Hosts
                  /\ \A fp \in Fps : {<<"tor", fp>>, <<"mbox", fp>>, <<"peer", fp>>} \subseteq Hosts
  BY NoneAssumption DEF Hosts, Placeholders

\* A link's record stays, with its keys, unless it is removed or moved.
LEMMA LinksHold ==
  ASSUME NEW c, NEW d, NEW k, SafeLinks(c, k), Holds(c, d)
  PROVE  SafeLinks(d, k)
  BY NoneAssumption DEF SafeLinks, FiledIn, Holds

\* A link changed, made or dropped.
LEMMA LinkSet ==
  ASSUME NEW c, NEW k, SafeLinks(c, k), NEW l \in Links, NEW s \in Session, FiledIn(c, s), Proved(s)
  PROVE  SafeLinks(c, [k EXCEPT ![l] = s])
  BY DEF SafeLinks

LEMMA NoLink == NoSession \in Session /\ Proved(NoSession) /\ \A c : FiledIn(c, NoSession)
  BY DEF NoSession, Session, Proved, FiledIn

LEMMA BindIs ==
  ASSUME bound \in [Hosts -> Links \cup {None}], NEW l \in Links, NEW h \in Hosts, Bind(l, h)
  PROVE  bound' \in [Hosts -> Links \cup {None}]
  BY DEF Bind

LEMMA DiallingIs ==
  ASSUME dial \in [Hosts -> {"no", "listed", "removed"}], NEW h \in Hosts
  PROVE  /\ Dialling(h) \in [Hosts -> {"no", "listed", "removed"}]
         /\ \A k \in Hosts : Dialling(h)[k] = "listed" => dial[k] = "listed" \/ k = h
  BY DEF Dialling

LEMMA FoundByKey ==
  ASSUME NEW fp \in Fps, NEW h \in ByKey(fp)
  PROVE  h \in Hosts /\ contact[h] # None /\ contact[h].fp = fp
  BY NoneAssumption DEF ByKey, WithKey, KeyAt

\* What an edit of one record keeps.
LEMMA EditStep ==
  ASSUME Inv, NEW h \in Hosts, NEW q, Edit(contact, h, q), contact' = [contact EXCEPT ![h] = q]
  PROVE  /\ SafeTable(contact') /\ Pin(contact, contact') /\ Holds(contact, contact')
         /\ SafeLinks(contact', link)
         /\ contact'[h] = q /\ contact'[h] # None
<1>1. SafeTable(contact') /\ Pin(contact, contact') /\ Holds(contact, contact')
  BY EditKeeps DEF Inv
<1>2. SafeLinks(contact', link)
  BY <1>1, LinksHold DEF Inv
<1>3. contact'[h] = q /\ q # None
  BY DEF Inv, SafeTable, Edit
<1>4. QED
  BY <1>1, <1>2, <1>3

LEMMA SameStep == Inv => SafeTable(contact) /\ Pin(contact, contact) /\ Holds(contact, contact)
  BY DEF Inv, SafeTable, Pin, Holds

\* An edit that is not a new stranger.
LEMMA EditIs ==
  ASSUME Inv, NEW h \in Hosts
  PROVE  /\ \A q : contact[h] # None /\ Becomes(contact[h], q) => Edit(contact, h, q)
         /\ \A who \in {"chosen", "auto"}, fp \in Fps \cup {None} :
              contact[h] = None => Edit(contact, h, New(who, fp))
         /\ \A fp \in Fps : RoomForStranger(h) => Edit(contact, h, New("stranger", fp))
<1>1. ASSUME NEW q, contact[h] # None, Becomes(contact[h], q) PROVE Edit(contact, h, q)
  BY <1>1, NoneAssumption DEF Edit, Becomes, Sane
<1>2. ASSUME NEW who \in {"chosen", "auto"}, NEW fp \in Fps \cup {None}, contact[h] = None
      PROVE  Edit(contact, h, New(who, fp))
  BY <1>2, NewRecord DEF Edit
<1>3. ASSUME NEW fp \in Fps, RoomForStranger(h) PROVE Edit(contact, h, New("stranger", fp))
  BY <1>3, NewRecord DEF Edit, RoomForStranger, Strangers, Listed
<1>4. QED
  BY <1>1, <1>2, <1>3

-----------------------------------------------------------------------------
(* Peers that call.                                                        *)

LEMMA CallsStep ==
  ASSUME Inv, NEW l \in Links, NEW addr \in Addrs \cup {Loopback}, NEW fp \in Fps, Calls(l, addr, fp)
  PROVE  Inv' /\ Pin(contact, contact')
<1> DEFINE s(h) == [up |-> "open", addr |-> addr, fp |-> fp, host |-> h, listed |-> h # None]
<1>1. /\ dial' = dial /\ naming' = naming /\ moves' = moves
  BY DEF Calls
<1>2. CASE /\ link' = [link EXCEPT ![l] = s(None)]
           /\ UNCHANGED <<contact, bound>>
  <2>1. s(None) \in Session /\ FiledIn(contact, s(None)) /\ Proved(s(None))
    BY DEF Session, FiledIn, Proved
  <2> HIDE DEF s
  <2>2. SafeLinks(contact, link')
    BY <1>2, <2>1, LinkSet DEF Inv
  <2>3. QED
    BY <1>1, <1>2, <2>2, SameStep DEF Inv
<1>3. ASSUME NEW h \in ContactFor(addr, fp), TofuOk(contact[h], fp),
             contact' = [contact EXCEPT ![h] = Pinned(@, fp)],
             link' = [link EXCEPT ![l] = s(h)], Bind(l, h)
      PROVE  Inv' /\ Pin(contact, contact')
  <2>1. h \in Hosts /\ contact[h] # None /\ h # None
    BY FoundByKey, HostsAre DEF ContactFor
  <2>2. Becomes(contact[h], Pinned(contact[h], fp)) /\ fp \in KeysOf(Pinned(contact[h], fp))
    BY <1>3, <2>1, RecordSteps DEF Inv, SafeTable
  <2>3. contact' = [contact EXCEPT ![h] = Pinned(contact[h], fp)]
    BY <1>3 DEF Inv, SafeTable
  <2>4. /\ SafeTable(contact') /\ Pin(contact, contact') /\ Holds(contact, contact')
        /\ SafeLinks(contact', link)
        /\ contact'[h] = Pinned(contact[h], fp) /\ contact'[h] # None
    BY <2>1, <2>2, <2>3, EditIs, EditStep
  <2>5. s(h) \in Session /\ FiledIn(contact', s(h)) /\ Proved(s(h))
    BY <2>1, <2>2, <2>4 DEF Session, FiledIn, Proved
  <2> HIDE DEF s
  <2>6. SafeLinks(contact', link')
    BY <1>3, <2>4, <2>5, LinkSet
  <2>7. bound' \in [Hosts -> Links \cup {None}]
    BY <1>3, <2>1, BindIs DEF Inv
  <2>8. QED
    BY <1>1, <2>4, <2>6, <2>7 DEF Inv, Holds
<1>4. ASSUME NEW h \in ContactFor(addr, fp), ~TofuOk(contact[h], fp),
             contact' = [contact EXCEPT ![h] = Doubted(@, fp)], UNCHANGED <<link, bound>>
      PROVE  Inv' /\ Pin(contact, contact')
  <2>1. h \in Hosts /\ contact[h] # None
    BY FoundByKey, HostsAre DEF ContactFor
  <2>2. Becomes(contact[h], Doubted(contact[h], fp))
    BY <1>4, <2>1, RecordSteps DEF Inv, SafeTable
  <2>3. contact' = [contact EXCEPT ![h] = Doubted(contact[h], fp)]
    BY <1>4 DEF Inv, SafeTable
  <2>4. /\ SafeTable(contact') /\ Pin(contact, contact') /\ Holds(contact, contact')
        /\ SafeLinks(contact', link)
    BY <2>1, <2>2, <2>3, EditIs, EditStep
  <2>5. QED
    BY <1>1, <1>4, <2>4 DEF Inv, Holds
<1>5. QED
  BY <1>2, <1>3, <1>4 DEF Calls

LEMMA HelloStep ==
  ASSUME Inv, NEW l \in Links, Hello(l)
  PROVE  Inv' /\ Pin(contact, contact')
<1> DEFINE h == IF link[l].addr = Loopback THEN <<"tor", link[l].fp>> ELSE link[l].addr
<1>0. /\ link[l] \in Session /\ link[l].fp \in Fps /\ link[l].addr \in Addrs \cup {Loopback}
  BY DEF Inv, SafeLinks, Proved, Hello
<1>1. h \in Hosts
  BY <1>0, HostsAre
<1>2. dial' = dial /\ moves' = moves
  BY DEF Hello
<1> HIDE DEF h
<1>3. CASE RoomForStranger(h)
  <2>1. /\ contact' = [contact EXCEPT ![h] = New("stranger", link[l].fp)]
        /\ link' = [link EXCEPT ![l] = [[link[l] EXCEPT !.host = h] EXCEPT !.listed = TRUE]]
        /\ Bind(l, h)
        /\ naming' \in {naming, naming \cup ({h} \cap Addrs)}
    BY <1>3 DEF Hello, h, Inv, SafeLinks
  <2>2. /\ SafeTable(contact') /\ Pin(contact, contact') /\ Holds(contact, contact')
        /\ SafeLinks(contact', link)
        /\ contact'[h] = New("stranger", link[l].fp) /\ contact'[h] # None
    BY <1>0, <1>1, <1>3, <2>1, EditIs, EditStep
  <2> DEFINE s == [[link[l] EXCEPT !.host = h] EXCEPT !.listed = TRUE]
  <2>3. s \in Session /\ s.host = h /\ s.fp = link[l].fp /\ h # None
    BY <1>0, <1>1, HostsAre DEF Session
  <2>4. contact'[h].fp = link[l].fp
    BY <1>0, <2>2, NewRecord
  <2> HIDE DEF s
  <2>5. FiledIn(contact', s) /\ Proved(s)
    BY <1>0, <1>1, <2>2, <2>3, <2>4 DEF FiledIn, Proved, KeysOf
  <2>6. SafeLinks(contact', link')
    BY <2>1, <2>2, <2>3, <2>5, LinkSet DEF s
  <2>7. bound' \in [Hosts -> Links \cup {None}]
    BY <1>1, <2>1, BindIs DEF Inv
  <2>8. QED
    BY <1>2, <2>1, <2>2, <2>6, <2>7 DEF Inv, Holds
<1>4. CASE ~RoomForStranger(h)
  <2>1. link' = [link EXCEPT ![l] = NoSession] /\ UNCHANGED <<contact, bound, naming>>
    BY <1>4 DEF Hello, h
  <2>2. SafeLinks(contact, link')
    BY <2>1, NoLink, LinkSet DEF Inv
  <2>3. QED
    BY <1>2, <2>1, <2>2, SameStep DEF Inv
<1>5. QED
  BY <1>3, <1>4

\* What a key of a record wrote is filed there.
LEMMA StoresStep ==
  ASSUME Inv, NEW h \in Hosts, contact[h] # None, NEW fp \in Fps, fp \in KeysOf(contact[h]), NEW id \in Ids,
         contact' = [contact EXCEPT ![h] = Stores(@, <<fp, id>>)]
  PROVE  /\ SafeTable(contact') /\ Pin(contact, contact') /\ Holds(contact, contact')
         /\ SafeLinks(contact', link)
<1>1. Becomes(contact[h], Stores(contact[h], <<fp, id>>))
  BY RecordSteps DEF Inv, SafeTable
<1>2. contact' = [contact EXCEPT ![h] = Stores(contact[h], <<fp, id>>)]
  BY DEF Inv, SafeTable
<1>3. QED
  BY <1>1, <1>2, EditIs, EditStep

LEMMA MsgInStep ==
  ASSUME Inv, NEW l \in Links, NEW id \in Ids, MsgIn(l, id)
  PROVE  Inv' /\ Pin(contact, contact')
<1>1. UNCHANGED <<link, bound, dial, naming, moves>>
  BY DEF MsgIn
<1>2. CASE ~link[l].listed
  BY <1>1, <1>2, SameStep DEF MsgIn, Inv
<1>3. CASE link[l].listed
  <2>1. /\ link[l].host \in Hosts /\ contact[link[l].host] # None
        /\ link[l].fp \in KeysOf(contact[link[l].host]) /\ link[l].fp \in Fps
    BY <1>3 DEF Inv, SafeLinks, FiledIn
  <2>2. contact' = [contact EXCEPT ![link[l].host] = Stores(@, <<link[l].fp, id>>)]
    BY <1>3 DEF MsgIn
  <2>3. /\ SafeTable(contact') /\ Pin(contact, contact') /\ Holds(contact, contact')
        /\ SafeLinks(contact', link)
    BY <2>1, <2>2, StoresStep
  <2>4. QED
    BY <1>1, <2>3 DEF Inv, Holds
<1>4. QED
  BY <1>2, <1>3

LEMMA MailInStep ==
  ASSUME Inv, NEW fp \in Fps, NEW id \in Ids, MailIn(fp, id)
  PROVE  Inv' /\ Pin(contact, contact')
<1> DEFINE m == <<fp, id>>
           h == <<"mbox", fp>>
           new == New("stranger", fp)
<1>1. UNCHANGED <<link, bound, dial, naming, moves>>
  BY DEF MailIn
<1>2. ASSUME SafeTable(contact'), Pin(contact, contact'), Holds(contact, contact'), SafeLinks(contact', link)
      PROVE  Inv' /\ Pin(contact, contact')
  BY <1>1, <1>2 DEF Inv, Holds
<1>3. ASSUME NEW k \in ByKey(fp), contact' = [contact EXCEPT ![k] = Stores(@, m)]
      PROVE  Inv' /\ Pin(contact, contact')
  <2>1. k \in Hosts /\ contact[k] # None /\ fp \in KeysOf(contact[k])
    BY FoundByKey DEF KeysOf
  <2>2. QED
    BY <1>2, <1>3, <2>1, StoresStep
<1>4. ASSUME RoomForStranger(h), NEW r \in {new, Stores(new, m)}, contact' = [contact EXCEPT ![h] = r]
      PROVE  Inv' /\ Pin(contact, contact')
  <2>1. h \in Hosts /\ Edit(contact, h, new)
    BY <1>4, HostsAre, EditIs
  <2>2. Sane(new) /\ fp \in KeysOf(new) /\ new.who = "stranger"
    BY NewRecord DEF KeysOf
  <2>3. contact[h] = None
    BY <1>4 DEF RoomForStranger
  <2> HIDE DEF new
  <2>4. Becomes(new, Stores(new, m))
    BY <2>2, RecordSteps
  <2>5. Edit(contact, h, Stores(new, m))
    BY <2>1, <2>2, <2>3, <2>4, NoneAssumption DEF Edit, Becomes, Sane
  <2> HIDE DEF h, m
  <2>6. QED
    BY <1>2, <1>4, <2>1, <2>5, EditStep
<1>5. QED
  BY <1>3, <1>4 DEF MailIn

LEMMA LinkEndsStep ==
  ASSUME Inv, NEW l \in Links, LinkCloses(l) \/ SockClosed(l)
  PROVE  Inv' /\ Pin(contact, contact')
<1>1. CASE LinkCloses(l)
  <2> DEFINE s == [link[l] EXCEPT !.up = "closing"]
  <2>1. link' = [link EXCEPT ![l] = s] /\ UNCHANGED <<contact, bound, dial, naming, moves>>
    BY <1>1 DEF LinkCloses
  <2>2. link[l] \in Session /\ FiledIn(contact, link[l]) /\ Proved(link[l]) /\ link[l].up # "free"
    BY <1>1 DEF Inv, SafeLinks, LinkCloses
  <2>3. s \in Session /\ FiledIn(contact, s) /\ Proved(s)
    BY <2>2 DEF Session, FiledIn, Proved
  <2> HIDE DEF s
  <2>4. SafeLinks(contact, link')
    BY <2>1, <2>3, LinkSet DEF Inv
  <2>5. QED
    BY <2>1, <2>4, SameStep DEF Inv
<1>2. CASE SockClosed(l)
  <2>1. /\ link' = [link EXCEPT ![l] = NoSession] /\ UNCHANGED <<contact, dial, naming, moves>>
        /\ bound' \in [Hosts -> Links \cup {None}]
    BY <1>2 DEF SockClosed, Inv
  <2>2. SafeLinks(contact, link')
    BY <2>1, NoLink, LinkSet DEF Inv
  <2>3. QED
    BY <2>1, <2>2, SameStep DEF Inv
<1>3. QED
  BY <1>1, <1>2

-----------------------------------------------------------------------------
(* Dialling, and what NodeSignal files by itself.                          *)

LEMMA DialAnsweredStep ==
  ASSUME Inv, NEW h \in Hosts, NEW l \in Links, NEW fp \in Fps, DialAnswered(h, l, fp)
  PROVE  Inv' /\ Pin(contact, contact')
<1> DEFINE s == [up |-> "open", addr |-> None, fp |-> fp, host |-> h, listed |-> dial[h] = "listed"]
<1>1. /\ dial' = [dial EXCEPT ![h] = "no"] /\ naming' = naming /\ moves' = moves
  BY DEF DialAnswered
<1>2. s \in Session /\ Proved(s) /\ s.fp = fp /\ s.host = h /\ (s.listed <=> dial[h] = "listed")
  BY HostsAre DEF Session, Proved
<1> HIDE DEF s
<1>3. ASSUME SafeTable(contact'), Pin(contact, contact'), Holds(contact, contact'), SafeLinks(contact', link'),
             bound' \in [Hosts -> Links \cup {None}]
      PROVE  Inv' /\ Pin(contact, contact')
  BY <1>1, <1>3 DEF Inv, Holds
<1>4. ASSUME dial[h] = "listed", TofuOk(contact[h], fp),
             contact' = [contact EXCEPT ![h] = Pinned(@, fp)],
             link' = [link EXCEPT ![l] = s], Bind(l, h)
      PROVE  Inv' /\ Pin(contact, contact')
  <2>1. contact[h] # None
    BY <1>4 DEF Inv
  <2>2. Becomes(contact[h], Pinned(contact[h], fp)) /\ fp \in KeysOf(Pinned(contact[h], fp))
    BY <1>4, <2>1, RecordSteps DEF Inv, SafeTable
  <2>3. contact' = [contact EXCEPT ![h] = Pinned(contact[h], fp)]
    BY <1>4 DEF Inv, SafeTable
  <2>4. /\ SafeTable(contact') /\ Pin(contact, contact') /\ Holds(contact, contact')
        /\ SafeLinks(contact', link)
        /\ contact'[h] = Pinned(contact[h], fp) /\ contact'[h] # None
    BY <2>1, <2>2, <2>3, EditIs, EditStep
  <2>5. FiledIn(contact', s)
    BY <1>2, <2>2, <2>4 DEF FiledIn
  <2>6. SafeLinks(contact', link')
    BY <1>2, <1>4, <2>4, <2>5, LinkSet
  <2>7. bound' \in [Hosts -> Links \cup {None}]
    BY <1>4, BindIs DEF Inv
  <2>8. QED
    BY <1>3, <2>4, <2>6, <2>7
<1>5. ASSUME dial[h] = "listed", ~TofuOk(contact[h], fp),
             contact' = [contact EXCEPT ![h] = Doubted(@, fp)], UNCHANGED <<link, bound>>
      PROVE  Inv' /\ Pin(contact, contact')
  <2>1. contact[h] # None
    BY <1>5 DEF Inv
  <2>2. Becomes(contact[h], Doubted(contact[h], fp))
    BY <1>5, <2>1, RecordSteps DEF Inv, SafeTable
  <2>3. contact' = [contact EXCEPT ![h] = Doubted(contact[h], fp)]
    BY <1>5 DEF Inv, SafeTable
  <2>4. /\ SafeTable(contact') /\ Pin(contact, contact') /\ Holds(contact, contact')
        /\ SafeLinks(contact', link)
    BY <2>1, <2>2, <2>3, EditIs, EditStep
  <2>5. QED
    BY <1>3, <1>5, <2>4 DEF Inv
<1>6. ASSUME dial[h] # "listed", link' = [link EXCEPT ![l] = s], Bind(l, h), UNCHANGED contact
      PROVE  Inv' /\ Pin(contact, contact')
  <2>1. SafeLinks(contact, link')
    BY <1>2, <1>6, LinkSet DEF Inv, FiledIn
  <2>2. bound' \in [Hosts -> Links \cup {None}]
    BY <1>6, BindIs DEF Inv
  <2>3. QED
    BY <1>3, <1>6, <2>1, <2>2, SameStep
<1>7. QED
  BY <1>4, <1>5, <1>6 DEF DialAnswered, s

LEMMA DialsStep ==
  ASSUME Inv, NEW h \in Hosts, DialStarts(h) \/ DialFails(h)
  PROVE  Inv' /\ Pin(contact, contact')
<1>1. CASE DialStarts(h)
  <2>1. /\ dial' = Dialling(h) /\ contact[h] # None
        /\ UNCHANGED <<contact, link, bound, naming, moves>>
    BY <1>1 DEF DialStarts
  <2>2. QED
    BY <2>1, DiallingIs, SameStep DEF Inv
<1>2. CASE DialFails(h)
  <2>1. /\ dial' = [dial EXCEPT ![h] = "no"]
        /\ UNCHANGED <<contact, link, bound, naming, moves>>
    BY <1>2 DEF DialFails
  <2>2. QED
    BY <2>1, SameStep DEF Inv
<1>3. QED
  BY <1>1, <1>2

LEMMA FilingStep ==
  ASSUME Inv, Filing
  PROVE  Inv' /\ Pin(contact, contact')
<1>1. ASSUME NEW fp \in Fps, Introduced(fp) PROVE Inv' /\ Pin(contact, contact')
  <2> DEFINE h == <<"peer", fp>>
  <2>1. /\ h \in Hosts /\ contact[h] = None
        /\ contact' = [contact EXCEPT ![h] = New("auto", fp)]
        /\ UNCHANGED <<link, bound, dial, naming, moves>>
    BY <1>1, HostsAre DEF Introduced
  <2> HIDE DEF h
  <2>2. /\ SafeTable(contact') /\ Pin(contact, contact') /\ Holds(contact, contact')
        /\ SafeLinks(contact', link)
    BY <2>1, EditIs, EditStep
  <2>3. QED
    BY <2>1, <2>2 DEF Inv, Holds
<1>2. ASSUME NEW a \in Addrs, Identified(a) PROVE Inv' /\ Pin(contact, contact')
  <2>1. /\ naming' = naming \ {a}
        /\ UNCHANGED <<link, bound, dial, moves>>
    BY <1>2 DEF Identified
  <2>2. CASE contact[a] = None
    <3>1. contact' = [contact EXCEPT ![a] = New("chosen", None)]
      BY <1>2, <2>2 DEF Identified
    <3>2. /\ SafeTable(contact') /\ Pin(contact, contact') /\ Holds(contact, contact')
          /\ SafeLinks(contact', link)
      BY <2>2, <3>1, HostsAre, EditIs, EditStep
    <3>3. QED
      BY <2>1, <3>2 DEF Inv, Holds
  <2>3. CASE contact[a] # None
    BY <1>2, <2>1, <2>3, SameStep DEF Identified, Inv
  <2>4. QED
    BY <2>2, <2>3
<1>3. ASSUME NEW a \in Addrs, IdentifyFails(a) PROVE Inv' /\ Pin(contact, contact')
  <2>1. naming' = naming \ {a} /\ UNCHANGED <<contact, link, bound, dial, moves>>
    BY <1>3 DEF IdentifyFails
  <2>2. QED
    BY <2>1, SameStep DEF Inv
<1>4. QED
  BY <1>1, <1>2, <1>3 DEF Filing

-----------------------------------------------------------------------------
(* The operator.  Her moves are counted apart.                             *)

\* What an action of hers does to everything but the count.
Rest == /\ SafeTable(contact') /\ SafeLinks(contact', link')
        /\ bound' \in [Hosts -> Links \cup {None}]
        /\ dial' \in [Hosts -> {"no", "listed", "removed"}]
        /\ \A h \in Hosts : dial'[h] = "listed" => contact'[h] # None
        /\ naming' \subseteq Addrs
        /\ Pin(contact, contact')

\* A record, its links and nothing else move to an address with no record.
LEMMA RekeyStep ==
  ASSUME Inv, NEW p \in Hosts, NEW a \in Hosts, contact[p] # None, CanRekey(p, a), Rekey(p, a),
         NEW q, q # None, Becomes(contact[p], q),
         contact' = [contact EXCEPT ![p] = None, ![a] = q]
  PROVE  /\ SafeTable(contact') /\ Pin(contact, contact')
         /\ SafeLinks(contact', link')
         /\ bound' \in [Hosts -> Links \cup {None}]
         /\ \A h \in Hosts : dial[h] = "listed" => contact'[h] # None
         /\ contact'[a] # None
<1>1. contact[a] = None /\ dial[p] = "no" /\ a # p
  BY DEF CanRekey
<1>2. SafeTable(contact') /\ Pin(contact, contact')
  BY <1>1, MoveKeeps DEF Inv
<1>3. contact'[a] = q /\ \A k \in Hosts \ {p, a} : contact'[k] = contact[k]
  BY <1>1 DEF Inv, SafeTable
<1>4. ASSUME NEW l \in Links PROVE link'[l] \in Session /\ FiledIn(contact', link'[l]) /\ Proved(link'[l])
  <2>1. link[l] \in Session /\ FiledIn(contact, link[l]) /\ Proved(link[l])
    BY DEF Inv, SafeLinks
  <2>2. CASE link[l].host = p /\ link[l].listed
    <3>1. link'[l] = [link[l] EXCEPT !.host = a]
      BY <2>2 DEF Rekey
    <3>2. link[l].fp \in KeysOf(q)
      BY <2>1, <2>2, NoneAssumption DEF FiledIn, Becomes
    <3>3. a # None
      BY HostsAre
    <3>4. QED
      BY <1>3, <2>1, <2>2, <3>1, <3>2, <3>3 DEF Session, FiledIn, Proved
  <2>3. CASE ~(link[l].host = p /\ link[l].listed)
    <3>1. link'[l] = link[l]
      BY <2>3 DEF Rekey
    <3>2. QED
      BY <1>1, <1>3, <2>1, <2>3, <3>1 DEF FiledIn
  <2>4. QED
    BY <2>2, <2>3
<1>5. SafeLinks(contact', link')
  BY <1>4 DEF SafeLinks, Rekey
<1>6. bound' \in [Hosts -> Links \cup {None}]
  BY DEF Rekey, Inv
<1>7. \A h \in Hosts : dial[h] = "listed" => contact'[h] # None
  BY <1>1, <1>3 DEF Inv
<1>8. QED
  BY <1>2, <1>3, <1>5, <1>6, <1>7

\* ensureContact, accepted or joined.
LEMMA EnsuresStep ==
  ASSUME Inv, NEW a \in Addrs, NEW fp \in Fps, NEW h \in Hosts, NEW whose, Ensures(a, fp, h, whose)
  PROVE  /\ SafeTable(contact') /\ Pin(contact, contact')
         /\ SafeLinks(contact', link')
         /\ bound' \in [Hosts -> Links \cup {None}]
         /\ \A k \in Hosts : dial[k] = "listed" => contact'[k] # None
         /\ contact'[h] # None
<1>1. \A r : Sane(r) => Becomes(r, Promoted(r, whose))
  BY RecordSteps DEF Promoted
<1>2. ASSUME NEW p \in ByKey(fp) \cap Placeholders, CanRekey(p, a), h = a,
             contact' = [contact EXCEPT ![p] = None, ![a] = Promoted(contact[p], whose)], Rekey(p, a)
      PROVE  /\ SafeTable(contact') /\ Pin(contact, contact')
             /\ SafeLinks(contact', link')
             /\ bound' \in [Hosts -> Links \cup {None}]
             /\ \A k \in Hosts : dial[k] = "listed" => contact'[k] # None
             /\ contact'[h] # None
  <2>1. p \in Hosts /\ contact[p] # None /\ a \in Hosts
    BY FoundByKey, HostsAre
  <2>2. Becomes(contact[p], Promoted(contact[p], whose)) /\ Promoted(contact[p], whose) # None
    BY <1>1, <2>1, NoneAssumption DEF Inv, SafeTable, Becomes, Sane
  <2>3. QED
    BY <1>2, <2>1, <2>2, RekeyStep
<1>3. ASSUME NEW q, Edit(contact, h, q), contact' = [contact EXCEPT ![h] = q], UNCHANGED <<link, bound>>
      PROVE  /\ SafeTable(contact') /\ Pin(contact, contact')
             /\ SafeLinks(contact', link')
             /\ bound' \in [Hosts -> Links \cup {None}]
             /\ \A k \in Hosts : dial[k] = "listed" => contact'[k] # None
             /\ contact'[h] # None
  <2>1. /\ SafeTable(contact') /\ Pin(contact, contact') /\ Holds(contact, contact')
        /\ SafeLinks(contact', link)
        /\ contact'[h] = q /\ contact'[h] # None
    BY <1>3, EditStep
  <2>2. QED
    BY <1>3, <2>1 DEF Inv, Holds
<1>4. CASE /\ h \in ByKey(fp)
           /\ contact' = [contact EXCEPT ![h] = Promoted(@, whose)]
           /\ UNCHANGED <<link, bound>>
  <2>1. contact[h] # None /\ Becomes(contact[h], Promoted(contact[h], whose))
    BY <1>1, <1>4, FoundByKey DEF Inv, SafeTable
  <2>2. contact' = [contact EXCEPT ![h] = Promoted(contact[h], whose)]
    BY <1>4 DEF Inv, SafeTable
  <2>3. QED
    BY <1>3, <1>4, <2>1, <2>2, EditIs
<1>5. CASE /\ h = a /\ KeyAt(a) = None
           /\ contact' = [contact EXCEPT ![a] = IF @ = None THEN New("chosen", fp) ELSE Chosen(Pinned(@, fp))]
           /\ UNCHANGED <<link, bound>>
  <2> DEFINE q == IF contact[h] = None THEN New("chosen", fp) ELSE Chosen(Pinned(contact[h], fp))
  <2>1. contact' = [contact EXCEPT ![h] = q]
    BY <1>5 DEF Inv, SafeTable
  <2>2. Edit(contact, h, q)
    <3>1. CASE contact[h] = None
      BY <3>1, EditIs
    <3>2. CASE contact[h] # None
      <4>1. TofuOk(contact[h], fp)
        BY <1>5, <3>2 DEF KeyAt, TofuOk
      <4>2. Becomes(contact[h], Chosen(Pinned(contact[h], fp)))
        BY <3>2, <4>1, RecordSteps DEF Inv, SafeTable
      <4>3. QED
        BY <3>2, <4>2, EditIs
    <3>3. QED
      BY <3>1, <3>2
  <2> HIDE DEF q
  <2>3. QED
    BY <1>3, <1>5, <2>1, <2>2
<1>6. QED
  BY <1>2, <1>4, <1>5 DEF Ensures

\* What an edit of one record leaves to do.
LEMMA RestOfEdit ==
  ASSUME Inv, NEW h \in Hosts, NEW q, Edit(contact, h, q), contact' = [contact EXCEPT ![h] = q],
         UNCHANGED <<link, bound>>, dial' = dial \/ dial' = Dialling(h), naming' \subseteq Addrs
  PROVE  Rest
<1>1. /\ SafeTable(contact') /\ Pin(contact, contact') /\ Holds(contact, contact')
      /\ SafeLinks(contact', link) /\ contact'[h] # None
  BY EditStep
<1>2. dial' \in [Hosts -> {"no", "listed", "removed"}]
  BY DiallingIs DEF Inv
<1>3. \A k \in Hosts : dial'[k] = "listed" => contact'[k] # None
  BY <1>1, DiallingIs DEF Inv, Holds
<1>4. QED
  BY <1>1, <1>2, <1>3 DEF Rest, Inv

LEMMA AddsStep ==
  ASSUME Inv, NEW a \in Addrs, NEW fp \in Fps \cup {None}, Adds(a, fp)
  PROVE  Rest
<1> DEFINE moving == {p \in Placeholders : fp # None /\ p \in WithKey(fp) /\ CanRekey(p, a)}
           q == Chosen(IF contact[a] = None THEN New("chosen", fp)
                       ELSE IF fp # None THEN Pinned(contact[a], fp) ELSE contact[a])
<1>1. /\ naming' = naming \cup {a} /\ dial' = dial /\ a \in Hosts
      /\ contact[a] # None /\ fp # None => TofuOk(contact[a], fp)
  BY HostsAre DEF Adds
<1>2. ASSUME NEW p \in moving, contact' = [contact EXCEPT ![p] = None, ![a] = Chosen(contact[p])], Rekey(p, a)
      PROVE  Rest
  <2>1. p \in Hosts /\ contact[p] # None /\ CanRekey(p, a)
    BY <1>2, HostsAre DEF WithKey, KeyAt
  <2>2. Becomes(contact[p], Chosen(contact[p])) /\ Chosen(contact[p]) # None
    <3>1. Sane(contact[p])
      BY <2>1 DEF Inv, SafeTable
    <3>2. QED
      BY <2>1, <3>1, RecordSteps, NoneAssumption DEF Becomes, Sane
  <2>3. /\ SafeTable(contact') /\ Pin(contact, contact')
        /\ SafeLinks(contact', link')
        /\ bound' \in [Hosts -> Links \cup {None}]
        /\ \A h \in Hosts : dial[h] = "listed" => contact'[h] # None
    BY <1>1, <1>2, <2>1, <2>2, RekeyStep
  <2>4. QED
    BY <1>1, <2>3 DEF Rest, Inv
<1>3. CASE contact' = [contact EXCEPT ![a] = q] /\ UNCHANGED <<link, bound>>
  <2>1. Edit(contact, a, q)
    <3>1. CASE contact[a] = None
      <4>1. Sane(New("chosen", fp)) /\ New("chosen", fp).who = "chosen"
        BY NewRecord
      <4>2. q = Chosen(New("chosen", fp))
        BY <3>1
      <4> HIDE DEF q
      <4>3. Sane(q)
        BY <4>1, <4>2, RecordSteps DEF Becomes
      <4>4. q.who = "chosen"
        BY <4>1, <4>2 DEF Sane, Chosen, Record
      <4>5. QED
        BY <3>1, <4>3, <4>4, NoneAssumption DEF Edit, Sane
    <3>2. CASE contact[a] # None
      <4>1. Becomes(contact[a], q)
        BY <1>1, <3>2, RecordSteps DEF Inv, SafeTable
      <4> HIDE DEF q
      <4>2. QED
        BY <1>1, <3>2, <4>1, EditIs
    <3>3. QED
      BY <3>1, <3>2
  <2> HIDE DEF q
  <2>2. naming' \subseteq Addrs
    BY <1>1 DEF Inv
  <2>3. QED
    BY <1>1, <1>3, <2>1, <2>2, RestOfEdit
<1>4. QED
  BY <1>2, <1>3 DEF Adds

LEMMA WritesStep ==
  ASSUME Inv, NEW h \in Hosts, Writes(h)
  PROVE  Rest
<1> DEFINE q == IF contact[h] = None THEN New("chosen", None) ELSE Chosen(contact[h])
<1>1. contact' = [contact EXCEPT ![h] = q] /\ UNCHANGED <<link, bound>> /\ dial' = Dialling(h)
  BY DEF Writes, Inv, SafeTable
<1>2. naming' \subseteq Addrs
  BY DEF Writes, Inv
<1>3. Edit(contact, h, q)
  <2>1. CASE contact[h] = None
    BY <2>1, EditIs
  <2>2. CASE contact[h] # None
    <3>1. Becomes(contact[h], Chosen(contact[h]))
      BY <2>2, RecordSteps DEF Inv, SafeTable
    <3>2. QED
      BY <2>2, <3>1, EditIs
  <2>3. QED
    BY <2>1, <2>2
<1> HIDE DEF q
<1>4. QED
  BY <1>1, <1>2, <1>3, RestOfEdit

LEMMA InvitedStep ==
  ASSUME Inv, NEW a \in Addrs, NEW fp \in Fps, Accepts(a, fp) \/ Joins(a, fp)
  PROVE  Rest
<1>1. ASSUME NEW h \in Hosts, NEW whose, Ensures(a, fp, h, whose),
             dial' = dial \/ dial' = Dialling(h), naming' \subseteq Addrs
      PROVE  Rest
  <2>1. /\ SafeTable(contact') /\ Pin(contact, contact')
        /\ SafeLinks(contact', link')
        /\ bound' \in [Hosts -> Links \cup {None}]
        /\ \A k \in Hosts : dial[k] = "listed" => contact'[k] # None
        /\ contact'[h] # None
    BY <1>1, EnsuresStep
  <2>2. /\ dial' \in [Hosts -> {"no", "listed", "removed"}]
        /\ \A k \in Hosts : dial'[k] = "listed" => contact'[k] # None
    BY <1>1, <2>1, DiallingIs DEF Inv
  <2>3. QED
    BY <1>1, <2>1, <2>2 DEF Rest
<1>2. CASE Accepts(a, fp)
  <2>1. PICK h \in Hosts : /\ Ensures(a, fp, h, {"stranger", "auto", "chosen"})
                           /\ naming' = naming \cup ({h} \cap Addrs)
                           /\ UNCHANGED dial
    BY <1>2 DEF Accepts
  <2>2. QED
    BY <1>1, <2>1 DEF Inv
<1>3. CASE Joins(a, fp)
  <2>1. PICK h \in Hosts : /\ Ensures(a, fp, h, IF h = a THEN {"auto"} ELSE {})
                           /\ dial' = IF bound'[h] = None THEN Dialling(h) ELSE dial
                           /\ UNCHANGED naming
    BY <1>3 DEF Joins
  <2>2. QED
    BY <1>1, <2>1 DEF Inv
<1>4. QED
  BY <1>2, <1>3

LEMMA ReviewsStep ==
  ASSUME Inv, NEW h \in Hosts, AcceptsKey(h) \/ DismissesKey(h)
  PROVE  Rest
<1> DEFINE q == [contact[h] EXCEPT !.fp = contact[h].pending, !.pending = None,
                                   !.prev = @ \cup {contact[h].fp}]
           p == [contact[h] EXCEPT !.pending = None]
<1>1. /\ contact[h] # None /\ contact[h].pending # None
      /\ UNCHANGED <<link, bound, dial, naming>>
  BY DEF AcceptsKey, DismissesKey
<1>2. Edit(contact, h, q) /\ Edit(contact, h, p)
  BY <1>1, EditIs, RecordSteps DEF Inv, SafeTable
<1>3. contact' = [contact EXCEPT ![h] = q] \/ contact' = [contact EXCEPT ![h] = p]
  <2>1. contact[h] \in Record /\ contact \in [Hosts -> Record \cup {None}]
    BY <1>1 DEF Inv, SafeTable, Sane
  <2>2. CASE AcceptsKey(h)
    BY <2>1, <2>2 DEF AcceptsKey, Record
  <2>3. CASE DismissesKey(h)
    BY <2>1, <2>3 DEF DismissesKey
  <2>4. QED
    BY <2>2, <2>3
<1>4. naming' \subseteq Addrs
  BY <1>1 DEF Inv
<1> HIDE DEF p, q
<1>5. QED
  BY <1>1, <1>2, <1>3, <1>4, RestOfEdit

LEMMA RemovesStep ==
  ASSUME Inv, NEW h \in Hosts, Removes(h)
  PROVE  Rest
<1>1. contact' = [contact EXCEPT ![h] = None] /\ UNCHANGED <<bound, naming>>
  BY DEF Removes
<1>2. SafeTable(contact') /\ Pin(contact, contact')
  BY <1>1, RemoveKeeps DEF Inv
<1>3. \A k \in Hosts : k # h => contact'[k] = contact[k]
  BY <1>1 DEF Inv, SafeTable
<1>4. ASSUME NEW l \in Links PROVE link'[l] \in Session /\ FiledIn(contact', link'[l]) /\ Proved(link'[l])
  <2>1. link[l] \in Session /\ FiledIn(contact, link[l]) /\ Proved(link[l])
    BY DEF Inv, SafeLinks
  <2>2. link'[l] = IF link[l].host = h THEN [link[l] EXCEPT !.listed = FALSE] ELSE link[l]
    BY DEF Removes
  <2>3. CASE link[l].host = h
    BY <2>1, <2>2, <2>3 DEF Session, FiledIn, Proved
  <2>4. CASE link[l].host # h
    BY <1>3, <2>1, <2>2, <2>4 DEF FiledIn
  <2>5. QED
    BY <2>3, <2>4
<1>5. SafeLinks(contact', link')
  BY <1>4 DEF SafeLinks, Removes
<1>6. /\ dial' \in [Hosts -> {"no", "listed", "removed"}]
      /\ \A k \in Hosts : dial'[k] = "listed" => contact'[k] # None
  BY <1>3 DEF Removes, Inv
<1>7. QED
  BY <1>1, <1>2, <1>5, <1>6 DEF Rest, Inv

-----------------------------------------------------------------------------
(* The theorems on contacts.                                                *)

LEMMA InvInit == Init => Inv
<1> SUFFICES ASSUME Init PROVE Inv
  OBVIOUS
<1>1. Strangers(contact) = {}
  BY DEF Init, Strangers
<1>2. SafeTable(contact)
  BY <1>1, FS_EmptySet, LimitsAssumption DEF Init, SafeTable
<1>3. SafeLinks(contact, link)
  BY NoLink DEF Init, SafeLinks
<1>4. QED
  BY <1>2, <1>3, LimitsAssumption DEF Init, Inv

LEMMA InvStep == Inv /\ [Next]_vars => Inv' /\ Pin(contact, contact')
<1> SUFFICES ASSUME Inv, [Next]_vars PROVE Inv' /\ Pin(contact, contact')
  OBVIOUS
<1>1. CASE UNCHANGED vars
  BY <1>1, SameStep DEF vars, Inv
<1>2. CASE Peers
  BY <1>2, CallsStep, HelloStep, MsgInStep, MailInStep, LinkEndsStep DEF Peers
<1>3. CASE Dials
  BY <1>3, DialsStep, DialAnsweredStep DEF Dials
<1>4. CASE Filing
  BY <1>4, FilingStep
<1>5. CASE Operator
  <2>1. Rest
    BY <1>5, AddsStep, WritesStep, InvitedStep, ReviewsStep, RemovesStep DEF Operator
  <2>2. moves' \in 0..MaxMoves
    BY <1>5, LimitsAssumption DEF Operator, Inv
  <2>3. QED
    BY <2>1, <2>2 DEF Rest, Inv
<1>6. QED
  BY <1>1, <1>2, <1>3, <1>4, <1>5 DEF Next

LEMMA Always == HostSpec => []Inv
<1>1. HostInit => Inv
  BY InvInit DEF HostInit
<1>2. Inv /\ [HostNext]_<<vars, hostVars>> => Inv'
  BY InvStep, Steps
<1>3. QED
  BY <1>1, <1>2, PTL DEF HostSpec

\* The variables keep their types.
THEOREM ContactsTypeCorrect == HostSpec => []TypeOK
<1>1. Inv => TypeOK
  BY DEF Inv, TypeOK, SafeTable, SafeLinks
<1>2. QED
  BY <1>1, Always, PTL

\* However peers call, records are removed, moved and made again, and whatever
\* link or dial is under way meanwhile: a conversation holds only what a key
\* pinned there wrote, and a pinned key changes only to one the operator was
\* shown.
THEOREM KeysHoldTheorem == HostSpec => KeysHold
<1>1. Inv => FiledUnderKey
  BY DEF Inv, SafeTable, Sane, KeysOf, FiledUnderKey
<1>2. Inv /\ Inv' => FiledUnderKey'
  BY <1>1, PTL
<1>3. Pin(contact, contact') =>
        \A h \in Hosts : contact[h] # None /\ contact'[h] # None /\ contact[h].fp # None =>
                           contact'[h].fp \in {contact[h].fp, contact[h].pending}
  BY DEF Pin
<1>4. [HostNext]_<<vars, hostVars>> => [Next]_vars
  BY Steps
<1>5. QED
  BY <1>2, <1>3, <1>4, Always, InvStep, PTL DEF HostSpec, KeysHold, PinHolds

\* Under however many keys, from however many addresses: strangers have at most
\* MaxStrangers records, of StrangerMsgs messages at most.
THEOREM StrangersOnBudgetTheorem == HostSpec => []StrangersOnBudget
<1>1. Inv => StrangersOnBudget
  BY DEF Inv, SafeTable, Sane, Strangers, Listed, StrangersOnBudget
<1>2. QED
  BY <1>1, Always, PTL

-----------------------------------------------------------------------------
(* The Bitcoin node that is found.                                         *)

O == INSTANCE Folding WITH Op <- LAMBDA S, r, x : IF x \in S THEN Append(r, x) ELSE r

\* filter() keeps the items that pass, and no others.
LEMMA DtOnly ==
  ASSUME NEW S, NEW T, NEW s \in Seq(T)
  PROVE  LET r == Dt!Only(s, S) IN
         /\ r \in Seq(T)
         /\ \A i \in DOMAIN r : r[i] \in S /\ \E j \in DOMAIN s : r[i] = s[j]
         /\ \A j \in DOMAIN s : s[j] \in S => \E i \in DOMAIN r : r[i] = s[j]
<1> DEFINE r == Dt!Only(s, S)
<1>1. r = O!Value(S, <<>>, s)
  BY DEF Dt!Only, Dt!FoldLeft, Dt!MapThenFoldSet, O!Value, O!FoldOf, O!Folds, O!Max, Dt!Max
<1>2. \A q \in Seq(T), x \in T : (IF x \in S THEN Append(q, x) ELSE q) = IF x \in S THEN Append(q, x) ELSE q
  OBVIOUS
<1>3. /\ O!Value(S, <<>>, s) \in Seq(T)
      /\ \E f : O!Picked(S, s, Len(s), O!Value(S, <<>>, s), f)
  BY <1>2, O!Picks
<1>4. r \in Seq(T) /\ \E f : O!Picked(S, s, Len(s), r, f)
  BY <1>1, <1>3
<1> HIDE DEF r
<1>5. PICK f : O!Picked(S, s, Len(s), r, f)
  BY <1>4
<1>6. /\ f \in [1..Len(r) -> 1..Len(s)]
      /\ \A i \in 1..Len(r) : r[i] = s[f[i]] /\ s[f[i]] \in S
      /\ \A p \in 1..Len(s) : s[p] \in S => \E i \in 1..Len(r) : f[i] = p
  BY <1>5 DEF O!Picked
<1>7. DOMAIN r = 1..Len(r) /\ DOMAIN s = 1..Len(s)
  BY <1>4
<1>8. \A i \in DOMAIN r : r[i] \in S /\ \E j \in DOMAIN s : r[i] = s[j]
  BY <1>6, <1>7
<1>9. \A j \in DOMAIN s : s[j] \in S => \E i \in DOMAIN r : r[i] = s[j]
  BY <1>6, <1>7
<1>10. QED
  BY <1>4, <1>8, <1>9 DEF r

\* Two lists of one item.
LEMMA TwoItems ==
  ASSUME NEW T, NEW a \in T, NEW b \in T
  PROVE  <<a>> \o <<b>> = <<a, b>>
<1> DEFINE x == <<a>>
           y == <<b>>
           z == x \o y
<1>1. x \in Seq(T) /\ y \in Seq(T) /\ Len(x) = 1 /\ Len(y) = 1 /\ x[1] = a /\ y[1] = b
  OBVIOUS
<1> HIDE DEF x, y
<1>2. /\ z \in Seq(T)
      /\ Len(z) = Len(x) + Len(y)
      /\ \A i \in 1..(Len(x) + Len(y)) : z[i] = IF i <= Len(x) THEN x[i] ELSE y[i - Len(x)]
  BY <1>1, ConcatProperties, Zenon
<1> HIDE DEF z
<1>3. z \in Seq(T) /\ Len(z) = 2 /\ z[1] = a /\ z[2] = b
  <2>1. 1 \in 1..(1 + 1) /\ 2 \in 1..(1 + 1) /\ 1 <= 1 /\ ~(2 <= 1) /\ 2 - 1 = 1 /\ 1 + 1 = 2
    OBVIOUS
  <2>2. QED
    BY <1>1, <1>2, <2>1
<1>4. z = <<a, b>>
  BY <1>3
<1>5. QED
  BY <1>4 DEF x, y, z

\* find() gives the first that passes.
DtFind(m, s) == Dt!FirstThat(s, LAMBDA x : Dt!IsConf(m, x), None)

LEMMA DtFirst ==
  ASSUME NEW m, NEW s, NEW n \in Nat, DOMAIN s = 1..n, Len(s) = n
  PROVE  LET c == DtFind(m, s) IN
         /\ c # None => \E i \in DOMAIN s : c = s[i] /\ Dt!IsConf(m, c)
         /\ n > 0 /\ Dt!IsConf(m, s[1]) => c = s[1]
<1> DEFINE I == {i \in 1..n : Dt!IsConf(m, s[i])}
           c == DtFind(m, s)
<1>1. c = IF (IF I # {} THEN Dt!Min(I) ELSE 0) = 0 THEN None ELSE s[IF I # {} THEN Dt!Min(I) ELSE 0]
  BY DEF DtFind, Dt!FirstThat, Dt!SelectInSeq
<1>2. I \in SUBSET Nat /\ \A i \in I : i \in 1..n /\ Dt!IsConf(m, s[i])
  OBVIOUS
<1>3. n > 0 /\ Dt!IsConf(m, s[1]) => 1 \in I
  OBVIOUS
<1> HIDE DEF c, I
<1>4. ASSUME I # {} PROVE Dt!Min(I) \in I /\ \A i \in I : Dt!Min(I) <= i
  <2>1. \E k \in I : \A i \in I : k <= i
    BY <1>2, <1>4, Least
  <2>2. QED
    BY <2>1 DEF Dt!Min
<1>5. CASE I = {}
  <2>1. c = None
    BY <1>1, <1>5
  <2>2. QED
    BY <1>3, <1>5, <2>1 DEF c
<1>6. CASE I # {}
  <2> DEFINE k == Dt!Min(I)
  <2>a. k \in I
    BY <1>4, <1>6
  <2>b. k \in 1..n /\ Dt!IsConf(m, s[k])
    BY <1>2, <2>a
  <2>c. k # 0
    BY <2>b
  <2>d. c = s[k]
    BY <1>1, <1>6, <2>c
  <2> HIDE DEF k
  <2>1. k \in 1..n /\ c = s[k] /\ Dt!IsConf(m, c)
    BY <2>b, <2>d
  <2>2. 1 \in I => k = 1
    BY <1>4, <1>6, <2>1 DEF k
  <2>3. QED
    BY <1>3, <2>1, <2>2 DEF c
<1>7. QED
  BY <1>5, <1>6

\* A process, and a machine, of the model.
DtProc == [exe : {"root", "user", "unknown"}, uid : {"btc", "other", None},
           datadir : {"given", "other", None}, conf : {"own", "theirs", None}, foreign : BOOLEAN]
DtMachine(m) ==
  /\ m \in Dt!Machines
  /\ m.dir["given"] # "none"
  /\ m.win => ~m.stranger /\ m.dir["sys"] = "none"

LEMMA DtNodes == NodesOfAll \subseteq DtProc /\ Dt!Stranger \in DtProc /\ Dt!Stranger.exe = "user"
                 /\ \A n \in NodesOfAll : n.exe # "user"
<1>1. [exe : {"root", "unknown"}, uid : {"btc"}, datadir : {None, "given"}, conf : {None, "own"},
       foreign : {FALSE}] \subseteq DtProc
  BY DEF DtProc
<1>2. [exe |-> "root", uid |-> "btc", datadir |-> None, conf |-> "own", foreign |-> TRUE] \in DtProc
  BY DEF DtProc
<1>3. Dt!Stranger \in DtProc /\ Dt!Stranger.exe = "user"
  BY DEF DtProc, Dt!Stranger
<1>4. \A n \in NodesOfAll : n.exe # "user"
  <2>1. \A n \in [exe : {"root", "unknown"}, uid : {"btc"}, datadir : {None, "given"}, conf : {None, "own"},
                   foreign : {FALSE}] : n.exe # "user"
    OBVIOUS
  <2>2. [exe |-> "root", uid |-> "btc", datadir |-> None, conf |-> "own", foreign |-> TRUE].exe # "user"
    OBVIOUS
  <2>3. QED
    BY <2>1, <2>2, Zenon DEF NodesOfAll
<1>5. QED
  BY <1>1, <1>2, <1>3, <1>4 DEF NodesOfAll

\* The processes that are believed: beside a node root installed, and where no other
\* runs, all of them say what the node says.
LEMMA DtBelieved ==
  ASSUME NEW m, DtMachine(m)
  PROVE  LET ps == Dt!Believed(m)   n == m.node IN
         /\ ps \in Seq(DtProc)
         /\ n = None /\ ~m.stranger => ps = <<>>
         /\ n # None /\ (n.exe = "root" \/ ~m.stranger) /\ ~m.win =>
              /\ ps # <<>>
              /\ \A i \in DOMAIN ps : /\ ps[i].datadir = n.datadir /\ ps[i].uid = n.uid
                                      /\ ps[i].conf = IF n.foreign THEN None ELSE n.conf
<1> DEFINE n == m.node
           St == Dt!Stranger
           all == (IF m.stranger THEN <<St>> ELSE <<>>) \o (IF n = None THEN <<>> ELSE <<n>>)
           kept == IF \E i \in DOMAIN all : all[i].exe = "root"
                   THEN Dt!Only(all, {p \in Dt!ToSet(all) : p.exe # "user"}) ELSE all
           ps == Dt!Believed(m)
<1>1. /\ n = None \/ (n \in DtProc /\ n # None /\ n.exe # "user")
      /\ St \in DtProc /\ St.exe = "user"
      /\ m.win \in BOOLEAN /\ m.stranger \in BOOLEAN
  <2>1. n \in NodesOfAll \cup {None} /\ m.win \in BOOLEAN /\ m.stranger \in BOOLEAN
    BY DEF DtMachine, Dt!Machines
  <2> HIDE DEF n, St
  <2>2. St \in DtProc /\ St.exe = "user"
    BY DtNodes DEF St
  <2>3. n \in NodesOfAll => n \in DtProc /\ n # None /\ n.exe # "user"
    BY DtNodes, NodesAssumption, Zenon
  <2>4. QED
    BY <2>1, <2>2, <2>3
<1> HIDE DEF n, St
<1>2. /\ all \in Seq(DtProc)
      /\ \A i \in DOMAIN all : (all[i] = n /\ n # None) \/ (all[i] = St /\ m.stranger)
      /\ n # None => \E i \in DOMAIN all : all[i] = n
      /\ n = None /\ ~m.stranger => all = <<>>
  <2>1. CASE m.stranger /\ n # None
    <3>1. all = <<St>> \o <<n>>
      BY <2>1
    <3> HIDE DEF all
    <3>2. all = <<St, n>>
      BY <1>1, <2>1, <3>1, TwoItems
    <3>3. all \in Seq(DtProc) /\ DOMAIN all = 1..2 /\ all[1] = St /\ all[2] = n
      BY <1>1, <2>1, <3>2
    <3>4. QED
      BY <2>1, <3>3
  <2>2. CASE m.stranger /\ n = None
    <3>1. all = <<St>>
      BY <2>2
    <3>2. QED
      BY <1>1, <2>2, <3>1
  <2>3. CASE ~m.stranger /\ n # None
    <3>1. all = <<n>>
      BY <2>3
    <3> HIDE DEF all
    <3>2. DOMAIN all = {1} /\ all[1] = n
      BY <3>1
    <3>3. all \in Seq(DtProc)
      BY <1>1, <2>3, <3>1
    <3>4. \A i \in DOMAIN all : all[i] = n
      BY <3>2
    <3>5. \E i \in DOMAIN all : all[i] = n
      BY <3>2
    <3>6. QED
      BY <2>3, <3>3, <3>4, <3>5
  <2>4. CASE ~m.stranger /\ n = None
    <3>1. all = <<>>
      BY <2>4
    <3>2. QED
      BY <1>1, <2>4, <3>1
  <2>5. QED
    BY <2>1, <2>2, <2>3, <2>4
<1> HIDE DEF all
<1>3. ~m.win => ps = [i \in DOMAIN kept |->
                       IF kept[i].foreign THEN [kept[i] EXCEPT !.conf = None] ELSE kept[i]]
  BY DEF Dt!Believed, Dt!Listed, all, n, St
<1>4. m.win => ps = [i \in DOMAIN all |-> [all[i] EXCEPT !.uid = None, !.datadir = None, !.conf = None]]
  BY DEF Dt!Believed, Dt!Listed, all, n, St
<1>5. /\ kept \in Seq(DtProc)
      /\ \A i \in DOMAIN kept : \E j \in DOMAIN all : kept[i] = all[j]
      /\ n # None => \E i \in DOMAIN kept : kept[i] = n
      /\ n # None /\ (n.exe = "root" \/ ~m.stranger) => \A i \in DOMAIN kept : kept[i] = n
      /\ n = None /\ ~m.stranger => kept = <<>>
  <2>1. CASE \E i \in DOMAIN all : all[i].exe = "root"
    <3> DEFINE S == {p \in Dt!ToSet(all) : p.exe # "user"}
               r == Dt!Only(all, S)
    <3>1. kept = r
      BY <2>1
    <3> HIDE DEF S, kept
    <3>2. /\ r \in Seq(DtProc)
          /\ \A i \in DOMAIN r : r[i] \in S /\ \E j \in DOMAIN all : r[i] = all[j]
          /\ \A j \in DOMAIN all : all[j] \in S => \E i \in DOMAIN r : r[i] = all[j]
      BY <1>2, DtOnly
    <3>3. \A j \in DOMAIN all : all[j] \in S <=> all[j].exe # "user"
      BY DEF Dt!ToSet, S
    <3>4. \A p \in S : p.exe # "user"
      BY DEF S
    <3> HIDE DEF r, kept
    <3>5. n # None => \E i \in DOMAIN r : r[i] = n
      BY <1>1, <1>2, <3>2, <3>3
    <3>6. \A i \in DOMAIN r : r[i] = n
      BY <1>1, <1>2, <3>2, <3>4
    <3>7. ~(n = None /\ ~m.stranger)
      BY <1>2, <2>1
    <3>8. QED
      BY <3>1, <3>2, <3>5, <3>6, <3>7
  <2>2. CASE ~\E i \in DOMAIN all : all[i].exe = "root"
    <3>1. kept = all
      BY <2>2
    <3> HIDE DEF kept
    <3>2. n # None => n.exe # "root"
      BY <1>2, <2>2
    <3>3. QED
      BY <1>2, <3>1, <3>2
  <2>3. QED
    BY <2>1, <2>2
<1> HIDE DEF kept, ps
<1>6. \A p \in DtProc : /\ [p EXCEPT !.conf = None] \in DtProc
                         /\ [p EXCEPT !.uid = None, !.datadir = None, !.conf = None] \in DtProc
                         /\ [p EXCEPT !.conf = None].conf = None
                         /\ [p EXCEPT !.conf = None].datadir = p.datadir
                         /\ [p EXCEPT !.conf = None].uid = p.uid
  BY DEF DtProc
<1>7. CASE m.win
  <2>1. DOMAIN all = 1..Len(all) /\ Len(all) \in Nat /\ \A i \in DOMAIN all : all[i] \in DtProc
    BY <1>2
  <2>2. ps \in Seq(DtProc)
    <3> DEFINE q == [i \in 1..Len(all) |-> [all[i] EXCEPT !.uid = None, !.datadir = None, !.conf = None]]
    <3>1. ps = q
      BY <1>4, <1>7, <2>1
    <3>2. \A i \in 1..Len(all) : q[i] \in DtProc
      BY <1>6, <2>1
    <3>3. q \in [1..Len(all) -> DtProc]
      BY <3>2
    <3> HIDE DEF q
    <3>4. QED
      BY <2>1, <3>1, <3>3, SeqDef
  <2>3. all = <<>> => ps = <<>>
    BY <1>4, <1>7
  <2>4. QED
    BY <1>2, <1>7, <2>2, <2>3 DEF ps, n
<1>8. CASE ~m.win
  <2>1. DOMAIN kept = 1..Len(kept) /\ Len(kept) \in Nat /\ \A i \in DOMAIN kept : kept[i] \in DtProc
    BY <1>5
  <2> DEFINE q == [i \in 1..Len(kept) |-> IF kept[i].foreign THEN [kept[i] EXCEPT !.conf = None] ELSE kept[i]]
  <2>2. ps = q
    BY <1>3, <1>8, <2>1
  <2>3. q \in Seq(DtProc) /\ DOMAIN q = 1..Len(kept)
    <3>1. \A i \in 1..Len(kept) : q[i] \in DtProc
      BY <1>6, <2>1
    <3>2. q \in [1..Len(kept) -> DtProc]
      BY <3>1
    <3> HIDE DEF q
    <3>3. QED
      BY <2>1, <3>2, SeqDef
  <2>4. kept = <<>> => q = <<>>
    OBVIOUS
  <2>5. \A i \in 1..Len(kept) : kept[i] = n =>
          /\ q[i].datadir = n.datadir /\ q[i].uid = n.uid
          /\ q[i].conf = IF n.foreign THEN None ELSE n.conf
    BY <1>6, <2>1
  <2>6. n # None /\ (n.exe = "root" \/ ~m.stranger) =>
          /\ 1..Len(kept) # {}
          /\ \A i \in 1..Len(kept) : kept[i] = n
    BY <1>5, <2>1
  <2> HIDE DEF q
  <2>7. n # None /\ (n.exe = "root" \/ ~m.stranger) =>
          /\ q # <<>>
          /\ \A i \in DOMAIN q : /\ q[i].datadir = n.datadir /\ q[i].uid = n.uid
                                 /\ q[i].conf = IF n.foreign THEN None ELSE n.conf
    BY <2>3, <2>5, <2>6
  <2>8. n = None /\ ~m.stranger => q = <<>>
    BY <1>5, <2>4
  <2>9. QED
    BY <2>2, <2>3, <2>7, <2>8 DEF ps, n
<1>9. QED
  BY <1>1, <1>7, <1>8

LEMMA DtScore ==
  ASSUME NEW m, DtMachine(m), NEW ps \in Seq(DtProc), NEW d \in Dt!Dirs
  PROVE  /\ Dt!Score(m, ps, d) \in 0..11
         /\ (\E i \in DOMAIN ps : ps[i].datadir = d) => Dt!Score(m, ps, d) >= 4
         /\ ps # <<>> /\ (\A i \in DOMAIN ps : ps[i].datadir # d) => Dt!Score(m, ps, d) <= 3
         /\ ps = <<>> /\ d # "sys" => Dt!Score(m, ps, d) <= 3
         /\ ps = <<>> /\ d = "sys" /\ ~m.win => Dt!Score(m, ps, d) >= 8
         /\ m.dir[d] \in {"noconf", "full"} => Dt!Score(m, ps, d) >= 3
<1> DEFINE x == IF \E i \in DOMAIN ps : ps[i].datadir = d THEN 4
                ELSE IF ps = <<>> /\ d = "sys" /\ ~m.win THEN 8 ELSE 0
           y == IF m.dir[d] \in {"noconf", "full"} THEN 3 ELSE IF m.dir[d] = "nocookie" THEN 2 ELSE 0
<1>1. Dt!Score(m, ps, d) = x + y
  BY DEF Dt!Score
<1>2. y \in {0, 2, 3} /\ x \in {0, 4, 8} /\ (m.dir[d] \in {"noconf", "full"} => y = 3)
  OBVIOUS
<1>3. /\ (\E i \in DOMAIN ps : ps[i].datadir = d) => x = 4
      /\ ps # <<>> /\ (\A i \in DOMAIN ps : ps[i].datadir # d) => x = 0
      /\ ps = <<>> /\ d # "sys" => x = 0
      /\ ps = <<>> /\ d = "sys" /\ ~m.win => x = 8
  OBVIOUS
<1> HIDE DEF x, y
<1>4. QED
  BY <1>1, <1>2, <1>3

LEMMA DtCandidates ==
  ASSUME NEW m, DtMachine(m), NEW ps \in Seq(DtProc)
  PROVE  LET cs == Dt!Candidates(m, ps) IN
         /\ cs \in Seq(Dt!Dirs)
         /\ \A i \in DOMAIN ps : ~m.win /\ ps[i].datadir # None => \E j \in DOMAIN cs : cs[j] = ps[i].datadir
         /\ ~m.win => \E j \in DOMAIN cs : cs[j] = "sys"
         /\ ~m.win /\ ps # <<>> /\ ps[1].datadir = None => cs # <<>> /\ cs[1] = Dt!Home(ps[1].uid)
<1> DEFINE cs == Dt!Candidates(m, ps)
           named == [i \in DOMAIN ps |-> IF ps[i].datadir # None THEN ps[i].datadir ELSE Dt!Home(ps[i].uid)]
           usual == m.homes \o <<"sys">>
           last == IF m.etc = "sys" THEN <<"sys">> ELSE <<>>
<1>1. CASE m.win
  <2>1. cs = <<"given", "home">>
    BY <1>1 DEF Dt!Candidates
  <2>2. QED
    BY <1>1, <2>1 DEF Dt!Dirs
<1>2. CASE ~m.win
  <2>1. cs = named \o m.homes \o <<"sys">> \o last
    BY <1>2 DEF Dt!Candidates
  <2>2. named \in Seq(Dt!Dirs) /\ DOMAIN named = DOMAIN ps
    <3>1. DOMAIN ps = 1..Len(ps) /\ Len(ps) \in Nat /\ \A i \in DOMAIN ps : ps[i] \in DtProc
      OBVIOUS
    <3>2. \A i \in DOMAIN ps : named[i] \in Dt!Dirs
      BY <3>1 DEF DtProc, Dt!Dirs, Dt!Home
    <3>3. named \in [1..Len(ps) -> Dt!Dirs]
      BY <3>1, <3>2
    <3> HIDE DEF named
    <3>4. QED
      BY <3>1, <3>3, SeqDef
  <2>3. m.homes \in Seq(Dt!Dirs) /\ <<"sys">> \in Seq(Dt!Dirs) /\ last \in Seq(Dt!Dirs)
    <3>1. m.homes \in {<<"home", "other">>, <<"other", "home">>}
      BY DEF DtMachine, Dt!Machines
    <3>2. <<"home", "other">> \in Seq(Dt!Dirs) /\ <<"other", "home">> \in Seq(Dt!Dirs)
      BY DEF Dt!Dirs
    <3>3. <<"sys">> \in Seq(Dt!Dirs) /\ <<>> \in Seq(Dt!Dirs)
      BY DEF Dt!Dirs
    <3>4. QED
      BY <3>1, <3>2, <3>3
  <2>4. \A i \in DOMAIN ps : ps[i].datadir # None => named[i] = ps[i].datadir
    OBVIOUS
  <2> DEFINE sys == <<"sys">>
  <2>5. Len(sys) = 1 /\ sys[1] = "sys"
    OBVIOUS
  <2> HIDE DEF named, last, cs, sys
  <2>6. cs \in Seq(Dt!Dirs)
    BY <2>1, <2>2, <2>3 DEF sys
  <2>7. \A i \in DOMAIN named : i \in DOMAIN cs /\ cs[i] = named[i]
    BY <2>1, <2>2, <2>3 DEF sys
  <2>8. \E j \in DOMAIN cs : cs[j] = "sys"
    <3> DEFINE j == Len(named) + Len(m.homes) + 1
    <3>1. j \in 1..Len(cs) /\ cs[j] = sys[1]
      BY <2>1, <2>2, <2>3, <2>5 DEF sys
    <3>2. QED
      BY <2>5, <2>6, <3>1
  <2>a. ps # <<>> /\ ps[1].datadir = None => cs # <<>> /\ cs[1] = Dt!Home(ps[1].uid)
    <3>1. ps # <<>> => 1 \in DOMAIN ps
      OBVIOUS
    <3>2. 1 \in DOMAIN ps /\ ps[1].datadir = None => named[1] = Dt!Home(ps[1].uid)
      BY DEF named
    <3>3. 1 \in DOMAIN cs => cs # <<>>
      BY <2>6
    <3>4. QED
      BY <2>2, <2>7, <3>1, <3>2, <3>3
  <2>9. QED
    BY <1>2, <2>2, <2>4, <2>6, <2>7, <2>8, <2>a DEF cs
<1>3. QED
  BY <1>1, <1>2

\* A folder that is looked at, is there and beats every other is the one; so is
\* the first to be looked at, where no other beats it.
LEMMA DtBest ==
  ASSUME NEW m, DtMachine(m), NEW ps \in Seq(DtProc)
  PROVE  LET d == Dt!Datadir(m, ps)   cs == Dt!Candidates(m, ps) IN
         /\ d \in Dt!Dirs \cup {None}
         /\ \A g \in Dt!Dirs :
              (/\ \E i \in DOMAIN cs : cs[i] = g
               /\ m.dir[g] # "none"
               /\ \A h \in Dt!Dirs \ {g} : Dt!Score(m, ps, h) < Dt!Score(m, ps, g))
              => d = g
         /\ (/\ cs # <<>> /\ m.dir[cs[1]] # "none"
             /\ \A h \in Dt!Dirs : Dt!Score(m, ps, h) <= Dt!Score(m, ps, cs[1]))
            => d = cs[1]
<1> DEFINE cs == Dt!Candidates(m, ps)
           d == Dt!Datadir(m, ps)
           sc(i) == Dt!Score(m, ps, cs[i])
           There == {i \in DOMAIN cs : m.dir[cs[i]] # "none"}
           Best == {i \in There : \A j \in There : sc(j) <= sc(i)}
           b == CHOOSE i \in Best : \A j \in Best : i <= j
<1>1. d = IF There = {} THEN None ELSE cs[b]
  BY DEF Dt!Datadir
<1>2. cs \in Seq(Dt!Dirs)
  BY DtCandidates
<1> HIDE DEF cs, d
<1>3. There \subseteq DOMAIN cs /\ \A i \in There : cs[i] \in Dt!Dirs /\ m.dir[cs[i]] # "none" /\ i \in Nat
  BY <1>2
<1>a. \A i \in DOMAIN cs : m.dir[cs[i]] # "none" => i \in There
  OBVIOUS
<1>4. \A i \in There : sc(i) \in 0..11
  BY <1>3, DtScore
<1> HIDE DEF There, sc
<1>5. ASSUME There # {} PROVE b \in Best /\ \A j \in Best : b <= j
  <2> DEFINE S == {11 - sc(i) : i \in There}
  <2>1. S \in SUBSET Nat /\ S # {}
    BY <1>4, <1>5
  <2> HIDE DEF S
  <2>2. PICK x \in S : \A y \in S : x <= y
    BY <2>1, Least
  <2>3. PICK i \in There : x = 11 - sc(i)
    BY <2>2 DEF S
  <2>4. \A j \in There : 11 - sc(j) \in S
    BY DEF S
  <2>5. \A j \in There : sc(j) <= sc(i)
    BY <1>4, <2>2, <2>3, <2>4
  <2>6. Best # {} /\ Best \in SUBSET Nat
    BY <1>3, <2>3, <2>5
  <2> HIDE DEF Best
  <2>7. \E k \in Best : \A j \in Best : k <= j
    BY <2>6, Least
  <2>8. QED
    BY <2>7
<1> HIDE DEF b
<1>6. d \in Dt!Dirs \cup {None}
  BY <1>1, <1>3, <1>5
<1>7. ASSUME NEW g \in Dt!Dirs, \E i \in DOMAIN cs : cs[i] = g, m.dir[g] # "none",
             \A h \in Dt!Dirs \ {g} : Dt!Score(m, ps, h) < Dt!Score(m, ps, g)
      PROVE  d = g
  <2>1. PICK i \in DOMAIN cs : cs[i] = g
    BY <1>7
  <2>2. i \in There
    BY <1>7, <1>a, <2>1
  <2>3. b \in There /\ sc(i) <= sc(b)
    BY <1>5, <2>2
  <2>4. cs[b] \in Dt!Dirs /\ sc(i) \in 0..11 /\ sc(b) \in 0..11
    BY <1>3, <1>4, <2>2, <2>3
  <2>5. cs[b] = g
    BY <1>7, <2>1, <2>3, <2>4 DEF sc
  <2>6. QED
    BY <1>1, <2>2, <2>5
<1>8. ASSUME cs # <<>>, m.dir[cs[1]] # "none",
             \A h \in Dt!Dirs : Dt!Score(m, ps, h) <= Dt!Score(m, ps, cs[1])
      PROVE  d = cs[1]
  <2>1. 1 \in There
    BY <1>2, <1>8, <1>a
  <2>2. \A j \in There : sc(j) <= sc(1)
    BY <1>3, <1>8 DEF sc
  <2>3. 1 \in Best
    BY <2>1, <2>2
  <2>4. b \in There /\ b <= 1
    BY <1>5, <2>1, <2>3
  <2>5. b \in DOMAIN cs
    BY <1>3, <2>4
  <2>6. b = 1
    BY <1>2, <2>4, <2>5
  <2>7. QED
    BY <1>1, <2>1, <2>6
<1>9. QED
  BY <1>6, <1>7, <1>8 DEF d, cs

DtFile == Dt!Dirs \cup {"etc", "own", "theirs"}

\* The list find() goes through: the files of processes, the folder's, all.
LEMMA DtConf ==
  ASSUME NEW m, DtMachine(m), NEW ps \in Seq(DtProc)
  PROVE  LET d == Dt!Datadir(m, ps)   c == Dt!ConfPath(m, ps) IN
         /\ c # None => (\E i \in DOMAIN ps : c = ps[i].conf) \/ c \in Dt!Dirs \cup {"etc"}
         /\ \A x \in {"own", "theirs"} :
              (\E i \in DOMAIN ps : ps[i].conf = x) /\ (\A i \in DOMAIN ps : ps[i].conf = x) => c = x
         /\ (\A i \in DOMAIN ps : ps[i].conf = None) /\ d # None /\ Dt!IsConf(m, d) => c = d
<1> DEFINE d == Dt!Datadir(m, ps)
           c == Dt!ConfPath(m, ps)
           S == {p \in Dt!ToSet(ps) : p.conf # None}
           named == Dt!Only(ps, S)
           confs == [i \in DOMAIN named |-> named[i].conf]
           etc == IF m.win THEN <<>> ELSE <<"etc">>
           cs == confs \o etc
           K == {ps[i].conf : i \in DOMAIN ps}
           run == Dt!Only(cs, K)
           dd == IF d = None THEN <<>> ELSE <<d>>
           all == run \o dd \o cs
<1>1. c = DtFind(m, all)
  BY DEF DtFind, Dt!ConfPath, Dt!ConfCandidates
<1>2. d \in Dt!Dirs \cup {None}
  BY DtBest
<1>3. /\ named \in Seq(DtProc)
      /\ \A i \in DOMAIN named : named[i].conf # None /\ \E j \in DOMAIN ps : named[i] = ps[j]
      /\ \A j \in DOMAIN ps : ps[j].conf # None => \E i \in DOMAIN named : named[i] = ps[j]
  <2>1. \A j \in DOMAIN ps : ps[j] \in S <=> ps[j].conf # None
    BY DEF Dt!ToSet
  <2>2. \A p \in S : p.conf # None
    OBVIOUS
  <2> HIDE DEF S
  <2>3. /\ named \in Seq(DtProc)
        /\ \A i \in DOMAIN named : named[i] \in S /\ \E j \in DOMAIN ps : named[i] = ps[j]
        /\ \A j \in DOMAIN ps : ps[j] \in S => \E i \in DOMAIN named : named[i] = ps[j]
    BY DtOnly
  <2> HIDE DEF named
  <2>4. QED
    BY <2>1, <2>2, <2>3
<1> HIDE DEF named, c, d
<1>4. /\ confs \in Seq(DtFile) /\ DOMAIN confs = DOMAIN named
      /\ \A i \in DOMAIN confs : confs[i] = named[i].conf
  <2>1. DOMAIN named = 1..Len(named) /\ Len(named) \in Nat /\ \A i \in DOMAIN named : named[i] \in DtProc
    BY <1>3
  <2>2. \A i \in DOMAIN named : confs[i] \in DtFile
    BY <1>3, <2>1 DEF DtProc, DtFile
  <2>3. confs \in [1..Len(named) -> DtFile]
    BY <2>1, <2>2
  <2>4. DOMAIN confs = DOMAIN named /\ \A i \in DOMAIN confs : confs[i] = named[i].conf
    OBVIOUS
  <2> HIDE DEF confs
  <2>5. QED
    BY <2>1, <2>3, <2>4, SeqDef
<1>5. etc \in Seq(DtFile) /\ \A i \in DOMAIN etc : etc[i] = "etc"
  <2>1. <<"etc">> \in Seq(DtFile) /\ <<>> \in Seq(DtFile)
    BY DEF DtFile
  <2>2. CASE m.win
    BY <2>1, <2>2
  <2>3. CASE ~m.win
    BY <2>1, <2>3
  <2>4. QED
    BY <2>2, <2>3
<1>6. /\ dd \in Seq(DtFile)
      /\ \A i \in DOMAIN dd : dd[i] = d /\ d # None
      /\ d # None => Len(dd) = 1 /\ dd[1] = d
  <2>1. CASE d = None
    BY <2>1 DEF DtFile
  <2>2. CASE d # None
    BY <1>2, <2>2 DEF DtFile
  <2>3. QED
    BY <2>1, <2>2
<1> HIDE DEF confs, etc, dd
<1>7. /\ cs \in Seq(DtFile)
      /\ \A i \in DOMAIN cs : cs[i] = "etc" \/ (\E j \in DOMAIN ps : cs[i] = ps[j].conf)
      /\ \A j \in DOMAIN ps : ps[j].conf # None => \E i \in DOMAIN cs : cs[i] = ps[j].conf
  <2>1. cs \in Seq(DtFile) /\ Len(cs) = Len(confs) + Len(etc)
    BY <1>4, <1>5
  <2>2. \A i \in DOMAIN confs : i \in DOMAIN cs /\ cs[i] = confs[i]
    BY <1>4, <1>5
  <2>3. \A i \in DOMAIN cs : i \in DOMAIN confs \/ (i - Len(confs) \in DOMAIN etc /\ cs[i] = etc[i - Len(confs)])
    BY <1>4, <1>5
  <2> HIDE DEF cs
  <2>4. \A i \in DOMAIN cs : cs[i] = "etc" \/ (\E j \in DOMAIN ps : cs[i] = ps[j].conf)
    <3>1. \A i \in DOMAIN confs : \E j \in DOMAIN ps : confs[i] = ps[j].conf
      BY <1>3, <1>4
    <3>2. QED
      BY <1>5, <2>2, <2>3, <3>1
  <2>5. \A j \in DOMAIN ps : ps[j].conf # None => \E i \in DOMAIN cs : cs[i] = ps[j].conf
    BY <1>3, <1>4, <2>2
  <2>6. QED
    BY <2>1, <2>4, <2>5
<1> HIDE DEF cs
<1>8. /\ run \in Seq(DtFile)
      /\ \A i \in DOMAIN run : run[i] \in K /\ \E j \in DOMAIN cs : run[i] = cs[j]
      /\ \A j \in DOMAIN cs : cs[j] \in K => \E i \in DOMAIN run : run[i] = cs[j]
  <2> HIDE DEF K
  <2>1. QED
    BY <1>7, DtOnly
<1>b. \A x : x \in K <=> \E i \in DOMAIN ps : ps[i].conf = x
  OBVIOUS
<1> HIDE DEF run, K
<1>9. /\ all \in Seq(DtFile)
      /\ \A i \in DOMAIN all :
           (\E j \in DOMAIN run : all[i] = run[j]) \/ (\E j \in DOMAIN dd : all[i] = dd[j])
             \/ (\E j \in DOMAIN cs : all[i] = cs[j])
      /\ run # <<>> => all # <<>> /\ all[1] = run[1]
      /\ run = <<>> /\ d # None => all # <<>> /\ all[1] = d
  <2>1. all \in Seq(DtFile) /\ Len(all) = Len(run) + Len(dd) + Len(cs)
    BY <1>6, <1>7, <1>8
  <2>2. \A i \in DOMAIN all :
           \/ i \in DOMAIN run /\ all[i] = run[i]
           \/ i - Len(run) \in DOMAIN dd /\ all[i] = dd[i - Len(run)]
           \/ i - Len(run) - Len(dd) \in DOMAIN cs /\ all[i] = cs[i - Len(run) - Len(dd)]
    BY <1>6, <1>7, <1>8
  <2>3. run # <<>> => all # <<>> /\ all[1] = run[1]
    BY <1>6, <1>7, <1>8
  <2>4. run = <<>> /\ d # None => all # <<>> /\ all[1] = d
    BY <1>6, <1>7, <1>8
  <2> HIDE DEF all
  <2>5. QED
    BY <2>1, <2>2, <2>3, <2>4
<1> HIDE DEF all
<1>10. Len(all) \in Nat /\ DOMAIN all = 1..Len(all) /\ (all # <<>> => Len(all) > 0)
  BY <1>9
<1>11. /\ c # None => \E i \in DOMAIN all : c = all[i] /\ Dt!IsConf(m, c)
       /\ Len(all) > 0 /\ Dt!IsConf(m, all[1]) => c = all[1]
  BY <1>1, <1>10, DtFirst
<1>12. c # None => (\E i \in DOMAIN ps : c = ps[i].conf) \/ c \in Dt!Dirs \cup {"etc"}
  <2>1. \A i \in DOMAIN run : run[i] = "etc" \/ (\E j \in DOMAIN ps : run[i] = ps[j].conf)
    BY <1>7, <1>8
  <2>2. \A i \in DOMAIN dd : dd[i] \in Dt!Dirs
    BY <1>2, <1>6
  <2>3. \A i \in DOMAIN all : (\E j \in DOMAIN ps : all[i] = ps[j].conf) \/ all[i] \in Dt!Dirs \cup {"etc"}
    <3>1. \A i \in DOMAIN cs : (\E j \in DOMAIN ps : cs[i] = ps[j].conf) \/ cs[i] \in Dt!Dirs \cup {"etc"}
      BY <1>7
    <3>2. \A i \in DOMAIN run : (\E j \in DOMAIN ps : run[i] = ps[j].conf) \/ run[i] \in Dt!Dirs \cup {"etc"}
      BY <2>1
    <3>3. \A i \in DOMAIN all :
            (\E j \in DOMAIN run : all[i] = run[j]) \/ (\E j \in DOMAIN dd : all[i] = dd[j])
              \/ (\E j \in DOMAIN cs : all[i] = cs[j])
      BY <1>9
    <3>4. QED
      BY <2>2, <3>1, <3>2, <3>3, Zenon
  <2>4. QED
    BY <1>11, <2>3
<1>13. ASSUME NEW x \in {"own", "theirs"}, \E i \in DOMAIN ps : ps[i].conf = x,
              \A i \in DOMAIN ps : ps[i].conf = x
       PROVE  c = x
  <2>1. x # None
    BY <1>13, NodesAssumption
  <2>2. \E i \in DOMAIN cs : cs[i] = x
    BY <1>7, <1>13, <2>1
  <2>3. \E i \in DOMAIN run : run[i] = x
    BY <1>8, <1>13, <1>b, <2>2
  <2>4. run # <<>> /\ 1 \in DOMAIN run
    BY <1>8, <2>3
  <2>5. run[1] = x
    BY <1>8, <1>13, <1>b, <2>4
  <2>6. Dt!IsConf(m, x)
    BY <1>13 DEF Dt!IsConf
  <2>7. QED
    BY <1>9, <1>10, <1>11, <2>4, <2>5, <2>6
<1>14. ASSUME \A i \in DOMAIN ps : ps[i].conf = None, d # None, Dt!IsConf(m, d)
       PROVE  c = d
  <2>1. None \notin DtFile
    BY NodesAssumption DEF DtFile
  <2>2. DOMAIN run = {}
    <3>1. \A i \in DOMAIN ps : ps[i].conf = None
      BY <1>14
    <3>2. \A i \in DOMAIN run : run[i] \in K
      BY <1>8
    <3>3. \A i \in DOMAIN run : run[i] = None
      BY <1>b, <3>1, <3>2
    <3>4. QED
      BY <1>8, <2>1, <3>3
  <2>3. run = <<>>
    BY <1>8, <2>2
  <2>4. QED
    BY <1>9, <1>10, <1>11, <1>14, <2>3
<1>15. QED
  BY <1>12, <1>13, <1>14 DEF c, d

\* What is found on a machine.
DtIsRight(m, f) ==
  LET n == m.node   ours == n # None /\ (n.exe = "root" \/ ~m.stranger) /\ ~m.win
  IN  /\ ours /\ n.conf # None /\ ~n.foreign => f.conf = n.conf
      /\ ours /\ (n.conf = None \/ n.foreign) /\ n.datadir # None
           => /\ f.datadir = n.datadir
              /\ Dt!IsConf(m, n.datadir) => f.conf = n.datadir
      /\ ours /\ (n.conf = None \/ n.foreign) /\ n.datadir = None
           /\ m.dir[Dt!Home(n.uid)] \in {"noconf", "full"}
           => /\ f.datadir = Dt!Home(n.uid)
              /\ Dt!IsConf(m, Dt!Home(n.uid)) => f.conf = Dt!Home(n.uid)
      /\ ours /\ n.exe = "root" => f.conf # "theirs"
      /\ n = None /\ ~m.stranger /\ Dt!IsConf(m, "sys") => f.conf = "sys"
      /\ f.url.host = "local"
      /\ f.conf # None /\ m.opt.port # 0 => f.url.port = m.opt.port

LEMMA DtFound ==
  ASSUME NEW m, DtMachine(m)
  PROVE  DtIsRight(m, Dt!Found(m))
<1> DEFINE n == m.node
           ps == Dt!Believed(m)
           d == Dt!Datadir(m, ps)
           c == Dt!ConfPath(m, ps)
           f == Dt!Found(m)
           ours == n # None /\ (n.exe = "root" \/ ~m.stranger) /\ ~m.win
<1>1. f.datadir = d /\ f.conf = c /\ f.url = Dt!Url(Dt!Says(m, c))
  BY DEF Dt!Found
<1>2. /\ ps \in Seq(DtProc)
      /\ n = None /\ ~m.stranger => ps = <<>>
      /\ ours => /\ ps # <<>>
                 /\ \A i \in DOMAIN ps : /\ ps[i].datadir = n.datadir /\ ps[i].uid = n.uid
                                         /\ ps[i].conf = IF n.foreign THEN None ELSE n.conf
  BY DtBelieved
<1>3. n \in NodesOfAll \cup {None}
  BY DEF DtMachine, Dt!Machines
<1>4. n # None => /\ n.conf \in {"own", None} /\ n.datadir \in {"given", None}
  <2>1. \A x \in NodesOfAll : x.conf \in {"own", None} /\ x.datadir \in {"given", None}
    <3>1. \A x \in [exe : {"root", "unknown"}, uid : {"btc"}, datadir : {None, "given"},
                      conf : {None, "own"}, foreign : {FALSE}] :
            x.conf \in {"own", None} /\ x.datadir \in {"given", None}
      OBVIOUS
    <3> DEFINE y == [exe |-> "root", uid |-> "btc", datadir |-> None, conf |-> "own", foreign |-> TRUE]
    <3>2. y.conf \in {"own", None} /\ y.datadir \in {"given", None}
      OBVIOUS
    <3>3. QED
      BY <3>1, <3>2, Zenon DEF NodesOfAll
  <2>2. QED
    BY <1>3, <2>1
<1>5. ps # <<>> => 1 \in DOMAIN ps
  BY <1>2
<1> HIDE DEF n, ps
<1>6. /\ c # None => (\E i \in DOMAIN ps : c = ps[i].conf) \/ c \in Dt!Dirs \cup {"etc"}
      /\ \A x \in {"own", "theirs"} :
           (\E i \in DOMAIN ps : ps[i].conf = x) /\ (\A i \in DOMAIN ps : ps[i].conf = x) => c = x
      /\ (\A i \in DOMAIN ps : ps[i].conf = None) /\ d # None /\ Dt!IsConf(m, d) => c = d
  BY <1>2, DtConf
<1> HIDE DEF c, d, f
<1>7. ASSUME ours, n.conf # None, ~n.foreign PROVE c = n.conf
  <2>1. n.conf = "own"
    BY <1>4, <1>7
  <2>2. \A i \in DOMAIN ps : ps[i].conf = "own"
    BY <1>2, <1>7, <2>1
  <2>3. QED
    BY <1>2, <1>5, <1>6, <1>7, <2>1, <2>2
<1>8. ASSUME ours, n.conf = None \/ n.foreign, n.datadir # None
      PROVE  d = n.datadir /\ (Dt!IsConf(m, n.datadir) => c = n.datadir)
  <2>1. n.datadir = "given"
    BY <1>4, <1>8
  <2>2. \A i \in DOMAIN ps : ps[i].conf = None /\ ps[i].datadir = "given"
    BY <1>2, <1>8, <2>1
  <2>3. "given" # None /\ "given" \in Dt!Dirs
    BY NodesAssumption DEF Dt!Dirs
  <2>4. \E j \in DOMAIN Dt!Candidates(m, ps) : Dt!Candidates(m, ps)[j] = "given"
    BY <1>2, <1>5, <1>8, <2>2, <2>3, DtCandidates
  <2>5. Dt!Score(m, ps, "given") \in 0..11 /\ Dt!Score(m, ps, "given") >= 4
    BY <1>2, <1>5, <1>8, <2>2, <2>3, DtScore
  <2>6. \A h \in Dt!Dirs \ {"given"} : Dt!Score(m, ps, h) \in 0..11 /\ Dt!Score(m, ps, h) <= 3
    BY <1>2, <1>5, <1>8, <2>2, DtScore
  <2>7. \A h \in Dt!Dirs \ {"given"} : Dt!Score(m, ps, h) < Dt!Score(m, ps, "given")
    BY <2>5, <2>6
  <2>8. d = "given"
    BY <1>2, <2>3, <2>4, <2>7, DtBest DEF d, DtMachine
  <2>9. QED
    BY <1>6, <2>1, <2>2, <2>3, <2>8
<1>9. ASSUME ours, n.exe = "root" PROVE c # "theirs"
  <2>1. \A i \in DOMAIN ps : ps[i].conf \in {"own", None}
    BY <1>2, <1>4, <1>9
  <2>2. None # "theirs"
    BY NodesAssumption
  <2>3. "theirs" \notin Dt!Dirs \cup {"etc"}
    BY DEF Dt!Dirs
  <2>4. QED
    BY <1>6, <2>1, <2>2, <2>3
<1>10. ASSUME n = None, ~m.stranger, Dt!IsConf(m, "sys") PROVE c = "sys"
  <2>1. ps = <<>>
    BY <1>2, <1>10
  <2>2. m.dir["sys"] # "none"
    BY <1>10 DEF Dt!IsConf, Dt!Dirs
  <2>3. ~m.win
    BY <2>2 DEF DtMachine
  <2>4. "sys" # None /\ "sys" \in Dt!Dirs
    BY NodesAssumption DEF Dt!Dirs
  <2>5. \E j \in DOMAIN Dt!Candidates(m, ps) : Dt!Candidates(m, ps)[j] = "sys"
    BY <1>2, <2>3, DtCandidates
  <2>6. Dt!Score(m, ps, "sys") \in 0..11 /\ Dt!Score(m, ps, "sys") >= 8
    BY <1>2, <2>1, <2>3, <2>4, DtScore
  <2>7. \A h \in Dt!Dirs \ {"sys"} : Dt!Score(m, ps, h) \in 0..11 /\ Dt!Score(m, ps, h) <= 3
    BY <1>2, <2>1, DtScore
  <2>8. \A h \in Dt!Dirs \ {"sys"} : Dt!Score(m, ps, h) < Dt!Score(m, ps, "sys")
    BY <2>6, <2>7
  <2>9. d = "sys"
    BY <1>2, <2>2, <2>4, <2>5, <2>8, DtBest DEF d
  <2>10. QED
    BY <1>6, <1>10, <2>1, <2>4, <2>9
<1>11. f.url.host = "local"
  BY <1>1 DEF Dt!Url
<1>12. c # None /\ m.opt.port # 0 => f.url.port = m.opt.port
  BY <1>1 DEF Dt!Url, Dt!Says, Dt!ConfPort
<1>13. ASSUME ours, n.conf = None \/ n.foreign, n.datadir = None,
              m.dir[Dt!Home(n.uid)] \in {"noconf", "full"}
       PROVE  d = Dt!Home(n.uid) /\ (Dt!IsConf(m, Dt!Home(n.uid)) => c = Dt!Home(n.uid))
  <2> DEFINE h == Dt!Home(n.uid)
  <2>1. \A i \in DOMAIN ps : ps[i].conf = None /\ ps[i].datadir = None /\ ps[i].uid = n.uid
    BY <1>2, <1>13
  <2>2. None \notin Dt!Dirs /\ h \in Dt!Dirs
    BY NodesAssumption DEF Dt!Dirs, Dt!Home
  <2>3. /\ Dt!Candidates(m, ps) # <<>>
        /\ Dt!Candidates(m, ps)[1] = h
    BY <1>2, <1>5, <1>13, <2>1, DtCandidates
  <2>4. Dt!Score(m, ps, h) \in 0..11 /\ Dt!Score(m, ps, h) >= 3
    BY <1>2, <1>13, <2>2, DtScore
  <2>5. \A x \in Dt!Dirs : Dt!Score(m, ps, x) \in 0..11 /\ Dt!Score(m, ps, x) <= 3
    <3>1. \A x \in Dt!Dirs : \A i \in DOMAIN ps : ps[i].datadir # x
      BY <2>1, <2>2
    <3>2. QED
      BY <1>2, <1>13, <3>1, DtScore
  <2>6. \A x \in Dt!Dirs : Dt!Score(m, ps, x) <= Dt!Score(m, ps, h)
    BY <2>4, <2>5
  <2>7. m.dir[h] # "none"
    BY <1>13
  <2>8. d = h
    BY <1>2, <2>3, <2>6, <2>7, DtBest DEF d
  <2>9. QED
    BY <1>6, <2>1, <2>2, <2>8
<1>14. QED
  BY <1>1, <1>7, <1>8, <1>9, <1>10, <1>11, <1>12, <1>13 DEF DtIsRight, n, f

\* detectBitcoinNode finds the bitcoin.conf that our node reads: the file it names
\* with -conf, else the one in its -datadir, else the one in its account's folder
\* where that holds blocks and a cookie (where it does not, another folder may be
\* taken for it); with no node running the system's; never another account's beside
\* the node root installed.  The login goes to this machine only.
THEOREM FindsTheNodeTheorem == HostSpec => []FindsTheNode
<1> DEFINE I == which = "detect" => DtMachine(v1) /\ v2 \in {None, Dt!Found(v1)}
<1>1. HostInit => I
  BY DEF HostInit, Dt!Init, DtMachine
<1>2. I /\ [HostNext]_<<vars, hostVars>> => I'
  <2> SUFFICES ASSUME I, [HostNext]_<<vars, hostVars>>, which' = "detect" PROVE I'
    OBVIOUS
  <2>1. which = "detect" /\ [Dt!Next]_(Dt!vars)
    BY Steps
  <2>2. v1' = v1 /\ v2' \in {v2, Dt!Found(v1)}
    BY <2>1 DEF Dt!Next, Dt!Detects, Dt!Checks, Dt!vars
  <2>3. QED
    BY <2>1, <2>2
<1>3. I => FindsTheNode
  <2> SUFFICES ASSUME I, which = "detect", v2 # None PROVE Dt!FindsTheNode
    BY DEF FindsTheNode, Dt!FindsTheNode
  <2>1. DtIsRight(v1, v2)
    BY DtFound
  <2>2. QED
    BY <2>1 DEF DtIsRight, Dt!FindsTheNode
<1>4. QED
  BY <1>1, <1>2, <1>3, PTL DEF HostSpec

-----------------------------------------------------------------------------
(* The login at the Bitcoin node.                                          *)

\* A command that is over leaves no job, and what it says of itself.
LEMMA LgOver ==
  ASSUME Lg!Shapes, v6' = Lg!NoJob, v10' \in {v10, [what |-> v6.what, refused |-> v6.refused]},
         v1' \in [Confs -> Nat], {v2', v3'} \subseteq Confs \cup {None}, v4' \in Nat \cup {None},
         v7' \in Nat, v8' \in Nat
  PROVE  Lg!Shapes'
<1>1. v6' \in [what : {"none"} \cup Lg!Adding \cup Lg!Removes,
              at : {"login", "block", "record", "config", "restart", "unblock", "unrecord", "files"},
              conf : Confs \cup {None}, pass : Nat, changed : BOOLEAN, refused : BOOLEAN]
  BY DEF Lg!NoJob
<1>2. v10' \in [what : {"none"} \cup Lg!Adding \cup Lg!Removes, refused : BOOLEAN]
  <2>1. CASE v10' = v10
    BY <2>1 DEF Lg!Shapes
  <2>2. CASE v10' = [what |-> v6.what, refused |-> v6.refused]
    <3>1. v6.what \in {"none"} \cup Lg!Adding \cup Lg!Removes /\ v6.refused \in BOOLEAN
      BY DEF Lg!Shapes
    <3>2. QED
      BY Zenon, <2>2, <3>1
  <2>3. QED
    BY <2>1, <2>2
<1>3. QED
  BY <1>1, <1>2 DEF Lg!Shapes

LEMMA LgBeginStep ==
  ASSUME Lg!LoginInv, NEW what \in Lg!Installs \cup Lg!Adds \cup Lg!Removes, Lg!Begin(what)
  PROVE  Lg!LoginInv'
<1> USE DEF Lg!LoginInv, Lg!Adding, Lg!Installs, Lg!Adds, Lg!Removes, Lg!NoJob, Lg!Nothing
<1>1. Lg!Shapes'
  <2>1. Lg!Target(what) \in Confs \cup {None} /\ Lg!Known(what) \in Nat
    BY DEF Lg!Shapes, Lg!Target, Lg!Known
  <2>2. QED
    BY <2>1 DEF Lg!Begin, Lg!Shapes
<1>2. Lg!Progress'
  BY ConfsAssumption DEF Lg!Begin, Lg!Target, Lg!Known, Lg!Shapes, Lg!Progress
<1>3. Lg!OneFile'
  BY ConfsAssumption DEF Lg!Begin, Lg!Target, Lg!Known, Lg!Shapes, Lg!Progress, Lg!OneFile
<1>4. Lg!LoginInOrder'
  BY ConfsAssumption DEF Lg!Begin, Lg!Target, Lg!Known, Lg!Shapes, Lg!Progress, Lg!OneFile, Lg!LoginInOrder, Lg!LoginMatches, Lg!PurgeLeavesNone
<1>5. QED
  BY <1>1, <1>2, <1>3, <1>4

LEMMA LgEnsuresStep ==
  ASSUME Lg!LoginInv, Lg!Ensures
  PROVE  Lg!LoginInv'
<1> USE DEF Lg!LoginInv, Lg!Adding, Lg!Installs, Lg!Adds, Lg!Removes, Lg!NoJob, Lg!Nothing
<1>1. Lg!Shapes'
  <2>1. CASE v6.pass # 0
    BY <2>1 DEF Lg!Ensures, Lg!Shapes
  <2>2. CASE v6.pass = 0
    <3>1. v6' = [what |-> v6.what, at |-> "block", conf |-> v6.conf, pass |-> v7 + 1,
                 changed |-> TRUE, refused |-> v6.refused]
      BY <2>2 DEF Lg!Ensures, Lg!Shapes
    <3>2. v6.refused \in BOOLEAN
      BY DEF Lg!Shapes
    <3>3. v7 + 1 \in Nat /\ v7' \in Nat
      BY <2>2 DEF Lg!Ensures, Lg!Shapes
    <3>4. QED
      BY <2>2, <3>1, <3>2, <3>3 DEF Lg!Ensures, Lg!Shapes
  <2>3. QED
    BY <2>1, <2>2
<1>2. Lg!Progress'
  <2>1. CASE v6.pass # 0
    BY <2>1 DEF Lg!Ensures, Lg!Shapes, Lg!Progress
  <2>2. CASE v6.pass = 0
    <3>1. v6'.what = v6.what /\ v6'.at = "block" /\ v6'.pass = v7 + 1 /\ (v6'.changed <=> TRUE)
          /\ (v6'.refused <=> v6.refused)
      BY <2>2 DEF Lg!Ensures, Lg!Shapes
    <3>2. v7 + 1 # 0 /\ v6.what \notin Lg!Removes /\ ~v6.refused
      BY <2>2 DEF Lg!Ensures, Lg!Shapes, Lg!Progress
    <3>3. v6.what # "none" /\ v6.what \in Lg!Adding
      BY <3>2 DEF Lg!Ensures, Lg!Shapes
    <3>4. v10' = v10 /\ v10 = Lg!Nothing
      BY <3>3 DEF Lg!Ensures, Lg!Progress
    <3>5. QED
      BY <3>1, <3>2, <3>3, <3>4 DEF Lg!Progress
  <2>3. QED
    BY <2>1, <2>2
<1>3. Lg!OneFile'
  BY ConfsAssumption DEF Lg!Ensures, Lg!Shapes, Lg!Progress, Lg!OneFile
<1>4. Lg!LoginInOrder'
  BY ConfsAssumption DEF Lg!Ensures, Lg!Shapes, Lg!Progress, Lg!OneFile, Lg!LoginInOrder, Lg!LoginMatches, Lg!PurgeLeavesNone
<1>5. QED
  BY <1>1, <1>2, <1>3, <1>4

LEMMA LgBlocksStep ==
  ASSUME Lg!LoginInv, Lg!Blocks
  PROVE  Lg!LoginInv'
<1> USE DEF Lg!LoginInv, Lg!Adding, Lg!Installs, Lg!Adds, Lg!Removes, Lg!NoJob, Lg!Nothing
<1>1. Lg!Shapes'
  BY ConfsAssumption DEF Lg!Blocks, Lg!Shapes
<1>2. Lg!Progress'
  BY ConfsAssumption DEF Lg!Blocks, Lg!Shapes, Lg!Progress
<1>3. Lg!OneFile'
  BY ConfsAssumption DEF Lg!Blocks, Lg!Shapes, Lg!Progress, Lg!OneFile
<1>4. Lg!LoginInOrder'
  BY ConfsAssumption DEF Lg!Blocks, Lg!Shapes, Lg!Progress, Lg!OneFile, Lg!LoginInOrder, Lg!LoginMatches, Lg!PurgeLeavesNone
<1>5. QED
  BY <1>1, <1>2, <1>3, <1>4

LEMMA LgRecordsStep ==
  ASSUME Lg!LoginInv, Lg!Records
  PROVE  Lg!LoginInv'
<1> USE DEF Lg!LoginInv, Lg!Adding, Lg!Installs, Lg!Adds, Lg!Removes, Lg!NoJob, Lg!Nothing
<1>1. Lg!Shapes'
  BY ConfsAssumption DEF Lg!Records, Lg!Shapes
<1>2. Lg!Progress'
  BY ConfsAssumption DEF Lg!Records, Lg!Shapes, Lg!Progress
<1>3. Lg!OneFile'
  BY ConfsAssumption DEF Lg!Records, Lg!Shapes, Lg!Progress, Lg!OneFile
<1>4. Lg!LoginInOrder'
  BY ConfsAssumption DEF Lg!Records, Lg!Shapes, Lg!Progress, Lg!OneFile, Lg!LoginInOrder, Lg!LoginMatches, Lg!PurgeLeavesNone
<1>5. QED
  BY <1>1, <1>2, <1>3, <1>4

LEMMA LgRefusedStep ==
  ASSUME Lg!LoginInv, Lg!Refused
  PROVE  Lg!LoginInv'
<1> USE DEF Lg!LoginInv, Lg!Adding, Lg!Installs, Lg!Adds, Lg!Removes, Lg!NoJob, Lg!Nothing
<1>1. Lg!Shapes'
  <2>1. CASE v6.what \in Lg!Installs
    BY <2>1, ZenonT(30) DEF Lg!Refused, Lg!GoesWithout, Lg!Shapes
  <2>2. CASE v6.what \notin Lg!Installs
    BY <2>2, LgOver DEF Lg!Refused, Lg!GoesWithout, Lg!Shapes
  <2>3. QED
    BY <2>1, <2>2
<1>2. Lg!Progress'
  <2>1. CASE v6.what \in Lg!Installs
    <3>1. v6'.what = v6.what /\ v6'.at = "config" /\ v6'.pass = v6.pass /\ (v6'.changed <=> v6.changed)
          /\ (v6'.refused <=> TRUE)
      BY <2>1 DEF Lg!Refused, Lg!GoesWithout, Lg!Shapes
    <3>2. v6.what # "none" /\ v6.what \in Lg!Adding
      BY <2>1
    <3>3. v10' = v10 /\ v10 = Lg!Nothing /\ v4' = v4
      BY <2>1, <3>2 DEF Lg!Refused, Lg!GoesWithout, Lg!Progress
    <3>4. v6'.refused /\ v6'.at # "restart" /\ v6'.at # "record"
      BY <3>1
    <3>5. v6'.what \in Lg!Adds /\ v6'.pass # 0 /\ ~v6'.changed => v4' = v6'.pass
      BY <2>1, <3>1, <3>3
    <3>6. QED
      BY <3>1, <3>2, <3>3, <3>4, <3>5 DEF Lg!Progress
  <2>2. CASE v6.what \notin Lg!Installs
    BY <2>2 DEF Lg!Refused, Lg!GoesWithout, Lg!Shapes, Lg!Progress
  <2>3. QED
    BY <2>1, <2>2
<1>3. Lg!OneFile'
  <2>1. CASE v6.what \in Lg!Installs
    BY <2>1 DEF Lg!Refused, Lg!GoesWithout, Lg!Shapes, Lg!Progress, Lg!OneFile
  <2>2. CASE v6.what \notin Lg!Installs
    BY <2>2 DEF Lg!Refused, Lg!GoesWithout, Lg!Shapes, Lg!Progress, Lg!OneFile
  <2>3. QED
    BY <2>1, <2>2
<1>4. Lg!LoginInOrder'
  BY ConfsAssumption DEF Lg!Refused, Lg!GoesWithout, Lg!Shapes, Lg!Progress, Lg!OneFile, Lg!LoginInOrder, Lg!LoginMatches, Lg!PurgeLeavesNone
<1>5. QED
  BY <1>1, <1>2, <1>3, <1>4

LEMMA LgConfiguresStep ==
  ASSUME Lg!LoginInv, Lg!Configures
  PROVE  Lg!LoginInv'
<1> USE DEF Lg!LoginInv, Lg!Adding, Lg!Installs, Lg!Adds, Lg!Removes, Lg!NoJob, Lg!Nothing
<1>1. Lg!Shapes'
  <2>1. CASE v6.what \in Lg!Installs \/ v6.changed
    BY <2>1 DEF Lg!Configures, Lg!Writes, Lg!Shapes
  <2>2. CASE ~(v6.what \in Lg!Installs \/ v6.changed)
    BY <2>2, LgOver DEF Lg!Configures, Lg!Ends, Lg!Shapes
  <2>3. QED
    BY <2>1, <2>2
<1>2. Lg!Progress'
  BY ConfsAssumption DEF Lg!Configures, Lg!Writes, Lg!Ends, Lg!Shapes, Lg!Progress
<1>3. Lg!OneFile'
  BY ConfsAssumption DEF Lg!Configures, Lg!Writes, Lg!Ends, Lg!Shapes, Lg!Progress, Lg!OneFile
<1>4. Lg!LoginInOrder'
  BY ConfsAssumption DEF Lg!Configures, Lg!Writes, Lg!Ends, Lg!Shapes, Lg!Progress, Lg!OneFile, Lg!LoginInOrder, Lg!LoginMatches, Lg!PurgeLeavesNone
<1>5. QED
  BY <1>1, <1>2, <1>3, <1>4

LEMMA LgConfigFailsStep ==
  ASSUME Lg!LoginInv, Lg!ConfigFails
  PROVE  Lg!LoginInv'
<1> USE DEF Lg!LoginInv, Lg!Adding, Lg!Installs, Lg!Adds, Lg!Removes, Lg!NoJob, Lg!Nothing
<1>1. Lg!Shapes'
  BY ConfsAssumption DEF Lg!ConfigFails, Lg!Shapes
<1>2. Lg!Progress'
  BY ConfsAssumption DEF Lg!ConfigFails, Lg!Shapes, Lg!Progress
<1>3. Lg!OneFile'
  BY ConfsAssumption DEF Lg!ConfigFails, Lg!Shapes, Lg!Progress, Lg!OneFile
<1>4. Lg!LoginInOrder'
  BY ConfsAssumption DEF Lg!ConfigFails, Lg!Shapes, Lg!Progress, Lg!OneFile, Lg!LoginInOrder, Lg!LoginMatches, Lg!PurgeLeavesNone
<1>5. QED
  BY <1>1, <1>2, <1>3, <1>4

LEMMA LgRestartsStep ==
  ASSUME Lg!LoginInv, Lg!Restarts
  PROVE  Lg!LoginInv'
<1> USE DEF Lg!LoginInv, Lg!Adding, Lg!Installs, Lg!Adds, Lg!Removes, Lg!NoJob, Lg!Nothing
<1>1. Lg!Shapes'
  BY ConfsAssumption DEF Lg!Restarts, Lg!Ends, Lg!Shapes
<1>2. Lg!Progress'
  BY ConfsAssumption DEF Lg!Restarts, Lg!Ends, Lg!Shapes, Lg!Progress
<1>3. Lg!OneFile'
  BY ConfsAssumption DEF Lg!Restarts, Lg!Ends, Lg!Shapes, Lg!Progress, Lg!OneFile
<1>4. Lg!LoginInOrder'
  BY ConfsAssumption DEF Lg!Restarts, Lg!Ends, Lg!Shapes, Lg!Progress, Lg!OneFile, Lg!LoginInOrder, Lg!LoginMatches, Lg!PurgeLeavesNone
<1>5. QED
  BY <1>1, <1>2, <1>3, <1>4

LEMMA LgUnblocksStep ==
  ASSUME Lg!LoginInv, Lg!Unblocks
  PROVE  Lg!LoginInv'
<1> USE DEF Lg!LoginInv, Lg!Adding, Lg!Installs, Lg!Adds, Lg!Removes, Lg!NoJob, Lg!Nothing
<1>1. Lg!Shapes'
  BY ConfsAssumption DEF Lg!Unblocks, Lg!Shapes
<1>2. Lg!Progress'
  BY ConfsAssumption DEF Lg!Unblocks, Lg!Shapes, Lg!Progress
<1>3. Lg!OneFile'
  <2>1. CASE v6' = [v6 EXCEPT !.at = "files"] /\ v1' = v1 /\ (v6.what = "purge" => v6.conf = None \/ v1[v6.conf] = 0)
    BY <2>1, ConfsAssumption DEF Lg!Unblocks, Lg!Shapes, Lg!OneFile
  <2>2. CASE v1' = [v1 EXCEPT ![v6.conf] = 0] /\ v6' = [v6 EXCEPT !.at = "unrecord"]
    BY <2>2 DEF Lg!Unblocks, Lg!Shapes, Lg!OneFile
  <2>3. QED
    BY <2>1, <2>2 DEF Lg!Unblocks
<1>4. Lg!LoginInOrder'
  BY ConfsAssumption DEF Lg!Unblocks, Lg!Shapes, Lg!Progress, Lg!OneFile, Lg!LoginInOrder, Lg!LoginMatches, Lg!PurgeLeavesNone
<1>5. QED
  BY <1>1, <1>2, <1>3, <1>4

LEMMA LgCannotUnblockStep ==
  ASSUME Lg!LoginInv, Lg!CannotUnblock
  PROVE  Lg!LoginInv'
<1> USE DEF Lg!LoginInv, Lg!Adding, Lg!Installs, Lg!Adds, Lg!Removes, Lg!NoJob, Lg!Nothing
<1>1. Lg!Shapes'
  BY ConfsAssumption DEF Lg!CannotUnblock, Lg!Shapes
<1>2. Lg!Progress'
  BY ConfsAssumption DEF Lg!CannotUnblock, Lg!Shapes, Lg!Progress
<1>3. Lg!OneFile'
  BY ConfsAssumption DEF Lg!CannotUnblock, Lg!Shapes, Lg!Progress, Lg!OneFile
<1>4. Lg!LoginInOrder'
  BY ConfsAssumption DEF Lg!CannotUnblock, Lg!Shapes, Lg!Progress, Lg!OneFile, Lg!LoginInOrder, Lg!LoginMatches, Lg!PurgeLeavesNone
<1>5. QED
  BY <1>1, <1>2, <1>3, <1>4

LEMMA LgUnrecordsStep ==
  ASSUME Lg!LoginInv, Lg!Unrecords
  PROVE  Lg!LoginInv'
<1> USE DEF Lg!LoginInv, Lg!Adding, Lg!Installs, Lg!Adds, Lg!Removes, Lg!NoJob, Lg!Nothing
<1>1. Lg!Shapes'
  <2>1. CASE v6.what = "remove"
    BY <2>1, LgOver DEF Lg!Unrecords, Lg!Ends, Lg!Shapes
  <2>2. CASE v6.what # "remove"
    BY <2>2 DEF Lg!Unrecords, Lg!Shapes
  <2>3. QED
    BY <2>1, <2>2
<1>2. Lg!Progress'
  BY ConfsAssumption DEF Lg!Unrecords, Lg!Ends, Lg!Shapes, Lg!Progress
<1>3. Lg!OneFile'
  BY ConfsAssumption DEF Lg!Unrecords, Lg!Ends, Lg!Shapes, Lg!Progress, Lg!OneFile
<1>4. Lg!LoginInOrder'
  BY ConfsAssumption DEF Lg!Unrecords, Lg!Ends, Lg!Shapes, Lg!Progress, Lg!OneFile, Lg!LoginInOrder, Lg!LoginMatches, Lg!PurgeLeavesNone
<1>5. QED
  BY <1>1, <1>2, <1>3, <1>4

LEMMA LgPurgesStep ==
  ASSUME Lg!LoginInv, Lg!Purges
  PROVE  Lg!LoginInv'
<1> USE DEF Lg!LoginInv, Lg!Adding, Lg!Installs, Lg!Adds, Lg!Removes, Lg!NoJob, Lg!Nothing
<1>1. Lg!Shapes'
  BY ConfsAssumption DEF Lg!Purges, Lg!Ends, Lg!Shapes
<1>2. Lg!Progress'
  BY ConfsAssumption DEF Lg!Purges, Lg!Ends, Lg!Shapes, Lg!Progress
<1>3. Lg!OneFile'
  BY ConfsAssumption DEF Lg!Purges, Lg!Ends, Lg!Shapes, Lg!Progress, Lg!OneFile
<1>4. Lg!LoginInOrder'
  BY ConfsAssumption DEF Lg!Purges, Lg!Ends, Lg!Shapes, Lg!Progress, Lg!OneFile, Lg!LoginInOrder, Lg!LoginMatches, Lg!PurgeLeavesNone
<1>5. QED
  BY <1>1, <1>2, <1>3, <1>4

LEMMA LgKillStep ==
  ASSUME Lg!LoginInv, Lg!Kill
  PROVE  Lg!LoginInv'
<1> USE DEF Lg!LoginInv, Lg!Adding, Lg!Installs, Lg!Adds, Lg!Removes, Lg!NoJob, Lg!Nothing
<1>1. Lg!Shapes'
  BY ConfsAssumption DEF Lg!Kill, Lg!Shapes
<1>2. Lg!Progress'
  BY ConfsAssumption DEF Lg!Kill, Lg!Shapes, Lg!Progress
<1>3. Lg!OneFile'
  BY ConfsAssumption DEF Lg!Kill, Lg!Shapes, Lg!Progress, Lg!OneFile
<1>4. Lg!LoginInOrder'
  BY ConfsAssumption DEF Lg!Kill, Lg!Shapes, Lg!Progress, Lg!OneFile, Lg!LoginInOrder, Lg!LoginMatches, Lg!PurgeLeavesNone
<1>5. QED
  BY <1>1, <1>2, <1>3, <1>4

LEMMA LgNodeMovesStep ==
  ASSUME Lg!LoginInv, Lg!NodeMoves
  PROVE  Lg!LoginInv'
<1> USE DEF Lg!LoginInv, Lg!Adding, Lg!Installs, Lg!Adds, Lg!Removes, Lg!NoJob, Lg!Nothing
<1>1. Lg!Shapes'
  BY ConfsAssumption DEF Lg!NodeMoves, Lg!Shapes
<1>2. Lg!Progress'
  BY ConfsAssumption DEF Lg!NodeMoves, Lg!Shapes, Lg!Progress
<1>3. Lg!OneFile'
  BY ConfsAssumption DEF Lg!NodeMoves, Lg!Shapes, Lg!Progress, Lg!OneFile
<1>4. Lg!LoginInOrder'
  BY ConfsAssumption DEF Lg!NodeMoves, Lg!Shapes, Lg!Progress, Lg!OneFile, Lg!LoginInOrder, Lg!LoginMatches, Lg!PurgeLeavesNone
<1>5. QED
  BY <1>1, <1>2, <1>3, <1>4

LEMMA LgDaemonStartsStep ==
  ASSUME Lg!LoginInv, Lg!DaemonStarts
  PROVE  Lg!LoginInv'
<1> USE DEF Lg!LoginInv, Lg!Adding, Lg!Installs, Lg!Adds, Lg!Removes, Lg!NoJob, Lg!Nothing
<1>1. Lg!Shapes'
  BY ConfsAssumption DEF Lg!DaemonStarts, Lg!Shapes
<1>2. Lg!Progress'
  BY ConfsAssumption DEF Lg!DaemonStarts, Lg!Shapes, Lg!Progress
<1>3. Lg!OneFile'
  BY ConfsAssumption DEF Lg!DaemonStarts, Lg!Shapes, Lg!Progress, Lg!OneFile
<1>4. Lg!LoginInOrder'
  BY ConfsAssumption DEF Lg!DaemonStarts, Lg!Shapes, Lg!Progress, Lg!OneFile, Lg!LoginInOrder, Lg!LoginMatches, Lg!PurgeLeavesNone
<1>5. QED
  BY <1>1, <1>2, <1>3, <1>4

LEMMA LgInvInit == Lg!Init => Lg!LoginInv
<1> SUFFICES ASSUME Lg!Init PROVE Lg!LoginInv
  OBVIOUS
<1> USE DEF Lg!Init, Lg!Adding, Lg!Installs, Lg!Adds, Lg!Removes, Lg!NoJob, Lg!Nothing
<1>1. Lg!Shapes
  <2>1. v6 \in [what : {"none"} \cup Lg!Adding \cup Lg!Removes,
                at : {"login", "block", "record", "config", "restart", "unblock", "unrecord", "files"},
                conf : Confs \cup {None}, pass : Nat, changed : BOOLEAN, refused : BOOLEAN]
    OBVIOUS
  <2>2. v10 \in [what : {"none"} \cup Lg!Adding \cup Lg!Removes, refused : BOOLEAN]
    OBVIOUS
  <2>3. QED
    BY <2>1, <2>2 DEF Lg!Shapes
<1>2. Lg!Progress
  BY DEF Lg!Progress
<1>3. Lg!OneFile
  BY DEF Lg!OneFile
<1>4. Lg!LoginInOrder
  BY DEF Lg!LoginInOrder, Lg!LoginMatches, Lg!PurgeLeavesNone
<1>5. QED
  BY <1>1, <1>2, <1>3, <1>4 DEF Lg!LoginInv

LEMMA LgInvStep == Lg!LoginInv /\ [Lg!Next]_(Lg!vars) => Lg!LoginInv'
<1> SUFFICES ASSUME Lg!LoginInv, [Lg!Next]_(Lg!vars) PROVE Lg!LoginInv'
  OBVIOUS
<1>1. CASE UNCHANGED Lg!vars
  BY <1>1 DEF Lg!vars, Lg!LoginInv, Lg!Shapes, Lg!Progress, Lg!OneFile, Lg!LoginInOrder,
              Lg!LoginMatches, Lg!PurgeLeavesNone
<1>2. CASE Lg!Next
  BY <1>2, LgBeginStep, LgEnsuresStep, LgBlocksStep, LgRecordsStep, LgRefusedStep, LgConfiguresStep,
     LgConfigFailsStep, LgRestartsStep, LgUnblocksStep, LgCannotUnblockStep, LgUnrecordsStep,
     LgPurgesStep, LgKillStep, LgNodeMovesStep, LgDaemonStartsStep DEF Lg!Next
<1>3. QED
  BY <1>1, <1>2

\* Whatever is killed, refused or could not be written, and in whatever order
\* the commands come: one that came to its end without a refusal leaves hash,
\* password and record agreeing, and a purge no block in any file.
THEOREM LoginInOrderTheorem == HostSpec => []LoginInOrder
<1> DEFINE I == which = "login" => Lg!LoginInv
<1>1. HostInit => I
  BY LgInvInit DEF HostInit
<1>2. I /\ [HostNext]_<<vars, hostVars>> => I'
  BY Steps, LgInvStep
<1>3. I => LoginInOrder
  BY DEF LoginInOrder, Lg!LoginInv
<1>4. QED
  BY <1>1, <1>2, <1>3, PTL DEF HostSpec

-----------------------------------------------------------------------------
(* The program files on Windows.                                           *)

LEMMA InDaemonStartsStep ==
  ASSUME In!InstallInv, In!DaemonStarts
  PROVE  In!InstallInv'
<1> USE DEF In!InstallInv, In!Empty, In!Whole, In!NoJob, In!Nobody, In!Folder
<1>1. In!Shapes'
  BY DEF In!DaemonStarts, In!Loads, In!Loaded, In!Shapes
<1>2. In!Progress'
  BY DEF In!DaemonStarts, In!Loads, In!Loaded, In!Shapes, In!Progress
<1>3. In!NeverMixed'
  BY DEF In!DaemonStarts, In!Loads, In!Loaded, In!Shapes, In!Progress, In!NeverMixed, In!OneVersion, In!LeavesWhole
<1>4. QED
  BY <1>1, <1>2, <1>3

LEMMA InDaemonEndsStep ==
  ASSUME In!InstallInv, In!DaemonEnds
  PROVE  In!InstallInv'
<1> USE DEF In!InstallInv, In!Empty, In!Whole, In!NoJob, In!Nobody, In!Folder
<1>1. In!Shapes'
  BY DEF In!DaemonEnds, In!Shapes
<1>2. In!Progress'
  BY DEF In!DaemonEnds, In!Shapes, In!Progress
<1>3. In!NeverMixed'
  BY DEF In!DaemonEnds, In!Shapes, In!Progress, In!NeverMixed, In!OneVersion, In!LeavesWhole
<1>4. QED
  BY <1>1, <1>2, <1>3

LEMMA InKillStep ==
  ASSUME In!InstallInv, In!Kill
  PROVE  In!InstallInv'
<1> USE DEF In!InstallInv, In!Empty, In!Whole, In!NoJob, In!Nobody, In!Folder
<1>1. In!Shapes'
  BY DEF In!Kill, In!Shapes
<1>2. In!Progress'
  BY DEF In!Kill, In!Shapes, In!Progress
<1>3. In!NeverMixed'
  BY DEF In!Kill, In!Shapes, In!Progress, In!NeverMixed, In!OneVersion, In!LeavesWhole
<1>4. QED
  BY <1>1, <1>2, <1>3

LEMMA InBeginStep ==
  ASSUME In!InstallInv, NEW what \in {"install", "upgrade", "uninstall", "purge"}, NEW v \in Versions \cup {None}, In!Begin(what, v)
  PROVE  In!InstallInv'
<1> USE DEF In!InstallInv, In!Empty, In!Whole, In!NoJob, In!Nobody, In!Folder
<1>1. In!Shapes'
  BY DEF In!Begin, In!Forgets, In!Shapes
<1>2. In!Progress'
  BY DEF In!Begin, In!Forgets, In!Shapes, In!Progress
<1>3. In!NeverMixed'
  BY DEF In!Begin, In!Forgets, In!Shapes, In!Progress, In!NeverMixed, In!OneVersion, In!LeavesWhole
<1>4. QED
  BY <1>1, <1>2, <1>3

LEMMA InUnpacksStep ==
  ASSUME In!InstallInv, In!Unpacks
  PROVE  In!InstallInv'
<1> USE DEF In!InstallInv, In!Empty, In!Whole, In!NoJob, In!Nobody, In!Folder
<1>1. In!Shapes'
  BY DEF In!Unpacks, In!To, In!Shapes
<1>2. In!Progress'
  BY DEF In!Unpacks, In!To, In!Shapes, In!Progress
<1>3. In!NeverMixed'
  BY DEF In!Unpacks, In!To, In!Shapes, In!Progress, In!NeverMixed, In!OneVersion, In!LeavesWhole
<1>4. QED
  BY <1>1, <1>2, <1>3

LEMMA InStepsAsideStep ==
  ASSUME In!InstallInv, In!StepsAside
  PROVE  In!InstallInv'
<1> USE DEF In!InstallInv, In!Empty, In!Whole, In!NoJob, In!Nobody, In!Folder
<1>1. In!Shapes'
  BY DEF In!StepsAside, In!To, In!Shapes
<1>2. In!Progress'
  BY DEF In!StepsAside, In!To, In!Shapes, In!Progress
<1>3. In!NeverMixed'
  BY DEF In!StepsAside, In!To, In!Shapes, In!Progress, In!NeverMixed, In!OneVersion, In!LeavesWhole
<1>4. QED
  BY <1>1, <1>2, <1>3

LEMMA InStepsInStep ==
  ASSUME In!InstallInv, In!StepsIn
  PROVE  In!InstallInv'
<1> USE DEF In!InstallInv, In!Empty, In!Whole, In!NoJob, In!Nobody, In!Folder
<1>1. In!Shapes'
  BY DEF In!StepsIn, In!To, In!Shapes
<1>2. In!Progress'
  BY DEF In!StepsIn, In!To, In!Shapes, In!Progress
<1>3. In!NeverMixed'
  BY DEF In!StepsIn, In!To, In!Shapes, In!Progress, In!NeverMixed, In!OneVersion, In!LeavesWhole
<1>4. QED
  BY <1>1, <1>2, <1>3

LEMMA InTidiesStep ==
  ASSUME In!InstallInv, In!Tidies
  PROVE  In!InstallInv'
<1> USE DEF In!InstallInv, In!Empty, In!Whole, In!NoJob, In!Nobody, In!Folder
<1>1. In!Shapes'
  BY DEF In!Tidies, In!To, In!Shapes
<1>2. In!Progress'
  BY DEF In!Tidies, In!To, In!Shapes, In!Progress
<1>3. In!NeverMixed'
  BY DEF In!Tidies, In!To, In!Shapes, In!Progress, In!NeverMixed, In!OneVersion, In!LeavesWhole
<1>4. QED
  BY <1>1, <1>2, <1>3

LEMMA InHeldOpenStep ==
  ASSUME In!InstallInv, In!HeldOpen
  PROVE  In!InstallInv'
<1> USE DEF In!InstallInv, In!Empty, In!Whole, In!NoJob, In!Nobody, In!Folder
<1>1. In!Shapes'
  BY DEF In!HeldOpen, In!To, In!Shapes
<1>2. In!Progress'
  BY DEF In!HeldOpen, In!To, In!Shapes, In!Progress
<1>3. In!NeverMixed'
  BY DEF In!HeldOpen, In!To, In!Shapes, In!Progress, In!NeverMixed, In!OneVersion, In!LeavesWhole
<1>4. QED
  BY <1>1, <1>2, <1>3

LEMMA InCannotTidyStep ==
  ASSUME In!InstallInv, In!CannotTidy
  PROVE  In!InstallInv'
<1> USE DEF In!InstallInv, In!Empty, In!Whole, In!NoJob, In!Nobody, In!Folder
<1>1. In!Shapes'
  BY DEF In!CannotTidy, In!Shapes
<1>2. In!Progress'
  BY DEF In!CannotTidy, In!Shapes, In!Progress
<1>3. In!NeverMixed'
  BY DEF In!CannotTidy, In!Shapes, In!Progress, In!NeverMixed, In!OneVersion, In!LeavesWhole
<1>4. QED
  BY <1>1, <1>2, <1>3

LEMMA InCopiesFileStep ==
  ASSUME In!InstallInv, NEW f \in Files, In!CopiesFile(f)
  PROVE  In!InstallInv'
<1> USE DEF In!InstallInv, In!Empty, In!Whole, In!NoJob, In!Nobody, In!Folder
<1>1. In!Shapes'
  BY DEF In!CopiesFile, In!Due, In!Shapes
<1>2. In!Progress'
  BY DEF In!CopiesFile, In!Due, In!Shapes, In!Progress
<1>3. In!NeverMixed'
  BY DEF In!CopiesFile, In!Due, In!Shapes, In!Progress, In!NeverMixed, In!OneVersion, In!LeavesWhole
<1>4. QED
  BY <1>1, <1>2, <1>3

LEMMA InCopiedStep ==
  ASSUME In!InstallInv, In!Copied
  PROVE  In!InstallInv'
<1> USE DEF In!InstallInv, In!Empty, In!Whole, In!NoJob, In!Nobody, In!Folder
<1>1. In!Shapes'
  BY DEF In!Copied, In!To, In!Due, In!Shapes
<1>2. In!Progress'
  BY DEF In!Copied, In!To, In!Due, In!Shapes, In!Progress
<1>3. In!NeverMixed'
  BY DEF In!Copied, In!To, In!Due, In!Shapes, In!Progress, In!NeverMixed, In!OneVersion, In!LeavesWhole
<1>4. QED
  BY <1>1, <1>2, <1>3

LEMMA InCopiesSelfStep ==
  ASSUME In!InstallInv, In!CopiesSelf
  PROVE  In!InstallInv'
<1> USE DEF In!InstallInv, In!Empty, In!Whole, In!NoJob, In!Nobody, In!Folder
<1>1. In!Shapes'
  BY DEF In!CopiesSelf, In!To, In!Shapes
<1>2. In!Progress'
  BY DEF In!CopiesSelf, In!To, In!Shapes, In!Progress
<1>3. In!NeverMixed'
  BY DEF In!CopiesSelf, In!To, In!Shapes, In!Progress, In!NeverMixed, In!OneVersion, In!LeavesWhole
<1>4. QED
  BY <1>1, <1>2, <1>3

LEMMA InMovesSelfAsideStep ==
  ASSUME In!InstallInv, In!MovesSelfAside
  PROVE  In!InstallInv'
<1> USE DEF In!InstallInv, In!Empty, In!Whole, In!NoJob, In!Nobody, In!Folder
<1>1. In!Shapes'
  BY DEF In!MovesSelfAside, In!To, In!Shapes
<1>2. In!Progress'
  BY DEF In!MovesSelfAside, In!To, In!Shapes, In!Progress
<1>3. In!NeverMixed'
  BY DEF In!MovesSelfAside, In!To, In!Shapes, In!Progress, In!NeverMixed, In!OneVersion, In!LeavesWhole
<1>4. QED
  BY <1>1, <1>2, <1>3

LEMMA InConfiguresStep ==
  ASSUME In!InstallInv, In!Configures
  PROVE  In!InstallInv'
<1> USE DEF In!InstallInv, In!Empty, In!Whole, In!NoJob, In!Nobody, In!Folder
<1>1. In!Shapes'
  BY DEF In!Configures, In!To, In!Shapes
<1>2. In!Progress'
  BY DEF In!Configures, In!To, In!Shapes, In!Progress
<1>3. In!NeverMixed'
  BY DEF In!Configures, In!To, In!Shapes, In!Progress, In!NeverMixed, In!OneVersion, In!LeavesWhole
<1>4. QED
  BY <1>1, <1>2, <1>3

LEMMA InStartsStep ==
  ASSUME In!InstallInv, In!Starts
  PROVE  In!InstallInv'
<1> USE DEF In!InstallInv, In!Empty, In!Whole, In!NoJob, In!Nobody, In!Folder
<1>1. In!Shapes'
  BY DEF In!Starts, In!Loads, In!Loaded, In!Shapes
<1>2. In!Progress'
  BY DEF In!Starts, In!Loads, In!Loaded, In!Shapes, In!Progress
<1>3. In!NeverMixed'
  BY DEF In!Starts, In!Loads, In!Loaded, In!Shapes, In!Progress, In!NeverMixed, In!OneVersion, In!LeavesWhole
<1>4. QED
  BY <1>1, <1>2, <1>3

LEMMA InRemovesFileStep ==
  ASSUME In!InstallInv, NEW f \in Files, In!RemovesFile(f)
  PROVE  In!InstallInv'
<1> USE DEF In!InstallInv, In!Empty, In!Whole, In!NoJob, In!Nobody, In!Folder
<1>1. In!Shapes'
  BY DEF In!RemovesFile, In!Shapes
<1>2. In!Progress'
  BY DEF In!RemovesFile, In!Shapes, In!Progress
<1>3. In!NeverMixed'
  BY DEF In!RemovesFile, In!Shapes, In!Progress, In!NeverMixed, In!OneVersion, In!LeavesWhole
<1>4. QED
  BY <1>1, <1>2, <1>3

LEMMA InRemovesSettingsStep ==
  ASSUME In!InstallInv, In!RemovesSettings
  PROVE  In!InstallInv'
<1> USE DEF In!InstallInv, In!Empty, In!Whole, In!NoJob, In!Nobody, In!Folder
<1>1. In!Shapes'
  BY DEF In!RemovesSettings, In!To, In!Shapes
<1>2. In!Progress'
  BY DEF In!RemovesSettings, In!To, In!Shapes, In!Progress
<1>3. In!NeverMixed'
  BY DEF In!RemovesSettings, In!To, In!Shapes, In!Progress, In!NeverMixed, In!OneVersion, In!LeavesWhole
<1>4. QED
  BY <1>1, <1>2, <1>3

LEMMA InRemovesSelfStep ==
  ASSUME In!InstallInv, In!RemovesSelf
  PROVE  In!InstallInv'
<1> USE DEF In!InstallInv, In!Empty, In!Whole, In!NoJob, In!Nobody, In!Folder
<1>1. In!Shapes'
  BY DEF In!RemovesSelf, In!Shapes
<1>2. In!Progress'
  BY DEF In!RemovesSelf, In!Shapes, In!Progress
<1>3. In!NeverMixed'
  BY DEF In!RemovesSelf, In!Shapes, In!Progress, In!NeverMixed, In!OneVersion, In!LeavesWhole
<1>4. QED
  BY <1>1, <1>2, <1>3

LEMMA InInvInit == In!Init => In!InstallInv
  BY DEF In!Init, In!InstallInv, In!Shapes, In!Progress, In!NeverMixed, In!OneVersion, In!LeavesWhole,
         In!Empty, In!NoJob, In!Nobody, In!Folder

LEMMA InInvStep == In!InstallInv /\ [In!Next]_(In!vars) => In!InstallInv'
<1> SUFFICES ASSUME In!InstallInv, [In!Next]_(In!vars) PROVE In!InstallInv'
  OBVIOUS
<1>1. CASE UNCHANGED In!vars
  BY <1>1 DEF In!vars, In!InstallInv, In!Shapes, In!Progress, In!NeverMixed, In!OneVersion,
              In!LeavesWhole
<1>2. ASSUME NEW v \in Versions, NEW what \in {"install", "upgrade"}, In!Begin(what, v)
      PROVE  In!InstallInv'
  BY <1>2, InBeginStep
<1>3. ASSUME NEW what \in {"uninstall", "purge"}, In!Begin(what, None)
      PROVE  In!InstallInv'
  BY <1>3, InBeginStep
<1>4. CASE In!Next
  BY <1>2, <1>3, <1>4, InDaemonStartsStep, InDaemonEndsStep, InKillStep, InUnpacksStep,
     InStepsAsideStep, InStepsInStep, InTidiesStep, InHeldOpenStep, InCannotTidyStep,
     InCopiesFileStep, InCopiedStep, InCopiesSelfStep, InMovesSelfAsideStep, InConfiguresStep,
     InStartsStep, InRemovesFileStep, InRemovesSettingsStep, InRemovesSelfStep DEF In!Next
<1>5. QED
  BY <1>1, <1>4

\* Whatever fails or is killed, and whenever the operator starts NodeSignal:
\* only a replacement file by file lets a daemon run files of two versions,
\* and a job that came to its end leaves one version, or nothing.
THEOREM NeverMixedTheorem == HostSpec => []NeverMixed
<1> DEFINE I == which = "install" => In!InstallInv
<1>1. HostInit => I
  BY InInvInit DEF HostInit
<1>2. I /\ [HostNext]_<<vars, hostVars>> => I'
  BY Steps, InInvStep
<1>3. I => NeverMixed
  BY DEF NeverMixed, In!InstallInv
<1>4. QED
  BY <1>1, <1>2, <1>3, PTL DEF HostSpec

-----------------------------------------------------------------------------
(* Sessions.                                                               *)

\* NoiseProofs' definitions are Noise's, with the same ends.
LEMMA SameNoise ==
  /\ (Two!Init <=> P2!Init) /\ (Two!Next <=> P2!Next) /\ Two!vars = P2!vars
  /\ (Two!SessionIsTheirs <=> P2!SessionIsTheirs) /\ (Two!RolesApart <=> P2!RolesApart)
  BY DEF Two!Init, Two!Next, Two!vars, Two!SessionIsTheirs, Two!RolesApart, Two!InitStart,
         Two!Respond, Two!InitFinish, Two!Finish, Two!Encrypt, Two!Decrypt, Two!Ends,
         Two!Junk, Two!DH, Two!Sealed, Two!Opens, Two!Eph, Two!Idle, Two!Chain, Two!DHs,
         Two!Two, Two!Three, Two!Split, Two!Up, Two!Failed, Two!IsOne, Two!ReadsTwo,
         Two!ReadsThree, Two!Partner, P2!Init, P2!Next, P2!vars, P2!SessionIsTheirs,
         P2!RolesApart, P2!InitStart, P2!Respond, P2!InitFinish, P2!Finish, P2!Encrypt,
         P2!Decrypt, P2!Ends, P2!Junk, P2!DH, P2!Sealed, P2!Opens, P2!Eph, P2!Idle,
         P2!Chain, P2!DHs, P2!Two, P2!Three, P2!Split, P2!Up, P2!Failed, P2!IsOne,
         P2!ReadsTwo, P2!ReadsThree, P2!Partner

LEMMA SameNoiseOne ==
  /\ (One!Init <=> P1!Init) /\ (One!Next <=> P1!Next) /\ One!vars = P1!vars
  /\ (One!SessionIsTheirs <=> P1!SessionIsTheirs) /\ (One!RolesApart <=> P1!RolesApart)
  BY DEF One!Init, One!Next, One!vars, One!SessionIsTheirs, One!RolesApart, One!InitStart,
         One!Respond, One!InitFinish, One!Finish, One!Encrypt, One!Decrypt, One!Ends,
         One!Junk, One!DH, One!Sealed, One!Opens, One!Eph, One!Idle, One!Chain, One!DHs,
         One!Two, One!Three, One!Split, One!Up, One!Failed, One!IsOne, One!ReadsTwo,
         One!ReadsThree, One!Partner, P1!Init, P1!Next, P1!vars, P1!SessionIsTheirs,
         P1!RolesApart, P1!InitStart, P1!Respond, P1!InitFinish, P1!Finish, P1!Encrypt,
         P1!Decrypt, P1!Ends, P1!Junk, P1!DH, P1!Sealed, P1!Opens, P1!Eph, P1!Idle,
         P1!Chain, P1!DHs, P1!Two, P1!Three, P1!Split, P1!Up, P1!Failed, P1!IsOne,
         P1!ReadsTwo, P1!ReadsThree, P1!Partner

\* Whoever finished a handshake has the holder of the key it was told at the
\* other end, and opens what that one sealed, in order, nothing twice and
\* nothing left out, whatever the network does with the messages.
THEOREM SessionIsTheirsTheorem == HostSpec => []SessionIsTheirs
<1> DEFINE I == (which = "two" => P2!Inv) /\ (which = "one" => P1!Inv)
<1>1. HostInit => I
  BY P2!InvInit, P1!InvInit, SameNoise, SameNoiseOne DEF HostInit
<1>2. I /\ [HostNext]_<<vars, hostVars>> => I'
  <2> SUFFICES ASSUME I, [HostNext]_<<vars, hostVars>> PROVE I'
    OBVIOUS
  <2>1. P2!RolesApart /\ P1!RolesApart
    BY RolesAssumption, SameNoise, SameNoiseOne
  <2>2. which = "two" => [P2!Next]_(P2!vars)
    <3>1. which = "two" => Two!Next \/ UNCHANGED Two!vars
      BY Steps
    <3>2. UNCHANGED Two!vars <=> UNCHANGED P2!vars
      BY SameNoise DEF Two!vars, P2!vars
    <3>3. QED
      BY <3>1, <3>2, SameNoise
  <2>3. which = "one" => [P1!Next]_(P1!vars)
    <3>1. which = "one" => One!Next \/ UNCHANGED One!vars
      BY Steps
    <3>2. UNCHANGED One!vars <=> UNCHANGED P1!vars
      BY SameNoiseOne DEF One!vars, P1!vars
    <3>3. QED
      BY <3>1, <3>2, SameNoiseOne
  <2>4. which = "two" => P2!Inv'
    BY <2>1, <2>2, P2!InvStep
  <2>5. which = "one" => P1!Inv'
    BY <2>1, <2>3, P1!InvStep
  <2>6. QED
    BY <2>4, <2>5, Steps
<1>3. I => SessionIsTheirs
  BY RolesAssumption, P2!Theirs, P1!Theirs, SameNoise, SameNoiseOne DEF SessionIsTheirs
<1>4. QED
  BY <1>1, <1>2, <1>3, PTL DEF HostSpec

-----------------------------------------------------------------------------
(* Who may connect.                                                        *)

\* LimitsProofs' definitions are Limits'.
LEMMA SameLimits ==
  /\ (Li!Init <=> PL!Init) /\ (Li!Next <=> PL!Next) /\ Li!vars = PL!vars
  /\ (Li!LimitsHold <=> PL!LimitsHold) /\ (Li!Sensible <=> PL!Sensible)
<1>1. \A S : Li!Cardinality(S) = PL!Cardinality(S)
  BY DEF Li!Cardinality, PL!Cardinality
<1>2. Li!vars = PL!vars /\ (Li!Init <=> PL!Init)
  BY DEF Li!Init, PL!Init, Li!vars, PL!vars
<1>3. (Li!LimitsHold <=> PL!LimitsHold)
  BY <1>1 DEF Li!LimitsHold, PL!LimitsHold, Li!Burst, PL!Burst, Li!Every, PL!Every
<1>4. Li!Sensible <=> PL!Sensible
  BY DEF Li!Sensible, PL!Sensible, Li!IsFiniteSet, PL!IsFiniteSet
<1>5. \A b : Li!Bucket(b) = PL!Bucket(b) /\ \A n : Li!Spend(b, n) = PL!Spend(b, n)
  BY DEF Li!Known, Li!At, Li!Has, Li!Without, Li!Room, Li!Refilled, Li!Bucket, Li!Spend,
         Li!RemoveAt, Li!Burst, Li!Every, PL!Known, PL!At, PL!Has, PL!Without, PL!Room,
         PL!Refilled, PL!Bucket, PL!Spend, PL!RemoveAt, PL!Burst, PL!Every
<1>6. Li!Next <=> PL!Next
  BY <1>1, <1>5 DEF Li!Next, Li!vars, Li!Comes, Li!Full, Li!Refused, Li!Times, Li!LetIn, Li!Bytes,
              Li!Closes, Li!Overdue, Li!Tick, PL!Next, PL!vars, PL!Comes, PL!Full, PL!Refused,
              PL!Times, PL!LetIn, PL!Bytes, PL!Closes, PL!Overdue, PL!Tick
<1>7. QED
  BY <1>2, <1>3, <1>4, <1>6

\* However the sources take turns: one gets its burst and a connection per refill,
\* whoever else comes, the buckets kept are never too many, and the slots counted
\* are the open sockets.
THEOREM LimitsHoldTheorem == HostSpec => []LimitsHold
<1> DEFINE I == which = "limits" => PL!LimitsInv
<1>1. HostInit => I
  BY PL!InvInit, RatesAssumption, SameLimits DEF HostInit
<1>2. I /\ [HostNext]_<<vars, hostVars>> => I'
  <2> SUFFICES ASSUME I, [HostNext]_<<vars, hostVars>> PROVE I'
    OBVIOUS
  <2>1. which = "limits" => [PL!Next]_(PL!vars)
    <3>1. which = "limits" => Li!Next \/ UNCHANGED Li!vars
      BY Steps
    <3>2. UNCHANGED Li!vars <=> UNCHANGED PL!vars
      BY DEF Li!vars, PL!vars
    <3>3. QED
      BY <3>1, <3>2, SameLimits
  <2>2. which = "limits" => PL!LimitsInv'
    BY <2>1, PL!InvStep, RatesAssumption, SameLimits
  <2>3. QED
    BY <2>2, Steps
<1>3. I => LimitsHold
  BY SameLimits DEF LimitsHold, PL!LimitsInv
<1>4. QED
  BY <1>1, <1>2, <1>3, PTL DEF HostSpec

-----------------------------------------------------------------------------
(* What is told about the Bitcoin node.                                    *)

LEMMA RpInit == Rp!Init => Rp!NewsInv
<1> SUFFICES ASSUME Rp!Init PROVE Rp!NewsInv
  OBVIOUS
<1>1. \A p \in Polls, m \in Rp!Methods : v5[p][m] = [st |-> "no", height |-> 0]
  BY DEF Rp!Init, Rp!Quiet, Rp!Unsent
<1>2. Rp!Shapes
  <2>1. v5 \in [Polls -> [Rp!Methods -> [st : {"no", "sent", "answered", "in"}, height : Nat]]]
    BY DEF Rp!Init, Rp!Quiet, Rp!Unsent
  <2>2. v1 \in [up : BOOLEAN, height : Nat, port : Rp!Ports, users : SUBSET {"nodesignal", "rpcuser"}]
    <3>1. v1.users \in {{"rpcuser"}, {"rpcuser", "nodesignal"}} /\ v1.height \in Nat /\ v1.port \in Rp!Ports
      BY DEF Rp!Init
    <3>2. v1 = [up |-> v1.up, height |-> v1.height, port |-> v1.port, users |-> v1.users] /\ v1.up \in BOOLEAN
      BY Zenon DEF Rp!Init
    <3>3. v1.users \in SUBSET {"nodesignal", "rpcuser"}
      BY <3>1
    <3>4. QED
      BY Zenon, <3>1, <3>2, <3>3
  <2>3. v6 \in Polls \cup {None} /\ v7 \in [ok : BOOLEAN, height : Nat]
    BY DEF Rp!Init
  <2>4. QED
    BY <2>1, <2>2, <2>3 DEF Rp!Shapes
<1>3. v1.height = 0 /\ v6 = None /\ v7.height = 0
  BY DEF Rp!Init
<1>4. Rp!OneAtATime
  BY <1>1, <1>3, PollsAssumption DEF Rp!OneAtATime, Rp!Methods
<1>5. QED
  BY <1>2, <1>4 DEF Rp!NewsInv

LEMMA RpPollStartsStep ==
  ASSUME Rp!NewsInv, NEW p \in Polls, Rp!PollStarts(p)
  PROVE  Rp!NewsInv' /\ Rp!NewerNews
<1> USE DEF Rp!NewsInv
<1>1. CASE Rp!Auth = None
  BY <1>1 DEF Rp!PollStarts, Rp!Fails, Rp!Shapes, Rp!OneAtATime, Rp!NewerNews
<1>2. CASE Rp!Auth # None
  <2>1. v5' \in [Polls -> [Rp!Methods -> [st : {"no", "sent", "answered", "in"}, height : Nat]]]
    BY <1>2 DEF Rp!PollStarts, Rp!Shapes, Rp!Unsent
  <2>2. /\ \A q \in Polls : q # p => v5'[q] = v5[q]
        /\ \A m \in Rp!Methods : v5'[p][m] = [st |-> "sent", height |-> 0]
        /\ v6 = None /\ v6' = p /\ v7' = v7 /\ v1' = v1
    BY <1>2 DEF Rp!PollStarts, Rp!Shapes, Rp!Unsent
  <2>3. Rp!Shapes'
    BY <2>1, <2>2 DEF Rp!Shapes
  <2>4. "getblockchaininfo" \in Rp!Methods
    BY DEF Rp!Methods
  <2>5. \A q \in Polls, m \in Rp!Methods : v5'[q][m].height <= v1.height
    <3>1. v1.height \in Nat /\ 0 <= v1.height
      BY DEF Rp!Shapes
    <3>2. \A m \in Rp!Methods : v5'[p][m].height = 0
      BY <2>2
    <3>3. QED
      BY <2>2, <3>1, <3>2 DEF Rp!OneAtATime
  <2>6. \A q \in Polls : q # p =>
          (\E m \in Rp!Methods : v5'[q][m].st = "no") \/ \A m \in Rp!Methods : v5'[q][m].st = "in"
    BY <2>2, PollsAssumption DEF Rp!OneAtATime
  <2>7. \A m \in Rp!Methods : v5'[p][m].st = "sent"
    BY <2>2
  <2>8. Rp!OneAtATime'
    BY <2>2, <2>4, <2>5, <2>6, <2>7 DEF Rp!OneAtATime
  <2>9. QED
    BY <2>2, <2>3, <2>8 DEF Rp!NewerNews, Rp!Shapes
<1>3. QED
  BY <1>1, <1>2

LEMMA RpAnswersStep ==
  ASSUME Rp!NewsInv, NEW p \in Polls, NEW m \in Rp!Methods, Rp!Answers(p, m)
  PROVE  Rp!NewsInv' /\ Rp!NewerNews
<1> USE DEF Rp!NewsInv
<1> DEFINE h == IF m = "getblockchaininfo" THEN v1.height ELSE 0
<1>1. v6' = v6 /\ v7' = v7 /\ v1' = v1 /\ v5[p][m].st = "sent"
      /\ v5' = [v5 EXCEPT ![p][m] = [st |-> "answered", height |-> h]]
  BY DEF Rp!Answers
<1>2. h \in Nat /\ h <= v1.height /\ (m = "getblockchaininfo" => h = v1.height)
  BY DEF Rp!Shapes
<1> HIDE DEF h
<1>3. v5' \in [Polls -> [Rp!Methods -> [st : {"no", "sent", "answered", "in"}, height : Nat]]]
  BY <1>1, <1>2 DEF Rp!Shapes
<1>4. /\ \A q \in Polls, x \in Rp!Methods : q # p \/ x # m => v5'[q][x] = v5[q][x]
      /\ v5'[p][m].st = "answered" /\ v5'[p][m].height = h
  BY <1>1 DEF Rp!Shapes
<1>5. Rp!Shapes'
  BY <1>1, <1>3 DEF Rp!Shapes
<1>6. \A q \in Polls, x \in Rp!Methods : v5'[q][x].height <= v1.height
  BY <1>2, <1>4 DEF Rp!OneAtATime
<1>7. \A q \in Polls, x \in Rp!Methods : (v5'[q][x].st = "no" <=> v5[q][x].st = "no")
                                     /\ (v5[q][x].st = "in" => v5'[q][x].st = "in")
  BY <1>1, <1>4
<1>8. \A q \in Polls : (\A x \in Rp!Methods : v5[q][x].st = "in") => q # p
  BY <1>1
<1>9. p = v6 /\ v5'[p]["getblockchaininfo"].st # "sent" => v5'[p]["getblockchaininfo"].height >= v7.height
  <2>1. "getblockchaininfo" \in Rp!Methods
    BY DEF Rp!Methods
  <2>2. QED
    BY <2>1, <1>2, <1>4 DEF Rp!OneAtATime
<1>10. Rp!OneAtATime'
  BY <1>1, <1>4, <1>6, <1>7, <1>8, <1>9 DEF Rp!OneAtATime
<1>11. QED
  BY <1>1, <1>5, <1>10 DEF Rp!NewerNews, Rp!Shapes

LEMMA RpArrivesStep ==
  ASSUME Rp!NewsInv, NEW p \in Polls, NEW m \in Rp!Methods, Rp!Arrives(p, m)
  PROVE  Rp!NewsInv' /\ Rp!NewerNews
<1> USE DEF Rp!NewsInv
<1>1. v1' = v1 /\ v5[p][m].st = "answered" /\ v5' = [v5 EXCEPT ![p][m].st = "in"]
  BY DEF Rp!Arrives
<1>2. v5' \in [Polls -> [Rp!Methods -> [st : {"no", "sent", "answered", "in"}, height : Nat]]]
  BY <1>1 DEF Rp!Shapes
<1>3. /\ \A q \in Polls, x \in Rp!Methods : v5'[q][x].height = v5[q][x].height
      /\ \A q \in Polls, x \in Rp!Methods : q # p \/ x # m => v5'[q][x] = v5[q][x]
      /\ v5'[p][m].st = "in"
  BY <1>1 DEF Rp!Shapes
<1>4. CASE \A x \in Rp!Methods \ {m} : v5[p][x].st = "in"
  <2>2. \A x \in Rp!Methods : v5'[p][x].st = "in" /\ v5[p][x].st \in {"in", "answered"}
    BY <1>1, <1>3, <1>4
  <2>3. p = v6
    BY <1>1, <2>2 DEF Rp!OneAtATime
  <2>4. v6' = None /\ v7' = [ok |-> TRUE, height |-> v5[p]["getblockchaininfo"].height]
    BY <1>4, <2>3 DEF Rp!Arrives, Rp!Shows
  <2>5. "getblockchaininfo" \in Rp!Methods
    BY DEF Rp!Methods
  <2>6. v7'.height \in Nat /\ v7'.height >= v7.height /\ v7'.height <= v1.height
    BY <2>2, <2>3, <2>4, <2>5 DEF Rp!OneAtATime, Rp!Shapes
  <2>7. Rp!Shapes'
    BY <1>1, <1>2, <2>4, <2>6 DEF Rp!Shapes
  <2>8. Rp!OneAtATime'
    BY <1>1, <1>3, <2>2, <2>3, <2>4, <2>6, PollsAssumption DEF Rp!OneAtATime
  <2>9. QED
    BY <2>6, <2>7, <2>8 DEF Rp!NewerNews
<1>5. CASE ~\A x \in Rp!Methods \ {m} : v5[p][x].st = "in"
  <2>1. v6' = v6 /\ v7' = v7
    BY <1>5 DEF Rp!Arrives
  <2>2. Rp!Shapes'
    BY <1>1, <1>2, <2>1 DEF Rp!Shapes
  <2>3. Rp!OneAtATime'
    BY <1>1, <1>3, <2>1 DEF Rp!OneAtATime, Rp!Methods
  <2>4. QED
    BY <2>1, <2>2, <2>3 DEF Rp!NewerNews, Rp!Shapes
<1>6. QED
  BY <1>4, <1>5

LEMMA RpCallFailsStep ==
  ASSUME Rp!NewsInv, NEW p \in Polls, NEW m \in Rp!Methods, Rp!CallFails(p, m)
  PROVE  Rp!NewsInv' /\ Rp!NewerNews
<1> USE DEF Rp!NewsInv
<1>1. v1' = v1 /\ v5[p][m].st \in {"sent", "answered"} /\ v5' = [v5 EXCEPT ![p][m] = Rp!Unsent]
  BY DEF Rp!CallFails
<1>2. v5' \in [Polls -> [Rp!Methods -> [st : {"no", "sent", "answered", "in"}, height : Nat]]]
  BY <1>1 DEF Rp!Shapes, Rp!Unsent
<1>3. /\ \A q \in Polls, x \in Rp!Methods : q # p \/ x # m => v5'[q][x] = v5[q][x]
      /\ v5'[p][m].st = "no" /\ v5'[p][m].height = 0
  BY <1>1 DEF Rp!Shapes, Rp!Unsent
<1>4. v7'.height = v7.height /\ v7' \in [ok : BOOLEAN, height : Nat] /\ (v7'.ok => v7' = v7)
  BY DEF Rp!CallFails, Rp!Fails, Rp!Shapes
<1>5. IF p = v6 THEN v6' = None ELSE v6' = v6
  BY DEF Rp!CallFails, Rp!OneAtATime
<1>6. Rp!Shapes'
  BY <1>1, <1>2, <1>4, <1>5 DEF Rp!Shapes
<1>7. \A q \in Polls, x \in Rp!Methods : v5'[q][x].height <= v1.height
  BY <1>1, <1>3 DEF Rp!OneAtATime, Rp!Shapes
<1>8. \A q \in Polls : q # v6' =>
        (\E x \in Rp!Methods : v5'[q][x].st = "no") \/ \A x \in Rp!Methods : v5'[q][x].st = "in"
  BY <1>3, <1>5, PollsAssumption DEF Rp!OneAtATime
<1>9. \A q \in Polls : q = v6' => q = v6 /\ \A x \in Rp!Methods : v5'[q][x] = v5[q][x]
  BY <1>3, <1>5, PollsAssumption
<1>10. "getblockchaininfo" \in Rp!Methods
  BY DEF Rp!Methods
<1>11. Rp!OneAtATime'
  BY <1>1, <1>4, <1>7, <1>8, <1>9, <1>10 DEF Rp!OneAtATime
<1>12. QED
  BY <1>4, <1>6, <1>11 DEF Rp!NewerNews, Rp!Shapes

LEMMA RpInvStep == Rp!NewsInv /\ [Rp!Next]_(Rp!vars) => Rp!NewsInv' /\ Rp!NewerNews
<1> SUFFICES ASSUME Rp!NewsInv, [Rp!Next]_(Rp!vars) PROVE Rp!NewsInv' /\ Rp!NewerNews
  OBVIOUS
<1>1. CASE UNCHANGED Rp!vars
  BY <1>1 DEF Rp!vars, Rp!NewsInv, Rp!Shapes, Rp!OneAtATime, Rp!NewerNews
<1>2. CASE Rp!Block
  BY <1>2 DEF Rp!Block, Rp!NewsInv, Rp!Shapes, Rp!OneAtATime, Rp!NewerNews
<1>3. CASE Rp!Moves
  <2>1. v1' \in [up : BOOLEAN, height : Nat, port : Rp!Ports, users : SUBSET {"nodesignal", "rpcuser"}]
        /\ v1'.height = v1.height
    BY <1>3 DEF Rp!Moves, Rp!NewsInv, Rp!Shapes
  <2>2. QED
    BY <1>3, <2>1 DEF Rp!Moves, Rp!NewsInv, Rp!Shapes, Rp!OneAtATime, Rp!NewerNews
<1>4. CASE Rp!Next
  BY <1>2, <1>3, <1>4, RpPollStartsStep, RpAnswersStep, RpArrivesStep, RpCallFailsStep DEF Rp!Next
<1>5. QED
  BY <1>1, <1>4

\* With any number of polls whose answers are late, lost or refused, while the
\* node and its bitcoin.conf change: what is told about the node is never older
\* than what was told before.
THEOREM NoOlderNewsTheorem == HostSpec => NoOlderNews
<1> DEFINE I == which = "rpc" => Rp!NewsInv
<1>1. HostInit => I
  BY RpInit DEF HostInit
<1>2. I /\ [HostNext]_<<vars, hostVars>> => I' /\ [which = "rpc" => Rp!NewerNews]_<<vars, hostVars>>
  BY Steps, RpInvStep
<1>3. QED
  BY <1>1, <1>2, PTL DEF HostSpec, NoOlderNews
-----------------------------------------------------------------------------
(* A restore.                                                              *)

LEMMA BkInit == Bk!Init => Bk!HalfWritten
  BY DEF Bk!Init, Bk!HalfWritten, Bk!NoJob

\* Only a restore that came to its end leaves "social" with no kill; merging the
\* same backup again finds all of it there.
LEMMA BkMerges ==
  ASSUME Bk!HalfWritten, Bk!WritesSocial
  PROVE  Bk!Merged
<1> USE DEF Bk!HalfWritten, Bk!WritesSocial
<1>1. v3' = Bk!Merge(v5.st, v4) /\ v5.at = "social"
  BY DEF Bk!Merge
<1>2. /\ v3'.key = v4.key
      /\ v4.hosts \subseteq DOMAIN v3'.contacts /\ v4.rooms \subseteq v3'.rooms
      /\ \A h \in DOMAIN v5.st.contacts : v3'.contacts[h] = v5.st.contacts[h]
      /\ v5.st.follows \cup v4.follows \subseteq v3'.follows /\ v5.st.rooms \subseteq v3'.rooms
  BY <1>1 DEF Bk!Merge
<1>3. Bk!Merge(v3', v4) = v3'
  <2>1. v3'.follows \cup v4.follows = v3'.follows /\ v3'.rooms \cup v4.rooms = v3'.rooms
        /\ DOMAIN v3'.contacts \cup v4.hosts = DOMAIN v3'.contacts
    BY <1>1, <1>2 DEF Bk!Merge
  <2>2. [h \in DOMAIN v3'.contacts |-> IF h \in DOMAIN v3'.contacts THEN v3'.contacts[h]
                                      ELSE [msgs |-> {}, by |-> "backup"]] = v3'.contacts
    BY <1>1 DEF Bk!Merge
  <2>3. QED
    BY <1>1, <1>2, <2>1, <2>2 DEF Bk!Merge
<1>4. QED
  BY <1>2, <1>3 DEF Bk!Merged

LEMMA BkInvStep == Bk!HalfWritten /\ [Bk!Next]_(Bk!vars) => Bk!HalfWritten' /\ Bk!Merged
<1> SUFFICES ASSUME Bk!HalfWritten, [Bk!Next]_(Bk!vars) PROVE Bk!HalfWritten' /\ Bk!Merged
  OBVIOUS
<1> USE DEF Bk!HalfWritten, Bk!NoJob
<1>1. CASE UNCHANGED Bk!vars
  BY <1>1 DEF Bk!vars, Bk!Merged
<1>2. ASSUME NEW h \in KnownHosts, Bk!Adds(h) \/ \E m \in Msgs : Bk!Receives(h, m)
      PROVE  Bk!HalfWritten' /\ Bk!Merged
  <2>1. v1 /\ v1' = v1 /\ v5' = v5 /\ v6' = v6
    BY Zenon, <1>2 DEF Bk!Adds, Bk!Receives
  <2>2. QED
    BY <2>1 DEF Bk!Merged
<1>3. ASSUME NEW r \in Rooms, Bk!Joins(r)
      PROVE  Bk!HalfWritten' /\ Bk!Merged
  BY <1>3 DEF Bk!Joins, Bk!Merged
<1>4. CASE Bk!DaemonStarts
  BY <1>4 DEF Bk!DaemonStarts, Bk!Merged
<1>5. CASE Bk!Export
  BY <1>5 DEF Bk!Export, Bk!Merged
<1>6. CASE Bk!Reads
  BY <1>6 DEF Bk!Reads, Bk!Merged
<1>7. CASE Bk!Declines \/ Bk!StillRuns
  BY <1>7 DEF Bk!Declines, Bk!StillRuns, Bk!Merged
<1>8. CASE Bk!Stops
  BY <1>8 DEF Bk!Stops, Bk!Merged
<1>9. CASE Bk!WritesState
  <2>1. v3'.rooms = v3.rooms /\ v5' = [at |-> "social", st |-> v5.st] /\ v5.at = "writes"
    BY <1>9 DEF Bk!WritesState, Bk!Merge
  <2>2. QED
    BY <1>9, <2>1 DEF Bk!WritesState, Bk!Merged
<1>10. CASE Bk!WritesSocial
  BY <1>10, BkMerges DEF Bk!WritesSocial
<1>11. CASE Bk!Kill
  BY <1>11 DEF Bk!Kill, Bk!Merged
<1>12. CASE Bk!Next
  BY <1>2, <1>3, <1>4, <1>5, <1>6, <1>7, <1>8, <1>9, <1>10, <1>11, <1>12 DEF Bk!Next
<1>13. QED
  BY <1>1, <1>12

\* With a daemon that receives, is started or stopped at any moment, and restores
\* that are killed: one that came to its end has the backup's key and everyone in
\* it, keeps what it read, and restoring once more changes nothing.
THEOREM MergeKeepsTheorem == HostSpec => MergeKeeps
<1> DEFINE I == which = "backup" => Bk!HalfWritten
<1>1. HostInit => I
  BY BkInit DEF HostInit
<1>2. I /\ [HostNext]_<<vars, hostVars>> => I' /\ [which = "backup" => Bk!Merged]_<<vars, hostVars>>
  BY Steps, BkInvStep
<1>3. QED
  BY <1>1, <1>2, PTL DEF HostSpec, MergeKeeps
-----------------------------------------------------------------------------
(* One attempt at a port mapping.                                          *)

LEMMA GwInit == Gw!Init => Gw!ForwardInv
<1> SUFFICES ASSUME Gw!Init PROVE Gw!ForwardInv
  OBVIOUS
<1> USE DevicesAssumption DEF Gw!Init
<1>1. v1 \in [Devices -> Gw!KindType]
  OBVIOUS
<1>2. [who |-> "other", over |-> "ip"] \in Gw!Forwards
  BY DEF Gw!Forwards
<1>3. v8 \in [Devices -> Gw!Forwards \cup {None}]
        /\ \A d \in Devices : v8[d] # None => v8[d].who = "other"
  BY <1>2
<1>4. Gw!Shapes
  <2>1. v4 \in Seq(Devices)
    OBVIOUS
  <2>2. v2 \in Devices \cup {None} /\ v3 = "search" /\ v6 = {} /\ v7 = None /\ v10 = FALSE /\ v11 = None
    OBVIOUS
  <2>3. QED
    BY <1>1, <1>3, <2>1, <2>2 DEF Gw!Shapes
<1>5. Gw!InTheList
  BY DEF Gw!InTheList
<1>6. Gw!Accounted
  BY <1>3 DEF Gw!Accounted
<1>7. Gw!OneForward
  BY <1>2, <1>3 DEF Gw!OneForward
<1>8. QED
  BY <1>4, <1>5, <1>6, <1>7 DEF Gw!ForwardInv

\* What is left of the list when the first router failed.
LEMMA GwOnward ==
  ASSUME Gw!Shapes, v3 \in {"load", "add"}, Gw!InTheList, Gw!Onward, v1' = v1
  PROVE  /\ v4' \in Seq(Devices) /\ \A i \in DOMAIN v4' : Gw!Taken(v4'[i])
         /\ v3' \in {"load", "route"} /\ (v3' = "load" => v4' # <<>>)
<1>1. v4 \in Seq(Devices) /\ v4 # <<>>
  BY DEF Gw!Shapes, Gw!InTheList
<1>2. v4' = Tail(v4) /\ v3' = IF Len(v4) > 1 THEN "load" ELSE "route"
  BY DEF Gw!Onward
<1>3. v4' \in Seq(Devices) /\ Len(v4') = Len(v4) - 1 /\ \A i \in 1..Len(v4') : v4'[i] = v4[i + 1]
  BY <1>1, <1>2
<1>4. DOMAIN v4' = 1..Len(v4') /\ DOMAIN v4 = 1..Len(v4)
  BY <1>1, <1>3
<1>5. \A i \in DOMAIN v4' : i + 1 \in DOMAIN v4
  BY <1>1, <1>3, <1>4
<1>6. QED
  BY <1>1, <1>2, <1>3, <1>4, <1>5 DEF Gw!InTheList

\* The router that is asked is one of this network.
LEMMA GwHere ==
  ASSUME Gw!Shapes, Gw!InTheList, v3 \in {"load", "read", "add"}
  PROVE  /\ Gw!Here \in Devices /\ Gw!Taken(Gw!Here)
         /\ v1[Gw!Here].wan \subseteq {"ip", "ppp"}
<1>1. v4 \in Seq(Devices) /\ v4 # <<>>
  BY DEF Gw!Shapes, Gw!InTheList
<1>2. 1 \in DOMAIN v4 /\ v4[1] \in Devices
  BY <1>1
<1>3. QED
  BY <1>2 DEF Gw!Here, Gw!InTheList, Gw!Shapes, Gw!KindType

LEMMA GwReplyStep ==
  ASSUME Gw!ForwardInv, NEW d \in Devices, Gw!Reply(d)
  PROVE  Gw!ForwardInv'
<1> USE DevicesAssumption DEF Gw!ForwardInv, Gw!search
<1>1. Gw!Shapes'
  BY DEF Gw!Reply, Gw!Shapes
<1>2. Gw!InTheList'
  BY DEF Gw!Reply, Gw!Shapes, Gw!InTheList, Gw!Taken, Gw!Usable, Gw!Here, Gw!Choice
<1>3. Gw!Accounted'
  BY DEF Gw!Reply, Gw!Shapes, Gw!InTheList, Gw!Accounted
<1>4. Gw!OneForward'
  BY DEF Gw!Reply, Gw!Shapes, Gw!InTheList, Gw!Accounted, Gw!OneForward
<1>5. QED
  BY <1>1, <1>2, <1>3, <1>4

LEMMA GwSearchOverStep ==
  ASSUME Gw!ForwardInv, Gw!SearchOver
  PROVE  Gw!ForwardInv'
<1> USE DevicesAssumption DEF Gw!ForwardInv, Gw!search
<1>1. Gw!Shapes'
  BY DEF Gw!SearchOver, Gw!Shapes
<1>2. Gw!InTheList'
  BY DEF Gw!SearchOver, Gw!Shapes, Gw!InTheList, Gw!Taken, Gw!Usable, Gw!Here, Gw!Choice
<1>3. Gw!Accounted'
  BY DEF Gw!SearchOver, Gw!Shapes, Gw!InTheList, Gw!Accounted
<1>4. Gw!OneForward'
  BY DEF Gw!SearchOver, Gw!Shapes, Gw!InTheList, Gw!Accounted, Gw!OneForward
<1>5. QED
  BY <1>1, <1>2, <1>3, <1>4

LEMMA GwLoadStep ==
  ASSUME Gw!ForwardInv, Gw!Load
  PROVE  Gw!ForwardInv'
<1> USE DevicesAssumption DEF Gw!ForwardInv, Gw!search
<1>1. Gw!Shapes'
  BY GwOnward, GwHere DEF Gw!Load, Gw!Lost, Gw!Shapes
<1>2. Gw!InTheList'
  BY GwOnward, GwHere DEF Gw!Load, Gw!Lost, Gw!Shapes, Gw!InTheList, Gw!Taken, Gw!Usable, Gw!Here, Gw!Choice
<1>3. Gw!Accounted'
  BY GwOnward, GwHere DEF Gw!Load, Gw!Lost, Gw!Shapes, Gw!InTheList, Gw!Accounted
<1>4. Gw!OneForward'
  BY GwOnward, GwHere DEF Gw!Load, Gw!Lost, Gw!Shapes, Gw!InTheList, Gw!Accounted, Gw!OneForward, Gw!Taken
<1>5. QED
  BY <1>1, <1>2, <1>3, <1>4

\* The service chosen at a router is one of its own.
LEMMA GwChoice ==
  ASSUME NEW d \in Devices, v1[d].wan \subseteq {"ip", "ppp"}, NEW H \in SUBSET {"ip", "ppp"}
  PROVE  Gw!Choice(d, H) \in {"ip", "ppp"}
  BY DEF Gw!Choice, Gw!First

LEMMA GwReadStep ==
  ASSUME Gw!ForwardInv, Gw!Read
  PROVE  Gw!ForwardInv'
<1> USE DevicesAssumption DEF Gw!ForwardInv, Gw!search
<1>1. /\ v3 = "read" /\ v3' = "add"
      /\ v1' = v1 /\ v2' = v2 /\ v4' = v4 /\ v6' = v6 /\ v8' = v8 /\ v10' = v10 /\ v11' = v11
      /\ v13 \subseteq v13'
      /\ v7' = Gw!Choice(Gw!Here, v1[Gw!Here].wan) \/ (v7' = Gw!Choice(Gw!Here, {}) /\ Gw!Here \in v13')
  BY DEF Gw!Read
<1>2. Gw!Here \in Devices /\ v1[Gw!Here].wan \in SUBSET {"ip", "ppp"}
  BY <1>1, GwHere
<1>3. v7' \in {"ip", "ppp"}
  BY <1>1, <1>2, GwChoice
<1>4. Gw!Shapes'
  BY <1>1, <1>3 DEF Gw!Shapes
<1>5. Gw!InTheList'
  <2>1. Gw!Here' = Gw!Here
    BY <1>1 DEF Gw!Here
  <2>2. v7' = Gw!Choice(Gw!Here, v1[Gw!Here].wan) => v7' = Gw!Choice(Gw!Here, v1[Gw!Here].wan)'
    BY <1>1, <2>1 DEF Gw!Choice
  <2>3. (\A i \in DOMAIN v4 : Gw!Taken(v4[i]))'
    BY <1>1 DEF Gw!InTheList, Gw!Taken
  <2>4. Gw!Usable(Gw!Here)'
    BY <1>1, <2>1 DEF Gw!InTheList, Gw!Usable
  <2>5. v4' # <<>>
    BY <1>1 DEF Gw!InTheList
  <2>6. QED
    BY <1>1, <1>3, <2>1, <2>2, <2>3, <2>4, <2>5 DEF Gw!InTheList
<1>6. Gw!Accounted'
  BY <1>1 DEF Gw!Accounted
<1>7. Gw!OneForward'
  BY <1>1 DEF Gw!OneForward, Gw!Taken
<1>8. QED
  BY <1>4, <1>5, <1>6, <1>7

LEMMA GwAddStep ==
  ASSUME Gw!ForwardInv, Gw!Add
  PROVE  Gw!ForwardInv'
<1> USE DevicesAssumption DEF Gw!ForwardInv, Gw!search
<1> DEFINE here == Gw!Here
           ours == [who |-> "us", over |-> v7]
           granted == [v8 EXCEPT ![here] = ours]
<1>1. v3 = "add" /\ v1' = v1 /\ v2' = v2 /\ v6' = v6 /\ v7' = v7 /\ v10' = v10
  BY DEF Gw!Add
<1>2. here \in Devices /\ Gw!Taken(here) /\ v7 \in {"ip", "ppp"}
      /\ (here \in v13 \/ v7 = Gw!Choice(here, v1[here].wan))
  BY <1>1, GwHere DEF Gw!InTheList
<1>3. ours \in Gw!Forwards /\ ours # None /\ ours.who = "us" /\ ours.over = v7
  BY <1>2 DEF Gw!Forwards
<1>4. granted \in [Devices -> Gw!Forwards \cup {None}] /\ granted[here] = ours
      /\ \A d \in Devices : d # here => granted[d] = v8[d]
  BY <1>2, <1>3 DEF Gw!Shapes
<1>5. v7 = v1[here].connected \/ v1[here].connected \notin v1[here].wan \/ here \in v13
  BY <1>2 DEF Gw!Choice
<1> HIDE DEF here, ours, granted
<1>6. CASE ~Gw!Conflict /\ v8' = granted /\ v11' = [at |-> here, over |-> v7] /\ v3' = "done"
           /\ v4' = v4 /\ v13' = v13
  <2>1. v11' \in Gw!Mappings /\ v11' # None /\ v11'.at = here /\ v11'.over = v7
    BY <1>2, <1>6 DEF Gw!Mappings
  <2>2. v1[here].port # "other"
    BY <1>2, <1>6 DEF Gw!Conflict, Gw!OneForward, here
  <2>3. Gw!Shapes'
    BY <1>1, <1>4, <1>6, <2>1 DEF Gw!Shapes
  <2>4. Gw!InTheList'
    BY <1>1, <1>6 DEF Gw!InTheList, Gw!Taken
  <2>5. Gw!Accounted'
    BY <1>1, <1>4, <1>6, <2>1 DEF Gw!Accounted
  <2>6. Gw!OneForward'
    <3>1. \A d \in Devices : v1[d].port = "other" => d # here /\ v8'[d] = v8[d]
      BY <1>4, <1>6, <2>2
    <3>2. \A d \in Devices \ v13 : v8'[d] # None /\ v8'[d].who = "us" => d = here
      BY <1>1, <1>4, <1>6 DEF Gw!Accounted
    <3>3. v8'[v11'.at].who = "us"
      BY <1>3, <1>4, <1>6, <2>1
    <3>4. QED
      BY <1>1, <1>5, <1>6, <2>1, <3>1, <3>2, <3>3 DEF Gw!OneForward
  <2>7. QED
    BY <2>3, <2>4, <2>5, <2>6
<1>7. CASE v3' = "route" /\ v4' = v4 /\ v8' = v8 /\ v11' = v11 /\ v13' = v13
  <2>1. Gw!Shapes'
    BY <1>1, <1>7 DEF Gw!Shapes
  <2>2. Gw!InTheList'
    BY <1>1, <1>7 DEF Gw!InTheList, Gw!Taken
  <2>3. Gw!Accounted'
    BY <1>1, <1>7 DEF Gw!Accounted
  <2>4. Gw!OneForward'
    BY <1>1, <1>7 DEF Gw!OneForward
  <2>5. QED
    BY <2>1, <2>2, <2>3, <2>4
<1>8. CASE /\ v13' = v13 \cup {here} /\ v8' \in {v8} \cup (IF Gw!Conflict THEN {} ELSE {granted})
           /\ Gw!Onward /\ v11' = v11
  <2>1. v4' \in Seq(Devices) /\ (\A i \in DOMAIN v4' : Gw!Taken(v4'[i]))
        /\ v3' \in {"load", "route"} /\ (v3' = "load" => v4' # <<>>)
    BY <1>1, <1>8, GwOnward
  <2>2. v8' \in [Devices -> Gw!Forwards \cup {None}] /\ (\A d \in Devices : d # here => v8'[d] = v8[d])
        /\ (v1[here].port = "other" => v8' = v8)
    BY <1>2, <1>4, <1>8 DEF Gw!Shapes, Gw!Conflict, Gw!OneForward, here
  <2>3. Gw!Shapes'
    BY <1>1, <1>8, <2>1, <2>2 DEF Gw!Shapes
  <2>4. Gw!InTheList'
    BY <1>1, <2>1 DEF Gw!InTheList, Gw!Taken
  <2>5. Gw!Accounted'
    BY <1>1, <1>8, <2>2 DEF Gw!Accounted
  <2>6. Gw!OneForward'
    <3>1. \A d \in Devices : v1[d].port = "other" => v8'[d] = v8[d]
      BY <2>2
    <3>2. QED
      BY <1>1, <1>8, <2>1, <3>1 DEF Gw!OneForward
  <2>7. QED
    BY <2>3, <2>4, <2>5, <2>6
<1>9. QED
  BY <1>6, <1>7, <1>8 DEF Gw!Add, here, ours, granted

LEMMA GwFindsRouteStep ==
  ASSUME Gw!ForwardInv, Gw!FindsRoute
  PROVE  Gw!ForwardInv'
<1> USE DevicesAssumption DEF Gw!ForwardInv, Gw!search
<1>1. Gw!Shapes'
  BY DEF Gw!FindsRoute, Gw!Shapes
<1>2. Gw!InTheList'
  BY DEF Gw!FindsRoute, Gw!Shapes, Gw!InTheList, Gw!Taken, Gw!Usable, Gw!Here, Gw!Choice
<1>3. Gw!Accounted'
  BY DEF Gw!FindsRoute, Gw!Shapes, Gw!InTheList, Gw!Accounted
<1>4. Gw!OneForward'
  BY DEF Gw!FindsRoute, Gw!Shapes, Gw!InTheList, Gw!Accounted, Gw!OneForward
<1>5. QED
  BY <1>1, <1>2, <1>3, <1>4

LEMMA GwExternalStep ==
  ASSUME Gw!ForwardInv, Gw!External
  PROVE  Gw!ForwardInv'
<1> USE DevicesAssumption DEF Gw!ForwardInv, Gw!search
<1>1. Gw!Shapes'
  BY DEF Gw!External, Gw!Shapes
<1>2. Gw!InTheList'
  BY DEF Gw!External, Gw!Shapes, Gw!InTheList, Gw!Taken, Gw!Usable, Gw!Here, Gw!Choice
<1>3. Gw!Accounted'
  BY DEF Gw!External, Gw!Shapes, Gw!InTheList, Gw!Accounted
<1>4. Gw!OneForward'
  BY DEF Gw!External, Gw!Shapes, Gw!InTheList, Gw!Accounted, Gw!OneForward
<1>5. QED
  BY <1>1, <1>2, <1>3, <1>4

LEMMA GwMapArrivesStep ==
  ASSUME Gw!ForwardInv, Gw!MapArrives
  PROVE  Gw!ForwardInv'
<1> USE DevicesAssumption DEF Gw!ForwardInv, Gw!search
<1>1. Gw!Shapes'
  BY DEF Gw!MapArrives, Gw!Shapes, Gw!Forwards
<1>2. Gw!InTheList'
  BY DEF Gw!MapArrives, Gw!Shapes, Gw!InTheList, Gw!Taken, Gw!Usable, Gw!Here, Gw!Choice
<1>3. Gw!Accounted'
  BY DEF Gw!MapArrives, Gw!Shapes, Gw!InTheList, Gw!Accounted
<1>4. Gw!OneForward'
  BY DEF Gw!MapArrives, Gw!Shapes, Gw!InTheList, Gw!Accounted, Gw!OneForward
<1>5. QED
  BY <1>1, <1>2, <1>3, <1>4

LEMMA GwMapAnsweredStep ==
  ASSUME Gw!ForwardInv, Gw!MapAnswered
  PROVE  Gw!ForwardInv'
<1> USE DevicesAssumption DEF Gw!ForwardInv, Gw!search
<1>0. v2 \in Devices /\ v11' = [at |-> v2, over |-> "pmp"] /\ v11' \in Gw!Mappings /\ v11' # None
  BY DEF Gw!MapAnswered, Gw!Shapes, Gw!InTheList, Gw!Mappings
<1>1. Gw!Shapes'
  BY <1>0 DEF Gw!MapAnswered, Gw!Shapes
<1>2. Gw!InTheList'
  BY DEF Gw!MapAnswered, Gw!Shapes, Gw!InTheList, Gw!Taken, Gw!Usable, Gw!Here, Gw!Choice
<1>3. Gw!Accounted'
  BY <1>0 DEF Gw!MapAnswered, Gw!Shapes, Gw!InTheList, Gw!Accounted
<1>4. Gw!OneForward'
  BY <1>0 DEF Gw!MapAnswered, Gw!Shapes, Gw!InTheList, Gw!Accounted, Gw!OneForward
<1>5. QED
  BY <1>1, <1>2, <1>3, <1>4

LEMMA GwMapFailsStep ==
  ASSUME Gw!ForwardInv, Gw!MapFails
  PROVE  Gw!ForwardInv'
<1> USE DevicesAssumption DEF Gw!ForwardInv, Gw!search
<1>1. Gw!Shapes'
  BY DEF Gw!MapFails, Gw!Shapes
<1>2. Gw!InTheList'
  BY DEF Gw!MapFails, Gw!Shapes, Gw!InTheList, Gw!Taken, Gw!Usable, Gw!Here, Gw!Choice
<1>3. Gw!Accounted'
  BY DEF Gw!MapFails, Gw!Shapes, Gw!InTheList, Gw!Accounted
<1>4. Gw!OneForward'
  BY DEF Gw!MapFails, Gw!Shapes, Gw!InTheList, Gw!Accounted, Gw!OneForward
<1>5. QED
  BY <1>1, <1>2, <1>3, <1>4

LEMMA GwInvStep == Gw!ForwardInv /\ [Gw!Next]_(Gw!vars) => Gw!ForwardInv'
<1> SUFFICES ASSUME Gw!ForwardInv, [Gw!Next]_(Gw!vars) PROVE Gw!ForwardInv'
  OBVIOUS
<1>1. CASE UNCHANGED Gw!vars
  BY <1>1 DEF Gw!vars, Gw!search, Gw!ForwardInv, Gw!Shapes, Gw!InTheList, Gw!Accounted, Gw!OneForward,
              Gw!Here, Gw!Usable, Gw!Taken, Gw!Choice
<1>2. CASE Gw!Next
  BY <1>2, GwReplyStep, GwSearchOverStep, GwLoadStep, GwReadStep, GwAddStep, GwFindsRouteStep,
     GwExternalStep, GwMapArrivesStep, GwMapAnsweredStep, GwMapFailsStep DEF Gw!Next
<1>3. QED
  BY <1>1, <1>2

\* Whatever answers the search, and whichever call fails or loses its answer: only
\* gateways of this network are asked, what another device has is left to it, and
\* the attempt ends with one forward that is the one returned, or with none.
THEOREM OneForwardTheorem == HostSpec => []OneForward
<1> DEFINE I == which = "gateway" => Gw!ForwardInv
<1>1. HostInit => I
  BY GwInit DEF HostInit
<1>2. I /\ [HostNext]_<<vars, hostVars>> => I'
  BY Steps, GwInvStep
<1>3. I => OneForward
  BY DEF OneForward, Gw!ForwardInv
<1>4. QED
  BY <1>1, <1>2, <1>3, PTL DEF HostSpec
-----------------------------------------------------------------------------
(* An older install's state.                                               *)

LEMMA ScNames ==
  /\ Len(StateFiles) \in Nat /\ DOMAIN StateFiles = 1..Len(StateFiles)
  /\ \A i \in 1..Len(StateFiles) : StateFiles[i] \in Sc!Names
  /\ Sc!State \in Sc!Names /\ None \notin Int
  /\ \A f \in Sc!Names : \E i \in 1..Len(StateFiles) : f = StateFiles[i]
  BY StateFilesAssumption DEF Sc!Names

LEMMA ScJob ==
  ASSUME NEW at \in {"none", "look", "read", "write", "fill", "start"}, NEW i \in Nat,
         NEW items \in {<<>>} \cup [Sc!Names -> Sc!Whole], NEW refused \in BOOLEAN
  PROVE  [at |-> at, i |-> i, items |-> items, refused |-> refused] \in Sc!JobType
  BY Zenon DEF Sc!JobType

LEMMA ScJobIs ==
  ASSUME Sc!Shapes
  PROVE  /\ v6 = [at |-> v6.at, i |-> v6.i, items |-> v6.items, refused |-> v6.refused]
         /\ v6.i \in Nat /\ v6.items \in {<<>>} \cup [Sc!Names -> Sc!Whole] /\ v6.refused \in BOOLEAN
  BY DEF Sc!Shapes, Sc!JobType

LEMMA ScTo ==
  ASSUME Sc!Shapes, NEW at \in {"none", "look", "read", "write", "fill", "start"},
         NEW j, j = [v6 EXCEPT !.at = at]
  PROVE  j \in Sc!JobType /\ j.at = at /\ j.i = v6.i /\ j.items = v6.items /\ j.refused = v6.refused
<1>1. j = [at |-> at, i |-> v6.i, items |-> v6.items, refused |-> v6.refused]
  BY ScJobIs
<1>2. QED
  BY <1>1, ScJob, ScJobIs

LEMMA ScOn ==
  ASSUME Sc!Shapes, NEW j, j = [v6 EXCEPT !.i = @ + 1] \/ j = [v6 EXCEPT !.at = "write", !.i = @ + 1]
  PROVE  j \in Sc!JobType /\ j.at \in {v6.at, "write"} /\ j.i = v6.i + 1 /\ j.items = v6.items
         /\ j.refused = v6.refused
<1>1. PICK at \in {"none", "look", "read", "write", "fill", "start"} :
        at \in {v6.at, "write"} /\ j = [at |-> at, i |-> v6.i + 1, items |-> v6.items, refused |-> v6.refused]
  <2>1. v6.at \in {"none", "look", "read", "write", "fill", "start"}
    BY DEF Sc!Shapes, Sc!JobType
  <2>2. CASE j = [v6 EXCEPT !.i = @ + 1]
    <3>1. j = [at |-> v6.at, i |-> v6.i + 1, items |-> v6.items, refused |-> v6.refused]
      BY <2>2, ScJobIs
    <3>2. QED
      BY <2>1, <3>1
  <2>3. CASE j = [v6 EXCEPT !.at = "write", !.i = @ + 1]
    <3>1. j = [at |-> "write", i |-> v6.i + 1, items |-> v6.items, refused |-> v6.refused]
      BY <2>3, ScJobIs
    <3>2. QED
      BY <3>1
  <2>4. QED
    BY <2>2, <2>3
<1>2. v6.i + 1 \in Nat
  BY ScJobIs
<1>3. QED
  BY <1>1, <1>2, ScJob, ScJobIs

LEMMA ScInit == Sc!Init => Sc!CopyInv
<1> SUFFICES ASSUME Sc!Init PROVE Sc!CopyInv
  OBVIOUS
<1> USE ScNames DEF Sc!Init, Sc!NoJob, Sc!NotYet, Sc!Content, Sc!Whole, Sc!Own, Sc!Empty, Sc!Link
<1>1. Sc!Shapes
  <2>1. v6 \in Sc!JobType
    BY ScJob
  <2>2. v3 \in [Sc!Names -> Sc!Whole] /\ v3[Sc!State] # None /\ v4 \in [Sc!Names -> Sc!Content]
    OBVIOUS
  <2>3. v8 \in [runs : BOOLEAN, state : Sc!Content, said : BOOLEAN]
    OBVIOUS
  <2>4. v1 \in BOOLEAN /\ v7 \in BOOLEAN /\ v10 \in BOOLEAN
        /\ v2 \in [owner : {"root", "old"}, safe : BOOLEAN, real : BOOLEAN, fits : BOOLEAN]
    OBVIOUS
  <2>5. QED
    BY <2>1, <2>2, <2>3, <2>4 DEF Sc!Shapes
<1>2. Sc!InTurn
  BY DEF Sc!InTurn
<1>3. Sc!ListedSoFar
  BY DEF Sc!ListedSoFar
<1>4. Sc!WholeOrHalf
  BY DEF Sc!WholeOrHalf
<1>5. Sc!StateLast
  BY DEF Sc!StateLast
<1>6. Sc!Carried
  BY DEF Sc!Carried, Sc!AllCarried, Sc!NeverAsRoot
<1>7. QED
  BY <1>1, <1>2, <1>3, <1>4, <1>5, <1>6 DEF Sc!CopyInv

LEMMA ScOldSavesStep ==
  ASSUME Sc!CopyInv, Sc!OldSaves
  PROVE  Sc!CopyInv'
<1> USE ScNames DEF Sc!CopyInv, Sc!Content, Sc!Whole, Sc!Own, Sc!Empty, Sc!Link, Sc!JobType
<1>1. Sc!Shapes'
  BY DEF Sc!OldSaves, Sc!Same, Sc!Shapes, Sc!ListedSoFar
<1>2. Sc!InTurn'
  BY DEF Sc!OldSaves, Sc!Same, Sc!Shapes, Sc!InTurn, Sc!ListedSoFar
<1>3. Sc!ListedSoFar'
  BY DEF Sc!OldSaves, Sc!Same, Sc!Shapes, Sc!InTurn, Sc!ListedSoFar, Sc!WholeOrHalf
<1>4. Sc!WholeOrHalf'
  BY DEF Sc!OldSaves, Sc!Same, Sc!Shapes, Sc!InTurn, Sc!ListedSoFar, Sc!WholeOrHalf
<1>5. Sc!StateLast'
  BY DEF Sc!OldSaves, Sc!Same, Sc!Shapes, Sc!InTurn, Sc!ListedSoFar, Sc!WholeOrHalf, Sc!StateLast
<1>6. Sc!AllCarried'
  BY DEF Sc!OldSaves, Sc!Same, Sc!Shapes, Sc!InTurn, Sc!ListedSoFar, Sc!WholeOrHalf, Sc!StateLast,
         Sc!Carried, Sc!AllCarried
<1>7. Sc!NeverAsRoot'
  BY DEF Sc!OldSaves, Sc!Same, Sc!Shapes, Sc!Carried, Sc!NeverAsRoot
<1>8. QED
  BY <1>1, <1>2, <1>3, <1>4, <1>5, <1>6, <1>7 DEF Sc!Carried

LEMMA ScBeginStep ==
  ASSUME Sc!CopyInv, Sc!Begin
  PROVE  Sc!CopyInv'
<1>0. v6' \in Sc!JobType
  BY ScJob, Zenon DEF Sc!Begin, Sc!NoJob
<1> USE ScNames DEF Sc!CopyInv, Sc!Content, Sc!Whole, Sc!Own, Sc!Empty, Sc!Link, Sc!JobType
<1>1. Sc!Shapes'
  BY <1>0 DEF Sc!Begin, Sc!Same, Sc!NoJob, Sc!Shapes, Sc!ListedSoFar
<1>2. Sc!InTurn'
  BY DEF Sc!Begin, Sc!Same, Sc!NoJob, Sc!Shapes, Sc!InTurn, Sc!ListedSoFar
<1>3. Sc!ListedSoFar'
  BY <1>0 DEF Sc!Begin, Sc!Same, Sc!NoJob, Sc!Shapes, Sc!InTurn, Sc!ListedSoFar, Sc!WholeOrHalf
<1>4. Sc!WholeOrHalf'
  BY DEF Sc!Begin, Sc!Same, Sc!NoJob, Sc!Shapes, Sc!InTurn, Sc!ListedSoFar, Sc!WholeOrHalf
<1>5. Sc!StateLast'
  BY DEF Sc!Begin, Sc!Same, Sc!NoJob, Sc!Shapes, Sc!InTurn, Sc!ListedSoFar, Sc!WholeOrHalf, Sc!StateLast
<1>6. Sc!AllCarried'
  BY DEF Sc!Begin, Sc!Same, Sc!NoJob, Sc!Shapes, Sc!InTurn, Sc!ListedSoFar, Sc!WholeOrHalf, Sc!StateLast,
         Sc!Carried, Sc!AllCarried
<1>7. Sc!NeverAsRoot'
  BY DEF Sc!Begin, Sc!Same, Sc!NoJob, Sc!Shapes, Sc!Carried, Sc!NeverAsRoot
<1>8. QED
  BY <1>1, <1>2, <1>3, <1>4, <1>5, <1>6, <1>7 DEF Sc!Carried

LEMMA ScLooksStep ==
  ASSUME Sc!CopyInv, Sc!Looks
  PROVE  Sc!CopyInv'
<1>0. /\ v6' \in Sc!JobType
      /\ \/ v6'.at = "start" /\ v4[Sc!State] # None
         \/ v6'.at = "start" /\ v6'.refused
         \/ v6'.at = "read"
  <2>1. CASE Sc!HasOne
    BY <2>1, ScTo DEF Sc!CopyInv, Sc!Looks, Sc!To, Sc!HasOne
  <2>2. CASE ~Sc!HasOne /\ Sc!Refused
    <3>1. v6' = [at |-> "start", i |-> v6.i, items |-> v6.items, refused |-> TRUE]
      BY <2>2, ScJobIs DEF Sc!CopyInv, Sc!Looks
    <3>2. QED
      BY <3>1, ScJob, ScJobIs DEF Sc!CopyInv
  <2>3. CASE ~Sc!HasOne /\ ~Sc!Refused
    BY <2>3, ScTo DEF Sc!CopyInv, Sc!Looks, Sc!To
  <2>4. QED
    BY <2>1, <2>2, <2>3
<1> USE ScNames DEF Sc!CopyInv, Sc!Content, Sc!Whole, Sc!Own, Sc!Empty, Sc!Link, Sc!JobType
<1>1. Sc!Shapes'
  BY <1>0 DEF Sc!Looks, Sc!Same, Sc!To, Sc!HasOne, Sc!Refused, Sc!UnsafeFolder, Sc!AsOwner, Sc!Shapes, Sc!ListedSoFar
<1>2. Sc!InTurn'
  BY DEF Sc!Looks, Sc!Same, Sc!To, Sc!HasOne, Sc!Refused, Sc!UnsafeFolder, Sc!AsOwner, Sc!Shapes, Sc!InTurn, Sc!ListedSoFar
<1>3. Sc!ListedSoFar'
  BY <1>0, ZenonT(30) DEF Sc!Looks, Sc!Same, Sc!To, Sc!HasOne, Sc!Refused, Sc!UnsafeFolder, Sc!AsOwner, Sc!Shapes, Sc!InTurn, Sc!ListedSoFar, Sc!WholeOrHalf
<1>4. Sc!WholeOrHalf'
  BY DEF Sc!Looks, Sc!Same, Sc!To, Sc!HasOne, Sc!Refused, Sc!UnsafeFolder, Sc!AsOwner, Sc!Shapes, Sc!InTurn, Sc!ListedSoFar, Sc!WholeOrHalf
<1>5. Sc!StateLast'
  BY DEF Sc!Looks, Sc!Same, Sc!To, Sc!HasOne, Sc!Refused, Sc!UnsafeFolder, Sc!AsOwner, Sc!Shapes, Sc!InTurn, Sc!ListedSoFar, Sc!WholeOrHalf, Sc!StateLast
<1>6. Sc!AllCarried'
  BY DEF Sc!Looks, Sc!Same, Sc!To, Sc!HasOne, Sc!Refused, Sc!UnsafeFolder, Sc!AsOwner, Sc!Shapes, Sc!InTurn, Sc!ListedSoFar, Sc!WholeOrHalf, Sc!StateLast,
         Sc!Carried, Sc!AllCarried
<1>7. Sc!NeverAsRoot'
  BY DEF Sc!Looks, Sc!Same, Sc!To, Sc!HasOne, Sc!Refused, Sc!UnsafeFolder, Sc!AsOwner, Sc!Shapes, Sc!Carried, Sc!NeverAsRoot
<1>8. QED
  BY <1>1, <1>2, <1>3, <1>4, <1>5, <1>6, <1>7 DEF Sc!Carried

LEMMA ScReadsStep ==
  ASSUME Sc!CopyInv, Sc!Reads
  PROVE  Sc!CopyInv'
<1>0. /\ v6' \in Sc!JobType
      /\ \/ v6'.at = "start" /\ v6'.refused
         \/ /\ v6'.at = "write" /\ v6'.i = 1 /\ v6'.items = v3 /\ ~v6'.refused
            /\ v3 \in [Sc!Names -> Sc!Whole] /\ v3[Sc!State] \notin {None, Sc!Link}
  <2>1. CASE v2.fits /\ v3[Sc!State] # Sc!Link
    <3>1. v6' = [at |-> "write", i |-> 1, items |-> v3, refused |-> v6.refused]
      BY <2>1, ScJobIs DEF Sc!CopyInv, Sc!Reads
    <3>2. ~v6.refused
      BY DEF Sc!CopyInv, Sc!Reads, Sc!ListedSoFar
    <3>3. v3 \in [Sc!Names -> Sc!Whole] /\ v3[Sc!State] # None
      BY DEF Sc!CopyInv, Sc!Shapes
    <3>4. QED
      BY <2>1, <3>1, <3>2, <3>3, ScJob, ScJobIs DEF Sc!CopyInv
  <2>2. CASE ~(v2.fits /\ v3[Sc!State] # Sc!Link)
    <3>1. v6' = [at |-> "start", i |-> v6.i, items |-> v6.items, refused |-> TRUE]
      BY <2>2, ScJobIs DEF Sc!CopyInv, Sc!Reads
    <3>2. QED
      BY <3>1, ScJob, ScJobIs DEF Sc!CopyInv
  <2>3. QED
    BY <2>1, <2>2
<1> USE ScNames DEF Sc!CopyInv, Sc!Content, Sc!Whole, Sc!Own, Sc!Empty, Sc!Link, Sc!JobType
<1>1. Sc!Shapes'
  BY <1>0 DEF Sc!Reads, Sc!Same, Sc!AsOwner, Sc!Shapes, Sc!ListedSoFar
<1>2. Sc!InTurn'
  BY DEF Sc!Reads, Sc!Same, Sc!AsOwner, Sc!Shapes, Sc!InTurn, Sc!ListedSoFar
<1>3. Sc!ListedSoFar'
  BY <1>0 DEF Sc!Reads, Sc!Same, Sc!AsOwner, Sc!Shapes, Sc!InTurn, Sc!ListedSoFar, Sc!WholeOrHalf
<1>4. Sc!WholeOrHalf'
  BY DEF Sc!Reads, Sc!Same, Sc!AsOwner, Sc!Shapes, Sc!InTurn, Sc!ListedSoFar, Sc!WholeOrHalf
<1>5. Sc!StateLast'
  BY DEF Sc!Reads, Sc!Same, Sc!AsOwner, Sc!Shapes, Sc!InTurn, Sc!ListedSoFar, Sc!WholeOrHalf, Sc!StateLast
<1>6. Sc!AllCarried'
  BY DEF Sc!Reads, Sc!Same, Sc!AsOwner, Sc!Shapes, Sc!InTurn, Sc!ListedSoFar, Sc!WholeOrHalf, Sc!StateLast,
         Sc!Carried, Sc!AllCarried
<1>7. Sc!NeverAsRoot'
  BY DEF Sc!Reads, Sc!Same, Sc!AsOwner, Sc!Shapes, Sc!Carried, Sc!NeverAsRoot
<1>8. QED
  BY <1>1, <1>2, <1>3, <1>4, <1>5, <1>6, <1>7 DEF Sc!Carried

LEMMA ScWritesStep ==
  ASSUME Sc!CopyInv, Sc!Writes
  PROVE  Sc!CopyInv'
<1>0. /\ v6' \in Sc!JobType /\ v6'.items = v6.items /\ v6'.refused = v6.refused
      /\ \/ v6'.at = "fill" /\ v6'.i = v6.i
         \/ v6'.at = "write" /\ v6'.i = v6.i + 1
  BY ScTo, ScOn DEF Sc!CopyInv, Sc!Writes, Sc!To
<1> USE ScNames DEF Sc!CopyInv, Sc!Content, Sc!Whole, Sc!Own, Sc!Empty, Sc!Link, Sc!JobType
<1>1. Sc!Shapes'
  <2>1. v4' \in [Sc!Names -> Sc!Content]
    <3>1. v4 \in [Sc!Names -> Sc!Content] /\ Sc!Empty \in Sc!Content
      BY DEF Sc!Shapes
    <3>2. v4' = v4 \/ \E f : v4' = [v4 EXCEPT ![f] = Sc!Empty]
      BY Zenon DEF Sc!Writes
    <3> HIDE DEF Sc!Content
    <3>3. QED
      BY <3>1, <3>2
  <2>2. QED
    BY <1>0, <2>1 DEF Sc!Writes, Sc!Same, Sc!Shapes
<1>2. Sc!InTurn'
  BY DEF Sc!Writes, Sc!Same, Sc!To, Sc!Shapes, Sc!InTurn, Sc!ListedSoFar
<1>3. Sc!ListedSoFar'
  BY <1>0 DEF Sc!Writes, Sc!Same, Sc!To, Sc!Shapes, Sc!InTurn, Sc!ListedSoFar, Sc!WholeOrHalf
<1>4. Sc!WholeOrHalf'
  BY DEF Sc!Writes, Sc!Same, Sc!To, Sc!Shapes, Sc!InTurn, Sc!ListedSoFar, Sc!WholeOrHalf
<1>5. Sc!StateLast'
  BY SMTT(30) DEF Sc!Writes, Sc!Same, Sc!To, Sc!Shapes, Sc!InTurn, Sc!ListedSoFar, Sc!WholeOrHalf, Sc!StateLast
<1>6. Sc!AllCarried'
  BY DEF Sc!Writes, Sc!Same, Sc!To, Sc!Shapes, Sc!InTurn, Sc!ListedSoFar, Sc!WholeOrHalf, Sc!StateLast,
         Sc!Carried, Sc!AllCarried
<1>7. Sc!NeverAsRoot'
  BY DEF Sc!Writes, Sc!Same, Sc!To, Sc!Shapes, Sc!Carried, Sc!NeverAsRoot
<1>8. QED
  BY <1>1, <1>2, <1>3, <1>4, <1>5, <1>6, <1>7 DEF Sc!Carried

LEMMA ScFillsStep ==
  ASSUME Sc!CopyInv, Sc!Fills
  PROVE  Sc!CopyInv'
<1>0. /\ v6' \in Sc!JobType /\ v6'.items = v6.items /\ v6'.refused = v6.refused
      /\ v6'.at = "write" /\ v6'.i = v6.i + 1
  BY ScOn DEF Sc!CopyInv, Sc!Fills
<1> USE ScNames DEF Sc!CopyInv, Sc!Content, Sc!Whole, Sc!Own, Sc!Empty, Sc!Link, Sc!JobType
<1>1. Sc!Shapes'
  <2>1. v6.i \in 1..Len(StateFiles) /\ StateFiles[v6.i] \in Sc!Names
    BY DEF Sc!Fills, Sc!ListedSoFar, Sc!Shapes
  <2>2. v6.items[StateFiles[v6.i]] \in Sc!Content
    BY <2>1 DEF Sc!Fills, Sc!ListedSoFar
  <2>3. v4' \in [Sc!Names -> Sc!Content]
    BY <2>2 DEF Sc!Fills, Sc!Shapes
  <2>4. QED
    BY <1>0, <2>3 DEF Sc!Fills, Sc!Same, Sc!Shapes
<1>2. Sc!InTurn'
  BY DEF Sc!Fills, Sc!Same, Sc!Shapes, Sc!InTurn, Sc!ListedSoFar
<1>3. Sc!ListedSoFar'
  BY DEF Sc!Fills, Sc!Same, Sc!Shapes, Sc!InTurn, Sc!ListedSoFar, Sc!WholeOrHalf
<1>4. Sc!WholeOrHalf'
  BY DEF Sc!Fills, Sc!Same, Sc!Shapes, Sc!InTurn, Sc!ListedSoFar, Sc!WholeOrHalf
<1>5. Sc!StateLast'
  BY DEF Sc!Fills, Sc!Same, Sc!Shapes, Sc!InTurn, Sc!ListedSoFar, Sc!WholeOrHalf, Sc!StateLast
<1>6. Sc!AllCarried'
  BY DEF Sc!Fills, Sc!Same, Sc!Shapes, Sc!InTurn, Sc!ListedSoFar, Sc!WholeOrHalf, Sc!StateLast,
         Sc!Carried, Sc!AllCarried
<1>7. Sc!NeverAsRoot'
  BY DEF Sc!Fills, Sc!Same, Sc!Shapes, Sc!Carried, Sc!NeverAsRoot
<1>8. QED
  BY <1>1, <1>2, <1>3, <1>4, <1>5, <1>6, <1>7 DEF Sc!Carried

LEMMA ScWrittenStep ==
  ASSUME Sc!CopyInv, Sc!Written
  PROVE  Sc!CopyInv'
<1> USE ScNames DEF Sc!CopyInv, Sc!Content, Sc!Whole, Sc!Own, Sc!Empty, Sc!Link, Sc!JobType
<1>1. Sc!Shapes'
  BY DEF Sc!Written, Sc!Same, Sc!To, Sc!AsOwner, Sc!Shapes, Sc!ListedSoFar
<1>2. Sc!InTurn'
  BY DEF Sc!Written, Sc!Same, Sc!To, Sc!AsOwner, Sc!Shapes, Sc!InTurn, Sc!ListedSoFar
<1>3. Sc!ListedSoFar'
  BY DEF Sc!Written, Sc!Same, Sc!To, Sc!AsOwner, Sc!Shapes, Sc!InTurn, Sc!ListedSoFar, Sc!WholeOrHalf
<1>4. Sc!WholeOrHalf'
  BY DEF Sc!Written, Sc!Same, Sc!To, Sc!AsOwner, Sc!Shapes, Sc!InTurn, Sc!ListedSoFar, Sc!WholeOrHalf
<1>5. Sc!StateLast'
  BY DEF Sc!Written, Sc!Same, Sc!To, Sc!AsOwner, Sc!Shapes, Sc!InTurn, Sc!ListedSoFar, Sc!WholeOrHalf, Sc!StateLast
<1>6. Sc!AllCarried'
  BY DEF Sc!Written, Sc!Same, Sc!To, Sc!AsOwner, Sc!Shapes, Sc!InTurn, Sc!ListedSoFar, Sc!WholeOrHalf, Sc!StateLast,
         Sc!Carried, Sc!AllCarried
<1>7. Sc!NeverAsRoot'
  BY DEF Sc!Written, Sc!Same, Sc!To, Sc!AsOwner, Sc!Shapes, Sc!Carried, Sc!NeverAsRoot
<1>8. QED
  BY <1>1, <1>2, <1>3, <1>4, <1>5, <1>6, <1>7 DEF Sc!Carried

LEMMA ScStartsStep ==
  ASSUME Sc!CopyInv, Sc!Starts
  PROVE  Sc!CopyInv'
<1>0. v6' \in Sc!JobType
  BY ScJob, Zenon DEF Sc!Starts, Sc!NoJob
<1> USE ScNames DEF Sc!CopyInv, Sc!Content, Sc!Whole, Sc!Own, Sc!Empty, Sc!Link, Sc!JobType
<1>1. Sc!Shapes'
  <2>1. v4' \in [Sc!Names -> Sc!Content]
    BY DEF Sc!Starts, Sc!Shapes
  <2>2. v8' \in [runs : BOOLEAN, state : Sc!Content, said : BOOLEAN]
    <3>1. CASE v4[Sc!State] = Sc!Empty
      BY <3>1 DEF Sc!Starts, Sc!Shapes
    <3>2. CASE v4[Sc!State] # Sc!Empty
      <4>1. v8' = [runs |-> TRUE, state |-> v4'[Sc!State], said |-> v6.refused]
        BY <3>2 DEF Sc!Starts
      <4>2. v4'[Sc!State] \in Sc!Content /\ v6.refused \in BOOLEAN
        BY <2>1 DEF Sc!Shapes
      <4> HIDE DEF Sc!Content
      <4>3. QED
        BY <4>1, <4>2, Zenon
    <3>3. QED
      BY <3>1, <3>2
  <2>3. v7' \in BOOLEAN
    BY DEF Sc!Starts
  <2>4. QED
    BY <1>0, <2>1, <2>2, <2>3 DEF Sc!Starts, Sc!Same, Sc!Shapes
<1>2. Sc!InTurn'
  BY DEF Sc!Starts, Sc!Same, Sc!NoJob, Sc!Shapes, Sc!InTurn, Sc!ListedSoFar
<1>3. Sc!ListedSoFar'
  BY DEF Sc!Starts, Sc!Same, Sc!NoJob, Sc!Shapes, Sc!InTurn, Sc!ListedSoFar, Sc!WholeOrHalf
<1>4. Sc!WholeOrHalf'
  BY DEF Sc!Starts, Sc!Same, Sc!NoJob, Sc!Shapes, Sc!InTurn, Sc!ListedSoFar, Sc!WholeOrHalf
<1>5. Sc!StateLast'
  BY DEF Sc!Starts, Sc!Same, Sc!NoJob, Sc!Shapes, Sc!InTurn, Sc!ListedSoFar, Sc!WholeOrHalf, Sc!StateLast
<1>6. Sc!AllCarried'
  BY DEF Sc!Starts, Sc!Same, Sc!NoJob, Sc!Shapes, Sc!InTurn, Sc!ListedSoFar, Sc!WholeOrHalf, Sc!StateLast,
         Sc!Carried, Sc!AllCarried
<1>7. Sc!NeverAsRoot'
  BY DEF Sc!Starts, Sc!Same, Sc!NoJob, Sc!Shapes, Sc!Carried, Sc!NeverAsRoot
<1>8. QED
  BY <1>1, <1>2, <1>3, <1>4, <1>5, <1>6, <1>7 DEF Sc!Carried

LEMMA ScKillStep ==
  ASSUME Sc!CopyInv, Sc!Kill
  PROVE  Sc!CopyInv'
<1> USE ScNames DEF Sc!CopyInv, Sc!Content, Sc!Whole, Sc!Own, Sc!Empty, Sc!Link, Sc!JobType
<1>1. Sc!Shapes'
  BY DEF Sc!Kill, Sc!Same, Sc!NoJob, Sc!Shapes, Sc!ListedSoFar
<1>2. Sc!InTurn'
  BY DEF Sc!Kill, Sc!Same, Sc!NoJob, Sc!Shapes, Sc!InTurn, Sc!ListedSoFar
<1>3. Sc!ListedSoFar'
  BY DEF Sc!Kill, Sc!Same, Sc!NoJob, Sc!Shapes, Sc!InTurn, Sc!ListedSoFar, Sc!WholeOrHalf
<1>4. Sc!WholeOrHalf'
  BY DEF Sc!Kill, Sc!Same, Sc!NoJob, Sc!Shapes, Sc!InTurn, Sc!ListedSoFar, Sc!WholeOrHalf
<1>5. Sc!StateLast'
  BY DEF Sc!Kill, Sc!Same, Sc!NoJob, Sc!Shapes, Sc!InTurn, Sc!ListedSoFar, Sc!WholeOrHalf, Sc!StateLast
<1>6. Sc!AllCarried'
  BY DEF Sc!Kill, Sc!Same, Sc!NoJob, Sc!Shapes, Sc!InTurn, Sc!ListedSoFar, Sc!WholeOrHalf, Sc!StateLast,
         Sc!Carried, Sc!AllCarried
<1>7. Sc!NeverAsRoot'
  BY DEF Sc!Kill, Sc!Same, Sc!NoJob, Sc!Shapes, Sc!Carried, Sc!NeverAsRoot
<1>8. QED
  BY <1>1, <1>2, <1>3, <1>4, <1>5, <1>6, <1>7 DEF Sc!Carried

LEMMA ScInvStep == Sc!CopyInv /\ [Sc!Next]_(Sc!vars) => Sc!CopyInv'
<1> SUFFICES ASSUME Sc!CopyInv, [Sc!Next]_(Sc!vars) PROVE Sc!CopyInv'
  OBVIOUS
<1>1. CASE UNCHANGED Sc!vars
  BY <1>1 DEF Sc!vars, Sc!CopyInv, Sc!Shapes, Sc!InTurn, Sc!ListedSoFar, Sc!WholeOrHalf, Sc!StateLast,
              Sc!Carried, Sc!AllCarried, Sc!NeverAsRoot
<1>2. CASE Sc!Next
  BY <1>2, ScOldSavesStep, ScBeginStep, ScLooksStep, ScReadsStep, ScWritesStep, ScFillsStep,
     ScWrittenStep, ScStartsStep, ScKillStep DEF Sc!Next
<1>3. QED
  BY <1>1, <1>2

\* However many files there are, and whenever setup is killed and run again: the
\* new daemon has the old one's identity or setup has said that it could not, with
\* the last save and every plain file before state.json unless a file was cut short;
\* and root's rights are never used in a folder another account can change.
THEOREM CarriedTheorem == HostSpec => []Carried
<1> DEFINE I == which = "copy" => Sc!CopyInv
<1>1. HostInit => I
  BY ScInit DEF HostInit
<1>2. I /\ [HostNext]_<<vars, hostVars>> => I'
  BY Steps, ScInvStep
<1>3. I => Carried
  BY DEF Carried, Sc!CopyInv
<1>4. QED
  BY <1>1, <1>2, <1>3, PTL DEF HostSpec

-----------------------------------------------------------------------------
(* The supervisor.                                                         *)

\* What is dropped is at the front, and all of it is old.
LEMMA SuRecent ==
  ASSUME NEW times \in Seq(Nat), v8 \in Nat
  PROVE  \E k \in 0..Len(times) :
           /\ Su!Recent(times) \in Seq(Nat) /\ Len(Su!Recent(times)) = Len(times) - k
           /\ \A i \in 1..Len(times) - k : Su!Recent(times)[i] = times[i + k]
           /\ \A i \in 1..k : v8 - times[i] >= Window
<1> DEFINE fresh == {i \in DOMAIN times : v8 - times[i] < Window}
<1>0. Window \in Nat /\ DOMAIN times = 1..Len(times) /\ Len(times) \in Nat
      /\ \A i \in 1..Len(times) : times[i] \in Nat
  BY CrashesAssumption
<1>1. CASE fresh = {}
  <2>1. Su!Recent(times) = <<>>
    BY <1>1 DEF Su!Recent
  <2>2. ASSUME NEW i \in 1..Len(times) PROVE v8 - times[i] >= Window
    <3>1. times[i] \in Nat /\ i \notin fresh /\ i \in DOMAIN times
      BY <1>0, <1>1
    <3>2. ~(v8 - times[i] < Window)
      BY <3>1
    <3>3. QED
      BY <3>1, <3>2, <1>0
  <2>3. Len(times) \in 0..Len(times) /\ Len(times) - Len(times) = 0
    BY <1>0
  <2>4. QED
    BY <2>1, <2>2, <2>3
<1>2. CASE fresh # {}
  <2>0. fresh \in SUBSET Nat
    BY <1>0
  <2>1. PICK n \in fresh : \A i \in fresh : n <= i
    <3> HIDE DEF fresh
    <3> QED
      BY <1>2, <2>0, Least
  <2>2. Su!Min(fresh) = n
    BY <2>1, <1>0 DEF Su!Min
  <2>3. Su!Recent(times) = SubSeq(times, n, Len(times))
    BY <1>2, <2>2 DEF Su!Recent
  <2>4. n \in 1..Len(times) /\ n - 1 \in 0..Len(times)
    BY <2>1, <1>0
  <2>5. /\ Su!Recent(times) \in Seq(Nat) /\ Len(Su!Recent(times)) = Len(times) - (n - 1)
        /\ \A i \in 1..Len(times) - (n - 1) : Su!Recent(times)[i] = times[i + (n - 1)]
    <3> DEFINE r == SubSeq(times, n, Len(times))
               N == Len(times)
    <3>1. n \in Int /\ N \in Int /\ n <= N /\ \A i \in n..N : times[i] \in Nat
      <4> HIDE DEF fresh, N
      <4>1. n \in 1..N /\ N \in Nat /\ \A i \in 1..N : times[i] \in Nat
        BY <2>4, <1>0 DEF N
      <4>2. QED
        BY <4>1
    <3>2. r \in Seq(Nat) /\ Len(r) = (IF n <= N THEN N - n + 1 ELSE 0)
          /\ \A i \in 1..N - n + 1 : r[i] = times[n + i - 1]
      <4> HIDE DEF fresh
      <4> QED
        BY <3>1, SubSeqProperties
    <3>3. N - n + 1 = N - (n - 1) /\ \A i \in Int : n + i - 1 = i + (n - 1)
      <4> HIDE DEF fresh, N
      <4> QED
        BY <3>1
    <3>4. QED
      <4> HIDE DEF fresh, N, r
      <4> QED
        BY <2>3, <3>1, <3>2, <3>3 DEF N, r
  <2>6. ASSUME NEW i \in 1..(n - 1) PROVE v8 - times[i] >= Window
    <3>1. i \in 1..Len(times) /\ ~(n <= i)
      <4> HIDE DEF fresh
      <4> QED
        BY <2>4, <1>0
    <3>2. i \in DOMAIN times /\ times[i] \in Nat /\ i \notin fresh
      <4> HIDE DEF fresh
      <4> QED
        BY <3>1, <1>0, <2>1
    <3>3. ~(v8 - times[i] < Window)
      BY <3>2
    <3>4. QED
      BY <3>2, <3>3, <1>0
  <2>7. QED
    BY <2>4, <2>5, <2>6
<1>3. QED
  BY <1>1, <1>2

\* A step that changes one supervisor, and no time.
LEMMA SuFrame ==
  ASSUME Su!CrashesInv, NEW s \in Sups, v8' = v8, DOMAIN v2' = Sups, DOMAIN v10' = Sups,
         \A t \in Sups : t # s => v2'[t] = v2[t] /\ v10'[t] = v10[t],
         Su!CrashesOf(s)',
         Len(v10'[s]) = CrashLimit + 1 => v10'[s][Len(v10'[s])] - v10'[s][1] >= Window
  PROVE  Su!CrashesInv'
<1>1. ASSUME NEW t \in Sups PROVE Su!CrashesOf(t)'
  BY <1>1 DEF Su!CrashesInv, Su!CrashesOf, Su!Ended, Su!Counted
<1>2. Su!NeverSpins'
  BY DEF Su!CrashesInv, Su!NeverSpins
<1>3. QED
  BY <1>1, <1>2 DEF Su!CrashesInv

LEMMA SuSame ==
  ASSUME Su!CrashesInv, v8' = v8, DOMAIN v2' = Sups, DOMAIN v10' = Sups,
         \A t \in Sups : v2'[t] = v2[t] /\ v10'[t] = v10[t]
  PROVE  Su!CrashesInv'
<1>1. ASSUME NEW t \in Sups PROVE Su!CrashesOf(t)'
  <2>1. v2'[t] = v2[t] /\ v10'[t] = v10[t] /\ Su!CrashesOf(t)
    BY <1>1 DEF Su!CrashesInv
  <2>2. QED
    BY <2>1 DEF Su!CrashesOf, Su!Ended, Su!Counted
<1>2. Su!NeverSpins'
  BY DEF Su!CrashesInv, Su!NeverSpins
<1>3. QED
  BY <1>1, <1>2 DEF Su!CrashesInv

\* A supervisor that is done, or killed, keeps only the times it started daemons.
LEMMA SuGone ==
  ASSUME Su!CrashesInv, NEW s, NEW how \in {"gone", "gaveup"}, v8' = v8, v10' = v10,
         v2' = [v2 EXCEPT ![s] = [Su!Nobody EXCEPT !.at = how]]
  PROVE  Su!CrashesInv'
<1>0. DOMAIN v2' = Sups /\ DOMAIN v10' = Sups /\ \A t \in Sups : t # s => v2'[t] = v2[t] /\ v10'[t] = v10[t]
  BY DEF Su!CrashesInv
<1>1. CASE s \notin Sups
  BY <1>0, <1>1, SuSame
<1>2. CASE s \in Sups
  <2>1. v2'[s] = [Su!Nobody EXCEPT !.at = how]
    BY <1>2 DEF Su!CrashesInv
  <2>2. v2'[s].at = how /\ DOMAIN v2'[s] = DOMAIN Su!Nobody
    BY <2>1 DEF Su!Nobody
  <2>3. Su!CrashesOf(s)'
    BY <1>2, <2>2 DEF Su!CrashesInv, Su!CrashesOf
  <2>4. Len(v10'[s]) = CrashLimit + 1 => v10'[s][Len(v10'[s])] - v10'[s][1] >= Window
    BY <1>2 DEF Su!CrashesInv, Su!NeverSpins
  <2>5. QED
    BY <1>0, <1>2, <2>3, <2>4, SuFrame
<1>3. QED
  BY <1>1, <1>2

\* Asked to stop: the wait for the next start is over.
LEMMA SuAsked ==
  ASSUME Su!CrashesInv, NEW s, s \in Sups => v2[s].at = "up", v8' = v8, v10' = v10,
         v2' = Su!Asked(v2, s)
  PROVE  Su!CrashesInv'
<1>0. DOMAIN v2' = Sups /\ DOMAIN v10' = Sups /\ \A t \in Sups : t # s => v2'[t] = v2[t] /\ v10'[t] = v10[t]
  BY DEF Su!CrashesInv, Su!Asked
<1>1. CASE s \notin Sups
  BY <1>0, <1>1, SuSame
<1>2. CASE s \in Sups
  <2>0. DOMAIN v2[s] = DOMAIN Su!Nobody /\ Su!CrashesOf(s) /\ v2[s].at = "up"
    BY <1>2 DEF Su!CrashesInv, Su!CrashesOf
  <2>1. /\ v2'[s].at = "stopping" /\ v2'[s].due = None /\ v2'[s].child = v2[s].child
        /\ v2'[s].crashes = v2[s].crashes /\ DOMAIN v2'[s] = DOMAIN v2[s]
    BY <1>2, <2>0 DEF Su!CrashesInv, Su!Asked, Su!Nobody
  <2>3. Su!CrashesOf(s)'
    BY <1>2, <2>0, <2>1 DEF Su!CrashesOf, Su!Ended, Su!Counted
  <2>4. Len(v10'[s]) = CrashLimit + 1 => v10'[s][Len(v10'[s])] - v10'[s][1] >= Window
    BY <1>2 DEF Su!CrashesInv, Su!NeverSpins
  <2>5. QED
    BY <1>0, <1>2, <2>3, <2>4, SuFrame
<1>3. QED
  BY <1>1, <1>2

\* A new supervisor looks whether there is one.
LEMMA SuLooks ==
  ASSUME Su!CrashesInv, NEW s \in Sups, v2[s].at = "none", v8' = v8, v10' = v10,
         v2' = Su!Looks(v2, s)
  PROVE  Su!CrashesInv'
<1>0. DOMAIN v2' = Sups /\ DOMAIN v10' = Sups /\ \A t \in Sups : t # s => v2'[t] = v2[t] /\ v10'[t] = v10[t]
  BY DEF Su!CrashesInv, Su!Looks
<1>1. DOMAIN v2[s] = DOMAIN Su!Nobody /\ Su!CrashesOf(s)
  BY DEF Su!CrashesInv, Su!CrashesOf
<1>2. /\ v2'[s].at \in {"begun", "gone"} /\ v2'[s].child = v2[s].child
      /\ v2'[s].crashes = v2[s].crashes /\ DOMAIN v2'[s] = DOMAIN v2[s]
  BY <1>1 DEF Su!CrashesInv, Su!Looks, Su!Nobody
<1>3. Su!CrashesOf(s)'
  BY <1>1, <1>2 DEF Su!CrashesOf, Su!Ended, Su!Counted
<1>4. Len(v10'[s]) = CrashLimit + 1 => v10'[s][Len(v10'[s])] - v10'[s][1] >= Window
  BY DEF Su!CrashesInv, Su!NeverSpins
<1>5. QED
  BY <1>0, <1>3, <1>4, SuFrame

\* A request to stop is one of these.
LEMMA SuRequestStop ==
  ASSUME Su!CrashesInv, NEW s, Su!RequestStop(s), v8' = v8, v10' = v10
  PROVE  Su!CrashesInv'
<1>1. CASE v2[s].at # "up"
  BY <1>1, SuSame DEF Su!RequestStop, Su!CrashesInv
<1>2. CASE v2[s].at = "up" /\ v2[s].child = None
  BY <1>2, SuGone DEF Su!RequestStop, Su!Cleanup
<1>3. CASE v2[s].at = "up" /\ v2[s].child # None
  BY <1>3, SuAsked DEF Su!RequestStop
<1>4. QED
  BY <1>1, <1>2, <1>3

\* A start: there is one end fewer among the crashes than would be needed to cover
\* CrashLimit of them, so the first of the last CrashLimit + 1 starts is old.
LEMMA SuStarting ==
  ASSUME Su!CrashesInv, NEW s \in Sups, NEW d \in Daemons, v2[s].at \in {"begun", "up"},
         v2[s].child = None, Su!Starting(s, d, v2), v8' = v8
  PROVE  Su!CrashesInv'
<1> DEFINE st == v10[s]
           n == Len(v10[s])
           m == Len(v2[s].crashes)
           L == CrashLimit
           a == Append(v10[s], v8)
<1>1. /\ L \in Nat \ {0} /\ v8 \in Nat /\ Window \in Nat /\ d # None
      /\ st \in Seq(Nat) /\ n \in 0..L + 1 /\ m \in 0..L - 1
      /\ v2[s].crashes \in Seq(Nat) /\ DOMAIN v2[s] = DOMAIN Su!Nobody
      /\ \A j \in 1..n : st[j] \in Nat /\ st[j] <= v8
  BY CrashesAssumption DEF Su!CrashesInv, Su!CrashesOf
<1>2. \A j \in 1..n : \/ m - n + j \in 1..m /\ st[j] <= v2[s].crashes[m - n + j]
                      \/ v8 - st[j] >= Window
  <2>1. CASE v2[s].at = "begun"
    BY <2>1, <1>1 DEF Su!CrashesInv, Su!CrashesOf
  <2>2. CASE v2[s].at = "up"
    <3>1. Su!Ended(s) = n /\ DOMAIN v2[s].crashes = 1..m
      BY <1>1 DEF Su!Ended
    <3>2. \A j \in 1..n : Su!Counted(s, j)
      BY <2>2, <3>1 DEF Su!CrashesInv, Su!CrashesOf
    <3>3. QED
      BY <3>1, <3>2 DEF Su!Counted
  <2>3. QED
    BY <2>1, <2>2
<1>3. /\ a \in Seq(Nat) /\ Len(a) = n + 1 /\ a[n + 1] = v8 /\ \A j \in 1..n : a[j] = st[j]
  BY <1>1
<1>4. /\ DOMAIN v2' = Sups /\ DOMAIN v10' = Sups
      /\ \A t \in Sups : t # s => v2'[t] = v2[t] /\ v10'[t] = v10[t]
      /\ v10'[s] = IF n + 1 > L + 1 THEN Tail(a) ELSE a
  BY <1>3 DEF Su!CrashesInv, Su!Starting, Su!LastOf
<1>5. /\ v2'[s].at = "up" /\ v2'[s].child = d /\ v2'[s].due = None
      /\ v2'[s].crashes = v2[s].crashes /\ DOMAIN v2'[s] = DOMAIN v2[s]
  BY <1>1 DEF Su!CrashesInv, Su!Starting, Su!Nobody
<1>0. DOMAIN v2[s].crashes = 1..m /\ Len(v2[s].crashes) = m /\ L = CrashLimit
  BY <1>1
<1> HIDE DEF st, n, m, a, L
<1>6. SUFFICES ASSUME NEW off \in {0, 1}, NEW N \in 1..L + 1, v10'[s] \in Seq(Nat), Len(v10'[s]) = N,
                      N - 1 + off = n, v10'[s][N] = v8, \A j \in 1..N - 1 : v10'[s][j] = st[j + off],
                      N = L + 1 \/ off = 0
               PROVE  Su!CrashesInv'
  <2>1. CASE n <= L
    <3>1. v10'[s] = a /\ ~(n + 1 > L + 1)
      BY <2>1, <1>1, <1>4
    <3>2. PICK N : N = n + 1
      OBVIOUS
    <3>3. N \in 1..L + 1 /\ N - 1 = n /\ N - 1 + 0 = n /\ Len(v10'[s]) = N /\ v10'[s][N] = v8
      BY <3>1, <3>2, <2>1, <1>1, <1>3
    <3>4. \A j \in 1..N - 1 : v10'[s][j] = st[j + 0]
      <4>1. \A j \in 1..n : j + 0 = j
        BY <1>1
      <4>2. QED
        BY <4>1, <3>1, <3>3, <1>3
    <3>5. QED
      BY <3>1, <3>3, <3>4, <1>3
  <2>2. CASE n = L + 1
    <3>1. Tail(a) \in Seq(Nat) /\ Len(Tail(a)) = n /\ \A j \in 1..n : Tail(a)[j] = a[j + 1]
      <4>1. a # <<>> /\ Len(a) - 1 = n
        BY <1>1, <1>3
      <4>2. QED
        BY <4>1, <1>3, HeadTailProperties
    <3>2. v10'[s] = Tail(a) /\ n \in 1..L + 1 /\ n - 1 + 1 = n
      <4>1. n + 1 > L + 1
        BY <2>2, <1>1
      <4>2. QED
        BY <4>1, <2>2, <1>1, <1>4
    <3>3. \A j \in 1..n - 1 : j \in 1..n /\ j + 1 \in 1..n /\ Tail(a)[j] = st[j + 1]
      <4>1. \A j \in 1..n - 1 : j \in 1..n /\ j + 1 \in 1..n
        BY <1>1
      <4>2. QED
        BY <4>1, <3>1, <1>3
    <3>4. n \in 1..n /\ Tail(a)[n] = v8
      BY <3>1, <3>2, <1>3, <1>1
    <3>5. QED
      BY <3>1, <3>2, <3>3, <3>4, <2>2
  <2>3. QED
    BY <2>1, <2>2, <1>1
<1>7. \A j \in 1..N - 1 : \/ m - (N - 1) + j \in 1..m /\ v10'[s][j] <= v2[s].crashes[m - (N - 1) + j]
                          \/ v8 - v10'[s][j] >= Window
  <2> SUFFICES ASSUME NEW j \in 1..N - 1
               PROVE  \/ m - (N - 1) + j \in 1..m /\ v10'[s][j] <= v2[s].crashes[m - (N - 1) + j]
                      \/ v8 - v10'[s][j] >= Window
    OBVIOUS
  <2>1. j + off \in 1..n /\ m - n + (j + off) = m - (N - 1) + j
    <3>1. m \in Int /\ n \in Int /\ n = N - 1 + off /\ N \in Nat /\ N >= 1 /\ j >= 1 /\ j <= N - 1
          /\ (off = 0 \/ off = 1) /\ j \in Int
      BY <1>1, <1>6
    <3>2. QED
      BY <3>1
  <2>2. v10'[s][j] = st[j + off]
    BY <1>6
  <2>3. QED
    BY <1>2, <2>1, <2>2
<1>8. Su!CrashesOf(s)'
  <2>1. ASSUME NEW j \in 1..N PROVE v10'[s][j] <= v8
    <3>1. CASE j = N
      BY <3>1, <1>1, <1>6
    <3>2. CASE j \in 1..N - 1
      <4>1. j + off \in 1..n
        BY <3>2, <1>1, <1>6
      <4>2. QED
        BY <3>2, <4>1, <1>1, <1>6
    <3>3. QED
      BY <3>1, <3>2
  <2>2. Su!Ended(s)' = N - 1
    BY <1>1, <1>5, <1>6 DEF Su!Ended
  <2>3. \A j \in 1..N - 1 : Su!Counted(s, j)'
    BY <1>0, <1>5, <1>7, <2>2 DEF Su!Counted
  <2>4. DOMAIN v10'[s] = 1..N /\ v10'[s] # <<>> /\ N <= L + 1 /\ m < L
    BY <1>1, <1>6
  <2>5. QED
    BY <1>0, <1>1, <1>5, <1>6, <2>1, <2>2, <2>3, <2>4 DEF Su!CrashesOf
<1>9. Len(v10'[s]) = CrashLimit + 1 => v10'[s][Len(v10'[s])] - v10'[s][1] >= Window
  <2>1. ASSUME N = L + 1 PROVE v8 - v10'[s][1] >= Window
    BY <2>1, <1>1, <1>7
  <2>2. QED
    BY <2>1, <1>0, <1>6
<1>10. QED
  BY <1>4, <1>8, <1>9, SuFrame

\* An end: it is at or after the last start, and what is dropped is old.
LEMMA SuCrashed ==
  ASSUME Su!CrashesInv, NEW s \in Sups, v2[s].at = "up", v2[s].child # None, Su!Crashed(s),
         v8' = v8, v10' = v10
  PROVE  Su!CrashesInv'
<1> DEFINE st == v10[s]
           n == Len(v10[s])
           m == Len(v2[s].crashes)
           c == Append(v2[s].crashes, v8)
           r == Su!Recent(Append(v2[s].crashes, v8))
<1>1. /\ v8 \in Nat /\ Window \in Nat
      /\ st \in Seq(Nat) /\ n \in Nat \ {0} /\ m \in Nat
      /\ v2[s].crashes \in Seq(Nat) /\ DOMAIN v2[s] = DOMAIN Su!Nobody
      /\ \A j \in 1..n : st[j] \in Nat /\ st[j] <= v8
  <2>1. st \in Seq(Nat) /\ st # <<>> /\ v2[s].crashes \in Seq(Nat) /\ v8 \in Nat
        /\ DOMAIN v2[s] = DOMAIN Su!Nobody /\ \A j \in DOMAIN st : st[j] <= v8
    BY DEF Su!CrashesInv, Su!CrashesOf
  <2>2. n \in Nat \ {0} /\ DOMAIN st = 1..n /\ m \in Nat
    BY <2>1
  <2>3. QED
    BY <2>1, <2>2, CrashesAssumption
<1>2. CASE Su!TooMany(r)
  BY <1>2, SuGone DEF Su!Crashed, Su!Cleanup
<1>3. CASE ~Su!TooMany(r)
  <2>1. /\ DOMAIN v2' = Sups /\ DOMAIN v10' = Sups
        /\ \A t \in Sups : t # s => v2'[t] = v2[t] /\ v10'[t] = v10[t]
    BY <1>3 DEF Su!CrashesInv, Su!Crashed
  <2>2. /\ v2'[s].at = "up" /\ v2'[s].child = None /\ v2'[s].crashes = r
        /\ DOMAIN v2'[s] = DOMAIN v2[s]
    BY <1>3, <1>1 DEF Su!CrashesInv, Su!Crashed, Su!Nobody
  <2>3. /\ c \in Seq(Nat) /\ Len(c) = m + 1 /\ c[m + 1] = v8
        /\ \A i \in 1..m : c[i] = v2[s].crashes[i]
        /\ \A i \in 1..m + 1 : c[i] \in Nat
    <3>1. PICK cs : cs = v2[s].crashes
      OBVIOUS
    <3>2. cs \in Seq(Nat) /\ Len(cs) = m /\ c = Append(cs, v8) /\ m \in Nat /\ v8 \in Nat
      BY <3>1, <1>1
    <3>3. c \in Seq(Nat) /\ Len(c) = m + 1 /\ c[m + 1] = v8 /\ \A i \in 1..m : c[i] = cs[i]
      <4> HIDE DEF c, m
      <4> QED
        BY <3>2
    <3>4. \A i \in 1..m + 1 : c[i] \in Nat
      <4> HIDE DEF c, m
      <4> QED
        BY <3>3, <3>2
    <3>5. QED
      BY <3>1, <3>3, <3>4
  <2>4. \E k \in 0..m + 1 :
           /\ r \in Seq(Nat) /\ Len(r) = m + 1 - k
           /\ \A i \in 1..m + 1 - k : r[i] = c[i + k]
           /\ \A i \in 1..k : v8 - c[i] >= Window
    <3>1. r = Su!Recent(c)
      OBVIOUS
    <3> HIDE DEF c, r, m
    <3>2. c \in Seq(Nat) /\ v8 \in Nat /\ Len(c) = m + 1 /\ m \in Nat
      BY <1>1, <2>3
    <3>3. PICK k \in 0..Len(c) :
           /\ Su!Recent(c) \in Seq(Nat) /\ Len(Su!Recent(c)) = Len(c) - k
           /\ \A i \in 1..Len(c) - k : Su!Recent(c)[i] = c[i + k]
           /\ \A i \in 1..k : v8 - c[i] >= Window
      BY <3>2, SuRecent
    <3>4. k \in 0..m + 1 /\ r \in Seq(Nat) /\ Len(r) = m + 1 - k
      BY <3>1, <3>2, <3>3
    <3>5. \A i \in 1..m + 1 - k : r[i] = c[i + k]
      BY <3>1, <3>2, <3>3
    <3>6. QED
      BY <3>3, <3>4, <3>5
  <2>5. \A j \in 1..n - 1 : \/ m - (n - 1) + j \in 1..m /\ st[j] <= v2[s].crashes[m - (n - 1) + j]
                            \/ v8 - st[j] >= Window
    <3>1. Su!Ended(s) = n - 1 /\ DOMAIN v2[s].crashes = 1..m
      BY <1>1 DEF Su!Ended
    <3>2. \A j \in 1..n - 1 : Su!Counted(s, j)
      BY <3>1 DEF Su!CrashesInv, Su!CrashesOf
    <3>3. QED
      BY <3>1, <3>2 DEF Su!Counted
  <2>6. Len(r) < CrashLimit
    BY <1>3, <2>4, <2>3, <1>1, CrashesAssumption DEF Su!TooMany
  <2>7. DOMAIN r = 1..Len(r)
    <3> HIDE DEF r, m, c
    <3> QED
      BY <2>4
  <2> HIDE DEF st, n, m, c, r
  <2>8. \A j \in 1..n : \/ m + 1 - n + j \in 1..m + 1 /\ st[j] <= c[m + 1 - n + j]
                        \/ v8 - st[j] >= Window
    <3> SUFFICES ASSUME NEW j \in 1..n
                 PROVE  \/ m + 1 - n + j \in 1..m + 1 /\ st[j] <= c[m + 1 - n + j]
                        \/ v8 - st[j] >= Window
      OBVIOUS
    <3>1. CASE j = n
      <4>1. m + 1 - n + j = m + 1 /\ m + 1 \in 1..m + 1
        BY <3>1, <1>1
      <4>2. QED
        BY <4>1, <2>3, <1>1
    <3>2. CASE j \in 1..n - 1
      <4>1. m + 1 - n + j = m - (n - 1) + j
        BY <3>2, <1>1
      <4>2. 1..m \subseteq 1..m + 1
        BY <1>1
      <4>3. QED
        BY <3>2, <4>1, <4>2, <2>5, <2>3
    <3>3. QED
      BY <3>1, <3>2, <1>1
  <2>9. PICK k \in 0..m + 1 :
           /\ r \in Seq(Nat) /\ Len(r) = m + 1 - k
           /\ \A i \in 1..m + 1 - k : r[i] = c[i + k]
           /\ \A i \in 1..k : v8 - c[i] >= Window
    BY <2>4
  <2>10. ASSUME NEW j \in 1..n
         PROVE  \/ Len(r) - n + j \in 1..Len(r) /\ st[j] <= r[Len(r) - n + j]
                \/ v8 - st[j] >= Window
    <3>1. CASE v8 - st[j] >= Window
      BY <3>1
    <3>2. CASE m + 1 - n + j \in 1..m + 1 /\ st[j] <= c[m + 1 - n + j]
      <4>1. PICK i \in 1..m + 1 : i = m + 1 - n + j
        BY <3>2
      <4>2. st[j] <= c[i] /\ c[i] \in Nat /\ st[j] \in Nat
        BY <3>2, <4>1, <2>3, <1>1
      <4>3. CASE i \in 1..k
        <5>1. v8 - c[i] >= Window
          BY <4>3, <2>9
        <5>2. \A x, y, z, w \in Int : x <= y /\ z - y >= w => z - x >= w
          OBVIOUS
        <5>3. v8 \in Int /\ Window \in Int /\ st[j] \in Int /\ c[i] \in Int
          BY <1>1, <4>2
        <5>4. QED
          BY <5>1, <5>2, <5>3, <4>2, Zenon
      <4>4. CASE i \notin 1..k
        <5>1. i - k \in 1..m + 1 - k /\ i - k + k = i /\ i - k = m + 1 - k - n + j
          <6>1. m \in Int /\ k \in Int /\ n \in Int /\ j \in Int /\ i \in Int /\ 0 <= k
            BY <1>1, <4>1, <2>9
          <6>2. 1 <= i /\ i <= m + 1 /\ ~(i <= k) /\ i = m + 1 - n + j
            BY <4>4, <4>1, <6>1
          <6>3. QED
            BY <6>1, <6>2
        <5>2. r[i - k] = c[i]
          BY <5>1, <2>9
        <5>3. Len(r) - n + j = i - k /\ i - k \in 1..Len(r)
          <6>1. Len(r) = m + 1 - k /\ m \in Int /\ k \in Int /\ n \in Int /\ j \in Int
            BY <2>9, <1>1
          <6>2. QED
            BY <5>1, <6>1
        <5>4. QED
          BY <5>2, <5>3, <4>2
      <4>5. QED
        BY <4>3, <4>4
    <3>3. QED
      BY <3>1, <3>2, <2>8
  <2>11. Su!Ended(s)' = n
    BY <2>2, <1>1 DEF Su!Ended, n
  <2>12. \A j \in 1..n : Su!Counted(s, j)'
    BY <2>2, <2>7, <2>10, <2>11 DEF Su!Counted, st
  <2>13. Su!CrashesOf(s)'
    <3>1. v10'[s] \in Seq(Nat) /\ Len(v10'[s]) <= CrashLimit + 1 /\ \A j \in DOMAIN v10'[s] : v10'[s][j] <= v8'
      BY DEF Su!CrashesInv, Su!CrashesOf
    <3>2. QED
      BY <1>1, <2>2, <2>6, <2>9, <2>11, <2>12, <3>1 DEF Su!CrashesOf
  <2>14. Len(v10'[s]) = CrashLimit + 1 => v10'[s][Len(v10'[s])] - v10'[s][1] >= Window
    BY DEF Su!CrashesInv, Su!NeverSpins
  <2>15. QED
    BY <2>1, <2>13, <2>14, SuFrame
<1>4. QED
  BY <1>2, <1>3

LEMMA SuTick == Su!CrashesInv /\ Su!Tick => Su!CrashesInv'
<1> SUFFICES ASSUME Su!CrashesInv, Su!Tick PROVE Su!CrashesInv'
  OBVIOUS
<1>1. v2' = v2 /\ v10' = v10 /\ v8' = v8 + 1 /\ v8 \in Nat /\ Window \in Nat /\ DOMAIN v2 = Sups
  BY CrashesAssumption DEF Su!Tick, Su!CrashesInv
<1>2. ASSUME NEW t \in Sups PROVE Su!CrashesOf(t)'
  <2>1. Su!CrashesOf(t)
    BY DEF Su!CrashesInv
  <2>2. \A j \in DOMAIN v10[t] : v10[t][j] \in Nat
    BY <2>1 DEF Su!CrashesOf
  <2>3. Su!Ended(t) <= Len(v10[t]) /\ Su!Ended(t)' = Su!Ended(t) /\ Su!Ended(t) \in Int
        /\ DOMAIN v10[t] = 1..Len(v10[t])
    <3>1. v10[t] \in Seq(Nat)
      BY <2>1 DEF Su!CrashesOf
    <3>2. Len(v10[t]) \in Nat /\ DOMAIN v10[t] = 1..Len(v10[t])
      BY <3>1
    <3>3. Su!Ended(t)' = Su!Ended(t)
      BY <1>1 DEF Su!Ended
    <3>4. Su!Ended(t) <= Len(v10[t]) /\ Su!Ended(t) \in Int
      <4>1. CASE v2[t].child = None
        BY <3>2, <4>1 DEF Su!Ended
      <4>2. CASE v2[t].child # None
        BY <3>2, <4>2 DEF Su!Ended
      <4>3. QED
        BY <4>1, <4>2
    <3>5. QED
      BY <3>2, <3>3, <3>4
  <2>4. ASSUME NEW j \in 1..Su!Ended(t), Su!Counted(t, j) PROVE Su!Counted(t, j)'
    <3>1. v10[t][j] \in Nat
      BY <2>2, <2>3
    <3>2. QED
      <4>1. v8 - v10[t][j] >= Window => v8' - v10[t][j] >= Window
        BY <1>1, <3>1
      <4>2. QED
        BY <1>1, <2>3, <2>4, <4>1 DEF Su!Counted
  <2>5. \A j \in DOMAIN v10[t] : v10[t][j] <= v8'
    BY <1>1, <2>1, <2>2 DEF Su!CrashesOf
  <2>6. QED
    BY <1>1, <2>1, <2>3, <2>4, <2>5 DEF Su!CrashesOf
<1>3. QED
  BY <1>1, <1>2 DEF Su!CrashesInv, Su!NeverSpins

LEMMA SuInit == Su!Init => Su!CrashesInv
<1> SUFFICES ASSUME Su!Init PROVE Su!CrashesInv
  OBVIOUS
<1>1. ASSUME NEW s \in Sups PROVE Su!CrashesOf(s)
  <2>1. v2[s] = Su!Nobody /\ v10[s] = <<>>
    BY DEF Su!Init
  <2>2. v2[s].at = "none" /\ v2[s].child = None /\ v2[s].crashes = <<>> /\ DOMAIN v2[s] = DOMAIN Su!Nobody
    BY <2>1 DEF Su!Nobody
  <2>3. QED
    BY <2>1, <2>2, CrashesAssumption DEF Su!CrashesOf
<1>2. Su!NeverSpins
  BY CrashesAssumption DEF Su!Init, Su!NeverSpins
<1>3. QED
  BY <1>1, <1>2 DEF Su!Init, Su!CrashesInv

LEMMA SuInvStep == Su!CrashesInv /\ [Su!Next]_(Su!vars) => Su!CrashesInv'
<1> SUFFICES ASSUME Su!CrashesInv, [Su!Next]_(Su!vars) PROVE Su!CrashesInv'
  OBVIOUS
<1>1. CASE UNCHANGED <<v2, v8, v10>>
  BY <1>1, SuSame DEF Su!CrashesInv
<1>2. ASSUME NEW s \in Sups, Su!Claims(s) \/ Su!TimerStarts(s) PROVE Su!CrashesInv'
  <2>1. PICK d \in Su!Unused : Su!Starting(s, d, v2)
    BY <1>2 DEF Su!Claims, Su!TimerStarts
  <2>2. d \in Daemons /\ v8' = v8 /\ v2[s].at \in {"begun", "up"}
    BY <1>2, <2>1 DEF Su!Claims, Su!TimerStarts, Su!Unused
  <2>3. v2[s].child = None
    BY <1>2 DEF Su!Claims, Su!TimerStarts, Su!CrashesInv, Su!CrashesOf
  <2>4. QED
    BY <2>1, <2>2, <2>3, SuStarting
<1>3. ASSUME NEW s \in Sups, Su!Exited(s) PROVE Su!CrashesInv'
  <2>1. CASE v2[s].at = "stopping"
    BY <1>3, <2>1, SuGone DEF Su!Exited, Su!Cleanup
  <2>2. CASE v2[s].at = "up"
    BY <1>3, <2>2, SuCrashed DEF Su!Exited
  <2>3. QED
    BY <1>3, <2>1, <2>2 DEF Su!Exited
<1>4. ASSUME NEW s \in Sups, Su!Run(s) PROVE Su!CrashesInv'
  BY <1>4, SuLooks DEF Su!Run
<1>5. ASSUME NEW s \in Sups, Su!Signal(s) \/ Su!SupKilled(s) PROVE Su!CrashesInv'
  BY <1>5, SuRequestStop, SuGone DEF Su!Signal, Su!SupKilled, Su!Dies
<1>6. ASSUME NEW s \in Sups, Su!GraceOver(s) PROVE Su!CrashesInv'
  BY <1>6, <1>1 DEF Su!GraceOver
<1>7. ASSUME NEW d \in Daemons, Su!Serves(d) \/ Su!DaemonEnds(d) \/ Su!OrphanLeaves(d)
      PROVE  Su!CrashesInv'
  BY <1>7, <1>1 DEF Su!Serves, Su!DaemonEnds, Su!OrphanLeaves
<1>8. ASSUME NEW c \in Commands, Su!EndsSup(c) PROVE Su!CrashesInv'
  BY <1>8, <1>1, SuRequestStop, SuGone DEF Su!EndsSup, Su!Dies
<1>9. ASSUME NEW c \in Commands, Su!SupTooSlow(c) PROVE Su!CrashesInv'
  BY <1>9, SuGone DEF Su!SupTooSlow, Su!Dies
<1>10. ASSUME NEW c \in Commands, Su!Restarts(c) PROVE Su!CrashesInv'
  BY <1>10, SuLooks DEF Su!Restarts
<1>11. ASSUME NEW c \in Commands,
              Su!Begin(c) \/ Su!SupGone(c) \/ Su!EndsKid(c) \/ Su!KidGone(c) \/ Su!Removes(c)
       PROVE  Su!CrashesInv'
  BY <1>11, <1>1 DEF Su!Begin, Su!SupGone, Su!EndsKid, Su!KidGone, Su!Removes
<1>12. CASE UNCHANGED Su!vars
  BY <1>12, <1>1 DEF Su!vars
<1>13. CASE Su!Next
  BY <1>13, <1>2, <1>3, <1>4, <1>5, <1>6, <1>7, <1>8, <1>9, <1>10, <1>11, SuTick
     DEF Su!Next, Su!SupSteps, Su!CmdSteps
<1>14. QED
  BY <1>12, <1>13

\* However its daemons end, whatever is stopped, killed or started again meanwhile,
\* and whatever the back-off: no supervisor starts more than CrashLimit daemons
\* within a Window.
THEOREM NeverSpinsTheorem == HostSpec => []NeverSpins
<1> DEFINE I == which = "clock" => Su!CrashesInv
<1>1. HostInit => I
  BY SuInit DEF HostInit
<1>2. I /\ [HostNext]_<<vars, hostVars>> => I'
  BY Steps, SuInvStep
<1>3. I => NeverSpins
  BY DEF NeverSpins, Su!CrashesInv
<1>4. QED
  BY <1>1, <1>2, <1>3, PTL DEF HostSpec
=============================================================================
