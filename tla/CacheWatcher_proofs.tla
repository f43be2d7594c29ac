-------------------------- MODULE CacheWatcher_proofs --------------------------
(***************************************************************************)
(* Proofs about CacheWatcher: for any number of subjects, resources,       *)
(* watches and rounds, and channels of any capacity, no event is lost,     *)
(* doubled or overtaken on its way to a client, as long as no channel is   *)
(* full.                                                                   *)
(***************************************************************************)
EXTENDS CacheWatcher, SequenceTheorems, TLAPS

(***************************************************************************)
(* What the events rest on.  A watch is only sent events while it is on    *)
(* the list, and it is on the list only while its goroutine runs; an event *)
(* of a round is only taken when the initial ones are out; and before its  *)
(* goroutine runs a watch has neither.                                     *)
(***************************************************************************)
ListedOK ==
    /\ toNotify \cup current \subseteq watchers
    /\ ~Locked => toNotify = {} /\ current = {}
    /\ \A w \in watchers : wpc[w] \in {"running", "ending"}
InOrder(w) == outgoing[w] # <<>> => initial[w] = {} \/ outgoing[w][1].type = "ADDED"
NewOK(w) ==
    /\ wpc[w] \in {"new", "created"} => incoming[w] = <<>> /\ outgoing[w] = <<>>
    /\ wpc[w] = "new" => initial[w] = {} /\ view[w] = {}
Follows(w) ==
    wpc[w] \in {"created", "running"} /\ ~userStop[w] /\ spc # "blocked" =>
        SeenAfterAll(view[w] \cup initial[w], outgoing[w] \o incoming[w]) = knownTo[w]
WatchInv == ListedOK /\ \A w \in Watchers : InOrder(w) /\ NewOK(w) /\ Follows(w)

-----------------------------------------------------------------------------
(***************************************************************************)
(* Events and sequences of events.                                         *)
(***************************************************************************)
LEMMA EventFacts ==
    /\ \A r \in Resources : Added(r) \in Event /\ Added(r).type = "ADDED" /\ Added(r).name = r
    /\ \A r \in Resources : Deleted(r) \in Event /\ Deleted(r).type = "DELETED" /\ Deleted(r).name = r
    /\ \A e \in Event : e.type \in {"ADDED", "DELETED"} /\ e.name \in Resources
    /\ \A e \in Event, r \in Resources : e = Added(r) <=> e.type = "ADDED" /\ e.name = r
  <1>1. ASSUME NEW e \in Event
        PROVE  e = [type |-> e.type, name |-> e.name]
    BY DEF Event
  <1>2. ASSUME NEW e \in Event, NEW r \in Resources, e.type = "ADDED", e.name = r
        PROVE  e = Added(r)
    BY <1>1, <1>2 DEF Added
  <1>3. QED BY <1>2 DEF Event, Added, Deleted

\* No event: what was seen.
LEMMA RemainsNone == \A r, seen : Remains(r, seen, <<>>) <=> r \in seen
  <1>1. DOMAIN <<>> = {} BY EmptySeq
  <1>2. QED BY <1>1 DEF Remains

\* A further event decides about its resource, and about no other.
LEMMA RemainsAppend ==
    ASSUME NEW es \in Seq(Event), NEW e \in Event, NEW r \in Resources, NEW seen
    PROVE  Remains(r, seen, Append(es, e)) <=>
             IF e.name = r THEN e.type = "ADDED" ELSE Remains(r, seen, es)
  <1> DEFINE n == Len(es)
             fs == Append(es, e)
  <1>1. /\ n \in Nat /\ DOMAIN es = 1..n /\ DOMAIN fs = 1..(n + 1)
        /\ \A i \in 1..n : fs[i] = es[i] /\ es[i] \in Event
        /\ fs[n + 1] = e
    BY LenProperties, ElementOfSeq
  <1>2. e = Added(r) <=> e.type = "ADDED" /\ e.name = r
    BY EventFacts
  <1> HIDE DEF n, fs
  <1>3. CASE e.name = r
    <2>1. ASSUME Remains(r, seen, fs) PROVE e.type = "ADDED"
      <3>1. PICK i \in 1..(n + 1) : fs[i] = Added(r) /\ \A j \in 1..(n + 1) : j > i => fs[j].name # r
        BY <1>1, <1>3, <2>1 DEF Remains
      <3>2. i = n + 1 BY <1>1, <1>3, <3>1
      <3>3. QED BY <1>1, <1>2, <3>1, <3>2
    <2>2. ASSUME e.type = "ADDED" PROVE Remains(r, seen, fs)
      <3>1. fs[n + 1] = Added(r) BY <1>1, <1>2, <1>3, <2>2
      <3>2. n + 1 \in DOMAIN fs /\ \A j \in DOMAIN fs : ~(j > n + 1) BY <1>1
      <3>3. QED BY <3>1, <3>2 DEF Remains
    <2>3. QED BY <1>3, <2>1, <2>2 DEF fs
  <1>4. CASE e.name # r
    <2>1. (\A i \in DOMAIN fs : fs[i].name # r) <=> (\A i \in DOMAIN es : es[i].name # r)
      BY <1>1, <1>4
    <2>2. ASSUME NEW i \in DOMAIN es, es[i] = Added(r), \A j \in DOMAIN es : j > i => es[j].name # r
          PROVE  \E k \in DOMAIN fs : fs[k] = Added(r) /\ \A j \in DOMAIN fs : j > k => fs[j].name # r
      <3>1. i \in DOMAIN fs /\ fs[i] = Added(r) /\ \A j \in DOMAIN fs : j > i => fs[j].name # r
        BY <1>1, <1>4, <2>2
      <3>2. QED BY <3>1
    <2>3. ASSUME NEW i \in DOMAIN fs, fs[i] = Added(r), \A j \in DOMAIN fs : j > i => fs[j].name # r
          PROVE  \E k \in DOMAIN es : es[k] = Added(r) /\ \A j \in DOMAIN es : j > k => es[j].name # r
      <3>1. i # n + 1 BY <1>1, <1>2, <1>4, <2>3
      <3>2. i \in DOMAIN es /\ es[i] = Added(r) /\ \A j \in DOMAIN es : j > i => es[j].name # r
        BY <1>1, <2>3, <3>1
      <3>3. QED BY <3>2
    <2>4. Remains(r, seen, fs) <=> Remains(r, seen, es)
      BY <2>1, <2>2, <2>3 DEF Remains
    <2>5. QED BY <1>4, <2>4 DEF fs
  <1>5. QED BY <1>3, <1>4

\* The first event is the one the client sees first.
LEMMA RemainsFirst ==
    ASSUME NEW es \in Seq(Event), NEW e \in Event, NEW r \in Resources, NEW seen
    PROVE  Remains(r, seen, <<e>> \o es) <=> Remains(r, SeenAfter(seen, e), es)
  <1> DEFINE n == Len(es)
             fs == <<e>> \o es
  <1>1. /\ n \in Nat /\ DOMAIN es = 1..n
        /\ \A i \in 1..n : es[i] \in Event
    BY LenProperties, ElementOfSeq
  <1>2. fs \in Seq(Event) /\ Len(fs) = n + 1 /\ DOMAIN fs = 1..(n + 1)
    <2>1. <<e>> \in Seq(Event) /\ Len(<<e>>) = 1 OBVIOUS
    <2>2. fs \in Seq(Event) /\ Len(fs) = 1 + n BY <2>1, ConcatProperties
    <2>3. QED BY <1>1, <2>2, LenProperties
  <1>3. fs[1] = e /\ \A i \in 1..n : fs[i + 1] = es[i]
    <2>1. <<e>> \in Seq(Event) /\ Len(<<e>>) = 1 /\ <<e>>[1] = e OBVIOUS
    <2>2. \A i \in 1..(1 + n) : fs[i] = IF i <= 1 THEN <<e>>[i] ELSE es[i - 1]
      BY <2>1, ConcatProperties
    <2>3. QED BY <1>1, <2>1, <2>2
  <1>4. \A i \in 2..(n + 1) : fs[i] = es[i - 1]
    BY <1>1, <1>3
  <1>5. e = Added(r) <=> e.type = "ADDED" /\ e.name = r
    BY EventFacts
  <1>6. e.type \in {"ADDED", "DELETED"} BY EventFacts
  <1>7. r \in SeenAfter(seen, e) <=> IF e.name = r THEN e.type = "ADDED" ELSE r \in seen
    BY <1>6 DEF SeenAfter
  <1> HIDE DEF n, fs
  <1>8. CASE \A i \in DOMAIN es : es[i].name # r
    <2>1. \A i \in 2..(n + 1) : fs[i].name # r /\ fs[i] # Added(r)
      <3>1. Added(r).name = r BY DEF Added
      <3>2. QED BY <1>1, <1>4, <1>8, <3>1
    <2>2. Remains(r, SeenAfter(seen, e), es) <=> r \in SeenAfter(seen, e)
      <3>1. Added(r).name = r BY DEF Added
      <3>2. QED BY <1>8, <3>1 DEF Remains
    <2>3. ASSUME Remains(r, seen, fs) PROVE r \in SeenAfter(seen, e)
      <3>1. CASE r \in seen /\ \A i \in DOMAIN fs : fs[i].name # r
        BY <1>1, <1>2, <1>3, <1>7, <3>1
      <3>2. ASSUME NEW i \in DOMAIN fs, fs[i] = Added(r) PROVE r \in SeenAfter(seen, e)
        <4>1. i = 1 BY <1>1, <1>2, <2>1, <3>2
        <4>2. QED BY <1>3, <1>5, <1>7, <3>2, <4>1
      <3>3. QED BY <2>3, <3>1, <3>2 DEF Remains
    <2>4. ASSUME r \in SeenAfter(seen, e) PROVE Remains(r, seen, fs)
      <3>1. CASE e.name = r
        <4>1. fs[1] = Added(r) BY <1>3, <1>5, <1>7, <2>4, <3>1
        <4>2. 1 \in DOMAIN fs /\ \A j \in DOMAIN fs : j > 1 => fs[j].name # r
          BY <1>1, <1>2, <2>1
        <4>3. QED BY <4>1, <4>2 DEF Remains
      <3>2. CASE e.name # r
        <4>1. r \in seen BY <1>7, <2>4, <3>2
        <4>2. \A i \in DOMAIN fs : fs[i].name # r BY <1>1, <1>2, <1>3, <2>1, <3>2
        <4>3. QED BY <4>1, <4>2 DEF Remains
      <3>3. QED BY <3>1, <3>2
    <2>5. QED BY <2>2, <2>3, <2>4 DEF fs
  <1>9. CASE \E i \in DOMAIN es : es[i].name = r
    <2>1. PICK i0 \in 1..n : es[i0].name = r BY <1>1, <1>9
    <2>2. ~(\A i \in DOMAIN fs : fs[i].name # r)
      <3>1. i0 + 1 \in DOMAIN fs /\ fs[i0 + 1] = es[i0] BY <1>1, <1>2, <1>3, <2>1
      <3>2. fs[i0 + 1].name = r BY <2>1, <3>1
      <3>3. QED BY <3>1, <3>2
    <2>3. ASSUME NEW i \in DOMAIN es, es[i] = Added(r), \A j \in DOMAIN es : j > i => es[j].name # r
          PROVE  Remains(r, seen, fs)
      <3>1. i + 1 \in DOMAIN fs /\ fs[i + 1] = Added(r)
        BY <1>1, <1>2, <1>3, <2>3
      <3>2. ASSUME NEW j \in DOMAIN fs, j > i + 1 PROVE fs[j].name # r
        <4>1. j - 1 \in DOMAIN es /\ j - 1 > i /\ fs[j] = es[j - 1]
          BY <1>1, <1>2, <1>4, <3>2
        <4>2. QED BY <2>3, <4>1
      <3>3. QED BY <3>1, <3>2 DEF Remains
    <2>4. ASSUME Remains(r, seen, fs)
          PROVE  \E k \in DOMAIN es : es[k] = Added(r) /\ \A j \in DOMAIN es : j > k => es[j].name # r
      <3>1. PICK i \in DOMAIN fs : fs[i] = Added(r) /\ \A j \in DOMAIN fs : j > i => fs[j].name # r
        BY <2>2, <2>4 DEF Remains
      <3>2. i # 1
        <4>1. i0 + 1 \in DOMAIN fs /\ i0 + 1 > 1 /\ fs[i0 + 1].name = r
          BY <1>1, <1>2, <1>3, <2>1
        <4>2. QED BY <3>1, <4>1
      <3>3. i - 1 \in DOMAIN es /\ es[i - 1] = Added(r)
        BY <1>1, <1>2, <1>4, <3>1, <3>2
      <3>4. \A j \in DOMAIN es : j > i - 1 => es[j].name # r
        BY <1>1, <1>2, <1>3, <3>1, <3>2
      <3>5. QED BY <3>3, <3>4
    <2>5. QED BY <1>9, <2>3, <2>4 DEF Remains, fs
  <1>10. QED BY <1>8, <1>9

\* The sequence on its way, taken apart.
LEMMA Sequences ==
    ASSUME NEW es \in Seq(Event)
    PROVE  /\ <<>> \o es = es
           /\ \A e \in Event, out \in Seq(Event) : out \o Append(es, e) = Append(out \o es, e)
           /\ es # <<>> => Head(es) \in Event /\ Tail(es) \in Seq(Event) /\ <<Head(es)>> \o Tail(es) = es
  <1>1. <<>> \o es = es BY ConcatEmptySeq
  <1>2. ASSUME NEW e \in Event, NEW out \in Seq(Event)
        PROVE  out \o Append(es, e) = Append(out \o es, e)
    <2>1. Append(es, e) \in Seq(Event) /\ Len(Append(es, e)) = Len(es) + 1 /\ out \o es \in Seq(Event)
      BY ConcatProperties
    <2>2. \A i \in 1..(Len(es) + 1) : Append(es, e)[i] = IF i <= Len(es) THEN es[i] ELSE e
      BY LenProperties
    <2>3. /\ Len(out \o es) = Len(out) + Len(es)
          /\ \A i \in 1..(Len(out) + Len(es)) : (out \o es)[i] = IF i <= Len(out) THEN out[i] ELSE es[i - Len(out)]
      BY ConcatProperties
    <2>4. /\ out \o Append(es, e) \in Seq(Event)
          /\ Len(out \o Append(es, e)) = Len(out) + Len(es) + 1
          /\ \A i \in 1..(Len(out) + Len(es) + 1) :
                (out \o Append(es, e))[i] = IF i <= Len(out) THEN out[i] ELSE Append(es, e)[i - Len(out)]
      <3>1. /\ out \o Append(es, e) \in Seq(Event)
            /\ Len(out \o Append(es, e)) = Len(out) + Len(Append(es, e))
            /\ \A i \in 1..(Len(out) + Len(Append(es, e))) :
                  (out \o Append(es, e))[i] = IF i <= Len(out) THEN out[i] ELSE Append(es, e)[i - Len(out)]
        BY <2>1, ConcatProperties
      <3>2. Len(out) \in Nat /\ Len(es) \in Nat BY LenProperties
      <3>3. Len(out) + Len(Append(es, e)) = Len(out) + Len(es) + 1 BY <2>1, <3>2
      <3>4. QED BY <3>1, <3>3
    <2>5. /\ Append(out \o es, e) \in Seq(Event)
          /\ Len(Append(out \o es, e)) = Len(out) + Len(es) + 1
          /\ \A i \in 1..(Len(out) + Len(es)) : Append(out \o es, e)[i] = (out \o es)[i]
          /\ Append(out \o es, e)[Len(out) + Len(es) + 1] = e
      BY <2>1, <2>3
    <2>6. Len(out) \in Nat /\ Len(es) \in Nat BY LenProperties
    <2>7. ASSUME NEW i \in 1..(Len(out) + Len(es) + 1)
          PROVE  (out \o Append(es, e))[i] = Append(out \o es, e)[i]
      <3>1. CASE i <= Len(out) BY <2>3, <2>4, <2>5, <2>6, <3>1
      <3>2. CASE i > Len(out) /\ i <= Len(out) + Len(es)
        <4>1. i - Len(out) \in 1..(Len(es) + 1) /\ i - Len(out) <= Len(es) /\ ~(i <= Len(out))
          BY <2>6, <3>2
        <4>2. (out \o Append(es, e))[i] = es[i - Len(out)] BY <2>2, <2>4, <4>1
        <4>3. Append(out \o es, e)[i] = es[i - Len(out)] BY <2>3, <2>5, <2>6, <3>2, <4>1
        <4>4. QED BY <4>2, <4>3
      <3>3. CASE i = Len(out) + Len(es) + 1
        <4>1. i - Len(out) = Len(es) + 1 /\ ~(i <= Len(out)) /\ ~(Len(es) + 1 <= Len(es))
          BY <2>6, <3>3
        <4>2. Len(es) + 1 \in 1..(Len(es) + 1) BY <2>6
        <4>3. QED BY <2>2, <2>4, <2>5, <3>3, <4>1, <4>2
      <3>4. QED BY <2>6, <3>1, <3>2, <3>3
    <2>8. QED BY <2>4, <2>5, <2>7, SeqEqual
  <1>3. ASSUME es # <<>>
        PROVE  Head(es) \in Event /\ Tail(es) \in Seq(Event) /\ <<Head(es)>> \o Tail(es) = es
    <2>1. /\ Head(es) \in Event /\ Tail(es) \in Seq(Event) /\ Len(Tail(es)) = Len(es) - 1
          /\ \A i \in 1..Len(Tail(es)) : Tail(es)[i] = es[i + 1]
      BY <1>3, HeadTailProperties
    <2>2. Len(es) \in Nat \ {0} /\ Head(es) = es[1]
      BY <1>3, EmptySeq
    <2>3. <<Head(es)>> \in Seq(Event) /\ Len(<<Head(es)>>) = 1 /\ <<Head(es)>>[1] = Head(es)
      BY <2>1
    <2>4. /\ <<Head(es)>> \o Tail(es) \in Seq(Event)
          /\ Len(<<Head(es)>> \o Tail(es)) = 1 + Len(Tail(es))
          /\ \A i \in 1..(1 + Len(Tail(es))) :
                (<<Head(es)>> \o Tail(es))[i] = IF i <= 1 THEN <<Head(es)>>[i] ELSE Tail(es)[i - 1]
      BY <2>1, <2>3, ConcatProperties
    <2>5. Len(<<Head(es)>> \o Tail(es)) = Len(es) BY <2>1, <2>2, <2>4
    <2>6. ASSUME NEW i \in 1..Len(es) PROVE (<<Head(es)>> \o Tail(es))[i] = es[i]
      <3>1. CASE i = 1 BY <2>1, <2>2, <2>3, <2>4, <3>1
      <3>2. CASE i > 1
        <4>1. i - 1 \in 1..Len(Tail(es)) /\ (i - 1) + 1 = i BY <2>1, <2>2, <3>2
        <4>2. QED BY <2>1, <2>2, <2>4, <3>2, <4>1
      <3>3. QED BY <3>1, <3>2
    <2>7. QED BY <2>1, <2>4, <2>5, <2>6, SeqEqual
  <1>4. QED BY <1>1, <1>2, <1>3

-----------------------------------------------------------------------------
(***************************************************************************)
(* TypeOK.                                                                 *)
(***************************************************************************)
LEMMA InitTypeOK == Init => TypeOK
  <1>1. Len(<<>>) = 0 /\ <<>> \in Seq(Event) OBVIOUS
  <1>2. QED BY <1>1, BoundsAssumption DEF Init, TypeOK

\* What a step of synchronize leaves alone, or sends.
LEMMA SynchronizeTypeOK == TypeOK /\ Synchronize => TypeOK'
  <1> SUFFICES ASSUME TypeOK, Synchronize PROVE TypeOK'
    OBVIOUS
  <1>1. ASSUME NEW t \in [Subjects -> SUBSET Resources], NEW deleted \in SUBSET Subjects, BeginRound(t, deleted)
        PROVE  TypeOK'
    BY <1>1, BoundsAssumption DEF TypeOK, BeginRound
  <1>2. ASSUME NEW s \in Subjects, WriteRecord(s) PROVE TypeOK'
    BY <1>2 DEF TypeOK, WriteRecord
  <1>3. ASSUME NEW w \in Watchers, NEW missing \in SUBSET Resources, StartNotify(w, missing)
        PROVE  TypeOK'
    BY <1>3 DEF TypeOK, StartNotify
  <1>4. ASSUME NEW w \in Watchers, NEW e \in Event, Send(w, e)
        PROVE  /\ incoming' \in [Watchers -> Seq(Event)]
               /\ \A x \in Watchers : Len(incoming'[x]) <= Capacity
               /\ spc' \in {spc, "blocked"}
    <2>1. CASE Len(incoming[w]) < Capacity
      <3>1. incoming[w] \in Seq(Event) BY DEF TypeOK
      <3>2. /\ Append(incoming[w], e) \in Seq(Event)
            /\ Len(Append(incoming[w], e)) = Len(incoming[w]) + 1
            /\ Len(incoming[w]) \in Nat
        BY <3>1
      <3>3. Len(Append(incoming[w], e)) <= Capacity BY <2>1, <3>2, BoundsAssumption
      <3>4. incoming' = [incoming EXCEPT ![w] = Append(incoming[w], e)] /\ spc' = spc
        BY <1>4, <2>1 DEF Send
      <3>5. QED BY <3>2, <3>3, <3>4 DEF TypeOK
    <2>2. CASE ~(Len(incoming[w]) < Capacity)
      BY <1>4, <2>2 DEF Send, TypeOK
    <2>3. QED BY <2>1, <2>2
  <1>5. ASSUME NEW r \in Resources, SendDeleted(r) PROVE TypeOK'
    <2>1. PICK w \in current : knownTo' = [knownTo EXCEPT ![w] = @ \ {r}] /\ Send(w, Deleted(r))
      BY <1>5 DEF SendDeleted
    <2>2. w \in Watchers /\ Deleted(r) \in Event BY EventFacts DEF TypeOK
    <2>3. /\ incoming' \in [Watchers -> Seq(Event)]
          /\ \A x \in Watchers : Len(incoming'[x]) <= Capacity
          /\ spc' \in {spc, "blocked"}
      BY <1>4, <2>1, <2>2
    <2>4. knownTo' \in [Watchers -> SUBSET Resources] BY <2>1, <2>2 DEF TypeOK
    <2>5. QED BY <1>5, <2>3, <2>4 DEF TypeOK, SendDeleted
  <1>6. ASSUME NEW r \in Resources, SendAdded(r) PROVE TypeOK'
    <2>1. PICK w \in current : knownTo' = [knownTo EXCEPT ![w] = @ \cup {r}] /\ Send(w, Added(r))
      BY <1>6 DEF SendAdded
    <2>2. w \in Watchers /\ Added(r) \in Event BY EventFacts DEF TypeOK
    <2>3. /\ incoming' \in [Watchers -> Seq(Event)]
          /\ \A x \in Watchers : Len(incoming'[x]) <= Capacity
          /\ spc' \in {spc, "blocked"}
      BY <1>4, <2>1, <2>2
    <2>4. knownTo' \in [Watchers -> SUBSET Resources] BY <2>1, <2>2 DEF TypeOK
    <2>5. QED BY <1>6, <2>3, <2>4 DEF TypeOK, SendAdded
  <1>7. CASE EndNotify BY <1>7 DEF TypeOK, EndNotify
  <1>8. CASE Unlock BY <1>8 DEF TypeOK, Unlock
  <1>9. CASE EndRound BY <1>9 DEF TypeOK, EndRound
  <1>10. QED BY <1>1, <1>2, <1>3, <1>5, <1>6, <1>7, <1>8, <1>9 DEF Synchronize

LEMMA WatchTypeOK == \A w \in Watchers : TypeOK /\ (Watch(w) \/ Client(w)) => TypeOK'
  <1> SUFFICES ASSUME NEW w \in Watchers, TypeOK, Watch(w) \/ Client(w) PROVE TypeOK'
    OBVIOUS
  <1> USE DEF TypeOK, syncVars
  <1>1. ASSUME NEW e \in Event
        PROVE  /\ <<e>> \in Seq(Event) /\ Len(<<e>>) <= 1
               /\ [outgoing EXCEPT ![w] = <<e>>] \in [Watchers -> Seq(Event)]
               /\ \A x \in Watchers : Len([outgoing EXCEPT ![w] = <<e>>][x]) <= 1
    <2>1. <<e>> \in Seq(Event) /\ Len(<<e>>) = 1 OBVIOUS
    <2>2. QED BY <2>1
  <1>2. ASSUME NEW r \in Resources, TakeInitial(w, r) PROVE TypeOK'
    <2>1. Added(r) \in Event BY EventFacts
    <2>2. outgoing' = [outgoing EXCEPT ![w] = <<Added(r)>>] BY <1>2 DEF TakeInitial
    <2>3. outgoing' \in [Watchers -> Seq(Event)] /\ \A x \in Watchers : Len(outgoing'[x]) <= 1
      BY <1>1, <2>1, <2>2
    <2>4. QED BY <1>2, <2>3 DEF TakeInitial
  <1>3. ASSUME TakeIncoming(w) PROVE TypeOK'
    <2>1. /\ incoming[w] \in Seq(Event) /\ incoming[w] # <<>>
          /\ incoming' = [incoming EXCEPT ![w] = Tail(incoming[w])]
          /\ outgoing' = [outgoing EXCEPT ![w] = <<Head(incoming[w])>>]
      BY <1>3 DEF TakeIncoming
    <2>2. /\ Head(incoming[w]) \in Event /\ Tail(incoming[w]) \in Seq(Event)
          /\ Len(Tail(incoming[w])) = Len(incoming[w]) - 1
      BY <2>1, HeadTailProperties
    <2>3. Len(incoming[w]) \in Nat BY <2>1
    <2>4. Len(Tail(incoming[w])) <= Capacity BY <2>2, <2>3, BoundsAssumption
    <2>5. incoming' \in [Watchers -> Seq(Event)] /\ \A x \in Watchers : Len(incoming'[x]) <= Capacity
      BY <2>1, <2>2, <2>4
    <2>6. outgoing' \in [Watchers -> Seq(Event)] /\ \A x \in Watchers : Len(outgoing'[x]) <= 1
      BY <1>1, <2>1, <2>2
    <2>7. QED BY <1>3, <2>5, <2>6 DEF TakeIncoming
  <1>4. ASSUME outgoing' = [outgoing EXCEPT ![w] = <<>>]
        PROVE  outgoing' \in [Watchers -> Seq(Event)] /\ \A x \in Watchers : Len(outgoing'[x]) <= 1
    <2>1. <<>> \in Seq(Event) /\ Len(<<>>) <= 1 OBVIOUS
    <2>2. QED BY <1>4, <2>1
  <1>5. CASE EmitStopped(w)
    BY <1>4, <1>5 DEF EmitStopped
  <1>6. CASE EndWatch(w)
    BY <1>6 DEF EndWatch
  <1>7. CASE RemoveWatcher(w)
    BY <1>7 DEF RemoveWatcher
  <1>8. ASSUME NEW missing \in SUBSET Resources, NEW includeAll \in BOOLEAN, NewCacheWatcher(w, missing, includeAll)
        PROVE  TypeOK'
    <2>1. ListNames \ missing \in SUBSET Resources BY DEF ListNames
    <2>2. knownTo' = [knownTo EXCEPT ![w] = ListNames \ missing] BY <1>8 DEF NewCacheWatcher
    <2>3. knownTo' \in [Watchers -> SUBSET Resources] /\ knownTo'[w] \in SUBSET Resources BY <2>1, <2>2
    <2>4. initial' \in [Watchers -> SUBSET Resources] /\ view' \in [Watchers -> SUBSET Resources]
      BY <1>8, <2>3 DEF NewCacheWatcher
    <2>5. QED BY <1>8, <2>3, <2>4 DEF NewCacheWatcher
  <1>9. CASE AddWatcher(w)
    BY <1>9 DEF AddWatcher
  <1>10. CASE Read(w)
    <2>1. outgoing[w] \in Seq(Event) /\ outgoing[w] # <<>> BY <1>10 DEF Read
    <2>2. Head(outgoing[w]) \in Event BY <2>1, HeadTailProperties
    <2>3. SeenAfter(view[w], Head(outgoing[w])) \in SUBSET Resources BY <2>2, EventFacts DEF SeenAfter
    <2>4. view' \in [Watchers -> SUBSET Resources] BY <1>10, <2>3 DEF Read
    <2>5. QED BY <1>4, <1>10, <2>4 DEF Read
  <1>11. CASE Stop(w)
    BY <1>11 DEF Stop
  <1>12. QED BY <1>2, <1>3, <1>5, <1>6, <1>7, <1>8, <1>9, <1>10, <1>11 DEF Watch, Client

(***************************************************************************)
(* Every variable of the watches has its type.                             *)
(***************************************************************************)
THEOREM TypeCorrect == Spec => []TypeOK
  <1>1. TypeOK /\ [Next]_vars => TypeOK'
    <2>1. CASE UNCHANGED vars BY <2>1 DEF vars, TypeOK
    <2>2. QED BY <2>1, SynchronizeTypeOK, WatchTypeOK DEF Next
  <1>2. QED BY InitTypeOK, <1>1, PTL DEF Spec

-----------------------------------------------------------------------------
(***************************************************************************)
(* ClientFollowsKnown.                                                     *)
(***************************************************************************)
WatchOK(w) == InOrder(w) /\ NewOK(w) /\ Follows(w)
Untouched(w) == UNCHANGED <<knownTo[w], initial[w], incoming[w], wpc[w], outgoing[w], userStop[w], view[w]>>

\* A watch is fine if the step was none of its own.
LEMMA UntouchedOK ==
    ASSUME NEW w, WatchOK(w), Untouched(w), spc = "blocked" => spc' = "blocked"
    PROVE  WatchOK(w)'
  <1>1. InOrder(w)' BY DEF WatchOK, Untouched, InOrder
  <1>2. NewOK(w)' BY DEF WatchOK, Untouched, NewOK
  <1>3. Follows(w)' BY DEF WatchOK, Untouched, Follows
  <1>4. QED BY <1>1, <1>2, <1>3 DEF WatchOK

LEMMA InitWatchInv == Init => WatchInv
  <1> SUFFICES ASSUME Init PROVE WatchInv
    OBVIOUS
  <1>1. ListedOK BY DEF Init, ListedOK
  <1>2. ASSUME NEW w \in Watchers PROVE InOrder(w) /\ NewOK(w) /\ Follows(w)
    BY DEF Init, InOrder, NewOK, Follows
  <1>3. QED BY <1>1, <1>2 DEF WatchInv

\* The list, and what is on it.
LEMMA SynchronizeListedOK == TypeOK /\ ListedOK /\ Synchronize => ListedOK'
  <1> SUFFICES ASSUME TypeOK, ListedOK, Synchronize PROVE ListedOK'
    OBVIOUS
  <1> USE DEF ListedOK, Locked
  <1>1. ASSUME NEW t, NEW deleted, BeginRound(t, deleted) PROVE ListedOK'
    BY <1>1 DEF BeginRound
  <1>2. ASSUME NEW s \in Subjects, WriteRecord(s) PROVE ListedOK'
    BY <1>2 DEF WriteRecord
  <1>3. ASSUME NEW w \in Watchers, NEW missing, StartNotify(w, missing) PROVE ListedOK'
    BY <1>3 DEF StartNotify
  <1>4. ASSUME NEW r \in Resources, SendDeleted(r) PROVE ListedOK'
    BY <1>4 DEF SendDeleted, Send
  <1>5. ASSUME NEW r \in Resources, SendAdded(r) PROVE ListedOK'
    BY <1>5 DEF SendAdded, Send
  <1>6. CASE EndNotify BY <1>6 DEF EndNotify
  <1>7. CASE Unlock BY <1>7 DEF Unlock
  <1>8. CASE EndRound BY <1>8 DEF EndRound
  <1>9. QED BY <1>1, <1>2, <1>3, <1>4, <1>5, <1>6, <1>7, <1>8 DEF Synchronize

LEMMA WatchListedOK ==
    \A w \in Watchers : TypeOK /\ ListedOK /\ (Watch(w) \/ Client(w)) => ListedOK'
  <1> SUFFICES ASSUME NEW w \in Watchers, TypeOK, ListedOK, Watch(w) \/ Client(w) PROVE ListedOK'
    OBVIOUS
  <1>1. wpc \in [Watchers -> {"new", "created", "running", "ending", "done"}] /\ watchers \subseteq Watchers
    BY DEF TypeOK
  <1> USE DEF ListedOK, Locked, syncVars
  <1>2. ASSUME NEW r, TakeInitial(w, r) PROVE ListedOK' BY <1>2 DEF TakeInitial
  <1>3. CASE TakeIncoming(w) BY <1>3 DEF TakeIncoming
  <1>4. CASE EmitStopped(w) BY <1>4 DEF EmitStopped
  <1>5. CASE EndWatch(w) BY <1>1, <1>5 DEF EndWatch
  <1>6. CASE RemoveWatcher(w) BY <1>1, <1>6 DEF RemoveWatcher
  <1>7. ASSUME NEW missing, NEW includeAll, NewCacheWatcher(w, missing, includeAll) PROVE ListedOK'
    BY <1>1, <1>7 DEF NewCacheWatcher
  <1>8. CASE AddWatcher(w) BY <1>1, <1>8 DEF AddWatcher
  <1>9. CASE Read(w) BY <1>9 DEF Read
  <1>10. CASE Stop(w) BY <1>10 DEF Stop
  <1>11. QED BY <1>2, <1>3, <1>4, <1>5, <1>6, <1>7, <1>8, <1>9, <1>10 DEF Watch, Client

\* An event is sent: what is known changes as the event says.
LEMMA SendOK ==
    ASSUME TypeOK, WatchInv, spc = "notify", NEW w \in current, NEW r \in Resources,
           NEW e \in Event, e.name = r, Send(w, e),
           knownTo' = [knownTo EXCEPT ![w] = SeenAfter(knownTo[w], e)],
           UNCHANGED <<initial, wpc, outgoing, userStop, view>>
    PROVE  \A x \in Watchers : WatchOK(x)'
  <1>1. w \in Watchers /\ wpc[w] \in {"running", "ending"} BY DEF TypeOK, WatchInv, ListedOK
  <1>2. ASSUME NEW x \in Watchers, x # w PROVE WatchOK(x)'
    <2>1. WatchOK(x) BY DEF WatchInv, WatchOK
    <2>2. incoming'[x] = incoming[x] BY <1>1, <1>2 DEF Send, TypeOK
    <2>3. knownTo'[x] = knownTo[x] BY <1>1, <1>2 DEF TypeOK
    <2>4. Untouched(x) BY <2>2, <2>3 DEF Untouched
    <2>5. QED BY <2>1, <2>4, UntouchedOK
  <1>3. WatchOK(w) BY <1>1 DEF WatchInv, WatchOK
  <1>4. InOrder(w)' BY <1>3 DEF WatchOK, InOrder
  <1>5. NewOK(w)' BY <1>1 DEF NewOK
  <1>6. Follows(w)'
    <2> SUFFICES ASSUME (wpc[w] \in {"created", "running"})', ~userStop'[w], spc' # "blocked"
                 PROVE  SeenAfterAll(view[w] \cup initial[w], outgoing[w] \o incoming'[w]) = knownTo'[w]
      BY DEF Follows
    <2>1. incoming' = [incoming EXCEPT ![w] = Append(incoming[w], e)]
      BY DEF Send
    <2>2. incoming'[w] = Append(incoming[w], e) /\ knownTo'[w] = SeenAfter(knownTo[w], e)
      BY <1>1, <2>1 DEF TypeOK
    <2>3. SeenAfterAll(view[w] \cup initial[w], outgoing[w] \o incoming[w]) = knownTo[w]
      BY <1>3 DEF WatchOK, Follows
    <2> DEFINE es == outgoing[w] \o incoming[w]
               seen == view[w] \cup initial[w]
    <2>4. incoming[w] \in Seq(Event) /\ outgoing[w] \in Seq(Event) /\ knownTo[w] \subseteq Resources
      BY <1>1 DEF TypeOK
    <2>5. es \in Seq(Event) BY <2>4
    <2>6. outgoing[w] \o incoming'[w] = Append(es, e)
      <3>1. \A d \in Event, out \in Seq(Event) :
                out \o Append(incoming[w], d) = Append(out \o incoming[w], d)
        BY <2>4, Sequences
      <3>2. outgoing[w] \o Append(incoming[w], e) = Append(outgoing[w] \o incoming[w], e)
        BY <2>4, <3>1
      <3>3. QED BY <2>2, <3>2
    <2>7. \A q \in Resources : Remains(q, seen, Append(es, e)) <=>
                               IF e.name = q THEN e.type = "ADDED" ELSE q \in knownTo[w]
      <3>1. \A q \in Resources : q \in knownTo[w] <=> Remains(q, seen, es)
        BY <2>3 DEF SeenAfterAll
      <3> HIDE DEF es, seen
      <3>2. \A q \in Resources : Remains(q, seen, Append(es, e)) <=>
                                 IF e.name = q THEN e.type = "ADDED" ELSE Remains(q, seen, es)
        BY <2>5, RemainsAppend
      <3>3. QED BY <3>1, <3>2
    <2> HIDE DEF es, seen
    <2>8. SeenAfterAll(seen, Append(es, e)) = SeenAfter(knownTo[w], e)
      BY <2>4, <2>7, EventFacts DEF SeenAfterAll, SeenAfter
    <2>9. QED BY <2>2, <2>6, <2>8 DEF seen
  <1>7. QED BY <1>2, <1>4, <1>5, <1>6 DEF WatchOK

LEMMA SynchronizeWatchOK ==
    TypeOK /\ WatchInv /\ Synchronize => \A w \in Watchers : WatchOK(w)'
  <1> SUFFICES ASSUME TypeOK, WatchInv, Synchronize PROVE \A w \in Watchers : WatchOK(w)'
    OBVIOUS
  <1>1. \A w \in Watchers : WatchOK(w) BY DEF WatchInv, WatchOK
  <1>2. ASSUME UNCHANGED <<knownTo, initial, incoming, wpc, outgoing, userStop, view>>, spc # "blocked"
        PROVE  \A w \in Watchers : WatchOK(w)'
    BY <1>1, <1>2, UntouchedOK DEF Untouched
  <1>3. ASSUME NEW t, NEW deleted, BeginRound(t, deleted) PROVE \A w \in Watchers : WatchOK(w)'
    BY <1>2, <1>3 DEF BeginRound
  <1>4. ASSUME NEW s \in Subjects, WriteRecord(s) PROVE \A w \in Watchers : WatchOK(w)'
    BY <1>2, <1>4 DEF WriteRecord
  <1>5. ASSUME NEW x \in Watchers, NEW missing, StartNotify(x, missing) PROVE \A w \in Watchers : WatchOK(w)'
    BY <1>2, <1>5 DEF StartNotify
  <1>6. ASSUME NEW r \in Resources, SendDeleted(r) PROVE \A w \in Watchers : WatchOK(w)'
    <2>1. PICK w \in current : knownTo' = [knownTo EXCEPT ![w] = @ \ {r}] /\ Send(w, Deleted(r))
      BY <1>6 DEF SendDeleted
    <2>2. Deleted(r) \in Event /\ Deleted(r).name = r /\ Deleted(r).type = "DELETED" BY EventFacts
    <2>3. SeenAfter(knownTo[w], Deleted(r)) = knownTo[w] \ {r} BY <2>2 DEF SeenAfter
    <2>4. spc = "notify" /\ UNCHANGED <<initial, wpc, outgoing, userStop, view>> BY <1>6 DEF SendDeleted
    <2>5. knownTo' = [knownTo EXCEPT ![w] = SeenAfter(knownTo[w], Deleted(r))] BY <2>1, <2>3
    <2>6. QED BY <2>1, <2>2, <2>4, <2>5, SendOK
  <1>7. ASSUME NEW r \in Resources, SendAdded(r) PROVE \A w \in Watchers : WatchOK(w)'
    <2>1. PICK w \in current : knownTo' = [knownTo EXCEPT ![w] = @ \cup {r}] /\ Send(w, Added(r))
      BY <1>7 DEF SendAdded
    <2>2. Added(r) \in Event /\ Added(r).name = r /\ Added(r).type = "ADDED" BY EventFacts
    <2>3. SeenAfter(knownTo[w], Added(r)) = knownTo[w] \cup {r} BY <2>2 DEF SeenAfter
    <2>4. spc = "notify" /\ UNCHANGED <<initial, wpc, outgoing, userStop, view>> BY <1>7 DEF SendAdded
    <2>5. knownTo' = [knownTo EXCEPT ![w] = SeenAfter(knownTo[w], Added(r))] BY <2>1, <2>3
    <2>6. QED BY <2>1, <2>2, <2>4, <2>5, SendOK
  <1>8. CASE EndNotify BY <1>2, <1>8 DEF EndNotify
  <1>9. CASE Unlock BY <1>2, <1>9 DEF Unlock
  <1>10. CASE EndRound BY <1>2, <1>10 DEF EndRound
  <1>11. QED BY <1>3, <1>4, <1>5, <1>6, <1>7, <1>8, <1>9, <1>10 DEF Synchronize

\* A step of a watch touches no other.
LEMMA OnlyOneTouched ==
    ASSUME TypeOK, NEW w \in Watchers, Watch(w) \/ Client(w), NEW x \in Watchers, x # w
    PROVE  Untouched(x) /\ spc' = spc
  <1> USE DEF Untouched, TypeOK, syncVars
  <1>1. ASSUME NEW r, TakeInitial(w, r) PROVE Untouched(x) /\ spc' = spc BY <1>1 DEF TakeInitial
  <1>2. CASE TakeIncoming(w) BY <1>2 DEF TakeIncoming
  <1>3. CASE EmitStopped(w) BY <1>3 DEF EmitStopped
  <1>4. CASE EndWatch(w) BY <1>4 DEF EndWatch
  <1>5. CASE RemoveWatcher(w) BY <1>5 DEF RemoveWatcher
  <1>6. ASSUME NEW missing, NEW includeAll, NewCacheWatcher(w, missing, includeAll)
        PROVE  Untouched(x) /\ spc' = spc
    BY <1>6 DEF NewCacheWatcher
  <1>7. CASE AddWatcher(w) BY <1>7 DEF AddWatcher
  <1>8. CASE Read(w) BY <1>8 DEF Read
  <1>9. CASE Stop(w) BY <1>9 DEF Stop
  <1>10. QED BY <1>1, <1>2, <1>3, <1>4, <1>5, <1>6, <1>7, <1>8, <1>9 DEF Watch, Client

LEMMA TakenOK ==
    ASSUME TypeOK, WatchInv, NEW w \in Watchers,
           (\E r \in Resources : TakeInitial(w, r)) \/ TakeIncoming(w)
    PROVE  WatchOK(w)'
  <1>1. InOrder(w) /\ NewOK(w) /\ Follows(w) BY DEF WatchInv
  <1>2. incoming[w] \in Seq(Event) /\ initial[w] \subseteq Resources BY DEF TypeOK
  <1>3. ASSUME NEW r \in Resources, TakeInitial(w, r) PROVE WatchOK(w)'
    <2>1. /\ initial'[w] = initial[w] \ {r} /\ outgoing'[w] = <<Added(r)>> /\ outgoing[w] = <<>>
          /\ r \in initial[w] /\ wpc[w] = "running"
          /\ UNCHANGED <<incoming, view, knownTo, wpc, userStop, spc>>
      BY <1>3 DEF TakeInitial, TypeOK, syncVars
    <2>2. Added(r) \in Event /\ Added(r).name = r /\ Added(r).type = "ADDED" BY EventFacts
    <2>3. outgoing'[w][1] = Added(r) BY <2>1
    <2>4. InOrder(w)' /\ NewOK(w)' BY <2>1, <2>2, <2>3 DEF InOrder, NewOK
    <2>5. Follows(w)'
      <3>1. SeenAfter(view[w] \cup initial'[w], Added(r)) = view[w] \cup initial[w]
        BY <2>1, <2>2 DEF SeenAfter
      <3>2. SeenAfterAll(view[w] \cup initial'[w], <<Added(r)>> \o incoming[w])
              = SeenAfterAll(view[w] \cup initial[w], incoming[w])
        BY <1>2, <2>2, <3>1, RemainsFirst DEF SeenAfterAll
      <3>3. outgoing[w] \o incoming[w] = incoming[w] BY <1>2, <2>1, Sequences
      <3>4. QED BY <1>1, <2>1, <3>2, <3>3 DEF Follows
    <2>6. QED BY <2>4, <2>5 DEF WatchOK
  <1>4. ASSUME TakeIncoming(w) PROVE WatchOK(w)'
    <2>1. /\ incoming'[w] = Tail(incoming[w]) /\ outgoing'[w] = <<Head(incoming[w])>>
          /\ outgoing[w] = <<>> /\ incoming[w] # <<>> /\ initial[w] = {} /\ wpc[w] = "running"
          /\ UNCHANGED <<initial, view, knownTo, wpc, userStop, spc>>
      BY <1>4 DEF TakeIncoming, TypeOK, syncVars
    <2>2. InOrder(w)' /\ NewOK(w)' BY <2>1 DEF InOrder, NewOK
    <2>3. outgoing'[w] \o incoming'[w] = outgoing[w] \o incoming[w]
      BY <1>2, <2>1, Sequences
    <2>4. Follows(w)' BY <1>1, <2>1, <2>3 DEF Follows
    <2>5. QED BY <2>2, <2>4 DEF WatchOK
  <1>5. QED BY <1>3, <1>4

LEMMA ReadOK ==
    ASSUME TypeOK, WatchInv, NEW w \in Watchers, Read(w)
    PROVE  WatchOK(w)'
  <1>1. InOrder(w) /\ NewOK(w) /\ Follows(w) BY DEF WatchInv
  <1>2. /\ view'[w] = SeenAfter(view[w], Head(outgoing[w])) /\ outgoing'[w] = <<>>
        /\ outgoing[w] # <<>> /\ wpc[w] = "running"
        /\ UNCHANGED <<incoming, initial, knownTo, wpc, userStop, spc>>
    BY DEF Read, TypeOK, syncVars
  <1>3. /\ incoming[w] \in Seq(Event) /\ outgoing[w] \in Seq(Event) /\ Len(outgoing[w]) <= 1
    BY DEF TypeOK
  <1> DEFINE e == Head(outgoing[w])
  <1>4. e \in Event /\ outgoing[w][1] = e /\ outgoing[w] = <<e>>
    <2>1. e \in Event /\ Tail(outgoing[w]) \in Seq(Event) /\ <<e>> \o Tail(outgoing[w]) = outgoing[w]
      BY <1>2, <1>3, Sequences
    <2>2. Len(outgoing[w]) = 1
      <3>1. Len(outgoing[w]) # 0 BY <1>2, <1>3, EmptySeq
      <3>2. Len(outgoing[w]) \in Nat BY <1>3
      <3>3. Len(outgoing[w]) <= 1 BY <1>3
      <3>4. \A k \in Nat : k <= 1 /\ k # 0 => k = 1 OBVIOUS
      <3>5. QED BY <3>1, <3>2, <3>3, <3>4
    <2>3. <<e>> \in Seq(Event) /\ Len(<<e>>) = 1 /\ <<e>>[1] = e BY <2>1
    <2>4. outgoing[w][1] = e OBVIOUS
    <2>5. \A i \in 1..Len(outgoing[w]) : outgoing[w][i] = <<e>>[i] BY <2>2, <2>3, <2>4
    <2> HIDE DEF e
    <2>6. outgoing[w] = <<e>> BY <1>3, <2>2, <2>3, <2>5, SeqEqual
    <2>7. QED BY <2>1, <2>4, <2>6
  <1> HIDE DEF e
  <1>5. view'[w] \cup initial[w] = SeenAfter(view[w] \cup initial[w], e)
    <2>1. view'[w] = SeenAfter(view[w], e) BY <1>2 DEF e
    <2>2. initial[w] = {} \/ e.type = "ADDED" BY <1>1, <1>2, <1>4 DEF InOrder
    <2>3. QED BY <2>1, <2>2 DEF SeenAfter
  <1>6. SeenAfterAll(view'[w] \cup initial[w], incoming[w])
          = SeenAfterAll(view[w] \cup initial[w], outgoing[w] \o incoming[w])
    BY <1>3, <1>4, <1>5, RemainsFirst DEF SeenAfterAll
  <1>7. outgoing'[w] \o incoming[w] = incoming[w] BY <1>2, <1>3, Sequences
  <1>8. Follows(w)' BY <1>1, <1>2, <1>6, <1>7 DEF Follows
  <1>9. InOrder(w)' /\ NewOK(w)' BY <1>2 DEF InOrder, NewOK
  <1>10. QED BY <1>8, <1>9 DEF WatchOK

LEMMA StartedOK ==
    ASSUME TypeOK, WatchInv, NEW w \in Watchers,
           NEW missing \in SUBSET Resources, NEW includeAll \in BOOLEAN, NewCacheWatcher(w, missing, includeAll)
    PROVE  WatchOK(w)'
  <1>1. NewOK(w) BY DEF WatchInv
  <1>2. /\ wpc[w] = "new" /\ wpc'[w] = "created" /\ knownTo'[w] = ListNames \ missing
        /\ UNCHANGED <<incoming, outgoing, userStop, spc>>
    BY DEF NewCacheWatcher, TypeOK, syncVars
  <1>3. incoming[w] = <<>> /\ outgoing[w] = <<>> /\ initial[w] = {} /\ view[w] = {}
    BY <1>1, <1>2 DEF NewOK
  <1>4. view'[w] \cup initial'[w] = knownTo'[w]
    <2>1. CASE includeAll BY <1>3, <2>1 DEF NewCacheWatcher, TypeOK
    <2>2. CASE ~includeAll BY <1>3, <2>2 DEF NewCacheWatcher, TypeOK
    <2>3. QED BY <2>1, <2>2
  <1>5. knownTo'[w] \subseteq Resources BY <1>2 DEF ListNames, TypeOK
  <1>6. <<>> \o <<>> = <<>> BY Sequences
  <1>7. SeenAfterAll(knownTo'[w], <<>>) = knownTo'[w]
    BY <1>5, RemainsNone DEF SeenAfterAll
  <1>8. Follows(w)' BY <1>2, <1>3, <1>4, <1>6, <1>7 DEF Follows
  <1>9. InOrder(w)' /\ NewOK(w)' BY <1>2, <1>3 DEF InOrder, NewOK
  <1>10. QED BY <1>8, <1>9 DEF WatchOK

LEMMA WatchWatchOK ==
    ASSUME TypeOK, WatchInv, NEW w \in Watchers, Watch(w) \/ Client(w)
    PROVE  WatchOK(w)'
  <1>1. InOrder(w) /\ NewOK(w) /\ Follows(w) BY DEF WatchInv
  <1> USE DEF TypeOK, syncVars, WatchOK, InOrder, NewOK, Follows
  <1>2. CASE EmitStopped(w) BY <1>1, <1>2 DEF EmitStopped
  <1>3. CASE EndWatch(w) BY <1>1, <1>3 DEF EndWatch
  <1>4. CASE RemoveWatcher(w) BY <1>1, <1>4 DEF RemoveWatcher
  <1>5. CASE AddWatcher(w) BY <1>1, <1>5 DEF AddWatcher
  <1>6. CASE Stop(w) BY <1>1, <1>6 DEF Stop
  <1>7. QED BY <1>2, <1>3, <1>4, <1>5, <1>6, TakenOK, ReadOK, StartedOK DEF Watch, Client

LEMMA NextWatchInv == TypeOK /\ WatchInv /\ [Next]_vars => WatchInv'
  <1> SUFFICES ASSUME TypeOK, WatchInv, [Next]_vars PROVE WatchInv'
    OBVIOUS
  <1>1. CASE UNCHANGED vars
    <2>1. ListedOK' BY <1>1 DEF vars, WatchInv, ListedOK, Locked
    <2>2. ASSUME NEW w \in Watchers PROVE WatchOK(w)'
      BY <1>1, UntouchedOK DEF vars, Untouched, WatchInv, WatchOK
    <2>3. QED BY <2>1, <2>2 DEF WatchInv, WatchOK
  <1>2. CASE Synchronize
    BY <1>2, SynchronizeListedOK, SynchronizeWatchOK DEF WatchInv, WatchOK
  <1>3. ASSUME NEW w \in Watchers, Watch(w) \/ Client(w) PROVE WatchInv'
    <2>1. ListedOK' BY <1>3, WatchListedOK DEF WatchInv
    <2>2. ASSUME NEW x \in Watchers, x # w PROVE WatchOK(x)'
      <3>1. WatchOK(x) BY DEF WatchInv, WatchOK
      <3>2. QED BY <1>3, <2>2, <3>1, OnlyOneTouched, UntouchedOK
    <2>3. WatchOK(w)' BY <1>3, WatchWatchOK
    <2>4. QED BY <2>1, <2>2, <2>3 DEF WatchInv, WatchOK
  <1>4. QED BY <1>1, <1>2, <1>3 DEF Next

(***************************************************************************)
(* No event is lost, doubled or overtaken between the goroutine of         *)
(* synchronize, the one of the watch and the client, as long as no channel *)
(* is full: what the client has seen, with the events on their way applied *)
(* in their order, is what the cache believes it knows.                    *)
(***************************************************************************)
THEOREM ClientFollowsKnownHolds == Spec => []ClientFollowsKnown
  <1>1. Init => WatchInv BY InitWatchInv
  <1>2. TypeOK /\ WatchInv /\ [Next]_vars => WatchInv' BY NextWatchInv
  <1>3. WatchInv => ClientFollowsKnown BY DEF WatchInv, Follows, ClientFollowsKnown
  <1>4. QED BY <1>1, <1>2, <1>3, TypeCorrect, PTL DEF Spec
=============================================================================
