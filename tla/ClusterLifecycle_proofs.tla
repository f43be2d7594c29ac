------------------------ MODULE ClusterLifecycle_proofs ------------------------
(***************************************************************************)
(* Proofs about ClusterLifecycle: for any number of changes and failures,  *)
(* a cluster that is gone has left no ManagedClusterInfo.                  *)
(***************************************************************************)
EXTENDS ClusterLifecycle, SequenceTheorems, TLAPS

(***************************************************************************)
(* The states of the cluster from the one in the cache to the one at the   *)
(* API server.                                                             *)
(***************************************************************************)
Stream == <<seen>> \o wire

WellFormed(o) == o \in Cluster /\ (o.phase # "live" => (o.phase = "absent" <=> o.finalizers = {}))
Holds(o) == "info" \in o.finalizers
LiveHolding(o) == o.phase = "live" /\ Holds(o)
DyingHolding(o) == o.phase = "dying" /\ Holds(o)

(***************************************************************************)
(* What can follow what, in a stream s whose last state is o.  Only one    *)
(* worker adds and removes this finalizer, it adds it on a copy that is    *)
(* live and has none, and removes it on one that is dying.  So a state     *)
(* with it is followed by states with it until the worker has seen it      *)
(* dying; and after that one no other cluster has it.                      *)
(***************************************************************************)
Ends(s, o) == s \in Seq(Cluster) /\ s # <<>> /\ s[Len(s)] = o /\ \A i \in DOMAIN s : WellFormed(s[i])
HeldSince(s, o) == \A i \in DOMAIN s : LiveHolding(s[i]) => Holds(o)
NotAgain(s) == \A i, j \in DOMAIN s : i < j /\ DyingHolding(s[i]) => ~LiveHolding(s[j])
OneDeath(s) ==
    \A i, j, k \in DOMAIN s : i < j /\ j < k /\ DyingHolding(s[i]) /\ DyingHolding(s[k]) => DyingHolding(s[j])
DiesLast(s, o) ==
    \A i, j \in DOMAIN s : i < j /\ s[i].phase = "live" /\ DyingHolding(s[j]) => DyingHolding(o)
StreamInv(s, o) == Ends(s, o) /\ HeldSince(s, o) /\ NotAgain(s) /\ OneDeath(s) /\ DiesLast(s, o)

\* The worker has seen the last of the cluster it takes the finalizer from.
SeenDying(s) ==
    /\ \A i \in DOMAIN s : ~LiveHolding(s[i])
    /\ \A i, j \in DOMAIN s : i < j /\ s[i].phase = "live" => ~DyingHolding(s[j])

(***************************************************************************)
(* What each step of the worker rests on.                                  *)
(***************************************************************************)
InfoInv ==
    /\ info => Holds(obj)
    /\ ipc = "create" => Holds(obj)
    /\ ipc = "addFinalizer" => \A i \in DOMAIN Stream : DyingHolding(Stream[i]) => DyingHolding(obj)
    /\ ipc \in {"delete", "removeFinalizer"} => SeenDying(Stream)
    /\ ipc = "removeFinalizer" => ~info
RoleInv == rpc = "addFinalizer" /\ roleFresh => obj.phase = "live"
LifeInv == StreamInv(Stream, obj) /\ InfoInv /\ RoleInv

-----------------------------------------------------------------------------
(***************************************************************************)
(* Streams.                                                                *)
(***************************************************************************)
LEMMA SeqFacts ==
    ASSUME NEW S, NEW es \in Seq(S)
    PROVE  /\ Len(es) \in Nat /\ DOMAIN es = 1..Len(es) /\ \A i \in DOMAIN es : es[i] \in S
           /\ es = <<>> <=> Len(es) = 0
           /\ \A e \in S : /\ Append(es, e) \in Seq(S) /\ Append(es, e) # <<>>
                           /\ DOMAIN Append(es, e) = 1..(Len(es) + 1)
                           /\ Len(Append(es, e)) = Len(es) + 1
                           /\ Append(es, e)[Len(es) + 1] = e
                           /\ \A i \in 1..Len(es) : Append(es, e)[i] = es[i]
           /\ es # <<>> => /\ Head(es) \in S /\ Tail(es) \in Seq(S) /\ Head(es) = es[1]
                           /\ DOMAIN Tail(es) = 1..(Len(es) - 1) /\ Len(Tail(es)) = Len(es) - 1
                           /\ \A i \in 1..(Len(es) - 1) : Tail(es)[i] = es[i + 1]
  <1>1. Len(es) \in Nat /\ DOMAIN es = 1..Len(es) /\ \A i \in DOMAIN es : es[i] \in S
    BY LenProperties, ElementOfSeq
  <1>2. es = <<>> <=> Len(es) = 0
    BY EmptySeq
  <1>3. ASSUME NEW e \in S
        PROVE  /\ Append(es, e) \in Seq(S) /\ Append(es, e) # <<>>
               /\ DOMAIN Append(es, e) = 1..(Len(es) + 1)
               /\ Len(Append(es, e)) = Len(es) + 1
               /\ Append(es, e)[Len(es) + 1] = e
               /\ \A i \in 1..Len(es) : Append(es, e)[i] = es[i]
    <2>1. /\ Append(es, e) \in Seq(S) /\ Append(es, e) # <<>> /\ Len(Append(es, e)) = Len(es) + 1
          /\ \A i \in 1..Len(es) : Append(es, e)[i] = es[i]
          /\ Append(es, e)[Len(es) + 1] = e
      BY AppendProperties
    <2>2. QED BY <2>1, LenProperties
  <1>4. ASSUME es # <<>>
        PROVE  /\ Head(es) \in S /\ Tail(es) \in Seq(S) /\ Head(es) = es[1]
               /\ DOMAIN Tail(es) = 1..(Len(es) - 1) /\ Len(Tail(es)) = Len(es) - 1
               /\ \A i \in 1..(Len(es) - 1) : Tail(es)[i] = es[i + 1]
    <2>1. /\ Head(es) \in S /\ Tail(es) \in Seq(S) /\ Len(Tail(es)) = Len(es) - 1
          /\ \A i \in 1..Len(Tail(es)) : Tail(es)[i] = es[i + 1]
      BY <1>4, HeadTailProperties
    <2>2. DOMAIN Tail(es) = 1..Len(Tail(es)) BY <2>1, LenProperties
    <2>3. Head(es) = es[1] OBVIOUS
    <2>4. QED BY <2>1, <2>2, <2>3
  <1>5. QED BY <1>1, <1>2, <1>3, <1>4

\* The stream by its elements.
LEMMA StreamFacts ==
    ASSUME NEW S, NEW o \in S, NEW es \in Seq(S)
    PROVE  /\ <<o>> \o es \in Seq(S) /\ Len(<<o>> \o es) = Len(es) + 1
           /\ (<<o>> \o es)[1] = o
           /\ \A i \in 1..Len(es) : (<<o>> \o es)[i + 1] = es[i]
  <1>1. <<o>> \in Seq(S) /\ Len(<<o>>) = 1 /\ <<o>>[1] = o OBVIOUS
  <1>2. Len(es) \in Nat BY SeqFacts
  <1>3. /\ <<o>> \o es \in Seq(S) /\ Len(<<o>> \o es) = 1 + Len(es)
        /\ \A i \in 1..(1 + Len(es)) : (<<o>> \o es)[i] = IF i <= 1 THEN <<o>>[i] ELSE es[i - 1]
    BY <1>1, ConcatProperties
  <1>4. (<<o>> \o es)[1] = o BY <1>1, <1>2, <1>3
  <1>5. ASSUME NEW i \in 1..Len(es) PROVE (<<o>> \o es)[i + 1] = es[i]
    <2>1. i + 1 \in 1..(1 + Len(es)) /\ ~(i + 1 <= 1) /\ (i + 1) - 1 = i BY <1>2
    <2>2. QED BY <1>3, <2>1
  <1>6. QED BY <1>2, <1>3, <1>4, <1>5

\* A commit is appended to the stream; a delivery takes its first state off.
LEMMA StreamSteps ==
    ASSUME NEW S, NEW o \in S, NEW es \in Seq(S)
    PROVE  /\ \A e \in S : <<o>> \o Append(es, e) = Append(<<o>> \o es, e)
           /\ es # <<>> => <<Head(es)>> \o Tail(es) = Tail(<<o>> \o es) /\ Len(<<o>> \o es) > 1
           /\ <<o>> \o <<>> = <<o>>
  <1> DEFINE s == <<o>> \o es
  <1>1. /\ s \in Seq(S) /\ Len(s) = Len(es) + 1 /\ s[1] = o /\ Len(es) \in Nat
        /\ \A i \in 1..Len(es) : s[i + 1] = es[i]
    BY StreamFacts, SeqFacts
  <1>2. s # <<>> BY <1>1, SeqFacts
  <1> HIDE DEF s
  <1>3. ASSUME NEW e \in S PROVE <<o>> \o Append(es, e) = Append(s, e)
    <2> DEFINE t == <<o>> \o Append(es, e)
               u == Append(s, e)
    <2>1. /\ Append(es, e) \in Seq(S) /\ Len(Append(es, e)) = Len(es) + 1
          /\ Append(es, e)[Len(es) + 1] = e
          /\ \A i \in 1..Len(es) : Append(es, e)[i] = es[i]
      BY SeqFacts
    <2>2. /\ t \in Seq(S) /\ Len(t) = Len(es) + 2 /\ t[1] = o
          /\ \A i \in 1..(Len(es) + 1) : t[i + 1] = Append(es, e)[i]
      <3>1. /\ t \in Seq(S) /\ Len(t) = Len(Append(es, e)) + 1 /\ t[1] = o
            /\ \A i \in 1..Len(Append(es, e)) : t[i + 1] = Append(es, e)[i]
        BY <2>1, StreamFacts
      <3>2. QED BY <1>1, <2>1, <3>1
    <2>3. /\ u \in Seq(S) /\ Len(u) = Len(es) + 2 /\ u[Len(es) + 2] = e
          /\ \A i \in 1..(Len(es) + 1) : u[i] = s[i]
      <3>1. /\ u \in Seq(S) /\ Len(u) = Len(s) + 1 /\ u[Len(s) + 1] = e
            /\ \A i \in 1..Len(s) : u[i] = s[i]
        BY <1>1, SeqFacts
      <3>2. QED BY <1>1, <3>1
    <2> HIDE DEF t, u
    <2>4. ASSUME NEW i \in 1..(Len(es) + 2) PROVE t[i] = u[i]
      <3>1. CASE i = 1 BY <1>1, <2>2, <2>3, <3>1
      <3>2. CASE i > 1 /\ i < Len(es) + 2
        <4>1. i - 1 \in 1..Len(es) /\ i - 1 \in 1..(Len(es) + 1) /\ i \in 1..(Len(es) + 1) /\ (i - 1) + 1 = i
          BY <1>1, <3>2
        <4>2. t[i] = es[i - 1] BY <2>1, <2>2, <4>1
        <4>3. u[i] = es[i - 1] BY <1>1, <2>3, <4>1
        <4>4. QED BY <4>2, <4>3
      <3>3. CASE i = Len(es) + 2
        <4>1. Len(es) + 1 \in 1..(Len(es) + 1) /\ (Len(es) + 1) + 1 = i BY <1>1, <3>3
        <4>2. t[i] = e BY <2>1, <2>2, <4>1
        <4>3. QED BY <2>3, <3>3, <4>2
      <3>4. QED BY <1>1, <3>1, <3>2, <3>3
    <2>5. t = u BY <2>2, <2>3, <2>4, SeqEqual
    <2>6. QED BY <2>5 DEF t, u
  <1>4. ASSUME es # <<>> PROVE <<Head(es)>> \o Tail(es) = Tail(s) /\ Len(s) > 1
    <2> DEFINE t == <<Head(es)>> \o Tail(es)
               u == Tail(s)
    <2>1. /\ Head(es) \in S /\ Tail(es) \in Seq(S) /\ Head(es) = es[1]
          /\ Len(Tail(es)) = Len(es) - 1 /\ Len(es) # 0
          /\ \A i \in 1..(Len(es) - 1) : Tail(es)[i] = es[i + 1]
      BY <1>4, SeqFacts
    <2>2. /\ t \in Seq(S) /\ Len(t) = Len(es) /\ t[1] = es[1]
          /\ \A i \in 1..(Len(es) - 1) : t[i + 1] = es[i + 1]
      <3>1. /\ t \in Seq(S) /\ Len(t) = Len(Tail(es)) + 1 /\ t[1] = Head(es)
            /\ \A i \in 1..Len(Tail(es)) : t[i + 1] = Tail(es)[i]
        BY <2>1, StreamFacts
      <3>2. QED BY <1>1, <2>1, <3>1
    <2>3. u \in Seq(S) /\ Len(u) = Len(es) /\ \A i \in 1..Len(es) : u[i] = es[i]
      <3>1. u \in Seq(S) /\ Len(u) = Len(s) - 1 /\ \A i \in 1..(Len(s) - 1) : u[i] = s[i + 1]
        BY <1>1, <1>2, SeqFacts
      <3>2. QED BY <1>1, <3>1
    <2> HIDE DEF t, u
    <2>4. ASSUME NEW i \in 1..Len(es) PROVE t[i] = u[i]
      <3>1. CASE i = 1 BY <1>1, <2>2, <2>3, <3>1
      <3>2. CASE i # 1
        <4>1. i - 1 \in 1..(Len(es) - 1) /\ (i - 1) + 1 = i BY <1>1, <3>2
        <4>2. t[i] = es[i] BY <2>2, <4>1
        <4>3. QED BY <2>3, <4>2
      <3>3. QED BY <3>1, <3>2
    <2>5. t = u BY <2>2, <2>3, <2>4, SeqEqual
    <2>6. QED BY <1>1, <2>1, <2>5 DEF t, u
  <1>5. <<o>> \o <<>> = <<o>>
    <2>1. <<o>> \in Seq(S) OBVIOUS
    <2>2. QED BY <2>1, ConcatEmptySeq
  <1>6. QED BY <1>3, <1>4, <1>5 DEF s

\* What may be committed: the finalizer is added when no dying state has it,
\* and taken off when the worker has seen that.
LEMMA StreamAppend ==
    ASSUME NEW s, NEW o, StreamInv(s, o), NEW p, WellFormed(p),
           LiveHolding(p) => LiveHolding(o) \/ \A i \in DOMAIN s : ~DyingHolding(s[i]),
           DyingHolding(p) => Holds(o),
           \/ (Holds(o) => Holds(p)) /\ (DyingHolding(o) => DyingHolding(p))
           \/ SeenDying(s)
    PROVE  StreamInv(Append(s, p), p)
  <1> DEFINE n == Len(s)
             t == Append(s, p)
  <1>1. s \in Seq(Cluster) /\ s # <<>> /\ p \in Cluster BY DEF StreamInv, Ends, WellFormed
  <1>2. /\ n \in Nat \ {0} /\ DOMAIN s = 1..n /\ s[n] = o
        /\ t \in Seq(Cluster) /\ t # <<>> /\ DOMAIN t = 1..(n + 1) /\ Len(t) = n + 1
        /\ t[n + 1] = p /\ \A i \in 1..n : t[i] = s[i]
    BY <1>1, SeqFacts DEF StreamInv, Ends
  <1>3. o \in Cluster BY <1>1, <1>2, SeqFacts
  <1> HIDE DEF n, t
  <1>4. \A i \in DOMAIN t : i = n + 1 \/ i \in DOMAIN s BY <1>2
  <1>5. Ends(t, p) BY <1>2, <1>4 DEF StreamInv, Ends
  <1>6. \/ \A i \in DOMAIN s : LiveHolding(s[i]) => Holds(p)
        \/ \A i \in DOMAIN s : ~LiveHolding(s[i])
    BY DEF StreamInv, HeldSince, SeenDying
  <1>7. HeldSince(t, p)
    BY <1>2, <1>4, <1>6 DEF HeldSince, LiveHolding
  <1>8. ASSUME LiveHolding(p) PROVE \A i \in DOMAIN s : ~DyingHolding(s[i])
    <2>1. CASE LiveHolding(o)
      <3>1. ~DyingHolding(o) BY <2>1 DEF LiveHolding, DyingHolding
      <3>2. \A i \in DOMAIN s : i = n \/ i < n BY <1>2
      <3>3. QED BY <1>2, <2>1, <3>1, <3>2 DEF StreamInv, NotAgain
    <2>2. QED BY <1>8, <2>1
  <1>9. NotAgain(t)
    <2> SUFFICES ASSUME NEW i \in DOMAIN t, NEW j \in DOMAIN t, i < j, DyingHolding(t[i])
                 PROVE  ~LiveHolding(t[j])
      BY DEF NotAgain
    <2>1. i \in DOMAIN s /\ t[i] = s[i] BY <1>2
    <2>2. CASE j = n + 1 BY <1>2, <1>8, <2>1, <2>2
    <2>3. CASE j # n + 1
      <3>1. j \in DOMAIN s /\ t[j] = s[j] BY <1>2, <2>3
      <3>2. QED BY <2>1, <3>1 DEF StreamInv, NotAgain
    <2>4. QED BY <2>2, <2>3
  <1>10. ASSUME DyingHolding(p), NEW i \in DOMAIN s, DyingHolding(s[i])
         PROVE  DyingHolding(o)
    <2>1. Holds(o) BY <1>10
    <2>2. CASE i = n BY <1>2, <1>10, <2>2
    <2>3. CASE i # n
      <3>1. n \in DOMAIN s /\ i < n BY <1>2, <2>3
      <3>2. ~LiveHolding(o) BY <1>2, <1>10, <3>1 DEF StreamInv, NotAgain
      <3>3. o.phase # "absent"
        <4>1. WellFormed(o) BY <1>2 DEF StreamInv, Ends
        <4>2. QED BY <2>1, <4>1 DEF WellFormed, Holds
      <3>4. QED BY <1>3, <2>1, <3>2, <3>3 DEF Cluster, LiveHolding, DyingHolding
    <2>4. QED BY <2>2, <2>3
  <1>11. OneDeath(t)
    <2> SUFFICES ASSUME NEW i \in DOMAIN t, NEW j \in DOMAIN t, NEW k \in DOMAIN t, i < j, j < k,
                        DyingHolding(t[i]), DyingHolding(t[k])
                 PROVE  DyingHolding(t[j])
      BY DEF OneDeath
    <2>1. i \in DOMAIN s /\ j \in DOMAIN s /\ t[i] = s[i] /\ t[j] = s[j] BY <1>2
    <2>2. CASE k = n + 1
      <3>1. DyingHolding(o) BY <1>2, <1>10, <2>1, <2>2
      <3>2. CASE j = n BY <1>2, <2>1, <3>1, <3>2
      <3>3. CASE j # n
        <4>1. j < n /\ n \in DOMAIN s BY <1>2, <2>1, <3>3
        <4>2. QED BY <1>2, <2>1, <3>1, <4>1 DEF StreamInv, OneDeath
      <3>4. QED BY <3>2, <3>3
    <2>3. CASE k # n + 1
      <3>1. k \in DOMAIN s /\ t[k] = s[k] BY <1>2, <2>3
      <3>2. QED BY <2>1, <3>1 DEF StreamInv, OneDeath
    <2>4. QED BY <2>2, <2>3
  <1>12. DiesLast(t, p)
    <2> SUFFICES ASSUME NEW i \in DOMAIN t, NEW j \in DOMAIN t, i < j, t[i].phase = "live", DyingHolding(t[j])
                 PROVE  DyingHolding(p)
      BY DEF DiesLast
    <2>1. i \in DOMAIN s /\ t[i] = s[i] BY <1>2
    <2>2. CASE j = n + 1 BY <1>2, <2>2
    <2>3. CASE j # n + 1
      <3>1. j \in DOMAIN s /\ t[j] = s[j] BY <1>2, <2>3
      <3>2. DyingHolding(o) /\ ~SeenDying(s)
        BY <2>1, <3>1 DEF StreamInv, DiesLast, SeenDying
      <3>3. QED BY <3>2
    <2>4. QED BY <2>2, <2>3
  <1>13. QED BY <1>5, <1>7, <1>9, <1>11, <1>12 DEF StreamInv, t

LEMMA StreamTail ==
    ASSUME NEW s, NEW o, StreamInv(s, o), Len(s) > 1
    PROVE  /\ StreamInv(Tail(s), o)
           /\ SeenDying(s) => SeenDying(Tail(s))
           /\ \A i \in DOMAIN Tail(s) : \E j \in DOMAIN s : Tail(s)[i] = s[j]
  <1> DEFINE n == Len(s) - 1
             t == Tail(s)
  <1>1. s \in Seq(Cluster) /\ s # <<>> BY DEF StreamInv, Ends
  <1>2. /\ n \in Nat \ {0} /\ Len(s) = n + 1 /\ DOMAIN s = 1..(n + 1) /\ s[n + 1] = o
        /\ t \in Seq(Cluster) /\ DOMAIN t = 1..n /\ Len(t) = n
        /\ \A i \in 1..n : t[i] = s[i + 1]
    <2>1. Len(s) \in Nat /\ DOMAIN s = 1..Len(s) /\ s[Len(s)] = o
      BY <1>1, SeqFacts DEF StreamInv, Ends
    <2>2. /\ t \in Seq(Cluster) /\ DOMAIN t = 1..(Len(s) - 1) /\ Len(t) = Len(s) - 1
          /\ \A i \in 1..(Len(s) - 1) : t[i] = s[i + 1]
      BY <1>1, SeqFacts
    <2>3. QED BY <2>1, <2>2
  <1>3. t # <<>> BY <1>2, SeqFacts
  <1> HIDE DEF n, t
  <1>4. \A i \in DOMAIN t : i + 1 \in DOMAIN s /\ t[i] = s[i + 1] BY <1>2
  <1>5. \A i, j \in DOMAIN t : i < j => i + 1 < j + 1 BY <1>2
  <1>6. t[n] = o BY <1>2
  <1>7. Ends(t, o) BY <1>2, <1>3, <1>4, <1>6 DEF StreamInv, Ends
  <1>8. HeldSince(t, o) BY <1>4 DEF StreamInv, HeldSince
  <1>9. NotAgain(t) BY <1>4, <1>5 DEF StreamInv, NotAgain
  <1>10. OneDeath(t) BY <1>4, <1>5 DEF StreamInv, OneDeath
  <1>11. DiesLast(t, o) BY <1>4, <1>5 DEF StreamInv, DiesLast
  <1>12. SeenDying(s) => SeenDying(t) BY <1>4, <1>5 DEF SeenDying
  <1>13. QED BY <1>4, <1>7, <1>8, <1>9, <1>10, <1>11, <1>12 DEF StreamInv, t

LEMMA StreamOne ==
    ASSUME NEW o, WellFormed(o)
    PROVE  StreamInv(<<o>>, o)
  <1>1. o \in Cluster BY DEF WellFormed
  <1>2. <<o>> \in Seq(Cluster) /\ <<o>> # <<>> /\ Len(<<o>>) = 1 /\ <<o>>[1] = o BY <1>1
  <1>3. DOMAIN <<o>> = {1} OBVIOUS
  <1>4. Ends(<<o>>, o) BY <1>2, <1>3 DEF Ends
  <1>5. \A i, j \in DOMAIN <<o>> : ~(i < j) BY <1>3
  <1>6. QED BY <1>2, <1>3, <1>4, <1>5 DEF StreamInv, HeldSince, NotAgain, OneDeath, DiesLast, LiveHolding

-----------------------------------------------------------------------------
(***************************************************************************)
(* Commits and deliveries as steps of the stream.                          *)
(***************************************************************************)
LEMMA StreamStarts ==
    TypeOK => Stream \in Seq(Cluster) /\ 1 \in DOMAIN Stream /\ Stream[1] = seen
  <1> SUFFICES ASSUME TypeOK PROVE Stream \in Seq(Cluster) /\ 1 \in DOMAIN Stream /\ Stream[1] = seen
    OBVIOUS
  <1>1. seen \in Cluster /\ wire \in Seq(Cluster) BY DEF TypeOK
  <1>2. Stream \in Seq(Cluster) /\ Len(Stream) = Len(wire) + 1 /\ Stream[1] = seen
    BY <1>1, StreamFacts DEF Stream
  <1>3. Len(wire) \in Nat /\ DOMAIN Stream = 1..Len(Stream) BY <1>1, <1>2, SeqFacts
  <1>4. QED BY <1>2, <1>3

LEMMA ObjWellFormed ==
    ASSUME StreamInv(Stream, obj)
    PROVE  WellFormed(obj) /\ \E i \in DOMAIN Stream : Stream[i] = obj /\ \A j \in DOMAIN Stream : j = i \/ j < i
  <1>1. Stream \in Seq(Cluster) /\ Stream # <<>> /\ Stream[Len(Stream)] = obj BY DEF StreamInv, Ends
  <1>2. Len(Stream) \in Nat \ {0} /\ DOMAIN Stream = 1..Len(Stream) BY <1>1, SeqFacts
  <1>3. Len(Stream) \in DOMAIN Stream /\ \A j \in DOMAIN Stream : j = Len(Stream) \/ j < Len(Stream)
    BY <1>2
  <1>4. QED BY <1>1, <1>3 DEF StreamInv, Ends

LEMMA CommitStream ==
    ASSUME TypeOK, NEW p \in Cluster, Commit(p)
    PROVE  Stream' = Append(Stream, p) /\ obj' = p /\ seen' = seen /\ wire' \in Seq(Cluster)
  <1>1. seen \in Cluster /\ wire \in Seq(Cluster) BY DEF TypeOK
  <1>2. seen' = seen /\ obj' = p /\ wire' = Append(wire, p) BY DEF Commit
  <1>3. <<seen>> \o Append(wire, p) = Append(<<seen>> \o wire, p) BY <1>1, StreamSteps
  <1>4. QED BY <1>1, <1>2, <1>3, SeqFacts DEF Stream

LEMMA AppendElements ==
    ASSUME NEW s \in Seq(Cluster), NEW p \in Cluster, NEW i \in DOMAIN Append(s, p)
    PROVE  \/ i = Len(s) + 1 /\ Append(s, p)[i] = p
           \/ i \in DOMAIN s /\ Append(s, p)[i] = s[i] /\ i < Len(s) + 1
  <1>1. /\ Len(s) \in Nat /\ DOMAIN s = 1..Len(s) /\ DOMAIN Append(s, p) = 1..(Len(s) + 1)
        /\ Append(s, p)[Len(s) + 1] = p /\ \A k \in 1..Len(s) : Append(s, p)[k] = s[k]
    BY SeqFacts
  <1>2. i = Len(s) + 1 \/ (i \in 1..Len(s) /\ i < Len(s) + 1) BY <1>1
  <1>3. QED BY <1>1, <1>2

\* A commit of anyone but the worker that gives this finalizer: it is kept.
LEMMA OtherCommit ==
    ASSUME TypeOK, StreamInv(Stream, obj), InfoInv, NEW p, WellFormed(p), Commit(p),
           LiveHolding(p) => LiveHolding(obj), DyingHolding(p) => Holds(obj),
           Holds(obj) => Holds(p), DyingHolding(obj) => DyingHolding(p),
           UNCHANGED <<info, ipc>>
    PROVE  StreamInv(Stream, obj)' /\ InfoInv'
  <1>1. p \in Cluster BY DEF WellFormed
  <1>2. Stream' = Append(Stream, p) /\ obj' = p BY <1>1, CommitStream
  <1>3. Stream \in Seq(Cluster) BY StreamStarts
  <1>4. StreamInv(Append(Stream, p), p) BY StreamAppend
  <1>5. \A i \in DOMAIN Append(Stream, p) :
           \/ i = Len(Stream) + 1 /\ Append(Stream, p)[i] = p
           \/ i \in DOMAIN Stream /\ Append(Stream, p)[i] = Stream[i] /\ i < Len(Stream) + 1
    BY <1>1, <1>3, AppendElements
  <1>6. ASSUME ipc = "addFinalizer", NEW i \in DOMAIN Append(Stream, p), DyingHolding(Append(Stream, p)[i])
        PROVE  DyingHolding(p)
    BY <1>5, <1>6 DEF InfoInv
  <1>7. ASSUME SeenDying(Stream) PROVE SeenDying(Append(Stream, p))
    <2>1. PICK l \in DOMAIN Stream : Stream[l] = obj /\ \A j \in DOMAIN Stream : j = l \/ j < l
      BY ObjWellFormed
    <2>2. ~LiveHolding(p) BY <1>7, <2>1 DEF SeenDying
    <2>3. ASSUME NEW i \in DOMAIN Stream, Stream[i].phase = "live" PROVE ~DyingHolding(p)
      <3> SUFFICES ASSUME DyingHolding(p) PROVE FALSE
        OBVIOUS
      <3>1. Holds(obj) /\ ~LiveHolding(obj) /\ WellFormed(obj)
        BY <1>7, <2>1, ObjWellFormed DEF SeenDying
      <3>2. DyingHolding(obj) BY <3>1 DEF WellFormed, Cluster, Holds, LiveHolding, DyingHolding
      <3>3. i # l BY <2>1, <2>3, <3>2 DEF DyingHolding
      <3>4. QED BY <1>7, <2>1, <2>3, <3>2, <3>3 DEF SeenDying
    <2>4. \A i \in DOMAIN Append(Stream, p) : ~LiveHolding(Append(Stream, p)[i])
      BY <1>5, <1>7, <2>2 DEF SeenDying
    <2>5. ASSUME NEW i \in DOMAIN Append(Stream, p), NEW j \in DOMAIN Append(Stream, p), i < j,
                 Append(Stream, p)[i].phase = "live"
          PROVE  ~DyingHolding(Append(Stream, p)[j])
      <3>1. i \in DOMAIN Stream /\ Append(Stream, p)[i] = Stream[i]
        <4>1. Len(Stream) \in Nat /\ DOMAIN Append(Stream, p) = 1..(Len(Stream) + 1) BY <1>1, <1>3, SeqFacts
        <4>2. i # Len(Stream) + 1 BY <2>5, <4>1
        <4>3. QED BY <1>5, <4>2
      <3>2. CASE j \in DOMAIN Stream /\ Append(Stream, p)[j] = Stream[j]
        BY <1>7, <2>5, <3>1, <3>2 DEF SeenDying
      <3>3. CASE Append(Stream, p)[j] = p BY <2>3, <2>5, <3>1, <3>3
      <3>4. QED BY <1>5, <3>2, <3>3
    <2>6. QED BY <2>4, <2>5 DEF SeenDying
  <1>8. InfoInv' BY <1>2, <1>6, <1>7 DEF InfoInv, Holds
  <1>9. StreamInv(Stream', obj') BY <1>2, <1>4
  <1>10. QED BY <1>8, <1>9

\* No commit.
LEMMA ClusterSame ==
    ASSUME StreamInv(Stream, obj), InfoInv, UNCHANGED clusterVars, info' => info, ipc' \in {ipc, "idle"}
    PROVE  StreamInv(Stream, obj)' /\ InfoInv'
  <1>1. Stream' = Stream /\ obj' = obj BY DEF Stream, clusterVars
  <1>2. InfoInv' BY <1>1 DEF InfoInv, Holds
  <1>3. StreamInv(Stream', obj') BY <1>1
  <1>4. QED BY <1>2, <1>3

-----------------------------------------------------------------------------
(***************************************************************************)
(* Steps that commit.                                                      *)
(***************************************************************************)
LEMMA FinalizedFacts ==
    ASSUME NEW phase \in {"live", "dying"}, NEW f \in SUBSET Finalizers
    PROVE  /\ WellFormed(Finalized(phase, f))
           /\ "info" \in f => Finalized(phase, f) = [phase |-> phase, finalizers |-> f]
           /\ Finalized(phase, f).finalizers = f
           /\ phase = "dying" => Finalized(phase, f).phase # "live"
           /\ Finalized(phase, f).phase = "live" => phase = "live"
           /\ Finalized(phase, f).phase = "dying" => phase = "dying"
  BY DEF WellFormed, Finalized, Cluster, Absent

LEMMA UserCommits ==
    ASSUME TypeOK, LifeInv, CreateCluster \/ DeleteCluster \/ TouchCluster
    PROVE  /\ LifeInv' /\ obj' \in Cluster /\ WellFormed(obj)' /\ seen' = seen /\ wire' \in Seq(Cluster)
           /\ UNCHANGED <<roleVars, infoVars, faults>> /\ churn' \in 0..MaxChurn /\ roleFresh' = FALSE
  <1>1. StreamInv(Stream, obj) /\ InfoInv /\ WellFormed(obj) /\ obj \in Cluster
    BY ObjWellFormed DEF LifeInv, WellFormed
  <1>2. ASSUME NEW p, WellFormed(p), UserWrites(p),
               LiveHolding(p) => LiveHolding(obj), DyingHolding(p) => Holds(obj),
               Holds(obj) => Holds(p), DyingHolding(obj) => DyingHolding(p)
        PROVE  /\ LifeInv' /\ obj' \in Cluster /\ WellFormed(obj)' /\ seen' = seen /\ wire' \in Seq(Cluster)
               /\ UNCHANGED <<roleVars, infoVars, faults>> /\ churn' \in 0..MaxChurn /\ roleFresh' = FALSE
    <2>1. p \in Cluster BY <1>2 DEF WellFormed
    <2>2. Commit(p) /\ roleFresh' = FALSE /\ UNCHANGED <<roleVars, infoVars, faults>>
      BY <1>2 DEF UserWrites
    <2>3. obj' = p /\ seen' = seen /\ wire' \in Seq(Cluster) BY <2>1, <2>2, CommitStream
    <2>4. UNCHANGED <<info, ipc>> BY <2>2 DEF infoVars
    <2>5. StreamInv(Stream, obj)' /\ InfoInv' BY <1>1, <1>2, <2>2, <2>4, OtherCommit
    <2>6. RoleInv' BY <2>2 DEF RoleInv
    <2>7. churn' \in 0..MaxChurn BY <1>2, BoundsAssumption DEF UserWrites, TypeOK
    <2>8. QED BY <1>2, <2>1, <2>2, <2>3, <2>5, <2>6, <2>7 DEF LifeInv, WellFormed
  <1>3. CASE CreateCluster
    <2>1. WellFormed(New) /\ ~Holds(New) /\ ~Holds(obj)
      BY <1>3 DEF CreateCluster, New, Absent, WellFormed, Cluster, Holds
    <2>2. QED BY <1>2, <1>3, <2>1 DEF CreateCluster, LiveHolding, DyingHolding
  <1>4. CASE DeleteCluster
    <2> DEFINE p == Finalized("dying", obj.finalizers)
    <2>1. obj.finalizers \in SUBSET Finalizers BY <1>1 DEF Cluster
    <2>2. /\ WellFormed(p) /\ (Holds(obj) => Holds(p)) /\ ~LiveHolding(p) /\ (Holds(p) => Holds(obj))
      BY <2>1, FinalizedFacts DEF Holds, LiveHolding
    <2>3. ~DyingHolding(obj) BY <1>4 DEF DeleteCluster, DyingHolding
    <2> HIDE DEF p
    <2>4. UserWrites(p) BY <1>4 DEF DeleteCluster, p
    <2>5. QED BY <1>2, <2>2, <2>3, <2>4 DEF DyingHolding
  <1>5. CASE TouchCluster
    BY <1>1, <1>2, <1>5 DEF TouchCluster, DyingHolding
  <1>6. QED BY <1>3, <1>4, <1>5

LEMMA RoleCommits ==
    ASSUME TypeOK, LifeInv, AddRoleFinalizer \/ RemoveRoleFinalizer
    PROVE  /\ LifeInv' /\ obj' \in Cluster /\ WellFormed(obj)' /\ seen' = seen /\ wire' \in Seq(Cluster)
           /\ UNCHANGED <<roles, roleEvent, roleQueue, roleFresh, infoVars, churn, faults>>
           /\ rpc' \in {"applyAdmin", "idle"}
  <1>1. StreamInv(Stream, obj) /\ InfoInv /\ WellFormed(obj) /\ obj \in Cluster
    BY ObjWellFormed DEF LifeInv, WellFormed
  <1>2. UNCHANGED <<roles, roleEvent, roleQueue, roleFresh, infoVars, churn, faults>>
    BY DEF AddRoleFinalizer, RemoveRoleFinalizer
  <1>3. rpc' \in {"applyAdmin", "idle"} BY DEF AddRoleFinalizer, RemoveRoleFinalizer
  <1>4. ASSUME NEW p, WellFormed(p), Commit(p),
               LiveHolding(p) => LiveHolding(obj), DyingHolding(p) => Holds(obj),
               Holds(obj) => Holds(p), DyingHolding(obj) => DyingHolding(p)
        PROVE  LifeInv' /\ obj' \in Cluster /\ WellFormed(obj)' /\ seen' = seen /\ wire' \in Seq(Cluster)
    <2>1. p \in Cluster BY <1>4 DEF WellFormed
    <2>2. obj' = p /\ seen' = seen /\ wire' \in Seq(Cluster) BY <1>4, <2>1, CommitStream
    <2>3. UNCHANGED <<info, ipc>> BY <1>2 DEF infoVars
    <2>4. StreamInv(Stream, obj)' /\ InfoInv' BY <1>1, <1>4, <2>3, OtherCommit
    <2>5. RoleInv' BY <1>3 DEF RoleInv
    <2>6. QED BY <1>4, <2>1, <2>2, <2>4, <2>5 DEF LifeInv, WellFormed
  <1>5. CASE AddRoleFinalizer
    <2> DEFINE p == [obj EXCEPT !.finalizers = @ \cup {"role"}]
    <2>1. obj.phase = "live" BY <1>5 DEF AddRoleFinalizer, LifeInv, RoleInv
    <2>2. p.phase = "live" /\ p \in Cluster /\ (Holds(p) <=> Holds(obj))
      BY <1>1, <2>1 DEF Cluster, Finalizers, Holds
    <2>3. WellFormed(p) /\ ~DyingHolding(p) /\ ~DyingHolding(obj) /\ (LiveHolding(p) => LiveHolding(obj))
      BY <2>1, <2>2 DEF WellFormed, DyingHolding, LiveHolding
    <2> HIDE DEF p
    <2>4. Commit(p) BY <1>5 DEF AddRoleFinalizer, p
    <2>5. QED BY <1>2, <1>3, <1>4, <2>2, <2>3, <2>4
  <1>6. CASE RemoveRoleFinalizer
    <2> DEFINE p == Finalized("dying", obj.finalizers \ {"role"})
    <2>1. obj.finalizers \ {"role"} \in SUBSET Finalizers BY <1>1 DEF Cluster
    <2>2. WellFormed(p) /\ (Holds(obj) <=> Holds(p)) /\ ~LiveHolding(p)
      BY <2>1, FinalizedFacts DEF Holds, LiveHolding
    <2>3. Holds(p) => p.phase = "dying" BY <2>1, FinalizedFacts DEF Holds
    <2> HIDE DEF p
    <2>4. Commit(p) BY <1>6 DEF RemoveRoleFinalizer, p
    <2>5. QED BY <1>2, <1>3, <1>4, <2>2, <2>3, <2>4 DEF DyingHolding
  <1>7. QED BY <1>5, <1>6

\* The merge patches of the other worker.
LEMMA InfoCommits ==
    ASSUME TypeOK, LifeInv, AddInfoFinalizer \/ RemoveInfoFinalizer
    PROVE  /\ LifeInv' /\ obj' \in Cluster /\ WellFormed(obj)' /\ seen' = seen /\ wire' \in Seq(Cluster)
           /\ UNCHANGED <<roleVars, info, infoSeen, infoEvent, infoCopy, churn, faults>>
           /\ ipc' = "idle" /\ infoQueue' \in BOOLEAN /\ roleFresh' \in BOOLEAN
  <1>1. StreamInv(Stream, obj) /\ InfoInv /\ WellFormed(obj) /\ obj \in Cluster /\ RoleInv
    BY ObjWellFormed DEF LifeInv, WellFormed
  <1> DEFINE F == IF ipc = "addFinalizer" THEN infoCopy \cup {"info"} ELSE infoCopy \ {"info"}
             p == Finalized(obj.phase, F)
             refused == obj = Absent \/ (obj.phase = "dying" /\ ~(F \subseteq obj.finalizers))
  <1>2. /\ Patch(F) /\ ipc \in {"addFinalizer", "removeFinalizer"}
        /\ UNCHANGED <<roleVars, info, infoSeen, infoEvent, infoCopy, churn, faults>>
    BY DEF AddInfoFinalizer, RemoveInfoFinalizer
  <1>3. F \in SUBSET Finalizers /\ ("info" \in F <=> ipc = "addFinalizer")
    BY <1>2 DEF TypeOK, Finalizers
  <1> HIDE DEF F
  <1>4. /\ ipc' = "idle" /\ infoQueue' = (infoQueue \/ refused)
        /\ \/ UNCHANGED <<clusterVars, roleFresh>>
           \/ ~refused /\ Commit(p) /\ roleFresh' = FALSE
    BY <1>2 DEF Patch, InfoReturns
  <1>5. infoQueue' \in BOOLEAN BY <1>4 DEF TypeOK
  <1>6. CASE UNCHANGED <<clusterVars, roleFresh>>
    <2>1. StreamInv(Stream, obj)' /\ InfoInv' BY <1>1, <1>2, <1>4, <1>6, ClusterSame
    <2>2. obj' = obj /\ seen' = seen /\ wire' = wire BY <1>6 DEF clusterVars
    <2>3. RoleInv' BY <1>1, <1>2, <1>6, <2>2 DEF RoleInv, roleVars
    <2>4. QED BY <1>1, <1>2, <1>4, <1>5, <1>6, <2>1, <2>2, <2>3 DEF LifeInv, TypeOK, WellFormed
  <1>7. CASE ~refused /\ Commit(p) /\ roleFresh' = FALSE
    <2>1. obj.phase \in {"live", "dying"}
      <3>1. obj.phase = "absent" => obj = Absent BY <1>1 DEF WellFormed, Cluster, Absent
      <3>2. QED BY <1>1, <1>7, <3>1 DEF Cluster
    <2>2. /\ WellFormed(p) /\ (Holds(p) <=> "info" \in F)
          /\ p.phase = "live" => obj.phase = "live"
          /\ p.phase = "dying" => obj.phase = "dying"
          /\ "info" \in F => p.phase = obj.phase
      BY <1>3, <2>1, FinalizedFacts DEF Holds
    <2>3. p \in Cluster BY <2>2 DEF WellFormed
    <2>4. Stream' = Append(Stream, p) /\ obj' = p /\ seen' = seen /\ wire' \in Seq(Cluster)
      BY <1>7, <2>3, CommitStream
    <2>5. LiveHolding(p) => LiveHolding(obj) \/ \A i \in DOMAIN Stream : ~DyingHolding(Stream[i])
      BY <1>1, <1>3, <2>2 DEF LiveHolding, DyingHolding, InfoInv
    <2>6. DyingHolding(p) => Holds(obj)
      BY <1>7, <2>2 DEF DyingHolding, Holds
    <2>7. \/ (Holds(obj) => Holds(p)) /\ (DyingHolding(obj) => DyingHolding(p))
          \/ SeenDying(Stream)
      BY <1>1, <1>2, <1>3, <2>2 DEF InfoInv, DyingHolding
    <2>8. StreamInv(Append(Stream, p), p) BY <1>1, <2>2, <2>5, <2>6, <2>7, StreamAppend
    <2>9. info => Holds(p) BY <1>1, <1>2, <1>3, <2>2 DEF InfoInv
    <2> HIDE DEF p, refused
    <2>10. InfoInv' BY <1>2, <1>4, <2>4, <2>9 DEF InfoInv, Holds
    <2>11. RoleInv' BY <1>7 DEF RoleInv
    <2>12. StreamInv(Stream', obj') BY <2>4, <2>8
    <2>13. WellFormed(obj') BY <2>2, <2>4
    <2>14. QED BY <1>2, <1>4, <1>5, <1>7, <2>3, <2>4, <2>10, <2>11, <2>12, <2>13 DEF LifeInv
  <1>8. QED BY <1>4, <1>6, <1>7

-----------------------------------------------------------------------------
(***************************************************************************)
(* The other steps.                                                        *)
(***************************************************************************)
LEMMA DeliverClusterOK ==
    ASSUME TypeOK, LifeInv, DeliverCluster
    PROVE  LifeInv' /\ seen' \in Cluster /\ WellFormed(seen)' /\ wire' \in Seq(Cluster)
  <1>1. seen \in Cluster /\ wire \in Seq(Cluster) BY DEF TypeOK
  <1>2. seen' = Head(wire) /\ wire' = Tail(wire) /\ wire # <<>> /\ UNCHANGED <<obj, info, ipc, rpc, roleFresh>>
    BY DEF DeliverCluster
  <1>3. Stream' = Tail(Stream) /\ Len(Stream) > 1 BY <1>1, <1>2, StreamSteps DEF Stream
  <1>4. /\ StreamInv(Tail(Stream), obj) /\ (SeenDying(Stream) => SeenDying(Tail(Stream)))
        /\ \A i \in DOMAIN Tail(Stream) : \E j \in DOMAIN Stream : Tail(Stream)[i] = Stream[j]
    BY <1>3, StreamTail DEF LifeInv
  <1>5. seen' \in Cluster /\ wire' \in Seq(Cluster) BY <1>1, <1>2, SeqFacts
  <1>6. WellFormed(seen)'
    <2>1. Stream'[1] = seen' /\ 1 \in DOMAIN Stream'
      <3>1. /\ <<seen'>> \o wire' \in Seq(Cluster) /\ Len(<<seen'>> \o wire') = Len(wire') + 1
            /\ (<<seen'>> \o wire')[1] = seen'
        BY <1>5, StreamFacts
      <3>2. Len(wire') \in Nat /\ DOMAIN (<<seen'>> \o wire') = 1..Len(<<seen'>> \o wire')
        BY <1>5, <3>1, SeqFacts
      <3>3. QED BY <3>1, <3>2 DEF Stream
    <2>2. WellFormed(Tail(Stream)[1]) BY <1>3, <1>4, <2>1 DEF StreamInv, Ends
    <2>3. QED BY <1>3, <2>1, <2>2
  <1>7. StreamInv(Stream', obj') BY <1>2, <1>3, <1>4
  <1>8. ASSUME ipc = "addFinalizer", NEW i \in DOMAIN Tail(Stream), DyingHolding(Tail(Stream)[i])
        PROVE  DyingHolding(obj)
    BY <1>4, <1>8 DEF LifeInv, InfoInv
  <1>9. InfoInv' BY <1>2, <1>3, <1>4, <1>8 DEF LifeInv, InfoInv, Holds
  <1>10. RoleInv' BY <1>2 DEF LifeInv, RoleInv
  <1>11. QED BY <1>5, <1>6, <1>7, <1>9, <1>10 DEF LifeInv

LEMMA StartInfoOK ==
    ASSUME TypeOK, LifeInv, StartInfo
    PROVE  LifeInv'
  <1>1. ipc' = FirstInfoStep(seen) /\ UNCHANGED <<clusterVars, rpc, roleFresh, info>>
    BY DEF StartInfo, roleVars
  <1>2. Stream' = Stream /\ obj' = obj BY <1>1 DEF Stream, clusterVars
  <1>3. 1 \in DOMAIN Stream /\ Stream[1] = seen BY StreamStarts
  <1>4. \A i \in DOMAIN Stream : i = 1 \/ 1 < i
    <2>1. Stream \in Seq(Cluster) BY StreamStarts
    <2>2. Len(Stream) \in Nat /\ DOMAIN Stream = 1..Len(Stream) BY <2>1, SeqFacts
    <2>3. QED BY <2>2
  <1>5. StreamInv(Stream, obj) BY DEF LifeInv
  <1>6. ipc' # "removeFinalizer" BY <1>1 DEF FirstInfoStep
  <1>7. ASSUME ipc' = "create" PROVE Holds(obj)
    <2>1. LiveHolding(seen) BY <1>1, <1>7 DEF FirstInfoStep, LiveHolding, Holds
    <2>2. QED BY <1>3, <1>5, <2>1 DEF StreamInv, HeldSince
  <1>8. ASSUME ipc' = "addFinalizer", NEW i \in DOMAIN Stream, DyingHolding(Stream[i]) PROVE DyingHolding(obj)
    <2>1. seen.phase = "live" BY <1>1, <1>8 DEF FirstInfoStep
    <2>2. i # 1 BY <1>3, <1>8, <2>1 DEF DyingHolding
    <2>3. QED BY <1>3, <1>4, <1>5, <1>8, <2>1, <2>2 DEF StreamInv, DiesLast
  <1>9. ASSUME ipc' = "delete" PROVE SeenDying(Stream)
    <2>1. DyingHolding(seen) /\ seen.phase # "live" BY <1>1, <1>9 DEF FirstInfoStep, DyingHolding, Holds
    <2>2. \A i \in DOMAIN Stream : ~LiveHolding(Stream[i])
      BY <1>3, <1>4, <1>5, <2>1 DEF StreamInv, NotAgain, LiveHolding
    <2>3. ASSUME NEW i \in DOMAIN Stream, NEW j \in DOMAIN Stream, i < j, Stream[i].phase = "live"
          PROVE  ~DyingHolding(Stream[j])
      <3>1. 1 < i BY <1>3, <1>4, <2>1, <2>3
      <3>2. ~DyingHolding(Stream[i]) BY <2>3 DEF DyingHolding
      <3>3. QED BY <1>3, <1>5, <2>1, <2>3, <3>1, <3>2 DEF StreamInv, OneDeath
    <2>4. QED BY <2>2, <2>3 DEF SeenDying
  <1>10. InfoInv' BY <1>1, <1>2, <1>6, <1>7, <1>8, <1>9 DEF LifeInv, InfoInv, Holds
  <1>11. StreamInv(Stream', obj') /\ RoleInv' BY <1>1, <1>2, <1>5 DEF LifeInv, RoleInv
  <1>12. QED BY <1>10, <1>11 DEF LifeInv

LEMMA StartRoleOK ==
    ASSUME TypeOK, LifeInv, StartRole
    PROVE  LifeInv'
  <1>1. /\ rpc' = FirstRoleStep(seen) /\ roleFresh' = (wire = <<>>) /\ UNCHANGED <<clusterVars, info, ipc>>
    BY DEF StartRole, infoVars
  <1>2. StreamInv(Stream, obj)' /\ InfoInv' BY <1>1, ClusterSame DEF LifeInv
  <1>3. ASSUME wire = <<>>, rpc' = "addFinalizer" PROVE obj.phase = "live"
    <2>1. seen.phase = "live" BY <1>1, <1>3 DEF FirstRoleStep
    <2>2. Stream = <<seen>>
      <3>1. seen \in Cluster /\ wire \in Seq(Cluster) BY DEF TypeOK
      <3>2. QED BY <1>3, <3>1, StreamSteps DEF Stream
    <2>3. obj = seen BY <2>2 DEF LifeInv, StreamInv, Ends
    <2>4. QED BY <2>1, <2>3
  <1>4. RoleInv' BY <1>1, <1>3 DEF RoleInv, clusterVars
  <1>5. QED BY <1>2, <1>4 DEF LifeInv

\* The steps that neither commit nor decide anything about the cluster.
LEMMA RestLifeInv ==
    ASSUME TypeOK, LifeInv,
           \/ DeleteInfo \/ DeliverRole \/ DeliverInfo \/ RoleConflict \/ RoleFails \/ InfoFails
           \/ \E r \in RoleKinds : DeleteRole(r) \/ ApplyRole(r) \/ DeleteClusterRole(r)
           \/ CreateInfo \/ DeleteClusterInfo \/ Restart \/ UNCHANGED vars
    PROVE  LifeInv'
  <1> USE DEF roleVars, infoVars
  <1>1. ASSUME UNCHANGED <<clusterVars, roleFresh>>, info' => info, ipc' \in {ipc, "idle"},
               rpc' = rpc \/ rpc' # "addFinalizer"
        PROVE  LifeInv'
    <2>1. StreamInv(Stream, obj)' /\ InfoInv' BY <1>1, ClusterSame DEF LifeInv
    <2>2. RoleInv' BY <1>1 DEF LifeInv, RoleInv, clusterVars
    <2>3. QED BY <2>1, <2>2 DEF LifeInv
  <1>2. CASE DeleteInfo BY <1>1, <1>2 DEF DeleteInfo
  <1>3. CASE DeliverRole BY <1>1, <1>3 DEF DeliverRole
  <1>4. CASE DeliverInfo BY <1>1, <1>4 DEF DeliverInfo
  <1>5. CASE RoleConflict BY <1>1, <1>5 DEF RoleConflict, RoleError
  <1>6. CASE RoleFails BY <1>1, <1>6 DEF RoleFails, RoleError
  <1>7. CASE InfoFails BY <1>1, <1>7 DEF InfoFails, InfoReturns
  <1>8. ASSUME NEW r \in RoleKinds, DeleteRole(r) \/ ApplyRole(r) \/ DeleteClusterRole(r) PROVE LifeInv'
    BY <1>1, <1>8 DEF DeleteRole, ApplyRole, DeleteClusterRole
  <1>9. CASE CreateInfo
    <2>1. UNCHANGED <<clusterVars, rpc, roleFresh>> /\ ipc' = "idle" /\ ipc = "create"
      BY <1>9 DEF CreateInfo, InfoReturns
    <2>2. Stream' = Stream /\ obj' = obj BY <2>1 DEF Stream, clusterVars
    <2>3. Holds(obj) BY <2>1 DEF LifeInv, InfoInv
    <2>4. InfoInv' BY <2>1, <2>2, <2>3 DEF InfoInv, Holds
    <2>5. StreamInv(Stream', obj') /\ RoleInv' BY <2>1, <2>2 DEF LifeInv, RoleInv
    <2>6. QED BY <2>4, <2>5 DEF LifeInv
  <1>10. CASE DeleteClusterInfo
    <2>1. /\ UNCHANGED <<clusterVars, rpc, roleFresh>> /\ info' = FALSE
          /\ ipc = "delete" /\ ipc' = "removeFinalizer"
      BY <1>10 DEF DeleteClusterInfo
    <2>2. Stream' = Stream /\ obj' = obj BY <2>1 DEF Stream, clusterVars
    <2>3. InfoInv' BY <2>1, <2>2 DEF LifeInv, InfoInv
    <2>4. StreamInv(Stream', obj') /\ RoleInv' BY <2>1, <2>2 DEF LifeInv, RoleInv
    <2>5. QED BY <2>3, <2>4 DEF LifeInv
  <1>11. CASE Restart
    <2>1. wire' = <<>> /\ seen' = obj /\ obj' = obj /\ info' = info /\ ipc' = "idle" /\ rpc' = "idle"
      BY <1>11 DEF Restart
    <2>2. WellFormed(obj) /\ obj \in Cluster BY ObjWellFormed DEF LifeInv, WellFormed
    <2>3. <<obj>> \o <<>> = <<obj>>
      <3>1. <<>> \in Seq(Cluster) OBVIOUS
      <3>2. QED BY <2>2, <3>1, StreamSteps
    <2>4. Stream' = <<obj>> BY <2>1, <2>3 DEF Stream
    <2>5. StreamInv(<<obj>>, obj) BY <2>2, StreamOne
    <2>6. InfoInv' BY <2>1 DEF LifeInv, InfoInv, Holds
    <2>7. StreamInv(Stream', obj') /\ RoleInv' BY <2>1, <2>4, <2>5 DEF RoleInv
    <2>8. QED BY <2>6, <2>7 DEF LifeInv
  <1>12. CASE UNCHANGED vars BY <1>1, <1>12 DEF vars, clusterVars
  <1>13. QED BY <1>2, <1>3, <1>4, <1>5, <1>6, <1>7, <1>8, <1>9, <1>10, <1>11, <1>12

-----------------------------------------------------------------------------
(***************************************************************************)
(* The invariant.                                                          *)
(***************************************************************************)
LEMMA InitLifeInv == Init => TypeOK /\ LifeInv
  <1> SUFFICES ASSUME Init PROVE TypeOK /\ LifeInv
    OBVIOUS
  <1>1. WellFormed(obj) /\ obj \in Cluster BY DEF Init, WellFormed, Cluster, Absent, New
  <1>2. <<>> \in Seq(Cluster) OBVIOUS
  <1>3. seen = obj /\ wire = <<>> /\ rpc = "idle" /\ ipc = "idle" /\ info = FALSE BY DEF Init
  <1>4. Stream = <<obj>> BY <1>1, <1>2, <1>3, StreamSteps DEF Stream
  <1>5. StreamInv(Stream, obj) BY <1>1, <1>4, StreamOne
  <1>6. LifeInv BY <1>3, <1>5 DEF LifeInv, InfoInv, RoleInv
  <1>7. TypeOK
    <2>1. seen \in Cluster /\ wire \in Seq(Cluster) /\ \A o \in {obj, seen} : WellFormed(o)
      BY <1>1, <1>2, <1>3
    <2>2. roleQueue \in BOOLEAN /\ infoQueue \in BOOLEAN BY DEF Init
    <2>3. {roleEvent, info, infoSeen, infoEvent, roleQueue, infoQueue, roleFresh} \subseteq BOOLEAN
      <3>1. roleEvent = FALSE /\ infoSeen = FALSE /\ infoEvent = FALSE /\ roleFresh = FALSE BY DEF Init
      <3>2. QED BY <1>3, <2>2, <3>1
    <2>4. churn \in 0..MaxChurn /\ faults \in 0..MaxFaults BY BoundsAssumption DEF Init
    <2>5. roles = {} /\ infoCopy = {} BY DEF Init
    <2>6. QED BY <1>1, <1>3, <2>1, <2>3, <2>4, <2>5 DEF TypeOK, WellFormed
  <1>8. QED BY <1>6, <1>7

LEMMA NextTypeOK == TypeOK /\ LifeInv /\ [Next]_vars => TypeOK'
  <1> SUFFICES ASSUME TypeOK, LifeInv, [Next]_vars PROVE TypeOK'
    OBVIOUS
  <1> USE DEF roleVars, infoVars, clusterVars, WellFormed
  <1>1. CASE CreateCluster \/ DeleteCluster \/ TouchCluster
    BY <1>1, UserCommits DEF TypeOK
  <1>2. CASE AddRoleFinalizer \/ RemoveRoleFinalizer
    BY <1>2, RoleCommits DEF TypeOK
  <1>3. CASE AddInfoFinalizer \/ RemoveInfoFinalizer
    BY <1>3, InfoCommits DEF TypeOK
  <1>4. CASE DeliverCluster
    BY <1>4, DeliverClusterOK DEF TypeOK, DeliverCluster
  <1>5. CASE StartInfo
    <2>1. FirstInfoStep(seen) \in {"idle", "addFinalizer", "create", "delete"} BY DEF FirstInfoStep
    <2>2. seen.finalizers \in SUBSET Finalizers BY DEF TypeOK, Cluster
    <2>3. QED BY <1>5, <2>1, <2>2 DEF StartInfo, TypeOK
  <1>6. CASE StartRole
    <2>1. FirstRoleStep(seen) \in {"idle", "addFinalizer", "applyAdmin", "deleteAdmin"} BY DEF FirstRoleStep
    <2>2. QED BY <1>6, <2>1 DEF StartRole, TypeOK
  <1>7. CASE DeleteInfo
    <2>1. churn' \in 0..MaxChurn BY <1>7, BoundsAssumption DEF DeleteInfo, TypeOK
    <2>2. info' = FALSE /\ infoEvent' = TRUE BY <1>7 DEF DeleteInfo
    <2>3. UNCHANGED <<obj, wire, seen, roles, roleEvent, roleQueue, rpc, roleFresh, infoSeen, infoQueue, ipc,
                      infoCopy, faults>>
      BY <1>7 DEF DeleteInfo
    <2>4. QED BY <2>1, <2>2, <2>3 DEF TypeOK
  <1>8. CASE DeliverRole BY <1>8 DEF DeliverRole, TypeOK
  <1>9. CASE DeliverInfo BY <1>9 DEF DeliverInfo, TypeOK
  <1>10. CASE RoleConflict BY <1>10 DEF RoleConflict, RoleError, TypeOK
  <1>11. Fault => faults' \in 0..MaxFaults BY BoundsAssumption DEF Fault, TypeOK
  <1>12. CASE RoleFails BY <1>11, <1>12 DEF RoleFails, RoleError, TypeOK
  <1>13. CASE InfoFails BY <1>11, <1>13 DEF InfoFails, InfoReturns, TypeOK
  <1>14. ASSUME NEW r \in RoleKinds, DeleteRole(r) PROVE TypeOK'
    BY <1>14, BoundsAssumption DEF DeleteRole, TypeOK
  <1>15. ASSUME NEW r \in RoleKinds, ApplyRole(r) PROVE TypeOK'
    BY <1>15 DEF ApplyRole, TypeOK
  <1>16. ASSUME NEW r \in RoleKinds, DeleteClusterRole(r) PROVE TypeOK'
    BY <1>16 DEF DeleteClusterRole, TypeOK
  <1>17. CASE CreateInfo BY <1>17 DEF CreateInfo, InfoReturns, TypeOK
  <1>18. CASE DeleteClusterInfo BY <1>18 DEF DeleteClusterInfo, TypeOK
  <1>19. CASE Restart
    <2>1. <<>> \in Seq(Cluster) OBVIOUS
    <2>2. QED BY <1>11, <1>19, <2>1 DEF Restart, TypeOK
  <1>20. CASE UNCHANGED vars BY <1>20 DEF vars, TypeOK
  <1>21. QED BY <1>1, <1>2, <1>3, <1>4, <1>5, <1>6, <1>7, <1>8, <1>9, <1>10, <1>12, <1>13, <1>14, <1>15,
                <1>16, <1>17, <1>18, <1>19, <1>20 DEF Next, Others, RoleWorker, InfoWorker

LEMMA NextLifeInv == TypeOK /\ LifeInv /\ [Next]_vars => LifeInv'
  BY UserCommits, RoleCommits, InfoCommits, DeliverClusterOK, StartInfoOK, StartRoleOK, RestLifeInv
     DEF Next, Others, RoleWorker, InfoWorker

(***************************************************************************)
(* Every variable of the two controllers has its type; no cluster is dying *)
(* without a finalizer, or gone with one.                                  *)
(***************************************************************************)
THEOREM TypeCorrect == Spec => []TypeOK
  <1>1. TypeOK /\ LifeInv /\ [Next]_vars => (TypeOK /\ LifeInv)' BY NextTypeOK, NextLifeInv
  <1>2. QED BY InitLifeInv, <1>1, PTL DEF Spec

(***************************************************************************)
(* A cluster that is gone has left no ManagedClusterInfo, although the     *)
(* controller decides on a copy that may be one of an earlier cluster of   *)
(* that name, and writes its finalizer unconditionally.                    *)
(***************************************************************************)
THEOREM InfoGoesWithClusterHolds == Spec => []InfoGoesWithCluster
  <1>1. TypeOK /\ LifeInv /\ [Next]_vars => (TypeOK /\ LifeInv)' BY NextTypeOK, NextLifeInv
  <1>2. LifeInv => InfoGoesWithCluster
    BY DEF LifeInv, InfoInv, InfoGoesWithCluster, Absent, Holds
  <1>3. QED BY InitLifeInv, <1>1, <1>2, PTL DEF Spec
=============================================================================
