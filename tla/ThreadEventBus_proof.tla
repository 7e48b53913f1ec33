-------------------------- MODULE ThreadEventBus_proof --------------------------
(***************************************************************************)
(* Theorems about ThreadEventBus, for any number of publishers, tabs,      *)
(* types of events and places in a queue: the types, the order in which a  *)
(* tab sees the events of one publisher, where every addressed event is    *)
(* accounted for, and how long the slot of a transient event lives.        *)
(*                                                                         *)
(* And about SessionExpiredEmail, a subscriber of the bus, for any         *)
(* recipients and any length of its queue: the types, and that the guard   *)
(* row and the local list of the loop keep a recipient from a second mail. *)
(***************************************************************************)
EXTENDS ThreadEventBus, SessionExpiredEmail, FiniteSetTheorems, SequenceTheorems,
        TLAPS

USE DEF busVars, pubVars, tabVars, lossVars, vars

-----------------------------------------------------------------------------
(* Sequences of events                                                     *)

\* A sequence in which the events of one type and publisher come in order.
Ordered(u) ==
  \A i, j \in DOMAIN u :
    i < j /\ u[i].by = u[j].by /\ u[i].type = u[j].type => u[i].n < u[j].n

Within(u, e) == \E i \in DOMAIN u : u[i] = e

LEMMA AppendOrdered ==
  ASSUME NEW u \in Seq(Event), NEW e \in Event, Ordered(u),
         \A f \in Event : Within(u, f) /\ f.by = e.by => f.n < e.n
  PROVE  Ordered(Append(u, e))
  <1>1. \A i \in DOMAIN u : u[i] \in Event /\ Within(u, u[i])
    BY LenProperties DEF Within
  <1>. QED  BY <1>1, AppendProperties, LenProperties DEF Ordered

LEMMA AppendWithin ==
  ASSUME NEW u \in Seq(Event), NEW e \in Event
  PROVE  \A f : Within(Append(u, e), f) <=> Within(u, f) \/ f = e
  BY AppendProperties, LenProperties DEF Within

\* What is put at the end of a queue comes last in what the tab will see.
LEMMA PutAtEnd ==
  ASSUME NEW r \in Seq(Event), NEW u \in Seq(Event), NEW e \in Event
  PROVE  r \o Append(u, e) = Append(r \o u, e)
  <1> DEFINE a == Append(u, e)
             c == r \o u
  <1>1. /\ a \in Seq(Event) /\ Len(a) = Len(u) + 1 /\ Len(r) \in Nat /\ Len(u) \in Nat
        /\ \A i \in 1..Len(u) : a[i] = u[i]
        /\ a[Len(u) + 1] = e
    BY AppendProperties, LenProperties
  <1>2. /\ c \in Seq(Event) /\ Len(c) = Len(r) + Len(u)
        /\ \A i \in 1..Len(r) + Len(u) : c[i] = IF i <= Len(r) THEN r[i] ELSE u[i - Len(r)]
    BY ConcatProperties
  <1>3. /\ r \o a \in Seq(Event) /\ Len(r \o a) = Len(r) + Len(a)
        /\ \A i \in 1..Len(r) + Len(a) :
             (r \o a)[i] = IF i <= Len(r) THEN r[i] ELSE a[i - Len(r)]
    BY <1>1, ConcatProperties
  <1>4. /\ Append(c, e) \in Seq(Event) /\ Len(Append(c, e)) = Len(c) + 1
        /\ \A i \in 1..Len(c) : Append(c, e)[i] = c[i]
        /\ Append(c, e)[Len(c) + 1] = e
    BY <1>2, AppendProperties
  <1> HIDE DEF a, c
  <1>5. ASSUME NEW i \in 1..Len(r \o a) PROVE (r \o a)[i] = Append(c, e)[i]
    <2>1. CASE i = Len(c) + 1
      BY <2>1, <1>1, <1>2, <1>3, <1>4
    <2>2. CASE i # Len(c) + 1
      <3>1. /\ i \in 1..Len(c) /\ Append(c, e)[i] = c[i]
            /\ i <= Len(r) \/ i - Len(r) \in 1..Len(u)
        BY <2>2, <1>1, <1>2, <1>3, <1>4
      <3>. QED  BY <3>1, <1>1, <1>2, <1>3
    <2>. QED  BY <2>1, <2>2
  <1>6. r \o a = Append(c, e)
    BY <1>1, <1>2, <1>3, <1>4, <1>5, SeqEqual
  <1>. QED  BY <1>6 DEF a, c

\* Taking the oldest event out of the queue changes nothing of it.
LEMMA TakeKeeps ==
  ASSUME NEW r \in Seq(Event), NEW u \in Seq(Event), u # <<>>
  PROVE  Append(r, Head(u)) \o Tail(u) = r \o u
  <1>1. /\ Head(u) \in Event /\ Head(u) = u[1] /\ Tail(u) \in Seq(Event)
        /\ Len(Tail(u)) = Len(u) - 1 /\ Len(u) \in Nat \ {0}
        /\ \A i \in 1..Len(Tail(u)) : Tail(u)[i] = u[i + 1]
    BY HeadTailProperties, EmptySeq, LenProperties
  <1>2. /\ Append(r, Head(u)) \in Seq(Event) /\ Len(Append(r, Head(u))) = Len(r) + 1
        /\ \A i \in 1..Len(r) : Append(r, Head(u))[i] = r[i]
        /\ Append(r, Head(u))[Len(r) + 1] = u[1] /\ Len(r) \in Nat
    BY <1>1, AppendProperties, LenProperties
  <1>3. /\ Append(r, Head(u)) \o Tail(u) \in Seq(Event) /\ r \o u \in Seq(Event)
        /\ Len(Append(r, Head(u)) \o Tail(u)) = Len(r) + Len(u)
        /\ Len(r \o u) = Len(r) + Len(u)
    BY <1>1, <1>2, ConcatProperties
  <1>4. \A i \in 1..Len(r) + Len(u) : (Append(r, Head(u)) \o Tail(u))[i] = (r \o u)[i]
    <2>1. \A i \in 1..Len(r) + Len(u) :
            (r \o u)[i] = IF i <= Len(r) THEN r[i] ELSE u[i - Len(r)]
      BY <1>1, ConcatProperties
    <2>2. \A i \in 1..Len(r) + Len(u) :
            (Append(r, Head(u)) \o Tail(u))[i] =
              IF i <= Len(r) + 1 THEN Append(r, Head(u))[i] ELSE Tail(u)[i - (Len(r) + 1)]
      <3>1. \A i \in 1..Len(Append(r, Head(u))) + Len(Tail(u)) :
              (Append(r, Head(u)) \o Tail(u))[i] =
                IF i <= Len(Append(r, Head(u))) THEN Append(r, Head(u))[i]
                ELSE Tail(u)[i - Len(Append(r, Head(u)))]
        BY <1>1, <1>2, ConcatProperties
      <3>. QED  BY <3>1, <1>1, <1>2
    <2>. QED  BY <2>1, <2>2, <1>1, <1>2
  <1>. QED  BY <1>3, <1>4, SeqEqual

\* Dropping it keeps the order of the rest, and loses only itself.
LEMMA DropKeeps ==
  ASSUME NEW r \in Seq(Event), NEW u \in Seq(Event), u # <<>>
  PROVE  /\ Ordered(r \o u) => Ordered(r \o Tail(u))
         /\ \A f : Within(r \o Tail(u), f) => Within(r \o u, f)
         /\ \A f : Within(r \o u, f) => Within(r \o Tail(u), f) \/ f = Head(u)
  <1>1. /\ Head(u) = u[1] /\ Tail(u) \in Seq(Event)
        /\ Len(Tail(u)) = Len(u) - 1 /\ Len(u) \in Nat \ {0} /\ Len(r) \in Nat
        /\ \A i \in 1..Len(Tail(u)) : Tail(u)[i] = u[i + 1]
    BY HeadTailProperties, EmptySeq, LenProperties
  <1> DEFINE a == r \o u
             b == r \o Tail(u)
             From(i) == IF i <= Len(r) THEN i ELSE i + 1
  <1>2. /\ DOMAIN a = 1..Len(r) + Len(u)
        /\ \A i \in DOMAIN a : a[i] = IF i <= Len(r) THEN r[i] ELSE u[i - Len(r)]
    BY <1>1, ConcatProperties, LenProperties
  <1>3. /\ DOMAIN b = 1..Len(r) + Len(u) - 1
        /\ \A i \in DOMAIN b : b[i] = IF i <= Len(r) THEN r[i] ELSE Tail(u)[i - Len(r)]
    <2>1. /\ b \in Seq(Event) /\ Len(b) = Len(r) + Len(Tail(u))
          /\ \A i \in 1..Len(r) + Len(Tail(u)) : b[i] =
               IF i <= Len(r) THEN r[i] ELSE Tail(u)[i - Len(r)]
      BY <1>1, ConcatProperties
    <2>. QED  BY <2>1, <1>1, LenProperties
  <1>4. ASSUME NEW i \in DOMAIN b PROVE From(i) \in DOMAIN a /\ b[i] = a[From(i)]
    <2>1. i \in 1..Len(r) + Len(u) - 1 /\ From(i) \in 1..Len(r) + Len(u)
      BY <1>1, <1>3
    <2>2. CASE i <= Len(r)
      BY <1>2, <1>3, <2>1, <2>2
    <2>3. CASE ~(i <= Len(r))
      <3>1. i - Len(r) \in 1..Len(Tail(u)) /\ From(i) - Len(r) = i - Len(r) + 1
        BY <1>1, <2>1, <2>3
      <3>2. Tail(u)[i - Len(r)] = u[From(i) - Len(r)]
        BY <1>1, <3>1
      <3>. QED  BY <1>1, <1>2, <1>3, <2>1, <2>3, <3>2
    <2>. QED  BY <2>2, <2>3
  <1>5. \A i, j \in DOMAIN b : i < j => From(i) < From(j)
    BY <1>1, <1>3
  <1>6. Ordered(a) => Ordered(b)
    BY <1>4, <1>5 DEF Ordered
  <1>7. \A f : Within(b, f) => Within(a, f)
    BY <1>4 DEF Within
  <1>8. ASSUME NEW f, NEW k \in DOMAIN a, a[k] = f, f # Head(u)
        PROVE  Within(b, f)
    <2>1. CASE k <= Len(r)
      <3>1. k \in DOMAIN b /\ b[k] = a[k]
        BY <2>1, <1>1, <1>2, <1>3
      <3>. QED  BY <3>1, <1>8 DEF Within
    <2>2. CASE k > Len(r)
      <3>1. k # Len(r) + 1
        BY <2>2, <1>8, <1>1, <1>2
      <3>2. k - 1 \in DOMAIN b /\ b[k - 1] = a[k]
        BY <2>2, <3>1, <1>1, <1>2, <1>3
      <3>. QED  BY <3>2, <1>8 DEF Within
    <2>. QED  BY <2>1, <2>2, <1>1, <1>2
  <1>. QED  BY <1>6, <1>7, <1>8 DEF Within

-----------------------------------------------------------------------------
(* The inductive invariant                                                 *)

\* TypeOK, with the functions it leaves open.
TypeInv ==
  /\ subscribers \subseteq Tab
  /\ alive \in [Tab -> BOOLEAN]
  /\ q \in [Tab -> Seq(Event)] /\ \A s \in Tab : Len(q[s]) <= QueueSize
  /\ last_normal \in [NormalType -> EventOrNone]
  /\ expired \subseteq NormalType
  /\ last_critical \in [CriticalType -> EventOrNone]
  /\ pc \in [Publisher -> {"idle", "slot", "next", "put", "drop", "retry", "evict"}]
  /\ published \in [Publisher -> 0..MaxPublished]
  /\ event \in [Publisher -> EventOrNone]
  /\ snapshot \in [Publisher -> SUBSET Tab]
  /\ target \in [Publisher -> Tab \cup {None}]
  /\ slow \in [Publisher -> SUBSET Tab]
  /\ stream \in [Tab -> {"new", "waiting", "draining", "closed"}]
  /\ received \in [Tab -> Seq(Event)]
  /\ dropped \in [Tab -> SUBSET [out : Event, by : Event]]
  /\ missed \in [Tab -> SUBSET Event]
  /\ addressed \in [Tab -> SUBSET Event]

\* What a publication has in hand while it stands at each of its places.
PubInv ==
  \A p \in Publisher :
    /\ pc[p] # "idle" => event[p] \in Event /\ event[p].by = p /\ event[p].n = published[p]
    /\ pc[p] \in {"put", "drop", "retry"} => target[p] \in Tab \ snapshot[p]
    /\ pc[p] \in {"drop", "retry", "evict"} => event[p].type \in NormalType
    /\ pc[p] \in {"idle", "evict"} => snapshot[p] = {} /\ slow[p] = {}

\* A tab that has not come yet has nothing and is addressed by no one.
NewInv ==
  \A s \in Tab : stream[s] = "new" =>
    s \notin subscribers /\ Seen(s) = <<>> /\ addressed[s] = {}

\* A publication still has to put its event into the tab's queue.
Awaits(p, s) == s \in snapshot[p] \/ (pc[p] \in {"put", "drop", "retry"} /\ target[p] = s)

\* It has not taken anything out of that queue yet.
Spares(p, s) == s \in snapshot[p] \/ (pc[p] \in {"put", "drop"} /\ target[p] = s)

\* Nothing is newer than what its publisher published last.
Known(e) == e.n <= published[e.by] /\ (e.n = published[e.by] => event[e.by] = e)

\* A slot holds an event of its type.
SlotInv == \A t \in NormalType : last_normal[t] # None =>
             last_normal[t] \in Event /\ last_normal[t].type = t /\ Known(last_normal[t])

SeenInv == \A s \in Tab, e \in Event : Within(Seen(s), e) => Known(e)

\* The snapshot is taken before the slot is stored, so that a tab which the
\* publication will visit cannot have had the event replayed.
UnseenInv == \A p \in Publisher, s \in Tab :
               pc[p] # "idle" /\ Awaits(p, s) =>
                 stream[s] # "new" /\ event[p] \in addressed[s] /\ ~Within(Seen(s), event[p])

OrderInv == \A s \in Tab : Ordered(Seen(s))

\* What the drops are charged to: normal events meant for the tab, each with
\* one drop at most and none before it has met the full queue.
DropInv ==
  \A s \in Tab :
    /\ \A e \in addressed[s] : Known(e)
    /\ \A d \in dropped[s] : d.by \in addressed[s] /\ d.by.type \in NormalType /\ d.by # d.out
    /\ \A c, d \in dropped[s] : c.by = d.by => c = d
    /\ \A p \in Publisher, d \in dropped[s] :
         pc[p] # "idle" /\ Spares(p, s) => d.by # event[p]

Lost(s, e) == \E d \in dropped[s] : d.out = e

Accounted(s, e) ==
  \/ ~alive[s] \/ Lost(s, e)
  \/ e.type \in NormalType /\ e \in missed[s]
  \/ Within(Seen(s), e)

Underway(s, e) ==
  /\ pc[e.by] # "idle" /\ event[e.by] = e
  /\ Awaits(e.by, s) \/ s \in slow[e.by]

AddressInv == \A s \in Tab : \A e \in addressed[s] : Accounted(s, e) \/ Underway(s, e)

IInv == /\ TypeInv /\ PubInv /\ NewInv /\ SlotInv
        /\ SeenInv /\ UnseenInv /\ OrderInv
        /\ DropInv /\ AddressInv /\ TransientSlotIsShortLived

-----------------------------------------------------------------------------
(* Types                                                                   *)

\* What a new tab finds in its queue.
IsReplay(u) ==
  \E order \in SetToSeqs({last_normal[t] : t \in Replayed}) :
    u = SubSeq(order, 1, IF Len(order) < QueueSize THEN Len(order) ELSE QueueSize)

LEMMA SubscribeReplays ==
  ASSUME NEW s, Subscribe(s)
  PROVE  \E u : IsReplay(u) /\ q' = [q EXCEPT ![s] = u]
  BY Zenon DEF Subscribe, IsReplay

\* These are events out of slots, each once.
LEMMA ReplayTyped ==
  ASSUME TypeInv, SlotInv, NEW u, IsReplay(u)
  PROVE  /\ u \in Seq(Event) /\ Len(u) <= QueueSize
         /\ \A i \in DOMAIN u : \E t \in NormalType : last_normal[t] # None /\ u[i] = last_normal[t]
         /\ \A i, j \in DOMAIN u : i # j => u[i] # u[j]
  <1> DEFINE S == {last_normal[t] : t \in Replayed}
  <1>0. PICK order :
          /\ order \in SetToSeqs(S)
          /\ u = SubSeq(order, 1, IF Len(order) < QueueSize THEN Len(order) ELSE QueueSize)
    BY Zenon DEF IsReplay
  <1>1. Replayed \subseteq NormalType /\ \A t \in Replayed : last_normal[t] # None
    BY DEF Replayed
  <1>2. S \subseteq Event
    BY <1>1 DEF SlotInv
  <1>3. Cardinality(S) \in Nat
    <2>1. IsFiniteSet(Replayed)
      BY <1>1, TypesAssumption, FS_Subset
    <2>2. IsFiniteSet(S)
      <3>1. [t \in Replayed |-> last_normal[t]] \in Surjection(Replayed, S)
        BY DEF Surjection
      <3>. QED  BY <3>1, <2>1, FS_Surjection
    <2>. QED  BY <2>2, FS_CardinalityType
  <1>4. /\ order \in [1..Cardinality(S) -> S]
        /\ \A i, j \in 1..Cardinality(S) : i # j => order[i] # order[j]
    <2> HIDE DEF S
    <2>. QED  BY <1>0, Zenon DEF SetToSeqs
  <1>5. order \in Seq(S) /\ Len(order) = Cardinality(S)
    <2> HIDE DEF S
    <2>. QED  BY <1>3, <1>4
  <1> DEFINE k == IF Len(order) < QueueSize THEN Len(order) ELSE QueueSize
  <1>6. k \in Nat /\ k <= Len(order) /\ k <= QueueSize
    BY <1>3, <1>5, SizeAssumption
  <1>7. /\ u \in Seq(S) /\ Len(u) = k /\ \A i \in 1..k : u[i] = order[i]
    <2>1. \A i \in 1..k : order[i] \in S
      BY <1>3, <1>4, <1>5, <1>6
    <2>2. /\ SubSeq(order, 1, k) \in Seq(S)
          /\ Len(SubSeq(order, 1, k)) = IF 1 <= k THEN k - 1 + 1 ELSE 0
          /\ \A i \in 1..k - 1 + 1 : SubSeq(order, 1, k)[i] = order[1 + i - 1]
      BY <2>1, <1>6, SubSeqProperties
    <2>. QED  BY <1>0, <2>2, <1>6
  <1>8. DOMAIN u = 1..k
    BY <1>7, LenProperties
  <1>9. u \in Seq(Event)
    BY <1>2, <1>7, SeqMonotonic
  <1> HIDE DEF k, S
  <1>10. \A i \in DOMAIN u : i \in 1..Cardinality(S) /\ u[i] = order[i] /\ u[i] \in S
    BY <1>3, <1>4, <1>5, <1>6, <1>7, <1>8
  <1>11. ASSUME NEW i \in DOMAIN u, NEW j \in DOMAIN u, i # j PROVE u[i] # u[j]
    <2>1. i \in 1..Cardinality(S) /\ j \in 1..Cardinality(S) /\ u[i] = order[i] /\ u[j] = order[j]
      BY <1>10, Zenon
    <2>2. order[i] # order[j]
      BY <2>1, <1>4, <1>11, Zenon
    <2>. QED  BY <2>1, <2>2, Zenon
  <1>12. \A i \in DOMAIN u : \E t \in NormalType : last_normal[t] # None /\ u[i] = last_normal[t]
    BY <1>1, <1>10 DEF S
  <1>. QED  BY <1>6, <1>7, <1>9, <1>11, <1>12

LEMMA InitInv == Init => IInv
  <1> SUFFICES ASSUME Init PROVE IInv
    OBVIOUS
  <1>1. TypeInv
    BY SizeAssumption DEF Init, TypeInv, EventOrNone
  <1>2. PubInv /\ SlotInv /\ AddressInv /\ DropInv
    BY DEF Init, PubInv, SlotInv, AddressInv, DropInv
  <1>3. /\ \A s \in Tab : Seen(s) = <<>>
        /\ NewInv
    BY DEF Init, Seen, NewInv
  <1>4. SeenInv /\ UnseenInv /\ OrderInv
    BY <1>3 DEF Init, SeenInv, UnseenInv, OrderInv, Within, Ordered
  <1>5. TransientSlotIsShortLived
    BY TypesAssumption DEF Init, TransientSlotIsShortLived
  <1>. QED  BY <1>1, <1>2, <1>3, <1>4, <1>5 DEF IInv

LEMMA TypeStep == TypeInv /\ PubInv /\ SlotInv /\ [Next]_vars => TypeInv'
  <1> SUFFICES ASSUME TypeInv, PubInv, SlotInv, [Next]_vars PROVE TypeInv'
    OBVIOUS
  <1>1. ASSUME NEW p \in Publisher, NEW type \in NormalType \cup CriticalType, Publish(p, type)
        PROVE  TypeInv'
    <2>1. published'[p] \in 1..MaxPublished /\ published' \in [Publisher -> 0..MaxPublished]
      BY <1>1, SizeAssumption DEF TypeInv, Publish
    <2>2. event'[p] \in Event /\ event' \in [Publisher -> EventOrNone]
      BY <1>1, <2>1 DEF TypeInv, Publish, Event, EventOrNone
    <2>. QED  BY <1>1, <2>1, <2>2 DEF TypeInv, Publish, Goto
  <1>2. ASSUME NEW p \in Publisher, StoreSlot(p) PROVE TypeInv'
    <2>1. event[p] \in Event /\ event[p].type \in NormalType \cup CriticalType
      BY <1>2 DEF StoreSlot, PubInv, Event
    <2>2. last_normal' \in [NormalType -> EventOrNone] /\ expired' \subseteq NormalType
      BY <1>2, <2>1 DEF TypeInv, StoreSlot, IsCritical, EventOrNone
    <2>3. last_critical' \in [CriticalType -> EventOrNone]
      BY <1>2, <2>1 DEF TypeInv, StoreSlot, IsCritical, EventOrNone
    <2>. QED  BY <1>2, <2>2, <2>3 DEF TypeInv, StoreSlot, Goto
  <1>3. ASSUME NEW p \in Publisher, NextSubscriber(p) PROVE TypeInv'
    <2>1. PICK s \in snapshot[p] :
            /\ snapshot' = [snapshot EXCEPT ![p] = @ \ {s}]
            /\ \/ target' = [target EXCEPT ![p] = s] /\ pc' = [pc EXCEPT ![p] = "put"]
               \/ target' = target /\ pc' = pc
      BY <1>3, Zenon DEF NextSubscriber, Goto
    <2>2. s \in Tab /\ snapshot' \in [Publisher -> SUBSET Tab]
      BY <2>1 DEF TypeInv
    <2>3. pc' \in [Publisher -> {"idle", "slot", "next", "put", "drop", "retry", "evict"}]
      BY <2>1 DEF TypeInv
    <2>4. target' \in [Publisher -> Tab \cup {None}]
      BY <2>1, <2>2 DEF TypeInv
    <2>. QED  BY <1>3, <2>2, <2>3, <2>4 DEF TypeInv, NextSubscriber
  <1>4. ASSUME NEW p \in Publisher, PutNowait(target[p], event[p]), pc[p] \in {"put", "retry"},
               ~Full(target[p])
        PROVE  q' \in [Tab -> Seq(Event)] /\ \A s \in Tab : Len(q'[s]) <= QueueSize
    <2>1. event[p] \in Event /\ target[p] \in Tab
      BY <1>4 DEF PubInv
    <2>2. q[target[p]] \in Seq(Event) /\ Len(q[target[p]]) < QueueSize
      BY <1>4, <2>1, LenProperties, SizeAssumption DEF TypeInv, Full
    <2>3. Append(q[target[p]], event[p]) \in Seq(Event)
          /\ Len(Append(q[target[p]], event[p])) <= QueueSize
      BY <2>1, <2>2, AppendProperties, LenProperties, SizeAssumption
    <2>. QED  BY <1>4, <2>1, <2>3 DEF TypeInv, PutNowait
  <1>5. ASSUME NEW p \in Publisher, Put(p) PROVE TypeInv'
    BY <1>5, <1>4 DEF TypeInv, Put, Goto
  <1>6. ASSUME NEW s \in Tab, q[s] # <<>>
        PROVE  /\ Head(q[s]) \in Event
               /\ [q EXCEPT ![s] = Tail(@)] \in [Tab -> Seq(Event)]
               /\ \A t \in Tab : Len([q EXCEPT ![s] = Tail(@)][t]) <= QueueSize
    <2>1. /\ Head(q[s]) \in Event /\ Tail(q[s]) \in Seq(Event)
          /\ Len(Tail(q[s])) = Len(q[s]) - 1 /\ Len(q[s]) \in Nat /\ Len(q[s]) <= QueueSize
      BY <1>6, HeadTailProperties, LenProperties DEF TypeInv
    <2>. QED  BY <2>1, SizeAssumption DEF TypeInv
  <1>7. ASSUME NEW p \in Publisher, FindFull(p) \/ DropOldest(p) PROVE TypeInv'
    <2>1. CASE FindFull(p)
      BY <2>1 DEF TypeInv, FindFull, Goto
    <2>2. CASE DropOldest(p)
      <3>1. /\ target[p] \in Tab /\ event[p] \in Event /\ pc' = [pc EXCEPT ![p] = "retry"]
            /\ UNCHANGED <<busVars, published, event, snapshot, target, slow, tabVars,
                           missed, addressed>>
        BY <2>2 DEF DropOldest, PubInv, Goto
      <3>2. \/ UNCHANGED <<q, dropped>>
            \/ /\ q[target[p]] # <<>>
               /\ q' = [q EXCEPT ![target[p]] = Tail(@)]
               /\ dropped' = [dropped EXCEPT ![target[p]] = @ \cup
                                {[out |-> Head(q[target[p]]), by |-> event[p]]}]
        BY <2>2, Zenon DEF DropOldest
      <3>3. q' \in [Tab -> Seq(Event)] /\ \A s \in Tab : Len(q'[s]) <= QueueSize
        <4>1. CASE q' = q
          BY <4>1 DEF TypeInv
        <4>2. CASE q[target[p]] # <<>> /\ q' = [q EXCEPT ![target[p]] = Tail(@)]
          BY <3>1, <4>2, <1>6
        <4>. QED  BY <3>2, <4>1, <4>2
      <3>4. dropped' \in [Tab -> SUBSET [out : Event, by : Event]]
        <4>0. dropped \in [Tab -> SUBSET [out : Event, by : Event]]
          BY DEF TypeInv
        <4>1. ASSUME q[target[p]] # <<>>
              PROVE  dropped[target[p]] \cup {[out |-> Head(q[target[p]]), by |-> event[p]]}
                       \in SUBSET [out : Event, by : Event]
          <5>1. Head(q[target[p]]) \in Event
            BY <3>1, <4>1, <1>6
          <5>. QED  BY <3>1, <4>0, <5>1
        <4>. QED  BY <3>1, <3>2, <4>0, <4>1
      <3>. QED  BY <3>1, <3>3, <3>4 DEF TypeInv
    <2>. QED  BY <1>7, <2>1, <2>2
  <1>8. ASSUME NEW p \in Publisher, RetryPut(p) PROVE TypeInv'
    <2>0. event[p] \in Event /\ target[p] \in Tab
      BY <1>8 DEF PubInv, RetryPut
    <2>1. missed' \in [Tab -> SUBSET Event]
      <3>1. \/ missed' = missed
            \/ missed' = [missed EXCEPT ![target[p]] = missed[target[p]] \cup {event[p]}]
        BY <1>8, Zenon DEF RetryPut
      <3>2. missed \in [Tab -> SUBSET Event]
        BY DEF TypeInv
      <3>3. missed[target[p]] \cup {event[p]} \in SUBSET Event
        BY <3>2, <2>0
      <3>. QED  BY <3>1, <3>2, <3>3
    <2>2. q' \in [Tab -> Seq(Event)] /\ \A s \in Tab : Len(q'[s]) <= QueueSize
      BY <1>8, <1>4 DEF TypeInv, RetryPut
    <2>3. /\ pc' = [pc EXCEPT ![p] = "next"]
          /\ UNCHANGED <<busVars, published, event, snapshot, target, slow, tabVars,
                         dropped, addressed>>
      BY <1>8, Zenon DEF RetryPut, Goto
    <2>. QED  BY <2>1, <2>2, <2>3 DEF TypeInv
  <1>9. ASSUME NEW p \in Publisher, PutTimesOut(p) PROVE TypeInv'
    <2>1. target[p] \in Tab
      BY <1>9 DEF PutTimesOut, PubInv
    <2>. QED  BY <1>9, <2>1 DEF TypeInv, PutTimesOut, Goto
  <1>10. ASSUME NEW p \in Publisher, ForceRemove(p) PROVE TypeInv'
    BY <1>10 DEF TypeInv, ForceRemove
  <1>11. ASSUME NEW p \in Publisher, PublishReturns(p) PROVE TypeInv'
    BY <1>11 DEF TypeInv, PublishReturns, Goto
  <1>12. ASSUME NEW p \in Publisher, EvictNormalReplay(p) PROVE TypeInv'
    BY <1>12 DEF TypeInv, EvictNormalReplay, Goto, EventOrNone
  <1>13. ASSUME NEW s \in Tab, Subscribe(s) PROVE TypeInv'
    <2>1. PICK u : IsReplay(u) /\ q' = [q EXCEPT ![s] = u]
      BY <1>13, SubscribeReplays, Zenon
    <2>2. q' \in [Tab -> Seq(Event)] /\ \A t \in Tab : Len(q'[t]) <= QueueSize
      BY <2>1, ReplayTyped DEF TypeInv
    <2>3. last_normal' \in [NormalType -> EventOrNone]
      BY <1>13 DEF TypeInv, Subscribe, EventOrNone
    <2>. QED  BY <1>13, <2>2, <2>3 DEF TypeInv, Subscribe
  <1>14. ASSUME NEW s \in Tab, Take(s)
         PROVE  /\ q' \in [Tab -> Seq(Event)] /\ \A t \in Tab : Len(q'[t]) <= QueueSize
                /\ received' \in [Tab -> Seq(Event)]
    <2>1. Append(received[s], Head(q[s])) \in Seq(Event)
      BY <1>14, <1>6, AppendProperties DEF Take, TypeInv
    <2>. QED  BY <1>14, <1>6, <2>1 DEF Take, TypeInv
  <1>15. ASSUME NEW s \in Tab, WaitOne(s) PROVE TypeInv'
    BY <1>15, <1>14 DEF TypeInv, WaitOne
  <1>16. ASSUME NEW s \in Tab, Drain(s) PROVE TypeInv'
    BY <1>16, <1>14 DEF TypeInv, Drain
  <1>17. ASSUME NEW s \in Tab, Unsubscribe(s) PROVE TypeInv'
    BY <1>17 DEF TypeInv, Unsubscribe
  <1>18. ASSUME NEW t \in NormalType, SlotExpires(t) PROVE TypeInv'
    BY <1>18 DEF TypeInv, SlotExpires
  <1>19. CASE UNCHANGED vars
    BY <1>19 DEF TypeInv
  <1>. QED  BY <1>1, <1>2, <1>3, <1>5, <1>7, <1>8, <1>9, <1>10, <1>11, <1>12, <1>13,
               <1>15, <1>16, <1>17, <1>18, <1>19 DEF Next, PublisherStep, StreamStep

-----------------------------------------------------------------------------
(* What the steps do, without the IFs of their definitions                 *)

LEMMA RetryPutDoes ==
  ASSUME NEW p, RetryPut(p)
  PROVE  /\ pc[p] = "retry" /\ pc' = [pc EXCEPT ![p] = "next"]
         /\ \/ /\ missed' = [missed EXCEPT ![target[p]] = missed[target[p]] \cup {event[p]}]
               /\ q' = q
            \/ /\ missed' = missed /\ ~Full(target[p])
               /\ PutNowait(target[p], event[p])
         /\ UNCHANGED <<busVars, published, event, snapshot, target, slow, tabVars,
                        dropped, addressed>>
  BY Zenon DEF RetryPut, Goto

LEMMA DropOldestDoes ==
  ASSUME NEW p, DropOldest(p)
  PROVE  /\ pc[p] = "drop" /\ pc' = [pc EXCEPT ![p] = "retry"]
         /\ \/ q[target[p]] = <<>> /\ UNCHANGED <<q, dropped>>
            \/ /\ q[target[p]] # <<>>
               /\ q' = [q EXCEPT ![target[p]] = Tail(q[target[p]])]
               /\ dropped' = [dropped EXCEPT ![target[p]] = dropped[target[p]] \cup
                                {[out |-> Head(q[target[p]]), by |-> event[p]]}]
         /\ UNCHANGED <<busVars, published, event, snapshot, target, slow, tabVars,
                        missed, addressed>>
  BY Zenon DEF DropOldest, Goto

LEMMA NextSubscriberDoes ==
  ASSUME NEW p, NextSubscriber(p)
  PROVE  /\ pc[p] = "next"
         /\ \E s \in snapshot[p] :
              /\ snapshot' = [snapshot EXCEPT ![p] = snapshot[p] \ {s}]
              /\ \/ /\ alive[s] /\ target' = [target EXCEPT ![p] = s]
                    /\ pc' = [pc EXCEPT ![p] = "put"]
                 \/ /\ ~alive[s] /\ target' = target /\ pc' = pc
         /\ UNCHANGED <<busVars, q, published, event, slow, tabVars, lossVars, addressed>>
  BY Zenon DEF NextSubscriber, Goto

LEMMA StoreSlotDoes ==
  ASSUME NEW p, StoreSlot(p)
  PROVE  /\ pc[p] = "slot" /\ pc' = [pc EXCEPT ![p] = "next"]
         /\ \/ /\ event[p].type \in CriticalType /\ last_normal' = last_normal
            \/ /\ event[p].type \notin CriticalType
               /\ last_normal' = [last_normal EXCEPT ![event[p].type] = event[p]]
         /\ UNCHANGED <<subscribers, alive, q, published, event, snapshot, target,
                        slow, tabVars, lossVars, addressed>>
  BY Zenon DEF StoreSlot, Goto, IsCritical

\* The publication that a step belongs to.
LEMMA PublishDoes ==
  ASSUME NEW p \in Publisher, NEW type \in NormalType \cup CriticalType,
         TypeInv, Publish(p, type)
  PROVE  /\ pc[p] = "idle" /\ pc' = [pc EXCEPT ![p] = "slot"]
         /\ published' = [published EXCEPT ![p] = published[p] + 1]
         /\ event'[p] \in Event /\ event'[p].by = p /\ event'[p].n = published[p] + 1
         /\ \A r \in Publisher \ {p} : event'[r] = event[r]
         /\ snapshot' = [snapshot EXCEPT ![p] = subscribers]
         /\ \A s \in Tab : addressed'[s] = IF s \in subscribers THEN addressed[s] \cup {event'[p]}
                                           ELSE addressed[s]
         /\ UNCHANGED <<busVars, q, target, slow, tabVars, lossVars>>
  <1>1. published'[p] = published[p] + 1 /\ published'[p] \in 1..MaxPublished
    BY SizeAssumption DEF TypeInv, Publish
  <1>2. event'[p] = [by |-> p, n |-> published'[p], type |-> type]
    BY DEF TypeInv, Publish
  <1>3. event'[p] \in Event /\ event'[p].by = p /\ event'[p].n = published[p] + 1
    BY <1>1, <1>2 DEF Event
  <1>4. \A r \in Publisher \ {p} : event'[r] = event[r]
    BY DEF TypeInv, Publish
  <1>. QED  BY <1>3, <1>4 DEF Publish, Goto

LEMMA PubStep == TypeInv /\ PubInv /\ [Next]_vars => PubInv'
  <1> SUFFICES ASSUME TypeInv, PubInv, [Next]_vars PROVE PubInv'
    OBVIOUS
  <1>1. ASSUME NEW p \in Publisher, NEW type \in NormalType \cup CriticalType, Publish(p, type)
        PROVE  PubInv'
    <2>1. /\ pc[p] = "idle" /\ pc' = [pc EXCEPT ![p] = "slot"]
          /\ published' = [published EXCEPT ![p] = published[p] + 1]
          /\ event'[p] \in Event /\ event'[p].by = p /\ event'[p].n = published[p] + 1
          /\ \A r \in Publisher \ {p} : event'[r] = event[r]
          /\ snapshot' = [snapshot EXCEPT ![p] = subscribers]
          /\ UNCHANGED <<target, slow>>
      BY <1>1, PublishDoes
    <2>2. ASSUME NEW r \in Publisher \ {p}
          PROVE  /\ pc'[r] = pc[r] /\ published'[r] = published[r] /\ event'[r] = event[r]
                 /\ snapshot'[r] = snapshot[r]
      BY <2>1 DEF TypeInv
    <2>3. pc'[p] = "slot" /\ published'[p] = published[p] + 1
      BY <2>1 DEF TypeInv
    <2>. QED  BY <2>1, <2>2, <2>3 DEF PubInv
  <1>2. ASSUME NEW p \in Publisher, StoreSlot(p) PROVE PubInv'
    <2>1. /\ pc' = [pc EXCEPT ![p] = "next"] /\ pc[p] = "slot"
          /\ UNCHANGED <<published, event, snapshot, target, slow>>
      BY <1>2, StoreSlotDoes, Zenon
    <2>. QED  BY <2>1 DEF PubInv, TypeInv
  <1>3. ASSUME NEW p \in Publisher, NextSubscriber(p) PROVE PubInv'
    <2>1. PICK s \in snapshot[p] :
            /\ snapshot' = [snapshot EXCEPT ![p] = snapshot[p] \ {s}]
            /\ \/ target' = [target EXCEPT ![p] = s] /\ pc' = [pc EXCEPT ![p] = "put"]
               \/ target' = target /\ pc' = pc
      BY <1>3, NextSubscriberDoes, Zenon
    <2>2. /\ s \in Tab /\ pc[p] = "next" /\ s \notin snapshot'[p]
          /\ UNCHANGED <<published, event, slow>>
      BY <1>3, <2>1, NextSubscriberDoes DEF TypeInv
    <2>. QED  BY <2>1, <2>2 DEF PubInv, TypeInv
  <1>4. ASSUME NEW p \in Publisher, Put(p) PROVE PubInv'
    BY <1>4 DEF PubInv, TypeInv, Put, Goto
  <1>5. ASSUME NEW p \in Publisher, FindFull(p) \/ DropOldest(p) PROVE PubInv'
    <2>1. CASE FindFull(p)
      <3>1. event[p] \in Event /\ event[p].type \in NormalType
        BY <2>1 DEF FindFull, IsCritical, PubInv, Event
      <3>. QED  BY <2>1, <3>1 DEF PubInv, TypeInv, FindFull, Goto
    <2>2. CASE DropOldest(p)
      <3>1. /\ pc' = [pc EXCEPT ![p] = "retry"] /\ pc[p] = "drop"
            /\ UNCHANGED <<published, event, snapshot, target, slow>>
        BY <2>2, DropOldestDoes, Zenon
      <3>. QED  BY <3>1 DEF PubInv, TypeInv
    <2>. QED  BY <1>5, <2>1, <2>2
  <1>6. ASSUME NEW p \in Publisher, RetryPut(p) PROVE PubInv'
    <2>1. /\ pc' = [pc EXCEPT ![p] = "next"] /\ pc[p] = "retry"
          /\ UNCHANGED <<published, event, snapshot, target, slow>>
      BY <1>6, RetryPutDoes, Zenon DEF pubVars
    <2>. QED  BY <2>1 DEF PubInv, TypeInv
  <1>7. ASSUME NEW p \in Publisher, PutTimesOut(p) PROVE PubInv'
    BY <1>7 DEF PubInv, TypeInv, PutTimesOut, Goto
  <1>8. ASSUME NEW p \in Publisher, ForceRemove(p) PROVE PubInv'
    BY <1>8 DEF PubInv, TypeInv, ForceRemove
  <1>9. ASSUME NEW p \in Publisher, PublishReturns(p) PROVE PubInv'
    BY <1>9, TypesAssumption DEF PubInv, TypeInv, PublishReturns, Goto
  <1>10. ASSUME NEW p \in Publisher, EvictNormalReplay(p) PROVE PubInv'
    BY <1>10 DEF PubInv, TypeInv, EvictNormalReplay, Goto
  <1>11. CASE UNCHANGED pubVars
    BY <1>11 DEF PubInv
  <1>. QED  BY <1>1, <1>2, <1>3, <1>4, <1>5, <1>6, <1>7, <1>8, <1>9, <1>10, <1>11
            DEF Next, PublisherStep, StreamStep, Subscribe, WaitOne, Drain, Unsubscribe,
                SlotExpires

LEMMA KnownStep ==
  ASSUME TypeInv, PubInv, [Next]_vars, NEW e \in Event, Known(e)
  PROVE  Known(e)'
  <1>1. ASSUME NEW p \in Publisher, NEW type \in NormalType \cup CriticalType, Publish(p, type)
        PROVE  Known(e)'
    <2>1. /\ published' = [published EXCEPT ![p] = published[p] + 1]
          /\ \A r \in Publisher \ {p} : event'[r] = event[r]
      BY <1>1, PublishDoes
    <2>2. e.by \in Publisher /\ e.n \in Nat /\ published \in [Publisher -> Nat]
      BY DEF Event, TypeInv
    <2>. QED  BY <2>1, <2>2 DEF Known
  <1>2. CASE UNCHANGED <<published, event>>
    BY <1>2 DEF Known
  <1>. QED  BY <1>1, <1>2 DEF Next, PublisherStep, StreamStep, Subscribe, WaitOne, Drain,
              Unsubscribe, SlotExpires, StoreSlot, NextSubscriber, Put, FindFull, DropOldest, RetryPut,
              PutTimesOut, ForceRemove, PublishReturns, EvictNormalReplay

LEMMA EventKnown ==
  ASSUME PubInv, NEW p \in Publisher, pc[p] # "idle"
  PROVE  event[p] \in Event /\ Known(event[p])
  BY DEF PubInv, Known, Event

LEMMA SlotStep == TypeInv /\ PubInv /\ SlotInv /\ [Next]_vars => SlotInv'
  <1> SUFFICES ASSUME TypeInv, PubInv, SlotInv, [Next]_vars,
                      NEW t \in NormalType, last_normal'[t] # None
               PROVE  last_normal'[t] \in Event /\ last_normal'[t].type = t /\ Known(last_normal[t])'
    BY DEF SlotInv
  <1>1. \/ last_normal'[t] = last_normal[t]
        \/ \E p \in Publisher : pc[p] # "idle" /\ event[p].type = t /\ last_normal'[t] = event[p]
    <2>1. ASSUME NEW p \in Publisher, StoreSlot(p) 
          PROVE  last_normal'[t] = last_normal[t]
                 \/ (pc[p] # "idle" /\ event[p].type = t /\ last_normal'[t] = event[p])
      <3>1. \/ last_normal' = last_normal
            \/ pc[p] = "slot" /\ last_normal' = [last_normal EXCEPT ![event[p].type] = event[p]]
        BY <2>1, StoreSlotDoes, Zenon
      <3>. QED  BY <3>1 DEF TypeInv
    <2>2. ASSUME NEW p \in Publisher, EvictNormalReplay(p) PROVE last_normal'[t] = last_normal[t]
      BY <2>2 DEF EvictNormalReplay, TypeInv
    <2>3. ASSUME NEW s \in Tab, Subscribe(s) PROVE last_normal'[t] = last_normal[t]
      BY <2>3 DEF Subscribe
    <2>4. CASE UNCHANGED last_normal
      BY <2>4
    <2>. QED  BY <2>1, <2>2, <2>3, <2>4, Zenon
              DEF Next, PublisherStep, StreamStep, WaitOne, Drain,
                Unsubscribe, SlotExpires, Publish, NextSubscriber, Put, FindFull, DropOldest, RetryPut,
                PutTimesOut, ForceRemove, PublishReturns
  <1>2. \E e \in Event : last_normal'[t] = e /\ e.type = t /\ Known(e)
    BY <1>1, EventKnown DEF SlotInv
  <1>. QED  BY <1>2, KnownStep

-----------------------------------------------------------------------------
(* What a tab has seen or will see, step by step                           *)

LEMMA SeenTyped ==
  ASSUME TypeInv, NEW s \in Tab
  PROVE  Seen(s) \in Seq(Event) /\ q[s] \in Seq(Event) /\ received[s] \in Seq(Event)
  <1>1. q[s] \in Seq(Event) /\ received[s] \in Seq(Event)
    BY DEF TypeInv
  <1>. QED  BY <1>1, ConcatProperties DEF Seen

LEMMA PutSeen ==
  ASSUME TypeInv, NEW p \in Publisher, event[p] \in Event, target[p] \in Tab,
         PutNowait(target[p], event[p]), received' = received, NEW s \in Tab
  PROVE  Seen(s)' = IF s = target[p] THEN Append(Seen(s), event[p]) ELSE Seen(s)
  <1>1. CASE s = target[p]
    <2>1. q'[s] = Append(q[s], event[p])
      BY <1>1 DEF PutNowait, TypeInv
    <2>2. /\ q[s] \in Seq(Event) /\ received[s] \in Seq(Event)
      BY SeenTyped
    <2>3. received[s] \o Append(q[s], event[p]) = Append(received[s] \o q[s], event[p])
      BY <2>2, PutAtEnd
    <2>. QED  BY <1>1, <2>1, <2>3 DEF Seen
  <1>2. CASE s # target[p]
    BY <1>2 DEF PutNowait, Seen, TypeInv
  <1>. QED  BY <1>1, <1>2

LEMMA TakeSeen ==
  ASSUME TypeInv, NEW t \in Tab, Take(t), NEW s \in Tab
  PROVE  Seen(s)' = Seen(s)
  <1>1. CASE s = t
    <2>1. q[s] # <<>> /\ received'[s] = Append(received[s], Head(q[s])) /\ q'[s] = Tail(q[s])
      BY <1>1 DEF Take, TypeInv
    <2>. QED  BY <2>1, SeenTyped, TakeKeeps DEF Seen
  <1>2. CASE s # t
    BY <1>2 DEF Take, Seen, TypeInv
  <1>. QED  BY <1>1, <1>2

\* The four things that may happen to it.
Puts(p, s) ==
  /\ pc[p] \in {"put", "retry"} /\ target[p] = s
  /\ Seen(s)' = Append(Seen(s), event[p])
  /\ pc' = [pc EXCEPT ![p] = "next"]
  /\ UNCHANGED <<snapshot, target, event>>

Drops(p, s) ==
  /\ q[s] # <<>>
  /\ Seen(s)' = received[s] \o Tail(q[s])
  /\ pc[p] = "drop" /\ pc' = [pc EXCEPT ![p] = "retry"] /\ target[p] = s
  /\ dropped'[s] = dropped[s] \cup {[out |-> Head(q[s]), by |-> event[p]]}
  /\ UNCHANGED <<published, event, snapshot, target, stream, addressed>>

Replays(s) ==
  /\ stream[s] = "new" /\ stream'[s] # "new"
  /\ Seen(s)' \in Seq(Event)
  /\ \A i \in DOMAIN Seen(s)' : \E t \in NormalType :
       last_normal[t] # None /\ Seen(s)'[i] = last_normal[t]
  /\ \A i, j \in DOMAIN Seen(s)' : i # j => Seen(s)'[i] # Seen(s)'[j]

LEMMA SeenSteps ==
  ASSUME TypeInv, PubInv, NewInv, SlotInv, [Next]_vars, NEW s \in Tab
  PROVE  \/ Seen(s)' = Seen(s)
         \/ \E p \in Publisher : Puts(p, s) \/ Drops(p, s)
         \/ Replays(s)
  <1> DEFINE Goal == \/ Seen(s)' = Seen(s)
                     \/ \E p \in Publisher : Puts(p, s) \/ Drops(p, s)
                     \/ Replays(s)
  <1>1. ASSUME NEW p \in Publisher, pc[p] \in {"put", "retry"}, PutNowait(target[p], event[p]),
               pc' = [pc EXCEPT ![p] = "next"], UNCHANGED <<snapshot, target, event, received>>
        PROVE  Goal
    <2>1. event[p] \in Event /\ target[p] \in Tab
      BY <1>1 DEF PubInv
    <2>2. Seen(s)' = IF s = target[p] THEN Append(Seen(s), event[p]) ELSE Seen(s)
      BY <1>1, <2>1, PutSeen
    <2>. QED  BY <1>1, <2>2, Zenon DEF Puts
  <1>2. ASSUME NEW p \in Publisher, Put(p) PROVE Goal
    BY <1>1, <1>2, Zenon DEF Put, Goto
  <1>3. ASSUME NEW p \in Publisher, RetryPut(p) PROVE Goal
    <2>1. CASE q' = q
      BY <2>1, <1>3, RetryPutDoes, Zenon DEF Seen
    <2>2. CASE PutNowait(target[p], event[p])
      BY <2>2, <1>1, <1>3, RetryPutDoes, Zenon
    <2>. QED  BY <2>1, <2>2, <1>3, RetryPutDoes, Zenon
  <1>4. ASSUME NEW p \in Publisher, DropOldest(p) PROVE Goal
    <2>1. target[p] \in Tab
      BY <1>4, DropOldestDoes DEF PubInv
    <2>2. CASE q[target[p]] = <<>> /\ UNCHANGED <<q, dropped>>
      BY <2>2, <1>4, DropOldestDoes, Zenon DEF Seen
    <2>3. CASE /\ q[target[p]] # <<>>
               /\ q' = [q EXCEPT ![target[p]] = Tail(q[target[p]])]
               /\ dropped' = [dropped EXCEPT ![target[p]] = dropped[target[p]] \cup
                                {[out |-> Head(q[target[p]]), by |-> event[p]]}]
      <3>0. /\ pc[p] = "drop" /\ pc' = [pc EXCEPT ![p] = "retry"] /\ received' = received
            /\ UNCHANGED <<published, event, snapshot, target, stream, addressed>>
        BY <1>4, DropOldestDoes, Zenon
      <3>1. CASE s = target[p]
        <4>1. /\ q'[s] = Tail(q[s]) /\ q[s] # <<>>
              /\ dropped'[s] = dropped[s] \cup {[out |-> Head(q[s]), by |-> event[p]]}
          BY <2>1, <2>3, <3>1 DEF TypeInv
        <4>. QED  BY <3>0, <3>1, <4>1, Zenon DEF Drops, Seen
      <3>2. CASE s # target[p]
        BY <2>1, <2>3, <3>0, <3>2 DEF TypeInv, Seen
      <3>. QED  BY <3>1, <3>2
    <2>. QED  BY <1>4, <2>2, <2>3, DropOldestDoes, Zenon
  <1>5. ASSUME NEW c \in Tab, Subscribe(c) PROVE Goal
    <2>1. PICK u : IsReplay(u) /\ q' = [q EXCEPT ![c] = u]
      BY <1>5, SubscribeReplays, Zenon
    <2>2. /\ u \in Seq(Event)
          /\ \A i \in DOMAIN u : \E t \in NormalType : last_normal[t] # None /\ u[i] = last_normal[t]
          /\ \A i, j \in DOMAIN u : i # j => u[i] # u[j]
      BY <2>1, ReplayTyped
    <2>3. CASE s = c
      <3>1. stream[s] = "new" /\ stream'[s] # "new" /\ q'[s] = u /\ received' = received
        BY <2>1, <2>3, <1>5 DEF Subscribe, TypeInv
      <3>2. received[s] = <<>>
        BY <3>1, SeenTyped, ConcatEqualIffEmpty DEF NewInv, Seen
      <3>3. Seen(s)' = u
        BY <3>1, <3>2, <2>2, ConcatEmptySeq DEF Seen
      <3>. QED  BY <3>1, <3>3, <2>2, Zenon DEF Replays
    <2>4. CASE s # c
      BY <2>4, <2>1, <1>5 DEF Subscribe, TypeInv, Seen
    <2>. QED  BY <2>3, <2>4
  <1>6. ASSUME NEW t \in Tab, WaitOne(t) \/ Drain(t) PROVE Goal
    <2>1. CASE Take(t)
      BY <2>1, TakeSeen
    <2>2. CASE UNCHANGED <<q, received>>
      BY <2>2 DEF Seen
    <2>. QED  BY <1>6, <2>1, <2>2 DEF WaitOne, Drain
  <1>7. CASE UNCHANGED <<q, received>>
    BY <1>7 DEF Seen
  <1>. QED  BY <1>2, <1>3, <1>4, <1>5, <1>6, <1>7, Zenon
            DEF Next, PublisherStep, StreamStep, Unsubscribe, SlotExpires, Publish, StoreSlot,
                NextSubscriber, FindFull, PutTimesOut, ForceRemove, PublishReturns, EvictNormalReplay

\* Who is visited was visited before, or is in the snapshot just taken.
LEMMA AwaitStep ==
  ASSUME TypeInv, PubInv, [Next]_vars, NEW r \in Publisher, NEW s \in Tab,
         pc'[r] # "idle", Awaits(r, s)'
  PROVE  \/ /\ pc[r] # "idle" /\ Awaits(r, s) /\ event'[r] = event[r]
            /\ Spares(r, s)' => Spares(r, s)
         \/ /\ s \in subscribers /\ event'[r] \in addressed'[s] /\ UNCHANGED <<q, received, dropped>>
            /\ event'[r] \in Event /\ event'[r].by = r /\ event'[r].n = published[r] + 1
  <1> DEFINE Before == /\ pc[r] # "idle" /\ Awaits(r, s) /\ event'[r] = event[r]
                       /\ Spares(r, s)' => Spares(r, s)
             New == /\ s \in subscribers /\ event'[r] \in addressed'[s]
                    /\ UNCHANGED <<q, received, dropped>>
                    /\ event'[r] \in Event /\ event'[r].by = r /\ event'[r].n = published[r] + 1
  <1>1. ASSUME NEW p \in Publisher, NEW type \in NormalType \cup CriticalType, Publish(p, type)
        PROVE  Before \/ New
    <2>1. /\ pc' = [pc EXCEPT ![p] = "slot"]
          /\ event'[p] \in Event /\ event'[p].by = p /\ event'[p].n = published[p] + 1
          /\ \A i \in Publisher \ {p} : event'[i] = event[i]
          /\ snapshot' = [snapshot EXCEPT ![p] = subscribers]
          /\ addressed'[s] = IF s \in subscribers THEN addressed[s] \cup {event'[p]}
                             ELSE addressed[s]
          /\ UNCHANGED <<target, q, received, dropped>>
      BY <1>1, PublishDoes
    <2>2. CASE p = r
      <3>1. pc'[r] = "slot" /\ snapshot'[r] = subscribers
        BY <2>1, <2>2 DEF TypeInv
      <3>2. s \in subscribers
        BY <3>1 DEF Awaits, Spares
      <3>. QED  BY <2>1, <2>2, <3>2
    <2>3. CASE p # r
      <3>1. pc'[r] = pc[r] /\ snapshot'[r] = snapshot[r] /\ target'[r] = target[r] /\ event'[r] = event[r]
        BY <2>1, <2>3 DEF TypeInv
      <3>. QED  BY <3>1 DEF Awaits, Spares
    <2>. QED  BY <2>2, <2>3
  <1>2. ASSUME NEW p \in Publisher, NextSubscriber(p) PROVE Before
    <2>1. PICK c \in snapshot[p] :
            /\ snapshot' = [snapshot EXCEPT ![p] = snapshot[p] \ {c}]
            /\ \/ target' = [target EXCEPT ![p] = c] /\ pc' = [pc EXCEPT ![p] = "put"]
               \/ target' = target /\ pc' = pc
      BY <1>2, NextSubscriberDoes, Zenon
    <2>2. pc[p] = "next" /\ event' = event
      BY <1>2, NextSubscriberDoes, Zenon
    <2>. QED  BY <2>1, <2>2 DEF Awaits, Spares, TypeInv
  <1>3. ASSUME NEW p \in Publisher, NEW from \in {"slot", "next", "put", "drop", "retry", "evict"},
               NEW to \in {"next", "drop", "retry", "evict", "idle"},
               pc[p] = from, pc' = [pc EXCEPT ![p] = to],
               to = "drop" => from = "put", to = "retry" => from = "drop",
               UNCHANGED <<snapshot, event>>,
               target' = target
                 \/ (target' = [target EXCEPT ![p] = None] /\ to \in {"evict", "idle"})
        PROVE  Before
    BY <1>3 DEF Awaits, Spares, TypeInv
  <1>4. ASSUME NEW p \in Publisher, StoreSlot(p) PROVE Before
    <2>1. pc[p] = "slot" /\ pc' = [pc EXCEPT ![p] = "next"] /\ UNCHANGED <<snapshot, target, event>>
      BY <1>4, StoreSlotDoes, Zenon
    <2>. QED  BY <2>1, <1>3
  <1>5. ASSUME NEW p \in Publisher, Put(p) PROVE Before
    BY <1>5, <1>3 DEF Put, Goto
  <1>6. ASSUME NEW p \in Publisher, FindFull(p) \/ DropOldest(p) PROVE Before
    <2>1. CASE FindFull(p)
      BY <2>1, <1>3 DEF FindFull, Goto
    <2>2. CASE DropOldest(p)
      <3>1. pc[p] = "drop" /\ pc' = [pc EXCEPT ![p] = "retry"] /\ UNCHANGED <<snapshot, target, event>>
        BY <2>2, DropOldestDoes, Zenon
      <3>. QED  BY <3>1, <1>3
    <2>. QED  BY <1>6, <2>1, <2>2
  <1>7. ASSUME NEW p \in Publisher, RetryPut(p) PROVE Before
    <2>1. pc[p] = "retry" /\ pc' = [pc EXCEPT ![p] = "next"] /\ UNCHANGED <<snapshot, target, event>>
      BY <1>7, RetryPutDoes, Zenon
    <2>. QED  BY <2>1, <1>3
  <1>8. ASSUME NEW p \in Publisher, PutTimesOut(p) PROVE Before
    BY <1>8, <1>3 DEF PutTimesOut, Goto
  <1>9. ASSUME NEW p \in Publisher, PublishReturns(p) PROVE Before
    BY <1>9, <1>3 DEF PublishReturns, Goto
  <1>10. ASSUME NEW p \in Publisher, EvictNormalReplay(p) PROVE Before
    BY <1>10, <1>3 DEF EvictNormalReplay, Goto
  <1>11. CASE UNCHANGED <<pc, snapshot, target, event>>
    BY <1>11 DEF Awaits, Spares
  <1>. QED  BY <1>1, <1>2, <1>4, <1>5, <1>6, <1>7, <1>8, <1>9, <1>10, <1>11, Zenon
            DEF Next, PublisherStep, StreamStep, Subscribe, WaitOne, Drain, Unsubscribe,
                SlotExpires, ForceRemove

\* The streams that have not come yet.
LEMMA StreamStepDoes ==
  ASSUME TypeInv, [Next]_vars, NEW s \in Tab, stream'[s] = "new"
  PROVE  /\ stream[s] = "new"
         /\ s \in subscribers' => s \in subscribers
         /\ addressed'[s] # {} => addressed[s] # {} \/ s \in subscribers
  <1>1. ASSUME NEW p \in Publisher, NEW type \in NormalType \cup CriticalType, Publish(p, type)
        PROVE  /\ stream' = stream /\ subscribers' = subscribers
               /\ addressed'[s] # {} => addressed[s] # {} \/ s \in subscribers
    BY <1>1 DEF Publish
  <1>2. ASSUME NEW t \in Tab, Subscribe(t)
        PROVE  stream[s] = "new" /\ (s \in subscribers' => s \in subscribers) /\ addressed' = addressed
    BY <1>2 DEF Subscribe, TypeInv
  <1>3. ASSUME NEW t \in Tab, WaitOne(t) \/ Drain(t) \/ Unsubscribe(t)
        PROVE  stream[s] = "new" /\ (s \in subscribers' => s \in subscribers) /\ addressed' = addressed
    BY <1>3 DEF WaitOne, Drain, Unsubscribe, TypeInv
  <1>4. ASSUME NEW p \in Publisher, ForceRemove(p)
        PROVE  stream' = stream /\ (s \in subscribers' => s \in subscribers) /\ addressed' = addressed
    BY <1>4 DEF ForceRemove
  <1>5. CASE UNCHANGED <<stream, subscribers, addressed>>
    BY <1>5
  <1>. QED  BY <1>1, <1>2, <1>3, <1>4, <1>5, Zenon
            DEF Next, PublisherStep, StreamStep, SlotExpires, StoreSlot, NextSubscriber, Put,
                FindFull, DropOldest, RetryPut, PutTimesOut, PublishReturns, EvictNormalReplay

\* What was meant for a tab stays so, and new is only what is published now.
LEMMA AddressedStay ==
  ASSUME TypeInv, [Next]_vars, NEW s \in Tab
  PROVE  /\ addressed[s] \subseteq addressed'[s]
         /\ \A e \in addressed'[s] \ addressed[s] :
              \E r \in Publisher : /\ pc'[r] # "idle" /\ e = event'[r]
                                   /\ event'[r] \in Event /\ event'[r].by = r
                                   /\ event'[r].n = published'[r]
  <1>1. ASSUME NEW p \in Publisher, NEW type \in NormalType \cup CriticalType, Publish(p, type)
        PROVE  /\ addressed'[s] = addressed[s] \/ addressed'[s] = addressed[s] \cup {event'[p]}
               /\ pc'[p] # "idle" /\ event'[p] \in Event /\ event'[p].by = p
               /\ event'[p].n = published'[p]
    <2>1. /\ pc' = [pc EXCEPT ![p] = "slot"]
          /\ published' = [published EXCEPT ![p] = published[p] + 1]
          /\ event'[p] \in Event /\ event'[p].by = p /\ event'[p].n = published[p] + 1
          /\ addressed'[s] = IF s \in subscribers THEN addressed[s] \cup {event'[p]}
                             ELSE addressed[s]
      BY <1>1, PublishDoes
    <2>2. pc'[p] = "slot" /\ published'[p] = published[p] + 1
      BY <2>1 DEF TypeInv
    <2>. QED  BY <2>1, <2>2
  <1>2. ASSUME NEW p \in Publisher, NEW type \in NormalType \cup CriticalType, Publish(p, type),
               NEW e \in addressed'[s] \ addressed[s]
        PROVE  e = event'[p]
    BY <1>1, <1>2
  <1>3. CASE addressed' = addressed
    BY <1>3
  <1>. QED  BY <1>1, <1>2, <1>3, Zenon
            DEF Next, PublisherStep, StreamStep, Subscribe, WaitOne, Drain, Unsubscribe,
                SlotExpires, StoreSlot, NextSubscriber, Put, FindFull, DropOldest, RetryPut,
                PutTimesOut, ForceRemove, PublishReturns, EvictNormalReplay

-----------------------------------------------------------------------------
(* Order                                                                   *)

LEMMA PutsKnown ==
  ASSUME TypeInv, PubInv, UnseenInv, SeenInv, NEW p \in Publisher, NEW s \in Tab, Puts(p, s)
  PROVE  /\ event[p] \in Event /\ event[p].by = p /\ Known(event[p]) /\ stream[s] # "new"
         /\ Seen(s) \in Seq(Event)
         /\ \A f \in Event : Within(Seen(s), f) /\ f.by = p => f.n < event[p].n
         /\ \A f : Within(Seen(s)', f) <=> Within(Seen(s), f) \/ f = event[p]
         /\ s \notin snapshot[p] /\ Awaits(p, s)
  <1>1. pc[p] # "idle" /\ Awaits(p, s) /\ s \notin snapshot[p]
    BY DEF Puts, Awaits, PubInv
  <1>2. event[p] \in Event /\ Known(event[p]) /\ event[p].by = p /\ event[p].n = published[p]
    BY <1>1, EventKnown DEF PubInv
  <1>3. stream[s] # "new" /\ ~Within(Seen(s), event[p])
    BY <1>1 DEF UnseenInv
  <1>4. ASSUME NEW f \in Event, Within(Seen(s), f), f.by = p PROVE f.n < event[p].n
    <2>1. f.n <= published[p] /\ (f.n = published[p] => event[p] = f)
      BY <1>4 DEF SeenInv, Known
    <2>2. f.n # published[p]
      BY <2>1, <1>3, <1>4
    <2>. QED  BY <2>1, <2>2, <1>2 DEF Event, TypeInv
  <1>5. Seen(s) \in Seq(Event)
    BY SeenTyped
  <1>6. \A f : Within(Seen(s)', f) <=> Within(Seen(s), f) \/ f = event[p]
    BY <1>2, <1>5, AppendWithin DEF Puts
  <1>. QED  BY <1>1, <1>2, <1>3, <1>4, <1>5, <1>6

LEMMA DropsKnown ==
  ASSUME TypeInv, NEW p \in Publisher, NEW s \in Tab, Drops(p, s)
  PROVE  /\ Ordered(Seen(s)) => Ordered(Seen(s)')
         /\ \A f : Within(Seen(s)', f) => Within(Seen(s), f)
         /\ \A f : Within(Seen(s), f) => Within(Seen(s)', f) \/ Lost(s, f)'
  <1>1. q[s] \in Seq(Event) /\ received[s] \in Seq(Event) /\ q[s] # <<>>
    BY SeenTyped DEF Drops
  <1>2. /\ Ordered(received[s] \o q[s]) => Ordered(received[s] \o Tail(q[s]))
        /\ \A f : Within(received[s] \o Tail(q[s]), f) => Within(received[s] \o q[s], f)
        /\ \A f : Within(received[s] \o q[s], f) =>
                    Within(received[s] \o Tail(q[s]), f) \/ f = Head(q[s])
    BY <1>1, DropKeeps
  <1>3. /\ Seen(s) = received[s] \o q[s] /\ Seen(s)' = received[s] \o Tail(q[s])
        /\ \E d \in dropped'[s] : d.out = Head(q[s])
    <2>1. Seen(s) = received[s] \o q[s] /\ Seen(s)' = received[s] \o Tail(q[s])
      BY DEF Seen, Drops
    <2>2. [out |-> Head(q[s]), by |-> event[p]] \in dropped'[s]
      BY DEF Drops
    <2>3. [out |-> Head(q[s]), by |-> event[p]].out = Head(q[s])
      OBVIOUS
    <2>. QED  BY <2>1, <2>2, <2>3
  <1>4. ASSUME NEW f, Within(Seen(s), f) PROVE Within(Seen(s)', f) \/ Lost(s, f)'
    BY <1>2, <1>3, <1>4 DEF Lost
  <1>. QED  BY <1>2, <1>3, <1>4

SeqInv == TypeInv /\ PubInv /\ NewInv /\ SlotInv /\ SeenInv /\ UnseenInv /\ OrderInv

LEMMA SeenStep == SeqInv /\ [Next]_vars => SeenInv'
  <1> SUFFICES ASSUME SeqInv, [Next]_vars,
                      NEW s \in Tab, NEW e \in Event, Within(Seen(s)', e)
               PROVE  Known(e)'
    BY DEF SeenInv, Within
  <1> USE DEF SeqInv
  <1>1. CASE Seen(s)' = Seen(s)
    BY <1>1, KnownStep DEF SeenInv
  <1>2. ASSUME NEW p \in Publisher, Puts(p, s) PROVE Known(e)'
    <2>1. Within(Seen(s), e) \/ (e = event[p] /\ Known(event[p]))
      BY <1>2, PutsKnown
    <2>2. Known(e)
      BY <2>1 DEF SeenInv
    <2>. QED  BY <2>2, KnownStep
  <1>3. ASSUME NEW p \in Publisher, Drops(p, s) PROVE Known(e)'
    <2>1. Known(e)
      BY <1>3, DropsKnown DEF SeenInv
    <2>. QED  BY <2>1, KnownStep
  <1>4. CASE Replays(s)
    <2>1. Known(e)
      BY <1>4 DEF Replays, Within, SlotInv
    <2>. QED  BY <2>1, KnownStep
  <1>. QED  BY <1>1, <1>2, <1>3, <1>4, SeenSteps, Zenon

LEMMA OrderStep == SeqInv /\ [Next]_vars => OrderInv'
  <1> SUFFICES ASSUME SeqInv, [Next]_vars, NEW s \in Tab
               PROVE  Ordered(Seen(s)')
    BY DEF OrderInv, Ordered
  <1> USE DEF SeqInv
  <1>0. Ordered(Seen(s))
    BY DEF OrderInv
  <1>1. CASE Seen(s)' = Seen(s)
    BY <1>0, <1>1
  <1>2. ASSUME NEW p \in Publisher, Puts(p, s) PROVE Ordered(Seen(s)')
    <2>1. /\ event[p] \in Event /\ event[p].by = p /\ Seen(s) \in Seq(Event)
          /\ \A f \in Event : Within(Seen(s), f) /\ f.by = p => f.n < event[p].n
      BY <1>2, PutsKnown
    <2>2. Ordered(Append(Seen(s), event[p]))
      BY <1>0, <2>1, AppendOrdered
    <2>. QED  BY <1>2, <2>2, Zenon DEF Puts
  <1>3. ASSUME NEW p \in Publisher, Drops(p, s) PROVE Ordered(Seen(s)')
    BY <1>0, <1>3, DropsKnown
  <1>4. CASE Replays(s)
    <2>1. ASSUME NEW i \in DOMAIN Seen(s)', NEW j \in DOMAIN Seen(s)', i # j
          PROVE  Seen(s)'[i].type # Seen(s)'[j].type
      BY <1>4, <2>1 DEF Replays, SlotInv
    <2>2. DOMAIN Seen(s)' \subseteq Nat
      BY <1>4, LenProperties DEF Replays
    <2>. QED  BY <2>1, <2>2 DEF Ordered
  <1>. QED  BY <1>1, <1>2, <1>3, <1>4, SeenSteps, Zenon

LEMMA UnseenStep == SeqInv /\ [Next]_vars => UnseenInv'
  <1> SUFFICES ASSUME SeqInv, [Next]_vars, NEW r \in Publisher, NEW s \in Tab,
                      pc'[r] # "idle", Awaits(r, s)'
               PROVE  stream'[s] # "new" /\ event'[r] \in addressed'[s] /\ ~Within(Seen(s)', event'[r])
    BY DEF UnseenInv, Within
  <1> USE DEF SeqInv
  <1>1. CASE pc[r] # "idle" /\ Awaits(r, s) /\ event'[r] = event[r]
    <2>1. /\ stream[s] # "new" /\ event[r] \in addressed[s] /\ ~Within(Seen(s), event[r])
          /\ event[r] \in Event /\ event[r].by = r
      BY <1>1 DEF UnseenInv, PubInv
    <2>2. stream'[s] # "new" /\ event[r] \in addressed'[s]
      BY <2>1, StreamStepDoes, AddressedStay
    <2>3. CASE Seen(s)' = Seen(s)
      BY <2>1, <2>2, <2>3, <1>1
    <2>4. ASSUME NEW p \in Publisher, Puts(p, s) PROVE ~Within(Seen(s)', event[r])
      <3>1. /\ \A f : Within(Seen(s)', f) <=> Within(Seen(s), f) \/ f = event[p]
            /\ s \notin snapshot[p] /\ event[p].by = p
        BY <2>4, PutsKnown
      <3>2. p # r
        BY <2>4, <3>1 DEF Puts, Awaits, TypeInv
      <3>. QED  BY <3>1, <3>2, <2>1
    <2>5. ASSUME NEW p \in Publisher, Drops(p, s) PROVE ~Within(Seen(s)', event[r])
      BY <2>1, <2>5, DropsKnown
    <2>6. ~Replays(s)
      BY <2>1 DEF Replays
    <2>. QED  BY <1>1, <2>2, <2>3, <2>4, <2>5, <2>6, SeenSteps, Zenon
  <1>2. CASE /\ s \in subscribers /\ event'[r] \in addressed'[s]
             /\ UNCHANGED <<q, received, dropped>>
             /\ event'[r] \in Event /\ event'[r].by = r /\ event'[r].n = published[r] + 1
    <2>1. stream'[s] # "new"
      BY <1>2, StreamStepDoes DEF NewInv
    <2>2. Seen(s)' = Seen(s)
      BY <1>2 DEF Seen
    <2>3. ~Known(event'[r])
      BY <1>2 DEF Known, TypeInv
    <2>4. ~Within(Seen(s), event'[r])
      BY <1>2, <2>3 DEF SeenInv
    <2>. QED  BY <1>2, <2>1, <2>2, <2>4
  <1>. QED  BY <1>1, <1>2, AwaitStep, Zenon

LEMMA NewStep == SeqInv /\ [Next]_vars => NewInv'
  <1> SUFFICES ASSUME SeqInv, [Next]_vars, NEW s \in Tab, stream'[s] = "new"
               PROVE  s \notin subscribers' /\ Seen(s)' = <<>> /\ addressed'[s] = {}
    BY DEF NewInv
  <1> USE DEF SeqInv
  <1>1. /\ stream[s] = "new" /\ s \notin subscribers' /\ addressed'[s] = {}
        /\ Seen(s) = <<>>
    BY StreamStepDoes DEF NewInv
  <1>2. ASSUME NEW p \in Publisher PROVE ~Puts(p, s) /\ ~Drops(p, s)
    <2>1. ~Puts(p, s)
      BY <1>1, PutsKnown
    <2>2. q[s] = <<>>
      BY <1>1, SeenTyped, ConcatEqualIffEmpty DEF Seen
    <2>. QED  BY <2>1, <2>2 DEF Drops
  <1>3. ~Replays(s)
    BY DEF Replays
  <1>. QED  BY <1>1, <1>2, <1>3, SeenSteps, Zenon

-----------------------------------------------------------------------------
(* Where an addressed event is                                             *)

\* A publication moves by its own steps only.
LEMMA OwnSteps ==
  ASSUME TypeInv, [Next]_vars, NEW r \in Publisher
  PROVE  \/ PublisherStep(r) \/ \E type \in NormalType \cup CriticalType : Publish(r, type)
         \/ /\ pc'[r] = pc[r] /\ event'[r] = event[r] /\ snapshot'[r] = snapshot[r]
            /\ target'[r] = target[r] /\ slow'[r] = slow[r]
  <1> DEFINE Same == /\ pc'[r] = pc[r] /\ event'[r] = event[r] /\ snapshot'[r] = snapshot[r]
                     /\ target'[r] = target[r] /\ slow'[r] = slow[r]
  <1>1. ASSUME NEW p \in Publisher \ {r}, NEW type \in NormalType \cup CriticalType,
               Publish(p, type)
        PROVE  Same
    <2>1. /\ pc' = [pc EXCEPT ![p] = "slot"] /\ event'[r] = event[r]
          /\ snapshot' = [snapshot EXCEPT ![p] = subscribers]
          /\ UNCHANGED <<target, slow>>
      BY <1>1, PublishDoes
    <2>. QED  BY <2>1 DEF TypeInv
  <1>2. ASSUME NEW p \in Publisher \ {r}, StoreSlot(p) \/ RetryPut(p) PROVE Same
    <2>1. pc' = [pc EXCEPT ![p] = "next"] /\ UNCHANGED <<event, snapshot, target, slow>>
      BY <1>2, StoreSlotDoes, RetryPutDoes, Zenon
    <2>. QED  BY <2>1 DEF TypeInv
  <1>3. ASSUME NEW p \in Publisher \ {r}, NextSubscriber(p) PROVE Same
    <2>1. PICK c \in snapshot[p] :
            /\ snapshot' = [snapshot EXCEPT ![p] = snapshot[p] \ {c}]
            /\ \/ target' = [target EXCEPT ![p] = c] /\ pc' = [pc EXCEPT ![p] = "put"]
               \/ target' = target /\ pc' = pc
      BY <1>3, NextSubscriberDoes, Zenon
    <2>2. UNCHANGED <<event, slow>>
      BY <1>3, NextSubscriberDoes, Zenon
    <2>. QED  BY <2>1, <2>2 DEF TypeInv
  <1>4. ASSUME NEW p \in Publisher \ {r},
               Put(p) \/ FindFull(p) \/ DropOldest(p) \/ EvictNormalReplay(p)
        PROVE  Same
    BY <1>4, DropOldestDoes DEF Put, FindFull, EvictNormalReplay, Goto, TypeInv
  <1>5. ASSUME NEW p \in Publisher \ {r}, PutTimesOut(p) \/ ForceRemove(p) \/ PublishReturns(p)
        PROVE  Same
    BY <1>5 DEF PutTimesOut, ForceRemove, PublishReturns, Goto, TypeInv
  <1>6. UNCHANGED pubVars => Same
    OBVIOUS
  <1>7. ASSUME NEW s \in Tab, Subscribe(s) \/ StreamStep(s) \/ Unsubscribe(s)
        PROVE  UNCHANGED pubVars
    BY <1>7 DEF Subscribe, StreamStep, WaitOne, Drain, Unsubscribe
  <1>8. ASSUME NEW t \in NormalType, SlotExpires(t) PROVE UNCHANGED pubVars
    BY <1>8 DEF SlotExpires
  <1>9. ASSUME NEW p \in Publisher, p # r, PublisherStep(p) PROVE Same
    <2>1. p \in Publisher \ {r}
      BY <1>9
    <2>. QED  BY <2>1, <1>2, <1>3, <1>4, <1>5, <1>9, Zenon DEF PublisherStep
  <1>10. ASSUME NEW p \in Publisher, p # r, NEW type \in NormalType \cup CriticalType,
                Publish(p, type)
         PROVE  Same
    BY <1>1, <1>10
  <1> HIDE DEF Same
  <1>11. PublisherStep(r) \/ (\E type \in NormalType \cup CriticalType : Publish(r, type)) \/ Same
    <2>1. ASSUME NEW p \in Publisher,
                 PublisherStep(p) \/ \E type \in NormalType \cup CriticalType : Publish(p, type)
          PROVE  \/ PublisherStep(r) \/ \E type \in NormalType \cup CriticalType : Publish(r, type)
                 \/ Same
      <3>1. CASE p = r
        BY <3>1, <2>1
      <3>2. CASE p # r
        BY <3>2, <2>1, <1>9, <1>10, Zenon
      <3>. QED  BY <3>1, <3>2
    <2>2. CASE UNCHANGED pubVars
      BY <2>2, <1>6, Zenon
    <2>3. CASE UNCHANGED vars
      BY <2>3, <2>2
    <2>. QED  BY <2>1, <2>2, <2>3, <1>7, <1>8, Zenon DEF Next
  <1>. QED  BY <1>11 DEF Same

\* What a tab has lost stays lost, and a tab that has ended does not come back.
LEMMA LossesStay ==
  ASSUME TypeInv, PubInv, [Next]_vars, NEW s \in Tab
  PROVE  /\ dropped[s] \subseteq dropped'[s] /\ missed[s] \subseteq missed'[s]
         /\ ~alive[s] /\ stream[s] # "new" => ~alive'[s]
  <1>1. ASSUME NEW p \in Publisher, DropOldest(p) PROVE dropped[s] \subseteq dropped'[s]
    <2>1. target[p] \in Tab
      BY <1>1, DropOldestDoes DEF PubInv
    <2>2. \/ dropped' = dropped
          \/ \E d : dropped' = [dropped EXCEPT ![target[p]] = dropped[target[p]] \cup {d}]
      BY <1>1, DropOldestDoes, Zenon
    <2>3. dropped \in [Tab -> SUBSET [out : Event, by : Event]]
      BY DEF TypeInv
    <2>. QED  BY <2>1, <2>2, <2>3
  <1>2. ASSUME NEW p \in Publisher, RetryPut(p) PROVE missed[s] \subseteq missed'[s]
    <2>1. \/ missed' = [missed EXCEPT ![target[p]] = missed[target[p]] \cup {event[p]}]
          \/ missed' = missed
      BY <1>2, RetryPutDoes, Zenon
    <2>2. target[p] \in Tab
      BY <1>2, RetryPutDoes DEF PubInv
    <2>3. missed \in [Tab -> SUBSET Event]
      BY DEF TypeInv
    <2>. QED  BY <2>1, <2>2, <2>3
  <1>3. dropped[s] \subseteq dropped'[s]
    BY <1>1 DEF Next, PublisherStep, StreamStep, Subscribe, WaitOne, Drain, Unsubscribe,
                SlotExpires, Publish, StoreSlot, NextSubscriber, Put, FindFull, RetryPut, PutTimesOut,
                ForceRemove, PublishReturns, EvictNormalReplay
  <1>4. missed[s] \subseteq missed'[s]
    BY <1>2 DEF Next, PublisherStep, StreamStep, Subscribe, WaitOne, Drain, Unsubscribe,
                SlotExpires, Publish, StoreSlot, NextSubscriber, Put, FindFull, DropOldest, PutTimesOut,
                ForceRemove, PublishReturns, EvictNormalReplay
  <1>5. ASSUME NEW c \in Tab, Subscribe(c), stream[s] # "new" PROVE alive'[s] = alive[s]
    BY <1>5 DEF Subscribe, TypeInv
  <1>6. ASSUME NEW c \in Tab, Unsubscribe(c), ~alive[s] PROVE ~alive'[s]
    BY <1>6 DEF Unsubscribe, TypeInv
  <1>7. ASSUME NEW p \in Publisher, ForceRemove(p), ~alive[s] PROVE ~alive'[s]
    <2>1. PICK c \in slow[p] : alive' = [alive EXCEPT ![c] = FALSE]
      BY <1>7, Zenon DEF ForceRemove
    <2>. QED  BY <2>1, <1>7 DEF TypeInv
  <1>8. CASE alive' = alive
    BY <1>3, <1>4, <1>8
  <1>. QED  BY <1>3, <1>4, <1>5, <1>6, <1>7, <1>8, Zenon
            DEF Next, PublisherStep, StreamStep, WaitOne, Drain, SlotExpires, Publish, StoreSlot,
                NextSubscriber, Put, FindFull, DropOldest, RetryPut, PutTimesOut, PublishReturns,
                EvictNormalReplay

\* What a tab has seen it has seen, or lost out of its full queue.
LEMMA AccountedStep ==
  ASSUME SeqInv, [Next]_vars, NEW s \in Tab, NEW e \in Event, stream[s] # "new",
         Accounted(s, e)
  PROVE  Accounted(s, e)'
  <1> USE DEF SeqInv
  <1>1. /\ dropped[s] \subseteq dropped'[s] /\ missed[s] \subseteq missed'[s]
        /\ ~alive[s] => ~alive'[s]
    BY LossesStay
  <1>2. CASE ~Within(Seen(s), e)
    BY <1>1, <1>2 DEF Accounted, Lost
  <1>3. ASSUME Within(Seen(s), e) PROVE Within(Seen(s)', e) \/ Lost(s, e)'
    <2>1. CASE Seen(s)' = Seen(s)
      BY <1>3, <2>1
    <2>2. ASSUME NEW p \in Publisher, Puts(p, s) PROVE Within(Seen(s)', e)
      BY <1>3, <2>2, PutsKnown
    <2>3. ASSUME NEW p \in Publisher, Drops(p, s)
          PROVE  Within(Seen(s)', e) \/ Lost(s, e)'
      BY <1>3, <2>3, DropsKnown
    <2>4. ~Replays(s)
      BY DEF Replays
    <2>. QED  BY <2>1, <2>2, <2>3, <2>4, SeenSteps, Zenon
  <1>4. CASE Within(Seen(s), e)
    BY <1>3, <1>4 DEF Accounted, Within
  <1>. QED  BY <1>2, <1>4

\* A publication leaves a subscriber with its event, dead, or to be cut off.
LEMMA UnderwayStep ==
  ASSUME SeqInv, [Next]_vars, NEW s \in Tab, NEW e \in Event, Underway(s, e)
  PROVE  Accounted(s, e)' \/ Underway(s, e)'
  <1> USE DEF SeqInv
  <1> DEFINE p == e.by
             Goal == Accounted(s, e)' \/ Underway(s, e)'
  <1>1. /\ p \in Publisher /\ pc[p] # "idle" /\ event[p] = e
        /\ Awaits(p, s) \/ s \in slow[p]
    BY DEF Underway, Event
  <1> HIDE DEF p
  <1>0. pc'[p] # "idle" /\ event'[p] = e /\ (Awaits(p, s)' \/ s \in slow'[p]) => Goal
    BY DEF Underway, p
  <1>2. ASSUME pc'[p] = pc[p], event'[p] = event[p], snapshot'[p] = snapshot[p],
               target'[p] = target[p], slow'[p] = slow[p]
        PROVE  Goal
    BY <1>0, <1>1, <1>2 DEF Awaits
  <1>3. ASSUME NEW type \in NormalType \cup CriticalType, Publish(p, type) PROVE FALSE
    BY <1>1, <1>3, PublishDoes
  <1>4. ASSUME StoreSlot(p) PROVE Goal
    <2>1. pc[p] = "slot" /\ pc' = [pc EXCEPT ![p] = "next"]
          /\ UNCHANGED <<event, snapshot, target, slow>>
      BY <1>4, StoreSlotDoes, Zenon
    <2>. QED  BY <1>0, <1>1, <2>1 DEF Awaits, TypeInv
  <1>5. ASSUME NextSubscriber(p) PROVE Goal
    <2>1. PICK c \in snapshot[p] :
            /\ snapshot' = [snapshot EXCEPT ![p] = snapshot[p] \ {c}]
            /\ \/ target' = [target EXCEPT ![p] = c] /\ pc' = [pc EXCEPT ![p] = "put"]
               \/ ~alive[c] /\ target' = target /\ pc' = pc
      BY <1>5, NextSubscriberDoes, Zenon
    <2>2. pc[p] = "next" /\ UNCHANGED <<alive, event, slow>>
      BY <1>5, NextSubscriberDoes, Zenon
    <2>3. CASE s = c /\ ~alive[c]
      BY <2>2, <2>3 DEF Accounted
    <2>4. CASE s = c /\ target' = [target EXCEPT ![p] = c] /\ pc' = [pc EXCEPT ![p] = "put"]
      BY <1>0, <1>1, <2>2, <2>4 DEF Awaits, TypeInv
    <2>5. CASE s # c
      BY <1>0, <1>1, <2>1, <2>2, <2>5 DEF Awaits, TypeInv
    <2>. QED  BY <2>1, <2>3, <2>4, <2>5
  <1>6. ASSUME pc[p] \in {"put", "retry"}, PutNowait(target[p], event[p]),
               pc' = [pc EXCEPT ![p] = "next"],
               UNCHANGED <<snapshot, target, event, slow, received>>
        PROVE  Goal
    <2>1. CASE s = target[p]
      <3>1. target[p] \in Tab /\ event[p] \in Event
        BY <1>1, <2>1 DEF PubInv
      <3>2. Seen(s)' = Append(Seen(s), e)
        BY <1>1, <1>6, <2>1, <3>1, PutSeen
      <3>3. Within(Seen(s), e)'
        <4>1. Within(Append(Seen(s), e), e)
          BY SeenTyped, AppendWithin
        <4>. QED  BY <4>1, <3>2 DEF Within
      <3>. QED  BY <3>3 DEF Accounted
    <2>2. CASE s # target[p]
      BY <1>0, <1>1, <1>6, <2>2 DEF Awaits, TypeInv
    <2>. QED  BY <2>1, <2>2
  <1>7. ASSUME Put(p) PROVE Goal
    BY <1>6, <1>7 DEF Put, Goto
  <1>8. ASSUME FindFull(p) \/ DropOldest(p) PROVE Goal
    <2>1. CASE FindFull(p)
      <3>1. pc[p] = "put" /\ pc' = [pc EXCEPT ![p] = "drop"]
            /\ UNCHANGED <<event, snapshot, target, slow>>
        BY <2>1 DEF FindFull, Goto
      <3>. QED  BY <1>0, <1>1, <3>1 DEF Awaits, TypeInv
    <2>2. CASE DropOldest(p)
      <3>1. pc[p] = "drop" /\ pc' = [pc EXCEPT ![p] = "retry"]
            /\ UNCHANGED <<event, snapshot, target, slow>>
        BY <2>2, DropOldestDoes, Zenon
      <3>. QED  BY <1>0, <1>1, <3>1 DEF Awaits, TypeInv
    <2>. QED  BY <1>8, <2>1, <2>2
  <1>9. ASSUME RetryPut(p) PROVE Goal
    <2>1. /\ pc[p] = "retry" /\ pc' = [pc EXCEPT ![p] = "next"]
          /\ UNCHANGED <<event, snapshot, target, slow, received>>
      BY <1>9, RetryPutDoes, Zenon
    <2>2. CASE missed' = [missed EXCEPT ![target[p]] = missed[target[p]] \cup {event[p]}]
      <3>1. CASE s = target[p]
        <4>1. e \in missed'[s] /\ e.type \in NormalType
          BY <1>1, <2>1, <2>2, <3>1 DEF TypeInv, PubInv
        <4>. QED  BY <4>1 DEF Accounted
      <3>2. CASE s # target[p]
        BY <1>0, <1>1, <2>1, <3>2 DEF Awaits, TypeInv
      <3>. QED  BY <3>1, <3>2
    <2>3. CASE PutNowait(target[p], event[p])
      BY <1>6, <2>1, <2>3
    <2>. QED  BY <1>9, <2>2, <2>3, RetryPutDoes, Zenon
  <1>10. ASSUME PutTimesOut(p) PROVE Goal
    BY <1>0, <1>1, <1>10 DEF PutTimesOut, Goto, Awaits, TypeInv
  <1>11. ASSUME ForceRemove(p) PROVE Goal
    <2>1. PICK c \in slow[p] :
            /\ slow' = [slow EXCEPT ![p] = slow[p] \ {c}]
            /\ alive' = [alive EXCEPT ![c] = FALSE]
      BY <1>11, Zenon DEF ForceRemove
    <2>2. pc[p] = "next" /\ snapshot[p] = {} /\ UNCHANGED <<pc, event, snapshot, target>>
      BY <1>11 DEF ForceRemove
    <2>3. CASE s = c
      BY <2>1, <2>3 DEF Accounted, TypeInv
    <2>4. CASE s # c
      BY <1>0, <1>1, <2>1, <2>2, <2>4 DEF Awaits, TypeInv
    <2>. QED  BY <2>3, <2>4
  <1>12. ~PublishReturns(p)
    BY <1>1 DEF PublishReturns, Awaits
  <1>13. ~EvictNormalReplay(p)
    BY <1>1 DEF EvictNormalReplay, Awaits, PubInv
  <1> HIDE DEF Goal
  <1>14. Goal
    <2>1. \/ PublisherStep(p) \/ \E type \in NormalType \cup CriticalType : Publish(p, type)
          \/ /\ pc'[p] = pc[p] /\ event'[p] = event[p] /\ snapshot'[p] = snapshot[p]
             /\ target'[p] = target[p] /\ slow'[p] = slow[p]
      BY <1>1, OwnSteps
    <2>2. CASE PublisherStep(p)
      BY <2>2, <1>4, <1>5, <1>7, <1>8, <1>9, <1>10, <1>11, <1>12, <1>13, Zenon
         DEF PublisherStep
    <2>. QED  BY <2>1, <2>2, <1>2, <1>3, Zenon
  <1>. QED  BY <1>14 DEF Goal

LEMMA AddressStep == SeqInv /\ AddressInv /\ [Next]_vars => AddressInv'
  <1> SUFFICES ASSUME SeqInv, AddressInv, [Next]_vars, NEW s \in Tab, NEW e \in addressed'[s]
               PROVE  Accounted(s, e)' \/ Underway(s, e)'
    BY DEF AddressInv, Accounted, Underway, Awaits, Within
  <1> USE DEF SeqInv
  <1>1. ASSUME e \in addressed[s] PROVE Accounted(s, e)' \/ Underway(s, e)'
    <2>1. e \in Event /\ stream[s] # "new"
      BY <1>1 DEF TypeInv, NewInv
    <2>2. Accounted(s, e) \/ Underway(s, e)
      BY <1>1 DEF AddressInv
    <2>. QED  BY <2>1, <2>2, AccountedStep, UnderwayStep
  <1>2. ASSUME NEW p \in Publisher, NEW type \in NormalType \cup CriticalType, Publish(p, type),
               e \notin addressed[s]
        PROVE  Underway(s, e)'
    <2>1. /\ pc' = [pc EXCEPT ![p] = "slot"] /\ event'[p].by = p
          /\ snapshot' = [snapshot EXCEPT ![p] = subscribers]
          /\ addressed'[s] = IF s \in subscribers THEN addressed[s] \cup {event'[p]}
                             ELSE addressed[s]
      BY <1>2, PublishDoes
    <2>2. e = event'[p] /\ s \in subscribers
      BY <1>2, <2>1
    <2>3. pc'[p] # "idle" /\ s \in snapshot'[p]
      BY <2>1, <2>2 DEF TypeInv
    <2>. QED  BY <2>1, <2>2, <2>3 DEF Underway, Awaits
  <1>3. CASE addressed' = addressed
    BY <1>1, <1>3
  <1>. QED  BY <1>1, <1>2, <1>3, Zenon
            DEF Next, PublisherStep, StreamStep, Subscribe, WaitOne, Drain, Unsubscribe,
                SlotExpires, StoreSlot, NextSubscriber, Put, FindFull, DropOldest, RetryPut, PutTimesOut,
                ForceRemove, PublishReturns, EvictNormalReplay

\* Each drop is charged to the publication that makes it, which has made none
\* in that queue before.
LEMMA DropStep == SeqInv /\ DropInv /\ [Next]_vars => DropInv'
  <1> SUFFICES ASSUME SeqInv, DropInv, [Next]_vars, NEW s \in Tab
               PROVE  /\ \A e \in addressed'[s] : Known(e)'
                      /\ \A d \in dropped'[s] : /\ d.by \in addressed'[s] /\ d.by.type \in NormalType
                                               /\ d.by # d.out
                      /\ \A c, d \in dropped'[s] : c.by = d.by => c = d
                      /\ \A r \in Publisher, d \in dropped'[s] :
                           pc'[r] # "idle" /\ Spares(r, s)' => d.by # event'[r]
    BY DEF DropInv
  <1> USE DEF SeqInv
  <1>0. /\ addressed[s] \subseteq Event /\ addressed[s] \subseteq addressed'[s]
        /\ \A e \in addressed[s] : Known(e)
        /\ \A d \in dropped[s] : d.by \in addressed[s] /\ d.by.type \in NormalType /\ d.by # d.out
        /\ \A c, d \in dropped[s] : c.by = d.by => c = d
        /\ \A r \in Publisher, d \in dropped[s] :
             pc[r] # "idle" /\ Spares(r, s) => d.by # event[r]
    BY AddressedStay DEF DropInv, TypeInv
  <1>1. ASSUME NEW e \in addressed'[s] PROVE Known(e)'
    <2>1. CASE e \in addressed[s]
      BY <1>0, <2>1, KnownStep
    <2>2. CASE e \notin addressed[s]
      <3>1. PICK r \in Publisher : /\ e = event'[r] /\ event'[r].by = r
                                   /\ event'[r].n = published'[r] /\ event'[r] \in Event
        BY <2>2, AddressedStay
      <3>. QED  BY <3>1 DEF Known, Event
    <2>. QED  BY <2>1, <2>2
  <1>2. \/ dropped'[s] = dropped[s]
        \/ \E p \in Publisher : Drops(p, s)
    <2>1. ASSUME NEW p \in Publisher, DropOldest(p)
          PROVE  dropped'[s] = dropped[s] \/ Drops(p, s)
      <3>0. /\ pc[p] = "drop" /\ pc' = [pc EXCEPT ![p] = "retry"] /\ received' = received
            /\ UNCHANGED <<published, event, snapshot, target, stream, addressed>>
        BY <2>1, DropOldestDoes, Zenon
      <3>1. target[p] \in Tab
        BY <3>0 DEF PubInv
      <3>2. CASE UNCHANGED <<q, dropped>>
        BY <3>2
      <3>3. CASE /\ q[target[p]] # <<>>
                 /\ q' = [q EXCEPT ![target[p]] = Tail(q[target[p]])]
                 /\ dropped' = [dropped EXCEPT ![target[p]] = dropped[target[p]] \cup
                                  {[out |-> Head(q[target[p]]), by |-> event[p]]}]
        <4>1. CASE s = target[p]
          <5>1. /\ q'[s] = Tail(q[s]) /\ q[s] # <<>>
                /\ dropped'[s] = dropped[s] \cup {[out |-> Head(q[s]), by |-> event[p]]}
            BY <3>1, <3>3, <4>1 DEF TypeInv
          <5>. QED  BY <3>0, <4>1, <5>1, Zenon DEF Drops, Seen
        <4>2. CASE s # target[p]
          BY <3>1, <3>3, <4>2 DEF TypeInv
        <4>. QED  BY <4>1, <4>2
      <3>. QED  BY <2>1, <3>2, <3>3, DropOldestDoes, Zenon
    <2>2. CASE dropped' = dropped
      BY <2>2
    <2>. QED  BY <2>1, <2>2, Zenon
              DEF Next, PublisherStep, StreamStep, Subscribe, WaitOne, Drain, Unsubscribe,
                  SlotExpires, Publish, StoreSlot, NextSubscriber, Put, FindFull, RetryPut,
                  PutTimesOut, ForceRemove, PublishReturns, EvictNormalReplay
  <1>3. ASSUME NEW r \in Publisher, NEW d \in dropped[s], pc'[r] # "idle", Spares(r, s)'
        PROVE  d.by # event'[r]
    <2>1. Awaits(r, s)'
      BY <1>3 DEF Spares, Awaits
    <2>2. CASE pc[r] # "idle" /\ Spares(r, s) /\ event'[r] = event[r]
      BY <1>0, <2>2
    <2>3. CASE event'[r] \in Event /\ event'[r].by = r /\ event'[r].n = published[r] + 1
      <3>1. ~Known(event'[r])
        BY <2>3 DEF Known, TypeInv
      <3>. QED  BY <1>0, <3>1
    <2>. QED  BY <1>3, <2>1, <2>2, <2>3, AwaitStep
  <1>4. CASE dropped'[s] = dropped[s]
    BY <1>0, <1>1, <1>3, <1>4
  <1>5. ASSUME NEW p \in Publisher, Drops(p, s)
        PROVE  /\ \A d \in dropped'[s] : /\ d.by \in addressed'[s] /\ d.by.type \in NormalType
                                         /\ d.by # d.out
               /\ \A c, d \in dropped'[s] : c.by = d.by => c = d
               /\ \A r \in Publisher, d \in dropped'[s] :
                    pc'[r] # "idle" /\ Spares(r, s)' => d.by # event'[r]
    <2> DEFINE new == [out |-> Head(q[s]), by |-> event[p]]
    <2>1. /\ dropped'[s] = dropped[s] \cup {new} /\ new.by = event[p] /\ new.out = Head(q[s])
          /\ pc[p] = "drop" /\ pc' = [pc EXCEPT ![p] = "retry"] /\ target[p] = s /\ q[s] # <<>>
          /\ UNCHANGED <<event, snapshot, target, addressed>>
      BY <1>5 DEF Drops
    <2>2. /\ Awaits(p, s) /\ Spares(p, s) /\ s \notin snapshot[p]
          /\ event[p] \in Event /\ event[p].by = p /\ event[p].type \in NormalType
      BY <2>1 DEF Awaits, Spares, PubInv
    <2>3. event[p] \in addressed[s] /\ ~Within(Seen(s), event[p])
      BY <2>1, <2>2 DEF UnseenInv
    <2>4. Within(Seen(s), Head(q[s]))
      <3>1. /\ received[s] \in Seq(Event) /\ q[s] \in Seq(Event) /\ Head(q[s]) \in Event
            /\ Tail(q[s]) \in Seq(Event)
        BY <2>1, SeenTyped, HeadTailProperties
      <3>2. Append(received[s], Head(q[s])) \in Seq(Event)
            /\ Len(received[s]) \in Nat
            /\ Append(received[s], Head(q[s]))[Len(received[s]) + 1] = Head(q[s])
            /\ Len(Append(received[s], Head(q[s]))) = Len(received[s]) + 1
        BY <3>1, AppendProperties, LenProperties
      <3>3. Append(received[s], Head(q[s])) \o Tail(q[s]) = Seen(s)
        BY <2>1, <3>1, TakeKeeps DEF Seen
      <3>4. /\ Len(received[s]) + 1 \in DOMAIN Seen(s)
            /\ Seen(s)[Len(received[s]) + 1] = Head(q[s])
        <4> DEFINE a == Append(received[s], Head(q[s]))
                   b == Tail(q[s])
        <4>1. /\ a \in Seq(Event) /\ b \in Seq(Event) /\ a \o b = Seen(s)
              /\ Len(a) = Len(received[s]) + 1 /\ Len(received[s]) \in Nat /\ Len(b) \in Nat
              /\ a[Len(received[s]) + 1] = Head(q[s])
          BY <3>1, <3>2, <3>3, LenProperties
        <4> HIDE DEF a, b
        <4>2. /\ a \o b \in Seq(Event) /\ Len(a \o b) = Len(a) + Len(b)
              /\ \A i \in 1..Len(a) + Len(b) :
                   (a \o b)[i] = IF i <= Len(a) THEN a[i] ELSE b[i - Len(a)]
          BY <4>1, ConcatProperties
        <4>3. DOMAIN (a \o b) = 1..Len(a) + Len(b)
          BY <4>2, LenProperties
        <4>. QED  BY <4>1, <4>2, <4>3
      <3>. QED  BY <3>4 DEF Within
    <2>5. new.by # new.out
      BY <2>1, <2>3, <2>4
    <2>6. \A d \in dropped[s] : d.by # new.by
      BY <1>0, <2>1, <2>2
    <2>7. ASSUME NEW r \in Publisher, pc'[r] # "idle", Spares(r, s)' PROVE new.by # event'[r]
      <3>1. CASE r = p
        <4>1. pc'[p] = "retry" /\ snapshot'[p] = snapshot[p]
          BY <2>1 DEF TypeInv
        <4>. QED  BY <2>2, <2>7, <3>1, <4>1 DEF Spares
      <3>2. CASE r # p
        <4>1. pc'[r] = pc[r] /\ event'[r] = event[r]
          BY <2>1, <3>2 DEF TypeInv
        <4>2. event[r].by = r
          BY <2>7, <4>1 DEF PubInv
        <4>. QED  BY <2>1, <2>2, <3>2, <4>1, <4>2
      <3>. QED  BY <3>1, <3>2
    <2> HIDE DEF new
    <2>. QED  BY <1>0, <1>3, <2>1, <2>2, <2>3, <2>5, <2>6, <2>7
  <1>. QED  BY <1>1, <1>2, <1>4, <1>5, Zenon

-----------------------------------------------------------------------------
(* The slot of a transient event                                           *)

LEMMA TransientStep ==
  TypeInv /\ PubInv /\ TransientSlotIsShortLived /\ [Next]_vars => TransientSlotIsShortLived'
  <1> SUFFICES ASSUME TypeInv, PubInv, TransientSlotIsShortLived, [Next]_vars,
                      NEW t \in TransientType, last_normal'[t] # None
               PROVE  \E p \in Publisher : pc'[p] # "idle" /\ event'[p].type = t
    BY DEF TransientSlotIsShortLived
  <1>0. t \in NormalType /\ t \notin CriticalType
    BY TypesAssumption
  <1>1. PICK p \in Publisher : pc[p] # "idle" /\ event[p].type = t
    <2>1. ASSUME NEW p \in Publisher, StoreSlot(p) 
          PROVE  last_normal'[t] = last_normal[t] \/ (pc[p] # "idle" /\ event[p].type = t)
      <3>1. \/ last_normal' = last_normal
            \/ pc[p] = "slot" /\ last_normal' = [last_normal EXCEPT ![event[p].type] = event[p]]
        BY <2>1, StoreSlotDoes, Zenon
      <3>. QED  BY <3>1, <1>0 DEF TypeInv
    <2>2. ASSUME NEW p \in Publisher, EvictNormalReplay(p) PROVE last_normal'[t] = last_normal[t]
      BY <2>2, <1>0 DEF EvictNormalReplay, TypeInv
    <2>3. ASSUME NEW s \in Tab, Subscribe(s) PROVE last_normal'[t] = last_normal[t]
      BY <2>3, <1>0 DEF Subscribe
    <2>4. CASE last_normal'[t] = last_normal[t]
      BY <2>4 DEF TransientSlotIsShortLived
    <2>5. CASE UNCHANGED last_normal
      BY <2>4, <2>5
    <2>. QED  BY <2>1, <2>2, <2>3, <2>4, <2>5, Zenon
              DEF Next, PublisherStep, StreamStep, WaitOne, Drain,
                Unsubscribe, SlotExpires, Publish, NextSubscriber, Put, FindFull, DropOldest, RetryPut,
                PutTimesOut, ForceRemove, PublishReturns
  <1>2. CASE pc'[p] = pc[p] /\ event'[p] = event[p]
    BY <1>1, <1>2
  <1>3. ASSUME NEW type \in NormalType \cup CriticalType, Publish(p, type) PROVE FALSE
    BY <1>1, <1>3, PublishDoes
  <1>4. ASSUME NEW to \in {"next", "put", "drop", "retry", "evict"}, pc' = [pc EXCEPT ![p] = to],
               event' = event
        PROVE  pc'[p] # "idle" /\ event'[p].type = t
    BY <1>1, <1>4 DEF TypeInv
  <1>5. StoreSlot(p) => pc' = [pc EXCEPT ![p] = "next"] /\ event' = event
    BY StoreSlotDoes, Zenon
  <1>6. NextSubscriber(p) => (pc' = pc \/ pc' = [pc EXCEPT ![p] = "put"]) /\ event' = event
    BY NextSubscriberDoes, Zenon
  <1>7. RetryPut(p) => pc' = [pc EXCEPT ![p] = "next"] /\ event' = event
    BY RetryPutDoes, Zenon
  <1>8. PublishReturns(p) => pc' = [pc EXCEPT ![p] = "evict"] /\ event' = event
    BY <1>1 DEF PublishReturns, Goto
  <1>9. ~EvictNormalReplay(p)
    BY <1>0, <1>1 DEF EvictNormalReplay, TypeInv
  <1>10. /\ Put(p) \/ PutTimesOut(p) => pc' = [pc EXCEPT ![p] = "next"] /\ event' = event
         /\ FindFull(p) => pc' = [pc EXCEPT ![p] = "drop"] /\ event' = event
         /\ DropOldest(p) => pc' = [pc EXCEPT ![p] = "retry"] /\ event' = event
         /\ ForceRemove(p) => pc' = pc /\ event' = event
    BY DEF Put, PutTimesOut, FindFull, DropOldest, ForceRemove, Goto
  <1>11. PublisherStep(p) => pc'[p] # "idle" /\ event'[p].type = t
    BY <1>1, <1>4, <1>5, <1>6, <1>7, <1>8, <1>9, <1>10 DEF PublisherStep
  <1>. QED  BY <1>1, <1>2, <1>3, <1>11, OwnSteps

-----------------------------------------------------------------------------
(* Theorems                                                                *)

LEMMA Invariance == Spec => []IInv
  <1>1. Init => IInv
    BY InitInv
  <1>2. IInv /\ [Next]_vars => IInv'
    <2> SUFFICES ASSUME IInv, [Next]_vars PROVE IInv'
      OBVIOUS
    <2>1. SeqInv /\ DropInv /\ AddressInv /\ TransientSlotIsShortLived
      BY DEF IInv, SeqInv
    <2>2. TypeInv' /\ PubInv' /\ SlotInv'
      BY <2>1, TypeStep, PubStep, SlotStep DEF SeqInv
    <2>3. NewInv' /\ SeenInv' /\ UnseenInv' /\ OrderInv'
      BY <2>1, NewStep, SeenStep, UnseenStep, OrderStep
    <2>4. DropInv' /\ AddressInv' /\ TransientSlotIsShortLived'
      BY <2>1, DropStep, AddressStep, TransientStep DEF SeqInv
    <2>. QED  BY <2>2, <2>3, <2>4 DEF IInv
  <1>. QED  BY <1>1, <1>2, PTL DEF Spec

\* Every variable keeps its type: in particular no queue ever holds more than
\* QueueSize events, however many threads publish (bus.py, put_nowait and the
\* replay of subscribe).
THEOREM TypeCorrect == Spec => []TypeOK
  <1>1. IInv => TypeOK
    BY DEF IInv, TypeInv, TypeOK
  <1>. QED  BY <1>1, Invariance, PTL

\* A tab gets the events of one type from one thread in the order they were
\* published and each once, whatever is replayed, dropped or refused meanwhile
\* (bus.py, subscribe and publish).
THEOREM InOrder == Spec => []InOrderOnce
  <1>1. IInv => InOrderOnce
    BY DEF IInv, OrderInv, Ordered, InOrderOnce
  <1>. QED  BY <1>1, Invariance, PTL

\* A publication that has returned has left its event with every subscriber of
\* its snapshot, or the event was refused twice, or another normal event that
\* had met the queue full took it out, or the subscriber is cut off; and no
\* publication takes out two events of one queue, though the queue it found
\* full may have been drained before it drops (bus.py, _publish_normal).
THEOREM Addressed == Spec => []AddressedIsAccounted
  <1>1. ASSUME IInv, NEW s \in Tab, NEW e \in addressed[s]
        PROVE  \/ InFlight(e) \/ ~alive[s] \/ TakenOut(s, e)
               \/ e.type \in NormalType /\ e \in missed[s]
               \/ \E i \in DOMAIN Seen(s) : Seen(s)[i] = e
    <2>1. Accounted(s, e) \/ Underway(s, e)
      BY <1>1 DEF IInv, AddressInv
    <2>2. Lost(s, e) => TakenOut(s, e)
      <3>1. ASSUME NEW d \in dropped[s], d.out = e PROVE TakenOut(s, e)
        <4>1. d.by \in addressed[s] /\ d.by.type \in NormalType /\ d.by # d.out
          BY <1>1 DEF IInv, DropInv
        <4>2. d = [out |-> e, by |-> d.by]
          BY <1>1, <3>1 DEF IInv, TypeInv
        <4>. QED  BY <3>1, <4>1, <4>2 DEF TakenOut
      <3>. QED  BY <3>1 DEF Lost
    <2>. QED  BY <2>1, <2>2 DEF Accounted, Underway, InFlight, Within
  <1>2. IInv => \A s \in Tab : \A c, d \in dropped[s] : c.by = d.by => c = d
    BY DEF IInv, DropInv
  <1>3. IInv => AddressedIsAccounted
    BY <1>1, <1>2 DEF AddressedIsAccounted
  <1>. QED  BY <1>3, Invariance, PTL

\* A transient event's slot is filled only while somebody publishes that type:
\* a tab that attaches later is not shown a login that is over (composition.py,
\* publish followed by evict_normal_replay).
THEOREM TransientSlot == Spec => []TransientSlotIsShortLived
  <1>1. IInv => TransientSlotIsShortLived
    BY DEF IInv
  <1>. QED  BY <1>1, Invariance, PTL

-----------------------------------------------------------------------------
(* SessionExpiredEmail: types                                              *)

HIDE DEF busVars, pubVars, tabVars, lossVars, vars
USE DEF donorVars, queueVars, epochVars, loopRest, mailVars

MailType == [pc : {"wait", "guard", "send", "set", "dead", "raised"},
             todo : SUBSET Recipient, all : SUBSET Recipient]

ConfigType == [enabled : BOOLEAN, recipients : SUBSET Recipient, dnd : BOOLEAN]

LEMMA ReadingType ==
  Reading \in MailType /\ Dead \in MailType /\ Raised \in MailType
  BY DEF Reading, Dead, Raised, MailType

LEMMA MailTypeInit == MailInit => EmailTypeOK
  <1>. SUFFICES ASSUME MailInit PROVE EmailTypeOK
    OBVIOUS
  <1>1. mail \in MailType /\ config \in ConfigType
    BY ReadingType DEF MailInit, ConfigType
  <1>2. events \in 0..MaxEvents
    BY EventsAssumption DEF MailInit
  <1>3. mails \in [Recipient -> 0..2]
    BY DEF MailInit
  <1>4. /\ up \in BOOLEAN /\ cookies \in BOOLEAN /\ hook \in BOOLEAN
        /\ polling \in BOOLEAN /\ probe \in BOOLEAN /\ attached \in BOOLEAN /\ guard \in BOOLEAN
        /\ torn \in BOOLEAN /\ told \in BOOLEAN /\ slipped \in BOOLEAN
    BY Zenon DEF MailInit
  <1>. QED  BY <1>1, <1>2, <1>3, <1>4, Zenon DEF EmailTypeOK, MailType, ConfigType

\* The queue and the counters of mails stay within their bounds.
LEMMA EventsStep ==
  ASSUME EmailTypeOK, [MailNext]_mailVars
  PROVE  events' \in 0..MaxEvents /\ mails' \in [Recipient -> 0..2]
  <1>. USE EventsAssumption DEF EmailTypeOK
  <1>1. CASE LoopStep
    BY <1>1 DEF LoopStep, TakeEvent, CheckGuard, SetGuard, LoopStops, SendMail
  <1>2. CASE ReadPage \/ QueueOverflows \/ Crash \/ Boot
    BY <1>2 DEF ReadPage, QueueOverflows, Crash, Boot
  <1>3. CASE ResetGuard
    BY <1>3 DEF ResetGuard
  <1>4. CASE \/ Expire \/ LoginSucceeds \/ PollingChanges \/ RequestPage \/ Configure
             \/ LoopDies \/ Stop
    BY <1>4 DEF Expire, LoginSucceeds, PollingChanges, RequestPage, Configure, LoopDies, Stop
  <1>5. CASE UNCHANGED mailVars
    BY <1>5
  <1>. QED  BY <1>1, <1>2, <1>3, <1>4, <1>5 DEF MailNext

LEMMA MailStep ==
  ASSUME mail \in MailType, config \in ConfigType, [MailNext]_mailVars
  PROVE  mail' \in MailType /\ config' \in ConfigType
  <1>. USE ReadingType DEF MailType
  <1>1. CASE TakeEvent
    BY <1>1 DEF TakeEvent, Reading, ConfigType
  <1>2. CASE CheckGuard
    BY <1>2 DEF CheckGuard
  <1>3. ASSUME NEW r \in Recipient, SendMail(r)
        PROVE  mail' \in MailType /\ config' \in ConfigType
    BY <1>3 DEF SendMail, Tried
  <1>4. CASE SetGuard \/ LoopStops \/ LoopDies \/ Crash \/ Boot
    BY <1>4 DEF SetGuard, LoopStops, LoopDies, Crash, Boot
  <1>5. CASE Configure
    BY <1>5 DEF Configure, ConfigType
  <1>6. CASE \/ Expire \/ LoginSucceeds \/ ResetGuard \/ PollingChanges \/ RequestPage
             \/ ReadPage \/ QueueOverflows \/ Stop \/ UNCHANGED mailVars
    BY <1>6 DEF Expire, LoginSucceeds, ResetGuard, PollingChanges, RequestPage, ReadPage,
                QueueOverflows, Stop
  <1>. QED  BY <1>1, <1>2, <1>3, <1>4, <1>5, <1>6 DEF MailNext, LoopStep

\* The flags are Boolean values.
Flags ==
  /\ up \in BOOLEAN /\ cookies \in BOOLEAN /\ hook \in BOOLEAN
  /\ polling \in BOOLEAN /\ probe \in BOOLEAN /\ attached \in BOOLEAN /\ guard \in BOOLEAN
  /\ torn \in BOOLEAN /\ told \in BOOLEAN /\ slipped \in BOOLEAN

LEMMA SendingType == Sending \in BOOLEAN
  BY SMT DEF Sending

LEMMA FlagStep == Flags /\ [MailNext]_mailVars => Flags'
  <1>. SUFFICES ASSUME Flags, [MailNext]_mailVars PROVE Flags'
    OBVIOUS
  <1>. USE Zenon DEF Flags
  <1>1. CASE Expire \/ PollingChanges \/ RequestPage \/ ReadPage
    BY <1>1 DEF Expire, PollingChanges, RequestPage, ReadPage
  <1>8. CASE Configure \/ Stop
    BY <1>8 DEF Configure, Stop
  <1>2. CASE LoginSucceeds
    BY <1>2 DEF LoginSucceeds
  <1>3. CASE ResetGuard
    BY <1>3, SendingType DEF ResetGuard
  <1>4. CASE QueueOverflows
    BY <1>4 DEF QueueOverflows
  <1>5. CASE LoopStep
    <2>1. CASE TakeEvent \/ CheckGuard
      BY <2>1 DEF TakeEvent, CheckGuard
    <2>2. CASE SetGuard
      BY <2>2 DEF SetGuard
    <2>3. CASE LoopStops
      BY <2>3 DEF LoopStops
    <2>4. ASSUME NEW r \in Recipient, SendMail(r) PROVE Flags'
      BY <2>4 DEF SendMail
    <2>. QED  BY <1>5, <2>1, <2>2, <2>3, <2>4 DEF LoopStep
  <1>6. CASE LoopDies \/ Crash \/ Boot
    BY <1>6 DEF Sending, HookLost, LoopDies, Crash, Boot
  <1>7. CASE UNCHANGED mailVars
    BY <1>7
  <1>. QED  BY <1>1, <1>2, <1>3, <1>4, <1>5, <1>6, <1>7, <1>8 DEF MailNext

LEMMA MailTypeStep == EmailTypeOK /\ [MailNext]_mailVars => EmailTypeOK'
  <1>. SUFFICES ASSUME EmailTypeOK, [MailNext]_mailVars PROVE EmailTypeOK'
    OBVIOUS
  <1>1. mail \in MailType /\ config \in ConfigType
    BY DEF EmailTypeOK, MailType, ConfigType
  <1>2. mail' \in MailType /\ config' \in ConfigType
    BY <1>1, MailStep
  <1>3. Flags
    BY Zenon DEF EmailTypeOK, Flags
  <1>4. Flags'
    BY <1>3, FlagStep
  <1>5. events' \in 0..MaxEvents /\ mails' \in [Recipient -> 0..2]
    BY EventsStep
  <1>. QED  BY <1>2, <1>4, <1>5, Zenon DEF EmailTypeOK, Flags, MailType, ConfigType

\* The variables keep their types.
THEOREM MailTypeCorrect == MailSpec => []EmailTypeOK
  BY MailTypeInit, MailTypeStep, PTL DEF MailSpec

-----------------------------------------------------------------------------
(* One mail per loss                                                       *)

\* As long as no death of the loop came between a mail and the guard: while the
\* guard is down and nothing is going out, nobody has got a mail; while mails
\* are going out the guard is down and those still to be tried have got none.
Unmailed ==
  /\ Sending => ~guard
  /\ ~torn /\ ~Sending /\ ~guard => \A r \in Recipient : mails[r] = 0
  /\ ~torn /\ Sending => \A r \in mail.todo : mails[r] = 0

EpochInv == EmailTypeOK /\ Unmailed /\ OneMailPerEpoch

LEMMA EpochInit == MailInit => Unmailed /\ OneMailPerEpoch
  BY DEF MailInit, Unmailed, OneMailPerEpoch, Reading, Sending

LEMMA EpochStep == EpochInv /\ [MailNext]_mailVars => Unmailed' /\ OneMailPerEpoch'
  <1>. SUFFICES ASSUME EpochInv, [MailNext]_mailVars
                PROVE  Unmailed' /\ OneMailPerEpoch'
    OBVIOUS
  <1>. USE DEF EpochInv, EmailTypeOK, Unmailed, OneMailPerEpoch, Sending
  <1>1. CASE TakeEvent
    BY <1>1 DEF TakeEvent, Reading
  <1>2. CASE CheckGuard
    BY <1>2 DEF CheckGuard, Reading
  <1>3. ASSUME NEW r \in Recipient, SendMail(r)
        PROVE  Unmailed' /\ OneMailPerEpoch'
    <2>1. \A s \in Recipient \ {r} : mails'[s] = mails[s]
      BY <1>3 DEF SendMail
    <2>2. mail'.todo = mail.todo \ {r} /\ mail'.pc \in {"send", "set"}
      BY <1>3 DEF SendMail, Tried
    <2>3. ~torn => mails'[r] <= 1
      BY <1>3 DEF SendMail
    <2>4. mail'.todo \subseteq Recipient \ {r}
      BY <2>2
    <2>5. UNCHANGED <<guard, torn>> /\ Sending
      BY <1>3 DEF SendMail
    <2>. QED  BY <2>1, <2>2, <2>3, <2>4, <2>5
  <1>4. CASE SetGuard
    BY <1>4 DEF SetGuard, Reading
  <1>5. CASE LoopStops
    BY <1>5 DEF LoopStops, Reading, Dead
  <1>6. CASE LoopDies
    BY <1>6 DEF LoopDies, Reading, Raised
  <1>7. CASE Crash
    BY <1>7 DEF Crash, Reading, Dead
  <1>8. CASE Boot
    BY <1>8 DEF Boot, Reading
  <1>9. CASE ResetGuard
    BY <1>9 DEF ResetGuard
  <1>10. CASE \/ Expire \/ LoginSucceeds \/ PollingChanges \/ RequestPage \/ ReadPage
              \/ QueueOverflows \/ Configure \/ Stop \/ UNCHANGED mailVars
    <2>1. UNCHANGED <<mail, guard, mails, torn>>
      BY <1>10, Zenon DEF Expire, LoginSucceeds, PollingChanges, RequestPage, ReadPage,
                          QueueOverflows, Configure, Stop
    <2>. QED  BY <2>1
  <1>. QED  BY <1>1, <1>2, <1>3, <1>4, <1>5, <1>6, <1>7, <1>8, <1>9, <1>10
            DEF MailNext, LoopStep

\* No recipient gets two mails for one loss of the session, unless the process
\* or the loop ended between a mail and the guard.
THEOREM OneMail == MailSpec => []OneMailPerEpoch
  <1>1. MailInit => EpochInv
    BY MailTypeInit, EpochInit DEF EpochInv
  <1>2. EpochInv /\ [MailNext]_mailVars => EpochInv'
    BY MailTypeStep, EpochStep DEF EpochInv
  <1>3. EpochInv => OneMailPerEpoch
    BY DEF EpochInv
  <1>. QED  BY <1>1, <1>2, <1>3, PTL DEF MailSpec

=============================================================================
