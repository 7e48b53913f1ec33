--------------------------- MODULE AppLifespan_proof ---------------------------
(***************************************************************************)
(* Theorems about AppLifespan and Migrations, for every catalogue of       *)
(* regions, any number of processes and of inodes.  First the chain of     *)
(* migrations by itself: the shape that each step gives a database, and    *)
(* from it where the chain ends.  Then the invariants of the processes:    *)
(* their connections, the lock and its name, and the database they share.  *)
(***************************************************************************)
EXTENDS AppLifespan, WellFoundedInduction, TLAPS

-----------------------------------------------------------------------------
(* Least, and the types of what is made with it.                           *)

LEMMA LeastNatural ==
  ASSUME NEW S \in SUBSET Nat, S # {}
  PROVE  Least(S) \in S
<1> DEFINE R == OpToRel(<, Nat)
<1>1. PICK x \in S : \A y \in S : <<y, x>> \notin R
  BY NatLessThanWellFounded, WFMin
<1>2. \A y \in S : ~(y < x)
  BY <1>1 DEF OpToRel
<1>3. \A y \in S : x <= y
  BY <1>2
<1> QED
  BY <1>3 DEF Least

\* A date for every macro-region.
Dates == [Macro -> Nat]

\* The region of a lot as version v left it, and the rows of the subscriptions.
RegionsAt(v, placed) ==
  [t \in Title |->
      IF v < 4 \/ (v < 8 /\ ~placed) THEN NoRegion
      ELSE IF v < 8 THEN MacroOf(t) ELSE SiteOf(t)]

SubsAt(v, date) ==
  [r \in Macro \cup Subject |->
      LET days == {date[m] : m \in MacrosOf(r)} \ {0}
      IN IF v \in 4..9 /\ r \in Macro THEN date[r]
         ELSE IF v >= 10 /\ r \in Subject /\ days # {} THEN Least(days)
         ELSE 0]

SentAt(v) == v >= 2

\* A database half way through the migrations: its version is still w.
Shape(w, v, placed, date) ==
  [version |-> w, objects |-> ObjectsAt(v), sent |-> SentAt(v),
   region_id |-> RegionsAt(v, placed), subs |-> SubsAt(v, date)]

LEMMA OldIsShape ==
  ASSUME NEW v, NEW placed, NEW date
  PROVE  OldDatabase(v, placed, date) = Shape(v, v, placed, date)
  BY DEF OldDatabase, Shape, RegionsAt, SubsAt, SentAt

-----------------------------------------------------------------------------
(* Each migration takes what one version left to what the next one leaves. *)

LEMMA Objects ==
  /\ ObjectsAt(1) \cup {"notifications.status", "smtp_host"} = ObjectsAt(2)
  /\ ObjectsAt(2) \cup {"smtp_from_name"} = ObjectsAt(3)
  /\ ObjectsAt(3) \cup {"region_id", "region_subscriptions"} = ObjectsAt(4)
  /\ ObjectsAt(4) \cup {"date_registry"} = ObjectsAt(5)
  /\ ObjectsAt(5) \ {"starred"} = ObjectsAt(6)
  /\ ObjectsAt(6) = ObjectsAt(7)
  /\ ObjectsAt(7) = ObjectsAt(8)
  /\ ObjectsAt(8) \cup {"idx_lots_first_seen"} = ObjectsAt(9)
  /\ ObjectsAt(9) = ObjectsAt(10)
  /\ ObjectsAt(10) \cup {"is_backfill"} = ObjectsAt(11)
  /\ ObjectsAt(11) = SchemaObjects
  /\ \A v \in 1..11 : ObjectsAt(v) \subseteq SchemaObjects \cup {"starred"}
  BY DEF ObjectsAt, SchemaObjects

LEMMA Regions ==
  /\ \A placed : /\ RegionsAt(1, placed) = RegionsAt(2, placed)
                 /\ RegionsAt(2, placed) = RegionsAt(3, placed)
                 /\ RegionsAt(4, placed) = RegionsAt(5, placed)
                 /\ RegionsAt(5, placed) = RegionsAt(6, placed)
                 /\ RegionsAt(8, placed) = RegionsAt(9, placed)
                 /\ RegionsAt(9, placed) = RegionsAt(10, placed)
                 /\ RegionsAt(10, placed) = RegionsAt(11, placed)
                 /\ RegionsAt(8, placed) = [t \in Title |-> SiteOf(t)]
                 /\ RegionsAt(11, placed) = RegionsAt(11, TRUE)
  /\ RegionsAt(4, TRUE) = [t \in Title |-> MacroOf(t)]
  /\ RegionsAt(7, TRUE) = [t \in Title |-> MacroOf(t)]
  BY DEF RegionsAt

\* V6toV7 fills in what it can, so nothing that could be placed is left out.
LEMMA Backfilled ==
  ASSUME NEW placed
  PROVE  [t \in Title |-> IF RegionsAt(6, placed)[t] = NoRegion THEN MacroOf(t)
                          ELSE RegionsAt(6, placed)[t]]
         = RegionsAt(7, TRUE)
  BY DEF RegionsAt

LEMMA Subs ==
  ASSUME NEW date
  PROVE  /\ SubsAt(1, date) = SubsAt(2, date) /\ SubsAt(2, date) = SubsAt(3, date)
         /\ SubsAt(3, date) = SubsAt(4, NoDates)
         /\ SubsAt(4, date) = SubsAt(5, date) /\ SubsAt(5, date) = SubsAt(6, date)
         /\ SubsAt(6, date) = SubsAt(7, date) /\ SubsAt(7, date) = SubsAt(8, date)
         /\ SubsAt(8, date) = SubsAt(9, date) /\ SubsAt(10, date) = SubsAt(11, date)
<1>1. \A v \in {1, 2, 3} : SubsAt(v, date) = [r \in Macro \cup Subject |-> 0]
  BY DEF SubsAt
<1>2. SubsAt(4, NoDates) = [r \in Macro \cup Subject |-> 0]
  BY DEF SubsAt, NoDates
<1>3. \A v \in 4..9 : SubsAt(v, date) =
        [r \in Macro \cup Subject |-> IF r \in Macro THEN date[r] ELSE 0]
  BY DEF SubsAt
<1>4. SubsAt(10, date) = SubsAt(11, date)
  BY DEF SubsAt
<1> QED
  BY <1>1, <1>2, <1>3, <1>4

\* The rows of the macro-regions become rows of their subjects, each with the
\* earliest date of the macro-regions it was subscribed through.
LEMMA Renumbered ==
  ASSUME NEW d, NEW date \in Dates, d.subs = SubsAt(9, date)
  PROVE  [r \in Macro \cup Subject |->
            LET days == {d.subs[r]} \cup {d.subs[m] : m \in MacrosOf(r)}
            IN IF r \in Macro \/ days \subseteq {0} THEN 0 ELSE Least(days \ {0})]
         = SubsAt(10, date)
<1> DEFINE from(r) == {d.subs[r]} \cup {d.subs[m] : m \in MacrosOf(r)}
           to(r) == {date[m] : m \in MacrosOf(r)} \ {0}
<1>1. ASSUME NEW r \in Macro \cup Subject
      PROVE  (IF r \in Macro \/ from(r) \subseteq {0} THEN 0 ELSE Least(from(r) \ {0}))
             = SubsAt(10, date)[r]
  <2>1. SubsAt(10, date)[r]
        = IF r \in Subject /\ to(r) # {} THEN Least(to(r)) ELSE 0
    BY DEF SubsAt
  <2>2. CASE r \in Macro
    BY <2>1, <2>2, RegionAssumption
  <2>3. CASE r \in Subject
    <3>1. r \notin Macro
      BY <2>3, RegionAssumption
    <3>2. d.subs[r] = 0
      BY <3>1 DEF SubsAt
    <3>3. \A m \in MacrosOf(r) : d.subs[m] = date[m]
      BY DEF SubsAt, MacrosOf
    <3>4. from(r) \ {0} = to(r)
      BY <3>2, <3>3
    <3>5. from(r) \subseteq {0} <=> to(r) = {}
      BY <3>4
    <3> HIDE DEF from, to
    <3> QED
      BY <2>1, <2>3, <3>1, <3>4, <3>5
  <2> QED
    BY <2>2, <2>3
<1> QED
  BY <1>1 DEF SubsAt

\* The one migration that starts from each version.
LEMMA Registry ==
  ASSUME NEW d
  PROVE  /\ Apply(1, d) = V1toV2(d)
         /\ Apply(2, d) = V2toV3(d)
         /\ Apply(3, d) = V3toV4(d)
         /\ Apply(4, d) = V4toV5(d)
         /\ Apply(5, d) = V5toV6(d)
         /\ Apply(6, d) = V6toV7(d)
         /\ Apply(7, d) = V7toV8(d)
         /\ Apply(8, d) = V8toV9(d)
         /\ Apply(9, d) = V9toV10(d)
         /\ Apply(10, d) = V10toV11(d)
  BY DEF Apply

LEMMA TwoFields ==
  ASSUME NEW w, NEW o, NEW s, NEW r, NEW u, NEW x, NEW y, NEW z
  PROVE  LET d == [version |-> w, objects |-> o, sent |-> s, region_id |-> r, subs |-> u]
         IN /\ [d EXCEPT !.objects = x, !.sent = y]
               = [version |-> w, objects |-> x, sent |-> y, region_id |-> r, subs |-> u]
            /\ [d EXCEPT !.objects = x, !.region_id = z]
               = [version |-> w, objects |-> x, sent |-> s, region_id |-> z, subs |-> u]
            /\ [d EXCEPT !.region_id = z]
               = [version |-> w, objects |-> o, sent |-> s, region_id |-> z, subs |-> u]
<1> DEFINE d == [version |-> w, objects |-> o, sent |-> s, region_id |-> r, subs |-> u]
           e == [version |-> w, objects |-> x, sent |-> s, region_id |-> r, subs |-> u]
<1>1. [d EXCEPT !.objects = x] = e
  OBVIOUS
<1>2. /\ [d EXCEPT !.objects = x, !.sent = y] = [[d EXCEPT !.objects = x] EXCEPT !.sent = y]
      /\ [d EXCEPT !.objects = x, !.region_id = z]
         = [[d EXCEPT !.objects = x] EXCEPT !.region_id = z]
  BY Zenon
<1>3. [e EXCEPT !.sent = y]
      = [version |-> w, objects |-> x, sent |-> y, region_id |-> r, subs |-> u]
  OBVIOUS
<1>4. [e EXCEPT !.region_id = z]
      = [version |-> w, objects |-> x, sent |-> s, region_id |-> z, subs |-> u]
  OBVIOUS
<1>5. [d EXCEPT !.region_id = z]
      = [version |-> w, objects |-> o, sent |-> s, region_id |-> z, subs |-> u]
  OBVIOUS
<1> QED
  BY <1>1, <1>2, <1>3, <1>4, <1>5, Zenon

LEMMA Sent ==
  /\ SentAt(2) = TRUE
  /\ SentAt(2) = SentAt(3)
  /\ SentAt(3) = SentAt(4)
  /\ SentAt(4) = SentAt(5)
  /\ SentAt(5) = SentAt(6)
  /\ SentAt(6) = SentAt(7)
  /\ SentAt(7) = SentAt(8)
  /\ SentAt(8) = SentAt(9)
  /\ SentAt(9) = SentAt(10)
  /\ SentAt(10) = SentAt(11)
  BY DEF SentAt

LEMMA OneMigration ==
  ASSUME NEW v \in 1..10, NEW w, NEW placed \in BOOLEAN, NEW date \in Dates,
         v < 4 => date = NoDates
  PROVE  \E q \in BOOLEAN :
           Apply(v, Shape(w, v, placed, date)) = Shape(w, v + 1, q, date)
<1>1. CASE v = 1
  <2>1. /\ ObjectsAt(1) \cup {"notifications.status", "smtp_host"} = ObjectsAt(2)
        /\ RegionsAt(1, placed) = RegionsAt(2, placed)
        /\ SubsAt(1, date) = SubsAt(2, date)
    BY Objects, Regions, Subs
  <2> DEFINE d == Shape(w, 1, placed, date)
  <2>2. V1toV2(d) = [d EXCEPT !.objects = ObjectsAt(2), !.sent = TRUE]
    <3>1. d.objects = ObjectsAt(1)
      BY DEF Shape
    <3> HIDE DEF d
    <3> QED
      BY <2>1, <3>1, Zenon DEF V1toV2
  <2>3. SentAt(2) = TRUE
    BY Sent
  <2>4. V1toV2(d) = Shape(w, 2, placed, date)
    BY <2>1, <2>2, <2>3, TwoFields, Zenon DEF Shape
  <2> QED
    BY <1>1, <2>4, Registry
<1>2. CASE v = 2
  <2>1. /\ ObjectsAt(2) \cup {"smtp_from_name"} = ObjectsAt(3)
        /\ RegionsAt(2, placed) = RegionsAt(3, placed)
        /\ SubsAt(2, date) = SubsAt(3, date)
    BY Objects, Regions, Subs
  <2>2. V2toV3(Shape(w, 2, placed, date)) = Shape(w, 3, placed, date)
    BY <2>1, Sent DEF V2toV3, Shape
  <2> QED
    BY <1>2, <2>2, Registry
<1>3. CASE v = 3
  <2>1. /\ ObjectsAt(3) \cup {"region_id", "region_subscriptions"} = ObjectsAt(4)
        /\ [t \in Title |-> MacroOf(t)] = RegionsAt(4, TRUE)
        /\ SubsAt(3, date) = SubsAt(4, NoDates)
    BY Objects, Regions, Subs
  <2> DEFINE d == Shape(w, 3, placed, date)
  <2>2. V3toV4(d) = [d EXCEPT !.objects = ObjectsAt(4), !.region_id = RegionsAt(4, TRUE)]
    <3>1. d.objects = ObjectsAt(3)
      BY DEF Shape
    <3> HIDE DEF d
    <3> QED
      BY <2>1, <3>1, Zenon DEF V3toV4
  <2>3. SentAt(3) = SentAt(4)
    BY Sent
  <2>4. V3toV4(d) = Shape(w, 4, TRUE, NoDates)
    BY <2>1, <2>2, <2>3, TwoFields, Zenon DEF Shape
  <2>5. v + 1 = 4
    BY <1>3
  <2>6. date = NoDates
    BY <1>3
  <2>7. Apply(v, Shape(w, v, placed, date)) = Shape(w, v + 1, TRUE, date)
    BY <1>3, <2>4, <2>5, <2>6, Registry, Zenon
  <2> QED
    BY <2>7, Zenon
<1>4. CASE v = 4
  <2>1. /\ ObjectsAt(4) \cup {"date_registry"} = ObjectsAt(5)
        /\ RegionsAt(4, placed) = RegionsAt(5, placed)
        /\ SubsAt(4, date) = SubsAt(5, date)
    BY Objects, Regions, Subs
  <2>2. V4toV5(Shape(w, 4, placed, date)) = Shape(w, 5, placed, date)
    BY <2>1, Sent DEF V4toV5, Shape
  <2> QED
    BY <1>4, <2>2, Registry
<1>5. CASE v = 5
  <2>1. /\ ObjectsAt(5) \ {"starred"} = ObjectsAt(6)
        /\ RegionsAt(5, placed) = RegionsAt(6, placed)
        /\ SubsAt(5, date) = SubsAt(6, date)
    BY Objects, Regions, Subs
  <2>2. V5toV6(Shape(w, 5, placed, date)) = Shape(w, 6, placed, date)
    BY <2>1, Sent DEF V5toV6, Shape
  <2> QED
    BY <1>5, <2>2, Registry
<1>6. CASE v = 6
  <2>1. /\ ObjectsAt(6) = ObjectsAt(7)
        /\ SubsAt(6, date) = SubsAt(7, date)
    BY Objects, Regions, Subs
  <2>2. [t \in Title |-> IF RegionsAt(6, placed)[t] = NoRegion THEN MacroOf(t)
                         ELSE RegionsAt(6, placed)[t]] = RegionsAt(7, TRUE)
    BY Backfilled
  <2> DEFINE d == Shape(w, 6, placed, date)
  <2>3. V6toV7(d) = [d EXCEPT !.region_id = RegionsAt(7, TRUE)]
    <3>1. d.region_id = RegionsAt(6, placed)
      BY DEF Shape
    <3> HIDE DEF d
    <3> QED
      BY <2>2, <3>1, Zenon DEF V6toV7
  <2>4. SentAt(6) = SentAt(7)
    BY Sent
  <2>5. V6toV7(d) = Shape(w, 7, TRUE, date)
    BY <2>1, <2>3, <2>4, TwoFields, Zenon DEF Shape
  <2>6. v + 1 = 7
    BY <1>6
  <2>7. Apply(v, Shape(w, v, placed, date)) = Shape(w, v + 1, TRUE, date)
    BY <1>6, <2>5, <2>6, Registry, Zenon
  <2> QED
    BY <2>7, Zenon
<1>7. CASE v = 7
  <2>1. /\ ObjectsAt(7) = ObjectsAt(8)
        /\ [t \in Title |-> SiteOf(t)] = RegionsAt(8, placed)
        /\ SubsAt(7, date) = SubsAt(8, date)
    BY Objects, Regions, Subs
  <2>2. V7toV8(Shape(w, 7, placed, date)) = Shape(w, 8, placed, date)
    BY <2>1, Sent DEF V7toV8, Shape
  <2> QED
    BY <1>7, <2>2, Registry
<1>8. CASE v = 8
  <2>1. /\ ObjectsAt(8) \cup {"idx_lots_first_seen"} = ObjectsAt(9)
        /\ RegionsAt(8, placed) = RegionsAt(9, placed)
        /\ SubsAt(8, date) = SubsAt(9, date)
    BY Objects, Regions, Subs
  <2>2. V8toV9(Shape(w, 8, placed, date)) = Shape(w, 9, placed, date)
    BY <2>1, Sent DEF V8toV9, Shape
  <2> QED
    BY <1>8, <2>2, Registry
<1>9. CASE v = 9
  <2>1. /\ ObjectsAt(9) = ObjectsAt(10)
        /\ RegionsAt(9, placed) = RegionsAt(10, placed)
    BY Objects, Regions, Subs
  <2>2. Shape(w, 9, placed, date).subs = SubsAt(9, date)
    BY DEF Shape
  <2>3. V9toV10(Shape(w, 9, placed, date))
        = [Shape(w, 9, placed, date) EXCEPT !.subs = SubsAt(10, date)]
    BY <2>2, Renumbered DEF V9toV10
  <2>4. V9toV10(Shape(w, 9, placed, date)) = Shape(w, 10, placed, date)
    BY <2>1, <2>3, Sent DEF Shape
  <2> QED
    BY <1>9, <2>4, Registry
<1>10. CASE v = 10
  <2>1. /\ ObjectsAt(10) \cup {"is_backfill"} = ObjectsAt(11)
        /\ RegionsAt(10, placed) = RegionsAt(11, placed)
        /\ SubsAt(10, date) = SubsAt(11, date)
    BY Objects, Regions, Subs
  <2>2. V10toV11(Shape(w, 10, placed, date)) = Shape(w, 11, placed, date)
    BY <2>1, Sent DEF V10toV11, Shape
  <2> QED
    BY <1>10, <2>2, Registry
<1> QED
  BY <1>1, <1>2, <1>3, <1>4, <1>5, <1>6, <1>7, <1>8, <1>9, <1>10

-----------------------------------------------------------------------------
(* The chain: run_pending's loop, which is a recursive function here.      *)

LEMMA ChainExists ==
  ASSUME NEW d, NEW w \in 1..10
  PROVE  \E f : f = [v \in w..11 |-> IF v = w THEN d ELSE Apply(v - 1, f[v - 1])]
<1> DEFINE Up(n) == \E f : f = [v \in w..n |-> IF v = w THEN d ELSE Apply(v - 1, f[v - 1])]
<1>1. Up(w)
  <2> DEFINE g == [v \in w..w |-> d]
  <2>1. g = [v \in w..w |-> IF v = w THEN d ELSE Apply(v - 1, g[v - 1])]
    OBVIOUS
  <2> QED
    BY <2>1
<1>2. ASSUME NEW n \in w..10, Up(n) PROVE Up(n + 1)
  <2>1. PICK f : f = [v \in w..n |-> IF v = w THEN d ELSE Apply(v - 1, f[v - 1])]
    BY <1>2
  <2> DEFINE g == [v \in w..(n + 1) |-> IF v <= n THEN f[v] ELSE Apply(n, f[n])]
  <2>2. ASSUME NEW v \in w..(n + 1)
        PROVE  g[v] = IF v = w THEN d ELSE Apply(v - 1, g[v - 1])
    <3>1. CASE v = w
      BY <2>1, <3>1
    <3>2. CASE v # w
      <4>1. v - 1 \in w..n /\ g[v - 1] = f[v - 1]
        BY <3>2
      <4>2. CASE v <= n
        <5>1. g[v] = f[v] /\ v \in w..n
          BY <4>2
        <5>2. f[v] = Apply(v - 1, f[v - 1])
          BY <2>1, <3>2, <5>1
        <5> HIDE DEF g
        <5> QED
          BY <3>2, <4>1, <5>1, <5>2
      <4>3. CASE v = n + 1
        <5>1. g[v] = Apply(n, f[n]) /\ v - 1 = n
          BY <4>3
        <5> HIDE DEF g
        <5> QED
          BY <3>2, <4>1, <5>1
      <4> QED
        BY <4>2, <4>3
    <3> QED
      BY <3>1, <3>2
  <2>3. g = [v \in w..(n + 1) |-> g[v]]
    OBVIOUS
  <2> HIDE DEF g
  <2>4. g = [v \in w..(n + 1) |-> IF v = w THEN d ELSE Apply(v - 1, g[v - 1])]
    BY <2>2, <2>3
  <2> QED
    BY <2>4
<1> HIDE DEF Up
<1>3. w <= 1 => Up(1)
  BY <1>1
<1>4. w <= 2 => Up(2)
  BY <1>1, <1>2, <1>3
<1>5. w <= 3 => Up(3)
  BY <1>1, <1>2, <1>4
<1>6. w <= 4 => Up(4)
  BY <1>1, <1>2, <1>5
<1>7. w <= 5 => Up(5)
  BY <1>1, <1>2, <1>6
<1>8. w <= 6 => Up(6)
  BY <1>1, <1>2, <1>7
<1>9. w <= 7 => Up(7)
  BY <1>1, <1>2, <1>8
<1>10. w <= 8 => Up(8)
  BY <1>1, <1>2, <1>9
<1>11. w <= 9 => Up(9)
  BY <1>1, <1>2, <1>10
<1>12. w <= 10 => Up(10)
  BY <1>1, <1>2, <1>11
<1>13. Up(11)
  BY <1>2, <1>12
<1> QED
  BY <1>13 DEF Up

\* Whatever version's database is found, the chain ends in the latest one, with
\* exactly the dates it had; a version before 4 had no subscriptions to date.
THEOREM MigratedIsLatest ==
  ASSUME NEW w \in 1..10, NEW placed \in BOOLEAN, NEW date \in Dates,
         w < 4 => date = NoDates
  PROVE  Migrated(OldDatabase(w, placed, date)) = OldDatabase(11, TRUE, date)
<1> DEFINE d == OldDatabase(w, placed, date)
           after == CHOOSE f : f = [v \in w..11 |-> IF v = w THEN d
                                                    ELSE Apply(v - 1, f[v - 1])]
           Reached(n) == \E q \in BOOLEAN : after[n] = Shape(w, n, q, date)
<1>1. d.version = w /\ d = Shape(w, w, placed, date)
  BY OldIsShape DEF Shape
<1>2. Migrated(d) = [after[11] EXCEPT !.version = 11]
  <2> HIDE DEF d
  <2> QED
    BY <1>1 DEF Migrated, LATEST_SCHEMA_VERSION
<1>3. after = [v \in w..11 |-> IF v = w THEN d ELSE Apply(v - 1, after[v - 1])]
  <2> HIDE DEF d
  <2> QED
    BY ChainExists
<1> HIDE DEF d, after
<1>4. after[w] = d /\ \A n \in w..10 : after[n + 1] = Apply(n, after[n])
  <2>1. after[w] = d
    BY <1>3
  <2>2. ASSUME NEW n \in w..10 PROVE after[n + 1] = Apply(n, after[n])
    <3>1. n + 1 \in w..11 /\ n + 1 # w /\ (n + 1) - 1 = n
      OBVIOUS
    <3>2. after[n + 1] = IF n + 1 = w THEN d ELSE Apply((n + 1) - 1, after[(n + 1) - 1])
      BY <1>3, <3>1
    <3> QED
      BY <3>1, <3>2
  <2> QED
    BY <2>1, <2>2
<1>5. Reached(w)
  BY <1>1, <1>4
<1>6. ASSUME NEW n \in w..10, Reached(n) PROVE Reached(n + 1)
  <2>1. PICK q \in BOOLEAN : after[n] = Shape(w, n, q, date)
    BY <1>6
  <2>2. n \in 1..10 /\ (n < 4 => date = NoDates)
    OBVIOUS
  <2>3. PICK q2 \in BOOLEAN :
          Apply(n, Shape(w, n, q, date)) = Shape(w, n + 1, q2, date)
    BY <2>2, OneMigration
  <2>4. after[n + 1] = Shape(w, n + 1, q2, date)
    BY <1>4, <2>1, <2>3
  <2> QED
    BY <2>4
<1> HIDE DEF Reached
<1>7. w <= 1 => Reached(1)
  BY <1>5
<1>8. w <= 2 => Reached(2)
  BY <1>5, <1>6, <1>7
<1>9. w <= 3 => Reached(3)
  BY <1>5, <1>6, <1>8
<1>10. w <= 4 => Reached(4)
  BY <1>5, <1>6, <1>9
<1>11. w <= 5 => Reached(5)
  BY <1>5, <1>6, <1>10
<1>12. w <= 6 => Reached(6)
  BY <1>5, <1>6, <1>11
<1>13. w <= 7 => Reached(7)
  BY <1>5, <1>6, <1>12
<1>14. w <= 8 => Reached(8)
  BY <1>5, <1>6, <1>13
<1>15. w <= 9 => Reached(9)
  BY <1>5, <1>6, <1>14
<1>16. w <= 10 => Reached(10)
  BY <1>5, <1>6, <1>15
<1>17. Reached(11)
  BY <1>6, <1>16
<1>18. PICK q \in BOOLEAN : after[11] = Shape(w, 11, q, date)
  BY <1>17 DEF Reached
<1>19. [Shape(w, 11, q, date) EXCEPT !.version = 11] = Shape(11, 11, TRUE, date)
  <2>1. RegionsAt(11, q) = RegionsAt(11, TRUE)
    BY Regions
  <2>2. [Shape(w, 11, q, date) EXCEPT !.version = 11] = Shape(11, 11, q, date)
    BY DEF Shape
  <2>3. Shape(11, 11, q, date) = Shape(11, 11, TRUE, date)
    BY <2>1, Zenon DEF Shape
  <2> QED
    BY <2>2, <2>3
<1> QED
  BY <1>2, <1>18, <1>19, OldIsShape DEF d

-----------------------------------------------------------------------------
(* The inductive invariant.                                                *)

\* A thread of the program runs only once the lifespan has started, and whoever
\* is past close_all has an open connection only if it never started one.
ConnInv(p) ==
  /\ inst[p].pc \in {"off", "main", "opened", "locked", "create", "tables",
                     "migrate", "built"}
       => inst[p].license = "none" /\ inst[p].opening = FALSE
  /\ Closed(p) /\ inst[p].conn = "open" => inst[p].license = "none"

\* A process has the lock file open from acquire to the release, and its lock
\* from flock on.
LockInv(p) ==
  /\ inst[p].fd = None <=> inst[p].pc \in {"off", "main", "unlink", "exit", "flush"}
  /\ Running(p) => flock[inst[p].fd] = p

\* As long as no unlink took it away, the name is the file everybody has open.
NameInv == ~stolen => \A p \in Proc : inst[p].fd # None => inst[p].fd = name

\* What schema.sql leaves: after its first part, and whole.
Half == Stamped(Empty)
Full == Created(Half)

\* What a program has left behind with the dates that were found, at first and in
\* the end.
Old(d) == \E v \in 1..11, placed \in BOOLEAN :
            (v < 4 => dates = NoDates) /\ d = OldDatabase(v, placed, dates)

Latest(d) == d = OldDatabase(11, TRUE, dates)

\* What a script, or its first part, makes of nothing has no dates.
Fresh(S) == db \in S /\ dates = NoDates

\* Databases no program of this or an earlier version has made.
Foreign == {[Empty EXCEPT !.version = v, !.objects = SchemaObjects] : v \in {0, 12}}

\* The tables are missing only while they are created, or for ever after a crash
\* in between; and a process creates only what is not there.
DbInv ==
  /\ dates \in Dates
  /\ Fresh({Empty, Half, Full} \cup Foreign) \/ Old(db)
  /\ db = Half => torn \/ \E p \in Proc : At(p, "tables")
  /\ \A p \in Proc :
       /\ At(p, "create") => Fresh({Empty, Half, Full})
       /\ At(p, "tables") => Fresh({Half, Full})
       /\ inst[p].pc \in {"built", "up"} => db = Half \/ Latest(db)

IInv ==
  /\ LifespanTypeOK
  /\ \A p \in Proc : ConnInv(p) /\ LockInv(p)
  /\ NameInv
  /\ DbInv

-----------------------------------------------------------------------------
(* The databases.                                                          *)

LEMMA MacroOfType ==
  ASSUME NEW t PROVE MacroOf(t) \in Macro \cup {NoRegion}
<1>1. MacrosOf(t) \subseteq Macro /\ Macro \subseteq Nat
  BY RegionAssumption DEF MacrosOf
<1>2. MacrosOf(t) # {} => Least(MacrosOf(t)) \in MacrosOf(t)
  BY <1>1, LeastNatural
<1> QED
  BY <1>1, <1>2 DEF MacroOf

DbType ==
  [version : 0..(LATEST_SCHEMA_VERSION + 1),
   objects : SUBSET (SchemaObjects \cup {"starred"}), sent : BOOLEAN,
   region_id : [Title -> Macro \cup Subject \cup {NoRegion}],
   subs : [Macro \cup Subject -> Nat]]

LEMMA RegionsType ==
  ASSUME NEW v, NEW placed
  PROVE  RegionsAt(v, placed) \in [Title -> Macro \cup Subject \cup {NoRegion}]
<1>1. \A t : MacroOf(t) \in Macro \cup {NoRegion} /\ SiteOf(t) \in Subject \cup {NoRegion}
  BY MacroOfType DEF SiteOf
<1> QED
  BY <1>1 DEF RegionsAt

LEMMA SubsType ==
  ASSUME NEW v, NEW date \in Dates
  PROVE  SubsAt(v, date) \in [Macro \cup Subject -> Nat]
<1>1. ASSUME NEW r
      PROVE  LET days == {date[m] : m \in MacrosOf(r)} \ {0}
             IN days # {} => Least(days) \in Nat
  <2> DEFINE days == {date[m] : m \in MacrosOf(r)} \ {0}
  <2>1. days \in SUBSET Nat
    BY DEF Dates, MacrosOf
  <2> HIDE DEF days
  <2>2. days # {} => Least(days) \in days
    BY <2>1, LeastNatural
  <2>3. days # {} => Least(days) \in Nat
    BY <2>1, <2>2
  <2> QED
    BY <2>3 DEF days
<1>2. \A m \in Macro : date[m] \in Nat
  BY DEF Dates
<1> QED
  BY <1>1, <1>2 DEF SubsAt

LEMMA OldType ==
  ASSUME NEW v \in 1..11, NEW placed \in BOOLEAN, NEW date \in Dates
  PROVE  OldDatabase(v, placed, date) \in DbType
<1>1. /\ ObjectsAt(v) \in SUBSET (SchemaObjects \cup {"starred"})
      /\ RegionsAt(v, placed) \in [Title -> Macro \cup Subject \cup {NoRegion}]
      /\ SubsAt(v, date) \in [Macro \cup Subject -> Nat]
  BY Objects, RegionsType, SubsType
<1>2. SentAt(v) \in BOOLEAN
  BY DEF SentAt
<1>3. v \in 0..(LATEST_SCHEMA_VERSION + 1)
  BY DEF LATEST_SCHEMA_VERSION
<1> QED
  BY <1>1, <1>2, <1>3, OldIsShape DEF Shape, DbType

\* A new database is one of the latest version that never had a subscription.
LEMMA FullIsLatest == Full = OldDatabase(11, TRUE, NoDates)
<1>1. NoSubs = SubsAt(11, NoDates)
  <2>1. \A r : {NoDates[m] : m \in MacrosOf(r)} \ {0} = {}
    BY DEF NoDates, MacrosOf
  <2>2. ASSUME NEW r \in Macro \cup Subject PROVE SubsAt(11, NoDates)[r] = 0
    <3> DEFINE days == {NoDates[m] : m \in MacrosOf(r)} \ {0}
    <3>1. SubsAt(11, NoDates)[r] = IF 11 \in 4..9 /\ r \in Macro THEN NoDates[r]
            ELSE IF 11 >= 10 /\ r \in Subject /\ days # {} THEN Least(days) ELSE 0
      BY DEF SubsAt
    <3>2. days = {}
      BY <2>1
    <3> HIDE DEF days
    <3> QED
      BY <3>1, <3>2
  <2> QED
    BY <2>2 DEF NoSubs, SubsAt
<1>2. [t \in Title |-> SiteOf(t)] = RegionsAt(11, TRUE)
  BY DEF RegionsAt
<1>3. SentAt(11) = TRUE
  BY DEF SentAt
<1>4. Full = [version |-> 11, objects |-> SchemaObjects, sent |-> TRUE,
              region_id |-> [t \in Title |-> SiteOf(t)], subs |-> NoSubs]
  <2> DEFINE yes == TRUE
             sites == [t \in Title |-> SiteOf(t)]
             db0 == [version |-> 0, objects |-> {}, sent |-> yes, region_id |-> sites,
                     subs |-> NoSubs]
             db1 == [version |-> 11, objects |-> {}, sent |-> yes, region_id |-> sites,
                     subs |-> NoSubs]
             db2 == [version |-> 11, objects |-> SchemaObjects, sent |-> yes,
                     region_id |-> sites, subs |-> NoSubs]
  <2>1. Full = [[db0 EXCEPT !.version = 11] EXCEPT !.objects = SchemaObjects]
    BY Zenon DEF Full, Half, Created, Stamped, Empty, LATEST_SCHEMA_VERSION
  <2> HIDE DEF yes, sites
  <2>2. [db0 EXCEPT !.version = 11] = db1
    OBVIOUS
  <2>3. [db1 EXCEPT !.objects = SchemaObjects] = db2
    OBVIOUS
  <2>4. Full = db2
    BY <2>1, <2>2, <2>3, Zenon
  <2> QED
    BY <2>4 DEF yes, sites
<1>5. SchemaObjects = ObjectsAt(11)
  BY Objects
<1> QED
  BY <1>1, <1>2, <1>3, <1>4, <1>5, OldIsShape DEF Shape

\* What ReadVersion tells the databases apart by.
LEMMA Kinds ==
  /\ Empty.version = 0 /\ Empty.objects = {}
  /\ Half.version = 11 /\ Half.objects = {}
  /\ Full.version = 11 /\ Full.objects = SchemaObjects
  /\ \A d \in Foreign : d.version \in {0, 12} /\ d.objects = SchemaObjects
  /\ \A v \in 1..11 : \A placed, date :
       /\ OldDatabase(v, placed, date).version = v
       /\ "tables" \in OldDatabase(v, placed, date).objects
  /\ "tables" \in SchemaObjects
<1>1. /\ Empty.version = 0 /\ Empty.objects = {}
      /\ Half.version = 11 /\ Half.objects = {}
      /\ Full.version = 11 /\ Full.objects = SchemaObjects
  BY DEF Full, Half, Stamped, Created, Empty, LATEST_SCHEMA_VERSION
<1>2. \A d \in Foreign : d.version \in {0, 12} /\ d.objects = SchemaObjects
  BY DEF Foreign, Empty
<1>3. ASSUME NEW v \in 1..11, NEW placed, NEW date
      PROVE  /\ OldDatabase(v, placed, date).version = v
             /\ "tables" \in OldDatabase(v, placed, date).objects
  BY DEF OldDatabase, ObjectsAt
<1>4. "tables" \in SchemaObjects
  BY DEF SchemaObjects
<1> QED
  BY <1>1, <1>2, <1>3, <1>4

LEMMA DbTyped == DbInv => db \in DbType
<1>1. Empty \in DbType
  BY DEF Empty, DbType, NoSubs, SiteOf, LATEST_SCHEMA_VERSION, Title
<1>2. Half \in DbType
  BY <1>1 DEF Half, Stamped, DbType, LATEST_SCHEMA_VERSION
<1>3. Full \in DbType
  BY <1>2 DEF Full, Created, DbType
<1>4. ASSUME NEW v \in {0, 12}
      PROVE  [Empty EXCEPT !.version = v, !.objects = SchemaObjects] \in DbType
  <2>1. [Empty EXCEPT !.version = v, !.objects = SchemaObjects]
        = [[Empty EXCEPT !.version = v] EXCEPT !.objects = SchemaObjects]
    BY Zenon
  <2>2. [Empty EXCEPT !.version = v] \in DbType
    BY <1>1 DEF DbType, LATEST_SCHEMA_VERSION
  <2>3. [[Empty EXCEPT !.version = v] EXCEPT !.objects = SchemaObjects] \in DbType
    BY <2>2 DEF DbType
  <2> QED
    BY <2>1, <2>3
<1>5. dates \in Dates => \A d : Old(d) => d \in DbType
  BY OldType DEF Old
<1> QED
  BY <1>1, <1>2, <1>3, <1>4, <1>5 DEF DbInv, Fresh, Foreign

-----------------------------------------------------------------------------
(* The processes: a step moves one of them.                                *)

Processes == [Proc -> ProcType]

Others(f, g, p) == \A q \in Proc \ {p} : f[q] = g[q]

\* One field of one process is set.
LEMMA SetField ==
  ASSUME NEW f \in Processes, NEW p \in Proc
  PROVE  /\ \A x \in {"off", "main", "opened", "locked", "create", "tables", "migrate", "built", "up",
                "stopping", "pools", "closing", "unlock", "unlink", "exit", "flush"} :
              /\ [f EXCEPT ![p].pc = x] \in Processes
              /\ Others([f EXCEPT ![p].pc = x], f, p)
         /\ \A x \in Inode \cup {None} :
              /\ [f EXCEPT ![p].fd = x] \in Processes
              /\ Others([f EXCEPT ![p].fd = x], f, p)
         /\ \A x \in BOOLEAN :
              /\ [f EXCEPT ![p].opening = x] \in Processes
              /\ Others([f EXCEPT ![p].opening = x], f, p)
         /\ \A x \in {"none", "open", "late"} :
              /\ [f EXCEPT ![p].conn = x] \in Processes
              /\ Others([f EXCEPT ![p].conn = x], f, p)
         /\ \A x \in {"none", "check", "wait", "handle", "armed", "done", "failed"} :
              /\ [f EXCEPT ![p].license = x] \in Processes
              /\ Others([f EXCEPT ![p].license = x], f, p)
         /\ \A x \in BOOLEAN :
              /\ [f EXCEPT ![p].watchdog = x] \in Processes
              /\ Others([f EXCEPT ![p].watchdog = x], f, p)
         /\ \A x \in BOOLEAN :
              /\ [f EXCEPT ![p].triggered = x] \in Processes
              /\ Others([f EXCEPT ![p].triggered = x], f, p)
<1>1. ASSUME NEW x \in {"off", "main", "opened", "locked", "create", "tables", "migrate", "built", "up",
                "stopping", "pools", "closing", "unlock", "unlink", "exit", "flush"}
      PROVE  /\ [f EXCEPT ![p].pc = x] \in Processes
             /\ Others([f EXCEPT ![p].pc = x], f, p)
  <2>1. [f[p] EXCEPT !.pc = x] \in ProcType
    BY DEF Processes, ProcType
  <2>2. [f EXCEPT ![p].pc = x] = [f EXCEPT ![p] = [f[p] EXCEPT !.pc = x]]
    BY Zenon
  <2> DEFINE r == [f[p] EXCEPT !.pc = x]
  <2> HIDE DEF r
  <2>3. [f EXCEPT ![p] = r] \in Processes /\ Others([f EXCEPT ![p] = r], f, p)
    BY <2>1 DEF Processes, Others, r
  <2> QED
    BY <2>2, <2>3 DEF r
<1>2. ASSUME NEW x \in Inode \cup {None}
      PROVE  /\ [f EXCEPT ![p].fd = x] \in Processes
             /\ Others([f EXCEPT ![p].fd = x], f, p)
  <2>1. [f[p] EXCEPT !.fd = x] \in ProcType
    BY DEF Processes, ProcType
  <2>2. [f EXCEPT ![p].fd = x] = [f EXCEPT ![p] = [f[p] EXCEPT !.fd = x]]
    BY Zenon
  <2> DEFINE r == [f[p] EXCEPT !.fd = x]
  <2> HIDE DEF r
  <2>3. [f EXCEPT ![p] = r] \in Processes /\ Others([f EXCEPT ![p] = r], f, p)
    BY <2>1 DEF Processes, Others, r
  <2> QED
    BY <2>2, <2>3 DEF r
<1>3. ASSUME NEW x \in BOOLEAN
      PROVE  /\ [f EXCEPT ![p].opening = x] \in Processes
             /\ Others([f EXCEPT ![p].opening = x], f, p)
  <2>1. [f[p] EXCEPT !.opening = x] \in ProcType
    BY DEF Processes, ProcType
  <2>2. [f EXCEPT ![p].opening = x] = [f EXCEPT ![p] = [f[p] EXCEPT !.opening = x]]
    BY Zenon
  <2> DEFINE r == [f[p] EXCEPT !.opening = x]
  <2> HIDE DEF r
  <2>3. [f EXCEPT ![p] = r] \in Processes /\ Others([f EXCEPT ![p] = r], f, p)
    BY <2>1 DEF Processes, Others, r
  <2> QED
    BY <2>2, <2>3 DEF r
<1>4. ASSUME NEW x \in {"none", "open", "late"}
      PROVE  /\ [f EXCEPT ![p].conn = x] \in Processes
             /\ Others([f EXCEPT ![p].conn = x], f, p)
  <2>1. [f[p] EXCEPT !.conn = x] \in ProcType
    BY DEF Processes, ProcType
  <2>2. [f EXCEPT ![p].conn = x] = [f EXCEPT ![p] = [f[p] EXCEPT !.conn = x]]
    BY Zenon
  <2> DEFINE r == [f[p] EXCEPT !.conn = x]
  <2> HIDE DEF r
  <2>3. [f EXCEPT ![p] = r] \in Processes /\ Others([f EXCEPT ![p] = r], f, p)
    BY <2>1 DEF Processes, Others, r
  <2> QED
    BY <2>2, <2>3 DEF r
<1>5. ASSUME NEW x \in {"none", "check", "wait", "handle", "armed", "done", "failed"}
      PROVE  /\ [f EXCEPT ![p].license = x] \in Processes
             /\ Others([f EXCEPT ![p].license = x], f, p)
  <2>1. [f[p] EXCEPT !.license = x] \in ProcType
    BY DEF Processes, ProcType
  <2>2. [f EXCEPT ![p].license = x] = [f EXCEPT ![p] = [f[p] EXCEPT !.license = x]]
    BY Zenon
  <2> DEFINE r == [f[p] EXCEPT !.license = x]
  <2> HIDE DEF r
  <2>3. [f EXCEPT ![p] = r] \in Processes /\ Others([f EXCEPT ![p] = r], f, p)
    BY <2>1 DEF Processes, Others, r
  <2> QED
    BY <2>2, <2>3 DEF r
<1>6. ASSUME NEW x \in BOOLEAN
      PROVE  /\ [f EXCEPT ![p].watchdog = x] \in Processes
             /\ Others([f EXCEPT ![p].watchdog = x], f, p)
  <2>1. [f[p] EXCEPT !.watchdog = x] \in ProcType
    BY DEF Processes, ProcType
  <2>2. [f EXCEPT ![p].watchdog = x] = [f EXCEPT ![p] = [f[p] EXCEPT !.watchdog = x]]
    BY Zenon
  <2> DEFINE r == [f[p] EXCEPT !.watchdog = x]
  <2> HIDE DEF r
  <2>3. [f EXCEPT ![p] = r] \in Processes /\ Others([f EXCEPT ![p] = r], f, p)
    BY <2>1 DEF Processes, Others, r
  <2> QED
    BY <2>2, <2>3 DEF r
<1>7. ASSUME NEW x \in BOOLEAN
      PROVE  /\ [f EXCEPT ![p].triggered = x] \in Processes
             /\ Others([f EXCEPT ![p].triggered = x], f, p)
  <2>1. [f[p] EXCEPT !.triggered = x] \in ProcType
    BY DEF Processes, ProcType
  <2>2. [f EXCEPT ![p].triggered = x] = [f EXCEPT ![p] = [f[p] EXCEPT !.triggered = x]]
    BY Zenon
  <2> DEFINE r == [f[p] EXCEPT !.triggered = x]
  <2> HIDE DEF r
  <2>3. [f EXCEPT ![p] = r] \in Processes /\ Others([f EXCEPT ![p] = r], f, p)
    BY <2>1 DEF Processes, Others, r
  <2> QED
    BY <2>2, <2>3 DEF r
<1> QED
  BY <1>1, <1>2, <1>3, <1>4, <1>5, <1>6, <1>7

InstOK ==
  /\ name \in Inode \cup {None} /\ flock \in [Inode -> Proc \cup {None}]
  /\ torn \in BOOLEAN /\ stolen \in BOOLEAN
  /\ inst \in Processes

LEMMA Vanishing ==
  ASSUME InstOK, NEW p \in Proc, Vanish(p)
  PROVE  InstOK' /\ inst'[p] = Off /\ \A q \in Proc \ {p} : inst'[q] = inst[q]
<1>1. Off \in ProcType
  BY DEF Off, ProcType
<1>2. torn' \in BOOLEAN
  BY Zenon DEF Vanish
<1>3. stolen' \in BOOLEAN
  BY Zenon DEF Vanish
<1> QED
  BY <1>1, <1>2, <1>3 DEF Vanish, InstOK, Processes

LEMMA Moves ==
  ASSUME InstOK, NEW p \in Proc, ProcStep(p)
  PROVE  InstOK' /\ \A q \in Proc \ {p} : inst'[q] = inst[q]
<1>1. CASE Main(p)
  BY <1>1 DEF Main, Goto, InstOK, Processes, ProcType, fileVars, dbVars
<1>2. CASE Open(p)
  <2>0. PICK i \in Inode : /\ name' = i
                            /\ inst' = [inst EXCEPT ![p].pc = "opened", ![p].fd = i]
    BY <1>2 DEF Open
  <2> DEFINE mid == [inst EXCEPT ![p].pc = "opened"]
  <2>1. inst' = [mid EXCEPT ![p].fd = i]
    BY <2>0, Zenon 
  <2>2. mid \in Processes /\ Others(mid, inst, p)
    BY SetField DEF InstOK
  <2>3. i \in Inode \cup {None}
    OBVIOUS
  <2> HIDE DEF mid
  <2>4. inst' \in Processes
    BY <2>1, <2>2, <2>3, SetField
  <2>5. \A q \in Proc \ {p} : inst'[q] = inst[q]
    BY <2>1, <2>2, <2>3, SetField DEF Others
  <2> QED
    BY <1>2, <2>4, <2>5 DEF Open, InstOK, fileVars, dbVars
<1>3. CASE Flock(p)
  <2>1. flock' \in [Inode -> Proc \cup {None}]
    BY <1>3 DEF Flock, InstOK
  <2>2. Off \in ProcType
    BY DEF Off, ProcType
  <2>3. [inst[p] EXCEPT !.pc = "locked"] \in ProcType
    BY DEF InstOK, Processes, ProcType
  <2>4. /\ inst' \in Processes
        /\ \A q \in Proc \ {p} : inst'[q] = inst[q]
    BY <1>3, <2>2, <2>3 DEF Flock, Goto, InstOK, Processes
  <2> QED
    BY <1>3, <2>1, <2>4 DEF Flock, InstOK, dbVars
<1>4. CASE Unlock(p)
  <2> DEFINE mid == [inst EXCEPT ![p].pc = "unlink"]
  <2>1. inst' = [mid EXCEPT ![p].fd = None]
    BY <1>4, Zenon DEF Unlock
  <2>2. mid \in Processes /\ Others(mid, inst, p)
    BY SetField DEF InstOK
  <2>3. None \in Inode \cup {None}
    OBVIOUS
  <2> HIDE DEF mid
  <2>4. inst' \in Processes
    BY <2>1, <2>2, <2>3, SetField
  <2>5. \A q \in Proc \ {p} : inst'[q] = inst[q]
    BY <2>1, <2>2, <2>3, SetField DEF Others
  <2> QED
    BY <1>4, <2>4, <2>5 DEF Unlock, InstOK, fileVars, dbVars
<1>5. CASE Unlink(p)
  <2>1. stolen' \in BOOLEAN
    BY <1>5, Zenon DEF Unlink
  <2> QED
    BY <1>5, <2>1 DEF Unlink, Goto, InstOK, Processes, ProcType, dbVars
<1>6. CASE ReadVersion(p)
  <2> DEFINE to == IF db.version = LATEST_SCHEMA_VERSION THEN "built"
                   ELSE IF db.version > LATEST_SCHEMA_VERSION THEN "unlock"
                   ELSE IF db.version = 0 /\ db.objects = {} THEN "create"
                   ELSE "migrate"
  <2> DEFINE mid == [inst EXCEPT ![p].conn = "open"]
  <2>1. inst' = [mid EXCEPT ![p].pc = to]
    BY <1>6, Zenon DEF ReadVersion
  <2>2. mid \in Processes /\ Others(mid, inst, p)
    BY SetField DEF InstOK
  <2>3. to \in {"built", "unlock", "create", "migrate"}
    OBVIOUS
  <2> HIDE DEF mid, to
  <2>4. inst' \in Processes
    BY <2>1, <2>2, <2>3, SetField
  <2>5. \A q \in Proc \ {p} : inst'[q] = inst[q]
    BY <2>1, <2>2, <2>3, SetField DEF Others
  <2>6. UNCHANGED <<name, flock, torn, stolen>>
    BY <1>6 DEF ReadVersion, fileVars, dbVars
  <2> QED
    BY <2>4, <2>5, <2>6 DEF InstOK
<1>7. CASE StampVersion(p)
  BY <1>7 DEF StampVersion, Goto, InstOK, Processes, ProcType, fileVars, dbVars
<1>8. CASE CreateTables(p)
  BY <1>8 DEF CreateTables, Goto, InstOK, Processes, ProcType, fileVars, dbVars
<1>9. CASE Migrate(p)
  BY <1>9 DEF Migrate, Abort, Goto, InstOK, Processes, ProcType, fileVars, dbVars
<1>10. CASE StartThreads(p)
  <2> DEFINE mid == [inst EXCEPT ![p].pc = "up"]
  <2>1. inst' = [mid EXCEPT ![p].license = "check"]
    BY <1>10, Zenon DEF StartThreads
  <2>2. mid \in Processes /\ Others(mid, inst, p)
    BY SetField DEF InstOK
  <2>3. "check" \in {"none", "check", "wait", "handle", "armed", "done", "failed"}
    OBVIOUS
  <2> HIDE DEF mid
  <2>4. inst' \in Processes
    BY <2>1, <2>2, <2>3, SetField
  <2>5. \A q \in Proc \ {p} : inst'[q] = inst[q]
    BY <2>1, <2>2, <2>3, SetField DEF Others
  <2>6. UNCHANGED <<name, flock, torn, stolen>>
    BY <1>10 DEF StartThreads, fileVars, dbVars
  <2> QED
    BY <2>4, <2>5, <2>6 DEF InstOK
<1>11. CASE StartFails(p)
  <2>1. torn' \in BOOLEAN
    BY <1>11, Zenon DEF StartFails
  <2> QED
    BY <1>11, <2>1 DEF StartFails, Abort, Goto, InstOK, Processes, ProcType, fileVars
<1>12. CASE GetConnection(p)
  <2>1. inst' = [inst EXCEPT ![p].opening = TRUE]
    BY <1>12 DEF GetConnection
  <2>2. inst' \in Processes /\ Others(inst', inst, p)
    BY <2>1, SetField DEF InstOK
  <2>3. UNCHANGED <<name, flock, torn, stolen>>
    BY <1>12 DEF GetConnection, fileVars, dbVars
  <2> QED
    BY <2>2, <2>3 DEF InstOK, Others
<1>13. CASE OpenConnection(p)
  <2> DEFINE mid == [inst EXCEPT ![p].opening = FALSE]
  <2>1. inst' = [mid EXCEPT ![p].conn = IF Closed(p) THEN "late" ELSE "open"]
    BY <1>13, Zenon DEF OpenConnection
  <2>2. mid \in Processes /\ Others(mid, inst, p)
    BY SetField DEF InstOK
  <2>3. (IF Closed(p) THEN "late" ELSE "open") \in {"none", "open", "late"}
    OBVIOUS
  <2> HIDE DEF mid
  <2>4. inst' \in Processes
    BY <2>1, <2>2, <2>3, SetField
  <2>5. \A q \in Proc \ {p} : inst'[q] = inst[q]
    BY <2>1, <2>2, <2>3, SetField DEF Others
  <2>6. UNCHANGED <<name, flock, torn, stolen>>
    BY <1>13 DEF OpenConnection, fileVars, dbVars
  <2> QED
    BY <2>4, <2>5, <2>6 DEF InstOK
<1>14. CASE CheckLicense(p)
  BY <1>14 DEF CheckLicense, Goto, InstOK, Processes, ProcType, fileVars, dbVars
<1>15. CASE WaitForCheck(p)
  BY <1>15 DEF WaitForCheck, Goto, InstOK, Processes, ProcType, fileVars, dbVars
<1>16. CASE ArmWatchdog(p)
  <2> DEFINE mid == [inst EXCEPT ![p].license = "armed"]
  <2>1. inst' = [mid EXCEPT ![p].watchdog = TRUE]
    BY <1>16, Zenon DEF ArmWatchdog
  <2>2. mid \in Processes /\ Others(mid, inst, p)
    BY SetField DEF InstOK
  <2>3. TRUE \in BOOLEAN
    OBVIOUS
  <2> HIDE DEF mid
  <2>4. inst' \in Processes
    BY <2>1, <2>2, <2>3, SetField
  <2>5. \A q \in Proc \ {p} : inst'[q] = inst[q]
    BY <2>1, <2>2, <2>3, SetField DEF Others
  <2>6. UNCHANGED <<name, flock, torn, stolen>>
    BY <1>16 DEF ArmWatchdog, fileVars, dbVars
  <2> QED
    BY <2>4, <2>5, <2>6 DEF InstOK
<1>17. CASE RequestShutdown(p)
  <2> DEFINE mid == [inst EXCEPT ![p].license = "done"]
  <2>1. inst' = [mid EXCEPT ![p].triggered = TRUE]
    BY <1>17, Zenon DEF RequestShutdown
  <2>2. mid \in Processes /\ Others(mid, inst, p)
    BY SetField DEF InstOK
  <2>3. TRUE \in BOOLEAN
    OBVIOUS
  <2> HIDE DEF mid
  <2>4. inst' \in Processes
    BY <2>1, <2>2, <2>3, SetField
  <2>5. \A q \in Proc \ {p} : inst'[q] = inst[q]
    BY <2>1, <2>2, <2>3, SetField DEF Others
  <2>6. UNCHANGED <<name, flock, torn, stolen>>
    BY <1>17 DEF RequestShutdown, fileVars, dbVars
  <2> QED
    BY <2>4, <2>5, <2>6 DEF InstOK
<1>18. CASE Stop(p)
  BY <1>18 DEF Stop, Goto, InstOK, Processes, ProcType, fileVars, dbVars
<1>19. CASE JoinThreads(p)
  BY <1>19 DEF JoinThreads, Goto, InstOK, Processes, ProcType, fileVars, dbVars
<1>20. CASE ShutPools(p)
  BY <1>20 DEF ShutPools, Goto, InstOK, Processes, ProcType, fileVars, dbVars
<1>21. CASE CloseConnections(p)
  <2> DEFINE mid == [inst EXCEPT ![p].pc = "unlock"]
  <2>1. inst' = [mid EXCEPT ![p].conn = "none"]
    BY <1>21, Zenon DEF CloseConnections
  <2>2. mid \in Processes /\ Others(mid, inst, p)
    BY SetField DEF InstOK
  <2>3. "none" \in {"none", "open", "late"}
    OBVIOUS
  <2> HIDE DEF mid
  <2>4. inst' \in Processes
    BY <2>1, <2>2, <2>3, SetField
  <2>5. \A q \in Proc \ {p} : inst'[q] = inst[q]
    BY <2>1, <2>2, <2>3, SetField DEF Others
  <2>6. UNCHANGED <<name, flock, torn, stolen>>
    BY <1>21 DEF CloseConnections, fileVars, dbVars
  <2> QED
    BY <2>4, <2>5, <2>6 DEF InstOK
<1>22. CASE Exit(p)
  BY <1>22, Vanishing DEF Exit
<1>23. CASE WatchdogFires(p)
  BY <1>23, Vanishing DEF WatchdogFires
<1>24. CASE Crash(p)
  BY <1>24, Vanishing DEF Crash
<1>25. CASE ThreadsFail(p)
  <2>0. PICK x \in {"none", "check"} :
          inst' = [inst EXCEPT ![p].pc = "stopping", ![p].license = x]
    BY <1>25, Zenon DEF ThreadsFail
  <2> DEFINE mid == [inst EXCEPT ![p].pc = "stopping"]
  <2>1. inst' = [mid EXCEPT ![p].license = x]
    BY <2>0, Zenon
  <2>2. mid \in Processes /\ Others(mid, inst, p)
    BY SetField DEF InstOK
  <2>3. x \in {"none", "check", "wait", "handle", "armed", "done", "failed"}
    OBVIOUS
  <2> HIDE DEF mid
  <2>4. inst' \in Processes
    BY <2>1, <2>2, <2>3, SetField
  <2>5. \A q \in Proc \ {p} : inst'[q] = inst[q]
    BY <2>1, <2>2, <2>3, SetField DEF Others
  <2>6. UNCHANGED <<name, flock, torn, stolen>>
    BY <1>25 DEF ThreadsFail, fileVars, dbVars
  <2> QED
    BY <2>4, <2>5, <2>6 DEF InstOK
<1>26. CASE CancelWatchdog(p)
  <2> DEFINE on == inst[p].watchdog /\ ~inst[p].triggered
  <2> DEFINE mid == [inst EXCEPT ![p].pc = "flush"]
  <2>1. inst' = [mid EXCEPT ![p].watchdog = on]
    BY <1>26, Zenon DEF CancelWatchdog
  <2>2. mid \in Processes /\ Others(mid, inst, p)
    BY SetField DEF InstOK
  <2>3. on \in BOOLEAN
    BY Zenon
  <2> HIDE DEF mid, on
  <2>4. inst' \in Processes
    BY <2>1, <2>2, <2>3, SetField
  <2>5. \A q \in Proc \ {p} : inst'[q] = inst[q]
    BY <2>1, <2>2, <2>3, SetField DEF Others
  <2>6. UNCHANGED <<name, flock, torn, stolen>>
    BY <1>26 DEF CancelWatchdog, fileVars, dbVars
  <2> QED
    BY <2>4, <2>5, <2>6 DEF InstOK
<1>27. CASE ArmFails(p)
  <2>1. inst' = [inst EXCEPT ![p].license = "failed"]
    BY <1>27 DEF ArmFails
  <2>2. inst' \in Processes /\ Others(inst', inst, p)
    BY <2>1, SetField DEF InstOK
  <2>3. UNCHANGED <<name, flock, torn, stolen>>
    BY <1>27 DEF ArmFails, fileVars, dbVars
  <2> QED
    BY <2>2, <2>3 DEF InstOK, Others
<1> QED
  BY <1>1, <1>2, <1>3, <1>4, <1>5, <1>6, <1>7, <1>8, <1>9, <1>10, <1>11, <1>12,
     <1>13, <1>14, <1>15, <1>16, <1>17, <1>18, <1>19, <1>20, <1>21, <1>22, <1>23,
     <1>24, <1>25, <1>26, <1>27 DEF ProcStep

\* What a step makes of its own process, a disjunct for each kind of step.
LEMMA ConnStep ==
  ASSUME InstOK, NEW p \in Proc, ProcStep(p), ConnInv(p)
  PROVE  ConnInv(p)'
<1>0. inst \in Processes
  BY DEF InstOK
<1>1. CASE Main(p)
  BY <1>0, <1>1 DEF Main, At, Goto, Closed, ConnInv, Processes, ProcType
<1>2. CASE Open(p)
  BY <1>0, <1>2 DEF Open, At, Goto, Closed, ConnInv, Processes, ProcType
<1>3. CASE Flock(p)
  BY <1>0, <1>3 DEF Off, Flock, At, Goto, Closed, ConnInv, Processes, ProcType
<1>4. CASE Unlock(p)
  BY <1>0, <1>4 DEF Unlock, At, Goto, Closed, ConnInv, Processes, ProcType
<1>5. CASE Unlink(p)
  BY <1>0, <1>5 DEF Unlink, At, Goto, Closed, ConnInv, Processes, ProcType
<1>6. CASE ReadVersion(p)
  BY <1>0, <1>6 DEF ReadVersion, At, Goto, Closed, ConnInv, Processes, ProcType
<1>7. CASE StampVersion(p)
  BY <1>0, <1>7 DEF StampVersion, At, Goto, Closed, ConnInv, Processes, ProcType
<1>8. CASE CreateTables(p)
  BY <1>0, <1>8 DEF CreateTables, At, Goto, Closed, ConnInv, Processes, ProcType
<1>9. CASE Migrate(p)
  BY <1>0, <1>9 DEF Migrate, Abort, At, Goto, Closed, ConnInv, Processes, ProcType
<1>10. CASE StartThreads(p)
  BY <1>0, <1>10 DEF StartThreads, At, Goto, Closed, ConnInv, Processes, ProcType
<1>11. CASE StartFails(p)
  BY <1>0, <1>11 DEF StartFails, Abort, At, Goto, Closed, ConnInv, Processes, ProcType
<1>12. CASE GetConnection(p)
  BY <1>0, <1>12 DEF GetConnection, At, Goto, Closed, ConnInv, Processes, ProcType
<1>13. CASE OpenConnection(p)
  BY <1>0, <1>13 DEF OpenConnection, At, Goto, Closed, ConnInv, Processes, ProcType
<1>14. CASE CheckLicense(p)
  BY <1>0, <1>14 DEF CheckLicense, At, Goto, Closed, ConnInv, Processes, ProcType
<1>15. CASE WaitForCheck(p)
  BY <1>0, <1>15 DEF WaitForCheck, At, Goto, Closed, ConnInv, Processes, ProcType
<1>16. CASE ArmWatchdog(p)
  BY <1>0, <1>16 DEF ArmWatchdog, At, Goto, Closed, ConnInv, Processes, ProcType
<1>17. CASE RequestShutdown(p)
  BY <1>0, <1>17 DEF RequestShutdown, At, Goto, Closed, ConnInv, Processes, ProcType
<1>18. CASE Stop(p)
  BY <1>0, <1>18 DEF Stop, At, Goto, Closed, ConnInv, Processes, ProcType
<1>19. CASE JoinThreads(p)
  BY <1>0, <1>19 DEF JoinThreads, At, Goto, Closed, ConnInv, Processes, ProcType
<1>20. CASE ShutPools(p)
  BY <1>0, <1>20 DEF ShutPools, At, Goto, Closed, ConnInv, Processes, ProcType
<1>21. CASE CloseConnections(p)
  BY <1>0, <1>21 DEF CloseConnections, At, Goto, Closed, ConnInv, Processes, ProcType
<1>22. CASE Exit(p)
  BY <1>0, <1>22 DEF Vanish, Off, Exit, At, Goto, Closed, ConnInv, Processes, ProcType
<1>23. CASE WatchdogFires(p)
  BY <1>0, <1>23 DEF Vanish, Off, WatchdogFires, At, Goto, Closed, ConnInv, Processes, ProcType
<1>24. CASE Crash(p)
  BY <1>0, <1>24 DEF Vanish, Off, Crash, At, Goto, Closed, ConnInv, Processes, ProcType
<1>25. CASE ThreadsFail(p)
  BY <1>0, <1>25 DEF ThreadsFail, At, Goto, Closed, ConnInv, Processes, ProcType
<1>26. CASE CancelWatchdog(p)
  BY <1>0, <1>26 DEF CancelWatchdog, At, Goto, Closed, ConnInv, Processes, ProcType
<1>27. CASE ArmFails(p)
  BY <1>0, <1>27 DEF ArmFails, At, Goto, Closed, ConnInv, Processes, ProcType
<1> QED
  BY <1>1, <1>2, <1>3, <1>4, <1>5, <1>6, <1>7, <1>8, <1>9, <1>10, <1>11, <1>12,
     <1>13, <1>14, <1>15, <1>16, <1>17, <1>18, <1>19, <1>20, <1>21, <1>22, <1>23,
     <1>24, <1>25, <1>26, <1>27 DEF ProcStep

LEMMA LockStep ==
  ASSUME InstOK, NEW p \in Proc, ProcStep(p), LockInv(p)
  PROVE  LockInv(p)'
<1>0. inst \in Processes /\ flock \in [Inode -> Proc \cup {None}] /\ None \notin Inode
  BY NoneAssumption DEF InstOK
<1>1. CASE Main(p)
  BY <1>0, <1>1 DEF Main, At, Goto, Running, LockInv, Processes, ProcType, fileVars
<1>2. CASE Open(p)
  BY <1>0, <1>2 DEF Open, At, Goto, Running, LockInv, Processes, ProcType, fileVars
<1>3. CASE Flock(p)
  BY <1>0, <1>3 DEF Off, Flock, At, Goto, Running, LockInv, Processes, ProcType, fileVars
<1>4. CASE Unlock(p)
  BY <1>0, <1>4 DEF Unlock, At, Goto, Running, LockInv, Processes, ProcType, fileVars
<1>5. CASE Unlink(p)
  BY <1>0, <1>5 DEF Unlink, At, Goto, Running, LockInv, Processes, ProcType, fileVars
<1>6. CASE ReadVersion(p)
  BY <1>0, <1>6 DEF ReadVersion, At, Goto, Running, LockInv, Processes, ProcType, fileVars
<1>7. CASE StampVersion(p)
  BY <1>0, <1>7 DEF StampVersion, At, Goto, Running, LockInv, Processes, ProcType, fileVars
<1>8. CASE CreateTables(p)
  BY <1>0, <1>8 DEF CreateTables, At, Goto, Running, LockInv, Processes, ProcType, fileVars
<1>9. CASE Migrate(p)
  BY <1>0, <1>9 DEF Migrate, Abort, At, Goto, Running, LockInv, Processes, ProcType, fileVars
<1>10. CASE StartThreads(p)
  BY <1>0, <1>10 DEF StartThreads, At, Goto, Running, LockInv, Processes, ProcType, fileVars
<1>11. CASE StartFails(p)
  BY <1>0, <1>11 DEF StartFails, Abort, At, Goto, Running, LockInv, Processes, ProcType, fileVars
<1>12. CASE GetConnection(p)
  BY <1>0, <1>12 DEF GetConnection, At, Goto, Running, LockInv, Processes, ProcType, fileVars
<1>13. CASE OpenConnection(p)
  BY <1>0, <1>13 DEF OpenConnection, At, Goto, Running, LockInv, Processes, ProcType, fileVars
<1>14. CASE CheckLicense(p)
  BY <1>0, <1>14 DEF CheckLicense, At, Goto, Running, LockInv, Processes, ProcType, fileVars
<1>15. CASE WaitForCheck(p)
  BY <1>0, <1>15 DEF WaitForCheck, At, Goto, Running, LockInv, Processes, ProcType, fileVars
<1>16. CASE ArmWatchdog(p)
  BY <1>0, <1>16 DEF ArmWatchdog, At, Goto, Running, LockInv, Processes, ProcType, fileVars
<1>17. CASE RequestShutdown(p)
  BY <1>0, <1>17 DEF RequestShutdown, At, Goto, Running, LockInv, Processes, ProcType, fileVars
<1>18. CASE Stop(p)
  BY <1>0, <1>18 DEF Stop, At, Goto, Running, LockInv, Processes, ProcType, fileVars
<1>19. CASE JoinThreads(p)
  BY <1>0, <1>19 DEF JoinThreads, At, Goto, Running, LockInv, Processes, ProcType, fileVars
<1>20. CASE ShutPools(p)
  BY <1>0, <1>20 DEF ShutPools, At, Goto, Running, LockInv, Processes, ProcType, fileVars
<1>21. CASE CloseConnections(p)
  BY <1>0, <1>21 DEF CloseConnections, At, Goto, Running, LockInv, Processes, ProcType, fileVars
<1>22. CASE Exit(p)
  BY <1>0, <1>22 DEF Vanish, Off, Exit, At, Goto, Running, LockInv, Processes, ProcType, fileVars
<1>23. CASE WatchdogFires(p)
  BY <1>0, <1>23 DEF Vanish, Off, WatchdogFires, At, Goto, Running, LockInv, Processes, ProcType, fileVars
<1>24. CASE Crash(p)
  BY <1>0, <1>24 DEF Vanish, Off, Crash, At, Goto, Running, LockInv, Processes, ProcType, fileVars
<1>25. CASE ThreadsFail(p)
  BY <1>0, <1>25 DEF ThreadsFail, At, Goto, Running, LockInv, Processes, ProcType, fileVars
<1>26. CASE CancelWatchdog(p)
  BY <1>0, <1>26 DEF CancelWatchdog, At, Goto, Running, LockInv, Processes, ProcType, fileVars
<1>27. CASE ArmFails(p)
  BY <1>0, <1>27 DEF ArmFails, At, Goto, Running, LockInv, Processes, ProcType, fileVars
<1> QED
  BY <1>1, <1>2, <1>3, <1>4, <1>5, <1>6, <1>7, <1>8, <1>9, <1>10, <1>11, <1>12,
     <1>13, <1>14, <1>15, <1>16, <1>17, <1>18, <1>19, <1>20, <1>21, <1>22, <1>23,
     <1>24, <1>25, <1>26, <1>27 DEF ProcStep

\* Nobody loses a lock to a step of another process.
LEMMA OthersKeepLocks ==
  ASSUME InstOK, NEW p \in Proc, ProcStep(p), NEW q \in Proc \ {p}, LockInv(q)
  PROVE  LockInv(q)'
<1>1. inst'[q] = inst[q]
  BY Moves
<1>2. ASSUME Running(q) PROVE flock'[inst[q].fd] = flock[inst[q].fd]
  <2>1. flock[inst[q].fd] = q /\ q # None /\ q # p
    BY <1>2, NoneAssumption DEF LockInv
  <2>2. inst[q].fd \in Inode
    <3>1. inst[q].fd # None
      BY <1>2 DEF LockInv, Running
    <3> QED
      BY <3>1 DEF InstOK, Processes, ProcType
  <2>3. CASE Flock(p)
    BY <2>1, <2>2, <2>3 DEF Flock, InstOK
  <2>4. CASE Unlock(p) \/ Exit(p) \/ WatchdogFires(p) \/ Crash(p)
    BY <2>1, <2>2, <2>4 DEF Unlock, Exit, WatchdogFires, Crash, Vanish
  <2>5. CASE UNCHANGED flock
    BY <2>5
  <2> QED
    BY <2>3, <2>4, <2>5 DEF ProcStep, Main, Open, Unlink, ReadVersion, StampVersion,
       CreateTables, Migrate, StartThreads, StartFails, ThreadsFail, GetConnection,
       OpenConnection, CheckLicense, WaitForCheck, ArmWatchdog, ArmFails,
       RequestShutdown, CancelWatchdog, Stop, JoinThreads, ShutPools, CloseConnections, fileVars
<1> QED
  BY <1>1, <1>2 DEF LockInv, Running

LEMMA NameStep ==
  ASSUME InstOK, NEW p \in Proc, ProcStep(p), \A q \in Proc : LockInv(q), NameInv
  PROVE  NameInv'
<1>0. inst \in Processes /\ None \notin Inode
  BY NoneAssumption DEF InstOK
<1>1. \A q \in Proc \ {p} : inst'[q] = inst[q]
  BY Moves
<1>2. CASE Open(p)
  <2>1. PICK i \in Inode : /\ name' = i /\ (IF name = None THEN Unused(i) ELSE i = name)
                           /\ inst' = [inst EXCEPT ![p].pc = "opened", ![p].fd = i]
    BY <1>2 DEF Open
  <2>2. stolen' = stolen /\ inst'[p].fd = i
    BY <1>0, <1>2, <2>1 DEF Open, fileVars, Processes, ProcType
  <2>3. ASSUME ~stolen, NEW q \in Proc \ {p}, inst[q].fd # None PROVE inst[q].fd = i
    <3>1. inst[q].fd = name
      BY <2>3 DEF NameInv
    <3> QED
      BY <2>1, <2>3, <3>1
  <2> QED
    BY <1>1, <2>1, <2>2, <2>3 DEF NameInv
<1>3. CASE Unlink(p)
  <2>1. inst[p].fd = None /\ inst'[p].fd = None
    BY <1>0, <1>3 DEF Unlink, At, Goto, LockInv, Processes, ProcType
  <2>2. ~stolen' => ~stolen /\ (name = None \/ \A q \in Proc \ {p} : inst[q].fd # name)
    BY <1>3, Zenon DEF Unlink
  <2> QED
    BY <1>1, <2>1, <2>2 DEF NameInv
<1>4. CASE Exit(p) \/ WatchdogFires(p) \/ Crash(p)
  <2>1. Vanish(p)
    BY <1>4 DEF Exit, WatchdogFires, Crash
  <2>2. inst'[p].fd = None /\ name' = name
    BY <1>0, <2>1 DEF Vanish, Off, Processes
  <2>3. CASE stolen
    <3>1. ~stolen' => \A q \in Proc \ {p} : inst[q].fd = None
      <4>1. ~stolen' => \A q \in Proc \ {p} : At(q, "off")
        BY <2>1, <2>3, Zenon DEF Vanish
      <4> QED
        BY <4>1 DEF At, LockInv
    <3> QED
      BY <1>1, <2>2, <3>1 DEF NameInv
  <2>4. CASE ~stolen
    BY <1>1, <2>2, <2>4 DEF NameInv
  <2> QED
    BY <2>3, <2>4
<1>5. CASE Unlock(p)
  <2>1. inst'[p].fd = None
    BY <1>0, <1>5 DEF Unlock, Processes, ProcType
  <2> QED
    BY <1>1, <1>5, <2>1 DEF Unlock, NameInv
<1>6. ASSUME UNCHANGED <<name, stolen>>, inst'[p].fd \in {inst[p].fd, None}
      PROVE  NameInv'
  BY <1>1, <1>6 DEF NameInv
<1>7. CASE Flock(p)
  <2>1. inst'[p].fd \in {inst[p].fd, None}
    BY <1>0, <1>7 DEF Flock, Goto, Off, Processes, ProcType
  <2> QED
    BY <1>6, <1>7, <2>1 DEF Flock
<1>8. CASE \/ Main(p) \/ ReadVersion(p) \/ StampVersion(p) \/ CreateTables(p)
           \/ StartThreads(p) \/ StartFails(p) \/ ThreadsFail(p) \/ GetConnection(p)
  <2>1. inst'[p].fd = inst[p].fd
    BY <1>0, <1>8 DEF Main, ReadVersion, StampVersion, CreateTables, StartThreads,
       StartFails, ThreadsFail, Abort, GetConnection, Goto, Processes, ProcType
  <2> QED
    BY <1>6, <1>8, <2>1 DEF Main, ReadVersion, StampVersion, CreateTables,
       StartThreads, StartFails, ThreadsFail, GetConnection, fileVars
<1>9. CASE \/ OpenConnection(p) \/ CheckLicense(p) \/ WaitForCheck(p)
           \/ ArmWatchdog(p) \/ ArmFails(p) \/ RequestShutdown(p) \/ CancelWatchdog(p)
  <2>1. inst'[p].fd = inst[p].fd
    BY <1>0, <1>9 DEF OpenConnection, CheckLicense, WaitForCheck, ArmWatchdog,
       ArmFails, RequestShutdown, CancelWatchdog, Processes, ProcType
  <2> QED
    BY <1>6, <1>9, <2>1 DEF OpenConnection, CheckLicense, WaitForCheck, ArmWatchdog,
       ArmFails, RequestShutdown, CancelWatchdog, fileVars
<1>10. CASE \/ Stop(p) \/ JoinThreads(p) \/ ShutPools(p) \/ CloseConnections(p)
            \/ Migrate(p)
  <2>1. inst'[p].fd = inst[p].fd
    BY <1>0, <1>10 DEF Stop, JoinThreads, ShutPools, CloseConnections, Migrate, Abort,
       Goto, Processes, ProcType
  <2> QED
    BY <1>6, <1>10, <2>1 DEF Stop, JoinThreads, ShutPools, CloseConnections, Migrate,
       fileVars
<1> QED
  BY <1>2, <1>3, <1>4, <1>5, <1>7, <1>8, <1>9, <1>10 DEF ProcStep

-----------------------------------------------------------------------------
(* The database, through every step of every process.                      *)

LEMMA StampedCreated ==
  /\ Stamped(Empty) = Half /\ Stamped(Half) = Half /\ Stamped(Full) = Full
  /\ Created(Half) = Full /\ Created(Full) = Full
<1> DEFINE yes == TRUE
           sites == [t \in Title |-> SiteOf(t)]
           rec(v, o) == [version |-> v, objects |-> o, sent |-> yes,
                         region_id |-> sites, subs |-> NoSubs]
<1>1. /\ Empty = rec(0, {}) /\ Half = Stamped(Empty) /\ Full = Created(Half)
  BY Zenon DEF Empty, Half, Full
<1> HIDE DEF yes, sites
<1>2. \A v, o : [rec(v, o) EXCEPT !.version = 11] = rec(11, o)
  OBVIOUS
<1>3. \A v, o : [rec(v, o) EXCEPT !.objects = SchemaObjects] = rec(v, SchemaObjects)
  OBVIOUS
<1> HIDE DEF rec
<1>4. Half = rec(11, {})
  BY <1>1, <1>2, Zenon DEF Stamped, LATEST_SCHEMA_VERSION
<1>5. Full = rec(11, SchemaObjects)
  BY <1>1, <1>3, <1>4, Zenon DEF Created
<1> QED
  BY <1>1, <1>2, <1>3, <1>4, <1>5, Zenon DEF Stamped, Created, LATEST_SCHEMA_VERSION

LEMMA FullLatest == dates = NoDates => Latest(Full)
  BY FullIsLatest DEF Latest

LEMMA LatestKind ==
  ASSUME NEW date
  PROVE  /\ OldDatabase(11, TRUE, date).version = 11
         /\ "tables" \in OldDatabase(11, TRUE, date).objects
  BY DEF OldDatabase, ObjectsAt

LEMMA LatestVersion == \A d : Latest(d) => d.version = 11
  BY LatestKind, Zenon DEF Latest

\* The dates that were found are history.
LEMMA DatesStay ==
  ASSUME NEW p \in Proc, ProcStep(p) PROVE dates' = dates
<1>1. CASE \/ Main(p) \/ Open(p) \/ Flock(p) \/ Unlock(p) \/ Unlink(p) \/ ReadVersion(p)
           \/ StampVersion(p) \/ CreateTables(p) \/ Migrate(p) \/ StartThreads(p)
           \/ StartFails(p) \/ ThreadsFail(p)
  BY <1>1, Zenon DEF Main, Open, Flock, Unlock, Unlink, ReadVersion, StampVersion,
     CreateTables, Migrate, StartThreads, StartFails, ThreadsFail, dbVars
<1>2. CASE \/ GetConnection(p) \/ OpenConnection(p) \/ CheckLicense(p) \/ WaitForCheck(p)
           \/ ArmWatchdog(p) \/ ArmFails(p) \/ RequestShutdown(p)
           \/ Stop(p) \/ JoinThreads(p) \/ ShutPools(p) \/ CloseConnections(p)
           \/ CancelWatchdog(p) \/ Exit(p) \/ WatchdogFires(p) \/ Crash(p)
  BY <1>2, Zenon DEF GetConnection, OpenConnection, CheckLicense, WaitForCheck,
     ArmWatchdog, ArmFails, RequestShutdown, Stop, JoinThreads, ShutPools,
     CloseConnections, CancelWatchdog, Exit, WatchdogFires, Crash, Vanish, dbVars
<1> QED
  BY <1>1, <1>2 DEF ProcStep

LEMMA LatestIsOld == \A d : Latest(d) => Old(d) /\ d # Half
<1> DEFINE e == OldDatabase(11, TRUE, dates)
<1>1. Old(e)
  <2>1. 11 \in 1..11 /\ ~(11 < 4)
    OBVIOUS
  <2> QED
    BY <2>1, Zenon DEF Old
<1>2. "tables" \in e.objects /\ Half.objects = {}
  BY Kinds, LatestKind
<1>3. e # Half
  BY <1>2
<1> QED
  BY <1>1, <1>3 DEF Latest

LEMMA ChainedIsOld ==
  ASSUME DbInv, HasChain(db)
  PROVE  /\ Latest(Migrated(db))
         /\ \A p \in Proc : inst[p].pc \notin {"create", "tables", "built", "up"}
<1>1. db.version \in 1..10
  BY DEF HasChain, LATEST_SCHEMA_VERSION
<1>2. db \notin {Empty, Half, Full} /\ db \notin Foreign
  BY <1>1, Kinds
<1>3. PICK v \in 1..11, placed \in BOOLEAN :
        (v < 4 => dates = NoDates) /\ db = OldDatabase(v, placed, dates)
  BY <1>2 DEF DbInv, Fresh, Old
<1>4. v \in 1..10
  BY <1>1, <1>3, Kinds
<1>5. Migrated(OldDatabase(v, placed, dates)) = OldDatabase(11, TRUE, dates)
  BY <1>3, <1>4, MigratedIsLatest DEF DbInv
<1>6. Latest(Migrated(db))
  BY <1>3, <1>5 DEF Latest
<1>7. ~Latest(db)
  BY <1>1, LatestVersion
<1> QED
  BY <1>2, <1>6, <1>7 DEF DbInv, Fresh, At

LEMMA DbSame ==
  ASSUME DbInv, NEW p \in Proc, \A q \in Proc \ {p} : inst'[q] = inst[q],
         db' = db, dates' = dates, torn => torn',
         At(p, "tables") => inst'[p].pc = "tables" \/ torn',
         inst'[p].pc = "create" => Fresh({Empty, Half, Full}),
         inst'[p].pc = "tables" => Fresh({Half, Full}),
         inst'[p].pc \in {"built", "up"} => db = Half \/ Latest(db)
  PROVE  DbInv'
<1>1. /\ Old(db)' <=> Old(db)
      /\ Latest(db)' <=> Latest(db)
      /\ Fresh({Empty, Half, Full} \cup Foreign)' <=> Fresh({Empty, Half, Full} \cup Foreign)
      /\ Fresh({Empty, Half, Full})' <=> Fresh({Empty, Half, Full})
      /\ Fresh({Half, Full})' <=> Fresh({Half, Full})
  BY DEF Old, Latest, Fresh
<1>2. ASSUME NEW q \in Proc
      PROVE  /\ At(q, "create")' => Fresh({Empty, Half, Full})
             /\ At(q, "tables")' => Fresh({Half, Full})
             /\ inst'[q].pc \in {"built", "up"} => db = Half \/ Latest(db)
  BY DEF DbInv, At
<1>3. db' = Half => torn' \/ \E q \in Proc : At(q, "tables")'
  BY DEF DbInv, At
<1> QED
  BY <1>1, <1>2, <1>3 DEF DbInv

LEMMA DbStep ==
  ASSUME InstOK, NEW p \in Proc, ProcStep(p), DbInv
  PROVE  DbInv'
<1>0. inst \in Processes
  BY DEF InstOK
<1>1. \A q \in Proc \ {p} : inst'[q] = inst[q]
  BY Moves
<1>d. dates' = dates
  BY DatesStay
<1>2. CASE StampVersion(p)
  <2>1. db \in {Empty, Half, Full} /\ dates = NoDates /\ db' = Stamped(db)
    BY <1>2 DEF StampVersion, DbInv, Fresh
  <2>2. db' \in {Half, Full}
    BY <2>1, StampedCreated
  <2>3. inst'[p].pc = "tables"
    BY <1>0, <1>2 DEF StampVersion, Goto, Processes, ProcType
  <2>4. (db = Half \/ Latest(db))'
    BY <1>d, <2>1, <2>2, FullLatest DEF Latest
  <2> QED
    BY <1>1, <1>d, <2>1, <2>2, <2>3, <2>4 DEF DbInv, Fresh, At
<1>3. CASE CreateTables(p)
  <2>1. db' = Full /\ dates = NoDates
    BY <1>3, StampedCreated DEF CreateTables, DbInv, Fresh
  <2>2. Latest(db)' /\ db' # Half
    BY <1>d, <2>1, FullLatest, LatestIsOld DEF Latest
  <2> QED
    BY <1>d, <2>1, <2>2 DEF DbInv, Fresh
<1>4. CASE Migrate(p)
  <2>1. CASE HasChain(db)
    <3>1. /\ Latest(Migrated(db)) /\ db' = Migrated(db)
          /\ \A q \in Proc : inst[q].pc \notin {"create", "tables", "built", "up"}
      BY <1>4, <2>1, ChainedIsOld DEF Migrate
    <3>2. inst'[p].pc = "built"
      BY <1>0, <1>4, <2>1 DEF Migrate, Goto, Processes, ProcType
    <3>3. Old(db)' /\ Latest(db)' /\ db' # Half
      <4>1. Old(Migrated(db)) /\ Migrated(db) # Half
        BY <3>1, LatestIsOld
      <4> QED
        BY <1>d, <3>1, <4>1 DEF Old, Latest
    <3> QED
      BY <1>1, <1>d, <3>1, <3>2, <3>3 DEF DbInv, At
  <2>2. CASE ~HasChain(db)
    <3>1. db' = db /\ torn' = torn /\ inst'[p].pc = "unlock" /\ ~At(p, "tables")
      BY <1>0, <1>4, <2>2 DEF Migrate, Abort, Goto, At, Processes, ProcType
    <3> QED
      BY <1>1, <1>d, <3>1, DbSame
  <2> QED
    BY <2>1, <2>2
<1>5. CASE ReadVersion(p)
  <2>1. db' = db /\ torn' = torn /\ ~At(p, "tables")
    BY <1>5 DEF ReadVersion, At, dbVars
  <2>2. inst'[p].pc = IF db.version = 11 THEN "built"
                      ELSE IF db.version > 11 THEN "unlock"
                      ELSE IF db.version = 0 /\ db.objects = {} THEN "create"
                      ELSE "migrate"
    BY <1>0, <1>5 DEF ReadVersion, LATEST_SCHEMA_VERSION, Processes, ProcType
  <2>3. ASSUME db.version = 11 PROVE db = Half \/ Latest(db)
    <3>1. Fresh({Half, Full}) \/ Old(db)
      BY <2>3, Kinds DEF DbInv, Fresh
    <3>2. ASSUME Old(db) PROVE Latest(db)
      <4>1. PICK v \in 1..11, placed \in BOOLEAN : db = OldDatabase(v, placed, dates)
        BY <3>2 DEF Old
      <4>2. v = 11
        BY <2>3, <4>1, Kinds
      <4>3. OldDatabase(11, placed, dates) = OldDatabase(11, TRUE, dates)
        <5>1. RegionsAt(11, placed) = RegionsAt(11, TRUE)
          BY Regions
        <5> QED
          BY <5>1, OldIsShape, Zenon DEF Shape
      <4> QED
        BY <4>1, <4>2, <4>3 DEF Latest
    <3> QED
      BY <3>1, <3>2, FullLatest DEF Fresh
  <2>4. ASSUME db.version = 0, db.objects = {} PROVE Fresh({Empty})
    <3>1. ~Old(db)
      BY <2>4, Kinds DEF Old
    <3> QED
      BY <2>4, <3>1, Kinds DEF DbInv, Fresh
  <2> QED
    BY <1>1, <1>d, <2>1, <2>2, <2>3, <2>4, DbSame DEF Fresh
<1>6. CASE StartThreads(p)
  <2>1. /\ db' = db /\ torn' = torn /\ inst'[p].pc = "up" /\ At(p, "built")
    BY <1>0, <1>6 DEF StartThreads, At, dbVars, Processes, ProcType
  <2> QED
    BY <1>1, <1>d, <2>1, DbSame DEF DbInv, At
<1>7. CASE Exit(p) \/ WatchdogFires(p) \/ Crash(p)
  <2>1. Vanish(p)
    BY <1>7 DEF Exit, WatchdogFires, Crash
  <2>2. db' = db /\ inst'[p].pc = "off"
    BY <1>0, <2>1 DEF Vanish, Off, Processes
  <2>3. (torn => torn') /\ (At(p, "tables") => torn')
    BY <2>1, Zenon DEF Vanish
  <2> QED
    BY <1>1, <1>d, <2>2, <2>3, DbSame
<1>8. ASSUME db' = db, torn' = torn, inst'[p].pc = inst[p].pc PROVE DbInv'
  BY <1>1, <1>d, <1>8, DbSame DEF DbInv, At
<1>9. CASE \/ GetConnection(p) \/ OpenConnection(p) \/ CheckLicense(p)
           \/ WaitForCheck(p) \/ ArmWatchdog(p) \/ ArmFails(p) \/ RequestShutdown(p)
  <2>1. inst'[p].pc = inst[p].pc
    BY <1>0, <1>9 DEF GetConnection, OpenConnection, CheckLicense, WaitForCheck,
       ArmWatchdog, ArmFails, RequestShutdown, Processes, ProcType
  <2> QED
    BY <1>8, <1>9, <2>1 DEF GetConnection, OpenConnection, CheckLicense,
       WaitForCheck, ArmWatchdog, ArmFails, RequestShutdown, dbVars
<1>10. ASSUME db' = db, torn' = torn, ~At(p, "tables"),
              inst'[p].pc \notin {"create", "tables", "built", "up"}
       PROVE  DbInv'
  BY <1>1, <1>d, <1>10, DbSame
<1>11. CASE Main(p) \/ Open(p) \/ Flock(p) \/ Unlock(p) \/ Unlink(p)
  <2>1. ~At(p, "tables") /\ inst'[p].pc \notin {"create", "tables", "built", "up"}
    BY <1>0, <1>11 DEF Main, Open, Flock, Unlock, Unlink, Off, Goto, At, Processes,
       ProcType
  <2> QED
    BY <1>10, <1>11, <2>1 DEF Main, Open, Flock, Unlock, Unlink, dbVars
<1>12. CASE \/ ThreadsFail(p) \/ Stop(p) \/ JoinThreads(p) \/ ShutPools(p)
            \/ CloseConnections(p) \/ CancelWatchdog(p)
  <2>1. ~At(p, "tables") /\ inst'[p].pc \notin {"create", "tables", "built", "up"}
    BY <1>0, <1>12 DEF ThreadsFail, Stop, JoinThreads, ShutPools,
       CloseConnections, CancelWatchdog, Goto, At, Processes, ProcType
  <2> QED
    BY <1>10, <1>12, <2>1 DEF ThreadsFail, Stop, JoinThreads, ShutPools,
       CloseConnections, CancelWatchdog, dbVars
<1>13. CASE StartFails(p)
  <2>1. /\ db' = db /\ (torn => torn') /\ (At(p, "tables") => torn')
    BY <1>13, Zenon DEF StartFails
  <2>2. inst'[p].pc = "unlock"
    BY <1>0, <1>13 DEF StartFails, Abort, Goto, Processes, ProcType
  <2> QED
    BY <1>1, <1>d, <2>1, <2>2, DbSame
<1> QED
  BY <1>2, <1>3, <1>4, <1>5, <1>6, <1>7, <1>9, <1>11, <1>12, <1>13 DEF ProcStep

-----------------------------------------------------------------------------
LEMMA IInvInit == Init => IInv
<1> SUFFICES ASSUME Init PROVE IInv
  OBVIOUS
<1>1. \A p \in Proc : inst[p] = Off
  BY DEF Init
<1>2. Off \in ProcType /\ Off.pc = "off" /\ Off.license = "none"
      /\ Off.opening = FALSE /\ Off.conn = "none" /\ Off.fd = None
  BY DEF Off, ProcType
<1>3. \A p \in Proc : ConnInv(p) /\ LockInv(p)
  BY <1>1, <1>2 DEF ConnInv, LockInv, Closed, Running
<1>4. InstOK
  <2>1. torn \in BOOLEAN /\ stolen \in BOOLEAN
    BY Zenon DEF Init
  <2> QED
    BY <1>2, <2>1 DEF Init, InstOK, Processes
<1>5. NameInv
  BY <1>1, <1>2 DEF NameInv
<1>6. dates \in Dates /\ (Fresh({Empty} \cup Foreign) \/ Old(db))
  <2>0. dates \in Dates
    BY DateAssumption DEF Init, NoDates, Dates
  <2>1. CASE dates = NoDates /\ db \in {Empty} \cup {[Empty EXCEPT !.version = v,
                                 !.objects = SchemaObjects] : v \in {0, LATEST_SCHEMA_VERSION + 1}}
    <3>1. LATEST_SCHEMA_VERSION + 1 = 12
      BY DEF LATEST_SCHEMA_VERSION
    <3> QED
      BY <2>0, <2>1, <3>1 DEF Foreign, Fresh
  <2>2. CASE \E v \in 1..LATEST_SCHEMA_VERSION, placed \in BOOLEAN :
               (v < 4 => dates = NoDates) /\ db = OldDatabase(v, placed, dates)
    BY <2>0, <2>2 DEF Old, LATEST_SCHEMA_VERSION
  <2> QED
    BY <2>1, <2>2 DEF Init
<1>7. db # Half
  BY <1>6, Kinds DEF Old, Fresh
<1>8. DbInv
  BY <1>1, <1>2, <1>6, <1>7 DEF DbInv, Fresh, At
<1> QED
  BY <1>3, <1>4, <1>5, <1>8, DbTyped DEF IInv, LifespanTypeOK, InstOK, Processes, DbType,
     DbInv, Dates

LEMMA IInvStep == IInv /\ [Next]_vars => IInv'
<1> SUFFICES ASSUME IInv, [Next]_vars PROVE IInv'
  OBVIOUS
<1>0. InstOK
  BY DEF IInv, LifespanTypeOK, InstOK, Processes
<1>1. ASSUME NEW p \in Proc, ProcStep(p) PROVE IInv'
  <2>1. InstOK' /\ \A q \in Proc \ {p} : inst'[q] = inst[q]
    BY <1>0, <1>1, Moves
  <2>2. \A q \in Proc : ConnInv(q)'
    <3>1. ConnInv(p)'
      BY <1>0, <1>1, ConnStep DEF IInv
    <3>2. \A q \in Proc \ {p} : ConnInv(q)'
      BY <2>1 DEF IInv, ConnInv, Closed
    <3> QED
      BY <3>1, <3>2
  <2>3. \A q \in Proc : LockInv(q)'
    BY <1>0, <1>1, LockStep, OthersKeepLocks DEF IInv
  <2>4. NameInv'
    BY <1>0, <1>1, NameStep DEF IInv
  <2>5. DbInv'
    BY <1>0, <1>1, DbStep DEF IInv
  <2>6. db' \in DbType
    <3>1. (DbInv => db \in DbType)'
      BY DbTyped, PTL
    <3> QED
      BY <2>5, <3>1
  <2>7. LifespanTypeOK'
    BY <2>1, <2>5, <2>6 DEF LifespanTypeOK, InstOK, Processes, DbType, DbInv, Dates
  <2> QED
    BY <2>2, <2>3, <2>4, <2>5, <2>7 DEF IInv
<1>2. CASE UNCHANGED vars
  BY <1>2 DEF vars, IInv, LifespanTypeOK, ConnInv, LockInv, NameInv, DbInv, Closed,
     Fresh, Old, Latest, Running, At
<1> QED
  BY <1>1, <1>2 DEF Next

LEMMA Safety == Spec => []IInv
  BY IInvInit, IInvStep, PTL DEF Spec

\* Every variable keeps its type, the database with whatever has been migrated.
THEOREM LifespanTypes == Spec => []LifespanTypeOK
<1>1. IInv => LifespanTypeOK
  BY DEF IInv
<1> QED
  BY <1>1, Safety, PTL

\* Two processes hold locks at once only if a release has unlinked the file
\* that another one had opened: flock and the unlinked name together keep the
\* second instance out otherwise, through any number of crashes.
THEOREM SingleInstance == Spec => []OneInstance
<1>1. IInv => OneInstance
  <2> SUFFICES ASSUME IInv, NEW p \in Proc, NEW q \in Proc, Running(p), Running(q),
                      ~stolen
               PROVE  p = q
    BY DEF OneInstance
  <2>1. inst[p].fd # None /\ inst[q].fd # None
    BY DEF IInv, LockInv, Running
  <2>2. inst[p].fd = name /\ inst[q].fd = name
    BY <2>1 DEF IInv, NameInv
  <2> QED
    BY <2>2 DEF IInv, LockInv
<1> QED
  BY <1>1, Safety, PTL

\* A process that has given its lock back holds no connection but one a failed
\* startup or a late thread left it.
THEOREM ConnectionsClosed == Spec => []ClosedBeforeRelease
<1>1. IInv => ClosedBeforeRelease
  <2> SUFFICES ASSUME IInv, NEW p \in Proc, inst[p].conn = "open", ~Running(p)
               PROVE  inst[p].license = "none"
    BY DEF ClosedBeforeRelease
  <2>1. ConnInv(p)
    BY DEF IInv
  <2> QED
    BY <2>1 DEF ConnInv, Running, Closed
<1> QED
  BY <1>1, Safety, PTL

\* Whatever version's database a process finds and wherever others have died or
\* failed, it comes up on the schema of its own version, with exactly the dates the
\* subscriptions had, or else on a stamp without tables that one of them left.
THEOREM SchemaLatest == Spec => []SchemaIsLatest
<1>1. IInv => SchemaIsLatest
  <2> SUFFICES ASSUME IInv, NEW p \in Proc, inst[p].pc \in {"built", "up"},
                      ~((torn \/ stolen) /\ db = Half)
               PROVE  /\ db.version = LATEST_SCHEMA_VERSION
                      /\ db.objects = SchemaObjects
                      /\ db.sent
                      /\ \A t \in Title : db.region_id[t] = SiteOf(t)
                      /\ db.subs = OldDatabase(LATEST_SCHEMA_VERSION, TRUE, dates).subs
    BY DEF SchemaIsLatest, Half
  <2>1. ASSUME db = Half PROVE FALSE
    <3>1. ~torn /\ ~stolen
      BY <2>1, Zenon
    <3>2. PICK q \in Proc : At(q, "tables")
      BY <2>1, <3>1 DEF IInv, DbInv
    <3>3. inst[p].fd # None /\ inst[q].fd # None /\ Running(p) /\ Running(q) /\ p # q
      BY <3>2 DEF IInv, LockInv, Running, At
    <3>4. inst[p].fd = name /\ inst[q].fd = name
      BY <3>1, <3>3 DEF IInv, NameInv
    <3> QED
      BY <3>3, <3>4 DEF IInv, LockInv
  <2>2. db = OldDatabase(11, TRUE, dates)
    BY <2>1 DEF IInv, DbInv, Latest
  <2>3. db = Shape(11, 11, TRUE, dates)
    BY <2>2, OldIsShape
  <2>4. /\ db.version = 11 /\ db.objects = ObjectsAt(11) /\ db.sent = SentAt(11)
        /\ db.region_id = RegionsAt(11, TRUE)
    BY <2>3 DEF Shape
  <2>5. db.sent
    <3>1. SentAt(11)
      BY DEF SentAt
    <3> QED
      BY <2>4, <3>1, Zenon
  <2>6. \A t \in Title : db.region_id[t] = SiteOf(t)
    BY <2>4 DEF RegionsAt
  <2>7. db.subs = OldDatabase(LATEST_SCHEMA_VERSION, TRUE, dates).subs
    BY <2>2 DEF LATEST_SCHEMA_VERSION
  <2> QED
    BY <2>4, <2>5, <2>6, <2>7, Objects DEF LATEST_SCHEMA_VERSION
<1> QED
  BY <1>1, Safety, PTL
================================================================================
