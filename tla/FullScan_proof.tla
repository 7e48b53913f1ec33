--------------------------- MODULE FullScan_proof ---------------------------
(***************************************************************************)
(* Theorems about FullScan, for every set of lots, every page and batch    *)
(* size and any number of changes and failures: the types, and that a scan *)
(* whose walk was whole marks no lot that has been on the site all along.  *)
(*                                                                         *)
(* The argument is about ranks.  During the walk, every listed lot that    *)
(* has fewer newer lots than the pages read hold is in the ids; a lot that *)
(* is published only raises the ranks of others.  When a page is empty,    *)
(* no lot has a rank that large (NoGap), so all of the listed ones were    *)
(* seen.  A page with unreadable rows sets partial; without any, the page  *)
(* that ended the walk was empty (EndHasNoRows).                           *)
(***************************************************************************)
EXTENDS FullScan, FiniteSetTheorems, WellFoundedInduction, TLAPS

LEMMA FiniteLots == \A S \in SUBSET Lot : IsFiniteSet(S) /\ Cardinality(S) \in Nat
  BY LotAssumption, FS_Subset, FS_CardinalityType

LEMMA LeastNatural ==
  ASSUME NEW T \in SUBSET Nat, T # {}
  PROVE  \E x \in T : \A y \in T : x <= y
<1> DEFINE R == OpToRel(<, Nat)
<1>1. PICK x \in T : \A y \in T : <<y, x>> \notin R
  BY NatLessThanWellFounded, WFMin
<1>2. \A y \in T : ~(y < x)
  BY <1>1 DEF OpToRel
<1> QED
  BY <1>2

LEMMA SliceType ==
  ASSUME NEW S \in SUBSET Lot, NEW o, NEW n
  PROVE  Slice(S, o, n) \subseteq S
  BY DEF Slice

\* A lot has a higher rank than those newer than it.
LEMMA RankGrows ==
  ASSUME NEW S \in SUBSET Lot, NEW l \in S, NEW k \in Newer(S, l)
  PROVE  Cardinality(Newer(S, k)) < Cardinality(Newer(S, l))
<1>1. S \subseteq Nat /\ l \in Nat /\ k \in S /\ k \in Nat /\ k > l
  BY LotAssumption DEF Newer
<1>2. Newer(S, k) \subseteq Newer(S, l) /\ k \in Newer(S, l) /\ k \notin Newer(S, k)
  <2>1. ASSUME NEW j \in Newer(S, k) PROVE j \in Newer(S, l)
    <3>1. j \in S /\ j \in Nat /\ j > k
      BY <1>1 DEF Newer
    <3>2. j > l
      BY <1>1, <3>1
    <3> QED
      BY <3>1, <3>2 DEF Newer
  <2>2. ~(k > k)
    BY <1>1
  <2> QED
    BY <2>1, <2>2 DEF Newer
<1>3. Newer(S, l) \in SUBSET Lot /\ Newer(S, k) \in SUBSET Lot
  BY DEF Newer
<1>4. Cardinality(Newer(S, k)) <= Cardinality(Newer(S, l))
      /\ Cardinality(Newer(S, k)) # Cardinality(Newer(S, l))
  BY <1>2, <1>3, FiniteLots, FS_Subset
<1> QED
  BY <1>3, <1>4, FiniteLots

\* The rank of a lot is one more than that of the next newer one.
LEMMA RankOfNext ==
  ASSUME NEW S \in SUBSET Lot, NEW l \in S, Newer(S, l) # {}
  PROVE  \E k \in Newer(S, l) :
            Cardinality(Newer(S, l)) = Cardinality(Newer(S, k)) + 1
<1>1. S \subseteq Nat /\ Newer(S, l) \subseteq Nat
  BY LotAssumption DEF Newer
<1>2. PICK k \in Newer(S, l) : \A j \in Newer(S, l) : k <= j
  BY <1>1, LeastNatural
<1>3. Newer(S, l) = Newer(S, k) \cup {k} /\ k \notin Newer(S, k)
  <2>1. l \in Nat /\ k \in S /\ k \in Nat /\ k > l
    BY <1>1 DEF Newer
  <2>2. ASSUME NEW j \in S PROVE j > l <=> (j > k \/ j = k)
    <3>1. j \in Nat
      BY <1>1
    <3>2. j > l => k <= j
      BY <1>2 DEF Newer
    <3> QED
      BY <2>1, <3>1, <3>2
  <2>3. ~(k > k)
    BY <2>1
  <2> QED
    BY <2>1, <2>2, <2>3 DEF Newer
<1>4. Newer(S, k) \in SUBSET Lot
  BY DEF Newer
<1> QED
  BY <1>3, <1>4, FiniteLots, FS_AddElement

\* A page without rows has nothing behind it.
LEMMA NoGap ==
  ASSUME NEW S \in SUBSET Lot, NEW o \in Nat, NEW n \in Nat \ {0},
         Slice(S, o, n) = {}, NEW l \in S
  PROVE  Cardinality(Newer(S, l)) < o
<1> DEFINE Rank(x) == Cardinality(Newer(S, x))
           High == {x \in S : Rank(x) >= o}
<1>1. \A x \in S : Newer(S, x) \in SUBSET Lot /\ Rank(x) \in Nat
  BY FiniteLots DEF Newer
<1>2. SUFFICES ASSUME l \in High PROVE FALSE
  BY <1>1
<1>3. PICK m \in High : \A x \in High : Rank(m) <= Rank(x)
  <2>1. {Rank(x) : x \in High} \subseteq Nat /\ {Rank(x) : x \in High} # {}
    BY <1>1, <1>2
  <2>2. PICK r \in {Rank(x) : x \in High} : \A q \in {Rank(x) : x \in High} : r <= q
    BY <2>1, LeastNatural
  <2> QED
    BY <2>2
<1>4. \A k \in Newer(S, m) : Rank(k) < o
  <2>1. SUFFICES ASSUME NEW k \in Newer(S, m) PROVE Rank(k) < o
    OBVIOUS
  <2>2. k \in S /\ Rank(k) < Rank(m)
    BY RankGrows DEF Newer
  <2> QED
    BY <1>1, <1>3, <2>2
<1>5. Rank(m) <= o
  <2>1. CASE Newer(S, m) = {}
    BY <2>1, FS_EmptySet
  <2>2. CASE Newer(S, m) # {}
    <3>1. PICK k \in Newer(S, m) : Rank(m) = Rank(k) + 1
      BY <2>2, RankOfNext
    <3>2. k \in S /\ Rank(k) < o
      BY <1>4 DEF Newer
    <3> QED
      BY <1>1, <3>1, <3>2
  <2> QED
    BY <2>1, <2>2
<1>6. m \in S /\ Rank(m) \in o..(o + n - 1)
  BY <1>1, <1>5
<1> QED
  BY <1>6 DEF Slice

\* No readable row is lost with a page that ends the catalogue.
LEMMA EndHasNoRows ==
  ASSUME NEW rows, "end" \in Verdicts(rows)
  PROVE  rows = {}
<1>1. PICK f \in Fetched : Verdict(f[1], f[2], rows) = "end"
  BY DEF Verdicts
<1>2. parse(f[2], rows) = "end"
  BY <1>1 DEF Verdict
<1> QED
  BY <1>2 DEF parse

LEMMA ReadIsSubset == \A S : \A shape \in [S -> RowShape] : ReadRows(shape) \subseteq S
  BY DEF ReadRows

-----------------------------------------------------------------------------
\* TypeOK is inductive; the flags are apart from the numbers.
FlagsOK == stopped \in BOOLEAN /\ partial \in BOOLEAN /\ shifted \in BOOLEAN

RestOK ==
  /\ site \subseteq Lot /\ active \subseteq Lot
  /\ pc \in {"idle", "walk", "batch", "mark"}
  /\ page \in 1..(PageLimit + 1) /\ offset \in Nat
  /\ ids \subseteq Lot /\ todo \subseteq Lot
  /\ listed \subseteq Lot
  /\ changes \in 0..MaxChanges /\ faults \in 0..MaxFaults

LEMMA TypeParts == TypeOK <=> FlagsOK /\ RestOK
  BY Zenon DEF TypeOK, FlagsOK, RestOK

LEMMA TypeInit == Init => TypeOK
<1> SUFFICES ASSUME Init PROVE FlagsOK /\ RestOK
  BY TypeParts
<1>1. FlagsOK
  BY Zenon DEF Init, FlagsOK
<1>2. RestOK
  BY SizeAssumption, BoundAssumption DEF Init, RestOK
<1> QED
  BY <1>1, <1>2

LEMMA FlagsStep == FlagsOK /\ [Next]_vars => FlagsOK'
<1> SUFFICES ASSUME FlagsOK, [Next]_vars PROVE FlagsOK'
  OBVIOUS
<1> USE DEF FlagsOK, histories
<1>1. CASE \E l \in Lot : Publish(l) \/ Withdraw(l) \/ Store(l)
  BY <1>1, Zenon DEF Publish, Withdraw, Store
<1>2. CASE StartScan \/ FetchPage \/ SessionExpires
  BY <1>2, Zenon DEF StartScan, FetchPage, SessionExpires, Unread
<1>3. CASE WalkCompletes \/ FetchFails \/ WalkReachesLimit \/ WalkStops
  BY <1>3, Zenon DEF WalkCompletes, FetchFails, WalkReachesLimit, WalkStops,
                     WalkEnds, Unread
<1>4. CASE ReadBatch \/ EndBatch \/ \E l \in Lot : MarkInactive(l)
  BY <1>4, Zenon DEF ReadBatch, EndBatch, MarkInactive
<1>5. CASE FinishScan \/ BatchesStop \/ Crash
  BY <1>5, Zenon DEF FinishScan, BatchesStop, Crash, ScanEnds
<1>6. CASE Stop \/ Restart \/ UNCHANGED vars
  BY <1>6, Zenon DEF Stop, Restart, vars
<1> QED
  BY <1>1, <1>2, <1>3, <1>4, <1>5, <1>6 DEF Next, ScanStep

LEMMA RestStep == RestOK /\ [Next]_vars => RestOK'
<1> SUFFICES ASSUME RestOK, [Next]_vars PROVE RestOK'
  OBVIOUS
<1> USE SizeAssumption, BoundAssumption DEF RestOK, scanVars, histories
<1>1. CASE \E l \in Lot : Publish(l) \/ Withdraw(l) \/ Store(l)
  BY <1>1 DEF Publish, Withdraw, Store, Change
<1>2. CASE StartScan
  BY <1>2 DEF StartScan
<1>3. CASE FetchPage
  <2>1. PageRows \subseteq Lot
    BY SliceType DEF PageRows
  <2>2. PICK shape \in [PageRows -> RowShape] :
          Unread(ReadRows(shape)) /\ ids' = ids \cup ReadRows(shape)
    BY <1>3 DEF FetchPage
  <2>3. ids' \subseteq Lot
    BY <2>1, <2>2, ReadIsSubset
  <2>4. faults' \in 0..MaxFaults
    BY <2>2 DEF Unread
  <2> QED
    BY <1>3, <2>3, <2>4 DEF FetchPage
<1>4. CASE WalkCompletes \/ FetchFails \/ WalkReachesLimit \/ WalkStops
  <2>1. faults' \in 0..MaxFaults
    BY <1>4 DEF WalkCompletes, FetchFails, WalkReachesLimit, WalkStops, Fault, Unread
  <2> QED
    BY <1>4, <2>1 DEF WalkCompletes, FetchFails, WalkReachesLimit, WalkStops, WalkEnds
<1>5. CASE SessionExpires
  BY <1>5 DEF SessionExpires, Fault
<1>6. CASE ReadBatch
  <2>1. Slice(active, offset, BatchSize) \subseteq Lot
    BY SliceType
  <2> QED
    BY <1>6, <2>1 DEF ReadBatch
<1>7. CASE \E l \in Lot : MarkInactive(l)
  BY <1>7 DEF MarkInactive
<1>8. CASE EndBatch
  BY <1>8 DEF EndBatch
<1>9. CASE FinishScan \/ BatchesStop \/ Crash
  BY <1>9 DEF FinishScan, BatchesStop, Crash, ScanEnds, Fault
<1>10. CASE Stop \/ Restart
  BY <1>10 DEF Stop, Restart, Fault
<1>11. CASE UNCHANGED vars
  BY <1>11 DEF vars
<1> QED
  BY <1>1, <1>2, <1>3, <1>4, <1>5, <1>6, <1>7, <1>8, <1>9, <1>10, <1>11
     DEF Next, ScanStep

LEMMA TypeStep == TypeOK /\ [Next]_vars => TypeOK'
<1>1. TypeOK' <=> FlagsOK' /\ RestOK'
  BY Zenon DEF TypeOK, FlagsOK, RestOK
<1> QED
  BY <1>1, TypeParts, FlagsStep, RestStep

\* Every variable keeps its type, and the walk its bound.
THEOREM TypeCorrect == Spec => []TypeOK
  BY TypeInit, TypeStep, PTL DEF Spec

-----------------------------------------------------------------------------
\* The pages read so far hold every listed lot of a lower rank.
WalkCovers ==
  pc = "walk" /\ ~partial /\ ~shifted =>
    /\ listed \subseteq site
    /\ \A l \in listed :
         Cardinality(Newer(site, l)) < (page - 1) * PerPage => l \in ids

\* What is marked in the batches comes from a walk that saw all it should.
BatchCovers ==
  pc = "mark" \/ (pc = "batch" /\ ~stopped) =>
    (~partial /\ ~shifted => listed \subseteq ids)

\* Only what was not seen is up for marking, and only in a batch.
TodoIsMissing == todo \cap ids = {} /\ (pc # "mark" => todo = {})

Covers == TypeOK /\ TodoIsMissing /\ WalkCovers /\ BatchCovers

LEMMA CoversInit == Init => Covers
  BY TypeInit DEF Init, Covers, TodoIsMissing, WalkCovers, BatchCovers

LEMMA TodoStep == TypeOK /\ TodoIsMissing /\ [Next]_vars => TodoIsMissing'
<1> SUFFICES ASSUME TypeOK, TodoIsMissing, [Next]_vars PROVE TodoIsMissing'
  OBVIOUS
<1> USE DEF TodoIsMissing, scanVars
<1>1. CASE \E l \in Lot : Publish(l) \/ Withdraw(l) \/ Store(l)
  BY <1>1 DEF Publish, Withdraw, Store
<1>2. CASE StartScan \/ FetchPage \/ SessionExpires
  BY <1>2 DEF StartScan, FetchPage, SessionExpires
<1>3. CASE WalkCompletes \/ FetchFails \/ WalkReachesLimit \/ WalkStops
  BY <1>3 DEF WalkCompletes, FetchFails, WalkReachesLimit, WalkStops, WalkEnds
<1>4. CASE ReadBatch \/ EndBatch
  BY <1>4 DEF ReadBatch, EndBatch
<1>5. CASE \E l \in Lot : MarkInactive(l)
  BY <1>5 DEF MarkInactive
<1>6. CASE FinishScan \/ BatchesStop \/ Crash
  BY <1>6 DEF FinishScan, BatchesStop, Crash, ScanEnds
<1>7. CASE Stop \/ Restart \/ UNCHANGED vars
  BY <1>7 DEF Stop, Restart, vars
<1> QED
  BY <1>1, <1>2, <1>3, <1>4, <1>5, <1>6, <1>7 DEF Next, ScanStep

LEMMA PublishCovers ==
  ASSUME Covers, NEW l \in Lot, Publish(l)
  PROVE  WalkCovers' /\ BatchCovers'
<1>1. site' \in SUBSET Lot /\ site \in SUBSET site'
  BY DEF Publish, Covers, TypeOK
<1>2. \A k \in Lot : Cardinality(Newer(site, k)) <= Cardinality(Newer(site', k))
                     /\ Cardinality(Newer(site, k)) \in Nat
                     /\ Cardinality(Newer(site', k)) \in Nat
  <2>1. SUFFICES ASSUME NEW k \in Lot
                 PROVE  Cardinality(Newer(site, k)) <= Cardinality(Newer(site', k))
                        /\ Cardinality(Newer(site, k)) \in Nat
                        /\ Cardinality(Newer(site', k)) \in Nat
    OBVIOUS
  <2>2. Newer(site, k) \in SUBSET Newer(site', k) /\ Newer(site', k) \in SUBSET Lot
    BY <1>1 DEF Newer
  <2> QED
    BY <2>2, FiniteLots, FS_Subset
<1>3. UNCHANGED <<pc, page, ids, listed, partial, shifted, stopped>>
  BY DEF Publish, scanVars, histories
<1>4. WalkCovers'
  <2>1. SUFFICES ASSUME pc = "walk", ~partial, ~shifted
                 PROVE  /\ listed \subseteq site'
                        /\ \A k \in listed : Cardinality(Newer(site', k))
                                   < (page - 1) * PerPage => k \in ids
    BY <1>3 DEF WalkCovers
  <2>2. (page - 1) * PerPage \in Nat
    BY SizeAssumption DEF Covers, TypeOK
  <2> DEFINE B == (page - 1) * PerPage
  <2>3. \A k \in listed : Cardinality(Newer(site, k)) < B => k \in ids
    BY <2>1 DEF Covers, WalkCovers
  <2>4. listed \subseteq Lot /\ listed \subseteq site
    BY <2>1 DEF Covers, TypeOK, WalkCovers
  <2> HIDE DEF B
  <2>5. ASSUME NEW k \in listed, Cardinality(Newer(site', k)) < B
        PROVE  k \in ids
    BY <1>2, <2>2, <2>3, <2>4, <2>5 DEF B
  <2> QED
    BY <1>1, <2>4, <2>5 DEF B
<1>5. BatchCovers'
  BY <1>3 DEF Covers, BatchCovers
<1> QED
  BY <1>4, <1>5

LEMMA FetchCovers ==
  ASSUME Covers, FetchPage
  PROVE  WalkCovers' /\ BatchCovers'
<1> DEFINE o == (page - 1) * PerPage
<1>1. o \in Nat /\ (page' - 1) * PerPage = o + PerPage
  BY SizeAssumption DEF FetchPage, Covers, TypeOK
<1>2. UNCHANGED <<site, stopped, pc, listed, shifted>> /\ pc = "walk"
  BY DEF FetchPage
<1>3. PICK shape \in [PageRows -> RowShape] :
        Unread(ReadRows(shape)) /\ ids' = ids \cup ReadRows(shape)
  BY DEF FetchPage
<1>4. SUFFICES ASSUME ~partial', ~shifted
               PROVE  /\ listed \subseteq site
                      /\ \A l \in listed :
                           Cardinality(Newer(site, l)) < o + PerPage => l \in ids'
  BY <1>1, <1>2 DEF WalkCovers, BatchCovers
<1>5. ~partial /\ ids' = ids \cup Slice(site, o, PerPage)
  BY <1>3, <1>4 DEF Unread, PageRows
<1>6. listed \subseteq site
  BY <1>2, <1>4, <1>5 DEF Covers, WalkCovers
<1>7. \A l \in listed : Cardinality(Newer(site, l)) < o => l \in ids
  BY <1>2, <1>4, <1>5 DEF Covers, WalkCovers
<1>8. \A l \in Lot : Cardinality(Newer(site, l)) \in Nat
  BY FiniteLots DEF Newer, Covers, TypeOK
<1> HIDE DEF o
<1>9. ASSUME NEW l \in listed, Cardinality(Newer(site, l)) < o + PerPage
      PROVE  l \in ids'
  <2>1. l \in site /\ l \in Lot /\ Cardinality(Newer(site, l)) \in Nat
    BY <1>6, <1>8, <1>9 DEF Covers, TypeOK
  <2>2. CASE Cardinality(Newer(site, l)) < o
    BY <1>5, <1>7, <1>9, <2>2
  <2>3. CASE ~(Cardinality(Newer(site, l)) < o)
    <3>1. Cardinality(Newer(site, l)) \in o..(o + PerPage - 1)
      BY <1>1, <1>9, <2>1, <2>3, SizeAssumption
    <3> QED
      BY <1>5, <2>1, <3>1 DEF Slice
  <2> QED
    BY <2>2, <2>3
<1> QED
  BY <1>6, <1>9

\* A page that ended the catalogue and lost no row: all listed lots were seen.
LEMMA CompletionCovers ==
  ASSUME Covers, WalkCompletes
  PROVE  WalkCovers' /\ BatchCovers'
<1> DEFINE o == (page - 1) * PerPage
<1>1. o \in Nat
  BY SizeAssumption DEF Covers, TypeOK
<1>2. pc = "walk" /\ pc' \in {"idle", "batch"} /\ UNCHANGED <<ids, listed, shifted>>
      /\ site \in SUBSET Lot
  BY DEF WalkCompletes, WalkEnds, Covers, TypeOK
<1>3. PICK shape \in [PageRows -> RowShape] :
        "end" \in Verdicts(ReadRows(shape)) /\ Unread(ReadRows(shape))
  BY DEF WalkCompletes
<1>4. SUFFICES ASSUME ~partial', ~shifted PROVE listed \subseteq ids
  BY <1>2 DEF WalkCovers, BatchCovers
<1>5. ~partial /\ Slice(site, o, PerPage) = {}
  BY <1>3, <1>4, EndHasNoRows DEF Unread, PageRows
<1>6. \A l \in site : Cardinality(Newer(site, l)) < o
  BY <1>1, <1>2, <1>5, NoGap, SizeAssumption
<1> QED
  BY <1>2, <1>4, <1>5, <1>6 DEF Covers, WalkCovers

LEMMA CoversStep == Covers /\ [Next]_vars => Covers'
<1> SUFFICES ASSUME Covers, [Next]_vars PROVE WalkCovers' /\ BatchCovers'
  BY TypeStep, TodoStep DEF Covers
<1> USE DEF scanVars, histories
<1>1. CASE \E l \in Lot : Publish(l)
  BY <1>1, PublishCovers
<1>2. CASE \E l \in Lot : Withdraw(l)
  <2>1. UNCHANGED <<pc, page, ids, listed, partial, stopped>>
        /\ shifted' = (shifted \/ pc = "walk")
    BY <1>2 DEF Withdraw
  <2> QED
    BY <2>1 DEF Covers, WalkCovers, BatchCovers
<1>3. CASE \E l \in Lot : Store(l)
  BY <1>3 DEF Store, Covers, WalkCovers, BatchCovers
<1>4. CASE StartScan
  <2>1. listed' = site' /\ site' \in SUBSET Lot /\ page' = 1 /\ pc' = "walk" /\ ~partial'
    BY <1>4 DEF StartScan, Covers, TypeOK
  <2>2. \A l \in site' : Cardinality(Newer(site', l)) \in Nat
    BY <2>1, FiniteLots DEF Newer
  <2>3. (page' - 1) * PerPage = 0
    BY <2>1, SizeAssumption
  <2> QED
    BY <2>1, <2>2, <2>3 DEF WalkCovers, BatchCovers
<1>5. CASE FetchPage
  BY <1>5, FetchCovers
<1>6. CASE WalkCompletes
  BY <1>6, CompletionCovers
<1>7. CASE FetchFails \/ WalkReachesLimit
  BY <1>7 DEF FetchFails, WalkReachesLimit, WalkEnds, WalkCovers, BatchCovers
<1>8. CASE WalkStops
  BY <1>8 DEF WalkStops, WalkEnds, WalkCovers, BatchCovers
<1>9. CASE SessionExpires
  BY <1>9 DEF SessionExpires, WalkCovers, BatchCovers
<1>10. CASE ReadBatch
  BY <1>10 DEF ReadBatch, Covers, WalkCovers, BatchCovers
<1>11. CASE \E l \in Lot : MarkInactive(l)
  BY <1>11 DEF MarkInactive, Covers, WalkCovers, BatchCovers
<1>12. CASE EndBatch
  BY <1>12 DEF EndBatch, Covers, WalkCovers, BatchCovers
<1>13. CASE FinishScan \/ BatchesStop \/ Crash
  BY <1>13 DEF FinishScan, BatchesStop, Crash, ScanEnds, WalkCovers, BatchCovers
<1>14. CASE Stop
  BY <1>14 DEF Stop, Covers, WalkCovers, BatchCovers
<1>15. CASE Restart
  BY <1>15 DEF Restart, WalkCovers, BatchCovers
<1>16. CASE UNCHANGED vars
  BY <1>16 DEF vars, Covers, WalkCovers, BatchCovers
<1> QED
  BY <1>1, <1>2, <1>3, <1>4, <1>5, <1>6, <1>7, <1>8, <1>9, <1>10, <1>11, <1>12,
     <1>13, <1>14, <1>15, <1>16 DEF Next, ScanStep

\* Only a mark of the scan takes a lot out of the active ones.
LEMMA RemovalIsMark ==
  ASSUME Covers, [Next]_vars, NEW l \in active \ active'
  PROVE  MarkInactive(l)
<1>1. CASE \E k \in Lot : MarkInactive(k)
  BY <1>1 DEF MarkInactive
<1>2. CASE ~ \E k \in Lot : MarkInactive(k)
  <2>1. active \subseteq active'
    BY <1>2 DEF Next, ScanStep, Publish, Withdraw, Store, StartScan, FetchPage,
       WalkCompletes, FetchFails, WalkReachesLimit, WalkStops, WalkEnds,
       SessionExpires, ReadBatch, EndBatch, FinishScan, BatchesStop, Crash,
       ScanEnds, Stop, Restart, vars
  <2> QED
    BY <2>1
<1> QED
  BY <1>1, <1>2

LEMMA CleanStep ==
  Covers /\ [Next]_vars =>
    [\A l \in active \ active' :
       ~partial /\ ~shifted => l \notin listed \cap site']_vars
<1> SUFFICES ASSUME Covers, [Next]_vars, NEW l \in active \ active',
                    ~partial, ~shifted
             PROVE  l \notin listed
  OBVIOUS
<1>1. MarkInactive(l)
  BY RemovalIsMark
<1>2. pc = "mark" /\ l \in todo
  BY <1>1 DEF MarkInactive
<1> QED
  BY <1>2 DEF Covers, TodoIsMissing, BatchCovers

\* A scan whose pages were all read, with no withdrawal among them, marks no
\* lot that has been on the site all along.
THEOREM CleanScan == Spec => CleanScanIsRight
  BY CoversInit, CoversStep, CleanStep, PTL DEF Spec, CleanScanIsRight
=============================================================================
