-------------------------- MODULE MonitorCycle_proof --------------------------
(***************************************************************************)
(* Proofs about BackfillService and MonitorCycle, for any callers,         *)
(* workers, regions, lots and bounds.  First the backfill by itself:       *)
(* types, the single flight, the exact skip-set and the sound verdict, all *)
(* from the inductive invariant IInv.  Then the scheduler beside it: it    *)
(* keeps every rule of BackfillService, so that what is proved there holds *)
(* here, and has invariants of its own.  Last the row of a lot: what one   *)
(* write keeps of RowInv, and with it any number of them in any order.     *)
(***************************************************************************)
EXTENDS MonitorCycle, FiniteSetTheorems, SequenceTheorems, WellFoundedInduction, TLAPS

-----------------------------------------------------------------------------
(* The backfill                                                            *)

\* The part of the type invariant that speaks of neither runs nor calls.
RestTypeOK ==
  /\ running \in BOOLEAN /\ stop \in BOOLEAN /\ shutdown \in BOOLEAN
  /\ progress \in [running : BOOLEAN, done : BOOLEAN]
  /\ regions_in_backfill \subseteq Region
  /\ trigger \in BOOLEAN /\ done \in BOOLEAN
  /\ total_last \in Total \cup {None}
  /\ lots \in [Lot -> {"absent", "pending", "enriched"}]

LEMMA SetTyped ==
  ASSUME run \in [Worker -> RunType], NEW w \in Worker, NEW r \in RunType, Set(w, r)
  PROVE  run' \in [Worker -> RunType]
BY DEF Set

LEMMA NoRunTyped == NoRun \in RunType
<1>1. 0 \in 0..MaxPages
  BY SizeAssumption
<1>2. {} \in SUBSET Lot
  OBVIOUS
<1> QED
  BY <1>1, <1>2 DEF RunType, NoRun

\* Each update a worker makes to its run keeps the run's type.
LEMMA CutTyped ==
  ASSUME NEW r \in RunType
  PROVE  /\ [r EXCEPT !.combined = TRUE] \in RunType
         /\ [r EXCEPT !.pc = "settle", !.cut = TRUE] \in RunType
         /\ [r EXCEPT !.cut = TRUE] \in RunType
         /\ [r EXCEPT !.errored = TRUE] \in RunType
BY DEF RunType

LEMMA PcTyped ==
  ASSUME NEW r \in RunType,
         NEW pc \in {"fetch", "galka", "total", "wake", "release"}
  PROVE  [r EXCEPT !.pc = pc] \in RunType
BY DEF RunType

LEMMA RowTyped ==
  ASSUME NEW r \in RunType, NEW l \in Lot
  PROVE  [r EXCEPT !.rows = @ \ {l}] \in RunType
BY DEF RunType

LEMMA EndTyped ==
  ASSUME NEW r \in RunType
  PROVE  [r EXCEPT !.pc = "settle", !.rows = {}] \in RunType
BY DEF RunType

LEMMA BeginTyped ==
  ASSUME NEW r \in RunType, NEW q \in Region \cup {None}
  PROVE  [r EXCEPT !.pc = "check", !.region = q] \in RunType
BY DEF RunType

\* The run of a worker that holds a page.
Paged(r, rows, total) ==
  [Shown(r, total) EXCEPT !.pc = "row", !.rows = rows, !.pages = @ + 1]

LEMMA ShownTyped ==
  ASSUME NEW r \in RunType, NEW total \in Total \cup {None}
  PROVE  Shown(r, total) \in RunType
<1>1. (IF r.seen = None THEN total ELSE r.seen) \in Total \cup {None}
  BY DEF RunType
<1> QED
  BY <1>1 DEF RunType, Shown

LEMMA PageTyped ==
  ASSUME NEW r \in RunType, NEW rows \in SUBSET Lot,
         NEW total \in Total \cup {None}, r.pages \in 0..(MaxPages - 1)
  PROVE  Paged(r, rows, total) \in RunType
<1>1. Shown(r, total) \in RunType /\ Shown(r, total).pages = r.pages
  BY ShownTyped DEF Shown, RunType
<1>2. r.pages + 1 \in 0..MaxPages
  BY SizeAssumption DEF RunType
<1> QED
  BY <1>1, <1>2 DEF RunType, Paged

LEMMA InitInv == BackfillInit => IInv
<1> SUFFICES ASSUME BackfillInit PROVE IInv
  OBVIOUS
<1>1. run \in [Worker -> RunType]
  BY NoRunTyped DEF BackfillInit
<1>2. NoCall \in CallType
  BY DEF NoCall, CallType
<1>3. call \in [Caller -> CallType]
  BY <1>2 DEF BackfillInit
<1>4. BackfillTypeOK
  BY <1>1, <1>3 DEF BackfillInit, BackfillTypeOK
<1>5. /\ SingleFlight /\ SkipSet /\ RunIsKnown /\ CutHasCause
      /\ VerdictIsSound /\ ProgressHasRun
  BY SMT DEF BackfillInit, ProgressHasRun, NoRun, SingleFlight, SkipSet, RunIsKnown,
     CutHasCause,
             Cancelled, VerdictIsSound, Active, Walking
<1> QED
  BY <1>4, <1>5 DEF IInv

LEMMA RunTypeStep ==
  BackfillTypeOK /\ RunIsKnown /\ [BackfillNext]_backfillVars
    => run' \in [Worker -> RunType]
<1> SUFFICES ASSUME BackfillTypeOK, RunIsKnown, [BackfillNext]_backfillVars
               PROVE  run' \in [Worker -> RunType]
  OBVIOUS
<1> USE NoneAssumption, TotalAssumption, SizeAssumption
<1>1. ASSUME NEW w \in Worker, WorkerStep(w)
      PROVE  run' \in [Worker -> RunType]
  <2>0. run \in [Worker -> RunType] /\ run[w] \in RunType
    BY <1>1 DEF BackfillTypeOK
  <2>1. CASE Begin(w)
    <3>1. PICK r \in Region \cup {None} : Set(w, [run[w] EXCEPT !.pc = "check", !.region = r])
      BY <2>1, <1>1 DEF Begin, BackfillTypeOK, RunType
    <3>2. run[w] \in RunType
      BY <1>1 DEF BackfillTypeOK
    <3>3. [run[w] EXCEPT !.pc = "check", !.region = r] \in RunType
      BY <3>2, BeginTyped
    <3> QED
      BY <3>1, <3>3, SetTyped DEF BackfillTypeOK
  <2>2. CASE CancelledBeforeStart(w)
    <3>1. [run[w] EXCEPT !.pc = "settle", !.cut = TRUE] \in RunType
      BY <1>1, CutTyped, EndTyped DEF BackfillTypeOK
    <3> QED
      BY <3>1, <2>2, SetTyped DEF CancelledBeforeStart, BackfillTypeOK
  <2>3. CASE MarkRegion(w)
    <3>1. [run[w] EXCEPT !.pc = "fetch"] \in RunType
      BY <2>0, PcTyped
    <3> QED
      BY <3>1, <2>0, <2>3, SetTyped DEF MarkRegion
  <2>4. CASE StopWalk(w)
    <3>1. [[run[w] EXCEPT !.cut = TRUE] EXCEPT !.pc = "settle", !.rows = {}] \in RunType
      BY <1>1, CutTyped, EndTyped DEF BackfillTypeOK
    <3> QED
      BY <3>1, <2>4, SetTyped DEF StopWalk, EndWalk, BackfillTypeOK
  <2>5. CASE FetchPage(w)
    <3>1. PICK rows \in (SUBSET Lot) \ {{}}, total \in Total \cup {None} :
                 Set(w, Paged(run[w], rows, total))
      BY <2>5 DEF FetchPage, Paged
    <3>2. run[w] \in RunType /\ run[w].pages \in 0..(MaxPages - 1)
      BY <1>1, <2>5 DEF FetchPage, BackfillTypeOK, RunType, RunIsKnown
    <3>3. Paged(run[w], rows, total) \in RunType
      <4>1. rows \in SUBSET Lot /\ total \in Total \cup {None}
        OBVIOUS
      <4> QED
        BY <3>2, <4>1, PageTyped
    <3> QED
      BY <3>1, <3>3, SetTyped DEF BackfillTypeOK
  <2>6. CASE Exhausted(w)
    <3>1. PICK total \in Total \cup {None} : EndWalk(w, Shown(run[w], total))
      BY <2>6 DEF Exhausted
    <3>2. Shown(run[w], total) \in RunType
      BY <1>1, ShownTyped DEF BackfillTypeOK
    <3>3. [Shown(run[w], total) EXCEPT !.pc = "settle", !.rows = {}] \in RunType
      BY <3>2, EndTyped
    <3> QED
      BY <3>1, <3>3, SetTyped DEF EndWalk, BackfillTypeOK
  <2>7. CASE WalkFails(w)
    <3>1. [[run[w] EXCEPT !.errored = TRUE] EXCEPT !.pc = "settle", !.rows = {}] \in RunType
      BY <1>1, CutTyped, EndTyped DEF BackfillTypeOK
    <3> QED
      BY <3>1, <2>7, SetTyped DEF WalkFails, EndWalk, BackfillTypeOK
  <2>8. CASE UpsertRow(w)
    <3>1. PICK l \in run[w].rows : Set(w, [run[w] EXCEPT !.rows = @ \ {l}])
      BY <2>8 DEF UpsertRow
    <3>2. l \in Lot
      BY <2>0 DEF RunType
    <3>3. [run[w] EXCEPT !.rows = @ \ {l}] \in RunType
      BY <2>0, <3>2, RowTyped
    <3> QED
      BY <3>1, <3>3, <2>0, SetTyped
  <2>9. CASE SkipRow(w)
    <3>1. PICK l \in run[w].rows : Set(w, [run[w] EXCEPT !.rows = @ \ {l}])
      BY <2>9 DEF SkipRow
    <3>2. l \in Lot
      BY <2>0 DEF RunType
    <3>3. [run[w] EXCEPT !.rows = @ \ {l}] \in RunType
      BY <2>0, <3>2, RowTyped
    <3> QED
      BY <3>1, <3>3, <2>0, SetTyped
  <2>10. CASE WindowEnds(w)
    <3>1. [run[w] EXCEPT !.pc = "settle", !.rows = {}] \in RunType
      BY <1>1, CutTyped, EndTyped DEF BackfillTypeOK
    <3> QED
      BY <3>1, <2>10, SetTyped DEF WindowEnds, EndWalk, BackfillTypeOK
  <2>11. CASE NextPage(w)
    <3>1. [run[w] EXCEPT !.pc = "fetch"] \in RunType
      BY <2>0, PcTyped
    <3> QED
      BY <3>1, <2>0, <2>11, SetTyped DEF NextPage
  <2>12. CASE Succeed(w)
    <3>1. [run[w] EXCEPT !.pc = "galka"] \in RunType
      BY <2>0, PcTyped
    <3> QED
      BY <3>1, <2>0, <2>12, SetTyped DEF Succeed
  <2>13. CASE GiveUp(w)
    <3>1. [run[w] EXCEPT !.pc = "release"] \in RunType
      BY <2>0, PcTyped
    <3> QED
      BY <3>1, <2>0, <2>13, SetTyped DEF GiveUp
  <2>14. CASE SetDone(w)
    <3>1. [run[w] EXCEPT !.pc = "total"] \in RunType
      BY DEF BackfillTypeOK, RunType
    <3> QED
      BY <3>1, <2>14, SetTyped DEF SetDone, BackfillTypeOK
  <2>15. CASE SetTotal(w)
    <3>1. [run[w] EXCEPT !.pc = "wake"] \in RunType
      BY <2>0, PcTyped
    <3> QED
      BY <3>1, <2>0, <2>15, SetTyped DEF SetTotal
  <2>16. CASE StateWriteFails(w)
    <3>1. [run[w] EXCEPT !.pc = "release"] \in RunType
      BY <2>0, PcTyped
    <3> QED
      BY <3>1, <2>0, <2>16, SetTyped DEF StateWriteFails
  <2>17. CASE WakeMonitor(w)
    <3>1. [run[w] EXCEPT !.pc = "release"] \in RunType
      BY <2>0, PcTyped
    <3> QED
      BY <3>1, <2>0, <2>17, SetTyped DEF WakeMonitor
  <2>18. CASE Release(w)
    <3>1. [NoRun EXCEPT !.pc = "clear"] \in RunType
      BY NoRunTyped DEF RunType
    <3> QED
      BY <3>1, <2>18, SetTyped DEF Release, BackfillTypeOK
  <2>19. CASE ClearProgress(w)
    BY <2>0, <2>19, NoRunTyped, SetTyped DEF ClearProgress
  <2> QED
    BY <1>1, <2>1, <2>2, <2>3, <2>4, <2>5, <2>6, <2>7, <2>8, <2>9, <2>10,
       <2>11, <2>12, <2>13, <2>14, <2>15, <2>16, <2>17, <2>18, <2>19 DEF
       WorkerStep
<1>2. ASSUME NEW w \in Worker, WatchStop(w)
      PROVE  run' \in [Worker -> RunType]
  <2>1. [run[w] EXCEPT !.combined = TRUE] \in RunType
    BY <1>2, CutTyped DEF BackfillTypeOK
  <2> QED
    BY <2>1, <1>2, SetTyped DEF WatchStop, BackfillTypeOK
<1>3. ASSUME NEW w \in Worker, NEW supervised \in BOOLEAN, Start(w, supervised)
      PROVE  run' \in [Worker -> RunType]
  <2>1. [NoRun EXCEPT !.pc = "begin", !.region = None, !.supervised = supervised] \in RunType
    BY NoRunTyped DEF BackfillTypeOK, RunType, CallType
  <2> QED
    BY <2>1, <1>3, SetTyped DEF Start, Launch, BackfillTypeOK
<1>4. ASSUME NEW c \in Caller, AskAnything(c)
      PROVE  run' \in [Worker -> RunType]
  BY <1>4, SMT DEF AskAnything, MaybeStart, BackfillTypeOK, RunType,
     RunIsKnown, Set, NoRun, tableVars
<1>5. ASSUME NEW c \in Caller, DecideSkip(c)
      PROVE  run' \in [Worker -> RunType]
  BY <1>5, SMT DEF DecideSkip, Return, NoCall, BackfillTypeOK, RunType,
     RunIsKnown, Set, NoRun, tableVars
<1>6. ASSUME NEW c \in Caller, DecideNegative(c)
      PROVE  run' \in [Worker -> RunType]
  BY <1>6, SMT DEF DecideNegative, BackfillTypeOK, RunType, RunIsKnown, Set,
     NoRun, tableVars
<1>7. ASSUME NEW c \in Caller, WriteBaseline(c)
      PROVE  run' \in [Worker -> RunType]
  BY <1>7, SMT DEF WriteBaseline, Return, NoCall, BackfillTypeOK, RunType,
     RunIsKnown, Set, NoRun, tableVars
<1>8. ASSUME NEW c \in Caller, NEW w \in Worker, DecideTrigger(c, w)
      PROVE  run' \in [Worker -> RunType]
  <2>1. [NoRun EXCEPT !.pc = "begin", !.region = call[c].region, !.supervised = TRUE] \in RunType
    BY NoRunTyped DEF BackfillTypeOK, RunType, CallType
  <2> QED
    BY <2>1, <1>8, SetTyped DEF DecideTrigger, Launch, BackfillTypeOK
<1>9. CASE Cancel
  BY <1>9, SMT DEF Cancel, BackfillTypeOK, RunType, RunIsKnown, Set, NoRun,
     tableVars
<1>10. CASE Shutdown
  BY <1>10, SMT DEF Shutdown, BackfillTypeOK, RunType, RunIsKnown, Set, NoRun,
     tableVars
<1>11. CASE Crash
  BY <1>11, SMT DEF Crash, NoCall, BackfillTypeOK, RunType, RunIsKnown, Set,
     NoRun, tableVars
<1>12. CASE TakeTrigger
  BY <1>12, SMT DEF TakeTrigger, BackfillTypeOK, RunType, RunIsKnown, Set,
     NoRun, tableVars
<1>13. CASE RequestRun
  BY <1>13, SMT DEF RequestRun, BackfillTypeOK, RunType, RunIsKnown, Set,
     NoRun, tableVars
<1>14. ASSUME NEW l \in Lot, StoreLot(l)
      PROVE  run' \in [Worker -> RunType]
  BY <1>14, SMT DEF StoreLot, BackfillTypeOK, RunType, RunIsKnown, Set, NoRun,
     tableVars
<1>15. CASE UNCHANGED backfillVars
  BY <1>15, SMT DEF backfillVars, BackfillTypeOK, RunType, RunIsKnown, Set,
     NoRun, tableVars
<1> QED
  BY <1>1, <1>2, <1>3, <1>4, <1>5, <1>6, <1>7, <1>8, <1>9, <1>10, <1>11,
     <1>12, <1>13, <1>14, <1>15
  DEF BackfillNext, Decide

LEMMA CallTypeStep ==
  BackfillTypeOK /\ [BackfillNext]_backfillVars
    => call' \in [Caller -> CallType]
<1> SUFFICES ASSUME BackfillTypeOK, [BackfillNext]_backfillVars
               PROVE  call' \in [Caller -> CallType]
  OBVIOUS
<1> USE NoneAssumption, TotalAssumption, SizeAssumption
<1>1. ASSUME NEW w \in Worker, WorkerStep(w)
      PROVE  call' \in [Caller -> CallType]
  <2>1. CASE Begin(w)
    BY <1>1, <2>1, SMT DEF Begin, BackfillTypeOK, CallType, tableVars
  <2>2. CASE CancelledBeforeStart(w)
    BY <1>1, <2>2, SMT DEF CancelledBeforeStart, BackfillTypeOK, CallType,
       tableVars
  <2>3. CASE MarkRegion(w)
    BY <1>1, <2>3, SMT DEF MarkRegion, BackfillTypeOK, CallType, tableVars
  <2>4. CASE StopWalk(w)
    BY <1>1, <2>4, SMT DEF StopWalk, EndWalk, BackfillTypeOK, CallType,
       tableVars
  <2>5. CASE FetchPage(w)
    BY <1>1, <2>5, SMT DEF FetchPage, Shown, BackfillTypeOK, CallType, tableVars
  <2>6. CASE Exhausted(w)
    BY <1>1, <2>6, SMT DEF Exhausted, EndWalk, Shown, BackfillTypeOK,
       CallType, tableVars
  <2>7. CASE WalkFails(w)
    BY <1>1, <2>7, SMT DEF WalkFails, EndWalk, BackfillTypeOK, CallType,
       tableVars
  <2>8. CASE UpsertRow(w)
    BY <1>1, <2>8, SMT DEF UpsertRow, BackfillTypeOK, CallType, tableVars
  <2>9. CASE SkipRow(w)
    BY <1>1, <2>9, SMT DEF SkipRow, BackfillTypeOK, CallType, tableVars
  <2>10. CASE WindowEnds(w)
    BY <1>1, <2>10, SMT DEF WindowEnds, EndWalk, BackfillTypeOK, CallType,
       tableVars
  <2>11. CASE NextPage(w)
    BY <1>1, <2>11, SMT DEF NextPage, BackfillTypeOK, CallType, tableVars
  <2>12. CASE Succeed(w)
    BY <1>1, <2>12, SMT DEF Succeed, Cancelled, BackfillTypeOK, CallType,
       tableVars
  <2>13. CASE GiveUp(w)
    BY <1>1, <2>13, SMT DEF GiveUp, Cancelled, BackfillTypeOK, CallType,
       tableVars
  <2>14. CASE SetDone(w)
    BY <1>1, <2>14, SMT DEF SetDone, BackfillTypeOK, CallType, tableVars
  <2>15. CASE SetTotal(w)
    BY <1>1, <2>15, SMT DEF SetTotal, BackfillTypeOK, CallType, tableVars
  <2>16. CASE StateWriteFails(w)
    BY <1>1, <2>16, SMT DEF StateWriteFails, BackfillTypeOK, CallType, tableVars
  <2>17. CASE WakeMonitor(w)
    BY <1>1, <2>17, SMT DEF WakeMonitor, BackfillTypeOK, CallType, tableVars
  <2>18. CASE Release(w)
    BY <1>1, <2>18, SMT DEF Release, BackfillTypeOK, CallType, tableVars
  <2>19. CASE ClearProgress(w)
    BY <1>1, <2>19, SMT DEF ClearProgress, BackfillTypeOK, CallType, tableVars
  <2> QED
    BY <1>1, <2>1, <2>2, <2>3, <2>4, <2>5, <2>6, <2>7, <2>8, <2>9, <2>10,
       <2>11, <2>12, <2>13, <2>14, <2>15, <2>16, <2>17, <2>18, <2>19 DEF
       WorkerStep
<1>2. ASSUME NEW w \in Worker, WatchStop(w)
      PROVE  call' \in [Caller -> CallType]
  BY <1>2, SMT DEF WatchStop, Cancelled, BackfillTypeOK, CallType, tableVars
<1>3. ASSUME NEW w \in Worker, NEW supervised \in BOOLEAN, Start(w, supervised)
      PROVE  call' \in [Caller -> CallType]
  BY <1>3, SMT DEF Start, Launch, BackfillTypeOK, CallType, tableVars
<1>4. ASSUME NEW c \in Caller, AskAnything(c)
      PROVE  call' \in [Caller -> CallType]
  <2>1. PICK r \in Region, total \in Total \cup {None}, hint \in 0..PageSize,
             count \in 0..(Cardinality({l \in Lot : lots[l] # "absent"}) + 1) :
          MaybeStart(c, r, total, count, hint)
    BY <1>4, Zenon DEF AskAnything
  <2>2. \A delta : Decision(total, delta, hint)
          \in {"skip_none", "skip_negative", "skip_threshold", "trigger"}
    BY DEF Decision
  <2> QED
    BY <2>1, <2>2, SMT DEF MaybeStart, BackfillTypeOK, CallType, tableVars
<1>5. ASSUME NEW c \in Caller, DecideSkip(c)
      PROVE  call' \in [Caller -> CallType]
  BY <1>5, SMT DEF DecideSkip, Return, NoCall, BackfillTypeOK, CallType,
     tableVars
<1>6. ASSUME NEW c \in Caller, DecideNegative(c)
      PROVE  call' \in [Caller -> CallType]
  BY <1>6, SMT DEF DecideNegative, BackfillTypeOK, CallType, tableVars
<1>7. ASSUME NEW c \in Caller, WriteBaseline(c)
      PROVE  call' \in [Caller -> CallType]
  BY <1>7, SMT DEF WriteBaseline, Return, NoCall, BackfillTypeOK, CallType,
     tableVars
<1>8. ASSUME NEW c \in Caller, NEW w \in Worker, DecideTrigger(c, w)
      PROVE  call' \in [Caller -> CallType]
  BY <1>8, SMT DEF DecideTrigger, Launch, Return, NoCall, BackfillTypeOK,
     CallType, tableVars
<1>9. CASE Cancel
  BY <1>9, SMT DEF Cancel, BackfillTypeOK, CallType, tableVars
<1>10. CASE Shutdown
  BY <1>10, SMT DEF Shutdown, BackfillTypeOK, CallType, tableVars
<1>11. CASE Crash
  BY <1>11, SMT DEF Crash, NoCall, BackfillTypeOK, CallType, tableVars
<1>12. CASE TakeTrigger
  BY <1>12, SMT DEF TakeTrigger, BackfillTypeOK, CallType, tableVars
<1>13. CASE RequestRun
  BY <1>13, SMT DEF RequestRun, BackfillTypeOK, CallType, tableVars
<1>14. ASSUME NEW l \in Lot, StoreLot(l)
      PROVE  call' \in [Caller -> CallType]
  BY <1>14, SMT DEF StoreLot, BackfillTypeOK, CallType, tableVars
<1>15. CASE UNCHANGED backfillVars
  BY <1>15, SMT DEF backfillVars, BackfillTypeOK, CallType, tableVars
<1> QED
  BY <1>1, <1>2, <1>3, <1>4, <1>5, <1>6, <1>7, <1>8, <1>9, <1>10, <1>11,
     <1>12, <1>13, <1>14, <1>15
  DEF BackfillNext, Decide

LEMMA RestTypeStep ==
  BackfillTypeOK /\ RunIsKnown /\ [BackfillNext]_backfillVars
    => RestTypeOK'
<1> SUFFICES ASSUME BackfillTypeOK, RunIsKnown, [BackfillNext]_backfillVars
               PROVE  RestTypeOK'
  OBVIOUS
<1> USE NoneAssumption, TotalAssumption, SizeAssumption
<1>1. ASSUME NEW w \in Worker, WorkerStep(w)
      PROVE  RestTypeOK'
  <2>1. CASE Begin(w)
    BY <1>1, <2>1, SMT DEF Begin, RestTypeOK, BackfillTypeOK, RunType,
       CallType, RunIsKnown, tableVars
  <2>2. CASE CancelledBeforeStart(w)
    BY <1>1, <2>2, SMT DEF CancelledBeforeStart, RestTypeOK, BackfillTypeOK,
       RunType, CallType, RunIsKnown, tableVars
  <2>3. CASE MarkRegion(w)
    BY <1>1, <2>3, SMT DEF MarkRegion, RestTypeOK, BackfillTypeOK, RunType,
       CallType, RunIsKnown, tableVars
  <2>4. CASE StopWalk(w)
    BY <1>1, <2>4, SMT DEF StopWalk, EndWalk, RestTypeOK, BackfillTypeOK,
       RunType, CallType, RunIsKnown, tableVars
  <2>5. CASE FetchPage(w)
    BY <1>1, <2>5, SMT DEF FetchPage, Shown, RestTypeOK, BackfillTypeOK,
       RunType, CallType, RunIsKnown, tableVars
  <2>6. CASE Exhausted(w)
    BY <1>1, <2>6, SMT DEF Exhausted, EndWalk, Shown, RestTypeOK,
       BackfillTypeOK, RunType, CallType, RunIsKnown, tableVars
  <2>7. CASE WalkFails(w)
    BY <1>1, <2>7, SMT DEF WalkFails, EndWalk, RestTypeOK, BackfillTypeOK,
       RunType, CallType, RunIsKnown, tableVars
  <2>8. CASE UpsertRow(w)
    BY <1>1, <2>8, SMT DEF UpsertRow, RestTypeOK, BackfillTypeOK, RunType,
       CallType, RunIsKnown, tableVars
  <2>9. CASE SkipRow(w)
    BY <1>1, <2>9, SMT DEF SkipRow, RestTypeOK, BackfillTypeOK, RunType,
       CallType, RunIsKnown, tableVars
  <2>10. CASE WindowEnds(w)
    BY <1>1, <2>10, SMT DEF WindowEnds, EndWalk, RestTypeOK, BackfillTypeOK,
       RunType, CallType, RunIsKnown, tableVars
  <2>11. CASE NextPage(w)
    BY <1>1, <2>11, SMT DEF NextPage, RestTypeOK, BackfillTypeOK, RunType,
       CallType, RunIsKnown, tableVars
  <2>12. CASE Succeed(w)
    <3>1. progress' \in [running : BOOLEAN, done : BOOLEAN]
      BY <2>12 DEF BackfillTypeOK, Succeed
    <3>2. running' \in BOOLEAN /\ stop' \in BOOLEAN /\ shutdown' \in BOOLEAN /\ trigger' \in BOOLEAN
      BY <2>12 DEF BackfillTypeOK, Succeed
    <3>3. regions_in_backfill' \subseteq Region
      BY <2>12 DEF BackfillTypeOK, Succeed
    <3>4. done' \in BOOLEAN /\ total_last' \in Total \cup {None}
      BY <2>12 DEF BackfillTypeOK, Succeed, tableVars
    <3>5. lots' \in [Lot -> {"absent", "pending", "enriched"}]
      BY <2>12 DEF BackfillTypeOK, Succeed, tableVars
    <3> QED
      BY <3>1, <3>2, <3>3, <3>4, <3>5 DEF RestTypeOK
  <2>13. CASE GiveUp(w)
    BY <1>1, <2>13, SMT DEF GiveUp, Cancelled, RestTypeOK, BackfillTypeOK,
       RunType, CallType, RunIsKnown, tableVars
  <2>14. CASE SetDone(w)
    BY <1>1, <2>14, SMT DEF SetDone, RestTypeOK, BackfillTypeOK, RunType,
       CallType, RunIsKnown, tableVars
  <2>15. CASE SetTotal(w)
    BY <1>1, <2>15, SMT DEF SetTotal, RestTypeOK, BackfillTypeOK, RunType,
       CallType, RunIsKnown, tableVars
  <2>16. CASE StateWriteFails(w)
    BY <1>1, <2>16, SMT DEF StateWriteFails, RestTypeOK, BackfillTypeOK,
       RunType, CallType, RunIsKnown, tableVars
  <2>17. CASE WakeMonitor(w)
    BY <1>1, <2>17, SMT DEF WakeMonitor, RestTypeOK, BackfillTypeOK,
       RunType, CallType, RunIsKnown, tableVars
  <2>18. CASE Release(w)
    <3>1. progress' \in [running : BOOLEAN, done : BOOLEAN]
      BY <2>18 DEF BackfillTypeOK, Release
    <3>2. running' \in BOOLEAN /\ stop' \in BOOLEAN /\ shutdown' \in BOOLEAN /\ trigger' \in BOOLEAN
      BY <2>18 DEF BackfillTypeOK, Release
    <3>3. regions_in_backfill' \subseteq Region
      BY <2>18 DEF BackfillTypeOK, Release
    <3>4. done' \in BOOLEAN /\ total_last' \in Total \cup {None}
      BY <2>18 DEF BackfillTypeOK, Release, tableVars
    <3>5. lots' \in [Lot -> {"absent", "pending", "enriched"}]
      BY <2>18 DEF BackfillTypeOK, Release, tableVars
    <3> QED
      BY <3>1, <3>2, <3>3, <3>4, <3>5 DEF RestTypeOK
  <2>19. CASE ClearProgress(w)
    <3>1. progress' \in [running : BOOLEAN, done : BOOLEAN]
      BY <2>19 DEF BackfillTypeOK, ClearProgress
    <3>2. running' \in BOOLEAN /\ stop' \in BOOLEAN /\ shutdown' \in BOOLEAN /\ trigger' \in BOOLEAN
      BY <2>19 DEF BackfillTypeOK, ClearProgress
    <3>3. regions_in_backfill' \subseteq Region
      BY <2>19 DEF BackfillTypeOK, ClearProgress
    <3>4. done' \in BOOLEAN /\ total_last' \in Total \cup {None}
      BY <2>19 DEF BackfillTypeOK, ClearProgress, tableVars
    <3>5. lots' \in [Lot -> {"absent", "pending", "enriched"}]
      BY <2>19 DEF BackfillTypeOK, ClearProgress, tableVars
    <3> QED
      BY <3>1, <3>2, <3>3, <3>4, <3>5 DEF RestTypeOK
  <2> QED
    BY <1>1, <2>1, <2>2, <2>3, <2>4, <2>5, <2>6, <2>7, <2>8, <2>9, <2>10,
       <2>11, <2>12, <2>13, <2>14, <2>15, <2>16, <2>17, <2>18, <2>19 DEF
       WorkerStep
<1>2. ASSUME NEW w \in Worker, WatchStop(w)
      PROVE  RestTypeOK'
  BY <1>2, SMT DEF WatchStop, Cancelled, RestTypeOK, BackfillTypeOK, RunType,
     CallType, RunIsKnown, tableVars
<1>3. ASSUME NEW w \in Worker, NEW supervised \in BOOLEAN, Start(w, supervised)
      PROVE  RestTypeOK'
  <2>1. progress' \in [running : BOOLEAN, done : BOOLEAN]
    BY <1>3 DEF BackfillTypeOK, Start, Launch
  <2>2. running' \in BOOLEAN /\ stop' \in BOOLEAN /\ shutdown' \in BOOLEAN /\ trigger' \in BOOLEAN
    BY <1>3 DEF BackfillTypeOK, Start, Launch
  <2>3. regions_in_backfill' \subseteq Region
    BY <1>3 DEF BackfillTypeOK, Start, Launch
  <2>4. done' \in BOOLEAN /\ total_last' \in Total \cup {None}
    BY <1>3 DEF BackfillTypeOK, Start, Launch, tableVars
  <2>5. lots' \in [Lot -> {"absent", "pending", "enriched"}]
    BY <1>3 DEF BackfillTypeOK, Start, Launch, tableVars
  <2> QED
    BY <2>1, <2>2, <2>3, <2>4, <2>5 DEF RestTypeOK
<1>4. ASSUME NEW c \in Caller, AskAnything(c)
      PROVE  RestTypeOK'
  BY <1>4, SMT DEF AskAnything, MaybeStart, RestTypeOK, BackfillTypeOK,
     RunType, CallType, RunIsKnown, tableVars
<1>5. ASSUME NEW c \in Caller, DecideSkip(c)
      PROVE  RestTypeOK'
  BY <1>5, SMT DEF DecideSkip, Return, NoCall, RestTypeOK, BackfillTypeOK,
     RunType, CallType, RunIsKnown, tableVars
<1>6. ASSUME NEW c \in Caller, DecideNegative(c)
      PROVE  RestTypeOK'
  BY <1>6, SMT DEF DecideNegative, RestTypeOK, BackfillTypeOK, RunType,
     CallType, RunIsKnown, tableVars
<1>7. ASSUME NEW c \in Caller, WriteBaseline(c)
      PROVE  RestTypeOK'
  BY <1>7, SMT DEF WriteBaseline, Return, NoCall, RestTypeOK, BackfillTypeOK,
     RunType, CallType, RunIsKnown, tableVars
<1>8. ASSUME NEW c \in Caller, NEW w \in Worker, DecideTrigger(c, w)
      PROVE  RestTypeOK'
  <2>1. progress' \in [running : BOOLEAN, done : BOOLEAN]
    BY <1>8 DEF BackfillTypeOK, DecideTrigger, Launch
  <2>2. running' \in BOOLEAN /\ stop' \in BOOLEAN /\ shutdown' \in BOOLEAN /\ trigger' \in BOOLEAN
    BY <1>8 DEF BackfillTypeOK, DecideTrigger, Launch
  <2>3. regions_in_backfill' \subseteq Region
    BY <1>8 DEF BackfillTypeOK, DecideTrigger, Launch
  <2>4. done' \in BOOLEAN /\ total_last' \in Total \cup {None}
    BY <1>8 DEF BackfillTypeOK, DecideTrigger, Launch, tableVars
  <2>5. lots' \in [Lot -> {"absent", "pending", "enriched"}]
    BY <1>8 DEF BackfillTypeOK, DecideTrigger, Launch, tableVars
  <2> QED
    BY <2>1, <2>2, <2>3, <2>4, <2>5 DEF RestTypeOK
<1>9. CASE Cancel
  BY <1>9, SMT DEF Cancel, RestTypeOK, BackfillTypeOK, RunType, CallType,
     RunIsKnown, tableVars
<1>10. CASE Shutdown
  BY <1>10, SMT DEF Shutdown, RestTypeOK, BackfillTypeOK, RunType, CallType,
     RunIsKnown, tableVars
<1>11. CASE Crash
  <2>1. progress' \in [running : BOOLEAN, done : BOOLEAN]
    BY <1>11 DEF BackfillTypeOK, Crash
  <2>2. running' \in BOOLEAN /\ stop' \in BOOLEAN /\ shutdown' \in BOOLEAN /\ trigger' \in BOOLEAN
    BY <1>11 DEF BackfillTypeOK, Crash
  <2>3. regions_in_backfill' \subseteq Region
    BY <1>11 DEF BackfillTypeOK, Crash
  <2>4. done' \in BOOLEAN /\ total_last' \in Total \cup {None}
    BY <1>11 DEF BackfillTypeOK, Crash, tableVars
  <2>5. lots' \in [Lot -> {"absent", "pending", "enriched"}]
    BY <1>11 DEF BackfillTypeOK, Crash, tableVars
  <2> QED
    BY <2>1, <2>2, <2>3, <2>4, <2>5 DEF RestTypeOK
<1>12. CASE TakeTrigger
  <2>1. progress' \in [running : BOOLEAN, done : BOOLEAN]
    BY <1>12 DEF BackfillTypeOK, TakeTrigger
  <2>2. running' \in BOOLEAN /\ stop' \in BOOLEAN /\ shutdown' \in BOOLEAN /\ trigger' \in BOOLEAN
    BY <1>12 DEF BackfillTypeOK, TakeTrigger
  <2>3. regions_in_backfill' \subseteq Region
    BY <1>12 DEF BackfillTypeOK, TakeTrigger
  <2>4. done' \in BOOLEAN /\ total_last' \in Total \cup {None}
    BY <1>12 DEF BackfillTypeOK, TakeTrigger, tableVars
  <2>5. lots' \in [Lot -> {"absent", "pending", "enriched"}]
    BY <1>12 DEF BackfillTypeOK, TakeTrigger, tableVars
  <2> QED
    BY <2>1, <2>2, <2>3, <2>4, <2>5 DEF RestTypeOK
<1>13. CASE RequestRun
  BY <1>13, SMT DEF RequestRun, RestTypeOK, BackfillTypeOK, RunType, CallType,
     RunIsKnown, tableVars
<1>14. ASSUME NEW l \in Lot, StoreLot(l)
      PROVE  RestTypeOK'
  BY <1>14, SMT DEF StoreLot, RestTypeOK, BackfillTypeOK, RunType, CallType,
     RunIsKnown, tableVars
<1>15. CASE UNCHANGED backfillVars
  BY <1>15, SMT DEF backfillVars, RestTypeOK, BackfillTypeOK, RunType,
     CallType, RunIsKnown, tableVars
<1> QED
  BY <1>1, <1>2, <1>3, <1>4, <1>5, <1>6, <1>7, <1>8, <1>9, <1>10, <1>11,
     <1>12, <1>13, <1>14, <1>15
  DEF BackfillNext, Decide

LEMMA TypeStep ==
  BackfillTypeOK /\ RunIsKnown /\ [BackfillNext]_backfillVars => BackfillTypeOK'
BY RunTypeStep, CallTypeStep, RestTypeStep DEF RestTypeOK, BackfillTypeOK

LEMMA FlightStep ==
  BackfillTypeOK /\ SingleFlight /\ [BackfillNext]_backfillVars
    => SingleFlight'
<1> SUFFICES ASSUME BackfillTypeOK, SingleFlight, [BackfillNext]_backfillVars
               PROVE  SingleFlight'
  OBVIOUS
<1> USE NoneAssumption, TotalAssumption, SizeAssumption
<1>1. ASSUME NEW w \in Worker, WorkerStep(w)
      PROVE  SingleFlight'
  <2>1. CASE Begin(w)
    BY <1>1, <2>1, SMT DEF Begin, BackfillTypeOK, SingleFlight, Active, Set,
       NoRun, RunType, tableVars
  <2>2. CASE CancelledBeforeStart(w)
    BY <1>1, <2>2, SMT DEF CancelledBeforeStart, BackfillTypeOK,
       SingleFlight, Active, Set, NoRun, RunType, tableVars
  <2>3. CASE MarkRegion(w)
    BY <1>1, <2>3, SMT DEF MarkRegion, BackfillTypeOK, SingleFlight, Active,
       Set, NoRun, RunType, tableVars
  <2>4. CASE StopWalk(w)
    <3>1. running /\ running' = running /\ Active(w)
      BY <2>4 DEF StopWalk, Active, Walking, SingleFlight
    <3>2. \A v \in Worker : Active(v)' <=> Active(v)
      BY <2>4, <3>1 DEF StopWalk, Active, EndWalk, Set, BackfillTypeOK, RunType
    <3> QED
      BY <3>1, <3>2 DEF SingleFlight
  <2>5. CASE FetchPage(w)
    BY <1>1, <2>5, SMT DEF FetchPage, Shown, BackfillTypeOK, SingleFlight,
       Active, Set, NoRun, RunType, tableVars
  <2>6. CASE Exhausted(w)
    BY <1>1, <2>6, SMT DEF Exhausted, EndWalk, Shown, BackfillTypeOK,
       SingleFlight, Active, Set, NoRun, RunType, tableVars
  <2>7. CASE WalkFails(w)
    BY <1>1, <2>7, SMT DEF WalkFails, EndWalk, BackfillTypeOK, SingleFlight,
       Active, Set, NoRun, RunType, tableVars
  <2>8. CASE UpsertRow(w)
    BY <1>1, <2>8, SMT DEF UpsertRow, BackfillTypeOK, SingleFlight, Active,
       Set, NoRun, RunType, tableVars
  <2>9. CASE SkipRow(w)
    BY <1>1, <2>9, SMT DEF SkipRow, BackfillTypeOK, SingleFlight, Active,
       Set, NoRun, RunType, tableVars
  <2>10. CASE WindowEnds(w)
    BY <1>1, <2>10, SMT DEF WindowEnds, EndWalk, BackfillTypeOK,
       SingleFlight, Active, Set, NoRun, RunType, tableVars
  <2>11. CASE NextPage(w)
    BY <1>1, <2>11, SMT DEF NextPage, BackfillTypeOK, SingleFlight, Active,
       Set, NoRun, RunType, tableVars
  <2>12. CASE Succeed(w)
    BY <1>1, <2>12, SMT DEF Succeed, Cancelled, BackfillTypeOK,
       SingleFlight, Active, Set, NoRun, RunType, tableVars
  <2>13. CASE GiveUp(w)
    BY <1>1, <2>13, SMT DEF GiveUp, Cancelled, BackfillTypeOK, SingleFlight,
       Active, Set, NoRun, RunType, tableVars
  <2>14. CASE SetDone(w)
    BY <1>1, <2>14, SMT DEF SetDone, BackfillTypeOK, SingleFlight, Active,
       Set, NoRun, RunType, tableVars
  <2>15. CASE SetTotal(w)
    BY <1>1, <2>15, SMT DEF SetTotal, BackfillTypeOK, SingleFlight, Active,
       Set, NoRun, RunType, tableVars
  <2>16. CASE StateWriteFails(w)
    BY <1>1, <2>16, SMT DEF StateWriteFails, BackfillTypeOK, SingleFlight,
       Active, Set, NoRun, RunType, tableVars
  <2>17. CASE WakeMonitor(w)
    BY <1>1, <2>17, SMT DEF WakeMonitor, BackfillTypeOK, SingleFlight,
       Active, Set, NoRun, RunType, tableVars
  <2>18. CASE Release(w)
    BY <1>1, <2>18, SMT DEF Release, BackfillTypeOK, SingleFlight, Active,
       Set, NoRun, RunType, tableVars
  <2>19. CASE ClearProgress(w)
    BY <1>1, <2>19, SMT DEF ClearProgress, BackfillTypeOK, SingleFlight,
       Active, Set, NoRun, RunType, tableVars
  <2> QED
    BY <1>1, <2>1, <2>2, <2>3, <2>4, <2>5, <2>6, <2>7, <2>8, <2>9, <2>10,
       <2>11, <2>12, <2>13, <2>14, <2>15, <2>16, <2>17, <2>18, <2>19 DEF
       WorkerStep
<1>2. ASSUME NEW w \in Worker, WatchStop(w)
      PROVE  SingleFlight'
  BY <1>2, SMT DEF WatchStop, Cancelled, BackfillTypeOK, SingleFlight, Active,
     Set, NoRun, RunType, tableVars
<1>3. ASSUME NEW w \in Worker, NEW supervised \in BOOLEAN, Start(w, supervised)
      PROVE  SingleFlight'
  BY <1>3, SMT DEF Start, Launch, BackfillTypeOK, SingleFlight, Active, Set,
     NoRun, RunType, tableVars
<1>4. ASSUME NEW c \in Caller, AskAnything(c)
      PROVE  SingleFlight'
  BY <1>4, SMT DEF AskAnything, MaybeStart, BackfillTypeOK, SingleFlight,
     Active, Set, NoRun, RunType, tableVars
<1>5. ASSUME NEW c \in Caller, DecideSkip(c)
      PROVE  SingleFlight'
  BY <1>5, SMT DEF DecideSkip, Return, NoCall, BackfillTypeOK, SingleFlight,
     Active, Set, NoRun, RunType, tableVars
<1>6. ASSUME NEW c \in Caller, DecideNegative(c)
      PROVE  SingleFlight'
  BY <1>6, SMT DEF DecideNegative, BackfillTypeOK, SingleFlight, Active, Set,
     NoRun, RunType, tableVars
<1>7. ASSUME NEW c \in Caller, WriteBaseline(c)
      PROVE  SingleFlight'
  BY <1>7, SMT DEF WriteBaseline, Return, NoCall, BackfillTypeOK,
     SingleFlight, Active, Set, NoRun, RunType, tableVars
<1>8. ASSUME NEW c \in Caller, NEW w \in Worker, DecideTrigger(c, w)
      PROVE  SingleFlight'
  BY <1>8, SMT DEF DecideTrigger, Launch, Return, NoCall, BackfillTypeOK,
     SingleFlight, Active, Set, NoRun, RunType, tableVars
<1>9. CASE Cancel
  BY <1>9, SMT DEF Cancel, BackfillTypeOK, SingleFlight, Active, Set, NoRun,
     RunType, tableVars
<1>10. CASE Shutdown
  BY <1>10, SMT DEF Shutdown, BackfillTypeOK, SingleFlight, Active, Set,
     NoRun, RunType, tableVars
<1>11. CASE Crash
  BY <1>11, SMT DEF Crash, NoCall, BackfillTypeOK, SingleFlight, Active, Set,
     NoRun, RunType, tableVars
<1>12. CASE TakeTrigger
  BY <1>12, SMT DEF TakeTrigger, BackfillTypeOK, SingleFlight, Active, Set,
     NoRun, RunType, tableVars
<1>13. CASE RequestRun
  BY <1>13, SMT DEF RequestRun, BackfillTypeOK, SingleFlight, Active, Set,
     NoRun, RunType, tableVars
<1>14. ASSUME NEW l \in Lot, StoreLot(l)
      PROVE  SingleFlight'
  BY <1>14, SMT DEF StoreLot, BackfillTypeOK, SingleFlight, Active, Set,
     NoRun, RunType, tableVars
<1>15. CASE UNCHANGED backfillVars
  BY <1>15, SMT DEF backfillVars, BackfillTypeOK, SingleFlight, Active, Set,
     NoRun, RunType, tableVars
<1> QED
  BY <1>1, <1>2, <1>3, <1>4, <1>5, <1>6, <1>7, <1>8, <1>9, <1>10, <1>11,
     <1>12, <1>13, <1>14, <1>15
  DEF BackfillNext, Decide

LEMMA SkipSetStep ==
  BackfillTypeOK /\ SingleFlight /\ SkipSet /\ [BackfillNext]_backfillVars
    => SkipSet'
<1> SUFFICES ASSUME BackfillTypeOK, SingleFlight, SkipSet, [BackfillNext]_backfillVars
               PROVE  SkipSet'
  OBVIOUS
<1> USE NoneAssumption, TotalAssumption, SizeAssumption
<1>1. ASSUME NEW w \in Worker, WorkerStep(w)
      PROVE  SkipSet'
  <2>1. CASE Begin(w)
    BY <1>1, <2>1, SMT DEF Begin, BackfillTypeOK, SingleFlight, SkipSet,
       Walking, Active, Set, NoRun, RunType, tableVars
  <2>2. CASE CancelledBeforeStart(w)
    BY <1>1, <2>2, SMT DEF CancelledBeforeStart, BackfillTypeOK,
       SingleFlight, SkipSet, Walking, Active, Set, NoRun, RunType,
       tableVars
  <2>3. CASE MarkRegion(w)
    BY <1>1, <2>3, SMT DEF MarkRegion, BackfillTypeOK, SingleFlight,
       SkipSet, Walking, Active, Set, NoRun, RunType, tableVars
  <2>4. CASE StopWalk(w)
    BY <1>1, <2>4, SMT DEF StopWalk, EndWalk, BackfillTypeOK, SingleFlight,
       SkipSet, Walking, Active, Set, NoRun, RunType, tableVars
  <2>5. CASE FetchPage(w)
    BY <1>1, <2>5, SMT DEF FetchPage, Shown, BackfillTypeOK, SingleFlight,
       SkipSet, Walking, Active, Set, NoRun, RunType, tableVars
  <2>6. CASE Exhausted(w)
    BY <1>1, <2>6, SMT DEF Exhausted, EndWalk, Shown, BackfillTypeOK,
       SingleFlight, SkipSet, Walking, Active, Set, NoRun, RunType,
       tableVars
  <2>7. CASE WalkFails(w)
    BY <1>1, <2>7, SMT DEF WalkFails, EndWalk, BackfillTypeOK, SingleFlight,
       SkipSet, Walking, Active, Set, NoRun, RunType, tableVars
  <2>8. CASE UpsertRow(w)
    BY <1>1, <2>8, SMT DEF UpsertRow, BackfillTypeOK, SingleFlight, SkipSet,
       Walking, Active, Set, NoRun, RunType, tableVars
  <2>9. CASE SkipRow(w)
    BY <1>1, <2>9, SMT DEF SkipRow, BackfillTypeOK, SingleFlight, SkipSet,
       Walking, Active, Set, NoRun, RunType, tableVars
  <2>10. CASE WindowEnds(w)
    BY <1>1, <2>10, SMT DEF WindowEnds, EndWalk, BackfillTypeOK,
       SingleFlight, SkipSet, Walking, Active, Set, NoRun, RunType,
       tableVars
  <2>11. CASE NextPage(w)
    BY <1>1, <2>11, SMT DEF NextPage, BackfillTypeOK, SingleFlight, SkipSet,
       Walking, Active, Set, NoRun, RunType, tableVars
  <2>12. CASE Succeed(w)
    BY <1>1, <2>12, SMT DEF Succeed, Cancelled, BackfillTypeOK,
       SingleFlight, SkipSet, Walking, Active, Set, NoRun, RunType,
       tableVars
  <2>13. CASE GiveUp(w)
    BY <1>1, <2>13, SMT DEF GiveUp, Cancelled, BackfillTypeOK, SingleFlight,
       SkipSet, Walking, Active, Set, NoRun, RunType, tableVars
  <2>14. CASE SetDone(w)
    BY <1>1, <2>14, SMT DEF SetDone, BackfillTypeOK, SingleFlight, SkipSet,
       Walking, Active, Set, NoRun, RunType, tableVars
  <2>15. CASE SetTotal(w)
    BY <1>1, <2>15, SMT DEF SetTotal, BackfillTypeOK, SingleFlight, SkipSet,
       Walking, Active, Set, NoRun, RunType, tableVars
  <2>16. CASE StateWriteFails(w)
    BY <1>1, <2>16, SMT DEF StateWriteFails, BackfillTypeOK, SingleFlight,
       SkipSet, Walking, Active, Set, NoRun, RunType, tableVars
  <2>17. CASE WakeMonitor(w)
    BY <1>1, <2>17, SMT DEF WakeMonitor, BackfillTypeOK, SingleFlight,
       SkipSet, Walking, Active, Set, NoRun, RunType, tableVars
  <2>18. CASE Release(w)
    BY <1>1, <2>18, SMT DEF Release, BackfillTypeOK, SingleFlight, SkipSet,
       Walking, Active, Set, NoRun, RunType, tableVars
  <2>19. CASE ClearProgress(w)
    BY <1>1, <2>19, SMT DEF ClearProgress, BackfillTypeOK, SingleFlight,
       SkipSet, Walking, Active, Set, NoRun, RunType, tableVars
  <2> QED
    BY <1>1, <2>1, <2>2, <2>3, <2>4, <2>5, <2>6, <2>7, <2>8, <2>9, <2>10,
       <2>11, <2>12, <2>13, <2>14, <2>15, <2>16, <2>17, <2>18, <2>19 DEF
       WorkerStep
<1>2. ASSUME NEW w \in Worker, WatchStop(w)
      PROVE  SkipSet'
  BY <1>2, SMT DEF WatchStop, Cancelled, BackfillTypeOK, SingleFlight,
     SkipSet, Walking, Active, Set, NoRun, RunType, tableVars
<1>3. ASSUME NEW w \in Worker, NEW supervised \in BOOLEAN, Start(w, supervised)
      PROVE  SkipSet'
  BY <1>3, SMT DEF Start, Launch, BackfillTypeOK, SingleFlight, SkipSet,
     Walking, Active, Set, NoRun, RunType, tableVars
<1>4. ASSUME NEW c \in Caller, AskAnything(c)
      PROVE  SkipSet'
  BY <1>4, SMT DEF AskAnything, MaybeStart, BackfillTypeOK, SingleFlight,
     SkipSet, Walking, Active, Set, NoRun, RunType, tableVars
<1>5. ASSUME NEW c \in Caller, DecideSkip(c)
      PROVE  SkipSet'
  BY <1>5, SMT DEF DecideSkip, Return, NoCall, BackfillTypeOK, SingleFlight,
     SkipSet, Walking, Active, Set, NoRun, RunType, tableVars
<1>6. ASSUME NEW c \in Caller, DecideNegative(c)
      PROVE  SkipSet'
  BY <1>6, SMT DEF DecideNegative, BackfillTypeOK, SingleFlight, SkipSet,
     Walking, Active, Set, NoRun, RunType, tableVars
<1>7. ASSUME NEW c \in Caller, WriteBaseline(c)
      PROVE  SkipSet'
  BY <1>7, SMT DEF WriteBaseline, Return, NoCall, BackfillTypeOK,
     SingleFlight, SkipSet, Walking, Active, Set, NoRun, RunType, tableVars
<1>8. ASSUME NEW c \in Caller, NEW w \in Worker, DecideTrigger(c, w)
      PROVE  SkipSet'
  BY <1>8, SMT DEF DecideTrigger, Launch, Return, NoCall, BackfillTypeOK,
     SingleFlight, SkipSet, Walking, Active, Set, NoRun, RunType, tableVars
<1>9. CASE Cancel
  BY <1>9, SMT DEF Cancel, BackfillTypeOK, SingleFlight, SkipSet, Walking,
     Active, Set, NoRun, RunType, tableVars
<1>10. CASE Shutdown
  BY <1>10, SMT DEF Shutdown, BackfillTypeOK, SingleFlight, SkipSet, Walking,
     Active, Set, NoRun, RunType, tableVars
<1>11. CASE Crash
  BY <1>11, SMT DEF Crash, NoCall, BackfillTypeOK, SingleFlight, SkipSet,
     Walking, Active, Set, NoRun, RunType, tableVars
<1>12. CASE TakeTrigger
  BY <1>12, SMT DEF TakeTrigger, BackfillTypeOK, SingleFlight, SkipSet,
     Walking, Active, Set, NoRun, RunType, tableVars
<1>13. CASE RequestRun
  BY <1>13, SMT DEF RequestRun, BackfillTypeOK, SingleFlight, SkipSet,
     Walking, Active, Set, NoRun, RunType, tableVars
<1>14. ASSUME NEW l \in Lot, StoreLot(l)
      PROVE  SkipSet'
  BY <1>14, SMT DEF StoreLot, BackfillTypeOK, SingleFlight, SkipSet, Walking,
     Active, Set, NoRun, RunType, tableVars
<1>15. CASE UNCHANGED backfillVars
  BY <1>15, SMT DEF backfillVars, BackfillTypeOK, SingleFlight, SkipSet,
     Walking, Active, Set, NoRun, RunType, tableVars
<1> QED
  BY <1>1, <1>2, <1>3, <1>4, <1>5, <1>6, <1>7, <1>8, <1>9, <1>10, <1>11,
     <1>12, <1>13, <1>14, <1>15
  DEF BackfillNext, Decide

LEMMA KnownStep ==
  BackfillTypeOK /\ RunIsKnown /\ [BackfillNext]_backfillVars
    => RunIsKnown'
<1> SUFFICES ASSUME BackfillTypeOK, RunIsKnown, [BackfillNext]_backfillVars
               PROVE  RunIsKnown'
  OBVIOUS
<1> USE NoneAssumption, TotalAssumption, SizeAssumption
<1>1. ASSUME NEW w \in Worker, WorkerStep(w)
      PROVE  RunIsKnown'
  <2>1. CASE Begin(w)
    BY <1>1, <2>1, SMT DEF Begin, BackfillTypeOK, RunIsKnown, Walking, Set,
       NoRun, RunType, tableVars
  <2>2. CASE CancelledBeforeStart(w)
    BY <1>1, <2>2, SMT DEF CancelledBeforeStart, BackfillTypeOK, RunIsKnown,
       Walking, Set, NoRun, RunType, tableVars
  <2>3. CASE MarkRegion(w)
    BY <1>1, <2>3, SMT DEF MarkRegion, BackfillTypeOK, RunIsKnown, Walking,
       Set, NoRun, RunType, tableVars
  <2>4. CASE StopWalk(w)
    BY <1>1, <2>4, SMT DEF StopWalk, EndWalk, BackfillTypeOK, RunIsKnown,
       Walking, Set, NoRun, RunType, tableVars
  <2>5. CASE FetchPage(w)
    BY <1>1, <2>5, SMT DEF FetchPage, Shown, BackfillTypeOK, RunIsKnown,
       Walking, Set, NoRun, RunType, tableVars
  <2>6. CASE Exhausted(w)
    BY <1>1, <2>6, SMT DEF Exhausted, EndWalk, Shown, BackfillTypeOK,
       RunIsKnown, Walking, Set, NoRun, RunType, tableVars
  <2>7. CASE WalkFails(w)
    BY <1>1, <2>7, SMT DEF WalkFails, EndWalk, BackfillTypeOK, RunIsKnown,
       Walking, Set, NoRun, RunType, tableVars
  <2>8. CASE UpsertRow(w)
    BY <1>1, <2>8, SMT DEF UpsertRow, BackfillTypeOK, RunIsKnown, Walking,
       Set, NoRun, RunType, tableVars
  <2>9. CASE SkipRow(w)
    BY <1>1, <2>9, SMT DEF SkipRow, BackfillTypeOK, RunIsKnown, Walking,
       Set, NoRun, RunType, tableVars
  <2>10. CASE WindowEnds(w)
    BY <1>1, <2>10, SMT DEF WindowEnds, EndWalk, BackfillTypeOK, RunIsKnown,
       Walking, Set, NoRun, RunType, tableVars
  <2>11. CASE NextPage(w)
    BY <1>1, <2>11, SMT DEF NextPage, BackfillTypeOK, RunIsKnown, Walking,
       Set, NoRun, RunType, tableVars
  <2>12. CASE Succeed(w)
    BY <1>1, <2>12, SMT DEF Succeed, Cancelled, BackfillTypeOK, RunIsKnown,
       Walking, Set, NoRun, RunType, tableVars
  <2>13. CASE GiveUp(w)
    BY <1>1, <2>13, SMT DEF GiveUp, Cancelled, BackfillTypeOK, RunIsKnown,
       Walking, Set, NoRun, RunType, tableVars
  <2>14. CASE SetDone(w)
    BY <1>1, <2>14, SMT DEF SetDone, BackfillTypeOK, RunIsKnown, Walking,
       Set, NoRun, RunType, tableVars
  <2>15. CASE SetTotal(w)
    BY <1>1, <2>15, SMT DEF SetTotal, BackfillTypeOK, RunIsKnown, Walking,
       Set, NoRun, RunType, tableVars
  <2>16. CASE StateWriteFails(w)
    BY <1>1, <2>16, SMT DEF StateWriteFails, BackfillTypeOK, RunIsKnown,
       Walking, Set, NoRun, RunType, tableVars
  <2>17. CASE WakeMonitor(w)
    BY <1>1, <2>17, SMT DEF WakeMonitor, BackfillTypeOK, RunIsKnown,
       Walking, Set, NoRun, RunType, tableVars
  <2>18. CASE Release(w)
    BY <1>1, <2>18, SMT DEF Release, BackfillTypeOK, RunIsKnown, Walking,
       Set, NoRun, RunType, tableVars
  <2>19. CASE ClearProgress(w)
    BY <1>1, <2>19, SMT DEF ClearProgress, BackfillTypeOK, RunIsKnown,
       Walking, Set, NoRun, RunType, tableVars
  <2> QED
    BY <1>1, <2>1, <2>2, <2>3, <2>4, <2>5, <2>6, <2>7, <2>8, <2>9, <2>10,
       <2>11, <2>12, <2>13, <2>14, <2>15, <2>16, <2>17, <2>18, <2>19 DEF
       WorkerStep
<1>2. ASSUME NEW w \in Worker, WatchStop(w)
      PROVE  RunIsKnown'
  BY <1>2, SMT DEF WatchStop, Cancelled, BackfillTypeOK, RunIsKnown, Walking,
     Set, NoRun, RunType, tableVars
<1>3. ASSUME NEW w \in Worker, NEW supervised \in BOOLEAN, Start(w, supervised)
      PROVE  RunIsKnown'
  BY <1>3, SMT DEF Start, Launch, BackfillTypeOK, RunIsKnown, Walking, Set,
     NoRun, RunType, tableVars
<1>4. ASSUME NEW c \in Caller, AskAnything(c)
      PROVE  RunIsKnown'
  BY <1>4, SMT DEF AskAnything, MaybeStart, BackfillTypeOK, RunIsKnown,
     Walking, Set, NoRun, RunType, tableVars
<1>5. ASSUME NEW c \in Caller, DecideSkip(c)
      PROVE  RunIsKnown'
  BY <1>5, SMT DEF DecideSkip, Return, NoCall, BackfillTypeOK, RunIsKnown,
     Walking, Set, NoRun, RunType, tableVars
<1>6. ASSUME NEW c \in Caller, DecideNegative(c)
      PROVE  RunIsKnown'
  BY <1>6, SMT DEF DecideNegative, BackfillTypeOK, RunIsKnown, Walking, Set,
     NoRun, RunType, tableVars
<1>7. ASSUME NEW c \in Caller, WriteBaseline(c)
      PROVE  RunIsKnown'
  BY <1>7, SMT DEF WriteBaseline, Return, NoCall, BackfillTypeOK, RunIsKnown,
     Walking, Set, NoRun, RunType, tableVars
<1>8. ASSUME NEW c \in Caller, NEW w \in Worker, DecideTrigger(c, w)
      PROVE  RunIsKnown'
  BY <1>8, SMT DEF DecideTrigger, Launch, Return, NoCall, BackfillTypeOK,
     RunIsKnown, Walking, Set, NoRun, RunType, tableVars
<1>9. CASE Cancel
  BY <1>9, SMT DEF Cancel, BackfillTypeOK, RunIsKnown, Walking, Set, NoRun,
     RunType, tableVars
<1>10. CASE Shutdown
  BY <1>10, SMT DEF Shutdown, BackfillTypeOK, RunIsKnown, Walking, Set, NoRun,
     RunType, tableVars
<1>11. CASE Crash
  BY <1>11, SMT DEF Crash, NoCall, BackfillTypeOK, RunIsKnown, Walking, Set,
     NoRun, RunType, tableVars
<1>12. CASE TakeTrigger
  BY <1>12, SMT DEF TakeTrigger, BackfillTypeOK, RunIsKnown, Walking, Set,
     NoRun, RunType, tableVars
<1>13. CASE RequestRun
  BY <1>13, SMT DEF RequestRun, BackfillTypeOK, RunIsKnown, Walking, Set,
     NoRun, RunType, tableVars
<1>14. ASSUME NEW l \in Lot, StoreLot(l)
      PROVE  RunIsKnown'
  BY <1>14, SMT DEF StoreLot, BackfillTypeOK, RunIsKnown, Walking, Set, NoRun,
     RunType, tableVars
<1>15. CASE UNCHANGED backfillVars
  BY <1>15, SMT DEF backfillVars, BackfillTypeOK, RunIsKnown, Walking, Set,
     NoRun, RunType, tableVars
<1> QED
  BY <1>1, <1>2, <1>3, <1>4, <1>5, <1>6, <1>7, <1>8, <1>9, <1>10, <1>11,
     <1>12, <1>13, <1>14, <1>15
  DEF BackfillNext, Decide

LEMMA CauseStep ==
  BackfillTypeOK /\ SingleFlight /\ CutHasCause /\ [BackfillNext]_backfillVars
    => CutHasCause'
<1> SUFFICES ASSUME BackfillTypeOK, SingleFlight, CutHasCause, [BackfillNext]_backfillVars
               PROVE  CutHasCause'
  OBVIOUS
<1> USE NoneAssumption, TotalAssumption, SizeAssumption
<1>1. ASSUME NEW w \in Worker, WorkerStep(w)
      PROVE  CutHasCause'
  <2>1. CASE Begin(w)
    BY <1>1, <2>1, SMT DEF Begin, BackfillTypeOK, SingleFlight, CutHasCause,
       Cancelled, Active, Walking, Set, NoRun, RunType, tableVars
  <2>2. CASE CancelledBeforeStart(w)
    BY <1>1, <2>2, SMT DEF CancelledBeforeStart, BackfillTypeOK,
       SingleFlight, CutHasCause, Cancelled, Active, Walking, Set, NoRun,
       RunType, tableVars
  <2>3. CASE MarkRegion(w)
    BY <1>1, <2>3, SMT DEF MarkRegion, BackfillTypeOK, SingleFlight,
       CutHasCause, Cancelled, Active, Walking, Set, NoRun, RunType,
       tableVars
  <2>4. CASE StopWalk(w)
    BY <1>1, <2>4, SMT DEF StopWalk, EndWalk, BackfillTypeOK, SingleFlight,
       CutHasCause, Cancelled, Active, Walking, Set, NoRun, RunType,
       tableVars
  <2>5. CASE FetchPage(w)
    BY <1>1, <2>5, SMT DEF FetchPage, Shown, BackfillTypeOK, SingleFlight,
       CutHasCause, Cancelled, Active, Walking, Set, NoRun, RunType,
       tableVars
  <2>6. CASE Exhausted(w)
    BY <1>1, <2>6, SMT DEF Exhausted, EndWalk, Shown, BackfillTypeOK,
       SingleFlight, CutHasCause, Cancelled, Active, Walking, Set, NoRun,
       RunType, tableVars
  <2>7. CASE WalkFails(w)
    BY <1>1, <2>7, SMT DEF WalkFails, EndWalk, BackfillTypeOK, SingleFlight,
       CutHasCause, Cancelled, Active, Walking, Set, NoRun, RunType,
       tableVars
  <2>8. CASE UpsertRow(w)
    BY <1>1, <2>8, SMT DEF UpsertRow, BackfillTypeOK, SingleFlight,
       CutHasCause, Cancelled, Active, Walking, Set, NoRun, RunType,
       tableVars
  <2>9. CASE SkipRow(w)
    BY <1>1, <2>9, SMT DEF SkipRow, BackfillTypeOK, SingleFlight,
       CutHasCause, Cancelled, Active, Walking, Set, NoRun, RunType,
       tableVars
  <2>10. CASE WindowEnds(w)
    BY <1>1, <2>10, SMT DEF WindowEnds, EndWalk, BackfillTypeOK,
       SingleFlight, CutHasCause, Cancelled, Active, Walking, Set, NoRun,
       RunType, tableVars
  <2>11. CASE NextPage(w)
    BY <1>1, <2>11, SMT DEF NextPage, BackfillTypeOK, SingleFlight,
       CutHasCause, Cancelled, Active, Walking, Set, NoRun, RunType,
       tableVars
  <2>12. CASE Succeed(w)
    BY <1>1, <2>12, SMT DEF Succeed, BackfillTypeOK, SingleFlight,
       CutHasCause, Cancelled, Active, Walking, Set, NoRun, RunType,
       tableVars
  <2>13. CASE GiveUp(w)
    BY <1>1, <2>13, SMT DEF GiveUp, BackfillTypeOK, SingleFlight,
       CutHasCause, Cancelled, Active, Walking, Set, NoRun, RunType,
       tableVars
  <2>14. CASE SetDone(w)
    BY <1>1, <2>14, SMT DEF SetDone, BackfillTypeOK, SingleFlight,
       CutHasCause, Cancelled, Active, Walking, Set, NoRun, RunType,
       tableVars
  <2>15. CASE SetTotal(w)
    BY <1>1, <2>15, SMT DEF SetTotal, BackfillTypeOK, SingleFlight,
       CutHasCause, Cancelled, Active, Walking, Set, NoRun, RunType,
       tableVars
  <2>16. CASE StateWriteFails(w)
    BY <1>1, <2>16, SMT DEF StateWriteFails, BackfillTypeOK, SingleFlight,
       CutHasCause, Cancelled, Active, Walking, Set, NoRun, RunType,
       tableVars
  <2>17. CASE WakeMonitor(w)
    BY <1>1, <2>17, SMT DEF WakeMonitor, BackfillTypeOK, SingleFlight,
       CutHasCause, Cancelled, Active, Walking, Set, NoRun, RunType,
       tableVars
  <2>18. CASE Release(w)
    BY <1>1, <2>18, SMT DEF Release, BackfillTypeOK, SingleFlight,
       CutHasCause, Cancelled, Active, Walking, Set, NoRun, RunType,
       tableVars
  <2>19. CASE ClearProgress(w)
    BY <1>1, <2>19, SMT DEF ClearProgress, BackfillTypeOK, SingleFlight,
       CutHasCause, Cancelled, Active, Walking, Set, NoRun, RunType,
       tableVars
  <2> QED
    BY <1>1, <2>1, <2>2, <2>3, <2>4, <2>5, <2>6, <2>7, <2>8, <2>9, <2>10,
       <2>11, <2>12, <2>13, <2>14, <2>15, <2>16, <2>17, <2>18, <2>19 DEF
       WorkerStep
<1>2. ASSUME NEW w \in Worker, WatchStop(w)
      PROVE  CutHasCause'
  BY <1>2, SMT DEF WatchStop, BackfillTypeOK, SingleFlight, CutHasCause,
     Cancelled, Active, Walking, Set, NoRun, RunType, tableVars
<1>3. ASSUME NEW w \in Worker, NEW supervised \in BOOLEAN, Start(w, supervised)
      PROVE  CutHasCause'
  BY <1>3, SMT DEF Start, Launch, BackfillTypeOK, SingleFlight, CutHasCause,
     Cancelled, Active, Walking, Set, NoRun, RunType, tableVars
<1>4. ASSUME NEW c \in Caller, AskAnything(c)
      PROVE  CutHasCause'
  BY <1>4, SMT DEF AskAnything, MaybeStart, BackfillTypeOK, SingleFlight,
     CutHasCause, Cancelled, Active, Walking, Set, NoRun, RunType, tableVars
<1>5. ASSUME NEW c \in Caller, DecideSkip(c)
      PROVE  CutHasCause'
  BY <1>5, SMT DEF DecideSkip, Return, NoCall, BackfillTypeOK, SingleFlight,
     CutHasCause, Cancelled, Active, Walking, Set, NoRun, RunType, tableVars
<1>6. ASSUME NEW c \in Caller, DecideNegative(c)
      PROVE  CutHasCause'
  BY <1>6, SMT DEF DecideNegative, BackfillTypeOK, SingleFlight, CutHasCause,
     Cancelled, Active, Walking, Set, NoRun, RunType, tableVars
<1>7. ASSUME NEW c \in Caller, WriteBaseline(c)
      PROVE  CutHasCause'
  BY <1>7, SMT DEF WriteBaseline, Return, NoCall, BackfillTypeOK,
     SingleFlight, CutHasCause, Cancelled, Active, Walking, Set, NoRun,
     RunType, tableVars
<1>8. ASSUME NEW c \in Caller, NEW w \in Worker, DecideTrigger(c, w)
      PROVE  CutHasCause'
  BY <1>8, SMT DEF DecideTrigger, Launch, Return, NoCall, BackfillTypeOK,
     SingleFlight, CutHasCause, Cancelled, Active, Walking, Set, NoRun,
     RunType, tableVars
<1>9. CASE Cancel
  BY <1>9, SMT DEF Cancel, BackfillTypeOK, SingleFlight, CutHasCause,
     Cancelled, Active, Walking, Set, NoRun, RunType, tableVars
<1>10. CASE Shutdown
  BY <1>10, SMT DEF Shutdown, BackfillTypeOK, SingleFlight, CutHasCause,
     Cancelled, Active, Walking, Set, NoRun, RunType, tableVars
<1>11. CASE Crash
  BY <1>11, SMT DEF Crash, NoCall, BackfillTypeOK, SingleFlight, CutHasCause,
     Cancelled, Active, Walking, Set, NoRun, RunType, tableVars
<1>12. CASE TakeTrigger
  BY <1>12, SMT DEF TakeTrigger, BackfillTypeOK, SingleFlight, CutHasCause,
     Cancelled, Active, Walking, Set, NoRun, RunType, tableVars
<1>13. CASE RequestRun
  BY <1>13, SMT DEF RequestRun, BackfillTypeOK, SingleFlight, CutHasCause,
     Cancelled, Active, Walking, Set, NoRun, RunType, tableVars
<1>14. ASSUME NEW l \in Lot, StoreLot(l)
      PROVE  CutHasCause'
  BY <1>14, SMT DEF StoreLot, BackfillTypeOK, SingleFlight, CutHasCause,
     Cancelled, Active, Walking, Set, NoRun, RunType, tableVars
<1>15. CASE UNCHANGED backfillVars
  BY <1>15, SMT DEF backfillVars, BackfillTypeOK, SingleFlight, CutHasCause,
     Cancelled, Active, Walking, Set, NoRun, RunType, tableVars
<1> QED
  BY <1>1, <1>2, <1>3, <1>4, <1>5, <1>6, <1>7, <1>8, <1>9, <1>10, <1>11,
     <1>12, <1>13, <1>14, <1>15
  DEF BackfillNext, Decide

LEMMA VerdictStep ==
  BackfillTypeOK /\ CutHasCause /\ VerdictIsSound /\ [BackfillNext]_backfillVars
    => VerdictIsSound'
<1> SUFFICES ASSUME BackfillTypeOK, CutHasCause, VerdictIsSound, [BackfillNext]_backfillVars
               PROVE  VerdictIsSound'
  OBVIOUS
<1> USE NoneAssumption, TotalAssumption, SizeAssumption
<1>1. ASSUME NEW w \in Worker, WorkerStep(w)
      PROVE  VerdictIsSound'
  <2>1. CASE Begin(w)
    BY <1>1, <2>1, SMT DEF Begin, BackfillTypeOK, VerdictIsSound,
       CutHasCause, Cancelled, Active, Walking, Set, NoRun, RunType,
       tableVars
  <2>2. CASE CancelledBeforeStart(w)
    BY <1>1, <2>2, SMT DEF CancelledBeforeStart, BackfillTypeOK,
       VerdictIsSound, CutHasCause, Cancelled, Active, Walking, Set, NoRun,
       RunType, tableVars
  <2>3. CASE MarkRegion(w)
    BY <1>1, <2>3, SMT DEF MarkRegion, BackfillTypeOK, VerdictIsSound,
       CutHasCause, Cancelled, Active, Walking, Set, NoRun, RunType,
       tableVars
  <2>4. CASE StopWalk(w)
    BY <1>1, <2>4, SMT DEF StopWalk, EndWalk, BackfillTypeOK,
       VerdictIsSound, CutHasCause, Cancelled, Active, Walking, Set, NoRun,
       RunType, tableVars
  <2>5. CASE FetchPage(w)
    BY <1>1, <2>5, SMT DEF FetchPage, Shown, BackfillTypeOK, VerdictIsSound,
       CutHasCause, Cancelled, Active, Walking, Set, NoRun, RunType,
       tableVars
  <2>6. CASE Exhausted(w)
    BY <1>1, <2>6, SMT DEF Exhausted, EndWalk, Shown, BackfillTypeOK,
       VerdictIsSound, CutHasCause, Cancelled, Active, Walking, Set, NoRun,
       RunType, tableVars
  <2>7. CASE WalkFails(w)
    BY <1>1, <2>7, SMT DEF WalkFails, EndWalk, BackfillTypeOK,
       VerdictIsSound, CutHasCause, Cancelled, Active, Walking, Set, NoRun,
       RunType, tableVars
  <2>8. CASE UpsertRow(w)
    BY <1>1, <2>8, SMT DEF UpsertRow, BackfillTypeOK, VerdictIsSound,
       CutHasCause, Cancelled, Active, Walking, Set, NoRun, RunType,
       tableVars
  <2>9. CASE SkipRow(w)
    BY <1>1, <2>9, SMT DEF SkipRow, BackfillTypeOK, VerdictIsSound,
       CutHasCause, Cancelled, Active, Walking, Set, NoRun, RunType,
       tableVars
  <2>10. CASE WindowEnds(w)
    BY <1>1, <2>10, SMT DEF WindowEnds, EndWalk, BackfillTypeOK,
       VerdictIsSound, CutHasCause, Cancelled, Active, Walking, Set, NoRun,
       RunType, tableVars
  <2>11. CASE NextPage(w)
    BY <1>1, <2>11, SMT DEF NextPage, BackfillTypeOK, VerdictIsSound,
       CutHasCause, Cancelled, Active, Walking, Set, NoRun, RunType,
       tableVars
  <2>12. CASE Succeed(w)
    BY <1>1, <2>12, SMT DEF Succeed, BackfillTypeOK, VerdictIsSound,
       CutHasCause, Cancelled, Active, Walking, Set, NoRun, RunType,
       tableVars
  <2>13. CASE GiveUp(w)
    BY <1>1, <2>13, SMT DEF GiveUp, BackfillTypeOK, VerdictIsSound,
       CutHasCause, Cancelled, Active, Walking, Set, NoRun, RunType,
       tableVars
  <2>14. CASE SetDone(w)
    BY <1>1, <2>14, SMT DEF SetDone, BackfillTypeOK, VerdictIsSound,
       CutHasCause, Cancelled, Active, Walking, Set, NoRun, RunType,
       tableVars
  <2>15. CASE SetTotal(w)
    BY <1>1, <2>15, SMT DEF SetTotal, BackfillTypeOK, VerdictIsSound,
       CutHasCause, Cancelled, Active, Walking, Set, NoRun, RunType,
       tableVars
  <2>16. CASE StateWriteFails(w)
    BY <1>1, <2>16, SMT DEF StateWriteFails, BackfillTypeOK, VerdictIsSound,
       CutHasCause, Cancelled, Active, Walking, Set, NoRun, RunType,
       tableVars
  <2>17. CASE WakeMonitor(w)
    BY <1>1, <2>17, SMT DEF WakeMonitor, BackfillTypeOK, VerdictIsSound,
       CutHasCause, Cancelled, Active, Walking, Set, NoRun, RunType,
       tableVars
  <2>18. CASE Release(w)
    BY <1>1, <2>18, SMT DEF Release, BackfillTypeOK, VerdictIsSound,
       CutHasCause, Cancelled, Active, Walking, Set, NoRun, RunType,
       tableVars
  <2>19. CASE ClearProgress(w)
    BY <1>1, <2>19, SMT DEF ClearProgress, BackfillTypeOK, VerdictIsSound,
       CutHasCause, Cancelled, Active, Walking, Set, NoRun, RunType,
       tableVars
  <2> QED
    BY <1>1, <2>1, <2>2, <2>3, <2>4, <2>5, <2>6, <2>7, <2>8, <2>9, <2>10,
       <2>11, <2>12, <2>13, <2>14, <2>15, <2>16, <2>17, <2>18, <2>19 DEF
       WorkerStep
<1>2. ASSUME NEW w \in Worker, WatchStop(w)
      PROVE  VerdictIsSound'
  BY <1>2, SMT DEF WatchStop, BackfillTypeOK, VerdictIsSound, CutHasCause,
     Cancelled, Active, Walking, Set, NoRun, RunType, tableVars
<1>3. ASSUME NEW w \in Worker, NEW supervised \in BOOLEAN, Start(w, supervised)
      PROVE  VerdictIsSound'
  BY <1>3, SMT DEF Start, Launch, BackfillTypeOK, VerdictIsSound, CutHasCause,
     Cancelled, Active, Walking, Set, NoRun, RunType, tableVars
<1>4. ASSUME NEW c \in Caller, AskAnything(c)
      PROVE  VerdictIsSound'
  BY <1>4, SMT DEF AskAnything, MaybeStart, BackfillTypeOK, VerdictIsSound,
     CutHasCause, Cancelled, Active, Walking, Set, NoRun, RunType, tableVars
<1>5. ASSUME NEW c \in Caller, DecideSkip(c)
      PROVE  VerdictIsSound'
  BY <1>5, SMT DEF DecideSkip, Return, NoCall, BackfillTypeOK, VerdictIsSound,
     CutHasCause, Cancelled, Active, Walking, Set, NoRun, RunType, tableVars
<1>6. ASSUME NEW c \in Caller, DecideNegative(c)
      PROVE  VerdictIsSound'
  BY <1>6, SMT DEF DecideNegative, BackfillTypeOK, VerdictIsSound,
     CutHasCause, Cancelled, Active, Walking, Set, NoRun, RunType, tableVars
<1>7. ASSUME NEW c \in Caller, WriteBaseline(c)
      PROVE  VerdictIsSound'
  BY <1>7, SMT DEF WriteBaseline, Return, NoCall, BackfillTypeOK,
     VerdictIsSound, CutHasCause, Cancelled, Active, Walking, Set, NoRun,
     RunType, tableVars
<1>8. ASSUME NEW c \in Caller, NEW w \in Worker, DecideTrigger(c, w)
      PROVE  VerdictIsSound'
  BY <1>8, SMT DEF DecideTrigger, Launch, Return, NoCall, BackfillTypeOK,
     VerdictIsSound, CutHasCause, Cancelled, Active, Walking, Set, NoRun,
     RunType, tableVars
<1>9. CASE Cancel
  BY <1>9, SMT DEF Cancel, BackfillTypeOK, VerdictIsSound, CutHasCause,
     Cancelled, Active, Walking, Set, NoRun, RunType, tableVars
<1>10. CASE Shutdown
  BY <1>10, SMT DEF Shutdown, BackfillTypeOK, VerdictIsSound, CutHasCause,
     Cancelled, Active, Walking, Set, NoRun, RunType, tableVars
<1>11. CASE Crash
  BY <1>11, SMT DEF Crash, NoCall, BackfillTypeOK, VerdictIsSound,
     CutHasCause, Cancelled, Active, Walking, Set, NoRun, RunType, tableVars
<1>12. CASE TakeTrigger
  BY <1>12, SMT DEF TakeTrigger, BackfillTypeOK, VerdictIsSound, CutHasCause,
     Cancelled, Active, Walking, Set, NoRun, RunType, tableVars
<1>13. CASE RequestRun
  BY <1>13, SMT DEF RequestRun, BackfillTypeOK, VerdictIsSound, CutHasCause,
     Cancelled, Active, Walking, Set, NoRun, RunType, tableVars
<1>14. ASSUME NEW l \in Lot, StoreLot(l)
      PROVE  VerdictIsSound'
  BY <1>14, SMT DEF StoreLot, BackfillTypeOK, VerdictIsSound, CutHasCause,
     Cancelled, Active, Walking, Set, NoRun, RunType, tableVars
<1>15. CASE UNCHANGED backfillVars
  BY <1>15, SMT DEF backfillVars, BackfillTypeOK, VerdictIsSound, CutHasCause,
     Cancelled, Active, Walking, Set, NoRun, RunType, tableVars
<1> QED
  BY <1>1, <1>2, <1>3, <1>4, <1>5, <1>6, <1>7, <1>8, <1>9, <1>10, <1>11,
     <1>12, <1>13, <1>14, <1>15
  DEF BackfillNext, Decide

\* The progress flag is cleared by the last step of the run that set it, or of a
\* run before it: it never outlives them all.
LEMMA ProgressStep ==
  BackfillTypeOK /\ ProgressHasRun /\ [BackfillNext]_backfillVars => ProgressHasRun'
<1> SUFFICES ASSUME BackfillTypeOK, ProgressHasRun, [BackfillNext]_backfillVars
             PROVE  ProgressHasRun'
  OBVIOUS
<1> USE DEF BackfillTypeOK, ProgressHasRun, Set, tableVars
<1>1. ASSUME NEW w \in Worker, WorkerStep(w)
      PROVE  ProgressHasRun'
  <2>1. CASE Begin(w)
    BY <1>1, <2>1, SMT DEF Begin, RunType
  <2>2. CASE CancelledBeforeStart(w)
    BY <1>1, <2>2, SMT DEF CancelledBeforeStart, RunType
  <2>3. CASE MarkRegion(w)
    BY <1>1, <2>3, SMT DEF MarkRegion, RunType
  <2>4. CASE StopWalk(w)
    BY <1>1, <2>4, SMT DEF StopWalk, EndWalk, RunType
  <2>5. CASE FetchPage(w)
    BY <1>1, <2>5, SMT DEF FetchPage, Shown, RunType
  <2>6. CASE Exhausted(w)
    BY <1>1, <2>6, SMT DEF Exhausted, EndWalk, Shown, RunType
  <2>7. CASE WalkFails(w)
    BY <1>1, <2>7, SMT DEF WalkFails, EndWalk, RunType
  <2>8. CASE UpsertRow(w)
    BY <1>1, <2>8, SMT DEF UpsertRow, RunType
  <2>9. CASE SkipRow(w)
    BY <1>1, <2>9, SMT DEF SkipRow, RunType
  <2>10. CASE WindowEnds(w)
    BY <1>1, <2>10, SMT DEF WindowEnds, EndWalk, RunType
  <2>11. CASE NextPage(w)
    BY <1>1, <2>11, SMT DEF NextPage, RunType
  <2>12. CASE Succeed(w)
    BY <1>1, <2>12, SMT DEF Succeed, RunType
  <2>13. CASE GiveUp(w)
    BY <1>1, <2>13, SMT DEF GiveUp, RunType
  <2>14. CASE SetDone(w)
    BY <1>1, <2>14, SMT DEF SetDone, RunType
  <2>15. CASE SetTotal(w)
    BY <1>1, <2>15, SMT DEF SetTotal, RunType
  <2>16. CASE StateWriteFails(w)
    BY <1>1, <2>16, SMT DEF StateWriteFails, RunType
  <2>17. CASE WakeMonitor(w)
    BY <1>1, <2>17, SMT DEF WakeMonitor, RunType
  <2>18. CASE Release(w)
    BY <1>1, <2>18, SMT DEF Release, NoRun, RunType
  <2>19. CASE ClearProgress(w)
    BY <1>1, <2>19, SMT DEF ClearProgress, NoRun, RunType
  <2> QED
    BY <1>1, <2>1, <2>2, <2>3, <2>4, <2>5, <2>6, <2>7, <2>8, <2>9, <2>10, <2>11, <2>12, <2>13, <2>14, <2>15, <2>16, <2>17, <2>18, <2>19
    DEF WorkerStep
<1>2. ASSUME NEW w \in Worker, WatchStop(w)
      PROVE  ProgressHasRun'
  BY <1>2, SMT DEF WatchStop
<1>3. ASSUME NEW w \in Worker, NEW supervised \in BOOLEAN, Start(w, supervised)
      PROVE  ProgressHasRun'
  BY <1>3, SMT DEF Start, Launch, NoRun
<1>4. ASSUME NEW c \in Caller, AskAnything(c)
      PROVE  ProgressHasRun'
  BY <1>4, SMT DEF AskAnything, MaybeStart
<1>5. ASSUME NEW c \in Caller, DecideSkip(c)
      PROVE  ProgressHasRun'
  BY <1>5, SMT DEF DecideSkip
<1>6. ASSUME NEW c \in Caller, DecideNegative(c)
      PROVE  ProgressHasRun'
  BY <1>6, SMT DEF DecideNegative
<1>7. ASSUME NEW c \in Caller, WriteBaseline(c)
      PROVE  ProgressHasRun'
  BY <1>7, SMT DEF WriteBaseline
<1>8. ASSUME NEW c \in Caller, NEW w \in Worker, DecideTrigger(c, w)
      PROVE  ProgressHasRun'
  BY <1>8, SMT DEF DecideTrigger, Launch, NoRun
<1>9. CASE Cancel
  BY <1>9, SMT DEF Cancel
<1>10. CASE Shutdown
  BY <1>10, SMT DEF Shutdown
<1>11. CASE Crash
  BY <1>11, SMT DEF Crash
<1>12. CASE TakeTrigger
  BY <1>12, SMT DEF TakeTrigger
<1>13. CASE RequestRun
  BY <1>13, SMT DEF RequestRun
<1>14. ASSUME NEW l \in Lot, StoreLot(l)
      PROVE  ProgressHasRun'
  BY <1>14, SMT DEF StoreLot
<1>15. CASE UNCHANGED backfillVars
  BY <1>15, SMT DEF backfillVars
<1> QED
  BY <1>1, <1>2, <1>3, <1>4, <1>5, <1>6, <1>7, <1>8, <1>9, <1>10, <1>11, <1>12, <1>13, <1>14, <1>15
  DEF BackfillNext, Decide

LEMMA Invariance == BackfillSpec => []IInv
<1>1. IInv /\ [BackfillNext]_backfillVars => IInv'
  BY TypeStep, FlightStep, SkipSetStep, KnownStep, CauseStep, VerdictStep,
     ProgressStep DEF IInv
<1> QED
  BY InitInv, <1>1, PTL DEF BackfillSpec

\* Every variable keeps its type: the bounded walk, the calls under way and the
\* persisted baseline for any number of threads (backfill.py, __init__).
THEOREM TypeCorrect == BackfillSpec => []BackfillTypeOK
BY Invariance, PTL DEF IInv

\* start, start_resume and maybe_start never let two backfills run, and the flag
\* tells whether one does (backfill.py, _flight_lock).
THEOREM AtMostOneRun == BackfillSpec => []SingleFlight
BY Invariance, PTL DEF IInv

\* The scheduler's skip-set names the region being walked and nothing else
\* (backfill.py, the finally clause of _run).
THEOREM NoRegionIsLeftBehind == BackfillSpec => []SkipSetIsExact
<1>1. IInv => SkipSetIsExact
  BY SMT DEF IInv, SkipSet, SkipSetIsExact, SingleFlight, Active, Walking
<1> QED
  BY Invariance, <1>1, PTL

\* What is persisted as done was neither cut short nor in error (backfill.py,
\* the verdict of _run).
THEOREM DoneIsEarned == BackfillSpec => []VerdictIsSound
BY Invariance, PTL DEF IInv

\* status() never answers "running" with no worker left to clear it, however the
\* end of one run overlaps the start of the next (backfill.py, the finally
\* clauses of the three _worker functions).
THEOREM NoGhostRun == BackfillSpec => []ProgressHasRun
BY Invariance, PTL DEF IInv

-----------------------------------------------------------------------------
(* The scheduler                                                           *)

\* What a pass carries from step to step.
PassTyped ==
  /\ mpc \in {"top", "check", "fetch", "delta", "asked", "upsert", "wait", "stopped"}
  /\ region \in Region \cup {None}
  /\ mpc \in {"check", "fetch", "delta"} => region \in Region
  /\ page \subseteq Lot
  /\ mpc = "delta" => Cardinality(page) <= PageSize
  /\ shown \in Total \cup {None}
  /\ fresh \in Lot \cup {None}
  /\ life \in {"boot", "up", "cancelled", "stopping", "closed"}
  /\ requested \in BOOLEAN

LEMMA PassStep == PassTyped /\ [Next]_vars => PassTyped'
<1> SUFFICES ASSUME PassTyped, [Next]_vars PROVE PassTyped'
  OBVIOUS
<1>1. CASE SchedulerStops
  BY <1>1 DEF SchedulerStops, PassTyped, cycleVars
<1>2. CASE BeginPass
  BY <1>2 DEF BeginPass, Awaiting, PassTyped, cycleVars
<1>3. CASE SkipRegion
  BY <1>3 DEF SkipRegion, PassTyped, cycleVars
<1>4. CASE OpenCycle
  BY <1>4 DEF OpenCycle, PassTyped, cycleVars
<1>5. CASE WakeUp
  BY <1>5 DEF WakeUp, TakeTrigger, PassTyped, cycleVars
<1>6. CASE StopWaiting
  BY <1>6 DEF StopWaiting, PassTyped, cycleVars
<1>7. CASE FetchHeadPage
  BY <1>7 DEF FetchHeadPage, Stored, PassTyped, cycleVars
<1>8. CASE FetchFails
  BY <1>8 DEF FetchFails, EndCycle, PassTyped, cycleVars
<1>9. CASE AskForBackfill
  BY <1>9 DEF AskForBackfill, MaybeStart, PassTyped, cycleVars
<1>10. CASE BackfillDecides
  BY <1>10 DEF BackfillDecides, EndCycle, PassTyped, cycleVars
<1>11. CASE Enrich
  BY <1>11 DEF Enrich, EndCycle, PassTyped, cycleVars
<1>12. ASSUME NEW l \in Lot, Upsert(l)
      PROVE  PassTyped'
  BY <1>12 DEF Upsert, WasNew, StoreLot, PassTyped, cycleVars
<1>13. CASE Dispatch
  BY <1>13 DEF Dispatch, PassTyped, cycleVars
<1>14. CASE CloseOk
  BY <1>14 DEF CloseOk, EndCycle, PassTyped, cycleVars
<1>15. CASE UnexpectedError
  BY <1>15 DEF UnexpectedError, EndCycle, PassTyped, cycleVars
<1>16. CASE IntervalElapses
  BY <1>16 DEF IntervalElapses, PassTyped, cycleVars
<1>17. ASSUME NEW w \in Worker, BackfillStep(w)
      PROVE  PassTyped'
  BY <1>17 DEF BackfillStep, PassTyped, cycleVars
<1>18. ASSUME NEW w \in Worker, StopWatcher(w)
      PROVE  PassTyped'
  BY <1>18 DEF StopWatcher, PassTyped, cycleVars
<1>19. ASSUME NEW w \in Worker, StartBackfill(w)
      PROVE  PassTyped'
  BY <1>19 DEF StartBackfill, PassTyped, cycleVars
<1>20. CASE CancelBackfill
  BY <1>20 DEF CancelBackfill, PassTyped, cycleVars
<1>21. CASE RequestRunNow
  BY <1>21 DEF RequestRunNow, RequestRun, PassTyped, cycleVars
<1>22. CASE Boot
  BY <1>22 DEF Boot, PassTyped, cycleVars
<1>23. CASE LifespanCancels
  BY <1>23 DEF LifespanCancels, PassTyped, cycleVars
<1>24. CASE LifespanStops
  BY <1>24 DEF LifespanStops, PassTyped, cycleVars
<1>25. CASE CloseConnections
  BY <1>25 DEF CloseConnections, PassTyped, cycleVars
<1>26. CASE Restart
  BY <1>26 DEF Restart, PassTyped, cycleVars
<1>27. CASE UNCHANGED vars
  BY <1>27 DEF vars, cycleVars, backfillVars, tableVars, PassTyped,
     cycleVars
<1>28. CASE SchedulerDies
  BY <1>28 DEF SchedulerDies, PassTyped, cycleVars
<1>29. CASE OpenFails
  BY <1>29 DEF OpenFails, PassTyped, cycleVars
<1> QED
  BY <1>1, <1>2, <1>3, <1>4, <1>5, <1>6, <1>7, <1>8, <1>9, <1>10, <1>11,
     <1>12, <1>13, <1>14, <1>15, <1>16, <1>17, <1>18, <1>19, <1>20, <1>21,
     <1>22, <1>23, <1>24, <1>25, <1>26, <1>27, <1>28, <1>29
  DEF Next, SchedulerStep

LEMMA PassInvariance == Spec => []PassTyped
<1>1. Init => PassTyped
  BY DEF Init, PassTyped
<1> QED
  BY <1>1, PassStep, PTL DEF Spec

\* What the scheduler passes to maybe_start is what a caller may pass.
LEMMA AskingIsTyped ==
  ASSUME PassTyped, AskForBackfill
  PROVE  AskAnything(Scheduler)
<1>1. Stored \in SUBSET Lot /\ IsFiniteSet(Stored) /\ IsFiniteSet(page)
  BY LotAssumption, FS_Subset DEF Stored, PassTyped
<1>2. Cardinality(Stored) \in Nat /\ Cardinality(page) \in Nat
  BY <1>1, FS_CardinalityType
<1>3. Cardinality(page) \in 0..PageSize /\ region \in Region /\ shown \in Total \cup {None}
  BY <1>2, SizeAssumption DEF AskForBackfill, PassTyped
<1>4. Cardinality(Stored) \in 0..(Cardinality(Stored) + 1)
  BY <1>2
<1>5. MaybeStart(Scheduler, region, shown, Cardinality(Stored), Cardinality(page))
  BY DEF AskForBackfill
<1> QED
  BY <1>3, <1>4, <1>5 DEF AskAnything, Stored

LEMMA StepRefines == PassTyped /\ [Next]_vars => [BackfillNext]_backfillVars
<1> SUFFICES ASSUME PassTyped, [Next]_vars PROVE [BackfillNext]_backfillVars
  OBVIOUS
<1> USE SchedulerAssumption
<1>1. CASE SchedulerStops
  BY <1>1 DEF SchedulerStops, BackfillNext
<1>2. CASE BeginPass
  BY <1>2 DEF BeginPass, BackfillNext
<1>3. CASE SkipRegion
  BY <1>3 DEF SkipRegion, BackfillNext
<1>4. CASE OpenCycle
  BY <1>4 DEF OpenCycle, BackfillNext
<1>5. CASE WakeUp
  BY <1>5 DEF WakeUp, BackfillNext
<1>6. CASE StopWaiting
  BY <1>6 DEF StopWaiting, BackfillNext
<1>7. CASE FetchHeadPage
  BY <1>7 DEF FetchHeadPage, BackfillNext
<1>8. CASE FetchFails
  BY <1>8 DEF FetchFails, BackfillNext
<1>9. CASE AskForBackfill
  BY <1>9, AskingIsTyped DEF BackfillNext
<1>10. CASE BackfillDecides
  BY <1>10 DEF BackfillDecides, BackfillNext
<1>11. CASE Enrich
  BY <1>11 DEF Enrich, BackfillNext
<1>12. ASSUME NEW l \in Lot, Upsert(l)
      PROVE  [BackfillNext]_backfillVars
  BY <1>12 DEF Upsert, BackfillNext
<1>13. CASE Dispatch
  BY <1>13 DEF Dispatch, BackfillNext
<1>14. CASE CloseOk
  BY <1>14 DEF CloseOk, BackfillNext
<1>15. CASE UnexpectedError
  BY <1>15 DEF UnexpectedError, BackfillNext
<1>16. CASE IntervalElapses
  BY <1>16 DEF IntervalElapses, BackfillNext
<1>17. ASSUME NEW w \in Worker, BackfillStep(w)
      PROVE  [BackfillNext]_backfillVars
  BY <1>17 DEF BackfillStep, BackfillNext
<1>18. ASSUME NEW w \in Worker, StopWatcher(w)
      PROVE  [BackfillNext]_backfillVars
  BY <1>18 DEF StopWatcher, BackfillNext
<1>19. ASSUME NEW w \in Worker, StartBackfill(w)
      PROVE  [BackfillNext]_backfillVars
  BY <1>19 DEF StartBackfill, BackfillNext
<1>20. CASE CancelBackfill
  BY <1>20 DEF CancelBackfill, BackfillNext
<1>21. CASE RequestRunNow
  BY <1>21 DEF RequestRunNow, BackfillNext
<1>22. CASE Boot
  BY <1>22 DEF Boot, BackfillNext
<1>23. CASE LifespanCancels
  BY <1>23 DEF LifespanCancels, BackfillNext
<1>24. CASE LifespanStops
  BY <1>24 DEF LifespanStops, BackfillNext
<1>25. CASE CloseConnections
  BY <1>25 DEF CloseConnections, BackfillNext
<1>26. CASE Restart
  BY <1>26 DEF Restart, BackfillNext
<1>27. CASE UNCHANGED vars
  BY <1>27 DEF vars, cycleVars, backfillVars, tableVars, BackfillNext
<1>28. CASE SchedulerDies
  BY <1>28 DEF SchedulerDies, BackfillNext
<1>29. CASE OpenFails
  BY <1>29 DEF OpenFails, BackfillNext
<1> QED
  BY <1>1, <1>2, <1>3, <1>4, <1>5, <1>6, <1>7, <1>8, <1>9, <1>10, <1>11,
     <1>12, <1>13, <1>14, <1>15, <1>16, <1>17, <1>18, <1>19, <1>20, <1>21,
     <1>22, <1>23, <1>24, <1>25, <1>26, <1>27, <1>28, <1>29
  DEF Next, SchedulerStep

\* Beside the scheduler, the routes and the lifespan, the backfill keeps every
\* rule of its own specification: they start, cancel, ask and wake as any caller
\* may (monitor_cycle.py, maybe_start and request_run_now; app.py, lifespan).
THEOREM BackfillIsKept == Spec => BackfillSpec
<1>1. Init => BackfillInit
  BY DEF Init
<1> QED
  BY <1>1, StepRefines, PassInvariance, PTL DEF Spec, BackfillSpec

\* One backfill at a time, the exact skip-set and the sound verdict hold whatever
\* the scheduler and the lifespan do (backfill.py, _flight_lock and _run).
THEOREM BackfillIsSafe ==
  Spec => []SingleFlight /\ []SkipSetIsExact /\ []VerdictIsSound
BY BackfillIsKept, AtMostOneRun, NoRegionIsLeftBehind, DoneIsEarned, PTL

LEMMA WorkerKeeps ==
  ASSUME NEW w \in Worker, WorkerStep(w), BackfillTypeOK
  PROVE  /\ done => done'
         /\ trigger => trigger'
         /\ WakeMonitor(w) => trigger'
         /\ \A l \in Lot : lots[l] # "absent" => lots'[l] # "absent"
<1>1. CASE Begin(w)
  BY <1>1, SMT DEF Begin, tableVars, BackfillTypeOK, WakeMonitor, Set
<1>2. CASE CancelledBeforeStart(w)
  BY <1>2, SMT DEF CancelledBeforeStart, tableVars, BackfillTypeOK,
     WakeMonitor, Set
<1>3. CASE MarkRegion(w)
  BY <1>3, SMT DEF MarkRegion, tableVars, BackfillTypeOK, WakeMonitor, Set
<1>4. CASE StopWalk(w)
  BY <1>4, SMT DEF StopWalk, tableVars, BackfillTypeOK, WakeMonitor, Set
<1>5. CASE FetchPage(w)
  BY <1>5, SMT DEF FetchPage, tableVars, BackfillTypeOK, WakeMonitor, Set
<1>6. CASE Exhausted(w)
  BY <1>6, SMT DEF Exhausted, tableVars, BackfillTypeOK, WakeMonitor, Set
<1>7. CASE WalkFails(w)
  BY <1>7, SMT DEF WalkFails, tableVars, BackfillTypeOK, WakeMonitor, Set
<1>8. CASE UpsertRow(w)
  BY <1>8, SMT DEF UpsertRow, tableVars, BackfillTypeOK, WakeMonitor, Set
<1>9. CASE SkipRow(w)
  BY <1>9, SMT DEF SkipRow, tableVars, BackfillTypeOK, WakeMonitor, Set
<1>10. CASE WindowEnds(w)
  BY <1>10, SMT DEF WindowEnds, tableVars, BackfillTypeOK, WakeMonitor, Set
<1>11. CASE NextPage(w)
  BY <1>11, SMT DEF NextPage, tableVars, BackfillTypeOK, WakeMonitor, Set
<1>12. CASE Succeed(w)
  BY <1>12, SMT DEF Succeed, tableVars, BackfillTypeOK, WakeMonitor, Set
<1>13. CASE GiveUp(w)
  BY <1>13, SMT DEF GiveUp, tableVars, BackfillTypeOK, WakeMonitor, Set
<1>14. CASE SetDone(w)
  BY <1>14, SMT DEF SetDone, tableVars, BackfillTypeOK, WakeMonitor, Set
<1>15. CASE SetTotal(w)
  BY <1>15, SMT DEF SetTotal, tableVars, BackfillTypeOK, WakeMonitor, Set
<1>16. CASE StateWriteFails(w)
  BY <1>16, SMT DEF StateWriteFails, tableVars, BackfillTypeOK, WakeMonitor, Set
<1>17. CASE WakeMonitor(w)
  BY <1>17 DEF WakeMonitor, tableVars
<1>18. CASE Release(w)
  BY <1>18, SMT DEF Release, tableVars, BackfillTypeOK, WakeMonitor, Set
<1>19. CASE ClearProgress(w)
  BY <1>19, SMT DEF ClearProgress, tableVars, BackfillTypeOK, WakeMonitor, Set
<1> QED
  BY <1>1, <1>2, <1>3, <1>4, <1>5, <1>6, <1>7, <1>8, <1>9, <1>10, <1>11,
     <1>12, <1>13, <1>14, <1>15, <1>16, <1>17, <1>18, <1>19 DEF WorkerStep

LEMMA DecideKeeps ==
  ASSUME NEW c \in Caller, Decide(c)
  PROVE  UNCHANGED <<done, trigger, lots>>
BY DEF Decide, DecideSkip, DecideNegative, WriteBaseline, DecideTrigger,
   tableVars

\* The gate, from the moment it was read; the request, until a pass begins; and
\* the lots that were dispatched or are about to be, which are stored.
Gate == mpc = "check" \/ InCycle => done
Kept == requested => trigger \/ mpc \in {"top", "stopped"}
Sent ==
  /\ dispatched \in [Lot -> Nat]
  /\ \A l \in Lot : dispatched[l] > 0 \/ fresh = l => lots[l] # "absent"
  /\ OneDispatchPerLot

LEMMA GateStep == BackfillTypeOK /\ PassTyped /\ Gate /\ [Next]_vars => Gate'
<1> SUFFICES ASSUME BackfillTypeOK, PassTyped, Gate, [Next]_vars PROVE Gate'
  OBVIOUS
<1> USE SchedulerAssumption
<1>1. CASE SchedulerStops
  BY <1>1 DEF SchedulerStops, Gate, InCycle, backfillVars, tableVars, cycleVars
<1>2. CASE BeginPass
  BY <1>2 DEF BeginPass, Awaiting, Gate, InCycle, backfillVars, tableVars,
     cycleVars
<1>3. CASE SkipRegion
  BY <1>3 DEF SkipRegion, Gate, InCycle, backfillVars, tableVars, cycleVars
<1>4. CASE OpenCycle
  BY <1>4 DEF OpenCycle, Gate, InCycle, backfillVars, tableVars, cycleVars
<1>5. CASE WakeUp
  BY <1>5 DEF WakeUp, TakeTrigger, Gate, InCycle, backfillVars, tableVars,
     cycleVars
<1>6. CASE StopWaiting
  BY <1>6 DEF StopWaiting, Gate, InCycle, backfillVars, tableVars, cycleVars
<1>7. CASE FetchHeadPage
  BY <1>7 DEF FetchHeadPage, Stored, Gate, InCycle, backfillVars, tableVars,
     cycleVars
<1>8. CASE FetchFails
  BY <1>8 DEF FetchFails, EndCycle, Gate, InCycle, backfillVars, tableVars,
     cycleVars
<1>9. CASE AskForBackfill
  BY <1>9 DEF AskForBackfill, MaybeStart, Gate, InCycle, backfillVars,
     tableVars, cycleVars
<1>10. CASE BackfillDecides
  BY <1>10, DecideKeeps DEF BackfillDecides, EndCycle, Gate, InCycle, cycleVars
<1>11. CASE Enrich
  BY <1>11 DEF Enrich, EndCycle, Gate, InCycle, backfillVars, tableVars,
     cycleVars
<1>12. ASSUME NEW l \in Lot, Upsert(l)
      PROVE  Gate'
  BY <1>12 DEF Upsert, WasNew, StoreLot, Gate, InCycle, backfillVars,
     tableVars, cycleVars
<1>13. CASE Dispatch
  BY <1>13 DEF Dispatch, Gate, InCycle, backfillVars, tableVars, cycleVars
<1>14. CASE CloseOk
  BY <1>14 DEF CloseOk, EndCycle, Gate, InCycle, backfillVars, tableVars,
     cycleVars
<1>15. CASE UnexpectedError
  BY <1>15 DEF UnexpectedError, EndCycle, Gate, InCycle, backfillVars,
     tableVars, cycleVars
<1>16. CASE IntervalElapses
  BY <1>16 DEF IntervalElapses, Gate, InCycle, backfillVars, tableVars,
     cycleVars
<1>17. ASSUME NEW w \in Worker, BackfillStep(w)
      PROVE  Gate'
  BY <1>17, WorkerKeeps DEF BackfillStep, Gate, InCycle, cycleVars
<1>18. ASSUME NEW w \in Worker, StopWatcher(w)
      PROVE  Gate'
  BY <1>18 DEF StopWatcher, WatchStop, tableVars, Gate, InCycle, cycleVars
<1>19. ASSUME NEW w \in Worker, StartBackfill(w)
      PROVE  Gate'
  BY <1>19 DEF StartBackfill, Start, tableVars, Gate, InCycle, cycleVars
<1>20. CASE CancelBackfill
  BY <1>20 DEF CancelBackfill, Cancel, tableVars, Gate, InCycle, cycleVars
<1>21. CASE RequestRunNow
  BY <1>21 DEF RequestRunNow, RequestRun, Gate, InCycle, backfillVars,
     tableVars, cycleVars
<1>22. CASE Boot
  BY <1>22 DEF Boot, Start, tableVars, backfillVars, Gate, InCycle, cycleVars
<1>23. CASE LifespanCancels
  BY <1>23 DEF LifespanCancels, Cancel, tableVars, Gate, InCycle, cycleVars
<1>24. CASE LifespanStops
  BY <1>24 DEF LifespanStops, Shutdown, tableVars, Gate, InCycle, cycleVars
<1>25. CASE CloseConnections
  BY <1>25 DEF CloseConnections, Gate, InCycle, backfillVars, tableVars,
     cycleVars
<1>26. CASE Restart
  BY <1>26 DEF Restart, Crash, tableVars, Gate, InCycle
<1>27. CASE UNCHANGED vars
  BY <1>27 DEF vars, cycleVars, backfillVars, tableVars, Gate, InCycle,
     backfillVars, tableVars, cycleVars
<1>28. CASE SchedulerDies
  BY <1>28 DEF SchedulerDies, Gate, InCycle, backfillVars, tableVars,
     cycleVars
<1>29. CASE OpenFails
  BY <1>29 DEF OpenFails, Gate, InCycle, backfillVars, tableVars,
     cycleVars
<1> QED
  BY <1>1, <1>2, <1>3, <1>4, <1>5, <1>6, <1>7, <1>8, <1>9, <1>10, <1>11,
     <1>12, <1>13, <1>14, <1>15, <1>16, <1>17, <1>18, <1>19, <1>20, <1>21,
     <1>22, <1>23, <1>24, <1>25, <1>26, <1>27, <1>28, <1>29
  DEF Next, SchedulerStep

LEMMA KeptStep == BackfillTypeOK /\ PassTyped /\ Kept /\ [Next]_vars => Kept'
<1> SUFFICES ASSUME BackfillTypeOK, PassTyped, Kept, [Next]_vars PROVE Kept'
  OBVIOUS
<1> USE SchedulerAssumption
<1>1. CASE SchedulerStops
  BY <1>1 DEF SchedulerStops, Kept, backfillVars, cycleVars
<1>2. CASE BeginPass
  BY <1>2 DEF BeginPass, Awaiting, Kept, backfillVars, cycleVars
<1>3. CASE SkipRegion
  BY <1>3 DEF SkipRegion, Kept, backfillVars, cycleVars
<1>4. CASE OpenCycle
  BY <1>4 DEF OpenCycle, Kept, backfillVars, cycleVars
<1>5. CASE WakeUp
  BY <1>5 DEF WakeUp, TakeTrigger, Kept, backfillVars, cycleVars
<1>6. CASE StopWaiting
  BY <1>6 DEF StopWaiting, Kept, backfillVars, cycleVars
<1>7. CASE FetchHeadPage
  BY <1>7 DEF FetchHeadPage, Stored, Kept, backfillVars, cycleVars
<1>8. CASE FetchFails
  BY <1>8 DEF FetchFails, EndCycle, Kept, backfillVars, cycleVars
<1>9. CASE AskForBackfill
  BY <1>9 DEF AskForBackfill, MaybeStart, Kept, backfillVars, cycleVars
<1>10. CASE BackfillDecides
  BY <1>10, DecideKeeps DEF BackfillDecides, EndCycle, Kept, cycleVars
<1>11. CASE Enrich
  BY <1>11 DEF Enrich, EndCycle, Kept, backfillVars, cycleVars
<1>12. ASSUME NEW l \in Lot, Upsert(l)
      PROVE  Kept'
  BY <1>12 DEF Upsert, WasNew, StoreLot, Kept, backfillVars, cycleVars
<1>13. CASE Dispatch
  BY <1>13 DEF Dispatch, Kept, backfillVars, cycleVars
<1>14. CASE CloseOk
  BY <1>14 DEF CloseOk, EndCycle, Kept, backfillVars, cycleVars
<1>15. CASE UnexpectedError
  BY <1>15 DEF UnexpectedError, EndCycle, Kept, backfillVars, cycleVars
<1>16. CASE IntervalElapses
  BY <1>16 DEF IntervalElapses, Kept, backfillVars, cycleVars
<1>17. ASSUME NEW w \in Worker, BackfillStep(w)
      PROVE  Kept'
  BY <1>17, WorkerKeeps DEF BackfillStep, Kept, cycleVars
<1>18. ASSUME NEW w \in Worker, StopWatcher(w)
      PROVE  Kept'
  BY <1>18 DEF StopWatcher, WatchStop, tableVars, Kept, cycleVars
<1>19. ASSUME NEW w \in Worker, StartBackfill(w)
      PROVE  Kept'
  BY <1>19 DEF StartBackfill, Start, tableVars, Kept, cycleVars
<1>20. CASE CancelBackfill
  BY <1>20 DEF CancelBackfill, Cancel, tableVars, Kept, cycleVars
<1>21. CASE RequestRunNow
  BY <1>21 DEF RequestRunNow, RequestRun, Kept, backfillVars, cycleVars
<1>22. CASE Boot
  BY <1>22 DEF Boot, Start, tableVars, backfillVars, Kept, cycleVars
<1>23. CASE LifespanCancels
  BY <1>23 DEF LifespanCancels, Cancel, tableVars, Kept, cycleVars
<1>24. CASE LifespanStops
  BY <1>24 DEF LifespanStops, Shutdown, tableVars, Kept, cycleVars
<1>25. CASE CloseConnections
  BY <1>25 DEF CloseConnections, Kept, backfillVars, cycleVars
<1>26. CASE Restart
  BY <1>26 DEF Restart, Crash, tableVars, Kept
<1>27. CASE UNCHANGED vars
  BY <1>27 DEF vars, cycleVars, backfillVars, tableVars, Kept, backfillVars,
     cycleVars
<1>28. CASE SchedulerDies
  BY <1>28 DEF SchedulerDies, Kept, backfillVars, cycleVars
<1>29. CASE OpenFails
  BY <1>29 DEF OpenFails, Kept, backfillVars, cycleVars
<1> QED
  BY <1>1, <1>2, <1>3, <1>4, <1>5, <1>6, <1>7, <1>8, <1>9, <1>10, <1>11,
     <1>12, <1>13, <1>14, <1>15, <1>16, <1>17, <1>18, <1>19, <1>20, <1>21,
     <1>22, <1>23, <1>24, <1>25, <1>26, <1>27, <1>28, <1>29
  DEF Next, SchedulerStep

LEMMA SentStep == BackfillTypeOK /\ PassTyped /\ Sent /\ [Next]_vars => Sent'
<1> SUFFICES ASSUME BackfillTypeOK, PassTyped, Sent, [Next]_vars PROVE Sent'
  OBVIOUS
<1> USE SchedulerAssumption, LotAssumption
<1>1. CASE SchedulerStops
  BY <1>1 DEF SchedulerStops, Sent, OneDispatchPerLot, BackfillTypeOK,
     PassTyped, backfillVars, tableVars, cycleVars
<1>2. CASE BeginPass
  BY <1>2 DEF BeginPass, Awaiting, Sent, OneDispatchPerLot, BackfillTypeOK,
     PassTyped, backfillVars, tableVars, cycleVars
<1>3. CASE SkipRegion
  BY <1>3 DEF SkipRegion, Sent, OneDispatchPerLot, BackfillTypeOK, PassTyped,
     backfillVars, tableVars, cycleVars
<1>4. CASE OpenCycle
  BY <1>4 DEF OpenCycle, Sent, OneDispatchPerLot, BackfillTypeOK, PassTyped,
     backfillVars, tableVars, cycleVars
<1>5. CASE WakeUp
  BY <1>5 DEF WakeUp, TakeTrigger, Sent, OneDispatchPerLot, BackfillTypeOK,
     PassTyped, backfillVars, tableVars, cycleVars
<1>6. CASE StopWaiting
  BY <1>6 DEF StopWaiting, Sent, OneDispatchPerLot, BackfillTypeOK, PassTyped,
     backfillVars, tableVars, cycleVars
<1>7. CASE FetchHeadPage
  BY <1>7 DEF FetchHeadPage, Stored, Sent, OneDispatchPerLot, BackfillTypeOK,
     PassTyped, backfillVars, tableVars, cycleVars
<1>8. CASE FetchFails
  BY <1>8 DEF FetchFails, EndCycle, Sent, OneDispatchPerLot, BackfillTypeOK,
     PassTyped, backfillVars, tableVars, cycleVars
<1>9. CASE AskForBackfill
  BY <1>9 DEF AskForBackfill, MaybeStart, Sent, OneDispatchPerLot,
     BackfillTypeOK, PassTyped, backfillVars, tableVars, cycleVars
<1>10. CASE BackfillDecides
  BY <1>10, DecideKeeps DEF BackfillDecides, EndCycle, Sent, OneDispatchPerLot,
     PassTyped, cycleVars
<1>11. CASE Enrich
  BY <1>11 DEF Enrich, EndCycle, Sent, OneDispatchPerLot, BackfillTypeOK,
     PassTyped, backfillVars, tableVars, cycleVars
<1>12. ASSUME NEW l \in Lot, Upsert(l)
      PROVE  Sent'
  BY <1>12 DEF Upsert, WasNew, StoreLot, Sent, OneDispatchPerLot,
     BackfillTypeOK, PassTyped, backfillVars, tableVars, cycleVars
<1>13. CASE Dispatch
  BY <1>13 DEF Dispatch, Sent, OneDispatchPerLot, BackfillTypeOK, PassTyped,
     backfillVars, tableVars, cycleVars
<1>14. CASE CloseOk
  BY <1>14 DEF CloseOk, EndCycle, Sent, OneDispatchPerLot, BackfillTypeOK,
     PassTyped, backfillVars, tableVars, cycleVars
<1>15. CASE UnexpectedError
  BY <1>15 DEF UnexpectedError, EndCycle, Sent, OneDispatchPerLot,
     BackfillTypeOK, PassTyped, backfillVars, tableVars, cycleVars
<1>16. CASE IntervalElapses
  BY <1>16 DEF IntervalElapses, Sent, OneDispatchPerLot, BackfillTypeOK,
     PassTyped, backfillVars, tableVars, cycleVars
<1>17. ASSUME NEW w \in Worker, BackfillStep(w)
      PROVE  Sent'
  BY <1>17, WorkerKeeps DEF BackfillStep, Sent, OneDispatchPerLot, PassTyped,
     cycleVars
<1>18. ASSUME NEW w \in Worker, StopWatcher(w)
      PROVE  Sent'
  BY <1>18 DEF StopWatcher, WatchStop, tableVars, Sent, OneDispatchPerLot,
     PassTyped, cycleVars
<1>19. ASSUME NEW w \in Worker, StartBackfill(w)
      PROVE  Sent'
  BY <1>19 DEF StartBackfill, Start, tableVars, Sent, OneDispatchPerLot,
     PassTyped, cycleVars
<1>20. CASE CancelBackfill
  BY <1>20 DEF CancelBackfill, Cancel, tableVars, Sent, OneDispatchPerLot,
     PassTyped, cycleVars
<1>21. CASE RequestRunNow
  BY <1>21 DEF RequestRunNow, RequestRun, Sent, OneDispatchPerLot,
     BackfillTypeOK, PassTyped, backfillVars, tableVars, cycleVars
<1>22. CASE Boot
  BY <1>22 DEF Boot, Start, tableVars, backfillVars, Sent, OneDispatchPerLot,
     PassTyped, cycleVars
<1>23. CASE LifespanCancels
  BY <1>23 DEF LifespanCancels, Cancel, tableVars, Sent, OneDispatchPerLot,
     PassTyped, cycleVars
<1>24. CASE LifespanStops
  BY <1>24 DEF LifespanStops, Shutdown, tableVars, Sent, OneDispatchPerLot,
     PassTyped, cycleVars
<1>25. CASE CloseConnections
  BY <1>25 DEF CloseConnections, Sent, OneDispatchPerLot, BackfillTypeOK,
     PassTyped, backfillVars, tableVars, cycleVars
<1>26. CASE Restart
  BY <1>26 DEF Restart, Crash, tableVars, Sent, OneDispatchPerLot, PassTyped
<1>27. CASE UNCHANGED vars
  BY <1>27 DEF vars, cycleVars, backfillVars, tableVars, Sent,
     OneDispatchPerLot, BackfillTypeOK, PassTyped, backfillVars, tableVars,
     cycleVars
<1>28. CASE SchedulerDies
  BY <1>28 DEF SchedulerDies, Sent, OneDispatchPerLot, BackfillTypeOK,
     PassTyped, backfillVars, tableVars, cycleVars
<1>29. CASE OpenFails
  BY <1>29 DEF OpenFails, Sent, OneDispatchPerLot, BackfillTypeOK,
     PassTyped, backfillVars, tableVars, cycleVars
<1> QED
  BY <1>1, <1>2, <1>3, <1>4, <1>5, <1>6, <1>7, <1>8, <1>9, <1>10, <1>11,
     <1>12, <1>13, <1>14, <1>15, <1>16, <1>17, <1>18, <1>19, <1>20, <1>21,
     <1>22, <1>23, <1>24, <1>25, <1>26, <1>27, <1>28, <1>29
  DEF Next, SchedulerStep

LEMMA CycleInvariance == Spec => [](PassTyped /\ Gate /\ Kept /\ Sent)
<1>1. Init => Gate /\ Kept /\ Sent
  BY LotAssumption DEF Init, BackfillInit, Gate, InCycle, Kept, Sent,
     OneDispatchPerLot
<1> QED
  BY <1>1, PassInvariance, BackfillIsKept, TypeCorrect, GateStep, KeptStep,
     SentStep,
     PTL DEF Spec

\* Every variable of the composition keeps its type (monitor_cycle.py, run_cycle).
THEOREM CycleTypeCorrect == Spec => []CycleTypeOK
<1>1. BackfillTypeOK /\ PassTyped /\ Sent => CycleTypeOK
  BY DEF CycleTypeOK, PassTyped, Sent
<1> QED
  BY <1>1, BackfillIsKept, TypeCorrect, CycleInvariance, PTL

\* No sentinel is lost between a pass and the wait after it (monitor_cycle.py,
\* _wait_for_next_pass).
THEOREM NoRequestIsLost == Spec => []RequestIsNotLost
<1>1. Kept => RequestIsNotLost
  BY DEF Kept, RequestIsNotLost
<1> QED
  BY <1>1, CycleInvariance, PTL

\* The gate that is read once per pass still holds when its cycle runs
\* (monitor_cycle.py, run_forever).
THEOREM GalkaComesFirst == Spec => []CyclesFollowGalka
<1>1. Gate => CyclesFollowGalka
  BY DEF Gate, CyclesFollowGalka
<1> QED
  BY <1>1, CycleInvariance, PTL

\* No lot is dispatched twice, however backfills, failed cycles and restarts
\* interleave (lots.py, upsert).
THEOREM DispatchIsUnique == Spec => []OneDispatchPerLot
BY CycleInvariance, PTL DEF Sent

-----------------------------------------------------------------------------
(* The row of a lot                                                        *)

\* What a row may be, what the tables may be.
RowType == [status : {"free", "taken"}, date_update : {"monday", "friday", NULL},
            latlon : Points, is_active : BOOLEAN,
            enrichment_status : {"pending", "failed", "done"}, first_seen : Nat]
TablesOf(db) ==
  db = [lot |-> db.lot, is_backfill |-> db.is_backfill, geo |-> db.geo,
        history |-> db.history, first |-> db.first]

LEMMA RowsAreRows == \A row \in RowType : row # NoRow
  <1>. SUFFICES ASSUME NEW row \in RowType, row = NoRow PROVE FALSE
    OBVIOUS
  <1>1. "none" \notin DOMAIN row
    BY DEF RowType
  <1>2. "none" \in DOMAIN NoRow
    BY DEF NoRow
  <1>. QED  BY <1>1, <1>2

LEMMA ListedAreRows == ASSUME NEW now \in Nat PROVE ListedLots(now) \subseteq RowType
  <1> DEFINE row(s, d) == [status |-> s, date_update |-> d, latlon |-> NoPoint,
                           is_active |-> TRUE, enrichment_status |-> "pending",
                           first_seen |-> now]
  <1>1. NoPoint \in Points
    BY DEF Points
  <1>2. ASSUME NEW s \in {"free", "taken"}, NEW d \in {"monday", NULL}
        PROVE  row(s, d) \in RowType
    <2>1. /\ d \in {"monday", "friday", NULL} /\ TRUE \in BOOLEAN
          /\ "pending" \in {"pending", "failed", "done"}
      BY Zenon
    <2>. QED  BY <1>1, <2>1, Zenon DEF RowType
  <1>3. ListedLots(now) = {row(s, d) : s \in {"free", "taken"}, d \in {"monday", NULL}}
    BY DEF ListedLots
  <1> HIDE DEF row
  <1>. QED  BY <1>2, <1>3

LEMMA EnrichedAreRows == ASSUME NEW now \in Nat PROVE EnrichedLots(now) \subseteq RowType
  <1>1. ASSUME NEW doc \in DetailPages
        PROVE  doc.detail.latlon \in Points /\ doc.detail.date_update \in {"friday", NULL}
    <2> DEFINE whole == {TRUE}
               other == {FALSE}
               none == {[latlon |-> NoPoint, date_update |-> NULL]}
    <2>0. doc \in [main : whole, detail : Detail] \cup [main : other, detail : none]
      BY DEF DetailPages
    <2>1. doc.detail \in Detail \cup none
      <3> HIDE DEF whole, other, none
      <3>. QED  BY <2>0
    <2>2. CASE doc.detail \in Detail
      BY <2>2 DEF Detail
    <2>3. CASE doc.detail = [latlon |-> NoPoint, date_update |-> NULL]
      <3>1. doc.detail.latlon = NoPoint /\ doc.detail.date_update = NULL
        BY <2>3
      <3>. QED  BY <3>1, Zenon DEF Points
    <2>. QED  BY <2>1, <2>2, <2>3
  <1>2. ASSUME NEW lot \in RowType, NEW answer, NEW doc \in DetailPages
        PROVE  enrich_one(lot, answer, doc) \in RowType
    <2> DEFINE date == IF doc.detail.date_update # NULL THEN doc.detail.date_update
                       ELSE lot.date_update
    <2>1. doc.detail.latlon \in Points /\ date \in {"monday", "friday", NULL}
      BY <1>1, <1>2 DEF RowType
    <2>2. enrich_one(lot, answer, doc) \in
            {[lot EXCEPT !.enrichment_status = "failed"],
             [lot EXCEPT !.latlon = doc.detail.latlon, !.date_update = date,
                         !.enrichment_status = "done"]}
      BY DEF enrich_one
    <2> HIDE DEF date
    <2>. QED  BY <1>2, <2>1, <2>2 DEF RowType
  <1>3. \A lot \in ListedLots(now) : lot \in RowType
    BY ListedAreRows
  <1>. QED  BY <1>2, <1>3 DEF EnrichedLots

-----------------------------------------------------------------------------
(* Its history                                                             *)

Field == {"status", "date_update"}
Value == {"free", "taken", "monday", "friday", NULL} \cup BOOLEAN
Line == [field : Field \cup {"is_active"}, old_value : Value, new_value : Value]

\* Every line about a field starts from what the field stood at, and after the
\* last it stands at a value.
Whole(db, f, value) ==
  /\ \A i \in 1..Len(db.history) :
       db.history[i].field = f => StoodAt(db, f, i - 1, db.history[i].old_value)
  /\ StoodAt(db, f, Len(db.history), value)

LEMMA OneMoreLine ==
  ASSUME NEW db, NEW new, NEW f, NEW v, NEW w, NEW line \in Line,
         db.history \in Seq(Line), Whole(db, f, v),
         new.history = Append(db.history, line), new.first = db.first,
         \/ line.field # f /\ w = v
         \/ line.field = f /\ line.old_value = v /\ line.new_value = w
  PROVE  new.history \in Seq(Line) /\ Whole(new, f, w)
  <1> DEFINE h == db.history
             k == new.history
             n == Len(db.history)
  <1>1. /\ k \in Seq(Line) /\ Len(k) = n + 1 /\ n \in Nat
        /\ \A i \in 1..n : k[i] = h[i]
        /\ k[n + 1] = line
    BY AppendProperties, LenProperties
  <1>2. ASSUME NEW m \in 0..n, NEW x, StoodAt(db, f, m, x)
        PROVE  StoodAt(new, f, m, x)
    <2>1. \A i \in 1..m : k[i] = h[i]
      BY <1>1
    <2> HIDE DEF h, k
    <2>. QED  BY <1>2, <2>1 DEF StoodAt, h, k
  <1>3. StoodAt(new, f, n + 1, w)
    <2>1. CASE line.field = f /\ line.old_value = v /\ line.new_value = w
      BY <1>1, <2>1 DEF StoodAt
    <2>2. CASE line.field # f /\ w = v
      <3>1. StoodAt(new, f, n, w)
        BY <1>1, <1>2, <2>2 DEF Whole
      <3>2. \A i \in 1..n + 1 : i \in 1..n \/ i = n + 1
        BY <1>1
      <3>. QED  BY <1>1, <2>2, <3>1, <3>2 DEF StoodAt
    <2>. QED  BY <2>1, <2>2
  <1>4. ASSUME NEW i \in 1..n + 1, k[i].field = f
        PROVE  StoodAt(new, f, i - 1, k[i].old_value)
    <2>1. CASE i \in 1..n
      <3>1. StoodAt(db, f, i - 1, k[i].old_value) /\ i - 1 \in 0..n
        BY <1>1, <1>4, <2>1 DEF Whole
      <3>. QED  BY <1>2, <3>1
    <2>2. CASE i = n + 1
      <3>1. k[i].old_value = v /\ i - 1 = n /\ n \in 0..n
        BY <1>1, <1>4, <2>2
      <3>. QED  BY <1>2, <3>1 DEF Whole
    <2>. QED  BY <1>1, <2>1, <2>2
  <1>. QED  BY <1>1, <1>3, <1>4 DEF Whole

LEMMA ChangeIsTold ==
  ASSUME NEW db, NEW new, NEW f, NEW v, NEW was, NEW lot, NEW g \in Field \cup {"is_active"},
         was[g] \in Value, lot[g] \in Value,
         db.history \in Seq(Line), Whole(db, f, v), g = f => v = was[g],
         new.history = db.history \o Change(was, lot, g), new.first = db.first
  PROVE  new.history \in Seq(Line) /\ Whole(new, f, IF g = f THEN lot[g] ELSE v)
  <1> DEFINE line == [field |-> g, old_value |-> was[g], new_value |-> lot[g]]
  <1>1. CASE was[g] = lot[g]
    <2>1. Change(was, lot, g) = <<>>
      BY <1>1 DEF Change
    <2>2. new.history = db.history
      BY <2>1, ConcatEmptySeq
    <2>. QED  BY <1>1, <2>2 DEF Whole, StoodAt
  <1>2. CASE was[g] # lot[g]
    <2>1. line \in Line /\ line.field = g /\ line.old_value = was[g] /\ line.new_value = lot[g]
      <3> HIDE DEF Value, Field
      <3>. QED  BY DEF Line
    <2>2. Change(was, lot, g) = <<line>>
      BY <1>2 DEF Change
    <2> HIDE DEF line
    <2>3. new.history = Append(db.history, line)
      BY <2>1, <2>2, AppendIsConcat
    <2>4. \/ line.field # f /\ (IF g = f THEN lot[g] ELSE v) = v
          \/ line.field = f /\ line.old_value = v /\ line.new_value = (IF g = f THEN lot[g] ELSE v)
      BY <2>1
    <2>. QED  BY <2>1, <2>3, <2>4, OneMoreLine
  <1>. QED  BY <1>1, <1>2

\* The three fields one after another.
LEMMA ChangesAreTold ==
  ASSUME NEW db, NEW new, NEW was \in RowType, NEW lot \in RowType, NEW f \in Field,
         db.history \in Seq(Line), Whole(db, f, was[f]),
         new.history = db.history \o compute_changes(was, lot), new.first = db.first
  PROVE  new.history \in Seq(Line) /\ Whole(new, f, lot[f])
  <1> DEFINE c1 == Change(was, lot, "status")
             c2 == Change(was, lot, "date_update")
             c3 == Change(was, lot, "is_active")
             db1 == [first |-> db.first, history |-> db.history \o c1]
             db2 == [first |-> db.first, history |-> (db.history \o c1) \o c2]
  <1>1. \A row \in RowType : /\ row["status"] \in Value /\ row["date_update"] \in Value
                             /\ row["is_active"] \in Value
    BY DEF RowType, Value
  <1>2. /\ "status" \in Field /\ "date_update" \in Field /\ "is_active" \notin Field
        /\ "status" # "date_update"
    BY DEF Field
  <1>3. c1 \in Seq(Line) /\ c2 \in Seq(Line) /\ c3 \in Seq(Line)
    <2>. SUFFICES ASSUME NEW g \in Field \cup {"is_active"}, was[g] \in Value, lot[g] \in Value
                  PROVE  Change(was, lot, g) \in Seq(Line)
      BY <1>1, <1>2
    <2>1. [field |-> g, old_value |-> was[g], new_value |-> lot[g]] \in Line
      <3> HIDE DEF Value, Field
      <3>. QED  BY DEF Line
    <2>. QED  BY <2>1, EmptySeq DEF Change
  <1>4. new.history = ((db.history \o c1) \o c2) \o c3
    <2>1. new.history = db.history \o ((c1 \o c2) \o c3)
      BY DEF compute_changes, TrackedFields
    <2> HIDE DEF c1, c2, c3
    <2>0. \A s, t, u \in Seq(Line) : (s \o t) \o u = s \o (t \o u)
      BY ConcatAssociative
    <2>2. c1 \o c2 \in Seq(Line) /\ db.history \o c1 \in Seq(Line)
      BY <1>3, ConcatProperties
    <2>3. db.history \o ((c1 \o c2) \o c3) = (db.history \o (c1 \o c2)) \o c3
      BY <1>3, <2>0, <2>2
    <2>4. db.history \o (c1 \o c2) = (db.history \o c1) \o c2
      BY <1>3, <2>0
    <2>. QED  BY <2>1, <2>3, <2>4
  <1>5. /\ db1.history = db.history \o c1 /\ db1.first = db.first
        /\ db2.history = db1.history \o c2 /\ db2.first = db1.first
        /\ new.history = db2.history \o c3 /\ new.first = db2.first
    BY <1>4
  <1> HIDE DEF db1, db2
  <1>6. CASE f = "status"
    <2>1. db1.history \in Seq(Line) /\ Whole(db1, f, lot[f])
      BY <1>1, <1>2, <1>5, <1>6, ChangeIsTold
    <2>2. db2.history \in Seq(Line) /\ Whole(db2, f, lot[f])
      BY <1>1, <1>2, <1>5, <1>6, <2>1, ChangeIsTold
    <2>. QED  BY <1>1, <1>2, <1>5, <1>6, <2>2, ChangeIsTold
  <1>7. CASE f = "date_update"
    <2>1. db1.history \in Seq(Line) /\ Whole(db1, f, was[f])
      BY <1>1, <1>2, <1>5, <1>7, ChangeIsTold
    <2>2. db2.history \in Seq(Line) /\ Whole(db2, f, lot[f])
      BY <1>1, <1>2, <1>5, <1>7, <2>1, ChangeIsTold
    <2>. QED  BY <1>1, <1>2, <1>5, <1>7, <2>2, ChangeIsTold
  <1>. QED  BY <1>6, <1>7 DEF Field

-----------------------------------------------------------------------------
(* The writers                                                             *)

\* The tables once the lot has been stored.
RowInv(db) ==
  /\ TablesOf(db) /\ db.lot \in RowType /\ db.first \in RowType /\ db.history \in Seq(Line)
  /\ db.geo = IF has_coords(db.lot.latlon) THEN db.lot.latlon ELSE NoPoint
  /\ \A f \in Field : Whole(db, f, db.lot[f])
  /\ db.lot.first_seen = db.first.first_seen

LEMMA GeoFollows ==
  ASSUME NEW geo, NEW old, NEW new,
         geo = IF has_coords(old) THEN old ELSE NoPoint
  PROVE  sync_geo(geo, old, new) = IF has_coords(new) THEN new ELSE NoPoint
  <1>1. CASE has_coords(new)
    BY <1>1 DEF sync_geo
  <1>2. CASE ~has_coords(new)
    BY <1>2 DEF sync_geo
  <1>. QED  BY <1>1, <1>2

\* The first write stores the row and its point, and no history.
LEMMA Inserted ==
  ASSUME NEW lot \in RowType, NEW backfill
  PROVE  RowInv(upsert(EmptyTables, lot, backfill))
  <1> DEFINE new == upsert(EmptyTables, lot, backfill)
             geo == sync_geo(NoPoint, NoPoint, lot.latlon)
  <1>1. new = [EmptyTables EXCEPT !.lot = lot, !.is_backfill = backfill, !.first = lot,
                                  !.geo = sync_geo(@, NoPoint, lot.latlon)]
    BY DEF upsert, EmptyTables
  <1>2. new = [lot |-> lot, is_backfill |-> backfill, geo |-> geo, history |-> <<>>,
               first |-> lot]
    BY <1>1 DEF EmptyTables
  <1>3. geo = IF has_coords(lot.latlon) THEN lot.latlon ELSE NoPoint
    <2>1. NoPoint = IF has_coords(NoPoint) THEN NoPoint ELSE NoPoint
      OBVIOUS
    <2>. QED  BY <2>1, GeoFollows
  <1> HIDE DEF new, geo
  <1>4. /\ new.lot = lot /\ new.first = lot /\ new.geo = geo /\ new.history = <<>>
        /\ TablesOf(new)
    BY <1>2 DEF TablesOf
  <1>5. new.history \in Seq(Line) /\ Len(new.history) = 0
    BY <1>4, EmptySeq
  <1>6. ASSUME NEW f \in Field PROVE Whole(new, f, new.lot[f])
    <2>1. \A n \in Nat : n = 0 => 1..n = {}
      OBVIOUS
    <2>. QED  BY <1>4, <1>5 DEF Whole, StoodAt
  <1>. QED  BY <1>3, <1>4, <1>5, <1>6 DEF RowInv, new

\* Every later one tells what it changes of the tracked fields.
LEMMA Updated ==
  ASSUME NEW db, RowInv(db), NEW lot \in RowType, NEW backfill
  PROVE  RowInv(upsert(db, lot, backfill))
  <1> DEFINE new == upsert(db, lot, backfill)
             row == [lot EXCEPT !.first_seen = db.lot.first_seen]
             geo == sync_geo(db.geo, db.lot.latlon, lot.latlon)
             lines == db.history \o compute_changes(db.lot, lot)
  <1>1. db.lot # NoRow /\ TablesOf(db) /\ db.lot \in RowType /\ db.first \in RowType
    BY RowsAreRows DEF RowInv
  <1>2. new = [db EXCEPT !.lot = row, !.history = lines, !.geo = geo]
    BY <1>1 DEF upsert
  <1>3. new = [lot |-> row, is_backfill |-> db.is_backfill, geo |-> geo, history |-> lines,
               first |-> db.first]
    <2> HIDE DEF row, geo, lines, new
    <2>. QED  BY <1>1, <1>2 DEF TablesOf
  <1>4. geo = IF has_coords(lot.latlon) THEN lot.latlon ELSE NoPoint
    BY GeoFollows DEF RowInv
  <1>5. /\ row \in RowType /\ row.latlon = lot.latlon /\ row.first_seen = db.lot.first_seen
        /\ \A f \in Field : row[f] = lot[f]
    BY <1>1 DEF RowType, Field
  <1> HIDE DEF new, row, geo, lines
  <1>6. /\ new.lot = row /\ new.first = db.first /\ new.geo = geo /\ new.history = lines
        /\ TablesOf(new)
    BY <1>3 DEF TablesOf
  <1>7. ASSUME NEW f \in Field
        PROVE  new.history \in Seq(Line) /\ Whole(new, f, new.lot[f])
    <2>1. Whole(db, f, db.lot[f]) /\ db.history \in Seq(Line)
      BY DEF RowInv
    <2>2. new.history = db.history \o compute_changes(db.lot, lot)
      BY <1>6 DEF lines
    <2>3. new.history \in Seq(Line) /\ Whole(new, f, lot[f])
      BY <1>1, <1>6, <2>1, <2>2, ChangesAreTold
    <2>. QED  BY <1>5, <1>6, <2>3
  <1>8. new.history \in Seq(Line)
    BY <1>7 DEF Field
  <1>9. new.lot.first_seen = new.first.first_seen
    BY <1>5, <1>6 DEF RowInv
  <1>. QED  BY <1>1, <1>4, <1>5, <1>6, <1>7, <1>8, <1>9 DEF RowInv, new

\* The full scan's mark touches neither point nor history.
LEMMA Marked == ASSUME NEW db, RowInv(db) PROVE RowInv(mark_inactive(db))
  <1> DEFINE new == mark_inactive(db)
             row == [db.lot EXCEPT !.is_active = FALSE]
  <1>1. TablesOf(db) /\ db.lot \in RowType
    BY DEF RowInv
  <1>2. new = [db EXCEPT !.lot = row]
    BY DEF mark_inactive
  <1>3. /\ row \in RowType /\ row.latlon = db.lot.latlon /\ row.first_seen = db.lot.first_seen
        /\ \A f \in Field : row[f] = db.lot[f]
    BY <1>1 DEF RowType, Field
  <1> HIDE DEF new, row
  <1>4. /\ new.lot = row /\ new.first = db.first /\ new.geo = db.geo
        /\ new.history = db.history /\ TablesOf(new)
    BY <1>1, <1>2 DEF TablesOf
  <1>5. ASSUME NEW f \in Field PROVE Whole(new, f, new.lot[f])
    BY <1>3, <1>4 DEF RowInv, Whole, StoodAt
  <1>. QED  BY <1>3, <1>4, <1>5 DEF RowInv, new

LEMMA WrittenKeeps ==
  ASSUME NEW db, db = EmptyTables \/ RowInv(db), NEW now \in Nat, NEW new \in Written(db, now)
  PROVE  RowInv(new)
  <1>1. EnrichedLots(now) \subseteq RowType /\ ListedLots(now) \subseteq RowType
    BY EnrichedAreRows, ListedAreRows
  <1>2. \/ \E lot \in RowType : \E backfill : new = upsert(db, lot, backfill)
        \/ db.lot # NoRow /\ new = mark_inactive(db)
    BY <1>1 DEF Written
  <1>3. CASE db = EmptyTables
    <2>1. db.lot = NoRow
      BY <1>3 DEF EmptyTables
    <2>. QED  BY <1>2, <1>3, <2>1, Inserted
  <1>4. CASE RowInv(db)
    BY <1>2, <1>4, Updated, Marked
  <1>. QED  BY <1>3, <1>4

-----------------------------------------------------------------------------
(* Their transactions in every order                                       *)

\* A set of numbers that is not empty has a least one.
LEMMA LeastNumber ==
  ASSUME NEW T \in SUBSET Nat, T # {}
  PROVE  \E i \in T : \A j \in T : i <= j
  <1> DEFINE R == OpToRel(<, Nat)
  <1>1. IsWellFoundedOn(R, Nat)
    BY NatLessThanWellFounded
  <1>2. PICK x \in T : \A y \in T : ~(<<y, x>> \in R)
    BY <1>1, WFMin
  <1>3. ASSUME NEW y \in T PROVE x <= y
    <2>1. ~(y < x)
      BY <1>2, Zenon DEF OpToRel
    <2>. QED  BY <2>1
  <1>. QED  BY <1>3

\* The recursion is one that a function can follow, up to any number.
After(f, n) == IF n = 0 THEN {EmptyTables} ELSE UNION {Written(db, n) : db \in f[n - 1]}

LEMMA TablesExist == \A m \in Nat : \E f : f = [n \in 0..m |-> After(f, n)]
  <1> DEFINE Follows(f, m) == f = [n \in 0..m |-> After(f, n)]
             Missing == {m \in Nat : ~\E f : Follows(f, m)}
  <1>1. ASSUME Missing # {} PROVE FALSE
    <2>1. PICK m \in Missing : \A k \in Missing : m <= k
      <3>1. Missing \in SUBSET Nat
        OBVIOUS
      <3> HIDE DEF Missing
      <3>. QED  BY <1>1, <3>1, LeastNumber
    <2>2. m \in Nat /\ ~\E f : Follows(f, m)
      OBVIOUS
    <2>3. CASE m = 0
      <3> DEFINE f == [n \in 0..0 |-> {EmptyTables}]
      <3>1. f = [n \in 0..0 |-> After(f, n)]
        BY DEF After
      <3>. QED  BY <2>2, <2>3, <3>1
    <2>4. CASE m # 0
      <3>1. PICK g : Follows(g, m - 1)
        BY <2>1, <2>2, <2>4
      <3> DEFINE f == [n \in 0..m |-> IF n = m THEN After(g, m) ELSE g[n]]
      <3>2. \A n \in 0..m - 1 : f[n] = g[n] /\ g[n] = After(g, n)
        BY <2>2, <3>1
      <3>3. f[m] = After(g, m) /\ f = [n \in 0..m |-> f[n]]
        BY <2>2
      <3> HIDE DEF f
      <3>4. \A n \in 0..m : f[n] = After(f, n)
        <4>1. \A n \in 0..m : After(f, n) = After(g, n)
          <5>. SUFFICES ASSUME NEW n \in 0..m, n # 0 PROVE f[n - 1] = g[n - 1]
            BY DEF After
          <5>. QED  BY <2>2, <3>2
        <4>. QED  BY <2>2, <3>2, <3>3, <4>1
      <3>5. Follows(f, m)
        BY <3>3, <3>4
      <3>. QED  BY <2>2, <3>5
    <2>. QED  BY <2>3, <2>4
  <1>. QED  BY <1>1

LEMMA TablesAre == \A n \in 0..WRITES : Tables[n] = After(Tables, n)
  <1>1. Tables = CHOOSE f : f = [n \in 0..WRITES |-> After(f, n)]
    BY DEF Tables, After
  <1>2. Tables = [n \in 0..WRITES |-> After(Tables, n)]
    BY <1>1, TablesExist, WritesAssumption
  <1>. QED  BY <1>2, Zenon

\* Whatever was written, and in whatever order.
LEMMA RowsStayWhole == \A n \in 1..WRITES : \A db \in Tables[n] : RowInv(db)
  <1> DEFINE Bad == {n \in 1..WRITES : ~\A db \in Tables[n] : RowInv(db)}
  <1>1. ASSUME Bad # {} PROVE FALSE
    <2>1. PICK n \in Bad : \A k \in Bad : n <= k
      <3>1. Bad \in SUBSET Nat
        OBVIOUS
      <3> HIDE DEF Bad
      <3>. QED  BY <1>1, <3>1, LeastNumber
    <2>2. /\ n \in 1..WRITES /\ n - 1 \in 0..WRITES /\ n \in 0..WRITES /\ n \in Nat /\ n # 0
          /\ ~\A db \in Tables[n] : RowInv(db)
      BY WritesAssumption
    <2>3. Tables[n] = UNION {Written(db, n) : db \in Tables[n - 1]}
      BY <2>2, TablesAre DEF After
    <2>4. ASSUME NEW db \in Tables[n - 1] PROVE db = EmptyTables \/ RowInv(db)
      <3>1. CASE n - 1 = 0
        <4>1. Tables[n - 1] = {EmptyTables}
          BY <2>2, <3>1, TablesAre DEF After
        <4>. QED  BY <2>4, <4>1
      <3>2. CASE n - 1 # 0
        BY <2>1, <2>2, <2>4, <3>2
      <3>. QED  BY <3>1, <3>2
    <2>5. \A db \in Tables[n - 1] : \A new \in Written(db, n) : RowInv(new)
      BY <2>2, <2>4, WrittenKeeps
    <2>. QED  BY <2>2, <2>3, <2>5
  <1>. QED  BY <1>1

LEMMA PointsMirrorRows == GeoMirrorsRow
  BY RowsStayWhole DEF GeoMirrorsRow, RowInv

LEMMA HistoryIsKept == PastIsKept
  BY RowsStayWhole DEF PastIsKept, RowInv, Whole, Field

\* The point of a lot is that of its row after any number of upserts and marks, in
\* whatever order (lots.py, _sync_geo).
THEOREM PointsAreRows == Spec => []PointsFollowRows
  <1>1. PointsFollowRows
    BY PointsMirrorRows DEF PointsFollowRows
  <1>. QED  BY <1>1, PTL

\* The history leads from the insertion to the row without a gap, and the lot keeps
\* the time of its discovery (lots.py, upsert).
THEOREM PastExplainsRow == Spec => []HistoryIsWhole
  <1>1. HistoryIsWhole
    BY HistoryIsKept DEF HistoryIsWhole
  <1>. QED  BY <1>1, PTL
=============================================================================
