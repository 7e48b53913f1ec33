--------------------------- MODULE BackfillService ---------------------------
(***************************************************************************)
(* BackfillService (services/backfill.py): the single-flight walk over the *)
(* donor's catalogue that fills the lots table, its three entry points     *)
(* (start, start_resume, maybe_start), cancel, the progress the status     *)
(* page shows, and the two keys it persists, backfill.done and             *)
(* backfill.total_last.                                                    *)
(*                                                                         *)
(* Any number of threads call in at once.  A run is a thread of its own,   *)
(* and its last steps (clear the single-flight flag, then clear the        *)
(* progress flag) can overlap the first steps of the next run.             *)
(***************************************************************************)
EXTENDS Integers, FiniteSets

CONSTANTS Caller,          \* threads that call maybe_start
          Worker,          \* backfill-worker threads
          Region,          \* macro-regions of the settings
          Lot,             \* lots of the donor
          Total,           \* record counts the donor may show
          PageSize,        \* rows of a page
          MaxPages,        \* _BACKFILL_MAX_PAGES
          DeltaThreshold,  \* _DELTA_THRESHOLD
          None

ASSUME NoneAssumption == None \notin Region /\ None \notin Total
ASSUME TotalAssumption == Total \subseteq Nat
ASSUME SizeAssumption ==
  PageSize \in Nat /\ MaxPages \in Nat \ {0} /\ DeltaThreshold \in Nat
ASSUME LotAssumption == IsFiniteSet(Lot) /\ None \notin Lot

VARIABLES
  running,             \* _running
  stop,                \* _stop_event is set
  shutdown,            \* the supervisor's stop_event is set
  run,                 \* what each worker thread is doing
  progress,            \* _progress: the fields status() derives its answer from
  regions_in_backfill, \* MonitorCycleService._regions_in_backfill
  trigger,             \* MonitorCycleService._trigger_q holds its sentinel
  call,                \* maybe_start call of each caller
  done,                \* state table: backfill.done
  total_last,          \* state table: backfill.total_last
  lots                 \* lots table: enrichment of each lot

tableVars == <<done, total_last, lots>>
backfillVars == <<running, stop, shutdown, run, progress, regions_in_backfill,
                  trigger, call, done, total_last, lots>>

NoRun == [pc |-> "idle", region |-> None, supervised |-> FALSE,
          combined |-> FALSE, rows |-> {}, pages |-> 0, seen |-> None,
          errored |-> FALSE, cut |-> FALSE]

NoCall == [pc |-> "idle", region |-> None, total |-> None,
           decision |-> "skip_none"]

BackfillInit ==
  /\ running = FALSE
  /\ stop = FALSE
  /\ shutdown = FALSE
  /\ run = [w \in Worker |-> NoRun]
  /\ progress = [running |-> FALSE, done |-> FALSE]
  /\ regions_in_backfill = {}
  /\ trigger = FALSE
  /\ call = [c \in Caller |-> NoCall]
  /\ done = FALSE
  /\ total_last = None
  /\ lots = [l \in Lot |-> "absent"]

Set(w, r) == run' = [run EXCEPT ![w] = r]

\* Between the acquisition of the single-flight flag and its release.
Active(w) == run[w].pc \notin {"idle", "clear"}

\* The region of a walking worker is in the skip-set.
Walking(w) == run[w].pc \in {"fetch", "row"}

-----------------------------------------------------------------------------
(* start, start_resume, maybe_start, cancel                                *)

\* The flag is taken and the stop event replaced in one critical section, and
\* the worker thread starts.
Launch(w, region, supervised) ==
  /\ run[w].pc = "idle"
  /\ running' = TRUE
  /\ stop' = FALSE
  /\ Set(w, [NoRun EXCEPT !.pc = "begin", !.region = region,
                          !.supervised = supervised])

\* Mutant: the flag is not looked at.
Start_NoFlight(w, supervised) ==
  /\ Launch(w, None, supervised)
  /\ UNCHANGED <<shutdown, progress, regions_in_backfill, trigger, call, tableVars>>

\* start: the route hands in an event nobody sets, login and resume the
\* supervisor's.  While a run is active the call returns False.
Start(w, supervised) ==
  /\ ~running
  /\ Launch(w, None, supervised)
  /\ UNCHANGED <<shutdown, progress, regions_in_backfill, trigger, call, tableVars>>

\* What the lots the donor has beyond the reference call for.
Decision(total, delta, hint) ==
  IF total = None THEN "skip_none"
  ELSE IF delta < 0 THEN "skip_negative"
  ELSE IF delta > hint + DeltaThreshold THEN "trigger"
  ELSE "skip_threshold"

\* maybe_start reads backfill.total_last before it takes the lock; without one
\* the number of stored lots stands in.  The decision is fixed by that reading.
MaybeStart(c, region, total, count, hint) ==
  /\ call[c].pc = "idle"
  /\ LET reference == IF total_last # None THEN total_last ELSE count
     IN  call' = [call EXCEPT ![c] = [pc |-> "decide", region |-> region,
           total |-> total, decision |-> Decision(total, total - reference, hint)]]
  /\ UNCHANGED <<running, stop, shutdown, run, progress, regions_in_backfill,
                 trigger, tableVars>>

Return(c) == call' = [call EXCEPT ![c] = NoCall]

\* skip_none, skip_running, skip_threshold.
DecideSkip(c) ==
  /\ call[c].pc = "decide"
  /\ running \/ call[c].decision \in {"skip_none", "skip_threshold"}
  /\ Return(c)
  /\ UNCHANGED <<running, stop, shutdown, run, progress, regions_in_backfill,
                 trigger, tableVars>>

\* skip_negative: the new baseline is written after the lock is released.
DecideNegative(c) ==
  /\ call[c].pc = "decide"
  /\ ~running /\ call[c].decision = "skip_negative"
  /\ call' = [call EXCEPT ![c].pc = "baseline"]
  /\ UNCHANGED <<running, stop, shutdown, run, progress, regions_in_backfill,
                 trigger, tableVars>>

\* The write may raise, and the call with it.
WriteBaseline(c) ==
  /\ call[c].pc = "baseline"
  /\ total_last' \in {call[c].total, total_last}
  /\ Return(c)
  /\ UNCHANGED <<running, stop, shutdown, run, progress, regions_in_backfill,
                 trigger, done, lots>>

DecideTrigger(c, w) ==
  /\ call[c].pc = "decide"
  /\ ~running /\ call[c].decision = "trigger"
  /\ Launch(w, call[c].region, TRUE)
  /\ Return(c)
  /\ UNCHANGED <<shutdown, progress, regions_in_backfill, trigger, tableVars>>

Decide(c) ==
  DecideSkip(c) \/ DecideNegative(c) \/ WriteBaseline(c)
    \/ \E w \in Worker : DecideTrigger(c, w)

Cancel ==
  /\ stop' = TRUE
  /\ UNCHANGED <<running, shutdown, run, progress, regions_in_backfill, trigger,
                 call, tableVars>>

\* ThreadSupervisor.shutdown sets the event every supervised thread polls.
Shutdown ==
  /\ shutdown' = TRUE
  /\ UNCHANGED <<running, stop, run, progress, regions_in_backfill, trigger,
                 call, tableVars>>

-----------------------------------------------------------------------------
(* _run                                                                    *)

\* The progress is replaced; the region comes from the caller or the settings.
Begin(w) ==
  /\ run[w].pc = "begin"
  /\ \E r \in IF run[w].region = None THEN Region ELSE {run[w].region} :
       Set(w, [run[w] EXCEPT !.pc = "check", !.region = r])
  /\ progress' = [running |-> TRUE, done |-> FALSE]
  /\ UNCHANGED <<running, stop, shutdown, regions_in_backfill, trigger, call, tableVars>>

\* The stop-watcher thread polls both events.
WatchStop(w) ==
  /\ Active(w) /\ run[w].pc # "begin" /\ ~run[w].combined
  /\ stop \/ (run[w].supervised /\ shutdown)
  /\ Set(w, [run[w] EXCEPT !.combined = TRUE])
  /\ UNCHANGED <<running, stop, shutdown, progress, regions_in_backfill,
                 trigger, call, tableVars>>

CancelledBeforeStart(w) ==
  /\ run[w].pc = "check" /\ run[w].combined
  /\ Set(w, [run[w] EXCEPT !.pc = "settle", !.cut = TRUE])
  /\ UNCHANGED <<running, stop, shutdown, progress, regions_in_backfill,
                 trigger, call, tableVars>>

MarkRegion(w) ==
  /\ run[w].pc = "check" /\ ~run[w].combined
  /\ regions_in_backfill' = regions_in_backfill \cup {run[w].region}
  /\ Set(w, [run[w] EXCEPT !.pc = "fetch"])
  /\ UNCHANGED <<running, stop, shutdown, progress, trigger, call, tableVars>>

\* Mutant: the region is cleared on the normal way out only.
EndWalk_NoFinally(w, outcome) ==
  /\ regions_in_backfill' = IF outcome.errored THEN regions_in_backfill
                            ELSE regions_in_backfill \ {run[w].region}
  /\ Set(w, [outcome EXCEPT !.pc = "settle", !.rows = {}])

\* The finally clause clears the region however the walk ends.
EndWalk(w, outcome) ==
  /\ regions_in_backfill' = regions_in_backfill \ {run[w].region}
  /\ Set(w, [outcome EXCEPT !.pc = "settle", !.rows = {}])

\* PaginatedListFetcher.iterate, before a page and in the pause between pages.
StopWalk(w) ==
  /\ Walking(w) /\ run[w].combined
  /\ EndWalk(w, [run[w] EXCEPT !.cut = TRUE])
  /\ UNCHANGED <<running, stop, shutdown, progress, trigger, call, tableVars>>

\* The donor's total counts from the first page showing one.
Shown(r, total) == [r EXCEPT !.seen = IF @ = None THEN total ELSE @]

\* Mutant: the walk is not bounded.
FetchPage_NoLimit(w) ==
  /\ run[w].pc = "fetch" /\ ~run[w].combined
  /\ \E rows \in (SUBSET Lot) \ {{}}, total \in Total \cup {None} :
       /\ Cardinality(rows) <= PageSize
       /\ Set(w, [Shown(run[w], total) EXCEPT !.pc = "row", !.rows = rows,
                    !.pages = IF @ < MaxPages - 1 THEN @ + 1 ELSE @])
  /\ UNCHANGED <<running, stop, shutdown, progress, regions_in_backfill, trigger,
                 call, tableVars>>

\* A page with rows.
FetchPage(w) ==
  /\ run[w].pc = "fetch" /\ ~run[w].combined
  /\ \E rows \in (SUBSET Lot) \ {{}}, total \in Total \cup {None} :
       /\ Cardinality(rows) <= PageSize
       /\ Set(w, [Shown(run[w], total) EXCEPT !.pc = "row", !.rows = rows,
                                              !.pages = @ + 1])
  /\ UNCHANGED <<running, stop, shutdown, progress, regions_in_backfill, trigger,
                 call, tableVars>>

\* An empty page, or an unexpected error of the parser: the iterator returns.
Exhausted(w) ==
  /\ run[w].pc = "fetch" /\ ~run[w].combined
  /\ \E total \in Total \cup {None} : EndWalk(w, Shown(run[w], total))
  /\ UNCHANGED <<running, stop, shutdown, progress, trigger, call, tableVars>>

\* Network error, expired session, ParseBugError: the iterator raises.
WalkFails(w) ==
  /\ run[w].pc = "fetch" /\ ~run[w].combined
  /\ EndWalk(w, [run[w] EXCEPT !.errored = TRUE])
  /\ UNCHANGED <<running, stop, shutdown, progress, trigger, call, tableVars>>

\* An upsert takes no account of what the row held: the list page has no
\* details, so a lot enriched before is pending again.
UpsertRow(w) ==
  /\ run[w].pc = "row" /\ ~run[w].combined
  /\ \E l \in run[w].rows :
       /\ lots' = [lots EXCEPT ![l] = "pending"]
       /\ Set(w, [run[w] EXCEPT !.rows = @ \ {l}])
  /\ UNCHANGED <<running, stop, shutdown, progress, regions_in_backfill, trigger,
                 call, done, total_last>>

\* A row that cannot be converted or stored is logged and left out.
SkipRow(w) ==
  /\ run[w].pc = "row" /\ ~run[w].combined
  /\ \E l \in run[w].rows : Set(w, [run[w] EXCEPT !.rows = @ \ {l}])
  /\ UNCHANGED <<running, stop, shutdown, progress, regions_in_backfill, trigger,
                 call, tableVars>>

\* A lot older than the window ends the walk, and so does the last page.
WindowEnds(w) ==
  /\ run[w].pc = "row" /\ ~run[w].combined
  /\ run[w].rows # {} \/ run[w].pages = MaxPages
  /\ EndWalk(w, run[w])
  /\ UNCHANGED <<running, stop, shutdown, progress, trigger, call, tableVars>>

NextPage(w) ==
  /\ run[w].pc = "row"
  /\ run[w].rows = {} /\ run[w].pages < MaxPages
  /\ Set(w, [run[w] EXCEPT !.pc = "fetch"])
  /\ UNCHANGED <<running, stop, shutdown, progress, regions_in_backfill, trigger,
                 call, tableVars>>

\* Mutant: the external event is not looked at.
Cancelled_InternalOnly(w) == stop

\* Both events are read themselves: the combined one lags behind them.
Cancelled(w) == stop \/ (run[w].supervised /\ shutdown)

Succeed(w) ==
  /\ run[w].pc = "settle"
  /\ ~Cancelled(w) /\ ~run[w].errored
  /\ progress' = [progress EXCEPT !.done = TRUE]
  /\ Set(w, [run[w] EXCEPT !.pc = "galka"])
  /\ UNCHANGED <<running, stop, shutdown, regions_in_backfill, trigger, call, tableVars>>

GiveUp(w) ==
  /\ run[w].pc = "settle"
  /\ Cancelled(w) \/ run[w].errored
  /\ stop' = TRUE
  /\ Set(w, [run[w] EXCEPT !.pc = "release"])
  /\ UNCHANGED <<running, shutdown, progress, regions_in_backfill, trigger, call, tableVars>>

SetDone(w) ==
  /\ run[w].pc = "galka"
  /\ done' = TRUE
  /\ Set(w, [run[w] EXCEPT !.pc = "total"])
  /\ UNCHANGED <<running, stop, shutdown, progress, regions_in_backfill, trigger,
                 call, total_last, lots>>

SetTotal(w) ==
  /\ run[w].pc = "total"
  /\ total_last' = IF run[w].seen # None THEN run[w].seen ELSE total_last
  /\ Set(w, [run[w] EXCEPT !.pc = "wake"])
  /\ UNCHANGED <<running, stop, shutdown, progress, regions_in_backfill, trigger,
                 call, done, lots>>

\* A write to the state table raises: the run ends, its watcher is not told.
StateWriteFails(w) ==
  /\ run[w].pc \in {"galka", "total"}
  /\ Set(w, [run[w] EXCEPT !.pc = "release"])
  /\ UNCHANGED <<running, stop, shutdown, progress, regions_in_backfill, trigger,
                 call, tableVars>>

\* request_run_now, then the run's own stop event lets the watcher go.
WakeMonitor(w) ==
  /\ run[w].pc = "wake"
  /\ trigger' = TRUE
  /\ stop' = TRUE
  /\ Set(w, [run[w] EXCEPT !.pc = "release"])
  /\ UNCHANGED <<running, shutdown, progress, regions_in_backfill, call, tableVars>>

Release(w) ==
  /\ run[w].pc = "release"
  /\ running' = FALSE
  /\ Set(w, [NoRun EXCEPT !.pc = "clear"])
  /\ UNCHANGED <<stop, shutdown, progress, regions_in_backfill, trigger, call, tableVars>>

\* Mutant: only a run that succeeded clears the flag.
ClearProgress_IfDone(w) ==
  /\ run[w].pc = "clear"
  /\ progress' = [progress EXCEPT !.running = @ /\ ~progress.done]
  /\ Set(w, NoRun)
  /\ UNCHANGED <<running, stop, shutdown, regions_in_backfill, trigger, call, tableVars>>

\* The worker clears the flag of whatever _progress is by then.
ClearProgress(w) ==
  /\ run[w].pc = "clear"
  /\ progress' = [progress EXCEPT !.running = FALSE]
  /\ Set(w, NoRun)
  /\ UNCHANGED <<running, stop, shutdown, regions_in_backfill, trigger, call, tableVars>>

WorkerStep(w) ==
  \/ Begin(w) \/ CancelledBeforeStart(w) \/ MarkRegion(w) \/ StopWalk(w)
  \/ FetchPage(w) \/ Exhausted(w) \/ WalkFails(w)
  \/ UpsertRow(w) \/ SkipRow(w) \/ WindowEnds(w) \/ NextPage(w)
  \/ Succeed(w) \/ GiveUp(w) \/ SetDone(w) \/ SetTotal(w) \/ StateWriteFails(w)
  \/ WakeMonitor(w) \/ Release(w) \/ ClearProgress(w)

-----------------------------------------------------------------------------
\* The process dies: what is in memory is lost, the tables stay.
Crash ==
  /\ running' = FALSE /\ stop' = FALSE /\ shutdown' = FALSE
  /\ run' = [w \in Worker |-> NoRun]
  /\ progress' = [running |-> FALSE, done |-> FALSE]
  /\ regions_in_backfill' = {}
  /\ trigger' = FALSE
  /\ call' = [c \in Caller |-> NoCall]
  /\ UNCHANGED tableVars

\* The scheduler consumes the sentinel.
TakeTrigger ==
  /\ trigger /\ trigger' = FALSE
  /\ UNCHANGED <<running, stop, shutdown, run, progress, regions_in_backfill,
                 call, tableVars>>

\* POST /cycle/run, like a backfill's end, leaves the one sentinel that fits.
RequestRun ==
  /\ trigger' = TRUE
  /\ UNCHANGED <<running, stop, shutdown, run, progress, regions_in_backfill,
                 call, tableVars>>

\* The monitor cycle stores a lot, with its details or without.
StoreLot(l) ==
  /\ \E details \in {"enriched", "pending"} : lots' = [lots EXCEPT ![l] = details]
  /\ UNCHANGED <<running, stop, shutdown, run, progress, regions_in_backfill,
                 trigger, call, done, total_last>>

\* The count of stored lots has one more than those followed here.
AskAnything(c) ==
  \E region \in Region, total \in Total \cup {None}, hint \in 0..PageSize,
     count \in 0..(Cardinality({l \in Lot : lots[l] # "absent"}) + 1) :
    MaybeStart(c, region, total, count, hint)

BackfillNext ==
  \/ \E w \in Worker : WorkerStep(w) \/ WatchStop(w)
                         \/ \E supervised \in BOOLEAN : Start(w, supervised)
  \/ \E c \in Caller : AskAnything(c) \/ Decide(c)
  \/ Cancel \/ Shutdown \/ Crash \/ TakeTrigger \/ RequestRun
  \/ \E l \in Lot : StoreLot(l)

\* A worker is not suspended for good, and every HTTP request times out.  The
\* end of a run does not depend on the stop-watcher or on who asked for it.
BackfillFairness == \A w \in Worker : WF_backfillVars(WorkerStep(w))

BackfillSpec == BackfillInit /\ [][BackfillNext]_backfillVars
FairBackfillSpec == BackfillSpec /\ BackfillFairness
-----------------------------------------------------------------------------
(* Properties                                                              *)

RunType ==
  [pc : {"idle", "begin", "check", "fetch", "row", "settle", "galka", "total",
         "wake", "release", "clear"},
   region : Region \cup {None}, supervised : BOOLEAN, combined : BOOLEAN,
   rows : SUBSET Lot, pages : 0..MaxPages, seen : Total \cup {None},
   errored : BOOLEAN, cut : BOOLEAN]

CallType ==
  [pc : {"idle", "decide", "baseline"}, region : Region \cup {None},
   total : Total \cup {None},
   decision : {"skip_none", "skip_negative", "skip_threshold", "trigger"}]

BackfillTypeOK ==
  /\ running \in BOOLEAN /\ stop \in BOOLEAN /\ shutdown \in BOOLEAN
  /\ run \in [Worker -> RunType]
  /\ progress \in [running : BOOLEAN, done : BOOLEAN]
  /\ regions_in_backfill \subseteq Region
  /\ trigger \in BOOLEAN /\ done \in BOOLEAN
  /\ call \in [Caller -> CallType]
  /\ total_last \in Total \cup {None}
  /\ lots \in [Lot -> {"absent", "pending", "enriched"}]

\* At most one backfill runs, whichever of the three entry points started it,
\* and is_running() says so exactly (backfill.py, "Single-flight").
SingleFlight ==
  /\ running <=> \E w \in Worker : Active(w)
  /\ \A v, w \in Worker : Active(v) /\ Active(w) => v = w

\* The skip-set the scheduler reads holds the regions being walked and no
\* other: no exit of a run leaves one behind, which would silence its region.
SkipSetIsExact == regions_in_backfill = {run[w].region : w \in {v \in Worker : Walking(v)}}

\* backfill.done and backfill.total_last come from a run that no cancel, no
\* shutdown and no error cut short, although the event the walk obeys and the
\* events the verdict reads are different ones.
VerdictIsSound ==
  \A w \in Worker :
    run[w].pc \in {"galka", "total", "wake"} => ~run[w].cut /\ ~run[w].errored

\* Two runs may overlap at their ends, and the end of the older clears the flag
\* of the younger; but status() never answers "running" for good, with no worker
\* left to clear it (backfill.py, the finally clauses of _worker).
ProgressHasRun == progress.running => \E w \in Worker : run[w].pc # "idle"

\* The skip-set, told apart by the worker that walks.
SkipSet ==
  /\ \A w \in Worker : Walking(w) => regions_in_backfill = {run[w].region}
  /\ (\A w \in Worker : ~Walking(w)) => regions_in_backfill = {}

\* A run past its first step knows its region, and has pages left to fetch.
RunIsKnown ==
  \A w \in Worker :
    /\ run[w].pc \in {"begin", "check"} => run[w].pages = 0
    /\ run[w].pc \in {"check", "fetch", "row"} => run[w].region \in Region
    /\ run[w].pc = "fetch" => run[w].pages < MaxPages

\* What stops a walk stays set until the verdict is spoken: the stop event is
\* replaced only by a launch, and a launch needs the flag.
CutHasCause ==
  \A w \in Worker : Active(w) /\ (run[w].combined \/ run[w].cut) => Cancelled(w)

IInv ==
  /\ BackfillTypeOK /\ SingleFlight /\ SkipSet
  /\ RunIsKnown /\ CutHasCause /\ VerdictIsSound /\ ProgressHasRun

\* Every run ends, and with it the hold on the flag and the skip-set.
RunsEnd == running ~> ~running
=============================================================================
