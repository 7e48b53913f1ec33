----------------------------- MODULE MonitorCycle -----------------------------
(***************************************************************************)
(* The scheduler of MonitorCycleService (services/monitor_cycle.py) beside *)
(* the backfill it starts, waits for and is woken by, and the lifespan     *)
(* (app.py) that starts and stops both.                                    *)
(*                                                                         *)
(* A pass reads the gate (backfill.done) and the skip-set once, then runs  *)
(* a cycle: open the cycles row, fetch the head page, let maybe_start      *)
(* decide on a backfill, upsert and dispatch lot by lot, close the row     *)
(* (which nobody reads to decide anything, and which is not kept here).    *)
(* The backfill's own steps interleave with every step of it.              *)
(***************************************************************************)
EXTENDS BackfillService, LotRow

CONSTANT Scheduler        \* the monitor-cycle thread, the one caller of maybe_start

ASSUME SchedulerAssumption == Caller = {Scheduler}

VARIABLES
  mpc,         \* where the scheduler stands
  region,      \* fetch_region of the pass
  page,        \* lots of the head page not yet upserted
  shown,       \* total_count of the head page
  fresh,       \* lot just inserted, to be dispatched
  life,        \* phase of the lifespan
  dispatched,  \* history: dispatches of each lot
  requested    \* history: a run was asked for since the last pass began

cycleVars == <<mpc, region, page, shown, fresh, dispatched>>
vars == <<backfillVars, cycleVars, life, requested>>

Init ==
  /\ BackfillInit
  /\ mpc = "top"
  /\ region = None
  /\ page = {}
  /\ shown = None
  /\ fresh = None
  /\ life = "boot"
  /\ dispatched = [l \in Lot |-> 0]
  /\ requested = FALSE

Stored == {l \in Lot : lots[l] # "absent"}

-----------------------------------------------------------------------------
(* run_forever                                                             *)

Connected == life # "closed"

\* The loop's condition is checked again after every pass.
SchedulerStops ==
  /\ mpc = "top" /\ shutdown
  /\ mpc' = "stopped"
  /\ UNCHANGED <<backfillVars, region, page, shown, fresh, dispatched, life, requested>>

\* The gate cannot be read: nothing catches that, and nobody starts the thread
\* again before the process is.
SchedulerDies ==
  /\ mpc = "top" /\ ~shutdown
  /\ mpc' = "stopped"
  /\ UNCHANGED <<backfillVars, region, page, shown, fresh, dispatched, life, requested>>

\* Zero cycles until backfill.done is stored.
Awaiting == ~done

BeginPass ==
  /\ mpc = "top" /\ ~shutdown
  /\ requested' = FALSE
  /\ IF Awaiting THEN mpc' = "wait" /\ UNCHANGED region
                 ELSE mpc' = "check" /\ region' \in Region
  /\ UNCHANGED <<backfillVars, page, shown, fresh, dispatched, life>>

SkipRegion ==
  /\ mpc = "check" /\ region \in regions_in_backfill
  /\ mpc' = "wait"
  /\ UNCHANGED <<backfillVars, region, page, shown, fresh, dispatched, life, requested>>

OpenCycle ==
  /\ mpc = "check" /\ region \notin regions_in_backfill /\ Connected
  /\ mpc' = "fetch"
  /\ UNCHANGED <<backfillVars, region, page, shown, fresh, dispatched, life,
                 requested>>

OpenFails ==
  /\ mpc = "check" /\ region \notin regions_in_backfill
  /\ mpc' = "wait"
  /\ UNCHANGED <<backfillVars, region, page, shown, fresh, dispatched, life, requested>>

\* The wait between passes ends on a sentinel, on stop, or on the interval.
WakeUp ==
  /\ mpc = "wait" /\ ~shutdown
  /\ TakeTrigger
  /\ mpc' = "top"
  /\ UNCHANGED <<region, page, shown, fresh, dispatched, life,
                 requested>>

StopWaiting ==
  /\ mpc = "wait" /\ shutdown
  /\ mpc' = "top"
  /\ UNCHANGED <<backfillVars, region, page, shown, fresh, dispatched, life, requested>>

IntervalElapses ==
  /\ mpc = "wait" /\ ~shutdown
  /\ mpc' = "top"
  /\ UNCHANGED <<backfillVars, region, page, shown, fresh, dispatched, life, requested>>

-----------------------------------------------------------------------------
(* run_cycle                                                               *)

\* Nothing of the page is kept and the pass is over, whether the row could be
\* closed or stays open for good.
EndCycle ==
  /\ page' = {} /\ shown' = None /\ fresh' = None
  /\ mpc' = "wait"

FetchHeadPage ==
  /\ mpc = "fetch"
  /\ \E rows \in SUBSET Lot, total \in Total \cup {None} :
       /\ Cardinality(rows) <= PageSize
       /\ page' = rows
       /\ shown' = total
       /\ mpc' = IF total = None THEN "asked" ELSE "delta"
  /\ UNCHANGED <<backfillVars, region, fresh, dispatched, life,
                 requested>>

\* The network fails, the session has expired, or the page is no list.
FetchFails ==
  /\ mpc = "fetch"
  /\ EndCycle
  /\ UNCHANGED <<backfillVars, region, dispatched, life, requested>>

AskForBackfill ==
  /\ mpc = "delta" /\ Connected
  /\ MaybeStart(Scheduler, region, shown, Cardinality(Stored), Cardinality(page))
  /\ mpc' = "asked"
  /\ UNCHANGED <<region, page, shown, fresh, dispatched, life,
                 requested>>

\* The new baseline could not be written: maybe_start raises.
BaselineFails ==
  call[Scheduler].pc = "baseline" /\ total_last' # call[Scheduler].total

BackfillDecides ==
  /\ mpc = "asked"
  /\ Decide(Scheduler)
  /\ ~Connected => UNCHANGED tableVars
  /\ IF BaselineFails THEN EndCycle /\ UNCHANGED <<region, dispatched>>
                      ELSE UNCHANGED cycleVars
  /\ UNCHANGED <<life, requested>>

\* Rows are converted and enriched; a row that cannot be converted is a ParseBug.
Enrich ==
  /\ mpc = "asked" /\ call[Scheduler].pc = "idle"
  /\ \/ /\ mpc' = "upsert"
        /\ UNCHANGED <<page, shown, fresh>>
     \/ EndCycle
  /\ UNCHANGED <<backfillVars, region, dispatched, life, requested>>

\* Mutant: a row without details counts as new.
WasNew_Pending(l) == lots[l] # "enriched"

\* was_new of SqliteLotRepository.upsert, decided inside its transaction.
WasNew(l) == lots[l] = "absent"

Upsert(l) ==
  /\ mpc = "upsert" /\ fresh = None /\ Connected
  /\ l \in page
  /\ page' = page \ {l}
  /\ StoreLot(l)
  /\ fresh' = IF WasNew(l) THEN l ELSE None
  /\ UNCHANGED <<mpc, region, shown, dispatched, life,
                 requested>>

Dispatch ==
  /\ mpc = "upsert" /\ fresh # None
  /\ dispatched' = [dispatched EXCEPT ![fresh] = @ + 1]
  /\ fresh' = None
  /\ UNCHANGED <<backfillVars, mpc, region, page, shown, life, requested>>

CloseOk ==
  /\ mpc = "upsert" /\ page = {} /\ fresh = None
  /\ EndCycle
  /\ UNCHANGED <<backfillVars, region, dispatched, life, requested>>

\* A bug or a database error: what is stored stays, the rest is left out, a lot
\* stored but not dispatched included.
UnexpectedError ==
  /\ mpc \in {"fetch", "delta", "asked", "upsert"}
  /\ call[Scheduler].pc = "idle"
  /\ EndCycle
  /\ UNCHANGED <<backfillVars, region, dispatched, life, requested>>

SchedulerStep ==
  \/ SchedulerStops \/ SchedulerDies \/ BeginPass \/ SkipRegion
  \/ OpenCycle \/ OpenFails \/ WakeUp \/ StopWaiting
  \/ FetchHeadPage \/ FetchFails
  \/ AskForBackfill \/ BackfillDecides \/ Enrich
  \/ \E l \in Lot : Upsert(l)
  \/ Dispatch \/ CloseOk \/ UnexpectedError

-----------------------------------------------------------------------------
(* The backfill worker, the routes and the lifespan                        *)

\* A backfill's last act wakes the scheduler.  Connections that are closed
\* take no more writes.
BackfillStep(w) ==
  /\ WorkerStep(w)
  /\ ~Connected => UNCHANGED tableVars
  /\ requested' = (requested \/ WakeMonitor(w))
  /\ UNCHANGED <<cycleVars, life>>

StopWatcher(w) == WatchStop(w) /\ UNCHANGED <<cycleVars, life, requested>>

\* POST /backfill/start hands in an event of its own, login the supervisor's.
StartBackfill(w) ==
  /\ life = "up"
  /\ \E supervised \in BOOLEAN : Start(w, supervised)
  /\ UNCHANGED <<cycleVars, life, requested>>

CancelBackfill == life = "up" /\ Cancel /\ UNCHANGED <<cycleVars, life, requested>>

\* Mutant: the scheduler is notified, and hears it only while it waits.
RequestRunNow_Notify ==
  /\ life = "up"
  /\ requested' = TRUE
  /\ IF mpc = "wait" THEN RequestRun ELSE UNCHANGED backfillVars
  /\ UNCHANGED <<cycleVars, life>>

\* POST /cycle/run: a second sentinel does not fit and is not needed.
RequestRunNow ==
  /\ life = "up"
  /\ requested' = TRUE
  /\ RequestRun
  /\ UNCHANGED <<cycleVars, life>>

\* Start-up resumes a backfill that never finished; the scheduler runs already.
Boot ==
  /\ life = "boot"
  /\ life' = "up"
  /\ IF done THEN UNCHANGED backfillVars ELSE \E w \in Worker : Start(w, TRUE)
  /\ UNCHANGED <<cycleVars, requested>>

LifespanCancels ==
  /\ life = "up" /\ life' = "cancelled"
  /\ Cancel
  /\ UNCHANGED <<cycleVars, requested>>

LifespanStops ==
  /\ life = "cancelled" /\ life' = "stopping"
  /\ Shutdown
  /\ UNCHANGED <<cycleVars, requested>>

\* The scheduler is waited for 35 seconds, the backfill's thread not at all.
CloseConnections ==
  /\ life = "stopping" /\ life' = "closed"
  /\ UNCHANGED <<backfillVars, cycleVars, requested>>

\* The process ends, by a crash or after shutdown, and is started again.
Restart ==
  /\ Crash
  /\ life' = "boot"
  /\ mpc' = "top"
  /\ region' = None /\ page' = {} /\ shown' = None /\ fresh' = None
  /\ requested' = FALSE
  /\ UNCHANGED dispatched

Next ==
  \/ SchedulerStep \/ IntervalElapses
  \/ \E w \in Worker : BackfillStep(w) \/ StopWatcher(w) \/ StartBackfill(w)
  \/ CancelBackfill \/ RequestRunNow
  \/ Boot \/ LifespanCancels \/ LifespanStops \/ CloseConnections \/ Restart

\* The scheduler is never suspended for good.  The interval may be hours long
\* and is not counted on.  maybe_start always finds a thread to launch; with the
\* finitely many of Worker it finds one again and again.
Fairness ==
  /\ WF_vars(SchedulerStep) /\ SF_vars(BackfillDecides)
  /\ \A w \in Worker : WF_vars(BackfillStep(w)) /\ WF_vars(StopWatcher(w))

Spec == Init /\ [][Next]_vars
FairSpec == Spec /\ Fairness
-----------------------------------------------------------------------------
(* Properties                                                              *)

CycleTypeOK ==
  /\ BackfillTypeOK
  /\ mpc \in {"top", "check", "fetch", "delta", "asked", "upsert", "wait", "stopped"}
  /\ region \in Region \cup {None}
  /\ page \subseteq Lot
  /\ shown \in Total \cup {None}
  /\ fresh \in Lot \cup {None}
  /\ life \in {"boot", "up", "cancelled", "stopping", "closed"}
  /\ dispatched \in [Lot -> Nat]
  /\ requested \in BOOLEAN

InCycle == mpc \in {"fetch", "delta", "asked", "upsert"}

\* A request that comes while a pass is under way, even the backfill's own
\* last act, is still there when the scheduler lies down to wait
\* (monitor_cycle.py, request_run_now and _wait_for_next_pass).
RequestIsNotLost == mpc = "wait" /\ requested => trigger

\* No cycle before the first whole backfill, restarts included (ADR-068 B2).
CyclesFollowGalka == InCycle => done

\* A lot is dispatched at most once, however backfills, failed cycles and
\* restarts interleave (lots.py, was_new).
OneDispatchPerLot == \A l \in Lot : dispatched[l] + (IF fresh = l THEN 1 ELSE 0) <= 1

\* Where the cycle is about to write a lot that others write too: the point of
\* the lot is that of its row, whatever was written in whatever order (lots.py,
\* _sync_geo).
PointsFollowRows == mpc = "upsert" => GeoMirrorsRow

\* And its history leads from its insertion to its row without a gap, because the
\* comparison is made inside the transaction, while no writer but the first
\* says when the lot was discovered (lots.py, upsert).
HistoryIsWhole == mpc = "upsert" => PastIsKept

\* A request starts a pass without the poll interval running out, unless the
\* scheduler has ended: by a stop, or because the gate could not be read.
RequestIsServed == requested ~> ~requested \/ mpc = "stopped"
=============================================================================
