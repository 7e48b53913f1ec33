------------------------------ MODULE LoginService ------------------------------
(***************************************************************************)
(* The login and refresh jobs: LoginService (services/login.py) over the   *)
(* browser driver (infra/playwright/login.py), the auth routes that start  *)
(* and cancel them, the hooks composition.py hangs on a success, and the   *)
(* phases of the shutdown that end them (app.py).                          *)
(*                                                                         *)
(* A request thread takes the lock, submits the job, makes its future the  *)
(* active one and attaches the callback, in four steps.  The job runs on   *)
(* the pool's one thread from the second of them on, and settles on that   *)
(* thread, or on the request's own when it was over before the callback    *)
(* was attached.                                                           *)
(***************************************************************************)
EXTENDS Naturals, FiniteSets

CONSTANTS Job,          \* login jobs alive at once; a settled job is reused
          None

ASSUME NoneAssumption == None \notin Job

VARIABLES
  life,        \* lifespan: "boot", "up", and the phases of the shutdown
  browser,     \* _browser_available
  cookies,     \* the cookies of requests.Session are good at the donor
  flight,      \* LoginService._lock is held
  active,      \* _active_future
  job,         \* every job
  open,        \* PlaywrightLoginSession._active_browser
  last,        \* _last_outcome
  backfill     \* history: the cookies a backfill was last started with

jobVars == <<flight, active, job, open, last>>
envVars == <<life, browser>>
vars == <<envVars, cookies, jobVars, backfill>>

NoJob == [pc |-> "free", headed |-> FALSE, callback |-> "none",
          outcome |-> "none", killed |-> FALSE]

Init ==
  /\ life = "boot" /\ browser = TRUE
  /\ cookies = FALSE
  /\ flight = FALSE /\ active = None /\ open = None /\ last = "none"
  /\ job = [j \in Job |-> NoJob]
  /\ backfill = "none"

-----------------------------------------------------------------------------
(* The auth routes and LoginService                                        *)

Goto(j, pc) == job' = [job EXCEPT ![j].pc = pc]
End(j, pc, outcome) == job' = [job EXCEPT ![j].pc = pc, ![j].outcome = outcome]
Forget(j) == job' = [job EXCEPT ![j] = NoJob]

Success(j) == job[j].outcome \in {"updated", "bare"}

\* The job's browser is open.
Browsing == {"page", "export", "close"}

\* Jobs that occupy the pool's thread: a callback attached in time runs on it.
OnWorker(j) ==
  \/ job[j].pc \in {"launch"} \cup Browsing
  \/ job[j].pc \in {"ended", "unlock", "any", "hook"} /\ job[j].callback = "worker"

\* start_login and start_refresh past the limiter, which time refills: the lock
\* is acquired.  A missing browser (503), an executor that is not bound yet (503)
\* and a lock that is held (409) change nothing.
Request(j, headed) ==
  /\ browser /\ life # "boot"
  /\ ~flight /\ flight' = TRUE
  /\ job[j].pc = "free"
  /\ job' = [job EXCEPT ![j] = [NoJob EXCEPT !.pc = "locked", !.headed = headed]]
  /\ UNCHANGED <<envVars, cookies, active, open, last, backfill>>

\* POST /auth/start and POST /auth/refresh.
AuthStart(j) == Request(j, TRUE)
AuthRefresh(j) == Request(j, FALSE)

\* executor.submit: the pool's thread may take the job from here on.
Submit(j) ==
  /\ job[j].pc = "locked" /\ life # "closed"
  /\ Goto(j, "queued")
  /\ UNCHANGED <<envVars, cookies, flight, active, open, last, backfill>>

\* Mutant: the lock stays with a job that was never submitted.
Refuse_Keeps(j) ==
  /\ job[j].pc = "locked" /\ life = "closed"
  /\ Forget(j)
  /\ UNCHANGED <<envVars, cookies, flight, active, open, last, backfill>>

\* A pool that is shut down refuses the job, and the lock is given back.
Refuse(j) ==
  /\ job[j].pc = "locked" /\ life = "closed"
  /\ Forget(j) /\ flight' = FALSE
  /\ UNCHANGED <<envVars, cookies, active, open, last, backfill>>

\* The future is known, its callback not attached.
Submitted(j) == job[j].pc \notin {"free", "locked"} /\ job[j].callback = "none"

\* _active_future = future: by now the job may have its browser open, or be over.
Track(j) ==
  /\ Submitted(j) /\ active # j
  /\ active' = j
  /\ UNCHANGED <<envVars, cookies, flight, job, open, last, backfill>>

\* Mutant: the callback is attached before the future is the active one.
Attach_First(j) ==
  /\ Submitted(j)
  /\ job' = [job EXCEPT ![j].callback = IF job[j].pc = "ended" THEN "caller" ELSE "worker"]
  /\ UNCHANGED <<envVars, cookies, flight, active, open, last, backfill>>

\* add_done_callback: a job that is over already settles on this very thread.
Attach(j) ==
  /\ Submitted(j) /\ active = j
  /\ job' = [job EXCEPT ![j].callback = IF job[j].pc = "ended" THEN "caller" ELSE "worker"]
  /\ UNCHANGED <<envVars, cookies, flight, active, open, last, backfill>>

\* _on_done records the outcome ...
Settle(j) ==
  /\ job[j].pc = "ended" /\ job[j].callback # "none"
  /\ active' = None /\ last' = job[j].outcome
  /\ Goto(j, "unlock")
  /\ UNCHANGED <<envVars, cookies, flight, open, backfill>>

\* Mutant: only a success frees the flight.
Unlock_OnSuccess(j) ==
  /\ job[j].pc = "unlock"
  /\ flight' = ~Success(j)
  /\ IF Success(j) THEN Goto(j, "any") ELSE Forget(j)
  /\ UNCHANGED <<envVars, cookies, active, open, last, backfill>>

\* ... and frees the flight before any hook has run.
Unlock(j) ==
  /\ job[j].pc = "unlock"
  /\ flight' = FALSE
  /\ IF Success(j) THEN Goto(j, "any") ELSE Forget(j)
  /\ UNCHANGED <<envVars, cookies, active, open, last, backfill>>

\* on_any_success (SessionExpiredEmail!ResetGuard); a refresh has no other hook.
AnyHook(j) ==
  /\ job[j].pc = "any"
  /\ IF job[j].headed THEN Goto(j, "hook") ELSE Forget(j)
  /\ UNCHANGED <<envVars, cookies, flight, active, open, last, backfill>>

\* on_login_success: the recovery is published; then, if onboarding is over and
\* regions are set, the supervisor starts a run of the backfill
\* (BackfillService!Start), whatever became of the cookies.
LoginHook(j) ==
  /\ job[j].pc = "hook"
  /\ Forget(j)
  /\ \/ backfill' = IF cookies THEN "good" ELSE "stale"
     \/ UNCHANGED backfill
  /\ UNCHANGED <<envVars, cookies, flight, active, open, last>>

-----------------------------------------------------------------------------
(* PlaywrightLoginSession, on the pool's thread                            *)

workerRest == <<envVars, flight, active, last, backfill>>

\* _map_exception gives every error a hint, and needs_manual_login is a
\* refresh's; TargetClosedError tells that a cancel closed the browser.
Failure(j) == IF job[j].killed THEN "cancelled" ELSE "failed"

\* Mutant: a second thread in the pool.
WorkerIsFree_Two == Cardinality({j \in Job : OnWorker(j)}) < 2

\* ThreadPoolExecutor(max_workers=1).
WorkerIsFree == ~\E j \in Job : OnWorker(j)

TakeJob(j) ==
  /\ job[j].pc = "queued" /\ WorkerIsFree
  /\ Goto(j, "launch")
  /\ UNCHANGED <<workerRest, cookies, open>>

Launch(j) ==
  /\ job[j].pc = "launch"
  /\ open' = j
  /\ Goto(j, "page")
  /\ UNCHANGED <<workerRest, cookies>>

\* The browser cannot be started: the future has its outcome, nothing to close.
LaunchFails(j) ==
  /\ job[j].pc = "launch"
  /\ End(j, "ended", "failed")
  /\ UNCHANGED <<workerRest, cookies, open>>

\* The cabinet is reached: ESIA knows the profile, or the user has logged in.
Reach(j) ==
  /\ job[j].pc = "page" /\ ~job[j].killed
  /\ Goto(j, "export")
  /\ UNCHANGED <<workerRest, cookies, open>>

\* Navigation error, deadline, redirect, or the browser is gone.
NotReached(j) ==
  /\ job[j].pc = "page"
  /\ End(j, "close", Failure(j))
  /\ UNCHANGED <<workerRest, cookies, open>>

\* The store takes over the cookies it can make, if there are any.
Store == cookies' \in {TRUE, cookies}

\* The cookies go over to requests.Session; a failure leaves it a success.
ExportCookies(j) ==
  /\ job[j].pc = "export"
  /\ \/ ~job[j].killed /\ Store /\ End(j, "close", "updated")
     \/ UNCHANGED cookies /\ End(j, "close", "bare")
  /\ UNCHANGED <<workerRest, open>>

\* The finally clause, then the future is done.
CloseBrowser(j) ==
  /\ job[j].pc = "close"
  /\ open' = None
  /\ Goto(j, "ended")
  /\ UNCHANGED <<workerRest, cookies>>

JobStep(j) ==
  \/ Submit(j) \/ Refuse(j) \/ Track(j)
  \/ TakeJob(j) \/ Launch(j) \/ LaunchFails(j) \/ Reach(j) \/ NotReached(j)
  \/ ExportCookies(j) \/ CloseBrowser(j)
  \/ Attach(j) \/ Settle(j) \/ Unlock(j) \/ AnyHook(j) \/ LoginHook(j)

\* cancel closes the browser that is open; before there is one it does nothing.
Kill == job' = [j \in Job |-> [job[j] EXCEPT !.killed = @ \/ open = j]]

\* POST /auth/cancel.
AuthCancel ==
  /\ life # "boot"
  /\ Kill
  /\ UNCHANGED <<envVars, cookies, flight, active, open, last, backfill>>

\* The donor ends the session.
Expire ==
  /\ cookies /\ cookies' = FALSE
  /\ UNCHANGED <<envVars, jobVars, backfill>>

-----------------------------------------------------------------------------
(* The lifespan and the process                                            *)

lifeRest == <<cookies, flight, active, open, last, backfill>>

\* Preflight may find no Chromium (mark_browser_unavailable); then the executor
\* is bound.
Boot ==
  /\ life = "boot" /\ life' = "up"
  /\ browser' \in BOOLEAN
  /\ UNCHANGED <<lifeRest, job>>

\* Phase 1 stops the supervisor's threads.
StopThreads ==
  /\ life = "up" /\ life' = "stopping"
  /\ UNCHANGED <<lifeRest, browser, job>>

\* Phase 1.5: cancel_active_job; a browser still to be launched escapes it.
CancelActiveJob ==
  /\ life = "stopping" /\ life' = "cancelled"
  /\ Kill
  /\ UNCHANGED <<lifeRest, browser>>

\* The pool is shut down, and cancel_futures ends a job nobody took up.  After
\* 5 s its thread is no longer waited for.
ClosePool ==
  /\ life = "cancelled" /\ life' = "closed"
  /\ job' = [j \in Job |-> IF job[j].pc = "queued"
                THEN [job[j] EXCEPT !.pc = "ended", !.outcome = "failed"]
                ELSE job[j]]
  /\ UNCHANGED <<lifeRest, browser>>

\* The process ends, by a crash or after shutdown, and is started again.
Restart ==
  /\ life' = "boot" /\ browser' = TRUE
  /\ cookies' = FALSE
  /\ flight' = FALSE /\ active' = None /\ open' = None /\ last' = "none"
  /\ job' = [j \in Job |-> NoJob]
  /\ backfill' = "none"

Next ==
  \/ \E j \in Job : AuthStart(j) \/ AuthRefresh(j) \/ JobStep(j)
  \/ AuthCancel \/ Expire
  \/ Boot \/ StopThreads \/ CancelActiveJob \/ ClosePool \/ Restart

\* Every browser operation has a timeout, and every thread is scheduled again.
Fairness == \A j \in Job : WF_vars(JobStep(j))

Spec == Init /\ [][Next]_vars
FairSpec == Spec /\ Fairness
-----------------------------------------------------------------------------
(* Properties                                                              *)

Outcome == {"none", "updated", "bare", "failed", "cancelled"}

JobType ==
  [pc : {"free", "locked", "queued", "launch", "ended", "unlock", "any", "hook"} \cup Browsing,
   headed : BOOLEAN, callback : {"none", "worker", "caller"},
   outcome : Outcome, killed : BOOLEAN]

\* The shapes of the state.
LoginTypeOK ==
  /\ life \in {"boot", "up", "stopping", "cancelled", "closed"}
  /\ browser \in BOOLEAN /\ cookies \in BOOLEAN
  /\ flight \in BOOLEAN /\ active \in Job \cup {None} /\ open \in Job \cup {None}
  /\ last \in Outcome /\ backfill \in {"none", "good", "stale"}
  /\ job \in [Job -> JobType]

Flying(j) == job[j].pc \notin {"free", "any", "hook"}

\* The flight lock, the future that status() asks and the browser a cancel
\* would close never belong to two jobs, nor to one whose hooks are running: the
\* lock is held exactly while one job is between its request and its settling,
\* the active future is that job's or none, and is that job's from the attaching
\* of the callback to the settling; the open browser is its own (login.py,
\* "Single-flight").
OneFlight ==
  /\ flight <=> \E j \in Job : Flying(j)
  /\ \A i, j \in Job : Flying(i) /\ Flying(j) => i = j
  /\ \A j \in Job : active = j => Flying(j) /\ job[j].pc \notin {"locked", "unlock"}
  /\ \A j \in Job :
       Flying(j) /\ job[j].callback # "none" /\ job[j].pc # "unlock" => active = j
  /\ \A j \in Job : open = j <=> job[j].pc \in Browsing

\* The flight is free before the hooks run, and yet a job whose callback was
\* attached in time is through with them before the next one opens a browser or
\* runs its own there: the pool has one thread (login.py, _on_done; app.py,
\* max_workers=1).
HooksComeFirst ==
  \A i, j \in Job :
    /\ job[i].pc \in {"any", "hook"} /\ job[i].callback = "worker"
    /\ i # j
    => job[j].callback = "caller" \/ job[j].pc \in {"free", "locked", "queued", "ended", "unlock"}

\* A login or refresh ends, and another one may start.
LoginEnds == flight ~> ~flight
=============================================================================
