-------------------------- MODULE LoginService_proof --------------------------
(***************************************************************************)
(* Theorems about LoginService, for any number of jobs: the types, that    *)
(* the flight lock, the future and the browser belong to one job, and that *)
(* the pool's one thread is through with the hooks of a login before it    *)
(* opens the browser of the next.                                          *)
(***************************************************************************)
EXTENDS LoginService, TLAPS

USE DEF jobVars, envVars, vars, workerRest, lifeRest, Browsing

-----------------------------------------------------------------------------
(* Types                                                                   *)

Pc == {"free", "locked", "queued", "launch", "ended", "unlock", "any", "hook",
       "page", "export", "close"}

\* A record of a job with a field or two replaced.
LEMMA RecordTypes ==
  ASSUME NEW r \in JobType
  PROVE  /\ \A pc \in Pc : [r EXCEPT !.pc = pc] \in JobType
         /\ \A pc \in Pc, o \in Outcome : [r EXCEPT !.pc = pc, !.outcome = o] \in JobType
         /\ \A c \in {"none", "worker", "caller"} : [r EXCEPT !.callback = c] \in JobType
  BY DEF Pc, JobType

LEMMA NoJobTypes ==
  NoJob \in JobType /\ \A h \in BOOLEAN :
    [NoJob EXCEPT !.pc = "locked", !.headed = h] \in JobType
  BY DEF NoJob, JobType, Outcome

\* What a step makes of its job, and that it leaves the others alone.
LEMMA Becomes ==
  ASSUME job \in [Job -> JobType], NEW j \in Job
  PROVE  /\ \A pc : Goto(j, pc) => job' = [job EXCEPT ![j] = [job[j] EXCEPT !.pc = pc]]
         /\ \A pc, o : End(j, pc, o) =>
              job' = [job EXCEPT ![j] = [job[j] EXCEPT !.pc = pc, !.outcome = o]]
         /\ Forget(j) => job' = [job EXCEPT ![j] = NoJob]
  BY Zenon DEF Goto, End, Forget

LEMMA BecomesType ==
  ASSUME job \in [Job -> JobType], NEW j \in Job
  PROVE  /\ \A r \in JobType : job' = [job EXCEPT ![j] = r] => job' \in [Job -> JobType]
         /\ \A pc \in Pc : Goto(j, pc) => job' \in [Job -> JobType]
         /\ \A pc \in Pc, o \in Outcome : End(j, pc, o) => job' \in [Job -> JobType]
         /\ Forget(j) => job' \in [Job -> JobType]
  <1>1. job[j] \in JobType
    OBVIOUS
  <1>2. ASSUME NEW r \in JobType, job' = [job EXCEPT ![j] = r]
        PROVE  job' \in [Job -> JobType]
    BY <1>2
  <1>3. ASSUME NEW pc \in Pc, Goto(j, pc) PROVE job' \in [Job -> JobType]
    <2>1. [job[j] EXCEPT !.pc = pc] \in JobType
      BY <1>1, RecordTypes, Zenon
    <2>2. job' = [job EXCEPT ![j] = [job[j] EXCEPT !.pc = pc]]
      BY <1>3, Becomes, Zenon
    <2>. QED  BY <2>1, <2>2, <1>2
  <1>4. ASSUME NEW pc \in Pc, NEW o \in Outcome, End(j, pc, o)
        PROVE  job' \in [Job -> JobType]
    <2>1. [job[j] EXCEPT !.pc = pc, !.outcome = o] \in JobType
      BY <1>1, RecordTypes, Zenon
    <2>2. job' = [job EXCEPT ![j] = [job[j] EXCEPT !.pc = pc, !.outcome = o]]
      BY <1>4, Zenon DEF End
    <2>. QED  BY <2>1, <2>2, <1>2
  <1>5. ASSUME Forget(j) PROVE job' \in [Job -> JobType]
    BY <1>5, <1>2, Becomes, NoJobTypes, Zenon
  <1>. QED  BY <1>2, <1>3, <1>4, <1>5

LEMMA KillType ==
  ASSUME job \in [Job -> JobType], Kill
  PROVE  /\ job' \in [Job -> JobType]
         /\ \A j \in Job : /\ job'[j].pc = job[j].pc
                           /\ job'[j].callback = job[j].callback
                           /\ job'[j].outcome = job[j].outcome
  <1>1. \A j \in Job : (job[j].killed \/ open = j) \in BOOLEAN
    OBVIOUS
  <1>2. \A j \in Job : \A k \in BOOLEAN : [job[j] EXCEPT !.killed = k] \in JobType
    BY DEF JobType
  <1>3. \A j \in Job : [job[j] EXCEPT !.killed = @ \/ open = j] \in JobType
    BY <1>1, <1>2
  <1>. QED  BY <1>3 DEF Kill, JobType

LEMMA JobStepType ==
  ASSUME job \in [Job -> JobType], [Next]_vars
  PROVE  job' \in [Job -> JobType]
  <1>1. ASSUME NEW j \in Job, AuthStart(j) \/ AuthRefresh(j)
        PROVE  job' \in [Job -> JobType]
    <2>1. \E h \in BOOLEAN :
            job' = [job EXCEPT ![j] = [NoJob EXCEPT !.pc = "locked", !.headed = h]]
      BY <1>1, Zenon DEF AuthStart, AuthRefresh, Request
    <2>. QED  BY <2>1, NoJobTypes, BecomesType, Zenon
  <1>2. ASSUME NEW j \in Job, Submit(j) \/ TakeJob(j) \/ Launch(j) \/ Reach(j) \/ CloseBrowser(j)
                          \/ Settle(j)
        PROVE  job' \in [Job -> JobType]
    <2>1. \E pc \in Pc : Goto(j, pc)
      BY <1>2, Zenon DEF Submit, TakeJob, Launch, Reach, CloseBrowser, Settle, Pc
    <2>. QED  BY <2>1, BecomesType, Zenon
  <1>3. ASSUME NEW j \in Job, LaunchFails(j) \/ NotReached(j) \/ ExportCookies(j)
        PROVE  job' \in [Job -> JobType]
    <2>1. Failure(j) \in Outcome
      BY DEF Failure, Outcome
    <2>2. \E pc \in Pc, o \in Outcome : End(j, pc, o)
      BY <1>3, <2>1, Zenon DEF LaunchFails, NotReached, ExportCookies, Pc, Outcome
    <2>. QED  BY <2>2, BecomesType, Zenon
  <1>4. ASSUME NEW j \in Job, Attach(j)
        PROVE  job' \in [Job -> JobType]
    BY <1>4 DEF Attach, Submitted, JobType
  <1>5. ASSUME NEW j \in Job, Refuse(j) \/ Unlock(j) \/ AnyHook(j) \/ LoginHook(j)
        PROVE  job' \in [Job -> JobType]
    <2>1. Forget(j) \/ \E pc \in Pc : Goto(j, pc)
      BY <1>5, Zenon DEF Refuse, Unlock, AnyHook, LoginHook, Pc
    <2>. QED  BY <2>1, BecomesType, Zenon
  <1>6. CASE AuthCancel \/ CancelActiveJob
    BY <1>6, KillType DEF AuthCancel, CancelActiveJob
  <1>7. CASE ClosePool
    <2>1. \A j \in Job : [job[j] EXCEPT !.pc = "ended", !.outcome = "failed"] \in JobType
      BY RecordTypes DEF Pc, Outcome
    <2>. QED  BY <1>7, <2>1 DEF ClosePool
  <1>8. CASE Restart
    BY <1>8, NoJobTypes DEF Restart
  <1>9. CASE Expire \/ Boot \/ StopThreads \/ (\E j \in Job : Track(j)) \/ UNCHANGED vars
    BY <1>9 DEF Expire, Boot, StopThreads, Track
  <1>. QED  BY <1>1, <1>2, <1>3, <1>4, <1>5, <1>6, <1>7, <1>8, <1>9 DEF Next, JobStep

\* The variables other than job.
RestType ==
  /\ life \in {"boot", "up", "stopping", "cancelled", "closed"}
  /\ browser \in BOOLEAN /\ cookies \in BOOLEAN
  /\ flight \in BOOLEAN /\ active \in Job \cup {None} /\ open \in Job \cup {None}
  /\ last \in Outcome /\ backfill \in {"none", "good", "stale"}

LEMMA RestStepType ==
  ASSUME LoginTypeOK, [Next]_vars
  PROVE  RestType'
  <1>. USE DEF LoginTypeOK, RestType
  <1>1. ASSUME NEW j \in Job, AuthStart(j) \/ AuthRefresh(j) PROVE RestType'
    BY <1>1, Zenon DEF AuthStart, AuthRefresh, Request
  <1>2. ASSUME NEW j \in Job, TakeJob(j) \/ Launch(j) \/ Reach(j) \/ CloseBrowser(j)
        PROVE  RestType'
    BY <1>2, Zenon DEF TakeJob, Launch, Reach, CloseBrowser
  <1>3. ASSUME NEW j \in Job, LaunchFails(j) \/ NotReached(j) \/ Attach(j) PROVE RestType'
    BY <1>3, Zenon DEF LaunchFails, NotReached, Attach
  <1>4. ASSUME NEW j \in Job, ExportCookies(j) PROVE RestType'
    BY <1>4, Zenon DEF ExportCookies, Store
  <1>5. ASSUME NEW j \in Job, Settle(j) PROVE RestType'
    <2>1. job[j].outcome \in Outcome
      BY DEF JobType
    <2>. QED  BY <1>5, <2>1, Zenon DEF Settle
  <1>6. ASSUME NEW j \in Job, Unlock(j) \/ AnyHook(j) PROVE RestType'
    BY <1>6, Zenon DEF Unlock, AnyHook
  <1>7. ASSUME NEW j \in Job, LoginHook(j) PROVE RestType'
    BY <1>7, Zenon DEF LoginHook
  <1>8. CASE AuthCancel \/ Expire \/ Boot \/ StopThreads
    BY <1>8, Zenon DEF AuthCancel, Expire, Boot, StopThreads
  <1>9. CASE CancelActiveJob \/ ClosePool \/ Restart
    BY <1>9, Zenon DEF CancelActiveJob, ClosePool, Restart, Outcome
  <1>10. CASE UNCHANGED vars
    BY <1>10, Zenon
  <1>11. ASSUME NEW j \in Job, Submit(j) \/ Refuse(j) \/ Track(j) PROVE RestType'
    BY <1>11, Zenon DEF Submit, Refuse, Track
  <1>. QED  BY <1>1, <1>2, <1>3, <1>4, <1>5, <1>6, <1>7, <1>8, <1>9, <1>10, <1>11
            DEF Next, JobStep

LEMMA TypeInit == Init => LoginTypeOK
  <1>1. Init => job \in [Job -> JobType]
    BY DEF Init, NoJob, JobType, Outcome
  <1>2. Init => RestType
    BY Zenon DEF Init, RestType, Outcome
  <1>. QED  BY <1>1, <1>2, Zenon DEF LoginTypeOK, RestType

LEMMA TypeStep == LoginTypeOK /\ [Next]_vars => LoginTypeOK'
  <1>. SUFFICES ASSUME LoginTypeOK, [Next]_vars PROVE LoginTypeOK'
    OBVIOUS
  <1>1. job' \in [Job -> JobType]
    BY JobStepType, Zenon DEF LoginTypeOK
  <1>2. RestType'
    BY RestStepType
  <1>. QED  BY <1>1, <1>2, Zenon DEF LoginTypeOK, RestType

\* The variables keep their types.
THEOREM TypeCorrect == Spec => []LoginTypeOK
  BY TypeInit, TypeStep, PTL DEF Spec
-----------------------------------------------------------------------------
(* What a step does to its job                                             *)

\* The rest of the jobs stays as it is.
Others(j) == \A k \in Job \ {j} : job'[k] = job[k]

LEMMA Moves ==
  ASSUME job \in [Job -> JobType], NEW j \in Job
  PROVE  /\ \A pc \in Pc : Goto(j, pc) =>
              /\ Others(j)
              /\ job'[j].pc = pc /\ job'[j].callback = job[j].callback
              /\ job'[j].outcome = job[j].outcome
         /\ \A pc \in Pc, o \in Outcome : End(j, pc, o) =>
              /\ Others(j)
              /\ job'[j].pc = pc /\ job'[j].callback = job[j].callback
              /\ job'[j].outcome = o
         /\ Forget(j) => Others(j) /\ job'[j].pc = "free"
  <1>1. job[j] \in JobType
    OBVIOUS
  <1>2. ASSUME NEW pc \in Pc, Goto(j, pc)
        PROVE  /\ Others(j)
               /\ job'[j].pc = pc /\ job'[j].callback = job[j].callback
               /\ job'[j].outcome = job[j].outcome
    BY <1>1, <1>2 DEF Goto, Others, JobType
  <1>3. ASSUME NEW pc \in Pc, NEW o \in Outcome, End(j, pc, o)
        PROVE  /\ Others(j)
               /\ job'[j].pc = pc /\ job'[j].callback = job[j].callback
               /\ job'[j].outcome = o
    <2>1. job' = [job EXCEPT ![j] = [job[j] EXCEPT !.pc = pc, !.outcome = o]]
      BY <1>3, Zenon DEF End
    <2>2. PICK r : r = [job[j] EXCEPT !.pc = pc, !.outcome = o]
      OBVIOUS
    <2>3. r.pc = pc /\ r.outcome = o /\ r.callback = job[j].callback
      BY <1>1, <2>2 DEF JobType
    <2>4. job' = [job EXCEPT ![j] = r]
      BY <2>1, <2>2, Zenon
    <2>. QED  BY <2>3, <2>4 DEF Others
  <1>4. ASSUME Forget(j) PROVE Others(j) /\ job'[j].pc = "free"
    BY <1>4 DEF Forget, NoJob, Others
  <1>. QED  BY <1>2, <1>3, <1>4

LEMMA RequestMoves ==
  ASSUME job \in [Job -> JobType], NEW j \in Job, NEW headed \in BOOLEAN,
         Request(j, headed)
  PROVE  Others(j) /\ job'[j].pc = "locked" /\ job'[j].callback = "none"
  <1>1. job' = [job EXCEPT ![j] = [NoJob EXCEPT !.pc = "locked", !.headed = headed]]
    BY Zenon DEF Request
  <1>2. PICK r : r = [NoJob EXCEPT !.pc = "locked", !.headed = headed]
    OBVIOUS
  <1>3. r.pc = "locked" /\ r.callback = "none"
    BY <1>2 DEF NoJob
  <1>4. job' = [job EXCEPT ![j] = r]
    BY <1>1, <1>2, Zenon
  <1>. QED  BY <1>3, <1>4 DEF Others

LEMMA AttachMoves ==
  ASSUME job \in [Job -> JobType], NEW j \in Job, Attach(j)
  PROVE  /\ Others(j) /\ job'[j].pc = job[j].pc /\ job'[j].outcome = job[j].outcome
         /\ job[j].callback = "none"
         /\ job'[j].callback = IF job[j].pc = "ended" THEN "caller" ELSE "worker"
  BY DEF Attach, Submitted, JobType, Others

-----------------------------------------------------------------------------
(* The pool's thread                                                       *)

\* A job that has the thread and a browser, or a success to settle on it.
Taken(j) ==
  \/ job[j].pc \in {"launch", "page", "export", "close"}
  \/ job[j].pc \in {"any", "hook"} /\ job[j].callback = "worker"
  \/ job[j].pc \in {"ended", "unlock"} /\ job[j].callback = "worker" /\ Success(j)

\* One job at a time, and none settles before its callback is attached.
PoolInv ==
  /\ \A i, j \in Job : Taken(i) /\ Taken(j) => i = j
  /\ \A j \in Job : job[j].pc \in {"unlock", "any", "hook"} => job[j].callback # "none"

LEMMA PoolInit == Init => PoolInv
  BY DEF Init, PoolInv, Taken, NoJob

LEMMA PoolStep == LoginTypeOK /\ PoolInv /\ [Next]_vars => PoolInv'
  <1>. SUFFICES ASSUME LoginTypeOK, PoolInv, [Next]_vars PROVE PoolInv'
    OBVIOUS
  <1>0. job \in [Job -> JobType]
    BY Zenon DEF LoginTypeOK
  <1>. USE DEF PoolInv, Taken, Success, Pc
  <1>1. ASSUME NEW j \in Job, NEW headed \in BOOLEAN, Request(j, headed)
        PROVE  PoolInv'
    <2>1. Others(j) /\ job'[j].pc = "locked"
      BY <1>0, <1>1, RequestMoves
    <2>. QED  BY <2>1 DEF Others
  <1>2. ASSUME NEW j \in Job, Attach(j) PROVE PoolInv'
    <2>1. /\ Others(j) /\ job'[j].pc = job[j].pc /\ job'[j].outcome = job[j].outcome
          /\ job[j].callback = "none"
          /\ job'[j].callback = IF job[j].pc = "ended" THEN "caller" ELSE "worker"
      BY <1>0, <1>2, AttachMoves
    <2>. QED  BY <2>1 DEF Others
  <1>3. ASSUME NEW j \in Job, Settle(j) PROVE PoolInv'
    <2>1. job[j].pc = "ended" /\ job[j].callback # "none" /\ Goto(j, "unlock")
      BY <1>3, Zenon DEF Settle
    <2>2. /\ Others(j) /\ job'[j].pc = "unlock" /\ job'[j].callback = job[j].callback
          /\ job'[j].outcome = job[j].outcome
      BY <1>0, <2>1, Moves
    <2>. QED  BY <2>1, <2>2 DEF Others
  <1>4. ASSUME NEW j \in Job, Unlock(j) PROVE PoolInv'
    <2>1. CASE Success(j)
      <3>1. job[j].pc = "unlock" /\ Goto(j, "any")
        BY <1>4, <2>1, Zenon DEF Unlock
      <3>2. Others(j) /\ job'[j].pc = "any" /\ job'[j].callback = job[j].callback
        BY <1>0, <3>1, Moves
      <3>. QED  BY <2>1, <3>1, <3>2 DEF Others
    <2>2. CASE ~Success(j)
      <3>1. Forget(j)
        BY <1>4, <2>2, Zenon DEF Unlock
      <3>2. Others(j) /\ job'[j].pc = "free"
        BY <1>0, <3>1, Moves
      <3>. QED  BY <3>2 DEF Others
    <2>. QED  BY <2>1, <2>2
  <1>5. ASSUME NEW j \in Job, AnyHook(j) \/ LoginHook(j) PROVE PoolInv'
    <2>1. job[j].pc \in {"any", "hook"} /\ (Goto(j, "hook") \/ Forget(j))
      BY <1>5, Zenon DEF AnyHook, LoginHook
    <2>2. /\ Others(j)
          /\ \/ job'[j].pc = "hook" /\ job'[j].callback = job[j].callback
             \/ job'[j].pc = "free"
      BY <1>0, <2>1, Moves
    <2>. QED  BY <2>1, <2>2 DEF Others
  <1>6. ASSUME NEW j \in Job, TakeJob(j) PROVE PoolInv'
    <2>1. \A k \in Job : ~OnWorker(k)
      BY <1>6, Zenon DEF TakeJob, WorkerIsFree
    <2>2. \A k \in Job : ~Taken(k)
      BY <2>1 DEF OnWorker
    <2>3. Goto(j, "launch")
      BY <1>6, Zenon DEF TakeJob
    <2>4. Others(j) /\ job'[j].pc = "launch"
      BY <1>0, <2>3, Moves
    <2>. QED  BY <2>2, <2>4 DEF Others
  <1>7. ASSUME NEW j \in Job, Launch(j) \/ Reach(j) PROVE PoolInv'
    <2>1. job[j].pc \in {"launch", "page"} /\ (Goto(j, "page") \/ Goto(j, "export"))
      BY <1>7, Zenon DEF Launch, Reach
    <2>2. Others(j) /\ job'[j].pc \in {"page", "export"}
      BY <1>0, <2>1, Moves
    <2>. QED  BY <2>1, <2>2 DEF Others
  <1>8. ASSUME NEW j \in Job, LaunchFails(j) PROVE PoolInv'
    <2>1. End(j, "ended", "failed")
      BY <1>8, Zenon DEF LaunchFails
    <2>2. Others(j) /\ job'[j].pc = "ended" /\ job'[j].outcome = "failed"
      BY <1>0, <2>1, Moves DEF Outcome
    <2>. QED  BY <2>2 DEF Others
  <1>9. ASSUME NEW j \in Job, NotReached(j) \/ ExportCookies(j) PROVE PoolInv'
    <2>1. Failure(j) \in Outcome /\ {"updated", "bare"} \subseteq Outcome
      BY DEF Failure, Outcome
    <2>2. job[j].pc \in {"page", "export"} /\ \E o \in Outcome : End(j, "close", o)
      BY <1>9, <2>1, Zenon DEF NotReached, ExportCookies, Outcome
    <2>3. Others(j) /\ job'[j].pc = "close"
      BY <1>0, <2>2, Moves
    <2>. QED  BY <2>2, <2>3 DEF Others
  <1>10. ASSUME NEW j \in Job, CloseBrowser(j) PROVE PoolInv'
    <2>1. job[j].pc = "close" /\ Goto(j, "ended")
      BY <1>10, Zenon DEF CloseBrowser
    <2>2. Others(j) /\ job'[j].pc = "ended"
      BY <1>0, <2>1, Moves
    <2>. QED  BY <2>1, <2>2 DEF Others
  <1>11. CASE AuthCancel \/ CancelActiveJob
    <2>1. Kill
      BY <1>11, Zenon DEF AuthCancel, CancelActiveJob
    <2>2. \A k \in Job : /\ job'[k].pc = job[k].pc /\ job'[k].outcome = job[k].outcome
                         /\ job'[k].callback = job[k].callback
      BY <1>0, <2>1, KillType
    <2>. QED  BY <2>2
  <1>12. CASE ClosePool
    <2>1. ASSUME NEW k \in Job
          PROVE  \/ job'[k] = job[k]
                 \/ job'[k].pc = "ended" /\ job'[k].outcome = "failed"
      <3>1. CASE job[k].pc = "queued"
        <4>1. PICK r : r = [job[k] EXCEPT !.pc = "ended", !.outcome = "failed"]
          OBVIOUS
        <4>2. r.pc = "ended" /\ r.outcome = "failed"
          BY <1>0, <4>1 DEF JobType
        <4>3. job'[k] = r
          BY <1>12, <3>1, <4>1, Zenon DEF ClosePool
        <4>. QED  BY <4>2, <4>3
      <3>2. CASE job[k].pc # "queued"
        BY <1>12, <3>2, Zenon DEF ClosePool
      <3>. QED  BY <3>1, <3>2
    <2>. QED  BY <2>1
  <1>13. CASE Restart
    BY <1>13 DEF Restart, NoJob
  <1>14. CASE Expire \/ Boot \/ StopThreads \/ (\E j \in Job : Track(j)) \/ UNCHANGED vars
    <2>1. UNCHANGED job
      BY <1>14, Zenon DEF Expire, Boot, StopThreads, Track
    <2>. QED  BY <2>1
  <1>15. ASSUME NEW j \in Job, Submit(j) \/ Refuse(j) PROVE PoolInv'
    <2>1. Goto(j, "queued") \/ Forget(j)
      BY <1>15, Zenon DEF Submit, Refuse
    <2>2. Others(j) /\ job'[j].pc \in {"queued", "free"}
      BY <1>0, <2>1, Moves
    <2>. QED  BY <2>2 DEF Others
  <1>. QED  BY <1>1, <1>2, <1>3, <1>4, <1>5, <1>6, <1>7, <1>8, <1>9, <1>10,
               <1>11, <1>12, <1>13, <1>14, <1>15 DEF Next, JobStep, AuthStart, AuthRefresh

LEMMA PoolImplies == LoginTypeOK /\ PoolInv => HooksComeFirst
  <1>. SUFFICES ASSUME LoginTypeOK, PoolInv,
                       NEW i \in Job, NEW j \in Job,
                       job[i].pc \in {"any", "hook"}, job[i].callback = "worker",
                       i # j, job[j].callback # "caller"
                PROVE  job[j].pc \in {"free", "locked", "queued", "ended", "unlock"}
    BY DEF HooksComeFirst
  <1>1. job[j].pc \in Pc /\ job[j].callback \in {"none", "worker", "caller"}
    BY DEF LoginTypeOK, JobType, Pc
  <1>2. Taken(i) /\ ~Taken(j)
    BY DEF PoolInv, Taken
  <1>. QED  BY <1>1, <1>2 DEF PoolInv, Taken, Pc

\* The flight is free before the hooks run, and yet a job whose callback was
\* attached in time is through with them before the next one opens a browser or
\* runs its own there.
THEOREM HooksFirst == Spec => []HooksComeFirst
  <1>1. LoginTypeOK /\ PoolInv /\ [Next]_vars => (LoginTypeOK /\ PoolInv)'
    BY TypeStep, PoolStep
  <1>. QED  BY TypeInit, PoolInit, <1>1, PoolImplies, PTL DEF Spec
-----------------------------------------------------------------------------
(* One flight                                                              *)

LEMMA OneFlightInit == Init => OneFlight
  BY NoneAssumption DEF Init, OneFlight, Flying, NoJob

LEMMA OneFlightStep == LoginTypeOK /\ PoolInv /\ OneFlight /\ [Next]_vars => OneFlight'
  <1>. SUFFICES ASSUME LoginTypeOK, PoolInv, OneFlight, [Next]_vars PROVE OneFlight'
    OBVIOUS
  <1>0. job \in [Job -> JobType]
    BY Zenon DEF LoginTypeOK
  <1>. USE NoneAssumption DEF OneFlight, Flying, Pc
  <1>1. ASSUME NEW j \in Job, NEW headed \in BOOLEAN, Request(j, headed)
        PROVE  OneFlight'
    <2>1. ~flight /\ job[j].pc = "free"
      BY <1>1, Zenon DEF Request
    <2>2. Others(j) /\ job'[j].pc = "locked" /\ job'[j].callback = "none"
      BY <1>0, <1>1, RequestMoves
    <2>3. flight' = TRUE /\ UNCHANGED <<active, open>>
      BY <1>1, Zenon DEF Request
    <2>. QED  BY <2>1, <2>2, <2>3 DEF Others
  <1>2. ASSUME NEW j \in Job, Attach(j) PROVE OneFlight'
    <2>1. Others(j) /\ job'[j].pc = job[j].pc
      BY <1>0, <1>2, AttachMoves
    <2>2. active = j /\ UNCHANGED <<flight, active, open>>
      BY <1>2, Zenon DEF Attach
    <2>. QED  BY <2>1, <2>2 DEF Others
  <1>3. ASSUME NEW j \in Job, Settle(j) PROVE OneFlight'
    <2>1. /\ job[j].pc = "ended" /\ active' = None /\ UNCHANGED <<flight, open>>
          /\ Goto(j, "unlock")
      BY <1>3, Zenon DEF Settle
    <2>2. Others(j) /\ job'[j].pc = "unlock"
      BY <1>0, <2>1, Moves
    <2>. QED  BY <2>1, <2>2 DEF Others
  <1>4. ASSUME NEW j \in Job, Unlock(j) PROVE OneFlight'
    <2>1. /\ job[j].pc = "unlock" /\ flight' = FALSE /\ UNCHANGED <<active, open>>
          /\ Goto(j, "any") \/ Forget(j)
      BY <1>4, Zenon DEF Unlock
    <2>2. Others(j) /\ job'[j].pc \in {"any", "free"}
      BY <1>0, <2>1, Moves
    <2>. QED  BY <2>1, <2>2 DEF Others
  <1>5. ASSUME NEW j \in Job, AnyHook(j) \/ LoginHook(j) PROVE OneFlight'
    <2>1. /\ job[j].pc \in {"any", "hook"} /\ UNCHANGED <<flight, active, open>>
          /\ Goto(j, "hook") \/ Forget(j)
      BY <1>5, Zenon DEF AnyHook, LoginHook
    <2>2. Others(j) /\ job'[j].pc \in {"hook", "free"}
      BY <1>0, <2>1, Moves
    <2>. QED  BY <2>1, <2>2 DEF Others
  <1>6. ASSUME NEW j \in Job, TakeJob(j) PROVE OneFlight'
    <2>1. /\ job[j].pc = "queued" /\ Goto(j, "launch")
          /\ UNCHANGED <<flight, active, open>>
      BY <1>6, Zenon DEF TakeJob
    <2>2. Others(j) /\ job'[j].pc = "launch" /\ job'[j].callback = job[j].callback
      BY <1>0, <2>1, Moves
    <2>. QED  BY <2>1, <2>2 DEF Others
  <1>7. ASSUME NEW j \in Job, Launch(j) PROVE OneFlight'
    <2>1. /\ job[j].pc = "launch" /\ Goto(j, "page") /\ open' = j
          /\ UNCHANGED <<flight, active>>
      BY <1>7, Zenon DEF Launch
    <2>2. Others(j) /\ job'[j].pc = "page" /\ job'[j].callback = job[j].callback
      BY <1>0, <2>1, Moves
    <2>. QED  BY <2>1, <2>2 DEF Others
  <1>8. ASSUME NEW j \in Job, LaunchFails(j) PROVE OneFlight'
    <2>1. /\ job[j].pc = "launch" /\ End(j, "ended", "failed")
          /\ UNCHANGED <<flight, active, open>>
      BY <1>8, Zenon DEF LaunchFails
    <2>2. Others(j) /\ job'[j].pc = "ended" /\ job'[j].callback = job[j].callback
      BY <1>0, <2>1, Moves DEF Outcome
    <2>. QED  BY <2>1, <2>2 DEF Others
  <1>9. ASSUME NEW j \in Job, Reach(j) \/ NotReached(j) \/ ExportCookies(j)
        PROVE  OneFlight'
    <2>1. Failure(j) \in Outcome /\ {"updated", "bare"} \subseteq Outcome
      BY DEF Failure, Outcome
    <2>2. /\ job[j].pc \in {"page", "export"} /\ UNCHANGED <<flight, active, open>>
          /\ Goto(j, "export") \/ \E o \in Outcome : End(j, "close", o)
      BY <1>9, <2>1, Zenon DEF Reach, NotReached, ExportCookies, Outcome
    <2>3. /\ Others(j) /\ job'[j].pc \in {"export", "close"}
          /\ job'[j].callback = job[j].callback
      BY <1>0, <2>2, Moves
    <2>. QED  BY <2>2, <2>3 DEF Others
  <1>10. ASSUME NEW j \in Job, CloseBrowser(j) PROVE OneFlight'
    <2>1. /\ job[j].pc = "close" /\ Goto(j, "ended") /\ open' = None
          /\ UNCHANGED <<flight, active>>
      BY <1>10, Zenon DEF CloseBrowser
    <2>2. Others(j) /\ job'[j].pc = "ended" /\ job'[j].callback = job[j].callback
      BY <1>0, <2>1, Moves
    <2>. QED  BY <2>1, <2>2 DEF Others
  <1>11. CASE AuthCancel \/ CancelActiveJob
    <2>1. Kill /\ UNCHANGED <<flight, active, open>>
      BY <1>11, Zenon DEF AuthCancel, CancelActiveJob
    <2>2. \A k \in Job : job'[k].pc = job[k].pc /\ job'[k].callback = job[k].callback
      BY <1>0, <2>1, KillType
    <2>. QED  BY <2>1, <2>2
  <1>12. CASE ClosePool
    <2>1. \A k \in Job :
            /\ job'[k].pc = IF job[k].pc = "queued" THEN "ended" ELSE job[k].pc
            /\ job'[k].callback = job[k].callback
      <3>. TAKE k \in Job
      <3>1. job[k] \in JobType
        BY <1>0
      <3>2. job'[k] = IF job[k].pc = "queued"
                     THEN [job[k] EXCEPT !.pc = "ended", !.outcome = "failed"]
                     ELSE job[k]
        BY <1>12 DEF ClosePool
      <3>. QED  BY <3>1, <3>2 DEF JobType
    <2>2. UNCHANGED <<flight, active, open>>
      BY <1>12, Zenon DEF ClosePool
    <2>. QED  BY <2>1, <2>2
  <1>13. CASE Restart
    BY <1>13 DEF Restart, NoJob
  <1>14. CASE Expire \/ Boot \/ StopThreads \/ UNCHANGED vars
    BY <1>14 DEF Expire, Boot, StopThreads
  <1>15. ASSUME NEW j \in Job, Submit(j) PROVE OneFlight'
    <2>1. /\ job[j].pc = "locked" /\ Goto(j, "queued")
          /\ UNCHANGED <<flight, active, open>>
      BY <1>15, Zenon DEF Submit
    <2>2. Others(j) /\ job'[j].pc = "queued" /\ job'[j].callback = job[j].callback
      BY <1>0, <2>1, Moves
    <2>. QED  BY <2>1, <2>2 DEF Others
  <1>16. ASSUME NEW j \in Job, Refuse(j) PROVE OneFlight'
    <2>1. /\ job[j].pc = "locked" /\ Forget(j) /\ flight' = FALSE
          /\ UNCHANGED <<active, open>>
      BY <1>16, Zenon DEF Refuse
    <2>2. Others(j) /\ job'[j].pc = "free"
      BY <1>0, <2>1, Moves
    <2>. QED  BY <2>1, <2>2 DEF Others
  <1>17. ASSUME NEW j \in Job, Track(j) PROVE OneFlight'
    <2>1. /\ job[j].pc \notin {"free", "locked"} /\ job[j].callback = "none"
          /\ active' = j /\ UNCHANGED <<flight, job, open>>
      BY <1>17, Zenon DEF Track, Submitted
    <2>2. job[j].pc \notin {"unlock", "any", "hook"}
      BY <2>1 DEF PoolInv
    <2>. QED  BY <2>1, <2>2
  <1>. QED  BY <1>1, <1>2, <1>3, <1>4, <1>5, <1>6, <1>7, <1>8, <1>9, <1>10,
               <1>11, <1>12, <1>13, <1>14, <1>15, <1>16, <1>17 DEF Next, JobStep, AuthStart, AuthRefresh

\* The flight lock, the future that status() asks and the browser a cancel
\* would close belong to one and the same job, at any point between its request
\* and its settling.
THEOREM SingleFlight == Spec => []OneFlight
  <1>1. /\ LoginTypeOK /\ PoolInv /\ OneFlight /\ [Next]_vars
        => (LoginTypeOK /\ PoolInv /\ OneFlight)'
    BY TypeStep, PoolStep, OneFlightStep
  <1>. QED  BY TypeInit, PoolInit, OneFlightInit, <1>1, PTL DEF Spec
=============================================================================
