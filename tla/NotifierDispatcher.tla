------------------------- MODULE NotifierDispatcher -------------------------
(***************************************************************************)
(* Durable notification delivery: the bounded in-memory queue the monitor  *)
(* cycle feeds (dispatch), the single consumer thread that drains it and   *)
(* sweeps stale pending rows (consumer_loop), the notifications table with *)
(* one short transaction per operation, Do-Not-Disturb, the email          *)
(* suppression filters, shutdown, and crashes at every point between two   *)
(* transactions.                                                           *)
(*                                                                         *)
(* The row of a slot survives a restart; the queue and the consumer's      *)
(* local variables do not.                                                 *)
(***************************************************************************)
EXTENDS Naturals, Sequences, SmtpDelivery

CONSTANTS Lot,               \* lot ids
          Recipient,         \* configurable email addresses
          Local,             \* the pseudo-recipient of the browser channel
          MaxTotalAttempts,  \* MAX_TOTAL_ATTEMPTS
          RetryAttempts,     \* retry_attempts
          QueueSize,         \* max_queue_size
          MaxFailures,       \* bound: crashes, thread deaths and lost replies explored
          NoLot, NoSlot      \* no lot in hand, no slot in hand

RegisteredChannels == <<"email", "browser">>

Target == ({"email"} \X Recipient) \cup {<<"browser", Local>>}
Slot == Lot \X Target

ASSUME CapAssumption == MaxTotalAttempts \in Nat \ {0}
ASSUME RetryAssumption == RetryAttempts \in Nat \ {0}
ASSUME BoundAssumption == QueueSize \in Nat /\ MaxFailures \in Nat
ASSUME NoLotAssumption == NoLot \notin Lot
ASSUME NoSlotAssumption == NoSlot \notin Slot

VARIABLES
  status,      \* row of each slot: its status, "none" when there is no row
  attempt_no,  \* row of each slot: mark_attempt count
  aged,        \* pending rows whose last_attempt_at is older than recovery_age
  queue,       \* in-memory queue of lots
  dnd,         \* the DnD window is open
  recipients,  \* config.notifications.email.recipients
  suppressed,  \* lots the email filter chain suppresses at this moment
  stop,        \* stop_event
  pc,          \* where the consumer thread stands
  lot,         \* lot taken from the queue, NoLot during recovery
  todo,        \* channels still to visit for lot
  left,        \* recipients still to visit in the current channel
  sweep,       \* rest of the recovery snapshot
  cur,         \* slot _send_one works on
  tried,       \* attempts made by this _send_one
  result,      \* what notifier.send returned
  calls,       \* history: delivery calls made for each slot
  acked,       \* history: messages of each slot that arrived
  failures     \* history: crashes, thread deaths and lost replies so far

rowVars == <<status, attempt_no, aged>>
settingVars == <<dnd, recipients, suppressed>>
visitVars == <<lot, todo, left, sweep>>
sendVars == <<cur, tried, result>>
historyVars == <<calls, acked, failures>>
vars == <<rowVars, queue, settingVars, stop, pc, visitVars, sendVars,
          historyVars>>

Terminal == {"sent", "permanent_fail"}
Status == {"none", "pending"} \cup Terminal
Result == {"ok", "retryable", "fatal"}

Sending == {"attempt", "cap", "send", "record", "backoff"}
Running == {"loop", "channels", "recipients", "recover", "sweep", "check"}
             \cup Sending
PC == Running \cup {"stopped", "dead", "down"}

Init ==
  /\ status = [s \in Slot |-> "none"]
  /\ attempt_no = [s \in Slot |-> 0]
  /\ aged = {}
  /\ queue = <<>>
  /\ dnd = FALSE
  /\ recipients \in SUBSET Recipient
  /\ suppressed \in SUBSET Lot
  /\ stop = FALSE
  /\ pc = "loop"
  /\ lot = NoLot /\ todo = <<>> /\ left = {} /\ sweep = {}
  /\ cur = NoSlot /\ tried = 0 /\ result = "none"
  /\ calls = [s \in Slot |-> 0]
  /\ acked = [s \in Slot |-> 0]
  /\ failures = 0

-----------------------------------------------------------------------------
(* The notifications table and the filters, as the consumer reads them.    *)

TargetsOf(channel) ==
  IF channel = "email" THEN {"email"} \X recipients
                       ELSE {<<"browser", Local>>}

\* should_suppress of the registered notifier: only the email chain has one.
ShouldSuppress(s) == s[2][1] = "email" /\ s[1] \in suppressed

\* mark_sent and mark_permanent_fail: no-op unless the row is pending.
MarkRow(s, st) ==
  /\ status' = IF status[s] = "pending" THEN [status EXCEPT ![s] = st]
                                        ELSE status
  /\ aged' = aged \ {s}
  /\ UNCHANGED attempt_no

\* Mutant: the zombie clause (last_attempt_at IS NULL) is left out.
ListPendingOlderThan_NoZombies ==
  {s \in Slot : status[s] = "pending" /\ s \in aged}

\* list_pending_older_than(recovery_age), zombie reserves included.
ListPendingOlderThan ==
  {s \in Slot : status[s] = "pending" /\ (attempt_no[s] = 0 \/ s \in aged)}

\* What send may report, and whether the recipient has the message then.  The
\* browser channel publishes and never fails, and an email that the filter chain
\* suppresses inside send() is reported as delivered.
SendOutcome(s) ==
  CASE s[2][1] = "browser" -> {Outcome("ok", TRUE)}
    [] ShouldSuppress(s)      -> {Outcome("ok", FALSE)}
    [] OTHER -> {o \in MailOutcomes : o.result # "raised"}

\* _send_one returns to the loop that called it.
ReturnFromSend ==
  /\ pc' = IF lot = NoLot THEN "sweep" ELSE "recipients"
  /\ cur' = NoSlot /\ tried' = 0 /\ result' = "none"

-----------------------------------------------------------------------------
(* Producer: the monitor-cycle thread.                                     *)

Dispatch(l) ==
  /\ pc # "down"
  /\ queue' = IF Len(queue) < QueueSize THEN Append(queue, l) ELSE queue
  /\ UNCHANGED <<rowVars, settingVars, stop, pc, visitVars, sendVars,
                 historyVars>>

-----------------------------------------------------------------------------
(* consumer_loop                                                           *)

\* The stop flag is read at the top of the loop and between two swept rows.
LeaveLoop ==
  /\ stop
  /\ pc = "loop" \/ (pc = "sweep" /\ sweep # {})
  /\ pc' = "stopped"
  /\ UNCHANGED <<rowVars, queue, settingVars, stop, visitVars, sendVars,
                 historyVars>>

\* A lot taken while DnD is active is dropped.
TakeLot ==
  /\ pc = "loop" /\ ~stop
  /\ queue # <<>>
  /\ queue' = Tail(queue)
  /\ IF dnd THEN /\ pc' = "recover"
                 /\ UNCHANGED <<lot, todo>>
            ELSE /\ pc' = "channels"
                 /\ lot' = Head(queue)
                 /\ todo' = RegisteredChannels
  /\ UNCHANGED <<rowVars, settingVars, stop, left, sweep, sendVars,
                 historyVars>>

QueueTimeout ==
  /\ pc = "loop" /\ ~stop
  /\ queue = <<>>
  /\ pc' = "recover"
  /\ UNCHANGED <<rowVars, queue, settingVars, stop, visitVars, sendVars,
                 historyVars>>

\* _dispatch_all_channels: the recipients are read when a channel is reached.
NextChannel ==
  /\ pc = "channels"
  /\ IF todo = <<>>
       THEN /\ pc' = "recover"
            /\ lot' = NoLot
            /\ UNCHANGED <<todo, left>>
       ELSE /\ pc' = "recipients"
            /\ left' = TargetsOf(Head(todo))
            /\ todo' = Tail(todo)
            /\ UNCHANGED lot
  /\ UNCHANGED <<rowVars, queue, settingVars, stop, sweep, sendVars,
                 historyVars>>

\* Mutant: a channel without recipients ends the whole dispatch.
NextRecipient_Returns ==
  /\ pc = "recipients"
  /\ \/ /\ left = {}
        /\ pc' = "recover"
        /\ lot' = NoLot
        /\ UNCHANGED <<left, cur>>
     \/ \E t \in left : /\ left' = left \ {t}
                        /\ cur' = <<lot, t>>
                        /\ pc' = "check"
                        /\ UNCHANGED lot
  /\ UNCHANGED <<rowVars, queue, settingVars, stop, todo, sweep, tried, result,
                 historyVars>>

NextRecipient ==
  /\ pc = "recipients"
  /\ \/ /\ left = {}
        /\ pc' = "channels"
        /\ UNCHANGED <<left, cur>>
     \/ \E t \in left : /\ left' = left \ {t}
                        /\ cur' = <<lot, t>>
                        /\ pc' = "check"
  /\ UNCHANGED <<rowVars, queue, settingVars, stop, lot, todo, sweep, tried,
                 result, historyVars>>

StartRecovery ==
  /\ pc = "recover"
  /\ sweep' = ListPendingOlderThan
  /\ pc' = "sweep"
  /\ UNCHANGED <<rowVars, queue, settingVars, stop, lot, todo, left, sendVars,
                 historyVars>>

\* _retry_one: no DnD check, and the recipient need not be configured any more.
NextPending ==
  /\ pc = "sweep"
  /\ \/ /\ sweep = {}
        /\ pc' = "loop"
        /\ UNCHANGED <<sweep, cur>>
     \/ /\ ~stop
        /\ \E s \in sweep : /\ sweep' = sweep \ {s}
                            /\ cur' = s
                            /\ pc' = "check"
  /\ UNCHANGED <<rowVars, queue, settingVars, stop, lot, todo, left, tried,
                 result, historyVars>>

-----------------------------------------------------------------------------
(* _send_one                                                               *)

\* Step 0: a suppressed slot leaves no row, and a pending one is closed.
Suppress ==
  /\ pc = "check"
  /\ ShouldSuppress(cur)
  /\ MarkRow(cur, "permanent_fail")
  /\ ReturnFromSend
  /\ UNCHANGED <<queue, settingVars, stop, visitVars, historyVars>>

\* Mutant: the terminal status is not looked at (INSERT OR REPLACE).
Reserve_Reopens ==
  /\ pc = "check"
  /\ ~ShouldSuppress(cur)
  /\ status' = [status EXCEPT ![cur] = "pending"]
  /\ pc' = "attempt"
  /\ UNCHANGED <<attempt_no, aged, queue, settingVars, stop, visitVars, sendVars,
                 historyVars>>

\* Step 1: a terminal slot is skipped, an absent one gets its row.
Reserve ==
  /\ pc = "check"
  /\ ~ShouldSuppress(cur)
  /\ IF status[cur] \in Terminal
       THEN ReturnFromSend /\ UNCHANGED status
       ELSE /\ status' = [status EXCEPT ![cur] = "pending"]
            /\ pc' = "attempt"
            /\ UNCHANGED sendVars
  /\ UNCHANGED <<attempt_no, aged, queue, settingVars, stop, visitVars,
                 historyVars>>

\* Mutant: the cap compares the count from before the increment.
MarkAttempt_CapOffByOne ==
  /\ pc = "attempt"
  /\ status[cur] = "pending"
  /\ attempt_no' = [attempt_no EXCEPT ![cur] = @ + 1]
  /\ aged' = aged \ {cur}
  /\ pc' = IF attempt_no[cur] > MaxTotalAttempts THEN "cap" ELSE "send"
  /\ UNCHANGED <<status, queue, settingVars, stop, visitVars, sendVars,
                 historyVars>>

\* Step 2: the attempt is counted before the send it pays for.
MarkAttempt ==
  /\ pc = "attempt"
  /\ IF status[cur] = "pending"
       THEN /\ attempt_no' = [attempt_no EXCEPT ![cur] = @ + 1]
            /\ aged' = aged \ {cur}
            /\ pc' = IF attempt_no[cur] + 1 > MaxTotalAttempts
                       THEN "cap" ELSE "send"
            /\ UNCHANGED sendVars
       ELSE ReturnFromSend /\ UNCHANGED <<attempt_no, aged>>
  /\ UNCHANGED <<status, queue, settingVars, stop, visitVars, historyVars>>

CapReached ==
  /\ pc = "cap"
  /\ MarkRow(cur, "permanent_fail")
  /\ ReturnFromSend
  /\ UNCHANGED <<queue, settingVars, stop, visitVars, historyVars>>

\* notifier.send, between two transactions.  A message that arrived while the
\* answer got lost counts as a failure.
Send ==
  /\ pc = "send"
  /\ \E o \in SendOutcome(cur) :
       /\ result' = o.result
       /\ acked' = IF o.accepted THEN [acked EXCEPT ![cur] = @ + 1] ELSE acked
       /\ failures' = IF o.accepted /\ o.result # "ok" THEN failures + 1 ELSE failures
       /\ failures' <= MaxFailures
  /\ calls' = [calls EXCEPT ![cur] = @ + 1]
  /\ pc' = "record"
  /\ UNCHANGED <<rowVars, queue, settingVars, stop, visitVars, cur, tried>>

\* Mutant: mark_sent is forgotten.
RecordResult_NotRecorded ==
  /\ pc = "record"
  /\ \/ result = "ok" /\ UNCHANGED rowVars /\ ReturnFromSend
     \/ result = "fatal" /\ MarkRow(cur, "permanent_fail") /\ ReturnFromSend
     \/ result = "retryable" /\ pc' = "backoff" /\ UNCHANGED <<rowVars, sendVars>>
  /\ UNCHANGED <<queue, settingVars, stop, visitVars, historyVars>>

RecordResult ==
  /\ pc = "record"
  /\ \/ result = "ok" /\ MarkRow(cur, "sent") /\ ReturnFromSend
     \/ result = "fatal" /\ MarkRow(cur, "permanent_fail") /\ ReturnFromSend
     \/ result = "retryable" /\ pc' = "backoff" /\ UNCHANGED <<rowVars, sendVars>>
  /\ UNCHANGED <<queue, settingVars, stop, visitVars, historyVars>>

\* stop_event.wait(delay); when the attempts run out the row stays pending.
Backoff ==
  /\ pc = "backoff"
  /\ IF stop \/ tried + 1 >= RetryAttempts
       THEN ReturnFromSend
       ELSE /\ pc' = "attempt"
            /\ tried' = tried + 1
            /\ result' = "none"
            /\ UNCHANGED cur
  /\ UNCHANGED <<rowVars, queue, settingVars, stop, visitVars, historyVars>>

ConsumerStep ==
  \/ LeaveLoop \/ TakeLot \/ QueueTimeout \/ NextChannel \/ NextRecipient
  \/ StartRecovery \/ NextPending \/ Suppress \/ Reserve \/ MarkAttempt
  \/ CapReached \/ Send \/ RecordResult \/ Backoff

-----------------------------------------------------------------------------
(* Time, settings, shutdown and failure.                                   *)

\* recovery_age passes after the last attempt on s.
Age(s) ==
  /\ status[s] = "pending" /\ attempt_no[s] > 0 /\ s \notin aged
  /\ aged' = aged \cup {s}
  /\ UNCHANGED <<status, attempt_no, queue, settingVars, stop, pc, visitVars,
                 sendVars, historyVars>>

\* set_dnd_until, and the window closing by itself.
ToggleDnd ==
  /\ dnd' = ~dnd
  /\ UNCHANGED <<rowVars, queue, recipients, suppressed, stop, pc, visitVars,
                 sendVars, historyVars>>

\* A saved configuration or a changed subscription.
ChangeSettings ==
  /\ \/ recipients' \in SUBSET Recipient /\ UNCHANGED suppressed
     \/ suppressed' \in SUBSET Lot /\ UNCHANGED recipients
  /\ UNCHANGED <<rowVars, queue, dnd, stop, pc, visitVars, sendVars,
                 historyVars>>

Shutdown ==
  /\ pc # "down" /\ ~stop
  /\ stop' = TRUE
  /\ UNCHANGED <<rowVars, queue, settingVars, pc, visitVars, sendVars,
                 historyVars>>

\* What a process that is gone leaves behind.
LoseMemory ==
  /\ queue' = <<>> /\ stop' = FALSE
  /\ lot' = NoLot /\ todo' = <<>> /\ left' = {} /\ sweep' = {}
  /\ cur' = NoSlot /\ tried' = 0 /\ result' = "none"

\* An exception leaves consumer_loop: a repository call raised, or
\* SmtpHostPolicyError came out of send.  Nothing restarts the thread.
ThreadDies ==
  /\ pc \in Running \ {"backoff"}
  /\ failures < MaxFailures
  /\ failures' = failures + 1
  /\ pc' = "dead"
  /\ UNCHANGED <<rowVars, queue, settingVars, stop, visitVars, sendVars, calls,
                 acked>>

Crash ==
  /\ pc # "down"
  /\ failures < MaxFailures
  /\ failures' = failures + 1
  /\ pc' = "down"
  /\ LoseMemory
  /\ UNCHANGED <<rowVars, settingVars, calls, acked>>

\* The lifespan's shutdown ends once the consumer has left its loop.
Exit ==
  /\ stop /\ pc \in {"stopped", "dead"}
  /\ pc' = "down"
  /\ LoseMemory
  /\ UNCHANGED <<rowVars, settingVars, historyVars>>

Restart ==
  /\ pc = "down"
  /\ pc' = "loop"
  /\ UNCHANGED <<rowVars, queue, settingVars, stop, visitVars, sendVars,
                 historyVars>>

Next ==
  \/ \E l \in Lot : Dispatch(l)
  \/ ConsumerStep
  \/ \E s \in Slot : Age(s)
  \/ ToggleDnd \/ ChangeSettings
  \/ Shutdown \/ ThreadDies \/ Crash \/ Exit \/ Restart

\* The operating system runs the thread, every blocking call in it has a
\* timeout, and time passes.
Fairness == WF_vars(ConsumerStep) /\ \A s \in Slot : WF_vars(Age(s))

Spec == Init /\ [][Next]_vars
FairSpec == Spec /\ Fairness
-----------------------------------------------------------------------------
(* Properties                                                              *)

TypeOK ==
  /\ status \in [Slot -> Status]
  /\ attempt_no \in [Slot -> Nat]
  /\ aged \subseteq Slot
  /\ queue \in Seq(Lot)
  /\ dnd \in BOOLEAN /\ stop \in BOOLEAN
  /\ recipients \subseteq Recipient
  /\ suppressed \subseteq Lot
  /\ pc \in PC
  /\ lot \in Lot \cup {NoLot}
  /\ todo \in Seq({"email", "browser"})
  /\ left \subseteq Target
  /\ sweep \subseteq Slot
  /\ cur \in Slot \cup {NoSlot}
  /\ tried \in Nat
  /\ result \in Result \cup {"none"}
  /\ calls \in [Slot -> Nat]
  /\ acked \in [Slot -> Nat]
  /\ failures \in 0..MaxFailures

\* MAX_TOTAL_ATTEMPTS bounds the delivery calls of a slot over all the lives
\* of the process, because mark_attempt commits before send runs
\* (notifier_dispatcher.py, _send_one).
CallsCapped == \A s \in Slot : calls[s] <= MaxTotalAttempts

\* A recipient gets a message a second time only if the process or the thread
\* failed between its arrival and mark_sent, or the server's answer to it was
\* lost: each failure pays for at most one duplicate (ADR-019, R4-C5).
DuplicatesNeedFailures == \A s \in Slot : acked[s] <= 1 + failures

\* A mail, and the password with it, goes to an address the policy permits, even if
\* DNS lists another one first, or has changed since the settings were stored, or
\* the address hides in an IPv6 one (host_policy.resolve_and_check, asked by
\* every send).
MailGoesToPermitted == pc = "send" /\ cur[2][1] = "email" => PinnedIsPermitted

\* A verdict that closes a slot is true: "ok" only if the server took the mail, and
\* never "fatal" if it did, whichever step of the dialogue a fault or a time-out
\* hits (email_notifier._deliver).
VerdictsAreTrue ==
  [][Send => /\ result' = "fatal" => acked' = acked
             /\ result' = "ok" /\ cur[2][1] = "email" /\ ~ShouldSuppress(cur) =>
                  acked'[cur] > acked[cur]]_vars

\* The table and the delivery calls implement the slot state machine: rows never
\* leave a terminal status, terminal slots are never sent again, and only a
\* slot that was sent at least once becomes "sent".
StateMachine == INSTANCE NotificationStateMachine WITH status <- status, calls <- calls
ImplementsStateMachine == StateMachine!Spec

\* While the consumer thread lives, a pending row (zombie reserves included)
\* is eventually closed: recovery finds it and the cap ends it.
PendingIsResolved ==
  \A s \in Slot :
    status[s] = "pending" ~> (status[s] \in Terminal \/ pc \notin Running)

\* A queued lot reaches the browser channel's table unless DnD drops it or the
\* thread ends first: recovery work never starves the queue.
QueuedLotIsServed ==
  \A l \in Lot :
    (\E i \in DOMAIN queue : queue[i] = l)
      ~> (status[<<l, <<"browser", Local>>>>] # "none" \/ dnd \/ pc \notin Running)

-----------------------------------------------------------------------------
(* The inductive invariant behind the safety properties.                   *)

\* What the consumer holds where it stands; the row in hand is pending because
\* no other thread writes the table.
InHand ==
  /\ pc \in Sending \cup {"check"} => cur \in Slot
  /\ pc \in {"channels", "recipients"} => lot \in Lot
  /\ pc \in Sending => status[cur] = "pending"
  /\ pc = "record" => result \in Result

\* Each call was paid for by an attempt, and the attempt in hand is in the cap.
CallsArePaid ==
  /\ \A s \in Slot : calls[s] <= attempt_no[s] /\ calls[s] <= MaxTotalAttempts
  /\ pc = "send" => /\ calls[cur] < attempt_no[cur]
                    /\ attempt_no[cur] <= MaxTotalAttempts
  /\ pc = "record" => calls[cur] > 0

\* The message of an open slot arrived once per failure at most, unless the
\* answer that says so is the result in hand.
AcksAreRecorded ==
  \A s \in Slot :
    /\ acked[s] <= 1 + failures
    /\ status[s] \notin Terminal /\ ~(pc = "record" /\ cur = s /\ result = "ok")
         => acked[s] <= failures

IInv == TypeOK /\ InHand /\ CallsArePaid /\ AcksAreRecorded
=============================================================================
