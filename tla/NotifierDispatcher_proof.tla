----------------------- MODULE NotifierDispatcher_proof -----------------------
(***************************************************************************)
(* Proofs about NotifierDispatcher, for every set of lots and recipients   *)
(* and every value of the bounds.                                          *)
(***************************************************************************)
EXTENDS NotifierDispatcher, TLAPS

-----------------------------------------------------------------------------
(* A mail, from the stored credentials to the verdict (SmtpDelivery).      *)

LEMMA UnwrappedTyped == \A a \in Address : Unwrapped(a) \in Plain
BY DEF Address, Plain, Unwrapped

LEMMA PinnedChecked ==
  ASSUME NEW n \in Nat, NEW addresses \in [1..n -> Address], NEW host, NEW port,
         Pinned(addresses, host, port) # PolicyError
  PROVE  /\ Pinned(addresses, host, port).ip = "public"
         /\ Pinned(addresses, host, port).port = port
<1>1. addresses # <<>> /\ \A i \in DOMAIN addresses : Unwrapped(addresses[i]) = "public"
  BY DEF Pinned
<1>2. n # 0
  BY <1>1
<1>3. 1 \in DOMAIN addresses
  BY <1>2
<1> QED
  BY <1>1, <1>3 DEF Pinned

LEMMA ResolvedChecked ==
  ASSUME NEW host \in Host, NEW port, NEW answer \in Answer,
         resolve_and_check(host, port, answer) # PolicyError
  PROVE  /\ resolve_and_check(host, port, answer).ip = "public"
         /\ resolve_and_check(host, port, answer).port = port
<1> DEFINE addresses == IF host = "name" THEN answer ELSE <<host>>
<1>1. \E n \in Nat : addresses \in [1..n -> Address]
  <2>1. CASE host = "name"
    <3>1. PICK n \in 0..2 : answer \in [1..n -> Address]
      BY DEF Answer
    <3> QED
      BY <2>1, <3>1
  <2>2. CASE host \in Address
    <3>1. host # "name"
      BY <2>2 DEF Address, Plain
    <3>2. <<host>> \in [1..1 -> Address]
      BY <2>2
    <3> QED
      BY <3>1, <3>2
  <2>3. host # "refused"
    BY DEF resolve_and_check
  <2> QED
    BY <2>1, <2>2, <2>3 DEF Host
<1>2. resolve_and_check(host, port, answer) = Pinned(addresses, host, port)
  BY DEF resolve_and_check
<1> HIDE DEF addresses
<1> QED
  BY <1>1, <1>2, PinnedChecked

LEMMA SetTyped ==
  ASSUME NEW creds \in Credentials, NEW answer
  PROVE  set_smtp_credentials(NoCredentials, creds, answer) \in Credentials \cup {NoCredentials}
BY DEF set_smtp_credentials

LEMMA StoredTyped == \A row \in smtp_credentials \ {NoCredentials} : row \in Credentials
<1> SUFFICES ASSUME NEW row \in smtp_credentials
             PROVE  row \in Credentials \cup {NoCredentials}
  OBVIOUS
<1>1. PICK creds \in Credentials, answer \in Answer :
        row = set_smtp_credentials(NoCredentials, creds, answer)
  BY DEF smtp_credentials
<1> QED
  BY <1>1, SetTyped

LEMMA CredentialsTyped == \A row \in Credentials : row.host \in Host /\ row.port \in Port
BY DEF Credentials

LEMMA ClassifyTyped == \A d : Classify(d) \in {"ok", "retryable", "fatal"}
BY DEF Classify

(* A mail is judged by its dialogue or not tried at all.                   *)
LEMMA OutcomeSource ==
  ASSUME NEW o \in MailOutcomes
  PROVE  \/ o.result \in {"fatal", "raised"} /\ o.accepted = FALSE
         \/ \E port : \E d \in Dialogues(port) :
              o.result = Classify(d) /\ o.accepted = Accepted(d)
<1>1. PICK row \in smtp_credentials, answer \in Answer : o \in send(row, answer)
  BY DEF MailOutcomes
<1>2. \/ o = Outcome("fatal", FALSE) \/ o = Outcome("raised", FALSE)
      \/ \E endpoint : o \in deliver(endpoint)
  BY <1>1 DEF send
<1>3. ASSUME NEW endpoint, o \in deliver(endpoint)
      PROVE  \E port : \E d \in Dialogues(port) :
               o.result = Classify(d) /\ o.accepted = Accepted(d)
  <2>1. PICK d \in Dialogues(endpoint.port) : o = Outcome(Classify(d), Accepted(d))
    BY <1>3 DEF deliver
  <2>2. o.result = Classify(d) /\ o.accepted = Accepted(d)
    BY <2>1, Zenon DEF Outcome
  <2> QED
    BY <2>2
<1> QED
  BY <1>2, <1>3 DEF Outcome

LEMMA MailTyped ==
  \A o \in MailOutcomes : o.result \in {"ok", "retryable", "fatal", "raised"}
BY OutcomeSource, ClassifyTyped

-----------------------------------------------------------------------------
(* Whatever DNS listed when the settings were stored, and whatever it lists *)
(* for the mail, the address connected to is one the policy permits         *)
(* (host_policy.resolve_and_check).                                         *)
LEMMA ConnectsToPermitted == PinnedIsPermitted
<1> SUFFICES ASSUME NEW endpoint \in Endpoints
             PROVE  endpoint.ip = "public"
  BY DEF PinnedIsPermitted
<1>1. PICK row \in smtp_credentials \ {NoCredentials}, answer \in Answer :
        endpoint = resolve_and_check(row.host, row.port, answer) /\ endpoint # PolicyError
  BY DEF Endpoints
<1>2. row.host \in Host
  BY <1>1, StoredTyped, CredentialsTyped
<1> QED
  BY <1>1, <1>2, ResolvedChecked

(* A slot is closed as sent only if the server took the mail, and as       *)
(* failed for good only if it did not, at whatever step of whatever        *)
(* dialogue the fault hits (email_notifier._deliver).                      *)
LEMMA ClosingVerdictsAreTrue == ClosingIsTrue
<1> SUFFICES ASSUME NEW o \in MailOutcomes
             PROVE  /\ o.result = "ok" => o.accepted
                    /\ o.result = "fatal" => ~o.accepted
  BY DEF ClosingIsTrue
<1>1. ASSUME NEW d
      PROVE  /\ Classify(d) = "ok" => Accepted(d)
             /\ Classify(d) = "fatal" => ~Accepted(d)
  BY DEF Classify, Raised, Accepted
<1> QED
  BY <1>1, OutcomeSource

-----------------------------------------------------------------------------
(* The dispatcher                                                          *)

LEMMA OutcomeTyped == \A s : \A o \in SendOutcome(s) : o.result \in Result
BY MailTyped DEF SendOutcome, Outcome, Result

LEMMA RegisteredTyped == RegisteredChannels \in Seq({"email", "browser"})
BY DEF RegisteredChannels

LEMMA TargetsTyped ==
  ASSUME recipients \subseteq Recipient, NEW c
  PROVE  TargetsOf(c) \subseteq Target
BY DEF TargetsOf, Target

LEMMA SlotOf == \A l \in Lot : \A t \in Target : <<l, t>> \in Slot
BY DEF Slot

LEMMA InitInv == Init => IInv
<1> SUFFICES ASSUME Init PROVE IInv
  OBVIOUS
<1>1. TypeOK
  <2>1. status \in [Slot -> Status] /\ attempt_no \in [Slot -> Nat]
    BY DEF Init, Status
  <2>2. calls \in [Slot -> Nat] /\ acked \in [Slot -> Nat]
    BY DEF Init
  <2>3. queue \in Seq(Lot) /\ todo \in Seq({"email", "browser"})
    BY DEF Init
  <2>4. pc \in PC /\ failures \in 0..MaxFailures
    BY BoundAssumption DEF Init, PC, Running
  <2> QED
    BY <2>1, <2>2, <2>3, <2>4 DEF Init, TypeOK
<1>2. InHand
  BY DEF Init, InHand, Sending
<1>3. CallsArePaid
  BY CapAssumption DEF Init, CallsArePaid
<1>4. AcksAreRecorded
  BY DEF Init, AcksAreRecorded
<1> QED
  BY <1>1, <1>2, <1>3, <1>4 DEF IInv

LEMMA TypeStep == TypeOK /\ InHand /\ [Next]_vars => TypeOK'
<1> SUFFICES ASSUME TypeOK /\ InHand, [Next]_vars
             PROVE  TypeOK'
  OBVIOUS
<1>1. ASSUME NEW l \in Lot, Dispatch(l) PROVE TypeOK'
  BY <1>1, SMT
  DEF vars, rowVars, settingVars, visitVars, sendVars, historyVars, Dispatch, TypeOK, InHand, PC, Running, Sending, Status, Terminal
<1>2. CASE LeaveLoop
  BY <1>2, SMT
  DEF vars, rowVars, settingVars, visitVars, sendVars, historyVars, LeaveLoop, TypeOK, InHand, PC, Running, Sending, Status, Terminal
<1>3. CASE TakeLot
  BY <1>3, RegisteredTyped, SMT
  DEF vars, rowVars, settingVars, visitVars, sendVars, historyVars, TakeLot, TypeOK, InHand, PC, Running, Sending, Status, Terminal
<1>4. CASE QueueTimeout
  BY <1>4, SMT
  DEF vars, rowVars, settingVars, visitVars, sendVars, historyVars, QueueTimeout, TypeOK, InHand, PC, Running, Sending, Status, Terminal
<1>5. CASE NextChannel
  <2>1. CASE todo = <<>>
    BY <1>5, <2>1 DEF NextChannel, TypeOK, PC, Running, rowVars, settingVars,
                      sendVars, historyVars
  <2>2. CASE todo # <<>>
    <3>1. Tail(todo) \in Seq({"email", "browser"})
      BY <2>2 DEF TypeOK
    <3>2. left' \subseteq Target
      BY <1>5, <2>2, TargetsTyped DEF NextChannel, TypeOK
    <3> QED
      BY <1>5, <2>2, <3>1, <3>2 DEF NextChannel, TypeOK, PC, Running, rowVars,
                      settingVars, sendVars, historyVars
  <2> QED
    BY <2>1, <2>2
<1>6. CASE NextRecipient
  BY <1>6, SlotOf, SMT
  DEF vars, rowVars, settingVars, visitVars, sendVars, historyVars, NextRecipient, TypeOK, InHand, PC, Running, Sending, Status, Terminal
<1>7. CASE StartRecovery
  BY <1>7, SMT
  DEF vars, rowVars, settingVars, visitVars, sendVars, historyVars, StartRecovery, TypeOK, InHand, PC, Running, Sending, Status, Terminal, ListPendingOlderThan
<1>8. CASE NextPending
  BY <1>8, SMT
  DEF vars, rowVars, settingVars, visitVars, sendVars, historyVars, NextPending, TypeOK, InHand, PC, Running, Sending, Status, Terminal
<1>9. CASE Suppress
  BY <1>9, SMT
  DEF vars, rowVars, settingVars, visitVars, sendVars, historyVars, Suppress, MarkRow, ReturnFromSend, TypeOK, InHand, PC, Running, Sending, Status, Terminal
<1>10. CASE Reserve
  <2>1. cur \in Slot
    BY <1>10 DEF Reserve, InHand
  <2>2. status' \in [Slot -> Status]
    BY <1>10, <2>1 DEF Reserve, TypeOK, Status
  <2>3. /\ pc' \in PC /\ cur' \in Slot \cup {NoSlot} /\ tried' \in Nat
        /\ result' \in Result \cup {"none"}
    BY <1>10, <2>1 DEF Reserve, ReturnFromSend, TypeOK, PC, Running, Sending,
                      sendVars
  <2> QED
    BY <1>10, <2>2, <2>3 DEF Reserve, TypeOK, settingVars, visitVars, historyVars
<1>11. CASE MarkAttempt
  <2>1. cur \in Slot
    BY <1>11 DEF MarkAttempt, InHand, Sending
  <2>2. /\ attempt_no' = [attempt_no EXCEPT ![cur] = attempt_no[cur] + 1]
        /\ aged' = aged \ {cur}
    BY <1>11 DEF MarkAttempt, InHand, Sending
  <2>4. attempt_no' \in [Slot -> Nat] /\ aged' \subseteq Slot
    BY <2>1, <2>2 DEF TypeOK
  <2>3. /\ pc' \in PC /\ cur' \in Slot \cup {NoSlot} /\ tried' \in Nat
        /\ result' \in Result \cup {"none"}
    BY <1>11, <2>1 DEF MarkAttempt, ReturnFromSend, TypeOK, PC, Running, Sending,
                      sendVars
  <2> QED
    BY <1>11, <2>4, <2>3 DEF MarkAttempt, TypeOK, settingVars, visitVars,
                      historyVars
<1>12. CASE CapReached
  BY <1>12, SMT
  DEF vars, rowVars, settingVars, visitVars, sendVars, historyVars, CapReached, MarkRow, ReturnFromSend, TypeOK, InHand, PC, Running, Sending, Status, Terminal
<1>13. CASE Send
  BY <1>13, OutcomeTyped, SMT
  DEF vars, rowVars, settingVars, visitVars, sendVars, historyVars, Send, TypeOK, InHand, PC, Running, Sending, Status, Terminal
<1>14. CASE RecordResult
  <2>1. cur \in Slot
    BY <1>14 DEF RecordResult, InHand, Sending
  <2>2. /\ status' \in [Slot -> Status] /\ attempt_no' \in [Slot -> Nat]
        /\ aged' \subseteq Slot
    BY <1>14, <2>1 DEF RecordResult, MarkRow, TypeOK, Status, Terminal, rowVars
  <2>3. /\ pc' \in PC /\ cur' \in Slot \cup {NoSlot} /\ tried' \in Nat
        /\ result' \in Result \cup {"none"}
    BY <1>14, <2>1 DEF RecordResult, ReturnFromSend, TypeOK, PC, Running, Sending,
                      sendVars
  <2> QED
    BY <1>14, <2>2, <2>3 DEF RecordResult, TypeOK, settingVars, visitVars,
                      historyVars
<1>15. CASE Backoff
  BY <1>15, SMT
  DEF vars, rowVars, settingVars, visitVars, sendVars, historyVars, Backoff, ReturnFromSend, TypeOK, InHand, PC, Running, Sending, Status, Terminal
<1>16. ASSUME NEW s \in Slot, Age(s) PROVE TypeOK'
  BY <1>16, SMT
  DEF vars, rowVars, settingVars, visitVars, sendVars, historyVars, Age, TypeOK, InHand, PC, Running, Sending, Status, Terminal
<1>17. CASE ToggleDnd
  BY <1>17, SMT
  DEF vars, rowVars, settingVars, visitVars, sendVars, historyVars, ToggleDnd, TypeOK, InHand, PC, Running, Sending, Status, Terminal
<1>18. CASE ChangeSettings
  BY <1>18, SMT
  DEF vars, rowVars, settingVars, visitVars, sendVars, historyVars, ChangeSettings, TypeOK, InHand, PC, Running, Sending, Status, Terminal
<1>19. CASE Shutdown
  BY <1>19, SMT
  DEF vars, rowVars, settingVars, visitVars, sendVars, historyVars, Shutdown, TypeOK, InHand, PC, Running, Sending, Status, Terminal
<1>20. CASE ThreadDies
  <2>1. failures' \in 0..MaxFailures /\ pc' \in PC
    BY <1>20, BoundAssumption DEF ThreadDies, TypeOK, PC
  <2> QED
    BY <1>20, <2>1 DEF ThreadDies, TypeOK, rowVars, settingVars, visitVars,
                      sendVars
<1>21. CASE Crash
  <2>1. failures' \in 0..MaxFailures /\ pc' \in PC
    BY <1>21, BoundAssumption DEF Crash, TypeOK, PC
  <2>2. queue' \in Seq(Lot) /\ todo' \in Seq({"email", "browser"})
    BY <1>21 DEF Crash, LoseMemory
  <2> QED
    BY <1>21, <2>1, <2>2 DEF Crash, LoseMemory, TypeOK, rowVars, settingVars
<1>22. CASE Exit
  <2>1. failures' \in 0..MaxFailures /\ pc' \in PC
    BY <1>22, BoundAssumption DEF Exit, TypeOK, PC, historyVars
  <2>2. queue' \in Seq(Lot) /\ todo' \in Seq({"email", "browser"})
    BY <1>22 DEF Exit, LoseMemory
  <2> QED
    BY <1>22, <2>1, <2>2 DEF Exit, LoseMemory, TypeOK, rowVars, settingVars, historyVars
<1>23. CASE Restart
  BY <1>23, SMT
  DEF vars, rowVars, settingVars, visitVars, sendVars, historyVars, Restart, TypeOK, InHand, PC, Running, Sending, Status, Terminal
<1>24. CASE UNCHANGED vars
  BY <1>24, SMT DEF vars, rowVars, settingVars, visitVars, sendVars, historyVars, TypeOK, InHand, PC, Running, Sending, Status, Terminal
<1> QED
  BY <1>1, <1>2, <1>3, <1>4, <1>5, <1>6, <1>7, <1>8, <1>9, <1>10, <1>11, <1>12, <1>13, <1>14, <1>15, <1>16, <1>17, <1>18, <1>19, <1>20, <1>21, <1>22, <1>23, <1>24 DEF Next, ConsumerStep

LEMMA HandStep == TypeOK /\ InHand /\ [Next]_vars => InHand'
<1> SUFFICES ASSUME TypeOK /\ InHand, [Next]_vars
             PROVE  InHand'
  OBVIOUS
<1>1. ASSUME NEW l \in Lot, Dispatch(l) PROVE InHand'
  BY <1>1, SMT
  DEF vars, rowVars, settingVars, visitVars, sendVars, historyVars, Dispatch, TypeOK, InHand, Running, Sending, Status, Terminal
<1>2. CASE LeaveLoop
  BY <1>2, SMT
  DEF vars, rowVars, settingVars, visitVars, sendVars, historyVars, LeaveLoop, TypeOK, InHand, Running, Sending, Status, Terminal
<1>3. CASE TakeLot
  BY <1>3, RegisteredTyped, SMT
  DEF vars, rowVars, settingVars, visitVars, sendVars, historyVars, TakeLot, TypeOK, InHand, Running, Sending, Status, Terminal
<1>4. CASE QueueTimeout
  BY <1>4, SMT
  DEF vars, rowVars, settingVars, visitVars, sendVars, historyVars, QueueTimeout, TypeOK, InHand, Running, Sending, Status, Terminal
<1>5. CASE NextChannel
  BY <1>5, TargetsTyped, SMT
  DEF vars, rowVars, settingVars, visitVars, sendVars, historyVars, NextChannel, TypeOK, InHand, Running, Sending, Status, Terminal
<1>6. CASE NextRecipient
  BY <1>6, SlotOf, SMT
  DEF vars, rowVars, settingVars, visitVars, sendVars, historyVars, NextRecipient, TypeOK, InHand, Running, Sending, Status, Terminal
<1>7. CASE StartRecovery
  BY <1>7, SMT
  DEF vars, rowVars, settingVars, visitVars, sendVars, historyVars, StartRecovery, TypeOK, InHand, Running, Sending, Status, Terminal
<1>8. CASE NextPending
  BY <1>8, SMT
  DEF vars, rowVars, settingVars, visitVars, sendVars, historyVars, NextPending, TypeOK, InHand, Running, Sending, Status, Terminal
<1>9. CASE Suppress
  BY <1>9, SMT
  DEF vars, rowVars, settingVars, visitVars, sendVars, historyVars, Suppress, MarkRow, ReturnFromSend, TypeOK, InHand, Running, Sending, Status, Terminal
<1>10. CASE Reserve
  BY <1>10, SMT
  DEF vars, rowVars, settingVars, visitVars, sendVars, historyVars, Reserve, ReturnFromSend, TypeOK, InHand, Running, Sending, Status, Terminal
<1>11. CASE MarkAttempt
  BY <1>11, SMT
  DEF vars, rowVars, settingVars, visitVars, sendVars, historyVars, MarkAttempt, ReturnFromSend, TypeOK, InHand, Running, Sending, Status, Terminal
<1>12. CASE CapReached
  BY <1>12, SMT
  DEF vars, rowVars, settingVars, visitVars, sendVars, historyVars, CapReached, MarkRow, ReturnFromSend, TypeOK, InHand, Running, Sending, Status, Terminal
<1>13. CASE Send
  BY <1>13, OutcomeTyped, SMT
  DEF vars, rowVars, settingVars, visitVars, sendVars, historyVars, Send, TypeOK, InHand, Running, Sending, Status, Terminal
<1>14. CASE RecordResult
  BY <1>14, SMT
  DEF vars, rowVars, settingVars, visitVars, sendVars, historyVars, RecordResult, MarkRow, ReturnFromSend, TypeOK, InHand, Running, Sending, Status, Terminal
<1>15. CASE Backoff
  BY <1>15, SMT
  DEF vars, rowVars, settingVars, visitVars, sendVars, historyVars, Backoff, ReturnFromSend, TypeOK, InHand, Running, Sending, Status, Terminal
<1>16. ASSUME NEW s \in Slot, Age(s) PROVE InHand'
  BY <1>16, SMT
  DEF vars, rowVars, settingVars, visitVars, sendVars, historyVars, Age, TypeOK, InHand, Running, Sending, Status, Terminal
<1>17. CASE ToggleDnd
  BY <1>17, SMT
  DEF vars, rowVars, settingVars, visitVars, sendVars, historyVars, ToggleDnd, TypeOK, InHand, Running, Sending, Status, Terminal
<1>18. CASE ChangeSettings
  BY <1>18, SMT
  DEF vars, rowVars, settingVars, visitVars, sendVars, historyVars, ChangeSettings, TypeOK, InHand, Running, Sending, Status, Terminal
<1>19. CASE Shutdown
  BY <1>19, SMT
  DEF vars, rowVars, settingVars, visitVars, sendVars, historyVars, Shutdown, TypeOK, InHand, Running, Sending, Status, Terminal
<1>20. CASE ThreadDies
  BY <1>20, SMT
  DEF vars, rowVars, settingVars, visitVars, sendVars, historyVars, ThreadDies, TypeOK, InHand, Running, Sending, Status, Terminal
<1>21. CASE Crash
  BY <1>21, SMT
  DEF vars, rowVars, settingVars, visitVars, sendVars, historyVars, Crash, LoseMemory, TypeOK, InHand, Running, Sending, Status, Terminal
<1>22. CASE Exit
  BY <1>22, SMT
  DEF vars, rowVars, settingVars, visitVars, sendVars, historyVars, Exit, LoseMemory, TypeOK, InHand, Running, Sending, Status, Terminal
<1>23. CASE Restart
  BY <1>23, SMT
  DEF vars, rowVars, settingVars, visitVars, sendVars, historyVars, Restart, TypeOK, InHand, Running, Sending, Status, Terminal
<1>24. CASE UNCHANGED vars
  BY <1>24, SMT DEF vars, rowVars, settingVars, visitVars, sendVars, historyVars, TypeOK, InHand, Running, Sending, Status, Terminal
<1> QED
  BY <1>1, <1>2, <1>3, <1>4, <1>5, <1>6, <1>7, <1>8, <1>9, <1>10, <1>11, <1>12, <1>13, <1>14, <1>15, <1>16, <1>17, <1>18, <1>19, <1>20, <1>21, <1>22, <1>23, <1>24 DEF Next, ConsumerStep

LEMMA CallsStep == TypeOK /\ InHand /\ CallsArePaid /\ [Next]_vars => CallsArePaid'
<1> SUFFICES ASSUME TypeOK /\ InHand /\ CallsArePaid, [Next]_vars
             PROVE  CallsArePaid'
  OBVIOUS
<1>1. ASSUME NEW l \in Lot, Dispatch(l) PROVE CallsArePaid'
  BY <1>1, SMT
  DEF vars, rowVars, settingVars, visitVars, sendVars, historyVars, Dispatch, TypeOK, InHand, CallsArePaid, Running, Sending
<1>2. CASE LeaveLoop
  BY <1>2, SMT
  DEF vars, rowVars, settingVars, visitVars, sendVars, historyVars, LeaveLoop, TypeOK, InHand, CallsArePaid, Running, Sending
<1>3. CASE TakeLot
  BY <1>3, SMT
  DEF vars, rowVars, settingVars, visitVars, sendVars, historyVars, TakeLot, TypeOK, InHand, CallsArePaid, Running, Sending
<1>4. CASE QueueTimeout
  BY <1>4, SMT
  DEF vars, rowVars, settingVars, visitVars, sendVars, historyVars, QueueTimeout, TypeOK, InHand, CallsArePaid, Running, Sending
<1>5. CASE NextChannel
  BY <1>5, SMT
  DEF vars, rowVars, settingVars, visitVars, sendVars, historyVars, NextChannel, TypeOK, InHand, CallsArePaid, Running, Sending
<1>6. CASE NextRecipient
  BY <1>6, SMT
  DEF vars, rowVars, settingVars, visitVars, sendVars, historyVars, NextRecipient, TypeOK, InHand, CallsArePaid, Running, Sending
<1>7. CASE StartRecovery
  BY <1>7, SMT
  DEF vars, rowVars, settingVars, visitVars, sendVars, historyVars, StartRecovery, TypeOK, InHand, CallsArePaid, Running, Sending
<1>8. CASE NextPending
  BY <1>8, SMT
  DEF vars, rowVars, settingVars, visitVars, sendVars, historyVars, NextPending, TypeOK, InHand, CallsArePaid, Running, Sending
<1>9. CASE Suppress
  BY <1>9, SMT
  DEF vars, rowVars, settingVars, visitVars, sendVars, historyVars, Suppress, MarkRow, ReturnFromSend, TypeOK, InHand, CallsArePaid, Running, Sending
<1>10. CASE Reserve
  BY <1>10, SMT
  DEF vars, rowVars, settingVars, visitVars, sendVars, historyVars, Reserve, ReturnFromSend, TypeOK, InHand, CallsArePaid, Running, Sending
<1>11. CASE MarkAttempt
  <2>1. cur \in Slot /\ status[cur] = "pending"
    BY <1>11 DEF MarkAttempt, InHand, Sending
  <2>2. attempt_no' = [attempt_no EXCEPT ![cur] = attempt_no[cur] + 1] /\ calls' = calls
    BY <1>11, <2>1 DEF MarkAttempt, historyVars
  <2>3. attempt_no'[cur] = attempt_no[cur] + 1 /\ cur' = cur
    BY <1>11, <2>1, <2>2 DEF MarkAttempt, TypeOK, sendVars
  <2>4. \A s \in Slot : calls'[s] <= attempt_no'[s] /\ calls'[s] <= MaxTotalAttempts
    BY <2>1, <2>2, CapAssumption DEF TypeOK, CallsArePaid
  <2>5. pc' = "send" => attempt_no[cur] + 1 <= MaxTotalAttempts
    BY <1>11, <2>1, CapAssumption DEF MarkAttempt, TypeOK
  <2>6. pc' # "record"
    BY <1>11, <2>1 DEF MarkAttempt
  <2>7. calls[cur] <= attempt_no[cur] /\ calls[cur] \in Nat /\ attempt_no[cur] \in Nat
    BY <2>1 DEF CallsArePaid, TypeOK
  <2> QED
    BY <2>2, <2>3, <2>4, <2>5, <2>6, <2>7 DEF CallsArePaid
<1>12. CASE CapReached
  BY <1>12, SMT
  DEF vars, rowVars, settingVars, visitVars, sendVars, historyVars, CapReached, MarkRow, ReturnFromSend, TypeOK, InHand, CallsArePaid, Running, Sending
<1>13. CASE Send
  <2>1. cur \in Slot /\ cur' = cur /\ pc' = "record" /\ attempt_no' = attempt_no
    BY <1>13 DEF Send, InHand, Sending, rowVars
  <2>2. calls' = [calls EXCEPT ![cur] = calls[cur] + 1]
    BY <1>13 DEF Send
  <2>3. calls[cur] < attempt_no[cur] /\ attempt_no[cur] <= MaxTotalAttempts
    BY <1>13 DEF Send, CallsArePaid
  <2>4. \A s \in Slot : calls[s] \in Nat /\ attempt_no[s] \in Nat
    BY DEF TypeOK
  <2>5. calls'[cur] = calls[cur] + 1
    BY <2>1, <2>2 DEF TypeOK
  <2>6. \A s \in Slot : calls'[s] <= attempt_no'[s] /\ calls'[s] <= MaxTotalAttempts
    BY <2>1, <2>2, <2>3, <2>4, CapAssumption DEF TypeOK, CallsArePaid
  <2> QED
    BY <2>1, <2>4, <2>5, <2>6 DEF CallsArePaid
<1>14. CASE RecordResult
  BY <1>14, SMT
  DEF vars, rowVars, settingVars, visitVars, sendVars, historyVars, RecordResult, MarkRow, ReturnFromSend, TypeOK, InHand, CallsArePaid, Running, Sending
<1>15. CASE Backoff
  BY <1>15, SMT
  DEF vars, rowVars, settingVars, visitVars, sendVars, historyVars, Backoff, ReturnFromSend, TypeOK, InHand, CallsArePaid, Running, Sending
<1>16. ASSUME NEW s \in Slot, Age(s) PROVE CallsArePaid'
  BY <1>16, SMT
  DEF vars, rowVars, settingVars, visitVars, sendVars, historyVars, Age, TypeOK, InHand, CallsArePaid, Running, Sending
<1>17. CASE ToggleDnd
  BY <1>17, SMT
  DEF vars, rowVars, settingVars, visitVars, sendVars, historyVars, ToggleDnd, TypeOK, InHand, CallsArePaid, Running, Sending
<1>18. CASE ChangeSettings
  BY <1>18, SMT
  DEF vars, rowVars, settingVars, visitVars, sendVars, historyVars, ChangeSettings, TypeOK, InHand, CallsArePaid, Running, Sending
<1>19. CASE Shutdown
  BY <1>19, SMT
  DEF vars, rowVars, settingVars, visitVars, sendVars, historyVars, Shutdown, TypeOK, InHand, CallsArePaid, Running, Sending
<1>20. CASE ThreadDies
  BY <1>20, SMT
  DEF vars, rowVars, settingVars, visitVars, sendVars, historyVars, ThreadDies, TypeOK, InHand, CallsArePaid, Running, Sending
<1>21. CASE Crash
  BY <1>21, SMT
  DEF vars, rowVars, settingVars, visitVars, sendVars, historyVars, Crash, LoseMemory, TypeOK, InHand, CallsArePaid, Running, Sending
<1>22. CASE Exit
  BY <1>22, SMT
  DEF vars, rowVars, settingVars, visitVars, sendVars, historyVars, Exit, LoseMemory, TypeOK, InHand, CallsArePaid, Running, Sending
<1>23. CASE Restart
  BY <1>23, SMT
  DEF vars, rowVars, settingVars, visitVars, sendVars, historyVars, Restart, TypeOK, InHand, CallsArePaid, Running, Sending
<1>24. CASE UNCHANGED vars
  BY <1>24, SMT DEF vars, rowVars, settingVars, visitVars, sendVars, historyVars, TypeOK, InHand, CallsArePaid, Running, Sending
<1> QED
  BY <1>1, <1>2, <1>3, <1>4, <1>5, <1>6, <1>7, <1>8, <1>9, <1>10, <1>11, <1>12, <1>13, <1>14, <1>15, <1>16, <1>17, <1>18, <1>19, <1>20, <1>21, <1>22, <1>23, <1>24 DEF Next, ConsumerStep

LEMMA AcksStep == TypeOK /\ InHand /\ AcksAreRecorded /\ [Next]_vars => AcksAreRecorded'
<1> SUFFICES ASSUME TypeOK /\ InHand /\ AcksAreRecorded, [Next]_vars
             PROVE  AcksAreRecorded'
  OBVIOUS
<1>1. ASSUME NEW l \in Lot, Dispatch(l) PROVE AcksAreRecorded'
  BY <1>1, SMT
  DEF vars, rowVars, settingVars, visitVars, sendVars, historyVars, Dispatch, TypeOK, InHand, AcksAreRecorded, Running, Sending, Status, Terminal
<1>2. CASE LeaveLoop
  BY <1>2, SMT
  DEF vars, rowVars, settingVars, visitVars, sendVars, historyVars, LeaveLoop, TypeOK, InHand, AcksAreRecorded, Running, Sending, Status, Terminal
<1>3. CASE TakeLot
  BY <1>3, SMT
  DEF vars, rowVars, settingVars, visitVars, sendVars, historyVars, TakeLot, TypeOK, InHand, AcksAreRecorded, Running, Sending, Status, Terminal
<1>4. CASE QueueTimeout
  BY <1>4, SMT
  DEF vars, rowVars, settingVars, visitVars, sendVars, historyVars, QueueTimeout, TypeOK, InHand, AcksAreRecorded, Running, Sending, Status, Terminal
<1>5. CASE NextChannel
  BY <1>5, SMT
  DEF vars, rowVars, settingVars, visitVars, sendVars, historyVars, NextChannel, TypeOK, InHand, AcksAreRecorded, Running, Sending, Status, Terminal
<1>6. CASE NextRecipient
  BY <1>6, SMT
  DEF vars, rowVars, settingVars, visitVars, sendVars, historyVars, NextRecipient, TypeOK, InHand, AcksAreRecorded, Running, Sending, Status, Terminal
<1>7. CASE StartRecovery
  BY <1>7, SMT
  DEF vars, rowVars, settingVars, visitVars, sendVars, historyVars, StartRecovery, TypeOK, InHand, AcksAreRecorded, Running, Sending, Status, Terminal
<1>8. CASE NextPending
  BY <1>8, SMT
  DEF vars, rowVars, settingVars, visitVars, sendVars, historyVars, NextPending, TypeOK, InHand, AcksAreRecorded, Running, Sending, Status, Terminal
<1>9. CASE Suppress
  BY <1>9, SMT
  DEF vars, rowVars, settingVars, visitVars, sendVars, historyVars, Suppress, MarkRow, ReturnFromSend, TypeOK, InHand, AcksAreRecorded, Running, Sending, Status, Terminal
<1>10. CASE Reserve
  <2>1. cur \in Slot /\ pc = "check" /\ pc' # "record"
    BY <1>10 DEF Reserve, ReturnFromSend, InHand
  <2>2. \A s \in Slot : status[s] \notin Terminal <=> status'[s] \notin Terminal
    BY <1>10, <2>1 DEF Reserve, TypeOK, Terminal
  <2>3. acked' = acked /\ failures' = failures
    BY <1>10 DEF Reserve, historyVars
  <2> QED
    BY <2>1, <2>2, <2>3 DEF AcksAreRecorded
<1>11. CASE MarkAttempt
  BY <1>11, SMT
  DEF vars, rowVars, settingVars, visitVars, sendVars, historyVars, MarkAttempt, ReturnFromSend, TypeOK, InHand, AcksAreRecorded, Running, Sending, Status, Terminal
<1>12. CASE CapReached
  BY <1>12, SMT
  DEF vars, rowVars, settingVars, visitVars, sendVars, historyVars, CapReached, MarkRow, ReturnFromSend, TypeOK, InHand, AcksAreRecorded, Running, Sending, Status, Terminal
<1>13. CASE Send
  BY <1>13, SMT
  DEF vars, rowVars, settingVars, visitVars, sendVars, historyVars, Send, TypeOK, InHand, AcksAreRecorded, Running, Sending, Status, Terminal
<1>14. CASE RecordResult
  <2>1. cur \in Slot /\ pc = "record" /\ pc' # "record" /\ status[cur] = "pending"
    BY <1>14 DEF RecordResult, ReturnFromSend, InHand, Sending
  <2>2. acked' = acked /\ failures' = failures
    BY <1>14 DEF RecordResult, historyVars
  <2>3. \A s \in Slot \ {cur} : status'[s] = status[s]
    BY <1>14, <2>1 DEF RecordResult, MarkRow, TypeOK, rowVars
  <2>4. result = "ok" => status'[cur] \in Terminal
    BY <1>14, <2>1 DEF RecordResult, MarkRow, TypeOK, Terminal
  <2>5. status'[cur] \notin Terminal => result # "ok"
    BY <2>4
  <2> QED
    BY <2>1, <2>2, <2>3, <2>5 DEF AcksAreRecorded, Terminal
<1>15. CASE Backoff
  BY <1>15, SMT
  DEF vars, rowVars, settingVars, visitVars, sendVars, historyVars, Backoff, ReturnFromSend, TypeOK, InHand, AcksAreRecorded, Running, Sending, Status, Terminal
<1>16. ASSUME NEW s \in Slot, Age(s) PROVE AcksAreRecorded'
  BY <1>16, SMT
  DEF vars, rowVars, settingVars, visitVars, sendVars, historyVars, Age, TypeOK, InHand, AcksAreRecorded, Running, Sending, Status, Terminal
<1>17. CASE ToggleDnd
  BY <1>17, SMT
  DEF vars, rowVars, settingVars, visitVars, sendVars, historyVars, ToggleDnd, TypeOK, InHand, AcksAreRecorded, Running, Sending, Status, Terminal
<1>18. CASE ChangeSettings
  BY <1>18, SMT
  DEF vars, rowVars, settingVars, visitVars, sendVars, historyVars, ChangeSettings, TypeOK, InHand, AcksAreRecorded, Running, Sending, Status, Terminal
<1>19. CASE Shutdown
  BY <1>19, SMT
  DEF vars, rowVars, settingVars, visitVars, sendVars, historyVars, Shutdown, TypeOK, InHand, AcksAreRecorded, Running, Sending, Status, Terminal
<1>20. CASE ThreadDies
  BY <1>20, SMT
  DEF vars, rowVars, settingVars, visitVars, sendVars, historyVars, ThreadDies, TypeOK, InHand, AcksAreRecorded, Running, Sending, Status, Terminal
<1>21. CASE Crash
  BY <1>21, SMT
  DEF vars, rowVars, settingVars, visitVars, sendVars, historyVars, Crash, LoseMemory, TypeOK, InHand, AcksAreRecorded, Running, Sending, Status, Terminal
<1>22. CASE Exit
  BY <1>22, SMT
  DEF vars, rowVars, settingVars, visitVars, sendVars, historyVars, Exit, LoseMemory, TypeOK, InHand, AcksAreRecorded, Running, Sending, Status, Terminal
<1>23. CASE Restart
  BY <1>23, SMT
  DEF vars, rowVars, settingVars, visitVars, sendVars, historyVars, Restart, TypeOK, InHand, AcksAreRecorded, Running, Sending, Status, Terminal
<1>24. CASE UNCHANGED vars
  BY <1>24, SMT DEF vars, rowVars, settingVars, visitVars, sendVars, historyVars, TypeOK, InHand, AcksAreRecorded, Running, Sending, Status, Terminal
<1> QED
  BY <1>1, <1>2, <1>3, <1>4, <1>5, <1>6, <1>7, <1>8, <1>9, <1>10, <1>11, <1>12, <1>13, <1>14, <1>15, <1>16, <1>17, <1>18, <1>19, <1>20, <1>21, <1>22, <1>23, <1>24 DEF Next, ConsumerStep

LEMMA StepInv == IInv /\ [Next]_vars => IInv'
BY TypeStep, HandStep, CallsStep, AcksStep DEF IInv

LEMMA Invariance == Spec => []IInv
<1>1. Init => IInv
  BY InitInv
<1>2. IInv /\ [Next]_vars => IInv'
  BY StepInv
<1> QED
  BY <1>1, <1>2, PTL DEF Spec

-----------------------------------------------------------------------------
(* Every variable keeps its type (all of notifier_dispatcher.py's state).  *)
THEOREM TypeCorrect == Spec => []TypeOK
<1>1. IInv => TypeOK
  BY DEF IInv
<1> QED
  BY <1>1, Invariance, PTL

(* No slot ever costs more than MAX_TOTAL_ATTEMPTS delivery calls, however *)
(* many crashes, thread deaths and restarts there are (_send_one's cap).   *)
THEOREM CallsAreCapped == Spec => []CallsCapped
<1>1. IInv => CallsCapped
  BY DEF IInv, CallsArePaid, CallsCapped
<1> QED
  BY <1>1, Invariance, PTL

(* A slot is acknowledged at most once more than the process or the thread *)
(* failed: the at-least-once window of ADR-019 is the only duplicate.      *)
THEOREM DuplicatesAreFailures == Spec => []DuplicatesNeedFailures
<1>1. IInv => DuplicatesNeedFailures
  BY DEF IInv, AcksAreRecorded, DuplicatesNeedFailures
<1> QED
  BY <1>1, Invariance, PTL

\* A mail goes to an address the host policy permits, whatever DNS answers.
THEOREM MailIsPinned == Spec => []MailGoesToPermitted
<1>1. MailGoesToPermitted
  BY ConnectsToPermitted DEF MailGoesToPermitted
<1> QED
  BY <1>1, PTL

LEMMA SendIsTrue ==
  ASSUME TypeOK, InHand, Send
  PROVE  /\ result' = "fatal" => acked' = acked
         /\ result' = "ok" /\ cur[2][1] = "email" /\ ~ShouldSuppress(cur) =>
              acked'[cur] > acked[cur]
<1>1. cur \in Slot
  BY DEF Send, InHand, Sending
<1>2. PICK o \in SendOutcome(cur) :
        /\ result' = o.result
        /\ acked' = IF o.accepted THEN [acked EXCEPT ![cur] = @ + 1] ELSE acked
  BY DEF Send
<1>3. CASE cur[2][1] = "browser"
  BY <1>2, <1>3 DEF SendOutcome, Outcome
<1>4. CASE cur[2][1] # "browser" /\ ShouldSuppress(cur)
  BY <1>2, <1>4 DEF SendOutcome, Outcome
<1>5. CASE cur[2][1] # "browser" /\ ~ShouldSuppress(cur)
  <2>1. o \in MailOutcomes
    BY <1>5 DEF SendOutcome
  <2>2. (o.result = "ok" => o.accepted) /\ (o.result = "fatal" => ~o.accepted)
    BY <2>1, ClosingVerdictsAreTrue DEF ClosingIsTrue
  <2>3. acked \in [Slot -> Nat]
    BY DEF TypeOK
  <2> QED
    BY <1>1, <1>2, <2>2, <2>3
<1> QED
  BY <1>3, <1>4, <1>5

\* An ok means that the server took the mail, a fatal that it did not.
THEOREM VerdictsHold == Spec => VerdictsAreTrue
<1>1. IInv /\ [Next]_vars =>
        [Send => /\ result' = "fatal" => acked' = acked
                 /\ result' = "ok" /\ cur[2][1] = "email" /\ ~ShouldSuppress(cur) =>
                      acked'[cur] > acked[cur]]_vars
  BY SendIsTrue DEF IInv
<1> QED
  BY <1>1, Invariance, PTL DEF Spec, VerdictsAreTrue

-----------------------------------------------------------------------------
(* Refinement                                                              *)

LEMMA MarkRowRefines ==
  ASSUME TypeOK, cur \in Slot, NEW st \in {"sent", "permanent_fail"},
         MarkRow(cur, st), UNCHANGED calls, st = "sent" => calls[cur] > 0
  PROVE  [StateMachine!Next]_(StateMachine!vars)
<1>1. CASE status[cur] = "pending"
  <2>1. status' = [status EXCEPT ![cur] = st]
    BY <1>1 DEF MarkRow
  <2>2. CASE st = "sent"
    <3>1. StateMachine!Sent(cur)
      BY <1>1, <2>1, <2>2 DEF StateMachine!Sent
    <3> QED
      BY <3>1 DEF StateMachine!Next
  <2>3. CASE st = "permanent_fail"
    <3>1. StateMachine!GiveUp(cur)
      BY <1>1, <2>1, <2>3 DEF StateMachine!GiveUp
    <3> QED
      BY <3>1 DEF StateMachine!Next
  <2> QED
    BY <2>2, <2>3
<1>2. CASE status[cur] # "pending"
  BY <1>2 DEF MarkRow, StateMachine!vars
<1> QED
  BY <1>1, <1>2

LEMMA StepRefines == IInv /\ [Next]_vars => [StateMachine!Next]_(StateMachine!vars)
<1> SUFFICES ASSUME IInv, [Next]_vars
             PROVE  [StateMachine!Next]_(StateMachine!vars)
  OBVIOUS
<1> USE DEF IInv
<1>1. CASE Suppress
  BY <1>1, MarkRowRefines DEF Suppress, InHand, historyVars
<1>2. CASE CapReached
  BY <1>2, MarkRowRefines DEF CapReached, InHand, Sending, historyVars
<1>3. CASE Reserve
  <2>1. cur \in Slot /\ UNCHANGED calls
    BY <1>3 DEF Reserve, InHand, historyVars
  <2>2. CASE status[cur] = "none"
    <3>1. status' = [status EXCEPT ![cur] = "pending"]
      BY <1>3, <2>2 DEF Reserve, Terminal
    <3>2. StateMachine!Reserve(cur)
      BY <2>1, <2>2, <3>1 DEF StateMachine!Reserve
    <3> QED
      BY <2>1, <3>2 DEF StateMachine!Next
  <2>3. CASE status[cur] # "none"
    <3>1. status[cur] \in Terminal \/ status[cur] = "pending"
      BY <2>1, <2>3 DEF TypeOK, Status
    <3>2. UNCHANGED status
      BY <1>3, <2>1, <3>1 DEF Reserve, Terminal, TypeOK
    <3> QED
      BY <2>1, <3>2 DEF StateMachine!vars
  <2> QED
    BY <2>2, <2>3
<1>4. CASE Send
  <2>1. cur \in Slot /\ status[cur] = "pending" /\ UNCHANGED status
    BY <1>4 DEF Send, InHand, Sending, rowVars
  <2>2. calls[cur] < MaxTotalAttempts
    <3>1. calls[cur] < attempt_no[cur] /\ attempt_no[cur] <= MaxTotalAttempts
      BY <1>4 DEF Send, CallsArePaid
    <3>2. calls[cur] \in Nat /\ attempt_no[cur] \in Nat /\ MaxTotalAttempts \in Nat
      BY <2>1, CapAssumption DEF TypeOK
    <3> QED
      BY <3>1, <3>2
  <2>3. calls' = [calls EXCEPT ![cur] = calls[cur] + 1]
    BY <1>4 DEF Send
  <2>4. StateMachine!Call(cur)
    BY <2>1, <2>2, <2>3 DEF StateMachine!Call
  <2> QED
    BY <2>1, <2>4 DEF StateMachine!Next
<1>5. CASE RecordResult
  <2>1. cur \in Slot /\ UNCHANGED calls /\ calls[cur] > 0
    BY <1>5 DEF RecordResult, InHand, Sending, CallsArePaid, historyVars
  <2>2. CASE result = "retryable"
    <3>1. UNCHANGED status
      BY <1>5, <2>2 DEF RecordResult, rowVars
    <3> QED
      BY <2>1, <3>1 DEF StateMachine!vars
  <2>3. CASE result # "retryable"
    <3>1. PICK st \in {"sent", "permanent_fail"} : MarkRow(cur, st)
      BY <1>5, <2>3 DEF RecordResult
    <3> QED
      BY <2>1, <3>1, MarkRowRefines
  <2> QED
    BY <2>2, <2>3
<1>6. ASSUME ~(Suppress \/ CapReached \/ Reserve \/ Send \/ RecordResult)
      PROVE  UNCHANGED <<status, calls>>
  BY <1>6 DEF Next, ConsumerStep, Dispatch, LeaveLoop, TakeLot, QueueTimeout,
     NextChannel, NextRecipient, StartRecovery, NextPending, MarkAttempt,
     Backoff, Age, ToggleDnd, ChangeSettings, Shutdown, ThreadDies, Crash, Exit,
     Restart, vars, rowVars, historyVars
<1> QED
  BY <1>1, <1>2, <1>3, <1>4, <1>5, <1>6 DEF StateMachine!vars

(* The dispatcher and the notifications table implement the slot state     *)
(* machine: no row leaves a terminal status, nothing is sent for it again, *)
(* and "sent" is only written after a delivery call.                       *)
THEOREM Refinement == Spec => ImplementsStateMachine
<1>1. Init => StateMachine!Init
  BY DEF Init, StateMachine!Init
<1>2. IInv /\ [Next]_vars => [StateMachine!Next]_(StateMachine!vars)
  BY StepRefines
<1> QED
  BY <1>1, <1>2, Invariance, PTL DEF Spec, StateMachine!Spec, ImplementsStateMachine
=============================================================================
