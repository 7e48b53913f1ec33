---------------------- MODULE NotificationStateMachine ----------------------
(***************************************************************************)
(* What the durable notification table promises for one                    *)
(* (lot, channel, recipient) slot, whoever drives it and however often the *)
(* process stops in between: absent -> pending -> sent | permanent_fail, a *)
(* bounded number of delivery calls over the whole life of the slot, and   *)
(* none at all once the slot is terminal.  This is the contract            *)
(* NotifierDispatcher is shown to implement.                               *)
(***************************************************************************)
EXTENDS Naturals

CONSTANTS Slot,               \* (lot, channel, recipient) triples
          MaxTotalAttempts    \* delivery calls one slot may ever cost

VARIABLES status,             \* the row of each slot
          calls               \* delivery calls made for each slot so far

vars == <<status, calls>>

Terminal == {"sent", "permanent_fail"}
Status == {"none", "pending"} \cup Terminal

Init == /\ status = [s \in Slot |-> "none"]
        /\ calls = [s \in Slot |-> 0]

\* The slot gets its row.
Reserve(s) == /\ status[s] = "none"
              /\ status' = [status EXCEPT ![s] = "pending"]
              /\ UNCHANGED calls

\* One more delivery call, which the cap still allows.
Call(s) == /\ status[s] = "pending"
           /\ calls[s] < MaxTotalAttempts
           /\ calls' = [calls EXCEPT ![s] = @ + 1]
           /\ UNCHANGED status

\* Only a slot for which a delivery call was made is recorded as sent.
Sent(s) == /\ status[s] = "pending"
           /\ calls[s] > 0
           /\ status' = [status EXCEPT ![s] = "sent"]
           /\ UNCHANGED calls

GiveUp(s) == /\ status[s] = "pending"
             /\ status' = [status EXCEPT ![s] = "permanent_fail"]
             /\ UNCHANGED calls

Next == \E s \in Slot : Reserve(s) \/ Call(s) \/ Sent(s) \/ GiveUp(s)

Spec == Init /\ [][Next]_vars
=============================================================================
