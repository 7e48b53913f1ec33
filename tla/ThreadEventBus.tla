--------------------------- MODULE ThreadEventBus ---------------------------
(***************************************************************************)
(* The in-memory event bus between the worker threads and the browser tabs *)
(* (infra/sse): several threads publish at once, each publication is a     *)
(* snapshot of the subscribers, a slot update and one queue operation per  *)
(* subscriber, none of them under a common lock; tabs subscribe, drain     *)
(* their own bounded queue and go away at any moment.                      *)
(*                                                                         *)
(* Normal events replace the oldest queued event when a queue is full and  *)
(* are replayed to tabs that attach within the TTL; critical events wait   *)
(* for room and cut the subscriber off when the wait times out.            *)
(***************************************************************************)
EXTENDS Naturals, Sequences, FiniteSets, SequencesExt

CONSTANTS Publisher,      \* threads that publish
          Tab,            \* SSE connections, each subscribes once
          NormalType, CriticalType,
          TransientType,  \* normal types whose slot is evicted after publish
          QueueSize,      \* _QUEUE_MAXSIZE
          MaxPublished,   \* bound: publications per publisher
          None

ASSUME TypesAssumption ==
  /\ TransientType \subseteq NormalType /\ NormalType \cap CriticalType = {}
  /\ IsFiniteSet(NormalType)
ASSUME SizeAssumption == QueueSize \in Nat \ {0} /\ MaxPublished \in Nat

\* n-th publication of by.
Event == [by : Publisher, n : 1..MaxPublished, type : NormalType \cup CriticalType]

VARIABLES
  subscribers,    \* _subscribers, the registered tabs
  alive,          \* _alive flag of each tab's subscription
  q,              \* queue of each tab's subscription
  last_normal,    \* replay slot of each normal type
  expired,        \* normal types whose slot is older than the replay TTL
  last_critical,  \* slot of each critical type
  pc,             \* where each publisher stands
  published,      \* publications begun by each publisher
  event,          \* event each publisher publishes
  snapshot,       \* subscribers the publication still has to visit
  target,         \* subscriber being served
  slow,           \* to_force_unsubscribe
  stream,         \* state of each tab's generator
  received,       \* history: events each tab drained from its queue
  dropped,        \* history: what was taken out of each tab's queue, for which event
  missed,         \* history: events a full queue refused twice
  addressed       \* history: events whose snapshot held each tab

busVars == <<subscribers, alive, last_normal, expired, last_critical>>
pubVars == <<pc, published, event, snapshot, target, slow>>
tabVars == <<stream, received>>
lossVars == <<dropped, missed>>
vars == <<busVars, q, pubVars, tabVars, lossVars, addressed>>

Init ==
  /\ subscribers = {}
  /\ alive = [s \in Tab |-> FALSE]
  /\ q = [s \in Tab |-> <<>>]
  /\ last_normal = [t \in NormalType |-> None]
  /\ expired = {}
  /\ last_critical = [t \in CriticalType |-> None]
  /\ pc = [p \in Publisher |-> "idle"]
  /\ published = [p \in Publisher |-> 0]
  /\ event = [p \in Publisher |-> None]
  /\ snapshot = [p \in Publisher |-> {}]
  /\ target = [p \in Publisher |-> None]
  /\ slow = [p \in Publisher |-> {}]
  /\ stream = [s \in Tab |-> "new"]
  /\ received = [s \in Tab |-> <<>>]
  /\ dropped = [s \in Tab |-> {}]
  /\ missed = [s \in Tab |-> {}]
  /\ addressed = [s \in Tab |-> {}]

Goto(p, label) == pc' = [pc EXCEPT ![p] = label]
Full(s) == Len(q[s]) >= QueueSize
PutNowait(s, e) == q' = [q EXCEPT ![s] = Append(@, e)]
IsCritical(p) == event[p].type \in CriticalType

-----------------------------------------------------------------------------
(* publish                                                                 *)

\* The subscribers are copied under the lock, before the slot is stored.
Publish(p, type) ==
  /\ pc[p] = "idle" /\ published[p] < MaxPublished
  /\ published' = [published EXCEPT ![p] = @ + 1]
  /\ event' = [event EXCEPT ![p] = [by |-> p, n |-> published'[p], type |-> type]]
  /\ snapshot' = [snapshot EXCEPT ![p] = subscribers]
  /\ addressed' = [s \in Tab |-> IF s \in subscribers
                                  THEN addressed[s] \cup {event'[p]}
                                  ELSE addressed[s]]
  /\ Goto(p, "slot")
  /\ UNCHANGED <<busVars, q, target, slow, tabVars, lossVars>>

\* Mutant: the slot is stored first, the subscribers are copied afterwards.
StoreSlot_BeforeSnapshot(p) ==
  LET e == event[p] IN
  /\ pc[p] = "slot"
  /\ IF IsCritical(p)
       THEN /\ last_critical' = [last_critical EXCEPT ![e.type] = e]
            /\ Goto(p, "next")
            /\ UNCHANGED <<last_normal, expired, snapshot>>
       ELSE IF last_normal[e.type] # e
         THEN /\ last_normal' = [last_normal EXCEPT ![e.type] = e]
              /\ expired' = expired \ {e.type}
              /\ UNCHANGED <<last_critical, snapshot, pc>>
         ELSE /\ snapshot' = [snapshot EXCEPT ![p] = subscribers]
              /\ Goto(p, "next")
              /\ UNCHANGED <<last_normal, expired, last_critical>>
  /\ UNCHANGED <<subscribers, alive, q, published, event, target, slow, tabVars,
                 lossVars, addressed>>

StoreSlot(p) ==
  /\ pc[p] = "slot"
  /\ LET e == event[p] IN
       IF IsCritical(p)
         THEN /\ last_critical' = [last_critical EXCEPT ![e.type] = e]
              /\ UNCHANGED <<last_normal, expired>>
         ELSE /\ last_normal' = [last_normal EXCEPT ![e.type] = e]
              /\ expired' = expired \ {e.type}
              /\ UNCHANGED last_critical
  /\ Goto(p, "next")
  /\ UNCHANGED <<subscribers, alive, q, published, event, snapshot, target,
                 slow, tabVars, lossVars, addressed>>

\* A subscription that is no longer alive is passed over.
NextSubscriber(p) ==
  /\ pc[p] = "next"
  /\ \E s \in snapshot[p] :
       /\ snapshot' = [snapshot EXCEPT ![p] = @ \ {s}]
       /\ IF alive[s] THEN target' = [target EXCEPT ![p] = s] /\ Goto(p, "put")
                      ELSE UNCHANGED <<target, pc>>
  /\ UNCHANGED <<busVars, q, published, event, slow, tabVars, lossVars, addressed>>

Put(p) ==
  /\ pc[p] = "put"
  /\ ~Full(target[p])
  /\ PutNowait(target[p], event[p])
  /\ Goto(p, "next")
  /\ UNCHANGED <<busVars, published, event, snapshot, target, slow, tabVars,
                 lossVars, addressed>>

\* put_nowait of a normal event raises Full.
FindFull(p) ==
  /\ pc[p] = "put" /\ ~IsCritical(p)
  /\ Full(target[p])
  /\ Goto(p, "drop")
  /\ UNCHANGED <<busVars, q, published, event, snapshot, target, slow, tabVars,
                 lossVars, addressed>>

\* get_nowait takes out the oldest event, whatever it is.  The tab may have
\* drained its queue since it was found full, and another publisher may have
\* made room too: the queue need not be full any more, and may be empty.
DropOldest(p) ==
  LET s == target[p] IN
  /\ pc[p] = "drop"
  /\ \/ q[s] = <<>> /\ UNCHANGED <<q, dropped>>
     \/ /\ q[s] # <<>>
        /\ q' = [q EXCEPT ![s] = Tail(@)]
        /\ dropped' = [dropped EXCEPT ![s] = @ \cup {[out |-> Head(q[s]), by |-> event[p]]}]
  /\ Goto(p, "retry")
  /\ UNCHANGED <<busVars, published, event, snapshot, target, slow, tabVars,
                 missed, addressed>>

\* Mutant: a publisher that finds the place taken again drops one event more.
RetryPut_Insists(p) ==
  LET s == target[p] IN
  /\ pc[p] = "retry"
  /\ IF Full(s) THEN Goto(p, "drop") /\ UNCHANGED q
                ELSE PutNowait(s, event[p]) /\ Goto(p, "next")
  /\ UNCHANGED <<busVars, published, event, snapshot, target, slow, tabVars,
                 lossVars, addressed>>

\* The freed place may have gone to another publisher meanwhile.
RetryPut(p) ==
  LET s == target[p] IN
  /\ pc[p] = "retry"
  /\ IF Full(s) THEN /\ missed' = [missed EXCEPT ![s] = @ \cup {event[p]}]
                     /\ UNCHANGED q
                ELSE PutNowait(s, event[p]) /\ UNCHANGED missed
  /\ Goto(p, "next")
  /\ UNCHANGED <<busVars, published, event, snapshot, target, slow, tabVars,
                 dropped, addressed>>

\* Critical event: put(timeout=critical_timeout) gave up.
PutTimesOut(p) ==
  /\ pc[p] = "put" /\ IsCritical(p)
  /\ Full(target[p])
  /\ slow' = [slow EXCEPT ![p] = @ \cup {target[p]}]
  /\ Goto(p, "next")
  /\ UNCHANGED <<busVars, q, published, event, snapshot, target, tabVars,
                 lossVars, addressed>>

\* Mutant: the slow subscriber is taken off the list but its flag stays set.
ForceRemove_StaysAlive(p) ==
  /\ pc[p] = "next" /\ snapshot[p] = {}
  /\ \E s \in slow[p] :
       /\ slow' = [slow EXCEPT ![p] = @ \ {s}]
       /\ subscribers' = subscribers \ {s}
  /\ UNCHANGED <<q, alive, last_normal, expired, last_critical, pc, published,
                 event, snapshot, target, tabVars, lossVars, addressed>>

ForceRemove(p) ==
  /\ pc[p] = "next" /\ snapshot[p] = {}
  /\ \E s \in slow[p] :
       /\ slow' = [slow EXCEPT ![p] = @ \ {s}]
       /\ alive' = [alive EXCEPT ![s] = FALSE]
       /\ subscribers' = subscribers \ {s}
  /\ UNCHANGED <<q, last_normal, expired, last_critical, pc, published, event,
                 snapshot, target, tabVars, lossVars, addressed>>

\* publish returns; the publisher of a transient event then evicts its slot.
PublishReturns(p) ==
  /\ pc[p] = "next" /\ snapshot[p] = {} /\ slow[p] = {}
  /\ target' = [target EXCEPT ![p] = None]
  /\ Goto(p, IF event[p].type \in TransientType THEN "evict" ELSE "idle")
  /\ UNCHANGED <<busVars, q, published, event, snapshot, slow, tabVars, lossVars, addressed>>

EvictNormalReplay(p) ==
  /\ pc[p] = "evict"
  /\ last_normal' = [last_normal EXCEPT ![event[p].type] = None]
  /\ Goto(p, "idle")
  /\ UNCHANGED <<subscribers, alive, expired, last_critical, q, published,
                 event, snapshot, target, slow, tabVars, lossVars, addressed>>

PublisherStep(p) ==
  \/ StoreSlot(p) \/ NextSubscriber(p)
  \/ Put(p) \/ FindFull(p) \/ DropOldest(p) \/ RetryPut(p)
  \/ PutTimesOut(p) \/ ForceRemove(p) \/ PublishReturns(p) \/ EvictNormalReplay(p)

-----------------------------------------------------------------------------
(* Tabs: SseStreamer.stream over one subscription.                         *)

Replayed == {t \in NormalType : last_normal[t] # None /\ t \notin expired}

\* Registration and replay are one critical section; expired slots are removed.
\* Slots are replayed in dictionary order, which no client may rely on.
Subscribe(s) ==
  /\ stream[s] = "new"
  /\ stream' = [stream EXCEPT ![s] = "waiting"]
  /\ subscribers' = subscribers \cup {s}
  /\ alive' = [alive EXCEPT ![s] = TRUE]
  /\ \E order \in SetToSeqs({last_normal[t] : t \in Replayed}) :
       q' = [q EXCEPT ![s] = SubSeq(order, 1,
               IF Len(order) < QueueSize THEN Len(order) ELSE QueueSize)]
  /\ last_normal' = [t \in NormalType |-> IF t \in expired THEN None
                                                          ELSE last_normal[t]]
  /\ expired' = {}
  /\ UNCHANGED <<last_critical, pubVars, received, lossVars, addressed>>

Take(s) == /\ q[s] # <<>>
           /\ received' = [received EXCEPT ![s] = Append(@, Head(q[s]))]
           /\ q' = [q EXCEPT ![s] = Tail(@)]

\* wait_one: a dead subscription yields nothing, whatever its queue holds.
WaitOne(s) ==
  /\ stream[s] = "waiting" /\ alive[s]
  /\ Take(s)
  /\ stream' = [stream EXCEPT ![s] = "draining"]
  /\ UNCHANGED <<busVars, pubVars, lossVars, addressed>>

\* iter(): what is queued behind the first event, without looking at _alive.
Drain(s) ==
  /\ stream[s] = "draining"
  /\ \/ Take(s) /\ UNCHANGED stream
     \/ /\ q[s] = <<>>
        /\ stream' = [stream EXCEPT ![s] = "waiting"]
        /\ UNCHANGED <<q, received>>
  /\ UNCHANGED <<busVars, pubVars, lossVars, addressed>>

\* The generator ends: the client went away, or the subscription is dead.
Unsubscribe(s) ==
  /\ stream[s] \in {"waiting", "draining"}
  /\ stream' = [stream EXCEPT ![s] = "closed"]
  /\ alive' = [alive EXCEPT ![s] = FALSE]
  /\ subscribers' = subscribers \ {s}
  /\ UNCHANGED <<q, last_normal, expired, last_critical, pubVars, received,
                 lossVars, addressed>>

StreamStep(s) ==
  WaitOne(s) \/ Drain(s) \/ (stream[s] = "waiting" /\ ~alive[s] /\ Unsubscribe(s))

\* _REPLAY_TTL_SECONDS pass.
SlotExpires(t) ==
  /\ last_normal[t] # None /\ t \notin expired
  /\ expired' = expired \cup {t}
  /\ UNCHANGED <<subscribers, alive, last_normal, last_critical, q, pubVars,
                 tabVars, lossVars, addressed>>

Next ==
  \/ \E p \in Publisher : \/ \E t \in NormalType \cup CriticalType : Publish(p, t)
                          \/ PublisherStep(p)
  \/ \E s \in Tab : Subscribe(s) \/ StreamStep(s) \/ Unsubscribe(s)
  \/ \E t \in NormalType : SlotExpires(t)

Spec == Init /\ [][Next]_vars
-----------------------------------------------------------------------------
(* Properties                                                              *)

EventOrNone == Event \cup {None}

TypeOK ==
  /\ subscribers \subseteq Tab
  /\ alive \in [Tab -> BOOLEAN]
  /\ \A s \in Tab : q[s] \in Seq(Event) /\ Len(q[s]) <= QueueSize
  /\ last_normal \in [NormalType -> EventOrNone]
  /\ expired \subseteq NormalType
  /\ last_critical \in [CriticalType -> EventOrNone]
  /\ pc \in [Publisher -> {"idle", "slot", "next", "put", "drop", "retry", "evict"}]
  /\ published \in [Publisher -> 0..MaxPublished]
  /\ event \in [Publisher -> EventOrNone]
  /\ snapshot \in [Publisher -> SUBSET Tab]
  /\ target \in [Publisher -> Tab \cup {None}]
  /\ slow \in [Publisher -> SUBSET Tab]
  /\ stream \in [Tab -> {"new", "waiting", "draining", "closed"}]
  /\ \A s \in Tab : received[s] \in Seq(Event)
  /\ \A s \in Tab : /\ dropped[s] \subseteq [out : Event, by : Event]
                    /\ missed[s] \cup addressed[s] \subseteq Event

\* What a tab has seen or will see.
Seen(s) == received[s] \o q[s]

InFlight(e) == pc[e.by] # "idle" /\ event[e.by] = e

\* A tab gets the events of one type from one thread in the order they were
\* published and each at most once, replay and fan-out taken together
\* (bus.py, subscribe and publish).
InOrderOnce ==
  \A s \in Tab : \A i, j \in DOMAIN Seen(s) :
    LET e == Seen(s)[i] f == Seen(s)[j] IN
      i < j /\ e.by = f.by /\ e.type = f.type => e.n < f.n

\* Taken out of the queue of s by another normal event that was meant for s.
TakenOut(s, e) ==
  \E f \in addressed[s] :
    f # e /\ f.type \in NormalType /\ [out |-> e, by |-> f] \in dropped[s]

\* When publish has returned, every tab of its snapshot has the event, or is
\* cut off, or lost it to an overflow: a normal event was refused twice, or
\* another normal event took it out - and no publication takes more than one
\* event out of the same queue, however many threads find it full (bus.py,
\* _publish_normal).
AddressedIsAccounted ==
  \A s \in Tab :
    /\ \A e \in addressed[s] :
         InFlight(e) \/ ~alive[s] \/ TakenOut(s, e)
           \/ (e.type \in NormalType /\ e \in missed[s])
           \/ \E i \in DOMAIN Seen(s) : Seen(s)[i] = e
    /\ \A c, d \in dropped[s] : c.by = d.by => c = d

\* The slot of a transient event lives no longer than a publication of that
\* type: a tab that attaches afterwards is never replayed a stale login
\* (composition.py, login success).
TransientSlotIsShortLived ==
  \A t \in TransientType :
    last_normal[t] # None =>
      \E p \in Publisher : pc[p] # "idle" /\ event[p].type = t
=============================================================================
