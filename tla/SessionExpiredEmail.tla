-------------------------- MODULE SessionExpiredEmail --------------------------
(***************************************************************************)
(* The mail that tells of a lost donor session                             *)
(* (services/session_expired_email.py): the loop that takes session.expired *)
(* events off the bus, the row of the state table that keeps it from       *)
(* mailing twice, and the login hook that deletes the row.                 *)
(*                                                                         *)
(* A monitor cycle, a walk of the backfill or a scan publishes the event;   *)
(* a login job (LoginService) ends a loss by two steps, the export of the  *)
(* cookies and, later, its hook.  The process may crash between any two    *)
(* steps.                                                                  *)
(***************************************************************************)
EXTENDS Naturals, FiniteSets

CONSTANTS Recipient,    \* addresses the settings may list
          MaxEvents     \* bound: session.expired events queued for the loop

ASSUME EventsAssumption == MaxEvents \in Nat \ {0}
ASSUME RecipientAssumption == IsFiniteSet(Recipient)

VARIABLES
  up,          \* the stop event is not set
  config,      \* notifications.email and the DnD window
  cookies,     \* the cookies of requests.Session are good at the donor
  hook,        \* a job succeeded and its on_any_success is still to run
  polling,     \* cycles run and the donor answers them
  probe,       \* a list page is under way, asked for with refused cookies
  events,      \* session.expired events in the loop's queue
  attached,    \* the loop's subscription is alive
  mail,        \* where the loop stands
  guard,       \* state table: session_expired_email_sent
  mails,       \* history: mails that arrived since the last success
  torn,        \* history: the loop ended between a mail and the guard
  told,        \* history: all recipients were tried since the last success
  slipped      \* history: the guard is up, or about to be, for mails that went
               \* out before the last success

donorVars == <<cookies, hook, polling, probe>>
queueVars == <<events, attached>>
epochVars == <<guard, mails, torn, told, slipped>>
mailVars == <<up, config, donorVars, queueVars, mail, epochVars>>

Reading == [pc |-> "wait", todo |-> {}, all |-> {}]
Dead == [Reading EXCEPT !.pc = "dead"]
Raised == [Reading EXCEPT !.pc = "raised"]

MailInit ==
  /\ up = TRUE
  /\ config = [enabled |-> TRUE, recipients |-> Recipient, dnd |-> FALSE]
  /\ cookies = FALSE /\ hook = FALSE /\ polling = FALSE /\ probe = FALSE
  /\ events = 0 /\ attached = TRUE /\ mail = Reading
  /\ guard = FALSE /\ mails = [r \in Recipient |-> 0]
  /\ torn = FALSE /\ told = FALSE /\ slipped = FALSE

\* The guard was found absent and is not set yet.
Sending == mail.pc \in {"send", "set"}

-----------------------------------------------------------------------------
(* The donor, the login jobs and the scheduler                             *)

\* The donor ends the session.
Expire ==
  /\ cookies /\ cookies' = FALSE
  /\ UNCHANGED <<up, config, hook, polling, probe, queueVars, mail, epochVars>>

\* Mutant: the hook is wired to logins, not to silent refreshes.
LoginSucceeds_NoHook ==
  /\ ~hook /\ hook' \in BOOLEAN
  /\ cookies' \in {TRUE, cookies}
  /\ told' = FALSE
  /\ UNCHANGED <<up, config, polling, probe, queueVars, mail, guard, mails, torn, slipped>>

\* A login or refresh succeeds and exports its cookies, or fails to.  The pool's
\* one thread runs the hook before the next job (LoginService!HooksComeFirst).
LoginSucceeds ==
  /\ ~hook /\ hook' = TRUE
  /\ cookies' \in {TRUE, cookies}
  /\ told' = FALSE
  /\ UNCHANGED <<up, config, polling, probe, queueVars, mail, guard, mails, torn, slipped>>

\* on_login_or_refresh_success deletes the guard.  Mails that are going out
\* meanwhile set it again when they are through.  A database that is closed or
\* locked raises, the error is logged and the guard is left as it is.
ResetGuard ==
  /\ hook /\ hook' = FALSE
  /\ \/ /\ guard' = FALSE
        /\ mails' = [r \in Recipient |-> 0]
        /\ torn' = FALSE /\ told' = FALSE /\ slipped' = Sending
     \/ /\ slipped' = (guard \/ Sending)
        /\ UNCHANGED <<guard, mails, torn, told>>
  /\ UNCHANGED <<up, config, cookies, polling, probe, queueVars, mail>>

\* Cycles begin or cease to get through: the galka is set or removed, a region
\* is chosen, walked by the backfill or given back, the donor answers or not
\* (run_forever).
PollingChanges ==
  /\ polling' = ~polling
  /\ UNCHANGED <<up, config, cookies, hook, probe, queueVars, mail, epochVars>>

\* A list page is asked for with cookies that the donor refuses: by a cycle, and
\* also by a walk of the backfill or a scan, which need no cycles.
RequestPage ==
  /\ up /\ ~probe /\ ~cookies
  /\ probe' = TRUE
  /\ UNCHANGED <<up, config, cookies, hook, polling, queueVars, mail, epochVars>>

\* The answer, a redirect or the ESIA page, is published as an expired session,
\* even if a login has succeeded since, whoever asked for the page.  Without an
\* answer nothing is published.
ReadPage ==
  /\ probe /\ probe' = FALSE
  /\ \/ events' = IF attached /\ events < MaxEvents THEN events + 1 ELSE events
     \/ ~polling /\ UNCHANGED events
  /\ UNCHANGED <<up, config, cookies, hook, polling, attached, mail, epochVars>>

\* While the loop is at the SMTP server its queue fills with all the bus
\* carries: a normal event pushes out the oldest one, a critical one cuts the
\* subscription off (ThreadEventBus!DropOldest, ThreadEventBus!ForceRemove).
QueueOverflows ==
  /\ Sending /\ attached
  /\ \/ events > 0 /\ events' = events - 1 /\ UNCHANGED attached
     \/ attached' = FALSE /\ events' = 0
  /\ UNCHANGED <<up, config, donorVars, mail, epochVars>>

\* PUT /settings, and the DnD window that opens or ends.
Configure ==
  /\ config' \in [enabled : BOOLEAN, recipients : SUBSET Recipient, dnd : BOOLEAN]
  /\ UNCHANGED <<up, donorVars, queueVars, mail, epochVars>>

-----------------------------------------------------------------------------
(* consumer_loop and _handle                                               *)

loopRest == <<up, config, donorVars, attached>>

\* Mutant: a disabled channel ends the loop, not the handling of the event.
TakeEvent_Returns ==
  /\ mail.pc = "wait" /\ up
  /\ attached /\ events > 0
  /\ events' = events - 1
  /\ mail' = IF config.enabled
             THEN [Reading EXCEPT !.pc = "guard", !.all = config.recipients]
             ELSE Dead
  /\ UNCHANGED <<loopRest, epochVars>>

\* The settings are read once for the event; a dead subscription yields nothing.
TakeEvent ==
  /\ mail.pc = "wait" /\ up
  /\ attached /\ events > 0
  /\ events' = events - 1
  /\ mail' = IF config.enabled
             THEN [Reading EXCEPT !.pc = "guard", !.all = config.recipients]
             ELSE Reading
  /\ UNCHANGED <<loopRest, epochVars>>

\* The guard, then DnD, which leaves the guard alone, then the recipients.
CheckGuard ==
  /\ mail.pc = "guard"
  /\ mail' = IF guard \/ config.dnd THEN Reading
             ELSE IF mail.all = {} THEN [mail EXCEPT !.pc = "set"]
             ELSE [mail EXCEPT !.pc = "send", !.todo = mail.all]
  /\ UNCHANGED <<loopRest, events, epochVars>>

Tried(r) == mail' = [mail EXCEPT !.todo = @ \ {r},
                                 !.pc = IF mail.todo = {r} THEN "set" ELSE "send"]

\* Mutant: the guard is set with the first mail.
SendMail_GuardFirst(r) ==
  /\ mail.pc = "send" /\ r \in mail.todo
  /\ Tried(r)
  /\ guard' = TRUE
  /\ mails' = [mails EXCEPT ![r] = IF @ < 2 THEN @ + 1 ELSE @]
  /\ UNCHANGED <<loopRest, events, torn, told, slipped>>

\* The mail arrives or not, whatever the SMTP server reported; nothing is
\* tried twice.  More than two arrivals are not told apart.
SendMail(r) ==
  /\ mail.pc = "send" /\ r \in mail.todo
  /\ Tried(r)
  /\ \E arrives \in BOOLEAN :
       mails' = [mails EXCEPT ![r] = IF arrives /\ @ < 2 THEN @ + 1 ELSE @]
  /\ UNCHANGED <<loopRest, events, guard, torn, told, slipped>>

\* Mutant: the guard is set only if every mail arrived.
SetGuard_IfSent ==
  /\ mail.pc = "set"
  /\ guard' = \A r \in mail.all : mails[r] > 0
  /\ mail' = Reading
  /\ told' = (~hook /\ ~slipped)
  /\ UNCHANGED <<loopRest, events, mails, torn, slipped>>

SetGuard ==
  /\ mail.pc = "set"
  /\ guard' = TRUE
  /\ mail' = Reading
  /\ told' = (~hook /\ ~slipped)
  /\ UNCHANGED <<loopRest, events, mails, torn, slipped>>

\* The state table or the credentials cannot be read, or the name of the SMTP
\* host is not resolved (SmtpHostPolicyError): nothing catches the error, the
\* supervisor logs it and the thread is gone.
LoopDies ==
  /\ mail.pc \in {"guard", "send", "set"}
  /\ mail' = Raised
  /\ torn' = (torn \/ Sending) /\ slipped' = (slipped /\ guard)
  /\ UNCHANGED <<loopRest, events, guard, mails, told>>

LoopStops ==
  /\ mail.pc = "wait" /\ ~up
  /\ mail' = Dead
  /\ UNCHANGED <<loopRest, events, epochVars>>

LoopStep ==
  TakeEvent \/ CheckGuard \/ SetGuard \/ LoopStops \/ \E r \in Recipient : SendMail(r)

-----------------------------------------------------------------------------
(* The process                                                             *)

\* Shutdown phase 1 sets the stop event and joins the thread, 35 s at most.
Stop ==
  /\ up /\ up' = FALSE
  /\ UNCHANGED <<config, donorVars, queueVars, mail, epochVars>>

\* A hook that has not run when the process ends is lost, and the guard stays.
HookLost == guard /\ (slipped \/ hook)

\* The process ends, by a crash or after the shutdown has waited long enough.
\* The guard is kept, the cookies are not.
Crash ==
  /\ up \/ mail.pc # "dead"
  /\ up' = FALSE
  /\ cookies' = FALSE /\ hook' = FALSE /\ probe' = FALSE
  /\ events' = 0 /\ attached' = FALSE /\ mail' = Dead
  /\ torn' = (torn \/ Sending) /\ slipped' = HookLost
  /\ UNCHANGED <<config, polling, guard, mails, told>>

\* The lifespan of the next process starts the thread, which subscribes.
Boot ==
  /\ ~up /\ mail.pc \in {"dead", "raised"}
  /\ up' = TRUE
  /\ cookies' = FALSE /\ hook' = FALSE /\ probe' = FALSE
  /\ events' = 0 /\ attached' = TRUE /\ mail' = Reading
  /\ slipped' = HookLost
  /\ UNCHANGED <<config, polling, guard, mails, torn, told>>

MailNext ==
  \/ Expire \/ LoginSucceeds \/ ResetGuard
  \/ PollingChanges \/ RequestPage \/ ReadPage
  \/ QueueOverflows \/ Configure
  \/ LoopStep \/ LoopDies
  \/ Stop \/ Crash \/ Boot

\* The threads of the loop and of the cycles are scheduled again; SMTP and the
\* request have a timeout.  A page is sure to be asked for only while cycles run.
MailFairness ==
  /\ WF_mailVars(LoopStep)
  /\ WF_mailVars(polling /\ RequestPage) /\ WF_mailVars(ReadPage)

MailSpec == MailInit /\ [][MailNext]_mailVars
MailFairSpec == MailSpec /\ MailFairness
-----------------------------------------------------------------------------
(* Properties                                                              *)

\* The shapes of the state.
EmailTypeOK ==
  /\ up \in BOOLEAN
  /\ config \in [enabled : BOOLEAN, recipients : SUBSET Recipient, dnd : BOOLEAN]
  /\ cookies \in BOOLEAN /\ hook \in BOOLEAN
  /\ polling \in BOOLEAN /\ probe \in BOOLEAN
  /\ events \in 0..MaxEvents /\ attached \in BOOLEAN
  /\ mail \in [pc : {"wait", "guard", "send", "set", "dead", "raised"},
                todo : SUBSET Recipient, all : SUBSET Recipient]
  /\ guard \in BOOLEAN /\ mails \in [Recipient -> 0..2]
  /\ torn \in BOOLEAN /\ told \in BOOLEAN /\ slipped \in BOOLEAN

\* No recipient gets two mails for one loss of the session, unless the process
\* or the loop ended between a mail and the guard (session_expired_email.py,
\* _handle).
OneMailPerEpoch == \A r \in Recipient : mails[r] <= 1 \/ torn

\* While cycles run, a loss nobody was told of since the last success is mailed:
\* a guard that stands for an older loss would keep it silent for ever.  The
\* exceptions are the code's own: the guard set again by mails that a success
\* has overtaken or kept by a hook that failed or was lost in a crash, a loop
\* ended by an error, a subscription the bus has cut off.
Due == /\ up /\ ~cookies /\ ~hook /\ polling
       /\ config.enabled /\ ~config.dnd /\ config.recipients # {}
       /\ ~told /\ ~slipped
LossIsMailed == Due ~> (~Due \/ ~attached \/ mail.pc = "raised")
=============================================================================
