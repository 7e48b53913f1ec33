--------------------------- MODULE OnboardingService ---------------------------
(***************************************************************************)
(* The onboarding wizard: OnboardingService (services/onboarding.py), the  *)
(* routes that drive it (web/routes/onboarding.py), SmtpTestService, and   *)
(* the gate that keeps the pages closed until it is over                   *)
(* (web/onboarding_gate.py).                                               *)
(*                                                                         *)
(* POST /onboarding/save and /smtp-test are coroutines that never await    *)
(* once the form is read, so the event loop runs one of them at a time.    *)
(* POST /advance and /skip-email run in the thread pool, beside it and     *)
(* beside each other.  Every read and write of a key is a transaction of   *)
(* its own: nothing is locked from the read of the step to its write.      *)
(***************************************************************************)
EXTENDS Naturals

CONSTANTS Thread,       \* the pool's requests alive at once
          Loop,         \* the event loop
          Page,         \* gated page requests alive at once
          CACHE_TTL     \* _CACHE_TTL, in ticks

ASSUME LoopAssumption == Loop \notin Thread
ASSUME TTLAssumption == CACHE_TTL \in Nat \ {0}

VARIABLES
  step,        \* onboarding_state
  config,      \* the settings' regions and recipients: which are set
  skipped,     \* onboarding_email_skipped
  test,        \* smtp_test_last_result_ok and _at: ok, and not older than its TTL
  emailOk,     \* onboarding_test_email_ok
  actor,       \* every request that writes
  page,        \* every gated request that missed the gate's cache
  cache,       \* OnboardingGateMiddleware._cache
  passed,      \* history: a test mail was accepted
  since        \* history: ticks, up to CACHE_TTL, since onboarding was last over
               \* and since it was last not

storeVars == <<step, config, skipped, test, emailOk>>
gateVars == <<page, cache>>
vars == <<storeVars, actor, gateVars, passed, since>>

Actor == Thread \cup {Loop}

NOT_STARTED == 0
REGIONS_SET == 1
SMTP_CONFIGURED == 2
RECIPIENTS_SET == 3
COMPLETED == 4
State == NOT_STARTED..COMPLETED

\* What the gate makes of the step: whether its value is "completed" and, in
\* _STATE_URL, whether its URL is "/", a page the gate guards itself.
Over == step = COMPLETED

AtRest == [pc |-> "idle", job |-> "none", from |-> NOT_STARTED, ok |-> FALSE]
NoPage == [pc |-> "free", over |-> FALSE, home |-> FALSE, left |-> 0]
Late == [NoPage EXCEPT !.pc = "store"]
NoCache == [over |-> FALSE, home |-> FALSE, left |-> 0]

Init ==
  /\ step = NOT_STARTED /\ config = {}
  /\ skipped = FALSE /\ test = [ok |-> FALSE, fresh |-> FALSE] /\ emailOk = FALSE
  /\ actor = [a \in Actor |-> AtRest]
  /\ page = [p \in Page |-> NoPage] /\ cache = NoCache
  /\ passed = FALSE
  /\ since = [over |-> CACHE_TTL, open |-> 0]

At(a, pc) == actor[a].pc = pc
Goto(a, pc) == actor' = [actor EXCEPT ![a].pc = pc]
End(a) == actor' = [actor EXCEPT ![a] = AtRest]

-----------------------------------------------------------------------------
(* OnboardingService.advance and skip_email                                *)

\* What advance does first: it reads the step and compares it.
ReadStep(a) ==
  /\ At(a, "advance")
  /\ IF step = actor[a].from THEN Goto(a, "guard") ELSE End(a)
  /\ UNCHANGED <<storeVars, gateVars, passed, since>>

\* Guards that only what is never taken back can satisfy.
GuardOf(to) ==
  CASE to = REGIONS_SET    -> "regions" \in config
    [] to = RECIPIENTS_SET -> "recipients" \in config \/ skipped
    [] to = COMPLETED      -> emailOk \/ skipped

\* A guard failed: 409, or for a form the branch that shows it again.
Refused(a) == IF a = Loop THEN Goto(a, "refused") ELSE End(a)

\* Mutant: the last guard is taken for met.
Guard_LastOpen(a) ==
  /\ At(a, "guard")
  /\ LET to == actor[a].from + 1 IN
     IF to = SMTP_CONFIGURED /\ ~skipped
     THEN IF test.ok THEN Goto(a, "recent") ELSE Refused(a)
     ELSE IF to = SMTP_CONFIGURED \/ to = COMPLETED \/ GuardOf(to) THEN Goto(a, "write") ELSE Refused(a)
  /\ UNCHANGED <<storeVars, gateVars, passed, since>>

\* can_advance.  The guard of the SMTP step reads the outcome of the last test
\* here and its time in a transaction of its own.
Guard(a) ==
  /\ At(a, "guard")
  /\ LET to == actor[a].from + 1 IN
     IF to = SMTP_CONFIGURED /\ ~skipped
     THEN IF test.ok THEN Goto(a, "recent") ELSE Refused(a)
     ELSE IF to = SMTP_CONFIGURED \/ GuardOf(to) THEN Goto(a, "write") ELSE Refused(a)
  /\ UNCHANGED <<storeVars, gateVars, passed, since>>

GuardTime(a) ==
  /\ At(a, "recent")
  /\ IF test.fresh THEN Goto(a, "write") ELSE Refused(a)
  /\ UNCHANGED <<storeVars, gateVars, passed, since>>

\* The histories restart as the step crosses the end.
Moved(to) ==
  /\ step' = to
  /\ since' = CASE to = COMPLETED -> [since EXCEPT !.over = 0]
                [] OTHER          -> [since EXCEPT !.open = 0]

\* set_onboarding: whatever the step has become since it was read.
WriteStep(a) ==
  /\ At(a, "write")
  /\ Moved(actor[a].from + 1)
  /\ End(a)
  /\ UNCHANGED <<config, skipped, test, emailOk, gateVars, passed>>

\* The step's form again, with what is missing.
Refuse ==
  /\ At(Loop, "refused")
  /\ End(Loop)
  /\ UNCHANGED <<storeVars, gateVars, passed, since>>

\* POST /onboarding/advance, which reads the step first: one that is not where
\* it stands, or has no such neighbour, answers 409 and is left out, as are
\* names that are none (422).
PostAdvance(t) ==
  /\ At(t, "idle") /\ step # COMPLETED
  /\ actor' = [actor EXCEPT ![t] = [AtRest EXCEPT !.pc = "guard", !.job = "advance",
                                                  !.from = step]]
  /\ UNCHANGED <<storeVars, gateVars, passed, since>>

\* POST /onboarding/skip-email, which reads the step ...
PostSkip(t) ==
  /\ At(t, "idle")
  /\ step \in {REGIONS_SET, SMTP_CONFIGURED, RECIPIENTS_SET}
  /\ actor' = [actor EXCEPT ![t] = [AtRest EXCEPT !.pc = "skip", !.job = "skip"]]
  /\ UNCHANGED <<storeVars, gateVars, passed, since>>

\* ... and sets the flag that nothing clears.
SetSkipped(t) ==
  /\ At(t, "skip")
  /\ skipped' = TRUE
  /\ End(t)
  /\ UNCHANGED <<step, config, test, emailOk, gateVars, passed, since>>

-----------------------------------------------------------------------------
(* The wizard's forms, one at a time on the event loop                     *)

LoopTakes(job, pc, from) ==
  /\ At(Loop, "idle")
  /\ actor' = [actor EXCEPT ![Loop] = [AtRest EXCEPT !.pc = pc, !.job = job, !.from = from]]

\* Step 1: the regions chosen are saved, then the step moves.  A form that is
\* not valid is shown again and changes nothing, in every step.
Step1 ==
  /\ LoopTakes("regions", "advance", NOT_STARTED)
  /\ config' = config \cup {"regions"}
  /\ UNCHANGED <<step, skipped, test, emailOk, gateVars, passed, since>>

\* Step 2, and the test button: the credentials that pass the host policy are
\* stored, whether the server takes them or not (nothing here reads them but the
\* notifier), and a mail is sent with them.
Step2 ==
  /\ LoopTakes("smtp", "send", REGIONS_SET)
  /\ UNCHANGED <<storeVars, gateVars, passed, since>>

SmtpTest ==
  /\ LoopTakes("test", "send", NOT_STARTED)
  /\ UNCHANGED <<storeVars, gateVars, passed, since>>

\* Step 3: the recipients are saved, and a test mail goes to the first if the
\* box is ticked.
Step3(ticked) ==
  /\ LoopTakes("recipients", IF ticked THEN "send" ELSE "advance", SMTP_CONFIGURED)
  /\ config' = config \cup {"recipients"}
  /\ UNCHANGED <<step, skipped, test, emailOk, gateVars, passed, since>>

Step4 ==
  /\ LoopTakes("finish", "advance", RECIPIENTS_SET)
  /\ UNCHANGED <<storeVars, gateVars, passed, since>>

\* test_send: the server takes the mail or does not, and the outcome is recorded.
TestSend(ok) ==
  /\ At(Loop, "send")
  /\ test' = [test EXCEPT !.ok = ok]
  /\ passed' = (passed \/ ok)
  /\ actor' = [actor EXCEPT ![Loop].pc = "at", ![Loop].ok = ok]
  /\ UNCHANGED <<step, config, skipped, emailOk, gateVars, since>>

\* Where a form goes from its test: step 2 asks for the outcome, step 3 does not.
AfterTest == IF actor[Loop].job = "recipients" \/ (actor[Loop].job = "smtp" /\ actor[Loop].ok)
             THEN actor' = [actor EXCEPT ![Loop].pc = "advance", ![Loop].ok = FALSE]
             ELSE End(Loop)

\* Mutant: the time is recorded only with a failure.
RecordAt_OnFailure ==
  /\ At(Loop, "at")
  /\ test' = [test EXCEPT !.fresh = @ \/ ~actor[Loop].ok]
  /\ IF actor[Loop].ok THEN Goto(Loop, "email") ELSE AfterTest
  /\ UNCHANGED <<step, config, skipped, emailOk, gateVars, passed, since>>

RecordAt ==
  /\ At(Loop, "at")
  /\ test' = [test EXCEPT !.fresh = TRUE]
  /\ IF actor[Loop].ok THEN Goto(Loop, "email") ELSE AfterTest
  /\ UNCHANGED <<step, config, skipped, emailOk, gateVars, passed, since>>

RecordEmail ==
  /\ At(Loop, "email")
  /\ emailOk' = TRUE
  /\ AfterTest
  /\ UNCHANGED <<step, config, skipped, test, gateVars, passed, since>>

\* _SMTP_TEST_OK_TTL passes.  A form is over long before that.
TestExpires ==
  /\ At(Loop, "idle") /\ test.fresh
  /\ test' = [test EXCEPT !.fresh = FALSE]
  /\ UNCHANGED <<step, config, skipped, emailOk, actor, gateVars, passed, since>>

-----------------------------------------------------------------------------
(* OnboardingGateMiddleware, on the event loop; its reads run in threads    *)

Live(entry) == entry.left > 0

\* A page that is not on the whitelist finds no live entry and reads, in a
\* thread; an entry is good until CACHE_TTL from here.  With a live entry it is
\* answered at once: let through if that says completed, else redirected to its
\* URL.
PageMiss(p) ==
  /\ At(Loop, "idle")
  /\ page[p].pc = "free" /\ ~Live(cache)
  /\ page' = [page EXCEPT ![p] = [NoPage EXCEPT !.pc = "state", !.left = CACHE_TTL]]
  /\ UNCHANGED <<storeVars, actor, cache, passed, since>>

\* current, then url_for_current_step, which reads the step again; the URL
\* counts only in a redirect.
PageState(p) ==
  /\ page[p].pc = "state"
  /\ page' = [page EXCEPT ![p].pc = "url", ![p].over = Over]
  /\ UNCHANGED <<storeVars, actor, cache, passed, since>>

PageUrl(p) ==
  /\ page[p].pc = "url"
  /\ page' = [page EXCEPT ![p].pc = "store", ![p].home = Over /\ ~page[p].over]
  /\ UNCHANGED <<storeVars, actor, cache, passed, since>>

\* Mutant: the entry lives a tick longer.
PageStore_Longer(p) ==
  /\ At(Loop, "idle") /\ page[p].pc = "store"
  /\ cache' = [over |-> page[p].over, home |-> page[p].home, left |-> page[p].left + 1]
  /\ page' = [page EXCEPT ![p] = NoPage]
  /\ UNCHANGED <<storeVars, actor, passed, since>>

\* Mutant: the entry lives from its store, not from the read.
PageStore_FromNow(p) ==
  /\ At(Loop, "idle") /\ page[p].pc = "store"
  /\ cache' = [over |-> page[p].over, home |-> page[p].home, left |-> CACHE_TTL]
  /\ page' = [page EXCEPT ![p] = NoPage]
  /\ UNCHANGED <<storeVars, actor, passed, since>>

\* The last of the misses that ran side by side leaves its entry.
PageStore(p) ==
  /\ At(Loop, "idle") /\ page[p].pc = "store"
  /\ cache' = IF Live(page[p])
              THEN [over |-> page[p].over, home |-> page[p].home, left |-> page[p].left]
              ELSE NoCache
  /\ page' = [page EXCEPT ![p] = NoPage]
  /\ UNCHANGED <<storeVars, actor, passed, since>>

\* What a read found is forgotten once its entry would be born dead.
LessTime(pg) == IF pg.left > 1 THEN [pg EXCEPT !.left = @ - 1]
                ELSE IF pg.pc = "free" THEN NoPage ELSE Late

Aged(n, now) == IF now THEN 0 ELSE IF n = CACHE_TTL THEN n ELSE n + 1

\* The clock.
Tick ==
  /\ \/ Live(cache) \/ \E p \in Page : Live(page[p])
     \/ since # [over |-> Aged(since.over, Over),
                 open |-> Aged(since.open, ~Over)]
  /\ page' = [p \in Page |-> LessTime(page[p])]
  /\ cache' = IF cache.left > 1 THEN [cache EXCEPT !.left = @ - 1] ELSE NoCache
  /\ since' = [over |-> Aged(since.over, Over),
               open |-> Aged(since.open, ~Over)]
  /\ UNCHANGED <<storeVars, actor, passed>>

\* The process is killed and started again: the keys and the settings stay.
Restart ==
  /\ actor' = [a \in Actor |-> AtRest]
  /\ page' = [p \in Page |-> NoPage] /\ cache' = NoCache
  /\ UNCHANGED <<storeVars, passed, since>>

-----------------------------------------------------------------------------
AdvanceStep(a) == \/ ReadStep(a) \/ Guard(a) \/ GuardTime(a) \/ WriteStep(a)

FormStep == \/ Refuse
            \/ \E ok \in BOOLEAN : TestSend(ok)
            \/ RecordAt \/ RecordEmail

Form == \/ Step1 \/ Step4
        \/ Step2 \/ SmtpTest
        \/ \E ticked \in BOOLEAN : Step3(ticked)

PageStep(p) == \/ PageState(p) \/ PageUrl(p) \/ PageStore(p)

Next ==
  \/ \E a \in Actor : AdvanceStep(a)
  \/ FormStep \/ Form
  \/ \E t \in Thread : \/ PostAdvance(t) \/ PostSkip(t) \/ SetSkipped(t)
  \/ \E p \in Page : PageMiss(p) \/ PageStep(p)
  \/ TestExpires \/ Tick \/ Restart

Spec == Init /\ [][Next]_vars

-----------------------------------------------------------------------------
(* Properties                                                              *)

OnboardingTypeOK ==
  /\ step \in State /\ config \subseteq {"regions", "recipients"}
  /\ skipped \in BOOLEAN /\ emailOk \in BOOLEAN /\ passed \in BOOLEAN
  /\ test \in [ok : BOOLEAN, fresh : BOOLEAN]
  /\ actor \in [Actor -> [pc : {"idle", "advance", "guard", "recent", "write", "refused",
                                "skip", "send", "at", "email"},
                          job : {"none", "advance", "skip", "regions", "smtp", "test",
                                 "recipients", "finish"},
                          from : State, ok : BOOLEAN]]
  /\ page \in [Page -> [pc : {"free", "state", "url", "store"}, over : BOOLEAN,
                        home : BOOLEAN, left : 0..CACHE_TTL]]
  /\ cache \in [over : BOOLEAN, home : BOOLEAN, left : 0..CACHE_TTL]
  /\ since \in [over : 0..CACHE_TTL, open : 0..CACHE_TTL]

\* What the step stored claims was done, whatever order the tabs, the pool's
\* requests and a crash came in: regions are set past the first step, mail was
\* once accepted or put off past the second, recipients are set or mail is put
\* off past the third, and the end was reached by a mail accepted or put off.
StepIsEarned ==
  /\ step >= REGIONS_SET => "regions" \in config
  /\ step >= SMTP_CONFIGURED => passed \/ skipped
  /\ step >= RECIPIENTS_SET => "recipients" \in config \/ skipped
  /\ step = COMPLETED => emailOk \/ skipped

\* A form that saved what its step asks for is never told that it is missing:
\* the guard of steps 1 to 3 cannot fail after their own save, or their own test
\* that succeeded, although it reads them one by one beside other requests (the
\* branch _handle_step2_next calls a bug).  Only the last step is refused.
RefusedOnlyLast == At(Loop, "refused") => actor[Loop].job = "finish"

\* What the gate answers from its cache was the truth less than CACHE_TTL ago,
\* although misses store what they read in any order and however late.
CacheIsRecent ==
  Live(cache) => (IF cache.over THEN since.over ELSE since.open)
                   <= CACHE_TTL - cache.left

=============================================================================
