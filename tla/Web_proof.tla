------------------------------- MODULE Web_proof -------------------------------
(***************************************************************************)
(* Theorems about the two models of the web side, OnboardingService and    *)
(* Feed.                                                                   *)
(*                                                                         *)
(* The wizard, for any number of pool threads and gated pages and any TTL  *)
(* of the cache: the types, that every step is earned, that only the last  *)
(* one is refused, and that the gate's cache is recent.                    *)
(*                                                                         *)
(* The feed, for any lots, filters, page sizes and bounds: the types, the  *)
(* order of the cards, that nothing owed is lost, and that the stream's    *)
(* predicate reads a filter as the SQL does.  Two facts about operators    *)
(* carry it: a page of search skips nothing between its first lot and its  *)
(* cursor (SearchAnswers), and a live card goes where the order wants it   *)
(* (InsertLiveDoes).                                                       *)
(***************************************************************************)
EXTENDS OnboardingService, Feed, FiniteSetTheorems, SequenceTheorems,
        WellFoundedInduction, TLAPS

USE DEF storeVars, gateVars, vars

-----------------------------------------------------------------------------
(* The wizard: types                                                       *)

Pcs == {"idle", "advance", "guard", "recent", "write", "refused", "skip", "send", "at",
        "email"}

Jobs == {"none", "advance", "skip", "regions", "smtp", "test", "recipients", "finish"}

ActorType == [pc : Pcs, job : Jobs, from : State, ok : BOOLEAN]
PageType == [pc : {"free", "state", "url", "store"}, over : BOOLEAN, home : BOOLEAN,
             left : 0..CACHE_TTL]
EntryType == [over : BOOLEAN, home : BOOLEAN, left : 0..CACHE_TTL]
SinceType == [over : 0..CACHE_TTL, open : 0..CACHE_TTL]

LEMMA AtRestType == AtRest \in ActorType
  BY DEF AtRest, ActorType, Pcs, Jobs, State, NOT_STARTED, COMPLETED

LEMMA NoPageType == NoPage \in PageType /\ Late \in PageType /\ NoCache \in EntryType
  <1>1. 0 \in 0..CACHE_TTL
    BY TTLAssumption
  <1>2. NoPage \in PageType /\ NoCache \in EntryType
    BY <1>1, Zenon DEF NoPage, NoCache, PageType, EntryType
  <1>3. Late \in PageType
    BY <1>2 DEF Late, PageType
  <1>. QED  BY <1>2, <1>3

\* What a request becomes.
LEMMA GotoType ==
  ASSUME NEW f \in [Actor -> ActorType], NEW a \in Actor, NEW pc \in Pcs
  PROVE  [f EXCEPT ![a].pc = pc] \in [Actor -> ActorType]
  BY DEF ActorType

LEMMA OkType ==
  ASSUME NEW f \in [Actor -> ActorType], NEW a \in Actor, NEW b \in BOOLEAN
  PROVE  [f EXCEPT ![a].ok = b] \in [Actor -> ActorType]
  BY DEF ActorType

LEMMA EndType ==
  ASSUME NEW f \in [Actor -> ActorType], NEW a \in Actor, NEW r \in ActorType
  PROVE  [f EXCEPT ![a] = r] \in [Actor -> ActorType]
  OBVIOUS

\* A request at its start.
LEMMA StartType ==
  ASSUME NEW pc \in Pcs, NEW job \in Jobs, NEW from \in State
  PROVE  [AtRest EXCEPT !.pc = pc, !.job = job, !.from = from] \in ActorType
  BY AtRestType DEF ActorType

\* What a request does to itself: it moves on, it is over, or it starts.
LEMMA ActorStep ==
  ASSUME actor \in [Actor -> ActorType], step \in State, [Next]_vars
  PROVE  actor' \in [Actor -> ActorType]
  <1>. USE AtRestType, GotoType, EndType
  <1>0. /\ Loop \in Actor /\ Thread \subseteq Actor
        /\ \A pc \in {"idle", "guard", "recent", "write", "refused", "send", "at", "email",
                      "advance", "skip"} : pc \in Pcs
        /\ FALSE \in BOOLEAN
    BY DEF Actor, Pcs
  <1>1. ASSUME NEW a \in Actor, AdvanceStep(a) PROVE actor' \in [Actor -> ActorType]
    <2>1. CASE ReadStep(a)
      BY <1>0, <2>1 DEF ReadStep, Goto, End
    <2>2. CASE Guard(a)
      BY <1>0, <2>2 DEF Guard, Goto, End, Refused
    <2>3. CASE GuardTime(a)
      BY <1>0, <2>3 DEF GuardTime, Goto, End, Refused
    <2>4. CASE WriteStep(a)
      BY <1>0, <2>4 DEF WriteStep, End
    <2>. QED  BY <1>1, <2>1, <2>2, <2>3, <2>4 DEF AdvanceStep
  <1>2. CASE Refuse
    BY <1>0, <1>2 DEF Refuse, End
  <1>3. ASSUME NEW ok \in BOOLEAN, TestSend(ok) PROVE actor' \in [Actor -> ActorType]
    <2>1. actor' = [[actor EXCEPT ![Loop].pc = "at"] EXCEPT ![Loop].ok = ok]
      BY <1>0, <1>3, Zenon DEF TestSend
    <2>. QED  BY <1>0, <2>1, OkType
  <1>4. AfterTest => actor' \in [Actor -> ActorType]
    <2>1. [actor EXCEPT ![Loop].pc = "advance", ![Loop].ok = FALSE]
             = [[actor EXCEPT ![Loop].pc = "advance"] EXCEPT ![Loop].ok = FALSE]
      BY <1>0, Zenon
    <2>2. [actor EXCEPT ![Loop].pc = "advance", ![Loop].ok = FALSE] \in [Actor -> ActorType]
      BY <1>0, <2>1, OkType, Zenon
    <2>3. AfterTest => \/ actor' = [actor EXCEPT ![Loop].pc = "advance", ![Loop].ok = FALSE]
                       \/ actor' = [actor EXCEPT ![Loop] = AtRest]
      BY Zenon DEF AfterTest, End
    <2>4. [actor EXCEPT ![Loop] = AtRest] \in [Actor -> ActorType]
      BY <1>0
    <2>. QED  BY <2>2, <2>3, <2>4, Zenon
  <1>5. CASE RecordAt \/ RecordEmail
    BY <1>0, <1>4, <1>5 DEF RecordAt, RecordEmail, Goto
  <1>6. CASE Form
    <2>1. ASSUME NEW job \in Jobs, NEW pc \in Pcs, NEW from \in State, LoopTakes(job, pc, from)
          PROVE  actor' \in [Actor -> ActorType]
      BY <1>0, <2>1, StartType DEF LoopTakes
    <2>2. /\ NOT_STARTED \in State /\ REGIONS_SET \in State /\ SMTP_CONFIGURED \in State
          /\ RECIPIENTS_SET \in State
          /\ \A job \in {"regions", "smtp", "test", "recipients", "finish"} : job \in Jobs
      BY DEF State, NOT_STARTED, REGIONS_SET, SMTP_CONFIGURED, RECIPIENTS_SET, COMPLETED, Jobs
    <2>. QED  BY <1>0, <1>6, <2>1, <2>2 DEF Form, Step1, Step2, Step3, Step4, SmtpTest
  <1>7. ASSUME NEW t \in Thread, PostAdvance(t) PROVE actor' \in [Actor -> ActorType]
    <2>1. "guard" \in Pcs /\ "advance" \in Jobs
      BY DEF Pcs, Jobs
    <2>. QED  BY <1>0, <1>7, <2>1, StartType DEF PostAdvance
  <1>8. ASSUME NEW t \in Thread, PostSkip(t) PROVE actor' \in [Actor -> ActorType]
    <2>1. [AtRest EXCEPT !.pc = "skip", !.job = "skip"] \in ActorType
      BY DEF ActorType, Pcs, Jobs
    <2>. QED  BY <1>0, <1>8, <2>1 DEF PostSkip
  <1>9. ASSUME NEW t \in Thread, SetSkipped(t) PROVE actor' \in [Actor -> ActorType]
    BY <1>0, <1>9 DEF SetSkipped, End
  <1>10. CASE Restart
    BY <1>10 DEF Restart
  <1>11. ASSUME NEW p \in Page, PageMiss(p) \/ PageStep(p) PROVE UNCHANGED actor
    BY <1>11 DEF PageMiss, PageStep, PageState, PageUrl, PageStore
  <1>12. TestExpires \/ Tick \/ UNCHANGED vars => UNCHANGED actor
    BY DEF TestExpires, Tick
  <1>. QED  BY <1>1, <1>2, <1>3, <1>5, <1>6, <1>7, <1>8, <1>9, <1>10, <1>11, <1>12
            DEF Next, FormStep

LEMMA FoundType ==
  ASSUME NEW f \in [Page -> PageType], NEW p \in Page, NEW b \in BOOLEAN
  PROVE  /\ [f EXCEPT ![p].over = b] \in [Page -> PageType]
         /\ [f EXCEPT ![p].home = b] \in [Page -> PageType]
  <1>1. [f EXCEPT ![p].over = b] \in [Page -> PageType]
    BY DEF PageType
  <1>2. [f EXCEPT ![p].home = b] \in [Page -> PageType]
    BY DEF PageType
  <1>. QED  BY <1>1, <1>2

LEMMA PageTypeStep ==
  ASSUME page \in [Page -> PageType], cache \in EntryType, [Next]_vars
  PROVE  page' \in [Page -> PageType] /\ cache' \in EntryType
  <1>. USE NoPageType, TTLAssumption
  <1>1. ASSUME NEW p \in Page, PageMiss(p) PROVE page' \in [Page -> PageType] /\ cache' = cache
    <2>1. CACHE_TTL \in 0..CACHE_TTL
      OBVIOUS
    <2>2. [NoPage EXCEPT !.pc = "state", !.left = CACHE_TTL] \in PageType
      BY <2>1, Zenon DEF PageType
    <2>. QED  BY <1>1, <2>2 DEF PageMiss
  <1>2. ASSUME NEW p \in Page, PageState(p) PROVE page' \in [Page -> PageType] /\ cache' = cache
    <2>1. [page EXCEPT ![p].pc = "url"] \in [Page -> PageType]
      BY DEF PageType
    <2> DEFINE moved == [page EXCEPT ![p].pc = "url"]
               now == Over
    <2>2. page' = [moved EXCEPT ![p].over = now] /\ cache' = cache
      BY <1>2, Zenon DEF PageState
    <2>3. now \in BOOLEAN
      BY Zenon DEF Over
    <2> HIDE DEF moved, now
    <2>. QED  BY <2>1, <2>2, <2>3, FoundType DEF moved
  <1>3. ASSUME NEW p \in Page, PageUrl(p) PROVE page' \in [Page -> PageType] /\ cache' = cache
    <2>1. [page EXCEPT ![p].pc = "store"] \in [Page -> PageType]
      BY DEF PageType
    <2> DEFINE moved == [page EXCEPT ![p].pc = "store"]
               home == Over /\ ~page[p].over
    <2>2. page' = [moved EXCEPT ![p].home = home] /\ cache' = cache
      BY <1>3, Zenon DEF PageUrl
    <2>3. home \in BOOLEAN
      BY Zenon
    <2> HIDE DEF moved, home
    <2>. QED  BY <2>1, <2>2, <2>3, FoundType DEF moved
  <1>4. ASSUME NEW p \in Page, PageStore(p)
        PROVE  page' \in [Page -> PageType] /\ cache' \in EntryType
    <2>1. page[p] \in PageType
      OBVIOUS
    <2>2. [over |-> page[p].over, home |-> page[p].home, left |-> page[p].left] \in EntryType
      BY <2>1, Zenon DEF PageType, EntryType
    <2>. QED  BY <1>4, <2>2 DEF PageStore
  <1>5. CASE Tick
    <2>1. ASSUME NEW p \in Page PROVE LessTime(page[p]) \in PageType
      <3>1. page[p].left > 1 => page[p].left - 1 \in 0..CACHE_TTL
        BY DEF PageType
      <3>2. page[p].left - 1 \in 0..CACHE_TTL => [page[p] EXCEPT !.left = @ - 1] \in PageType
        BY DEF PageType
      <3>. QED  BY <3>1, <3>2 DEF LessTime
    <2>2. cache.left > 1 => [cache EXCEPT !.left = @ - 1] \in EntryType
      BY DEF EntryType
    <2>. QED  BY <1>5, <2>1, <2>2 DEF Tick
  <1>6. CASE Restart
    BY <1>6 DEF Restart
  <1>7. ASSUME NEW a \in Actor, AdvanceStep(a) PROVE UNCHANGED gateVars
    BY <1>7 DEF AdvanceStep, ReadStep, Guard, GuardTime, WriteStep
  <1>8. CASE FormStep \/ Form
    BY <1>8 DEF FormStep, Form, Refuse, TestSend, RecordAt, RecordEmail, Step1, Step2, Step3,
                Step4, SmtpTest
  <1>9. ASSUME NEW t \in Thread, PostAdvance(t) \/ PostSkip(t) \/ SetSkipped(t)
        PROVE  UNCHANGED gateVars
    BY <1>9 DEF PostAdvance, PostSkip, SetSkipped
  <1>10. CASE TestExpires \/ UNCHANGED vars
    BY <1>10 DEF TestExpires
  <1>. QED  BY <1>1, <1>2, <1>3, <1>4, <1>5, <1>6, <1>7, <1>8, <1>9, <1>10 DEF Next, PageStep

LEMMA SinceStep ==
  ASSUME step \in State, actor \in [Actor -> ActorType], since \in SinceType, [Next]_vars
  PROVE  since' \in SinceType
  <1>. USE TTLAssumption
  <1>1. ASSUME NEW a \in Actor, AdvanceStep(a) PROVE since' \in SinceType
    <2>1. CASE WriteStep(a)
      BY <2>1 DEF WriteStep, Moved, SinceType
    <2>2. CASE ReadStep(a) \/ Guard(a) \/ GuardTime(a)
      BY <2>2 DEF ReadStep, Guard, GuardTime
    <2>. QED  BY <1>1, <2>1, <2>2 DEF AdvanceStep
  <1>2. CASE Tick
    <2>1. \A n \in 0..CACHE_TTL : \A now : Aged(n, now) \in 0..CACHE_TTL
      BY DEF Aged
    <2> DEFINE over == Aged(since.over, Over)
               open == Aged(since.open, ~Over)
    <2>2. over \in 0..CACHE_TTL /\ open \in 0..CACHE_TTL
      <3>1. since.over \in 0..CACHE_TTL /\ since.open \in 0..CACHE_TTL
        BY DEF SinceType
      <3>. QED  BY <3>1, <2>1, Zenon
    <2>3. since' = [over |-> over, open |-> open]
      BY <1>2, Zenon DEF Tick
    <2> HIDE DEF over, open
    <2>. QED  BY <2>2, <2>3 DEF SinceType
  <1>3. CASE FormStep \/ Form
    BY <1>3 DEF FormStep, Form, Refuse, TestSend, RecordAt, RecordEmail, Step1, Step2, Step3,
                Step4, SmtpTest
  <1>4. ASSUME NEW t \in Thread, PostAdvance(t) \/ PostSkip(t) \/ SetSkipped(t)
        PROVE  UNCHANGED since
    BY <1>4 DEF PostAdvance, PostSkip, SetSkipped
  <1>5. ASSUME NEW p \in Page, PageMiss(p) \/ PageStep(p) PROVE UNCHANGED since
    BY <1>5 DEF PageMiss, PageStep, PageState, PageUrl, PageStore
  <1>6. CASE TestExpires \/ Restart \/ UNCHANGED vars
    BY <1>6 DEF TestExpires, Restart
  <1>. QED  BY <1>1, <1>2, <1>3, <1>4, <1>5, <1>6 DEF Next

-----------------------------------------------------------------------------
(* The wizard: the invariant                                               *)

\* What must have been done for the step to be n.
Earned(n) ==
  /\ n >= REGIONS_SET => "regions" \in config
  /\ n >= SMTP_CONFIGURED => passed \/ skipped
  /\ n >= RECIPIENTS_SET => "recipients" \in config \/ skipped
  /\ n = COMPLETED => emailOk \/ skipped

\* A request that has read the step knows it earned, and one that is about to
\* write knows the next one earned.
ActorEarned(a) ==
  /\ actor[a].from # COMPLETED
  /\ actor[a].pc \in {"guard", "recent"} => Earned(actor[a].from)
  /\ actor[a].pc = "recent" => actor[a].from = REGIONS_SET /\ passed
  /\ actor[a].pc = "write" => Earned(actor[a].from + 1)

EarnedInv == Earned(step) /\ (test.ok => passed) /\ \A a \in Actor : ActorEarned(a)

\* The form at work: where it started, what it has saved, and what its own test
\* has left in the table, which nothing else writes while the form runs.
LoopInv ==
  /\ actor[Loop].pc \in {"advance", "guard", "recent", "write", "refused"} =>
       actor[Loop].job \in {"regions", "smtp", "recipients", "finish"}
  /\ actor[Loop].job = "regions" => actor[Loop].from = NOT_STARTED /\ "regions" \in config
  /\ actor[Loop].job = "smtp" => actor[Loop].from = REGIONS_SET
  /\ actor[Loop].job = "recipients" =>
       actor[Loop].from = SMTP_CONFIGURED /\ "recipients" \in config
  /\ actor[Loop].job = "finish" => actor[Loop].from = RECIPIENTS_SET
  /\ actor[Loop].pc = "recent" => actor[Loop].job = "smtp"
  /\ actor[Loop].pc \in {"advance", "guard", "recent"} /\ actor[Loop].job = "smtp" =>
       test.ok /\ test.fresh
  /\ actor[Loop].pc = "at" /\ actor[Loop].ok => test.ok
  /\ actor[Loop].pc = "email" => test.ok /\ test.fresh
  /\ actor[Loop].pc = "refused" => actor[Loop].job = "finish"

\* What a miss or the cache holds is no older than the time it has spent.
Age(e) == IF e.over THEN since.over ELSE since.open
Recent(e) == Live(e) => Age(e) <= CACHE_TTL - e.left

GateInv ==
  /\ IF Over THEN since.over = 0 ELSE since.open = 0
  /\ \A p \in Page : page[p].pc \in {"url", "store"} => Recent(page[p])
  /\ Recent(cache)

WizardInv == OnboardingTypeOK /\ EarnedInv /\ LoopInv /\ GateInv

LEMMA Numbers ==
  /\ NOT_STARTED = 0 /\ REGIONS_SET = 1 /\ SMTP_CONFIGURED = 2 /\ RECIPIENTS_SET = 3
  /\ COMPLETED = 4 /\ State = 0..4
  BY DEF State, NOT_STARTED, REGIONS_SET, SMTP_CONFIGURED, RECIPIENTS_SET, COMPLETED

\* Nothing that was done is undone.
LEMMA DoneStays ==
  ASSUME skipped \in BOOLEAN, emailOk \in BOOLEAN, passed \in BOOLEAN, [Next]_vars
  PROVE  /\ config \subseteq config'
         /\ skipped => skipped'
         /\ emailOk => emailOk'
         /\ passed => passed'
  <1>1. ASSUME NEW a \in Actor, AdvanceStep(a)
        PROVE  UNCHANGED <<config, skipped, emailOk, passed>>
    BY <1>1 DEF AdvanceStep, ReadStep, Guard, GuardTime, WriteStep
  <1>2. ASSUME NEW t \in Thread, PostAdvance(t) \/ PostSkip(t)
        PROVE  UNCHANGED <<config, skipped, emailOk, passed>>
    BY <1>2 DEF PostAdvance, PostSkip
  <1>3. ASSUME NEW t \in Thread, SetSkipped(t)
        PROVE  skipped' /\ UNCHANGED <<config, emailOk, passed>>
    BY <1>3, Zenon DEF SetSkipped
  <1>4. ASSUME NEW ok \in BOOLEAN, TestSend(ok)
        PROVE  (passed => passed') /\ UNCHANGED <<config, skipped, emailOk>>
    BY <1>4, Zenon DEF TestSend
  <1>5. CASE RecordEmail
    <2>1. emailOk' /\ UNCHANGED <<config, skipped, passed>>
      BY <1>5, Zenon DEF RecordEmail
    <2>. QED  BY <2>1
  <1>6. CASE Refuse \/ RecordAt
    BY <1>6 DEF Refuse, RecordAt
  <1>7. CASE Form
    BY <1>7 DEF Form, Step1, Step2, Step3, Step4, SmtpTest
  <1>8. ASSUME NEW p \in Page, PageMiss(p) \/ PageStep(p)
        PROVE  UNCHANGED <<config, skipped, emailOk, passed>>
    BY <1>8 DEF PageMiss, PageStep, PageState, PageUrl, PageStore
  <1>9. CASE TestExpires \/ Tick \/ Restart \/ UNCHANGED vars
    BY <1>9 DEF TestExpires, Tick, Restart
  <1>. QED  BY <1>1, <1>2, <1>3, <1>4, <1>5, <1>6, <1>7, <1>8, <1>9 DEF Next, FormStep

LEMMA EarnedStays ==
  ASSUME skipped \in BOOLEAN, emailOk \in BOOLEAN, passed \in BOOLEAN, [Next]_vars
  PROVE  \A n \in State : Earned(n) => Earned(n)'
  BY DoneStays DEF Earned

\* The flags and the outcome of the last test keep their types.
LEMMA FlagStep ==
  ASSUME skipped \in BOOLEAN, emailOk \in BOOLEAN, passed \in BOOLEAN,
         config \subseteq {"regions", "recipients"}, [Next]_vars
  PROVE  /\ skipped' \in BOOLEAN /\ emailOk' \in BOOLEAN /\ passed' \in BOOLEAN
         /\ config' \subseteq {"regions", "recipients"}
  <1>1. ASSUME NEW a \in Actor, AdvanceStep(a)
        PROVE  UNCHANGED <<config, skipped, emailOk, passed>>
    BY <1>1 DEF AdvanceStep, ReadStep, Guard, GuardTime, WriteStep
  <1>2. ASSUME NEW t \in Thread, PostAdvance(t) \/ PostSkip(t)
        PROVE  UNCHANGED <<config, skipped, emailOk, passed>>
    BY <1>2 DEF PostAdvance, PostSkip
  <1>3. ASSUME NEW t \in Thread, SetSkipped(t)
        PROVE  skipped' \in BOOLEAN /\ UNCHANGED <<config, emailOk, passed>>
    BY <1>3, Zenon DEF SetSkipped
  <1>4. ASSUME NEW ok \in BOOLEAN, TestSend(ok)
        PROVE  passed' \in BOOLEAN /\ UNCHANGED <<config, skipped, emailOk>>
    BY <1>4, Zenon DEF TestSend
  <1>5. RecordEmail => emailOk' \in BOOLEAN /\ UNCHANGED <<config, skipped, passed>>
    BY Zenon DEF RecordEmail
  <1>6. CASE Refuse \/ RecordAt
    BY <1>6 DEF Refuse, RecordAt
  <1>7. CASE Form
    <2>1. UNCHANGED <<skipped, emailOk, passed>>
      BY <1>7 DEF Form, Step1, Step2, Step3, Step4, SmtpTest
    <2>2. config' \subseteq {"regions", "recipients"}
      BY <1>7 DEF Form, Step1, Step2, Step3, Step4, SmtpTest
    <2>. QED  BY <2>1, <2>2
  <1>8. ASSUME NEW p \in Page, PageMiss(p) \/ PageStep(p)
        PROVE  UNCHANGED <<config, skipped, emailOk, passed>>
    BY <1>8 DEF PageMiss, PageStep, PageState, PageUrl, PageStore
  <1>9. TestExpires \/ Tick \/ Restart \/ UNCHANGED vars
          => UNCHANGED <<config, skipped, emailOk, passed>>
    BY DEF TestExpires, Tick, Restart
  <1>. QED  BY <1>1, <1>2, <1>3, <1>4, <1>5, <1>6, <1>7, <1>8, <1>9 DEF Next, FormStep

TestType == [ok : BOOLEAN, fresh : BOOLEAN]

\* Only the forms and the TTL touch the outcome of the test.
LEMMA TestStays ==
  ASSUME [Next]_vars, \A ok \in BOOLEAN : ~TestSend(ok), ~RecordAt, ~TestExpires
  PROVE  UNCHANGED test
  <1>1. ASSUME NEW a \in Actor, AdvanceStep(a) PROVE UNCHANGED test
    BY <1>1 DEF AdvanceStep, ReadStep, Guard, GuardTime, WriteStep
  <1>2. ASSUME NEW t \in Thread, PostAdvance(t) \/ PostSkip(t) \/ SetSkipped(t)
        PROVE  UNCHANGED test
    BY <1>2 DEF PostAdvance, PostSkip, SetSkipped
  <1>3. CASE Refuse \/ RecordEmail
    BY <1>3 DEF Refuse, RecordEmail
  <1>4. CASE Form
    BY <1>4 DEF Form, Step1, Step2, Step3, Step4, SmtpTest
  <1>5. ASSUME NEW p \in Page, PageMiss(p) \/ PageStep(p) PROVE UNCHANGED test
    BY <1>5 DEF PageMiss, PageStep, PageState, PageUrl, PageStore
  <1>6. CASE Tick \/ Restart \/ UNCHANGED vars
    BY <1>6 DEF Tick, Restart
  <1>. QED  BY <1>1, <1>2, <1>3, <1>4, <1>5, <1>6 DEF Next, FormStep

LEMMA TestStep ==
  ASSUME test \in TestType, [Next]_vars
  PROVE  test' \in TestType
  <1>1. ASSUME NEW ok \in BOOLEAN, TestSend(ok) PROVE test' \in TestType
    BY <1>1, Zenon DEF TestSend, TestType
  <1>2. RecordAt \/ TestExpires => test' \in TestType
    BY Zenon DEF RecordAt, TestExpires, TestType
  <1>. QED  BY <1>1, <1>2, TestStays

\* The step is written by one request at a time and by nobody else.
LEMMA StepStays ==
  ASSUME [Next]_vars, \A a \in Actor : ~WriteStep(a)
  PROVE  UNCHANGED step
  <1>1. ASSUME NEW a \in Actor, AdvanceStep(a) PROVE UNCHANGED step
    BY <1>1 DEF AdvanceStep, ReadStep, Guard, GuardTime
  <1>2. ASSUME NEW t \in Thread, PostAdvance(t) \/ PostSkip(t) \/ SetSkipped(t)
        PROVE  UNCHANGED step
    BY <1>2 DEF PostAdvance, PostSkip, SetSkipped
  <1>3. CASE FormStep
    BY <1>3 DEF FormStep, Refuse, TestSend, RecordAt, RecordEmail
  <1>4. CASE Form
    BY <1>4 DEF Form, Step1, Step2, Step3, Step4, SmtpTest
  <1>5. ASSUME NEW p \in Page, PageMiss(p) \/ PageStep(p) PROVE UNCHANGED step
    BY <1>5 DEF PageMiss, PageStep, PageState, PageUrl, PageStore
  <1>6. CASE TestExpires \/ Tick \/ Restart \/ UNCHANGED vars
    BY <1>6 DEF TestExpires, Tick, Restart
  <1>. QED  BY <1>1, <1>2, <1>3, <1>4, <1>5, <1>6 DEF Next

LEMMA WizardTypes ==
  OnboardingTypeOK <=> /\ step \in State /\ config \subseteq {"regions", "recipients"}
                       /\ skipped \in BOOLEAN /\ emailOk \in BOOLEAN /\ passed \in BOOLEAN
                       /\ test \in TestType
                       /\ actor \in [Actor -> ActorType]
                       /\ page \in [Page -> PageType] /\ cache \in EntryType
                       /\ since \in SinceType
  BY DEF OnboardingTypeOK, TestType, ActorType, Pcs, Jobs, PageType, EntryType, SinceType

LEMMA WizardTypeStep == WizardInv /\ [Next]_vars => OnboardingTypeOK'
  <1>. SUFFICES ASSUME WizardInv, [Next]_vars PROVE OnboardingTypeOK'
    OBVIOUS
  <1>0. WizardInv => OnboardingTypeOK /\ EarnedInv
    BY DEF WizardInv
  <1>1. step' \in State
    <2>1. ASSUME NEW a \in Actor, WriteStep(a) PROVE step' \in State
      <3>1. actor[a].from # COMPLETED
        BY <1>0 DEF EarnedInv, ActorEarned
      <3>2. actor[a].from \in State
        BY <1>0, WizardTypes DEF ActorType
      <3>3. step' = actor[a].from + 1
        BY <2>1 DEF WriteStep, Moved
      <3>. QED  BY <3>1, <3>2, <3>3, Numbers
    <2>. QED  BY <1>0, <2>1, StepStays, WizardTypes
  <1>. QED
    <2>1. (OnboardingTypeOK <=> /\ step \in State /\ config \subseteq {"regions", "recipients"}
                       /\ skipped \in BOOLEAN /\ emailOk \in BOOLEAN /\ passed \in BOOLEAN
                       /\ test \in TestType
                       /\ actor \in [Actor -> ActorType]
                       /\ page \in [Page -> PageType] /\ cache \in EntryType
                       /\ since \in SinceType)'
      BY WizardTypes, PTL
    <2>. QED  BY <1>0, <1>1, <2>1, WizardTypes, FlagStep, TestStep, ActorStep, PageTypeStep,
                 SinceStep, Zenon

-----------------------------------------------------------------------------
(* The wizard: every step is earned                                        *)

\* A step by one actor leaves what the others know: ActorEarned of an actor
\* that does not move holds on.
LEMMA OthersEarned ==
  ASSUME OnboardingTypeOK, EarnedInv, [Next]_vars, NEW a \in Actor, actor'[a] = actor[a]
  PROVE  ActorEarned(a)'
  <1>1. \A n \in State : Earned(n) => Earned(n)'
    BY WizardTypes, EarnedStays
  <1>2. passed => passed'
    BY WizardTypes, DoneStays
  <1>3. ActorEarned(a) /\ actor[a].from \in State
    BY WizardTypes DEF EarnedInv, ActorType
  <1> DEFINE n == actor[a].from
  <1>4. n # COMPLETED => n + 1 \in State
    BY <1>3, Numbers
  <1>5. actor[a].pc \in {"guard", "recent"} => Earned(n)'
    BY <1>1, <1>3 DEF ActorEarned
  <1>6. actor[a].pc = "write" => Earned(n + 1)'
    BY <1>1, <1>3, <1>4 DEF ActorEarned
  <1>. QED  BY <1>2, <1>3, <1>5, <1>6 DEF ActorEarned, Earned

\* The steps of advance, by a thread or by the loop.
LEMMA AdvanceEarned ==
  ASSUME OnboardingTypeOK, EarnedInv, [Next]_vars, NEW a \in Actor, AdvanceStep(a)
  PROVE  ActorEarned(a)' /\ \A b \in Actor \ {a} : actor'[b] = actor[b]
  <1>0. /\ actor \in [Actor -> ActorType] /\ actor[a].from \in State
        /\ ActorEarned(a) /\ Earned(step) /\ (test.ok => passed)
    BY WizardTypes DEF EarnedInv, ActorType
  <1>. PICK n \in State : actor[a].from = n
    BY <1>0
  <1>1. n # COMPLETED /\ n + 1 \in State
    BY <1>0, Numbers DEF ActorEarned
  <1>2. \A m \in State : Earned(m) => Earned(m)'
    BY WizardTypes, EarnedStays
  <1>3. actor' = [actor EXCEPT ![a] = AtRest] => ActorEarned(a)'
    BY <1>0, Numbers DEF ActorEarned, AtRest
  <1>4. actor' = [actor EXCEPT ![a].pc = "refused"] => ActorEarned(a)'
    BY <1>0, <1>1 DEF ActorEarned, ActorType
  <1>5. Refused(a) => ActorEarned(a)'
    BY <1>3, <1>4 DEF Refused, Goto, End
  <1>6. actor' = [actor EXCEPT ![a].pc = "write"] /\ Earned(n + 1)' => ActorEarned(a)'
    BY <1>0, <1>1 DEF ActorEarned, ActorType, Earned
  <1>7. CASE ReadStep(a)
    <2>1. step = n => Earned(n)'
      BY <1>0, <1>2
    <2>2. actor' = [actor EXCEPT ![a].pc = "guard"] /\ Earned(n)' => ActorEarned(a)'
      BY <1>0, <1>1 DEF ActorEarned, ActorType, Earned
    <2>. QED  BY <1>0, <1>3, <1>7, <2>1, <2>2 DEF ReadStep, Goto, End
  <1>8. CASE Guard(a)
    <2>0. Earned(n)
      BY <1>0, <1>8 DEF Guard, At, ActorEarned
    <2>1. ASSUME n + 1 = SMTP_CONFIGURED, ~skipped PROVE ActorEarned(a)'
      <3>1. test.ok => /\ n = REGIONS_SET /\ passed' /\ Earned(n)'
                       /\ actor' = [actor EXCEPT ![a].pc = "recent"]
        BY <1>0, <1>1, <1>2, <1>8, <2>0, <2>1, Numbers, DoneStays, WizardTypes
           DEF Guard, Goto
      <3>2. ~test.ok => Refused(a)
        BY <1>8, <2>1 DEF Guard
      <3>3. actor' = [actor EXCEPT ![a].pc = "recent"] /\ n = REGIONS_SET /\ passed' /\ Earned(n)'
              => ActorEarned(a)'
        BY <1>0, <1>1 DEF ActorEarned, ActorType, Earned
      <3>. QED  BY <1>5, <3>1, <3>2, <3>3
    <2>2. ASSUME ~(n + 1 = SMTP_CONFIGURED /\ ~skipped) PROVE ActorEarned(a)'
      <3>1. n + 1 = SMTP_CONFIGURED \/ GuardOf(n + 1) => Earned(n + 1)
        <4>1. CASE n + 1 = SMTP_CONFIGURED
          <5>1. n = REGIONS_SET
            BY <4>1, Numbers
          <5>2. skipped
            BY <2>2, <4>1, Zenon
          <5>. QED  BY <2>0, <4>1, <5>1, <5>2, Numbers DEF Earned
        <4>2. CASE n + 1 = REGIONS_SET
          <5>1. GuardOf(REGIONS_SET) => "regions" \in config
            BY Numbers DEF GuardOf
          <5>2. ~(n + 1 = SMTP_CONFIGURED) /\ (GuardOf(n + 1) => "regions" \in config)
            BY <4>2, <5>1, Numbers
          <5>3. "regions" \in config => Earned(n + 1)
            BY <4>2, Numbers DEF Earned
          <5>. QED  BY <5>2, <5>3, Zenon
        <4>3. CASE n + 1 = RECIPIENTS_SET
          <5>1. GuardOf(RECIPIENTS_SET) => "recipients" \in config \/ skipped
            BY Numbers DEF GuardOf
          <5>2. ~(n + 1 = SMTP_CONFIGURED) /\ (GuardOf(n + 1) => "recipients" \in config \/ skipped)
            BY <4>3, <5>1, Numbers
          <5>3. ("recipients" \in config \/ skipped) => Earned(n + 1)
            BY <2>0, <4>3, Numbers DEF Earned
          <5>. QED  BY <5>2, <5>3, Zenon
        <4>4. CASE n + 1 = COMPLETED
          <5>1. GuardOf(COMPLETED) => emailOk \/ skipped
            BY Numbers DEF GuardOf
          <5>2. ~(n + 1 = SMTP_CONFIGURED) /\ (GuardOf(n + 1) => emailOk \/ skipped)
            BY <4>4, <5>1, Numbers
          <5>3. (emailOk \/ skipped) => Earned(n + 1)
            BY <2>0, <4>4, Numbers DEF Earned
          <5>. QED  BY <5>2, <5>3, Zenon
        <4>. QED  BY <1>1, <4>1, <4>2, <4>3, <4>4, Numbers
      <3>2. n + 1 = SMTP_CONFIGURED \/ GuardOf(n + 1)
              => actor' = [actor EXCEPT ![a].pc = "write"]
        BY <1>8, <2>2 DEF Guard, Goto
      <3>3. ~(n + 1 = SMTP_CONFIGURED \/ GuardOf(n + 1)) => Refused(a)
        BY <1>8, <2>2 DEF Guard
      <3>. QED  BY <1>1, <1>2, <1>5, <1>6, <3>1, <3>2, <3>3
    <2>3. \A b \in Actor \ {a} : actor'[b] = actor[b]
      BY <1>0, <1>8 DEF Guard, Refused, Goto, End
    <2>. QED  BY <2>1, <2>2, <2>3
  <1>9. CASE GuardTime(a)
    <2>1. Earned(n) /\ n = REGIONS_SET /\ passed
      BY <1>0, <1>9 DEF GuardTime, At, ActorEarned
    <2>2. Earned(n + 1)
      BY <2>1, Numbers DEF Earned
    <2>3. \/ actor' = [actor EXCEPT ![a].pc = "write"]
          \/ Refused(a)
      BY <1>9 DEF GuardTime, Goto
    <2>4. \A b \in Actor \ {a} : actor'[b] = actor[b]
      BY <1>0, <1>9 DEF GuardTime, Refused, Goto, End
    <2>. QED  BY <1>1, <1>2, <1>5, <1>6, <2>2, <2>3, <2>4
  <1>10. CASE WriteStep(a)
    BY <1>0, <1>3, <1>10 DEF WriteStep, End
  <1>. QED  BY <1>7, <1>8, <1>9, <1>10 DEF AdvanceStep

LEMMA LoopEarned ==
  ASSUME OnboardingTypeOK, EarnedInv, [Next]_vars, FormStep \/ Form
  PROVE  ActorEarned(Loop)' /\ \A b \in Actor \ {Loop} : actor'[b] = actor[b]
  <1>0. /\ actor \in [Actor -> ActorType] /\ Loop \in Actor
        /\ actor[Loop].from # COMPLETED
    BY WizardTypes DEF EarnedInv, ActorEarned, Actor
  <1>1. ASSUME NEW pc \in Pcs \ {"guard", "recent", "write"},
               actor'[Loop].pc = pc, actor'[Loop].from # COMPLETED
        PROVE  ActorEarned(Loop)'
    BY <1>1 DEF ActorEarned
  <1>2. actor' = [actor EXCEPT ![Loop] = AtRest]
          => ActorEarned(Loop)' /\ \A b \in Actor \ {Loop} : actor'[b] = actor[b]
    BY <1>0, Numbers DEF ActorEarned, AtRest
  <1>3. ASSUME NEW pc \in {"at", "email", "advance"}, actor' = [actor EXCEPT ![Loop].pc = pc]
        PROVE  ActorEarned(Loop)' /\ \A b \in Actor \ {Loop} : actor'[b] = actor[b]
    <2>1. actor'[Loop].pc = pc /\ actor'[Loop].from # COMPLETED
      BY <1>0, <1>3 DEF ActorType
    <2>2. \A b \in Actor \ {Loop} : actor'[b] = actor[b]
      BY <1>0, <1>3
    <2>. QED  BY <1>1, <2>1, <2>2 DEF Pcs
  <1>4. ASSUME NEW pc \in {"at", "advance"}, NEW ok \in BOOLEAN,
               actor' = [actor EXCEPT ![Loop].pc = pc, ![Loop].ok = ok]
        PROVE  ActorEarned(Loop)' /\ \A b \in Actor \ {Loop} : actor'[b] = actor[b]
    <2>1. actor'[Loop].pc = pc /\ actor'[Loop].from # COMPLETED
      BY <1>0, <1>4 DEF ActorType
    <2>2. \A b \in Actor \ {Loop} : actor'[b] = actor[b]
      BY <1>0, <1>4
    <2>. QED  BY <1>1, <2>1, <2>2 DEF Pcs
  <1>5. AfterTest => ActorEarned(Loop)' /\ \A b \in Actor \ {Loop} : actor'[b] = actor[b]
    <2>1. AfterTest => \/ actor' = [actor EXCEPT ![Loop].pc = "advance", ![Loop].ok = FALSE]
                       \/ actor' = [actor EXCEPT ![Loop] = AtRest]
      BY Zenon DEF AfterTest, End
    <2>2. FALSE \in BOOLEAN /\ "advance" \in {"at", "advance"}
      OBVIOUS
    <2>. QED  BY <1>2, <1>4, <2>1, <2>2, Zenon
  <1>6. CASE Refuse
    BY <1>2, <1>6 DEF Refuse, End
  <1>7. ASSUME NEW ok \in BOOLEAN, TestSend(ok)
        PROVE  ActorEarned(Loop)' /\ \A b \in Actor \ {Loop} : actor'[b] = actor[b]
    BY <1>4, <1>7, Zenon DEF TestSend
  <1>8. CASE RecordAt \/ RecordEmail
    BY <1>3, <1>5, <1>8 DEF RecordAt, RecordEmail, Goto
  <1>9. CASE Form
    <2>1. ASSUME NEW job \in Jobs, NEW pc \in {"advance", "send"}, NEW from \in State \ {COMPLETED},
                 LoopTakes(job, pc, from)
          PROVE  ActorEarned(Loop)' /\ \A b \in Actor \ {Loop} : actor'[b] = actor[b]
      <3>1. actor'[Loop].pc = pc /\ actor'[Loop].from = from
        BY <1>0, <2>1 DEF LoopTakes, AtRest
      <3>2. \A b \in Actor \ {Loop} : actor'[b] = actor[b]
        BY <1>0, <2>1 DEF LoopTakes
      <3>. QED  BY <1>1, <3>1, <3>2 DEF Pcs
    <2>2. \A job \in {"regions", "smtp", "test", "recipients", "finish"} : job \in Jobs
      BY DEF Jobs
    <2>. QED  BY <1>9, <2>1, <2>2, Numbers DEF Form, Step1, Step2, Step3, Step4, SmtpTest
  <1>. QED  BY <1>6, <1>7, <1>8, <1>9 DEF FormStep

LEMMA EarnedStep == WizardInv /\ [Next]_vars => EarnedInv'
  <1>. SUFFICES ASSUME WizardInv, [Next]_vars PROVE EarnedInv'
    OBVIOUS
  <1>0. OnboardingTypeOK /\ EarnedInv
    BY DEF WizardInv
  <1>1. Earned(step)'
    <2>1. ASSUME NEW a \in Actor, WriteStep(a) PROVE Earned(step)'
      <3>. PICK n \in State : actor[a].from = n
        BY <1>0, WizardTypes DEF ActorType
      <3>1. n # COMPLETED /\ Earned(n + 1) /\ n + 1 \in State
        BY <1>0, <2>1, Numbers DEF EarnedInv, ActorEarned, WriteStep, At
      <3>2. Earned(n + 1)'
        BY <1>0, <3>1, EarnedStays, WizardTypes
      <3>3. step' = n + 1
        BY <2>1 DEF WriteStep, Moved
      <3>. QED  BY <3>2, <3>3 DEF Earned
    <2>2. CASE \A a \in Actor : ~WriteStep(a)
      <3>1. step' = step
        BY <2>2, StepStays
      <3>. PICK n \in State : step = n
        BY <1>0, WizardTypes
      <3>2. Earned(n)'
        BY <1>0, EarnedStays, WizardTypes DEF EarnedInv
      <3>. QED  BY <3>1, <3>2 DEF Earned
    <2>. QED  BY <2>1, <2>2
  <1>2. (test.ok => passed)'
    <2>0. (test.ok => passed) /\ (passed => passed') /\ test \in TestType
      BY <1>0, DoneStays, WizardTypes DEF EarnedInv
    <2>1. ASSUME NEW ok \in BOOLEAN, TestSend(ok) PROVE (test.ok => passed)'
      BY <2>0, <2>1, Zenon DEF TestSend, TestType
    <2>2. CASE RecordAt \/ TestExpires
      <3>1. test'.ok = test.ok
        BY <2>0, <2>2, Zenon DEF RecordAt, TestExpires, TestType
      <3>. QED  BY <2>0, <3>1
    <2>. QED  BY <2>0, <2>1, <2>2, TestStays
  <1>3. ASSUME NEW b \in Actor PROVE ActorEarned(b)'
    <2>0. Loop \in Actor /\ Thread \subseteq Actor /\ actor \in [Actor -> ActorType]
      BY <1>0, WizardTypes DEF Actor
    <2>1. actor'[b] = actor[b] => ActorEarned(b)'
      BY <1>0, OthersEarned
    <2>2. ASSUME NEW a \in Actor, AdvanceStep(a) PROVE ActorEarned(b)'
      BY <1>0, <2>1, <2>2, AdvanceEarned
    <2>3. CASE FormStep \/ Form
      BY <1>0, <2>0, <2>1, <2>3, LoopEarned
    <2>4. actor'[b] = AtRest => ActorEarned(b)'
      BY Numbers DEF ActorEarned, AtRest
    <2>5. ASSUME NEW t \in Thread, PostAdvance(t) PROVE ActorEarned(b)'
      <3>. PICK n \in State : step = n
        BY <1>0, WizardTypes
      <3>1. n # COMPLETED /\ Earned(n)'
        BY <1>0, <2>5, EarnedStays, WizardTypes DEF EarnedInv, PostAdvance
      <3>2. /\ actor'[t].pc = "guard" /\ actor'[t].from = n
            /\ b # t => actor'[b] = actor[b]
        BY <2>0, <2>5 DEF PostAdvance, AtRest
      <3>. QED  BY <2>1, <3>1, <3>2 DEF ActorEarned, Earned
    <2>6. ASSUME NEW t \in Thread, PostSkip(t) PROVE ActorEarned(b)'
      <3>1. /\ actor'[t].pc = "skip" /\ actor'[t].from = NOT_STARTED
            /\ b # t => actor'[b] = actor[b]
        BY <2>0, <2>6 DEF PostSkip, AtRest
      <3>. QED  BY <2>1, <3>1, Numbers DEF ActorEarned
    <2>7. ASSUME NEW t \in Thread, SetSkipped(t) PROVE ActorEarned(b)'
      <3>1. actor'[t] = AtRest /\ (b # t => actor'[b] = actor[b])
        BY <2>0, <2>7 DEF SetSkipped, End
      <3>. QED  BY <2>1, <2>4, <3>1
    <2>8. ASSUME NEW p \in Page, PageMiss(p) \/ PageStep(p) PROVE ActorEarned(b)'
      <3>1. UNCHANGED actor
        BY <2>8 DEF PageMiss, PageStep, PageState, PageUrl, PageStore
      <3>. QED  BY <2>1, <3>1
    <2>9. CASE TestExpires \/ Tick \/ UNCHANGED vars
      <3>1. UNCHANGED actor
        BY <2>9 DEF TestExpires, Tick
      <3>. QED  BY <2>1, <3>1
    <2>10. CASE Restart
      <3>1. actor'[b] = AtRest
        BY <2>10 DEF Restart
      <3>. QED  BY <2>4, <3>1
    <2>. QED  BY <2>2, <2>3, <2>5, <2>6, <2>7, <2>8, <2>9, <2>10 DEF Next
  <1>. QED  BY <1>1, <1>2, <1>3 DEF EarnedInv

-----------------------------------------------------------------------------
(* The wizard: what the form at work knows                                 *)

\* A form that is over knows nothing.
LEMMA RestKnows ==
  ASSUME actor'[Loop] = AtRest
  PROVE  LoopInv'
  BY DEF LoopInv, AtRest

\* What is left alone, with the settings only growing, is still known.
LEMMA SameKnows ==
  ASSUME LoopInv, actor'[Loop] = actor[Loop], UNCHANGED test, config \subseteq config'
  PROVE  LoopInv'
  BY DEF LoopInv

\* The form moves from one place of advance to the next.
LEMMA MovedKnows ==
  ASSUME LoopInv, UNCHANGED <<test, config>>, NEW pc,
         actor'[Loop].pc = pc, actor'[Loop].job = actor[Loop].job,
         actor'[Loop].from = actor[Loop].from,
         \/ /\ pc = "guard" /\ actor[Loop].pc = "advance"
         \/ /\ pc = "recent" /\ actor[Loop].pc = "guard" /\ actor[Loop].from = REGIONS_SET
         \/ /\ pc = "write" /\ actor[Loop].pc \in {"guard", "recent"}
         \/ /\ pc = "refused" /\ actor[Loop].pc \in {"guard", "recent"}
            /\ actor[Loop].job = "finish"
  PROVE  LoopInv'
  BY Numbers DEF LoopInv

LEMMA LoopAdvanceKnows ==
  ASSUME OnboardingTypeOK, EarnedInv, LoopInv, AdvanceStep(Loop)
  PROVE  LoopInv'
  <1>0. /\ actor \in [Actor -> ActorType] /\ Loop \in Actor /\ actor[Loop] \in ActorType
    BY WizardTypes DEF Actor
  <1>1. ASSUME NEW pc \in Pcs, actor' = [actor EXCEPT ![Loop].pc = pc]
        PROVE  /\ actor'[Loop].pc = pc /\ actor'[Loop].job = actor[Loop].job
               /\ actor'[Loop].from = actor[Loop].from
    BY <1>0, <1>1 DEF ActorType
  <1>2. actor' = [actor EXCEPT ![Loop] = AtRest] => LoopInv'
    BY <1>0, RestKnows
  <1>3. {"guard", "recent", "write", "refused"} \subseteq Pcs
    BY DEF Pcs
  <1>4. CASE ReadStep(Loop)
    <2>1. actor[Loop].pc = "advance" /\ UNCHANGED <<test, config>>
      BY <1>4 DEF ReadStep, At
    <2>2. actor' = [actor EXCEPT ![Loop].pc = "guard"] \/ actor' = [actor EXCEPT ![Loop] = AtRest]
      BY <1>4 DEF ReadStep, Goto, End
    <2>. QED  BY <1>1, <1>2, <1>3, <2>1, <2>2, MovedKnows
  <1>5. CASE Guard(Loop)
    <2>1. actor[Loop].pc = "guard" /\ UNCHANGED <<test, config>>
      BY <1>5 DEF Guard, At
    <2>. PICK n \in State : actor[Loop].from = n
      BY <1>0 DEF ActorType
    <2>2. \/ /\ n + 1 = SMTP_CONFIGURED /\ test.ok
             /\ actor' = [actor EXCEPT ![Loop].pc = "recent"]
          \/ /\ n + 1 = SMTP_CONFIGURED /\ ~test.ok
             /\ actor' = [actor EXCEPT ![Loop].pc = "refused"]
          \/ actor' = [actor EXCEPT ![Loop].pc = "write"]
          \/ /\ n + 1 # SMTP_CONFIGURED /\ ~GuardOf(n + 1)
             /\ actor' = [actor EXCEPT ![Loop].pc = "refused"]
      <3>1. Refused(Loop) <=> actor' = [actor EXCEPT ![Loop].pc = "refused"]
        BY DEF Refused, Goto
      <3>. QED  BY <1>5, <3>1, Zenon DEF Guard, Goto
    <2>3. n + 1 = SMTP_CONFIGURED => n = REGIONS_SET
      BY Numbers
    <2>4. n = REGIONS_SET => actor[Loop].job = "smtp" /\ test.ok
      BY <2>1, Numbers DEF LoopInv
    <2>5. n + 1 # SMTP_CONFIGURED /\ ~GuardOf(n + 1) => actor[Loop].job = "finish"
      <3>1. actor[Loop].job \in {"regions", "smtp", "recipients", "finish"}
        BY <2>1 DEF LoopInv
      <3>2. actor[Loop].job = "regions" => n + 1 = REGIONS_SET /\ "regions" \in config
        BY Numbers DEF LoopInv
      <3>3. actor[Loop].job = "recipients" => n + 1 = RECIPIENTS_SET /\ "recipients" \in config
        BY Numbers DEF LoopInv
      <3>4. actor[Loop].job = "smtp" => n + 1 = SMTP_CONFIGURED
        BY Numbers DEF LoopInv
      <3>5. "regions" \in config => GuardOf(REGIONS_SET)
        BY Numbers DEF GuardOf
      <3>6. "recipients" \in config => GuardOf(RECIPIENTS_SET)
        BY Numbers DEF GuardOf
      <3>. QED  BY <3>1, <3>2, <3>3, <3>4, <3>5, <3>6
    <2>6. n = REGIONS_SET => actor[Loop].from = REGIONS_SET
      OBVIOUS
    <2>. QED  BY <1>1, <1>3, <2>1, <2>2, <2>3, <2>4, <2>5, <2>6, MovedKnows
  <1>6. CASE GuardTime(Loop)
    <2>1. actor[Loop].pc = "recent" /\ UNCHANGED <<test, config>>
      BY <1>6 DEF GuardTime, At
    <2>2. test.fresh
      BY <2>1 DEF LoopInv
    <2>3. actor' = [actor EXCEPT ![Loop].pc = "write"]
      BY <1>6, <2>2 DEF GuardTime, Goto
    <2>. QED  BY <1>1, <1>3, <2>1, <2>3, MovedKnows
  <1>7. CASE WriteStep(Loop)
    BY <1>2, <1>7 DEF WriteStep, End
  <1>. QED  BY <1>4, <1>5, <1>6, <1>7 DEF AdvanceStep

LEMMA TestKnows ==
  ASSUME OnboardingTypeOK, LoopInv, NEW ok \in BOOLEAN, TestSend(ok)
  PROVE  LoopInv'
  <1>0. /\ actor \in [Actor -> ActorType] /\ Loop \in Actor /\ test \in TestType
    BY WizardTypes DEF Actor
  <1>1. /\ actor'[Loop].pc = "at" /\ actor'[Loop].job = actor[Loop].job
        /\ actor'[Loop].from = actor[Loop].from
    BY <1>0 DEF TestSend, ActorType
  <1>2. actor'[Loop].ok => test'.ok
    BY <1>0, Zenon DEF TestSend, ActorType, TestType
  <1>3. config' = config
    BY DEF TestSend
  <1>. QED  BY <1>1, <1>2, <1>3 DEF LoopInv

\* Back to the form, which goes on or is over.
LEMMA AfterTestKnows ==
  ASSUME OnboardingTypeOK, LoopInv, AfterTest, UNCHANGED config,
         actor[Loop].ok => test'.ok /\ test'.fresh
  PROVE  LoopInv'
  <1>0. /\ actor \in [Actor -> ActorType] /\ Loop \in Actor
    BY WizardTypes DEF Actor
  <1>1. CASE actor' = [actor EXCEPT ![Loop] = AtRest]
    BY <1>0, <1>1, RestKnows
  <1>2. CASE /\ actor' = [actor EXCEPT ![Loop].pc = "advance", ![Loop].ok = FALSE]
             /\ actor[Loop].job = "recipients" \/ (actor[Loop].job = "smtp" /\ actor[Loop].ok)
    <2>1. /\ actor'[Loop].pc = "advance" /\ actor'[Loop].job = actor[Loop].job
          /\ actor'[Loop].from = actor[Loop].from
      BY <1>0, <1>2 DEF ActorType
    <2>2. actor[Loop].job = "smtp" => test'.ok /\ test'.fresh
      BY <1>2
    <2>. QED  BY <1>2, <2>1, <2>2 DEF LoopInv
  <1>. QED  BY <1>1, <1>2, Zenon DEF AfterTest, End

LEMMA RecordKnows ==
  ASSUME OnboardingTypeOK, LoopInv, RecordAt \/ RecordEmail
  PROVE  LoopInv'
  <1>0. /\ actor \in [Actor -> ActorType] /\ Loop \in Actor /\ test \in TestType
    BY WizardTypes DEF Actor
  <1>1. CASE RecordAt /\ actor[Loop].ok
    <2>1. /\ actor'[Loop].pc = "email" /\ actor'[Loop].job = actor[Loop].job
          /\ actor'[Loop].from = actor[Loop].from
      BY <1>0, <1>1 DEF RecordAt, Goto, ActorType
    <2>2. test.ok
      BY <1>1 DEF RecordAt, At, LoopInv
    <2>3. test'.ok /\ test'.fresh
      BY <1>0, <1>1, <2>2, Zenon DEF RecordAt, TestType
    <2>4. config' = config
      BY <1>1 DEF RecordAt
    <2>. QED  BY <2>1, <2>3, <2>4 DEF LoopInv
  <1>2. CASE RecordAt /\ ~actor[Loop].ok
    <2>1. AfterTest /\ config' = config
      BY <1>2 DEF RecordAt
    <2>. QED  BY <1>2, <2>1, AfterTestKnows
  <1>3. CASE RecordEmail
    <2>1. AfterTest /\ UNCHANGED <<config, test>> /\ test.ok /\ test.fresh
      BY <1>3 DEF RecordEmail, At, LoopInv
    <2>. QED  BY <2>1, AfterTestKnows
  <1>. QED  BY <1>1, <1>2, <1>3

LEMMA FormKnows ==
  ASSUME OnboardingTypeOK, LoopInv, Form
  PROVE  LoopInv'
  <1>0. /\ actor \in [Actor -> ActorType] /\ Loop \in Actor
    BY WizardTypes DEF Actor
  <1>1. ASSUME NEW job, NEW pc, NEW from, LoopTakes(job, pc, from)
        PROVE  actor'[Loop].pc = pc /\ actor'[Loop].job = job /\ actor'[Loop].from = from
    BY <1>0, <1>1 DEF LoopTakes, AtRest
  <1>2. CASE Step1
    <2>1. /\ actor'[Loop].pc = "advance" /\ actor'[Loop].job = "regions"
          /\ actor'[Loop].from = NOT_STARTED /\ "regions" \in config'
      BY <1>1, <1>2 DEF Step1
    <2>. QED  BY <2>1 DEF LoopInv
  <1>3. CASE Step2
    <2>1. /\ actor'[Loop].pc = "send" /\ actor'[Loop].job = "smtp"
          /\ actor'[Loop].from = REGIONS_SET
      BY <1>1, <1>3 DEF Step2
    <2>. QED  BY <2>1 DEF LoopInv
  <1>4. CASE SmtpTest
    <2>1. actor'[Loop].pc = "send" /\ actor'[Loop].job = "test"
      BY <1>1, <1>4 DEF SmtpTest
    <2>. QED  BY <2>1 DEF LoopInv
  <1>5. ASSUME NEW ticked \in BOOLEAN, Step3(ticked) PROVE LoopInv'
    <2>1. /\ actor'[Loop].pc = IF ticked THEN "send" ELSE "advance"
          /\ actor'[Loop].job = "recipients"
          /\ actor'[Loop].from = SMTP_CONFIGURED /\ "recipients" \in config'
      BY <1>1, <1>5 DEF Step3
    <2>2. actor'[Loop].pc \in {"send", "advance"}
      BY <2>1
    <2>. QED  BY <2>1, <2>2 DEF LoopInv
  <1>6. CASE Step4
    <2>1. /\ actor'[Loop].pc = "advance" /\ actor'[Loop].job = "finish"
          /\ actor'[Loop].from = RECIPIENTS_SET
      BY <1>1, <1>6 DEF Step4
    <2>. QED  BY <2>1 DEF LoopInv
  <1>. QED  BY <1>2, <1>3, <1>4, <1>5, <1>6 DEF Form

LEMMA LoopStep == WizardInv /\ [Next]_vars => LoopInv'
  <1>. SUFFICES ASSUME WizardInv, [Next]_vars PROVE LoopInv'
    OBVIOUS
  <1>0. /\ OnboardingTypeOK /\ EarnedInv /\ LoopInv
        /\ actor \in [Actor -> ActorType] /\ Loop \in Actor /\ Thread \subseteq Actor
        /\ \A t \in Thread : t # Loop
        /\ config \subseteq config'
    BY WizardTypes, DoneStays, LoopAssumption DEF WizardInv, Actor
  <1>1. ASSUME NEW a \in Actor, AdvanceStep(a) PROVE LoopInv'
    <2>1. CASE a # Loop
      <3>1. actor'[Loop] = actor[Loop]
        BY <1>0, <1>1, <2>1, AdvanceEarned
      <3>2. UNCHANGED test
        BY <1>1 DEF AdvanceStep, ReadStep, Guard, GuardTime, WriteStep
      <3>. QED  BY <1>0, <3>1, <3>2, SameKnows
    <2>. QED  BY <1>0, <1>1, <2>1, LoopAdvanceKnows
  <1>2. ASSUME NEW t \in Thread, PostAdvance(t) \/ PostSkip(t) \/ SetSkipped(t) PROVE LoopInv'
    <2>1. actor'[Loop] = actor[Loop] /\ UNCHANGED test
      BY <1>0, <1>2 DEF PostAdvance, PostSkip, SetSkipped, End
    <2>. QED  BY <1>0, <2>1, SameKnows
  <1>3. CASE Refuse
    BY <1>0, <1>3, RestKnows DEF Refuse, End
  <1>4. CASE TestExpires
    <2>1. actor[Loop].pc = "idle" /\ UNCHANGED <<actor, config>>
      BY <1>4 DEF TestExpires, At
    <2>. QED  BY <1>0, <2>1 DEF LoopInv
  <1>5. ASSUME NEW p \in Page, PageMiss(p) \/ PageStep(p) PROVE LoopInv'
    <2>1. UNCHANGED <<actor, test>>
      BY <1>5 DEF PageMiss, PageStep, PageState, PageUrl, PageStore
    <2>. QED  BY <1>0, <2>1, SameKnows
  <1>6. CASE Tick \/ UNCHANGED vars
    <2>1. UNCHANGED <<actor, test>>
      BY <1>6 DEF Tick
    <2>. QED  BY <1>0, <2>1, SameKnows
  <1>7. CASE Restart
    BY <1>0, <1>7, RestKnows DEF Restart
  <1>. QED  BY <1>0, <1>1, <1>2, <1>3, <1>4, <1>5, <1>6, <1>7, TestKnows, RecordKnows, FormKnows
            DEF Next, FormStep

-----------------------------------------------------------------------------
(* The wizard: what the gate remembers                                     *)

\* The clock makes nothing older than it lets it spend.
LEMMA TickRecent ==
  ASSUME since \in SinceType, Tick, NEW e, NEW f,
         e.left \in 0..CACHE_TTL, Recent(e), e.left > 1 => f.left = e.left - 1 /\ f.over = e.over,
         e.left <= 1 => f.left = 0
  PROVE  Recent(f)'
  <1>. PICK o \in 0..CACHE_TTL, n \in 0..CACHE_TTL : since.over = o /\ since.open = n
    BY DEF SinceType
  <1>. USE TTLAssumption
  <1>1. since'.over <= o + 1 /\ since'.open <= n + 1 /\ since'.over \in Nat /\ since'.open \in Nat
    <2>1. \A m \in 0..CACHE_TTL : \A now : Aged(m, now) <= m + 1 /\ Aged(m, now) \in Nat
      BY DEF Aged
    <2>2. since'.over = Aged(o, Over) /\ since'.open = Aged(n, ~Over)
      BY Zenon DEF Tick
    <2>. QED  BY <2>1, <2>2, Zenon
  <1>2. CASE e.left > 1
    BY <1>1, <1>2 DEF Recent, Live, Age
  <1>3. CASE e.left <= 1
    BY <1>3 DEF Recent, Live
  <1>. QED  BY <1>2, <1>3

\* What the gate knows depends on the step, the histories and its entries.
LEMMA SameGate ==
  ASSUME GateInv, UNCHANGED <<step, since, page, cache>>
  PROVE  GateInv'
  BY DEF GateInv, Over, Recent, Age, Live

LEMMA WriteGate ==
  ASSUME OnboardingTypeOK, GateInv, NEW a \in Actor, WriteStep(a)
  PROVE  GateInv'
  <1>0. since \in SinceType /\ page \in [Page -> PageType] /\ cache \in EntryType
    BY WizardTypes
  <1>. USE TTLAssumption
  <1>1. PICK to : step' = to
                  /\ since' = IF to = COMPLETED THEN [since EXCEPT !.over = 0]
                               ELSE [since EXCEPT !.open = 0]
    BY DEF WriteStep, Moved
  <1>2. /\ since'.over \in {0, since.over} /\ since'.open \in {0, since.open}
        /\ IF Over' THEN since'.over = 0 ELSE since'.open = 0
    BY <1>0, <1>1 DEF SinceType, Over
  <1>3. ASSUME NEW e, e.left \in 0..CACHE_TTL, Recent(e) PROVE Recent(e)'
    BY <1>0, <1>2, <1>3 DEF Recent, Live, Age, SinceType
  <1>4. UNCHANGED <<page, cache>>
    BY DEF WriteStep
  <1>5. Recent(cache)'
    <2>. PICK e : e = cache
      OBVIOUS
    <2>1. Recent(e)'
      BY <1>0, <1>3 DEF GateInv, EntryType
    <2>. QED  BY <1>4, <2>1 DEF Recent, Live, Age
  <1>6. ASSUME NEW p \in Page, page'[p].pc \in {"url", "store"} PROVE Recent(page[p])'
    <2>. PICK e : e = page[p]
      OBVIOUS
    <2>0. e.left \in 0..CACHE_TTL
      BY <1>0 DEF PageType
    <2>1. Recent(e)'
      BY <1>0, <1>3, <1>4, <1>6, <2>0 DEF GateInv
    <2>. QED  BY <1>4, <2>1 DEF Recent, Live, Age
  <1>. QED  BY <1>2, <1>5, <1>6 DEF GateInv

LEMMA PageGate ==
  ASSUME OnboardingTypeOK, GateInv, NEW p \in Page, PageMiss(p) \/ PageStep(p)
  PROVE  GateInv'
  <1>0. /\ since \in SinceType /\ page \in [Page -> PageType] /\ cache \in EntryType
        /\ page[p] \in PageType
    BY WizardTypes
  <1>. USE TTLAssumption
  <1>1. UNCHANGED <<step, since>>
    BY DEF PageMiss, PageStep, PageState, PageUrl, PageStore
  <1>2. Over' = Over /\ IF Over' THEN since'.over = 0 ELSE since'.open = 0
    BY <1>1 DEF GateInv, Over
  <1>3. ASSUME NEW e, Recent(e) PROVE Recent(e)'
    BY <1>1, <1>3 DEF Recent, Live, Age
  <1>4. ASSUME NEW q \in Page \ {p}, page'[q].pc \in {"url", "store"} PROVE Recent(page[q])'
    <2>1. page'[q] = page[q]
      BY <1>0 DEF PageMiss, PageStep, PageState, PageUrl, PageStore
    <2>. PICK e : e = page[q]
      OBVIOUS
    <2>2. Recent(e)'
      BY <1>3, <1>4, <2>1 DEF GateInv
    <2>. QED  BY <2>1, <2>2 DEF Recent, Live, Age
  <1>5. UNCHANGED cache => Recent(cache)'
    BY <1>1 DEF GateInv, Recent, Live, Age
  <1>6. CASE PageMiss(p)
    <2>1. page'[p].pc = "state" /\ UNCHANGED cache
      BY <1>0, <1>6 DEF PageMiss, NoPage
    <2>. QED  BY <1>2, <1>4, <1>5, <2>1 DEF GateInv
  <1>7. CASE PageState(p)
    <2> DEFINE now == Over
               moved == [page EXCEPT ![p].pc = "url"]
    <2>1. UNCHANGED cache
      BY <1>7 DEF PageState
    <2>2. page'[p].over = now
      BY <1>0, <1>7, Zenon DEF PageState, PageType
    <2>3. page'[p].left = page[p].left /\ page[p].left \in 0..CACHE_TTL
      BY <1>0, <1>7 DEF PageState, PageType
    <2>4. Over' => page'[p].over
      BY <1>2, <2>2
    <2>5. page'[p].over => Over'
      BY <1>2, <2>2
    <2>6. Recent(page[p])'
      <3>1. Age(page[p])' = 0
        BY <1>2, <2>4, <2>5 DEF Age
      <3>. QED  BY <2>3, <3>1 DEF Recent, Live
    <2>. QED  BY <1>2, <1>4, <1>5, <2>1, <2>6 DEF GateInv
  <1>8. CASE PageUrl(p)
    <2>1. UNCHANGED cache
      BY <1>8 DEF PageUrl
    <2>2. page'[p].over = page[p].over
      BY <1>0, <1>8, Zenon DEF PageUrl, PageType
    <2>3. page'[p].left = page[p].left
      BY <1>0, <1>8 DEF PageUrl, PageType
    <2>4. page[p].pc = "url"
      BY <1>8 DEF PageUrl
    <2>5. Recent(page[p])
      BY <2>4 DEF GateInv
    <2>6. Recent(page[p])'
      BY <1>1, <2>2, <2>3, <2>5 DEF Recent, Live, Age
    <2>. QED  BY <1>2, <1>4, <1>5, <2>1, <2>6 DEF GateInv
  <1>9. CASE PageStore(p)
    <2>1. page'[p].pc = "free"
      BY <1>0, <1>9 DEF PageStore, NoPage
    <2>2. page[p].pc = "store" /\ Recent(page[p])
      BY <1>9 DEF PageStore, GateInv
    <2>3. CASE Live(page[p])
      <3>1. cache' = [over |-> page[p].over, home |-> page[p].home, left |-> page[p].left]
        BY <1>9, <2>3 DEF PageStore
      <3>2. cache'.left = page[p].left /\ (cache'.over <=> page[p].over)
        BY <3>1, Zenon
      <3>3. Recent(cache)'
        BY <1>1, <2>2, <3>2 DEF Recent, Live, Age
      <3>. QED  BY <1>2, <1>4, <2>1, <3>3 DEF GateInv
    <2>4. CASE ~Live(page[p])
      <3>1. cache'.left = 0
        BY <1>9, <2>4 DEF PageStore, NoCache
      <3>2. Recent(cache)'
        BY <3>1 DEF Recent, Live
      <3>. QED  BY <1>2, <1>4, <2>1, <3>2 DEF GateInv
    <2>. QED  BY <2>3, <2>4
  <1>. QED  BY <1>6, <1>7, <1>8, <1>9 DEF PageStep

LEMMA TickGate ==
  ASSUME OnboardingTypeOK, GateInv, Tick
  PROVE  GateInv'
  <1>0. since \in SinceType /\ page \in [Page -> PageType] /\ cache \in EntryType
    BY WizardTypes
  <1>1. Over' = Over /\ IF Over' THEN since'.over = 0 ELSE since'.open = 0
    <2>1. Over' <=> Over
      BY DEF Tick, Over
    <2>2. since'.over = Aged(since.over, Over) /\ since'.open = Aged(since.open, ~Over)
      BY Zenon DEF Tick
    <2>3. Over => since'.over = 0
      BY <2>2 DEF Aged
    <2>4. ~Over => since'.open = 0
      BY <2>2 DEF Aged
    <2>. QED  BY <2>1, <2>3, <2>4
  <1>2. ASSUME NEW p \in Page, page'[p].pc \in {"url", "store"} PROVE Recent(page[p])'
    <2>. PICK e, f : e = page[p] /\ f = page'[p]
      OBVIOUS
    <2>1. e \in PageType /\ f = LessTime(e)
      BY <1>0 DEF Tick
    <2>2. CASE e.left > 1
      <3>1. f = [e EXCEPT !.left = @ - 1]
        BY <2>1, <2>2 DEF LessTime
      <3>2. f.left = e.left - 1 /\ f.over = e.over /\ f.pc = e.pc
        BY <2>1, <3>1 DEF PageType
      <3>3. Recent(e)
        BY <1>2, <3>2 DEF GateInv
      <3>4. Recent(f)'
        BY <1>0, <2>1, <2>2, <3>2, <3>3, TickRecent DEF PageType
      <3>. QED  BY <3>4 DEF Recent, Live, Age
    <2>3. CASE ~(e.left > 1)
      <3>1. f \in {NoPage, Late}
        BY <2>1, <2>3 DEF LessTime
      <3>2. f.left = 0
        BY <3>1 DEF NoPage, Late
      <3>. QED  BY <3>2 DEF Recent, Live
    <2>. QED  BY <2>2, <2>3
  <1>3. Recent(cache)'
    <2>. PICK e, f : e = cache /\ f = cache'
      OBVIOUS
    <2>1. e \in EntryType /\ Recent(e)
      BY <1>0 DEF GateInv
    <2>2. CASE e.left > 1
      <3>1. f = [e EXCEPT !.left = @ - 1]
        BY <2>2 DEF Tick
      <3>2. f.left = e.left - 1 /\ f.over = e.over
        BY <2>1, <3>1 DEF EntryType
      <3>3. Recent(f)'
        BY <1>0, <2>1, <2>2, <3>2, TickRecent DEF EntryType
      <3>. QED  BY <3>3 DEF Recent, Live, Age
    <2>3. CASE ~(e.left > 1)
      <3>1. f.left = 0
        BY <2>3 DEF Tick, NoCache
      <3>. QED  BY <3>1 DEF Recent, Live
    <2>. QED  BY <2>2, <2>3
  <1>. QED  BY <1>1, <1>2, <1>3 DEF GateInv

LEMMA GateStep == WizardInv /\ [Next]_vars => GateInv'
  <1>. SUFFICES ASSUME WizardInv, [Next]_vars PROVE GateInv'
    OBVIOUS
  <1>0. OnboardingTypeOK /\ GateInv
    BY DEF WizardInv
  <1>1. ASSUME NEW a \in Actor, AdvanceStep(a), ~WriteStep(a) PROVE GateInv'
    <2>1. UNCHANGED <<step, since, page, cache>>
      BY <1>1 DEF AdvanceStep, ReadStep, Guard, GuardTime
    <2>. QED  BY <1>0, <2>1, SameGate
  <1>2. CASE FormStep
    <2>1. UNCHANGED <<step, since, page, cache>>
      BY <1>2 DEF FormStep, Refuse, TestSend, RecordAt, RecordEmail
    <2>. QED  BY <1>0, <2>1, SameGate
  <1>3. CASE Form
    <2>1. UNCHANGED <<step, since, page, cache>>
      BY <1>3 DEF Form, Step1, Step2, Step3, Step4, SmtpTest
    <2>. QED  BY <1>0, <2>1, SameGate
  <1>4. ASSUME NEW t \in Thread, PostAdvance(t) \/ PostSkip(t) \/ SetSkipped(t) PROVE GateInv'
    <2>1. UNCHANGED <<step, since, page, cache>>
      BY <1>4 DEF PostAdvance, PostSkip, SetSkipped
    <2>. QED  BY <1>0, <2>1, SameGate
  <1>5. CASE TestExpires \/ UNCHANGED vars
    <2>1. UNCHANGED <<step, since, page, cache>>
      BY <1>5 DEF TestExpires
    <2>. QED  BY <1>0, <2>1, SameGate
  <1>6. CASE Restart
    <2>1. \A p \in Page : page'[p].pc = "free"
      BY <1>6 DEF Restart, NoPage
    <2>2. cache'.left = 0 /\ UNCHANGED <<step, since>>
      BY <1>6 DEF Restart, NoCache
    <2>3. Recent(cache)'
      BY <2>2 DEF Recent, Live
    <2>4. IF Over' THEN since'.over = 0 ELSE since'.open = 0
      BY <1>0, <2>2 DEF GateInv, Over
    <2>. QED  BY <2>1, <2>3, <2>4 DEF GateInv
  <1>. QED  BY <1>0, <1>1, <1>2, <1>3, <1>4, <1>5, <1>6, WriteGate, PageGate, TickGate DEF Next

-----------------------------------------------------------------------------
(* The wizard: theorems                                                    *)

LEMMA WizardInit == Init => WizardInv
  <1>. SUFFICES ASSUME Init PROVE WizardInv
    OBVIOUS
  <1>1. OnboardingTypeOK
    <2>1. /\ step \in State /\ config \subseteq {"regions", "recipients"}
          /\ actor \in [Actor -> ActorType] /\ page \in [Page -> PageType]
          /\ cache \in EntryType
      BY AtRestType, NoPageType, Numbers DEF Init
    <2>2. skipped \in BOOLEAN /\ emailOk \in BOOLEAN /\ passed \in BOOLEAN
      BY Zenon DEF Init
    <2>3. test \in TestType
      BY Zenon DEF Init, TestType
    <2>4. since \in SinceType
      BY TTLAssumption DEF Init, SinceType
    <2>. QED  BY <2>1, <2>2, <2>3, <2>4, WizardTypes
  <1>2. EarnedInv
    <2>1. ~test.ok
      BY Zenon DEF Init
    <2>2. Earned(step)
      BY Numbers DEF Init, Earned
    <2>3. \A a \in Actor : actor[a].pc = "idle" /\ actor[a].from # COMPLETED
      BY Numbers DEF Init, AtRest
    <2>. QED  BY <2>1, <2>2, <2>3 DEF EarnedInv, ActorEarned
  <1>3. LoopInv
    <2>1. actor[Loop] = AtRest
      BY DEF Init, Actor
    <2>. QED  BY <2>1 DEF LoopInv, AtRest
  <1>4. GateInv
    <2>1. step = 0 /\ since.open = 0 /\ cache.left = 0
      BY Numbers DEF Init, NoCache
    <2>2. \A p \in Page : page[p].pc = "free"
      BY DEF Init, NoPage
    <2>. QED  BY <2>1, <2>2, Numbers DEF GateInv, Over, Recent, Live
  <1>. QED  BY <1>1, <1>2, <1>3, <1>4 DEF WizardInv

\* What a form, a request of the pool, a page and the clock may do, in any
\* order and with a crash between any two steps, keeps WizardInv.
LEMMA WizardInvariance == Spec => []WizardInv
  <1>1. WizardInv /\ [Next]_vars => WizardInv'
    BY WizardTypeStep, EarnedStep, LoopStep, GateStep DEF WizardInv
  <1>. QED  BY <1>1, WizardInit, PTL DEF Spec

\* The wizard's variables keep their types; the step is never past the last.
THEOREM WizardTypeCorrect == Spec => []OnboardingTypeOK
  <1>1. WizardInv => OnboardingTypeOK
    BY DEF WizardInv
  <1>. QED  BY <1>1, WizardInvariance, PTL

\* The step stored in the database was earned (OnboardingService.advance): no
\* tab, request or crash gets the wizard past a step whose guard never held,
\* although the guard is read in one transaction and the step written in
\* another.
THEOREM StepsAreEarned == Spec => []StepIsEarned
  <1>1. WizardInv => StepIsEarned
    BY DEF WizardInv, EarnedInv, Earned, StepIsEarned
  <1>. QED  BY <1>1, WizardInvariance, PTL

\* Only the form of the last step is refused: a form that has just saved what
\* its step asks for, or has just had a test mail accepted, passes its guard
\* (web/routes/onboarding.py).
THEOREM OnlyLastIsRefused == Spec => []RefusedOnlyLast
  <1>1. WizardInv => RefusedOnlyLast
    BY DEF WizardInv, LoopInv, RefusedOnlyLast, At
  <1>. QED  BY <1>1, WizardInvariance, PTL

\* An answer from the gate's cache was true less than CACHE_TTL ago, however
\* late and in whatever order misses store what they read
\* (web/onboarding_gate.py).
THEOREM CacheStaysRecent == Spec => []CacheIsRecent
  <1>1. WizardInv => CacheIsRecent
    BY DEF WizardInv, GateInv, Recent, Age, CacheIsRecent
  <1>. QED  BY <1>1, WizardInvariance, PTL

HIDE DEF storeVars, gateVars, vars

-----------------------------------------------------------------------------
(* The feed: the order of the rows                                         *)

\* Before is a strict total order of the lots: ORDER BY leaves no choice.
LEMMA BeforeOrder ==
  /\ \A l \in Lot : ~Before(l, l)
  /\ \A l, k \in Lot : l # k => Before(l, k) \/ Before(k, l)
  /\ \A l, k \in Lot : ~(Before(l, k) /\ Before(k, l))
  /\ \A l, k, m \in Lot : Before(l, k) /\ Before(k, m) => Before(l, m)
  <1>1. \A l \in Lot : l \in Nat /\ DateOf[l] \in Nat
    BY LotQueryAssumption
  <1>. QED  BY <1>1 DEF Before

\* The place of a lot among rows: one more than the number of those before it.
Ahead(S, l) == {k \in S : Before(k, l)}
Rank(S, l) == Cardinality(Ahead(S, l)) + 1

LEMMA RankRange ==
  ASSUME NEW S \in SUBSET Lot
  PROVE  /\ IsFiniteSet(S) /\ Cardinality(S) \in Nat
         /\ \A l \in S : Rank(S, l) \in 1 .. Cardinality(S)
         /\ \A k, l \in S : Before(k, l) => Rank(S, k) < Rank(S, l)
  <1>1. IsFiniteSet(S) /\ Cardinality(S) \in Nat
    BY LotQueryAssumption, FS_Subset, FS_CardinalityType
  <1>2. ASSUME NEW l \in S PROVE Rank(S, l) \in 1 .. Cardinality(S)
    <2>1. Ahead(S, l) \subseteq S \ {l}
      BY BeforeOrder DEF Ahead
    <2>2. IsFiniteSet(S \ {l}) /\ Cardinality(S \ {l}) = Cardinality(S) - 1
      BY <1>1, FS_RemoveElement
    <2>3. /\ IsFiniteSet(Ahead(S, l)) /\ Cardinality(Ahead(S, l)) <= Cardinality(S \ {l})
          /\ Cardinality(Ahead(S, l)) \in Nat
      BY <2>1, <2>2, FS_Subset, FS_CardinalityType
    <2>. QED  BY <1>1, <2>2, <2>3 DEF Rank
  <1>3. ASSUME NEW k \in S, NEW l \in S, Before(k, l) PROVE Rank(S, k) < Rank(S, l)
    <2>1. Ahead(S, k) \subseteq Ahead(S, l) \ {k}
      BY <1>3, BeforeOrder DEF Ahead
    <2>2. IsFiniteSet(Ahead(S, l)) /\ k \in Ahead(S, l)
      BY <1>1, <1>3, FS_Subset DEF Ahead
    <2>3. /\ IsFiniteSet(Ahead(S, l) \ {k})
          /\ Cardinality(Ahead(S, l) \ {k}) = Cardinality(Ahead(S, l)) - 1
      BY <2>2, FS_RemoveElement
    <2>4. /\ IsFiniteSet(Ahead(S, k))
          /\ Cardinality(Ahead(S, k)) <= Cardinality(Ahead(S, l) \ {k})
      BY <2>1, <2>3, FS_Subset
    <2>5. Cardinality(Ahead(S, k)) \in Nat /\ Cardinality(Ahead(S, l)) \in Nat
      BY <2>2, <2>4, FS_CardinalityType
    <2>. QED  BY <2>3, <2>4, <2>5 DEF Rank
  <1>. QED  BY <1>1, <1>2, <1>3

\* The rows in order: each place is taken, by one row.
OrderOf(S, s) == \A i, j \in 1 .. Cardinality(S) : i < j => Before(s[i], s[j])

LEMMA OrderExists ==
  ASSUME NEW S \in SUBSET Lot
  PROVE  \E s \in [1 .. Cardinality(S) -> S] : OrderOf(S, s)
  <1> DEFINE n == Cardinality(S)
             r == [l \in S |-> Rank(S, l)]
             s == [i \in 1 .. n |-> CHOOSE l \in S : r[l] = i]
  <1>1. /\ IsFiniteSet(S) /\ n \in Nat /\ r \in [S -> 1 .. n]
        /\ \A k, l \in S : Before(k, l) => r[k] < r[l]
    BY RankRange
  <1>2. \A k, l \in S : k # l => r[k] # r[l]
    BY <1>1, BeforeOrder
  <1>3. ASSUME NEW i \in 1 .. n PROVE \E l \in S : r[l] = i
    <2>. SUFFICES ASSUME \A l \in S : r[l] # i PROVE FALSE
      OBVIOUS
    <2>1. r \in [S -> (1 .. n) \ {i}]
      BY <1>1
    <2>2. IsFiniteSet(1 .. n) /\ Cardinality(1 .. n) = n
      BY <1>1, FS_Interval
    <2>3. IsFiniteSet((1 .. n) \ {i}) /\ Cardinality((1 .. n) \ {i}) = n - 1
      <3>1. i \in 1 .. n
        OBVIOUS
      <3>2. Cardinality((1 .. n) \ {i}) = Cardinality(1 .. n) - 1
        <4> DEFINE R == 1 .. n
        <4> HIDE DEF R
        <4>1. IsFiniteSet(R) /\ i \in R
          BY <2>2, <3>1 DEF R
        <4>2. Cardinality(R \ {i}) = Cardinality(R) - 1
          BY <4>1, FS_RemoveElement
        <4>. QED  BY <4>2 DEF R
      <3>. QED  BY <2>2, <3>2, FS_RemoveElement
    <2>4. Cardinality((1 .. n) \ {i}) < Cardinality(S)
      BY <1>1, <2>3
    <2> HIDE DEF r
    <2>5. \E x, y \in S : x # y /\ r[x] = r[y]
      BY <1>1, <2>1, <2>3, <2>4, FS_PigeonHole
    <2>. QED  BY <1>2, <2>5
  <1> HIDE DEF r
  <1>4. \A i \in 1 .. n : s[i] \in S /\ r[s[i]] = i
    BY <1>3
  <1>5. s \in [1 .. n -> S]
    BY <1>4
  <1>6. ASSUME NEW i \in 1 .. n, NEW j \in 1 .. n, i < j PROVE Before(s[i], s[j])
    <2>1. s[i] \in S /\ s[j] \in S /\ r[s[i]] = i /\ r[s[j]] = j
      BY <1>4
    <2> HIDE DEF s
    <2>. QED  BY <1>1, <1>6, <2>1, BeforeOrder
  <1> HIDE DEF s
  <1>. QED  BY <1>5, <1>6 DEF OrderOf

\* Ordered puts every row in its place, and nothing else.
LEMMA OrderedIsOrder ==
  ASSUME NEW S \in SUBSET Lot
  PROVE  /\ Ordered(S) \in [1 .. Cardinality(S) -> S]
         /\ Cardinality(S) \in Nat
         /\ OrderOf(S, Ordered(S))
         /\ \A l \in S : \E i \in 1 .. Cardinality(S) : Ordered(S)[i] = l
  <1> DEFINE n == Cardinality(S)
             s == Ordered(S)
  <1>1. s \in [1 .. n -> S] /\ OrderOf(S, s)
    BY OrderExists DEF Ordered, OrderOf
  <1>2. IsFiniteSet(S) /\ n \in Nat
    BY RankRange
  <1> HIDE DEF s
  <1>3. ASSUME NEW l \in S PROVE \E i \in 1 .. n : s[i] = l
    <2>. SUFFICES ASSUME \A i \in 1 .. n : s[i] # l PROVE FALSE
      OBVIOUS
    <2>1. s \in [1 .. n -> S \ {l}]
      BY <1>1
    <2>2. IsFiniteSet(S \ {l}) /\ Cardinality(S \ {l}) = n - 1
      BY <1>2, FS_RemoveElement
    <2>3. IsFiniteSet(1 .. n) /\ Cardinality(1 .. n) = n
      BY <1>2, FS_Interval
    <2>4. \E i, j \in 1 .. n : i # j /\ s[i] = s[j]
      BY <1>2, <2>1, <2>2, <2>3, FS_PigeonHole
    <2>5. \A i, j \in 1 .. n : i < j => s[i] # s[j]
      BY <1>1, BeforeOrder DEF OrderOf
    <2>. QED  BY <1>2, <2>4, <2>5
  <1>. QED  BY <1>1, <1>2, <1>3 DEF s

-----------------------------------------------------------------------------
(* The feed: pages and cards                                               *)

\* A page in the order of the table, and a cursor that is the last of it.
InRows(s) == \A i, j \in 1 .. Len(s) : i < j => Before(s[i], s[j])
Bounds(c, s) == c # None => c \in ToSet(s) /\ \A l \in ToSet(s) : l = c \/ Before(l, c)

AnswerOK(ans) ==
  /\ ans.items \in Seq(Lot) /\ InRows(ans.items)
  /\ ans.next_cursor \in Lot \cup {None} /\ Bounds(ans.next_cursor, ans.items)

\* A lot still to come behind a cursor, and one that an answer brings, now or
\* behind the cursor it carries.
Beyond(c, l) == c # None /\ Before(c, l)
Brings(ans, l) == l \in ToSet(ans.items) \/ Beyond(ans.next_cursor, l)

LEMMA ToSetIs ==
  ASSUME NEW S, NEW s \in Seq(S)
  PROVE  /\ ToSet(s) \subseteq S
         /\ ToSet(s) = {s[i] : i \in 1 .. Len(s)}
  <1>1. DOMAIN s = 1 .. Len(s) /\ \A i \in 1 .. Len(s) : s[i] \in S
    BY LenProperties
  <1>. QED  BY <1>1 DEF ToSet

\* search: a page is in order, its cursor is its last lot, and between them
\* they skip no row behind the cursor asked for.
LEMMA SearchAnswers ==
  ASSUME NEW filters, NEW active \in SUBSET Lot, NEW subscribed,
         NEW c \in Lot \cup {None}
  PROVE  LET rows == {l \in Where(filters, active, subscribed) : AfterCursor(l, c)}
             ans == Search(filters, active, subscribed, c)
         IN  /\ AnswerOK(ans)
             /\ ToSet(ans.items) \subseteq rows
             /\ \A l \in rows : Brings(ans, l)
  <1> DEFINE S == {l \in Where(filters, active, subscribed) : AfterCursor(l, c)}
             rows == Ordered(S)
             n == Cardinality(S)
             items == IF Len(rows) > PageSize THEN SubSeq(rows, 1, PageSize) ELSE rows
             cursorOf == IF Len(rows) > PageSize THEN Last(items) ELSE None
             ans == Search(filters, active, subscribed, c)
  <1>1. S \subseteq Lot
    BY DEF Where
  <1>2. /\ rows \in [1 .. n -> S] /\ n \in Nat
        /\ \A l \in S : \E i \in 1 .. n : rows[i] = l
        /\ \A i, j \in 1 .. n : i < j => Before(rows[i], rows[j])
    BY <1>1, OrderedIsOrder DEF OrderOf
  <1>3. ans = [items |-> items, next_cursor |-> cursorOf]
    BY DEF Search
  <1> HIDE DEF S
  <1>4. rows \in Seq(S) /\ Len(rows) = n
    BY <1>2
  <1>. PageSize \in Nat \ {0}
    BY LotQueryAssumption
  <1> HIDE DEF rows, ans, n
  <1>5. CASE Len(rows) > PageSize
    <2>1. /\ items \in Seq(S) /\ Len(items) = PageSize
          /\ \A i \in 1 .. PageSize : items[i] = rows[i]
      <3>1. items = SubSeq(rows, 1, PageSize)
        BY <1>5
      <3>2. \A i \in 1 .. PageSize : rows[i] \in S
        BY <1>2, <1>4, <1>5
      <3> HIDE DEF items
      <3>. QED  BY <3>1, <3>2, SubSeqProperties
    <2>2. cursorOf = rows[PageSize] /\ rows[PageSize] \in S
      <3>1. cursorOf = items[Len(items)]
        BY <1>5 DEF Last
      <3> HIDE DEF items, cursorOf
      <3>. QED  BY <1>2, <1>4, <1>5, <2>1, <3>1
    <2> HIDE DEF items, cursorOf
    <2>3. ToSet(items) = {rows[i] : i \in 1 .. PageSize} /\ ToSet(items) \subseteq S
      BY <2>1, ToSetIs
    <2>4. items \in Seq(Lot) /\ InRows(items)
      <3>1. items \in Seq(Lot)
        BY <1>1, <2>1, SeqMonotonic
      <3>2. InRows(items)
        BY <1>2, <1>4, <1>5, <2>1 DEF InRows
      <3>. QED  BY <3>1, <3>2
    <2>5. Bounds(cursorOf, items)
      <3>1. \A i \in 1 .. PageSize : i = PageSize \/ Before(rows[i], rows[PageSize])
        BY <1>2, <1>4, <1>5
      <3>. QED  BY <2>2, <2>3, <3>1 DEF Bounds
    <2>6. ASSUME NEW l \in S PROVE l \in ToSet(items) \/ Beyond(cursorOf, l)
      <3>1. PICK i \in 1 .. n : rows[i] = l
        BY <1>2
      <3>2. CASE i <= PageSize
        BY <2>3, <3>1, <3>2
      <3>3. CASE i > PageSize
        <4>1. Before(rows[PageSize], rows[i])
          BY <1>2, <1>4, <1>5, <3>3
        <4>2. cursorOf # None
          BY <1>1, <2>2, LotQueryAssumption
        <4>. QED  BY <2>2, <3>1, <4>1, <4>2 DEF Beyond
      <3>. QED  BY <3>2, <3>3
    <2>. QED  BY <1>1, <1>3, <2>2, <2>3, <2>4, <2>5, <2>6 DEF AnswerOK, Brings, S, ans
  <1>6. CASE ~(Len(rows) > PageSize)
    <2>1. items = rows /\ cursorOf = None
      BY <1>6
    <2>2. rows \in Seq(Lot) /\ InRows(rows)
      <3>1. rows \in Seq(Lot)
        BY <1>1, <1>4, SeqMonotonic
      <3>2. InRows(rows)
        BY <1>2, <1>4 DEF InRows
      <3>. QED  BY <3>1, <3>2
    <2>3. ToSet(rows) = {rows[i] : i \in 1 .. n} /\ ToSet(rows) \subseteq S
      BY <1>4, ToSetIs
    <2>4. \A l \in S : l \in ToSet(rows)
      BY <1>2, <2>3
    <2> HIDE DEF items, cursorOf
    <2>. QED  BY <1>3, <2>1, <2>2, <2>3, <2>4 DEF AnswerOK, Brings, Bounds, S, ans
  <1>. QED  BY <1>5, <1>6

\* A card put in at a place moves the ones behind it.
PutAt(s, at, l) == SubSeq(s, 1, at - 1) \o <<l>> \o SubSeq(s, at, Len(s))

LEMMA PutAtDoes ==
  ASSUME NEW s \in Seq(Lot), NEW at \in 1 .. Len(s) + 1, NEW l \in Lot
  PROVE  /\ PutAt(s, at, l) \in Seq(Lot) /\ Len(PutAt(s, at, l)) = Len(s) + 1
         /\ \A i \in 1 .. Len(s) + 1 :
              PutAt(s, at, l)[i] = IF i < at THEN s[i] ELSE IF i = at THEN l ELSE s[i - 1]
  <1> DEFINE a == SubSeq(s, 1, at - 1)
             b == a \o <<l>>
             c == SubSeq(s, at, Len(s))
             r == b \o c
  <1>0. Len(s) \in Nat /\ \A i \in 1 .. Len(s) : s[i] \in Lot
    BY LenProperties, ElementOfSeq
  <1>1. a \in Seq(Lot) /\ Len(a) = at - 1 /\ \A i \in 1 .. at - 1 : a[i] = s[i]
    BY <1>0, SubSeqProperties
  <1>2. /\ c \in Seq(Lot) /\ Len(c) = Len(s) - at + 1
        /\ \A i \in 1 .. Len(s) - at + 1 : c[i] = s[at + i - 1]
    BY <1>0, SubSeqProperties
  <1> HIDE DEF a, c
  <1>3. <<l>> \in Seq(Lot) /\ Len(<<l>>) = 1 /\ <<l>>[1] = l
    OBVIOUS
  <1>4. /\ b \in Seq(Lot) /\ Len(b) = at
        /\ \A i \in 1 .. at : b[i] = IF i < at THEN s[i] ELSE l
    <2>1. /\ b \in Seq(Lot) /\ Len(b) = at
          /\ \A i \in 1 .. at : b[i] = IF i <= at - 1 THEN a[i] ELSE <<l>>[i - (at - 1)]
      BY <1>1, <1>3, ConcatProperties
    <2> HIDE DEF b
    <2>. QED  BY <1>1, <1>3, <2>1
  <1> HIDE DEF b
  <1>5. /\ r \in Seq(Lot) /\ Len(r) = Len(s) + 1
        /\ \A i \in 1 .. Len(s) + 1 : r[i] = IF i <= at THEN b[i] ELSE c[i - at]
    <2>1. /\ r \in Seq(Lot) /\ Len(r) = Len(b) + Len(c)
          /\ \A i \in 1 .. Len(b) + Len(c) : r[i] = IF i <= Len(b) THEN b[i] ELSE c[i - Len(b)]
      BY <1>2, <1>4, ConcatProperties
    <2>2. Len(b) = at /\ Len(b) + Len(c) = Len(s) + 1
      BY <1>0, <1>2, <1>4
    <2> HIDE DEF r
    <2>. QED  BY <2>1, <2>2
  <1> HIDE DEF r
  <1>6. ASSUME NEW i \in 1 .. Len(s) + 1
        PROVE  r[i] = IF i < at THEN s[i] ELSE IF i = at THEN l ELSE s[i - 1]
    <2>1. CASE i <= at
      BY <1>4, <1>5, <2>1
    <2>2. CASE i > at
      <3>1. r[i] = c[i - at] /\ i - at \in 1 .. Len(s) - at + 1
        BY <1>0, <1>5, <2>2
      <3>2. c[i - at] = s[at + (i - at) - 1] /\ at + (i - at) - 1 = i - 1
        BY <1>0, <1>2, <3>1
      <3>. QED  BY <2>2, <3>1, <3>2
    <2>. QED  BY <2>1, <2>2
  <1>7. PutAt(s, at, l) = r
    BY DEF PutAt, r, b, a, c
  <1>. QED  BY <1>5, <1>6, <1>7

\* A set of numbers that is not empty has a least one.
LEMMA LeastIndex ==
  ASSUME NEW T \in SUBSET Nat, T # {}
  PROVE  \E i \in T : \A j \in T : i <= j
  <1> DEFINE R == OpToRel(<, Nat)
  <1>1. IsWellFoundedOn(R, Nat)
    BY NatLessThanWellFounded
  <1>2. \E x \in T : \A y \in T : ~(<<y, x>> \in R)
    BY <1>1, WFMin
  <1>3. PICK x \in T : \A y \in T : ~(<<y, x>> \in R)
    BY <1>2
  <1>4. ASSUME NEW y \in T PROVE x <= y
    <2>1. ~(<<y, x>> \in R)
      BY <1>3
    <2>2. ~(y < x)
      BY <2>1, Zenon DEF OpToRel
    <2>. QED  BY <2>2
  <1>. QED  BY <1>4

\* _findInsertBefore: one card more, and a section in order stays in order.
LEMMA InsertLiveDoes ==
  ASSUME cards \in Seq(Lot), NEW l \in Lot, l \notin OnPage
  PROVE  /\ InsertLive(l) \in Seq(Lot)
         /\ ToSet(InsertLive(l)) = OnPage \cup {l}
         /\ InRows(cards) => InRows(InsertLive(l))
  <1> DEFINE n == Len(cards)
             older == {i \in 1 .. n : Before(l, cards[i])}
             at == IF older = {} THEN n + 1 ELSE CHOOSE i \in older : \A j \in older : i <= j
             r == PutAt(cards, at, l)
  <1>1. InsertLive(l) = r
    BY DEF InsertLive, PutAt
  <1>2. n \in Nat /\ \A i \in 1 .. n : cards[i] \in Lot
    BY LenProperties, ElementOfSeq
  <1>3. /\ at \in 1 .. n + 1
        /\ at <= n => Before(l, cards[at])
        /\ \A i \in 1 .. n : i < at => ~Before(l, cards[i])
    <2>1. CASE older = {}
      <3>1. at = n + 1
        BY <2>1
      <3>2. \A i \in 1 .. n : ~Before(l, cards[i])
        BY <2>1
      <3> HIDE DEF at, older
      <3>3. at \in 1 .. n + 1 /\ ~(at <= n)
        BY <1>2, <3>1
      <3>. QED  BY <3>2, <3>3
    <2>2. CASE older # {}
      <3>0. older \in SUBSET Nat
        BY <1>2
      <3>1. \E i \in older : \A j \in older : i <= j
        <4> HIDE DEF older
        <4>. QED  BY <2>2, <3>0, LeastIndex
      <3>2. at \in older /\ \A j \in older : at <= j
        BY <2>2, <3>1
      <3> HIDE DEF at
      <3>. QED  BY <1>2, <3>2
    <2>. QED  BY <2>1, <2>2
  <1> HIDE DEF at
  <1>4. /\ r \in Seq(Lot) /\ Len(r) = n + 1
        /\ \A i \in 1 .. n + 1 :
             r[i] = IF i < at THEN cards[i] ELSE IF i = at THEN l ELSE cards[i - 1]
    BY <1>3, PutAtDoes
  <1>5. OnPage = {cards[i] : i \in 1 .. n}
    BY ToSetIs DEF OnPage
  <1> HIDE DEF r
  <1>6. ToSet(r) = OnPage \cup {l}
    <2>1. ToSet(r) = {r[i] : i \in 1 .. n + 1}
      BY <1>4, ToSetIs
    <2>2. ASSUME NEW i \in 1 .. n + 1 PROVE r[i] \in OnPage \cup {l}
      BY <1>2, <1>3, <1>4, <1>5
    <2>3. ASSUME NEW i \in 1 .. n PROVE \E j \in 1 .. n + 1 : r[j] = cards[i]
      <3>1. CASE i < at
        BY <1>2, <1>4, <3>1
      <3>2. CASE i >= at
        <4>1. i + 1 \in 1 .. n + 1 /\ ~(i + 1 < at) /\ i + 1 # at /\ (i + 1) - 1 = i
          BY <1>2, <1>3, <3>2
        <4>2. r[i + 1] = cards[i]
          BY <1>4, <4>1
        <4>. QED  BY <4>1, <4>2
      <3>. QED  BY <1>3, <3>1, <3>2
    <2>4. r[at] = l
      BY <1>3, <1>4
    <2>. QED  BY <1>3, <1>5, <2>1, <2>2, <2>3, <2>4
  <1>7. ASSUME InRows(cards) PROVE InRows(r)
    <2>1. \A i \in 1 .. n : i < at => Before(cards[i], l)
      BY <1>2, <1>3, <1>5, BeforeOrder
    <2>2. \A i \in 1 .. n : i >= at => Before(l, cards[i])
      <3>. SUFFICES ASSUME NEW i \in 1 .. n, i >= at PROVE Before(l, cards[i])
        OBVIOUS
      <3>1. at \in 1 .. n /\ Before(l, cards[at])
        BY <1>2, <1>3
      <3>2. i = at \/ Before(cards[at], cards[i])
        BY <1>2, <1>3, <1>7, <3>1 DEF InRows
      <3>. QED  BY <1>2, <3>1, <3>2, BeforeOrder
    <2>. SUFFICES ASSUME NEW i \in 1 .. n + 1, NEW j \in 1 .. n + 1, i < j
                  PROVE  Before(r[i], r[j])
      BY <1>4 DEF InRows
    <2>3. CASE j < at
      <3>1. r[i] = cards[i] /\ r[j] = cards[j] /\ i \in 1 .. n /\ j \in 1 .. n
        BY <1>2, <1>3, <1>4, <2>3
      <3>. QED  BY <1>7, <3>1 DEF InRows
    <2>4. CASE j = at
      <3>1. i \in 1 .. n /\ i < at
        BY <1>2, <1>3, <2>4
      <3>2. r[i] = cards[i] /\ r[j] = l
        BY <1>2, <1>4, <2>4, <3>1
      <3>. QED  BY <2>1, <3>1, <3>2
    <2>5. CASE j > at /\ i < at
      <3>1. r[i] = cards[i] /\ r[j] = cards[j - 1] /\ i \in 1 .. n /\ j - 1 \in 1 .. n /\ i < j - 1
        BY <1>2, <1>3, <1>4, <2>5
      <3>. QED  BY <1>7, <3>1 DEF InRows
    <2>6. CASE j > at /\ i = at
      <3>1. r[i] = l /\ r[j] = cards[j - 1] /\ j - 1 \in 1 .. n /\ j - 1 >= at
        BY <1>2, <1>3, <1>4, <2>6
      <3>. QED  BY <2>2, <3>1
    <2>7. CASE j > at /\ i > at
      <3>1. /\ r[i] = cards[i - 1] /\ r[j] = cards[j - 1]
            /\ i - 1 \in 1 .. n /\ j - 1 \in 1 .. n /\ i - 1 < j - 1
        BY <1>2, <1>3, <1>4, <2>7
      <3>. QED  BY <1>7, <3>1 DEF InRows
    <2>. QED  BY <1>3, <2>3, <2>4, <2>5, <2>6, <2>7
  <1>. QED  BY <1>1, <1>4, <1>6, <1>7

LEMMA ToSetAppend ==
  ASSUME NEW S, NEW s \in Seq(S), NEW e \in S
  PROVE  ToSet(Append(s, e)) = ToSet(s) \cup {e}
  <1> DEFINE t == Append(s, e)
             n == Len(s)
  <1>1. /\ t \in Seq(S) /\ Len(t) = n + 1 /\ n \in Nat
        /\ \A i \in 1 .. n : t[i] = s[i]
        /\ t[n + 1] = e
    BY AppendProperties, LenProperties
  <1> HIDE DEF t
  <1>2. ToSet(t) = {t[i] : i \in 1 .. n + 1} /\ ToSet(s) = {s[i] : i \in 1 .. n}
    BY <1>1, ToSetIs
  <1>3. ToSet(t) = ToSet(s) \cup {e}
    BY <1>1, <1>2
  <1>. QED  BY <1>3 DEF t

LEMMA ToSetConcat ==
  ASSUME NEW S, NEW s \in Seq(S), NEW t \in Seq(S)
  PROVE  ToSet(s \o t) = ToSet(s) \cup ToSet(t)
  <1> DEFINE u == s \o t
             m == Len(s)
             n == Len(t)
  <1>1. /\ u \in Seq(S) /\ Len(u) = m + n /\ m \in Nat /\ n \in Nat
        /\ \A i \in 1 .. m + n : u[i] = IF i <= m THEN s[i] ELSE t[i - m]
    BY ConcatProperties, LenProperties
  <1> HIDE DEF u
  <1>2. /\ ToSet(u) = {u[i] : i \in 1 .. m + n} /\ ToSet(s) = {s[i] : i \in 1 .. m}
        /\ ToSet(t) = {t[i] : i \in 1 .. n}
    BY <1>1, ToSetIs
  <1>3. ASSUME NEW i \in 1 .. m + n PROVE u[i] \in ToSet(s) \cup ToSet(t)
    BY <1>1, <1>2
  <1>4. ASSUME NEW i \in 1 .. m PROVE \E j \in 1 .. m + n : u[j] = s[i]
    BY <1>1
  <1>5. ASSUME NEW i \in 1 .. n PROVE \E j \in 1 .. m + n : u[j] = t[i]
    <2>1. m + i \in 1 .. m + n /\ ~(m + i <= m) /\ (m + i) - m = i
      BY <1>1
    <2>2. u[m + i] = t[i]
      BY <1>1, <2>1
    <2>. QED  BY <2>1, <2>2
  <1>6. ToSet(u) = ToSet(s) \cup ToSet(t)
    BY <1>2, <1>3, <1>4, <1>5
  <1>. QED  BY <1>6 DEF u

LEMMA ToSetTail ==
  ASSUME NEW S, NEW s \in Seq(S), s # <<>>
  PROVE  ToSet(s) = {Head(s)} \cup ToSet(Tail(s))
  <1> DEFINE t == Tail(s)
             n == Len(s)
  <1>1. /\ t \in Seq(S) /\ Len(t) = n - 1 /\ n \in Nat \ {0}
        /\ \A i \in 1 .. n - 1 : t[i] = s[i + 1]
        /\ Head(s) = s[1]
    BY HeadTailProperties, EmptySeq
  <1> HIDE DEF t
  <1>2. ToSet(t) = {t[i] : i \in 1 .. n - 1} /\ ToSet(s) = {s[i] : i \in 1 .. n}
    BY <1>1, ToSetIs
  <1>3. ASSUME NEW i \in 1 .. n PROVE s[i] \in {Head(s)} \cup ToSet(t)
    <2>1. CASE i = 1
      BY <1>1, <2>1
    <2>2. CASE i # 1
      <3>1. i - 1 \in 1 .. n - 1 /\ (i - 1) + 1 = i
        BY <1>1, <2>2
      <3>2. t[i - 1] = s[i]
        BY <1>1, <3>1
      <3>. QED  BY <1>2, <3>1, <3>2
    <2>. QED  BY <2>1, <2>2
  <1>4. ASSUME NEW i \in 1 .. n - 1 PROVE t[i] \in ToSet(s)
    <2>1. t[i] = s[i + 1] /\ i + 1 \in 1 .. n
      BY <1>1
    <2>. QED  BY <1>2, <2>1
  <1>5. ToSet(s) = {Head(s)} \cup ToSet(t)
    <2>1. Head(s) \in ToSet(s)
      BY <1>1, <1>2
    <2>2. ToSet(s) \subseteq {Head(s)} \cup ToSet(t)
      BY <1>2, <1>3
    <2>3. ToSet(t) \subseteq ToSet(s)
      BY <1>2, <1>4
    <2>. QED  BY <2>1, <2>2, <2>3, Zenon
  <1>. QED  BY <1>5 DEF t

-----------------------------------------------------------------------------
(* The feed: the invariant                                                 *)

EventType == [lot : Lot, is_backfill : BOOLEAN]

\* The table, and what the bus keeps for a stream that connects.
DbInv ==
  /\ status \in [Lot -> {"absent", "active", "inactive"}]
  /\ subs \subseteq Catalog /\ toggles \in 0 .. Toggles
  /\ last \in EventType \cup {None}

\* The stream is closed, and then nothing is on its way, or it holds the two
\* snapshots it was opened with.
StreamInv ==
  /\ \/ stream = Closed /\ pending = <<>>
     \/ /\ stream = Open(stream.vf, stream.ids)
        /\ stream.vf \in Filters /\ stream.ids \subseteq Catalog
  /\ pending \in Seq(EventType) /\ Len(pending) <= MaxPending

\* The section, its trigger and the request in flight.  A page that "load more"
\* asked for lies behind the cursor it was asked with, which stays as it is
\* until the answer.
TabInv ==
  /\ cookie \in Filters
  /\ cards \in Seq(Lot) /\ cursor \in OnPage \cup {None}
  /\ req.kind \in {"none", "page", "more"}
  /\ req.kind = "none" => req = Idle
  /\ req.kind = "page" =>
       /\ req = [kind |-> "page", vf |-> req.vf, answer |-> req.answer, owes |-> req.owes]
       /\ req.vf \in Filters /\ req.owes \subseteq Lot /\ AnswerOK(req.answer)
  /\ req.kind = "more" =>
       /\ req = [kind |-> "more", answer |-> req.answer]
       /\ AnswerOK(req.answer)
       /\ cursor # None /\ \A l \in ToSet(req.answer.items) : Before(cursor, l)

\* As long as no card came late the section is in order and its trigger is
\* behind every card.
CardInv ==
  /\ late \subseteq Lot
  /\ late = {} => InRows(cards) /\ Bounds(cursor, cards)

\* A lot owed has its card, or is on its way, or lies behind the cursor of the
\* section or in the answer to come.  While a first page is under way only
\* what it owes itself counts.
OwedInv ==
  /\ owed \subseteq Shown(cookie)
  /\ req.kind = "page" => \A l \in req.owes : Brings(req.answer, l)
  /\ req.kind = "none" => \A l \in owed : l \in OnPage \/ l \in Lots(pending) \/ Beyond(cursor, l)
  /\ req.kind = "more" =>
       \A l \in owed : l \in OnPage \/ l \in Lots(pending) \/ Brings(req.answer, l)

FeedInv == DbInv /\ StreamInv /\ TabInv /\ CardInv /\ OwedInv

USE DEF tab, db

\* A closed stream and an open one.
LEMMA StreamShape ==
  /\ ~Closed.open
  /\ \A vf, ids : Open(vf, ids).open /\ Open(vf, ids).vf = vf /\ Open(vf, ids).ids = ids
  /\ \A vf, ids : Open(vf, ids) # Closed
  <1>1. ~Closed.open
    BY Zenon DEF Closed
  <1>2. ASSUME NEW vf, NEW ids
        PROVE  Open(vf, ids).open /\ Open(vf, ids).vf = vf /\ Open(vf, ids).ids = ids
    BY Zenon DEF Open
  <1>3. ASSUME NEW vf, NEW ids, Open(vf, ids) = Closed PROVE FALSE
    BY <1>1, <1>2, <1>3
  <1>. QED  BY <1>1, <1>2, <1>3

LEMMA EventShape ==
  ASSUME NEW l \in Lot, NEW b \in BOOLEAN
  PROVE  Event(l, b) \in EventType /\ Event(l, b).lot = l
  <1>1. Event(l, b) \in EventType
    BY Zenon DEF Event, EventType
  <1>2. Event(l, b).lot = l
    BY Zenon DEF Event
  <1>. QED  BY <1>1, <1>2

LEMMA LotsAre ==
  /\ \A s \in Seq(EventType) : Lots(s) \subseteq Lot
  /\ Lots(<<>>) = {}
  /\ \A s \in Seq(EventType), e \in EventType : Lots(Append(s, e)) = Lots(s) \cup {e.lot}
  /\ \A s \in Seq(EventType) : s # <<>> => Lots(s) = {Head(s).lot} \cup Lots(Tail(s))
  <1>1. ASSUME NEW s \in Seq(EventType) PROVE Lots(s) \subseteq Lot
    <2>1. \A e \in EventType : e.lot \in Lot
      BY DEF EventType
    <2>2. ToSet(s) \subseteq EventType
      BY ToSetIs
    <2>. QED  BY <2>1, <2>2 DEF Lots
  <1>2. Lots(<<>>) = {}
    <2>1. ASSUME NEW s \in Seq(EventType), Len(s) = 0 PROVE ToSet(s) = {}
      <3>1. ToSet(s) = {s[i] : i \in 1 .. 0}
        BY <2>1, ToSetIs
      <3>. QED  BY <3>1
    <2>2. ToSet(<<>>) = {}
      BY <2>1, EmptySeq, Zenon
    <2>. QED  BY <2>2 DEF Lots
  <1>3. ASSUME NEW s \in Seq(EventType), NEW e \in EventType
        PROVE  Lots(Append(s, e)) = Lots(s) \cup {e.lot}
    <2>1. ToSet(Append(s, e)) = ToSet(s) \cup {e}
      BY ToSetAppend
    <2>. QED  BY <2>1 DEF Lots
  <1>4. ASSUME NEW s \in Seq(EventType), s # <<>> PROVE Lots(s) = {Head(s).lot} \cup Lots(Tail(s))
    <2>1. ToSet(s) = {Head(s)} \cup ToSet(Tail(s))
      BY <1>4, ToSetTail
    <2>. QED  BY <2>1 DEF Lots
  <1>. QED  BY <1>1, <1>2, <1>3, <1>4

\* Who touches what.
LEMMA TabStays ==
  ASSUME \/ \E l \in Lot, backfill \in BOOLEAN : Store(l, backfill)
         \/ \E l \in Lot : Reactivate(l)
         \/ \E r \in Catalog : Toggle(r)
         \/ (\E replayed \in BOOLEAN : Connect(replayed)) \/ Disconnect
         \/ UNCHANGED feed
  PROVE  UNCHANGED <<cookie, cards, cursor, req>>
  BY DEF Store, Reactivate, Toggle, Connect, Disconnect, feed

LEMMA DbStep == FeedInv /\ [FeedNext]_feed => DbInv'
  <1>. SUFFICES ASSUME FeedInv, [FeedNext]_feed PROVE DbInv'
    OBVIOUS
  <1>0. DbInv
    BY DEF FeedInv
  <1>1. ASSUME NEW l \in Lot, NEW b \in BOOLEAN, Store(l, b) PROVE DbInv'
    <2>1. status' \in [Lot -> {"absent", "active", "inactive"}] /\ UNCHANGED <<subs, toggles>>
      BY <1>0, <1>1 DEF Store, DbInv
    <2>2. last' \in EventType
      BY <1>1, EventShape DEF Store
    <2>. QED  BY <1>0, <2>1, <2>2 DEF DbInv
  <1>2. ASSUME NEW l \in Lot, MarkInactive(l) \/ Reactivate(l) PROVE DbInv'
    BY <1>0, <1>2 DEF MarkInactive, Reactivate, DbInv
  <1>3. ASSUME NEW r \in Catalog, Toggle(r) PROVE DbInv'
    BY <1>0, <1>3, FeedAssumption DEF Toggle, DbInv
  <1>4. UNCHANGED <<status, subs, toggles, last>> => DbInv'
    BY <1>0 DEF DbInv
  <1>5. CASE FeedPage \/ SwapPage \/ FeedMore \/ SwapMore \/ Disconnect \/ Deliver \/ UNCHANGED feed
    BY <1>4, <1>5 DEF FeedPage, SwapPage, FeedMore, SwapMore, Disconnect, Deliver, feed
  <1>6. ASSUME NEW vf \in Filters, PostViewFilters(vf) PROVE DbInv'
    BY <1>4, <1>6 DEF PostViewFilters
  <1>7. ASSUME NEW replayed \in BOOLEAN, Connect(replayed) PROVE DbInv'
    BY <1>4, <1>7 DEF Connect
  <1>. QED  BY <1>1, <1>2, <1>3, <1>5, <1>6, <1>7 DEF FeedNext

LEMMA StreamStep == FeedInv /\ [FeedNext]_feed => StreamInv'
  <1>. SUFFICES ASSUME FeedInv, [FeedNext]_feed PROVE StreamInv'
    OBVIOUS
  <1>0. StreamInv /\ DbInv /\ TabInv /\ MaxPending \in Nat \ {0}
    BY FeedAssumption DEF FeedInv
  <1>1. UNCHANGED <<stream, pending>> => StreamInv'
    BY <1>0 DEF StreamInv
  <1>2. stream' = Closed /\ pending' = <<>> => StreamInv'
    BY <1>0, EmptySeq DEF StreamInv
  <1>3. ASSUME NEW l \in Lot, NEW b \in BOOLEAN, Store(l, b) PROVE StreamInv'
    <2>1. CASE Streamed(l)
      <3>1. Len(pending) < MaxPending /\ pending' = Append(pending, Event(l, b)) /\ UNCHANGED stream
        BY <1>3, <2>1 DEF Store
      <3>2. stream # Closed
        BY <2>1, StreamShape DEF Streamed
      <3>3. pending' \in Seq(EventType) /\ Len(pending') = Len(pending) + 1 /\ Len(pending) \in Nat
        BY <1>0, <3>1, EventShape, AppendProperties, LenProperties DEF StreamInv
      <3>. QED  BY <1>0, <3>1, <3>2, <3>3 DEF StreamInv
    <2>2. CASE ~Streamed(l)
      BY <1>1, <1>3, <2>2 DEF Store
    <2>. QED  BY <2>1, <2>2
  <1>4. ASSUME NEW replayed \in BOOLEAN, Connect(replayed) PROVE StreamInv'
    <2>1. stream' = Open(cookie, subs) /\ cookie \in Filters /\ subs \subseteq Catalog
      BY <1>0, <1>4 DEF Connect, TabInv, DbInv
    <2>2. stream' = Open(stream'.vf, stream'.ids) /\ stream'.vf \in Filters /\ stream'.ids \subseteq Catalog
      BY <2>1, StreamShape
    <2>3. pending' = <<>> \/ (pending' = <<last>> /\ last \in EventType)
      BY <1>0, <1>4 DEF Connect, DbInv
    <2>4. pending' \in Seq(EventType) /\ Len(pending') <= 1
      <3>1. <<>> \in Seq(EventType) /\ Len(<<>>) <= 1
        BY EmptySeq
      <3>2. ASSUME last \in EventType PROVE <<last>> \in Seq(EventType) /\ Len(<<last>>) = 1
        <4> DEFINE E == EventType
        <4> HIDE DEF E
        <4>1. last \in E
          BY <3>2 DEF E
        <4>2. <<last>> \in Seq(E) /\ Len(<<last>>) = 1
          BY <4>1
        <4>. QED  BY <4>2 DEF E
      <3>3. CASE pending' = <<>>
        BY <3>1, <3>3, Zenon
      <3>4. CASE pending' = <<last>> /\ last \in EventType
        <4>1. pending' \in Seq(EventType) /\ Len(pending') = 1
          BY <3>2, <3>4, Zenon
        <4>. QED  BY <4>1
      <3>. QED  BY <2>3, <3>3, <3>4, Zenon
    <2>5. pending' \in Seq(EventType) /\ Len(pending') <= MaxPending
      BY <1>0, <2>4, LenProperties
    <2>. QED  BY <2>2, <2>5 DEF StreamInv
  <1>5. CASE Deliver
    <2>1. pending # <<>> /\ pending' = Tail(pending) /\ UNCHANGED stream
      BY <1>5 DEF Deliver
    <2>2. pending' \in Seq(EventType) /\ Len(pending') = Len(pending) - 1 /\ Len(pending) \in Nat
      BY <1>0, <2>1, HeadTailProperties, LenProperties DEF StreamInv
    <2>. QED  BY <1>0, <2>1, <2>2 DEF StreamInv
  <1>6. CASE FeedPage \/ Disconnect
    BY <1>2, <1>6 DEF FeedPage, Disconnect
  <1>7. CASE SwapPage
    BY <1>1, <1>7 DEF SwapPage, AfterFilterChanged
  <1>8. ASSUME NEW l \in Lot, MarkInactive(l) \/ Reactivate(l) PROVE StreamInv'
    BY <1>1, <1>8 DEF MarkInactive, Reactivate
  <1>9. ASSUME NEW r \in Catalog, Toggle(r) PROVE StreamInv'
    BY <1>1, <1>9 DEF Toggle
  <1>10. ASSUME NEW vf \in Filters, PostViewFilters(vf) PROVE StreamInv'
    BY <1>1, <1>10 DEF PostViewFilters
  <1>11. CASE FeedMore \/ SwapMore \/ UNCHANGED feed
    BY <1>1, <1>11 DEF FeedMore, SwapMore, feed
  <1>. QED  BY <1>3, <1>4, <1>5, <1>6, <1>7, <1>8, <1>9, <1>10, <1>11 DEF FeedNext

\* The lot.new handler puts the card of the event on the page.
LEMMA DeliverDoes ==
  ASSUME StreamInv, TabInv, Deliver
  PROVE  LET l == Head(pending).lot
         IN  /\ l \in Lot /\ pending' = Tail(pending) /\ UNCHANGED <<cursor, req>>
             /\ cards' \in Seq(Lot) /\ OnPage' = OnPage \cup {l}
             /\ Lots(pending) = {l} \cup Lots(pending')
             /\ \/ UNCHANGED <<cards, late>>
                \/ late' = late \cup {l}
                \/ /\ ~(cursor # None /\ Before(cursor, l)) /\ l \notin OnPage /\ late' = late
                   /\ cards' = InsertLive(l)
  <1> DEFINE e == Head(pending)
  <1>1. pending \in Seq(EventType) /\ cards \in Seq(Lot)
    BY DEF StreamInv, TabInv
  <1>2. pending # <<>> /\ pending' = Tail(pending) /\ UNCHANGED <<cursor, req>>
    BY DEF Deliver
  <1>3. e \in EventType /\ e.lot \in Lot
    <2>1. e \in EventType
      BY <1>1, <1>2, HeadTailProperties
    <2> HIDE DEF e
    <2>. QED  BY <2>1 DEF EventType
  <1>4. Lots(pending) = {e.lot} \cup Lots(pending')
    BY <1>1, <1>2, LotsAre
  <1>5. CASE e.lot \in OnPage
    <2>1. UNCHANGED <<cards, late>>
      BY <1>5 DEF Deliver
    <2>2. OnPage' = OnPage \cup {e.lot} /\ cards' \in Seq(Lot)
      BY <1>1, <1>5, <2>1 DEF OnPage
    <2> HIDE DEF e
    <2>. QED  BY <1>2, <1>3, <1>4, <2>1, <2>2 DEF e
  <1>6. CASE e.lot \notin OnPage
    <2>1. /\ cards' = Insert(e)
          /\ late' = IF e.is_backfill \/ (cursor # None /\ Before(cursor, e.lot))
                     THEN late \cup {e.lot} ELSE late
      BY <1>6 DEF Deliver
    <2>2. CASE e.is_backfill
      <3>1. cards' = Append(cards, e.lot)
        BY <2>1, <2>2, Zenon DEF Insert
      <3>2. late' = late \cup {e.lot}
        BY <2>1, <2>2, Zenon
      <3> HIDE DEF e
      <3>3. cards' \in Seq(Lot) /\ OnPage' = OnPage \cup {e.lot}
        BY <1>1, <1>3, <3>1, AppendProperties, ToSetAppend DEF OnPage
      <3>. QED  BY <1>2, <1>3, <1>4, <3>2, <3>3 DEF e
    <2>3. CASE ~e.is_backfill
      <3>1. cards' = InsertLive(e.lot)
        BY <2>1, <2>3, Zenon DEF Insert
      <3>2. \/ late' = late \cup {e.lot}
            \/ ~(cursor # None /\ Before(cursor, e.lot)) /\ late' = late
        BY <2>1, <2>3, Zenon
      <3> HIDE DEF e
      <3>3. cards' \in Seq(Lot) /\ OnPage' = OnPage \cup {e.lot}
        BY <1>1, <1>3, <1>6, <3>1, InsertLiveDoes DEF OnPage
      <3>. QED  BY <1>2, <1>3, <1>4, <1>6, <3>1, <3>2, <3>3 DEF e
    <2>. QED  BY <2>2, <2>3
  <1>. QED  BY <1>5, <1>6

\* What a first page carries, and what it owes.
LEMMA PageAnswers ==
  ASSUME NEW vf \in Filters
  PROVE  /\ PageRequest(vf).kind = "page" /\ PageRequest(vf).vf = vf
         /\ PageRequest(vf) = [kind |-> "page", vf |-> vf, answer |-> PageRequest(vf).answer,
                               owes |-> PageRequest(vf).owes]
         /\ PageRequest(vf).owes = Shown(vf) /\ Shown(vf) \subseteq Lot
         /\ AnswerOK(PageRequest(vf).answer)
         /\ \A l \in Shown(vf) : Brings(PageRequest(vf).answer, l)
  <1> DEFINE rows == {l \in Shown(vf) : AfterCursor(l, None)}
             ans == FirstPage(vf)
  <1>1. Active \in SUBSET Lot /\ None \in Lot \cup {None}
    BY DEF Active
  <1>2. rows = Shown(vf) /\ Shown(vf) \subseteq Lot
    BY <1>1 DEF AfterCursor, Shown, Where
  <1>3. AnswerOK(ans) /\ \A l \in rows : Brings(ans, l)
    <2> HIDE DEF AnswerOK, Brings
    <2>. QED  BY <1>1, SearchAnswers DEF Shown, FirstPage
  <1>4. /\ PageRequest(vf).kind = "page" /\ PageRequest(vf).vf = vf
        /\ PageRequest(vf).answer = ans /\ PageRequest(vf).owes = Shown(vf)
    BY Zenon DEF PageRequest
  <1>5. PageRequest(vf) = [kind |-> "page", vf |-> vf, answer |-> ans, owes |-> Shown(vf)]
    BY DEF PageRequest
  <1> HIDE DEF rows, ans
  <1>. QED  BY <1>2, <1>3, <1>4, <1>5

LEMMA TabStep == FeedInv /\ [FeedNext]_feed => TabInv'
  <1>. SUFFICES ASSUME FeedInv, [FeedNext]_feed PROVE TabInv'
    OBVIOUS
  <1>0. DbInv /\ StreamInv /\ TabInv
    BY DEF FeedInv
  <1>1. UNCHANGED <<cookie, cards, cursor, req>> => TabInv'
    BY <1>0 DEF TabInv, OnPage
  <1>2. ASSUME NEW vf \in Filters, cookie' \in Filters, cards' \in Seq(Lot),
               cursor' \in OnPage' \cup {None}, req' = PageRequest(vf)
        PROVE  TabInv'
    <2>1. /\ req'.kind = "page" /\ req'.vf \in Filters /\ req'.owes \subseteq Lot
          /\ req' = [kind |-> "page", vf |-> req'.vf, answer |-> req'.answer, owes |-> req'.owes]
          /\ AnswerOK(req'.answer)
      BY <1>2, PageAnswers
    <2>2. AnswerOK(req.answer)'
      BY <2>1 DEF AnswerOK, InRows, Bounds, ToSet
    <2> HIDE DEF AnswerOK
    <2>. QED  BY <1>2, <2>1, <2>2 DEF TabInv
  <1>3. ASSUME NEW l \in Lot, MarkInactive(l) PROVE TabInv'
    <2>1. UNCHANGED <<cookie, cards, cursor, OnPage>>
      BY <1>3 DEF MarkInactive, OnPage
    <2>2. CASE req.kind # "page"
      BY <1>1, <1>3, <2>2 DEF MarkInactive
    <2>3. CASE req.kind = "page"
      <3>1. req' = [req EXCEPT !.owes = @ \ {l}]
        BY <1>3, <2>3 DEF MarkInactive
      <3>2. /\ req = [kind |-> "page", vf |-> req.vf, answer |-> req.answer, owes |-> req.owes]
            /\ req.vf \in Filters /\ req.owes \subseteq Lot /\ AnswerOK(req.answer)
        BY <1>0, <2>3 DEF TabInv
      <3>3. req' = [kind |-> "page", vf |-> req.vf, answer |-> req.answer, owes |-> req.owes \ {l}]
        BY <3>1, <3>2
      <3>4. /\ req'.kind = "page" /\ req'.vf = req.vf /\ req'.answer = req.answer
            /\ req'.owes = req.owes \ {l}
        BY <3>3
      <3>5. AnswerOK(req.answer)'
        BY <3>2, <3>4 DEF AnswerOK, InRows, Bounds, ToSet
      <3>. QED  BY <1>0, <2>1, <3>2, <3>3, <3>4, <3>5 DEF TabInv
    <2>. QED  BY <2>2, <2>3
  <1>4. CASE FeedPage
    <2>1. cards' = <<>> /\ cursor' = None /\ cookie' \in Filters /\ req' = PageRequest(cookie)
      BY <1>0, <1>4 DEF FeedPage, TabInv
    <2>2. cards' \in Seq(Lot)
      BY <2>1, EmptySeq, Zenon
    <2>. QED  BY <1>0, <1>2, <2>1, <2>2 DEF TabInv
  <1>5. ASSUME NEW vf \in Filters, PostViewFilters(vf) PROVE TabInv'
    <2>1. UNCHANGED <<cookie, cards, cursor, OnPage>> /\ req' = PageRequest(vf)
      BY <1>5 DEF PostViewFilters, OnPage
    <2>. QED  BY <1>0, <1>2, <2>1 DEF TabInv
  <1>6. CASE SwapPage
    <2>1. /\ cookie' = req.vf /\ cards' = req.answer.items /\ cursor' = req.answer.next_cursor
          /\ req' = Idle /\ req.kind = "page"
      BY <1>6 DEF SwapPage
    <2>2. /\ req.vf \in Filters /\ req.answer.items \in Seq(Lot)
          /\ Bounds(req.answer.next_cursor, req.answer.items)
      BY <1>0, <2>1 DEF TabInv, AnswerOK
    <2>3. cursor' \in OnPage' \cup {None}
      BY <2>1, <2>2 DEF Bounds, OnPage
    <2>4. req'.kind = "none"
      BY <2>1 DEF Idle
    <2>. QED  BY <2>1, <2>2, <2>3, <2>4 DEF TabInv, Idle
  <1>7. CASE FeedMore
    <2> DEFINE ans == Search(LotFilters(cookie), Active, subs, cursor)
    <2>1. req' = [kind |-> "more", answer |-> ans] /\ UNCHANGED <<cookie, cards, cursor, OnPage>>
      BY <1>7 DEF FeedMore, OnPage
    <2>2. cursor \in Lot /\ cursor # None /\ Active \in SUBSET Lot
      BY <1>0, <1>7, ToSetIs DEF FeedMore, TabInv, OnPage, Active
    <2>3. AnswerOK(ans) /\ \A l \in ToSet(ans.items) : Before(cursor, l)
      <3>1. /\ AnswerOK(ans)
            /\ ToSet(ans.items) \subseteq {l \in Where(LotFilters(cookie), Active, subs) : AfterCursor(l, cursor)}
        <4> HIDE DEF AnswerOK
        <4>. QED  BY <2>2, SearchAnswers
      <3> HIDE DEF ans
      <3>. QED  BY <2>2, <3>1 DEF AfterCursor
    <2> HIDE DEF ans
    <2>4. req'.kind = "more" /\ req'.answer = ans
      BY <2>1
    <2>5. AnswerOK(req.answer)'
      BY <2>3, <2>4 DEF AnswerOK, InRows, Bounds, ToSet
    <2>. QED  BY <1>0, <2>1, <2>2, <2>3, <2>4, <2>5 DEF TabInv, ToSet
  <1>8. CASE SwapMore
    <2>1. /\ cards' = cards \o req.answer.items /\ cursor' = req.answer.next_cursor
          /\ req' = Idle /\ req.kind = "more" /\ cookie' = cookie
      BY <1>8 DEF SwapMore
    <2>2. /\ req.answer.items \in Seq(Lot) /\ cards \in Seq(Lot) /\ cookie \in Filters
          /\ Bounds(req.answer.next_cursor, req.answer.items)
      BY <1>0, <2>1 DEF TabInv, AnswerOK
    <2>3. cards' \in Seq(Lot) /\ OnPage' = OnPage \cup ToSet(req.answer.items)
      BY <2>1, <2>2, ToSetConcat, ConcatProperties DEF OnPage
    <2>4. cursor' \in OnPage' \cup {None}
      BY <2>1, <2>2, <2>3 DEF Bounds
    <2>5. req'.kind = "none"
      BY <2>1 DEF Idle
    <2>. QED  BY <2>1, <2>2, <2>3, <2>4, <2>5 DEF TabInv, Idle
  <1>9. CASE Deliver
    <2>1. UNCHANGED <<cookie, cursor, req>>
      BY <1>9 DEF Deliver
    <2>2. cards' \in Seq(Lot) /\ OnPage \subseteq OnPage'
      BY <1>0, <1>9, DeliverDoes DEF TabInv
    <2>. QED  BY <1>0, <2>1, <2>2 DEF TabInv
  <1>10. CASE \/ \E l \in Lot, backfill \in BOOLEAN : Store(l, backfill)
              \/ \E l \in Lot : Reactivate(l)
              \/ \E r \in Catalog : Toggle(r)
              \/ (\E replayed \in BOOLEAN : Connect(replayed)) \/ Disconnect
              \/ UNCHANGED feed
    <2>1. UNCHANGED <<cookie, cards, cursor, req>>
      BY <1>10, TabStays, Zenon
    <2>. QED  BY <1>1, <2>1
  <1>. QED  BY <1>3, <1>4, <1>5, <1>6, <1>7, <1>8, <1>9, <1>10 DEF FeedNext

LEMMA CardStep == FeedInv /\ [FeedNext]_feed => CardInv'
  <1>. SUFFICES ASSUME FeedInv, [FeedNext]_feed PROVE CardInv'
    OBVIOUS
  <1>0. StreamInv /\ TabInv /\ CardInv
    BY DEF FeedInv
  <1>1. UNCHANGED <<cards, cursor, late>> => CardInv'
    BY <1>0 DEF CardInv, InRows, Bounds, ToSet
  <1>2. cards \in Seq(Lot) /\ OnPage \subseteq Lot /\ cursor \in OnPage \cup {None}
    BY <1>0, ToSetIs DEF TabInv, OnPage
  <1>3. CASE FeedPage
    <2>1. cards' = <<>> /\ cursor' = None /\ late' = {}
      BY <1>3 DEF FeedPage
    <2>2. Len(cards') = 0
      BY <2>1, EmptySeq, Zenon
    <2>. QED  BY <2>1, <2>2 DEF CardInv, InRows, Bounds
  <1>4. CASE SwapPage
    <2>1. cards' = req.answer.items /\ cursor' = req.answer.next_cursor /\ late' = {} /\ req.kind = "page"
      BY <1>4 DEF SwapPage
    <2>2. InRows(req.answer.items) /\ Bounds(req.answer.next_cursor, req.answer.items)
      BY <1>0, <2>1 DEF TabInv, AnswerOK
    <2>. QED  BY <2>1, <2>2 DEF CardInv, InRows, Bounds, ToSet
  <1>5. CASE SwapMore
    <2> DEFINE items == req.answer.items
               next == req.answer.next_cursor
    <2>1. cards' = cards \o items /\ cursor' = next /\ late' = late /\ req.kind = "more"
      BY <1>5 DEF SwapMore
    <2>2. /\ items \in Seq(Lot) /\ InRows(items) /\ Bounds(next, items) /\ next \in Lot \cup {None}
          /\ cursor # None /\ \A l \in ToSet(items) : Before(cursor, l)
      BY <1>0, <2>1 DEF TabInv, AnswerOK
    <2>3. late \subseteq Lot
      BY <1>0 DEF CardInv
    <2>. SUFFICES ASSUME late = {} PROVE InRows(cards') /\ Bounds(cursor', cards')
      BY <2>1, <2>3 DEF CardInv, InRows, Bounds, ToSet
    <2>4. InRows(cards) /\ \A l \in OnPage : l = cursor \/ Before(l, cursor)
      BY <1>0, <2>2 DEF CardInv, Bounds, OnPage
    <2> HIDE DEF items, next
    <2>5. ToSet(cards') = OnPage \cup ToSet(items) /\ ToSet(items) \subseteq Lot
      BY <1>2, <2>1, <2>2, ToSetConcat, ToSetIs DEF OnPage
    <2>6. \A l \in OnPage, k \in ToSet(items) : Before(l, k)
      BY <1>2, <2>2, <2>4, <2>5, BeforeOrder
    <2>7. Bounds(next, cards')
      BY <2>2, <2>5, <2>6 DEF Bounds
    <2>8. InRows(cards')
      <3> DEFINE m == Len(cards)
                 n == Len(items)
                 u == cards'
      <3>1. /\ u \in Seq(Lot) /\ Len(u) = m + n /\ m \in Nat /\ n \in Nat
            /\ \A i \in 1 .. m + n : u[i] = IF i <= m THEN cards[i] ELSE items[i - m]
        BY <1>2, <2>1, <2>2, ConcatProperties, LenProperties
      <3>2. OnPage = {cards[i] : i \in 1 .. m} /\ ToSet(items) = {items[i] : i \in 1 .. n}
        BY <1>2, <2>2, ToSetIs DEF OnPage
      <3> HIDE DEF u
      <3>. SUFFICES ASSUME NEW i \in 1 .. m + n, NEW j \in 1 .. m + n, i < j PROVE Before(u[i], u[j])
        BY <3>1 DEF InRows, u
      <3>3. CASE j <= m
        BY <2>4, <3>1, <3>3 DEF InRows
      <3>4. CASE i <= m /\ j > m
        <4>1. u[i] \in OnPage /\ u[j] = items[j - m] /\ j - m \in 1 .. n
          BY <3>1, <3>2, <3>4
        <4>. QED  BY <2>6, <3>2, <4>1
      <3>5. CASE i > m
        <4>1. /\ u[i] = items[i - m] /\ u[j] = items[j - m]
              /\ i - m \in 1 .. n /\ j - m \in 1 .. n /\ i - m < j - m
          BY <3>1, <3>5
        <4>. QED  BY <2>2, <4>1 DEF InRows
      <3>. QED  BY <3>1, <3>3, <3>4, <3>5
    <2>. QED  BY <2>1, <2>7, <2>8 DEF Bounds
  <1>6. CASE Deliver
    <2>1. PICK l : /\ l \in Lot /\ UNCHANGED cursor /\ OnPage' = OnPage \cup {l}
                   /\ \/ UNCHANGED <<cards, late>>
                      \/ late' = late \cup {l}
                      \/ /\ ~(cursor # None /\ Before(cursor, l)) /\ l \notin OnPage /\ late' = late
                         /\ cards' = InsertLive(l)
      BY <1>0, <1>6, DeliverDoes
    <2>2. CASE UNCHANGED <<cards, late>>
      BY <1>1, <2>1, <2>2
    <2>3. CASE late' = late \cup {l}
      <3>1. late' \subseteq Lot /\ late' # {}
        BY <1>0, <2>1, <2>3 DEF CardInv
      <3>. QED  BY <3>1 DEF CardInv
    <2>4. CASE /\ ~(cursor # None /\ Before(cursor, l)) /\ l \notin OnPage /\ late' = late
               /\ cards' = InsertLive(l)
      <3>0. late' \subseteq Lot
        BY <1>0, <2>4 DEF CardInv
      <3>. SUFFICES ASSUME late = {} PROVE InRows(cards') /\ Bounds(cursor', cards')
        BY <2>4, <3>0 DEF CardInv, InRows, Bounds, ToSet
      <3>1. InRows(cards) /\ Bounds(cursor, cards)
        BY <1>0 DEF CardInv
      <3>2. InRows(InsertLive(l))
        BY <1>2, <2>1, <2>4, <3>1, InsertLiveDoes
      <3>3. ASSUME cursor # None PROVE Before(l, cursor)
        BY <1>2, <2>1, <2>4, <3>3, BeforeOrder
      <3>4. Bounds(cursor', cards')
        BY <2>1, <3>1, <3>3 DEF Bounds, OnPage
      <3>. QED  BY <2>4, <3>2, <3>4 DEF InRows
    <2>. QED  BY <2>1, <2>2, <2>3, <2>4
  <1>7. CASE \/ \E l \in Lot, backfill \in BOOLEAN : Store(l, backfill)
             \/ \E l \in Lot : MarkInactive(l) \/ Reactivate(l)
             \/ \E r \in Catalog : Toggle(r)
             \/ \E vf \in Filters : PostViewFilters(vf)
             \/ FeedMore \/ (\E replayed \in BOOLEAN : Connect(replayed)) \/ Disconnect
             \/ UNCHANGED feed
    <2>1. UNCHANGED <<cards, cursor, late>>
      BY <1>7 DEF Store, MarkInactive, Reactivate, Toggle, PostViewFilters, FeedMore, Connect,
                  Disconnect, feed
    <2>. QED  BY <1>1, <2>1
  <1>. QED  BY <1>3, <1>4, <1>5, <1>6, <1>7 DEF FeedNext

\* More active lots, more rows; and where each action leaves the active lots.
LEMMA WhereGrows ==
  ASSUME NEW f, NEW A, NEW B, A \subseteq B, NEW s
  PROVE  /\ Where(f, A, s) \subseteq Where(f, B, s)
         /\ Where(f, A, s) \subseteq A
         /\ \A l \in Where(f, B, s) : l \in A => l \in Where(f, A, s)
  BY DEF Where

LEMMA ActiveStep ==
  ASSUME DbInv, NEW l \in Lot
  PROVE  /\ (\E b \in BOOLEAN : Store(l, b)) \/ Reactivate(l) => Active' = Active \cup {l}
         /\ MarkInactive(l) => Active' = Active \ {l}
  <1>1. ASSUME \/ \E b \in BOOLEAN : Store(l, b)
               \/ Reactivate(l)
        PROVE  Active' = Active \cup {l}
    <2>1. status' = [status EXCEPT ![l] = "active"]
      BY <1>1 DEF Store, Reactivate
    <2>. QED  BY <2>1 DEF DbInv, Active
  <1>2. ASSUME MarkInactive(l) PROVE Active' = Active \ {l}
    <2>1. status' = [status EXCEPT ![l] = "inactive"]
      BY <1>2 DEF MarkInactive
    <2>. QED  BY <2>1 DEF DbInv, Active
  <1>. QED  BY <1>1, <1>2

LEMMA OwedStep == FeedInv /\ [FeedNext]_feed => OwedInv'
  <1>. SUFFICES ASSUME FeedInv, [FeedNext]_feed PROVE OwedInv'
    OBVIOUS
  <1>0. DbInv /\ StreamInv /\ TabInv /\ OwedInv
    BY DEF FeedInv
  <1>. USE DEF Brings, Beyond
  <1>1. /\ owed \subseteq Shown(cookie) /\ pending \in Seq(EventType)
        /\ cards \in Seq(Lot) /\ req.kind \in {"none", "page", "more"}
    BY <1>0 DEF StreamInv, TabInv, OwedInv
  <1>2. ASSUME UNCHANGED <<cookie, cards, cursor, req>>, owed' \subseteq Shown(cookie)',
               req.kind # "page" => owed' \subseteq owed \cup Lots(pending'),
               req.kind # "page" => owed' \cap Lots(pending) \subseteq Lots(pending')
        PROVE  OwedInv'
    <2>1. OnPage' = OnPage /\ req' = req /\ cursor' = cursor
      BY <1>2 DEF OnPage
    <2>2. owed' \subseteq (Shown(cookie))'
      BY <1>2
    <2>. QED  BY <1>0, <1>2, <2>1, <2>2 DEF OwedInv, ToSet, Lots
  <1>3. ASSUME NEW l \in Lot, NEW b \in BOOLEAN, Store(l, b) PROVE OwedInv'
    <2>1. UNCHANGED <<cookie, cards, cursor, req, subs>> /\ Active' = Active \cup {l}
      BY <1>0, <1>3, ActiveStep DEF Store
    <2>2. Shown(cookie)' = Where(LotFilters(cookie), Active \cup {l}, subs)
      BY <2>1 DEF Shown
    <2>3. owed \subseteq Shown(cookie)'
      BY <1>1, <2>2, WhereGrows DEF Shown
    <2>4. CASE Streamed(l) /\ req.kind # "page"
      <3>1. /\ owed' = owed \cup ({l} \cap Shown(cookie)')
            /\ pending' = Append(pending, Event(l, b))
        BY <1>3, <2>2, <2>4 DEF Store
      <3>2. Lots(pending') = Lots(pending) \cup {l}
        BY <1>1, <3>1, EventShape, LotsAre
      <3>. QED  BY <1>2, <2>1, <2>3, <3>1, <3>2
    <2>5. CASE ~(Streamed(l) /\ req.kind # "page")
      <3>1. owed' = owed
        BY <1>3, <2>5 DEF Store
      <3>2. req.kind # "page" => pending' = pending
        BY <1>3, <2>5 DEF Store
      <3>. QED  BY <1>2, <2>1, <2>3, <3>1, <3>2
    <2>. QED  BY <2>4, <2>5
  <1>4. ASSUME NEW l \in Lot, Reactivate(l) PROVE OwedInv'
    <2>1. /\ UNCHANGED <<cookie, cards, cursor, req, subs, pending, owed>>
          /\ Active' = Active \cup {l}
      BY <1>0, <1>4, ActiveStep DEF Reactivate
    <2>2. owed \subseteq Shown(cookie)'
      BY <1>1, <2>1, WhereGrows DEF Shown
    <2>. QED  BY <1>2, <2>1, <2>2
  <1>5. ASSUME NEW l \in Lot, MarkInactive(l) PROVE OwedInv'
    <2>1. /\ UNCHANGED <<cookie, cards, cursor, subs, pending>> /\ owed' = owed \ {l}
          /\ Active' = Active \ {l}
      BY <1>0, <1>5, ActiveStep DEF MarkInactive
    <2>2. Shown(cookie)' = Where(LotFilters(cookie), Active \ {l}, subs)
      BY <2>1 DEF Shown
    <2>3. owed' \subseteq Shown(cookie)'
      BY <1>1, <2>1, <2>2 DEF Shown, Where
    <2>4. CASE req.kind # "page"
      <3>1. req' = req
        BY <1>5, <2>4 DEF MarkInactive
      <3>. QED  BY <1>2, <2>1, <2>3, <3>1
    <2>5. CASE req.kind = "page"
      <3>1. req' = [req EXCEPT !.owes = @ \ {l}]
        BY <1>5, <2>5 DEF MarkInactive
      <3>2. req = [kind |-> "page", vf |-> req.vf, answer |-> req.answer, owes |-> req.owes]
        BY <1>0, <2>5 DEF TabInv
      <3>3. req' = [kind |-> "page", vf |-> req.vf, answer |-> req.answer, owes |-> req.owes \ {l}]
        BY <3>1, <3>2
      <3>4. req'.kind = "page" /\ req'.answer = req.answer /\ req'.owes \subseteq req.owes
        BY <3>3
      <3>. QED  BY <1>0, <2>3, <2>5, <3>4 DEF OwedInv, ToSet
    <2>. QED  BY <2>4, <2>5
  <1>6. ASSUME NEW r \in Catalog, Toggle(r) PROVE OwedInv'
    <2>1. /\ UNCHANGED <<cookie, cards, cursor, req, pending, status>>
          /\ owed' = owed \cap Where(LotFilters(cookie), Active, subs')
      BY <1>6 DEF Toggle
    <2>2. owed' \subseteq Shown(cookie)'
      BY <2>1 DEF Shown, Active
    <2>. QED  BY <1>2, <2>1, <2>2
  <1>7. ASSUME NEW vf \in Filters, req' = PageRequest(vf), UNCHANGED db,
               owed' \subseteq Shown(cookie)
        PROVE  cookie' = cookie => OwedInv'
    <2>1. /\ req'.kind = "page"
          /\ \A l \in req'.owes : Brings(req'.answer, l)
      <3> HIDE DEF Brings
      <3>. QED  BY <1>7, PageAnswers
    <2>2. ASSUME cookie' = cookie PROVE Shown(cookie)' = Shown(cookie)
      BY <1>7, <2>2 DEF Shown, Active
    <2>. QED  BY <1>7, <2>1, <2>2 DEF OwedInv, ToSet
  <1>8. CASE FeedPage
    <2>1. cookie \in Filters /\ req' = PageRequest(cookie) /\ UNCHANGED <<db, cookie>> /\ owed' = {}
      BY <1>0, <1>8 DEF FeedPage, TabInv
    <2>. QED  BY <1>7, <2>1
  <1>9. ASSUME NEW vf \in Filters, PostViewFilters(vf) PROVE OwedInv'
    BY <1>1, <1>7, <1>9 DEF PostViewFilters
  <1>10. CASE SwapPage
    <2>1. /\ req.kind = "page" /\ cookie' = req.vf /\ cards' = req.answer.items
          /\ cursor' = req.answer.next_cursor /\ req' = Idle /\ UNCHANGED <<db, pending>>
          /\ owed' = (req.owes \cup Lots(pending)) \cap Shown(req.vf)
      BY <1>10 DEF SwapPage
    <2>2. \A l \in req.owes : Brings(req.answer, l)
      BY <1>0, <2>1 DEF OwedInv
    <2>3. owed' \subseteq Shown(cookie)'
      BY <2>1 DEF Shown, Active
    <2>4. req'.kind = "none"
      BY <2>1 DEF Idle
    <2>5. \A l \in owed' : l \in OnPage' \/ l \in Lots(pending') \/ Beyond(cursor', l)
      BY <2>1, <2>2 DEF OnPage
    <2>. QED  BY <2>3, <2>4, <2>5 DEF OwedInv
  <1>11. CASE FeedMore
    <2> DEFINE ans == Search(LotFilters(cookie), Active, subs, cursor)
    <2>1. /\ req = Idle /\ cursor # None /\ req' = [kind |-> "more", answer |-> ans]
          /\ UNCHANGED <<db, cookie, cards, pending, owed>>
      BY <1>11 DEF FeedMore
    <2>2. cursor \in Lot /\ Active \in SUBSET Lot
      BY <1>0, <2>1, ToSetIs DEF TabInv, OnPage, Active
    <2>3. \A l \in Shown(cookie) : Beyond(cursor, l) => Brings(ans, l)
      <3>1. \A l \in {k \in Where(LotFilters(cookie), Active, subs) : AfterCursor(k, cursor)} : Brings(ans, l)
        <4> HIDE DEF Brings
        <4>. QED  BY <2>2, SearchAnswers
      <3> HIDE DEF ans, Brings
      <3>. QED  BY <3>1 DEF AfterCursor, Shown
    <2> HIDE DEF ans
    <2>4. req'.kind = "more" /\ req'.answer = ans /\ req.kind = "none"
      BY <2>1 DEF Idle
    <2>5. Shown(cookie)' = Shown(cookie) /\ OnPage' = OnPage /\ Lots(pending') = Lots(pending)
      BY <2>1 DEF Shown, Active, OnPage
    <2>6. \A l \in owed : l \in OnPage \/ l \in Lots(pending) \/ Beyond(cursor, l)
      BY <1>0, <2>4 DEF OwedInv
    <2>7. \A l \in owed' : l \in OnPage' \/ l \in Lots(pending') \/ Brings(req'.answer, l)
      <3> HIDE DEF Brings, Beyond
      <3>. QED  BY <1>1, <2>1, <2>3, <2>4, <2>5, <2>6
    <2>. QED  BY <1>1, <2>1, <2>4, <2>5, <2>7 DEF OwedInv, ToSet
  <1>12. CASE SwapMore
    <2> DEFINE items == req.answer.items
    <2>1. /\ req.kind = "more" /\ cards' = cards \o items /\ cursor' = req.answer.next_cursor
          /\ req' = Idle /\ UNCHANGED <<db, cookie, pending, owed>>
      BY <1>12 DEF SwapMore
    <2>2. items \in Seq(Lot)
      BY <1>0, <2>1 DEF TabInv, AnswerOK
    <2>3. OnPage' = OnPage \cup ToSet(items)
      <3> HIDE DEF items
      <3>. QED  BY <1>1, <2>1, <2>2, ToSetConcat DEF OnPage
    <2>4. req'.kind = "none"
      BY <2>1 DEF Idle
    <2>5. Shown(cookie)' = Shown(cookie)
      BY <2>1 DEF Shown, Active
    <2>6. \A l \in owed : l \in OnPage \/ l \in Lots(pending) \/ Brings(req.answer, l)
      BY <1>0, <2>1 DEF OwedInv
    <2>7. \A l \in owed' : l \in OnPage' \/ l \in Lots(pending') \/ Beyond(cursor', l)
      BY <2>1, <2>3, <2>6
    <2>. QED  BY <1>1, <2>1, <2>4, <2>5, <2>7 DEF OwedInv
  <1>13. ASSUME NEW replayed \in BOOLEAN, Connect(replayed) PROVE OwedInv'
    <2>1. UNCHANGED <<cookie, cards, cursor, req, status, subs, owed>> /\ ~stream.open
      BY <1>13 DEF Connect
    <2>2. Shown(cookie)' = Shown(cookie)
      BY <2>1 DEF Shown, Active
    <2>3. pending = <<>>
      BY <1>0, <2>1, StreamShape DEF StreamInv
    <2>4. Lots(pending) = {}
      BY <2>3, LotsAre
    <2>. QED  BY <1>1, <1>2, <2>1, <2>2, <2>4
  <1>14. CASE Disconnect
    <2>1. /\ UNCHANGED <<cookie, cards, cursor, req, status, subs>>
          /\ owed' = owed \ Lots(pending)
      BY <1>14 DEF Disconnect
    <2>2. Shown(cookie)' = Shown(cookie)
      BY <2>1 DEF Shown, Active
    <2>. QED  BY <1>1, <1>2, <2>1, <2>2
  <1>15. CASE Deliver
    <2>1. UNCHANGED <<cookie, cursor, req, status, subs, owed>>
      BY <1>15 DEF Deliver
    <2>2. PICK l : OnPage' = OnPage \cup {l} /\ Lots(pending) = {l} \cup Lots(pending')
      BY <1>0, <1>15, DeliverDoes
    <2>3. Shown(cookie)' = Shown(cookie)
      BY <2>1 DEF Shown, Active
    <2>. QED  BY <1>0, <1>1, <2>1, <2>2, <2>3 DEF OwedInv, ToSet
  <1>16. CASE UNCHANGED feed
    <2>1. UNCHANGED <<cookie, cards, cursor, req, status, subs, pending, owed>>
      BY <1>16 DEF feed
    <2>2. Shown(cookie)' = Shown(cookie)
      BY <2>1 DEF Shown, Active
    <2>. QED  BY <1>1, <1>2, <2>1, <2>2
  <1>. QED  BY <1>3, <1>4, <1>5, <1>6, <1>8, <1>9, <1>10, <1>11, <1>12, <1>13, <1>14, <1>15, <1>16
            DEF FeedNext

-----------------------------------------------------------------------------
(* The feed: the theorems                                                  *)

LEMMA FeedStart == FeedInit => FeedInv
  <1>. SUFFICES ASSUME FeedInit PROVE FeedInv
    OBVIOUS
  <1>. USE FeedAssumption
  <1>1. DbInv
    <2>1. status \in [Lot -> {"absent", "active", "inactive"}] /\ subs \subseteq Catalog
      BY DEF FeedInit
    <2>2. toggles \in 0 .. Toggles
      BY DEF FeedInit
    <2>. QED  BY <2>1, <2>2 DEF DbInv, FeedInit
  <1>2. StreamInv
    BY EmptySeq DEF StreamInv, FeedInit
  <1>3. /\ req = PageRequest(NoFilter) /\ cookie = NoFilter /\ cards = <<>> /\ cursor = None
        /\ late = {} /\ owed = {} /\ NoFilter \in Filters
    BY DEF FeedInit
  <1>4. TabInv
    <2>1. cards \in Seq(Lot)
      BY <1>3, EmptySeq, Zenon
    <2>. QED  BY <1>3, <2>1, PageAnswers DEF TabInv
  <1>5. CardInv
    <2>1. Len(cards) = 0
      BY <1>3, EmptySeq, Zenon
    <2>. QED  BY <1>3, <2>1 DEF CardInv, InRows, Bounds
  <1>6. OwedInv
    <2> HIDE DEF Brings
    <2>. QED  BY <1>3, PageAnswers DEF OwedInv
  <1>. QED  BY <1>1, <1>2, <1>4, <1>5, <1>6 DEF FeedInv

LEMMA FeedInvariance == FeedSpec => []FeedInv
  <1>1. FeedInv /\ [FeedNext]_feed => FeedInv'
    BY DbStep, StreamStep, TabStep, CardStep, OwedStep DEF FeedInv
  <1>. QED  BY <1>1, FeedStart, PTL DEF FeedSpec

\* The types of the feed: the trigger's cursor is a lot the page shows, and
\* nothing is on its way on a closed stream.
THEOREM FeedTypeCorrect == FeedSpec => []FeedTypeOK
  <1>1. ASSUME FeedInv PROVE FeedTypeOK
    <2>1. DbInv /\ StreamInv /\ TabInv /\ CardInv /\ OwedInv
      BY <1>1 DEF FeedInv
    <2>2. OnPage \subseteq Lot /\ Lots(pending) \subseteq Lot
      BY <2>1, ToSetIs, LotsAre DEF TabInv, StreamInv, OnPage
    <2>3. owed \subseteq Lot
      BY <2>1 DEF OwedInv, Shown, Where, Active
    <2>4. ~stream.open => pending = <<>>
      BY <2>1, StreamShape DEF StreamInv
    <2>. QED  BY <2>1, <2>2, <2>3, <2>4
              DEF FeedTypeOK, DbInv, StreamInv, TabInv, CardInv
  <1>. QED  BY <1>1, FeedInvariance, PTL

\* However pages, "load more", filter changes and live cards interleave, a
\* page on which no card came late is in the order of the table, no lot on it
\* twice: the keyset of search and _findInsertBefore agree on one order.
THEOREM CardsStayInOrder == FeedSpec => []CardsInOrder
  <1>1. ASSUME FeedInv PROVE CardsInOrder
    BY <1>1 DEF FeedInv, CardInv, CardsInOrder, InRows
  <1>. QED  BY <1>1, FeedInvariance, PTL

\* When the last page is loaded and nothing is on its way, every lot the page
\* owes has its card: no cursor skips a row, and no card of the stream is lost
\* to a swap.
THEOREM NothingIsLost == FeedSpec => []NothingLost
  <1>1. ASSUME FeedInv PROVE NothingLost
    <2>. SUFFICES ASSUME cursor = None, req = Idle, pending = <<>> PROVE owed \subseteq OnPage
      BY DEF NothingLost
    <2>1. req.kind = "none"
      BY DEF Idle
    <2>2. Lots(pending) = {}
      BY LotsAre
    <2>3. \A l \in owed : l \in OnPage \/ l \in Lots(pending) \/ Beyond(cursor, l)
      BY <1>1, <2>1 DEF FeedInv, OwedInv
    <2>. QED  BY <2>2, <2>3 DEF Beyond
  <1>. QED  BY <1>1, FeedInvariance, PTL

\* The predicate of an up-to-date stream and the WHERE clause of the feed let
\* the same active lots of known area through.
THEOREM StreamMirrors == FeedSpec => []StreamMirrorsFeed
  <1>1. ASSUME FeedInv PROVE StreamMirrorsFeed
    <2>. SUFFICES ASSUME stream.open, stream.ids = subs, stream.vf.subjects \subseteq Catalog,
                         NEW l \in Active, AreaOf[l] # None
                  PROVE  EventFilter(l, stream.vf, stream.ids) <=> l \in Shown(stream.vf)
      BY DEF StreamMirrorsFeed
    <2> DEFINE vf == stream.vf
               filters == LotFilters(vf)
    <2>1. vf \in Filters
      BY <1>1, StreamShape DEF FeedInv, StreamInv
    <2>2. vf = ViewFilter(vf.subjects, vf.area_min, vf.area_max)
      BY <2>1, FeedAssumption
    <2>3. /\ filters.subjects = vf.subjects /\ filters.area_min = vf.area_min
          /\ filters.area_max = vf.area_max
      <3>1. filters = [vf EXCEPT !.subjects = vf.subjects]
        BY DEF LotFilters
      <3> HIDE DEF vf, filters
      <3>. QED  BY <2>2, <3>1 DEF ViewFilter
    <2>4. l \in Lot /\ RegionOf[l] \in Catalog \cup {None}
      BY LotQueryAssumption DEF Active
    <2>5. vf.subjects # {} => (RegionOf[l] \in vf.subjects <=>
                               RegionOf[l] # None /\ RegionOf[l] \in vf.subjects)
      BY LotQueryAssumption
    <2>. QED  BY <2>3, <2>5
              DEF EventFilter, Membership, ViewPasses, Shown, Where, AtLeast, AtMost
  <1>. QED  BY <1>1, FeedInvariance, PTL

=============================================================================
