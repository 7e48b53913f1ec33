---------------------------- MODULE ConfigSource ----------------------------
(***************************************************************************)
(* The live configuration (infra/config_source.py, WatchdogConfigSource):  *)
(* one file, one snapshot in memory, and one row per subscribed subject in *)
(* the database.  The settings routes replace file and snapshot under a    *)
(* lock; an editor replaces the file alone, which the observer's thread    *)
(* turns into a debounced reload on a timer thread.  Whoever changes the   *)
(* snapshot brings the subscription rows in line after the lock.           *)
(*                                                                         *)
(* Of the settings two parts are kept apart: the macro-regions and the     *)
(* rest.  The environment overrides change neither.                        *)
(***************************************************************************)
EXTENDS Naturals

CONSTANTS Macro,            \* macro-regions a user can subscribe to
          Subject,          \* subjects of the federation, the keys of the rows
          SubjectsOf,       \* macro -> its subjects, they may share some
          Rest, DefaultRest,\* values of the other settings
          Torn,             \* a rest that does not parse
          Saver,            \* threads of the settings routes
          Timer,            \* debounce timers, each a thread once it fires
          MaxChanges,       \* bound: posts and edits together
          None

ASSUME CatalogAssumption == SubjectsOf \in [Macro -> SUBSET Subject]
ASSUME RestAssumption == DefaultRest \in Rest /\ Torn \notin Rest
ASSUME ThreadAssumption == Saver \cap Timer = {} /\ None \notin Timer
ASSUME BoundAssumption == MaxChanges \in Nat

Config == [regions : SUBSET Macro, rest : Rest]
Content == [regions : SUBSET Macro, rest : Rest \cup {Torn}]
Default == [regions |-> Macro, rest |-> DefaultRest]

ASSUME AbsentAssumption == None \notin Content

Process == Saver \cup Timer

VARIABLES
  file,      \* config.json, None when there is none
  event,     \* a file-system event the observer has not handled yet
  current,   \* _current
  lastHash,  \* _last_content_hash: the content it was taken of
  pending,   \* _pending_timer
  proc,      \* what each saver and timer is doing
  rows,      \* region_subscriptions
  phase,     \* of the process: "down", "loaded", "up", "stopped"
  reader,    \* history: the timer that read the file last
  missed,    \* history: the snapshot fell behind and no event will tell
  lapsed,    \* history: two changes of the snapshot overlapped
  failed,    \* history: a diff was abandoned
  changes

configVars == <<current, lastHash>>
histories == <<reader, missed, lapsed, failed>>
vars == <<file, event, configVars, pending, proc, rows, phase, histories,
          changes>>

-----------------------------------------------------------------------------

Parses(c) == c \in Config

\* The hash is taken of the first 4 KB, in which the regions come before the
\* rest: what differs in the rest may differ behind them.
SameSample(c, d) == d # None /\ c.regions = d.regions

\* domain/regions.py, subjects_for_macros
SubjectsFor(macros) == UNION {SubjectsOf[m] : m \in macros}

\* _apply_region_diff: rows to insert, and to delete once they are in.
\* Mutant: subjects shared with a macro-region that stays are deleted too.
Removed_Shared(old, new) == SubjectsFor(old.regions \ new.regions)

Added(old, new) == SubjectsFor(new.regions \ old.regions)
Removed(old, new) ==
  SubjectsFor(old.regions \ new.regions) \ SubjectsFor(new.regions)

Idle == [pc |-> "idle", raw |-> Default, old |-> Default,
         add |-> {}, del |-> {}]

Diffing(old, new) == [Idle EXCEPT !.pc = "diff", !.add = Added(old, new),
                                  !.del = Removed(old, new)]

DiffRuns == \E p \in Process : proc[p].pc = "diff"

Become(p, r) == proc' = [proc EXCEPT ![p] = r]

CanChange == changes < MaxChanges /\ changes' = changes + 1

-----------------------------------------------------------------------------
(* The settings routes: current(), model_copy(update), save().             *)

Post(s) ==
  /\ phase = "up" /\ proc[s].pc = "idle"
  /\ CanChange
  /\ \E new \in Config :
       /\ new.regions = current.regions \/ new.rest = current.rest
       /\ Become(s, [Idle EXCEPT !.pc = "save", !.raw = new])
  /\ UNCHANGED <<file, event, configVars, pending, rows, phase, histories>>

\* Mutant: the file is written, the snapshot is left to the reload, and the
\* hash is recorded all the same.
Replace_NoSwap(s) ==
  /\ file' = proc[s].raw
  /\ lastHash' = proc[s].raw
  /\ UNCHANGED current

\* save, inside _lock.
Replace(s) ==
  /\ file' = proc[s].raw
  /\ current' = proc[s].raw
  /\ lastHash' = proc[s].raw

Save(s) ==
  /\ proc[s].pc = "save"
  /\ Replace(s)
  /\ event' = (event \/ phase = "up")
  /\ lapsed' = (lapsed \/ DiffRuns)
  /\ Become(s, Diffing(current, proc[s].raw))
  /\ UNCHANGED <<pending, rows, phase, reader, missed, failed, changes>>

\* The temporary file could not be written or renamed.
SaveFails(s) ==
  /\ proc[s].pc = "save"
  /\ Become(s, Idle)
  /\ UNCHANGED <<file, event, configVars, pending, rows, phase, histories,
                 changes>>

-----------------------------------------------------------------------------
(* _apply_region_diff: one transaction per row, insertions first.          *)

InsertRow(p) ==
  /\ proc[p].pc = "diff"
  /\ \E x \in proc[p].add :
       /\ rows' = rows \cup {x}
       /\ Become(p, [proc[p] EXCEPT !.add = @ \ {x}])
  /\ UNCHANGED <<file, event, configVars, pending, phase, histories, changes>>

DeleteRow(p) ==
  /\ proc[p].pc = "diff" /\ proc[p].add = {}
  /\ \E x \in proc[p].del :
       /\ rows' = rows \ {x}
       /\ Become(p, [proc[p] EXCEPT !.del = @ \ {x}])
  /\ UNCHANGED <<file, event, configVars, pending, phase, histories, changes>>

EndDiff(p) ==
  /\ proc[p].pc = "diff" /\ proc[p].add = {} /\ proc[p].del = {}
  /\ Become(p, Idle)
  /\ UNCHANGED <<file, event, configVars, pending, rows, phase, histories,
                 changes>>

\* The database raises: the rows that are left are not written.
DiffFails(p) ==
  /\ proc[p].pc = "diff" /\ proc[p].add \cup proc[p].del # {}
  /\ failed' = TRUE
  /\ Become(p, Idle)
  /\ UNCHANGED <<file, event, configVars, pending, rows, phase, reader,
                 missed, lapsed, changes>>

-----------------------------------------------------------------------------
(* The file and its observer.                                              *)

\* An editor replaces the file, with anything, or writes half of it.
Edit ==
  /\ CanChange
  /\ \E c \in Content : file' = c
  /\ event' = (event \/ phase = "up")
  /\ missed' = (missed \/ phase = "loaded")
  /\ UNCHANGED <<configVars, pending, proc, rows, phase, reader, lapsed,
                 failed>>

\* A pending timer that has not fired is cancelled and a new one started;
\* cancel() does nothing to one that has.
Arm(t) ==
  /\ proc' = [p \in Process |->
       IF p = t THEN [Idle EXCEPT !.pc = "armed"]
       ELSE IF p = pending /\ proc[p].pc = "armed" THEN Idle
       ELSE proc[p]]
  /\ pending' = t

\* Mutant: the rename of a save or of an editor is not recognised.
OnEvent_NoMoves(t) == FALSE /\ Arm(t) /\ UNCHANGED vars

\* _on_event, in the observer's thread: a timer that has fired goes on, and
\* the new one may fire before it is through.
OnEvent(t) ==
  /\ phase = "up" /\ event
  /\ proc[t].pc = "idle" \/ (pending = t /\ proc[t].pc = "armed")
  /\ event' = FALSE
  /\ Arm(t)
  /\ UNCHANGED <<file, configVars, rows, phase, histories, changes>>

\* The 300 ms are over.
Fire(t) ==
  /\ proc[t].pc = "armed"
  /\ Become(t, [proc[t] EXCEPT !.pc = "fired"])
  /\ UNCHANGED <<file, event, configVars, pending, rows, phase, histories,
                 changes>>

-----------------------------------------------------------------------------
(* _do_reload, in the timer's thread.                                      *)

\* The reference that is cleared may be a later timer's.
ClearPending(t) ==
  /\ proc[t].pc = "fired"
  /\ pending' = None
  /\ Become(t, [proc[t] EXCEPT !.pc = "clear"])
  /\ UNCHANGED <<file, event, configVars, rows, phase, histories, changes>>

ReadFile(t) ==
  /\ proc[t].pc = "clear" /\ file # None
  /\ Become(t, [proc[t] EXCEPT !.pc = "read", !.raw = file])
  /\ reader' = t /\ missed' = FALSE
  /\ UNCHANGED <<file, event, configVars, pending, rows, phase, lapsed,
                 failed, changes>>

\* stat or read raises, or the file is too large: given up until an event.
ReadFails(t) ==
  /\ proc[t].pc = "clear"
  /\ Become(t, Idle)
  /\ missed' = TRUE
  /\ UNCHANGED <<file, event, configVars, pending, rows, phase, reader,
                 lapsed, failed, changes>>

\* Inside _lock: a known sample ends the reload, were the file new or not.
Dedup(t) ==
  /\ proc[t].pc = "read"
  /\ \/ /\ SameSample(proc[t].raw, lastHash)
        /\ missed' = (missed \/ (reader = t /\ proc[t].raw # lastHash))
        /\ Become(t, Idle)
     \/ /\ proc[t].raw # lastHash
        /\ Become(t, [proc[t] EXCEPT !.pc = "parse", !.old = current])
        /\ UNCHANGED missed
  /\ UNCHANGED <<file, event, configVars, pending, rows, phase, reader,
                 lapsed, failed, changes>>

ParseFails(t) ==
  /\ proc[t].pc = "parse" /\ ~Parses(proc[t].raw)
  /\ lastHash' = proc[t].raw
  /\ Become(t, Idle)
  /\ UNCHANGED <<file, event, current, pending, rows, phase, histories,
                 changes>>

InFlight(t) == t \in Timer /\ proc[t].pc \in {"read", "parse"}

\* The file was read again meanwhile, and that reload is through.
Overtaken(t) == reader # t /\ ~InFlight(reader)

\* Inside _lock, whatever has become of the snapshot since Dedup.
Swap(t) ==
  /\ proc[t].pc = "parse" /\ Parses(proc[t].raw)
  /\ current' = proc[t].raw
  /\ lastHash' = proc[t].raw
  /\ Become(t, IF proc[t].raw = proc[t].old THEN Idle
               ELSE Diffing(proc[t].old, proc[t].raw))
  /\ missed' = (missed \/ Overtaken(t))
  /\ lapsed' = (lapsed \/ DiffRuns \/ proc[t].old # current)
  /\ UNCHANGED <<file, event, pending, rows, phase, reader, failed, changes>>

-----------------------------------------------------------------------------
(* The process.                                                            *)

\* _bootstrap_subscriptions: rows of regions dropped meanwhile stay.
Bootstrap(config) == rows' = rows \cup SubjectsFor(config.regions)

\* __init__, up to the observer.
Load ==
  /\ phase = "down"
  /\ phase' = "loaded"
  /\ current' = IF Parses(file) THEN file ELSE Default
  /\ lastHash' = None
  /\ Bootstrap(current')
  /\ missed' = FALSE /\ lapsed' = FALSE /\ failed' = FALSE
  /\ UNCHANGED <<file, event, pending, proc, reader, changes>>

StartObserver ==
  /\ phase = "loaded"
  /\ phase' = "up"
  /\ UNCHANGED <<file, event, configVars, pending, proc, rows, histories,
                 changes>>

\* stop(): the pending timer is cancelled, one that has fired goes on.
Stop ==
  /\ phase = "up"
  /\ phase' = "stopped"
  /\ event' = FALSE /\ pending' = None
  /\ proc' = [p \in Process |->
       IF p = pending /\ proc[p].pc = "armed" THEN Idle ELSE proc[p]]
  /\ UNCHANGED <<file, configVars, rows, histories, changes>>

Exit ==
  /\ phase # "down"
  /\ phase' = "down"
  /\ event' = FALSE /\ pending' = None
  /\ proc' = [p \in Process |-> Idle]
  /\ reader' = None
  /\ UNCHANGED <<file, configVars, rows, missed, lapsed, failed, changes>>

-----------------------------------------------------------------------------
Init ==
  /\ file \in Content \cup {None}
  /\ event = FALSE
  /\ current = Default
  /\ lastHash = None
  /\ pending = None
  /\ proc = [p \in Process |-> Idle]
  /\ rows = {}
  /\ phase = "down"
  /\ reader = None
  /\ missed = FALSE /\ lapsed = FALSE /\ failed = FALSE
  /\ changes = 0

SaverStep(s) == Save(s) \/ SaveFails(s)
TimerStep(t) ==
  \/ Fire(t) \/ ClearPending(t) \/ ReadFile(t) \/ ReadFails(t)
  \/ Dedup(t) \/ ParseFails(t) \/ Swap(t)
DiffStep(p) == InsertRow(p) \/ DeleteRow(p) \/ EndDiff(p) \/ DiffFails(p)
Observe == \E t \in Timer : OnEvent(t)

Next ==
  \/ \E s \in Saver : Post(s) \/ SaverStep(s)
  \/ \E t \in Timer : TimerStep(t)
  \/ \E p \in Process : DiffStep(p)
  \/ Observe \/ Edit \/ Load \/ StartObserver \/ Stop \/ Exit

\* The threads of the process run while it does, and time passes.
Fairness ==
  /\ WF_vars(Observe)
  /\ \A s \in Saver : WF_vars(SaverStep(s))
  /\ \A t \in Timer : WF_vars(TimerStep(t))
  /\ \A p \in Process : WF_vars(DiffStep(p))

Spec == Init /\ [][Next]_vars
FairSpec == Spec /\ Fairness

-----------------------------------------------------------------------------
(* Properties.                                                             *)

ProcType == [pc : {"idle", "save", "armed", "fired", "clear", "read", "parse",
                   "diff"},
             raw : Content, old : Config,
             add : SUBSET Subject, del : SUBSET Subject]

\* Every variable keeps its type; a saver only ever writes what parses.
TypeOK ==
  /\ file \in Content \cup {None} /\ event \in BOOLEAN
  /\ current \in Config
  /\ lastHash \in Content \cup {None}
  /\ pending \in Timer \cup {None}
  /\ proc \in [Process -> ProcType]
  /\ \A s \in Saver :
       proc[s].pc \in {"idle", "save", "diff"} /\ proc[s].raw \in Config
  /\ \A t \in Timer : proc[t].pc # "save"
  /\ rows \subseteq Subject
  /\ phase \in {"down", "loaded", "up", "stopped"}
  /\ reader \in Timer \cup {None}
  /\ missed \in BOOLEAN /\ lapsed \in BOOLEAN /\ failed \in BOOLEAN
  /\ changes \in 0..MaxChanges

Settled ==
  phase = "up" /\ ~event /\ \A p \in Process : proc[p].pc = "idle"

\* When nothing is under way the snapshot is what the file says, however
\* saves, edits and reloads interleaved, unless no event is left to tell: an
\* edit before the observer started, one that differs behind the 4 KB that are
\* hashed, a reload that could not read the file, and one that swaps after a
\* later one is through.
SettledIsCurrent == Settled /\ ~missed /\ Parses(file) => current = file

\* Every subject of a subscribed region has its row, without which the email
\* channel suppresses its lots, if diffs were applied one after the other:
\* also for subjects two regions share, and after a crash between the swap
\* and its rows.
SerialDiffsKeepRows ==
  Settled /\ ~lapsed /\ ~failed => SubjectsFor(current.regions) \subseteq rows

\* The hot reload: a file that parses gets into the snapshot, although a late
\* timer clears the reference to the next one, with the same four exceptions.
EditIsPickedUp ==
  []<>(phase # "up" \/ missed \/ ~Parses(file) \/ current = file)
=============================================================================
