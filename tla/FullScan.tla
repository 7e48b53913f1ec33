------------------------------ MODULE FullScan ------------------------------
(***************************************************************************)
(* The daily full scan (services/full_scan.py, FullScanService) with the   *)
(* page walk it delegates to (services/paginated_list_fetcher.py).  The    *)
(* scan reads the donor's catalogue page by page, newest lot first, then   *)
(* goes through the lots the database holds as active and marks the ones   *)
(* it has not seen inactive.  Meanwhile the donor publishes and withdraws  *)
(* lots, and the monitor cycle stores what is published.  What a request   *)
(* comes to is ListPage's.                                                 *)
(*                                                                         *)
(* Lots are numbers, a newer lot a larger one: both the catalogue and      *)
(* list_active are ordered by DATE_CREATE, descending.                     *)
(***************************************************************************)
EXTENDS Naturals, FiniteSets, ListPage

CONSTANTS Lot,
          PerPage,      \* rows of a catalogue page
          PageLimit,    \* _PAGE_LIMIT
          BatchSize,    \* batch_size
          MaxChanges,   \* bound: lots published and withdrawn
          MaxFaults     \* bound: failures and stops

ASSUME LotAssumption == Lot \subseteq Nat /\ IsFiniteSet(Lot)
ASSUME SizeAssumption == PerPage \in Nat \ {0} /\ PageLimit \in Nat \ {0}
                         /\ BatchSize \in Nat \ {0}
ASSUME BoundAssumption == MaxChanges \in Nat /\ MaxFaults \in Nat

VARIABLES
  site,      \* the donor's catalogue
  active,    \* lots stored with is_active = 1
  stopped,   \* the supervisor's stop_event
  pc,        \* of the scan: "idle", "walk", "batch", "mark"
  page,      \* the page to fetch next
  ids,       \* seen_ids
  offset,    \* of the batch loop
  todo,      \* missing_in_batch, as far as it is not marked yet
  listed,    \* history: the catalogue when the scan started
  partial,   \* history: the walk missed something and nobody was told
  shifted,   \* history: a lot was withdrawn during the walk
  changes, faults

scanVars == <<pc, page, ids, offset, todo>>
histories == <<listed, partial, shifted>>
vars == <<site, active, stopped, scanVars, histories, changes, faults>>

\* LIMIT n OFFSET o over S, newest first; the same cuts the pages of the site.
Newer(S, l) == {k \in S : k > l}
Slice(S, o, n) == {l \in S : Cardinality(Newer(S, l)) \in o..(o + n - 1)}

Init ==
  /\ site \in SUBSET Lot /\ active \in SUBSET Lot
  /\ stopped = FALSE
  /\ pc = "idle" /\ page = 1 /\ ids = {} /\ offset = 0 /\ todo = {}
  /\ listed = {} /\ partial = FALSE /\ shifted = FALSE
  /\ changes = 0 /\ faults = 0

-----------------------------------------------------------------------------
(* The donor, and the other writer of the lots.                            *)

Change == changes < MaxChanges /\ changes' = changes + 1
Fault == faults < MaxFaults /\ faults' = faults + 1

\* The lots below a new one move towards later pages.
Publish(l) ==
  /\ l \notin site /\ Change
  /\ site' = site \cup {l}
  /\ UNCHANGED <<active, stopped, scanVars, histories, faults>>

\* The lots below a withdrawn one move up, maybe to a page read already.
Withdraw(l) ==
  /\ l \in site /\ Change
  /\ site' = site \ {l}
  /\ shifted' = (shifted \/ pc = "walk")
  /\ UNCHANGED <<active, stopped, scanVars, listed, partial, faults>>

\* An upsert stores a lot as active, whatever it was before.
Store(l) ==
  /\ l \in site \ active
  /\ active' = active \cup {l}
  /\ UNCHANGED <<site, stopped, scanVars, histories, changes, faults>>

-----------------------------------------------------------------------------
(* run_once: the walk.                                                     *)

\* Without a region there is nothing to do; regions are configured here.
StartScan ==
  /\ pc = "idle" /\ ~stopped
  /\ pc' = "walk" /\ page' = 1 /\ ids' = {}
  /\ listed' = site /\ partial' = FALSE /\ shifted' = FALSE
  /\ UNCHANGED <<site, active, stopped, offset, todo, changes, faults>>

PageRows == Slice(site, (page - 1) * PerPage, PerPage)

\* The donor renders rows the parser cannot read only by mistake.
Unread(rows) ==
  /\ partial' = (partial \/ rows # PageRows)
  /\ faults' = IF rows = PageRows THEN faults ELSE faults + 1
  /\ faults' <= MaxFaults

FetchPage ==
  /\ pc = "walk" /\ ~stopped /\ page <= PageLimit
  /\ \E shape \in [PageRows -> RowShape] :
       /\ "rows" \in Verdicts(ReadRows(shape))
       /\ Unread(ReadRows(shape))
       /\ ids' = ids \cup ReadRows(shape)
  /\ page' = page + 1
  /\ UNCHANGED <<site, active, stopped, pc, offset, todo, listed, shifted, changes>>

\* Mutant: the first batch starts behind the newest lot.
WalkEnds_FromOne ==
  /\ pc' = IF ids = {} THEN "idle" ELSE "batch"
  /\ offset' = 1
  /\ UNCHANGED <<site, active, stopped, page, ids, todo, listed, shifted, changes>>

\* However iterate() returned, pagination_completed is set; only an empty
\* set of ids aborts the scan.
WalkEnds ==
  /\ pc' = IF ids = {} THEN "idle" ELSE "batch"
  /\ offset' = 0
  /\ UNCHANGED <<site, active, stopped, page, ids, todo, listed, shifted, changes>>

\* A page of which no row was read ends the catalogue.
WalkCompletes ==
  /\ pc = "walk" /\ ~stopped /\ page <= PageLimit
  /\ \E shape \in [PageRows -> RowShape] :
       /\ "end" \in Verdicts(ReadRows(shape))
       /\ Unread(ReadRows(shape))
  /\ WalkEnds

\* A failed request, or a page that does not parse: iterate() was not asked to
\* raise and returns.
FetchFails ==
  /\ pc = "walk" /\ ~stopped /\ page <= PageLimit
  /\ "failed" \in Verdicts(PageRows)
  /\ Fault
  /\ WalkEnds
  /\ partial' = (partial \/ ids # {})

WalkReachesLimit ==
  /\ pc = "walk" /\ ~stopped /\ page > PageLimit
  /\ WalkEnds
  /\ partial' = TRUE
  /\ UNCHANGED faults

WalkStops ==
  /\ pc = "walk" /\ stopped
  /\ WalkEnds
  /\ UNCHANGED <<partial, faults>>

\* Mutant: the pages read so far are taken for the catalogue.
SessionExpires_KeepsIds ==
  /\ pc = "walk" /\ ~stopped /\ page <= PageLimit
  /\ "expired" \in Verdicts(PageRows)
  /\ Fault
  /\ WalkEnds
  /\ UNCHANGED partial

\* The exception unwinds past the assignment of region_ids: nothing was seen.
SessionExpires ==
  /\ pc = "walk" /\ ~stopped /\ page <= PageLimit
  /\ "expired" \in Verdicts(PageRows)
  /\ Fault
  /\ pc' = "idle" /\ ids' = {}
  /\ UNCHANGED <<site, active, stopped, page, offset, todo, histories, changes>>

-----------------------------------------------------------------------------
(* _process_batches                                                        *)

\* Mutant: the stop event is not looked at before a batch.
ReadBatch_NoStop ==
  /\ pc = "batch"
  /\ Slice(active, offset, BatchSize) # {}
  /\ todo' = Slice(active, offset, BatchSize) \ ids
  /\ pc' = "mark"
  /\ UNCHANGED <<site, active, stopped, page, ids, offset, histories, changes,
                 faults>>

\* mark_seen of the others only touches their timestamps.
ReadBatch ==
  /\ pc = "batch" /\ ~stopped
  /\ Slice(active, offset, BatchSize) # {}
  /\ todo' = Slice(active, offset, BatchSize) \ ids
  /\ pc' = "mark"
  /\ UNCHANGED <<site, active, stopped, page, ids, offset, histories, changes,
                 faults>>

MarkInactive(l) ==
  /\ pc = "mark" /\ l \in todo /\ Newer(todo, l) = {}
  /\ active' = active \ {l}
  /\ todo' = todo \ {l}
  /\ UNCHANGED <<site, stopped, pc, page, ids, offset, histories, changes, faults>>

EndBatch ==
  /\ pc = "mark" /\ todo = {}
  /\ offset' = offset + BatchSize
  /\ pc' = IF stopped THEN "idle" ELSE "batch"
  /\ UNCHANGED <<site, active, stopped, page, ids, todo, histories, changes, faults>>

ScanEnds ==
  /\ pc' = "idle"
  /\ UNCHANGED <<site, active, stopped, page, ids, offset, histories, changes>>

FinishScan ==
  /\ pc = "batch" /\ ~stopped
  /\ Slice(active, offset, BatchSize) = {}
  /\ ScanEnds /\ UNCHANGED <<todo, faults>>

BatchesStop ==
  /\ pc = "batch" /\ stopped
  /\ ScanEnds /\ UNCHANGED <<todo, faults>>

\* The database refuses a statement and run_forever catches the exception, or
\* the process is killed: nothing of a scan is kept.
Crash ==
  /\ pc # "idle"
  /\ Fault
  /\ ScanEnds /\ todo' = {}

Stop ==
  /\ ~stopped /\ Fault
  /\ stopped' = TRUE
  /\ UNCHANGED <<site, active, scanVars, histories, changes>>

\* The next process, after the scheduler has left its loop.
Restart ==
  /\ stopped /\ pc = "idle"
  /\ stopped' = FALSE
  /\ UNCHANGED <<site, active, scanVars, histories, changes, faults>>

ScanStep ==
  \/ StartScan \/ FetchPage \/ WalkCompletes \/ WalkReachesLimit \/ WalkStops
  \/ ReadBatch \/ (\E l \in Lot : MarkInactive(l)) \/ EndBatch
  \/ FinishScan \/ BatchesStop

Next ==
  \/ \E l \in Lot : Publish(l) \/ Withdraw(l) \/ Store(l)
  \/ ScanStep \/ FetchFails \/ SessionExpires \/ Crash \/ Stop \/ Restart

\* The scheduler wakes up every day, and somebody starts the program again.
Fairness == WF_vars(ScanStep) /\ WF_vars(Restart)

Spec == Init /\ [][Next]_vars
FairSpec == Spec /\ Fairness
-----------------------------------------------------------------------------
(* Properties.                                                             *)

\* Every variable keeps its type, and the walk its bound.
TypeOK ==
  /\ site \subseteq Lot /\ active \subseteq Lot /\ stopped \in BOOLEAN
  /\ pc \in {"idle", "walk", "batch", "mark"}
  /\ page \in 1..(PageLimit + 1) /\ offset \in Nat
  /\ ids \subseteq Lot /\ todo \subseteq Lot
  /\ listed \subseteq Lot /\ partial \in BOOLEAN /\ shifted \in BOOLEAN
  /\ changes \in 0..MaxChanges /\ faults \in 0..MaxFaults

\* full_scan.py:259-274, 449-467: a scan whose pages were all read, with no
\* withdrawal among them, never marks a lot that has been on the site all along:
\* not when lots are published between two pages, not when the first page
\* fails, the session expires or the program is stopped half-way, and not when
\* an outage answers with a page of its own, which ends no catalogue.
CleanScanIsRight ==
  [][\A l \in active \ active' :
       ~partial /\ ~shifted => l \notin listed \cap site']_vars

\* full_scan.py:1-5: the daily scans get rid of every lot that is gone for
\* good, although one scan may pass over it.
GoneIsMarked ==
  \A l \in Lot : <>[](l \notin site /\ site # {}) => <>[](l \notin active)

-----------------------------------------------------------------------------
(* A promise of a comment.                                                 *)

\* full_scan.py:331-334 "the id-set is partial and must NOT be used for
\* mass-deactivation"
PartialWalkNeverMarks == [][active \ active' # {} => ~partial]_vars
=============================================================================
