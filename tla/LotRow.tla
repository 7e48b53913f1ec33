-------------------------------- MODULE LotRow --------------------------------
(***************************************************************************)
(* The row of one lot and what hangs on it: the point in lots_rtree and    *)
(* the lines of lots_history (infra/sqlite/repositories/lots.py,           *)
(* domain/diff.py).  Every writer replaces the whole row in one            *)
(* transaction: the monitor cycle with what the detail page gave           *)
(* (services/enrichment.py, infra/parsers/detail_parser.py), the backfill  *)
(* with the list row alone, the full scan with the mark of inactivity.     *)
(* The orders these transactions come in are enumerated by Tables.         *)
(*                                                                         *)
(* Of the columns one stands for each way they are treated: status (so is  *)
(* area_sqm) is tracked and comes from the list, date_update (so is        *)
(* date_registry, untracked) from either page, the coordinates from the    *)
(* detail page.                                                            *)
(***************************************************************************)
EXTENDS ListPage, Sequences

CONSTANT WRITES       \* bound: transactions on the lot

ASSUME WritesAssumption == WRITES \in Nat

NULL == "NULL"

\* A list row may say monday, a detail page friday.  A page gives one of two
\* points, half a point or none.
NoPoint == <<NULL, NULL>>
Points == {<<"50.1", "127.5">>, <<"50.2", "127.5">>, <<"50.1", NULL>>, NoPoint}

-----------------------------------------------------------------------------
(* The two pages of a lot                                                  *)

\* parsed_row_to_lot: a lot as the list shows it, seen at a time.
ListedLots(now) ==
  {[status |-> s, date_update |-> d, latlon |-> NoPoint,
    is_active |-> TRUE, enrichment_status |-> "pending", first_seen |-> now] :
       s \in {"free", "taken"}, d \in {"monday", NULL}}

\* The detail page: without its main block it is no detail page, and a field that
\* is missing or does not match its pattern is None.
Detail == [latlon : Points, date_update : {"friday", NULL}]
DetailPages == [main : {TRUE}, detail : Detail]
               \cup [main : {FALSE}, detail : {[latlon |-> NoPoint, date_update |-> NULL]}]

\* _enrich_one: whatever the status of the response, its text is parsed.
enrich_one(lot, answer, doc) ==
  IF answer \in {"unreachable", "broken"} \/ ~doc.main
  THEN [lot EXCEPT !.enrichment_status = "failed"]
  ELSE [lot EXCEPT !.latlon = doc.detail.latlon,
                   !.date_update = IF doc.detail.date_update # NULL
                                   THEN doc.detail.date_update ELSE @,
                   !.enrichment_status = "done"]

EnrichedLots(now) ==
  {enrich_one(lot, answer, doc) :
     lot \in ListedLots(now), answer \in Answers, doc \in DetailPages}

-----------------------------------------------------------------------------
(* SqliteLotRepository                                                     *)

\* The tables, as far as one lot goes.  first is the row as it was inserted.
NoRow == [none |-> TRUE]
EmptyTables == [lot |-> NoRow, is_backfill |-> FALSE, geo |-> NoPoint,
                history |-> <<>>, first |-> NoRow]

\* DEFAULT_TRACKED_FIELDS.
TrackedFields == <<"status", "date_update", "is_active">>

\* The FieldChange of one field, if it changed.
Change(was, lot, f) ==
  IF was[f] = lot[f] THEN <<>>
  ELSE <<[field |-> f, old_value |-> was[f], new_value |-> lot[f]]>>

compute_changes(was, lot) ==
  Change(was, lot, TrackedFields[1]) \o Change(was, lot, TrackedFields[2])
  \o Change(was, lot, TrackedFields[3])

has_coords(point) == point[1] # NULL /\ point[2] # NULL

\* Mutant: a lot that has lost its coordinates keeps its point.
sync_geo_NoDelete(geo, old, new) == IF has_coords(new) THEN new ELSE geo

\* _sync_geo decides by the coordinates before and after, not by the table.
sync_geo(geo, old, new) ==
  CASE ~has_coords(new) -> IF has_coords(old) THEN NoPoint ELSE geo
    [] has_coords(new)  -> IF old = new THEN geo ELSE new

\* Mutant: an update takes the time of its own sight.
upsert_FirstSeenMoves(db, lot, backfill) ==
  IF db.lot = NoRow
  THEN [db EXCEPT !.lot = lot, !.is_backfill = backfill, !.first = lot,
                  !.geo = sync_geo(@, NoPoint, lot.latlon)]
  ELSE [db EXCEPT !.lot = lot,
                  !.history = @ \o compute_changes(db.lot, lot),
                  !.geo = sync_geo(@, db.lot.latlon, lot.latlon)]

upsert(db, lot, backfill) ==
  IF db.lot = NoRow
  THEN [db EXCEPT !.lot = lot, !.is_backfill = backfill, !.first = lot,
                  !.geo = sync_geo(@, NoPoint, lot.latlon)]
  ELSE [db EXCEPT !.lot = [lot EXCEPT !.first_seen = db.lot.first_seen],
                  !.history = @ \o compute_changes(db.lot, lot),
                  !.geo = sync_geo(@, db.lot.latlon, lot.latlon)]

\* Neither the point nor the history is touched.
mark_inactive(db) == [db EXCEPT !.lot.is_active = FALSE]

\* What the writers may make of the tables at a time.
Written(db, now) ==
  {upsert(db, lot, FALSE) : lot \in EnrichedLots(now)}
  \cup {upsert(db, lot, TRUE) : lot \in ListedLots(now)}
  \cup (IF db.lot = NoRow THEN {} ELSE {mark_inactive(db)})

\* The tables after that many transactions, in every order.
Tables[n \in 0..WRITES] ==
  IF n = 0 THEN {EmptyTables} ELSE UNION {Written(db, n) : db \in Tables[n - 1]}

-----------------------------------------------------------------------------
(* What the feed, the map and the history rely on.                         *)

\* The point is that of the row's coordinates, and there is none without both.
GeoMirrorsRow ==
  \A n \in 1..WRITES : \A db \in Tables[n] :
    db.geo = IF has_coords(db.lot.latlon) THEN db.lot.latlon ELSE NoPoint

\* What a field stood at after the first n lines of the history: the last of them
\* about it says so, or else the row as it was inserted.
StoodAt(db, field, n, value) ==
  \/ /\ \A i \in 1..n : db.history[i].field # field
     /\ value = db.first[field]
  \/ \E i \in 1..n : /\ db.history[i].field = field /\ db.history[i].new_value = value
                     /\ \A j \in 1..n : j > i => db.history[j].field # field

\* A lot's history leads from its insertion to its row without a gap, and the time
\* of its discovery stays.
PastIsKept ==
  \A n \in 1..WRITES : \A db \in Tables[n] :
    /\ \A field \in {"status", "date_update"} :
         /\ \A i \in 1..Len(db.history) :
              db.history[i].field = field => StoodAt(db, field, i - 1, db.history[i].old_value)
         /\ StoodAt(db, field, Len(db.history), db.lot[field])
    /\ db.lot.first_seen = db.first.first_seen
=============================================================================
