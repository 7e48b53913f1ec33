----------------------------- MODULE LotQuery -----------------------------
(***************************************************************************)
(* The feed's two readings of a view filter: the SQL that LotQueryService  *)
(* builds for a page of the feed (services/lot_query.py, with the          *)
(* adapter of web/feed_context.py) and the predicate that GET /events      *)
(* closes over for a stream (services/sse_view_filter.py).  Both are pure; *)
(* Feed puts them to work on one table of lots.                            *)
(*                                                                         *)
(* A lot is its id.  Its date, region and area never change here: a row    *)
(* of the list keeps them unless the cadastre itself is corrected.         *)
(***************************************************************************)
EXTENDS Naturals, Sequences, FiniteSets, SequencesExt

CONSTANTS Lot,        \* the ids, numbers: the second half of the sort key
          DateOf,     \* date_create of each, a number; ties are usual
          RegionOf,   \* region_id of each, or None
          AreaOf,     \* area_sqm of each, or None
          Catalog,    \* the site ids of SUBJECT_TITLE_BY_ID
          PageSize,   \* _FEED_PAGE_SIZE (200)
          None

ASSUME LotQueryAssumption ==
    /\ Lot \subseteq Nat /\ IsFiniteSet(Lot)
    /\ DateOf \in [Lot -> Nat]
    /\ RegionOf \in [Lot -> Catalog \cup {None}]
    /\ PageSize \in Nat \ {0}
    /\ None \notin Lot /\ None \notin Catalog

\* A ViewFilters: subjects the cookie names, which may be ids the catalogue
\* has dropped since, and two bounds, each possibly None.
ViewFilter(subjects, min, max) == [subjects |-> subjects, area_min |-> min, area_max |-> max]

NoFilter == ViewFilter({}, None, None)

\* The model validator: a range with its ends the wrong way is a 422 in
\* POST /filters/view and an unreadable cookie elsewhere.
Consistent(vf) == vf.area_min # None /\ vf.area_max # None => vf.area_min <= vf.area_max

------------------------------------------------------------------------------
(* GET / , POST /filters/view and GET /feed/more: SQL                      *)

\* _view_filters_to_lot_filters: an id the catalogue does not know has no
\* display name and is dropped, so that only unknown ids restrict nothing.
LotFilters(vf) == [vf EXCEPT !.subjects = @ \cap Catalog]

\* A comparison with NULL is not true in SQL.
AtLeast(area, bound) == bound = None \/ (area # None /\ area >= bound)
AtMost(area, bound) == bound = None \/ (area # None /\ area <= bound)

\* _build_where for the feed (filter_subscribed_subjects always set, neither
\* status nor cutoff): the active lots of the subjects and the range, in a
\* subscribed region or in none.
Where(filters, active, subscribed) ==
    {l \in active : /\ filters.subjects # {} => RegionOf[l] \in filters.subjects
                    /\ AtLeast(AreaOf[l], filters.area_min)
                    /\ AtMost(AreaOf[l], filters.area_max)
                    /\ RegionOf[l] = None \/ RegionOf[l] \in subscribed}

\* ORDER BY date_create DESC, id DESC.
Before(l, k) == DateOf[l] > DateOf[k] \/ (DateOf[l] = DateOf[k] /\ l > k)

\* The rows in that order.
Ordered(rows) ==
    CHOOSE s \in [1 .. Cardinality(rows) -> rows] :
        \A i, j \in 1 .. Cardinality(rows) : i < j => Before(s[i], s[j])

\* Mutant: a keyset on the date alone, which skips the rest of a day.
AfterCursor_DateOnly(l, cursor) == cursor = None \/ DateOf[cursor] > DateOf[l]

\* The keyset condition of _build_query: strictly after the cursor, which is
\* the (date, id) of the last lot of the page before it.
AfterCursor(l, cursor) == cursor = None \/ Before(cursor, l)

\* search: a page of the ordered rows, asked for with one row more to know
\* whether another page follows.
Search(filters, active, subscribed, cursor) ==
    LET rows == Ordered({l \in Where(filters, active, subscribed) : AfterCursor(l, cursor)})
        more == Len(rows) > PageSize
        items == IF more THEN SubSeq(rows, 1, PageSize) ELSE rows
    IN  [items |-> items, next_cursor |-> IF more THEN Last(items) ELSE None]

\* count: the same rows without cursor and limit.
Count(filters, active, subscribed) == Cardinality(Where(filters, active, subscribed))

------------------------------------------------------------------------------
(* GET /events: the predicate of a stream                                  *)

\* Mutant: a lot without region is in no subscribed one.
Membership_NoRegion(l, subscribed_ids) == RegionOf[l] \in subscribed_ids

\* make_sse_membership_filter over the ids snapshotted at connection.
Membership(l, subscribed_ids) == RegionOf[l] = None \/ RegionOf[l] \in subscribed_ids

\* make_sse_view_filter.  An area not known yet passes both bounds; an id
\* the catalogue does not know stays in the set and matches no lot.
ViewPasses(l, vf) ==
    /\ vf.subjects # {} => RegionOf[l] # None /\ RegionOf[l] \in vf.subjects
    /\ vf.area_min # None /\ AreaOf[l] # None => AreaOf[l] >= vf.area_min
    /\ vf.area_max # None /\ AreaOf[l] # None => AreaOf[l] <= vf.area_max

\* _build_event_filter composes the two.
EventFilter(l, vf, subscribed_ids) == Membership(l, subscribed_ids) /\ ViewPasses(l, vf)
==============================================================================
