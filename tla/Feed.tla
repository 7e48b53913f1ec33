------------------------------- MODULE Feed -------------------------------
(***************************************************************************)
(* One tab on the main page: the first page of the feed (GET /), the pages *)
(* that "load more" appends (GET /feed/more), the filter form              *)
(* (POST /filters/view and /filters/clear) and the cards that the event    *)
(* stream inserts between them (GET /events, the lot.new handler of        *)
(* web/static/app.js), over a table of lots that the monitor and the       *)
(* backfill fill and that full scans thin out.                             *)
(*                                                                         *)
(* A request is two steps: the server reads the table, the browser swaps   *)
(* the answer in; anything may happen between them.  The queue of the      *)
(* stream never overflows here: that is ThreadEventBus's subject.          *)
(***************************************************************************)
EXTENDS LotQuery

CONSTANTS Filters,        \* the filters the form can send
          MaxPending,     \* bound: events on their way to the tab
          Toggles         \* bound: changes of the subscriptions

ASSUME FeedAssumption ==
    /\ NoFilter \in Filters
    /\ \A vf \in Filters : vf = ViewFilter(vf.subjects, vf.area_min, vf.area_max) /\ Consistent(vf)
    /\ MaxPending \in Nat \ {0} /\ Toggles \in Nat

VARIABLES status,       \* lots: "absent", "active" or "inactive", per lot
          subs,         \* region_subscriptions
          toggles,      \* how often the subscriptions changed
          cookie,       \* view_filters, NoFilter when there is none
          cards,        \* the cards of section#feed-zone-list, in order
          cursor,       \* of #load-more-trigger, None without one
          req,          \* the request in flight
          stream,       \* the EventSource: closed, or the snapshots of its filter
          pending,      \* lot.new on its way on this stream
          last,         \* the bus's replay slot for lot.new
          late,         \* history: cards the stream put below what pages reach later
          owed          \* history: lots this page must come to show

tab == <<cookie, cards, cursor, req>>
db == <<status, subs, toggles>>
feed == <<tab, db, stream, pending, last, late, owed>>

Active == {l \in Lot : status[l] = "active"}
Shown(vf) == Where(LotFilters(vf), Active, subs)
OnPage == ToSet(cards)

Idle == [kind |-> "none"]
Closed == [open |-> FALSE]
Open(vf, ids) == [open |-> TRUE, vf |-> vf, ids |-> ids]
Event(l, backfill) == [lot |-> l, is_backfill |-> backfill]
Lots(events) == {e.lot : e \in ToSet(events)}

\* Types; the trigger's cursor is a lot the page shows, and nothing is on its
\* way on a stream that is closed.
FeedTypeOK ==
    /\ status \in [Lot -> {"absent", "active", "inactive"}]
    /\ subs \subseteq Catalog /\ toggles \in 0 .. Toggles
    /\ cookie \in Filters
    /\ OnPage \subseteq Lot /\ cursor \in OnPage \cup {None}
    /\ req.kind \in {"none", "page", "more"}
    /\ stream = Closed \/ (stream.vf \in Filters /\ stream.ids \subseteq Catalog)
    /\ Lots(pending) \subseteq Lot /\ Len(pending) <= MaxPending
    /\ ~stream.open => pending = <<>>
    /\ late \subseteq Lot /\ owed \subseteq Lot

------------------------------------------------------------------------------
(* The table and the bus                                                   *)

\* SseStreamer.stream yields what its event_filter lets through.
Streamed(l) == stream.open /\ EventFilter(l, stream.vf, stream.ids)

\* upsert inserts a row, and the cycle (through BrowserSseNotifier) or the
\* backfill publishes it.  An open stream gets it if its filter lets it
\* through; the bus keeps it for streams that connect within the TTL.  What
\* passes a stream and belongs to the page, the page owes from now on.
Store(l, backfill) ==
    /\ status[l] = "absent"
    /\ status' = [status EXCEPT ![l] = "active"]
    /\ Streamed(l) => Len(pending) < MaxPending
    /\ pending' = IF Streamed(l) THEN Append(pending, Event(l, backfill)) ELSE pending
    /\ owed' = owed \cup (IF Streamed(l) /\ req.kind # "page"
                          THEN {l} \cap Where(LotFilters(cookie), Active \cup {l}, subs) ELSE {})
    /\ last' = Event(l, backfill)
    /\ UNCHANGED <<tab, subs, toggles, stream, late>>

\* mark_inactive: the card stays where it is, a page read later leaves it out.
MarkInactive(l) ==
    /\ status[l] = "active"
    /\ status' = [status EXCEPT ![l] = "inactive"]
    /\ owed' = owed \ {l}
    /\ req' = IF req.kind = "page" THEN [req EXCEPT !.owes = @ \ {l}] ELSE req
    /\ UNCHANGED <<cookie, cards, cursor, subs, toggles, stream, pending, last, late>>

\* upsert updates a row: the lot is active again and nothing is published.
Reactivate(l) ==
    /\ status[l] = "inactive"
    /\ status' = [status EXCEPT ![l] = "active"]
    /\ UNCHANGED <<tab, subs, toggles, stream, pending, last, late, owed>>

\* The settings page subscribes to a region or leaves it (add, delete).
Toggle(r) ==
    /\ toggles < Toggles
    /\ subs' = IF r \in subs THEN subs \ {r} ELSE subs \cup {r}
    /\ toggles' = toggles + 1
    /\ owed' = owed \cap Where(LotFilters(cookie), Active, subs')
    /\ UNCHANGED <<tab, status, stream, pending, last, late>>

------------------------------------------------------------------------------
(* Pages                                                                   *)

\* build_feed_context: the first page under a filter.
FirstPage(vf) == Search(LotFilters(vf), Active, subs, None)

PageRequest(vf) == [kind |-> "page", vf |-> vf, answer |-> FirstPage(vf), owes |-> Shown(vf)]

\* The program starts with an empty table, the user opens the page.
FeedInit ==
    /\ status = [l \in Lot |-> "absent"] /\ subs = Catalog /\ toggles = 0
    /\ cookie = NoFilter
    /\ cards = <<>> /\ cursor = None /\ req = PageRequest(NoFilter)
    /\ stream = Closed /\ pending = <<>> /\ last = None
    /\ late = {} /\ owed = {}

\* GET /: the old document, and its stream, are gone; the handler reads the
\* filter from the cookie.
FeedPage ==
    /\ req.kind # "page"
    /\ req' = PageRequest(cookie)
    /\ cards' = <<>> /\ cursor' = None
    /\ stream' = Closed /\ pending' = <<>>
    /\ late' = {} /\ owed' = {}
    /\ UNCHANGED <<db, cookie, last>>

\* POST /filters/view, and /filters/clear, which is the same with NoFilter.
\* The answer of a "load more" that is still on its way will find its
\* trigger swapped out, and is lost.
PostViewFilters(vf) ==
    /\ req.kind # "page"
    /\ req' = PageRequest(vf)
    /\ UNCHANGED <<db, cookie, cards, cursor, stream, pending, last, late, owed>>

\* app.js answers filter-changed by taking sse-connect off #sse-root, putting
\* it back and calling htmx.process.  The element has then the attributes it
\* had, in the order it had them; htmx 1.9.12 compares their hash with the
\* one of the last initialisation (initHash) and does nothing.  The
\* EventSource, and the filter the server closed over, stay.
AfterFilterChanged(s) == s

\* The browser swaps #feed-wrapper, or shows the new document, and stores the
\* cookie.  Cards the stream had put into the old section are gone; events
\* still on their way go into the new one.
SwapPage ==
    /\ req.kind = "page"
    /\ cookie' = req.vf
    /\ cards' = req.answer.items /\ cursor' = req.answer.next_cursor
    /\ req' = Idle
    /\ stream' = AfterFilterChanged(stream)
    /\ late' = {}
    /\ owed' = (req.owes \cup Lots(pending)) \cap Shown(req.vf)
    /\ UNCHANGED <<db, pending, last>>

\* GET /feed/more with the cursor of the trigger and the filter of the cookie.
FeedMore ==
    /\ req = Idle /\ cursor # None
    /\ req' = [kind |-> "more", answer |-> Search(LotFilters(cookie), Active, subs, cursor)]
    /\ UNCHANGED <<db, cookie, cards, cursor, stream, pending, last, late, owed>>

\* The partial replaces the trigger, which is the last child of the section.
SwapMore ==
    /\ req.kind = "more"
    /\ cards' = cards \o req.answer.items
    /\ cursor' = req.answer.next_cursor
    /\ req' = Idle
    /\ UNCHANGED <<db, cookie, stream, pending, last, late, owed>>

------------------------------------------------------------------------------
(* The stream                                                              *)

\* GET /events: both filters are snapshots of this moment.  The bus replays
\* the last lot.new if it is recent, and the filter applies to it as well.
Connect(replayed) ==
    /\ ~stream.open /\ req.kind # "page"
    /\ stream' = Open(cookie, subs)
    /\ replayed => last # None
    /\ pending' = IF replayed /\ EventFilter(last.lot, cookie, subs) THEN <<last>> ELSE <<>>
    /\ UNCHANGED <<tab, db, last, late, owed>>

\* Mutant: the queue of the old subscription outlives the connection.
Disconnect_KeepsQueue ==
    /\ stream.open
    /\ stream' = Closed
    /\ UNCHANGED <<tab, db, pending, last, late, owed>>

\* The connection breaks, or the bus cut a slow subscriber off: what was on
\* its way is lost, and the EventSource connects again.
Disconnect ==
    /\ stream.open
    /\ stream' = Closed /\ pending' = <<>>
    /\ owed' = owed \ Lots(pending)
    /\ UNCHANGED <<tab, db, last, late>>

\* Mutant: _findInsertBefore looks at the date alone.
InsertLive_DateOnly(l) ==
    LET older == {i \in 1 .. Len(cards) : DateOf[l] > DateOf[cards[i]]}
        at == IF older = {} THEN Len(cards) + 1 ELSE CHOOSE i \in older : \A j \in older : i <= j
    IN  SubSeq(cards, 1, at - 1) \o <<l>> \o SubSeq(cards, at, Len(cards))

\* _findInsertBefore: in front of the first card that is older, else at the
\* end, before the trigger.
InsertLive(l) ==
    LET older == {i \in 1 .. Len(cards) : Before(l, cards[i])}
        at == IF older = {} THEN Len(cards) + 1 ELSE CHOOSE i \in older : \A j \in older : i <= j
    IN  SubSeq(cards, 1, at - 1) \o <<l>> \o SubSeq(cards, at, Len(cards))

\* The card of a backfill goes to the end whatever its date.
Insert(e) == IF e.is_backfill THEN Append(cards, e.lot) ELSE InsertLive(e.lot)

\* The lot.new handler.  A lot that has a card already is dropped: a replay,
\* or a lot that a page brought first.  A card that a later page brings
\* again, and one out of its place, is late.
Deliver ==
    /\ pending # <<>> /\ stream.open
    /\ LET e == Head(pending)
       IN  /\ IF e.lot \in OnPage
              THEN UNCHANGED <<cards, late>>
              ELSE /\ cards' = Insert(e)
                   /\ late' = IF e.is_backfill \/ (cursor # None /\ Before(cursor, e.lot))
                              THEN late \cup {e.lot} ELSE late
    /\ pending' = Tail(pending)
    /\ UNCHANGED <<cookie, cursor, req, db, stream, last, owed>>

FeedNext ==
    \/ \E l \in Lot, backfill \in BOOLEAN : Store(l, backfill)
    \/ \E l \in Lot : MarkInactive(l) \/ Reactivate(l)
    \/ \E r \in Catalog : Toggle(r)
    \/ FeedPage \/ (\E vf \in Filters : PostViewFilters(vf)) \/ SwapPage
    \/ FeedMore \/ SwapMore
    \/ (\E replayed \in BOOLEAN : Connect(replayed)) \/ Disconnect \/ Deliver

FeedSpec == FeedInit /\ [][FeedNext]_feed

------------------------------------------------------------------------------
(* Properties                                                              *)

\* The page is in the order of the table and no lot is on it twice, however
\* pages and live cards interleave, as long as no card came late: keyset
\* pages of search and _findInsertBefore agree on one order, ties included,
\* and the handler drops what a page brought first.  Pinning, which moves a
\* card to the top of its zone in this one tab (app.js), is not modelled.
CardsInOrder ==
    late = {} => \A i, j \in 1 .. Len(cards) : i < j => Before(cards[i], cards[j])

\* Nothing owed is lost.  A page owes every lot its first page could have
\* reached when it was read, and every lot stored since that its stream let
\* through; when the last page is loaded and nothing is on its way, each of
\* them that still belongs here has its card: the cursor of search skips
\* none, the swap of /feed/more and the cards of the stream do not undo
\* each other.
NothingLost ==
    cursor = None /\ req = Idle /\ pending = <<>> => owed \subseteq OnPage

\* The stream and the SQL read one filter alike: for a stream whose snapshots
\* are up to date, an active lot of known area passes make_sse_view_filter and
\* make_sse_membership_filter exactly when _build_where selects it, if the
\* filter names no subject the catalogue does not have.
StreamMirrorsFeed ==
    stream.open /\ stream.ids = subs /\ stream.vf.subjects \subseteq Catalog =>
        \A l \in Active : AreaOf[l] # None =>
            (EventFilter(l, stream.vf, stream.ids) <=> l \in Shown(stream.vf))
==============================================================================
