------------------------------- MODULE Migrations -------------------------------
(***************************************************************************)
(* What the database of an older program turns into                        *)
(* (infra/sqlite/migrations*.py), beside what a new one starts as          *)
(* (docs/db/schema.sql).                                                   *)
(*                                                                         *)
(* A database is a record: version, the objects that came or went with a   *)
(* version, whether the notification rows have a status, the region_id of  *)
(* the lots that carry each region text, and the date of each row of       *)
(* region_subscriptions.  The numbering of regions changed twice: first    *)
(* macro-regions, then the site's own ids of the subjects, for the lots at *)
(* version 8 and for the subscriptions at version 10.                      *)
(***************************************************************************)
EXTENDS Naturals

CONSTANTS Macro,        \* macro-regions, in the order of SUBJECTS_BY_MACRO
          Subject,      \* subjects (site-ids) of the catalogue
          SubjectsBy,   \* SUBJECTS_BY_MACRO; two macros may share a subject
          Unknown,      \* a region text that is not in the catalogue
          NoRegion      \* region_id IS NULL

ASSUME RegionAssumption ==
  /\ Macro \subseteq Nat /\ Subject \subseteq Nat /\ Macro \cap Subject = {}
  /\ SubjectsBy \in [Macro -> SUBSET Subject]
  /\ Unknown \notin Nat /\ NoRegion \notin Nat

LATEST_SCHEMA_VERSION == 11

Title == Subject \cup {Unknown}

\* subject_id_by_title.
SiteOf(title) == IF title \in Subject THEN title ELSE NoRegion

MacrosOf(title) == {m \in Macro : title \in SubjectsBy[m]}

Least(S) == CHOOSE x \in S : \A y \in S : x <= y

\* name_to_macro: a shared subject keeps the first of its macros.
MacroOf(title) == IF MacrosOf(title) = {} THEN NoRegion ELSE Least(MacrosOf(title))

\* A row that is not there has date 0.
NoSubs == [r \in Macro \cup Subject |-> 0]
NoDates == [m \in Macro |-> 0]

-----------------------------------------------------------------------------
(* Ten migrations                                                          *)

\* The rebuild of notifications takes every old row for one sent.
V1toV2(d) == [d EXCEPT !.objects = @ \cup {"notifications.status", "smtp_host"},
                       !.sent = TRUE]

V2toV3(d) == [d EXCEPT !.objects = @ \cup {"smtp_from_name"}]

V3toV4(d) ==
  [d EXCEPT !.objects = @ \cup {"region_id", "region_subscriptions"},
            !.region_id = [t \in Title |-> MacroOf(t)]]

V4toV5(d) == [d EXCEPT !.objects = @ \cup {"date_registry"}]

V5toV6(d) == [d EXCEPT !.objects = @ \ {"starred"}]

\* Only where region_id IS NULL.
V6toV7(d) ==
  [d EXCEPT !.region_id = [t \in Title |-> IF @[t] = NoRegion THEN MacroOf(t) ELSE @[t]]]

\* Every row, whatever it has.
V7toV8(d) == [d EXCEPT !.region_id = [t \in Title |-> SiteOf(t)]]

V8toV9(d) == [d EXCEPT !.objects = @ \cup {"idx_lots_first_seen"}]

\* Mutant: INSERT OR IGNORE alone, and the first macro's date stays.
V9toV10_First(d) ==
  [d EXCEPT !.subs = [r \in Macro \cup Subject |->
     LET from == {m \in MacrosOf(r) : d.subs[m] # 0}
     IN CASE r \in Macro        -> 0
          [] d.subs[r] # 0      -> d.subs[r]
          [] from # {}          -> d.subs[Least(from)]
          [] OTHER              -> 0]]

\* INSERT OR IGNORE, MIN with the row that was there, and the macros' rows go.
V9toV10(d) ==
  [d EXCEPT !.subs = [r \in Macro \cup Subject |->
     LET dates == {d.subs[r]} \cup {d.subs[m] : m \in MacrosOf(r)}
     IN IF r \in Macro \/ dates \subseteq {0} THEN 0 ELSE Least(dates \ {0})]]

V10toV11(d) == [d EXCEPT !.objects = @ \cup {"is_backfill"}]

\* The registry: the migration that starts from version v.
Apply(v, d) ==
  CASE v = 1 -> V1toV2(d) [] v = 2 -> V2toV3(d) [] v = 3 -> V3toV4(d)
    [] v = 4 -> V4toV5(d) [] v = 5 -> V5toV6(d) [] v = 6 -> V6toV7(d)
    [] v = 7 -> V7toV8(d) [] v = 8 -> V8toV9(d) [] v = 9 -> V9toV10(d)
    [] v = 10 -> V10toV11(d)

\* _build_chain finds no migration from a version 0.
HasChain(d) == d.version \in 1..(LATEST_SCHEMA_VERSION - 1)

\* run_pending, the version last.
Migrated(d) ==
  LET after[v \in d.version..LATEST_SCHEMA_VERSION] ==
        IF v = d.version THEN d ELSE Apply(v - 1, after[v - 1])
  IN [after[LATEST_SCHEMA_VERSION] EXCEPT !.version = LATEST_SCHEMA_VERSION]

-----------------------------------------------------------------------------
(* docs/db/schema.sql                                                      *)

\* The notes on the versions: what came with which.
ObjectsAt(v) ==
  {"tables"}
  \cup (IF v >= 2 THEN {"notifications.status", "smtp_host"} ELSE {})
  \cup (IF v >= 3 THEN {"smtp_from_name"} ELSE {})
  \cup (IF v >= 4 THEN {"region_id", "region_subscriptions"} ELSE {})
  \cup (IF v >= 5 THEN {"date_registry"} ELSE {})
  \cup (IF v >= 6 THEN {} ELSE {"starred"})
  \cup (IF v >= 9 THEN {"idx_lots_first_seen"} ELSE {})
  \cup (IF v >= 11 THEN {"is_backfill"} ELSE {})

\* What the tables of the script hold.
SchemaObjects ==
  {"tables", "notifications.status", "smtp_host", "smtp_from_name", "region_id",
   "region_subscriptions", "date_registry", "idx_lots_first_seen", "is_backfill"}

Empty == [version |-> 0, objects |-> {}, sent |-> TRUE,
          region_id |-> [t \in Title |-> SiteOf(t)], subs |-> NoSubs]

\* The script's two parts: the stamp, and everything else.
Stamped(d) == [d EXCEPT !.version = LATEST_SCHEMA_VERSION]
Created(d) == [d EXCEPT !.objects = SchemaObjects]

\* What the program of version v has left behind: lots it could not place have
\* no region_id, and chosen macros were subscribed on their dates.
OldDatabase(v, placed, date) ==
  [version |-> v,
   objects |-> ObjectsAt(v),
   sent |-> v >= 2,
   region_id |-> [t \in Title |->
      IF v < 4 \/ (v < 8 /\ ~placed) THEN NoRegion
      ELSE IF v < 8 THEN MacroOf(t) ELSE SiteOf(t)],
   subs |-> [r \in Macro \cup Subject |->
      LET dates == {date[m] : m \in MacrosOf(r)} \ {0}
      IN IF v \in 4..9 /\ r \in Macro THEN date[r]
         ELSE IF v >= 10 /\ r \in Subject /\ dates # {} THEN Least(dates)
         ELSE 0]]
=============================================================================
