------------------------------ MODULE MCFeed ------------------------------
(* A small table: two lots of one day, an older lot with the largest id    *)
(* (historical lots get late ids), one without region, one without area.   *)
EXTENDS Feed

MCLot == 1 .. 3
MCDateOf == <<2, 2, 1>>
MCRegionOf == <<"murmansk", "karelia", None>>
MCAreaOf == <<5, None, 9>>
MCCatalog == {"murmansk", "karelia"}
MCFilters == {NoFilter, ViewFilter({"murmansk", "dropped"}, None, None), ViewFilter({}, 9, 9)}
==============================================================================
