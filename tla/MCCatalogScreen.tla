---------------------------- MODULE MCCatalogScreen ----------------------------
(***************************************************************************)
(* Two administrators over a small catalog for TLC: two countries, two     *)
(* types, and a country that may be created.  The relations are stored in  *)
(* another order than their ids.                                           *)
(***************************************************************************)
EXTENDS CatalogScreen, TLC

MCNodeKind == <<"country", "country", "type", "type", "country">>
MCNodes == DOMAIN MCNodeKind
MCEdgeIds == 1..3

CountryType(from, to, position) ==
    [kind |-> "CountryTypeEdge", from |-> from, to |-> to, position |-> position]
MCInitialRows == <<CountryType(1, 3, 1), CountryType(1, 4, 0)>>

Published(name) == [name |-> name, status |-> "published"]
MCInitialNodes == [n \in MCNodes |-> IF n = 5 THEN None ELSE Published("a")]

\* A country's list and the one it goes to when it is no longer published.
MCFilters == {"country"} \X {"published", "draft"}

Symmetry == Permutations(Admins)
=============================================================================
