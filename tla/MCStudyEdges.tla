----------------------------- MODULE MCStudyEdges -----------------------------
(***************************************************************************)
(* A small catalog for TLC.  Node 1 is a type whose id sorts before those  *)
(* of countries 2 and 3, so that source locks and foreign key locks can    *)
(* cross; node 9 does not exist.                                           *)
(***************************************************************************)
EXTENDS StudyEdges

MCNodeKind == <<"type", "country", "country", "type", "type", "university">>
MCNodes == DOMAIN MCNodeKind
MCNodeIds == MCNodes \cup {9}
MCEdgeIds == 1..5
MCPositions == {0, 1, 5}

CountryType(from, to, position) ==
    [kind |-> "CountryTypeEdge", from |-> from, to |-> to, position |-> position]

MCInitialEdges ==
    <<CountryType(2, 1, 0),
      CountryType(2, 4, 1),
      [kind |-> "TypeUniversityEdge", from |-> 1, to |-> 6, position |-> 0]>>

CreateRequest(e, from, to, position) ==
    [op |-> "create", edge |-> e, kind |-> "CountryTypeEdge",
     from |-> from, to |-> to, position |-> position]
UpdateRequest(e, from, to, position) ==
    [op |-> "update", edge |-> e, kind |-> "CountryTypeEdge",
     from |-> from, to |-> to, position |-> position]
RemoveRequest(e) ==
    [op |-> "remove", edge |-> e, kind |-> "CountryTypeEdge",
     from |-> 2, to |-> 1, position |-> 0]

MCRequests ==
    {CreateRequest(4, 2, 5, 0),   \* a third sibling under country 2
     CreateRequest(5, 3, 1, 5),   \* beyond the end, and what a move also makes
     UpdateRequest(1, 3, 1, 0),   \* to the other country
     UpdateRequest(1, 2, 1, 1),   \* down inside its group, or back into it
     UpdateRequest(2, 3, 4, 1),
     UpdateRequest(3, 3, 6, 0),   \* a type's edge under a country: misplaced
     RemoveRequest(1)}
=============================================================================
