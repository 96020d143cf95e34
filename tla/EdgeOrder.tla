------------------------------ MODULE EdgeOrder ------------------------------
(***************************************************************************)
(* The ordered edge groups of the study catalog as pure operators on the   *)
(* study_edges table: what createEdge, updateEdge and removeEdge of        *)
(* repository.drizzle.ts compute from the rows they read.                  *)
(*                                                                         *)
(* A table is a function from the ids of its rows to the rows.  A group is *)
(* the set of edges with one source and one kind; `position` orders it.    *)
(* Ids stand for UUIDs: numbers, because siblings at equal positions and   *)
(* rows to lock are sorted by id.                                          *)
(***************************************************************************)
EXTENDS Integers, FiniteSets

CONSTANTS EdgeIds,   \* ids an edge can have
          NodeIds,   \* ids a request may name
          Nodes,     \* ids of the nodes that exist (nodes are never deleted)
          NodeKind,  \* kind of each existing node
          Positions  \* positions a request may ask for

EdgeKinds == {"CountryTypeEdge", "TypeUniversityEdge", "UniversityDegreeEdge",
              "UniversitySubjectEdge", "DegreeSubjectEdge"}

FromKind == [CountryTypeEdge       |-> "country",
             TypeUniversityEdge    |-> "type",
             UniversityDegreeEdge  |-> "university",
             UniversitySubjectEdge |-> "university",
             DegreeSubjectEdge     |-> "degree"]

ToKind == [CountryTypeEdge       |-> "type",
           TypeUniversityEdge    |-> "university",
           UniversityDegreeEdge  |-> "degree",
           UniversitySubjectEdge |-> "subject",
           DegreeSubjectEdge     |-> "subject"]

NodeKinds == {"country", "type", "university", "degree", "subject"}

ASSUME CatalogAssumption ==
    /\ EdgeIds \subseteq Nat
    /\ IsFiniteSet(EdgeIds)
    /\ NodeIds \subseteq Nat
    /\ Nodes \subseteq NodeIds
    /\ IsFiniteSet(Nodes)
    /\ NodeKind \in [Nodes -> NodeKinds]
    /\ Positions \subseteq Nat

Edge == [kind: EdgeKinds, from: Nodes, to: Nodes, position: Nat]

IsTable(t) == /\ DOMAIN t \subseteq EdgeIds
              /\ t \in [DOMAIN t -> Edge]

-----------------------------------------------------------------------------
(* Reading the table                                                       *)

Group(t, from, kind) ==
    {i \in DOMAIN t : t[i].from = from /\ t[i].kind = kind}

\* The rows of a group as a statement returns them: each id with its position.
Siblings(t, from, kind) == [i \in Group(t, from, kind) |-> t[i].position]

Without(s, e) == [i \in DOMAIN s \ {e} |-> s[i]]

\* Where id i comes in ORDER BY position, id.
IndexIn(s, i) ==
    Cardinality({j \in DOMAIN s : s[j] < s[i] \/ (s[j] = s[i] /\ j < i)})

EndpointsExist(from, to) == from \in Nodes /\ to \in Nodes

KindMismatch(kind, from, to) ==
    NodeKind[from] # FromKind[kind] \/ NodeKind[to] # ToKind[kind]

\* Another row than `self` holds the triple (kind, from, to).
Duplicate(t, kind, from, to, self) ==
    \E i \in DOMAIN t \ {self} :
        t[i].kind = kind /\ t[i].from = from /\ t[i].to = to

-----------------------------------------------------------------------------
(* Writing positions.  `s` holds the positions as they were read; a row is *)
(* updated only when the position read differs from the one it should get. *)

Compacted(t, s) ==
    [i \in DOMAIN t |->
        IF i \in DOMAIN s /\ s[i] # IndexIn(s, i)
        THEN [t[i] EXCEPT !.position = IndexIn(s, i)]
        ELSE t[i]]

SlotAfterInsert(s, i, p) ==
    IF IndexIn(s, i) >= p THEN IndexIn(s, i) + 1 ELSE IndexIn(s, i)

Shifted(t, s, p) ==
    [i \in DOMAIN t |->
        IF i \in DOMAIN s /\ s[i] # SlotAfterInsert(s, i, p)
        THEN [t[i] EXCEPT !.position = SlotAfterInsert(s, i, p)]
        ELSE t[i]]

\* Math.min(position, siblings.length).  A create without a position asks for
\* the end, which any position of at least the group's size does too.
InsertAt(s, requested) ==
    IF requested <= Cardinality(DOMAIN s)
    THEN requested ELSE Cardinality(DOMAIN s)

\* createEdge: make room among the siblings, then insert the row.
Inserted(t, e, kind, from, to, requested, siblings) ==
    LET p == InsertAt(siblings, requested)
        shifted == Shifted(t, siblings, p)
    IN  [i \in DOMAIN t \cup {e} |->
            IF i = e
            THEN [kind |-> kind, from |-> from, to |-> to, position |-> p]
            ELSE shifted[i]]

\* updateEdge: close the gap in the old group, make room in the new one,
\* then rewrite the row, which keeps its kind.
Moved(t, e, from, to, requested, oldSiblings, newSiblings) ==
    LET p == InsertAt(newSiblings, requested)
        shifted == Shifted(Compacted(t, Without(oldSiblings, e)), newSiblings, p)
    IN  [i \in DOMAIN t |->
            IF i = e
            THEN [kind |-> t[e].kind, from |-> from, to |-> to, position |-> p]
            ELSE shifted[i]]

\* Seeded defect: the gap stays.
RemovedLeavingGap(t, e, siblings) == [i \in DOMAIN t \ {e} |-> t[i]]

\* removeEdge: delete the row, then close the gap among the siblings left.
Removed(t, e, siblings) ==
    Compacted([i \in DOMAIN t \ {e} |-> t[i]], siblings)

\* The siblings updateEdge inserts among: in the same group, the rows already
\* read without the edge itself.
InsertionGroup(t, e, from, oldSiblings) ==
    IF t[e].from = from
    THEN Without(oldSiblings, e)
    ELSE Siblings(t, from, t[e].kind)

-----------------------------------------------------------------------------
(* What the positions of a group are for                                   *)

Dense(t, from, kind) ==
    {t[i].position : i \in Group(t, from, kind)} =
        0 .. (Cardinality(Group(t, from, kind)) - 1)

=============================================================================
