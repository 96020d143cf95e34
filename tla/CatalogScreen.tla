----------------------------- MODULE CatalogScreen -----------------------------
(***************************************************************************)
(* The study catalog's screen of the administrators' application           *)
(* (apps/admin/src/modules/study-catalog): each administrator's screen     *)
(* keeps in atoms what the queries answered, its buttons send requests     *)
(* made of what is shown, and an answered mutation has the atoms it        *)
(* concerns asked again.  Nothing else refreshes them.                     *)
(*                                                                         *)
(* The server takes the mutations one at a time: edges as in               *)
(* AtomicCatalog, which StudyEdges implements.  An atom is there while a   *)
(* component uses it, and is asked anew the next time.  Permissions are    *)
(* given, and a dialog offers any node of the kind it asks for.            *)
(***************************************************************************)
EXTENDS EdgeOrder

CONSTANTS Admins, None, Failed,
          Names,
          InitialRows, InitialNodes,
          Filters,       \* bound: what the list of nodes is filtered by
          MaxCalls,      \* bound: mutations
          MaxMoves       \* bound: selections, changes of tab or filter, and faults

VARIABLES stored,    \* the rows of study_edges
          node,      \* each node's name and status, None before its creation
          given,     \* ids edges have had
          screen,    \* what each screen is showing
          cache,     \* the atoms of each screen
          calls,     \* its mutations
          used,      \* mutations, and moves and faults, so far
          foreign    \* history: atoms changed by what the screen cannot know of

server == <<stored, node, given>>
browser == <<screen, cache, calls>>
screenVars == <<server, browser, used, foreign>>

Statuses == {"draft", "published", "archived"}
NodeRow == [name : Names, status : Statuses]

ASSUME ScreenAssumption ==
    /\ None # Failed /\ None \notin NodeRow
    /\ IsTable(InitialRows)
    /\ InitialNodes \in [Nodes -> NodeRow \cup {None}]
    /\ \A e \in DOMAIN InitialRows : LET row == InitialRows[e] IN
          /\ ~KindMismatch(row.kind, row.from, row.to)
          /\ InitialNodes[row.from] # None /\ InitialNodes[row.to] # None
    /\ Filters \subseteq NodeKinds \X Statuses
    /\ {MaxCalls, MaxMoves} \subseteq Nat

Catalog == INSTANCE AtomicCatalog WITH edges <- stored, InitialEdges <- InitialRows

-----------------------------------------------------------------------------
(* Queries *)

ListOf(kind, status) == <<"list", kind, status>>
Detail(n) == <<"node", n>>
Outgoing(n) == <<"outgoing", n>>
Incoming(n) == <<"incoming", n>>

IsRelations(x) == x[1] \in {"outgoing", "incoming"}
Parts(x) == IF IsRelations(x) THEN {"edges", "nodes"} ELSE {"rows"}

\* The end of an edge that a list of relations is about, and the other one.
Near(x, row) == IF x[1] = "outgoing" THEN row.from ELSE row.to
Far(x, row) == IF x[1] = "outgoing" THEN row.to ELSE row.from

Related(x) == {e \in DOMAIN stored : Near(x, stored[e]) = x[2]}
Listed(kind, status) ==
    {n \in Nodes : node[n] # None /\ NodeKind[n] = kind /\ node[n].status = status}

\* What the server answers to one request of a query.
Answer(x, part) ==
    CASE x[1] = "node" -> node[x[2]]
      [] x[1] = "list" -> [n \in Listed(x[2], x[3]) |-> node[n].name]
      [] part = "edges" -> [e \in Related(x) |-> stored[e]]
      [] part = "nodes" -> [n \in {Far(x, stored[e]) : e \in Related(x)} |-> node[n].name]

\* pairRelations: an edge whose node is not among the answer's is left out.
PairRelations(x, rows, names) ==
    [e \in {i \in DOMAIN rows : Far(x, rows[i]) \in DOMAIN names} |->
        [row |-> rows[e], name |-> names[Far(x, rows[e])]]]

Value(x, got) ==
    IF IsRelations(x) THEN PairRelations(x, got.edges, got.nodes) ELSE got.rows

Current(x) == Value(x, [part \in Parts(x) |-> Answer(x, part)])

-----------------------------------------------------------------------------
(* Atoms *)

\* `waiting` are the parts still to be answered.
Asked(x, shown) == [shown |-> shown, waiting |-> Parts(x), got |-> [p \in Parts(x) |-> None]]

Shows(c, x) == x \in DOMAIN c /\ c[x].shown \notin {None, Failed}

Relations(s) == IF s.tab = "outgoing" THEN Outgoing(s.selected) ELSE Incoming(s.selected)

\* The atoms that the components of a screen use.
Used(s, c) ==
    {ListOf(s.kind, s.status)} \cup
    (IF s.selected = None THEN {}
     ELSE {Detail(s.selected)} \cup
          (IF Shows(c, Detail(s.selected)) THEN {Relations(s)} ELSE {}))

Mounted(s, c) ==
    [x \in Used(s, c) |-> IF x \in DOMAIN c THEN c[x] ELSE Asked(x, None)]

Refreshed(c, xs) ==
    [x \in DOMAIN c |-> IF x \in xs THEN Asked(x, c[x].shown) ELSE c[x]]

Rows(a) == LET x == Relations(screen[a])
           IN  IF screen[a].selected # None /\ Shows(cache[a], x)
               THEN cache[a][x].shown ELSE << >>

-----------------------------------------------------------------------------
(* Mutations *)

\* The component that holds a mutation, and hears of its answer, is still there.
Hosted(call, s, c) ==
    CASE call.op = "create" -> TRUE
      [] call.op \in {"rename", "status"} -> s.selected = call.node
      [] call.op = "connect" ->
            s.selected = call.from /\ s.tab = "outgoing" /\ Shows(c, Relations(s))
      [] call.op \in {"update", "disconnect"} ->
            s.selected # None /\ Shows(c, Relations(s))
            /\ call.edge \in DOMAIN c[Relations(s)].shown

Left(cs, s, c) == {[call EXCEPT !.left = @ \/ ~Hosted(call, s, c)] : call \in cs}

\* The screen becomes s, with the atoms c and the mutations cs.
Becomes(a, s, c, cs) ==
    /\ screen' = [screen EXCEPT ![a] = s]
    /\ cache' = [cache EXCEPT ![a] = Mounted(s, c)]
    /\ calls' = [calls EXCEPT ![a] = Left(cs, s, Mounted(s, c))]

\* Seeded defect: the parent that an edge has left is not asked again.
RelationsUpdatedNow(call) == {Outgoing(call.from), Incoming(call.to)}

RelationsUpdated(call) == {Outgoing(call.previous), Outgoing(call.from), Incoming(call.to)}

\* The atoms an answered mutation has asked again.
Refreshes(call) ==
    CASE call.op = "create" -> {ListOf(call.kind, "draft")}
      [] call.op = "rename" -> {Detail(call.node), ListOf(call.filter[1], call.filter[2])}
      [] call.op = "status" -> {Detail(call.node), ListOf(call.kind, call.previous),
                                ListOf(call.kind, call.status)}
      [] call.op \in {"connect", "disconnect"} -> {Outgoing(call.from), Incoming(call.to)}
      [] call.op = "update" -> RelationsUpdated(call)

\* The mutation atom of an edge, a node or the screen.
Family(call) ==
    CASE call.op = "create" -> <<"create">>
      [] call.op = "connect" -> <<"connect", call.from>>
      [] call.op \in {"rename", "status"} -> <<call.op, call.node>>
      [] OTHER -> <<call.op, call.edge>>

Send(a, call) ==
    /\ used.calls < MaxCalls
    /\ used' = [used EXCEPT !.calls = @ + 1]
    /\ \A other \in calls[a] : Family(other) = Family(call) => other.left
    /\ calls' = [calls EXCEPT ![a] = @ \cup {call}]
    /\ UNCHANGED <<server, screen, cache, foreign>>

CreateNode(a) ==
    \E name \in Names :
        Send(a, [op |-> "create", kind |-> screen[a].kind, name |-> name,
                 state |-> "sent", left |-> FALSE])

RenameNode(a) ==
    LET n == screen[a].selected
    IN  /\ n # None /\ Shows(cache[a], Detail(n))
        /\ \E name \in Names \ {cache[a][Detail(n)].shown.name} :
              Send(a, [op |-> "rename", node |-> n, name |-> name,
                       filter |-> <<screen[a].kind, screen[a].status>>,
                       state |-> "sent", left |-> FALSE])

SelectStatus(a) ==
    LET n == screen[a].selected
    IN  /\ n # None /\ Shows(cache[a], Detail(n))
        /\ LET previous == cache[a][Detail(n)].shown.status
           IN  \E status \in Statuses \ {previous} :
                  Send(a, [op |-> "status", node |-> n, kind |-> NodeKind[n],
                           previous |-> previous, status |-> status,
                           state |-> "sent", left |-> FALSE])

\* Nodes a dialog may offer: its list may be old.
Candidates(kind) == {n \in Nodes : node[n] # None /\ NodeKind[n] = kind}

ConnectNodes(a) ==
    LET n == screen[a].selected
    IN  /\ n # None /\ screen[a].tab = "outgoing" /\ Shows(cache[a], Outgoing(n))
        /\ \E k \in {k \in EdgeKinds : FromKind[k] = NodeKind[n]} :
              \E m \in Candidates(ToKind[k]) \ {n} :
              Send(a, [op |-> "connect", kind |-> k, from |-> n, to |-> m,
                       state |-> "sent", left |-> FALSE])

Update(a, e, by, from, position) ==
    LET row == Rows(a)[e].row
    IN  Send(a, [op |-> "update", by |-> by, edge |-> e, previous |-> row.from,
                 from |-> from, to |-> row.to, position |-> position,
                 state |-> "sent", left |-> FALSE])

\* EditRelationDialog
EditRelation(a) ==
    \E e \in DOMAIN Rows(a) :
        LET row == Rows(a)[e].row
        IN  \E parent \in Candidates(FromKind[row.kind]) \cup {row.from} :
                Update(a, e, "edit", parent, row.position)

\* The place of an edge among those shown of its kind.
SiblingIndex(rows, e) ==
    IndexIn([i \in {j \in DOMAIN rows : rows[j].row.kind = rows[e].row.kind} |->
                rows[i].row.position], e)
LastPosition(rows, e) ==
    Cardinality({j \in DOMAIN rows : rows[j].row.kind = rows[e].row.kind}) - 1

\* ReorderButtons
Reorder(a) ==
    /\ screen[a].tab = "outgoing"
    /\ \E e \in DOMAIN Rows(a) : LET index == SiblingIndex(Rows(a), e) IN
          \/ index > 0 /\ Update(a, e, "reorder", Rows(a)[e].row.from, index - 1)
          \/ /\ index < LastPosition(Rows(a), e)
             /\ Update(a, e, "reorder", Rows(a)[e].row.from, index + 1)

Disconnect(a) ==
    \E e \in DOMAIN Rows(a) : LET row == Rows(a)[e].row IN
        Send(a, [op |-> "disconnect", edge |-> e, from |-> row.from, to |-> row.to,
                 state |-> "sent", left |-> FALSE])

-----------------------------------------------------------------------------
(* The server *)

\* A node is one of Nodes, which has the kind it will be created with.
NodeCreated(call) ==
    /\ call.op = "create"
    /\ \E n \in Nodes :
          /\ node[n] = None /\ NodeKind[n] = call.kind
          /\ node' = [node EXCEPT ![n] = [name |-> call.name, status |-> "draft"]]
    /\ UNCHANGED <<stored, given>>

NodeRenamed(call) ==
    /\ call.op = "rename"
    /\ node' = [node EXCEPT ![call.node].name = call.name]
    /\ UNCHANGED <<stored, given>>

StatusChanged(call) ==
    /\ call.op = "status"
    /\ node' = [node EXCEPT ![call.node].status = call.status]
    /\ UNCHANGED <<stored, given>>

\* A relation without a position comes last.
EdgeConnected(call) ==
    /\ call.op = "connect"
    /\ \E e \in EdgeIds \ given :
          /\ Catalog!Create(e, call.kind, call.from, call.to,
                            Cardinality(Group(stored, call.from, call.kind)))
          /\ given' = given \cup {e}
    /\ UNCHANGED node

EdgeUpdated(call) ==
    /\ call.op = "update"
    /\ Catalog!Update(call.edge, call.from, call.to, call.position)
    /\ UNCHANGED <<node, given>>

EdgeDisconnected(call) ==
    /\ call.op = "disconnect"
    /\ Catalog!Remove(call.edge)
    /\ UNCHANGED <<node, given>>

\* A list that the refreshes of a mutation do not foresee: the one a renamed
\* node is in, unless it is the one being filtered; the one a node has left,
\* when its status was not as shown.
Unforeseen(call, x) ==
    /\ x[1] = "list"
    /\ \/ call.op = "rename" /\ <<x[2], x[3]>> # call.filter
       \/ /\ call.op = "status" /\ node[call.node].status # call.previous
          /\ x = ListOf(call.kind, node[call.node].status)

Changed(a, call) ==
    foreign' = [b \in Admins |-> foreign[b] \cup
        {x \in DOMAIN cache[b] : /\ b # a \/ call.left \/ Unforeseen(call, x)
                                 /\ Current(x)' # Current(x)}]

Execute(a, call) ==
    /\ call.state = "sent"
    /\ \/ NodeCreated(call) \/ NodeRenamed(call) \/ StatusChanged(call)
       \/ EdgeConnected(call) \/ EdgeUpdated(call) \/ EdgeDisconnected(call)
    /\ calls' = [calls EXCEPT ![a] = (@ \ {call}) \cup {[call EXCEPT !.state = "done"]}]
    /\ Changed(a, call)
    /\ UNCHANGED <<screen, cache, used>>

Stray ==
    /\ used.moves < MaxMoves
    /\ used' = [used EXCEPT !.moves = @ + 1]

\* The relation has gone, or another one is the same.
Denied(call) ==
    \/ /\ call.op \in {"update", "disconnect"}
       /\ call.edge \notin DOMAIN stored
    \/ /\ call.op = "update" /\ call.edge \in DOMAIN stored
       /\ Duplicate(stored, stored[call.edge].kind, call.from, call.to, call.edge)
    \/ /\ call.op = "connect"
       /\ Duplicate(stored, call.kind, call.from, call.to, None)

\* The server denies the mutation, or fails: nothing changes.
Refuse(a, call) ==
    /\ call.state = "sent"
    /\ (Denied(call) /\ UNCHANGED used) \/ Stray
    /\ calls' = [calls EXCEPT ![a] = @ \ {call}]
    /\ UNCHANGED <<server, screen, cache, foreign>>

\* Requests of a query are answered on their own; the last one is shown.
Read(a, x, part) ==
    /\ part \in cache[a][x].waiting
    /\ LET got == [cache[a][x].got EXCEPT ![part] = Answer(x, part)]
           rest == cache[a][x].waiting \ {part}
           entry == IF rest = {}
                    THEN [Asked(x, Value(x, got)) EXCEPT !.waiting = {}]
                    ELSE [cache[a][x] EXCEPT !.waiting = rest, !.got = got]
       IN  Becomes(a, screen[a], [cache[a] EXCEPT ![x] = entry], calls[a])
    /\ foreign' = [foreign EXCEPT ![a] = @ \cap DOMAIN cache'[a]]
    /\ UNCHANGED <<server, used>>

\* The tabs are inside the detail: when it fails they go, and begin anew with it.
ShownTab(s, x) == IF x = Detail(s.selected) THEN [s EXCEPT !.tab = "outgoing"] ELSE s

FailRead(a, x) ==
    /\ cache[a][x].waiting # {}
    /\ Stray
    /\ Becomes(a, ShownTab(screen[a], x),
               [cache[a] EXCEPT ![x] = [Asked(x, Failed) EXCEPT !.waiting = {}]], calls[a])
    /\ foreign' = [foreign EXCEPT ![a] = @ \cap DOMAIN cache'[a]]
    /\ UNCHANGED server

\* The answer of a mutation arrives; one whose component has gone may be heard
\* of no more.
Hear(a, call) ==
    /\ call.state = "done"
    /\ \E heard \in IF call.left THEN BOOLEAN ELSE {TRUE} :
          LET again == IF heard THEN Refreshes(call) ELSE {}
          IN  /\ Becomes(a, screen[a], Refreshed(cache[a], again), calls[a] \ {call})
              /\ foreign' = [foreign EXCEPT ![a] =
                    (IF call.left THEN DOMAIN cache[a] ELSE @) \ again]
    /\ UNCHANGED <<server, used>>

LoseAnswer(a, call) ==
    /\ call.state = "done"
    /\ Stray
    /\ Becomes(a, screen[a], cache[a], calls[a] \ {call})
    /\ foreign' = [foreign EXCEPT ![a] = DOMAIN cache[a]]
    /\ UNCHANGED server

-----------------------------------------------------------------------------
(* Moving over the screen *)

Go(a, s) ==
    /\ Stray
    /\ Becomes(a, s, cache[a], calls[a])
    /\ foreign' = [foreign EXCEPT ![a] = @ \cap DOMAIN cache'[a]]
    /\ UNCHANGED server

\* A node of the list, or at the other end of a relation shown.
SelectNode(a) ==
    LET list == ListOf(screen[a].kind, screen[a].status)
        listed == IF Shows(cache[a], list) THEN DOMAIN cache[a][list].shown ELSE {}
        related == {Far(Relations(screen[a]), Rows(a)[e].row) : e \in DOMAIN Rows(a)}
    IN  \E n \in (listed \cup related) \ {screen[a].selected} :
            Go(a, [screen[a] EXCEPT !.selected = n, !.tab = "outgoing"])

SwitchTab(a) ==
    /\ screen[a].selected # None /\ Shows(cache[a], Detail(screen[a].selected))
    /\ Go(a, [screen[a] EXCEPT !.tab = IF @ = "outgoing" THEN "incoming" ELSE "outgoing"])

SetFilter(a) ==
    \E filter \in Filters \ {<<screen[a].kind, screen[a].status>>} :
        Go(a, [screen[a] EXCEPT !.kind = filter[1], !.status = filter[2]])

-----------------------------------------------------------------------------

Start == [selected |-> None, tab |-> "outgoing", kind |-> "country", status |-> "published"]

ScreenInit ==
    /\ stored = InitialRows
    /\ node = InitialNodes
    /\ given = DOMAIN InitialRows
    /\ screen = [a \in Admins |-> Start]
    /\ cache = [a \in Admins |-> Mounted(Start, << >>)]
    /\ calls = [a \in Admins |-> {}]
    /\ used = [calls |-> 0, moves |-> 0]
    /\ foreign = [a \in Admins |-> {}]

Buttons(a) ==
    \/ CreateNode(a) \/ RenameNode(a) \/ SelectStatus(a) \/ ConnectNodes(a)
    \/ EditRelation(a) \/ Reorder(a) \/ Disconnect(a)
Moves(a) == SelectNode(a) \/ SwitchTab(a) \/ SetFilter(a)
Queries(a) ==
    \E x \in DOMAIN cache[a] : FailRead(a, x) \/ \E part \in Parts(x) : Read(a, x, part)
Answers(a) ==
    \E call \in calls[a] :
        Execute(a, call) \/ Refuse(a, call) \/ Hear(a, call) \/ LoseAnswer(a, call)

ScreenNext == \E a \in Admins : Buttons(a) \/ Moves(a) \/ Queries(a) \/ Answers(a)

ScreenSpec == ScreenInit /\ [][ScreenNext]_screenVars

-----------------------------------------------------------------------------

\* Nothing that concerns atom x is on its way to the screen.
Settled(a, x) ==
    /\ cache[a][x].waiting = {}
    /\ cache[a][x].shown # Failed
    /\ \A call \in calls[a] : call.state # "done"
    /\ x \notin foreign[a]

\* A screen at rest shows the catalog as it is: whatever mutations it has sent,
\* however they overlap with its queries, the atoms that mutations.ts asks again
\* are all that have changed.  Not so after a change that another administrator
\* made, an answer that was lost or came after its component had gone, and the
\* two that mutations.ts does not foresee (56, 74).
ShownIsCurrent ==
    \A a \in Admins : \A x \in DOMAIN cache[a] :
        Settled(a, x) => cache[a][x].shown = Current(x)

\* The order of two edges of a group, as every list shows it.
Before(t, i, j) == t[i].position < t[j].position \/ (t[i].position = t[j].position /\ i < j)

Saved(call) == \E a \in Admins : /\ call \in calls[a]
                                 /\ [call EXCEPT !.state = "done"] \in calls'[a]

\* Saving the dialog of a relation leaves the order of the relations that stay
\* where they are: "El orden solo se cambia desde relaciones salientes"
\* (study-catalog-screen.tsx:300).
OrderOnlyFromOutgoing ==
    [][\A a \in Admins : \A call \in calls[a] :
          call.op = "update" /\ call.state = "sent" /\ Saved(call) /\ call.by = "edit" =>
             \A i, j \in DOMAIN stored :
                stored[i].from = stored[j].from /\ stored[i].kind = stored[j].kind
                /\ stored'[i].from = stored[i].from /\ stored'[j].from = stored[j].from
                   => (Before(stored, i, j) <=> Before(stored', i, j))]_screenVars
=============================================================================
