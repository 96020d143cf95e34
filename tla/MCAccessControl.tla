---------------------------- MODULE MCAccessControl ----------------------------
(***************************************************************************)
(* Two administrators and an editor of one node, with the requests that    *)
(* can get in each other's way.                                            *)
(***************************************************************************)
EXTENDS AccessControl, TLC

CONSTANTS alice, bob, carol, node, edge

MCAccounts == {alice, bob, carol}
MCUuids == {node, edge}

TheNode == [type |-> "studyNode", id |-> node]
TheEdge == [type |-> "studyEdge", id |-> edge]

Assign(user, role, scope) == [user |-> user, role |-> role, scope |-> scope]

MCInitialAssignments ==
    {Assign(alice, "admin", Global), Assign(bob, "admin", Global),
     Assign(carol, "catalog-editor", TheNode)}
MCInitialActive == {alice, bob, carol}
MCInitialCatalog == {Global, TheNode, TheEdge}

Ask(op, actor, user, role, scope) ==
    [op |-> op, actor |-> actor, user |-> user, role |-> role, scope |-> scope]

MCRequests ==
    {Ask("revoke", alice, alice, "admin", Global),
     Ask("revoke", alice, bob, "admin", Global),
     Ask("revoke", bob, alice, "admin", Global),
     Ask("grant", bob, carol, "admin", Global),
     Ask("grant", alice, carol, "admin", TheNode),     \* no such combination
     Ask("revoke", alice, carol, "catalog-editor", TheNode),
     Ask("disable", alice, bob, "student", Global),
     Ask("enable", alice, bob, "student", Global),
     Ask("disable", carol, alice, "student", Global),  \* not for an editor
     Ask("rename", carol, carol, "student", TheNode),
     Ask("disconnect", bob, bob, "student", TheEdge)}

\* Slots are interchangeable.
SlotSymmetry == Permutations(Slots)
=============================================================================
