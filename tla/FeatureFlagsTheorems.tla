------------------------ MODULE FeatureFlagsTheorems ------------------------
(***************************************************************************)
(* Proofs about FeatureFlags, for any publishers, tabs, revisions and      *)
(* times.                                                                  *)
(*                                                                         *)
(* The lock makes each publication see the rows as the one before left     *)
(* them, so the order of publication never repeats a revision.  On the     *)
(* other side nothing a tab has met is newer than what the cache holds,    *)
(* nor than an answer that is under way to it.                             *)
(***************************************************************************)
EXTENDS FeatureFlags, TLAPS

Said(order) == {order[i] : i \in 1 .. Len(order)}

Holding == {"locked", "deactivated", "inserted"}

\* No revision is published twice.
Order ==
    /\ Len(history) > 0
    /\ \A i, j \in 1 .. Len(history) : history[i] = history[j] => i = j
    /\ Said(history) = rows \cup {0}

PublisherInv(p) ==
    /\ pub[p].phase \in Holding <=> lock = p
    /\ pub[p].phase \in {"deactivated", "inserted"} => pub[p].off = active
    /\ pub[p].phase = "inserted" => pub[p].revision \notin rows
    /\ pub[p].phase # "idle" => pub[p].revision \in Revisions

CacheInv ==
    /\ cache.revision # None => cache.revision \in Said(history)
    /\ cache.revalidation.at = "read" => cache.revalidation.answer \in Said(history)

\* The revisions a tab has met: the one it has and those it exposed its visitor to.
Met(x) == (x.exposed \cup {x.shown}) \ {None}

\* A tab beside a cache that holds revision c.
Consistent(x, c) ==
    /\ \A m \in Met(x) : m \in Said(history) /\ c # None /\ Place(m) <= Place(c)
    /\ x.request.at = "read" =>
          /\ x.request.answer \in Said(history)
          /\ \A m \in Met(x) : Place(m) <= Place(x.request.answer)
    /\ x.shown # None => \A m \in x.exposed : Place(m) <= Place(x.shown)
    /\ x.last = None => x.exposed = {}
    /\ x.last # None =>
          /\ x.last \in x.exposed
          /\ \A m \in x.exposed : Place(m) <= Place(x.last)
    /\ x.news \/ x.status = "success" => x.shown # None
    /\ x.page = "away" => x.request.at = "none" /\ x.status = "initial"

Named(x) == x.page = "landing" /\ x.status = "success" /\ ~x.news => x.last = x.shown

TabInv(t) == Consistent(tab[t], cache.revision)

IInv ==
    /\ TypeOK
    /\ LastPublishedIsActive
    /\ Order
    /\ \A p \in Publishers : PublisherInv(p)
    /\ CacheInv
    /\ \A t \in Tabs : TabInv(t)
    /\ MilestonesNameWhatIsShown


-----------------------------------------------------------------------------
(* Places in the order of publication *)

LEMMA PlaceIs ==
    ASSUME NEW S, NEW order \in Seq(S), NEW r \in Said(order)
    PROVE  /\ PlaceIn(order, r) \in 1 .. Len(order)
           /\ order[PlaceIn(order, r)] = r
BY DEF PlaceIn, Said

\* A revision that is published anew leaves the others where they are.
LEMMA AppendKeepsPlaces ==
    ASSUME NEW S, NEW order \in Seq(S), NEW n \in S, n \notin Said(order),
           \A i, j \in 1 .. Len(order) : order[i] = order[j] => i = j
    PROVE  /\ Said(Append(order, n)) = Said(order) \cup {n}
           /\ \A i, j \in 1 .. Len(Append(order, n)) :
                 Append(order, n)[i] = Append(order, n)[j] => i = j
           /\ \A r \in Said(order) : PlaceIn(Append(order, n), r) = PlaceIn(order, r)
<1> DEFINE longer == Append(order, n)
<1>1. /\ longer \in Seq(S)
      /\ Len(longer) = Len(order) + 1
      /\ \A i \in 1 .. Len(order) : longer[i] = order[i]
      /\ longer[Len(order) + 1] = n
  OBVIOUS
<1>2. Said(longer) = Said(order) \cup {n}
  <2>1. \A i \in 1 .. Len(longer) : i \in 1 .. Len(order) \/ i = Len(order) + 1
    BY <1>1
  <2>2. 1 .. Len(order) \subseteq 1 .. Len(longer) /\ Len(order) + 1 \in 1 .. Len(longer)
    BY <1>1
  <2> QED
    BY <1>1, <2>1, <2>2 DEF Said
<1>3. \A i, j \in 1 .. Len(longer) : longer[i] = longer[j] => i = j
  <2>1. \A i \in 1 .. Len(order) : order[i] # n
    BY DEF Said
  <2> QED
    BY <1>1, <2>1
<1>4. ASSUME NEW r \in Said(order)
      PROVE  PlaceIn(longer, r) = PlaceIn(order, r)
  <2>1. PlaceIn(order, r) \in 1 .. Len(order) /\ order[PlaceIn(order, r)] = r
    BY PlaceIs
  <2>2. PlaceIn(longer, r) \in 1 .. Len(longer) /\ longer[PlaceIn(longer, r)] = r
    BY <1>1, <1>2, PlaceIs
  <2>3. longer[PlaceIn(order, r)] = r /\ PlaceIn(order, r) \in 1 .. Len(longer)
    BY <1>1, <2>1
  <2> QED
    BY <1>3, <2>2, <2>3
<1> QED
  BY <1>2, <1>3, <1>4

LEMMA PlacesAreNumbers ==
    ASSUME TypeOK
    PROVE  /\ \A r \in Said(history) : Place(r) \in Nat /\ r \in Known
           /\ \A r, s \in Said(history) : Place(r) = Place(s) => r = s
<1>1. history \in Seq(Known)
  BY DEF TypeOK
<1>2. \A r \in Said(history) : Place(r) \in 1 .. Len(history) /\ history[Place(r)] = r
  BY <1>1, PlaceIs DEF Place
<1> QED
  BY <1>1, <1>2

\* A reader gets the revision published last, which has no other after it.
LEMMA ActiveIsLatest ==
    ASSUME TypeOK, Order, LastPublishedIsActive
    PROVE  /\ Active \in Said(history)
           /\ \A r \in Said(history) : Place(r) <= Place(Active)
<1> DEFINE end == Len(history)
<1>1. history \in Seq(Known) /\ end \in 1 .. end /\ history[end] \in Known
  BY DEF TypeOK, Order
<1>2. Active = history[end]
  <2>1. CASE history[end] = 0
    <3>1. active = {}
      BY <2>1 DEF LastPublishedIsActive
    <3> QED
      BY <2>1, <3>1 DEF Active
  <2>2. CASE history[end] # 0
    <3>1. active = {history[end]}
      BY <2>2 DEF LastPublishedIsActive
    <3>2. history[end] \in Nat
      BY <1>1, <2>2, FlagsAssumption DEF Known
    <3> DEFINE Top(r) == \A s \in active : s <= r
    <3>3. history[end] \in active /\ Top(history[end])
      BY <3>1, <3>2
    <3>4. (CHOOSE r \in active : Top(r)) \in active
      BY <3>3
    <3>5. Active = CHOOSE r \in active : Top(r)
      BY <3>1 DEF Active
    <3> QED
      BY <3>1, <3>4, <3>5
  <2> QED
    BY <2>1, <2>2
<1>3. Active \in Said(history)
  BY <1>1, <1>2 DEF Said
<1>4. \A r \in Said(history) : Place(r) \in 1 .. end /\ history[Place(r)] = r
  BY <1>1, PlaceIs DEF Place
<1>5. Place(Active) = end
  BY <1>1, <1>2, <1>3, <1>4 DEF Order
<1> QED
  BY <1>1, <1>3, <1>4, <1>5

-----------------------------------------------------------------------------
(* Types *)

LEMMA Shapes ==
    ASSUME IInv
    PROVE  /\ Known \subseteq Nat /\ None \notin Known /\ None \notin Publishers
           /\ 0 \in 0 .. MaxAge + Window /\ 0 \in 0 .. Interval
           /\ NoRequest \in Requests /\ Sent \in Requests
           /\ Active \in Known
           /\ \A r \in Known : [at |-> "read", answer |-> r] \in Requests
           /\ \A r \in Known : Kept(r) \in Cache
           /\ \A state \in Tab, r \in Known : Delivered(state, r) \in Tab
<1>1. Known \subseteq Nat /\ None \notin Known /\ None \notin Publishers
  <2>1. Known \subseteq Nat
    BY FlagsAssumption DEF Known
  <2>2. None \notin Nat /\ None \notin Publishers
    BY FlagsAssumption
  <2> QED
    BY <2>1, <2>2
<1>0. 0 \in 0 .. MaxAge + Window /\ 0 \in 0 .. Interval
  BY FlagsAssumption
<1>2. NoRequest \in Requests /\ Sent \in Requests
  BY DEF Requests, NoRequest, Sent
<1>3. Active \in Known
  BY ActiveIsLatest, PlacesAreNumbers DEF IInv
<1>4. \A r \in Known : [at |-> "read", answer |-> r] \in Requests
  BY DEF Requests
<1>5. ASSUME NEW r \in Known
      PROVE  Kept(r) \in Cache
  <2>1. cache \in Cache
    BY DEF IInv, TypeOK
  <2>2. [cache EXCEPT !.revision = r, !.age = 0] \in Cache
    BY <1>0, <2>1 DEF Cache
  <2> QED
    BY <2>1, <2>2 DEF Kept
<1>6. ASSUME NEW state \in Tab, NEW r \in Known
      PROVE  Delivered(state, r) \in Tab
  BY <1>2 DEF Delivered, Tab
<1> QED
  BY <1>0, <1>1, <1>2, <1>3, <1>4, <1>5, <1>6

LEMMA PublicationTypes ==
    ASSUME IInv, NEW p \in Publishers, Publication(p)
    PROVE  TypeOK'
<1> USE Shapes DEF server, browser
<1> SUFFICES ASSUME TypeOK
             PROVE  TypeOK'
  BY DEF IInv
<1>1. ASSUME NEW r \in Revisions, Publish(p, r)
      PROVE  TypeOK'
  BY <1>1 DEF Publish, TypeOK, Publisher, Phases
<1>2. CASE Lock(p)
  BY <1>2 DEF Lock, TypeOK, Publisher, Phases
<1>3. CASE Deactivate(p)
  BY <1>3 DEF Deactivate, TypeOK, Publisher, Phases
<1>4. CASE Insert(p)
  <2>1. pub' \in [Publishers -> Publisher]
    BY <1>4 DEF Insert, TypeOK, Publisher, Phases
  <2>2. lock' \in Publishers \cup {None}
    BY <1>4 DEF Insert, TypeOK, Released
  <2> QED
    BY <1>4, <2>1, <2>2 DEF Insert, TypeOK
<1>5. CASE Commit(p)
  <2>1. pub[p].revision \in Revisions
    BY <1>5 DEF Commit, IInv, PublisherInv
  <2>2. pub' \in [Publishers -> Publisher]
    BY <1>5 DEF Commit, TypeOK, Publisher, Phases
  <2>3. lock' \in Publishers \cup {None}
    BY <1>5 DEF Commit, TypeOK, Released
  <2>4. rows' \subseteq Revisions /\ active' \subseteq Revisions
    BY <1>5, <2>1 DEF Commit, TypeOK
  <2>5. history' \in Seq(Known)
    BY <1>5, <2>1 DEF Commit, TypeOK, Known
  <2> QED
    BY <1>5, <2>2, <2>3, <2>4, <2>5 DEF Commit, TypeOK
<1>6. CASE Abort(p)
  <2>1. pub' \in [Publishers -> Publisher]
    BY <1>6 DEF Abort, TypeOK, Publisher, Phases
  <2>2. lock' \in Publishers \cup {None}
    BY <1>6 DEF Abort, TypeOK, Released
  <2> QED
    BY <1>6, <2>1, <2>2 DEF Abort, TypeOK
<1> QED
  BY <1>1, <1>2, <1>3, <1>4, <1>5, <1>6 DEF Publication

\* What asking does to the tab and to the cache, whichever of the two answers.
LEMMA AskTypes ==
    ASSUME IInv, NEW t \in Tabs, NEW state \in Tab, Ask(t, state)
    PROVE  cache' \in Cache /\ tab' \in [Tabs -> Tab]
<1> USE Shapes
<1>1. cache \in Cache /\ tab \in [Tabs -> Tab]
  BY DEF IInv, TypeOK
<1>2. CASE /\ Usable
           /\ tab' = [tab EXCEPT ![t] = Delivered(state, cache.revision)]
           /\ cache' = IF Fresh \/ cache.revalidation.at # "none"
                       THEN cache
                       ELSE [cache EXCEPT !.revalidation = Sent]
  <2>1. cache.revision \in Known
    BY <1>1, <1>2 DEF Usable, Cache
  <2>2. Delivered(state, cache.revision) \in Tab
    BY <2>1
  <2>3. [cache EXCEPT !.revalidation = Sent] \in Cache
    BY <1>1 DEF Cache
  <2> QED
    BY <1>1, <1>2, <2>2, <2>3
<1>3. CASE /\ ~Fresh
           /\ tab' = [tab EXCEPT ![t] = [state EXCEPT !.request = Sent]]
           /\ UNCHANGED cache
  <2>1. [state EXCEPT !.request = Sent] \in Tab
    BY DEF Tab
  <2> QED
    BY <1>1, <1>3, <2>1
<1> QED
  BY <1>2, <1>3 DEF Ask

LEMMA BrowsingTypes ==
    ASSUME IInv,
           \/ Revalidate \/ Revalidated \/ RevalidationFails \/ Tick
           \/ \E t \in Tabs : Browsing(t)
    PROVE  TypeOK'
<1> USE Shapes, FlagsAssumption DEF server
<1>1. TypeOK /\ cache \in Cache /\ tab \in [Tabs -> Tab]
  BY DEF IInv, TypeOK
<1>2. SUFFICES cache' \in Cache /\ tab' \in [Tabs -> Tab]
  <2>1. UNCHANGED <<server, lock, pub>>
    BY DEF Revalidate, Revalidated, RevalidationFails, Tick, Browsing, Open, Refresh, Read,
           Answer, RequestFails, Expose, Turn, Leave, Reload
  <2> QED
    BY <1>1, <2>1 DEF TypeOK
<1>3. CASE Revalidate
  <2>1. [at |-> "read", answer |-> Active] \in Requests
    OBVIOUS
  <2> QED
    BY <1>1, <1>3, <2>1 DEF Revalidate, Cache
<1>4. CASE Revalidated
  <2>1. cache.revalidation.answer \in Known
    BY <1>1, <1>4 DEF Revalidated, Cache, Requests
  <2>2. Kept(cache.revalidation.answer) \in Cache
    BY <2>1
  <2> QED
    BY <1>1, <1>4, <2>2 DEF Revalidated, Cache
<1>5. CASE RevalidationFails
  BY <1>1, <1>5 DEF RevalidationFails, Cache
<1>6. CASE Tick
  <2>1. cache' \in Cache
    BY <1>1, <1>6 DEF Tick, Usable, Cache
  <2>2. tab' \in [Tabs -> Tab]
    BY <1>1, <1>6 DEF Tick, Tab
  <2> QED
    BY <2>1, <2>2
<1>7. ASSUME NEW t \in Tabs, Browsing(t)
      PROVE  cache' \in Cache /\ tab' \in [Tabs -> Tab]
  <2>0. tab[t] \in Tab
    BY <1>1
  <2>1. CASE Open(t)
    <3>1. PICK page \in {"landing", "steps"} :
              Ask(t, [tab[t] EXCEPT !.page = page, !.slept = 0])
      BY <2>1 DEF Open
    <3>2. [tab[t] EXCEPT !.page = page, !.slept = 0] \in Tab
      BY <2>0 DEF Tab
    <3> QED
      BY <3>1, <3>2, AskTypes
  <2>2. CASE Refresh(t)
    <3>1. [tab[t] EXCEPT !.slept = 0] \in Tab
      BY <2>0 DEF Tab
    <3> QED
      BY <2>2, <3>1, AskTypes DEF Refresh
  <2>3. CASE Read(t)
    <3>1. [at |-> "read", answer |-> Active] \in Requests
      OBVIOUS
    <3> QED
      BY <1>1, <2>0, <2>3, <3>1 DEF Read, Tab
  <2>4. CASE Answer(t)
    <3>1. tab[t].request.answer \in Known
      BY <2>0, <2>4 DEF Answer, Tab, Requests
    <3>2. Delivered(tab[t], tab[t].request.answer) \in Tab /\ Kept(tab[t].request.answer) \in Cache
      BY <2>0, <3>1
    <3> QED
      BY <1>1, <2>4, <3>2 DEF Answer
  <2>5. CASE RequestFails(t)
    BY <1>1, <2>0, <2>5 DEF RequestFails, Tab
  <2>6. CASE Expose(t)
    <3>1. tab[t].shown \in Known
      BY <2>0, <2>6 DEF Expose, IInv, TabInv, Consistent, Tab
    <3> QED
      BY <1>1, <2>0, <2>6, <3>1 DEF Expose, Tab
  <2>7. CASE Turn(t)
    BY <1>1, <2>0, <2>7 DEF Turn, Tab
  <2>8. CASE Leave(t)
    BY <1>1, <2>0, <2>8 DEF Leave, Tab
  <2>9. CASE Reload(t)
    BY <1>1, <2>0, <2>9 DEF Reload, Tab
  <2> QED
    BY <1>7, <2>1, <2>2, <2>3, <2>4, <2>5, <2>6, <2>7, <2>8, <2>9 DEF Browsing
<1> QED
  BY <1>3, <1>4, <1>5, <1>6, <1>7
-----------------------------------------------------------------------------
(* The inductive invariant *)

\* What stays true of the browser when only publishers move.
LEMMA PublishersLeaveTabs ==
    ASSUME IInv, UNCHANGED browser,
           Said(history) \subseteq Said(history'),
           \A r \in Said(history) : Place(r)' = Place(r)
    PROVE  CacheInv' /\ (\A t \in Tabs : TabInv(t)') /\ MilestonesNameWhatIsShown'
<1>1. cache' = cache /\ tab' = tab
  BY DEF browser
<1>2. CacheInv'
  BY <1>1 DEF IInv, CacheInv
<1>3. ASSUME NEW t \in Tabs
      PROVE  TabInv(t)'
  <2> DEFINE x == tab[t]
  <2>1. Consistent(x, cache.revision) /\ x \in Tab /\ x' = x
    BY <1>1 DEF IInv, TabInv, TypeOK
  <2>2. x.exposed \subseteq Met(x) /\ (x.shown # None => x.shown \in Met(x))
    BY <2>1, Shapes DEF Met, Tab
  <2>3. Met(x) \subseteq Said(history)
    BY <2>1 DEF Consistent
  <2>4. Met(x)' = Met(x)
    BY <1>1 DEF Met
  <2>5. cache.revision # None => cache.revision \in Said(history)
    BY DEF IInv, CacheInv
  <2> HIDE DEF x
  <2>6. \A m \in Met(x) : m \in Said(history') /\ cache.revision # None
                          /\ Place(m)' <= Place(cache.revision)'
    BY <2>1, <2>3, <2>5, <1>1 DEF Consistent
  <2>7. x.request.at = "read" =>
          /\ x.request.answer \in Said(history')
          /\ \A m \in Met(x) : Place(m)' <= Place(x.request.answer)'
    BY <2>1, <2>3, <1>1 DEF Consistent
  <2>8. x.shown # None => \A m \in x.exposed : Place(m)' <= Place(x.shown)'
    BY <2>1, <2>2, <2>3, <1>1 DEF Consistent
  <2>9. x.last # None => x.last \in x.exposed /\ \A m \in x.exposed : Place(m)' <= Place(x.last)'
    BY <2>1, <2>2, <2>3, <1>1 DEF Consistent
  <2>10. Consistent(x, cache.revision)'
    BY <1>1, <2>1, <2>4, <2>6, <2>7, <2>8, <2>9 DEF Consistent
  <2> QED
    BY <2>10 DEF TabInv, x
<1>4. MilestonesNameWhatIsShown'
  BY <1>1 DEF IInv, MilestonesNameWhatIsShown
<1> QED
  BY <1>2, <1>3, <1>4

\* The lock makes the publishers take turns.
LEMMA PublicationStep ==
    ASSUME IInv, NEW p \in Publishers, Publication(p)
    PROVE  IInv'
<1> USE Shapes
<1>1. TypeOK /\ TypeOK' /\ pub \in [Publishers -> Publisher] /\ history \in Seq(Known)
  BY PublicationTypes DEF IInv, TypeOK
<1>2. LastPublishedIsActive /\ Order /\ \A q \in Publishers : PublisherInv(q)
  BY DEF IInv
<1>3. UNCHANGED browser
  BY DEF Publication, Publish, Lock, Deactivate, Insert, Commit, Abort
<1>4. SUFFICES /\ LastPublishedIsActive' /\ Order' /\ \A q \in Publishers : PublisherInv(q)'
               /\ Said(history) \subseteq Said(history')
               /\ \A r \in Said(history) : Place(r)' = Place(r)
  <2>1. CacheInv' /\ (\A t \in Tabs : TabInv(t)') /\ MilestonesNameWhatIsShown'
    BY <1>3, <1>4, PublishersLeaveTabs
  <2> QED
    BY <1>1, <1>4, <2>1 DEF IInv
<1>5. ASSUME UNCHANGED server, \A q \in Publishers : PublisherInv(q)'
      PROVE  /\ LastPublishedIsActive' /\ Order' /\ \A q \in Publishers : PublisherInv(q)'
             /\ Said(history) \subseteq Said(history')
             /\ \A r \in Said(history) : Place(r)' = Place(r)
  BY <1>2, <1>5 DEF server, LastPublishedIsActive, Order, Place
<1>6. ASSUME NEW r \in Revisions, Publish(p, r)
      PROVE  UNCHANGED server /\ \A q \in Publishers : PublisherInv(q)'
  BY <1>1, <1>2, <1>6 DEF Publish, PublisherInv, Holding, server, Publisher
<1>7. CASE Lock(p)
  <2>1. UNCHANGED server /\ \A q \in Publishers : PublisherInv(q)'
    BY <1>1, <1>2, <1>7 DEF Lock, PublisherInv, Holding, server, Publisher
  <2> QED
    BY <1>5, <2>1
<1>8. CASE Deactivate(p)
  <2>1. UNCHANGED server /\ \A q \in Publishers : PublisherInv(q)'
    BY <1>1, <1>2, <1>8 DEF Deactivate, PublisherInv, Holding, server, Publisher
  <2> QED
    BY <1>5, <2>1
<1>9. CASE Insert(p)
  <2>1. UNCHANGED server
    BY <1>9 DEF Insert
  <2>2. lock = p /\ active \ pub[p].off = {}
    BY <1>2, <1>9 DEF Insert, PublisherInv, Holding
  <2>3. \A q \in Publishers : PublisherInv(q)'
    <3>1. CASE pub[p].revision \in rows
      <4>1. /\ pub' = [pub EXCEPT ![p].phase = "conflict", ![p].off = {}]
            /\ lock' = None
        BY <1>9, <2>2, <3>1 DEF Insert, Released
      <4>2. pub[p].revision \in Revisions
        BY <1>2, <1>9 DEF Insert, PublisherInv
      <4> QED
        BY <1>1, <1>2, <2>1, <2>2, <4>1, <4>2 DEF PublisherInv, Holding, server, Publisher
    <3>2. CASE pub[p].revision \notin rows
      BY <1>1, <1>2, <1>9, <2>2, <3>2 DEF Insert, PublisherInv, Holding, server, Publisher
    <3> QED
      BY <3>1, <3>2
  <2> QED
    BY <1>5, <2>1, <2>3
<1>10. CASE Abort(p)
  <2>1. UNCHANGED server
    BY <1>10 DEF Abort
  <2>2. \A q \in Publishers : PublisherInv(q)'
    BY <1>1, <1>2, <1>10, <2>1 DEF Abort, PublisherInv, Holding, server, Publisher, Released
  <2> QED
    BY <1>5, <2>1, <2>2
<1>11. CASE Commit(p)
  <2> DEFINE n == pub[p].revision
  <2>1. /\ n \in Revisions /\ n \notin rows /\ n # 0 /\ n \notin Said(history) /\ n \in Known
        /\ pub[p].off = active /\ lock = p
    BY <1>2, <1>11, FlagsAssumption DEF Commit, PublisherInv, Holding, Order, Known
  <2>2. history' = Append(history, n) /\ rows' = rows \cup {n} /\ active' = {n} /\ lock' = None
    BY <1>11, <2>1 DEF Commit, Released
  <2> HIDE DEF n
  <2>3. /\ Said(history') = Said(history) \cup {n}
        /\ \A i, j \in 1 .. Len(history') : history'[i] = history'[j] => i = j
        /\ \A r \in Said(history) : Place(r)' = Place(r)
    BY <1>1, <1>2, <2>1, <2>2, AppendKeepsPlaces DEF Order, Place
  <2>4. Len(history') > 0 /\ history'[Len(history')] = n
    BY <1>1, <2>1, <2>2
  <2>5. Order'
    BY <1>2, <2>2, <2>3, <2>4 DEF Order
  <2>6. LastPublishedIsActive'
    BY <2>1, <2>2, <2>4 DEF LastPublishedIsActive
  <2>7. \A q \in Publishers : PublisherInv(q)'
    BY <1>1, <1>2, <1>11, <2>1, <2>2 DEF Commit, PublisherInv, Holding, Publisher
  <2> QED
    BY <2>3, <2>5, <2>6, <2>7
<1> QED
  BY <1>5, <1>6, <1>7, <1>8, <1>9, <1>10, <1>11 DEF Publication

\* A browser that keeps an answer never holds an older one than it did.
LEMMA KeptIs ==
    ASSUME IInv, NEW r \in Said(history)
    PROVE  /\ Kept(r).revision \in Said(history) /\ Kept(r).revision # None
           /\ Place(r) <= Place(Kept(r).revision)
           /\ cache.revision # None => Place(cache.revision) <= Place(Kept(r).revision)
           /\ Kept(r).revalidation = cache.revalidation
<1>1. cache \in Cache /\ (cache.revision # None => cache.revision \in Said(history))
  BY DEF IInv, TypeOK, CacheInv
<1>2. \A m \in Said(history) : Place(m) \in Nat /\ m # None
  BY PlacesAreNumbers, Shapes DEF IInv
<1>3. CASE cache.revision # None /\ Place(r) < Place(cache.revision)
  <2>1. Kept(r) = cache
    BY <1>3 DEF Kept
  <2> QED
    BY <1>1, <1>2, <1>3, <2>1
<1>4. CASE ~(cache.revision # None /\ Place(r) < Place(cache.revision))
  <2>1. Kept(r) = [cache EXCEPT !.revision = r, !.age = 0]
    BY <1>4 DEF Kept
  <2>2. Kept(r).revision = r /\ Kept(r).revalidation = cache.revalidation
    BY <1>1, <2>1 DEF Cache
  <2> QED
    BY <1>1, <1>2, <1>4, <2>2
<1> QED
  BY <1>3, <1>4

\* A cache that holds a later revision disturbs no tab.
LEMMA LaterCache ==
    ASSUME IInv, NEW x \in Tab, NEW c \in Said(history) \cup {None},
           NEW d \in Said(history) \cup {None},
           c # None => d # None /\ Place(c) <= Place(d),
           Consistent(x, c)
    PROVE  Consistent(x, d)
<1>1. \A m \in Said(history) : Place(m) \in Nat
  BY PlacesAreNumbers DEF IInv
<1>2. \A m \in Met(x) : m \in Said(history) /\ d # None /\ Place(m) <= Place(d)
  BY <1>1 DEF Consistent
<1> QED
  BY <1>2 DEF Consistent

\* A tab that gets an answer not older than anything it has met.
LEMMA Delivery ==
    ASSUME IInv, NEW x \in Tab, NEW r \in Said(history), NEW d \in Said(history),
           NEW c, Consistent(x, c), x.page # "away",
           \A m \in Met(x) : Place(m) <= Place(r),
           Place(r) <= Place(d)
    PROVE  Consistent(Delivered(x, r), d) /\ Named(Delivered(x, r))
<1> DEFINE y == Delivered(x, r)
<1>1. \A m \in Said(history) : Place(m) \in Nat /\ m # None
  BY PlacesAreNumbers, Shapes DEF IInv
<1>2. None \notin Known /\ r \in Known
  BY PlacesAreNumbers, Shapes DEF IInv
<1>3. /\ y.status = "success" /\ y.shown = r /\ y.request = NoRequest
      /\ y.news = (x.page = "landing") /\ y.page = x.page
      /\ y.exposed = x.exposed /\ y.last = x.last
  BY DEF Delivered, Tab
<1>4. x.exposed \subseteq Met(x)
  BY <1>2 DEF Met, Tab
<1>5. Met(y) \subseteq Met(x) \cup {r}
  BY <1>3 DEF Met
<1> HIDE DEF y
<1>6. \A m \in Met(y) : m \in Said(history) /\ d # None /\ Place(m) <= Place(d)
  BY <1>1, <1>5 DEF Consistent
<1>7. \A m \in y.exposed : Place(m) <= Place(y.shown)
  BY <1>3, <1>4
<1>8. y.request.at = "none" /\ y.shown # None
  BY <1>1, <1>3 DEF NoRequest
<1>9. Consistent(y, d)
  BY <1>3, <1>6, <1>7, <1>8 DEF Consistent
<1>10. Named(y)
  BY <1>3 DEF Named
<1> QED
  BY <1>9, <1>10 DEF y

\* What asking does, whether the cache or the server is to answer.
LEMMA AskKeeps ==
    ASSUME IInv, NEW t \in Tabs, NEW x \in Tab, Ask(t, x),
           Consistent(x, cache.revision), Named(x), x.page # "away"
    PROVE  /\ tab' = [tab EXCEPT ![t] = tab'[t]]
           /\ Consistent(tab'[t], cache'.revision) /\ Named(tab'[t])
           /\ cache'.revision = cache.revision
           /\ cache'.revalidation \in {cache.revalidation, Sent}
<1>1. cache \in Cache /\ tab \in [Tabs -> Tab] /\ None \notin Known
  BY Shapes DEF IInv, TypeOK
<1>2. CASE /\ Usable
           /\ tab' = [tab EXCEPT ![t] = Delivered(x, cache.revision)]
           /\ cache' = IF Fresh \/ cache.revalidation.at # "none"
                       THEN cache
                       ELSE [cache EXCEPT !.revalidation = Sent]
  <2>1. cache.revision # None /\ cache.revision \in Said(history)
    BY <1>2 DEF Usable, IInv, CacheInv
  <2>2. Place(cache.revision) \in Nat
    BY <2>1, PlacesAreNumbers DEF IInv
  <2>3. \A m \in Met(x) : Place(m) <= Place(cache.revision)
    BY DEF Consistent
  <2>4. Place(cache.revision) <= Place(cache.revision)
    BY <2>2
  <2>5. /\ Consistent(Delivered(x, cache.revision), cache.revision)
        /\ Named(Delivered(x, cache.revision))
    BY <2>1, <2>3, <2>4, Delivery
  <2>6. cache'.revision = cache.revision /\ cache'.revalidation \in {cache.revalidation, Sent}
    BY <1>1, <1>2 DEF Cache
  <2>7. tab'[t] = Delivered(x, cache.revision) /\ tab' = [tab EXCEPT ![t] = tab'[t]]
    BY <1>1, <1>2
  <2> QED
    BY <2>5, <2>6, <2>7
<1>3. CASE /\ ~Fresh
           /\ tab' = [tab EXCEPT ![t] = [x EXCEPT !.request = Sent]]
           /\ UNCHANGED cache
  <2> DEFINE y == [x EXCEPT !.request = Sent]
  <2>1. /\ y.status = x.status /\ y.shown = x.shown /\ y.request = Sent /\ y.news = x.news
        /\ y.page = x.page /\ y.exposed = x.exposed /\ y.last = x.last
    BY DEF Tab
  <2>2. tab'[t] = y /\ tab' = [tab EXCEPT ![t] = tab'[t]]
    BY <1>1, <1>3
  <2> HIDE DEF y
  <2>3. y.request.at = "sent" /\ Met(y) = Met(x)
    BY <2>1 DEF Sent, Met
  <2>4. Consistent(y, cache.revision) /\ Named(y)
    BY <2>1, <2>3 DEF Consistent, Named
  <2> QED
    BY <1>3, <2>2, <2>4
<1> QED
  BY <1>2, <1>3 DEF Ask

\* What every step of a tab must leave behind it.
Sane(t) ==
    /\ tab' = [tab EXCEPT ![t] = tab'[t]]
    /\ Consistent(tab'[t], cache'.revision)
    /\ Named(tab'[t])
    /\ cache'.revision \in Said(history) \cup {None}
    /\ cache.revision # None => cache'.revision # None /\ Place(cache.revision) <= Place(cache'.revision)
    /\ cache'.revalidation \in {cache.revalidation, Sent}

\* The cache and the tabs, after a step that leaves the server alone.
LEMMA BrowserAlone ==
    ASSUME IInv, TypeOK', UNCHANGED <<server, lock, pub>>, CacheInv',
           \A t \in Tabs : Consistent(tab'[t], cache'.revision) /\ Named(tab'[t])
    PROVE  IInv'
<1>1. LastPublishedIsActive' /\ Order' /\ \A p \in Publishers : PublisherInv(p)'
  BY DEF IInv, server, LastPublishedIsActive, Order, PublisherInv
<1>2. ASSUME NEW t \in Tabs
      PROVE  TabInv(t)'
  BY DEF TabInv, Consistent, Met, Place, server
<1>3. MilestonesNameWhatIsShown'
  BY DEF Named, MilestonesNameWhatIsShown
<1> QED
  BY <1>1, <1>2, <1>3 DEF IInv

LEMMA SaneStep ==
    ASSUME IInv, TypeOK', UNCHANGED <<server, lock, pub>>, NEW t \in Tabs, Sane(t)
    PROVE  IInv'
<1>1. /\ tab \in [Tabs -> Tab] /\ cache \in Cache
      /\ cache.revision \in Said(history) \cup {None}
  BY DEF IInv, TypeOK, CacheInv
<1>2. CacheInv'
  BY DEF Sane, IInv, CacheInv, server, Sent
<1>3. ASSUME NEW u \in Tabs
      PROVE  Consistent(tab'[u], cache'.revision) /\ Named(tab'[u])
  <2>1. CASE u = t
    BY <2>1 DEF Sane
  <2>2. CASE u # t
    <3>1. tab'[u] = tab[u] /\ tab[u] \in Tab
      BY <1>1, <2>2 DEF Sane
    <3>2. Consistent(tab[u], cache.revision) /\ Named(tab[u])
      BY DEF IInv, TabInv, MilestonesNameWhatIsShown, Named
    <3>3. Consistent(tab[u], cache'.revision)
      BY <1>1, <3>1, <3>2, LaterCache DEF Sane
    <3> QED
      BY <3>1, <3>2, <3>3
  <2> QED
    BY <2>1, <2>2
<1> QED
  BY <1>2, <1>3, BrowserAlone

LEMMA TabStep ==
    ASSUME IInv, NEW t \in Tabs, Browsing(t)
    PROVE  Sane(t)
<1> DEFINE x == tab[t]
<1>1. /\ tab \in [Tabs -> Tab] /\ cache \in Cache /\ x \in Tab
      /\ cache.revision \in Said(history) \cup {None}
      /\ Consistent(x, cache.revision) /\ Named(x)
  BY DEF IInv, TypeOK, CacheInv, TabInv, MilestonesNameWhatIsShown, Named
<1>2. \A m \in Said(history) : Place(m) \in Nat /\ m # None /\ m \in Known
  BY PlacesAreNumbers, Shapes DEF IInv
<1>3. None \notin Known
  BY Shapes
<1>4. x.exposed \subseteq Met(x) /\ (x.shown # None => x.shown \in Met(x))
  BY <1>1, <1>3 DEF Met, Tab
<1>5. cache.revision # None => Place(cache.revision) <= Place(cache.revision)
  BY <1>1, <1>2
<1>6. ASSUME NEW y, tab' = [tab EXCEPT ![t] = y], UNCHANGED cache,
             Consistent(y, cache.revision), Named(y)
      PROVE  Sane(t)
  BY <1>1, <1>5, <1>6 DEF Sane
<1>7. CASE Open(t)
  <2>1. PICK page \in {"landing", "steps"} : Ask(t, [x EXCEPT !.page = page, !.slept = 0])
    BY <1>7 DEF Open
  <2> DEFINE y == [x EXCEPT !.page = page, !.slept = 0]
  <2>2. y \in Tab
    BY <1>1, Shapes DEF Tab
  <2>3. /\ y.page = page /\ y.status = x.status /\ y.shown = x.shown /\ y.request = x.request
        /\ y.news = x.news /\ y.exposed = x.exposed /\ y.last = x.last
    BY <1>1 DEF Tab
  <2>4. x.status = "initial"
    BY <1>1, <1>7 DEF Open, Consistent
  <2> HIDE DEF y
  <2>5. y.page # "away" /\ Met(y) = Met(x)
    BY <2>3 DEF Met
  <2>6. Consistent(y, cache.revision) /\ Named(y)
    BY <1>1, <2>3, <2>4, <2>5 DEF Consistent, Named
  <2>7. Ask(t, y)
    BY <2>1 DEF y
  <2> QED
    BY <1>1, <1>5, <2>2, <2>5, <2>6, <2>7, AskKeeps DEF Sane
<1>8. CASE Refresh(t)
  <2> DEFINE y == [x EXCEPT !.slept = 0]
  <2>2. y \in Tab
    BY <1>1, Shapes DEF Tab
  <2>3. /\ y.page = x.page /\ y.status = x.status /\ y.shown = x.shown /\ y.request = x.request
        /\ y.news = x.news /\ y.exposed = x.exposed /\ y.last = x.last
    BY <1>1 DEF Tab
  <2>4. Ask(t, y) /\ x.page # "away"
    BY <1>8 DEF Refresh
  <2> HIDE DEF y
  <2>5. y.page # "away" /\ Met(y) = Met(x)
    BY <2>3, <2>4 DEF Met
  <2>6. Consistent(y, cache.revision) /\ Named(y)
    BY <1>1, <2>3, <2>5 DEF Consistent, Named
  <2> QED
    BY <1>1, <1>5, <2>2, <2>4, <2>5, <2>6, AskKeeps DEF Sane
<1>9. CASE Read(t)
  <2> DEFINE y == [x EXCEPT !.request = [at |-> "read", answer |-> Active]]
  <2>1. tab' = [tab EXCEPT ![t] = y] /\ x.request.at = "sent"
    BY <1>1, <1>9 DEF Read
  <2>2. /\ y.page = x.page /\ y.status = x.status /\ y.shown = x.shown
        /\ y.request.at = "read" /\ y.request.answer = Active
        /\ y.news = x.news /\ y.exposed = x.exposed /\ y.last = x.last
    BY <1>1 DEF Tab
  <2>3. Active \in Said(history) /\ \A r \in Said(history) : Place(r) <= Place(Active)
    BY ActiveIsLatest DEF IInv
  <2> HIDE DEF y
  <2>4. Met(y) = Met(x) /\ x.page # "away"
    BY <1>1, <2>1, <2>2 DEF Met, Consistent
  <2>5. Consistent(y, cache.revision) /\ Named(y)
    BY <1>1, <2>2, <2>3, <2>4 DEF Consistent, Named
  <2> QED
    BY <1>6, <1>9, <2>1, <2>5 DEF Read
<1>10. CASE Answer(t)
  <2> DEFINE r == x.request.answer
  <2>1. /\ x.request.at = "read" /\ x.page # "away" /\ r \in Said(history)
        /\ \A m \in Met(x) : Place(m) <= Place(r)
    BY <1>1, <1>10 DEF Answer, Consistent
  <2>2. tab' = [tab EXCEPT ![t] = Delivered(x, r)] /\ cache' = Kept(r)
    BY <1>10 DEF Answer
  <2>3. /\ Kept(r).revision \in Said(history) /\ Kept(r).revision # None
        /\ Place(r) <= Place(Kept(r).revision)
        /\ cache.revision # None => Place(cache.revision) <= Place(Kept(r).revision)
        /\ Kept(r).revalidation = cache.revalidation
    BY <2>1, KeptIs
  <2>4. Consistent(Delivered(x, r), Kept(r).revision) /\ Named(Delivered(x, r))
    BY <1>1, <2>1, <2>3, Delivery
  <2>5. tab'[t] = Delivered(x, r)
    BY <1>1, <2>2
  <2> QED
    BY <2>2, <2>3, <2>4, <2>5 DEF Sane
<1>11. CASE RequestFails(t)
  <2> DEFINE y == [x EXCEPT !.request = NoRequest, !.status = "failure", !.news = FALSE]
  <2>1. tab' = [tab EXCEPT ![t] = y]
    BY <1>1, <1>11 DEF RequestFails
  <2>2. /\ y.page = x.page /\ y.status = "failure" /\ y.shown = x.shown /\ y.request.at = "none"
        /\ y.news = FALSE /\ y.exposed = x.exposed /\ y.last = x.last
    BY <1>1 DEF Tab, NoRequest
  <2> HIDE DEF y
  <2>3. Met(y) = Met(x) /\ x.page # "away"
    BY <1>1, <1>11, <2>2 DEF Met, Consistent, RequestFails
  <2>4. Consistent(y, cache.revision) /\ Named(y)
    BY <1>1, <2>2, <2>3 DEF Consistent, Named
  <2> QED
    BY <1>6, <1>11, <2>1, <2>4 DEF RequestFails
<1>12. CASE Expose(t)
  <2>1. x.news /\ x.shown # None /\ x.shown \in Met(x)
    BY <1>1, <1>4, <1>12 DEF Expose, Consistent
  <2>2. CASE x.shown \in x.exposed
    <3> DEFINE y == [x EXCEPT !.news = FALSE]
    <3>1. tab' = [tab EXCEPT ![t] = y]
      BY <1>12, <2>2 DEF Expose
    <3>2. /\ y.page = x.page /\ y.status = x.status /\ y.shown = x.shown /\ y.request = x.request
          /\ y.news = FALSE /\ y.exposed = x.exposed /\ y.last = x.last
      BY <1>1 DEF Tab
    <3> HIDE DEF y
    <3>3. Met(y) = Met(x)
      BY <3>2 DEF Met
    <3>4. x.last \in x.exposed /\ Place(x.last) <= Place(x.shown) /\ Place(x.shown) <= Place(x.last)
      BY <1>1, <2>1, <2>2 DEF Consistent
    <3>5. x.last \in Said(history) /\ x.shown \in Said(history)
      BY <1>1, <1>4, <2>1, <3>4 DEF Consistent
    <3>6. x.last = x.shown
      <4>1. Place(x.last) = Place(x.shown)
        BY <1>2, <3>4, <3>5
      <4> QED
        BY <3>5, <4>1, PlacesAreNumbers DEF IInv
    <3>7. Consistent(y, cache.revision) /\ Named(y)
      BY <1>1, <3>2, <3>3, <3>6, <2>1 DEF Consistent, Named
    <3> QED
      BY <1>6, <1>12, <3>1, <3>7 DEF Expose
  <2>3. CASE x.shown \notin x.exposed
    <3> DEFINE y == [x EXCEPT !.news = FALSE, !.last = x.shown,
                              !.exposed = x.exposed \cup {x.shown}]
    <3>1. tab' = [tab EXCEPT ![t] = y]
      BY <1>12, <2>3 DEF Expose
    <3>2. /\ y.page = x.page /\ y.status = x.status /\ y.shown = x.shown /\ y.request = x.request
          /\ y.news = FALSE /\ y.exposed = x.exposed \cup {x.shown} /\ y.last = x.shown
      BY <1>1 DEF Tab
    <3> HIDE DEF y
    <3>3. Met(y) = Met(x)
      BY <3>2 DEF Met
    <3>4. \A m \in y.exposed : Place(m) <= Place(x.shown)
      BY <1>1, <1>2, <2>1, <3>2 DEF Consistent
    <3>5. Consistent(y, cache.revision) /\ Named(y)
      BY <1>1, <2>1, <3>2, <3>3, <3>4 DEF Consistent, Named
    <3> QED
      BY <1>6, <1>12, <3>1, <3>5 DEF Expose
  <2> QED
    BY <2>2, <2>3
<1>13. CASE Turn(t)
  <2> DEFINE y == [x EXCEPT !.page = IF x.page = "landing" THEN "steps" ELSE "landing",
                            !.news = x.page = "steps" /\ x.status = "success"]
  <2>1. tab' = [tab EXCEPT ![t] = y]
    BY <1>1, <1>13 DEF Turn
  <2>2. /\ y.page = (IF x.page = "landing" THEN "steps" ELSE "landing")
        /\ y.news = (x.page = "steps" /\ x.status = "success")
        /\ y.status = x.status /\ y.shown = x.shown /\ y.request = x.request
        /\ y.exposed = x.exposed /\ y.last = x.last
    BY <1>1 DEF Tab
  <2>3. x.page \in {"landing", "steps"}
    BY <1>1, <1>13 DEF Turn, Tab
  <2> HIDE DEF y
  <2>4. Met(y) = Met(x)
    BY <2>2 DEF Met
  <2>5. Consistent(y, cache.revision)
    BY <1>1, <2>2, <2>4 DEF Consistent
  <2>6. Named(y)
    BY <2>2, <2>3 DEF Named
  <2> QED
    BY <1>6, <1>13, <2>1, <2>5, <2>6 DEF Turn
<1>14. CASE Leave(t)
  <2> DEFINE y == [x EXCEPT !.page = "away", !.status = "initial", !.shown = None,
                            !.request = NoRequest, !.slept = 0, !.news = FALSE]
  <2>1. tab' = [tab EXCEPT ![t] = y]
    BY <1>14 DEF Leave
  <2>2. /\ y.page = "away" /\ y.status = "initial" /\ y.shown = None /\ y.request.at = "none"
        /\ y.news = FALSE /\ y.exposed = x.exposed /\ y.last = x.last
    BY <1>1 DEF Tab, NoRequest
  <2> HIDE DEF y
  <2>3. Met(y) \subseteq Met(x)
    BY <2>2 DEF Met
  <2>4. Consistent(y, cache.revision) /\ Named(y)
    BY <1>1, <2>2, <2>3 DEF Consistent, Named
  <2> QED
    BY <1>6, <1>14, <2>1, <2>4 DEF Leave
<1>15. CASE Reload(t)
  <2> DEFINE y == [x EXCEPT !.exposed = {}, !.last = None]
  <2>1. tab' = [tab EXCEPT ![t] = y] /\ x.page = "away"
    BY <1>1, <1>15 DEF Reload
  <2>2. /\ y.page = "away" /\ y.status = x.status /\ y.shown = x.shown /\ y.request = x.request
        /\ y.news = x.news /\ y.exposed = {} /\ y.last = None
    BY <1>1, <2>1 DEF Tab
  <2> HIDE DEF y
  <2>3. Met(y) \subseteq Met(x)
    BY <2>2 DEF Met
  <2>4. Consistent(y, cache.revision) /\ Named(y)
    BY <1>1, <2>1, <2>2, <2>3 DEF Consistent, Named
  <2> QED
    BY <1>6, <1>15, <2>1, <2>4 DEF Reload
<1> QED
  BY <1>7, <1>8, <1>9, <1>10, <1>11, <1>12, <1>13, <1>14, <1>15 DEF Browsing

\* The background requests of the cache.
LEMMA CacheStep ==
    ASSUME IInv, Revalidate \/ Revalidated \/ RevalidationFails
    PROVE  /\ tab' = tab /\ UNCHANGED <<server, lock, pub>>
           /\ CacheInv'
           /\ cache'.revision \in Said(history) \cup {None}
           /\ cache.revision # None =>
                 cache'.revision # None /\ Place(cache.revision) <= Place(cache'.revision)
<1>1. cache \in Cache /\ CacheInv
  BY DEF IInv, TypeOK
<1>2. \A m \in Said(history) : Place(m) \in Nat
  BY PlacesAreNumbers DEF IInv
<1>3. CASE Revalidate
  <2>1. cache'.revision = cache.revision /\ cache'.revalidation = [at |-> "read", answer |-> Active]
    BY <1>1, <1>3 DEF Revalidate, Cache
  <2>2. Active \in Said(history)
    BY ActiveIsLatest DEF IInv
  <2> QED
    BY <1>1, <1>2, <1>3, <2>1, <2>2 DEF Revalidate, CacheInv, server
<1>4. CASE Revalidated
  <2> DEFINE r == cache.revalidation.answer
  <2>1. r \in Said(history)
    BY <1>1, <1>4 DEF Revalidated, CacheInv
  <2>2. /\ Kept(r).revision \in Said(history) /\ Kept(r).revision # None
        /\ cache.revision # None => Place(cache.revision) <= Place(Kept(r).revision)
    BY <2>1, KeptIs
  <2>3. Kept(r) \in Cache
    BY <2>1, PlacesAreNumbers, Shapes DEF IInv
  <2>4. cache'.revision = Kept(r).revision /\ cache'.revalidation = NoRequest
    BY <1>4, <2>3 DEF Revalidated, Cache
  <2> QED
    BY <1>4, <2>2, <2>4 DEF Revalidated, CacheInv, server, NoRequest
<1>5. CASE RevalidationFails
  <2>1. cache'.revision = cache.revision /\ cache'.revalidation = NoRequest
    BY <1>1, <1>5 DEF RevalidationFails, Cache
  <2> QED
    BY <1>1, <1>2, <1>5, <2>1 DEF RevalidationFails, CacheInv, server, NoRequest
<1> QED
  BY <1>3, <1>4, <1>5

\* Time changes ages alone.
LEMMA TickStep ==
    ASSUME IInv, Tick
    PROVE  /\ UNCHANGED <<server, lock, pub>>
           /\ cache'.revision = cache.revision /\ cache'.revalidation = cache.revalidation
           /\ \A t \in Tabs : tab'[t] = tab[t] \/ tab'[t] = [tab[t] EXCEPT !.slept = @ + 1]
<1>1. cache \in Cache
  BY DEF IInv, TypeOK
<1>2. cache'.revision = cache.revision /\ cache'.revalidation = cache.revalidation
  BY <1>1 DEF Tick, Cache
<1> QED
  BY <1>2 DEF Tick

LEMMA InitIInv == Init => IInv
<1> SUFFICES ASSUME Init
             PROVE  IInv
  OBVIOUS
<1> USE DEF Init
<1>1. None \notin Known /\ 0 \in Known /\ 0 \in 0 .. MaxAge + Window /\ 0 \in 0 .. Interval
  <2>1. None \notin Nat /\ 0 \in Known
    BY FlagsAssumption DEF Known
  <2>2. Known \subseteq Nat
    BY FlagsAssumption DEF Known
  <2>3. 0 \in 0 .. MaxAge + Window /\ 0 \in 0 .. Interval
    BY FlagsAssumption
  <2> QED
    BY <2>1, <2>2, <2>3
<1>2. NoRequest \in Requests
  BY DEF Requests, NoRequest
<1>3. TypeOK
  <2>1. cache \in Cache
    BY <1>1, <1>2 DEF Cache
  <2>2. tab \in [Tabs -> Tab]
    BY <1>1, <1>2 DEF Tab
  <2>3. pub \in [Publishers -> Publisher]
    BY DEF Publisher, Phases
  <2>4. history \in Seq(Known)
    BY <1>1
  <2> QED
    BY <2>1, <2>2, <2>3, <2>4 DEF TypeOK
<1>4. Order /\ LastPublishedIsActive
  BY DEF Order, Said, LastPublishedIsActive
<1>5. \A p \in Publishers : PublisherInv(p)
  BY FlagsAssumption DEF PublisherInv, Holding
<1>6. CacheInv
  BY DEF CacheInv, NoRequest
<1>7. \A t \in Tabs : TabInv(t)
  BY DEF TabInv, Consistent, Met, NoRequest
<1>8. MilestonesNameWhatIsShown
  BY DEF MilestonesNameWhatIsShown
<1> QED
  BY <1>3, <1>4, <1>5, <1>6, <1>7, <1>8 DEF IInv

LEMMA NextIInv == IInv /\ [Next]_vars => IInv'
<1> SUFFICES ASSUME IInv, [Next]_vars
             PROVE  IInv'
  OBVIOUS
<1>1. ASSUME NEW p \in Publishers, Publication(p)
      PROVE  IInv'
  BY <1>1, PublicationStep
<1>2. ASSUME NEW t \in Tabs, Browsing(t)
      PROVE  IInv'
  <2>1. UNCHANGED <<server, lock, pub>>
    BY <1>2 DEF Browsing, Open, Refresh, Read, Answer, RequestFails, Expose, Turn, Leave, Reload
  <2>2. TypeOK' /\ Sane(t)
    BY <1>2, BrowsingTypes, TabStep
  <2> QED
    BY <2>1, <2>2, SaneStep
<1>3. \A t \in Tabs : /\ tab[t] \in Tab /\ Named(tab[t])
                      /\ Consistent(tab[t], cache.revision)
                      /\ cache.revision \in Said(history) \cup {None}
  BY DEF IInv, TypeOK, TabInv, CacheInv, MilestonesNameWhatIsShown, Named
<1>4. CASE Revalidate \/ Revalidated \/ RevalidationFails
  <2>1. TypeOK'
    BY <1>4, BrowsingTypes
  <2>2. ASSUME NEW t \in Tabs
        PROVE  Consistent(tab'[t], cache'.revision) /\ Named(tab'[t])
    <3>1. tab' = tab
      BY <1>4, CacheStep
    <3>2. Consistent(tab[t], cache'.revision)
      BY <1>3, <1>4, CacheStep, LaterCache
    <3> QED
      BY <1>3, <3>1, <3>2
  <2> QED
    BY <1>4, <2>1, <2>2, CacheStep, BrowserAlone
<1>5. CASE Tick
  <2>1. TypeOK'
    BY <1>5, BrowsingTypes
  <2>2. CacheInv'
    BY <1>5, TickStep DEF IInv, CacheInv, server
  <2>3. ASSUME NEW t \in Tabs
        PROVE  Consistent(tab'[t], cache'.revision) /\ Named(tab'[t])
    <3>1. tab'[t] = tab[t] \/ tab'[t] = [tab[t] EXCEPT !.slept = @ + 1]
      BY <1>5, TickStep
    <3>2. /\ tab'[t].page = tab[t].page /\ tab'[t].status = tab[t].status
          /\ tab'[t].shown = tab[t].shown /\ tab'[t].request = tab[t].request
          /\ tab'[t].news = tab[t].news /\ tab'[t].exposed = tab[t].exposed
          /\ tab'[t].last = tab[t].last
      BY <1>3, <3>1 DEF Tab
    <3>3. Met(tab'[t]) = Met(tab[t]) /\ cache'.revision = cache.revision
      BY <1>5, <3>2, TickStep DEF Met
    <3> QED
      BY <1>3, <3>2, <3>3 DEF Consistent, Named
  <2> QED
    BY <1>5, <2>1, <2>2, <2>3, TickStep, BrowserAlone
<1>6. CASE UNCHANGED vars
  BY <1>6 DEF vars, IInv, TypeOK, LastPublishedIsActive, Order, PublisherInv, CacheInv, TabInv,
              Consistent, Met, Place, MilestonesNameWhatIsShown
<1> QED
  BY <1>1, <1>2, <1>4, <1>5, <1>6 DEF Next

\* The inductive invariant holds in every state: publishers take turns and no tab is ahead of
\* what the cache holds or will be told.
THEOREM InvariantHolds == Spec => []IInv
BY InitIInv, NextIInv, PTL DEF Spec

-----------------------------------------------------------------------------
(* Results *)

\* Every variable has its type, whatever publishers, the cache and the tabs do.
THEOREM TypeCorrect == Spec => []TypeOK
<1>1. IInv => TypeOK
  BY DEF IInv
<1> QED
  BY <1>1, InvariantHolds, PTL

\* Readers always find the revision published last, whole: never none of two, never two,
\* although a publication deactivates before it inserts (repository.drizzle.ts:61-62).
THEOREM OneActive == Spec => []LastPublishedIsActive
<1>1. IInv => LastPublishedIsActive
  BY DEF IInv
<1> QED
  BY <1>1, InvariantHolds, PTL

\* The milestones of a registration carry the revision the landing shows.
THEOREM MilestonesAreRight == Spec => []MilestonesNameWhatIsShown
<1>1. IInv => MilestonesNameWhatIsShown
  BY DEF IInv
<1> QED
  BY <1>1, InvariantHolds, PTL

\* Publishers that run at the same time do not refuse each other.
THEOREM Conflicts == Spec => OnlyUsedRevisionsConflict
<1> DEFINE Refused(p) == pub'[p].phase = "conflict" /\ pub[p].phase # "conflict"
<1>1. ASSUME IInv, [Next]_vars, NEW p \in Publishers, Refused(p)
      PROVE  pub[p].revision \in rows
  <2>1. pub \in [Publishers -> Publisher]
    BY <1>1 DEF IInv, TypeOK
  <2>2. PICK q \in Publishers : Publication(q)
    <3>1. pub' # pub
      BY <1>1
    <3> QED
      BY <1>1, <3>1 DEF Next, vars, Revalidate, Revalidated, RevalidationFails, Tick, Browsing,
             Open, Refresh, Read, Answer, RequestFails, Expose, Turn, Leave, Reload
  <2>3. CASE Insert(q)
    <3>1. active \ pub[q].off = {}
      BY <1>1, <2>3 DEF IInv, PublisherInv, Insert
    <3>2. CASE pub[q].revision \in rows
      <4>1. q = p
        BY <1>1, <2>1, <2>3 DEF Insert
      <4> QED
        BY <3>2, <4>1
    <3>3. CASE pub[q].revision \notin rows
      <4>1. pub' = [pub EXCEPT ![q].phase = "inserted"]
        BY <2>3, <3>1, <3>3 DEF Insert
      <4>2. pub'[p].phase \in {pub[p].phase, "inserted"}
        BY <2>1, <4>1
      <4> QED
        BY <1>1, <4>2
    <3> QED
      BY <3>2, <3>3
  <2>4. CASE ~Insert(q)
    <3>1. pub'[p].phase \in {pub[p].phase} \cup (Phases \ {"conflict"})
      BY <2>1, <2>2, <2>4
         DEF Publication, Publish, Lock, Deactivate, Commit, Abort, Publisher, Phases
    <3> QED
      BY <1>1, <3>1
  <2> QED
    BY <2>3, <2>4
<1>2. IInv /\ [Next]_vars => [\A p \in Publishers : Refused(p) => pub[p].revision \in rows]_vars
  BY <1>1
<1> QED
  BY <1>2, InvariantHolds, PTL DEF Spec, OnlyUsedRevisionsConflict

\* What a tab shows is only ever replaced by what the cache or the server answers.
LEMMA Shown ==
    ASSUME IInv, NEW t \in Tabs, Browsing(t), tab'[t].shown # None, tab'[t].shown # tab[t].shown
    PROVE  \/ tab'[t].shown = cache.revision
           \/ tab[t].request.at = "read" /\ tab'[t].shown = tab[t].request.answer
<1>1. tab \in [Tabs -> Tab] /\ tab[t] \in Tab
  BY DEF IInv, TypeOK
<1>2. ASSUME NEW x \in Tab, x.shown = tab[t].shown, Ask(t, x)
      PROVE  tab'[t].shown = cache.revision
  <2>1. CASE tab' = [tab EXCEPT ![t] = Delivered(x, cache.revision)]
    BY <1>1, <2>1 DEF Delivered, Tab
  <2>2. CASE tab' = [tab EXCEPT ![t] = [x EXCEPT !.request = Sent]]
    BY <1>1, <1>2, <2>2 DEF Tab
  <2> QED
    BY <1>2, <2>1, <2>2 DEF Ask
<1>3. CASE Open(t)
  <2>1. PICK page \in {"landing", "steps"} : Ask(t, [tab[t] EXCEPT !.page = page, !.slept = 0])
    BY <1>3 DEF Open
  <2> DEFINE x == [tab[t] EXCEPT !.page = page, !.slept = 0]
  <2>2. x \in Tab /\ x.shown = tab[t].shown
    BY <1>1, Shapes DEF Tab
  <2> QED
    BY <1>2, <2>1, <2>2
<1>4. CASE Refresh(t)
  <2> DEFINE x == [tab[t] EXCEPT !.slept = 0]
  <2>1. x \in Tab /\ x.shown = tab[t].shown /\ Ask(t, x)
    BY <1>1, <1>4, Shapes DEF Tab, Refresh
  <2> QED
    BY <1>2, <2>1
<1>5. CASE Answer(t)
  BY <1>1, <1>5 DEF Answer, Delivered, Tab
<1>6. CASE Leave(t)
  BY <1>1, <1>6 DEF Leave, Tab
<1>7. CASE Read(t) \/ RequestFails(t) \/ Turn(t) \/ Reload(t)
  BY <1>1, <1>7 DEF Read, RequestFails, Turn, Reload, Tab
<1>8. CASE Expose(t)
  BY <1>1, <1>8 DEF Expose, Tab
<1> QED
  BY <1>3, <1>4, <1>5, <1>6, <1>7, <1>8 DEF Browsing

\* A tab never goes back to an older revision, however late the answers come and whatever
\* other tabs and background requests have put in the cache.
THEOREM Monotone == Spec => NeverOlder
<1>1. ASSUME IInv, [Next]_vars, NEW t \in Tabs, tab[t].shown # None, tab'[t].shown # None
      PROVE  Place(tab[t].shown) <= Place(tab'[t].shown)
  <2>1. /\ tab \in [Tabs -> Tab] /\ tab[t] \in Tab /\ Consistent(tab[t], cache.revision)
        /\ tab[t].shown \in Met(tab[t])
    BY <1>1 DEF IInv, TypeOK, TabInv, Met
  <2>2. CASE tab'[t].shown = tab[t].shown
    <3>1. Place(tab[t].shown) \in Nat
      BY <1>1, <2>1, PlacesAreNumbers DEF IInv, Consistent
    <3> QED
      BY <2>2, <3>1
  <2>3. CASE tab'[t].shown # tab[t].shown
    <3>1. PICK u \in Tabs : Browsing(u)
      <4>1. ~Tick
        BY <1>1, <2>1, <2>3, TickStep DEF Tab
      <4>2. tab' # tab
        BY <2>3
      <4> QED
        BY <1>1, <4>1, <4>2
           DEF Next, vars, Revalidate, Revalidated, RevalidationFails, Publication, browser,
               Publish, Lock, Deactivate, Insert, Commit, Abort
    <3>2. u = t
      BY <1>1, <2>1, <2>3, <3>1, TabStep DEF Sane
    <3>3. \/ tab'[t].shown = cache.revision
          \/ tab[t].request.at = "read" /\ tab'[t].shown = tab[t].request.answer
      BY <1>1, <2>3, <3>1, <3>2, Shown
    <3> QED
      BY <2>1, <3>3 DEF Consistent
  <2> QED
    BY <2>2, <2>3
<1>2. IInv /\ [Next]_vars =>
        [\A t \in Tabs :
            tab[t].shown # None /\ tab'[t].shown # None
                => Place(tab[t].shown) <= Place(tab'[t].shown)]_vars
  BY <1>1
<1> QED
  BY <1>2, InvariantHolds, PTL DEF Spec, NeverOlder
=============================================================================
