------------------------ MODULE ObjectStorageTheorems -------------------------
(***************************************************************************)
(* Proofs about ObjectStorage, for any number of requests, keys, uploads   *)
(* and crashes: what is stored stays whole until a removal, a download     *)
(* reads one object, temporary directories are swept, and the storage      *)
(* implements ObjectStore.                                                 *)
(*                                                                         *)
(* A file of a key appears only by the renaming of a directory onto a free *)
(* or empty one, and goes only in a recursive removal; a removal of a key  *)
(* reaches no farther than the keys below it (Confined), and it has marked *)
(* as exposed every upload it can reach (Exposes).                         *)
(***************************************************************************)
EXTENDS ObjectStorage, TLAPS

Putting == {"open", "stream", "metadata", "rename"}
Reading == {"readMetadata", "stat", "readBody", "end"}

RequestType ==
    [phase : Phases, kind : Kinds, key : Keys, upload : Uploads \cup {None},
     length : Nat, limit : Nat, todo : SUBSET Entries, listed : SUBSET Places,
     seen : [metadata : Uploads \cup {None}, length : Uploads \cup {None},
             body : Uploads \cup {None}],
     disturbed : BOOLEAN]

\* The key whose removal reaches the directory.
KeyOf(p) == IF p \in Keys THEN p ELSE upload[p].key

Removing(x) == x.kind = "remove" /\ x.phase = "remove"

\* A request has an upload from its temporary directory on until that is removed.
Shaped(x) ==
    /\ x.upload # None => x.upload \in DOMAIN upload \ created
    /\ x.phase \in Putting =>
          /\ x.kind = "put" /\ x.upload # None
          /\ upload[x.upload] = [key |-> x.key, length |-> x.length, limit |-> x.limit]
    /\ x.phase = "remove" => \/ x.kind = "put" /\ x.upload # None
                             \/ x.kind = "remove" /\ x.upload = None
    /\ x.phase \notin Putting \cup {"remove"} => x.upload = None
    /\ x.phase \in {"exists", "parent", "temporary"} => x.kind = "put"
    /\ x.phase = "find" => x.kind = "remove"
    /\ x.phase # "remove" => x.listed = {}

\* A removal reaches only what lies below its key, a release its own directory.
Confined(x) ==
    x.phase = "remove" => \A e \in x.todo :
        /\ e.at \in Keys \cup DOMAIN upload
        /\ x.upload # None => e.at = x.upload
        /\ x.upload = None => KeyOf(e.at) \in Below(x.key)

\* Every upload a removal can reach is marked.
Exposes(x) ==
    Removing(x) => \A u \in DOMAIN upload : upload[u].key \in Below(x.key) => u \in exposed

\* An upload no removal has reached has written what its phase says.
Progress(x) ==
    x.phase \in Putting =>
        /\ x.phase = "open" => written[x.upload] = 0
        /\ x.phase = "stream" => written[x.upload] <= x.limit
        /\ x.phase \in {"metadata", "rename"} =>
              written[x.upload] = x.length /\ x.length <= x.limit
        /\ x.upload \notin exposed =>
              files[x.upload] =
                 [metadata |-> IF x.phase = "rename" THEN x.upload ELSE None,
                  body |-> IF x.phase = "open" THEN None ELSE x.upload]

\* What an undisturbed download has read is still there.
Sees(x) ==
    x.phase \in Reading /\ ~x.disturbed =>
        /\ ~BeingRemoved(x.key)
        /\ x.phase # "readMetadata" =>
              /\ x.seen.metadata # None
              /\ files[x.key].metadata = x.seen.metadata
        /\ x.phase \in {"readBody", "end"} => x.seen.length = x.seen.metadata
        /\ x.phase = "end" => x.seen.body = x.seen.metadata

\* A release has still to remove what is left of its directory.
Sweeps(x) ==
    x.phase = "remove" /\ x.upload \in dirs =>
        /\ Entry("directory", x.upload) \in x.todo
        /\ x.upload \in x.listed =>
              \A f \in {"metadata", "body"} :
                 files[x.upload][f] # None => Entry(f, x.upload) \in x.todo

Sound(x) ==
    /\ Shaped(x)
    /\ Confined(x)
    /\ Exposes(x)
    /\ Progress(x)
    /\ Sees(x)
    /\ Sweeps(x)

\* Files lie in directories; a directory never mixes two uploads.
Disk ==
    /\ \A p \in Places \ dirs : files[p] = Empty
    /\ \A u \in Uploads \ DOMAIN upload : written[u] = 0
    /\ \A u \in Uploads : /\ files[u].metadata \in {u, None}
                          /\ files[u].body \in {u, None}
    /\ \A p \in Places : files[p].metadata # None /\ files[p].body # None
                            => files[p].metadata = files[p].body

\* No two requests have the same upload.
Alone ==
    \A q, r \in Requests : Upload(q) = Upload(r) /\ Upload(r) # None => q = r

IInv ==
    /\ TypeOK
    /\ Disk
    /\ Alone
    /\ \A r \in Requests : Sound(request[r])
    /\ StoredUntilRemoved
    /\ TemporariesAreSwept

-----------------------------------------------------------------------------
(* Facts about the state                                                   *)

\* The types of a request, and what the invariant says of it.
LEMMA RequestTypes ==
    ASSUME IInv, NEW r \in Requests
    PROVE  /\ request[r] \in RequestType
           /\ Sound(request[r])
           /\ Key(r) \in Keys
           /\ Upload(r) \in DOMAIN upload \cup {None}
           /\ DOMAIN upload \subseteq Uploads
<1>1. request \in [Requests -> RequestType]
  BY DEF IInv, TypeOK, RequestType
<1>2. request[r] \in RequestType
  BY <1>1
<1>3. Sound(request[r])
  BY DEF IInv
<1>4. Key(r) \in Keys
  BY <1>2 DEF RequestType, Key
<1>5. Upload(r) \in DOMAIN upload \cup {None}
  BY <1>3 DEF Sound, Shaped, Upload
<1> QED
  BY <1>2, <1>3, <1>4, <1>5 DEF IInv, TypeOK

\* No request, and no upload in its hands.
LEMMA IdleSound ==
    /\ Idle \in RequestType
    /\ Idle.upload = None /\ Idle.listed = {}
    /\ ~Removing(Idle)
    /\ Sound(Idle) /\ Sound(Idle)'
<1> DEFINE k0 == CHOOSE k \in Keys : TRUE
<1>1. k0 \in Keys
  BY ObjectStorageAssumption
<1> HIDE DEF k0
<1>2. Idle = [phase |-> "idle", kind |-> "get", key |-> k0,
              upload |-> None, length |-> 0, limit |-> 0, todo |-> {}, listed |-> {},
              seen |-> [metadata |-> None, length |-> None, body |-> None],
              disturbed |-> FALSE]
  BY DEF Idle, k0
<1>3. Idle \in RequestType
  BY <1>1, <1>2 DEF RequestType, Phases, Kinds
<1>4. Sound(Idle) /\ Sound(Idle)'
  BY <1>2, ObjectStorageAssumption
     DEF Sound, Shaped, Confined, Exposes, Progress, Sees, Sweeps, Removing,
         Putting, Reading
<1> QED
  BY <1>2, <1>3, <1>4 DEF Removing

\* A request that is replaced leaves the others as they are.
LEMMA Replaced ==
    ASSUME IInv, NEW r \in Requests, NEW x \in RequestType,
           request' = [request EXCEPT ![r] = x]
    PROVE  /\ request' \in [Requests -> RequestType]
           /\ request'[r] = x
           /\ \A q \in Requests \ {r} : request'[q] = request[q]
<1>1. request \in [Requests -> RequestType]
  BY DEF IInv, TypeOK, RequestType
<1> QED
  BY <1>1

-----------------------------------------------------------------------------
(* What a step of one request leaves to the others                         *)

\* Uploads and their marks only grow, and an upload that begins while its key
\* is being removed is marked.
UploadsGrow ==
    /\ DOMAIN upload \subseteq DOMAIN upload'
    /\ \A u \in DOMAIN upload : upload'[u] = upload[u]
    /\ exposed \subseteq exposed'
    /\ \A u \in DOMAIN upload' \ DOMAIN upload :
          BeingRemoved(upload'[u].key) => u \in exposed'

\* A step of r writes to its own upload or to the free directory of a key, and
\* takes away from its own upload or from what its removal may reach.
FilesTouched(r) ==
    /\ \A p \in Places : files'[p] # files[p] =>
          \/ p = Upload(r)
          \/ p \in Keys /\ files[p] = Empty
          \/ /\ Removing(request[r])
             /\ p \in Keys \cup DOMAIN upload /\ KeyOf(p) \in Below(Key(r))
             /\ \A f \in {"metadata", "body"} : files'[p][f] # None => files[p][f] # None
    /\ \A u \in DOMAIN upload \ {Upload(r)} : written'[u] = written[u]
    /\ \A u \in DOMAIN upload : u \in dirs' => u \in dirs

\* Where nothing was removed from the outside, nothing has changed.
LEMMA Untouched ==
    ASSUME IInv, NEW r \in Requests, FilesTouched(r), UploadsGrow,
           NEW u \in DOMAIN upload, u # Upload(r), u \notin exposed'
    PROVE  /\ files'[u] = files[u]
           /\ files[upload[u].key] # Empty => files'[upload[u].key] = files[upload[u].key]
<1>1. u \in Uploads /\ upload[u].key \in Keys /\ Upload(r) \notin Keys
  <2>1. upload \in [DOMAIN upload -> [key : Keys, length : Nat, limit : Nat]]
    BY DEF IInv, TypeOK
  <2>2. upload[u].key \in Keys
    BY <2>1
  <2> QED
    BY <2>2, RequestTypes, ObjectStorageAssumption
<1>2. u \notin exposed
  BY DEF UploadsGrow
<1>3. Removing(request[r]) => upload[u].key \notin Below(Key(r))
  BY <1>2, RequestTypes DEF Sound, Exposes, Key
<1>4. KeyOf(u) = upload[u].key /\ KeyOf(upload[u].key) = upload[u].key
  BY <1>1, ObjectStorageAssumption DEF KeyOf
<1>5. u \in Places /\ upload[u].key \in Places /\ u \notin Keys
  BY <1>1, ObjectStorageAssumption DEF Places
<1> QED
  BY <1>1, <1>3, <1>4, <1>5 DEF FilesTouched

\* A key that holds something changes only while it is being removed.
LEMMA KeyKept ==
    ASSUME IInv, NEW r \in Requests, FilesTouched(r),
           NEW k \in Keys, files[k] # Empty, ~BeingRemoved(k)
    PROVE  files'[k] = files[k]
<1>1. k # Upload(r)
  BY RequestTypes, ObjectStorageAssumption
<1>2. Removing(request[r]) => k \notin Below(Key(r))
  BY DEF BeingRemoved, Removing, Phase
<1> QED
  BY <1>1, <1>2 DEF FilesTouched, KeyOf, Places

\* The other requests stay sound.
LEMMA OthersSound ==
    ASSUME IInv, TypeOK', NEW r \in Requests, NEW x \in RequestType,
           request' = [request EXCEPT ![r] = x],
           Removing(x) => Removing(request[r]) /\ x.key = Key(r),
           FilesTouched(r), UploadsGrow,
           \A u \in created' \ created : u = Upload(r),
           NEW q \in Requests, q # r
    PROVE  Sound(request[q])'
<1>0. PICK y : y = request[q]
  OBVIOUS
<1>1. request'[q] = y
  BY <1>0, Replaced
<1>2. Sound(y) /\ y \in RequestType /\ y.upload \in DOMAIN upload \cup {None} /\ Upload(q) = y.upload
  BY <1>0, RequestTypes DEF Upload
<1>3. y.upload # None => y.upload # Upload(r)
  BY <1>2 DEF IInv, Alone
<1>4. Upload(r) \in DOMAIN upload \cup {None}
  BY RequestTypes
<1>5. \A k \in Keys : BeingRemoved(k)' => BeingRemoved(k)
  BY Replaced DEF BeingRemoved, Removing, Phase, Key
<1>6. Shaped(y)'
  <2>1. y.upload # None => y.upload \in DOMAIN upload' \ created'
    BY <1>2, <1>3 DEF Sound, Shaped, UploadsGrow
  <2>2. y.phase \in Putting => upload'[y.upload] = upload[y.upload]
    BY <1>2 DEF Sound, Shaped, UploadsGrow
  <2> QED
    BY <1>2, <2>1, <2>2 DEF Sound, Shaped
<1>7. Confined(y)'
  <2> SUFFICES ASSUME y.phase = "remove", NEW e \in y.todo
               PROVE  /\ e.at \in Keys \cup DOMAIN upload'
                      /\ y.upload # None => e.at = y.upload
                      /\ y.upload = None => KeyOf(e.at)' \in Below(y.key)
    BY DEF Confined, Below
  <2>1. /\ e.at \in Keys \cup DOMAIN upload
        /\ y.upload # None => e.at = y.upload
        /\ y.upload = None => KeyOf(e.at) \in Below(y.key)
    BY <1>2 DEF Sound, Confined
  <2>2. KeyOf(e.at)' = KeyOf(e.at)
    BY <2>1 DEF KeyOf, UploadsGrow
  <2> QED
    BY <2>1, <2>2 DEF UploadsGrow
<1>8. Exposes(y)'
  <2> SUFFICES ASSUME Removing(y), NEW u \in DOMAIN upload', upload'[u].key \in Below(y.key)
               PROVE  u \in exposed'
    BY DEF Exposes, Below, Removing
  <2>1. CASE u \in DOMAIN upload
    BY <1>2, <2>1 DEF Sound, Exposes, UploadsGrow
  <2>2. CASE u \notin DOMAIN upload
    <3>1. BeingRemoved(upload'[u].key)
      BY <1>0 DEF BeingRemoved, Removing, Phase, Key
    <3> QED
      BY <2>2, <3>1 DEF UploadsGrow
  <2> QED
    BY <2>1, <2>2
<1>9. Progress(y)'
  <2> SUFFICES ASSUME y.phase \in Putting
               PROVE  Progress(y)'
    BY DEF Progress
  <2>1. y.upload \in DOMAIN upload /\ y.upload # Upload(r)
    BY <1>2, <1>3 DEF Sound, Shaped
  <2>2. written'[y.upload] = written[y.upload]
    BY <2>1 DEF FilesTouched
  <2>3. y.upload \notin exposed' => files'[y.upload] = files[y.upload] /\ y.upload \notin exposed
    BY <2>1, Untouched DEF UploadsGrow
  <2> QED
    BY <1>2, <2>2, <2>3 DEF Sound, Progress
<1>10. Sees(y)'
  <2> SUFFICES ASSUME y.phase \in Reading, ~y.disturbed
               PROVE  Sees(y)'
    BY DEF Sees
  <2>1. y.key \in Keys
    BY <1>2 DEF RequestType
  <2>2. ~BeingRemoved(y.key) /\ ~BeingRemoved(y.key)'
    BY <1>2, <1>5, <2>1 DEF Sound, Sees
  <2>3. y.phase # "readMetadata" => files[y.key] # Empty
    BY <1>2 DEF Sound, Sees, Empty
  <2>4. y.phase # "readMetadata" => files'[y.key] = files[y.key]
    BY <2>1, <2>2, <2>3, KeyKept
  <2> QED
    BY <1>2, <2>2, <2>4 DEF Sound, Sees
<1>11. Sweeps(y)'
  <2> SUFFICES ASSUME y.phase = "remove", y.upload \in dirs'
               PROVE  Sweeps(y)'
    BY DEF Sweeps
  <2>1. None \notin dirs'
    BY ObjectStorageAssumption DEF TypeOK
  <2>2. /\ y.upload \in DOMAIN upload /\ y.upload # Upload(r)
        /\ y.upload \in dirs /\ y.upload \in Places /\ y.upload \notin Keys
    BY <1>2, <1>3, <2>1, RequestTypes, ObjectStorageAssumption DEF FilesTouched, Places
  <2>3. \A f \in {"metadata", "body"} :
           files'[y.upload][f] # None => files[y.upload][f] # None
    BY <2>2 DEF FilesTouched
  <2> QED
    BY <1>2, <2>2, <2>3 DEF Sound, Sweeps, Entry
<1>12. /\ Shaped(request[q])'
       /\ Confined(request[q])'
       /\ Exposes(request[q])'
  BY <1>1, <1>6, <1>7, <1>8 DEF Shaped, Confined, Exposes, Removing
<1>13. /\ Progress(request[q])'
       /\ Sees(request[q])'
       /\ Sweeps(request[q])'
  BY <1>1, <1>9, <1>10, <1>11 DEF Progress, Sees, Sweeps
<1> QED
  BY <1>12, <1>13 DEF Sound

\* A step of one request keeps the invariant if its own record stays sound,
\* whatever it adds is whole, and it leaves no directory behind unless it
\* marks it.
LEMMA Step ==
    ASSUME IInv, TypeOK', Disk', NEW r \in Requests, NEW x \in RequestType,
           request' = [request EXCEPT ![r] = x],
           Removing(x) => Removing(request[r]) /\ x.key = Key(r),
           FilesTouched(r), UploadsGrow,
           created' \subseteq created \cup ({Upload(r)} \ {None}),
           \A u \in created' \ created : u \notin exposed' => Whole(u)',
           orphaned \subseteq orphaned',
           x.upload \in {None, Upload(r)} \cup (DOMAIN upload' \ DOMAIN upload),
           \A u \in dirs' \cap Uploads : (u = Upload(r) \/ u \notin DOMAIN upload)
              => u = x.upload \/ u \in orphaned',
           Sound(request[r])'
    PROVE  IInv'
<1>1. request'[r] = x /\ \A q \in Requests \ {r} : request'[q] = request[q]
  BY Replaced
<1>2. \A q \in Requests : Sound(request[q])'
  BY OthersSound
<1>3. Alone'
  <2>1. \A q \in Requests : Upload(q) \in DOMAIN upload \cup {None}
    BY RequestTypes
  <2>2. Alone
    BY DEF IInv
  <2> QED
    BY <1>1, <2>1, <2>2 DEF Alone, Upload
<1>4. StoredUntilRemoved'
  <2> SUFFICES ASSUME NEW u \in created', u \notin exposed'
               PROVE  Whole(u)'
    BY DEF StoredUntilRemoved
  <2>1. CASE u \in created
    <3>1. u \in DOMAIN upload /\ u # Upload(r) /\ u \notin exposed
      <4>1. created \subseteq DOMAIN upload /\ DOMAIN upload \subseteq Uploads
        BY DEF IInv, TypeOK
      <4>2. Upload(r) # None => Upload(r) \notin created
        BY RequestTypes DEF Sound, Shaped, Upload
      <4>3. u # Upload(r)
        BY <2>1, <4>1, <4>2, ObjectStorageAssumption
      <4> QED
        BY <2>1, <4>1, <4>3 DEF UploadsGrow
    <3>2. Whole(u)
      BY <2>1, <3>1 DEF IInv, StoredUntilRemoved
    <3>3. files[upload[u].key] # Empty
      BY <3>1, <3>2, RequestTypes, ObjectStorageAssumption DEF Whole, Empty
    <3>4. files'[upload[u].key] = files[upload[u].key]
      BY <3>1, <3>3, Untouched
    <3>5. upload'[u] = upload[u] /\ written'[u] = written[u]
      BY <3>1 DEF UploadsGrow, FilesTouched
    <3> QED
      BY <3>2, <3>4, <3>5 DEF Whole
  <2>2. CASE u \notin created
    BY <2>2
  <2> QED
    BY <2>1, <2>2
<1>5. TemporariesAreSwept'
  <2> SUFFICES ASSUME NEW u \in dirs' \cap Uploads
               PROVE  u \in orphaned' \/ \E q \in Requests : Upload(q)' = u
    BY DEF TemporariesAreSwept
  <2>1. CASE u = Upload(r) \/ u \notin DOMAIN upload
    BY <1>1, <2>1 DEF Upload
  <2>2. CASE u # Upload(r) /\ u \in DOMAIN upload
    <3>1. u \in dirs
      BY <2>2 DEF FilesTouched
    <3>2. u \in orphaned \/ \E q \in Requests : Upload(q) = u
      BY <3>1 DEF IInv, TemporariesAreSwept
    <3> QED
      BY <1>1, <2>2, <3>2 DEF Upload
  <2> QED
    BY <2>1, <2>2
<1> QED
  BY <1>2, <1>3, <1>4, <1>5 DEF IInv

-----------------------------------------------------------------------------
(* Steps that leave the disk alone                                         *)

\* A request goes on, or ends, without a call that changes the disk.
LEMMA LocalStep ==
    ASSUME IInv, NEW r \in Requests, NEW x \in RequestType,
           request' = [request EXCEPT ![r] = x],
           UNCHANGED <<disk, upload, created, exposed>>,
           orphaned \subseteq orphaned', orphaned' \subseteq DOMAIN upload,
           sent' \in 0..MaxRequests, crashes' \in 0..MaxCrashes,
           ~Removing(x),
           \/ x.upload = Upload(r)
           \/ x.upload = None /\ Upload(r) \notin dirs \ orphaned',
           Sound(x)
    PROVE  IInv'
<1>1. request'[r] = x /\ request' \in [Requests -> RequestType]
  BY Replaced
<1>2. TypeOK'
  BY <1>1 DEF IInv, TypeOK, RequestType, disk
<1>3. Disk'
  BY DEF IInv, Disk, disk
<1>4. FilesTouched(r) /\ UploadsGrow
  BY DEF FilesTouched, UploadsGrow, disk
<1>5. \A k \in Keys : BeingRemoved(k)' => BeingRemoved(k)
  BY <1>1, Replaced DEF BeingRemoved, Removing, Phase, Key
<1>6. x.key \in Keys
  BY DEF RequestType
<1>7. Sound(request[r])'
  <2>1. Shaped(request[r])' /\ Confined(request[r])' /\ Exposes(request[r])'
    BY <1>1 DEF Sound, Shaped, Confined, Exposes, Removing, KeyOf, Below
  <2>2. Progress(request[r])' /\ Sweeps(request[r])'
    BY <1>1 DEF Sound, Progress, Sweeps, disk
  <2>3. Sees(request[r])'
    BY <1>1, <1>5, <1>6 DEF Sound, Sees, disk
  <2> QED
    BY <2>1, <2>2, <2>3 DEF Sound
<1>8. \A u \in dirs' \cap Uploads : (u = Upload(r) \/ u \notin DOMAIN upload)
              => u = x.upload \/ u \in orphaned'
  <2>1. dirs' = dirs /\ dirs \subseteq Keys \cup DOMAIN upload
    BY DEF IInv, TypeOK, disk
  <2> QED
    BY <2>1, ObjectStorageAssumption
<1> QED
  BY <1>2, <1>3, <1>4, <1>7, <1>8, Step

\* A request that has no upload may end.
LEMMA Finishing ==
    ASSUME IInv, NEW r \in Requests, Finish(r), Upload(r) = None,
           UNCHANGED <<disk, upload, created, exposed, orphaned, env>>
    PROVE  IInv'
<1>1. None \notin dirs
  BY ObjectStorageAssumption DEF IInv, TypeOK
<1>2. sent' \in 0..MaxRequests /\ crashes' \in 0..MaxCrashes /\ orphaned \subseteq DOMAIN upload
  BY DEF IInv, TypeOK, env
<1> QED
  BY <1>1, <1>2, IdleSound, LocalStep DEF Finish

\* The arrival of a request.
LEMMA ArriveStep ==
    ASSUME IInv, NEW r \in Requests, NEW k \in Keys, NEW kind, NEW phase,
           NEW length \in Nat, NEW limit \in Nat,
           <<kind, phase>> \in {<<"put", "exists">>, <<"remove", "find">>,
                                <<"get", "readMetadata">>},
           Arrive(r, kind, k, phase, length, limit)
    PROVE  IInv'
<1> DEFINE x == [Idle EXCEPT !.kind = kind, !.key = k, !.phase = phase,
                             !.length = length, !.limit = limit,
                             !.disturbed = BeingRemoved(k)]
<1>1. /\ x \in RequestType
      /\ x.phase = phase /\ x.upload = None /\ x.kind = kind /\ x.key = k
      /\ x.listed = {}
      /\ x.disturbed = BeingRemoved(k)
  <2>1. kind \in Kinds /\ phase \in Phases
    BY DEF Kinds, Phases
  <2>2. BeingRemoved(k) \in BOOLEAN
    BY DEF BeingRemoved
  <2>3. PICK b \in BOOLEAN : b = BeingRemoved(k)
    BY <2>2
  <2> QED
    BY <2>1, <2>3, IdleSound DEF RequestType
<1>2. Sound(x)
  BY <1>1, ObjectStorageAssumption
     DEF Sound, Shaped, Confined, Exposes, Progress, Sees, Sweeps, Putting, Reading, Removing
<1>3. Upload(r) = None
  BY RequestTypes DEF Sound, Shaped, Arrive, Phase, Upload, Putting
<1>4. /\ sent' \in 0..MaxRequests /\ crashes' \in 0..MaxCrashes
      /\ orphaned \subseteq DOMAIN upload /\ UNCHANGED <<disk, upload, created, exposed, orphaned>>
  BY ObjectStorageAssumption DEF IInv, TypeOK, Arrive, history, disk
<1>5. request' = [request EXCEPT ![r] = x]
  BY DEF Arrive
<1> HIDE DEF x
<1> QED
  BY <1>1, <1>2, <1>3, <1>4, <1>5, LocalStep DEF Removing

\* Bounds of the counters after a step that leaves them alone.
LEMMA Counters ==
    ASSUME IInv, UNCHANGED env
    PROVE  /\ sent' \in 0..MaxRequests /\ crashes' \in 0..MaxCrashes
           /\ orphaned \subseteq DOMAIN upload
BY DEF IInv, TypeOK, env

\* A request goes from a phase to another one without a call that writes.
LEMMA GotoStep ==
    ASSUME IInv, NEW r \in Requests, NEW phase,
           <<Phase(r), phase>> \in {<<"exists", "parent">>, <<"stream", "metadata">>},
           Phase(r) = "stream" => written[Upload(r)] = request[r].length /\ request[r].length <= request[r].limit,
           Goto(r, phase), UNCHANGED <<env, disk, upload, history>>
    PROVE  IInv'
<1> DEFINE x == [request[r] EXCEPT !.phase = phase]
<1>1. /\ request[r] \in RequestType /\ Sound(request[r])
      /\ Upload(r) = request[r].upload /\ Phase(r) = request[r].phase
  BY RequestTypes DEF Upload, Phase
<1>2. phase \in Phases /\ x \in RequestType /\ x.upload = request[r].upload /\ x.phase = phase
      /\ x.kind = request[r].kind /\ x.key = request[r].key /\ x.length = request[r].length
      /\ x.limit = request[r].limit /\ x.todo = request[r].todo
      /\ x.listed = request[r].listed
  BY <1>1 DEF RequestType, Phases
<1>3. request' = [request EXCEPT ![r] = x]
  BY DEF Goto
<1> HIDE DEF x
<1>4. Shaped(x) /\ ~Removing(x)
  BY <1>1, <1>2 DEF Sound, Shaped, Removing, Putting
<1>5. Confined(x) /\ Exposes(x) /\ Sees(x) /\ Sweeps(x)
  BY <1>1, <1>2, <1>4 DEF Sound, Confined, Exposes, Sees, Sweeps, Reading
<1>6. Progress(x)
  BY <1>1, <1>2 DEF Sound, Progress, Putting
<1> QED
  BY <1>1, <1>2, <1>3, <1>4, <1>5, <1>6, Counters, LocalStep DEF Sound, history, disk

LEMMA AlreadyExistsStep ==
    ASSUME IInv, NEW r \in Requests, AlreadyExists(r) PROVE IInv'
<1>1. Phase(r) = "exists" /\ UNCHANGED <<env, disk, upload, history>>
  BY DEF AlreadyExists
<1>2. Upload(r) = None
  BY <1>1, RequestTypes DEF Sound, Shaped, Putting, Phase, Upload
<1>3. CASE Key(r) \in dirs
  BY <1>1, <1>2, <1>3, Finishing DEF AlreadyExists, history
<1>4. CASE Key(r) \notin dirs
  BY <1>1, <1>4, GotoStep DEF AlreadyExists
<1> QED
  BY <1>3, <1>4

LEMMA EndBodyStep ==
    ASSUME IInv, NEW r \in Requests, EndBody(r) PROVE IInv'
<1>1. Phase(r) = "stream" /\ written[Upload(r)] = request[r].length
      /\ Goto(r, "metadata") /\ UNCHANGED <<env, disk, upload, history>>
  BY DEF EndBody
<1>2. request[r].length <= request[r].limit
  BY <1>1, RequestTypes DEF Sound, Progress, Putting, Phase, Upload
<1> QED
  BY <1>1, <1>2, GotoStep

LEMMA FailStep ==
    ASSUME IInv, NEW r \in Requests, Fail(r) PROVE IInv'
<1> DEFINE x == [request[r] EXCEPT !.phase = "remove",
                                   !.todo = {Entry("directory", Upload(r))}]
<1>1. /\ request[r] \in RequestType /\ Sound(request[r])
      /\ Upload(r) = request[r].upload /\ Phase(r) = request[r].phase
      /\ request[r].phase \in Putting
      /\ UNCHANGED <<env, disk, upload, history>>
  BY RequestTypes DEF Upload, Phase, Fail, Putting
<1>2. Upload(r) \in DOMAIN upload /\ Upload(r) \in Uploads /\ Upload(r) # None
      /\ request[r].kind = "put" /\ Upload(r) \notin created
  BY <1>1, RequestTypes DEF Sound, Shaped
<1>3. {Entry("directory", Upload(r))} \in SUBSET Entries
  BY <1>2 DEF Entry, Entries, Places
<1>4. x \in RequestType /\ x.upload = Upload(r) /\ x.phase = "remove" /\ x.kind = "put"
      /\ x.todo = {Entry("directory", Upload(r))} /\ x.listed = request[r].listed
  BY <1>1, <1>2, <1>3 DEF RequestType, Phases
<1>5. request' = [request EXCEPT ![r] = x]
  BY DEF Fail, Release
<1> HIDE DEF x
<1>6. Shaped(x) /\ ~Removing(x) /\ Exposes(x) /\ Progress(x) /\ Sees(x)
  BY <1>2, <1>4 DEF Shaped, Removing, Exposes, Progress, Sees, Putting, Reading
<1>7. Confined(x)
  BY <1>2, <1>4 DEF Confined, Entry
<1>8. x.listed = {}
  BY <1>1, <1>4 DEF Sound, Shaped, Putting
<1>9. Sweeps(x)
  BY <1>4, <1>8 DEF Sweeps
<1> QED
  BY <1>1, <1>4, <1>5, <1>6, <1>7, <1>9, Counters, LocalStep DEF Sound, history, disk

\* A request that has no release to make ends.
LEMMA GiveUpStep ==
    ASSUME IInv, NEW r \in Requests, GiveUp(r) PROVE IInv'
<1>1. /\ Phase(r) \in {"exists", "parent", "temporary", "find",
                         "readMetadata", "stat", "readBody"}
      /\ Finish(r) /\ UNCHANGED <<env, disk, upload, history>>
  BY DEF GiveUp
<1>2. Upload(r) = None
  BY <1>1, RequestTypes DEF Sound, Shaped, Putting, Phase, Upload
<1> QED
  BY <1>1, <1>2, Finishing DEF history

\* A removal is cut short: the directory of a release is marked.
LEMMA RefuseRemovalStep ==
    ASSUME IInv, NEW r \in Requests, RefuseRemoval(r) PROVE IInv'
<1>1. /\ request[r].phase = "remove" /\ Sound(request[r]) /\ Upload(r) = request[r].upload
      /\ request' = [request EXCEPT ![r] = Idle]
      /\ orphaned' = IF request[r].kind = "put" THEN orphaned \cup {Upload(r)} ELSE orphaned
      /\ UNCHANGED <<env, disk, upload, created, exposed>>
  BY RequestTypes DEF RefuseRemoval, Phase, Upload, Finish
<1>2. CASE request[r].kind = "put"
  <2>1. Upload(r) \in DOMAIN upload
    BY <1>1, <1>2 DEF Sound, Shaped, Putting
  <2> QED
    BY <1>1, <1>2, <2>1, Counters, IdleSound, LocalStep
<1>3. CASE request[r].kind # "put"
  <2>1. Upload(r) = None
    BY <1>1, <1>3 DEF Sound, Shaped, Putting
  <2>2. None \notin dirs
    BY ObjectStorageAssumption DEF IInv, TypeOK
  <2> QED
    BY <1>1, <1>3, <2>1, <2>2, Counters, IdleSound, LocalStep
<1> QED
  BY <1>2, <1>3

LEMMA DownloadedStep ==
    ASSUME IInv, NEW r \in Requests, Downloaded(r) PROVE IInv'
<1>1. Phase(r) = "end" /\ Finish(r) /\ UNCHANGED <<env, disk, upload, history>>
  BY DEF Downloaded
<1>2. Upload(r) = None
  BY <1>1, RequestTypes DEF Sound, Shaped, Putting, Phase, Upload
<1> QED
  BY <1>1, <1>2, Finishing DEF history

\* The three reads of a download.
LEMMA ReadStep ==
    ASSUME IInv, NEW r \in Requests, NEW phase, NEW file, NEW what, NEW next,
           <<phase, file, what, next>> \in
              {<<"readMetadata", "metadata", "metadata", "stat">>,
               <<"stat", "body", "length", "readBody">>,
               <<"readBody", "body", "body", "end">>},
           Read(r, phase, file, what, next)
    PROVE  IInv'
<1> DEFINE found == files[Key(r)][file]
           x == [request[r] EXCEPT !.seen[what] = found, !.phase = next]
<1>1. /\ request[r] \in RequestType /\ Sound(request[r]) /\ Key(r) \in Keys
      /\ Upload(r) = request[r].upload /\ request[r].phase = phase
      /\ Key(r) = request[r].key
      /\ UNCHANGED <<env, disk, upload, history>>
  BY RequestTypes DEF Upload, Phase, Read, Key
<1>2. Upload(r) = None /\ request[r].listed = {}
  BY <1>1 DEF Sound, Shaped, Putting
<1>3. CASE found = None
  BY <1>1, <1>2, <1>3, Finishing DEF Read, history
<1>4. CASE found # None
  <2>1. files[Key(r)] \in Files /\ found \in Uploads
    <3>1. files[Key(r)] \in Files
      BY <1>1 DEF IInv, TypeOK, Places
    <3> QED
      BY <1>4, <3>1 DEF Files
  <2>2. /\ x \in RequestType /\ x.upload = None /\ x.phase = next /\ x.key = Key(r)
        /\ x.disturbed = request[r].disturbed /\ x.listed = {}
        /\ x.seen = [request[r].seen EXCEPT ![what] = found]
    BY <1>1, <1>2, <2>1 DEF RequestType, Phases
  <2>3. request' = [request EXCEPT ![r] = x]
    BY <1>4 DEF Read
  <2>4. /\ files[Key(r)].metadata # None /\ files[Key(r)].body # None =>
              files[Key(r)].metadata = files[Key(r)].body
        /\ request[r].seen \in [metadata : Uploads \cup {None}, length : Uploads \cup {None},
                                body : Uploads \cup {None}]
    BY <1>1 DEF IInv, Disk, Places, RequestType
  <2>5. Sees(request[r])
    BY <1>1 DEF Sound
  <2>6. ASSUME ~request[r].disturbed
        PROVE  Sees(x)
    <3>1. ~BeingRemoved(Key(r))
      BY <1>1, <2>5, <2>6 DEF Sees, Reading
    <3>2. CASE phase = "readMetadata"
      BY <1>1, <1>4, <2>2, <2>4, <3>1, <3>2 DEF Sees, Reading
    <3>3. CASE phase = "stat"
      BY <1>1, <1>4, <2>2, <2>4, <2>5, <2>6, <3>1, <3>3 DEF Sees, Reading
    <3>4. CASE phase = "readBody"
      BY <1>1, <1>4, <2>2, <2>4, <2>5, <2>6, <3>1, <3>4 DEF Sees, Reading
    <3> QED
      BY <3>2, <3>3, <3>4
  <2> HIDE DEF x
  <2>7. Sees(x)
    BY <2>2, <2>6 DEF Sees
  <2>8. ~Removing(x) /\ Sound(x)
    BY <2>2, <2>7, ObjectStorageAssumption
       DEF Sound, Shaped, Confined, Exposes, Progress, Sweeps, Putting, Reading, Removing,
           IInv, TypeOK
  <2> QED
    BY <1>1, <1>2, <2>2, <2>3, <2>8, Counters, LocalStep DEF history, disk
<1> QED
  BY <1>3, <1>4

-----------------------------------------------------------------------------
(* Steps of an upload that change the disk                                 *)

\* The record of a request that goes to another phase.
LEMMA Moved ==
    ASSUME IInv, NEW r \in Requests, NEW phase \in Phases, Goto(r, phase)
    PROVE  /\ request' = [request EXCEPT ![r] = [request[r] EXCEPT !.phase = phase]]
           /\ [request[r] EXCEPT !.phase = phase] \in RequestType
           /\ [request[r] EXCEPT !.phase = phase].upload = Upload(r)
           /\ request'[r] = [request[r] EXCEPT !.phase = phase]
           /\ request' \in [Requests -> RequestType]
<1>1. request \in [Requests -> RequestType] /\ request[r] \in RequestType
  BY RequestTypes DEF IInv, TypeOK, RequestType
<1>2. [request[r] EXCEPT !.phase = phase] \in RequestType
  BY <1>1 DEF RequestType
<1> QED
  BY <1>1, <1>2 DEF Goto, Upload

LEMMA MakeParentStep ==
    ASSUME IInv, NEW r \in Requests, MakeParent(r) PROVE IInv'
<1>1. /\ Phase(r) = "parent" /\ Goto(r, "temporary")
      /\ dirs' = dirs \cup ({Above[Key(r)]} \ {Root})
      /\ UNCHANGED <<env, files, written, upload, history>>
  BY DEF MakeParent, MakeDirectory
<1>2. PICK x : x = [request[r] EXCEPT !.phase = "temporary"]
  OBVIOUS
<1>3. /\ x \in RequestType /\ request' = [request EXCEPT ![r] = x] /\ request'[r] = x
      /\ request' \in [Requests -> RequestType] /\ x.upload = Upload(r)
  BY <1>1, <1>2, Moved DEF Phases
<1>4. /\ request[r] \in RequestType /\ Sound(request[r]) /\ request[r].phase = "parent"
      /\ Upload(r) = request[r].upload /\ Key(r) \in Keys /\ Above[Key(r)] \in Keys \cup {Root}
  BY <1>1, RequestTypes, ObjectStorageAssumption DEF Phase, Upload
<1>5. /\ x.phase = "temporary" /\ x.kind = request[r].kind /\ x.listed = request[r].listed
  BY <1>2, <1>4 DEF RequestType
<1>6. Upload(r) = None /\ x.kind = "put" /\ x.listed = {}
  BY <1>4, <1>5 DEF Sound, Shaped, Putting
<1>7. TypeOK'
  BY <1>1, <1>3, <1>4, Counters DEF IInv, TypeOK, RequestType, history, env
<1>8. Disk'
  BY <1>1 DEF IInv, Disk
<1>9. DOMAIN upload \subseteq Uploads /\ Uploads \cap (Keys \cup {Root}) = {}
  BY ObjectStorageAssumption DEF IInv, TypeOK
<1>10. FilesTouched(r) /\ UploadsGrow
  BY <1>1, <1>4, <1>9 DEF FilesTouched, UploadsGrow, history
<1>11. None \notin dirs'
  BY <1>7, ObjectStorageAssumption DEF TypeOK
<1>12. Sound(request[r])'
  BY <1>3, <1>5, <1>6, <1>11 DEF Sound, Shaped, Confined, Exposes, Progress, Sees, Sweeps,
     Putting, Reading, Removing
<1>13. \A u \in dirs' \cap Uploads :
              (u = Upload(r) \/ u \notin DOMAIN upload) => u = x.upload
  BY <1>1, <1>3, <1>4, <1>9 DEF IInv, TypeOK
<1>14. ~Removing(x) /\ created' = created /\ orphaned' = orphaned
  BY <1>1, <1>5 DEF Removing, history
<1> QED
  BY <1>3, <1>7, <1>8, <1>10, <1>12, <1>13, <1>14, Step

\* A temporary directory is made, whoever has it.
LEMMA TemporaryMade ==
    ASSUME IInv, NEW r \in Requests, NEW u \in Uploads, Temporary(r, u)
    PROVE  /\ request[r] \in RequestType /\ Key(r) = request[r].key /\ Key(r) \in Keys
           /\ Upload(r) = None /\ request[r].kind = "put" /\ request[r].listed = {}
           /\ u \notin dirs /\ u \notin DOMAIN upload /\ u \notin created
           /\ files[u] = Empty /\ written[u] = 0
           /\ UNCHANGED <<env, files, written, created>>
           /\ dirs' = dirs \cup {u} /\ dirs' \subseteq Keys \cup DOMAIN upload'
           /\ DOMAIN upload' = DOMAIN upload \cup {u} /\ DOMAIN upload' \subseteq Uploads
           /\ upload'[u] = [key |-> Key(r), length |-> request[r].length,
                            limit |-> request[r].limit]
           /\ upload' \in [DOMAIN upload' -> [key : Keys, length : Nat, limit : Nat]]
           /\ (created \cup exposed)' \subseteq DOMAIN upload' /\ orphaned \subseteq DOMAIN upload
           /\ files' \in [Places -> Files] /\ written' \in [Uploads -> Nat]
           /\ sent' \in 0..MaxRequests /\ crashes' \in 0..MaxCrashes
           /\ Disk' /\ FilesTouched(r) /\ UploadsGrow
<1>1. /\ Phase(r) = "temporary" /\ u \notin DOMAIN upload
      /\ UNCHANGED <<env, files, written, created>>
      /\ dirs' = dirs \cup {u}
      /\ upload' = [v \in DOMAIN upload \cup {u} |->
            IF v = u THEN [key |-> Key(r), length |-> request[r].length,
                           limit |-> request[r].limit]
            ELSE upload[v]]
      /\ exposed' = IF BeingRemoved(Key(r)) THEN exposed \cup {u} ELSE exposed
  BY DEF Temporary
<1>2. /\ request[r] \in RequestType /\ Sound(request[r]) /\ request[r].phase = "temporary"
      /\ Upload(r) = request[r].upload /\ Key(r) = request[r].key /\ Key(r) \in Keys
  BY <1>1, RequestTypes DEF Phase, Upload, Key
<1>3. Upload(r) = None /\ request[r].kind = "put" /\ request[r].listed = {}
  BY <1>2 DEF Sound, Shaped, Putting
<1>4. DOMAIN upload \subseteq Uploads /\ Uploads \cap Keys = {}
  BY ObjectStorageAssumption DEF IInv, TypeOK
<1>5. /\ DOMAIN upload' = DOMAIN upload \cup {u}
      /\ upload'[u] = [key |-> Key(r), length |-> request[r].length,
                       limit |-> request[r].limit]
      /\ \A v \in DOMAIN upload : upload'[v] = upload[v]
      /\ upload' \in [DOMAIN upload' -> [key : Keys, length : Nat, limit : Nat]]
  <2>1. request[r].length \in Nat /\ request[r].limit \in Nat
    BY <1>2 DEF RequestType
  <2>2. upload \in [DOMAIN upload -> [key : Keys, length : Nat, limit : Nat]]
    BY DEF IInv, TypeOK
  <2> QED
    BY <1>1, <1>2, <2>1, <2>2
<1>6. dirs' \subseteq Keys \cup DOMAIN upload'
  BY <1>1, <1>5 DEF IInv, TypeOK
<1>7. (created \cup exposed)' \subseteq DOMAIN upload' /\ orphaned \subseteq DOMAIN upload
  BY <1>1, <1>5 DEF IInv, TypeOK
<1>8. DOMAIN upload' \subseteq Uploads
  BY <1>4, <1>5
<1>9. /\ files' \in [Places -> Files] /\ written' \in [Uploads -> Nat]
      /\ sent' \in 0..MaxRequests /\ crashes' \in 0..MaxCrashes
  BY <1>1 DEF IInv, TypeOK, env
<1>10. u \notin dirs /\ files[u] = Empty /\ written[u] = 0 /\ u \notin created
  <2>1. u \notin dirs /\ u \notin created
    BY <1>1, ObjectStorageAssumption DEF IInv, TypeOK
  <2> QED
    BY <1>1, <2>1 DEF IInv, Disk, Places
<1>11. Disk'
  BY <1>1, <1>5 DEF IInv, Disk
<1>12. FilesTouched(r)
  BY <1>1 DEF FilesTouched
<1>13. UploadsGrow
  BY <1>1, <1>5 DEF UploadsGrow
<1> QED
  BY <1>1, <1>2, <1>3, <1>5, <1>6, <1>7, <1>8, <1>9, <1>10, <1>11, <1>12, <1>13

LEMMA MakeTemporaryStep ==
    ASSUME IInv, NEW r \in Requests, NEW u \in Uploads, MakeTemporary(r, u) PROVE IInv'
<1>1. /\ Temporary(r, u) /\ orphaned' = orphaned
      /\ request' = [request EXCEPT ![r].phase = "open", ![r].upload = u]
  BY DEF MakeTemporary
<1>2. PICK x : x = [request[r] EXCEPT !.phase = "open", !.upload = u]
  OBVIOUS
<1>3. /\ request[r] \in RequestType /\ Key(r) = request[r].key /\ Upload(r) = None
      /\ request[r].kind = "put" /\ request[r].listed = {}
      /\ dirs' = dirs \cup {u} /\ u \notin DOMAIN upload /\ u \notin created
      /\ DOMAIN upload' = DOMAIN upload \cup {u} /\ created' = created
      /\ upload'[u] = [key |-> Key(r), length |-> request[r].length,
                       limit |-> request[r].limit]
      /\ files'[u] = Empty /\ written'[u] = 0
  BY <1>1, TemporaryMade
<1>4. /\ x \in RequestType /\ x.phase = "open" /\ x.upload = u /\ x.kind = "put"
      /\ x.key = Key(r) /\ x.length = request[r].length /\ x.limit = request[r].limit
      /\ x.listed = {}
  BY <1>2, <1>3 DEF RequestType, Phases
<1>5. request' = [request EXCEPT ![r] = x]
  BY <1>1, <1>2 DEF IInv, TypeOK
<1>6. request'[r] = x /\ request' \in [Requests -> RequestType]
  BY <1>4, <1>5, Replaced
<1>7. TypeOK'
  BY <1>1, <1>6, TemporaryMade DEF TypeOK, RequestType
<1>8. Sound(request[r])'
  <2>1. Shaped(request[r])'
    BY <1>3, <1>4, <1>6, ObjectStorageAssumption DEF Shaped, Putting
  <2>2. Progress(request[r])'
    BY <1>3, <1>4, <1>6 DEF Progress, Putting, Empty
  <2> QED
    BY <1>4, <1>6, <2>1, <2>2 DEF Sound, Confined, Exposes, Sees, Sweeps, Reading, Removing
<1>9. \A v \in dirs' \cap Uploads : (v = Upload(r) \/ v \notin DOMAIN upload)
         => v = x.upload \/ v \in orphaned'
  BY <1>3, <1>4, ObjectStorageAssumption DEF IInv, TypeOK
<1>10. /\ ~Removing(x) /\ created' = created
      /\ x.upload \in DOMAIN upload' \ DOMAIN upload
  BY <1>3, <1>4 DEF Removing
<1>11. Disk' /\ FilesTouched(r) /\ UploadsGrow
  BY <1>1, TemporaryMade
<1> QED
  BY <1>1, <1>4, <1>5, <1>7, <1>8, <1>9, <1>10, <1>11, Step

\* The directory of a client that went away is marked.
LEMMA LoseTemporaryStep ==
    ASSUME IInv, NEW r \in Requests, NEW u \in Uploads, LoseTemporary(r, u) PROVE IInv'
<1>1. /\ Temporary(r, u) /\ orphaned' = orphaned \cup {u}
      /\ request' = [request EXCEPT ![r] = Idle]
  BY DEF LoseTemporary, Finish
<1>2. /\ Upload(r) = None /\ dirs' = dirs \cup {u} /\ created' = created
  BY <1>1, TemporaryMade
<1>3. request'[r] = Idle /\ request' \in [Requests -> RequestType]
  BY <1>1, Replaced, IdleSound
<1>4. TypeOK'
  <2>1. (created \cup exposed \cup orphaned)' \subseteq DOMAIN upload'
    BY <1>1, TemporaryMade
  <2> QED
    BY <1>1, <1>3, <2>1, TemporaryMade DEF TypeOK, RequestType
<1>5. Sound(request[r])'
  BY <1>3, IdleSound
     DEF Sound, Shaped, Confined, Exposes, Progress, Sees, Sweeps, Removing, Idle, Putting, Reading
<1>6. \A v \in dirs' \cap Uploads : (v = Upload(r) \/ v \notin DOMAIN upload)
         => v = Idle.upload \/ v \in orphaned'
  BY <1>1, <1>2, ObjectStorageAssumption DEF IInv, TypeOK
<1>7. ~Removing(Idle) /\ created' = created /\ Idle.upload = None
  BY <1>2, IdleSound
<1>8. Disk' /\ FilesTouched(r) /\ UploadsGrow
  BY <1>1, TemporaryMade
<1> QED
  BY <1>1, <1>4, <1>5, <1>6, <1>7, <1>8, IdleSound, Step

\* The body or the metadata of an upload is created.
LEMMA WriteStep ==
    ASSUME IInv, NEW r \in Requests, NEW f, NEW phase,
           <<Phase(r), f, phase>> \in
              {<<"open", "body", "stream">>, <<"metadata", "metadata", "rename">>},
           Writable(Upload(r), f), Write(Upload(r), f), Goto(r, phase),
           UNCHANGED <<env, dirs, written, upload, history>>
    PROVE  IInv'
<1> DEFINE u == Upload(r)
<1>1. PICK x : x = [request[r] EXCEPT !.phase = phase]
  OBVIOUS
<1>2. phase \in Phases
  BY DEF Phases
<1>3. /\ x \in RequestType /\ request' = [request EXCEPT ![r] = x] /\ request'[r] = x
      /\ request' \in [Requests -> RequestType] /\ x.upload = u
  BY <1>1, <1>2, Moved
<1>4. /\ request[r] \in RequestType /\ Sound(request[r]) /\ request[r].phase = Phase(r)
      /\ u = request[r].upload
  BY RequestTypes DEF Phase, Upload
<1>5. /\ x.phase = phase /\ x.kind = request[r].kind /\ x.listed = request[r].listed
      /\ x.key = request[r].key /\ x.length = request[r].length
      /\ x.limit = request[r].limit
  BY <1>1, <1>4 DEF RequestType
<1>6. u \in DOMAIN upload /\ u \in Uploads /\ u # None /\ u \notin Keys /\ u \in Places /\ u \in dirs
  BY <1>4, RequestTypes, ObjectStorageAssumption DEF Sound, Shaped, Putting, Writable, Places
<1>7. files \in [Places -> Files]
  BY DEF IInv, TypeOK
<1>8. /\ files' = [files EXCEPT ![u] = [files[u] EXCEPT ![f] = u]]
      /\ files' \in [Places -> Files]
      /\ files'[u] = [files[u] EXCEPT ![f] = u]
      /\ \A p \in Places \ {u} : files'[p] = files[p]
  <2>1. files' = [files EXCEPT ![u] = [files[u] EXCEPT ![f] = u]]
    BY <1>7 DEF Write
  <2>2. [files[u] EXCEPT ![f] = u] \in Files
    BY <1>6, <1>7 DEF Files
  <2> QED
    BY <1>6, <1>7, <2>1, <2>2
<1>9. TypeOK'
  BY <1>3, <1>8, Counters DEF IInv, TypeOK, RequestType, history, env
<1>10. Disk'
  <2>1. files'[u].metadata \in {u, None} /\ files'[u].body \in {u, None}
    BY <1>6, <1>7, <1>8 DEF IInv, Disk, Files
  <2> QED
    BY <1>6, <1>8, <2>1 DEF IInv, Disk
<1>11. FilesTouched(r) /\ UploadsGrow
  BY <1>8 DEF FilesTouched, UploadsGrow, history
<1>12. Sound(request[r])'
  <2>1. Shaped(request[r])'
    BY <1>3, <1>4, <1>5, <1>6 DEF Sound, Shaped, Putting, history
  <2>2. Progress(request[r])'
    <3>1. Progress(request[r])
      BY <1>4 DEF Sound
    <3>2. u \notin exposed' => files'[u] = [metadata |-> IF phase = "rename" THEN u ELSE None, body |-> u]
      BY <1>4, <1>6, <1>7, <1>8, <3>1 DEF Progress, Putting, history, Files
    <3>3. phase = "stream" => written'[u] <= x.limit
      BY <1>3, <1>4, <1>5, <1>6, <3>1 DEF Progress, Putting, RequestType
    <3>4. phase = "rename" => written'[u] = x.length /\ x.length <= x.limit
      BY <1>4, <1>5, <3>1 DEF Progress, Putting
    <3> QED
      BY <1>3, <1>5, <3>2, <3>3, <3>4 DEF Progress, Putting
  <2> QED
    BY <1>3, <1>5, <2>1, <2>2 DEF Sound, Confined, Exposes, Sees, Sweeps, Reading, Removing
<1>13. \A v \in dirs' \cap Uploads :
              (v = Upload(r) \/ v \notin DOMAIN upload) => v = x.upload
  BY <1>3, ObjectStorageAssumption DEF IInv, TypeOK
<1>14. ~Removing(x) /\ created' = created /\ orphaned' = orphaned
  BY <1>5 DEF Removing, history
<1> QED
  BY <1>3, <1>9, <1>10, <1>11, <1>12, <1>13, <1>14, Step

LEMMA StreamChunkStep ==
    ASSUME IInv, NEW r \in Requests, StreamChunk(r) PROVE IInv'
<1> DEFINE u == Upload(r)
<1>1. /\ Phase(r) = "stream" /\ written[u] + 1 <= request[r].limit
      /\ written' = [written EXCEPT ![u] = @ + 1]
      /\ UNCHANGED <<env, dirs, files, upload, request, history>>
  BY DEF StreamChunk, WithinLimit
<1>2. PICK x : x = request[r]
  OBVIOUS
<1>3. /\ x \in RequestType /\ Sound(x) /\ x.phase = "stream" /\ x.upload = u
      /\ request' = [request EXCEPT ![r] = x] /\ request'[r] = x /\ x.kind = "put"
      /\ written[u] + 1 <= x.limit
  <2>1. x \in RequestType /\ Sound(x) /\ x.phase = "stream" /\ x.upload = u
    BY <1>1, <1>2, RequestTypes DEF Phase, Upload
  <2>2. x.kind = "put"
    BY <2>1 DEF Sound, Shaped, Putting
  <2> QED
    BY <1>1, <1>2, <2>1, <2>2 DEF IInv, TypeOK
<1>4. u \in DOMAIN upload /\ u \in Uploads
  BY <1>3, RequestTypes DEF Sound, Shaped, Putting
<1>5. written \in [Uploads -> Nat]
  BY DEF IInv, TypeOK
<1>6. /\ written' \in [Uploads -> Nat] /\ written'[u] = written[u] + 1
      /\ \A v \in Uploads \ {u} : written'[v] = written[v]
  BY <1>1, <1>4, <1>5
<1>7. TypeOK'
  BY <1>1, <1>6 DEF IInv, TypeOK, history, env
<1>8. Disk'
  BY <1>1, <1>4, <1>6 DEF IInv, Disk
<1>9. FilesTouched(r) /\ UploadsGrow
  BY <1>1, <1>6, RequestTypes DEF FilesTouched, UploadsGrow, history
<1>10. Sound(request[r])'
  <2>1. Progress(request[r])'
    BY <1>1, <1>3, <1>6 DEF Sound, Progress, history
  <2>2. Shaped(request[r])'
    BY <1>1, <1>3 DEF Sound, Shaped, history
  <2> QED
    BY <1>3, <2>1, <2>2 DEF Sound, Confined, Exposes, Sees, Sweeps, Reading, Removing
<1>11. \A v \in dirs' \cap Uploads :
              (v = Upload(r) \/ v \notin DOMAIN upload) => v = x.upload
  BY <1>1, <1>3, ObjectStorageAssumption DEF IInv, TypeOK
<1>12. ~Removing(x) /\ created' = created /\ orphaned' = orphaned
  BY <1>1, <1>3 DEF Removing, history
<1> QED
  BY <1>3, <1>7, <1>8, <1>9, <1>10, <1>11, <1>12, Step

LEMMA RenameStep ==
    ASSUME IInv, NEW r \in Requests, Rename(r) PROVE IInv'
<1> DEFINE k == Key(r)
<1>0. PICK u : u = Upload(r)
  OBVIOUS
<1>1. /\ Phase(r) = "rename" /\ u \in dirs
      /\ k \in dirs => Contents(k) = {}
      /\ dirs' = (dirs \ {u}) \cup {k}
      /\ files' = [files EXCEPT ![k] = files[u], ![u] = Empty]
      /\ created' = created \cup {u}
      /\ request' = [request EXCEPT ![r] = Idle]
      /\ UNCHANGED <<env, written, upload, exposed, orphaned>>
  BY <1>0 DEF Rename, MayReplace, Replace, Finish
<1>2. /\ request[r] \in RequestType /\ Sound(request[r]) /\ request[r].phase = "rename"
      /\ u = request[r].upload /\ k = request[r].key /\ k \in Keys
  BY <1>0, <1>1, RequestTypes DEF Phase, Upload, Key
<1>3. /\ u \in DOMAIN upload /\ u \in Uploads /\ u # None /\ u \notin Keys /\ u \in Places
      /\ k \in Places /\ k # u
      /\ upload[u] = [key |-> k, length |-> request[r].length, limit |-> request[r].limit]
  BY <1>2, RequestTypes, ObjectStorageAssumption DEF Sound, Shaped, Putting, Places
<1>4. files \in [Places -> Files] /\ Empty \in Files
  BY DEF IInv, TypeOK, Files, Empty
<1>5. /\ files' \in [Places -> Files] /\ files'[k] = files[u] /\ files'[u] = Empty
      /\ \A p \in Places \ {k, u} : files'[p] = files[p]
  BY <1>1, <1>3, <1>4
<1>6. files[k] = Empty
  <2>1. CASE k \notin dirs
    BY <1>3, <2>1 DEF IInv, Disk
  <2>2. CASE k \in dirs
    <3>1. Contents(k) = {}
      BY <1>1, <2>2
    <3>2. \A f \in DOMAIN Empty : files[k][f] = None
      <4> SUFFICES ASSUME NEW f \in DOMAIN Empty, files[k][f] # None PROVE FALSE
        OBVIOUS
      <4>1. Entry(f, k) \in Contents(k)
        BY DEF Contents
      <4> QED
        BY <3>1, <4>1
    <3>3. files[k].metadata = None /\ files[k].body = None
      BY <3>2 DEF Empty
    <3>4. files[k] \in Files
      BY <1>3, <1>4
    <3> QED
      BY <3>3, <3>4 DEF Files, Empty
  <2> QED
    BY <2>1, <2>2
<1>7. /\ request'[r] = Idle /\ request' \in [Requests -> RequestType]
      /\ Idle \in RequestType /\ Idle.upload = None /\ ~Removing(Idle)
  BY <1>1, IdleSound, Replaced
<1>8. TypeOK'
  <2>1. /\ dirs' \subseteq Keys \cup DOMAIN upload'
        /\ (created \cup exposed \cup orphaned)' \subseteq DOMAIN upload'
    BY <1>1, <1>2, <1>3 DEF IInv, TypeOK
  <2> QED
    BY <1>1, <1>5, <1>7, <2>1 DEF IInv, TypeOK, env, RequestType
<1>9. Disk'
  <2>1. \A p \in Places \ dirs' : files'[p] = Empty
    BY <1>1, <1>2, <1>5 DEF IInv, Disk
  <2>2. \A v \in Uploads : files'[v].metadata \in {v, None} /\ files'[v].body \in {v, None}
    BY <1>2, <1>3, <1>5, ObjectStorageAssumption DEF IInv, Disk, Empty, Places
  <2>3. \A p \in Places : files'[p].metadata # None /\ files'[p].body # None
                            => files'[p].metadata = files'[p].body
    BY <1>3, <1>5 DEF IInv, Disk, Empty
  <2> QED
    BY <1>1, <2>1, <2>2, <2>3 DEF IInv, Disk
<1>10. FilesTouched(r) /\ UploadsGrow
  <2>1. DOMAIN upload \cap Keys = {}
    BY ObjectStorageAssumption DEF IInv, TypeOK
  <2> QED
    BY <1>0, <1>1, <1>2, <1>5, <1>6, <2>1 DEF FilesTouched, UploadsGrow
<1>11. u \notin exposed => Whole(u)'
  <2>1. Progress(request[r])
    BY <1>2 DEF Sound
  <2>2. u \notin exposed => files[u] = [metadata |-> u, body |-> u]
    BY <1>2, <2>1 DEF Progress, Putting
  <2>3. written[u] = upload[u].length /\ upload[u].length <= upload[u].limit
    BY <1>2, <1>3, <2>1 DEF Progress, Putting
  <2>4. upload[u].key = k
    BY <1>3
  <2> QED
    BY <1>1, <1>5, <2>2, <2>3, <2>4 DEF Whole
<1>12. Sound(request[r])'
  <2>1. Sound(Idle)'
    BY IdleSound
  <2>2. Idle.phase = "idle" /\ Idle.upload = None /\ Idle.listed = {}
    BY IdleSound DEF Idle
  <2> QED
    BY <1>7, <2>2, ObjectStorageAssumption, <1>8
       DEF Sound, Shaped, Confined, Exposes, Progress, Sees, Sweeps, Reading, Removing, Putting
<1>13. \A v \in dirs' \cap Uploads :
              (v = Upload(r) \/ v \notin DOMAIN upload) => v = Idle.upload
  BY <1>0, <1>1, <1>2, <1>3, ObjectStorageAssumption DEF IInv, TypeOK
<1>14. /\ created' \subseteq created \cup ({Upload(r)} \ {None})
       /\ \A v \in created' \ created : v \notin exposed' => Whole(v)'
  BY <1>0, <1>1, <1>3, <1>11
<1> QED
  BY <1>1, <1>7, <1>8, <1>9, <1>10, <1>12, <1>13, <1>14, Step

-----------------------------------------------------------------------------
(* Removals                                                                *)

\* What has been listed keeps its place in what is left to remove.
StillSwept(u, todo, listed) ==
    /\ Entry("directory", u) \in todo
    /\ u \in listed => \A f \in {"metadata", "body"} :
                          files[u][f] # None => Entry(f, u) \in todo

\* What a removal has still to do lies within its reach.
Reached(r, e) ==
    /\ e.at \in Keys \cup DOMAIN upload
    /\ Upload(r) # None => e.at = Upload(r)
    /\ Upload(r) = None => KeyOf(e.at) \in Below(Key(r))

\* A recursive removal goes on with what is left, or ends.
LEMMA RemovalStep ==
    ASSUME IInv, NEW r \in Requests, Phase(r) = "remove",
           NEW todo \in SUBSET Entries, NEW listed \in SUBSET Places,
           request' = [request EXCEPT ![r] =
              IF todo = {} THEN Idle
              ELSE [request[r] EXCEPT !.todo = todo, !.listed = listed]],
           \A e \in todo : Reached(r, e),
           dirs' \subseteq dirs, files' \in [Places -> Files], Disk', FilesTouched(r),
           \A u \in dirs' : u = Upload(r) => StillSwept(u, todo, listed)',
           UNCHANGED <<env, written, upload, history>>
    PROVE  IInv'
<1>0. PICK x : x = IF todo = {} THEN Idle
                   ELSE [request[r] EXCEPT !.todo = todo, !.listed = listed]
  OBVIOUS
<1>1. /\ request[r] \in RequestType /\ Sound(request[r]) /\ request[r].phase = "remove"
      /\ request[r].upload = Upload(r) /\ request[r].key = Key(r)
  BY RequestTypes DEF Phase, Upload, Key
<1>2. x \in RequestType
  <2>1. [request[r] EXCEPT !.todo = todo, !.listed = listed] \in RequestType
    BY <1>1 DEF RequestType
  <2> QED
    BY <1>0, <2>1, IdleSound
<1>3. request' = [request EXCEPT ![r] = x]
  BY <1>0
<1>4. request'[r] = x /\ request' \in [Requests -> RequestType]
  BY <1>2, <1>3, Replaced
<1>5. todo = {} => x.phase = "idle" /\ x.upload = None /\ x.listed = {}
  BY <1>0, IdleSound DEF Idle
<1>6. todo # {} => /\ x.phase = "remove" /\ x.kind = request[r].kind /\ x.upload = Upload(r)
                   /\ x.key = Key(r) /\ x.todo = todo /\ x.listed = listed
  BY <1>0, <1>1 DEF RequestType
<1>7. TypeOK'
  BY <1>4, Counters DEF IInv, TypeOK, RequestType, history, env
<1>8. UploadsGrow
  BY DEF UploadsGrow, history
<1>9. None \notin dirs'
  BY <1>7, ObjectStorageAssumption DEF TypeOK
<1>10. Sound(request[r])'
  <2>1. CASE todo = {}
    BY <1>4, <1>5, <1>9, <2>1 DEF Sound, Shaped, Confined, Exposes, Progress, Sees, Sweeps,
       Reading, Removing, Putting
  <2>2. CASE todo # {}
    <3>1. Shaped(x)'
      BY <1>1, <1>6, <2>2 DEF Sound, Shaped, Putting, history
    <3>2. Confined(x)'
      BY <1>6, <2>2 DEF Confined, Reached, KeyOf, Below
    <3>3. Exposes(x)'
      BY <1>1, <1>6, <2>2 DEF Sound, Exposes, Removing, Below, history
    <3>4. Sweeps(x)'
      <4> SUFFICES ASSUME x.upload \in dirs' PROVE Sweeps(x)'
        BY DEF Sweeps
      <4>1. PICK u \in dirs' : u = x.upload
        OBVIOUS
      <4>2. StillSwept(u, todo, listed)'
        BY <1>6, <2>2, <4>1
      <4> QED
        BY <1>6, <2>2, <4>1, <4>2 DEF Sweeps, StillSwept, Entry
    <3>5. /\ Shaped(request[r])' /\ Confined(request[r])' /\ Exposes(request[r])'
          /\ Sweeps(request[r])'
      BY <1>4, <3>1, <3>2, <3>3, <3>4 DEF Shaped, Confined, Exposes, Removing, Sweeps
    <3> QED
      BY <1>4, <1>6, <2>2, <3>5 DEF Sound, Progress, Sees, Reading, Putting
  <2> QED
    BY <2>1, <2>2
<1>11. \A v \in dirs' \cap Uploads :
              (v = Upload(r) \/ v \notin DOMAIN upload) => v = x.upload
  <2> SUFFICES ASSUME NEW v \in dirs' \cap Uploads, v = Upload(r) \/ v \notin DOMAIN upload
               PROVE  v = x.upload
    OBVIOUS
  <2>1. v \in DOMAIN upload
    BY ObjectStorageAssumption DEF IInv, TypeOK
  <2>2. StillSwept(v, todo, listed)'
    BY <2>1
  <2>3. todo # {}
    BY <2>2 DEF StillSwept
  <2> QED
    BY <1>6, <2>1, <2>3
<1>12. /\ created' = created /\ orphaned' = orphaned /\ x.upload \in {None, Upload(r)}
       /\ Removing(x) => Removing(request[r]) /\ x.key = Key(r)
  BY <1>1, <1>5, <1>6 DEF Removing, history
<1> QED
  BY <1>2, <1>3, <1>7, <1>8, <1>10, <1>11, <1>12, Step

\* The request record of Left.
LEMMA LeftRecord ==
    ASSUME IInv, NEW r \in Requests, NEW todo \in SUBSET Entries, Left(r, todo)
    PROVE  /\ request[r].listed \in SUBSET Places
           /\ request' = [request EXCEPT ![r] =
                 IF todo = {} THEN Idle
                 ELSE [request[r] EXCEPT !.todo = todo, !.listed = request[r].listed]]
<1>1. request[r] \in RequestType
  BY RequestTypes
<1>2. [request[r] EXCEPT !.todo = todo]
         = [request[r] EXCEPT !.todo = todo, !.listed = request[r].listed]
  BY <1>1 DEF RequestType
<1>3. request' = [request EXCEPT ![r] =
                 IF todo = {} THEN Idle ELSE [request[r] EXCEPT !.todo = todo]]
  BY DEF Left
<1> QED
  BY <1>1, <1>2, <1>3 DEF RequestType

\* What the invariant says of the entries of a removal under way.
LEMMA RemovalTypes ==
    ASSUME IInv, NEW r \in Requests, Phase(r) = "remove", NEW e \in request[r].todo
    PROVE  /\ request[r].todo \in SUBSET Entries
           /\ e.type \in {"directory", "metadata", "body"} /\ e.at \in Places
           /\ e = Entry(e.type, e.at)
           /\ \A d \in request[r].todo : Reached(r, d)
           /\ \A u \in dirs : u = Upload(r) => StillSwept(u, request[r].todo, request[r].listed)
           /\ Upload(r) = None => Removing(request[r])
<1>1. /\ request[r] \in RequestType /\ Sound(request[r]) /\ request[r].phase = "remove"
      /\ request[r].upload = Upload(r) /\ request[r].key = Key(r)
  BY RequestTypes DEF Phase, Upload, Key
<1>2. request[r].todo \in SUBSET Entries
  BY <1>1 DEF RequestType
<1>3. e \in Entries
  BY <1>2
<1>4. \A d \in request[r].todo : Reached(r, d)
  BY <1>1 DEF Sound, Confined, Reached
<1>5. \A u \in dirs : u = Upload(r) => StillSwept(u, request[r].todo, request[r].listed)
  BY <1>1 DEF Sound, Sweeps, StillSwept
<1>6. Upload(r) = None => Removing(request[r])
  BY <1>1 DEF Sound, Shaped, Removing
<1> QED
  BY <1>2, <1>3, <1>4, <1>5, <1>6 DEF Entries, Entry

LEMMA RemoveFileStep ==
    ASSUME IInv, NEW r \in Requests, Phase(r) = "remove", NEW e \in request[r].todo,
           RemoveFile(r, e), UNCHANGED <<env, written, upload, history>>
    PROVE  IInv'
<1>0. PICK todo, listed : todo = request[r].todo \ {e} /\ listed = request[r].listed
  OBVIOUS
<1>1. /\ e.type \in {"metadata", "body"} /\ dirs' = dirs /\ Left(r, todo)
      /\ files' = [files EXCEPT ![e.at][e.type] = None]
  BY <1>0, RemovalTypes DEF RemoveFile
<1>2. e.at \in Places /\ Reached(r, e) /\ todo \in SUBSET Entries /\ e = Entry(e.type, e.at)
  BY <1>0, RemovalTypes
<1>3. files \in [Places -> Files]
  BY DEF IInv, TypeOK
<1>4. /\ files' \in [Places -> Files]
      /\ files'[e.at] = [files[e.at] EXCEPT ![e.type] = None]
      /\ \A p \in Places \ {e.at} : files'[p] = files[p]
  <2>1. files' = [files EXCEPT ![e.at] = [files[e.at] EXCEPT ![e.type] = None]]
    BY <1>1, <1>3
  <2>2. [files[e.at] EXCEPT ![e.type] = None] \in Files
    BY <1>1, <1>2, <1>3 DEF Files
  <2> QED
    BY <1>2, <1>3, <2>1, <2>2
<1>5. /\ \A f \in {"metadata", "body"} : files'[e.at][f] \in {files[e.at][f], None}
      /\ files'[e.at].metadata \in {files[e.at].metadata, None}
      /\ files'[e.at].body \in {files[e.at].body, None}
      /\ files'[e.at][e.type] = None
  BY <1>1, <1>2, <1>3, <1>4 DEF Files
<1>6. Disk'
  <2>1. \A p \in Places \ dirs : files'[p] = Empty
    <3>1. CASE e.at \notin dirs
      <4>1. files[e.at] = Empty
        BY <1>2, <3>1 DEF IInv, Disk
      <4>2. files'[e.at] = Empty
        BY <1>1, <1>4, <4>1 DEF Empty
      <4> QED
        BY <1>4, <4>2 DEF IInv, Disk
    <3>2. CASE e.at \in dirs
      BY <1>4, <3>2 DEF IInv, Disk
    <3> QED
      BY <3>1, <3>2
  <2>2. \A u \in Uploads : files'[u].metadata \in {u, None} /\ files'[u].body \in {u, None}
    BY <1>4, <1>5 DEF IInv, Disk, Places
  <2>3. \A p \in Places : files'[p].metadata # None /\ files'[p].body # None
                            => files'[p].metadata = files'[p].body
    <3>1. Disk
      BY DEF IInv
    <3>2. files'[e.at].metadata # None /\ files'[e.at].body # None
             => files'[e.at].metadata = files'[e.at].body
      BY <1>2, <1>5, <3>1 DEF Disk
    <3> QED
      BY <1>4, <3>1, <3>2 DEF Disk
  <2> QED
    BY <1>1, <2>1, <2>2, <2>3 DEF IInv, Disk
<1>7. FilesTouched(r)
  <2>1. Upload(r) # None => e.at = Upload(r)
    BY <1>2 DEF Reached
  <2>2. Upload(r) = None =>
           /\ Removing(request[r]) /\ e.at \in Keys \cup DOMAIN upload
           /\ KeyOf(e.at) \in Below(Key(r))
    BY <1>2, RemovalTypes DEF Reached
  <2> QED
    BY <1>1, <1>4, <1>5, <2>1, <2>2 DEF FilesTouched
<1>8. \A u \in dirs' : u = Upload(r) => StillSwept(u, todo, listed)'
  <2> SUFFICES ASSUME NEW u \in dirs, u = Upload(r)
               PROVE  StillSwept(u, todo, listed)'
    BY <1>1
  <2>1. StillSwept(u, request[r].todo, listed)
    BY <1>0, RemovalTypes
  <2>2. Entry("directory", u) # e /\ (e.at # u => files'[u] = files[u])
    BY <1>1, <1>4, RemovalTypes DEF Entry, IInv, TypeOK, Places
  <2>3. \A f \in {"metadata", "body"} : files'[u][f] # None =>
           files[u][f] # None /\ Entry(f, u) # e
    <3>1. CASE e.at = u
      BY <1>5, <3>1 DEF Entry
    <3>2. CASE e.at # u
      BY <2>2, <3>2 DEF Entry
    <3> QED
      BY <3>1, <3>2
  <2> QED
    BY <1>0, <2>1, <2>2, <2>3 DEF StillSwept, Entry
<1>9. \A d \in todo : Reached(r, d)
  BY <1>0, RemovalTypes
<1>10. /\ listed \in SUBSET Places
       /\ request' = [request EXCEPT ![r] =
             IF todo = {} THEN Idle
             ELSE [request[r] EXCEPT !.todo = todo, !.listed = listed]]
  BY <1>0, <1>1, <1>2, LeftRecord
<1> QED
  BY <1>1, <1>2, <1>4, <1>6, <1>7, <1>8, <1>9, <1>10, RemovalStep

\* A directory lies in a key's one or in the root; a removal that lists one it
\* has reached reaches what lies in it.
LEMMA ContentsReached ==
    ASSUME IInv, NEW r \in Requests, Phase(r) = "remove", NEW e \in request[r].todo,
           NEW d \in Contents(e.at)
    PROVE  d \in Entries /\ Reached(r, d)
<1>1. e.at \in Places /\ Reached(r, e)
  BY RemovalTypes
<1>2. dirs \subseteq Keys \cup DOMAIN upload /\ DOMAIN upload \subseteq Uploads
      /\ upload \in [DOMAIN upload -> [key : Keys, length : Nat, limit : Nat]]
  BY DEF IInv, TypeOK
<1>3. CASE d \in {Entry("directory", p) : p \in {q \in dirs : In(q) = e.at}}
  <2>1. PICK p \in dirs : d = Entry("directory", p) /\ In(p) = e.at
    BY <1>3
  <2>2. /\ KeyOf(p) \in Keys /\ In(p) = Above[KeyOf(p)]
        /\ p \in Keys \cup DOMAIN upload /\ p \in Places
    BY <1>2, ObjectStorageAssumption DEF In, KeyOf, Places
  <2>3. e.at \in Keys /\ Above[KeyOf(p)] = e.at
    BY <1>1, <2>1, <2>2, ObjectStorageAssumption DEF Places
  <2>4. Upload(r) = None
    BY <1>1, <2>3, RequestTypes, ObjectStorageAssumption DEF Reached
  <2>5. e.at \in Below(Key(r))
    BY <1>1, <2>3, <2>4 DEF Reached, KeyOf
  <2>6. KeyOf(p) \in Below(Key(r))
    BY <2>2, <2>3, <2>5, RequestTypes, ObjectStorageAssumption DEF Below
  <2> QED
    BY <2>1, <2>2, <2>4, <2>6 DEF Reached, Entry, Entries
<1>4. CASE d \in {Entry(f, e.at) : f \in {g \in DOMAIN Empty : files[e.at][g] # None}}
  <2>1. PICK f \in {"metadata", "body"} : d = Entry(f, e.at)
    BY <1>4 DEF Empty
  <2> QED
    BY <1>1, <2>1 DEF Reached, Entry, Entries
<1> QED
  BY <1>3, <1>4 DEF Contents

LEMMA RemoveDirectoryStep ==
    ASSUME IInv, NEW r \in Requests, Phase(r) = "remove", NEW e \in request[r].todo,
           RemoveDirectory(r, e), UNCHANGED <<env, written, upload, history>>
    PROVE  IInv'
<1> DEFINE old == request[r].todo
<1>1. /\ e.type = "directory" /\ Inside(r, e.at) = {} /\ files' = files
      /\ e = Entry("directory", e.at) /\ e.at \in Places /\ Reached(r, e)
      /\ old \in SUBSET Entries /\ \A d \in old : Reached(r, d)
  BY RemovalTypes DEF RemoveDirectory
<1>2. request[r].listed \in SUBSET Places
  BY RequestTypes DEF RequestType
<1>3. files \in [Places -> Files]
  BY DEF IInv, TypeOK
\* The entry of the upload's own directory stays while the directory does.
<1>4. \A u \in dirs : u = Upload(r) /\ Contents(e.at) # {} /\ e.at \in request[r].listed
         => u # e.at
  <2> SUFFICES ASSUME NEW u \in dirs, u = Upload(r), u = e.at, u \in request[r].listed,
                      Contents(u) # {}
               PROVE  FALSE
    OBVIOUS
  <2>1. StillSwept(u, old, request[r].listed)
    BY RemovalTypes
  <2>2. u \in Uploads /\ u \notin Keys \cup {Root}
    <3>1. u # None
      BY ObjectStorageAssumption DEF IInv, TypeOK
    <3> QED
      BY <3>1, RequestTypes, ObjectStorageAssumption
  <2>3. \A p \in dirs : In(p) \in Keys \cup {Root}
    <3>1. upload \in [DOMAIN upload -> [key : Keys, length : Nat, limit : Nat]]
          /\ dirs \subseteq Keys \cup DOMAIN upload
      BY DEF IInv, TypeOK
    <3>2. \A v \in DOMAIN upload : upload[v].key \in Keys
      BY <3>1
    <3>3. \A j \in Keys : Above[j] \in Keys \cup {Root}
      BY ObjectStorageAssumption
    <3>4. \A p \in Keys : In(p) = Above[p]
      BY ObjectStorageAssumption DEF In
    <3>5. \A p \in DOMAIN upload : In(p) = Above[upload[p].key]
      BY RequestTypes DEF In
    <3> QED
      BY <3>1, <3>2, <3>3, <3>4, <3>5
  <2>4. PICK f \in {"metadata", "body"} : files[u][f] # None
    BY <2>2, <2>3 DEF Contents, Empty
  <2>5. Entry(f, u) \in old
    BY <2>1, <2>4 DEF StillSwept
  <2>6. Entry(f, u) \in Inside(r, u)
    BY <2>5 DEF Inside, Entry
  <2> QED
    BY <1>1, <2>6
<1>5. CASE /\ Contents(e.at) = {} /\ dirs' = dirs \ {e.at} /\ Left(r, old \ {e})
  <2>0. PICK todo, listed : todo = old \ {e} /\ listed = request[r].listed
    OBVIOUS
  <2>1. todo \in SUBSET Entries /\ \A d \in todo : Reached(r, d)
    BY <1>1, <2>0
  <2>2. files[e.at] = Empty
    <3>1. \A f \in DOMAIN Empty : files[e.at][f] = None
      <4> SUFFICES ASSUME NEW f \in DOMAIN Empty, files[e.at][f] # None PROVE FALSE
        OBVIOUS
      <4>1. Entry(f, e.at) \in Contents(e.at)
        BY DEF Contents
      <4> QED
        BY <1>5, <4>1
    <3>2. files[e.at].metadata = None /\ files[e.at].body = None
      BY <3>1 DEF Empty
    <3> QED
      BY <1>1, <1>3, <3>2 DEF Files, Empty
  <2>3. Disk'
    BY <1>1, <1>5, <2>2 DEF IInv, Disk
  <2>4. FilesTouched(r)
    BY <1>1, <1>5 DEF FilesTouched
  <2>5. \A u \in dirs' : u = Upload(r) => StillSwept(u, todo, listed)'
    <3> SUFFICES ASSUME NEW u \in dirs, u # e.at, u = Upload(r)
                 PROVE  StillSwept(u, todo, listed)'
      BY <1>5
    <3>1. StillSwept(u, old, listed)
      BY <2>0, RemovalTypes
    <3>2. \A f : Entry(f, u) # e
      BY <1>1 DEF Entry
    <3> QED
      BY <1>1, <2>0, <3>1, <3>2 DEF StillSwept, Entry
  <2>6. /\ listed \in SUBSET Places
        /\ request' = [request EXCEPT ![r] =
              IF todo = {} THEN Idle
              ELSE [request[r] EXCEPT !.todo = todo, !.listed = listed]]
    BY <1>5, <2>0, <2>1, LeftRecord
  <2> QED
    BY <1>1, <1>3, <1>5, <2>1, <2>3, <2>4, <2>5, <2>6, RemovalStep
<1>6. CASE /\ Contents(e.at) # {} /\ dirs' = dirs
           /\ request' = [request EXCEPT ![r].todo = @ \cup Contents(e.at),
                                         ![r].listed = @ \cup {e.at}]
  <2>0. PICK todo, listed : todo = old \cup Contents(e.at)
                            /\ listed = request[r].listed \cup {e.at}
    OBVIOUS
  <2>1. todo \in SUBSET Entries /\ \A d \in todo : Reached(r, d)
    BY <1>1, <2>0, ContentsReached
  <2>2. Disk' /\ FilesTouched(r)
    BY <1>1, <1>6 DEF IInv, Disk, FilesTouched
  <2>3. \A u \in dirs' : u = Upload(r) => StillSwept(u, todo, listed)'
    <3> SUFFICES ASSUME NEW u \in dirs, u = Upload(r)
                 PROVE  StillSwept(u, todo, listed)'
      BY <1>6
    <3>1. StillSwept(u, old, request[r].listed)
      BY RemovalTypes
    <3>2. u = e.at => \A f \in {"metadata", "body"} :
                         files[u][f] # None => Entry(f, u) \in Contents(e.at)
      BY DEF Contents, Empty
    <3>3. \A f \in {"metadata", "body"} : u \in listed /\ files[u][f] # None => Entry(f, u) \in todo
      BY <2>0, <3>1, <3>2 DEF StillSwept
    <3>4. Entry("directory", u) \in todo
      BY <2>0, <3>1 DEF StillSwept
    <3> QED
      BY <1>1, <3>3, <3>4 DEF StillSwept, Entry
  <2>4. /\ listed \in SUBSET Places
        /\ request' = [request EXCEPT ![r] =
              IF todo = {} THEN Idle
              ELSE [request[r] EXCEPT !.todo = todo, !.listed = listed]]
    <3>1. todo # {}
      BY <2>0
    <3>2. request' = [request EXCEPT ![r] =
              [request[r] EXCEPT !.todo = todo, !.listed = listed]]
      BY <1>6, <2>0 DEF IInv, TypeOK
    <3> QED
      BY <1>1, <1>2, <2>0, <3>1, <3>2
  <2> QED
    BY <1>1, <1>3, <1>6, <2>1, <2>2, <2>3, <2>4, RemovalStep
<1>7. CASE /\ Contents(e.at) # {} /\ e.at \in request[r].listed /\ dirs' = dirs
           /\ Left(r, old \ {e, Entry("directory", In(e.at))})
  <2>0. PICK todo, listed : todo = old \ {e, Entry("directory", In(e.at))}
                            /\ listed = request[r].listed
    OBVIOUS
  <2>1. todo \in SUBSET Entries /\ \A d \in todo : Reached(r, d)
    BY <1>1, <2>0
  <2>2. Disk' /\ FilesTouched(r)
    BY <1>1, <1>7 DEF IInv, Disk, FilesTouched
  <2>3. \A u \in dirs' : u # Upload(r)
    <3> SUFFICES ASSUME NEW u \in dirs, u = Upload(r)
                 PROVE  FALSE
      BY <1>7
    <3>1. u # None
      BY ObjectStorageAssumption DEF IInv, TypeOK
    <3>2. e.at = u
      BY <1>1, <3>1 DEF Reached
    <3> QED
      BY <1>4, <1>7, <3>2
  <2>4. /\ listed \in SUBSET Places
        /\ request' = [request EXCEPT ![r] =
              IF todo = {} THEN Idle
              ELSE [request[r] EXCEPT !.todo = todo, !.listed = listed]]
    BY <1>7, <2>0, <2>1, LeftRecord
  <2> QED
    BY <1>1, <1>3, <1>7, <2>1, <2>2, <2>3, <2>4, RemovalStep
<1> QED
  BY <1>5, <1>6, <1>7 DEF RemoveDirectory

LEMMA RemoveEntryStep ==
    ASSUME IInv, NEW r \in Requests, RemoveEntry(r) PROVE IInv'
BY RemoveFileStep, RemoveDirectoryStep DEF RemoveEntry

\* A removal begins: it marks the uploads it can reach and the downloads it may
\* disturb.
LEMMA FindStep ==
    ASSUME IInv, NEW r \in Requests, Find(r) PROVE IInv'
<1> DEFINE k == Key(r)
<1>1. /\ request[r] \in RequestType /\ Sound(request[r]) /\ request[r].phase = "find"
      /\ Upload(r) = request[r].upload /\ k = request[r].key /\ k \in Keys
      /\ UNCHANGED <<env, disk, upload, created, orphaned>>
  BY RequestTypes DEF Find, Phase, Upload, Key
<1>2. Upload(r) = None /\ request[r].kind = "remove" /\ request[r].listed = {}
  BY <1>1 DEF Sound, Shaped, Putting
<1>3. CASE Key(r) \notin dirs
  BY <1>1, <1>2, <1>3, Finishing DEF Find
<1>4. CASE Key(r) \in dirs
  <2>1. /\ request' = [q \in Requests |->
                 IF q = r THEN [request[q] EXCEPT !.phase = "remove",
                                                  !.todo = {Entry("directory", k)}]
                 ELSE [request[q] EXCEPT !.disturbed = @ \/ Key(q) \in Below(k)]]
        /\ exposed' = exposed \cup {u \in DOMAIN upload : upload[u].key \in Below(k)}
    BY <1>4 DEF Find
  <2>2. \A q \in Requests : request[q] \in RequestType /\ Sound(request[q])
    BY RequestTypes
  <2>3. PICK x : x = [request[r] EXCEPT !.phase = "remove", !.todo = {Entry("directory", k)}]
    OBVIOUS
  <2>4. /\ request'[r] = x /\ x.phase = "remove" /\ x.kind = "remove" /\ x.upload = None
        /\ x.key = k /\ x.todo = {Entry("directory", k)} /\ x \in RequestType
    <3>1. Entry("directory", k) \in Entries
      BY <1>1 DEF Entry, Entries, Places
    <3> QED
      BY <1>1, <1>2, <2>1, <2>3, <3>1 DEF RequestType, Phases
  <2>5. ASSUME NEW q \in Requests, q # r
        PROVE  /\ request'[q] \in RequestType
               /\ request'[q].phase = request[q].phase
               /\ request'[q].kind = request[q].kind
               /\ request'[q].key = request[q].key
               /\ request'[q].upload = request[q].upload
               /\ request'[q].length = request[q].length
               /\ request'[q].limit = request[q].limit
               /\ request'[q].todo = request[q].todo
               /\ request'[q].listed = request[q].listed
               /\ request'[q].seen = request[q].seen
               /\ ~request'[q].disturbed => ~request[q].disturbed /\ request[q].key \notin Below(k)
    <3>1. request'[q] = [request[q] EXCEPT
                            !.disturbed = request[q].disturbed \/ request[q].key \in Below(k)]
      BY <2>1, <2>5 DEF Key
    <3>2. PICK b \in BOOLEAN : b = (request[q].disturbed \/ request[q].key \in Below(k))
      OBVIOUS
    <3>3. request'[q] = [request[q] EXCEPT !.disturbed = b]
      BY <3>1, <3>2
    <3>4. request'[q] \in RequestType /\ request'[q].disturbed = b
      BY <2>2, <3>3 DEF RequestType
    <3>5. ~request'[q].disturbed => ~request[q].disturbed /\ request[q].key \notin Below(k)
      BY <3>2, <3>4
    <3> QED
      BY <2>2, <3>3, <3>4, <3>5 DEF RequestType
  <2>6. TypeOK'
    <3>1. request' \in [Requests -> RequestType]
      BY <2>1, <2>4, <2>5
    <3>2. (created \cup exposed \cup orphaned)' \subseteq DOMAIN upload'
      BY <1>1, <2>1 DEF IInv, TypeOK
    <3> QED
      BY <1>1, <3>1, <3>2, Counters DEF IInv, TypeOK, disk, env, RequestType
  <2>7. Disk'
    BY <1>1 DEF IInv, Disk, disk
  <2>8. \A q \in Requests : Upload(q)' = Upload(q)
    BY <1>1, <1>2, <2>4, <2>5 DEF Upload
  <2>9. Alone' /\ TemporariesAreSwept'
    BY <1>1, <2>8 DEF IInv, Alone, TemporariesAreSwept, disk
  <2>10. StoredUntilRemoved'
    BY <1>1, <2>1 DEF IInv, StoredUntilRemoved, Whole, disk
  <2>11. \A j \in Keys : BeingRemoved(j)' => BeingRemoved(j) \/ j \in Below(k)
    <3> SUFFICES ASSUME NEW j \in Keys, NEW q \in Requests, request'[q].kind = "remove",
                        request'[q].phase = "remove", j \in Below(request'[q].key)
                 PROVE  BeingRemoved(j) \/ j \in Below(k)
      BY DEF BeingRemoved, Phase, Key, Below
    <3>1. CASE q = r
      BY <2>4, <3>1
    <3>2. CASE q # r
      <4>1. /\ request[q].kind = "remove" /\ request[q].phase = "remove"
            /\ request[q].key = request'[q].key
        BY <2>5, <3>2
      <4> QED
        BY <4>1 DEF BeingRemoved, Phase, Key
    <3> QED
      BY <3>1, <3>2
  <2>12. Sound(request[r])'
    <3>1. Shaped(x)' /\ Exposes(x)'
      BY <1>1, <2>1, <2>4 DEF Shaped, Exposes, Putting, Removing, Below
    <3>2. Confined(x)'
      BY <1>1, <2>4 DEF Confined, Entry, KeyOf, Below
    <3>3. None \notin dirs'
      BY <2>6, ObjectStorageAssumption DEF TypeOK
    <3>4. Shaped(request[r])' /\ Exposes(request[r])' /\ Confined(request[r])'
      BY <2>4, <3>1, <3>2 DEF Shaped, Exposes, Confined, Removing
    <3> QED
      BY <2>4, <3>3, <3>4 DEF Sound, Progress, Sees, Sweeps, Putting, Reading
  <2>13. ASSUME NEW q \in Requests, q # r
         PROVE  Sound(request[q])'
    <3>1. PICK y : y = request[q]
      OBVIOUS
    <3>2. PICK z : z = request'[q]
      OBVIOUS
    <3>3. /\ z.phase = y.phase /\ z.kind = y.kind /\ z.key = y.key /\ z.upload = y.upload
          /\ z.length = y.length /\ z.limit = y.limit /\ z.todo = y.todo /\ z.listed = y.listed
          /\ z.seen = y.seen
          /\ ~z.disturbed => ~y.disturbed /\ y.key \notin Below(k)
          /\ y.key \in Keys
      <4>1. y.key \in Keys
        BY <2>2, <3>1 DEF RequestType
      <4> QED
        BY <2>5, <2>13, <3>1, <3>2, <4>1
    <3>4. Sound(y)
      BY <2>2, <3>1
    <3>5. Shaped(z)' /\ Confined(z)'
      BY <1>1, <3>3, <3>4 DEF Sound, Shaped, Confined, KeyOf, Below
    <3>6. Exposes(z)'
      BY <1>1, <2>1, <3>3, <3>4 DEF Sound, Exposes, Removing, Below
    <3>7. Progress(z)'
      BY <1>1, <2>1, <3>3, <3>4 DEF Sound, Progress, disk
    <3>8. Sees(z)'
      BY <1>1, <2>11, <3>3, <3>4 DEF Sound, Sees, disk
    <3>9. Sweeps(z)'
      BY <1>1, <3>3, <3>4 DEF Sound, Sweeps, disk, Entry
    <3>10. /\ Shaped(request[q])' /\ Confined(request[q])' /\ Exposes(request[q])'
      BY <3>2, <3>5, <3>6 DEF Shaped, Confined, Exposes, Removing
    <3>11. /\ Progress(request[q])' /\ Sees(request[q])' /\ Sweeps(request[q])'
      BY <3>2, <3>7, <3>8, <3>9 DEF Progress, Sees, Sweeps
    <3> QED
      BY <3>10, <3>11 DEF Sound
  <2>14. \A q \in Requests : Sound(request[q])'
    BY <2>12, <2>13
  <2> QED
    BY <2>6, <2>7, <2>9, <2>10, <2>14 DEF IInv
<1> QED
  BY <1>3, <1>4

-----------------------------------------------------------------------------
(* The specification                                                       *)

LEMMA CrashStep ==
    ASSUME IInv, Crash PROVE IInv'
<1>1. /\ crashes' = crashes + 1 /\ crashes < MaxCrashes
      /\ orphaned' = orphaned \cup ({Upload(r) : r \in Requests} \ {None})
      /\ request' = [r \in Requests |-> Idle]
      /\ UNCHANGED <<disk, upload, sent, created, exposed>>
  BY DEF Crash
<1>2. TypeOK'
  <2>1. orphaned' \subseteq DOMAIN upload
    BY <1>1, RequestTypes DEF IInv, TypeOK
  <2>2. crashes' \in 0..MaxCrashes
    BY <1>1, ObjectStorageAssumption DEF IInv, TypeOK
  <2>3. request' \in [Requests -> RequestType]
    BY <1>1, IdleSound
  <2> QED
    BY <1>1, <2>1, <2>2, <2>3 DEF IInv, TypeOK, disk, RequestType
<1>3. Disk'
  BY <1>1 DEF IInv, Disk, disk
<1>4. Alone'
  BY <1>1, IdleSound DEF Alone, Upload
<1>5. \A r \in Requests : Sound(request[r])'
  <2> SUFFICES ASSUME NEW r \in Requests PROVE Sound(request[r])'
    OBVIOUS
  <2>1. /\ request'[r].phase = "idle" /\ request'[r].upload = None
        /\ request'[r].listed = {}
    BY <1>1, IdleSound DEF Idle
  <2> QED
    BY <1>2, <2>1, ObjectStorageAssumption
       DEF Sound, Shaped, Confined, Exposes, Progress, Sees, Sweeps, Reading, Removing, Putting
<1>6. StoredUntilRemoved'
  BY <1>1 DEF IInv, StoredUntilRemoved, Whole, disk
<1>7. TemporariesAreSwept'
  <2> SUFFICES ASSUME NEW u \in dirs \cap Uploads
               PROVE  u \in orphaned'
    BY <1>1 DEF TemporariesAreSwept, disk
  <2>1. u \in orphaned \/ \E r \in Requests : Upload(r) = u
    BY DEF IInv, TemporariesAreSwept
  <2> QED
    BY <1>1, <2>1, ObjectStorageAssumption
<1> QED
  BY <1>2, <1>3, <1>4, <1>5, <1>6, <1>7 DEF IInv

LEMMA Initially == Init => IInv
<1> SUFFICES ASSUME Init PROVE IInv
  OBVIOUS
<1> USE DEF Init
<1>1. DOMAIN upload = {}
  OBVIOUS
<1>2. TypeOK
  BY <1>1, IdleSound, ObjectStorageAssumption
     DEF TypeOK, RequestType, Files, Empty
<1>3. Disk
  BY DEF Disk, Empty, Places
<1>4. Alone
  BY IdleSound DEF Alone, Upload
<1>5. \A r \in Requests : Sound(request[r])
  BY IdleSound
<1>6. StoredUntilRemoved /\ TemporariesAreSwept
  BY DEF StoredUntilRemoved, TemporariesAreSwept
<1> QED
  BY <1>2, <1>3, <1>4, <1>5, <1>6 DEF IInv

LEMMA DownloadStep ==
    ASSUME IInv, NEW r \in Requests, Download(r) PROVE IInv'
<1>1. CASE Read(r, "readMetadata", "metadata", "metadata", "stat")
  BY <1>1, ReadStep
<1>2. CASE Read(r, "stat", "body", "length", "readBody")
  BY <1>2, ReadStep
<1>3. CASE Read(r, "readBody", "body", "body", "end")
  BY <1>3, ReadStep
<1> QED
  BY <1>1, <1>2, <1>3 DEF Download

\* Every step keeps the invariant.
LEMMA Inductive == IInv /\ [Next]_vars => IInv'
<1> SUFFICES ASSUME IInv, [Next]_vars PROVE IInv'
  OBVIOUS
<1>1. CASE UNCHANGED vars
  <2>1. TypeOK' /\ Disk' /\ Alone' /\ StoredUntilRemoved' /\ TemporariesAreSwept'
    BY <1>1 DEF vars, disk, env, history, IInv, TypeOK, Disk, Alone, Upload,
       StoredUntilRemoved, Whole, TemporariesAreSwept
  <2>2. \A r \in Requests : Sound(request[r])'
    BY <1>1 DEF vars, disk, env, history, IInv, Sound, Shaped, Confined, Exposes, Progress,
       Sees, Sweeps, BeingRemoved, KeyOf, Below, Removing, Phase, Key
  <2> QED
    BY <2>1, <2>2 DEF IInv
<1>2. CASE Crash
  BY <1>2, CrashStep
<1>3. ASSUME NEW r \in Requests, Serve(r) PROVE IInv'
  <2>1. ASSUME NEW u \in Uploads, MakeTemporary(r, u) PROVE IInv'
    BY <2>1, MakeTemporaryStep
  <2>4. ASSUME NEW u \in Uploads, LoseTemporary(r, u) PROVE IInv'
    BY <2>4, LoseTemporaryStep
  <2>2. CASE OpenBody(r)
    BY <2>2, WriteStep DEF OpenBody
  <2>3. CASE WriteMetadata(r)
    BY <2>3, WriteStep DEF WriteMetadata
  <2> QED
    BY <1>3, <2>1, <2>2, <2>3, <2>4, AlreadyExistsStep, MakeParentStep, StreamChunkStep,
       EndBodyStep, RenameStep, GiveUpStep, FailStep, FindStep, RemoveEntryStep,
       RefuseRemovalStep, DownloadStep, DownloadedStep DEF Serve
<1>4. ASSUME NEW r \in Requests, NEW k \in Keys, Remove(r, k) \/ Get(r, k) PROVE IInv'
  BY <1>4, ArriveStep DEF Remove, Get
<1>5. ASSUME NEW r \in Requests, NEW k \in Keys, NEW limit \in Limits, NEW length \in Lengths,
             NEW chunked \in BOOLEAN, Put(r, k, limit, length, chunked)
      PROVE  IInv'
  <2>1. limit \in Nat /\ length \in Nat
    BY ObjectStorageAssumption
  <2>2. Arrive(r, "put", k, "exists", length, limit)
    BY <1>5 DEF Put
  <2> QED
    BY <2>1, <2>2, ArriveStep
<1> QED
  BY <1>1, <1>2, <1>3, <1>4, <1>5 DEF Next

LEMMA Invariant == Spec => []IInv
BY Initially, Inductive, PTL DEF Spec

\* The variables keep their types, whatever the clients send.
THEOREM TypeCorrect == Spec => []TypeOK
<1>1. IInv => TypeOK
  BY DEF IInv
<1> QED
  BY <1>1, Invariant, PTL

\* An upload answered 201 is at its key, whole, until a removal reaches it.
THEOREM Stored == Spec => []StoredUntilRemoved
<1>1. IInv => StoredUntilRemoved
  BY DEF IInv
<1> QED
  BY <1>1, Invariant, PTL

\* A download that no removal overlapped reads one object.
THEOREM OneObject == Spec => []OneObjectPerDownload
<1>1. IInv => OneObjectPerDownload
  BY RequestTypes DEF OneObjectPerDownload, Sound, Sees, Reading, Phase
<1> QED
  BY <1>1, Invariant, PTL

\* A temporary directory outlives an upload only in a crash, an interruption
\* before its release is in place, or a removal the file system refuses.
THEOREM Swept == Spec => []TemporariesAreSwept
<1>1. IInv => TemporariesAreSwept
  BY DEF IInv
<1> QED
  BY <1>1, Invariant, PTL

-----------------------------------------------------------------------------
(* The storage implements ObjectStore                                      *)

\* A key holds one upload or nothing.
LEMMA OneUpload ==
    ASSUME IInv, NEW k \in Keys
    PROVE  /\ files[k] \in Files
           /\ ObjectAt(k) = IF files[k].metadata = None \/ files[k].body = None
                            THEN None ELSE files[k].body
           /\ ObjectAt(k) \in Uploads \cup {None}
<1>1. files[k] \in Files
  BY DEF IInv, TypeOK, Places
<1>2. files[k].metadata # None /\ files[k].body # None => files[k].metadata = files[k].body
  BY DEF IInv, Disk, Places
<1>3. ObjectAt(k) = IF files[k].metadata = None \/ files[k].body = None
                    THEN None ELSE files[k].body
  BY <1>2 DEF ObjectAt
<1> QED
  BY <1>1, <1>3 DEF Files

\* A step that changes what one key holds, from or to nothing.
LEMMA OneKey ==
    ASSUME IInv, IInv', NEW k \in Keys, \A j \in Keys \ {k} : files'[j] = files[j],
           ObjectAt(k) = None \/ ObjectAt(k)' = None
    PROVE  [Store!Next]_([j \in Keys |-> ObjectAt(j)])
<1> DEFINE s == [j \in Keys |-> ObjectAt(j)]
<1>1. \A j \in Keys \ {k} : ObjectAt(j)' = ObjectAt(j)
  BY DEF ObjectAt
<1>2. PICK o : o = ObjectAt(k)'
  OBVIOUS
<1>3. o \in Uploads \cup {None}
  <2>1. files'[k] \in Files
    BY DEF IInv, TypeOK, Places
  <2>2. files'[k].metadata # None /\ files'[k].body # None
           => files'[k].metadata = files'[k].body
    BY DEF IInv, Disk, Places
  <2> QED
    BY <1>2, <2>1, <2>2 DEF ObjectAt, Files
<1>4. s' = [s EXCEPT ![k] = o]
  BY <1>1, <1>2
<1>5. s[k] = ObjectAt(k)
  OBVIOUS
<1>6. CASE o = ObjectAt(k)
  BY <1>4, <1>5, <1>6
<1>7. CASE o # ObjectAt(k) /\ o = None
  <2>1. Store!Remove(k)
    BY <1>4, <1>5, <1>7 DEF Store!Remove
  <2> QED
    BY <2>1 DEF Store!Next
<1>8. CASE o # ObjectAt(k) /\ o # None
  <2>1. Store!Create(k, o) /\ o \in Uploads
    BY <1>2, <1>3, <1>4, <1>5, <1>8 DEF Store!Create
  <2> QED
    BY <2>1 DEF Store!Next
<1> QED
  BY <1>6, <1>7, <1>8

\* A step that leaves the directories of keys alone.
LEMMA NoKey ==
    ASSUME \A j \in Keys : files'[j] = files[j]
    PROVE  [Store!Next]_([j \in Keys |-> ObjectAt(j)])
<1>1. \A j \in Keys : ObjectAt(j)' = ObjectAt(j)
  BY DEF ObjectAt
<1> QED
  BY <1>1

LEMMA RenameCreates ==
    ASSUME IInv, IInv', NEW r \in Requests, Rename(r)
    PROVE  [Store!Next]_([j \in Keys |-> ObjectAt(j)])
<1>1. /\ Key(r) \in dirs => Contents(Key(r)) = {}
      /\ files' = [files EXCEPT ![Key(r)] = files[Upload(r)], ![Upload(r)] = Empty]
  BY DEF Rename, MayReplace, Replace
<1>2. Key(r) \in Keys /\ Upload(r) \notin Keys
  BY RequestTypes, ObjectStorageAssumption
<1>3. files \in [Places -> Files] /\ Keys \subseteq Places
  BY DEF IInv, TypeOK, Places
<1>4. \A j \in Keys \ {Key(r)} : files'[j] = files[j]
  BY <1>1, <1>2, <1>3
<1>5. ObjectAt(Key(r)) = None
  <2>1. CASE Key(r) \notin dirs
    BY <1>2, <1>3, <2>1, OneUpload DEF IInv, Disk, Empty
  <2>2. CASE Key(r) \in dirs
    <3>1. SUFFICES ASSUME files[Key(r)].body # None PROVE FALSE
      BY <1>2, OneUpload
    <3>2. Entry("body", Key(r)) \in Contents(Key(r))
      BY <3>1 DEF Contents, Empty
    <3> QED
      BY <1>1, <2>2, <3>2
  <2> QED
    BY <2>1, <2>2
<1> QED
  BY <1>2, <1>4, <1>5, OneKey

LEMMA RemoveFileRemoves ==
    ASSUME IInv, IInv', NEW r \in Requests, Phase(r) = "remove", NEW e \in request[r].todo,
           RemoveFile(r, e)
    PROVE  [Store!Next]_([j \in Keys |-> ObjectAt(j)])
<1>1. /\ e.type \in {"metadata", "body"} /\ e.at \in Places
      /\ files' = [files EXCEPT ![e.at][e.type] = None]
  BY RemovalTypes DEF RemoveFile
<1>2. files \in [Places -> Files] /\ Keys \subseteq Places
  BY DEF IInv, TypeOK, Places
<1>3. /\ \A j \in Keys \ {e.at} : files'[j] = files[j]
      /\ files'[e.at][e.type] = None
  <2>1. files[e.at] \in Files
    BY <1>1, <1>2
  <2> QED
    BY <1>1, <1>2, <2>1 DEF Files
<1>4. CASE e.at \in Keys
  <2>1. PICK k \in Keys : k = e.at
    BY <1>4
  <2>2. files'[k].metadata = None \/ files'[k].body = None
    BY <1>1, <1>3, <2>1
  <2>3. ObjectAt(k)' = None
    BY <2>2 DEF ObjectAt
  <2> QED
    BY <1>3, <2>1, <2>3, OneKey
<1>5. CASE e.at \notin Keys
  BY <1>3, <1>5, NoKey
<1> QED
  BY <1>4, <1>5

LEMMA StoreInitially == Init => Store!Init
<1> SUFFICES ASSUME Init PROVE Store!Init
  OBVIOUS
<1>1. \A k \in Keys : ObjectAt(k) = None
  BY DEF Init, ObjectAt, Places, Empty
<1> QED
  BY <1>1 DEF Store!Init

LEMMA StoreStep ==
    IInv /\ IInv' /\ [Next]_vars => [Store!Next]_([k \in Keys |-> ObjectAt(k)])
<1> SUFFICES ASSUME IInv, IInv', [Next]_vars
             PROVE  [Store!Next]_([k \in Keys |-> ObjectAt(k)])
  OBVIOUS
<1>1. ASSUME files' = files
      PROVE  [Store!Next]_([k \in Keys |-> ObjectAt(k)])
  BY <1>1, NoKey
<1>2. CASE UNCHANGED vars
  BY <1>1, <1>2 DEF vars, disk
<1>3. CASE Crash
  BY <1>1, <1>3 DEF Crash, disk
<1>4. ASSUME NEW r \in Requests, Serve(r)
      PROVE  [Store!Next]_([k \in Keys |-> ObjectAt(k)])
  <2>1. CASE Rename(r)
    BY <2>1, RenameCreates
  <2>2. CASE OpenBody(r) \/ WriteMetadata(r)
    <3>1. Upload(r) \notin Keys
      BY RequestTypes, ObjectStorageAssumption
    <3>2. \A j \in Keys : files'[j] = files[j]
      BY <2>2, <3>1 DEF OpenBody, WriteMetadata, Write, IInv, TypeOK, Places
    <3> QED
      BY <3>2, NoKey
  <2>3. CASE RemoveEntry(r)
    <3>1. PICK e \in request[r].todo : RemoveFile(r, e) \/ RemoveDirectory(r, e)
      BY <2>3 DEF RemoveEntry
    <3>2. CASE RemoveFile(r, e)
      BY <2>3, <3>2, RemoveFileRemoves DEF RemoveEntry
    <3>3. CASE RemoveDirectory(r, e)
      BY <1>1, <3>3 DEF RemoveDirectory
    <3> QED
      BY <3>1, <3>2, <3>3
  <2>4. CASE \/ AlreadyExists(r) \/ MakeParent(r) \/ StreamChunk(r) \/ EndBody(r)
             \/ GiveUp(r) \/ Fail(r) \/ Find(r) \/ RefuseRemoval(r) \/ Downloaded(r)
             \/ \E u \in Uploads : MakeTemporary(r, u) \/ LoseTemporary(r, u)
    BY <1>1, <2>4 DEF AlreadyExists, MakeParent, StreamChunk, EndBody, GiveUp, Fail, Find,
       RefuseRemoval, Downloaded, MakeTemporary, LoseTemporary, Temporary, disk
  <2>5. CASE Download(r)
    BY <1>1, <2>5 DEF Download, Read, disk
  <2> QED
    BY <1>4, <2>1, <2>2, <2>3, <2>4, <2>5 DEF Serve
<1>5. ASSUME NEW r \in Requests, NEW k \in Keys, Remove(r, k) \/ Get(r, k)
      PROVE  [Store!Next]_([j \in Keys |-> ObjectAt(j)])
  BY <1>1, <1>5 DEF Remove, Get, Arrive, disk
<1>6. ASSUME NEW r \in Requests, NEW k \in Keys, NEW limit \in Limits, NEW length \in Lengths,
             NEW chunked \in BOOLEAN, Put(r, k, limit, length, chunked)
      PROVE  [Store!Next]_([j \in Keys |-> ObjectAt(j)])
  BY <1>1, <1>6 DEF Put, Arrive, disk
<1> QED
  BY <1>2, <1>3, <1>4, <1>5, <1>6 DEF Next

\* Under every interleaving of its calls to the file system the storage is a
\* create-only store: an upload appears whole at a free key, is never replaced,
\* and goes as a whole.
THEOREM Implements == Spec => CreateOnly
<1>1. Init => Store!Init
  BY StoreInitially
<1>2. IInv /\ IInv' /\ [Next]_vars => [Store!Next]_([k \in Keys |-> ObjectAt(k)])
  BY StoreStep
<1> QED
  BY <1>1, <1>2, Invariant, PTL DEF Spec, CreateOnly, Store!Spec
=============================================================================
