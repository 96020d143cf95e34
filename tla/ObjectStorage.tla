---------------------------- MODULE ObjectStorage -----------------------------
(***************************************************************************)
(* Objects in directories of a file system:                                *)
(* apps/server/src/infrastructure/object-storage/object-storage.local.ts   *)
(* and its routes, object-storage.local.http.ts.                           *)
(*                                                                         *)
(* An object is a directory named by its key, with a metadata file and a   *)
(* body.  An upload writes both into a temporary directory beside the      *)
(* destination and renames it; a download reads one file after the other;  *)
(* a removal takes the directory apart entry by entry.  Every call of the  *)
(* file system is a step.  A file is known by the upload that wrote it,    *)
(* a length is a number of chunks.  A key may lie below another one.        *)
(***************************************************************************)
EXTENDS Integers, FiniteSets

CONSTANTS Requests,       \* requests being served at a time
          Keys, Root,
          Above,          \* the key, or Root, whose directory holds a key's
          Uploads,        \* names of temporary directories, in order
          None,
          Lengths,        \* of what clients send
          Limits,         \* maxContentLength of upload targets
          MaxRequests, MaxCrashes   \* bounds of a behaviour

ASSUME ObjectStorageAssumption ==
    /\ Keys # {} /\ Root \notin Keys \cup Uploads
    /\ Above \in [Keys -> Keys \cup {Root}]
    /\ \A k \in Keys : Above[k] \in Keys => Above[Above[k]] = Root
    /\ Uploads \subseteq Nat
    /\ IsFiniteSet(Uploads)
    /\ Keys \cap Uploads = {}
    /\ None \notin Keys \cup Uploads
    /\ Lengths \subseteq Nat
    /\ Limits \subseteq Nat
    /\ {MaxRequests, MaxCrashes} \subseteq Nat

VARIABLES dirs,           \* directories of keys and temporary ones
          files,          \* the files in each: the upload that wrote them
          written,        \* chunks in the body of each upload
          upload,         \* what each upload is: its key, length and limit
          request,        \* the request each fiber serves
          sent, crashes,
          created,        \* history: uploads answered 201
          exposed,        \* history: uploads a removal overlapped or followed
          orphaned        \* history: uploads that ended without their release

vars == <<dirs, files, written, upload, request, sent, crashes,
          created, exposed, orphaned>>
disk == <<dirs, files, written>>
history == <<created, exposed, orphaned>>
env == <<sent, crashes>>

Places == Keys \cup Uploads
Kinds == {"put", "get", "remove"}
Phases == {"idle", "exists", "parent", "temporary", "open", "stream", "metadata",
           "rename", "find", "remove", "readMetadata", "stat", "readBody", "end"}

Empty == [metadata |-> None, body |-> None]

\* `todo` are the entries a recursive removal has still to remove, `listed`
\* the directories it has read; `seen` are the uploads whose metadata, length
\* and body a download has read, `disturbed` says that a removal overlapped it.
Idle == [phase |-> "idle", kind |-> "get", key |-> CHOOSE k \in Keys : TRUE,
         upload |-> None, length |-> 0, limit |-> 0, todo |-> {}, listed |-> {},
         seen |-> [metadata |-> None, length |-> None, body |-> None],
         disturbed |-> FALSE]

Init ==
    /\ dirs = {}
    /\ files = [p \in Places |-> Empty]
    /\ written = [u \in Uploads |-> 0]
    /\ upload = [u \in {} |-> None]
    /\ request = [r \in Requests |-> Idle]
    /\ sent = 0
    /\ crashes = 0
    /\ created = {}
    /\ exposed = {}
    /\ orphaned = {}

-----------------------------------------------------------------------------
(* The file system. *)

\* A key's directory and those of the keys below it.
Below(k) == {j \in Keys : j = k \/ Above[j] = k}

\* The directory a directory lies in: a temporary one lies beside its object.
In(p) == IF p \in Uploads THEN Above[upload[p].key] ELSE Above[p]

Entry(type, p) == [type |-> type, at |-> p]

Contents(d) ==
    {Entry("directory", p) : p \in {q \in dirs : In(q) = d}}
        \cup {Entry(f, d) : f \in {g \in DOMAIN Empty : files[d][g] # None}}

\* makeDirectory, recursive.
MakeDirectory(d) == dirs' = dirs \cup ({d} \ {Root})
Exists(d) == d \in dirs \cup {Root}

Writable(u, f) == u \in dirs /\ files[u][f] = None
Write(u, f) == files' = [files EXCEPT ![u][f] = u]

\* Seeded defect: what the destination holds is replaced.
MayReplaceAny(u, k) == u \in dirs

\* rename: the destination is missing or an empty directory.
MayReplace(u, k) == u \in dirs /\ (k \in dirs => Contents(k) = {})

Replace(u, k) ==
    /\ dirs' = (dirs \ {u}) \cup {k}
    /\ files' = [files EXCEPT ![k] = files[u], ![u] = Empty]

-----------------------------------------------------------------------------
(* Requests. *)

Phase(r) == request[r].phase
Key(r) == request[r].key
Upload(r) == request[r].upload
Goto(r, phase) == request' = [request EXCEPT ![r].phase = phase]
Finish(r) == request' = [request EXCEPT ![r] = Idle]

\* A removal of the key, or of the one it lies below, is under way.
BeingRemoved(k) == \E r \in Requests : /\ request[r].kind = "remove"
                                       /\ Phase(r) = "remove"
                                       /\ k \in Below(Key(r))

Arrive(r, kind, k, phase, length, limit) ==
    /\ Phase(r) = "idle"
    /\ sent < MaxRequests
    /\ sent' = sent + 1
    /\ request' = [request EXCEPT ![r] =
                     [Idle EXCEPT !.kind = kind, !.key = k, !.phase = phase,
                                  !.length = length, !.limit = limit,
                                  !.disturbed = BeingRemoved(k)]]
    /\ UNCHANGED <<disk, upload, crashes, history>>

-----------------------------------------------------------------------------
(* put *)

\* Seeded defect: the streamed bytes are not counted.
WithinLimitAlways(total, limit) == TRUE

\* limitBytes
WithinLimit(total, limit) == total <= limit

\* An upload with a target for the key that is still valid; the route checks
\* the length the client declares, and a chunked body declares none.
Put(r, k, limit, length, chunked) ==
    /\ chunked \/ WithinLimit(length, limit)
    /\ Arrive(r, "put", k, "exists", length, limit)

AlreadyExists(r) ==
    /\ Phase(r) = "exists"
    /\ IF Key(r) \in dirs THEN Finish(r) ELSE Goto(r, "parent")
    /\ UNCHANGED <<env, disk, upload, history>>

MakeParent(r) ==
    /\ Phase(r) = "parent"
    /\ MakeDirectory(Above[Key(r)])
    /\ Goto(r, "temporary")
    /\ UNCHANGED <<env, files, written, upload, history>>

\* makeTempDirectory.
Temporary(r, u) ==
    /\ Phase(r) = "temporary"
    /\ Exists(Above[Key(r)])
    /\ u \notin DOMAIN upload
    /\ \A v \in Uploads \ DOMAIN upload : u <= v
    /\ dirs' = dirs \cup {u}
    /\ upload' = [v \in DOMAIN upload \cup {u} |->
          IF v = u THEN [key |-> Key(r), length |-> request[r].length, limit |-> request[r].limit]
          ELSE upload[v]]
    /\ exposed' = IF BeingRemoved(Key(r)) THEN exposed \cup {u} ELSE exposed
    /\ UNCHANGED <<env, files, written, created>>

\* acquireUseRelease has the directory.
MakeTemporary(r, u) ==
    /\ Temporary(r, u)
    /\ request' = [request EXCEPT ![r].phase = "open", ![r].upload = u]
    /\ UNCHANGED orphaned

\* The client goes away while the directory is being made, or before
\* acquireUseRelease has it: it is made, and nobody's.
LoseTemporary(r, u) ==
    /\ Temporary(r, u)
    /\ Finish(r)
    /\ orphaned' = orphaned \cup {u}

\* A call is refused, among them makeTempDirectory when the parent has gone, or
\* the client goes away: there is nothing to release.
GiveUp(r) ==
    /\ Phase(r) \in {"exists", "parent", "temporary", "find", "readMetadata", "stat", "readBody"}
    /\ Finish(r)
    /\ UNCHANGED <<env, disk, upload, history>>

\* Seeded defect: the temporary directory stays.
ReleaseNothing(r) == Finish(r)

\* The release of the temporary directory: fs.remove, recursive, its errors ignored.
Release(r) ==
    request' = [request EXCEPT ![r].phase = "remove",
                               ![r].todo = {Entry("directory", Upload(r))}]

\* The file system refuses a call, the client goes away or sends too much,
\* with the release in place.
Fail(r) ==
    /\ Phase(r) \in {"open", "stream", "metadata", "rename"}
    /\ Release(r)
    /\ UNCHANGED <<env, disk, upload, history>>

OpenBody(r) ==
    /\ Phase(r) = "open"
    /\ Writable(Upload(r), "body")
    /\ Write(Upload(r), "body")
    /\ Goto(r, "stream")
    /\ UNCHANGED <<env, dirs, written, upload, history>>

\* The file stays open: a removal of its name is not noticed.
StreamChunk(r) ==
    /\ Phase(r) = "stream"
    /\ written[Upload(r)] < request[r].length
    /\ WithinLimit(written[Upload(r)] + 1, request[r].limit)
    /\ written' = [written EXCEPT ![Upload(r)] = @ + 1]
    /\ UNCHANGED <<env, dirs, files, upload, request, history>>

EndBody(r) ==
    /\ Phase(r) = "stream"
    /\ written[Upload(r)] = request[r].length
    /\ Goto(r, "metadata")
    /\ UNCHANGED <<env, disk, upload, history>>

WriteMetadata(r) ==
    /\ Phase(r) = "metadata"
    /\ Writable(Upload(r), "metadata")
    /\ Write(Upload(r), "metadata")
    /\ Goto(r, "rename")
    /\ UNCHANGED <<env, dirs, written, upload, history>>

\* The object is there under its key and the client is answered 201.
Rename(r) ==
    /\ Phase(r) = "rename"
    /\ MayReplace(Upload(r), Key(r))
    /\ Replace(Upload(r), Key(r))
    /\ created' = created \cup {Upload(r)}
    /\ Finish(r)
    /\ UNCHANGED <<env, written, upload, exposed, orphaned>>

-----------------------------------------------------------------------------
(* remove, and every recursive removal *)

Remove(r, k) == Arrive(r, "remove", k, "find", 0, 0)

\* A missing object is answered ObjectNotFound.
Find(r) ==
    /\ Phase(r) = "find"
    /\ IF Key(r) \notin dirs
       THEN Finish(r) /\ UNCHANGED exposed
       ELSE /\ request' = [q \in Requests |->
                 IF q = r THEN [request[q] EXCEPT !.phase = "remove",
                                                  !.todo = {Entry("directory", Key(r))}]
                 ELSE [request[q] EXCEPT !.disturbed = @ \/ Key(q) \in Below(Key(r))]]
            /\ exposed' = exposed \cup {u \in DOMAIN upload : upload[u].key \in Below(Key(r))}
    /\ UNCHANGED <<env, disk, upload, created, orphaned>>

\* The entries left to remove; the request is over when there are none.
Left(r, todo) ==
    request' = [request EXCEPT ![r] = IF todo = {} THEN Idle ELSE [@ EXCEPT !.todo = todo]]

RemoveFile(r, e) ==
    /\ e.type # "directory"
    /\ files' = [files EXCEPT ![e.at][e.type] = None]
    /\ Left(r, request[r].todo \ {e})
    /\ UNCHANGED dirs

Inside(r, d) == {e \in request[r].todo :
                    IF e.type = "directory" THEN In(e.at) = d ELSE e.at = d}

\* An empty directory goes, any other is listed; entries that came after the
\* listing fail the removal of the directory and of those it lies in.
RemoveDirectory(r, e) ==
    /\ e.type = "directory"
    /\ Inside(r, e.at) = {}
    /\ UNCHANGED files
    /\ \/ /\ Contents(e.at) = {}
          /\ dirs' = dirs \ {e.at}
          /\ Left(r, request[r].todo \ {e})
       \/ /\ Contents(e.at) # {}
          /\ e.at \notin request[r].listed
          /\ request' = [request EXCEPT ![r].todo = @ \cup Contents(e.at),
                                        ![r].listed = @ \cup {e.at}]
          /\ UNCHANGED dirs
       \/ /\ Contents(e.at) # {}
          /\ e.at \in request[r].listed
          /\ Left(r, request[r].todo \ {e, Entry("directory", In(e.at))})
          /\ UNCHANGED dirs

RemoveEntry(r) ==
    /\ Phase(r) = "remove"
    /\ \E e \in request[r].todo : RemoveFile(r, e) \/ RemoveDirectory(r, e)
    /\ UNCHANGED <<env, written, upload, history>>

\* The file system refuses to remove an entry: a release ignores it.
RefuseRemoval(r) ==
    /\ Phase(r) = "remove"
    /\ orphaned' = IF request[r].kind = "put" THEN orphaned \cup {Upload(r)} ELSE orphaned
    /\ Finish(r)
    /\ UNCHANGED <<env, disk, upload, created, exposed>>

-----------------------------------------------------------------------------
(* get *)

Get(r, k) == Arrive(r, "get", k, "readMetadata", 0, 0)

\* A file that is missing is answered ObjectNotFound, or ends the body early.
Read(r, phase, file, what, next) ==
    /\ Phase(r) = phase
    /\ IF files[Key(r)][file] = None THEN Finish(r)
       ELSE request' = [request EXCEPT ![r].seen[what] = files[Key(r)][file],
                                       ![r].phase = next]
    /\ UNCHANGED <<env, disk, upload, history>>

Download(r) ==
    \/ Read(r, "readMetadata", "metadata", "metadata", "stat")
    \/ Read(r, "stat", "body", "length", "readBody")
    \/ Read(r, "readBody", "body", "body", "end")

Downloaded(r) ==
    /\ Phase(r) = "end"
    /\ Finish(r)
    /\ UNCHANGED <<env, disk, upload, history>>

-----------------------------------------------------------------------------

\* The server stops: what it was writing stays on the disk.
Crash ==
    /\ crashes < MaxCrashes
    /\ crashes' = crashes + 1
    /\ orphaned' = orphaned \cup ({Upload(r) : r \in Requests} \ {None})
    /\ request' = [r \in Requests |-> Idle]
    /\ UNCHANGED <<disk, upload, sent, created, exposed>>

Serve(r) ==
    \/ AlreadyExists(r) \/ MakeParent(r)
    \/ (\E u \in Uploads : MakeTemporary(r, u) \/ LoseTemporary(r, u))
    \/ OpenBody(r) \/ StreamChunk(r) \/ EndBody(r) \/ WriteMetadata(r) \/ Rename(r)
    \/ GiveUp(r) \/ Fail(r) \/ Find(r) \/ RemoveEntry(r) \/ RefuseRemoval(r)
    \/ Download(r) \/ Downloaded(r)

Next ==
    \/ Crash
    \/ \E r \in Requests :
          \/ Serve(r)
          \/ \E k \in Keys :
                \/ Remove(r, k)
                \/ Get(r, k)
                \/ \E limit \in Limits, length \in Lengths, chunked \in BOOLEAN :
                      Put(r, k, limit, length, chunked)

Spec == Init /\ [][Next]_vars

-----------------------------------------------------------------------------

Files == [metadata : Uploads \cup {None}, body : Uploads \cup {None}]
Entries == [type : {"directory", "metadata", "body"}, at : Places]

\* The directories, files, uploads and requests are well formed.
TypeOK ==
    /\ dirs \subseteq Keys \cup DOMAIN upload
    /\ files \in [Places -> Files]
    /\ written \in [Uploads -> Nat]
    /\ DOMAIN upload \subseteq Uploads
    /\ upload \in [DOMAIN upload -> [key : Keys, length : Nat, limit : Nat]]
    /\ request \in [Requests ->
          [phase : Phases, kind : Kinds, key : Keys, upload : Uploads \cup {None},
           length : Nat, limit : Nat, todo : SUBSET Entries, listed : SUBSET Places,
           seen : [metadata : Uploads \cup {None}, length : Uploads \cup {None},
                   body : Uploads \cup {None}],
           disturbed : BOOLEAN]]
    /\ created \cup exposed \cup orphaned \subseteq DOMAIN upload
    /\ sent \in 0..MaxRequests
    /\ crashes \in 0..MaxCrashes

\* The upload is at its key, metadata and body, as long as its client sent it
\* and no longer than its target allows.
Whole(u) ==
    /\ files[upload[u].key] = [metadata |-> u, body |-> u]
    /\ written[u] = upload[u].length
    /\ upload[u].length <= upload[u].limit

\* An upload answered 201 is at its key, whole, until a removal of the key or
\* of the one it lies below begins: whatever other uploads of the key, failed
\* calls and crashes there are.
StoredUntilRemoved == \A u \in created \ exposed : Whole(u)

\* What a download reads in three calls is of one upload, unless a removal
\* of the key overlapped it.
OneObjectPerDownload ==
    \A r \in Requests :
        Phase(r) = "end" /\ ~request[r].disturbed =>
            /\ request[r].seen.metadata = request[r].seen.length
            /\ request[r].seen.metadata = request[r].seen.body

\* Once an upload has its temporary directory and the release of it, however it
\* ends, in success, against another upload, in a refused call, a client that
\* goes away or sends too much, the directory is gone with it: unless the server
\* crashes or the file system refuses to remove it.  An upload that ends before
\* the release is in place may leave an empty one (object-storage.local.ts:148).
TemporariesAreSwept ==
    \A u \in dirs \cap Uploads : u \in orphaned \/ \E r \in Requests : Upload(r) = u

-----------------------------------------------------------------------------

\* The object a download of the key finds: one upload, or a mixture of two.
ObjectAt(k) ==
    LET object == files[k]
    IN  CASE object.metadata = None \/ object.body = None -> None
          [] object.metadata = object.body -> object.body
          [] OTHER -> object

Store == INSTANCE ObjectStore WITH store <- [k \in Keys |-> ObjectAt(k)]

\* What the storage promises: under every interleaving of calls to the file
\* system a key goes from free to one whole upload and back, never from one
\* upload to another and never through a mixture.
CreateOnly == Store!Spec
=============================================================================
