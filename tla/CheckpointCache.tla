--------------------------- MODULE CheckpointCache ---------------------------
(***************************************************************************)
(* RunPodModelCacheResolver.resolve: find the one checkpoint of the pinned *)
(* revision in the host's Hugging Face cache.  The host fills and moves    *)
(* that cache while the worker starts, and resolve looks at it many times: *)
(* directories, references, the walk, the path of the checkpoint, what     *)
(* kind of file that is, its hash, and twice again for its header.         *)
(*                                                                         *)
(* A SHA-256 is the content it is of.  Of a path the model keeps where it  *)
(* leads to; directories are found or not, as one fact.                    *)
(***************************************************************************)
EXTENDS SafetensorsLayout

CONSTANTS
    Disks,      \* the states of the cache a call may meet
    Later,      \* the states the host may bring it into during the call
    Requests,   \* what resolve is called with
    Unpinned,   \* an expectation that is None
    Faults      \* what the environment may do in this instance

FaultKinds == {"host", "io"}

Reference == {"main", "revision"}
Place == {"own", "blob", "outside"}

(***************************************************************************)
(* found: the root, the model and the snapshot are directories, none is a  *)
(* link and none leads out of its parent.  extra: the snapshot has a link  *)
(* to a directory or another weight file.  entry: where the checkpoint's   *)
(* path leads to: nothing, the file of the snapshot itself, something odd  *)
(* in its place, a file among the model's blobs, or anywhere else.         *)
(***************************************************************************)
Disk == [found: BOOLEAN, extra: BOOLEAN,
         refs: [Reference -> {"absent", "same", "other", "unsafe"}],
         entry: {"absent", "odd"} \cup Place,
         files: [Place -> Contents \cup {Missing}]]

\* valid: repository, revision and filename are well-formed
Request == [valid: BOOLEAN, safetensors: BOOLEAN,
            bytes: Nat \cup {Unpinned}, hash: Contents \cup {Unpinned}]

ASSUME CacheAssumption ==
    /\ Disks \subseteq Disk /\ Later \subseteq Disk
    /\ Requests \subseteq Request
    /\ Unpinned \notin Nat \cup Contents \cup {Missing}
    /\ Faults \subseteq FaultKinds

VARIABLES
    disk,        \* the cache as it is now
    request,
    path,        \* checkpoint: where the path led to when it was resolved
    bytes,       \* stat.st_size
    hashed,      \* the content that was hashed
    disturbed    \* whether the host or an error interfered with this call

locals == <<path, bytes, hashed>>
vars == <<stage, inspection, disk, request, locals, disturbed>>

Ended == {"resolved", "refused"}

TypeOK ==
    /\ stage \in {"locate", "main", "revision", "walk", "path", "kind", "hash", "compare",
                  "stat", "open", "records", "ranges", "accepted"} \cup Ended
    /\ size \in Nat /\ index \in Nat /\ expected \in Int
    /\ opened \in Contents \cup {Missing}
    /\ placed \subseteq Nat
    /\ disk \in Disk /\ request \in Request
    /\ path \in Place
    /\ bytes \in Nat /\ hashed \in Contents \cup {Missing}
    /\ disturbed \in BOOLEAN

Init ==
    /\ stage = "locate"
    /\ size = 0 /\ opened = Missing /\ index = 1 /\ placed = {} /\ expected = 0
    /\ disk \in Disks /\ request \in Requests
    /\ path = "own" /\ bytes = 0 /\ hashed = Missing
    /\ disturbed = FALSE

\* open follows a link, so the snapshot's own path is where the entry leads to
Reached(p) ==
    IF p # "own" THEN disk.files[p]
    ELSE IF disk.entry \in Place THEN disk.files[disk.entry] ELSE Missing

-----------------------------------------------------------------------------
(* resolve, step by step *)

GoOn(next) == stage' = next /\ UNCHANGED <<inspection, disk, request, locals, disturbed>>
Refuse == GoOn("refused")

Locate ==
    /\ stage = "locate"
    /\ IF request.valid /\ disk.found THEN GoOn("main") ELSE Refuse

\* a reference that is there has to be a small regular file with the revision
ReadReference ==
    /\ stage \in Reference
    /\ IF disk.refs[stage] \in {"absent", "same"}
       THEN GoOn(IF stage = "main" THEN "revision" ELSE "walk")
       ELSE Refuse

Walk ==
    /\ stage = "walk"
    /\ IF disk.extra THEN Refuse ELSE GoOn("path")

\* os.walk passes over a directory that it cannot list
WalkMisses ==
    /\ "io" \in Faults
    /\ stage = "walk"
    /\ stage' = "path" /\ disturbed' = TRUE
    /\ UNCHANGED <<inspection, disk, request, locals>>

\* logical_checkpoint.resolve(strict=True) and stat
ResolvePath ==
    /\ stage = "path"
    /\ \/ /\ disk.entry = "odd"   \* it has a size too, perhaps the one that is expected
          /\ stage' = "kind" /\ path' = "own"
          /\ bytes' \in {0} \cup ({request.bytes} \ {Unpinned})
       \/ /\ disk.entry \in Place /\ disk.files[disk.entry] # Missing
          /\ stage' = "kind" /\ path' = disk.entry
          /\ bytes' = disk.files[disk.entry].size
       \/ /\ \/ disk.entry = "absent"
             \/ disk.entry \in Place /\ disk.files[disk.entry] = Missing
          /\ stage' = "refused" /\ UNCHANGED <<path, bytes>>
    /\ UNCHANGED <<inspection, disk, request, hashed, disturbed>>

\* Mutant of SafeKind: a path that is no link now is taken for a plain file.
SafeKindNow ==
    IF disk.entry \in {"blob", "outside"} THEN path = "blob" ELSE TRUE

\* is_symlink is asked now, of a path that was resolved before
SafeKind ==
    IF disk.entry \in {"blob", "outside"} THEN path = "blob" ELSE path = "own"

Classify ==
    /\ stage = "kind"
    /\ IF SafeKind /\ Reached(path) # Missing THEN GoOn("hash") ELSE Refuse

Hash ==
    /\ stage = "hash"
    /\ \/ Reached(path) = Missing /\ stage' = "refused" /\ UNCHANGED hashed
       \/ /\ Reached(path) # Missing
          /\ stage' = "compare" /\ hashed' = Reached(path)
    /\ UNCHANGED <<inspection, disk, request, path, bytes, disturbed>>

\* Mutant of AsExpected: a length that is right is enough.
AsExpectedLength == request.bytes \in {Unpinned, bytes}

AsExpected ==
    /\ request.bytes \in {Unpinned, bytes}
    /\ request.hash \in {Unpinned, hashed}

Compare ==
    /\ stage = "compare"
    /\ IF AsExpected /\ request.safetensors THEN GoOn("stat") ELSE Refuse

Inspect ==
    /\ \/ StatFile(Reached(path)) \/ OpenFile(Reached(path))
       \/ ReadRecord \/ RecordsEnd \/ PlaceRange \/ RangesEnd
    /\ UNCHANGED <<disk, request, locals, disturbed>>

Return == stage = "accepted" /\ GoOn("resolved")

\* an OSError of any look at the cache
ReadFails ==
    /\ "io" \in Faults
    /\ stage \in {"locate", "main", "revision", "path", "kind", "hash", "stat", "open"}
    /\ stage' = "refused" /\ disturbed' = TRUE
    /\ UNCHANGED <<inspection, disk, request, locals>>

-----------------------------------------------------------------------------
(* The host downloads, replaces or removes *)

HostChanges ==
    /\ "host" \in Faults
    /\ stage \notin Ended
    /\ disk' \in Later \ {disk}
    /\ disturbed' = TRUE
    /\ UNCHANGED <<stage, inspection, request, locals>>

Done == stage \in Ended /\ UNCHANGED vars

Next ==
    \/ Locate \/ ReadReference \/ Walk \/ WalkMisses \/ ResolvePath \/ Classify
    \/ Hash \/ Compare \/ Inspect \/ Return \/ ReadFails \/ HostChanges \/ Done

Spec == Init /\ [][Next]_vars

-----------------------------------------------------------------------------
(* Properties *)

\* A header that was accepted accounts for the data: every byte that stat promised
\* belongs to exactly one tensor, with the width and shape that tensor says, although
\* the loops only compare neighbours of a sorted list (inspect_safetensors).
AcceptedTilesData ==
    stage \in {"accepted", "resolved"} => LaidOut(opened, DataBytes)

\* What a cache has to be for the pinned checkpoint to be usable.
Usable ==
    LET c == Reached("own") IN
    /\ request.valid /\ request.safetensors
    /\ disk.found /\ ~disk.extra
    /\ \A r \in Reference : disk.refs[r] \in {"absent", "same"}
    /\ disk.entry \in {"own", "blob"}
    /\ c # Missing
    /\ request.bytes \in {Unpinned, c.size}
    /\ request.hash \in {Unpinned, c}
    /\ Sound(c)

\* A call that nothing interfered with refuses unusable caches only: no layout, order
\* of records or header at a limit is turned away, and of the empty tensors only
\* those whose zero dimension comes too late for inspect_safetensors.
RefusedForAReason ==
    stage = "refused" /\ ~disturbed /\ Usable => LateZero(Reached("own"))

\* The record describes one usable checkpoint if the cache stood still.  If it did
\* not, the file was still one of this model's own, and a manifest that pins both
\* keeps the length and the hash of one content; only the tensors may be of another.
RecordIsOfOneFile ==
    stage = "resolved" =>
        /\ path \in {"own", "blob"}
        /\ ~disturbed => Usable /\ opened = hashed /\ bytes = hashed.size
        /\ request.hash # Unpinned /\ request.bytes = request.hash.size
               => hashed = request.hash /\ bytes = hashed.size
=============================================================================
