---------------------------- MODULE EvidenceStore ----------------------------
(***************************************************************************)
(* LocalContentAddressedStorage: the create-only store of original         *)
(* evidence.  A call of put_stream copies the client's bytes in chunks     *)
(* into a private staging file while hashing them, seals that file         *)
(* read-only, checks the byte signature, hard-links the file to the path   *)
(* named by its SHA-256, and unlinks the staging name in a finally clause. *)
(* The link fails when the path exists; the object there is then re-hashed *)
(* and compared instead of being replaced.                                 *)
(*                                                                         *)
(* A member of Content stands for one byte string.  Its digest names its   *)
(* path, so objects is indexed by Content.  Calls run on separate threads  *)
(* and interleave at every file-system call.                               *)
(***************************************************************************)
EXTENDS Naturals

CONSTANTS
    Writer,            \* the calls of put_stream, one staging name (uuid4) each
    Content,           \* the byte strings clients stream
    Size,              \* their lengths
    Supported,         \* those whose signature is an allowed media type
    MaxUploadBytes,    \* Settings.max_upload_bytes
    UploadChunkBytes,  \* Settings.upload_chunk_bytes
    Faults             \* what the environment may do in this instance

FaultKinds == {"read", "write", "promote", "unlink", "crash", "tamper"}

ASSUME StoreAssumption ==
    /\ Size \in [Content -> Nat]
    /\ Supported \subseteq Content
    /\ MaxUploadBytes \in Nat
    /\ UploadChunkBytes \in Nat \ {0}
    /\ Faults \subseteq FaultKinds

VARIABLES
    objects,   \* the inode linked at each content path
    staging,   \* the inode under each call's staging name
    writer     \* the progress of each call

vars == <<objects, staging, writer>>

(***************************************************************************)
(* An inode: how many bytes it holds, whether its write bits were removed, *)
(* and whether its bytes are (a prefix of) what the client streamed.       *)
(***************************************************************************)
Inode == [kind: {"none", "file", "other"}, bytes: Nat,
          sealed: BOOLEAN, faithful: BOOLEAN]
NoFile  == [kind |-> "none", bytes |-> 0, sealed |-> FALSE, faithful |-> FALSE]
NewFile == [kind |-> "file", bytes |-> 0, sealed |-> FALSE, faithful |-> TRUE]
Whole(c) == [kind |-> "file", bytes |-> Size[c], sealed |-> TRUE, faithful |-> TRUE]

Outcome == {"none", "created", "deduplicated", "too_large", "empty",
            "unsupported", "read_error", "write_error", "promotion_error",
            "mismatch", "unlink_error"}
PC == {"idle", "opening", "streaming", "promoting", "verifying", "removing",
       "done", "crashed"}
Running == {"opening", "streaming", "promoting", "verifying", "removing"}
Success == {"created", "deduplicated"}

TypeOK ==
    /\ objects \in [Content -> Inode]
    /\ staging \in [Writer -> Inode]
    /\ writer \in [Writer -> [pc: PC, content: Content, outcome: Outcome]]

Init ==
    /\ objects = [c \in Content |-> NoFile]
    /\ staging = [w \in Writer |-> NoFile]
    /\ writer \in [Writer -> [pc: {"idle"}, content: Content, outcome: {"none"}]]

-----------------------------------------------------------------------------
(* put_stream, step by step *)

At(w, pc) == writer[w].pc = pc
GoTo(w, pc) == writer' = [writer EXCEPT ![w].pc = pc]
\* an exception or a result leaves the try block and reaches its finally clause
Leave(w, outcome) ==
    writer' = [writer EXCEPT ![w].pc = "removing", ![w].outcome = outcome]

Remaining(w) == Size[writer[w].content] - staging[w].bytes
NextChunk(w) ==
    IF Remaining(w) < UploadChunkBytes THEN Remaining(w) ELSE UploadChunkBytes

Start(w) ==
    /\ At(w, "idle")
    /\ GoTo(w, "opening")
    /\ UNCHANGED <<objects, staging>>

\* O_CREAT | O_EXCL under a fresh name
OpenStaging(w) ==
    /\ At(w, "opening")
    /\ staging' = [staging EXCEPT ![w] = NewFile]
    /\ GoTo(w, "streaming")
    /\ UNCHANGED objects

OpenFails(w) ==
    /\ At(w, "opening") /\ "write" \in Faults
    /\ Leave(w, "write_error")
    /\ UNCHANGED <<objects, staging>>

\* one turn of the loop; the limit is tested before the chunk is written
WriteChunk(w) ==
    /\ At(w, "streaming")
    /\ Remaining(w) > 0
    /\ staging[w].bytes + NextChunk(w) <= MaxUploadBytes
    /\ staging' = [staging EXCEPT ![w].bytes = @ + NextChunk(w)]
    /\ UNCHANGED <<objects, writer>>

ChunkTooLarge(w) ==
    /\ At(w, "streaming")
    /\ Remaining(w) > 0
    /\ staging[w].bytes + NextChunk(w) > MaxUploadBytes
    /\ Leave(w, "too_large")
    /\ UNCHANGED <<objects, staging>>

\* Mutant of StreamFails: a read error is taken for the end of the stream.
StreamEndsEarly(w) ==
    /\ At(w, "streaming") /\ "read" \in Faults
    /\ GoTo(w, "promoting")
    /\ UNCHANGED <<objects, staging>>

\* the stream, or the write, flush, fsync or fchmod of the staging file, fails
StreamFails(w) ==
    /\ At(w, "streaming")
    /\ \/ "read" \in Faults /\ Leave(w, "read_error")
       \/ "write" \in Faults /\ Leave(w, "write_error")
    /\ UNCHANGED <<objects, staging>>

\* end of stream: fsync, fchmod, the zero-byte check, then the signature check
Seal(w) ==
    LET c == writer[w].content IN
    /\ At(w, "streaming")
    /\ Remaining(w) = 0
    /\ staging' = [staging EXCEPT ![w].sealed = TRUE]
    /\ \/ Size[c] = 0 /\ Leave(w, "empty")
       \/ Size[c] # 0 /\ c \notin Supported /\ Leave(w, "unsupported")
       \/ Size[c] # 0 /\ c \in Supported /\ GoTo(w, "promoting")
    /\ UNCHANGED objects

\* Mutant of Link: os.replace instead of os.link.
LinkReplacing(w) ==
    /\ At(w, "promoting")
    /\ objects' = [objects EXCEPT ![writer[w].content] = staging[w]]
    /\ Leave(w, "created")
    /\ UNCHANGED staging

\* os.link succeeds: the object and the staging name share one inode
Link(w) ==
    LET c == writer[w].content IN
    /\ At(w, "promoting")
    /\ objects[c].kind = "none"
    /\ objects' = [objects EXCEPT ![c] = staging[w]]
    /\ Leave(w, "created")
    /\ UNCHANGED staging

\* Mutant of LinkExists: tries the link again and again.
LinkRetried(w) ==
    /\ At(w, "promoting")
    /\ objects[writer[w].content].kind # "none"
    /\ UNCHANGED vars

LinkExists(w) ==
    /\ At(w, "promoting")
    /\ objects[writer[w].content].kind # "none"
    /\ GoTo(w, "verifying")
    /\ UNCHANGED <<objects, staging>>

PromoteFails(w) ==
    /\ At(w, "promoting") /\ "promote" \in Faults
    /\ Leave(w, "promotion_error")
    /\ UNCHANGED <<objects, staging>>

\* _verify_existing: a regular file whose digests and size are the upload's
Matches(c) ==
    /\ objects[c].kind = "file"
    /\ objects[c].bytes = Size[c]
    /\ objects[c].faithful

\* Mutant of VerifyExisting: trusts an object of the right size.
VerifyExistingSize(w) ==
    LET c == writer[w].content IN
    /\ At(w, "verifying")
    /\ Leave(w, IF objects[c].kind = "file" /\ objects[c].bytes = Size[c]
                THEN "deduplicated" ELSE "mismatch")
    /\ UNCHANGED <<objects, staging>>

VerifyExisting(w) ==
    /\ At(w, "verifying")
    /\ Leave(w, IF Matches(writer[w].content) THEN "deduplicated" ELSE "mismatch")
    /\ UNCHANGED <<objects, staging>>

\* an object that cannot be inspected or read counts as a mismatch
VerifyFails(w) ==
    /\ At(w, "verifying") /\ "read" \in Faults
    /\ Leave(w, "mismatch")
    /\ UNCHANGED <<objects, staging>>

\* the finally clause; a failing unlink replaces whatever the try block produced
RemoveStaging(w) ==
    /\ At(w, "removing")
    /\ GoTo(w, "done")
    /\ staging' = [staging EXCEPT ![w] = NoFile]
    /\ UNCHANGED objects

RemoveFails(w) ==
    /\ At(w, "removing") /\ "unlink" \in Faults
    /\ staging[w].kind # "none"
    /\ writer' = [writer EXCEPT ![w].pc = "done", ![w].outcome = "unlink_error"]
    /\ UNCHANGED <<objects, staging>>

\* what the call does when the operating system obliges
WriterWorks(w) ==
    \/ OpenStaging(w) \/ WriteChunk(w) \/ ChunkTooLarge(w) \/ Seal(w)
    \/ Link(w) \/ LinkExists(w) \/ VerifyExisting(w) \/ RemoveStaging(w)

WriterStep(w) ==
    \/ WriterWorks(w)
    \/ OpenFails(w) \/ StreamFails(w) \/ PromoteFails(w) \/ VerifyFails(w) \/ RemoveFails(w)

-----------------------------------------------------------------------------
(* What the rest of the program asks of the store, and its environment *)

\* contains(sha256, expected_size): looks at the type and the size, not the bytes
Contains(c) == objects[c].kind = "file" /\ objects[c].bytes = Size[c]

\* the process dies: every call ends where it is, files stay as they are
Crash ==
    /\ "crash" \in Faults
    /\ \E w \in Writer : writer[w].pc \in Running
    /\ writer' = [w \in Writer |->
                    IF writer[w].pc \in Running
                    THEN [writer[w] EXCEPT !.pc = "crashed"] ELSE writer[w]]
    /\ UNCHANGED <<objects, staging>>

\* somebody with file-system privileges removes, alters, resizes or replaces
Disturbed(inode) ==
    {NoFile, [inode EXCEPT !.faithful = FALSE],
     [inode EXCEPT !.bytes = 0, !.faithful = FALSE],
     [inode EXCEPT !.kind = "other", !.faithful = FALSE]}
Tamper(c) ==
    /\ "tamper" \in Faults
    /\ objects[c].kind # "none"
    /\ \E inode \in Disturbed(objects[c]) : objects' = [objects EXCEPT ![c] = inode]
    /\ UNCHANGED <<staging, writer>>

Terminated ==
    /\ \A w \in Writer : writer[w].pc \in {"done", "crashed"}
    /\ UNCHANGED vars

Next ==
    \/ \E w \in Writer : Start(w) \/ WriterStep(w)
    \/ Crash
    \/ \E c \in Content : Tamper(c)
    \/ Terminated

Spec == Init /\ [][Next]_vars

\* a thread that runs put_stream is scheduled again and again; it cannot count on a
\* failure to get it any further
FairSpec == Spec /\ \A w \in Writer : WF_vars(WriterWorks(w))

-----------------------------------------------------------------------------
(* Properties *)

\* What is linked at a content path is the whole sealed content and nothing
\* else, unless somebody tampers: no prefix of an interrupted, failed or
\* crashed upload is ever visible under a digest (put_stream, _promote).
PromotedObjectsAreWhole ==
    "tamper" \notin Faults =>
        \A c \in Content : objects[c].kind # "none" => objects[c] = Whole(c)

\* Whatever fails, dies or is tampered with, all that calls ever do to the objects
\* is to add whole sealed contents where nothing was: no prefix of an upload becomes
\* visible, and nothing that is there, intact or damaged, is replaced, altered or
\* removed ("cannot silently replace an original").
OnlyWholeAdded ==
    [][writer' # writer =>
        \A c \in Content : objects'[c] # objects[c] =>
            objects[c].kind = "none" /\ objects'[c] = Whole(c)]_vars

\* Concurrent uploads of the same bytes converge: of the calls that succeed or
\* are about to, at most one created the object, and the object is there.
UploadsConverge ==
    "tamper" \notin Faults =>
        \A w \in Writer : writer[w].outcome \in Success =>
            /\ Matches(writer[w].content)
            /\ \A v \in Writer \ {w} :
                   /\ writer[v].content = writer[w].content
                   /\ writer[w].outcome = "created"
                   => writer[v].outcome # "created"

\* No staging file ever grows beyond the upload limit, so an endless stream
\* cannot fill the disk (the limit is tested before a chunk is written).
StagingBounded == \A w \in Writer : staging[w].bytes <= MaxUploadBytes

\* A call that returned or raised leaves no staging file behind, unless the
\* unlink itself failed, in which case it reported an error, not success.
StagingRemoved ==
    \A w \in Writer :
        /\ At(w, "done") /\ staging[w].kind # "none"
        => writer[w].outcome = "unlink_error"

\* How many steps a call takes at most from where it is, whatever the stream's length.
StepsLeft(w) ==
    IF At(w, "idle") THEN MaxUploadBytes + 6
    ELSE IF At(w, "opening") THEN MaxUploadBytes + 5
    ELSE IF At(w, "streaming") THEN MaxUploadBytes + 4 - staging[w].bytes
    ELSE IF At(w, "promoting") THEN 3
    ELSE IF At(w, "verifying") THEN 2
    ELSE IF At(w, "removing") THEN 1
    ELSE 0

\* put_stream: every step of a call brings its end nearer and no other call, crash or
\* tampering puts it off, so the limit on bytes is a limit on steps as well: an endless
\* stream is given up, and a lost race for the link is not run again.
CallsAdvance ==
    [][\A w \in Writer :
          /\ StepsLeft(w)' \in 0..StepsLeft(w)
          /\ Start(w) \/ WriterStep(w) => StepsLeft(w)' < StepsLeft(w)]_vars

\* Every call ends, or dies with its process: no interleaving of writers, links,
\* verifications and tampering makes one wait for another.
PutTerminates ==
    \A w \in Writer : At(w, "opening") ~> writer[w].pc \in {"done", "crashed"}

-----------------------------------------------------------------------------
(* The store as its callers see it: see CreateOnlyStore *)

AbstractObject(c) ==
    IF objects[c].kind = "none" THEN "absent"
    ELSE IF Matches(c) THEN "intact" ELSE "damaged"

AbstractPhase(w) ==
    CASE At(w, "idle") -> "idle"
      [] At(w, "crashed") -> "refused"
      [] At(w, "done") /\ writer[w].outcome \in Success -> writer[w].outcome
      [] At(w, "done") /\ writer[w].outcome \notin Success -> "refused"
      [] At(w, "removing") /\ writer[w].outcome = "created" -> "added"
      [] At(w, "removing") /\ writer[w].outcome = "deduplicated" -> "observed"
      [] OTHER -> "pending"

Abstract == INSTANCE CreateOnlyStore WITH
    Put <- Writer,
    store <- [c \in Content |-> AbstractObject(c)],
    put <- [w \in Writer |-> [content |-> writer[w].content,
                              phase |-> AbstractPhase(w)]]

\* put_stream implements an atomic put-if-absent that answers truthfully
ImplementsCreateOnlyStore == Abstract!Spec
=============================================================================
