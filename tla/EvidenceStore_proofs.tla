------------------------- MODULE EvidenceStore_proofs -------------------------
(***************************************************************************)
(* Proofs about EvidenceStore, for any number of calls and contents, any   *)
(* sizes and limits, and any choice of faults.                             *)
(***************************************************************************)
EXTENDS EvidenceStore, TLAPS

\* A staging file that is still being written is a prefix of its upload, and one
\* that is about to be linked is the whole sealed upload.
StagingFaithful ==
    \A w \in Writer :
        /\ At(w, "streaming") =>
               /\ staging[w].kind = "file"
               /\ staging[w].faithful
               /\ staging[w].bytes <= Size[writer[w].content]
        /\ At(w, "promoting") => staging[w] = Whole(writer[w].content)

\* A successful call leaves its object in place, and only one call created it.
SuccessHasObject ==
    \A w \in Writer : writer[w].outcome \in Success =>
        objects[writer[w].content].kind # "none"
CreatedOnce ==
    \A v, w \in Writer :
        /\ writer[v].outcome = "created" /\ writer[w].outcome = "created"
        /\ writer[v].content = writer[w].content
        => v = w

-----------------------------------------------------------------------------
(* Type correctness *)

LEMMA ChunkIsNat ==
    ASSUME TypeOK, NEW w \in Writer, Remaining(w) > 0
    PROVE  /\ NextChunk(w) \in Nat \ {0}
           /\ NextChunk(w) <= Remaining(w)
  <1>1. /\ Size[writer[w].content] \in Nat
        /\ staging[w].bytes \in Nat
        /\ UploadChunkBytes \in Nat \ {0}
    BY StoreAssumption DEF TypeOK, Inode
  <1> QED  BY <1>1 DEF NextChunk, Remaining

\* GoTo and Leave touch the record of their call only.
LEMMA GoToEffect ==
    ASSUME TypeOK, NEW w \in Writer, NEW pc, GoTo(w, pc)
    PROVE  /\ writer'[w].pc = pc
           /\ writer'[w].content = writer[w].content
           /\ writer'[w].outcome = writer[w].outcome
           /\ \A v \in Writer \ {w} : writer'[v] = writer[v]
  BY DEF TypeOK, GoTo

LEMMA LeaveEffect ==
    ASSUME TypeOK, NEW w \in Writer, NEW outcome, Leave(w, outcome)
    PROVE  /\ writer'[w].pc = "removing"
           /\ writer'[w].content = writer[w].content
           /\ writer'[w].outcome = outcome
           /\ \A v \in Writer \ {w} : writer'[v] = writer[v]
  BY DEF TypeOK, Leave

LEMMA InitTypeOK == Init => TypeOK
  BY DEF Init, TypeOK, Inode, NoFile, PC, Outcome

LEMMA StepTypeOK == TypeOK /\ [Next]_vars => TypeOK'
  <1> SUFFICES ASSUME TypeOK, [Next]_vars PROVE TypeOK'
    OBVIOUS
  <1> USE DEF TypeOK
  <1>1. ASSUME NEW w \in Writer, Start(w) PROVE TypeOK'
    BY <1>1 DEF Start, At, GoTo, PC
  <1>2. ASSUME NEW w \in Writer, OpenStaging(w) PROVE TypeOK'
    BY <1>2 DEF OpenStaging, At, GoTo, PC, NewFile, Inode
  <1>3. ASSUME NEW w \in Writer, WriteChunk(w) PROVE TypeOK'
    <2>1. NextChunk(w) \in Nat
      BY <1>3, ChunkIsNat DEF WriteChunk
    <2> QED  BY <1>3, <2>1 DEF WriteChunk, Inode
  <1>4. ASSUME NEW w \in Writer, Seal(w) PROVE TypeOK'
    <2>1. staging' \in [Writer -> Inode]
      BY <1>4 DEF Seal, Inode
    <2>2. writer' \in [Writer -> [pc: PC, content: Content, outcome: Outcome]]
      BY <1>4 DEF Seal, GoTo, Leave, PC, Outcome
    <2> QED  BY <1>4, <2>1, <2>2 DEF Seal
  <1>5. ASSUME NEW w \in Writer, Link(w) PROVE TypeOK'
    BY <1>5 DEF Link, At, Leave, PC, Outcome
  <1>6. ASSUME NEW w \in Writer, RemoveStaging(w) PROVE TypeOK'
    BY <1>6 DEF RemoveStaging, At, GoTo, PC, NoFile, Inode
  <1>7. ASSUME NEW w \in Writer,
               \/ OpenFails(w) \/ ChunkTooLarge(w) \/ StreamFails(w) \/ LinkExists(w)
               \/ PromoteFails(w) \/ VerifyExisting(w) \/ VerifyFails(w) \/ RemoveFails(w)
        PROVE  TypeOK'
    <2>1. UNCHANGED <<objects, staging>>
      BY <1>7 DEF OpenFails, ChunkTooLarge, StreamFails, LinkExists, PromoteFails,
                  VerifyExisting, VerifyFails, RemoveFails
    <2>2. writer' \in [Writer -> [pc: PC, content: Content, outcome: Outcome]]
      BY <1>7 DEF OpenFails, ChunkTooLarge, StreamFails, LinkExists, PromoteFails,
                  VerifyExisting, VerifyFails, RemoveFails, GoTo, Leave, PC, Outcome
    <2> QED  BY <2>1, <2>2
  <1>8. CASE Crash
    BY <1>8 DEF Crash, PC
  <1>9. ASSUME NEW c \in Content, Tamper(c) PROVE TypeOK'
    <2>1. ASSUME NEW i \in Inode
          PROVE  /\ NoFile \in Inode
                 /\ [i EXCEPT !.faithful = FALSE] \in Inode
                 /\ [i EXCEPT !.bytes = 0, !.faithful = FALSE] \in Inode
                 /\ [i EXCEPT !.kind = "other", !.faithful = FALSE] \in Inode
      BY DEF NoFile, Inode
    <2>2. objects[c] \in Inode
      OBVIOUS
    <2>3. Disturbed(objects[c]) \subseteq Inode
      BY <2>1, <2>2 DEF Disturbed
    <2> QED  BY <1>9, <2>3 DEF Tamper
  <1>10. CASE UNCHANGED vars
    BY <1>10 DEF vars
  <1> QED
    BY <1>1, <1>2, <1>3, <1>4, <1>5, <1>6, <1>7, <1>8, <1>9, <1>10
    DEF Next, WriterStep, WriterWorks, Terminated

\* Every inode, call and outcome stays within its type: in particular no failure
\* path leaves a call with a partial outcome.
THEOREM TypeCorrect == Spec => []TypeOK
  BY InitTypeOK, StepTypeOK, PTL DEF Spec

-----------------------------------------------------------------------------
(* What staging files hold *)

\* An endless stream never makes a staging file grow beyond the upload limit.
THEOREM BoundedStaging == Spec => []StagingBounded
  <1>1. Init => StagingBounded
    <2> SUFFICES ASSUME Init, NEW w \in Writer PROVE staging[w].bytes <= MaxUploadBytes
      BY DEF StagingBounded
    <2> QED  BY StoreAssumption DEF Init, NoFile
  <1>2. TypeOK /\ StagingBounded /\ [Next]_vars => StagingBounded'
    <2> SUFFICES ASSUME TypeOK, StagingBounded, [Next]_vars, staging' # staging
                 PROVE  StagingBounded'
      BY DEF StagingBounded
    <2> USE StoreAssumption DEF TypeOK, StagingBounded
    <2>1. ASSUME NEW w \in Writer, OpenStaging(w) PROVE StagingBounded'
      BY <2>1 DEF OpenStaging, NewFile
    <2>2. ASSUME NEW w \in Writer, WriteChunk(w) PROVE StagingBounded'
      BY <2>2 DEF WriteChunk
    <2>3. ASSUME NEW w \in Writer, Seal(w) PROVE StagingBounded'
      BY <2>3 DEF Seal, Inode
    <2>4. ASSUME NEW w \in Writer, RemoveStaging(w) PROVE StagingBounded'
      BY <2>4 DEF RemoveStaging, NoFile
    <2> QED
      BY <2>1, <2>2, <2>3, <2>4
      DEF Next, WriterStep, WriterWorks, Terminated, vars, Start, OpenFails, ChunkTooLarge,
          StreamFails, Link, LinkExists, PromoteFails, VerifyExisting, VerifyFails,
          RemoveFails, Crash, Tamper
  <1> QED  BY <1>1, <1>2, TypeCorrect, PTL DEF Spec

\* Every path out of put_stream removes the staging file, or reports that it could
\* not: the error paths included.
THEOREM RemovedStaging == Spec => []StagingRemoved
  <1>1. Init => StagingRemoved
    BY DEF Init, StagingRemoved, NoFile
  <1>2. TypeOK /\ StagingRemoved /\ [Next]_vars => StagingRemoved'
    <2> SUFFICES ASSUME TypeOK, StagingRemoved, [Next]_vars, NEW w \in Writer,
                        At(w, "done")', (staging[w].kind # "none")'
                 PROVE  (writer[w].outcome = "unlink_error")'
      BY DEF StagingRemoved
    <2>1. ASSUME NEW v \in Writer, RemoveStaging(v)
          PROVE  (writer[w].outcome = "unlink_error")'
      BY <2>1, GoToEffect DEF TypeOK, At, RemoveStaging, NoFile, StagingRemoved
    <2>2. ASSUME NEW v \in Writer, RemoveFails(v)
          PROVE  (writer[w].outcome = "unlink_error")'
      BY <2>2 DEF TypeOK, At, RemoveFails, StagingRemoved
    <2>3. ASSUME At(w, "done"), UNCHANGED <<staging[w], writer[w]>>
          PROVE  (writer[w].outcome = "unlink_error")'
      BY <2>3 DEF StagingRemoved
    <2>4. ASSUME NEW v \in Writer,
                 \/ Start(v) \/ OpenStaging(v) \/ OpenFails(v) \/ WriteChunk(v)
                 \/ ChunkTooLarge(v) \/ StreamFails(v) \/ Seal(v) \/ Link(v)
                 \/ LinkExists(v) \/ PromoteFails(v) \/ VerifyExisting(v) \/ VerifyFails(v)
          PROVE  At(w, "done") /\ UNCHANGED <<staging[w], writer[w]>>
      BY <2>4, GoToEffect, LeaveEffect
      DEF TypeOK, At, Start, OpenStaging, OpenFails, WriteChunk, ChunkTooLarge,
          StreamFails, Seal, Link, LinkExists, PromoteFails, VerifyExisting, VerifyFails
    <2>5. ASSUME Crash PROVE At(w, "done") /\ UNCHANGED <<staging[w], writer[w]>>
      BY <2>5 DEF Crash, TypeOK, At
    <2>6. ASSUME (\E c \in Content : Tamper(c)) \/ UNCHANGED vars
          PROVE  At(w, "done") /\ UNCHANGED <<staging[w], writer[w]>>
      BY <2>6 DEF Tamper, At, vars
    <2> QED
      BY <2>1, <2>2, <2>3, <2>4, <2>5, <2>6 DEF Next, WriterStep, WriterWorks, Terminated
  <1> QED  BY <1>1, <1>2, TypeCorrect, PTL DEF Spec

LEMMA StepStagingFaithful ==
    TypeOK /\ StagingFaithful /\ [Next]_vars => StagingFaithful'
  <1> SUFFICES ASSUME TypeOK, StagingFaithful, [Next]_vars, NEW w \in Writer
               PROVE  /\ At(w, "streaming")' =>
                             /\ staging'[w].kind = "file"
                             /\ staging'[w].faithful
                             /\ staging'[w].bytes <= Size[writer'[w].content]
                      /\ At(w, "promoting")' => staging'[w] = Whole(writer'[w].content)
    BY DEF StagingFaithful, Whole
  <1> DEFINE Goal == /\ At(w, "streaming")' =>
                             /\ staging'[w].kind = "file"
                             /\ staging'[w].faithful
                             /\ staging'[w].bytes <= Size[writer'[w].content]
                     /\ At(w, "promoting")' => staging'[w] = Whole(writer'[w].content)
  <1>1. ASSUME UNCHANGED <<staging[w], writer[w]>> PROVE Goal
    BY <1>1 DEF StagingFaithful, At, Whole
  <1>2. ASSUME writer'[w].pc \notin {"streaming", "promoting"} PROVE Goal
    BY <1>2 DEF At
  <1>3. ASSUME OpenStaging(w) PROVE Goal
    BY <1>3, GoToEffect, StoreAssumption DEF OpenStaging, At, NewFile, TypeOK
  <1>4. ASSUME WriteChunk(w) PROVE Goal
    <2>1. /\ NextChunk(w) \in Nat
          /\ staging[w].bytes + NextChunk(w) <= Size[writer[w].content]
      BY <1>4, ChunkIsNat, StoreAssumption DEF WriteChunk, Remaining, TypeOK, Inode
    <2>2. /\ staging[w].kind = "file"
          /\ staging[w].faithful
          /\ At(w, "streaming")
      BY <1>4 DEF WriteChunk, StagingFaithful
    <2>3. /\ staging'[w].kind = staging[w].kind
          /\ staging'[w].faithful = staging[w].faithful
          /\ staging'[w].bytes = staging[w].bytes + NextChunk(w)
      BY <1>4 DEF WriteChunk, TypeOK, Inode
    <2> QED  BY <1>4, <2>1, <2>2, <2>3 DEF WriteChunk, At
  <1>5. ASSUME Seal(w) PROVE Goal
    <2>1. writer'[w].pc \in {"removing", "promoting"}
      BY <1>5, GoToEffect, LeaveEffect DEF Seal
    <2>2. writer'[w].content = writer[w].content
      BY <1>5, GoToEffect, LeaveEffect DEF Seal
    <2>3. /\ staging[w].kind = "file"
          /\ staging[w].faithful
          /\ staging[w].bytes = Size[writer[w].content]
      <3>1. staging[w].kind = "file" /\ staging[w].faithful
        BY <1>5 DEF Seal, StagingFaithful
      <3>2. staging[w].bytes = Size[writer[w].content]
        <4>1. Size[writer[w].content] \in Nat /\ staging[w].bytes \in Nat
          BY StoreAssumption DEF TypeOK, Inode
        <4> QED  BY <1>5, <4>1 DEF Seal, Remaining
      <3> QED  BY <3>1, <3>2
    <2>4. staging'[w] = [staging[w] EXCEPT !.sealed = TRUE]
      BY <1>5 DEF Seal, TypeOK
    <2>5. staging'[w] = Whole(writer[w].content)
      BY <2>3, <2>4 DEF TypeOK, Inode, Whole
    <2> QED  BY <2>1, <2>2, <2>5 DEF At
  <1>6. ASSUME \/ Start(w) \/ OpenFails(w) \/ ChunkTooLarge(w) \/ StreamFails(w)
               \/ Link(w) \/ LinkExists(w) \/ PromoteFails(w) \/ VerifyExisting(w)
               \/ VerifyFails(w) \/ RemoveStaging(w) \/ RemoveFails(w)
        PROVE  writer'[w].pc \notin {"streaming", "promoting"}
    BY <1>6, GoToEffect, LeaveEffect
    DEF TypeOK, Start, OpenFails, ChunkTooLarge, StreamFails, Link, LinkExists,
        PromoteFails, VerifyExisting, VerifyFails, RemoveStaging, RemoveFails
  <1>7. ASSUME NEW v \in Writer \ {w}, Start(v) \/ WriterStep(v)
        PROVE  UNCHANGED <<staging[w], writer[w]>>
    BY <1>7, GoToEffect, LeaveEffect
    DEF TypeOK, WriterStep, WriterWorks, Start, OpenStaging, OpenFails, WriteChunk, ChunkTooLarge,
        StreamFails, Seal, Link, LinkExists, PromoteFails, VerifyExisting, VerifyFails,
        RemoveStaging, RemoveFails
  <1>8. ASSUME Crash
        PROVE  UNCHANGED <<staging[w], writer[w]>>
               \/ writer'[w].pc \notin {"streaming", "promoting"}
    BY <1>8 DEF Crash, TypeOK
  <1>9. ASSUME (\E c \in Content : Tamper(c)) \/ UNCHANGED vars
        PROVE  UNCHANGED <<staging[w], writer[w]>>
    BY <1>9 DEF Tamper, vars
  <1>10. Goal
    <2>1. CASE \E v \in Writer \ {w} : Start(v) \/ WriterStep(v)
      BY <2>1, <1>7, <1>1
    <2>2. CASE Start(w) \/ WriterStep(w)
      BY <2>2, <1>2, <1>3, <1>4, <1>5, <1>6 DEF WriterStep, WriterWorks
    <2>3. CASE Crash
      BY <2>3, <1>8, <1>1, <1>2
    <2>4. CASE (\E c \in Content : Tamper(c)) \/ UNCHANGED vars
      BY <2>4, <1>9, <1>1
    <2> QED  BY <2>1, <2>2, <2>3, <2>4 DEF Next, Terminated
  <1> QED  BY <1>10

LEMMA StagingIsFaithful == Spec => []StagingFaithful
  <1>1. Init => StagingFaithful
    BY DEF Init, StagingFaithful, At
  <1> QED  BY <1>1, StepStagingFaithful, TypeCorrect, PTL DEF Spec

-----------------------------------------------------------------------------
(* What becomes visible under a digest *)

\* Unless somebody tampers, only whole sealed contents are ever linked at a content
\* path, whatever fails, races or dies.
THEOREM WholeObjects == Spec => []PromotedObjectsAreWhole
  <1>1. Init => PromotedObjectsAreWhole
    BY DEF Init, PromotedObjectsAreWhole, NoFile
  <1>2. TypeOK /\ StagingFaithful /\ PromotedObjectsAreWhole /\ [Next]_vars
            => PromotedObjectsAreWhole'
    <2> SUFFICES ASSUME TypeOK, StagingFaithful, PromotedObjectsAreWhole, [Next]_vars,
                        "tamper" \notin Faults, objects' # objects
                 PROVE  PromotedObjectsAreWhole'
      BY DEF PromotedObjectsAreWhole, Whole
    <2>1. PICK w \in Writer : Link(w)
      BY DEF Next, WriterStep, WriterWorks, Terminated, vars, Start, OpenStaging, OpenFails, WriteChunk,
             ChunkTooLarge, StreamFails, Seal, LinkExists, PromoteFails, VerifyExisting,
             VerifyFails, RemoveStaging, RemoveFails, Crash, Tamper
    <2>2. staging[w] = Whole(writer[w].content)
      BY <2>1 DEF Link, StagingFaithful
    <2> QED  BY <2>1, <2>2 DEF Link, PromotedObjectsAreWhole, Whole, TypeOK
  <1> QED  BY <1>1, <1>2, TypeCorrect, StagingIsFaithful, PTL DEF Spec

\* The calls of put_stream only ever add whole sealed contents where nothing was:
\* they publish no prefix and change nothing they find, damaged objects included.
THEOREM WholeAndNew == Spec => OnlyWholeAdded
  <1>1. TypeOK /\ StagingFaithful /\ [Next]_vars =>
            [writer' # writer =>
                \A c \in Content : objects'[c] # objects[c] =>
                    objects[c].kind = "none" /\ objects'[c] = Whole(c)]_vars
    <2> SUFFICES ASSUME TypeOK, StagingFaithful, Next, writer' # writer, NEW c \in Content,
                        objects'[c] # objects[c]
                 PROVE  objects[c].kind = "none" /\ objects'[c] = Whole(c)
      OBVIOUS
    <2>1. PICK w \in Writer : Link(w)
      BY DEF Next, WriterStep, WriterWorks, Terminated, vars, Start, OpenStaging, OpenFails, WriteChunk,
             ChunkTooLarge, StreamFails, Seal, LinkExists, PromoteFails, VerifyExisting,
             VerifyFails, RemoveStaging, RemoveFails, Crash, Tamper
    <2>2. staging[w] = Whole(writer[w].content)
      BY <2>1 DEF Link, StagingFaithful
    <2> QED  BY <2>1, <2>2 DEF Link, TypeOK
  <1> QED  BY <1>1, TypeCorrect, StagingIsFaithful, PTL DEF Spec, OnlyWholeAdded

-----------------------------------------------------------------------------
(* Duplicates *)

\* Concurrent uploads of the same bytes converge: every call that succeeds finds
\* the whole object in place, and one call at most created it.
THEOREM DuplicatesConverge == Spec => []UploadsConverge
  <1> DEFINE Inv == ("tamper" \notin Faults => SuccessHasObject /\ CreatedOnce)
  <1>1. Init => Inv
    BY DEF Init, SuccessHasObject, CreatedOnce, Success
  <1>2. TypeOK /\ StagingFaithful /\ Inv /\ [Next]_vars => Inv'
    <2> SUFFICES ASSUME TypeOK, StagingFaithful, SuccessHasObject, CreatedOnce, [Next]_vars,
                        "tamper" \notin Faults
                 PROVE  SuccessHasObject' /\ CreatedOnce'
      OBVIOUS
    <2>1. ASSUME NEW c \in Content, objects[c].kind # "none" PROVE objects'[c] = objects[c]
      <3>1. CASE UNCHANGED objects
        BY <3>1
      <3>2. ASSUME NEW w \in Writer, Link(w) PROVE objects'[c] = objects[c]
        BY <2>1, <3>2 DEF Link, TypeOK
      <3> QED
        BY <3>1, <3>2
        DEF Next, WriterStep, WriterWorks, Terminated, vars, Start, OpenStaging, OpenFails, WriteChunk,
            ChunkTooLarge, StreamFails, Seal, LinkExists, PromoteFails, VerifyExisting,
            VerifyFails, RemoveStaging, RemoveFails, Crash, Tamper
    <2>2. ASSUME \A w \in Writer :
                   /\ writer'[w].content = writer[w].content
                   /\ \/ writer'[w].outcome = writer[w].outcome
                      \/ writer'[w].outcome \notin Success
                      \/ /\ writer'[w].outcome = "deduplicated"
                         /\ objects[writer[w].content].kind # "none"
          PROVE  SuccessHasObject' /\ CreatedOnce'
      <3>1. \A w \in Writer : writer[w].content \in Content
        BY DEF TypeOK
      <3>2. SuccessHasObject'
        BY <2>1, <2>2, <3>1 DEF SuccessHasObject
      <3>3. \A w \in Writer : writer'[w].outcome = "created" => writer[w].outcome = "created"
        BY <2>2 DEF Success
      <3>4. CreatedOnce'
        BY <2>2, <3>3 DEF CreatedOnce
      <3> QED  BY <3>2, <3>4
    <2>3. ASSUME NEW w \in Writer, Link(w) PROVE SuccessHasObject' /\ CreatedOnce'
      <3>1. /\ writer'[w].content = writer[w].content
            /\ writer'[w].outcome = "created"
            /\ \A v \in Writer \ {w} : writer'[v] = writer[v]
        BY <2>3, LeaveEffect DEF Link
      <3>2. /\ objects[writer[w].content].kind = "none"
            /\ writer[w].content \in Content
        BY <2>3 DEF Link, TypeOK
      <3>3. \A v \in Writer : writer[v].outcome \in Success =>
                writer[v].content # writer[w].content
        BY <3>2 DEF SuccessHasObject
      <3>4. CreatedOnce'
        BY <3>1, <3>3 DEF CreatedOnce, Success
      <3>5. objects'[writer[w].content].kind # "none"
        <4>1. objects'[writer[w].content] = staging[w]
          BY <2>3, <3>2 DEF Link, TypeOK
        <4>2. staging[w] = Whole(writer[w].content)
          BY <2>3 DEF Link, StagingFaithful
        <4> QED  BY <4>1, <4>2 DEF Whole
      <3>6. SuccessHasObject'
        <4> SUFFICES ASSUME NEW v \in Writer, writer'[v].outcome \in Success
                     PROVE  objects'[writer'[v].content].kind # "none"
          BY DEF SuccessHasObject
        <4>1. CASE v = w
          BY <4>1, <3>1, <3>5
        <4>2. CASE v # w
          <5>1. writer[v].content \in Content
            BY DEF TypeOK
          <5> QED  BY <4>2, <5>1, <3>1, <2>1 DEF SuccessHasObject
        <4> QED  BY <4>1, <4>2
      <3> QED  BY <3>4, <3>6
    <2>4. ASSUME NEW w \in Writer, Start(w) \/ WriterStep(w), ~Link(w)
          PROVE  SuccessHasObject' /\ CreatedOnce'
      <3>1. \A v \in Writer \ {w} : writer'[v] = writer[v]
        BY <2>4, GoToEffect, LeaveEffect
        DEF TypeOK, WriterStep, WriterWorks, Start, OpenStaging, OpenFails, WriteChunk, ChunkTooLarge,
            StreamFails, Seal, LinkExists, PromoteFails, VerifyExisting, VerifyFails,
            RemoveStaging, RemoveFails
      <3>2. /\ writer'[w].content = writer[w].content
            /\ \/ writer'[w].outcome = writer[w].outcome
               \/ writer'[w].outcome \notin Success
               \/ /\ writer'[w].outcome = "deduplicated"
                  /\ objects[writer[w].content].kind # "none"
        <4>1. CASE VerifyExisting(w)
          BY <4>1, LeaveEffect DEF VerifyExisting, Matches, Success
        <4>2. CASE RemoveFails(w)
          BY <4>2 DEF RemoveFails, TypeOK, Success
        <4>3. CASE WriteChunk(w)
          BY <4>3 DEF WriteChunk
        <4>4. CASE \/ Start(w) \/ OpenStaging(w) \/ LinkExists(w) \/ RemoveStaging(w)
          BY <4>4, GoToEffect DEF Start, OpenStaging, LinkExists, RemoveStaging
        <4>5. CASE \/ OpenFails(w) \/ ChunkTooLarge(w) \/ StreamFails(w) \/ PromoteFails(w)
                   \/ VerifyFails(w)
          BY <4>5, LeaveEffect
          DEF OpenFails, ChunkTooLarge, StreamFails, PromoteFails, VerifyFails, Success
        <4>6. CASE Seal(w)
          BY <4>6, GoToEffect, LeaveEffect DEF Seal, Success
        <4> QED  BY <2>4, <4>1, <4>2, <4>3, <4>4, <4>5, <4>6 DEF WriterStep, WriterWorks
      <3> QED  BY <3>1, <3>2, <2>2
    <2>5. ASSUME Crash PROVE SuccessHasObject' /\ CreatedOnce'
      <3>1. \A w \in Writer : /\ writer'[w].content = writer[w].content
                              /\ writer'[w].outcome = writer[w].outcome
        BY <2>5 DEF Crash, TypeOK
      <3> QED  BY <3>1, <2>2
    <2>6. ASSUME UNCHANGED vars PROVE SuccessHasObject' /\ CreatedOnce'
      BY <2>6, <2>2 DEF vars
    <2> QED
      BY <2>3, <2>4, <2>5, <2>6 DEF Next, Terminated, Tamper
  <1>3. TypeOK /\ Inv /\ PromotedObjectsAreWhole => UploadsConverge
    <2> SUFFICES ASSUME TypeOK, SuccessHasObject, CreatedOnce, PromotedObjectsAreWhole,
                        "tamper" \notin Faults, NEW w \in Writer,
                        writer[w].outcome \in Success
                 PROVE  /\ Matches(writer[w].content)
                        /\ \A v \in Writer \ {w} :
                               /\ writer[v].content = writer[w].content
                               /\ writer[w].outcome = "created"
                               => writer[v].outcome # "created"
      BY DEF UploadsConverge
    <2>1. objects[writer[w].content] = Whole(writer[w].content)
      BY DEF SuccessHasObject, PromotedObjectsAreWhole, TypeOK
    <2>2. Matches(writer[w].content)
      BY <2>1 DEF Matches, Whole
    <2> QED  BY <2>2 DEF CreatedOnce
  <1> QED
    BY <1>1, <1>2, <1>3, TypeCorrect, StagingIsFaithful, WholeObjects, PTL DEF Spec

-----------------------------------------------------------------------------
(* Refinement of CreateOnlyStore *)

Store == [c \in Content |-> AbstractObject(c)]
Put == [w \in Writer |-> [content |-> writer[w].content, phase |-> AbstractPhase(w)]]

\* The phase of a call, by its program counter and outcome.
PhaseTable(w) ==
    /\ At(w, "idle") => AbstractPhase(w) = "idle"
    /\ writer[w].pc \in {"opening", "streaming", "promoting", "verifying"}
           => AbstractPhase(w) = "pending"
    /\ At(w, "crashed") => AbstractPhase(w) = "refused"
    /\ At(w, "removing") =>
           /\ writer[w].outcome = "created" => AbstractPhase(w) = "added"
           /\ writer[w].outcome = "deduplicated" => AbstractPhase(w) = "observed"
           /\ writer[w].outcome \notin Success => AbstractPhase(w) = "pending"
    /\ At(w, "done") =>
           /\ writer[w].outcome \in Success => AbstractPhase(w) = writer[w].outcome
           /\ writer[w].outcome \notin Success => AbstractPhase(w) = "refused"

LEMMA Phases == ASSUME NEW w \in Writer PROVE PhaseTable(w)
  BY DEF PhaseTable, AbstractPhase, At, Success

LEMMA PhasesNext == ASSUME NEW w \in Writer PROVE PhaseTable(w)'
  BY DEF PhaseTable, AbstractPhase, At, Success

\* A step of one call moves that call's phase and no other.
LEMMA OneCallMoves ==
    ASSUME NEW w \in Writer, NEW from, NEW to,
           AbstractPhase(w) = from, AbstractPhase(w)' = to,
           writer'[w].content = writer[w].content,
           \A v \in Writer \ {w} : writer'[v] = writer[v]
    PROVE  /\ Abstract!Move(w, from, to)
           /\ from = to => Put' = Put
  <1>1. \A v \in Writer \ {w} : AbstractPhase(v)' = AbstractPhase(v)
    BY DEF AbstractPhase, At
  <1>2. Put[w].phase = from
    BY DEF Put
  <1>3. Put' = [Put EXCEPT ![w].phase = to]
    BY <1>1 DEF Put
  <1>4. from = to => Put' = Put
    BY <1>1 DEF Put
  <1> QED  BY <1>2, <1>3, <1>4 DEF Abstract!Move, Put

LEMMA StoreUnchanged == ASSUME UNCHANGED objects PROVE UNCHANGED Store
  BY DEF Store, AbstractObject, Matches

\* put_stream implements the atomic create-only store its callers rely on: every
\* step is a step of CreateOnlyStore or changes nothing it shows.
THEOREM Refinement == Spec => ImplementsCreateOnlyStore
  <1>1. Init => Abstract!Init
    <2> SUFFICES ASSUME Init PROVE Abstract!Init
      OBVIOUS
    <2>1. Store = [c \in Content |-> "absent"]
      BY DEF Init, Store, AbstractObject, NoFile
    <2>2. \A w \in Writer : AbstractPhase(w) = "idle" /\ writer[w].content \in Content
      BY DEF Init, AbstractPhase, At
    <2>3. Put \in [Writer -> [content: Content, phase: {"idle"}]]
      BY <2>2 DEF Put
    <2> QED  BY <2>1, <2>3 DEF Abstract!Init, Store, Put
  <1>2. TypeOK /\ StagingFaithful /\ [Next]_vars => [Abstract!Next]_(Abstract!vars)
    <2> SUFFICES ASSUME TypeOK, StagingFaithful, [Next]_vars
                 PROVE  Abstract!Next \/ (Store' = Store /\ Put' = Put)
      BY DEF Abstract!vars, Store, Put
    <2>1. ASSUME NEW w \in Writer, Start(w) PROVE Abstract!Begin(w)
      <3>1. writer'[w].pc = "opening"
        BY <2>1, GoToEffect DEF Start
      <3>2. AbstractPhase(w) = "idle" /\ AbstractPhase(w)' = "pending"
        BY <2>1, <3>1, Phases, PhasesNext DEF Start, PhaseTable
      <3>3. Abstract!Move(w, "idle", "pending")
        BY <2>1, <3>2, GoToEffect, OneCallMoves DEF Start
      <3> QED  BY <2>1, <3>3, StoreUnchanged DEF Start, Abstract!Begin, Store
    <2>2. ASSUME NEW w \in Writer,
                 \/ OpenStaging(w) \/ OpenFails(w) \/ WriteChunk(w) \/ ChunkTooLarge(w)
                 \/ StreamFails(w) \/ Seal(w) \/ LinkExists(w) \/ PromoteFails(w)
                 \/ VerifyFails(w) \/ (VerifyExisting(w) /\ ~Matches(writer[w].content))
          PROVE  Store' = Store /\ Put' = Put
      <3>1. writer[w].pc \in {"opening", "streaming", "promoting", "verifying"}
        BY <2>2 DEF OpenStaging, OpenFails, WriteChunk, ChunkTooLarge, StreamFails, Seal,
                    LinkExists, PromoteFails, VerifyFails, VerifyExisting, At
      <3>2. \/ writer'[w].pc \in {"opening", "streaming", "promoting", "verifying"}
            \/ writer'[w].pc = "removing" /\ writer'[w].outcome \notin Success
        BY <2>2, GoToEffect, LeaveEffect
        DEF OpenStaging, OpenFails, WriteChunk, ChunkTooLarge, StreamFails, Seal,
            LinkExists, PromoteFails, VerifyFails, VerifyExisting, At, Success
      <3>3. /\ writer'[w].content = writer[w].content
            /\ \A v \in Writer \ {w} : writer'[v] = writer[v]
        BY <2>2, GoToEffect, LeaveEffect
        DEF OpenStaging, OpenFails, WriteChunk, ChunkTooLarge, StreamFails, Seal,
            LinkExists, PromoteFails, VerifyFails, VerifyExisting
      <3>4. AbstractPhase(w) = "pending" /\ AbstractPhase(w)' = "pending"
        BY <3>1, <3>2, Phases, PhasesNext DEF PhaseTable, At
      <3>5. UNCHANGED objects
        BY <2>2 DEF OpenStaging, OpenFails, WriteChunk, ChunkTooLarge, StreamFails, Seal,
                    LinkExists, PromoteFails, VerifyFails, VerifyExisting
      <3> QED  BY <3>3, <3>4, <3>5, OneCallMoves, StoreUnchanged
    <2>3. ASSUME NEW w \in Writer, Link(w) PROVE Abstract!Add(w)
      <3>0. PICK c \in Content : c = writer[w].content
        BY DEF TypeOK
      <3>1. /\ objects[c].kind = "none"
            /\ objects' = [objects EXCEPT ![c] = Whole(c)]
        BY <2>3, <3>0 DEF Link, TypeOK, StagingFaithful
      <3>2. AbstractObject(c) = "absent" /\ AbstractObject(c)' = "intact"
        BY <3>1 DEF AbstractObject, Matches, Whole, TypeOK
      <3>3. \A d \in Content \ {c} : AbstractObject(d)' = AbstractObject(d)
        BY <3>1 DEF AbstractObject, Matches, TypeOK
      <3>4. /\ Store[c] = "absent"
            /\ Store' = [Store EXCEPT ![c] = "intact"]
        BY <3>1, <3>2, <3>3 DEF Store
      <3>5. AbstractPhase(w) = "pending" /\ AbstractPhase(w)' = "added"
        <4>1. writer'[w].pc = "removing" /\ writer'[w].outcome = "created"
          BY <2>3, LeaveEffect DEF Link
        <4> QED  BY <2>3, <4>1, Phases, PhasesNext DEF Link, PhaseTable, At
      <3>6. Abstract!Move(w, "pending", "added")
        BY <2>3, <3>5, LeaveEffect, OneCallMoves DEF Link
      <3>7. Put[w].content = c
        BY <3>0 DEF Put
      <3> QED  BY <3>4, <3>6, <3>7 DEF Abstract!Add, Store, Put
    <2>4. ASSUME NEW w \in Writer, VerifyExisting(w), Matches(writer[w].content)
          PROVE  Abstract!Observe(w)
      <3>1. writer'[w].pc = "removing" /\ writer'[w].outcome = "deduplicated"
        BY <2>4, LeaveEffect DEF VerifyExisting
      <3>2. AbstractPhase(w) = "pending" /\ AbstractPhase(w)' = "observed"
        BY <2>4, <3>1, Phases, PhasesNext DEF VerifyExisting, PhaseTable, At
      <3>3. Abstract!Move(w, "pending", "observed")
        BY <2>4, <3>2, LeaveEffect, OneCallMoves DEF VerifyExisting
      <3>4. Store[Put[w].content] = "intact"
        BY <2>4 DEF Store, Put, AbstractObject, Matches, TypeOK
      <3> QED
        BY <2>4, <3>3, <3>4, StoreUnchanged DEF VerifyExisting, Abstract!Observe, Store, Put
    <2>5. ASSUME NEW w \in Writer, RemoveStaging(w)
          PROVE  Abstract!Answer(w) \/ Abstract!Refuse(w)
      <3>1. /\ writer[w].pc = "removing" /\ writer'[w].pc = "done"
            /\ writer'[w].outcome = writer[w].outcome
        BY <2>5, GoToEffect DEF RemoveStaging, At
      <3>2. UNCHANGED Store
        BY <2>5, StoreUnchanged DEF RemoveStaging
      <3>3. CASE writer[w].outcome = "created"
        <4>1. AbstractPhase(w) = "added" /\ AbstractPhase(w)' = "created"
          BY <3>1, <3>3, Phases, PhasesNext DEF PhaseTable, At, Success
        <4>2. Abstract!Move(w, "added", "created")
          BY <2>5, <4>1, GoToEffect, OneCallMoves DEF RemoveStaging
        <4> QED  BY <3>2, <4>2 DEF Abstract!Answer, Store
      <3>4. CASE writer[w].outcome = "deduplicated"
        <4>1. AbstractPhase(w) = "observed" /\ AbstractPhase(w)' = "deduplicated"
          BY <3>1, <3>4, Phases, PhasesNext DEF PhaseTable, At, Success
        <4>2. Abstract!Move(w, "observed", "deduplicated")
          BY <2>5, <4>1, GoToEffect, OneCallMoves DEF RemoveStaging
        <4> QED  BY <3>2, <4>2 DEF Abstract!Answer, Store
      <3>5. CASE writer[w].outcome \notin Success
        <4>1. AbstractPhase(w) = "pending" /\ AbstractPhase(w)' = "refused"
          BY <3>1, <3>5, Phases, PhasesNext DEF PhaseTable, At
        <4>2. Abstract!Move(w, "pending", "refused")
          BY <2>5, <4>1, GoToEffect, OneCallMoves DEF RemoveStaging
        <4> QED  BY <3>2, <4>2 DEF Abstract!Refuse, Store
      <3> QED  BY <3>3, <3>4, <3>5 DEF Success
    <2>6. ASSUME NEW w \in Writer, RemoveFails(w) PROVE Abstract!Refuse(w)
      <3>1. /\ writer[w].pc = "removing" /\ writer'[w].pc = "done"
            /\ writer'[w].outcome = "unlink_error"
            /\ writer'[w].content = writer[w].content
            /\ \A v \in Writer \ {w} : writer'[v] = writer[v]
        BY <2>6 DEF RemoveFails, At, TypeOK
      <3>2. /\ AbstractPhase(w) \in {"pending", "added", "observed"}
            /\ AbstractPhase(w)' = "refused"
        BY <3>1, Phases, PhasesNext DEF PhaseTable, At, Success
      <3>3. Abstract!Move(w, AbstractPhase(w), "refused")
        BY <3>1, <3>2, OneCallMoves
      <3> QED
        BY <2>6, <3>2, <3>3, StoreUnchanged DEF RemoveFails, Abstract!Refuse, Store
    <2>7. ASSUME Crash PROVE Abstract!Abandon
      <3>1. ASSUME NEW w \in Writer
            PROVE  AbstractPhase(w)' = IF AbstractPhase(w) \in Abstract!Final \cup {"idle"}
                                       THEN AbstractPhase(w) ELSE "refused"
        <4>1. CASE writer[w].pc \in Running
          <5>1. writer'[w].pc = "crashed"
            BY <2>7, <4>1 DEF Crash, TypeOK
          <5>2. AbstractPhase(w)' = "refused"
            BY <5>1, PhasesNext DEF PhaseTable, At
          <5>3. AbstractPhase(w) \in {"pending", "added", "observed"}
            BY <4>1, Phases DEF PhaseTable, At, Running, Success
          <5> QED  BY <5>2, <5>3 DEF Abstract!Final
        <4>2. CASE writer[w].pc \notin Running
          <5>1. writer'[w] = writer[w]
            BY <2>7, <4>2 DEF Crash
          <5>2. AbstractPhase(w)' = AbstractPhase(w)
            BY <5>1 DEF AbstractPhase, At
          <5>3. writer[w].pc \in {"idle", "done", "crashed"}
            BY <4>2 DEF TypeOK, PC, Running
          <5>4. AbstractPhase(w) \in Abstract!Final \cup {"idle"}
            BY <5>3, Phases DEF PhaseTable, At, Abstract!Final, Success
          <5> QED  BY <5>2, <5>4
        <4> QED  BY <4>1, <4>2
      <3>2. \A w \in Writer : writer'[w].content = writer[w].content
        BY <2>7 DEF Crash, TypeOK
      <3>3. Put' = [w \in Writer |->
                      IF Put[w].phase \in Abstract!Final \cup {"idle"} THEN Put[w]
                      ELSE [Put[w] EXCEPT !.phase = "refused"]]
        BY <3>1, <3>2 DEF Put
      <3> QED
        BY <2>7, <3>3, StoreUnchanged DEF Crash, Abstract!Abandon, Store, Put
    <2>8. ASSUME NEW c \in Content, Tamper(c) PROVE Abstract!Disturb(c)
      <3>1. PICK inode \in Disturbed(objects[c]) : objects' = [objects EXCEPT ![c] = inode]
        BY <2>8 DEF Tamper
      <3>2. objects'[c] = inode
        BY <3>1 DEF TypeOK
      <3>3. AbstractObject(c) # "absent"
        BY <2>8 DEF Tamper, AbstractObject
      <3>4. inode.kind = "none" \/ ~inode.faithful
        <4>1. objects[c] \in Inode
          BY DEF TypeOK
        <4>2. ASSUME NEW i \in Inode, NEW j \in Disturbed(i)
              PROVE  j.kind = "none" \/ j.faithful = FALSE
          <5>1. /\ NoFile.kind = "none"
                /\ [i EXCEPT !.faithful = FALSE].faithful = FALSE
                /\ [i EXCEPT !.bytes = 0, !.faithful = FALSE].faithful = FALSE
                /\ [i EXCEPT !.kind = "other", !.faithful = FALSE].faithful = FALSE
            BY DEF NoFile, Inode
          <5> QED  BY <5>1 DEF Disturbed
        <4> QED  BY <3>1, <4>1, <4>2
      <3>5. AbstractObject(c)' \in {"absent", "damaged"}
        BY <3>2, <3>4 DEF AbstractObject, Matches
      <3>6. \A d \in Content \ {c} : AbstractObject(d)' = AbstractObject(d)
        BY <3>1 DEF AbstractObject, Matches, TypeOK
      <3>7. Store' = [Store EXCEPT ![c] = AbstractObject(c)']
        BY <3>6 DEF Store
      <3>8. UNCHANGED Put
        BY <2>8 DEF Tamper, Put, AbstractPhase, At
      <3> QED
        BY <3>3, <3>5, <3>7, <3>8 DEF Abstract!Disturb, Store, Put
    <2>9. ASSUME UNCHANGED vars PROVE Store' = Store /\ Put' = Put
      BY <2>9, StoreUnchanged DEF vars, Put, AbstractPhase, At
    <2>10. ASSUME NEW w \in Writer, Start(w) \/ WriterStep(w)
           PROVE  Abstract!Next \/ (Store' = Store /\ Put' = Put)
      <3>1. \/ Store' = Store /\ Put' = Put
            \/ Abstract!Begin(w) \/ Abstract!Add(w) \/ Abstract!Observe(w)
            \/ Abstract!Answer(w) \/ Abstract!Refuse(w)
        <4>1. CASE Start(w) \/ Link(w) \/ RemoveStaging(w) \/ RemoveFails(w)
          BY <4>1, <2>1, <2>3, <2>5, <2>6
        <4>2. CASE VerifyExisting(w)
          BY <4>2, <2>2, <2>4
        <4>3. CASE \/ OpenStaging(w) \/ OpenFails(w) \/ WriteChunk(w) \/ ChunkTooLarge(w)
                   \/ StreamFails(w) \/ Seal(w) \/ LinkExists(w) \/ PromoteFails(w)
                   \/ VerifyFails(w)
          BY <4>3, <2>2
        <4> QED  BY <2>10, <4>1, <4>2, <4>3 DEF WriterStep, WriterWorks
      <3> QED  BY <3>1 DEF Abstract!Next
    <2>11. ASSUME Crash \/ (\E c \in Content : Tamper(c)) PROVE Abstract!Next
      BY <2>11, <2>7, <2>8 DEF Abstract!Next
    <2> QED  BY <2>9, <2>10, <2>11 DEF Next, Terminated
  <1> QED
    BY <1>1, <1>2, TypeCorrect, StagingIsFaithful, PTL
    DEF Spec, ImplementsCreateOnlyStore, Abstract!Spec

-----------------------------------------------------------------------------
(* Calls end.                                                              *)

Distance(w) ==
    /\ writer[w].pc = "idle" => StepsLeft(w) = MaxUploadBytes + 6
    /\ writer[w].pc = "opening" => StepsLeft(w) = MaxUploadBytes + 5
    /\ writer[w].pc = "streaming" => StepsLeft(w) = MaxUploadBytes + 4 - staging[w].bytes
    /\ writer[w].pc = "promoting" => StepsLeft(w) = 3
    /\ writer[w].pc = "verifying" => StepsLeft(w) = 2
    /\ writer[w].pc = "removing" => StepsLeft(w) = 1
    /\ writer[w].pc \in {"done", "crashed"} => StepsLeft(w) = 0

LEMMA Distances == \A w \in Writer : Distance(w)
  BY DEF Distance, StepsLeft, At

LEMMA DistancesNext == (\A w \in Writer : Distance(w))'
  BY Distances, PTL

\* As long as the staging files are bounded, so is what is left of a call.
LEMMA DistanceIsNat ==
    ASSUME TypeOK, StagingBounded, NEW w \in Writer
    PROVE  StepsLeft(w) \in Nat
  <1>1. Distance(w)
    BY Distances
  <1>2. /\ staging[w].bytes \in Nat /\ staging[w].bytes <= MaxUploadBytes
        /\ MaxUploadBytes \in Nat
    BY StoreAssumption DEF TypeOK, Inode, StagingBounded
  <1>3. writer[w].pc \in PC
    BY DEF TypeOK
  <1> QED  BY <1>1, <1>2, <1>3 DEF Distance, PC

\* Each step of a call leads to a later position, or a chunk further.
LEMMA CallAdvances ==
    ASSUME TypeOK, StagingBounded, NEW w \in Writer, Start(w) \/ WriterStep(w)
    PROVE  StepsLeft(w)' < StepsLeft(w)
  <1> DEFINE Down(from, to) == writer[w].pc = from /\ writer'[w].pc = to
  <1>d. /\ Distance(w)
        /\ Distance(w)'
    BY Distances, DistancesNext
  <1>b. /\ staging[w].bytes \in Nat /\ staging[w].bytes <= MaxUploadBytes
        /\ MaxUploadBytes \in Nat
    BY StoreAssumption DEF TypeOK, Inode, StagingBounded
  <1> USE DEF At
  <1>1. CASE Start(w)
    <2>1. Down("idle", "opening")
      BY <1>1, GoToEffect DEF Start
    <2> QED  BY <1>d, <1>b, <2>1 DEF Distance
  <1>2. CASE OpenStaging(w)
    <2>1. Down("opening", "streaming") /\ staging'[w].bytes = 0
      BY <1>2, GoToEffect DEF OpenStaging, NewFile, TypeOK
    <2> QED  BY <1>d, <1>b, <2>1 DEF Distance
  <1>3. CASE OpenFails(w)
    <2>1. Down("opening", "removing")
      BY <1>3, LeaveEffect DEF OpenFails
    <2> QED  BY <1>d, <1>b, <2>1 DEF Distance
  <1>4. CASE WriteChunk(w)
    <2>1. Down("streaming", "streaming")
      BY <1>4 DEF WriteChunk
    <2>2. /\ NextChunk(w) \in Nat \ {0}
          /\ staging'[w].bytes = staging[w].bytes + NextChunk(w)
      BY <1>4, ChunkIsNat DEF WriteChunk, TypeOK, Inode
    <2> QED  BY <1>d, <1>b, <2>1, <2>2 DEF Distance
  <1>5. CASE ChunkTooLarge(w) \/ StreamFails(w) \/ Seal(w)
    <2>1. Down("streaming", "removing") \/ Down("streaming", "promoting")
      BY <1>5, GoToEffect, LeaveEffect DEF ChunkTooLarge, StreamFails, Seal
    <2> QED  BY <1>d, <1>b, <2>1 DEF Distance
  <1>6. CASE Link(w) \/ LinkExists(w) \/ PromoteFails(w)
    <2>1. Down("promoting", "removing") \/ Down("promoting", "verifying")
      BY <1>6, GoToEffect, LeaveEffect DEF Link, LinkExists, PromoteFails
    <2> QED  BY <1>d, <2>1 DEF Distance
  <1>7. CASE VerifyExisting(w) \/ VerifyFails(w)
    <2>1. Down("verifying", "removing")
      BY <1>7, LeaveEffect DEF VerifyExisting, VerifyFails
    <2> QED  BY <1>d, <2>1 DEF Distance
  <1>8. CASE RemoveStaging(w) \/ RemoveFails(w)
    <2>1. Down("removing", "done")
      BY <1>8, GoToEffect DEF RemoveStaging, RemoveFails, TypeOK
    <2> QED  BY <1>d, <2>1 DEF Distance
  <1> QED
    BY <1>1, <1>2, <1>3, <1>4, <1>5, <1>6, <1>7, <1>8 DEF WriterStep, WriterWorks

\* A call that another step leaves alone stays where it is; a crash ends it.
LEMMA OthersLeaveAlone ==
    ASSUME TypeOK, [Next]_vars, NEW w \in Writer, ~(Start(w) \/ WriterStep(w))
    PROVE  \/ writer'[w] = writer[w] /\ staging'[w] = staging[w]
           \/ writer'[w].pc = "crashed"
  <1>1. CASE \E v \in Writer \ {w} : Start(v) \/ WriterStep(v)
    <2>1. PICK v \in Writer \ {w} : Start(v) \/ WriterStep(v)
      BY <1>1
    <2> QED
      BY <2>1, GoToEffect, LeaveEffect
      DEF TypeOK, WriterStep, WriterWorks, Start, OpenStaging, OpenFails, WriteChunk,
          ChunkTooLarge, StreamFails, Seal, Link, LinkExists, PromoteFails, VerifyExisting,
          VerifyFails, RemoveStaging, RemoveFails
  <1>2. CASE Crash
    BY <1>2 DEF Crash, TypeOK
  <1>3. CASE (\E c \in Content : Tamper(c)) \/ UNCHANGED vars
    BY <1>3 DEF Tamper, vars
  <1> QED  BY <1>1, <1>2, <1>3 DEF Next, Terminated

\* However long its stream and whoever races it, a call ends within a number of steps
\* that only the limit on uploads determines.
THEOREM CallsEnd == Spec => CallsAdvance
  <1> DEFINE Forward ==
        \A w \in Writer :
          /\ StepsLeft(w)' \in 0..StepsLeft(w)
          /\ Start(w) \/ WriterStep(w) => StepsLeft(w)' < StepsLeft(w)
  <1>1. ASSUME TypeOK, StagingBounded, TypeOK', StagingBounded', [Next]_vars
        PROVE  Forward
    <2> SUFFICES ASSUME NEW w \in Writer
                 PROVE  /\ StepsLeft(w)' \in 0..StepsLeft(w)
                        /\ Start(w) \/ WriterStep(w) => StepsLeft(w)' < StepsLeft(w)
      OBVIOUS
    <2>1. StepsLeft(w) \in Nat
      BY <1>1, DistanceIsNat
    <2>2. StepsLeft(w)' \in Nat
      <3>1. /\ Distance(w)'
            /\ writer'[w].pc \in PC
        BY <1>1, DistancesNext DEF TypeOK
      <3>2. /\ staging'[w].bytes \in Nat /\ staging'[w].bytes <= MaxUploadBytes
            /\ MaxUploadBytes \in Nat
        BY <1>1, StoreAssumption DEF TypeOK, Inode, StagingBounded
      <3> QED  BY <3>1, <3>2 DEF Distance, PC
    <2>3. CASE Start(w) \/ WriterStep(w)
      BY <1>1, <2>1, <2>2, <2>3, CallAdvances
    <2>4. CASE ~(Start(w) \/ WriterStep(w))
      <3>1. CASE writer'[w] = writer[w] /\ staging'[w] = staging[w]
        <4>1. StepsLeft(w)' = StepsLeft(w)
          BY <3>1 DEF StepsLeft, At
        <4> QED  BY <2>1, <2>4, <4>1
      <3>2. CASE writer'[w].pc = "crashed"
        <4>1. StepsLeft(w)' = 0
          BY <3>2, DistancesNext DEF Distance
        <4> QED  BY <2>1, <2>4, <4>1
      <3> QED  BY <1>1, <2>4, <3>1, <3>2, OthersLeaveAlone
    <2> QED  BY <2>3, <2>4
  <1>2. TypeOK /\ StagingBounded /\ TypeOK' /\ StagingBounded' /\ [Next]_vars => [Forward]_vars
    BY <1>1
  <1> QED  BY <1>2, TypeCorrect, BoundedStaging, PTL DEF Spec, CallsAdvance
=============================================================================
