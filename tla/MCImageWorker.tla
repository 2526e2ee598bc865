--------------------------- MODULE MCImageWorker ---------------------------
(* ImageWorker with two jobs, two checkpoints and inputs of a few bytes. *)
EXTENDS ImageWorker

CONSTANTS j1, j2, pinned, other

MCJobs == {j1, j2}
MCContents == {pinned, other}

Ask(op, hash, size, valid) == [op |-> op, hash |-> hash, size |-> size, valid |-> valid]

\* Both operations of Phase 6 for either checkpoint, and detector jobs whose input
\* is one chunk and a part, too large, or of a job that is refused.
MCRequests ==
    {Ask("checkpoint_bootstrap", pinned, 1, TRUE), Ask("gpu_validation", pinned, 1, TRUE),
     Ask("gpu_validation", other, 1, TRUE), Ask("detector", pinned, 3, TRUE),
     Ask("detector", pinned, 4, TRUE), Ask("other", pinned, 1, FALSE)}

Setting(production, mock, bootstrap, phase6Only, observed) ==
    [production |-> production, mock |-> mock, bootstrap |-> bootstrap,
     phase6Only |-> phase6Only, observed |-> observed]

\* The bootstrap release, the verified release with and without an observed hash and
\* without its confinement, and local processes with either backend.
MCConfigs ==
    {Setting(TRUE, FALSE, TRUE, TRUE, FALSE), Setting(TRUE, FALSE, FALSE, TRUE, TRUE),
     Setting(TRUE, FALSE, FALSE, TRUE, FALSE), Setting(TRUE, FALSE, FALSE, FALSE, TRUE),
     Setting(FALSE, TRUE, FALSE, FALSE, TRUE), Setting(FALSE, FALSE, FALSE, FALSE, TRUE)}
=============================================================================
