----------------------------- MODULE ToolRunner -----------------------------
(***************************************************************************)
(* SafeSubprocessRunner: one thread that starts a metadata tool, collects  *)
(* what it writes to two pipes, and ends it when the deadline passes or a  *)
(* stream exceeds its limit.  The tool runs beside the loop: between two   *)
(* calls of the loop it may write, close a stream, leave a child process   *)
(* that keeps the streams open, or exit.                                   *)
(***************************************************************************)
EXTENDS Naturals

CONSTANTS
    PipeCapacity,   \* bytes a pipe holds before its writer blocks
    ReadSize,       \* bytes one os.read returns at most
    MaxOutput,      \* max_output_bytes
    MaxWritten      \* bound of the model: bytes written to one stream

ASSUME RunnerAssumption ==
    /\ PipeCapacity \in Nat \ {0}
    /\ ReadSize \in Nat \ {0}
    /\ MaxOutput \in Nat \ {0}
    /\ MaxWritten \in Nat

Stream == {"stdout", "stderr"}

VARIABLES
    job,          \* run: the version, then the evidence; probe: the version
    call,         \* which of the two commands is executed
    pc,           \* where the thread is
    forked,       \* whether the tool has started a child, which keeps its streams
    process,      \* none, running, or how it ended
    signal,       \* the last signal sent to it
    writers,      \* who holds the write end of each stream
    written,      \* bytes written to each stream
    buffer,       \* bytes read from it
    registered,   \* streams the selector still watches
    ready,        \* streams of the current round that were not read yet
    outcome,      \* what _execute will report
    late          \* timeout_seconds have passed since it began

tool == <<forked, process, writers, written>>
thread == <<job, call, pc, signal, buffer, registered, ready, outcome>>
vars == <<tool, thread, late>>

PC == {"idle", "starting", "looping", "selecting", "polling", "draining", "reading",
       "exiting", "waiting", "terminating", "stopping", "killing", "ended", "returned",
       "raised"}
Ended == {"zero", "nonzero", "signaled"}
CommandOutcome == {"SUCCEEDED", "EXECUTABLE_MISSING", "NONZERO_EXIT", "TIMED_OUT",
                   "OUTPUT_LIMIT_EXCEEDED", "START_FAILED"}

TypeOK ==
    /\ job \in {"run", "probe"}
    /\ call \in {"version", "evidence"}
    /\ pc \in PC
    /\ forked \in BOOLEAN
    /\ process \in {"none", "running"} \cup Ended
    /\ signal \in {"none", "TERM", "KILL"}
    /\ writers \in [Stream -> SUBSET {"tool", "child"}]
    /\ written \in [Stream -> 0..MaxWritten]
    /\ buffer \in [Stream -> Nat]
    /\ \A s \in Stream : buffer[s] <= written[s]
    /\ registered \subseteq Stream
    /\ ready \subseteq Stream
    /\ outcome \in CommandOutcome \cup {"none"}
    /\ late \in BOOLEAN

Init ==
    /\ job \in {"run", "probe"}
    /\ call = "version"
    /\ pc = "idle"
    /\ forked = FALSE
    /\ process = "none"
    /\ signal = "none"
    /\ writers = [s \in Stream |-> {}]
    /\ written = [s \in Stream |-> 0]
    /\ buffer = [s \in Stream |-> 0]
    /\ registered = {}
    /\ ready = {}
    /\ outcome = "none"
    /\ late = FALSE

-----------------------------------------------------------------------------
(* The tool *)

Piped(s) == written[s] - buffer[s]

\* a write of one more byte; it blocks while the pipe is full
Write(s) ==
    /\ writers[s] # {}
    /\ Piped(s) < PipeCapacity /\ written[s] < MaxWritten
    /\ written' = [written EXCEPT ![s] = @ + 1]
    /\ UNCHANGED <<forked, process, writers>>

CloseStream(s) ==
    /\ \E holder \in writers[s] : writers' = [writers EXCEPT ![s] = @ \ {holder}]
    /\ UNCHANGED <<forked, process, written>>

Fork ==
    /\ process = "running" /\ ~forked
    /\ forked' = TRUE
    /\ writers' = [s \in Stream |-> IF writers[s] = {} THEN {} ELSE {"tool", "child"}]
    /\ UNCHANGED <<process, written>>

Gone(how) ==
    /\ process = "running"
    /\ process' = how
    /\ writers' = [s \in Stream |-> writers[s] \ {"tool"}]
    /\ UNCHANGED <<forked, written>>

Exit == \E how \in {"zero", "nonzero"} : Gone(how)

\* a signal may be ignored for a while, SIGTERM for good
Die == signal # "none" /\ Gone("signaled")

\* once a command is reported its pipes are closed and nobody looks at it again
Observed == pc \notin {"idle", "ended", "returned", "raised"}

ToolStep ==
    /\ Observed
    /\ (\E s \in Stream : Write(s) \/ CloseStream(s)) \/ Fork \/ Exit \/ Die
    /\ UNCHANGED <<thread, late>>

\* the deadline of the running command passes
Deadline ==
    /\ Observed /\ ~late
    /\ late' = TRUE
    /\ UNCHANGED <<tool, thread>>

-----------------------------------------------------------------------------
(* _execute *)

\* a step of the thread that only moves on
Goto(next) ==
    /\ pc' = next
    /\ UNCHANGED <<tool, job, call, signal, buffer, registered, ready, outcome, late>>

\* a step that settles the outcome
Settle(result, next) ==
    /\ pc' = next
    /\ outcome' = result
    /\ UNCHANGED <<tool, job, call, signal, buffer, registered, ready, late>>

Call == pc = "idle" /\ Goto("starting")

Start ==
    /\ pc = "starting"
    /\ process' = "running"
    /\ writers' = [s \in Stream |-> {"tool"}]
    /\ registered' = Stream
    /\ pc' = "looping"
    /\ UNCHANGED <<job, call, forked, signal, written, buffer, ready, outcome, late>>

StartFails ==
    /\ pc = "starting"
    /\ \E result \in {"EXECUTABLE_MISSING", "START_FAILED"} : Settle(result, "ended")

\* Mutant of Loop: the deadline is looked at only before the first round.
LoopWithoutDeadline ==
    /\ pc = "looping"
    /\ \/ registered = {} /\ Goto("exiting")
       \/ registered # {} /\ Goto("selecting")

\* the head of the loop: nothing left to watch, too late, or one more round
Loop ==
    /\ pc = "looping"
    /\ \/ registered = {} /\ Goto("exiting")
       \/ registered # {} /\ late /\ Settle("TIMED_OUT", "terminating")
       \/ registered # {} /\ ~late /\ Goto("selecting")

\* a pipe is readable when it holds bytes or nobody can write to it any more
Readable(s) == Piped(s) > 0 \/ writers[s] = {}

Select ==
    LET events == {s \in registered : Readable(s)} IN
    /\ pc = "selecting"
    /\ pc' = IF events = {} THEN "polling" ELSE "reading"
    /\ ready' = events
    /\ UNCHANGED <<tool, job, call, signal, buffer, registered, outcome, late>>

\* Mutant of Poll: a tool that has exited ends the loop at once.
PollWithoutDraining ==
    /\ pc = "polling"
    /\ IF process = "running" THEN Goto("looping") ELSE Goto("exiting")

\* no events: a tool that has exited meanwhile is drained, a running one watched
Poll ==
    /\ pc = "polling"
    /\ \/ process = "running" /\ Goto("looping")
       \/ /\ process # "running"
          /\ pc' = "draining"
          /\ ready' = registered
          /\ UNCHANGED <<tool, job, call, signal, buffer, registered, outcome, late>>

\* what os.read returns from a non-blocking pipe
Available(s) == IF Piped(s) <= ReadSize THEN Piped(s) ELSE ReadSize

\* _read_ready: nothing to read, at the end of the stream or not, unregisters it
ReadReady(s) ==
    /\ ready' = ready \ {s}
    /\ buffer' = [buffer EXCEPT ![s] = @ + Available(s)]
    /\ registered' = IF Available(s) = 0 THEN registered \ {s} ELSE registered
    /\ UNCHANGED <<tool, job, call, signal, late>>

\* Mutant of DrainOne: the stream is read to its end.
DrainToEnd(s) ==
    /\ pc = "draining" /\ s \in ready
    /\ ready' = ready \ {s}
    /\ buffer' = [buffer EXCEPT ![s] = written[s]]
    /\ UNCHANGED <<tool, job, call, signal, late, registered, pc, outcome>>

DrainOne(s) ==
    /\ pc = "draining" /\ s \in ready
    /\ ReadReady(s)
    /\ UNCHANGED <<pc, outcome>>

ReadOne(s) ==
    /\ pc = "reading" /\ s \in ready
    /\ ReadReady(s)
    /\ \/ /\ Available(s) > 0 /\ buffer'[s] > MaxOutput
          /\ outcome' = "OUTPUT_LIMIT_EXCEEDED"
          /\ pc' = "terminating"
       \/ /\ Available(s) = 0 \/ buffer'[s] <= MaxOutput
          /\ UNCHANGED <<pc, outcome>>

NextRound == pc \in {"reading", "draining"} /\ ready = {} /\ Goto("looping")

\* Mutant of Verdict: the exit code is not looked at.
VerdictIgnoresExit == IF outcome = "none" THEN "SUCCEEDED" ELSE outcome

Verdict ==
    IF outcome # "none" THEN outcome
    ELSE IF process = "zero" THEN "SUCCEEDED" ELSE "NONZERO_EXIT"

\* after the loop; the streams are closed in a finally clause
LeaveLoop ==
    /\ pc = "exiting"
    /\ \/ process = "running" /\ Goto("waiting")
       \/ process # "running" /\ Settle(Verdict, "ended")

\* the tool closed both streams and is given a little longer
Waited == pc = "waiting" /\ process # "running" /\ Settle(Verdict, "ended")

\* Mutant of WaitExpires: the tool is left to itself.
WaitExpiresQuietly ==
    pc = "waiting" /\ process = "running" /\ Settle("TIMED_OUT", "ended")

WaitExpires ==
    /\ pc = "waiting" /\ process = "running"
    /\ Settle(IF outcome = "none" THEN "TIMED_OUT" ELSE outcome, "terminating")

\* _terminate: SIGTERM, half a second, SIGKILL, half a second
Signal(name, next) ==
    /\ pc' = next
    /\ signal' = name
    /\ UNCHANGED <<tool, job, call, buffer, registered, ready, outcome, late>>

Terminate ==
    /\ pc = "terminating"
    /\ \/ process # "running" /\ Goto("exiting")
       \/ process = "running" /\ Signal("TERM", "stopping")

Stopped == pc \in {"stopping", "killing"} /\ process # "running" /\ Goto("exiting")

Kill == pc = "stopping" /\ process = "running" /\ Signal("KILL", "killing")

\* the second TimeoutExpired escapes from _execute
KillFails ==
    pc = "killing" /\ process = "running" /\ Goto("raised")

\* run() goes on to the evidence unless the executable is missing
Proceed ==
    LET again == job = "run" /\ call = "version" /\ outcome # "EXECUTABLE_MISSING" IN
    /\ pc = "ended"
    /\ \/ ~again /\ Goto("returned")
       \/ /\ again
          /\ call' = "evidence" /\ pc' = "starting"
          /\ forked' = FALSE /\ process' = "none" /\ signal' = "none"
          /\ writers' = [s \in Stream |-> {}]
          /\ written' = [s \in Stream |-> 0] /\ buffer' = [s \in Stream |-> 0]
          /\ registered' = {} /\ ready' = {}
          /\ outcome' = "none" /\ late' = FALSE
          /\ UNCHANGED job

RunnerStep ==
    \/ Call \/ Start \/ StartFails \/ Loop \/ Select \/ Poll \/ NextRound
    \/ \E s \in Stream : DrainOne(s) \/ ReadOne(s)
    \/ LeaveLoop \/ Waited \/ WaitExpires \/ Terminate \/ Stopped \/ Kill \/ KillFails
    \/ Proceed

Done == pc \in {"returned", "raised"} /\ UNCHANGED vars

Next == RunnerStep \/ ToolStep \/ Deadline \/ Done

Spec == Init /\ [][Next]_vars

\* the thread runs, its waits included, and time passes
FairSpec ==
    /\ Spec
    /\ WF_vars(RunnerStep) /\ WF_vars(Deadline)

-----------------------------------------------------------------------------
(* Properties *)

Reported == pc \in {"ended", "returned"}

\* When a command is reported its tool is gone, whichever of the deadline, the limit,
\* the exit and the closing of the streams came first.
DeadOnReturn == Reported => process # "running"

\* The runner never holds much more than the limit: one read past it in the loop, and
\* one more for a tool that exits between the select and the poll.
CaptureBounded ==
    ~forked => \A s \in Stream : buffer[s] <= MaxOutput + 2 * ReadSize

\* A tool that is reported to have succeeded was heard to the end: what it wrote just
\* before it exited was read.  (The caller gets the first MaxOutput bytes of it.)
SuccessReadsAll ==
    Reported /\ outcome = "SUCCEEDED" /\ ~forked => buffer = written

\* The reported outcome is what happened: the tool's own exit is not confused with
\* its termination by the runner, and no timeout or excess is invented.
OutcomeIsTrue ==
    Reported =>
        /\ outcome = "SUCCEEDED" => process = "zero" /\ signal = "none"
        /\ outcome = "NONZERO_EXIT" => process = "nonzero" /\ signal = "none"
        /\ outcome = "TIMED_OUT" => late \/ registered = {}
        /\ outcome = "OUTPUT_LIMIT_EXCEEDED" => \E s \in Stream : buffer[s] > MaxOutput
        /\ outcome # "none"

\* "enforces timeout and output limits": no command succeeds with more output than
\* the limit.
SuccessWithinLimit ==
    Reported /\ outcome = "SUCCEEDED" => \A s \in Stream : buffer[s] <= MaxOutput

\* Every call comes back, however the tool behaves: if it never exits, never closes a
\* stream, ignores SIGTERM or leaves a child behind.
CallReturns == pc = "starting" ~> pc \in {"ended", "raised"}

\* How many more steps _execute takes at most from where it is, when its time is up.
Unread == (IF "stdout" \in ready THEN 1 ELSE 0) + (IF "stderr" \in ready THEN 1 ELSE 0)
StepsLeft ==
    IF pc = "starting" THEN 13
    ELSE IF pc = "selecting" THEN 12
    ELSE IF pc = "polling" THEN 11
    ELSE IF pc \in {"draining", "reading"} THEN 8 + Unread
    ELSE IF pc = "looping" THEN 7
    ELSE IF pc = "exiting" THEN (IF outcome = "none" THEN 6 ELSE 1)
    ELSE IF pc = "waiting" THEN 5
    ELSE IF pc = "terminating" THEN 4
    ELSE IF pc = "stopping" THEN 3
    ELSE IF pc = "killing" THEN 2
    ELSE 0

\* _execute: once timeout_seconds have passed every step of the runner brings the end of
\* the command nearer and nothing the tool does takes it away again, so that at most
\* thirteen steps are left: no tool can keep the loop, the drain or the two waits alive.
EndsOnceLate ==
    [][late /\ Observed =>
         /\ StepsLeft \in 1..13 /\ StepsLeft' \in 0..StepsLeft
         /\ RunnerStep => StepsLeft' < StepsLeft]_vars

-----------------------------------------------------------------------------
(* What the adapters rely on *)

\* The failures of a tool that was started are one to the callers.
Told == IF outcome \in {"NONZERO_EXIT", "TIMED_OUT", "OUTPUT_LIMIT_EXCEEDED"}
        THEN "OTHER_FAILURE" ELSE outcome

Answered ==
    IF pc = "returned"
    THEN [outcome |-> Told,
          version |-> IF job = "run" THEN call = "evidence" ELSE outcome = "SUCCEEDED"]
    ELSE IF pc = "raised" THEN [outcome |-> "RAISED", version |-> FALSE]
    ELSE [outcome |-> "none"]

Calls == INSTANCE ToolCall
    WITH method <- job, tool <- process, command <- call, answer <- Answered

\* run, probe: whatever the tool does, its pipes, its child and the clock, a call is what
\* the adapters rely on: never two tools at once, an answer about the tool of the last
\* command and only once it is gone, and no answer only if it survived SIGKILL.
CallsKeepTheContract == Calls!Spec
=============================================================================
