--------------------------- MODULE Phase6Control ---------------------------
(***************************************************************************)
(* The control of the paid endpoint (phase6_control.py of the image        *)
(* worker): budgets, approvals, submission, polling with a client deadline *)
(* and cancellation, purge, health and the final lock.  Beside it run the  *)
(* RunPod queue and its workers, which this code does not own: a response  *)
(* may be lost although its request arrives, a request may arrive late,    *)
(* and a job moves between a read of its status and what is done about it. *)
(*                                                                         *)
(* A job is the number of its submission.  Amounts and seconds are         *)
(* naturals; a hash stands for the record it is taken of; an exception is  *)
(* the result the call ended with, without its text.                       *)
(***************************************************************************)
EXTENDS Integers, FiniteSets

CONSTANTS
    Proposals,        \* endpoint proposals, told apart by canonical_sha256
    BudgetRecords,    \* what an operator may try to construct a budget from
    Approvals,        \* the cost approvals given: [proposal, budget]
    Baseline,         \* paid_jobs_already_submitted, a literal of the budget
    MaximumPaidJobs,  \* maximum_paid_jobs, a literal of the budget
    LastSubmission,   \* bound of the model: submissions the operator attempts
    ExecutionSeconds, \* maximum_job_execution_seconds
    IdleSeconds,      \* idle_seconds_per_job
    ObservedWorkers,  \* maximum_observed_workers_per_job
    MaximumSpend,     \* the largest hard_maximum_spend_usd a budget may state
    Balance, Incurred,\* what the account holds, and what was billed before
    PollInterval,     \* poll_interval_seconds
    MaximumDeadline,  \* the longest deadline_seconds
    Faults            \* which of "network", "leak", "contract" occur

Operations == {"checkpoint_bootstrap", "gpu_validation"}

Proposal == [operation : Operations, release : Nat]
BudgetRecord ==
    [rate : Nat, expectedCold : Nat, cold : Nat, bootstrap : Nat, validation : Nat,
     disk : Nat, incurred : Nat, normal : Nat, worst : Nat, hard : Nat, balance : Nat]

Slots == MaximumPaidJobs - Baseline
Jobs == (Baseline + 1)..LastSubmission

ASSUME ControlAssumption ==
    /\ Proposals \subseteq Proposal
    /\ BudgetRecords \subseteq BudgetRecord
    /\ Approvals \subseteq [proposal : Proposals, budget : BudgetRecords]
    /\ Baseline \in Nat /\ MaximumPaidJobs \in Nat /\ LastSubmission \in Nat
    /\ Baseline <= MaximumPaidJobs /\ MaximumPaidJobs <= LastSubmission
    /\ ExecutionSeconds \in Nat /\ IdleSeconds \in Nat /\ ObservedWorkers \in Nat
    /\ MaximumSpend \in Nat /\ Balance \in Nat /\ Incurred \in Nat
    /\ PollInterval \in Nat \ {0} /\ MaximumDeadline \in Nat \ {0}
    /\ Faults \subseteq {"network", "leak", "contract"}
    \* The operator states what the account says.
    /\ \A b \in BudgetRecords : b.incurred >= Incurred /\ b.balance <= Balance

----------------------------------------------------------------------------
(* Phase6CostBudget: the records validate_budget lets through.             *)

\* What one more paid job may cost at most under a budget.
JobWorstCase(b) == ObservedWorkers * (b.cold + ExecutionSeconds + IdleSeconds) * b.rate

NormalCost(b) ==
    ObservedWorkers * (Slots * (b.expectedCold + IdleSeconds) + b.bootstrap + b.validation)
        * b.rate + b.disk + b.incurred
\* Mutant of WorstCost: validate_budget prices one job instead of all that remain.
WorstCostOfOne(b) == JobWorstCase(b) + b.disk + b.incurred

WorstCost(b) == Slots * JobWorstCase(b) + b.disk + b.incurred

ValidBudget(b) ==
    /\ b.rate > 0
    /\ b.cold >= b.expectedCold
    /\ b.bootstrap \in 1..ExecutionSeconds /\ b.validation \in 1..ExecutionSeconds
    /\ NormalCost(b) <= b.normal
    /\ WorstCost(b) <= b.worst
    /\ b.normal <= b.worst
    /\ b.worst <= b.hard /\ b.hard <= MaximumSpend
    /\ b.balance + b.incurred >= b.worst

\* CostApproval.authorizes: both hashes are those of the records in hand.
Authorizes(a, p, b) == a.proposal = p /\ a.budget = b

----------------------------------------------------------------------------
VARIABLES
    jobs,     \* what the provider holds of each submission
    starting, \* listed workers that initialize
    idle,     \* listed workers that wait; the others run one job each
    committed,\* history: what the jobs that were sent may cost at most
    maximum,  \* the configured maximum of workers, 0 or 1
    counted,  \* the operator's count of paid submissions
    known,    \* jobs whose receipt the operator holds
    call,     \* the controller call in hand
    answer    \* what the last call told the operator

vars == <<jobs, starting, idle, committed, maximum, counted, known, call, answer>>
workers == <<starting, idle>>
provider == <<jobs, workers>>
ledger == <<counted, known, committed>>

Running == {"IN_QUEUE", "IN_PROGRESS"}
Terminal == {"COMPLETED", "FAILED", "CANCELLED", "TIMED_OUT"}
Outputs == {"none", "receipt", "passed", "worker error", "leaky", "malformed"}

Unsent == [status |-> "unsent"]
Job == [status : {"sent"} \cup Running \cup Terminal, output : Outputs,
        proposal : Proposals, budget : BudgetRecords, operation : Operations]

NoCall == [at |-> "none"]
\* left: seconds until the deadline.  History, due: the deadline less all pauses so far.
\* A poll that decides has seen a job that was not terminal.
Poll == [at : {"status", "decide"}, job : Jobs, expected : Operations,
         left : 0..MaximumDeadline, due : Int]
Submission == [at : {"submit"}, job : Jobs]
\* calm: no idle or running workers, no queued or running jobs.
HealthRead == [at : {"health"}, calm : BOOLEAN]

NoAnswer == [kind |-> "none"]
Endings == {"deadline", "unconfirmed", "worker error", "refused", "interrupted"}
Outcome == [kind : Endings, job : Jobs] \cup
           [kind : {"returned"}, job : Jobs, status : Terminal, output : Outputs]

\* EndpointHealth, and that assert_final_endpoint_lock has accepted it; calm: the first
\* four counts are zero.  History, steady: maximum was 0 when it was read and still is.
Health == [kind : {"health", "locked"}, calm : BOOLEAN, listed : Nat, steady : BOOLEAN]
HealthKnown == answer.kind \in {"health", "locked"}

Sent == {j \in Jobs : jobs[j] # Unsent}
Remote(statuses) == {j \in Sent : jobs[j].status \in statuses}
Busy == Cardinality(Remote({"IN_PROGRESS"}))
Listed == starting + idle + Busy
Idle == call = NoCall

Init ==
    /\ jobs = [j \in Jobs |-> Unsent]
    /\ starting = 0 /\ idle = 0
    /\ committed = 0
    /\ maximum = 0
    /\ counted = Baseline /\ known = {}
    /\ call = NoCall
    /\ answer = NoAnswer

----------------------------------------------------------------------------
(* submit_approved.                                                        *)

\* Mutant of MayPay: submit_approved admits one job too many.
MayPayOnceMore(a, p, b, operation) ==
    /\ Authorizes(a, p, b)
    /\ operation = p.operation
    /\ counted >= Baseline
    /\ counted <= MaximumPaidJobs

\* The checks before the transport is touched.
MayPay(a, p, b, operation) ==
    /\ Authorizes(a, p, b)
    /\ operation = p.operation
    /\ counted >= Baseline
    /\ counted < MaximumPaidJobs

\* The operator counts the attempt whatever becomes of its response.  A refused one
\* raises PermissionError and changes nothing.
Submit(a, p, b, operation) ==
    /\ Idle
    /\ ValidBudget(b)
    /\ MayPay(a, p, b, operation)
    /\ counted < LastSubmission
    /\ LET j == counted + 1 IN
       /\ counted' = j
       /\ jobs' = [jobs EXCEPT ![j] = [status |-> "sent", output |-> "none", proposal |-> p,
                                       budget |-> b, operation |-> operation]]
       /\ call' = [at |-> "submit", job |-> j]
    /\ committed' = committed + JobWorstCase(b)
    /\ answer' = NoAnswer
    /\ UNCHANGED <<workers, maximum, known>>

Receipt ==
    /\ call.at = "submit"
    /\ jobs[call.job].status # "sent"
    /\ known' = known \cup {call.job}
    /\ call' = NoCall
    /\ UNCHANGED <<provider, maximum, counted, committed, answer>>

\* The transport raises, or the receipt is malformed or leaks a secret: the caller
\* holds no id, whether the request has arrived, is still to arrive or is lost.
ReceiptLost ==
    /\ call.at = "submit"
    /\ Faults \cap {"network", "leak"} # {}
    /\ call' = NoCall
    /\ UNCHANGED <<provider, maximum, ledger, answer>>

----------------------------------------------------------------------------
(* poll_until_terminal.                                                    *)

\* A job the operator holds the receipt of, as often as the operator likes.
StartPoll(j, deadline, expected) ==
    /\ Idle
    /\ j \in known
    /\ call' = [at |-> "status", job |-> j, expected |-> expected, left |-> deadline,
                due |-> deadline]
    /\ answer' = NoAnswer
    /\ UNCHANGED <<provider, maximum, ledger>>

Ends(outcome) == answer' = outcome /\ call' = NoCall
Raises(kind) == Ends([kind |-> kind, job |-> call.job])

\* The versioned response that an operation is evidenced by.
Contract(operation) == IF operation = "checkpoint_bootstrap" THEN "receipt" ELSE "passed"

\* Mutant of Acceptable: a completed job is accepted whatever contract its output fulfils.
AcceptableCompleted(status, output, expected) == output # "malformed"

\* validate_completed_output, for a completed job.
Acceptable(status, output, expected) ==
    status = "COMPLETED" => output = Contract(expected)

\* Before either, assert_sanitized_result scans the whole answer of the provider.
Judge(status, output) ==
    IF output = "leaky" THEN Raises("refused")
    ELSE IF Acceptable(status, output, call.expected)
    THEN Ends([kind |-> "returned", job |-> call.job, status |-> status, output |-> output])
    ELSE Raises(IF output = "worker error" THEN "worker error" ELSE "refused")

\* What is terminal is judged at once, for it cannot change any more.
Status ==
    /\ call.at = "status"
    /\ LET remote == jobs[call.job] IN
          IF remote.status \in Terminal THEN Judge(remote.status, remote.output)
          ELSE call' = [call EXCEPT !.at = "decide"] /\ UNCHANGED answer
    /\ UNCHANGED <<provider, maximum, ledger>>

\* wait() pauses at least as long as it was asked to.
Wait ==
    /\ call.at = "decide"
    /\ call.left > 0
    /\ call' = [call EXCEPT !.at = "status", !.due = call.due - PollInterval,
                    !.left = IF call.left > PollInterval THEN call.left - PollInterval ELSE 0]
    /\ UNCHANGED <<provider, maximum, ledger, answer>>

\* A job ends and the worker that runs it is free.
Remove(j, status, output) ==
    /\ jobs' = [jobs EXCEPT ![j].status = status, ![j].output = output]
    /\ idle' = IF jobs[j].status = "IN_PROGRESS" THEN idle + 1 ELSE idle
    /\ UNCHANGED starting

\* Mutant of Cancel: the answer to the cancellation is not looked at.
CancelUnconfirmed ==
    /\ call.at = "decide"
    /\ call.left = 0
    /\ Raises("deadline")
    /\ \/ jobs[call.job].status \in Running /\ Remove(call.job, "CANCELLED", "none")
       \/ UNCHANGED provider
    /\ UNCHANGED <<maximum, ledger>>

\* The deadline has passed: the job is cancelled, unless it has ended since it was
\* looked at or the provider leaves it running.  Only a confirmed cancellation is
\* reported as one; what is not may yet take effect (Finish, Expire).
Cancel ==
    /\ call.at = "decide"
    /\ call.left = 0
    /\ \/ /\ jobs[call.job].status \in Running
          /\ Remove(call.job, "CANCELLED", "none")
          /\ Raises("deadline")
       \/ /\ jobs[call.job].status \in Running
          /\ Raises("unconfirmed")
          /\ UNCHANGED provider
       \/ /\ jobs[call.job].status \in Terminal
          /\ Raises(IF jobs[call.job].status = "CANCELLED" THEN "deadline" ELSE "unconfirmed")
          /\ UNCHANGED provider
    /\ UNCHANGED <<maximum, ledger>>

\* status() or cancel() raises or answers with something malformed; a cancellation may
\* have arrived all the same.
PollInterrupted ==
    /\ "network" \in Faults
    /\ call.at \in {"status", "decide"}
    /\ call.at = "decide" => call.left = 0
    /\ \/ UNCHANGED provider
       \/ /\ call.at = "decide" /\ jobs[call.job].status \in Running
          /\ Remove(call.job, "CANCELLED", "none")
    /\ Raises("interrupted")
    /\ UNCHANGED <<maximum, ledger>>

----------------------------------------------------------------------------
(* purge_pending_queue, endpoint_health and the final lock.                *)

\* Queued jobs are removed, with or without a receipt.
Purge ==
    /\ Idle
    /\ Remote({"IN_QUEUE"}) # {}
    /\ jobs' = [j \in Jobs |-> IF j \in Remote({"IN_QUEUE"})
                               THEN [jobs[j] EXCEPT !.status = "CANCELLED"] ELSE jobs[j]]
    /\ UNCHANGED <<workers, maximum, ledger, call, answer>>

\* endpoint_health reads the counts first and the list of workers after them.
ReadHealth ==
    /\ Idle
    /\ call' = [at |-> "health",
                calm |-> idle = 0 /\ Remote(Running) = {}]
    /\ answer' = NoAnswer
    /\ UNCHANGED <<provider, maximum, ledger>>

ReadWorkers ==
    /\ call.at = "health"
    /\ Ends([kind |-> "health", calm |-> call.calm, listed |-> Listed, steady |-> maximum = 0])
    /\ UNCHANGED <<provider, maximum, ledger>>

HealthFails ==
    /\ "network" \in Faults
    /\ call.at = "health"
    /\ call' = NoCall
    /\ UNCHANGED <<provider, maximum, ledger, answer>>

\* Mutant of Quiescent: the listed workers are not looked at.
QuiescentByCounts(h) == h.calm

Quiescent(h) == h.calm /\ h.listed = 0

\* assert_final_endpoint_lock, with a proposal whose workers_max is zero.
AssertLock ==
    /\ Idle
    /\ answer.kind = "health" /\ Quiescent(answer)
    /\ answer' = [answer EXCEPT !.kind = "locked"]
    /\ UNCHANGED <<provider, maximum, ledger, call>>

----------------------------------------------------------------------------
(* The operator's configuration and the provider.                          *)

SetMaximum ==
    /\ Idle
    /\ maximum' = 1 - maximum
    /\ answer' = IF HealthKnown THEN [answer EXCEPT !.steady = FALSE] ELSE answer
    /\ UNCHANGED <<provider, ledger, call>>

Arrive(j) ==
    /\ j \in Remote({"sent"})
    /\ jobs' = [jobs EXCEPT ![j].status = "IN_QUEUE"]
    /\ UNCHANGED <<workers, maximum, ledger, call, answer>>

\* The scheduler starts workers for a queued job while the configuration allows any;
\* it has been seen to start one more than the configured maximum.
Boot ==
    /\ maximum = 1
    /\ Remote({"IN_QUEUE"}) # {}
    /\ Listed < ObservedWorkers
    /\ starting' = starting + 1
    /\ UNCHANGED <<jobs, idle, maximum, ledger, call, answer>>

Booted ==
    /\ starting > 0
    /\ starting' = starting - 1 /\ idle' = idle + 1
    /\ UNCHANGED <<jobs, maximum, ledger, call, answer>>

Take(j) ==
    /\ idle > 0
    /\ j \in Remote({"IN_QUEUE"})
    /\ jobs' = [jobs EXCEPT ![j].status = "IN_PROGRESS"]
    /\ idle' = idle - 1
    /\ UNCHANGED <<starting, maximum, ledger, call, answer>>

\* A worker that waits times out and one that starts may give up.
Stop ==
    /\ \/ idle > 0 /\ idle' = idle - 1 /\ UNCHANGED starting
       \/ starting > 0 /\ starting' = starting - 1 /\ UNCHANGED idle
    /\ UNCHANGED <<jobs, maximum, ledger, call, answer>>

\* What a job may hand over, by how it ended.  A missing output, and a leak in the output
\* of a completed job, are malformed ones.
Reported(status, operation) ==
    {o \in Outputs :
        /\ o \in {"receipt", "passed"} => status = "COMPLETED" /\ o = Contract(operation)
        /\ o = "worker error" => status = "COMPLETED"
        /\ o = "none" => status # "COMPLETED"
        /\ o = "malformed" => status = "COMPLETED" /\ "contract" \in Faults
        /\ o = "leaky" => status = "FAILED" /\ "leak" \in Faults}

\* It may be cancelled by a request that was not confirmed.
Finish(j) ==
    /\ j \in Remote({"IN_PROGRESS"})
    /\ \E status \in Terminal :
          \E output \in Reported(status, jobs[j].operation) : Remove(j, status, output)
    /\ UNCHANGED <<maximum, ledger, call, answer>>

\* The time to live passes for a job that waits, or such a request takes effect.
Expire(j) ==
    /\ j \in Remote({"IN_QUEUE"})
    /\ \E status \in {"TIMED_OUT", "CANCELLED"} : Remove(j, status, "none")
    /\ UNCHANGED <<maximum, ledger, call, answer>>

\* Transport calls take time as well.
Tick ==
    /\ call.at \in {"status", "decide"} /\ call.left > 0
    /\ call' = [call EXCEPT !.left = call.left - 1]
    /\ UNCHANGED <<provider, maximum, ledger, answer>>

----------------------------------------------------------------------------
Controller ==
    \/ Receipt \/ Status \/ Wait \/ Cancel \/ ReadWorkers
    \/ ReceiptLost \/ PollInterrupted \/ HealthFails

Operator ==
    \/ \E a \in Approvals, p \in Proposals, b \in BudgetRecords, o \in Operations : Submit(a, p, b, o)
    \/ \E j \in Jobs, d \in 1..MaximumDeadline, o \in Operations : StartPoll(j, d, o)
    \/ Purge \/ ReadHealth \/ AssertLock \/ SetMaximum

Provider ==
    \/ \E j \in Jobs : Arrive(j) \/ Take(j) \/ Finish(j) \/ Expire(j)
    \/ Boot \/ Booted \/ Stop \/ Tick

Next == Controller \/ Operator \/ Provider

Spec == Init /\ [][Next]_vars

----------------------------------------------------------------------------
(* Types.                                                                  *)

TypeOK ==
    /\ jobs \in [Jobs -> {Unsent} \cup Job]
    /\ starting \in Nat /\ idle \in Nat
    /\ committed \in Nat
    /\ maximum \in {0, 1}
    /\ counted \in Baseline..LastSubmission /\ known \subseteq Jobs
    /\ call \in {NoCall} \cup Poll \cup Submission \cup HealthRead
    /\ answer \in {NoAnswer} \cup Outcome \cup Health

----------------------------------------------------------------------------
(* Safety.                                                                 *)

\* submit_approved: however responses are lost and however late requests arrive, the
\* provider never holds more jobs than the budget's literals leave, and each of them
\* was approved with exactly its proposal and its budget, for its own operation.
PaidJobsAuthorized ==
    /\ Cardinality(Sent) <= Slots
    /\ \A j \in Sent :
          /\ [proposal |-> jobs[j].proposal, budget |-> jobs[j].budget] \in Approvals
          /\ jobs[j].operation = jobs[j].proposal.operation

\* validate_budget, submit_approved: all jobs that were ever sent, each by the worst case
\* of the budget it was approved with, which may be another one for each job, stay
\* within the spending cap, with what was billed before, and within the account.
SpendWithinCap ==
    counted > Baseline =>
        /\ committed + Incurred <= MaximumSpend
        /\ committed <= Balance

\* poll_until_terminal: a result that is returned is the job's last word and was
\* scanned; the result of a completed job is the versioned response of the operation
\* that was submitted, never a worker's failure and never the other operation's.
EvidenceAccepted ==
    answer.kind = "returned" =>
        /\ answer.status = jobs[answer.job].status /\ answer.output = jobs[answer.job].output
        /\ answer.output # "leaky"
        /\ answer.status = "COMPLETED" =>
              answer.output = Contract(jobs[answer.job].operation)

\* poll_until_terminal: a poll that returns a result, judges one or reports its deadline
\* leaves no job running at the caller's expense, and the deadline is reported only for
\* a job that was really cancelled.  After a transport error or a cancellation that was
\* not confirmed the job may run on, and the caller is told as much.
NothingLeftRunning ==
    /\ answer.kind \in {"returned", "worker error", "refused", "deadline"} =>
          jobs[answer.job].status \in Terminal
    /\ answer.kind = "deadline" => jobs[answer.job].status = "CANCELLED"

\* poll_until_terminal: the pauses of a poll are over less than one interval after its
\* deadline, at whatever value and however long the calls between them take.
PollsBounded ==
    call.at \in {"status", "decide"} => call.due > -PollInterval

\* endpoint_health, assert_final_endpoint_lock: the lock is asserted from two reads made
\* at different times, beside requests that arrive late and workers that still start.
\* While the maximum stays zero nothing is listed any more and nothing runs.
LockMeansQuiet ==
    answer.kind = "locked" /\ answer.steady => Listed = 0

----------------------------------------------------------------------------
(* The paid jobs as the one who pays sees them: see PrepaidJobs.           *)

Terms(p, b, o) == [proposal |-> p, budget |-> b, operation |-> o, price |-> JobWorstCase(b)]
Unbought == [operation |-> "none"]
TermsOf(j) ==
    IF jobs[j] = Unsent THEN Unbought
    ELSE Terms(jobs[j].proposal, jobs[j].budget, jobs[j].operation)

\* The last word of a job, once it has one.
LastWord == [status : Terminal, output : Outputs]
Unended == [status |-> "unended"]
WordOf(j) ==
    IF jobs[j].status \in Terminal
    THEN [status |-> jobs[j].status, output |-> jobs[j].output] ELSE Unended

\* A poll that the transport interrupts or whose cancellation is not confirmed, a health
\* read and the lock tell nothing of a job.
News ==
    IF answer.kind = "returned"
    THEN [kind |-> "result", job |-> answer.job,
          word |-> [status |-> answer.status, output |-> answer.output]]
    ELSE IF answer.kind = "deadline" THEN [kind |-> "cancelled", job |-> answer.job]
    ELSE IF answer.kind \in {"worker error", "refused"}
    THEN [kind |-> "ended", job |-> answer.job]
    ELSE [kind |-> "nothing"]

Prepaid == INSTANCE PrepaidJobs WITH
    Job <- Jobs,
    Approved <- {Terms(a.proposal, a.budget, a.proposal.operation) : a \in Approvals},
    NoTerms <- Unbought,
    Word <- LastWord,
    NoWord <- Unended,
    CancelledWord <- {w \in LastWord : w.status = "CANCELLED"},
    Fit <- [o \in Operations |->
               {w \in LastWord : /\ w.output # "leaky"
                                 /\ w.status = "COMPLETED" => w.output = Contract(o)}],
    Cap <- MaximumSpend,
    Billed <- Incurred,
    Account <- Balance,
    left <- Slots - Cardinality(Sent),
    terms <- [j \in Jobs |-> TermsOf(j)],
    spent <- committed,
    word <- [j \in Jobs |-> WordOf(j)],
    told <- News

\* submit_approved, poll_until_terminal: with lost responses, late requests and a queue
\* that moves between two looks, the controller behaves like a ledger of prepaid jobs.
\* None is bought but on approved terms, within the slots, the cap and the account; none
\* that may still run is told of as ended or cancelled, and what is told is the truth
\* about that very job.  A cancellation that is not confirmed tells nothing.
ImplementsPrepaidJobs == Prepaid!Spec
=============================================================================
