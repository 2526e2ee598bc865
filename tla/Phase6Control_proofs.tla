------------------------ MODULE Phase6Control_proofs ------------------------
(***************************************************************************)
(* What the control of the paid endpoint promises for any budgets, any     *)
(* number of paid jobs and observed workers, any deadlines and faults; and *)
(* that it implements a ledger of prepaid jobs.                            *)
(***************************************************************************)
EXTENDS Phase6Control, FiniteSetTheorems, TLAPS

----------------------------------------------------------------------------
(* Types.                                                                  *)

\* The controller call in hand is told apart by where it is.
LEMMA CallTypes ==
  ASSUME TypeOK
  PROVE  /\ call.at \in {"status", "decide"} => call \in Poll
         /\ call.at = "submit" => call \in Submission
         /\ call.at = "health" => call \in HealthRead
  BY DEF TypeOK, NoCall, Poll, Submission, HealthRead

\* So is what the last call told.
LEMMA AnswerTypes ==
  ASSUME TypeOK
  PROVE  /\ HealthKnown => answer \in Health
         /\ answer.kind \in {"returned"} \cup Endings => answer \in Outcome
  <1>1. answer \in Health => answer.kind \in {"health", "locked"}
    BY DEF Health
  <1>2. answer \in Outcome => answer.kind \in {"returned"} \cup Endings
    BY DEF Outcome
  <1>3. answer = NoAnswer => answer.kind = "none"
    BY DEF NoAnswer
  <1> QED BY <1>1, <1>2, <1>3 DEF TypeOK, HealthKnown, Endings

\* What a poll raises names its job.
LEMMA RaisesTypes ==
  ASSUME call \in Poll, NEW kind \in Endings, Raises(kind)
  PROVE  call' = NoCall /\ answer' \in Outcome /\ answer'.kind = kind /\ answer'.job = call.job
  <1>1. call.job \in Jobs
    BY DEF Poll
  <1>2. answer' = [kind |-> kind, job |-> call.job] /\ call' = NoCall
    BY DEF Raises, Ends
  <1> QED BY <1>1, <1>2 DEF Outcome

\* What the provider holds is a job.
LEMMA SentTypes == ASSUME TypeOK, NEW j \in Sent PROVE jobs[j] \in Job
  BY DEF TypeOK, Sent

\* A job that ends changes its status and its output, and its worker becomes idle.
LEMMA RemoveTypes ==
  ASSUME TypeOK, NEW j \in Sent, NEW status \in Terminal, NEW output \in Outputs,
         Remove(j, status, output)
  PROVE  /\ jobs' \in [Jobs -> {Unsent} \cup Job] /\ idle' \in Nat /\ starting' = starting
         /\ jobs'[j].status = status /\ jobs'[j].output = output
         /\ jobs'[j].proposal = jobs[j].proposal /\ jobs'[j].budget = jobs[j].budget
         /\ jobs'[j].operation = jobs[j].operation /\ jobs'[j] \in Job
         /\ \A i \in Jobs \ {j} : jobs'[i] = jobs[i]
  <1>1. jobs[j] \in Job /\ j \in Jobs
    BY SentTypes DEF Sent
  <1> DEFINE ended == [jobs[j] EXCEPT !.status = status, !.output = output]
  <1>2. jobs' = [jobs EXCEPT ![j] = ended]
    BY <1>1 DEF Remove, TypeOK
  <1>3. /\ ended \in Job
        /\ ended.status = status /\ ended.output = output
        /\ ended.proposal = jobs[j].proposal /\ ended.budget = jobs[j].budget
        /\ ended.operation = jobs[j].operation
    BY <1>1 DEF Job
  <1>4. idle' \in Nat /\ starting' = starting
    BY DEF Remove, TypeOK
  <1> HIDE DEF ended
  <1> QED BY <1>1, <1>2, <1>3, <1>4 DEF TypeOK

\* The workers are finitely many.
LEMMA BusyTypes ==
  ASSUME TypeOK
  PROVE  /\ IsFiniteSet(Remote({"IN_PROGRESS"})) /\ Busy \in Nat /\ Listed \in Nat
         /\ Busy = 0 => Remote({"IN_PROGRESS"}) = {}
  <1>1. Remote({"IN_PROGRESS"}) \in SUBSET ((Baseline + 1)..LastSubmission)
    BY DEF Remote, Sent, Jobs
  <1>2. IsFiniteSet(Remote({"IN_PROGRESS"}))
    <2>1. IsFiniteSet((Baseline + 1)..LastSubmission)
      BY ControlAssumption, FS_Interval
    <2> QED BY <1>1, <2>1, FS_Subset
  <1>3. Busy \in Nat /\ (Busy = 0 => Remote({"IN_PROGRESS"}) = {})
    BY <1>2, FS_CardinalityType, FS_EmptySet DEF Busy
  <1> QED BY <1>2, <1>3 DEF Listed, TypeOK

LEMMA InitTypes == ASSUME Init PROVE TypeOK
  BY ControlAssumption DEF Init, TypeOK, Jobs

\* Every step of the controller keeps the types.
LEMMA ControllerTypes == ASSUME TypeOK, Controller PROVE TypeOK'
  <1>1. CASE Receipt
    BY <1>1, CallTypes DEF Receipt, TypeOK, provider, workers, Submission
  <1>2. CASE ReceiptLost
    BY <1>2 DEF ReceiptLost, TypeOK, provider, workers, ledger
  <1>3. CASE Status
    <2>1. call \in Poll /\ UNCHANGED <<provider, maximum, ledger>>
      BY <1>3, CallTypes DEF Status
    <2>2. CASE jobs[call.job].status \in Terminal
      <3>1. jobs[call.job] \in Job
        BY <2>1, <2>2 DEF TypeOK, Poll, Unsent, Terminal
      <3>2. Judge(jobs[call.job].status, jobs[call.job].output)
        BY <1>3, <2>2 DEF Status
      <3>3. call' = NoCall /\ answer' \in Outcome
        <4>1. CASE \E kind \in Endings : Raises(kind)
          BY <2>1, <4>1, RaisesTypes
        <4>2. CASE Ends([kind |-> "returned", job |-> call.job, status |-> jobs[call.job].status,
                         output |-> jobs[call.job].output])
          BY <2>1, <2>2, <3>1, <4>2 DEF Ends, Outcome, Poll, Job
        <4> QED BY <3>2, <4>1, <4>2 DEF Judge, Endings
      <3> QED BY <2>1, <3>3 DEF TypeOK, provider, workers, ledger
    <2>3. CASE jobs[call.job].status \notin Terminal
      BY <1>3, <2>1, <2>3 DEF Status, TypeOK, provider, workers, ledger, Poll
    <2> QED BY <2>2, <2>3
  <1>4. CASE Wait
    <2>1. call \in Poll
      BY <1>4, CallTypes DEF Wait
    <2>2. /\ call.left \in 0..MaximumDeadline /\ call.due \in Int /\ PollInterval \in Nat
          /\ call.left > 0
      BY <1>4, <2>1, ControlAssumption DEF Wait, Poll
    <2>3. (IF call.left > PollInterval THEN call.left - PollInterval ELSE 0) \in 0..MaximumDeadline
          /\ call.due - PollInterval \in Int
      BY <2>2, ControlAssumption
    <2>4. call' \in Poll
      BY <1>4, <2>1, <2>3 DEF Wait, Poll
    <2> QED BY <1>4, <2>4 DEF Wait, TypeOK, provider, workers, ledger
  <1>5. CASE Cancel
    <2>1. call \in Poll /\ UNCHANGED <<maximum, ledger>>
      BY <1>5, CallTypes DEF Cancel
    <2>2. answer' \in Outcome /\ call' = NoCall
      BY <1>5, <2>1, RaisesTypes DEF Cancel, Endings
    <2>3. UNCHANGED provider \/ (call.job \in Sent /\ Remove(call.job, "CANCELLED", "none"))
      BY <1>5, <2>1 DEF Cancel, Sent, Unsent, Running, Poll
    <2> QED BY <2>1, <2>2, <2>3, RemoveTypes DEF TypeOK, provider, workers, ledger, Terminal, Outputs
  <1>6. CASE PollInterrupted
    <2>1. call \in Poll /\ UNCHANGED <<maximum, ledger>>
      BY <1>6, CallTypes DEF PollInterrupted
    <2>2. answer' \in Outcome /\ call' = NoCall
      BY <1>6, <2>1, RaisesTypes DEF PollInterrupted, Endings
    <2>3. UNCHANGED provider \/ (call.job \in Sent /\ Remove(call.job, "CANCELLED", "none"))
      BY <1>6, <2>1 DEF PollInterrupted, Sent, Unsent, Running, Poll
    <2> QED BY <2>1, <2>2, <2>3, RemoveTypes DEF TypeOK, provider, workers, ledger, Terminal, Outputs
  <1>7. CASE ReadWorkers
    <2>1. call \in HealthRead
      BY <1>7, CallTypes DEF ReadWorkers
    <2>2. Listed \in Nat
      BY BusyTypes
    <2>3. answer' \in Health /\ call' = NoCall
      BY <1>7, <2>1, <2>2 DEF ReadWorkers, Ends, Health, HealthRead
    <2> QED BY <1>7, <2>3 DEF ReadWorkers, TypeOK, provider, workers, ledger
  <1>8. CASE HealthFails
    BY <1>8 DEF HealthFails, TypeOK, provider, workers, ledger
  <1> QED BY <1>1, <1>2, <1>3, <1>4, <1>5, <1>6, <1>7, <1>8 DEF Controller

\* So does every step of the operator.
LEMMA OperatorTypes == ASSUME TypeOK, Operator PROVE TypeOK'
  <1>1. ASSUME NEW a \in Approvals, NEW p \in Proposals, NEW b \in BudgetRecords,
               NEW o \in Operations, Submit(a, p, b, o)
        PROVE  TypeOK'
    <2>1. counted + 1 \in Jobs /\ counted + 1 \in Baseline..LastSubmission
      BY <1>1, ControlAssumption DEF Submit, TypeOK, Jobs
    <2>2. jobs' \in [Jobs -> {Unsent} \cup Job]
      BY <1>1, <2>1 DEF Submit, TypeOK, Job, Outputs
    <2>3. b.cold \in Nat /\ b.rate \in Nat
      BY ControlAssumption DEF BudgetRecord
    <2>4. JobWorstCase(b) \in Nat
      BY <2>3, ControlAssumption DEF JobWorstCase
    <2>5. call' \in Submission
      BY <1>1, <2>1 DEF Submit, Submission
    <2> QED BY <1>1, <2>1, <2>2, <2>4, <2>5 DEF Submit, TypeOK, workers
  <1>2. ASSUME NEW j \in Jobs, NEW d \in 1..MaximumDeadline, NEW o \in Operations,
               StartPoll(j, d, o)
        PROVE  TypeOK'
    <2>1. call' \in Poll
      BY <1>2, ControlAssumption DEF StartPoll, Poll
    <2> QED BY <1>2, <2>1 DEF StartPoll, TypeOK, provider, workers, ledger
  <1>3. CASE Purge
    <2>1. \A j \in Remote({"IN_QUEUE"}) : jobs'[j] \in Job
      BY <1>3, SentTypes DEF Purge, Remote, Sent, Job, Terminal
    <2>2. jobs' \in [Jobs -> {Unsent} \cup Job]
      BY <1>3, <2>1 DEF Purge, TypeOK, Remote, Sent
    <2> QED BY <1>3, <2>2 DEF Purge, TypeOK, workers, ledger
  <1>4. CASE ReadHealth
    <2>1. call' \in HealthRead
      BY <1>4 DEF ReadHealth, HealthRead
    <2> QED BY <1>4, <2>1 DEF ReadHealth, TypeOK, provider, workers, ledger
  <1>5. CASE AssertLock
    <2>1. answer \in Health
      BY <1>5, AnswerTypes DEF AssertLock, HealthKnown
    <2>2. answer' \in Health
      BY <1>5, <2>1 DEF AssertLock, Health
    <2> QED BY <1>5, <2>2 DEF AssertLock, TypeOK, provider, workers, ledger
  <1>6. CASE SetMaximum
    <2>1. answer' \in {answer} \cup Health
      BY <1>6, AnswerTypes DEF SetMaximum, Health
    <2>2. maximum' \in {0, 1}
      BY <1>6 DEF SetMaximum, TypeOK
    <2> QED BY <1>6, <2>1, <2>2 DEF SetMaximum, TypeOK, provider, workers, ledger
  <1> QED BY <1>1, <1>2, <1>3, <1>4, <1>5, <1>6 DEF Operator

\* And of the provider.
LEMMA ProviderTypes == ASSUME TypeOK, Provider PROVE TypeOK'
  <1>1. ASSUME NEW j \in Jobs, Arrive(j) \/ Take(j)
        PROVE  TypeOK'
    <2>1. jobs[j] \in Job
      BY <1>1, SentTypes DEF Arrive, Take, Remote
    <2>2. jobs' \in [Jobs -> {Unsent} \cup Job]
      BY <1>1, <2>1 DEF Arrive, Take, TypeOK, Job, Running
    <2> QED BY <1>1, <2>2 DEF Arrive, Take, TypeOK, workers, ledger
  <1>2. ASSUME NEW j \in Jobs, Finish(j) \/ Expire(j)
        PROVE  TypeOK'
    <2>1. j \in Sent /\ UNCHANGED <<maximum, ledger, call, answer>>
      BY <1>2 DEF Finish, Expire, Remote
    <2>2. \E status \in Terminal, output \in Outputs : Remove(j, status, output)
      BY <1>2 DEF Finish, Expire, Terminal, Outputs, Reported
    <2> QED BY <2>1, <2>2, RemoveTypes DEF TypeOK, ledger
  <1>3. CASE Boot \/ Booted \/ Stop
    BY <1>3 DEF Boot, Booted, Stop, TypeOK, ledger
  <1>4. CASE Tick
    <2>1. call \in Poll
      BY <1>4, CallTypes DEF Tick
    <2>2. call' \in Poll
      BY <1>4, <2>1, ControlAssumption DEF Tick, Poll
    <2> QED BY <1>4, <2>2 DEF Tick, TypeOK, provider, workers, ledger
  <1> QED BY <1>1, <1>2, <1>3, <1>4 DEF Provider

LEMMA NextTypes == ASSUME TypeOK, [Next]_vars PROVE TypeOK'
  <1>1. CASE UNCHANGED vars
    BY <1>1 DEF vars, TypeOK
  <1> QED BY <1>1, ControllerTypes, OperatorTypes, ProviderTypes DEF Next

----------------------------------------------------------------------------
(* The ledger.                                                             *)

\* Multiplied by the number of slots, what was committed is at most one whole cap for
\* each job that was sent: a valid budget prices all the slots, whichever it is.
Ledger ==
    LET sent == counted - Baseline IN
    /\ sent <= Slots
    /\ Slots * committed <= sent * Balance
    /\ sent > 0 => Incurred <= MaximumSpend
    /\ Slots * committed <= sent * (MaximumSpend - Incurred)

\* A valid budget covers all slots within the spending cap and within the account.
LEMMA BudgetCovers ==
  ASSUME NEW b \in BudgetRecords, ValidBudget(b)
  PROVE  /\ JobWorstCase(b) \in Nat
         /\ Slots * JobWorstCase(b) <= Balance
         /\ Slots * JobWorstCase(b) <= MaximumSpend - Incurred
         /\ Incurred <= MaximumSpend
  <1>1. /\ b.rate \in Nat /\ b.cold \in Nat /\ b.disk \in Nat /\ b.incurred \in Nat
        /\ b.worst \in Nat /\ b.hard \in Nat /\ b.balance \in Nat
        /\ b.incurred >= Incurred /\ b.balance <= Balance
    BY ControlAssumption DEF BudgetRecord
  <1>2. JobWorstCase(b) \in Nat
    BY <1>1, ControlAssumption DEF JobWorstCase
  <1>3. Slots \in Nat
    BY ControlAssumption DEF Slots
  <1> DEFINE all == Slots * JobWorstCase(b)
  <1>4. all \in Nat
    BY <1>2, <1>3
  <1>5. /\ all + b.disk + b.incurred <= b.worst /\ b.worst <= b.hard /\ b.hard <= MaximumSpend
        /\ b.balance + b.incurred >= b.worst
    BY DEF ValidBudget, WorstCost
  <1> HIDE DEF all
  <1>6. all <= Balance /\ all <= MaximumSpend - Incurred /\ Incurred <= MaximumSpend
    BY <1>1, <1>4, <1>5, ControlAssumption
  <1> QED BY <1>2, <1>6 DEF all

\* One more job adds one more cap.
LEMMA OneMore ==
  ASSUME NEW slots \in Nat, NEW spent \in Nat, NEW cost \in Nat, NEW sent \in Nat,
         NEW cap \in Int, slots * spent <= sent * cap, slots * cost <= cap
  PROVE  slots * (spent + cost) <= (sent + 1) * cap
  <1>1. slots * (spent + cost) = slots * spent + slots * cost
    OBVIOUS
  <1>2. (sent + 1) * cap = sent * cap + cap
    OBVIOUS
  <1>3. slots * spent \in Int /\ slots * cost \in Int /\ sent * cap \in Int
    OBVIOUS
  <1> QED BY <1>1, <1>2, <1>3

\* Whoever used no more slots than there are is within the cap.
LEMMA WithinCap ==
  ASSUME NEW slots \in Nat, NEW spent \in Nat, NEW sent \in Nat, NEW cap \in Nat,
         slots * spent <= sent * cap, sent <= slots, slots > 0
  PROVE  spent <= cap
  <1> SUFFICES ASSUME spent >= cap + 1 PROVE FALSE
    OBVIOUS
  <1>1. sent * cap <= slots * cap
    <2>1. (slots - sent) * cap >= 0
      OBVIOUS
    <2> QED BY <2>1
  <1>2. slots * spent >= slots * cap + slots
    <2>1. slots * (spent - cap - 1) >= 0
      OBVIOUS
    <2> QED BY <2>1
  <1>3. slots * spent \in Int /\ slots * cap \in Int /\ sent * cap \in Int
    OBVIOUS
  <1> QED BY <1>1, <1>2, <1>3

LEMMA InitLedger == ASSUME Init PROVE Ledger
  BY ControlAssumption DEF Init, Ledger, Slots

\* Only a submission changes what the ledger speaks of.
LEMMA LedgerKept ==
  ASSUME TypeOK, Ledger, [Next]_vars
  PROVE  Ledger'
  <1>1. CASE UNCHANGED <<counted, committed>>
    BY <1>1 DEF Ledger
  <1>2. ASSUME NEW a \in Approvals, NEW p \in Proposals, NEW b \in BudgetRecords,
               NEW o \in Operations, Submit(a, p, b, o)
        PROVE  Ledger'
    <2> DEFINE sent == counted - Baseline
    <2>1. /\ counted' = counted + 1 /\ committed' = committed + JobWorstCase(b)
          /\ ValidBudget(b) /\ counted < MaximumPaidJobs
      BY <1>2 DEF Submit, MayPay
    <2>2. /\ JobWorstCase(b) \in Nat
          /\ Slots * JobWorstCase(b) <= Balance
          /\ Slots * JobWorstCase(b) <= MaximumSpend - Incurred
          /\ Incurred <= MaximumSpend
      BY <2>1, BudgetCovers
    <2>3. /\ Slots \in Nat /\ sent \in Nat /\ committed \in Nat /\ Balance \in Int
          /\ MaximumSpend - Incurred \in Int /\ sent + 1 <= Slots
      BY <2>1, ControlAssumption DEF TypeOK, Slots
    <2>4. counted' - Baseline = sent + 1
      BY <2>1, ControlAssumption DEF TypeOK
    <2>5. Slots * committed <= sent * Balance
          /\ Slots * committed <= sent * (MaximumSpend - Incurred)
      BY DEF Ledger
    <2> HIDE DEF sent
    <2>6. Slots * (committed + JobWorstCase(b)) <= (sent + 1) * Balance
      BY <2>2, <2>3, <2>5, OneMore
    <2>7. Slots * (committed + JobWorstCase(b)) <= (sent + 1) * (MaximumSpend - Incurred)
      BY <2>2, <2>3, <2>5, OneMore
    <2> QED BY <2>1, <2>2, <2>3, <2>4, <2>6, <2>7 DEF Ledger
  <1>3. CASE Controller
    BY <1>1, <1>3 DEF Controller, Receipt, Status, Wait, Cancel, ReadWorkers, ReceiptLost,
       PollInterrupted, HealthFails, ledger
  <1>4. CASE Operator
    BY <1>1, <1>2, <1>4 DEF Operator, StartPoll, Purge, ReadHealth, AssertLock, SetMaximum, ledger
  <1>5. CASE Provider
    BY <1>1, <1>5 DEF Provider, Arrive, Take, Finish, Expire, Boot, Booted, Stop, Tick, ledger
  <1> QED BY <1>1, <1>3, <1>4, <1>5 DEF Next, vars

\* All jobs that were ever sent stay within the spending cap and within the account.
LEMMA LedgerCaps == ASSUME TypeOK, Ledger PROVE SpendWithinCap
  <1> SUFFICES ASSUME counted > Baseline
               PROVE  committed + Incurred <= MaximumSpend /\ committed <= Balance
    BY DEF SpendWithinCap
  <1> DEFINE sent == counted - Baseline
             cap == MaximumSpend - Incurred
  <1>1. /\ Slots \in Nat /\ sent \in Nat /\ committed \in Nat /\ Balance \in Nat
        /\ sent <= Slots /\ Slots > 0 /\ Slots * committed <= sent * Balance
        /\ cap \in Nat /\ Slots * committed <= sent * cap
    BY ControlAssumption DEF TypeOK, Ledger, Slots
  <1> HIDE DEF sent
  <1>2. committed <= Balance
    BY <1>1, WithinCap
  <1>3. committed <= cap
    <2> HIDE DEF cap
    <2> QED BY <1>1, WithinCap
  <1> QED BY <1>1, <1>2, <1>3, ControlAssumption DEF TypeOK

----------------------------------------------------------------------------
(* The jobs.                                                               *)

\* What a step may do to the record of a job that was sent: the terms it was approved on
\* stay, a terminal job never changes, and a versioned response is that of its operation.
Advances(before, after) ==
    \/ after = before
    \/ /\ before.status \notin Terminal
       /\ after \in Job
       /\ after.proposal = before.proposal /\ after.budget = before.budget
       /\ after.operation = before.operation
       /\ after.output \in {"receipt", "passed"} =>
             after.output \in {before.output, Contract(before.operation)}

\* A job that ends has advanced.
LEMMA RemoveAdvances ==
  ASSUME TypeOK, NEW j \in Remote(Running), NEW status \in Terminal, NEW output \in Outputs,
         Remove(j, status, output),
         output \in {"receipt", "passed"} => output = Contract(jobs[j].operation)
  PROVE  \A i \in Jobs : IF i \in Sent THEN Advances(jobs[i], jobs'[i]) ELSE jobs'[i] = jobs[i]
  <1>1. j \in Sent /\ jobs[j].status \notin Terminal
    BY DEF Remote, Running, Terminal
  <1>2. Advances(jobs[j], jobs'[j])
    BY <1>1, RemoveTypes DEF Advances
  <1>3. \A i \in Jobs \ {j} : jobs'[i] = jobs[i]
    BY <1>1, RemoveTypes
  <1> QED BY <1>1, <1>2, <1>3 DEF Advances

\* Every step but a submission lets the jobs that were sent advance, and sends none.
LEMMA JobsAdvance ==
  ASSUME TypeOK, [Next]_vars,
         ~\E a \in Approvals, p \in Proposals, b \in BudgetRecords, o \in Operations :
              Submit(a, p, b, o)
  PROVE  \A i \in Jobs : IF i \in Sent THEN Advances(jobs[i], jobs'[i]) ELSE jobs'[i] = jobs[i]
  <1>1. CASE UNCHANGED jobs
    BY <1>1 DEF Advances
  <1>2. CASE Cancel \/ PollInterrupted
    <2>1. UNCHANGED jobs \/ (call.job \in Remote(Running) /\ Remove(call.job, "CANCELLED", "none"))
      <3>1. call.job \in Jobs
        BY <1>2, CallTypes DEF Cancel, PollInterrupted, Poll
      <3> QED BY <1>2, <3>1 DEF Cancel, PollInterrupted, provider, Remote, Sent, Running, Unsent
    <2> QED BY <1>1, <2>1, RemoveAdvances DEF Terminal, Outputs
  <1>3. CASE Purge
    <2>1. ASSUME NEW j \in Remote({"IN_QUEUE"}) PROVE Advances(jobs[j], jobs'[j])
      <3>1. jobs[j] \in Job /\ jobs[j].status = "IN_QUEUE" /\ j \in Jobs
        BY <2>1, SentTypes DEF Remote, Sent
      <3>2. jobs'[j] = [jobs[j] EXCEPT !.status = "CANCELLED"]
        BY <1>3, <3>1 DEF Purge
      <3> QED BY <3>1, <3>2 DEF Advances, Job, Terminal
    <2> QED BY <1>3, <2>1 DEF Purge, Advances, Remote, Sent
  <1>4. ASSUME NEW j \in Jobs, Arrive(j) \/ Take(j)
        PROVE  \A i \in Jobs : IF i \in Sent THEN Advances(jobs[i], jobs'[i])
                                             ELSE jobs'[i] = jobs[i]
    <2>1. j \in Sent /\ jobs[j] \in Job /\ jobs[j].status \in {"sent", "IN_QUEUE"}
      BY <1>4, SentTypes DEF Arrive, Take, Remote
    <2>2. \E status \in Running : jobs' = [jobs EXCEPT ![j] = [jobs[j] EXCEPT !.status = status]]
      BY <1>4, <2>1 DEF Arrive, Take, Running, TypeOK
    <2>3. Advances(jobs[j], jobs'[j])
      BY <2>1, <2>2 DEF Advances, Job, Terminal, TypeOK
    <2>4. \A i \in Jobs \ {j} : jobs'[i] = jobs[i]
      BY <2>2 DEF TypeOK
    <2> QED BY <2>1, <2>3, <2>4 DEF Advances
  <1>5. ASSUME NEW j \in Jobs, Finish(j) \/ Expire(j)
        PROVE  \A i \in Jobs : IF i \in Sent THEN Advances(jobs[i], jobs'[i])
                                             ELSE jobs'[i] = jobs[i]
    <2>1. j \in Remote(Running)
      BY <1>5 DEF Finish, Expire, Remote, Running
    <2>2. \E status \in Terminal, output \in Outputs :
             /\ Remove(j, status, output)
             /\ output \in {"receipt", "passed"} => output = Contract(jobs[j].operation)
      BY <1>5 DEF Finish, Expire, Reported, Terminal, Outputs
    <2> QED BY <2>1, <2>2, RemoveAdvances
  <1>6. CASE Controller
    BY <1>1, <1>2, <1>6 DEF Controller, Receipt, ReceiptLost, Status, Wait, ReadWorkers,
       HealthFails, provider
  <1>7. CASE Operator
    BY <1>1, <1>3, <1>7 DEF Operator, StartPoll, ReadHealth, AssertLock, SetMaximum, provider
  <1>8. CASE Provider
    BY <1>1, <1>4, <1>5, <1>8 DEF Provider, Boot, Booted, Stop, Tick, provider
  <1> QED BY <1>1, <1>6, <1>7, <1>8 DEF Next, vars

\* The jobs that were sent are counted and approved, and a versioned response is that of
\* the operation that was submitted.
Approved ==
    \A j \in Sent :
        /\ j <= counted
        /\ [proposal |-> jobs[j].proposal, budget |-> jobs[j].budget] \in Approvals
        /\ jobs[j].operation = jobs[j].proposal.operation
        /\ jobs[j].output \in {"receipt", "passed"} => jobs[j].output = Contract(jobs[j].operation)

LEMMA ApprovedKept == ASSUME TypeOK, Approved, [Next]_vars PROVE Approved'
  <1>1. ASSUME NEW a \in Approvals, NEW p \in Proposals, NEW b \in BudgetRecords,
               NEW o \in Operations, Submit(a, p, b, o)
        PROVE  Approved'
    <2>1. counted \in Int /\ counted' = counted + 1
      BY <1>1, ControlAssumption DEF Submit, TypeOK
    <2>2. [proposal |-> p, budget |-> b] \in Approvals /\ o = p.operation
      BY <1>1, ControlAssumption DEF Submit, MayPay, Authorizes
    <2>3. jobs' = [jobs EXCEPT ![counted'] =
                      [status |-> "sent", output |-> "none", proposal |-> p, budget |-> b,
                       operation |-> o]]
      BY <1>1, <2>1 DEF Submit
    <2>4. ASSUME NEW j \in Sent'
          PROVE  /\ j <= counted'
                 /\ [proposal |-> jobs'[j].proposal, budget |-> jobs'[j].budget] \in Approvals
                 /\ jobs'[j].operation = jobs'[j].proposal.operation
                 /\ jobs'[j].output \in {"receipt", "passed"} =>
                       jobs'[j].output = Contract(jobs'[j].operation)
      <3>1. j \in Jobs /\ j \in Int
        BY ControlAssumption DEF Sent, Jobs
      <3>2. CASE j = counted'
        BY <2>1, <2>2, <2>3, <3>1, <3>2 DEF TypeOK
      <3>3. CASE j # counted'
        <4>1. jobs'[j] = jobs[j] /\ j \in Sent
          BY <2>3, <3>1, <3>3 DEF TypeOK, Sent
        <4> QED BY <2>1, <3>1, <4>1 DEF Approved
      <3> QED BY <3>2, <3>3
    <2> QED BY <2>4 DEF Approved
  <1>2. CASE ~\E a \in Approvals, p \in Proposals, b \in BudgetRecords, o \in Operations :
                Submit(a, p, b, o)
    <2>1. counted' = counted
      <3>1. CASE Controller
        BY <3>1 DEF Controller, Receipt, Status, Wait, Cancel, ReadWorkers, ReceiptLost,
           PollInterrupted, HealthFails, ledger
      <3>2. CASE Operator
        BY <1>2, <3>2 DEF Operator, StartPoll, Purge, ReadHealth, AssertLock, SetMaximum, ledger
      <3>3. CASE Provider
        BY <3>3 DEF Provider, Arrive, Take, Finish, Expire, Boot, Booted, Stop, Tick, ledger
      <3> QED BY <3>1, <3>2, <3>3 DEF Next, vars
    <2>2. \A i \in Jobs : IF i \in Sent THEN Advances(jobs[i], jobs'[i]) ELSE jobs'[i] = jobs[i]
      BY <1>2, JobsAdvance
    <2>3. Sent' \subseteq Sent
      BY <2>2 DEF Sent
    <2> QED BY <2>1, <2>2, <2>3 DEF Approved, Advances, Sent
  <1> QED BY <1>1, <1>2

\* The provider never holds more jobs than the budget's literals leave.
LEMMA ApprovedPays == ASSUME TypeOK, Ledger, Approved PROVE PaidJobsAuthorized
  <1>1. Baseline + 1 \in Int /\ counted \in Int /\ counted - Baseline \in Nat /\ counted <= MaximumPaidJobs
    BY ControlAssumption DEF TypeOK, Ledger, Slots
  <1>2. Sent \in SUBSET ((Baseline + 1)..counted)
    <2>1. ASSUME NEW j \in Sent PROVE j \in (Baseline + 1)..counted
      <3>1. j <= counted
        BY DEF Approved
      <3>2. j \in (Baseline + 1)..LastSubmission
        BY DEF Sent, Jobs
      <3> QED BY <1>1, <3>1, <3>2, ControlAssumption
    <2> QED BY <2>1
  <1>3. IsFiniteSet((Baseline + 1)..counted) /\ Cardinality((Baseline + 1)..counted) <= Slots
    <2>1. IsFiniteSet((Baseline + 1)..counted)
          /\ Cardinality((Baseline + 1)..counted) =
                IF Baseline + 1 > counted THEN 0 ELSE counted - (Baseline + 1) + 1
      BY <1>1, FS_Interval
    <2> QED BY <1>1, <2>1, ControlAssumption DEF Slots
  <1>4. Cardinality(Sent) <= Cardinality((Baseline + 1)..counted)
    BY <1>2, <1>3, FS_Subset
  <1>5. Cardinality(Sent) \in Nat /\ Cardinality((Baseline + 1)..counted) \in Nat
    BY <1>2, <1>3, FS_Subset, FS_CardinalityType
  <1>6. Cardinality(Sent) <= Slots
    BY <1>3, <1>4, <1>5, ControlAssumption DEF Slots
  <1> QED BY <1>6 DEF PaidJobsAuthorized, Approved

----------------------------------------------------------------------------
(* What the operator is told.                                              *)

Told == NothingLeftRunning /\ EvidenceAccepted

\* What was told of a job stays true, for the job is terminal.
LEMMA ToldStays ==
  ASSUME TypeOK, Told, [Next]_vars, answer' = answer,
         ~\E a \in Approvals, p \in Proposals, b \in BudgetRecords, o \in Operations :
              Submit(a, p, b, o)
  PROVE  Told'
  <1> DEFINE facts == {"returned", "worker error", "refused", "deadline"}
  <1>1. CASE answer.kind \in facts
    <2>1. jobs[answer.job].status \in Terminal
      BY <1>1 DEF Told, NothingLeftRunning
    <2>2. answer.job \in Jobs
      BY <1>1, AnswerTypes DEF Outcome, Endings
    <2>3. answer.job \in Sent
      BY <2>1, <2>2 DEF Sent, Unsent, Terminal
    <2>4. jobs'[answer.job] = jobs[answer.job]
      BY <2>1, <2>2, <2>3, JobsAdvance DEF Advances
    <2> QED BY <2>4 DEF Told, NothingLeftRunning, EvidenceAccepted
  <1>2. CASE answer.kind \notin facts
    BY <1>2 DEF Told, NothingLeftRunning, EvidenceAccepted
  <1> QED BY <1>1, <1>2

\* A terminal job is judged by its last word.
LEMMA StatusTells ==
  ASSUME TypeOK, Approved, Status, jobs[call.job].status \in Terminal
  PROVE  Told'
  <1>1. call \in Poll /\ call.job \in Jobs
    BY CallTypes DEF Status, Poll
  <1>2. call.job \in Sent
    BY <1>1 DEF Sent, Unsent, Terminal
  <1>3. jobs' = jobs /\ Judge(jobs[call.job].status, jobs[call.job].output)
    BY DEF Status, provider
  <1>4. CASE \E kind \in Endings \ {"deadline", "interrupted"} : Raises(kind)
    <2>1. PICK kind \in Endings \ {"deadline", "interrupted"} : Raises(kind)
      BY <1>4
    <2>2. answer'.kind = kind /\ answer'.job = call.job
      BY <1>1, <2>1, RaisesTypes
    <2> QED BY <1>3, <2>2 DEF Told, NothingLeftRunning, EvidenceAccepted, Endings
  <1>5. CASE /\ jobs[call.job].output # "leaky"
             /\ Acceptable(jobs[call.job].status, jobs[call.job].output, call.expected)
             /\ Ends([kind |-> "returned", job |-> call.job, status |-> jobs[call.job].status,
                      output |-> jobs[call.job].output])
    <2>1. /\ answer'.kind = "returned" /\ answer'.job = call.job
          /\ answer'.status = jobs[call.job].status /\ answer'.output = jobs[call.job].output
      BY <1>5 DEF Ends
    <2>2. jobs[call.job].status = "COMPLETED" =>
             jobs[call.job].output = Contract(jobs[call.job].operation)
      BY <1>2, <1>5 DEF Acceptable, Contract, Approved
    <2> QED BY <1>3, <1>5, <2>1, <2>2 DEF Told, NothingLeftRunning, EvidenceAccepted
  <1> QED BY <1>3, <1>4, <1>5 DEF Judge, Endings

\* An answer of another kind says nothing of a job.
LEMMA ToldNothing ==
  ASSUME answer'.kind \in {"none", "health", "locked", "interrupted", "unconfirmed"}
  PROVE  Told'
  BY DEF Told, NothingLeftRunning, EvidenceAccepted, Endings

\* Only a confirmed cancellation is reported as one.
LEMMA CancelTells == ASSUME TypeOK, Cancel PROVE Told'
  <1>1. call \in Poll /\ call.job \in Jobs
    BY CallTypes DEF Cancel, Poll
  <1>2. CASE /\ jobs[call.job].status \in Running
             /\ Remove(call.job, "CANCELLED", "none") /\ Raises("deadline")
    <2>1. answer'.kind = "deadline" /\ answer'.job = call.job
      BY <1>1, <1>2, RaisesTypes DEF Endings
    <2>2. call.job \in Sent
      BY <1>1, <1>2 DEF Sent, Unsent, Running
    <2>3. jobs'[call.job].status = "CANCELLED"
      BY <1>2, <2>2, RemoveTypes DEF Terminal, Outputs
    <2> QED BY <2>1, <2>3 DEF Told, NothingLeftRunning, EvidenceAccepted, Terminal
  <1>3. CASE /\ jobs[call.job].status \in Terminal /\ UNCHANGED provider
             /\ Raises(IF jobs[call.job].status = "CANCELLED" THEN "deadline" ELSE "unconfirmed")
    <2>1. answer'.kind = (IF jobs[call.job].status = "CANCELLED" THEN "deadline" ELSE "unconfirmed")
          /\ answer'.job = call.job
      BY <1>1, <1>3, RaisesTypes DEF Endings
    <2>2. jobs' = jobs
      BY <1>3 DEF provider
    <2> QED BY <1>3, <2>1, <2>2 DEF Told, NothingLeftRunning, EvidenceAccepted
  <1>4. CASE Raises("unconfirmed")
    BY <1>1, <1>4, RaisesTypes, ToldNothing DEF Endings
  <1> QED BY <1>2, <1>3, <1>4 DEF Cancel

LEMMA ToldKept == ASSUME TypeOK, Approved, Told, [Next]_vars PROVE Told'
  <1>1. CASE \E a \in Approvals, p \in Proposals, b \in BudgetRecords, o \in Operations :
                Submit(a, p, b, o)
    BY <1>1, ToldNothing DEF Submit, NoAnswer
  <1> USE ToldStays
  <1>2. CASE answer' = answer
    BY <1>1, <1>2
  <1>3. CASE Status
    BY <1>1, <1>2, <1>3, StatusTells DEF Status
  <1>4. CASE Cancel
    BY <1>4, CancelTells
  <1>5. CASE PollInterrupted
    <2>1. answer'.kind = "interrupted"
      BY <1>5, CallTypes, RaisesTypes DEF PollInterrupted, Endings
    <2> QED BY <2>1, ToldNothing
  <1>6. CASE ReadWorkers
    BY <1>6, ToldNothing DEF ReadWorkers, Ends
  <1>7. CASE Controller
    BY <1>2, <1>3, <1>4, <1>5, <1>6, <1>7 DEF Controller, Receipt, ReceiptLost, Wait, HealthFails
  <1>8. CASE AssertLock \/ SetMaximum
    <2>1. AssertLock => answer \in Health /\ answer'.kind = "locked"
      BY AnswerTypes DEF AssertLock, HealthKnown, Health
    <2>2. SetMaximum => answer' = answer \/ answer'.kind \in {"health", "locked"}
      BY AnswerTypes DEF SetMaximum, HealthKnown, Health
    <2> QED BY <1>2, <1>8, <2>1, <2>2, ToldNothing
  <1>9. CASE Operator
    BY <1>1, <1>2, <1>8, <1>9, ToldNothing DEF Operator, StartPoll, ReadHealth, Purge, NoAnswer
  <1>10. CASE Provider
    BY <1>2, <1>10 DEF Provider, Arrive, Take, Finish, Expire, Boot, Booted, Stop, Tick
  <1> QED BY <1>2, <1>7, <1>9, <1>10 DEF Next, vars

----------------------------------------------------------------------------
(* The clock of a poll.                                                    *)

\* While there is time, the pauses have used no more of it than has passed.
Clock ==
    call.at \in {"status", "decide"} =>
        /\ call.due > -PollInterval
        /\ call.left > 0 => call.due >= call.left

LEMMA ClockKept == ASSUME TypeOK, Clock, [Next]_vars PROVE Clock'
  <1>1. CASE UNCHANGED call
    BY <1>1 DEF Clock
  <1>2. CASE call' = NoCall
    BY <1>2 DEF Clock, NoCall
  <1>3. CASE Status
    <2>1. call \in Poll
      BY <1>3, CallTypes DEF Status
    <2>2. call' = NoCall \/ call' = [call EXCEPT !.at = "decide"]
      BY <1>3 DEF Status, Judge, Ends, Raises
    <2> QED BY <1>2, <1>3, <2>1, <2>2 DEF Clock, Poll, Status
  <1>4. CASE Wait
    <2>1. call \in Poll /\ call.left \in Nat /\ call.due \in Int /\ call.left > 0
      BY <1>4, CallTypes, ControlAssumption DEF Wait, Poll
    <2>2. call'.due = call.due - PollInterval
          /\ call'.left = IF call.left > PollInterval THEN call.left - PollInterval ELSE 0
      BY <1>4, <2>1 DEF Wait, Poll
    <2>3. call.due >= call.left
      BY <1>4, <2>1 DEF Clock, Wait
    <2> QED BY <2>1, <2>2, <2>3, ControlAssumption DEF Clock
  <1>5. CASE Tick
    <2>1. call \in Poll /\ call.left \in Nat /\ call.due \in Int /\ call.left > 0
      BY <1>5, CallTypes, ControlAssumption DEF Tick, Poll
    <2>2. call'.due = call.due /\ call'.left = call.left - 1
      BY <1>5, <2>1 DEF Tick, Poll
    <2>3. call.due >= call.left /\ call.due > -PollInterval
      BY <1>5, <2>1 DEF Clock, Tick
    <2> QED BY <2>1, <2>2, <2>3 DEF Clock
  <1>6. ASSUME NEW j \in Jobs, NEW d \in 1..MaximumDeadline, NEW o \in Operations,
               StartPoll(j, d, o)
        PROVE  Clock'
    <2>1. call'.due = d /\ call'.left = d /\ d \in Nat
      BY <1>6 DEF StartPoll
    <2> QED BY <2>1, ControlAssumption DEF Clock
  <1>7. CASE Controller
    BY <1>2, <1>3, <1>4, <1>7 DEF Controller, Receipt, ReceiptLost, Cancel, PollInterrupted,
       ReadWorkers, HealthFails, Ends, Raises
  <1>8. CASE Operator
    <2>1. ASSUME NEW a \in Approvals, NEW p \in Proposals, NEW b \in BudgetRecords,
                 NEW o \in Operations, Submit(a, p, b, o)
          PROVE  Clock'
      BY <2>1 DEF Submit, Clock
    <2>2. CASE ReadHealth
      BY <2>2 DEF ReadHealth, Clock
    <2> QED BY <1>1, <1>6, <1>8, <2>1, <2>2 DEF Operator, Purge, AssertLock, SetMaximum
  <1>9. CASE Provider
    BY <1>1, <1>5, <1>9 DEF Provider, Arrive, Take, Finish, Expire, Boot, Booted, Stop
  <1> QED BY <1>1, <1>7, <1>8, <1>9 DEF Next, vars

----------------------------------------------------------------------------
(* The lock.                                                               *)

\* A job that ends leaves as many workers listed as before.
LEMMA RemoveListed ==
  ASSUME TypeOK, NEW j \in Remote(Running), NEW status \in Terminal, NEW output \in Outputs,
         Remove(j, status, output)
  PROVE  Listed' = Listed
  <1> DEFINE B == Remote({"IN_PROGRESS"})
  <1>1. j \in Sent /\ j \in Jobs
    BY DEF Remote, Sent
  <1>2. /\ jobs'[j] # Unsent /\ jobs'[j].status = status /\ starting' = starting
        /\ \A i \in Jobs \ {j} : jobs'[i] = jobs[i]
    BY <1>1, RemoveTypes DEF Job, Unsent, Running, Terminal
  <1>3. B' = B \ {j}
    BY <1>1, <1>2 DEF Remote, Sent, Terminal
  <1>4. IsFiniteSet(B) /\ Cardinality(B) \in Nat /\ Busy = Cardinality(B)
    BY BusyTypes DEF Busy
  <1>5. Cardinality(B \ {j}) = IF j \in B THEN Cardinality(B) - 1 ELSE Cardinality(B)
    BY <1>4, FS_RemoveElement
  <1>6. Busy' = IF j \in B THEN Busy - 1 ELSE Busy
    BY <1>3, <1>4, <1>5 DEF Busy
  <1>7. idle' = IF j \in B THEN idle + 1 ELSE idle
    BY <1>1 DEF Remove, Remote
  <1> HIDE DEF B
  <1> QED BY <1>2, <1>4, <1>6, <1>7 DEF Listed, TypeOK

\* The same of the next state.
LEMMA ListedNext == TypeOK' => (Listed \in Nat)'
  <1>1. TypeOK => Listed \in Nat
    BY BusyTypes
  <1> QED BY <1>1, PTL

\* While the configured maximum is zero, no step but a submission lists another worker.
LEMMA ListedFalls ==
  ASSUME TypeOK, [Next]_vars, maximum = 0,
         ~\E a \in Approvals, p \in Proposals, b \in BudgetRecords, o \in Operations :
              Submit(a, p, b, o)
  PROVE  Listed' <= Listed
  <1>1. Listed \in Nat /\ starting \in Nat /\ idle \in Nat /\ Busy \in Nat
    BY BusyTypes DEF TypeOK
  <1>2. CASE UNCHANGED provider
    BY <1>1, <1>2 DEF provider, workers, Listed, Busy, Remote, Sent
  <1>3. ASSUME NEW j \in Remote(Running), NEW status \in Terminal, NEW output \in Outputs,
               Remove(j, status, output)
        PROVE  Listed' <= Listed
    BY <1>1, <1>3, RemoveListed
  <1>4. CASE Cancel \/ PollInterrupted
    <2>1. UNCHANGED provider \/ (call.job \in Remote(Running) /\ Remove(call.job, "CANCELLED", "none"))
      <3>1. call.job \in Jobs
        BY <1>4, CallTypes DEF Cancel, PollInterrupted, Poll
      <3> QED BY <1>4, <3>1 DEF Cancel, PollInterrupted, Remote, Sent, Running, Unsent
    <2> QED BY <1>2, <1>3, <2>1 DEF Terminal, Outputs
  <1>5. CASE Purge
    <2>1. Remote({"IN_PROGRESS"})' = Remote({"IN_PROGRESS"})
      <3>1. \A j \in Remote({"IN_QUEUE"}) : jobs'[j].status = "CANCELLED"
        BY <1>5, SentTypes DEF Purge, Remote, Sent, Job
      <3>2. \A j \in Jobs \ Remote({"IN_QUEUE"}) : jobs'[j] = jobs[j]
        BY <1>5 DEF Purge
      <3> QED BY <3>1, <3>2 DEF Remote, Sent, Unsent
    <2> QED BY <1>1, <1>5, <2>1 DEF Purge, Listed, Busy, workers
  <1>6. ASSUME NEW j \in Jobs, Arrive(j)
        PROVE  Listed' <= Listed
    <2>1. jobs[j] \in Job /\ jobs[j].status = "sent" /\ j \in Sent
      BY <1>6, SentTypes DEF Arrive, Remote
    <2>2. jobs' = [jobs EXCEPT ![j] = [jobs[j] EXCEPT !.status = "IN_QUEUE"]]
      BY <1>6 DEF Arrive, TypeOK
    <2>3. Remote({"IN_PROGRESS"})' = Remote({"IN_PROGRESS"})
      BY <2>1, <2>2 DEF Remote, Sent, TypeOK, Job
    <2> QED BY <1>1, <1>6, <2>3 DEF Arrive, Listed, Busy, workers
  <1>7. ASSUME NEW j \in Jobs, Take(j)
        PROVE  Listed' <= Listed
    <2>1. jobs[j] \in Job /\ jobs[j].status = "IN_QUEUE" /\ j \in Sent
      BY <1>7, SentTypes DEF Take, Remote
    <2>2. jobs' = [jobs EXCEPT ![j] = [jobs[j] EXCEPT !.status = "IN_PROGRESS"]]
      BY <1>7 DEF Take, TypeOK
    <2>3. Remote({"IN_PROGRESS"})' = Remote({"IN_PROGRESS"}) \cup {j}
          /\ j \notin Remote({"IN_PROGRESS"})
      BY <2>1, <2>2 DEF Remote, Sent, TypeOK, Job, Unsent
    <2>4. Busy' = Busy + 1
      BY <2>3, BusyTypes, FS_AddElement DEF Busy
    <2> QED BY <1>1, <1>7, <2>4 DEF Take, Listed
  <1>8. ASSUME NEW j \in Jobs, Finish(j) \/ Expire(j)
        PROVE  Listed' <= Listed
    <2>1. j \in Remote(Running)
      BY <1>8 DEF Finish, Expire, Remote, Running
    <2>2. \E status \in Terminal, output \in Outputs : Remove(j, status, output)
      BY <1>8 DEF Finish, Expire, Reported, Terminal, Outputs
    <2> QED BY <1>3, <2>1, <2>2
  <1>9. CASE Boot \/ Booted \/ Stop
    <2>1. Busy' = Busy
      BY <1>9 DEF Boot, Booted, Stop, Busy, Remote, Sent
    <2> QED BY <1>1, <1>9, <2>1 DEF Boot, Booted, Stop, Listed
  <1>10. CASE Controller
    BY <1>2, <1>4, <1>10 DEF Controller, Receipt, ReceiptLost, Status, Wait, ReadWorkers, HealthFails
  <1>11. CASE Operator
    BY <1>2, <1>5, <1>11 DEF Operator, StartPoll, ReadHealth, AssertLock, SetMaximum
  <1>12. CASE Provider
    BY <1>2, <1>6, <1>7, <1>8, <1>9, <1>12 DEF Provider, Tick
  <1> QED BY <1>2, <1>10, <1>11, <1>12 DEF Next, vars, provider, workers

\* While the maximum stays zero, no more workers are listed than when they were read, and
\* the lock is asserted only if none was.
Quiet ==
    /\ HealthKnown /\ answer.steady => maximum = 0 /\ Listed <= answer.listed
    /\ answer.kind = "locked" => answer.listed = 0

LEMMA QuietKept == ASSUME TypeOK, Quiet, [Next]_vars PROVE Quiet'
  <1>1. CASE answer'.kind \notin {"health", "locked"}
    BY <1>1 DEF Quiet, HealthKnown
  <1>2. CASE \E a \in Approvals, p \in Proposals, b \in BudgetRecords, o \in Operations :
                Submit(a, p, b, o)
    BY <1>1, <1>2 DEF Submit, NoAnswer
  <1>3. CASE ~\E a \in Approvals, p \in Proposals, b \in BudgetRecords, o \in Operations :
                Submit(a, p, b, o)
    <2>1. Listed \in Nat /\ Listed' \in Nat /\ (maximum = 0 => Listed' <= Listed)
      <3>1. Listed \in Nat /\ TypeOK'
        BY BusyTypes, NextTypes
      <3>2. Listed' \in Nat
        BY <3>1, ListedNext
      <3>3. maximum = 0 => Listed' <= Listed
        BY <1>3, ListedFalls
      <3> QED BY <3>1, <3>2, <3>3
    <2>2. HealthKnown => answer.listed \in Nat
      BY AnswerTypes DEF Health
    <2>3. CASE answer' = answer /\ maximum' = maximum
      BY <2>1, <2>2, <2>3 DEF Quiet, HealthKnown
    <2>4. CASE ReadWorkers
      <3>1. /\ answer'.kind = "health" /\ answer'.listed = Listed /\ maximum' = maximum
            /\ answer'.steady <=> maximum = 0
        BY <2>4 DEF ReadWorkers, Ends
      <3> QED BY <2>1, <3>1 DEF Quiet, HealthKnown
    <2>5. CASE AssertLock
      <3>1. answer \in Health /\ answer.kind = "health" /\ answer.listed = 0 /\ maximum' = maximum
        BY <2>5, AnswerTypes DEF AssertLock, HealthKnown, Quiescent
      <3>2. answer'.steady = answer.steady /\ answer'.listed = answer.listed
        BY <2>5, <3>1 DEF AssertLock, Health
      <3> QED BY <2>1, <3>1, <3>2 DEF Quiet, HealthKnown
    <2>6. CASE SetMaximum
      <3>1. CASE HealthKnown
        <4>1. answer' = [answer EXCEPT !.steady = FALSE] /\ answer \in Health
          BY <2>6, <3>1, AnswerTypes DEF SetMaximum
        <4>2. answer'.steady = FALSE /\ answer'.kind = answer.kind /\ answer'.listed = answer.listed
          BY <4>1 DEF Health
        <4> QED BY <4>2 DEF Quiet
      <3>2. CASE ~HealthKnown
        BY <1>1, <2>6, <3>2 DEF SetMaximum, HealthKnown
      <3> QED BY <3>1, <3>2
    <2>7. CASE Status \/ Cancel \/ PollInterrupted
      <3>1. call \in Poll /\ maximum' = maximum
        BY <2>7, CallTypes DEF Status, Cancel, PollInterrupted
      <3>2. answer' = answer \/ answer'.kind \in {"returned"} \cup Endings
        <4>1. \A kind \in Endings : Raises(kind) => answer'.kind \in Endings
          BY <3>1, RaisesTypes
        <4>2. CASE Status
          <5>1. \/ answer' = answer
                \/ Judge(jobs[call.job].status, jobs[call.job].output)
            BY <4>2 DEF Status
          <5>2. \/ answer' = answer
                \/ \E kind \in Endings : Raises(kind)
                \/ Ends([kind |-> "returned", job |-> call.job, status |-> jobs[call.job].status,
                         output |-> jobs[call.job].output])
            BY <5>1 DEF Judge, Endings
          <5> QED BY <4>1, <5>2 DEF Ends
        <4>3. CASE Cancel \/ PollInterrupted
          BY <4>1, <4>3 DEF Cancel, PollInterrupted, Endings
        <4> QED BY <2>7, <4>2, <4>3
      <3> QED BY <1>1, <2>3, <3>1, <3>2 DEF Endings
    <2>8. CASE Controller
      BY <2>3, <2>4, <2>7, <2>8 DEF Controller, Receipt, ReceiptLost, Wait, HealthFails
    <2>9. CASE Operator
      BY <1>1, <1>3, <2>3, <2>5, <2>6, <2>9 DEF Operator, StartPoll, ReadHealth, Purge, NoAnswer
    <2>10. CASE Provider
      BY <2>3, <2>10 DEF Provider, Arrive, Take, Finish, Expire, Boot, Booted, Stop, Tick
    <2> QED BY <2>3, <2>8, <2>9, <2>10 DEF Next, vars
  <1> QED BY <1>2, <1>3

----------------------------------------------------------------------------
(* The theorems.                                                           *)

Inv == TypeOK /\ Ledger /\ Approved /\ Told /\ Clock /\ Quiet

LEMMA InitInv == ASSUME Init PROVE Inv
  <1>1. TypeOK /\ Ledger
    BY InitTypes, InitLedger
  <1>2. Approved
    BY DEF Init, Approved, Sent
  <1>3. Told /\ Clock /\ Quiet
    BY DEF Init, Told, NothingLeftRunning, EvidenceAccepted, Clock, Quiet, HealthKnown, NoCall,
       NoAnswer, Endings
  <1> QED BY <1>1, <1>2, <1>3 DEF Inv

\* Every state of a run satisfies the invariant.
LEMMA InvHolds == Spec => []Inv
  <1>1. Init => Inv
    BY InitInv
  <1>2. Inv /\ [Next]_vars => Inv'
    BY NextTypes, LedgerKept, ApprovedKept, ToldKept, ClockKept, QuietKept DEF Inv
  <1> QED BY <1>1, <1>2, PTL DEF Spec

\* The controller, the operator's knowledge and the queue keep their types.
THEOREM TypeCorrect == Spec => []TypeOK
  <1>1. Inv => TypeOK
    BY DEF Inv
  <1> QED BY <1>1, InvHolds, PTL

\* However responses are lost and requests delayed, the provider never holds more jobs
\* than were left to pay, and each was approved with its proposal and its budget.
THEOREM JobsAreAuthorized == Spec => []PaidJobsAuthorized
  <1>1. Inv => PaidJobsAuthorized
    BY ApprovedPays DEF Inv
  <1> QED BY <1>1, InvHolds, PTL

\* All jobs that were ever sent stay within the spending cap and within the account.
THEOREM SpendingIsCapped == Spec => []SpendWithinCap
  <1>1. Inv => SpendWithinCap
    BY LedgerCaps DEF Inv
  <1> QED BY <1>1, InvHolds, PTL

\* A result that is returned is the job's last word, scanned, and the versioned response
\* of the operation that was submitted.
THEOREM EvidenceIsRight == Spec => []EvidenceAccepted
  <1>1. Inv => EvidenceAccepted
    BY DEF Inv, Told
  <1> QED BY <1>1, InvHolds, PTL

\* Once a poll has told its caller anything but an error of the transport, the job no
\* longer runs, and a deadline is reported only for a job that was really cancelled.
THEOREM NothingRunsOn == Spec => []NothingLeftRunning
  <1>1. Inv => NothingLeftRunning
    BY DEF Inv, Told
  <1> QED BY <1>1, InvHolds, PTL

\* The pauses of a poll are over less than one interval after its deadline.
THEOREM PollsAreBounded == Spec => []PollsBounded
  <1>1. Inv => PollsBounded
    BY DEF Inv, Clock, PollsBounded
  <1> QED BY <1>1, InvHolds, PTL

\* After the lock was asserted nothing is listed while the maximum stays zero.
THEOREM LockIsQuiet == Spec => []LockMeansQuiet
  <1>1. Inv => LockMeansQuiet
    BY BusyTypes DEF Inv, Quiet, LockMeansQuiet, HealthKnown
  <1> QED BY <1>1, InvHolds, PTL

----------------------------------------------------------------------------
(* The ledger of prepaid jobs (PrepaidJobs).                               *)

\* What the state is mapped to, with names, and the step that buys.
AllTerms == [j \in Jobs |-> TermsOf(j)]
AllWords == [j \in Jobs |-> WordOf(j)]
Submits ==
    \E a \in Approvals, p \in Proposals, b \in BudgetRecords, o \in Operations : Submit(a, p, b, o)

\* A job has terms exactly if it was sent, and a last word exactly if it is terminal.
LEMMA TermsAndWord ==
  ASSUME TypeOK, NEW j \in Jobs
  PROVE  /\ TermsOf(j) # Unbought <=> j \in Sent
         /\ WordOf(j) = Unended <=> jobs[j].status \notin Terminal
         /\ j \notin Sent => WordOf(j) = Unended
         /\ WordOf(j) \in LastWord \cup {Unended}
  <1>1. CASE jobs[j] = Unsent
    BY <1>1 DEF TermsOf, WordOf, Unsent, Sent, Terminal, Unended
  <1>2. CASE jobs[j] \in Job
    <2>1. jobs[j].status # "unsent" /\ jobs[j].operation # "none"
      BY <1>2 DEF Job, Running, Terminal, Operations
    <2>2. jobs[j] # Unsent /\ j \in Sent
      BY <2>1 DEF Unsent, Sent
    <2>3. TermsOf(j).operation = jobs[j].operation
      BY <2>2 DEF TermsOf, Terms
    <2>4. TermsOf(j) # Unbought
      BY <2>1, <2>3 DEF Unbought
    <2>5. CASE jobs[j].status \in Terminal
      <3>1. WordOf(j) = [status |-> jobs[j].status, output |-> jobs[j].output]
        BY <2>5 DEF WordOf
      <3>2. WordOf(j) \in LastWord
        BY <1>2, <2>5, <3>1 DEF LastWord, Job
      <3>3. WordOf(j).status # "unended"
        BY <2>5, <3>1 DEF Terminal
      <3> QED BY <2>2, <2>4, <2>5, <3>2, <3>3 DEF Unended
    <2>6. CASE jobs[j].status \notin Terminal
      BY <2>2, <2>4, <2>6 DEF WordOf
    <2> QED BY <2>5, <2>6
  <1> QED BY <1>1, <1>2 DEF TypeOK

\* What a state may show of a job, named so that it can be said of the next state too.
Shows(j) ==
    /\ TermsOf(j) # Unbought <=> j \in Sent
    /\ WordOf(j) = Unended <=> jobs[j].status \notin Terminal
    /\ j \notin Sent => WordOf(j) = Unended
    /\ WordOf(j) \in LastWord \cup {Unended}

LEMMA JobsShow == TypeOK => \A j \in Jobs : Shows(j)
  BY TermsAndWord DEF Shows

LEMMA JobsShowNext == (TypeOK => \A j \in Jobs : Shows(j))'
  BY JobsShow, PTL

\* A step that sends no job keeps all terms and every last word.
LEMMA LedgerAdvances ==
  ASSUME TypeOK, TypeOK', [Next]_vars, ~Submits
  PROVE  /\ Sent' = Sent
         /\ AllTerms' = AllTerms
         /\ AllWords' \in [Jobs -> LastWord \cup {Unended}]
         /\ \A j \in Jobs : WordOf(j)' = WordOf(j) \/ (j \in Sent /\ WordOf(j) = Unended)
         /\ committed' = committed
  <1>1. ASSUME NEW j \in Jobs
        PROVE  /\ TermsOf(j)' = TermsOf(j)
               /\ WordOf(j)' = WordOf(j) \/ (j \in Sent /\ WordOf(j) = Unended)
    <2>1. IF j \in Sent THEN Advances(jobs[j], jobs'[j]) ELSE jobs'[j] = jobs[j]
      BY JobsAdvance DEF Submits
    <2>2. CASE jobs'[j] = jobs[j]
      BY <2>2 DEF TermsOf, WordOf
    <2>3. CASE j \in Sent /\ jobs'[j] # jobs[j]
      <3>1. /\ jobs[j].status \notin Terminal /\ jobs'[j] \in Job
            /\ jobs'[j].proposal = jobs[j].proposal /\ jobs'[j].budget = jobs[j].budget
            /\ jobs'[j].operation = jobs[j].operation
        BY <2>1, <2>3 DEF Advances
      <3>2. jobs'[j] # Unsent /\ jobs[j] # Unsent
        BY <2>3, <3>1 DEF Sent, Job, Unsent, Running, Terminal
      <3> QED BY <2>3, <3>1, <3>2, TermsAndWord DEF TermsOf
    <2> QED BY <2>1, <2>2, <2>3
  <1>2. ASSUME NEW j \in Jobs PROVE WordOf(j)' \in LastWord \cup {Unended}
    BY <1>2, JobsShowNext DEF Shows
  <1>3. committed' = committed
    <2>1. CASE Controller
      BY <2>1 DEF Controller, Receipt, Status, Wait, Cancel, ReadWorkers, ReceiptLost,
         PollInterrupted, HealthFails, ledger
    <2>2. CASE Operator
      BY <2>2 DEF Operator, Submits, StartPoll, Purge, ReadHealth, AssertLock, SetMaximum, ledger
    <2>3. CASE Provider
      BY <2>3 DEF Provider, Arrive, Take, Finish, Expire, Boot, Booted, Stop, Tick, ledger
    <2> QED BY <2>1, <2>2, <2>3 DEF Next, vars, ledger
  <1>4. Sent' = Sent
    BY <1>1, JobsShow, JobsShowNext, TermsAndWord DEF Shows, Sent
  <1> QED BY <1>1, <1>2, <1>3, <1>4 DEF AllTerms, AllWords

Quietly == [kind |-> "nothing"]

\* While a call is in hand its caller is told nothing.
Silent == call = NoCall \/ answer = NoAnswer

\* Whoever is somewhere in a call has one in hand, and its caller was told nothing.
LEMMA AtWork == ASSUME call.at # "none" PROVE call # NoCall
  BY DEF NoCall

LEMMA SilentNews == ASSUME Silent, call.at # "none" PROVE News = Quietly
  <1>1. answer.kind = "none"
    BY AtWork DEF Silent, NoAnswer
  <1> QED BY <1>1 DEF News, Quietly

LEMMA SilentKept == ASSUME TypeOK, Silent, [Next]_vars PROVE Silent'
  <1>1. CASE Controller
    <2>1. CASE call' = NoCall
      BY <2>1 DEF Silent
    <2>2. CASE call # NoCall /\ answer' = answer
      BY <2>2 DEF Silent
    <2>3. Status => call' = NoCall \/ (call # NoCall /\ answer' = answer)
      BY AtWork DEF Status, Judge, Raises, Ends
    <2>4. Wait => call # NoCall /\ answer' = answer
      BY AtWork DEF Wait
    <2> QED
      BY <1>1, <2>1, <2>2, <2>3, <2>4
      DEF Controller, Receipt, ReceiptLost, Cancel, PollInterrupted, ReadWorkers, HealthFails,
          Raises, Ends
  <1>2. CASE Operator
    BY <1>2 DEF Silent, Operator, Submit, StartPoll, Purge, ReadHealth, AssertLock, SetMaximum,
       Idle, HealthKnown
  <1>3. CASE Provider
    BY <1>3 DEF Silent, Provider, Arrive, Take, Finish, Expire, Boot, Booted, Stop, Tick, NoCall
  <1> QED BY <1>1, <1>2, <1>3 DEF Next, vars, Silent

\* How many more jobs may be bought.
Left == Slots - Cardinality(Sent)

\* Jobs that end at the provider, and everything that shows nothing.
LEMMA EndStep ==
  ASSUME TypeOK, TypeOK', [Next]_vars, ~Submits, News' = News
  PROVE  Prepaid!End
  <1>1. \A j \in Jobs : AllWords[j] = WordOf(j) /\ AllWords'[j] = WordOf(j)'
    BY DEF AllWords
  <1>2. /\ Sent' = Sent /\ AllTerms' = AllTerms /\ committed' = committed
        /\ AllWords' \in [Jobs -> LastWord \cup {Unended}]
        /\ \A j \in Jobs : AllWords'[j] = AllWords[j] \/ (j \in Sent /\ AllWords[j] = Unended)
    BY <1>1, LedgerAdvances
  <1>3. \A j \in Jobs : j \in Sent <=> AllTerms[j] # Unbought
    BY TermsAndWord DEF AllTerms
  <1>4. \A j \in Jobs : j \in Sent /\ AllWords[j] = Unended <=> j \in Prepaid!Going
    BY <1>3 DEF Prepaid!Going, Prepaid!Bought, AllTerms, AllWords
  <1>5. Left' = Left
    BY <1>2 DEF Left, Slots
  <1> QED BY <1>2, <1>4, <1>5 DEF Prepaid!End, AllTerms, AllWords, Left

\* A call that begins, or a look at the health, turns away from the job that was told of.
LEMMA TurnAwayStep ==
  ASSUME TypeOK, UNCHANGED <<jobs, committed>>, News' = Quietly
  PROVE  Prepaid!TurnAway
  BY DEF Prepaid!TurnAway, Prepaid!Nothing, Quietly, TermsOf, WordOf, Sent

\* A submission that passes the checks buys a job.
LEMMA BuyStep ==
  ASSUME Inv, Inv', NEW a \in Approvals, NEW p \in Proposals, NEW b \in BudgetRecords,
         NEW o \in Operations, Submit(a, p, b, o)
  PROVE  Prepaid!Next
  <1> DEFINE t == Terms(p, b, o)
             approved == {Terms(c.proposal, c.budget, c.proposal.operation) : c \in Approvals}
  <1>0. PICK j : j = counted + 1
    OBVIOUS
  <1>1. /\ counted \in Int /\ j \in Jobs /\ j > counted
        /\ committed \in Nat /\ t.price \in Nat
    <2>1. counted \in Int /\ counted >= Baseline /\ counted + 1 <= LastSubmission
      BY ControlAssumption DEF Submit, Inv, TypeOK
    <2>2. JobWorstCase(b) \in Nat
      BY BudgetCovers DEF Submit
    <2> QED BY <1>0, <2>1, <2>2, ControlAssumption DEF Jobs, Terms, Inv, TypeOK
  <1>2. j \notin Sent /\ jobs[j] = Unsent
    <2>1. ~(j <= counted)
      BY <1>1, ControlAssumption DEF Jobs
    <2> QED BY <1>1, <2>1 DEF Inv, Approved, Sent
  <1>3. t \in approved
    BY ControlAssumption DEF Submit, MayPay, Authorizes
  <1>4. /\ committed' = committed + t.price
        /\ committed' <= Balance /\ committed' + Incurred <= MaximumSpend
    <2>1. committed' = committed + t.price /\ counted' = counted + 1
      BY DEF Submit, Terms
    <2>2. SpendWithinCap'
      <3>1. (TypeOK /\ Ledger => SpendWithinCap)'
        BY LedgerCaps, PTL
      <3> QED BY <3>1 DEF Inv
    <2>3. counted' > Baseline
      BY <2>1, ControlAssumption DEF Inv, TypeOK
    <2> QED BY <2>1, <2>2, <2>3 DEF SpendWithinCap
  <1>5. /\ jobs'[j] # Unsent /\ jobs'[j].status \notin Terminal
        /\ TermsOf(j)' = t
        /\ \A i \in Jobs \ {j} : jobs'[i] = jobs[i]
    <2>1. jobs' = [jobs EXCEPT ![j] = [status |-> "sent", output |-> "none", proposal |-> p,
                                       budget |-> b, operation |-> o]]
      BY <1>0 DEF Submit
    <2>2. jobs'[j] = [status |-> "sent", output |-> "none", proposal |-> p,
                      budget |-> b, operation |-> o]
      BY <1>1, <2>1 DEF Inv, TypeOK
    <2>3. jobs'[j].status = "sent"
      BY <2>2
    <2>4. jobs'[j] # Unsent
      BY <2>3 DEF Unsent
    <2>5. TermsOf(j)' = t
      BY <2>2, <2>4 DEF TermsOf
    <2> QED BY <1>1, <2>1, <2>3, <2>4, <2>5 DEF Inv, TypeOK, Terminal
  <1>6. AllTerms' = [AllTerms EXCEPT ![j] = t] /\ AllWords' = AllWords
    <2>1. \A i \in Jobs \ {j} : TermsOf(i)' = TermsOf(i) /\ WordOf(i)' = WordOf(i)
      BY <1>5 DEF TermsOf, WordOf
    <2>2. WordOf(j)' = Unended /\ WordOf(j) = Unended
      BY <1>2, <1>5 DEF WordOf, Unsent, Terminal
    <2> QED BY <1>1, <1>5, <2>1, <2>2 DEF AllTerms, AllWords
  <1>7. News' = Quietly
    BY DEF Submit, News, NoAnswer, Quietly
  <1>8. Left > 0 /\ Left' = Left - 1
    <2>1. IsFiniteSet(Sent)
      <3>1. IsFiniteSet(Jobs)
        BY ControlAssumption, FS_Interval DEF Jobs
      <3> QED BY <3>1, FS_Subset DEF Sent
    <2>2. Sent' = Sent \cup {j}
      BY <1>1, <1>5 DEF Sent
    <2>3. Cardinality(Sent') = Cardinality(Sent) + 1
      BY <1>2, <2>1, <2>2, FS_AddElement
    <2>4. Cardinality(Sent') <= Slots
      <3>1. (TypeOK /\ Ledger /\ Approved => PaidJobsAuthorized)'
        BY ApprovedPays, PTL
      <3> QED BY <3>1 DEF Inv, PaidJobsAuthorized
    <2>5. Cardinality(Sent) \in Int /\ Slots \in Int
      BY <2>1, FS_CardinalityType, ControlAssumption DEF Slots
    <2>6. Left' = Slots - Cardinality(Sent')
      BY DEF Left, Slots
    <2> QED BY <2>3, <2>4, <2>5, <2>6 DEF Left
  <1>9. j \notin Prepaid!Bought
    BY <1>1, <1>2, TermsAndWord DEF Prepaid!Bought, Inv
  <1> HIDE DEF t, approved
  <1>10. Prepaid!Buy(j, t)
    BY <1>1, <1>2, <1>4, <1>6, <1>7, <1>8, <1>9
    DEF Prepaid!Buy, Prepaid!Nothing, Quietly, AllTerms, AllWords, Left
  <1> QED BY <1>1, <1>3, <1>10 DEF Prepaid!Next, approved

\* What is raised about a job in a poll, by the kind of it.
LEMMA RaisesNews ==
  ASSUME TypeOK, call \in Poll, NEW kind \in Endings, Raises(kind)
  PROVE  News' = IF kind = "deadline" THEN [kind |-> "cancelled", job |-> call.job]
                 ELSE IF kind \in {"interrupted", "unconfirmed"} THEN Quietly
                 ELSE [kind |-> "ended", job |-> call.job]
  <1>1. answer'.kind = kind /\ answer'.job = call.job
    BY RaisesTypes
  <1>2. kind # "returned"
    BY DEF Endings
  <1> QED BY <1>1, <1>2 DEF News, Quietly, Endings

\* A job whose last word is known can be told of.
LEMMA TellStep ==
  ASSUME TypeOK, UNCHANGED <<jobs, committed>>, News = Quietly,
         NEW j \in Jobs, jobs[j].status \in Terminal,
         \/ News' = [kind |-> "ended", job |-> j]
         \/ /\ jobs[j].status = "CANCELLED"
            /\ News' = [kind |-> "cancelled", job |-> j]
         \/ /\ jobs[j].output # "leaky"
            /\ jobs[j].status = "COMPLETED" => jobs[j].output = Contract(jobs[j].operation)
            /\ News' = [kind |-> "result", job |-> j,
                        word |-> [status |-> jobs[j].status, output |-> jobs[j].output]]
  PROVE  Prepaid!Tell(j)
  <1>1. j \in Sent /\ jobs[j] \in Job
    BY SentTypes DEF Sent, Unsent, Terminal
  <1>2. /\ WordOf(j) = [status |-> jobs[j].status, output |-> jobs[j].output]
        /\ WordOf(j) \in LastWord /\ WordOf(j) # Unended
        /\ WordOf(j).status = jobs[j].status /\ WordOf(j).output = jobs[j].output
    BY <1>1, TermsAndWord DEF WordOf, LastWord, Job
  <1>3. TermsOf(j).operation = jobs[j].operation /\ jobs[j].operation \in Operations
    BY <1>1 DEF TermsOf, Terms, Sent, Job
  <1>4. j \in Prepaid!Bought \ Prepaid!Going
    BY <1>1, <1>2, TermsAndWord DEF Prepaid!Bought, Prepaid!Going
  <1>5. News' \in Prepaid!News(j)
    <2>1. AllWords[j] = WordOf(j) /\ AllTerms[j] = TermsOf(j)
      BY DEF AllWords, AllTerms
    <2> QED BY <1>2, <1>3, <2>1 DEF Prepaid!News, AllWords, AllTerms
  <1>6. UNCHANGED <<Left, AllTerms, committed, AllWords>>
    BY DEF Left, AllTerms, AllWords, TermsOf, WordOf, Sent
  <1> QED
    BY <1>4, <1>5, <1>6 DEF Prepaid!Tell, Prepaid!Nothing, Quietly, Left, AllTerms, AllWords

\* The cancellation of a job at its deadline, unless it is not confirmed.
LEMMA CancelStep ==
  ASSUME TypeOK, TypeOK', Cancel, Silent, ~Submits, [Next]_vars
  PROVE  News' = News \/ \E j \in Jobs : Prepaid!Cancel(j) \/ Prepaid!Tell(j)
  <1>1. call \in Poll /\ call.job \in Jobs
    BY CallTypes DEF Cancel, Poll
  <1>2. News = Quietly
    BY SilentNews DEF Cancel
  <1>3. PICK j \in Jobs : j = call.job
    BY <1>1
  <1>4. CASE /\ jobs[call.job].status \in Running
             /\ Remove(call.job, "CANCELLED", "none") /\ Raises("deadline")
    <2>1. News' = [kind |-> "cancelled", job |-> j]
      BY <1>1, <1>3, <1>4, RaisesNews DEF Endings
    <2>2. j \in Sent
      BY <1>3, <1>4 DEF Sent, Unsent, Running
    <2>3. /\ jobs'[j].status = "CANCELLED" /\ jobs'[j].output = "none"
          /\ \A i \in Jobs \ {j} : jobs'[i] = jobs[i]
      BY <1>3, <1>4, <2>2, RemoveTypes DEF Terminal, Outputs
    <2> DEFINE w == [status |-> "CANCELLED", output |-> "none"]
    <2>4. w \in {v \in LastWord : v.status = "CANCELLED"}
      BY DEF LastWord, Terminal, Outputs
    <2>5. WordOf(j)' = w /\ \A i \in Jobs \ {j} : WordOf(i)' = WordOf(i)
      BY <2>3 DEF WordOf, Terminal
    <2>6. AllWords' = [AllWords EXCEPT ![j] = w]
      BY <2>5 DEF AllWords
    <2>7. j \in Prepaid!Going
      <3>1. WordOf(j) = Unended
        BY <1>3, <1>4 DEF WordOf, Running, Terminal
      <3> QED BY <2>2, <3>1, TermsAndWord DEF Prepaid!Going, Prepaid!Bought
    <2>8. UNCHANGED <<Left, AllTerms, committed>>
      <3>1. Sent' = Sent /\ AllTerms' = AllTerms /\ committed' = committed
        BY LedgerAdvances
      <3> QED BY <3>1 DEF Left, Slots
    <2> HIDE DEF w
    <2>9. Prepaid!Cancel(j)
      BY <1>2, <2>1, <2>4, <2>6, <2>7, <2>8
      DEF Prepaid!Cancel, Prepaid!Nothing, Quietly, Left, AllTerms, AllWords
    <2> QED BY <2>9
  <1>5. CASE jobs[call.job].status = "CANCELLED" /\ UNCHANGED provider /\ Raises("deadline")
    <2>1. News' = [kind |-> "cancelled", job |-> j]
      BY <1>1, <1>3, <1>5, RaisesNews DEF Endings
    <2>2. UNCHANGED <<jobs, committed>>
      BY <1>5 DEF provider, Cancel, ledger
    <2>3. jobs[j].status \in Terminal
      BY <1>3, <1>5 DEF Terminal
    <2> QED BY <1>2, <1>3, <1>5, <2>1, <2>2, <2>3, TellStep
  <1>6. CASE Raises("unconfirmed")
    <2>1. News' = Quietly
      BY <1>1, <1>6, RaisesNews DEF Endings
    <2> QED BY <1>2, <2>1
  <1> QED BY <1>4, <1>5, <1>6 DEF Cancel

\* A terminal job that is looked at in a poll is told of.
LEMMA StatusStep ==
  ASSUME TypeOK, Approved, Status, Silent, jobs[call.job].status \in Terminal
  PROVE  \E j \in Jobs : Prepaid!Tell(j)
  <1>1. call \in Poll /\ call.job \in Jobs
    BY CallTypes DEF Status, Poll
  <1>2. News = Quietly
    BY SilentNews DEF Status
  <1>3. PICK j \in Jobs : j = call.job
    BY <1>1
  <1>4. UNCHANGED <<jobs, committed>> /\ Judge(jobs[j].status, jobs[j].output)
    BY <1>3 DEF Status, provider, ledger
  <1>5. j \in Sent
    BY <1>3 DEF Sent, Unsent, Terminal
  <1>6. CASE \E kind \in {"worker error", "refused"} : Raises(kind)
    <2>1. News' = [kind |-> "ended", job |-> j]
      BY <1>1, <1>3, <1>6, RaisesNews DEF Endings
    <2> QED BY <1>2, <1>3, <1>4, <2>1, TellStep
  <1>7. CASE /\ jobs[j].output # "leaky"
             /\ Acceptable(jobs[j].status, jobs[j].output, call.expected)
             /\ Ends([kind |-> "returned", job |-> call.job, status |-> jobs[j].status,
                      output |-> jobs[j].output])
    <2>1. News' = [kind |-> "result", job |-> j,
                   word |-> [status |-> jobs[j].status, output |-> jobs[j].output]]
      BY <1>3, <1>7 DEF Ends, News
    <2>2. jobs[j].status = "COMPLETED" => jobs[j].output = Contract(jobs[j].operation)
      BY <1>5, <1>7 DEF Acceptable, Contract, Approved
    <2> QED BY <1>2, <1>3, <1>4, <1>7, <2>1, <2>2, TellStep
  <1> QED BY <1>3, <1>4, <1>6, <1>7 DEF Judge, Endings

\* Every step is one of the ledger, or shows nothing there.
LEMMA PrepaidRefines ==
  ASSUME Inv, Inv', Silent, [Next]_vars
  PROVE  Prepaid!Next
  <1>1. CASE Submits
    BY <1>1, BuyStep DEF Submits
  <1>2. CASE ~Submits
    <2>1. TypeOK /\ TypeOK' /\ Approved
      BY DEF Inv
    <2>2. CASE News' = News
      BY <1>2, <2>1, <2>2, EndStep DEF Prepaid!Next
    <2>3. CASE UNCHANGED <<jobs, committed>> /\ News' = Quietly
      BY <2>1, <2>3, TurnAwayStep DEF Prepaid!Next
    <2>4. CASE answer' = answer
      <3>1. News' = News
        BY <2>4 DEF News
      <3> QED BY <2>2, <3>1
    <2>5. CASE Status
      <3>1. CASE jobs[call.job].status \in Terminal
        BY <2>1, <2>5, <3>1, StatusStep DEF Prepaid!Next
      <3>2. CASE jobs[call.job].status \notin Terminal
        BY <2>4, <2>5, <3>2 DEF Status
      <3> QED BY <3>1, <3>2
    <2>6. CASE Cancel
      BY <1>2, <2>1, <2>2, <2>6, CancelStep DEF Prepaid!Next
    <2>7. CASE PollInterrupted
      <3>1. call \in Poll /\ call.at # "none"
        BY <2>1, <2>7, CallTypes DEF PollInterrupted
      <3>2. News = Quietly
        BY <3>1, SilentNews
      <3>3. News' = Quietly
        BY <2>1, <2>7, <3>1, RaisesNews DEF PollInterrupted, Endings
      <3> QED BY <2>2, <3>2, <3>3
    <2>8. CASE ReadWorkers
      <3>1. answer'.kind = "health"
        BY <2>8 DEF ReadWorkers, Ends
      <3>2. News' = Quietly
        BY <3>1 DEF News, Quietly
      <3> QED BY <2>3, <2>8, <3>2 DEF ReadWorkers, provider, ledger
    <2>9. CASE ReadHealth \/ \E j \in Jobs, d \in 1..MaximumDeadline, o \in Operations :
                               StartPoll(j, d, o)
      <3>1. answer' = NoAnswer /\ UNCHANGED <<jobs, committed>>
        BY <2>9 DEF ReadHealth, StartPoll, provider, ledger
      <3>2. News' = Quietly
        BY <3>1 DEF News, NoAnswer, Quietly
      <3> QED BY <2>3, <3>1, <3>2
    <2>10. CASE AssertLock \/ SetMaximum
      <3>1. CASE HealthKnown
        <4>1. answer'.kind \in {"health", "locked"}
          BY <2>1, <2>10, <3>1, AnswerTypes DEF AssertLock, SetMaximum, Health
        <4>2. News' = Quietly
          BY <4>1 DEF News, Quietly
        <4> QED BY <2>3, <2>10, <4>2 DEF AssertLock, SetMaximum, provider, ledger
      <3>2. CASE ~HealthKnown
        BY <2>4, <2>10, <3>2 DEF AssertLock, SetMaximum, HealthKnown
      <3> QED BY <3>1, <3>2
    <2>11. CASE Controller
      BY <2>4, <2>5, <2>6, <2>7, <2>8, <2>11
      DEF Controller, Receipt, ReceiptLost, Wait, HealthFails
    <2>12. CASE Operator
      BY <1>2, <2>4, <2>9, <2>10, <2>12 DEF Operator, Submits, Purge
    <2>13. CASE Provider
      BY <2>4, <2>13 DEF Provider, Arrive, Take, Finish, Expire, Boot, Booted, Stop, Tick
    <2> QED BY <2>4, <2>11, <2>12, <2>13 DEF Next, vars
  <1> QED BY <1>1, <1>2

LEMMA InitPrepaid == ASSUME Init PROVE Prepaid!Init
  <1>1. Sent = {} /\ \A j \in Jobs : jobs[j] = Unsent
    BY DEF Init, Sent
  <1>2. \A j \in Jobs : TermsOf(j) = Unbought /\ WordOf(j) = Unended
    BY <1>1 DEF TermsOf, WordOf, Unsent, Terminal
  <1>3. News = Quietly
    BY DEF Init, News, NoAnswer, Quietly
  <1>4. Cardinality(Sent) = 0
    BY <1>1, FS_EmptySet
  <1>5. Slots - Cardinality(Sent) = Slots
    BY <1>4, ControlAssumption DEF Slots
  <1> QED BY <1>2, <1>3, <1>5 DEF Init, Prepaid!Init, Prepaid!Nothing, Quietly

\* The controller beside the queue behaves like a ledger of prepaid jobs.
THEOREM ControlRefinesPrepaid == Spec => ImplementsPrepaidJobs
  <1>1. Init => Prepaid!Init /\ Silent
    BY InitPrepaid DEF Init, Silent
  <1>2. TypeOK /\ Silent /\ [Next]_vars => Silent'
    BY SilentKept
  <1>3. Inv /\ Inv' /\ Silent /\ [Next]_vars => Prepaid!Next
    BY PrepaidRefines
  <1>4. Inv => TypeOK
    BY DEF Inv
  <1> QED BY <1>1, <1>2, <1>3, <1>4, InvHolds, PTL DEF Spec, ImplementsPrepaidJobs, Prepaid!Spec
=============================================================================
