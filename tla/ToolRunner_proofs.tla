-------------------------- MODULE ToolRunner_proofs --------------------------
(***************************************************************************)
(* What SafeSubprocessRunner promises for every pipe capacity, read size,  *)
(* output limit and behaviour of the tool.                                 *)
(*                                                                         *)
(* The invariant has four parts.  Stages says what each position of the    *)
(* thread implies for the process and the outcome.  Causes says why an     *)
(* outcome was settled.  Heard says that a stream leaves the selector only *)
(* at its true end, as long as no child holds it.  Capture says that only  *)
(* the drain after an exit reads past the limit unchecked, and only once.  *)
(***************************************************************************)
EXTENDS ToolRunner, TLAPS

InLoop == {"looping", "selecting", "polling", "draining", "reading"}
Ending == {"terminating", "stopping", "killing"}
Interrupted == {"TIMED_OUT", "OUTPUT_LIMIT_EXCEEDED"}

Stages ==
    /\ pc \in {"idle", "starting"} =>
           /\ process = "none" /\ signal = "none" /\ outcome = "none"
           /\ registered = {}
           /\ \A s \in Stream : writers[s] = {} /\ written[s] = 0 /\ buffer[s] = 0
    /\ pc \in InLoop \cup {"waiting"} => outcome = "none" /\ process # "none"
    /\ pc = "selecting" => registered # {}
    /\ pc = "draining" => process # "running"
    /\ pc \in Ending => outcome \in Interrupted /\ process # "none"
    /\ pc = "exiting" => process # "none"
    /\ pc = "exiting" /\ outcome # "none" => process # "running" /\ outcome \in Interrupted
    /\ pc \in {"exiting", "waiting"} /\ outcome = "none" => registered = {}
    /\ pc \in {"ended", "returned"} => process # "running" /\ outcome # "none"

Causes ==
    /\ outcome = "none" => signal = "none"
    /\ process = "signaled" => signal # "none"
    /\ outcome = "SUCCEEDED" => process = "zero" /\ signal = "none" /\ registered = {}
    /\ outcome = "NONZERO_EXIT" => process = "nonzero" /\ signal = "none"
    /\ outcome = "TIMED_OUT" => late \/ registered = {}
    /\ outcome = "OUTPUT_LIMIT_EXCEEDED" => \E s \in Stream : buffer[s] > MaxOutput
    /\ outcome \in {"SUCCEEDED", "NONZERO_EXIT"} => pc \in {"ended", "returned"}

Heard ==
    ~forked =>
        \A s \in Stream :
            /\ writers[s] \subseteq {"tool"}
            /\ process # "running" => writers[s] = {}
            /\ s \notin registered => writers[s] = {} /\ Piped(s) = 0
            /\ pc = "reading" /\ s \in ready => Readable(s)

Capture ==
    ~forked =>
        \A s \in Stream :
            /\ outcome = "none" /\ buffer[s] > MaxOutput =>
                   /\ process # "running" /\ pc # "polling"
                   /\ ~(pc = "draining" /\ s \in ready)
            /\ outcome = "none" => buffer[s] <= MaxOutput + ReadSize
            /\ buffer[s] <= MaxOutput + 2 * ReadSize

RunnerInv == TypeOK /\ Stages /\ Causes /\ Heard /\ Capture

-----------------------------------------------------------------------------
(* Operators *)

\* A read returns no more than the pipe holds, no more than the call asks for, and
\* something unless the pipe is empty.
LEMMA ReadsWhatIsThere ==
    ASSUME TypeOK, NEW s \in Stream
    PROVE  /\ Piped(s) \in Nat /\ Available(s) \in Nat
           /\ Available(s) <= Piped(s) /\ Available(s) <= ReadSize
           /\ Available(s) = 0 <=> Piped(s) = 0
  BY RunnerAssumption DEF TypeOK, Piped, Available

-----------------------------------------------------------------------------
(* Type correctness *)

\* The pipes of a command that was not started.
LEMMA EmptyPipes ==
    /\ [s \in Stream |-> {}] \in [Stream -> SUBSET {"tool", "child"}]
    /\ [s \in Stream |-> 0] \in [Stream -> 0..MaxWritten]
    /\ [s \in Stream |-> 0] \in [Stream -> Nat]
<1>1. 0 \in 0..MaxWritten
  BY RunnerAssumption
<1> QED BY <1>1

LEMMA TypeInit == Init => TypeOK
<1> SUFFICES ASSUME Init PROVE TypeOK
  OBVIOUS
<1>1. \A s \in Stream : buffer[s] <= written[s]
  BY DEF Init
<1> QED BY <1>1, EmptyPipes DEF Init, TypeOK, PC

LEMMA TypeOfThread ==
    ASSUME TypeOK, RunnerStep
    PROVE  TypeOK'
<1>1. ASSUME NEW next \in PC, Goto(next) PROVE TypeOK'
  BY <1>1 DEF TypeOK, Goto, tool
<1>2. ASSUME NEW next \in PC, NEW result \in CommandOutcome, Settle(result, next)
      PROVE  TypeOK'
  BY <1>2 DEF TypeOK, Settle, tool
<1>3. ASSUME NEW next \in PC, NEW name \in {"TERM", "KILL"}, Signal(name, next)
      PROVE  TypeOK'
  BY <1>3 DEF TypeOK, Signal, tool
<1>4. ASSUME NEW s \in Stream, ReadReady(s), pc' \in PC, outcome' \in CommandOutcome \cup {"none"}
      PROVE  TypeOK'
  <2>1. Available(s) \in Nat /\ buffer[s] + Available(s) <= written[s]
    BY ReadsWhatIsThere DEF TypeOK, Piped
  <2> QED BY <1>4, <2>1 DEF TypeOK, ReadReady, tool
<1>5. CASE Call
  BY <1>5, <1>1 DEF Call, PC
<1>6. CASE Start
  BY <1>6 DEF Start, TypeOK, PC
<1>7. CASE StartFails
  BY <1>7, <1>2 DEF StartFails, PC, CommandOutcome
<1>8. CASE Loop
  BY <1>8, <1>1, <1>2 DEF Loop, PC, CommandOutcome
<1>9. CASE Select
  BY <1>9 DEF Select, TypeOK, PC, tool
<1>10. CASE Poll
  <2>1. CASE Goto("looping")
    BY <2>1, <1>1 DEF PC
  <2>2. CASE ~Goto("looping")
    BY <2>2, <1>10 DEF Poll, TypeOK, PC, tool
  <2> QED BY <2>1, <2>2
<1>11. CASE NextRound
  BY <1>11, <1>1 DEF NextRound, PC
<1>12. ASSUME NEW s \in Stream, DrainOne(s) PROVE TypeOK'
  BY <1>12, <1>4 DEF DrainOne, TypeOK
<1>13. ASSUME NEW s \in Stream, ReadOne(s) PROVE TypeOK'
  BY <1>13, <1>4 DEF ReadOne, TypeOK, PC, CommandOutcome
<1>14. Verdict \in CommandOutcome
  BY DEF Verdict, TypeOK, CommandOutcome
<1>15. CASE LeaveLoop
  BY <1>15, <1>1, <1>2, <1>14 DEF LeaveLoop, PC
<1>16. CASE Waited
  BY <1>16, <1>2, <1>14 DEF Waited, PC
<1>17. CASE WaitExpires
  BY <1>17, <1>2 DEF WaitExpires, PC, CommandOutcome, TypeOK
<1>18. CASE Terminate
  BY <1>18, <1>1, <1>3 DEF Terminate, PC
<1>19. CASE Stopped
  BY <1>19, <1>1 DEF Stopped, PC
<1>20. CASE Kill
  BY <1>20, <1>3 DEF Kill, PC
<1>21. CASE KillFails
  BY <1>21, <1>1 DEF KillFails, PC
<1>22. CASE Proceed
  <2>1. CASE Goto("returned")
    BY <2>1, <1>1 DEF PC
  <2>2. CASE ~Goto("returned")
    <3>1. /\ call' = "evidence" /\ pc' = "starting" /\ forked' = FALSE
          /\ process' = "none" /\ signal' = "none" /\ registered' = {} /\ ready' = {}
          /\ outcome' = "none" /\ late' = FALSE /\ job' = job
          /\ writers' = [s \in Stream |-> {}]
          /\ written' = [s \in Stream |-> 0] /\ buffer' = [s \in Stream |-> 0]
      BY <2>2, <1>22 DEF Proceed
    <3>2. \A s \in Stream : buffer'[s] <= written'[s]
      BY <3>1
    <3> QED BY <3>1, <3>2, EmptyPipes DEF TypeOK, PC
  <2> QED BY <2>1, <2>2
<1> QED
  BY <1>5, <1>6, <1>7, <1>8, <1>9, <1>10, <1>11, <1>12, <1>13, <1>15, <1>16, <1>17,
     <1>18, <1>19, <1>20, <1>21, <1>22 DEF RunnerStep

LEMMA TypeOfTool ==
    ASSUME TypeOK, ToolStep
    PROVE  TypeOK'
<1> USE DEF TypeOK, thread
<1>1. CASE \E s \in Stream : Write(s)
  BY <1>1, RunnerAssumption DEF ToolStep, Write, Piped
<1>2. CASE \E s \in Stream : CloseStream(s)
  BY <1>2 DEF ToolStep, CloseStream
<1>3. CASE Fork
  BY <1>3 DEF ToolStep, Fork
<1>4. CASE \E how \in Ended : Gone(how)
  BY <1>4 DEF ToolStep, Gone
<1> QED
  BY <1>1, <1>2, <1>3, <1>4 DEF ToolStep, Exit, Die, Ended

\* The thread's steps, one by one.
LEMMA RunnerCases ==
    ASSUME RunnerStep
    PROVE  \/ Call \/ Start \/ StartFails \/ Loop \/ Select \/ Poll \/ NextRound
           \/ \E s \in Stream : DrainOne(s)
           \/ \E s \in Stream : ReadOne(s)
           \/ LeaveLoop \/ Waited \/ WaitExpires \/ Terminate \/ Stopped \/ Kill
           \/ KillFails \/ Proceed
  BY DEF RunnerStep

\* What starting over resets.
LEMMA ProceedCases ==
    ASSUME Proceed
    PROVE  \/ Goto("returned")
           \/ /\ pc' = "starting" /\ forked' = FALSE /\ process' = "none"
              /\ signal' = "none" /\ registered' = {} /\ outcome' = "none"
              /\ writers' = [s \in Stream |-> {}]
              /\ written' = [s \in Stream |-> 0] /\ buffer' = [s \in Stream |-> 0]
  BY DEF Proceed

\* The tool touches nothing of the thread, and acts only between its start and the
\* report; its process may end, by a signal only if one was sent.
LEMMA ToolFrame ==
    ASSUME TypeOK, Stages, ToolStep
    PROVE  /\ pc \notin {"idle", "starting", "ended", "returned"}
           /\ UNCHANGED thread /\ late' = late
           /\ \/ process' = process
              \/ /\ process = "running" /\ process' \in Ended
                 /\ process' = "signaled" => signal # "none"
<1>1. CASE \E s \in Stream : Write(s) \/ CloseStream(s)
  BY <1>1 DEF ToolStep, Write, CloseStream, Stages, Observed
<1>2. CASE Fork
  BY <1>2 DEF ToolStep, Fork, Stages, Observed
<1>3. CASE Exit
  BY <1>3 DEF ToolStep, Exit, Gone, Ended, Stages, Observed
<1>4. CASE Die
  BY <1>4 DEF ToolStep, Die, Gone, Ended, Stages, Observed
<1> QED BY <1>1, <1>2, <1>3, <1>4 DEF ToolStep

\* Every step is one of these.
LEMMA StepCases ==
    ASSUME [Next]_vars
    PROVE  \/ ToolStep \/ RunnerStep
           \/ Deadline
           \/ UNCHANGED vars
  BY DEF Next, Done

-----------------------------------------------------------------------------
(* Stages *)

LEMMA StagesOfThread ==
    ASSUME TypeOK, Stages, RunnerStep
    PROVE  Stages'
<1> USE DEF Stages, InLoop, Ending, Interrupted
<1>1. CASE Call
  BY <1>1 DEF Call, Goto, tool
<1>2. CASE Start
  BY <1>2 DEF Start
<1>3. CASE StartFails
  BY <1>3 DEF StartFails, Settle, tool
<1>4. CASE Loop
  BY <1>4 DEF Loop, Goto, Settle, tool
<1>5. CASE Select
  <2>1. pc' \in {"polling", "reading"} /\ outcome' = outcome /\ process' = process
    BY <1>5 DEF Select, tool
  <2> QED BY <2>1, <1>5 DEF Select
<1>6. CASE Poll
  BY <1>6 DEF Poll, Goto, tool
<1>7. CASE NextRound
  BY <1>7 DEF NextRound, Goto, tool
<1>8. ASSUME NEW s \in Stream, DrainOne(s) PROVE Stages'
  BY <1>8 DEF DrainOne, ReadReady, tool
<1>9. ASSUME NEW s \in Stream, ReadOne(s) PROVE Stages'
  BY <1>9 DEF ReadOne, ReadReady, tool
<1>10. Verdict # "none"
  BY DEF Verdict
<1>11. CASE LeaveLoop
  BY <1>11, <1>10 DEF LeaveLoop, Goto, Settle, tool
<1>12. CASE Waited
  BY <1>12, <1>10 DEF Waited, Settle, tool
<1>13. CASE WaitExpires
  BY <1>13 DEF WaitExpires, Settle, tool
<1>14. CASE Terminate
  BY <1>14 DEF Terminate, Goto, Signal, tool
<1>15. CASE Stopped
  BY <1>15 DEF Stopped, Goto, tool, TypeOK
<1>16. CASE Kill
  BY <1>16 DEF Kill, Signal, tool
<1>17. CASE KillFails
  BY <1>17 DEF KillFails, Goto, tool
<1>18. CASE Proceed
  <2>1. CASE Goto("returned")
    BY <2>1, <1>18 DEF Goto, Proceed, tool
  <2>2. CASE ~Goto("returned")
    BY <2>2, <1>18, ProceedCases
  <2> QED BY <2>1, <2>2
<1> QED
  BY RunnerCases, <1>1, <1>2, <1>3, <1>4, <1>5, <1>6, <1>7, <1>8, <1>9, <1>11, <1>12,
     <1>13, <1>14, <1>15, <1>16, <1>17, <1>18

LEMMA StagesStep ==
    ASSUME TypeOK, Stages, [Next]_vars
    PROVE  Stages'
<1>1. CASE ToolStep
  BY <1>1, ToolFrame DEF Stages, thread, Ended, InLoop, Ending
<1>2. CASE Deadline \/ UNCHANGED vars
  BY <1>2 DEF Deadline, Stages, vars, thread, tool
<1> QED BY <1>1, <1>2, StagesOfThread, StepCases

-----------------------------------------------------------------------------
(* Causes *)

LEMMA CausesStep ==
    ASSUME TypeOK, Stages, Causes, [Next]_vars
    PROVE  Causes'
<1> USE DEF Causes, Stages, InLoop, Ending, Interrupted
<1>1. CASE ToolStep
  BY <1>1, ToolFrame DEF thread
<1>2. CASE Deadline \/ UNCHANGED vars
  BY <1>2 DEF Deadline, vars, thread, tool
<1>3. CASE Call \/ NextRound \/ Stopped \/ KillFails \/ Goto("returned")
  BY <1>3 DEF Call, NextRound, Stopped, KillFails, Goto, tool, TypeOK
<1>4. CASE Start
  BY <1>4 DEF Start
<1>5. CASE StartFails
  BY <1>5 DEF StartFails, Settle, tool
<1>6. CASE Loop
  BY <1>6 DEF Loop, Goto, Settle, tool
<1>7. CASE Select \/ Poll
  BY <1>7 DEF Select, Poll, Goto, tool
<1>8. ASSUME NEW s \in Stream, DrainOne(s) PROVE Causes'
  BY <1>8 DEF DrainOne, ReadReady, tool
<1>9. ASSUME NEW s \in Stream, ReadOne(s) PROVE Causes'
  BY <1>9 DEF ReadOne, ReadReady, tool
<1>10. ASSUME pc \in {"exiting", "waiting"}, process # "running", Settle(Verdict, "ended")
       PROVE  Causes'
  <2>1. CASE outcome = "none"
    BY <2>1, <1>10 DEF Settle, Verdict, tool, TypeOK, Ended
  <2>2. CASE outcome # "none"
    BY <2>2, <1>10 DEF Settle, Verdict, tool
  <2> QED BY <2>1, <2>2
<1>11. CASE LeaveLoop
  <2>1. CASE Goto("waiting")
    BY <2>1, <1>11 DEF LeaveLoop, Goto, tool
  <2> QED BY <2>1, <1>10, <1>11 DEF LeaveLoop
<1>12. CASE Waited
  BY <1>12, <1>10 DEF Waited
<1>13. CASE WaitExpires
  BY <1>13 DEF WaitExpires, Settle, tool
<1>14. CASE Terminate
  BY <1>14 DEF Terminate, Goto, Signal, tool
<1>15. CASE Kill
  BY <1>15 DEF Kill, Signal, tool
<1>16. CASE Proceed
  <2>1. CASE ~Goto("returned")
    BY <2>1, <1>16, ProceedCases
  <2> QED BY <2>1, <1>3
<1> QED
  BY StepCases, RunnerCases, <1>1, <1>2, <1>3, <1>4, <1>5, <1>6, <1>7, <1>8, <1>9,
     <1>11, <1>12, <1>13, <1>14, <1>15, <1>16

-----------------------------------------------------------------------------
(* Heard *)

LEMMA HeardStep ==
    ASSUME TypeOK, Stages, Heard, [Next]_vars
    PROVE  Heard'
<1> USE DEF Heard
<1>1. CASE ToolStep
  <2>1. CASE \E s \in Stream : Write(s)
    <3>1. PICK t \in Stream : Write(t)
      BY <2>1
    <3>2. /\ written' = [written EXCEPT ![t] = @ + 1] /\ writers[t] # {}
          /\ UNCHANGED <<forked, process, writers, pc, buffer, registered, ready>>
      BY <3>1, <1>1 DEF ToolStep, Write, thread
    <3>3. \A s \in Stream : Readable(s) => Readable(s)'
      BY <3>2 DEF Readable, Piped, TypeOK
    <3>4. \A s \in Stream : s # t => Piped(s)' = Piped(s)
      BY <3>2 DEF Piped, TypeOK
    <3> QED BY <3>2, <3>3, <3>4
  <2>2. CASE \E s \in Stream : CloseStream(s)
    <3>1. /\ UNCHANGED <<forked, process, written, pc, buffer, registered, ready>>
          /\ \A s \in Stream : writers'[s] \subseteq writers[s]
      BY <2>2, <1>1 DEF ToolStep, CloseStream, thread, TypeOK
    <3> QED BY <3>1 DEF Readable, Piped
  <2>3. CASE Fork
    BY <2>3 DEF Fork
  <2>4. CASE \E how \in Ended : Gone(how)
    <3>1. /\ UNCHANGED <<forked, written, pc, buffer, registered, ready>>
          /\ writers' = [s \in Stream |-> writers[s] \ {"tool"}]
      BY <2>4, <1>1 DEF ToolStep, Gone, thread
    <3>2. \A s \in Stream : Readable(s) => Readable(s)'
      BY <3>1 DEF Readable, Piped
    <3>3. \A s \in Stream : Piped(s)' = Piped(s)
      BY <3>1 DEF Piped
    <3>4. \A s \in Stream : writers'[s] \subseteq writers[s] /\ "tool" \notin writers'[s]
      BY <3>1
    <3> QED BY <3>1, <3>2, <3>3, <3>4
  <2> QED BY <1>1, <2>1, <2>2, <2>3, <2>4 DEF ToolStep, Exit, Die, Ended
<1>2. ASSUME UNCHANGED <<tool, buffer, registered, ready>>, pc' # "reading"
      PROVE  Heard'
  BY <1>2 DEF tool, Piped
<1>3. CASE Deadline \/ UNCHANGED vars
  BY <1>3 DEF Deadline, vars, tool, thread, Piped, Readable
<1>4. CASE \/ Call \/ StartFails \/ Loop \/ NextRound \/ LeaveLoop \/ Waited
           \/ WaitExpires \/ Terminate \/ Stopped \/ Kill \/ KillFails \/ Goto("returned")
  BY <1>4, <1>2 DEF Call, StartFails, Loop, NextRound, LeaveLoop, Waited, WaitExpires,
     Terminate, Stopped, Kill, KillFails, Goto, Settle, Signal
<1>5. CASE Start
  BY <1>5 DEF Start
<1>6. CASE Select
  BY <1>6 DEF Select, tool, Piped, Readable
<1>7. CASE Poll
  BY <1>7, <1>2 DEF Poll, Goto, tool, Piped
<1>8. ASSUME NEW s \in Stream, ReadReady(s), pc' # "reading" \/ pc' = pc,
             ~forked /\ Available(s) = 0 => writers[s] = {}
      PROVE  Heard'
  <2>1. /\ buffer' = [buffer EXCEPT ![s] = @ + Available(s)]
        /\ registered' = IF Available(s) = 0 THEN registered \ {s} ELSE registered
        /\ ready' = ready \ {s}
        /\ UNCHANGED tool
    BY <1>8 DEF ReadReady
  <2>2. \A t \in Stream : t # s => Piped(t)' = Piped(t) /\ (Readable(t)' <=> Readable(t))
    BY <2>1 DEF Piped, Readable, TypeOK, tool
  <2>3. Piped(s)' = Piped(s) - Available(s)
    BY <2>1, ReadsWhatIsThere DEF Piped, TypeOK, tool
  <2>4. Piped(s) = 0 => Piped(s)' = 0 /\ Available(s) = 0
    BY <2>3, ReadsWhatIsThere
  <2>5. Available(s) = 0 => Piped(s) = 0 /\ Piped(s)' = 0
    BY <2>3, ReadsWhatIsThere
  <2> QED BY <1>8, <2>1, <2>2, <2>4, <2>5 DEF tool
<1>9. ASSUME NEW s \in Stream, DrainOne(s) PROVE Heard'
  BY <1>9, <1>8 DEF DrainOne, Stages
<1>10. ASSUME NEW s \in Stream, ReadOne(s) PROVE Heard'
  <2>1. ~forked /\ Available(s) = 0 => writers[s] = {}
    BY <1>10, ReadsWhatIsThere DEF ReadOne, Readable
  <2> QED BY <2>1, <1>10, <1>8 DEF ReadOne
<1>11. CASE Proceed
  <2>1. CASE ~Goto("returned")
    <3>1. /\ pc' = "starting" /\ process' = "none"
          /\ writers' = [s \in Stream |-> {}]
          /\ written' = [s \in Stream |-> 0] /\ buffer' = [s \in Stream |-> 0]
      BY <2>1, <1>11, ProceedCases
    <3>2. \A s \in Stream : Piped(s)' = 0 /\ writers'[s] = {}
      BY <3>1 DEF Piped
    <3> QED BY <3>1, <3>2
  <2> QED BY <2>1, <1>4
<1> QED
  BY StepCases, RunnerCases, <1>1, <1>3, <1>4, <1>5, <1>6, <1>7, <1>9, <1>10, <1>11

-----------------------------------------------------------------------------
(* Capture *)

LEMMA CaptureStep ==
    ASSUME TypeOK, Stages, Heard, Capture, [Next]_vars
    PROVE  Capture'
<1> USE RunnerAssumption DEF Capture
<1>1. CASE ToolStep
  BY <1>1, ToolFrame DEF ToolStep, Write, CloseStream, Fork, Exit, Die, Gone, thread
<1>2. CASE Deadline \/ UNCHANGED vars
  BY <1>2 DEF Deadline, vars, tool, thread
<1>3. ASSUME UNCHANGED <<tool, buffer>>, outcome' = outcome \/ outcome' # "none",
             pc' \notin {"polling", "draining"} \/ outcome' # "none"
      PROVE  Capture'
  BY <1>3 DEF tool
<1>4. CASE Call \/ NextRound \/ Stopped \/ KillFails \/ Goto("returned")
  BY <1>4, <1>3 DEF Call, NextRound, Stopped, KillFails, Goto
<1>5. CASE StartFails \/ Loop
  BY <1>5, <1>3 DEF StartFails, Loop, Goto, Settle
<1>6. Verdict # "none"
  BY DEF Verdict
<1>7. CASE LeaveLoop \/ Waited \/ WaitExpires \/ Terminate \/ Kill
  BY <1>7, <1>3, <1>6 DEF LeaveLoop, Waited, WaitExpires, Terminate, Kill, Goto, Settle,
     Signal
<1>8. CASE Start
  <2>1. \A s \in Stream : buffer'[s] = 0
    BY <1>8 DEF Start, Stages
  <2> QED BY <2>1
<1>9. CASE Select
  <2>1. CASE pc' = "reading"
    BY <2>1, <1>9, <1>3 DEF Select
  <2>2. CASE pc' # "reading"
    \* nobody writes to the streams of a tool that has ended, so there are events
    <3>1. \A s \in registered : ~Readable(s)
      BY <2>2, <1>9 DEF Select
    <3>2. registered # {} /\ registered \subseteq Stream
      BY <1>9 DEF Select, Stages, TypeOK
    <3>3. ~forked => process = "running"
      BY <3>1, <3>2 DEF Heard, Readable
    <3> QED BY <3>3, <1>9, <2>2 DEF Select, tool
  <2> QED BY <2>1, <2>2
<1>10. CASE Poll
  <2>1. CASE Goto("looping")
    BY <2>1, <1>3 DEF Goto
  <2>2. CASE ~Goto("looping")
    BY <2>2, <1>10 DEF Poll, tool
  <2> QED BY <2>1, <2>2
<1>11. ASSUME NEW s \in Stream, DrainOne(s) PROVE Capture'
  <2>1. /\ buffer' = [buffer EXCEPT ![s] = @ + Available(s)]
        /\ ready' = ready \ {s} /\ s \in ready /\ pc = "draining"
        /\ UNCHANGED <<forked, process, pc, outcome>>
    BY <1>11 DEF DrainOne, ReadReady, tool
  <2>2. process # "running" /\ outcome = "none"
    BY <2>1 DEF Stages, InLoop
  <2>3. ~forked => buffer[s] <= MaxOutput /\ buffer'[s] <= MaxOutput + ReadSize
    BY <2>1, <2>2, ReadsWhatIsThere DEF TypeOK
  <2>4. \A t \in Stream : t # s => buffer'[t] = buffer[t]
    BY <2>1 DEF TypeOK
  <2>5. buffer'[s] \in Nat
    BY <2>1, ReadsWhatIsThere DEF TypeOK
  <2>6. ~forked => buffer'[s] <= MaxOutput + 2 * ReadSize
    BY <2>3, <2>5
  <2> QED BY <2>1, <2>2, <2>3, <2>4, <2>6
<1>12. ASSUME NEW s \in Stream, ReadOne(s) PROVE Capture'
  <2>1. /\ buffer' = [buffer EXCEPT ![s] = @ + Available(s)]
        /\ ready' = ready \ {s} /\ pc = "reading"
        /\ UNCHANGED <<forked, process>>
    BY <1>12 DEF ReadOne, ReadReady, tool
  <2>2. outcome = "none"
    BY <2>1 DEF Stages, InLoop
  <2>3. /\ \A t \in Stream : t # s => buffer'[t] = buffer[t]
        /\ buffer'[s] = buffer[s] + Available(s) /\ buffer'[s] \in Nat
    BY <2>1, ReadsWhatIsThere DEF TypeOK
  <2>4. ~forked => buffer'[s] <= MaxOutput + 2 * ReadSize
    BY <2>2, <2>3, ReadsWhatIsThere DEF TypeOK
  <2>5. CASE outcome' = "OUTPUT_LIMIT_EXCEEDED"
    BY <2>1, <2>3, <2>4, <2>5
  <2>6. CASE outcome' # "OUTPUT_LIMIT_EXCEEDED"
    <3>1. /\ outcome' = outcome /\ pc' = pc
          /\ Available(s) = 0 \/ buffer'[s] <= MaxOutput
      BY <2>6, <1>12 DEF ReadOne
    <3>2. CASE Available(s) = 0
      BY <3>1, <3>2, <2>1, <2>3 DEF TypeOK
    <3>3. CASE buffer'[s] <= MaxOutput
      BY <3>1, <3>3, <2>1, <2>3, <2>4
    <3> QED BY <3>1, <3>2, <3>3
  <2> QED BY <2>5, <2>6
<1>13. CASE Proceed
  <2>1. CASE ~Goto("returned")
    <3>1. \A s \in Stream : buffer'[s] = 0
      BY <2>1, <1>13, ProceedCases
    <3> QED BY <3>1
  <2> QED BY <2>1, <1>4
<1> QED
  BY StepCases, RunnerCases, <1>1, <1>2, <1>4, <1>5, <1>7, <1>8, <1>9, <1>10, <1>11,
     <1>12, <1>13

-----------------------------------------------------------------------------
(* The invariant and what follows *)

LEMMA RunnerInvInit == Init => RunnerInv
<1> SUFFICES ASSUME Init PROVE RunnerInv
  OBVIOUS
<1>1. TypeOK
  BY TypeInit
<1>2. \A s \in Stream : writers[s] = {} /\ written[s] = 0 /\ buffer[s] = 0
  BY DEF Init
<1>3. Stages
  BY <1>2 DEF Init, Stages, InLoop, Ending
<1>4. Causes
  BY DEF Init, Causes
<1>5. Heard
  BY <1>2 DEF Init, Heard, Piped
<1>6. Capture
  BY <1>2, RunnerAssumption DEF Init, Capture
<1> QED BY <1>1, <1>3, <1>4, <1>5, <1>6 DEF RunnerInv

LEMMA RunnerInvStep == RunnerInv /\ [Next]_vars => RunnerInv'
<1> SUFFICES ASSUME RunnerInv, [Next]_vars PROVE RunnerInv'
  OBVIOUS
<1>1. TypeOK'
  <2>1. CASE Deadline \/ UNCHANGED vars
    BY <2>1 DEF Deadline, vars, tool, thread, RunnerInv, TypeOK
  <2> QED BY <2>1, TypeOfTool, TypeOfThread, StepCases DEF RunnerInv
<1> QED
  BY <1>1, StagesStep, CausesStep, HeardStep, CaptureStep DEF RunnerInv

\* Every variable keeps its type; no stream yields more than was written to it.
THEOREM TypeCorrect == Spec => []TypeOK
<1>1. RunnerInv => TypeOK
  BY DEF RunnerInv
<1> QED BY <1>1, RunnerInvInit, RunnerInvStep, PTL DEF Spec

\* No command is reported while its tool still runs.
THEOREM ToolIsDead == Spec => []DeadOnReturn
<1>1. RunnerInv => DeadOnReturn
  BY DEF RunnerInv, Stages, DeadOnReturn, Reported
<1> QED BY <1>1, RunnerInvInit, RunnerInvStep, PTL DEF Spec

\* The reported outcome is what happened to the tool and to the thread.
THEOREM OutcomeTrue == Spec => []OutcomeIsTrue
<1>1. RunnerInv => OutcomeIsTrue
  BY DEF RunnerInv, Stages, Causes, OutcomeIsTrue, Reported
<1> QED BY <1>1, RunnerInvInit, RunnerInvStep, PTL DEF Spec

\* A success was read to its end unless a child of the tool held the streams.
THEOREM SuccessIsComplete == Spec => []SuccessReadsAll
<1>1. ASSUME RunnerInv PROVE SuccessReadsAll
  <2> SUFFICES ASSUME Reported, outcome = "SUCCEEDED", ~forked
               PROVE  buffer = written
    BY DEF SuccessReadsAll
  <2>1. \A s \in Stream : Piped(s) = 0
    BY <1>1 DEF RunnerInv, Causes, Heard
  <2>2. \A s \in Stream : buffer[s] = written[s]
    BY <1>1, <2>1 DEF RunnerInv, TypeOK, Piped
  <2> QED BY <1>1, <2>2 DEF RunnerInv, TypeOK
<1> QED BY <1>1, RunnerInvInit, RunnerInvStep, PTL DEF Spec

\* At most two reads past the limit are ever held, for any limit and read size.
THEOREM BoundedCapture == Spec => []CaptureBounded
<1>1. RunnerInv => CaptureBounded
  BY DEF RunnerInv, Capture, CaptureBounded
<1> QED BY <1>1, RunnerInvInit, RunnerInvStep, PTL DEF Spec

-----------------------------------------------------------------------------
(* How long a command goes on.                                             *)

\* Where the thread is says how many steps are left, but for the streams it has yet to
\* read and for an outcome that is already settled.
Distances ==
    /\ pc = "starting" => StepsLeft = 13
    /\ pc = "selecting" => StepsLeft = 12
    /\ pc = "polling" => StepsLeft = 11
    /\ pc \in {"draining", "reading"} => StepsLeft = 8 + Unread
    /\ pc = "looping" => StepsLeft = 7
    /\ pc = "exiting" /\ outcome = "none" => StepsLeft = 6
    /\ pc = "exiting" /\ outcome # "none" => StepsLeft = 1
    /\ pc = "waiting" => StepsLeft = 5
    /\ pc = "terminating" => StepsLeft = 4
    /\ pc = "stopping" => StepsLeft = 3
    /\ pc = "killing" => StepsLeft = 2
    /\ pc \in {"idle", "ended", "returned", "raised"} => StepsLeft = 0
    /\ Unread \in 0..2

LEMMA DistancesAre == Distances
<1>1. Unread \in 0..2
  BY DEF Unread
<1> QED BY <1>1 DEF StepsLeft, Distances

LEMMA DistancesNext == Distances'
  BY DistancesAre, PTL

\* While a command is under way at least its report is left, and never more than a start
\* is away from it.
LEMMA StepsAreFew ==
    ASSUME TypeOK, Observed
    PROVE  StepsLeft \in 1..13
<1>1. pc \in PC \ {"idle", "ended", "returned", "raised"}
  BY DEF TypeOK, Observed
<1> QED BY <1>1, DistancesAre DEF Distances, PC

\* Reading a stream takes one from those that are unread.
LEMMA ReadingCounts ==
    ASSUME NEW s \in Stream, s \in ready, ready' = ready \ {s}
    PROVE  Unread' = Unread - 1
  BY DEF Stream, Unread

\* Whatever the thread does when its time is up brings it nearer to the end.
LEMMA ThreadNearer ==
    ASSUME RunnerInv, late, Observed, RunnerStep
    PROVE  StepsLeft' \in Nat /\ StepsLeft' < StepsLeft
<1> USE DistancesAre, DistancesNext DEF Observed
<1>1. CASE Start
  BY <1>1 DEF Start, Distances
<1>2. CASE StartFails
  BY <1>2 DEF StartFails, Settle, Distances
<1>3. CASE Loop
  <2>1. CASE registered = {} /\ Goto("exiting")
    <3>1. pc = "looping" /\ pc' = "exiting" /\ outcome' = "none"
      BY <1>3, <2>1 DEF Loop, Goto, RunnerInv, Stages, InLoop
    <3> QED BY <3>1 DEF Distances
  <2>2. CASE Settle("TIMED_OUT", "terminating")
    BY <1>3, <2>2 DEF Loop, Settle, Distances
  <2> QED BY <1>3, <2>1, <2>2 DEF Loop
<1>4. CASE Select
  <2>1. pc = "selecting" /\ pc' \in {"polling", "reading"}
    BY <1>4 DEF Select
  <2> QED BY <2>1 DEF Distances
<1>5. CASE Poll
  <2>1. pc = "polling" /\ pc' \in {"looping", "draining"}
    BY <1>5 DEF Poll, Goto
  <2> QED BY <2>1 DEF Distances
<1>6. CASE NextRound
  <2>1. pc \in {"reading", "draining"} /\ pc' = "looping"
    BY <1>6 DEF NextRound, Goto
  <2> QED BY <2>1 DEF Distances
<1>7. ASSUME NEW s \in Stream, DrainOne(s) PROVE StepsLeft' \in Nat /\ StepsLeft' < StepsLeft
  <2>1. pc = "draining" /\ pc' = "draining" /\ Unread' = Unread - 1
    BY <1>7, ReadingCounts DEF DrainOne, ReadReady
  <2> QED BY <2>1 DEF Distances
<1>8. ASSUME NEW s \in Stream, ReadOne(s) PROVE StepsLeft' \in Nat /\ StepsLeft' < StepsLeft
  <2>1. pc = "reading" /\ pc' \in {"reading", "terminating"} /\ Unread' = Unread - 1
    BY <1>8, ReadingCounts DEF ReadOne, ReadReady
  <2> QED BY <2>1 DEF Distances
<1>9. CASE LeaveLoop
  <2>1. pc = "exiting" /\ pc' \in {"waiting", "ended"}
    BY <1>9 DEF LeaveLoop, Goto, Settle
  <2>2. pc' = "waiting" => outcome = "none"
    BY <1>9, <2>1 DEF LeaveLoop, Settle, RunnerInv, Stages
  <2> QED BY <2>1, <2>2 DEF Distances
<1>10. CASE Waited
  BY <1>10 DEF Waited, Settle, Distances
<1>11. CASE WaitExpires
  BY <1>11 DEF WaitExpires, Settle, Distances
<1>12. CASE Terminate
  <2>1. pc = "terminating" /\ pc' \in {"exiting", "stopping"}
    BY <1>12 DEF Terminate, Goto, Signal
  <2>2. pc' = "exiting" => outcome' # "none"
    BY <1>12, <2>1 DEF Terminate, Goto, Signal, RunnerInv, Stages, Ending, Interrupted
  <2> QED BY <2>1, <2>2 DEF Distances
<1>13. CASE Stopped
  <2>1. pc \in {"stopping", "killing"} /\ pc' = "exiting"
    BY <1>13 DEF Stopped, Goto
  <2>2. outcome' # "none"
    BY <1>13, <2>1 DEF Stopped, Goto, RunnerInv, Stages, Ending, Interrupted
  <2> QED BY <2>1, <2>2 DEF Distances
<1>14. CASE Kill
  BY <1>14 DEF Kill, Signal, Distances
<1>15. CASE KillFails
  BY <1>15 DEF KillFails, Goto, Distances
<1>16. ~Call /\ ~Proceed
  BY DEF Call, Proceed
<1> QED BY <1>1, <1>2, <1>3, <1>4, <1>5, <1>6, <1>7, <1>8, <1>9, <1>10, <1>11, <1>12,
           <1>13, <1>14, <1>15, <1>16, RunnerCases

\* A command whose time is up ends within a number of steps that the tool cannot raise.
THEOREM LateCommandsEnd == Spec => EndsOnceLate
<1> DEFINE Nearer == late /\ Observed =>
                        /\ StepsLeft \in 1..13 /\ StepsLeft' \in 0..StepsLeft
                        /\ RunnerStep => StepsLeft' < StepsLeft
<1>1. ASSUME RunnerInv, [Next]_vars PROVE Nearer
  <2> SUFFICES ASSUME late, Observed
               PROVE  /\ StepsLeft \in 1..13 /\ StepsLeft' \in 0..StepsLeft
                      /\ RunnerStep => StepsLeft' < StepsLeft
    OBVIOUS
  <2>1. StepsLeft \in 1..13
    BY <1>1, StepsAreFew DEF RunnerInv
  <2>2. CASE RunnerStep
    BY <1>1, <2>1, <2>2, ThreadNearer
  <2>3. CASE ~RunnerStep
    <3>1. UNCHANGED thread
      BY <1>1, <2>3, StepCases, ToolFrame DEF Deadline, vars, RunnerInv
    <3>2. StepsLeft' = StepsLeft
      BY <3>1 DEF thread, StepsLeft, Unread
    <3> QED BY <2>1, <2>3, <3>2
  <2> QED BY <2>2, <2>3
<1>2. RunnerInv /\ [Next]_vars => [Nearer]_vars
  BY <1>1
<1> QED BY <1>2, RunnerInvInit, RunnerInvStep, PTL DEF Spec, EndsOnceLate

-----------------------------------------------------------------------------
(* The call that the adapters rely on *)

\* What a call has done of its two commands: the evidence is only read by run, and an
\* outcome without a tool is one of a tool that could not be started.
Commands ==
    /\ call = "evidence" => job = "run"
    /\ pc = "idle" => call = "version"
    /\ outcome \in {"EXECUTABLE_MISSING", "START_FAILED"} =>
           pc \in {"ended", "returned"} /\ process = "none"
    /\ pc \in {"ended", "returned"} /\ process = "none" =>
           outcome \in {"EXECUTABLE_MISSING", "START_FAILED"}
    /\ pc = "killing" => process # "none"

LEMMA CommandsInit == Init => Commands
  BY DEF Init, Commands

LEMMA CommandsStep ==
    ASSUME TypeOK, Stages, Commands, [Next]_vars
    PROVE  Commands'
<1> USE DEF Commands, Stages, InLoop, Ending, Interrupted
<1>1. CASE ToolStep
  <2>1. /\ UNCHANGED <<job, call, pc, outcome>>
        /\ pc \notin {"idle", "ended", "returned"}
        /\ process' = process \/ process' \in Ended
    BY <1>1, ToolFrame DEF thread
  <2> QED BY <2>1 DEF Ended
<1>2. CASE Deadline \/ UNCHANGED vars
  BY <1>2 DEF Deadline, vars, thread, tool
<1>3. CASE Call \/ NextRound \/ Stopped \/ KillFails
  BY <1>3 DEF Call, NextRound, Stopped, KillFails, Goto, tool, TypeOK
<1>4. CASE Start
  BY <1>4 DEF Start
<1>5. CASE StartFails
  BY <1>5 DEF StartFails, Settle, tool
<1>6. CASE Loop
  BY <1>6 DEF Loop, Goto, Settle, tool
<1>7. CASE Select \/ Poll
  BY <1>7 DEF Select, Poll, Goto, tool
<1>8. ASSUME NEW s \in Stream, DrainOne(s) PROVE Commands'
  BY <1>8 DEF DrainOne, ReadReady, tool
<1>9. ASSUME NEW s \in Stream, ReadOne(s) PROVE Commands'
  BY <1>9 DEF ReadOne, ReadReady, tool
<1>10. ASSUME pc \in {"exiting", "waiting"}, process # "running", Settle(Verdict, "ended")
       PROVE  Commands'
  <2>1. Verdict \notin {"EXECUTABLE_MISSING", "START_FAILED"} /\ process # "none"
    BY <1>10 DEF Verdict
  <2> QED BY <1>10, <2>1 DEF Settle, tool
<1>11. CASE LeaveLoop
  <2>1. CASE Goto("waiting")
    BY <2>1, <1>11 DEF LeaveLoop, Goto, tool
  <2> QED BY <2>1, <1>10, <1>11 DEF LeaveLoop
<1>12. CASE Waited
  BY <1>12, <1>10 DEF Waited
<1>13. CASE WaitExpires
  BY <1>13 DEF WaitExpires, Settle, tool
<1>14. CASE Terminate
  BY <1>14 DEF Terminate, Goto, Signal, tool
<1>15. CASE Kill
  BY <1>15 DEF Kill, Signal, tool
<1>16. CASE Proceed
  <2>1. CASE ~Goto("returned")
    <3>1. pc' = "starting" /\ job = "run" /\ job' = job /\ outcome' = "none"
      BY <2>1, <1>16 DEF Proceed
    <3> QED BY <3>1
  <2>2. CASE Goto("returned")
    BY <2>2, <1>16 DEF Proceed, Goto, tool
  <2> QED BY <2>1, <2>2
<1> QED
  BY StepCases, RunnerCases, <1>1, <1>2, <1>3, <1>4, <1>5, <1>6, <1>7, <1>8, <1>9,
     <1>11, <1>12, <1>13, <1>14, <1>15, <1>16

Silent == pc \notin {"returned", "raised"}

LEMMA NotAnsweredYet ==
    /\ Silent => Answered = Calls!NoAnswer
    /\ (Silent => Answered = Calls!NoAnswer)'
<1>1. Silent => Answered = Calls!NoAnswer
  BY DEF Silent, Answered, Calls!NoAnswer
<1> QED BY <1>1, PTL

\* A step that keeps the tool and the command, and answers nothing, is none of the call.
LEMMA StuttersInSilence ==
    ASSUME Silent, Silent', UNCHANGED <<job, process, call>>
    PROVE  UNCHANGED Calls!vars
<1>1. Answered = Calls!NoAnswer /\ Answered' = Calls!NoAnswer
  BY NotAnsweredYet
<1>2. Answered' = Answered
  BY <1>1 DEF Calls!NoAnswer
<1> QED BY <1>2 DEF Calls!vars

LEMMA ToolIsInCall ==
    ASSUME TypeOK, Stages, ToolStep
    PROVE  [Calls!Next]_(Calls!vars)
<1>1. Silent /\ Silent' /\ UNCHANGED <<job, call>>
  BY ToolFrame DEF ToolStep, Observed, Silent, thread
<1>2. CASE process' = process
  BY <1>1, <1>2, StuttersInSilence
<1>3. CASE process = "running" /\ process' \in Ended
  <2>1. Answered = Calls!NoAnswer /\ Answered' = Calls!NoAnswer
    BY <1>1, NotAnsweredYet
  <2>2. Calls!End
    BY <1>1, <1>3, <2>1 DEF Calls!End, Calls!Ended, Ended, Calls!NoAnswer
  <2> QED BY <2>2 DEF Calls!Next
<1> QED BY <1>2, <1>3, ToolFrame

\* What is answered fits the tool and the command it is about.
LEMMA ReturnIsAnswer ==
    ASSUME TypeOK, Stages, Causes, Commands, Proceed, Goto("returned")
    PROVE  Calls!Answer
<1>1. /\ pc = "ended" /\ UNCHANGED <<job, process, call, outcome>> /\ pc' = "returned"
      /\ ~(job = "run" /\ call = "version" /\ outcome # "EXECUTABLE_MISSING")
  BY DEF Proceed, Goto, tool
<1>2. Answered = Calls!NoAnswer
  BY <1>1, NotAnsweredYet DEF Silent
<1>3. PICK known \in BOOLEAN :
        known <=> IF job = "run" THEN call = "evidence" ELSE outcome = "SUCCEEDED"
  OBVIOUS
<1>4. PICK a : a = [outcome |-> Told, version |-> known]
  OBVIOUS
<1>5. Answered' = a
  BY <1>1, <1>3, <1>4 DEF Answered, Told
<1>6. /\ process # "running" /\ outcome \in CommandOutcome
      /\ outcome \in {"EXECUTABLE_MISSING", "START_FAILED"} <=> process = "none"
      /\ outcome = "SUCCEEDED" => process = "zero"
  BY <1>1 DEF Stages, Causes, Commands, TypeOK
<1>7. /\ Told \in Calls!Outcomes /\ Told # "RAISED"
      /\ Told \in {"EXECUTABLE_MISSING", "START_FAILED"} <=> process = "none"
      /\ Told = "SUCCEEDED" <=> outcome = "SUCCEEDED"
      /\ Told = "EXECUTABLE_MISSING" <=> outcome = "EXECUTABLE_MISSING"
  BY <1>6 DEF Told, Calls!Outcomes, CommandOutcome
<1>8. a.outcome = Told /\ a.version = known /\ a \in Calls!Answers
  BY <1>4, <1>7 DEF Calls!Answers
<1>9. IF job = "run" THEN a \in Calls!Promised /\ (a.version <=> call = "evidence")
                     ELSE a.version <=> a.outcome = "SUCCEEDED"
  <2>1. CASE job = "run"
    <3>1. known <=> call = "evidence"
      BY <1>3, <2>1
    <3>2. ~known => Told = "EXECUTABLE_MISSING"
      BY <1>1, <1>7, <2>1, <3>1 DEF TypeOK
    <3> QED BY <1>7, <1>8, <2>1, <3>1, <3>2 DEF Calls!Promised
  <2>2. CASE job # "run"
    BY <1>3, <1>7, <1>8, <2>2
  <2> QED BY <2>1, <2>2
<1> QED
  BY <1>1, <1>2, <1>5, <1>6, <1>7, <1>8, <1>9 DEF Calls!Answer

LEMMA RunnerIsInCall ==
    ASSUME TypeOK, Stages, Causes, Commands, RunnerStep
    PROVE  [Calls!Next]_(Calls!vars)
<1>1. ASSUME Silent, Silent', UNCHANGED <<job, process, call>>
      PROVE  [Calls!Next]_(Calls!vars)
  BY <1>1, StuttersInSilence
<1>2. CASE \/ Call \/ StartFails \/ Loop \/ Select \/ Poll \/ NextRound \/ LeaveLoop
           \/ Waited \/ WaitExpires \/ Terminate \/ Stopped \/ Kill
  <2>1. Silent /\ Silent' /\ UNCHANGED <<job, process, call>>
    BY <1>2 DEF Call, StartFails, Loop, Select, Poll, NextRound, LeaveLoop, Waited,
                WaitExpires, Terminate, Stopped, Kill, Goto, Settle, Signal, Silent, tool
  <2> QED BY <1>1, <2>1
<1>3. ASSUME NEW s \in Stream, DrainOne(s) \/ ReadOne(s)
      PROVE  [Calls!Next]_(Calls!vars)
  <2>1. Silent /\ Silent' /\ UNCHANGED <<job, process, call>>
    BY <1>3 DEF DrainOne, ReadOne, ReadReady, Silent, tool
  <2> QED BY <1>1, <2>1
<1>4. CASE Start
  <2>1. /\ Silent /\ Silent' /\ UNCHANGED <<job, call>>
        /\ process = "none" /\ process' = "running"
    BY <1>4 DEF Start, Silent, Stages
  <2>2. Answered = Calls!NoAnswer /\ Answered' = Calls!NoAnswer
    BY <2>1, NotAnsweredYet
  <2>3. Calls!Start
    BY <2>1, <2>2 DEF Calls!Start, Calls!NoAnswer
  <2> QED BY <2>3 DEF Calls!Next
<1>5. CASE KillFails
  <2>1. /\ Silent /\ UNCHANGED <<job, call, process>> /\ process = "running"
        /\ Answered' = [outcome |-> "RAISED", version |-> FALSE]
    BY <1>5 DEF KillFails, Goto, Silent, Answered, tool
  <2>2. Calls!Raise
    BY <2>1, NotAnsweredYet DEF Calls!Raise
  <2> QED BY <2>2 DEF Calls!Next
<1>6. CASE Proceed
  <2>1. CASE Goto("returned")
    BY <1>6, <2>1, ReturnIsAnswer DEF Calls!Next
  <2>2. CASE ~Goto("returned")
    <3>1. /\ pc = "ended" /\ job = "run" /\ call = "version" /\ call' = "evidence"
          /\ job' = job /\ pc' = "starting" /\ process' = "none" /\ process # "running"
      BY <1>6, <2>2 DEF Proceed, Stages
    <3>2. Answered = Calls!NoAnswer /\ Answered' = Calls!NoAnswer
      BY <3>1, NotAnsweredYet DEF Silent
    <3>3. Calls!Again
      BY <3>1, <3>2 DEF Calls!Again, Calls!NoAnswer
    <3> QED BY <3>3 DEF Calls!Next
  <2> QED BY <2>1, <2>2
<1> QED BY RunnerCases, <1>2, <1>3, <1>4, <1>5, <1>6

\* A call is one that the adapters can rely on: one tool at a time, and one answer, about
\* a tool that is gone; only a tool that survives SIGKILL takes the answer away.
THEOREM RunnerIsCall == Spec => CallsKeepTheContract
<1>1. Init => Calls!Init
  <2> SUFFICES ASSUME Init PROVE Calls!Init
    OBVIOUS
  <2>1. Answered = Calls!NoAnswer
    BY NotAnsweredYet DEF Init, Silent
  <2> QED BY <2>1 DEF Init, Calls!Init
<1>2. ASSUME RunnerInv, Commands, [Next]_vars
      PROVE  [Calls!Next]_(Calls!vars)
  <2>1. CASE Deadline \/ UNCHANGED vars
    <3>1. UNCHANGED <<job, process, call, pc, outcome>>
      BY <2>1 DEF Deadline, vars, thread, tool
    <3>2. Answered' = Answered
      BY <3>1 DEF Answered, Told
    <3> QED BY <3>1, <3>2 DEF Calls!vars
  <2> QED BY <1>2, <2>1, ToolIsInCall, RunnerIsInCall, StepCases DEF RunnerInv
<1>3. RunnerInv /\ Commands /\ [Next]_vars => Commands' /\ [Calls!Next]_(Calls!vars)
  BY <1>2, CommandsStep DEF RunnerInv
<1> QED
  BY <1>1, <1>3, RunnerInvInit, RunnerInvStep, CommandsInit, PTL
  DEF Spec, CallsKeepTheContract, Calls!Spec
=============================================================================
