------------------------- MODULE CudaPreflight_proofs -------------------------
(***************************************************************************)
(* Proofs about CudaPreflight, for any hosts, environments and faults:     *)
(* what the parent has seen, and what the children have said, of a host    *)
(* that stood still, and hence what the diagnosis may be.                  *)
(***************************************************************************)
EXTENDS CudaPreflight, TLAPS

-----------------------------------------------------------------------------
(* Types *)

LEMMA AnswerTyped == \A mode : Answer(mode) \in Check
  <1>1. \A b : YesNo(b) \in Maybe
    BY DEF YesNo, Maybe
  <1>2. "none" \in Maybe
    BY DEF Maybe
  <1> SUFFICES ASSUME NEW mode PROVE Answer(mode) \in Check
    OBVIOUS
  <1>3. CASE host.torch = "missing"
    BY <1>2, <1>3 DEF Answer, Check
  <1>4. CASE host.torch # "missing"
    <2> DEFINE available == IF NvmlCheck(mode) THEN Counted ELSE RuntimeWorks
               asked == mode \in {"runtime", "nvml"}
                            \/ (mode = "device_properties" /\ RuntimeWorks)
    <2>1. Answer(mode) =
            [version |-> TRUE, cpuOnly |-> YesNo(host.torch = "cpu"),
             available |-> IF asked THEN YesNo(available) ELSE "none",
             devices |-> asked /\ Counted,
             succeeded |-> mode = "nvml" \/ RuntimeWorks]
      BY <1>4 DEF Answer
    <2>2. (IF asked THEN YesNo(available) ELSE "none") \in Maybe
      BY <1>1, <1>2
    <2>3. (asked /\ Counted) \in BOOLEAN
      OBVIOUS
    <2>4. (mode = "nvml" \/ RuntimeWorks) \in BOOLEAN
      OBVIOUS
    <2> HIDE DEF available, asked
    <2> QED  BY <1>1, <2>1, <2>2, <2>3, <2>4 DEF Check
  <1> QED  BY <1>3, <1>4

LEMMA SilentTyped == Silent \in Check
  BY DEF Silent, Check, Maybe

\* Every variable keeps its type, for every host and environment.
THEOREM TypeCorrect == Spec => []TypeOK
  <1>1. Init => TypeOK
    BY PreflightAssumption DEF Init, TypeOK, Stage, Seen, Modes
  <1>2. ASSUME TypeOK, [Next]_vars PROVE TypeOK'
    <2> USE <1>2 DEF TypeOK, Stage
    <2>1. CASE LookAtNodes
      BY <2>1 DEF LookAtNodes, Seen
    <2>2. CASE LoadLibraries
      <3>1. PICK place \in {host.libcuda} \cup (IF "maps" \in Faults THEN {"absent"} ELSE {}) :
               seen' = [seen EXCEPT !.libcuda = host.libcuda # "absent",
                                    !.resolved = IF place = "absent" THEN "none" ELSE place]
        BY <2>2 DEF LoadLibraries
      <3>2. host.libcuda \in {"absent", "driver", "compat", "versioned"}
        BY DEF Host
      <3>3. place \in {"absent", "driver", "compat", "versioned"}
        BY <3>1, <3>2
      <3>4. seen' \in Seen
        BY <3>1, <3>3 DEF Seen
      <3> QED  BY <2>2, <3>4 DEF LoadLibraries
    <2>3. CASE RunChild
      <3>1. PICK c \in Check : checks' = Append(checks, c)
        BY <2>3, AnswerTyped, SilentTyped DEF RunChild
      <3>2. /\ Len(checks) < Len(Modes) /\ Len(Modes) = 4
            /\ UNCHANGED <<stage, host, env, seen, output, exit, steady>>
        BY <2>3 DEF RunChild, Modes
      <3>3. checks' \in Seq(Check) /\ Len(checks') = Len(checks) + 1
        BY <3>1
      <3> QED  BY <3>2, <3>3
    <2>4. CASE UndecodableOutput
      BY <2>4 DEF UndecodableOutput, Exit
    <2>5. CASE ChildrenEnd
      BY <2>5 DEF ChildrenEnd
    <2>6. CASE CreateOutput
      BY <2>6 DEF CreateOutput, Exit
    <2>7. CASE WriteOutput
      BY <2>7 DEF WriteOutput, Exit
    <2>8. CASE PrintReport
      BY <2>8 DEF PrintReport, Exit
    <2>9. CASE HostChanges
      BY <2>9, PreflightAssumption DEF HostChanges
    <2>10. CASE OutputAppears
      BY <2>10 DEF OutputAppears
    <2>11. CASE UNCHANGED vars
      BY <2>11 DEF vars
    <2> QED  BY <2>1, <2>2, <2>3, <2>4, <2>5, <2>6, <2>7, <2>8, <2>9, <2>10, <2>11
             DEF Next, Done
  <1> QED  BY <1>1, <1>2, PTL DEF Spec

-----------------------------------------------------------------------------
(* The output *)

OutputAt ==
    /\ stage = "write" => output = "partial"
    /\ stage = "print" => output = "whole"
    /\ stage \notin {"write", "print", "ended"} => output \in {"absent", "other"}

LEMMA OutputAlways == Spec => []OutputAt
  <1>1. Init => OutputAt
    BY DEF Init, OutputAt
  <1>2. ASSUME OutputAt, [Next]_vars PROVE OutputAt'
    BY <1>2
    DEF OutputAt, Next, vars, LookAtNodes, LoadLibraries, RunChild, UndecodableOutput,
        ChildrenEnd, CreateOutput, WriteOutput, PrintReport, HostChanges, OutputAppears,
        Done, Exit
  <1> QED  BY <1>1, <1>2, PTL DEF Spec

\* A path that exists is never touched, a whole report never altered, and the process
\* succeeds only with its own whole report of CUDA_AVAILABLE on disk.
THEOREM CreatedReports == Spec => ReportIsCreated
  <1>1. ASSUME OutputAt, [Next]_vars
        PROVE  [/\ output \in {"other", "whole"} => output' = output
                /\ exit' # exit /\ exit' = "zero" =>
                       output' = "whole" /\ Diagnose = "CUDA_AVAILABLE"]_vars
    <2>1. CASE PrintReport
      <3>1. stage = "print" /\ output' = output /\ output = "whole"
        BY <1>1, <2>1 DEF PrintReport, OutputAt
      <3>2. exit' = "zero" => Diagnose = "CUDA_AVAILABLE"
        BY <2>1 DEF PrintReport, Exit
      <3> QED  BY <3>1, <3>2
    <2>2. CASE WriteOutput
      BY <1>1, <2>2 DEF WriteOutput, OutputAt, Exit
    <2>3. CASE CreateOutput
      BY <2>3 DEF CreateOutput, Exit
    <2>4. CASE UndecodableOutput
      BY <2>4 DEF UndecodableOutput, Exit
    <2>5. CASE \/ LookAtNodes \/ LoadLibraries \/ RunChild \/ ChildrenEnd
               \/ HostChanges \/ OutputAppears \/ Done \/ UNCHANGED vars
      BY <2>5 DEF LookAtNodes, LoadLibraries, RunChild, ChildrenEnd, HostChanges,
                  OutputAppears, Done, vars
    <2> QED  BY <1>1, <2>1, <2>2, <2>3, <2>4, <2>5 DEF Next
  <1> QED  BY <1>1, OutputAlways, PTL DEF Spec, ReportIsCreated

-----------------------------------------------------------------------------
(* What is known of a host that stood still *)

Observed ==
    /\ stage # "nodes" =>
           (seen.nodes <=> host.nodes = {"gpu", "control"} /\ host.ahead + 2 <= MaxNodes)
    /\ stage \notin {"nodes", "libraries"} =>
           \/ stage = "ended"
           \/ /\ seen.libcuda <=> host.libcuda # "absent"
              /\ seen.resolved \in {"none", host.libcuda}
              /\ host.libcuda = "absent" => seen.resolved = "none"
    /\ \A k \in 1..Len(checks) : checks[k] = Answer(Modes[k]) \/ checks[k] = Silent

Known ==
    /\ steady => Observed
    /\ Reported => Len(checks) = 4

LEMMA SteadyAnswers ==
    ASSUME host' = host, env' = env
    PROVE  \A mode : Answer(mode)' = Answer(mode)
  BY DEF Answer, Counted, NvmlWorks, RuntimeWorks, Mounted, Shown, NvmlCheck, YesNo

\* The steps that neither look at the host nor change it.
LEMMA QuietSteps ==
    ASSUME Observed, UNCHANGED <<host, env, seen, checks>>,
           stage = "nodes" <=> stage' = "nodes",
           stage = "libraries" => stage' \in {"libraries", "ended"},
           stage = "ended" => stage' = "ended"
    PROVE  Observed'
  <1>1. \A k \in 1..Len(checks)' : checks'[k] = Answer(Modes[k])' \/ checks'[k] = Silent
    <2>1. \A k : Answer(Modes[k])' = Answer(Modes[k])
      BY DEF Answer, Counted, NvmlWorks, RuntimeWorks, Mounted, Shown, NvmlCheck, YesNo, Modes
    <2> QED  BY <2>1 DEF Observed
  <1>2. /\ (stage # "nodes")' =>
               (seen'.nodes <=> host'.nodes = {"gpu", "control"} /\ host'.ahead + 2 <= MaxNodes)
        /\ (stage \notin {"nodes", "libraries"})' =>
               \/ stage' = "ended"
               \/ /\ seen'.libcuda <=> host'.libcuda # "absent"
                  /\ seen'.resolved \in {"none", host'.libcuda}
                  /\ host'.libcuda = "absent" => seen'.resolved = "none"
    BY DEF Observed
  <1> QED  BY <1>1, <1>2 DEF Observed, Silent

LEMMA KnownAlways == Spec => []Known
  <1>1. Init => Known
    BY DEF Init, Known, Observed, Reported
  <1>2. ASSUME TypeOK, Known, [Next]_vars PROVE Known'
    <2>1. CASE HostChanges
      BY <1>2, <2>1 DEF HostChanges, Known, Reported
    <2>2. CASE LookAtNodes
      <3>1. /\ stage = "nodes" /\ stage' = "libraries"
            /\ seen' = [seen EXCEPT !.nodes =
                            host.nodes = {"gpu", "control"} /\ host.ahead + 2 <= MaxNodes]
            /\ UNCHANGED <<host, env, checks, steady>>
        BY <2>2 DEF LookAtNodes
      <3>2. seen'.nodes <=> host'.nodes = {"gpu", "control"} /\ host'.ahead + 2 <= MaxNodes
        BY <1>2, <3>1 DEF TypeOK, Seen
      <3>3. \A k : Answer(Modes[k])' = Answer(Modes[k])
        BY <3>1 DEF Answer, Counted, NvmlWorks, RuntimeWorks, Mounted, Shown, NvmlCheck, YesNo, Modes
      <3>4. steady =>
              \A k \in 1..Len(checks)' : checks'[k] = Answer(Modes[k])' \/ checks'[k] = Silent
        BY <1>2, <3>1, <3>3 DEF Known, Observed
      <3>5. steady' => Observed'
        BY <3>1, <3>2, <3>4 DEF Observed, Silent
      <3> QED  BY <3>1, <3>5 DEF Known, Reported
    <2>3. CASE LoadLibraries
      <3>1. PICK place \in {host.libcuda} \cup (IF "maps" \in Faults THEN {"absent"} ELSE {}) :
               seen' = [seen EXCEPT !.libcuda = host.libcuda # "absent",
                                    !.resolved = IF place = "absent" THEN "none" ELSE place]
        BY <2>3 DEF LoadLibraries
      <3>2. /\ stage = "libraries" /\ stage' = "children"
            /\ UNCHANGED <<host, env, checks, steady>>
        BY <2>3 DEF LoadLibraries
      <3>3. /\ seen'.nodes = seen.nodes
            /\ seen'.libcuda <=> host'.libcuda # "absent"
            /\ seen'.resolved = IF place = "absent" THEN "none" ELSE place
        BY <1>2, <3>1, <3>2 DEF TypeOK, Seen
      <3>4. place \in {host.libcuda, "absent"}
        BY <3>1
      <3>5. /\ seen'.resolved \in {"none", host'.libcuda}
            /\ host'.libcuda = "absent" => seen'.resolved = "none"
        BY <3>2, <3>3, <3>4
      <3>6. \A k : Answer(Modes[k])' = Answer(Modes[k])
        BY <3>2 DEF Answer, Counted, NvmlWorks, RuntimeWorks, Mounted, Shown, NvmlCheck, YesNo, Modes
      <3>7. steady =>
              /\ \A k \in 1..Len(checks)' : checks'[k] = Answer(Modes[k])' \/ checks'[k] = Silent
              /\ seen'.nodes <=> host'.nodes = {"gpu", "control"}
                                    /\ host'.ahead + 2 <= MaxNodes
        BY <1>2, <3>2, <3>3, <3>6 DEF Known, Observed
      <3>8. steady' => Observed'
        BY <3>2, <3>3, <3>5, <3>7 DEF Observed, Silent
      <3> QED  BY <3>2, <3>8 DEF Known, Reported
    <2>4. CASE RunChild
      <3>1. /\ stage = "children" /\ UNCHANGED <<stage, host, env, seen, steady>>
            /\ Len(checks) \in Nat /\ Mode = Modes[Len(checks) + 1]
        BY <1>2, <2>4 DEF RunChild, TypeOK, Mode
      <3>2. PICK c \in Check : /\ checks' = Append(checks, c)
                               /\ c = Answer(Modes[Len(checks) + 1]) \/ c = Silent
        BY <2>4, <3>1, AnswerTyped, SilentTyped DEF RunChild
      <3>3. /\ Len(checks') = Len(checks) + 1
            /\ \A k \in 1..Len(checks) : checks'[k] = checks[k]
            /\ checks'[Len(checks) + 1] = c
        BY <1>2, <3>1, <3>2 DEF TypeOK
      <3>4. \A k : Answer(Modes[k])' = Answer(Modes[k])
        BY <3>1 DEF Answer, Counted, NvmlWorks, RuntimeWorks, Mounted, Shown, NvmlCheck, YesNo, Modes
      <3>5. ASSUME steady, NEW k \in 1..(Len(checks) + 1)
            PROVE  checks'[k] = Answer(Modes[k]) \/ checks'[k] = Silent
        <4>1. CASE k = Len(checks) + 1
          BY <3>2, <3>3, <4>1
        <4>2. CASE k # Len(checks) + 1
          <5>1. k \in 1..Len(checks)
            BY <3>1, <4>2
          <5> QED  BY <1>2, <3>3, <3>5, <5>1 DEF Known, Observed
        <4> QED  BY <4>1, <4>2
      <3>6. steady =>
              \A k \in 1..Len(checks)' : checks'[k] = Answer(Modes[k])' \/ checks'[k] = Silent
        BY <3>3, <3>4, <3>5
      <3>7. steady' => Observed'
        BY <1>2, <3>1, <3>6 DEF Known, Observed, Silent
      <3> QED  BY <3>1, <3>7 DEF Known, Reported
    <2>5. CASE \/ UndecodableOutput \/ ChildrenEnd \/ CreateOutput \/ WriteOutput
               \/ PrintReport \/ OutputAppears \/ UNCHANGED vars
      <3>1. /\ UNCHANGED <<host, env, seen, checks, steady>>
            /\ stage = "nodes" <=> stage' = "nodes"
            /\ stage = "libraries" => stage' \in {"libraries", "ended"}
            /\ stage = "ended" => stage' = "ended"
        BY <2>5 DEF UndecodableOutput, ChildrenEnd, CreateOutput, WriteOutput, PrintReport,
                    OutputAppears, vars, Exit
      <3>2. steady' => Observed'
        BY <1>2, <3>1, QuietSteps DEF Known
      <3>3. Len(Modes) = 4
        BY DEF Modes
      <3>4. Reported' => Len(checks') = 4
        BY <1>2, <2>5, <3>1, <3>3
        DEF Known, Reported, UndecodableOutput, ChildrenEnd, CreateOutput, WriteOutput,
            PrintReport, OutputAppears, vars, Exit
      <3> QED  BY <3>2, <3>4 DEF Known
    <2> QED  BY <1>2, <2>1, <2>2, <2>3, <2>4, <2>5 DEF Next, Done
  <1> QED  BY <1>1, <1>2, TypeCorrect, PTL DEF Spec

-----------------------------------------------------------------------------
(* The diagnosis *)

\* The states of the variables are those that hide a device or leave compute out.
LEMMA EnvironmentMeans ==
    ASSUME TypeOK
    PROVE  /\ Disabled("cuda") <=> Hides(env.cuda)
           /\ Disabled("nvidia") <=> Hides(env.nvidia)
           /\ ComputeAvailable = "no" <=> LeavesComputeOut(env.capabilities)
  <1>1. ~Hides(Unset)
    <2>1. \A part \in Part : Unset # <<part>>
      <3>1. \A part \in Part : <<part>> \in Seq(Part)
        OBVIOUS
      <3> QED  BY <3>1, PreflightAssumption
    <2>2. {"", "-1", "none", "void"} \subseteq Part
      BY DEF Part, Words
    <2> QED  BY <2>1, <2>2 DEF Hides
  <1>2. \A name, raw : VisibleState(name, raw) \in {"empty", "disabled"} <=> Hides(raw)
    <2> SUFFICES ASSUME NEW name, NEW raw
                 PROVE  VisibleState(name, raw) \in {"empty", "disabled"} <=> Hides(raw)
      OBVIOUS
    <2>1. CASE Hides(raw)
      <3>1. raw # Unset
        BY <1>1, <2>1
      <3>2. raw = <<"">> \/ raw \in {<<"-1">>, <<"none">>, <<"void">>}
        BY <2>1 DEF Hides
      <3>3. CASE raw = <<"">>
        BY <2>1, <3>1, <3>3, Zenon DEF VisibleState
      <3>4. CASE raw # <<"">> /\ raw \in {<<"-1">>, <<"none">>, <<"void">>}
        BY <2>1, <3>1, <3>4, Zenon DEF VisibleState
      <3> QED  BY <3>2, <3>3, <3>4
    <2>2. CASE ~Hides(raw)
      BY <2>2 DEF Hides, VisibleState
    <2> QED  BY <2>1, <2>2
  <1>3. ComputeAvailable = "no" <=> LeavesComputeOut(env.capabilities)
    <2> DEFINE raw == env.capabilities
               list == /\ raw # Unset /\ ~Hides(raw) /\ raw # <<"all">>
                       /\ Parts(raw) \subseteq Words /\ Distinct(raw)
    <2>1. VisibleState("capabilities", raw) = "capability_list" <=> list
      BY DEF VisibleState, Hides
    <2>2. ComputeAvailable = "no" <=> list /\ Parts(raw) \cap {"compute", "all"} = {}
      BY <2>1 DEF ComputeAvailable
    <2>3. raw = <<"all">> => "all" \in Parts(raw)
      <3>1. ASSUME raw = <<"all">> PROVE 1 \in 1..Len(raw) /\ raw[1] = "all"
        BY <3>1
      <3> QED  BY <3>1 DEF Parts
    <2>4. list /\ Parts(raw) \cap {"compute", "all"} = {} <=> LeavesComputeOut(raw)
      BY <2>3 DEF LeavesComputeOut
    <2> QED  BY <2>2, <2>4
  <1> QED  BY <1>2, <1>3 DEF Disabled

\* What the children's answers mean.
LEMMA AnswersMean ==
    /\ Answer("runtime").cpuOnly = "yes" <=> host.torch = "cpu"
    /\ /\ Answer("runtime").succeeded /\ Answer("runtime").available = "yes"
       /\ Answer("runtime").devices
       <=> RuntimeWorks
    /\ Answer("runtime").available \in {"none", YesNo(RuntimeWorks)}
    /\ Answer("nvml").available \in {"none", YesNo(Counted)}
  <1>1. RuntimeWorks => host.torch = "cuda"
    BY DEF RuntimeWorks
  <1>2. NvmlCheck("nvml") /\ ~NvmlCheck("runtime")
    BY DEF NvmlCheck
  <1>3. CASE host.torch = "missing"
    <2>1. \A mode : /\ Answer(mode).cpuOnly = "none" /\ Answer(mode).available = "none"
                    /\ Answer(mode).succeeded = FALSE
      BY <1>3 DEF Answer
    <2> QED  BY <1>1, <1>3, <2>1
  <1>4. CASE host.torch # "missing"
    <2>1. /\ Answer("runtime").cpuOnly = YesNo(host.torch = "cpu")
          /\ Answer("runtime").available = YesNo(RuntimeWorks)
          /\ Answer("nvml").available = YesNo(Counted)
      BY <1>2, <1>4 DEF Answer
    <2>2. /\ Answer("runtime").devices <=> Counted
          /\ Answer("runtime").succeeded <=> RuntimeWorks
      BY <1>2, <1>4 DEF Answer
    <2>3. \A b : YesNo(b) = "yes" <=> b
      BY DEF YesNo
    <2>4. RuntimeWorks => Counted
      BY DEF Counted
    <2> QED  BY <1>4, <2>1, <2>2, <2>3, <2>4
  <1> QED  BY <1>3, <1>4

\* The diagnosis of a host that stood still is true of it, CUDA_AVAILABLE is reported
\* exactly if CUDA works and nothing hides it, a vague diagnosis leaves no cause of
\* the machine's unnamed, and the disagreement of NVML and the runtime is real.
THEOREM TrueDiagnoses == Spec => []DiagnosisNamesCause
  <1>1. ASSUME TypeOK, Known PROVE DiagnosisNamesCause
    <2> SUFFICES ASSUME Reported, steady, host.ahead + 2 <= MaxNodes
                 PROVE  /\ Diagnose = "CUDA_AVAILABLE" =>
                              RuntimeWorks /\ Causes \subseteq {"CUDA_COMPAT_LIBRARY_CONFLICT"}
                        /\ /\ RuntimeWorks /\ Runtime # Silent
                           /\ Causes \subseteq {"CUDA_COMPAT_LIBRARY_CONFLICT"}
                           => Diagnose = "CUDA_AVAILABLE"
                        /\ Diagnose \notin {"CUDA_AVAILABLE",
                                            "CUDA_RUNTIME_INITIALIZATION_FAILED", "UNKNOWN"}
                           => Diagnose \in Causes
                        /\ Diagnose \in {"CUDA_RUNTIME_INITIALIZATION_FAILED", "UNKNOWN"}
                           => Causes \subseteq {"CUDA_COMPAT_LIBRARY_CONFLICT",
                                                "PYTORCH_CPU_BUILD"}
                        /\ Disagree # "none" => (Disagree = "yes" <=> NvmlWorks /\ ~RuntimeWorks)
      BY DEF DiagnosisNamesCause
    <2>1. /\ seen.nodes <=> host.nodes = {"gpu", "control"}
          /\ seen.libcuda <=> host.libcuda # "absent"
          /\ seen.resolved = "compat" => host.libcuda = "compat"
          /\ Runtime = Answer("runtime") \/ Runtime = Silent
          /\ Nvml = Answer("nvml") \/ Nvml = Silent
      <3>1. Observed /\ Len(checks) = 4 /\ stage \notin {"nodes", "libraries", "ended"}
        BY <1>1 DEF Known, Reported
      <3>2. 1 \in 1..Len(checks) /\ 4 \in 1..Len(checks)
        BY <3>1
      <3>3. Modes[1] = "runtime" /\ Modes[4] = "nvml"
        BY DEF Modes
      <3>4. /\ Runtime = Answer("runtime") \/ Runtime = Silent
            /\ Nvml = Answer("nvml") \/ Nvml = Silent
        BY <3>1, <3>2, <3>3 DEF Observed, Runtime, Nvml
      <3>5. /\ seen.nodes <=> host.nodes = {"gpu", "control"}
            /\ seen.libcuda <=> host.libcuda # "absent"
            /\ seen.resolved = "compat" => host.libcuda = "compat"
        BY <3>1 DEF Observed
      <3> QED  BY <3>4, <3>5
    <2> DEFINE Works == Runtime.succeeded /\ Runtime.available = "yes" /\ Runtime.devices
    <2>2. /\ Runtime.cpuOnly = "yes" => host.torch = "cpu"
          /\ Works => RuntimeWorks
          /\ RuntimeWorks /\ Runtime # Silent => Works
          /\ RuntimeWorks => host.torch = "cuda" /\ Runtime.cpuOnly # "yes"
      <3>1. CASE Runtime = Silent
        <4>1. Runtime.cpuOnly = "none" /\ Runtime.succeeded = FALSE
          BY <3>1 DEF Silent
        <4> QED  BY <3>1, <4>1 DEF RuntimeWorks
      <3>2. CASE Runtime = Answer("runtime")
        BY <3>2, AnswersMean DEF RuntimeWorks
      <3> QED  BY <2>1, <3>1, <3>2
    <2>3. Disagree # "none" => (Disagree = "yes" <=> NvmlWorks /\ ~RuntimeWorks)
      <3>1. /\ Runtime.available \in {"none", YesNo(RuntimeWorks)}
            /\ Nvml.available \in {"none", YesNo(Counted)}
        <4>1. Silent.available = "none"
          BY DEF Silent
        <4> QED  BY <2>1, <4>1, AnswersMean
      <3>2. /\ Counted \in BOOLEAN /\ RuntimeWorks \in BOOLEAN
            /\ Counted # RuntimeWorks <=> NvmlWorks /\ ~RuntimeWorks
        <4>1. NvmlWorks \in BOOLEAN /\ RuntimeWorks \in BOOLEAN
          BY DEF NvmlWorks, RuntimeWorks
        <4> QED  BY <4>1 DEF Counted
      <3>3. \A b \in BOOLEAN : \A c \in BOOLEAN : YesNo(b) = YesNo(c) <=> b = c
        BY DEF YesNo
      <3>4. \A b \in BOOLEAN : YesNo(b) = "yes" <=> b
        BY DEF YesNo
      <3>5. Disagree # "none" =>
              /\ Runtime.available = YesNo(RuntimeWorks)
              /\ Nvml.available = YesNo(Counted)
              /\ Disagree = YesNo(Runtime.available # Nvml.available)
        BY <3>1 DEF Disagree
      <3>6. (Runtime.available # Nvml.available) \in BOOLEAN
        OBVIOUS
      <3>7. Disagree # "none" => (Disagree = "yes" <=> Runtime.available # Nvml.available)
        BY <3>4, <3>5, <3>6
      <3> QED  BY <3>2, <3>3, <3>5, <3>7
    <2> DEFINE Hidden == Hides(env.cuda) \/ Hides(env.nvidia)
               NoCompute == LeavesComputeOut(env.capabilities)
               Compat == host.libcuda = "compat" \/ PathPutsCompatFirst
    <2>4. /\ "PYTORCH_CPU_BUILD" \in Causes <=> host.torch = "cpu"
          /\ "GPU_HIDDEN_BY_ENVIRONMENT" \in Causes <=> Hidden
          /\ "COMPUTE_CAPABILITY_NOT_MOUNTED" \in Causes <=> NoCompute
          /\ "CUDA_DEVICE_NODES_MISSING" \in Causes <=> host.nodes # {"gpu", "control"}
          /\ "LIBCUDA_NOT_LOADABLE" \in Causes <=> host.libcuda = "absent"
          /\ "CUDA_COMPAT_LIBRARY_CONFLICT" \in Causes <=> Compat
          /\ Causes \subseteq {"PYTORCH_CPU_BUILD", "GPU_HIDDEN_BY_ENVIRONMENT",
                "COMPUTE_CAPABILITY_NOT_MOUNTED", "CUDA_DEVICE_NODES_MISSING",
                "LIBCUDA_NOT_LOADABLE", "CUDA_COMPAT_LIBRARY_CONFLICT"}
      BY DEF Causes
    <2>5. Diagnose =
            IF Runtime.cpuOnly = "yes" THEN "PYTORCH_CPU_BUILD"
            ELSE IF Hidden THEN "GPU_HIDDEN_BY_ENVIRONMENT"
            ELSE IF NoCompute THEN "COMPUTE_CAPABILITY_NOT_MOUNTED"
            ELSE IF host.nodes # {"gpu", "control"} THEN "CUDA_DEVICE_NODES_MISSING"
            ELSE IF host.libcuda = "absent" THEN "LIBCUDA_NOT_LOADABLE"
            ELSE IF Works THEN "CUDA_AVAILABLE"
            ELSE IF CompatPrecedes THEN "CUDA_COMPAT_LIBRARY_CONFLICT"
            ELSE IF Runtime.version THEN "CUDA_RUNTIME_INITIALIZATION_FAILED"
            ELSE "UNKNOWN"
      BY <1>1, <2>1, EnvironmentMeans DEF Diagnose
    <2>6. CompatPrecedes => Compat
      BY <2>1 DEF CompatPrecedes
    <2> HIDE DEF Works, Hidden, NoCompute, Compat
    <2>7. /\ Diagnose = "CUDA_AVAILABLE" =>
                /\ RuntimeWorks /\ ~Hidden /\ ~NoCompute /\ host.nodes = {"gpu", "control"}
                /\ host.libcuda # "absent" /\ host.torch # "cpu"
          /\ Diagnose \in {"CUDA_RUNTIME_INITIALIZATION_FAILED", "UNKNOWN"} =>
                /\ ~Hidden /\ ~NoCompute /\ host.nodes = {"gpu", "control"}
                /\ host.libcuda # "absent"
      BY <2>2, <2>5
    <2>8. /\ RuntimeWorks /\ Runtime # Silent
          /\ Causes \subseteq {"CUDA_COMPAT_LIBRARY_CONFLICT"}
          => Diagnose = "CUDA_AVAILABLE"
      BY <2>2, <2>4, <2>5
    <2>9. Diagnose \notin {"CUDA_AVAILABLE", "CUDA_RUNTIME_INITIALIZATION_FAILED", "UNKNOWN"}
          => Diagnose \in Causes
      BY <2>2, <2>4, <2>5, <2>6
    <2> QED  BY <2>3, <2>4, <2>7, <2>8, <2>9
  <1> QED  BY <1>1, TypeCorrect, KnownAlways, PTL
=============================================================================
