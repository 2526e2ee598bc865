---------------------------- MODULE CudaPreflight ----------------------------
(***************************************************************************)
(* cuda_preflight: look at the environment, the device nodes and the       *)
(* libraries, start four children that each try CUDA in their own way,     *)
(* name one diagnosis, and leave the report at a path that must be new.    *)
(* The host may change between any two looks; a child may hang, fail to    *)
(* start, or print something that is no JSON or no text at all.            *)
(*                                                                         *)
(* PyTorch is external: what a child reports of a host is assumed from     *)
(* what the child script asks of it.  device_count asks NVML first and the *)
(* runtime only if NVML fails; is_available asks the runtime, unless       *)
(* PYTORCH_NVML_BASED_CUDA_CHECK makes it ask device_count.                *)
(*                                                                         *)
(* An environment value is the sequence of its comma- or colon-separated   *)
(* parts; sanitising is left out except where the code computes with a     *)
(* sanitised value.                                                        *)
(***************************************************************************)
EXTENDS Naturals, Sequences

CONSTANTS
    Hosts,         \* the states of the host a call may meet
    Later,         \* those it may change into meanwhile
    Environments,  \* what the process may be started with
    Unset,         \* a variable that is not there
    MaxNodes,      \* how many of the sorted node paths are looked at
    Faults         \* what the environment may do in this instance

FaultKinds == {"host", "child", "bytes", "maps", "output", "write", "print"}

(***************************************************************************)
(* nodes: the character devices a GPU needs.  ahead: the paths that sort   *)
(* before them, such as those of nvidia-caps.  libcuda: where the loader   *)
(* finds it; "versioned" is a compat directory under its own name, to      *)
(* which /usr/local/cuda/compat may be a link.  runtime: cuInit works for  *)
(* a process that sees a GPU; nvml: the management library counts one.     *)
(***************************************************************************)
Host == [nodes: SUBSET {"gpu", "control"}, ahead: Nat,
         libcuda: {"absent", "driver", "compat", "versioned"},
         torch: {"missing", "cpu", "cuda"}, runtime: BOOLEAN, nvml: BOOLEAN]

Words == {"all", "none", "void", "compute", "utility"}   \* what [a-z]+ matches
Numbers == {"0", "1"}
\* "other" is what no pattern of the code matches
Part == Words \cup Numbers \cup {"", "-1", "GPU", "MIG", "compat", "host", "other"}

Value == (Seq(Part) \ {<<>>}) \cup {Unset}
Environment == [cuda: Value, nvidia: Value, capabilities: Value, path: Value,
                nvmlCheck: BOOLEAN]

ASSUME PreflightAssumption ==
    /\ Hosts \subseteq Host /\ Later \subseteq Host
    /\ Environments \subseteq Environment
    /\ Unset \notin Seq(Part)
    /\ MaxNodes \in Nat
    /\ Faults \subseteq FaultKinds

VARIABLES
    stage,      \* the next step of run_preflight and main
    host,       \* the host as it is now
    env,        \* source_env
    seen,       \* what the parent observed itself
    checks,     \* child_checks: the children that have ended
    output,     \* what is at the path of --output
    exit,       \* how the process ended
    steady      \* whether the host stood still so far

vars == <<stage, host, env, seen, checks, output, exit, steady>>

Modes == <<"runtime", "current_device", "device_properties", "nvml">>
Maybe == {"yes", "no", "none"}
Check == [version: BOOLEAN, cpuOnly: Maybe, available: Maybe, devices: BOOLEAN,
          succeeded: BOOLEAN]
Seen == [nodes: BOOLEAN, libcuda: BOOLEAN, resolved: {"none", "driver", "compat", "versioned"}]
Stage == {"nodes", "libraries", "children", "create", "write", "print", "ended"}

TypeOK ==
    /\ stage \in Stage
    /\ host \in Host /\ env \in Environments
    /\ seen \in Seen
    /\ checks \in Seq(Check) /\ Len(checks) <= Len(Modes)
    /\ output \in {"absent", "other", "partial", "whole"}
    /\ exit \in {"none", "zero", "one"}
    /\ steady \in BOOLEAN

Init ==
    /\ stage = "nodes"
    /\ host \in Hosts /\ env \in Environments
    /\ seen = [nodes |-> FALSE, libcuda |-> FALSE, resolved |-> "none"]
    /\ checks = <<>>
    /\ output \in {"absent", "other"}
    /\ exit = "none" /\ steady = TRUE

-----------------------------------------------------------------------------
(* The environment, as run_preflight reads it *)

Parts(raw) == {raw[i] : i \in 1..Len(raw)}
Distinct(raw) == \A i, j \in 1..Len(raw) : raw[i] = raw[j] => i = j

\* _visible_value: the state it gives
VisibleState(name, raw) ==
    IF raw = Unset THEN "unset"
    ELSE IF raw = <<"">> THEN "empty"
    ELSE IF raw \in {<<"-1">>, <<"none">>, <<"void">>} THEN "disabled"
    ELSE IF raw = <<"all">> THEN "all"
    ELSE IF name = "capabilities" /\ Parts(raw) \subseteq Words /\ Distinct(raw)
         THEN "capability_list"
    ELSE IF Parts(raw) \subseteq Numbers THEN "ordinal_list"
    ELSE IF Parts(raw) \subseteq {"GPU"} THEN "gpu_uuid_list"
    ELSE IF Parts(raw) \subseteq {"MIG"} THEN "mig_uuid_list"
    ELSE "other_redacted"

Disabled(name) == VisibleState(name, env[name]) \in {"empty", "disabled"}

\* driver_capabilities_include_compute
ComputeAvailable ==
    LET state == VisibleState("capabilities", env.capabilities) IN
    IF state = "capability_list"
    THEN IF Parts(env.capabilities) \cap {"compute", "all"} # {} THEN "yes" ELSE "no"
    ELSE IF state = "all" THEN "yes" ELSE "none"

\* the first compat directory of LD_LIBRARY_PATH is in front of the first of the host
PathPutsCompatFirst ==
    /\ env.path # Unset
    /\ \E i \in 1..Len(env.path) :
            env.path[i] = "compat" /\ \A j \in 1..i : env.path[j] # "host"

\* _compat_precedes_host; the mapped file has its own name, not that of a link to it
CompatPrecedes == seen.resolved = "compat" \/ PathPutsCompatFirst

-----------------------------------------------------------------------------
(* What a child reports *)

\* Mutant of NvmlCheck: the variable is inherited from the parent.
NvmlCheckInherited(mode) == mode = "nvml" \/ env.nvmlCheck

\* PYTORCH_NVML_BASED_CUDA_CHECK in child_env
NvmlCheck(mode) == mode = "nvml"

\* CUDA shows a process the devices in front of the first that it does not know
Shown == env.cuda = Unset \/ env.cuda[1] \in Numbers \cup {"GPU", "MIG"}
Mounted == host.nodes = {"gpu", "control"} /\ host.libcuda # "absent"
RuntimeWorks == host.torch = "cuda" /\ Mounted /\ host.runtime /\ Shown
NvmlWorks == host.torch = "cuda" /\ Mounted /\ host.nvml /\ Shown

\* device_count is not zero
Counted == NvmlWorks \/ RuntimeWorks

YesNo(b) == IF b THEN "yes" ELSE "no"

\* CHILD_SCRIPT
Answer(mode) ==
    LET available == IF NvmlCheck(mode) THEN Counted ELSE RuntimeWorks
        asked == mode \in {"runtime", "nvml"} \/ (mode = "device_properties" /\ RuntimeWorks)
    IN  IF host.torch = "missing"
        THEN [version |-> FALSE, cpuOnly |-> "none", available |-> "none",
              devices |-> FALSE, succeeded |-> FALSE]
        ELSE [version |-> TRUE, cpuOnly |-> YesNo(host.torch = "cpu"),
              available |-> IF asked THEN YesNo(available) ELSE "none",
              devices |-> asked /\ Counted,
              succeeded |-> mode = "nvml" \/ RuntimeWorks]

\* a check whose child timed out, did not start, or printed something else
Silent == [version |-> FALSE, cpuOnly |-> "none", available |-> "none",
           devices |-> FALSE, succeeded |-> FALSE]

-----------------------------------------------------------------------------
(* run_preflight *)

Exit(status) == stage' = "ended" /\ exit' = status

\* _device_nodes: the first of the sorted paths; gpu and control sort last
LookAtNodes ==
    /\ stage = "nodes"
    /\ stage' = "libraries"
    /\ seen' = [seen EXCEPT !.nodes =
            host.nodes = {"gpu", "control"} /\ host.ahead + 2 <= MaxNodes]
    /\ UNCHANGED <<host, env, checks, output, exit, steady>>

\* _load_libcuda; where it was mapped from may stay unknown
LoadLibraries ==
    /\ stage = "libraries"
    /\ stage' = "children"
    /\ \E place \in {host.libcuda} \cup (IF "maps" \in Faults THEN {"absent"} ELSE {}) :
            seen' = [seen EXCEPT !.libcuda = host.libcuda # "absent",
                                 !.resolved = IF place = "absent" THEN "none" ELSE place]
    /\ UNCHANGED <<host, env, checks, output, exit, steady>>

Mode == Modes[Len(checks) + 1]

\* _run_child, one child after the other
RunChild ==
    /\ stage = "children"
    /\ Len(checks) < Len(Modes)
    /\ \/ checks' = Append(checks, Answer(Mode))
       \/ "child" \in Faults /\ checks' = Append(checks, Silent)
    /\ UNCHANGED <<stage, host, env, seen, output, exit, steady>>

\* ldconfig or a child writes bytes that do not decode: a UnicodeDecodeError that
\* nothing catches ends the process
UndecodableOutput ==
    /\ "bytes" \in Faults
    /\ stage \in {"libraries", "children"}
    /\ Exit("one")
    /\ UNCHANGED <<host, env, seen, checks, output, steady>>

ChildrenEnd ==
    /\ stage = "children"
    /\ Len(checks) = Len(Modes)
    /\ stage' = "create"
    /\ UNCHANGED <<host, env, seen, checks, output, exit, steady>>

Runtime == checks[1]
Nvml == checks[4]

\* Mutant of Diagnose: a runtime that works settles it.
DiagnoseRuntimeFirst ==
    IF Runtime.cpuOnly = "yes" THEN "PYTORCH_CPU_BUILD"
    ELSE IF Runtime.succeeded /\ Runtime.available = "yes" /\ Runtime.devices
         THEN "CUDA_AVAILABLE"
    ELSE IF Disabled("cuda") \/ Disabled("nvidia") THEN "GPU_HIDDEN_BY_ENVIRONMENT"
    ELSE IF ComputeAvailable = "no" THEN "COMPUTE_CAPABILITY_NOT_MOUNTED"
    ELSE IF ~seen.nodes THEN "CUDA_DEVICE_NODES_MISSING"
    ELSE IF ~seen.libcuda THEN "LIBCUDA_NOT_LOADABLE"
    ELSE IF CompatPrecedes THEN "CUDA_COMPAT_LIBRARY_CONFLICT"
    ELSE IF Runtime.version THEN "CUDA_RUNTIME_INITIALIZATION_FAILED"
    ELSE "UNKNOWN"

\* _diagnose
Diagnose ==
    IF Runtime.cpuOnly = "yes" THEN "PYTORCH_CPU_BUILD"
    ELSE IF Disabled("cuda") \/ Disabled("nvidia") THEN "GPU_HIDDEN_BY_ENVIRONMENT"
    ELSE IF ComputeAvailable = "no" THEN "COMPUTE_CAPABILITY_NOT_MOUNTED"
    ELSE IF ~seen.nodes THEN "CUDA_DEVICE_NODES_MISSING"
    ELSE IF ~seen.libcuda THEN "LIBCUDA_NOT_LOADABLE"
    ELSE IF Runtime.succeeded /\ Runtime.available = "yes" /\ Runtime.devices
         THEN "CUDA_AVAILABLE"
    ELSE IF CompatPrecedes THEN "CUDA_COMPAT_LIBRARY_CONFLICT"
    ELSE IF Runtime.version THEN "CUDA_RUNTIME_INITIALIZATION_FAILED"
    ELSE "UNKNOWN"

\* nvml_runtime_disagree
Disagree ==
    IF Runtime.available = "none" \/ Nvml.available = "none" THEN "none"
    ELSE YesNo(Runtime.available # Nvml.available)

-----------------------------------------------------------------------------
(* main *)

\* Mutant of CreateOutput: the file is opened with "w".
CreateOutputTruncating ==
    /\ stage = "create"
    /\ output' = "partial" /\ stage' = "write"
    /\ UNCHANGED <<host, env, seen, checks, exit, steady>>

\* open("x")
CreateOutput ==
    /\ stage = "create"
    /\ \/ /\ output = "absent"
          /\ output' = "partial" /\ stage' = "write"
          /\ UNCHANGED exit
       \/ /\ output # "absent" \/ "write" \in Faults
          /\ Exit("one")
          /\ UNCHANGED output
    /\ UNCHANGED <<host, env, seen, checks, steady>>

WriteOutput ==
    /\ stage = "write"
    /\ \/ output' = "whole" /\ stage' = "print" /\ UNCHANGED exit
       \/ "write" \in Faults /\ Exit("one") /\ UNCHANGED output
    /\ UNCHANGED <<host, env, seen, checks, steady>>

\* the copy on standard output, then the exit status
PrintReport ==
    /\ stage = "print"
    /\ \/ Exit(IF Diagnose = "CUDA_AVAILABLE" THEN "zero" ELSE "one")
       \/ "print" \in Faults /\ Exit("one")
    /\ UNCHANGED <<host, env, seen, checks, output, steady>>

-----------------------------------------------------------------------------
(* The rest of the machine *)

HostChanges ==
    /\ "host" \in Faults
    /\ stage \in {"nodes", "libraries", "children"}
    /\ host' \in Later \ {host}
    /\ steady' = FALSE
    /\ UNCHANGED <<stage, env, seen, checks, output, exit>>

OutputAppears ==
    /\ "output" \in Faults
    /\ output = "absent"
    /\ output' = "other"
    /\ UNCHANGED <<stage, host, env, seen, checks, exit, steady>>

Done == stage = "ended" /\ UNCHANGED vars

Next ==
    \/ LookAtNodes \/ LoadLibraries \/ RunChild \/ UndecodableOutput \/ ChildrenEnd
    \/ CreateOutput \/ WriteOutput \/ PrintReport
    \/ HostChanges \/ OutputAppears \/ Done

Spec == Init /\ [][Next]_vars

-----------------------------------------------------------------------------
(* Properties *)

Reported == stage \in {"create", "write", "print"}

Hides(raw) == raw \in {<<"">>, <<"-1">>, <<"none">>, <<"void">>}
\* a list of capabilities that has neither compute nor all
LeavesComputeOut(raw) ==
    /\ raw # Unset /\ ~Hides(raw) /\ Distinct(raw)
    /\ Parts(raw) \subseteq Words \ {"compute", "all"}

\* The specific diagnoses that are true of this host and environment.
Causes ==
    {d \in {"PYTORCH_CPU_BUILD", "GPU_HIDDEN_BY_ENVIRONMENT", "COMPUTE_CAPABILITY_NOT_MOUNTED",
            "CUDA_DEVICE_NODES_MISSING", "LIBCUDA_NOT_LOADABLE", "CUDA_COMPAT_LIBRARY_CONFLICT"} :
        \/ d = "PYTORCH_CPU_BUILD" /\ host.torch = "cpu"
        \/ d = "GPU_HIDDEN_BY_ENVIRONMENT" /\ (Hides(env.cuda) \/ Hides(env.nvidia))
        \/ d = "COMPUTE_CAPABILITY_NOT_MOUNTED" /\ LeavesComputeOut(env.capabilities)
        \/ d = "CUDA_DEVICE_NODES_MISSING" /\ host.nodes # {"gpu", "control"}
        \/ d = "LIBCUDA_NOT_LOADABLE" /\ host.libcuda = "absent"
        \/ d = "CUDA_COMPAT_LIBRARY_CONFLICT" /\ (host.libcuda = "compat" \/ PathPutsCompatFirst)}

\* Of a host that stood still, and whose nodes were not cut off by the limit of the
\* listing: CUDA_AVAILABLE is reported exactly if CUDA works, whichever child failed
\* and whatever the parent's environment makes of NVML, a specific diagnosis is
\* true, a vague one leaves no cause of the machine's unnamed, and where both children
\* answered a disagreement is reported exactly if NVML counts a device that the
\* runtime cannot use.
DiagnosisNamesCause ==
    Reported /\ steady /\ host.ahead + 2 <= MaxNodes =>
        /\ Diagnose = "CUDA_AVAILABLE" =>
               RuntimeWorks /\ Causes \subseteq {"CUDA_COMPAT_LIBRARY_CONFLICT"}
        /\ RuntimeWorks /\ Runtime # Silent /\ Causes \subseteq {"CUDA_COMPAT_LIBRARY_CONFLICT"} =>
               Diagnose = "CUDA_AVAILABLE"
        /\ Diagnose \notin {"CUDA_AVAILABLE", "CUDA_RUNTIME_INITIALIZATION_FAILED", "UNKNOWN"} =>
               Diagnose \in Causes
        /\ Diagnose \in {"CUDA_RUNTIME_INITIALIZATION_FAILED", "UNKNOWN"} =>
               Causes \subseteq {"CUDA_COMPAT_LIBRARY_CONFLICT", "PYTORCH_CPU_BUILD"}
        /\ Disagree # "none" => (Disagree = "yes" <=> NvmlWorks /\ ~RuntimeWorks)

\* A path that exists is never touched, a whole report never altered, and the process
\* succeeds only with a whole report of its own that says CUDA_AVAILABLE on disk.
ReportIsCreated ==
    [][/\ output \in {"other", "whole"} => output' = output
       /\ exit' # exit /\ exit' = "zero" => output' = "whole" /\ Diagnose = "CUDA_AVAILABLE"]_vars
=============================================================================
