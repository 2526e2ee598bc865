--------------------------- MODULE MCCudaPreflight ---------------------------
(***************************************************************************)
(* CudaPreflight on every small host whose listing is short, one whose     *)
(* listing is cut off, and one environment for each class of values.       *)
(***************************************************************************)
EXTENDS CudaPreflight

CONSTANT unset

MCHosts ==
    {h \in [nodes: {{}, {"gpu"}, {"gpu", "control"}}, ahead: {0, 3},
            libcuda: {"absent", "driver", "compat", "versioned"},
            torch: {"missing", "cpu", "cuda"}, runtime: BOOLEAN, nvml: BOOLEAN] :
        h.ahead = 3 => h.libcuda = "driver" /\ h.torch = "cuda" /\ h.runtime /\ h.nvml}

\* a driver that comes up, and one that goes away
Up == [nodes |-> {"gpu", "control"}, ahead |-> 0, libcuda |-> "driver", torch |-> "cuda",
       runtime |-> TRUE, nvml |-> TRUE]
MCLater == {Up, [Up EXCEPT !.nodes = {}, !.libcuda = "absent"]}

Plain == [cuda |-> unset, nvidia |-> <<"all">>, capabilities |-> <<"compute", "utility">>,
          path |-> unset, nvmlCheck |-> FALSE]

MCEnvironments ==
    {Plain, [Plain EXCEPT !.nvmlCheck = TRUE], [Plain EXCEPT !.capabilities = unset]} \cup
    {[Plain EXCEPT !.cuda = v] : v \in {<<"">>, <<"-1">>, <<"-1", "0">>, <<"0", "1">>, <<"GPU">>, <<"MIG">>}} \cup
    {[Plain EXCEPT !.nvidia = v] : v \in {unset, <<"void">>, <<"none">>, <<"0">>}} \cup
    {[Plain EXCEPT !.capabilities = v] :
        v \in {<<"all">>, <<"utility">>, <<"utility", "utility">>, <<"other">>, <<"none">>}} \cup
    {[Plain EXCEPT !.path = v] :
        v \in {<<"">>, <<"compat", "host">>, <<"host", "compat">>, <<"other", "compat">>}}
=============================================================================
