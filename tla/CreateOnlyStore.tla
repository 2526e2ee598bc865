--------------------------- MODULE CreateOnlyStore ---------------------------
(***************************************************************************)
(* What the evidence store promises its callers: content is added at most  *)
(* by one call and in one indivisible step, a call is answered "created"   *)
(* only if it added the content, "deduplicated" only if it saw the content *)
(* intact, and no call takes content away.  A call may be refused at any   *)
(* time, even after it added its content.  Only the outside world disturbs *)
(* an object.                                                              *)
(***************************************************************************)
CONSTANTS Put, Content

VARIABLES store, put

vars == <<store, put>>

Final == {"created", "deduplicated", "refused"}

Init ==
    /\ store = [c \in Content |-> "absent"]
    /\ put \in [Put -> [content: Content, phase: {"idle"}]]

Move(p, from, to) ==
    /\ put[p].phase = from
    /\ put' = [put EXCEPT ![p].phase = to]

Begin(p) == Move(p, "idle", "pending") /\ UNCHANGED store

\* the linearisation point of a put that creates
Add(p) ==
    /\ store[put[p].content] = "absent"
    /\ Move(p, "pending", "added")
    /\ store' = [store EXCEPT ![put[p].content] = "intact"]

\* the linearisation point of a put that finds its content stored
Observe(p) ==
    /\ store[put[p].content] = "intact"
    /\ Move(p, "pending", "observed")
    /\ UNCHANGED store

Answer(p) ==
    /\ \/ Move(p, "added", "created")
       \/ Move(p, "observed", "deduplicated")
    /\ UNCHANGED store

Refuse(p) ==
    /\ \E from \in {"pending", "added", "observed"} : Move(p, from, "refused")
    /\ UNCHANGED store

\* every call in progress is cut off at once
Abandon ==
    /\ put' = [p \in Put |-> IF put[p].phase \in Final \cup {"idle"} THEN put[p]
                             ELSE [put[p] EXCEPT !.phase = "refused"]]
    /\ UNCHANGED store

Disturb(c) ==
    /\ store[c] # "absent"
    /\ \E s \in {"absent", "damaged"} : store' = [store EXCEPT ![c] = s]
    /\ UNCHANGED put

Next ==
    \/ \E p \in Put : Begin(p) \/ Add(p) \/ Observe(p) \/ Answer(p) \/ Refuse(p)
    \/ Abandon
    \/ \E c \in Content : Disturb(c)

Spec == Init /\ [][Next]_vars
=============================================================================
