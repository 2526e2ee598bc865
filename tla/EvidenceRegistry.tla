--------------------------- MODULE EvidenceRegistry ---------------------------
(***************************************************************************)
(* What the API promises about uploads.  A registry holds at most one      *)
(* entry for a case and a content, each with an id that is issued once.    *)
(* An upload is accepted with the id of an entry for what it brought:      *)
(* "created" when it registered the entry itself, "reused" when another    *)
(* upload did.  While the store can be trusted, an entry is registered     *)
(* only after its content is stored, stays with its content for ever, and  *)
(* an upload is accepted only for an entry that is there.  When the store  *)
(* cannot be trusted an entry may be retracted, by an upload of the same   *)
(* case and content, which then says so or is cut off before it can.       *)
(***************************************************************************)
CONSTANTS Upload, Case, Content, NoId, Trusted

VARIABLES
    stored,     \* the contents that are stored
    registry,   \* the entries
    issued,     \* the entries there ever were
    request,    \* what each upload brings
    answer      \* what each upload was told

vars == <<stored, registry, issued, request, answer>>

Same(e, q) == e.case = q.case /\ e.content = q.content

Init ==
    /\ stored = {} /\ registry = {} /\ issued = {}
    /\ request \in [Upload -> [case: Case, content: Content]]
    /\ answer = [u \in Upload |-> [kind |-> "none", id |-> NoId]]

Waiting(u) == answer[u].kind = "none"
Retracting(u) == answer[u].kind = "retracting"   \* will be told "inconsistent"
Tell(u, kind, id) == answer' = [answer EXCEPT ![u] = [kind |-> kind, id |-> id]]

Store(c) ==
    /\ stored' = stored \cup {c}
    /\ UNCHANGED <<registry, issued, request, answer>>

Register(u) ==
    LET entry == [id |-> u, case |-> request[u].case, content |-> request[u].content] IN
    /\ Waiting(u) /\ \A e \in issued : e.id # u
    /\ \A e \in registry : ~Same(e, request[u])
    /\ Trusted => request[u].content \in stored
    /\ registry' = registry \cup {entry}
    /\ issued' = issued \cup {entry}
    /\ UNCHANGED <<stored, request, answer>>

Accept(u) ==
    /\ Waiting(u)
    /\ \E e \in issued :
          /\ Same(e, request[u])
          /\ Trusted => e \in registry /\ e.content \in stored
          /\ Tell(u, IF e.id = u THEN "created" ELSE "reused", e.id)
    /\ UNCHANGED <<stored, registry, issued, request>>

Refuse(u) ==
    /\ Waiting(u) /\ Tell(u, "refused", NoId)
    /\ UNCHANGED <<stored, registry, issued, request>>

\* any number of uploads are cut off at once
Abandon(S) ==
    /\ \A u \in S : Waiting(u) \/ Retracting(u)
    /\ answer' = [u \in Upload |-> IF u \in S THEN [kind |-> "refused", id |-> NoId]
                                   ELSE answer[u]]
    /\ UNCHANGED <<stored, registry, issued, request>>

Retract(u) ==
    /\ ~Trusted
    /\ Waiting(u) /\ Tell(u, "retracting", NoId)
    /\ \/ UNCHANGED registry
       \/ \E e \in registry : Same(e, request[u]) /\ registry' = registry \ {e}
    /\ UNCHANGED <<stored, issued, request>>

Admit(u) ==
    /\ Retracting(u) /\ Tell(u, "inconsistent", NoId)
    /\ UNCHANGED <<stored, registry, issued, request>>

Spoil(c) ==
    /\ ~Trusted
    /\ stored' = stored \ {c}
    /\ UNCHANGED <<registry, issued, request, answer>>

Next ==
    \/ \E S \in SUBSET Upload : Abandon(S)
    \/ \E c \in Content : Store(c) \/ Spoil(c)
    \/ \E u \in Upload : Register(u) \/ Accept(u) \/ Refuse(u) \/ Retract(u) \/ Admit(u)

Spec == Init /\ [][Next]_vars
=============================================================================
