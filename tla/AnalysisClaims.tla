---------------------------- MODULE AnalysisClaims ----------------------------
(***************************************************************************)
(* What the API promises about structural analyses.  Evidence is           *)
(* registered and may be withdrawn again, but never while a claim refers   *)
(* to it.  A request claims the evidence it names in one indivisible step, *)
(* and only while no other claim on it is active; it settles its claim in  *)
(* one step, once, and then tells its client how.  A request may be lost   *)
(* at any time: then its claim stays as it is, for ever, and whoever asked *)
(* is told nothing, not even of a claim that is settled.                   *)
(***************************************************************************)
CONSTANTS Analysis, Evidence

VARIABLES
    evidence,   \* what is registered
    ask,        \* the evidence each request names
    claim,      \* the claim of each request
    answer      \* what its client was told

vars == <<evidence, ask, claim, answer>>

Outcome == {"succeeded", "failed", "refused"}

Init ==
    /\ evidence = {}
    /\ ask \in [Analysis -> Evidence]
    /\ claim = [a \in Analysis |-> "none"]
    /\ answer = [a \in Analysis |-> "none"]

Register(e) ==
    /\ evidence' = evidence \cup {e}
    /\ UNCHANGED <<ask, claim, answer>>

Withdraw(e) ==
    /\ \A a \in Analysis : claim[a] # "none" => ask[a] # e
    /\ evidence' = evidence \ {e}
    /\ UNCHANGED <<ask, claim, answer>>

Taken(e) == \E b \in Analysis : claim[b] = "active" /\ ask[b] = e

Waiting(a) == answer[a] = "none"
Tell(a, what) == answer' = [answer EXCEPT ![a] = what]

Claim(a) ==
    /\ Waiting(a) /\ claim[a] = "none"
    /\ ask[a] \in evidence /\ ~Taken(ask[a])
    /\ claim' = [claim EXCEPT ![a] = "active"]
    /\ UNCHANGED <<evidence, ask, answer>>

Settle(a) ==
    /\ Waiting(a) /\ claim[a] = "active"
    /\ \E outcome \in Outcome : claim' = [claim EXCEPT ![a] = outcome]
    /\ UNCHANGED <<evidence, ask, answer>>

Report(a) ==
    /\ Waiting(a) /\ claim[a] \in Outcome
    /\ Tell(a, claim[a])
    /\ UNCHANGED <<evidence, ask, claim>>

\* there is no such evidence, or somebody else is at it
Decline(a) ==
    /\ Waiting(a) /\ claim[a] = "none"
    /\ \/ ask[a] \notin evidence /\ Tell(a, "no_evidence")
       \/ Taken(ask[a]) /\ Tell(a, "busy")
    /\ UNCHANGED <<evidence, ask, claim>>

\* any number of requests are cut off at once
Lose(S) ==
    /\ \A a \in S : Waiting(a)
    /\ answer' = [a \in Analysis |-> IF a \in S THEN "lost" ELSE answer[a]]
    /\ UNCHANGED <<evidence, ask, claim>>

Next ==
    \/ \E S \in SUBSET Analysis : Lose(S)
    \/ \E a \in Analysis : Claim(a) \/ Settle(a) \/ Report(a) \/ Decline(a)
    \/ \E e \in Evidence : Register(e) \/ Withdraw(e)

Spec == Init /\ [][Next]_vars
=============================================================================
