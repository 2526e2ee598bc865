----------------------------- MODULE PrepaidJobs -----------------------------
(***************************************************************************)
(* What the control of the paid endpoint promises to the one who pays.  A  *)
(* job is bought on approved terms, out of a number of slots and of funds  *)
(* that are never overdrawn; its terms stay.  It ends at most once, with a *)
(* last word.  The one who pays is told of one job at a time, only of one  *)
(* that has ended, and the truth: its last word if that is fit to be       *)
(* passed on for what was bought, that it was cancelled if it was, or no   *)
(* more than that it has ended.                                            *)
(***************************************************************************)
EXTENDS Integers

CONSTANTS
    Job,
    Slots,          \* how many jobs may be bought over all
    Approved,       \* the terms that were approved: an operation, a price and more
    NoTerms,
    Word,           \* how jobs may end
    NoWord,
    CancelledWord,  \* the words of jobs that were cancelled
    Fit,            \* for each operation, the words that may be passed on
    Cap, Billed,    \* what may be spent over all, and what was spent before
    Account         \* what there is to spend

VARIABLES
    left,   \* how many more may be bought
    terms,  \* of the jobs that were bought
    spent,  \* what they cost at most
    word,   \* the last words of those that have ended
    told    \* what the one who pays was told last

vars == <<left, terms, spent, word, told>>

Nothing == [kind |-> "nothing"]
Bought == {j \in Job : terms[j] # NoTerms}
Going == {j \in Bought : word[j] = NoWord}

Init ==
    /\ left = Slots
    /\ terms = [j \in Job |-> NoTerms]
    /\ spent = 0
    /\ word = [j \in Job |-> NoWord]
    /\ told = Nothing

Buy(j, t) ==
    /\ j \notin Bought
    /\ left > 0 /\ left' = left - 1
    /\ spent + t.price <= Account
    /\ spent + t.price + Billed <= Cap
    /\ terms' = [terms EXCEPT ![j] = t]
    /\ spent' = spent + t.price
    /\ told' = Nothing
    /\ UNCHANGED word

\* any number of jobs end at once, each in its own way
End ==
    /\ word' \in [Job -> Word \cup {NoWord}]
    /\ \A j \in Job : word'[j] = word[j] \/ j \in Going
    /\ UNCHANGED <<left, terms, spent, told>>

\* a job is ended at the wish of the one who pays
Cancel(j) ==
    /\ told = Nothing
    /\ j \in Going
    /\ \E w \in CancelledWord : word' = [word EXCEPT ![j] = w]
    /\ told' = [kind |-> "cancelled", job |-> j]
    /\ UNCHANGED <<left, terms, spent>>

News(j) ==
    {[kind |-> "ended", job |-> j]} \cup
    (IF word[j] \in CancelledWord THEN {[kind |-> "cancelled", job |-> j]} ELSE {}) \cup
    (IF word[j] \in Fit[terms[j].operation]
     THEN {[kind |-> "result", job |-> j, word |-> word[j]]} ELSE {})

Tell(j) ==
    /\ told = Nothing
    /\ j \in Bought \ Going
    /\ told' \in News(j)
    /\ UNCHANGED <<left, terms, spent, word>>

\* the one who pays turns to something else
TurnAway == told' = Nothing /\ UNCHANGED <<left, terms, spent, word>>

Next ==
    \/ TurnAway
    \/ End
    \/ \E j \in Job : Cancel(j) \/ Tell(j) \/ \E t \in Approved : Buy(j, t)

Spec == Init /\ [][Next]_vars
=============================================================================
