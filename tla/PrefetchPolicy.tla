--------------------------- MODULE PrefetchPolicy ---------------------------
(***************************************************************************)
(* edgeproxy/server/prefetch_policy.py: which predicted links may be       *)
(* pushed, and within how many bytes, given what the client has said about *)
(* its connectivity.  The policy keeps no state, so this module has no     *)
(* variables: it is the vocabulary ServerPrefetch and PolicyLoop share.    *)
(*                                                                         *)
(* A predictor's answer is a function from the URLs it scored to a         *)
(* probability in percent (a float in 0..1 in the code).  Python sorts the *)
(* answer by probability and walks down the list; here the list is the     *)
(* function itself and "first in the list" is "no other one scores         *)
(* higher", which leaves the order of equal scores open.                   *)
(***************************************************************************)
EXTENDS Integers, FiniteSets

CONSTANTS
    Adaptive,                \* FALSE: the fixed policy of --fixed-policy
    Threshold, Budget,       \* normal operation
    HandoverThreshold, HandoverBudget, HandoverBudgetPerOutage,
    MaxBudget,
    MeteredPercent,          \* metered_factor
    DefaultSize,             \* wire-size guess for a page not fetched yet
    TopK, MinOutage          \* depth2_top_k, depth2_min_outage_s

ASSUME PolicyConfig ==
    /\ Adaptive \in BOOLEAN
    /\ {Threshold, HandoverThreshold} \subseteq 0..100
    /\ {Budget, HandoverBudget, HandoverBudgetPerOutage, MaxBudget,
        TopK, MinOutage} \subseteq Nat
    /\ MeteredPercent \in 0..100
    /\ DefaultSize \in Nat \ {0}

\* The smaller of two numbers.
Least(a, b) == IF a <= b THEN a ELSE b

\* What the server believes about a client's connectivity.
Outlooks == [imminent: BOOLEAN, outage: Int, metered: BOOLEAN]
NoOutlook == [imminent |-> FALSE, outage |-> 0, metered |-> FALSE]

Warned(o) == Adaptive /\ o.imminent

\* limits: the probability a link must reach ...
LimitThreshold(o) == IF Warned(o) THEN HandoverThreshold ELSE Threshold

\* ... and the bytes a plan may put on the network.
BaseBudget(o) ==
    IF Warned(o)
    THEN HandoverBudget + HandoverBudgetPerOutage * (IF o.outage > 0 THEN o.outage ELSE 0)
    ELSE Budget

LimitBudget(o) ==
    Least(IF o.metered THEN (BaseBudget(o) * MeteredPercent) \div 100 ELSE BaseBudget(o),
          MaxBudget)

\* depth2_k: how many links of every likely next page to push as well.
Depth2K(o) == IF Warned(o) /\ o.outage >= MinOutage THEN TopK ELSE 0

\* The most likely members of S: where a loop over the sorted answer starts.
MostLikely(S, probs) == {u \in S : \A v \in S : probs[u] >= probs[v]}

\* The first n members of S in the sorted answer, for every order of ties.
Top(n, S, probs) ==
    {T \in SUBSET S : /\ Cardinality(T) = Least(n, Cardinality(S))
                      /\ \A u \in T, v \in S \ T : probs[u] >= probs[v]}

Eligible(probs, o, cached) ==
    {u \in DOMAIN probs \ cached : probs[u] >= LimitThreshold(o)}

\* decide, as the server calls it.  No caller passes sizes, so every page is
\* planned at DefaultSize and the loop keeps the first pages that fit.
Decisions(probs, o, cached) ==
    Top(LimitBudget(o) \div DefaultSize, Eligible(probs, o, cached), probs)
=============================================================================
