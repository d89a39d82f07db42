----------------------------- MODULE PolicyLoop -----------------------------
(***************************************************************************)
(* PrefetchPolicy.decide as it runs: one walk down the predictor's answer, *)
(* likeliest page first, with the bytes planned so far.  PrefetchPolicy    *)
(* says in one line (Decisions) what the server gets from it; here the     *)
(* walk is shown to give that, and what it gives when sizes are known.     *)
(*                                                                         *)
(* The inputs are chosen in Init and the walk has no other party.  Ties in *)
(* the answer are walked in any order.                                     *)
(***************************************************************************)
EXTENDS PrefetchPolicy, Sequences

CONSTANTS
    Urls,
    Probabilities,      \* percent
    KnownSizes,         \* what the sizes argument may say of a page
    LinkOutlooks        \* the outlooks to decide under

ASSUME LoopAssumption ==
    /\ IsFiniteSet(Urls)
    /\ Probabilities \subseteq 0..100
    /\ KnownSizes \subseteq Nat
    /\ LinkOutlooks \subseteq Outlooks

VARIABLES
    probs, sizes, cached, outlook,      \* the arguments
    left,                               \* pages the loop has not come to
    chosen, planned,
    done

arguments == <<probs, sizes, cached, outlook>>
vars == <<arguments, left, chosen, planned, done>>

threshold == LimitThreshold(outlook)
budget == LimitBudget(outlook)

SizeOf(u) == IF u \in DOMAIN sizes THEN sizes[u] ELSE DefaultSize

\* Mutant: a page that just fills the budget is left out.
FitsBelow(u) == planned + SizeOf(u) < budget
Fits(u) == planned + SizeOf(u) <= budget

\* Mutant: the answer is walked as it comes.
HeadsUnsorted == left
\* The page the loop comes to next: the head of the sorted answer, ties open.
Heads == MostLikely(left, probs)

Wanted(u) == probs[u] >= threshold /\ u \notin cached

Choose ==
    /\ ~done
    /\ \E u \in Heads :
         /\ Wanted(u) /\ Fits(u)
         /\ chosen' = Append(chosen, u)
         /\ planned' = planned + SizeOf(u)
         /\ left' = left \ {u}
    /\ UNCHANGED <<arguments, done>>

\* Mutant: the loop ends at the first page that does not fit.
StopAtFull ==
    /\ ~done
    /\ \E u \in Heads :
         /\ probs[u] >= threshold
         /\ u \in cached \/ ~Fits(u)
         /\ left' = IF u \in cached THEN left \ {u} ELSE {}
    /\ UNCHANGED <<arguments, chosen, planned, done>>

\* The client has it, or it does not fit: "a smaller, less likely page may still fit".
Continue ==
    /\ ~done
    /\ \E u \in Heads :
         /\ probs[u] >= threshold
         /\ u \in cached \/ ~Fits(u)
         /\ left' = left \ {u}
    /\ UNCHANGED <<arguments, chosen, planned, done>>

\* Below the threshold, or at the end of the answer.
Stop ==
    /\ ~done
    /\ left = {} \/ \E u \in Heads : probs[u] < threshold
    /\ done' = TRUE
    /\ UNCHANGED <<arguments, left, chosen, planned>>

Init ==
    /\ probs \in UNION {[S -> Probabilities] : S \in SUBSET Urls}
    /\ sizes \in UNION {[S -> KnownSizes] : S \in SUBSET DOMAIN probs}
    /\ cached \in SUBSET Urls
    /\ outlook \in LinkOutlooks
    /\ left = DOMAIN probs
    /\ chosen = <<>>
    /\ planned = 0
    /\ done = FALSE

Next == Choose \/ Continue \/ Stop

Spec == Init /\ [][Next]_vars
-----------------------------------------------------------------------------
Chosen == {chosen[i] : i \in DOMAIN chosen}

TypeOK ==
    /\ DOMAIN probs \subseteq Urls /\ probs \in [DOMAIN probs -> 0..100]
    /\ DOMAIN sizes \subseteq Urls /\ sizes \in [DOMAIN sizes -> Nat]
    /\ cached \subseteq Urls
    /\ outlook \in Outlooks
    /\ left \subseteq DOMAIN probs
    /\ chosen \in Seq(DOMAIN probs)
    /\ planned \in 0..LimitBudget(outlook)
    /\ done \in BOOLEAN

\* The order pages are pushed in is the order of their probabilities.
PushOrder ==
    \A i, j \in DOMAIN chosen : i < j => probs[chosen[i]] >= probs[chosen[j]]

\* When the walk ends, no page that is likely enough and new to the client
\* was left out although it would still fit (prefetch_policy.py:103).
NothingFits ==
    done => \A u \in Eligible(probs, outlook, cached) : u \in Chosen \/ ~Fits(u)

\* What the server gets, without sizes, is what Decisions says.
AsDecided ==
    done /\ DOMAIN sizes = {} => Chosen \in Decisions(probs, outlook, cached)
=============================================================================
