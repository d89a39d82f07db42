--------------------------- MODULE ProgramsProofs ---------------------------
(***************************************************************************)
(* What holds of the programs that stand alone for any number of runs, any *)
(* sessions, any site and any number of faults: the logs of a finished run *)
(* are whole, the offline server finds every answer, sessions stay within  *)
(* the snapshot, links are offered from the content first.  And what the   *)
(* walk of decide gives for any answer, sizes and configuration.           *)
(*                                                                         *)
(* The walk meets the pages in the order of their probabilities, so what   *)
(* is chosen is above what is left; and planned only grows, so a page that *)
(* did not fit when the walk came to it never fits again.  Without sizes   *)
(* all pages are planned alike: planned counts them, and once one does not *)
(* fit none does, so what is chosen are the first pages of the answer.     *)
(***************************************************************************)
EXTENDS MCPrograms, FiniteSetTheorems, SequenceTheorems, WellFoundedInduction, TLAPS

(* The walk of decide. *)

\* What is chosen is at least as likely as what is left.
AboveLeft == \A i \in DOMAIN chosen, u \in left : probs[chosen[i]] >= probs[u]

\* Every page the walk has passed was had, chosen or too big.
Accounted ==
    /\ \A u \in DOMAIN probs \ left : u \in cached \/ u \in Chosen \/ ~Fits(u)
    /\ done => \A u \in left : probs[u] < threshold

\* Every page chosen was wanted, is chosen once, and adds to planned.
Counted ==
    /\ Chosen \subseteq DOMAIN probs \ left
    /\ \A u \in Chosen : Wanted(u)
    /\ DOMAIN sizes = {} => planned = DefaultSize * Cardinality(Chosen)

\* Without sizes, what is chosen comes before what was wanted and passed over.
FirstPages ==
    DOMAIN sizes = {} =>
        \A u \in Chosen, v \in DOMAIN probs \ left :
            Wanted(v) /\ v \notin Chosen => probs[u] >= probs[v]

PolicyInv == TypeOK /\ PushOrder /\ AboveLeft /\ Accounted /\ Counted /\ FirstPages

\* The budget is a number of bytes, for any outlook.
LEMMA BudgetType == ASSUME NEW o \in Outlooks PROVE LimitBudget(o) \in Nat /\ LimitThreshold(o) \in Nat
<1>1. BaseBudget(o) \in Nat
  BY PolicyConfig DEF BaseBudget, Outlooks
<1>2. BaseBudget(o) * MeteredPercent \in Nat
  BY <1>1, PolicyConfig
<1>3. (BaseBudget(o) * MeteredPercent) \div 100 \in Nat
  BY <1>2
<1>4. LimitBudget(o) \in Nat
  BY <1>1, <1>3, PolicyConfig DEF LimitBudget, Least
<1>5. LimitThreshold(o) \in Nat
  BY PolicyConfig DEF LimitThreshold
<1>6. QED
  BY <1>4, <1>5

\* A page that was scored has a number for its probability.
LEMMA ScoreType == ASSUME TypeOK, NEW u \in DOMAIN probs PROVE probs[u] \in Nat
<1>1. probs \in [DOMAIN probs -> 0..100]
  BY DEF TypeOK
<1>2. probs[u] \in 0..100
  BY <1>1
<1>3. QED
  BY <1>2

\* A page that is known by size or not has a size.
LEMMA SizeType == ASSUME TypeOK, NEW u PROVE SizeOf(u) \in Nat
<1>1. CASE u \in DOMAIN sizes
  BY <1>1 DEF TypeOK, SizeOf
<1>2. CASE u \notin DOMAIN sizes
  BY <1>2, PolicyConfig DEF SizeOf
<1>3. QED
  BY <1>1, <1>2

\* The walk starts with the whole answer left and nothing chosen.
LEMMA PolicyBegins == Init => PolicyInv
<1> SUFFICES ASSUME Init PROVE PolicyInv
  OBVIOUS
<1>1. TypeOK
  <2>1. PICK S \in SUBSET Urls : probs \in [S -> Probabilities]
    BY DEF Init
  <2>2. PICK K \in SUBSET S : sizes \in [K -> KnownSizes]
    BY <2>1 DEF Init
  <2>3. outlook \in Outlooks
    BY LoopAssumption DEF Init
  <2>4. planned \in 0..LimitBudget(outlook)
    BY <2>3, BudgetType DEF Init
  <2>5. QED
    <3>1. probs \in [DOMAIN probs -> 0..100] /\ DOMAIN probs \subseteq Urls
      BY <2>1, LoopAssumption
    <3>2. sizes \in [DOMAIN sizes -> Nat] /\ DOMAIN sizes \subseteq Urls
      BY <2>1, <2>2, LoopAssumption
    <3>3. cached \subseteq Urls /\ left = DOMAIN probs /\ chosen = <<>> /\ done = FALSE
      BY DEF Init
    <3>4. chosen \in Seq(DOMAIN probs)
      BY <3>3
    <3>5. done \in BOOLEAN /\ left \subseteq DOMAIN probs
      BY <3>3
    <3>6. QED
      BY <3>1, <3>2, <3>3, <3>4, <3>5, <2>3, <2>4 DEF TypeOK
<1>2. PushOrder /\ AboveLeft /\ Accounted
  BY DEF Init, PushOrder, AboveLeft, Accounted
<1>3. Counted /\ FirstPages
  <2>1. Chosen = {} /\ planned = 0
    BY DEF Init, Chosen
  <2>2. Cardinality({}) = 0 /\ DefaultSize \in Nat
    BY FS_EmptySet, PolicyConfig
  <2>3. DefaultSize * 0 = 0
    BY <2>2
  <2>4. QED
    BY <2>1, <2>2, <2>3 DEF Counted, FirstPages
<1>4. QED
  BY <1>1, <1>2, <1>3 DEF PolicyInv

\* The pages chosen are finitely many.
LEMMA ChosenFinite == ASSUME TypeOK PROVE IsFiniteSet(Chosen) /\ IsFiniteSet(DOMAIN probs)
<1>1. DOMAIN probs \subseteq Urls /\ Chosen \subseteq DOMAIN probs
  BY DEF TypeOK, Chosen
<1>2. IsFiniteSet(Urls)
  BY LoopAssumption
<1>3. QED
  BY <1>1, <1>2, FS_Subset

\* What the division of the budget says of the pages that fit.
LEMMA Quotient ==
    ASSUME NEW B \in Nat, NEW D \in Nat \ {0}
    PROVE  /\ B \div D \in Nat
           /\ D * (B \div D) <= B
           /\ B < D * (B \div D) + D
OBVIOUS

LEMMA Multiples ==
    ASSUME NEW D \in Nat \ {0}, NEW m \in Nat, NEW q \in Nat, m > q
    PROVE  D * m >= D * q + D
<1>1. PICK d \in Nat : m = q + 1 + d
  <2>1. m - q - 1 \in Nat /\ m = q + 1 + (m - q - 1)
    OBVIOUS
  <2>2. QED
    BY <2>1
<1>2. D * m = D * q + D + D * d
  BY <1>1
<1>3. D * d \in Nat /\ D * q \in Nat /\ D * m \in Nat
  OBVIOUS
<1>4. QED
  BY <1>2, <1>3

\* A page that is chosen joins the end of the list and takes its bytes.
LEMMA PolicyChooseKeeps == PolicyInv /\ Choose => PolicyInv'
<1> SUFFICES ASSUME PolicyInv, Choose PROVE PolicyInv'
  OBVIOUS
<1>1. PICK u \in Heads : /\ Wanted(u) /\ Fits(u)
                         /\ chosen' = Append(chosen, u)
                         /\ planned' = planned + SizeOf(u)
                         /\ left' = left \ {u}
  BY DEF Choose
<1>2. /\ u \in left /\ u \in DOMAIN probs
      /\ \A v \in left : probs[u] >= probs[v]
      /\ UNCHANGED <<arguments, done>> /\ ~done
  BY <1>1 DEF Heads, MostLikely, Choose, PolicyInv, TypeOK
<1>3. SizeOf(u) \in Nat /\ LimitBudget(outlook) \in Nat /\ probs \in [DOMAIN probs -> 0..100]
  BY SizeType, BudgetType DEF PolicyInv, TypeOK
<1>4. /\ chosen \in Seq(DOMAIN probs) /\ Len(chosen') = Len(chosen) + 1
      /\ \A i \in DOMAIN chosen : i \in DOMAIN chosen' /\ chosen'[i] = chosen[i]
      /\ chosen'[Len(chosen) + 1] = u
      /\ DOMAIN chosen' = DOMAIN chosen \cup {Len(chosen) + 1}
      /\ DOMAIN chosen = 1..Len(chosen) /\ Len(chosen) \in Nat
  BY <1>1, <1>2 DEF PolicyInv, TypeOK
<1>5. TypeOK'
  <2>1. chosen' \in Seq(DOMAIN probs)
    BY <1>1, <1>2, <1>4
  <2>2. planned' \in 0..LimitBudget(outlook)
    BY <1>1, <1>3 DEF PolicyInv, TypeOK, Fits, budget
  <2>3. QED
    BY <1>1, <1>2, <2>1, <2>2 DEF PolicyInv, TypeOK, arguments
<1>6. PushOrder'
  BY <1>2, <1>3, <1>4 DEF PolicyInv, PushOrder, AboveLeft, arguments
<1>7. AboveLeft'
  BY <1>1, <1>2, <1>3, <1>4 DEF PolicyInv, AboveLeft, arguments
<1>8. Accounted'
  <2>1. Chosen' = Chosen \cup {u}
    BY <1>4 DEF Chosen
  <2>2. \A v : ~Fits(v) => ~Fits(v)'
    <3> SUFFICES ASSUME NEW v, ~Fits(v) PROVE ~Fits(v)'
      OBVIOUS
    <3>1. SizeOf(v) \in Nat /\ SizeOf(v)' = SizeOf(v) /\ budget' = budget
      BY <1>2, SizeType DEF PolicyInv, SizeOf, budget, arguments
    <3>2. QED
      BY <3>1, <1>1, <1>3 DEF PolicyInv, TypeOK, Fits, budget
  <2>3. QED
    BY <1>1, <1>2, <2>1, <2>2 DEF PolicyInv, Accounted, arguments
<1>9. Chosen' = Chosen \cup {u} /\ u \notin Chosen
  BY <1>2, <1>4 DEF Chosen, PolicyInv, Counted
<1>10. Counted'
  <2>1. Cardinality(Chosen') = Cardinality(Chosen) + 1 /\ Cardinality(Chosen) \in Nat
    BY <1>9, ChosenFinite, FS_AddElement, FS_CardinalityType DEF PolicyInv
  <2>2. ASSUME DOMAIN sizes = {} PROVE planned' = DefaultSize * Cardinality(Chosen')
    <3>1. SizeOf(u) = DefaultSize /\ DefaultSize \in Nat
      BY <2>2, PolicyConfig DEF SizeOf
    <3>2. planned' = DefaultSize * Cardinality(Chosen) + DefaultSize
      BY <1>1, <2>2, <3>1 DEF PolicyInv, Counted
    <3>3. QED
      BY <2>1, <3>1, <3>2
  <2>3. QED
    BY <1>1, <1>2, <1>9, <2>2 DEF PolicyInv, Counted, Wanted, threshold, arguments
<1>11. FirstPages'
  <2> SUFFICES ASSUME DOMAIN sizes = {}, NEW v \in DOMAIN probs \ left, Wanted(v), v \notin Chosen
               PROVE  FALSE
    BY <1>1, <1>2, <1>9 DEF FirstPages, Wanted, threshold, arguments
  <2>1. ~Fits(v)
    BY DEF PolicyInv, Accounted, Wanted
  <2>2. SizeOf(v) = SizeOf(u)
    BY DEF SizeOf
  <2>3. QED
    BY <1>1, <2>1, <2>2 DEF Fits
<1>12. QED
  BY <1>5, <1>6, <1>7, <1>8, <1>10, <1>11 DEF PolicyInv

\* A page that is passed over stays had or too big.
LEMMA PolicyContinueKeeps == PolicyInv /\ Continue => PolicyInv'
<1> SUFFICES ASSUME PolicyInv, Continue PROVE PolicyInv'
  OBVIOUS
<1>1. PICK u \in Heads : /\ u \in cached \/ ~Fits(u)
                         /\ left' = left \ {u}
  BY DEF Continue
<1>2. UNCHANGED <<arguments, chosen, planned, done>> /\ ~done
  BY DEF Continue
<1>3. TypeOK' /\ PushOrder' /\ AboveLeft'
  BY <1>1, <1>2 DEF PolicyInv, TypeOK, PushOrder, AboveLeft, arguments
<1>4. Accounted'
  <2>1. Chosen' = Chosen /\ \A v : Fits(v)' = Fits(v)
    BY <1>2 DEF Chosen, Fits, SizeOf, budget, arguments
  <2>2. QED
    BY <1>1, <1>2, <2>1 DEF PolicyInv, Accounted, arguments
<1>5. Counted'
  BY <1>1, <1>2 DEF PolicyInv, Counted, Chosen, Wanted, threshold, arguments
<1>6. FirstPages'
  <2>1. u \in left /\ u \in DOMAIN probs
    BY DEF Heads, MostLikely, PolicyInv, TypeOK
  <2>2. \A w \in Chosen : probs[w] >= probs[u]
    BY <2>1 DEF Chosen, PolicyInv, AboveLeft
  <2>3. Chosen' = Chosen /\ \A v : Wanted(v)' = Wanted(v)
    BY <1>2 DEF Chosen, Wanted, threshold, arguments
  <2>4. QED
    BY <1>1, <1>2, <2>1, <2>2, <2>3 DEF PolicyInv, FirstPages, arguments
<1>7. QED
  BY <1>3, <1>4, <1>5, <1>6 DEF PolicyInv

\* When the head of what is left is too unlikely, so is all of it.
LEMMA PolicyStopKeeps == PolicyInv /\ Stop => PolicyInv'
<1> SUFFICES ASSUME PolicyInv, Stop PROVE PolicyInv'
  OBVIOUS
<1>1. UNCHANGED <<arguments, left, chosen, planned>> /\ done' = TRUE
  BY DEF Stop
<1>2. TypeOK' /\ PushOrder' /\ AboveLeft'
  BY <1>1 DEF PolicyInv, TypeOK, PushOrder, AboveLeft, arguments
<1>3. Accounted'
  <2>1. Chosen' = Chosen /\ (\A v : Fits(v)' = Fits(v)) /\ threshold' = threshold
    BY <1>1 DEF Chosen, Fits, SizeOf, budget, threshold, arguments
  <2>2. \A v \in left : probs[v] < threshold
    <3>1. CASE left = {}
      BY <3>1
    <3>2. CASE \E u \in Heads : probs[u] < threshold
      <4>1. PICK u \in Heads : probs[u] < threshold
        BY <3>2
      <4>2. threshold \in Nat /\ u \in left /\ \A v \in left : probs[u] >= probs[v]
        BY <4>1, BudgetType DEF Heads, MostLikely, threshold, PolicyInv, TypeOK
      <4>3. QED
        BY <4>1, <4>2, ScoreType DEF PolicyInv, TypeOK
    <3>3. QED
      BY <3>1, <3>2 DEF Stop
  <2>3. QED
    BY <1>1, <2>1, <2>2 DEF PolicyInv, Accounted, arguments
<1>4. Counted' /\ FirstPages'
  BY <1>1 DEF PolicyInv, Counted, FirstPages, Chosen, Wanted, threshold, arguments
<1>5. QED
  BY <1>2, <1>3, <1>4 DEF PolicyInv

\* A step that changes nothing.
LEMMA PolicyStutters == PolicyInv /\ UNCHANGED vars => PolicyInv'
<1> SUFFICES ASSUME PolicyInv, UNCHANGED vars PROVE PolicyInv'
  OBVIOUS
<1>1. Chosen' = Chosen /\ (\A v : Fits(v)' = Fits(v)) /\ threshold' = threshold
  BY DEF vars, arguments, Chosen, Fits, SizeOf, budget, threshold
<1>2. (TypeOK /\ PushOrder /\ AboveLeft /\ Accounted)'
  BY <1>1 DEF PolicyInv, TypeOK, PushOrder, AboveLeft, Accounted, vars, arguments
<1>3. (Counted /\ FirstPages)'
  BY <1>1 DEF PolicyInv, Counted, FirstPages, Wanted, vars, arguments
<1>4. QED
  BY <1>2, <1>3 DEF PolicyInv

\* The inductive invariant.
THEOREM PolicyInvariance == Spec => []PolicyInv
BY PolicyBegins, PolicyChooseKeeps, PolicyContinueKeeps, PolicyStopKeeps, PolicyStutters, PTL DEF Spec, Next

\* The arguments and the plan keep their types, and the plan its budget.
THEOREM PolicyTyped == Spec => []TypeOK
BY PolicyInvariance, PTL DEF PolicyInv

\* decide returns its pages likeliest first.
THEOREM LikeliestFirst == Spec => []PushOrder
BY PolicyInvariance, PTL DEF PolicyInv

\* decide leaves out no page that is wanted and still fits.
THEOREM Greedy == Spec => []NothingFits
<1>1. PolicyInv => NothingFits
  <2> SUFFICES ASSUME PolicyInv, done, NEW u \in Eligible(probs, outlook, cached)
               PROVE  u \in Chosen \/ ~Fits(u)
    BY DEF NothingFits
  <2>1. u \in DOMAIN probs /\ u \notin cached /\ probs[u] >= threshold
    BY DEF Eligible, threshold
  <2>2. probs[u] \in Nat /\ threshold \in Nat
    BY <2>1, ScoreType, BudgetType DEF PolicyInv, TypeOK, threshold
  <2>3. QED
    BY <2>1, <2>2 DEF PolicyInv, Accounted
<1>2. QED
  BY <1>1, PolicyInvariance, PTL

\* Without sizes, what decide returns is what the server's model takes from it:
\* as many of the first pages as the budget holds at the default size.
THEOREM Decided == Spec => []AsDecided
<1>1. PolicyInv => AsDecided
  <2> SUFFICES ASSUME PolicyInv, done, DOMAIN sizes = {}
               PROVE  Chosen \in Decisions(probs, outlook, cached)
    BY DEF AsDecided
  <2> DEFINE E == Eligible(probs, outlook, cached)
             q == LimitBudget(outlook) \div DefaultSize
             m == Cardinality(Chosen)
             n == Cardinality(E)
  <2>1. \A u : u \in E <=> u \in DOMAIN probs /\ Wanted(u)
    BY DEF Eligible, Wanted, threshold
  <2>2. Chosen \subseteq E
    BY <2>1 DEF PolicyInv, Counted
  <2>3. IsFiniteSet(E)
    <3>1. E \subseteq DOMAIN probs
      BY <2>1
    <3>2. QED
      BY <3>1, ChosenFinite, FS_Subset DEF PolicyInv
  <2>4. m \in Nat /\ n \in Nat /\ m <= n /\ (m = n => Chosen = E)
    BY <2>2, <2>3, FS_Subset, FS_CardinalityType
  <2>5. ASSUME NEW v \in E \ Chosen PROVE v \in DOMAIN probs \ left /\ Wanted(v) /\ ~Fits(v)
    <3>1. v \in DOMAIN probs /\ Wanted(v) /\ probs[v] \in Nat /\ threshold \in Nat
      BY <2>1, ScoreType, BudgetType DEF PolicyInv, TypeOK, threshold
    <3>2. v \notin left
      BY <3>1 DEF PolicyInv, Accounted, Wanted
    <3>3. ~Fits(v)
      BY <3>1, <3>2 DEF PolicyInv, Accounted, Wanted
    <3>4. QED
      BY <3>1, <3>2, <3>3
  <2>6. \A u \in Chosen, v \in E \ Chosen : probs[u] >= probs[v]
    BY <2>5 DEF PolicyInv, FirstPages
  <2>7. LimitBudget(outlook) \in Nat /\ DefaultSize \in Nat \ {0}
    BY BudgetType, PolicyConfig DEF PolicyInv, TypeOK
  <2>8. planned = DefaultSize * m /\ DefaultSize * m <= LimitBudget(outlook)
    BY <2>7 DEF PolicyInv, Counted, TypeOK
  <2>9. q \in Nat /\ DefaultSize * q <= LimitBudget(outlook) /\ LimitBudget(outlook) < DefaultSize * q + DefaultSize
    BY <2>7, Quotient
  <2> HIDE DEF E, q, m, n
  <2>10. DefaultSize * m \in Nat /\ DefaultSize * q \in Nat
    BY <2>4, <2>7, <2>9
  <2>11. m <= q
    <3> SUFFICES ASSUME m > q PROVE FALSE
      BY <2>4, <2>9
    <3>1. DefaultSize * m >= DefaultSize * q + DefaultSize
      BY <2>4, <2>7, <2>9, Multiples
    <3>2. QED
      BY <3>1, <2>7, <2>8, <2>9, <2>10
  <2>12. m = Least(q, n)
    <3>1. CASE m = n
      BY <3>1, <2>4, <2>9, <2>11 DEF Least
    <3>2. CASE m < n
      <4>1. PICK v : v \in E \ Chosen
        <5>1. m # n
          BY <3>2, <2>4
        <5>2. Chosen # E
          BY <5>1 DEF m, n
        <5>3. QED
          BY <5>2, <2>2
      <4>2. planned + DefaultSize > LimitBudget(outlook)
        BY <4>1, <2>5, <2>7, <2>8, <2>10 DEF Fits, SizeOf, budget
      <4>3. ~(q > m)
        <5> SUFFICES ASSUME q > m PROVE FALSE
          OBVIOUS
        <5>1. DefaultSize * q >= DefaultSize * m + DefaultSize
          BY <2>4, <2>7, <2>9, Multiples
        <5>2. QED
          BY <5>1, <4>2, <2>7, <2>8, <2>9, <2>10
      <4>4. QED
        BY <3>2, <4>3, <2>4, <2>9, <2>11 DEF Least
    <3>3. QED
      BY <3>1, <3>2, <2>4
  <2>13. QED
    BY <2>2, <2>6, <2>12 DEF Decisions, Top, E, q, m, n
<1>2. QED
  BY <1>1, PolicyInvariance, PTL

-----------------------------------------------------------------------------
(* The batch.  A run in progress has its logs to itself. *)

AtRun == b_stage \in {"origin", "server", "client", "done", "failed"}
ClientProcess ==
    [of : Nat, run : Batch!Runs, state : {"new", "logging", "ended", "crashed"},
     linked : BOOLEAN]

BatchTyped ==
    /\ b_stage \in {"off", "main", "origin", "server", "client", "done", "failed"}
    /\ b_run \in 1..(NRuns + 1)
    /\ b_attempt \in Nat
    /\ b_meta \in [Batch!Runs -> [is : {"none", "done", "error", "torn"}, of : Nat]]
    /\ b_files \in [Batch!Runs -> [begun : SUBSET Nat, ended : SUBSET Nat]]
    /\ b_clients \in SUBSET ClientProcess

\* The run in progress is one of the batch, and not finished.
AtWork == AtRun => b_run \in Batch!Runs /\ b_meta[b_run].is # "done"

\* Each attempt starts one client, after its server is up.
OneEach ==
    /\ \A c \in b_clients :
         /\ c.of <= b_attempt
         /\ b_stage \in {"origin", "server"} => c.of < b_attempt
         /\ c.state = "new" => b_stage = "client" /\ c.of = b_attempt
    /\ \A c, d \in b_clients : c.of = d.of => c = d

\* The log at the run's path is written by the attempt in progress and nobody else.
Alone ==
    /\ b_stage \in {"origin", "server", "client"} =>
         \A c \in b_clients : c.linked /\ c.run = b_run => c.of = b_attempt
    /\ b_stage = "client" =>
         \A c \in b_clients : c.of = b_attempt => c.linked /\ c.run = b_run
    /\ b_stage = "done" => \A c \in b_clients : ~(c.linked /\ c.run = b_run)

\* What is in the logs of the run in progress.
LogsSoFar ==
    /\ b_stage = "origin" => b_files[b_run] = Batch!NoFile
    /\ b_stage = "server" => b_files[b_run].begun \subseteq {b_attempt} /\ b_files[b_run].ended = {}
    /\ b_stage = "client" =>
         /\ b_files[b_run].begun = {b_attempt}
         /\ \A c \in b_clients : c.of = b_attempt =>
              /\ c.state \in {"new", "logging"} => b_files[b_run].ended = {}
              /\ c.state = "ended" => b_files[b_run].ended = {b_attempt}
    /\ b_stage = "done" => b_files[b_run] = [begun |-> {b_attempt}, ended |-> {b_attempt}]

\* Nobody writes to the logs of a finished run any more.
Closed ==
    \A r \in Batch!Runs : b_meta[r].is = "done" =>
        /\ b_files[r] = [begun |-> {b_meta[r].of}, ended |-> {b_meta[r].of}]
        /\ \A c \in b_clients : ~(c.linked /\ c.run = r)

BatchInv == BatchTyped /\ AtWork /\ OneEach /\ Alone /\ LogsSoFar /\ Closed

USE DEF Batch!Runs

LEMMA BatchBegins == Batch!Init => BatchInv
  BY ProgramsAssumption
  DEF Batch!Init, Batch!NoMeta, Batch!NoFile, BatchInv, BatchTyped, AtRun, AtWork, OneEach, Alone,
      LogsSoFar, Closed

\* The steps of main between runs change no log and no client.
LEMMA MainKeeps ==
    ASSUME BatchInv, Batch!Start \/ Batch!Skip \/ Batch!Unreadable \/ Batch!End
    PROVE  BatchInv'
<1>1. /\ b_stage \in {"off", "main"} /\ b_stage' \in {"off", "main"}
      /\ UNCHANGED <<b_attempt, b_meta, b_files, b_clients>>
  BY DEF Batch!Start, Batch!Skip, Batch!Unreadable, Batch!End
<1>2. b_run' \in 1..(NRuns + 1)
  BY ProgramsAssumption
  DEF BatchInv, BatchTyped, Batch!Start, Batch!Skip, Batch!Unreadable, Batch!End
<1>3. BatchTyped' /\ AtWork'
  BY <1>1, <1>2 DEF BatchInv, BatchTyped, AtWork, AtRun
<1>4. OneEach' /\ Alone' /\ LogsSoFar' /\ Closed'
  BY <1>1 DEF BatchInv, OneEach, Alone, LogsSoFar, Closed
<1> QED
  BY <1>3, <1>4 DEF BatchInv

\* A new attempt empties its logs; whoever still has them open writes elsewhere.
LEMMA BeginKeeps == ASSUME BatchInv, Batch!Begin PROVE BatchInv'
<1>1. /\ b_stage = "main" /\ b_run \in Batch!Runs /\ b_meta[b_run].is # "done"
      /\ b_stage' \in {"origin", "failed"} /\ b_attempt' = b_attempt + 1
      /\ b_files' = [b_files EXCEPT ![b_run] = Batch!NoFile]
      /\ b_clients' = {[c EXCEPT !.linked = @ /\ c.run # b_run] : c \in b_clients}
      /\ UNCHANGED <<b_run, b_meta>>
  BY ProgramsAssumption DEF Batch!Begin, BatchInv, BatchTyped
<1>2. BatchTyped
  BY DEF BatchInv
<1> DEFINE Unlinked(c) == [c EXCEPT !.linked = @ /\ c.run # b_run]
<1>3. \A d \in b_clients' : \E c \in b_clients :
        /\ d = Unlinked(c) /\ c \in ClientProcess
        /\ d \in ClientProcess /\ d.of = c.of /\ d.run = c.run /\ d.state = c.state
        /\ d.linked <=> c.linked /\ c.run # b_run
  <2>1. ASSUME NEW c \in b_clients
        PROVE  /\ c \in ClientProcess /\ Unlinked(c) \in ClientProcess
               /\ Unlinked(c).of = c.of /\ Unlinked(c).run = c.run /\ Unlinked(c).state = c.state
               /\ Unlinked(c).linked <=> c.linked /\ c.run # b_run
    <3>1. c \in ClientProcess
      BY <1>2 DEF BatchTyped
    <3>2. QED
      BY <3>1 DEF ClientProcess
  <2>2. b_clients' = {Unlinked(c) : c \in b_clients}
    BY <1>1
  <2> HIDE DEF Unlinked
  <2>3. QED
    BY <2>1, <2>2
<1> HIDE DEF Unlinked
<1>4. BatchTyped'
  <2>1. b_files' \in [Batch!Runs -> [begun : SUBSET Nat, ended : SUBSET Nat]]
    BY <1>1, <1>2 DEF BatchTyped, Batch!NoFile
  <2>2. b_clients' \in SUBSET ClientProcess
    BY <1>3
  <2>3. QED
    BY <1>1, <1>2, <2>1, <2>2 DEF BatchTyped
<1>5. AtWork'
  BY <1>1 DEF AtWork
<1>6. OneEach'
  <2>1. \A c \in b_clients : c.of \in Nat /\ c.of <= b_attempt /\ c.state # "new"
    BY <1>1, <1>2 DEF BatchInv, OneEach, BatchTyped, ClientProcess
  <2>2. \A c, d \in b_clients : c.of = d.of => c = d
    BY DEF BatchInv, OneEach
  <2>3. b_attempt \in Nat
    BY <1>2 DEF BatchTyped
  <2>4. \A d \in b_clients' : d.of <= b_attempt' /\ d.of < b_attempt' /\ d.state # "new"
    BY <1>1, <1>3, <2>1, <2>3
  <2>5. ASSUME NEW d \in b_clients', NEW e \in b_clients', d.of = e.of PROVE d = e
    BY <1>3, <2>2, <2>5
  <2>6. QED
    BY <2>4, <2>5 DEF OneEach
<1>7. Alone'
  BY <1>1, <1>3 DEF Alone
<1>8. LogsSoFar'
  BY <1>1, <1>2 DEF LogsSoFar, BatchTyped
<1>9. Closed'
  <2> SUFFICES ASSUME NEW r \in Batch!Runs, b_meta'[r].is = "done"
               PROVE  /\ b_files'[r] = [begun |-> {b_meta'[r].of}, ended |-> {b_meta'[r].of}]
                      /\ \A d \in b_clients' : ~(d.linked /\ d.run = r)
    BY DEF Closed
  <2>1. /\ r # b_run /\ b_files[r] = [begun |-> {b_meta[r].of}, ended |-> {b_meta[r].of}]
        /\ \A c \in b_clients : ~(c.linked /\ c.run = r)
    BY <1>1 DEF BatchInv, Closed
  <2>2. b_files'[r] = b_files[r]
    BY <1>1, <1>2, <2>1 DEF BatchTyped
  <2>3. QED
    BY <1>1, <1>3, <2>1, <2>2
<1> QED
  BY <1>4, <1>5, <1>6, <1>7, <1>8, <1>9 DEF BatchInv

\* The origin is up, fails or stays silent: nothing is written yet.
LEMMA OriginUpKeeps == ASSUME BatchInv, Batch!OriginUp PROVE BatchInv'
<1>1. /\ b_stage = "origin" /\ b_stage' \in {"origin", "server", "failed"}
      /\ UNCHANGED <<b_run, b_attempt, b_meta, b_files, b_clients>>
  BY DEF Batch!OriginUp
<1>2. BatchTyped' /\ AtWork'
  BY <1>1 DEF BatchInv, BatchTyped, AtWork, AtRun
<1>3. OneEach' /\ Alone' /\ Closed'
  BY <1>1 DEF BatchInv, OneEach, Alone, Closed
<1>4. LogsSoFar'
  BY <1>1 DEF BatchInv, LogsSoFar, Batch!NoFile
<1> QED
  BY <1>2, <1>3, <1>4 DEF BatchInv

\* The server has begun the logs of this attempt, and the attempt's client may start.
LEMMA ServerUpKeeps == ASSUME BatchInv, Batch!ServerUp PROVE BatchInv'
<1> DEFINE new == [of |-> b_attempt, run |-> b_run, state |-> "new", linked |-> TRUE]
           file == [b_files[b_run] EXCEPT !.begun = @ \union {b_attempt}]
<1>1. /\ b_stage = "server" /\ b_stage' \in {"server", "client", "failed"}
      /\ b_clients' = IF b_stage' = "client" THEN b_clients \union {new} ELSE b_clients
      /\ b_files' = [b_files EXCEPT ![b_run] = file]
      /\ UNCHANGED <<b_run, b_attempt, b_meta>>
  BY DEF Batch!ServerUp
<1>2. BatchTyped /\ b_run \in Batch!Runs /\ b_meta[b_run].is # "done"
  BY <1>1 DEF BatchInv, AtWork, AtRun
<1>3. /\ new \in ClientProcess /\ new.of = b_attempt /\ new.run = b_run /\ new.state = "new"
      /\ new.linked
  BY <1>2 DEF BatchTyped, ClientProcess
<1>4. file = [begun |-> {b_attempt}, ended |-> {}]
  <2>1. b_files[b_run] \in [begun : SUBSET Nat, ended : SUBSET Nat]
    BY <1>2 DEF BatchTyped
  <2>2. b_files[b_run].begun \subseteq {b_attempt} /\ b_files[b_run].ended = {}
    BY <1>1 DEF BatchInv, LogsSoFar
  <2>3. b_files[b_run].begun \union {b_attempt} = {b_attempt}
    BY <2>2
  <2>4. QED
    BY <2>1, <2>2, <2>3
<1>5. file \in [begun : SUBSET Nat, ended : SUBSET Nat]
  BY <1>2, <1>4 DEF BatchTyped
<1>6. b_files'[b_run] = file /\ \A r \in Batch!Runs : r # b_run => b_files'[r] = b_files[r]
  BY <1>1, <1>2 DEF BatchTyped
<1> HIDE DEF new, file
<1>7. BatchTyped'
  BY <1>1, <1>2, <1>3, <1>5 DEF BatchTyped
<1>8. AtWork'
  BY <1>1, <1>2 DEF AtWork
<1>9. OneEach'
  <2>1. b_attempt \in Nat /\ \A c \in b_clients : c.of \in Nat /\ c.of < b_attempt /\ c.state # "new"
    BY <1>1, <1>2 DEF BatchInv, OneEach, BatchTyped, ClientProcess
  <2>2. \A c, d \in b_clients : c.of = d.of => c = d
    BY DEF BatchInv, OneEach
  <2>3. \A c, d \in b_clients' : c.of = d.of => c = d
    BY <1>1, <1>3, <2>1, <2>2
  <2>4. \A c \in b_clients' :
          /\ c.of <= b_attempt'
          /\ b_stage' \in {"origin", "server"} => c.of < b_attempt'
          /\ c.state = "new" => b_stage' = "client" /\ c.of = b_attempt'
    BY <1>1, <1>3, <2>1
  <2>5. QED
    BY <2>3, <2>4 DEF OneEach
<1>10. Alone'
  <2>1. \A c \in b_clients : ~(c.linked /\ c.run = b_run) /\ c.of # b_attempt
    BY <1>1, <1>2 DEF BatchInv, OneEach, Alone, BatchTyped, ClientProcess
  <2>2. QED
    BY <1>1, <1>3, <2>1 DEF Alone
<1>11. LogsSoFar'
  <2>1. \A c \in b_clients' : c.of = b_attempt => c.state = "new" \/ b_stage' # "client"
    BY <1>1, <1>2, <1>3 DEF BatchInv, OneEach, BatchTyped, ClientProcess
  <2>2. b_files'[b_run].begun = {b_attempt} /\ b_files'[b_run].ended = {}
    BY <1>4, <1>6
  <2>3. QED
    BY <1>1, <2>1, <2>2 DEF LogsSoFar
<1>12. Closed'
  <2> SUFFICES ASSUME NEW r \in Batch!Runs, b_meta'[r].is = "done"
               PROVE  /\ b_files'[r] = [begun |-> {b_meta'[r].of}, ended |-> {b_meta'[r].of}]
                      /\ \A d \in b_clients' : ~(d.linked /\ d.run = r)
    BY DEF Closed
  <2>1. /\ r # b_run /\ b_files[r] = [begun |-> {b_meta[r].of}, ended |-> {b_meta[r].of}]
        /\ \A c \in b_clients : ~(c.linked /\ c.run = r)
    BY <1>1, <1>2 DEF BatchInv, Closed
  <2>2. QED
    BY <1>1, <1>3, <1>6, <2>1
<1> QED
  BY <1>7, <1>8, <1>9, <1>10, <1>11, <1>12 DEF BatchInv

\* A client that changes its state is the same client otherwise.
LEMMA BecameFacts ==
    ASSUME BatchTyped, NEW c \in b_clients, NEW state \in {"logging", "ended", "crashed"},
           Batch!Became(c, state)
    PROVE  \E e \in ClientProcess :
             /\ e.of = c.of /\ e.run = c.run /\ e.linked = c.linked /\ e.state = state
             /\ b_clients' = (b_clients \ {c}) \union {e}
<1> DEFINE e == [c EXCEPT !.state = state]
<1>1. c \in ClientProcess
  BY DEF BatchTyped
<1>2. e \in ClientProcess /\ e.of = c.of /\ e.run = c.run /\ e.linked = c.linked /\ e.state = state
  BY <1>1 DEF ClientProcess
<1>3. b_clients' = (b_clients \ {c}) \union {e}
  BY DEF Batch!Became
<1> QED
  BY <1>2, <1>3

\* A new state of a client disturbs neither who it is nor whose logs it writes.
LEMMA ClientsKept ==
    ASSUME BatchInv, NEW c \in b_clients, NEW e \in ClientProcess, e.of = c.of, e.run = c.run,
           e.linked = c.linked, e.state # "new", b_clients' = (b_clients \ {c}) \union {e},
           UNCHANGED <<b_stage, b_run, b_attempt, b_meta>>,
           b_files' \in [Batch!Runs -> [begun : SUBSET Nat, ended : SUBSET Nat]]
    PROVE  BatchTyped' /\ AtWork' /\ OneEach' /\ Alone'
<1>1. BatchTyped'
  BY DEF BatchInv, BatchTyped
<1>2. AtWork'
  BY DEF BatchInv, AtWork, AtRun
<1>3. OneEach'
  BY DEF BatchInv, OneEach
<1>4. Alone'
  BY DEF BatchInv, Alone
<1> QED
  BY <1>1, <1>2, <1>3, <1>4

\* The client of the attempt begins its log.
LEMMA ClientOpensLogKeeps == ASSUME BatchInv, Batch!ClientOpensLog PROVE BatchInv'
<1> DEFINE file == [b_files[b_run] EXCEPT !.begun = @ \union {b_attempt}]
<1>1. PICK c \in b_clients : c.state = "new" /\ Batch!Became(c, "logging")
  BY DEF Batch!ClientOpensLog
<1>2. /\ b_files' = [b_files EXCEPT ![b_run] = file]
      /\ UNCHANGED <<b_stage, b_run, b_attempt, b_meta>>
  BY DEF Batch!ClientOpensLog
<1>3. PICK e \in ClientProcess :
        /\ e.of = c.of /\ e.run = c.run /\ e.linked = c.linked /\ e.state = "logging"
        /\ b_clients' = (b_clients \ {c}) \union {e}
  BY <1>1, BecameFacts DEF BatchInv
<1>4. b_stage = "client" /\ c.of = b_attempt /\ BatchTyped
  BY <1>1 DEF BatchInv, OneEach
<1>5. b_run \in Batch!Runs /\ b_meta[b_run].is # "done"
  BY <1>4 DEF BatchInv, AtWork, AtRun
<1>6. file = b_files[b_run]
  <2>1. b_files[b_run] \in [begun : SUBSET Nat, ended : SUBSET Nat]
    BY <1>4, <1>5 DEF BatchTyped
  <2>2. b_files[b_run].begun = {b_attempt}
    BY <1>4 DEF BatchInv, LogsSoFar
  <2>3. QED
    BY <2>1, <2>2
<1> HIDE DEF file
<1>7. b_files' = b_files
  BY <1>2, <1>4, <1>6 DEF BatchTyped
<1>8. BatchTyped' /\ AtWork' /\ OneEach' /\ Alone'
  <2>1. b_files' \in [Batch!Runs -> [begun : SUBSET Nat, ended : SUBSET Nat]]
    BY <1>4, <1>7 DEF BatchTyped
  <2>2. QED
    BY <1>2, <1>3, <2>1, ClientsKept
<1>9. LogsSoFar'
  <2>1. b_files[b_run].begun = {b_attempt} /\ b_files[b_run].ended = {}
    BY <1>1, <1>4 DEF BatchInv, LogsSoFar
  <2>2. \A d \in b_clients' : d.of = b_attempt => d.state = "logging"
    BY <1>3, <1>4 DEF BatchInv, OneEach
  <2>3. QED
    BY <1>2, <1>4, <1>7, <2>1, <2>2 DEF LogsSoFar
<1>10. Closed'
  BY <1>2, <1>3, <1>7 DEF BatchInv, Closed
<1> QED
  BY <1>8, <1>9, <1>10 DEF BatchInv

\* A client ends its log: its own attempt's, or one at nobody's path, or of a run not finished.
LEMMA ClientEndsKeeps ==
    ASSUME BatchInv, NEW c \in b_clients, Batch!ClientEnds(c) PROVE BatchInv'
<1>1. /\ c.state = "logging" /\ Batch!Became(c, "ended")
      /\ b_files' = IF c.linked THEN [b_files EXCEPT ![c.run].ended = @ \union {c.of}] ELSE b_files
      /\ UNCHANGED <<b_stage, b_run, b_attempt, b_meta>>
  BY DEF Batch!ClientEnds
<1>2. PICK e \in ClientProcess :
        /\ e.of = c.of /\ e.run = c.run /\ e.linked = c.linked /\ e.state = "ended"
        /\ b_clients' = (b_clients \ {c}) \union {e}
  BY <1>1, BecameFacts DEF BatchInv
<1>3. BatchTyped /\ c \in ClientProcess
  BY DEF BatchInv, BatchTyped
<1>4. c.of \in Nat /\ c.run \in Batch!Runs
  BY <1>3 DEF ClientProcess
<1>5. /\ b_files' \in [Batch!Runs -> [begun : SUBSET Nat, ended : SUBSET Nat]]
      /\ \A r \in Batch!Runs : ~(c.linked /\ r = c.run) => b_files'[r] = b_files[r]
      /\ c.linked => /\ b_files'[c.run].begun = b_files[c.run].begun
                     /\ b_files'[c.run].ended = b_files[c.run].ended \union {c.of}
  <2>1. b_files \in [Batch!Runs -> [begun : SUBSET Nat, ended : SUBSET Nat]]
    BY <1>3 DEF BatchTyped
  <2>2. CASE ~c.linked
    BY <1>1, <2>1, <2>2
  <2>3. CASE c.linked
    <3> DEFINE file == [b_files[c.run] EXCEPT !.ended = @ \union {c.of}]
    <3>1. /\ file \in [begun : SUBSET Nat, ended : SUBSET Nat]
          /\ file.begun = b_files[c.run].begun
          /\ file.ended = b_files[c.run].ended \union {c.of}
      BY <1>4, <2>1
    <3>2. b_files' = [b_files EXCEPT ![c.run] = file]
      BY <1>1, <2>3
    <3> HIDE DEF file
    <3>3. QED
      BY <1>4, <2>1, <2>3, <3>1, <3>2
  <2>4. QED
    BY <2>2, <2>3
<1>6. BatchTyped' /\ AtWork' /\ OneEach' /\ Alone'
  BY <1>1, <1>2, <1>5, ClientsKept
<1>7. LogsSoFar'
  <2>1. CASE b_stage \notin {"origin", "server", "client", "done"}
    BY <1>1, <2>1 DEF LogsSoFar
  <2>2. CASE b_stage \in {"origin", "server", "done"}
    <3>1. b_run \in Batch!Runs /\ ~(c.linked /\ b_run = c.run)
      BY <1>3, <1>4, <2>2 DEF BatchInv, AtWork, AtRun, Alone, OneEach, BatchTyped
    <3>2. b_files'[b_run] = b_files[b_run]
      BY <1>5, <3>1
    <3>3. QED
      BY <1>1, <2>2, <3>2 DEF BatchInv, LogsSoFar
  <2>3. CASE b_stage = "client" /\ c.of = b_attempt
    <3>1. c.linked /\ c.run = b_run
      BY <2>3 DEF BatchInv, Alone
    <3>2. b_files[b_run].begun = {b_attempt} /\ b_files[b_run].ended = {}
      BY <1>1, <2>3 DEF BatchInv, LogsSoFar
    <3>3. b_files'[b_run].begun = {b_attempt} /\ b_files'[b_run].ended = {b_attempt}
      BY <1>5, <2>3, <3>1, <3>2
    <3>4. \A d \in b_clients' : d.of = b_attempt => d.state = "ended"
      BY <1>2, <2>3 DEF BatchInv, OneEach
    <3>5. QED
      BY <1>1, <2>3, <3>3, <3>4 DEF LogsSoFar
  <2>4. CASE b_stage = "client" /\ c.of # b_attempt
    <3>1. b_run \in Batch!Runs /\ ~(c.linked /\ b_run = c.run)
      BY <2>4 DEF BatchInv, AtWork, AtRun, Alone
    <3>2. b_files'[b_run] = b_files[b_run]
      BY <1>5, <3>1
    <3>3. \A d \in b_clients' : d.of = b_attempt => d \in b_clients
      BY <1>2, <2>4
    <3>4. QED
      BY <1>1, <2>4, <3>2, <3>3 DEF BatchInv, LogsSoFar
  <2>5. QED
    BY <2>1, <2>2, <2>3, <2>4
<1>8. Closed'
  <2> SUFFICES ASSUME NEW r \in Batch!Runs, b_meta'[r].is = "done"
               PROVE  /\ b_files'[r] = [begun |-> {b_meta'[r].of}, ended |-> {b_meta'[r].of}]
                      /\ \A d \in b_clients' : ~(d.linked /\ d.run = r)
    BY DEF Closed
  <2>1. /\ b_files[r] = [begun |-> {b_meta[r].of}, ended |-> {b_meta[r].of}]
        /\ \A d \in b_clients : ~(d.linked /\ d.run = r)
    BY <1>1 DEF BatchInv, Closed
  <2>2. b_files'[r] = b_files[r]
    BY <1>5, <2>1
  <2>3. QED
    BY <1>1, <1>2, <2>1, <2>2
<1> QED
  BY <1>6, <1>7, <1>8 DEF BatchInv

\* A client fails; it writes nothing more.
LEMMA ClientFailsKeeps == ASSUME BatchInv, Batch!ClientFails PROVE BatchInv'
<1>1. PICK c \in b_clients : c.state \in {"new", "logging"} /\ Batch!Became(c, "crashed")
  BY DEF Batch!ClientFails
<1>2. UNCHANGED <<b_stage, b_run, b_attempt, b_meta, b_files>>
  BY DEF Batch!ClientFails
<1>3. PICK e \in ClientProcess :
        /\ e.of = c.of /\ e.run = c.run /\ e.linked = c.linked /\ e.state = "crashed"
        /\ b_clients' = (b_clients \ {c}) \union {e}
  BY <1>1, BecameFacts DEF BatchInv
<1>4. BatchTyped' /\ AtWork' /\ OneEach' /\ Alone'
  <2>1. b_files' \in [Batch!Runs -> [begun : SUBSET Nat, ended : SUBSET Nat]]
    BY <1>2 DEF BatchInv, BatchTyped
  <2>2. QED
    BY <1>2, <1>3, <2>1, ClientsKept
<1>5. LogsSoFar'
  BY <1>2, <1>3 DEF BatchInv, LogsSoFar
<1>6. Closed'
  BY <1>2, <1>3 DEF BatchInv, Closed
<1> QED
  BY <1>4, <1>5, <1>6 DEF BatchInv

\* run_one gets its client's exit code: when it is 0, the logs are of this attempt and whole.
LEMMA ClientWaitedKeeps == ASSUME BatchInv, Batch!ClientWaited PROVE BatchInv'
<1>1. PICK c \in b_clients :
        /\ c.of = b_attempt /\ c.state \in {"ended", "crashed"}
        /\ b_stage' = IF c.state = "ended" THEN "done" ELSE "failed"
        /\ b_clients' = b_clients \ {c}
  BY DEF Batch!ClientWaited, Batch!Own
<1>2. /\ b_stage = "client" /\ b_stage' \in {"done", "failed"}
      /\ UNCHANGED <<b_run, b_attempt, b_meta, b_files>>
  BY DEF Batch!ClientWaited
<1>3. BatchTyped' /\ AtWork'
  BY <1>1, <1>2 DEF BatchInv, BatchTyped, AtWork, AtRun
<1>4. OneEach'
  <2>1. \A d \in b_clients' : d.state # "new"
    BY <1>1 DEF BatchInv, OneEach
  <2>2. QED
    BY <1>1, <1>2, <2>1 DEF BatchInv, OneEach
<1>5. Alone'
  <2>1. \A d \in b_clients' : ~(d.linked /\ d.run = b_run)
    BY <1>1, <1>2 DEF BatchInv, OneEach, Alone
  <2>2. QED
    BY <1>2, <2>1 DEF Alone
<1>6. LogsSoFar'
  <2>1. CASE c.state = "crashed"
    BY <1>1, <2>1 DEF LogsSoFar
  <2>2. CASE c.state = "ended"
    <3>1. b_files[b_run].begun = {b_attempt} /\ b_files[b_run].ended = {b_attempt}
      BY <1>1, <1>2, <2>2 DEF BatchInv, LogsSoFar
    <3>2. b_files[b_run] \in [begun : SUBSET Nat, ended : SUBSET Nat]
      BY <1>2 DEF BatchInv, BatchTyped, AtWork, AtRun
    <3>3. b_files[b_run] = [begun |-> {b_attempt}, ended |-> {b_attempt}]
      BY <3>1, <3>2
    <3>4. QED
      BY <1>1, <1>2, <2>2, <3>3 DEF LogsSoFar
  <2>3. QED
    BY <1>1, <2>1, <2>2
<1>7. Closed'
  BY <1>1, <1>2 DEF BatchInv, Closed
<1> QED
  BY <1>3, <1>4, <1>5, <1>6, <1>7 DEF BatchInv

LEMMA ClientTimesOutKeeps == ASSUME BatchInv, Batch!ClientTimesOut PROVE BatchInv'
<1>1. /\ b_stage = "client" /\ b_stage' = "failed"
      /\ UNCHANGED <<b_run, b_attempt, b_meta, b_files, b_clients>>
      /\ \E c \in b_clients : c.of = b_attempt /\ c.state = "logging"
  BY DEF Batch!ClientTimesOut, Batch!Own
<1>2. BatchTyped' /\ AtWork'
  BY <1>1 DEF BatchInv, BatchTyped, AtWork, AtRun
<1>3. OneEach'
  BY <1>1 DEF BatchInv, OneEach
<1>4. Alone' /\ LogsSoFar'
  BY <1>1 DEF Alone, LogsSoFar
<1>5. Closed'
  BY <1>1 DEF BatchInv, Closed
<1> QED
  BY <1>2, <1>3, <1>4, <1>5 DEF BatchInv

\* meta.json says what became of the attempt.
LEMMA WriteMetaKeeps == ASSUME BatchInv, Batch!WriteMeta PROVE BatchInv'
<1> DEFINE m == [is |-> IF b_stage = "done" THEN "done" ELSE "error", of |-> b_attempt]
<1>1. /\ b_stage \in {"done", "failed"} /\ b_stage' = "main" /\ b_run' = b_run + 1
      /\ b_meta' = [b_meta EXCEPT ![b_run] = m]
      /\ UNCHANGED <<b_attempt, b_files, b_clients>>
  BY DEF Batch!WriteMeta
<1>2. BatchTyped /\ b_run \in Batch!Runs
  BY <1>1 DEF BatchInv, AtWork, AtRun
<1>3. /\ m \in [is : {"none", "done", "error", "torn"}, of : Nat] /\ m.of = b_attempt
      /\ m.is = "done" => b_stage = "done"
  BY <1>1, <1>2 DEF BatchTyped
<1> HIDE DEF m
<1>4. b_meta'[b_run] = m /\ \A r \in Batch!Runs : r # b_run => b_meta'[r] = b_meta[r]
  BY <1>1, <1>2 DEF BatchTyped
<1>5. BatchTyped'
  <2>1. b_run' \in 1..(NRuns + 1)
    BY <1>1, <1>2, ProgramsAssumption
  <2>2. QED
    BY <1>1, <1>2, <1>3, <2>1 DEF BatchTyped
<1>6. AtWork' /\ Alone' /\ LogsSoFar'
  BY <1>1 DEF AtWork, AtRun, Alone, LogsSoFar
<1>7. OneEach'
  BY <1>1 DEF BatchInv, OneEach
<1>8. Closed'
  <2>1. b_stage = "done" =>
          /\ b_files[b_run] = [begun |-> {b_attempt}, ended |-> {b_attempt}]
          /\ \A c \in b_clients : ~(c.linked /\ c.run = b_run)
    BY DEF BatchInv, LogsSoFar, Alone
  <2>2. ASSUME NEW r \in Batch!Runs, b_meta'[r].is = "done"
        PROVE  /\ b_files[r] = [begun |-> {b_meta'[r].of}, ended |-> {b_meta'[r].of}]
               /\ \A c \in b_clients : ~(c.linked /\ c.run = r)
    <3>1. CASE r = b_run
      BY <1>3, <1>4, <2>1, <2>2, <3>1
    <3>2. CASE r # b_run
      BY <1>4, <2>2, <3>2 DEF BatchInv, Closed
    <3>3. QED
      BY <3>1, <3>2
  <2>3. QED
    BY <1>1, <2>2 DEF Closed
<1> QED
  BY <1>5, <1>6, <1>7, <1>8 DEF BatchInv

\* An interruption ends everybody; meta.json may be half written.
LEMMA InterruptedKeeps == ASSUME BatchInv, Batch!Interrupted PROVE BatchInv'
<1>1. /\ b_stage' = "off" /\ b_clients' = {} /\ UNCHANGED <<b_run, b_attempt, b_files>>
      /\ \/ b_meta' = b_meta
         \/ b_meta' = [b_meta EXCEPT ![b_run] = [is |-> "torn", of |-> b_attempt]]
  BY DEF Batch!Interrupted
<1>2. /\ b_meta' \in [Batch!Runs -> [is : {"none", "done", "error", "torn"}, of : Nat]]
      /\ \A r \in Batch!Runs : b_meta'[r].is = "done" => b_meta'[r] = b_meta[r]
  <2> DEFINE Metas == [is : {"none", "done", "error", "torn"}, of : Nat]
             torn == [is |-> "torn", of |-> b_attempt]
  <2>1. b_meta \in [Batch!Runs -> Metas] /\ torn \in Metas /\ torn.is # "done"
    BY DEF BatchInv, BatchTyped
  <2>2. b_meta' = b_meta \/ b_meta' = [b_meta EXCEPT ![b_run] = torn]
    BY <1>1
  <2> HIDE DEF Metas, torn
  <2>3. b_meta' \in [Batch!Runs -> Metas]
    BY <2>1, <2>2
  <2>4. \A r \in Batch!Runs : b_meta'[r].is = "done" => b_meta'[r] = b_meta[r]
    BY <2>1, <2>2
  <2>5. QED
    BY <2>3, <2>4 DEF Metas
<1>3. BatchTyped'
  BY <1>1, <1>2 DEF BatchInv, BatchTyped
<1>4. AtWork' /\ OneEach' /\ Alone' /\ LogsSoFar'
  BY <1>1 DEF AtWork, AtRun, OneEach, Alone, LogsSoFar
<1>5. Closed'
  BY <1>1, <1>2 DEF BatchInv, Closed
<1> QED
  BY <1>3, <1>4, <1>5 DEF BatchInv

LEMMA BatchKeeps == ASSUME BatchInv, Batch!Next PROVE BatchInv'
<1> USE DEF Batch!Next
<1>1. CASE Batch!Start \/ Batch!Skip \/ Batch!Unreadable \/ Batch!End
  BY <1>1, MainKeeps
<1>2. CASE \E c \in b_clients : Batch!ClientEnds(c)
  BY <1>2, ClientEndsKeeps
<1> QED
  BY <1>1, <1>2, BeginKeeps, OriginUpKeeps, ServerUpKeeps, ClientOpensLogKeeps, ClientFailsKeeps,
     ClientWaitedKeeps, ClientTimesOutKeeps, WriteMetaKeeps, InterruptedKeeps

LEMMA BatchStutters == ASSUME BatchInv, UNCHANGED BatchVars PROVE BatchInv'
  BY DEF BatchVars, BatchInv, BatchTyped, AtWork, AtRun, OneEach, Alone, LogsSoFar, Closed

\* Each of the programs either takes a step of its own or stays as it is.
LEMMA Apart ==
    [ProgramsNext]_AllVars =>
        /\ Batch!Next \/ UNCHANGED BatchVars
        /\ WarmUp!Next \/ UNCHANGED WarmUpVars
        /\ Snapshot!Next \/ UNCHANGED SnapshotVars
  BY DEF ProgramsNext, AllVars, PolicyStep, ServerPrefetchStep, LinksStep, BatchStep, ClientRunStep,
         WarmUpStep, SnapshotStep, WarningsStep, CutoffSweepStep, Others

\* The row of every finished run comes from one attempt and all of it, however many runs there
\* are, whoever outlives its run and however often the batch is interrupted.
THEOREM LogsWhole == ProgramsSpec => []WholeLogs
<1>1. ProgramsInit => BatchInv
  BY BatchBegins DEF ProgramsInit
<1>2. BatchInv /\ [ProgramsNext]_AllVars => BatchInv'
  BY BatchKeeps, BatchStutters, Apart
<1>3. BatchInv => WholeLogs
  BY DEF BatchInv, Closed, WholeLogs, Batch!WholeLogs, Batch!Row
<1> QED
  BY <1>1, <1>2, <1>3, PTL DEF ProgramsSpec

-----------------------------------------------------------------------------
(* The snapshot and the sessions over it. *)

Site == DOMAIN Clicked

\* A way through the site along clicked links.
Way(pages) ==
    /\ pages \in Seq(Site) /\ pages # <<>>
    /\ \A j \in 1..(Len(pages) - 1) : pages[j + 1] \in Clicked[pages[j]]

\* A page is downloaded, awaited or failed, one of these.
Fetching ==
    /\ s_files \subseteq Site /\ s_failed \subseteq Site /\ DOMAIN s_todo \subseteq Site
    /\ DOMAIN s_todo \intersect s_files = {}
    /\ s_failed \intersect (s_files \union DOMAIN s_todo) = {}

\* The pages accounted for.
Known == s_files \union DOMAIN s_todo \union s_failed

\* What the manifest lists is there.
Listed ==
    /\ s_manifest \subseteq s_files
    /\ s_program = "snapshot" => Seeds \union Targets \subseteq Known

\* The page a session has come to may still be on its way; the pages before it are there.
Session(s, there, known) ==
    /\ s \in [pages : Seq(Site), open : BOOLEAN] /\ Way(s.pages) /\ s.pages[1] \in there
    /\ \A j \in 1..(Len(s.pages) - 1) : s.pages[j] \in there
    /\ s.pages[Len(s.pages)] \in known
    /\ ~s.open => s.pages[Len(s.pages)] \in there

DrawnSoFar ==
    s_program = "sessions" => \A i \in DOMAIN s_drawn : Session(s_drawn[i], s_files, Known)

WrittenDown ==
    \A i \in DOMAIN s_written :
        Way(s_written[i]) /\ \A j \in 1..Len(s_written[i]) : s_written[i][j] \in s_files

SnapshotInv == Fetching /\ Listed /\ DrawnSoFar /\ WrittenDown

LEMMA SnapshotBegins == Snapshot!Init => SnapshotInv
<1> SUFFICES ASSUME Snapshot!Init PROVE SnapshotInv
  OBVIOUS
<1>1. /\ s_program = "off" /\ s_files = {} /\ s_failed = {} /\ s_manifest = {}
      /\ s_todo = [p \in {} |-> 0] /\ s_written = <<>>
  BY DEF Snapshot!Init
<1>2. DOMAIN s_todo = {} /\ DOMAIN s_written = {}
  BY <1>1
<1> QED
  BY <1>1, <1>2 DEF SnapshotInv, Fetching, Listed, DrawnSoFar, WrittenDown

\* What fetch_all asks for is downloaded or is there.
LEMMA FetchAllFacts ==
    ASSUME NEW pages \in SUBSET Site, Snapshot!FetchAll(pages), s_files' = s_files, Fetching
    PROVE  Fetching' /\ DOMAIN s_todo' = pages \ s_files /\ s_failed' = {}
  BY DEF Snapshot!FetchAll, Fetching

LEMMA BuildSnapshotKeeps == ASSUME SnapshotInv, Snapshot!BuildSnapshot PROVE SnapshotInv'
<1>1. /\ s_program' = "snapshot" /\ s_manifest = {} /\ Snapshot!FetchAll(Seeds \union Targets)
      /\ UNCHANGED <<s_files, s_manifest, s_written>>
  BY DEF Snapshot!BuildSnapshot
<1>2. Fetching' /\ DOMAIN s_todo' = (Seeds \union Targets) \ s_files
  <2>1. Seeds \union Targets \in SUBSET Site
    BY ProgramsAssumption DEF Site
  <2>2. QED
    BY <1>1, <2>1, FetchAllFacts DEF SnapshotInv
<1>3. Listed' /\ DrawnSoFar'
  BY <1>1, <1>2 DEF Listed, DrawnSoFar, Known
<1>4. WrittenDown'
  BY <1>1 DEF SnapshotInv, WrittenDown
<1> QED
  BY <1>2, <1>3, <1>4 DEF SnapshotInv

\* A page that is downloaded, or given up, is still accounted for.
LEMMA FetchedKeeps ==
    ASSUME SnapshotInv, s_files \subseteq s_files', Fetching',
           s_files \union DOMAIN s_todo \union s_failed
             \subseteq s_files' \union DOMAIN s_todo' \union s_failed',
           UNCHANGED <<s_program, s_manifest, s_drawn, s_written>>
    PROVE  SnapshotInv'
<1>1. Listed'
  BY DEF SnapshotInv, Listed, Known
<1>2. DrawnSoFar'
  BY DEF SnapshotInv, DrawnSoFar, Session, Known
<1>3. WrittenDown'
  BY DEF SnapshotInv, WrittenDown
<1> QED
  BY <1>1, <1>2, <1>3 DEF SnapshotInv

LEMMA PageFetchedKeeps == ASSUME SnapshotInv, Snapshot!PageFetched PROVE SnapshotInv'
<1>1. PICK p \in DOMAIN s_todo :
        s_files' = s_files \union {p} /\ s_todo' = [q \in DOMAIN s_todo \ {p} |-> s_todo[q]]
  BY DEF Snapshot!PageFetched
<1>2. UNCHANGED <<s_program, s_failed, s_manifest, s_drawn, s_written>>
  BY DEF Snapshot!PageFetched
<1>3. DOMAIN s_todo' = DOMAIN s_todo \ {p}
  BY <1>1
<1>4. Fetching'
  BY <1>1, <1>2, <1>3 DEF SnapshotInv, Fetching
<1> QED
  BY <1>1, <1>2, <1>3, <1>4, FetchedKeeps

LEMMA TryFailsKeeps == ASSUME SnapshotInv, Snapshot!TryFails PROVE SnapshotInv'
<1>1. UNCHANGED <<s_program, s_files, s_manifest, s_drawn, s_written>>
  BY DEF Snapshot!TryFails
<1>2. PICK p \in DOMAIN s_todo :
        \/ s_todo' = [s_todo EXCEPT ![p] = @ + 1] /\ s_failed' = s_failed
        \/ s_todo' = [q \in DOMAIN s_todo \ {p} |-> s_todo[q]] /\ s_failed' = s_failed \union {p}
  BY DEF Snapshot!TryFails
<1>3. \/ DOMAIN s_todo' = DOMAIN s_todo /\ s_failed' = s_failed
      \/ DOMAIN s_todo' = DOMAIN s_todo \ {p} /\ s_failed' = s_failed \union {p}
  BY <1>2
<1>4. Fetching'
  BY <1>1, <1>3 DEF SnapshotInv, Fetching
<1> QED
  BY <1>1, <1>3, <1>4, FetchedKeeps

LEMMA WriteManifestKeeps == ASSUME SnapshotInv, Snapshot!WriteManifest PROVE SnapshotInv'
<1>1. /\ s_program = "snapshot" /\ DOMAIN s_todo = {} /\ s_program' = "off"
      /\ s_manifest' = Seeds \ s_failed
      /\ UNCHANGED <<s_files, s_todo, s_failed, s_written>>
  BY DEF Snapshot!WriteManifest
<1>2. Fetching'
  BY <1>1 DEF SnapshotInv, Fetching
<1>3. Listed'
  BY <1>1 DEF SnapshotInv, Listed, Known
<1>4. DrawnSoFar'
  BY <1>1 DEF DrawnSoFar
<1>5. WrittenDown'
  BY <1>1 DEF SnapshotInv, WrittenDown
<1> QED
  BY <1>2, <1>3, <1>4, <1>5 DEF SnapshotInv

LEMMA DrawStartsKeeps == ASSUME SnapshotInv, Snapshot!DrawStarts PROVE SnapshotInv'
<1>1. /\ s_program' = "sessions" /\ Snapshot!FetchAll({})
      /\ s_drawn' \in [1..NSessions -> {[pages |-> <<p>>, open |-> TRUE] : p \in s_manifest}]
      /\ UNCHANGED <<s_files, s_manifest, s_written>>
  BY DEF Snapshot!DrawStarts
<1>2. Fetching'
  BY <1>1, FetchAllFacts DEF SnapshotInv
<1>3. Listed' /\ WrittenDown'
  BY <1>1 DEF SnapshotInv, Listed, WrittenDown
<1>4. ASSUME NEW p \in s_manifest
      PROVE  Session([pages |-> <<p>>, open |-> TRUE], s_files', Known')
  <2>1. p \in s_files /\ p \in Site
    BY DEF SnapshotInv, Listed, Fetching
  <2>2. <<p>> \in Seq(Site) /\ <<p>> # <<>> /\ Len(<<p>>) = 1 /\ <<p>>[1] = p
    BY <2>1
  <2>3. 1..(Len(<<p>>) - 1) = {}
    BY <2>2
  <2>4. Way(<<p>>)
    BY <2>2, <2>3 DEF Way
  <2> DEFINE s == [pages |-> <<p>>, open |-> TRUE]
  <2>5. s.pages = <<p>> /\ s.open /\ s \in [pages : Seq(Site), open : BOOLEAN]
    BY <2>2
  <2> HIDE DEF s
  <2>6. p \in s_files' /\ p \in Known'
    BY <1>1, <2>1 DEF Known
  <2>7. Session(s, s_files', Known')
    BY <2>2, <2>3, <2>4, <2>5, <2>6 DEF Session
  <2>8. QED
    BY <2>7 DEF s
<1>5. DrawnSoFar'
  BY <1>1, <1>4 DEF DrawnSoFar
<1> QED
  BY <1>2, <1>3, <1>5 DEF SnapshotInv

\* A session that follows a clicked link from a page that is there.
LEMMA FollowsOn ==
    ASSUME NEW s, NEW there, NEW known, Session(s, there, there), s.open,
           NEW p \in Clicked[s.pages[Len(s.pages)]], p \in known,
           NEW t, t = [s EXCEPT !.pages = Append(@, p)]
    PROVE  Session(t, there, known)
<1> DEFINE w == s.pages
           v == Append(w, p)
<1>1. s \in [pages : Seq(Site), open : BOOLEAN] /\ w \in Seq(Site) /\ Len(w) \in Nat /\ Len(w) >= 1
  <2>1. s \in [pages : Seq(Site), open : BOOLEAN] /\ w \in Seq(Site) /\ w # <<>>
    BY DEF Session, Way
  <2>2. QED
    BY <2>1
<1>2. \A j \in 1..Len(w) : w[j] \in there
  <2>1. \A j \in 1..(Len(w) - 1) : w[j] \in there
    BY DEF Session
  <2>2. w[Len(w)] \in there
    BY DEF Session
  <2>3. \A j \in 1..Len(w) : j \in 1..(Len(w) - 1) \/ j = Len(w)
    BY <1>1
  <2>4. QED
    BY <2>1, <2>2, <2>3
<1>3. w[Len(w)] \in Site /\ p \in Site
  <2>1. w[Len(w)] \in Site
    BY <1>1
  <2>2. QED
    BY <2>1, ProgramsAssumption DEF Site
<1>4. /\ v \in Seq(Site) /\ Len(v) = Len(w) + 1 /\ v[Len(w) + 1] = p
      /\ \A j \in 1..Len(w) : v[j] = w[j]
  BY <1>1, <1>3
<1>5. t.pages = v /\ t.open = s.open /\ t \in [pages : Seq(Site), open : BOOLEAN]
  BY <1>1, <1>4
<1>6. \A j \in 1..(Len(w) - 1) : w[j + 1] \in Clicked[w[j]]
  BY DEF Session, Way
<1> HIDE DEF w, v
<1>7. p \in Clicked[w[Len(w)]]
  BY DEF w
<1>8. ASSUME NEW j \in 1..(Len(v) - 1) PROVE v[j + 1] \in Clicked[v[j]] /\ v[j] \in there
  <2>1. j \in 1..Len(w) /\ (j = Len(w) \/ (j \in 1..(Len(w) - 1) /\ j + 1 \in 1..Len(w)))
    BY <1>1, <1>4
  <2>2. v[j] = w[j] /\ v[j] \in there
    BY <1>2, <1>4, <2>1
  <2>3. CASE j = Len(w)
    BY <1>4, <1>7, <2>2, <2>3
  <2>4. CASE j \in 1..(Len(w) - 1) /\ j + 1 \in 1..Len(w)
    BY <1>4, <1>6, <2>2, <2>4
  <2>5. QED
    BY <2>1, <2>2, <2>3, <2>4
<1>9. v # <<>> /\ v[1] \in there /\ v[Len(v)] = p
  <2>1. 1 \in 1..Len(w) /\ v[1] = w[1] /\ Len(v) # 0
    BY <1>1, <1>4
  <2>2. QED
    BY <1>2, <1>4, <2>1
<1>10. Way(v)
  BY <1>4, <1>8, <1>9 DEF Way
<1> QED
  BY <1>5, <1>8, <1>9, <1>10 DEF Session

LEMMA DrawStepKeeps == ASSUME SnapshotInv, Snapshot!DrawStep PROVE SnapshotInv'
<1>1. /\ s_program = "sessions" /\ DOMAIN s_todo = {} /\ s_failed = {}
      /\ UNCHANGED <<s_program, s_files, s_manifest, s_written>>
  BY DEF Snapshot!DrawStep
<1> DEFINE come(next) ==
             {Snapshot!Here(next[i]) : i \in {j \in DOMAIN next : next[j].open}}
<1>2. PICK next \in [DOMAIN s_drawn -> UNION {Snapshot!Follow(s_drawn[i]) : i \in DOMAIN s_drawn}] :
        /\ \A i \in DOMAIN s_drawn : next[i] \in Snapshot!Follow(s_drawn[i])
        /\ s_drawn' = next /\ Snapshot!FetchAll(come(next))
  BY DEF Snapshot!DrawStep
<1> DEFINE asked == come(next)
<1>3. Snapshot!FetchAll(asked) /\ DOMAIN next = DOMAIN s_drawn /\ Known = s_files
  BY <1>1, <1>2 DEF Known
<1>4. \A i \in DOMAIN next : next[i].open => next[i].pages[Len(next[i].pages)] \in asked
  BY DEF Snapshot!Here, Snapshot!Last
<1>5. \A i \in DOMAIN s_drawn : Session(s_drawn[i], s_files, s_files)
  BY <1>1, <1>3 DEF SnapshotInv, DrawnSoFar
<1>6. \A x \in asked : \E i \in DOMAIN next : next[i].open /\ x = next[i].pages[Len(next[i].pages)]
  BY DEF Snapshot!Here, Snapshot!Last
<1> HIDE DEF asked, come
\* A session goes on to a clicked link, or is closed where it is.
<1>7. ASSUME NEW i \in DOMAIN s_drawn, NEW there, s_files \subseteq there,
             next[i].open => next[i].pages[Len(next[i].pages)] \in there
      PROVE  Session(next[i], s_files, there)
  <2> DEFINE s == s_drawn[i]
  <2>1. Session(s, s_files, s_files) /\ next[i] \in Snapshot!Follow(s)
    BY <1>2, <1>5
  <2> HIDE DEF s
  <2>2. s \in [pages : Seq(Site), open : BOOLEAN]
    BY <2>1 DEF Session
  <2>3. CASE s.open /\ Clicked[s.pages[Len(s.pages)]] # {}
    <3>1. PICK p \in Clicked[s.pages[Len(s.pages)]] : next[i] = [s EXCEPT !.pages = Append(@, p)]
      BY <2>1, <2>3 DEF Snapshot!Follow, Snapshot!Here, Snapshot!Last
    <3> DEFINE w == s.pages
    <3>2. w \in Seq(Site) /\ w # <<>>
      BY <2>1 DEF Session, Way
    <3>3. w[Len(w)] \in Site
      BY <3>2
    <3>4. p \in Site
      BY <3>1, <3>3, ProgramsAssumption DEF Site
    <3>5. Append(w, p)[Len(Append(w, p))] = p
      BY <3>2, <3>4
    <3>6. next[i].pages = Append(w, p) /\ next[i].open = s.open
      BY <2>2, <3>1
    <3>7. p \in there
      BY <1>7, <2>3, <3>5, <3>6
    <3>8. QED
      BY <2>1, <2>3, <3>1, <3>7, FollowsOn
  <2>4. CASE ~(s.open /\ Clicked[s.pages[Len(s.pages)]] # {})
    <3>1. next[i] = [s EXCEPT !.open = FALSE]
      BY <2>1, <2>4 DEF Snapshot!Follow, Snapshot!Here, Snapshot!Last
    <3>2. /\ next[i] \in [pages : Seq(Site), open : BOOLEAN]
          /\ next[i].pages = s.pages /\ next[i].open = FALSE
      BY <2>2, <3>1
    <3>3. QED
      BY <1>7, <2>1, <3>2 DEF Session
  <2>5. QED
    BY <2>3, <2>4
<1>8. \A i \in DOMAIN next : next[i].pages \in Seq(Site) /\ next[i].pages # <<>>
  <2>1. ASSUME NEW i \in DOMAIN next PROVE next[i].pages \in Seq(Site) /\ next[i].pages # <<>>
    <3>1. Session(next[i], s_files, s_files \union {next[i].pages[Len(next[i].pages)]})
      BY <1>3, <1>7
    <3>2. QED
      BY <3>1 DEF Session, Way
  <2>2. QED
    BY <2>1
<1>9. asked \subseteq Site
  <2>1. ASSUME NEW i \in DOMAIN next PROVE next[i].pages[Len(next[i].pages)] \in Site
    <3> DEFINE w == next[i].pages
    <3>1. w \in Seq(Site) /\ w # <<>>
      BY <1>8
    <3> HIDE DEF w
    <3>2. w[Len(w)] \in Site
      BY <3>1
    <3>3. QED
      BY <3>2 DEF w
  <2>2. QED
    BY <1>6, <2>1
<1>10. Fetching' /\ DOMAIN s_todo' = asked \ s_files /\ s_failed' = {}
  BY <1>1, <1>3, <1>9, FetchAllFacts DEF SnapshotInv
<1>11. DrawnSoFar'
  <2>1. Known' = s_files \union asked
    BY <1>1, <1>10 DEF Known
  <2>2. \A i \in DOMAIN s_drawn : Session(next[i], s_files, s_files \union asked)
    BY <1>3, <1>4, <1>7
  <2>3. QED
    BY <1>1, <1>2, <1>3, <2>1, <2>2 DEF DrawnSoFar
<1>12. Listed' /\ WrittenDown'
  BY <1>1 DEF SnapshotInv, Listed, WrittenDown
<1> QED
  BY <1>10, <1>11, <1>12 DEF SnapshotInv

\* A session whose page cannot be had ends on the page before it, which there is.
LEMMA CutKeeps == ASSUME SnapshotInv, Snapshot!Cut PROVE SnapshotInv'
<1>1. /\ s_program = "sessions" /\ DOMAIN s_todo = {}
      /\ s_drawn' = [i \in DOMAIN s_drawn |->
             IF Snapshot!Here(s_drawn[i]) \in s_failed
             THEN [pages |-> Snapshot!Front(s_drawn[i].pages), open |-> FALSE] ELSE s_drawn[i]]
      /\ s_failed' = {} /\ UNCHANGED <<s_program, s_files, s_todo, s_manifest, s_written>>
  BY DEF Snapshot!Cut
<1>2. Fetching'
  BY <1>1 DEF SnapshotInv, Fetching
<1>3. Listed' /\ WrittenDown'
  BY <1>1 DEF SnapshotInv, Listed, WrittenDown
<1>4. ASSUME NEW i \in DOMAIN s_drawn PROVE Session(s_drawn'[i], s_files, s_files)
  <2> DEFINE s == s_drawn[i]
             w == s.pages
             n == Len(w)
             v == SubSeq(w, 1, n - 1)
  <2>1. Session(s, s_files, s_files \union s_failed)
    BY <1>1 DEF SnapshotInv, DrawnSoFar, Known
  <2>2. w \in Seq(Site) /\ w # <<>> /\ w[1] \in s_files
    BY <2>1 DEF Session, Way
  <2>3. n \in Nat /\ n >= 1
    BY <2>2
  <2>4. CASE w[n] \in s_failed
    <3>1. s_drawn'[i] = [pages |-> v, open |-> FALSE]
      BY <1>1, <2>4 DEF Snapshot!Here, Snapshot!Last, Snapshot!Front
    <3>2. n # 1
      BY <2>2, <2>4 DEF SnapshotInv, Fetching
    <3>3. \A j \in 1..(n - 1) : w[j] \in s_files
      BY <2>1 DEF Session
    <3>4. \A j \in 1..(n - 1) : w[j + 1] \in Clicked[w[j]]
      BY <2>1 DEF Session, Way
    <3> HIDE DEF w, n
    <3>5. v \in Seq(Site) /\ Len(v) = n - 1 /\ \A j \in 1..(n - 1) : v[j] = w[j]
      <4>1. n = Len(w) /\ 1 \in Int /\ n - 1 \in 0..Len(w)
        BY <2>3 DEF n
      <4>2. v \in Seq(Site)
        BY <2>2, <4>1
      <4>3. Len(v) = n - 1
        BY <2>2, <2>3, <4>1
      <4>4. \A j \in 1..(n - 1) : v[j] = w[j]
        BY <2>2, <2>3, <4>1
      <4>5. QED
        BY <4>2, <4>3, <4>4
    <3> HIDE DEF v
    <3>6. v # <<>> /\ v[1] \in s_files /\ v[Len(v)] \in s_files
      <4>1. 1 \in 1..(n - 1) /\ n - 1 \in 1..(n - 1) /\ Len(v) # 0
        BY <2>3, <3>2, <3>5
      <4>2. QED
        BY <3>3, <3>5, <4>1
    <3>7. ASSUME NEW j \in 1..(Len(v) - 1) PROVE v[j + 1] \in Clicked[v[j]] /\ v[j] \in s_files
      <4>1. j \in 1..(n - 1) /\ j + 1 \in 1..(n - 1)
        BY <2>3, <3>5
      <4>2. QED
        BY <3>3, <3>4, <3>5, <4>1
    <3>8. Way(v)
      BY <3>5, <3>6, <3>7 DEF Way
    <3> DEFINE t == [pages |-> v, open |-> FALSE]
    <3>9. t.pages = v /\ t.open = FALSE /\ t \in [pages : Seq(Site), open : BOOLEAN]
      BY <3>5
    <3> HIDE DEF t
    <3>10. Session(t, s_files, s_files)
      BY <3>6, <3>7, <3>8, <3>9 DEF Session
    <3>11. QED
      BY <3>1, <3>10 DEF t
  <2>5. CASE w[n] \notin s_failed
    <3>1. s_drawn'[i] = s
      BY <1>1, <2>5 DEF Snapshot!Here, Snapshot!Last
    <3>2. QED
      BY <2>1, <2>5, <3>1 DEF Session
  <2>6. QED
    BY <2>4, <2>5
<1>5. DrawnSoFar'
  <2>1. DOMAIN s_drawn' = DOMAIN s_drawn /\ Known' = s_files
    BY <1>1 DEF Known
  <2>2. QED
    BY <1>1, <1>4, <2>1 DEF DrawnSoFar
<1> QED
  BY <1>2, <1>3, <1>5 DEF SnapshotInv

LEMMA WriteSessionsKeeps == ASSUME SnapshotInv, Snapshot!WriteSessions PROVE SnapshotInv'
<1>1. /\ s_program = "sessions" /\ DOMAIN s_todo = {} /\ s_failed = {} /\ s_program' = "off"
      /\ s_written' = [i \in DOMAIN s_drawn |-> s_drawn[i].pages]
      /\ UNCHANGED <<s_files, s_todo, s_failed, s_manifest, s_drawn>>
  BY DEF Snapshot!WriteSessions
<1>2. Fetching' /\ Listed'
  BY <1>1 DEF SnapshotInv, Fetching, Listed
<1>3. DrawnSoFar'
  BY <1>1 DEF DrawnSoFar
<1>4. ASSUME NEW i \in DOMAIN s_drawn
      PROVE  /\ Way(s_drawn[i].pages)
             /\ \A j \in 1..Len(s_drawn[i].pages) : s_drawn[i].pages[j] \in s_files
  <2> DEFINE w == s_drawn[i].pages
  <2>1. Session(s_drawn[i], s_files, s_files)
    BY <1>1 DEF SnapshotInv, DrawnSoFar, Known
  <2>2. /\ Way(w) /\ w \in Seq(Site) /\ w[Len(w)] \in s_files
        /\ \A j \in 1..(Len(w) - 1) : w[j] \in s_files
    BY <2>1 DEF Session, Way
  <2> HIDE DEF w
  <2>3. \A j \in 1..Len(w) : j \in 1..(Len(w) - 1) \/ j = Len(w)
    BY <2>2
  <2>4. \A j \in 1..Len(w) : w[j] \in s_files
    BY <2>2, <2>3
  <2>5. QED
    BY <2>2, <2>4 DEF w
<1>5. WrittenDown'
  BY <1>1, <1>4 DEF WrittenDown
<1> QED
  BY <1>2, <1>3, <1>5 DEF SnapshotInv

LEMMA FetchInterruptedKeeps == ASSUME SnapshotInv, Snapshot!Interrupted PROVE SnapshotInv'
<1>1. /\ s_program' = "off" /\ s_todo' = [p \in {} |-> 0] /\ s_failed' = {}
      /\ UNCHANGED <<s_files, s_manifest, s_written>>
  BY DEF Snapshot!Interrupted
<1>2. DOMAIN s_todo' = {}
  BY <1>1
<1>3. Fetching'
  BY <1>1, <1>2 DEF SnapshotInv, Fetching
<1>4. Listed' /\ DrawnSoFar' /\ WrittenDown'
  BY <1>1 DEF SnapshotInv, Listed, DrawnSoFar, WrittenDown
<1> QED
  BY <1>3, <1>4 DEF SnapshotInv

LEMMA SnapshotKeeps == ASSUME SnapshotInv, Snapshot!Next PROVE SnapshotInv'
  BY BuildSnapshotKeeps, PageFetchedKeeps, TryFailsKeeps, WriteManifestKeeps, DrawStartsKeeps,
     DrawStepKeeps, CutKeeps, WriteSessionsKeeps, FetchInterruptedKeeps DEF Snapshot!Next

LEMMA SnapshotStutters == ASSUME SnapshotInv, UNCHANGED SnapshotVars PROVE SnapshotInv'
  BY DEF SnapshotVars, SnapshotInv, Fetching, Listed, DrawnSoFar, Known, WrittenDown

\* The sessions drawn for the experiments stay within what was downloaded and follow links readers
\* clicked, for any site, however many pages cannot be had and wherever a program is interrupted.
THEOREM WithinSnapshot == ProgramsSpec => []SessionsInSnapshot
<1>1. ProgramsInit => SnapshotInv
  BY SnapshotBegins DEF ProgramsInit
<1>2. SnapshotInv /\ [ProgramsNext]_AllVars => SnapshotInv'
  BY SnapshotKeeps, SnapshotStutters, Apart
<1>3. SnapshotInv => SessionsInSnapshot
  <2> SUFFICES ASSUME SnapshotInv, NEW i \in DOMAIN s_written
               PROVE  /\ s_written[i] # <<>> /\ Snapshot!ToSet(s_written[i]) \subseteq s_files
                      /\ \A j \in 1..(Len(s_written[i]) - 1) :
                            s_written[i][j + 1] \in Clicked[s_written[i][j]]
    BY DEF SessionsInSnapshot, Snapshot!SessionsInSnapshot
  <2> DEFINE w == s_written[i]
  <2>1. Way(w) /\ \A j \in 1..Len(w) : w[j] \in s_files
    BY DEF SnapshotInv, WrittenDown
  <2> HIDE DEF w
  <2>2. w \in Seq(Site) /\ DOMAIN w = 1..Len(w)
    BY <2>1 DEF Way
  <2>3. Snapshot!ToSet(w) \subseteq s_files
    BY <2>1, <2>2 DEF Snapshot!ToSet
  <2>4. QED
    BY <2>1, <2>3 DEF Way, w
<1> QED
  BY <1>1, <1>2, <1>3, PTL DEF ProgramsSpec

-----------------------------------------------------------------------------
(* The warm-up. *)

Question(k, i) == WarmUp!Viewed(Reading[k], i)

\* A page view the warm-up asks about.
Asked(k, i) == k \in DOMAIN Reading /\ i \in DOMAIN Reading[k] /\ LinksOf[Reading[k][i]] # {}

\* What the server may ask two clicks deep, after a page view.
Below(k, i, answer) ==
    {WarmUp!ChildOf(Question(k, i), url) :
        url \in {u \in answer : LinksOf[WarmUp!ChildOf(Question(k, i), u).page] # {}}}

\* A task that has been answered has left an answer, the one that is now on file or another's.
Answering ==
    /\ DOMAIN w_tasks # {} => w_phase # "off"
    /\ \A i \in DOMAIN w_tasks :
         /\ w_tasks[i] = [about |-> w_tasks[i].about, state |-> w_tasks[i].state,
                           answer |-> w_tasks[i].answer]
         /\ w_tasks[i].state = "answered" => w_tasks[i].about \in DOMAIN w_files

\* While views are asked about, the answer on file came to one of the tasks.
OfViews ==
    w_phase = "views" =>
        /\ \A k \in DOMAIN Reading : \A i \in DOMAIN Reading[k] : Asked(k, i) =>
             <<k, i>> \in DOMAIN w_tasks /\ w_tasks[<<k, i>>].about = Question(k, i)
        /\ \A t \in DOMAIN w_tasks : w_tasks[t].state = "answered" =>
             \E s \in DOMAIN w_tasks :
                 /\ w_tasks[s].state = "answered" /\ w_tasks[s].about = w_tasks[t].about
                 /\ w_tasks[s].answer = w_files[w_tasks[t].about]

\* While children are asked about, the views' answers stay, and everything below them is asked.
OfChildren ==
    w_phase = "children" =>
        \A k \in DOMAIN Reading : \A i \in DOMAIN Reading[k] : Asked(k, i) =>
            /\ Question(k, i) \in DOMAIN w_files
            /\ \A t \in DOMAIN w_tasks :
                 w_tasks[t].state = "asking" => w_tasks[t].about # Question(k, i)
            /\ \A q \in Below(k, i, w_files[Question(k, i)]) :
                 \E t \in DOMAIN w_tasks : w_tasks[t].about = q

\* When the warm-up has come to its end.
Warmed ==
    w_warm =>
        /\ w_phase = "off"
        /\ \A k \in DOMAIN Reading : \A i \in DOMAIN Reading[k] : Asked(k, i) =>
            /\ Question(k, i) \in DOMAIN w_files
            /\ Below(k, i, w_files[Question(k, i)]) \subseteq DOMAIN w_files

WarmUpInv == Answering /\ OfViews /\ OfChildren /\ Warmed /\ ~w_missed

LEMMA WarmUpBegins == WarmUp!Init => WarmUpInv
<1> SUFFICES ASSUME WarmUp!Init PROVE WarmUpInv
  OBVIOUS
<1>1. w_phase = "off" /\ w_tasks = <<>> /\ ~w_warm /\ ~w_missed
  BY DEF WarmUp!Init
<1>2. DOMAIN w_tasks = {}
  BY <1>1
<1> QED
  BY <1>1, <1>2 DEF WarmUpInv, Answering, OfViews, OfChildren, Warmed

\* The gathered questions all wait.
LEMMA AskingFacts ==
    ASSUME NEW questions, WarmUp!Asking(questions)
    PROVE  /\ DOMAIN w_tasks' = DOMAIN questions
           /\ \A i \in DOMAIN questions :
                /\ w_tasks'[i].about = questions[i] /\ w_tasks'[i].state = "waiting"
                /\ w_tasks'[i] = [about |-> w_tasks'[i].about, state |-> w_tasks'[i].state,
                                  answer |-> w_tasks'[i].answer]
  BY DEF WarmUp!Asking

LEMMA StartKeeps == ASSUME WarmUpInv, WarmUp!Start PROVE WarmUpInv'
<1>1. /\ ~w_warm /\ w_phase' = "views" /\ WarmUp!Asking(WarmUp!Views)
      /\ UNCHANGED <<w_files, w_warm, w_missed>>
  BY DEF WarmUp!Start
<1>2. /\ DOMAIN w_tasks' = WarmUp!Places
      /\ \A place \in WarmUp!Places :
            /\ w_tasks'[place].about = WarmUp!Viewed(Reading[place[1]], place[2])
            /\ w_tasks'[place].state = "waiting"
            /\ w_tasks'[place] = [about |-> w_tasks'[place].about, state |-> w_tasks'[place].state,
                                  answer |-> w_tasks'[place].answer]
  BY <1>1, AskingFacts DEF WarmUp!Views
<1>3. Answering'
  BY <1>1, <1>2 DEF Answering
<1>4. OfViews'
  <2>1. ASSUME NEW k \in DOMAIN Reading, NEW i \in DOMAIN Reading[k], Asked(k, i)
        PROVE  <<k, i>> \in DOMAIN w_tasks' /\ w_tasks'[<<k, i>>].about = Question(k, i)
    <3>1. <<k, i>> \in WarmUp!Places
      BY <2>1 DEF WarmUp!Places, Asked
    <3>2. <<k, i>>[1] = k /\ <<k, i>>[2] = i
      OBVIOUS
    <3>3. QED
      BY <1>2, <3>1, <3>2 DEF Question
  <2>2. \A t \in DOMAIN w_tasks' : w_tasks'[t].state # "answered"
    BY <1>2
  <2>3. QED
    BY <2>1, <2>2 DEF OfViews
<1>5. OfChildren' /\ Warmed' /\ ~w_missed'
  BY <1>1 DEF WarmUpInv, OfChildren, Warmed
<1> QED
  BY <1>3, <1>4, <1>5 DEF WarmUpInv

\* When every view has its answer, what is asked next is everything below the answers on file.
LEMMA NowChildrenKeeps == ASSUME WarmUpInv, WarmUp!NowChildren PROVE WarmUpInv'
<1> DEFINE questions == [c \in WarmUp!Children |-> c.about]
<1>1. /\ w_phase = "views" /\ w_phase' = "children" /\ WarmUp!Asking(questions)
      /\ \A i \in DOMAIN w_tasks : w_tasks[i].state = "answered"
      /\ UNCHANGED <<w_files, w_warm, w_missed>>
  BY DEF WarmUp!NowChildren, WarmUp!AllAnswered
<1>2. /\ DOMAIN questions = WarmUp!Children
      /\ \A c \in WarmUp!Children : questions[c] = c.about
  OBVIOUS
<1> HIDE DEF questions
<1>3. /\ DOMAIN w_tasks' = WarmUp!Children
      /\ \A c \in WarmUp!Children :
            /\ w_tasks'[c].about = c.about /\ w_tasks'[c].state = "waiting"
            /\ w_tasks'[c] = [about |-> w_tasks'[c].about, state |-> w_tasks'[c].state,
                              answer |-> w_tasks'[c].answer]
  BY <1>1, <1>2, AskingFacts
<1>4. Answering'
  BY <1>1, <1>3 DEF Answering
<1>5. ASSUME NEW k \in DOMAIN Reading, NEW i \in DOMAIN Reading[k], Asked(k, i)
      PROVE  /\ Question(k, i) \in DOMAIN w_files
             /\ \A q \in Below(k, i, w_files[Question(k, i)]) :
                  \E c \in WarmUp!Children : c.about = q
  <2>1. /\ <<k, i>> \in DOMAIN w_tasks /\ w_tasks[<<k, i>>].about = Question(k, i)
        /\ w_tasks[<<k, i>>].state = "answered"
    BY <1>1, <1>5 DEF WarmUpInv, OfViews
  <2>2. Question(k, i) \in DOMAIN w_files
    BY <2>1 DEF WarmUpInv, Answering
  <2>3. PICK s \in DOMAIN w_tasks :
          w_tasks[s].about = Question(k, i) /\ w_tasks[s].answer = w_files[Question(k, i)]
    BY <1>1, <2>1 DEF WarmUpInv, OfViews
  <2>4. ASSUME NEW q \in Below(k, i, w_files[Question(k, i)])
        PROVE  \E c \in WarmUp!Children : c.about = q
    <3>1. PICK url \in w_tasks[s].answer :
            q = WarmUp!ChildOf(w_tasks[s].about, url) /\ LinksOf[q.page] # {}
      BY <2>3, <2>4 DEF Below
    <3> DEFINE c == [url |-> url, about |-> WarmUp!ChildOf(w_tasks[s].about, url)]
    <3>2. c.about = q
      BY <3>1
    <3>3. c \in UNION {{[url |-> u, about |-> WarmUp!ChildOf(w_tasks[j].about, u)] :
                           u \in w_tasks[j].answer} : j \in DOMAIN w_tasks}
      OBVIOUS
    <3> HIDE DEF c
    <3>4. c \in WarmUp!Children
      BY <3>1, <3>2, <3>3 DEF WarmUp!Children, WarmUp!AllChildren
    <3>5. QED
      BY <3>2, <3>4
  <2>5. QED
    BY <2>2, <2>4
<1>6. OfChildren'
  BY <1>1, <1>3, <1>5 DEF OfChildren, Below, Question
<1>7. OfViews' /\ Warmed' /\ ~w_missed'
  BY <1>1 DEF WarmUpInv, OfViews, Warmed
<1> QED
  BY <1>4, <1>6, <1>7 DEF WarmUpInv

LEMMA WarmUpEndKeeps == ASSUME WarmUpInv, WarmUp!End PROVE WarmUpInv'
<1>1. /\ w_phase = "children" /\ w_phase' = "off" /\ w_tasks' = <<>>
      /\ \A i \in DOMAIN w_tasks : w_tasks[i].state = "answered"
      /\ UNCHANGED <<w_files, w_missed>>
  BY DEF WarmUp!End, WarmUp!AllAnswered
<1>2. DOMAIN w_tasks' = {}
  BY <1>1
<1>3. Answering' /\ OfViews' /\ OfChildren'
  BY <1>1, <1>2 DEF Answering, OfViews, OfChildren
<1>4. Warmed'
  <2>1. \A t \in DOMAIN w_tasks : w_tasks[t].about \in DOMAIN w_files
    BY <1>1 DEF WarmUpInv, Answering
  <2>2. ASSUME NEW k \in DOMAIN Reading, NEW i \in DOMAIN Reading[k], Asked(k, i)
        PROVE  /\ Question(k, i) \in DOMAIN w_files
               /\ Below(k, i, w_files[Question(k, i)]) \subseteq DOMAIN w_files
    BY <1>1, <2>1, <2>2 DEF WarmUpInv, OfChildren
  <2>3. QED
    BY <1>1, <2>2 DEF Warmed
<1> QED
  BY <1>1, <1>3, <1>4 DEF WarmUpInv

\* The warm-up stops short: nothing is asked, and files that are there stay or go.
LEMMA AbortKeeps ==
    ASSUME WarmUpInv, WarmUp!Abort, ~w_warm, UNCHANGED <<w_warm, w_missed>>
    PROVE  WarmUpInv'
<1>1. w_phase' = "off" /\ w_tasks' = <<>>
  BY DEF WarmUp!Abort
<1>2. DOMAIN w_tasks' = {}
  BY <1>1
<1> QED
  BY <1>1, <1>2 DEF WarmUpInv, Answering, OfViews, OfChildren, Warmed

\* One task has its answer; the question it is about stays.
LEMMA TaskFacts ==
    ASSUME Answering, NEW i \in DOMAIN w_tasks, NEW answer, WarmUp!Answered(i, answer)
    PROVE  /\ DOMAIN w_tasks' = DOMAIN w_tasks
           /\ \A t \in DOMAIN w_tasks : t # i => w_tasks'[t] = w_tasks[t]
           /\ w_tasks'[i] = [about |-> w_tasks[i].about, state |-> "answered", answer |-> answer]
           /\ \A t \in DOMAIN w_tasks : w_tasks'[t].about = w_tasks[t].about
<1>1. w_tasks[i] = [about |-> w_tasks[i].about, state |-> w_tasks[i].state,
                    answer |-> w_tasks[i].answer]
  BY DEF Answering
<1>2. /\ DOMAIN w_tasks' = DOMAIN w_tasks
      /\ \A t \in DOMAIN w_tasks : t # i => w_tasks'[t] = w_tasks[t]
  BY DEF WarmUp!Answered
<1>3. w_tasks'[i] = [about |-> w_tasks[i].about, state |-> "answered", answer |-> answer]
  BY <1>1 DEF WarmUp!Answered
<1> QED
  BY <1>2, <1>3

\* There is a task only while the warm-up is at work.
LEMMA AtWarmUp ==
    ASSUME WarmUpInv, NEW i \in DOMAIN w_tasks PROVE w_phase # "off" /\ ~w_warm
  BY DEF WarmUpInv, Answering, Warmed

\* Who finds the answer on file has that answer.
LEMMA AskCachedKeeps ==
    ASSUME WarmUpInv, NEW i \in DOMAIN w_tasks, WarmUp!AskCached(i) PROVE WarmUpInv'
<1> DEFINE about == w_tasks[i].about
<1> DEFINE answer == w_files[about]
<1>1. /\ about \in DOMAIN w_files /\ WarmUp!Answered(i, answer)
      /\ UNCHANGED <<w_phase, w_files, w_warm, w_missed>>
  BY DEF WarmUp!AskCached
<1>a. answer = w_files[about] /\ Answering
  BY DEF WarmUpInv
<1> HIDE DEF answer
<1>2. /\ DOMAIN w_tasks' = DOMAIN w_tasks
      /\ \A t \in DOMAIN w_tasks : t # i => w_tasks'[t] = w_tasks[t]
      /\ w_tasks'[i] = [about |-> about, state |-> "answered", answer |-> answer]
      /\ \A t \in DOMAIN w_tasks : w_tasks'[t].about = w_tasks[t].about
  BY <1>1, <1>a, TaskFacts
<1>b. /\ w_tasks'[i].about = about /\ w_tasks'[i].state = "answered"
      /\ w_tasks'[i].answer = w_files'[about]
  BY <1>1, <1>2, <1>a
<1> HIDE DEF about
<1>3. w_phase # "off" /\ ~w_warm
  BY AtWarmUp
<1>4. Answering'
  BY <1>1, <1>2, <1>3, <1>a DEF Answering
<1>5. OfViews'
  <2> SUFFICES ASSUME w_phase = "views"
               PROVE  /\ \A k \in DOMAIN Reading : \A j \in DOMAIN Reading[k] : Asked(k, j) =>
                           <<k, j>> \in DOMAIN w_tasks' /\ w_tasks'[<<k, j>>].about = Question(k, j)
                      /\ \A t \in DOMAIN w_tasks' : w_tasks'[t].state = "answered" =>
                           \E s \in DOMAIN w_tasks' :
                              /\ w_tasks'[s].state = "answered" /\ w_tasks'[s].about = w_tasks'[t].about
                              /\ w_tasks'[s].answer = w_files'[w_tasks'[t].about]
    BY <1>1 DEF OfViews
  <2>1. \A k \in DOMAIN Reading : \A j \in DOMAIN Reading[k] : Asked(k, j) =>
          <<k, j>> \in DOMAIN w_tasks' /\ w_tasks'[<<k, j>>].about = Question(k, j)
    BY <1>2 DEF WarmUpInv, OfViews
  <2>2. ASSUME NEW t \in DOMAIN w_tasks', w_tasks'[t].state = "answered"
        PROVE  \E s \in DOMAIN w_tasks' :
                  /\ w_tasks'[s].state = "answered" /\ w_tasks'[s].about = w_tasks'[t].about
                  /\ w_tasks'[s].answer = w_files'[w_tasks'[t].about]
    <3>1. CASE w_tasks'[t].about = about
      BY <1>2, <1>b, <3>1
    <3>2. CASE w_tasks'[t].about # about
      <4>1. t # i /\ w_tasks[t].state = "answered" /\ w_tasks[t].about = w_tasks'[t].about
        BY <1>2, <2>2, <3>2
      <4>2. PICK s \in DOMAIN w_tasks :
              /\ w_tasks[s].state = "answered" /\ w_tasks[s].about = w_tasks[t].about
              /\ w_tasks[s].answer = w_files[w_tasks[t].about]
        BY <1>2, <4>1 DEF WarmUpInv, OfViews
      <4>3. s # i
        BY <3>2, <4>1, <4>2 DEF about
      <4>4. QED
        BY <1>1, <1>2, <4>1, <4>2, <4>3
    <3>3. QED
      BY <3>1, <3>2
  <2>3. QED
    BY <2>1, <2>2
<1>6. OfChildren'
  <2> SUFFICES ASSUME w_phase = "children", NEW k \in DOMAIN Reading, NEW j \in DOMAIN Reading[k],
                      Asked(k, j)
               PROVE  /\ Question(k, j) \in DOMAIN w_files
                      /\ \A t \in DOMAIN w_tasks' :
                           w_tasks'[t].state = "asking" => w_tasks'[t].about # Question(k, j)
                      /\ \A q \in Below(k, j, w_files[Question(k, j)]) :
                           \E t \in DOMAIN w_tasks' : w_tasks'[t].about = q
    BY <1>1 DEF OfChildren, Below, Question, Asked
  <2>1. /\ Question(k, j) \in DOMAIN w_files
        /\ \A t \in DOMAIN w_tasks : w_tasks[t].state = "asking" => w_tasks[t].about # Question(k, j)
        /\ \A q \in Below(k, j, w_files[Question(k, j)]) :
             \E t \in DOMAIN w_tasks : w_tasks[t].about = q
    BY DEF WarmUpInv, OfChildren
  <2>2. \A t \in DOMAIN w_tasks' : w_tasks'[t].state = "asking" => w_tasks[t].state = "asking"
    BY <1>2
  <2>3. QED
    BY <1>2, <2>1, <2>2
<1>7. Warmed' /\ ~w_missed'
  BY <1>1, <1>3 DEF WarmUpInv, Warmed
<1> QED
  BY <1>4, <1>5, <1>6, <1>7 DEF WarmUpInv

\* What is asked of the service is not on file.
LEMMA AskKeeps ==
    ASSUME WarmUpInv, NEW i \in DOMAIN w_tasks, WarmUp!Ask(i) PROVE WarmUpInv'
<1> DEFINE about == w_tasks[i].about
<1>1. /\ about \notin DOMAIN w_files /\ w_tasks[i].state = "waiting"
      /\ w_tasks' = [w_tasks EXCEPT ![i].state = "asking"]
      /\ UNCHANGED <<w_phase, w_files, w_warm, w_missed>>
  BY DEF WarmUp!Ask
<1>2. /\ DOMAIN w_tasks' = DOMAIN w_tasks
      /\ \A t \in DOMAIN w_tasks : t # i => w_tasks'[t] = w_tasks[t]
      /\ w_tasks'[i] = [about |-> about, state |-> "asking", answer |-> w_tasks[i].answer]
      /\ \A t \in DOMAIN w_tasks : w_tasks'[t].about = w_tasks[t].about
  <2>1. w_tasks[i] = [about |-> w_tasks[i].about, state |-> w_tasks[i].state,
                      answer |-> w_tasks[i].answer]
    BY DEF WarmUpInv, Answering
  <2>2. /\ DOMAIN w_tasks' = DOMAIN w_tasks
        /\ \A t \in DOMAIN w_tasks : t # i => w_tasks'[t] = w_tasks[t]
    BY <1>1
  <2>3. w_tasks'[i] = [about |-> about, state |-> "asking", answer |-> w_tasks[i].answer]
    BY <1>1, <2>1
  <2>4. QED
    BY <2>2, <2>3
<1> HIDE DEF about
<1>3. w_phase # "off" /\ ~w_warm
  BY AtWarmUp
<1>4. Answering'
  BY <1>1, <1>2, <1>3 DEF WarmUpInv, Answering
<1>5. OfViews'
  <2>1. \A t \in DOMAIN w_tasks :
          /\ w_tasks'[t].state = "answered" => w_tasks[t].state = "answered"
          /\ w_tasks[t].state = "answered" => w_tasks'[t] = w_tasks[t]
    BY <1>1, <1>2
  <2>2. QED
    BY <1>1, <1>2, <2>1 DEF WarmUpInv, OfViews
<1>6. OfChildren'
  <2>1. \A t \in DOMAIN w_tasks :
          w_tasks'[t].state = "asking" => w_tasks[t].state = "asking" \/ t = i
    BY <1>2
  <2>2. QED
    BY <1>1, <1>2, <2>1 DEF WarmUpInv, OfChildren, Below, Question, about
<1>7. Warmed' /\ ~w_missed'
  BY <1>1, <1>3 DEF WarmUpInv, Warmed
<1> QED
  BY <1>4, <1>5, <1>6, <1>7 DEF WarmUpInv

\* The answer that comes last is the one on file, and its task has it; while children are asked
\* about it is never a view's.
LEMMA AnswerComesKeeps ==
    ASSUME WarmUpInv, NEW i \in DOMAIN w_tasks, WarmUp!AnswerComes(i) PROVE WarmUpInv'
<1> DEFINE about == w_tasks[i].about
<1>p. PICK answer \in Likely[about.page] :
        /\ WarmUp!Answered(i, answer)
        /\ w_files' = [q \in DOMAIN w_files \union {about} |->
                          IF q = about THEN answer ELSE w_files[q]]
  BY DEF WarmUp!AnswerComes
<1>a. Answering
  BY DEF WarmUpInv
<1>1. w_tasks[i].state = "asking" /\ UNCHANGED <<w_phase, w_warm, w_missed>>
  BY DEF WarmUp!AnswerComes
<1>2. /\ DOMAIN w_tasks' = DOMAIN w_tasks
      /\ \A t \in DOMAIN w_tasks : t # i => w_tasks'[t] = w_tasks[t]
      /\ w_tasks'[i] = [about |-> about, state |-> "answered", answer |-> answer]
      /\ \A t \in DOMAIN w_tasks : w_tasks'[t].about = w_tasks[t].about
  BY <1>p, <1>a, TaskFacts
<1>3. w_phase # "off" /\ ~w_warm
  BY AtWarmUp
<1>4. /\ DOMAIN w_files' = DOMAIN w_files \union {about} /\ w_files'[about] = answer
      /\ \A q \in DOMAIN w_files : q # about => w_files'[q] = w_files[q]
  BY <1>p
<1> HIDE DEF about
<1>5. Answering'
  BY <1>1, <1>2, <1>3, <1>4 DEF WarmUpInv, Answering
<1>6. OfViews'
  <2> SUFFICES ASSUME w_phase = "views"
               PROVE  /\ \A k \in DOMAIN Reading : \A j \in DOMAIN Reading[k] : Asked(k, j) =>
                           <<k, j>> \in DOMAIN w_tasks' /\ w_tasks'[<<k, j>>].about = Question(k, j)
                      /\ \A t \in DOMAIN w_tasks' : w_tasks'[t].state = "answered" =>
                           \E s \in DOMAIN w_tasks' :
                              /\ w_tasks'[s].state = "answered" /\ w_tasks'[s].about = w_tasks'[t].about
                              /\ w_tasks'[s].answer = w_files'[w_tasks'[t].about]
    BY <1>1 DEF OfViews
  <2>1. \A k \in DOMAIN Reading : \A j \in DOMAIN Reading[k] : Asked(k, j) =>
          <<k, j>> \in DOMAIN w_tasks' /\ w_tasks'[<<k, j>>].about = Question(k, j)
    BY <1>2 DEF WarmUpInv, OfViews
  <2>2. ASSUME NEW t \in DOMAIN w_tasks', w_tasks'[t].state = "answered"
        PROVE  \E s \in DOMAIN w_tasks' :
                  /\ w_tasks'[s].state = "answered" /\ w_tasks'[s].about = w_tasks'[t].about
                  /\ w_tasks'[s].answer = w_files'[w_tasks'[t].about]
    <3>1. CASE w_tasks'[t].about = about
      BY <1>2, <1>4, <3>1
    <3>2. CASE w_tasks'[t].about # about
      <4>1. t # i /\ w_tasks[t].state = "answered" /\ w_tasks[t].about = w_tasks'[t].about
        BY <1>2, <2>2, <3>2
      <4>2. PICK s \in DOMAIN w_tasks :
              /\ w_tasks[s].state = "answered" /\ w_tasks[s].about = w_tasks[t].about
              /\ w_tasks[s].answer = w_files[w_tasks[t].about]
        BY <1>2, <4>1 DEF WarmUpInv, OfViews
      <4>3. s # i /\ w_files'[w_tasks[t].about] = w_files[w_tasks[t].about]
        BY <1>2, <1>4, <3>2, <4>1, <4>2 DEF about, WarmUpInv, Answering
      <4>4. QED
        BY <1>1, <1>2, <4>1, <4>2, <4>3
    <3>3. QED
      BY <3>1, <3>2
  <2>3. QED
    BY <2>1, <2>2
<1>7. OfChildren'
  <2> SUFFICES ASSUME w_phase = "children", NEW k \in DOMAIN Reading, NEW j \in DOMAIN Reading[k],
                      Asked(k, j)
               PROVE  /\ Question(k, j) \in DOMAIN w_files'
                      /\ \A t \in DOMAIN w_tasks' :
                           w_tasks'[t].state = "asking" => w_tasks'[t].about # Question(k, j)
                      /\ \A q \in Below(k, j, w_files'[Question(k, j)]) :
                           \E t \in DOMAIN w_tasks' : w_tasks'[t].about = q
    BY <1>1 DEF OfChildren, Below, Question, Asked
  <2>1. /\ Question(k, j) \in DOMAIN w_files /\ Question(k, j) # about
        /\ \A t \in DOMAIN w_tasks : w_tasks[t].state = "asking" => w_tasks[t].about # Question(k, j)
        /\ \A q \in Below(k, j, w_files[Question(k, j)]) :
             \E t \in DOMAIN w_tasks : w_tasks[t].about = q
    BY <1>1 DEF WarmUpInv, OfChildren, about
  <2>2. w_files'[Question(k, j)] = w_files[Question(k, j)] /\ Question(k, j) \in DOMAIN w_files'
    BY <1>4, <2>1
  <2>3. \A t \in DOMAIN w_tasks' : w_tasks'[t].state = "asking" => w_tasks[t].state = "asking"
    BY <1>2
  <2>4. QED
    BY <1>2, <2>1, <2>2, <2>3
<1>8. Warmed' /\ ~w_missed'
  BY <1>1, <1>3 DEF WarmUpInv, Warmed
<1> QED
  BY <1>5, <1>6, <1>7, <1>8 DEF WarmUpInv

\* Calls that fail, answers that spoil and files that are no answer end the warm-up.
LEMMA WarmUpStopsKeeps ==
    ASSUME WarmUpInv,
           \/ WarmUp!CallFails
           \/ \E i \in DOMAIN w_tasks : WarmUp!AnswerSpoils(i) \/ WarmUp!ReadSpoiled(i)
    PROVE  WarmUpInv'
<1>1. WarmUp!Abort /\ UNCHANGED <<w_warm, w_missed>>
  BY DEF WarmUp!CallFails, WarmUp!AnswerSpoils, WarmUp!ReadSpoiled
<1>2. ~w_warm
  BY AtWarmUp DEF WarmUp!CallFails, WarmUpInv, Warmed
<1> QED
  BY <1>1, <1>2, AbortKeeps

LEMMA NewServerKeeps == ASSUME WarmUpInv, WarmUp!NewServer PROVE WarmUpInv'
<1>1. UNCHANGED <<w_phase, w_tasks, w_files, w_warm, w_missed>>
  BY DEF WarmUp!NewServer
<1> QED
  BY <1>1, SMTT(60) DEF WarmUpInv, Answering, OfViews, OfChildren, Warmed, Below, Question, Asked

\* The server asks what was asked ahead: the page viewed, and what is likely after it.
LEMMA ServerAsksKeeps == ASSUME WarmUpInv, WarmUp!ServerAsks PROVE WarmUpInv'
<1>1. w_warm /\ UNCHANGED <<w_phase, w_tasks, w_files, w_warm>>
  BY DEF WarmUp!ServerAsks
<1>2. Answering' /\ OfViews' /\ OfChildren' /\ Warmed'
  BY <1>1 DEF WarmUpInv, Answering, OfViews, OfChildren, Warmed, Below, Question, Asked
<1>3. ~w_missed'
  <2> DEFINE question(s, i) == WarmUp!Question(WarmUp!Served(s[i]), WarmUp!Recent(SubSeq(s, 1, i - 1)))
             misses(q) == \/ q \notin DOMAIN w_files
                          \/ \E url \in w_files[q] :
                               /\ LinksOf[WarmUp!Served(url)] # {}
                               /\ WarmUp!ChildOf(q, url) \notin DOMAIN w_files
  <2>1. PICK s \in WarmUp!ToSet(Reading) : \E i \in DOMAIN s :
          LinksOf[question(s, i).page] # {} /\ (w_missed' => w_missed \/ misses(question(s, i)))
    BY DEF WarmUp!ServerAsks
  <2>2. PICK i \in DOMAIN s :
          LinksOf[question(s, i).page] # {} /\ (w_missed' => w_missed \/ misses(question(s, i)))
    BY <2>1
  <2> HIDE DEF misses
  <2>3. PICK k \in DOMAIN Reading : s = Reading[k]
    BY DEF WarmUp!ToSet
  <2>4. s[i] \in SnapshotPages
    <3>1. s \in Seq(SnapshotPages)
      BY <2>3, ProgramsAssumption
    <3>2. QED
      BY <3>1
  <2>5. question(s, i) = Question(k, i) /\ Question(k, i).page = s[i]
    BY <2>3, <2>4 DEF WarmUp!Served, WarmUp!Question, WarmUp!Viewed, Question
  <2>6. Asked(k, i)
    BY <2>2, <2>3, <2>5 DEF Asked
  <2>7. /\ Question(k, i) \in DOMAIN w_files
        /\ Below(k, i, w_files[Question(k, i)]) \subseteq DOMAIN w_files
    BY <1>1, <2>3, <2>6 DEF WarmUpInv, Warmed
  <2>8. \A url : WarmUp!ChildOf(Question(k, i), url).page = WarmUp!Served(url)
    BY DEF WarmUp!ChildOf, WarmUp!Question
  <2>9. ~misses(Question(k, i))
    BY <2>7, <2>8 DEF misses, Below
  <2>10. QED
    BY <2>2, <2>5, <2>9 DEF WarmUpInv
<1> QED
  BY <1>2, <1>3 DEF WarmUpInv

LEMMA WarmUpKeeps == ASSUME WarmUpInv, WarmUp!Next PROVE WarmUpInv'
<1>1. CASE \E i \in DOMAIN w_tasks : WarmUp!AskCached(i)
  BY <1>1, AskCachedKeeps
<1>2. CASE \E i \in DOMAIN w_tasks : WarmUp!Ask(i)
  BY <1>2, AskKeeps
<1>3. CASE \E i \in DOMAIN w_tasks : WarmUp!AnswerComes(i)
  BY <1>3, AnswerComesKeeps
<1>4. CASE \/ WarmUp!CallFails
           \/ \E i \in DOMAIN w_tasks : WarmUp!AnswerSpoils(i) \/ WarmUp!ReadSpoiled(i)
  BY <1>4, WarmUpStopsKeeps
<1> QED
  BY <1>1, <1>2, <1>3, <1>4, StartKeeps, NowChildrenKeeps, WarmUpEndKeeps, NewServerKeeps,
     ServerAsksKeeps DEF WarmUp!Next

LEMMA WarmUpStutters == ASSUME WarmUpInv, UNCHANGED WarmUpVars PROVE WarmUpInv'
  BY SMTT(60) DEF WarmUpVars, WarmUpInv, Answering, OfViews, OfChildren, Warmed, Below, Question, Asked

\* Once the warm-up has come to its end the offline server finds the answer to every question it
\* asks, one and two clicks deep, for any sessions, links and answers, however many calls failed.
THEOREM EveryAnswerThere == ProgramsSpec => []AnswersWarm
<1>1. ProgramsInit => WarmUpInv
  BY WarmUpBegins DEF ProgramsInit
<1>2. WarmUpInv /\ [ProgramsNext]_AllVars => WarmUpInv'
  BY WarmUpKeeps, WarmUpStutters, Apart
<1>3. WarmUpInv => AnswersWarm
  BY DEF WarmUpInv, AnswersWarm, WarmUp!AnswersWarm
<1> QED
  BY <1>1, <1>2, <1>3, PTL DEF ProgramsSpec

-----------------------------------------------------------------------------
(* The links of one page. *)

\* A set of numbers that has one has a least one.
LEMMA LeastOf ==
    ASSUME NEW T \in SUBSET Nat, T # {}
    PROVE  \E n \in T : \A m \in T : n <= m
<1> DEFINE R == OpToRel(<, Nat)
<1>1. IsWellFoundedOn(R, Nat)
  BY NatLessThanWellFounded
<1>2. \A m, n \in Nat : <<m, n>> \in R <=> m < n
  BY DEF OpToRel
<1> HIDE DEF R
<1>3. PICK n \in T : \A m \in T : ~ (<<m, n>> \in R)
  BY <1>1, WFMin
<1>4. \A m \in T : ~ (m < n)
  BY <1>2, <1>3
<1>5. n \in Nat /\ \A m \in T : m \in Nat
  OBVIOUS
<1>6. \A m \in T : n <= m
  BY <1>4, <1>5
<1>7. QED
  BY <1>6

\* What Append adds.
LEMMA AppendIs ==
    ASSUME NEW E, NEW s \in Seq(E), NEW e \in E
    PROVE  /\ Append(s, e) \in Seq(E) /\ Len(s) \in Nat /\ Len(Append(s, e)) = Len(s) + 1
           /\ Append(s, e)[Len(s) + 1] = e /\ \A i \in 1..Len(s) : Append(s, e)[i] = s[i]
OBVIOUS

\* What Min chooses.
LEMMA LinksMin ==
    ASSUME NEW T \in SUBSET Nat, T # {}
    PROVE  Links!Min(T) \in T /\ \A n \in T : Links!Min(T) <= n
<1>1. \E n \in T : \A m \in T : n <= m
  BY LeastOf
<1>2. QED
  BY <1>1 DEF Links!Min

\* ... of two numbers.
LEMMA LinksMinOfTwo ==
    ASSUME NEW m \in Nat, NEW n \in Nat
    PROVE  /\ Links!Min({m, n}) \in {m, n} /\ Links!Min({m, n}) <= m /\ Links!Min({m, n}) <= n
           /\ Links!Min({m, n}) \in Nat
  BY LinksMin, {m, n} \in SUBSET Nat, {m, n} # {}

\* The instance's cardinality is the library's.
LEMMA LinksCardinality == \A S : Links!Cardinality(S) = Cardinality(S)
  BY DEF Links!Cardinality, Cardinality

ValuesOf(f, n) == {f[k] : k \in 1..n}
NoneTwice(f, n) == \A j, k \in 1..n : f[j] = f[k] => j = k

\* As many values as arguments, when no value comes twice.
LEMMA CountOnce ==
    ASSUME NEW n \in Nat, NEW f, NoneTwice(f, n)
    PROVE  Cardinality(ValuesOf(f, n)) = n
<1> DEFINE V == ValuesOf(f, n)
<1> USE DEF ValuesOf, NoneTwice
<1> DEFINE g == [k \in 1..n |-> f[k]]
<1>1. g \in Bijection(1..n, V)
  <2>1. g \in [1..n -> V] /\ \A j, k \in 1..n : g[j] = g[k] => j = k
    OBVIOUS
  <2>2. \A v \in V : \E k \in 1..n : g[k] = v
    OBVIOUS
  <2> HIDE DEF g, V
  <2>3. QED
    BY <2>1, <2>2 DEF Bijection, Injection, Surjection, IsInjective
<1>2. IsFiniteSet(1..n) /\ Cardinality(1..n) = n
  BY FS_Interval
<1> HIDE DEF g, V
<1>3. QED
  BY <1>1, <1>2, FS_Bijection DEF ExistsBijection, V

\* A strict order on 1..n, and what has as many before it as it is far from 1.
StrictOrder(R, n) ==
    /\ \A i \in 1..n : <<i, i>> \notin R
    /\ \A i, j \in 1..n : i # j => <<i, j>> \in R \/ <<j, i>> \in R
    /\ \A i, j, k \in 1..n : <<i, j>> \in R /\ <<j, k>> \in R => <<i, k>> \in R
Places(r, R, n) == \A i \in 1..n : r[i] = 1 + Cardinality({j \in 1..n : <<j, i>> \in R})

\* Each element has a place of its own, and each place its element.
LEMMA PlacesOf ==
    ASSUME NEW n \in Nat, NEW R, StrictOrder(R, n), NEW r, Places(r, R, n)
    PROVE  /\ \A i \in 1..n : r[i] \in 1..n
           /\ \A i, j \in 1..n : <<i, j>> \in R => r[i] < r[j]
           /\ \A k \in 1..n : \E i \in 1..n : r[i] = k
<1> DEFINE B(i) == {j \in 1..n : <<j, i>> \in R}
<1>1. IsFiniteSet(1..n) /\ Cardinality(1..n) = n
  BY FS_Interval
<1>2. \A i \in 1..n : r[i] = 1 + Cardinality(B(i)) /\ B(i) \subseteq 1..n /\ i \notin B(i)
  BY DEF StrictOrder, Places
<1>3. \A i, j \in 1..n : <<i, j>> \in R => B(i) \subseteq B(j) /\ i \in B(j)
  BY DEF StrictOrder
<1> HIDE DEF B
<1>4. ASSUME NEW i \in 1..n PROVE IsFiniteSet(B(i)) /\ Cardinality(B(i)) \in Nat /\ Cardinality(B(i)) < n
  <2>1. IsFiniteSet(B(i)) /\ Cardinality(B(i)) <= n /\ Cardinality(B(i)) # n
    BY <1>1, <1>2, FS_Subset
  <2>2. Cardinality(B(i)) \in Nat
    BY <2>1, FS_CardinalityType
  <2>3. QED
    BY <2>1, <2>2
<1>5. ASSUME NEW i \in 1..n PROVE r[i] \in 1..n
  <2>1. r[i] = 1 + Cardinality(B(i))
    BY <1>2
  <2>2. QED
    BY <1>4, <2>1
<1>6. ASSUME NEW i \in 1..n, NEW j \in 1..n, <<i, j>> \in R PROVE r[i] < r[j]
  <2>1. B(i) \subseteq B(j) /\ B(i) # B(j)
    BY <1>2, <1>3, <1>6
  <2>2. Cardinality(B(i)) <= Cardinality(B(j)) /\ Cardinality(B(i)) # Cardinality(B(j))
    BY <1>4, <2>1, FS_Subset
  <2>3. r[i] = 1 + Cardinality(B(i)) /\ r[j] = 1 + Cardinality(B(j))
    BY <1>2
  <2>4. Cardinality(B(i)) \in Nat /\ Cardinality(B(j)) \in Nat
    BY <1>4
  <2>5. QED
    BY <2>2, <2>3, <2>4
<1>7. ASSUME NEW i \in 1..n, NEW j \in 1..n, r[i] = r[j] PROVE i = j
  <2>1. r[i] \in Nat /\ r[j] \in Nat
    BY <1>5
  <2>2. ~(r[i] < r[j]) /\ ~(r[j] < r[i])
    BY <1>7, <2>1
  <2>3. QED
    BY <1>6, <2>2 DEF StrictOrder
<1>8. ASSUME NEW k \in 1..n PROVE \E i \in 1..n : r[i] = k
  <2> DEFINE V == ValuesOf(r, n)
  <2>1. Cardinality(V) = n
    <3>1. NoneTwice(r, n)
      BY <1>7 DEF NoneTwice
    <3>2. QED
      BY <3>1, CountOnce
  <2>2. V \subseteq 1..n
    BY <1>5 DEF ValuesOf
  <2>3. V = 1..n
    BY <1>1, <2>1, <2>2, FS_Subset
  <2>4. QED
    BY <2>3 DEF ValuesOf
<1>9. QED
  BY <1>5, <1>6, <1>8

\* The anchors to a url among the first n of a page.
Anchored(pg, n, u) == {i \in 1..n : pg[i].url = u}

Entry == [url : LinkUrls, occurrences : Nat, boilerplate : BOOLEAN]

\* What extract_links keeps.
Kept(u) == u \in LinkUrls /\ Fate[u] # "self" /\ Links!Wanted(u)

\* An entry counts its url's anchors, and is boilerplate when all of them are.
CountedOf(pg, n, e) ==
    /\ Kept(e.url) /\ Anchored(pg, n, e.url) # {}
    /\ e.occurrences = Cardinality(Anchored(pg, n, e.url))
    /\ e.boilerplate <=> \A i \in Anchored(pg, n, e.url) : pg[i].chrome

\* v is first named after u.
FirstAfter(pg, n, u, v) ==
    \E i \in Anchored(pg, n, u) : \A m \in Anchored(pg, n, v) : i < m

\* The entries made of the first n anchors of a page.
EntriesOf(pg, n, raw) ==
    /\ raw \in Seq(Entry)
    /\ \A k \in DOMAIN raw : CountedOf(pg, n, raw[k])
    /\ \A j, k \in DOMAIN raw : j < k => FirstAfter(pg, n, raw[j].url, raw[k].url)
    /\ \A i \in 1..n : Kept(pg[i].url) => \E k \in DOMAIN raw : raw[k].url = pg[i].url

\* One url has one entry.
LEMMA EntriesApart ==
    ASSUME NEW pg, NEW n \in Nat, NEW raw, EntriesOf(pg, n, raw)
    PROVE  \A j, k \in DOMAIN raw : raw[j].url = raw[k].url => j = k
<1>1. \A u, v : FirstAfter(pg, n, u, v) => u # v
  BY DEF FirstAfter, Anchored
<1>2. DOMAIN raw \in SUBSET Nat
  BY DEF EntriesOf
<1>3. QED
  BY <1>1, <1>2 DEF EntriesOf

\* The next anchor is to u.
LEMMA OneMoreAnchor ==
    ASSUME NEW pg, NEW n \in Nat
    PROVE  /\ \A u : u # pg[n + 1].url => Anchored(pg, n + 1, u) = Anchored(pg, n, u)
           /\ Anchored(pg, n + 1, pg[n + 1].url) = Anchored(pg, n, pg[n + 1].url) \union {n + 1}
           /\ \A u : IsFiniteSet(Anchored(pg, n, u)) /\ Anchored(pg, n, u) \subseteq 1..n
           /\ Cardinality(Anchored(pg, n + 1, pg[n + 1].url)) = Cardinality(Anchored(pg, n, pg[n + 1].url)) + 1
           /\ \A u : Cardinality(Anchored(pg, n, u)) \in Nat
<1>1. \A u : u # pg[n + 1].url => Anchored(pg, n + 1, u) = Anchored(pg, n, u)
  BY DEF Anchored
<1>2. Anchored(pg, n + 1, pg[n + 1].url) = Anchored(pg, n, pg[n + 1].url) \union {n + 1}
  BY DEF Anchored
<1>3. \A u : Anchored(pg, n, u) \subseteq 1..n
  BY DEF Anchored
<1>4. IsFiniteSet(1..n)
  BY FS_Interval
<1>5. \A u : IsFiniteSet(Anchored(pg, n, u)) /\ Cardinality(Anchored(pg, n, u)) \in Nat
  BY <1>3, <1>4, FS_Subset, FS_CardinalityType
<1>6. n + 1 \notin Anchored(pg, n, pg[n + 1].url)
  BY <1>3
<1>7. Cardinality(Anchored(pg, n + 1, pg[n + 1].url)) = Cardinality(Anchored(pg, n, pg[n + 1].url)) + 1
  BY <1>2, <1>5, <1>6, FS_AddElement
<1>8. QED
  BY <1>1, <1>2, <1>3, <1>5, <1>7

\* Who comes first is settled by the anchors so far.
LEMMA FirstStays ==
    ASSUME NEW pg, NEW n \in Nat, NEW u, NEW v, FirstAfter(pg, n, u, v)
    PROVE  FirstAfter(pg, n + 1, u, v)
<1>1. PICK i \in Anchored(pg, n, u) : \A m \in Anchored(pg, n, v) : i < m
  BY DEF FirstAfter
<1>2. i \in Anchored(pg, n + 1, u) /\ i < n + 1
  BY DEF Anchored
<1>3. \A m \in Anchored(pg, n + 1, v) : m \in Anchored(pg, n, v) \/ m = n + 1
  BY DEF Anchored
<1>4. QED
  BY <1>1, <1>2, <1>3 DEF FirstAfter

\* An anchor that makes no entry and is in none changes none.
LEMMA Skipped ==
    ASSUME NEW pg, NEW n \in Nat, NEW raw, EntriesOf(pg, n, raw),
           \A k \in DOMAIN raw : raw[k].url # pg[n + 1].url, ~Kept(pg[n + 1].url)
    PROVE  EntriesOf(pg, n + 1, raw)
<1>1. \A k \in DOMAIN raw : Anchored(pg, n + 1, raw[k].url) = Anchored(pg, n, raw[k].url)
  BY OneMoreAnchor
<1>2. \A k \in DOMAIN raw : CountedOf(pg, n + 1, raw[k])
  BY <1>1 DEF EntriesOf, CountedOf
<1>3. \A j, k \in DOMAIN raw : j < k => FirstAfter(pg, n + 1, raw[j].url, raw[k].url)
  BY FirstStays DEF EntriesOf
<1>4. \A i \in 1..(n + 1) : i \in 1..n \/ i = n + 1
  OBVIOUS
<1>5. QED
  BY <1>2, <1>3, <1>4 DEF EntriesOf

\* An entry counts one more anchor.
LEMMA EntryCounts ==
    ASSUME NEW r \in Entry, NEW c \in BOOLEAN
    PROVE  LET new == [r EXCEPT !.occurrences = @ + 1, !.boilerplate = @ /\ c] IN
              /\ new \in Entry /\ new.url = r.url /\ new.occurrences = r.occurrences + 1
              /\ new.boilerplate = (r.boilerplate /\ c)
<1>1. PICK m \in Nat, b \in BOOLEAN : m = r.occurrences + 1 /\ b = (r.boilerplate /\ c)
  BY DEF Entry
<1>2. [r EXCEPT !.occurrences = @ + 1, !.boilerplate = @ /\ c] = [r EXCEPT !.occurrences = m, !.boilerplate = b]
  BY <1>1, Zenon
<1> DEFINE s == [r EXCEPT !.occurrences = m, !.boilerplate = b]
<1>3. s \in Entry /\ s.url = r.url /\ s.occurrences = m /\ s.boilerplate = b
  BY DEF Entry
<1> HIDE DEF s
<1>4. QED
  BY <1>1, <1>2, <1>3, Zenon DEF s

\* An anchor to a url that has an entry is counted in it.
LEMMA CountedAgain ==
    ASSUME NEW pg, NEW n \in Nat, NEW raw, EntriesOf(pg, n, raw), pg[n + 1].chrome \in BOOLEAN,
           NEW k \in DOMAIN raw, raw[k].url = pg[n + 1].url
    PROVE  EntriesOf(pg, n + 1, [raw EXCEPT ![k].occurrences = @ + 1,
                                            ![k].boilerplate = @ /\ pg[n + 1].chrome])
<1> DEFINE new == [raw EXCEPT ![k].occurrences = @ + 1, ![k].boilerplate = @ /\ pg[n + 1].chrome]
<1>1. raw \in Seq(Entry) /\ raw[k] \in Entry
  BY DEF EntriesOf
<1>2. /\ DOMAIN new = DOMAIN raw
      /\ new[k] = [raw[k] EXCEPT !.occurrences = @ + 1, !.boilerplate = @ /\ pg[n + 1].chrome]
      /\ \A j \in DOMAIN raw : j # k => new[j] = raw[j]
  BY <1>1
<1> HIDE DEF new
<1>3. /\ new[k] \in Entry /\ new[k].url = raw[k].url /\ new[k].occurrences = raw[k].occurrences + 1
      /\ new[k].boilerplate = (raw[k].boilerplate /\ pg[n + 1].chrome)
  <2>1. PICK r \in Entry, c \in BOOLEAN : r = raw[k] /\ c = pg[n + 1].chrome
    BY <1>1
  <2>2. new[k] = [r EXCEPT !.occurrences = @ + 1, !.boilerplate = @ /\ c]
    BY <1>2, <2>1, Zenon
  <2> DEFINE e == [r EXCEPT !.occurrences = @ + 1, !.boilerplate = @ /\ c]
  <2>3. e \in Entry /\ e.url = r.url /\ e.occurrences = r.occurrences + 1 /\ e.boilerplate = (r.boilerplate /\ c)
    BY EntryCounts, Zenon
  <2> HIDE DEF e
  <2>4. new[k] = e
    BY <2>2 DEF e
  <2>5. QED
    BY <2>1, <2>3, <2>4, Zenon
<1>4. new \in Seq(Entry)
  <2>1. DOMAIN raw = 1..Len(raw) /\ Len(raw) \in Nat /\ \A j \in DOMAIN raw : raw[j] \in Entry
    BY <1>1
  <2>2. new \in [1..Len(raw) -> Entry]
    <3>1. new = [j \in DOMAIN raw |-> new[j]]
      BY DEF new
    <3>2. QED
      BY <1>2, <1>3, <2>1, <3>1
  <2>3. QED
    BY <2>1, <2>2
<1>5. \A j \in DOMAIN raw : new[j].url = raw[j].url
  BY <1>2, <1>3
<1>6. ASSUME NEW j \in DOMAIN raw PROVE CountedOf(pg, n + 1, new[j])
  <2>1. CountedOf(pg, n, raw[j])
    BY DEF EntriesOf
  <2>2. CASE j # k
    <3>1. raw[j].url # pg[n + 1].url
      BY <2>2, EntriesApart
    <3>2. Anchored(pg, n + 1, raw[j].url) = Anchored(pg, n, raw[j].url)
      BY <3>1, OneMoreAnchor
    <3>3. QED
      BY <1>2, <2>1, <2>2, <3>2 DEF CountedOf
  <2>3. CASE j = k
    <3> DEFINE u == pg[n + 1].url
    <3>1. /\ Anchored(pg, n + 1, u) = Anchored(pg, n, u) \union {n + 1}
          /\ Cardinality(Anchored(pg, n + 1, u)) = Cardinality(Anchored(pg, n, u)) + 1
      BY OneMoreAnchor
    <3>2. /\ Kept(u) /\ raw[k].occurrences = Cardinality(Anchored(pg, n, u))
          /\ raw[k].boilerplate <=> \A i \in Anchored(pg, n, u) : pg[i].chrome
      BY <2>1, <2>3 DEF CountedOf
    <3>3. new[k].url = u
      BY <1>3
    <3>4. new[k].boilerplate <=> \A i \in Anchored(pg, n + 1, u) : pg[i].chrome
      BY <1>1, <1>3, <3>1, <3>2 DEF Entry
    <3>5. QED
      BY <1>3, <2>3, <3>1, <3>2, <3>3, <3>4 DEF CountedOf
  <2>4. QED
    BY <2>2, <2>3
<1>7. \A i, j \in DOMAIN raw : i < j => FirstAfter(pg, n + 1, new[i].url, new[j].url)
  BY <1>5, FirstStays DEF EntriesOf
<1>8. ASSUME NEW i \in 1..(n + 1), Kept(pg[i].url) PROVE \E j \in DOMAIN raw : new[j].url = pg[i].url
  <2>1. CASE i \in 1..n
    BY <1>5, <1>8, <2>1 DEF EntriesOf
  <2>2. CASE i = n + 1
    BY <1>5, <2>2
  <2>3. QED
    BY <2>1, <2>2
<1>9. QED
  BY <1>2, <1>4, <1>6, <1>7, <1>8 DEF EntriesOf, new

\* The first anchor to a url that is kept makes an entry, the last one so far.
LEMMA AddedOnce ==
    ASSUME NEW pg, NEW n \in Nat, NEW raw, EntriesOf(pg, n, raw), pg[n + 1].chrome \in BOOLEAN,
           \A k \in DOMAIN raw : raw[k].url # pg[n + 1].url, Kept(pg[n + 1].url)
    PROVE  EntriesOf(pg, n + 1, Append(raw, [url |-> pg[n + 1].url, occurrences |-> 1,
                                             boilerplate |-> pg[n + 1].chrome]))
<1> DEFINE u == pg[n + 1].url
<1> DEFINE e == [url |-> u, occurrences |-> 1, boilerplate |-> pg[n + 1].chrome]
<1> DEFINE new == Append(raw, e)
<1>1. raw \in Seq(Entry) /\ e \in Entry
  BY DEF EntriesOf, Entry, Kept
<1>2. /\ new \in Seq(Entry) /\ Len(raw) \in Nat /\ Len(new) = Len(raw) + 1 /\ new[Len(raw) + 1] = e
      /\ \A k \in 1..Len(raw) : new[k] = raw[k]
  BY <1>1, AppendIs
<1>3. DOMAIN raw = 1..Len(raw) /\ DOMAIN new = 1..(Len(raw) + 1)
  BY <1>1, <1>2
<1>4. e.url = u /\ e.occurrences = 1 /\ e.boilerplate = pg[n + 1].chrome
  OBVIOUS
<1> HIDE DEF new, e
<1>5. Anchored(pg, n, u) = {}
  BY <1>3 DEF EntriesOf, Anchored
<1>6. Anchored(pg, n + 1, u) = {n + 1} /\ Cardinality(Anchored(pg, n + 1, u)) = 1
  <2>1. Anchored(pg, n + 1, u) = Anchored(pg, n, u) \union {n + 1}
    BY OneMoreAnchor
  <2>2. Cardinality(Anchored(pg, n + 1, u)) = Cardinality(Anchored(pg, n, u)) + 1
    BY OneMoreAnchor
  <2>3. QED
    BY <1>5, <2>1, <2>2, FS_EmptySet
<1>7. CountedOf(pg, n + 1, e)
  BY <1>4, <1>6 DEF CountedOf
<1>8. ASSUME NEW k \in 1..Len(raw) PROVE CountedOf(pg, n + 1, new[k])
  <2>1. Anchored(pg, n + 1, raw[k].url) = Anchored(pg, n, raw[k].url) /\ CountedOf(pg, n, raw[k])
    <3>1. k \in DOMAIN raw /\ raw[k].url # u
      BY <1>3
    <3>2. QED
      BY <3>1, OneMoreAnchor DEF EntriesOf
  <2>2. QED
    BY <1>2, <2>1 DEF CountedOf
<1>9. ASSUME NEW j \in 1..(Len(raw) + 1), NEW k \in 1..(Len(raw) + 1), j < k
      PROVE  FirstAfter(pg, n + 1, new[j].url, new[k].url)
  <2>1. j \in 1..Len(raw) /\ new[j] = raw[j]
    BY <1>2, <1>9
  <2>2. CASE k \in 1..Len(raw)
    BY <1>2, <1>3, <1>9, <2>1, <2>2, FirstStays DEF EntriesOf
  <2>3. CASE k = Len(raw) + 1
    <3>1. PICK i \in Anchored(pg, n, raw[j].url) : TRUE
      BY <1>3, <2>1 DEF EntriesOf, CountedOf
    <3>2. i \in Anchored(pg, n + 1, raw[j].url) /\ i < n + 1
      BY <3>1 DEF Anchored
    <3>3. new[k].url = u
      BY <1>2, <1>4, <2>3
    <3>4. QED
      BY <1>6, <2>1, <3>2, <3>3 DEF FirstAfter
  <2>4. QED
    BY <1>2, <2>2, <2>3
<1>10. ASSUME NEW i \in 1..(n + 1), Kept(pg[i].url)
       PROVE  \E k \in 1..(Len(raw) + 1) : new[k].url = pg[i].url
  <2>1. CASE i \in 1..n
    <3>1. PICK k \in 1..Len(raw) : raw[k].url = pg[i].url
      BY <1>3, <1>10, <2>1 DEF EntriesOf
    <3>2. k \in 1..(Len(raw) + 1) /\ new[k] = raw[k]
      BY <1>2
    <3>3. QED
      BY <3>1, <3>2
  <2>2. CASE i = n + 1
    BY <1>2, <1>4, <2>2
  <2>3. QED
    BY <2>1, <2>2
<1>11. \A k \in 1..(Len(raw) + 1) : CountedOf(pg, n + 1, new[k])
  BY <1>2, <1>7, <1>8
<1>12. QED
  BY <1>2, <1>3, <1>9, <1>10, <1>11 DEF EntriesOf, new, e

\* What extract_links returns, of the entries.
Returned(raw) ==
    [i \in 1..Links!Min({Len(raw), MaxCandidates}) |->
        [url |-> raw[i].url, occurrences |-> raw[i].occurrences, boilerplate |-> raw[i].boilerplate,
         position |-> i - 1]]

\* rest is what is left of the page after its first n anchors.
WalkedTo(pg, rest, n) ==
    /\ pg \in Seq(Links!Nodes) /\ rest \in Seq(Links!Nodes) /\ n \in Nat /\ Len(pg) = n + Len(rest)
    /\ \A i \in 1..Len(rest) : rest[i] = pg[n + i]

LinksInv ==
    /\ \E n \in Nat : WalkedTo(l_page, l_rest, n) /\ EntriesOf(l_page, n, l_raw)
    /\ \A all \in l_links : l_rest = <<>> /\ all = Returned(l_raw)
    /\ l_links = {} => l_shown = {}
    /\ \A s \in l_shown :
         /\ s.order \in {"page", "content_first", "repeats_first"}
         /\ \A all \in l_links : s.options = Links!ChooseLinks(all, MaxOptions, s.order)

\* The walk goes one anchor on.
LEMMA WalksOn ==
    ASSUME NEW pg, NEW rest, NEW n, WalkedTo(pg, rest, n), rest # <<>>
    PROVE  /\ WalkedTo(pg, Tail(rest), n + 1) /\ Head(rest) = pg[n + 1] /\ pg[n + 1].chrome \in BOOLEAN
           /\ n \in Nat
<1>1. rest \in Seq(Links!Nodes) /\ Len(rest) \in Nat /\ Len(rest) # 0 /\ n \in Nat
  BY DEF WalkedTo
<1>2. /\ Tail(rest) \in Seq(Links!Nodes) /\ Len(Tail(rest)) = Len(rest) - 1
      /\ \A i \in 1..(Len(rest) - 1) : Tail(rest)[i] = rest[i + 1]
      /\ Head(rest) = rest[1] /\ rest[1] \in Links!Nodes
  BY <1>1
<1>3. Head(rest) = pg[n + 1]
  BY <1>1, <1>2 DEF WalkedTo
<1>4. pg[n + 1].chrome \in BOOLEAN
  BY <1>2, <1>3 DEF Links!Nodes
<1>5. \A i \in 1..Len(Tail(rest)) : Tail(rest)[i] = pg[n + 1 + i]
  <2>1. \A i \in 1..(Len(rest) - 1) : i + 1 \in 1..Len(rest) /\ n + (i + 1) = n + 1 + i
    BY <1>1
  <2>2. QED
    BY <1>1, <1>2, <2>1 DEF WalkedTo
<1>6. QED
  BY <1>1, <1>2, <1>3, <1>4, <1>5 DEF WalkedTo

\* Every page to walk is walked from its first anchor.
LEMMA LinksBegins == Links!Init => LinksInv
<1> SUFFICES ASSUME Links!Init PROVE LinksInv
  OBVIOUS
<1>1. l_page \in Seq(Links!Nodes) /\ l_rest = l_page /\ l_raw = <<>> /\ l_links = {} /\ l_shown = {}
  <2>1. PICK m \in 0..MaxNodes : l_page \in [1..m -> Links!Nodes]
    BY DEF Links!Init, Links!BoundedSeq, Links!SeqOf
  <2>2. QED
    BY <2>1, LinksAssumption DEF Links!Init
<1>2. WalkedTo(l_page, l_rest, 0)
  BY <1>1 DEF WalkedTo
<1>3. EntriesOf(l_page, 0, l_raw)
  BY <1>1 DEF EntriesOf
<1>4. QED
  BY <1>1, <1>2, <1>3 DEF LinksInv

\* An anchor is skipped, counted or makes an entry.
LEMMA WalkKeeps ==
    ASSUME LinksInv, Links!Skip \/ Links!Again \/ Links!Add
    PROVE  LinksInv'
<1>1. PICK n \in Nat : WalkedTo(l_page, l_rest, n) /\ EntriesOf(l_page, n, l_raw)
  BY DEF LinksInv
<1>2. /\ l_links = {} /\ l_rest # <<>> /\ l_rest' = Tail(l_rest) /\ l_page' = l_page
      /\ l_links' = {} /\ l_shown' = {}
  BY DEF LinksInv, Links!Skip, Links!Again, Links!Add, Links!Walking
<1>3. WalkedTo(l_page, l_rest', n + 1) /\ Head(l_rest) = l_page[n + 1] /\ l_page[n + 1].chrome \in BOOLEAN
  BY <1>1, <1>2, WalksOn
<1> DEFINE u == l_page[n + 1].url
<1>4. Kept(u) <=> ~Links!SkippedBeforeIndex(u) /\ Links!Wanted(u)
  BY DEF Kept, Links!SkippedBeforeIndex
<1>5. CASE Links!Skip
  <2>1. \A k \in DOMAIN l_raw : Kept(l_raw[k].url)
    BY <1>1 DEF EntriesOf, CountedOf
  <2>2. Links!SkippedBeforeIndex(u) \/ (Links!IndexOf(u) = {} /\ ~Links!Wanted(u))
    BY <1>3, <1>5 DEF Links!Skip
  <2>3. ~Kept(u)
    BY <1>4, <2>2
  <2>4. EntriesOf(l_page, n + 1, l_raw)
    BY <1>1, <2>1, <2>3, Skipped
  <2>5. l_raw' = l_raw
    BY <1>5 DEF Links!Skip
  <2>6. n + 1 \in Nat
    OBVIOUS
  <2>7. QED
    BY <1>2, <1>3, <2>4, <2>5, <2>6 DEF LinksInv
<1>6. CASE Links!Again
  <2>1. PICK i \in Links!IndexOf(u) :
           l_raw' = [l_raw EXCEPT ![i].occurrences = @ + 1, ![i].boilerplate = @ /\ l_page[n + 1].chrome]
    BY <1>3, <1>6, Zenon DEF Links!Again
  <2>2. i \in DOMAIN l_raw /\ l_raw[i].url = u
    BY <2>1 DEF Links!IndexOf
  <2>3. EntriesOf(l_page, n + 1, l_raw')
    BY <1>1, <1>3, <2>1, <2>2, CountedAgain, Zenon
  <2>4. n + 1 \in Nat
    OBVIOUS
  <2>5. QED
    BY <1>2, <1>3, <2>3, <2>4 DEF LinksInv
<1>7. CASE Links!Add
  <2>1. /\ ~Links!SkippedBeforeIndex(u) /\ Links!IndexOf(u) = {} /\ Links!Wanted(u)
        /\ l_raw' = Append(l_raw, [url |-> u, occurrences |-> 1, boilerplate |-> l_page[n + 1].chrome])
    BY <1>3, <1>7, Zenon DEF Links!Add
  <2>2. \A k \in DOMAIN l_raw : l_raw[k].url # u
    BY <2>1 DEF Links!IndexOf
  <2>3. EntriesOf(l_page, n + 1, l_raw')
    BY <1>1, <1>3, <1>4, <2>1, <2>2, AddedOnce
  <2>4. n + 1 \in Nat
    OBVIOUS
  <2>5. QED
    BY <1>2, <1>3, <2>3, <2>4 DEF LinksInv
<1>8. QED
  BY <1>5, <1>6, <1>7

\* The list is returned once, and options are chosen from it.
LEMMA ReturnKeeps ==
    ASSUME LinksInv, Links!Extracted \/ Links!Show
    PROVE  LinksInv'
<1>1. l_page' = l_page /\ l_rest' = l_rest /\ l_raw' = l_raw
  BY DEF Links!Extracted, Links!Show
<1>2. CASE Links!Extracted
  <2>1. l_links' = {Returned(l_raw)} /\ l_rest = <<>> /\ l_shown' = l_shown /\ l_shown = {}
    BY <1>2, Zenon DEF Links!Extracted, Returned, LinksInv
  <2>2. QED
    BY <1>1, <2>1 DEF LinksInv
<1>3. CASE Links!Show
  <2>1. l_links # {} /\ l_links' = l_links
    BY <1>3 DEF Links!Show
  <2>2. PICK all \in l_links, order \in {"page", "content_first", "repeats_first"} :
           l_shown' = {[order |-> order, options |-> Links!ChooseLinks(all, MaxOptions, order)]}
    BY <1>3, Zenon DEF Links!Show
  <2>3. \A other \in l_links : other = all
    BY DEF LinksInv
  <2>4. QED
    BY <1>1, <2>1, <2>2, <2>3 DEF LinksInv
<1>4. QED
  BY <1>2, <1>3

\* Every step keeps LinksInv.
LEMMA LinksKeeps == ASSUME LinksInv, Links!Next PROVE LinksInv'
  BY WalkKeeps, ReturnKeeps DEF Links!Next

\* So does a step of another part.
LEMMA LinksStutters == ASSUME LinksInv, UNCHANGED LinksVars PROVE LinksInv'
  BY DEF LinksInv, LinksVars

\* A step is of the links, or leaves them alone.
LEMMA LinksApart ==
    [ProgramsNext]_AllVars => part' = part /\ (part = "links" => Links!Next \/ UNCHANGED LinksVars)
  BY DEF ProgramsNext, AllVars, PolicyStep, ServerPrefetchStep, LinksStep, BatchStep, ClientRunStep,
         WarmUpStep, SnapshotStep, WarningsStep, CutoffSweepStep, Others

\* When the walk is over, the entries are the links of the page, in the order of their first anchors.
LEMMA WalkedAll ==
    ASSUME LinksInv, l_rest = <<>>
    PROVE  /\ l_raw \in Seq(Entry) /\ EntriesOf(l_page, Len(l_page), l_raw)
           /\ \A u : Links!Anchors(u) = Anchored(l_page, Len(l_page), u)
           /\ Links!OnPage = {l_raw[k].url : k \in 1..Len(l_raw)}
           /\ \A j, k \in 1..Len(l_raw) : j < k <=> Links!First(l_raw[j].url) < Links!First(l_raw[k].url)
<1>1. PICK n \in Nat : WalkedTo(l_page, l_rest, n) /\ EntriesOf(l_page, n, l_raw)
  BY DEF LinksInv
<1>2. n = Len(l_page) /\ DOMAIN l_page = 1..n
  <2>1. l_page \in Seq(Links!Nodes) /\ Len(l_page) = n + Len(l_rest) /\ Len(l_rest) = 0
    BY <1>1 DEF WalkedTo
  <2>2. QED
    BY <2>1
<1>3. \A u : Links!Anchors(u) = Anchored(l_page, n, u)
  BY <1>2 DEF Links!Anchors, Anchored
<1>4. l_raw \in Seq(Entry) /\ DOMAIN l_raw = 1..Len(l_raw) /\ Len(l_raw) \in Nat
  BY <1>1 DEF EntriesOf
<1>5. \A u : u \in Links!OnPage <=> Kept(u) /\ Anchored(l_page, n, u) # {}
  BY <1>3 DEF Links!OnPage, Kept
<1>6. \A k \in 1..Len(l_raw) : l_raw[k].url \in Links!OnPage
  BY <1>1, <1>4, <1>5 DEF EntriesOf, CountedOf
<1>7. ASSUME NEW u \in Links!OnPage PROVE \E k \in 1..Len(l_raw) : l_raw[k].url = u
  <2>1. PICK i \in 1..n : l_page[i].url = u
    BY <1>5 DEF Anchored
  <2>2. Kept(u)
    BY <1>5
  <2>3. QED
    BY <1>1, <1>4, <2>1, <2>2 DEF EntriesOf
<1>8. \A u \in Links!OnPage : Links!First(u) \in Anchored(l_page, n, u) /\ \A m \in Anchored(l_page, n, u) : Links!First(u) <= m
  <2>1. ASSUME NEW u \in Links!OnPage
        PROVE  Links!First(u) \in Anchored(l_page, n, u) /\ \A m \in Anchored(l_page, n, u) : Links!First(u) <= m
    <3>1. Anchored(l_page, n, u) \in SUBSET Nat /\ Anchored(l_page, n, u) # {}
      BY <1>5 DEF Anchored
    <3>2. QED
      BY <1>3, <3>1, LinksMin DEF Links!First
  <2>2. QED
    BY <2>1
<1>9. ASSUME NEW j \in 1..Len(l_raw), NEW k \in 1..Len(l_raw), j < k
      PROVE  Links!First(l_raw[j].url) < Links!First(l_raw[k].url)
  <2>1. PICK i \in Anchored(l_page, n, l_raw[j].url) : \A m \in Anchored(l_page, n, l_raw[k].url) : i < m
    BY <1>1, <1>4, <1>9 DEF EntriesOf, FirstAfter
  <2>2. Links!First(l_raw[j].url) <= i /\ i < Links!First(l_raw[k].url)
    BY <1>6, <1>8, <2>1
  <2>3. Links!First(l_raw[j].url) \in Nat /\ i \in Nat /\ Links!First(l_raw[k].url) \in Nat
    BY <1>6, <1>8, <2>1 DEF Anchored
  <2>4. QED
    BY <2>2, <2>3
<1>10. \A k \in 1..Len(l_raw) : Links!First(l_raw[k].url) \in Nat
  BY <1>6, <1>8 DEF Anchored
<1>11. ASSUME NEW j \in 1..Len(l_raw), NEW k \in 1..Len(l_raw), ~(j < k)
       PROVE  ~(Links!First(l_raw[j].url) < Links!First(l_raw[k].url))
  <2>1. CASE j = k
    BY <1>10, <2>1
  <2>2. CASE k < j
    BY <1>9, <1>10, <2>2
  <2>3. QED
    BY <1>11, <2>1, <2>2
<1>12. QED
  BY <1>1, <1>2, <1>3, <1>4, <1>6, <1>7, <1>9, <1>11

\* What is returned is the first of them.
LEMMA ReturnedIs ==
    ASSUME LinksInv, NEW all \in l_links
    PROVE  /\ l_rest = <<>> /\ all = Returned(l_raw)
           /\ Len(all) = Links!Min({Len(l_raw), MaxCandidates}) /\ Len(all) \in Nat
           /\ DOMAIN all = 1..Len(all) /\ Len(l_raw) \in Nat /\ Len(all) <= Len(l_raw)
           /\ (Len(l_raw) <= MaxCandidates => Len(all) = Len(l_raw))
           /\ \A i \in 1..Len(all) :
                /\ all[i].url = l_raw[i].url /\ all[i].occurrences = l_raw[i].occurrences
                /\ all[i].boilerplate = l_raw[i].boilerplate /\ all[i].position = i - 1
                /\ l_raw[i] \in Entry
<1>1. l_rest = <<>> /\ all = Returned(l_raw)
  BY DEF LinksInv
<1>2. l_raw \in Seq(Entry) /\ Len(l_raw) \in Nat
  BY <1>1, WalkedAll
<1> DEFINE m == Links!Min({Len(l_raw), MaxCandidates})
<1>3. m \in {Len(l_raw), MaxCandidates} /\ m \in Nat /\ m <= Len(l_raw) /\ m <= MaxCandidates /\ MaxCandidates \in Nat
  BY <1>2, LinksMinOfTwo, LinksAssumption
<1> HIDE DEF m
<1>4. /\ DOMAIN all = 1..m
      /\ \A i \in 1..m : all[i] = [url |-> l_raw[i].url, occurrences |-> l_raw[i].occurrences,
                                   boilerplate |-> l_raw[i].boilerplate, position |-> i - 1]
  BY <1>1 DEF Returned, m
<1>5. Len(all) = m
  BY <1>1, <1>3 DEF Returned, m
<1>6. \A i \in 1..m : l_raw[i] \in Entry
  BY <1>2, <1>3
<1>7. Len(l_raw) <= MaxCandidates => m = Len(l_raw)
  BY <1>2, <1>3
<1>8. /\ Len(all) = Links!Min({Len(l_raw), MaxCandidates}) /\ Len(all) \in Nat
      /\ DOMAIN all = 1..Len(all) /\ Len(l_raw) \in Nat /\ Len(all) <= Len(l_raw)
      /\ (Len(l_raw) <= MaxCandidates => Len(all) = Len(l_raw))
  BY <1>2, <1>3, <1>4, <1>5, <1>7 DEF m
<1>9. \A i \in 1..Len(all) :
         /\ all[i].url = l_raw[i].url /\ all[i].occurrences = l_raw[i].occurrences
         /\ all[i].boilerplate = l_raw[i].boilerplate /\ all[i].position = i - 1
         /\ l_raw[i] \in Entry
  BY <1>4, <1>5, <1>6
<1>10. QED
  BY <1>1, <1>8, <1>9

\* One entry for each link of the page.
LEMMA OnPageCount ==
    ASSUME LinksInv, l_rest = <<>>
    PROVE  /\ Links!Cardinality(Links!OnPage) = Len(l_raw) /\ Len(l_raw) \in Nat
           /\ \A m \in 0..Len(l_raw) : Cardinality({l_raw[k].url : k \in 1..m}) = m
<1>1. Len(l_raw) \in Nat
  BY WalkedAll
<1>2. /\ EntriesOf(l_page, Len(l_page), l_raw) /\ l_raw \in Seq(Entry)
      /\ Links!OnPage = {l_raw[k].url : k \in 1..Len(l_raw)}
  BY WalkedAll
<1>3. Len(l_page) \in Nat
  BY DEF LinksInv, WalkedTo
<1>4. \A j, k \in 1..Len(l_raw) : l_raw[j].url = l_raw[k].url => j = k
  <2>1. DOMAIN l_raw = 1..Len(l_raw)
    BY <1>2
  <2>2. QED
    BY <1>2, <1>3, <2>1, EntriesApart
<1>5. \A m \in 0..Len(l_raw) : Cardinality({l_raw[k].url : k \in 1..m}) = m
  <2>1. PICK f : f = [k \in 1..Len(l_raw) |-> l_raw[k].url]
    OBVIOUS
  <2>2. \A j, k \in 1..Len(l_raw) : f[j] = f[k] => j = k
    BY <1>4, <2>1
  <2>3. ASSUME NEW m \in 0..Len(l_raw) PROVE Cardinality({l_raw[k].url : k \in 1..m}) = m
    <3>1. m \in Nat /\ \A k \in 1..m : k \in 1..Len(l_raw)
      BY <1>1
    <3>2. NoneTwice(f, m)
      BY <2>2, <3>1 DEF NoneTwice
    <3>3. ValuesOf(f, m) = {l_raw[k].url : k \in 1..m}
      BY <2>1, <3>1 DEF ValuesOf
    <3>4. m \in Nat
      BY <3>1
    <3>5. Cardinality(ValuesOf(f, m)) = m
      BY <3>2, <3>4, CountOnce
    <3>6. QED
      BY <3>3, <3>5
  <2>4. QED
    BY <2>3
<1>6. Links!Cardinality(Links!OnPage) = Len(l_raw)
  BY <1>1, <1>2, <1>5, LinksCardinality
<1>7. QED
  BY <1>1, <1>5, <1>6

\* What extract_links returns is said of the page.
LEMMA ReturnedRight == ASSUME LinksInv, NEW all \in l_links PROVE Links!AsOnPage(all)
<1>1. /\ l_rest = <<>> /\ DOMAIN all = 1..Len(all) /\ Len(all) <= Len(l_raw) /\ Len(all) \in Nat /\ Len(l_raw) \in Nat
      /\ Len(all) = Links!Min({Len(l_raw), MaxCandidates})
  BY ReturnedIs
<1>2. /\ EntriesOf(l_page, Len(l_page), l_raw) /\ l_raw \in Seq(Entry)
      /\ \A u : Links!Anchors(u) = Anchored(l_page, Len(l_page), u)
      /\ Links!OnPage = {l_raw[k].url : k \in 1..Len(l_raw)}
      /\ \A j, k \in 1..Len(l_raw) : j < k <=> Links!First(l_raw[j].url) < Links!First(l_raw[k].url)
  BY <1>1, WalkedAll
<1>3. \A m \in 0..Len(l_raw) : Cardinality({l_raw[k].url : k \in 1..m}) = m
  BY <1>1, OnPageCount
<1>4. Links!Cardinality(Links!OnPage) = Len(l_raw)
  BY <1>1, OnPageCount
<1>5. Len(all) = Links!Min({Links!Cardinality(Links!OnPage), MaxCandidates})
  BY <1>1, <1>4
<1>6. ASSUME NEW i \in DOMAIN all
      PROVE  /\ all[i].url \in Links!OnPage
             /\ all[i].occurrences = Links!Cardinality(Links!Anchors(all[i].url))
             /\ all[i].boilerplate = ~Links!Content(all[i].url)
             /\ i - 1 = Links!Cardinality({u \in Links!OnPage : Links!First(u) < Links!First(all[i].url)})
  <2>1. /\ i \in 1..Len(l_raw) /\ all[i].url = l_raw[i].url /\ all[i].occurrences = l_raw[i].occurrences
        /\ all[i].boilerplate = l_raw[i].boilerplate /\ l_raw[i] \in Entry
    BY <1>1, ReturnedIs
  <2>2. CountedOf(l_page, Len(l_page), l_raw[i])
    BY <1>2, <2>1 DEF EntriesOf
  <2>3. all[i].url \in Links!OnPage
    BY <1>2, <2>1
  <2>4. all[i].occurrences = Links!Cardinality(Links!Anchors(all[i].url))
    BY <1>2, <2>1, <2>2, LinksCardinality DEF CountedOf
  <2>5. all[i].boilerplate = ~Links!Content(all[i].url)
    <3>1. l_raw[i].boilerplate \in BOOLEAN
      BY <2>1 DEF Entry
    <3>2. l_raw[i].boilerplate <=> ~Links!Content(l_raw[i].url)
      BY <1>2, <2>2 DEF CountedOf, Links!Content
    <3>3. QED
      BY <2>1, <3>1, <3>2 DEF Links!Content
  <2>6. {u \in Links!OnPage : Links!First(u) < Links!First(l_raw[i].url)} = {l_raw[k].url : k \in 1..(i - 1)}
    <3>1. \A k \in 1..(i - 1) : k \in 1..Len(l_raw) /\ k < i
      BY <2>1
    <3>2. \A k \in 1..Len(l_raw) : k < i => k \in 1..(i - 1)
      BY <2>1
    <3>3. QED
      BY <1>2, <2>1, <3>1, <3>2
  <2>7. i - 1 = Links!Cardinality({u \in Links!OnPage : Links!First(u) < Links!First(all[i].url)})
    <3>1. i - 1 \in 0..Len(l_raw)
      BY <1>1, <2>1
    <3>2. QED
      BY <1>3, <2>1, <2>6, <3>1, LinksCardinality
  <2>8. QED
    BY <2>3, <2>4, <2>5, <2>7
<1>7. QED
  BY <1>5, <1>6 DEF Links!AsOnPage

\* p lists the n links of all in the order.
RankedBy(p, n, all, order) ==
    /\ p \in [1..n -> 1..n] /\ \A i \in 1..n : \E k \in 1..n : p[k] = i
    /\ \A k \in 1..n : Links!Ranked(all, order)[k] = all[p[k]]
    /\ \A k, l \in 1..n : Links!Before(order, all[p[k]], all[p[l]]) => k < l
    /\ \A k, l \in 1..n : p[k] = p[l] => k = l

\* Every order is a strict one, and so lists them.
LEMMA RankedIs ==
    ASSUME LinksInv, NEW all \in l_links, NEW order \in {"page", "content_first", "repeats_first"}
    PROVE  \E p : RankedBy(p, Len(all), all, order)
<1>1. PICK n \in Nat : n = Len(all) /\ DOMAIN all = 1..n
  BY ReturnedIs
<1>2. \A i \in 1..n : all[i].position = i - 1 /\ all[i].boilerplate \in BOOLEAN /\ all[i].occurrences \in Nat
  <2>1. \A i \in 1..n : /\ all[i].position = i - 1 /\ all[i].boilerplate = l_raw[i].boilerplate
                        /\ all[i].occurrences = l_raw[i].occurrences /\ l_raw[i] \in Entry
    BY <1>1, ReturnedIs
  <2>2. QED
    BY <2>1 DEF Entry
<1>3. PICK R : \A i, j \in 1..n : <<i, j>> \in R <=> Links!Before(order, all[i], all[j])
  <2> DEFINE R == {e \in (1..n) \X (1..n) : Links!Before(order, all[e[1]], all[e[2]])}
  <2>1. \A i, j \in 1..n : <<i, j>> \in R <=> Links!Before(order, all[i], all[j])
    OBVIOUS
  <2>2. QED
    BY <2>1
<1>4. /\ order = "page" => \A x, y : Links!Before(order, x, y) <=> x.position < y.position
      /\ order = "content_first" =>
           \A x, y : Links!Before(order, x, y) <=>
                       IF x.boilerplate = y.boilerplate THEN x.position < y.position ELSE y.boilerplate
      /\ order = "repeats_first" =>
           \A x, y : Links!Before(order, x, y) <=>
                       IF x.boilerplate = y.boilerplate
                       THEN IF x.occurrences = y.occurrences THEN x.position < y.position
                            ELSE x.occurrences > y.occurrences
                       ELSE y.boilerplate
  BY Zenon DEF Links!Before
<1>5. StrictOrder(R, n)
  <2>1. CASE order = "page"
    <3>1. \A i, j \in 1..n : <<i, j>> \in R <=> i < j
      <4>1. \A i, j \in 1..n : all[i].position < all[j].position <=> i < j
        BY <1>1, <1>2
      <4>2. QED
        BY <1>3, <1>4, <2>1, <4>1, Zenon
    <3>2. QED
      BY <1>1, <3>1 DEF StrictOrder
  <2>2. CASE order = "content_first"
    <3>1. \A i, j \in 1..n : <<i, j>> \in R <=>
             IF all[i].boilerplate = all[j].boilerplate THEN i < j ELSE all[j].boilerplate
      <4>1. \A i, j \in 1..n : all[i].position < all[j].position <=> i < j
        BY <1>1, <1>2
      <4>2. QED
        BY <1>3, <1>4, <2>2, <4>1, Zenon
    <3>2. \A i \in 1..n : all[i].boilerplate \in BOOLEAN
      BY <1>2
    <3>3. QED
      BY <1>1, <3>1, <3>2 DEF StrictOrder
  <2>3. CASE order = "repeats_first"
    <3>1. \A i, j \in 1..n : <<i, j>> \in R <=>
             IF all[i].boilerplate = all[j].boilerplate
             THEN IF all[i].occurrences = all[j].occurrences THEN i < j
                  ELSE all[i].occurrences > all[j].occurrences
             ELSE all[j].boilerplate
      <4>1. \A i, j \in 1..n : all[i].position < all[j].position <=> i < j
        BY <1>1, <1>2
      <4>2. QED
        BY <1>3, <1>4, <2>3, <4>1, Zenon
    <3>2. \A i \in 1..n : <<i, i>> \notin R
      BY <1>1, <3>1
    <3>3. \A i, j \in 1..n : i # j => <<i, j>> \in R \/ <<j, i>> \in R
      BY <1>1, <1>2, <3>1
    <3>4. ASSUME NEW i \in 1..n, NEW j \in 1..n, NEW k \in 1..n, <<i, j>> \in R, <<j, k>> \in R
          PROVE  <<i, k>> \in R
      <4>1. PICK a \in Nat, b \in Nat, c \in Nat :
               a = all[i].occurrences /\ b = all[j].occurrences /\ c = all[k].occurrences
        BY <1>2
      <4>2. /\ all[i].boilerplate = all[j].boilerplate => IF a = b THEN i < j ELSE a > b
            /\ all[j].boilerplate = all[k].boilerplate => IF b = c THEN j < k ELSE b > c
            /\ all[i].boilerplate # all[j].boilerplate => all[j].boilerplate
            /\ all[j].boilerplate # all[k].boilerplate => all[k].boilerplate
        BY <3>1, <3>4, <4>1
      <4>3. <<i, k>> \in R <=> IF all[i].boilerplate = all[k].boilerplate
                                THEN IF a = c THEN i < k ELSE a > c ELSE all[k].boilerplate
        BY <3>1, <4>1
      <4>4. i \in Nat /\ j \in Nat /\ k \in Nat
        BY <1>1
      <4>5. {all[i].boilerplate, all[j].boilerplate, all[k].boilerplate} \subseteq BOOLEAN
        BY <1>2
      <4>6. QED
        BY <4>2, <4>3, <4>4, <4>5
    <3>5. QED
      BY <3>2, <3>3, <3>4 DEF StrictOrder
  <2>4. QED
    BY <2>1, <2>2, <2>3
<1>6. PICK r : /\ Places(r, R, n)
               /\ r = [i \in DOMAIN all |->
                         1 + Links!Cardinality({j \in DOMAIN all : Links!Before(order, all[j], all[i])})]
  <2>1. \A i \in 1..n : {j \in 1..n : <<j, i>> \in R} = {j \in 1..n : Links!Before(order, all[j], all[i])}
    BY <1>3
  <2>2. QED
    BY <1>1, <2>1, LinksCardinality DEF Places
<1>7. /\ \A i \in 1..n : r[i] \in 1..n
      /\ \A i, j \in 1..n : <<i, j>> \in R => r[i] < r[j]
      /\ \A k \in 1..n : \E i \in 1..n : r[i] = k
  <2>1. Places(r, R, n)
    BY <1>6
  <2>2. QED
    BY <1>1, <1>5, <2>1, PlacesOf
<1>8. PICK p : p = [k \in 1..n |-> CHOOSE i \in 1..n : r[i] = k]
  OBVIOUS
<1>9. \A k \in 1..n : p[k] \in 1..n /\ r[p[k]] = k
  BY <1>7, <1>8
<1>10. \A k \in 1..n : Links!Ranked(all, order)[k] = all[p[k]]
  BY <1>1, <1>6, <1>8 DEF Links!Ranked
<1>11. p \in [1..n -> 1..n]
  BY <1>8, <1>9
<1>12. ASSUME NEW i \in 1..n, NEW j \in 1..n, r[i] = r[j] PROVE i = j
  <2>1. r[i] \in Nat /\ r[j] \in Nat
    BY <1>7
  <2>2. <<i, j>> \notin R /\ <<j, i>> \notin R
    BY <1>7, <1>12, <2>1
  <2>3. QED
    BY <1>5, <2>2 DEF StrictOrder
<1>13. \A i \in 1..n : \E k \in 1..n : p[k] = i
  <2>1. ASSUME NEW i \in 1..n PROVE p[r[i]] = i /\ r[i] \in 1..n
    BY <1>7, <1>9, <1>12
  <2>2. QED
    BY <2>1
<1>14. ASSUME NEW k \in 1..n, NEW l \in 1..n, Links!Before(order, all[p[k]], all[p[l]]) PROVE k < l
  <2>1. <<p[k], p[l]>> \in R
    BY <1>3, <1>9, <1>14
  <2>2. r[p[k]] < r[p[l]]
    BY <1>7, <1>9, <2>1
  <2>3. QED
    BY <1>9, <2>2
<1>15. \A k, l \in 1..n : p[k] = p[l] => k = l
  BY <1>9
<1>16. RankedBy(p, n, all, order)
  BY <1>10, <1>11, <1>13, <1>14, <1>15 DEF RankedBy
<1>17. QED
  BY <1>1, <1>16

\* The options are a first part of the links returned, with no content left out for boilerplate.
LEMMA OptionsRight ==
    ASSUME LinksInv, NEW all \in l_links, NEW s \in l_shown
    PROVE  LET offered == {s.options[i].url : i \in DOMAIN s.options} IN
             /\ Links!Cardinality(offered) = Len(s.options)
             /\ Len(s.options) = Links!Min({MaxOptions, Len(all)})
             /\ (s.order # "page" /\ Links!Cardinality(Links!OnPage) <= MaxCandidates) =>
                  \A u \in offered :
                      Links!Content(u) \/ {v \in Links!OnPage : Links!Content(v)} \subseteq offered
<1>1. PICK n \in Nat : /\ n = Len(all) /\ DOMAIN all = 1..n /\ l_rest = <<>> /\ Len(l_raw) \in Nat /\ n <= Len(l_raw)
                       /\ (Len(l_raw) <= MaxCandidates => n = Len(l_raw))
                       /\ \A i \in 1..n : all[i].url = l_raw[i].url
  BY ReturnedIs
<1>2. Links!AsOnPage(all) /\ Links!OnPage = {l_raw[k].url : k \in 1..Len(l_raw)}
  BY <1>1, ReturnedRight, WalkedAll
<1>3. \A j, k \in 1..n : all[j].url = all[k].url => j = k
  <2>1. EntriesOf(l_page, Len(l_page), l_raw) /\ l_raw \in Seq(Entry) /\ Len(l_page) \in Nat
    BY <1>1, WalkedAll DEF LinksInv, WalkedTo
  <2>2. \A j, k \in DOMAIN l_raw : l_raw[j].url = l_raw[k].url => j = k
    BY <2>1, EntriesApart
  <2>3. \A j \in 1..n : j \in DOMAIN l_raw
    BY <1>1, <2>1
  <2>4. QED
    BY <1>1, <2>2, <2>3
<1>4. PICK order \in {"page", "content_first", "repeats_first"} :
         order = s.order /\ s.options = Links!ChooseLinks(all, MaxOptions, order)
  BY DEF LinksInv
<1>5. PICK p : RankedBy(p, n, all, order)
  BY <1>1, RankedIs
<1>6. /\ p \in [1..n -> 1..n] /\ \A i \in 1..n : \E k \in 1..n : p[k] = i
      /\ \A k \in 1..n : Links!Ranked(all, order)[k] = all[p[k]]
      /\ \A k, l \in 1..n : Links!Before(order, all[p[k]], all[p[l]]) => k < l
      /\ \A k, l \in 1..n : p[k] = p[l] => k = l
  BY <1>5 DEF RankedBy
<1>7. PICK m \in Nat : m = Links!Min({MaxOptions, n}) /\ m <= n
  BY LinksMinOfTwo, LinksAssumption
<1>8. DOMAIN s.options = 1..m /\ Len(s.options) = m /\ \A k \in 1..m : s.options[k] = all[p[k]]
  <2>1. s.options = SubSeq(Links!Ranked(all, order), 1, m)
    BY <1>1, <1>4, <1>7 DEF Links!ChooseLinks
  <2>2. \A k \in 1..m : k \in 1..n
    BY <1>7
  <2>3. s.options = [k \in 1..m |-> Links!Ranked(all, order)[k]]
    BY <2>1
  <2>4. QED
    BY <1>6, <2>2, <2>3
<1>9. PICK f : f = [k \in 1..m |-> s.options[k].url]
  OBVIOUS
<1>10. \A k \in 1..m : k \in 1..n /\ p[k] \in 1..n /\ f[k] = all[p[k]].url
  <2>1. \A k \in 1..m : k \in 1..n
    BY <1>7
  <2>2. QED
    BY <1>6, <1>8, <1>9, <2>1
<1>11. PICK offered : offered = {s.options[i].url : i \in DOMAIN s.options} /\ offered = ValuesOf(f, m)
  BY <1>8, <1>9 DEF ValuesOf
<1>12. Links!Cardinality(offered) = m
  <2>1. NoneTwice(f, m)
    <3>1. ASSUME NEW j \in 1..m, NEW k \in 1..m, f[j] = f[k] PROVE j = k
      <4>1. all[p[j]].url = all[p[k]].url /\ p[j] \in 1..n /\ p[k] \in 1..n
        BY <1>10, <3>1
      <4>2. p[j] = p[k]
        BY <1>3, <4>1
      <4>3. QED
        BY <1>6, <1>10, <4>2
    <3>2. QED
      BY <3>1 DEF NoneTwice
  <2>2. QED
    BY <1>11, <2>1, CountOnce, LinksCardinality
<1>13. ASSUME order # "page", Links!Cardinality(Links!OnPage) <= MaxCandidates,
              NEW u \in offered, ~Links!Content(u), NEW v \in Links!OnPage, Links!Content(v)
       PROVE  v \in offered
  <2>1. n = Len(l_raw)
    <3>1. n = Links!Min({Links!Cardinality(Links!OnPage), MaxCandidates})
      BY <1>1, <1>2 DEF Links!AsOnPage
    <3>2. PICK c \in Nat : c = Links!Cardinality(Links!OnPage) /\ c = Len(l_raw)
      BY <1>1, OnPageCount
    <3>3. QED
      BY <1>1, <1>13, <3>2
  <2>2. PICK k \in 1..m : u = all[p[k]].url
    BY <1>10, <1>11 DEF ValuesOf
  <2>3. PICK j \in 1..n : v = all[j].url
    BY <1>1, <1>2, <2>1
  <2>4. PICK l \in 1..n : p[l] = j
    BY <1>6
  <2>5. all[p[k]].boilerplate /\ ~all[j].boilerplate
    <3>1. \A i \in 1..n : all[i].boilerplate = ~Links!Content(all[i].url)
      BY <1>1, <1>2 DEF Links!AsOnPage
    <3>2. QED
      BY <1>10, <1>13, <2>2, <2>3, <3>1
  <2>6. Links!Before(order, all[j], all[p[k]])
    <3>1. all[j].boilerplate # all[p[k]].boilerplate /\ all[p[k]].boilerplate
      BY <2>5
    <3>2. CASE order = "content_first"
      BY <3>1, <3>2, Zenon DEF Links!Before
    <3>3. CASE order = "repeats_first"
      BY <3>1, <3>3, Zenon DEF Links!Before
    <3>4. QED
      BY <1>13, <3>2, <3>3
  <2>7. l < k
    BY <1>6, <1>10, <2>4, <2>6
  <2>8. l \in 1..m
    BY <1>7, <2>7
  <2>9. f[l] = v
    BY <1>10, <2>3, <2>4, <2>8
  <2>10. QED
    BY <1>11, <2>8, <2>9 DEF ValuesOf
<1>14. (s.order # "page" /\ Links!Cardinality(Links!OnPage) <= MaxCandidates) =>
          \A u \in offered : Links!Content(u) \/ {v \in Links!OnPage : Links!Content(v)} \subseteq offered
  BY <1>4, <1>13
<1>15. Links!Cardinality(offered) = Len(s.options) /\ Len(s.options) = Links!Min({MaxOptions, Len(all)})
  BY <1>1, <1>7, <1>8, <1>12
<1>16. QED
  BY <1>11, <1>14, <1>15

LinkPart == part = "links" => LinksInv

\* A predictor is asked about each link of the page once, and about boilerplate only when no link
\* of the content is left out, for any page and any limits.
THEOREM ContentOffered == ProgramsSpec => []OffersContentFirst
<1>1. ProgramsInit => LinkPart
  BY LinksBegins DEF ProgramsInit, LinkPart
<1>2. LinkPart /\ [ProgramsNext]_AllVars => LinkPart'
  BY LinksKeeps, LinksStutters, LinksApart DEF LinkPart
<1>3. LinkPart => OffersContentFirst
  <2>1. LinksInv => Links!OffersContentFirst
    BY ReturnedRight, OptionsRight DEF Links!OffersContentFirst
  <2>2. QED
    BY <2>1 DEF LinkPart, OffersContentFirst
<1>4. QED
  BY <1>1, <1>2, <1>3, PTL DEF ProgramsSpec
=============================================================================
