----------------------- MODULE ServerPrefetchProofs -----------------------
(***************************************************************************)
(* Proofs about ServerPrefetch, for every site, predictor, policy and      *)
(* sequence of frames.  The lemmas on the task operators say what a        *)
(* stretch of code between two awaits preserves; the step lemma has one    *)
(* case per action.                                                        *)
(***************************************************************************)
EXTENDS ServerPrefetch, TLAPS

\* The budget of a plan is a number of bytes under the hard cap.
LEMMA LimitBudgetType ==
    ASSUME NEW o \in Outlooks
    PROVE  LimitBudget(o) \in 0..MaxBudget
<1>1. BaseBudget(o) \in Nat
  BY PolicyConfig DEF BaseBudget, Warned, Outlooks
<1>2. (BaseBudget(o) * MeteredPercent) \in Nat
  BY <1>1, PolicyConfig
<1>3. (BaseBudget(o) * MeteredPercent) \div 100 \in Nat
  BY <1>2
<1>4. QED
  BY <1>1, <1>3, PolicyConfig DEF LimitBudget, Least

\* A task that has ended is a task.
LEMMA IdleType == Idle \in Tasks
<1>1. Nothing \in AnyAnswer
  BY DEF AnyAnswer
<1>2. Nothing \in [{} -> AnyAnswer]
  BY DEF Nothing
<1>3. Nothing \in UNION {[S -> AnyAnswer] : S \in SUBSET Pages}
  BY <1>2
<1>4. QED
  BY <1>1, <1>3, PolicyConfig DEF Idle, Tasks, Waits

\* The domain of an answer is a set of pages.
LEMMA AnswerDomain ==
    ASSUME NEW f \in AnyAnswer
    PROVE  DOMAIN f \subseteq Pages
BY ServerAssumption DEF AnyAnswer, IsAnswer, Nothing

\* What code without an await makes of task t, when the pages in done are pushed.
Goes(t, u, done) ==
    \/ u = Idle
    \/ /\ u \in Tasks
       /\ u.pc \in {"push", "parents", "gather"}
       /\ u.page = t.page /\ u.limit = t.limit /\ u.spent = t.spent
       /\ u.pc = "parents" => u.target \in Pages
       /\ u.pc = "push" =>
            /\ u.target \in Pages
            /\ u.target \notin u.queue
            /\ ({u.target} \cup u.queue) \cap done = {}
            /\ u.depth = 2 => u.children \subseteq DOMAIN u.answers

\* Fetching takes its target from the targets it is given.
LEMMA FetchingGoes ==
    ASSUME NEW t \in Tasks, NEW Q \in SUBSET Pages, NEW done, Q \cap done = {},
           t.depth = 2 => t.children \subseteq DOMAIN t.answers,
           NEW u \in Fetching(t, Q)
    PROVE  Goes(t, u, done)
<1>1. PICK x \in Q : u = [t EXCEPT !.pc = "push", !.target = x, !.queue = Q \ {x}]
  BY DEF Fetching, MostLikely
<1>2. u \in Tasks
  BY <1>1 DEF Tasks, Waits
<1>3. QED
  BY <1>1, <1>2 DEF Goes, Tasks

\* Going on with the next parent pushes nothing and keeps the account.
LEMMA NextParentGoes ==
    ASSUME NEW t \in Tasks, NEW done, NEW u \in NextParent(t)
    PROVE  Goes(t, u, done)
<1>1. CASE t.parents = {}
  <2>1. u = [t EXCEPT !.pc = "gather", !.target = NoPage]
    BY <1>1 DEF NextParent
  <2>2. QED
    BY <2>1 DEF Goes, Tasks, Waits
<1>2. CASE t.parents # {}
  <2>1. PICK x \in t.parents :
           u = [t EXCEPT !.pc = "parents", !.target = x, !.parents = @ \ {x}]
    BY <1>2 DEF NextParent, MostLikely
  <2>2. QED
    BY <2>1 DEF Goes, Tasks, Waits
<1>3. QED
  BY <1>1, <1>2

\* So does going two clicks deep.
LEMMA ExpandGoes ==
    ASSUME NEW t \in Tasks, outlook \in Outlooks, NEW done, NEW u \in Expand(t)
    PROVE  Goes(t, u, done)
<1>1. CASE Depth2K(outlook) = 0
  BY <1>1 DEF Expand, Goes
<1>2. CASE Depth2K(outlook) # 0
  <2> DEFINE Deeper(likely) == [t EXCEPT !.depth = 2, !.k = Depth2K(outlook),
                                         !.children = likely \cap t.bodies,
                                         !.parents = likely \ t.bodies]
  <2>1. PICK likely \in Decisions(t.probs, outlook, {}) : u \in NextParent(Deeper(likely))
    BY <1>2 DEF Expand
  <2>2. likely \subseteq Pages
    <3>1. likely \subseteq DOMAIN t.probs
      BY <2>1 DEF Decisions, Top, Eligible
    <3>2. t.probs \in AnyAnswer
      BY DEF Tasks
    <3>3. QED
      BY <3>1, <3>2, AnswerDomain
  <2>3. Depth2K(outlook) \in Nat
    BY PolicyConfig DEF Depth2K
  <2>4. Deeper(likely) \in Tasks
    BY <2>2, <2>3 DEF Tasks
  <2>5. Goes(Deeper(likely), u, done)
    BY <2>1, <2>4, NextParentGoes
  <2>6. /\ Deeper(likely).page = t.page
        /\ Deeper(likely).limit = t.limit
        /\ Deeper(likely).spent = t.spent
    BY DEF Tasks
  <2>7. QED
    BY <2>5, <2>6 DEF Goes
<1>3. QED
  BY <1>1, <1>2

\* What is pushed for the next child is new to the client.
LEMMA NextChildGoes ==
    ASSUME NEW t \in Tasks, t.children \subseteq DOMAIN t.answers,
           NEW known, NEW done, done \subseteq known,
           NEW u \in NextChild(t, known)
    PROVE  Goes(t, u, done)
<1>1. CASE u = Idle
  BY <1>1 DEF Goes
<1>2. CASE u # Idle
  <2> DEFINE From(c) == [t EXCEPT !.ranks = t.answers[c], !.children = @ \ {c}]
  <2>a. PICK c \in t.children :
           u \in UNION {Fetching(From(c), picks) :
                        picks \in Top(t.k, Fresh(t, c, known), t.answers[c])}
    <3> DEFINE live == {c \in t.children : Fresh(t, c, known) # {}}
    <3>1. u \in UNION {UNION {Fetching(From(c), picks) :
                              picks \in Top(t.k, Fresh(t, c, known), t.answers[c])} :
                       c \in MostLikely(live, t.probs)}
      BY <1>2 DEF NextChild
    <3>2. MostLikely(live, t.probs) \subseteq t.children
      BY DEF MostLikely
    <3> HIDE DEF live, From
    <3>3. QED
      BY <3>1, <3>2
  <2>1. PICK picks \in Top(t.k, Fresh(t, c, known), t.answers[c]) : u \in Fetching(From(c), picks)
    BY <2>a
  <2>2. t.answers[c] \in AnyAnswer
    <3>1. PICK S \in SUBSET Pages : t.answers \in [S -> AnyAnswer]
      BY DEF Tasks
    <3>2. c \in S
      BY <3>1
    <3>3. QED
      BY <3>1, <3>2
  <2>3. picks \subseteq DOMAIN t.answers[c] \ known
    BY <2>1 DEF Top, Fresh
  <2>4. picks \in SUBSET Pages /\ picks \cap done = {}
    BY <2>2, <2>3, AnswerDomain
  <2>5. From(c) \in Tasks
    BY <2>2 DEF Tasks
  <2>6. From(c).children \subseteq DOMAIN From(c).answers
    BY DEF Tasks
  <2>7. Goes(From(c), u, done)
    BY <2>1, <2>4, <2>5, <2>6, FetchingGoes
  <2>8. From(c).page = t.page /\ From(c).limit = t.limit /\ From(c).spent = t.spent
    BY DEF Tasks
  <2>9. QED
    BY <2>7, <2>8 DEF Goes
<1>3. QED
  BY <1>1, <1>2

\* What holds of a task whose push is over, and of one at the head of the loop.
Ready(t, known, done) ==
    /\ t \in Tasks
    /\ done \subseteq known
    /\ t.queue \cap done = {}
    /\ t.depth = 2 => t.children \subseteq DOMAIN t.answers

\* The end of the loop of _push keeps the account.
LEMMA EndPushGoes ==
    ASSUME NEW t, NEW known, NEW done, Ready(t, known, done), outlook \in Outlooks,
           NEW u \in EndPush(t, known)
    PROVE  Goes(t, u, done)
<1>1. t \in Tasks /\ t.depth \in {1, 2}
  BY DEF Ready, Tasks
<1>2. CASE t.depth = 1
  BY <1>1, <1>2, ExpandGoes DEF EndPush
<1>3. CASE t.depth = 2
  BY <1>1, <1>3, NextChildGoes DEF EndPush, Ready
<1>4. QED
  BY <1>1, <1>2, <1>3

\* So does its head, when what is queued has not been pushed.
LEMMA PushLoopGoes ==
    ASSUME NEW t, NEW known, NEW done, Ready(t, known, done), outlook \in Outlooks,
           NEW u \in PushLoop(t, known)
    PROVE  Goes(t, u, done)
<1>1. t \in Tasks /\ t.queue \in SUBSET Pages
  BY DEF Ready, Tasks
<1>2. CASE u \in EndPush(t, known)
  BY <1>2, EndPushGoes
<1>3. CASE u \in Fetching(t, t.queue)
  BY <1>1, <1>3, FetchingGoes DEF Ready
<1>4. QED
  BY <1>2, <1>3 DEF PushLoop

-----------------------------------------------------------------------------
\* The task goes on, from t on, with at most one more page pushed.
LEMMA TaskMoves ==
    ASSUME IInv, task.pc # "idle",
           UNCHANGED <<current, outlook, offlineFrom, otherUnacked, now, events>>,
           sent' \in SUBSET Pages, pushed' \subseteq sent',
           pushUnacked' \in Nat, ahead' \in Nat, StrandsLittle',
           NEW t, Goes(t, task', pushed'),
           t.page = task.page, t.limit \in 0..MaxBudget,
           t.spent \in Nat, t.spent <= t.limit, burst' = t.spent,
           outlook.imminent /\ ~Offline => t.limit = LimitBudget(outlook)
    PROVE  IInv'
<1>1. MaxBudget \in Nat
  BY PolicyConfig
<1>2. Idle.pc = "idle" /\ Idle \in Tasks
  BY IdleType DEF Idle
<1>3. task' \in Tasks
  BY <1>2 DEF Goes
<1>4. TypeOK'
  BY <1>3 DEF IInv, TypeOK
<1>5. PlanWithinBudget'
  BY <1>1 DEF PlanWithinBudget
<1>6. AccountInv' /\ OnceInv' /\ PlanInv'
  BY <1>2 DEF Goes, AccountInv, OnceInv, PlanInv, IInv, Planned
<1>7. WarnedPlan'
  <2>1. (Offline' <=> Offline) /\ LimitBudget(outlook)' = LimitBudget(outlook)
    BY DEF Offline, OfflineAt, LimitBudget, BaseBudget, Warned
  <2>2. outlook.imminent /\ ~Offline => task.page = current
    BY DEF IInv, WarnedPlan
  <2>3. QED
    BY <1>2, <2>1, <2>2 DEF WarnedPlan, Goes
<1>8. QED
  BY <1>4, <1>5, <1>6, <1>7 DEF IInv

\* The reader is on page p, and the dropout is due as offlineFrom' says.
LEMMA PageViewedKeeps ==
    ASSUME IInv, NEW p \in Pages, NEW needHtml \in BOOLEAN,
           PageViewed(p, needHtml, offlineFrom'),
           sent' \in SUBSET Pages, sent \subseteq sent',
           outlook' \in Outlooks, offlineFrom' \in Nat \cup {NoDropout},
           otherUnacked' \in Nat, events' \in Nat,
           UNCHANGED <<pushUnacked, now, pushed, ahead>>
    PROVE  IInv'
<1>1. current' = p /\ p # NoPage
  BY ServerAssumption DEF PageViewed
<1>2. StrandsLittle'
  BY DEF IInv, StrandsLittle
<1>3. CASE OfflineAt(offlineFrom')
  <2>1. UNCHANGED <<task, burst>> /\ Offline'
    BY <1>3 DEF PageViewed, Offline, OfflineAt
  <2>2. TypeOK' /\ AccountInv' /\ OnceInv' /\ PlanInv' /\ PlanWithinBudget'
    BY <1>1, <2>1 DEF IInv, TypeOK, AccountInv, OnceInv, PlanInv, PlanWithinBudget
  <2>3. WarnedPlan'
    BY <2>1 DEF WarnedPlan
  <2>4. QED
    BY <1>2, <2>2, <2>3 DEF IInv
<1>4. CASE ~OfflineAt(offlineFrom')
  <2>1. task' = Started(p, needHtml) /\ burst' = 0
    BY <1>4 DEF PageViewed
  <2>2. /\ task' \in Tasks /\ task'.pc \in {"fetch", "predict"} /\ task'.page = p
        /\ task'.spent = 0 /\ task'.depth = 1
    <3>1. task' = [Idle EXCEPT !.pc = IF needHtml THEN "fetch" ELSE "predict", !.page = p]
      BY <2>1 DEF Started
    <3>2. Idle.spent = 0 /\ Idle.depth = 1
      BY DEF Idle
    <3>3. QED
      <4> DEFINE pc == IF needHtml THEN "fetch" ELSE "predict"
      <4>1. pc \in {"fetch", "predict"} /\ task' = [Idle EXCEPT !.pc = pc, !.page = p]
        BY <3>1
      <4> HIDE DEF pc
      <4>2. task' \in Tasks /\ task'.pc = pc /\ task'.page = p
        BY <4>1, IdleType DEF Tasks, Waits
      <4>3. task'.spent = Idle.spent /\ task'.depth = Idle.depth
        BY <4>1, IdleType DEF Tasks
      <4>4. QED
        BY <3>2, <4>1, <4>2, <4>3
  <2>3. TypeOK' /\ AccountInv' /\ OnceInv' /\ PlanInv' /\ PlanWithinBudget'
    BY <1>1, <2>1, <2>2, PolicyConfig
       DEF IInv, TypeOK, AccountInv, OnceInv, PlanInv, PlanWithinBudget, Planned
  <2>4. WarnedPlan'
    BY <1>1, <2>2 DEF WarnedPlan, Planned
  <2>5. QED
    BY <1>2, <2>3, <2>4 DEF IInv
<1>5. QED
  BY <1>3, <1>4

\* What the task may rely on when it resumes from an await inside a plan.
LEMMA PlannedFacts ==
    ASSUME IInv, task.pc \in Planned
    PROVE  /\ task \in Tasks /\ outlook \in Outlooks
           /\ task.limit \in 0..MaxBudget
           /\ task.spent \in Nat /\ task.spent <= task.limit /\ burst = task.spent
           /\ outlook.imminent /\ ~Offline => task.limit = LimitBudget(outlook)
           /\ task.pc # "idle"
BY DEF IInv, TypeOK, Tasks, AccountInv, WarnedPlan, Planned

\* A step of the task that pushes nothing.
LEMMA QuietStep ==
    ASSUME IInv, TaskStep, task.pc \in Planned,
           NEW t, Goes(t, task', pushed),
           t.page = task.page, t.limit = task.limit, t.spent = task.spent
    PROVE  IInv'
<1>1. UNCHANGED <<current, outlook, offlineFrom, otherUnacked, now, events>>
  BY DEF TaskStep, client, history
<1>2. UNCHANGED <<sent, pushed, pushUnacked, burst, ahead>>
  BY DEF TaskStep, client, history
<1>3. /\ sent' \in SUBSET Pages /\ pushed' \subseteq sent'
      /\ pushUnacked' \in Nat /\ ahead' \in Nat /\ StrandsLittle'
  BY <1>2 DEF IInv, TypeOK, OnceInv, StrandsLittle
<1>4. Goes(t, task', pushed')
  BY <1>2
<1>5. QED
  BY <1>1, <1>2, <1>3, <1>4, PlannedFacts, TaskMoves

\* A task that awaits the network, or room for a frame, may go on with its loop.
LEMMA ReadyToGo ==
    ASSUME IInv, task.pc \in {"push", "wait"}
    PROVE  Ready(task, sent, pushed)
BY DEF IInv, TypeOK, OnceInv, PlanInv, Ready

\* Pushing the target keeps the invariant: the frame fits the budget and the
\* backlog, and its page was not pushed before.
LEMMA PushKeeps ==
    ASSUME IInv, task.pc \in {"push", "wait"}, NEW wire \in FrameSizes,
           task.spent + wire <= task.limit, ~Blocked(wire), Push(wire)
    PROVE  IInv'
<1> DEFINE t == [task EXCEPT !.spent = @ + wire, !.frame = 0,
                     !.bodies = IF task.depth = 1 THEN @ \cup {task.target} ELSE @]
<1>1. wire \in Nat /\ wire > 0
  BY ServerAssumption
<1>2. task.pc \in Planned
  BY DEF Planned
<1>3. task.target \in Pages /\ task.queue \cap ({task.target} \cup pushed) = {}
  BY DEF IInv, OnceInv
<1>4. UNCHANGED <<current, outlook, offlineFrom, otherUnacked, now, events>>
  BY DEF Push
<1>5. /\ sent' = sent \cup {task.target} /\ pushed' = pushed \cup {task.target}
      /\ pushUnacked' = pushUnacked + wire /\ burst' = burst + wire /\ ahead' = pushUnacked
      /\ task' \in PushLoop(t, sent')
  BY DEF Push
<1>6. sent' \in SUBSET Pages /\ pushed' \subseteq sent' /\ pushUnacked' \in Nat /\ ahead' \in Nat
  BY <1>1, <1>3, <1>5 DEF IInv, TypeOK, OnceInv
<1>7. StrandsLittle'
  <2>1. pushUnacked \in Nat /\ otherUnacked \in Nat
    BY DEF IInv, TypeOK
  <2>2. ahead' = 0 \/ pushUnacked' <= BacklogLimit
    BY <1>1, <1>5, <2>1, ServerAssumption DEF Blocked, Backlog
  <2>3. pushUnacked' \in Nat /\ BacklogLimit \in Nat
    BY <1>6, ServerAssumption
  <2>4. QED
    BY <2>2, <2>3 DEF StrandsLittle
<1>8. t \in Tasks /\ t.spent = task.spent + wire
  <2> DEFINE bodies == IF task.depth = 1 THEN task.bodies \cup {task.target} ELSE task.bodies
  <2>1. task \in Tasks /\ task.spent \in Nat
    BY <1>2, PlannedFacts
  <2>2. bodies \in SUBSET Pages
    BY <1>3, <2>1 DEF Tasks
  <2>3. task.spent + wire \in Nat
    BY <1>1, <2>1
  <2>4. t = [task EXCEPT !.spent = task.spent + wire, !.frame = 0, !.bodies = bodies]
    BY <2>1 DEF Tasks
  <2> HIDE DEF t, bodies
  <2>5. QED
    BY <2>1, <2>2, <2>3, <2>4 DEF Tasks
<1>9. t.page = task.page /\ t.limit = task.limit
  BY <1>2, PlannedFacts DEF Tasks
<1>10. Ready(t, sent', pushed')
  <2>1. t.queue = task.queue /\ t.depth = task.depth
        /\ t.children = task.children /\ t.answers = task.answers
    BY <1>2, PlannedFacts DEF Tasks
  <2>2. task.depth = 2 => task.children \subseteq DOMAIN task.answers
    BY DEF IInv, PlanInv
  <2>3. QED
    BY <1>3, <1>5, <1>6, <1>8, <2>1, <2>2 DEF Ready
<1>11. Goes(t, task', pushed')
  <2> HIDE DEF t
  <2>1. QED
    BY <1>2, <1>5, <1>10, PlannedFacts, PushLoopGoes
<1>12. t.limit \in 0..MaxBudget /\ t.spent \in Nat /\ t.spent <= t.limit /\ burst' = t.spent
  BY <1>1, <1>2, <1>5, <1>8, <1>9, PlannedFacts
<1>13. outlook.imminent /\ ~Offline => t.limit = LimitBudget(outlook)
  BY <1>2, <1>9, PlannedFacts
<1>14. task.pc # "idle"
  OBVIOUS
<1> HIDE DEF t
<1>15. QED
  BY <1>4, <1>6, <1>7, <1>9, <1>11, <1>12, <1>13, <1>14, TaskMoves

\* A task without a plan yet gets its budget, or ends.
LEMMA FirstPlan ==
    ASSUME IInv, TaskStep, task.pc \in {"fetch", "predict"},
           NEW t, t.page = task.page, t.limit = LimitBudget(outlook), t.spent = task.spent,
           Goes(t, task', pushed)
    PROVE  IInv'
<1>1. UNCHANGED <<current, outlook, offlineFrom, otherUnacked, now, events>>
  BY DEF TaskStep, client, history
<1>2. UNCHANGED <<sent, pushed, pushUnacked, burst, ahead>>
  BY DEF TaskStep, client, history
<1>3. /\ sent' \in SUBSET Pages /\ pushed' \subseteq sent'
      /\ pushUnacked' \in Nat /\ ahead' \in Nat /\ StrandsLittle'
  BY <1>2 DEF IInv, TypeOK, OnceInv, StrandsLittle
<1>4. Goes(t, task', pushed') /\ burst' = t.spent /\ t.spent = 0
  BY <1>2 DEF IInv, AccountInv
<1>5. t.limit \in 0..MaxBudget
  BY LimitBudgetType DEF IInv, TypeOK
<1>6. t.spent \in Nat /\ t.spent <= t.limit
  BY <1>4, <1>5, PolicyConfig
<1>7. QED
  BY <1>1, <1>3, <1>4, <1>5, <1>6, TaskMoves

\* Every step of the prefetch task keeps the inductive invariant ...
LEMMA PlanStepKeeps ==
    ASSUME IInv, PlanStep
    PROVE  IInv'
<1> DEFINE Doomed == [task EXCEPT !.limit = LimitBudget(outlook)]
<1>a. task \in Tasks
  BY DEF IInv, TypeOK
<1>b. /\ Doomed.page = task.page /\ Doomed.spent = task.spent
      /\ Doomed.limit = LimitBudget(outlook)
  BY <1>a DEF Tasks
<1>1. CASE PageFetched
  <2>1. CASE task' = Idle
    BY <1>1, <1>b, <2>1, FirstPlan DEF PageFetched, Goes
  <2>2. CASE task' = [task EXCEPT !.pc = "predict"]
    <3>1. UNCHANGED <<client, pushUnacked, otherUnacked, now, events, history>>
      BY <1>1 DEF PageFetched, TaskStep
    <3>2. /\ task' \in Tasks /\ task'.pc = "predict" /\ task'.page = task.page
          /\ task'.spent = task.spent /\ task'.depth = task.depth /\ task.pc = "fetch"
      BY <1>1, <1>a, <2>2 DEF PageFetched, Tasks, Waits
    <3>3. TypeOK' /\ AccountInv' /\ OnceInv' /\ PlanInv' /\ PlanWithinBudget' /\ StrandsLittle'
      BY <3>1, <3>2 DEF IInv, TypeOK, AccountInv, OnceInv, PlanInv, PlanWithinBudget,
         StrandsLittle, Planned, client, history
    <3>4. WarnedPlan'
      BY <3>1, <3>2 DEF IInv, WarnedPlan, Planned, Offline, OfflineAt, client, history
    <3>5. QED
      BY <3>3, <3>4 DEF IInv
  <2>3. QED
    BY <1>1, <2>1, <2>2 DEF PageFetched
<1>2. CASE Predicted
  <2> DEFINE T(probs, chosen) == [task EXCEPT !.probs = probs, !.ranks = probs,
                                       !.limit = LimitBudget(outlook), !.queue = chosen]
  <2>1. task.pc = "predict" /\ TaskStep
    BY <1>2 DEF Predicted
  <2>2. PICK probs \in Answers[task.page] :
           \E chosen \in Decisions(probs, outlook, sent) : task' \in PushLoop(T(probs, chosen), sent)
    BY <1>2 DEF Predicted
  <2>3. PICK chosen \in Decisions(probs, outlook, sent) : task' \in PushLoop(T(probs, chosen), sent)
    BY <2>2
  <2>4. task.page \in Pages
    BY <2>1 DEF IInv, PlanInv
  <2>5. probs \in AnyAnswer
    BY <2>2, <2>4 DEF AnyAnswer
  <2>6. chosen \subseteq DOMAIN probs \ sent
    BY <2>3 DEF Decisions, Top, Eligible
  <2>7. chosen \in SUBSET Pages /\ chosen \cap pushed = {}
    BY <2>5, <2>6, AnswerDomain DEF IInv, OnceInv
  <2>8. LimitBudget(outlook) \in 0..MaxBudget
    BY LimitBudgetType DEF IInv, TypeOK
  <2>9. T(probs, chosen) \in Tasks
    BY <1>a, <2>5, <2>7, <2>8 DEF Tasks
  <2>10. /\ T(probs, chosen).page = task.page /\ T(probs, chosen).spent = task.spent
         /\ T(probs, chosen).limit = LimitBudget(outlook)
         /\ T(probs, chosen).queue = chosen /\ T(probs, chosen).depth = task.depth
    BY <1>a DEF Tasks
  <2>11. task.depth = 1
    BY <2>1 DEF IInv, PlanInv
  <2>12. Ready(T(probs, chosen), sent, pushed)
    BY <2>7, <2>9, <2>10, <2>11 DEF Ready, IInv, OnceInv
  <2>13. outlook \in Outlooks
    BY DEF IInv, TypeOK
  <2> HIDE DEF T
  <2>14. Goes(T(probs, chosen), task', pushed)
    BY <2>3, <2>12, <2>13, PushLoopGoes
  <2>15. QED
    BY <2>1, <2>10, <2>14, FirstPlan
<1>3. CASE PredictionFailed
  BY <1>3, <1>b, FirstPlan DEF PredictionFailed, Goes
<1>4. CASE TargetSkipped
  <2>1. TaskStep /\ task.pc = "push" /\ task.pc \in Planned /\ task' \in PushLoop(task, sent)
    BY <1>4 DEF TargetSkipped, Planned
  <2>2. Goes(task, task', pushed)
    BY <2>1, ReadyToGo, PlannedFacts, PushLoopGoes
  <2>3. QED
    BY <2>1, <2>2, QuietStep
<1>5. CASE TargetFetched
  <2>1. PICK wire \in FrameSizes :
          /\ task.spent + wire <= task.limit
          /\ \/ ~Blocked(wire) /\ ~Offline /\ Push(wire)
             \/ Offline /\ task' \in EndPush(task, sent) /\ TaskStep
             \/ /\ Blocked(wire) /\ ~Offline
                /\ task' = [task EXCEPT !.pc = "wait", !.frame = wire]
                /\ TaskStep
    BY <1>5 DEF TargetFetched
  <2>2. task.pc = "push" /\ task.pc \in Planned
    BY <1>5 DEF TargetFetched, Planned
  <2>3. CASE ~Blocked(wire) /\ Push(wire)
    BY <2>1, <2>2, <2>3, PushKeeps
  <2>4. CASE task' \in EndPush(task, sent) /\ TaskStep
    <3>1. Goes(task, task', pushed)
      BY <2>2, <2>4, ReadyToGo, PlannedFacts, EndPushGoes
    <3>2. QED
      BY <2>2, <2>4, <3>1, QuietStep
  <2>5. CASE task' = [task EXCEPT !.pc = "wait", !.frame = wire] /\ TaskStep
    <3>1. UNCHANGED <<client, pushUnacked, otherUnacked, now, events, history>>
      BY <2>5 DEF TaskStep
    <3>2. wire \in Nat
      BY ServerAssumption
    <3>3. /\ task' \in Tasks /\ task'.pc = "wait" /\ task'.frame = wire
          /\ task'.page = task.page /\ task'.spent = task.spent /\ task'.limit = task.limit
          /\ task'.target = task.target /\ task'.queue = task.queue
          /\ task'.depth = task.depth /\ task'.children = task.children
          /\ task'.answers = task.answers
      BY <1>a, <2>5, <3>2 DEF Tasks, Waits
    <3>4. TypeOK' /\ OnceInv' /\ PlanInv' /\ PlanWithinBudget' /\ StrandsLittle'
      BY <2>2, <3>1, <3>3 DEF IInv, TypeOK, OnceInv, PlanInv, PlanWithinBudget,
         StrandsLittle, client, history
    <3>5. AccountInv'
      BY <2>1, <2>2, <3>1, <3>3 DEF IInv, AccountInv, Planned, client, history
    <3>6. LimitBudget(outlook)' = LimitBudget(outlook) /\ (Offline' <=> Offline)
      BY <3>1 DEF client, Offline, OfflineAt, LimitBudget, BaseBudget, Warned
    <3>7. WarnedPlan'
      BY <2>2, <3>1, <3>3, <3>6 DEF IInv, WarnedPlan, Planned, client
    <3>8. QED
      BY <3>4, <3>5, <3>7 DEF IInv
  <2>6. QED
    BY <2>1, <2>3, <2>4, <2>5
<1>6. CASE BacklogPolled
  <2>1. /\ task.pc = "wait" /\ task.pc \in Planned
        /\ \/ ~Blocked(task.frame) /\ ~Offline /\ Push(task.frame)
           \/ task' \in EndPush([task EXCEPT !.frame = 0], sent) /\ TaskStep
    BY <1>6 DEF BacklogPolled, Planned
  <2>2. CASE ~Blocked(task.frame) /\ Push(task.frame)
    <3>1. task.frame \in FrameSizes /\ task.spent + task.frame <= task.limit
      BY <2>1 DEF IInv, PlanInv, AccountInv
    <3>2. QED
      BY <2>1, <2>2, <3>1, PushKeeps
  <2>3. CASE task' \in EndPush([task EXCEPT !.frame = 0], sent) /\ TaskStep
    <3> DEFINE t == [task EXCEPT !.frame = 0]
    <3>1. /\ t \in Tasks /\ t.page = task.page /\ t.limit = task.limit /\ t.spent = task.spent
          /\ t.queue = task.queue /\ t.depth = task.depth
          /\ t.children = task.children /\ t.answers = task.answers
      BY <1>a DEF Tasks
    <3>2. Ready(t, sent, pushed)
      BY <2>1, <3>1, ReadyToGo DEF Ready
    <3> HIDE DEF t
    <3>3. Goes(t, task', pushed)
      BY <2>1, <2>3, <3>2, PlannedFacts, EndPushGoes DEF t
    <3>4. QED
      BY <2>1, <2>3, <3>1, <3>3, QuietStep
  <2>4. QED
    BY <2>1, <2>2, <2>3
<1>7. CASE ParentFetched
  <2>1. PICK found \in {{}, {task.target}} :
           task' \in NextParent([task EXCEPT !.children = @ \cup found])
    BY <1>7 DEF ParentFetched
  <2>2. TaskStep /\ task.pc = "parents" /\ task.pc \in Planned
    BY <1>7 DEF ParentFetched, Planned
  <2> DEFINE t == [task EXCEPT !.children = @ \cup found]
  <2>3. task.target \in Pages
    BY <2>2 DEF IInv, PlanInv
  <2>4. /\ t \in Tasks /\ t.page = task.page /\ t.limit = task.limit /\ t.spent = task.spent
    BY <1>a, <2>3 DEF Tasks
  <2> HIDE DEF t
  <2>5. Goes(t, task', pushed)
    BY <2>1, <2>4, NextParentGoes DEF t
  <2>6. QED
    BY <2>2, <2>4, <2>5, QuietStep
<1>8. CASE ChildrenPredicted
  <2>1. PICK answers \in [task.children ->
                             (UNION {Answers[c] : c \in task.children}) \cup {Nothing}] :
           task' \in NextChild([task EXCEPT !.answers = answers], sent)
    BY <1>8 DEF ChildrenPredicted
  <2>2. TaskStep /\ task.pc = "gather" /\ task.pc \in Planned
    BY <1>8 DEF ChildrenPredicted, Planned
  <2> DEFINE t == [task EXCEPT !.answers = answers]
  <2>3. task.children \in SUBSET Pages
    BY <1>a DEF Tasks
  <2>4. answers \in [task.children -> AnyAnswer]
    BY <2>3 DEF AnyAnswer
  <2>5. answers \in UNION {[S -> AnyAnswer] : S \in SUBSET Pages}
    BY <2>3, <2>4
  <2>6. /\ t \in Tasks /\ t.page = task.page /\ t.limit = task.limit /\ t.spent = task.spent
        /\ t.children \subseteq DOMAIN t.answers
    BY <1>a, <2>4, <2>5 DEF Tasks
  <2>7. pushed \subseteq sent
    BY DEF IInv, OnceInv
  <2> HIDE DEF t
  <2>8. Goes(t, task', pushed)
    BY <2>1, <2>6, <2>7, NextChildGoes DEF t
  <2>9. QED
    BY <2>2, <2>6, <2>8, QuietStep
<1>9. QED
  BY <1>1, <1>2, <1>3, <1>4, <1>5, <1>6, <1>7, <1>8 DEF PlanStep

\* ... every frame of the client keeps it ...
LEMMA FrameStepKeeps ==
    ASSUME IInv, FrameStep
    PROVE  IInv'
<1>1. events' \in Nat
  <2>1. Received
    BY DEF FrameStep, PageRequested, OtherRequested, OtherSent, PageOpened, Hinted
  <2>2. QED
    BY <2>1 DEF Received, IInv, TypeOK
<1>2. Replied => otherUnacked' \in Nat
  BY ServerAssumption DEF Replied, IInv, TypeOK
<1>3. CASE PageRequested
  <2>1. PICK p \in Pages, notModified \in BOOLEAN :
          sent' = sent \cup {p} /\ PageViewed(p, notModified, offlineFrom)
    BY <1>3 DEF PageRequested
  <2>2. offlineFrom' = offlineFrom /\ outlook' = outlook /\ otherUnacked' \in Nat
        /\ UNCHANGED <<pushUnacked, now, pushed, ahead>>
    BY <1>2, <1>3 DEF PageRequested
  <2>3. sent' \in SUBSET Pages /\ sent \subseteq sent'
        /\ outlook' \in Outlooks /\ offlineFrom' \in Nat \cup {NoDropout}
    BY <2>1, <2>2 DEF IInv, TypeOK
  <2>4. QED
    BY <1>1, <2>1, <2>2, <2>3, PageViewedKeeps
<1>4. CASE PageOpened
  <2>1. PICK p \in Pages : PageViewed(p, TRUE, offlineFrom)
    BY <1>4 DEF PageOpened
  <2>2. offlineFrom' = offlineFrom
        /\ UNCHANGED <<sent, outlook, pushUnacked, otherUnacked, now, pushed, ahead>>
    BY <1>4 DEF PageOpened
  <2>3. sent' \in SUBSET Pages /\ otherUnacked' \in Nat
        /\ outlook' \in Outlooks /\ offlineFrom' \in Nat \cup {NoDropout}
    BY <2>2 DEF IInv, TypeOK
  <2>4. QED
    BY <1>1, <2>1, <2>2, <2>3, PageViewedKeeps
<1>5. CASE OtherRequested \/ OtherSent
  <2>1. UNCHANGED <<current, outlook, offlineFrom, task, pushUnacked, now, pushed, burst, ahead>>
        /\ otherUnacked' \in Nat /\ sent' \in SUBSET Pages /\ sent \subseteq sent'
    BY <1>2, <1>5 DEF OtherRequested, OtherSent, client, history, IInv, TypeOK
  <2>2. TypeOK' /\ AccountInv' /\ OnceInv' /\ PlanInv' /\ PlanWithinBudget' /\ StrandsLittle'
    BY <1>1, <2>1 DEF IInv, TypeOK, AccountInv, OnceInv, PlanInv, PlanWithinBudget, StrandsLittle
  <2>3. WarnedPlan'
    BY <2>1 DEF IInv, WarnedPlan, Offline, OfflineAt, LimitBudget, BaseBudget, Warned
  <2>4. QED
    BY <2>2, <2>3 DEF IInv
<1>6. CASE Hinted
  <2>1. PICK h \in Hints :
          /\ \E metered \in Tariff(h) :
                outlook' = [imminent |-> h.active, outage |-> h.outage, metered |-> metered]
          /\ offlineFrom' = DueFrom(h)
          /\ IF h.active /\ current # NoPage
             THEN PageViewed(current, TRUE, DueFrom(h))
             ELSE UNCHANGED <<current, task, burst>>
    BY <1>6 DEF Hinted
  <2>2. UNCHANGED <<sent, pushUnacked, otherUnacked, now, pushed, ahead>>
    BY <1>6 DEF Hinted
  <2>3. /\ h.active \in BOOLEAN /\ h.outage \in Nat /\ h.eta \in Nat \cup {NoEta}
        /\ h.metered \in SUBSET BOOLEAN
    BY ServerAssumption
  <2>4. outlook' \in Outlooks /\ outlook'.imminent = h.active
    <3>1. PICK metered \in Tariff(h) :
            outlook' = [imminent |-> h.active, outage |-> h.outage, metered |-> metered]
      BY <2>1
    <3>2. metered \in BOOLEAN /\ h.outage \in Int
      BY <2>3 DEF IInv, TypeOK, Outlooks, Tariff
    <3>3. QED
      BY <2>3, <3>1, <3>2 DEF Outlooks
  <2>5. offlineFrom' \in Nat \cup {NoDropout}
    BY <2>1, <2>3, ServerAssumption DEF DueFrom, IInv, TypeOK
  <2>6. CASE h.active /\ current # NoPage
    <3>1. current \in Pages /\ sent' \in SUBSET Pages /\ otherUnacked' \in Nat
      BY <2>2, <2>6 DEF IInv, TypeOK
    <3>2. PageViewed(current, TRUE, offlineFrom')
      BY <2>1, <2>6
    <3>3. QED
      BY <1>1, <2>2, <2>4, <2>5, <3>1, <3>2, PageViewedKeeps
  <2>7. CASE ~(h.active /\ current # NoPage)
    <3>1. UNCHANGED <<current, task, burst>>
      BY <2>1, <2>7
    <3>2. TypeOK' /\ AccountInv' /\ OnceInv' /\ PlanInv' /\ PlanWithinBudget' /\ StrandsLittle'
      BY <1>1, <2>2, <2>4, <2>5, <3>1
         DEF IInv, TypeOK, AccountInv, OnceInv, PlanInv, PlanWithinBudget, StrandsLittle
    <3>3. WarnedPlan'
      BY <2>4, <2>7, <3>1 DEF IInv, PlanInv, WarnedPlan
    <3>4. QED
      BY <3>2, <3>3 DEF IInv
  <2>8. QED
    BY <2>6, <2>7
<1>7. QED
  BY <1>3, <1>4, <1>5, <1>6 DEF FrameStep

\* ... and so do acknowledgements and time.
LEMMA WorldStepKeeps ==
    ASSUME IInv, Acked \/ Tick \/ UNCHANGED vars
    PROVE  IInv'
<1>1. UNCHANGED <<current, sent, outlook, offlineFrom, task, pushed, burst, ahead>>
  BY DEF Acked, Tick, vars, client, history
<1>2. /\ pushUnacked' \in Nat /\ pushUnacked' <= pushUnacked
      /\ otherUnacked' \in Nat /\ now' \in Nat /\ now' >= now /\ events' \in Nat
  BY DEF Acked, Tick, vars, client, history, IInv, TypeOK
<1>3. TypeOK' /\ AccountInv' /\ OnceInv' /\ PlanInv' /\ PlanWithinBudget'
  BY <1>1, <1>2 DEF IInv, TypeOK, AccountInv, OnceInv, PlanInv, PlanWithinBudget
<1>4. StrandsLittle'
  BY <1>1, <1>2, ServerAssumption DEF IInv, TypeOK, StrandsLittle
<1>5. Offline => Offline'
  BY <1>1, <1>2 DEF IInv, TypeOK, Offline, OfflineAt, NoDropout
<1>6. LimitBudget(outlook)' = LimitBudget(outlook)
  BY <1>1 DEF LimitBudget, BaseBudget, Warned
<1>7. WarnedPlan'
  BY <1>1, <1>5, <1>6 DEF IInv, WarnedPlan
<1>8. QED
  BY <1>3, <1>4, <1>7 DEF IInv

\* The inductive invariant holds of a new client.
LEMMA InitIInv == Init => IInv
<1> SUFFICES ASSUME Init PROVE IInv
  OBVIOUS
<1>1. task = Idle /\ task.pc = "idle" /\ task \in Tasks
  BY IdleType DEF Init, Idle
<1>2. TypeOK
  BY <1>1 DEF Init, TypeOK, Outlooks, NoOutlook
<1>3. AccountInv /\ OnceInv /\ PlanInv /\ WarnedPlan
  BY <1>1 DEF Init, AccountInv, OnceInv, PlanInv, WarnedPlan, Planned
<1>4. PlanWithinBudget /\ StrandsLittle
  BY PolicyConfig, ServerAssumption DEF Init, PlanWithinBudget, StrandsLittle
<1>5. QED
  BY <1>2, <1>3, <1>4 DEF IInv

\* Every step keeps the inductive invariant.
LEMMA NextIInv == IInv /\ [Next]_vars => IInv'
BY PlanStepKeeps, FrameStepKeeps, WorldStepKeeps DEF Next
-----------------------------------------------------------------------------
\* The inductive invariant: types, the task's account of its budget, what it
\* may still push, and the safety properties below.
THEOREM Invariance == Spec => []IInv
BY InitIInv, NextIInv, PTL DEF Spec

\* Every variable of the server's state for a client keeps its type.
THEOREM Typed == Spec => []TypeOK
BY Invariance, PTL DEF IInv

\* A plan never puts more on the network than the hard cap allows, one and two
\* clicks deep together (max_budget_bytes).
THEOREM BudgetKept == Spec => []PlanWithinBudget
BY Invariance, PTL DEF IInv

\* Unacknowledged pushes exceed max_push_backlog_bytes only as a single frame,
\* sent when no push before it was unacknowledged; frames never add up past it.
THEOREM BacklogKept == Spec => []StrandsLittle
BY Invariance, PTL DEF IInv

\* While a warned dropout is ahead, the plan that runs was made since the
\* warning for the page the reader is on, with the warned budget.
THEOREM WarningReplans == Spec => []WarnedPlan
BY Invariance, PTL DEF IInv

\* Only the two actions that find room and no dropout due put a push on the network.
LEMMA PushSentBy ==
    ASSUME IInv, [Next]_vars, PushSent
    PROVE  task.pc \in {"push", "wait"} /\ ~Offline
<1>1. pushUnacked \in Nat
  BY DEF IInv, TypeOK
<1>2. ~(pushUnacked' = pushUnacked) /\ ~Acked
  BY <1>1 DEF PushSent, Acked
<1>3. TargetFetched \/ BacklogPolled
  BY <1>2 DEF Next, PlanStep, FrameStep, PageFetched, Predicted, PredictionFailed,
     TargetSkipped, ParentFetched, ChildrenPredicted, TaskStep, PageRequested,
     OtherRequested, OtherSent, PageOpened, Hinted, Tick, vars
<1>4. QED
  BY <1>2, <1>3 DEF TargetFetched, BacklogPolled, TaskStep

\* No push is sent once the warned dropout is due.
THEOREM SilenceKept == Spec => SilentWhenDue
<1>1. IInv /\ [Next]_vars => [PushSent => ~Offline]_vars
  BY PushSentBy
<1>2. QED
  BY <1>1, Invariance, PTL DEF Spec, SilentWhenDue

\* No page is pushed twice in a session.
THEOREM PushedOnce == Spec => NeverPushedTwice
<1>1. IInv /\ [Next]_vars => [PushSent => task.target \notin pushed]_vars
  BY PushSentBy DEF IInv, OnceInv
<1>2. QED
  BY <1>1, Invariance, PTL DEF Spec, NeverPushedTwice
=============================================================================
