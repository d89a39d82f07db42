--------------------------- MODULE ServerPrefetch ---------------------------
(***************************************************************************)
(* edgeproxy/server/proxy.py: what the server proxy keeps for one client   *)
(* (_Client) and the background task that pushes the pages its reader is   *)
(* likely to open next (_prefetch, _push).  Sessions share nothing but a   *)
(* table of page titles, so one client is the whole story.                 *)
(*                                                                         *)
(* The server runs on one event loop: a step is everything between two     *)
(* awaits.  The handlers for the client's frames run between the awaits of *)
(* the prefetch task; where the task waits is its pc:                      *)
(*    fetch    for the origin's copy of the page being read                *)
(*    predict  for the titles of the history and the predictor's answer    *)
(*    push     for the origin's copy of the page it means to push          *)
(*    wait     in _wait_backlog, for the client to acknowledge bytes       *)
(*    parents  for a page whose links will be expanded                     *)
(*    gather   for the predictor's answers about those pages               *)
(*    idle     there is no task, or it has ended                           *)
(*                                                                         *)
(* Outside this code, and free to do anything: the origin (a fetch may     *)
(* fail, a frame may have any size), the predictor (any answer of Answers, *)
(* or none), the client's frames and acknowledgements, and time.           *)
(***************************************************************************)
EXTENDS PrefetchPolicy

CONSTANTS
    Pages, NoPage,
    Answers,        \* Answers[p]: the probabilities the predictor may give p's links
    FrameSizes,     \* bytes a PUSH frame may take on the wire
    ReplySizes,     \* bytes any other frame to the client may take
    Hints,          \* the HANDOVER_HINT frames the client may send
    BacklogLimit,   \* max_push_backlog_bytes
    Margin,         \* push_stop_margin_s
    MaxTime, MaxEvents, MaxOther    \* bounds of the model

NoEta == -1         \* a hint without eta_s
NoDropout == -1     \* offline_from is None

\* An answer scores some of the pages, in percent.
IsAnswer(f) == DOMAIN f \subseteq Pages /\ f \in [DOMAIN f -> 0..100]

ASSUME ServerAssumption ==
    /\ NoPage \notin Pages
    /\ IsFiniteSet(Pages)
    /\ \A p \in Pages : \A f \in Answers[p] : IsAnswer(f)
    /\ FrameSizes \subseteq Nat \ {0}
    /\ ReplySizes \subseteq Nat \ {0}
    /\ Hints \subseteq [active: BOOLEAN, outage: Nat, eta: Nat \cup {NoEta}, metered: SUBSET BOOLEAN]
    /\ {BacklogLimit, Margin, MaxTime, MaxEvents, MaxOther} \subseteq Nat

VARIABLES
    current,        \* the page the reader is on
    sent,           \* URLs the client already has a copy of
    outlook,        \* the client's connectivity outlook
    offlineFrom,    \* when the warned dropout is due
    task,           \* the prefetch task
    pushUnacked,    \* unacknowledged bytes of pushes ...
    otherUnacked,   \* ... and of replies and pass-through streams
    now,
    events,         \* frames received so far, to bound the model
    pushed,         \* history: the URLs pushed so far
    burst,          \* history: bytes pushed since the current plan was started
    ahead           \* history: pushUnacked when the last push was sent

client == <<current, sent, outlook, offlineFrom>>
history == <<pushed, burst, ahead>>
vars == <<client, task, pushUnacked, otherUnacked, now, events, history>>

Waits == {"fetch", "predict", "push", "wait", "parents", "gather"}

Nothing == [u \in {} |-> 0]     \* an answer that scores no link

Idle == [pc |-> "idle", page |-> NoPage, probs |-> Nothing, limit |-> 0, spent |-> 0,
         depth |-> 1, k |-> 0, queue |-> {}, ranks |-> Nothing, target |-> NoPage,
         frame |-> 0, bodies |-> {}, parents |-> {}, children |-> {}, answers |-> Nothing]

Started(p, needHtml) ==
    [Idle EXCEPT !.pc = IF needHtml THEN "fetch" ELSE "predict", !.page = p]

\* session.backlog_bytes(), and the test _wait_backlog makes of it.
Backlog == pushUnacked + otherUnacked
\* Mutant: the frame about to be sent is not counted.
BlockedByOthers(wire) == Backlog # 0 /\ Backlog > BacklogLimit
\* Mutant: an empty backlog has no room for a frame above the limit.
BlockedForever(wire) == Backlog + wire > BacklogLimit
Blocked(wire) == Backlog # 0 /\ Backlog + wire > BacklogLimit

OfflineAt(from) == from # NoDropout /\ now >= from
Offline == OfflineAt(offlineFrom)
-----------------------------------------------------------------------------
(***************************************************************************)
(* Where the task may be at its next await.  Each operator returns the set *)
(* of tasks the code can leave behind, and is one stretch of code without  *)
(* an await; known is client.sent at that point.                           *)
(***************************************************************************)

\* The loop of _push goes on: await the origin's copy of the likeliest target.
Fetching(t, targets) ==
    {[t EXCEPT !.pc = "push", !.target = u, !.queue = targets \ {u}] :
        u \in MostLikely(targets, t.ranks)}

\* Mutant: the second click ignores client.sent.
FreshOrNot(t, c, known) == DOMAIN t.answers[c]

\* The links of child c that may still be pushed.
Fresh(t, c, known) == DOMAIN t.answers[c] \ known

\* The last loop of _prefetch: go on with the likeliest child that has any.
NextChild(t, known) ==
    LET live == {c \in t.children : Fresh(t, c, known) # {}}
    IN  IF t.spent >= t.limit \/ Offline \/ live = {}
        THEN {Idle}
        ELSE UNION {UNION {Fetching([t EXCEPT !.ranks = t.answers[c],
                                              !.children = @ \ {c}], picks) :
                           picks \in Top(t.k, Fresh(t, c, known), t.answers[c])} :
                    c \in MostLikely(live, t.probs)}

\* The loop that collects the pages to expand; then ask about all at once.
NextParent(t) ==
    IF t.parents = {}
    THEN {[t EXCEPT !.pc = "gather", !.target = NoPage]}
    ELSE {[t EXCEPT !.pc = "parents", !.target = u, !.parents = @ \ {u}] :
             u \in MostLikely(t.parents, t.probs)}

\* Mutant: two clicks deep gets a budget of its own.
ExpandAfresh(t) ==
    IF Depth2K(outlook) = 0
    THEN {Idle}
    ELSE UNION {NextParent([t EXCEPT !.depth = 2, !.k = Depth2K(outlook), !.spent = 0,
                                     !.children = likely \cap t.bodies,
                                     !.parents = likely \ t.bodies]) :
                likely \in Decisions(t.probs, outlook, {})}

\* One click deep is done: go two deep if the outage is long enough.
Expand(t) ==
    IF Depth2K(outlook) = 0
    THEN {Idle}
    ELSE UNION {NextParent([t EXCEPT !.depth = 2, !.k = Depth2K(outlook),
                                     !.children = likely \cap t.bodies,
                                     !.parents = likely \ t.bodies]) :
                likely \in Decisions(t.probs, outlook, {})}

\* _push returns to _prefetch.
EndPush(t, known) == IF t.depth = 1 THEN Expand(t) ELSE NextChild(t, known)

\* The head of the loop of _push.
PushLoop(t, known) ==
    IF t.queue = {} \/ t.spent >= t.limit \/ Offline
    THEN EndPush(t, known)
    ELSE Fetching(t, t.queue)
-----------------------------------------------------------------------------
(* The prefetch task.  Whatever the await returns, the task goes on alone. *)

TaskStep == UNCHANGED <<client, pushUnacked, otherUnacked, now, events, history>>

PageFetched ==
    /\ task.pc = "fetch"
    /\ task' \in {[task EXCEPT !.pc = "predict"], Idle}
    /\ TaskStep

Predicted ==
    /\ task.pc = "predict"
    /\ \E probs \in Answers[task.page] :
         \E chosen \in Decisions(probs, outlook, sent) :
            task' \in PushLoop([task EXCEPT !.probs = probs, !.ranks = probs,
                                            !.limit = LimitBudget(outlook),
                                            !.queue = chosen], sent)
    /\ TaskStep

PredictionFailed ==
    /\ task.pc = "predict"
    /\ task' = Idle
    /\ TaskStep

\* The origin's copy is missing or its frame exceeds what is left of the budget.
TargetSkipped ==
    /\ task.pc = "push"
    /\ task' \in PushLoop(task, sent)
    /\ TaskStep

\* Put the frame on the network and go on with the loop.
Push(wire) ==
    /\ sent' = sent \cup {task.target}
    /\ pushUnacked' = pushUnacked + wire
    /\ pushed' = pushed \cup {task.target}
    /\ burst' = burst + wire
    /\ ahead' = pushUnacked
    /\ task' \in PushLoop([task EXCEPT !.spent = @ + wire, !.frame = 0,
                               !.bodies = IF task.depth = 1 THEN @ \cup {task.target} ELSE @],
                          sent')
    /\ UNCHANGED <<current, outlook, offlineFrom, otherUnacked, now, events>>

\* _wait_backlog: push, give up because the dropout is due, or sleep.
TargetFetched ==
    /\ task.pc = "push"
    /\ \E wire \in FrameSizes :
         /\ task.spent + wire <= task.limit
         /\ \/ ~Blocked(wire) /\ ~Offline /\ Push(wire)
            \/ Offline /\ task' \in EndPush(task, sent) /\ TaskStep
            \/ /\ Blocked(wire) /\ ~Offline
               /\ task' = [task EXCEPT !.pc = "wait", !.frame = wire]
               /\ TaskStep

\* Mutant: after the wait, the dropout is not looked at again.
BacklogPolledOnly ==
    /\ task.pc = "wait"
    /\ ~Blocked(task.frame) /\ Push(task.frame)

\* A poll that finds the backlog still full changes nothing.
BacklogPolled ==
    /\ task.pc = "wait"
    /\ \/ ~Blocked(task.frame) /\ ~Offline /\ Push(task.frame)
       \/ /\ Offline
          /\ task' \in EndPush([task EXCEPT !.frame = 0], sent)
          /\ TaskStep

ParentFetched ==
    /\ task.pc = "parents"
    /\ \E found \in {{}, {task.target}} :
          task' \in NextParent([task EXCEPT !.children = @ \cup found])
    /\ TaskStep

\* A predictor that fails about a child answers Nothing.
ChildrenPredicted ==
    /\ task.pc = "gather"
    /\ \E answers \in [task.children -> (UNION {Answers[c] : c \in task.children}) \cup {Nothing}] :
         /\ \A c \in task.children : answers[c] \in Answers[c] \cup {Nothing}
         /\ task' \in NextChild([task EXCEPT !.answers = answers], sent)
    /\ TaskStep
-----------------------------------------------------------------------------
(* The client's frames. *)

Received == events < MaxEvents /\ events' = events + 1

\* Mutant: a running plan is left alone.
PageViewedOnce(p, needHtml, from) ==
    /\ current' = p
    /\ IF OfflineAt(from) \/ task.pc # "idle"
       THEN UNCHANGED <<task, burst>>
       ELSE task' = Started(p, needHtml) /\ burst' = 0

\* _page_viewed, when the dropout is due from `from` on.
PageViewed(p, needHtml, from) ==
    /\ current' = p
    /\ IF OfflineAt(from)
       THEN UNCHANGED <<task, burst>>
       ELSE task' = Started(p, needHtml) /\ burst' = 0

\* A reply, or anything else the session sends besides pushes.
Replied == \E size \in ReplySizes : /\ otherUnacked + size <= MaxOther
                                    /\ otherUnacked' = otherUnacked + size

\* handle, REQUEST: the origin's HTML page (or a 304 for it) is on its way back.
PageRequested ==
    /\ Received /\ Replied
    /\ \E p \in Pages, notModified \in BOOLEAN :
         /\ sent' = sent \cup {p}
         /\ PageViewed(p, notModified, offlineFrom)
    /\ UNCHANGED <<outlook, offlineFrom, pushUnacked, now, pushed, ahead>>

\* The same for anything that is no page view: a HEAD, an image, a 404.
OtherRequested ==
    /\ Received /\ Replied
    /\ \E p \in Pages : sent' = sent \cup {p}
    /\ UNCHANGED <<current, outlook, offlineFrom, task, pushUnacked, now, history>>

\* A ping, an unreachable origin (502), pass-through bytes.
OtherSent ==
    /\ Received /\ Replied
    /\ UNCHANGED <<client, task, pushUnacked, now, history>>

\* VIEWED: the client opened a page from its own cache.
PageOpened ==
    /\ Received
    /\ \E p \in Pages : PageViewed(p, TRUE, offlineFrom)
    /\ UNCHANGED <<sent, outlook, offlineFrom, pushUnacked, otherUnacked, now, pushed, ahead>>

\* _on_hint: when the dropout is due.
DueFrom(h) ==
    IF ~h.active THEN NoDropout
    ELSE IF h.eta = NoEta THEN offlineFrom
    ELSE now + (IF h.eta > Margin THEN h.eta - Margin ELSE 0)

\* What a hint says of the tariff; one that says nothing leaves it as it was.
Tariff(h) == IF h.metered = {} THEN {outlook.metered} ELSE h.metered

Hinted ==
    /\ Received
    /\ \E h \in Hints :
         /\ \E metered \in Tariff(h) :
               outlook' = [imminent |-> h.active, outage |-> h.outage, metered |-> metered]
         /\ offlineFrom' = DueFrom(h)
         /\ IF h.active /\ current # NoPage
            THEN PageViewed(current, TRUE, DueFrom(h))
            ELSE UNCHANGED <<current, task, burst>>
    /\ UNCHANGED <<sent, pushUnacked, otherUnacked, now, pushed, ahead>>
-----------------------------------------------------------------------------
(* The world. *)

Acked ==
    /\ \/ \E n \in 1..pushUnacked :
             pushUnacked' = pushUnacked - n /\ UNCHANGED otherUnacked
       \/ \E n \in 1..otherUnacked :
             otherUnacked' = otherUnacked - n /\ UNCHANGED pushUnacked
    /\ UNCHANGED <<client, task, now, events, history>>

Tick ==
    /\ now < MaxTime
    /\ now' = now + 1
    /\ UNCHANGED <<client, task, pushUnacked, otherUnacked, events, history>>
-----------------------------------------------------------------------------
Init ==
    /\ current = NoPage
    /\ sent = {}
    /\ outlook = NoOutlook
    /\ offlineFrom = NoDropout
    /\ task = Idle
    /\ pushUnacked = 0
    /\ otherUnacked = 0
    /\ now = 0
    /\ events = 0
    /\ pushed = {}
    /\ burst = 0
    /\ ahead = 0

PlanStep == \/ PageFetched \/ Predicted \/ PredictionFailed
            \/ TargetSkipped \/ TargetFetched \/ BacklogPolled
            \/ ParentFetched \/ ChildrenPredicted

FrameStep == PageRequested \/ OtherRequested \/ OtherSent \/ PageOpened \/ Hinted

Next == PlanStep \/ FrameStep \/ Acked \/ Tick

Spec == Init /\ [][Next]_vars

\* Awaits return (every fetch, predictor call and sleep has a timeout) and the
\* event loop resumes the task.  The client owes the server nothing.
FairSpec == Spec /\ WF_vars(PlanStep)
-----------------------------------------------------------------------------
(***************************************************************************)
(* Types.                                                                  *)
(***************************************************************************)
AnyAnswer == (UNION {Answers[p] : p \in Pages}) \cup {Nothing}

Tasks ==
    [pc: Waits \cup {"idle"}, page: Pages \cup {NoPage}, probs: AnyAnswer, limit: 0..MaxBudget,
     spent: Nat, depth: {1, 2}, k: Nat, queue: SUBSET Pages, ranks: AnyAnswer,
     target: Pages \cup {NoPage}, frame: Nat, bodies: SUBSET Pages, parents: SUBSET Pages,
     children: SUBSET Pages, answers: UNION {[S -> AnyAnswer] : S \in SUBSET Pages}]

TypeOK ==
    /\ current \in Pages \cup {NoPage}
    /\ sent \in SUBSET Pages
    /\ outlook \in Outlooks
    /\ offlineFrom \in Nat \cup {NoDropout}
    /\ task \in Tasks
    /\ pushUnacked \in Nat
    /\ otherUnacked \in Nat
    /\ now \in Nat
    /\ events \in Nat
    /\ pushed \in SUBSET Pages
    /\ burst \in Nat
    /\ ahead \in Nat
-----------------------------------------------------------------------------
(***************************************************************************)
(* Properties.                                                             *)
(***************************************************************************)
PushSent == pushUnacked' > pushUnacked

\* No push is sent once the warned dropout is due, although the hint may
\* arrive while the task awaits a fetch, an answer or the backlog
\* (server/proxy.py:17, "Pushing stops shortly before the warned dropout").
SilentWhenDue == [][PushSent => ~Offline]_vars

\* What one plan pushes, one and two clicks deep together and across all its
\* waits, stays within the hard cap; a new plan is what it takes to get more
\* (prefetch_policy.py:26, max_budget_bytes).
PlanWithinBudget == burst <= MaxBudget

\* However plans follow, cancel and expand one another, a session never
\* pushes a page twice (_Client.sent).
NeverPushedTwice == [][PushSent => task.target \notin pushed]_vars

\* While a warned dropout is still ahead, the only plan that runs is one made
\* since the warning, for the page the reader is on and with the budget the
\* warning grants (server/proxy.py:14, "immediately re-plans pushes for the
\* current page").
Planned == {"push", "wait", "parents", "gather"}
WarnedPlan ==
    task.pc # "idle" /\ outlook.imminent /\ ~Offline =>
        /\ task.page = current
        /\ task.pc \in Planned => task.limit = LimitBudget(outlook)

\* Pushes add up to more than the limit without an acknowledgement in one case
\* only: a single frame above it, sent when every push before it had been
\* acknowledged.  Frames under the limit never do, whatever the origin makes of
\* the sizes and the client of its acknowledgements (server/proxy.py:18, "at
\* most prefetch.max_push_backlog_bytes of pushes are ever unacknowledged"; the
\* case named here is _wait_backlog's "An empty backlog always has room").
StrandsLittle == pushUnacked > BacklogLimit => ahead = 0

\* Pushes are predicted from the page the reader is on: a plan for a page the
\* reader has left is cancelled as stale (server/proxy.py:185).
NoStalePush == [][PushSent => task.page = current]_vars

\* When the client falls silent and what it was sent is acknowledged time and
\* again, the task ends: it neither waits for room that cannot come nor loops.
PlansEnd == []<>(Backlog = 0) => <>[](task.pc = "idle")

\* A task held up by the backlog of a dead link does not outlast the warned
\* dropout: it sees that the dropout is due, with no acknowledgement to wake it.
WaitEndsWhenDue ==
    (task.pc = "wait" /\ Offline) ~> (task.pc # "wait" \/ ~Offline)
-----------------------------------------------------------------------------
(***************************************************************************)
(* The inductive invariant behind the safety properties.                   *)
(***************************************************************************)

\* The task's own account of its budget is what it has put on the network.
AccountInv ==
    /\ task.pc \in {"fetch", "predict"} => burst = 0 /\ task.spent = 0
    /\ task.pc \in Planned => burst = task.spent /\ task.spent <= task.limit
    /\ task.pc = "wait" => task.spent + task.frame <= task.limit

\* What the task still means to push has not been pushed.
OnceInv ==
    /\ pushed \subseteq sent
    /\ task.pc \in {"push", "wait"} =>
          /\ task.target \in Pages
          /\ task.target \notin task.queue
          /\ ({task.target} \cup task.queue) \cap pushed = {}

\* A plan is for a page someone has viewed; two clicks deep, there is an answer
\* about every page left to expand; the frame that waits for room is a frame.
PlanInv ==
    /\ task.pc # "idle" => current # NoPage /\ task.page \in Pages
    /\ task.pc \in {"fetch", "predict"} => task.depth = 1
    /\ task.pc \in {"push", "wait"} /\ task.depth = 2 =>
          task.children \subseteq DOMAIN task.answers
    /\ task.pc = "parents" => task.target \in Pages
    /\ task.pc = "wait" => task.frame \in FrameSizes

IInv ==
    /\ TypeOK
    /\ AccountInv
    /\ OnceInv
    /\ PlanInv
    /\ PlanWithinBudget
    /\ StrandsLittle
    /\ WarnedPlan
=============================================================================
