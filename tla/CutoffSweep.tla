----------------------------- MODULE CutoffSweep -----------------------------
(***************************************************************************)
(* experiments/cutoff_sweep.py: the sessions are read again with the       *)
(* cached Jev answers, a page view is paired with the page opened next and *)
(* the one after it, and each push rule is charged with the bytes it would *)
(* have pushed at each view.                                               *)
(*                                                                         *)
(* A url stands for its title.  An answer is the sequence of the options   *)
(* it was asked about, each with its probability in percent.  The          *)
(* bootstrap interval and the table are left out.                          *)
(***************************************************************************)
EXTENDS Integers, Sequences, SequencesExt, FiniteSetsExt

CONSTANTS
    Sessions,           \* sequence of sessions, each the sequence of its pages: of the snapshot,
                        \* main refuses others
    Offered,            \* page -> the answer Jev gave or would give, <<>> for a page without links
    FrameSize,          \* page of the snapshot -> bytes of its push
    Typical,            \* the size of a page outside it until one in it has been seen
    Rules,              \* sequence of rules in the order of the sweep
    HistoryLen

\* What is sent to Jev for page i of a session, and so the name of the cached answer.
Question(s, i) ==
    [page |-> Sessions[s][i], history |-> SubSeq(Sessions[s], Max({1, i - HistoryLen}), i - 1)]
Questions == UNION {{Question(s, i) : i \in DOMAIN Sessions[s]} : s \in DOMAIN Sessions}

VARIABLES
    cached,             \* the questions with a cached answer
    session,            \* the session being read, its answers so far: sets of at most one
    answers,
    missing,
    views,
    rule, rows,         \* the rule being evaluated, and its row for each view so far
    sizes,              \* PageSizes: the pages measured and the fallback
    reports

vars == <<cached, session, answers, missing, views, rule, rows, sizes, reports>>

Loading == session <= Len(Sessions)

\* jev.predict for one page, or nothing to ask about; an answer that is missing leaves its place.
Ask ==
    /\ Loading /\ Len(answers) < Len(Sessions[session])
    /\ LET q == Question(session, Len(answers) + 1)
           answer == IF Offered[q.page] = <<>> \/ q \in cached THEN {Offered[q.page]} ELSE {}
       IN  /\ answers' = Append(answers, answer)
           /\ missing' = missing + (IF answer = {} THEN 1 ELSE 0)
    /\ UNCHANGED <<cached, session, views, rule, rows, sizes, reports>>

\* Mutant: the answer for the next page is the one for the page on screen.
ViewOwnAnswer(i) ==
    LET pages == Sessions[session] IN
    {[session |-> session, probs |-> probs, next |-> pages[i + 1],
      then |-> IF i + 2 > Len(pages) THEN {} ELSE {[probs |-> probs, next |-> pages[i + 2]]}]
        : probs \in answers[i]}

\* The view of page i: Jev's answer, the page opened next, and what is known one click later.
View(i) ==
    LET pages == Sessions[session] IN
    {[session |-> session, probs |-> probs, next |-> pages[i + 1],
      then |-> IF i + 2 > Len(pages) THEN {}
               ELSE {[probs |-> p, next |-> pages[i + 2]] : p \in answers[i + 1]}]
        : probs \in answers[i]}

PairUp ==
    /\ Loading /\ Len(answers) = Len(Sessions[session])
    /\ views' = views \o FoldLeft(LAMBDA acc, i : acc \o SetToSeq(View(i)), <<>>,
                                  [i \in 1..(Len(answers) - 1) |-> i])
    /\ session' = session + 1 /\ answers' = <<>>
    /\ UNCHANGED <<cached, missing, rule, rows, sizes, reports>>

-----------------------------------------------------------------------------
\* Rule.pushed: the answer's urls, most likely first, above the cutoff or the first few.
Pushed(r, probs) ==
    LET ranked == SortSeq([i \in DOMAIN probs |-> i],
                          LAMBDA i, j : \/ probs[i].p > probs[j].p
                                        \/ probs[i].p = probs[j].p /\ i < j)
        urls == [k \in DOMAIN ranked |-> probs[ranked[k]]]
        kept == IF r.kind = "top" THEN SubSeq(urls, 1, Min({r.value, Len(urls)}))
                ELSE SelectSeq(urls, LAMBDA o : o.p >= r.value)
    IN  [k \in DOMAIN kept |-> kept[k].url]

\* int(statistics.median(...)) of the pages measured.
Median(pages) ==
    LET sorted == SortSeq(SetToSeq(pages), LAMBDA u, v : FrameSize[u] < FrameSize[v])
        n == Len(sorted)
    IN  IF n % 2 = 1 THEN FrameSize[sorted[(n + 1) \div 2]]
        ELSE (FrameSize[sorted[n \div 2]] + FrameSize[sorted[n \div 2 + 1]]) \div 2

\* PageSizes.__call__: the page's bytes, and what is measured after it.
Measured(seen, url) == IF url \in DOMAIN FrameSize THEN seen \union {url} ELSE seen
Fallback(seen) == IF seen = {} THEN Typical ELSE Median(seen)
SizeOf(seen, url) == IF url \in DOMAIN FrameSize THEN FrameSize[url] ELSE Fallback(seen)

\* The sizes of urls, asked for one after the other.
Sum(seen, urls) ==
    FoldLeft(LAMBDA acc, u : [seen |-> Measured(acc.seen, u),
                              bytes |-> acc.bytes + SizeOf(acc.seen, u)],
             [seen |-> seen, bytes |-> 0], urls)

Row ==
    /\ ~Loading /\ views # <<>> /\ rule <= Len(Rules) /\ Len(rows) < Len(views)
    /\ LET v == views[Len(rows) + 1]
           pushed == Pushed(Rules[rule], v.probs)
           total == Sum(sizes, pushed)
           hit == Contains(pushed, v.next)
       IN  /\ rows' = Append(rows,
                [hit |-> hit, pages |-> Len(pushed), bytes |-> total.bytes,
                 useful |-> IF hit THEN SizeOf(total.seen, v.next) ELSE 0,
                 second |-> {hit /\ Contains(Pushed(Rules[rule], t.probs), t.next) : t \in v.then}])
           /\ sizes' = total.seen
    /\ UNCHANGED <<cached, session, answers, missing, views, rule, reports>>

Evaluated ==
    /\ ~Loading /\ views # <<>> /\ rule <= Len(Rules) /\ Len(rows) = Len(views)
    /\ LET count(test(_)) == Len(SelectSeq(rows, test))
           sum(f(_)) == FoldLeft(LAMBDA acc, r : acc + f(r), 0, rows)
       IN  reports' = Append(reports,
                [next |-> count(LAMBDA r : r.hit), pages |-> sum(LAMBDA r : r.pages),
                 bytes |-> sum(LAMBDA r : r.bytes), useful |-> sum(LAMBDA r : r.useful),
                 second |-> count(LAMBDA r : TRUE \in r.second),
                 secondOf |-> count(LAMBDA r : r.second # {})])
    /\ rule' = rule + 1 /\ rows' = <<>>
    /\ UNCHANGED <<cached, session, answers, missing, views, sizes>>

Init ==
    /\ cached \in SUBSET {q \in Questions : Offered[q.page] # <<>>}
    /\ session = 1 /\ answers = <<>> /\ missing = 0 /\ views = <<>>
    /\ rule = 1 /\ rows = <<>> /\ sizes = {} /\ reports = <<>>

Next == Ask \/ PairUp \/ Row \/ Evaluated

Spec == Init /\ [][Next]_vars
-----------------------------------------------------------------------------
Known(s, i) == Offered[Sessions[s][i]] = <<>> \/ Question(s, i) \in cached

\* The places in the sessions that are followed by a click and have an answer, in their order.
Places ==
    UNION {{<<s, i>> : i \in {j \in 1..(Len(Sessions[s]) - 1) : Known(s, j)}} : s \in DOMAIN Sessions}
InOrder == SetToSortSeq(Places, LAMBDA q, r : q[1] < r[1] \/ (q[1] = r[1] /\ q[2] < r[2]))

\* However answers are missing, a view pairs the answer for the page on screen with the page the
\* reader opened next, and the page after it with the answer for that next page
\* (cutoff_sweep.py:45-51).
ViewsAsRead ==
    ~Loading =>
    /\ Len(views) = Cardinality(Places)
    /\ \A k \in DOMAIN views :
         LET s == InOrder[k][1]
             i == InOrder[k][2]
         IN  /\ views[k].session = s
             /\ views[k].probs = Offered[Sessions[s][i]]
             /\ views[k].next = Sessions[s][i + 1]
             /\ (views[k].then # {}) = (i + 2 <= Len(Sessions[s]) /\ Known(s, i + 1))
             /\ \A t \in views[k].then :
                  t.probs = Offered[Sessions[s][i + 1]] /\ t.next = Sessions[s][i + 2]

\* The figures of a rule fit together: no more useful bytes than bytes, no more next pages than
\* the ceiling, no more second clicks than first ones; and a lower cutoff pushes and reaches no
\* fewer pages.  Its bytes may be fewer: the typical size charged for a page outside the snapshot
\* is the one at the time, and moves from rule to rule (cutoff_sweep.py:8-17, 157-160).
FiguresFit ==
    \A k \in DOMAIN reports :
        /\ reports[k].useful <= reports[k].bytes
        /\ reports[k].second <= Min({reports[k].next, reports[k].secondOf})
        /\ reports[k].next <=
             Len(SelectSeq(views, LAMBDA v : \E o \in DOMAIN v.probs : v.probs[o].url = v.next))
        /\ \A l \in DOMAIN reports :
             (/\ {Rules[k].kind, Rules[l].kind} = {"threshold"}
              /\ Rules[k].value <= Rules[l].value) =>
                \A figure \in {"next", "pages", "useful", "second"} :
                    reports[k][figure] >= reports[l][figure]

SweepSound == ViewsAsRead /\ FiguresFit
=============================================================================
