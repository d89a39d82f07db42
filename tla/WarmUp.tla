-------------------------------- MODULE WarmUp --------------------------------
(***************************************************************************)
(* Jev's answers on disk: experiments/warm_jev.py asks ahead of time what   *)
(* the server will ask during the runs, which have no internet; the server *)
(* (offline) then answers from the cache or not at all.                    *)
(*                                                                         *)
(* A question is what decides the cache file's name: the page shown and    *)
(* the titles of the pages before it.  The text of a page decides its      *)
(* title and its links, so a title stands for the page whose text it is;   *)
(* an article outside the snapshot is served with another page's text.     *)
(* An answer is kept as the links it would have the server push when a     *)
(* long outage comes (depth2_parents); the service may answer the same     *)
(* question differently each time.                                         *)
(***************************************************************************)
EXTENDS Integers, FiniteSets, SequencesExt, TLC

CONSTANTS
    Sessions,           \* a sequence of sequences of snapshot pages
    Links,              \* url -> the urls the text at it links to
    Pages,              \* in the snapshot, the sessions' among them
    Standin,            \* url outside the snapshot -> the page picked for it
    Likely,             \* page -> the answers Jev may give about it, sets of its links
    HistoryLen,
    Concurrency,
    MaxFaults           \* calls that fail, answers that spoil, titles not fetched

VARIABLES
    phase,              \* of the warm-up: off, views or children
    tasks,              \* the gathered questions, by place or child: about, state, answer
    files,              \* the cache: question -> answer
    spoiled,            \* questions whose file is there and no answer
    warm,               \* a warm-up has come to its end
    titles,             \* the running server's _titles, as far as filled: right or not
    missed,             \* the server, its titles right, found no answer
    faults

vars == <<phase, tasks, files, spoiled, warm, titles, missed, faults>>

Fault == faults < MaxFaults /\ faults' = faults + 1

\* served_file: the page itself, or always the same stand-in for it.
Served(url) == IF url \in Pages THEN url ELSE Standin[url]

Question(page, history) == [page |-> page, history |-> history]
LastOf(history) == SubSeq(history, Len(history) - HistoryLen + 1, Len(history))
Recent(history) == IF Len(history) > HistoryLen THEN LastOf(history) ELSE history

\* child_state, shared by the warm-up and the server.
ChildOf(q, url) == Question(Served(url), Recent(Append(q.history, q.page)))

\* The question for the i-th page of a session, as the warm-up builds it.
Viewed(s, i) == Question(s[i], Recent(SubSeq(s, 1, i - 1)))

\* The places <<k, i>>, page i of session k, whose page has links; and the question at each.
Places == UNION {{<<k, i>> : i \in {j \in DOMAIN Sessions[k] : Links[Sessions[k][j]] # {}}} :
                     k \in DOMAIN Sessions}
Views == [place \in Places |-> Viewed(Sessions[place[1]], place[2])]

AllChildren ==
    {c \in UNION {{[url |-> url, about |-> ChildOf(tasks[i].about, url)] :
                       url \in tasks[i].answer} : i \in DOMAIN tasks} :
         Links[c.about.page] # {}}

\* Mutant: a page is asked about once, whatever was read before it.
ChildrenByPage ==
    {CHOOSE c \in AllChildren : c.url = url : url \in {c.url : c \in AllChildren}}
\* depth2_states: each url once with each history, wherever it comes up.
Children == AllChildren

Asking(questions) ==
    tasks' = [i \in DOMAIN questions |->
                  [about |-> questions[i], state |-> "waiting", answer |-> {}]]

\* Mutant: who has had its answer keeps its place.
RoomKept == Cardinality({i \in DOMAIN tasks : tasks[i].state # "waiting"}) < Concurrency
\* The semaphore: a question has its place until it is answered.
Room == Cardinality({i \in DOMAIN tasks : tasks[i].state = "asking"}) < Concurrency

Start ==
    /\ phase = "off" /\ ~warm
    /\ phase' = "views" /\ Asking(Views)
    /\ UNCHANGED <<files, spoiled, warm, titles, missed, faults>>

Answered(i, answer) == tasks' = [tasks EXCEPT ![i].state = "answered", ![i].answer = answer]

\* predict finds the file, and returns without giving way to another task.
AskCached(i) ==
    /\ tasks[i].state = "waiting" /\ Room
    /\ tasks[i].about \in DOMAIN files /\ Answered(i, files[tasks[i].about])
    /\ UNCHANGED <<phase, files, spoiled, warm, titles, missed, faults>>

Ask(i) ==
    /\ tasks[i].state = "waiting" /\ Room
    /\ tasks[i].about \notin DOMAIN files \union spoiled
    /\ tasks' = [tasks EXCEPT ![i].state = "asking"]
    /\ UNCHANGED <<phase, files, spoiled, warm, titles, missed, faults>>

\* Another task may have asked the same: the file of the answer that comes last stays.
AnswerComes(i) ==
    /\ tasks[i].state = "asking"
    /\ \E answer \in Likely[tasks[i].about.page] :
         /\ Answered(i, answer)
         /\ files' = [q \in DOMAIN files \union {tasks[i].about} |->
                          IF q = tasks[i].about THEN answer ELSE files[q]]
    /\ UNCHANGED <<phase, spoiled, warm, titles, missed, faults>>

\* The first exception leaves gather, and asyncio.run cancels the other questions.
Abort == phase' = "off" /\ tasks' = <<>>

\* A status other than 200, a timeout; Ctrl-C.
CallFails ==
    /\ phase # "off" /\ Fault /\ Abort
    /\ UNCHANGED <<files, spoiled, warm, titles, missed>>

\* The answer is written before it is looked into: one without probabilities, or one half
\* written when the process is killed, stays as the cached answer.
AnswerSpoils(i) ==
    /\ tasks[i].state = "asking" /\ Fault /\ Abort
    /\ spoiled' = spoiled \union {tasks[i].about}
    /\ files' = [q \in DOMAIN files \ {tasks[i].about} |-> files[q]]
    /\ UNCHANGED <<warm, titles, missed>>

ReadSpoiled(i) ==
    /\ tasks[i].state = "waiting" /\ Room /\ tasks[i].about \in spoiled
    /\ Abort
    /\ UNCHANGED <<files, spoiled, warm, titles, missed, faults>>

AllAnswered == \A i \in DOMAIN tasks : tasks[i].state = "answered"

NowChildren ==
    /\ phase = "views" /\ AllAnswered
    /\ phase' = "children" /\ Asking([c \in Children |-> c.about])
    /\ UNCHANGED <<files, spoiled, warm, titles, missed, faults>>

End ==
    /\ phase = "children" /\ AllAnswered
    /\ phase' = "off" /\ tasks' = <<>> /\ warm' = TRUE
    /\ UNCHANGED <<files, spoiled, titles, missed, faults>>

\* The runs come after the warm-up, each with a server that knows no title yet.
NewServer ==
    /\ warm /\ titles # <<>>
    /\ titles' = <<>>
    /\ UNCHANGED <<phase, tasks, files, spoiled, warm, missed, faults>>

\* _title_of for each page before this one: a page once fetched is not fetched again, its title
\* the url if the origin did not give it (a fetch that raises is tried again later).
TitlesFetched(history, wrong) ==
    LET new == ToSet(history) \ DOMAIN titles
    IN  [u \in new |-> u \notin wrong] @@ titles

\* A page of a session is viewed; a warning may come while it is on screen.  The question is
\* the warm-up's if the titles are; so are the ones about the pages likely to be next.
ServerAsks ==
    /\ warm
    /\ \E s \in ToSet(Sessions) : \E i \in DOMAIN s :
         \E wrong \in {{}} \union {{u} : u \in ToSet(s)} :
           LET q == Question(Served(s[i]), Recent(SubSeq(s, 1, i - 1)))
               known == TitlesFetched(q.history, wrong)
           IN  /\ Links[q.page] # {}
               /\ IF wrong = {} THEN UNCHANGED faults ELSE Fault
               /\ titles' = (s[i] :> TRUE) @@ known
               /\ missed' = (missed \/
                     /\ \A u \in ToSet(q.history) : known[u]
                     /\ \/ q \notin DOMAIN files
                        \/ \E url \in files[q] :
                             /\ Links[Served(url)] # {}
                             /\ ChildOf(q, url) \notin DOMAIN files)
    /\ UNCHANGED <<phase, tasks, files, spoiled, warm>>

Init ==
    /\ phase = "off" /\ tasks = <<>> /\ files = <<>> /\ spoiled = {} /\ warm = FALSE
    /\ titles = <<>> /\ missed = FALSE /\ faults = 0

Work ==
    \/ NowChildren \/ End
    \/ \E i \in DOMAIN tasks : AskCached(i) \/ Ask(i) \/ AnswerComes(i) \/ ReadSpoiled(i)

Next ==
    \/ Start \/ NowChildren \/ End \/ CallFails \/ NewServer \/ ServerAsks
    \/ \E i \in DOMAIN tasks :
         AskCached(i) \/ Ask(i) \/ AnswerComes(i) \/ AnswerSpoils(i) \/ ReadSpoiled(i)

\* Somebody starts the warm-up again until it has come to its end.
FairSpec == Init /\ [][Next]_vars /\ WF_vars(Start) /\ WF_vars(Work)
-----------------------------------------------------------------------------
\* "The server finds every answer in the cache during runs" (warm_jev.py:3-5), one click deep
\* and two, unless it could not fetch a title.
AnswersWarm == ~missed

\* A warm-up that is started again goes on with the answers it has (jev.py:4) and comes to its
\* end, unless a file that is no answer is in its way (jev.py:140).
WarmsUpUnlessSpoiled == <>(warm \/ spoiled # {})
=============================================================================
