------------------------------ MODULE ClientRun ------------------------------
(***************************************************************************)
(* One run as the client sees it (experiments/client_run.py): the reader   *)
(* opens the pages of its session one after the other, however long each   *)
(* takes; run_scenario changes the links on schedule; the run ends with    *)
(* the session or the scenario's time.  What happens goes to the event log, *)
(* and experiments/analyze.py makes the run's figures out of the log alone. *)
(* The figures are compared here with what the reader went through.        *)
(*                                                                         *)
(* Time is whole seconds of the run's clock.  Timers are not late.  The    *)
(* client proxy is the environment: a page comes when it comes, from any   *)
(* source.  The oracle's hover is a request the log does not show.         *)
(***************************************************************************)
EXTENDS Integers, FiniteSetsExt, SequencesExt, TLC

CONSTANTS
    Scenarios,          \* [initial |-> [link -> profile], events |-> <<[t, iface, profile]>>],
                        \* the events in the order of their times
    Dwell,              \* seconds the reader stays on each page of its session
    Duration,
    AfterRecovery,      \* AFTER_RECOVERY_S
    Sources             \* where a page may come from

VARIABLES
    scenario,           \* {} before the run, else the one it follows
    now, applied,       \* the clock; how many of the scenario's events have been applied
    links,
    reader,             \* what the reader does: at, page, and until when it reads
    log, over,
    waited,             \* the seconds the reader waited for each page, by the clock
    shown, blackout,    \* pages it got to see; pages clicked with every link dead
    inforce             \* the links in every second so far

vars == <<scenario, now, applied, links, reader, log, over, waited, shown, blackout, inforce>>

Emit(e) == log' = Append(log, e)

Begin ==
    /\ scenario = {}
    /\ \E s \in Scenarios :
         /\ scenario' = {s} /\ links' = s.initial
         /\ UNCHANGED <<now, applied, reader, log, over, waited, shown, blackout, inforce>>

Running == scenario # {} /\ ~over

\* The scenario's events not applied yet.
Ahead(s) == (applied + 1)..Len(s.events)

Changed(before, e) == [before EXCEPT ![e.iface] = e.profile]

\* run_scenario: the profile is applied when its time has come, and logged.
ApplyProfile ==
    /\ Running
    /\ \E s \in scenario :
         /\ Ahead(s) # {} /\ s.events[applied + 1].t <= now
         /\ LET e == s.events[applied + 1] IN
              /\ links' = Changed(links, e)
              /\ Emit([event |-> "netem", t |-> e.t, profile |-> e.profile])
    /\ applied' = applied + 1
    /\ UNCHANGED <<scenario, now, reader, over, waited, shown, blackout, inforce>>

Click ==
    /\ Running /\ reader.at = "free" /\ reader.page < Len(Dwell) /\ now < Duration
    /\ LET i == reader.page + 1 IN
         /\ reader' = [at |-> "waiting", page |-> i, until |-> 0]
         /\ Emit([event |-> "click", i |-> i, t |-> now])
         /\ waited' = Append(waited, 0)
         /\ blackout' = IF \A l \in DOMAIN links : links[l] = "dead"
                        THEN blackout \union {i} ELSE blackout
    /\ UNCHANGED <<scenario, now, applied, links, over, shown, inforce>>

View ==
    /\ Running /\ reader.at = "waiting"
    /\ \E source \in Sources :
         /\ Emit([event |-> "view", i |-> reader.page, wait |-> waited[reader.page],
                  source |-> source])
         /\ shown' = IF source = "error" THEN shown ELSE shown \union {reader.page}
    /\ reader' = [reader EXCEPT !.at = "reading", !.until = now + Dwell[reader.page]]
    /\ UNCHANGED <<scenario, now, applied, links, over, waited, blackout, inforce>>

DwellOver ==
    /\ Running /\ reader.at = "reading" /\ reader.until <= now
    /\ reader' = [reader EXCEPT !.at = "free"]
    /\ UNCHANGED <<scenario, now, applied, links, log, over, waited, shown, blackout, inforce>>

Tick ==
    /\ Running /\ now < Duration
    /\ \A s \in scenario : Ahead(s) # {} => now < s.events[applied + 1].t
    /\ reader.at = "waiting" \/ (reader.at = "reading" /\ now < reader.until)
    /\ now' = now + 1
    /\ waited' = IF reader.at = "waiting" THEN [waited EXCEPT ![reader.page] = @ + 1] ELSE waited
    /\ inforce' = Append(inforce, links)
    /\ UNCHANGED <<scenario, applied, links, reader, log, over, shown, blackout>>

\* The session is over, or wait_for has cancelled the reader at the scenario's end.
End ==
    /\ Running
    /\ now = Duration \/ (reader.at = "free" /\ reader.page = Len(Dwell))
    /\ over' = TRUE /\ Emit([event |-> "run_end", t |-> now])
    /\ UNCHANGED <<scenario, now, applied, links, reader, waited, shown, blackout, inforce>>

Init ==
    /\ scenario = {} /\ now = 0 /\ applied = 0 /\ links = <<>>
    /\ reader = [at |-> "free", page |-> 0, until |-> 0]
    /\ log = <<>> /\ over = FALSE /\ waited = <<>> /\ shown = {} /\ blackout = {}
    /\ inforce = <<>>

Next == Begin \/ ApplyProfile \/ Click \/ View \/ DwellOver \/ Tick \/ End

Spec == Init /\ [][Next]_vars
-----------------------------------------------------------------------------
(* What analyze.py makes of the log. *)

Events(kind) == {e \in ToSet(log) : e.event = kind}

EndTime == (CHOOSE e \in Events("run_end") : TRUE).t

Deaths == {e.t : e \in {x \in Events("netem") : x.profile = "dead"}}

\* outage_window, as the seconds in it; only where a link died.
OutageWindow ==
    LET back == {e.t : e \in {x \in Events("netem") :
                                  x.profile # "dead" /\ x.t > Min(Deaths)}}
    IN  Min(Deaths)..((IF back = {} THEN EndTime ELSE Max(back)) + AfterRecovery - 1)

\* Mutant: a page that never came is left out.
WaitsOfViews ==
    [i \in {v.i : v \in Events("view")} |->
        LET v == CHOOSE e \in Events("view") : e.i = i IN [wait |-> v.wait, source |-> v.source]]

\* A page that had not come when the run ended counts up to then.
Waits ==
    [i \in {c.i : c \in Events("click")} |->
        LET click == CHOOSE c \in Events("click") : c.i = i
            views == {v \in Events("view") : v.i = i}
            view == CHOOSE v \in views : TRUE
        IN  IF views # {} THEN [wait |-> view.wait, source |-> view.source]
            ELSE [wait |-> EndTime - click.t, source |-> "pending"]]

SumOf(f) == MapThenSumSet(LAMBDA i : f[i], DOMAIN f)

RunMetrics ==
    [wait_s |-> SumOf([i \in DOMAIN Waits |-> Waits[i].wait]),
     max_wait_s |-> Max({Waits[i].wait : i \in DOMAIN Waits} \union {0}),
     pages |-> Cardinality({i \in DOMAIN Waits : Waits[i].source \notin {"pending", "error"}}),
     outage |-> IF Deaths = {} THEN {}
                ELSE {c.i : c \in {x \in Events("click") : x.t \in OutageWindow}}]

\* zones, of export_replay.py: a link's segments, from the scenario file and the run's end; the
\* segment k begins with the event k, the segment 0 with the run.
Zones(s, l) ==
    LET changes == {k \in DOMAIN s.events : s.events[k].iface = l}
        later(k) == {j \in changes : j > k}
    IN  [k \in changes \union {0} |->
            [from |-> IF k = 0 THEN 0 ELSE s.events[k].t,
             to |-> IF later(k) = {} THEN EndTime ELSE s.events[Min(later(k))].t,
             profile |-> IF k = 0 THEN s.initial[l] ELSE s.events[k].profile]]

\* The figures of a finished run are the reader's: the seconds it waited, a page still loading
\* at the end included, the longest wait, and the pages it saw (analyze.py:4-8).
MeasuredRight ==
    /\ RunMetrics.wait_s = SumOf(waited)
    /\ RunMetrics.max_wait_s = Max({waited[i] : i \in DOMAIN waited} \union {0})
    /\ RunMetrics.pages = Cardinality(shown)

\* The links once the first n events of a scenario are applied.
LinksAfter(s, n) ==
    [l \in DOMAIN s.initial |->
        LET changes == {k \in 1..n : s.events[k].iface = l}
        IN  IF changes = {} THEN s.initial[l] ELSE s.events[Max(changes)].profile]

\* One outage: when no link is up, none has come back since the first died.
OneOutage(s) ==
    \A n \in DOMAIN s.events :
        (\A l \in DOMAIN s.initial : LinksAfter(s, n)[l] = "dead") =>
            \A j, k \in 1..n : j < k /\ s.events[j].profile = "dead" => s.events[k].profile = "dead"

\* A page clicked while no link was up is counted to the outage, also when the reader's session
\* ends in it; for scenarios with one outage, as those of emulation/scenarios (analyze.py:39-46).
BlackoutCounted ==
    (\A s \in scenario : OneOutage(s)) => blackout \subseteq RunMetrics.outage

\* The zones the replay shows are the links as they were in each second of the run, one zone at
\* a time, also when the run ended before the scenario did (export_replay.py:46-57).
ZonesAsLived ==
    \A s \in scenario : \A l \in DOMAIN links : \A k \in DOMAIN inforce :
        LET zones == Zones(s, l)
            here == {z \in DOMAIN zones : zones[z].from <= k - 1 /\ k - 1 < zones[z].to}
        IN  \E z \in here : here = {z} /\ zones[z].profile = inforce[k][l]

\* What is said of a finished run, from its log and its scenario, is what happened in it.
SaidAsLived == over => MeasuredRight /\ BlackoutCounted /\ ZonesAsLived
=============================================================================
