----------------------------- MODULE MCPrograms -----------------------------
(***************************************************************************)
(* The programs that stand alone, checked side by side: part says which of *)
(* them a behaviour is of, and the others stay as they begin.  Each is the *)
(* instance of its module, with small constants and variables of its own.  *)
(*                                                                         *)
(* The walk of the prefetch policy has three pages of one to three units,  *)
(* a normal budget of four and a warned one of five (plus one per second   *)
(* of outage, seven at most), and a metered link, which halves them.  The  *)
(* server's own plans have the smaller budgets given where it is           *)
(* instantiated.  The batch, the warm-up and the snapshot, about which     *)
(* there are theorems, have their parameters as CONSTANTS.                 *)
(***************************************************************************)
EXTENDS PolicyLoop, SequencesExt, FiniteSetsExt, TLC

CONSTANTS
    NRuns, BatchFaults,                     \* of Batch
    Reading,                                \* of WarmUp: the sessions, and see there
    LinksOf, SnapshotPages, Standin, Likely, HistoryLen, Concurrency, WarmUpFaults,
    Seeds, Targets, Clicked,                \* of Snapshot: the pages, and see there
    NSessions, MaxPages, Tries, FetchFaults,
    LinkUrls, Fate, SameOriginOnly, MaxNodes, MaxCandidates, MaxOptions,  \* of Links
    Scenarios, Dwell, Duration, AfterRecovery, Sources, \* of ClientRun
    Base, Shadows, Noises, Starts, Fades, Bottoms,      \* of Warnings: the traces,
    ReportEvery, TraceLen, MaxShifts, MaxNoisy,
    Window, LevelWindow, MinSamples, Horizon, MinSlope, Margin, NewOutageAfter  \* the predictor

\* What is read is in the snapshot, and what is clicked on a page of the site is on the site.
ASSUME ProgramsAssumption ==
    /\ NRuns \in Nat
    /\ Reading \in Seq(Seq(SnapshotPages))
    /\ Seeds \union Targets \subseteq DOMAIN Clicked
    /\ \A p \in DOMAIN Clicked : Clicked[p] \subseteq DOMAIN Clicked

\* An anchor to nowhere has no url.
ASSUME LinksAssumption ==
    /\ Fate \in [LinkUrls -> {"link", "foreign", "unfit", "self"}] /\ "nowhere" \notin LinkUrls
    /\ SameOriginOnly \in BOOLEAN /\ {MaxNodes, MaxCandidates, MaxOptions} \subseteq Nat

\* A scenario's events are about its links, in the order of their times, and it begins with a link
\* up; no source of a page is called as a page that never came.
ASSUME RunAssumption ==
    /\ \A s \in Scenarios :
         /\ s.initial \in [DOMAIN s.initial -> STRING]
         /\ \E l \in DOMAIN s.initial : s.initial[l] # "dead"
         /\ s.events \in Seq([t : Nat, iface : DOMAIN s.initial, profile : STRING])
         /\ \A j, k \in DOMAIN s.events : j <= k => s.events[j].t <= s.events[k].t
    /\ Dwell \in Seq(Nat) /\ Duration \in Nat /\ AfterRecovery \in Nat \ {0}
    /\ "pending" \notin Sources

\* Fades take time, and the window has room for the samples a fit needs.
ASSUME WarningsAssumption ==
    /\ {Base, MinSlope, Margin} \subseteq Int /\ Shadows \union Noises \union Bottoms \subseteq Int
    /\ Starts \subseteq Nat /\ Fades \subseteq Nat \ {0} /\ ReportEvery \in Nat \ {0}
    /\ {TraceLen, MaxShifts, MaxNoisy, Window, LevelWindow, Horizon, NewOutageAfter} \subseteq Nat
    /\ MinSamples \in 2..(Window + 1)

MCUrls == {"a", "b", "c"}
MCProbabilities == {10, 30, 60}
MCKnownSizes == {1, 3}
MCOutlooks == {NoOutlook,
               [imminent |-> TRUE, outage |-> 0, metered |-> FALSE],
               [imminent |-> TRUE, outage |-> 3, metered |-> TRUE]}

\* The server's prefetch task has the small site of MCServerPrefetch.
MCAnswers ==
    LET likely(u, v) == u :> 40 @@ v :> 5
    IN  "a" :> {likely("b", "d")} @@ "b" :> {likely("c", "a")} @@ "c" :> {}
          @@ "d" :> {likely("c", "b")}
MCHints ==
    {[active |-> TRUE, outage |-> 20, eta |-> 2, metered |-> {}],
     [active |-> TRUE, outage |-> 20, eta |-> 0, metered |-> {}],
     [active |-> TRUE, outage |-> 1, eta |-> -1, metered |-> {TRUE}],
     [active |-> FALSE, outage |-> 0, eta |-> 0, metered |-> {}]}

\* One link dies and comes back with nothing else up; one dies for good with another one up.
MCDwell == <<1, 0, 2>>
MCScenarios ==
    {[initial |-> ("wifi0" :> "good" @@ "cell0" :> "dead"),
      events |-> <<[t |-> 1, iface |-> "wifi0", profile |-> "dead"],
                   [t |-> 4, iface |-> "wifi0", profile |-> "good"]>>],
     [initial |-> ("wifi0" :> "good" @@ "cell0" :> "good"),
      events |-> <<[t |-> 2, iface |-> "wifi0", profile |-> "dead"]>>]}

\* x is an article outside the snapshot; the origin serves it with the text of b.
MCReading == <<<<"a", "b", "c", "a">>, <<"a", "b">>>>
MCSnapshotPages == {"a", "b", "c"}
MCStandin == "x" :> "b"
MCLinksOf == "a" :> {"b", "x"} @@ "b" :> {"a", "c"} @@ "c" :> {"a"}
MCLikely == "a" :> {{"b"}, {"x"}} @@ "b" :> {{"c"}} @@ "c" :> {{}}

MCClicked == "a" :> {"b", "c"} @@ "b" :> {"a", "d"} @@ "c" :> {"d"} @@ "d" :> {}

MCFate == "a" :> "link" @@ "b" :> "link" @@ "c" :> "link" @@ "x" :> "foreign"

\* Jev's answers; x and y are articles outside the snapshot, d has no links.
MCOffered ==
    LET option(u, p) == [url |-> u, p |-> p]
    IN  "a" :> <<option("x", 20), option("b", 50), option("c", 20)>>
          @@ "b" :> <<option("c", 60), option("x", 20)>>
          @@ "c" :> <<option("y", 10), option("x", 60), option("b", 20), option("a", 5)>>
          @@ "d" :> <<>>
MCFrameSize == "a" :> 1 @@ "b" :> 1 @@ "c" :> 9 @@ "d" :> 4
MCShadows == {0, -9}
MCNoises == {-5, 0, 5}
MCMinSlope == -1

MCRules ==
    LET cutoff(p) == [kind |-> "threshold", value |-> p]
        top(k) == [kind |-> "top", value |-> k]
    IN  <<cutoff(60), cutoff(50), cutoff(20), top(1), top(3)>>

VARIABLES
    part,
    p_current, p_sent, p_outlook, p_offlineFrom, p_task, p_pushUnacked, p_otherUnacked, p_now,
    p_events, p_pushed, p_burst, p_ahead,
    b_stage, b_run, b_attempt, b_meta, b_files, b_clients, b_silent, b_faults,
    r_scenario, r_now, r_applied, r_links, r_reader, r_log, r_over, r_waited, r_shown, r_blackout,
    r_inforce,
    w_phase, w_tasks, w_files, w_spoiled, w_warm, w_titles, w_missed, w_faults,
    s_program, s_files, s_todo, s_failed, s_manifest, s_drawn, s_step, s_written, s_faults,
    l_page, l_rest, l_raw, l_links, l_shown,
    a_trace, a_shadow, a_held, a_shifts, a_noisy, a_t, a_samples, a_active, a_warn_start,
    a_had_outage, a_up_since, a_down, a_leads, a_false_alarms, a_log,
    v_cached, v_session, v_answers, v_missing, v_views, v_rule, v_rows, v_sizes, v_reports

ServerPrefetch == INSTANCE ServerPrefetch WITH
    Pages <- {"a", "b", "c", "d"}, NoPage <- "none", Answers <- MCAnswers, FrameSizes <- {1, 3},
    ReplySizes <- {1}, Hints <- MCHints, BacklogLimit <- 2, Margin <- 1, MaxTime <- 1,
    MaxEvents <- 2, MaxOther <- 1, Adaptive <- TRUE, Threshold <- 25, Budget <- 3,
    HandoverThreshold <- 3, HandoverBudget <- 4, HandoverBudgetPerOutage <- 1, MaxBudget <- 5,
    MeteredPercent <- 25, DefaultSize <- 2, TopK <- 1, MinOutage <- 20, current <- p_current,
    sent <- p_sent, outlook <- p_outlook, offlineFrom <- p_offlineFrom, task <- p_task,
    pushUnacked <- p_pushUnacked, otherUnacked <- p_otherUnacked, now <- p_now,
    events <- p_events, pushed <- p_pushed, burst <- p_burst,
    ahead <- p_ahead

Batch == INSTANCE Batch WITH
    MaxFaults <- BatchFaults, stage <- b_stage, run <- b_run, attempt <- b_attempt,
    meta <- b_meta, files <- b_files, clients <- b_clients, silent <- b_silent,
    faults <- b_faults

ClientRun == INSTANCE ClientRun WITH
    scenario <- r_scenario, now <- r_now, applied <- r_applied, links <- r_links, reader <- r_reader, log <- r_log, over <- r_over, waited <- r_waited,
    shown <- r_shown, blackout <- r_blackout, inforce <- r_inforce

WarmUp == INSTANCE WarmUp WITH
    Sessions <- Reading, Links <- LinksOf, Pages <- SnapshotPages, MaxFaults <- WarmUpFaults,
    phase <- w_phase, tasks <- w_tasks, files <- w_files, spoiled <- w_spoiled, warm <- w_warm,
    titles <- w_titles, missed <- w_missed, faults <- w_faults

Snapshot == INSTANCE Snapshot WITH
    Sessions <- NSessions, MaxFaults <- FetchFaults, program <- s_program, files <- s_files,
    todo <- s_todo, failed <- s_failed, manifest <- s_manifest, drawn <- s_drawn,
    step <- s_step, written <- s_written, faults <- s_faults

Links == INSTANCE Links WITH
    Urls <- LinkUrls, page <- l_page, rest <- l_rest, raw <- l_raw, links <- l_links,
    shown <- l_shown

Warnings == INSTANCE Warnings WITH
    trace <- a_trace, shadow <- a_shadow, held <- a_held,
    shifts <- a_shifts, noisy <- a_noisy, t <- a_t, samples <- a_samples, active <- a_active,
    warn_start <- a_warn_start, had_outage <- a_had_outage, up_since <- a_up_since,
    down <- a_down, leads <- a_leads, false_alarms <- a_false_alarms, log <- a_log

CutoffSweep == INSTANCE CutoffSweep WITH
    Sessions <- <<<<"a", "b", "c", "a">>, <<"d", "b", "c">>>>, Offered <- MCOffered,
    FrameSize <- MCFrameSize, Typical <- 2, Rules <- MCRules, HistoryLen <- 2,
    cached <- v_cached, session <- v_session, answers <- v_answers, missing <- v_missing,
    views <- v_views, rule <- v_rule, rows <- v_rows, sizes <- v_sizes, reports <- v_reports

ServerPrefetchVars ==
    <<p_current, p_sent, p_outlook, p_offlineFrom, p_task, p_pushUnacked, p_otherUnacked, p_now,
      p_events, p_pushed, p_burst, p_ahead>>
BatchVars ==
    <<b_stage, b_run, b_attempt, b_meta, b_files, b_clients, b_silent, b_faults>>
ClientRunVars ==
    <<r_scenario, r_now, r_applied, r_links, r_reader, r_log, r_over, r_waited, r_shown,
      r_blackout, r_inforce>>
WarmUpVars ==
    <<w_phase, w_tasks, w_files, w_spoiled, w_warm, w_titles, w_missed, w_faults>>
SnapshotVars ==
    <<s_program, s_files, s_todo, s_failed, s_manifest, s_drawn, s_step, s_written, s_faults>>
LinksVars ==
    <<l_page, l_rest, l_raw, l_links, l_shown>>
WarningsVars ==
    <<a_trace, a_shadow, a_held, a_shifts, a_noisy, a_t, a_samples, a_active, a_warn_start,
      a_had_outage, a_up_since, a_down, a_leads, a_false_alarms, a_log>>
CutoffSweepVars ==
    <<v_cached, v_session, v_answers, v_missing, v_views, v_rule, v_rows, v_sizes, v_reports>>

Parts ==
    {"policy", "prefetch", "batch", "client_run", "warm_up", "snapshot", "links", "warnings",
     "sweep"}

Others(own) ==
    /\ IF own = "policy" THEN TRUE ELSE UNCHANGED vars
    /\ IF own = "prefetch" THEN TRUE ELSE UNCHANGED ServerPrefetchVars
    /\ IF own = "batch" THEN TRUE ELSE UNCHANGED BatchVars
    /\ IF own = "client_run" THEN TRUE ELSE UNCHANGED ClientRunVars
    /\ IF own = "warm_up" THEN TRUE ELSE UNCHANGED WarmUpVars
    /\ IF own = "snapshot" THEN TRUE ELSE UNCHANGED SnapshotVars
    /\ IF own = "links" THEN TRUE ELSE UNCHANGED LinksVars
    /\ IF own = "warnings" THEN TRUE ELSE UNCHANGED WarningsVars
    /\ IF own = "sweep" THEN TRUE ELSE UNCHANGED CutoffSweepVars
    /\ UNCHANGED part

AllVars ==
    <<part, vars, ServerPrefetchVars, BatchVars, ClientRunVars, WarmUpVars, SnapshotVars,
      LinksVars, WarningsVars, CutoffSweepVars>>

PolicyStep == part = "policy" /\ Next /\ Others("policy")
ServerPrefetchStep == part = "prefetch" /\ ServerPrefetch!Next /\ Others("prefetch")
BatchStep == part = "batch" /\ Batch!Next /\ Others("batch")
ClientRunStep == part = "client_run" /\ ClientRun!Next /\ Others("client_run")
WarmUpStep == part = "warm_up" /\ WarmUp!Next /\ Others("warm_up")
SnapshotStep == part = "snapshot" /\ Snapshot!Next /\ Others("snapshot")
LinksStep == part = "links" /\ Links!Next /\ Others("links")
WarningsStep == part = "warnings" /\ Warnings!Next /\ Others("warnings")
CutoffSweepStep == part = "sweep" /\ CutoffSweep!Next /\ Others("sweep")

\* A program that is not the part has no work to do: any one of its initial states will do.
ProgramsInit ==
    /\ part \in Parts
    /\ IF part = "policy" THEN Init ELSE
         /\ probs = <<>> /\ sizes = <<>> /\ cached = {} /\ outlook = NoOutlook
         /\ left = {} /\ chosen = <<>> /\ planned = 0 /\ done = FALSE
    /\ IF part = "links" THEN Links!Init ELSE
         l_page = <<>> /\ l_rest = <<>> /\ l_raw = <<>> /\ l_links = {} /\ l_shown = {}
    /\ ServerPrefetch!Init /\ Batch!Init /\ ClientRun!Init /\ WarmUp!Init /\ Snapshot!Init
    /\ IF part = "warnings" THEN Warnings!Init ELSE
         /\ a_trace = [kind |-> "nothing", start |-> 0, fade |-> 1, bottom |-> 0]
         /\ a_shadow = 0 /\ a_held = 0 /\ a_shifts = 0 /\ a_noisy = 0 /\ a_t = 0
         /\ a_samples = <<>> /\ a_active = FALSE
         /\ a_warn_start = Warnings!NoWarning /\ a_had_outage = FALSE /\ a_up_since = 0
         /\ a_down = FALSE /\ a_leads = <<>> /\ a_false_alarms = 0 /\ a_log = <<>>
    /\ IF part = "sweep" THEN CutoffSweep!Init ELSE
         /\ v_cached = {} /\ v_session = 1 /\ v_answers = <<>> /\ v_missing = 0 /\ v_views = <<>>
         /\ v_rule = 1 /\ v_rows = <<>> /\ v_sizes = {} /\ v_reports = <<>>

ProgramsNext ==
    \/ PolicyStep \/ ServerPrefetchStep \/ LinksStep \/ BatchStep \/ ClientRunStep
    \/ WarmUpStep \/ SnapshotStep \/ WarningsStep \/ CutoffSweepStep

\* The event loop runs the prefetch task; somebody starts the batch and the warm-up again until
\* they are through.
ProgramsSpec ==
    /\ ProgramsInit /\ [][ProgramsNext]_AllVars
    /\ WF_ServerPrefetchVars(part = "prefetch" /\ ServerPrefetch!PlanStep)
    /\ WF_BatchVars(part = "batch" /\ Batch!Start)
    /\ WF_BatchVars(part = "batch" /\ Batch!Work)
    /\ WF_WarmUpVars(part = "warm_up" /\ WarmUp!Start)
    /\ WF_WarmUpVars(part = "warm_up" /\ WarmUp!Work)
-----------------------------------------------------------------------------
\* Batch: the row of a run comes from its last attempt and all of it.
WholeLogs == part = "batch" => Batch!WholeLogs

\* ClientRun: the figures and zones of a run are what happened in it.
SaidAsLived == part = "client_run" => ClientRun!SaidAsLived

\* WarmUp: the warmed cache has every answer the server asks for.
AnswersWarm == part = "warm_up" => WarmUp!AnswersWarm

\* Snapshot: sessions follow clicked links, over pages that were fetched.
SessionsInSnapshot == part = "snapshot" => Snapshot!SessionsInSnapshot

\* Links: a predictor is asked about the right links, content before page chrome.
OffersContentFirst == part = "links" => Links!OffersContentFirst

\* Warnings: outages, warning times and false alarms are counted as defined.
AlarmsCounted == part = "warnings" => Warnings!AlarmsCounted

\* Warnings: a hint stays on while the signal is low, and a steady fade is foreseen.
WarnsInTime == part = "warnings" => Warnings!WarnsInTime

\* CutoffSweep: views pair answers with the clicks that followed, and the figures fit together.
SweepSound == part = "sweep" => CutoffSweep!SweepSound

\* ServerPrefetch: a plan ends once the client acknowledges.
PlansEnd == part = "prefetch" => ServerPrefetch!PlansEnd

\* ServerPrefetch: a plan held up by a dead link ends when the dropout is due.
WaitEndsWhenDue == part = "prefetch" => ServerPrefetch!WaitEndsWhenDue

\* Batch: an interrupted batch is complete in the end, or stuck in a known way.
Completes == part = "batch" => Batch!Completes

\* WarmUp: the warm-up comes to its end, unless a spoiled file is in its way.
WarmsUpUnlessSpoiled == part = "warm_up" => WarmUp!WarmsUpUnlessSpoiled
=============================================================================
