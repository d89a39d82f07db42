------------------------------- MODULE Warnings -------------------------------
(***************************************************************************)
(* The dropout predictor (client/handover_predictor.py) run by             *)
(* experiments/warning_sweep.py over one trace: every tick the trace has a *)
(* true level and the reading last reported, the predictor is updated with *)
(* the reading, and evaluate counts how early it warned of each outage and *)
(* how often it warned of none.                                            *)
(*                                                                         *)
(* Levels are whole dB above the usable threshold and times whole ticks.   *)
(* The fit is exact: fractions are compared multiplied out.                *)
(***************************************************************************)
EXTENDS Integers, Sequences, SequencesExt, FiniteSetsExt

CONSTANTS
    Base,                   \* the trace's typical level
    Shadows, Noises,        \* what shadowing and a reading may add
    Starts, Fades, Bottoms, \* when a fade starts, its duration, a near miss's lowest point
    ReportEvery,            \* the modem reports a new reading this often
    TraceLen,               \* bounds of the model: ticks of a trace,
    MaxShifts, MaxNoisy,    \* changes of the shadowing, noisy readings
    Window, LevelWindow, MinSamples, Horizon, MinSlope, Margin,  \* PredictorConfig
    NewOutageAfter          \* a crossing sooner after the last outage is a flicker of it

Traces == [kind : {"outage"}, start : Starts, fade : Fades, bottom : {0}]
            \union [kind : {"near_miss"}, start : Starts, fade : Fades, bottom : Bottoms]
            \union [kind : {"nothing"}, start : {0}, fade : {1}, bottom : {0}]

NoWarning == -1

VARIABLES
    trace, shadow, held, shifts, noisy,  \* make_trace: the trace's kind and its random values
    t,                      \* ticks so far
    samples, active,        \* the predictor: its window, and whether a hint is raised
    warn_start, had_outage, up_since, down, leads, false_alarms,  \* evaluate
    log                     \* history: the level, the reading and the verdict of every tick

vars == <<trace, shadow, held, shifts, noisy, t, samples, active, warn_start, had_outage,
          up_since, down, leads, false_alarms, log>>

\* The noise-free level at tick i: down to the threshold and then gone, or down and back up.
Clean(tr, shadowing, i) ==
    LET level == Base + shadowing
        x == i - tr.start
        depth == Min({0, tr.bottom - Base})
    IN  CASE tr.kind = "outage" /\ x >= tr.fade -> -30
          [] tr.kind = "outage" /\ x \in 0..(tr.fade - 1) -> level + (x * (-2 - Base)) \div tr.fade
          [] tr.kind = "near_miss" /\ x >= 0 ->
               level + (depth * (IF x <= tr.fade THEN x ELSE Max({0, 2 * tr.fade - x}))) \div tr.fade
          [] OTHER -> level

-----------------------------------------------------------------------------
SumUp(f) ==
    LET sum[n \in 0..Len(f)] == IF n = 0 THEN 0 ELSE sum[n - 1] + f[n] IN sum[Len(f)]

SumOfReadings(s) == SumUp([i \in DOMAIN s |-> s[i].dbm])

\* _fit: the sums of squares and products about the mean, each multiplied by n.
Fit(s) ==
    LET n == Len(s)
        st == SumUp([i \in DOMAIN s |-> s[i].t])
        sy == SumOfReadings(s)
    IN  [xx |-> n * SumUp([i \in DOMAIN s |-> s[i].t * s[i].t]) - st * st,
         xy |-> n * SumUp([i \in DOMAIN s |-> s[i].t * s[i].dbm]) - st * sy,
         yy |-> n * SumUp([i \in DOMAIN s |-> s[i].dbm * s[i].dbm]) - sy * sy]

\* The samples of the last ticks: they are in the order of time.
Latest(s, now, ticks) == SubSeq(s, Min({i \in DOMAIN s : now - s[i].t <= ticks}), Len(s))

Recent(s, now) == Latest(s, now, LevelWindow)

\* Mutant: the lag is corrected on the way up too.
LevelBothWays(s, now, fit) ==
    LET recent == Recent(s, now) IN
        [num |-> 2 * SumOfReadings(recent) * fit.xx + Len(recent) * LevelWindow * fit.xy,
         den |-> 2 * Len(recent) * fit.xx]

\* The mean of the recent readings, less half a window of the slope on the way down: num / den.
Level(s, now, fit) ==
    LET recent == Recent(s, now) IN
        [num |-> 2 * SumOfReadings(recent) * fit.xx
                   + Len(recent) * LevelWindow * Min({0, fit.xy}),
         den |-> 2 * Len(recent) * fit.xx]

\* Whether a hint is raised after the window s ends at now; was: whether one was before.
Raised(s, now, was) ==
    LET fit == Fit(s)
        level == Level(s, now, fit)
        cleared == level.num > Margin * level.den /\ fit.xy >= 0
        fading == fit.xy <= MinSlope * fit.xx /\ 2 * fit.xy * fit.xy >= fit.xx * fit.yy
        \* (threshold - level) / slope <= horizon, for a falling slope
        soon == -level.num >= Horizon * 2 * Len(Recent(s, now)) * fit.xy
    IN  \/ level.num <= 0
        \/ fading /\ soon
        \/ was /\ ~cleared

InWindow(now, reading) == Latest(Append(samples, [t |-> now, dbm |-> reading]), now, Window)

\* Mutant: a new warning keeps the last one's outage.
EvaluateStale(clean, on) ==
    LET begins == on /\ warn_start = NoWarning
        ends == ~on /\ warn_start # NoWarning
        crosses == ~down /\ clean < 0
        back == down /\ clean >= 0
        start == IF begins THEN t ELSE IF ends THEN NoWarning ELSE warn_start
    IN  /\ warn_start' = start
        /\ false_alarms' = false_alarms + (IF ends /\ ~had_outage THEN 1 ELSE 0)
        /\ had_outage' = (crosses \/ had_outage)
        /\ down' = ((down \/ crosses) /\ ~back)
        /\ up_since' = IF back THEN t ELSE up_since
        /\ leads' = IF crosses /\ t - up_since >= NewOutageAfter
                    THEN Append(leads, IF start = NoWarning THEN 0 ELSE t - start) ELSE leads

\* One pass of the loop of evaluate.
Evaluate(clean, on) ==
    LET begins == on /\ warn_start = NoWarning
        ends == ~on /\ warn_start # NoWarning
        crosses == ~down /\ clean < 0
        back == down /\ clean >= 0
        start == IF begins THEN t ELSE IF ends THEN NoWarning ELSE warn_start
    IN  /\ warn_start' = start
        /\ false_alarms' = false_alarms + (IF ends /\ ~had_outage THEN 1 ELSE 0)
        /\ had_outage' = (crosses \/ (had_outage /\ ~begins))
        /\ down' = ((down \/ crosses) /\ ~back)
        /\ up_since' = IF back THEN t ELSE up_since
        /\ leads' = IF crosses /\ t - up_since >= NewOutageAfter
                    THEN Append(leads, IF start = NoWarning THEN 0 ELSE t - start) ELSE leads

Tick(shadowing, noise) ==
    LET clean == Clean(trace, shadowing, t)
        report == t % ReportEvery = 0
        reading == IF report THEN clean + noise ELSE held
        window == InWindow(t, reading)
        on == IF Len(window) < MinSamples THEN active ELSE Raised(window, t, active)
    IN  /\ t < TraceLen
        /\ shifts + (IF shadowing # shadow THEN 1 ELSE 0) <= MaxShifts
        /\ noisy + (IF noise # 0 THEN 1 ELSE 0) <= MaxNoisy
        /\ noise # 0 => report
        /\ shadow' = shadowing /\ held' = reading
        /\ shifts' = shifts + (IF shadowing # shadow THEN 1 ELSE 0)
        /\ noisy' = noisy + (IF noise # 0 THEN 1 ELSE 0)
        /\ samples' = window /\ active' = on
        /\ Evaluate(clean, on)
        /\ log' = Append(log, [clean |-> clean, dbm |-> reading, on |-> on])
        /\ t' = t + 1
        /\ UNCHANGED trace

Init ==
    /\ trace \in Traces /\ shadow \in Shadows
    /\ held = 0 /\ shifts = 0 /\ noisy = 0 /\ t = 0
    /\ samples = <<>> /\ active = FALSE
    /\ warn_start = NoWarning /\ had_outage = FALSE /\ up_since = 0 /\ down = FALSE
    /\ leads = <<>> /\ false_alarms = 0 /\ log = <<>>

Next == \E shadowing \in Shadows : \E noise \in Noises : Tick(shadowing, noise)

Spec == Init /\ [][Next]_vars
-----------------------------------------------------------------------------
(* What the figures mean, said of the whole trace: position i of log is tick i - 1. *)

Down(i) == log[i].clean < 0
Crossings == {i \in DOMAIN log : Down(i) /\ (i = 1 \/ ~Down(i - 1))}
Returns == {i \in DOMAIN log : i > 1 /\ ~Down(i) /\ Down(i - 1)}

\* The last tick before i with the link back up; a trace begins with it up.
UpSince(i) == Max({1} \union {j \in Returns : j < i})
Outages == {i \in Crossings : i - UpSince(i) >= NewOutageAfter}

\* A warning, from its first tick to its last.
Warnings ==
    {w \in (DOMAIN log) \X (DOMAIN log) :
        /\ w[1] <= w[2] /\ \A i \in w[1]..w[2] : log[i].on
        /\ w[1] = 1 \/ ~log[w[1] - 1].on
        /\ w[2] = Len(log) \/ ~log[w[2] + 1].on}
Ended(w) == w[2] < Len(log)
OutageIn(w) == \E i \in w[1]..w[2] : Down(i)
BegunInOutage(w) == w[1] \notin Crossings /\ Down(w[1])

Begins(i) == log[i].on /\ (i = 1 \/ ~log[i - 1].on)

\* The time since the warning that is on began.
Lead(i) == IF log[i].on THEN i - Max({j \in 1..i : Begins(j)}) ELSE 0

\* Every outage is counted once with the time since the warning that was on at its start, and
\* every warning that ended without the link down in it is a false alarm (warning_sweep.py:15-18).
\* So is one that came too late, when the link was already down, and saw no other outage begin:
\* had_outage is set by the crossing only (line 114).
AlarmsCounted ==
    t = TraceLen =>
    LET late == {w \in Warnings : BegunInOutage(w) /\ w[1]..w[2] \intersect Crossings = {}} IN
        /\ Len(leads) = Cardinality(Outages)
        /\ \A i \in Outages : leads[Cardinality({j \in Outages : j <= i})] = Lead(i)
        /\ false_alarms = Cardinality({w \in Warnings : Ended(w) /\ ~OutageIn(w)})
                            + Cardinality({w \in late : Ended(w)})

Lately(i) == Max({1, i - LevelWindow})..i

\* A hint is on whenever the recent readings are all unusable, and is never cleared before one
\* of them is above the margin: a fade's steep way back cannot clear it early
\* (handover_predictor.py:53-58).
HeldWhileLow ==
    t = TraceLen =>
    \A i \in MinSamples..Len(log) :
        /\ (\A j \in Lately(i) : log[j].dbm <= 0) => log[i].on
        /\ (log[i - 1].on /\ \A j \in Lately(i) : log[j].dbm <= Margin) => log[i].on

\* A steady fade that is read as it is, and long enough to be fitted, is warned of before the
\* link drops.
FadeForeseen ==
    (trace.kind = "outage" /\ shifts = 0 /\ noisy = 0 /\ trace.fade >= MinSamples + ReportEvery
       /\ leads # <<>>) => leads[1] > 0

WarnsInTime == HeldWhileLow /\ FadeForeseen
=============================================================================
