-------------------------------- MODULE Batch --------------------------------
(***************************************************************************)
(* experiments/runner.py: a batch of runs, one after the other, each an    *)
(* origin, a server and a client in fresh namespaces; the logs they append *)
(* to; meta.json, which makes a finished run skipped by the next batch;    *)
(* and which runs experiments/analyze.py then counts.                      *)
(*                                                                         *)
(* A client that outlives its run's time is not stopped (run_one's finally *)
(* stops the server and the origin): it goes on writing to its log, the    *)
(* file it opened, while later attempts at the run unlink and reopen it.   *)
(* An interruption (Ctrl-C, a closed terminal, the machine going down)     *)
(* ends the runner and everything it started.  A client opens its log      *)
(* first thing, so that one still to do so after the run's time and a      *)
(* minute is left out.                                                     *)
(***************************************************************************)
EXTENDS Integers, FiniteSets

CONSTANTS
    NRuns,              \* config x scenario x session: a number, not 0
    MaxFaults           \* interruptions, processes that fail or hang

VARIABLES
    stage,              \* where main and run_one are
    run,                \* the run main has come to
    attempt,            \* run_one calls so far, over every batch
    meta,               \* meta.json of each run
    files,              \* the attempts in each run's logs: begun, and with a run_end
    clients,            \* client processes alive
    silent,             \* the awaited process neither prints nor ends
    faults

vars == <<stage, run, attempt, meta, files, clients, silent, faults>>

Runs == 1..NRuns
NoMeta == [is |-> "none", of |-> 0]
NoFile == [begun |-> {}, ended |-> {}]

Fault == faults < MaxFaults /\ faults' = faults + 1

\* run_metrics gives the run a row: done, a client log, a run_end in it.
Row(r) == meta[r].is = "done" /\ files[r].ended # {}

Start ==
    /\ stage = "off" /\ \E r \in Runs : meta[r].is # "done"
    /\ stage' = "main" /\ run' = 1
    /\ UNCHANGED <<attempt, meta, files, clients, silent, faults>>

\* Mutant: a run that left a meta.json is not tried again.
SkipTried ==
    /\ stage = "main" /\ run <= NRuns /\ meta[run].is \in {"done", "error"}
    /\ run' = run + 1
    /\ UNCHANGED <<stage, attempt, meta, files, clients, silent, faults>>

Skip ==
    /\ stage = "main" /\ run <= NRuns /\ meta[run].is = "done"
    /\ run' = run + 1
    /\ UNCHANGED <<stage, attempt, meta, files, clients, silent, faults>>

\* json.loads raises something main does not catch; its finally runs, and the batch ends.
Unreadable ==
    /\ stage = "main" /\ run <= NRuns /\ meta[run].is = "torn"
    /\ stage' = "off"
    /\ UNCHANGED <<run, attempt, meta, files, clients, silent, faults>>

End ==
    /\ stage = "main" /\ run > NRuns
    /\ stage' = "off"
    /\ UNCHANGED <<run, attempt, meta, files, clients, silent, faults>>

\* Mutant: run_one appends to what an earlier attempt left.
BeginOnTop ==
    /\ stage = "main" /\ run <= NRuns /\ meta[run].is \in {"none", "error"}
    /\ attempt' = attempt + 1
    /\ \/ stage' = "origin" /\ UNCHANGED faults
       \/ stage' = "failed" /\ Fault
    /\ UNCHANGED <<run, meta, files, clients, silent>>

\* The logs of an earlier attempt go, whoever still writes to them; then `netns up`, which may fail.
Begin ==
    /\ stage = "main" /\ run <= NRuns /\ meta[run].is \in {"none", "error"}
    /\ attempt' = attempt + 1
    /\ files' = [files EXCEPT ![run] = NoFile]
    /\ clients' = {[c EXCEPT !.linked = @ /\ c.run # run] : c \in clients}
    /\ \/ stage' = "origin" /\ UNCHANGED faults
       \/ stage' = "failed" /\ Fault
    /\ UNCHANGED <<run, meta, silent>>

\* _wait_for_line: the process printed its line; or it ended without; or it does neither, and
\* the deadline is never looked at, for readline does not return.
OriginUp ==
    /\ stage = "origin" /\ ~silent
    /\ \/ stage' = "server" /\ UNCHANGED <<silent, faults>>
       \/ stage' = "failed" /\ Fault /\ UNCHANGED silent
       \/ silent' = TRUE /\ Fault /\ UNCHANGED stage
    /\ UNCHANGED <<run, attempt, meta, files, clients>>

\* The server has opened its log by then, and the client is started.
ServerUp ==
    /\ stage = "server" /\ ~silent
    /\ \/ /\ stage' = "client"
          /\ clients' = clients \union
                 {[of |-> attempt, run |-> run, state |-> "new", linked |-> TRUE]}
          /\ UNCHANGED <<silent, faults>>
       \/ stage' = "failed" /\ Fault /\ UNCHANGED <<clients, silent>>
       \/ silent' = TRUE /\ Fault /\ UNCHANGED <<stage, clients>>
    /\ files' = [files EXCEPT ![run].begun = @ \union {attempt}]
    /\ UNCHANGED <<run, attempt, meta>>

Became(c, state) == clients' = (clients \ {c}) \union {[c EXCEPT !.state = state]}

\* EventLog opens for appending: the file at the path, or a new one.
ClientOpensLog ==
    /\ \E c \in clients : c.state = "new" /\ Became(c, "logging")
    /\ files' = [files EXCEPT ![run].begun = @ \union {attempt}]
    /\ UNCHANGED <<stage, run, attempt, meta, silent, faults>>

\* run_end, and exit code 0.
ClientEnds(c) ==
    /\ c.state = "logging" /\ Became(c, "ended")
    /\ files' = IF c.linked THEN [files EXCEPT ![c.run].ended = @ \union {c.of}] ELSE files
    /\ UNCHANGED <<stage, run, attempt, meta, silent, faults>>

ClientFails ==
    /\ \E c \in clients : c.state \in {"new", "logging"} /\ Became(c, "crashed")
    /\ Fault
    /\ UNCHANGED <<stage, run, attempt, meta, files, silent>>

Own(c) == c.of = attempt

\* client.wait returns; an exit code other than 0 is raised as an error.
ClientWaited ==
    /\ stage = "client"
    /\ \E c \in clients :
         /\ Own(c) /\ c.state \in {"ended", "crashed"}
         /\ stage' = IF c.state = "ended" THEN "done" ELSE "failed"
         /\ clients' = clients \ {c}
    /\ UNCHANGED <<run, attempt, meta, files, silent, faults>>

ClientTimesOut ==
    /\ stage = "client" /\ \E c \in clients : Own(c) /\ c.state = "logging"
    /\ stage' = "failed" /\ Fault
    /\ UNCHANGED <<run, attempt, meta, files, clients, silent>>

WriteMeta ==
    /\ stage \in {"done", "failed"}
    /\ meta' = [meta EXCEPT ![run] =
           [is |-> IF stage = "done" THEN "done" ELSE "error", of |-> attempt]]
    /\ stage' = "main" /\ run' = run + 1
    /\ UNCHANGED <<attempt, files, clients, silent, faults>>

\* Between write_text's open, which empties the file, and its write, meta.json is no JSON.
Interrupted ==
    /\ stage # "off" /\ Fault
    /\ stage' = "off" /\ clients' = {} /\ silent' = FALSE
    /\ \/ UNCHANGED meta
       \/ /\ stage \in {"done", "failed"}
          /\ meta' = [meta EXCEPT ![run] = [is |-> "torn", of |-> attempt]]
    /\ UNCHANGED <<run, attempt, files>>

Init ==
    /\ stage = "off" /\ run = 1 /\ attempt = 0
    /\ meta = [r \in Runs |-> NoMeta]
    /\ files = [r \in Runs |-> NoFile]
    /\ clients = {} /\ silent = FALSE /\ faults = 0

\* What goes on by itself; an attempt's own client comes to its end unless it times out.
Work ==
    \/ Skip \/ Unreadable \/ End \/ Begin \/ OriginUp \/ ServerUp \/ ClientOpensLog
    \/ \E c \in clients : Own(c) /\ stage = "client" /\ ClientEnds(c)
    \/ ClientWaited \/ WriteMeta

Next ==
    \/ Start \/ Skip \/ Unreadable \/ End \/ Begin \/ OriginUp \/ ServerUp \/ ClientOpensLog
    \/ (\E c \in clients : ClientEnds(c))
    \/ ClientFails \/ ClientWaited \/ ClientTimesOut \/ WriteMeta \/ Interrupted

\* Somebody starts the batch again until it is complete.
FairSpec == Init /\ [][Next]_vars /\ WF_vars(Start) /\ WF_vars(Work)
-----------------------------------------------------------------------------
\* The row of a run comes from one attempt and all of it, the one its meta.json is about, and
\* every run marked done has its row (runner.py:96, analyze.py:65-69).
WholeLogs ==
    \A r \in Runs :
        meta[r].is = "done" =>
            Row(r) /\ files[r] = [begun |-> {meta[r].of}, ended |-> {meta[r].of}]

\* "An interrupted batch continues where it stopped" (runner.py:6): it is complete in the end,
\* unless an interruption left a meta.json half written, which no later batch gets past, or a
\* process stays silent (runner.py:155, 54).
Completes ==
    \/ <>(\A r \in Runs : meta[r].is = "done")
    \/ <>(\E r \in Runs : meta[r].is = "torn")
    \/ <>[]silent
=============================================================================
