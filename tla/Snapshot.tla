------------------------------- MODULE Snapshot -------------------------------
(***************************************************************************)
(* The data the runs replay: data/build_snapshot.py downloads pages, and    *)
(* data/sessions.py draws reading sessions over them, downloading what a    *)
(* session comes to and leaving out what cannot be had.  The warm-up reads  *)
(* every page of every session from the snapshot, and the origin serves     *)
(* nothing else for them.                                                   *)
(*                                                                         *)
(* Drawing is a free choice among the links readers clicked.  A page's      *)
(* download is its tries; the semaphore only spaces them and is left out,   *)
(* and so is a process killed within a write.                               *)
(***************************************************************************)
EXTENDS Integers, SequencesExt

CONSTANTS
    Seeds, Targets,     \* the pages build_snapshot picks
    Clicked,            \* page -> the links on it that readers clicked
    Sessions,           \* how many are drawn
    MaxPages,           \* in a session
    Tries,              \* before a page is given up
    MaxFaults           \* tries that fail, interruptions

VARIABLES
    program,            \* "off", "snapshot" (build_snapshot) or "sessions"
    files,              \* pages under data/snapshot/wiki
    todo,               \* page being downloaded -> failed tries
    failed,             \* pages of this fetch_all with an error
    manifest,           \* {} or the seeds without an error
    drawn,              \* the sessions as far as drawn: pages, open
    step,
    written,            \* sessions.json
    faults

vars == <<program, files, todo, failed, manifest, drawn, step, written, faults>>

Fault == faults < MaxFaults /\ faults' = faults + 1

\* fetch_all asks for what is not there yet.
FetchAll(pages) ==
    /\ todo' = [p \in pages \ files |-> 0]
    /\ failed' = {}

BuildSnapshot ==
    /\ program = "off" /\ manifest = {}
    /\ program' = "snapshot" /\ FetchAll(Seeds \union Targets)
    /\ UNCHANGED <<files, manifest, drawn, step, written, faults>>

PageFetched ==
    /\ \E p \in DOMAIN todo :
         /\ files' = files \union {p}
         /\ todo' = [q \in DOMAIN todo \ {p} |-> todo[q]]
    /\ UNCHANGED <<program, failed, manifest, drawn, step, written, faults>>

\* A status worth another try, until the tries are used up; or one that is not.
TryFails ==
    /\ \E p \in DOMAIN todo :
         \/ /\ todo[p] + 1 < Tries
            /\ todo' = [todo EXCEPT ![p] = @ + 1]
            /\ UNCHANGED failed
         \/ /\ todo' = [q \in DOMAIN todo \ {p} |-> todo[q]]
            /\ failed' = failed \union {p}
    /\ Fault
    /\ UNCHANGED <<program, files, manifest, drawn, step, written>>

WriteManifest ==
    /\ program = "snapshot" /\ DOMAIN todo = {}
    /\ manifest' = Seeds \ failed /\ program' = "off"
    /\ UNCHANGED <<files, todo, failed, drawn, step, written, faults>>

Here(s) == Last(s.pages)

\* sessions.main: each session starts on a seed that was fetched.
DrawStarts ==
    /\ program = "off" /\ manifest # {} /\ written = <<>>
    /\ program' = "sessions" /\ step' = 1
    /\ drawn' \in [1..Sessions -> {[pages |-> <<p>>, open |-> TRUE] : p \in manifest}]
    /\ FetchAll({})
    /\ UNCHANGED <<files, manifest, written, faults>>

\* A session with nowhere to go is closed; the others go on to a link somebody clicked.
Follow(s) ==
    IF s.open /\ Clicked[Here(s)] # {}
    THEN {[s EXCEPT !.pages = Append(@, p)] : p \in Clicked[Here(s)]}
    ELSE {[s EXCEPT !.open = FALSE]}

DrawStep ==
    /\ program = "sessions" /\ DOMAIN todo = {} /\ failed = {}
    /\ step < MaxPages /\ \E i \in DOMAIN drawn : drawn[i].open
    /\ step' = step + 1
    /\ \E next \in [DOMAIN drawn -> UNION {Follow(drawn[i]) : i \in DOMAIN drawn}] :
         /\ \A i \in DOMAIN drawn : next[i] \in Follow(drawn[i])
         /\ drawn' = next
         /\ FetchAll({Here(next[i]) : i \in {j \in DOMAIN next : next[j].open}})
    /\ UNCHANGED <<program, files, manifest, written, faults>>

\* Mutant: the session is closed and keeps the page.
CutKeepsPage ==
    /\ program = "sessions" /\ DOMAIN todo = {} /\ failed # {}
    /\ drawn' = [i \in DOMAIN drawn |->
           [drawn[i] EXCEPT !.open = @ /\ Here(drawn[i]) \notin failed]]
    /\ failed' = {}
    /\ UNCHANGED <<program, files, todo, manifest, step, written, faults>>

\* "A page that couldn't be fetched ends its session there."
Cut ==
    /\ program = "sessions" /\ DOMAIN todo = {} /\ failed # {}
    /\ drawn' = [i \in DOMAIN drawn |->
           IF Here(drawn[i]) \in failed
           THEN [pages |-> Front(drawn[i].pages), open |-> FALSE] ELSE drawn[i]]
    /\ failed' = {}
    /\ UNCHANGED <<program, files, todo, manifest, step, written, faults>>

WriteSessions ==
    /\ program = "sessions" /\ DOMAIN todo = {} /\ failed = {}
    /\ step = MaxPages \/ \A i \in DOMAIN drawn : ~drawn[i].open
    /\ written' = [i \in DOMAIN drawn |-> drawn[i].pages]
    /\ program' = "off"
    /\ UNCHANGED <<files, todo, failed, manifest, drawn, step, faults>>

\* What was fetched stays, everything else is lost; the program is started again.
Interrupted ==
    /\ program # "off" /\ Fault
    /\ program' = "off" /\ todo' = [p \in {} |-> 0] /\ failed' = {} /\ drawn' = <<>> /\ step' = 0
    /\ UNCHANGED <<files, manifest, written>>

Init ==
    /\ program = "off" /\ files = {} /\ todo = [p \in {} |-> 0] /\ failed = {}
    /\ manifest = {} /\ drawn = <<>> /\ step = 0 /\ written = <<>> /\ faults = 0

Next ==
    \/ BuildSnapshot \/ PageFetched \/ TryFails \/ WriteManifest
    \/ DrawStarts \/ DrawStep \/ Cut \/ WriteSessions \/ Interrupted

Spec == Init /\ [][Next]_vars
-----------------------------------------------------------------------------
\* Sessions only visit snapshot pages (origin_server.py:9), each by a link of the one before it,
\* whatever could not be fetched and wherever the programs were interrupted (sessions.py:92-96).
SessionsInSnapshot ==
    \A i \in DOMAIN written :
        LET pages == written[i] IN
        /\ pages # <<>> /\ ToSet(pages) \subseteq files
        /\ \A j \in 1..(Len(pages) - 1) : pages[j + 1] \in Clicked[pages[j]]
=============================================================================
