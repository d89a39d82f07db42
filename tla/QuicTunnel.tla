----------------------------- MODULE QuicTunnel -----------------------------
(***************************************************************************)
(* Requests over edgeproxy/tunnel/quic_tunnel.py, both ends, and the       *)
(* reconnects of keep_alive in client/proxy.py.  Every request has a       *)
(* stream, so requests and replies overtake each other; QUIC sends again   *)
(* what is lost, until the connection ends.  The client learns that from   *)
(* ConnectionTerminated (an idle timeout, at the latest), the server at a  *)
(* time of its own.  connect() replaces _protocol before the handshake is  *)
(* done, and request() does not look at `connected`.                       *)
(***************************************************************************)
EXTENDS Integers, Sequences, FiniteSets

CONSTANTS
    Requests,
    \* Bounds of the model: connections that end or take too long to make (and
    \* so those made: one more), handlers that raise.
    MaxBreaks, MaxRaised

\* A request is its own reply, which is told from a failure.
ASSUME QuicAssumption == {MaxBreaks, MaxRaised} \subseteq Nat /\ "failed" \notin Requests

VARIABLES
    conns,      \* every protocol object made; the last is _protocol
    caller,     \* each request's coroutine
    keeper,     \* keep_alive: "idle", or waiting to be "connected"
    handling,   \* _dispatch tasks
    handled,    \* history: the requests the handler has finished with
    raised,     \* history: those of them whose handler raised
    breaks      \* connections ended so far

vars == <<conns, caller, keeper, handling, handled, raised, breaks>>

Empty == "empty"    \* the payload of a handler that raised: no frame at all

Ids == DOMAIN conns
current == Len(conns)

\* Streams, by their number: what the client and the server have yet to read.
Fresh == [client |-> "handshake", server |-> "none", pending |-> {}, next_id |-> 0,
          up |-> {}, down |-> {}]

New == [pc |-> "new", conn |-> 0, late |-> FALSE, result |-> "none"]
Ended(result) == [New EXCEPT !.pc = "ended", !.result = result]

connected == conns[current].client # "terminated"
Established(c) == conns[c].client = "open" /\ conns[c].server = "open"

WaitersOf(c) == {r \in Requests : caller[r].pc = "waiting" /\ caller[r].conn = c}
-----------------------------------------------------------------------------
(* The client. *)

\* open_request.  After ConnectionTerminated nothing is sent, and nobody will
\* look for the waiter.
Request(r) ==
    LET c == current
        id == conns[c].next_id
    IN  /\ caller[r].pc = "new"
        /\ conns' = [conns EXCEPT
                ![c].next_id = @ + 1,
                ![c].pending = @ \cup {<<id, r>>},
                ![c].up = IF connected THEN @ \cup {<<id, r>>} ELSE @]
        /\ caller' = [caller EXCEPT
                ![r] = [pc |-> "waiting", conn |-> c, late |-> ~connected, result |-> "none"]]
        /\ UNCHANGED <<keeper, handling, handled, raised, breaks>>

\* The caller's wait_for ends: its future is cancelled and stays in _pending.
GiveUp(r) ==
    /\ caller[r].pc = "waiting"
    /\ caller' = [caller EXCEPT ![r] = Ended("failed")]
    /\ UNCHANGED <<conns, keeper, handling, handled, raised, breaks>>

\* Mutant: a reply goes to the oldest waiter.
StreamEndedOldest(c) ==
    /\ conns[c].client = "open"
    /\ \E m \in conns[c].down :
         LET mine == {p \in conns[c].pending : \A q \in conns[c].pending : p[1] <= q[1]}
         IN  /\ conns' = [conns EXCEPT ![c].down = @ \ {m},
                                       ![c].pending = IF m[2] = Empty THEN @ ELSE @ \ mine]
             /\ caller' = [r \in Requests |->
                    IF m[2] # Empty /\ r \in WaitersOf(c) /\ \E p \in mine : p[2] = r
                    THEN Ended(m[2]) ELSE caller[r]]
    /\ UNCHANGED <<keeper, handling, handled, raised, breaks>>

\* Mutant: the waiter is taken out before the frame is decoded.
StreamEndedEarly(c) ==
    /\ conns[c].client = "open"
    /\ \E m \in conns[c].down :
         LET mine == {p \in conns[c].pending : p[1] = m[1]}
         IN  /\ conns' = [conns EXCEPT ![c].down = @ \ {m}, ![c].pending = @ \ mine]
             /\ caller' = [r \in Requests |->
                    IF m[2] # Empty /\ r \in WaitersOf(c) /\ <<m[1], r>> \in mine
                    THEN Ended(m[2]) ELSE caller[r]]
    /\ UNCHANGED <<keeper, handling, handled, raised, breaks>>

\* The end of a stream: an empty payload is no frame and is dropped before
\* the waiter is looked up.
StreamEnded(c) ==
    /\ conns[c].client = "open"
    /\ \E m \in conns[c].down :
         LET mine == {p \in conns[c].pending : p[1] = m[1] /\ m[2] # Empty}
         IN  /\ conns' = [conns EXCEPT ![c].down = @ \ {m}, ![c].pending = @ \ mine]
             /\ caller' = [r \in Requests |->
                    IF r \in WaitersOf(c) /\ <<m[1], r>> \in mine THEN Ended(m[2]) ELSE caller[r]]
    /\ UNCHANGED <<keeper, handling, handled, raised, breaks>>

\* Mutant: the waiters are cleared, not failed.
TerminatedQuietly(c) ==
    /\ conns[c].client # "terminated"
    /\ \/ Established(c) /\ breaks < MaxBreaks /\ breaks' = breaks + 1
       \/ ~Established(c) /\ keeper = "idle" /\ UNCHANGED breaks
    /\ conns' = [conns EXCEPT ![c].client = "terminated", ![c].pending = {}, ![c].down = {}]
    /\ UNCHANGED <<caller, keeper, handling, handled, raised>>

\* ConnectionTerminated: a connection that stood is lost, or the idle timer of
\* one that does not stand runs out (not within the time connect() is given).
Terminated(c) ==
    /\ conns[c].client # "terminated"
    /\ \/ Established(c) /\ breaks < MaxBreaks /\ breaks' = breaks + 1
       \/ ~Established(c) /\ keeper = "idle" /\ UNCHANGED breaks
    /\ conns' = [conns EXCEPT ![c].client = "terminated", ![c].pending = {}, ![c].down = {}]
    /\ caller' = [r \in Requests |-> IF r \in WaitersOf(c) THEN Ended("failed") ELSE caller[r]]
    /\ UNCHANGED <<keeper, handling, handled, raised>>

\* keep_alive finds the connection ended: connect() up to its await.
Reconnect ==
    /\ keeper = "idle" /\ ~connected
    /\ conns' = Append(conns, Fresh)
    /\ keeper' = "connected"
    /\ UNCHANGED <<caller, handling, handled, raised, breaks>>

\* The handshake is done, whether or not keep_alive still waits for it.
HandshakeDone(c) ==
    /\ conns[c].client = "handshake"
    /\ conns' = [conns EXCEPT ![c].client = "open", ![c].server = "open"]
    /\ keeper' = IF keeper = "connected" THEN "idle" ELSE keeper
    /\ UNCHANGED <<caller, handling, handled, raised, breaks>>

\* Mutant: keep_alive does not survive the timeout.
ReconnectTimesOutForGood ==
    /\ keeper = "connected" /\ keeper' = "gone"
    /\ breaks < MaxBreaks /\ breaks' = breaks + 1
    /\ UNCHANGED <<conns, caller, handling, handled, raised>>

\* connect() takes its ten seconds: _protocol is the new one all the same.
ReconnectTimesOut ==
    /\ keeper = "connected" /\ keeper' = "idle"
    /\ breaks < MaxBreaks /\ breaks' = breaks + 1
    /\ UNCHANGED <<conns, caller, handling, handled, raised>>
-----------------------------------------------------------------------------
(* The server. *)

\* A client's stream has ended: its frame goes to a task of its own.
Receive(c) ==
    /\ conns[c].server = "open"
    /\ \E m \in conns[c].up :
         /\ conns' = [conns EXCEPT ![c].up = @ \ {m}]
         /\ handling' = handling \cup {<<c, m[1], m[2]>>}
    /\ UNCHANGED <<caller, keeper, handled, raised, breaks>>

\* _dispatch: a handler that raises is answered with an empty stream.
Dispatch ==
    /\ \E task \in handling, bad \in BOOLEAN :
         LET c == task[1]
         IN  /\ bad => Cardinality(raised) < MaxRaised
             /\ handling' = handling \ {task}
             /\ handled' = handled \cup {task[3]}
             /\ raised' = IF bad THEN raised \cup {task[3]} ELSE raised
             /\ conns' = IF Established(c)
                         THEN [conns EXCEPT ![c].down =
                                    @ \cup {<<task[2], IF bad THEN Empty ELSE task[3]>>}]
                         ELSE conns
    /\ UNCHANGED <<caller, keeper, breaks>>

\* The server ends the session, or its own idle timer does.
SessionEnds(c) ==
    /\ conns[c].server = "open"
    /\ conns[c].client = "open" => breaks < MaxBreaks
    /\ breaks' = IF conns[c].client = "open" THEN breaks + 1 ELSE breaks
    /\ conns' = [conns EXCEPT ![c].server = "closed", ![c].up = {}, ![c].down = {}]
    /\ UNCHANGED <<caller, keeper, handling, handled, raised>>
-----------------------------------------------------------------------------
Init ==
    /\ conns = <<[Fresh EXCEPT !.client = "open", !.server = "open"]>>
    /\ caller = [r \in Requests |-> New]
    /\ keeper = "idle"
    /\ handling = {} /\ handled = {} /\ raised = {}
    /\ breaks = 0

Serving == Dispatch \/ \E c \in Ids : Receive(c)

Next ==
    \/ \E r \in Requests : Request(r) \/ GiveUp(r)
    \/ Reconnect \/ ReconnectTimesOut
    \/ \E c \in Ids : StreamEnded(c) \/ Terminated(c) \/ HandshakeDone(c) \/ SessionEnds(c)
    \/ Serving

Spec == Init /\ [][Next]_vars

\* What is sent arrives while both ends stand, handlers return, idle timers
\* run out and keep_alive goes on.  Callers need not give up.
FairSpec ==
    /\ Spec
    /\ WF_vars(Serving)
    /\ WF_vars(Reconnect)
    /\ \A c \in 1..(MaxBreaks + 1) :
         /\ WF_vars(c \in Ids /\ StreamEnded(c))
         /\ WF_vars(c \in Ids /\ ~Established(c) /\ Terminated(c))
         /\ WF_vars(c \in Ids /\ HandshakeDone(c))
-----------------------------------------------------------------------------
TypeOK ==
    /\ \A c \in Ids :
         /\ conns[c].client \in {"handshake", "open", "terminated"}
         /\ conns[c].server \in {"none", "open", "closed"}
         /\ conns[c].pending \subseteq (0..conns[c].next_id - 1) \X Requests
         /\ conns[c].client = "handshake" => c = current
    /\ \A r \in Requests : caller[r].pc \in {"new", "waiting", "ended"} /\ caller[r].conn \in 0..current
    /\ keeper \in {"idle", "connected"}
    /\ raised \subseteq handled /\ handled \subseteq Requests

\* A request is lost sight of in one case only: it was made on a connection
\* that had ended.  Any other that waits has a waiter on a connection that
\* stands or will be told to have ended.
LostOnlyIfLate ==
    \A r \in Requests : caller[r].pc = "waiting" =>
        /\ \E p \in conns[caller[r].conn].pending : p[2] = r
        /\ conns[caller[r].conn].client = "terminated" => caller[r].late

\* A request made while the tunnel stood ends without its caller's timeout,
\* unless the server's handler raised: then nothing it can read is sent.
RequestsEnd ==
    \A r \in Requests :
        caller[r].pc = "waiting" ~> (caller[r].pc = "ended" \/ caller[r].late \/ r \in raised)

\* "Reconnect if the connection has ended anyway" (keep_alive): once nothing
\* more breaks, the tunnel stands, although a connect that took too long leaves
\* a protocol that counts as connected.
Recovers == <>[]Established(current)

\* What its coroutine shows of a request.
Shown(r, call) ==
    CASE call.pc # "ended" -> call.pc
      [] call.pc = "ended" /\ call.result = r -> "answered"
      [] call.pc = "ended" /\ call.result = "failed" -> "failed"
      [] OTHER -> "answered with something else"

Seen == [r \in Requests |-> Shown(r, caller[r])]

Promise == INSTANCE RequestReply WITH state <- Seen, handled <- handled

\* The tunnel keeps the promise: replies find their own request in whatever
\* order the streams end, over reconnects, and none is handled twice.
KeepsPromise == Promise!Spec
=============================================================================
