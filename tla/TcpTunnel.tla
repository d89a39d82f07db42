----------------------------- MODULE TcpTunnel -----------------------------
(***************************************************************************)
(* edgeproxy/tunnel/tcp_transport.py, both ends: requests that share a     *)
(* connection and are told apart by a stream id, connections that are made *)
(* when a request needs one, break, and are dropped by migrate().          *)
(*                                                                         *)
(* Any number of coroutines call request(), or send() for a frame without  *)
(* a reply; connect() is the one await between the test of `connected` and *)
(* the registration of the waiter.                                         *)
(* The bytes of a connection arrive in order; when it breaks, what is on   *)
(* its way is lost and each end notices in its own time or, with neither   *)
(* keepalives nor a timeout on the reads, never.                           *)
(***************************************************************************)
EXTENDS Integers, Sequences, FiniteSets

CONSTANTS
    Requests,
    Notices,    \* the calls of send()
    \* Bounds of the model: connections tried, calls made, and events, which are
    \* breaks of a connection, migrations, closes, handlers that raise and pushes.
    MaxConns, MaxCalls, MaxEvents

ASSUME TcpAssumption ==
    /\ {MaxConns, MaxCalls, MaxEvents} \subseteq Nat
    /\ Requests \cap Notices = {}
    /\ "failed" \notin Requests     \* a request is its own reply, told from a failure

VARIABLES
    conns,      \* every connection tried, the first first
    current,    \* _conn; 0 for None
    caller,     \* each call's coroutine
    migrating,  \* the connection migrate() waits for; 0 for none
    handling,   \* _dispatch tasks
    handled,    \* history: the requests the handler has finished with
    events      \* how many so far

vars == <<conns, current, caller, migrating, handling, handled, events>>

ONEWAY == 0
Push == "push"      \* a payload that is not a reply
Empty == "empty"    \* the reply of a handler that raised: no frame at all

Ids == DOMAIN conns
Calls == Requests \cup Notices
Connecting == [client |-> "connecting", server |-> "none", pending |-> {}, next_id |-> 1,
               up |-> <<>>, down |-> <<>>, broken |-> FALSE]

New == [pc |-> "new", conn |-> 0, result |-> "none"]
Ended(result) == [pc |-> "ended", conn |-> 0, result |-> result]

Event == events < MaxEvents /\ events' = events + 1
-----------------------------------------------------------------------------
(* Steps of which the operations are made. *)

connected == current # 0 /\ conns[current].client = "open"

Dial == Len(conns) < MaxConns /\ conns' = Append(conns, Connecting)

\* A frame is written; to a broken connection, in vain.
Sent(c, message, cs) == [cs EXCEPT ![c].up = IF cs[c].broken THEN @ ELSE Append(@, message)]

AddWaiter(r, c, cs) ==
    LET id == cs[c].next_id
        added == [cs EXCEPT ![c].next_id = @ + 1, ![c].pending = @ \cup {<<id, r>>}]
    IN  /\ conns' = Sent(c, <<id, r>>, added)
        /\ caller' = [caller EXCEPT ![r] = [pc |-> "waiting", conn |-> c, result |-> "none"]]

\* After _ensure: request() leaves a waiter under the next id and the frame, send() the frame.
Register(r, c, cs) ==
    \/ /\ r \in Notices
       /\ conns' = Sent(c, <<ONEWAY, r>>, cs)
       /\ caller' = [caller EXCEPT ![r] = Ended("sent")]
    \/ r \in Requests /\ AddWaiter(r, c, cs)

Opened(c) == [conns EXCEPT ![c].client = "open", ![c].server = "open"]

\* The waiters of c that are not done: a caller that gave up has cancelled its own.
WaitersOf(c) == {r \in Calls : caller[r].pc = "waiting" /\ caller[r].conn = c}

Dropped(c) == [conns EXCEPT ![c].client = "closed", ![c].pending = {}, ![c].down = <<>>]
Failed(c) == [r \in Calls |-> IF r \in WaitersOf(c) THEN Ended("failed") ELSE caller[r]]

\* Mutant: the waiters are forgotten, not failed.
FailQuietly(c) == conns' = Dropped(c) /\ UNCHANGED caller

\* _Connection.fail
FailConnection(c) == conns' = Dropped(c) /\ caller' = Failed(c)
-----------------------------------------------------------------------------
(* The client. *)

Made == {r \in Calls : caller[r].pc # "new"}

Request(r) ==
    /\ caller[r].pc = "new" /\ Cardinality(Made) < MaxCalls
    /\ \/ connected /\ Register(r, current, conns)
       \/ /\ ~connected
          /\ Dial
          /\ caller' = [caller EXCEPT ![r].pc = "dialing", ![r].conn = Len(conns')]
    /\ UNCHANGED <<current, migrating, handling, handled, events>>

\* connect() returns in _ensure; the request goes out on this connection.
Connected(r) ==
    LET c == caller[r].conn
    IN  /\ caller[r].pc = "dialing"
        /\ current' = c
        /\ Register(r, c, Opened(c))
        /\ UNCHANGED <<migrating, handling, handled, events>>

\* connect() raises or takes connect_timeout, or the caller gives up on it.
ConnectFailed(r) ==
    LET c == caller[r].conn
    IN  /\ caller[r].pc = "dialing"
        /\ conns' = [conns EXCEPT ![c].client = "closed"]
        /\ caller' = [caller EXCEPT ![r] = Ended("failed")]
        /\ UNCHANGED <<current, migrating, handling, handled, events>>

\* The caller's wait_for ends: its future is cancelled and stays in pending.
GiveUp(r) ==
    /\ caller[r].pc = "waiting"
    /\ caller' = [caller EXCEPT ![r] = Ended("failed")]
    /\ UNCHANGED <<conns, current, migrating, handling, handled, events>>

\* Mutant: a late reply goes to whoever still waits.
ReadMessageLoose(c) ==
    LET id == Head(conns[c].down)[1]
        reply == Head(conns[c].down)[2]
    IN  /\ conns[c].client = "open" /\ conns[c].down # <<>>
        /\ IF reply = Empty
           THEN FailConnection(c)
           ELSE /\ conns' = [conns EXCEPT ![c].down = Tail(@)]
                /\ caller' = [r \in Calls |->
                        IF r \in WaitersOf(c) /\ id # ONEWAY THEN Ended(reply) ELSE caller[r]]
        /\ UNCHANGED <<current, migrating, handling, handled, events>>

\* _read_loop: a message.  An empty one cannot be decoded and ends the loop.
ReadMessage(c) ==
    LET id == Head(conns[c].down)[1]
        reply == Head(conns[c].down)[2]
        mine == {p \in conns[c].pending : p[1] = id}
    IN  /\ conns[c].client = "open" /\ conns[c].down # <<>>
        /\ IF reply = Empty
           THEN FailConnection(c)
           ELSE /\ conns' = [conns EXCEPT ![c].down = Tail(@), ![c].pending = @ \ mine]
                /\ caller' = [r \in Calls |->
                        IF r \in WaitersOf(c) /\ <<id, r>> \in mine
                        THEN Ended(reply) ELSE caller[r]]
        /\ UNCHANGED <<current, migrating, handling, handled, events>>

\* _read_loop: the connection has ended, or it broke and TCP has noticed.
ReadEnd(c) ==
    /\ conns[c].client = "open" /\ conns[c].down = <<>>
    /\ conns[c].broken \/ conns[c].server = "closed"
    /\ FailConnection(c)
    /\ UNCHANGED <<current, migrating, handling, handled, events>>

\* migrate() up to its await; the path manager waits for one before the next.
Migrate ==
    /\ migrating = 0
    /\ Event
    /\ Len(conns) < MaxConns
    /\ migrating' = Len(conns) + 1
    /\ IF current = 0
       THEN conns' = Append(conns, Connecting) /\ UNCHANGED caller
       ELSE /\ conns' = Append(Dropped(current), Connecting)
            /\ caller' = Failed(current)
    /\ UNCHANGED <<current, handling, handled>>

MigrationEnds ==
    /\ migrating # 0
    /\ migrating' = 0
    /\ \/ conns' = Opened(migrating) /\ current' = migrating
       \/ /\ conns' = [conns EXCEPT ![migrating].client = "closed"]
          /\ UNCHANGED current
    /\ UNCHANGED <<caller, handling, handled, events>>

\* close(), at the end of a client run: calls that come after it connect again.
Close ==
    /\ current # 0
    /\ Event
    /\ FailConnection(current)
    /\ current' = 0
    /\ UNCHANGED <<migrating, handling, handled>>
-----------------------------------------------------------------------------
(* The server. *)

\* _on_connection: a message starts a task of its own.
Receive(c) ==
    /\ conns[c].server = "open" /\ conns[c].up # <<>>
    /\ conns' = [conns EXCEPT ![c].up = Tail(@)]
    /\ handling' = handling \cup {<<c, Head(conns[c].up)[1], Head(conns[c].up)[2]>>}
    /\ UNCHANGED <<current, caller, migrating, handled, events>>

\* _TcpServerSession.write; what is written to a broken connection is lost.
Written(c, id, payload) ==
    IF conns[c].server = "open" /\ conns[c].client = "open" /\ ~conns[c].broken
    THEN [conns EXCEPT ![c].down = Append(@, <<id, payload>>)]
    ELSE conns

\* Mutant: a handler that raises ends its task.
DispatchDies ==
    \E task \in handling, raised \in BOOLEAN :
        /\ handling' = handling \ {task}
        /\ handled' = handled \cup ({task[3]} \cap Requests)
        /\ IF raised
           THEN Event /\ UNCHANGED conns
           ELSE UNCHANGED events /\ conns' = Written(task[1], task[2], task[3])
        /\ UNCHANGED <<current, caller, migrating>>

\* _dispatch: the handlers run side by side and end in any order.
Dispatch ==
    \E task \in handling, raised \in BOOLEAN :
        /\ handling' = handling \ {task}
        /\ handled' = handled \cup ({task[3]} \cap Requests)
        /\ IF raised THEN Event ELSE UNCHANGED events
        /\ conns' = IF task[2] = ONEWAY THEN conns
                    ELSE Written(task[1], task[2], IF raised THEN Empty ELSE task[3])
        /\ UNCHANGED <<current, caller, migrating>>

ServerPushes(c) ==
    /\ conns[c].server = "open"
    /\ Event
    /\ conns' = Written(c, ONEWAY, Push)
    /\ UNCHANGED <<current, caller, migrating, handling, handled>>

\* _on_connection: the client has closed, or the connection broke.
SessionEnds(c) ==
    /\ conns[c].server = "open" /\ conns[c].up = <<>>
    /\ conns[c].broken \/ conns[c].client = "closed"
    /\ conns' = [conns EXCEPT ![c].server = "closed"]
    /\ UNCHANGED <<current, caller, migrating, handling, handled, events>>

Break(c) ==
    /\ conns[c].server # "none" /\ ~conns[c].broken
    /\ Event
    /\ conns' = [conns EXCEPT ![c].broken = TRUE, ![c].up = <<>>, ![c].down = <<>>]
    /\ UNCHANGED <<current, caller, migrating, handling, handled>>
-----------------------------------------------------------------------------
Init ==
    /\ conns = <<>> /\ current = 0
    /\ caller = [r \in Calls |-> New]
    /\ migrating = 0
    /\ handling = {} /\ handled = {}
    /\ events = 0

Reading == \E c \in Ids : ReadMessage(c) \/ ReadEnd(c)
Serving == Dispatch \/ \E c \in Ids : Receive(c) \/ SessionEnds(c)

Next ==
    \/ \E r \in Calls : Request(r) \/ Connected(r) \/ ConnectFailed(r) \/ GiveUp(r)
    \/ Migrate \/ MigrationEnds \/ Close
    \/ Reading \/ Serving
    \/ \E c \in Ids : ServerPushes(c) \/ Break(c)

Spec == Init /\ [][Next]_vars

Sound == {c \in Ids : ~conns[c].broken}

\* Connects end, both ends' loops go on and handlers return; each end learns of the
\* other's close while the link is there to tell it.  A broken connection need not be
\* noticed.  A caller whose connection broke has a timeout of its own, as each in
\* client/ has; the others need not give up.
FairSpec ==
    /\ Spec
    /\ \A r \in Calls : WF_vars(Connected(r) \/ ConnectFailed(r))
    /\ \A r \in Calls : WF_vars(GiveUp(r) /\ caller[r].conn \notin Sound)
    /\ WF_vars(\E c \in Sound : ReadMessage(c) \/ ReadEnd(c))
    /\ WF_vars(Dispatch \/ \E c \in Sound : Receive(c) \/ SessionEnds(c))
-----------------------------------------------------------------------------
TypeOK ==
    /\ current \in 0..Len(conns) /\ migrating \in 0..Len(conns)
    /\ \A c \in Ids :
         /\ conns[c].client \in {"connecting", "open", "closed"}
         /\ conns[c].server \in {"none", "open", "closed"}
         /\ conns[c].pending \subseteq (1..conns[c].next_id - 1) \X Requests
         /\ conns[c].client = "closed" => conns[c].pending = {}
    /\ \A r \in Calls :
         /\ caller[r].pc \in {"new", "dialing", "waiting", "ended"}
         /\ caller[r].conn \in 0..Len(conns)
    /\ handled \subseteq Requests

\* Every request that waits can still be told: its connection is open, and its
\* waiter is there for the reply or for fail.
NobodyForgotten ==
    \A r \in Requests : caller[r].pc = "waiting" =>
        /\ conns[caller[r].conn].client = "open"
        /\ \E p \in conns[caller[r].conn].pending : p[2] = r

\* Every call ends, and without its caller's timeout unless its connection broke: a
\* reply that cannot be decoded and a connection that is dropped or closed fail those
\* that wait.  On a connection that broke unnoticed only the timeout is left.
RequestsEnd == \A r \in Calls : caller[r].pc # "new" ~> caller[r].pc = "ended"

\* What its coroutine shows of a request.
Shown(r, call) ==
    CASE call.pc = "new" -> "new"
      [] call.pc \in {"dialing", "waiting"} -> "waiting"
      [] call.pc = "ended" /\ call.result = r -> "answered"
      [] call.pc = "ended" /\ call.result = "failed" -> "failed"
      [] OTHER -> "answered with something else"

Seen == [r \in Requests |-> Shown(r, caller[r])]

Promise == INSTANCE RequestReply WITH state <- Seen, handled <- handled

\* The tunnel keeps the promise: no reply goes to another request, however
\* connections overlap and whatever comes too late; none is handled twice.
KeepsPromise == Promise!Spec
=============================================================================
