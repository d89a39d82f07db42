-------------------------- MODULE QuicTunnelProofs --------------------------
(***************************************************************************)
(* What holds of requests over QUIC for any number of them, of breaks and  *)
(* of handlers that raise: a waiter is lost sight of only after the end of *)
(* its connection, and the tunnel implements RequestReply.                 *)
(***************************************************************************)
EXTENDS QuicTunnel, SequenceTheorems, TLAPS

Streams == Nat \X Requests
Replies == Nat \X (Requests \cup {Empty})

Connection ==
    [client : {"handshake", "open", "terminated"}, server : {"none", "open", "closed"},
     pending : SUBSET Streams, next_id : Nat, up : SUBSET Streams, down : SUBSET Replies]

Caller == [pc : {"new", "waiting", "ended"}, conn : Nat, late : BOOLEAN,
           result : {"none", "failed"} \cup Requests]

Typed ==
    /\ conns \in Seq(Connection) /\ current >= 1
    /\ caller \in [Requests -> Caller]
    /\ handling \subseteq Nat \X Nat \X Requests
    /\ handled \subseteq Requests

\* A stream's number is one the connection has given out, and its own.
NumbersTaken ==
    \A c \in Ids :
        /\ \A m \in conns[c].pending \cup conns[c].up \cup conns[c].down : m[1] < conns[c].next_id
        /\ \A p, q \in conns[c].pending : p[1] = q[1] => p = q

TasksKnown == \A task \in handling : task[1] \in Ids /\ task[2] < conns[task[1]].next_id

\* A request that is yet to be made has left no trace.
NewUnseen ==
    \A r \in Requests : caller[r].pc = "new" =>
        /\ r \notin handled
        /\ \A task \in handling : task[3] # r
        /\ \A c \in Ids : \A m \in conns[c].pending \cup conns[c].up : m[2] # r

\* A request is on its way at one place, and not once it has been handled.
SentOnce ==
    /\ \A c, d \in Ids : \A m \in conns[c].up, n \in conns[d].up :
            m[2] = n[2] => c = d /\ m = n
    /\ \A c \in Ids : \A m \in conns[c].up : \A task \in handling : m[2] # task[3]
    /\ \A task, other \in handling : task[3] = other[3] => task = other
    /\ \A c \in Ids : \A m \in conns[c].up : m[2] \notin handled
    /\ \A task \in handling : task[3] \notin handled

\* A stream is for one request, at either end and both ways; a reply is to a
\* request that was handled.
StreamsMatch ==
    /\ \A c \in Ids : \A m \in conns[c].up, p \in conns[c].pending : m[1] = p[1] => m[2] = p[2]
    /\ \A task \in handling : \A p \in conns[task[1]].pending : task[2] = p[1] => task[3] = p[2]
    /\ \A c \in Ids : \A m \in conns[c].down : m[2] # Empty =>
            /\ m[2] \in handled
            /\ \A p \in conns[c].pending : m[1] = p[1] => m[2] = p[2]

\* A caller waits with its own waiter; what it got is its reply or an error.
WaitersKnown ==
    \A r \in Requests :
        /\ caller[r].pc = "waiting" =>
             /\ caller[r].conn \in Ids
             /\ \E p \in conns[caller[r].conn].pending : p[2] = r
             /\ conns[caller[r].conn].client = "terminated" => caller[r].late
        /\ caller[r].pc = "ended" => caller[r].result \in {r, "failed"}

IInv == Typed /\ NumbersTaken /\ TasksKnown /\ NewUnseen /\ SentOnce /\ StreamsMatch /\ WaitersKnown

\* Replacing a connection by another leaves a sequence of connections, and the
\* others as they were.
LEMMA Replaced ==
    ASSUME Typed, NEW c \in Ids, NEW k \in Connection, conns' = [conns EXCEPT ![c] = k]
    PROVE  /\ conns' \in Seq(Connection) /\ Ids' = Ids /\ current' = current
           /\ conns'[c] = k /\ \A d \in Ids : d # c => conns'[d] = conns[d]
<1>1. conns \in Seq(Connection) /\ Ids = 1..Len(conns)
  BY LenProperties DEF Typed, Ids
<1>2. /\ conns' \in Seq(Connection) /\ Len(conns') = Len(conns)
      /\ \A d \in 1..Len(conns) : conns'[d] = IF d = c THEN k ELSE conns[d]
  BY <1>1, ExceptSeq
<1>3. Ids' = 1..Len(conns')
  BY <1>2, LenProperties DEF Ids
<1> QED
  BY <1>1, <1>2, <1>3 DEF current

\* The parts of a connection, and the streams it holds.
LEMMA ConnectionType ==
    ASSUME Typed, NEW c \in Ids
    PROVE  /\ conns[c] \in Connection
           /\ \A p \in conns[c].pending \cup conns[c].up : p \in Streams /\ p = <<p[1], p[2]>>
           /\ \A m \in conns[c].down : m \in Replies /\ m = <<m[1], m[2]>>
<1>1. conns \in Seq(Connection) /\ Ids = 1..Len(conns)
  BY LenProperties DEF Typed, Ids
<1>2. conns[c] \in Connection
  BY <1>1, ElementOfSeq
<1> QED
  BY <1>2 DEF Connection, Streams, Replies

\* The last connection is one of them.
LEMMA CurrentKnown == ASSUME Typed PROVE current \in Ids /\ Ids = 1..current /\ current \in Nat
  BY LenProperties DEF Typed, Ids, current

LEMMA Initially == Init => IInv
<1> SUFFICES ASSUME Init PROVE IInv
  OBVIOUS
<1> DEFINE k == [Fresh EXCEPT !.client = "open", !.server = "open"]
<1>1. k \in Connection /\ k.pending = {} /\ k.up = {} /\ k.down = {}
  BY DEF Fresh, Connection
<1> HIDE DEF k
<1>2. conns = <<k>>
  BY DEF Init, k
<1>3. conns \in Seq(Connection) /\ current = 1 /\ Ids = {1} /\ conns[1] = k
  BY <1>1, <1>2 DEF current, Ids
<1>4. /\ caller \in [Requests -> Caller] /\ \A r \in Requests : caller[r].pc = "new"
      /\ handling = {} /\ handled = {}
  BY DEF Init, New, Caller
<1> QED
  BY <1>1, <1>3, <1>4
  DEF IInv, Typed, NumbersTaken, TasksKnown, NewUnseen, SentOnce, StreamsMatch, WaitersKnown

\* A stream's number, and that it is below the next.
LEMMA NumbersKnown ==
    ASSUME IInv, NEW c \in Ids, NEW m \in conns[c].pending \cup conns[c].up \cup conns[c].down
    PROVE  m[1] < conns[c].next_id /\ m[1] \in Nat /\ conns[c].next_id \in Nat
<1>1. m[1] < conns[c].next_id
  BY DEF IInv, NumbersTaken
<1>2. conns[c] \in Connection
  BY ConnectionType DEF IInv
<1> QED
  BY <1>1, <1>2 DEF Connection, Streams, Replies

\* What only takes messages and waiters away disturbs neither numbers nor tasks,
\* traces or matches.
LEMMA Less ==
    ASSUME IInv, Ids' = Ids, UNCHANGED <<handling, handled>>,
           \A d \in Ids :
               /\ conns'[d].next_id = conns[d].next_id /\ conns'[d].pending \subseteq conns[d].pending
               /\ conns'[d].up \subseteq conns[d].up /\ conns'[d].down \subseteq conns[d].down,
           \A s \in Requests : caller'[s].pc = "new" => caller[s].pc = "new"
    PROVE  NumbersTaken' /\ TasksKnown' /\ NewUnseen' /\ SentOnce' /\ StreamsMatch'
<1>1. NumbersTaken'
  BY DEF IInv, NumbersTaken
<1>2. TasksKnown'
  BY DEF IInv, TasksKnown
<1>3. NewUnseen'
  BY DEF IInv, NewUnseen
<1>4. SentOnce'
  BY DEF IInv, SentOnce
<1>5. StreamsMatch'
  BY DEF IInv, StreamsMatch, TasksKnown
<1> QED
  BY <1>1, <1>2, <1>3, <1>4, <1>5

LEMMA RequestStep == ASSUME IInv, NEW r \in Requests, Request(r) PROVE IInv'
<1> DEFINE c == current
           id == conns[c].next_id
           k == [conns[c] EXCEPT !.next_id = @ + 1, !.pending = @ \cup {<<id, r>>},
                                 !.up = IF connected THEN @ \cup {<<id, r>>} ELSE @]
<1>0. Typed /\ c \in Ids
  BY CurrentKnown DEF IInv
<1>1. conns[c] \in Connection
  BY <1>0, ConnectionType
<1>2. /\ k.client = conns[c].client /\ k.server = conns[c].server
      /\ k.pending = conns[c].pending \cup {<<id, r>>} /\ k.next_id = id + 1
      /\ k.up \in {conns[c].up, conns[c].up \cup {<<id, r>>}} /\ k.down = conns[c].down
  BY <1>1 DEF Connection
<1>2a. id \in Nat /\ <<id, r>> \in Streams
  BY <1>1 DEF Connection, Streams
<1>2b. k.pending \in SUBSET Streams /\ k.up \in SUBSET Streams /\ k.next_id \in Nat
  BY <1>1, <1>2, <1>2a DEF Connection
<1>2c. k \in Connection
  BY <1>1, <1>2, <1>2b DEF Connection
<1>3. conns' = [conns EXCEPT ![c] = k]
  BY DEF Request
<1> HIDE DEF k
<1>4. /\ conns' \in Seq(Connection) /\ Ids' = Ids /\ current' = current
      /\ conns'[c] = k /\ \A d \in Ids : d # c => conns'[d] = conns[d]
  BY <1>0, <1>2c, <1>3, Replaced
<1>5. /\ caller[r].pc = "new" /\ UNCHANGED <<handling, handled>>
      /\ caller' = [caller EXCEPT
            ![r] = [pc |-> "waiting", conn |-> c, late |-> ~connected, result |-> "none"]]
  BY DEF Request
<1>6. Typed'
  <2>1. [pc |-> "waiting", conn |-> c, late |-> ~connected, result |-> "none"] \in Caller
    BY <1>0, CurrentKnown DEF Caller, connected
  <2> QED
    BY <1>0, <1>4, <1>5, <2>1 DEF Typed
<1>7. \A d \in Ids : \A m \in conns[d].pending \cup conns[d].up \cup conns[d].down :
            m[1] < conns[d].next_id /\ m[1] \in Nat /\ conns[d].next_id \in Nat
  BY NumbersKnown
<1>8. NumbersTaken'
  BY <1>2, <1>2a, <1>4, <1>7, SMTT(30) DEF IInv, NumbersTaken
<1>9. TasksKnown'
  BY <1>2, <1>2a, <1>4, <1>5, SMTT(30) DEF IInv, TasksKnown, Typed
<1>10. NewUnseen'
  BY <1>0, <1>2, <1>4, <1>5 DEF IInv, NewUnseen, Typed
<1>11. SentOnce'
  BY <1>2, <1>4, <1>5 DEF IInv, SentOnce, NewUnseen
<1>12. StreamsMatch'
  <2>1. \A d \in Ids : \A m \in conns'[d].up, p \in conns'[d].pending : m[1] = p[1] => m[2] = p[2]
    BY <1>2, <1>4, <1>7 DEF IInv, StreamsMatch
  <2>2. \A task \in handling : \A p \in conns'[task[1]].pending : task[2] = p[1] => task[3] = p[2]
    BY <1>2, <1>2a, <1>4 DEF IInv, StreamsMatch, TasksKnown, Typed
  <2>3. \A d \in Ids : \A m \in conns'[d].down : m[2] # Empty =>
            m[2] \in handled /\ \A p \in conns'[d].pending : m[1] = p[1] => m[2] = p[2]
    BY <1>2, <1>4, <1>7 DEF IInv, StreamsMatch
  <2> QED
    BY <1>4, <1>5, <2>1, <2>2, <2>3 DEF StreamsMatch
<1>13. WaitersKnown'
  <2> SUFFICES ASSUME NEW s \in Requests
               PROVE  /\ caller'[s].pc = "waiting" =>
                            /\ caller'[s].conn \in Ids
                            /\ \E p \in conns'[caller'[s].conn].pending : p[2] = s
                            /\ conns'[caller'[s].conn].client = "terminated" => caller'[s].late
                      /\ caller'[s].pc = "ended" => caller'[s].result \in {s, "failed"}
    BY <1>4 DEF WaitersKnown
  <2>1. CASE s # r
    BY <1>0, <1>2, <1>4, <1>5, <2>1 DEF IInv, WaitersKnown, Typed
  <2>2. CASE s = r
    <3>1. caller'[s] = [pc |-> "waiting", conn |-> c, late |-> ~connected, result |-> "none"]
      BY <1>0, <1>5, <2>2 DEF Typed
    <3>2. conns'[c].client = "terminated" => ~connected
      BY <1>2, <1>4 DEF connected
    <3>3. caller'[s].pc = "waiting" /\ caller'[s].conn = c
      BY <3>1
    <3>4. ~connected => caller'[s].late
      <4>1. CASE connected
        BY <4>1
      <4>2. CASE ~connected
        <5>1. caller'[s] = [pc |-> "waiting", conn |-> c, late |-> TRUE, result |-> "none"]
          BY <3>1, <4>2
        <5> QED
          BY <5>1
      <4> QED
        BY <4>1, <4>2
    <3>5. <<id, r>> \in conns'[c].pending /\ <<id, r>>[2] = s
      BY <1>2, <1>4, <2>2
    <3> QED
      BY <1>0, <3>2, <3>3, <3>4, <3>5
  <2> QED
    BY <2>1, <2>2
<1> QED
  BY <1>6, <1>8, <1>9, <1>10, <1>11, <1>12, <1>13 DEF IInv

LEMMA GiveUpStep == ASSUME IInv, NEW r \in Requests, GiveUp(r) PROVE IInv'
<1>1. /\ caller[r].pc = "waiting" /\ UNCHANGED <<conns, handling, handled>>
      /\ caller' = [caller EXCEPT ![r] = Ended("failed")]
  BY DEF GiveUp
<1>2. Ended("failed") \in Caller /\ Ended("failed").pc = "ended" /\ Ended("failed").result = "failed"
  BY DEF Ended, New, Caller
<1>3. Ids' = Ids /\ current' = current
  BY <1>1 DEF Ids, current
<1>4. Typed'
  BY <1>1, <1>2, <1>3 DEF IInv, Typed
<1>5. \A s \in Requests : caller'[s] = IF s = r THEN Ended("failed") ELSE caller[s]
  BY <1>1 DEF IInv, Typed
<1>6. NumbersTaken' /\ TasksKnown' /\ NewUnseen' /\ SentOnce' /\ StreamsMatch'
  BY <1>1, <1>2, <1>3, <1>5, Less
<1>7. WaitersKnown'
  BY <1>1, <1>2, <1>3, <1>5 DEF IInv, WaitersKnown
<1> QED
  BY <1>4, <1>6, <1>7 DEF IInv

LEMMA StreamEndedStep == ASSUME IInv, NEW c \in Ids, StreamEnded(c) PROVE IInv'
<1> PICK m \in conns[c].down :
        LET mine == {p \in conns[c].pending : p[1] = m[1] /\ m[2] # Empty}
        IN  /\ conns' = [conns EXCEPT ![c].down = @ \ {m}, ![c].pending = @ \ mine]
            /\ caller' = [r \in Requests |->
                    IF r \in WaitersOf(c) /\ <<m[1], r>> \in mine THEN Ended(m[2]) ELSE caller[r]]
  BY DEF StreamEnded
<1> DEFINE mine == {p \in conns[c].pending : p[1] = m[1] /\ m[2] # Empty}
           k == [conns[c] EXCEPT !.down = @ \ {m}, !.pending = @ \ mine]
<1>0. Typed /\ UNCHANGED <<handling, handled>>
  BY DEF IInv, StreamEnded
<1>1. conns[c] \in Connection
  BY <1>0, ConnectionType
<1>2. /\ k.client = conns[c].client /\ k.server = conns[c].server /\ k.next_id = conns[c].next_id
      /\ k.pending = conns[c].pending \ mine /\ k.up = conns[c].up
      /\ k.down = conns[c].down \ {m}
  BY <1>1 DEF Connection
<1>3. k \in Connection
  BY <1>1, <1>2 DEF Connection
<1>4. conns' = [conns EXCEPT ![c] = k]
  OBVIOUS
<1> HIDE DEF k
<1>5. /\ conns' \in Seq(Connection) /\ Ids' = Ids /\ current' = current
      /\ conns'[c] = k /\ \A d \in Ids : d # c => conns'[d] = conns[d]
  BY <1>0, <1>3, <1>4, Replaced
<1>6. /\ DOMAIN caller' = Requests
      /\ \A s \in Requests : caller'[s] =
            IF s \in WaitersOf(c) /\ <<m[1], s>> \in mine THEN Ended(m[2]) ELSE caller[s]
  OBVIOUS
<1>7. \A s \in Requests : <<m[1], s>> \in mine => m[2] = s
  BY DEF IInv, StreamsMatch
<1>8. \A s \in Requests : /\ Ended(s) \in Caller
                          /\ Ended(s).pc = "ended" /\ Ended(s).result = s
  BY DEF Ended, New, Caller
<1>9. Typed'
  <2>1. \A s \in Requests : caller'[s] \in Caller
    BY <1>0, <1>6, <1>7, <1>8 DEF Typed
  <2> QED
    BY <1>0, <1>5, <1>6, <2>1 DEF Typed
<1>10. NumbersTaken' /\ TasksKnown' /\ NewUnseen' /\ SentOnce' /\ StreamsMatch'
  <2>1. \A s \in Requests : caller'[s].pc = "new" => caller[s].pc = "new"
    BY <1>6, <1>7, <1>8
  <2> HIDE DEF mine
  <2> QED
    BY <1>0, <1>2, <1>5, <2>1, Less
<1>11. \A p \in mine : p = <<m[1], p[2]>> /\ p[2] \in Requests
  BY <1>0, ConnectionType DEF Streams
<1>12. WaitersKnown'
  <2> HIDE DEF mine
  <2> SUFFICES ASSUME NEW s \in Requests
               PROVE  /\ caller'[s].pc = "waiting" =>
                            /\ caller'[s].conn \in Ids
                            /\ \E p \in conns'[caller'[s].conn].pending : p[2] = s
                            /\ conns'[caller'[s].conn].client = "terminated" => caller'[s].late
                      /\ caller'[s].pc = "ended" => caller'[s].result \in {s, "failed"}
    BY <1>5 DEF WaitersKnown
  <2>1. CASE s \in WaitersOf(c) /\ <<m[1], s>> \in mine
    BY <1>6, <1>7, <1>8, <2>1
  <2>2. CASE ~(s \in WaitersOf(c) /\ <<m[1], s>> \in mine)
    <3>1. caller'[s] = caller[s]
      BY <1>6, <2>2
    <3>2. CASE s \in WaitersOf(c)
      <4>1. PICK p \in conns[c].pending : p[2] = s
        BY <3>2 DEF WaitersOf, IInv, WaitersKnown
      <4>2. p \in conns'[c].pending
        BY <1>2, <1>5, <1>11, <2>2, <3>2, <4>1
      <4> QED
        BY <1>2, <1>5, <3>1, <3>2, <4>1, <4>2, SMTT(30) DEF WaitersOf, IInv, WaitersKnown
    <3>3. CASE s \notin WaitersOf(c)
      <4>1. caller[s].pc = "waiting" => conns'[caller[s].conn] = conns[caller[s].conn]
        BY <1>5, <3>3 DEF WaitersOf, IInv, WaitersKnown
      <4>2. CASE caller[s].pc = "waiting"
        <5>1. /\ caller[s].conn \in Ids
              /\ \E p \in conns[caller[s].conn].pending : p[2] = s
              /\ conns[caller[s].conn].client = "terminated" => caller[s].late
          BY <4>2 DEF IInv, WaitersKnown
        <5> QED
          BY <3>1, <4>1, <4>2, <5>1
      <4>3. CASE caller[s].pc # "waiting"
        BY <3>1, <4>3 DEF IInv, WaitersKnown
      <4> QED
        BY <4>2, <4>3
    <3> QED
      BY <3>2, <3>3
  <2> QED
    BY <2>1, <2>2
<1> QED
  BY <1>9, <1>10, <1>12 DEF IInv

LEMMA TerminatedStep == ASSUME IInv, NEW c \in Ids, Terminated(c) PROVE IInv'
<1> DEFINE k == [conns[c] EXCEPT !.client = "terminated", !.pending = {}, !.down = {}]
<1>0. Typed /\ UNCHANGED <<handling, handled>>
  BY DEF IInv, Terminated
<1>1. conns[c] \in Connection
  BY <1>0, ConnectionType
<1>2. /\ k.client = "terminated" /\ k.server = conns[c].server /\ k.next_id = conns[c].next_id
      /\ k.pending = {} /\ k.up = conns[c].up /\ k.down = {}
  BY <1>1 DEF Connection
<1>3. k \in Connection
  BY <1>1, <1>2 DEF Connection
<1>4. conns' = [conns EXCEPT ![c] = k]
  BY DEF Terminated
<1> HIDE DEF k
<1>5. /\ conns' \in Seq(Connection) /\ Ids' = Ids /\ current' = current
      /\ conns'[c] = k /\ \A d \in Ids : d # c => conns'[d] = conns[d]
  BY <1>0, <1>3, <1>4, Replaced
<1>6. /\ DOMAIN caller' = Requests
      /\ \A s \in Requests :
            caller'[s] = IF s \in WaitersOf(c) THEN Ended("failed") ELSE caller[s]
      /\ caller' = [s \in Requests |-> IF s \in WaitersOf(c) THEN Ended("failed") ELSE caller[s]]
  BY DEF Terminated
<1>7. Ended("failed") \in Caller /\ Ended("failed").pc = "ended" /\ Ended("failed").result = "failed"
  BY DEF Ended, New, Caller
<1>8. Typed'
  <2>1. \A s \in Requests : caller'[s] \in Caller
    BY <1>0, <1>6, <1>7 DEF Typed
  <2> QED
    BY <1>0, <1>5, <1>6, <2>1 DEF Typed
<1>9. NumbersTaken' /\ TasksKnown' /\ NewUnseen' /\ SentOnce' /\ StreamsMatch'
  <2>1. \A s \in Requests : caller'[s].pc = "new" => caller[s].pc = "new"
    BY <1>6, <1>7
  <2> QED
    BY <1>0, <1>2, <1>5, <2>1, Less
<1>10. WaitersKnown'
  <2> SUFFICES ASSUME NEW s \in Requests
               PROVE  /\ caller'[s].pc = "waiting" =>
                            /\ caller'[s].conn \in Ids
                            /\ \E p \in conns'[caller'[s].conn].pending : p[2] = s
                            /\ conns'[caller'[s].conn].client = "terminated" => caller'[s].late
                      /\ caller'[s].pc = "ended" => caller'[s].result \in {s, "failed"}
    BY <1>5 DEF WaitersKnown
  <2>1. CASE s \in WaitersOf(c)
    BY <1>6, <1>7, <2>1
  <2>2. CASE s \notin WaitersOf(c)
    <3>1. caller[s].pc = "waiting" => conns'[caller[s].conn] = conns[caller[s].conn]
      BY <1>5, <2>2 DEF WaitersOf, IInv, WaitersKnown
    <3> QED
      BY <1>5, <1>6, <2>2, <3>1 DEF IInv, WaitersKnown
  <2> QED
    BY <2>1, <2>2
<1> QED
  BY <1>8, <1>9, <1>10 DEF IInv

\* The new connection has seen nothing.
LEMMA ReconnectStep == ASSUME IInv, Reconnect PROVE IInv'
<1>0. Typed /\ UNCHANGED <<caller, handling, handled>> /\ conns' = Append(conns, Fresh)
  BY DEF IInv, Reconnect
<1>1. /\ Fresh \in Connection /\ Fresh.pending = {} /\ Fresh.up = {} /\ Fresh.down = {}
  BY DEF Fresh, Connection
<1>2. conns \in Seq(Connection) /\ Ids = 1..current /\ current \in Nat /\ current = Len(conns)
  BY <1>0, CurrentKnown DEF Typed, current
<1>3. /\ conns' \in Seq(Connection) /\ Len(conns') = current + 1
      /\ \A d \in Ids : conns'[d] = conns[d]
      /\ conns'[current + 1] = Fresh
  BY <1>0, <1>1, <1>2, AppendProperties
<1>4. current' = current + 1 /\ Ids' = Ids \cup {current + 1} /\ current + 1 \notin Ids
  <2>1. current' = current + 1 /\ Ids' = 1..(current + 1)
    BY <1>3, LenProperties DEF current, Ids
  <2> QED
    BY <1>2, <2>1
<1>5. Typed'
  BY <1>0, <1>2, <1>3, <1>4 DEF Typed
<1>s. \A d \in Ids' : \/ d \in Ids /\ conns'[d] = conns[d]
                      \/ conns'[d].pending = {} /\ conns'[d].up = {} /\ conns'[d].down = {}
  BY <1>1, <1>3, <1>4
<1>6. NumbersTaken'
  BY <1>s DEF IInv, NumbersTaken
<1>7. TasksKnown'
  BY <1>0, <1>3, <1>4 DEF IInv, TasksKnown
<1>7a. NewUnseen'
  BY <1>0, <1>s DEF IInv, NewUnseen
<1>8. SentOnce'
  <2>1. \A d \in Ids' : \A m \in conns'[d].up : d \in Ids /\ m \in conns[d].up
    BY <1>s
  <2>2. \A d, e \in Ids' : \A m \in conns'[d].up, n \in conns'[e].up : m[2] = n[2] => d = e /\ m = n
    BY <2>1 DEF IInv, SentOnce
  <2>3. \A d \in Ids' : \A m \in conns'[d].up : m[2] \notin handled /\ \A task \in handling : m[2] # task[3]
    BY <2>1 DEF IInv, SentOnce
  <2>4. /\ \A task, other \in handling : task[3] = other[3] => task = other
        /\ \A task \in handling : task[3] \notin handled
    BY DEF IInv, SentOnce
  <2> QED
    BY <1>0, <2>2, <2>3, <2>4 DEF SentOnce
<1>9. StreamsMatch'
  <2>1. \A task \in handling : conns'[task[1]] = conns[task[1]]
    BY <1>3 DEF IInv, TasksKnown
  <2> QED
    <3>1. \A d \in Ids' : \A m \in conns'[d].up, p \in conns'[d].pending : m[1] = p[1] => m[2] = p[2]
      BY <1>s DEF IInv, StreamsMatch
    <3>2. \A d \in Ids' : \A m \in conns'[d].down : m[2] # Empty =>
            m[2] \in handled /\ \A p \in conns'[d].pending : m[1] = p[1] => m[2] = p[2]
      BY <1>s DEF IInv, StreamsMatch
    <3>3. \A task \in handling : \A p \in conns'[task[1]].pending : task[2] = p[1] => task[3] = p[2]
      BY <2>1 DEF IInv, StreamsMatch
    <3> QED
      BY <1>0, <3>1, <3>2, <3>3 DEF StreamsMatch
<1>10. WaitersKnown'
  BY <1>0, <1>3, <1>4 DEF IInv, WaitersKnown
<1> QED
  BY <1>5, <1>6, <1>7, <1>7a, <1>8, <1>9, <1>10 DEF IInv

LEMMA HandshakeDoneStep == ASSUME IInv, NEW c \in Ids, HandshakeDone(c) PROVE IInv'
<1> DEFINE k == [conns[c] EXCEPT !.client = "open", !.server = "open"]
<1>0. Typed /\ UNCHANGED <<caller, handling, handled>>
  BY DEF IInv, HandshakeDone
<1>1. conns[c] \in Connection
  BY <1>0, ConnectionType
<1>2. /\ k.client = "open" /\ k.server = "open" /\ k.next_id = conns[c].next_id
      /\ k.pending = conns[c].pending /\ k.up = conns[c].up /\ k.down = conns[c].down
  BY <1>1 DEF Connection
<1>3. k \in Connection
  BY <1>1, <1>2 DEF Connection
<1>4. conns' = [conns EXCEPT ![c] = k]
  BY DEF HandshakeDone
<1> HIDE DEF k
<1>5. /\ conns' \in Seq(Connection) /\ Ids' = Ids /\ current' = current
      /\ conns'[c] = k /\ \A d \in Ids : d # c => conns'[d] = conns[d]
  BY <1>0, <1>3, <1>4, Replaced
<1>6. Typed'
  BY <1>0, <1>5 DEF Typed
<1>7. NumbersTaken' /\ TasksKnown' /\ NewUnseen' /\ SentOnce' /\ StreamsMatch'
  BY <1>0, <1>2, <1>5, Less
<1>8. WaitersKnown'
  <2>1. \A d \in Ids : /\ conns'[d].pending = conns[d].pending
                       /\ conns'[d].client = "terminated" => conns[d].client = "terminated"
    BY <1>2, <1>5
  <2> QED
    BY <1>0, <1>5, <2>1 DEF IInv, WaitersKnown
<1> QED
  BY <1>6, <1>7, <1>8 DEF IInv

LEMMA SessionEndsStep == ASSUME IInv, NEW c \in Ids, SessionEnds(c) PROVE IInv'
<1> DEFINE k == [conns[c] EXCEPT !.server = "closed", !.up = {}, !.down = {}]
<1>0. Typed /\ UNCHANGED <<caller, handling, handled>>
  BY DEF IInv, SessionEnds
<1>1. conns[c] \in Connection
  BY <1>0, ConnectionType
<1>2. /\ k.client = conns[c].client /\ k.server = "closed" /\ k.next_id = conns[c].next_id
      /\ k.pending = conns[c].pending /\ k.up = {} /\ k.down = {}
  BY <1>1 DEF Connection
<1>3. k \in Connection
  BY <1>1, <1>2 DEF Connection
<1>4. conns' = [conns EXCEPT ![c] = k]
  BY DEF SessionEnds
<1> HIDE DEF k
<1>5. /\ conns' \in Seq(Connection) /\ Ids' = Ids /\ current' = current
      /\ conns'[c] = k /\ \A d \in Ids : d # c => conns'[d] = conns[d]
  BY <1>0, <1>3, <1>4, Replaced
<1>6. Typed'
  BY <1>0, <1>5 DEF Typed
<1>7. NumbersTaken' /\ TasksKnown' /\ NewUnseen' /\ SentOnce' /\ StreamsMatch'
  BY <1>0, <1>2, <1>5, Less
<1>8. WaitersKnown'
  <2>1. \A d \in Ids : /\ conns'[d].pending = conns[d].pending
                       /\ conns'[d].client = conns[d].client
    BY <1>2, <1>5
  <2> QED
    BY <1>0, <1>5, <2>1 DEF IInv, WaitersKnown
<1> QED
  BY <1>6, <1>7, <1>8 DEF IInv

LEMMA ReceiveStep == ASSUME IInv, NEW c \in Ids, Receive(c) PROVE IInv'
<1> PICK m \in conns[c].up :
        /\ conns' = [conns EXCEPT ![c].up = @ \ {m}]
        /\ handling' = handling \cup {<<c, m[1], m[2]>>}
  BY DEF Receive
<1> DEFINE k == [conns[c] EXCEPT !.up = @ \ {m}]
<1>0. Typed /\ UNCHANGED <<caller, handled>>
  BY DEF IInv, Receive
<1>1. conns[c] \in Connection /\ m = <<m[1], m[2]>> /\ m[1] \in Nat /\ m[2] \in Requests
  BY <1>0, ConnectionType DEF Streams
<1>2. /\ k.client = conns[c].client /\ k.server = conns[c].server /\ k.next_id = conns[c].next_id
      /\ k.pending = conns[c].pending /\ k.up = conns[c].up \ {m} /\ k.down = conns[c].down
  BY <1>1 DEF Connection
<1>3. k \in Connection
  BY <1>1, <1>2 DEF Connection
<1>4. conns' = [conns EXCEPT ![c] = k]
  OBVIOUS
<1> HIDE DEF k
<1>5. /\ conns' \in Seq(Connection) /\ Ids' = Ids /\ current' = current
      /\ conns'[c] = k /\ \A d \in Ids : d # c => conns'[d] = conns[d]
  BY <1>0, <1>3, <1>4, Replaced
<1>6. \A d \in Ids : /\ conns'[d].client = conns[d].client /\ conns'[d].next_id = conns[d].next_id
                     /\ conns'[d].pending = conns[d].pending /\ conns'[d].down = conns[d].down
                     /\ conns'[d].up = IF d = c THEN conns[d].up \ {m} ELSE conns[d].up
  <2> SUFFICES ASSUME NEW d \in Ids
               PROVE  /\ conns'[d].client = conns[d].client /\ conns'[d].next_id = conns[d].next_id
                      /\ conns'[d].pending = conns[d].pending /\ conns'[d].down = conns[d].down
                      /\ conns'[d].up = IF d = c THEN conns[d].up \ {m} ELSE conns[d].up
    OBVIOUS
  <2>1. CASE d = c
    BY <1>2, <1>5, <2>1
  <2>2. CASE d # c
    BY <1>5, <2>2
  <2> QED
    BY <2>1, <2>2
<1>7. \A task \in handling' : task \in handling \/ task = <<c, m[1], m[2]>>
  OBVIOUS
<1>8. Typed'
  <2>1. c \in Nat
    BY <1>0, CurrentKnown
  <2> QED
    BY <1>0, <1>1, <1>5, <2>1 DEF Typed
<1>9. NumbersTaken' /\ WaitersKnown'
  BY <1>0, <1>5, <1>6 DEF IInv, NumbersTaken, WaitersKnown
<1>10. TasksKnown'
  BY <1>5, <1>6, <1>7 DEF IInv, TasksKnown, NumbersTaken
<1>11. NewUnseen'
  BY <1>0, <1>5, <1>6, <1>7 DEF IInv, NewUnseen
<1>12. SentOnce'
  <2>1. \A d \in Ids : \A n \in conns'[d].up : n[2] # m[2]
    BY <1>6, SMTT(30) DEF IInv, SentOnce
  <2>2. \A task \in handling : task[3] # m[2]
    BY DEF IInv, SentOnce
  <2>3. \A d, e \in Ids : \A n \in conns'[d].up, o \in conns'[e].up :
            n[2] = o[2] => d = e /\ n = o
    BY <1>6 DEF IInv, SentOnce
  <2>4. \A d \in Ids : \A n \in conns'[d].up : \A task \in handling' : n[2] # task[3]
    BY <1>6, <1>7, <2>1 DEF IInv, SentOnce
  <2>5. \A task, other \in handling' : task[3] = other[3] => task = other
    BY <1>7, <2>2 DEF IInv, SentOnce
  <2>6. \A d \in Ids : \A n \in conns'[d].up : n[2] \notin handled
    BY <1>6 DEF IInv, SentOnce
  <2>7. \A task \in handling' : task[3] \notin handled
    BY <1>7 DEF IInv, SentOnce
  <2> QED
    BY <1>0, <1>5, <2>3, <2>4, <2>5, <2>6, <2>7 DEF SentOnce
<1>13. StreamsMatch'
  BY <1>0, <1>5, <1>6, <1>7 DEF IInv, StreamsMatch, TasksKnown
<1> QED
  BY <1>8, <1>9, <1>10, <1>11, <1>12, <1>13 DEF IInv

LEMMA DispatchStep == ASSUME IInv, Dispatch PROVE IInv'
<1> PICK task \in handling, bad \in BOOLEAN :
        /\ handling' = handling \ {task}
        /\ handled' = handled \cup {task[3]}
        /\ conns' = IF Established(task[1])
                    THEN [conns EXCEPT ![task[1]].down =
                            @ \cup {<<task[2], IF bad THEN Empty ELSE task[3]>>}]
                    ELSE conns
  BY DEF Dispatch
<1> DEFINE c == task[1]
           answer == <<task[2], IF bad THEN Empty ELSE task[3]>>
           k == [conns[c] EXCEPT !.down = @ \cup {answer}]
<1>0. Typed /\ UNCHANGED caller
  BY DEF IInv, Dispatch
<1>1. /\ c \in Ids /\ task[2] < conns[c].next_id /\ conns[c] \in Connection
      /\ task[2] \in Nat /\ task[3] \in Requests
  BY <1>0, ConnectionType DEF IInv, TasksKnown, Typed
<1>2. /\ answer \in Replies /\ answer[1] = task[2] /\ answer[2] \in {Empty, task[3]}
  BY <1>1 DEF Replies
<1> HIDE DEF answer
<1>3. /\ k.client = conns[c].client /\ k.server = conns[c].server /\ k.next_id = conns[c].next_id
      /\ k.pending = conns[c].pending /\ k.up = conns[c].up /\ k.down = conns[c].down \cup {answer}
  BY <1>1 DEF Connection
<1>4. k \in Connection
  BY <1>1, <1>2, <1>3 DEF Connection
<1>5. conns' = conns \/ conns' = [conns EXCEPT ![c] = k]
  BY DEF answer
<1> HIDE DEF k
<1>6. /\ conns' \in Seq(Connection) /\ Ids' = Ids /\ current' = current
      /\ conns' = conns \/ (conns'[c] = k /\ \A d \in Ids : d # c => conns'[d] = conns[d])
  BY <1>0, <1>1, <1>4, <1>5, Replaced DEF Ids, current, Typed
<1>7. \A d \in Ids :
        /\ conns'[d].client = conns[d].client /\ conns'[d].next_id = conns[d].next_id
        /\ conns'[d].pending = conns[d].pending /\ conns'[d].up = conns[d].up
        /\ \A m \in conns'[d].down : m \in conns[d].down \/ (d = c /\ m = answer)
  <2> SUFFICES ASSUME NEW d \in Ids
               PROVE /\ conns'[d].client = conns[d].client /\ conns'[d].next_id = conns[d].next_id
                     /\ conns'[d].pending = conns[d].pending /\ conns'[d].up = conns[d].up
                     /\ \A m \in conns'[d].down : m \in conns[d].down \/ (d = c /\ m = answer)
    OBVIOUS
  <2>1. CASE conns'[d] = conns[d]
    BY <2>1
  <2>2. CASE d = c /\ conns'[d] = k
    BY <1>3, <2>2
  <2> QED
    BY <1>6, <2>1, <2>2
<1>8. Typed'
  BY <1>0, <1>1, <1>6 DEF Typed
<1>9. NumbersTaken' /\ WaitersKnown'
  <2>1. NumbersTaken'
    BY <1>1, <1>2, <1>6, <1>7 DEF IInv, NumbersTaken
  <2>2. WaitersKnown'
    BY <1>0, <1>6, <1>7 DEF IInv, WaitersKnown
  <2> QED
    BY <2>1, <2>2
<1>10. TasksKnown'
  BY <1>6, <1>7 DEF IInv, TasksKnown
<1>11. NewUnseen'
  <2>1. caller[task[3]].pc # "new"
    BY <1>1 DEF IInv, NewUnseen
  <2> QED
    BY <1>0, <1>6, <1>7, <2>1 DEF IInv, NewUnseen
<1>12. SentOnce'
  <2>1. \A d \in Ids : \A n \in conns[d].up : n[2] # task[3]
    BY DEF IInv, SentOnce
  <2>2. \A other \in handling' : other \in handling /\ other[3] # task[3]
    BY DEF IInv, SentOnce
  <2> QED
    BY <1>6, <1>7, <2>1, <2>2 DEF IInv, SentOnce
<1>13. StreamsMatch'
  <2>1. \A d \in Ids : \A m \in conns'[d].up, p \in conns'[d].pending : m[1] = p[1] => m[2] = p[2]
    BY <1>7 DEF IInv, StreamsMatch
  <2>2. \A other \in handling' : \A p \in conns'[other[1]].pending : other[2] = p[1] => other[3] = p[2]
    BY <1>7 DEF IInv, StreamsMatch, TasksKnown
  <2>3. \A p \in conns[c].pending : answer[1] = p[1] => task[3] = p[2]
    BY <1>2 DEF IInv, StreamsMatch
  <2>4. \A d \in Ids : \A m \in conns'[d].down : m[2] # Empty =>
            m[2] \in handled' /\ \A p \in conns'[d].pending : m[1] = p[1] => m[2] = p[2]
    <3> SUFFICES ASSUME NEW d \in Ids, NEW m \in conns'[d].down, m[2] # Empty
                 PROVE  m[2] \in handled' /\ \A p \in conns'[d].pending : m[1] = p[1] => m[2] = p[2]
      OBVIOUS
    <3>1. CASE m \in conns[d].down
      BY <1>7, <3>1 DEF IInv, StreamsMatch
    <3>2. CASE d = c /\ m = answer
      BY <1>2, <1>7, <2>3, <3>2
    <3> QED
      BY <1>7, <3>1, <3>2
  <2> QED
    BY <1>6, <2>1, <2>2, <2>4 DEF StreamsMatch
<1> QED
  BY <1>8, <1>9, <1>10, <1>11, <1>12, <1>13 DEF IInv

\* Nothing the invariant speaks of changes.
LEMMA Stutter == ASSUME IInv, UNCHANGED <<conns, caller, handling, handled>> PROVE IInv'
<1>1. Ids' = Ids /\ current' = current
  BY DEF Ids, current
<1>2. NumbersTaken' /\ TasksKnown' /\ NewUnseen' /\ SentOnce' /\ StreamsMatch'
  BY <1>1, Less
<1> QED
  BY <1>1, <1>2 DEF IInv, Typed, WaitersKnown

\* Whatever the order of requests, replies, ends of connections and reconnects.
THEOREM Invariance == Spec => []IInv
<1>1. IInv /\ [Next]_vars => IInv'
  <2> SUFFICES ASSUME IInv, [Next]_vars PROVE IInv'
    OBVIOUS
  <2>1. CASE \E r \in Requests : Request(r) \/ GiveUp(r)
    BY <2>1, RequestStep, GiveUpStep
  <2>2. CASE Reconnect
    BY <2>2, ReconnectStep
  <2>3. CASE ReconnectTimesOut \/ UNCHANGED vars
    BY <2>3, Stutter DEF ReconnectTimesOut, vars
  <2>4. CASE \E c \in Ids : StreamEnded(c) \/ Terminated(c) \/ HandshakeDone(c) \/ SessionEnds(c)
    BY <2>4, StreamEndedStep, TerminatedStep, HandshakeDoneStep, SessionEndsStep
  <2>5. CASE Serving
    BY <2>5, ReceiveStep, DispatchStep DEF Serving
  <2> QED
    BY <2>1, <2>2, <2>3, <2>4, <2>5 DEF Next
<1> QED
  BY <1>1, Initially, PTL DEF Spec

\* A request is lost sight of only if it was made on a connection that had
\* ended: a waiter that is there when its connection ends is told.
THEOREM NoneLost == Spec => []LostOnlyIfLate
<1>1. IInv => LostOnlyIfLate
  BY DEF IInv, WaitersKnown, LostOnlyIfLate
<1> QED
  BY <1>1, Invariance, PTL

\* The four things a caller can show.
LEMMA ShownValues ==
    ASSUME NEW r \in Requests, NEW call
    PROVE  /\ call.pc # "ended" => Shown(r, call) = call.pc
           /\ call.pc = "ended" /\ call.result = r => Shown(r, call) = "answered"
           /\ call.pc = "ended" /\ call.result = "failed" => Shown(r, call) = "failed"
  BY QuicAssumption DEF Shown

\* Some of those that wait fail together, or none do.
LEMMA FailTogether ==
    ASSUME Typed, Typed', NEW some \in SUBSET Requests,
           \A r \in some : caller[r].pc = "waiting" /\ caller'[r] = Ended("failed"),
           \A r \in Requests \ some : caller'[r] = caller[r],
           UNCHANGED handled
    PROVE  [Promise!Next]_(Promise!vars)
<1>1. \A r \in some : Seen[r] = "waiting"
  BY ShownValues DEF Seen
<1>2. Ended("failed").pc = "ended" /\ Ended("failed").result = "failed"
  BY DEF Ended, New
<1>3. \A r \in some : Seen'[r] = "failed"
  BY <1>2, ShownValues DEF Seen
<1>4. Seen' = [r \in Requests |-> IF r \in some THEN "failed" ELSE Seen[r]]
  BY <1>3 DEF Seen
<1>5. CASE some = {}
  <2>1. Seen' = Seen
    BY <1>4, <1>5 DEF Seen
  <2> QED
    BY <2>1 DEF Promise!vars
<1>6. CASE some # {}
  <2>1. some \in (SUBSET Promise!Waiting) \ {{}}
    <3>1. \A r \in some : r \in Promise!Waiting
      BY <1>1 DEF Promise!Waiting
    <3> QED
      BY <1>6, <3>1
  <2> QED
    BY <1>4, <2>1 DEF Promise!Next, Promise!Fail
<1> QED
  BY <1>5, <1>6

\* The tunnel implements what is promised of a request: it ends once, with its
\* own reply or an error, and is handled at most once, before it is answered.
THEOREM Promised == Spec => KeepsPromise
<1>1. Init => Promise!Init
  <2> SUFFICES ASSUME Init PROVE Promise!Init
    OBVIOUS
  <2>1. \A r \in Requests : caller[r].pc = "new"
    BY DEF Init, New
  <2>2. \A r \in Requests : Seen[r] = "new"
    BY <2>1, ShownValues DEF Seen
  <2>3. Seen = [r \in Requests |-> "new"]
    BY <2>2 DEF Seen
  <2> QED
    BY <2>3 DEF Promise!Init, Init
<1>2. IInv /\ IInv' /\ [Next]_vars => [Promise!Next]_(Promise!vars)
  <2> SUFFICES ASSUME IInv, IInv', [Next]_vars PROVE [Promise!Next]_(Promise!vars)
    OBVIOUS
  <2>0. Typed /\ Typed'
    BY DEF IInv
  <2>1. ASSUME NEW r \in Requests, Request(r) PROVE [Promise!Next]_(Promise!vars)
    <3>1. /\ caller[r].pc = "new" /\ caller'[r].pc = "waiting" /\ UNCHANGED handled
          /\ \A s \in Requests \ {r} : caller'[s] = caller[s]
      BY <2>0, <2>1 DEF Request, Typed
    <3>2. Seen[r] = "new" /\ Seen'[r] = "waiting"
      BY <3>1, ShownValues DEF Seen
    <3>3. Seen' = [Seen EXCEPT ![r] = "waiting"]
      BY <3>1, <3>2 DEF Seen
    <3>4. Promise!Ask(r)
      BY <3>1, <3>2, <3>3 DEF Promise!Ask
    <3> QED
      BY <3>4 DEF Promise!Next
  <2>2. ASSUME NEW r \in Requests, GiveUp(r) PROVE [Promise!Next]_(Promise!vars)
    BY <2>0, <2>2, FailTogether, {r} \in SUBSET Requests DEF GiveUp, Typed
  <2>3. ASSUME NEW c \in Ids, StreamEnded(c) PROVE [Promise!Next]_(Promise!vars)
    <3> PICK m \in conns[c].down :
            LET mine == {p \in conns[c].pending : p[1] = m[1] /\ m[2] # Empty}
            IN  caller' = [r \in Requests |->
                    IF r \in WaitersOf(c) /\ <<m[1], r>> \in mine THEN Ended(m[2]) ELSE caller[r]]
      BY <2>3 DEF StreamEnded
    <3> DEFINE r == m[2]
               told == r \in WaitersOf(c) /\ <<m[1], r>> \in conns[c].pending /\ r # Empty
    <3>0. UNCHANGED handled
      BY <2>3 DEF StreamEnded
    <3>1. \A s \in Requests : <<m[1], s>> \in conns[c].pending /\ m[2] # Empty => m[2] = s
      BY DEF IInv, StreamsMatch
    <3>2. \A s \in Requests : caller'[s] = IF s = r /\ told THEN Ended(r) ELSE caller[s]
      BY <3>1
    <3>3. CASE told
      <4>1. r \in Requests /\ r \in handled /\ caller[r].pc = "waiting"
        BY <3>3 DEF WaitersOf, IInv, StreamsMatch
      <4>2. caller'[r].pc = "ended" /\ caller'[r].result = r
        BY <3>2, <3>3, <4>1 DEF Ended, New
      <4>3. Seen[r] = "waiting" /\ Seen'[r] = "answered"
        BY <4>1, <4>2, ShownValues DEF Seen
      <4>4. Seen' = [Seen EXCEPT ![r] = "answered"]
        BY <3>2, <4>1, <4>3 DEF Seen
      <4>5. Promise!Answer(r)
        BY <3>0, <4>1, <4>3, <4>4 DEF Promise!Answer, Promise!Waiting
      <4> QED
        BY <4>1, <4>5 DEF Promise!Next
    <3>4. CASE ~told
      BY <3>0, <3>2, <3>4 DEF Seen, Promise!vars
    <3> QED
      BY <3>3, <3>4
  <2>4. ASSUME NEW c \in Ids, Terminated(c) PROVE [Promise!Next]_(Promise!vars)
    <3>1. WaitersOf(c) \in SUBSET Requests /\ \A r \in WaitersOf(c) : caller[r].pc = "waiting"
      BY DEF WaitersOf
    <3>2. /\ \A r \in WaitersOf(c) : caller'[r] = Ended("failed")
          /\ \A r \in Requests \ WaitersOf(c) : caller'[r] = caller[r]
          /\ UNCHANGED handled
      BY <2>4, <3>1 DEF Terminated
    <3> QED
      BY <2>0, <3>1, <3>2, FailTogether
  <2>5. CASE Dispatch
    <3>1. PICK task \in handling : handled' = handled \cup {task[3]}
      BY <2>5 DEF Dispatch
    <3>2. task[3] \in Requests /\ task[3] \notin handled /\ caller[task[3]].pc # "new"
      BY <2>0 DEF IInv, SentOnce, NewUnseen, Typed
    <3>3. Seen[task[3]] # "new"
      <4>1. Shown(task[3], caller[task[3]]) # "new"
        BY <3>2 DEF Shown
      <4> QED
        BY <3>2, <4>1 DEF Seen
    <3>4. Seen' = Seen
      BY <2>5 DEF Dispatch, Seen
    <3>5. Promise!Handle(task[3])
      BY <3>1, <3>2, <3>3, <3>4 DEF Promise!Handle
    <3> QED
      BY <3>2, <3>5 DEF Promise!Next
  <2>6. ASSUME UNCHANGED <<caller, handled>> PROVE [Promise!Next]_(Promise!vars)
    BY <2>6 DEF Seen, Promise!vars
  <2> QED
    BY <2>1, <2>2, <2>3, <2>4, <2>5, <2>6
    DEF Next, Serving, Reconnect, ReconnectTimesOut, HandshakeDone, SessionEnds, Receive, vars
<1> QED
  BY <1>1, <1>2, Invariance, PTL DEF Spec, KeepsPromise, Promise!Spec
=============================================================================
