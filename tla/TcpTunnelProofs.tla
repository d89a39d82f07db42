--------------------------- MODULE TcpTunnelProofs ---------------------------
(***************************************************************************)
(* What holds of requests over TCP for any number of calls, connections    *)
(* and events: no waiter is forgotten, and the tunnel implements           *)
(* RequestReply.                                                           *)
(***************************************************************************)
EXTENDS TcpTunnel, SequenceTheorems, TLAPS

Frames == Nat \X Calls
Replies == Nat \X (Requests \cup {Empty, Push})

Connection ==
    [client : {"connecting", "open", "closed"}, server : {"none", "open", "closed"},
     pending : SUBSET ((Nat \ {0}) \X Requests), next_id : Nat \ {0},
     up : Seq(Frames), down : Seq(Replies), broken : BOOLEAN]

Caller == [pc : {"new", "dialing", "waiting", "ended"}, conn : Nat,
           result : {"none", "failed", "sent"} \cup Requests]

Typed ==
    /\ conns \in Seq(Connection)
    /\ current \in Ids \cup {0} /\ migrating \in Ids \cup {0}
    /\ caller \in [Calls -> Caller]
    /\ handling \subseteq Nat \X Nat \X Calls
    /\ handled \subseteq Requests

\* A connection that is being made has one who waits for it, a caller or
\* migrate(); only one that is open has waiters.
DialsApart ==
    /\ \A r \in Calls : caller[r].pc = "dialing" =>
            /\ caller[r].conn \in Ids /\ conns[caller[r].conn].client = "connecting"
            /\ caller[r].conn # migrating
            /\ \A s \in Calls : caller[s].pc = "dialing" /\ caller[s].conn = caller[r].conn => s = r
    /\ migrating # 0 => conns[migrating].client = "connecting"
    /\ current # 0 => conns[current].client # "connecting"
    /\ \A c \in Ids : conns[c].client # "open" => conns[c].pending = {}

\* An id is one the connection has given out, and its waiter's own.
NumbersTaken ==
    /\ \A c \in Ids :
        /\ \A p \in conns[c].pending : p[1] < conns[c].next_id
        /\ \A p, q \in conns[c].pending : p[1] = q[1] => p = q
        /\ \A i \in DOMAIN conns[c].up : conns[c].up[i][1] < conns[c].next_id
        /\ \A i \in DOMAIN conns[c].down : conns[c].down[i][1] < conns[c].next_id
    /\ \A task \in handling : task[1] \in Ids /\ task[2] < conns[task[1]].next_id

\* A request that is yet to be sent has left no trace.
NewUnseen ==
    \A r \in Requests : caller[r].pc \in {"new", "dialing"} =>
        /\ r \notin handled
        /\ \A task \in handling : task[3] # r
        /\ \A c \in Ids : /\ \A p \in conns[c].pending : p[2] # r
                          /\ \A i \in DOMAIN conns[c].up : conns[c].up[i][2] # r

\* A request is on its way at one place, and not once it has been handled.
SentOnce ==
    /\ \A c, d \in Ids : \A i \in DOMAIN conns[c].up, j \in DOMAIN conns[d].up :
            conns[c].up[i][2] \in Requests /\ conns[c].up[i][2] = conns[d].up[j][2] => c = d /\ i = j
    /\ \A c \in Ids : \A i \in DOMAIN conns[c].up : conns[c].up[i][2] \in Requests =>
            /\ \A task \in handling : conns[c].up[i][2] # task[3]
            /\ conns[c].up[i][2] \notin handled
    /\ \A task, other \in handling : task[3] \in Requests /\ task[3] = other[3] => task = other
    /\ \A task \in handling : task[3] \notin handled

\* An id is for one request, at either end and both ways, and 0 is for none; a
\* reply is to a request that was handled.
IdsMatch ==
    /\ \A c \in Ids : \A i \in DOMAIN conns[c].up :
            /\ conns[c].up[i][1] = ONEWAY <=> conns[c].up[i][2] \in Notices
            /\ \A p \in conns[c].pending : conns[c].up[i][1] = p[1] => conns[c].up[i][2] = p[2]
    /\ \A task \in handling :
            /\ task[2] = ONEWAY <=> task[3] \in Notices
            /\ \A p \in conns[task[1]].pending : task[2] = p[1] => task[3] = p[2]
    /\ \A c \in Ids : \A i \in DOMAIN conns[c].down :
            conns[c].down[i][1] # ONEWAY /\ conns[c].down[i][2] # Empty =>
                /\ conns[c].down[i][2] \in handled
                /\ \A p \in conns[c].pending : conns[c].down[i][1] = p[1] => conns[c].down[i][2] = p[2]

\* A caller waits with its own waiter on an open connection; what it got is
\* its reply or an error.
WaitersKnown ==
    \A r \in Requests :
        /\ caller[r].pc = "waiting" =>
             /\ caller[r].conn \in Ids /\ conns[caller[r].conn].client = "open"
             /\ \E p \in conns[caller[r].conn].pending : p[2] = r
        /\ caller[r].pc = "ended" => caller[r].result \in {r, "failed"}

NoticesDoNotWait == \A r \in Notices : caller[r].pc # "waiting"

IInv ==
    /\ Typed /\ DialsApart /\ NumbersTaken /\ NewUnseen /\ SentOnce /\ IdsMatch
    /\ WaitersKnown /\ NoticesDoNotWait

\* Appending to a sequence adds one place, behind the others.
LEMMA Appending ==
    ASSUME NEW S, NEW q \in Seq(S), NEW e \in S
    PROVE  /\ Append(q, e) \in Seq(S) /\ Len(q) \in Nat /\ DOMAIN q = 1..Len(q)
           /\ DOMAIN Append(q, e) = DOMAIN q \cup {Len(q) + 1} /\ Len(q) + 1 \notin DOMAIN q
           /\ \A i \in DOMAIN q : Append(q, e)[i] = q[i]
           /\ Append(q, e)[Len(q) + 1] = e
<1>1. Len(q) \in Nat /\ DOMAIN q = 1..Len(q)
  BY LenProperties
<1>2. /\ Append(q, e) \in Seq(S) /\ Len(Append(q, e)) = Len(q) + 1
      /\ \A i \in 1..Len(q) : Append(q, e)[i] = q[i] /\ Append(q, e)[Len(q) + 1] = e
  BY AppendProperties
<1>3. DOMAIN Append(q, e) = 1..(Len(q) + 1)
  BY <1>2, LenProperties
<1> QED
  BY <1>1, <1>2, <1>3

\* What is left behind the head, and where it was.
LEMMA Taking ==
    ASSUME NEW S, NEW q \in Seq(S), q # <<>>
    PROVE  /\ Tail(q) \in Seq(S) /\ 1 \in DOMAIN q /\ Head(q) = q[1]
           /\ \A i \in DOMAIN Tail(q) :
                i \in Nat \ {0} /\ i + 1 \in DOMAIN q /\ Tail(q)[i] = q[i + 1]
<1>1. Len(q) \in Nat \ {0} /\ DOMAIN q = 1..Len(q)
  BY EmptySeq, LenProperties
<1>2. /\ Tail(q) \in Seq(S) /\ Len(Tail(q)) = Len(q) - 1
      /\ \A i \in 1..Len(Tail(q)) : Tail(q)[i] = q[i + 1]
  BY HeadTailProperties
<1>3. DOMAIN Tail(q) = 1..(Len(q) - 1)
  BY <1>2, LenProperties
<1> QED
  BY <1>1, <1>2, <1>3

\* A connection, its parts and what it carries.
LEMMA ConnectionType ==
    ASSUME Typed, NEW c \in Ids
    PROVE  /\ conns[c] \in Connection
           /\ \A p \in conns[c].pending : p = <<p[1], p[2]>> /\ p[1] \in Nat \ {0} /\ p[2] \in Requests
           /\ \A i \in DOMAIN conns[c].up : conns[c].up[i] \in Frames
           /\ \A i \in DOMAIN conns[c].down : conns[c].down[i] \in Replies
<1>1. conns \in Seq(Connection) /\ Ids = 1..Len(conns)
  BY LenProperties DEF Typed, Ids
<1>2. conns[c] \in Connection
  BY <1>1, ElementOfSeq
<1>3. conns[c].up \in Seq(Frames) /\ conns[c].down \in Seq(Replies)
  BY <1>2 DEF Connection
<1>4. \A i \in DOMAIN conns[c].up : conns[c].up[i] \in Frames
  BY <1>3, LenProperties, ElementOfSeq
<1>5. \A i \in DOMAIN conns[c].down : conns[c].down[i] \in Replies
  BY <1>3, LenProperties, ElementOfSeq
<1> QED
  BY <1>2, <1>4, <1>5 DEF Connection

LEMMA IdsPositive == ASSUME Typed PROVE Ids \subseteq Nat \ {0}
  BY LenProperties DEF Typed, Ids

\* Replacing a connection by another leaves a sequence of connections, and the
\* others as they were.
LEMMA Replacing ==
    ASSUME Typed, NEW c \in Ids, NEW k \in Connection, NEW cs, cs = [conns EXCEPT ![c] = k]
    PROVE  /\ cs \in Seq(Connection) /\ Len(cs) = Len(conns) /\ DOMAIN cs = Ids
           /\ cs[c] = k /\ \A d \in Ids : d # c => cs[d] = conns[d]
<1>1. conns \in Seq(Connection) /\ Ids = 1..Len(conns)
  BY LenProperties DEF Typed, Ids
<1>2. /\ cs \in Seq(Connection) /\ Len(cs) = Len(conns)
      /\ \A d \in 1..Len(conns) : cs[d] = IF d = c THEN k ELSE conns[d]
  BY <1>1, ExceptSeq
<1>3. DOMAIN cs = 1..Len(cs)
  BY <1>2, LenProperties
<1> QED
  BY <1>1, <1>2, <1>3

LEMMA ConnectingType == Connecting \in Connection
<1>1. <<>> \in Seq(Frames) /\ <<>> \in Seq(Replies)
  BY EmptySeq
<1> QED
  BY <1>1 DEF Connecting, Connection

\* A new connection comes behind the others.
LEMMA Dialling ==
    ASSUME Typed, NEW cs \in Seq(Connection), Len(cs) = Len(conns),
           conns' = Append(cs, Connecting)
    PROVE  /\ conns' \in Seq(Connection) /\ Ids' = Ids \cup {Len(conns) + 1}
           /\ Len(conns) + 1 \notin Ids /\ Len(conns) + 1 \in Nat \ {0} /\ Len(conns') = Len(conns) + 1
           /\ \A d \in Ids : conns'[d] = cs[d]
           /\ conns'[Len(conns) + 1] = Connecting
<1>1. conns \in Seq(Connection) /\ Ids = 1..Len(conns) /\ Len(conns) \in Nat
  BY LenProperties DEF Typed, Ids
<1>2. /\ conns' \in Seq(Connection) /\ DOMAIN conns' = DOMAIN cs \cup {Len(cs) + 1}
      /\ Len(cs) + 1 \notin DOMAIN cs /\ DOMAIN cs = 1..Len(cs)
      /\ \A d \in DOMAIN cs : conns'[d] = cs[d]
      /\ conns'[Len(cs) + 1] = Connecting
  BY Appending, ConnectingType
<1>3. Len(conns') = Len(cs) + 1
  BY AppendProperties, ConnectingType
<1> QED
  BY <1>1, <1>2, <1>3 DEF Ids

\* What only takes messages and waiters away, or makes a connection without any,
\* disturbs neither ids nor traces nor matches.
LEMMA Less ==
    ASSUME IInv, UNCHANGED <<handling, handled>>, Ids \subseteq Ids',
           \A d \in Ids' :
               \/ /\ d \in Ids
                  /\ conns'[d].next_id = conns[d].next_id
                  /\ conns'[d].pending \subseteq conns[d].pending
                  /\ conns'[d].up = conns[d].up \/ conns'[d].up = <<>>
                  /\ \A i \in DOMAIN conns'[d].down :
                        \E j \in DOMAIN conns[d].down : conns'[d].down[i] = conns[d].down[j]
               \/ /\ d \notin Ids
                  /\ conns'[d].pending = {} /\ conns'[d].up = <<>> /\ conns'[d].down = <<>>,
           \A s \in Requests : caller'[s].pc \in {"new", "dialing"} => caller[s].pc \in {"new", "dialing"}
    PROVE  NumbersTaken' /\ NewUnseen' /\ SentOnce' /\ IdsMatch'
<1>0. DOMAIN <<>> = {}
  OBVIOUS
<1>1. \A d \in Ids' : \A p \in conns'[d].pending :
        d \in Ids /\ p \in conns[d].pending /\ conns'[d].next_id = conns[d].next_id
  OBVIOUS
<1>2. \A d \in Ids' : \A i \in DOMAIN conns'[d].up :
        /\ d \in Ids /\ i \in DOMAIN conns[d].up /\ conns'[d].up[i] = conns[d].up[i]
        /\ conns'[d].next_id = conns[d].next_id
  BY <1>0
<1>3. \A d \in Ids' : \A i \in DOMAIN conns'[d].down :
        /\ d \in Ids /\ conns'[d].next_id = conns[d].next_id
        /\ \E j \in DOMAIN conns[d].down : conns'[d].down[i] = conns[d].down[j]
  BY <1>0
<1>4. \A task \in handling : /\ task[1] \in Ids /\ conns'[task[1]].next_id = conns[task[1]].next_id
                             /\ conns'[task[1]].pending \subseteq conns[task[1]].pending
  BY DEF IInv, NumbersTaken
<1>5. NumbersTaken'
  <2>1. \A d \in Ids' : /\ \A p \in conns'[d].pending : p[1] < conns'[d].next_id
                        /\ \A p, q \in conns'[d].pending : p[1] = q[1] => p = q
    BY <1>1 DEF IInv, NumbersTaken
  <2>2. \A d \in Ids' : \A i \in DOMAIN conns'[d].up : conns'[d].up[i][1] < conns'[d].next_id
    BY <1>2 DEF IInv, NumbersTaken
  <2>3. \A d \in Ids' : \A i \in DOMAIN conns'[d].down : conns'[d].down[i][1] < conns'[d].next_id
    BY <1>3 DEF IInv, NumbersTaken
  <2>4. \A task \in handling' : task[1] \in Ids' /\ task[2] < conns'[task[1]].next_id
    BY <1>4 DEF IInv, NumbersTaken
  <2> QED
    BY <2>1, <2>2, <2>3, <2>4 DEF NumbersTaken
<1>6. NewUnseen'
  BY <1>1, <1>2 DEF IInv, NewUnseen
<1>7. SentOnce'
  <2>1. \A c, d \in Ids' : \A i \in DOMAIN conns'[c].up, j \in DOMAIN conns'[d].up :
            conns'[c].up[i][2] \in Requests /\ conns'[c].up[i][2] = conns'[d].up[j][2] => c = d /\ i = j
    BY <1>2 DEF IInv, SentOnce
  <2>2. \A c \in Ids' : \A i \in DOMAIN conns'[c].up : conns'[c].up[i][2] \in Requests =>
            /\ \A task \in handling' : conns'[c].up[i][2] # task[3]
            /\ conns'[c].up[i][2] \notin handled'
    BY <1>2 DEF IInv, SentOnce
  <2> QED
    BY <2>1, <2>2 DEF IInv, SentOnce
<1>8. IdsMatch'
  <2>1. \A c \in Ids' : \A i \in DOMAIN conns'[c].up :
            /\ conns'[c].up[i][1] = ONEWAY <=> conns'[c].up[i][2] \in Notices
            /\ \A p \in conns'[c].pending : conns'[c].up[i][1] = p[1] => conns'[c].up[i][2] = p[2]
    BY <1>1, <1>2 DEF IInv, IdsMatch
  <2>2. \A task \in handling' :
            /\ task[2] = ONEWAY <=> task[3] \in Notices
            /\ \A p \in conns'[task[1]].pending : task[2] = p[1] => task[3] = p[2]
    BY <1>4 DEF IInv, IdsMatch
  <2>3. \A c \in Ids' : \A i \in DOMAIN conns'[c].down :
            conns'[c].down[i][1] # ONEWAY /\ conns'[c].down[i][2] # Empty =>
                /\ conns'[c].down[i][2] \in handled'
                /\ \A p \in conns'[c].pending : conns'[c].down[i][1] = p[1] => conns'[c].down[i][2] = p[2]
    BY <1>1, <1>3 DEF IInv, IdsMatch
  <2> QED
    BY <2>1, <2>2, <2>3 DEF IdsMatch
<1> QED
  BY <1>5, <1>6, <1>7, <1>8

\* Callers that keep waiting keep an open connection and their waiter.
LEMMA WaitersKept ==
    ASSUME IInv, Ids \subseteq Ids',
           \A s \in Requests :
               \/ /\ caller'[s] = caller[s]
                  /\ caller[s].pc = "waiting" =>
                        /\ conns'[caller[s].conn].client = "open"
                        /\ \A p \in conns[caller[s].conn].pending :
                                p[2] = s => p \in conns'[caller[s].conn].pending
               \/ caller'[s].pc = "ended" /\ caller'[s].result \in {s, "failed"}
               \/ caller'[s].pc \in {"new", "dialing"}
    PROVE  WaitersKnown'
<1> SUFFICES ASSUME NEW s \in Requests
             PROVE  /\ caller'[s].pc = "waiting" =>
                         /\ caller'[s].conn \in Ids' /\ conns'[caller'[s].conn].client = "open"
                         /\ \E p \in conns'[caller'[s].conn].pending : p[2] = s
                    /\ caller'[s].pc = "ended" => caller'[s].result \in {s, "failed"}
  BY DEF WaitersKnown
<1>1. CASE caller[s].pc = "waiting"
  <2>1. /\ caller[s].conn \in Ids /\ \E p \in conns[caller[s].conn].pending : p[2] = s
    BY <1>1 DEF IInv, WaitersKnown
  <2> QED
    BY <1>1, <2>1
<1>2. CASE caller[s].pc # "waiting"
  BY <1>2 DEF IInv, WaitersKnown
<1> QED
  BY <1>1, <1>2

LEMMA Initially == Init => IInv
<1> SUFFICES ASSUME Init PROVE IInv
  OBVIOUS
<1>1. conns \in Seq(Connection) /\ Ids = {} /\ current = 0 /\ migrating = 0
  BY EmptySeq DEF Init, Ids
<1>2. /\ caller \in [Calls -> Caller] /\ \A r \in Calls : caller[r].pc = "new"
      /\ handling = {} /\ handled = {}
  BY DEF Init, New, Caller
<1>3. \A r \in Requests \cup Notices : caller[r].pc = "new"
  BY <1>2 DEF Calls
<1> QED
  BY <1>1, <1>2, <1>3
  DEF IInv, Typed, DialsApart, NumbersTaken, NewUnseen, SentOnce, IdsMatch, WaitersKnown,
      NoticesDoNotWait

\* A connection is lost or closed: its waiters are told.
LEMMA FailConnectionStep ==
    ASSUME IInv, NEW c \in Ids, conns[c].client # "connecting", FailConnection(c),
           current' \in {current, 0}, UNCHANGED <<migrating, handling, handled>>
    PROVE  IInv'
<1> DEFINE k == [conns[c] EXCEPT !.client = "closed", !.pending = {}, !.down = <<>>]
<1>0. Typed
  BY DEF IInv
<1>1. conns[c] \in Connection
  BY <1>0, ConnectionType
<1>2. /\ k.client = "closed" /\ k.server = conns[c].server /\ k.pending = {}
      /\ k.next_id = conns[c].next_id /\ k.up = conns[c].up /\ k.down = <<>>
      /\ k.broken = conns[c].broken
  BY <1>1 DEF Connection
<1>3. k \in Connection
  BY <1>1, <1>2, EmptySeq DEF Connection
<1>4. conns' = [conns EXCEPT ![c] = k]
  BY DEF FailConnection, Dropped
<1> HIDE DEF k
<1>5. /\ conns' \in Seq(Connection) /\ Ids' = Ids
      /\ conns'[c] = k /\ \A d \in Ids : d # c => conns'[d] = conns[d]
  BY <1>0, <1>3, <1>4, Replacing DEF Ids
<1>6. /\ DOMAIN caller' = Calls
      /\ \A s \in Calls : caller'[s] = IF s \in WaitersOf(c) THEN Ended("failed") ELSE caller[s]
  BY DEF FailConnection, Failed
<1>7. Ended("failed") \in Caller /\ Ended("failed").pc = "ended" /\ Ended("failed").result = "failed"
  BY DEF Ended, Caller
<1>8. Typed'
  <2>1. \A s \in Calls : caller'[s] \in Caller
    BY <1>0, <1>6, <1>7 DEF Typed
  <2>2. caller' \in [Calls -> Caller]
    BY <1>6, <2>1 DEF FailConnection, Failed
  <2> QED
    BY <1>0, <1>5, <2>2 DEF Typed
<1>9. DialsApart'
  <2>1. \A s \in Calls : caller'[s].pc = "dialing" => caller[s].pc = "dialing" /\ caller'[s] = caller[s]
    BY <1>6, <1>7
  <2>2. \A d \in Ids : /\ conns'[d].client = "connecting" <=> conns[d].client = "connecting"
                       /\ conns'[d].client # "open" => conns'[d].pending = {}
    BY <1>2, <1>5 DEF IInv, DialsApart
  <2> QED
    BY <1>0, <1>5, <2>1, <2>2 DEF IInv, DialsApart, Typed
<1>10. NumbersTaken' /\ NewUnseen' /\ SentOnce' /\ IdsMatch'
  <2>1. \A s \in Requests : caller'[s].pc \in {"new", "dialing"} => caller[s].pc \in {"new", "dialing"}
    BY <1>6, <1>7 DEF Calls
  <2>2. \A d \in Ids :
               /\ conns'[d].next_id = conns[d].next_id
               /\ conns'[d].pending \subseteq conns[d].pending
               /\ conns'[d].up = conns[d].up
               /\ \A i \in DOMAIN conns'[d].down :
                        \E j \in DOMAIN conns[d].down : conns'[d].down[i] = conns[d].down[j]
    <3>1. DOMAIN <<>> = {}
      OBVIOUS
    <3> QED
      BY <1>2, <1>5, <3>1
  <2> QED
    BY <1>5, <2>1, <2>2, Less
<1>11. WaitersKnown'
  <2>1. \A s \in Requests : s \in WaitersOf(c) \/ (caller[s].pc = "waiting" => caller[s].conn # c /\ caller[s].conn \in Ids)
    BY DEF WaitersOf, IInv, WaitersKnown, Calls
  <2>2. \A s \in Requests :
               \/ /\ caller'[s] = caller[s]
                  /\ caller[s].pc = "waiting" => conns'[caller[s].conn] = conns[caller[s].conn]
               \/ caller'[s].pc = "ended" /\ caller'[s].result \in {s, "failed"}
    BY <1>5, <1>6, <1>7, <2>1 DEF Calls
  <2>3. \A s \in Requests : caller[s].pc = "waiting" => conns[caller[s].conn].client = "open"
    BY DEF IInv, WaitersKnown
  <2> QED
    BY <1>5, <2>2, <2>3, WaitersKept
<1>12. NoticesDoNotWait'
  BY <1>6, <1>7 DEF IInv, NoticesDoNotWait, Calls
<1> QED
  BY <1>8, <1>9, <1>10, <1>11, <1>12 DEF IInv

LEMMA ReadMessageStep == ASSUME IInv, NEW c \in Ids, ReadMessage(c) PROVE IInv'
<1> DEFINE id == Head(conns[c].down)[1]
           reply == Head(conns[c].down)[2]
           mine == {p \in conns[c].pending : p[1] = id}
           k == [conns[c] EXCEPT !.down = Tail(@), !.pending = @ \ mine]
<1>0. Typed /\ UNCHANGED <<current, migrating, handling, handled>> /\ conns[c].client = "open"
      /\ conns[c].down # <<>>
  BY DEF IInv, ReadMessage
<1>1. CASE reply = Empty
  <2>1. FailConnection(c)
    BY <1>1 DEF ReadMessage
  <2> QED
    BY <1>0, <2>1, FailConnectionStep
<1>2. CASE reply # Empty
  <2>1. conns[c] \in Connection /\ conns[c].down \in Seq(Replies)
    BY <1>0, ConnectionType DEF Connection
  <2>2. /\ Tail(conns[c].down) \in Seq(Replies) /\ 1 \in DOMAIN conns[c].down
        /\ Head(conns[c].down) = conns[c].down[1]
        /\ \A i \in DOMAIN Tail(conns[c].down) :
                i + 1 \in DOMAIN conns[c].down /\ Tail(conns[c].down)[i] = conns[c].down[i + 1]
    BY <1>0, <2>1, Taking
  <2>3. /\ k.client = "open" /\ k.server = conns[c].server /\ k.next_id = conns[c].next_id
        /\ k.pending = conns[c].pending \ mine /\ k.up = conns[c].up
        /\ k.down = Tail(conns[c].down) /\ k.broken = conns[c].broken
    BY <1>0, <2>1 DEF Connection
  <2>4. k \in Connection
    BY <1>0, <2>1, <2>2, <2>3 DEF Connection
  <2>5. conns' = [conns EXCEPT ![c] = k]
    BY <1>2 DEF ReadMessage
  <2> HIDE DEF k
  <2>6. /\ conns' \in Seq(Connection) /\ Ids' = Ids
        /\ conns'[c] = k /\ \A d \in Ids : d # c => conns'[d] = conns[d]
    BY <1>0, <2>4, <2>5, Replacing DEF Ids
  <2>7. /\ caller' = [s \in Calls |-> IF s \in WaitersOf(c) /\ <<id, s>> \in mine
                                      THEN Ended(reply) ELSE caller[s]]
    BY <1>2 DEF ReadMessage
  <2>8. \A p \in mine : p = <<id, reply>> /\ reply \in Requests
    <3>1. \A p \in mine : p = <<id, p[2]>> /\ id # 0 /\ p[2] \in Requests
      BY <1>0, ConnectionType
    <3>2. \A p \in mine : reply = p[2]
      BY <1>2, <2>2, <3>1 DEF IInv, IdsMatch, ONEWAY
    <3> QED
      BY <3>1, <3>2
  <2> HIDE DEF mine
  <2>9. \A s \in Calls : \/ caller'[s] = caller[s] /\ ~(s \in WaitersOf(c) /\ <<id, s>> \in mine)
                         \/ s = reply /\ s \in Requests /\ caller'[s] = Ended(s)
    BY <2>7, <2>8
  <2>10. \A s \in Requests : Ended(s) \in Caller /\ Ended(s).pc = "ended" /\ Ended(s).result = s
    BY DEF Ended, Caller
  <2>11. Typed'
    <3>1. \A s \in Calls : caller'[s] \in Caller
      BY <1>0, <2>9, <2>10 DEF Typed
    <3>2. caller' \in [Calls -> Caller]
      BY <2>7, <3>1
    <3> QED
      BY <1>0, <2>6, <3>2 DEF Typed
  <2>12. DialsApart'
    <3>1. \A s \in Calls : caller'[s].pc = "dialing" => caller'[s] = caller[s]
      BY <2>9, <2>10
    <3>2. \A d \in Ids : /\ conns'[d].client = conns[d].client
                         /\ conns'[d].client # "open" => conns'[d].pending = {}
      BY <1>0, <2>3, <2>6 DEF IInv, DialsApart
    <3> QED
      BY <1>0, <2>6, <3>1, <3>2 DEF IInv, DialsApart, Typed
  <2>13. NumbersTaken' /\ NewUnseen' /\ SentOnce' /\ IdsMatch'
    <3>1. \A s \in Requests : caller'[s].pc \in {"new", "dialing"} => caller[s].pc \in {"new", "dialing"}
      BY <2>9, <2>10 DEF Calls
    <3>2. \A d \in Ids :
               /\ conns'[d].next_id = conns[d].next_id
               /\ conns'[d].pending \subseteq conns[d].pending
               /\ conns'[d].up = conns[d].up
               /\ \A i \in DOMAIN conns'[d].down :
                        \E j \in DOMAIN conns[d].down : conns'[d].down[i] = conns[d].down[j]
      <4> SUFFICES ASSUME NEW d \in Ids
                   PROVE  /\ conns'[d].next_id = conns[d].next_id
                          /\ conns'[d].pending \subseteq conns[d].pending
                          /\ conns'[d].up = conns[d].up
                          /\ \A i \in DOMAIN conns'[d].down :
                                \E j \in DOMAIN conns[d].down : conns'[d].down[i] = conns[d].down[j]
        OBVIOUS
      <4>1. CASE d = c
        <5>1. conns'[d] = k
          BY <2>6, <4>1
        <5>2. conns'[d].down = Tail(conns[d].down)
          BY <2>3, <4>1, <5>1
        <5> QED
          BY <2>2, <2>3, <4>1, <5>1, <5>2
      <4>2. CASE d # c
        BY <2>6, <4>2
      <4> QED
        BY <4>1, <4>2
    <3> QED
      BY <1>0, <2>6, <3>1, <3>2, Less
  <2>14. WaitersKnown'
    <3>1. \A s \in Requests : caller[s].pc = "waiting" => caller[s].conn \in Ids /\ conns[caller[s].conn].client = "open"
      BY DEF IInv, WaitersKnown
    <3>2. ASSUME NEW s \in Requests, caller'[s] = caller[s], caller[s].pc = "waiting",
                 ~(s \in WaitersOf(c) /\ <<id, s>> \in mine)
          PROVE  /\ conns'[caller[s].conn].client = "open"
                 /\ \A p \in conns[caller[s].conn].pending :
                        p[2] = s => p \in conns'[caller[s].conn].pending
      <4>1. CASE caller[s].conn # c
        BY <2>6, <3>1, <3>2, <4>1
      <4>2. CASE caller[s].conn = c
        <5>1. s \in WaitersOf(c)
          BY <3>2, <4>2 DEF WaitersOf, Calls
        <5> QED
          BY <2>3, <2>6, <2>8, <3>2, <4>2, <5>1
      <4> QED
        BY <4>1, <4>2
    <3>3. \A s \in Requests :
               \/ /\ caller'[s] = caller[s]
                  /\ caller[s].pc = "waiting" =>
                        /\ conns'[caller[s].conn].client = "open"
                        /\ \A p \in conns[caller[s].conn].pending :
                                p[2] = s => p \in conns'[caller[s].conn].pending
               \/ caller'[s].pc = "ended" /\ caller'[s].result \in {s, "failed"}
      <4> SUFFICES ASSUME NEW s \in Requests, ~(caller'[s].pc = "ended" /\ caller'[s].result \in {s, "failed"})
                   PROVE  /\ caller'[s] = caller[s]
                          /\ caller[s].pc = "waiting" =>
                                /\ conns'[caller[s].conn].client = "open"
                                /\ \A p \in conns[caller[s].conn].pending :
                                        p[2] = s => p \in conns'[caller[s].conn].pending
        OBVIOUS
      <4>1. caller'[s] = caller[s] /\ ~(s \in WaitersOf(c) /\ <<id, s>> \in mine)
        BY <2>9, <2>10 DEF Calls
      <4> QED
        BY <3>2, <4>1
    <3> QED
      BY <2>6, <3>3, WaitersKept
  <2>15. NoticesDoNotWait'
    BY <2>9, <2>10 DEF IInv, NoticesDoNotWait, Calls
  <2> QED
    BY <2>11, <2>12, <2>13, <2>14, <2>15 DEF IInv
<1> QED
  BY <1>1, <1>2

LEMMA ReadEndStep == ASSUME IInv, NEW c \in Ids, ReadEnd(c) PROVE IInv'
  BY FailConnectionStep DEF ReadEnd

LEMMA CloseStep == ASSUME IInv, Close PROVE IInv'
<1>1. current \in Ids /\ conns[current].client # "connecting"
  BY DEF Close, IInv, Typed, DialsApart
<1> QED
  BY <1>1, FailConnectionStep DEF Close

LEMMA GiveUpStep == ASSUME IInv, NEW r \in Calls, GiveUp(r) PROVE IInv'
<1>0. /\ caller[r].pc = "waiting" /\ UNCHANGED <<conns, current, migrating, handling, handled>>
      /\ caller' = [caller EXCEPT ![r] = Ended("failed")] /\ Ids' = Ids
  BY DEF GiveUp, Ids
<1>1. Ended("failed") \in Caller /\ Ended("failed").pc = "ended" /\ Ended("failed").result = "failed"
  BY DEF Ended, Caller
<1>2. Typed'
  BY <1>0, <1>1 DEF IInv, Typed
<1>3. \A s \in Calls : caller'[s] = IF s = r THEN Ended("failed") ELSE caller[s]
  BY <1>0 DEF IInv, Typed
<1>4. DialsApart'
  BY <1>0, <1>1, <1>3 DEF IInv, DialsApart
<1>5. NumbersTaken' /\ NewUnseen' /\ SentOnce' /\ IdsMatch'
  BY <1>0, <1>1, <1>3, Less DEF Calls
<1>6. WaitersKnown'
  <2>1. \A s \in Requests : caller[s].pc = "waiting" => conns[caller[s].conn].client = "open"
    BY DEF IInv, WaitersKnown
  <2> QED
    BY <1>0, <1>1, <1>3, <2>1, WaitersKept DEF Calls
<1>7. NoticesDoNotWait'
  BY <1>1, <1>3 DEF IInv, NoticesDoNotWait, Calls
<1> QED
  BY <1>2, <1>4, <1>5, <1>6, <1>7 DEF IInv

LEMMA ConnectFailedStep == ASSUME IInv, NEW r \in Calls, ConnectFailed(r) PROVE IInv'
<1> DEFINE c == caller[r].conn
           k == [conns[c] EXCEPT !.client = "closed"]
<1>0. /\ Typed /\ caller[r].pc = "dialing" /\ c \in Ids /\ conns[c].client = "connecting"
      /\ c # migrating /\ c # current
      /\ UNCHANGED <<current, migrating, handling, handled>>
  BY IdsPositive DEF ConnectFailed, IInv, DialsApart
<1>1. conns[c] \in Connection /\ conns[c].pending = {}
  BY <1>0, ConnectionType DEF IInv, DialsApart
<1>2. /\ k.client = "closed" /\ k.server = conns[c].server /\ k.next_id = conns[c].next_id
      /\ k.pending = {} /\ k.up = conns[c].up /\ k.down = conns[c].down /\ k.broken = conns[c].broken
  BY <1>1 DEF Connection
<1>3. k \in Connection
  BY <1>1, <1>2 DEF Connection
<1>4. conns' = [conns EXCEPT ![c] = k] /\ caller' = [caller EXCEPT ![r] = Ended("failed")]
  BY DEF ConnectFailed
<1> HIDE DEF k
<1>5. /\ conns' \in Seq(Connection) /\ Ids' = Ids
      /\ conns'[c] = k /\ \A d \in Ids : d # c => conns'[d] = conns[d]
  BY <1>0, <1>3, <1>4, Replacing DEF Ids
<1>6. Ended("failed") \in Caller /\ Ended("failed").pc = "ended" /\ Ended("failed").result = "failed"
  BY DEF Ended, Caller
<1>7. \A s \in Calls : caller'[s] = IF s = r THEN Ended("failed") ELSE caller[s]
  BY <1>0, <1>4 DEF Typed
<1>8. Typed'
  BY <1>0, <1>4, <1>5, <1>6 DEF Typed
<1>9. DialsApart'
  <2>1. \A s \in Calls : caller'[s].pc = "dialing" =>
            /\ caller'[s] = caller[s] /\ caller[s].conn \in Ids /\ conns'[caller[s].conn] = conns[caller[s].conn]
    BY <1>0, <1>5, <1>6, <1>7 DEF IInv, DialsApart
  <2>2. \A d \in Ids : conns'[d].client # "open" => conns'[d].pending = {}
    BY <1>2, <1>5 DEF IInv, DialsApart
  <2>3. /\ migrating # 0 => conns'[migrating].client = "connecting"
        /\ current # 0 => conns'[current].client # "connecting"
    BY <1>0, <1>5 DEF IInv, DialsApart, Typed
  <2> QED
    BY <1>0, <1>5, <2>1, <2>2, <2>3 DEF IInv, DialsApart
<1>10. NumbersTaken' /\ NewUnseen' /\ SentOnce' /\ IdsMatch'
  <2>1. \A s \in Requests : caller'[s].pc \in {"new", "dialing"} => caller[s].pc \in {"new", "dialing"}
    BY <1>6, <1>7 DEF Calls
  <2>2. \A d \in Ids :
               /\ conns'[d].next_id = conns[d].next_id
               /\ conns'[d].pending \subseteq conns[d].pending
               /\ conns'[d].up = conns[d].up /\ conns'[d].down = conns[d].down
    BY <1>2, <1>5
  <2> QED
    BY <1>0, <1>5, <2>1, <2>2, Less
<1>11. WaitersKnown'
  <2>1. \A s \in Requests : caller[s].pc = "waiting" =>
            conns[caller[s].conn].client = "open" /\ conns'[caller[s].conn] = conns[caller[s].conn]
    BY <1>0, <1>5 DEF IInv, WaitersKnown
  <2> QED
    BY <1>5, <1>6, <1>7, <2>1, WaitersKept DEF Calls
<1>12. NoticesDoNotWait'
  BY <1>6, <1>7 DEF IInv, NoticesDoNotWait, Calls
<1> QED
  BY <1>8, <1>9, <1>10, <1>11, <1>12 DEF IInv

\* What opening a connection changes: nobody waits on it yet.
LEMMA OpenedType ==
    ASSUME Typed, NEW c \in Ids
    PROVE  /\ Opened(c) \in Seq(Connection) /\ Len(Opened(c)) = Len(conns) /\ DOMAIN Opened(c) = Ids
           /\ \A d \in Ids : d # c => Opened(c)[d] = conns[d]
           /\ Opened(c)[c] \in Connection /\ Opened(c)[c].client = "open" /\ Opened(c)[c].server = "open"
           /\ Opened(c)[c].pending = conns[c].pending /\ Opened(c)[c].next_id = conns[c].next_id
           /\ Opened(c)[c].up = conns[c].up /\ Opened(c)[c].down = conns[c].down
<1> DEFINE k == [conns[c] EXCEPT !.client = "open", !.server = "open"]
<1>1. conns[c] \in Connection
  BY ConnectionType
<1>2. /\ k.client = "open" /\ k.server = "open" /\ k.next_id = conns[c].next_id
      /\ k.pending = conns[c].pending /\ k.up = conns[c].up /\ k.down = conns[c].down
      /\ k.broken = conns[c].broken
  BY <1>1 DEF Connection
<1>3. k \in Connection
  BY <1>1, <1>2 DEF Connection
<1>4. Opened(c) = [conns EXCEPT ![c] = k]
  BY DEF Opened
<1> HIDE DEF k
<1>5. /\ Opened(c) \in Seq(Connection) /\ Len(Opened(c)) = Len(conns) /\ DOMAIN Opened(c) = Ids
      /\ Opened(c)[c] = k /\ \A d \in Ids : d # c => Opened(c)[d] = conns[d]
  BY <1>3, <1>4, Replacing, ZenonT(40)
<1> QED
  BY <1>2, <1>3, <1>5

\* A frame on its way up: written or in vain.
LEMMA SentType ==
    ASSUME NEW cs \in Seq(Connection), NEW c \in DOMAIN cs, NEW message \in Frames
    PROVE  /\ Sent(c, message, cs) \in Seq(Connection)
           /\ Len(Sent(c, message, cs)) = Len(cs) /\ DOMAIN Sent(c, message, cs) = DOMAIN cs
           /\ \A d \in DOMAIN cs : d # c => Sent(c, message, cs)[d] = cs[d]
           /\ Sent(c, message, cs)[c].client = cs[c].client
           /\ Sent(c, message, cs)[c].pending = cs[c].pending
           /\ Sent(c, message, cs)[c].next_id = cs[c].next_id
           /\ Sent(c, message, cs)[c].down = cs[c].down
           /\ Sent(c, message, cs)[c].up \in {cs[c].up, Append(cs[c].up, message)}
           /\ cs[c].up \in Seq(Frames)
<1> DEFINE k == [cs[c] EXCEPT !.up = IF cs[c].broken THEN @ ELSE Append(@, message)]
<1>1. DOMAIN cs = 1..Len(cs) /\ c \in 1..Len(cs)
  BY LenProperties
<1>2. cs[c] \in Connection
  BY <1>1, ElementOfSeq
<1>3. cs[c].up \in Seq(Frames) /\ Append(cs[c].up, message) \in Seq(Frames)
  BY <1>2, AppendProperties DEF Connection
<1>4. /\ k.client = cs[c].client /\ k.server = cs[c].server /\ k.next_id = cs[c].next_id
      /\ k.pending = cs[c].pending /\ k.down = cs[c].down /\ k.broken = cs[c].broken
      /\ k.up \in {cs[c].up, Append(cs[c].up, message)}
  BY <1>2 DEF Connection
<1>5. k \in Connection
  BY <1>2, <1>3, <1>4 DEF Connection
<1>6. Sent(c, message, cs) = [cs EXCEPT ![c] = k]
  BY DEF Sent
<1> HIDE DEF k
<1>7. /\ Sent(c, message, cs) \in Seq(Connection) /\ Len(Sent(c, message, cs)) = Len(cs)
      /\ \A d \in 1..Len(cs) : Sent(c, message, cs)[d] = IF d = c THEN k ELSE cs[d]
  BY <1>1, <1>5, <1>6, ExceptSeq
<1>8. DOMAIN Sent(c, message, cs) = 1..Len(cs)
  BY <1>7, LenProperties
<1>9. Sent(c, message, cs)[c] = k
  BY <1>1, <1>7
<1> QED
  BY <1>1, <1>3, <1>4, <1>7, <1>8, <1>9

\* What registering a call makes of the connection it goes out on: a waiter
\* under the next id, for a request, and its frame.
LEMMA RegisterFrame ==
    ASSUME Typed, NEW r \in Calls, NEW c \in Ids, NEW cs \in {conns, Opened(c)}, Register(r, c, cs)
    PROVE  \E id \in Nat :
           /\ conns' \in Seq(Connection) /\ Ids' = Ids /\ \A d \in Ids : d # c => conns'[d] = conns[d]
           /\ conns'[c].client = cs[c].client /\ conns'[c].down = conns[c].down
           /\ conns[c].up \in Seq(Frames) /\ <<id, r>> \in Frames
           /\ conns'[c].up \in {conns[c].up, Append(conns[c].up, <<id, r>>)}
           /\ \/ /\ r \in Notices /\ id = ONEWAY
                 /\ conns'[c].pending = conns[c].pending /\ conns'[c].next_id = conns[c].next_id
                 /\ caller' = [caller EXCEPT ![r] = Ended("sent")]
              \/ /\ r \in Requests /\ id = conns[c].next_id
                 /\ conns'[c].pending = conns[c].pending \cup {<<id, r>>}
                 /\ conns'[c].next_id = id + 1
                 /\ caller' = [caller EXCEPT ![r] = [pc |-> "waiting", conn |-> c, result |-> "none"]]
<1>1. /\ cs \in Seq(Connection) /\ Len(cs) = Len(conns) /\ DOMAIN cs = Ids
      /\ \A d \in Ids : d # c => cs[d] = conns[d]
      /\ cs[c] \in Connection
      /\ cs[c].pending = conns[c].pending /\ cs[c].next_id = conns[c].next_id
      /\ cs[c].up = conns[c].up /\ cs[c].down = conns[c].down
  BY OpenedType, ConnectionType DEF Typed, Ids
<1>2. CASE r \in Notices /\ conns' = Sent(c, <<ONEWAY, r>>, cs) /\ caller' = [caller EXCEPT ![r] = Ended("sent")]
  <2>1. <<ONEWAY, r>> \in Frames /\ ONEWAY \in Nat
    BY DEF Frames, ONEWAY
  <2> DEFINE sent == Sent(c, <<ONEWAY, r>>, cs)
  <2>2. /\ sent \in Seq(Connection) /\ DOMAIN sent = DOMAIN cs
        /\ \A d \in DOMAIN cs : d # c => sent[d] = cs[d]
        /\ sent[c].client = cs[c].client /\ sent[c].pending = cs[c].pending
        /\ sent[c].next_id = cs[c].next_id /\ sent[c].down = cs[c].down
        /\ sent[c].up \in {cs[c].up, Append(cs[c].up, <<ONEWAY, r>>)} /\ cs[c].up \in Seq(Frames)
    BY <1>1, <2>1, SentType
  <2>3. conns' = sent
    BY <1>2
  <2> HIDE DEF sent
  <2>4. /\ conns' \in Seq(Connection) /\ Ids' = Ids /\ \A d \in Ids : d # c => conns'[d] = conns[d]
        /\ conns'[c].client = cs[c].client /\ conns'[c].down = conns[c].down
        /\ conns[c].up \in Seq(Frames)
        /\ conns'[c].up \in {conns[c].up, Append(conns[c].up, <<ONEWAY, r>>)}
        /\ conns'[c].pending = conns[c].pending /\ conns'[c].next_id = conns[c].next_id
    BY <1>1, <2>2, <2>3 DEF Ids
  <2> QED
    BY <1>2, <2>1, <2>4
<1>3. CASE r \in Requests /\ AddWaiter(r, c, cs)
  <2> DEFINE id == cs[c].next_id
             k == [cs[c] EXCEPT !.next_id = @ + 1, !.pending = @ \cup {<<id, r>>}]
             added == [cs EXCEPT ![c] = k]
  <2>1. id \in Nat \ {0} /\ <<id, r>> \in Frames /\ <<id, r>> \in (Nat \ {0}) \X Requests
    BY <1>1, <1>3 DEF Frames, Connection
  <2>2. /\ k.client = cs[c].client /\ k.server = cs[c].server /\ k.up = cs[c].up /\ k.down = cs[c].down
        /\ k.broken = cs[c].broken /\ k.next_id = id + 1
        /\ k.pending = cs[c].pending \cup {<<id, r>>}
    BY <1>1 DEF Connection
  <2>3. k.pending \in SUBSET ((Nat \ {0}) \X Requests) /\ k.next_id \in Nat \ {0}
    BY <1>1, <2>1, <2>2, SMTT(30) DEF Connection
  <2>4. k \in Connection
    BY <1>1, <2>2, <2>3 DEF Connection
  <2>5. /\ conns' = Sent(c, <<id, r>>, added)
        /\ caller' = [caller EXCEPT ![r] = [pc |-> "waiting", conn |-> c, result |-> "none"]]
    BY <1>3 DEF AddWaiter
  <2> HIDE DEF k
  <2>6. DOMAIN cs = 1..Len(cs)
    BY <1>1, LenProperties
  <2>7. /\ added \in Seq(Connection) /\ Len(added) = Len(cs)
        /\ \A d \in 1..Len(cs) : added[d] = IF d = c THEN k ELSE cs[d]
    BY <1>1, <2>4, <2>6, ExceptSeq
  <2>8. DOMAIN added = Ids /\ added[c] = k /\ \A d \in Ids : d # c => added[d] = cs[d]
    BY <1>1, <2>6, <2>7, LenProperties
  <2> HIDE DEF added
  <2> DEFINE sent == Sent(c, <<id, r>>, added)
  <2>8a. /\ sent \in Seq(Connection) /\ DOMAIN sent = DOMAIN added
         /\ \A d \in DOMAIN added : d # c => sent[d] = added[d]
         /\ sent[c].client = added[c].client /\ sent[c].pending = added[c].pending
         /\ sent[c].next_id = added[c].next_id /\ sent[c].down = added[c].down
         /\ sent[c].up \in {added[c].up, Append(added[c].up, <<id, r>>)} /\ added[c].up \in Seq(Frames)
    <3>1. added \in Seq(Connection) /\ c \in DOMAIN added /\ <<id, r>> \in Frames
      BY <2>1, <2>7, <2>8
    <3> HIDE DEF id
    <3> QED
      BY ONLY <3>1, SentType
  <2>8b. conns' = sent
    BY <2>5
  <2> HIDE DEF sent
  <2>9. /\ conns' \in Seq(Connection) /\ Ids' = Ids
        /\ \A d \in Ids : d # c => conns'[d] = conns[d]
        /\ conns'[c].client = cs[c].client /\ conns'[c].down = conns[c].down
        /\ conns'[c].up \in {conns[c].up, Append(conns[c].up, <<id, r>>)} /\ conns[c].up \in Seq(Frames)
        /\ conns'[c].pending = conns[c].pending \cup {<<id, r>>} /\ conns'[c].next_id = id + 1
    BY <1>1, <2>2, <2>8, <2>8a, <2>8b DEF Ids
  <2> QED
    BY <1>1, <1>3, <2>1, <2>5, <2>9
<1> QED
  BY <1>2, <1>3 DEF Register

\* Numbers that compare as they should.
LEMMA NumbersKnown ==
    ASSUME IInv, NEW c \in Ids
    PROVE  /\ conns[c].next_id \in Nat \ {0}
           /\ \A p \in conns[c].pending : p[1] \in Nat \ {0} /\ p[1] < conns[c].next_id
           /\ \A i \in DOMAIN conns[c].up : conns[c].up[i][1] \in Nat /\ conns[c].up[i][1] < conns[c].next_id
           /\ \A i \in DOMAIN conns[c].down : conns[c].down[i][1] \in Nat /\ conns[c].down[i][1] < conns[c].next_id
<1>1. conns[c] \in Connection /\ Typed
  BY ConnectionType DEF IInv
<1> QED
  BY <1>1, ConnectionType DEF IInv, NumbersTaken, Connection, Frames, Replies

\* A call that goes out: the first of its traces.
LEMMA RegisterStep ==
    ASSUME IInv, NEW r \in Calls, NEW c \in Ids, NEW cs \in {conns, Opened(c)}, Register(r, c, cs),
           cs[c].client = "open",
           \/ caller[r].pc = "new" /\ conns[c].client = "open"
           \/ caller[r].pc = "dialing" /\ caller[r].conn = c,
           current' \in {current, c}, UNCHANGED <<migrating, handling, handled>>
    PROVE  IInv'
<1>0. Typed
  BY DEF IInv
<1>p. PICK id \in Nat :
           /\ conns' \in Seq(Connection) /\ Ids' = Ids /\ \A d \in Ids : d # c => conns'[d] = conns[d]
           /\ conns'[c].client = cs[c].client /\ conns'[c].down = conns[c].down
           /\ conns[c].up \in Seq(Frames) /\ <<id, r>> \in Frames
           /\ conns'[c].up \in {conns[c].up, Append(conns[c].up, <<id, r>>)}
           /\ \/ /\ r \in Notices /\ id = ONEWAY
                 /\ conns'[c].pending = conns[c].pending /\ conns'[c].next_id = conns[c].next_id
                 /\ caller' = [caller EXCEPT ![r] = Ended("sent")]
              \/ /\ r \in Requests /\ id = conns[c].next_id
                 /\ conns'[c].pending = conns[c].pending \cup {<<id, r>>}
                 /\ conns'[c].next_id = id + 1
                 /\ caller' = [caller EXCEPT ![r] = [pc |-> "waiting", conn |-> c, result |-> "none"]]
  BY <1>0, RegisterFrame, SMTT(30)
<1>1. /\ conns' \in Seq(Connection) /\ Ids' = Ids /\ \A d \in Ids : d # c => conns'[d] = conns[d]
      /\ conns'[c].client = "open" /\ conns'[c].down = conns[c].down
      /\ id = ONEWAY <=> r \in Notices
  BY <1>p, NumbersKnown, TcpAssumption DEF ONEWAY
<1>2. \A p \in conns'[c].pending :
        p \in conns[c].pending \/ (p = <<id, r>> /\ r \in Requests /\ id = conns[c].next_id)
  BY <1>p
<1>3. /\ conns'[c].next_id \in Nat /\ conns'[c].next_id >= conns[c].next_id
      /\ conns[c].next_id \in Nat /\ id < conns'[c].next_id
  BY <1>p, NumbersKnown DEF ONEWAY
<1>4. \A i \in DOMAIN conns'[c].up :
        \/ i \in DOMAIN conns[c].up /\ conns'[c].up[i] = conns[c].up[i]
        \/ i = Len(conns[c].up) + 1 /\ conns'[c].up[i] = <<id, r>>
  <2>1. conns[c].up \in Seq(Frames) /\ <<id, r>> \in Frames
    BY <1>p
  <2>2. CASE conns'[c].up = conns[c].up
    BY <2>2
  <2>3. CASE conns'[c].up = Append(conns[c].up, <<id, r>>)
    BY <2>1, <2>3, Appending
  <2> QED
    BY <1>p, <2>2, <2>3
<1>5. /\ \A s \in Calls : s # r => caller'[s] = caller[s]
      /\ \/ r \in Notices /\ caller'[r].pc = "ended"
         \/ r \in Requests /\ caller'[r].pc = "waiting" /\ caller'[r].conn = c
      /\ caller' \in [Calls -> Caller]
  <2>1. Ended("sent") \in Caller /\ Ended("sent").pc = "ended"
    BY DEF Ended, Caller
  <2>2. [pc |-> "waiting", conn |-> c, result |-> "none"] \in Caller
    BY <1>0, IdsPositive DEF Caller
  <2>3. caller \in [Calls -> Caller]
    BY <1>0 DEF Typed
  <2>4. CASE r \in Notices /\ caller' = [caller EXCEPT ![r] = Ended("sent")]
    BY <2>1, <2>3, <2>4
  <2>5. CASE r \in Requests /\ caller' = [caller EXCEPT ![r] = [pc |-> "waiting", conn |-> c, result |-> "none"]]
    BY <2>2, <2>3, <2>5
  <2> QED
    BY <1>p, <2>4, <2>5
<1>6. Typed'
  BY <1>0, <1>1, <1>5 DEF Typed
<1>7. DialsApart'
  <2>1. \A s \in Calls : caller'[s].pc = "dialing" =>
            /\ caller'[s] = caller[s] /\ caller[s].conn \in Ids /\ caller[s].conn # c
    BY <1>5 DEF IInv, DialsApart
  <2>2. \A d \in Ids : conns'[d].client # "open" => conns'[d].pending = {}
    BY <1>1 DEF IInv, DialsApart
  <2>3. /\ migrating # 0 => conns'[migrating].client = "connecting"
        /\ current' # 0 => conns'[current'].client # "connecting"
    <3>1. migrating # c
      BY <1>0, IdsPositive DEF IInv, DialsApart
    <3> QED
      BY <1>0, <1>1, <3>1 DEF IInv, DialsApart, Typed
  <2> QED
    BY <1>1, <2>1, <2>2, <2>3 DEF IInv, DialsApart
<1>8. \A d \in Ids : /\ conns[d].next_id \in Nat /\ conns'[d].next_id \in Nat
                     /\ conns[d].next_id <= conns'[d].next_id
  <2> SUFFICES ASSUME NEW d \in Ids
               PROVE  /\ conns[d].next_id \in Nat /\ conns'[d].next_id \in Nat
                      /\ conns[d].next_id <= conns'[d].next_id
    OBVIOUS
  <2>1. conns[d].next_id \in Nat
    BY NumbersKnown
  <2>2. CASE d = c
    BY <1>3, <2>2
  <2>3. CASE d # c
    BY <1>1, <2>1, <2>3
  <2> QED
    BY <2>2, <2>3
<1>9. NumbersTaken'
  <2>1. \A d \in Ids : \A p \in conns'[d].pending : p[1] < conns'[d].next_id
    BY <1>1, <1>2, <1>3, NumbersKnown
  <2>2. \A d \in Ids : \A p, q \in conns'[d].pending : p[1] = q[1] => p = q
    <3>1. \A p \in conns[c].pending : p[1] \in Nat /\ p[1] < conns[c].next_id
      BY NumbersKnown
    <3>2. \A p, q \in conns'[c].pending : p[1] = q[1] => p = q
      <4>1. \A p, q \in conns[c].pending : p[1] = q[1] => p = q
        BY DEF IInv, NumbersTaken
      <4> QED
        BY <1>2, <1>3, <3>1, <4>1
    <3> QED
      BY <1>1, <3>2 DEF IInv, NumbersTaken
  <2>3. \A d \in Ids : \A i \in DOMAIN conns'[d].up : conns'[d].up[i][1] < conns'[d].next_id
    <3> SUFFICES ASSUME NEW d \in Ids, NEW i \in DOMAIN conns'[d].up
                 PROVE  conns'[d].up[i][1] < conns'[d].next_id
      OBVIOUS
    <3>1. CASE i \in DOMAIN conns[d].up /\ conns'[d].up[i] = conns[d].up[i]
      <4>1. conns[d].up[i][1] \in Nat /\ conns[d].up[i][1] < conns[d].next_id
        BY <3>1, NumbersKnown
      <4> QED
        BY <1>8, <3>1, <4>1
    <3>2. CASE d = c /\ conns'[d].up[i] = <<id, r>>
      BY <1>3, <3>2
    <3> QED
      BY <1>1, <1>4, <3>1, <3>2
  <2>4. \A d \in Ids : \A i \in DOMAIN conns'[d].down : conns'[d].down[i][1] < conns'[d].next_id
    <3> SUFFICES ASSUME NEW d \in Ids, NEW i \in DOMAIN conns'[d].down
                 PROVE  conns'[d].down[i][1] < conns'[d].next_id
      OBVIOUS
    <3>1. conns'[d].down = conns[d].down
      BY <1>1
    <3>2. conns[d].down[i][1] \in Nat /\ conns[d].down[i][1] < conns[d].next_id
      BY <3>1, NumbersKnown
    <3> QED
      BY <1>8, <3>1, <3>2
  <2>5. \A task \in handling : task[1] \in Ids /\ task[2] < conns'[task[1]].next_id
    BY <1>0, <1>8 DEF IInv, NumbersTaken, Typed
  <2> QED
    BY <1>1, <2>1, <2>2, <2>3, <2>4, <2>5 DEF NumbersTaken
<1>10. r \in Requests => /\ r \notin handled
                         /\ \A task \in handling : task[3] # r
                         /\ \A d \in Ids : /\ \A p \in conns[d].pending : p[2] # r
                                           /\ \A i \in DOMAIN conns[d].up : conns[d].up[i][2] # r
  BY DEF IInv, NewUnseen
<1>11. NewUnseen'
  <2> SUFFICES ASSUME NEW s \in Requests, caller'[s].pc \in {"new", "dialing"}
               PROVE  /\ s \notin handled
                      /\ \A task \in handling : task[3] # s
                      /\ \A d \in Ids : /\ \A p \in conns'[d].pending : p[2] # s
                                        /\ \A i \in DOMAIN conns'[d].up : conns'[d].up[i][2] # s
    BY <1>1 DEF NewUnseen
  <2>1. s # r /\ caller[s].pc \in {"new", "dialing"}
    BY <1>5 DEF Calls
  <2>2. /\ s \notin handled
        /\ \A task \in handling : task[3] # s
        /\ \A d \in Ids : /\ \A p \in conns[d].pending : p[2] # s
                          /\ \A i \in DOMAIN conns[d].up : conns[d].up[i][2] # s
    BY <2>1 DEF IInv, NewUnseen
  <2>3. ASSUME NEW d \in Ids
        PROVE  /\ \A p \in conns'[d].pending : p[2] # s
               /\ \A i \in DOMAIN conns'[d].up : conns'[d].up[i][2] # s
    <3>1. CASE d = c
      BY <1>2, <1>4, <2>1, <2>2, <3>1
    <3>2. CASE d # c
      BY <1>1, <2>2, <3>2
    <3> QED
      BY <3>1, <3>2
  <2> QED
    BY <2>2, <2>3
<1>12. SentOnce'
  <2>1. \A a, d \in Ids : \A i \in DOMAIN conns'[a].up, j \in DOMAIN conns'[d].up :
            conns'[a].up[i][2] \in Requests /\ conns'[a].up[i][2] = conns'[d].up[j][2] => a = d /\ i = j
    <3> SUFFICES ASSUME NEW a \in Ids, NEW d \in Ids,
                        NEW i \in DOMAIN conns'[a].up, NEW j \in DOMAIN conns'[d].up,
                        conns'[a].up[i][2] \in Requests, conns'[a].up[i][2] = conns'[d].up[j][2]
                 PROVE  a = d /\ i = j
      OBVIOUS
    <3>1. \/ i \in DOMAIN conns[a].up /\ conns'[a].up[i] = conns[a].up[i]
          \/ a = c /\ i = Len(conns[a].up) + 1 /\ conns'[a].up[i][2] = r
      BY <1>1, <1>4
    <3>2. \/ j \in DOMAIN conns[d].up /\ conns'[d].up[j] = conns[d].up[j]
          \/ d = c /\ j = Len(conns[d].up) + 1 /\ conns'[d].up[j][2] = r
      BY <1>1, <1>4
    <3>3. CASE conns'[a].up[i][2] = r
      BY <1>10, <3>1, <3>2, <3>3
    <3>4. CASE conns'[a].up[i][2] # r
      <4>1. /\ i \in DOMAIN conns[a].up /\ conns'[a].up[i] = conns[a].up[i]
            /\ j \in DOMAIN conns[d].up /\ conns'[d].up[j] = conns[d].up[j]
        BY <3>1, <3>2, <3>4
      <4> QED
        BY <4>1 DEF IInv, SentOnce
    <3> QED
      BY <3>3, <3>4
  <2>2. \A d \in Ids : \A i \in DOMAIN conns'[d].up : conns'[d].up[i][2] \in Requests =>
            /\ \A task \in handling : conns'[d].up[i][2] # task[3]
            /\ conns'[d].up[i][2] \notin handled
    BY <1>1, <1>4, <1>10 DEF IInv, SentOnce
  <2> QED
    BY <1>1, <2>1, <2>2 DEF IInv, SentOnce
<1>13. IdsMatch'
  <2>1. \A d \in Ids : \A i \in DOMAIN conns'[d].up : conns'[d].up[i][1] = ONEWAY <=> conns'[d].up[i][2] \in Notices
    <3> SUFFICES ASSUME NEW d \in Ids, NEW i \in DOMAIN conns'[d].up
                 PROVE  conns'[d].up[i][1] = ONEWAY <=> conns'[d].up[i][2] \in Notices
      OBVIOUS
    <3>1. CASE i \in DOMAIN conns[d].up /\ conns'[d].up[i] = conns[d].up[i]
      BY <3>1 DEF IInv, IdsMatch
    <3>2. CASE conns'[d].up[i] = <<id, r>>
      BY <1>1, <3>2
    <3> QED
      BY <1>1, <1>4, <3>1, <3>2
  <2>2. \A i \in DOMAIN conns'[c].up : \A p \in conns'[c].pending :
            conns'[c].up[i][1] = p[1] => conns'[c].up[i][2] = p[2]
    <3> SUFFICES ASSUME NEW i \in DOMAIN conns'[c].up, NEW p \in conns'[c].pending,
                        conns'[c].up[i][1] = p[1]
                 PROVE  conns'[c].up[i][2] = p[2]
      OBVIOUS
    <3>1. CASE i \in DOMAIN conns[c].up /\ conns'[c].up[i] = conns[c].up[i]
      <4>1. conns[c].up[i][1] \in Nat /\ conns[c].up[i][1] < conns[c].next_id
        BY <3>1, NumbersKnown
      <4>2. p \in conns[c].pending
        BY <1>2, <1>3, <3>1, <4>1
      <4> QED
        BY <3>1, <4>2 DEF IInv, IdsMatch
    <3>2. CASE conns'[c].up[i] = <<id, r>>
      <4>1. CASE p \in conns[c].pending
        <5>1. p[1] \in Nat \ {0} /\ p[1] < conns[c].next_id
          BY <4>1, NumbersKnown
        <5>2. id = ONEWAY \/ id = conns[c].next_id
          BY <1>p
        <5> QED
          BY <1>3, <3>2, <5>1, <5>2 DEF ONEWAY
      <4>2. CASE p = <<id, r>>
        BY <3>2, <4>2
      <4> QED
        BY <1>2, <4>1, <4>2
    <3> QED
      BY <1>4, <3>1, <3>2
  <2>3. \A d \in Ids : \A i \in DOMAIN conns'[d].up : \A p \in conns'[d].pending :
            conns'[d].up[i][1] = p[1] => conns'[d].up[i][2] = p[2]
    <3> SUFFICES ASSUME NEW d \in Ids
                 PROVE  \A i \in DOMAIN conns'[d].up : \A p \in conns'[d].pending :
                            conns'[d].up[i][1] = p[1] => conns'[d].up[i][2] = p[2]
      OBVIOUS
    <3>1. CASE d = c
      BY <2>2, <3>1
    <3>2. CASE d # c
      BY <1>1, <3>2 DEF IInv, IdsMatch
    <3> QED
      BY <3>1, <3>2
  <2>4. \A task \in handling : \A p \in conns'[task[1]].pending : task[2] = p[1] => task[3] = p[2]
    <3> SUFFICES ASSUME NEW task \in handling, NEW p \in conns'[task[1]].pending, task[2] = p[1]
                 PROVE  task[3] = p[2]
      OBVIOUS
    <3>1. task[1] \in Ids /\ task[2] \in Nat /\ task[2] < conns[task[1]].next_id
      BY <1>0 DEF IInv, NumbersTaken, Typed
    <3>2. p \in conns[task[1]].pending
      BY <1>1, <1>2, <1>3, <3>1
    <3> QED
      BY <3>2 DEF IInv, IdsMatch
  <2>5. ASSUME NEW d \in Ids, NEW i \in DOMAIN conns'[d].down,
               conns'[d].down[i][1] # ONEWAY /\ conns'[d].down[i][2] # Empty
        PROVE  /\ conns'[d].down[i][2] \in handled
               /\ \A p \in conns'[d].pending : conns'[d].down[i][1] = p[1] => conns'[d].down[i][2] = p[2]
    <3>1. conns'[d].down = conns[d].down
      BY <1>1
    <3>2. conns[d].down[i][1] \in Nat /\ conns[d].down[i][1] < conns[d].next_id
      BY <2>5, <3>1, NumbersKnown
    <3>3. \A p \in conns'[d].pending : conns[d].down[i][1] = p[1] => p \in conns[d].pending
      BY <1>1, <1>2, <1>3, <3>2
    <3> QED
      BY <2>5, <3>1, <3>3 DEF IInv, IdsMatch
  <2>6. \A task \in handling : task[2] = ONEWAY <=> task[3] \in Notices
    BY DEF IInv, IdsMatch
  <2> QED
    BY <1>1, <2>1, <2>3, <2>4, <2>5, <2>6 DEF IdsMatch
<1>14. WaitersKnown'
  <2> SUFFICES ASSUME NEW s \in Requests
               PROVE  /\ caller'[s].pc = "waiting" =>
                         /\ caller'[s].conn \in Ids /\ conns'[caller'[s].conn].client = "open"
                         /\ \E p \in conns'[caller'[s].conn].pending : p[2] = s
                      /\ caller'[s].pc = "ended" => caller'[s].result \in {s, "failed"}
    BY <1>1 DEF WaitersKnown
  <2>1. CASE s = r
    <3>1. s \notin Notices
      BY TcpAssumption
    <3>2. <<id, r>> \in conns'[c].pending /\ <<id, r>>[2] = s
      BY <1>p, <2>1, <3>1
    <3> QED
      BY <1>1, <1>5, <2>1, <3>1, <3>2
  <2>2. CASE s # r
    <3>1. caller'[s] = caller[s]
      BY <1>5, <2>2 DEF Calls
    <3>2. \A d \in Ids : /\ conns[d].client = "open" => conns'[d].client = "open"
                         /\ conns[d].pending \subseteq conns'[d].pending
      BY <1>1, <1>p
    <3>3. CASE caller[s].pc = "waiting"
      <4>1. /\ caller[s].conn \in Ids /\ conns[caller[s].conn].client = "open"
            /\ \E p \in conns[caller[s].conn].pending : p[2] = s
        BY <3>3 DEF IInv, WaitersKnown
      <4> QED
        BY <3>1, <3>2, <3>3, <4>1
    <3>4. CASE caller[s].pc # "waiting"
      BY <3>1, <3>4 DEF IInv, WaitersKnown
    <3> QED
      BY <3>3, <3>4
  <2> QED
    BY <2>1, <2>2
<1>15. NoticesDoNotWait'
  <2>1. \A s \in Notices : s \notin Requests /\ s \in Calls
    BY TcpAssumption DEF Calls
  <2> QED
    BY <1>5, <2>1 DEF IInv, NoticesDoNotWait
<1> QED
  BY <1>6, <1>7, <1>9, <1>11, <1>12, <1>13, <1>14, <1>15 DEF IInv

\* A call finds the connection open, or makes one of its own.
LEMMA RequestStep == ASSUME IInv, NEW r \in Calls, Request(r) PROVE IInv'
<1>0. /\ Typed /\ caller[r].pc = "new" /\ UNCHANGED <<current, migrating, handling, handled>>
  BY DEF IInv, Request
<1>1. CASE connected /\ Register(r, current, conns)
  <2>1. current \in Ids /\ conns[current].client = "open"
    BY <1>0, <1>1 DEF Typed, connected
  <2> QED
    BY <1>0, <1>1, <2>1, RegisterStep
<1>2. CASE Dial /\ caller' = [caller EXCEPT ![r].pc = "dialing", ![r].conn = Len(conns')]
  <2> DEFINE c == Len(conns) + 1
  <2>1. /\ conns' \in Seq(Connection) /\ Ids' = Ids \cup {c} /\ c \notin Ids /\ c \in Nat \ {0}
        /\ Len(conns') = c /\ \A d \in Ids : conns'[d] = conns[d]
        /\ conns'[c] = Connecting
    BY <1>0, <1>2, Dialling DEF Dial, Typed
  <2> HIDE DEF c
  <2>2. /\ Connecting.pending = {} /\ Connecting.up = <<>> /\ Connecting.down = <<>>
        /\ Connecting.client = "connecting"
    BY DEF Connecting
  <2> HIDE DEF Connecting
  <2>3. /\ caller' \in [Calls -> Caller] /\ \A s \in Calls : s # r => caller'[s] = caller[s]
        /\ caller'[r].pc = "dialing" /\ caller'[r].conn = c
    <3>1. caller[r] \in Caller /\ caller \in [Calls -> Caller]
      BY <1>0 DEF Typed
    <3> DEFINE call == [caller[r] EXCEPT !.pc = "dialing", !.conn = c]
    <3>2. call \in Caller /\ call.pc = "dialing" /\ call.conn = c
      BY <2>1, <3>1 DEF Caller
    <3>3. caller' = [caller EXCEPT ![r] = call]
      BY <1>2, <2>1
    <3> HIDE DEF call
    <3> QED
      BY <3>1, <3>2, <3>3
  <2>4. Typed'
    BY <1>0, <2>1, <2>3 DEF Typed
  <2>5. DialsApart'
    <3>1. \A s \in Calls : caller[s].pc = "dialing" => caller[s].conn \in Ids /\ conns[caller[s].conn].client = "connecting"
      BY DEF IInv, DialsApart
    <3>2. \A s \in Calls : caller'[s].pc = "dialing" =>
            /\ caller'[s].conn \in Ids' /\ conns'[caller'[s].conn].client = "connecting"
            /\ caller'[s].conn # migrating'
      BY <1>0, <2>1, <2>2, <2>3, <3>1 DEF IInv, DialsApart, Typed
    <3>3. \A s, t \in Calls : caller'[s].pc = "dialing" /\ caller'[t].pc = "dialing"
                                /\ caller'[t].conn = caller'[s].conn => t = s
      BY <2>1, <2>3, <3>1 DEF IInv, DialsApart
    <3>4. \A d \in Ids' : conns'[d].client # "open" => conns'[d].pending = {}
      BY <2>1, <2>2 DEF IInv, DialsApart
    <3>5. /\ migrating' # 0 => conns'[migrating'].client = "connecting"
          /\ current' # 0 => conns'[current'].client # "connecting"
      BY <1>0, <2>1 DEF IInv, DialsApart, Typed
    <3> QED
      BY <3>2, <3>3, <3>4, <3>5 DEF DialsApart
  <2>6. NumbersTaken' /\ NewUnseen' /\ SentOnce' /\ IdsMatch'
    <3>1. \A s \in Requests : caller'[s].pc \in {"new", "dialing"} => caller[s].pc \in {"new", "dialing"}
      BY <1>0, <2>3 DEF Calls
    <3>2. \A d \in Ids' : \/ d \in Ids /\ conns'[d] = conns[d]
                          \/ /\ d \notin Ids
                             /\ conns'[d].pending = {} /\ conns'[d].up = <<>> /\ conns'[d].down = <<>>
      BY <2>1, <2>2
    <3> QED
      BY <1>0, <2>1, <3>1, <3>2, Less
  <2>7. WaitersKnown'
    <3>1. \A s \in Requests : caller[s].pc = "waiting" =>
            caller[s].conn \in Ids /\ conns[caller[s].conn].client = "open"
      BY DEF IInv, WaitersKnown
    <3> QED
      BY <2>1, <2>3, <3>1, WaitersKept DEF Calls
  <2>8. NoticesDoNotWait'
    BY <2>3 DEF IInv, NoticesDoNotWait, Calls
  <2> QED
    BY <2>4, <2>5, <2>6, <2>7, <2>8 DEF IInv
<1> QED
  BY <1>1, <1>2 DEF Request

\* The connection of a caller that dialed is nobody else's.
LEMMA ConnectedStep == ASSUME IInv, NEW r \in Calls, Connected(r) PROVE IInv'
<1> DEFINE c == caller[r].conn
<1>1. /\ caller[r].pc = "dialing" /\ c \in Ids /\ Typed
  BY DEF Connected, IInv, DialsApart
<1>2. Opened(c)[c].client = "open"
  BY <1>1, OpenedType
<1>3. Register(r, c, Opened(c)) /\ current' = c /\ UNCHANGED <<migrating, handling, handled>>
  BY DEF Connected
<1> QED
  BY <1>1, <1>2, <1>3, RegisterStep

LEMMA MigrationEndsStep == ASSUME IInv, MigrationEnds PROVE IInv'
<1> DEFINE c == migrating
           k == [conns[c] EXCEPT !.client = "closed"]
<1>0. /\ Typed /\ c \in Ids /\ migrating' = 0 /\ UNCHANGED <<caller, handling, handled>>
      /\ conns[c].client = "connecting" /\ conns[c].pending = {} /\ conns[c] \in Connection
  BY ConnectionType DEF MigrationEnds, IInv, Typed, DialsApart
<1>1. /\ k.client = "closed" /\ k.server = conns[c].server /\ k.next_id = conns[c].next_id
      /\ k.pending = {} /\ k.up = conns[c].up /\ k.down = conns[c].down /\ k.broken = conns[c].broken
  BY <1>0 DEF Connection
<1>2. k \in Connection
  BY <1>0, <1>1 DEF Connection
<1>3. \/ conns' = Opened(c) /\ current' = c
      \/ conns' = [conns EXCEPT ![c] = k] /\ current' = current
  BY DEF MigrationEnds
<1> HIDE DEF k
<1>4. /\ conns' \in Seq(Connection) /\ Ids' = Ids
      /\ \A d \in Ids : d # c => conns'[d] = conns[d]
      /\ conns'[c].pending = {} /\ conns'[c].next_id = conns[c].next_id
      /\ conns'[c].up = conns[c].up /\ conns'[c].down = conns[c].down
      /\ conns'[c].client # "connecting"
  <2>1. CASE conns' = Opened(c)
    BY <1>0, <2>1, OpenedType DEF Ids
  <2>2. CASE conns' = [conns EXCEPT ![c] = k]
    <3>1. /\ conns' \in Seq(Connection) /\ DOMAIN conns' = Ids
          /\ conns'[c] = k /\ \A d \in Ids : d # c => conns'[d] = conns[d]
      <4>1. Typed /\ c \in Ids
        BY <1>0
      <4> QED
        BY <4>1, <1>2, <2>2, Replacing DEF Ids
    <3> QED
      BY <1>0, <1>1, <3>1 DEF Ids
  <2> QED
    BY <1>3, <2>1, <2>2
<1>5. current' \in {current, c}
  BY <1>3
<1>6. Typed'
  BY <1>0, <1>4, <1>5 DEF Typed
<1>7. DialsApart'
  <2>1. \A s \in Calls : caller[s].pc = "dialing" => caller[s].conn \in Ids /\ caller[s].conn # c
                                                    /\ caller[s].conn # 0
    BY <1>0, IdsPositive DEF IInv, DialsApart
  <2>2. \A d \in Ids : conns'[d].client # "open" => conns'[d].pending = {}
    BY <1>4 DEF IInv, DialsApart
  <2>3. current' # 0 => conns'[current'].client # "connecting"
    BY <1>0, <1>4, <1>5 DEF IInv, DialsApart, Typed
  <2> QED
    BY <1>0, <1>4, <2>1, <2>2, <2>3 DEF IInv, DialsApart
<1>8. NumbersTaken' /\ NewUnseen' /\ SentOnce' /\ IdsMatch'
  <2>1. \A d \in Ids :
               /\ conns'[d].next_id = conns[d].next_id
               /\ conns'[d].pending \subseteq conns[d].pending
               /\ conns'[d].up = conns[d].up /\ conns'[d].down = conns[d].down
    BY <1>4
  <2> QED
    BY <1>0, <1>4, <2>1, Less
<1>9. WaitersKnown'
  <2>1. \A s \in Requests : caller[s].pc = "waiting" =>
            conns[caller[s].conn].client = "open" /\ conns'[caller[s].conn] = conns[caller[s].conn]
    BY <1>0, <1>4 DEF IInv, WaitersKnown
  <2> QED
    BY <1>0, <1>4, <2>1, WaitersKept
<1>10. NoticesDoNotWait'
  BY <1>0 DEF IInv, NoticesDoNotWait
<1> QED
  BY <1>6, <1>7, <1>8, <1>9, <1>10 DEF IInv

\* What dropping a connection takes away.
LEMMA DroppedType ==
    ASSUME Typed, NEW c \in Ids
    PROVE  /\ Dropped(c) \in Seq(Connection) /\ Len(Dropped(c)) = Len(conns) /\ DOMAIN Dropped(c) = Ids
           /\ \A d \in Ids : d # c => Dropped(c)[d] = conns[d]
           /\ Dropped(c)[c].client = "closed" /\ Dropped(c)[c].pending = {} /\ Dropped(c)[c].down = <<>>
           /\ Dropped(c)[c].up = conns[c].up /\ Dropped(c)[c].next_id = conns[c].next_id
<1> DEFINE k == [conns[c] EXCEPT !.client = "closed", !.pending = {}, !.down = <<>>]
<1>1. conns[c] \in Connection
  BY ConnectionType
<1>2. /\ k.client = "closed" /\ k.server = conns[c].server /\ k.pending = {}
      /\ k.next_id = conns[c].next_id /\ k.up = conns[c].up /\ k.down = <<>>
      /\ k.broken = conns[c].broken
  BY <1>1 DEF Connection
<1>3. k \in Connection
  BY <1>1, <1>2, EmptySeq DEF Connection
<1>4. Dropped(c) = [conns EXCEPT ![c] = k]
  BY DEF Dropped
<1> HIDE DEF k
<1>5. /\ Dropped(c) \in Seq(Connection) /\ Len(Dropped(c)) = Len(conns) /\ DOMAIN Dropped(c) = Ids
      /\ Dropped(c)[c] = k /\ \A d \in Ids : d # c => Dropped(c)[d] = conns[d]
  BY <1>3, <1>4, Replacing, ZenonT(40)
<1> QED
  BY <1>2, <1>5

\* migrate() drops the connection there is, tells its waiters and makes another.
LEMMA MigrateStep == ASSUME IInv, Migrate PROVE IInv'
<1> DEFINE n == Len(conns) + 1
<1>0. /\ Typed /\ migrating = 0 /\ migrating' = n /\ UNCHANGED <<current, handling, handled>>
  BY DEF Migrate, IInv
<1>1. PICK cs :
        /\ cs \in Seq(Connection) /\ Len(cs) = Len(conns) /\ DOMAIN cs = Ids
        /\ conns' = Append(cs, Connecting)
        /\ \A d \in Ids : d # current => cs[d] = conns[d]
        /\ \/ current = 0 /\ caller' = caller
           \/ /\ current \in Ids /\ caller' = Failed(current)
              /\ cs[current].client = "closed" /\ cs[current].pending = {} /\ cs[current].down = <<>>
              /\ cs[current].up = conns[current].up /\ cs[current].next_id = conns[current].next_id
  <2>1. CASE current = 0
    BY <1>0, <2>1 DEF Migrate, Typed, Ids
  <2>2. CASE current # 0
    BY <1>0, <2>2, DroppedType DEF Migrate, Typed
  <2> QED
    BY <2>1, <2>2
<1>2. /\ conns' \in Seq(Connection) /\ Ids' = Ids \cup {n} /\ n \notin Ids /\ n \in Nat \ {0}
      /\ \A d \in Ids : conns'[d] = cs[d]
      /\ conns'[n] = Connecting
  BY <1>0, <1>1, Dialling
<1> HIDE DEF n
<1>3. /\ Connecting.pending = {} /\ Connecting.up = <<>> /\ Connecting.down = <<>>
      /\ Connecting.client = "connecting"
  BY DEF Connecting
<1> HIDE DEF Connecting
<1>4. /\ Ended("failed") \in Caller /\ Ended("failed").pc = "ended" /\ Ended("failed").result = "failed"
  BY DEF Ended, Caller
<1>5. /\ caller' \in [Calls -> Caller]
      /\ \A s \in Calls : \/ caller'[s] = caller[s] /\ (current \in Ids => s \notin WaitersOf(current))
                          \/ caller'[s] = Ended("failed")
  <2>1. caller \in [Calls -> Caller] /\ 0 \notin Ids
    BY <1>0, IdsPositive DEF Typed
  <2>2. CASE current = 0 /\ caller' = caller
    BY <2>1, <2>2
  <2>3. CASE caller' = Failed(current)
    BY <1>4, <2>1, <2>3 DEF Failed
  <2> QED
    BY <1>1, <2>2, <2>3
<1>6. \A d \in Ids : conns'[d].client = "connecting" <=> conns[d].client = "connecting"
  BY <1>1, <1>2 DEF IInv, DialsApart
<1>7. Typed'
  BY <1>0, <1>2, <1>5 DEF Typed
<1>8. DialsApart'
  <2>1. \A s \in Calls : caller'[s].pc = "dialing" => caller'[s] = caller[s] /\ caller[s].conn \in Ids
    BY <1>4, <1>5 DEF IInv, DialsApart
  <2>2. \A d \in Ids' : conns'[d].client # "open" => conns'[d].pending = {}
    <3>1. \A d \in Ids : cs[d] = conns[d] \/ cs[d].pending = {}
      BY <1>1
    <3> QED
      BY <1>2, <1>3, <3>1 DEF IInv, DialsApart
  <2>3. current' # 0 => conns'[current'].client # "connecting"
    BY <1>0, <1>6 DEF IInv, DialsApart, Typed
  <2>4. migrating' # 0 => conns'[migrating'].client = "connecting"
    BY <1>0, <1>2, <1>3
  <2> QED
    BY <1>0, <1>2, <1>6, <2>1, <2>2, <2>3, <2>4 DEF IInv, DialsApart
<1>9. NumbersTaken' /\ NewUnseen' /\ SentOnce' /\ IdsMatch'
  <2>1. \A s \in Requests : caller'[s].pc \in {"new", "dialing"} => caller[s].pc \in {"new", "dialing"}
    BY <1>4, <1>5 DEF Calls
  <2>2. \A d \in Ids :
               /\ conns'[d].next_id = conns[d].next_id
               /\ conns'[d].pending \subseteq conns[d].pending
               /\ conns'[d].up = conns[d].up
               /\ \A i \in DOMAIN conns'[d].down :
                        \E j \in DOMAIN conns[d].down : conns'[d].down[i] = conns[d].down[j]
    <3>1. DOMAIN <<>> = {}
      OBVIOUS
    <3> QED
      BY <1>1, <1>2, <3>1
  <2>3. \A d \in Ids' : d \in Ids \/
                /\ d \notin Ids
                /\ conns'[d].pending = {} /\ conns'[d].up = <<>> /\ conns'[d].down = <<>>
    BY <1>2, <1>3
  <2> QED
    BY <1>0, <1>2, <2>1, <2>2, <2>3, Less
<1>10. WaitersKnown'
  <2>1. \A s \in Requests : caller[s].pc = "waiting" =>
            caller[s].conn \in Ids /\ conns[caller[s].conn].client = "open"
    BY DEF IInv, WaitersKnown
  <2>2. \A s \in Requests :
            \/ caller'[s] = caller[s] /\ (caller[s].pc = "waiting" => conns'[caller[s].conn] = conns[caller[s].conn])
            \/ caller'[s].pc = "ended" /\ caller'[s].result \in {s, "failed"}
    <3> SUFFICES ASSUME NEW s \in Requests, caller'[s] # Ended("failed")
                 PROVE  caller'[s] = caller[s] /\ (caller[s].pc = "waiting" => conns'[caller[s].conn] = conns[caller[s].conn])
      BY <1>4
    <3>1. caller'[s] = caller[s] /\ (current \in Ids => s \notin WaitersOf(current))
      BY <1>5 DEF Calls
    <3>2. caller[s].pc = "waiting" => caller[s].conn # current
      BY <2>1, <3>1 DEF WaitersOf, Calls
    <3> QED
      BY <1>1, <1>2, <2>1, <3>1, <3>2
  <2> QED
    BY <1>2, <2>1, <2>2, WaitersKept
<1>11. NoticesDoNotWait'
  BY <1>4, <1>5 DEF IInv, NoticesDoNotWait, Calls
<1> QED
  BY <1>7, <1>8, <1>9, <1>10, <1>11 DEF IInv

\* What changes neither ids nor waiters, and carries nothing new.
LEMMA QuietStep ==
    ASSUME IInv, NEW c \in Ids, NEW k \in Connection, conns' = [conns EXCEPT ![c] = k],
           k.client = conns[c].client, k.pending = conns[c].pending, k.next_id = conns[c].next_id,
           k.up \in {conns[c].up, <<>>}, k.down \in {conns[c].down, <<>>},
           UNCHANGED <<current, caller, migrating, handling, handled>>
    PROVE  IInv'
<1>0. Typed
  BY DEF IInv
<1>1. /\ conns' \in Seq(Connection) /\ Ids' = Ids
      /\ conns'[c] = k /\ \A d \in Ids : d # c => conns'[d] = conns[d]
  BY <1>0, Replacing DEF Ids
<1>2. \A d \in Ids : conns'[d].client = conns[d].client /\ conns'[d].pending = conns[d].pending
  BY <1>1
<1>3. Typed'
  BY <1>0, <1>1 DEF Typed
<1>4. DialsApart'
  BY <1>0, <1>1, <1>2 DEF IInv, DialsApart, Typed
<1>5. NumbersTaken' /\ NewUnseen' /\ SentOnce' /\ IdsMatch'
  <2>1. \A d \in Ids :
               /\ conns'[d].next_id = conns[d].next_id
               /\ conns'[d].pending \subseteq conns[d].pending
               /\ conns'[d].up = conns[d].up \/ conns'[d].up = <<>>
               /\ \A i \in DOMAIN conns'[d].down :
                        \E j \in DOMAIN conns[d].down : conns'[d].down[i] = conns[d].down[j]
    <3>1. DOMAIN <<>> = {}
      OBVIOUS
    <3> QED
      BY <1>1, <3>1
  <2> QED
    BY <1>1, <2>1, Less
<1>6. WaitersKnown' /\ NoticesDoNotWait'
  BY <1>1, <1>2 DEF IInv, WaitersKnown, NoticesDoNotWait
<1> QED
  BY <1>3, <1>4, <1>5, <1>6 DEF IInv

LEMMA SessionEndsStep == ASSUME IInv, NEW c \in Ids, SessionEnds(c) PROVE IInv'
<1> DEFINE k == [conns[c] EXCEPT !.server = "closed"]
<1>1. conns[c] \in Connection
  BY ConnectionType DEF IInv
<1>2. /\ k.client = conns[c].client /\ k.server = "closed" /\ k.pending = conns[c].pending
      /\ k.next_id = conns[c].next_id /\ k.up = conns[c].up /\ k.down = conns[c].down
      /\ k.broken = conns[c].broken
  BY <1>1 DEF Connection
<1>3. k \in Connection
  BY <1>1, <1>2 DEF Connection
<1>4. conns' = [conns EXCEPT ![c] = k]
  BY DEF SessionEnds
<1> HIDE DEF k
<1> QED
  BY <1>2, <1>3, <1>4, QuietStep DEF SessionEnds

LEMMA BreakStep == ASSUME IInv, NEW c \in Ids, Break(c) PROVE IInv'
<1> DEFINE k == [conns[c] EXCEPT !.broken = TRUE, !.up = <<>>, !.down = <<>>]
<1>1. conns[c] \in Connection
  BY ConnectionType DEF IInv
<1>2. /\ k.client = conns[c].client /\ k.server = conns[c].server /\ k.pending = conns[c].pending
      /\ k.next_id = conns[c].next_id /\ k.up = <<>> /\ k.down = <<>> /\ k.broken = TRUE
  BY <1>1 DEF Connection
<1>3. k \in Connection
  BY <1>1, <1>2, EmptySeq DEF Connection
<1>4. conns' = [conns EXCEPT ![c] = k]
  BY DEF Break
<1> HIDE DEF k
<1> QED
  BY <1>2, <1>3, <1>4, QuietStep DEF Break

\* A message from the client starts a task: its traces move with it.
LEMMA ReceiveStep == ASSUME IInv, NEW c \in Ids, Receive(c) PROVE IInv'
<1> DEFINE m == Head(conns[c].up)
           k == [conns[c] EXCEPT !.up = Tail(@)]
           added == <<c, m[1], m[2]>>
<1>0. /\ Typed /\ conns[c].up # <<>> /\ UNCHANGED <<current, caller, migrating, handled>>
      /\ handling' = handling \cup {added}
  BY DEF IInv, Receive
<1>1. conns[c] \in Connection /\ conns[c].up \in Seq(Frames)
  BY <1>0, ConnectionType DEF Connection
<1>2. /\ Tail(conns[c].up) \in Seq(Frames) /\ 1 \in DOMAIN conns[c].up /\ m = conns[c].up[1]
      /\ \A i \in DOMAIN Tail(conns[c].up) :
             i \in Nat \ {0} /\ i + 1 \in DOMAIN conns[c].up /\ Tail(conns[c].up)[i] = conns[c].up[i + 1]
  BY <1>0, <1>1, Taking
<1>3. /\ k.client = conns[c].client /\ k.server = conns[c].server /\ k.next_id = conns[c].next_id
      /\ k.pending = conns[c].pending /\ k.down = conns[c].down /\ k.up = Tail(conns[c].up)
      /\ k.broken = conns[c].broken
  BY <1>1 DEF Connection
<1>4. k \in Connection
  BY <1>1, <1>2, <1>3 DEF Connection
<1>5. conns' = [conns EXCEPT ![c] = k]
  BY DEF Receive
<1> HIDE DEF k, m
<1>6. /\ conns' \in Seq(Connection) /\ Ids' = Ids
      /\ conns'[c] = k /\ \A d \in Ids : d # c => conns'[d] = conns[d]
  BY <1>0, <1>4, <1>5, Replacing DEF Ids
<1>7. \A d \in Ids :
        /\ conns'[d].client = conns[d].client /\ conns'[d].pending = conns[d].pending
        /\ conns'[d].next_id = conns[d].next_id /\ conns'[d].down = conns[d].down
  BY <1>3, <1>6
<1>8. \A d \in Ids : \A i \in DOMAIN conns'[d].up :
        \/ d # c /\ i \in DOMAIN conns[d].up /\ conns'[d].up[i] = conns[d].up[i]
        \/ /\ d = c /\ i \in Nat \ {0} /\ i + 1 \in DOMAIN conns[d].up
           /\ conns'[d].up[i] = conns[d].up[i + 1]
  <2> SUFFICES ASSUME NEW d \in Ids, NEW i \in DOMAIN conns'[d].up
               PROVE  \/ d # c /\ i \in DOMAIN conns[d].up /\ conns'[d].up[i] = conns[d].up[i]
                      \/ /\ d = c /\ i \in Nat \ {0} /\ i + 1 \in DOMAIN conns[d].up
                         /\ conns'[d].up[i] = conns[d].up[i + 1]
    OBVIOUS
  <2>1. CASE d # c
    BY <1>6, <2>1
  <2>2. CASE d = c
    <3>1. conns'[d].up = Tail(conns[c].up)
      BY <1>3, <1>6, <2>2
    <3> QED
      BY <1>2, <2>2, <3>1
  <2> QED
    BY <2>1, <2>2
<1>9. m \in Frames /\ m[1] \in Nat /\ m[2] \in Calls
  BY <1>0, <1>2, ConnectionType DEF Frames
<1>10. Typed'
  <2>1. added \in Nat \X Nat \X Calls
    BY <1>0, <1>9, IdsPositive
  <2> QED
    BY <1>0, <1>6, <2>1 DEF Typed
<1>11. DialsApart'
  BY <1>0, <1>6, <1>7, SMTT(30) DEF IInv, DialsApart, Typed
<1>12. NumbersTaken'
  <2>1. \A d \in Ids : \A i \in DOMAIN conns'[d].up : conns'[d].up[i][1] < conns'[d].next_id
    BY <1>7, <1>8 DEF IInv, NumbersTaken
  <2>2. \A task \in handling' : task[1] \in Ids /\ task[2] < conns'[task[1]].next_id
    <3>1. m[1] < conns[c].next_id
      BY <1>2 DEF IInv, NumbersTaken
    <3>2. \A task \in handling : task[1] \in Ids /\ task[2] < conns[task[1]].next_id
      BY DEF IInv, NumbersTaken
    <3> QED
      BY <1>0, <1>7, <3>1, <3>2
  <2>3. \A d \in Ids :
            /\ \A p \in conns'[d].pending : p[1] < conns'[d].next_id
            /\ \A p, q \in conns'[d].pending : p[1] = q[1] => p = q
            /\ \A i \in DOMAIN conns'[d].down : conns'[d].down[i][1] < conns'[d].next_id
    BY <1>7 DEF IInv, NumbersTaken
  <2> QED
    BY <1>6, <2>1, <2>2, <2>3 DEF NumbersTaken
<1>13. \A d \in Ids : \A i \in DOMAIN conns'[d].up : \E j \in DOMAIN conns[d].up :
            conns'[d].up[i] = conns[d].up[j]
  BY <1>8
<1>14. NewUnseen'
  <2> SUFFICES ASSUME NEW s \in Requests, caller[s].pc \in {"new", "dialing"}
               PROVE  /\ s \notin handled
                      /\ \A task \in handling' : task[3] # s
                      /\ \A d \in Ids : /\ \A p \in conns'[d].pending : p[2] # s
                                        /\ \A i \in DOMAIN conns'[d].up : conns'[d].up[i][2] # s
    BY <1>0, <1>6 DEF NewUnseen
  <2>1. /\ s \notin handled
        /\ \A task \in handling : task[3] # s
        /\ \A d \in Ids : /\ \A p \in conns[d].pending : p[2] # s
                          /\ \A i \in DOMAIN conns[d].up : conns[d].up[i][2] # s
    BY DEF IInv, NewUnseen
  <2>2. m[2] # s
    BY <1>2, <2>1
  <2> QED
    BY <1>0, <1>7, <1>13, <2>1, <2>2
<1>15. SentOnce'
  <2>1. \A d \in Ids : \A i \in DOMAIN conns'[d].up :
            conns'[d].up[i][2] \in Requests => conns'[d].up[i][2] # m[2]
    <3> SUFFICES ASSUME NEW d \in Ids, NEW i \in DOMAIN conns'[d].up,
                        conns'[d].up[i][2] \in Requests, conns'[d].up[i][2] = m[2]
                 PROVE  FALSE
      OBVIOUS
    <3>1. CASE d # c /\ i \in DOMAIN conns[d].up /\ conns'[d].up[i] = conns[d].up[i]
      BY <1>2, <3>1 DEF IInv, SentOnce
    <3>2. CASE /\ d = c /\ i \in Nat \ {0} /\ i + 1 \in DOMAIN conns[d].up
               /\ conns'[d].up[i] = conns[d].up[i + 1]
      <4>1. i + 1 = 1
        BY <1>2, <3>2 DEF IInv, SentOnce
      <4> QED
        BY <3>2, <4>1
    <3> QED
      BY <1>8, <3>1, <3>2
  <2>2. m[2] \in Requests => m[2] \notin handled /\ \A task \in handling : task[3] # m[2]
    BY <1>2 DEF IInv, SentOnce
  <2>3. \A a, d \in Ids : \A i \in DOMAIN conns'[a].up, j \in DOMAIN conns'[d].up :
            conns'[a].up[i][2] \in Requests /\ conns'[a].up[i][2] = conns'[d].up[j][2] => a = d /\ i = j
    <3> SUFFICES ASSUME NEW a \in Ids, NEW d \in Ids,
                        NEW i \in DOMAIN conns'[a].up, NEW j \in DOMAIN conns'[d].up,
                        conns'[a].up[i][2] \in Requests, conns'[a].up[i][2] = conns'[d].up[j][2]
                 PROVE  a = d /\ i = j
      OBVIOUS
    <3>1. a = d
      BY <1>13 DEF IInv, SentOnce
    <3>2. CASE a # c
      BY <1>8, <3>1, <3>2 DEF IInv, SentOnce
    <3>3. CASE a = c
      <4>1. /\ i \in Nat /\ i + 1 \in DOMAIN conns[a].up /\ conns'[a].up[i] = conns[a].up[i + 1]
            /\ j \in Nat /\ j + 1 \in DOMAIN conns[a].up /\ conns'[a].up[j] = conns[a].up[j + 1]
        BY <1>8, <3>1, <3>3
      <4>2. i + 1 = j + 1
        BY <3>1, <4>1 DEF IInv, SentOnce
      <4> QED
        BY <3>1, <4>1, <4>2
    <3> QED
      BY <3>2, <3>3
  <2>4. \A d \in Ids : \A i \in DOMAIN conns'[d].up : conns'[d].up[i][2] \in Requests =>
            /\ \A task \in handling : conns'[d].up[i][2] # task[3]
            /\ conns'[d].up[i][2] \notin handled
    BY <1>13 DEF IInv, SentOnce
  <2>5. \A task, other \in handling' : task[3] \in Requests /\ task[3] = other[3] => task = other
    BY <1>0, <2>2 DEF IInv, SentOnce
  <2>6. \A task \in handling' : task[3] \notin handled
    <3>1. m[2] \notin handled
      BY <1>0, <2>2 DEF Typed
    <3> QED
      BY <1>0, <3>1 DEF IInv, SentOnce
  <2> QED
    BY <1>0, <1>6, <2>1, <2>3, <2>4, <2>5, <2>6 DEF SentOnce
<1>16. IdsMatch'
  <2>1. /\ m[1] = ONEWAY <=> m[2] \in Notices
        /\ \A p \in conns[c].pending : m[1] = p[1] => m[2] = p[2]
    BY <1>2 DEF IInv, IdsMatch
  <2>2. \A d \in Ids : \A i \in DOMAIN conns'[d].up :
            /\ conns'[d].up[i][1] = ONEWAY <=> conns'[d].up[i][2] \in Notices
            /\ \A p \in conns'[d].pending : conns'[d].up[i][1] = p[1] => conns'[d].up[i][2] = p[2]
    BY <1>7, <1>13 DEF IInv, IdsMatch
  <2>3. \A task \in handling' :
            /\ task[2] = ONEWAY <=> task[3] \in Notices
            /\ \A p \in conns'[task[1]].pending : task[2] = p[1] => task[3] = p[2]
    <3> SUFFICES ASSUME NEW task \in handling'
                 PROVE  /\ task[2] = ONEWAY <=> task[3] \in Notices
                        /\ \A p \in conns'[task[1]].pending : task[2] = p[1] => task[3] = p[2]
      OBVIOUS
    <3>1. CASE task \in handling
      BY <1>7, <3>1 DEF IInv, IdsMatch, NumbersTaken
    <3>2. CASE task = added
      BY <1>7, <2>1, <3>2
    <3> QED
      BY <1>0, <3>1, <3>2
  <2>4. \A d \in Ids : \A i \in DOMAIN conns'[d].down :
            conns'[d].down[i][1] # ONEWAY /\ conns'[d].down[i][2] # Empty =>
                /\ conns'[d].down[i][2] \in handled
                /\ \A p \in conns'[d].pending : conns'[d].down[i][1] = p[1] => conns'[d].down[i][2] = p[2]
    BY <1>7 DEF IInv, IdsMatch
  <2> QED
    BY <1>0, <1>6, <2>2, <2>3, <2>4 DEF IdsMatch
<1>17. WaitersKnown' /\ NoticesDoNotWait'
  BY <1>0, <1>6, <1>7 DEF IInv, WaitersKnown, NoticesDoNotWait
<1> QED
  BY <1>10, <1>11, <1>12, <1>14, <1>15, <1>16, <1>17 DEF IInv

\* The server writes, or has nobody to write to: a handler that is done, or a push.
LEMMA WrittenStep ==
    ASSUME IInv, NEW c \in Ids, NEW id \in Nat, NEW payload, <<id, payload>> \in Replies,
           id < conns[c].next_id,
           id # ONEWAY /\ payload # Empty =>
               payload \in handled' /\ \A p \in conns[c].pending : id = p[1] => payload = p[2],
           conns' \in {conns, Written(c, id, payload)},
           handling' \subseteq handling, handled \subseteq handled', handled' \subseteq Requests,
           \A r \in handled' \ handled :
               /\ caller[r].pc \notin {"new", "dialing"}
               /\ \A task \in handling' : task[3] # r
               /\ \A d \in Ids : \A i \in DOMAIN conns[d].up : conns[d].up[i][2] # r,
           UNCHANGED <<current, caller, migrating>>
    PROVE  IInv'
<1> DEFINE k == [conns[c] EXCEPT !.down = Append(@, <<id, payload>>)]
<1>0. Typed
  BY DEF IInv
<1>1. conns[c] \in Connection /\ conns[c].down \in Seq(Replies)
  BY <1>0, ConnectionType DEF Connection
<1>2. /\ Append(conns[c].down, <<id, payload>>) \in Seq(Replies)
      /\ DOMAIN Append(conns[c].down, <<id, payload>>) = DOMAIN conns[c].down \cup {Len(conns[c].down) + 1}
      /\ \A i \in DOMAIN conns[c].down : Append(conns[c].down, <<id, payload>>)[i] = conns[c].down[i]
      /\ Append(conns[c].down, <<id, payload>>)[Len(conns[c].down) + 1] = <<id, payload>>
  BY <1>1, Appending
<1>3. /\ k.client = conns[c].client /\ k.server = conns[c].server /\ k.next_id = conns[c].next_id
      /\ k.pending = conns[c].pending /\ k.up = conns[c].up /\ k.broken = conns[c].broken
      /\ k.down = Append(conns[c].down, <<id, payload>>)
  BY <1>1 DEF Connection
<1>4. k \in Connection
  BY <1>1, <1>2, <1>3 DEF Connection
<1>5. conns' = conns \/ conns' = [conns EXCEPT ![c] = k]
  BY DEF Written
<1> HIDE DEF k
<1>6. /\ conns' \in Seq(Connection) /\ Ids' = Ids
      /\ conns' = conns \/ (conns'[c] = k /\ \A d \in Ids : d # c => conns'[d] = conns[d])
  <2>1. CASE conns' = conns
    BY <1>0, <2>1 DEF Ids, Typed
  <2>2. CASE conns' = [conns EXCEPT ![c] = k]
    BY <1>0, <1>4, <2>2, Replacing DEF Ids
  <2> QED
    BY <1>5, <2>1, <2>2
<1>7. ASSUME NEW d \in Ids
      PROVE  /\ conns'[d].client = conns[d].client /\ conns'[d].next_id = conns[d].next_id
             /\ conns'[d].pending = conns[d].pending /\ conns'[d].up = conns[d].up
             /\ \A i \in DOMAIN conns'[d].down :
                    \/ \E j \in DOMAIN conns[d].down : conns'[d].down[i] = conns[d].down[j]
                    \/ d = c /\ conns'[d].down[i] = <<id, payload>>
  <2>1. CASE conns'[d] = conns[d]
    BY <2>1
  <2>2. CASE d = c /\ conns'[d] = k
    BY <1>2, <1>3, <2>2, ZenonT(40)
  <2> QED
    BY <1>6, <2>1, <2>2
<1>8. Typed'
  BY <1>0, <1>6 DEF Typed
<1>9. DialsApart'
  BY <1>0, <1>6, <1>7 DEF IInv, DialsApart, Typed
<1>10. NumbersTaken'
  <2>1. \A d \in Ids : \A i \in DOMAIN conns'[d].down : conns'[d].down[i][1] < conns'[d].next_id
    <3> SUFFICES ASSUME NEW d \in Ids, NEW i \in DOMAIN conns'[d].down
                 PROVE  conns'[d].down[i][1] < conns'[d].next_id
      OBVIOUS
    <3>1. CASE \E j \in DOMAIN conns[d].down : conns'[d].down[i] = conns[d].down[j]
      BY <1>7, <3>1 DEF IInv, NumbersTaken
    <3>2. CASE d = c /\ conns'[d].down[i] = <<id, payload>>
      BY <1>7, <3>2
    <3> QED
      BY <1>7, <3>1, <3>2
  <2>2. \A d \in Ids :
            /\ \A p \in conns'[d].pending : p[1] < conns'[d].next_id
            /\ \A p, q \in conns'[d].pending : p[1] = q[1] => p = q
            /\ \A i \in DOMAIN conns'[d].up : conns'[d].up[i][1] < conns'[d].next_id
    BY <1>7 DEF IInv, NumbersTaken
  <2>3. \A task \in handling' : task[1] \in Ids /\ task[2] < conns'[task[1]].next_id
    BY <1>7 DEF IInv, NumbersTaken
  <2> QED
    BY <1>6, <2>1, <2>2, <2>3 DEF NumbersTaken
<1>11. NewUnseen'
  BY <1>6, <1>7 DEF IInv, NewUnseen
<1>12. SentOnce'
  <2>1. \A a, d \in Ids : \A i \in DOMAIN conns'[a].up, j \in DOMAIN conns'[d].up :
            conns'[a].up[i][2] \in Requests /\ conns'[a].up[i][2] = conns'[d].up[j][2] => a = d /\ i = j
    BY <1>7 DEF IInv, SentOnce
  <2>2. \A d \in Ids : \A i \in DOMAIN conns'[d].up : conns'[d].up[i][2] \in Requests =>
            /\ \A task \in handling' : conns'[d].up[i][2] # task[3]
            /\ conns'[d].up[i][2] \notin handled'
    BY <1>7 DEF IInv, SentOnce
  <2>3. /\ \A task, other \in handling' : task[3] \in Requests /\ task[3] = other[3] => task = other
        /\ \A task \in handling' : task[3] \notin handled'
    BY DEF IInv, SentOnce
  <2> QED
    BY <1>6, <2>1, <2>2, <2>3 DEF SentOnce
<1>13. IdsMatch'
  <2>1. \A d \in Ids : \A i \in DOMAIN conns'[d].up :
            /\ conns'[d].up[i][1] = ONEWAY <=> conns'[d].up[i][2] \in Notices
            /\ \A p \in conns'[d].pending : conns'[d].up[i][1] = p[1] => conns'[d].up[i][2] = p[2]
    BY <1>7 DEF IInv, IdsMatch
  <2>2. \A task \in handling' :
            /\ task[2] = ONEWAY <=> task[3] \in Notices
            /\ \A p \in conns'[task[1]].pending : task[2] = p[1] => task[3] = p[2]
    BY <1>7 DEF IInv, IdsMatch, NumbersTaken
  <2>3. ASSUME NEW d \in Ids, NEW i \in DOMAIN conns'[d].down,
               conns'[d].down[i][1] # ONEWAY /\ conns'[d].down[i][2] # Empty
        PROVE  /\ conns'[d].down[i][2] \in handled'
               /\ \A p \in conns'[d].pending : conns'[d].down[i][1] = p[1] => conns'[d].down[i][2] = p[2]
    <3>1. CASE \E j \in DOMAIN conns[d].down : conns'[d].down[i] = conns[d].down[j]
      BY <1>7, <2>3, <3>1 DEF IInv, IdsMatch
    <3>2. CASE d = c /\ conns'[d].down[i] = <<id, payload>>
      BY <1>7, <2>3, <3>2
    <3> QED
      BY <1>7, <3>1, <3>2
  <2> QED
    BY <1>6, <2>1, <2>2, <2>3 DEF IdsMatch
<1>14. WaitersKnown' /\ NoticesDoNotWait'
  BY <1>6, <1>7 DEF IInv, WaitersKnown, NoticesDoNotWait
<1> QED
  BY <1>8, <1>9, <1>10, <1>11, <1>12, <1>13, <1>14 DEF IInv

LEMMA DispatchStep == ASSUME IInv, Dispatch PROVE IInv'
<1>0. Typed
  BY DEF IInv
<1>1. PICK task \in handling, bad \in BOOLEAN :
        /\ handling' = handling \ {task}
        /\ handled' = handled \cup ({task[3]} \cap Requests)
        /\ conns' = IF task[2] = ONEWAY THEN conns
                    ELSE Written(task[1], task[2], IF bad THEN Empty ELSE task[3])
        /\ UNCHANGED <<current, caller, migrating>>
  BY DEF Dispatch
<1> DEFINE c == task[1]
           id == task[2]
           r == task[3]
<1>2. c \in Ids /\ id \in Nat /\ r \in Calls /\ id < conns[c].next_id
  BY <1>0 DEF IInv, NumbersTaken, Typed
<1>3. /\ id = ONEWAY <=> r \in Notices
      /\ \A p \in conns[c].pending : id = p[1] => r = p[2]
  BY DEF IInv, IdsMatch
<1>4. r \in Requests => /\ r \notin handled /\ caller[r].pc \notin {"new", "dialing"}
                        /\ \A other \in handling' : other[3] # r
                        /\ \A d \in Ids : \A i \in DOMAIN conns[d].up : conns[d].up[i][2] # r
  BY <1>1 DEF IInv, SentOnce, NewUnseen
<1>5. /\ handling' \subseteq handling /\ handled \subseteq handled' /\ handled' \subseteq Requests
      /\ \A s \in handled' \ handled : s = r /\ r \in Requests
  BY <1>0, <1>1 DEF Typed
<1> DEFINE payload == IF bad \/ id = ONEWAY THEN Empty ELSE r
<1>6. <<id, payload>> \in Replies
  BY <1>2, <1>3 DEF Replies, Calls
<1>7. id # ONEWAY /\ payload # Empty =>
               payload \in handled' /\ \A p \in conns[c].pending : id = p[1] => payload = p[2]
  BY <1>1, <1>2, <1>3 DEF Calls
<1>8. conns' \in {conns, Written(c, id, payload)}
  BY <1>1
<1>9. \A s \in handled' \ handled :
               /\ caller[s].pc \notin {"new", "dialing"}
               /\ \A other \in handling' : other[3] # s
               /\ \A d \in Ids : \A i \in DOMAIN conns[d].up : conns[d].up[i][2] # s
  <2> TAKE s \in handled' \ handled
  <2>1. s = r /\ r \in Requests
    BY <1>5
  <2> QED
    BY <1>4, <2>1
<1> HIDE DEF c, id, r, payload
<1> QED
  BY <1>1, <1>2, <1>5, <1>6, <1>7, <1>8, <1>9, WrittenStep

LEMMA ServerPushesStep == ASSUME IInv, NEW c \in Ids, ServerPushes(c) PROVE IInv'
<1>1. <<ONEWAY, Push>> \in Replies /\ ONEWAY \in Nat /\ ONEWAY < conns[c].next_id
  BY NumbersKnown DEF Replies, ONEWAY
<1>2. /\ conns' = Written(c, ONEWAY, Push) /\ UNCHANGED <<current, caller, migrating, handling, handled>>
      /\ handled \subseteq Requests
  BY DEF ServerPushes, IInv, Typed
<1> QED
  BY <1>1, <1>2, WrittenStep

\* Nothing the invariant speaks of changes.
LEMMA Stutter ==
    ASSUME IInv, UNCHANGED <<conns, current, caller, migrating, handling, handled>>
    PROVE  IInv'
<1>1. Ids' = Ids
  BY DEF Ids
<1>2. NumbersTaken' /\ NewUnseen' /\ SentOnce' /\ IdsMatch'
  BY <1>1, Less
<1> QED
  BY <1>1, <1>2 DEF IInv, Typed, DialsApart, WaitersKnown, NoticesDoNotWait

\* However calls, connections, replies and events interleave.
THEOREM Invariance == Spec => []IInv
<1>1. IInv /\ [Next]_vars => IInv'
  <2> SUFFICES ASSUME IInv, [Next]_vars PROVE IInv'
    OBVIOUS
  <2>1. CASE \E r \in Calls : Request(r) \/ Connected(r) \/ ConnectFailed(r) \/ GiveUp(r)
    BY <2>1, RequestStep, ConnectedStep, ConnectFailedStep, GiveUpStep
  <2>2. CASE Migrate \/ MigrationEnds \/ Close
    BY <2>2, MigrateStep, MigrationEndsStep, CloseStep
  <2>3. CASE Reading
    BY <2>3, ReadMessageStep, ReadEndStep DEF Reading
  <2>4. CASE Serving
    BY <2>4, DispatchStep, ReceiveStep, SessionEndsStep DEF Serving
  <2>5. CASE \E c \in Ids : ServerPushes(c) \/ Break(c)
    BY <2>5, ServerPushesStep, BreakStep
  <2>6. CASE UNCHANGED vars
    BY <2>6, Stutter DEF vars
  <2> QED
    BY <2>1, <2>2, <2>3, <2>4, <2>5, <2>6 DEF Next
<1> QED
  BY <1>1, Initially, PTL DEF Spec

\* No waiter is forgotten: whoever waits does so on an open connection, with a
\* waiter that a reply or fail finds.
THEOREM NoneForgotten == Spec => []NobodyForgotten
<1>1. IInv => NobodyForgotten
  BY DEF IInv, WaitersKnown, NobodyForgotten
<1> QED
  BY <1>1, Invariance, PTL

\* What a call can show.
LEMMA ShownValues ==
    ASSUME NEW r \in Requests, NEW call
    PROVE  /\ call.pc = "new" => Shown(r, call) = "new"
           /\ call.pc \in {"dialing", "waiting"} => Shown(r, call) = "waiting"
           /\ call.pc = "ended" /\ call.result = r => Shown(r, call) = "answered"
           /\ call.pc = "ended" /\ call.result = "failed" => Shown(r, call) = "failed"
  BY TcpAssumption DEF Shown

\* Some of those that have asked and have no answer fail together, or none do.
LEMMA FailTogether ==
    ASSUME NEW some \in SUBSET Requests,
           \A r \in some : caller[r].pc \in {"dialing", "waiting"} /\ caller'[r] = Ended("failed"),
           \A r \in Requests \ some : caller'[r] = caller[r],
           UNCHANGED handled
    PROVE  [Promise!Next]_(Promise!vars)
<1>1. \A r \in some : Seen[r] = "waiting"
  BY ShownValues DEF Seen
<1>2. Ended("failed").pc = "ended" /\ Ended("failed").result = "failed"
  BY DEF Ended
<1>3. \A r \in some : Seen'[r] = "failed"
  BY <1>2, ShownValues DEF Seen
<1>4. Seen' = [r \in Requests |-> IF r \in some THEN "failed" ELSE Seen[r]]
  BY <1>3 DEF Seen
<1>5. CASE some = {}
  <2>1. Seen' = Seen
    BY <1>4, <1>5 DEF Seen
  <2> QED
    BY <2>1 DEF Promise!vars
<1>6. CASE some # {}
  <2>1. some \in (SUBSET Promise!Waiting) \ {{}}
    <3>1. \A r \in some : r \in Promise!Waiting
      BY <1>1 DEF Promise!Waiting
    <3> QED
      BY <1>6, <3>1
  <2> QED
    BY <1>4, <2>1 DEF Promise!Next, Promise!Fail
<1> QED
  BY <1>5, <1>6

\* A call that is made asks; that its frame goes out later shows nothing.
LEMMA AskOrNothing ==
    ASSUME NEW r \in Calls, caller[r].pc \in {"new", "dialing"}, UNCHANGED handled,
           r \in Requests => caller'[r].pc \in {"dialing", "waiting"},
           \A s \in Calls : s # r => caller'[s] = caller[s]
    PROVE  [Promise!Next]_(Promise!vars)
<1>1. \A s \in Requests : s # r => Seen'[s] = Seen[s]
  BY DEF Seen, Calls
<1>2. CASE r \in Requests /\ caller[r].pc = "new"
  <2>1. Seen[r] = "new" /\ Seen'[r] = "waiting"
    BY <1>2, ShownValues DEF Seen
  <2>2. Seen' = [Seen EXCEPT ![r] = "waiting"]
    BY <1>1, <1>2, <2>1 DEF Seen
  <2>3. Promise!Ask(r)
    BY <2>1, <2>2 DEF Promise!Ask
  <2> QED
    BY <1>2, <2>3 DEF Promise!Next
<1>3. CASE r \notin Requests \/ caller[r].pc = "dialing"
  <2>1. r \in Requests => Seen[r] = "waiting" /\ Seen'[r] = "waiting"
    BY <1>3, ShownValues DEF Seen
  <2>2. Seen' = Seen
    BY <1>1, <2>1 DEF Seen
  <2> QED
    BY <2>2 DEF Promise!vars
<1> QED
  BY <1>2, <1>3

\* Registering a call of one that asks keeps the promise.
LEMMA RegisterAsks ==
    ASSUME Typed, NEW r \in Calls, NEW c \in Ids, NEW cs \in {conns, Opened(c)}, Register(r, c, cs),
           caller[r].pc \in {"new", "dialing"}, UNCHANGED handled
    PROVE  [Promise!Next]_(Promise!vars)
<1>1. \/ r \in Notices /\ caller' = [caller EXCEPT ![r] = Ended("sent")]
      \/ caller' = [caller EXCEPT ![r] = [pc |-> "waiting", conn |-> c, result |-> "none"]]
  BY DEF Register, AddWaiter
<1>2. r \in Requests => r \notin Notices
  BY TcpAssumption
<1>3. r \in Requests => caller'[r].pc \in {"dialing", "waiting"}
  BY <1>1, <1>2 DEF Typed
<1>4. \A s \in Calls : s # r => caller'[s] = caller[s]
  BY <1>1 DEF Typed
<1> QED
  BY <1>3, <1>4, AskOrNothing

\* The waiters of a connection fail together.
LEMMA FailedTogether ==
    ASSUME Typed, NEW c, caller' = Failed(c), UNCHANGED handled
    PROVE  [Promise!Next]_(Promise!vars)
<1> DEFINE some == WaitersOf(c) \cap Requests
<1>1. \A r \in Requests : r \in Calls
  BY DEF Calls
<1>2. \A r \in some : caller[r].pc \in {"dialing", "waiting"} /\ caller'[r] = Ended("failed")
  BY <1>1 DEF Failed, WaitersOf
<1>3. \A r \in Requests \ some : caller'[r] = caller[r]
  BY <1>1 DEF Failed
<1> QED
  BY <1>2, <1>3, FailTogether

\* The tunnel implements what is promised of a request: it ends once, with its
\* own reply or an error, and is handled at most once, before it is answered.
THEOREM Promised == Spec => KeepsPromise
<1>1. Init => Promise!Init
  <2> SUFFICES ASSUME Init PROVE Promise!Init
    OBVIOUS
  <2>1. \A r \in Requests : caller[r].pc = "new"
    BY DEF Init, New, Calls
  <2>2. \A r \in Requests : Seen[r] = "new"
    BY <2>1, ShownValues DEF Seen
  <2>3. Seen = [r \in Requests |-> "new"]
    BY <2>2 DEF Seen
  <2> QED
    BY <2>3 DEF Promise!Init, Init
<1>2. IInv /\ [Next]_vars => [Promise!Next]_(Promise!vars)
  <2> SUFFICES ASSUME IInv, [Next]_vars PROVE [Promise!Next]_(Promise!vars)
    OBVIOUS
  <2>0. Typed
    BY DEF IInv
  <2>1. ASSUME NEW r \in Calls, Request(r) PROVE [Promise!Next]_(Promise!vars)
    <3>0. caller[r].pc = "new" /\ UNCHANGED handled
      BY <2>1 DEF Request
    <3>1. CASE connected /\ Register(r, current, conns)
      <4>1. current \in Ids
        BY <2>0, <3>1 DEF connected, Typed
      <4> QED
        BY <2>0, <3>0, <3>1, <4>1, RegisterAsks
    <3>2. CASE caller' = [caller EXCEPT ![r].pc = "dialing", ![r].conn = Len(conns')]
      <4>1. caller[r] \in Caller /\ caller \in [Calls -> Caller]
        BY <2>0 DEF Typed
      <4>2. caller'[r].pc = "dialing" /\ \A s \in Calls : s # r => caller'[s] = caller[s]
        BY <3>2, <4>1 DEF Caller
      <4> QED
        BY <3>0, <4>2, AskOrNothing
    <3> QED
      BY <2>1, <3>1, <3>2 DEF Request
  <2>2. ASSUME NEW r \in Calls, Connected(r) PROVE [Promise!Next]_(Promise!vars)
    <3>1. caller[r].conn \in Ids
      BY <2>2 DEF Connected, IInv, DialsApart
    <3> QED
      BY <2>0, <2>2, <3>1, RegisterAsks DEF Connected
  <2>3. ASSUME NEW r \in Calls, ConnectFailed(r) \/ GiveUp(r) PROVE [Promise!Next]_(Promise!vars)
    <3>1. /\ caller[r].pc \in {"dialing", "waiting"} /\ UNCHANGED handled
          /\ caller' = [caller EXCEPT ![r] = Ended("failed")]
      BY <2>3 DEF ConnectFailed, GiveUp
    <3> DEFINE some == {r} \cap Requests
    <3>2. /\ \A s \in some : caller[s].pc \in {"dialing", "waiting"} /\ caller'[s] = Ended("failed")
          /\ \A s \in Requests \ some : caller'[s] = caller[s]
      BY <2>0, <3>1 DEF Typed, Calls
    <3> QED
      BY <3>1, <3>2, FailTogether
  <2>4. ASSUME NEW c \in Ids, ReadMessage(c) PROVE [Promise!Next]_(Promise!vars)
    <3> DEFINE id == Head(conns[c].down)[1]
               r == Head(conns[c].down)[2]
               mine == {p \in conns[c].pending : p[1] = id}
               told == r \in WaitersOf(c) /\ <<id, r>> \in mine
    <3>0. UNCHANGED handled /\ conns[c].down # <<>>
      BY <2>4 DEF ReadMessage
    <3>1. CASE r = Empty
      BY <2>0, <2>4, <3>0, <3>1, FailedTogether DEF ReadMessage, FailConnection
    <3>2. CASE r # Empty
      <4>1. 1 \in DOMAIN conns[c].down /\ Head(conns[c].down) = conns[c].down[1]
        BY <2>0, <3>0, ConnectionType, Taking DEF Connection
      <4>2. \A p \in mine : p = <<id, r>> /\ r \in Requests /\ r \in handled
        <5>1. \A p \in mine : p = <<id, p[2]>> /\ id # 0 /\ p[2] \in Requests
          BY <2>0, ConnectionType
        <5>2. \A p \in mine : r = p[2] /\ r \in handled
          BY <3>2, <4>1, <5>1 DEF IInv, IdsMatch, ONEWAY
        <5> QED
          BY <5>1, <5>2
      <4>3. \A s \in Calls : caller'[s] = IF s \in WaitersOf(c) /\ <<id, s>> \in mine
                                          THEN Ended(r) ELSE caller[s]
        BY <2>4, <3>2 DEF ReadMessage
      <4> HIDE DEF mine, id
      <4>4. \A s \in Requests : caller'[s] = IF s = r /\ told THEN Ended(r) ELSE caller[s]
        BY <4>2, <4>3 DEF Calls
      <4>5. CASE told
        <5>1. r \in Requests /\ r \in handled /\ caller[r].pc = "waiting"
          BY <4>2, <4>5 DEF WaitersOf
        <5>2. caller'[r].pc = "ended" /\ caller'[r].result = r
          BY <4>4, <4>5, <5>1 DEF Ended
        <5>3. Seen[r] = "waiting" /\ Seen'[r] = "answered"
          BY <5>1, <5>2, ShownValues DEF Seen
        <5>4. Seen' = [Seen EXCEPT ![r] = "answered"]
          BY <4>4, <5>1, <5>3 DEF Seen
        <5>5. Promise!Answer(r)
          BY <3>0, <5>1, <5>3, <5>4 DEF Promise!Answer, Promise!Waiting
        <5> QED
          BY <5>1, <5>5 DEF Promise!Next
      <4>6. CASE ~told
        BY <3>0, <4>4, <4>6 DEF Seen, Promise!vars
      <4> QED
        BY <4>5, <4>6
    <3> QED
      BY <3>1, <3>2
  <2>5. ASSUME NEW c \in Ids, ReadEnd(c) PROVE [Promise!Next]_(Promise!vars)
    BY <2>0, <2>5, FailedTogether DEF ReadEnd, FailConnection
  <2>6. CASE Migrate
    <3>1. UNCHANGED handled /\ (caller' = Failed(current) \/ UNCHANGED caller)
      BY <2>6 DEF Migrate
    <3>2. CASE UNCHANGED caller
      BY <3>1, <3>2 DEF Seen, Promise!vars
    <3> QED
      BY <2>0, <3>1, <3>2, FailedTogether
  <2>7. CASE Close
    BY <2>0, <2>7, FailedTogether DEF Close, FailConnection
  <2>8. CASE Dispatch
    <3>1. PICK task \in handling : handled' = handled \cup ({task[3]} \cap Requests)
      BY <2>8 DEF Dispatch
    <3>2. Seen' = Seen
      BY <2>8 DEF Dispatch, Seen
    <3>3. CASE task[3] \in Requests
      <4>1. task[3] \notin handled /\ caller[task[3]].pc \notin {"new", "dialing"}
        BY <3>3 DEF IInv, SentOnce, NewUnseen
      <4>2. Shown(task[3], caller[task[3]]) # "new"
        BY <4>1 DEF Shown
      <4>3. Seen[task[3]] # "new"
        BY <3>3, <4>2 DEF Seen
      <4>4. Promise!Handle(task[3])
        BY <3>1, <3>2, <3>3, <4>1, <4>3 DEF Promise!Handle
      <4> QED
        BY <3>3, <4>4 DEF Promise!Next
    <3>4. CASE task[3] \notin Requests
      <4>1. handled' = handled
        BY <3>1, <3>4
      <4> QED
        BY <3>2, <4>1 DEF Promise!vars
    <3> QED
      BY <3>3, <3>4
  <2>9. ASSUME UNCHANGED <<caller, handled>> PROVE [Promise!Next]_(Promise!vars)
    BY <2>9 DEF Seen, Promise!vars
  <2>10. CASE Next
    BY <2>1, <2>2, <2>3, <2>4, <2>5, <2>6, <2>7, <2>8, <2>9, <2>10
    DEF Next, Reading, Serving, MigrationEnds, Receive, SessionEnds, ServerPushes, Break
  <2>11. CASE UNCHANGED vars
    BY <2>9, <2>11 DEF vars
  <2> QED
    BY <2>10, <2>11
<1> QED
  BY <1>1, <1>2, Invariance, PTL DEF Spec, KeepsPromise, Promise!Spec
=============================================================================
