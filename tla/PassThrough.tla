---------------------------- MODULE PassThrough ----------------------------
(***************************************************************************)
(* HTTPS pass-through: one CONNECT from the browser to a site, through     *)
(* _serve_one and _pass_through (client/proxy.py), a _QuicStream at either *)
(* end of one QUIC stream (tunnel/quic_tunnel.py), handle_connect          *)
(* (server/proxy.py) and pipe (tunnel/transport.py) at both ends.          *)
(*                                                                         *)
(* The browser and the site are the TCP peers of the two ends.  Their      *)
(* bytes are numbers, so what arrives can be compared with what was sent;  *)
(* a header is HeadLen bytes, for it may arrive in pieces.  A stream       *)
(* delivers in order, in pieces of any size, and acknowledges what it      *)
(* delivers.  pipe is two coroutines: gather() ends with the first         *)
(* exception and leaves the other coroutine running.                       *)
(***************************************************************************)
EXTENDS Integers, Sequences, SequencesExt

CONSTANTS
    HeadLen,        \* bytes of a header frame
    Window,         \* STREAM_WINDOW: unacknowledged bytes a writer goes on with
    \* Bounds of the model: the bytes each end's peer sends, and whether resets
    \* by peers and ends of the connection happen.
    MaxBytes, PeersReset, ConnectionEnds

ASSUME PassThroughAssumption ==
    /\ HeadLen \in Nat \ {0} /\ Window \in Nat
    /\ MaxBytes \in [{"client", "server"} -> Nat]
    /\ {PeersReset, ConnectionEnds} \subseteq BOOLEAN

Ends == {"client", "server"}
Far(e) == CHOOSE f \in Ends : f # e

VARIABLES
    task,       \* the connection's handler at each end
    to, from,   \* pipe's coroutines to_tunnel and from_tunnel
    head,       \* the header as it comes in (open_stream's buf, the server's
                \* assembler), then the client stream's _head
    chunks,     \* _chunks: what was fed and not yet read; <<>> is the end
    routed,     \* the stream is in its protocol's _streams
    closed,     \* _closed
    wire,       \* sent by each end and not yet delivered (nor acknowledged)
    fin,        \* each end's sending side: "open", "end" or "reset" on its way,
                \* "endseen" or "resetseen"
    alive,      \* the connection, as each end sees it
    sent,       \* bytes the peer has handed to its end
    taken,      \* of those, bytes to_tunnel has read
    peer,       \* the peer's sending side: "open", "end", "reset"
    got,        \* bytes the peer has been given
    told        \* what its end has told it since: "open", "end" or "closed"

streams == <<head, chunks, routed, closed>>
network == <<wire, fin, alive>>
peers == <<sent, taken, peer, got, told>>
vars == <<task, to, from, streams, network, peers>>

\* Headers: CONNECT, and the answers (200, or 403 and 502).
CONNECT == 0
Connected == -1
Refused == -2
Header(kind) == [i \in 1..HeadLen |-> kind]
SplitHead(buf) == SubSeq(buf, HeadLen + 1, Len(buf))
Complete(buf) == Len(buf) >= HeadLen

Fed(queue, data, end) ==
    queue \o (IF data = <<>> THEN <<>> ELSE <<data>>) \o (IF end THEN <<<<>>>> ELSE <<>>)

\* abort's reset: not of a stream that is closed, nor of one that is over.
ResetUnlessClosed(e) ==
    IF closed[e] \/ fin[e] \notin {"open", "end"} THEN fin ELSE [fin EXCEPT ![e] = "reset"]

Both(value) == [e \in Ends |-> value]
-----------------------------------------------------------------------------
(* The browser's connection and open_stream. *)

\* _serve_one for anything but CONNECT that is not kept alive (a kept one
\* changes nothing here), for what is no request, and for no request at all:
\* the connection is closed.
ServeOne ==
    /\ task["client"] = "serving"
    /\ task' = [task EXCEPT !["client"] = "ended"]
    /\ told' = [told EXCEPT !["client"] = "closed"]
    /\ UNCHANGED <<to, from, streams, network, sent, taken, peer, got>>

\* CONNECT: open_stream up to its first read.
Connect ==
    /\ task["client"] = "serving" /\ peer["client"] = "open"
    /\ task' = [task EXCEPT !["client"] = "opening"]
    /\ routed' = [routed EXCEPT !["client"] = TRUE]
    /\ wire' = [wire EXCEPT !["client"] = Header(CONNECT)]
    /\ UNCHANGED <<to, from, head, chunks, closed, fin, alive, peers>>

\* The browser's connection is closed, after a 502 when open_stream has failed.
HangUp ==
    /\ task' = [task EXCEPT !["client"] = "ended"]
    /\ told' = [told EXCEPT !["client"] = "closed"]

Pipe(e) ==
    /\ task' = [task EXCEPT ![e] = "piping"]
    /\ to' = [to EXCEPT ![e] = "read"]
    /\ from' = [from EXCEPT ![e] = "read"]

\* open_stream reads until the server's answer is complete.  A refusal resets
\* the stream, which stays routed.  A 200 is passed on before the relay starts: when
\* the browser has reset its connection, drain() raises, and the stream is left as it is.
Opened ==
    /\ task["client"] = "opening" /\ chunks["client"] # <<>>
    /\ LET chunk == Head(chunks["client"])
           buf == head["client"] \o chunk
           rest == [chunks EXCEPT !["client"] = Tail(@)]
       IN  \/ /\ chunk = <<>>
              /\ HangUp
              /\ chunks' = rest
              /\ UNCHANGED <<to, from, head, closed, fin>>
           \/ /\ chunk # <<>> /\ ~Complete(buf)
              /\ head' = [head EXCEPT !["client"] = buf]
              /\ chunks' = rest
              /\ UNCHANGED <<task, to, from, closed, fin, told>>
           \/ /\ Complete(buf) /\ buf[1] = Refused
              /\ HangUp
              /\ chunks' = [rest EXCEPT !["client"] = Fed(@, <<>>, TRUE)]
              /\ closed' = [closed EXCEPT !["client"] = TRUE]
              /\ fin' = ResetUnlessClosed("client")
              /\ UNCHANGED <<to, from, head>>
           \/ /\ Complete(buf) /\ buf[1] = Connected
              /\ head' = [head EXCEPT !["client"] = SplitHead(buf)]
              /\ chunks' = rest
              /\ \/ peer["client"] # "reset" /\ Pipe("client") /\ UNCHANGED told
                 \/ peer["client"] = "reset" /\ HangUp /\ UNCHANGED <<to, from>>
              /\ UNCHANGED <<closed, fin>>
    /\ UNCHANGED <<routed, wire, alive, sent, taken, peer, got>>

\* wait_for(open_stream) times out: the stream is left as it is.
OpenTimesOut ==
    /\ task["client"] = "opening"
    /\ HangUp
    /\ UNCHANGED <<to, from, streams, network, sent, taken, peer, got>>
-----------------------------------------------------------------------------
(* The server: from the header to the relay. *)

\* handle_connect once the site is connected, or is not: the port is not
\* allowed, or open_connection fails or takes too long.
ConnectEnds ==
    /\ task["server"] = "connecting"
    /\ \E answer \in {Connected, Refused} :
         \/ /\ closed["server"]
            /\ task' = [task EXCEPT !["server"] = "ended"]
            /\ told' = [told EXCEPT !["server"] = "closed"]
            /\ UNCHANGED <<to, from, wire, fin>>
         \/ /\ ~closed["server"]
            /\ wire' = [wire EXCEPT !["server"] = @ \o Header(answer)]
            /\ \/ answer = Connected /\ Pipe("server") /\ UNCHANGED <<fin, told>>
               \/ /\ answer = Refused
                  /\ fin' = [fin EXCEPT !["server"] = "end"]
                  /\ task' = [task EXCEPT !["server"] = "ended"]
                  /\ UNCHANGED <<to, from, told>>
    /\ UNCHANGED <<streams, alive, sent, taken, peer, got>>
-----------------------------------------------------------------------------
(* pipe, at either end. *)

\* pipe's except and finally, around the coroutine that raised: abort() resets
\* unless the stream is closed, and fails it; the writer is closed.
Abort(e) ==
    /\ fin' = ResetUnlessClosed(e)
    /\ closed' = [closed EXCEPT ![e] = TRUE]
    /\ told' = [told EXCEPT ![e] = "closed"]
    /\ task' = [task EXCEPT ![e] = "ended"]

\* Both coroutines are done: gather() returns and the writer is closed.
Finish(e, done) ==
    /\ task' = IF done THEN [task EXCEPT ![e] = "ended"] ELSE task

\* A coroutine that pipe has left behind ends at its next step: its stream is
\* closed, and so is its TCP connection.
LeftBehind(e) ==
    /\ task[e] = "ended"
    /\ \/ to[e] \in {"read", "drain"} /\ to' = [to EXCEPT ![e] = "done"] /\ UNCHANGED <<from, chunks>>
       \/ /\ from[e] = "read" /\ chunks[e] # <<>>
          /\ chunks' = [chunks EXCEPT ![e] = Tail(@)]
          /\ from' = IF Head(chunks[e]) = <<>> THEN [from EXCEPT ![e] = "done"] ELSE from
          /\ UNCHANGED to
    /\ UNCHANGED <<task, head, routed, closed, network, peers>>

\* to_tunnel: what the peer has sent goes to the stream, or it raises.
ToTunnel(e) ==
    /\ task[e] = "piping" /\ to[e] = "read"
    /\ taken[e] < sent[e] /\ peer[e] # "reset"
    /\ taken' = [taken EXCEPT ![e] = sent[e]]
    /\ \/ /\ closed[e]
          /\ to' = [to EXCEPT ![e] = "done"]
          /\ Abort(e)
          /\ chunks' = [chunks EXCEPT ![e] = Fed(@, <<>>, TRUE)]
          /\ UNCHANGED wire
       \/ /\ ~closed[e]
          /\ to' = [to EXCEPT ![e] = "drain"]
          /\ wire' = [wire EXCEPT ![e] = @ \o [i \in 1..(sent[e] - taken[e]) |-> taken[e] + i]]
          /\ UNCHANGED <<task, chunks, closed, fin, told>>
    /\ UNCHANGED <<from, head, routed, alive, sent, peer, got>>

\* drain, polled.
Drained(e) ==
    /\ task[e] = "piping" /\ to[e] = "drain"
    /\ closed[e] \/ Len(wire[e]) <= Window
    /\ to' = [to EXCEPT ![e] = "read"]
    /\ UNCHANGED <<task, from, streams, network, peers>>

\* The peer has finished sending, or has reset its connection.
ToTunnelEnds(e) ==
    /\ task[e] = "piping" /\ to[e] = "read"
    /\ \/ peer[e] = "reset"
       \/ peer[e] = "end" /\ taken[e] = sent[e]
    /\ to' = [to EXCEPT ![e] = "done"]
    /\ \/ /\ peer[e] = "reset" \/ closed[e]
          /\ Abort(e)
          /\ chunks' = [chunks EXCEPT ![e] = Fed(@, <<>>, TRUE)]
       \/ /\ peer[e] = "end" /\ ~closed[e]
          /\ fin' = [fin EXCEPT ![e] = "end"]
          /\ told' = IF from[e] = "done" THEN [told EXCEPT ![e] = "closed"] ELSE told
          /\ Finish(e, from[e] = "done")
          /\ UNCHANGED <<chunks, closed>>
    /\ UNCHANGED <<from, head, routed, wire, alive, sent, taken, peer, got>>

\* from_tunnel: read() takes what was put back before what is queued.
FromTunnel(e) ==
    LET back == head[e] # <<>>
        data == IF back THEN head[e] ELSE Head(chunks[e])
        rest == IF back THEN chunks ELSE [chunks EXCEPT ![e] = Tail(@)]
    IN  /\ task[e] = "piping" /\ from[e] = "read"
        /\ back \/ chunks[e] # <<>>
        /\ head' = [head EXCEPT ![e] = <<>>]
        /\ \/ /\ data # <<>> /\ peer[e] # "reset"
              /\ got' = [got EXCEPT ![e] = @ \o data]
              /\ chunks' = rest
              /\ UNCHANGED <<task, from, closed, fin, told>>
           \/ /\ data # <<>> /\ peer[e] = "reset"
              /\ from' = [from EXCEPT ![e] = "done"]
              /\ Abort(e)
              /\ chunks' = [rest EXCEPT ![e] = Fed(@, <<>>, TRUE)]
              /\ UNCHANGED got
           \/ /\ data = <<>>
              /\ from' = [from EXCEPT ![e] = "done"]
              /\ told' = [told EXCEPT ![e] = IF to[e] = "done" THEN "closed" ELSE "end"]
              /\ Finish(e, to[e] = "done")
              /\ chunks' = rest
              /\ UNCHANGED <<closed, fin, got>>
    /\ UNCHANGED <<to, routed, wire, alive, sent, taken, peer>>
-----------------------------------------------------------------------------
(* The QUIC stream and the connection. *)

\* The server's first events: bytes go to the assembler until the header is
\* complete; a CONNECT stream is then relayed.
HeaderArrives ==
    /\ task["server"] = "none"
    /\ \A e \in Ends : alive[e] = "open"
    /\ \E n \in 1..Len(wire["client"]) :
         LET buf == head["server"] \o SubSeq(wire["client"], 1, n)
         IN  /\ wire' = [wire EXCEPT !["client"] = SubSeq(@, n + 1, Len(@))]
             /\ IF Complete(buf)
                THEN /\ task' = [task EXCEPT !["server"] = "connecting"]
                     /\ routed' = [routed EXCEPT !["server"] = TRUE]
                     /\ chunks' = [chunks EXCEPT !["server"] = Fed(@, SplitHead(buf), FALSE)]
                     /\ head' = [head EXCEPT !["server"] = <<>>]
                ELSE /\ head' = [head EXCEPT !["server"] = buf]
                     /\ UNCHANGED <<task, routed, chunks>>
    /\ UNCHANGED <<to, from, closed, fin, alive, peers>>

\* Mutant: the end is fed before the bytes it came with.
DataArrivesLast(e) ==
    LET f == Far(e)
    IN  /\ \A x \in Ends : alive[x] = "open"
        /\ routed[f] /\ fin[e] # "resetseen"
        /\ \E n \in 0..Len(wire[e]) :
             LET end == n = Len(wire[e]) /\ fin[e] = "end"
             IN  /\ n > 0 \/ end
                 /\ wire' = [wire EXCEPT ![e] = SubSeq(@, n + 1, Len(@))]
                 /\ chunks' = [chunks EXCEPT ![f] =
                        Fed(IF end THEN Append(@, <<>>) ELSE @, SubSeq(wire[e], 1, n), FALSE)]
                 /\ fin' = IF end THEN [fin EXCEPT ![e] = "endseen"] ELSE fin
                 /\ routed' = [routed EXCEPT ![f] = ~end]
        /\ UNCHANGED <<task, to, from, head, closed, alive, peers>>

\* StreamDataReceived: some of what is on its way, in order, the end with the
\* last of it or after it.
DataArrives(e) ==
    LET f == Far(e)
    IN  /\ \A x \in Ends : alive[x] = "open"
        /\ routed[f] /\ fin[e] # "resetseen"
        /\ \E n \in 0..Len(wire[e]) :
             LET end == n = Len(wire[e]) /\ fin[e] = "end"
             IN  /\ n > 0 \/ end
                 /\ wire' = [wire EXCEPT ![e] = SubSeq(@, n + 1, Len(@))]
                 /\ chunks' = [chunks EXCEPT ![f] = Fed(@, SubSeq(wire[e], 1, n), end)]
                 /\ fin' = IF end THEN [fin EXCEPT ![e] = "endseen"] ELSE fin
                 /\ routed' = [routed EXCEPT ![f] = ~end]
        /\ UNCHANGED <<task, to, from, head, closed, alive, peers>>

\* fail(): the stream is closed and its reads see the end.
Fail(f) ==
    /\ routed' = [routed EXCEPT ![f] = FALSE]
    /\ closed' = [closed EXCEPT ![f] = @ \/ routed[f]]
    /\ chunks' = [chunks EXCEPT ![f] = Fed(@, <<>>, routed[f])]

\* StreamReset, with what had not been delivered given up.
ResetArrives(e) ==
    /\ \A x \in Ends : alive[x] = "open"
    /\ fin[e] = "reset"
    /\ fin' = [fin EXCEPT ![e] = "resetseen"]
    /\ wire' = [wire EXCEPT ![e] = <<>>]
    /\ Fail(Far(e))
    /\ UNCHANGED <<task, to, from, head, alive, peers>>

\* Mutant: the streams are forgotten, not failed.
ConnectionTerminatedQuietly(e) ==
    /\ ConnectionEnds /\ alive[e] = "open"
    /\ alive' = [alive EXCEPT ![e] = "ended"]
    /\ routed' = [routed EXCEPT ![e] = FALSE]
    /\ UNCHANGED <<task, to, from, head, chunks, closed, wire, fin, peers>>

\* ConnectionTerminated, at either end at a time of its own: the streams that
\* are routed are failed; one whose end has arrived is not among them.
ConnectionTerminated(e) ==
    /\ ConnectionEnds /\ alive[e] = "open"
    /\ alive' = [alive EXCEPT ![e] = "ended"]
    /\ Fail(e)
    /\ UNCHANGED <<task, to, from, head, wire, fin, peers>>
-----------------------------------------------------------------------------
(* The browser and the site. *)

Here(e) == task[e] \in {"opening", "piping"} /\ told[e] # "closed"

PeerSends(e) ==
    /\ Here(e) /\ peer[e] = "open" /\ sent[e] < MaxBytes[e]
    /\ sent' = [sent EXCEPT ![e] = @ + 1]
    /\ UNCHANGED <<task, to, from, streams, network, taken, peer, got, told>>

PeerEnds(e) ==
    /\ Here(e) /\ peer[e] = "open"
    /\ peer' = [peer EXCEPT ![e] = "end"]
    /\ UNCHANGED <<task, to, from, streams, network, sent, taken, got, told>>

PeerResets(e) ==
    /\ PeersReset /\ Here(e) /\ peer[e] # "reset"
    /\ peer' = [peer EXCEPT ![e] = "reset"]
    /\ UNCHANGED <<task, to, from, streams, network, sent, taken, got, told>>
-----------------------------------------------------------------------------
Init ==
    /\ task = [e \in Ends |-> IF e = "client" THEN "serving" ELSE "none"]
    /\ to = Both("off") /\ from = Both("off")
    /\ head = Both(<<>>) /\ chunks = Both(<<>>)
    /\ routed = Both(FALSE) /\ closed = Both(FALSE)
    /\ wire = Both(<<>>) /\ fin = Both("open") /\ alive = Both("open")
    /\ sent = Both(0) /\ taken = Both(0) /\ peer = Both("open")
    /\ got = Both(<<>>) /\ told = Both("open")

Relay(e) ==
    \/ ToTunnel(e) \/ Drained(e) \/ ToTunnelEnds(e)
    \/ FromTunnel(e) \/ LeftBehind(e)

Opening == ServeOne \/ Connect \/ Opened \/ OpenTimesOut

Network ==
    \/ HeaderArrives
    \/ \E e \in Ends : DataArrives(e) \/ ResetArrives(e)

Next ==
    \/ Opening \/ ConnectEnds \/ Network
    \/ \E e \in Ends : \/ Relay(e) \/ ConnectionTerminated(e)
                       \/ PeerSends(e) \/ PeerEnds(e) \/ PeerResets(e)

Spec == Init /\ [][Next]_vars

\* Coroutines go on, what is sent arrives while the connection stands, timers
\* run out (the far end's idle timer when one end has ended the connection),
\* and each peer finishes sending in the end.
FairSpec ==
    /\ Spec
    /\ WF_vars(Opened \/ OpenTimesOut) /\ WF_vars(ConnectEnds) /\ WF_vars(Network)
    /\ \A e \in Ends :
         /\ WF_vars(Relay(e)) /\ WF_vars(PeerEnds(e))
         /\ WF_vars(alive[Far(e)] = "ended" /\ ConnectionTerminated(e))
-----------------------------------------------------------------------------
TypeOK ==
    /\ task["client"] \in {"serving", "opening", "piping", "ended"}
    /\ task["server"] \in {"none", "connecting", "piping", "ended"}
    /\ \A e \in Ends :
         /\ to[e] \in {"off", "read", "drain", "done"}
         /\ from[e] \in {"off", "read", "done"}
         /\ fin[e] \in {"open", "end", "reset", "endseen", "resetseen"}
         /\ told[e] \in {"open", "end", "closed"}
         /\ taken[e] <= sent[e] /\ sent[e] <= MaxBytes[e]
         /\ task[e] = "piping" => {to[e], from[e]} # {"done"}
         /\ routed["server"] => alive["server"] = "open"

\* The bytes cross the tunnel unchanged ("relay the browser's encrypted bytes
\* through the tunnel as they are", client/proxy.py): each peer is given what
\* the other sent, in order, and a peer that is told the end while nothing was
\* reset and the connection stands has been given all of it.
Unchanged ==
    \A e \in Ends :
        LET f == Far(e)
        IN  /\ got[e] = [i \in 1..Len(got[e]) |-> i]
            /\ Len(got[e]) <= taken[f]
            /\ (from[e] = "done" /\ task[e] # "none" /\ ~closed[e] /\ fin[f] = "endseen")
                    => peer[f] # "open" /\ Len(got[e]) = sent[f]

\* to_tunnel polls a stream that will never be acknowledged nor closed.
Polling(e) == to[e] = "drain" /\ alive[e] = "ended" /\ ~closed[e]

\* The client took up no relay, for want of an answer in time or of a browser to pass
\* it on to, and has neither ended nor reset its side of the stream.
Abandoned ==
    /\ task["client"] = "ended" /\ to["client"] = "off"
    /\ fin["client"] = "open" /\ ~closed["client"]

\* pipe ends "until both are done" (tunnel/transport.py): once both peers have
\* finished sending, or anything has been reset, the relay ends.  A server's relay of a
\* stream the client has abandoned may go on for as long as the connection lasts.
RelaysEnd == \A e \in Ends : task[e] = "piping" ~> (task[e] = "ended" \/ Abandoned)

\* RelaysEnd but for a stream whose other direction had ended before the
\* connection did.
RelaysEndOrPoll ==
    \A e \in Ends : task[e] = "piping" ~> (task[e] = "ended" \/ Abandoned \/ Polling(e))
=============================================================================
