------------------------- MODULE PassThroughProofs -------------------------
(***************************************************************************)
(* The bytes cross the tunnel unchanged, for any header and window and any *)
(* number of bytes, with resets and the end of the connection among them.  *)
(*                                                                         *)
(* What an end has written is a header of one kind, then the bytes 1, 2,   *)
(* ... its peer sent.  Run says that what is queued and what is still on   *)
(* the wire are consecutive pieces of that, from position s + 1 to n.      *)
(* Inflow follows them to each end: what the peer was given, what was put  *)
(* back, what is queued and what is on the wire, and how far the writer    *)
(* has come.                                                               *)
(***************************************************************************)
EXTENDS PassThrough, SequenceTheorems, TLAPS

\* The byte at position i of what an end writes.
Byte(kind, i) == IF i <= HeadLen THEN kind ELSE i - HeadLen

\* off[i] is the position in front of the i-th chunk.
Run(queue, line, s, n, kind) ==
    \E off \in [1..Len(queue) + 1 -> 0..n] :
        /\ off[1] = s
        /\ off[Len(queue) + 1] + Len(line) = n
        /\ \A i \in 1..Len(queue) :
              /\ off[i + 1] = off[i] + Len(queue[i])
              /\ off[i] <= off[Len(queue) + 1]
              /\ \A j \in 1..Len(queue[i]) : queue[i][j] = Byte(kind, off[i] + j)
        /\ \A j \in 1..Len(line) : line[j] = Byte(kind, off[Len(queue) + 1] + j)

\* A queue of chunks and what is on the wire.
Bytes == Seq(Int)
Queues == Seq(Bytes)

\* The header an end writes: the server's is a refusal unless it relays.
Kind(f) ==
    IF f = "client" THEN CONNECT
    ELSE IF from["server"] = "off" THEN Refused ELSE Connected

\* The position e has come to: it waits for the header, or has given got on.
Waiting(e) == task[e] \in {"none", "serving", "opening"}
Base(e) == IF Waiting(e) THEN 0 ELSE HeadLen + Len(got[e])

\* How much f has written: nothing yet, or all it has read if it may write
\* more or has ended its sending side.
Written(f, n) ==
    /\ task[f] \in {"none", "serving", "connecting"} => n = 0
    /\ task[f] \in {"opening", "piping"} /\ ~closed[f] => n = HeadLen + taken[f]
    /\ fin[f] \in {"end", "endseen"} /\ from[f] # "off" => n = HeadLen + taken[f]

\* What is on its way to e, from what was put back to what is on the wire.
Inflow(e) ==
    /\ \A j \in 1..Len(head[e]) : head[e][j] = Byte(Kind(Far(e)), Base(e) + j)
    /\ \E n \in 0..(HeadLen + taken[Far(e)]) :
          /\ Run(chunks[e], wire[Far(e)], Base(e) + Len(head[e]), n, Kind(Far(e)))
          /\ Written(Far(e), n)

Inflows == \A e \in Ends : task[e] # "ended" => Inflow(e)

Typed ==
    /\ task \in [Ends -> {"none", "serving", "opening", "connecting", "piping", "ended"}]
    /\ task["client"] \notin {"none", "connecting"} /\ task["server"] \notin {"serving", "opening"}
    /\ to \in [Ends -> {"off", "read", "drain", "done"}]
    /\ from \in [Ends -> {"off", "read", "done"}]
    /\ head \in [Ends -> Bytes] /\ chunks \in [Ends -> Queues]
    /\ routed \in [Ends -> BOOLEAN] /\ closed \in [Ends -> BOOLEAN]
    /\ wire \in [Ends -> Bytes]
    /\ fin \in [Ends -> {"open", "end", "reset", "endseen", "resetseen"}]
    /\ sent \in [Ends -> Nat] /\ taken \in [Ends -> Nat]
    /\ peer \in [Ends -> {"open", "end", "reset"}]
    /\ got \in [Ends -> Bytes]

\* pipe runs at the client only when it runs, or has run, at the server; and a
\* coroutine pipe has left behind has a closed stream.
Stages ==
    /\ task["client"] = "serving" => task["server"] = "none"
    /\ from["client"] # "off" => from["server"] # "off"
    /\ \A e \in Ends :
          /\ from[e] = "off" <=> to[e] = "off"
          /\ task[e] = "piping" => from[e] # "off"
          /\ task[e] \notin {"piping", "ended"} => from[e] = "off"
          /\ from[e] = "off" => taken[e] = 0 /\ got[e] = <<>>
          /\ task[e] = "ended" /\ from[e] = "read" => closed[e]

\* A stream is reset by whoever closes it; and its end is sent by to_tunnel
\* when it has read everything, or with the server's refusal.
SendingSides ==
    \A e \in Ends :
        /\ fin[e] \in {"reset", "resetseen"} => closed[e]
        /\ fin[e] \in {"end", "endseen"} =>
              \/ e = "server" /\ from[e] = "off" /\ task[e] = "ended"
              \/ to[e] = "done" /\ taken[e] = sent[e] /\ peer[e] # "open"
        /\ fin[e] = "endseen" => wire[e] = <<>> /\ ~routed[Far(e)]

\* Before its header is complete, the server's stream has nothing to fail.
Unopened ==
    task["server"] = "none" =>
        chunks["server"] = <<>> /\ ~routed["server"] /\ fin["client"] # "endseen"

\* The end read from a stream that was not closed is the end the other sent.
EndsLast ==
    \A e \in Ends : task[e] # "ended" /\ ~closed[e] =>
        \A i \in 1..Len(chunks[e]) :
            chunks[e][i] = <<>> => i = Len(chunks[e]) /\ fin[Far(e)] = "endseen"

\* What the peer was given.
Given ==
    \A e \in Ends :
        /\ Len(got[e]) <= taken[Far(e)]
        /\ \A j \in 1..Len(got[e]) : got[e][j] = j
        /\ from[e] = "done" /\ ~closed[e]
              => fin[Far(e)] = "endseen" /\ Len(got[e]) = taken[Far(e)]

Control == Stages /\ SendingSides /\ Unopened

IInv == Typed /\ Control /\ EndsLast /\ Given /\ Inflows
-----------------------------------------------------------------------------
(* Consecutive pieces. *)

\* Some of what is on the wire joins the queue.
LEMMA RunAppend ==
    ASSUME NEW q \in Queues, NEW w \in Bytes, NEW s, NEW n \in Nat, NEW kind,
           Run(q, w, s, n, kind), NEW m \in 0..Len(w)
    PROVE  Run(Append(q, SubSeq(w, 1, m)), SubSeq(w, m + 1, Len(w)), s, n, kind)
<1>p. PICK off \in [1..Len(q) + 1 -> 0..n] :
        /\ off[1] = s
        /\ off[Len(q) + 1] + Len(w) = n
        /\ \A i \in 1..Len(q) :
              /\ off[i + 1] = off[i] + Len(q[i])
              /\ off[i] <= off[Len(q) + 1]
              /\ \A j \in 1..Len(q[i]) : q[i][j] = Byte(kind, off[i] + j)
        /\ \A j \in 1..Len(w) : w[j] = Byte(kind, off[Len(q) + 1] + j)
  BY DEF Run
<1> DEFINE d == SubSeq(w, 1, m)
           rest == SubSeq(w, m + 1, Len(w))
           r == Append(q, d)
           last == off[Len(q) + 1]
           new == [i \in 1..Len(q) + 2 |-> IF i = Len(q) + 2 THEN last + m ELSE off[i]]
<1>1. Len(q) \in Nat /\ Len(w) \in Nat /\ m \in Nat /\ m <= Len(w) /\ last \in 0..n
  BY SMTT(30) DEF Bytes, Queues
<1>2. Len(d) = m /\ \A j \in 1..m : d[j] = w[j]
  BY <1>1 DEF Bytes
<1>3. Len(rest) = Len(w) - m /\ \A j \in 1..(Len(w) - m) : rest[j] = w[m + j]
  BY <1>1 DEF Bytes
<1>4. Len(r) = Len(q) + 1 /\ r[Len(q) + 1] = d /\ \A i \in 1..Len(q) : r[i] = q[i]
  BY <1>1 DEF Queues
<1>5. last + Len(w) = n /\ last + m \in 0..n
  BY <1>p, <1>1
<1> HIDE DEF d, rest, r, last
<1>6. new \in [1..Len(r) + 1 -> 0..n]
  BY <1>1, <1>4, <1>5
<1>7. new[Len(r) + 1] = last + m /\ \A i \in 1..Len(q) + 1 : new[i] = off[i]
  BY <1>1, <1>4
<1>8. new[1] = s /\ new[Len(r) + 1] + Len(rest) = n
  BY <1>p, <1>1, <1>3, <1>5, <1>7
<1>9. ASSUME NEW i \in 1..Len(r)
      PROVE  /\ new[i + 1] = new[i] + Len(r[i])
             /\ new[i] <= new[Len(r) + 1]
             /\ \A j \in 1..Len(r[i]) : r[i][j] = Byte(kind, new[i] + j)
  <2>1. CASE i = Len(q) + 1
    <3>1. r[i] = d /\ new[i] = last /\ new[i + 1] = last + m
      BY <2>1, <1>1, <1>4, <1>7 DEF last
    <3>2. ASSUME NEW j \in 1..m PROVE d[j] = Byte(kind, last + j)
      <4>1. j \in 1..Len(w) /\ d[j] = w[j]
        BY <1>1, <1>2
      <4>2. QED
        BY <4>1, <1>p DEF last
    <3>3. new[i] <= new[Len(r) + 1]
      BY ONLY <3>1, <1>1, <1>7
    <3>4. Len(r[i]) = m
      BY <3>1, <1>2
    <3>5. QED
      BY <3>1, <3>2, <3>3, <3>4
  <2>2. CASE i # Len(q) + 1
    <3>1. i \in 1..Len(q) /\ i + 1 \in 1..Len(q) + 1
      BY <2>2, <1>1, <1>4
    <3>2. r[i] = q[i] /\ new[i] = off[i] /\ new[i + 1] = off[i + 1]
      BY <3>1, <1>1, <1>4, <1>7
    <3>3. off[i] <= last /\ off[i] \in 0..n
      <4>1. off[i] <= off[Len(q) + 1]
        BY <3>1, <1>p
      <4>2. i \in 1..Len(q) + 1
        BY <3>1, <1>1
      <4>3. off[i] \in 0..n
        BY <4>2
      <4>4. last = off[Len(q) + 1]
        BY DEF last
      <4>5. QED
        BY ONLY <4>1, <4>3, <4>4
    <3>4. new[i] <= new[Len(r) + 1]
      BY <3>2, <3>3, <1>1, <1>7
    <3>5. QED
      BY <3>1, <3>2, <3>4, <1>p
  <2>3. QED
    BY <2>1, <2>2
<1>10. ASSUME NEW j \in 1..Len(rest) PROVE rest[j] = Byte(kind, new[Len(r) + 1] + j)
  <2>1. m + j \in 1..Len(w) /\ j \in 1..(Len(w) - m)
    BY <1>1, <1>3
  <2>2. rest[j] = Byte(kind, last + (m + j))
    BY <2>1, <1>p, <1>3 DEF last
  <2>3. last + (m + j) = new[Len(r) + 1] + j
    BY <1>1, <1>7
  <2>4. QED
    BY <2>2, <2>3
<1>11. Run(r, rest, s, n, kind)
  BY <1>6, <1>8, <1>9, <1>10 DEF Run
<1>12. QED
  BY <1>11 DEF r, rest, d

\* What Fed gives.
LEMMA FedCases ==
    ASSUME NEW q \in Queues, NEW d \in Bytes, NEW end \in BOOLEAN
    PROVE  /\ d = <<>> /\ ~end => Fed(q, d, end) = q
           /\ d = <<>> /\ end => Fed(q, d, end) = Append(q, <<>>)
           /\ d # <<>> /\ ~end => Fed(q, d, end) = Append(q, d)
           /\ d # <<>> /\ end => Fed(q, d, end) = Append(Append(q, d), <<>>)
           /\ Fed(q, d, end) \in Queues
<1>1. <<>> \in Bytes
  BY DEF Bytes
<1>2. q \o <<>> = q /\ q \o <<d>> = Append(q, d) /\ Append(q, d) \in Queues /\ Append(q, <<>>) \in Queues
  BY <1>1, ConcatEmptySeq, AppendIsConcat DEF Queues
<1>3. /\ Append(q, d) \o <<>> = Append(q, d)
      /\ Append(q, d) \o << <<>> >> = Append(Append(q, d), <<>>)
      /\ Append(Append(q, d), <<>>) \in Queues
  BY <1>1, <1>2, ConcatEmptySeq, AppendIsConcat DEF Queues
<1>4. q \o << <<>> >> = Append(q, <<>>)
  BY <1>1, AppendIsConcat DEF Queues
<1>5. QED
  BY <1>2, <1>3, <1>4 DEF Fed

\* The same with the end of the stream behind it.
LEMMA RunFed ==
    ASSUME NEW q \in Queues, NEW w \in Bytes, NEW s, NEW n \in Nat, NEW kind,
           Run(q, w, s, n, kind), NEW m \in 0..Len(w), NEW end \in BOOLEAN
    PROVE  Run(Fed(q, SubSeq(w, 1, m), end), SubSeq(w, m + 1, Len(w)), s, n, kind)
<1> DEFINE d == SubSeq(w, 1, m)
           rest == SubSeq(w, m + 1, Len(w))
<1>1. d \in Bytes /\ rest \in Bytes /\ Len(d) = m /\ Len(w) \in Nat /\ m \in Nat
  BY DEF Bytes
<1>2. \A line \in Bytes : SubSeq(line, 1, 0) = <<>> /\ SubSeq(line, 0 + 1, Len(line)) = line
  BY SubSeqFull DEF Bytes
<1>3. Run(Append(q, d), rest, s, n, kind)
  BY RunAppend
<1>4. CASE d = <<>>
  <2>1. m = 0
    BY <1>1, <1>4
  <2>2. d = <<>> /\ rest = w
    BY <1>2, <1>4, <2>1
  <2> HIDE DEF d, rest
  <2>3. Run(Append(q, <<>>), w, s, n, kind)
    BY <1>3, <2>2
  <2>4. Fed(q, <<>>, end) = (IF end THEN Append(q, <<>>) ELSE q)
    BY <1>1, <2>2, FedCases
  <2>5. Run(Fed(q, d, end), rest, s, n, kind)
    BY <2>2, <2>3, <2>4
  <2>6. QED
    BY <2>5 DEF d, rest
<1>5. CASE d # <<>>
  <2>1. Append(q, d) \in Queues /\ Len(rest) \in Nat
    BY <1>1 DEF Bytes, Queues
  <2> HIDE DEF d, rest
  <2>2. Run(Append(Append(q, d), SubSeq(rest, 1, 0)), SubSeq(rest, 0 + 1, Len(rest)), s, n, kind)
    <3>1. 0 \in 0..Len(rest)
      BY <2>1
    <3>2. QED
      BY <1>1, <1>3, <2>1, <3>1, RunAppend
  <2>3. Run(Append(Append(q, d), <<>>), rest, s, n, kind)
    BY <1>1, <1>2, <2>2
  <2>4. Fed(q, d, end) = (IF end THEN Append(Append(q, d), <<>>) ELSE Append(q, d))
    BY <1>1, <1>5, FedCases
  <2>5. Run(Fed(q, d, end), rest, s, n, kind)
    BY <1>3, <2>3, <2>4
  <2>6. QED
    BY <2>5 DEF d, rest
<1>6. QED
  BY <1>4, <1>5

\* The end of the stream, or nothing, is fed.
LEMMA RunEnd ==
    ASSUME NEW q \in Queues, NEW w \in Bytes, NEW s, NEW n \in Nat, NEW kind,
           Run(q, w, s, n, kind), NEW end \in BOOLEAN
    PROVE  Run(Fed(q, <<>>, end), w, s, n, kind)
<1>1. 0 \in 0..Len(w) /\ SubSeq(w, 1, 0) = <<>> /\ SubSeq(w, 0 + 1, Len(w)) = w
  BY SubSeqFull DEF Bytes
<1>2. Run(Fed(q, SubSeq(w, 1, 0), end), SubSeq(w, 0 + 1, Len(w)), s, n, kind)
  BY <1>1, RunFed
<1>3. QED
  BY <1>1, <1>2

\* The first chunk is read.
LEMMA RunTail ==
    ASSUME NEW q \in Queues, NEW w \in Bytes, NEW s, NEW n \in Nat, NEW kind,
           Run(q, w, s, n, kind), q # <<>>
    PROVE  /\ Run(Tail(q), w, s + Len(Head(q)), n, kind)
           /\ \A j \in 1..Len(Head(q)) : Head(q)[j] = Byte(kind, s + j)
<1>p. PICK off \in [1..Len(q) + 1 -> 0..n] :
        /\ off[1] = s
        /\ off[Len(q) + 1] + Len(w) = n
        /\ \A i \in 1..Len(q) :
              /\ off[i + 1] = off[i] + Len(q[i])
              /\ off[i] <= off[Len(q) + 1]
              /\ \A j \in 1..Len(q[i]) : q[i][j] = Byte(kind, off[i] + j)
        /\ \A j \in 1..Len(w) : w[j] = Byte(kind, off[Len(q) + 1] + j)
  BY DEF Run
<1> DEFINE r == Tail(q)
           new == [i \in 1..Len(q) |-> off[i + 1]]
<1>1. Len(q) \in Nat /\ Len(q) >= 1 /\ Head(q) = q[1]
  BY DEF Queues
<1>2. Len(r) = Len(q) - 1 /\ \A i \in 1..(Len(q) - 1) : r[i] = q[i + 1]
  BY <1>1 DEF Queues
<1> HIDE DEF r
<1>3. Len(r) + 1 = Len(q) /\ Len(r) \in Nat
  BY <1>1, <1>2
<1>4. new \in [1..Len(r) + 1 -> 0..n]
  BY <1>1, <1>3
<1>5. \A i \in 1..Len(q) : new[i] = off[i + 1]
  OBVIOUS
<1> HIDE DEF new
<1>6. new[1] = s + Len(Head(q)) /\ new[Len(r) + 1] = off[Len(q) + 1]
  BY <1>p, <1>1, <1>3, <1>5, SMTT(30)
<1>7. ASSUME NEW i \in 1..Len(r)
      PROVE  /\ new[i + 1] = new[i] + Len(r[i])
             /\ new[i] <= new[Len(r) + 1]
             /\ \A j \in 1..Len(r[i]) : r[i][j] = Byte(kind, new[i] + j)
  <2>1. i \in 1..Len(q) /\ i + 1 \in 1..Len(q) /\ i \in 1..(Len(q) - 1)
    BY <1>1, <1>3
  <2>2. r[i] = q[i + 1] /\ new[i] = off[i + 1] /\ new[i + 1] = off[i + 1 + 1]
    BY <2>1, <1>2, <1>5
  <2>3. QED
    BY <2>1, <2>2, <1>p, <1>6
<1>8. Run(r, w, s + Len(Head(q)), n, kind)
  <2>1. new[Len(r) + 1] + Len(w) = n /\ \A j \in 1..Len(w) : w[j] = Byte(kind, new[Len(r) + 1] + j)
    BY <1>p, <1>6
  <2>2. QED
    BY ONLY <2>1, <1>4, <1>6, <1>7 DEF Run
<1>9. \A j \in 1..Len(Head(q)) : Head(q)[j] = Byte(kind, s + j)
  BY <1>p, <1>1
<1>10. QED
  BY <1>8, <1>9 DEF r

\* The writer goes on.
LEMMA RunWrite ==
    ASSUME NEW q \in Queues, NEW w \in Bytes, NEW s, NEW n \in Nat, NEW kind,
           Run(q, w, s, n, kind), NEW d \in Bytes,
           \A j \in 1..Len(d) : d[j] = Byte(kind, n + j)
    PROVE  Run(q, w \o d, s, n + Len(d), kind)
<1>p. PICK off \in [1..Len(q) + 1 -> 0..n] :
        /\ off[1] = s
        /\ off[Len(q) + 1] + Len(w) = n
        /\ \A i \in 1..Len(q) :
              /\ off[i + 1] = off[i] + Len(q[i])
              /\ off[i] <= off[Len(q) + 1]
              /\ \A j \in 1..Len(q[i]) : q[i][j] = Byte(kind, off[i] + j)
        /\ \A j \in 1..Len(w) : w[j] = Byte(kind, off[Len(q) + 1] + j)
  BY DEF Run
<1> DEFINE t == w \o d
           last == off[Len(q) + 1]
<1>1. Len(q) \in Nat /\ Len(w) \in Nat /\ Len(d) \in Nat /\ last \in 0..n
  BY SMTT(30) DEF Bytes, Queues
<1>2. /\ Len(t) = Len(w) + Len(d)
      /\ \A j \in 1..Len(w) : t[j] = w[j]
      /\ \A j \in Len(w) + 1 .. Len(w) + Len(d) : t[j] = d[j - Len(w)]
  BY <1>1 DEF Bytes
<1>3. off \in [1..Len(q) + 1 -> 0..(n + Len(d))]
  <2>1. \A i \in 1..Len(q) + 1 : off[i] \in 0..(n + Len(d))
    BY <1>1
  <2>2. QED
    BY <2>1
<1>l. last + Len(w) = n
  BY <1>p
<1> HIDE DEF t, last
<1>4. ASSUME NEW j \in 1..Len(t) PROVE t[j] = Byte(kind, last + j)
  <2>1. CASE j <= Len(w)
    <3>1. j \in 1..Len(w)
      BY <2>1, <1>1, <1>2
    <3>2. QED
      BY <3>1, <1>p, <1>2 DEF last
  <2>2. CASE j > Len(w)
    <3>1. j \in Len(w) + 1 .. Len(w) + Len(d) /\ j - Len(w) \in 1..Len(d)
      BY <2>2, <1>1, <1>2
    <3>2. n + (j - Len(w)) = last + j
      BY ONLY <1>l, <1>1, <3>1, n \in Nat
    <3>3. QED
      BY <3>1, <3>2, <1>2
  <2>3. QED
    BY <2>1, <2>2, <1>1, <1>2
<1>5. off[Len(q) + 1] + Len(t) = n + Len(d)
  <2>1. Len(t) = Len(w) + Len(d) /\ last \in Nat
    BY <1>1, <1>2
  <2>2. last + Len(t) = n + Len(d)
    BY ONLY <1>l, <1>1, <2>1, n \in Nat
  <2>3. QED
    BY <2>2 DEF last
<1>6. Run(q, t, s, n + Len(d), kind)
  BY <1>p, <1>3, <1>4, <1>5 DEF Run, last
<1>7. QED
  BY <1>6 DEF t

\* What is on the wire is given up.
LEMMA RunCut ==
    ASSUME NEW q \in Queues, NEW w \in Bytes, NEW s, NEW n \in Nat, NEW kind,
           Run(q, w, s, n, kind)
    PROVE  \E m \in 0..n : Run(q, <<>>, s, m, kind)
<1>p. PICK off \in [1..Len(q) + 1 -> 0..n] :
        /\ off[1] = s
        /\ off[Len(q) + 1] + Len(w) = n
        /\ \A i \in 1..Len(q) :
              /\ off[i + 1] = off[i] + Len(q[i])
              /\ off[i] <= off[Len(q) + 1]
              /\ \A j \in 1..Len(q[i]) : q[i][j] = Byte(kind, off[i] + j)
        /\ \A j \in 1..Len(w) : w[j] = Byte(kind, off[Len(q) + 1] + j)
  BY DEF Run
<1> DEFINE last == off[Len(q) + 1]
<1>1. Len(q) \in Nat /\ last \in 0..n /\ last \in Nat
  BY DEF Queues
<1>2. \A i \in 1..Len(q) + 1 : off[i] \in 0..last
  <2> SUFFICES ASSUME NEW i \in 1..Len(q) + 1 PROVE off[i] \in 0..last
    OBVIOUS
  <2>1. off[i] \in 0..n
    OBVIOUS
  <2>2. CASE i = Len(q) + 1
    BY <2>2, <1>1
  <2>3. CASE i # Len(q) + 1
    <3>1. i \in 1..Len(q)
      BY <2>3, <1>1
    <3>2. QED
      BY <3>1, <2>1, <1>1, <1>p
  <2>4. QED
    BY <2>2, <2>3
<1>3. off \in [1..Len(q) + 1 -> 0..last]
  BY <1>2
<1>4. Len(<<>>) = 0 /\ last + 0 = last
  BY <1>1
<1>5. \A j \in 1..0 : FALSE
  OBVIOUS
<1>6. Run(q, <<>>, s, last, kind)
  BY <1>p, <1>3, <1>4, <1>5 DEF Run
<1>7. QED
  BY <1>1, <1>6

\* The positions are numbers up to n.
LEMMA RunStart ==
    ASSUME NEW q \in Queues, NEW w \in Bytes, NEW s, NEW n \in Nat, NEW kind,
           Run(q, w, s, n, kind)
    PROVE  s \in 0..n
<1>1. Len(q) \in Nat
  BY DEF Queues
<1>2. 1 \in 1..Len(q) + 1
  BY <1>1
<1>3. QED
  BY <1>2 DEF Run

\* With nothing queued, what is on the wire is all there is.
LEMMA RunLine ==
    ASSUME NEW w \in Bytes, NEW s \in Nat, NEW n \in Nat, NEW kind
    PROVE  Run(<<>>, w, s, n, kind)
              <=> s + Len(w) = n /\ \A j \in 1..Len(w) : w[j] = Byte(kind, s + j)
<1>1. Len(<<>>) = 0 /\ Len(w) \in Nat
  BY DEF Bytes
<1>2. ASSUME Run(<<>>, w, s, n, kind)
      PROVE  s + Len(w) = n /\ \A j \in 1..Len(w) : w[j] = Byte(kind, s + j)
  BY <1>1, <1>2 DEF Run
<1>3. ASSUME s + Len(w) = n, \A j \in 1..Len(w) : w[j] = Byte(kind, s + j)
      PROVE  Run(<<>>, w, s, n, kind)
  <2> DEFINE off == [i \in 1..1 |-> s]
  <2>1. off \in [1..Len(<<>>) + 1 -> 0..n] /\ off[1] = s
    BY <1>1, <1>3
  <2>2. \A i \in 1..Len(<<>>) : FALSE
    BY <1>1
  <2> HIDE DEF off
  <2>3. off[Len(<<>>) + 1] = s
    BY <1>1, <2>1
  <2>4. QED
    BY <2>1, <2>2, <2>3, <1>3 DEF Run
<1>4. QED
  BY <1>2, <1>3

\* Where nothing has been written, the kind of the header is open.
LEMMA RunNothing ==
    ASSUME NEW q \in Queues, NEW w \in Bytes, NEW s, NEW kind, Run(q, w, s, 0, kind)
    PROVE  w = <<>> /\ \A other : Run(q, w, s, 0, other)
<1>p. PICK off \in [1..Len(q) + 1 -> 0..0] :
        /\ off[1] = s
        /\ off[Len(q) + 1] + Len(w) = 0
        /\ \A i \in 1..Len(q) :
              /\ off[i + 1] = off[i] + Len(q[i])
              /\ off[i] <= off[Len(q) + 1]
              /\ \A j \in 1..Len(q[i]) : q[i][j] = Byte(kind, off[i] + j)
        /\ \A j \in 1..Len(w) : w[j] = Byte(kind, off[Len(q) + 1] + j)
  BY DEF Run
<1>1. Len(q) \in Nat /\ Len(w) \in Nat
  BY DEF Queues, Bytes
<1>2. \A i \in 1..Len(q) + 1 : off[i] = 0
  OBVIOUS
<1>3. Len(w) = 0
  BY <1>p, <1>1, <1>2
<1>4. w = <<>>
  BY <1>3 DEF Bytes
<1>5. \A i \in 1..Len(q) : Len(q[i]) = 0
  <2> SUFFICES ASSUME NEW i \in 1..Len(q) PROVE Len(q[i]) = 0
    OBVIOUS
  <2>1. q[i] \in Bytes /\ i \in 1..Len(q) + 1 /\ i + 1 \in 1..Len(q) + 1
    BY <1>1 DEF Queues
  <2>2. Len(q[i]) \in Nat
    BY <2>1 DEF Bytes
  <2>3. QED
    BY <2>1, <2>2, <1>p, <1>2
<1>6. ASSUME NEW other PROVE Run(q, w, s, 0, other)
  <2>1. \A j \in 1..0 : FALSE
    OBVIOUS
  <2>2. QED
    BY <1>p, <1>3, <1>5, <2>1 DEF Run
<1>7. QED
  BY <1>4, <1>6
-----------------------------------------------------------------------------
(* The two ends. *)

LEMMA TwoEnds ==
    /\ Far("client") = "server" /\ Far("server") = "client"
    /\ \A e \in Ends : /\ Far(e) \in Ends /\ Far(e) # e /\ Far(Far(e)) = e
                       /\ \A x \in Ends : x = e \/ x = Far(e)
<1>1. Far("client") = "server"
  BY DEF Far, Ends
<1>2. Far("server") = "client"
  BY DEF Far, Ends
<1>3. QED
  BY <1>1, <1>2 DEF Ends

LEMMA InitIInv == Init => IInv
<1> SUFFICES ASSUME Init PROVE IInv
  OBVIOUS
<1>1. <<>> \in Bytes /\ <<>> \in Queues /\ Len(<<>>) = 0 /\ \A j \in 1..0 : FALSE
  BY DEF Bytes, Queues
<1>2. \A e \in Ends : /\ head[e] = <<>> /\ chunks[e] = <<>> /\ wire[e] = <<>> /\ got[e] = <<>>
                      /\ taken[e] = 0 /\ sent[e] = 0 /\ fin[e] = "open" /\ peer[e] = "open"
                      /\ to[e] = "off" /\ from[e] = "off" /\ ~routed[e] /\ ~closed[e]
  BY DEF Init, Both
<1>3. task["client"] = "serving" /\ task["server"] = "none"
  BY DEF Init, Ends
<1>4. Typed
  BY <1>1 DEF Init, Typed, Both, Ends
<1>5. Control
  BY <1>2, <1>3 DEF Control, Stages, SendingSides, Unopened, Ends
<1>6. EndsLast /\ Given
  BY <1>1, <1>2, TwoEnds DEF EndsLast, Given
<1>7. ASSUME NEW e \in Ends PROVE Inflow(e)
  <2>1. Far(e) \in Ends /\ Base(e) = 0
    BY <1>3, TwoEnds DEF Base, Waiting, Ends
  <2>2. Run(<<>>, <<>>, 0, 0, Kind(Far(e)))
    BY <1>1, RunLine
  <2>3. Written(Far(e), 0)
    BY <1>2, <1>3, <2>1 DEF Written, Ends
  <2>4. 0 \in 0..(HeadLen + taken[Far(e)])
    BY <1>2, <2>1, PassThroughAssumption
  <2>5. Base(e) + Len(head[e]) = 0
    BY <1>1, <1>2, <2>1
  <2>6. QED
    BY <1>1, <1>2, <2>1, <2>2, <2>3, <2>4, <2>5 DEF Inflow
<1>8. QED
  BY <1>4, <1>5, <1>6, <1>7 DEF IInv, Inflows

\* A direction the step leaves alone.
LEMMA InflowKept ==
    ASSUME NEW e \in Ends, Inflow(e), Typed, Typed',
           chunks'[e] = chunks[e], head'[e] = head[e], got'[e] = got[e],
           wire'[Far(e)] = wire[Far(e)],
           Waiting(e)' <=> Waiting(e), Kind(Far(e))' = Kind(Far(e)),
           taken[Far(e)] <= taken'[Far(e)],
           \A n \in Nat : Written(Far(e), n) => Written(Far(e), n)'
    PROVE  Inflow(e)'
<1>1. Base(e)' = Base(e)
  BY DEF Base
<1>2. HeadLen \in Nat /\ taken[Far(e)] \in Nat /\ taken'[Far(e)] \in Nat
  BY TwoEnds, PassThroughAssumption DEF Typed
<1>p. PICK n \in 0..(HeadLen + taken[Far(e)]) :
          /\ Run(chunks[e], wire[Far(e)], Base(e) + Len(head[e]), n, Kind(Far(e)))
          /\ Written(Far(e), n)
  BY DEF Inflow
<1>3. n \in 0..(HeadLen + taken'[Far(e)]) /\ n \in Nat
  BY <1>2
<1>4. Written(Far(e), n)'
  BY <1>p, <1>3
<1>5. Run(chunks'[e], wire'[Far(e)], Base(e)' + Len(head'[e]), n, Kind(Far(e))')
  BY <1>p, <1>1
<1>6. \A j \in 1..Len(head'[e]) : head'[e][j] = Byte(Kind(Far(e))', Base(e)' + j)
  BY <1>1 DEF Inflow
<1>7. QED
  BY <1>3, <1>4, <1>5, <1>6 DEF Inflow

\* Some of what is on the wire arrives, and the end with it or not.
LEMMA InflowFed ==
    ASSUME NEW e \in Ends, Inflow(e), Typed, Typed',
           NEW m \in 0..Len(wire[Far(e)]), NEW end \in BOOLEAN,
           chunks'[e] = Fed(chunks[e], SubSeq(wire[Far(e)], 1, m), end),
           wire'[Far(e)] = SubSeq(wire[Far(e)], m + 1, Len(wire[Far(e)])),
           head'[e] = head[e], got'[e] = got[e],
           Waiting(e)' <=> Waiting(e), Kind(Far(e))' = Kind(Far(e)),
           taken[Far(e)] <= taken'[Far(e)],
           \A n \in Nat : Written(Far(e), n) => Written(Far(e), n)'
    PROVE  Inflow(e)'
<1>1. Base(e)' = Base(e)
  BY DEF Base
<1>2. /\ HeadLen \in Nat /\ taken[Far(e)] \in Nat /\ taken'[Far(e)] \in Nat
      /\ chunks[e] \in Queues /\ wire[Far(e)] \in Bytes
  BY TwoEnds, PassThroughAssumption DEF Typed
<1>p. PICK n \in 0..(HeadLen + taken[Far(e)]) :
          /\ Run(chunks[e], wire[Far(e)], Base(e) + Len(head[e]), n, Kind(Far(e)))
          /\ Written(Far(e), n)
  BY DEF Inflow
<1>3. n \in 0..(HeadLen + taken'[Far(e)]) /\ n \in Nat
  BY <1>2
<1>4. Written(Far(e), n)'
  BY <1>p, <1>3
<1>5. Run(Fed(chunks[e], SubSeq(wire[Far(e)], 1, m), end),
          SubSeq(wire[Far(e)], m + 1, Len(wire[Far(e)])), Base(e) + Len(head[e]), n, Kind(Far(e)))
  BY <1>p, <1>2, <1>3, RunFed
<1>6. Run(chunks'[e], wire'[Far(e)], Base(e)' + Len(head'[e]), n, Kind(Far(e))')
  BY <1>1, <1>5
<1>7. \A j \in 1..Len(head'[e]) : head'[e][j] = Byte(Kind(Far(e))', Base(e)' + j)
  BY <1>1 DEF Inflow
<1>8. QED
  BY <1>3, <1>4, <1>6, <1>7 DEF Inflow

\* The stream fails, or does not, at the end it leads to.
LEMMA InflowFails ==
    ASSUME NEW e \in Ends, Inflow(e), Typed, Typed', NEW end \in BOOLEAN,
           chunks'[e] = Fed(chunks[e], <<>>, end), wire'[Far(e)] = wire[Far(e)],
           head'[e] = head[e], got'[e] = got[e],
           Waiting(e)' <=> Waiting(e), Kind(Far(e))' = Kind(Far(e)),
           taken[Far(e)] <= taken'[Far(e)],
           \A n \in Nat : Written(Far(e), n) => Written(Far(e), n)'
    PROVE  Inflow(e)'
<1>1. wire[Far(e)] \in Bytes
  BY TwoEnds DEF Typed
<1>2. /\ 0 \in 0..Len(wire[Far(e)]) /\ SubSeq(wire[Far(e)], 1, 0) = <<>>
      /\ SubSeq(wire[Far(e)], 0 + 1, Len(wire[Far(e)])) = wire[Far(e)]
  BY <1>1, SubSeqFull DEF Bytes
<1>3. QED
  BY <1>2, InflowFed

\* ... and what was on the wire is given up.
LEMMA InflowCut ==
    ASSUME NEW e \in Ends, Inflow(e), Typed, Typed', NEW end \in BOOLEAN,
           chunks'[e] = Fed(chunks[e], <<>>, end), wire'[Far(e)] = <<>>,
           head'[e] = head[e], got'[e] = got[e],
           Waiting(e)' <=> Waiting(e), Kind(Far(e))' = Kind(Far(e)),
           taken'[Far(e)] = taken[Far(e)],
           \A n \in Nat : Written(Far(e), n) => \A m \in 0..n : Written(Far(e), m)'
    PROVE  Inflow(e)'
<1>1. Base(e)' = Base(e)
  BY DEF Base
<1>2. /\ HeadLen \in Nat /\ taken[Far(e)] \in Nat
      /\ chunks[e] \in Queues /\ wire[Far(e)] \in Bytes /\ <<>> \in Bytes
  BY TwoEnds, PassThroughAssumption DEF Typed, Bytes
<1>p. PICK n \in 0..(HeadLen + taken[Far(e)]) :
          /\ Run(chunks[e], wire[Far(e)], Base(e) + Len(head[e]), n, Kind(Far(e)))
          /\ Written(Far(e), n)
  BY DEF Inflow
<1>3. n \in Nat
  BY <1>2
<1>c. PICK m \in 0..n : Run(chunks[e], <<>>, Base(e) + Len(head[e]), m, Kind(Far(e)))
  BY <1>p, <1>2, <1>3, RunCut
<1>4. m \in 0..(HeadLen + taken'[Far(e)]) /\ m \in Nat
  BY <1>2, <1>3
<1>5. Written(Far(e), m)'
  BY <1>p, <1>3
<1>6. Run(Fed(chunks[e], <<>>, end), <<>>, Base(e) + Len(head[e]), m, Kind(Far(e)))
  BY <1>c, <1>2, <1>4, RunEnd
<1>7. Run(chunks'[e], wire'[Far(e)], Base(e)' + Len(head'[e]), m, Kind(Far(e))')
  BY <1>1, <1>6
<1>8. \A j \in 1..Len(head'[e]) : head'[e][j] = Byte(Kind(Far(e))', Base(e)' + j)
  BY <1>1 DEF Inflow
<1>9. QED
  BY <1>4, <1>5, <1>7, <1>8 DEF Inflow

\* A step that moves no byte and ends no coroutine.
LEMMA QuietInflows ==
    ASSUME IInv, Typed', UNCHANGED <<task, from, head, chunks, closed, wire, fin, taken, got>>
    PROVE  Inflows'
<1> SUFFICES ASSUME NEW e \in Ends, task'[e] # "ended" PROVE Inflow(e)'
  BY DEF Inflows
<1>1. Inflow(e) /\ Typed
  BY DEF IInv, Inflows
<1>2. taken[Far(e)] \in Nat
  BY <1>1, TwoEnds DEF Typed
<1>3. (Waiting(e)' <=> Waiting(e)) /\ Kind(Far(e))' = Kind(Far(e))
  BY DEF Waiting, Kind
<1>4. \A n \in Nat : Written(Far(e), n) => Written(Far(e), n)'
  BY DEF Written
<1>5. QED
  BY <1>1, <1>2, <1>3, <1>4, InflowKept
-----------------------------------------------------------------------------
(* The steps of the peers and of the connection. *)

LEMMA PeerKeeps ==
    ASSUME IInv, NEW e \in Ends, PeerSends(e) \/ PeerEnds(e) \/ PeerResets(e)
    PROVE  IInv'
<1>1. UNCHANGED <<task, to, from, head, chunks, routed, closed, wire, fin, taken, got>>
  BY DEF PeerSends, PeerEnds, PeerResets, streams, network
<1>2. /\ \A x \in Ends : peer[x] # "open" => peer'[x] # "open" /\ sent'[x] = sent[x]
      /\ sent' \in [Ends -> Nat] /\ peer' \in [Ends -> {"open", "end", "reset"}]
  BY DEF PeerSends, PeerEnds, PeerResets, IInv, Typed
<1>3. Typed'
  BY <1>1, <1>2 DEF IInv, Typed
<1>4. Control'
  BY <1>1, <1>2 DEF IInv, Control, Stages, SendingSides, Unopened
<1>5. EndsLast' /\ Given'
  BY <1>1 DEF IInv, EndsLast, Given
<1>6. QED
  BY <1>1, <1>3, <1>4, <1>5, QuietInflows DEF IInv

LEMMA DrainedKeeps == ASSUME IInv, NEW e \in Ends, Drained(e) PROVE IInv'
<1>1. /\ UNCHANGED <<task, from, head, chunks, routed, closed, wire, fin, sent, taken, peer, got>>
      /\ to' = [to EXCEPT ![e] = "read"] /\ to[e] = "drain"
  BY DEF Drained, streams, network, peers
<1>2. Typed'
  BY <1>1 DEF IInv, Typed
<1>3. Control'
  BY <1>1 DEF IInv, Typed, Control, Stages, SendingSides, Unopened
<1>4. EndsLast' /\ Given'
  BY <1>1 DEF IInv, EndsLast, Given
<1>5. QED
  BY <1>1, <1>2, <1>3, <1>4, QuietInflows DEF IInv

\* fail() of a stream that is routed ends its queue and closes it.
LEMMA FailFacts ==
    ASSUME Typed, NEW e \in Ends, Fail(e)
    PROVE  /\ routed' \in [Ends -> BOOLEAN] /\ closed' \in [Ends -> BOOLEAN]
           /\ chunks' \in [Ends -> Queues]
           /\ ~routed'[e] /\ (closed[e] \/ routed[e] <=> closed'[e])
           /\ chunks'[e] = Fed(chunks[e], <<>>, routed[e])
           /\ ~routed[e] => chunks'[e] = chunks[e]
           /\ \A x \in Ends \ {e} : /\ routed'[x] = routed[x] /\ closed'[x] = closed[x]
                                    /\ chunks'[x] = chunks[x]
<1>1. /\ routed' = [routed EXCEPT ![e] = FALSE]
      /\ closed' = [closed EXCEPT ![e] = @ \/ routed[e]]
      /\ chunks' = [chunks EXCEPT ![e] = Fed(@, <<>>, routed[e])]
  BY DEF Fail
<1>2. /\ routed \in [Ends -> BOOLEAN] /\ closed \in [Ends -> BOOLEAN]
      /\ chunks \in [Ends -> Queues] /\ <<>> \in Bytes
  BY DEF Typed, Bytes
<1>3. /\ Fed(chunks[e], <<>>, routed[e]) \in Queues
      /\ ~routed[e] => Fed(chunks[e], <<>>, routed[e]) = chunks[e]
  BY <1>2, FedCases
<1>4. closed[e] \/ routed[e] \in BOOLEAN
  BY <1>2
<1>5. routed' \in [Ends -> BOOLEAN] /\ ~routed'[e] /\ \A x \in Ends \ {e} : routed'[x] = routed[x]
  BY <1>1, <1>2
<1>6. /\ closed' \in [Ends -> BOOLEAN] /\ (closed[e] \/ routed[e] <=> closed'[e])
      /\ \A x \in Ends \ {e} : closed'[x] = closed[x]
  BY <1>1, <1>2, <1>4
<1>7. /\ chunks' \in [Ends -> Queues] /\ chunks'[e] = Fed(chunks[e], <<>>, routed[e])
      /\ \A x \in Ends \ {e} : chunks'[x] = chunks[x]
  BY <1>1, <1>2, <1>3
<1>8. QED
  BY <1>3, <1>5, <1>6, <1>7

\* What is behind the first chunk.
LEMMA TailFacts ==
    ASSUME NEW q \in Queues, q # <<>>
    PROVE  /\ Tail(q) \in Queues /\ Len(Tail(q)) + 1 = Len(q) /\ Len(Tail(q)) \in Nat
           /\ Head(q) = q[1] /\ Head(q) \in Bytes /\ 1 \in 1..Len(q)
           /\ \A i \in 1..Len(Tail(q)) : Tail(q)[i] = q[i + 1] /\ i + 1 \in 1..Len(q)
BY DEF Queues

\* Where there was no end, the end that is fed is last.
LEMMA FedEnds ==
    ASSUME NEW q \in Queues, NEW d \in Bytes, NEW end \in BOOLEAN,
           \A i \in 1..Len(q) : q[i] # <<>>
    PROVE  \A i \in 1..Len(Fed(q, d, end)) :
               Fed(q, d, end)[i] = <<>> => end /\ i = Len(Fed(q, d, end))
<1>1. Len(q) \in Nat /\ <<>> \in Bytes
  BY DEF Queues, Bytes
<1>2. \A x \in Bytes : /\ Append(q, x) \in Queues
                       /\ Len(Append(q, x)) = Len(q) + 1 /\ Append(q, x)[Len(q) + 1] = x
                       /\ \A i \in 1..Len(q) : Append(q, x)[i] = q[i]
  BY DEF Queues
<1> DEFINE r == Append(q, d)
<1>3. /\ r \in Queues /\ Len(r) = Len(q) + 1 /\ r[Len(q) + 1] = d
      /\ \A i \in 1..Len(q) : r[i] = q[i]
  BY <1>2
<1> HIDE DEF r
<1>4. /\ Len(Append(r, <<>>)) = Len(r) + 1 /\ \A i \in 1..Len(r) : Append(r, <<>>)[i] = r[i]
  BY <1>1, <1>3 DEF Queues
<1>5. CASE d = <<>> /\ ~end
  BY <1>5, FedCases
<1>6. CASE d = <<>> /\ end
  <2>1. Fed(q, d, end) = Append(q, <<>>)
    BY <1>6, FedCases
  <2>2. QED
    BY <2>1, <1>1, <1>2, <1>6
<1>7. CASE d # <<>> /\ ~end
  <2>1. Fed(q, d, end) = r
    BY <1>7, FedCases DEF r
  <2>2. QED
    BY <2>1, <1>1, <1>3, <1>7
<1>8. CASE d # <<>> /\ end
  <2>1. Fed(q, d, end) = Append(r, <<>>)
    BY <1>8, FedCases DEF r
  <2>2. \A i \in 1..Len(r) : r[i] # <<>>
    BY <1>1, <1>3, <1>8
  <2>3. QED
    BY <2>1, <2>2, <1>1, <1>3, <1>4, <1>8
<1>9. QED
  BY <1>5, <1>6, <1>7, <1>8

LEMMA LeftBehindKeeps == ASSUME IInv, NEW e \in Ends, LeftBehind(e) PROVE IInv'
<1>1. /\ UNCHANGED <<task, head, routed, closed, wire, fin, sent, taken, peer, got>>
      /\ task[e] = "ended"
  BY DEF LeftBehind, network, peers
<1>2. \/ /\ to[e] \in {"read", "drain"} /\ to' = [to EXCEPT ![e] = "done"]
         /\ UNCHANGED <<from, chunks>>
      \/ /\ from[e] = "read" /\ chunks[e] # <<>> /\ UNCHANGED to
         /\ chunks' = [chunks EXCEPT ![e] = Tail(@)]
         /\ from' = [from EXCEPT ![e] = "done"] \/ from' = from
  BY DEF LeftBehind
<1>3. Typed'
  <2>1. chunks' \in [Ends -> Queues]
    <3>1. chunks \in [Ends -> Queues]
      BY DEF IInv, Typed
    <3>2. chunks[e] # <<>> => Tail(chunks[e]) \in Queues
      BY <3>1, TailFacts
    <3>3. QED
      BY <1>2, <3>1, <3>2
  <2>2. to' \in [Ends -> {"off", "read", "drain", "done"}] /\ from' \in [Ends -> {"off", "read", "done"}]
    BY <1>2 DEF IInv, Typed
  <2>3. QED
    BY <1>1, <2>1, <2>2 DEF IInv, Typed
<1>4. /\ \A x \in Ends \ {e} : to'[x] = to[x] /\ from'[x] = from[x] /\ chunks'[x] = chunks[x]
      /\ (from'[e] = "off" <=> from[e] = "off") /\ (to'[e] = "off" <=> to[e] = "off")
      /\ to[e] = "done" => to'[e] = "done"
      /\ from'[e] # from[e] => from[e] = "read" /\ from'[e] = "done"
  BY <1>2 DEF IInv, Typed
<1>5. Stages' /\ SendingSides'
  BY <1>1, <1>4 DEF IInv, Control, Stages, SendingSides, Ends
<1>6. Unopened' /\ EndsLast'
  BY <1>1, <1>4 DEF IInv, Control, Unopened, EndsLast, Ends
<1>7. Given'
  BY <1>1, <1>4 DEF IInv, Control, Stages, Given
<1>8. Inflows'
  <2> SUFFICES ASSUME NEW x \in Ends, task'[x] # "ended" PROVE Inflow(x)'
    BY DEF Inflows
  <2>1. x # e /\ x = Far(e) /\ Far(x) = e /\ Inflow(x)
    BY <1>1, TwoEnds DEF IInv, Inflows
  <2>2. (Waiting(x)' <=> Waiting(x)) /\ Kind(Far(x))' = Kind(Far(x))
    BY <1>1, <1>4 DEF Waiting, Kind, Ends
  <2>3. \A n \in Nat : Written(e, n) => Written(e, n)'
    BY <1>1, <1>4 DEF Written
  <2>4. taken[e] \in Nat
    BY DEF IInv, Typed
  <2>5. QED
    BY <1>1, <1>3, <1>4, <2>1, <2>2, <2>3, <2>4, InflowKept DEF IInv
<1>9. QED
  BY <1>3, <1>5, <1>6, <1>7, <1>8 DEF IInv, Control

LEMMA ConnectionTerminatedKeeps == ASSUME IInv, NEW e \in Ends, ConnectionTerminated(e) PROVE IInv'
<1>1. UNCHANGED <<task, to, from, head, wire, fin, sent, taken, peer, got>> /\ Fail(e) /\ Typed
  BY DEF ConnectionTerminated, peers, IInv
<1>2. /\ routed' \in [Ends -> BOOLEAN] /\ closed' \in [Ends -> BOOLEAN]
      /\ chunks' \in [Ends -> Queues]
      /\ ~routed'[e] /\ (closed[e] \/ routed[e] <=> closed'[e])
      /\ chunks'[e] = Fed(chunks[e], <<>>, routed[e])
      /\ ~routed[e] => chunks'[e] = chunks[e]
      /\ \A x \in Ends \ {e} : /\ routed'[x] = routed[x] /\ closed'[x] = closed[x]
                               /\ chunks'[x] = chunks[x]
  BY <1>1, FailFacts
<1>3. Typed'
  BY <1>1, <1>2 DEF Typed
<1>4. Stages' /\ SendingSides' /\ Unopened'
  BY <1>1, <1>2, TwoEnds DEF IInv, Control, Stages, SendingSides, Unopened, Ends
<1>5. EndsLast' /\ Given'
  BY <1>1, <1>2 DEF IInv, EndsLast, Given
<1>6. Inflows'
  <2> SUFFICES ASSUME NEW x \in Ends, task'[x] # "ended" PROVE Inflow(x)'
    BY DEF Inflows
  <2>1. Inflow(x) /\ Far(x) \in Ends
    BY <1>1, TwoEnds DEF IInv, Inflows
  <2>2. (Waiting(x)' <=> Waiting(x)) /\ Kind(Far(x))' = Kind(Far(x)) /\ taken[Far(x)] \in Nat
    BY <1>1, <2>1 DEF Waiting, Kind, Typed
  <2>3. \A n \in Nat : Written(Far(x), n) => Written(Far(x), n)'
    BY <1>1, <1>2, <2>1 DEF Written
  <2>4. CASE x = e
    <3>1. routed[e] \in BOOLEAN
      BY <1>1 DEF Typed
    <3>2. QED
      BY <1>1, <1>2, <1>3, <2>1, <2>2, <2>3, <2>4, <3>1, InflowFails
  <2>5. CASE x # e
    BY <1>1, <1>2, <1>3, <2>1, <2>2, <2>3, <2>5, InflowKept
  <2>6. QED
    BY <2>4, <2>5
<1>7. QED
  BY <1>3, <1>4, <1>5, <1>6 DEF IInv, Control

LEMMA ResetArrivesKeeps == ASSUME IInv, NEW e \in Ends, ResetArrives(e) PROVE IInv'
<1> DEFINE f == Far(e)
<1>0. f \in Ends /\ f # e /\ Far(f) = e /\ \A x \in Ends : x = e \/ x = f
  BY TwoEnds
<1> HIDE DEF f
<1>1. /\ UNCHANGED <<task, to, from, head, sent, taken, peer, got>> /\ Fail(f) /\ Typed
      /\ fin[e] = "reset" /\ fin' = [fin EXCEPT ![e] = "resetseen"]
      /\ wire' = [wire EXCEPT ![e] = <<>>]
  BY DEF ResetArrives, peers, IInv, f
<1>2. /\ routed' \in [Ends -> BOOLEAN] /\ closed' \in [Ends -> BOOLEAN]
      /\ chunks' \in [Ends -> Queues]
      /\ ~routed'[f] /\ (closed[f] \/ routed[f] <=> closed'[f])
      /\ chunks'[f] = Fed(chunks[f], <<>>, routed[f])
      /\ ~routed[f] => chunks'[f] = chunks[f]
      /\ \A x \in Ends \ {f} : /\ routed'[x] = routed[x] /\ closed'[x] = closed[x]
                               /\ chunks'[x] = chunks[x]
  BY <1>0, <1>1, FailFacts
<1>3. /\ fin'[e] = "resetseen" /\ fin'[f] = fin[f] /\ wire'[e] = <<>> /\ wire'[f] = wire[f]
      /\ <<>> \in Bytes
  BY <1>0, <1>1 DEF Typed, Bytes
<1>4. Typed'
  BY <1>1, <1>2, <1>3 DEF Typed
<1>5. Stages' /\ SendingSides' /\ Unopened'
  <2>1. Stages'
    BY <1>0, <1>1, <1>2 DEF IInv, Control, Stages
  <2>2. SendingSides'
    BY <1>0, <1>1, <1>2, <1>3, TwoEnds DEF IInv, Control, SendingSides
  <2>3. Unopened'
    BY <1>0, <1>1, <1>2, <1>3 DEF IInv, Control, Unopened, Ends
  <2>4. QED
    BY <2>1, <2>2, <2>3
<1>6. EndsLast'
  BY <1>0, <1>1, <1>2, <1>3, TwoEnds DEF IInv, EndsLast
<1>7. Given'
  BY <1>0, <1>1, <1>2, <1>3, TwoEnds DEF IInv, Given
<1>8. Inflows'
  <2>1. \A x \in Ends : (Waiting(x)' <=> Waiting(x)) /\ Kind(x)' = Kind(x) /\ taken[x] \in Nat
    BY <1>1 DEF Waiting, Kind, Typed
  <2>2. ASSUME task'[f] # "ended" PROVE Inflow(f)'
    <3>1. Inflow(f) /\ routed[f] \in BOOLEAN
      BY <1>0, <1>1, <2>2 DEF IInv, Inflows, Typed
    <3>2. closed[e]
      BY <1>1 DEF IInv, Control, SendingSides
    <3>3. \A n \in Nat : Written(e, n) => \A m \in 0..n : Written(e, m)'
      BY <1>0, <1>1, <1>2, <1>3, <3>2 DEF Written
    <3>4. QED
      BY <1>0, <1>1, <1>2, <1>3, <1>4, <2>1, <3>1, <3>3, InflowCut
  <2>3. ASSUME task'[e] # "ended" PROVE Inflow(e)'
    <3>1. Inflow(e)
      BY <1>1, <2>3 DEF IInv, Inflows
    <3>2. \A n \in Nat : Written(f, n) => Written(f, n)'
      BY <1>0, <1>1, <1>2, <1>3 DEF Written
    <3>3. f = Far(e) /\ chunks'[e] = chunks[e]
      BY <1>0, <1>2 DEF f
    <3>4. QED
      BY <1>0, <1>1, <1>3, <1>4, <2>1, <3>1, <3>2, <3>3, InflowKept
  <2>4. QED
    BY <1>0, <2>2, <2>3 DEF Inflows
<1>9. QED
  BY <1>4, <1>5, <1>6, <1>7, <1>8 DEF IInv, Control

\* Bytes, and the end of the stream, reach the far end's queue.
LEMMA DataArrivesKeeps == ASSUME IInv, NEW e \in Ends, DataArrives(e) PROVE IInv'
<1> DEFINE f == Far(e)
<1>0. f \in Ends /\ f # e /\ Far(f) = e /\ f = Far(e) /\ \A x \in Ends : x = e \/ x = f
  BY TwoEnds
<1> HIDE DEF f
<1>p. PICK n \in 0..Len(wire[e]), end \in BOOLEAN :
        /\ end <=> n = Len(wire[e]) /\ fin[e] = "end"
        /\ wire' = [wire EXCEPT ![e] = SubSeq(@, n + 1, Len(@))]
        /\ chunks' = [chunks EXCEPT ![f] = Fed(@, SubSeq(wire[e], 1, n), end)]
        /\ fin' = IF end THEN [fin EXCEPT ![e] = "endseen"] ELSE fin
        /\ routed' = [routed EXCEPT ![f] = ~end]
  <2>p. PICK n \in 0..Len(wire[e]) :
          LET end == n = Len(wire[e]) /\ fin[e] = "end"
          IN  /\ wire' = [wire EXCEPT ![e] = SubSeq(@, n + 1, Len(@))]
              /\ chunks' = [chunks EXCEPT ![f] = Fed(@, SubSeq(wire[e], 1, n), end)]
              /\ fin' = IF end THEN [fin EXCEPT ![e] = "endseen"] ELSE fin
              /\ routed' = [routed EXCEPT ![f] = ~end]
    BY <1>0, ZenonT(40) DEF DataArrives
  <2> DEFINE end == n = Len(wire[e]) /\ fin[e] = "end"
  <2>1. end \in BOOLEAN
    OBVIOUS
  <2>2. /\ wire' = [wire EXCEPT ![e] = SubSeq(@, n + 1, Len(@))]
        /\ chunks' = [chunks EXCEPT ![f] = Fed(@, SubSeq(wire[e], 1, n), end)]
        /\ fin' = IF end THEN [fin EXCEPT ![e] = "endseen"] ELSE fin
        /\ routed' = [routed EXCEPT ![f] = ~end]
    BY <2>p
  <2>3. end <=> n = Len(wire[e]) /\ fin[e] = "end"
    OBVIOUS
  <2> HIDE DEF end
  <2>4. QED
    BY <2>1, <2>2, <2>3
<1>1. /\ UNCHANGED <<task, to, from, head, closed, sent, taken, peer, got>> /\ Typed
      /\ routed[f] /\ fin[e] # "resetseen"
  BY <1>0 DEF DataArrives, peers, IInv
<1>2. /\ wire[e] \in Bytes /\ chunks[f] \in Queues /\ Len(wire[e]) \in Nat /\ n \in Nat /\ n <= Len(wire[e])
      /\ SubSeq(wire[e], 1, n) \in Bytes /\ SubSeq(wire[e], n + 1, Len(wire[e])) \in Bytes
      /\ n = Len(wire[e]) => SubSeq(wire[e], n + 1, Len(wire[e])) = <<>>
  BY <1>0, <1>1, SMTT(30) DEF Typed, Bytes
<1>3. Fed(chunks[f], SubSeq(wire[e], 1, n), end) \in Queues
  BY <1>2, FedCases
<1>4. /\ wire'[e] = SubSeq(wire[e], n + 1, Len(wire[e])) /\ wire'[f] = wire[f]
      /\ chunks'[f] = Fed(chunks[f], SubSeq(wire[e], 1, n), end) /\ chunks'[e] = chunks[e]
      /\ (routed'[f] <=> ~end) /\ routed'[e] = routed[e]
      /\ fin'[f] = fin[f] /\ (end => fin'[e] = "endseen" /\ fin[e] = "end" /\ wire'[e] = <<>>)
      /\ ~end => fin'[e] = fin[e]
  <2>1. /\ wire \in [Ends -> Bytes] /\ chunks \in [Ends -> Queues] /\ routed \in [Ends -> BOOLEAN]
        /\ fin \in [Ends -> {"open", "end", "reset", "endseen", "resetseen"}]
    BY <1>1 DEF Typed
  <2>2. wire'[e] = SubSeq(wire[e], n + 1, Len(wire[e])) /\ wire'[f] = wire[f]
    BY <1>p, <1>0, <2>1
  <2>3. chunks'[f] = Fed(chunks[f], SubSeq(wire[e], 1, n), end) /\ chunks'[e] = chunks[e]
    BY <1>p, <1>0, <2>1
  <2>4. (routed'[f] <=> ~end) /\ routed'[e] = routed[e]
    BY <1>p, <1>0, <2>1
  <2>5. /\ fin'[f] = fin[f]
        /\ ~end => fin'[e] = fin[e]
        /\ end => fin'[e] = "endseen"
    BY <1>p, <1>0, <2>1
  <2>6. end => fin[e] = "end" /\ wire'[e] = <<>>
    BY <1>p, <1>2, <2>2
  <2>7. QED
    BY <2>2, <2>3, <2>4, <2>5, <2>6
<1>5. Typed'
  <2>1. wire' \in [Ends -> Bytes] /\ chunks' \in [Ends -> Queues]
    BY <1>p, <1>1, <1>2, <1>3 DEF Typed
  <2>2. /\ routed' \in [Ends -> BOOLEAN]
        /\ fin' \in [Ends -> {"open", "end", "reset", "endseen", "resetseen"}]
    BY <1>p, <1>1 DEF Typed
  <2>3. QED
    BY <1>1, <2>1, <2>2 DEF Typed
<1>6. fin[e] # "endseen"
  BY <1>0, <1>1 DEF IInv, Control, SendingSides
<1>7. Stages'
  BY <1>1 DEF IInv, Control, Stages
<1>8. SendingSides'
  <2> DEFINE Side(x) ==
        /\ fin[x] \in {"reset", "resetseen"} => closed[x]
        /\ fin[x] \in {"end", "endseen"} =>
              \/ x = "server" /\ from[x] = "off" /\ task[x] = "ended"
              \/ to[x] = "done" /\ taken[x] = sent[x] /\ peer[x] # "open"
        /\ fin[x] = "endseen" => wire[x] = <<>> /\ ~routed[Far(x)]
  <2>1. Side(e) /\ Side(f)
    BY <1>0 DEF IInv, Control, SendingSides
  <2>2. Side(f)'
    BY <1>0, <1>1, <1>4, <2>1
  <2>3. Side(e)'
    <3>1. CASE end
      BY <1>0, <1>1, <1>4, <2>1, <3>1
    <3>2. CASE ~end
      BY <1>0, <1>1, <1>4, <1>6, <2>1, <3>2
    <3>3. QED
      BY <3>1, <3>2
  <2>4. QED
    BY <1>0, <2>2, <2>3 DEF SendingSides
<1>9. Unopened'
  <2> SUFFICES ASSUME task'["server"] = "none"
               PROVE  chunks'["server"] = <<>> /\ ~routed'["server"] /\ fin'["client"] # "endseen"
    BY DEF Unopened
  <2>1. chunks["server"] = <<>> /\ ~routed["server"] /\ fin["client"] # "endseen"
    BY <1>1 DEF IInv, Control, Unopened
  <2>2. e = "server" /\ f = "client"
    BY <2>1, <1>0, <1>1 DEF Ends
  <2>3. QED
    BY <2>1, <2>2, <1>4
<1>10. EndsLast'
  <2> SUFFICES ASSUME NEW x \in Ends, task[x] # "ended", ~closed[x],
                      NEW i \in 1..Len(chunks'[x]), chunks'[x][i] = <<>>
               PROVE  i = Len(chunks'[x]) /\ fin'[Far(x)] = "endseen"
    BY <1>1 DEF EndsLast
  <2>1. CASE x = e
    BY <2>1, <1>0, <1>4 DEF IInv, EndsLast
  <2>2. CASE x = f
    <3>1. \A k \in 1..Len(chunks[f]) : chunks[f][k] # <<>>
      BY <2>2, <1>0, <1>6 DEF IInv, EndsLast
    <3>2. end /\ i = Len(chunks'[f])
      BY <2>2, <3>1, <1>2, <1>4, FedEnds
    <3>3. QED
      BY <2>2, <3>2, <1>0, <1>4
  <2>3. QED
    BY <2>1, <2>2, <1>0
<1>11. Given'
  BY <1>0, <1>1, <1>4, <1>6 DEF IInv, Given
<1>12. Inflows'
  <2>1. \A x \in Ends : (Waiting(x)' <=> Waiting(x)) /\ Kind(x)' = Kind(x) /\ taken[x] \in Nat
    BY <1>1 DEF Waiting, Kind, Typed
  <2>2. \A x \in Ends, k \in Nat : Written(x, k) => Written(x, k)'
    BY <1>0, <1>1, <1>4 DEF Written
  <2>3. ASSUME task'[f] # "ended" PROVE Inflow(f)'
    <3>1. Inflow(f)
      BY <1>0, <1>1, <2>3 DEF IInv, Inflows
    <3>2. QED
      BY <1>0, <1>1, <1>4, <1>5, <2>1, <2>2, <3>1, InflowFed
  <2>4. ASSUME task'[e] # "ended" PROVE Inflow(e)'
    <3>1. Inflow(e)
      BY <1>1, <2>4 DEF IInv, Inflows
    <3>2. QED
      BY <1>0, <1>1, <1>4, <1>5, <2>1, <2>2, <3>1, InflowKept
  <2>5. QED
    BY <1>0, <2>3, <2>4 DEF Inflows
<1>13. QED
  BY <1>5, <1>7, <1>8, <1>9, <1>10, <1>11, <1>12 DEF IInv, Control
-----------------------------------------------------------------------------
(* The header and its answer. *)

LEMMA HeaderFacts ==
    ASSUME NEW kind \in Int
    PROVE  /\ Header(kind) \in Bytes /\ Len(Header(kind)) = HeadLen
           /\ HeadLen \in Nat /\ HeadLen >= 1
           /\ \A j \in 1..HeadLen : Header(kind)[j] = kind /\ Byte(kind, 0 + j) = kind
<1>1. HeadLen \in Nat /\ HeadLen >= 1
  BY PassThroughAssumption
<1>2. Header(kind) = [i \in 1..HeadLen |-> kind]
  BY DEF Header
<1>3. Header(kind) \in Bytes
  BY <1>1, <1>2, IsASeq DEF Bytes
<1>4. Len(Header(kind)) = HeadLen
  BY <1>1, <1>2
<1>5. ASSUME NEW j \in 1..HeadLen PROVE Header(kind)[j] = kind /\ Byte(kind, 0 + j) = kind
  BY <1>1, <1>2 DEF Byte
<1>6. QED
  BY <1>1, <1>3, <1>4, <1>5

\* The client gives the tunnel up, with or without a reset.
LEMMA ClientEndsKeeps ==
    ASSUME IInv, task["client"] \in {"serving", "opening"},
           task' = [task EXCEPT !["client"] = "ended"],
           UNCHANGED <<to, from, routed, wire, sent, taken, peer, got>>,
           head' \in [Ends -> Bytes], head'["server"] = head["server"],
           chunks' \in [Ends -> Queues], chunks'["server"] = chunks["server"],
           closed' \in [Ends -> BOOLEAN], closed'["server"] = closed["server"],
           closed["client"] => closed'["client"],
           fin' \in [Ends -> {"open", "end", "reset", "endseen", "resetseen"}],
           fin'["server"] = fin["server"],
           \/ fin'["client"] = fin["client"]
           \/ fin["client"] \in {"open", "end"} /\ fin'["client"] = "reset" /\ closed'["client"]
    PROVE  IInv'
<1>1. /\ Typed /\ task'["client"] = "ended" /\ task'["server"] = task["server"]
      /\ task' \in [Ends -> {"none", "serving", "opening", "connecting", "piping", "ended"}]
      /\ from["client"] = "off" /\ to["client"] = "off"
  BY DEF IInv, Control, Stages, Typed, Ends
<1>2. Typed'
  BY <1>1 DEF Typed
<1>3. Stages'
  BY <1>1 DEF IInv, Control, Stages, Ends
<1>4. SendingSides'
  BY <1>1, TwoEnds DEF IInv, Control, SendingSides, Ends
<1>5. Unopened'
  BY <1>1 DEF IInv, Control, Unopened
<1>6. EndsLast'
  BY <1>1, TwoEnds DEF IInv, EndsLast, Ends
<1>7. Given'
  BY <1>1, TwoEnds DEF IInv, Given, Ends
<1>8. Inflows'
  <2> SUFFICES ASSUME NEW x \in Ends, task'[x] # "ended" PROVE Inflow(x)'
    BY DEF Inflows
  <2>1. x = "server" /\ Far(x) = "client" /\ Inflow(x)
    BY <1>1, TwoEnds DEF IInv, Inflows, Ends
  <2>2. (Waiting(x)' <=> Waiting(x)) /\ Kind(Far(x))' = Kind(Far(x)) /\ taken[Far(x)] \in Nat
    BY <1>1, <2>1 DEF Waiting, Kind, Typed, Ends
  <2>3. \A n \in Nat : Written(Far(x), n) => Written(Far(x), n)'
    BY <1>1, <2>1 DEF Written
  <2>4. QED
    BY <1>1, <1>2, <2>1, <2>2, <2>3, InflowKept
<1>9. QED
  BY <1>2, <1>3, <1>4, <1>5, <1>6, <1>7, <1>8 DEF IInv, Control

LEMMA GiveUpKeeps == ASSUME IInv, ServeOne \/ OpenTimesOut PROVE IInv'
<1>1. /\ task["client"] \in {"serving", "opening"}
      /\ task' = [task EXCEPT !["client"] = "ended"]
      /\ UNCHANGED <<to, from, head, chunks, routed, closed, wire, fin, sent, taken, peer, got>>
  BY DEF ServeOne, OpenTimesOut, HangUp, streams, network
<1>2. /\ chunks \in [Ends -> Queues] /\ head \in [Ends -> Bytes] /\ closed \in [Ends -> BOOLEAN]
      /\ fin \in [Ends -> {"open", "end", "reset", "endseen", "resetseen"}]
  BY DEF IInv, Typed
<1>3. QED
  BY <1>1, <1>2, ClientEndsKeeps

LEMMA ConnectKeeps == ASSUME IInv, Connect PROVE IInv'
<1>1. /\ task["client"] = "serving" /\ task' = [task EXCEPT !["client"] = "opening"]
      /\ routed' = [routed EXCEPT !["client"] = TRUE]
      /\ wire' = [wire EXCEPT !["client"] = Header(CONNECT)]
      /\ UNCHANGED <<to, from, head, chunks, closed, fin, sent, taken, peer, got>> /\ Typed
  BY DEF Connect, peers, IInv
<1>2. CONNECT \in Int
  BY DEF CONNECT
<1>3. /\ task'["client"] = "opening" /\ task'["server"] = task["server"] /\ task["server"] = "none"
      /\ wire'["client"] = Header(CONNECT) /\ wire'["server"] = wire["server"]
      /\ routed'["client"] /\ routed'["server"] = routed["server"]
      /\ \A e \in Ends : from[e] = "off" /\ to[e] = "off" /\ taken[e] = 0
  BY <1>1 DEF Typed, IInv, Control, Stages, Ends
<1>4. Typed'
  BY <1>1, <1>2, <1>3, HeaderFacts DEF Typed
<1>5. fin["server"] # "endseen" /\ fin["client"] # "endseen"
  BY <1>3 DEF IInv, Control, SendingSides, Ends
<1>6. Stages' /\ SendingSides' /\ Unopened'
  <2>1. Stages'
    BY <1>1, <1>3 DEF IInv, Control, Stages, Ends
  <2>2. SendingSides'
    BY <1>1, <1>3, <1>5 DEF IInv, Control, SendingSides, Ends
  <2>3. Unopened'
    BY <1>1, <1>3 DEF IInv, Control, Unopened
  <2>4. QED
    BY <2>1, <2>2, <2>3
<1>7. EndsLast' /\ Given'
  BY <1>1, <1>3 DEF IInv, EndsLast, Given, Ends
<1>8. Inflow("client")'
  <2>1. "client" \in Ends /\ Inflow("client") /\ Far("client") = "server"
    BY <1>1, TwoEnds DEF IInv, Inflows, Ends
  <2>2. Waiting("client")' /\ Waiting("client") /\ Kind("server")' = Kind("server") /\ taken["server"] \in Nat
    BY <1>1, <1>3 DEF Waiting, Kind, Typed, Ends
  <2>3. \A n \in Nat : Written("server", n) => Written("server", n)'
    BY <1>1, <1>3 DEF Written
  <2>4. QED
    BY <1>1, <1>3, <1>4, <2>1, <2>2, <2>3, InflowKept
<1>9. Inflow("server")'
  <2>1. "server" \in Ends /\ Inflow("server") /\ Far("server") = "client" /\ chunks["server"] = <<>>
    BY <1>3, TwoEnds DEF IInv, Inflows, Control, Unopened, Ends
  <2>2. Base("server") = 0 /\ Base("server")' = 0 /\ HeadLen \in Nat
    BY <1>3, PassThroughAssumption DEF Base, Waiting
  <2>p. PICK n \in 0..(HeadLen + taken["client"]) :
          /\ Run(chunks["server"], wire["client"], Base("server") + Len(head["server"]), n, Kind("client"))
          /\ Written("client", n)
    BY <2>1 DEF Inflow
  <2>3. n = 0
    BY <2>p, <1>1 DEF Written
  <2>4. Len(head["server"]) = 0
    <3>1. chunks["server"] \in Queues /\ wire["client"] \in Bytes /\ Len(head["server"]) \in Nat
      BY <1>1 DEF Typed, Bytes, Ends
    <3>2. Base("server") + Len(head["server"]) \in 0..n
      BY <2>p, <2>3, <3>1, RunStart
    <3>3. QED
      BY <2>2, <2>3, <3>1, <3>2
  <2>5. Run(<<>>, Header(CONNECT), 0, HeadLen, CONNECT)
    BY <1>2, HeaderFacts, RunLine
  <2>6. Written("client", HeadLen)'
    BY <1>1, <1>3, <2>2 DEF Written, Ends
  <2>7. Kind("client")' = CONNECT /\ head'["server"] = head["server"] /\ chunks'["server"] = <<>>
    BY <1>1, <2>1 DEF Kind
  <2>8. HeadLen \in 0..(HeadLen + taken'["client"])
    BY <1>1, <1>3, <2>2 DEF Ends
  <2>9. Base("server")' + Len(head'["server"]) = 0 /\ 1..Len(head'["server"]) = {}
    BY <2>2, <2>4, <2>7
  <2>10. QED
    BY <1>3, <2>1, <2>5, <2>6, <2>7, <2>8, <2>9 DEF Inflow
<1>10. QED
  BY <1>4, <1>6, <1>7, <1>8, <1>9 DEF IInv, Control, Inflows, Ends

\* The server's answer is the first thing it writes.
LEMMA AnswerWritten ==
    ASSUME IInv, Typed', NEW kind \in Int, task["server"] = "connecting", task["client"] # "ended",
           wire'["server"] = wire["server"] \o Header(kind), Kind("server")' = kind,
           Written("server", HeadLen)', taken'["server"] = taken["server"],
           task'["client"] = task["client"], chunks'["client"] = chunks["client"],
           head'["client"] = head["client"], got'["client"] = got["client"]
    PROVE  Inflow("client")'
<1>1. "client" \in Ends /\ Far("client") = "server" /\ Inflow("client")
  BY TwoEnds DEF IInv, Inflows, Ends
<1>2. /\ chunks["client"] \in Queues /\ wire["server"] \in Bytes /\ HeadLen \in Nat
      /\ Len(head["client"]) \in Nat /\ taken["server"] \in Nat
  BY PassThroughAssumption DEF IInv, Typed, Bytes, Ends
<1>3. Base("client")' = Base("client") /\ Base("client") \in Nat
  BY <1>2 DEF Base, Waiting, IInv, Typed, Bytes, Ends
<1>p. PICK n \in 0..(HeadLen + taken["server"]) :
        /\ Run(chunks["client"], wire["server"], Base("client") + Len(head["client"]), n, Kind("server"))
        /\ Written("server", n)
  BY <1>1 DEF Inflow
<1>4. n = 0
  BY <1>p DEF Written
<1>5. Base("client") + Len(head["client"]) \in 0..n
  BY <1>p, <1>2, <1>4, RunStart
<1>6. Base("client") + Len(head["client"]) = 0 /\ 1..Len(head["client"]) = {}
  BY <1>2, <1>3, <1>4, <1>5
<1>7. wire["server"] = <<>> /\ Run(chunks["client"], <<>>, 0, 0, kind)
  <2>1. Run(chunks["client"], wire["server"], 0, 0, Kind("server"))
    BY <1>p, <1>4, <1>6
  <2>2. QED
    BY <1>2, <2>1, RunNothing
<1>8. Header(kind) \in Bytes /\ Len(Header(kind)) = HeadLen
      /\ \A j \in 1..Len(Header(kind)) : Header(kind)[j] = Byte(kind, 0 + j)
  BY HeaderFacts
<1>9. Run(chunks["client"], <<>> \o Header(kind), 0, 0 + Len(Header(kind)), kind)
  <2>1. <<>> \in Bytes /\ 0 \in Nat
    BY DEF Bytes
  <2>2. QED
    BY <1>2, <1>7, <1>8, <2>1, RunWrite
<1>10. Run(chunks'["client"], wire'["server"], Base("client")' + Len(head'["client"]), HeadLen, Kind("server")')
  BY <1>2, <1>3, <1>6, <1>7, <1>8, <1>9
<1>11. HeadLen \in 0..(HeadLen + taken'["server"])
  BY <1>2
<1>12. QED
  BY <1>1, <1>6, <1>10, <1>11 DEF Inflow

LEMMA ConnectEndsKeeps == ASSUME IInv, ConnectEnds PROVE IInv'
<1>1. /\ task["server"] = "connecting" /\ Typed
      /\ UNCHANGED <<head, chunks, routed, closed, sent, taken, peer, got>>
  BY DEF ConnectEnds, streams, IInv
<1>2. \/ /\ closed["server"] /\ task' = [task EXCEPT !["server"] = "ended"]
         /\ UNCHANGED <<to, from, wire, fin>>
      \/ /\ ~closed["server"] /\ wire' = [wire EXCEPT !["server"] = @ \o Header(Connected)]
         /\ Pipe("server") /\ UNCHANGED fin
      \/ /\ ~closed["server"] /\ wire' = [wire EXCEPT !["server"] = @ \o Header(Refused)]
         /\ task' = [task EXCEPT !["server"] = "ended"]
         /\ fin' = [fin EXCEPT !["server"] = "end"]
         /\ UNCHANGED <<to, from>>
  BY DEF ConnectEnds
<1>3. /\ from["server"] = "off" /\ to["server"] = "off" /\ taken["server"] = 0
      /\ fin["server"] \notin {"end", "endseen"} /\ task["client"] # "serving"
  BY <1>1, TwoEnds DEF IInv, Control, Stages, SendingSides, Ends
<1>4. /\ Connected \in Int /\ Refused \in Int /\ "client" \in Ends /\ "server" \in Ends
      /\ wire["server"] \in Bytes /\ HeadLen \in Nat
  BY <1>1, PassThroughAssumption DEF Connected, Refused, Ends, Typed
<1>5. wire["server"] \o Header(Connected) \in Bytes /\ wire["server"] \o Header(Refused) \in Bytes
  BY <1>4, HeaderFacts DEF Bytes
<1>6. Typed'
  <2>1. wire' \in [Ends -> Bytes] /\ fin' \in [Ends -> {"open", "end", "reset", "endseen", "resetseen"}]
    <3>1. /\ wire \in [Ends -> Bytes]
          /\ fin \in [Ends -> {"open", "end", "reset", "endseen", "resetseen"}]
      BY <1>1 DEF Typed
    <3>2. wire' \in [Ends -> Bytes]
      BY <1>2, <1>5, <3>1
    <3>3. fin' \in [Ends -> {"open", "end", "reset", "endseen", "resetseen"}]
      BY <1>2, <3>1
    <3>4. QED
      BY <3>2, <3>3
  <2>2. /\ to' \in [Ends -> {"off", "read", "drain", "done"}]
        /\ from' \in [Ends -> {"off", "read", "done"}]
    BY <1>1, <1>2 DEF Typed, Pipe
  <2>3. /\ task' \in [Ends -> {"none", "serving", "opening", "connecting", "piping", "ended"}]
        /\ task'["client"] \notin {"none", "connecting"} /\ task'["server"] \notin {"serving", "opening"}
    BY <1>1, <1>2, <1>4 DEF Typed, Pipe
  <2>4. QED
    BY <1>1, <2>1, <2>2, <2>3 DEF Typed
<1>7. /\ task'["server"] \in {"piping", "ended"} /\ task'["client"] = task["client"]
      /\ fin'["client"] = fin["client"] /\ wire'["client"] = wire["client"]
      /\ from'["client"] = from["client"] /\ to'["client"] = to["client"]
      /\ task'["server"] = "piping" => from'["server"] = "read" /\ to'["server"] = "read"
      /\ task'["server"] = "ended" => from'["server"] = "off" /\ to'["server"] = "off"
      /\ fin'["server"] # fin["server"] => fin'["server"] = "end" /\ task'["server"] = "ended"
  BY <1>1, <1>2, <1>3 DEF Typed, Pipe, Ends
<1>8. Stages' /\ SendingSides' /\ Unopened'
  <2>1. Stages'
    BY <1>1, <1>3, <1>7 DEF IInv, Control, Stages, Ends
  <2>2. SendingSides'
    BY <1>1, <1>3, <1>7, TwoEnds DEF IInv, Control, SendingSides, Ends
  <2>3. Unopened'
    BY <1>7 DEF Unopened
  <2>4. QED
    BY <2>1, <2>2, <2>3
<1>9. EndsLast'
  BY <1>1, <1>3, <1>7, TwoEnds DEF IInv, EndsLast, Ends
<1>10. Given'
  BY <1>1, <1>3, <1>7, TwoEnds DEF IInv, Given, Ends
<1>11. ASSUME task'["server"] # "ended" PROVE Inflow("server")'
  <2>1. Inflow("server") /\ Far("server") = "client"
    BY <1>1, <1>4, TwoEnds DEF IInv, Inflows
  <2>2. ~Waiting("server") /\ ~Waiting("server")' /\ Kind("client")' = Kind("client") /\ taken["client"] \in Nat
    BY <1>1, <1>4, <1>7 DEF Waiting, Kind, Typed
  <2>3. \A n \in Nat : Written("client", n) => Written("client", n)'
    BY <1>1, <1>7 DEF Written
  <2>4. QED
    BY <1>1, <1>4, <1>6, <1>7, <2>1, <2>2, <2>3, InflowKept
<1>12. ASSUME task'["client"] # "ended" PROVE Inflow("client")'
  <2>1. Inflow("client") /\ Far("client") = "server" /\ task["client"] # "ended"
    BY <1>4, <1>7, <1>12, TwoEnds DEF IInv, Inflows
  <2>2. CASE closed["server"]
    <3>1. wire' = wire /\ fin' = fin /\ from' = from /\ task'["server"] = "ended"
      <4>1. task' = [task EXCEPT !["server"] = "ended"] /\ wire' = wire /\ fin' = fin /\ from' = from
        BY <1>2, <2>2
      <4>2. QED
        BY <1>1, <1>4, <4>1 DEF Typed
    <3>2. (Waiting("client")' <=> Waiting("client")) /\ Kind("server")' = Kind("server")
      BY <1>7, <3>1 DEF Waiting, Kind
    <3>3. \A n \in Nat : Written("server", n) => Written("server", n)'
      BY <1>3, <3>1 DEF Written
    <3>4. QED
      BY <1>1, <1>3, <1>4, <1>6, <2>1, <3>1, <3>2, <3>3, InflowKept
  <2>3. CASE ~closed["server"] /\ task'["server"] = "piping"
    <3>1. wire'["server"] = wire["server"] \o Header(Connected) /\ UNCHANGED fin
      BY <1>1, <1>2, <1>4, <2>3 DEF Typed
    <3>2. Kind("server")' = Connected
      BY <1>7, <2>3 DEF Kind
    <3>3. Written("server", HeadLen)'
      BY <1>1, <1>3, <1>4, <2>3, <3>1 DEF Written
    <3>4. QED
      BY <1>1, <1>4, <1>6, <1>7, <2>1, <3>1, <3>2, <3>3, AnswerWritten
  <2>4. CASE ~closed["server"] /\ task'["server"] = "ended"
    <3>1. wire'["server"] = wire["server"] \o Header(Refused) /\ from'["server"] = "off"
      BY <1>1, <1>2, <1>4, <1>7, <2>4 DEF Typed, Pipe
    <3>2. Kind("server")' = Refused
      BY <3>1 DEF Kind
    <3>3. Written("server", HeadLen)'
      BY <2>4, <3>1 DEF Written
    <3>4. QED
      BY <1>1, <1>4, <1>6, <1>7, <2>1, <3>1, <3>2, <3>3, AnswerWritten
  <2>5. QED
    BY <1>7, <2>2, <2>3, <2>4
<1>13. QED
  BY <1>6, <1>8, <1>9, <1>10, <1>11, <1>12 DEF IInv, Control, Inflows, Ends

\* What is behind a header.
LEMMA SplitFacts ==
    ASSUME NEW buf \in Bytes, Complete(buf)
    PROVE  /\ SplitHead(buf) \in Bytes /\ Len(SplitHead(buf)) = Len(buf) - HeadLen
           /\ Len(buf) - HeadLen \in Nat
           /\ \A j \in 1..(Len(buf) - HeadLen) :
                 SplitHead(buf)[j] = buf[HeadLen + j] /\ HeadLen + j \in 1..Len(buf)
<1>1. HeadLen \in Nat /\ Len(buf) \in Nat /\ HeadLen <= Len(buf)
  BY PassThroughAssumption DEF Complete, Bytes
<1>2. SplitHead(buf) = SubSeq(buf, HeadLen + 1, Len(buf))
  BY DEF SplitHead
<1>3. SplitHead(buf) \in Bytes
  BY <1>1, <1>2 DEF Bytes
<1>4. Len(SplitHead(buf)) = Len(buf) - HeadLen
  BY <1>1, <1>2 DEF Bytes
<1>5. \A j \in 1..(Len(buf) - HeadLen) :
         SplitHead(buf)[j] = buf[HeadLen + j] /\ HeadLen + j \in 1..Len(buf)
  <2> SUFFICES ASSUME NEW j \in 1..(Len(buf) - HeadLen)
               PROVE  SplitHead(buf)[j] = buf[HeadLen + j] /\ HeadLen + j \in 1..Len(buf)
    OBVIOUS
  <2>1. j \in Nat /\ HeadLen + j \in 1..Len(buf) /\ j \in 1..(Len(buf) - (HeadLen + 1) + 1)
    BY <1>1
  <2>2. SubSeq(buf, HeadLen + 1, Len(buf))[j] = buf[HeadLen + 1 + j - 1]
    BY <1>1, <2>1 DEF Bytes
  <2>3. HeadLen + 1 + j - 1 = HeadLen + j
    BY <1>1, <2>1
  <2>4. QED
    BY <1>2, <2>1, <2>2, <2>3
<1>6. QED
  BY <1>1, <1>3, <1>4, <1>5

\* Two strings of bytes, put together and taken apart.
LEMMA JoinFacts ==
    ASSUME NEW a \in Bytes, NEW b \in Bytes
    PROVE  /\ a \o b \in Bytes /\ Len(a \o b) = Len(a) + Len(b)
           /\ Len(a) \in Nat /\ Len(b) \in Nat
           /\ \A j \in 1..Len(a) : (a \o b)[j] = a[j]
           /\ \A j \in Len(a) + 1 .. Len(a) + Len(b) : (a \o b)[j] = b[j - Len(a)]
           /\ SubSeq(a \o b, 1, Len(a)) = a
           /\ SubSeq(a \o b, Len(a) + 1, Len(a \o b)) = b
<1> DEFINE c == a \o b
           u == SubSeq(c, 1, Len(a))
           v == SubSeq(c, Len(a) + 1, Len(c))
<1>1. /\ c \in Bytes /\ Len(c) = Len(a) + Len(b) /\ Len(a) \in Nat /\ Len(b) \in Nat
      /\ \A j \in 1..Len(a) : c[j] = a[j]
      /\ \A j \in Len(a) + 1 .. Len(a) + Len(b) : c[j] = b[j - Len(a)]
  BY DEF Bytes
<1> HIDE DEF c
<1>2. u \in Bytes /\ Len(u) = Len(a) /\ \A j \in 1..Len(a) : u[j] = c[j]
  BY <1>1 DEF Bytes
<1>3. v \in Bytes /\ Len(v) = Len(b) /\ \A j \in 1..Len(b) : v[j] = c[Len(a) + j]
  BY <1>1 DEF Bytes
<1> HIDE DEF u, v
<1>4. u = a
  BY <1>1, <1>2, SeqEqual DEF Bytes
<1>5. \A j \in 1..Len(b) : v[j] = b[j]
  <2> SUFFICES ASSUME NEW j \in 1..Len(b) PROVE v[j] = b[j]
    OBVIOUS
  <2>1. Len(a) + j \in Len(a) + 1 .. Len(a) + Len(b) /\ Len(a) + j - Len(a) = j
    BY <1>1
  <2>2. QED
    BY <2>1, <1>1, <1>3, SMTT(30)
<1>6. v = b
  BY <1>1, <1>3, <1>5, SeqEqual DEF Bytes
<1>7. QED
  BY <1>1, <1>4, <1>6 DEF u, v, c

\* Bytes of the request's header, and what came with the last of them.
LEMMA HeaderArrivesKeeps == ASSUME IInv, HeaderArrives PROVE IInv'
<1> DEFINE h == head["server"]
           w == wire["client"]
<1>p. PICK n \in 1..Len(w) :
        LET buf == h \o SubSeq(w, 1, n)
        IN  /\ wire' = [wire EXCEPT !["client"] = SubSeq(@, n + 1, Len(@))]
            /\ IF Complete(buf)
               THEN /\ task' = [task EXCEPT !["server"] = "connecting"]
                    /\ routed' = [routed EXCEPT !["server"] = TRUE]
                    /\ chunks' = [chunks EXCEPT !["server"] = Fed(@, SplitHead(buf), FALSE)]
                    /\ head' = [head EXCEPT !["server"] = <<>>]
               ELSE /\ head' = [head EXCEPT !["server"] = buf]
                    /\ UNCHANGED <<task, routed, chunks>>
  BY DEF HeaderArrives
<1> DEFINE d == SubSeq(w, 1, n)
           rest == SubSeq(w, n + 1, Len(w))
           buf == h \o d
<1>q. /\ wire' = [wire EXCEPT !["client"] = rest]
      /\ Complete(buf) => /\ task' = [task EXCEPT !["server"] = "connecting"]
                          /\ routed' = [routed EXCEPT !["server"] = TRUE]
                          /\ chunks' = [chunks EXCEPT !["server"] = Fed(@, SplitHead(buf), FALSE)]
                          /\ head' = [head EXCEPT !["server"] = <<>>]
      /\ ~Complete(buf) => /\ head' = [head EXCEPT !["server"] = buf]
                           /\ UNCHANGED <<task, routed, chunks>>
  BY <1>p
<1>1. /\ task["server"] = "none" /\ Typed
      /\ UNCHANGED <<to, from, closed, fin, sent, taken, peer, got>>
  BY DEF HeaderArrives, peers, IInv
<1>2. /\ "client" \in Ends /\ "server" \in Ends
      /\ chunks["server"] = <<>> /\ ~routed["server"] /\ fin["client"] # "endseen"
      /\ from["server"] = "off" /\ taken["server"] = 0 /\ got["server"] = <<>> /\ to["server"] = "off"
  BY <1>1 DEF IInv, Control, Stages, Unopened, Ends
<1>3. /\ h \in Bytes /\ w \in Bytes /\ Len(h) \in Nat /\ Len(w) \in Nat
      /\ HeadLen \in Nat /\ n \in Nat /\ n <= Len(w) /\ <<>> \in Bytes /\ <<>> \in Queues
  <2>1. head \in [Ends -> Bytes] /\ wire \in [Ends -> Bytes]
    BY <1>1 DEF Typed
  <2>2. h \in Bytes /\ w \in Bytes
    BY <1>2, <2>1
  <2>3. Len(h) \in Nat /\ Len(w) \in Nat
    BY <2>2 DEF Bytes
  <2>4. n \in Nat /\ n <= Len(w)
    BY <2>3
  <2>5. HeadLen \in Nat /\ <<>> \in Bytes /\ <<>> \in Queues
    BY PassThroughAssumption DEF Bytes, Queues
  <2>6. QED
    BY <2>2, <2>3, <2>4, <2>5
<1>4. /\ d \in Bytes /\ Len(d) = n /\ \A j \in 1..n : d[j] = w[j]
      /\ rest \in Bytes /\ Len(rest) = Len(w) - n /\ \A j \in 1..(Len(w) - n) : rest[j] = w[n + j]
  BY <1>3, SMTT(30) DEF Bytes
<1> HIDE DEF d, rest, h, w
<1>5. /\ buf \in Bytes /\ Len(buf) = Len(h) + n
      /\ \A j \in 1..Len(h) : buf[j] = h[j]
      /\ \A j \in Len(h) + 1 .. Len(h) + n : buf[j] = d[j - Len(h)]
  BY <1>3, <1>4, JoinFacts
<1> HIDE DEF buf
<1>t. /\ task \in [Ends -> {"none", "serving", "opening", "connecting", "piping", "ended"}]
      /\ head \in [Ends -> Bytes] /\ chunks \in [Ends -> Queues]
      /\ routed \in [Ends -> BOOLEAN] /\ wire \in [Ends -> Bytes]
  BY <1>1 DEF Typed
<1>6. /\ wire'["client"] = rest /\ wire'["server"] = wire["server"]
      /\ chunks'["client"] = chunks["client"] /\ head'["client"] = head["client"]
      /\ task'["client"] = task["client"] /\ routed'["client"] = routed["client"]
      /\ wire' \in [Ends -> Bytes]
  BY <1>q, <1>t, <1>2, <1>4
<1>7. \/ /\ Complete(buf) /\ task'["server"] = "connecting"
         /\ chunks'["server"] = Fed(<<>>, SplitHead(buf), FALSE) /\ head'["server"] = <<>>
      \/ /\ ~Complete(buf) /\ task'["server"] = "none" /\ ~routed'["server"]
         /\ chunks'["server"] = <<>> /\ head'["server"] = buf
  <2>1. CASE Complete(buf)
    <3>1. task'["server"] = "connecting"
      BY <1>q, <1>t, <1>2, <2>1
    <3>2. chunks'["server"] = Fed(<<>>, SplitHead(buf), FALSE)
      <4>1. chunks' = [chunks EXCEPT !["server"] = Fed(<<>>, SplitHead(buf), FALSE)]
        BY <1>q, <1>2, <2>1
      <4>2. QED
        BY <1>t, <1>2, <4>1
    <3>3. head'["server"] = <<>>
      BY <1>q, <1>t, <1>2, <2>1
    <3>4. QED
      BY <2>1, <3>1, <3>2, <3>3
  <2>2. CASE ~Complete(buf)
    BY <1>q, <1>t, <1>1, <1>2, <2>2
  <2>3. QED
    BY <2>1, <2>2
<1>8. Complete(buf) => Fed(<<>>, SplitHead(buf), FALSE) \in Queues
  BY <1>3, <1>5, SplitFacts, FedCases
<1>9. Typed'
  <2>1. chunks' \in [Ends -> Queues]
    <3>1. CASE Complete(buf)
      <4>1. chunks' = [chunks EXCEPT !["server"] = Fed(<<>>, SplitHead(buf), FALSE)]
        BY <1>q, <1>2, <3>1
      <4>2. QED
        BY <1>t, <1>8, <3>1, <4>1
    <3>2. CASE ~Complete(buf)
      BY <1>q, <1>t, <3>2
    <3>3. QED
      BY <3>1, <3>2
  <2>2. head' \in [Ends -> Bytes]
    BY <1>q, <1>t, <1>3, <1>5
  <2>3. routed' \in [Ends -> BOOLEAN]
    BY <1>q, <1>t
  <2>4. /\ task' \in [Ends -> {"none", "serving", "opening", "connecting", "piping", "ended"}]
        /\ task'["client"] \notin {"none", "connecting"} /\ task'["server"] \notin {"serving", "opening"}
    <3>1. task' \in [Ends -> {"none", "serving", "opening", "connecting", "piping", "ended"}]
      BY <1>q, <1>t
    <3>2. QED
      BY <1>1, <1>6, <1>7, <3>1 DEF Typed
  <2>5. QED
    BY <1>1, <1>6, <2>1, <2>2, <2>3, <2>4 DEF Typed
<1>10. task["client"] # "serving"
  <2>1. ASSUME task["client"] = "serving" PROVE FALSE
    <3>1. Inflow("server") /\ Far("server") = "client"
      BY <1>1, <1>2, TwoEnds DEF IInv, Inflows
    <3>p. PICK k \in 0..(HeadLen + taken["client"]) :
             /\ Run(chunks["server"], w, Base("server") + Len(head["server"]), k, Kind("client"))
             /\ Written("client", k)
      BY <3>1 DEF Inflow, w
    <3>2. k = 0
      BY <3>p, <2>1 DEF Written
    <3>3. w = <<>>
      BY <1>2, <1>3, <3>p, <3>2, RunNothing
    <3>4. QED
      BY <1>3, <3>3
  <2>2. QED
    BY <2>1
<1>11. Stages' /\ SendingSides' /\ Unopened'
  <2>1. Stages'
    BY <1>1, <1>2, <1>6, <1>7, <1>10 DEF IInv, Control, Stages, Ends
  <2>2. SendingSides'
    BY <1>1, <1>2, <1>6, <1>7, TwoEnds DEF IInv, Control, SendingSides, Ends
  <2>3. Unopened'
    BY <1>1, <1>2, <1>7 DEF Unopened
  <2>4. QED
    BY <2>1, <2>2, <2>3
<1>12. EndsLast'
  <2>1. \A i \in 1..Len(chunks'["server"]) : chunks'["server"][i] # <<>>
    <3>1. \A i \in 1..Len(<<>>) : <<>>[i] # <<>>
      OBVIOUS
    <3>2. CASE Complete(buf)
      <4>1. \A i \in 1..Len(Fed(<<>>, SplitHead(buf), FALSE)) : Fed(<<>>, SplitHead(buf), FALSE)[i] # <<>>
        BY <1>3, <1>5, <3>1, <3>2, SplitFacts, FedEnds
      <4>2. QED
        BY <1>7, <3>2, <4>1
    <3>3. CASE ~Complete(buf)
      BY <1>7, <3>1, <3>3
    <3>4. QED
      BY <3>2, <3>3
  <2>2. QED
    BY <1>1, <1>6, <2>1 DEF IInv, EndsLast, Ends
<1>13. Given'
  BY <1>1 DEF IInv, Given
<1>14. ASSUME task'["client"] # "ended" PROVE Inflow("client")'
  <2>1. Inflow("client") /\ Far("client") = "server"
    BY <1>2, <1>6, <1>14, TwoEnds DEF IInv, Inflows
  <2>2. (Waiting("client")' <=> Waiting("client")) /\ Kind("server")' = Kind("server")
    BY <1>1, <1>6 DEF Waiting, Kind
  <2>3. \A k \in Nat : Written("server", k) => Written("server", k)'
    BY <1>1, <1>2, <1>7 DEF Written
  <2>4. QED
    BY <1>1, <1>2, <1>6, <1>9, <2>1, <2>2, <2>3, InflowKept
<1>15. Inflow("server")'
  <2>1. Inflow("server") /\ Far("server") = "client" /\ Base("server") = 0
    BY <1>1, <1>2, TwoEnds DEF IInv, Inflows, Base, Waiting
  <2>2. Kind("client") = CONNECT /\ Kind("client")' = CONNECT
    BY DEF Kind
  <2>p. PICK k \in 0..(HeadLen + taken["client"]) :
           Run(<<>>, w, Len(h), k, CONNECT) /\ Written("client", k)
    BY <1>2, <1>3, <2>1, <2>2 DEF Inflow, h, w
  <2>3. k \in Nat /\ taken["client"] \in Nat /\ k \in 0..(HeadLen + taken'["client"])
    BY <1>1, <1>2, <1>3 DEF Typed
  <2>4. Len(h) + Len(w) = k /\ \A j \in 1..Len(w) : w[j] = Byte(CONNECT, Len(h) + j)
    BY <1>3, <2>p, <2>3, RunLine
  <2>5. \A j \in 1..Len(h) : h[j] = Byte(CONNECT, j)
    BY <1>3, <2>1, <2>2 DEF Inflow, h
  <2>6. ASSUME NEW j \in 1..Len(buf) PROVE buf[j] = Byte(CONNECT, j)
    <3>1. CASE j <= Len(h)
      BY <3>1, <1>3, <1>5, <2>5
    <3>2. CASE j > Len(h)
      <4>1. j - Len(h) \in 1..n /\ j - Len(h) \in 1..Len(w) /\ Len(h) + (j - Len(h)) = j
            /\ j \in Len(h) + 1 .. Len(h) + n
        BY <3>2, <1>3, <1>5
      <4>2. QED
        BY <4>1, <1>4, <1>5, <2>4, SMTT(30)
    <3>3. QED
      BY <3>1, <3>2, <1>3, <1>5
  <2>7. ASSUME NEW j \in 1..Len(rest) PROVE rest[j] = Byte(CONNECT, Len(buf) + j)
    <3>1. n + j \in 1..Len(w) /\ j \in 1..(Len(w) - n) /\ Len(h) + (n + j) = Len(buf) + j
      BY <1>3, <1>4, <1>5
    <3>2. QED
      BY <3>1, <1>4, <2>4
  <2>8. Len(buf) + Len(rest) = k /\ Len(buf) \in Nat /\ Len(rest) \in Nat
    <3>1. Len(buf) = Len(h) + n /\ Len(rest) = Len(w) - n /\ Len(h) + Len(w) = k
      BY <1>4, <1>5, <2>4
    <3>2. n \in Nat /\ n <= Len(w) /\ Len(w) \in Nat /\ Len(h) \in Nat
      BY <1>3
    <3>3. QED
      BY ONLY <3>1, <3>2
  <2>9. Written("client", k)'
    BY <1>1, <1>6, <2>p DEF Written
  <2>10. CASE ~Complete(buf)
    <3>1. Run(<<>>, rest, Len(buf), k, CONNECT)
      BY <1>4, <2>3, <2>7, <2>8, RunLine
    <3>2. Base("server")' = 0 /\ chunks'["server"] = <<>> /\ head'["server"] = buf
      BY <1>7, <2>10 DEF Base, Waiting
    <3>3. QED
      BY <1>6, <2>1, <2>2, <2>3, <2>6, <2>8, <2>9, <3>1, <3>2 DEF Inflow
  <2>11. CASE Complete(buf)
    <3> DEFINE b == SplitHead(buf)
               line == b \o rest
    <3>1. /\ b \in Bytes /\ Len(b) = Len(buf) - HeadLen /\ Len(buf) - HeadLen \in Nat
          /\ \A j \in 1..(Len(buf) - HeadLen) : b[j] = buf[HeadLen + j] /\ HeadLen + j \in 1..Len(buf)
      BY <1>5, <2>11, SplitFacts
    <3> HIDE DEF b
    <3>2. /\ line \in Bytes /\ Len(line) = Len(b) + Len(rest) /\ Len(b) \in 0..Len(line)
          /\ \A j \in 1..Len(b) : line[j] = b[j]
          /\ \A j \in Len(b) + 1 .. Len(b) + Len(rest) : line[j] = rest[j - Len(b)]
      <4>1. /\ line \in Bytes /\ Len(line) = Len(b) + Len(rest) /\ Len(b) \in Nat /\ Len(rest) \in Nat
            /\ \A j \in 1..Len(b) : line[j] = b[j]
            /\ \A j \in Len(b) + 1 .. Len(b) + Len(rest) : line[j] = rest[j - Len(b)]
        BY <1>4, <3>1, JoinFacts
      <4>2. QED
        BY <4>1
    <3>3. SubSeq(line, 1, Len(b)) = b /\ SubSeq(line, Len(b) + 1, Len(line)) = rest
      BY <1>4, <3>1, JoinFacts
    <3> HIDE DEF line
    <3>4. ASSUME NEW j \in 1..Len(line) PROVE line[j] = Byte(CONNECT, HeadLen + j)
      <4>1. CASE j <= Len(b)
        <5>1. j \in 1..Len(b) /\ HeadLen + j \in 1..Len(buf)
          BY <4>1, <2>8, <3>1, <3>2
        <5>2. QED
          BY <5>1, <2>6, <3>1, <3>2
      <4>2. CASE j > Len(b)
        <5>1. /\ j \in Len(b) + 1 .. Len(b) + Len(rest) /\ j - Len(b) \in 1..Len(rest)
              /\ Len(buf) + (j - Len(b)) = HeadLen + j
          BY <4>2, <1>3, <2>8, <3>1, <3>2
        <5>2. QED
          BY <5>1, <2>7, <3>2
      <4>3. QED
        BY <4>1, <4>2, <2>8, <3>1, <3>2
    <3>5. HeadLen + Len(line) = k
      BY <1>3, <2>8, <3>1, <3>2
    <3>6. Run(<<>>, line, HeadLen, k, CONNECT)
      BY <1>3, <2>3, <3>2, <3>4, <3>5, RunLine
    <3>7. Run(Fed(<<>>, b, FALSE), rest, HeadLen, k, CONNECT)
      BY <1>3, <2>3, <3>2, <3>3, <3>6, RunFed
    <3>8. Base("server")' = HeadLen /\ chunks'["server"] = Fed(<<>>, b, FALSE) /\ head'["server"] = <<>>
      <4>1. Len(<<>>) = 0 /\ HeadLen + 0 = HeadLen
        BY <1>3
      <4>2. QED
        BY <1>1, <1>2, <1>7, <2>11, <4>1 DEF Base, Waiting, b
    <3>9. Base("server")' + Len(head'["server"]) = HeadLen /\ 1..Len(head'["server"]) = {}
      BY <1>3, <3>8
    <3>10. QED
      BY <1>6, <2>1, <2>2, <2>3, <2>9, <3>7, <3>8, <3>9 DEF Inflow
  <2>12. QED
    BY <2>10, <2>11
<1>16. QED
  BY <1>9, <1>11, <1>12, <1>13, <1>14, <1>15 DEF IInv, Control, Inflows, Ends

\* The answer, or a piece of it, is read.
LEMMA OpenedKeeps == ASSUME IInv, Opened PROVE IInv'
<1> DEFINE q == chunks["client"]
           chunk == Head(q)
           h == head["client"]
           buf == h \o chunk
           kind == Kind("server")
<1>1. /\ task["client"] = "opening" /\ q # <<>> /\ Typed /\ "client" \in Ends /\ "server" \in Ends
      /\ UNCHANGED <<routed, wire, sent, taken, peer, got>>
  BY DEF Opened, IInv, Ends
<1>t. /\ task \in [Ends -> {"none", "serving", "opening", "connecting", "piping", "ended"}]
      /\ head \in [Ends -> Bytes] /\ chunks \in [Ends -> Queues] /\ closed \in [Ends -> BOOLEAN]
      /\ fin \in [Ends -> {"open", "end", "reset", "endseen", "resetseen"}]
      /\ to \in [Ends -> {"off", "read", "drain", "done"}] /\ from \in [Ends -> {"off", "read", "done"}]
      /\ q \in Queues /\ h \in Bytes /\ wire["server"] \in Bytes /\ taken["server"] \in Nat
      /\ HeadLen \in Nat /\ HeadLen >= 1
  BY <1>1, PassThroughAssumption DEF Typed
<1>p. LET rest == [chunks EXCEPT !["client"] = Tail(@)]
      IN  \/ /\ HangUp /\ chunks' = rest
             /\ UNCHANGED <<to, from, head, closed, fin>>
          \/ /\ ~Complete(buf)
             /\ head' = [head EXCEPT !["client"] = buf]
             /\ chunks' = rest
             /\ UNCHANGED <<task, to, from, closed, fin>>
          \/ /\ HangUp
             /\ chunks' = [rest EXCEPT !["client"] = Fed(@, <<>>, TRUE)]
             /\ closed' = [closed EXCEPT !["client"] = TRUE]
             /\ fin' = ResetUnlessClosed("client")
             /\ UNCHANGED <<to, from, head>>
          \/ /\ Complete(buf) /\ buf[1] = Connected
             /\ head' = [head EXCEPT !["client"] = SplitHead(buf)]
             /\ Pipe("client") \/ (HangUp /\ UNCHANGED <<to, from>>)
             /\ chunks' = rest
             /\ UNCHANGED <<closed, fin>>
  BY DEF Opened
<1>2. /\ Tail(q) \in Queues /\ Len(Tail(q)) + 1 = Len(q) /\ Len(Tail(q)) \in Nat
      /\ chunk = q[1] /\ chunk \in Bytes /\ 1 \in 1..Len(q)
      /\ \A i \in 1..Len(Tail(q)) : Tail(q)[i] = q[i + 1] /\ i + 1 \in 1..Len(q)
  BY <1>1, <1>t, TailFacts
<1>3. [chunks EXCEPT !["client"] = Tail(@)] \in [Ends -> Queues]
  BY <1>t, <1>2
<1> HIDE DEF chunk, h, kind
<1>4. /\ buf \in Bytes /\ Len(buf) = Len(h) + Len(chunk) /\ Len(h) \in Nat /\ Len(chunk) \in Nat
      /\ \A j \in 1..Len(h) : buf[j] = h[j]
      /\ \A j \in Len(h) + 1 .. Len(h) + Len(chunk) : buf[j] = chunk[j - Len(h)]
  BY <1>t, <1>2, JoinFacts
<1>5. Inflow("client") /\ Far("client") = "server" /\ Base("client") = 0
  BY <1>1, TwoEnds DEF IInv, Inflows, Base, Waiting
<1>n. PICK n \in 0..(HeadLen + taken["server"]) :
        Run(q, wire["server"], Len(h), n, kind) /\ Written("server", n)
  BY <1>t, <1>4, <1>5 DEF Inflow, h, kind
<1>6. n \in Nat /\ \A j \in 1..Len(h) : h[j] = Byte(kind, j)
  BY <1>t, <1>4, <1>5 DEF Inflow, h, kind
<1>7. /\ Run(Tail(q), wire["server"], Len(buf), n, kind)
      /\ \A j \in 1..Len(chunk) : chunk[j] = Byte(kind, Len(h) + j)
  <2>1. /\ Run(Tail(q), wire["server"], Len(h) + Len(chunk), n, kind)
        /\ \A j \in 1..Len(chunk) : chunk[j] = Byte(kind, Len(h) + j)
    <3> DEFINE w == wire["server"]
    <3>1. q \in Queues /\ w \in Bytes /\ n \in Nat /\ q # <<>>
      BY <1>1, <1>t, <1>6
    <3>2. Run(q, w, Len(h), n, kind)
      BY <1>n
    <3> HIDE DEF q, w
    <3>3. /\ Run(Tail(q), w, Len(h) + Len(Head(q)), n, kind)
          /\ \A j \in 1..Len(Head(q)) : Head(q)[j] = Byte(kind, Len(h) + j)
      BY ONLY <3>1, <3>2, RunTail
    <3>4. QED
      BY <3>3 DEF chunk, w
  <2>2. QED
    BY <1>4, <2>1
<1>8. ASSUME NEW j \in 1..Len(buf) PROVE buf[j] = Byte(kind, j)
  <2>1. CASE j <= Len(h)
    BY <2>1, <1>4, <1>6
  <2>2. CASE j > Len(h)
    <3>1. j - Len(h) \in 1..Len(chunk) /\ j \in Len(h) + 1 .. Len(h) + Len(chunk) /\ Len(h) + (j - Len(h)) = j
      BY <2>2, <1>4
    <3>2. QED
      BY <3>1, <1>4, <1>7
  <2>3. QED
    BY <2>1, <2>2, <1>4
<1> HIDE DEF buf
\* The tunnel is given up.
<1>9. ASSUME HangUp, chunks' \in [Ends -> Queues], chunks'["server"] = chunks["server"],
             head' \in [Ends -> Bytes], head'["server"] = head["server"],
             UNCHANGED <<to, from>>,
             \/ UNCHANGED <<closed, fin>>
             \/ /\ closed' = [closed EXCEPT !["client"] = TRUE]
                /\ fin' = ResetUnlessClosed("client")
      PROVE  IInv'
  <2>1. closed' \in [Ends -> BOOLEAN] /\ closed'["server"] = closed["server"]
        /\ (closed["client"] => closed'["client"])
    BY <1>1, <1>t, <1>9
  <2>2. CASE fin' = fin
    BY <1>1, <1>t, <1>9, <2>1, <2>2, ClientEndsKeeps DEF HangUp
  <2>3. CASE fin' # fin
    <3>1. closed'["client"] /\ fin["client"] \in {"open", "end"} /\ fin' = [fin EXCEPT !["client"] = "reset"]
      BY <1>1, <1>t, <1>9, <2>3 DEF ResetUnlessClosed
    <3>2. /\ fin' \in [Ends -> {"open", "end", "reset", "endseen", "resetseen"}]
          /\ fin'["server"] = fin["server"] /\ fin'["client"] = "reset"
      BY <1>1, <1>t, <3>1
    <3>3. QED
      BY <1>1, <1>9, <2>1, <3>1, <3>2, ClientEndsKeeps DEF HangUp
  <2>4. QED
    BY <2>2, <2>3
\* The client goes on reading.
<1>10. ASSUME chunks' = [chunks EXCEPT !["client"] = Tail(@)], UNCHANGED <<closed, fin>>,
              head'["client"] \in Bytes, head' = [head EXCEPT !["client"] = head'["client"]],
              \/ ~Complete(buf) /\ head'["client"] = buf /\ UNCHANGED <<task, to, from>>
              \/ /\ Complete(buf) /\ buf[1] = Connected /\ head'["client"] = SplitHead(buf)
                 /\ Pipe("client")
       PROVE  IInv'
  <2>1. /\ chunks' \in [Ends -> Queues] /\ chunks'["client"] = Tail(q)
        /\ chunks'["server"] = chunks["server"] /\ head'["server"] = head["server"]
        /\ head' \in [Ends -> Bytes]
    BY <1>1, <1>t, <1>3, <1>10
  <2>2. \/ UNCHANGED <<task, to, from>>
        \/ /\ task' = [task EXCEPT !["client"] = "piping"]
           /\ to' = [to EXCEPT !["client"] = "read"] /\ from' = [from EXCEPT !["client"] = "read"]
           /\ from["server"] # "off"
    <3>1. CASE ~Complete(buf)
      BY <1>10, <3>1
    <3>2. CASE Complete(buf)
      <4>1. Len(buf) >= 1 /\ Len(buf) \in Nat
        BY <1>t, <1>4, <3>2 DEF Complete
      <4>2. buf[1] = Byte(kind, 1) /\ Byte(kind, 1) = kind
        BY <1>t, <1>8, <4>1 DEF Byte
      <4>3. kind = Connected /\ Connected # Refused
        BY <1>10, <3>2, <4>2 DEF Connected, Refused
      <4>4. from["server"] # "off"
        BY <4>3 DEF kind, Kind
      <4>5. QED
        BY <1>10, <3>2, <4>4 DEF Pipe
    <3>3. QED
      BY <3>1, <3>2
  <2>3. /\ from["client"] = "off" /\ to["client"] = "off" /\ got["client"] = <<>> /\ taken["client"] = 0
        /\ fin["client"] \notin {"end", "endseen"}
    BY <1>1 DEF IInv, Control, Stages, SendingSides
  <2>4. /\ task'["server"] = task["server"] /\ to'["server"] = to["server"] /\ from'["server"] = from["server"]
        /\ \/ task'["client"] = "opening" /\ from'["client"] = "off" /\ to'["client"] = "off"
           \/ /\ task'["client"] = "piping" /\ from'["client"] = "read" /\ to'["client"] = "read"
              /\ from["server"] # "off"
        /\ task' \in [Ends -> {"none", "serving", "opening", "connecting", "piping", "ended"}]
        /\ to' \in [Ends -> {"off", "read", "drain", "done"}]
        /\ from' \in [Ends -> {"off", "read", "done"}]
    BY <1>1, <1>t, <2>2, <2>3
  <2>5. Typed'
    BY <1>1, <1>10, <2>1, <2>4 DEF Typed
  <2>6. Stages' /\ SendingSides' /\ Unopened'
    <3>1. Stages'
      BY <1>1, <1>10, <2>4 DEF IInv, Control, Stages, Ends
    <3>2. SendingSides'
      BY <1>1, <1>10, <2>3, <2>4, TwoEnds DEF IInv, Control, SendingSides, Ends
    <3>3. Unopened'
      BY <1>1, <1>10, <2>1, <2>4 DEF IInv, Control, Unopened
    <3>4. QED
      BY <3>1, <3>2, <3>3
  <2>7. EndsLast'
    <3>1. ASSUME ~closed["client"], NEW i \in 1..Len(Tail(q)), Tail(q)[i] = <<>>
          PROVE  i = Len(Tail(q)) /\ fin["server"] = "endseen"
      <4>1. q[i + 1] = <<>> /\ i + 1 \in 1..Len(q)
        BY <1>2, <3>1
      <4>2. i + 1 = Len(q) /\ fin["server"] = "endseen"
        BY <1>1, <1>5, <3>1, <4>1 DEF IInv, EndsLast
      <4>3. QED
        BY <1>2, <4>2
    <3>2. QED
      BY <1>10, <2>1, <2>4, <3>1, TwoEnds DEF IInv, EndsLast, Ends
  <2>8. Given'
    BY <1>1, <1>10, <2>3, <2>4, TwoEnds DEF IInv, Given, Ends
  <2>9. Kind("server")' = kind /\ Kind("client")' = Kind("client") /\ Written("server", n)'
    BY <1>1, <1>10, <1>n, <2>4 DEF kind, Kind, Written
  <2>10. Inflow("client")'
    <3>1. CASE ~Complete(buf)
      <4>1. task'["client"] = "opening" /\ head'["client"] = buf
        BY <1>1, <1>10, <3>1
      <4>2. Base("client")' = 0
        BY <4>1 DEF Base, Waiting
      <4>3. Base("client")' + Len(head'["client"]) = Len(buf) /\ \A j \in 1..Len(buf) : 0 + j = j
        BY <1>4, <4>1, <4>2
      <4>4. \A j \in 1..Len(buf) : buf[j] = Byte(kind, 0 + j)
        BY <1>8, <4>3
      <4>5. n \in 0..(HeadLen + taken'["server"])
        BY <1>1
      <4>6. Run(chunks'["client"], wire'["server"], Base("client")' + Len(head'["client"]), n, Kind("server")')
        BY <1>1, <1>7, <2>1, <2>9, <4>3
      <4>7. QED
        BY <1>5, <2>9, <4>1, <4>2, <4>4, <4>5, <4>6 DEF Inflow
    <3>2. CASE Complete(buf)
      <4>1. task' = [task EXCEPT !["client"] = "piping"] /\ head'["client"] = SplitHead(buf)
        BY <1>10, <3>2 DEF Pipe
      <4>2. Base("client")' = HeadLen
        <5>1. task'["client"] = "piping" /\ got'["client"] = <<>>
          BY <1>1, <1>t, <2>3, <4>1
        <5>2. Len(<<>>) = 0 /\ HeadLen + 0 = HeadLen
          BY <1>t
        <5>3. QED
          BY <5>1, <5>2 DEF Base, Waiting
      <4>3. /\ Len(SplitHead(buf)) = Len(buf) - HeadLen
            /\ \A j \in 1..(Len(buf) - HeadLen) :
                  SplitHead(buf)[j] = buf[HeadLen + j] /\ HeadLen + j \in 1..Len(buf)
        BY <1>4, <3>2, SplitFacts
      <4>4. HeadLen + Len(SplitHead(buf)) = Len(buf)
        BY <1>t, <1>4, <4>3
      <4>5. \A j \in 1..Len(SplitHead(buf)) : SplitHead(buf)[j] = Byte(kind, HeadLen + j)
        BY <1>8, <4>3
      <4>6. QED
        BY <1>1, <1>5, <1>7, <2>1, <2>9, <4>1, <4>2, <4>4, <4>5 DEF Inflow
    <3>3. QED
      BY <3>1, <3>2
  <2>11. ASSUME task'["server"] # "ended" PROVE Inflow("server")'
    <3>1. Inflow("server") /\ Far("server") = "client"
      BY <1>1, <2>4, <2>11, TwoEnds DEF IInv, Inflows
    <3>2. (Waiting("server")' <=> Waiting("server")) /\ taken["client"] \in Nat
      BY <1>1, <2>4 DEF Waiting, Typed
    <3>3. \A k \in Nat : Written("client", k) => Written("client", k)'
      BY <1>1, <1>10, <2>3, <2>4 DEF Written
    <3>4. QED
      BY <1>1, <2>1, <2>5, <2>9, <3>1, <3>2, <3>3, InflowKept
  <2>12. QED
    BY <2>5, <2>6, <2>7, <2>8, <2>10, <2>11 DEF IInv, Control, Inflows, Ends
<1>11. QED
  <2> DEFINE rest == [chunks EXCEPT !["client"] = Tail(@)]
  <2>1. rest \in [Ends -> Queues] /\ rest["server"] = chunks["server"]
    BY <1>1, <1>t, <1>3
  <2>2. /\ [rest EXCEPT !["client"] = Fed(@, <<>>, TRUE)] \in [Ends -> Queues]
        /\ [rest EXCEPT !["client"] = Fed(@, <<>>, TRUE)]["server"] = chunks["server"]
    <3>1. <<>> \in Bytes /\ rest["client"] \in Queues
      BY <1>1, <2>1 DEF Bytes
    <3> HIDE DEF rest
    <3>2. Fed(rest["client"], <<>>, TRUE) \in Queues
      BY <3>1, FedCases
    <3>3. QED
      BY <1>1, <2>1, <3>2
  <2>3. CASE /\ HangUp /\ chunks' = rest /\ UNCHANGED <<to, from, head, closed, fin>>
    BY <1>9, <1>t, <2>1, <2>3
  <2>4. CASE /\ ~Complete(buf) /\ head' = [head EXCEPT !["client"] = buf]
             /\ chunks' = rest /\ UNCHANGED <<task, to, from, closed, fin>>
    <3>1. head'["client"] = buf
      BY <1>1, <1>t, <2>4
    <3>2. QED
      BY <1>4, <1>10, <2>4, <3>1
  <2>5. CASE /\ HangUp /\ chunks' = [rest EXCEPT !["client"] = Fed(@, <<>>, TRUE)]
             /\ closed' = [closed EXCEPT !["client"] = TRUE]
             /\ fin' = ResetUnlessClosed("client") /\ UNCHANGED <<to, from, head>>
    <3> HIDE DEF rest
    <3>1. QED
      BY <1>9, <1>t, <2>2, <2>5
  <2>6. CASE /\ Complete(buf) /\ buf[1] = Connected
             /\ head' = [head EXCEPT !["client"] = SplitHead(buf)]
             /\ Pipe("client") \/ (HangUp /\ UNCHANGED <<to, from>>)
             /\ chunks' = rest /\ UNCHANGED <<closed, fin>>
    <3>1. head'["client"] = SplitHead(buf) /\ SplitHead(buf) \in Bytes
      BY <1>1, <1>t, <1>4, <2>6, SplitFacts
    <3>2. head' \in [Ends -> Bytes] /\ head'["server"] = head["server"]
      BY <1>1, <1>t, <2>6, <3>1
    <3>3. CASE Pipe("client")
      BY <1>10, <2>6, <3>1, <3>3
    <3>4. CASE HangUp /\ UNCHANGED <<to, from>>
      BY <1>9, <2>1, <2>6, <3>2, <3>4
    <3>5. QED
      BY <2>6, <3>3, <3>4
  <2>7. QED
    BY <1>p, <2>3, <2>4, <2>5, <2>6 DEF buf, h, chunk
-----------------------------------------------------------------------------
(* pipe. *)

\* A coroutine raises, and pipe aborts around it.
LEMMA AbortKeeps ==
    ASSUME IInv, NEW e \in Ends, task[e] = "piping", task' = [task EXCEPT ![e] = "ended"],
           to' \in [Ends -> {"off", "read", "drain", "done"}], from' \in [Ends -> {"off", "read", "done"}],
           head' \in [Ends -> Bytes], chunks' \in [Ends -> Queues], closed' \in [Ends -> BOOLEAN],
           fin' \in [Ends -> {"open", "end", "reset", "endseen", "resetseen"}],
           taken' \in [Ends -> Nat],
           \A x \in Ends \ {e} : /\ to'[x] = to[x] /\ from'[x] = from[x] /\ head'[x] = head[x]
                                 /\ chunks'[x] = chunks[x] /\ closed'[x] = closed[x]
                                 /\ fin'[x] = fin[x] /\ taken'[x] = taken[x],
           to'[e] # "off", from'[e] # "off", to[e] = "done" => to'[e] = "done", closed'[e],
           fin'[e] = fin[e] \/ (fin[e] \in {"open", "end"} /\ fin'[e] = "reset"),
           taken'[e] = taken[e] \/ (taken'[e] >= taken[e] /\ to[e] # "done"),
           UNCHANGED <<routed, wire, sent, peer, got>>
    PROVE  IInv'
<1> DEFINE f == Far(e)
<1>0. f \in Ends /\ f # e /\ Far(f) = e /\ f = Far(e) /\ \A x \in Ends : x = e \/ x = f
  BY TwoEnds
<1> HIDE DEF f
<1>1. /\ Typed /\ task'[e] = "ended" /\ \A x \in Ends \ {e} : task'[x] = task[x]
      /\ task' \in [Ends -> {"none", "serving", "opening", "connecting", "piping", "ended"}]
      /\ from[e] # "off" /\ to[e] # "off"
  <2>1. task \in [Ends -> {"none", "serving", "opening", "connecting", "piping", "ended"}]
    BY DEF IInv, Typed
  <2>2. task'[e] = "ended" /\ \A x \in Ends \ {e} : task'[x] = task[x]
    BY <2>1
  <2>3. task' \in [Ends -> {"none", "serving", "opening", "connecting", "piping", "ended"}]
    BY <2>1
  <2>4. Typed /\ from[e] # "off" /\ to[e] # "off"
    BY DEF IInv, Control, Stages
  <2>5. QED
    BY <2>2, <2>3, <2>4
<1>2. Typed'
  <2>1. task'["client"] \notin {"none", "connecting"} /\ task'["server"] \notin {"serving", "opening"}
    BY <1>1 DEF Typed, Ends
  <2>2. QED
    BY <1>1, <2>1 DEF Typed
<1>3. \A x \in Ends : /\ (from'[x] = "off" <=> from[x] = "off") /\ (to'[x] = "off" <=> to[x] = "off")
                      /\ closed[x] => closed'[x]
                      /\ fin'[x] \in {"end", "endseen"} => fin'[x] = fin[x]
                      /\ fin[x] = "endseen" => fin'[x] = fin[x]
  BY <1>0, <1>1
<1>4. fin[e] \in {"end", "endseen"} => to[e] = "done" /\ to'[e] = "done" /\ taken'[e] = taken[e]
                                        /\ taken[e] = sent[e] /\ peer[e] # "open"
  BY <1>1 DEF IInv, Control, SendingSides
<1>5. Stages' /\ SendingSides' /\ Unopened'
  <2>1. Stages'
    <3>1. task'["client"] = "serving" => task'["server"] = "none"
      BY <1>0, <1>1 DEF IInv, Control, Stages, Ends
    <3>2. from'["client"] # "off" => from'["server"] # "off"
      BY <1>3 DEF IInv, Control, Stages, Ends
    <3>3. ASSUME NEW x \in Ends
          PROVE  /\ from'[x] = "off" <=> to'[x] = "off"
                 /\ task'[x] = "piping" => from'[x] # "off"
                 /\ task'[x] \notin {"piping", "ended"} => from'[x] = "off"
                 /\ from'[x] = "off" => taken'[x] = 0 /\ got'[x] = <<>>
                 /\ task'[x] = "ended" /\ from'[x] = "read" => closed'[x]
      <4>1. CASE x = e
        BY <1>1, <4>1
      <4>2. CASE x # e
        <5>1. /\ task'[x] = task[x] /\ from'[x] = from[x] /\ to'[x] = to[x] /\ taken'[x] = taken[x]
              /\ closed'[x] = closed[x] /\ got'[x] = got[x]
          BY <1>1, <4>2
        <5>2. /\ from[x] = "off" <=> to[x] = "off"
              /\ task[x] = "piping" => from[x] # "off"
              /\ task[x] \notin {"piping", "ended"} => from[x] = "off"
              /\ from[x] = "off" => taken[x] = 0 /\ got[x] = <<>>
              /\ task[x] = "ended" /\ from[x] = "read" => closed[x]
          BY DEF IInv, Control, Stages
        <5>3. QED
          BY <5>1, <5>2
      <4>3. QED
        BY <4>1, <4>2
    <3>4. QED
      BY <3>1, <3>2, <3>3 DEF Stages
  <2>2. SendingSides'
    <3> SUFFICES ASSUME NEW x \in Ends
                 PROVE  /\ fin'[x] \in {"reset", "resetseen"} => closed'[x]
                        /\ fin'[x] \in {"end", "endseen"} =>
                              \/ x = "server" /\ from'[x] = "off" /\ task'[x] = "ended"
                              \/ to'[x] = "done" /\ taken'[x] = sent'[x] /\ peer'[x] # "open"
                        /\ fin'[x] = "endseen" => wire'[x] = <<>> /\ ~routed'[Far(x)]
      BY DEF SendingSides
    <3>1. /\ fin[x] \in {"reset", "resetseen"} => closed[x]
          /\ fin[x] \in {"end", "endseen"} =>
                \/ x = "server" /\ from[x] = "off" /\ task[x] = "ended"
                \/ to[x] = "done" /\ taken[x] = sent[x] /\ peer[x] # "open"
          /\ fin[x] = "endseen" => wire[x] = <<>> /\ ~routed[Far(x)]
      BY DEF IInv, Control, SendingSides
    <3>2. CASE x = e
      BY <3>1, <3>2, <1>1, <1>3, <1>4
    <3>3. CASE x # e
      BY <3>1, <3>3, <1>1, <1>3
    <3>4. QED
      BY <3>2, <3>3
  <2>3. Unopened'
    <3> SUFFICES ASSUME task'["server"] = "none"
                 PROVE  chunks'["server"] = <<>> /\ ~routed'["server"] /\ fin'["client"] # "endseen"
      BY DEF Unopened
    <3>1. e = "client" /\ task["server"] = "none"
      BY <1>1 DEF Ends
    <3>2. from["client"] # "off" /\ from["server"] = "off"
      BY <3>1, <1>1 DEF IInv, Control, Stages, Ends
    <3>3. QED
      BY <3>2 DEF IInv, Control, Stages
  <2>4. QED
    BY <2>1, <2>2, <2>3
<1>6. EndsLast'
  <2> SUFFICES ASSUME NEW x \in Ends, task'[x] # "ended", ~closed'[x],
                      NEW i \in 1..Len(chunks'[x]), chunks'[x][i] = <<>>
               PROVE  i = Len(chunks'[x]) /\ fin'[Far(x)] = "endseen"
    BY DEF EndsLast
  <2>1. x = f /\ x # e /\ task[x] # "ended" /\ ~closed[x] /\ chunks'[x] = chunks[x]
    BY <1>0, <1>1
  <2>2. i = Len(chunks[x]) /\ fin[Far(x)] = "endseen"
    BY <2>1 DEF IInv, EndsLast
  <2>3. QED
    BY <2>1, <2>2, <1>0, <1>3
<1>7. Given'
  <2> SUFFICES ASSUME NEW x \in Ends
               PROVE  /\ Len(got'[x]) <= taken'[Far(x)]
                      /\ \A j \in 1..Len(got'[x]) : got'[x][j] = j
                      /\ from'[x] = "done" /\ ~closed'[x]
                            => fin'[Far(x)] = "endseen" /\ Len(got'[x]) = taken'[Far(x)]
    BY DEF Given
  <2>1. /\ Len(got[x]) <= taken[Far(x)] /\ \A j \in 1..Len(got[x]) : got[x][j] = j
        /\ from[x] = "done" /\ ~closed[x] => fin[Far(x)] = "endseen" /\ Len(got[x]) = taken[Far(x)]
    BY DEF IInv, Given
  <2>2. taken[Far(x)] <= taken'[Far(x)] /\ Len(got[x]) \in Nat /\ taken[Far(x)] \in Nat /\ taken'[Far(x)] \in Nat
    <3>1. Len(got[x]) \in Nat /\ \A y \in Ends : taken[y] \in Nat /\ taken'[y] \in Nat
      BY <1>1 DEF Typed, Bytes
    <3>2. ASSUME NEW y \in Ends PROVE taken[y] <= taken'[y]
      <4>1. y # e => taken'[y] = taken[y]
        OBVIOUS
      <4>2. taken[e] <= taken'[e]
        BY <3>1
      <4>3. QED
        BY <3>1, <4>1, <4>2
    <3>3. QED
      BY <3>1, <3>2, TwoEnds
  <2>3. CASE x = e
    BY <2>1, <2>2, <2>3
  <2>4. CASE x = f
    BY <2>1, <2>2, <2>4, <1>0, <1>3, <1>4
  <2>5. QED
    BY <1>0, <2>3, <2>4
<1>8. Inflows'
  <2> SUFFICES ASSUME NEW x \in Ends, task'[x] # "ended" PROVE Inflow(x)'
    BY DEF Inflows
  <2>1. x = f /\ x # e /\ Far(x) = e /\ Inflow(x)
    BY <1>0, <1>1 DEF IInv, Inflows
  <2>2. (Waiting(x)' <=> Waiting(x)) /\ Kind(e)' = Kind(e)
    <3>1. task'[x] = task[x]
      BY <1>1, <2>1
    <3>2. QED
      BY <3>1, <1>3 DEF Waiting, Kind, Ends
  <2>3. \A n \in Nat : Written(e, n) => Written(e, n)'
    BY <1>1, <1>3, <1>4 DEF Written
  <2>4. taken[e] \in Nat /\ taken'[e] \in Nat /\ taken[e] <= taken'[e]
    BY <1>1 DEF Typed
  <2>5. QED
    BY <1>1, <1>2, <2>1, <2>2, <2>3, <2>4, InflowKept
<1>9. QED
  BY <1>2, <1>5, <1>6, <1>7, <1>8 DEF IInv, Control

\* What Abort leaves.
LEMMA AbortFacts ==
    ASSUME Typed, NEW e \in Ends, Abort(e)
    PROVE  /\ task' = [task EXCEPT ![e] = "ended"] /\ closed' \in [Ends -> BOOLEAN] /\ closed'[e]
           /\ fin' \in [Ends -> {"open", "end", "reset", "endseen", "resetseen"}]
           /\ \A x \in Ends \ {e} : closed'[x] = closed[x] /\ fin'[x] = fin[x]
           /\ fin'[e] = fin[e] \/ (fin[e] \in {"open", "end"} /\ fin'[e] = "reset")
<1>1. /\ task' = [task EXCEPT ![e] = "ended"] /\ closed' = [closed EXCEPT ![e] = TRUE]
      /\ \/ fin' = fin
         \/ fin[e] \in {"open", "end"} /\ fin' = [fin EXCEPT ![e] = "reset"]
  BY DEF Abort, ResetUnlessClosed
<1>2. /\ closed \in [Ends -> BOOLEAN]
      /\ fin \in [Ends -> {"open", "end", "reset", "endseen", "resetseen"}]
  BY DEF Typed
<1>3. /\ closed' \in [Ends -> BOOLEAN] /\ closed'[e]
      /\ \A x \in Ends \ {e} : closed'[x] = closed[x]
  BY <1>1, <1>2
<1>4. /\ fin' \in [Ends -> {"open", "end", "reset", "endseen", "resetseen"}]
      /\ \A x \in Ends \ {e} : fin'[x] = fin[x]
      /\ fin'[e] = fin[e] \/ (fin[e] \in {"open", "end"} /\ fin'[e] = "reset")
  <2>1. CASE fin' = fin
    <3>1. fin' \in [Ends -> {"open", "end", "reset", "endseen", "resetseen"}]
      BY <1>2, <2>1
    <3>2. \A x \in Ends : fin'[x] = fin[x]
      BY <2>1
    <3>3. QED
      BY <3>1, <3>2
  <2>2. CASE fin[e] \in {"open", "end"} /\ fin' = [fin EXCEPT ![e] = "reset"]
    BY <1>2, <2>2
  <2>3. QED
    BY <1>1, <2>1, <2>2
<1>5. QED
  BY <1>1, <1>3, <1>4

\* What the peer sent goes to the stream.
LEMMA ToTunnelKeeps == ASSUME IInv, NEW e \in Ends, ToTunnel(e) PROVE IInv'
<1>1. /\ task[e] = "piping" /\ to[e] = "read" /\ taken[e] < sent[e]
      /\ taken' = [taken EXCEPT ![e] = sent[e]]
      /\ UNCHANGED <<from, head, routed, sent, peer, got>> /\ Typed
  BY DEF ToTunnel, IInv
<1>t. /\ taken \in [Ends -> Nat] /\ sent \in [Ends -> Nat] /\ chunks \in [Ends -> Queues]
      /\ to \in [Ends -> {"off", "read", "drain", "done"}] /\ from \in [Ends -> {"off", "read", "done"}]
      /\ head \in [Ends -> Bytes] /\ wire \in [Ends -> Bytes] /\ <<>> \in Bytes /\ HeadLen \in Nat
  BY <1>1, PassThroughAssumption DEF Typed, Bytes
<1>2. /\ taken' \in [Ends -> Nat] /\ taken'[e] = sent[e] /\ taken'[e] >= taken[e]
      /\ \A x \in Ends \ {e} : taken'[x] = taken[x]
  BY <1>1, <1>t
<1>3. from[e] # "off" /\ fin[e] \notin {"end", "endseen"}
  BY <1>1 DEF IInv, Control, Stages, SendingSides
<1>4. CASE closed[e]
  <2>1. /\ to' = [to EXCEPT ![e] = "done"] /\ Abort(e) /\ UNCHANGED wire
        /\ chunks' = [chunks EXCEPT ![e] = Fed(@, <<>>, TRUE)]
    BY <1>4 DEF ToTunnel
  <2>2. /\ to' \in [Ends -> {"off", "read", "drain", "done"}] /\ to'[e] = "done"
        /\ \A x \in Ends \ {e} : to'[x] = to[x]
    BY <2>1, <1>t
  <2>3. chunks' \in [Ends -> Queues] /\ \A x \in Ends \ {e} : chunks'[x] = chunks[x]
    <3>1. Fed(chunks[e], <<>>, TRUE) \in Queues
      BY <1>t, FedCases
    <3>2. QED
      BY <2>1, <1>t, <3>1
  <2>4. /\ task' = [task EXCEPT ![e] = "ended"] /\ closed' \in [Ends -> BOOLEAN] /\ closed'[e]
        /\ fin' \in [Ends -> {"open", "end", "reset", "endseen", "resetseen"}]
        /\ \A x \in Ends \ {e} : closed'[x] = closed[x] /\ fin'[x] = fin[x]
        /\ fin'[e] = fin[e] \/ (fin[e] \in {"open", "end"} /\ fin'[e] = "reset")
    BY <1>1, <2>1, AbortFacts
  <2>5. /\ from' \in [Ends -> {"off", "read", "done"}] /\ head' \in [Ends -> Bytes] /\ from'[e] # "off"
        /\ \A x \in Ends \ {e} : from'[x] = from[x] /\ head'[x] = head[x]
    BY <1>1, <1>t, <1>3
  <2>6. QED
    BY <1>1, <1>2, <2>1, <2>2, <2>3, <2>4, <2>5, AbortKeeps, ZenonT(40)
<1>5. CASE ~closed[e]
  <2> DEFINE f == Far(e)
             d == [i \in 1..(sent[e] - taken[e]) |-> taken[e] + i]
  <2>0. f \in Ends /\ f # e /\ Far(f) = e /\ f = Far(e) /\ \A x \in Ends : x = e \/ x = f
    BY TwoEnds
  <2> HIDE DEF f
  <2>1. /\ to' = [to EXCEPT ![e] = "drain"] /\ wire' = [wire EXCEPT ![e] = @ \o d]
        /\ UNCHANGED <<task, chunks, closed, fin>>
    BY <1>5 DEF ToTunnel
  <2>2. taken[e] \in Nat /\ sent[e] \in Nat /\ sent[e] - taken[e] \in Nat
    BY <1>1, <1>t
  <2>3. d \in Bytes
    <3>1. \A i \in 1..(sent[e] - taken[e]) : taken[e] + i \in Int
      BY <2>2
    <3>2. QED
      BY <2>2, <3>1, IsASeq DEF Bytes
  <2>4. Len(d) = sent[e] - taken[e] /\ \A i \in 1..(sent[e] - taken[e]) : d[i] = taken[e] + i
    BY <2>2
  <2> HIDE DEF d
  <2>5. wire[e] \o d \in Bytes
    BY <1>t, <2>3, JoinFacts
  <2>6. /\ wire' \in [Ends -> Bytes] /\ wire'[e] = wire[e] \o d /\ wire'[f] = wire[f]
        /\ to' \in [Ends -> {"off", "read", "drain", "done"}] /\ to'[e] = "drain" /\ to'[f] = to[f]
    BY <1>t, <2>0, <2>1, <2>5
  <2>7. Typed'
    BY <1>1, <1>2, <2>1, <2>6 DEF Typed
  <2>8. Stages' /\ SendingSides' /\ Unopened'
    <3>1. Stages'
      <4>1. \A x \in Ends : (to'[x] = "off" <=> to[x] = "off") /\ (from[x] = "off" => taken'[x] = taken[x])
        BY <1>1, <1>2, <1>3, <2>0, <2>6
      <4>2. QED
        BY <1>1, <2>1, <4>1 DEF IInv, Control, Stages
    <3>2. SendingSides'
      <4>1. \A x \in Ends : fin[x] \in {"end", "endseen"} =>
               x = f /\ to'[x] = to[x] /\ taken'[x] = taken[x] /\ wire'[x] = wire[x]
        BY <1>2, <1>3, <2>0, <2>6
      <4>2. QED
        BY <1>1, <2>1, <4>1 DEF IInv, Control, SendingSides
    <3>3. Unopened'
      BY <1>1, <2>1 DEF IInv, Control, Unopened
    <3>4. QED
      BY <3>1, <3>2, <3>3
  <2>9. EndsLast'
    BY <1>1, <2>1 DEF IInv, EndsLast
  <2>10. Given'
    <3> SUFFICES ASSUME NEW x \in Ends
                 PROVE  /\ Len(got[x]) <= taken'[Far(x)]
                        /\ \A j \in 1..Len(got[x]) : got[x][j] = j
                        /\ from[x] = "done" /\ ~closed[x]
                              => fin[Far(x)] = "endseen" /\ Len(got[x]) = taken'[Far(x)]
      BY <1>1, <2>1 DEF Given
    <3>1. /\ Len(got[x]) <= taken[Far(x)] /\ \A j \in 1..Len(got[x]) : got[x][j] = j
          /\ from[x] = "done" /\ ~closed[x] => fin[Far(x)] = "endseen" /\ Len(got[x]) = taken[Far(x)]
      BY DEF IInv, Given
    <3>2. taken[Far(x)] <= taken'[Far(x)] /\ Len(got[x]) \in Nat /\ taken[Far(x)] \in Nat /\ taken'[Far(x)] \in Nat
      <4>1. Len(got[x]) \in Nat /\ \A y \in Ends : taken[y] \in Nat /\ taken'[y] \in Nat
        BY <1>1, <1>2 DEF Typed, Bytes
      <4>2. \A y \in Ends : taken[y] <= taken'[y]
        BY <1>2, <4>1
      <4>3. QED
        BY <4>1, <4>2, TwoEnds
    <3>3. fin[Far(x)] = "endseen" => taken'[Far(x)] = taken[Far(x)]
      BY <1>2, <1>3, <2>0
    <3>4. QED
      BY <3>1, <3>2, <3>3
  <2>11. \A x \in Ends : (Waiting(x)' <=> Waiting(x)) /\ Kind(x)' = Kind(x)
    BY <1>1, <2>1 DEF Waiting, Kind
  <2>12. Inflow(e)'
    <3>1. Inflow(e) /\ taken'[f] = taken[f] /\ taken[f] \in Nat
      BY <1>1, <1>2, <1>t, <2>0 DEF IInv, Inflows
    <3>2. \A n \in Nat : Written(f, n) => Written(f, n)'
      BY <1>1, <2>1, <3>1 DEF Written
    <3>3. QED
      BY <1>1, <2>0, <2>1, <2>6, <2>7, <2>11, <3>1, <3>2, InflowKept
  <2>13. ASSUME task'[f] # "ended" PROVE Inflow(f)'
    <3>1. Inflow(f) /\ chunks[f] \in Queues /\ wire[e] \in Bytes
      BY <1>t, <2>0, <2>1, <2>13 DEF IInv, Inflows
    <3>p. PICK n \in 0..(HeadLen + taken[e]) :
            /\ Run(chunks[f], wire[e], Base(f) + Len(head[f]), n, Kind(e))
            /\ Written(e, n)
      BY <2>0, <3>1 DEF Inflow
    <3>2. n = HeadLen + taken[e] /\ n \in Nat
      BY <1>1, <1>5, <1>t, <2>2, <3>p DEF Written
    <3>3. ASSUME NEW j \in 1..Len(d) PROVE d[j] = Byte(Kind(e), n + j)
      <4>1. /\ ~(n + j <= HeadLen) /\ n + j - HeadLen = taken[e] + j
            /\ j \in 1..(sent[e] - taken[e])
        BY <1>t, <2>2, <2>4, <3>2
      <4>2. d[j] = taken[e] + j
        BY <2>4, <4>1
      <4>3. Byte(Kind(e), n + j) = n + j - HeadLen
        BY <1>t, <2>2, <2>4, <3>2, <4>1 DEF Byte
      <4>4. QED
        BY <4>1, <4>2, <4>3
    <3>4. Run(chunks[f], wire[e] \o d, Base(f) + Len(head[f]), n + Len(d), Kind(e))
      BY <2>3, <3>1, <3>p, <3>2, <3>3, RunWrite
    <3>m. PICK m \in 0..(HeadLen + taken'[e]) : m = n + Len(d) /\ m = HeadLen + taken'[e]
      <4>1. taken'[e] = sent[e] /\ Len(d) = sent[e] - taken[e] /\ n = HeadLen + taken[e]
        BY <1>2, <2>4, <3>2
      <4>2. taken[e] \in Nat /\ sent[e] \in Nat /\ HeadLen \in Nat
        BY <1>t, <2>2
      <4>3. n + Len(d) = HeadLen + taken'[e] /\ n + Len(d) \in 0..(HeadLen + taken'[e])
        BY ONLY <4>1, <4>2, SMTT(30)
      <4>4. QED
        BY <4>3
    <3>6. Written(e, m)'
      BY <1>1, <1>3, <2>1, <3>m DEF Written
    <3>7. Base(f)' = Base(f) /\ head'[f] = head[f] /\ chunks'[f] = chunks[f] /\ Kind(e)' = Kind(e)
      BY <1>1, <2>0, <2>1, <2>11 DEF Base
    <3>8. \A j \in 1..Len(head'[f]) : head'[f][j] = Byte(Kind(e)', Base(f)' + j)
      BY <2>0, <3>1, <3>7 DEF Inflow
    <3>9. Run(chunks'[f], wire'[e], Base(f)' + Len(head'[f]), m, Kind(e)')
      BY <2>6, <3>4, <3>m, <3>7
    <3>10. QED
      BY <2>0, <3>6, <3>8, <3>9 DEF Inflow
  <2>14. QED
    BY <2>0, <2>7, <2>8, <2>9, <2>10, <2>12, <2>13 DEF IInv, Control, Inflows
<1>6. QED
  BY <1>4, <1>5

\* The peer has finished sending, or has reset its connection.
LEMMA ToTunnelEndsKeeps == ASSUME IInv, NEW e \in Ends, ToTunnelEnds(e) PROVE IInv'
<1>1. /\ task[e] = "piping" /\ to[e] = "read" /\ to' = [to EXCEPT ![e] = "done"]
      /\ UNCHANGED <<from, head, routed, wire, sent, taken, peer, got>> /\ Typed
  BY DEF ToTunnelEnds, IInv
<1>t. /\ task \in [Ends -> {"none", "serving", "opening", "connecting", "piping", "ended"}]
      /\ taken \in [Ends -> Nat] /\ chunks \in [Ends -> Queues] /\ closed \in [Ends -> BOOLEAN]
      /\ to \in [Ends -> {"off", "read", "drain", "done"}] /\ from \in [Ends -> {"off", "read", "done"}]
      /\ fin \in [Ends -> {"open", "end", "reset", "endseen", "resetseen"}]
      /\ head \in [Ends -> Bytes] /\ wire \in [Ends -> Bytes] /\ <<>> \in Bytes /\ HeadLen \in Nat
  BY <1>1, PassThroughAssumption DEF Typed, Bytes
<1>2. /\ to' \in [Ends -> {"off", "read", "drain", "done"}] /\ to'[e] = "done"
      /\ \A x \in Ends \ {e} : to'[x] = to[x]
  BY <1>1, <1>t
<1>3. from[e] # "off" /\ fin[e] \notin {"end", "endseen"}
  BY <1>1 DEF IInv, Control, Stages, SendingSides
<1>4. CASE /\ Abort(e) /\ chunks' = [chunks EXCEPT ![e] = Fed(@, <<>>, TRUE)]
  <2>1. chunks' \in [Ends -> Queues] /\ \A x \in Ends \ {e} : chunks'[x] = chunks[x]
    <3>1. Fed(chunks[e], <<>>, TRUE) \in Queues
      BY <1>t, FedCases
    <3>2. QED
      BY <1>4, <1>t, <3>1
  <2>2. /\ task' = [task EXCEPT ![e] = "ended"] /\ closed' \in [Ends -> BOOLEAN] /\ closed'[e]
        /\ fin' \in [Ends -> {"open", "end", "reset", "endseen", "resetseen"}]
        /\ \A x \in Ends \ {e} : closed'[x] = closed[x] /\ fin'[x] = fin[x]
        /\ fin'[e] = fin[e] \/ (fin[e] \in {"open", "end"} /\ fin'[e] = "reset")
    BY <1>1, <1>4, AbortFacts
  <2>3. /\ from' \in [Ends -> {"off", "read", "done"}] /\ head' \in [Ends -> Bytes] /\ from'[e] # "off"
        /\ taken' \in [Ends -> Nat] /\ taken'[e] = taken[e]
        /\ \A x \in Ends \ {e} : from'[x] = from[x] /\ head'[x] = head[x] /\ taken'[x] = taken[x]
    BY <1>1, <1>t, <1>3
  <2>4. /\ to'[e] # "off" /\ (to[e] = "done" => to'[e] = "done")
        /\ \A x \in Ends \ {e} : /\ to'[x] = to[x] /\ from'[x] = from[x] /\ head'[x] = head[x]
                                 /\ chunks'[x] = chunks[x] /\ closed'[x] = closed[x]
                                 /\ fin'[x] = fin[x] /\ taken'[x] = taken[x]
    BY <1>2, <2>1, <2>2, <2>3
  <2>5. QED
    BY <1>1, <1>2, <2>1, <2>2, <2>3, <2>4, AbortKeeps
<1>5. CASE /\ peer[e] = "end" /\ ~closed[e] /\ fin' = [fin EXCEPT ![e] = "end"]
           /\ taken[e] = sent[e] /\ Finish(e, from[e] = "done") /\ UNCHANGED <<chunks, closed>>
  <2> DEFINE f == Far(e)
  <2>0. f \in Ends /\ f # e /\ Far(f) = e /\ f = Far(e) /\ \A x \in Ends : x = e \/ x = f
    BY TwoEnds
  <2> HIDE DEF f
  <2>1. /\ fin' \in [Ends -> {"open", "end", "reset", "endseen", "resetseen"}]
        /\ fin'[e] = "end" /\ fin'[f] = fin[f] /\ to'[f] = to[f]
    BY <1>2, <1>5, <1>t, <2>0
  <2>2. /\ task' \in [Ends -> {"none", "serving", "opening", "connecting", "piping", "ended"}]
        /\ \/ task'[e] = "piping"
           \/ task'[e] = "ended" /\ from[e] = "done"
        /\ task'[f] = task[f]
    <3>1. CASE from[e] = "done"
      <4>1. task' = [task EXCEPT ![e] = "ended"]
        BY <1>5, <3>1 DEF Finish
      <4>2. QED
        BY <1>t, <2>0, <3>1, <4>1
    <3>2. CASE from[e] # "done"
      <4>1. task' = task
        BY <1>5, <3>2 DEF Finish
      <4>2. QED
        BY <1>1, <1>t, <4>1
    <3>3. QED
      BY <3>1, <3>2
  <2>3. Typed'
    <3>1. task'["client"] \notin {"none", "connecting"} /\ task'["server"] \notin {"serving", "opening"}
      BY <1>1, <2>0, <2>2 DEF Typed, Ends
    <3>2. QED
      BY <1>1, <1>2, <1>5, <2>1, <2>2, <3>1 DEF Typed
  <2>4. Stages'
    <3>1. \A x \in Ends : /\ to'[x] = "off" <=> to[x] = "off"
                          /\ task'[x] = task[x] \/ x = e
      BY <1>1, <1>2, <2>0, <2>2
    <3>2. task'["client"] = "serving" => task'["server"] = "none"
      BY <1>1, <2>0, <2>2 DEF IInv, Control, Stages, Ends
    <3>3. from'["client"] # "off" => from'["server"] # "off"
      BY <1>1 DEF IInv, Control, Stages
    <3>4. ASSUME NEW x \in Ends
          PROVE  /\ from'[x] = "off" <=> to'[x] = "off"
                 /\ task'[x] = "piping" => from'[x] # "off"
                 /\ task'[x] \notin {"piping", "ended"} => from'[x] = "off"
                 /\ from'[x] = "off" => taken'[x] = 0 /\ got'[x] = <<>>
                 /\ task'[x] = "ended" /\ from'[x] = "read" => closed'[x]
      <4>1. /\ from[x] = "off" <=> to[x] = "off"
            /\ task[x] = "piping" => from[x] # "off"
            /\ task[x] \notin {"piping", "ended"} => from[x] = "off"
            /\ from[x] = "off" => taken[x] = 0 /\ got[x] = <<>>
            /\ task[x] = "ended" /\ from[x] = "read" => closed[x]
        BY DEF IInv, Control, Stages
      <4>2. CASE x = e
        BY <1>1, <1>3, <1>5, <2>2, <3>1, <4>1, <4>2
      <4>3. CASE x # e
        BY <1>1, <1>5, <3>1, <4>1, <4>3
      <4>4. QED
        BY <4>2, <4>3
    <3>5. QED
      BY <3>2, <3>3, <3>4 DEF Stages
  <2>5. SendingSides'
    <3> SUFFICES ASSUME NEW x \in Ends
                 PROVE  /\ fin'[x] \in {"reset", "resetseen"} => closed'[x]
                        /\ fin'[x] \in {"end", "endseen"} =>
                              \/ x = "server" /\ from'[x] = "off" /\ task'[x] = "ended"
                              \/ to'[x] = "done" /\ taken'[x] = sent'[x] /\ peer'[x] # "open"
                        /\ fin'[x] = "endseen" => wire'[x] = <<>> /\ ~routed'[Far(x)]
      BY DEF SendingSides
    <3>1. /\ fin[x] \in {"reset", "resetseen"} => closed[x]
          /\ fin[x] \in {"end", "endseen"} =>
                \/ x = "server" /\ from[x] = "off" /\ task[x] = "ended"
                \/ to[x] = "done" /\ taken[x] = sent[x] /\ peer[x] # "open"
          /\ fin[x] = "endseen" => wire[x] = <<>> /\ ~routed[Far(x)]
      BY DEF IInv, Control, SendingSides
    <3>2. CASE x = e
      BY <3>2, <1>1, <1>2, <1>5, <2>1
    <3>3. CASE x = f
      BY <3>1, <3>3, <1>1, <1>5, <2>1, <2>2
    <3>4. QED
      BY <2>0, <3>2, <3>3
  <2>6. Unopened'
    <3> SUFFICES ASSUME task'["server"] = "none"
                 PROVE  chunks'["server"] = <<>> /\ ~routed'["server"] /\ fin'["client"] # "endseen"
      BY DEF Unopened
    <3>1. e = "client" /\ f = "server" /\ task["server"] = "none"
      BY <2>0, <2>2 DEF Ends
    <3>2. QED
      BY <1>1, <1>5, <2>1, <3>1 DEF IInv, Control, Unopened
  <2>7. EndsLast'
    <3> SUFFICES ASSUME NEW x \in Ends, task'[x] # "ended", ~closed[x],
                        NEW i \in 1..Len(chunks[x]), chunks[x][i] = <<>>
                 PROVE  i = Len(chunks[x]) /\ fin'[Far(x)] = "endseen"
      BY <1>5 DEF EndsLast
    <3>1. task[x] # "ended"
      BY <1>1, <2>0, <2>2
    <3>2. i = Len(chunks[x]) /\ fin[Far(x)] = "endseen"
      BY <3>1 DEF IInv, EndsLast
    <3>3. Far(x) = f
      BY <1>3, <2>0, <3>2
    <3>4. QED
      BY <2>1, <3>2, <3>3
  <2>8. Given'
    <3> SUFFICES ASSUME NEW x \in Ends
                 PROVE  /\ Len(got[x]) <= taken[Far(x)]
                        /\ \A j \in 1..Len(got[x]) : got[x][j] = j
                        /\ from[x] = "done" /\ ~closed[x]
                              => fin'[Far(x)] = "endseen" /\ Len(got[x]) = taken[Far(x)]
      BY <1>1, <1>5 DEF Given
    <3>1. /\ Len(got[x]) <= taken[Far(x)] /\ \A j \in 1..Len(got[x]) : got[x][j] = j
          /\ from[x] = "done" /\ ~closed[x] => fin[Far(x)] = "endseen" /\ Len(got[x]) = taken[Far(x)]
      BY DEF IInv, Given
    <3>2. fin[Far(x)] = "endseen" => fin'[Far(x)] = "endseen"
      BY <1>3, <2>0, <2>1
    <3>3. QED
      BY <3>1, <3>2
  <2>9. \A x \in Ends : task'[x] # "ended" => /\ Inflow(x) /\ taken[x] \in Nat
                                              /\ (Waiting(x)' <=> Waiting(x))
    <3> SUFFICES ASSUME NEW x \in Ends, task'[x] # "ended"
                 PROVE  Inflow(x) /\ taken[x] \in Nat /\ (Waiting(x)' <=> Waiting(x))
      OBVIOUS
    <3>1. task'[x] = task[x]
      BY <1>1, <2>0, <2>2
    <3>2. QED
      BY <1>t, <3>1 DEF IInv, Inflows, Waiting
  <2>10. \A x \in Ends, n \in Nat : Written(x, n) => Written(x, n)'
    <3> SUFFICES ASSUME NEW x \in Ends, NEW n \in Nat, Written(x, n) PROVE Written(x, n)'
      OBVIOUS
    <3>1. CASE x = e
      BY <1>1, <1>5, <2>1, <2>2, <3>1 DEF Written
    <3>2. CASE x = f
      BY <1>1, <1>5, <2>1, <2>2, <3>2 DEF Written
    <3>3. QED
      BY <2>0, <3>1, <3>2
  <2>11. ASSUME NEW x \in Ends, task'[x] # "ended" PROVE Inflow(x)'
    <3>1. Inflow(x) /\ (Waiting(x)' <=> Waiting(x)) /\ Far(x) \in Ends
      BY <2>9, <2>11, TwoEnds
    <3>2. Kind(Far(x))' = Kind(Far(x)) /\ taken'[Far(x)] = taken[Far(x)] /\ taken[Far(x)] \in Nat
      BY <1>1, <1>t, <3>1 DEF Kind
    <3>3. \A n \in Nat : Written(Far(x), n) => Written(Far(x), n)'
      BY <2>10, <3>1
    <3>4. QED
      BY <1>1, <1>5, <2>3, <3>1, <3>2, <3>3, InflowKept
  <2>12. QED
    BY <2>3, <2>4, <2>5, <2>6, <2>7, <2>8, <2>11 DEF IInv, Control, Inflows
<1>6. QED
  BY <1>4, <1>5 DEF ToTunnelEnds

\* What the far peer sent is given to the peer, until the end.
LEMMA FromTunnelKeeps == ASSUME IInv, NEW e \in Ends, FromTunnel(e) PROVE IInv'
<1> DEFINE f == Far(e)
           q == chunks[e]
           h == head[e]
           kind == Kind(f)
           back == h # <<>>
           data == IF back THEN h ELSE Head(q)
           rest == IF back THEN chunks ELSE [chunks EXCEPT ![e] = Tail(@)]
<1>0. f \in Ends /\ f # e /\ Far(f) = e /\ f = Far(e) /\ \A x \in Ends : x = e \/ x = f
  BY TwoEnds
<1>1. /\ task[e] = "piping" /\ from[e] = "read" /\ (back \/ q # <<>>) /\ Typed
      /\ head' = [head EXCEPT ![e] = <<>>]
      /\ UNCHANGED <<to, routed, wire, sent, taken, peer>>
  BY DEF FromTunnel, IInv
<1>p. \/ /\ data # <<>>
         /\ got' = [got EXCEPT ![e] = @ \o data] /\ chunks' = rest
         /\ UNCHANGED <<task, from, closed, fin>>
      \/ /\ from' = [from EXCEPT ![e] = "done"] /\ Abort(e)
         /\ chunks' = [rest EXCEPT ![e] = Fed(@, <<>>, TRUE)] /\ UNCHANGED got
      \/ /\ data = <<>>
         /\ from' = [from EXCEPT ![e] = "done"] /\ Finish(e, to[e] = "done")
         /\ chunks' = rest /\ UNCHANGED <<closed, fin, got>>
  BY DEF FromTunnel
<1>t. /\ task \in [Ends -> {"none", "serving", "opening", "connecting", "piping", "ended"}]
      /\ taken \in [Ends -> Nat] /\ chunks \in [Ends -> Queues] /\ closed \in [Ends -> BOOLEAN]
      /\ to \in [Ends -> {"off", "read", "drain", "done"}] /\ from \in [Ends -> {"off", "read", "done"}]
      /\ fin \in [Ends -> {"open", "end", "reset", "endseen", "resetseen"}] /\ got \in [Ends -> Bytes]
      /\ head \in [Ends -> Bytes] /\ <<>> \in Bytes /\ HeadLen \in Nat
      /\ q \in Queues /\ h \in Bytes /\ wire[f] \in Bytes /\ taken[f] \in Nat /\ Len(got[e]) \in Nat
  BY <1>0, <1>1, PassThroughAssumption, SMTT(30) DEF Typed, Bytes
<1>2. /\ head' \in [Ends -> Bytes] /\ head'[e] = <<>> /\ head'[f] = head[f]
  BY <1>0, <1>1, <1>t
<1>3. Inflow(e) /\ Base(e) = HeadLen + Len(got[e])
  BY <1>1 DEF IInv, Inflows, Base, Waiting
<1> HIDE DEF f, kind
\* What is read is next, and what is behind it goes on from there.
<1>n. PICK n \in 0..(HeadLen + taken[f]) :
        Run(q, wire[f], HeadLen + Len(got[e]) + Len(h), n, kind) /\ Written(f, n)
  BY <1>0, <1>3 DEF Inflow, kind
<1>4. n \in Nat /\ \A j \in 1..Len(h) : h[j] = Byte(kind, HeadLen + Len(got[e]) + j)
  <2>1. n \in Nat
    BY <1>t
  <2>2. \A j \in 1..Len(h) : h[j] = Byte(kind, Base(e) + j)
    BY <1>0, <1>3 DEF Inflow, kind
  <2>3. QED
    BY <1>3, <2>1, <2>2
<1>5. /\ data \in Bytes /\ rest \in [Ends -> Queues] /\ rest[f] = chunks[f]
      /\ Run(rest[e], wire[f], HeadLen + Len(got[e]) + Len(data), n, kind)
      /\ \A j \in 1..Len(data) : data[j] = Byte(kind, HeadLen + Len(got[e]) + j)
  <2>1. CASE back
    BY <2>1, <1>0, <1>t, <1>n, <1>4
  <2>2. CASE ~back
    <3>1. /\ q # <<>> /\ data = Head(q) /\ rest = [chunks EXCEPT ![e] = Tail(q)]
          /\ HeadLen + Len(got[e]) + Len(h) = HeadLen + Len(got[e])
      <4>1. Len(<<>>) = 0 /\ HeadLen + Len(got[e]) + 0 = HeadLen + Len(got[e])
        BY <1>t
      <4>2. QED
        BY <1>1, <2>2, <4>1
    <3> DEFINE w == wire[f]
               s == HeadLen + Len(got[e])
    <3>2. q \in Queues /\ w \in Bytes /\ n \in Nat /\ q # <<>> /\ Run(q, w, s, n, kind)
      BY <1>n, <1>t, <1>4, <3>1
    <3>3. Tail(q) \in Queues /\ Head(q) \in Bytes
      BY <3>2, TailFacts
    <3>4. rest \in [Ends -> Queues] /\ rest[f] = chunks[f] /\ rest[e] = Tail(q)
      BY <1>0, <1>t, <3>1, <3>3
    <3> HIDE DEF q, w, s
    <3>5. /\ Run(Tail(q), w, s + Len(Head(q)), n, kind)
          /\ \A j \in 1..Len(Head(q)) : Head(q)[j] = Byte(kind, s + j)
      BY ONLY <3>2, RunTail
    <3> HIDE DEF data, rest
    <3>6. QED
      BY <3>1, <3>3, <3>4, <3>5 DEF s, w
  <2>3. QED
    BY <2>1, <2>2
<1>6. ASSUME ~closed[e], NEW i \in 1..Len(rest[e]), rest[e][i] = <<>>
      PROVE  i = Len(rest[e]) /\ fin[f] = "endseen"
  <2>1. CASE back
    BY <1>0, <1>1, <1>6, <2>1 DEF IInv, EndsLast
  <2>2. CASE ~back
    <3>1. q # <<>> /\ rest[e] = Tail(q)
      BY <1>1, <1>t, <2>2
    <3>2. i + 1 \in 1..Len(q) /\ q[i + 1] = <<>> /\ Len(rest[e]) + 1 = Len(q) /\ Len(rest[e]) \in Nat
      BY <1>6, <1>t, <3>1, TailFacts
    <3>3. i + 1 = Len(q) /\ fin[f] = "endseen"
      BY <1>0, <1>1, <1>6, <3>2 DEF IInv, EndsLast
    <3>4. QED
      BY <3>2, <3>3
  <2>3. QED
    BY <2>1, <2>2
\* The end that is read from a stream that was not closed.
<1>7. ASSUME ~closed[e], data = <<>>
      PROVE  fin[f] = "endseen" /\ Len(got[e]) = taken[f]
  <2>1. ~back /\ q # <<>> /\ q[1] = <<>> /\ 1 \in 1..Len(q) /\ rest[e] = Tail(q)
        /\ Len(Tail(q)) + 1 = Len(q) /\ Len(Tail(q)) \in Nat /\ Tail(q) \in Queues
    <3>1. ~back /\ q # <<>>
      BY <1>1, <1>7
    <3>2. Head(q) = <<>> /\ rest[e] = Tail(q)
      BY <1>7, <1>t, <3>1
    <3>3. QED
      BY <1>t, <3>1, <3>2, TailFacts
  <2>2. 1 = Len(q) /\ fin[f] = "endseen"
    BY <1>0, <1>1, <1>7, <2>1 DEF IInv, EndsLast
  <2>3. wire[f] = <<>> /\ from[f] # "off"
    <3>1. wire[f] = <<>>
      BY <1>0, <2>2 DEF IInv, Control, SendingSides
    <3>2. CASE f = "client"
      <4>1. to[f] = "done"
        BY <1>0, <2>2, <3>2 DEF IInv, Control, SendingSides
      <4>2. QED
        <5>1. from[f] = "off" <=> to[f] = "off"
          BY <1>0 DEF IInv, Control, Stages
        <5>2. QED
          BY <3>1, <4>1, <5>1
    <3>3. CASE f = "server"
      <4>1. e = "client"
        BY <1>0, <3>3 DEF Ends
      <4>2. from["client"] # "off" => from["server"] # "off"
        BY DEF IInv, Control, Stages
      <4>3. QED
        BY <1>1, <3>1, <3>3, <4>1, <4>2
    <3>4. QED
      BY <1>0, <3>1, <3>2, <3>3 DEF Ends
  <2>4. n = HeadLen + taken[f]
    BY <1>n, <2>2, <2>3 DEF Written
  <2>5. rest[e] = <<>> /\ Len(data) = 0
    <3>1. Len(Tail(q)) = 0
      BY <2>1, <2>2
    <3>2. Tail(q) = <<>>
      <4>1. \A r \in Queues : Len(r) = 0 => r = <<>>
        BY DEF Queues
      <4>2. QED
        BY <2>1, <3>1, <4>1
    <3>3. QED
      BY <1>7, <2>1, <3>2
  <2> HIDE DEF data, rest
  <2>6. Run(<<>>, <<>>, HeadLen + Len(got[e]) + 0, n, kind)
    BY <1>5, <2>3, <2>5
  <2>7. HeadLen + Len(got[e]) + 0 \in Nat /\ Len(<<>>) = 0
    BY <1>t
  <2>8. HeadLen + Len(got[e]) + 0 + Len(<<>>) = n
    BY <1>t, <1>4, <2>6, <2>7, RunLine
  <2>9. Len(got[e]) = taken[f]
    BY ONLY <1>t, <2>4, <2>7, <2>8
  <2>10. QED
    BY <2>2, <2>9
<1> HIDE DEF data, rest, back, q, h
\* The peer has reset its connection.
<1>8. CASE /\ from' = [from EXCEPT ![e] = "done"] /\ Abort(e)
           /\ chunks' = [rest EXCEPT ![e] = Fed(@, <<>>, TRUE)] /\ UNCHANGED got
  <2>1. chunks' \in [Ends -> Queues] /\ \A x \in Ends \ {e} : chunks'[x] = chunks[x]
    <3>1. Fed(rest[e], <<>>, TRUE) \in Queues
      BY <1>t, <1>5, FedCases
    <3>2. \A x \in Ends \ {e} : rest[x] = chunks[x]
      BY <1>0, <1>5
    <3>3. QED
      BY <1>5, <1>8, <3>1, <3>2
  <2>2. /\ task' = [task EXCEPT ![e] = "ended"] /\ closed' \in [Ends -> BOOLEAN] /\ closed'[e]
        /\ fin' \in [Ends -> {"open", "end", "reset", "endseen", "resetseen"}]
        /\ \A x \in Ends \ {e} : closed'[x] = closed[x] /\ fin'[x] = fin[x]
        /\ fin'[e] = fin[e] \/ (fin[e] \in {"open", "end"} /\ fin'[e] = "reset")
    BY <1>1, <1>8, AbortFacts
  <2>3. /\ from' \in [Ends -> {"off", "read", "done"}] /\ from'[e] # "off"
        /\ \A x \in Ends \ {e} : from'[x] = from[x]
    BY <1>8, <1>t
  <2>4. /\ to' \in [Ends -> {"off", "read", "drain", "done"}] /\ taken' \in [Ends -> Nat]
        /\ taken'[e] = taken[e] /\ (to[e] = "done" => to'[e] = "done") /\ to'[e] # "off"
    BY <1>1, <1>t DEF IInv, Control, Stages
  <2>5. \A x \in Ends \ {e} : /\ to'[x] = to[x] /\ from'[x] = from[x] /\ head'[x] = head[x]
                              /\ chunks'[x] = chunks[x] /\ closed'[x] = closed[x]
                              /\ fin'[x] = fin[x] /\ taken'[x] = taken[x]
    BY <1>0, <1>1, <1>2, <2>1, <2>2, <2>3
  <2>6. QED
    BY <1>1, <1>2, <1>8, <2>1, <2>2, <2>3, <2>4, <2>5, AbortKeeps
\* What the peer is given is what its stream had for it.
<1>9. CASE /\ data # <<>> /\ got' = [got EXCEPT ![e] = @ \o data] /\ chunks' = rest
           /\ UNCHANGED <<task, from, closed, fin>>
  <2>1. /\ got[e] \o data \in Bytes /\ Len(got[e] \o data) = Len(got[e]) + Len(data)
        /\ Len(got[e]) \in Nat /\ Len(data) \in Nat
        /\ \A j \in 1..Len(got[e]) : (got[e] \o data)[j] = got[e][j]
        /\ \A j \in Len(got[e]) + 1 .. Len(got[e]) + Len(data) : (got[e] \o data)[j] = data[j - Len(got[e])]
    <3>1. got[e] \in Bytes
      BY <1>t
    <3>2. QED
      BY <3>1, <1>5, JoinFacts
  <2>2. got' \in [Ends -> Bytes] /\ got'[e] = got[e] \o data /\ got'[f] = got[f]
    BY <1>0, <1>9, <1>t, <2>1
  <2>3. Typed'
    BY <1>1, <1>2, <1>5, <1>9, <2>2 DEF Typed
  <2>4. Control'
    <3>1. Stages'
      <4>1. from[e] # "off" /\ \A x \in Ends : x # e => got'[x] = got[x]
        BY <1>0, <1>1, <2>2
      <4>2. QED
        BY <1>1, <1>9, <4>1 DEF IInv, Control, Stages
    <3>2. SendingSides'
      BY <1>1, <1>9 DEF IInv, Control, SendingSides
    <3>3. Unopened'
      <4>1. task["server"] = "none" => chunks'["server"] = chunks["server"]
        BY <1>0, <1>1, <1>5, <1>9 DEF Ends
      <4>2. QED
        BY <1>1, <1>9, <4>1 DEF IInv, Control, Unopened
    <3>4. QED
      BY <3>1, <3>2, <3>3 DEF Control
  <2>5. EndsLast'
    <3> SUFFICES ASSUME NEW x \in Ends, task[x] # "ended", ~closed[x],
                        NEW i \in 1..Len(rest[x]), rest[x][i] = <<>>
                 PROVE  i = Len(rest[x]) /\ fin[Far(x)] = "endseen"
      BY <1>9 DEF EndsLast
    <3>1. CASE x = e
      BY <1>0, <1>6, <3>1
    <3>2. CASE x = f
      BY <1>0, <1>5, <3>2 DEF IInv, EndsLast
    <3>3. QED
      BY <1>0, <3>1, <3>2
  <2>6. ASSUME NEW j \in 1..Len(data) PROVE data[j] = Len(got[e]) + j
    <3>1. ~(HeadLen + Len(got[e]) + j <= HeadLen) /\ HeadLen + Len(got[e]) + j - HeadLen = Len(got[e]) + j
      BY <1>t, <2>1
    <3>2. Byte(kind, HeadLen + Len(got[e]) + j) = Len(got[e]) + j
      BY <1>t, <2>1, <3>1 DEF Byte
    <3>3. QED
      BY <1>5, <3>2
  <2>7. HeadLen + Len(got[e]) + Len(data) \in 0..n
    <3>1. rest[e] \in Queues
      BY <1>5
    <3>2. QED
      BY <1>t, <1>4, <1>5, <3>1, RunStart
  <2>8. Given'
    <3>1. Len(got'[e]) <= taken[f]
      <4>1. Len(got'[e]) = Len(got[e]) + Len(data) /\ n <= HeadLen + taken[f]
        BY <1>t, <2>1, <2>2
      <4>2. QED
        BY ONLY <4>1, <2>1, <2>7, <1>4, <1>t
    <3>2. ASSUME NEW j \in 1..Len(got'[e]) PROVE got'[e][j] = j
      <4>1. CASE j <= Len(got[e])
        <5>1. j \in 1..Len(got[e])
          BY <2>1, <2>2, <4>1
        <5>2. got[e][j] = j
          BY <5>1 DEF IInv, Given
        <5>3. QED
          BY <2>1, <2>2, <5>1, <5>2
      <4>2. CASE j > Len(got[e])
        <5>1. /\ j \in Len(got[e]) + 1 .. Len(got[e]) + Len(data) /\ j - Len(got[e]) \in 1..Len(data)
              /\ Len(got[e]) + (j - Len(got[e])) = j
          BY <2>1, <2>2, <4>2
        <5>2. QED
          BY <2>1, <2>2, <2>6, <5>1
      <4>3. QED
        BY <2>1, <2>2, <4>1, <4>2
    <3>3. from'[e] # "done"
      BY <1>1, <1>9
    <3>4. taken'[f] = taken[f] /\ taken'[e] = taken[e] /\ got'[f] = got[f] /\ from'[f] = from[f]
          /\ closed'[f] = closed[f] /\ fin'[e] = fin[e]
      BY <1>1, <1>9, <2>2
    <3>5. /\ Len(got[f]) <= taken[e] /\ \A j \in 1..Len(got[f]) : got[f][j] = j
          /\ from[f] = "done" /\ ~closed[f] => fin[e] = "endseen" /\ Len(got[f]) = taken[e]
      BY <1>0 DEF IInv, Given
    <3> SUFFICES ASSUME NEW x \in Ends
                 PROVE  /\ Len(got'[x]) <= taken'[Far(x)]
                        /\ \A j \in 1..Len(got'[x]) : got'[x][j] = j
                        /\ from'[x] = "done" /\ ~closed'[x]
                              => fin'[Far(x)] = "endseen" /\ Len(got'[x]) = taken'[Far(x)]
      BY DEF Given
    <3>6. CASE x = e
      BY <1>0, <3>1, <3>2, <3>3, <3>4, <3>6
    <3>7. CASE x = f
      BY <1>0, <3>4, <3>5, <3>7
    <3>8. QED
      BY <1>0, <3>6, <3>7
  <2>9. Inflow(e)'
    <3>1. Base(e)' = HeadLen + Len(got'[e]) /\ Kind(f)' = kind
      BY <1>1, <1>9 DEF Base, Waiting, Kind, kind
    <3>2. Base(e)' + Len(head'[e]) = HeadLen + Len(got[e]) + Len(data) /\ 1..Len(head'[e]) = {}
      <4>1. Len(<<>>) = 0 /\ HeadLen + (Len(got[e]) + Len(data)) + 0 = HeadLen + Len(got[e]) + Len(data)
        BY <1>t, <2>1
      <4>2. QED
        BY <1>2, <2>1, <2>2, <3>1, <4>1
    <3>3. Run(chunks'[e], wire'[f], Base(e)' + Len(head'[e]), n, Kind(f)')
      BY <1>1, <1>5, <1>9, <3>1, <3>2
    <3>4. Written(f, n)' /\ n \in 0..(HeadLen + taken'[f])
      BY <1>1, <1>9, <1>n DEF Written
    <3>5. QED
      BY <1>0, <3>2, <3>3, <3>4 DEF Inflow
  <2>10. ASSUME task'[f] # "ended" PROVE Inflow(f)'
    <3>1. Inflow(f) /\ chunks'[f] = chunks[f] /\ taken[e] \in Nat /\ taken'[e] = taken[e]
      BY <1>0, <1>1, <1>5, <1>9, <1>t, <2>10 DEF IInv, Inflows
    <3>2. (Waiting(f)' <=> Waiting(f)) /\ Kind(e)' = Kind(e) /\ \A m \in Nat : Written(e, m) => Written(e, m)'
      BY <1>1, <1>9 DEF Waiting, Kind, Written
    <3>3. QED
      BY <1>0, <1>1, <1>2, <2>2, <2>3, <3>1, <3>2, InflowKept
  <2>11. QED
    BY <1>0, <2>3, <2>4, <2>5, <2>8, <2>9, <2>10 DEF IInv, Inflows
\* The end.
<1>10. CASE /\ data = <<>> /\ from' = [from EXCEPT ![e] = "done"] /\ Finish(e, to[e] = "done")
            /\ chunks' = rest /\ UNCHANGED <<closed, fin, got>>
  <2>1. /\ from' \in [Ends -> {"off", "read", "done"}] /\ from'[e] = "done" /\ from'[f] = from[f]
        /\ \A x \in Ends : from'[x] = "off" <=> from[x] = "off"
    BY <1>0, <1>1, <1>10, <1>t
  <2>2. /\ task' \in [Ends -> {"none", "serving", "opening", "connecting", "piping", "ended"}]
        /\ task'[e] \in {"piping", "ended"} /\ task'[f] = task[f]
    <3>1. CASE to[e] = "done"
      <4>1. task' = [task EXCEPT ![e] = "ended"]
        BY <1>10, <3>1 DEF Finish
      <4>2. QED
        BY <1>t, <1>0, <4>1
    <3>2. CASE to[e] # "done"
      <4>1. task' = task
        BY <1>10, <3>2 DEF Finish
      <4>2. QED
        BY <1>1, <1>t, <4>1
    <3>3. QED
      BY <3>1, <3>2
  <2>3. Typed'
    <3>1. task'["client"] \notin {"none", "connecting"} /\ task'["server"] \notin {"serving", "opening"}
      BY <1>0, <1>1, <2>2 DEF Typed, Ends
    <3>2. QED
      BY <1>1, <1>2, <1>5, <1>10, <2>1, <2>2, <3>1 DEF Typed
  <2>4. Control'
    <3>1. Stages'
      <4>1. task'["client"] = "serving" => task'["server"] = "none"
        BY <1>0, <1>1, <2>2 DEF IInv, Control, Stages, Ends
      <4>2. from'["client"] # "off" => from'["server"] # "off"
        BY <2>1 DEF IInv, Control, Stages, Ends
      <4>3. ASSUME NEW x \in Ends
            PROVE  /\ from'[x] = "off" <=> to'[x] = "off"
                   /\ task'[x] = "piping" => from'[x] # "off"
                   /\ task'[x] \notin {"piping", "ended"} => from'[x] = "off"
                   /\ from'[x] = "off" => taken'[x] = 0 /\ got'[x] = <<>>
                   /\ task'[x] = "ended" /\ from'[x] = "read" => closed'[x]
        <5>1. /\ from[x] = "off" <=> to[x] = "off"
              /\ task[x] = "piping" => from[x] # "off"
              /\ task[x] \notin {"piping", "ended"} => from[x] = "off"
              /\ from[x] = "off" => taken[x] = 0 /\ got[x] = <<>>
              /\ task[x] = "ended" /\ from[x] = "read" => closed[x]
          BY DEF IInv, Control, Stages
        <5>2. CASE x = e
          BY <1>1, <1>10, <2>1, <2>2, <5>1, <5>2
        <5>3. CASE x = f
          BY <1>1, <1>10, <2>1, <2>2, <5>1, <5>3
        <5>4. QED
          BY <1>0, <5>2, <5>3
      <4>4. QED
        BY <4>1, <4>2, <4>3 DEF Stages
    <3>2. SendingSides'
      <4>1. \A x \in Ends : task[x] = "ended" => task'[x] = "ended"
        BY <1>0, <1>1, <2>2
      <4>2. QED
        BY <1>1, <1>10, <2>1, <4>1 DEF IInv, Control, SendingSides
    <3>3. Unopened'
      <4>1. task'["server"] = "none" => task["server"] = "none" /\ chunks'["server"] = chunks["server"]
        BY <1>0, <1>1, <1>5, <1>10, <2>2 DEF Ends
      <4>2. QED
        BY <1>1, <1>10, <4>1 DEF IInv, Control, Unopened
    <3>4. QED
      BY <3>1, <3>2, <3>3 DEF Control
  <2>5. EndsLast'
    <3> SUFFICES ASSUME NEW x \in Ends, task'[x] # "ended", ~closed[x],
                        NEW i \in 1..Len(rest[x]), rest[x][i] = <<>>
                 PROVE  i = Len(rest[x]) /\ fin[Far(x)] = "endseen"
      BY <1>10 DEF EndsLast
    <3>1. CASE x = e
      BY <1>0, <1>6, <3>1
    <3>2. CASE x = f
      BY <1>0, <1>5, <2>2, <3>2 DEF IInv, EndsLast
    <3>3. QED
      BY <1>0, <3>1, <3>2
  <2>6. Given'
    <3> SUFFICES ASSUME NEW x \in Ends
                 PROVE  /\ Len(got[x]) <= taken[Far(x)]
                        /\ \A j \in 1..Len(got[x]) : got[x][j] = j
                        /\ from'[x] = "done" /\ ~closed[x]
                              => fin[Far(x)] = "endseen" /\ Len(got[x]) = taken[Far(x)]
      BY <1>1, <1>10 DEF Given
    <3>1. /\ Len(got[x]) <= taken[Far(x)] /\ \A j \in 1..Len(got[x]) : got[x][j] = j
          /\ from[x] = "done" /\ ~closed[x] => fin[Far(x)] = "endseen" /\ Len(got[x]) = taken[Far(x)]
      BY DEF IInv, Given
    <3>2. CASE x = e
      BY <1>0, <1>7, <1>10, <3>1, <3>2
    <3>3. CASE x = f
      BY <2>1, <3>1, <3>3
    <3>4. QED
      BY <1>0, <3>2, <3>3
  <2>7. ASSUME task'[e] # "ended" PROVE Inflow(e)'
    <3>1. Base(e)' = HeadLen + Len(got'[e]) /\ got'[e] = got[e] /\ Kind(f)' = kind
      BY <1>0, <1>1, <1>10, <2>1, <2>2, <2>7 DEF Base, Waiting, Kind, kind, Ends
    <3>2. Base(e)' + Len(head'[e]) = HeadLen + Len(got[e]) + Len(data) /\ 1..Len(head'[e]) = {}
      <4>1. Len(<<>>) = 0 /\ Len(data) = 0 /\ HeadLen + Len(got[e]) \in Nat
        BY <1>10, <1>t
      <4>2. QED
        BY <1>2, <3>1, <4>1
    <3>3. Run(chunks'[e], wire'[f], Base(e)' + Len(head'[e]), n, Kind(f)')
      BY <1>1, <1>5, <1>10, <3>1, <3>2
    <3>4. Written(f, n)' /\ n \in 0..(HeadLen + taken'[f])
      BY <1>0, <1>1, <1>10, <1>n, <2>1, <2>2 DEF Written
    <3>5. QED
      BY <1>0, <3>2, <3>3, <3>4 DEF Inflow
  <2>8. ASSUME task'[f] # "ended" PROVE Inflow(f)'
    <3>1. Inflow(f) /\ chunks'[f] = chunks[f] /\ taken[e] \in Nat /\ taken'[e] = taken[e]
      BY <1>0, <1>1, <1>5, <1>10, <1>t, <2>2, <2>8 DEF IInv, Inflows
    <3>2. (Waiting(f)' <=> Waiting(f)) /\ Kind(e)' = Kind(e)
      BY <1>0, <2>1, <2>2 DEF Waiting, Kind, Ends
    <3>3. \A m \in Nat : Written(e, m) => Written(e, m)'
      BY <1>1, <1>10, <2>1, <2>2 DEF Written
    <3>4. QED
      BY <1>0, <1>1, <1>2, <1>10, <2>3, <3>1, <3>2, <3>3, InflowKept
  <2>9. QED
    BY <1>0, <2>3, <2>4, <2>5, <2>6, <2>7, <2>8 DEF IInv, Inflows
<1>11. QED
  BY <1>p, <1>8, <1>9, <1>10 DEF data, rest, back, q, h
-----------------------------------------------------------------------------
(* The theorems. *)

LEMMA NextKeeps == IInv /\ [Next]_vars => IInv'
<1> SUFFICES ASSUME IInv, [Next]_vars PROVE IInv'
  OBVIOUS
<1>1. CASE UNCHANGED vars
  <2>1. UNCHANGED <<task, to, from, head, chunks, routed, closed, wire, fin, sent, taken, peer, got>>
    BY <1>1 DEF vars, streams, network, peers
  <2>2. Typed' /\ Control' /\ EndsLast' /\ Given'
    BY <2>1 DEF IInv, Typed, Control, Stages, SendingSides, Unopened, EndsLast, Given
  <2>3. QED
    BY <2>1, <2>2, QuietInflows DEF IInv
<1>2. CASE Opening
  BY <1>2, GiveUpKeeps, ConnectKeeps, OpenedKeeps DEF Opening
<1>3. CASE ConnectEnds
  BY <1>3, ConnectEndsKeeps
<1>4. CASE Network
  BY <1>4, HeaderArrivesKeeps, DataArrivesKeeps, ResetArrivesKeeps DEF Network
<1>5. ASSUME NEW e \in Ends, Relay(e) PROVE IInv'
  BY <1>5, ToTunnelKeeps, DrainedKeeps, ToTunnelEndsKeeps, FromTunnelKeeps, LeftBehindKeeps DEF Relay
<1>6. ASSUME NEW e \in Ends, ConnectionTerminated(e) PROVE IInv'
  BY <1>6, ConnectionTerminatedKeeps
<1>7. ASSUME NEW e \in Ends, PeerSends(e) \/ PeerEnds(e) \/ PeerResets(e) PROVE IInv'
  BY <1>7, PeerKeeps
<1>8. QED
  BY <1>1, <1>2, <1>3, <1>4, <1>5, <1>6, <1>7 DEF Next

\* The inductive invariant: where the bytes of either direction are, between
\* what the peer has been given and what the other has sent.
THEOREM Invariance == Spec => []IInv
BY InitIInv, NextKeeps, PTL DEF Spec

\* What an end has given its peer is what the other peer sent, in order; and
\* when it tells the end of it, nothing is missing.
LEMMA GivenUnchanged == IInv => Unchanged
<1> SUFFICES ASSUME IInv, NEW e \in Ends
             PROVE  /\ got[e] = [i \in 1..Len(got[e]) |-> i]
                    /\ Len(got[e]) <= taken[Far(e)]
                    /\ (from[e] = "done" /\ task[e] # "none" /\ ~closed[e] /\ fin[Far(e)] = "endseen")
                            => peer[Far(e)] # "open" /\ Len(got[e]) = sent[Far(e)]
  BY DEF Unchanged
<1>1. /\ Len(got[e]) <= taken[Far(e)] /\ \A j \in 1..Len(got[e]) : got[e][j] = j
      /\ from[e] = "done" /\ ~closed[e] => fin[Far(e)] = "endseen" /\ Len(got[e]) = taken[Far(e)]
  BY DEF IInv, Given
<1>2. got[e] = [i \in 1..Len(got[e]) |-> i]
  <2> DEFINE t == [i \in 1..Len(got[e]) |-> i]
  <2>1. got[e] \in Bytes /\ Len(got[e]) \in Nat
    BY DEF IInv, Typed, Bytes
  <2>2. t \in Bytes
    <3>1. \A i \in 1..Len(got[e]) : i \in Int
      BY <2>1
    <3>2. QED
      BY <2>1, <3>1, IsASeq DEF Bytes
  <2>3. Len(t) = Len(got[e]) /\ \A i \in 1..Len(got[e]) : t[i] = i
    BY <2>1
  <2> HIDE DEF t
  <2>4. got[e] = t
    BY <1>1, <2>1, <2>2, <2>3, SeqEqual DEF Bytes
  <2>5. QED
    BY <2>4 DEF t
<1>3. ASSUME from[e] = "done", ~closed[e], fin[Far(e)] = "endseen"
      PROVE  peer[Far(e)] # "open" /\ Len(got[e]) = sent[Far(e)]
  <2>1. Far(e) \in Ends /\ Far(Far(e)) = e /\ (Far(e) = "server" => e = "client")
    BY TwoEnds DEF Ends
  <2>2. \/ Far(e) = "server" /\ from["server"] = "off"
        \/ taken[Far(e)] = sent[Far(e)] /\ peer[Far(e)] # "open"
    BY <1>3, <2>1 DEF IInv, Control, SendingSides
  <2>3. e = "client" => from["server"] # "off"
    BY <1>3 DEF IInv, Control, Stages
  <2>4. QED
    BY <1>1, <1>3, <2>1, <2>2, <2>3
<1>4. QED
  BY <1>1, <1>2, <1>3

\* The bytes cross the tunnel unchanged, for every header, window and bound,
\* and whatever is reset or comes to an end.
THEOREM Intact == Spec => []Unchanged
BY Invariance, GivenUnchanged, PTL
=============================================================================
