-------------------------- MODULE PathManagerProofs --------------------------
(***************************************************************************)
(* What holds of the path manager for any interfaces, samples, delays and  *)
(* failures: the types; over QUIC, that a new path gets its full grace;    *)
(* with hints that arrive in order, that the server's outlook is the one   *)
(* the client believes it has told it while the connection lasts.          *)
(***************************************************************************)
EXTENDS PathManager, TLAPS

\* What the server will believe once the hints on their way have arrived.
LastHint == IF flying = <<>> THEN imminent ELSE flying[Len(flying)]

\* A new path starts with no age and, while QUIC migrates, gets none; then the
\* age cannot overtake the grace, both of which a tick increases.
AgeWithinGrace ==
    /\ manager.pc = "migrate" => age = 0
    /\ manager.pc = "rest" => age <= grace

IInv ==
    /\ TypeOK
    /\ ~Quic => path = active
    /\ Quic => AgeWithinGrace
    /\ InOrder /\ ~ended => hint_sent = LastHint

\* Appending adds the last element; a sequence that is appended to is not empty.
LEMMA AppendLast ==
    ASSUME NEW s \in Seq(BOOLEAN), NEW b \in BOOLEAN
    PROVE  /\ Append(s, b) \in Seq(BOOLEAN)
           /\ Append(s, b) # <<>>
           /\ Len(Append(s, b)) = Len(s) + 1
           /\ Append(s, b)[Len(Append(s, b))] = b
  OBVIOUS

\* Concatenation adds the lengths.
LEMMA Concatenation ==
    ASSUME NEW S, NEW a \in Seq(S), NEW b \in Seq(S)
    PROVE  a \o b \in Seq(S) /\ Len(a \o b) = Len(a) + Len(b)
  OBVIOUS

\* An empty sequence is <<>>, and the only one.
LEMMA EmptySequence ==
    ASSUME NEW S, NEW s \in Seq(S)
    PROVE  s = <<>> <=> Len(s) = 0
  OBVIOUS

\* Removing the i-th element leaves a sequence one shorter.
LEMMA RemoveShortens ==
    ASSUME NEW S, NEW s \in Seq(S), NEW i \in 1..Len(s)
    PROVE  /\ RemoveAt(s, i) \in Seq(S)
           /\ Len(RemoveAt(s, i)) = Len(s) - 1
<1> DEFINE before == SubSeq(s, 1, i - 1)
           behind == SubSeq(s, i + 1, Len(s))
<1>1. Len(s) \in Nat /\ i \in Int
  OBVIOUS
<1>2. before \in Seq(S) /\ Len(before) = i - 1
  OBVIOUS
<1>3. behind \in Seq(S) /\ Len(behind) = Len(s) - i
  OBVIOUS
<1>4. RemoveAt(s, i) = before \o behind
  BY DEF RemoveAt
<1> HIDE DEF before, behind
<1>5. before \o behind \in Seq(S) /\ Len(before \o behind) = Len(before) + Len(behind)
  BY <1>2, <1>3, Concatenation
<1> QED
  BY <1>1, <1>2, <1>3, <1>4, <1>5

\* Removing the first of several keeps the last.
LEMMA RemoveFirstKeepsLast ==
    ASSUME NEW S, NEW s \in Seq(S), Len(s) > 1
    PROVE  RemoveAt(s, 1)[Len(s) - 1] = s[Len(s)]
<1>1. SubSeq(s, 1, 0) = <<>>
  OBVIOUS
<1>2. RemoveAt(s, 1) = <<>> \o SubSeq(s, 2, Len(s))
  BY <1>1 DEF RemoveAt
<1>3. SubSeq(s, 2, Len(s)) \in Seq(S) /\ Len(SubSeq(s, 2, Len(s))) = Len(s) - 1
  OBVIOUS
<1>4. RemoveAt(s, 1) = SubSeq(s, 2, Len(s))
  BY <1>2, <1>3
<1>5. SubSeq(s, 2, Len(s))[Len(s) - 1] = s[Len(s)]
  OBVIOUS
<1> QED
  BY <1>4, <1>5

\* Removing the only element empties a sequence; removing the first of several
\* does not.
LEMMA RemoveFirstEmpties ==
    ASSUME NEW S, NEW s \in Seq(S), Len(s) >= 1
    PROVE  RemoveAt(s, 1) = <<>> <=> Len(s) = 1
<1>1. Len(s) \in Nat /\ 1 \in 1..Len(s)
  OBVIOUS
<1>2. RemoveAt(s, 1) \in Seq(S) /\ Len(RemoveAt(s, 1)) = Len(s) - 1
  BY <1>1, RemoveShortens
<1>3. RemoveAt(s, 1) = <<>> <=> Len(RemoveAt(s, 1)) = 0
  BY <1>2, EmptySequence
<1> QED
  BY <1>1, <1>2, <1>3

\* Sending or not, hint_sent follows the last hint on its way.
LEMMA HintStep ==
    ASSUME IInv, NEW coming \in BOOLEAN, Hint(coming), UNCHANGED <<imminent, ended>>
    PROVE  /\ flying' \in Seq(BOOLEAN) /\ Len(flying') <= MaxFlying
           /\ ended => flying' = <<>>
           /\ hint_sent' \in BOOLEAN /\ unsent' \in 0..MaxUnsent
           /\ InOrder /\ ~ended => hint_sent' = LastHint'
<1>0. flying \in Seq(BOOLEAN) /\ Len(flying) <= MaxFlying /\ hint_sent \in BOOLEAN
      /\ unsent \in 0..MaxUnsent /\ MaxUnsent \in Nat /\ MaxFlying \in Nat
      /\ (InOrder /\ ~ended => hint_sent = LastHint) /\ (ended => flying = <<>>)
  BY PathAssumption DEF IInv, TypeOK
<1>1. CASE Send(coming) /\ ended
  BY <1>0, <1>1 DEF Send
<1>2. CASE Send(coming) /\ ~ended
  <2>1. /\ flying' = Append(flying, coming) /\ hint_sent' = coming
        /\ unsent' = unsent /\ Len(flying) < MaxFlying
    BY <1>2 DEF Send
  <2>2. LastHint' = coming
    BY <1>0, <2>1, AppendLast DEF LastHint
  <2> QED
    BY <1>0, <1>2, <2>1, <2>2, AppendLast
<1>3. CASE Unsendable /\ UNCHANGED hint_sent
  BY <1>0, <1>3 DEF Unsendable, LastHint
<1>4. CASE UNCHANGED <<flying, hint_sent, unsent>>
  BY <1>0, <1>4 DEF LastHint
<1> QED
  BY <1>1, <1>2, <1>3, <1>4 DEF Hint

\* The outlook is a truth value.
LEMMA ComingType == ASSUME NEW alive, NEW on PROVE OutageComing(alive, on) \in BOOLEAN
  BY DEF OutageComing

\* The invariant holds at the start and every action keeps it.
THEOREM Invariance == Spec => []IInv
<1>1. Init => IInv
  <2> SUFFICES ASSUME Init PROVE IInv
    OBVIOUS
  <2> USE PathAssumption DEF Quic
  <2>1. TypeOK
    <3>1. MaxChanges \in Nat /\ MaxUnsent \in Nat /\ MaxBroken \in Nat /\ MaxFlying \in Nat
      OBVIOUS
    <3>2. flying \in Seq(BOOLEAN) /\ Len(flying) <= MaxFlying
      BY <3>1 DEF Init
    <3>3. manager \in [pc : {"rest", "migrate"}, coming : BOOLEAN]
      BY DEF Init, Rest
    <3>4. age \in 0..DeadAfter /\ grace \in 0..DeadAfter
      BY DEF Init
    <3>5. changes \in 0..MaxChanges /\ unsent \in 0..MaxUnsent /\ broken \in 0..MaxBroken
      BY <3>1 DEF Init
    <3> QED
      BY <3>2, <3>3, <3>4, <3>5 DEF Init, TypeOK
  <2>2. path = active
    BY DEF Init
  <2>3. AgeWithinGrace
    BY DEF Init, AgeWithinGrace, Rest
  <2>4. hint_sent = LastHint
    BY DEF Init, LastHint
  <2> QED
    BY <2>1, <2>2, <2>3, <2>4 DEF IInv
<1>2. IInv /\ [Next]_vars => IInv'
  <2> SUFFICES ASSUME IInv, [Next]_vars PROVE IInv'
    OBVIOUS
  <2> USE PathAssumption DEF Quic
  <2>1. CASE Stay
    <3>1. OutageComing(Alive, active) \in BOOLEAN
      BY ComingType
    <3>2. Hint(OutageComing(Alive, active)) /\ UNCHANGED <<imminent, ended>>
      BY <2>1 DEF Stay
    <3> QED
      BY <2>1, <3>1, <3>2, HintStep DEF Stay, IInv, TypeOK, AgeWithinGrace, environment
  <2>2. CASE Switch
    <3>1. PICK to \in Alternatives(active) :
            /\ active' = to
            /\ path' = IF Quic THEN path ELSE to
            /\ manager' = [pc |-> "migrate", coming |-> OutageComing(TRUE, to)]
      BY <2>2 DEF Switch, Depart
    <3>2. OutageComing(TRUE, to) \in BOOLEAN
      BY ComingType
    <3>3. to \in Interfaces
      BY DEF Alternatives, IInv, TypeOK
    <3>4. /\ manager' \in [pc : {"rest", "migrate"}, coming : BOOLEAN]
          /\ manager'.pc = "migrate"
      BY <3>1, <3>2
    <3>5. /\ age' = 0 /\ ping' \in {ping, NotPinging}
          /\ UNCHANGED <<tunnel, environment, hinting, ended, broken, grace>>
      BY <2>2 DEF Switch, Depart
    <3>6. TypeOK'
      <4>1. UNCHANGED <<tunnel, healthy, warned, up, changes, hint_sent, flying, imminent, unsent,
                        ended, broken, grace>>
        BY <3>5 DEF environment, hinting
      <4>2. active' \in Interfaces /\ path' \in Interfaces
        BY <3>1, <3>3 DEF IInv, TypeOK
      <4>3. age' \in 0..DeadAfter
        BY <3>5
      <4>4. ping' \in Interfaces \cup {NotPinging}
        BY <3>5 DEF IInv, TypeOK
      <4>5. manager'.pc # "rest"
        BY <3>4
      <4> QED
        BY <3>4, <4>1, <4>2, <4>3, <4>4, <4>5 DEF IInv, TypeOK
    <3>7. ~Quic => path' = active'
      BY <3>1
    <3>8. AgeWithinGrace'
      BY <3>4, <3>5 DEF AgeWithinGrace
    <3>9. InOrder /\ ~ended' => hint_sent' = LastHint'
      BY <3>5 DEF IInv, LastHint, hinting
    <3> QED
      BY <3>5, <3>6, <3>7, <3>8, <3>9 DEF IInv
  <2>3. CASE Migrated
    <3>1. manager.coming \in BOOLEAN /\ Hint(manager.coming) /\ UNCHANGED <<imminent, ended>>
      BY <2>3 DEF Migrated, Resume, IInv, TypeOK
    <3> QED
      BY <2>3, <3>1, HintStep
      DEF Migrated, Resume, Rest, IInv, TypeOK, AgeWithinGrace, environment
  <2>4. CASE MigrationFailed
    <3>1. manager.coming \in BOOLEAN /\ Hint(manager.coming) /\ UNCHANGED <<imminent, ended>>
      BY <2>4 DEF MigrationFailed, Resume, IInv, TypeOK
    <3> QED
      BY <2>4, <3>1, HintStep
      DEF MigrationFailed, Resume, Rest, IInv, TypeOK, AgeWithinGrace, environment
  <2>5. CASE PingSent
    BY <2>5 DEF PingSent, IInv, TypeOK, AgeWithinGrace, LastHint, environment, hinting
  <2>6. CASE Pong
    BY <2>6 DEF Pong, IInv, TypeOK, AgeWithinGrace, LastHint, environment, hinting
  <2>7. CASE PingTimedOut
    BY <2>7 DEF PingTimedOut, IInv, TypeOK, AgeWithinGrace, LastHint, environment, hinting
  <2>8. CASE HintArrives
    <3>1. PICK i \in 1..Len(flying) :
            /\ InOrder => i = 1
            /\ imminent' = flying[i]
            /\ flying' = RemoveAt(flying, i)
      BY <2>8 DEF HintArrives
    <3>2. flying \in Seq(BOOLEAN) /\ Len(flying) <= MaxFlying /\ Len(flying) \in Nat
      BY DEF IInv, TypeOK
    <3>3. flying' \in Seq(BOOLEAN) /\ Len(flying') = Len(flying) - 1
      BY <3>1, <3>2, RemoveShortens
    <3>4. ASSUME InOrder PROVE LastHint' = LastHint
      <4>1. i = 1 /\ flying # <<>> /\ Len(flying) >= 1
        BY <3>1, <3>2, <3>4, EmptySequence
      <4>2. flying' = <<>> <=> Len(flying) = 1
        BY <3>1, <3>2, <4>1, RemoveFirstEmpties
      <4>3. CASE Len(flying) = 1
        BY <3>1, <4>1, <4>2, <4>3 DEF LastHint
      <4>4. CASE Len(flying) # 1
        <5>0. Len(flying) \in Nat /\ Len(flying) >= 1
          BY <3>2, <4>1
        <5>1. Len(flying) > 1
          BY ONLY <5>0, <4>4
        <5>2. RemoveAt(flying, 1)[Len(flying) - 1] = flying[Len(flying)]
          BY <3>2, <5>1, RemoveFirstKeepsLast
        <5>3. flying'[Len(flying')] = flying[Len(flying)]
          BY <3>1, <3>3, <4>1, <5>2
        <5> QED
          BY <4>1, <4>2, <4>4, <5>3 DEF LastHint
      <4> QED
        BY <4>3, <4>4
    <3>5. imminent' \in BOOLEAN
      BY <3>1, <3>2
    <3>6. ~ended
      BY <2>8 DEF HintArrives, Answering
    <3> QED
      BY <2>8, <3>2, <3>3, <3>4, <3>5, <3>6 DEF HintArrives, IInv, TypeOK, AgeWithinGrace, environment
  <2>9. CASE Tick
    BY <2>9 DEF Tick, IInv, TypeOK, AgeWithinGrace, LastHint, environment, hinting
  <2>10. CASE EnvironmentChanges
    BY <2>10 DEF EnvironmentChanges, Surroundings, IInv, TypeOK, AgeWithinGrace, LastHint, hinting
  <2>11. CASE ConnectionEnds
    <3>1. <<>> \in Seq(BOOLEAN) /\ Len(<<>>) = 0 /\ MaxFlying \in Nat
      OBVIOUS
    <3> QED
      BY <2>11, <3>1 DEF ConnectionEnds, IInv, TypeOK, AgeWithinGrace, environment
  <2>12. CASE UNCHANGED vars
    BY <2>12 DEF vars, IInv, TypeOK, AgeWithinGrace, LastHint, environment, hinting
  <2> QED
    BY <2>1, <2>2, <2>3, <2>4, <2>5, <2>6, <2>7, <2>8, <2>9, <2>10, <2>11, <2>12
    DEF Next, Step, Pinger
<1> QED
  BY <1>1, <1>2, PTL DEF Spec

\* Types, and that the socket is where the manager believes it is unless a
\* migration is on its way or has failed.
THEOREM Typed == Spec => []TypeOK
<1>1. IInv => TypeOK
  BY DEF IInv
<1> QED
  BY <1>1, Invariance, PTL

\* With hints that arrive in order, and until the connection ends, a hint that cannot
\* be sent is never taken for one that was: the server's outlook is what hint_sent says.
THEOREM Agreed == InOrder => (Spec => []HintAgreed)
<1> SUFFICES ASSUME InOrder PROVE Spec => []HintAgreed
  OBVIOUS
<1>1. IInv => HintAgreed
  BY DEF IInv, HintAgreed, LastHint
<1> QED
  BY <1>1, Invariance, PTL

\* Over QUIC the tunnel leaves a path it was moved to only after DeadAfter of
\* silence: the time before the move does not count.
THEOREM GraceKept == Spec => FullGrace
<1>1. IInv /\ [Next]_vars => [active' # active /\ Quic => grace = DeadAfter]_vars
  <2> SUFFICES ASSUME IInv, Next, active' # active, Quic PROVE grace = DeadAfter
    BY DEF vars
  <2>1. Switch
    BY DEF Next, Step, Stay, Migrated, MigrationFailed, Resume, Pinger, PingSent, Pong,
           PingTimedOut, HintArrives, Tick, EnvironmentChanges, ConnectionEnds
  <2>2. manager.pc = "rest" /\ age >= DeadAfter
    BY <2>1, PathAssumption DEF Switch, Depart, Alive, IInv, TypeOK
  <2> QED
    BY <2>2, PathAssumption DEF IInv, TypeOK, AgeWithinGrace
<1> QED
  BY <1>1, Invariance, PTL DEF Spec, FullGrace
=============================================================================
