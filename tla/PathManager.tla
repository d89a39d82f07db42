----------------------------- MODULE PathManager -----------------------------
(***************************************************************************)
(* edgeproxy/client/path_manager.py together with the two things it        *)
(* steers: the tunnel's socket (transport.migrate) and the outlook the     *)
(* server keeps of this client (_on_hint in server/proxy.py).              *)
(*                                                                         *)
(* step() runs in a loop; the pinger is a coroutine of its own, and step() *)
(* awaits the migration and the hint.  time.monotonic() - last_pong is     *)
(* kept as an age that stops at DeadAfter, all that the code asks of it.   *)
(*                                                                         *)
(* The environment: at every sample an interface is healthy, warned about  *)
(* by its predictor, or neither (a weak signal without a warning); a link  *)
(* that is up answers pings in time, one that is down answers none.  A     *)
(* QUIC connection without a link may end at its idle timeout; nothing     *)
(* dials again where a path manager runs (experiments/client_run.py).      *)
(***************************************************************************)
EXTENDS Integers, Sequences, SequencesExt

CONSTANTS
    Interfaces,
    First,          \* the interface the tunnel starts on
    DeadAfter,      \* dead_after_s, in ticks
    Tunnels,        \* {"quic"}, {"tcp"} or both: what a run may use
    InOrder,        \* do hints arrive in the order they were sent?
    \* Bounds of the model: changes of the environment, hints that cannot be
    \* sent, migrations that fail, hints on their way.
    MaxChanges, MaxUnsent, MaxBroken, MaxFlying

ASSUME PathAssumption ==
    /\ First \in Interfaces
    /\ DeadAfter \in Nat \ {0}
    /\ Tunnels \subseteq {"quic", "tcp"}
    /\ InOrder \in BOOLEAN
    /\ {MaxChanges, MaxUnsent, MaxBroken, MaxFlying} \subseteq Nat

VARIABLES
    tunnel,                 \* QUIC migrates by binding a socket; TCP has to connect
    healthy, warned, up,    \* the environment
    ended,                  \* the QUIC connection has reached its idle timeout
    changes, unsent, broken,        \* how often each of these happened, for the bounds
    active,                 \* the interface the manager believes the tunnel uses
    path,                   \* the one its socket is bound to
    hint_sent,
    age,                    \* since last_pong
    manager,                \* "rest", or what step() will do after migrate()
    ping,                   \* "idle", or the path a ping was sent on
    flying,                 \* HANDOVER_HINT frames on their way, by their active field
    imminent,               \* the server: outlook.handover_imminent
    grace                   \* history: ticks since migrate() brought the tunnel here

environment == <<healthy, warned, up, changes>>
hinting == <<hint_sent, flying, imminent, unsent>>
vars == <<tunnel, environment, hinting, ended, broken, active, path, age, manager, ping, grace>>

Quic == tunnel = "quic"
SendHints == Quic       \* send_hints: configuration 5, which is over QUIC

Rest == [pc |-> "rest", coming |-> FALSE]
NotPinging == "idle"

\* _best_alternative: the healthiest other interface, by a level left out here.
Alternatives(on) == healthy \ {on}

OutageComing(alive, on) == (on \in warned \/ ~alive) /\ Alternatives(on) = {}

Alive == age < DeadAfter
-----------------------------------------------------------------------------
\* send_oneway writes the frame to a stream.  It raises nothing when the connection
\* has ended: the frame goes nowhere, and the hint counts as sent.
Send(coming) ==
    /\ \/ ended /\ UNCHANGED flying
       \/ ~ended /\ Len(flying) < MaxFlying /\ flying' = Append(flying, coming)
    /\ hint_sent' = coming
    /\ UNCHANGED unsent

Unsendable == unsent < MaxUnsent /\ unsent' = unsent + 1 /\ UNCHANGED flying

\* Mutant: the hint counts as sent whether or not it was.
HintAnyway(coming) ==
    IF SendHints /\ coming # hint_sent
    THEN Send(coming) \/ (Unsendable /\ hint_sent' = coming)
    ELSE UNCHANGED <<flying, hint_sent, unsent>>

\* Mutant: a hint that was sent is never cleared.
HintOnce(coming) ==
    IF SendHints /\ coming /\ ~hint_sent
    THEN Send(coming) \/ (Unsendable /\ UNCHANGED hint_sent)
    ELSE UNCHANGED <<flying, hint_sent, unsent>>

\* The end of step(): tell the server when the outlook has changed; if the frame
\* cannot be sent, hint_sent stays and the next tick tries again.
Hint(coming) ==
    IF SendHints /\ coming # hint_sent
    THEN Send(coming) \/ (Unsendable /\ UNCHANGED hint_sent)
    ELSE UNCHANGED <<flying, hint_sent, unsent>>

\* step() with a dead link and somewhere to go, up to the await of migrate().
\* The samples are not taken again before the hint.  TCP drops its connection,
\* and with it the ping, and uses the new address from here on.
Depart ==
    /\ manager.pc = "rest" /\ ~Alive
    /\ \E to \in Alternatives(active) :
         /\ active' = to
         /\ path' = IF Quic THEN path ELSE to
         /\ manager' = [pc |-> "migrate", coming |-> OutageComing(TRUE, to)]
    /\ ping' = IF Quic THEN ping ELSE NotPinging
    /\ UNCHANGED <<tunnel, environment, hinting, ended, broken, grace>>

\* Mutant: the new path is judged by the silence of the old one.
SwitchImpatient == Depart /\ UNCHANGED age

Switch == Depart /\ age' = 0

\* step() otherwise.
Stay ==
    /\ manager.pc = "rest"
    /\ Alive \/ Alternatives(active) = {}
    /\ Hint(OutageComing(Alive, active))
    /\ UNCHANGED <<tunnel, environment, imminent, ended, broken, active, path, age, manager, ping, grace>>

Resume ==
    /\ manager.pc = "migrate"
    /\ manager' = Rest
    /\ Hint(manager.coming)
    /\ UNCHANGED <<tunnel, environment, imminent, ended, active, age, ping>>

\* migrate() returns; a TCP connection needs a link that is up.
Migrated ==
    /\ Resume
    /\ Quic \/ active \in up
    /\ path' = active
    /\ grace' = 0
    /\ UNCHANGED broken

\* migrate() raises or takes 3 * dead_after_s, and step() goes on as if it had
\* not: a QUIC tunnel keeps the socket it had.
MigrationFailed ==
    /\ Resume
    /\ grace' = DeadAfter
    /\ UNCHANGED path
    /\ \/ ~Quic /\ active \notin up /\ UNCHANGED broken
       \/ Quic /\ broken < MaxBroken /\ broken' = broken + 1
-----------------------------------------------------------------------------
\* A link that is up carries a connection that has not ended.
Answering == path \in up /\ ~ended

\* The pinger: one ping at a time, each given dead_after_s.
PingSent ==
    /\ ping = NotPinging
    /\ ping' = path
    /\ UNCHANGED <<tunnel, environment, hinting, ended, broken, active, path, age, manager, grace>>

\* A ping sent on the old path is answered over either: QUIC sends it again.
Pong ==
    /\ {ping, path} \cap up # {} /\ ping # NotPinging /\ ~ended
    /\ age' = 0
    /\ ping' = NotPinging
    /\ UNCHANGED <<tunnel, environment, hinting, ended, broken, active, path, manager, grace>>

\* Mutant: a ping that is given up counts as a pong.
PingTimedOutAsPong ==
    /\ ping # NotPinging /\ ~Answering
    /\ age' = 0
    /\ ping' = NotPinging
    /\ UNCHANGED <<tunnel, environment, hinting, ended, broken, active, path, manager, grace>>

PingTimedOut ==
    /\ ping # NotPinging /\ ~Answering
    /\ ping' = NotPinging
    /\ UNCHANGED <<tunnel, environment, hinting, ended, broken, active, path, age, manager, grace>>

\* Every hint has a stream of its own: one that is sent again after a loss is
\* overtaken by those sent later.  It is sent again for as long as it takes to have
\* a link.  _on_hint takes it as the outlook.
HintArrives ==
    /\ Answering
    /\ \E i \in 1..Len(flying) :
         /\ InOrder => i = 1
         /\ imminent' = flying[i]
         /\ flying' = RemoveAt(flying, i)
    /\ UNCHANGED <<tunnel, environment, hint_sent, unsent, ended, broken, active, path, age, manager, ping, grace>>

\* Binding a socket takes no time; an answered link is heard in time.
Tick ==
    LET Older(n) == IF n < DeadAfter THEN n + 1 ELSE n
    IN  /\ Quic => manager.pc = "rest"
        /\ Answering => Older(age) < DeadAfter
        /\ age' = Older(age)
        /\ grace' = Older(grace)
        /\ UNCHANGED <<tunnel, environment, hinting, ended, broken, active, path, manager, ping>>

Surroundings ==
    /\ healthy' \in SUBSET Interfaces
    /\ warned' \in SUBSET (Interfaces \ healthy')
    /\ up' \in SUBSET Interfaces

EnvironmentChanges ==
    /\ changes < MaxChanges /\ changes' = changes + 1
    /\ Surroundings
    /\ UNCHANGED <<tunnel, hinting, ended, broken, active, path, age, manager, ping, grace>>

\* The connection is idle for too long: what is on its way is never sent again,
\* and the ping that waits gets an error.
ConnectionEnds ==
    /\ Quic /\ ~ended /\ path \notin up
    /\ ended' = TRUE
    /\ flying' = <<>>
    /\ ping' = NotPinging
    /\ UNCHANGED <<tunnel, environment, hint_sent, imminent, unsent, broken, active, path, age,
                   manager, grace>>
-----------------------------------------------------------------------------
Init ==
    /\ tunnel \in Tunnels
    /\ healthy = Interfaces /\ warned = {} /\ up = Interfaces
    /\ ended = FALSE
    /\ changes = 0 /\ unsent = 0 /\ broken = 0
    /\ active = First /\ path = First
    /\ hint_sent = FALSE /\ flying = <<>> /\ imminent = FALSE
    /\ age = 0 /\ grace = DeadAfter
    /\ manager = Rest /\ ping = NotPinging

Step == Stay \/ Switch \/ Migrated
Pinger == PingSent \/ Pong \/ PingTimedOut

Next ==
    \/ Step \/ MigrationFailed
    \/ Pinger
    \/ HintArrives
    \/ Tick
    \/ EnvironmentChanges
    \/ ConnectionEnds

Spec == Init /\ [][Next]_vars

\* Both loops go on, a migration ends, QUIC sends a hint again until it arrives for
\* as long as the connection has a link, and time passes.
FairSpec ==
    /\ Spec
    /\ WF_vars(Stay \/ Switch)
    /\ WF_vars(Migrated \/ MigrationFailed)
    /\ WF_vars(Pinger)
    /\ WF_vars(HintArrives)
    /\ WF_vars(Tick)
-----------------------------------------------------------------------------
TypeOK ==
    /\ tunnel \in Tunnels
    /\ healthy \subseteq Interfaces /\ up \subseteq Interfaces
    /\ warned \subseteq Interfaces \ healthy
    /\ ended \in BOOLEAN /\ (ended => flying = <<>>)
    /\ changes \in 0..MaxChanges /\ unsent \in 0..MaxUnsent /\ broken \in 0..MaxBroken
    /\ active \in Interfaces /\ path \in Interfaces
    /\ hint_sent \in BOOLEAN /\ imminent \in BOOLEAN
    /\ flying \in Seq(BOOLEAN) /\ Len(flying) <= MaxFlying
    /\ age \in 0..DeadAfter /\ grace \in 0..DeadAfter
    /\ manager \in [pc : {"rest", "migrate"}, coming : BOOLEAN]
    /\ ping \in Interfaces \cup {NotPinging}
    /\ broken = 0 /\ manager.pc = "rest" => path = active

\* Over QUIC a path the tunnel was moved to has DeadAfter to answer before the
\* tunnel moves on: "give the new path a full dead_after_s to answer" in
\* _switch.  (Over TCP the time it takes to connect comes off.)
FullGrace == [][active' # active /\ Quic => grace = DeadAfter]_vars

\* With no hint on its way, the server's outlook is the one the path manager
\* believes it has told it: "clear it once the outlook is good again".  A hint that
\* cannot be sent is tried again; one written to a connection that has ended is
\* taken for sent, the case exempted here.
HintAgreed == flying = <<>> /\ ~ended => imminent = hint_sent

\* "If none has been answered for dead_after_s, the link is treated as dead and
\* the tunnel moves to the healthiest other interface": when from some time on
\* some interface is healthy and every healthy one is up, the tunnel ends on one
\* that is up and stays there.
MovesAway ==
    <>[](healthy # {} /\ healthy \subseteq up) => <>[](path \in up)

\* The same as long as no socket failed to be bound; a TCP connection may fail.
MovesAwayUnlessBroken ==
    <>[](healthy # {} /\ healthy \subseteq up) => <>[](path \in up \/ broken > 0)

\* When hints arrive in the order they were sent, and the tunnel has a link for good
\* from some time on and its connection has not ended by then, the server ends with
\* the outlook the client has: prefetching does not stay in the mode for an outage
\* when the outage is over, and does not miss one that is coming.  (Out of order it
\* may stay wrong: see HintAgreed without InOrder.)
OutlookSettles ==
    InOrder /\ <>[]Answering => <>[](SendHints => imminent = OutageComing(Alive, active))
=============================================================================
