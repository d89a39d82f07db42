--------------------------- MODULE FiguresProofs ---------------------------
(***************************************************************************)
(* What holds of the figures of a client run, for any scenario and         *)
(* snapshot, and of the predictor's report, for any traces: what is said   *)
(* of a view is read from its log as it was lived, every warning is        *)
(* counted once, and a warning is held while the power stays low.          *)
(***************************************************************************)
EXTENDS MCPrograms, FiniteSetTheorems, SequenceTheorems, WellFoundedInduction, TLAPS

\* A set of numbers that has one has a least one.
LEMMA LeastOf ==
    ASSUME NEW T \in SUBSET Nat, T # {}
    PROVE  \E n \in T : \A m \in T : n <= m
<1> DEFINE R == OpToRel(<, Nat)
<1>1. IsWellFoundedOn(R, Nat)
  BY NatLessThanWellFounded
<1>2. \A m, n \in Nat : <<m, n>> \in R <=> m < n
  BY DEF OpToRel
<1> HIDE DEF R
<1>3. PICK n \in T : \A m \in T : ~ (<<m, n>> \in R)
  BY <1>1, WFMin
<1>4. \A m \in T : ~ (m < n)
  BY <1>2, <1>3
<1>5. n \in Nat /\ \A m \in T : m \in Nat
  OBVIOUS
<1>6. \A m \in T : n <= m
  BY <1>4, <1>5
<1>7. QED
  BY <1>6

\* ... and a greatest one when it is bounded.
LEMMA GreatestOf ==
    ASSUME NEW T \in SUBSET Nat, T # {}, NEW N \in Nat, \A n \in T : n <= N
    PROVE  \E n \in T : \A m \in T : m <= n
<1> DEFINE U == {N - n : n \in T}
<1>1. U \in SUBSET Nat /\ U # {}
  <2>1. \A n \in T : N - n \in Nat
    OBVIOUS
  <2>2. QED
    BY <2>1
<1>2. PICK u \in U : \A v \in U : u <= v
  BY <1>1, LeastOf
<1>3. PICK n \in T : u = N - n
  BY <1>2
<1>4. ASSUME NEW m \in T PROVE m <= n
  <2>1. N - n <= N - m
    BY <1>2, <1>3
  <2>2. m \in Nat /\ n \in Nat
    BY <1>3
  <2>3. QED
    BY <2>1, <2>2
<1>5. QED
  BY <1>4

-----------------------------------------------------------------------------
(* The run of one client. *)

\* What Max and Min choose.
LEMMA RunMax ==
    ASSUME NEW T \in SUBSET Nat, T # {}, NEW N \in Nat, \A n \in T : n <= N
    PROVE  ClientRun!Max(T) \in T /\ \A n \in T : n <= ClientRun!Max(T)
<1>1. \E n \in T : \A m \in T : n >= m
  <2>1. PICK n \in T : \A m \in T : m <= n
    BY GreatestOf
  <2>2. QED
    BY <2>1
<1>2. QED
  BY <1>1 DEF ClientRun!Max

\* The least one, of a set that has one.
LEMMA RunMin ==
    ASSUME NEW T \in SUBSET Nat, T # {}
    PROVE  ClientRun!Min(T) \in T /\ \A n \in T : ClientRun!Min(T) <= n
<1>1. \E n \in T : \A m \in T : n <= m
  BY LeastOf
<1>2. QED
  BY <1>1 DEF ClientRun!Min

\* What a log is made of.
Logged ==
    [event : {"netem"}, t : Nat, profile : STRING]
        \cup [event : {"click"}, i : Nat, t : Nat]
        \cup [event : {"view"}, i : Nat, wait : Nat, source : Sources]
        \cup [event : {"run_end"}, t : Nat]

ClicksOf(i) == {c \in ClientRun!Events("click") : c.i = i}
ViewsOf(i) == {v \in ClientRun!Events("view") : v.i = i}

\* The page asked for and not seen yet.
Awaited(i) == i = r_reader.page /\ r_reader.at = "waiting"

RunTyped ==
    /\ r_now \in Nat /\ r_over \in BOOLEAN
    /\ r_scenario \subseteq Scenarios /\ \A s, o \in r_scenario : s = o
    /\ r_applied \in Nat /\ \A s \in r_scenario : r_applied <= Len(s.events)
    /\ r_reader \in [at : {"free", "waiting", "reading"}, page : 0..Len(Dwell), until : Nat]
    /\ r_reader.at = "free" \/ r_reader.page # 0
    /\ r_waited \in Seq(Nat) /\ Len(r_waited) = r_reader.page
    /\ r_log \in Seq(Logged)

\* Nothing happens before the run begins.
NotBegun ==
    r_scenario = {} =>
        /\ r_now = 0 /\ r_applied = 0 /\ r_log = <<>> /\ r_inforce = <<>> /\ ~r_over
        /\ r_reader.page = 0 /\ r_reader.at = "free" /\ r_blackout = {} /\ r_shown = {}

\* The log has a click for each page.
ClicksLogged ==
    /\ \A c \in ClientRun!Events("click") : c.i \in 1..r_reader.page /\ c.t <= r_now
    /\ \A i \in 1..r_reader.page : \E c \in ClientRun!Events("click") :
         ClicksOf(i) = {c} /\ (Awaited(i) => c.t + r_waited[i] = r_now)

\* ... and a view for each page that came, with the seconds it took.
ViewsLogged ==
    /\ \A v \in ClientRun!Events("view") : v.i \in 1..r_reader.page /\ ~Awaited(v.i)
    /\ \A i \in 1..r_reader.page :
         ~Awaited(i) => \E v \in ClientRun!Events("view") :
                           /\ ViewsOf(i) = {v} /\ v.wait = r_waited[i]
                           /\ (v.source # "error" <=> i \in r_shown)
    /\ r_shown \subseteq 1..r_reader.page /\ \A i \in r_shown : ~Awaited(i)

EndLogged ==
    ClientRun!Events("run_end") = IF r_over THEN {[event |-> "run_end", t |-> r_now]} ELSE {}

\* The events applied are logged; they and no others were due.
NetemLogged ==
    \A s \in r_scenario :
        /\ ClientRun!Events("netem") =
              {[event |-> "netem", t |-> s.events[k].t, profile |-> s.events[k].profile] : k \in 1..r_applied}
        /\ \A k \in 1..r_applied : s.events[k].t <= r_now
        /\ \A k \in (r_applied + 1)..Len(s.events) : r_now <= s.events[k].t
        /\ r_links = ClientRun!LinksAfter(s, r_applied)

\* The links a scenario can make.
LinksMade == UNION {{ClientRun!LinksAfter(s, n) : n \in 0..Len(s.events)} : s \in Scenarios}

\* Second by second the links were those the scenario's events up to then make.
LinksInForce ==
    \A s \in r_scenario :
        /\ r_inforce \in Seq(LinksMade) /\ Len(r_inforce) = r_now
        /\ \A k \in 1..r_now : \E n \in 0..Len(s.events) :
             /\ r_inforce[k] = ClientRun!LinksAfter(s, n)
             /\ \A j \in 1..n : s.events[j].t <= k - 1
             /\ \A j \in (n + 1)..Len(s.events) : k - 1 < s.events[j].t

Dark(s, n) == \A l \in DOMAIN s.initial : ClientRun!LinksAfter(s, n)[l] = "dead"

\* A page clicked in the dark was, after the events up to then.
InTheDark ==
    \A s \in r_scenario : \A i \in r_blackout :
        \E c \in ClientRun!Events("click") : \E n \in 0..r_applied :
            /\ c.i = i /\ Dark(s, n)
            /\ \A k \in 1..n : s.events[k].t <= c.t
            /\ \A k \in (n + 1)..Len(s.events) : c.t <= s.events[k].t

RunInv ==
    /\ RunTyped /\ NotBegun /\ ClicksLogged /\ ViewsLogged /\ EndLogged /\ NetemLogged
    /\ LinksInForce /\ InTheDark

\* What appending gives.
LEMMA AppendIs ==
    ASSUME NEW E, NEW s \in Seq(E), NEW e \in E
    PROVE  /\ Append(s, e) \in Seq(E) /\ Len(s) \in Nat /\ Len(Append(s, e)) = Len(s) + 1
           /\ Append(s, e)[Len(s) + 1] = e /\ \A i \in 1..Len(s) : Append(s, e)[i] = s[i]
OBVIOUS

\* One more entry in the log is one more event of its kind.
LEMMA LogGrows ==
    ASSUME r_log \in Seq(Logged), NEW e \in Logged, ClientRun!Emit(e)
    PROVE  /\ r_log' \in Seq(Logged)
           /\ \A kind : ClientRun!Events(kind)' =
                 ClientRun!Events(kind) \cup (IF e.event = kind THEN {e} ELSE {})
<1>1. r_log' = Append(r_log, e)
  BY DEF ClientRun!Emit
<1>2. r_log' \in Seq(Logged) /\ DOMAIN r_log = 1..Len(r_log) /\ DOMAIN r_log' = 1..(Len(r_log) + 1)
  <2>1. DOMAIN r_log = 1..Len(r_log) /\ DOMAIN r_log' = 1..Len(r_log') /\ r_log' \in Seq(Logged)
    BY <1>1, AppendIs
  <2>2. Len(r_log') = Len(r_log) + 1
    BY <1>1, AppendIs
  <2>3. QED
    BY <2>1, <2>2
<1>3. /\ Len(r_log) \in Nat /\ r_log'[Len(r_log) + 1] = e
      /\ \A i \in 1..Len(r_log) : r_log'[i] = r_log[i]
  BY <1>1, AppendIs
<1>4. \A x : x \in ClientRun!ToSet(r_log') <=> x \in ClientRun!ToSet(r_log) \/ x = e
  BY <1>2, <1>3 DEF ClientRun!ToSet
<1>5. QED
  BY <1>2, <1>4 DEF ClientRun!Events

\* What is in the log has the fields of its kind.
LEMMA LogTypes ==
    ASSUME r_log \in Seq(Logged)
    PROVE  /\ \A c \in ClientRun!Events("click") : c.i \in Nat /\ c.t \in Nat
           /\ \A v \in ClientRun!Events("view") : v.i \in Nat /\ v.wait \in Nat /\ v.source \in Sources
<1>1. \A x \in ClientRun!ToSet(r_log) : x \in Logged
  BY DEF ClientRun!ToSet
<1>2. QED
  BY <1>1 DEF ClientRun!Events, Logged

\* The events of a scenario.
LEMMA ScenarioTypes ==
    ASSUME NEW s \in Scenarios
    PROVE  /\ Len(s.events) \in Nat
           /\ \A k \in 1..Len(s.events) :
                 /\ s.events[k].t \in Nat /\ s.events[k].iface \in DOMAIN s.initial
                 /\ s.events[k].profile \in STRING
           /\ \A j, k \in 1..Len(s.events) : j <= k => s.events[j].t <= s.events[k].t
<1>1. /\ s.events \in Seq([t : Nat, iface : DOMAIN s.initial, profile : STRING])
      /\ \A j, k \in DOMAIN s.events : j <= k => s.events[j].t <= s.events[k].t
  BY RunAssumption
<1>2. DOMAIN s.events = 1..Len(s.events) /\ Len(s.events) \in Nat
  BY <1>1
<1>3. ASSUME NEW k \in 1..Len(s.events)
      PROVE  /\ s.events[k].t \in Nat /\ s.events[k].iface \in DOMAIN s.initial
             /\ s.events[k].profile \in STRING
  <2>1. s.events[k] \in [t : Nat, iface : DOMAIN s.initial, profile : STRING]
    BY <1>1, ElementOfSeq
  <2>2. QED
    BY <2>1
<1>4. QED
  BY <1>1, <1>2, <1>3

\* The links before any event, and after one more.
LEMMA LinksAtFirst == ASSUME NEW s \in Scenarios PROVE ClientRun!LinksAfter(s, 0) = s.initial
<1>1. s.initial = [l \in DOMAIN s.initial |-> s.initial[l]]
  BY RunAssumption
<1>2. \A l : {k \in 1..0 : s.events[k].iface = l} = {}
  OBVIOUS
<1>3. QED
  BY <1>1, <1>2 DEF ClientRun!LinksAfter

\* A change more: those before it stay in place.
LEMMA OneMoreChange ==
    ASSUME NEW s \in Scenarios, NEW n \in 0..(Len(s.events) - 1)
    PROVE  ClientRun!LinksAfter(s, n + 1) =
              ClientRun!Changed(ClientRun!LinksAfter(s, n), s.events[n + 1])
<1> DEFINE C(m, l) == {k \in 1..m : s.events[k].iface = l}
<1> DEFINE i == s.events[n + 1].iface
<1>1. n \in Nat /\ i \in DOMAIN s.initial
  <2>1. n \in Nat /\ n + 1 \in 1..Len(s.events)
    BY ScenarioTypes
  <2>2. \A k \in 1..Len(s.events) : s.events[k].iface \in DOMAIN s.initial
    BY ScenarioTypes
  <2>3. QED
    BY <2>1, <2>2
<1>2. \A l : l # i => C(n + 1, l) = C(n, l)
  BY <1>1
<1>3. n + 1 \in C(n + 1, i) /\ C(n + 1, i) \in SUBSET Nat /\ \A k \in C(n + 1, i) : k <= n + 1
  BY <1>1
<1>4. ClientRun!Max(C(n + 1, i)) = n + 1
  <2> DEFINE T == C(n + 1, i)
  <2>1. T \in SUBSET Nat /\ T # {} /\ n + 1 \in T /\ \A k \in T : k <= n + 1
    BY <1>3
  <2> HIDE DEF T
  <2>2. ClientRun!Max(T) \in T /\ \A k \in T : k <= ClientRun!Max(T)
    BY <1>1, <2>1, RunMax
  <2>3. ClientRun!Max(T) <= n + 1 /\ n + 1 <= ClientRun!Max(T) /\ ClientRun!Max(T) \in Nat
    BY <2>1, <2>2
  <2>4. QED
    BY <1>1, <2>3 DEF T
<1> DEFINE at(m, l) == IF C(m, l) = {} THEN s.initial[l] ELSE s.events[ClientRun!Max(C(m, l))].profile
<1> DEFINE before == ClientRun!LinksAfter(s, n)
<1> DEFINE after == ClientRun!LinksAfter(s, n + 1)
<1>5. /\ before = [l \in DOMAIN s.initial |-> at(n, l)]
      /\ after = [l \in DOMAIN s.initial |-> at(n + 1, l)]
  BY DEF ClientRun!LinksAfter
<1>6. C(n + 1, i) # {}
  BY <1>3
<1>7. at(n + 1, i) = s.events[n + 1].profile
  BY <1>4, <1>6
<1>8. \A l : l # i => at(n + 1, l) = at(n, l)
  BY <1>2
<1> HIDE DEF at, i, before, after
<1>9. after = [before EXCEPT ![i] = s.events[n + 1].profile]
  BY <1>1, <1>5, <1>7, <1>8
<1>10. QED
  BY <1>9 DEF i, before, after, ClientRun!Changed

\* RunInv is inductive: the beginning, and one lemma per action.
LEMMA RunBegins == ClientRun!Init => RunInv
<1> SUFFICES ASSUME ClientRun!Init PROVE RunInv
  OBVIOUS
<1>1. RunTyped
  <2>1. 0 \in 0..Len(Dwell)
    BY RunAssumption
  <2>2. <<>> \in Seq(Nat) /\ <<>> \in Seq(Logged) /\ Len(<<>>) = 0
    OBVIOUS
  <2>3. r_reader \in [at : {"free", "waiting", "reading"}, page : 0..Len(Dwell), until : Nat]
    BY <2>1 DEF ClientRun!Init
  <2>4. r_waited \in Seq(Nat) /\ Len(r_waited) = r_reader.page /\ r_log \in Seq(Logged)
    BY <2>2 DEF ClientRun!Init
  <2>5. QED
    BY <2>3, <2>4 DEF ClientRun!Init, RunTyped
<1>2. \A kind : ClientRun!Events(kind) = {}
  BY DEF ClientRun!Init, ClientRun!Events, ClientRun!ToSet
<1>3. QED
  BY <1>1, <1>2 DEF ClientRun!Init, RunInv, NotBegun, ClicksLogged, ViewsLogged, EndLogged, NetemLogged,
     LinksInForce, InTheDark

\* While a run goes on it follows one scenario.
LEMMA Following ==
    ASSUME RunInv, r_scenario # {}
    PROVE  \E s \in Scenarios :
             /\ r_scenario = {s} /\ r_applied \in 0..Len(s.events) /\ Len(s.events) \in Nat
             /\ r_links = ClientRun!LinksAfter(s, r_applied) /\ DOMAIN r_links = DOMAIN s.initial
<1>1. PICK s \in r_scenario : TRUE
  OBVIOUS
<1>2. s \in Scenarios /\ r_scenario = {s}
  BY <1>1 DEF RunInv, RunTyped
<1>3. Len(s.events) \in Nat
  BY <1>2, ScenarioTypes
<1>4. r_applied \in 0..Len(s.events) /\ r_links = ClientRun!LinksAfter(s, r_applied)
  BY <1>1, <1>3 DEF RunInv, RunTyped, NetemLogged
<1>5. DOMAIN ClientRun!LinksAfter(s, r_applied) = DOMAIN s.initial
  BY DEF ClientRun!LinksAfter
<1>6. QED
  BY <1>2, <1>3, <1>4, <1>5

\* A step that leaves the log and the reader alone.
LEMMA ReaderKept ==
    ASSUME RunInv, r_log' = r_log, r_now' = r_now, UNCHANGED <<r_reader, r_over, r_waited, r_shown>>
    PROVE  ClicksLogged' /\ ViewsLogged' /\ EndLogged'
<1>1. \A kind : ClientRun!Events(kind)' = ClientRun!Events(kind)
  BY DEF ClientRun!Events
<1>2. QED
  BY <1>1 DEF RunInv, ClicksLogged, ViewsLogged, EndLogged, ClicksOf, ViewsOf, Awaited

\* start: the run begins at the scenario's links.
LEMMA BeginRunKeeps == ASSUME RunInv, ClientRun!Begin PROVE RunInv'
<1> USE DEF ClientRun!Begin
<1>1. PICK s \in Scenarios : r_scenario' = {s} /\ r_links' = s.initial
  OBVIOUS
<1>2. /\ r_now = 0 /\ r_applied = 0 /\ r_log = <<>> /\ r_inforce = <<>> /\ r_blackout = {}
  BY DEF RunInv, NotBegun
<1>3. Len(s.events) \in Nat /\ \A k \in 1..Len(s.events) : s.events[k].t \in Nat
  BY ScenarioTypes
<1>4. RunTyped'
  BY <1>1, <1>2, <1>3 DEF RunInv, RunTyped
<1>5. NotBegun' /\ InTheDark'
  BY <1>1, <1>2 DEF NotBegun, InTheDark
<1>6. ClicksLogged' /\ ViewsLogged' /\ EndLogged'
  BY ReaderKept
<1>7. NetemLogged'
  <2>1. ClientRun!Events("netem")' = {}
    BY <1>2 DEF ClientRun!Events, ClientRun!ToSet
  <2>2. {[event |-> "netem", t |-> s.events[k].t, profile |-> s.events[k].profile] : k \in 1..0} = {}
    OBVIOUS
  <2>3. s.initial = ClientRun!LinksAfter(s, 0)
    BY LinksAtFirst
  <2>4. r_applied' = 0 /\ r_now' = 0 /\ r_links' = ClientRun!LinksAfter(s, 0)
    BY <1>1, <1>2, <2>3
  <2>5. \A k \in 1..0 : FALSE
    OBVIOUS
  <2>6. \A k \in (0 + 1)..Len(s.events) : 0 <= s.events[k].t
    BY <1>3
  <2>7. QED
    BY <1>1, <2>1, <2>2, <2>4, <2>5, <2>6 DEF NetemLogged
<1>8. LinksInForce'
  <2>1. r_inforce' = <<>> /\ r_now' = 0
    BY <1>2
  <2>2. QED
    BY <2>1 DEF LinksInForce
<1>9. QED
  BY <1>4, <1>5, <1>6, <1>7, <1>8 DEF RunInv

\* The conductor applies the event that is due.
LEMMA ApplyProfileKeeps == ASSUME RunInv, ClientRun!ApplyProfile PROVE RunInv'
<1> USE DEF ClientRun!ApplyProfile
<1>1. PICK s \in Scenarios :
         /\ r_scenario = {s} /\ r_applied \in 0..Len(s.events) /\ Len(s.events) \in Nat
         /\ r_links = ClientRun!LinksAfter(s, r_applied) /\ DOMAIN r_links = DOMAIN s.initial
  BY Following DEF ClientRun!Running
<1> DEFINE e == s.events[r_applied + 1]
<1> DEFINE entry == [event |-> "netem", t |-> e.t, profile |-> e.profile]
<1>2. /\ r_applied + 1 \in 1..Len(s.events) /\ e.t <= r_now /\ r_links' = ClientRun!Changed(r_links, e)
      /\ ClientRun!Emit(entry)
  BY <1>1 DEF ClientRun!Ahead
<1>3. entry \in Logged /\ entry.event = "netem"
  BY <1>2, ScenarioTypes DEF Logged
<1>4. /\ r_log' \in Seq(Logged)
      /\ \A kind : ClientRun!Events(kind)' = ClientRun!Events(kind) \cup (IF "netem" = kind THEN {entry} ELSE {})
  <2> HIDE DEF entry
  <2>1. QED
    BY <1>2, <1>3, LogGrows DEF RunInv, RunTyped
<1>5. RunTyped'
  BY <1>1, <1>2, <1>4 DEF RunInv, RunTyped
<1>6. NotBegun'
  BY <1>1 DEF NotBegun
<1>7. /\ ClientRun!Events("netem")' = ClientRun!Events("netem") \cup {entry}
      /\ ClientRun!Events("click")' = ClientRun!Events("click")
      /\ ClientRun!Events("view")' = ClientRun!Events("view")
      /\ ClientRun!Events("run_end")' = ClientRun!Events("run_end")
  BY <1>4
<1>8. ClicksLogged' /\ ViewsLogged' /\ EndLogged'
  BY <1>7 DEF RunInv, ClicksLogged, ViewsLogged, EndLogged, ClicksOf, ViewsOf, Awaited
<1>9. NetemLogged'
  <2> DEFINE of(k) == [event |-> "netem", t |-> s.events[k].t, profile |-> s.events[k].profile]
  <2>1. /\ ClientRun!Events("netem") = {of(k) : k \in 1..r_applied}
        /\ \A k \in 1..r_applied : s.events[k].t <= r_now
        /\ \A k \in (r_applied + 1)..Len(s.events) : r_now <= s.events[k].t
    BY <1>1 DEF RunInv, NetemLogged
  <2>2. entry = of(r_applied + 1)
    OBVIOUS
  <2>3. 1..(r_applied + 1) = (1..r_applied) \cup {r_applied + 1}
    BY <1>1
  <2> HIDE DEF of, entry
  <2>4. ClientRun!Events("netem")' = {of(k) : k \in 1..(r_applied + 1)}
    BY <1>7, <2>1, <2>2, <2>3
  <2>5. \A k \in 1..(r_applied + 1) : s.events[k].t <= r_now
    BY <1>2, <2>1, <2>3
  <2>6. \A k \in (r_applied + 2)..Len(s.events) : r_now <= s.events[k].t
    BY <1>1, <2>1
  <2>7. r_links' = ClientRun!LinksAfter(s, r_applied + 1)
    BY <1>1, <1>2, OneMoreChange
  <2>8. (r_applied + 1) + 1 = r_applied + 2
    BY <1>1
  <2>9. QED
    BY <1>1, <2>4, <2>5, <2>6, <2>7, <2>8 DEF NetemLogged, of
<1>10. LinksInForce'
  BY DEF RunInv, LinksInForce
<1>11. InTheDark'
  <2>1. \A n \in 0..r_applied : n \in 0..r_applied'
    BY <1>1
  <2>2. QED
    BY <1>7, <2>1 DEF RunInv, InTheDark
<1>12. QED
  BY <1>5, <1>6, <1>8, <1>9, <1>10, <1>11 DEF RunInv

\* A step that leaves the clock alone.
LEMMA InForceKept ==
    ASSUME LinksInForce, UNCHANGED <<r_scenario, r_now, r_inforce>> PROVE LinksInForce'
<1>1. ASSUME NEW s \in r_scenario
      PROVE  /\ r_inforce \in Seq(LinksMade) /\ Len(r_inforce) = r_now
             /\ \A k \in 1..r_now : \E n \in 0..Len(s.events) :
                   /\ r_inforce[k] = ClientRun!LinksAfter(s, n)
                   /\ \A j \in 1..n : s.events[j].t <= k - 1
                   /\ \A j \in (n + 1)..Len(s.events) : k - 1 < s.events[j].t
  BY DEF LinksInForce
<1>2. QED
  BY <1>1 DEF LinksInForce

\* A step that changes neither the links nor the clock.
LEMMA ScheduleKept ==
    ASSUME NetemLogged, UNCHANGED <<r_scenario, r_now, r_applied, r_links>>,
           ClientRun!Events("netem")' = ClientRun!Events("netem")
    PROVE  NetemLogged'
<1> DEFINE of(s, n) ==
        {[event |-> "netem", t |-> s.events[k].t, profile |-> s.events[k].profile] : k \in 1..n}
<1>1. \A s \in r_scenario : ClientRun!Events("netem") = of(s, r_applied)
  BY DEF NetemLogged
<1>2. \A s \in r_scenario' : ClientRun!Events("netem")' = of(s, r_applied')
  BY <1>1
<1> HIDE DEF of
<1>3. \A s \in r_scenario' :
         /\ \A k \in 1..r_applied' : s.events[k].t <= r_now'
         /\ \A k \in (r_applied' + 1)..Len(s.events) : r_now' <= s.events[k].t
         /\ r_links' = ClientRun!LinksAfter(s, r_applied')
  BY DEF NetemLogged
<1>4. QED
  BY <1>2, <1>3 DEF NetemLogged, of

\* The reader clicks, or has nothing to click.
LEMMA ClickKeeps == ASSUME RunInv, ClientRun!Click PROVE RunInv'
<1> USE DEF ClientRun!Click
<1>1. PICK s \in Scenarios :
         /\ r_scenario = {s} /\ r_applied \in 0..Len(s.events) /\ Len(s.events) \in Nat
         /\ r_links = ClientRun!LinksAfter(s, r_applied) /\ DOMAIN r_links = DOMAIN s.initial
  BY Following DEF ClientRun!Running
<1>2. PICK i : i = r_reader.page + 1
  OBVIOUS
<1> DEFINE entry == [event |-> "click", i |-> i, t |-> r_now]
<1>3. /\ r_reader.at = "free" /\ r_reader.page \in Nat /\ r_reader.page < Len(Dwell) /\ r_now \in Nat
      /\ Len(Dwell) \in Nat /\ i \in 1..Len(Dwell)
  BY <1>2, RunAssumption DEF RunInv, RunTyped
<1>4. entry \in Logged /\ entry.event = "click" /\ entry.i = i /\ entry.t = r_now
  BY <1>3 DEF Logged
<1>5. /\ r_reader' = [at |-> "waiting", page |-> i, until |-> 0] /\ ClientRun!Emit(entry)
      /\ r_waited' = Append(r_waited, 0)
      /\ r_blackout' = IF \A l \in DOMAIN r_links : r_links[l] = "dead"
                       THEN r_blackout \union {i} ELSE r_blackout
  BY <1>2
<1> HIDE DEF ClientRun!Click
<1>6. UNCHANGED <<r_scenario, r_now, r_applied, r_links, r_over, r_shown, r_inforce>> /\ ~r_over
  BY DEF ClientRun!Click, ClientRun!Running
<1> HIDE DEF entry
<1>7. /\ r_log' \in Seq(Logged)
      /\ \A kind : ClientRun!Events(kind)' = ClientRun!Events(kind) \cup (IF "click" = kind THEN {entry} ELSE {})
  BY <1>4, <1>5, LogGrows DEF RunInv, RunTyped
<1>8. /\ ClientRun!Events("click")' = ClientRun!Events("click") \cup {entry}
      /\ ClientRun!Events("netem")' = ClientRun!Events("netem")
      /\ ClientRun!Events("view")' = ClientRun!Events("view")
      /\ ClientRun!Events("run_end")' = ClientRun!Events("run_end")
  BY <1>7
<1>9. /\ r_waited' \in Seq(Nat) /\ Len(r_waited') = i /\ r_waited'[i] = 0
      /\ \A k \in 1..r_reader.page : r_waited'[k] = r_waited[k]
  <2>1. r_waited \in Seq(Nat) /\ 0 \in Nat /\ Len(r_waited) = r_reader.page
    BY DEF RunInv, RunTyped
  <2>2. QED
    BY <1>2, <1>5, <2>1, AppendIs
<1>10. RunTyped'
  <2>1. r_reader' \in [at : {"free", "waiting", "reading"}, page : 0..Len(Dwell), until : Nat]
    BY <1>3, <1>5
  <2>2. QED
    BY <1>5, <1>6, <1>7, <1>9, <2>1 DEF RunInv, RunTyped
<1>11. NotBegun'
  BY <1>1, <1>6 DEF NotBegun
<1>12. /\ \A k \in 1..r_reader'.page : k = i \/ k \in 1..r_reader.page
       /\ \A k \in 1..r_reader.page : k \in 1..r_reader'.page /\ k # i
       /\ r_reader'.page = i /\ i \in 1..i /\ r_reader'.at = "waiting"
  BY <1>2, <1>3, <1>5
<1>13. \A k : Awaited(k)' <=> k = i
  BY <1>12 DEF Awaited
<1>14. \A k : ~ Awaited(k)
  BY <1>3 DEF Awaited
<1>15. ClicksLogged'
  <2>1. /\ \A c \in ClientRun!Events("click") : c.i \in 1..r_reader.page /\ c.t <= r_now
        /\ \A k \in 1..r_reader.page : \E c \in ClientRun!Events("click") : ClicksOf(k) = {c}
    BY DEF RunInv, ClicksLogged
  <2>8. \A c \in ClientRun!Events("click") : c.i # i
    BY <1>12, <2>1
  <2>2. ClicksOf(i)' = {entry}
    <3>1. ClicksOf(i)' = {c \in ClientRun!Events("click") \cup {entry} : c.i = i}
      BY <1>8 DEF ClicksOf
    <3>2. QED
      BY <1>4, <2>8, <3>1
  <2>3. \A k \in 1..r_reader.page : ClicksOf(k)' = ClicksOf(k)
    BY <1>4, <1>8, <1>12 DEF ClicksOf
  <2>4. \A c \in ClientRun!Events("click")' : c.i \in 1..r_reader'.page /\ c.t <= r_now'
    BY <1>3, <1>4, <1>6, <1>8, <1>12, <2>1
  <2>5. entry \in ClientRun!Events("click")' /\ entry.t + r_waited'[i] = r_now'
    BY <1>3, <1>4, <1>6, <1>8, <1>9
  <2>6. ASSUME NEW k \in 1..r_reader'.page
        PROVE  \E c \in ClientRun!Events("click")' :
                  ClicksOf(k)' = {c} /\ (Awaited(k)' => c.t + r_waited'[k] = r_now')
    <3>1. CASE k = i
      <4>1. ClicksOf(k)' = {entry} /\ entry.t + r_waited'[k] = r_now'
        BY <2>2, <2>5, <3>1
      <4>2. QED
        BY <2>5, <4>1
    <3>2. CASE k \in 1..r_reader.page
      BY <1>8, <1>12, <1>13, <2>1, <2>3, <3>2
    <3>3. QED
      BY <1>12, <3>1, <3>2
  <2>7. QED
    BY <2>4, <2>6 DEF ClicksLogged
<1>16. ViewsLogged'
  <2>1. /\ \A v \in ClientRun!Events("view") : v.i \in 1..r_reader.page
        /\ \A k \in 1..r_reader.page : \E v \in ClientRun!Events("view") :
              ViewsOf(k) = {v} /\ v.wait = r_waited[k] /\ (v.source # "error" <=> k \in r_shown)
        /\ r_shown \subseteq 1..r_reader.page
    BY <1>14 DEF RunInv, ViewsLogged
  <2>2. \A k : ViewsOf(k)' = ViewsOf(k)
    BY <1>8 DEF ViewsOf
  <2>3. \A v \in ClientRun!Events("view")' : v.i \in 1..r_reader'.page /\ ~Awaited(v.i)'
    BY <1>8, <1>12, <1>13, <2>1
  <2>4. ASSUME NEW k \in 1..r_reader'.page, ~Awaited(k)'
        PROVE  \E v \in ClientRun!Events("view")' :
                  ViewsOf(k)' = {v} /\ v.wait = r_waited'[k] /\ (v.source # "error" <=> k \in r_shown')
    <3>1. k \in 1..r_reader.page
      BY <1>12, <1>13, <2>4
    <3>2. QED
      BY <1>6, <1>8, <1>9, <2>1, <2>2, <3>1
  <2>5. r_shown' \subseteq 1..r_reader'.page /\ \A k \in r_shown' : ~Awaited(k)'
    BY <1>6, <1>12, <1>13, <2>1
  <2>6. QED
    BY <2>3, <2>4, <2>5 DEF ViewsLogged
<1>17. EndLogged' /\ NetemLogged' /\ LinksInForce'
  BY <1>6, <1>8 DEF RunInv, EndLogged, NetemLogged, LinksInForce
<1>18. InTheDark'
  <2>1. ASSUME \A l \in DOMAIN r_links : r_links[l] = "dead"
        PROVE  /\ entry.i = i /\ Dark(s, r_applied) /\ r_applied \in 0..r_applied
               /\ \A k \in 1..r_applied : s.events[k].t <= entry.t
               /\ \A k \in (r_applied + 1)..Len(s.events) : entry.t <= s.events[k].t
    <3>1. Dark(s, r_applied)
      BY <1>1, <2>1 DEF Dark
    <3>2. /\ \A k \in 1..r_applied : s.events[k].t <= r_now
          /\ \A k \in (r_applied + 1)..Len(s.events) : r_now <= s.events[k].t
      BY <1>1 DEF RunInv, NetemLogged
    <3>3. QED
      BY <1>1, <1>4, <3>1, <3>2
  <2>2. ASSUME NEW k \in r_blackout'
        PROVE  \E c \in ClientRun!Events("click")' : \E n \in 0..r_applied :
                  /\ c.i = k /\ Dark(s, n)
                  /\ \A j \in 1..n : s.events[j].t <= c.t
                  /\ \A j \in (n + 1)..Len(s.events) : c.t <= s.events[j].t
    <3>1. CASE k \in r_blackout
      BY <1>1, <1>8, <3>1 DEF RunInv, InTheDark
    <3>2. CASE k \notin r_blackout
      <4>1. k = i /\ \A l \in DOMAIN r_links : r_links[l] = "dead"
        BY <1>5, <2>2, <3>2
      <4>2. QED
        BY <1>8, <2>1, <4>1
    <3>3. QED
      BY <3>1, <3>2
  <2>3. QED
    BY <1>1, <1>6, <2>2 DEF InTheDark
<1>19. QED
  BY <1>10, <1>11, <1>15, <1>16, <1>17, <1>18 DEF RunInv

\* A page is shown, or fails, and its wait is logged.
LEMMA ViewKeeps == ASSUME RunInv, ClientRun!View PROVE RunInv'
<1>1. PICK i : i = r_reader.page
  OBVIOUS
<1>2. PICK source \in Sources :
         /\ ClientRun!Emit([event |-> "view", i |-> i, wait |-> r_waited[i], source |-> source])
         /\ r_shown' = IF source = "error" THEN r_shown ELSE r_shown \union {i}
  BY <1>1 DEF ClientRun!View
<1> DEFINE entry == [event |-> "view", i |-> i, wait |-> r_waited[i], source |-> source]
<1>3. /\ r_reader.at = "waiting" /\ r_reader' = [r_reader EXCEPT !.at = "reading", !.until = r_now + Dwell[i]]
      /\ UNCHANGED <<r_scenario, r_now, r_applied, r_links, r_over, r_waited, r_blackout, r_inforce>>
      /\ r_scenario # {} /\ ~r_over
  BY <1>1 DEF ClientRun!View, ClientRun!Running
<1>4. i \in 0..Len(Dwell) /\ Len(Dwell) \in Nat /\ r_now \in Nat /\ r_waited \in Seq(Nat) /\ Len(r_waited) = i
  BY <1>1, RunAssumption DEF RunInv, RunTyped
<1>5. i # 0 /\ i \in 1..i
  BY <1>1, <1>3, <1>4 DEF RunInv, RunTyped
<1>6. r_waited[i] \in Nat /\ Dwell[i] \in Nat
  <2>1. i \in 1..Len(r_waited) /\ i \in 1..Len(Dwell)
    BY <1>4, <1>5
  <2>2. QED
    BY <1>4, <2>1, RunAssumption, ElementOfSeq
<1>7. entry \in Logged /\ entry.event = "view" /\ entry.i = i /\ entry.wait = r_waited[i] /\ entry.source = source
  BY <1>4, <1>6 DEF Logged
<1>8. ClientRun!Emit(entry)
  BY <1>2
<1> HIDE DEF entry
<1>9. /\ r_log' \in Seq(Logged)
      /\ \A kind : ClientRun!Events(kind)' = ClientRun!Events(kind) \cup (IF "view" = kind THEN {entry} ELSE {})
  BY <1>7, <1>8, LogGrows DEF RunInv, RunTyped
<1>10. /\ ClientRun!Events("view")' = ClientRun!Events("view") \cup {entry}
       /\ ClientRun!Events("netem")' = ClientRun!Events("netem")
       /\ ClientRun!Events("click")' = ClientRun!Events("click")
       /\ ClientRun!Events("run_end")' = ClientRun!Events("run_end")
  BY <1>9
<1>11. r_reader.page = i /\ r_reader'.page = i /\ r_reader'.at = "reading"
       /\ r_reader' \in [at : {"free", "waiting", "reading"}, page : 0..Len(Dwell), until : Nat]
  <2>1. r_reader \in [at : {"free", "waiting", "reading"}, page : 0..Len(Dwell), until : Nat]
    BY DEF RunInv, RunTyped
  <2>2. r_now + Dwell[i] \in Nat
    BY <1>4, <1>6
  <2>3. QED
    BY <1>1, <1>3, <2>1, <2>2
<1>12. RunTyped' /\ NotBegun'
  BY <1>3, <1>5, <1>9, <1>11 DEF RunInv, RunTyped, NotBegun
<1>13. \A k : ~Awaited(k)' /\ (Awaited(k) <=> k = i)
  BY <1>3, <1>11 DEF Awaited
<1>14. ClicksLogged'
  <2>1. \A k : ClicksOf(k)' = ClicksOf(k)
    BY <1>10 DEF ClicksOf
  <2>2. QED
    BY <1>3, <1>10, <1>11, <1>13, <2>1 DEF RunInv, ClicksLogged
<1>15. ViewsLogged'
  <2>1. /\ \A v \in ClientRun!Events("view") : v.i \in 1..i /\ v.i # i
        /\ \A k \in 1..i : k # i => \E v \in ClientRun!Events("view") :
              ViewsOf(k) = {v} /\ v.wait = r_waited[k] /\ (v.source # "error" <=> k \in r_shown)
        /\ r_shown \subseteq 1..i /\ i \notin r_shown
    BY <1>11, <1>13 DEF RunInv, ViewsLogged
  <2>2. ViewsOf(i)' = {entry}
    <3>1. ViewsOf(i)' = {v \in ClientRun!Events("view") \cup {entry} : v.i = i}
      BY <1>10, <1>11 DEF ViewsOf
    <3>2. QED
      BY <1>7, <2>1, <3>1
  <2>3. \A k : k # i => ViewsOf(k)' = ViewsOf(k)
    BY <1>7, <1>10 DEF ViewsOf
  <2>4. r_shown' \subseteq 1..i /\ (i \in r_shown' <=> source # "error") /\ \A k : k # i => (k \in r_shown' <=> k \in r_shown)
    BY <1>2, <1>5, <2>1
  <2>5. ASSUME NEW k \in 1..i
        PROVE  \E v \in ClientRun!Events("view")' :
                  ViewsOf(k)' = {v} /\ v.wait = r_waited[k] /\ (v.source # "error" <=> k \in r_shown')
    <3>1. CASE k = i
      <4>1. ViewsOf(k)' = {entry}
        BY <2>2, <3>1
      <4>2. entry \in ClientRun!Events("view")' /\ entry.wait = r_waited[k] /\ (entry.source # "error" <=> k \in r_shown')
        BY <1>7, <1>10, <2>4, <3>1
      <4>3. QED
        BY <4>1, <4>2
    <3>2. CASE k # i
      BY <1>10, <2>1, <2>3, <2>4, <3>2
    <3>3. QED
      BY <3>1, <3>2
  <2>6. \A v \in ClientRun!Events("view")' : v.i \in 1..i
    BY <1>5, <1>7, <1>10, <2>1
  <2>7. QED
    BY <1>3, <1>11, <1>13, <2>4, <2>5, <2>6 DEF ViewsLogged
<1>16. EndLogged' /\ NetemLogged' /\ LinksInForce' /\ InTheDark'
  <2>1. EndLogged' /\ LinksInForce' /\ InTheDark'
    BY <1>3, <1>10, InForceKept DEF RunInv, EndLogged, InTheDark
  <2>2. QED
    BY <1>3, <1>10, <2>1, ScheduleKept DEF RunInv
<1>17. QED
  BY <1>12, <1>14, <1>15, <1>16 DEF RunInv

\* The reader has read the page.
LEMMA DwellOverKeeps == ASSUME RunInv, ClientRun!DwellOver PROVE RunInv'
<1>1. /\ r_reader.at = "reading" /\ r_reader' = [r_reader EXCEPT !.at = "free"]
      /\ UNCHANGED <<r_scenario, r_now, r_applied, r_links, r_log, r_over, r_waited, r_shown, r_blackout, r_inforce>>
      /\ r_scenario # {} /\ ~r_over
  BY DEF ClientRun!DwellOver, ClientRun!Running
<1>2. r_reader'.page = r_reader.page /\ r_reader'.at = "free" /\ r_reader' \in [at : {"free", "waiting", "reading"}, page : 0..Len(Dwell), until : Nat]
  BY <1>1 DEF RunInv, RunTyped
<1>3. \A kind : ClientRun!Events(kind)' = ClientRun!Events(kind)
  BY <1>1 DEF ClientRun!Events
<1>4. \A k : ~Awaited(k)' /\ ~Awaited(k) /\ ClicksOf(k)' = ClicksOf(k) /\ ViewsOf(k)' = ViewsOf(k)
  BY <1>1, <1>2, <1>3 DEF Awaited, ClicksOf, ViewsOf
<1>5. RunTyped' /\ NotBegun'
  BY <1>1, <1>2 DEF RunInv, RunTyped, NotBegun
<1>6. ClicksLogged' /\ ViewsLogged'
  BY <1>1, <1>2, <1>3, <1>4 DEF RunInv, ClicksLogged, ViewsLogged
<1>7. EndLogged' /\ NetemLogged' /\ LinksInForce' /\ InTheDark'
  <2>1. EndLogged' /\ LinksInForce' /\ InTheDark'
    BY <1>1, <1>3, InForceKept DEF RunInv, EndLogged, InTheDark
  <2>2. QED
    BY <1>1, <1>3, <2>1, ScheduleKept DEF RunInv
<1>8. QED
  BY <1>5, <1>6, <1>7 DEF RunInv

\* The run is over.
LEMMA RunEndKeeps == ASSUME RunInv, ClientRun!End PROVE RunInv'
<1> DEFINE entry == [event |-> "run_end", t |-> r_now]
<1>1. /\ r_over' = TRUE /\ ClientRun!Emit(entry)
      /\ UNCHANGED <<r_scenario, r_now, r_applied, r_links, r_reader, r_waited, r_shown, r_blackout, r_inforce>>
      /\ r_scenario # {} /\ ~r_over
  BY DEF ClientRun!End, ClientRun!Running
<1>2. entry \in Logged /\ entry.event = "run_end"
  BY DEF RunInv, RunTyped, Logged
<1> HIDE DEF entry
<1>3. /\ r_log' \in Seq(Logged)
      /\ \A kind : ClientRun!Events(kind)' = ClientRun!Events(kind) \cup (IF "run_end" = kind THEN {entry} ELSE {})
  BY <1>1, <1>2, LogGrows DEF RunInv, RunTyped
<1>4. /\ ClientRun!Events("run_end")' = ClientRun!Events("run_end") \cup {entry}
      /\ ClientRun!Events("netem")' = ClientRun!Events("netem")
      /\ ClientRun!Events("click")' = ClientRun!Events("click")
      /\ ClientRun!Events("view")' = ClientRun!Events("view")
  BY <1>3
<1>5. RunTyped' /\ NotBegun'
  BY <1>1, <1>3 DEF RunInv, RunTyped, NotBegun
<1>6. EndLogged'
  BY <1>1, <1>4 DEF RunInv, EndLogged, entry
<1>7. ClicksLogged' /\ ViewsLogged'
  BY <1>1, <1>4 DEF RunInv, ClicksLogged, ViewsLogged, ClicksOf, ViewsOf, Awaited
<1>8. NetemLogged' /\ LinksInForce' /\ InTheDark'
  <2>1. LinksInForce' /\ InTheDark'
    BY <1>1, <1>4, InForceKept DEF RunInv, InTheDark
  <2>2. QED
    BY <1>1, <1>4, <2>1, ScheduleKept DEF RunInv
<1>9. QED
  BY <1>5, <1>6, <1>7, <1>8 DEF RunInv

\* A second goes by.
LEMMA TickKeeps == ASSUME RunInv, ClientRun!Tick PROVE RunInv'
<1>1. PICK s \in Scenarios :
         /\ r_scenario = {s} /\ r_applied \in 0..Len(s.events) /\ Len(s.events) \in Nat
         /\ r_links = ClientRun!LinksAfter(s, r_applied) /\ DOMAIN r_links = DOMAIN s.initial
  BY Following DEF ClientRun!Tick, ClientRun!Running
<1>2. PICK i : i = r_reader.page
  OBVIOUS
<1>3. /\ r_now' = r_now + 1 /\ r_inforce' = Append(r_inforce, r_links)
      /\ r_waited' = IF r_reader.at = "waiting" THEN [r_waited EXCEPT ![i] = @ + 1] ELSE r_waited
      /\ UNCHANGED <<r_scenario, r_applied, r_links, r_reader, r_log, r_over, r_shown, r_blackout>>
      /\ ~r_over /\ (ClientRun!Ahead(s) # {} => r_now < s.events[r_applied + 1].t)
  BY <1>2, <1>1 DEF ClientRun!Tick, ClientRun!Running
<1>4. /\ r_now \in Nat /\ r_waited \in Seq(Nat) /\ Len(r_waited) = i /\ i \in Nat /\ i <= Len(Dwell)
      /\ r_reader.at = "waiting" => i \in 1..i
  <2>1. Len(Dwell) \in Nat
    BY RunAssumption
  <2>2. QED
    BY <1>2, <2>1 DEF RunInv, RunTyped
<1>5. \A k \in (r_applied + 1)..Len(s.events) : r_now < s.events[k].t /\ s.events[k].t \in Nat
  <2>1. ASSUME NEW k \in (r_applied + 1)..Len(s.events)
        PROVE  r_now < s.events[k].t /\ s.events[k].t \in Nat
    <3>1. r_applied + 1 \in 1..Len(s.events) /\ k \in 1..Len(s.events) /\ r_applied + 1 <= k
      BY <1>1
    <3>2. ClientRun!Ahead(s) # {}
      BY <2>1 DEF ClientRun!Ahead
    <3>3. /\ s.events[r_applied + 1].t \in Nat /\ s.events[k].t \in Nat
          /\ s.events[r_applied + 1].t <= s.events[k].t
      BY <3>1, ScenarioTypes
    <3>4. r_now < s.events[r_applied + 1].t
      BY <1>3, <3>2
    <3>5. r_now \in Nat
      BY <1>4
    <3>6. QED
      BY <3>3, <3>4, <3>5
  <2>2. QED
    BY <2>1
<1>6. \A kind : ClientRun!Events(kind)' = ClientRun!Events(kind)
  BY <1>3 DEF ClientRun!Events
<1>7. /\ r_waited' \in Seq(Nat) /\ Len(r_waited') = i
      /\ \A k \in 1..i : ~Awaited(k) => r_waited'[k] = r_waited[k]
      /\ \A k \in 1..i : Awaited(k) => r_waited'[k] = r_waited[k] + 1
      /\ \A k \in 1..i : r_waited[k] \in Nat
  <2>1. \A k \in 1..i : r_waited[k] \in Nat
    BY <1>4, ElementOfSeq
  <2>2. CASE r_reader.at = "waiting"
    <3>1. r_waited[i] + 1 \in Nat /\ i \in 1..Len(r_waited) /\ r_waited' = [r_waited EXCEPT ![i] = r_waited[i] + 1]
      BY <1>3, <1>4, <2>1, <2>2
    <3>2. r_waited' \in Seq(Nat) /\ Len(r_waited') = Len(r_waited)
      BY <1>4, <3>1, ExceptSeq
    <3>3. DOMAIN r_waited = 1..i
      BY <1>4
    <3>4. QED
      BY <1>2, <1>4, <2>1, <2>2, <3>1, <3>2, <3>3 DEF Awaited
  <2>3. CASE r_reader.at # "waiting"
    BY <1>2, <1>3, <1>4, <2>1, <2>3 DEF Awaited
  <2>4. QED
    BY <2>2, <2>3
<1>8. RunTyped' /\ NotBegun'
  BY <1>2, <1>1, <1>3, <1>4, <1>7 DEF RunInv, RunTyped, NotBegun
<1>9. \A k : (Awaited(k)' <=> Awaited(k)) /\ ClicksOf(k)' = ClicksOf(k) /\ ViewsOf(k)' = ViewsOf(k)
  BY <1>3, <1>6 DEF Awaited, ClicksOf, ViewsOf
<1>10. ClicksLogged'
  <2>1. \A c \in ClientRun!Events("click") : c.i \in Nat /\ c.t \in Nat
    BY LogTypes DEF RunInv, RunTyped
  <2>2. \A c \in ClientRun!Events("click")' : c.i \in 1..r_reader'.page /\ c.t <= r_now'
    BY <1>2, <1>3, <1>4, <1>6, <2>1 DEF RunInv, ClicksLogged
  <2>3. ASSUME NEW k \in 1..r_reader'.page
        PROVE  \E c \in ClientRun!Events("click")' : ClicksOf(k)' = {c} /\ (Awaited(k)' => c.t + r_waited'[k] = r_now')
    <3>1. k \in 1..i
      BY <1>2, <1>3
    <3>2. PICK c \in ClientRun!Events("click") : ClicksOf(k) = {c} /\ (Awaited(k) => c.t + r_waited[k] = r_now)
      BY <1>2, <3>1 DEF RunInv, ClicksLogged
    <3>3. ASSUME Awaited(k)' PROVE c.t + r_waited'[k] = r_now'
      <4>1. Awaited(k) /\ c.t + r_waited[k] = r_now /\ r_waited'[k] = r_waited[k] + 1
        BY <1>7, <1>9, <3>1, <3>2, <3>3
      <4>2. c.t \in Nat /\ r_waited[k] \in Nat
        BY <1>7, <2>1, <3>1
      <4>3. QED
        BY <1>3, <4>1, <4>2
    <3>4. QED
      BY <1>6, <1>9, <3>2, <3>3
  <2>4. QED
    BY <2>2, <2>3 DEF ClicksLogged
<1>11. ViewsLogged'
  BY <1>2, <1>3, <1>6, <1>7, <1>9 DEF RunInv, ViewsLogged
<1>12. EndLogged' /\ InTheDark'
  BY <1>3, <1>6 DEF RunInv, EndLogged, InTheDark
<1>13. NetemLogged'
  <2>1. /\ ClientRun!Events("netem") =
              {[event |-> "netem", t |-> s.events[k].t, profile |-> s.events[k].profile] : k \in 1..r_applied}
        /\ \A k \in 1..r_applied : s.events[k].t <= r_now
    BY <1>1 DEF RunInv, NetemLogged
  <2>2. \A k \in 1..r_applied : s.events[k].t \in Nat
    BY <1>1, ScenarioTypes
  <2>6. r_now \in Nat /\ r_now' = r_now + 1
    BY <1>3, <1>4
  <2>3. \A k \in 1..r_applied : s.events[k].t <= r_now'
    BY <2>1, <2>2, <2>6
  <2>4. \A k \in (r_applied + 1)..Len(s.events) : r_now' <= s.events[k].t
    BY <1>5, <2>6
  <2>5. QED
    BY <1>1, <1>3, <1>6, <2>1, <2>3, <2>4 DEF NetemLogged
<1>14. LinksInForce'
  <2>1. /\ r_inforce \in Seq(LinksMade) /\ Len(r_inforce) = r_now
        /\ \A k \in 1..r_now : \E n \in 0..Len(s.events) :
              /\ r_inforce[k] = ClientRun!LinksAfter(s, n)
              /\ \A j \in 1..n : s.events[j].t <= k - 1
              /\ \A j \in (n + 1)..Len(s.events) : k - 1 < s.events[j].t
    BY <1>1 DEF RunInv, LinksInForce
  <2>2. /\ r_inforce' \in Seq(LinksMade) /\ Len(r_inforce') = r_now'
        /\ r_inforce'[r_now + 1] = r_links /\ \A k \in 1..r_now : r_inforce'[k] = r_inforce[k]
    <3>1. r_links \in LinksMade
      BY <1>1 DEF LinksMade
    <3>2. QED
      BY <1>3, <2>1, <3>1, AppendIs
  <2>3. ASSUME NEW k \in 1..r_now'
        PROVE  \E n \in 0..Len(s.events) :
              /\ r_inforce'[k] = ClientRun!LinksAfter(s, n)
              /\ \A j \in 1..n : s.events[j].t <= k - 1
              /\ \A j \in (n + 1)..Len(s.events) : k - 1 < s.events[j].t
    <3>1. CASE k \in 1..r_now
      BY <2>1, <2>2, <3>1
    <3>2. CASE k = r_now + 1
      <4>1. k - 1 = r_now
        BY <1>4, <3>2
      <4>2. \A j \in 1..r_applied : s.events[j].t <= r_now
        BY <1>1 DEF RunInv, NetemLogged
      <4>3. r_inforce'[k] = ClientRun!LinksAfter(s, r_applied)
        BY <1>1, <2>2, <3>2
      <4>4. QED
        BY <1>1, <1>5, <4>1, <4>2, <4>3
    <3>3. k \in 1..r_now \/ k = r_now + 1
      BY <1>3, <1>4
    <3>4. QED
      BY <3>1, <3>2, <3>3
  <2>4. QED
    BY <1>1, <1>3, <2>2, <2>3 DEF LinksInForce
<1>15. QED
  BY <1>8, <1>10, <1>11, <1>12, <1>13, <1>14 DEF RunInv

\* Every step of the run keeps RunInv.
LEMMA RunKeeps == ASSUME RunInv, ClientRun!Next PROVE RunInv'
  BY BeginRunKeeps, ApplyProfileKeeps, ClickKeeps, ViewKeeps, DwellOverKeeps, TickKeeps, RunEndKeeps
     DEF ClientRun!Next

\* So does a step of another part.
LEMMA RunStutters == ASSUME RunInv, UNCHANGED ClientRunVars PROVE RunInv'
<1>1. \A kind : ClientRun!Events(kind)' = ClientRun!Events(kind)
  BY DEF ClientRunVars, ClientRun!Events
<1>2. \A k : (Awaited(k)' <=> Awaited(k)) /\ ClicksOf(k)' = ClicksOf(k) /\ ViewsOf(k)' = ViewsOf(k)
  BY <1>1 DEF ClientRunVars, Awaited, ClicksOf, ViewsOf
<1>3. RunTyped' /\ NotBegun'
  BY DEF ClientRunVars, RunInv, RunTyped, NotBegun
<1>4. ClicksLogged' /\ ViewsLogged'
  BY <1>1, <1>2 DEF ClientRunVars, RunInv, ClicksLogged, ViewsLogged
<1>5. EndLogged' /\ NetemLogged' /\ LinksInForce' /\ InTheDark'
  <2>1. EndLogged' /\ LinksInForce' /\ InTheDark'
    BY <1>1, InForceKept DEF ClientRunVars, RunInv, EndLogged, InTheDark
  <2>2. QED
    BY <1>1, <2>1, ScheduleKept DEF ClientRunVars, RunInv
<1>6. QED
  BY <1>3, <1>4, <1>5 DEF RunInv

-----------------------------------------------------------------------------
(* What analyze.py says of a finished run. *)

\* The run's end is in the log once.
LEMMA EndOfRun == ASSUME RunInv, r_over PROVE ClientRun!EndTime = r_now
<1> DEFINE end == [event |-> "run_end", t |-> r_now]
<1>1. ClientRun!Events("run_end") = {end} /\ end.t = r_now
  BY DEF RunInv, EndLogged
<1> HIDE DEF end
<1>2. (CHOOSE e \in ClientRun!Events("run_end") : TRUE) = end
  BY <1>1
<1>3. QED
  BY <1>1, <1>2 DEF ClientRun!EndTime

\* A page's entry among the waits is the time the reader waited for it, and says whether it came.
LEMMA WaitsOfPages ==
    ASSUME RunInv, r_over
    PROVE  /\ DOMAIN ClientRun!Waits = 1..r_reader.page
           /\ \A i \in 1..r_reader.page :
                 /\ ClientRun!Waits[i].wait = r_waited[i]
                 /\ ClientRun!Waits[i].source \notin {"pending", "error"} <=> i \in r_shown
<1>1. /\ \A c \in ClientRun!Events("click") : c.i \in 1..r_reader.page
      /\ \A i \in 1..r_reader.page : \E c \in ClientRun!Events("click") :
            ClicksOf(i) = {c} /\ (Awaited(i) => c.t + r_waited[i] = r_now)
  BY DEF RunInv, ClicksLogged
<1>2. {c.i : c \in ClientRun!Events("click")} = 1..r_reader.page
  BY <1>1 DEF ClicksOf
<1>3. DOMAIN ClientRun!Waits = 1..r_reader.page
  BY <1>2 DEF ClientRun!Waits
<1>4. ASSUME NEW i \in 1..r_reader.page
      PROVE  /\ ClientRun!Waits[i].wait = r_waited[i]
             /\ ClientRun!Waits[i].source \notin {"pending", "error"} <=> i \in r_shown
  <2> DEFINE click == CHOOSE c \in ClientRun!Events("click") : c.i = i
  <2> DEFINE view == CHOOSE v \in ViewsOf(i) : TRUE
  <2>1. ClientRun!Waits[i] = IF ViewsOf(i) # {} THEN [wait |-> view.wait, source |-> view.source]
                            ELSE [wait |-> r_now - click.t, source |-> "pending"]
    BY <1>2, EndOfRun DEF ClientRun!Waits, ViewsOf
  <2>2. CASE Awaited(i)
    <3>1. PICK c \in ClientRun!Events("click") : ClicksOf(i) = {c} /\ c.t + r_waited[i] = r_now
      BY <1>1, <2>2
    <3>2. click = c
      BY <3>1 DEF ClicksOf
    <3>3. ViewsOf(i) = {} /\ i \notin r_shown
      BY <2>2 DEF RunInv, ViewsLogged, ViewsOf
    <3>4. c.t \in Nat
      BY LogTypes DEF RunInv, RunTyped
    <3>5. r_waited[i] \in Nat
      BY ElementOfSeq DEF RunInv, RunTyped
    <3>6. r_now - c.t = r_waited[i]
      BY <3>1, <3>4, <3>5
    <3>7. ClientRun!Waits[i] = [wait |-> r_waited[i], source |-> "pending"]
      <4> HIDE DEF click, view
      <4>1. QED
        BY <2>1, <3>2, <3>3, <3>6
    <3>8. QED
      BY <3>3, <3>7
  <2>3. CASE ~Awaited(i)
    <3>1. PICK v \in ClientRun!Events("view") :
             ViewsOf(i) = {v} /\ v.wait = r_waited[i] /\ (v.source # "error" <=> i \in r_shown)
      BY <2>3 DEF RunInv, ViewsLogged
    <3>2. view = v
      BY <3>1
    <3>3. v.source # "pending"
      BY LogTypes, RunAssumption DEF RunInv, RunTyped
    <3>4. QED
      BY <2>1, <3>1, <3>2, <3>3
  <2>4. QED
    BY <2>2, <2>3
<1>5. QED
  BY <1>3, <1>4

\* The figures of the run are the reader's.
LEMMA FiguresRight == ASSUME RunInv, r_over PROVE ClientRun!MeasuredRight
<1> DEFINE W == ClientRun!Waits
<1>1. DOMAIN r_waited = 1..r_reader.page
  BY DEF RunInv, RunTyped
<1>2. [i \in DOMAIN W |-> W[i].wait] = r_waited
  <2>1. r_waited = [i \in 1..r_reader.page |-> r_waited[i]]
    BY <1>1 DEF RunInv, RunTyped
  <2>2. QED
    BY <2>1, WaitsOfPages
<1>3. {W[i].wait : i \in DOMAIN W} = {r_waited[i] : i \in DOMAIN r_waited}
  BY <1>1, WaitsOfPages
<1>4. {i \in DOMAIN W : W[i].source \notin {"pending", "error"}} = r_shown
  <2>1. r_shown \subseteq 1..r_reader.page
    BY DEF RunInv, ViewsLogged
  <2>2. QED
    BY <2>1, WaitsOfPages
<1> DEFINE total == ClientRun!SumOf([i \in DOMAIN W |-> W[i].wait])
<1> DEFINE longest == ClientRun!Max({W[i].wait : i \in DOMAIN W} \union {0})
<1> DEFINE came == ClientRun!Cardinality({i \in DOMAIN W : W[i].source \notin {"pending", "error"}})
<1> DEFINE dark == IF ClientRun!Deaths = {} THEN {}
                   ELSE {c.i : c \in {x \in ClientRun!Events("click") : x.t \in ClientRun!OutageWindow}}
<1>5. ClientRun!RunMetrics = [wait_s |-> total, max_wait_s |-> longest, pages |-> came, outage |-> dark]
  BY DEF ClientRun!RunMetrics
<1>6. /\ total = ClientRun!SumOf(r_waited) /\ came = ClientRun!Cardinality(r_shown)
      /\ longest = ClientRun!Max({r_waited[i] : i \in DOMAIN r_waited} \union {0})
  BY <1>2, <1>3, <1>4
<1> HIDE DEF total, longest, came, dark
<1>7. /\ ClientRun!RunMetrics.wait_s = total /\ ClientRun!RunMetrics.max_wait_s = longest
      /\ ClientRun!RunMetrics.pages = came
  BY <1>5
<1>8. QED
  BY <1>6, <1>7 DEF ClientRun!MeasuredRight

\* The netem entries are the events applied.
LEMMA NetemIs ==
    ASSUME RunInv, NEW s \in r_scenario
    PROVE  /\ \A e \in ClientRun!Events("netem") : \E k \in 1..r_applied :
                 e.t = s.events[k].t /\ e.profile = s.events[k].profile
           /\ \A k \in 1..r_applied : \E e \in ClientRun!Events("netem") :
                 e.t = s.events[k].t /\ e.profile = s.events[k].profile
<1> DEFINE of(k) == [event |-> "netem", t |-> s.events[k].t, profile |-> s.events[k].profile]
<1>1. ClientRun!Events("netem") = {of(k) : k \in 1..r_applied}
  BY DEF RunInv, NetemLogged
<1>2. \A k : of(k).t = s.events[k].t /\ of(k).profile = s.events[k].profile
  OBVIOUS
<1> HIDE DEF of
<1>3. QED
  BY <1>1, <1>2

\* A link is what the last of the first n events about it says, or what it was.
LEMMA LastChange ==
    ASSUME NEW s \in Scenarios, NEW n \in 0..Len(s.events), NEW l \in DOMAIN s.initial
    PROVE  \/ /\ \A k \in 1..n : s.events[k].iface # l
              /\ ClientRun!LinksAfter(s, n)[l] = s.initial[l]
           \/ \E z \in 1..n :
                /\ s.events[z].iface = l /\ \A k \in 1..n : s.events[k].iface = l => k <= z
                /\ ClientRun!LinksAfter(s, n)[l] = s.events[z].profile
<1> DEFINE C == {k \in 1..n : s.events[k].iface = l}
<1>1. ClientRun!LinksAfter(s, n)[l] = IF C = {} THEN s.initial[l] ELSE s.events[ClientRun!Max(C)].profile
  BY DEF ClientRun!LinksAfter
<1>2. n \in Nat
  BY ScenarioTypes
<1>3. CASE C = {}
  BY <1>1, <1>3
<1>4. CASE C # {}
  <2>1. C \in SUBSET Nat /\ \A k \in C : k <= n
    BY <1>2
  <2> HIDE DEF C
  <2>2. ClientRun!Max(C) \in C /\ \A k \in C : k <= ClientRun!Max(C)
    BY <1>2, <1>4, <2>1, RunMax
  <2>3. QED
    BY <1>1, <1>4, <2>2 DEF C
<1>5. QED
  BY <1>3, <1>4

\* In every second of the run each link is in one zone, the one with the profile it had.
LEMMA ZonesRight == ASSUME RunInv, r_over PROVE ClientRun!ZonesAsLived
<1> SUFFICES ASSUME NEW s \in r_scenario, NEW l \in DOMAIN r_links, NEW k \in DOMAIN r_inforce
             PROVE  LET zones == ClientRun!Zones(s, l)
                        here == {z \in DOMAIN zones : zones[z].from <= k - 1 /\ k - 1 < zones[z].to}
                    IN  \E z \in here : here = {z} /\ zones[z].profile = r_inforce[k][l]
  BY DEF ClientRun!ZonesAsLived
<1> DEFINE zones == ClientRun!Zones(s, l)
<1> DEFINE here == {z \in DOMAIN zones : zones[z].from <= k - 1 /\ k - 1 < zones[z].to}
<1> DEFINE changes == {j \in DOMAIN s.events : s.events[j].iface = l}
<1> DEFINE later(z) == {j \in changes : j > z}
<1>1. /\ s \in Scenarios /\ l \in DOMAIN s.initial /\ r_now \in Nat /\ k \in 1..r_now
      /\ DOMAIN s.events = 1..Len(s.events) /\ Len(s.events) \in Nat
  <2>1. s \in Scenarios /\ r_scenario # {} /\ r_now \in Nat
    BY DEF RunInv, RunTyped
  <2>2. l \in DOMAIN s.initial
    BY <2>1, Following
  <2>3. DOMAIN r_inforce = 1..r_now
    BY DEF RunInv, LinksInForce
  <2>4. s.events \in Seq([t : Nat, iface : DOMAIN s.initial, profile : STRING])
    BY <2>1, RunAssumption
  <2>5. QED
    BY <2>1, <2>2, <2>3, <2>4
<1>2. PICK n \in 0..Len(s.events) :
         /\ r_inforce[k] = ClientRun!LinksAfter(s, n)
         /\ \A j \in 1..n : s.events[j].t <= k - 1
         /\ \A j \in (n + 1)..Len(s.events) : k - 1 < s.events[j].t
  BY <1>1 DEF RunInv, LinksInForce
<1>3. \A j \in 1..Len(s.events) : s.events[j].t \in Nat
  BY <1>1, ScenarioTypes
<1>4. /\ DOMAIN zones = changes \union {0}
      /\ \A z \in changes \union {0} :
            zones[z] = [from |-> IF z = 0 THEN 0 ELSE s.events[z].t,
                        to |-> IF later(z) = {} THEN r_now ELSE s.events[ClientRun!Min(later(z))].t,
                        profile |-> IF z = 0 THEN s.initial[l] ELSE s.events[z].profile]
  BY EndOfRun DEF ClientRun!Zones
<1>5. changes \in SUBSET (1..Len(s.events)) /\ 0 \notin changes
  BY <1>1
<1>6. \A j \in changes : j \in 1..Len(s.events) /\ (j \in 1..n \/ j \in (n + 1)..Len(s.events)) /\ s.events[j].iface = l
  BY <1>1
<1>7. \A j \in 1..n : j \in 1..Len(s.events) /\ (s.events[j].iface = l => j \in changes)
  BY <1>1
<1>8. \A z \in changes \union {0} : later(z) # {} =>
         /\ ClientRun!Min(later(z)) \in changes /\ ClientRun!Min(later(z)) > z
         /\ \A j \in changes : j > z => ClientRun!Min(later(z)) <= j
  <2>1. ASSUME NEW z \in changes \union {0}, later(z) # {}
        PROVE  /\ ClientRun!Min(later(z)) \in changes /\ ClientRun!Min(later(z)) > z
               /\ \A j \in changes : j > z => ClientRun!Min(later(z)) <= j
    <3> DEFINE T == later(z)
    <3>1. T \in SUBSET Nat /\ T # {}
      BY <1>5, <2>1
    <3>2. \A j : j \in T <=> j \in changes /\ j > z
      OBVIOUS
    <3> HIDE DEF T
    <3>3. ClientRun!Min(T) \in T /\ \A j \in T : ClientRun!Min(T) <= j
      BY <3>1, RunMin
    <3>4. ClientRun!Min(T) \in changes /\ ClientRun!Min(T) > z /\ \A j \in changes : j > z => ClientRun!Min(T) <= j
      BY <3>2, <3>3
    <3>5. QED
      BY <3>4 DEF T
  <2>2. QED
    BY <2>1
<1>9. \E z \in changes \union {0} :
         /\ z = 0 \/ z \in 1..n
         /\ \A j \in changes : j \in 1..n => j <= z
         /\ ClientRun!LinksAfter(s, n)[l] = IF z = 0 THEN s.initial[l] ELSE s.events[z].profile
  <2>1. CASE /\ \A j \in 1..n : s.events[j].iface # l
             /\ ClientRun!LinksAfter(s, n)[l] = s.initial[l]
    BY <1>6, <2>1
  <2>2. CASE \E z \in 1..n :
                /\ s.events[z].iface = l /\ \A j \in 1..n : s.events[j].iface = l => j <= z
                /\ ClientRun!LinksAfter(s, n)[l] = s.events[z].profile
    <3>1. PICK z \in 1..n :
             /\ s.events[z].iface = l /\ \A j \in 1..n : s.events[j].iface = l => j <= z
             /\ ClientRun!LinksAfter(s, n)[l] = s.events[z].profile
      BY <2>2
    <3>2. z \in changes /\ z # 0 /\ \A j \in changes : j \in 1..n => j <= z
      BY <1>5, <1>6, <1>7, <3>1
    <3>3. QED
      BY <3>1, <3>2
  <2>3. QED
    BY <1>1, <2>1, <2>2, LastChange
<1>10. PICK z \in changes \union {0} :
         /\ z = 0 \/ z \in 1..n
         /\ \A j \in changes : j \in 1..n => j <= z
         /\ ClientRun!LinksAfter(s, n)[l] = IF z = 0 THEN s.initial[l] ELSE s.events[z].profile
  BY <1>9
<1>11. \A y : y \in here <=> y \in changes \union {0} /\ zones[y].from <= k - 1 /\ k - 1 < zones[y].to
  <2> HIDE DEF changes, zones, later
  <2>1. QED
    BY <1>4
<1>12. \A y \in changes \union {0} :
         /\ zones[y].from = IF y = 0 THEN 0 ELSE s.events[y].t
         /\ zones[y].to = IF later(y) = {} THEN r_now ELSE s.events[ClientRun!Min(later(y))].t
         /\ zones[y].profile = IF y = 0 THEN s.initial[l] ELSE s.events[y].profile
  <2> HIDE DEF changes, zones, later
  <2>1. ASSUME NEW y \in changes \union {0}
        PROVE  /\ zones[y].from = IF y = 0 THEN 0 ELSE s.events[y].t
               /\ zones[y].to = IF later(y) = {} THEN r_now ELSE s.events[ClientRun!Min(later(y))].t
               /\ zones[y].profile = IF y = 0 THEN s.initial[l] ELSE s.events[y].profile
    <3>1. zones[y] = [from |-> IF y = 0 THEN 0 ELSE s.events[y].t,
                      to |-> IF later(y) = {} THEN r_now ELSE s.events[ClientRun!Min(later(y))].t,
                      profile |-> IF y = 0 THEN s.initial[l] ELSE s.events[y].profile]
      BY <1>4
    <3>2. QED
      BY <3>1
  <2>2. QED
    BY <2>1
<1>13. \A y \in changes \union {0} : y \in Nat
  BY <1>1
<1> HIDE DEF changes, zones, later, here
<1>14. later(z) # {} => k - 1 < s.events[ClientRun!Min(later(z))].t
  <2>1. ASSUME later(z) # {} PROVE ClientRun!Min(later(z)) \in (n + 1)..Len(s.events)
    <3>1. ClientRun!Min(later(z)) \in changes /\ ClientRun!Min(later(z)) > z
      BY <1>8, <2>1
    <3>2. ClientRun!Min(later(z)) \notin 1..n
      BY <1>1, <1>5, <1>10, <3>1
    <3>3. QED
      BY <1>6, <3>1, <3>2
  <2>2. QED
    BY <1>2, <2>1
<1>15. z \in here
  <2>1. zones[z].from <= k - 1
    BY <1>1, <1>2, <1>10, <1>12
  <2>2. k - 1 < zones[z].to
    BY <1>1, <1>14, <1>12
  <2>3. QED
    BY <1>11, <2>1, <2>2
<1>16. ASSUME NEW y \in here PROVE y = z
  <2>1. y \in changes \union {0} /\ y \in Nat /\ z \in Nat
    BY <1>16, <1>11, <1>13
  <2>2. CASE y < z
    <3>1. z \in changes /\ z \in 1..n
      BY <1>10, <2>1, <2>2
    <3>2. later(y) # {}
      BY <2>2, <3>1 DEF later
    <3>3. ClientRun!Min(later(y)) \in changes /\ ClientRun!Min(later(y)) <= z
      BY <1>8, <2>1, <2>2, <3>1, <3>2
    <3>4. ClientRun!Min(later(y)) \in 1..n
      <4>1. ClientRun!Min(later(y)) \in 1..Len(s.events) /\ n \in Nat
        BY <1>1, <1>6, <3>3
      <4>2. QED
        BY <2>1, <3>1, <3>3, <4>1
    <3>5. s.events[ClientRun!Min(later(y))].t <= k - 1 /\ s.events[ClientRun!Min(later(y))].t \in Nat
      BY <1>2, <1>3, <1>7, <3>4
    <3>6. zones[y].to = s.events[ClientRun!Min(later(y))].t
      BY <1>12, <2>1, <3>2
    <3>7. QED
      BY <1>1, <1>16, <1>11, <3>5, <3>6
  <2>3. CASE z < y
    <3>1. y \in changes /\ y # 0
      BY <2>1, <2>3
    <3>2. y \in (n + 1)..Len(s.events)
      BY <1>6, <1>10, <2>1, <2>3, <3>1
    <3>3. k - 1 < s.events[y].t /\ s.events[y].t \in Nat /\ zones[y].from = s.events[y].t
      BY <1>2, <1>3, <1>6, <1>12, <3>1, <3>2
    <3>4. QED
      BY <1>1, <1>16, <1>11, <3>3
  <2>4. QED
    BY <2>1, <2>2, <2>3
<1>17. zones[z].profile = r_inforce[k][l]
  BY <1>2, <1>10, <1>12
<1>18. here = {z}
  BY <1>15, <1>16
<1>19. QED
  BY <1>15, <1>17, <1>18 DEF zones, here

\* A page clicked while every link was dead is among the outage's pages.
LEMMA OutageRight == ASSUME RunInv, r_over PROVE ClientRun!BlackoutCounted
<1> SUFFICES ASSUME \A s \in r_scenario : ClientRun!OneOutage(s), NEW i \in r_blackout
             PROVE  i \in ClientRun!RunMetrics.outage
  BY DEF ClientRun!BlackoutCounted
<1>1. PICK s \in Scenarios :
         /\ r_scenario = {s} /\ r_applied \in 0..Len(s.events) /\ Len(s.events) \in Nat
  <2>1. r_scenario # {}
    BY DEF RunInv, NotBegun
  <2>2. QED
    BY <2>1, Following
<1>2. PICK c \in ClientRun!Events("click"), n \in 0..r_applied :
         /\ c.i = i /\ Dark(s, n)
         /\ \A k \in 1..n : s.events[k].t <= c.t
         /\ \A k \in (n + 1)..Len(s.events) : c.t <= s.events[k].t
  BY <1>1 DEF RunInv, InTheDark
<1>3. c.t \in Nat /\ c.t <= r_now /\ r_now \in Nat /\ n \in Nat /\ n <= Len(s.events) /\ AfterRecovery \in Nat \ {0}
  <2>1. c.t \in Nat
    BY LogTypes DEF RunInv, RunTyped
  <2>2. QED
    BY <1>1, <2>1, RunAssumption DEF RunInv, RunTyped, ClicksLogged
<1>4. /\ \A k \in 1..Len(s.events) : s.events[k].t \in Nat
      /\ \A j, k \in 1..Len(s.events) : j <= k => s.events[j].t <= s.events[k].t
      /\ \A k \in 1..r_applied : s.events[k].t <= r_now /\ k \in 1..Len(s.events)
      /\ DOMAIN s.events = 1..Len(s.events)
  <2>1. s.events \in Seq([t : Nat, iface : DOMAIN s.initial, profile : STRING])
    BY RunAssumption
  <2>2. QED
    BY <1>1, <2>1, ScenarioTypes DEF RunInv, NetemLogged
\* A link died by then.
<1>5. PICK d \in 1..n : s.events[d].profile = "dead"
  <2>1. PICK l \in DOMAIN s.initial : s.initial[l] # "dead"
    BY RunAssumption
  <2>2. ClientRun!LinksAfter(s, n)[l] = "dead" /\ n \in 0..Len(s.events)
    BY <1>1, <1>2, <1>3 DEF Dark
  <2>3. QED
    BY <2>1, <2>2, LastChange
<1> DEFINE D == ClientRun!Deaths
<1>6. /\ \A t : t \in D <=> \E k \in 1..r_applied : t = s.events[k].t /\ s.events[k].profile = "dead"
  <2>1. \A t : t \in D <=> \E e \in ClientRun!Events("netem") : t = e.t /\ e.profile = "dead"
    BY DEF ClientRun!Deaths
  <2> HIDE DEF D
  <2>2. QED
    <3>1. s \in r_scenario
      BY <1>1
    <3>2. QED
      <4>1. /\ \A e \in ClientRun!Events("netem") : \E k \in 1..r_applied :
                  e.t = s.events[k].t /\ e.profile = s.events[k].profile
            /\ \A k \in 1..r_applied : \E e \in ClientRun!Events("netem") :
                  e.t = s.events[k].t /\ e.profile = s.events[k].profile
        BY <3>1, NetemIs
      <4>2. ASSUME NEW t \in D
            PROVE  \E k \in 1..r_applied : t = s.events[k].t /\ s.events[k].profile = "dead"
        <5>1. PICK e \in ClientRun!Events("netem") : t = e.t /\ e.profile = "dead"
          BY <2>1
        <5>2. PICK k \in 1..r_applied : e.t = s.events[k].t /\ e.profile = s.events[k].profile
          BY <4>1
        <5>3. QED
          BY <5>1, <5>2
      <4>3. ASSUME NEW t, NEW k \in 1..r_applied, t = s.events[k].t /\ s.events[k].profile = "dead"
            PROVE  t \in D
        <5>1. PICK e \in ClientRun!Events("netem") : e.t = s.events[k].t /\ e.profile = s.events[k].profile
          BY <4>1
        <5>2. QED
          BY <2>1, <4>3, <5>1
      <4>4. QED
        BY <4>2, <4>3
<1> DEFINE B == {e.t : e \in {x \in ClientRun!Events("netem") :
                                  x.profile # "dead" /\ x.t > ClientRun!Min(D)}}
<1>7. \A t : t \in B <=> \E k \in 1..r_applied :
                        t = s.events[k].t /\ s.events[k].profile # "dead" /\ t > ClientRun!Min(D)
  <2>1. \A t : t \in B <=> \E e \in ClientRun!Events("netem") :
                        t = e.t /\ e.profile # "dead" /\ t > ClientRun!Min(D)
    OBVIOUS
  <2> HIDE DEF B, D
  <2>2. QED
    <3>1. s \in r_scenario
      BY <1>1
    <3>2. QED
      <4>1. /\ \A e \in ClientRun!Events("netem") : \E k \in 1..r_applied :
                  e.t = s.events[k].t /\ e.profile = s.events[k].profile
            /\ \A k \in 1..r_applied : \E e \in ClientRun!Events("netem") :
                  e.t = s.events[k].t /\ e.profile = s.events[k].profile
        BY <3>1, NetemIs
      <4>2. ASSUME NEW t \in B
            PROVE  \E k \in 1..r_applied : t = s.events[k].t /\ s.events[k].profile # "dead" /\ t > ClientRun!Min(D)
        <5>1. PICK e \in ClientRun!Events("netem") : t = e.t /\ e.profile # "dead" /\ t > ClientRun!Min(D)
          BY <2>1
        <5>2. PICK k \in 1..r_applied : e.t = s.events[k].t /\ e.profile = s.events[k].profile
          BY <4>1
        <5>3. QED
          BY <5>1, <5>2
      <4>3. ASSUME NEW t, NEW k \in 1..r_applied, t = s.events[k].t /\ s.events[k].profile # "dead" /\ t > ClientRun!Min(D)
            PROVE  t \in B
        <5>1. PICK e \in ClientRun!Events("netem") : e.t = s.events[k].t /\ e.profile = s.events[k].profile
          BY <4>1
        <5>2. QED
          BY <2>1, <4>3, <5>1
      <4>4. QED
        BY <4>2, <4>3
<1>8. ClientRun!OutageWindow =
         ClientRun!Min(D)..((IF B = {} THEN r_now ELSE ClientRun!Max(B)) + AfterRecovery - 1)
  BY EndOfRun DEF ClientRun!OutageWindow
<1> HIDE DEF B, D
<1>9. D \in SUBSET Nat /\ D # {} /\ s.events[d].t \in D /\ d \in 1..Len(s.events) /\ d \in 1..r_applied
  <2>1. d \in 1..r_applied /\ d \in 1..Len(s.events)
    BY <1>1, <1>3, <1>5
  <2>2. QED
    <3>1. s.events[d].t \in D
      BY <1>5, <1>6, <2>1
    <3>2. \A t \in D : t \in Nat
      BY <1>4, <1>6
    <3>3. QED
      BY <2>1, <3>1, <3>2
<1>10. ClientRun!Min(D) \in D /\ \A t \in D : ClientRun!Min(D) <= t
  BY <1>9, RunMin
<1>11. ClientRun!Min(D) \in Nat /\ ClientRun!Min(D) <= c.t
  <2>1. s.events[d].t <= c.t /\ s.events[d].t \in Nat /\ ClientRun!Min(D) <= s.events[d].t /\ ClientRun!Min(D) \in Nat
    BY <1>2, <1>4, <1>9, <1>10
  <2>2. QED
    BY <1>3, <2>1
\* Of the deaths at the first time one has happened by then.
<1>12. \E j \in 1..n : s.events[j].profile = "dead" /\ s.events[j].t = ClientRun!Min(D)
  <2>1. PICK j \in 1..r_applied : ClientRun!Min(D) = s.events[j].t /\ s.events[j].profile = "dead"
    BY <1>6, <1>10
  <2>2. CASE j <= n
    BY <1>3, <2>1, <2>2
  <2>3. CASE d <= j
    <3>1. s.events[d].t <= s.events[j].t /\ s.events[j].t <= s.events[d].t
      BY <1>4, <1>9, <1>10, <2>1, <2>3
    <3>2. s.events[d].t \in Nat /\ s.events[j].t \in Nat
      BY <1>4, <1>9, <2>1
    <3>3. QED
      BY <1>5, <2>1, <3>1, <3>2
  <2>4. QED
    BY <1>3, <2>2, <2>3
<1>13. PICK j \in 1..n : s.events[j].profile = "dead" /\ s.events[j].t = ClientRun!Min(D)
  BY <1>12
\* A link that came back did so later than the click.
<1>14. ASSUME NEW t \in B PROVE t \in Nat /\ t <= r_now /\ c.t <= t
  <2>1. PICK k \in 1..r_applied : t = s.events[k].t /\ s.events[k].profile # "dead" /\ t > ClientRun!Min(D)
    BY <1>7, <1>14
  <2>2. j \in 1..Len(s.events) /\ k \in 1..Len(s.events)
    BY <1>3, <1>4
  <2>3. t \in Nat /\ t <= r_now
    BY <1>4, <2>1
  <2>4. j < k
    <3>1. CASE k <= j
      BY <1>4, <1>11, <1>13, <2>1, <2>2, <2>3, <3>1
    <3>2. QED
      BY <3>1
  <2>5. ~ (k <= n)
    <3>1. ASSUME k <= n PROVE FALSE
      <4>1. n \in DOMAIN s.events /\ k \in 1..n
        BY <1>1, <1>3, <1>4, <3>1
      <4>2. \A l \in DOMAIN s.initial : ClientRun!LinksAfter(s, n)[l] = "dead"
        BY <1>2 DEF Dark
      <4>3. ClientRun!OneOutage(s)
        BY <1>1
      <4>4. s.events[k].profile = "dead"
        BY <1>13, <2>4, <4>1, <4>2, <4>3 DEF ClientRun!OneOutage
      <4>5. QED
        BY <2>1, <4>4
    <3>2. QED
      BY <3>1
  <2>6. k \in (n + 1)..Len(s.events)
    BY <1>3, <2>2, <2>5
  <2>7. QED
    BY <1>2, <2>1, <2>3, <2>6
<1>15. c.t \in ClientRun!OutageWindow
  <2>1. CASE B = {}
    BY <1>3, <1>8, <1>11, <2>1
  <2>2. CASE B # {}
    <3>1. B \in SUBSET Nat /\ \A t \in B : t <= r_now
      BY <1>14
    <3>2. ClientRun!Max(B) \in B
      BY <1>3, <2>2, <3>1, RunMax
    <3>3. ClientRun!Max(B) \in Nat /\ c.t <= ClientRun!Max(B)
      BY <1>14, <3>2
    <3>4. QED
      BY <1>3, <1>8, <1>11, <2>2, <3>3
  <2>3. QED
    BY <2>1, <2>2
<1>16. i \in {x.i : x \in {y \in ClientRun!Events("click") : y.t \in ClientRun!OutageWindow}}
  BY <1>2, <1>15
<1>17. ClientRun!Deaths # {}
  BY <1>9 DEF D
<1>18. ClientRun!RunMetrics.outage =
          {x.i : x \in {y \in ClientRun!Events("click") : y.t \in ClientRun!OutageWindow}}
  BY <1>17 DEF ClientRun!RunMetrics
<1>19. QED
  BY <1>16, <1>18

\* A step of the programs is one of the run's, or leaves the run as it is.
LEMMA RunApart == [ProgramsNext]_AllVars => ClientRun!Next \/ UNCHANGED ClientRunVars
  BY DEF ProgramsNext, AllVars, PolicyStep, ServerPrefetchStep, LinksStep, BatchStep, ClientRunStep,
         WarmUpStep, SnapshotStep, WarningsStep, CutoffSweepStep, Others

\* What the analysis says of a finished run, from its log and scenario, is what the reader went
\* through and how the links were, in every scenario and whatever the session.
THEOREM SaidRight == ProgramsSpec => []SaidAsLived
<1>1. ProgramsInit => RunInv
  BY RunBegins DEF ProgramsInit
<1>2. RunInv /\ [ProgramsNext]_AllVars => RunInv'
  BY RunKeeps, RunStutters, RunApart
<1>3. RunInv => SaidAsLived
  BY FiguresRight, ZonesRight, OutageRight DEF SaidAsLived, ClientRun!SaidAsLived
<1>4. QED
  BY <1>1, <1>2, <1>3, PTL DEF ProgramsSpec
-----------------------------------------------------------------------------
(* The warnings of one trace. *)

\* What Max chooses.
LEMMA WarnMax ==
    ASSUME NEW T \in SUBSET Nat, T # {}, NEW N \in Nat, \A n \in T : n <= N
    PROVE  Warnings!Max(T) \in T /\ \A n \in T : n <= Warnings!Max(T)
<1>1. \E n \in T : \A m \in T : n >= m
  <2>1. PICK n \in T : \A m \in T : m <= n
    BY GreatestOf
  <2>2. QED
    BY <2>1
<1>2. QED
  BY <1>1 DEF Warnings!Max

\* Max is known by what it is.
LEMMA WarnMaxIs ==
    ASSUME NEW T \in SUBSET Nat, NEW m \in T, \A n \in T : n <= m
    PROVE  Warnings!Max(T) = m
<1>1. m \in Nat
  OBVIOUS
<1>2. Warnings!Max(T) \in T /\ m <= Warnings!Max(T)
  BY <1>1, WarnMax
<1>3. Warnings!Max(T) <= m /\ Warnings!Max(T) \in Nat
  BY <1>2
<1>4. QED
  BY <1>1, <1>2, <1>3

\* The instance's cardinality is the library's, about which there are facts.
LEMMA SameCardinality == \A S : Warnings!Cardinality(S) = Cardinality(S)
  BY DEF Warnings!Cardinality, Cardinality

\* What the history records of a tick.
Record(c, d, o) == [clean |-> c, dbm |-> d, on |-> o]
History == [clean : Int, dbm : Int, on : BOOLEAN]

WarnTyped ==
    /\ a_t \in Nat /\ a_log \in Seq(History) /\ Len(a_log) = a_t
    /\ a_trace \in Warnings!Traces /\ a_held \in Int
    /\ {a_active, a_had_outage, a_down} \subseteq BOOLEAN
    /\ a_warn_start \in Int /\ a_up_since \in Nat /\ a_leads \in Seq(Int) /\ a_false_alarms \in Nat

\* The flags say what the last tick was.
LastTick ==
    /\ a_active <=> a_t # 0 /\ a_log[a_t].on
    /\ a_down <=> a_t # 0 /\ Warnings!Down(a_t)

\* A warning that is on began at warn_start, and had_outage is about its ticks.
WarningOn ==
    IF a_active
    THEN /\ a_warn_start \in 0..(a_t - 1) /\ Warnings!Begins(a_warn_start + 1)
         /\ \A i \in (a_warn_start + 1)..a_t : a_log[i].on
         /\ a_had_outage <=> \E i \in Warnings!Crossings : a_warn_start < i
    ELSE a_warn_start = Warnings!NoWarning

\* The last return so far.
LastReturn ==
    /\ a_up_since + 1 \in {1} \union Warnings!Returns
    /\ \A j \in Warnings!Returns : j <= a_up_since + 1

LeadsCounted ==
    /\ Len(a_leads) = Cardinality(Warnings!Outages)
    /\ \A i \in Warnings!Outages :
         a_leads[Cardinality({j \in Warnings!Outages : j <= i})] = Warnings!Lead(i)

\* The warnings that are over, and those in which no crossing came.
Over == {w \in (1..a_t) \X (1..a_t) :
            /\ w[1] <= w[2] /\ w[2] < a_t /\ Warnings!Begins(w[1])
            /\ \A i \in w[1]..w[2] : a_log[i].on
            /\ ~a_log[w[2] + 1].on}
Idle == {w \in Over : \A i \in Warnings!Crossings : i \notin w[1]..w[2]}

WarnInv ==
    /\ WarnTyped /\ LastTick /\ WarningOn /\ LastReturn /\ LeadsCounted
    /\ a_false_alarms = Cardinality(Idle)

\* The trace's levels are numbers.
LEMMA CleanType ==
    ASSUME NEW tr \in Warnings!Traces, NEW shadowing \in Shadows, NEW i \in Nat
    PROVE  Warnings!Clean(tr, shadowing, i) \in Int
<1>1. /\ Base \in Int /\ shadowing \in Int /\ tr.start \in Int /\ tr.fade \in Nat \ {0} /\ tr.bottom \in Int
  <2>5. /\ Base \in Int /\ shadowing \in Int /\ \A n \in Starts : n \in Int
        /\ (\A n \in Fades : n \in Nat \ {0}) /\ \A b \in Bottoms : b \in Int
    BY WarningsAssumption
  <2>1. CASE tr \in [kind : {"outage"}, start : Starts, fade : Fades, bottom : {0}]
    BY <2>1, <2>5
  <2>2. CASE tr \in [kind : {"near_miss"}, start : Starts, fade : Fades, bottom : Bottoms]
    BY <2>2, <2>5
  <2>3. CASE tr \in [kind : {"nothing"}, start : {0}, fade : {1}, bottom : {0}]
    BY <2>3, WarningsAssumption
  <2>4. QED
    BY <2>1, <2>2, <2>3 DEF Warnings!Traces
<1> DEFINE level == Base + shadowing
<1> DEFINE x == i - tr.start
<1> DEFINE depth == Warnings!Min({0, tr.bottom - Base})
<1>2. level \in Int /\ x \in Int
  BY <1>1
<1>3. depth \in Int
  <2>1. \E m \in {0, tr.bottom - Base} : \A n \in {0, tr.bottom - Base} : m <= n
    BY <1>1
  <2>2. depth \in {0, tr.bottom - Base}
    BY <2>1 DEF Warnings!Min
  <2>3. QED
    BY <1>1, <2>2
<1>4. Warnings!Max({0, 2 * tr.fade - x}) \in Int
  <2>1. \E m \in {0, 2 * tr.fade - x} : \A n \in {0, 2 * tr.fade - x} : m >= n
    BY <1>1, <1>2
  <2>2. Warnings!Max({0, 2 * tr.fade - x}) \in {0, 2 * tr.fade - x}
    BY <2>1 DEF Warnings!Max
  <2>3. QED
    BY <1>1, <1>2, <2>2
<1>5. \A a \in Int : a \div tr.fade \in Int
  BY <1>1
<1>6. \A a, b \in Int : a * b \in Int
  OBVIOUS
<1> DEFINE down == x * (-2 - Base)
<1> DEFINE way == IF x <= tr.fade THEN x ELSE Warnings!Max({0, 2 * tr.fade - x})
<1> DEFINE dip == depth * way
<1>7. down \in Int /\ way \in Int
  BY <1>1, <1>2, <1>4
<1>8. dip \in Int
  BY <1>3, <1>6, <1>7
<1>9. level + down \div tr.fade \in Int /\ level + dip \div tr.fade \in Int /\ -30 \in Int
  <2> HIDE DEF level, down, dip
  <2>1. QED
    BY <1>2, <1>5, <1>7, <1>8
<1>10. Warnings!Clean(tr, shadowing, i) \in {-30, level, level + down \div tr.fade, level + dip \div tr.fade}
  BY DEF Warnings!Clean
<1>11. QED
  BY <1>2, <1>9, <1>10

\* A tick.
Ticked(c, d, o) ==
    /\ a_t' = a_t + 1 /\ a_log' = Append(a_log, Record(c, d, o))
    /\ a_held' = d /\ a_active' = o /\ a_trace' = a_trace
    /\ Warnings!Evaluate(c, o)
    /\ a_samples' = Warnings!InWindow(a_t, d)
    /\ o <=> IF Len(a_samples') < MinSamples THEN a_active ELSE Warnings!Raised(a_samples', a_t, a_active)

\* A tick adds one record to the history, whatever the trace's levels and the verdict are.
LEMMA TickIs ==
    ASSUME WarnTyped, Warnings!Next
    PROVE  \E c, d \in Int, o \in BOOLEAN : Ticked(c, d, o)
<1>1. PICK shadowing \in Shadows, noise \in Noises : Warnings!Tick(shadowing, noise)
  BY DEF Warnings!Next
<1> DEFINE clean == Warnings!Clean(a_trace, shadowing, a_t)
<1> DEFINE reading == IF a_t % ReportEvery = 0 THEN clean + noise ELSE a_held
<1> DEFINE window == Warnings!InWindow(a_t, reading)
<1> DEFINE on == IF Len(window) < MinSamples THEN a_active ELSE Warnings!Raised(window, a_t, a_active)
<1>2. clean \in Int /\ noise \in Int
  BY CleanType, WarningsAssumption DEF WarnTyped
<1>3. reading \in Int
  BY <1>2 DEF WarnTyped
<1>4. on \in BOOLEAN
  BY DEF WarnTyped, Warnings!Raised
<1>5. /\ a_held' = reading /\ a_samples' = window /\ a_active' = on /\ Warnings!Evaluate(clean, on)
      /\ a_log' = Append(a_log, Record(clean, reading, on)) /\ a_t' = a_t + 1 /\ a_trace' = a_trace
  BY <1>1, Zenon DEF Warnings!Tick, Record
<1>6. Ticked(clean, reading, on)
  <2> HIDE DEF clean, reading, window
  <2>1. on <=> IF Len(a_samples') < MinSamples THEN a_active ELSE Warnings!Raised(a_samples', a_t, a_active)
    BY <1>5
  <2> HIDE DEF on
  <2>2. window = Warnings!InWindow(a_t, reading)
    BY DEF window
  <2>3. QED
    BY <1>5, <2>1, <2>2 DEF Ticked
<1>7. QED
  BY <1>2, <1>3, <1>4, <1>6

\* What a tick adds to the history.
LEMMA OneMoreTick ==
    ASSUME WarnTyped, NEW c \in Int, NEW d \in Int, NEW o \in BOOLEAN, Ticked(c, d, o)
    PROVE  /\ a_t' \in Nat /\ a_log' \in Seq(History) /\ Len(a_log') = a_t'
           /\ DOMAIN a_log = 1..a_t /\ DOMAIN a_log' = 1..(a_t + 1)
           /\ \A i \in 1..a_t : a_log'[i] = a_log[i] /\ a_log[i] \in History
           /\ a_log'[a_t + 1].clean = c /\ a_log'[a_t + 1].on = o /\ a_log'[a_t + 1].dbm = d
<1>1. a_t' = a_t + 1 /\ a_log' = Append(a_log, Record(c, d, o))
  BY DEF Ticked
<1>2. a_log \in Seq(History) /\ Len(a_log) = a_t /\ a_t \in Nat
  BY DEF WarnTyped
<1>3. Record(c, d, o) \in History /\ Record(c, d, o).clean = c /\ Record(c, d, o).on = o /\ Record(c, d, o).dbm = d
  BY DEF Record, History
<1> DEFINE r == Record(c, d, o)
<1> HIDE DEF r
<1>4. r \in History /\ a_log' = Append(a_log, r)
  BY <1>1, <1>3 DEF r
<1>5. /\ a_log' \in Seq(History) /\ Len(a_log') = a_t + 1 /\ a_log'[a_t + 1] = r
      /\ \A i \in 1..a_t : a_log'[i] = a_log[i]
  BY <1>2, <1>4, AppendIs
<1>6. DOMAIN a_log = 1..a_t /\ DOMAIN a_log' = 1..(a_t + 1)
  BY <1>2, <1>5
<1>7. \A i \in 1..a_t : a_log[i] \in History
  BY <1>2, ElementOfSeq
<1>8. QED
  BY <1>1, <1>2, <1>3, <1>5, <1>6, <1>7 DEF r

\* The crossings, returns and beginnings of the history before stay what they are.
LEMMA OldTicks ==
    ASSUME WarnTyped, NEW c \in Int, NEW d \in Int, NEW o \in BOOLEAN, Ticked(c, d, o)
    PROVE  /\ \A i \in 1..a_t : Warnings!Down(i)' <=> Warnings!Down(i)
           /\ \A i \in 1..a_t : Warnings!Begins(i)' <=> Warnings!Begins(i)
           /\ \A i \in 1..a_t : i \in Warnings!Crossings' <=> i \in Warnings!Crossings
           /\ \A i \in 1..a_t : i \in Warnings!Returns' <=> i \in Warnings!Returns
           /\ Warnings!Crossings \subseteq 1..a_t /\ Warnings!Crossings' \subseteq 1..(a_t + 1)
           /\ Warnings!Returns \subseteq 1..a_t /\ Warnings!Returns' \subseteq 1..(a_t + 1)
<1>1. a_t \in Nat /\ DOMAIN a_log = 1..a_t /\ DOMAIN a_log' = 1..(a_t + 1) /\ \A i \in 1..a_t : a_log'[i] = a_log[i]
  BY OneMoreTick DEF WarnTyped
<1>2. \A i \in 1..a_t : i = 1 \/ i - 1 \in 1..a_t
  BY <1>1
<1>3. \A i \in 1..a_t : Warnings!Down(i)' <=> Warnings!Down(i)
  BY <1>1 DEF Warnings!Down
<1>4. \A i \in 1..a_t : Warnings!Begins(i)' <=> Warnings!Begins(i)
  BY <1>1, <1>2 DEF Warnings!Begins
<1>5. \A i \in 1..a_t : i \in 1..(a_t + 1)
  BY <1>1
<1>6. /\ Warnings!Crossings' = {i \in 1..(a_t + 1) : Warnings!Down(i)' /\ (i = 1 \/ ~Warnings!Down(i - 1)')}
      /\ Warnings!Returns' = {i \in 1..(a_t + 1) : i > 1 /\ ~Warnings!Down(i)' /\ Warnings!Down(i - 1)'}
  BY <1>1 DEF Warnings!Crossings, Warnings!Returns
<1>7. /\ Warnings!Crossings = {i \in 1..a_t : Warnings!Down(i) /\ (i = 1 \/ ~Warnings!Down(i - 1))}
      /\ Warnings!Returns = {i \in 1..a_t : i > 1 /\ ~Warnings!Down(i) /\ Warnings!Down(i - 1)}
  BY <1>1 DEF Warnings!Crossings, Warnings!Returns
<1>8. \A i \in 1..a_t : i \in Warnings!Crossings' <=> i \in Warnings!Crossings
  BY <1>2, <1>3, <1>5, <1>6, <1>7
<1>9. \A i \in 1..a_t : i \in Warnings!Returns' <=> i \in Warnings!Returns
  BY <1>2, <1>3, <1>5, <1>6, <1>7
<1>10. QED
  BY <1>3, <1>4, <1>6, <1>7, <1>8, <1>9

\* ... and the tick n is a crossing, a return or the beginning of a warning as evaluate says.
LEMMA NewTick ==
    ASSUME WarnTyped, LastTick, NEW c \in Int, NEW d \in Int, NEW o \in BOOLEAN, Ticked(c, d, o),
           NEW n \in Nat, n = a_t + 1
    PROVE  /\ Warnings!Down(n)' <=> c < 0
           /\ Warnings!Begins(n)' <=> o /\ ~a_active
           /\ n \in Warnings!Crossings' <=> c < 0 /\ ~a_down
           /\ n \in Warnings!Returns' <=> c >= 0 /\ a_down
<1>1. /\ a_t \in Nat /\ DOMAIN a_log' = 1..n /\ \A i \in 1..a_t : a_log'[i] = a_log[i]
      /\ a_log'[n].clean = c /\ a_log'[n].on = o
  BY OneMoreTick DEF WarnTyped
<1>2. (a_t # 0 => a_t \in 1..a_t) /\ n - 1 = a_t /\ n \in 1..n /\ (n = 1 <=> a_t = 0)
  BY <1>1
<1>3. Warnings!Down(n)' <=> c < 0
  BY <1>1 DEF Warnings!Down
<1>4. /\ a_t # 0 => (Warnings!Down(n - 1)' <=> a_down)
      /\ a_t # 0 => (a_log'[n - 1].on <=> a_active)
      /\ a_t = 0 => ~a_down /\ ~a_active
  BY <1>1, <1>2 DEF Warnings!Down, LastTick
<1>5. Warnings!Begins(n)' <=> o /\ ~a_active
  BY <1>1, <1>2, <1>4 DEF Warnings!Begins
<1>6. n \in Warnings!Crossings' <=> Warnings!Down(n)' /\ (n = 1 \/ ~Warnings!Down(n - 1)')
  BY <1>1, <1>2 DEF Warnings!Crossings
<1>7. n \in Warnings!Returns' <=> n > 1 /\ ~Warnings!Down(n)' /\ Warnings!Down(n - 1)'
  BY <1>1, <1>2 DEF Warnings!Returns
<1>8. n > 1 <=> a_t # 0
  BY <1>1
<1>9. c >= 0 <=> ~(c < 0)
  OBVIOUS
<1>10. QED
  BY <1>2, <1>3, <1>4, <1>5, <1>6, <1>7, <1>8, <1>9

\* What evaluate does in a tick.
LEMMA Evaluated ==
    ASSUME WarnTyped, NEW c \in Int, NEW d \in Int, NEW o \in BOOLEAN, Ticked(c, d, o)
    PROVE  LET begins == o /\ a_warn_start = -1
               ends == ~o /\ a_warn_start # -1
               crosses == ~a_down /\ c < 0
               back == a_down /\ c >= 0
               start == IF begins THEN a_t ELSE IF ends THEN -1 ELSE a_warn_start
           IN  /\ a_warn_start' = start
               /\ a_false_alarms' = IF ends /\ ~a_had_outage THEN a_false_alarms + 1 ELSE a_false_alarms
               /\ a_had_outage' \in BOOLEAN /\ (a_had_outage' <=> crosses \/ (a_had_outage /\ ~begins))
               /\ a_down' \in BOOLEAN /\ (a_down' <=> c < 0)
               /\ a_up_since' = IF back THEN a_t ELSE a_up_since
               /\ a_leads' = IF crosses /\ a_t - a_up_since >= NewOutageAfter
                             THEN Append(a_leads, IF start = -1 THEN 0 ELSE a_t - start) ELSE a_leads
<1>1. Warnings!Evaluate(c, o) /\ a_false_alarms \in Nat /\ {a_had_outage, a_down} \subseteq BOOLEAN
  BY DEF Ticked, WarnTyped
<1>2. Warnings!NoWarning = -1
  BY DEF Warnings!NoWarning
<1>3. (c >= 0 <=> ~(c < 0)) /\ (a_down = TRUE \/ a_down = FALSE) /\ (a_had_outage = TRUE \/ a_had_outage = FALSE)
  BY <1>1
<1> DEFINE begins == o /\ a_warn_start = -1
<1> DEFINE ends == ~o /\ a_warn_start # -1
<1> DEFINE crosses == ~a_down /\ c < 0
<1> DEFINE back == a_down /\ c >= 0
<1> DEFINE start == IF begins THEN a_t ELSE IF ends THEN -1 ELSE a_warn_start
<1>4. /\ a_warn_start' = start
      /\ a_false_alarms' = a_false_alarms + (IF ends /\ ~a_had_outage THEN 1 ELSE 0)
      /\ a_had_outage' = (crosses \/ (a_had_outage /\ ~begins))
      /\ a_down' = ((a_down \/ crosses) /\ ~back)
      /\ a_up_since' = (IF back THEN a_t ELSE a_up_since)
      /\ a_leads' = (IF crosses /\ a_t - a_up_since >= NewOutageAfter
                     THEN Append(a_leads, IF start = -1 THEN 0 ELSE a_t - start) ELSE a_leads)
  BY <1>1, <1>2, Zenon DEF Warnings!Evaluate
<1>5. a_false_alarms + 0 = a_false_alarms
  BY <1>1
<1>6. a_false_alarms' = IF ends /\ ~a_had_outage THEN a_false_alarms + 1 ELSE a_false_alarms
  BY <1>4, <1>5
<1>7. a_down' \in BOOLEAN /\ (a_down' <=> c < 0) /\ a_had_outage' \in BOOLEAN
  BY <1>3, <1>4
<1>8. a_had_outage' <=> crosses \/ (a_had_outage /\ ~begins)
  BY <1>4
<1>9. QED
  BY <1>4, <1>6, <1>7, <1>8

\* A tick keeps the types.
LEMMA WarnTypedKept ==
    ASSUME WarnTyped, NEW c \in Int, NEW d \in Int, NEW o \in BOOLEAN, Ticked(c, d, o)
    PROVE  WarnTyped'
<1> DEFINE start == IF o /\ a_warn_start = -1 THEN a_t ELSE IF ~o /\ a_warn_start # -1 THEN -1 ELSE a_warn_start
<1> DEFINE lead == IF start = -1 THEN 0 ELSE a_t - start
<1>1. a_t \in Nat /\ a_warn_start \in Int /\ a_up_since \in Nat /\ a_leads \in Seq(Int) /\ a_false_alarms \in Nat
  BY DEF WarnTyped
<1>2. start \in Int /\ lead \in Int
  BY <1>1
<1>3. /\ a_warn_start' = start /\ a_had_outage' \in BOOLEAN /\ a_down' \in BOOLEAN
      /\ a_false_alarms' \in Nat /\ a_up_since' \in Nat /\ a_leads' \in {a_leads, Append(a_leads, lead)}
  BY <1>1, Evaluated
<1> HIDE DEF lead, start
<1>4. a_leads' \in Seq(Int)
  <2>1. Append(a_leads, lead) \in Seq(Int)
    BY <1>1, <1>2, AppendIs
  <2>2. QED
    BY <1>1, <1>3, <2>1
<1>5. a_t' \in Nat /\ a_log' \in Seq(History) /\ Len(a_log') = a_t'
  BY OneMoreTick
<1>6. a_trace' \in Warnings!Traces /\ a_held' \in Int /\ a_active' \in BOOLEAN
  BY DEF Ticked, WarnTyped
<1>7. QED
  BY <1>2, <1>3, <1>4, <1>5, <1>6 DEF WarnTyped

\* The flags are set from the new tick.
LEMMA LastTickKept ==
    ASSUME WarnTyped, NEW c \in Int, NEW d \in Int, NEW o \in BOOLEAN, Ticked(c, d, o)
    PROVE  LastTick'
<1>1. PICK n \in Nat : n = a_t + 1
  BY DEF WarnTyped
<1>2. a_t' = n /\ n # 0 /\ a_log'[n].clean = c /\ a_log'[n].on = o
  BY <1>1, OneMoreTick DEF Ticked, WarnTyped
<1>3. Warnings!Down(n)' <=> c < 0
  BY <1>2 DEF Warnings!Down
<1>4. (a_down' <=> c < 0) /\ (a_active' <=> o)
  BY Evaluated DEF Ticked
<1>5. QED
  BY <1>2, <1>3, <1>4 DEF LastTick

\* up_since moves when the link comes back.
LEMMA LastReturnKept ==
    ASSUME WarnTyped, LastTick, LastReturn, NEW c \in Int, NEW d \in Int, NEW o \in BOOLEAN, Ticked(c, d, o)
    PROVE  LastReturn'
<1>1. PICK n \in Nat : n = a_t + 1
  BY DEF WarnTyped
<1>2. /\ \A i \in 1..a_t : i \in Warnings!Returns' <=> i \in Warnings!Returns
      /\ Warnings!Returns \subseteq 1..a_t /\ Warnings!Returns' \subseteq 1..n /\ a_t \in Nat
  BY <1>1, OldTicks DEF WarnTyped
<1>3. n \in Warnings!Returns' <=> c >= 0 /\ a_down
  BY <1>1, NewTick
<1>4. a_up_since' = IF c >= 0 /\ a_down THEN a_t ELSE a_up_since
  BY Evaluated
<1>5. \A i \in 1..n : i \in 1..a_t \/ i = n
  BY <1>1, <1>2
<1>6. CASE c >= 0 /\ a_down
  <2>1. a_up_since' + 1 = n /\ n \in Warnings!Returns'
    BY <1>1, <1>3, <1>4, <1>6
  <2>2. \A j \in Warnings!Returns' : j <= n
    BY <1>2
  <2>3. QED
    BY <2>1, <2>2 DEF LastReturn
<1>7. CASE ~(c >= 0 /\ a_down)
  <2>1. Warnings!Returns' = Warnings!Returns
    BY <1>2, <1>3, <1>5, <1>7
  <2>2. QED
    BY <1>4, <1>7, <2>1 DEF LastReturn
<1>8. QED
  BY <1>6, <1>7

\* A warning begins, goes on or ends; had_outage begins anew with it.
LEMMA WarningOnKept ==
    ASSUME WarnTyped, LastTick, WarningOn, NEW c \in Int, NEW d \in Int, NEW o \in BOOLEAN, Ticked(c, d, o)
    PROVE  WarningOn'
<1>1. PICK n \in Nat : n = a_t + 1
  BY DEF WarnTyped
<1>2. /\ a_t \in Nat /\ a_t' = n /\ a_active' = o /\ a_log'[n].on = o /\ \A i \in 1..a_t : a_log'[i] = a_log[i]
  BY <1>1, OneMoreTick DEF WarnTyped, Ticked
<1>3. /\ \A i \in 1..a_t : i \in Warnings!Crossings' <=> i \in Warnings!Crossings
      /\ \A i \in 1..a_t : Warnings!Begins(i)' <=> Warnings!Begins(i)
      /\ Warnings!Crossings \subseteq 1..a_t /\ Warnings!Crossings' \subseteq 1..n
  BY <1>1, OldTicks
<1>4. n \in Warnings!Crossings' <=> c < 0 /\ ~a_down
  BY <1>1, NewTick
<1>5. a_warn_start # -1 <=> a_active
  BY <1>2 DEF WarningOn, Warnings!NoWarning, WarnTyped
<1>6. /\ a_warn_start' = IF o /\ ~a_active THEN a_t ELSE IF ~o /\ a_active THEN -1 ELSE a_warn_start
      /\ a_had_outage' <=> (c < 0 /\ ~a_down) \/ (a_had_outage /\ ~(o /\ ~a_active))
  BY <1>5, Evaluated
<1>7. \A i \in 1..n : i \in 1..a_t \/ i = n
  BY <1>1, <1>2
<1>8. CASE ~o
  <2>1. a_warn_start' = -1 /\ ~a_active'
    BY <1>2, <1>5, <1>6, <1>8
  <2>2. QED
    BY <2>1 DEF WarningOn, Warnings!NoWarning
<1>9. CASE o /\ ~a_active
  <2>1. Warnings!Begins(n)'
    BY <1>1, <1>9, NewTick
  <2>2. a_warn_start' = a_t /\ a_active' /\ a_t \in 0..(n - 1) /\ a_t + 1 = n
    BY <1>1, <1>2, <1>6, <1>9
  <2>3. \A i \in n..n : a_log'[i].on
    <3>1. \A i \in n..n : i = n
      OBVIOUS
    <3>2. QED
      BY <1>2, <1>9, <3>1
  <2>4. a_had_outage' <=> \E i \in Warnings!Crossings' : a_t < i
    <3>1. ASSUME NEW i \in Warnings!Crossings', a_t < i PROVE i = n
      <4>1. i \in 1..n
        BY <1>3
      <4>2. QED
        BY <1>1, <1>2, <3>1, <4>1
    <3>2. a_t < n
      BY <1>1, <1>2
    <3>3. a_had_outage' <=> n \in Warnings!Crossings'
      BY <1>4, <1>6, <1>9
    <3>4. QED
      BY <3>1, <3>2, <3>3
  <2>5. QED
    BY <1>2, <2>1, <2>2, <2>3, <2>4 DEF WarningOn
<1>10. CASE o /\ a_active
  <2>1. PICK w \in 0..(a_t - 1) : w = a_warn_start
    BY <1>10 DEF WarningOn
  <2>2. /\ Warnings!Begins(w + 1) /\ (\A i \in (w + 1)..a_t : a_log[i].on)
        /\ a_had_outage <=> \E i \in Warnings!Crossings : w < i
    BY <1>10, <2>1 DEF WarningOn
  <2>3. w + 1 \in 1..a_t /\ w \in 0..(n - 1) /\ w < n
    BY <1>1, <1>2, <2>1
  <2>4. Warnings!Begins(w + 1)'
    BY <1>3, <2>2, <2>3
  <2>5. \A i \in (w + 1)..n : a_log'[i].on
    <3>1. \A i \in (w + 1)..n : i = n \/ (i \in 1..a_t /\ i \in (w + 1)..a_t)
      BY <1>1, <1>2, <2>3
    <3>2. QED
      BY <1>2, <1>10, <2>2, <3>1
  <2>6. a_had_outage' <=> \E i \in Warnings!Crossings' : w < i
    <3>1. a_had_outage' <=> n \in Warnings!Crossings' \/ \E i \in Warnings!Crossings : w < i
      BY <1>4, <1>6, <1>10, <2>2
    <3>2. (\E i \in Warnings!Crossings' : w < i) <=> n \in Warnings!Crossings' \/ \E i \in Warnings!Crossings : w < i
      BY <1>3, <1>7, <2>3
    <3>3. QED
      BY <3>1, <3>2
  <2>7. a_warn_start' = w /\ a_active'
    BY <1>2, <1>6, <1>10, <2>1
  <2>8. QED
    BY <1>2, <2>3, <2>4, <2>5, <2>6, <2>7 DEF WarningOn
<1>11. QED
  BY <1>8, <1>9, <1>10

\* Counting up to the last of a set's numbers.
LEMMA CountUp ==
    ASSUME NEW T \in SUBSET Nat, IsFiniteSet(T), NEW n \in Nat, \A i \in T : i < n
    PROVE  /\ Cardinality(T) \in Nat
           /\ IsFiniteSet(T \union {n}) /\ Cardinality(T \union {n}) = Cardinality(T) + 1
           /\ {j \in T \union {n} : j <= n} = T \union {n}
           /\ \A i \in T : {j \in T \union {n} : j <= i} = {j \in T : j <= i}
           /\ \A i \in T : Cardinality({j \in T : j <= i}) \in 1..Cardinality(T)
<1>1. n \notin T
  OBVIOUS
<1>2. Cardinality(T) \in Nat
  BY FS_CardinalityType
<1>3. IsFiniteSet(T \union {n}) /\ Cardinality(T \union {n}) = Cardinality(T) + 1
  BY <1>1, FS_AddElement
<1>4. n <= n /\ \A i \in T : i <= n /\ ~(n <= i)
  OBVIOUS
<1>5. {j \in T \union {n} : j <= n} = T \union {n}
  BY <1>4
<1>6. \A i \in T : {j \in T \union {n} : j <= i} = {j \in T : j <= i}
  BY <1>4
<1>7. ASSUME NEW i \in T PROVE Cardinality({j \in T : j <= i}) \in 1..Cardinality(T)
  <2> DEFINE U == {j \in T : j <= i}
  <2>1. U \subseteq T /\ i \in U
    OBVIOUS
  <2> HIDE DEF U
  <2>2. IsFiniteSet(U) /\ Cardinality(U) <= Cardinality(T)
    BY <2>1, FS_Subset
  <2>3. Cardinality(U) \in Nat /\ (Cardinality(U) = 0 <=> U = {})
    BY <2>2, FS_CardinalityType, FS_EmptySet
  <2>4. Cardinality(U) \in 1..Cardinality(T)
    BY <1>2, <2>1, <2>2, <2>3
  <2>5. QED
    BY <2>4 DEF U
<1>8. QED
  BY <1>2, <1>3, <1>5, <1>6, <1>7

\* An outage's crossing and its lead are the same as the trace goes on, and the tick n is a new
\* one's as evaluate says.
LEMMA OutagesGrow ==
    ASSUME WarnTyped, LastTick, LastReturn, WarningOn,
           NEW c \in Int, NEW d \in Int, NEW o \in BOOLEAN, Ticked(c, d, o),
           NEW n \in Nat, n = a_t + 1
    PROVE  /\ Warnings!Outages \subseteq 1..a_t /\ Warnings!Outages' \subseteq 1..n
           /\ \A i \in 1..a_t : i \in Warnings!Outages' <=> i \in Warnings!Outages
           /\ n \in Warnings!Outages' <=> c < 0 /\ ~a_down /\ a_t - a_up_since >= NewOutageAfter
<1>1. /\ \A i \in 1..a_t : i \in Warnings!Returns' <=> i \in Warnings!Returns
      /\ \A i \in 1..a_t : i \in Warnings!Crossings' <=> i \in Warnings!Crossings
      /\ Warnings!Returns \subseteq 1..a_t /\ Warnings!Returns' \subseteq 1..n /\ a_t \in Nat
      /\ Warnings!Crossings \subseteq 1..a_t /\ Warnings!Crossings' \subseteq 1..n
  BY OldTicks DEF WarnTyped
<1>2. \A i \in 1..n : {j \in Warnings!Returns' : j < i} = {j \in Warnings!Returns : j < i}
  <2>1. ASSUME NEW i \in 1..n PROVE {j \in Warnings!Returns' : j < i} = {j \in Warnings!Returns : j < i}
    <3>1. \A j \in 1..n : j < i => j \in 1..a_t
      BY <1>1
    <3>2. \A j : j \in Warnings!Returns' /\ j < i <=> j \in Warnings!Returns /\ j < i
      <4>1. \A j \in Warnings!Returns : j \in 1..a_t
        BY <1>1
      <4>2. \A j \in Warnings!Returns' : j \in 1..n
        BY <1>1
      <4>3. QED
        BY <1>1, <3>1, <4>1, <4>2
    <3>3. QED
      BY <3>2
  <2>2. QED
    BY <2>1
<1>3. \A i \in 1..n : Warnings!UpSince(i)' = Warnings!UpSince(i)
  BY <1>2 DEF Warnings!UpSince
<1>4. Warnings!UpSince(n) = a_up_since + 1
  <2> DEFINE T == {1} \union {j \in Warnings!Returns : j < n}
  <2>6. \A j \in Warnings!Returns : j \in Nat /\ j < n
    <3>1. \A j \in 1..a_t : j \in Nat /\ j < n
      BY <1>1
    <3>2. QED
      BY <1>1, <3>1
  <2>1. T = {1} \union Warnings!Returns
    BY <2>6
  <2>2. T \in SUBSET Nat
    BY <2>6
  <2>3. a_up_since + 1 \in T /\ \A j \in T : j <= a_up_since + 1
    BY <2>1 DEF LastReturn, WarnTyped
  <2> HIDE DEF T
  <2>4. Warnings!Max(T) = a_up_since + 1
    BY <2>2, <2>3, WarnMaxIs
  <2>5. QED
    BY <2>4 DEF T, Warnings!UpSince
<1>5. \A i \in 1..a_t : i \in 1..n
  BY <1>1
<1>6. /\ Warnings!Outages = {i \in Warnings!Crossings : i - Warnings!UpSince(i) >= NewOutageAfter}
      /\ Warnings!Outages' = {i \in Warnings!Crossings' : i - Warnings!UpSince(i)' >= NewOutageAfter}
  BY DEF Warnings!Outages
<1>7. \A i \in 1..a_t : i \in Warnings!Outages' <=> i \in Warnings!Outages
  BY <1>1, <1>3, <1>5, <1>6
<1>8. n - (a_up_since + 1) = a_t - a_up_since /\ n \in 1..n
  BY <1>1 DEF WarnTyped
<1>9. n \in Warnings!Outages' <=> c < 0 /\ ~a_down /\ a_t - a_up_since >= NewOutageAfter
  <2>1. n \in Warnings!Crossings' <=> c < 0 /\ ~a_down
    BY NewTick
  <2>2. QED
    BY <1>3, <1>4, <1>6, <1>8, <2>1
<1>10. QED
  BY <1>1, <1>6, <1>7, <1>9

\* What is counted as a lead is the time since the warning began, or 0 without one.
LEMMA LeadIs ==
    ASSUME WarnTyped, LastTick, WarningOn,
           NEW c \in Int, NEW d \in Int, NEW o \in BOOLEAN, Ticked(c, d, o),
           NEW n \in Nat, n = a_t + 1
    PROVE  /\ \A i \in 1..a_t : Warnings!Lead(i)' = Warnings!Lead(i)
           /\ Warnings!Lead(n)' = IF a_warn_start' = -1 THEN 0 ELSE a_t - a_warn_start'
<1>1. /\ a_t \in Nat /\ a_t' = n /\ \A i \in 1..a_t : a_log'[i] = a_log[i]
      /\ a_active' = o /\ a_log'[n].on = o
      /\ \A i \in 1..a_t : Warnings!Begins(i)' <=> Warnings!Begins(i)
  BY OneMoreTick, OldTicks DEF WarnTyped, Ticked
<1>2. ASSUME NEW i \in 1..a_t PROVE Warnings!Lead(i)' = Warnings!Lead(i)
  <2>1. \A j \in 1..i : j \in 1..a_t
    BY <1>1
  <2>2. {j \in 1..i : Warnings!Begins(j)'} = {j \in 1..i : Warnings!Begins(j)}
    BY <1>1, <2>1
  <2>3. QED
    BY <1>1, <2>2 DEF Warnings!Lead
<1>3. WarningOn'
  BY WarningOnKept
<1>4. Warnings!Lead(n)' = IF o THEN n - Warnings!Max({j \in 1..n : Warnings!Begins(j)'}) ELSE 0
  BY <1>1 DEF Warnings!Lead
<1>5. CASE ~o
  <2>1. a_warn_start' = -1
    BY <1>1, <1>3, <1>5 DEF WarningOn, Warnings!NoWarning
  <2>2. Warnings!Lead(n)' = 0
    BY <1>4, <1>5
  <2>3. QED
    BY <1>2, <2>1, <2>2
<1>6. CASE o
  <2>1. PICK w \in 0..(n - 1) : w = a_warn_start'
    BY <1>1, <1>3, <1>6 DEF WarningOn
  <2>2. Warnings!Begins(w + 1)' /\ \A i \in (w + 1)..n : a_log'[i].on
    BY <1>1, <1>3, <1>6, <2>1 DEF WarningOn
  <2> DEFINE T == {j \in 1..n : Warnings!Begins(j)'}
  <2>9. w \in Nat /\ w + 1 \in 1..n
    <3>1. n \in Nat /\ w \in 0..(n - 1)
      OBVIOUS
    <3>2. QED
      BY <3>1
  <2>3. T \in SUBSET Nat /\ w + 1 \in T
    <3>1. \A j \in 1..n : j \in Nat
      OBVIOUS
    <3>2. QED
      BY <2>2, <2>9, <3>1
  <2>4. ASSUME NEW j \in T PROVE j <= w + 1
    <3>1. ASSUME j > w + 1 PROVE FALSE
      <4>0. j \in 1..n
        BY <2>4
      <4>1. j - 1 \in (w + 1)..n /\ j # 1
        BY <2>9, <3>1, <4>0
      <4>2. Warnings!Begins(j)'
        BY <2>4
      <4>3. a_log'[j - 1].on
        BY <2>2, <4>1
      <4>4. QED
        BY <4>1, <4>2, <4>3 DEF Warnings!Begins
    <3>2. j \in Nat
      OBVIOUS
    <3>3. QED
      BY <2>9, <3>1, <3>2
  <2> HIDE DEF T
  <2>5. Warnings!Max(T) = w + 1
    BY <2>1, <2>3, <2>4, WarnMaxIs
  <2>6. Warnings!Lead(n)' = n - (w + 1)
    BY <1>4, <1>6, <2>5 DEF T
  <2>7. n - (w + 1) = a_t - w /\ w # -1
    BY <1>1, <2>9
  <2>8. QED
    BY <1>2, <2>1, <2>6, <2>7
<1>7. QED
  BY <1>2, <1>5, <1>6

\* A crossing that is an outage of its own adds its lead, the last one.
LEMMA LeadsCountedKept ==
    ASSUME WarnInv, NEW c \in Int, NEW d \in Int, NEW o \in BOOLEAN, Ticked(c, d, o)
    PROVE  LeadsCounted'
<1>1. PICK n \in Nat : n = a_t + 1
  BY DEF WarnInv, WarnTyped
<1>2. /\ Warnings!Outages \subseteq 1..a_t /\ Warnings!Outages' \subseteq 1..n
      /\ \A i \in 1..a_t : i \in Warnings!Outages' <=> i \in Warnings!Outages
      /\ n \in Warnings!Outages' <=> c < 0 /\ ~a_down /\ a_t - a_up_since >= NewOutageAfter
  BY <1>1, OutagesGrow DEF WarnInv
<1>3. /\ \A i \in 1..a_t : Warnings!Lead(i)' = Warnings!Lead(i)
      /\ Warnings!Lead(n)' = IF a_warn_start' = -1 THEN 0 ELSE a_t - a_warn_start'
  BY <1>1, LeadIs DEF WarnInv
<1>4. /\ a_t \in Nat /\ a_leads \in Seq(Int) /\ Len(a_leads) = Cardinality(Warnings!Outages)
      /\ \A i \in Warnings!Outages :
            a_leads[Cardinality({j \in Warnings!Outages : j <= i})] = Warnings!Lead(i)
  BY DEF WarnInv, WarnTyped, LeadsCounted
<1>5. a_leads' = IF c < 0 /\ ~a_down /\ a_t - a_up_since >= NewOutageAfter
                 THEN Append(a_leads, IF a_warn_start' = -1 THEN 0 ELSE a_t - a_warn_start')
                 ELSE a_leads
  BY Evaluated DEF WarnInv
<1>6. \A i \in 1..n : i \in 1..a_t \/ i = n
  BY <1>1, <1>4
<1> DEFINE T == Warnings!Outages
<1> DEFINE U == Warnings!Outages'
<1>7. T \in SUBSET Nat /\ IsFiniteSet(T) /\ \A i \in T : i < n
  <2>1. IsFiniteSet(1..a_t)
    BY <1>4, FS_Interval
  <2>2. QED
    <3>1. T \subseteq 1..a_t /\ \A i \in 1..a_t : i \in Nat /\ i < n
      BY <1>1, <1>2, <1>4
    <3>2. IsFiniteSet(T)
      BY <2>1, <3>1, FS_Subset
    <3>3. QED
      BY <3>1, <3>2
<1> DEFINE lead == IF a_warn_start' = -1 THEN 0 ELSE a_t - a_warn_start'
<1>8. CASE n \in U
  <2>1. U = T \union {n}
    BY <1>2, <1>6, <1>8
  <2>2. a_leads' = Append(a_leads, lead) /\ lead \in Int
    <3>1. a_warn_start' \in Int
      BY WarnTypedKept DEF WarnInv, WarnTyped
    <3>2. QED
      BY <1>2, <1>4, <1>5, <1>8, <3>1
  <2> HIDE DEF lead
  <2>3. /\ Len(a_leads') = Len(a_leads) + 1 /\ a_leads'[Len(a_leads) + 1] = lead
        /\ \A k \in 1..Len(a_leads) : a_leads'[k] = a_leads[k]
    BY <1>4, <2>2, AppendIs
  <2>4. /\ Cardinality(T) \in Nat /\ Cardinality(T \union {n}) = Cardinality(T) + 1
        /\ {j \in T \union {n} : j <= n} = T \union {n}
        /\ \A i \in T : {j \in T \union {n} : j <= i} = {j \in T : j <= i}
        /\ \A i \in T : Cardinality({j \in T : j <= i}) \in 1..Cardinality(T)
    BY <1>7, CountUp
  <2>5. ASSUME NEW i \in U PROVE a_leads'[Cardinality({j \in U : j <= i})] = Warnings!Lead(i)'
    <3>1. CASE i = n
      <4>1. Cardinality({j \in U : j <= n}) = Len(a_leads) + 1
        BY <1>4, <2>1, <2>4
      <4>2. Warnings!Lead(n)' = lead
        BY <1>3 DEF lead
      <4>3. QED
        BY <2>3, <3>1, <4>1, <4>2
    <3>2. CASE i # n
      <4>1. i \in T /\ i \in 1..a_t
        BY <1>2, <1>6, <3>2
      <4>2. {j \in U : j <= i} = {j \in T : j <= i}
        BY <2>1, <2>4, <4>1
      <4>3. Cardinality({j \in T : j <= i}) \in 1..Len(a_leads)
        BY <1>4, <2>4, <4>1
      <4>4. QED
        BY <1>3, <1>4, <2>3, <4>1, <4>2, <4>3
    <3>3. QED
      BY <3>1, <3>2
  <2>6. Len(a_leads') = Cardinality(U)
    BY <1>4, <2>1, <2>3, <2>4
  <2>7. QED
    BY <2>5, <2>6 DEF LeadsCounted
<1>9. CASE n \notin U
  <2>1. U = T
    BY <1>2, <1>6, <1>9
  <2>2. a_leads' = a_leads
    BY <1>2, <1>5, <1>9
  <2>3. \A i \in U : Warnings!Lead(i)' = Warnings!Lead(i)
    BY <1>2, <1>3, <2>1
  <2>4. QED
    BY <1>4, <2>1, <2>2, <2>3 DEF LeadsCounted
<1>10. QED
  BY <1>8, <1>9

\* The warnings that are over grow by the one that ends.
LEMMA OverGrows ==
    ASSUME WarnTyped, LastTick, WarningOn,
           NEW c \in Int, NEW d \in Int, NEW o \in BOOLEAN, Ticked(c, d, o), NEW n \in Nat, n = a_t + 1
    PROVE  Over' = Over \union (IF a_active /\ ~o THEN {<<a_warn_start + 1, a_t>>} ELSE {})
<1>1. /\ a_t \in Nat /\ a_t' = n /\ \A i \in 1..a_t : a_log'[i] = a_log[i]
      /\ a_log'[n].on = o /\ \A i \in 1..a_t : Warnings!Begins(i)' <=> Warnings!Begins(i)
  BY OneMoreTick, OldTicks DEF WarnTyped, Ticked
<1> DEFINE P(v, w) == /\ v <= w /\ Warnings!Begins(v) /\ (\A i \in v..w : a_log[i].on)
<1> DEFINE Q(v, w) == /\ v <= w /\ Warnings!Begins(v)' /\ (\A i \in v..w : a_log'[i].on)
<1>2. \A v, w \in 1..a_t : P(v, w) <=> Q(v, w)
  <2>1. \A v, w \in 1..a_t : \A i \in v..w : i \in 1..a_t
    BY <1>1
  <2>2. QED
    BY <1>1, <2>1
<1>3. \A v, w \in 1..a_t : <<v, w>> \in Over <=> P(v, w) /\ w < a_t /\ ~a_log[w + 1].on
  BY DEF Over
<1>4. \A v, w \in 1..n : <<v, w>> \in Over' <=> Q(v, w) /\ w < n /\ ~a_log'[w + 1].on
  BY <1>1 DEF Over
<1>5. Over \subseteq (1..a_t) \X (1..a_t) /\ Over' \subseteq (1..n) \X (1..n)
  BY <1>1 DEF Over
<1> DEFINE ended == IF a_active /\ ~o THEN {<<a_warn_start + 1, a_t>>} ELSE {}
\* A warning still on at the tick before is the one that began at warn_start.
<1>6. ASSUME NEW v \in 1..a_t PROVE P(v, a_t) <=> a_active /\ v = a_warn_start + 1
  <2>1. a_t \in v..a_t /\ a_t # 0
    BY <1>1
  <2>2. a_active <=> a_log[a_t].on
    BY <2>1 DEF LastTick
  <2>3. P(v, a_t) => a_active
    BY <2>1, <2>2
  <2>4. ASSUME a_active PROVE P(v, a_t) <=> v = a_warn_start + 1
    <3>1. PICK w \in 0..(a_t - 1) : w = a_warn_start
      BY <2>4 DEF WarningOn
    <3>2. w \in Nat /\ w + 1 \in 1..a_t /\ Warnings!Begins(w + 1) /\ \A i \in (w + 1)..a_t : a_log[i].on
      BY <1>1, <2>4, <3>1 DEF WarningOn
    <3>3. v = w + 1 => P(v, a_t)
      BY <3>2
    <3>4. ASSUME P(v, a_t), v < w + 1 PROVE FALSE
      <4>1. w \in v..a_t /\ w + 1 # 1 /\ (w + 1) - 1 = w
        BY <1>1, <3>2, <3>4
      <4>2. a_log[w].on
        BY <3>4, <4>1
      <4>3. QED
        BY <3>2, <4>1, <4>2 DEF Warnings!Begins
    <3>5. ASSUME P(v, a_t), w + 1 < v PROVE FALSE
      <4>1. v - 1 \in (w + 1)..a_t /\ v # 1
        BY <1>1, <3>2, <3>5
      <4>2. a_log[v - 1].on
        BY <3>2, <4>1
      <4>3. QED
        BY <3>5, <4>1, <4>2 DEF Warnings!Begins
    <3>6. v < w + 1 \/ v = w + 1 \/ w + 1 < v
      BY <3>2
    <3>7. QED
      BY <3>1, <3>3, <3>4, <3>5, <3>6
  <2>5. QED
    BY <2>3, <2>4
<1> HIDE DEF P, Q
<1>7. ASSUME NEW v \in 1..n, NEW w \in 1..n
      PROVE  <<v, w>> \in Over' <=> <<v, w>> \in Over \/ <<v, w>> \in ended
  <2>1. CASE w = n
    <3>1. <<v, w>> \notin Over' /\ <<v, w>> \notin Over
      BY <1>1, <1>4, <1>5, <2>1
    <3>2. <<v, w>> \notin ended
      BY <1>1, <2>1
    <3>3. QED
      BY <3>1, <3>2
  <2>2. CASE v = n /\ w # n
    <3>1. <<v, w>> \notin Over
      BY <1>1, <1>5, <2>2
    <3>2. <<v, w>> \notin Over'
      BY <1>1, <1>4, <2>2 DEF Q
    <3>3. a_active => a_warn_start + 1 # n
      BY <1>1 DEF WarningOn
    <3>4. QED
      BY <2>2, <3>1, <3>2, <3>3
  <2>3. CASE v \in 1..a_t /\ w \in 1..a_t /\ w < a_t
    <3>1. a_log'[w + 1] = a_log[w + 1]
      BY <1>1, <2>3
    <3>2. w < n /\ w # a_t
      BY <1>1, <2>3
    <3>3. QED
      BY <1>2, <1>3, <1>4, <2>3, <3>1, <3>2
  <2>4. CASE v \in 1..a_t /\ w = a_t
    <3>1. <<v, w>> \notin Over /\ w \in 1..a_t
      BY <1>1, <1>3, <2>4
    <3>2. <<v, w>> \in Over' <=> P(v, a_t) /\ ~o
      <4>1. w < n /\ w + 1 = n
        BY <1>1, <2>4
      <4>2. QED
        BY <1>1, <1>2, <1>4, <2>4, <3>1, <4>1
    <3>3. <<v, w>> \in ended <=> a_active /\ ~o /\ v = a_warn_start + 1
      BY <2>4
    <3>4. QED
      BY <1>6, <2>4, <3>1, <3>2, <3>3
  <2>5. QED
    BY <1>1, <2>1, <2>2, <2>3, <2>4
<1>8. ended \subseteq (1..n) \X (1..n)
  <2>1. ASSUME a_active PROVE a_warn_start + 1 \in 1..n /\ a_t \in 1..n
    <3>1. a_warn_start \in 0..(a_t - 1) /\ a_warn_start \in Int
      BY <2>1 DEF WarningOn, WarnTyped
    <3>2. QED
      BY <1>1, <3>1
  <2>2. QED
    BY <2>1
<1>9. Over \subseteq (1..n) \X (1..n)
  <2>1. \A i \in 1..a_t : i \in 1..n
    BY <1>1
  <2>2. QED
    BY <1>5, <2>1
<1> HIDE DEF ended
<1>10. Over' = Over \union ended
  BY <1>5, <1>7, <1>8, <1>9
<1>11. QED
  BY <1>10 DEF ended

\* The warnings that are over are finitely many.
LEMMA OverFinite ==
    ASSUME WarnTyped
    PROVE  /\ Over \subseteq (1..a_t) \X (1..a_t) /\ IsFiniteSet(Over)
           /\ \A T \in SUBSET Over : IsFiniteSet(T) /\ Cardinality(T) \in Nat
<1>1. a_t \in Nat
  BY DEF WarnTyped
<1>2. IsFiniteSet(1..a_t)
  BY <1>1, FS_Interval
<1>3. IsFiniteSet((1..a_t) \X (1..a_t))
  BY <1>2, FS_Product
<1>4. Over \subseteq (1..a_t) \X (1..a_t)
  BY DEF Over
<1>5. QED
  BY <1>3, <1>4, FS_Subset, FS_CardinalityType

\* A warning that ends adds one to the false alarms when no crossing came in it.
LEMMA FalseAlarmsKept ==
    ASSUME WarnInv, NEW c \in Int, NEW d \in Int, NEW o \in BOOLEAN, Ticked(c, d, o)
    PROVE  a_false_alarms' = Cardinality(Idle')
<1>1. PICK n \in Nat : n = a_t + 1
  BY DEF WarnInv, WarnTyped
<1>2. /\ \A i \in 1..a_t : i \in Warnings!Crossings' <=> i \in Warnings!Crossings
      /\ Warnings!Crossings \subseteq 1..a_t /\ Warnings!Crossings' \subseteq 1..n /\ a_t \in Nat
  BY <1>1, OldTicks DEF WarnInv, WarnTyped
<1>3. Over' = Over \union (IF a_active /\ ~o THEN {<<a_warn_start + 1, a_t>>} ELSE {})
  BY <1>1, OverGrows DEF WarnInv
<1>4. \A w \in Over : w[1] \in 1..a_t /\ w[2] \in 1..a_t /\ w[2] < a_t
  BY DEF Over
<1>5. \A w \in Over : w \in Idle' <=> w \in Idle
  <2>1. ASSUME NEW w \in Over PROVE w \in Idle' <=> w \in Idle
    <3>1. \A i \in 1..n : i \in w[1]..w[2] => i \in 1..a_t
      BY <1>1, <1>2, <1>4
    <3>2. (\A i \in Warnings!Crossings' : i \notin w[1]..w[2]) <=> (\A i \in Warnings!Crossings : i \notin w[1]..w[2])
      <4>1. \A i \in 1..a_t : i \in 1..n
        BY <1>1, <1>2
      <4>2. QED
        BY <1>2, <3>1, <4>1
    <3>3. w \in Over' /\ w' = w
      BY <1>3
    <3>4. w \in Idle <=> \A i \in Warnings!Crossings : i \notin w[1]..w[2]
      BY DEF Idle
    <3>5. w \in Idle' <=> \A i \in Warnings!Crossings' : i \notin w[1]..w[2]
      BY <3>3 DEF Idle
    <3>6. QED
      BY <3>2, <3>4, <3>5
  <2>2. QED
    BY <2>1
<1>6. Idle \subseteq Over /\ Idle' \subseteq Over'
  BY DEF Idle
<1>7. a_warn_start # -1 <=> a_active
  BY <1>2 DEF WarnInv, WarningOn, Warnings!NoWarning, WarnTyped
<1>8. a_false_alarms' = IF ~o /\ a_active /\ ~a_had_outage THEN a_false_alarms + 1 ELSE a_false_alarms
  BY <1>7, Evaluated DEF WarnInv
<1>9. a_false_alarms = Cardinality(Idle) /\ IsFiniteSet(Idle) /\ Cardinality(Idle) \in Nat
  BY <1>6, OverFinite DEF WarnInv
<1>10. CASE a_active /\ ~o
  <2>1. PICK v \in 1..a_t : v = a_warn_start + 1
    <3>1. a_warn_start + 1 \in 1..a_t
      BY <1>2, <1>10 DEF WarnInv, WarningOn
    <3>2. QED
      BY <3>1
  <2>2. a_had_outage <=> \E i \in Warnings!Crossings : i \in v..a_t
    <3>1. a_had_outage <=> \E i \in Warnings!Crossings : a_warn_start < i
      BY <1>10 DEF WarnInv, WarningOn
    <3>2. \A i \in 1..a_t : i \in v..a_t <=> v <= i
      BY <1>2
    <3>3. \A i \in 1..a_t : a_warn_start < i <=> v <= i
      BY <1>2, <2>1 DEF WarnInv, WarnTyped
    <3>4. QED
      BY <1>2, <3>1, <3>2, <3>3
  <2> DEFINE new == <<v, a_t>>
  <2>3. PICK m \in Nat : m = a_t
    BY <1>2
  <2> DEFINE w == <<v, m>>
  <2>4. Over' = Over \union {w} /\ w \notin Over
    <3>1. w \notin Over
      BY <1>2, <2>3 DEF Over
    <3>2. QED
      BY <1>3, <1>10, <2>1, <2>3, <3>1
  <2>5. w \in Idle' <=> ~a_had_outage
    <3>1. w \in Idle' <=> \A i \in Warnings!Crossings' : i \notin v..m
      BY <2>4 DEF Idle
    <3>2. \A i \in v..m : i \in 1..a_t /\ i \in 1..n
      BY <1>1, <1>2, <2>3
    <3>3. QED
      BY <1>2, <2>2, <2>3, <3>1, <3>2
  <2> HIDE DEF w
  <2>6. Idle' = Idle \union (IF a_had_outage THEN {} ELSE {w})
    BY <1>5, <1>6, <2>4, <2>5
  <2>7. w \notin Idle
    BY <1>6, <2>4
  <2>8. Cardinality(Idle \union {w}) = Cardinality(Idle) + 1
    BY <1>9, <2>7, FS_AddElement
  <2>9. CASE a_had_outage
    BY <1>8, <1>9, <2>6, <2>9
  <2>10. CASE ~a_had_outage
    BY <1>8, <1>9, <1>10, <2>6, <2>8, <2>10
  <2>11. QED
    BY <2>9, <2>10
<1>11. CASE ~(a_active /\ ~o)
  <2>1. Over' = Over
    BY <1>3, <1>11
  <2>2. Idle' = Idle
    BY <1>5, <1>6, <2>1
  <2>3. QED
    BY <1>8, <1>9, <1>11, <2>2
<1>12. QED
  BY <1>10, <1>11

\* Every tick keeps WarnInv.
LEMMA WarnKeeps == ASSUME WarnInv, Warnings!Next PROVE WarnInv'
<1>1. PICK c \in Int, d \in Int, o \in BOOLEAN : Ticked(c, d, o)
  BY TickIs DEF WarnInv
<1>2. QED
  BY <1>1, WarnTypedKept, LastTickKept, WarningOnKept, LastReturnKept, LeadsCountedKept, FalseAlarmsKept
     DEF WarnInv

\* So does a step of another part.
LEMMA WarnStutters == ASSUME WarnInv, UNCHANGED WarningsVars PROVE WarnInv'
<1>1. /\ a_t' = a_t /\ a_log' = a_log /\ a_active' = a_active /\ a_down' = a_down
      /\ a_had_outage' = a_had_outage /\ a_warn_start' = a_warn_start /\ a_up_since' = a_up_since
      /\ a_leads' = a_leads /\ a_false_alarms' = a_false_alarms /\ a_trace' = a_trace /\ a_held' = a_held
  BY DEF WarningsVars
<1>2. \A i : (Warnings!Down(i)' <=> Warnings!Down(i)) /\ (Warnings!Begins(i)' <=> Warnings!Begins(i))
  BY <1>1 DEF Warnings!Down, Warnings!Begins
<1>3. Warnings!Crossings' = Warnings!Crossings /\ Warnings!Returns' = Warnings!Returns
  BY <1>1 DEF Warnings!Crossings, Warnings!Returns, Warnings!Down
<1>4. \A i : Warnings!UpSince(i)' = Warnings!UpSince(i) /\ Warnings!Lead(i)' = Warnings!Lead(i)
  BY <1>1, <1>3 DEF Warnings!UpSince, Warnings!Lead, Warnings!Begins
<1>5. Warnings!Outages' = Warnings!Outages
  BY <1>3, <1>4 DEF Warnings!Outages
<1>6. Over' = Over
  BY <1>1 DEF Over, Warnings!Begins
<1>7. Idle' = Idle
  BY <1>3, <1>6 DEF Idle
<1>8. WarnTyped' /\ LastTick'
  BY <1>1 DEF WarnInv, WarnTyped, LastTick, Warnings!Traces, Warnings!Down
<1>9. WarningOn' /\ LastReturn'
  BY <1>1, <1>3 DEF WarnInv, WarningOn, LastReturn, Warnings!Begins, Warnings!NoWarning
<1>10. LeadsCounted'
  BY <1>1, <1>4, <1>5 DEF WarnInv, LeadsCounted
<1>11. QED
  BY <1>1, <1>7, <1>8, <1>9, <1>10 DEF WarnInv

\* An empty history has nothing to count.
LEMMA WarnBegins == Warnings!Init => WarnInv
<1> SUFFICES ASSUME Warnings!Init PROVE WarnInv
  OBVIOUS
<1>1. /\ a_t = 0 /\ a_log = <<>> /\ a_active = FALSE /\ a_down = FALSE /\ a_had_outage = FALSE
      /\ a_warn_start = Warnings!NoWarning /\ a_up_since = 0 /\ a_leads = <<>> /\ a_false_alarms = 0
      /\ a_trace \in Warnings!Traces /\ a_held = 0
  BY DEF Warnings!Init
<1>2. <<>> \in Seq(History) /\ Len(<<>>) = 0 /\ <<>> \in Seq(Int) /\ DOMAIN <<>> = {}
  OBVIOUS
<1>3. WarnTyped
  <2>1. Warnings!NoWarning \in Int
    BY DEF Warnings!NoWarning
  <2>2. a_log \in Seq(History) /\ Len(a_log) = a_t /\ a_leads \in Seq(Int)
    BY <1>1, <1>2
  <2>3. {a_active, a_had_outage, a_down} \subseteq BOOLEAN
    BY <1>1
  <2>4. a_t \in Nat /\ a_held \in Int /\ a_warn_start \in Int /\ a_up_since \in Nat /\ a_false_alarms \in Nat
    BY <1>1, <2>1
  <2>5. QED
    BY <1>1, <2>2, <2>3, <2>4 DEF WarnTyped
<1>4. LastTick /\ WarningOn
  BY <1>1 DEF LastTick, WarningOn
<1>5. Warnings!Crossings = {} /\ Warnings!Returns = {}
  BY <1>1, <1>2 DEF Warnings!Crossings, Warnings!Returns
<1>6. Warnings!Outages = {} /\ Idle = {}
  <2>1. Over = {}
    BY <1>1 DEF Over
  <2>2. QED
    BY <1>5, <2>1 DEF Warnings!Outages, Idle
<1>7. Cardinality({}) = 0
  BY FS_EmptySet
<1>8. LastReturn
  BY <1>1, <1>5 DEF LastReturn
<1>9. QED
  BY <1>1, <1>2, <1>3, <1>4, <1>6, <1>7, <1>8 DEF WarnInv, LeadsCounted

\* A warning with no crossing in it either saw no outage, or was on in one that had begun before.
LEMMA IdleOnes ==
    ASSUME WarnInv
    PROVE  Cardinality(Idle) =
              Warnings!Cardinality({w \in Warnings!Warnings : Warnings!Ended(w) /\ ~Warnings!OutageIn(w)})
                + Warnings!Cardinality({w \in Warnings!Warnings :
                      /\ Warnings!BegunInOutage(w) /\ w[1]..w[2] \intersect Warnings!Crossings = {}
                      /\ Warnings!Ended(w)})
<1>1. a_t \in Nat /\ DOMAIN a_log = 1..a_t /\ Len(a_log) = a_t
  BY DEF WarnInv, WarnTyped
<1>2. \A w : w \in Over <=> w \in Warnings!Warnings /\ Warnings!Ended(w)
  <2>1. \A w \in (1..a_t) \X (1..a_t) : w[1] <= w[2] => w[1] \in w[1]..w[2]
    OBVIOUS
  <2>2. \A w \in (1..a_t) \X (1..a_t) : w[2] < a_t => w[2] # a_t
    BY <1>1
  <2>3. QED
    BY <1>1, <2>1, <2>2 DEF Over, Warnings!Warnings, Warnings!Ended, Warnings!Begins
<1> DEFINE A == {w \in Warnings!Warnings : Warnings!Ended(w) /\ ~Warnings!OutageIn(w)}
<1> DEFINE B == {w \in Warnings!Warnings :
                      /\ Warnings!BegunInOutage(w) /\ w[1]..w[2] \intersect Warnings!Crossings = {}
                      /\ Warnings!Ended(w)}
<1>3. \A w : w \in A <=> (w \in Over /\ \A i \in w[1]..w[2] : ~Warnings!Down(i))
  BY <1>2 DEF Warnings!OutageIn
<1>4. \A w : w \in B <=> /\ w \in Over /\ w[1] \notin Warnings!Crossings /\ Warnings!Down(w[1])
                         /\ \A i \in Warnings!Crossings : i \notin w[1]..w[2]
  <2>1. \A w : w[1]..w[2] \intersect Warnings!Crossings = {}
                 <=> \A i \in Warnings!Crossings : i \notin w[1]..w[2]
    OBVIOUS
  <2>2. \A w : w \in B <=> /\ w \in Warnings!Warnings /\ Warnings!BegunInOutage(w)
                           /\ w[1]..w[2] \intersect Warnings!Crossings = {} /\ Warnings!Ended(w)
    BY Zenon
  <2>3. QED
    BY <1>2, <2>1, <2>2 DEF Warnings!BegunInOutage
<1> HIDE DEF A, B
<1>5. \A w \in Over : w[1] \in 1..a_t /\ w[2] \in 1..a_t /\ w[1] \in w[1]..w[2] /\ \A i \in w[1]..w[2] : i \in 1..a_t
  BY <1>1 DEF Over
<1>6. A \intersect B = {}
  BY <1>3, <1>4, <1>5
<1>7. \A i \in 1..a_t : i \in Warnings!Crossings <=> Warnings!Down(i) /\ (i = 1 \/ ~Warnings!Down(i - 1))
  BY <1>1 DEF Warnings!Crossings
<1>8. ASSUME NEW w \in Over, \A i \in Warnings!Crossings : i \notin w[1]..w[2], w \notin A PROVE w \in B
  <2> DEFINE T == {i \in w[1]..w[2] : Warnings!Down(i)}
  <2>1. T \in SUBSET Nat /\ T # {}
    <3>1. \A i \in w[1]..w[2] : i \in Nat
      BY <1>1, <1>5
    <3>2. \E j \in w[1]..w[2] : Warnings!Down(j)
      BY <1>3, <1>8
    <3>3. QED
      BY <3>1, <3>2
  <2>2. PICK i \in T : \A j \in T : i <= j
    BY <2>1, LeastOf
  <2>3. i \in w[1]..w[2] /\ Warnings!Down(i) /\ i \in 1..a_t /\ i \in Nat
    BY <1>5, <2>1, <2>2
  <2>4. CASE i = w[1]
    <3>1. w[1] \notin Warnings!Crossings
      BY <1>5, <1>8
    <3>2. QED
      BY <1>4, <1>8, <2>3, <2>4, <3>1
  <2>5. CASE i # w[1]
    <3>1. i - 1 \in w[1]..w[2] /\ ~(i <= i - 1)
      BY <1>5, <2>3, <2>5
    <3>2. ~Warnings!Down(i - 1)
      BY <2>2, <3>1
    <3>3. i \in Warnings!Crossings
      BY <1>7, <2>3, <3>2
    <3>4. QED
      BY <1>8, <2>3, <3>3
  <2>6. QED
    BY <2>4, <2>5
<1>9. ASSUME NEW w \in A PROVE w \in Idle
  <2>1. \A i \in w[1]..w[2] : i \notin Warnings!Crossings
    BY <1>3, <1>5, <1>7
  <2>2. QED
    BY <1>3, <2>1 DEF Idle
<1>10. Idle = A \union B
  <2>1. \A w \in B : w \in Idle
    BY <1>4 DEF Idle
  <2>2. \A w \in Idle : w \in A \/ w \in B
    BY <1>8 DEF Idle
  <2>3. QED
    BY <1>9, <2>1, <2>2
<1>11. IsFiniteSet(A) /\ IsFiniteSet(B) /\ Cardinality(A) \in Nat /\ Cardinality(B) \in Nat
  <2>1. A \in SUBSET Over /\ B \in SUBSET Over
    BY <1>3, <1>4
  <2>2. QED
    BY <2>1, OverFinite DEF WarnInv
<1>12. Cardinality(Idle) = Cardinality(A) + Cardinality(B)
  <2>1. Cardinality(A \union B) = Cardinality(A) + Cardinality(B) - Cardinality(A \intersect B)
    BY <1>11, FS_Union
  <2>2. Cardinality(A \intersect B) = 0
    BY <1>6, FS_EmptySet
  <2>3. QED
    BY <1>10, <1>11, <2>1, <2>2
<1>13. QED
  BY <1>12, SameCardinality DEF A, B

\* WarnInv is strong enough.
LEMMA AlarmsRight == ASSUME WarnInv PROVE Warnings!AlarmsCounted
<1>1. Len(a_leads) = Warnings!Cardinality(Warnings!Outages)
  BY SameCardinality DEF WarnInv, LeadsCounted
<1>2. \A i \in Warnings!Outages :
         a_leads[Warnings!Cardinality({j \in Warnings!Outages : j <= i})] = Warnings!Lead(i)
  BY SameCardinality DEF WarnInv, LeadsCounted
<1> DEFINE late == {w \in Warnings!Warnings :
                      Warnings!BegunInOutage(w) /\ w[1]..w[2] \intersect Warnings!Crossings = {}}
<1>3. {w \in late : Warnings!Ended(w)} =
         {w \in Warnings!Warnings :
             /\ Warnings!BegunInOutage(w) /\ w[1]..w[2] \intersect Warnings!Crossings = {}
             /\ Warnings!Ended(w)}
  OBVIOUS
<1>4. a_false_alarms =
         Warnings!Cardinality({w \in Warnings!Warnings : Warnings!Ended(w) /\ ~Warnings!OutageIn(w)})
           + Warnings!Cardinality({w \in late : Warnings!Ended(w)})
  BY <1>3, IdleOnes DEF WarnInv
<1>5. QED
  BY <1>1, <1>2, <1>4, Zenon DEF Warnings!AlarmsCounted

\* A step is of the warnings, or leaves them alone.
LEMMA WarnApart ==
    [ProgramsNext]_AllVars => part' = part /\ (part = "warnings" => Warnings!Next \/ UNCHANGED WarningsVars)
  BY DEF ProgramsNext, AllVars, PolicyStep, ServerPrefetchStep, LinksStep, BatchStep, ClientRunStep,
         WarmUpStep, SnapshotStep, WarningsStep, CutoffSweepStep, Others

WarnPart == part = "warnings" => WarnInv

\* Outages, warning times and false alarms are counted as they are defined, for any traces, however
\* the predictor answers.
THEOREM CountedRight == ProgramsSpec => []AlarmsCounted
<1>1. ProgramsInit => WarnPart
  BY WarnBegins DEF ProgramsInit, WarnPart
<1>2. WarnPart /\ [ProgramsNext]_AllVars => WarnPart'
  BY WarnKeeps, WarnStutters, WarnApart DEF WarnPart
<1>3. WarnPart => AlarmsCounted
  BY AlarmsRight DEF WarnPart, AlarmsCounted
<1>4. QED
  BY <1>1, <1>2, <1>3, PTL DEF ProgramsSpec

-----------------------------------------------------------------------------
(* What keeps a hint on. *)

\* The sums of the first n of f.
SumsOf(S, f, n) ==
    S \in [0..n -> Int] /\ S[0] = 0 /\ \A m \in 1..n : S[m] = S[m - 1] + f[m]

\* Every sequence of numbers has its sums.
LEMMA SumsExist ==
    ASSUME NEW f \in Seq(Int), NEW n \in 0..Len(f)
    PROVE  \E S : SumsOf(S, f, n)
<1> DEFINE T == {m \in 0..Len(f) : ~ \E S : SumsOf(S, f, m)}
<1>1. ASSUME T # {} PROVE FALSE
  <2>1. PICK m \in T : \A l \in T : m <= l
    <3>1. T \in SUBSET Nat
      OBVIOUS
    <3>2. QED
      BY <1>1, <3>1, LeastOf
  <2>2. m # 0
    <3>1. SumsOf([l \in 0..0 |-> 0], f, 0)
      BY DEF SumsOf
    <3>2. QED
      BY <2>1, <3>1
  <2>3. m - 1 \in 0..Len(f) /\ m - 1 \notin T /\ m \in 1..Len(f)
    BY <2>1, <2>2
  <2>4. PICK S : SumsOf(S, f, m - 1)
    BY <2>3
  <2>5. PICK R : R = [l \in 0..m |-> IF l = m THEN S[m - 1] + f[m] ELSE S[l]]
    OBVIOUS
  <2>6. f[m] \in Int /\ \A l \in 0..(m - 1) : S[l] \in Int
    BY <2>3, <2>4 DEF SumsOf
  <2>7. R \in [0..m -> Int] /\ R[0] = 0
    BY <2>3, <2>4, <2>5, <2>6 DEF SumsOf
  <2>8. ASSUME NEW l \in 1..m PROVE R[l] = R[l - 1] + f[l]
    <3>1. CASE l = m
      BY <2>3, <2>5, <3>1
    <3>2. CASE l # m
      BY <2>3, <2>4, <2>5, <3>2 DEF SumsOf
    <3>3. QED
      BY <3>1, <3>2
  <2>9. SumsOf(R, f, m)
    BY <2>7, <2>8 DEF SumsOf
  <2>10. QED
    BY <2>1, <2>9
<1>2. QED
  BY <1>1

\* SumUp is the last of them.
LEMMA SumUpIs ==
    ASSUME NEW f \in Seq(Int)
    PROVE  \E S : SumsOf(S, f, Len(f)) /\ Warnings!SumUp(f) = S[Len(f)]
<1> DEFINE Sums(g) == g = [n \in 0..Len(f) |-> IF n = 0 THEN 0 ELSE g[n - 1] + f[n]]
<1>1. Len(f) \in Nat
  OBVIOUS
<1>2. PICK S : SumsOf(S, f, Len(f))
  BY <1>1, SumsExist
<1>3. Sums(S)
  <2>1. \A n \in 0..Len(f) : S[n] = IF n = 0 THEN 0 ELSE S[n - 1] + f[n]
    BY <1>1, <1>2 DEF SumsOf
  <2>2. QED
    BY <1>2, <2>1 DEF SumsOf
<1>4. Sums(CHOOSE g : Sums(g))
  BY <1>3
<1> DEFINE R == CHOOSE g : Sums(g)
<1>5. SumsOf(R, f, Len(f))
  <2> DEFINE T == {m \in 0..Len(f) : R[m] # S[m]}
  <2> HIDE DEF R
  <2>1. PICK g : g = R
    OBVIOUS
  <2>2. g = [n \in 0..Len(f) |-> IF n = 0 THEN 0 ELSE g[n - 1] + f[n]]
    BY <1>4, <2>1 DEF R
  <2>3. \A n \in 0..Len(f) : g[n] = IF n = 0 THEN 0 ELSE g[n - 1] + f[n]
    BY <2>2
  <2>4. ASSUME NEW m \in T, \A l \in T : m <= l PROVE FALSE
    <3>1. m \in Nat /\ m \in 0..Len(f) /\ g[m] # S[m]
      BY <2>1, <2>4
    <3>2. m # 0
      BY <1>1, <1>2, <2>3, <3>1 DEF SumsOf
    <3>3. m - 1 \in 0..Len(f) /\ m - 1 \notin T /\ m \in 1..Len(f)
      BY <1>1, <2>4, <3>1, <3>2
    <3>4. g[m - 1] = S[m - 1]
      BY <2>1, <3>3
    <3>5. QED
      BY <1>2, <2>3, <3>1, <3>2, <3>3, <3>4 DEF SumsOf
  <2>5. T = {}
    <3>1. T \in SUBSET Nat
      OBVIOUS
    <3>2. QED
      BY <2>4, <3>1, LeastOf
  <2>6. \A n \in 0..Len(f) : g[n] = S[n]
    BY <2>1, <2>5
  <2>7. g = S
    BY <1>2, <2>2, <2>6 DEF SumsOf
  <2>8. QED
    BY <1>2, <2>1, <2>7
<1>6. Warnings!SumUp(f) = R[Len(f)]
  BY DEF Warnings!SumUp
<1>7. QED
  BY <1>5, <1>6

\* No sum is more than so many times the bound.
LEMMA SumBounded ==
    ASSUME NEW f \in Seq(Int), NEW b \in Int, \A i \in 1..Len(f) : f[i] <= b
    PROVE  Warnings!SumUp(f) \in Int /\ Warnings!SumUp(f) <= Len(f) * b
<1>1. PICK S : SumsOf(S, f, Len(f)) /\ Warnings!SumUp(f) = S[Len(f)]
  BY SumUpIs
<1>2. PICK n \in Nat : n = Len(f)
  OBVIOUS
<1>3. /\ \A m \in 0..n : S[m] \in Int
      /\ S[0] = 0 /\ \A m \in 1..n : S[m] = S[m - 1] + f[m] /\ f[m] \in Int /\ f[m] <= b
  <2>1. \A m \in 1..n : f[m] \in Int /\ f[m] <= b
    BY <1>2
  <2>2. SumsOf(S, f, n)
    BY <1>1, <1>2
  <2>3. QED
    BY <2>1, <2>2 DEF SumsOf
<1> DEFINE T == {m \in 0..n : ~ (S[m] <= m * b)}
<1>4. ASSUME NEW m \in T, \A l \in T : m <= l PROVE FALSE
  <2>1. m \in 0..n /\ m \in Nat /\ ~ (S[m] <= m * b)
    BY <1>4
  <2>2. m # 0
    BY <1>3, <2>1
  <2>3. m - 1 \in 0..n /\ m - 1 \notin T /\ m \in 1..n
    BY <1>4, <2>1, <2>2
  <2>4. S[m - 1] <= (m - 1) * b
    BY <2>3
  <2>5. \A k, c \in Int : (k - 1) * c = k * c - c
    OBVIOUS
  <2>6. (m - 1) * b = m * b - b
    BY <2>1, <2>5
  <2>7. PICK x \in Int, y \in Int, z \in Int, g \in Int :
           x = S[m] /\ y = S[m - 1] /\ z = m * b /\ g = f[m] /\ x = y + g /\ y <= z - b /\ g <= b
    BY <1>3, <2>1, <2>3, <2>4, <2>6
  <2>8. QED
    BY <2>1, <2>7
<1>5. T = {}
  <2>1. T \in SUBSET Nat
    OBVIOUS
  <2>2. QED
    BY <1>4, <2>1, LeastOf
<1>6. n \in 0..n
  BY <1>2
<1>7. QED
  BY <1>1, <1>2, <1>3, <1>5, <1>6

\* The sum of the squares is large enough for a variance that is not negative.
LEMMA SquaresAreMore ==
    ASSUME NEW f \in Seq(Int)
    PROVE  LET squares == [i \in DOMAIN f |-> f[i] * f[i]] IN
             /\ Warnings!SumUp(squares) \in Int /\ Warnings!SumUp(f) \in Int
             /\ Len(f) * Warnings!SumUp(squares) - Warnings!SumUp(f) * Warnings!SumUp(f) >= 0
<1>1. PICK n \in Nat : n = Len(f) /\ DOMAIN f = 1..n /\ \A i \in 1..n : f[i] \in Int
  OBVIOUS
<1>2. PICK q \in Seq(Int) : /\ q = [i \in DOMAIN f |-> f[i] * f[i]] /\ Len(q) = n
                            /\ \A i \in 1..n : q[i] = f[i] * f[i]
  <2>1. \A i \in 1..n : f[i] * f[i] \in Int
    BY <1>1
  <2>2. PICK q : q = [i \in 1..n |-> f[i] * f[i]]
    OBVIOUS
  <2>3. q \in [1..n -> Int] /\ \A i \in 1..n : q[i] = f[i] * f[i]
    BY <2>1, <2>2
  <2>4. q \in Seq(Int) /\ Len(q) = n
    BY <2>3
  <2>5. q = [i \in DOMAIN f |-> f[i] * f[i]]
    BY <1>1, <2>2
  <2>6. QED
    BY <2>3, <2>4, <2>5
<1>3. PICK S : SumsOf(S, f, n) /\ Warnings!SumUp(f) = S[n]
  BY <1>1, SumUpIs
<1>4. PICK Q : SumsOf(Q, q, n) /\ Warnings!SumUp(q) = Q[n]
  BY <1>2, SumUpIs
<1>5. /\ S[0] = 0 /\ Q[0] = 0 /\ (\A m \in 0..n : S[m] \in Int /\ Q[m] \in Int)
      /\ \A m \in 1..n : S[m] = S[m - 1] + f[m] /\ Q[m] = Q[m - 1] + f[m] * f[m]
  BY <1>2, <1>3, <1>4 DEF SumsOf
<1>6. ASSUME NEW x \in Int, NEW k \in 0..n
      PROVE  Q[k] + k * (x * x) - 2 * (x * S[k]) >= 0
  <2> DEFINE T == {m \in 0..n : ~ (Q[m] + m * (x * x) - 2 * (x * S[m]) >= 0)}
  <2>1. ASSUME NEW m \in T, \A l \in T : m <= l PROVE FALSE
    <3>1. m \in 0..n /\ m \in Nat /\ ~ (Q[m] + m * (x * x) - 2 * (x * S[m]) >= 0)
      BY <2>1
    <3>2. m # 0
      <4>1. 0 + 0 * (x * x) - 2 * (x * 0) >= 0
        OBVIOUS
      <4>2. QED
        BY <1>5, <3>1, <4>1
    <3>3. m - 1 \in 0..n /\ m - 1 \notin T /\ m \in 1..n
      BY <2>1, <3>1, <3>2
    <3>4. Q[m - 1] + (m - 1) * (x * x) - 2 * (x * S[m - 1]) >= 0
      BY <3>3
    <3>5. \A a, b, c, g \in Int :
             (a + g * g) + c * (x * x) - 2 * (x * (b + g))
               = (a + (c - 1) * (x * x) - 2 * (x * b)) + (g - x) * (g - x)
      OBVIOUS
    <3>6. \A g \in Int : (g - x) * (g - x) >= 0
      OBVIOUS
    <3>7. PICK a \in Int, b \in Int, g \in Int :
             /\ a = Q[m - 1] /\ b = S[m - 1] /\ g = f[m] /\ Q[m] = a + g * g /\ S[m] = b + g
      BY <1>1, <1>5, <3>3
    <3>8. PICK d \in Int, e \in Int, h \in Int :
             /\ d = a + (m - 1) * (x * x) - 2 * (x * b) /\ e = (g - x) * (g - x)
             /\ h = (a + g * g) + m * (x * x) - 2 * (x * (b + g))
      BY <3>1
    <3>9. d >= 0 /\ e >= 0 /\ h = d + e
      <4>1. m \in Int
        BY <3>1
      <4>2. h = d + e
        BY <3>5, <3>8, <4>1
      <4>3. d >= 0
        BY <3>4, <3>7, <3>8
      <4>4. QED
        BY <3>6, <3>8, <4>2, <4>3
    <3>10. ~ (h >= 0)
      BY <3>1, <3>7, <3>8
    <3>11. QED
      BY <3>9, <3>10
  <2>2. T = {}
    <3>1. T \in SUBSET Nat
      OBVIOUS
    <3>2. QED
      BY <2>1, <3>1, LeastOf
  <2>3. QED
    BY <2>2
<1> DEFINE T == {m \in 0..n : ~ (m * Q[m] - S[m] * S[m] >= 0)}
<1>7. ASSUME NEW m \in T, \A l \in T : m <= l PROVE FALSE
  <2>1. m \in 0..n /\ m \in Nat /\ ~ (m * Q[m] - S[m] * S[m] >= 0)
    BY <1>7
  <2>2. m # 0
    <3>1. 0 * 0 - 0 * 0 >= 0
      OBVIOUS
    <3>2. QED
      BY <1>5, <2>1, <3>1
  <2>3. m - 1 \in 0..n /\ m - 1 \notin T /\ m \in 1..n
    BY <1>7, <2>1, <2>2
  <2>4. (m - 1) * Q[m - 1] - S[m - 1] * S[m - 1] >= 0
    BY <2>3
  <2>5. \A a, b, c, g \in Int :
           c * (a + g * g) - (b + g) * (b + g)
             = ((c - 1) * a - b * b) + (a + (c - 1) * (g * g) - 2 * (g * b))
    OBVIOUS
  <2>6. PICK a \in Int, b \in Int, g \in Int :
           /\ a = Q[m - 1] /\ b = S[m - 1] /\ g = f[m] /\ Q[m] = a + g * g /\ S[m] = b + g
    BY <1>1, <1>5, <2>3
  <2>7. PICK d \in Int, e \in Int, h \in Int :
           /\ d = (m - 1) * a - b * b /\ e = a + (m - 1) * (g * g) - 2 * (g * b)
           /\ h = m * (a + g * g) - (b + g) * (b + g)
    BY <2>1
  <2>8. d >= 0
    BY <2>4, <2>6, <2>7
  <2>9. e >= 0
    BY <1>6, <2>3, <2>6, <2>7
  <2>10. h = d + e
    <3>1. m \in Int
      BY <2>1
    <3>2. QED
      BY <2>5, <2>7, <3>1
  <2>11. ~ (h >= 0)
    BY <2>1, <2>6, <2>7
  <2>12. QED
    BY <2>8, <2>9, <2>10, <2>11
<1>8. T = {}
  <2>1. T \in SUBSET Nat
    OBVIOUS
  <2>2. QED
    BY <1>7, <2>1, LeastOf
<1>9. n \in 0..n
  BY <1>1
<1>10. n * Q[n] - S[n] * S[n] >= 0
  BY <1>8, <1>9
<1>11. QED
  BY <1>1, <1>2, <1>3, <1>4, <1>5, <1>9, <1>10

\* A function on 1..r is a sequence.
LEMMA SequenceIs ==
    ASSUME NEW E, NEW r \in Nat, NEW f \in [1..r -> E]
    PROVE  f \in Seq(E) /\ Len(f) = r
OBVIOUS

Sample == [t : Int, dbm : Int]

\* A window of samples, one a tick, the last at now.
WindowTo(s, now) ==
    /\ s \in Seq(Sample) /\ Len(s) # 0
    /\ \A i \in 1..Len(s) : s[i].t = now - Len(s) + i

\* The samples of the last ticks, and there may be fewer.
Within(n, ticks) == IF n <= ticks + 1 THEN n ELSE ticks + 1

\* They are the end of the window.
EndOf(recent, s, ticks) ==
    /\ Within(Len(s), ticks) \in 1..Len(s)
    /\ recent \in Seq(Sample) /\ Len(recent) = Within(Len(s), ticks)
    /\ \A k \in 1..Within(Len(s), ticks) : recent[k] = s[Len(s) - Within(Len(s), ticks) + k]

\* The samples of the last ticks are the end of the window.
LEMMA LatestIs ==
    ASSUME NEW now \in Int, NEW s, WindowTo(s, now), NEW ticks \in Nat
    PROVE  EndOf(Warnings!Latest(s, now, ticks), s, ticks)
<1>1. PICK n \in Nat : n = Len(s) /\ n # 0 /\ DOMAIN s = 1..n
  BY DEF WindowTo
<1>2. PICK r \in 1..n : r = Within(n, ticks)
  BY <1>1 DEF Within
<1> DEFINE U == {i \in DOMAIN s : now - s[i].t <= ticks}
<1>3. \A i \in 1..n : i \in U <=> n - r + 1 <= i
  <2>1. \A i \in 1..n : now - s[i].t = n - i
    BY <1>1 DEF WindowTo
  <2>2. \A i \in 1..n : i \in U <=> n - i <= ticks
    BY <1>1, <2>1
  <2>3. \A i \in 1..n : n - i <= ticks <=> n - r + 1 <= i
    BY <1>1, <1>2 DEF Within
  <2>4. QED
    BY <2>2, <2>3
<1>4. PICK m \in 1..n : m = n - r + 1
  BY <1>1, <1>2
<1>5. m \in U /\ \A i \in U : m <= i
  BY <1>1, <1>3, <1>4
<1>6. Warnings!Min(U) = m
  <2>1. U \subseteq 1..n
    BY <1>1
  <2> HIDE DEF U
  <2>2. Warnings!Min(U) \in U /\ \A i \in U : Warnings!Min(U) <= i
    BY <1>5 DEF Warnings!Min
  <2>3. PICK x : x = Warnings!Min(U)
    OBVIOUS
  <2>4. x \in 1..n /\ x <= m /\ m <= x
    BY <1>5, <2>1, <2>2, <2>3
  <2>5. x = m
    BY <2>4
  <2>6. QED
    BY <2>3, <2>5
<1>7. Warnings!Latest(s, now, ticks) = SubSeq(s, m, n)
  BY <1>1, <1>6 DEF Warnings!Latest
<1>8. SubSeq(s, m, n) = [k \in 1..r |-> s[n - r + k]]
  <2>1. SubSeq(s, m, n) = [k \in 1..(n - m + 1) |-> s[m + k - 1]]
    OBVIOUS
  <2>2. n - m + 1 = r /\ \A k \in 1..r : m + k - 1 = n - r + k
    BY <1>1, <1>2, <1>4
  <2>3. QED
    BY <2>1, <2>2
<1>9. \A k \in 1..r : n - r + k \in 1..n /\ s[n - r + k] \in Sample
  <2>1. \A k \in 1..r : n - r + k \in 1..n
    BY <1>1, <1>2
  <2>2. \A i \in 1..n : s[i] \in Sample
    BY <1>1, ElementOfSeq DEF WindowTo
  <2>3. QED
    BY <2>1, <2>2
<1>10. PICK recent : recent = [k \in 1..r |-> s[n - r + k]]
  OBVIOUS
<1>11. /\ recent \in Seq(Sample) /\ Len(recent) = r
       /\ \A k \in 1..r : recent[k] = s[n - r + k]
  <2>1. recent \in [1..r -> Sample]
    BY <1>9, <1>10
  <2>2. r \in Nat
    BY <1>2
  <2>3. recent \in Seq(Sample) /\ Len(recent) = r
    BY <2>1, <2>2, SequenceIs
  <2>4. QED
    BY <1>10, <2>3
<1>12. QED
  BY <1>1, <1>2, <1>7, <1>8, <1>10, <1>11 DEF EndOf

\* The sums of a fit are numbers, and the spread of the times is not negative.
LEMMA FitIs ==
    ASSUME NEW s \in Seq(Sample)
    PROVE  Warnings!Fit(s).xx \in Int /\ Warnings!Fit(s).xx >= 0 /\ Warnings!Fit(s).xy \in Int
<1>1. PICK n \in Nat : n = Len(s) /\ DOMAIN s = 1..n /\ \A i \in 1..n : s[i].t \in Int /\ s[i].dbm \in Int
  <2>1. \A i \in 1..Len(s) : s[i] \in Sample
    BY ElementOfSeq
  <2>2. QED
    BY <2>1 DEF Sample
<1>2. PICK f \in Seq(Int) : f = [i \in DOMAIN s |-> s[i].t] /\ Len(f) = n /\ DOMAIN f = 1..n
  <2>1. PICK f : f = [i \in 1..n |-> s[i].t]
    OBVIOUS
  <2>2. f \in [1..n -> Int]
    BY <1>1, <2>1
  <2>3. f \in Seq(Int) /\ Len(f) = n
    BY <2>2
  <2>4. QED
    BY <1>1, <2>1, <2>3
<1>3. PICK squares : squares = [i \in DOMAIN s |-> s[i].t * s[i].t] /\ squares = [i \in DOMAIN f |-> f[i] * f[i]]
  BY <1>1, <1>2
<1>4. /\ Warnings!SumUp(squares) \in Int /\ Warnings!SumUp(f) \in Int
      /\ n * Warnings!SumUp(squares) - Warnings!SumUp(f) * Warnings!SumUp(f) >= 0
  BY <1>2, <1>3, SquaresAreMore
<1>5. PICK products \in Seq(Int) : products = [i \in DOMAIN s |-> s[i].t * s[i].dbm]
  <2>1. \A i \in 1..n : s[i].t * s[i].dbm \in Int
    BY <1>1
  <2>2. PICK p : p = [i \in 1..n |-> s[i].t * s[i].dbm]
    OBVIOUS
  <2>3. p \in [1..n -> Int]
    BY <2>1, <2>2
  <2>4. p \in Seq(Int)
    BY <2>3
  <2>5. QED
    BY <1>1, <2>2, <2>4
<1>6. PICK readings \in Seq(Int) : readings = [i \in DOMAIN s |-> s[i].dbm]
  <2>1. PICK p : p = [i \in 1..n |-> s[i].dbm]
    OBVIOUS
  <2>2. p \in [1..n -> Int]
    BY <1>1, <2>1
  <2>3. p \in Seq(Int)
    BY <2>2
  <2>4. QED
    BY <1>1, <2>1, <2>3
<1>7. Warnings!SumUp(products) \in Int /\ Warnings!SumOfReadings(s) \in Int
  <2>1. ASSUME NEW p \in Seq(Int) PROVE Warnings!SumUp(p) \in Int
    <3>1. PICK S : SumsOf(S, p, Len(p)) /\ Warnings!SumUp(p) = S[Len(p)]
      BY SumUpIs
    <3>2. Len(p) \in 0..Len(p)
      OBVIOUS
    <3>3. QED
      BY <3>1, <3>2 DEF SumsOf
  <2>2. QED
    BY <1>5, <1>6, <2>1 DEF Warnings!SumOfReadings
<1>8. Warnings!Fit(s).xx = n * Warnings!SumUp(squares) - Warnings!SumUp(f) * Warnings!SumUp(f)
  BY <1>1, <1>2, <1>3 DEF Warnings!Fit
<1>9. Warnings!Fit(s).xy = n * Warnings!SumUp(products) - Warnings!SumUp(f) * Warnings!SumOfReadings(s)
  BY <1>1, <1>2, <1>5 DEF Warnings!Fit
<1>10. \A a, b, c, e \in Int : a * b - c * e \in Int
  OBVIOUS
<1>11. QED
  BY <1>4, <1>7, <1>8, <1>9, <1>10

\* The latest readings of the window are not above b.
AtMost(s, b) ==
    \A k \in 1..Within(Len(s), LevelWindow) : s[Len(s) - Within(Len(s), LevelWindow) + k].dbm <= b

\* A hint is raised on readings that are all unusable, and not cleared on readings within the margin.
LEMMA RaisedWhenLow ==
    ASSUME NEW now \in Int, NEW s, WindowTo(s, now), NEW was \in BOOLEAN, NEW b \in {0, Margin},
           AtMost(s, b), b = 0 \/ was
    PROVE  Warnings!Raised(s, now, was)
<1>1. b \in Int /\ LevelWindow \in Nat /\ Margin \in Int
  BY WarningsAssumption
<1>2. PICK r \in Nat : r = Within(Len(s), LevelWindow) /\ r # 0
  <2>1. Len(s) \in Nat /\ Len(s) # 0
    BY DEF WindowTo
  <2>2. QED
    BY <1>1, <2>1 DEF Within
<1>3. PICK recent \in Seq(Sample) :
         /\ recent = Warnings!Recent(s, now) /\ Len(recent) = r /\ DOMAIN recent = 1..r
         /\ \A k \in 1..r : recent[k].dbm <= b /\ recent[k].dbm \in Int
  <2>1. PICK recent : recent = Warnings!Recent(s, now)
    OBVIOUS
  <2>2. /\ recent \in Seq(Sample) /\ Len(recent) = r
        /\ \A k \in 1..r : recent[k] = s[Len(s) - r + k]
    <3>1. PICK ticks \in Nat : ticks = LevelWindow
      BY <1>1
    <3>2. recent = Warnings!Latest(s, now, ticks)
      BY <2>1, <3>1 DEF Warnings!Recent
    <3>3. EndOf(recent, s, ticks)
      BY <3>2, LatestIs
    <3>4. QED
      BY <1>2, <3>1, <3>3 DEF EndOf
  <2>3. \A k \in 1..r : recent[k].dbm <= b
    BY <1>2, <2>2 DEF AtMost
  <2>4. \A k \in 1..r : recent[k].dbm \in Int
    <3>1. \A k \in 1..r : recent[k] \in Sample
      BY <2>2, ElementOfSeq
    <3>2. QED
      BY <3>1 DEF Sample
  <2>5. QED
    BY <2>1, <2>2, <2>3, <2>4
<1>4. Warnings!SumOfReadings(recent) \in Int /\ Warnings!SumOfReadings(recent) <= r * b
  <2>1. PICK p : p = [i \in 1..r |-> recent[i].dbm]
    OBVIOUS
  <2>2. p \in [1..r -> Int]
    BY <1>3, <2>1
  <2>3. p \in Seq(Int) /\ Len(p) = r /\ \A i \in 1..r : p[i] <= b
    BY <1>3, <2>1, <2>2
  <2>4. Warnings!SumUp(p) \in Int /\ Warnings!SumUp(p) <= r * b
    BY <1>1, <2>3, SumBounded
  <2>5. Warnings!SumOfReadings(recent) = Warnings!SumUp(p)
    BY <1>3, <2>1 DEF Warnings!SumOfReadings
  <2>6. QED
    BY <2>4, <2>5
<1>5. PICK xx \in Int, xy \in Int : xx = Warnings!Fit(s).xx /\ xy = Warnings!Fit(s).xy /\ xx >= 0
  BY FitIs DEF WindowTo
<1>6. PICK sum \in Int : sum = Warnings!SumOfReadings(recent) /\ sum <= r * b
  BY <1>4
<1>7. PICK fall \in Int : fall = Warnings!Min({0, xy}) /\ fall <= 0 /\ (xy >= 0 => fall = 0)
  <2>1. \E m \in {0, xy} : \A n \in {0, xy} : m <= n
    BY <1>5
  <2>2. Warnings!Min({0, xy}) \in {0, xy} /\ \A n \in {0, xy} : Warnings!Min({0, xy}) <= n
    BY <2>1 DEF Warnings!Min
  <2>3. PICK m : m = Warnings!Min({0, xy})
    OBVIOUS
  <2>4. m \in {0, xy} /\ m <= 0 /\ m <= xy
    BY <2>2, <2>3
  <2>5. m \in Int /\ m <= 0 /\ (xy >= 0 => m = 0)
    BY <1>5, <2>4
  <2>6. QED
    BY <2>3, <2>5
<1>8. PICK num \in Int, den \in Int :
         /\ num = Warnings!Level(s, now, Warnings!Fit(s)).num /\ den = Warnings!Level(s, now, Warnings!Fit(s)).den
         /\ num = 2 * sum * xx + r * LevelWindow * fall /\ den = 2 * r * xx
  <2>1. 2 * sum * xx + r * LevelWindow * fall \in Int /\ 2 * r * xx \in Int
    BY <1>1
  <2>2. PICK num \in Int, den \in Int : num = 2 * sum * xx + r * LevelWindow * fall /\ den = 2 * r * xx
    BY <2>1
  <2>3. Warnings!Level(s, now, Warnings!Fit(s)) = [num |-> num, den |-> den]
    BY <1>3, <1>5, <1>6, <1>7, <2>2, Zenon DEF Warnings!Level
  <2>4. QED
    BY <2>2, <2>3
<1>9. \A x, y \in Int : x >= 0 /\ y <= 0 => x * y <= 0
  OBVIOUS
<1>10. CASE b = 0
  <2>1. sum <= 0
    BY <1>6, <1>10
  <2>2. 2 * sum * xx <= 0
    <3>1. 2 * sum * xx = (2 * xx) * sum /\ 2 * xx >= 0 /\ 2 * xx \in Int
      BY <1>5
    <3>2. QED
      BY <1>9, <2>1, <3>1
  <2>3. r * LevelWindow * fall <= 0
    <3>1. r * LevelWindow >= 0 /\ r * LevelWindow \in Int
      BY <1>1
    <3>2. QED
      BY <1>7, <1>9, <3>1
  <2>4. PICK x \in Int, y \in Int : x = 2 * sum * xx /\ y = r * LevelWindow * fall
    BY <1>1
  <2>5. num <= 0
    BY <1>8, <2>2, <2>3, <2>4
  <2>6. QED
    BY <1>8, <2>5, Zenon DEF Warnings!Raised
<1>11. CASE b # 0
  <2>1. was /\ b = Margin
    BY <1>11
  <2>2. ~ (num > Margin * den /\ xy >= 0)
    <3>1. SUFFICES ASSUME xy >= 0, num > Margin * den PROVE FALSE
      OBVIOUS
    <3>2. fall = 0
      BY <1>7, <3>1
    <3>3. \A m \in Int : m * 0 = 0
      OBVIOUS
    <3>4. r * LevelWindow \in Int
      BY <1>1
    <3>5. r * LevelWindow * fall = 0
      BY <3>2, <3>3, <3>4
    <3>6. num = 2 * sum * xx
      <4>1. 2 * sum * xx \in Int
        OBVIOUS
      <4>2. QED
        BY <1>8, <3>5, <4>1
    <3>7. PICK d \in Int : d = sum - r * Margin /\ d <= 0
      BY <1>1, <1>6, <2>1
    <3>8. (2 * xx) * d <= 0
      <4>1. 2 * xx \in Int /\ 2 * xx >= 0
        BY <1>5
      <4>2. QED
        BY <1>9, <3>7, <4>1
    <3>9. \A p, q, x, y \in Int : (2 * x) * (p - q * y) = 2 * p * x - y * (2 * q * x)
      OBVIOUS
    <3>10. (2 * xx) * d = num - Margin * den
      BY <1>1, <1>8, <3>6, <3>7, <3>9
    <3>11. Margin * den \in Int
      BY <1>1
    <3>12. QED
      BY <3>1, <3>8, <3>10, <3>11
  <2>3. ~ (Warnings!Level(s, now, Warnings!Fit(s)).num > Margin * Warnings!Level(s, now, Warnings!Fit(s)).den
             /\ Warnings!Fit(s).xy >= 0)
    BY <1>5, <1>8, <2>2
  <2>4. QED
    BY <2>1, <2>3, Zenon DEF Warnings!Raised
<1>12. QED
  BY <1>10, <1>11

\* The predictor's window: the last ticks of the history.
Span == IF a_t <= Window THEN a_t ELSE Window + 1
WindowKept ==
    /\ a_samples \in Seq(Sample) /\ Len(a_samples) = Span
    /\ \A i \in 1..Span : /\ a_samples[i].t = a_t - 1 - Span + i
                          /\ a_samples[i].dbm = a_log[a_t - Span + i].dbm

\* What HeldWhileLow says of the ticks so far.
HeldSoFar ==
    \A i \in MinSamples..a_t :
        /\ (\A j \in Warnings!Lately(i) : a_log[j].dbm <= 0) => a_log[i].on
        /\ (a_log[i - 1].on /\ \A j \in Warnings!Lately(i) : a_log[j].dbm <= Margin) => a_log[i].on

HeldInv == WarnInv /\ WindowKept /\ HeldSoFar

\* The numbers of the parameters.
LEMMA WarnParameters ==
    /\ Window \in Nat /\ LevelWindow \in Nat /\ MinSamples \in Nat /\ MinSamples >= 2 /\ MinSamples <= Window + 1
    /\ Margin \in Int /\ MinSamples # 0
  BY WarningsAssumption

\* A tick moves the window on.
LEMMA WindowMoves ==
    ASSUME WarnTyped, WindowKept, NEW c \in Int, NEW d \in Int, NEW o \in BOOLEAN, Ticked(c, d, o)
    PROVE  /\ WindowKept' /\ WindowTo(a_samples', a_t)
           /\ Span' \in 1..(a_t + 1) /\ Span' = Within(a_t + 1, Window)
<1>1. PICK n \in Nat, w \in Nat : n = a_t /\ w = Span /\ w <= n /\ (w = n \/ w = Window + 1) /\ w <= Window + 1 /\ Window \in Nat
  BY WarnParameters DEF WarnTyped, Span
<1>2. PICK s \in Seq(Sample) :
         /\ s = a_samples /\ Len(s) = w
         /\ \A i \in 1..w : s[i].t = n - 1 - w + i /\ s[i].dbm = a_log[n - w + i].dbm
  BY <1>1 DEF WindowKept
<1>3. PICK e \in Sample : e = [t |-> n, dbm |-> d] /\ e.t = n /\ e.dbm = d
  <2>1. [t |-> n, dbm |-> d] \in Sample
    BY <1>1 DEF Sample
  <2>2. QED
    BY <2>1
<1>4. PICK long \in Seq(Sample) :
         /\ long = Append(s, e) /\ Len(long) = w + 1 /\ long[w + 1] = e /\ \A i \in 1..w : long[i] = s[i]
  <2>1. PICK long : long = Append(s, e)
    OBVIOUS
  <2>2. /\ long \in Seq(Sample) /\ Len(long) = Len(s) + 1 /\ long[Len(s) + 1] = e
        /\ \A i \in 1..Len(s) : long[i] = s[i]
    BY <2>1, AppendIs
  <2>3. QED
    BY <1>2, <2>1, <2>2
<1>5. a_samples' = Warnings!Latest(long, n, Window)
  <2>1. a_samples' = Warnings!InWindow(a_t, d)
    BY DEF Ticked
  <2>2. Warnings!InWindow(a_t, d) = Warnings!Latest(Append(a_samples, [t |-> a_t, dbm |-> d]), a_t, Window)
    BY DEF Warnings!InWindow
  <2>3. Append(a_samples, [t |-> a_t, dbm |-> d]) = long
    BY <1>1, <1>2, <1>3, <1>4
  <2>4. QED
    BY <1>1, <2>1, <2>2, <2>3
<1>6. /\ a_t' = n + 1 /\ DOMAIN a_log = 1..n
      /\ (\A i \in 1..n : a_log'[i] = a_log[i]) /\ a_log'[n + 1].dbm = d
  BY <1>1, OneMoreTick DEF WarnTyped, Ticked
<1>7. \A i \in 1..(w + 1) : long[i].t = n - (w + 1) + i /\ long[i].dbm = a_log'[n - w + i].dbm
  <2>1. ASSUME NEW i \in 1..(w + 1), i # w + 1 PROVE long[i].t = n - (w + 1) + i /\ long[i].dbm = a_log'[n - w + i].dbm
    <3>1. i \in 1..w /\ n - w + i \in 1..n /\ n - (w + 1) + i = n - 1 - w + i
      BY <1>1, <2>1
    <3>2. long[i] = s[i] /\ s[i].t = n - 1 - w + i /\ s[i].dbm = a_log[n - w + i].dbm
      BY <1>2, <1>4, <3>1
    <3>3. a_log'[n - w + i] = a_log[n - w + i]
      BY <1>6, <3>1
    <3>4. QED
      BY <3>1, <3>2, <3>3
  <2>2. long[w + 1].t = n - (w + 1) + (w + 1) /\ long[w + 1].dbm = a_log'[n - w + (w + 1)].dbm
    <3>1. n - (w + 1) + (w + 1) = n /\ n - w + (w + 1) = n + 1
      BY <1>1
    <3>2. QED
      BY <1>3, <1>4, <1>6, <3>1
  <2>3. QED
    BY <2>1, <2>2
<1>8. WindowTo(long, n)
  <2>1. PICK l \in Nat : l = Len(long) /\ l = w + 1 /\ l # 0
    BY <1>1, <1>4
  <2>2. \A i \in 1..l : long[i].t = n - l + i
    BY <1>7, <2>1
  <2>3. QED
    BY <1>4, <2>1, <2>2 DEF WindowTo
<1>9. PICK v \in 1..(w + 1) : v = Within(w + 1, Window) /\ v = Within(n + 1, Window)
  BY <1>1 DEF Within
<1>10. PICK next : next = a_samples'
  OBVIOUS
<1>11. /\ next \in Seq(Sample) /\ Len(next) = v
       /\ \A i \in 1..v : next[i] = long[w + 1 - v + i]
  <2>1. Window \in Nat /\ n \in Int
    BY <1>1
  <2>2. PICK l \in Nat : l = Len(long) /\ l = w + 1 /\ Within(l, Window) = v
    BY <1>1, <1>4, <1>9
  <2>3. PICK recent : recent = Warnings!Latest(long, n, Window)
    OBVIOUS
  <2>4. EndOf(recent, long, Window)
    BY <1>8, <2>1, <2>3, LatestIs
  <2>5. /\ recent \in Seq(Sample) /\ Len(recent) = v
        /\ \A i \in 1..v : recent[i] = long[l - v + i]
    BY <2>2, <2>4 DEF EndOf
  <2>6. next = recent /\ l = w + 1
    BY <1>5, <1>10, <2>2, <2>3
  <2>7. QED
    BY <2>5, <2>6
<1>12. Span' = v /\ v \in 1..(n + 1)
  BY <1>1, <1>6, <1>9 DEF Span, Within
<1>13. \A i \in 1..v : next[i].t = n - v + i /\ next[i].dbm = a_log'[n + 1 - v + i].dbm
  <2>1. ASSUME NEW i \in 1..v PROVE next[i].t = n - v + i /\ next[i].dbm = a_log'[n + 1 - v + i].dbm
    <3>1. PICK j \in 1..(w + 1) : j = w + 1 - v + i /\ n - (w + 1) + j = n - v + i /\ n - w + j = n + 1 - v + i
      <4>1. w + 1 - v + i \in 1..(w + 1)
        <5>1. v \in Int /\ i \in Int /\ 1 <= i /\ i <= v /\ v <= w + 1 /\ w \in Int
          BY <1>1, <1>9
        <5>2. QED
          BY <5>1
      <4>2. n - (w + 1) + (w + 1 - v + i) = n - v + i /\ n - w + (w + 1 - v + i) = n + 1 - v + i
        <5>1. v \in Int /\ i \in Int /\ w \in Int /\ n \in Int
          BY <1>1, <1>9
        <5>2. QED
          BY <5>1
      <4>3. QED
        BY <4>1, <4>2
    <3>2. QED
      BY <1>7, <1>11, <3>1
  <2>2. QED
    BY <2>1
<1>14. WindowKept'
  <2>1. \A i \in 1..v : n + 1 - 1 - v + i = n - v + i
    BY <1>1, <1>9
  <2>2. QED
    BY <1>6, <1>10, <1>11, <1>12, <1>13, <2>1 DEF WindowKept
<1>15. WindowTo(next, n)
  <2>1. PICK l \in Nat : l = Len(next) /\ l = v /\ l # 0
    BY <1>1, <1>9, <1>11
  <2>2. \A i \in 1..l : next[i].t = n - l + i
    BY <1>13, <2>1
  <2>3. QED
    BY <1>11, <2>1, <2>2 DEF WindowTo
<1>16. QED
  BY <1>1, <1>9, <1>10, <1>12, <1>14, <1>15

\* The ticks read lately.
LEMMA LatelyIs ==
    ASSUME NEW i \in Nat, i # 0
    PROVE  /\ \A j \in Warnings!Lately(i) : j \in 1..i
           /\ \A j \in 1..i : i - j <= LevelWindow => j \in Warnings!Lately(i)
<1>1. LevelWindow \in Nat
  BY WarnParameters
<1>2. PICK m \in Int : m = Warnings!Max({1, i - LevelWindow}) /\ m >= 1 /\ (m = 1 \/ m = i - LevelWindow)
  <2>1. \E x \in {1, i - LevelWindow} : \A y \in {1, i - LevelWindow} : x >= y
    BY <1>1
  <2>2. /\ Warnings!Max({1, i - LevelWindow}) \in {1, i - LevelWindow}
        /\ \A y \in {1, i - LevelWindow} : Warnings!Max({1, i - LevelWindow}) >= y
    BY <2>1 DEF Warnings!Max
  <2>3. QED
    BY <1>1, <2>2
<1>3. Warnings!Lately(i) = m..i
  BY <1>2 DEF Warnings!Lately
<1>4. \A j \in m..i : j \in 1..i
  BY <1>2
<1>5. ASSUME NEW j \in 1..i, i - j <= LevelWindow PROVE j \in m..i
  BY <1>1, <1>2, <1>5
<1>6. QED
  BY <1>3, <1>4, <1>5

\* A tick whose recent readings are low leaves the hint on.
LEMMA HeldOn ==
    ASSUME WarnTyped, WindowKept, NEW c \in Int, NEW d \in Int, NEW o \in BOOLEAN, Ticked(c, d, o),
           MinSamples <= a_t + 1, NEW b \in {0, Margin},
           \A j \in Warnings!Lately(a_t + 1) : a_log'[j].dbm <= b,
           b = 0 \/ a_active
    PROVE  o
<1>1. PICK n \in Nat : n = a_t /\ MinSamples <= n + 1
  BY DEF WarnTyped
<1>2. PICK next : next = a_samples'
  OBVIOUS
<1>3. PICK v \in 1..(n + 1) : v = Within(n + 1, Window) /\ v = Span'
  BY <1>1, WindowMoves
<1>4. ~ (v < MinSamples)
  BY <1>1, <1>3, WarnParameters DEF Within
<1>5. WindowTo(next, n)
  BY <1>1, <1>2, WindowMoves
<1>6. Len(next) = v /\ \A i \in 1..v : next[i].dbm = a_log'[n + 1 - v + i].dbm
  <2>1. a_t' = n + 1
    BY <1>1 DEF Ticked
  <2>2. WindowKept'
    BY WindowMoves
  <2>3. /\ Len(a_samples') = Span'
        /\ \A i \in 1..Span' : a_samples'[i].dbm = a_log'[a_t' - Span' + i].dbm
    BY <2>2 DEF WindowKept
  <2>4. /\ Len(next) = v
        /\ \A i \in 1..v : next[i].dbm = a_log'[a_t' - v + i].dbm
    BY <1>2, <1>3, <2>3, Zenon
  <2>5. QED
    BY <2>1, <2>4
<1>7. PICK l \in Nat : l = LevelWindow
  BY WarnParameters
<1>8. PICK r \in 1..v : r = Within(v, l) /\ r <= l + 1
  BY <1>3, <1>7 DEF Within
<1>9. ASSUME NEW k \in 1..r PROVE next[v - r + k].dbm <= b
  <2>1. n \in Int /\ v \in Int /\ r \in Int /\ k \in Int /\ l \in Int
    BY <1>3, <1>8
  <2>2. PICK i \in Int, j \in Int : i = v - r + k /\ j = n + 1 - v + i
    BY <2>1
  <2>3. i \in 1..v /\ j = n + 1 - r + k
    BY <1>3, <1>8, <2>1, <2>2
  <2>4. j \in 1..(n + 1) /\ (n + 1) - j <= l
    BY <1>3, <1>8, <2>1, <2>3
  <2>5. j \in Warnings!Lately(n + 1)
    <3>1. n + 1 \in Nat /\ n + 1 # 0
      BY <1>1
    <3>2. QED
      BY <1>7, <2>4, <3>1, LatelyIs
  <2>6. a_log'[j].dbm <= b
    BY <1>1, <2>5
  <2>7. QED
    BY <1>6, <2>2, <2>3, <2>6
<1>10. PICK was \in BOOLEAN : was = a_active
  BY DEF WarnTyped
<1>11. Warnings!Raised(next, n, was)
  <2>1. AtMost(next, b)
    BY <1>6, <1>7, <1>8, <1>9 DEF AtMost
  <2>2. b = 0 \/ was
    BY <1>10
  <2>3. QED
    BY <1>1, <1>5, <2>1, <2>2, RaisedWhenLow
<1>12. o <=> IF Len(next) < MinSamples THEN was ELSE Warnings!Raised(next, n, was)
  BY <1>1, <1>2, <1>10 DEF Ticked
<1>13. QED
  BY <1>4, <1>6, <1>11, <1>12

\* A tick keeps what is said of the ticks before and of its own.
LEMMA HeldTick ==
    ASSUME WarnTyped, LastTick, WindowKept, HeldSoFar,
           NEW c \in Int, NEW d \in Int, NEW o \in BOOLEAN, Ticked(c, d, o)
    PROVE  HeldSoFar'
<1>1. PICK n \in Nat : /\ n = a_t /\ a_t' = n + 1 /\ \A i \in 1..n : a_log'[i] = a_log[i]
                       /\ a_log'[n + 1].on = o
  BY OneMoreTick DEF WarnTyped, Ticked
<1>2. PICK m \in Nat : m = MinSamples /\ m >= 2
  BY WarnParameters
<1>3. ASSUME NEW i \in m..n
      PROVE  /\ (\A j \in Warnings!Lately(i) : a_log'[j].dbm <= 0) => a_log'[i].on
             /\ (a_log'[i - 1].on /\ \A j \in Warnings!Lately(i) : a_log'[j].dbm <= Margin) => a_log'[i].on
  <2>1. i \in 1..n /\ i - 1 \in 1..n /\ i \in Nat /\ i # 0
    BY <1>2
  <2>2. \A j \in Warnings!Lately(i) : j \in 1..n
    BY <2>1, LatelyIs
  <2>3. /\ (\A j \in Warnings!Lately(i) : a_log[j].dbm <= 0) => a_log[i].on
        /\ (a_log[i - 1].on /\ \A j \in Warnings!Lately(i) : a_log[j].dbm <= Margin) => a_log[i].on
    BY <1>1, <1>2, <1>3 DEF HeldSoFar
  <2>4. a_log'[i] = a_log[i] /\ a_log'[i - 1] = a_log[i - 1]
    BY <1>1, <2>1
  <2>5. \A j \in Warnings!Lately(i) : a_log'[j] = a_log[j]
    BY <1>1, <2>2
  <2>6. QED
    BY <2>3, <2>4, <2>5
<1>4. ASSUME m <= n + 1, \A j \in Warnings!Lately(n + 1) : a_log'[j].dbm <= 0 PROVE o
  <2>1. PICK b \in {0, Margin} : b = 0
    OBVIOUS
  <2>2. \A j \in Warnings!Lately(a_t + 1) : a_log'[j].dbm <= b
    BY <1>1, <1>4, <2>1
  <2>3. MinSamples <= a_t + 1
    BY <1>1, <1>2, <1>4
  <2>4. QED
    BY <2>1, <2>2, <2>3, HeldOn
<1>5. ASSUME m <= n + 1, a_log'[n].on, \A j \in Warnings!Lately(n + 1) : a_log'[j].dbm <= Margin PROVE o
  <2>1. PICK b \in {0, Margin} : b = Margin
    OBVIOUS
  <2>2. \A j \in Warnings!Lately(a_t + 1) : a_log'[j].dbm <= b
    BY <1>1, <1>5, <2>1
  <2>3. MinSamples <= a_t + 1
    BY <1>1, <1>2, <1>5
  <2>4. n \in 1..n /\ n # 0
    BY <1>1, <1>2, <1>5
  <2>5. a_active
    BY <1>1, <1>5, <2>4 DEF LastTick
  <2>6. QED
    BY <2>2, <2>3, <2>5, HeldOn
<1>6. ASSUME NEW i \in m..(n + 1)
      PROVE  /\ (\A j \in Warnings!Lately(i) : a_log'[j].dbm <= 0) => a_log'[i].on
             /\ (a_log'[i - 1].on /\ \A j \in Warnings!Lately(i) : a_log'[j].dbm <= Margin) => a_log'[i].on
  <2>1. CASE i \in m..n
    BY <1>3, <2>1
  <2>2. CASE i = n + 1
    <3>1. m <= n + 1 /\ i - 1 = n
      BY <2>2
    <3>2. QED
      BY <1>1, <1>4, <1>5, <2>2, <3>1
  <2>3. QED
    BY <1>1, <1>2, <2>1, <2>2
<1>7. QED
  BY <1>1, <1>2, <1>6 DEF HeldSoFar

\* A trace begins with nothing held.
LEMMA HeldBegins == ASSUME Warnings!Init, WarnInv PROVE HeldInv
<1>1. a_t = 0 /\ a_samples = <<>> /\ a_log = <<>>
  BY DEF Warnings!Init
<1>2. Span = 0 /\ MinSamples..a_t = {}
  BY <1>1, WarnParameters DEF Span
<1>3. QED
  BY <1>1, <1>2 DEF HeldInv, WindowKept, HeldSoFar

\* Every tick keeps HeldInv.
LEMMA HeldKept == ASSUME HeldInv, Warnings!Next PROVE HeldInv'
<1>1. PICK c \in Int, d \in Int, o \in BOOLEAN : Ticked(c, d, o)
  BY TickIs DEF HeldInv, WarnInv
<1>2. WarnInv'
  BY WarnKeeps DEF HeldInv
<1>3. WindowKept'
  BY <1>1, WindowMoves DEF HeldInv, WarnInv
<1>4. HeldSoFar'
  BY <1>1, HeldTick DEF HeldInv, WarnInv
<1>5. QED
  BY <1>2, <1>3, <1>4 DEF HeldInv

\* So does a step of another part.
LEMMA HeldStutters == ASSUME HeldInv, UNCHANGED WarningsVars PROVE HeldInv'
<1>1. a_t' = a_t /\ a_log' = a_log /\ a_samples' = a_samples
  BY DEF WarningsVars
<1>2. WarnInv'
  BY WarnStutters DEF HeldInv
<1>3. Span' = Span
  BY <1>1 DEF Span
<1>4. WindowKept'
  BY <1>1, <1>3 DEF HeldInv, WindowKept
<1>5. HeldSoFar'
  BY <1>1 DEF HeldInv, HeldSoFar
<1>6. QED
  BY <1>2, <1>4, <1>5 DEF HeldInv

\* HeldInv is strong enough.
LEMMA LowRight == ASSUME HeldInv PROVE Warnings!HeldWhileLow
<1>1. Len(a_log) = a_t
  BY DEF HeldInv, WarnInv, WarnTyped
<1>2. QED
  BY <1>1 DEF HeldInv, HeldSoFar, Warnings!HeldWhileLow

HeldPart == part = "warnings" => HeldInv

\* A hint is on whenever the recent readings are all unusable and is not cleared before one of them
\* is above the margin, for any traces and any configuration of the predictor.
THEOREM HeldLow == ProgramsSpec => [](part = "warnings" => Warnings!HeldWhileLow)
<1>1. ProgramsInit => HeldPart
  BY WarnBegins, HeldBegins DEF ProgramsInit, HeldPart
<1>2. HeldPart /\ [ProgramsNext]_AllVars => HeldPart'
  BY HeldKept, HeldStutters, WarnApart DEF HeldPart
<1>3. HeldPart => (part = "warnings" => Warnings!HeldWhileLow)
  BY LowRight DEF HeldPart
<1>4. QED
  BY <1>1, <1>2, <1>3, PTL DEF ProgramsSpec
=============================================================================
