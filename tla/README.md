# edgeproxy: a TLA+ model of the tunnel proxies

This directory holds a formal model of the program under `src/`: a pair of
proxies that keep a web reader supplied with pages while the phone's network
comes and goes. The client proxy (`edgeproxy/client`) answers the browser from
its cache or through a tunnel; the server proxy (`edgeproxy/server`) fetches
from the origin, predicts the reader's next pages and pushes them before a
warned dropout. The tunnel (`edgeproxy/tunnel`) is QUIC, which survives a change
of interface, or TCP, the baseline it is compared with.

Contents: [inventory](#inventory), [modules](#modules),
[runs](#runs-and-what-they-show), [proofs](#proofs),
[findings](#where-code-and-documents-disagree),
[what is left out](#not-modelled), [plan](#plan).

## Inventory

### Components, their state and their operations

| Component | Source | State | Operations | What makes it correct |
|---|---|---|---|---|
| Prefetch policy | `server/prefetch_policy.py` | none (configuration) | `limits`, `depth2_k`, `decide` | greedy choice in order of probability, within the budget; nothing that fits is left out |
| Server proxy | `server/proxy.py` | per client: `current`, `sent`, `outlook`, `offline_from`, the `prefetch` task; shared: a table of titles | `handle` (REQUEST, VIEWED, HANDOVER_HINT, PING), `handle_connect`, the task `_prefetch` | plans follow the reader and the warnings; silent when the dropout is due; budget, backlog and repetition bounded; tasks end |
| Client cache | `client/cache.py` | ordered entries, `used`, statistics | `peek`, `get`, `put`, `expire`, `touch`, `finalize` | accounting, eviction order, no expired copy served, the reader's own pages stay |
| Client proxy | `client/proxy.py` | `page_history`, the cache, a coroutine per browser connection | `fetch`, `_on_push`, `_roundtrip`, `_pass_through`, `keep_alive` | pages held stay readable offline; what is called revalidated is; the history is right |
| Path manager | `client/path_manager.py` | `active`, `hint_sent`, `last_pong`, two loops | `step`, `_switch`, `_send_hint`, `_pinger` | leaves a dead link, gives a new one its time, tells the server the truth |
| Handover predictor | `client/handover_predictor.py` | a window of samples, the active hint with its hysteresis | `update`, `_fit` | a fade is warned of in time, a noisy reading or the way back does not clear the hint |
| Signal monitor | `client/signal_monitor.py` | a recorded trace | replay | none of its own |
| QUIC tunnel | `tunnel/quic_tunnel.py` | waiters and streams by stream id, the protocol object, per-session streams | `connect`, `request`, `send`, `open_stream`, `migrate`, `push`, `backlog_bytes` | each request ends once, with its own reply or an error; the tunnel comes back |
| TCP tunnel | `tunnel/tcp_transport.py` | the connection, waiters by message id | `connect`, `request`, `send`, `migrate`, `push` | the same, though migration breaks every connection |
| Pass-through pipe | `tunnel/transport.py` | two coroutines per connection, at both ends | `pipe` | bytes unchanged, half-close, abort, both relays end |
| Framing, HTTP helpers | `common/protocol.py`, `common/http.py` | none | `encode`, `decode`, `split_head`, header filters | decode undoes encode |
| Predictors | `predictors/*.py` | an answer cache (jev) | `predict`, `choose_links` | what was asked ahead is what is asked later; a failed call can be made again |
| Fetcher, link extraction | `server/fetcher.py`, `server/links.py` | none | one HTTP call; `extract_links` | one link per url, content before page chrome within the caps |
| Origin and data sets | `data/*.py` | snapshot files, sessions | `build_snapshot`, `sessions`, the origin | sessions stay within the snapshot |
| Batch runner, client run | `experiments/runner.py`, `client_run.py`, `analyze.py`, `emulation/shaper.py` | logs and `meta.json` of each run, processes in namespaces | a batch, one run, its figures | figures come from one whole attempt and say what happened; an interrupted batch completes |
| Warm-up | `experiments/warm_jev.py` | answer files | `warm`, `depth2_states` | the offline server finds every answer |
| Sweeps | `experiments/warning_sweep.py`, `cutoff_sweep.py` | none between runs | `evaluate` over traces, sessions and rules | warnings, outages, views and bytes counted as defined |
| Probes, plots, site data | the rest of `experiments/` | none | straight-line scripts | |
| Event log, settings, certificates | `common/*.py`, `tunnel/certs.py` | files | append, read once, write once | |

(Paths are below `src/edgeproxy`, except `data`, `emulation` and `experiments`,
which are below `src`.)

### How they interact

The browser asks the client proxy; a page that is not fresh in the cache goes
through `transport.request` as a REQUEST frame. The server proxy's `handle`
fetches it, replies, and starts (or replaces) the client's prefetch task, which
asks the predictor, fetches pages and sends PUSH frames; `_on_push` puts them in
the same cache the browser's coroutines read. The path manager samples the
interfaces, pings through the tunnel, calls `transport.migrate` and sends
HANDOVER_HINT frames, which change the server's `outlook` and `offline_from` and
make it plan anew. A view answered from the cache is reported with VIEWED.

### What is hard here

Everything runs on one event loop per side, so a step is the code between two
awaits, and every await is a place where state that was read may change:

* a hint, a view or another request arrives while the prefetch task awaits a
  fetch, the predictor or the backlog (server);
* pushes, evictions and expiry change the cache while a request that read it
  awaits the tunnel (client);
* two coroutines connect at once, a connection is replaced while requests wait
  on it, a reply comes after its caller gave up (tunnels);
* hints on QUIC streams of their own overtake one another; pongs of the old
  path arrive on the new one (path manager);
* links that never acknowledge, handlers that raise, migrations that fail;
* the two directions of a relayed connection end, are reset or lose their
  connection in any order (pass-through);
* what one program writes another reads later: a batch that is interrupted, a
  client that outlives its run, an answer asked for ahead of time (experiments).

`PROJECT.json` lists these hazards one by one, each at its line, with the
properties that would catch it going wrong, or with the reason none does.

## Modules

| Module | Models | Uses |
|---|---|---|
| `PrefetchPolicy` | `prefetch_policy.py` as operators: `LimitThreshold`, `LimitBudget`, `Depth2K`, and `Decisions`, the sets `decide` may choose | |
| `PolicyLoop` | the loop inside `decide`, page by page, with known and unknown sizes | `PrefetchPolicy` |
| `ServerPrefetch` | `_Client`, `handle`, `_page_viewed`, `_on_hint`, `_prefetch`, `_push`, `_wait_backlog` | `PrefetchPolicy` |
| `CacheOps` | the operations of `Cache` as operators on a record | |
| `ClientCache` | the cache alone, every operation in any order | `CacheOps` |
| `ClientProxy` | `fetch`, `_fetch`, `_roundtrip`, `_on_push` around the cache, with the server and the origin as environment | `CacheOps` |
| `PathManager` | `step`, `_switch`, `_send_hint`, the pinger; the socket; the outlook at the server | |
| `RequestReply` | abstract: what a tunnel promises of a request | |
| `TcpTunnel` | both ends of `tcp_transport.py` | implements `RequestReply` |
| `QuicTunnel` | requests of `quic_tunnel.py`, both ends, and `keep_alive` | implements `RequestReply` |
| `PassThrough` | CONNECT: `_serve_one`, `_pass_through`, `_QuicStream`, `open_stream`, `_open_pass_through`, `handle_connect`, `pipe` at both ends | |
| `Warnings` | `HandoverPredictor.update` run over `make_trace`'s traces by `evaluate` | |
| `Links` | `extract_links` after parsing, `choose_links`, the options of Jev's request | |
| `WarmUp` | `warm`, `depth2_states`, `JevPredictor.predict` and its files; the offline server's questions | |
| `Snapshot` | `fetch_all`, `fetch_page`, the drawing of sessions | |
| `Batch` | `runner.py`: `main`, `run_one`, the logs, `meta.json`; which rows `analyze.py` takes | |
| `ClientRun` | `read_session`, `run_scenario`, the log; `run_metrics`, `outage_window`, `zones` | |
| `CutoffSweep` | `load_views`, `PageSizes`, `evaluate` | |
| `ServerPrefetchProofs`, `PathManagerProofs`, `ClientProofs`, `TcpTunnelProofs`, `QuicTunnelProofs`, `PassThroughProofs`, `ProgramsProofs`, `FiguresProofs` | theorems and lemmas | the module they are named for; `ClientProofs` is about `MCClient`, the proxy and the cache alone, `ProgramsProofs` and `FiguresProofs` about programs of `MCPrograms`: `PolicyLoop`, batch, snapshot, warm-up and links in the one, what is measured of a run and of a trace in the other |
| `MCClient` | `ClientProxy` and, beside it, `ClientCache`: `of` says which of them a behaviour is of | both |
| `MCPrograms` | the programs that stand alone, side by side: `part` says which one a behaviour is of | `PolicyLoop`, `ServerPrefetch`, `Batch`, `ClientRun`, `WarmUp`, `Snapshot`, `Links`, `Warnings`, `CutoffSweep` |
| the other `MC*` | sites, sizes, answers and hints for TLC | |

Operators and actions have the names of the functions and fields they stand for
where TLA+ allows it; `PROJECT.json` gives the lines of each. Operators and
actions whose comment begins with "Mutant" are broken variants of the definition
they precede; no specification uses them. They exist so that each property can
be seen to fail when the code it is about is wrong.

**ServerPrefetch.** One client is the whole story: sessions share only the
titles. `task.pc` says in which await the prefetch task is; each action is the
code up to the next await (`PageFetched`, `Predicted`, `TargetFetched`,
`BacklogPolled`, `ParentFetched`, `ChildrenPredicted`), or the handler of one
frame (`PageRequested`, `OtherRequested`, `PageViewed`, `Hinted`), or outside
(`Acked`, `Tick`). A handler that cancels the task changes `task` in the same
step, as `Task.cancel` takes effect before the task can run again. Probabilities
are in percent, bytes in units; a frame's wire size is independent of the size
the policy planned with, as in the code.

Two history variables are there for properties alone: `burst`, what the running plan has
pushed, and `ahead`, what was unacknowledged when the last push went out.

**ClientCache, ClientProxy.** The cache is a record of the ordered entries, `used` and
the counters; an operation is an operator from a cache to a cache, so that `put`
contains the expiry and the evictions it calls. In `ClientProxy` a body is a page
at a version and its ETag the version. The cached copy (`entry`) and the history
(`past`) a request read before its await are fields of the request, and are used
after it, as in the code. The history `own` of the cache says of each page whether the reader has
`"fetched"` it, `"opened"` it, or fetched it and had it `"covered"` by a push before opening it again.

**PathManager.** `last_pong` is kept as an age that stops at `DeadAfter`. An
interface is healthy, warned about or neither: which of several healthy ones is
best depends on signal levels that are left out, so any may be chosen. A sent
hint is a frame in `flying`; with `InOrder = FALSE` it arrives at any time after
those before it or ahead of them, and in either case only over a link that is up. A QUIC
connection without a link may end at its idle timeout (`ended`): what is in `flying` is lost, and
so is every hint sent afterwards, though `hint_sent` follows it.

**PassThrough.** One CONNECT. Each end has its peer (the browser, the site), its
`_QuicStream` and the two coroutines of `pipe`, which `gather` ties together: the first
exception ends the wait and leaves the other coroutine behind. A browser that resets its connection
while the stream is being opened makes the `drain` before `pipe` raise: the stream is then left as it is. Bytes are numbers in
the order they were sent, so that what arrives can be compared; a header is `HeadLen`
bytes and may arrive in pieces or with data behind it. `ConnectionTerminated`
reaches the streams each end still has in its table, and only those.

**The experiments and data programs.** These run alone, so each is a
small machine: `Batch` one run after the other, with processes that fail, hang or outlive
their run and a batch that is killed anywhere; `ClientRun` a reader, the links and a clock in
seconds, compared with the figures made from the log; `WarmUp` tasks under a semaphore, calls that
fail and answers that are no answers, then the server's questions; `Snapshot` downloads with
tries; `Links` one walk over a page's anchors; `Warnings` one trace tick by tick with an exact
fit; `CutoffSweep` the sessions read again with answers missing. They have no variables in
common and are checked in one run, `programs`: `part` is chosen at the start and never
changes, only that program moves, the others stay in an initial state. Its states are
the sum of theirs, not the product; fairness is stated for each part by itself.
`MCClient` does the same for the cache alone and the client proxy.

**TcpTunnel, QuicTunnel.** A connection is a record with what either end believes of
it, its waiters (`pending`) and the frames on their way. The two ends learn
independently that it is gone, and over TCP need never learn it: a silent break has nothing to tell them. Over TCP frames are sequences, over QUIC sets (one
stream each). A call of `transport.request` is one member of `Requests`, over TCP a call of `send` one of
`Notices`; `_roundtrip`, which calls again after an error, is in `ClientProxy`. The byte
layout is left out, except that the empty payload a raising handler leaves is no
frame, which ends the connection over TCP and is dropped over QUIC.

## Runs and what they show

| Run | Properties | Bounds |
|---|---|---|
| `prefetch` | `PlanWithinBudget`, `StrandsLittle`, `WarnedPlan`, `SilentWhenDue`, `NeverPushedTwice` | four pages, three frames from the client, two ticks, frames under and over the backlog limit |
| `stale_push` (violation) | `NoStalePush` | four frames, no time |
| `client` | `ReadableOffline`, `HistoryInOrder`, `OwnRevalidation` of the proxy; `Consistent`, `WasteBounded`, `ServedInTime`, `OwnPagesStay` of the cache | proxy: two pages, two requests at once, two versions, one push, two ticks; cache: three pages, bodies of one, two and too many units, capacity three, four calls, two ticks |
| `proxy_validators` (violation) | `RevalidatedIsConfirmed` | three visits, one push |
| `programs` | `PushOrder`, `NothingFits`, `AsDecided`; `PlansEnd`, `WaitEndsWhenDue`; `WholeLogs`, `Completes`; `SaidAsLived`; `AnswersWarm`, `WarmsUpUnlessSpoiled`; `SessionsInSnapshot`; `OffersContentFirst`; `AlarmsCounted`, `WarnsInTime`; `SweepSound` | see the next table |
| `paths` | `HintAgreed`, `FullGrace`, `MovesAwayUnlessBroken`, `OutlookSettles` | three interfaces, QUIC or TCP, two changes of the environment, one unsendable hint, one failed migration, the end of the connection |
| `paths_hints` (violation) | `HintAgreed` | two interfaces, QUIC, hints in any order |
| `paths_stuck` (violation) | `MovesAway` | two interfaces, QUIC, one failed migration |
| `tcp_tunnel` | `NobodyForgotten`, `KeepsPromise`, `RequestsEnd` | two calls out of two requests and a one-way frame, three connections, any two of breaks, migrations, a close, raising handlers, pushes |
| `quic_tunnel` | `LostOnlyIfLate`, `KeepsPromise`, `RequestsEnd`, `Recovers` | two requests, three connections that end or are slow (so up to four), one raising handler |
| `pass_through` | `Unchanged`, `RelaysEndOrPoll` | two bytes one way and one the other, a header of two bytes, a window of one |
| `pass_through_stuck` (violation) | `RelaysEnd` | the same |

The programs of `programs`:

| Part | Bounds |
|---|---|
| `policy` | every forecast over three pages, three probabilities, two known sizes, three outlooks |
| `prefetch` | the site of the run `prefetch`, two frames, one tick, under fairness |
| `batch` | two runs, any three failures, hangs and interruptions |
| `client_run` | three pages, five seconds, a link that comes back and one that does not |
| `warm_up` | two sessions over three pages and a page outside the snapshot, two questions at once, two faults |
| `snapshot` | two seeds and a target, a fourth page reached by a session, two tries, two faults |
| `links` | every page of up to four anchors over four urls, a cap of two, one option |
| `warnings` | an outage or a near miss in ten ticks, fast or slow, three changes of the shadowing, one noisy reading |
| `sweep` | two sessions of seven pages in all, any set of missing answers, five rules |

The type invariants of the modules (`TypeOK`) are proved where there is a proof module and
are not repeated in the runs.
`CHECK_DEADLOCK` is off everywhere: each model stops when its bounds are used up
and nothing is outstanding, as the program waits for its next input.

**Why the bounds are enough.** The four pages of `MCServerPrefetch` are chosen so
that every branch of the task is taken: a page to push in normal times, one only
under a warning, one two clicks away, behind either, and a page without links.
Three frames allow a view, a warning and a second view or the clear, which is
what it takes for one plan to replace another twice. Frame sizes are on both
sides of the backlog limit. In the cache, three pages and a capacity
of three units make one put evict none, one or two others; a TTL of one tick
within two makes a page expire before, in and after a call. Two open requests are the
least that interleave, and two versions the least that can be confused. The tunnels need
two requests to mix up replies, one connection more than break so that the last one
stands, and, for `Recovers`, three connections that end: one lost,
its successor slow to make, and that one lost again. The TCP calls may be two requests or a
request and a one-way frame; two events are enough for a migration to meet a break, a close or a reply
that cannot be read. Two bytes are the least that can be swapped, and a window of one
makes `drain` wait on the first. A batch needs two runs, so that one can be finished before the
other fails, and three faults: a client that outlives its run, the next attempt failing,
and an interruption. Ten ticks hold an outage, its end and a second crossing, with a window of four.
Two sessions that share pages with different pages before them are what it takes for the history to
matter in `warm_up` and `sweep`. TLC reports every action of
every passing run as taken.

**Fairness.** Safety runs need none. In `programs`, of the prefetch task: the event loop goes on with a
task whose await is over, and fetches and the predictor return (both have
timeouts in the code); nothing is assumed of the client's acknowledgements,
and `PlansEnd` states the ones it needs as its premise. Of the batch and the warm-up: a
started program goes on, and somebody starts it again until it is through, as
`runner.py` and `jev.py` expect; faults may happen at any point up to the bound. `paths`: both loops of the
manager go on, an awaited migration ends (it is under `wait_for`), time passes, and QUIC repeats a
hint until it arrives as long as the connection has a link; `OutlookSettles` states as its premise that it
has one for good. `tcp_tunnel`: connects end (`connect_timeout`), the loops of
both ends go on and handlers return. Nothing makes an end notice a connection that broke: the reads have neither a timeout nor
keepalives. There the caller's timeout is what ends the wait, and it is fair only for a call whose connection broke; `RequestsEnd` does
not lean on it otherwise. `quic_tunnel`: what is sent over a standing connection arrives,
handlers return, idle timers run out, `keep_alive` goes on and a handshake under way is done or
its idle timer runs out. `pass_through`: the coroutines of both ends go on, what is
sent over a standing connection arrives, and each peer finishes sending in the end; the opening of the stream ends with an answer or under `wait_for`,
and an end whose far end has ended the connection learns it from its idle timer.

**What the properties say, component by component.**

* Server: whatever arrives during its awaits, the task pushes nothing once the
  dropout is due (`SilentWhenDue`), spends at most the hard cap over both depths
  (`PlanWithinBudget`), has more than the limit unacknowledged only as one frame that is above it by itself, sent
  on top of nothing (`StrandsLittle`), never repeats a page (`NeverPushedTwice`), and while a warned dropout is
  ahead is always a plan for the current page with the warning's budget
  (`WarnedPlan`). It ends (`PlansEnd`), and does not wait on a dead link beyond the dropout
  (`WaitEndsWhenDue`).
* Cache: `used` is the bytes held, each page held once, and evictions follow use
  (`Consistent`); a pushed byte is wasted once (`WasteBounded`), no pushed page is served for
  the first time after its TTL (`ServedInTime`), and pages the reader opened or fetched
  leave only for want of room, what is kept and what is evicted with them exceeding the capacity, unless a push has covered a fetched
  page that was not opened since (`OwnPagesStay`).
* Client proxy: a page held when it was asked for is readable during an outage
  whatever happens to the cache meanwhile (`ReadableOffline`); with the proxy's own
  validators a page called revalidated is the version the origin confirmed
  (`OwnRevalidation`); the history follows the visits that do not overlap
  (`HistoryInOrder`).
* Path manager: a new path gets its whole grace over QUIC (`FullGrace`); with hints
  in order and until the connection ends the server believes what the client believes it told it (`HintAgreed`),
  and, given a link for good, in the end the truth (`OutlookSettles`); the tunnel ends on a link that is up, as
  long as no migration has failed (`MovesAwayUnlessBroken`).
* Tunnels: both implement `RequestReply` under the refinement mapping at the end of
  each module (`KeepsPromise`): a request ends once, by its own reply or an error, and is handled at
  most once. Over TCP every request that waits can still be told
  (`NobodyForgotten`) and ends (`RequestsEnd`), without its caller's timeout unless the connection broke, which neither end need
  notice. Over QUIC the end of a standing connection is noticed, and requests end without that timeout
  but for two cases, both visible in the properties: a request made on a
  connection that has already ended (`LostOnlyIfLate`), and one whose handler raised, whose
  empty reply is dropped. `keep_alive` brings the tunnel back (`Recovers`).

* Pass-through: both ends deliver a prefix of what the other peer sent, in order, whatever came with or after the
  header (`Unchanged`); every relay ends, unless it is in the one state in which it polls for ever
  (`RelaysEndOrPoll`; see below) or serves a stream the client never took up: it gave up on the answer, or its browser was
  gone when the answer came.
* Policy: the walk meets pages in order of probability (`PushOrder`), leaves out none that fits
  (`NothingFits`) and chooses a set the operator `Decisions` allows, which `ServerPrefetch` uses (`AsDecided`).
* Batch and run: the row of a finished run comes from one attempt and all of it (`WholeLogs`), though clients
  outlive their runs; the batch completes, but for two known ways to be stuck (`Completes`). Waits, pages, the outage and
  the zones shown are those the reader went through, pages that never came included (`SaidAsLived`).
* Warm-up: every question of the server, one and two clicks deep, was asked ahead (`AnswersWarm`), and a warm-up that is
  started again comes to its end unless a spoiled answer is in its way (`WarmsUpUnlessSpoiled`).
* Data: a session only visits pages the snapshot has, by links on the page before (`SessionsInSnapshot`).
* Links: one link per url with all its anchors counted, and a boilerplate link is offered only when no link
  of the content is left out (`OffersContentFirst`).
* Predictor: a hint stays on while the readings are low, a steady fade is warned of before the link drops
  (`WarnsInTime`), and the sweep counts outages, lead times and false alarms as it says, late warnings excepted
  (`AlarmsCounted`).
* Cutoff sweep: whatever answers are missing, a view pairs the answer for the page on screen with the page opened next and the
  one after it, and the figures of the rules fit together (`SweepSound`). Bytes need not fall as the cutoff
  rises: the size charged for an unknown page is the typical one at that time and moves from rule to rule
  (`cutoff_sweep.py:157-160`).

Every property has a mutant in `PROJECT.json`: a plausible bug in one definition
that makes TLC report the property violated under the same configuration.

## Proofs

TLAPS proves the theorems below for every value of the constants that satisfies the named
assumptions. These say what the constants are, not how the program behaves:

* `PolicyConfig`, `LoopAssumption`, `ServerAssumption`, `PathAssumption`, `ProxyAssumption`,
  `CacheAssumption`, `PassThroughAssumption`, `QuicAssumption`, `TcpAssumption`: sizes, times, thresholds and bounds are
  numbers, answers score pages, the sets are what their names say. The two tunnels add that the word `"failed"`,
  which stands for an exception where a reply would be, names no request.
* `AloneAssumption`: the sizes, the capacity and the TTL of the cache that runs alone are numbers.
* `ProgramsAssumption`: sessions are sequences of pages of the snapshot, links of downloaded pages are pages,
  and the number of runs is a number.
* `LinksAssumption`: each url has a fate, "nowhere" is none, and the caps are numbers.
* `RunAssumption`: a scenario's events are in the order of their times, as `run_scenario` sorts them, and about its
  links, of which one is up at the start; times are numbers; `"pending"`, which `analyze.py` calls a page that never came,
  is no source of a page.
* `WarningsAssumption`: levels and times are numbers, a fade takes time, a fit needs two samples and the window has room for
  as many as it needs (so it has in `PredictorConfig`: five of five seconds).

The bounds on faults, requests and time are among these constants, so the results are for any number of each.

| Module | Theorems | Argument |
|---|---|---|
| `ServerPrefetchProofs` | `Typed`, `BudgetKept`, `BacklogKept`, `WarningReplans`, `SilenceKept`, `PushedOnce` | one inductive invariant `IInv` (below) |
| `PathManagerProofs` | `Typed`, `Agreed`, `GraceKept` | `IInv` = types, the socket over TCP, `AgeWithinGrace`, the last hint |
| `ClientProofs` | `Offline`, `Revalidation`, `History` | `IInv` = the answer on its way is about the copy found (`Confirmed`), one visit is open at most and its list still stands (`OneVisit`, `PastHolds`) |
| | `Accounts`, `WastedOnce`, `FirstServed`, `OwnKept` | `CacheInv` = `used` is what the entries weigh, the wasted bytes and those unread are no more than were pushed, entries in the order of last use, the reader's own pages still there as fetched or opened |
| `TcpTunnelProofs` | `NoneForgotten`, `Promised` | `IInv` follows each request through waiter, frame, task and reply (below) |
| `QuicTunnelProofs` | `NoneLost`, `Promised` | the same with a stream for each request |
| `PassThroughProofs` | `Intact` | `IInv` places every byte on its way at a position of what was written (`Inflow`, below) |
| `ProgramsProofs` | `PolicyTyped`, `LikeliestFirst`, `Greedy`, `Decided` | `PolicyInv` = types, order, what is chosen is above what is left, every page passed was held, chosen or too big; the amount planned counts the pages |
| | `LogsWhole`, `WithinSnapshot`, `EveryAnswerThere`, `ContentOffered` | `BatchInv`, `SnapshotInv`, `WarmUpInv`, `LinksInv`, one for each program |
| `FiguresProofs` | `SaidRight`, `CountedRight`, `HeldLow` | `RunInv`, `WarnInv`, `HeldInv`: what has been counted so far is what happened so far |

*ServerPrefetch.* None of the safety properties is inductive: after an await
the task acts on what it remembers. `IInv` adds what ties that memory to the
world: `AccountInv`, the task's `spent` is the history variable `burst`, and a frame that waits for
room already fits the budget; `OnceInv`, what has been pushed is in `sent` and the
target and queue of the task are not; `PlanInv`, a task has a page, and two clicks
deep an answer for each page it will still expand. A lemma for each stretch of
code without an await (`FetchingGoes`, `NextParentGoes`, `ExpandGoes`, ...) says what
the next task keeps of the last; the step lemma has one case for each action.
`SilenceKept` and `PushedOnce` are action properties that follow from the same
invariant. `NoStalePush` is not provable, being false (see below).

*PolicyLoop.* That nothing that fits is left out needs that the amount planned only
grows, so that a page too big when the walk met it stays so; that the order is
right needs that pages are met in the order of their probabilities. `Decided` says the walk chooses a set
the operator `Decisions` allows, which is how `ServerPrefetch` plans. It is stated for an answer without sizes, where pages are
all planned alike: `Counted` says the amount planned counts the pages chosen, and
`FirstPages` that a page passed over is never more likely than one chosen, so the chosen are the most likely of those wanted,
as many as the budget holds (`FiniteSetTheorems` for the counting).

*PathManager.* `FullGrace` compares the age of the last pong with the time since the
migration: `AgeWithinGrace` says the age starts at zero with the grace and cannot overtake it; a
tick raises both. `HintAgreed` is generalised to hints on their way: the last of `flying`,
or the outlook when there is none, is what the client believes it sent, until the connection ends. The theorem is under
`InOrder`; without it TLC has a counterexample.

*ClientProxy.* The proof uses nothing of what the cache does with its entries. A request keeps the copy it read
before its await, so a page it had can be served whatever happened to the cache, and a 304
to the proxy's own validator is about that copy. `HistoryInOrder` is conditional on visits that do not overlap:
`OneVisit` and `PastHolds` say that then the list the one open visit read is still the list. `RecentAt` and `RecentAppend` are about the
last pages of a list that grows by one and is cut.

*Client cache.* The numbers of the cache are sums over its entries, and each operation keeps entries at chosen places.
`Total` and `Kept` are recursive functions, so facts about them for every sequence need induction. The library's induction
theorems cannot be used (they take an operator), but `WFMin` with `NatLessThanWellFounded` can: a set of numbers has a least
member (`LeastOf`), so a set with zero and each successor holds all (`UpTo`), and the same for sequences (`AllSequences`);
each induction is over the set of sequences the fact holds of. From there a sum is a weight (`Weighed`) that adds up when a sequence is
cut, joined or thinned out, and `KeptPicks` says in which order entries are kept. Each call is a lemma on the cache it leaves (`ExpireIs`, `HitIs`,
`WithNewIs`, `EvictIs`, `PutIs`); `EvictStops` says the loop of `put` ends before the page just stored, since that fits, at the first
place where the rest fits. `Kind` is what the lemma for each action shows: the invariant afterwards (`CacheInv'`), that nothing
is opened for the first time after its TTL (`InTime`), and that a page of the reader's own only left
because what is kept and what was evicted did not fit together, or expired when it was covered (`ForRoom`). Neither the number of calls nor the time is bounded by an assumption.

*Tunnels.* That a caller gets its own reply rests on a chain: ids are given out once for each
connection (`NumbersTaken`), a request is at one place at a time and nowhere once handled (`SentOnce`, `NewUnseen`), so at
every point of its way an id belongs to one request (`IdsMatch`, over QUIC `StreamsMatch`), and who waits has its waiter there
(`WaitersKnown`). Over TCP `DialsApart` adds that two coroutines that connect at once, or one and `migrate`,
have a connection each. `Promised` is the refinement: the initial state maps to one of `RequestReply`, and each action
maps to `Ask`, `Handle`, `Answer`, `Fail` or a stutter, which the lemmas on `Shown` sort out.

*PassThrough.* What an end has written is a header and then the bytes 1, 2, ... of its peer. `Run` says the chunks queued at
the far end and the bytes on the wire are consecutive pieces of that, and `Inflow` ties the first position to
what has been delivered and put back, and the last to what was written, for as long as the stream is still written.
A header cut anywhere, data right behind it, a reset and the end of the connection each keep that.

*Batch.* The files are tied to attempts: only the attempt in progress writes to the logs of its run (`Alone`), what is in them so far is
its own (`LogsSoFar`), and those of a finished run have no writer left (`Closed`), a client that outlived its run having lost
them when the next attempt unlinked them.

*Snapshot.* The manifest lists downloaded pages only, and a session being drawn or cut is a path over links whose pages
are on file; a page that cannot be had cuts its session in front of it.

*Warm-up.* Each gathered task keeps its question (`Answering`). While views are asked, the answers on file and the answers
tasks hold agree in one task at least for each question (`OfViews`), the one whose answer came last, so the children asked next include those of the answers the
server will read; while children are asked, no answer to a view is overwritten, as a child whose question is a view's too finds
it on file (`OfChildren`). At the end both are on file (`Warmed`).

*Links.* `LinksInv` says of the anchors walked so far what `AsOnPage` says of all: an entry for each url that is kept, in the
order of their first anchors, with its anchors counted and boilerplate when all of them are (`EntriesOf`). An anchor to
skip, a second anchor and a new url each keep that (`OneMoreAnchor`, `CountedAgain`, `AddedOnce`). What a sort puts in front
is a question of counting: in a strict order of n things the numbers of those before each are 0 to n - 1, each once
(`PlacesOf`), so the ranking is one to one and nothing that is taken comes after something that is not (`RankedIs`).

*ClientRun.* The log is compared with history variables the reader and the links keep. `RunInv` says each click and view
of the log is of its page, that a page's wait so far is the time since its click until it is shown (`waited`), and that
the links in force are the scenario's events applied so far; so the sum and the greatest of the waits the figures
take from the log are those the reader has had, the clicks in the window of the outage are those made with every link dead,
and at every second the segment of `zones` has the profile that was in force.

*Warnings.* `WarnInv` says of each figure of `evaluate` what the history so far makes it: `warn_start` is where the warning
that is on began, `had_outage` whether an outage began in it, `up_since` the last return, `leads` has the lead of each outage so
far in its place, `false_alarms` counts the warnings over without a crossing in them (`Idle`). A tick adds one record
to the history and leaves what was said of those before (`OldTicks`). At the end the idle warnings are those `AlarmsCounted` counts, in two
disjoint sets: without the link down in them, or begun when it already was (`IdleOnes`).

*Predictor.* `HeldInv` adds that the window is the last ticks of the history (`WindowKept`). That it forces a hint is arithmetic of the
fit: the spread of the times is not negative (`SquaresAreMore`: with n squares q and sum s, nq is at least ss), the mean of readings that are not above b is not
above b (`SumBounded`), and the correction for the lag of a falling level only lowers it, so the level is unusable or within the margin when all readings are
(`RaisedWhenLow`). With the correction on the way up too, as in the mutant, the second step is wrong.

The invariant of each module was checked by TLC on the instances above before it
was proved.

**Only model-checked:**

* liveness under fairness (`PlansEnd`, `WaitEndsWhenDue`, `MovesAwayUnlessBroken`,
  `OutlookSettles`, `RequestsEnd`, `Recovers`, `RelaysEndOrPoll`, `Completes`, `WarmsUpUnlessSpoiled`), which is
  beyond the prover;
* `SweepSound`, whose definitions sort and fold sequences in ways the prover cannot expand;
* the second half of `WarnsInTime`, `FadeForeseen`: whether a fade is foreseen depends on the figures of the trace and the
  predictor, and is false for some (a horizon of nothing, say). The first half is `HeldLow`.

## Where code and documents disagree

The violation runs, each with a finding in `PROJECT.json`:

* `stale_push`: a view while the dropout is due moves `current` but leaves the old
  task; when the hint is cleared first, it pushes for a page the reader has left.
* `proxy_validators`: a 304 to the browser's own validator is taken to confirm
  the proxy's copy, which may be older.
* `paths_hints`: a warning that arrives after its clear leaves the server
  expecting an outage.
* `paths_stuck`: one failed QUIC migration, and `active` is not where the socket is; the
  one healthy interface is never tried again.
* `pass_through_stuck`: a stream whose other direction has ended is not told when the connection
  ends; its relay polls `drain` for ever.

Seven more are shown by passing runs, whose properties name the exception; each has a finding too:

* `Completes`: a batch killed while `meta.json` is written is stuck on it (`runner.py:176`).
* `WarmsUpUnlessSpoiled`: a response without probabilities is kept as the answer (`jev.py:140`).
* `AlarmsCounted`: a warning that begins in an outage counts as a false alarm (`warning_sweep.py:106`).
* `StrandsLittle`: a frame above the backlog limit is sent when nothing is unacknowledged, so more than the limit is (`server/proxy.py:364`).
* `OwnPagesStay`: a page the reader fetched and that a push covers before it is opened again can expire (`cache.py:91`).
* `OwnPagesStay`, whose opened pages stay because `put` carries their hits over: for the same reason a prefetch of a page
  opened before is not fresh for the click (`client/proxy.py:173`).
* `HintAgreed`: a hint written to a QUIC connection that has ended counts as sent and is not tried again (`path_manager.py:142`).

`HistoryInOrder` and `LostOnlyIfLate` name their exceptions in the same way, without a document to disagree with.

Others met on the way, kept out of the runs because they are smaller or no document
is definite about them:

* `client/proxy.py:148` replaces the list read at 142: of two visits that overlap, the one that finishes
  first is missing from the history.
* The grace of a new path starts before the TCP connect it waits for (`path_manager.py:124`), so over TCP a
  slow connect takes from it.
* `_roundtrip` (`client/proxy.py:126`) sends the same frame again after a broken connection, a POST included, though the
  first may have been performed.
* An answer fetched before another may arrive after it, and the cache goes back to the older version (`client/proxy.py:211`).
* `sent` (`server/proxy.py:140`) counts a page as held by the client that may have been evicted, expired or lost with the
  connection; it is not pushed again in the session.
* When `open_stream` is cancelled by `wait_for` (`client/proxy.py:273`), or its browser is gone when the `drain` at line 281
  comes, the stream stays open, and the server relays for nobody until the site resets or the connection ends.
* A request on a TCP connection that died silently is told by nobody: `_read_msg` (`tcp_transport.py:36`) has no timeout, and the
  connection stays the current one until the path manager migrates.
* A process that prints nothing blocks `_wait_for_line` in `readline` (`runner.py:54`), whose deadline is
  tested only between lines.
* Over TCP hints of one connection arrive in order, but a hint on its way on the connection `migrate` drops may still be
  read after one sent on the next; `PathManager` takes TCP's order as given across migrations.
* `tcp_transport.py:142` says it drops "the connection"; of two that were made at once only
  the later is dropped, and the other goes on serving its requests.

## Not modelled

* Signal levels of the interfaces in `PathManager` (which of several healthy ones is best is left open), and floating point
  in general; the predictor's fit is exact over whole dB in `Warnings`.
* Parsing: HTTP on the browser side, the header filters of `common/http.py`, HTML, canonical urls, the JSON and length checks of
  frames. Messages are members of small sets. The header of a relayed stream is modelled as far as
  its pieces go.
* Datagrams and `_ReachabilityMixin`, which resets a timer inside the QUIC library; the server's `start` and `close`; QUIC's `close`.
* QUIC and TCP themselves, httpx, Jev's model and the shell commands of the shaper: environment, from the way the code uses them.
* `predictors/baselines.py`: scores as arithmetic over counts and titles; any answer stands for them.
* `figures.py`, `site_data.py`, `general_web.py`, `tunnel_probe.py`, `voip_probe.py`, `predictor_eval.py`, `harness.py`, the command
  lines of all programs, `clickstream.py`, the page scores of `build_snapshot.py`, the HTTP layer of `origin_server.py`, the files
  `export_replay.py` writes: straight-line scripts that read finished results or time one transfer and
  print or draw; nothing runs beside them and no state survives a step.
* `certs.py`, `env.py`, `settings.py`, `signal_monitor.py`: files read or written once.
* The title table shared by sessions, but for the questions the offline server asks (`WarmUp`).

## Plan

Done, in this order: `PrefetchPolicy`, `ServerPrefetch` with proofs, `ClientCache`, `ClientProxy`,
`PolicyLoop` with proofs, `PathManager` with proofs, `RequestReply`, `TcpTunnel`, `QuicTunnel`,
`PassThrough`, `Batch`, `ClientRun`, `WarmUp`, `Snapshot`, `Links`, `Warnings`, `CutoffSweep`.

Proofs, after those: `ClientProxy`, `TcpTunnel`, `QuicTunnel`, both refinements of `RequestReply`, `PassThrough`, the
batch, the snapshot and the warm-up of `MCPrograms`, the client cache, and last the run, the trace, the predictor and the links.

Left:

1. `SweepSound`: the walk of `load_views` by induction, once its sorts are written as places.
2. For which figures of the trace and the predictor a fade is foreseen.
