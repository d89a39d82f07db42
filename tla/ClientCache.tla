---------------------------- MODULE ClientCache ----------------------------
(***************************************************************************)
(* The client's cache on its own: any sequence of puts, gets and peeks its *)
(* callers may make, with time passing in between.  The proxy keeps one    *)
(* Cache for all its connections, calls it without an await inside, and    *)
(* calls finalize once, at the end of a run.                               *)
(***************************************************************************)
EXTENDS CacheOps

CONSTANTS Pages, MaxTime, MaxOps   \* the last two bound the model

VARIABLES
    cache,
    now,
    ops,        \* calls so far
    own,        \* history: how the reader has made each page in the cache its own
    lastUse,    \* history: the call that last put or opened each page
    finished    \* finalize was called

vars == <<cache, now, ops, own, lastUse, finished>>

Call == ~finished /\ ops < MaxOps /\ ops' = ops + 1

\* own: "opened" or "fetched"; "covered" when a push has replaced a fetched copy
\* and the reader has not opened the page since; "not" for a page only pushed.
Keep(p, how) ==
    own' = [q \in Pages |-> IF q \notin Urls(cache') THEN "not" ELSE IF q = p THEN how ELSE own[q]]
Use(p) == lastUse' = IF p \in Urls(cache') THEN [lastUse EXCEPT ![p] = ops'] ELSE lastUse

PutPage ==
    /\ Call
    /\ \E p \in Pages, body \in DOMAIN Size, push \in BOOLEAN :
         /\ cache' = Put(cache, [url |-> p, body |-> body, pushed |-> push,
                                 hits |-> 0, storedAt |-> now], now)
         /\ IF Size[body] > Capacity
            THEN UNCHANGED lastUse /\ Keep(p, own[p])
            ELSE Use(p) /\ Keep(p, IF ~push THEN "fetched"
                                   ELSE IF own[p] = "fetched" THEN "covered" ELSE own[p])
    /\ UNCHANGED <<now, finished>>

GetPage ==
    /\ Call
    /\ \E p \in Pages : cache' = Get(cache, p, now) /\ Keep(p, "opened") /\ Use(p)
    /\ UNCHANGED <<now, finished>>

PeekPage ==
    /\ Call
    /\ cache' = Expire(cache, now)
    /\ \E p \in Pages : Keep(p, own[p])
    /\ UNCHANGED <<now, lastUse, finished>>

Finalize ==
    /\ Call
    /\ cache' = Finalized(cache)
    /\ finished' = TRUE
    /\ UNCHANGED <<now, own, lastUse>>

Tick ==
    /\ now < MaxTime
    /\ now' = now + 1
    /\ UNCHANGED <<cache, ops, own, lastUse, finished>>

Init ==
    /\ cache = EmptyCache
    /\ now = 0
    /\ ops = 0
    /\ own = [p \in Pages |-> "not"]
    /\ lastUse = [p \in Pages |-> 0]
    /\ finished = FALSE

Next == PutPage \/ GetPage \/ PeekPage \/ Finalize \/ Tick

Spec == Init /\ [][Next]_vars
-----------------------------------------------------------------------------
Entries == [url: Pages, body: DOMAIN Size, pushed: BOOLEAN, hits: Nat, storedAt: Nat]

TypeOK ==
    /\ cache.entries \in Seq(Entries)
    /\ \A field \in DOMAIN cache \ {"entries"} : cache[field] \in Nat
    /\ {now, ops} \subseteq Nat
    /\ own \in [Pages -> {"not", "fetched", "covered", "opened"}]
    /\ lastUse \in [Pages -> Nat]
    /\ finished \in BOOLEAN

\* After any sequence of replacements, evictions and expiries, used is exactly
\* the bytes of the pages held, each held once, and within the capacity.
Accounted ==
    /\ cache.used = BytesOf(cache.entries)
    /\ cache.used <= Capacity
    /\ Cardinality(Urls(cache)) = Len(cache.entries)

\* A pushed byte is reported as wasted at most once, however its page left or
\* was replaced, and what is still unread can all be wasted yet.
WasteBounded ==
    /\ cache.expiredBytes <= cache.wastedBytes
    /\ cache.wastedBytes + (IF finished THEN 0 ELSE UnreadBytes(cache.entries))
          <= cache.pushedBytes

\* Evictions start from the page whose last use is longest ago: the order of
\* the entries is the order of their last put or get, whatever came between.
RecencyOrder ==
    \A i, j \in DOMAIN cache.entries :
        i < j => lastUse[cache.entries[i].url] < lastUse[cache.entries[j].url]

\* The cache's book-keeping agrees with what it holds, after any sequence of calls: its bytes
\* and its order, and with them what an eviction takes and when it stops.
Consistent == TypeOK /\ Accounted /\ RecencyOrder

\* A pushed page is not served for the first time once its TTL has passed.
ServedInTime ==
    [][cache'.pushHits > cache.pushHits /\ Ttl > 0 =>
          Last(cache'.entries).storedAt + Ttl >= now]_vars

\* Bytes the next state keeps and bytes it evicts: what has expired is neither.
Gone == {i \in DOMAIN cache.entries : cache.entries[i].url \notin Urls(cache')}
Evicted == Gone \ Stale(cache.entries, now)
RoomNeeded == BytesOf(cache'.entries) + BytesAt(cache.entries, Evicted) > Capacity

\* A page the reader has fetched or opened leaves the cache only when the byte
\* budget needs the room (cache.py:6-8).  One that is covered is not safe: a
\* push that replaces a fetched copy makes the page an unread pushed one (put
\* carries over hits alone, cache.py:91), and it may expire like any other.
OwnPagesStay ==
    [][\A i \in Gone :
          own[cache.entries[i].url] # "not" =>
             \/ RoomNeeded /\ i \in Evicted
             \/ own[cache.entries[i].url] = "covered" /\ i \notin Evicted]_vars
=============================================================================
