------------------------------ MODULE CacheOps ------------------------------
(***************************************************************************)
(* edgeproxy/client/cache.py as operators on the value of a Cache object.  *)
(* The OrderedDict is a sequence of entries, least recently used first; an *)
(* entry has a body, and Size gives a body's bytes.  The operators are     *)
(* shared by ClientCache (the cache alone) and ClientProxy (its caller).   *)
(***************************************************************************)
EXTENDS Integers, Sequences, SequencesExt

CONSTANTS
    Size,           \* bytes of each body
    Capacity,       \* capacity_bytes
    Ttl             \* push_ttl_s; 0: unread pushed pages never expire

ASSUME CacheAssumption ==
    /\ \A body \in DOMAIN Size : Size[body] \in Nat
    /\ Capacity \in Nat
    /\ Ttl \in Nat

EmptyCache ==
    [entries |-> <<>>, used |-> 0, hits |-> 0, misses |-> 0, pushHits |-> 0,
     pushedBytes |-> 0, wastedBytes |-> 0, expiredBytes |-> 0]

\* Arrived by push and never opened since.
Unread(e) == e.pushed /\ e.hits = 0

Total(numbers) ==
    LET sum[n \in 0..Len(numbers)] == IF n = 0 THEN 0 ELSE sum[n - 1] + numbers[n]
    IN  sum[Len(numbers)]

\* The entries at these places, in their order.
Kept(entries, places) ==
    LET kept[n \in 0..Len(entries)] ==
            IF n = 0 THEN <<>>
            ELSE IF n \in places THEN Append(kept[n - 1], entries[n]) ELSE kept[n - 1]
    IN  kept[Len(entries)]

BytesAt(entries, places) ==
    Total([i \in DOMAIN entries |-> IF i \in places THEN Size[entries[i].body] ELSE 0])
BytesOf(entries) == BytesAt(entries, DOMAIN entries)
UnreadBytes(entries) == BytesAt(entries, {i \in DOMAIN entries : Unread(entries[i])})

Urls(c) == {c.entries[i].url : i \in DOMAIN c.entries}
EntryOf(c, url) == c.entries[CHOOSE i \in DOMAIN c.entries : c.entries[i].url = url]
Without(entries, url) == Kept(entries, {i \in DOMAIN entries : entries[i].url # url})

\* Pushed, unread and older than the TTL.
Stale(entries, now) ==
    {i \in DOMAIN entries :
        Ttl > 0 /\ Unread(entries[i]) /\ entries[i].storedAt < now - Ttl}

\* Mutant: what has expired is counted and stays.
ExpireKeeping(c, now) ==
    LET lost == BytesAt(c.entries, Stale(c.entries, now))
    IN  [c EXCEPT !.expiredBytes = @ + lost, !.wastedBytes = @ + lost]

\* expire: drop pushed pages that went unread for longer than the TTL.
Expire(c, now) ==
    LET stale == Stale(c.entries, now)
        lost == BytesAt(c.entries, stale)
    IN  [c EXCEPT !.entries = Kept(@, DOMAIN @ \ stale),
                  !.used = @ - lost,
                  !.expiredBytes = @ + lost,
                  !.wastedBytes = @ + lost]

\* get, once what has expired is gone and url is there.
Hit(c, url) ==
    LET e == EntryOf(c, url)
    IN  [c EXCEPT !.entries = Append(Without(@, url), [e EXCEPT !.hits = @ + 1]),
                  !.pushHits = IF Unread(e) THEN @ + 1 ELSE @,
                  !.hits = @ + 1]

\* Mutant: get trusts an earlier expire.
GetUnchecked(c, url, now) ==
    IF url \in Urls(c) THEN Hit(c, url) ELSE [c EXCEPT !.misses = @ + 1]

\* get, and touch.
Get(c, url, now) ==
    LET live == Expire(c, now)
    IN  IF url \in Urls(live) THEN Hit(live, url) ELSE [live EXCEPT !.misses = @ + 1]

\* The loop at the end of put: pop the oldest entries until used is within the capacity.
Evict(c) ==
    LET Oldest(k) == SubSeq(c.entries, 1, k)
        Enough(k) == c.used - BytesOf(Oldest(k)) <= Capacity
        n == CHOOSE k \in 0..Len(c.entries) : Enough(k) /\ \A m \in 0..(k - 1) : ~Enough(m)
    IN  [c EXCEPT !.entries = SubSeq(@, n + 1, Len(@)),
                  !.used = @ - BytesOf(Oldest(n)),
                  !.wastedBytes = @ + UnreadBytes(Oldest(n))]

\* Mutant: the bytes of the replaced copy stay in used.
PutLeaking(c, e, now) ==
    LET live == Expire(c, now)
        new == [e EXCEPT !.storedAt = now]
    IN  IF Size[e.body] > Capacity THEN live
        ELSE Evict([live EXCEPT !.entries = Append(Without(@, e.url), new),
                                !.used = @ + Size[e.body],
                                !.pushedBytes = @ + (IF e.pushed THEN Size[e.body] ELSE 0)])

\* Mutant: a push makes an opened page unread again.
PutForgetful(c, e, now) ==
    LET live == Expire(c, now)
        old == IF e.url \in Urls(live) THEN Size[EntryOf(live, e.url).body] ELSE 0
    IN  IF Size[e.body] > Capacity THEN live
        ELSE Evict([live EXCEPT !.entries = Append(Without(@, e.url), [e EXCEPT !.storedAt = now]),
                                !.used = @ - old + Size[e.body],
                                !.pushedBytes = @ + (IF e.pushed THEN Size[e.body] ELSE 0)])

\* put: a page that fits replaces the copy there was; if that was opened and
\* the new copy is a push, the hits carry over.
Put(c, e, now) ==
    LET live == Expire(c, now)
        known == e.url \in Urls(live)
        old == EntryOf(live, e.url)
        new == [e EXCEPT !.storedAt = now,
                         !.hits = IF known /\ e.pushed /\ old.hits > 0 THEN old.hits ELSE @]
    IN  IF Size[e.body] > Capacity THEN live
        ELSE Evict([live EXCEPT
                !.entries = Append(Without(@, e.url), new),
                !.used = @ - (IF known THEN Size[old.body] ELSE 0) + Size[e.body],
                !.pushedBytes = @ + (IF e.pushed THEN Size[e.body] ELSE 0)])

\* finalize: what is still unread was wasted.
Finalized(c) == [c EXCEPT !.wastedBytes = @ + UnreadBytes(c.entries)]
=============================================================================
