---------------------------- MODULE ClientProxy ----------------------------
(***************************************************************************)
(* edgeproxy/client/proxy.py: the browser's requests (fetch, _fetch,       *)
(* _roundtrip), the pushes that arrive meanwhile (_on_push), and the cache *)
(* they share.  Every connection of the browser has its own coroutine; it  *)
(* runs alone until it awaits the tunnel, and what it read before the      *)
(* await (the cached copy, the list of visited pages) it still uses after. *)
(*                                                                         *)
(* A body is a page at a version, and its ETag is the version.  The origin *)
(* moves on to a new version at any time; the server answers a request,    *)
(* and fetches what it pushes, at the version of that moment.              *)
(***************************************************************************)
EXTENDS CacheOps

CONSTANTS
    Pages,
    Fetches,        \* requests the browser may have open at once
    NoPage, NoEntry, NoAnswer,
    Kinds,          \* what the browser asks for, of AllKinds
    OwnValidators,  \* may the browser send its own If-None-Match?
    HistoryLen,
    MaxVersion, MaxTime, MaxRequests, MaxPushes     \* bounds of the model

Versions == 1..MaxVersion
None == 0           \* no validator, no body

\* visit: GET for text/html; asset: any other GET; prefetch: X-Edgeproxy-Prefetch.
AllKinds == {"visit", "asset", "prefetch", "head", "post"}
Sources == {"push", "revalidated", "stale", "origin", "error"}

ASSUME ProxyAssumption ==
    /\ DOMAIN Size = Pages \X Versions
    /\ NoPage \notin Pages
    /\ Kinds \subseteq AllKinds
    /\ OwnValidators \in BOOLEAN
    /\ {HistoryLen, MaxVersion, MaxTime, MaxRequests, MaxPushes} \subseteq Nat

VARIABLES
    cache,
    page_history,   \* pages the reader visited, oldest first
    fetch,          \* what each open request knows
    last,           \* the last reply given; had: a copy was held when it was asked for
    now,
    version,        \* the origin's pages
    pushes,         \* PUSH frames on their way
    requests, pushCount,
    held,           \* the version of each page the browser could revalidate
    visits,         \* history: the pages visited, in the order of their replies
    alone           \* history: no page was opened while another was loading

client == <<cache, page_history, fetch>>
browser == <<last, requests, held, visits, alone>>
network == <<version, pushes, pushCount>>
vars == <<client, browser, network, now>>

Quiet == [url |-> NoPage, kind |-> "none", own |-> None, entry |-> NoEntry,
          past |-> <<>>, answer |-> NoAnswer]

Open(f) == fetch[f] # Quiet

Least2(m, n) == IF m < n THEN m ELSE n

\* page_history[-HISTORY_LEN:]
Recent(pages) == SubSeq(pages, Len(pages) - Least2(Len(pages), HistoryLen) + 1, Len(pages))

Version(e) == e.body[2]
Copy(p, v, push) == [url |-> p, body |-> <<p, v>>, pushed |-> push, hits |-> 0, storedAt |-> now]
-----------------------------------------------------------------------------
\* Mutant: every reply rewrites the list of visited pages.
FinishAll(f, r, source, v, confirmed) ==
    /\ fetch' = [fetch EXCEPT ![f] = Quiet]
    /\ last' = [url |-> r.url, kind |-> r.kind, own |-> r.own, had |-> r.entry # NoEntry,
                source |-> source, v |-> v, confirmed |-> confirmed]
    /\ page_history' = IF r.kind = "visit" THEN Append(r.past, r.url) ELSE r.past
    /\ visits' = IF r.kind = "visit" THEN Append(visits, r.url) ELSE visits
    /\ held' = IF OwnValidators /\ v # None /\ r.kind # "head" THEN [held EXCEPT ![r.url] = v] ELSE held

\* The reply to request r goes to the browser and, for a visit, the list of
\* visited pages becomes the one read when r started and this page.
Finish(f, r, source, v, confirmed) ==
    /\ fetch' = [fetch EXCEPT ![f] = Quiet]
    /\ last' = [url |-> r.url, kind |-> r.kind, own |-> r.own, had |-> r.entry # NoEntry,
                source |-> source, v |-> v, confirmed |-> confirmed]
    /\ IF r.kind = "visit"
       THEN page_history' = Append(r.past, r.url) /\ visits' = Append(visits, r.url)
       ELSE UNCHANGED <<page_history, visits>>
    /\ held' = IF OwnValidators /\ v # None /\ r.kind # "head" THEN [held EXCEPT ![r.url] = v] ELSE held

\* The requests the browser may make now; own is its own validator.
Asked ==
    {r \in [url : Pages, kind : Kinds, own : {None} \cup Versions] :
        /\ r.own # None => OwnValidators /\ r.kind # "post" /\ r.own = held[r.url]}

\* The copy found answers the request without the tunnel.
Suffices(r) == r.entry # NoEntry /\ (r.kind = "prefetch" \/ Unread(r.entry))

\* _fetch up to its first await, when the cache holds a copy good enough.
ServeHeld(f, r, live) ==
    /\ Suffices(r)
    /\ \/ /\ r.kind = "prefetch"
          /\ cache' = Put(live, [r.entry EXCEPT !.pushed = TRUE, !.hits = 0], now)
       \/ /\ r.kind # "prefetch"
          /\ cache' = Get(live, r.url, now)
    /\ Finish(f, r, "push", Version(r.entry), None)

\* _fetch up to its first await, when it needs the tunnel.
GoToTunnel(f, r, live) ==
    /\ ~Suffices(r)
    /\ cache' = live
    /\ fetch' = [fetch EXCEPT ![f] = r]
    /\ UNCHANGED <<page_history, last, held, visits>>

\* A request arrives: fetch, and _fetch up to its first await.  (The VIEWED
\* frame for a page served from a push changes nothing here; the server takes
\* it as ServerPrefetch!PageViewed.)
Start(f) ==
    /\ ~Open(f)
    /\ requests < MaxRequests /\ requests' = requests + 1
    /\ \E ask \in Asked :
         LET peeked == IF ask.kind = "post" THEN cache ELSE Expire(cache, now)
             entry == IF ask.kind # "post" /\ ask.url \in Urls(peeked)
                      THEN EntryOf(peeked, ask.url) ELSE NoEntry
             r == [Quiet EXCEPT !.url = ask.url, !.kind = ask.kind, !.own = ask.own,
                                !.entry = entry, !.past = Recent(page_history)]
         IN  /\ ServeHeld(f, r, peeked) \/ GoToTunnel(f, r, peeked)
             /\ alone' = (alone /\ (ask.kind = "visit" => \A g \in Fetches : fetch[g].kind # "visit"))
    /\ UNCHANGED <<now, network>>

\* The validator that goes with the request: the browser's own comes first.
Validator(r) ==
    IF r.own # None THEN r.own
    ELSE IF r.entry # NoEntry THEN Version(r.entry) ELSE None
-----------------------------------------------------------------------------
(* The far end of the tunnel. *)

\* The server asks the origin.  A cookie or no-store forbids storing the page;
\* an error status has no version of the page.
ServerAnswers(f) ==
    /\ Open(f) /\ fetch[f].answer = NoAnswer
    /\ \E v \in {version[fetch[f].url], None}, store \in BOOLEAN :
         LET same == v # None /\ fetch[f].kind # "post" /\ Validator(fetch[f]) = v
         IN  /\ store => v # None /\ ~same /\ fetch[f].kind \notin {"head", "post"}
             /\ fetch' = [fetch EXCEPT ![f].answer =
                            [v |-> v, notModified |-> same, store |-> store]]
    /\ UNCHANGED <<cache, page_history, browser, network, now>>

\* The connection breaks with the answer on its way; _roundtrip asks again.
AnswerLost(f) ==
    /\ Open(f) /\ fetch[f].answer # NoAnswer
    /\ fetch' = [fetch EXCEPT ![f].answer = NoAnswer]
    /\ UNCHANGED <<cache, page_history, browser, network, now>>

OriginChanges ==
    /\ \E p \in Pages : /\ version[p] < MaxVersion
                        /\ version' = [version EXCEPT ![p] = @ + 1]
    /\ UNCHANGED <<client, browser, pushes, pushCount, now>>

ServerPushes ==
    /\ pushCount < MaxPushes /\ pushCount' = pushCount + 1
    /\ \E p \in Pages : pushes' = pushes \cup {<<p, version[p]>>}
    /\ UNCHANGED <<client, browser, version, now>>
-----------------------------------------------------------------------------
(* Back on the client. *)

\* _on_push.  Each push has a stream of its own, so they arrive in any order.
PushArrives ==
    /\ \E push \in pushes :
         /\ cache' = Put(cache, Copy(push[1], push[2], TRUE), now)
         /\ pushes' = pushes \ {push}
    /\ UNCHANGED <<page_history, fetch, browser, version, pushCount, now>>

\* Mutant: the reply is the copy in the cache now.
RevalidatedRereads(f) ==
    LET r == fetch[f]
    IN  /\ Open(f) /\ r.answer # NoAnswer
        /\ r.answer.notModified /\ r.entry # NoEntry
        /\ cache' = Get(cache, r.url, now)
        /\ Finish(f, r, "revalidated",
                  IF r.url \in Urls(cache) THEN Version(EntryOf(cache, r.url)) ELSE None,
                  r.answer.v)
        /\ UNCHANGED <<requests, alone, network, now>>

\* 304, and the client held a copy when it asked: that copy is the reply.
Revalidated(f) ==
    LET r == fetch[f]
    IN  /\ Open(f) /\ r.answer # NoAnswer
        /\ r.answer.notModified /\ r.entry # NoEntry
        /\ cache' = Get(cache, r.url, now)
        /\ Finish(f, r, "revalidated", Version(r.entry), r.answer.v)
        /\ UNCHANGED <<requests, alone, network, now>>

\* 304 to the browser's own validators.
NotModified(f) ==
    LET r == fetch[f]
    IN  /\ Open(f) /\ r.answer # NoAnswer
        /\ r.answer.notModified /\ r.entry = NoEntry
        /\ Finish(f, r, "origin", None, r.answer.v)
        /\ UNCHANGED <<cache, requests, alone, network, now>>

\* A full response.
AnswerArrives(f) ==
    LET r == fetch[f]
    IN  /\ Open(f) /\ r.answer # NoAnswer
        /\ ~r.answer.notModified
        /\ cache' = IF r.answer.store
                    THEN Put(cache, Copy(r.url, r.answer.v, r.kind = "prefetch"), now)
                    ELSE cache
        /\ Finish(f, r, "origin", r.answer.v, r.answer.v)
        /\ UNCHANGED <<requests, alone, network, now>>

\* Mutant: the copy to fall back on is looked up when the tunnel has failed.
TunnelFailsRereads(f) ==
    LET r == fetch[f]
        live == Expire(cache, now)
    IN  /\ Open(f)
        /\ cache' = live
        /\ IF r.url \in Urls(live)
           THEN Finish(f, r, "stale", Version(EntryOf(live, r.url)), None)
           ELSE Finish(f, r, "error", None, None)
        /\ UNCHANGED <<requests, alone, network, now>>

\* The deadline passed, or the connection stayed broken until it was near.
TunnelFails(f) ==
    LET r == fetch[f]
    IN  /\ Open(f)
        /\ IF r.entry # NoEntry
           THEN /\ cache' = Get(cache, r.url, now)
                /\ Finish(f, r, "stale", Version(r.entry), None)
           ELSE /\ UNCHANGED cache
                /\ Finish(f, r, "error", None, None)
        /\ UNCHANGED <<requests, alone, network, now>>

Tick ==
    /\ now < MaxTime
    /\ now' = now + 1
    /\ UNCHANGED <<client, browser, network>>
-----------------------------------------------------------------------------
Init ==
    /\ cache = EmptyCache
    /\ page_history = <<>>
    /\ fetch = [f \in Fetches |-> Quiet]
    /\ last = [url |-> NoPage, kind |-> "none", own |-> None, had |-> FALSE,
               source |-> "none", v |-> None, confirmed |-> None]
    /\ now = 0
    /\ version = [p \in Pages |-> 1]
    /\ pushes = {} /\ pushCount = 0
    /\ requests = 0
    /\ held = [p \in Pages |-> None]
    /\ visits = <<>> /\ alone = TRUE

Next ==
    \/ \E f \in Fetches :
          \/ Start(f) \/ ServerAnswers(f) \/ AnswerLost(f)
          \/ Revalidated(f) \/ NotModified(f) \/ AnswerArrives(f) \/ TunnelFails(f)
    \/ OriginChanges \/ ServerPushes \/ PushArrives
    \/ Tick

Spec == Init /\ [][Next]_vars
-----------------------------------------------------------------------------
(* What is in the variables of the client. *)
TypeOK ==
    /\ Urls(cache) \subseteq Pages /\ cache.used \in 0..Capacity
    /\ page_history \in Seq(Pages) /\ Len(page_history) <= HistoryLen + 1
    /\ \A f \in Fetches : Open(f) =>
          /\ fetch[f].url \in Pages /\ fetch[f].kind \in Kinds
          /\ Len(fetch[f].past) <= HistoryLen
          /\ fetch[f].entry # NoEntry => fetch[f].entry.url = fetch[f].url
    /\ last.source \in Sources \cup {"none"}
    /\ held \in [Pages -> {None} \cup Versions]

(* "revalidated: a cached copy the origin confirmed with 304"              *)
(* (client/proxy.py:5).  The copy in the reply is the version the origin   *)
(* answered about, though the cache may hold another by then.              *)
RevalidatedIsConfirmed == last.source = "revalidated" => last.v = last.confirmed

(* The same when the validator was the proxy's own, of the copy it found   *)
(* before the request waited for the tunnel.                               *)
OwnRevalidation ==
    last.source = "revalidated" /\ last.own = None => last.v = last.confirmed

(* A page that was in the cache when the browser asked for it stays        *)
(* readable during an outage, whatever pushes and evictions do to the      *)
(* cache while the request waits for the tunnel (client/proxy.py:6-7).     *)
ReadableOffline == last.source = "error" => ~last.had

(* "Pages the reader visited, oldest first" (client/proxy.py:85): as long  *)
(* as pages load one after the other, the list that goes to the server     *)
(* ends with the reader's last visits, in order, whatever else loads.  (Of *)
(* two visits that load side by side one is lost: line 148.)               *)
HistoryInOrder == alone => Recent(page_history) = Recent(visits)
=============================================================================
