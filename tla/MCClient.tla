------------------------------ MODULE MCClient ------------------------------
(***************************************************************************)
(* The client proxy with the cache it calls, and beside it the cache alone *)
(* under any calls: of says which of the two a behaviour is of, and the    *)
(* other stays as it begins.                                               *)
(*                                                                         *)
(* The proxy has two pages, and the second version of a page takes its     *)
(* whole cache.  The cache alone has three pages with bodies of one and    *)
(* two units, and one that does not fit.                                   *)
(***************************************************************************)
EXTENDS ClientProxy

CONSTANTS               \* of the cache alone
    CachePages, CacheSize, CacheCapacity, CacheTtl, CacheMaxTime, CacheMaxOps

CONSTANTS a, b, f1, f2, x, y, z, small, large, huge

MCPages == {a, b}
MCFetches == {f1, f2}
MCSize == [body \in MCPages \X {1, 2} |-> body[2]]

MCCachePages == {x, y, z}
MCCacheSize == [body \in {small, large, huge} |->
                  CASE body = small -> 1 [] body = large -> 2 [] body = huge -> 4]

ASSUME AloneAssumption ==
    /\ CacheSize \in [DOMAIN CacheSize -> Nat]
    /\ {CacheCapacity, CacheTtl} \subseteq Nat

Symmetry == Permutations(MCPages) \cup Permutations(MCFetches) \cup Permutations(MCCachePages)

VARIABLES of, c_cache, c_now, c_ops, c_own, c_lastUse, c_finished

CacheVars == <<c_cache, c_now, c_ops, c_own, c_lastUse, c_finished>>
AllVars == <<of, vars, CacheVars>>

Alone == INSTANCE ClientCache WITH
    Pages <- CachePages, Size <- CacheSize, Capacity <- CacheCapacity, Ttl <- CacheTtl,
    MaxTime <- CacheMaxTime, MaxOps <- CacheMaxOps,
    cache <- c_cache, now <- c_now, ops <- c_ops, own <- c_own, lastUse <- c_lastUse,
    finished <- c_finished

ClientInit == of \in {"proxy", "cache"} /\ Init /\ Alone!Init

ProxyStep == of = "proxy" /\ Next /\ UNCHANGED <<of, CacheVars>>
CacheStep == of = "cache" /\ Alone!Next /\ UNCHANGED <<of, vars>>
ClientNext == ProxyStep \/ CacheStep

ClientSpec == ClientInit /\ [][ClientNext]_AllVars
-----------------------------------------------------------------------------
\* ClientCache: used is the bytes held, each page held once, in the order of their last use.
Consistent == Alone!Consistent

\* ClientCache: no pushed byte is reported as wasted twice.
WasteBounded == Alone!WasteBounded

\* ClientCache: a pushed page is not served for the first time after its TTL.
ServedInTime == Alone!ServedInTime

\* ClientCache: what the reader opened or fetched leaves only for want of room.
OwnPagesStay == Alone!OwnPagesStay
=============================================================================
