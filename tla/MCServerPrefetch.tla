-------------------------- MODULE MCServerPrefetch --------------------------
(***************************************************************************)
(* A site of four pages.  From a the reader likely goes on to b; d is      *)
(* pushed only when a dropout is coming; c is two clicks away, behind      *)
(* either.  The predictor may also score nothing.                          *)
(***************************************************************************)
EXTENDS ServerPrefetch

CONSTANTS a, b, c, d

MCPages == {a, b, c, d}

Likely(u, v) == [x \in {u, v} |-> IF x = u THEN 40 ELSE 5]

MCAnswers ==
    [p \in MCPages |->
        CASE p = a -> {Likely(b, d)}
          [] p = b -> {Likely(c, a)}
          [] p = c -> {}
          [] p = d -> {Likely(c, b)}]

MCFrameSizes == {1, 3}
MCReplySizes == {1}

\* A long outage soon, the same at once, a short one without a time and on a
\* metered link, all clear.
MCHints ==
    {[active |-> TRUE, outage |-> 20, eta |-> 2, metered |-> {}],
     [active |-> TRUE, outage |-> 20, eta |-> 0, metered |-> {}],
     [active |-> TRUE, outage |-> 1, eta |-> NoEta, metered |-> {TRUE}],
     [active |-> FALSE, outage |-> 0, eta |-> 0, metered |-> {}]}
=============================================================================
