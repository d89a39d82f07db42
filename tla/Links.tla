-------------------------------- MODULE Links --------------------------------
(***************************************************************************)
(* Which links of a page a predictor is asked about: extract_links         *)
(* (server/links.py) walks the page's anchors once and keeps one entry per *)
(* url; choose_links (predictors/select.py) then picks the few a predictor *)
(* can take, and JevPredictor.build_request numbers them, so that the      *)
(* answer about an option finds its link.                                  *)
(*                                                                         *)
(* A url stands for its canonical spelling.  Text, titles and the tests on *)
(* a url's characters are left out: Fate says what those tests make of it. *)
(***************************************************************************)
EXTENDS Integers, Sequences, SequencesExt, FiniteSetsExt

CONSTANTS
    Urls,
    Fate,               \* url -> "link", "foreign" (another origin), "unfit" (unsafe, media, meta)
                        \* or "self" (the page itself)
    SameOriginOnly,
    MaxNodes,           \* bound of the model: anchors on a page
    MaxCandidates, MaxOptions

Nowhere == "nowhere"    \* no href, a fragment, mailto: and the like

\* chrome: in the page's nav, header, footer or aside; no matter for an anchor to nowhere.
Nodes == [url : Urls, chrome : BOOLEAN] \union [url : {Nowhere}, chrome : {FALSE}]

VARIABLES
    page, rest,         \* the page's anchors, and those still to come
    raw,                \* the entries made so far, in page order
    links,              \* what extract_links returns, {} until it does
    shown               \* what choose_links returns, {} until it does

vars == <<page, rest, raw, links, shown>>

SkippedBeforeIndex(url) == url \notin {u \in Urls : Fate[u] # "self"}
Wanted(url) == url \in {u \in Urls : Fate[u] = "link" \/ (Fate[u] = "foreign" /\ ~SameOriginOnly)}

IndexOf(url) == {i \in DOMAIN raw : raw[i].url = url}

Walking == links = {} /\ rest # <<>>

\* An anchor to nowhere, to the page itself, or to what is not wanted.
Skip ==
    /\ Walking
    /\ LET url == Head(rest).url IN
         \/ SkippedBeforeIndex(url)
         \/ ~SkippedBeforeIndex(url) /\ IndexOf(url) = {} /\ ~Wanted(url)
    /\ rest' = Tail(rest)
    /\ UNCHANGED <<page, raw, links, shown>>

\* A url seen before is counted, and is content once one of its anchors is.
Again ==
    /\ Walking /\ ~SkippedBeforeIndex(Head(rest).url)
    /\ \E i \in IndexOf(Head(rest).url) :
         raw' = [raw EXCEPT ![i].occurrences = @ + 1,
                            ![i].boilerplate = @ /\ Head(rest).chrome]
    /\ rest' = Tail(rest)
    /\ UNCHANGED <<page, links, shown>>

Add ==
    /\ Walking
    /\ LET node == Head(rest) IN
         /\ ~SkippedBeforeIndex(node.url) /\ IndexOf(node.url) = {} /\ Wanted(node.url)
         /\ raw' = Append(raw, [url |-> node.url, occurrences |-> 1, boilerplate |-> node.chrome])
    /\ rest' = Tail(rest)
    /\ UNCHANGED <<page, links, shown>>

\* "Keep the earliest links when over the cap", each with its position.
Extracted ==
    /\ links = {} /\ rest = <<>>
    /\ links' = {[i \in 1..Min({Len(raw), MaxCandidates}) |->
                    [url |-> raw[i].url, occurrences |-> raw[i].occurrences,
                     boilerplate |-> raw[i].boilerplate, position |-> i - 1]]}
    /\ UNCHANGED <<page, rest, raw, shown>>

\* sorted() is stable: position decides between equal keys.
Before(order, x, y) ==
    LET content == x.boilerplate = y.boilerplate
        repeats == x.occurrences = y.occurrences
    IN  CASE order = "page" -> x.position < y.position
          [] order = "content_first" ->
               IF content THEN x.position < y.position ELSE y.boilerplate
          [] order = "repeats_first" ->
               IF content
               THEN IF repeats THEN x.position < y.position ELSE x.occurrences > y.occurrences
               ELSE y.boilerplate

\* A link's place is after all that come before it.
Ranked(all, order) ==
    LET place == [i \in DOMAIN all |->
                    1 + Cardinality({j \in DOMAIN all : Before(order, all[j], all[i])})]
    IN  [k \in DOMAIN all |-> all[CHOOSE i \in DOMAIN all : place[i] = k]]

\* Mutant: the first n are taken, then put in order.
CutThenRanked(all, n, order) == Ranked(SubSeq(all, 1, Min({n, Len(all)})), order)

ChooseLinks(all, n, order) == SubSeq(Ranked(all, order), 1, Min({n, Len(all)}))

\* The predictor's option i is about the i-th link chosen; its answer goes to that link's url.
Show ==
    /\ links # {} /\ shown = {}
    /\ \E all \in links : \E order \in {"page", "content_first", "repeats_first"} :
         shown' = {[order |-> order, options |-> ChooseLinks(all, MaxOptions, order)]}
    /\ UNCHANGED <<page, rest, raw, links>>

Init ==
    /\ page \in BoundedSeq(Nodes, MaxNodes)
    /\ rest = page /\ raw = <<>> /\ links = {} /\ shown = {}

Next == Skip \/ Again \/ Add \/ Extracted \/ Show

Spec == Init /\ [][Next]_vars
-----------------------------------------------------------------------------
(* What a link is, said of the page and not of the walk. *)

Anchors(url) == {i \in DOMAIN page : page[i].url = url}
OnPage == {url \in Urls : Wanted(url) /\ Fate[url] # "self" /\ Anchors(url) # {}}
First(url) == Min(Anchors(url))
Content(url) == \E i \in Anchors(url) : ~page[i].chrome

\* One link per url, in the order the page first names them, with all its anchors counted,
\* wherever they are, and boilerplate only if all of them are (links.py:138-164, test_links.py).
AsOnPage(all) ==
    /\ \A i \in DOMAIN all :
         /\ all[i].url \in OnPage
         /\ all[i].occurrences = Cardinality(Anchors(all[i].url))
         /\ all[i].boilerplate = ~Content(all[i].url)
         /\ i - 1 = Cardinality({u \in OnPage : First(u) < First(all[i].url)})
    /\ Len(all) = Min({Cardinality(OnPage), MaxCandidates})

\* A predictor that can take a few is asked about each link once, and about boilerplate only
\* when no link of the content is left out, on a page within the cap (select.py:5).
OffersContentFirst ==
    \A all \in links : \A s \in shown :
        LET offered == {s.options[i].url : i \in DOMAIN s.options} IN
        /\ AsOnPage(all)
        /\ Cardinality(offered) = Len(s.options)
        /\ Len(s.options) = Min({MaxOptions, Len(all)})
        /\ (s.order # "page" /\ Cardinality(OnPage) <= MaxCandidates) =>
             \A u \in offered : Content(u) \/ {v \in OnPage : Content(v)} \subseteq offered
=============================================================================
