---------------------------- MODULE ClientProofs ----------------------------
(***************************************************************************)
(* Of the client: its cache alone, and the proxy over any cache.           *)
(*                                                                         *)
(* The client's cache keeps its books and its promises, for any pages,     *)
(* sizes, capacity and TTL and any number of calls: what used and the      *)
(* wasted bytes count, which pages leave and when.                         *)
(*                                                                         *)
(* The cache's numbers are sums over its entries and its operations keep   *)
(* entries at chosen places.  Total and Kept are recursive functions, and  *)
(* what they give for every sequence needs induction; the library's        *)
(* theorem that < is well-founded on Nat is stated for sets, so each       *)
(* induction here is over the set of what the fact holds of (LeastOf,      *)
(* UpTo, AllSequences).  From there on a sum is what the entries weigh     *)
(* together (Weighed), and a weight adds up over a sequence that is cut,   *)
(* joined or thinned out.                                                  *)
(***************************************************************************)
EXTENDS MCClient, SequenceTheorems, FiniteSetTheorems, WellFoundedInduction, TLAPS

(* Induction. *)

\* A set of numbers that has one has a least one.
LEMMA LeastOf ==
    ASSUME NEW T \in SUBSET Nat, T # {}
    PROVE  \E n \in T : \A m \in T : n <= m
<1> DEFINE R == OpToRel(<, Nat)
<1>1. IsWellFoundedOn(R, Nat)
  BY NatLessThanWellFounded
<1>2. \A m, n \in Nat : <<m, n>> \in R <=> m < n
  BY DEF OpToRel
<1> HIDE DEF R
<1>3. PICK n \in T : \A m \in T : ~ (<<m, n>> \in R)
  BY <1>1, WFMin
<1>4. \A m \in T : ~ (m < n)
  BY <1>2, <1>3
<1>5. n \in Nat /\ \A m \in T : m \in Nat
  OBVIOUS
<1>6. \A m \in T : n <= m
  BY <1>4, <1>5
<1>7. QED
  BY <1>6

\* A set of numbers with zero and the next of each that has one below N holds all up to N.
LEMMA UpTo ==
    ASSUME NEW N \in Nat, NEW T, 0 \in T, \A n \in 1..N : n - 1 \in T => n \in T
    PROVE  \A n \in 0..N : n \in T
<1> SUFFICES ASSUME NEW k \in 0..N, k \notin T PROVE FALSE
  OBVIOUS
<1> DEFINE Out == {n \in Nat : n <= N /\ n \notin T}
<1>1. k \in Out /\ Out \in SUBSET Nat
  OBVIOUS
<1> HIDE DEF Out
<1>2. PICK n \in Out : \A m \in Out : n <= m
  BY <1>1, LeastOf
<1>3. n \in Nat /\ n <= N /\ n \notin T
  BY <1>2 DEF Out
<1>4. n # 0
  BY <1>3
<1>5. n \in 1..N /\ n - 1 \in Nat /\ n - 1 <= N
  BY <1>3, <1>4
<1>6. n - 1 \notin T
  BY <1>3, <1>5
<1>7. n - 1 \in Out
  BY <1>5, <1>6 DEF Out
<1>8. n <= n - 1
  BY <1>2, <1>7
<1>9. QED
  BY <1>3, <1>8

\* A set of sequences with the empty one and each that is longer by one than a member holds all.
LEMMA AllSequences ==
    ASSUME NEW E, NEW T, <<>> \in T, \A s \in Seq(E), e \in E : s \in T => Append(s, e) \in T
    PROVE  Seq(E) \subseteq T
<1> SUFFICES ASSUME NEW s \in Seq(E) PROVE s \in T
  OBVIOUS
<1> DEFINE L == {n \in 0..Len(s) : SubSeq(s, 1, n) \in T}
<1>0. Len(s) \in Nat
  OBVIOUS
<1>1. 0 \in L
  <2>1. SubSeq(s, 1, 0) = <<>>
    OBVIOUS
  <2>2. SubSeq(s, 1, 0) \in T
    BY <2>1, Zenon
  <2>3. 0 \in 0..Len(s)
    BY <1>0
  <2>4. QED
    BY <2>2, <2>3
<1>2. ASSUME NEW n \in 1..Len(s), n - 1 \in L PROVE n \in L
  <2>1. SubSeq(s, 1, n - 1) \in Seq(E) /\ SubSeq(s, 1, n - 1) \in T
    BY <1>2
  <2>2. s[n] \in E
    OBVIOUS
  <2>3. SubSeq(s, 1, n) = Append(SubSeq(s, 1, n - 1), s[n])
    OBVIOUS
  <2>4. SubSeq(s, 1, n) \in T
    BY <2>1, <2>2, <2>3
  <2>5. QED
    BY <1>0, <2>4
<1> HIDE DEF L
<1>3. \A n \in 1..Len(s) : n - 1 \in L => n \in L
  BY <1>2
<1>a. \A n \in 0..Len(s) : n \in L
  BY <1>0, <1>1, <1>3, UpTo
<1>b. Len(s) \in L
  BY <1>0, <1>a
<1>4. SubSeq(s, 1, Len(s)) = s
  OBVIOUS
<1>5. QED
  BY <1>b, <1>4 DEF L

\* A function may be defined by its value at zero and each value from the one before.
StepByStep(f, N, base, step) ==
    /\ f = [n \in 0..N |-> f[n]] /\ f[0] = base
    /\ \A n \in 1..N : f[n] = step[n][f[n - 1]]

\* A function given by a start and by each value from the one before it exists.
LEMMA Recursion ==
    ASSUME NEW N \in Nat, NEW base, NEW step
    PROVE  \E f : StepByStep(f, N, base, step)
<1> DEFINE Upto(m) == \E f : /\ f = [n \in 0..m |-> f[n]] /\ f[0] = base
                             /\ \A n \in 1..m : f[n] = step[n][f[n - 1]]
<1> DEFINE T == {m \in 0..N : Upto(m)}
<1>1. Upto(0)
  <2> DEFINE f == [n \in 0..0 |-> base]
  <2>1. f = [n \in 0..0 |-> f[n]] /\ f[0] = base /\ \A n \in 1..0 : f[n] = step[n][f[n - 1]]
    OBVIOUS
  <2>2. QED
    BY <2>1
<1>2. ASSUME NEW m \in 1..N, Upto(m - 1) PROVE Upto(m)
  <2>1. PICK f : /\ f = [n \in 0..(m - 1) |-> f[n]] /\ f[0] = base
                 /\ \A n \in 1..(m - 1) : f[n] = step[n][f[n - 1]]
    BY <1>2
  <2> DEFINE g == [n \in 0..m |-> IF n = m THEN step[m][f[m - 1]] ELSE f[n]]
  <2>2. g[m] = step[m][f[m - 1]] /\ \A n \in 0..(m - 1) : g[n] = f[n]
    OBVIOUS
  <2>3. g = [n \in 0..m |-> g[n]]
    OBVIOUS
  <2> HIDE DEF g
  <2>4. g[0] = base
    BY <2>1, <2>2
  <2>5. ASSUME NEW n \in 1..m PROVE g[n] = step[n][g[n - 1]]
    <3>0. n - 1 \in 0..(m - 1)
      OBVIOUS
    <3>1. CASE n = m
      BY <2>2, <3>0, <3>1
    <3>2. CASE n # m
      <4>1. n \in 1..(m - 1) /\ n \in 0..(m - 1)
        BY <3>2
      <4>2. QED
        BY <2>1, <2>2, <3>0, <4>1
    <3>3. QED
      BY <3>1, <3>2
  <2>6. QED
    BY <2>3, <2>4, <2>5
<1> HIDE DEF Upto
<1>3. 0 \in T
  BY <1>1
<1>4. \A n \in 1..N : n - 1 \in T => n \in T
  BY <1>2
<1> HIDE DEF T
<1>5. N \in T
  BY <1>3, <1>4, UpTo
<1>6. QED
  BY <1>5 DEF T, Upto, StepByStep
-----------------------------------------------------------------------------
(* Sums and selections of sequences, from the front. *)

\* The sum of a sequence is the last of its partial sums.
LEMMA PartialSums ==
    ASSUME NEW w \in Seq(Nat)
    PROVE  \E sum \in [0..Len(w) -> Nat] :
              /\ sum[0] = 0 /\ \A n \in 1..Len(w) : sum[n] = sum[n - 1] + w[n]
              /\ Alone!Total(w) = sum[Len(w)]
<1> DEFINE N == Len(w)
<1> DEFINE Sums(f) == f = [n \in 0..N |-> IF n = 0 THEN 0 ELSE f[n - 1] + w[n]]
<1> DEFINE step == [n \in 1..N |-> [k \in Nat |-> k + w[n]]]
<1>0. N \in Nat /\ \A n \in 1..N : w[n] \in Nat
  OBVIOUS
<1>3. \A n \in 1..N, k \in Nat : step[n][k] = k + w[n] /\ k + w[n] \in Nat
  BY <1>0
<1> HIDE DEF N, step
<1>1. PICK f : /\ f = [n \in 0..N |-> f[n]] /\ f[0] = 0
               /\ \A n \in 1..N : f[n] = step[n][f[n - 1]]
  <2>1. PICK f : StepByStep(f, N, 0, step)
    BY <1>0, Recursion
  <2>2. QED
    BY <2>1 DEF StepByStep
<1>4. \A n \in 1..N : f[n - 1] \in Nat => f[n] \in Nat
  <2> SUFFICES ASSUME NEW n \in 1..N, f[n - 1] \in Nat PROVE f[n] \in Nat
    OBVIOUS
  <2>1. f[n] = step[n][f[n - 1]]
    BY <1>1
  <2>2. step[n][f[n - 1]] = f[n - 1] + w[n] /\ f[n - 1] + w[n] \in Nat
    BY <1>3
  <2>3. QED
    BY <2>1, <2>2
<1>5. \A n \in 0..N : n \in {m \in 0..N : f[m] \in Nat}
  <2> DEFINE T == {m \in 0..N : f[m] \in Nat}
  <2>1. 0 \in T
    BY <1>0, <1>1
  <2>2. \A n \in 1..N : n - 1 \in T => n \in T
    BY <1>4
  <2> HIDE DEF T
  <2>3. \A n \in 0..N : n \in T
    BY <1>0, <2>1, <2>2, UpTo
  <2>4. QED
    BY <2>3 DEF T
<1>6. \A n \in 0..N : f[n] \in Nat
  BY <1>5
<1>7. \A n \in 1..N : n - 1 \in 0..N
  BY <1>0
<1>8. \A n \in 1..N : f[n] = f[n - 1] + w[n]
  BY <1>1, <1>3, <1>6, <1>7
<1>9. Sums(f)
  <2>1. f = [n \in 0..N |-> f[n]]
    BY <1>1
  <2>2. \A n \in 0..N : f[n] = IF n = 0 THEN 0 ELSE f[n - 1] + w[n]
    <3>1. f[0] = 0 /\ \A n \in 0..N : n # 0 => n \in 1..N
      BY <1>0, <1>1
    <3>2. QED
      BY <1>8, <3>1
  <2>3. QED
    BY <2>1, <2>2
<1>10. ASSUME NEW g, Sums(g)
       PROVE  g[0] = 0 /\ g = [n \in 0..N |-> g[n]] /\ \A n \in 1..N : g[n] = g[n - 1] + w[n]
  <2>1. g = [n \in 0..N |-> g[n]] /\ \A n \in 0..N : g[n] = IF n = 0 THEN 0 ELSE g[n - 1] + w[n]
    BY <1>10
  <2>2. 0 \in 0..N /\ \A n \in 1..N : n \in 0..N /\ n # 0
    BY <1>0
  <2>3. QED
    BY <2>1, <2>2
<1> DEFINE sum == CHOOSE g : Sums(g)
<1>11. Sums(sum)
  BY <1>9
<1>12. Alone!Total(w) = sum[N]
  BY DEF Alone!Total, N
<1> HIDE DEF sum, Sums
<1>13. /\ sum[0] = 0 /\ sum = [n \in 0..N |-> sum[n]]
       /\ \A n \in 1..N : sum[n] = sum[n - 1] + w[n]
  BY <1>10, <1>11
<1>14. \A n \in 0..N : n \in {m \in 0..N : sum[m] \in Nat}
  <2> DEFINE T == {m \in 0..N : sum[m] \in Nat}
  <2>1. 0 \in T
    BY <1>0, <1>13
  <2>2. ASSUME NEW n \in 1..N, n - 1 \in T PROVE n \in T
    <3>1. sum[n] = sum[n - 1] + w[n] /\ sum[n - 1] \in Nat /\ w[n] \in Nat
      BY <1>0, <1>13, <2>2
    <3>2. n \in 0..N
      BY <1>0
    <3>3. QED
      BY <3>1, <3>2
  <2> HIDE DEF T
  <2>3. \A n \in 0..N : n \in T
    BY <1>0, <2>1, <2>2, UpTo
  <2>4. QED
    BY <2>3 DEF T
<1>15. sum \in [0..N -> Nat]
  BY <1>13, <1>14
<1>16. QED
  BY <1>12, <1>13, <1>15 DEF N

\* Nothing adds up to zero.
LEMMA TotalOfNone == Alone!Total(<<>>) = 0
<1>1. <<>> \in Seq(Nat) /\ Len(<<>>) = 0
  OBVIOUS
<1>2. QED
  BY <1>1, PartialSums

\* One more number adds itself to the total.
LEMMA TotalOfAppend ==
    ASSUME NEW w \in Seq(Nat), NEW k \in Nat
    PROVE  /\ Alone!Total(w) \in Nat
           /\ Alone!Total(Append(w, k)) = Alone!Total(w) + k
<1> DEFINE N == Len(w)
<1> DEFINE v == Append(w, k)
<1>0. N \in Nat /\ v \in Seq(Nat) /\ Len(v) = N + 1 /\ v[N + 1] = k /\ \A n \in 1..N : v[n] = w[n]
  OBVIOUS
<1>1. PICK f \in [0..N -> Nat] : /\ f[0] = 0 /\ \A n \in 1..N : f[n] = f[n - 1] + w[n]
                                 /\ Alone!Total(w) = f[N]
  BY PartialSums
<1> HIDE DEF v
<1>2. PICK g \in [0..(N + 1) -> Nat] : /\ g[0] = 0 /\ \A n \in 1..(N + 1) : g[n] = g[n - 1] + v[n]
                                       /\ Alone!Total(v) = g[N + 1]
  BY <1>0, PartialSums
<1> HIDE DEF N
<1>3. f[N] = g[N]
  <2> DEFINE T == {n \in 0..N : f[n] = g[n]}
  <2>1. 0 \in T
    BY <1>0, <1>1, <1>2
  <2>2. \A n \in 1..N : n - 1 \in T => n \in T
    BY <1>0, <1>1, <1>2
  <2> HIDE DEF T
  <2>3. \A n \in 0..N : n \in T
    BY <1>0, <2>1, <2>2, UpTo
  <2>4. QED
    BY <1>0, <2>3 DEF T
<1>4. g[N + 1] = g[N] + k /\ f[N] \in Nat
  BY <1>0, <1>1, <1>2
<1>5. QED
  BY <1>1, <1>2, <1>3, <1>4 DEF v

\* What is kept of a sequence is the last of what is kept of its beginnings.
KeptUpTo(kept, s, P) ==
    /\ kept[0] = <<>>
    /\ \A n \in 1..Len(s) : kept[n] = IF n \in P THEN Append(kept[n - 1], s[n]) ELSE kept[n - 1]
    /\ Alone!Kept(s, P) = kept[Len(s)]

\* The function by which Kept goes along a sequence exists, and gives sequences.
LEMMA KeptSoFar ==
    ASSUME NEW E, NEW s \in Seq(E), NEW P
    PROVE  \E kept \in [0..Len(s) -> Seq(E)] : KeptUpTo(kept, s, P)
<1> DEFINE N == Len(s)
<1> DEFINE more(n, k) == IF n \in P THEN Append(k, s[n]) ELSE k
<1> DEFINE Keeps(f) == f = [n \in 0..N |-> IF n = 0 THEN <<>>
                                           ELSE IF n \in P THEN Append(f[n - 1], s[n]) ELSE f[n - 1]]
<1> DEFINE step == [n \in 1..N |-> [k \in Seq(E) |-> more(n, k)]]
<1>0. N \in Nat
  OBVIOUS
<1>1. \A n \in 1..N, k \in Seq(E) : more(n, k) \in Seq(E)
  <2>1. \A n \in 1..N : s[n] \in E
    OBVIOUS
  <2> HIDE DEF N
  <2>2. \A n \in 1..N, k \in Seq(E) : Append(k, s[n]) \in Seq(E)
    BY <2>1
  <2>3. QED
    BY <2>2
<1> HIDE DEF more
<1>2. \A n \in 1..N, k \in Seq(E) : step[n][k] = more(n, k)
  OBVIOUS
<1> HIDE DEF N, step
<1>3. PICK f : f = [n \in 0..N |-> f[n]] /\ f[0] = <<>> /\ \A n \in 1..N : f[n] = step[n][f[n - 1]]
  <2>1. PICK f : StepByStep(f, N, <<>>, step)
    BY <1>0, Recursion
  <2>2. QED
    BY <2>1 DEF StepByStep
<1>4. \A n \in 0..N : f[n] \in Seq(E)
  <2> DEFINE T == {m \in 0..N : f[m] \in Seq(E)}
  <2>1. 0 \in T
    <3>1. <<>> \in Seq(E)
      OBVIOUS
    <3>2. f[0] \in Seq(E)
      BY <1>3, <3>1
    <3>3. QED
      BY <1>0, <3>2
  <2>2. ASSUME NEW n \in 1..N, n - 1 \in T PROVE n \in T
    <3>1. f[n] = step[n][f[n - 1]] /\ f[n - 1] \in Seq(E)
      BY <1>3, <2>2
    <3>2. f[n] \in Seq(E)
      BY <1>1, <1>2, <3>1
    <3>3. QED
      BY <1>0, <3>2
  <2> HIDE DEF T
  <2>3. \A n \in 0..N : n \in T
    BY <1>0, <2>1, <2>2, UpTo
  <2>4. QED
    BY <2>3 DEF T
<1>5. \A n \in 1..N : n - 1 \in 0..N
  BY <1>0
<1>6. \A n \in 1..N : f[n] = more(n, f[n - 1])
  BY <1>2, <1>3, <1>4, <1>5
<1>7. Keeps(f)
  <2>1. \A n \in 0..N : f[n] = IF n = 0 THEN <<>>
                              ELSE IF n \in P THEN Append(f[n - 1], s[n]) ELSE f[n - 1]
    <3>1. f[0] = <<>> /\ \A n \in 0..N : n # 0 => n \in 1..N
      BY <1>0, <1>3
    <3>2. QED
      BY <1>6, <3>1 DEF more
  <2>2. QED
    BY <1>3, <2>1
<1> DEFINE kept == CHOOSE g : Keeps(g)
<1>8. Keeps(kept)
  BY <1>7
<1>9. Alone!Kept(s, P) = kept[N]
  BY DEF Alone!Kept, N
<1> HIDE DEF kept
<1>10. /\ kept[0] = <<>> /\ kept = [n \in 0..N |-> kept[n]]
       /\ \A n \in 1..N : kept[n] = more(n, kept[n - 1])
  <2>1. /\ kept = [n \in 0..N |-> kept[n]]
        /\ \A n \in 0..N : kept[n] = IF n = 0 THEN <<>>
                              ELSE IF n \in P THEN Append(kept[n - 1], s[n]) ELSE kept[n - 1]
    BY <1>8
  <2>2. 0 \in 0..N /\ \A n \in 1..N : n \in 0..N /\ n # 0
    BY <1>0
  <2>3. QED
    BY <2>1, <2>2 DEF more
<1>11. \A n \in 0..N : kept[n] \in Seq(E)
  <2> DEFINE T == {m \in 0..N : kept[m] \in Seq(E)}
  <2>1. 0 \in T
    <3>1. <<>> \in Seq(E)
      OBVIOUS
    <3>2. kept[0] \in Seq(E)
      BY <1>10, <3>1
    <3>3. QED
      BY <1>0, <3>2
  <2>2. ASSUME NEW n \in 1..N, n - 1 \in T PROVE n \in T
    <3>1. kept[n] = more(n, kept[n - 1]) /\ kept[n - 1] \in Seq(E)
      BY <1>10, <2>2
    <3>2. kept[n] \in Seq(E)
      BY <1>1, <3>1
    <3>3. QED
      BY <1>0, <3>2
  <2> HIDE DEF T
  <2>3. \A n \in 0..N : n \in T
    BY <1>0, <2>1, <2>2, UpTo
  <2>4. QED
    BY <2>3 DEF T
<1>12. kept \in [0..N -> Seq(E)]
  BY <1>10, <1>11
<1>13. QED
  BY <1>9, <1>10, <1>12 DEF N, more, KeptUpTo

\* Of no entries none is kept.
LEMMA KeptOfNone == ASSUME NEW P PROVE Alone!Kept(<<>>, P) = <<>>
<1>1. <<>> \in Seq({}) /\ Len(<<>>) = 0
  OBVIOUS
<1>2. QED
  <2>1. PICK kept \in [0..Len(<<>>) -> Seq({})] : KeptUpTo(kept, <<>>, P)
    BY <1>1, KeptSoFar
  <2>2. QED
    BY <1>1, <2>1 DEF KeptUpTo

\* Places that agree as far as the sequence goes keep the same; a longer sequence keeps more.
LEMMA KeptOfAppend ==
    ASSUME NEW E, NEW s \in Seq(E), NEW e \in E, NEW P, NEW Q,
           \A n \in 1..Len(s) : n \in P <=> n \in Q
    PROVE  /\ Alone!Kept(s, Q) \in Seq(E)
           /\ Alone!Kept(Append(s, e), P) =
                 IF Len(s) + 1 \in P THEN Append(Alone!Kept(s, Q), e) ELSE Alone!Kept(s, Q)
<1> DEFINE N == Len(s)
<1> DEFINE t == Append(s, e)
<1>0. N \in Nat /\ t \in Seq(E) /\ Len(t) = N + 1 /\ t[N + 1] = e /\ \A n \in 1..N : t[n] = s[n]
  OBVIOUS
<1>1. PICK f \in [0..N -> Seq(E)] :
        /\ f[0] = <<>> /\ Alone!Kept(s, Q) = f[N]
        /\ \A n \in 1..N : f[n] = IF n \in Q THEN Append(f[n - 1], s[n]) ELSE f[n - 1]
  <2>1. PICK f \in [0..N -> Seq(E)] : KeptUpTo(f, s, Q)
    BY KeptSoFar
  <2>2. QED
    BY <2>1 DEF KeptUpTo
<1> HIDE DEF t
<1>2. PICK g \in [0..(N + 1) -> Seq(E)] :
        /\ g[0] = <<>> /\ Alone!Kept(t, P) = g[N + 1]
        /\ \A n \in 1..(N + 1) : g[n] = IF n \in P THEN Append(g[n - 1], t[n]) ELSE g[n - 1]
  <2>1. PICK g \in [0..Len(t) -> Seq(E)] : KeptUpTo(g, t, P)
    BY <1>0, KeptSoFar
  <2>2. QED
    BY <1>0, <2>1 DEF KeptUpTo
<1>p. \A n \in 1..N : n \in P <=> n \in Q
  OBVIOUS
<1> HIDE DEF N
<1>3. f[N] = g[N]
  <2> DEFINE T == {n \in 0..N : f[n] = g[n]}
  <2>1. 0 \in T
    BY <1>0, <1>1, <1>2
  <2>2. ASSUME NEW n \in 1..N, n - 1 \in T PROVE n \in T
    <3>1. n \in 1..(N + 1) /\ n \in 0..N
      BY <1>0
    <3>2. f[n - 1] = g[n - 1] /\ t[n] = s[n] /\ (n \in P <=> n \in Q)
      BY <1>0, <1>p, <2>2
    <3>3. f[n] = g[n]
      BY <1>1, <1>2, <3>1, <3>2
    <3>4. QED
      BY <3>1, <3>3
  <2> HIDE DEF T
  <2>3. \A n \in 0..N : n \in T
    BY <1>0, <2>1, <2>2, UpTo
  <2>4. QED
    BY <1>0, <2>3 DEF T
<1>4. g[N + 1] = IF N + 1 \in P THEN Append(g[N], e) ELSE g[N]
  <2>1. N + 1 \in 1..(N + 1) /\ (N + 1) - 1 = N
    BY <1>0
  <2>2. QED
    BY <1>0, <1>2, <2>1
<1>5. f[N] \in Seq(E)
  BY <1>0, <1>1
<1>6. QED
  BY <1>1, <1>2, <1>3, <1>4, <1>5 DEF t, N

\* One more entry is kept behind the others when its place is one of those kept.
LEMMA KeptAppend ==
    ASSUME NEW E, NEW s \in Seq(E), NEW e \in E, NEW P
    PROVE  /\ Alone!Kept(s, P) \in Seq(E)
           /\ Alone!Kept(Append(s, e), P) =
                 IF Len(s) + 1 \in P THEN Append(Alone!Kept(s, P), e) ELSE Alone!Kept(s, P)
<1>1. \A n \in 1..Len(s) : n \in P <=> n \in P
  OBVIOUS
<1>2. QED
  BY <1>1, KeptOfAppend

\* What the entries of a sequence weigh together.
Weighed(s, weight) == Alone!Total([i \in DOMAIN s |-> weight[s[i]]])

\* No entries weigh nothing.
LEMMA WeighedNone == ASSUME NEW weight PROVE Weighed(<<>>, weight) = 0
<1>1. [i \in DOMAIN <<>> |-> weight[<<>>[i]]] = <<>>
  OBVIOUS
<1>2. QED
  BY <1>1, TotalOfNone DEF Weighed

\* One more entry adds its weight.
LEMMA WeighedAppend ==
    ASSUME NEW E, NEW s \in Seq(E), NEW e \in E, NEW weight \in [E -> Nat]
    PROVE  /\ Weighed(s, weight) \in Nat
           /\ Weighed(Append(s, e), weight) = Weighed(s, weight) + weight[e]
<1> DEFINE t == Append(s, e)
<1> DEFINE w == [i \in DOMAIN s |-> weight[s[i]]]
<1> DEFINE v == [i \in DOMAIN t |-> weight[t[i]]]
<1>0. /\ t \in Seq(E) /\ Len(t) = Len(s) + 1 /\ t[Len(s) + 1] = e
      /\ \A n \in 1..Len(s) : t[n] = s[n]
  OBVIOUS
<1>1. \A n \in 1..Len(s) : s[n] \in E
  OBVIOUS
<1>2. w \in Seq(Nat) /\ Len(w) = Len(s)
  <2>1. w = [i \in 1..Len(s) |-> weight[s[i]]] /\ \A i \in 1..Len(s) : weight[s[i]] \in Nat
    BY <1>1
  <2>2. QED
    BY <2>1
<1>3. weight[e] \in Nat
  OBVIOUS
<1>4. v = Append(w, weight[e])
  <2>1. DOMAIN t = 1..(Len(s) + 1)
    BY <1>0
  <2>2. v = [i \in 1..(Len(s) + 1) |-> weight[t[i]]]
    BY <2>1
  <2>3. \A i \in 1..Len(s) : w[i] = weight[s[i]]
    OBVIOUS
  <2> HIDE DEF t, w, v
  <2>4. Append(w, weight[e]) = [i \in 1..(Len(s) + 1) |-> IF i = Len(s) + 1 THEN weight[e] ELSE w[i]]
    BY <1>2, <1>3
  <2>5. \A i \in 1..(Len(s) + 1) : weight[t[i]] = IF i = Len(s) + 1 THEN weight[e] ELSE w[i]
    <3> SUFFICES ASSUME NEW i \in 1..(Len(s) + 1)
                 PROVE  weight[t[i]] = IF i = Len(s) + 1 THEN weight[e] ELSE w[i]
      OBVIOUS
    <3>1. CASE i = Len(s) + 1
      BY <1>0, <3>1
    <3>2. CASE i # Len(s) + 1
      <4>1. i \in 1..Len(s)
        BY <3>2
      <4>2. QED
        BY <1>0, <2>3, <3>2, <4>1
    <3>3. QED
      BY <3>1, <3>2
  <2>6. QED
    BY <2>2, <2>4, <2>5
<1> HIDE DEF w, v, t
<1>5. Alone!Total(w) \in Nat /\ Alone!Total(v) = Alone!Total(w) + weight[e]
  BY <1>2, <1>3, <1>4, TotalOfAppend
<1>6. QED
  BY <1>5 DEF Weighed, w, v, t

\* What a sequence weighs is a number.
LEMMA WeighedNat ==
    ASSUME NEW E, NEW s \in Seq(E), NEW weight \in [E -> Nat] PROVE Weighed(s, weight) \in Nat
<1> DEFINE T == {r \in Seq(E) : Weighed(r, weight) \in Nat}
<1>1. <<>> \in T
  <2>1. <<>> \in Seq(E) /\ 0 \in Nat
    OBVIOUS
  <2>2. QED
    BY <2>1, WeighedNone
<1>2. ASSUME NEW r \in Seq(E), NEW e \in E, r \in T PROVE Append(r, e) \in T
  <2>1. Weighed(Append(r, e), weight) = Weighed(r, weight) + weight[e]
    BY WeighedAppend
  <2>2. weight[e] \in Nat /\ Weighed(r, weight) \in Nat /\ Append(r, e) \in Seq(E)
    BY <1>2
  <2>3. QED
    BY <2>1, <2>2
<1> HIDE DEF T
<1>3. Seq(E) \subseteq T
  BY <1>1, <1>2, AllSequences
<1>4. QED
  BY <1>3 DEF T

\* Two sequences joined weigh what they weigh apart.
LEMMA WeighedJoined ==
    ASSUME NEW E, NEW s \in Seq(E), NEW t \in Seq(E), NEW weight \in [E -> Nat]
    PROVE  Weighed(s \o t, weight) = Weighed(s, weight) + Weighed(t, weight)
<1> DEFINE T == {r \in Seq(E) : Weighed(s \o r, weight) = Weighed(s, weight) + Weighed(r, weight)}
<1>1. <<>> \in T
  <2>1. <<>> \in Seq(E) /\ s \o <<>> = s
    OBVIOUS
  <2>2. Weighed(<<>>, weight) = 0 /\ Weighed(s, weight) \in Nat
    BY WeighedNone, WeighedNat
  <2>3. QED
    BY <2>1, <2>2
<1>2. ASSUME NEW r \in Seq(E), NEW e \in E, r \in T PROVE Append(r, e) \in T
  <2>1. s \o r \in Seq(E) /\ Append(r, e) \in Seq(E) /\ s \o Append(r, e) = Append(s \o r, e)
    BY SMTT(20)
  <2>2. Weighed(Append(s \o r, e), weight) = Weighed(s \o r, weight) + weight[e]
    BY <2>1, WeighedAppend
  <2>3. Weighed(Append(r, e), weight) = Weighed(r, weight) + weight[e]
    BY WeighedAppend
  <2>4. weight[e] \in Nat /\ Weighed(r, weight) \in Nat /\ Weighed(s, weight) \in Nat
    BY WeighedNat
  <2>5. Weighed(s \o r, weight) = Weighed(s, weight) + Weighed(r, weight)
    BY <1>2
  <2>6. Weighed(s \o Append(r, e), weight) = Weighed(s, weight) + Weighed(Append(r, e), weight)
    BY <2>1, <2>2, <2>3, <2>4, <2>5
  <2>7. QED
    BY <2>1, <2>6
<1> HIDE DEF T
<1>3. Seq(E) \subseteq T
  BY <1>1, <1>2, AllSequences
<1>4. QED
  BY <1>3 DEF T

\* A sequence weighs what is kept of it and what is not.
LEMMA WeighedKept ==
    ASSUME NEW E, NEW s \in Seq(E), NEW P, NEW weight \in [E -> Nat]
    PROVE  Weighed(s, weight) =
              Weighed(Alone!Kept(s, P), weight) + Weighed(Alone!Kept(s, Nat \ P), weight)
<1> DEFINE Q == Nat \ P
<1> DEFINE T == {r \in Seq(E) : Weighed(r, weight) =
                    Weighed(Alone!Kept(r, P), weight) + Weighed(Alone!Kept(r, Q), weight)}
<1>q. \A n \in Nat : n \in P <=> n \notin Q
  OBVIOUS
<1> HIDE DEF Q
<1>1. <<>> \in T
  <2>1. <<>> \in Seq(E)
    OBVIOUS
  <2>2. Weighed(<<>>, weight) = 0 /\ Alone!Kept(<<>>, P) = <<>> /\ Alone!Kept(<<>>, Q) = <<>>
    BY WeighedNone, KeptOfNone
  <2>3. QED
    BY <2>1, <2>2
<1>2. ASSUME NEW r \in Seq(E), NEW e \in E, r \in T PROVE Append(r, e) \in T
  <2> DEFINE n == Len(r) + 1
  <2> DEFINE keptP == Alone!Kept(r, P)
  <2> DEFINE keptQ == Alone!Kept(r, Q)
  <2>1. /\ keptP \in Seq(E)
        /\ Alone!Kept(Append(r, e), P) = IF n \in P THEN Append(keptP, e) ELSE keptP
    BY KeptAppend
  <2>2. /\ keptQ \in Seq(E)
        /\ Alone!Kept(Append(r, e), Q) = IF n \in Q THEN Append(keptQ, e) ELSE keptQ
    BY KeptAppend
  <2>3. n \in Nat
    OBVIOUS
  <2>4. Weighed(r, weight) = Weighed(keptP, weight) + Weighed(keptQ, weight)
    BY <1>2
  <2>5. Append(r, e) \in Seq(E) /\ weight[e] \in Nat
    OBVIOUS
  <2> HIDE DEF n, keptP, keptQ, T
  <2>6. /\ Weighed(Append(r, e), weight) = Weighed(r, weight) + weight[e]
        /\ Weighed(Append(keptP, e), weight) = Weighed(keptP, weight) + weight[e]
        /\ Weighed(Append(keptQ, e), weight) = Weighed(keptQ, weight) + weight[e]
        /\ {Weighed(keptP, weight), Weighed(keptQ, weight)} \subseteq Nat
    BY <2>1, <2>2, WeighedAppend
  <2>7. Weighed(Append(r, e), weight) =
           Weighed(Alone!Kept(Append(r, e), P), weight) + Weighed(Alone!Kept(Append(r, e), Q), weight)
    <3>1. CASE n \in P
      <4>1. n \notin Q
        BY <1>q, <2>3, <3>1
      <4>2. QED
        BY <2>1, <2>2, <2>4, <2>5, <2>6, <3>1, <4>1
    <3>2. CASE n \notin P
      <4>1. n \in Q
        BY <1>q, <2>3, <3>2
      <4>2. QED
        BY <2>1, <2>2, <2>4, <2>5, <2>6, <3>2, <4>1
    <3>3. QED
      BY <3>1, <3>2
  <2>8. QED
    BY <2>5, <2>7 DEF T
<1> HIDE DEF T
<1>3. Seq(E) \subseteq T
  BY <1>1, <1>2, AllSequences
<1>4. QED
  BY <1>3 DEF T, Q

\* What is kept of a sequence are members of what the sequence is of.
LEMMA KeptType == ASSUME NEW E, NEW s \in Seq(E), NEW P PROVE Alone!Kept(s, P) \in Seq(E)
<1>1. PICK kept \in [0..Len(s) -> Seq(E)] : KeptUpTo(kept, s, P)
  BY KeptSoFar
<1>2. Len(s) \in 0..Len(s)
  OBVIOUS
<1>3. QED
  BY <1>1, <1>2 DEF KeptUpTo

\* Only the places within the sequence matter.
LEMMA KeptWithin ==
    ASSUME NEW E, NEW s \in Seq(E), NEW P, NEW Q, \A n \in 1..Len(s) : n \in P <=> n \in Q
    PROVE  Alone!Kept(s, P) = Alone!Kept(s, Q)
<1> DEFINE N == Len(s)
<1>0. N \in Nat
  OBVIOUS
<1>1. PICK f \in [0..N -> Seq(E)] : KeptUpTo(f, s, P)
  BY KeptSoFar
<1>2. PICK g \in [0..N -> Seq(E)] : KeptUpTo(g, s, Q)
  BY KeptSoFar
<1>3. /\ f[0] = <<>> /\ g[0] = <<>> /\ Alone!Kept(s, P) = f[N] /\ Alone!Kept(s, Q) = g[N]
      /\ \A n \in 1..N : f[n] = IF n \in P THEN Append(f[n - 1], s[n]) ELSE f[n - 1]
      /\ \A n \in 1..N : g[n] = IF n \in Q THEN Append(g[n - 1], s[n]) ELSE g[n - 1]
  BY <1>1, <1>2 DEF KeptUpTo
<1>4. \A n \in 1..N : n \in P <=> n \in Q
  OBVIOUS
<1> HIDE DEF N
<1> DEFINE T == {n \in 0..N : f[n] = g[n]}
<1>5. 0 \in T
  BY <1>0, <1>3
<1>6. ASSUME NEW n \in 1..N, n - 1 \in T PROVE n \in T
  <2>1. f[n - 1] = g[n - 1] /\ n \in 0..N
    BY <1>0, <1>6
  <2>2. f[n] = g[n]
    BY <1>3, <1>4, <2>1
  <2>3. QED
    BY <2>1, <2>2
<1> HIDE DEF T
<1>7. \A n \in 0..N : n \in T
  BY <1>0, <1>5, <1>6, UpTo
<1>8. f[N] = g[N]
  BY <1>0, <1>7 DEF T
<1>9. QED
  BY <1>3, <1>8

\* k is what s has at the places of P: g gives the place of each.
Picks(g, s, P, k) ==
    /\ g \in [1..Len(k) -> 1..Len(s)]
    /\ \A j \in 1..Len(k) : g[j] \in P /\ k[j] = s[g[j]]
    /\ \A j, l \in 1..Len(k) : j < l => g[j] < g[l]
    /\ \A i \in 1..Len(s) : i \in P => \E j \in 1..Len(k) : g[j] = i

\* What is kept are the entries at the places asked for, in their order.
LEMMA KeptPicks ==
    ASSUME NEW E, NEW s \in Seq(E), NEW P PROVE \E g : Picks(g, s, P, Alone!Kept(s, P))
<1> DEFINE T == {r \in Seq(E) : \E g : Picks(g, r, P, Alone!Kept(r, P))}
<1>1. <<>> \in T
  <2>1. <<>> \in Seq(E) /\ Len(<<>>) = 0 /\ 1..0 = {}
    OBVIOUS
  <2>2. Alone!Kept(<<>>, P) = <<>>
    BY KeptOfNone
  <2> DEFINE g == [j \in {} |-> 0]
  <2>3. g \in [1..0 -> 1..0]
    BY <2>1
  <2>4. Picks(g, <<>>, P, <<>>)
    BY <2>1, <2>3 DEF Picks
  <2>5. QED
    BY <2>1, <2>2, <2>4
<1>2. ASSUME NEW r \in Seq(E), NEW e \in E, r \in T PROVE Append(r, e) \in T
  <2> DEFINE N == Len(r)
  <2> DEFINE t == Append(r, e)
  <2> DEFINE k == Alone!Kept(r, P)
  <2> DEFINE kt == Alone!Kept(t, P)
  <2>1. k \in Seq(E) /\ kt = IF N + 1 \in P THEN Append(k, e) ELSE k
    BY KeptAppend
  <2>2. PICK g : Picks(g, r, P, k)
    BY <1>2
  <2>3. N \in Nat /\ t \in Seq(E) /\ Len(t) = N + 1 /\ t[N + 1] = e /\ \A n \in 1..N : t[n] = r[n]
    OBVIOUS
  <2>4. /\ g \in [1..Len(k) -> 1..N]
        /\ \A j \in 1..Len(k) : g[j] \in P /\ k[j] = r[g[j]]
        /\ \A j, l \in 1..Len(k) : j < l => g[j] < g[l]
        /\ \A i \in 1..N : i \in P => \E j \in 1..Len(k) : g[j] = i
    BY <2>2 DEF Picks
  <2> HIDE DEF N, t, k, kt
  <2>5. Len(k) \in Nat
    BY <2>1
  <2>6. CASE N + 1 \notin P
    <3>1. kt = k
      BY <2>1, <2>6
    <3>2. \A j \in 1..Len(k) : g[j] \in 1..N /\ g[j] \in 1..(N + 1)
      BY <2>3, <2>4
    <3>3. g \in [1..Len(k) -> 1..(N + 1)]
      BY <2>4, <3>2
    <3>4. \A j \in 1..Len(k) : g[j] \in P /\ k[j] = t[g[j]]
      BY <2>3, <2>4, <3>2
    <3>5. \A i \in 1..(N + 1) : i \in P => \E j \in 1..Len(k) : g[j] = i
      <4> SUFFICES ASSUME NEW i \in 1..(N + 1), i \in P PROVE \E j \in 1..Len(k) : g[j] = i
        OBVIOUS
      <4>1. i \in 1..N
        BY <2>3, <2>6
      <4>2. QED
        BY <2>4, <4>1
    <3>6. Picks(g, t, P, k)
      BY <2>3, <2>4, <3>3, <3>4, <3>5 DEF Picks
    <3>7. QED
      BY <2>3, <3>1, <3>6 DEF t, kt
  <2>7. CASE N + 1 \in P
    <3> DEFINE m == Len(k) + 1
    <3> DEFINE h == [j \in 1..m |-> IF j = m THEN N + 1 ELSE g[j]]
    <3>1. /\ kt = Append(k, e) /\ kt \in Seq(E) /\ Len(kt) = m /\ kt[m] = e
          /\ \A j \in 1..Len(k) : kt[j] = k[j]
      BY <2>1, <2>7
    <3>2. h[m] = N + 1 /\ DOMAIN h = 1..m /\ \A j \in 1..Len(k) : h[j] = g[j]
      BY <2>5
    <3>3. \A j \in 1..m : j = m \/ j \in 1..Len(k)
      BY <2>5
    <3>4. m \in 1..m /\ \A j \in 1..Len(k) : j \in 1..m /\ j # m
      BY <2>5
    <3>h. h = [j \in 1..m |-> h[j]]
      OBVIOUS
    <3> HIDE DEF h
    <3>5. \A j \in 1..m : h[j] \in 1..(N + 1)
      <4> SUFFICES ASSUME NEW j \in 1..m PROVE h[j] \in 1..(N + 1)
        OBVIOUS
      <4>1. CASE j = m
        BY <2>3, <3>2, <4>1
      <4>2. CASE j \in 1..Len(k)
        <5>1. h[j] = g[j] /\ g[j] \in 1..N
          BY <2>4, <3>2, <4>2
        <5>2. QED
          BY <2>3, <5>1
      <4>3. QED
        BY <3>3, <4>1, <4>2
    <3>6. h \in [1..m -> 1..(N + 1)]
      BY <3>h, <3>5
    <3>7. \A j \in 1..m : h[j] \in P /\ kt[j] = t[h[j]]
      <4> SUFFICES ASSUME NEW j \in 1..m PROVE h[j] \in P /\ kt[j] = t[h[j]]
        OBVIOUS
      <4>1. CASE j = m
        BY <2>3, <2>7, <3>1, <3>2, <4>1
      <4>2. CASE j \in 1..Len(k)
        <5>1. h[j] = g[j] /\ g[j] \in 1..N /\ g[j] \in P /\ k[j] = r[g[j]]
          BY <2>4, <3>2, <4>2
        <5>2. kt[j] = k[j] /\ t[g[j]] = r[g[j]]
          BY <2>3, <3>1, <4>2, <5>1
        <5>3. QED
          BY <5>1, <5>2
      <4>3. QED
        BY <3>3, <4>1, <4>2
    <3>8. \A j, l \in 1..m : j < l => h[j] < h[l]
      <4> SUFFICES ASSUME NEW j \in 1..m, NEW l \in 1..m, j < l PROVE h[j] < h[l]
        OBVIOUS
      <4>1. j \in 1..Len(k)
        BY <2>5
      <4>2. CASE l = m
        <5>1. h[j] = g[j] /\ g[j] \in 1..N /\ h[l] = N + 1
          BY <2>4, <3>2, <4>1, <4>2
        <5>2. QED
          BY <2>3, <5>1
      <4>3. CASE l \in 1..Len(k)
        BY <2>4, <3>2, <4>1, <4>3
      <4>4. QED
        BY <3>3, <4>2, <4>3
    <3>9. \A i \in 1..(N + 1) : i \in P => \E j \in 1..m : h[j] = i
      <4> SUFFICES ASSUME NEW i \in 1..(N + 1), i \in P PROVE \E j \in 1..m : h[j] = i
        OBVIOUS
      <4>1. CASE i = N + 1
        BY <3>2, <3>4, <4>1
      <4>2. CASE i \in 1..N
        BY <2>4, <3>2, <3>4, <4>2
      <4>3. QED
        BY <2>3, <4>1, <4>2
    <3>10. Picks(h, t, P, kt)
      BY <2>3, <3>1, <3>6, <3>7, <3>8, <3>9 DEF Picks
    <3>11. QED
      BY <2>3, <3>10 DEF t, kt
  <2>8. QED
    BY <2>6, <2>7 DEF t
<1> HIDE DEF T
<1>3. Seq(E) \subseteq T
  BY <1>1, <1>2, AllSequences
<1>4. QED
  BY <1>3 DEF T

\* Who keeps every place keeps the sequence.
LEMMA KeptAll ==
    ASSUME NEW E, NEW s \in Seq(E), NEW P, \A n \in 1..Len(s) : n \in P
    PROVE  Alone!Kept(s, P) = s
<1> DEFINE T == {r \in Seq(E) : Alone!Kept(r, Nat) = r}
<1>1. <<>> \in T
  <2>1. <<>> \in Seq(E)
    OBVIOUS
  <2>2. QED
    BY <2>1, KeptOfNone
<1>2. ASSUME NEW r \in Seq(E), NEW e \in E, r \in T PROVE Append(r, e) \in T
  <2>1. Alone!Kept(Append(r, e), Nat) =
           IF Len(r) + 1 \in Nat THEN Append(Alone!Kept(r, Nat), e) ELSE Alone!Kept(r, Nat)
    BY KeptAppend
  <2>2. Len(r) + 1 \in Nat /\ Append(r, e) \in Seq(E) /\ Alone!Kept(r, Nat) = r
    BY <1>2
  <2>3. QED
    BY <2>1, <2>2
<1> HIDE DEF T
<1>3. s \in T
  BY <1>1, <1>2, AllSequences
<1>4. \A n \in 1..Len(s) : n \in P <=> n \in Nat
  OBVIOUS
<1>5. Alone!Kept(s, P) = Alone!Kept(s, Nat)
  BY <1>4, KeptWithin
<1>6. QED
  BY <1>3, <1>5 DEF T

\* Entries without weight weigh nothing together.
LEMMA WeighedNothing ==
    ASSUME NEW E, NEW s \in Seq(E), NEW weight \in [E -> Nat],
           \A i \in 1..Len(s) : weight[s[i]] = 0
    PROVE  Weighed(s, weight) = 0
<1> DEFINE none == [e \in E |-> 0]
<1> DEFINE T == {r \in Seq(E) : Weighed(r, none) = 0}
<1>0. none \in [E -> Nat]
  OBVIOUS
<1>1. <<>> \in T
  <2>1. <<>> \in Seq(E)
    OBVIOUS
  <2>2. QED
    BY <2>1, WeighedNone
<1>2. ASSUME NEW r \in Seq(E), NEW e \in E, r \in T PROVE Append(r, e) \in T
  <2>1. none[e] = 0 /\ Append(r, e) \in Seq(E) /\ Weighed(r, none) = 0
    BY <1>2
  <2> HIDE DEF none
  <2>2. Weighed(Append(r, e), none) = Weighed(r, none) + none[e]
    BY <1>0, WeighedAppend
  <2>3. QED
    BY <2>1, <2>2
<1> HIDE DEF T
<1>3. Weighed(s, none) = 0
  <2>1. s \in T
    BY <1>1, <1>2, AllSequences
  <2>2. QED
    BY <2>1 DEF T
<1>4. \A i \in DOMAIN s : none[s[i]] = weight[s[i]]
  OBVIOUS
<1>5. [i \in DOMAIN s |-> none[s[i]]] = [i \in DOMAIN s |-> weight[s[i]]]
  BY <1>4
<1>6. QED
  BY <1>3, <1>5 DEF Weighed

\* One entry weighs what it weighs.
LEMMA WeighedOne ==
    ASSUME NEW E, NEW e \in E, NEW weight \in [E -> Nat] PROVE Weighed(<<e>>, weight) = weight[e]
<1>1. <<>> \in Seq(E) /\ <<e>> = Append(<<>>, e) /\ weight[e] \in Nat
  OBVIOUS
<1>2. Weighed(Append(<<>>, e), weight) = Weighed(<<>>, weight) + weight[e]
  BY <1>1, WeighedAppend
<1>3. Weighed(<<>>, weight) = 0
  BY WeighedNone
<1>4. QED
  BY <1>1, <1>2, <1>3

\* Weights that agree on the entries of a sequence weigh it alike.
LEMMA WeighedSame ==
    ASSUME NEW s, NEW weight, NEW other, \A i \in DOMAIN s : weight[s[i]] = other[s[i]]
    PROVE  Weighed(s, weight) = Weighed(s, other)
<1>1. [i \in DOMAIN s |-> weight[s[i]]] = [i \in DOMAIN s |-> other[s[i]]]
  OBVIOUS
<1>2. QED
  BY <1>1 DEF Weighed

\* A sequence weighs what its beginning weighs and what the rest does.
LEMMA WeighedSplit ==
    ASSUME NEW E, NEW s \in Seq(E), NEW n \in 0..Len(s), NEW weight \in [E -> Nat]
    PROVE  /\ SubSeq(s, 1, n) \in Seq(E) /\ SubSeq(s, n + 1, Len(s)) \in Seq(E)
           /\ Weighed(s, weight) =
                 Weighed(SubSeq(s, 1, n), weight) + Weighed(SubSeq(s, n + 1, Len(s)), weight)
<1> DEFINE front == SubSeq(s, 1, n)
<1> DEFINE rest == SubSeq(s, n + 1, Len(s))
<1>1. n \in Nat /\ Len(s) \in Nat /\ n <= Len(s) /\ \A i \in 1..Len(s) : s[i] \in E
  OBVIOUS
<1>2. front \in Seq(E) /\ rest \in Seq(E)
  <2>1. \A i \in 1..n : i \in 1..Len(s)
    BY <1>1
  <2>2. \A i \in (n + 1)..Len(s) : i \in 1..Len(s)
    BY <1>1
  <2>3. QED
    BY <1>1, <2>1, <2>2, SubSeqProperties
<1>3. s = front \o rest
  <2>1. Len(front) = n /\ Len(rest) = Len(s) - n
    BY <1>1
  <2>2. \A i \in 1..n : front[i] = s[i]
    BY <1>1
  <2>3. \A i \in 1..(Len(s) - n) : rest[i] = s[n + i]
    BY <1>1
  <2> HIDE DEF front, rest
  <2>4. /\ Len(front \o rest) = Len(s) /\ front \o rest \in Seq(E)
        /\ \A i \in 1..Len(s) : (front \o rest)[i] = s[i]
    <3>1. front \o rest \in Seq(E) /\ Len(front \o rest) = Len(front) + Len(rest)
      BY <1>2
    <3>2. Len(front \o rest) = Len(s)
      BY <1>1, <2>1, <3>1
    <3>3. \A i \in 1..(Len(front) + Len(rest)) :
            (front \o rest)[i] = IF i <= Len(front) THEN front[i] ELSE rest[i - Len(front)]
      BY <1>2
    <3>4. ASSUME NEW i \in 1..Len(s) PROVE (front \o rest)[i] = s[i]
      <4>1. i \in 1..(Len(front) + Len(rest))
        BY <3>1, <3>2
      <4>2. CASE i <= n
        <5>1. i \in 1..n
          BY <1>1, <4>2
        <5>2. QED
          BY <2>1, <2>2, <3>3, <4>1, <4>2, <5>1
      <4>3. CASE ~(i <= n)
        <5>1. i - n \in 1..(Len(s) - n) /\ n + (i - n) = i
          BY <1>1, <4>3
        <5>2. QED
          BY <2>1, <2>3, <3>3, <4>1, <4>3, <5>1
      <4>4. QED
        BY <4>2, <4>3
    <3>5. QED
      BY <3>1, <3>2, <3>4
  <2>5. QED
    BY <2>4, SeqEqual
<1> HIDE DEF front, rest
<1>4. Weighed(front \o rest, weight) = Weighed(front, weight) + Weighed(rest, weight)
  BY <1>2, WeighedJoined
<1>5. QED
  BY <1>2, <1>3, <1>4 DEF front, rest

-----------------------------------------------------------------------------
(* The value of a cache. *)

Bytes == [e \in Alone!Entries |-> CacheSize[e.body]]
UnreadPart == [e \in Alone!Entries |-> IF Alone!Unread(e) THEN CacheSize[e.body] ELSE 0]
IsStale(e, t) == CacheTtl > 0 /\ Alone!Unread(e) /\ e.storedAt < t - CacheTtl
StalePart(t) == [e \in Alone!Entries |-> IF IsStale(e, t) THEN CacheSize[e.body] ELSE 0]

\* The weights used here are numbers.
LEMMA WeightTypes ==
    /\ Bytes \in [Alone!Entries -> Nat] /\ UnreadPart \in [Alone!Entries -> Nat]
    /\ \A t : StalePart(t) \in [Alone!Entries -> Nat]
<1>1. \A e \in Alone!Entries : CacheSize[e.body] \in Nat
  BY AloneAssumption DEF Alone!Entries
<1> HIDE DEF Alone!Entries
<1>2. QED
  BY <1>1 DEF Bytes, UnreadPart, StalePart

\* The sums of the cache are weights of its entries.
LEMMA SumsWeigh ==
    ASSUME NEW s \in Seq(Alone!Entries), NEW t
    PROVE  /\ Alone!BytesOf(s) = Weighed(s, Bytes)
           /\ Alone!UnreadBytes(s) = Weighed(s, UnreadPart)
           /\ Alone!BytesAt(s, Alone!Stale(s, t)) = Weighed(s, StalePart(t))
<1>1. \A i \in DOMAIN s : s[i] \in Alone!Entries
  OBVIOUS
<1> HIDE DEF Alone!Entries
<1>2. \A i \in DOMAIN s :
        /\ Bytes[s[i]] = CacheSize[s[i].body]
        /\ UnreadPart[s[i]] = IF Alone!Unread(s[i]) THEN CacheSize[s[i].body] ELSE 0
        /\ StalePart(t)[s[i]] = IF IsStale(s[i], t) THEN CacheSize[s[i].body] ELSE 0
  BY <1>1 DEF Bytes, UnreadPart, StalePart
<1>3. \A i \in DOMAIN s : IsStale(s[i], t) <=> i \in Alone!Stale(s, t)
  BY DEF IsStale, Alone!Stale
<1>4. \A i \in DOMAIN s : Alone!Unread(s[i]) <=> i \in {j \in DOMAIN s : Alone!Unread(s[j])}
  OBVIOUS
<1>5. Alone!BytesOf(s) = Weighed(s, Bytes)
  <2>1. [i \in DOMAIN s |-> IF i \in DOMAIN s THEN CacheSize[s[i].body] ELSE 0]
          = [i \in DOMAIN s |-> Bytes[s[i]]]
    BY <1>2
  <2>2. QED
    BY <2>1 DEF Alone!BytesOf, Alone!BytesAt, Weighed
<1>6. Alone!UnreadBytes(s) = Weighed(s, UnreadPart)
  <2> DEFINE U == {j \in DOMAIN s : Alone!Unread(s[j])}
  <2>1. Alone!UnreadBytes(s) = Alone!Total([i \in DOMAIN s |-> IF i \in U THEN CacheSize[s[i].body] ELSE 0])
    BY DEF Alone!UnreadBytes, Alone!BytesAt
  <2> HIDE DEF U
  <2>2. [i \in DOMAIN s |-> IF i \in U THEN CacheSize[s[i].body] ELSE 0]
          = [i \in DOMAIN s |-> UnreadPart[s[i]]]
    BY <1>2, <1>4 DEF U
  <2>3. QED
    BY <2>1, <2>2 DEF Weighed
<1>7. Alone!BytesAt(s, Alone!Stale(s, t)) = Weighed(s, StalePart(t))
  <2>1. [i \in DOMAIN s |-> IF i \in Alone!Stale(s, t) THEN CacheSize[s[i].body] ELSE 0]
          = [i \in DOMAIN s |-> StalePart(t)[s[i]]]
    BY <1>2, <1>3
  <2>2. QED
    BY <2>1 DEF Alone!BytesAt, Weighed
<1>8. QED
  BY <1>5, <1>6, <1>7

\* What is kept has the entries of these places and no others.
LEMMA KeptEntries ==
    ASSUME NEW E, NEW s \in Seq(E), NEW P
    PROVE  /\ \A j \in 1..Len(Alone!Kept(s, P)) :
                \E i \in 1..Len(s) : i \in P /\ Alone!Kept(s, P)[j] = s[i]
           /\ \A i \in 1..Len(s) : i \in P =>
                \E j \in 1..Len(Alone!Kept(s, P)) : Alone!Kept(s, P)[j] = s[i]
<1> DEFINE k == Alone!Kept(s, P)
<1>1. PICK g : Picks(g, s, P, k)
  BY KeptPicks
<1> HIDE DEF k
<1>2. /\ \A j \in 1..Len(k) : g[j] \in 1..Len(s) /\ g[j] \in P /\ k[j] = s[g[j]]
      /\ \A i \in 1..Len(s) : i \in P => \E j \in 1..Len(k) : g[j] = i
  BY <1>1 DEF Picks
<1>3. QED
  BY <1>2, SMTT(20) DEF k

\* No two entries have one url.
Distinct(s) == \A i, j \in 1..Len(s) : s[i].url = s[j].url => i = j

\* Without an entry a cache weighs less by that entry; without one it has not, the same.
LEMMA WeighedWithout ==
    ASSUME NEW s \in Seq(Alone!Entries), Distinct(s), NEW i \in 1..Len(s),
           NEW weight \in [Alone!Entries -> Nat]
    PROVE  Weighed(s, weight) = Weighed(Alone!Without(s, s[i].url), weight) + weight[s[i]]
<1> DEFINE url == s[i].url
<1> DEFINE P == {j \in DOMAIN s : s[j].url # url}
<1> DEFINE k == Alone!Kept(s, Nat \ P)
<1>0. DOMAIN s = 1..Len(s) /\ s[i] \in Alone!Entries
  OBVIOUS
<1>1. \A j \in 1..Len(s) : j \in Nat \ P <=> j = i
  <2> SUFFICES ASSUME NEW j \in 1..Len(s) PROVE j \in Nat \ P <=> j = i
    OBVIOUS
  <2>1. j \in Nat \ P <=> s[j].url = s[i].url
    BY <1>0
  <2>2. s[j].url = s[i].url => j = i
    BY DEF Distinct
  <2>3. CASE j = i
    BY <2>1, <2>3
  <2>4. CASE j # i
    BY <2>1, <2>2, <2>4
  <2>5. QED
    BY <2>3, <2>4
<1>2. Weighed(s, weight) = Weighed(Alone!Kept(s, P), weight) + Weighed(k, weight)
  BY WeighedKept
<1>3. k \in Seq(Alone!Entries)
  BY KeptType
<1>4. PICK g : Picks(g, s, Nat \ P, k)
  BY KeptPicks
<1> HIDE DEF k, P
<1>5. /\ \A j \in 1..Len(k) : g[j] = i /\ k[j] = s[i]
      /\ \A j, l \in 1..Len(k) : j < l => g[j] < g[l]
      /\ \E j \in 1..Len(k) : g[j] = i
  BY <1>1, <1>4 DEF Picks
<1>6. Len(k) = 1
  <2>1. Len(k) \in Nat /\ Len(k) >= 1
    BY <1>3, <1>5
  <2>2. ASSUME Len(k) >= 2 PROVE FALSE
    <3>1. 1 \in 1..Len(k) /\ 2 \in 1..Len(k) /\ 1 < 2
      BY <2>1, <2>2
    <3>2. g[1] = i /\ g[2] = i /\ g[1] < g[2]
      BY <1>5, <3>1
    <3>3. QED
      BY <3>2
  <2> DEFINE length == Len(k)
  <2>3. length \in Nat /\ length >= 1 /\ ~(length >= 2)
    BY <2>1, <2>2
  <2> HIDE DEF length
  <2>4. length = 1
    BY ONLY <2>3
  <2>5. QED
    BY <2>4 DEF length
<1>7. k[1] = s[i]
  BY <1>5, <1>6
<1>8. k = <<s[i]>>
  BY <1>3, <1>6, <1>7
<1>9. Weighed(k, weight) = weight[s[i]]
  BY <1>0, <1>8, WeighedOne
<1>10. QED
  BY <1>2, <1>9 DEF Alone!Without, P

\* A page that is not there cannot be taken out.
LEMMA WithoutNone ==
    ASSUME NEW s \in Seq(Alone!Entries), NEW url, \A i \in 1..Len(s) : s[i].url # url
    PROVE  Alone!Without(s, url) = s
<1>1. \A i \in 1..Len(s) : i \in {j \in DOMAIN s : s[j].url # url}
  OBVIOUS
<1>2. QED
  BY <1>1, KeptAll DEF Alone!Without

\* The entries of a sequence, and their pages.
Members(s) == {s[i] : i \in 1..Len(s)}
PagesOf(s) == {s[i].url : i \in 1..Len(s)}

\* The members kept are those at the places kept.
LEMMA MembersKept ==
    ASSUME NEW E, NEW s \in Seq(E), NEW P
    PROVE  Members(Alone!Kept(s, P)) = {s[i] : i \in {j \in 1..Len(s) : j \in P}}
<1> DEFINE k == Alone!Kept(s, P)
<1>1. /\ \A j \in 1..Len(k) : \E i \in 1..Len(s) : i \in P /\ k[j] = s[i]
      /\ \A i \in 1..Len(s) : i \in P => \E j \in 1..Len(k) : k[j] = s[i]
  BY KeptEntries
<1> HIDE DEF k
<1>2. Members(k) = {s[i] : i \in {j \in 1..Len(s) : j \in P}}
  <2>1. \A j \in 1..Len(k) : k[j] \in {s[i] : i \in {l \in 1..Len(s) : l \in P}}
    BY <1>1
  <2>2. \A i \in {l \in 1..Len(s) : l \in P} : s[i] \in {k[j] : j \in 1..Len(k)}
    BY <1>1
  <2>3. QED
    BY <2>1, <2>2 DEF Members
<1>3. QED
  BY <1>2 DEF k

\* The members of a sequence, their pages, and those of a longer one.
LEMMA MembersType ==
    ASSUME NEW E, NEW s \in Seq(E)
    PROVE  /\ Members(s) \subseteq E /\ PagesOf(s) = {e.url : e \in Members(s)}
           /\ \A e \in E : Members(Append(s, e)) = Members(s) \cup {e}
<1>1. \A i \in 1..Len(s) : s[i] \in E
  OBVIOUS
<1>2. ASSUME NEW e \in E PROVE Members(Append(s, e)) = Members(s) \cup {e}
  <2> DEFINE t == Append(s, e)
  <2> DEFINE n == Len(s)
  <2>1. n \in Nat /\ Len(t) = n + 1 /\ t[n + 1] = e /\ \A i \in 1..n : t[i] = s[i]
    OBVIOUS
  <2> HIDE DEF t, n
  <2>2. \A i \in 1..(n + 1) : i = n + 1 \/ i \in 1..n
    BY <2>1
  <2>3. n + 1 \in 1..(n + 1) /\ \A i \in 1..n : i \in 1..(n + 1)
    BY <2>1
  <2>4. {t[i] : i \in 1..(n + 1)} = {s[i] : i \in 1..n} \cup {e}
    BY <2>1, <2>2, <2>3
  <2>5. QED
    BY <2>1, <2>4 DEF Members, t, n
<1>3. Members(s) \subseteq E
  BY <1>1 DEF Members
<1>4. PagesOf(s) = {e.url : e \in Members(s)}
  BY DEF Members, PagesOf
<1>5. QED
  BY <1>2, <1>3, <1>4
-----------------------------------------------------------------------------
(* The order of the entries. *)

Ordered(s, rank) ==
    \A i, j \in 1..Len(s) : i < j => rank[s[i].url] < rank[s[j].url]

\* Entries in the order of their last use are of different pages.
LEMMA OrderedDistinct ==
    ASSUME NEW s \in Seq(Alone!Entries), NEW rank \in [CachePages -> Nat], Ordered(s, rank)
    PROVE  Distinct(s)
<1> SUFFICES ASSUME NEW i \in 1..Len(s), NEW j \in 1..Len(s), s[i].url = s[j].url
             PROVE  i = j
  BY DEF Distinct
<1>1. s[i].url \in CachePages
  <2>1. s[i] \in Alone!Entries
    OBVIOUS
  <2>2. QED
    BY <2>1 DEF Alone!Entries
<1>2. rank[s[i].url] \in Nat /\ rank[s[i].url] = rank[s[j].url]
  BY <1>1
<1>3. ~(i < j) /\ ~(j < i)
  BY <1>2 DEF Ordered
<1>4. i \in Nat /\ j \in Nat
  OBVIOUS
<1>5. QED
  BY ONLY <1>3, <1>4

\* Taking entries out leaves the others in order.
LEMMA OrderedKept ==
    ASSUME NEW s \in Seq(Alone!Entries), NEW rank, Ordered(s, rank), NEW P
    PROVE  Ordered(Alone!Kept(s, P), rank)
<1> DEFINE k == Alone!Kept(s, P)
<1>1. PICK g : Picks(g, s, P, k)
  BY KeptPicks
<1> HIDE DEF k
<1>2. /\ \A j \in 1..Len(k) : g[j] \in 1..Len(s) /\ k[j] = s[g[j]]
      /\ \A j, l \in 1..Len(k) : j < l => g[j] < g[l]
  BY <1>1 DEF Picks
<1>3. Ordered(k, rank)
  BY <1>2 DEF Ordered
<1>4. QED
  BY <1>3 DEF k

\* The rest of an ordered sequence is ordered; its members are those behind the cut.
LEMMA OrderedRest ==
    ASSUME NEW s \in Seq(Alone!Entries), NEW rank, Ordered(s, rank), NEW n \in 0..Len(s)
    PROVE  /\ Ordered(SubSeq(s, n + 1, Len(s)), rank)
           /\ Members(SubSeq(s, n + 1, Len(s))) = {s[i] : i \in (n + 1)..Len(s)}
           /\ Members(SubSeq(s, 1, n)) = {s[i] : i \in 1..n}
<1> DEFINE N == Len(s)
<1> DEFINE rest == SubSeq(s, n + 1, N)
<1> DEFINE front == SubSeq(s, 1, n)
<1>1. N \in Nat /\ n \in Nat /\ n <= N
  OBVIOUS
<1>2. Len(rest) = N - n /\ \A i \in 1..(N - n) : rest[i] = s[n + i]
  BY <1>1
<1>3. Len(front) = n /\ \A i \in 1..n : front[i] = s[i]
  BY <1>1
<1>o. \A i, j \in 1..N : i < j => rank[s[i].url] < rank[s[j].url]
  BY DEF Ordered
<1> HIDE DEF rest, front, N
<1>4. \A i \in 1..(N - n) : n + i \in (n + 1)..N /\ n + i \in 1..N
  BY <1>1
<1>5. \A i \in (n + 1)..N : i - n \in 1..(N - n) /\ i = n + (i - n)
  BY <1>1
<1>6. Ordered(rest, rank)
  <2> SUFFICES ASSUME NEW i \in 1..(N - n), NEW j \in 1..(N - n), i < j
               PROVE  rank[rest[i].url] < rank[rest[j].url]
    BY <1>2 DEF Ordered
  <2>1. n + i < n + j
    BY <1>1
  <2>2. QED
    BY <1>2, <1>4, <1>o, <2>1
<1>7. Members(rest) = {s[i] : i \in (n + 1)..N}
  <2>1. \A i \in 1..(N - n) : rest[i] \in {s[j] : j \in (n + 1)..N}
    BY <1>2, <1>4
  <2>2. \A j \in (n + 1)..N : s[j] = rest[j - n] /\ j - n \in 1..(N - n)
    BY <1>2, <1>5
  <2>3. QED
    BY <1>2, <2>1, <2>2 DEF Members
<1>8. Members(front) = {s[i] : i \in 1..n}
  BY <1>3 DEF Members
<1>9. QED
  BY <1>6, <1>7, <1>8 DEF rest, front, N

\* A page put or opened now comes last.
LEMMA OrderedAppend ==
    ASSUME NEW s \in Seq(Alone!Entries), NEW e \in Alone!Entries,
           NEW rank \in [CachePages -> Nat], Ordered(s, rank), e.url \notin PagesOf(s),
           NEW k \in Nat, \A p \in CachePages : rank[p] < k
    PROVE  Ordered(Append(s, e), [rank EXCEPT ![e.url] = k])
<1> DEFINE t == Append(s, e)
<1> DEFINE n == Len(s)
<1> DEFINE later == [rank EXCEPT ![e.url] = k]
<1>1. n \in Nat /\ Len(t) = n + 1 /\ t[n + 1] = e /\ \A i \in 1..n : t[i] = s[i]
  OBVIOUS
<1>2. e.url \in CachePages /\ \A i \in 1..n : s[i].url \in CachePages
  <2>1. \A i \in 1..n : s[i] \in Alone!Entries
    OBVIOUS
  <2>2. QED
    BY <2>1 DEF Alone!Entries
<1>3. later[e.url] = k /\ \A i \in 1..n : later[s[i].url] = rank[s[i].url] /\ s[i].url # e.url
  BY <1>2 DEF PagesOf
<1> HIDE DEF t, n, later
<1>4. ASSUME NEW i \in 1..(n + 1), NEW j \in 1..(n + 1), i < j
      PROVE  later[t[i].url] < later[t[j].url]
  <2>1. i \in 1..n
    BY <1>1, <1>4
  <2>2. CASE j = n + 1
    BY <1>1, <1>2, <1>3, <2>1, <2>2
  <2>3. CASE j # n + 1
    <3>1. j \in 1..n
      BY <1>1, <2>3
    <3>2. rank[s[i].url] < rank[s[j].url]
      BY <1>4, <2>1, <3>1 DEF Ordered, n
    <3>3. QED
      BY <1>1, <1>3, <2>1, <3>1, <3>2
  <2>4. QED
    BY <2>2, <2>3
<1>5. Ordered(t, later)
  BY <1>1, <1>4 DEF Ordered
<1>6. QED
  BY <1>5 DEF t, later

\* A sequence with each page once is as long as it has pages.
LEMMA PagesCounted ==
    ASSUME NEW s \in Seq(Alone!Entries), Distinct(s)
    PROVE  Cardinality(PagesOf(s)) = Len(s)
<1> DEFINE f == [i \in 1..Len(s) |-> s[i].url]
<1>1. Len(s) \in Nat /\ IsFiniteSet(1..Len(s)) /\ Cardinality(1..Len(s)) = Len(s)
  <2>1. Len(s) \in Nat
    OBVIOUS
  <2>2. IsFiniteSet(1..Len(s)) /\ Cardinality(1..Len(s)) = IF 1 > Len(s) THEN 0 ELSE Len(s) - 1 + 1
    BY <2>1, FS_Interval, SMTT(20)
  <2>3. QED
    BY <2>1, <2>2
<1>2. f \in Surjection(1..Len(s), PagesOf(s))
  BY DEF Surjection, PagesOf
<1>3. f \in Injection(1..Len(s), PagesOf(s))
  BY DEF Injection, IsInjective, PagesOf, Distinct
<1>4. f \in Bijection(1..Len(s), PagesOf(s))
  BY <1>2, <1>3 DEF Bijection
<1>5. ExistsBijection(1..Len(s), PagesOf(s))
  BY <1>4 DEF ExistsBijection
<1>6. Cardinality(PagesOf(s)) = Cardinality(1..Len(s))
  BY <1>1, <1>5, FS_Bijection
<1>7. QED
  BY <1>1, <1>6
-----------------------------------------------------------------------------
(* What Expire, Without and Append do to the entries. *)

LEMMA LiveIs ==
    ASSUME NEW s \in Seq(Alone!Entries), NEW t
    PROVE  LET live == Alone!Kept(s, DOMAIN s \ Alone!Stale(s, t))
               lost == Alone!BytesAt(s, Alone!Stale(s, t))
           IN  /\ live \in Seq(Alone!Entries) /\ lost \in Nat
               /\ Members(live) = {e \in Members(s) : ~IsStale(e, t)}
               /\ Weighed(s, Bytes) = Weighed(live, Bytes) + lost
               /\ Weighed(s, UnreadPart) = Weighed(live, UnreadPart) + lost
               /\ \A weight \in [Alone!Entries -> Nat] : Weighed(live, weight) <= Weighed(s, weight)
<1> DEFINE P == DOMAIN s \ Alone!Stale(s, t)
<1> DEFINE live == Alone!Kept(s, P)
<1> DEFINE gone == Alone!Kept(s, Nat \ P)
<1> DEFINE lost == Alone!BytesAt(s, Alone!Stale(s, t))
<1>0. /\ \A i \in 1..Len(s) : s[i] \in Alone!Entries /\ i \in Nat
      /\ DOMAIN s = 1..Len(s)
  OBVIOUS
<1>1. \A i \in 1..Len(s) : i \in P <=> ~IsStale(s[i], t)
  BY <1>0 DEF IsStale, Alone!Stale
<1>2. live \in Seq(Alone!Entries) /\ gone \in Seq(Alone!Entries)
  BY KeptType
<1>3. /\ Members(live) = {s[i] : i \in {j \in 1..Len(s) : j \in P}}
      /\ Members(gone) = {s[i] : i \in {j \in 1..Len(s) : j \in Nat \ P}}
  BY MembersKept
<1>4. \A weight \in [Alone!Entries -> Nat] :
        /\ Weighed(s, weight) = Weighed(live, weight) + Weighed(gone, weight)
        /\ {Weighed(live, weight), Weighed(gone, weight)} \subseteq Nat
  BY <1>2, WeighedKept, WeighedNat, SMTT(20)
<1>5. lost = Weighed(s, StalePart(t))
  BY SumsWeigh
<1> HIDE DEF P, live, gone, lost
<1>6. Members(live) = {e \in Members(s) : ~IsStale(e, t)}
  BY <1>1, <1>3 DEF Members
<1>7. \A i \in DOMAIN gone : gone[i] \in Alone!Entries /\ IsStale(gone[i], t)
  <2>1. \A e \in Members(gone) : IsStale(e, t)
    BY <1>0, <1>1, <1>3
  <2>2. DOMAIN gone = 1..Len(gone) /\ \A i \in 1..Len(gone) : gone[i] \in Alone!Entries
    BY <1>2
  <2>3. QED
    BY <2>1, <2>2 DEF Members
<1>8. \A i \in 1..Len(live) : StalePart(t)[live[i]] = 0
  <2>1. \A e \in Members(live) : ~IsStale(e, t)
    BY <1>6
  <2>2. \A i \in 1..Len(live) : live[i] \in Alone!Entries
    BY <1>2
  <2>3. QED
    BY <2>1, <2>2 DEF Members, StalePart
<1>9. Weighed(live, StalePart(t)) = 0
  BY <1>2, <1>8, WeightTypes, WeighedNothing
<1>10. Weighed(gone, Bytes) = lost /\ Weighed(gone, UnreadPart) = lost
  <2>1. \A i \in DOMAIN gone : /\ Bytes[gone[i]] = StalePart(t)[gone[i]]
                               /\ UnreadPart[gone[i]] = StalePart(t)[gone[i]]
    <3>1. SUFFICES ASSUME NEW e \in Alone!Entries, IsStale(e, t)
                   PROVE  Bytes[e] = StalePart(t)[e] /\ UnreadPart[e] = StalePart(t)[e]
      BY <1>7
    <3> HIDE DEF Alone!Entries
    <3>2. Alone!Unread(e)
      BY <3>1 DEF IsStale
    <3>3. QED
      BY <3>1, <3>2 DEF Bytes, UnreadPart, StalePart
  <2>2. /\ Weighed(gone, Bytes) = Weighed(gone, StalePart(t))
        /\ Weighed(gone, UnreadPart) = Weighed(gone, StalePart(t))
    BY <2>1, WeighedSame
  <2>3. /\ Weighed(s, StalePart(t)) = Weighed(live, StalePart(t)) + Weighed(gone, StalePart(t))
        /\ Weighed(gone, StalePart(t)) \in Nat
    BY <1>4, WeightTypes
  <2>4. QED
    BY <1>5, <1>9, <2>2, <2>3
<1>11. /\ Weighed(s, Bytes) = Weighed(live, Bytes) + lost
       /\ Weighed(s, UnreadPart) = Weighed(live, UnreadPart) + lost
       /\ lost \in Nat
  BY <1>4, <1>10, WeightTypes
<1>12. \A weight \in [Alone!Entries -> Nat] : Weighed(live, weight) <= Weighed(s, weight)
  <2> SUFFICES ASSUME NEW weight \in [Alone!Entries -> Nat]
               PROVE  Weighed(live, weight) <= Weighed(s, weight)
    OBVIOUS
  <2> DEFINE m == Weighed(s, weight)
  <2> DEFINE k == Weighed(live, weight)
  <2> DEFINE l == Weighed(gone, weight)
  <2>1. m = k + l /\ k \in Nat /\ l \in Nat
    BY <1>4
  <2> HIDE DEF m, k, l
  <2>2. k <= m
    BY <2>1
  <2>3. QED
    BY <2>2 DEF m, k
<1>13. QED
  BY <1>2, <1>6, <1>11, <1>12 DEF live, lost, P

\* The entry of a page is the one that is there.
LEMMA EntryOfIs ==
    ASSUME NEW c, c.entries \in Seq(Alone!Entries), Distinct(c.entries), NEW e \in Members(c.entries)
    PROVE  Alone!EntryOf(c, e.url) = e
<1> DEFINE s == c.entries
<1>1. PICK i \in 1..Len(s) : s[i] = e
  BY DEF Members
<1>2. DOMAIN s = 1..Len(s)
  OBVIOUS
<1>3. \A j \in 1..Len(s) : s[j].url = e.url => j = i
  BY <1>1 DEF Distinct
<1>4. (CHOOSE j \in DOMAIN s : s[j].url = e.url) = i
  BY <1>1, <1>2, <1>3
<1>5. QED
  BY <1>1, <1>4 DEF Alone!EntryOf

\* An entry put last in the place of the one its page had.
Renewed(s, new) == Append(Alone!Without(s, new.url), new)

\* An entry that takes the place of that of its page goes to the end, and only its weight changes.
LEMMA RenewedIs ==
    ASSUME NEW s \in Seq(Alone!Entries), Distinct(s), NEW new \in Alone!Entries
    PROVE  /\ Renewed(s, new) \in Seq(Alone!Entries)
           /\ Renewed(s, new)[Len(Renewed(s, new))] = new
           /\ Members(Renewed(s, new)) = {e \in Members(s) : e.url # new.url} \cup {new}
           /\ \A e \in Members(s), weight \in [Alone!Entries -> Nat] :
                 e.url = new.url =>
                    Weighed(Renewed(s, new), weight) + weight[e] = Weighed(s, weight) + weight[new]
           /\ \A weight \in [Alone!Entries -> Nat] :
                 new.url \notin PagesOf(s) =>
                    Weighed(Renewed(s, new), weight) = Weighed(s, weight) + weight[new]
           /\ \A rank \in [CachePages -> Nat], k \in Nat :
                 Ordered(s, rank) /\ (\A p \in CachePages : rank[p] < k)
                    => Ordered(Renewed(s, new), [rank EXCEPT ![new.url] = k])
<1> DEFINE P == {j \in DOMAIN s : s[j].url # new.url}
<1> DEFINE r == Alone!Without(s, new.url)
<1> DEFINE t == Renewed(s, new)
<1>0. DOMAIN s = 1..Len(s) /\ \A i \in 1..Len(s) : s[i] \in Alone!Entries
  OBVIOUS
<1>1. r = Alone!Kept(s, P)
  BY DEF Alone!Without
<1>2. r \in Seq(Alone!Entries)
  BY <1>1, KeptType
<1>3. Members(r) = {e \in Members(s) : e.url # new.url}
  <2>1. Members(r) = {s[i] : i \in {j \in 1..Len(s) : j \in P}}
    BY <1>1, MembersKept
  <2>2. \A i \in 1..Len(s) : i \in P <=> s[i].url # new.url
    BY <1>0
  <2>3. QED
    BY <2>1, <2>2 DEF Members
<1>r. t = Append(r, new)
  BY DEF Renewed
<1> HIDE DEF r, P, t
<1>4. t \in Seq(Alone!Entries) /\ t[Len(t)] = new
  BY <1>2, <1>r
<1>5. Members(t) = {e \in Members(s) : e.url # new.url} \cup {new}
  BY <1>2, <1>3, <1>r, MembersType
<1>6. \A weight \in [Alone!Entries -> Nat] :
        /\ Weighed(t, weight) = Weighed(r, weight) + weight[new]
        /\ {Weighed(t, weight), Weighed(r, weight), Weighed(s, weight), weight[new]} \subseteq Nat
  <2> SUFFICES ASSUME NEW weight \in [Alone!Entries -> Nat]
               PROVE  /\ Weighed(t, weight) = Weighed(r, weight) + weight[new]
                      /\ {Weighed(t, weight), Weighed(r, weight), Weighed(s, weight), weight[new]}
                            \subseteq Nat
    OBVIOUS
  <2>1. Weighed(t, weight) = Weighed(r, weight) + weight[new]
    BY <1>2, <1>r, WeighedAppend
  <2>2. {Weighed(t, weight), Weighed(r, weight), Weighed(s, weight)} \subseteq Nat
    BY <1>2, <1>4, WeighedNat
  <2>3. weight[new] \in Nat
    OBVIOUS
  <2>4. QED
    BY <2>1, <2>2, <2>3
<1>7. ASSUME NEW e \in Members(s), NEW weight \in [Alone!Entries -> Nat], e.url = new.url
      PROVE  Weighed(t, weight) + weight[e] = Weighed(s, weight) + weight[new]
  <2>1. PICK i \in 1..Len(s) : s[i] = e
    BY DEF Members
  <2>2. Weighed(s, weight) = Weighed(Alone!Without(s, s[i].url), weight) + weight[s[i]]
    BY WeighedWithout
  <2>3. Weighed(s, weight) = Weighed(r, weight) + weight[e]
    BY <1>7, <2>1, <2>2 DEF r
  <2>4. weight[e] \in Nat
    BY <1>0, <2>1
  <2>5. QED
    BY <1>6, <2>3, <2>4
<1>8. ASSUME NEW weight \in [Alone!Entries -> Nat], new.url \notin PagesOf(s)
      PROVE  Weighed(t, weight) = Weighed(s, weight) + weight[new]
  <2>1. \A i \in 1..Len(s) : s[i].url # new.url
    BY <1>8 DEF PagesOf
  <2>2. r = s
    BY <2>1, WithoutNone DEF r
  <2>3. QED
    BY <1>6, <2>2
<1>9. ASSUME NEW rank \in [CachePages -> Nat], NEW k \in Nat,
             Ordered(s, rank), \A p \in CachePages : rank[p] < k
      PROVE  Ordered(t, [rank EXCEPT ![new.url] = k])
  <2>1. Ordered(r, rank)
    BY <1>1, <1>9, OrderedKept
  <2>2. new.url \notin PagesOf(r)
    <3>1. PagesOf(r) = {e.url : e \in Members(r)}
      BY <1>2, MembersType
    <3>2. QED
      BY <1>3, <3>1
  <2>3. QED
    BY <1>2, <1>9, <1>r, <2>1, <2>2, OrderedAppend
<1>10. QED
  BY <1>4, <1>5, <1>7, <1>8, <1>9 DEF t
-----------------------------------------------------------------------------
(* The value of a cache through each call. *)

CacheType ==
    [entries: Seq(Alone!Entries), used: Nat, hits: Nat, misses: Nat, pushHits: Nat,
     pushedBytes: Nat, wastedBytes: Nat, expiredBytes: Nat]

\* used is the bytes held; no pushed byte is wasted twice, and those unread can be wasted yet.
Sound(c) ==
    /\ c \in CacheType
    /\ c.used = Weighed(c.entries, Bytes)
    /\ c.expiredBytes <= c.wastedBytes
    /\ c.wastedBytes + Weighed(c.entries, UnreadPart) <= c.pushedBytes

\* What the fields of a sound cache are.
LEMMA SoundEntries ==
    ASSUME NEW c, Sound(c)
    PROVE  /\ c.entries \in Seq(Alone!Entries)
           /\ \A i \in 1..Len(c.entries) : c.entries[i] \in Alone!Entries
           /\ {Weighed(c.entries, Bytes), Weighed(c.entries, UnreadPart)} \subseteq Nat
           /\ {c.used, c.hits, c.misses, c.pushHits, c.pushedBytes, c.wastedBytes, c.expiredBytes}
                 \subseteq Nat
<1>1. c.entries \in Seq(Alone!Entries)
  BY DEF Sound, CacheType
<1>2. {c.used, c.hits, c.misses, c.pushHits, c.pushedBytes, c.wastedBytes, c.expiredBytes}
         \subseteq Nat
  BY DEF Sound, CacheType
<1>3. {Weighed(c.entries, Bytes), Weighed(c.entries, UnreadPart)} \subseteq Nat
  BY <1>1, WeighedNat, WeightTypes
<1>4. \A i \in 1..Len(c.entries) : c.entries[i] \in Alone!Entries
  BY <1>1
<1>5. QED
  BY <1>1, <1>2, <1>3, <1>4

\* expire drops the stale entries and keeps the books (cache.py:92).
LEMMA ExpireIs ==
    ASSUME NEW c, Sound(c), NEW t
    PROVE  LET live == Alone!Expire(c, t)
           IN  /\ Sound(live) /\ live.used <= c.used /\ live.pushHits = c.pushHits
               /\ Members(live.entries) = {e \in Members(c.entries) : ~IsStale(e, t)}
               /\ \A rank : Ordered(c.entries, rank) => Ordered(live.entries, rank)
               /\ \A weight \in [Alone!Entries -> Nat] :
                     Weighed(live.entries, weight) <= Weighed(c.entries, weight)
<1> DEFINE s == c.entries
<1> DEFINE r == Alone!Kept(s, DOMAIN s \ Alone!Stale(s, t))
<1> DEFINE lost == Alone!BytesAt(s, Alone!Stale(s, t))
<1> DEFINE live == Alone!Expire(c, t)
<1>1. s \in Seq(Alone!Entries)
  BY SoundEntries
<1>2. /\ r \in Seq(Alone!Entries) /\ lost \in Nat
      /\ Members(r) = {e \in Members(s) : ~IsStale(e, t)}
      /\ Weighed(s, Bytes) = Weighed(r, Bytes) + lost
      /\ Weighed(s, UnreadPart) = Weighed(r, UnreadPart) + lost
      /\ \A weight \in [Alone!Entries -> Nat] : Weighed(r, weight) <= Weighed(s, weight)
  BY <1>1, LiveIs
<1>3. \A rank : Ordered(s, rank) => Ordered(r, rank)
  BY <1>1, OrderedKept
<1>4. live = [c EXCEPT !.entries = r, !.used = @ - lost, !.expiredBytes = @ + lost,
                       !.wastedBytes = @ + lost]
  BY DEF Alone!Expire
<1>5. {Weighed(r, Bytes), Weighed(r, UnreadPart)} \subseteq Nat
  BY <1>2, WeighedNat, WeightTypes
<1>6. c \in CacheType /\ c.used = Weighed(s, Bytes) /\ c.expiredBytes <= c.wastedBytes
      /\ c.wastedBytes + Weighed(s, UnreadPart) <= c.pushedBytes
  BY DEF Sound
<1> HIDE DEF s, r, lost, live
<1>7. c.used - lost = Weighed(r, Bytes) /\ c.used - lost <= c.used
  BY <1>2, <1>5, <1>6
<1>8. live \in CacheType
  <2>1. {c.hits, c.misses, c.pushHits, c.pushedBytes, c.wastedBytes, c.expiredBytes} \subseteq Nat
    BY <1>6 DEF CacheType
  <2>2. {c.expiredBytes + lost, c.wastedBytes + lost, c.used - lost} \subseteq Nat
    <3>1. c.used - lost \in Nat
      BY <1>5, <1>7
    <3>2. c.expiredBytes + lost \in Nat /\ c.wastedBytes + lost \in Nat
      BY <1>2, <2>1
    <3>3. QED
      BY <3>1, <3>2
  <2>3. live = [entries |-> r, used |-> c.used - lost, hits |-> c.hits, misses |-> c.misses,
                pushHits |-> c.pushHits, pushedBytes |-> c.pushedBytes,
                wastedBytes |-> c.wastedBytes + lost, expiredBytes |-> c.expiredBytes + lost]
    BY <1>4, <1>6 DEF CacheType
  <2>4. QED
    BY <1>2, <2>1, <2>2, <2>3 DEF CacheType
<1>9. /\ live.entries = r /\ live.used = c.used - lost /\ live.expiredBytes = c.expiredBytes + lost
      /\ live.wastedBytes = c.wastedBytes + lost /\ live.pushedBytes = c.pushedBytes
      /\ live.pushHits = c.pushHits
  BY <1>4, <1>6 DEF CacheType
<1>10. {c.wastedBytes, c.expiredBytes, c.pushedBytes} \subseteq Nat
  BY <1>6 DEF CacheType
<1>11. /\ c.expiredBytes + lost <= c.wastedBytes + lost
       /\ (c.wastedBytes + lost) + Weighed(r, UnreadPart) <= c.pushedBytes
  BY <1>2, <1>5, <1>6, <1>10
<1>12. Sound(live)
  BY <1>7, <1>8, <1>9, <1>11 DEF Sound
<1>13. QED
  BY <1>2, <1>3, <1>7, <1>9, <1>12 DEF live, s

\* An opened entry, put last.
Opened(e) == [e EXCEPT !.hits = @ + 1]

\* A hit moves the entry to the end with one hit more; it is a push hit for an unread page only.
LEMMA HitIs ==
    ASSUME NEW c, Sound(c), Distinct(c.entries), NEW e \in Members(c.entries)
    PROVE  LET next == Alone!Hit(c, e.url)
           IN  /\ Sound(next) /\ next.used = c.used
               /\ Opened(e) \in Alone!Entries /\ Opened(e).url = e.url /\ Opened(e).hits > 0
               /\ next.entries = Renewed(c.entries, Opened(e))
               /\ next.pushHits > c.pushHits => Alone!Unread(e)
<1> DEFINE s == c.entries
<1> DEFINE next == Alone!Hit(c, e.url)
<1> DEFINE r == Renewed(s, Opened(e))
<1>1. s \in Seq(Alone!Entries) /\ e \in Alone!Entries
  BY SoundEntries, MembersType
<1>2. /\ Opened(e) \in Alone!Entries /\ Opened(e).url = e.url /\ Opened(e).hits > 0
      /\ Opened(e).body = e.body
  BY <1>1, SMTT(20) DEF Opened, Alone!Entries
<1>3. Alone!EntryOf(c, e.url) = e
  BY <1>1, EntryOfIs
<1>4. r = Append(Alone!Without(s, e.url), Opened(e))
  BY <1>2 DEF Renewed
<1>5. next = [c EXCEPT !.entries = r,
                       !.pushHits = IF Alone!Unread(e) THEN @ + 1 ELSE @,
                       !.hits = @ + 1]
  BY <1>3, <1>4 DEF Alone!Hit, Opened
<1>6. /\ r \in Seq(Alone!Entries)
      /\ \A weight \in [Alone!Entries -> Nat] :
            Weighed(r, weight) + weight[e] = Weighed(s, weight) + weight[Opened(e)]
  <2> DEFINE new == Opened(e)
  <2>1. new \in Alone!Entries /\ e.url = new.url
    BY <1>2
  <2>2. r = Renewed(s, new)
    OBVIOUS
  <2> HIDE DEF new, r
  <2>3. /\ Renewed(s, new) \in Seq(Alone!Entries)
        /\ \A o \in Members(s), weight \in [Alone!Entries -> Nat] :
              o.url = new.url =>
                 Weighed(Renewed(s, new), weight) + weight[o] = Weighed(s, weight) + weight[new]
    BY <1>1, <2>1, RenewedIs
  <2>4. QED
    BY <2>1, <2>2, <2>3 DEF new
<1>7. {Weighed(r, Bytes), Weighed(r, UnreadPart), Weighed(s, Bytes), Weighed(s, UnreadPart)}
         \subseteq Nat
  BY <1>1, <1>6, WeighedNat, WeightTypes
<1>8. /\ Bytes[e] = Bytes[Opened(e)] /\ UnreadPart[Opened(e)] = 0
      /\ Bytes[e] \in Nat /\ UnreadPart[e] \in Nat
  <2>1. Bytes[e] \in Nat /\ UnreadPart[e] \in Nat
    BY <1>1, WeightTypes
  <2>2. ~Alone!Unread(Opened(e))
    BY <1>1, <1>2 DEF Alone!Unread, Alone!Entries
  <2> HIDE DEF Alone!Entries
  <2>3. Bytes[e] = Bytes[Opened(e)] /\ UnreadPart[Opened(e)] = 0
    BY <1>1, <1>2, <2>2 DEF Bytes, UnreadPart
  <2>4. QED
    BY <2>1, <2>3
<1>9. Weighed(r, Bytes) = Weighed(s, Bytes) /\ Weighed(r, UnreadPart) <= Weighed(s, UnreadPart)
  <2>1. /\ Weighed(r, Bytes) + Bytes[e] = Weighed(s, Bytes) + Bytes[Opened(e)]
        /\ Weighed(r, UnreadPart) + UnreadPart[e] = Weighed(s, UnreadPart) + UnreadPart[Opened(e)]
    BY <1>6, WeightTypes
  <2>2. QED
    BY <1>7, <1>8, <2>1
<1>10. c \in CacheType /\ c.used = Weighed(s, Bytes) /\ c.expiredBytes <= c.wastedBytes
       /\ c.wastedBytes + Weighed(s, UnreadPart) <= c.pushedBytes
  BY DEF Sound
<1> HIDE DEF s, r, next
<1>11. next \in CacheType /\ next.entries = r /\ next.used = c.used
       /\ next.expiredBytes = c.expiredBytes /\ next.wastedBytes = c.wastedBytes
       /\ next.pushedBytes = c.pushedBytes
       /\ (next.pushHits > c.pushHits => Alone!Unread(e))
  <2>1. next \in CacheType
    <3> DEFINE more == IF Alone!Unread(e) THEN c.pushHits + 1 ELSE c.pushHits
    <3>1. {c.used, c.hits + 1, c.misses, c.pushedBytes, c.wastedBytes, c.expiredBytes, more}
             \subseteq Nat
      BY <1>10 DEF CacheType
    <3>2. next = [entries |-> r, used |-> c.used, hits |-> c.hits + 1, misses |-> c.misses,
                  pushHits |-> more, pushedBytes |-> c.pushedBytes,
                  wastedBytes |-> c.wastedBytes, expiredBytes |-> c.expiredBytes]
      BY <1>5, <1>10 DEF CacheType
    <3> HIDE DEF more
    <3>3. QED
      BY <1>6, <3>1, <3>2 DEF CacheType
  <2>2. /\ next.entries = r /\ next.used = c.used
        /\ next.expiredBytes = c.expiredBytes /\ next.wastedBytes = c.wastedBytes
        /\ next.pushedBytes = c.pushedBytes
    BY <1>5, <1>10 DEF CacheType
  <2>3. ~Alone!Unread(e) => next.pushHits = c.pushHits
    BY <1>5, <1>10 DEF CacheType
  <2>4. c.pushHits \in Nat
    BY <1>10 DEF CacheType
  <2>5. next.pushHits > c.pushHits => Alone!Unread(e)
    BY <2>3, <2>4
  <2>6. QED
    BY <2>1, <2>2, <2>5
<1>12. c.wastedBytes + Weighed(r, UnreadPart) <= c.pushedBytes
  <2>1. {c.wastedBytes, c.pushedBytes} \subseteq Nat
    BY <1>10 DEF CacheType
  <2>2. QED
    BY <1>7, <1>9, <1>10, <2>1
<1>13. Sound(next)
  BY <1>9, <1>10, <1>11, <1>12 DEF Sound
<1>14. QED
  BY <1>2, <1>11, <1>13 DEF next, r, s

\* What a put leaves before it evicts: the new entry last, with the hits of the one it replaces.
NewEntry(live, e, t) ==
    [e EXCEPT !.storedAt = t,
              !.hits = IF /\ e.url \in Alone!Urls(live) /\ e.pushed
                          /\ Alone!EntryOf(live, e.url).hits > 0
                       THEN Alone!EntryOf(live, e.url).hits ELSE @]

WithNew(live, e, t) ==
    [live EXCEPT
        !.entries = Renewed(@, NewEntry(live, e, t)),
        !.used = @ - (IF e.url \in Alone!Urls(live)
                      THEN CacheSize[Alone!EntryOf(live, e.url).body] ELSE 0)
                   + CacheSize[e.body],
        !.pushedBytes = @ + (IF e.pushed THEN CacheSize[e.body] ELSE 0)]

\* What put stores: the body it was given, with the hits of a pushed page opened before.
LEMMA NewEntryIs ==
    ASSUME NEW c, Sound(c), Distinct(c.entries), NEW e \in Alone!Entries, NEW t \in Nat
    PROVE  LET new == NewEntry(c, e, t)
           IN  /\ new \in Alone!Entries
               /\ new.url = e.url /\ new.body = e.body /\ new.pushed = e.pushed
               /\ \A o \in Members(c.entries) :
                     o.url = e.url /\ e.pushed /\ o.hits > 0 => new.hits > 0
<1> DEFINE new == NewEntry(c, e, t)
<1>1. c.entries \in Seq(Alone!Entries) /\ Alone!Urls(c) = PagesOf(c.entries)
  <2>1. c.entries \in Seq(Alone!Entries)
    BY SoundEntries
  <2>2. DOMAIN c.entries = 1..Len(c.entries)
    BY <2>1
  <2>3. QED
    BY <2>1, <2>2 DEF Alone!Urls, PagesOf
<1>2. \A o \in Members(c.entries) : o \in Alone!Entries /\ Alone!EntryOf(c, o.url) = o
  BY <1>1, EntryOfIs, MembersType
<1>3. PagesOf(c.entries) = {o.url : o \in Members(c.entries)}
  BY <1>1, MembersType
<1> DEFINE carried == /\ e.url \in Alone!Urls(c) /\ e.pushed
                      /\ Alone!EntryOf(c, e.url).hits > 0
<1> DEFINE hits == IF carried THEN Alone!EntryOf(c, e.url).hits ELSE e.hits
<1>4. hits \in Nat
  <2>1. CASE carried
    <3>1. PICK o \in Members(c.entries) : o.url = e.url
      BY <1>1, <1>3, <2>1
    <3>2. o \in Alone!Entries /\ hits = o.hits
      BY <1>2, <2>1, <3>1
    <3>3. QED
      BY <3>2 DEF Alone!Entries
  <2>2. CASE ~carried
    BY <2>2 DEF Alone!Entries
  <2>3. QED
    BY <2>1, <2>2
<1>5. new = [e EXCEPT !.storedAt = t, !.hits = hits]
  BY DEF NewEntry
<1>6. \A o \in Members(c.entries) : o.url = e.url /\ e.pushed /\ o.hits > 0 => hits > 0
  BY <1>1, <1>2, <1>3
<1> HIDE DEF hits, new
<1>7. /\ new \in Alone!Entries /\ new.hits = hits
      /\ new.url = e.url /\ new.body = e.body /\ new.pushed = e.pushed
  BY <1>4, <1>5 DEF Alone!Entries
<1>8. QED
  BY <1>6, <1>7 DEF new

\* put before it evicts: the entry at the end, used and the pushed bytes brought up to it.
LEMMA WithNewIs ==
    ASSUME NEW c, Sound(c), Distinct(c.entries), NEW e \in Alone!Entries, NEW t \in Nat
    PROVE  LET mid == WithNew(c, e, t)
           IN  /\ Sound(mid) /\ mid.pushHits = c.pushHits
               /\ mid.entries = Renewed(c.entries, NewEntry(c, e, t))
<1> DEFINE s == c.entries
<1> DEFINE new == NewEntry(c, e, t)
<1> DEFINE r == Renewed(s, new)
<1> DEFINE mid == WithNew(c, e, t)
<1> DEFINE known == e.url \in Alone!Urls(c)
<1> DEFINE out == IF known THEN CacheSize[Alone!EntryOf(c, e.url).body] ELSE 0
<1> DEFINE size == CacheSize[e.body]
<1> DEFINE push == IF e.pushed THEN size ELSE 0
<1>1. s \in Seq(Alone!Entries) /\ DOMAIN s = 1..Len(s)
  <2>1. s \in Seq(Alone!Entries)
    BY SoundEntries
  <2>2. QED
    BY <2>1
<1>2. /\ new \in Alone!Entries /\ new.url = e.url /\ new.body = e.body /\ new.pushed = e.pushed
  BY NewEntryIs
<1>3. mid = [c EXCEPT !.entries = r, !.used = @ - out + size, !.pushedBytes = @ + push]
  BY DEF WithNew
<1>4. /\ r \in Seq(Alone!Entries)
      /\ \A o \in Members(s), weight \in [Alone!Entries -> Nat] :
            o.url = e.url => Weighed(r, weight) + weight[o] = Weighed(s, weight) + weight[new]
      /\ \A weight \in [Alone!Entries -> Nat] :
            e.url \notin PagesOf(s) => Weighed(r, weight) = Weighed(s, weight) + weight[new]
  <2>1. new \in Alone!Entries /\ new.url = e.url
    BY <1>2
  <2> HIDE DEF new
  <2>2. /\ r \in Seq(Alone!Entries)
        /\ \A o \in Members(s), weight \in [Alone!Entries -> Nat] :
              o.url = new.url => Weighed(r, weight) + weight[o] = Weighed(s, weight) + weight[new]
        /\ \A weight \in [Alone!Entries -> Nat] :
              new.url \notin PagesOf(s) => Weighed(r, weight) = Weighed(s, weight) + weight[new]
    BY <1>1, <2>1, RenewedIs
  <2>3. QED
    BY <2>1, <2>2
<1>5. {Weighed(r, Bytes), Weighed(r, UnreadPart), Weighed(s, Bytes), Weighed(s, UnreadPart)}
         \subseteq Nat
  BY <1>1, <1>4, WeighedNat, WeightTypes
<1>6. /\ Bytes[new] = size /\ UnreadPart[new] <= push
      /\ size \in Nat /\ push \in Nat /\ UnreadPart[new] \in Nat
  <2>1. Bytes[new] \in Nat /\ UnreadPart[new] \in Nat
    BY <1>2, WeightTypes
  <2> HIDE DEF Alone!Entries
  <2>2. Bytes[new] = size
    BY <1>2 DEF Bytes
  <2>3. ~e.pushed => ~Alone!Unread(new)
    BY <1>2 DEF Alone!Unread
  <2>4. UnreadPart[new] = IF Alone!Unread(new) THEN size ELSE 0
    BY <1>2 DEF UnreadPart
  <2> HIDE DEF size
  <2>5. size \in Nat /\ push \in Nat
    BY <2>1, <2>2
  <2>6. UnreadPart[new] <= push
    BY <2>3, <2>4, <2>5
  <2>7. QED
    BY <2>1, <2>2, <2>5, <2>6
<1>7. /\ Weighed(r, Bytes) = Weighed(s, Bytes) - out + size
      /\ Weighed(r, UnreadPart) <= Weighed(s, UnreadPart) + push
  <2>1. CASE known
    <3>1. PICK o \in Members(s) : o.url = e.url
      BY <1>1, <2>1 DEF Alone!Urls, Members
    <3>2. Alone!EntryOf(c, e.url) = o /\ o \in Alone!Entries
      BY <1>1, <3>1, EntryOfIs, MembersType
    <3>3. Bytes[o] \in Nat /\ UnreadPart[o] \in Nat
      BY <3>2, WeightTypes
    <3>4. out = Bytes[o]
      BY <2>1, <3>2 DEF Bytes
    <3>5. /\ Weighed(r, Bytes) + Bytes[o] = Weighed(s, Bytes) + Bytes[new]
          /\ Weighed(r, UnreadPart) + UnreadPart[o] = Weighed(s, UnreadPart) + UnreadPart[new]
      BY <1>4, <3>1, WeightTypes
    <3> HIDE DEF out, size, push, r, new, s
    <3>6. Weighed(r, Bytes) = Weighed(s, Bytes) - out + size
      BY <1>5, <1>6, <3>3, <3>4, <3>5
    <3>7. Weighed(r, UnreadPart) <= Weighed(s, UnreadPart) + push
      BY <1>5, <1>6, <3>3, <3>5
    <3>8. QED
      BY <3>6, <3>7
  <2>2. CASE ~known
    <3>1. e.url \notin PagesOf(s)
      BY <1>1, <2>2 DEF Alone!Urls, PagesOf
    <3>2. /\ Weighed(r, Bytes) = Weighed(s, Bytes) + Bytes[new]
          /\ Weighed(r, UnreadPart) = Weighed(s, UnreadPart) + UnreadPart[new]
      BY <1>4, <3>1, WeightTypes
    <3>3. out = 0
      BY <2>2
    <3> HIDE DEF out, size, push, r, new, s
    <3>4. QED
      BY <1>5, <1>6, <3>2, <3>3
  <2>3. QED
    BY <2>1, <2>2
<1>8. c \in CacheType /\ c.used = Weighed(s, Bytes) /\ c.expiredBytes <= c.wastedBytes
      /\ c.wastedBytes + Weighed(s, UnreadPart) <= c.pushedBytes
  BY DEF Sound
<1> HIDE DEF s, r, new, mid, out, size, push
<1>9. {c.hits, c.misses, c.pushHits, c.pushedBytes, c.wastedBytes, c.expiredBytes} \subseteq Nat
  BY <1>8 DEF CacheType
<1>10. mid = [entries |-> r, used |-> c.used - out + size, hits |-> c.hits, misses |-> c.misses,
              pushHits |-> c.pushHits, pushedBytes |-> c.pushedBytes + push,
              wastedBytes |-> c.wastedBytes, expiredBytes |-> c.expiredBytes]
  BY <1>3, <1>8 DEF CacheType
<1>11. c.used - out + size = Weighed(r, Bytes)
  BY <1>7, <1>8
<1>12. c.pushedBytes + push \in Nat
       /\ c.wastedBytes + Weighed(r, UnreadPart) <= c.pushedBytes + push
  <2>1. c.pushedBytes + push \in Nat
    BY <1>6, <1>9
  <2>2. c.wastedBytes + Weighed(r, UnreadPart) <= c.pushedBytes + push
    BY <1>5, <1>6, <1>7, <1>8, <1>9
  <2>3. QED
    BY <2>1, <2>2
<1>13. mid \in CacheType
  BY <1>4, <1>5, <1>9, <1>10, <1>11, <1>12 DEF CacheType
<1>14. Sound(mid)
  BY <1>8, <1>10, <1>11, <1>12, <1>13 DEF Sound
<1>15. QED
  BY <1>10, <1>14 DEF mid, r, s, new

\* The loop stops after the oldest n entries.
EvictedAt(c, n) ==
    /\ Alone!Evict(c) =
          [c EXCEPT !.entries = SubSeq(@, n + 1, Len(@)),
                    !.used = @ - Weighed(SubSeq(c.entries, 1, n), Bytes),
                    !.wastedBytes = @ + Weighed(SubSeq(c.entries, 1, n), UnreadPart)]
    /\ Weighed(SubSeq(c.entries, n + 1, Len(c.entries)), Bytes) <= CacheCapacity
    /\ n > 0 => c.used > CacheCapacity

\* ... and never takes the newest, which fits.
LEMMA EvictStops ==
    ASSUME NEW c, Sound(c), c.entries # <<>>,
           Bytes[c.entries[Len(c.entries)]] <= CacheCapacity
    PROVE  \E n \in 0..(Len(c.entries) - 1) : EvictedAt(c, n)
<1> DEFINE s == c.entries
<1> DEFINE N == Len(s)
<1> DEFINE Oldest(k) == SubSeq(s, 1, k)
<1> DEFINE Enough(k) == c.used - Alone!BytesOf(Oldest(k)) <= CacheCapacity
<1> DEFINE First(k) == Enough(k) /\ \A m \in 0..(k - 1) : ~Enough(m)
<1>1. s \in Seq(Alone!Entries) /\ N \in Nat /\ c.used \in Nat /\ c.used = Weighed(s, Bytes)
  <2>1. s \in Seq(Alone!Entries) /\ c.used \in Nat
    BY SoundEntries
  <2>2. N \in Nat
    BY <2>1
  <2>3. QED
    BY <2>1, <2>2 DEF Sound
<1>2. N >= 1 /\ N - 1 \in 0..N
  <2>1. N # 0
    BY <1>1
  <2> HIDE DEF N
  <2>2. QED
    BY <1>1, <2>1
<1>3. CacheCapacity \in Nat
  BY AloneAssumption
<1>4. \A k \in 0..N :
        /\ Oldest(k) \in Seq(Alone!Entries) /\ SubSeq(s, k + 1, N) \in Seq(Alone!Entries)
        /\ \A weight \in [Alone!Entries -> Nat] :
              Weighed(s, weight) = Weighed(Oldest(k), weight) + Weighed(SubSeq(s, k + 1, N), weight)
  BY <1>1, WeighedSplit
<1>5. \A k \in 0..N : /\ Alone!BytesOf(Oldest(k)) = Weighed(Oldest(k), Bytes)
                      /\ Alone!UnreadBytes(Oldest(k)) = Weighed(Oldest(k), UnreadPart)
                      /\ {Weighed(Oldest(k), Bytes), Weighed(SubSeq(s, k + 1, N), Bytes)} \subseteq Nat
  <2> SUFFICES ASSUME NEW k \in 0..N
               PROVE  /\ Alone!BytesOf(Oldest(k)) = Weighed(Oldest(k), Bytes)
                      /\ Alone!UnreadBytes(Oldest(k)) = Weighed(Oldest(k), UnreadPart)
                      /\ {Weighed(Oldest(k), Bytes), Weighed(SubSeq(s, k + 1, N), Bytes)}
                            \subseteq Nat
    OBVIOUS
  <2> DEFINE front == Oldest(k)
  <2> DEFINE rest == SubSeq(s, k + 1, N)
  <2>1. front \in Seq(Alone!Entries) /\ rest \in Seq(Alone!Entries)
    BY <1>4
  <2> HIDE DEF front, rest
  <2>2. /\ Alone!BytesOf(front) = Weighed(front, Bytes)
        /\ Alone!UnreadBytes(front) = Weighed(front, UnreadPart)
    BY <2>1, SumsWeigh
  <2>3. {Weighed(front, Bytes), Weighed(rest, Bytes)} \subseteq Nat
    BY <2>1, WeighedNat, WeightTypes
  <2>4. QED
    BY <2>2, <2>3 DEF front, rest
<1>6. \A k \in 0..N : Enough(k) <=> Weighed(SubSeq(s, k + 1, N), Bytes) <= CacheCapacity
  <2> SUFFICES ASSUME NEW k \in 0..N
               PROVE  Enough(k) <=> Weighed(SubSeq(s, k + 1, N), Bytes) <= CacheCapacity
    OBVIOUS
  <2> DEFINE all == Weighed(s, Bytes)
  <2> DEFINE front == Weighed(Oldest(k), Bytes)
  <2> DEFINE rest == Weighed(SubSeq(s, k + 1, N), Bytes)
  <2>1. all = front + rest /\ front \in Nat /\ rest \in Nat
    BY <1>4, <1>5, WeightTypes
  <2>2. Enough(k) <=> all - front <= CacheCapacity
    BY <1>1, <1>5
  <2> HIDE DEF all, front, rest, Enough
  <2>3. all - front = rest
    BY <2>1
  <2>4. QED
    BY <2>2, <2>3 DEF rest
<1>7. Enough(N - 1)
  <2>1. SubSeq(s, (N - 1) + 1, N) = <<s[N]>>
    <3> DEFINE newest == SubSeq(s, N, N)
    <3>1. N \in 1..N /\ (N - 1) + 1 = N
      BY <1>1, <1>2
    <3>2. s[N] \in Alone!Entries
      BY <1>1, <3>1
    <3>3. newest \in Seq(Alone!Entries) /\ Len(newest) = 1 /\ newest[1] = s[N]
      BY <1>1, <3>1, <3>2
    <3> HIDE DEF newest
    <3>4. newest = <<s[N]>>
      BY <3>3
    <3>5. QED
      BY <3>1, <3>4 DEF newest
  <2>2. s[N] \in Alone!Entries
    BY <1>1, <1>2
  <2>3. Weighed(<<s[N]>>, Bytes) = Bytes[s[N]]
    BY <2>2, WeighedOne, WeightTypes
  <2> HIDE DEF Enough
  <2>4. Weighed(SubSeq(s, (N - 1) + 1, N), Bytes) <= CacheCapacity
    BY <2>1, <2>3
  <2>5. QED
    BY <1>2, <1>6, <2>4
<1> HIDE DEF Enough
<1>8. \E k \in 0..(N - 1) : First(k)
  <2> DEFINE T == {k \in 0..N : Enough(k)}
  <2>1. T \in SUBSET Nat /\ N - 1 \in T
    BY <1>2, <1>7
  <2>2. PICK k \in T : \A m \in T : k <= m
    BY <2>1, LeastOf
  <2>3. k \in Nat /\ k <= N - 1 /\ Enough(k)
    BY <2>1, <2>2
  <2>4. \A m \in 0..(k - 1) : ~Enough(m)
    <3> SUFFICES ASSUME NEW m \in 0..(k - 1), Enough(m) PROVE FALSE
      OBVIOUS
    <3>1. m \in T
      BY <1>1, <2>3
    <3>2. k <= m
      BY <2>2, <3>1
    <3>3. QED
      BY <2>3, <3>2
  <2>5. QED
    BY <1>1, <2>3, <2>4
<1> DEFINE n == CHOOSE k \in 0..N : First(k)
<1>9. n \in 0..N /\ First(n)
  <2>1. \E k \in 0..N : First(k)
    BY <1>1, <1>8
  <2> HIDE DEF First
  <2>2. QED
    BY <2>1
<1>10. n <= N - 1
  <2> HIDE DEF n
  <2>1. CASE N - 1 \in 0..(n - 1)
    BY <1>7, <1>9, <2>1
  <2>2. CASE N - 1 \notin 0..(n - 1)
    BY <1>1, <1>2, <1>9, <2>2
  <2>3. QED
    BY <2>1, <2>2
<1>11. Alone!Evict(c) =
          [c EXCEPT !.entries = SubSeq(@, n + 1, Len(@)),
                    !.used = @ - Alone!BytesOf(Oldest(n)),
                    !.wastedBytes = @ + Alone!UnreadBytes(Oldest(n))]
  BY DEF Alone!Evict, Enough
<1> HIDE DEF n
<1>12. n > 0 => c.used > CacheCapacity
  <2> SUFFICES ASSUME n > 0 PROVE c.used > CacheCapacity
    OBVIOUS
  <2>1. 0 \in 0..(n - 1) /\ 0 \in 0..N
    BY <1>1, <1>9
  <2>2. ~Enough(0)
    BY <1>9, <2>1
  <2>3. SubSeq(s, 0 + 1, N) = s
    BY <1>1
  <2>4. ~(Weighed(s, Bytes) <= CacheCapacity)
    BY <1>6, <2>1, <2>2, <2>3
  <2>5. QED
    BY <1>1, <1>3, <2>4
<1>13. Weighed(SubSeq(s, n + 1, N), Bytes) <= CacheCapacity
  BY <1>6, <1>9
<1>14. EvictedAt(c, n)
  BY <1>5, <1>9, <1>11, <1>12, <1>13 DEF EvictedAt
<1>15. n \in 0..(N - 1)
  BY <1>1, <1>9, <1>10
<1>16. QED
  BY <1>14, <1>15

\* The eviction drops the entries from the front up to its place and then fits the capacity.
LEMMA EvictIs ==
    ASSUME NEW c, Sound(c), NEW n \in 0..(Len(c.entries) - 1), EvictedAt(c, n)
    PROVE  LET next == Alone!Evict(c)
           IN  /\ Sound(next) /\ next.used <= CacheCapacity /\ next.pushHits = c.pushHits
               /\ next.entries = SubSeq(c.entries, n + 1, Len(c.entries))
<1> DEFINE s == c.entries
<1> DEFINE front == SubSeq(s, 1, n)
<1> DEFINE rest == SubSeq(s, n + 1, Len(s))
<1> DEFINE next == Alone!Evict(c)
<1>1. s \in Seq(Alone!Entries)
  BY SoundEntries
<1>2. n \in 0..Len(s)
  <2>1. Len(s) \in Nat
    BY <1>1
  <2>2. QED
    BY <2>1
<1>3. /\ front \in Seq(Alone!Entries) /\ rest \in Seq(Alone!Entries)
      /\ \A weight \in [Alone!Entries -> Nat] :
            Weighed(s, weight) = Weighed(front, weight) + Weighed(rest, weight)
  BY <1>1, <1>2, WeighedSplit
<1>4. {Weighed(front, Bytes), Weighed(front, UnreadPart),
       Weighed(rest, Bytes), Weighed(rest, UnreadPart)} \subseteq Nat
  <2>1. Weighed(front, Bytes) \in Nat /\ Weighed(front, UnreadPart) \in Nat
    BY <1>3, WeighedNat, WeightTypes
  <2>2. Weighed(rest, Bytes) \in Nat /\ Weighed(rest, UnreadPart) \in Nat
    BY <1>3, WeighedNat, WeightTypes
  <2>3. QED
    BY <2>1, <2>2
<1>5. /\ next = [c EXCEPT !.entries = rest, !.used = @ - Weighed(front, Bytes),
                          !.wastedBytes = @ + Weighed(front, UnreadPart)]
      /\ Weighed(rest, Bytes) <= CacheCapacity
  BY DEF EvictedAt
<1>6. c \in CacheType /\ c.used = Weighed(s, Bytes) /\ c.expiredBytes <= c.wastedBytes
      /\ c.wastedBytes + Weighed(s, UnreadPart) <= c.pushedBytes
  BY DEF Sound
<1>7. /\ Weighed(s, Bytes) = Weighed(front, Bytes) + Weighed(rest, Bytes)
      /\ Weighed(s, UnreadPart) = Weighed(front, UnreadPart) + Weighed(rest, UnreadPart)
  BY <1>3, WeightTypes
<1> HIDE DEF s, front, rest, next
<1>8. {c.hits, c.misses, c.pushHits, c.pushedBytes, c.wastedBytes, c.expiredBytes} \subseteq Nat
  BY <1>6 DEF CacheType
<1>9. next = [entries |-> rest, used |-> c.used - Weighed(front, Bytes), hits |-> c.hits,
              misses |-> c.misses, pushHits |-> c.pushHits, pushedBytes |-> c.pushedBytes,
              wastedBytes |-> c.wastedBytes + Weighed(front, UnreadPart),
              expiredBytes |-> c.expiredBytes]
  BY <1>5, <1>6 DEF CacheType
<1>10. c.used - Weighed(front, Bytes) = Weighed(rest, Bytes)
  BY <1>4, <1>6, <1>7
<1>11. /\ c.wastedBytes + Weighed(front, UnreadPart) \in Nat
       /\ c.expiredBytes <= c.wastedBytes + Weighed(front, UnreadPart)
       /\ (c.wastedBytes + Weighed(front, UnreadPart)) + Weighed(rest, UnreadPart) <= c.pushedBytes
  <2>1. c.wastedBytes + Weighed(front, UnreadPart) \in Nat
    BY <1>4, <1>8, SMTT(20)
  <2>2. c.expiredBytes <= c.wastedBytes + Weighed(front, UnreadPart)
    BY <1>4, <1>6, <1>8
  <2>3. (c.wastedBytes + Weighed(front, UnreadPart)) + Weighed(rest, UnreadPart) <= c.pushedBytes
    BY <1>4, <1>6, <1>7, <1>8
  <2>4. QED
    BY <2>1, <2>2, <2>3
<1>12. next \in CacheType
  BY <1>3, <1>4, <1>8, <1>9, <1>10, <1>11 DEF CacheType
<1>13. Sound(next)
  BY <1>9, <1>10, <1>11, <1>12 DEF Sound
<1>14. QED
  BY <1>5, <1>9, <1>10, <1>13 DEF next, rest, s
-----------------------------------------------------------------------------
(* The invariant of the cache. *)

\* A page the reader fetched or opened is held, and never stale unless it is covered.
Safe == {"fetched", "opened"}
Mine(s, own) ==
    \A p \in CachePages : own[p] \in Safe =>
        \E e \in Members(s) : e.url = p /\ (e.hits > 0 \/ (own[p] = "fetched" /\ ~e.pushed))

\* What finalize leaves: nothing is left to waste.
Closed(c) ==
    /\ c \in CacheType
    /\ c.used = Weighed(c.entries, Bytes)
    /\ c.expiredBytes <= c.wastedBytes
    /\ c.wastedBytes <= c.pushedBytes

CacheInv ==
    /\ c_now \in Nat /\ c_ops \in Nat /\ c_finished \in BOOLEAN
    /\ c_own \in [CachePages -> {"not", "fetched", "covered", "opened"}]
    /\ c_lastUse \in [CachePages -> Nat] /\ \A p \in CachePages : c_lastUse[p] <= c_ops
    /\ IF c_finished THEN Closed(c_cache) ELSE Sound(c_cache)
    /\ c_cache.used <= CacheCapacity
    /\ Ordered(c_cache.entries, c_lastUse)
    /\ Mine(c_cache.entries, c_own)

\* What every call but finalize does first.
LEMMA LiveStep ==
    ASSUME CacheInv, ~c_finished
    PROVE  LET live == Alone!Expire(c_cache, c_now)
           IN  /\ Sound(live) /\ live.used <= CacheCapacity
               /\ live.pushHits = c_cache.pushHits
               /\ Members(live.entries) = {e \in Members(c_cache.entries) : ~IsStale(e, c_now)}
               /\ Ordered(live.entries, c_lastUse) /\ Distinct(live.entries)
               /\ Mine(live.entries, c_own)
               /\ \A weight \in [Alone!Entries -> Nat] :
                     Weighed(live.entries, weight) <= Weighed(c_cache.entries, weight)
<1> DEFINE live == Alone!Expire(c_cache, c_now)
<1>1. Sound(c_cache) /\ c_cache.used <= CacheCapacity /\ Ordered(c_cache.entries, c_lastUse)
      /\ c_lastUse \in [CachePages -> Nat] /\ Mine(c_cache.entries, c_own)
  BY DEF CacheInv
<1>2. /\ Sound(live) /\ live.used <= c_cache.used /\ live.pushHits = c_cache.pushHits
      /\ Members(live.entries) = {e \in Members(c_cache.entries) : ~IsStale(e, c_now)}
      /\ Ordered(live.entries, c_lastUse)
      /\ \A weight \in [Alone!Entries -> Nat] :
            Weighed(live.entries, weight) <= Weighed(c_cache.entries, weight)
  BY <1>1, ExpireIs
<1> HIDE DEF live
<1>3. live.entries \in Seq(Alone!Entries) /\ c_cache.entries \in Seq(Alone!Entries)
      /\ live.used \in Nat /\ c_cache.used \in Nat
  BY <1>1, <1>2, SoundEntries
<1>4. Distinct(live.entries)
  BY <1>1, <1>2, <1>3, OrderedDistinct
<1>5. live.used <= CacheCapacity
  BY <1>1, <1>2, <1>3, AloneAssumption
<1>6. Mine(live.entries, c_own)
  <2> SUFFICES ASSUME NEW p \in CachePages, c_own[p] \in Safe
               PROVE  \E e \in Members(live.entries) :
                         e.url = p /\ (e.hits > 0 \/ (c_own[p] = "fetched" /\ ~e.pushed))
    BY DEF Mine
  <2>1. PICK e \in Members(c_cache.entries) :
             e.url = p /\ (e.hits > 0 \/ (c_own[p] = "fetched" /\ ~e.pushed))
    BY <1>1 DEF Mine
  <2>2. e \in Alone!Entries
    BY <1>3, MembersType
  <2>3. ~Alone!Unread(e)
    BY <2>1, <2>2 DEF Alone!Unread, Alone!Entries
  <2>4. e \in Members(live.entries)
    BY <1>2, <2>3 DEF IsStale
  <2>5. QED
    BY <2>1, <2>4
<1>7. QED
  BY <1>2, <1>4, <1>5, <1>6 DEF live

\* The bytes of the pages that are not among these and have not expired.
Gone(pages, t) ==
    [e \in Alone!Entries |-> IF e.url \in pages \/ IsStale(e, t) THEN 0 ELSE CacheSize[e.body]]

\* The places of those pages.
GoneFrom(s, pages, t) == {i \in DOMAIN s : s[i].url \notin pages} \ Alone!Stale(s, t)

\* What the entries of the missing pages weigh is a sum the cache works with.
LEMMA GoneIs ==
    ASSUME NEW pages, NEW t
    PROVE  /\ Gone(pages, t) \in [Alone!Entries -> Nat]
           /\ \A s \in Seq(Alone!Entries) :
                 Alone!BytesAt(s, GoneFrom(s, pages, t)) = Weighed(s, Gone(pages, t))
<1>1. \A e \in Alone!Entries : CacheSize[e.body] \in Nat
  BY AloneAssumption DEF Alone!Entries
<1> HIDE DEF Alone!Entries
<1>2. Gone(pages, t) \in [Alone!Entries -> Nat]
  BY <1>1 DEF Gone
<1>3. ASSUME NEW s \in Seq(Alone!Entries)
      PROVE  Alone!BytesAt(s, GoneFrom(s, pages, t)) = Weighed(s, Gone(pages, t))
  <2> DEFINE P == GoneFrom(s, pages, t)
  <2>1. \A i \in DOMAIN s :
           s[i] \in Alone!Entries /\ (i \in P <=> ~(s[i].url \in pages \/ IsStale(s[i], t)))
    BY DEF GoneFrom, IsStale, Alone!Stale
  <2> HIDE DEF P
  <2>2. \A i \in DOMAIN s : (IF i \in P THEN CacheSize[s[i].body] ELSE 0) = Gone(pages, t)[s[i]]
    BY <2>1 DEF Gone
  <2>3. [i \in DOMAIN s |-> IF i \in P THEN CacheSize[s[i].body] ELSE 0]
          = [i \in DOMAIN s |-> Gone(pages, t)[s[i]]]
    BY <2>2
  <2>4. Alone!BytesAt(s, P) = Weighed(s, Gone(pages, t))
    BY <2>3 DEF Alone!BytesAt, Weighed
  <2>5. QED
    BY <2>4 DEF P
<1>4. QED
  BY <1>2, <1>3

\* What a put of an entry that fits comes to.
PutOutcome(e, new, next) ==
    LET live == Alone!Expire(c_cache, c_now)
    IN  /\ new.url = e.url /\ new.pushed = e.pushed
        /\ Sound(next) /\ next.used <= CacheCapacity /\ next.pushHits = c_cache.pushHits
        /\ Ordered(next.entries, [c_lastUse EXCEPT ![e.url] = c_ops + 1])
        /\ new \in Members(next.entries)
        /\ \A o \in Members(live.entries) :
              o.url = e.url /\ e.pushed /\ o.hits > 0 => new.hits > 0
        /\ \A o \in Members(next.entries) :
              o = new \/ (o \in Members(live.entries) /\ o.url # e.url)
        /\ \/ \A o \in Members(live.entries) : o.url # e.url => o \in Members(next.entries)
           \/ Weighed(next.entries, Bytes)
                + Weighed(c_cache.entries, Gone(PagesOf(next.entries), c_now)) > CacheCapacity

\* put altogether: expire, store, evict; a page that left was stale or there was no room for it.
LEMMA PutIs ==
    ASSUME CacheInv, ~c_finished, NEW e \in Alone!Entries, CacheSize[e.body] <= CacheCapacity
    PROVE  \E new \in Alone!Entries : PutOutcome(e, new, Alone!Put(c_cache, e, c_now))
<1> DEFINE live == Alone!Expire(c_cache, c_now)
<1> DEFINE new == NewEntry(live, e, c_now)
<1> DEFINE mid == WithNew(live, e, c_now)
<1> DEFINE next == Alone!Evict(mid)
<1> DEFINE rank == [c_lastUse EXCEPT ![e.url] = c_ops + 1]
<1> DEFINE m == mid.entries
<1>1. /\ Sound(live) /\ live.pushHits = c_cache.pushHits
      /\ Ordered(live.entries, c_lastUse) /\ Distinct(live.entries)
      /\ \A o \in Members(live.entries) : ~IsStale(o, c_now)
      /\ \A weight \in [Alone!Entries -> Nat] :
            Weighed(live.entries, weight) <= Weighed(c_cache.entries, weight)
  BY LiveStep
<1>2. /\ c_now \in Nat /\ c_ops \in Nat /\ c_lastUse \in [CachePages -> Nat]
      /\ \A p \in CachePages : c_lastUse[p] <= c_ops
      /\ CacheCapacity \in Nat /\ e.url \in CachePages
  BY AloneAssumption DEF CacheInv, Alone!Entries
<1>3. /\ new \in Alone!Entries
      /\ new.url = e.url /\ new.body = e.body /\ new.pushed = e.pushed
      /\ \A o \in Members(live.entries) :
            o.url = e.url /\ e.pushed /\ o.hits > 0 => new.hits > 0
  <2> HIDE DEF live, new, Alone!Entries
  <2>1. QED
    BY <1>1, <1>2, NewEntryIs DEF new
<1>4. Sound(mid) /\ mid.pushHits = live.pushHits /\ m = Renewed(live.entries, new)
  <2> HIDE DEF live, Alone!Entries
  <2>1. QED
    BY <1>1, <1>2, WithNewIs
<1>5. Alone!Put(c_cache, e, c_now) = next
  <2>1. Append(Alone!Without(live.entries, e.url), new) = Renewed(live.entries, new)
    BY <1>3 DEF Renewed
  <2>2. ~(CacheSize[e.body] > CacheCapacity)
    <3>1. CacheSize[e.body] \in Nat
      BY AloneAssumption DEF Alone!Entries
    <3>2. QED
      BY <1>2, <3>1
  <2>3. QED
    BY <2>1, <2>2 DEF Alone!Put, WithNew, NewEntry
<1>6. live.entries \in Seq(Alone!Entries) /\ m \in Seq(Alone!Entries)
      /\ c_cache.entries \in Seq(Alone!Entries)
  <2>1. Sound(c_cache)
    BY DEF CacheInv
  <2>2. QED
    BY <1>1, <1>4, <2>1, SoundEntries
<1> HIDE DEF live, new, mid, next, m
<1>7. /\ Members(m) = {o \in Members(live.entries) : o.url # new.url} \cup {new}
      /\ m[Len(m)] = new
      /\ Ordered(m, rank)
  <2>1. \A p \in CachePages : c_lastUse[p] < c_ops + 1
    BY <1>2
  <2>2. c_ops + 1 \in Nat
    BY <1>2
  <2> HIDE DEF Alone!Entries, rank
  <2>3. /\ Renewed(live.entries, new)[Len(Renewed(live.entries, new))] = new
        /\ Members(Renewed(live.entries, new))
             = {o \in Members(live.entries) : o.url # new.url} \cup {new}
    BY <1>1, <1>3, <1>6, RenewedIs
  <2>4. Ordered(Renewed(live.entries, new), [c_lastUse EXCEPT ![new.url] = c_ops + 1])
    BY <1>1, <1>2, <1>3, <1>6, <2>1, <2>2, RenewedIs
  <2>5. QED
    BY <1>3, <1>4, <2>3, <2>4 DEF rank
<1>8. m # <<>> /\ Bytes[m[Len(m)]] <= CacheCapacity
  <2>1. m # <<>>
    BY <1>4 DEF Renewed
  <2>2. Bytes[new] = CacheSize[new.body]
    BY <1>3 DEF Bytes
  <2>3. QED
    BY <1>3, <1>7, <2>1, <2>2
<1>9. PICK n \in 0..(Len(m) - 1) : EvictedAt(mid, n)
  BY <1>4, <1>8, EvictStops DEF m
<1>10. /\ Sound(next) /\ next.used <= CacheCapacity /\ next.pushHits = mid.pushHits
       /\ next.entries = SubSeq(m, n + 1, Len(m))
  BY <1>4, <1>9, EvictIs DEF m, next
<1>11. Len(m) \in Nat /\ n \in 0..Len(m) /\ Len(m) \in (n + 1)..Len(m)
       /\ \A i \in (n + 1)..Len(m) : i \in 1..Len(m)
  <2>1. Len(m) \in Nat
    BY <1>6
  <2>2. QED
    BY <2>1
<1>12. /\ Ordered(next.entries, rank)
       /\ Members(next.entries) = {m[i] : i \in (n + 1)..Len(m)}
       /\ Members(SubSeq(m, 1, n)) = {m[i] : i \in 1..n}
  BY <1>6, <1>7, <1>10, <1>11, OrderedRest
<1>13. new \in Members(next.entries) /\ Members(next.entries) \subseteq Members(m)
  BY <1>7, <1>11, <1>12 DEF Members
<1>14. CASE n = 0
  <2>1. Members(next.entries) = Members(m)
    <3>1. (n + 1)..Len(m) = 1..Len(m)
      BY <1>14
    <3>2. QED
      BY <1>12, <3>1 DEF Members
  <2>2. \A o \in Members(live.entries) : o.url # e.url => o \in Members(next.entries)
    BY <1>3, <1>7, <2>1
  <2>3. PutOutcome(e, new, next)
    BY <1>1, <1>3, <1>4, <1>7, <1>10, <1>12, <1>13, <2>2 DEF PutOutcome, live, rank
  <2>4. QED
    BY <1>3, <1>5, <2>3
<1>15. CASE n > 0
  <2> DEFINE front == SubSeq(m, 1, n)
  <2> DEFINE rest == SubSeq(m, n + 1, Len(m))
  <2> DEFINE gone == Gone(PagesOf(rest), c_now)
  <2>1. /\ front \in Seq(Alone!Entries) /\ rest \in Seq(Alone!Entries)
        /\ \A weight \in [Alone!Entries -> Nat] :
              Weighed(m, weight) = Weighed(front, weight) + Weighed(rest, weight)
    BY <1>6, <1>11, WeighedSplit
  <2>2. gone \in [Alone!Entries -> Nat]
    BY GoneIs
  <2>3. Weighed(m, Bytes) > CacheCapacity
    BY <1>4, <1>9, <1>15 DEF EvictedAt, Sound, m
  <2>4. Weighed(front, Bytes) = Weighed(front, gone)
    <3>1. DOMAIN front = 1..n /\ \A i \in 1..n : front[i] = m[i] /\ i \in 1..Len(m) /\ m[i] \in Alone!Entries
      BY <1>6, <1>11
    <3>2. Distinct(m)
      <4>1. rank \in [CachePages -> Nat]
        BY <1>2
      <4>2. QED
        BY <1>6, <1>7, <4>1, OrderedDistinct
    <3>3. PagesOf(rest) = {m[i].url : i \in (n + 1)..Len(m)}
      <4>1. PagesOf(rest) = {o.url : o \in Members(rest)}
        BY <2>1, MembersType
      <4>2. QED
        BY <1>10, <1>12, <4>1
    <3>4. \A i \in 1..n, j \in (n + 1)..Len(m) : i # j
      BY <1>11
    <3>5. \A i \in 1..n : m[i].url \notin PagesOf(rest)
      BY <1>11, <3>1, <3>2, <3>3, <3>4 DEF Distinct
    <3>6. \A i \in 1..n : ~IsStale(m[i], c_now)
      <4>1. new.url \in PagesOf(rest)
        BY <1>7, <1>11, <3>3
      <4>2. \A i \in 1..n : m[i] # new
        BY <3>5, <4>1
      <4>3. \A i \in 1..n : m[i] \in Members(m)
        BY <3>1 DEF Members
      <4>4. QED
        BY <1>1, <1>7, <4>2, <4>3
    <3> HIDE DEF front, rest, Alone!Entries
    <3>7. \A i \in DOMAIN front : Bytes[front[i]] = gone[front[i]]
      BY <3>1, <3>5, <3>6 DEF Bytes, Gone
    <3> HIDE DEF gone
    <3>8. QED
      BY <3>7, WeighedSame
  <2>5. Weighed(m, gone) <= Weighed(live.entries, gone)
    <3>1. gone[new] = 0
      <4>1. new.url \in PagesOf(rest)
        <5>1. PagesOf(rest) = {o.url : o \in Members(rest)}
          BY <2>1, MembersType
        <5>2. new \in Members(rest)
          BY <1>10, <1>13
        <5> HIDE DEF rest
        <5>3. QED
          BY <5>1, <5>2
      <4> HIDE DEF rest, Alone!Entries
      <4>2. QED
        BY <1>3, <4>1 DEF Gone
    <3> HIDE DEF gone
    <3>2. {Weighed(m, gone), Weighed(live.entries, gone)} \subseteq Nat
      BY <1>6, <2>2, WeighedNat
    <3>3. CASE new.url \in PagesOf(live.entries)
      <4>1. PICK o \in Members(live.entries) : o.url = new.url
        BY <3>3 DEF Members, PagesOf
      <4>2. gone[o] \in Nat
        <5>1. o \in Alone!Entries
          BY <1>6, MembersType
        <5>2. QED
          BY <2>2, <5>1
      <4>3. Weighed(m, gone) + gone[o] = Weighed(live.entries, gone) + gone[new]
        <5>1. live.entries \in Seq(Alone!Entries) /\ Distinct(live.entries) /\ new \in Alone!Entries
          BY <1>1, <1>3, <1>6
        <5>2. \A l \in Members(live.entries), weight \in [Alone!Entries -> Nat] :
                 l.url = new.url =>
                    Weighed(Renewed(live.entries, new), weight) + weight[l]
                      = Weighed(live.entries, weight) + weight[new]
          BY <5>1, RenewedIs
        <5>3. m = Renewed(live.entries, new)
          BY <1>4
        <5>4. QED
          BY <2>2, <4>1, <5>2, <5>3
      <4>4. QED
        BY <3>1, <3>2, <4>2, <4>3
    <3>4. CASE new.url \notin PagesOf(live.entries)
      <4>1. Weighed(m, gone) = Weighed(live.entries, gone) + gone[new]
        BY <1>1, <1>3, <1>4, <1>6, <2>2, <3>4, RenewedIs, SMTT(20)
      <4>2. QED
        BY <3>1, <3>2, <4>1
    <3>5. QED
      BY <3>3, <3>4
  <2>6. Weighed(rest, Bytes) + Weighed(c_cache.entries, gone) > CacheCapacity
    <3>1. /\ Weighed(m, gone) = Weighed(front, gone) + Weighed(rest, gone)
          /\ Weighed(m, Bytes) = Weighed(front, Bytes) + Weighed(rest, Bytes)
      BY <2>1, <2>2, WeightTypes
    <3>2. Weighed(live.entries, gone) <= Weighed(c_cache.entries, gone)
      BY <1>1, <2>2
    <3>3. {Weighed(front, gone), Weighed(rest, gone), Weighed(m, gone),
           Weighed(live.entries, gone), Weighed(c_cache.entries, gone)} \subseteq Nat
      <4> HIDE DEF front, rest, gone
      <4>1. Weighed(front, gone) \in Nat /\ Weighed(rest, gone) \in Nat
        BY <2>1, <2>2, WeighedNat
      <4>2. Weighed(m, gone) \in Nat /\ Weighed(live.entries, gone) \in Nat
            /\ Weighed(c_cache.entries, gone) \in Nat
        BY <1>6, <2>2, WeighedNat
      <4>3. QED
        BY <4>1, <4>2
    <3>4. {Weighed(front, Bytes), Weighed(rest, Bytes), Weighed(m, Bytes)} \subseteq Nat
      <4> HIDE DEF front, rest
      <4>1. Weighed(front, Bytes) \in Nat /\ Weighed(rest, Bytes) \in Nat
        BY <2>1, WeightTypes, WeighedNat
      <4>2. Weighed(m, Bytes) \in Nat
        BY <1>6, WeightTypes, WeighedNat
      <4>3. QED
        BY <4>1, <4>2
    <3> HIDE DEF front, rest, gone
    <3>5. Weighed(front, gone) <= Weighed(c_cache.entries, gone)
      BY <2>5, <3>1, <3>2, <3>3
    <3>6. QED
      BY <1>2, <2>3, <2>4, <3>1, <3>3, <3>4, <3>5
  <2>7. PutOutcome(e, new, next)
    <3>1. Weighed(next.entries, Bytes)
            + Weighed(c_cache.entries, Gone(PagesOf(next.entries), c_now)) > CacheCapacity
      BY <1>10, <2>6
    <3>2. QED
      BY <1>1, <1>3, <1>4, <1>7, <1>10, <1>12, <1>13, <3>1 DEF PutOutcome, live, rank
  <2>8. QED
    BY <1>3, <1>5, <2>7
<1>16. QED
  <2>1. n = 0 \/ n > 0
    BY <1>11
  <2>2. QED
    BY <1>14, <1>15, <2>1
-----------------------------------------------------------------------------
(* The calls of the cache. *)

\* The cache holds the pages of its entries.
LEMMA HeldPages ==
    ASSUME NEW c, c.entries \in Seq(Alone!Entries)
    PROVE  Alone!Urls(c) = {e.url : e \in Members(c.entries)}
<1>1. DOMAIN c.entries = 1..Len(c.entries)
  OBVIOUS
<1>2. QED
  BY <1>1 DEF Alone!Urls, Members

\* Every page that has not expired is still held.
Stays ==
    \A o \in Members(c_cache.entries) : ~IsStale(o, c_now) => o.url \in Alone!Urls(c_cache')

\* A page is served for the first time within its TTL.
InTime ==
    c_cache'.pushHits > c_cache.pushHits /\ CacheTtl > 0 =>
        c_cache'.entries[Len(c_cache'.entries)].storedAt + CacheTtl >= c_now

\* Otherwise there was no room.
ForRoom == Stays \/ Alone!RoomNeeded

\* What each step keeps.
Kind == CacheInv' /\ InTime /\ ForRoom

\* A call that only expires: a peek, a miss, a put that does not fit.
LEMMA ExpiredKeeps ==
    ASSUME CacheInv, ~c_finished, NEW n \in Nat, NEW own \in [CachePages -> {"not", "fetched", "covered", "opened"}],
           c_cache' = [Alone!Expire(c_cache, c_now) EXCEPT !.misses = @ + n],
           c_own' = [q \in CachePages |-> IF q \notin Alone!Urls(c_cache') THEN "not" ELSE own[q]],
           \A q \in CachePages : q \in Alone!Urls(c_cache') => own[q] = c_own[q],
           c_ops' = c_ops + 1, UNCHANGED <<c_now, c_lastUse, c_finished>>
    PROVE  Kind
<1> DEFINE live == Alone!Expire(c_cache, c_now)
<1>1. /\ Sound(live) /\ live.used <= CacheCapacity /\ live.pushHits = c_cache.pushHits
      /\ Ordered(live.entries, c_lastUse) /\ Mine(live.entries, c_own)
      /\ Members(live.entries) = {o \in Members(c_cache.entries) : ~IsStale(o, c_now)}
  BY LiveStep
<1>2. c_cache' = [live EXCEPT !.misses = @ + n]
  OBVIOUS
<1> HIDE DEF live
<1>3. /\ Sound(c_cache') /\ c_cache'.used = live.used /\ c_cache'.entries = live.entries
      /\ c_cache'.pushHits = live.pushHits
  <2>1. live \in CacheType
    BY <1>1 DEF Sound
  <2>2. c_cache' \in CacheType
    <3>1. live.misses + n \in Nat
      BY <2>1 DEF CacheType
    <3>2. c_cache' = [entries |-> live.entries, used |-> live.used, hits |-> live.hits,
                      misses |-> live.misses + n, pushHits |-> live.pushHits,
                      pushedBytes |-> live.pushedBytes, wastedBytes |-> live.wastedBytes,
                      expiredBytes |-> live.expiredBytes]
      BY <1>2, <2>1 DEF CacheType
    <3>3. /\ live.entries \in Seq(Alone!Entries)
          /\ {live.used, live.hits, live.pushHits, live.pushedBytes, live.wastedBytes,
              live.expiredBytes} \subseteq Nat
      BY <2>1 DEF CacheType
    <3> DEFINE misses == live.misses + n
    <3>4. misses \in Nat
      BY <3>1
    <3> HIDE DEF misses
    <3>5. [entries |-> live.entries, used |-> live.used, hits |-> live.hits, misses |-> misses,
           pushHits |-> live.pushHits, pushedBytes |-> live.pushedBytes,
           wastedBytes |-> live.wastedBytes, expiredBytes |-> live.expiredBytes] \in CacheType
      BY <2>1, <3>4 DEF CacheType
    <3>6. QED
      BY <3>2, <3>5 DEF misses
  <2>3. /\ c_cache'.used = live.used /\ c_cache'.entries = live.entries
        /\ c_cache'.pushHits = live.pushHits /\ c_cache'.pushedBytes = live.pushedBytes
        /\ c_cache'.wastedBytes = live.wastedBytes /\ c_cache'.expiredBytes = live.expiredBytes
    BY <1>2, <2>1 DEF CacheType
  <2>4. QED
    BY <1>1, <2>2, <2>3 DEF Sound
<1>4. Stays
  <2>1. c_cache'.entries \in Seq(Alone!Entries)
    BY <1>3, SoundEntries
  <2>2. Alone!Urls(c_cache') = {e.url : e \in Members(c_cache'.entries)}
    BY <2>1, HeldPages
  <2>3. QED
    BY <1>1, <1>3, <2>2 DEF Stays
<1>5. /\ c_own' \in [CachePages -> {"not", "fetched", "covered", "opened"}]
      /\ \A q \in CachePages : c_own'[q] \in Safe => c_own'[q] = c_own[q]
  BY DEF Safe
<1>6. CacheInv'
  <2>1. c_ops + 1 \in Nat /\ \A p \in CachePages : c_lastUse[p] <= c_ops + 1
    BY DEF CacheInv
  <2>2. Mine(c_cache'.entries, c_own')
    <3>1. \A q \in CachePages : c_own'[q] \in Safe => c_own[q] = c_own'[q]
      BY <1>5
    <3>2. QED
      BY <1>1, <1>3, <3>1 DEF Mine
  <2>3. QED
    BY <1>1, <1>3, <1>5, <2>1, <2>2 DEF CacheInv
<1>7. InTime
  <2>1. c_cache.pushHits \in Nat
    BY SoundEntries DEF CacheInv
  <2>2. ~(c_cache'.pushHits > c_cache.pushHits)
    BY <1>1, <1>3, <2>1
  <2>3. QED
    BY <2>2 DEF InTime
<1>8. QED
  BY <1>4, <1>6, <1>7 DEF Kind, ForRoom

\* A page that is put or opened comes last, is used last, and is the reader's as it was used.
LEMMA HitKeeps ==
    ASSUME CacheInv, ~c_finished, NEW p \in CachePages,
           p \in Alone!Urls(Alone!Expire(c_cache, c_now)),
           c_cache' = Alone!Hit(Alone!Expire(c_cache, c_now), p),
           c_ops' = c_ops + 1, UNCHANGED <<c_now, c_finished>>,
           Alone!Keep(p, "opened"), Alone!Use(p)
    PROVE  Kind
<1> DEFINE live == Alone!Expire(c_cache, c_now)
<1>1. /\ Sound(live) /\ live.used <= CacheCapacity /\ live.pushHits = c_cache.pushHits
      /\ Members(live.entries) = {o \in Members(c_cache.entries) : ~IsStale(o, c_now)}
      /\ Ordered(live.entries, c_lastUse) /\ Distinct(live.entries)
      /\ Mine(live.entries, c_own)
  BY LiveStep
<1>2. /\ c_now \in Nat /\ c_ops \in Nat /\ c_finished = FALSE
      /\ c_own \in [CachePages -> {"not", "fetched", "covered", "opened"}]
      /\ c_lastUse \in [CachePages -> Nat] /\ \A q \in CachePages : c_lastUse[q] <= c_ops
      /\ CacheTtl \in Nat
  BY AloneAssumption DEF CacheInv
<1>3. c_cache' = Alone!Hit(live, p) /\ p \in Alone!Urls(live)
  OBVIOUS
<1> HIDE DEF live
<1>4. live.entries \in Seq(Alone!Entries)
  BY <1>1, SoundEntries
<1>5. PICK e \in Members(live.entries) : e.url = p
  BY <1>3, <1>4, HeldPages
<1> DEFINE new == Opened(e)
<1>6. /\ Sound(c_cache') /\ c_cache'.used = live.used
      /\ new \in Alone!Entries /\ new.url = p /\ new.hits > 0
      /\ c_cache'.entries = Renewed(live.entries, new)
      /\ c_cache'.pushHits > live.pushHits => Alone!Unread(e)
  <2> HIDE DEF Alone!Entries
  <2>1. QED
    BY <1>1, <1>3, <1>5, HitIs
<1>7. e \in Alone!Entries /\ new.storedAt = e.storedAt
  <2>1. e \in Alone!Entries
    BY <1>4, <1>5, MembersType
  <2>2. QED
    BY <2>1 DEF Opened, Alone!Entries
<1> HIDE DEF new
<1>8. /\ c_cache'.entries[Len(c_cache'.entries)] = new
      /\ Members(c_cache'.entries) = {o \in Members(live.entries) : o.url # p} \cup {new}
  BY <1>1, <1>4, <1>6, RenewedIs
<1>9. Ordered(c_cache'.entries, [c_lastUse EXCEPT ![p] = c_ops + 1])
  <2>1. (\A q \in CachePages : c_lastUse[q] < c_ops + 1) /\ c_ops + 1 \in Nat
    BY <1>2
  <2> HIDE DEF Alone!Entries
  <2>2. Ordered(Renewed(live.entries, new), [c_lastUse EXCEPT ![new.url] = c_ops + 1])
    BY <1>1, <1>2, <1>4, <1>6, <2>1, RenewedIs
  <2>3. QED
    BY <1>6, <2>2
<1>10. Alone!Urls(c_cache') = {o.url : o \in Members(c_cache'.entries)}
  <2>1. c_cache'.entries \in Seq(Alone!Entries)
    BY <1>6, SoundEntries
  <2>2. QED
    BY <2>1, HeldPages
<1>11. p \in Alone!Urls(c_cache')
  BY <1>6, <1>8, <1>10
<1>12. /\ c_lastUse' = [c_lastUse EXCEPT ![p] = c_ops + 1]
       /\ c_own' = [q \in CachePages |-> IF q \notin Alone!Urls(c_cache') THEN "not"
                                         ELSE IF q = p THEN "opened" ELSE c_own[q]]
  BY <1>11 DEF Alone!Keep, Alone!Use, Alone!Urls
<1>13. c_own' \in [CachePages -> {"not", "fetched", "covered", "opened"}] /\ c_own'[p] = "opened"
       /\ \A q \in CachePages : q # p /\ c_own'[q] # "not" => c_own'[q] = c_own[q]
  BY <1>2, <1>11, <1>12
<1>14. Mine(c_cache'.entries, c_own')
  <2> SUFFICES ASSUME NEW q \in CachePages, c_own'[q] \in Safe
               PROVE  \E o \in Members(c_cache'.entries) :
                         o.url = q /\ (o.hits > 0 \/ (c_own'[q] = "fetched" /\ ~o.pushed))
    BY DEF Mine
  <2>1. CASE q = p
    BY <1>6, <1>8, <2>1
  <2>2. CASE q # p
    <3>1. c_own'[q] = c_own[q]
      BY <1>13, <2>2 DEF Safe
    <3>2. PICK o \in Members(live.entries) :
               o.url = q /\ (o.hits > 0 \/ (c_own[q] = "fetched" /\ ~o.pushed))
      BY <1>1, <3>1 DEF Mine
    <3>3. o \in Members(c_cache'.entries)
      BY <1>8, <2>2, <3>2
    <3>4. QED
      BY <3>1, <3>2, <3>3
  <2>3. QED
    BY <2>1, <2>2
<1>15. CacheInv'
  <2>1. /\ c_ops + 1 \in Nat
        /\ c_lastUse' \in [CachePages -> Nat] /\ \A q \in CachePages : c_lastUse'[q] <= c_ops + 1
    BY <1>2, <1>12
  <2>2. c_cache'.used <= CacheCapacity /\ c_finished' = FALSE /\ c_now' = c_now /\ c_ops' = c_ops + 1
    BY <1>1, <1>2, <1>6
  <2> HIDE DEF Alone!Entries
  <2>3. QED
    BY <1>2, <1>6, <1>9, <1>12, <1>13, <1>14, <2>1, <2>2 DEF CacheInv
<1>16. Stays
  BY <1>1, <1>8, <1>10, <1>11 DEF Stays
<1>17. InTime
  <2> SUFFICES ASSUME c_cache'.pushHits > c_cache.pushHits, CacheTtl > 0
               PROVE  new.storedAt + CacheTtl >= c_now
    BY <1>8 DEF InTime
  <2>1. Alone!Unread(e) /\ ~IsStale(e, c_now)
    BY <1>1, <1>5, <1>6
  <2>2. ~(e.storedAt < c_now - CacheTtl) /\ e.storedAt \in Nat
    BY <1>7, <2>1 DEF IsStale, Alone!Entries
  <2>3. QED
    BY <1>2, <1>7, <2>2
<1>18. QED
  BY <1>15, <1>16, <1>17 DEF Kind, ForRoom

\* A call that comes down to put keeps the invariant and each promise of the step.
LEMMA PutKeeps ==
    ASSUME CacheInv, ~c_finished, NEW e \in Alone!Entries, CacheSize[e.body] <= CacheCapacity,
           c_cache' = Alone!Put(c_cache, e, c_now),
           c_ops' = c_ops + 1, UNCHANGED <<c_now, c_finished>>, Alone!Use(e.url),
           Alone!Keep(e.url, IF ~e.pushed THEN "fetched"
                             ELSE IF c_own[e.url] = "fetched" THEN "covered" ELSE c_own[e.url])
    PROVE  Kind
<1> DEFINE live == Alone!Expire(c_cache, c_now)
<1> DEFINE p == e.url
<1> DEFINE how ==
      IF ~e.pushed THEN "fetched" ELSE IF c_own[p] = "fetched" THEN "covered" ELSE c_own[p]
<1>1. /\ Sound(live) /\ Distinct(live.entries) /\ Mine(live.entries, c_own)
      /\ Members(live.entries) = {o \in Members(c_cache.entries) : ~IsStale(o, c_now)}
  BY LiveStep
<1>2. /\ c_now \in Nat /\ c_ops \in Nat /\ c_finished = FALSE
      /\ c_own \in [CachePages -> {"not", "fetched", "covered", "opened"}]
      /\ c_lastUse \in [CachePages -> Nat] /\ \A q \in CachePages : c_lastUse[q] <= c_ops
      /\ c_cache.pushHits \in Nat /\ p \in CachePages
  <2>1. c_cache.pushHits \in Nat
    BY SoundEntries DEF CacheInv
  <2>2. QED
    BY <2>1 DEF CacheInv, Alone!Entries
<1>3. PICK new \in Alone!Entries : PutOutcome(e, new, c_cache')
  BY PutIs
<1>4. /\ new.url = p /\ new.pushed = e.pushed
      /\ Sound(c_cache') /\ c_cache'.used <= CacheCapacity /\ c_cache'.pushHits = c_cache.pushHits
      /\ Ordered(c_cache'.entries, [c_lastUse EXCEPT ![p] = c_ops + 1])
      /\ new \in Members(c_cache'.entries)
      /\ \A o \in Members(live.entries) : o.url = p /\ e.pushed /\ o.hits > 0 => new.hits > 0
      /\ \A o \in Members(c_cache'.entries) :
            o = new \/ (o \in Members(live.entries) /\ o.url # p)
      /\ \/ \A o \in Members(live.entries) : o.url # p => o \in Members(c_cache'.entries)
         \/ Weighed(c_cache'.entries, Bytes)
              + Weighed(c_cache.entries, Gone(PagesOf(c_cache'.entries), c_now)) > CacheCapacity
  BY <1>3 DEF PutOutcome
<1>u. Alone!Use(p) /\ Alone!Keep(p, how)
  OBVIOUS
<1> HIDE DEF live, p
<1>5. live.entries \in Seq(Alone!Entries) /\ c_cache'.entries \in Seq(Alone!Entries)
  BY <1>1, <1>4, SoundEntries
<1>6. Alone!Urls(c_cache') = {o.url : o \in Members(c_cache'.entries)}
  BY <1>5, HeldPages
<1>7. p \in Alone!Urls(c_cache')
  BY <1>4, <1>6
<1>8. /\ c_lastUse' = [c_lastUse EXCEPT ![p] = c_ops + 1]
      /\ c_own' = [q \in CachePages |-> IF q \notin Alone!Urls(c_cache') THEN "not"
                                        ELSE IF q = p THEN how ELSE c_own[q]]
  BY <1>7, <1>u DEF Alone!Keep, Alone!Use, Alone!Urls
<1>h. how \in {"not", "fetched", "covered", "opened"}
  BY <1>2
<1> HIDE DEF how
<1>9. c_own' \in [CachePages -> {"not", "fetched", "covered", "opened"}] /\ c_own'[p] = how
      /\ \A q \in CachePages : q # p /\ c_own'[q] # "not" =>
            c_own'[q] = c_own[q] /\ q \in Alone!Urls(c_cache')
  BY <1>2, <1>7, <1>8, <1>h
<1>10. Mine(c_cache'.entries, c_own')
  <2> SUFFICES ASSUME NEW q \in CachePages, c_own'[q] \in Safe
               PROVE  \E o \in Members(c_cache'.entries) :
                         o.url = q /\ (o.hits > 0 \/ (c_own'[q] = "fetched" /\ ~o.pushed))
    BY DEF Mine
  <2>1. CASE q = p
    <3>1. CASE ~e.pushed
      BY <1>4, <1>9, <2>1, <3>1 DEF how
    <3>2. CASE e.pushed
      <4>1. c_own[p] = "opened"
        BY <1>9, <2>1, <3>2 DEF how, Safe
      <4>2. PICK o \in Members(live.entries) : o.url = p /\ o.hits > 0
        BY <1>1, <1>2, <4>1 DEF Mine, Safe
      <4>3. new.hits > 0
        BY <1>4, <3>2, <4>2
      <4>4. QED
        BY <1>4, <2>1, <4>3
    <3>3. QED
      BY <3>1, <3>2
  <2>2. CASE q # p
    <3>1. c_own'[q] = c_own[q] /\ q \in Alone!Urls(c_cache')
      BY <1>9, <2>2 DEF Safe
    <3>2. PICK o \in Members(live.entries) :
               o.url = q /\ (o.hits > 0 \/ (c_own[q] = "fetched" /\ ~o.pushed))
      BY <1>1, <3>1 DEF Mine
    <3>3. PICK l \in Members(c_cache'.entries) : l.url = q
      BY <1>6, <3>1
    <3>4. l \in Members(live.entries)
      BY <1>4, <2>2, <3>3
    <3>5. l = o
      BY <1>1, <3>2, <3>3, <3>4 DEF Distinct, Members
    <3>6. QED
      BY <3>1, <3>2, <3>3, <3>5
  <2>3. QED
    BY <2>1, <2>2
<1>11. CacheInv'
  <2>1. /\ c_ops + 1 \in Nat
        /\ c_lastUse' \in [CachePages -> Nat] /\ \A q \in CachePages : c_lastUse'[q] <= c_ops + 1
    BY <1>2, <1>8
  <2>2. c_finished' = FALSE /\ c_now' = c_now /\ c_ops' = c_ops + 1
    BY <1>2
  <2> HIDE DEF Alone!Entries
  <2>3. QED
    BY <1>2, <1>4, <1>8, <1>9, <1>10, <2>1, <2>2 DEF CacheInv
<1>12. InTime
  BY <1>2, <1>4 DEF InTime
<1>13. ForRoom
  <2>1. CASE \A o \in Members(live.entries) : o.url # p => o \in Members(c_cache'.entries)
    <3>1. Stays
      BY <1>1, <1>6, <1>7, <2>1 DEF Stays
    <3>2. QED
      BY <3>1 DEF ForRoom
  <2>2. CASE Weighed(c_cache'.entries, Bytes)
               + Weighed(c_cache.entries, Gone(PagesOf(c_cache'.entries), c_now)) > CacheCapacity
    <3>1. c_cache.entries \in Seq(Alone!Entries)
      BY SoundEntries DEF CacheInv
    <3>2. PagesOf(c_cache'.entries) = Alone!Urls(c_cache')
      BY <1>5, <1>6, MembersType
    <3>3. Alone!BytesOf(c_cache'.entries) = Weighed(c_cache'.entries, Bytes)
      BY <1>5, SumsWeigh
    <3>4. Alone!BytesAt(c_cache.entries, GoneFrom(c_cache.entries, Alone!Urls(c_cache'), c_now))
            = Weighed(c_cache.entries, Gone(Alone!Urls(c_cache'), c_now))
      BY <3>1, GoneIs
    <3>5. GoneFrom(c_cache.entries, Alone!Urls(c_cache'), c_now) = Alone!Evicted
      BY DEF GoneFrom, Alone!Evicted, Alone!Gone
    <3>6. QED
      BY <2>2, <3>2, <3>3, <3>4, <3>5 DEF ForRoom, Alone!RoomNeeded
  <2>3. QED
    BY <1>4, <2>1, <2>2
<1>14. QED
  BY <1>11, <1>12, <1>13 DEF Kind

\* finalize counts what is unread as wasted and nothing may be called after it.
LEMMA FinalizeKeeps == ASSUME CacheInv, Alone!Finalize PROVE Kind
<1>1. Sound(c_cache) /\ ~c_finished
  BY DEF CacheInv, Alone!Finalize, Alone!Call
<1>2. /\ c_cache' = Alone!Finalized(c_cache) /\ c_finished' = TRUE /\ c_ops' = c_ops + 1
      /\ UNCHANGED <<c_now, c_own, c_lastUse>>
  BY DEF Alone!Finalize, Alone!Call
<1> DEFINE s == c_cache.entries
<1> DEFINE unread == Weighed(s, UnreadPart)
<1>3. s \in Seq(Alone!Entries) /\ unread \in Nat
  BY <1>1, SoundEntries
<1>4. Alone!UnreadBytes(s) = unread
  BY <1>3, SumsWeigh
<1>5. c_cache' = [c_cache EXCEPT !.wastedBytes = @ + unread]
  BY <1>2, <1>4 DEF Alone!Finalized
<1>6. /\ c_cache \in CacheType /\ c_cache.used = Weighed(s, Bytes)
      /\ c_cache.expiredBytes <= c_cache.wastedBytes
      /\ c_cache.wastedBytes + unread <= c_cache.pushedBytes
  BY <1>1 DEF Sound
<1> HIDE DEF s, unread
<1>7. {c_cache.used, c_cache.hits, c_cache.misses, c_cache.pushHits, c_cache.pushedBytes,
       c_cache.wastedBytes, c_cache.expiredBytes} \subseteq Nat /\ c_cache.entries = s
  BY <1>6 DEF CacheType, s
<1> DEFINE wasted == c_cache.wastedBytes + unread
<1>8. wasted \in Nat /\ c_cache.expiredBytes <= wasted
  BY <1>3, <1>6, <1>7
<1>9. c_cache' = [entries |-> s, used |-> c_cache.used, hits |-> c_cache.hits,
                  misses |-> c_cache.misses, pushHits |-> c_cache.pushHits,
                  pushedBytes |-> c_cache.pushedBytes, wastedBytes |-> wasted,
                  expiredBytes |-> c_cache.expiredBytes]
  BY <1>5, <1>6 DEF CacheType, s
<1>w. wasted <= c_cache.pushedBytes
  BY <1>6
<1> HIDE DEF wasted
<1>10. Closed(c_cache')
  <2>1. c_cache' \in CacheType
    BY <1>3, <1>7, <1>8, <1>9 DEF CacheType
  <2>2. QED
    BY <1>6, <1>8, <1>9, <1>w, <2>1 DEF Closed
<1>11. CacheInv'
  <2>1. /\ c_now \in Nat /\ c_ops + 1 \in Nat
        /\ c_own \in [CachePages -> {"not", "fetched", "covered", "opened"}]
        /\ c_lastUse \in [CachePages -> Nat] /\ \A p \in CachePages : c_lastUse[p] <= c_ops + 1
        /\ c_cache.used <= CacheCapacity /\ Ordered(s, c_lastUse) /\ Mine(s, c_own)
    BY <1>7 DEF CacheInv
  <2>2. c_cache'.entries = s /\ c_cache'.used = c_cache.used
    BY <1>9
  <2>3. QED
    BY <1>2, <1>10, <2>1, <2>2 DEF CacheInv
<1>12. InTime
  <2>1. c_cache'.pushHits = c_cache.pushHits
    BY <1>9
  <2>2. QED
    BY <1>7, <2>1 DEF InTime
<1>13. Stays
  <2>1. c_cache'.entries = s
    BY <1>9
  <2>2. Alone!Urls(c_cache') = {e.url : e \in Members(s)}
    BY <1>3, <2>1, HeldPages
  <2>3. c_cache.entries = s
    BY <1>7
  <2>4. QED
    BY <2>2, <2>3 DEF Stays
<1>14. QED
  BY <1>11, <1>12, <1>13 DEF Kind, ForRoom

\* Without a call the cache stays as it is.
LEMMA QuietKeeps ==
    ASSUME CacheInv, c_now' \in Nat, UNCHANGED <<c_cache, c_ops, c_own, c_lastUse, c_finished>>
    PROVE  Kind
<1>1. CacheInv'
  BY DEF CacheInv
<1>2. c_cache.entries \in Seq(Alone!Entries) /\ c_cache.pushHits \in Nat
  BY DEF CacheInv, Sound, Closed, CacheType
<1>3. InTime
  BY <1>2 DEF InTime
<1>4. Stays
  <2>1. Alone!Urls(c_cache') = {e.url : e \in Members(c_cache.entries)}
    BY <1>2, HeldPages
  <2>2. QED
    BY <2>1 DEF Stays
<1>5. QED
  BY <1>1, <1>3, <1>4 DEF Kind, ForRoom

\* Each operation keeps the invariant and the promises of its step.
LEMMA PutPageKeeps == ASSUME CacheInv, Alone!PutPage PROVE Kind
<1>1. PICK p \in CachePages, body \in DOMAIN CacheSize, push \in BOOLEAN :
        /\ c_cache' = Alone!Put(c_cache, [url |-> p, body |-> body, pushed |-> push,
                                          hits |-> 0, storedAt |-> c_now], c_now)
        /\ IF CacheSize[body] > CacheCapacity
           THEN UNCHANGED c_lastUse /\ Alone!Keep(p, c_own[p])
           ELSE Alone!Use(p) /\ Alone!Keep(p, IF ~push THEN "fetched"
                                              ELSE IF c_own[p] = "fetched" THEN "covered"
                                              ELSE c_own[p])
  BY DEF Alone!PutPage
<1>2. ~c_finished /\ c_ops' = c_ops + 1 /\ UNCHANGED <<c_now, c_finished>>
  BY DEF Alone!PutPage, Alone!Call
<1> DEFINE e == [url |-> p, body |-> body, pushed |-> push, hits |-> 0, storedAt |-> c_now]
<1>3. c_now \in Nat /\ CacheSize[body] \in Nat /\ CacheCapacity \in Nat
      /\ c_own \in [CachePages -> {"not", "fetched", "covered", "opened"}]
  BY AloneAssumption DEF CacheInv
<1>4. e \in Alone!Entries /\ e.url = p /\ e.body = body /\ e.pushed = push
  BY <1>3 DEF Alone!Entries
<1> HIDE DEF e
<1>5. CASE CacheSize[body] > CacheCapacity
  <2>1. c_cache' = Alone!Expire(c_cache, c_now)
    BY <1>1, <1>4, <1>5 DEF Alone!Put, e
  <2>2. c_cache' = [Alone!Expire(c_cache, c_now) EXCEPT !.misses = @ + 0]
    <3>1. Sound(Alone!Expire(c_cache, c_now))
      BY <1>2, LiveStep
    <3> DEFINE live == Alone!Expire(c_cache, c_now)
    <3>2. live \in CacheType
      BY <3>1 DEF Sound
    <3> HIDE DEF live
    <3>3. live = [live EXCEPT !.misses = @ + 0]
      <4>1. live.misses \in Nat /\ live = [live EXCEPT !.misses = live.misses]
        BY <3>2 DEF CacheType
      <4>2. live.misses + 0 = live.misses
        BY <4>1
      <4>3. QED
        BY <4>1, <4>2
    <3>4. QED
      BY <2>1, <3>3 DEF live
  <2>3. UNCHANGED c_lastUse /\ Alone!Keep(p, c_own[p])
    BY <1>1, <1>5
  <2>4. c_own' = [q \in CachePages |-> IF q \notin Alone!Urls(c_cache') THEN "not" ELSE c_own[q]]
    BY <2>3 DEF Alone!Keep, Alone!Urls
  <2>5. QED
    BY <1>2, <1>3, <2>2, <2>3, <2>4, ExpiredKeeps
<1>6. CASE ~(CacheSize[body] > CacheCapacity)
  <2>1. CacheSize[body] <= CacheCapacity
    BY <1>3, <1>6
  <2>2. QED
    BY <1>1, <1>2, <1>4, <1>6, <2>1, PutKeeps DEF e
<1>7. QED
  BY <1>5, <1>6

LEMMA GetPageKeeps == ASSUME CacheInv, Alone!GetPage PROVE Kind
<1>1. PICK p \in CachePages : /\ c_cache' = Alone!Get(c_cache, p, c_now)
                              /\ Alone!Keep(p, "opened") /\ Alone!Use(p)
  BY DEF Alone!GetPage
<1>2. ~c_finished /\ c_ops' = c_ops + 1 /\ UNCHANGED <<c_now, c_finished>>
  BY DEF Alone!GetPage, Alone!Call
<1> DEFINE live == Alone!Expire(c_cache, c_now)
<1>3. CASE p \in Alone!Urls(live)
  <2>1. c_cache' = Alone!Hit(live, p)
    BY <1>1, <1>3 DEF Alone!Get
  <2>2. QED
    BY <1>1, <1>2, <1>3, <2>1, HitKeeps
<1>4. CASE p \notin Alone!Urls(live)
  <2>1. c_cache' = [live EXCEPT !.misses = @ + 1]
    BY <1>1, <1>4 DEF Alone!Get
  <2>2. p \notin Alone!Urls(c_cache')
    <3>1. Sound(live)
      BY <1>2, LiveStep
    <3> HIDE DEF live
    <3>2. c_cache'.entries = live.entries
      BY <2>1, <3>1 DEF Sound, CacheType
    <3>3. QED
      BY <1>4, <3>2 DEF Alone!Urls
  <2>3. c_lastUse' = c_lastUse
    BY <1>1, <2>2 DEF Alone!Use, Alone!Urls
  <2> DEFINE own == [q \in CachePages |-> IF q = p THEN "opened" ELSE c_own[q]]
  <2>4. own \in [CachePages -> {"not", "fetched", "covered", "opened"}]
    BY DEF CacheInv
  <2>5. c_own' = [q \in CachePages |-> IF q \notin Alone!Urls(c_cache') THEN "not" ELSE own[q]]
    BY <1>1 DEF Alone!Keep, Alone!Urls
  <2>6. \A q \in CachePages : q \in Alone!Urls(c_cache') => own[q] = c_own[q]
    BY <2>2
  <2> HIDE DEF own, live
  <2>7. QED
    BY <1>2, <2>1, <2>3, <2>4, <2>5, <2>6, ExpiredKeeps DEF live
<1>5. QED
  BY <1>3, <1>4

LEMMA PeekPageKeeps == ASSUME CacheInv, Alone!PeekPage PROVE Kind
<1>1. /\ ~c_finished /\ c_ops' = c_ops + 1 /\ UNCHANGED <<c_now, c_lastUse, c_finished>>
      /\ c_cache' = Alone!Expire(c_cache, c_now)
  BY DEF Alone!PeekPage, Alone!Call
<1>2. PICK p \in CachePages : Alone!Keep(p, c_own[p])
  BY DEF Alone!PeekPage
<1> DEFINE live == Alone!Expire(c_cache, c_now)
<1>3. c_cache' = [live EXCEPT !.misses = @ + 0]
  <2>1. Sound(live)
    BY <1>1, LiveStep
  <2>2. live \in CacheType
    BY <2>1 DEF Sound
  <2> HIDE DEF live
  <2>3. live.misses \in Nat /\ live = [live EXCEPT !.misses = live.misses]
    BY <2>2 DEF CacheType
  <2>4. live.misses + 0 = live.misses
    BY <2>3
  <2>5. QED
    BY <1>1, <2>3, <2>4 DEF live
<1>4. c_own' = [q \in CachePages |-> IF q \notin Alone!Urls(c_cache') THEN "not" ELSE c_own[q]]
  BY <1>2 DEF Alone!Keep, Alone!Urls
<1>5. c_own \in [CachePages -> {"not", "fetched", "covered", "opened"}]
  BY DEF CacheInv
<1>6. QED
  BY <1>1, <1>3, <1>4, <1>5, ExpiredKeeps

LEMMA TickKeeps == ASSUME CacheInv, Alone!Tick PROVE Kind
<1>1. c_now' = c_now + 1 /\ UNCHANGED <<c_cache, c_ops, c_own, c_lastUse, c_finished>>
  BY DEF Alone!Tick
<1>2. c_now' \in Nat
  BY <1>1 DEF CacheInv
<1>3. QED
  BY <1>1, <1>2, QuietKeeps

\* A new cache keeps its books.
LEMMA CacheInit == ClientInit => CacheInv
<1> SUFFICES ASSUME ClientInit PROVE CacheInv
  OBVIOUS
<1>1. /\ c_cache = Alone!EmptyCache /\ c_now = 0 /\ c_ops = 0 /\ c_finished = FALSE
      /\ c_own = [p \in CachePages |-> "not"] /\ c_lastUse = [p \in CachePages |-> 0]
  BY DEF ClientInit, Alone!Init
<1>2. /\ c_cache.entries = <<>> /\ c_cache.used = 0 /\ c_cache.expiredBytes = 0
      /\ c_cache.wastedBytes = 0 /\ c_cache.pushedBytes = 0
  BY <1>1 DEF Alone!EmptyCache
<1>3. c_cache \in CacheType
  <2>1. <<>> \in Seq(Alone!Entries)
    OBVIOUS
  <2>2. QED
    BY <1>1, <2>1 DEF CacheType, Alone!EmptyCache
<1>4. Weighed(c_cache.entries, Bytes) = 0 /\ Weighed(c_cache.entries, UnreadPart) = 0
  BY <1>2, WeighedNone
<1>5. Sound(c_cache)
  BY <1>2, <1>3, <1>4 DEF Sound
<1>6. Ordered(c_cache.entries, c_lastUse)
  <2>1. Len(c_cache.entries) = 0
    BY <1>2
  <2>2. 1..Len(c_cache.entries) = {}
    BY <2>1
  <2>3. QED
    BY <2>2 DEF Ordered
<1>7. c_cache.used <= CacheCapacity
  BY <1>2, AloneAssumption
<1>8. Mine(c_cache.entries, c_own)
  BY <1>1 DEF Mine, Safe
<1>9. /\ c_lastUse \in [CachePages -> Nat] /\ \A p \in CachePages : c_lastUse[p] <= c_ops
      /\ c_own \in [CachePages -> {"not", "fetched", "covered", "opened"}]
      /\ c_now \in Nat /\ c_ops \in Nat /\ c_finished \in BOOLEAN
  <2>1. c_lastUse \in [CachePages -> Nat] /\ \A p \in CachePages : c_lastUse[p] <= c_ops
    BY <1>1
  <2>2. c_own \in [CachePages -> {"not", "fetched", "covered", "opened"}]
    BY <1>1
  <2>3. c_now \in Nat /\ c_ops \in Nat /\ c_finished \in BOOLEAN
    BY <1>1
  <2>4. QED
    BY <2>1, <2>2, <2>3
<1>10. QED
  BY <1>1, <1>5, <1>6, <1>7, <1>8, <1>9 DEF CacheInv

\* So does every step of the run, those of the proxy included, which leave this cache alone.
LEMMA CacheNext == CacheInv /\ [ClientNext]_AllVars => Kind
<1> SUFFICES ASSUME CacheInv, [ClientNext]_AllVars PROVE Kind
  OBVIOUS
<1>1. CASE Alone!PutPage
  BY <1>1, PutPageKeeps
<1>2. CASE Alone!GetPage
  BY <1>2, GetPageKeeps
<1>3. CASE Alone!PeekPage
  BY <1>3, PeekPageKeeps
<1>4. CASE Alone!Finalize
  BY <1>4, FinalizeKeeps
<1>5. CASE Alone!Tick
  BY <1>5, TickKeeps
<1>6. CASE UNCHANGED CacheVars
  <2>1. c_now' \in Nat /\ UNCHANGED <<c_cache, c_ops, c_own, c_lastUse, c_finished>>
    BY <1>6 DEF CacheVars, CacheInv
  <2>2. QED
    BY <2>1, QuietKeeps
<1>7. QED
  BY <1>1, <1>2, <1>3, <1>4, <1>5, <1>6
     DEF ClientNext, ProxyStep, CacheStep, Alone!Next, AllVars
-----------------------------------------------------------------------------
(* The cache's promises. *)

\* The book-keeping invariant holds in every state, and each call keeps its promises.
THEOREM CacheInvariance == ClientSpec => []CacheInv
<1>1. CacheInv /\ [ClientNext]_AllVars => CacheInv'
  BY CacheNext DEF Kind
<1>2. QED
  BY CacheInit, <1>1, PTL DEF ClientSpec

\* What the run checks is part of the invariant.
LEMMA CacheInvConsistent == CacheInv => Consistent /\ WasteBounded
<1> SUFFICES ASSUME CacheInv PROVE Consistent /\ WasteBounded
  OBVIOUS
<1> DEFINE s == c_cache.entries
<1>1. c_cache \in CacheType /\ c_cache.used = Weighed(s, Bytes)
      /\ c_cache.expiredBytes <= c_cache.wastedBytes
      /\ c_cache.wastedBytes + (IF c_finished THEN 0 ELSE Weighed(s, UnreadPart))
            <= c_cache.pushedBytes
  <2>1. CASE c_finished
    <3>1. Closed(c_cache)
      BY <2>1 DEF CacheInv
    <3>2. c_cache.wastedBytes \in Nat
      BY <3>1 DEF Closed, CacheType
    <3>3. QED
      BY <2>1, <3>1, <3>2 DEF Closed
  <2>2. CASE ~c_finished
    BY <2>2 DEF CacheInv, Sound
  <2>3. QED
    BY <2>1, <2>2
<1>2. s \in Seq(Alone!Entries) /\ DOMAIN s = 1..Len(s)
  <2>1. s \in Seq(Alone!Entries)
    BY <1>1 DEF CacheType
  <2>2. QED
    BY <2>1
<1>3. Alone!BytesOf(s) = Weighed(s, Bytes) /\ Alone!UnreadBytes(s) = Weighed(s, UnreadPart)
  BY <1>2, SumsWeigh
<1>4. c_lastUse \in [CachePages -> Nat] /\ Ordered(s, c_lastUse)
  BY DEF CacheInv
<1>5. Cardinality(PagesOf(s)) = Len(s)
  BY <1>2, <1>4, OrderedDistinct, PagesCounted
<1>6. Alone!Urls(c_cache) = PagesOf(s)
  BY <1>2 DEF Alone!Urls, PagesOf
<1>7. Alone!TypeOK
  <2>1. \A field \in DOMAIN c_cache \ {"entries"} : c_cache[field] \in Nat
    BY <1>1 DEF CacheType
  <2>2. QED
    BY <1>2, <2>1 DEF Alone!TypeOK, CacheInv
<1>8. Alone!Accounted
  <2>1. c_cache.used = Alone!BytesOf(s)
    BY <1>1, <1>3
  <2>2. c_cache.used <= CacheCapacity
    BY DEF CacheInv
  <2>3. Cardinality(Alone!Urls(c_cache)) = Len(s)
    BY <1>5, <1>6
  <2>4. Alone!Cardinality(Alone!Urls(c_cache)) = Cardinality(Alone!Urls(c_cache))
    BY DEF Alone!Cardinality, Cardinality
  <2>5. QED
    BY <2>1, <2>2, <2>3, <2>4 DEF Alone!Accounted
<1>9. Alone!RecencyOrder
  BY <1>2, <1>4 DEF Alone!RecencyOrder, Ordered
<1>10. WasteBounded
  BY <1>1, <1>3 DEF WasteBounded, Alone!WasteBounded
<1>11. QED
  BY <1>7, <1>8, <1>9, <1>10 DEF Consistent, Alone!Consistent

\* Whatever is put, opened, pushed again and evicted, and however many calls there are: used is
\* the bytes held, within the capacity, and the entries stand in the order of their last use.
THEOREM Accounts == ClientSpec => []Consistent
<1>1. CacheInv => Consistent
  BY CacheInvConsistent
<1>2. QED
  BY CacheInvariance, <1>1, PTL

\* No pushed byte is reported as wasted twice, or wasted when the page was opened.
THEOREM WastedOnce == ClientSpec => []WasteBounded
<1>1. CacheInv => WasteBounded
  BY CacheInvConsistent
<1>2. QED
  BY CacheInvariance, <1>1, PTL

\* A pushed page whose time has passed is gone before it can be opened for the first time.
THEOREM FirstServed == ClientSpec => ServedInTime
<1>1. CacheInv /\ [ClientNext]_AllVars => 
        [c_cache'.pushHits > c_cache.pushHits /\ CacheTtl > 0 =>
            Alone!Last(c_cache'.entries).storedAt + CacheTtl >= c_now]_CacheVars
  BY CacheNext DEF Kind, InTime, Alone!Last
<1>2. QED
  BY CacheInvariance, <1>1, PTL DEF ClientSpec, ServedInTime, Alone!ServedInTime, Alone!vars, CacheVars

\* What the reader fetched or opened and no push has covered is not stale.
LEMMA SafeNotStale ==
    ASSUME CacheInv, NEW i \in DOMAIN c_cache.entries,
           c_own[c_cache.entries[i].url] \in Safe
    PROVE  i \notin Alone!Stale(c_cache.entries, c_now)
<1> DEFINE o == c_cache.entries[i]
<1>1. /\ Mine(c_cache.entries, c_own) /\ Ordered(c_cache.entries, c_lastUse)
      /\ c_lastUse \in [CachePages -> Nat]
  BY DEF CacheInv
<1>2. c_cache.entries \in Seq(Alone!Entries)
  BY DEF CacheInv, Sound, Closed, CacheType
<1>3. Distinct(c_cache.entries)
  BY <1>1, <1>2, OrderedDistinct
<1>4. o \in Members(c_cache.entries) /\ o \in Alone!Entries /\ o.url \in CachePages
  <2>1. DOMAIN c_cache.entries = 1..Len(c_cache.entries)
    BY <1>2
  <2>2. o \in Alone!Entries
    BY <1>2
  <2>3. QED
    BY <2>1, <2>2 DEF Members, Alone!Entries
<1> HIDE DEF o
<1>5. PICK e \in Members(c_cache.entries) :
          e.url = o.url /\ (e.hits > 0 \/ (c_own[o.url] = "fetched" /\ ~e.pushed))
  BY <1>1, <1>4 DEF Mine, o
<1>6. e = o
  BY <1>3, <1>4, <1>5 DEF Distinct, Members
<1>7. ~Alone!Unread(o)
  BY <1>4, <1>5, <1>6 DEF Alone!Unread, Alone!Entries
<1>8. QED
  BY <1>7 DEF Alone!Stale, o

\* What the reader fetched or opened gives way to new pages only: never to time, and never to a
\* push that fits beside it.  Only a fetched copy that a push has replaced, and that has not been
\* opened since, may expire as well.
THEOREM OwnKept == ClientSpec => OwnPagesStay
<1>1. ASSUME CacheInv, [ClientNext]_AllVars
      PROVE  \A i \in Alone!Gone :
                c_own[c_cache.entries[i].url] # "not" =>
                   \/ Alone!RoomNeeded /\ i \in Alone!Evicted
                   \/ c_own[c_cache.entries[i].url] = "covered" /\ i \notin Alone!Evicted
  <2> SUFFICES ASSUME NEW i \in Alone!Gone, c_own[c_cache.entries[i].url] # "not"
               PROVE  \/ Alone!RoomNeeded /\ i \in Alone!Evicted
                      \/ c_own[c_cache.entries[i].url] = "covered" /\ i \notin Alone!Evicted
    OBVIOUS
  <2> DEFINE o == c_cache.entries[i]
  <2>1. i \in DOMAIN c_cache.entries /\ o.url \notin Alone!Urls(c_cache')
    BY <1>1 DEF Alone!Gone
  <2>2. c_cache.entries \in Seq(Alone!Entries)
        /\ c_own \in [CachePages -> {"not", "fetched", "covered", "opened"}]
    BY <1>1 DEF CacheInv, Sound, Closed, CacheType
  <2>3. o \in Members(c_cache.entries) /\ o.url \in CachePages
    <3>1. DOMAIN c_cache.entries = 1..Len(c_cache.entries) /\ o \in Alone!Entries
      BY <2>1, <2>2
    <3>2. QED
      BY <2>1, <3>1 DEF Members, Alone!Entries
  <2>4. CASE i \in Alone!Stale(c_cache.entries, c_now)
    <3>1. c_own[o.url] \notin Safe
      BY <1>1, <2>1, <2>4, SafeNotStale
    <3>2. c_own[o.url] = "covered"
      BY <2>2, <2>3, <3>1 DEF Safe
    <3>3. QED
      BY <2>4, <3>2 DEF Alone!Evicted
  <2>5. CASE i \notin Alone!Stale(c_cache.entries, c_now)
    <3>1. ~IsStale(o, c_now)
      BY <2>1, <2>5 DEF IsStale, Alone!Stale
    <3>2. Alone!RoomNeeded
      BY <1>1, <2>1, <2>3, <3>1, CacheNext DEF Kind, ForRoom, Stays
    <3>3. QED
      BY <2>5, <3>2 DEF Alone!Evicted
  <2>6. QED
    BY <2>4, <2>5
<1>2. CacheInv /\ [ClientNext]_AllVars =>
        [\A i \in Alone!Gone :
            c_own[c_cache.entries[i].url] # "not" =>
               \/ Alone!RoomNeeded /\ i \in Alone!Evicted
               \/ c_own[c_cache.entries[i].url] = "covered" /\ i \notin Alone!Evicted]_CacheVars
  BY <1>1
<1>3. QED
  BY CacheInvariance, <1>2, PTL DEF ClientSpec, OwnPagesStay, Alone!OwnPagesStay, Alone!vars, CacheVars

-----------------------------------------------------------------------------
(***************************************************************************)
(* What the browser can rely on, for any number of requests side by side   *)
(* and any pushes among them.                                              *)
(*                                                                         *)
(* Nothing here rests on what Put, Get and Expire do with the cache.  A    *)
(* request keeps the copy it found before it waited for the tunnel, so the *)
(* answer it waits for is about that copy (Confirmed); and a visit keeps   *)
(* the list of visited pages it read, which stays the list as long as no   *)
(* other visit is open (OneVisit, PastHolds).                              *)
(***************************************************************************)
\* A request is a record of what _fetch keeps across its await.
Shape(r) == [url |-> r.url, kind |-> r.kind, own |-> r.own, entry |-> r.entry,
             past |-> r.past, answer |-> r.answer]

Typed ==
    /\ fetch = [f \in Fetches |-> Shape(fetch[f])]
    /\ page_history \in Seq(Pages) /\ visits \in Seq(Pages)
    /\ \A f \in Fetches : fetch[f].past \in Seq(Pages)
    /\ \A f \in Fetches : fetch[f].kind = "visit" => fetch[f].url \in Pages
    /\ alone \in BOOLEAN

\* A 304 on its way to a request with no validator of the browser's own is
\* about the copy the request found.
Confirmed ==
    \A f \in Fetches :
        LET r == fetch[f]
        IN  r.answer # NoAnswer /\ r.answer.notModified /\ r.entry # NoEntry /\ r.own = None
                => r.answer.v = Version(r.entry)

\* As long as visits come one after the other, one is open at most.
OneVisit ==
    alone => \A f, g \in Fetches :
                fetch[f].kind = "visit" /\ fetch[g].kind = "visit" => f = g

\* ... and the list it read is still the list.
PastHolds ==
    alone => \A f \in Fetches :
                fetch[f].kind = "visit" => fetch[f].past = Recent(page_history)

IInv ==
    /\ Typed /\ Confirmed /\ OneVisit /\ PastHolds
    /\ ReadableOffline /\ OwnRevalidation /\ HistoryInOrder
-----------------------------------------------------------------------------
(* The last pages of a list. *)

\* Recent gives at most HistoryLen pages, counted from the end.
LEMMA RecentAt ==
    ASSUME NEW s \in Seq(Pages)
    PROVE  /\ Recent(s) \in Seq(Pages)
           /\ Len(Recent(s)) = Least2(Len(s), HistoryLen)
           /\ \A i \in 1..Least2(Len(s), HistoryLen) :
                 Recent(s)[i] = s[Len(s) - Least2(Len(s), HistoryLen) + i]
<1> DEFINE n == Least2(Len(s), HistoryLen)
<1>1. Len(s) \in Nat /\ HistoryLen \in Nat
  BY ProxyAssumption
<1>2. n \in Nat /\ n <= Len(s)
  BY <1>1 DEF Least2
<1>3. Recent(s) = SubSeq(s, Len(s) - n + 1, Len(s))
  BY DEF Recent
<1> HIDE DEF n
<1>4. \A i \in Len(s) - n + 1 .. Len(s) : i \in 1..Len(s)
  BY <1>1, <1>2
<1>5. Recent(s) \in Seq(Pages)
  BY <1>1, <1>2, <1>3, <1>4, SubSeqProperties
<1>6. Len(Recent(s)) = n
  BY <1>1, <1>2, <1>3
<1>7. \A i \in 1..n : Recent(s)[i] = s[Len(s) - n + i]
  BY <1>1, <1>2, <1>3
<1>8. QED
  BY <1>5, <1>6, <1>7 DEF n

\* The list the client keeps is cut before a page joins it; its last pages are
\* those of the whole list.
LEMMA RecentAppend ==
    ASSUME NEW s \in Seq(Pages), NEW p \in Pages
    PROVE  Recent(Append(Recent(s), p)) = Recent(Append(s, p))
<1> DEFINE cut == Append(Recent(s), p)
           all == Append(s, p)
           n == Least2(Len(s), HistoryLen)
<1>1. /\ Recent(s) \in Seq(Pages) /\ Len(Recent(s)) = n
      /\ \A i \in 1..n : Recent(s)[i] = s[Len(s) - n + i]
  BY RecentAt
<1>2. /\ cut \in Seq(Pages) /\ Len(cut) = n + 1 /\ cut[n + 1] = p
      /\ \A i \in 1..n : cut[i] = s[Len(s) - n + i]
  BY <1>1
<1>3. /\ all \in Seq(Pages) /\ Len(all) = Len(s) + 1 /\ all[Len(s) + 1] = p
      /\ \A i \in 1..Len(s) : all[i] = s[i]
  OBVIOUS
<1>4. Len(s) \in Nat /\ HistoryLen \in Nat
  BY ProxyAssumption
<1>5. n \in Nat /\ n <= Len(s) /\ n <= HistoryLen /\ (n = Len(s) \/ n = HistoryLen)
  BY <1>4 DEF Least2
<1> HIDE DEF cut, all, n
<1>6. Least2(Len(cut), HistoryLen) = Least2(Len(all), HistoryLen)
  BY <1>2, <1>3, <1>4, <1>5 DEF Least2
<1> DEFINE k == Least2(Len(cut), HistoryLen)
<1>7. k \in Nat /\ k <= n + 1
  BY <1>2, <1>4, <1>5 DEF Least2
<1>8. /\ Recent(cut) \in Seq(Pages) /\ Len(Recent(cut)) = k
      /\ \A i \in 1..k : Recent(cut)[i] = cut[Len(cut) - k + i]
  BY <1>2, RecentAt
<1>9. /\ Recent(all) \in Seq(Pages) /\ Len(Recent(all)) = k
      /\ \A i \in 1..k : Recent(all)[i] = all[Len(all) - k + i]
  BY <1>3, <1>6, RecentAt, SMTT(30)
<1> HIDE DEF k
<1>10. ASSUME NEW i \in 1..k PROVE Recent(cut)[i] = Recent(all)[i]
  <2>1. Recent(cut)[i] = cut[n + 1 - k + i] /\ Recent(all)[i] = all[Len(s) + 1 - k + i]
    <3>1. Recent(cut)[i] = cut[Len(cut) - k + i] /\ Recent(all)[i] = all[Len(all) - k + i]
      BY <1>8, <1>9
    <3>2. Len(cut) = n + 1 /\ Len(all) = Len(s) + 1
      BY <1>2, <1>3
    <3>3. QED
      BY ONLY <3>1, <3>2, <1>4, <1>5, <1>7, i \in 1..k
  <2>2. CASE i = k
    BY <2>1, <2>2, <1>2, <1>3, <1>4, <1>5, <1>7
  <2>3. CASE i # k
    <3>1. n + 1 - k + i \in 1..n /\ Len(s) + 1 - k + i \in 1..Len(s)
      BY <2>3, <1>4, <1>5, <1>7
    <3>2. Len(s) - n + (n + 1 - k + i) = Len(s) + 1 - k + i
      BY <1>4, <1>5, <1>7
    <3>3. QED
      BY <2>1, <3>1, <3>2, <1>2, <1>3
  <2>4. QED
    BY <2>2, <2>3
<1>11. Recent(cut) = Recent(all)
  BY <1>8, <1>9, <1>10, SeqEqual
<1>12. QED
  BY <1>11 DEF cut, all
-----------------------------------------------------------------------------
(* The steps. *)

LEMMA InitIInv == Init => IInv
<1> SUFFICES ASSUME Init PROVE IInv
  OBVIOUS
<1>1. \A f \in Fetches : fetch[f] = Quiet
  BY DEF Init
<1>2. Typed
  <2>1. fetch = [f \in Fetches |-> Shape(fetch[f])]
    <3>1. fetch = [f \in Fetches |-> Quiet]
      BY DEF Init
    <3>2. Shape(Quiet) = Quiet
      BY DEF Shape, Quiet
    <3>3. QED
      BY ONLY <3>1, <3>2, <1>1 DEF Shape
  <2>2. <<>> \in Seq(Pages)
    OBVIOUS
  <2>3. Quiet.past = <<>> /\ Quiet.kind = "none"
    BY DEF Quiet
  <2>4. page_history = <<>> /\ visits = <<>> /\ alone = TRUE
    BY DEF Init
  <2>5. QED
    BY ONLY <1>1, <2>1, <2>2, <2>3, <2>4 DEF Typed
<1>3. Confirmed /\ OneVisit /\ PastHolds
  BY <1>1 DEF Confirmed, OneVisit, PastHolds, Quiet
<1>4. ReadableOffline /\ OwnRevalidation /\ HistoryInOrder
  BY DEF Init, ReadableOffline, OwnRevalidation, HistoryInOrder
<1>5. QED
  BY <1>2, <1>3, <1>4 DEF IInv

\* A reply, from the copy found or the answer waited for, when the list of a
\* visit is the list of now.
LEMMA FinishKeeps ==
    ASSUME IInv, NEW f \in Fetches, NEW r, NEW source, NEW v, NEW confirmed,
           Finish(f, r, source, v, confirmed),
           r.past \in Seq(Pages),
           r.kind = "visit" => r.url \in Pages,
           alone' \in BOOLEAN, alone' => alone,
           alone' /\ r.kind = "visit" => /\ r.past = Recent(page_history)
                                         /\ \A g \in Fetches \ {f} : fetch[g].kind # "visit",
           source = "error" => r.entry = NoEntry,
           source = "revalidated" /\ r.own = None => v = confirmed
    PROVE  IInv'
<1>1. /\ fetch' = [fetch EXCEPT ![f] = Quiet]
      /\ last' = [url |-> r.url, kind |-> r.kind, own |-> r.own, had |-> r.entry # NoEntry,
                  source |-> source, v |-> v, confirmed |-> confirmed]
      /\ IF r.kind = "visit"
         THEN page_history' = Append(r.past, r.url) /\ visits' = Append(visits, r.url)
         ELSE UNCHANGED <<page_history, visits>>
  BY DEF Finish
<1>2. fetch'[f] = Quiet /\ \A g \in Fetches \ {f} : fetch'[g] = fetch[g]
  BY <1>1 DEF IInv, Typed
<1>3. Typed'
  <2>1. fetch' = [g \in Fetches |-> Shape(fetch'[g])]
    BY <1>1, <1>2 DEF IInv, Typed, Shape, Quiet
  <2>2. page_history' \in Seq(Pages) /\ visits' \in Seq(Pages)
    <3>1. page_history \in Seq(Pages) /\ visits \in Seq(Pages)
      BY DEF IInv, Typed
    <3>2. CASE r.kind = "visit"
      BY <1>1, <3>1, <3>2, AppendProperties
    <3>3. CASE r.kind # "visit"
      BY <1>1, <3>1, <3>3
    <3>4. QED
      BY <3>2, <3>3
  <2>3. Quiet.past = <<>> /\ Quiet.kind = "none"
    BY DEF Quiet
  <2>4. \A g \in Fetches : fetch'[g].past \in Seq(Pages)
    <3>1. <<>> \in Seq(Pages)
      OBVIOUS
    <3>2. \A g \in Fetches : fetch[g].past \in Seq(Pages)
      BY DEF IInv, Typed
    <3>3. QED
      BY ONLY <1>2, <2>3, <3>1, <3>2
  <2>5. \A g \in Fetches : fetch'[g].kind = "visit" => fetch'[g].url \in Pages
    BY <1>2, <2>3 DEF IInv, Typed
  <2>6. QED
    BY <2>1, <2>2, <2>4, <2>5 DEF Typed
<1>4. Confirmed'
  <2>1. Quiet.answer = NoAnswer
    BY DEF Quiet
  <2>2. QED
    BY <1>2, <2>1 DEF IInv, Confirmed, Version
<1>5. OneVisit'
  BY <1>2 DEF IInv, OneVisit, Quiet
<1>6. PastHolds'
  <2>1. CASE r.kind = "visit"
    BY <1>2, <2>1 DEF PastHolds, Quiet
  <2>2. CASE r.kind # "visit"
    BY <1>1, <1>2, <2>2 DEF IInv, PastHolds, Quiet, Recent
  <2>3. QED
    BY <2>1, <2>2
<1>7. ReadableOffline' /\ OwnRevalidation'
  BY <1>1 DEF ReadableOffline, OwnRevalidation
<1>8. HistoryInOrder'
  <2> SUFFICES ASSUME alone' PROVE Recent(page_history)' = Recent(visits)'
    BY DEF HistoryInOrder
  <2>1. Recent(page_history) = Recent(visits)
    BY DEF IInv, HistoryInOrder
  <2>2. CASE r.kind = "visit"
    <3>1. page_history' = Append(Recent(visits), r.url) /\ visits' = Append(visits, r.url)
      BY <1>1, <2>1, <2>2
    <3>2. Recent(Append(Recent(visits), r.url)) = Recent(Append(visits, r.url))
      BY <2>2, RecentAppend DEF IInv, Typed
    <3>3. QED
      BY <3>1, <3>2 DEF Recent
  <2>3. CASE r.kind # "visit"
    BY <1>1, <2>1, <2>3 DEF Recent
  <2>4. QED
    BY <2>2, <2>3
<1>9. QED
  BY <1>3, <1>4, <1>5, <1>6, <1>7, <1>8 DEF IInv

\* The reply to a request that waited for the tunnel.
LEMMA WaitedKeeps ==
    ASSUME IInv, NEW f \in Fetches, NEW source, NEW v, NEW confirmed,
           Finish(f, fetch[f], source, v, confirmed), UNCHANGED alone,
           source = "error" => fetch[f].entry = NoEntry,
           source = "revalidated" /\ fetch[f].own = None => v = confirmed
    PROVE  IInv'
<1>1. fetch[f].past \in Seq(Pages) /\ (fetch[f].kind = "visit" => fetch[f].url \in Pages)
  BY DEF IInv, Typed
<1>2. alone' \in BOOLEAN /\ (alone' => alone)
  BY DEF IInv, Typed
<1>3. alone' /\ fetch[f].kind = "visit"
         => /\ fetch[f].past = Recent(page_history)
            /\ \A g \in Fetches \ {f} : fetch[g].kind # "visit"
  BY DEF IInv, OneVisit, PastHolds
<1>4. QED
  BY <1>1, <1>2, <1>3, FinishKeeps

\* A step that leaves the requests, the lists and the reply as they are.
LEMMA QuietStep ==
    ASSUME IInv, UNCHANGED <<fetch, page_history, last, visits, alone>>
    PROVE  IInv'
BY DEF IInv, Typed, Shape, Confirmed, OneVisit, PastHolds, ReadableOffline, OwnRevalidation,
       HistoryInOrder, Recent, Version

\* One request changes, and with it neither what it is for nor the list it read.
LEMMA AnswerKeeps ==
    ASSUME IInv, NEW f \in Fetches, NEW answer,
           fetch' = [fetch EXCEPT ![f].answer = answer],
           UNCHANGED <<page_history, last, visits, alone>>,
           answer # NoAnswer /\ answer.notModified /\ fetch[f].entry # NoEntry
                /\ fetch[f].own = None => answer.v = Version(fetch[f].entry)
    PROVE  IInv'
<1> DEFINE k == [fetch[f] EXCEPT !.answer = answer]
<1>1. fetch[f] = Shape(fetch[f])
  BY DEF IInv, Typed
<1>2. /\ k.url = fetch[f].url /\ k.kind = fetch[f].kind /\ k.own = fetch[f].own
      /\ k.entry = fetch[f].entry /\ k.past = fetch[f].past /\ k.answer = answer
      /\ k = Shape(k)
  BY <1>1 DEF Shape
<1>3. fetch' = [fetch EXCEPT ![f] = k]
  OBVIOUS
<1> HIDE DEF k
<1>4. fetch'[f] = k /\ \A g \in Fetches \ {f} : fetch'[g] = fetch[g]
  BY <1>3 DEF IInv, Typed
<1>5. fetch' = [g \in Fetches |-> Shape(fetch'[g])]
  <2>1. DOMAIN fetch = Fetches /\ \A g \in Fetches : fetch[g] = Shape(fetch[g])
    BY DEF IInv, Typed
  <2>2. \A g \in Fetches : fetch'[g] = Shape(fetch'[g])
    BY ONLY <1>2, <1>4, <2>1
  <2>3. fetch' = [g \in Fetches |-> fetch'[g]]
    BY ONLY <1>3, <2>1
  <2>4. QED
    BY ONLY <2>2, <2>3
<1>6. \A g \in Fetches : /\ fetch'[g].kind = fetch[g].kind
                         /\ fetch'[g].past = fetch[g].past
                         /\ fetch'[g].url = fetch[g].url
  BY <1>2, <1>4
<1>7. Typed'
  BY <1>5, <1>6 DEF IInv, Typed
<1>8. Confirmed'
  BY <1>2, <1>4 DEF IInv, Confirmed, Version
<1>9. OneVisit' /\ PastHolds'
  BY <1>6 DEF IInv, OneVisit, PastHolds, Recent
<1>10. ReadableOffline' /\ OwnRevalidation' /\ HistoryInOrder'
  BY DEF IInv, ReadableOffline, OwnRevalidation, HistoryInOrder, Recent
<1>11. QED
  BY <1>7, <1>8, <1>9, <1>10 DEF IInv

\* A request that goes to the tunnel keeps what it found and the list it read.
LEMMA OpenKeeps ==
    ASSUME IInv, NEW f \in Fetches, NEW r, r = Shape(r),
           fetch' = [fetch EXCEPT ![f] = r],
           UNCHANGED <<page_history, last, visits>>,
           r.answer = NoAnswer, r.past = Recent(page_history), r.url \in Pages,
           alone' \in BOOLEAN, alone' => alone,
           alone' /\ r.kind = "visit" => \A g \in Fetches : fetch[g].kind # "visit"
    PROVE  IInv'
<1>1. fetch'[f] = r /\ \A g \in Fetches \ {f} : fetch'[g] = fetch[g]
  BY DEF IInv, Typed
<1>2. fetch' = [g \in Fetches |-> Shape(fetch'[g])]
  BY <1>1 DEF IInv, Typed, Shape
<1>3. r.past \in Seq(Pages)
  BY RecentAt DEF IInv, Typed
<1>4. Typed'
  BY <1>1, <1>2, <1>3 DEF IInv, Typed
<1>5. Confirmed'
  BY <1>1 DEF IInv, Confirmed, Version
<1>6. OneVisit'
  BY <1>1 DEF IInv, OneVisit
<1>7. PastHolds'
  BY <1>1 DEF IInv, PastHolds, Recent
<1>8. ReadableOffline' /\ OwnRevalidation' /\ HistoryInOrder'
  BY DEF IInv, ReadableOffline, OwnRevalidation, HistoryInOrder, Recent
<1>9. QED
  BY <1>4, <1>5, <1>6, <1>7, <1>8 DEF IInv

\* A request is served from the cache or goes to the tunnel.
LEMMA StartKeeps == ASSUME IInv, NEW f \in Fetches, Start(f) PROVE IInv'
<1>p. PICK ask, live, entry, r :
         /\ ask \in Asked
         /\ r = [Quiet EXCEPT !.url = ask.url, !.kind = ask.kind, !.own = ask.own,
                              !.entry = entry, !.past = Recent(page_history)]
         /\ ServeHeld(f, r, live) \/ GoToTunnel(f, r, live)
         /\ alone' = (alone /\ (ask.kind = "visit" => \A g \in Fetches : fetch[g].kind # "visit"))
  BY DEF Start
<1>1. ask.url \in Pages
  BY <1>p DEF Asked
<1>2. /\ r.url = ask.url /\ r.kind = ask.kind /\ r.past = Recent(page_history)
      /\ r.answer = NoAnswer /\ r = Shape(r)
  BY <1>p DEF Quiet, Shape
<1>3. /\ alone' \in BOOLEAN /\ (alone' => alone)
      /\ alone' /\ r.kind = "visit" => \A g \in Fetches : fetch[g].kind # "visit"
  BY <1>p, <1>2
<1>4. r.past \in Seq(Pages)
  BY <1>2, RecentAt DEF IInv, Typed
<1>5. CASE ServeHeld(f, r, live)
  <2>1. Finish(f, r, "push", Version(r.entry), None)
    BY <1>5 DEF ServeHeld
  <2>2. QED
    BY <2>1, <1>1, <1>2, <1>3, <1>4, FinishKeeps
<1>6. CASE GoToTunnel(f, r, live)
  <2>1. fetch' = [fetch EXCEPT ![f] = r] /\ UNCHANGED <<page_history, last, visits>>
    BY <1>6 DEF GoToTunnel
  <2>2. QED
    BY <2>1, <1>1, <1>2, <1>3, OpenKeeps
<1>7. QED
  BY <1>p, <1>5, <1>6

\* The validator is the version of the copy found, unless the browser gave one.
LEMMA ServerAnswersKeeps == ASSUME IInv, NEW f \in Fetches, ServerAnswers(f) PROVE IInv'
<1> DEFINE same(v) == v # None /\ fetch[f].kind # "post" /\ Validator(fetch[f]) = v
<1>p. PICK v \in {version[fetch[f].url], None}, store \in BOOLEAN :
         fetch' = [fetch EXCEPT ![f].answer = [v |-> v, notModified |-> same(v), store |-> store]]
  BY DEF ServerAnswers
<1>1. UNCHANGED <<page_history, last, visits, alone>>
  BY DEF ServerAnswers, browser
<1>2. same(v) /\ fetch[f].entry # NoEntry /\ fetch[f].own = None => v = Version(fetch[f].entry)
  BY DEF Validator
<1>3. QED
  BY <1>p, <1>1, <1>2, AnswerKeeps

LEMMA AnswerLostKeeps == ASSUME IInv, NEW f \in Fetches, AnswerLost(f) PROVE IInv'
<1>1. UNCHANGED <<page_history, last, visits, alone>> /\ fetch' = [fetch EXCEPT ![f].answer = NoAnswer]
  BY DEF AnswerLost, browser
<1>2. QED
  BY <1>1, AnswerKeeps

\* The reply is the copy that was held, and the 304 was about that copy.
LEMMA RevalidatedKeeps == ASSUME IInv, NEW f \in Fetches, Revalidated(f) PROVE IInv'
<1>1. /\ fetch[f].answer # NoAnswer /\ fetch[f].answer.notModified /\ fetch[f].entry # NoEntry
      /\ Finish(f, fetch[f], "revalidated", Version(fetch[f].entry), fetch[f].answer.v)
      /\ UNCHANGED alone
  BY DEF Revalidated
<1>2. fetch[f].own = None => Version(fetch[f].entry) = fetch[f].answer.v
  BY <1>1 DEF IInv, Confirmed
<1>3. QED
  BY <1>1, <1>2, WaitedKeeps

LEMMA NotModifiedKeeps == ASSUME IInv, NEW f \in Fetches, NotModified(f) PROVE IInv'
<1>1. Finish(f, fetch[f], "origin", None, fetch[f].answer.v) /\ UNCHANGED alone
  BY DEF NotModified
<1>2. QED
  BY <1>1, WaitedKeeps

LEMMA AnswerArrivesKeeps == ASSUME IInv, NEW f \in Fetches, AnswerArrives(f) PROVE IInv'
<1>1. Finish(f, fetch[f], "origin", fetch[f].answer.v, fetch[f].answer.v) /\ UNCHANGED alone
  BY DEF AnswerArrives
<1>2. QED
  BY <1>1, WaitedKeeps

\* An error goes to the browser only when there was no copy to fall back on.
LEMMA TunnelFailsKeeps == ASSUME IInv, NEW f \in Fetches, TunnelFails(f) PROVE IInv'
<1>1. UNCHANGED alone
  BY DEF TunnelFails
<1>2. CASE fetch[f].entry # NoEntry
  <2>1. Finish(f, fetch[f], "stale", Version(fetch[f].entry), None)
    BY <1>2 DEF TunnelFails
  <2>2. QED
    BY <1>1, <2>1, WaitedKeeps
<1>3. CASE fetch[f].entry = NoEntry
  <2>1. Finish(f, fetch[f], "error", None, None)
    BY <1>3 DEF TunnelFails
  <2>2. QED
    BY <1>1, <1>3, <2>1, WaitedKeeps
<1>4. QED
  BY <1>2, <1>3

LEMMA NextKeeps == IInv /\ [Next]_vars => IInv'
<1> SUFFICES ASSUME IInv, [Next]_vars PROVE IInv'
  OBVIOUS
<1>1. ASSUME NEW f \in Fetches, Start(f) PROVE IInv'
  BY <1>1, StartKeeps
<1>2. ASSUME NEW f \in Fetches, ServerAnswers(f) PROVE IInv'
  BY <1>2, ServerAnswersKeeps
<1>3. ASSUME NEW f \in Fetches, AnswerLost(f) PROVE IInv'
  BY <1>3, AnswerLostKeeps
<1>4. ASSUME NEW f \in Fetches, Revalidated(f) PROVE IInv'
  BY <1>4, RevalidatedKeeps
<1>5. ASSUME NEW f \in Fetches, NotModified(f) PROVE IInv'
  BY <1>5, NotModifiedKeeps
<1>6. ASSUME NEW f \in Fetches, AnswerArrives(f) PROVE IInv'
  BY <1>6, AnswerArrivesKeeps
<1>7. ASSUME NEW f \in Fetches, TunnelFails(f) PROVE IInv'
  BY <1>7, TunnelFailsKeeps
<1>8. CASE OriginChanges \/ ServerPushes \/ PushArrives \/ Tick
  BY <1>8, QuietStep DEF OriginChanges, ServerPushes, PushArrives, Tick, client, browser
<1>9. CASE UNCHANGED vars
  BY <1>9, QuietStep DEF vars, client, browser
<1>10. QED
  BY <1>1, <1>2, <1>3, <1>4, <1>5, <1>6, <1>7, <1>8, <1>9 DEF Next

\* The inductive invariant: what a request found and read still holds when its
\* answer is there.
THEOREM Invariance == Spec => []IInv
BY InitIInv, NextKeeps, PTL DEF Spec

\* A page the cache held when the browser asked for it never ends in an error.
THEOREM Offline == Spec => []ReadableOffline
BY Invariance, PTL DEF IInv

\* A 304 to the proxy's own validator confirms the very copy in the reply.
THEOREM Revalidation == Spec => []OwnRevalidation
BY Invariance, PTL DEF IInv

\* The list sent to the server ends with the reader's last visits, in order, as
\* long as pages load one after the other.
THEOREM History == Spec => []HistoryInOrder
BY Invariance, PTL DEF IInv
=============================================================================
