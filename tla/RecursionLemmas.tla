-------------------------- MODULE RecursionLemmas ---------------------------
(***************************************************************************)
(* Induction over the natural numbers, and what it says of functions that  *)
(* are defined by recursion: that a function with the equations of an      *)
(* iteration exists, and what FlattenSeq, which is such an iteration,      *)
(* computes.  The induction rests on the least element of a set of natural *)
(* numbers, which WFMin of WellFoundedInduction gives.  At the end, three  *)
(* things that loops compute: sums, sequences that only grow, and digits.  *)
(***************************************************************************)
EXTENDS Integers, SequencesExt, SequenceTheorems, WellFoundedInduction, TLAPS

Below == {p \in Nat \X Nat : p[1] < p[2]}

LEMMA BelowWellFounded == IsWellFoundedOn(Below, Nat)
BY NatLessThanWellFounded DEF OpToRel, Below

(* Every set of natural numbers that is not empty has a least element.     *)
LEMMA LeastElement ==
  ASSUME NEW T \in SUBSET Nat, T # {}
  PROVE  \E m \in T : \A k \in T : m <= k
<1>1. PICK m \in T : \A k \in T : ~(<<k, m>> \in Below)
  BY BelowWellFounded, WFMin
<1>2. \A k \in T : ~(k < m)
  BY <1>1 DEF Below
<1> QED BY <1>2

(* Induction, over the set of the numbers that have a property.            *)
LEMMA Induction ==
  ASSUME NEW T, 0 \in T, \A n \in Nat : n \in T => n + 1 \in T
  PROVE  Nat \subseteq T
<1> SUFFICES ASSUME Nat \ T # {} PROVE FALSE
  OBVIOUS
<1>1. PICK m \in Nat \ T : \A k \in Nat \ T : m <= k
  BY LeastElement
<1>2. m - 1 \in Nat /\ m - 1 \in T
  BY <1>1
<1> QED BY <1>1, <1>2

-----------------------------------------------------------------------------
(* Recursion to a smaller number: outside of D the value is given, inside  *)
(* it is computed from the one at pred[m].                                 *)
Smaller(D, pred) == pred \in [D -> Nat] /\ \A m \in D : pred[m] < m

Recurs(f, A, S, D, pred, base, step) ==
  /\ f \in [A -> S]
  /\ \A m \in A : f[m] = IF m \in D THEN step[<<m, f[pred[m]]>>] ELSE base[m]

(* Such a function is the same wherever two of them are defined.           *)
LEMMA RecursionUnique ==
  ASSUME NEW S, NEW D \in SUBSET Nat, NEW pred, Smaller(D, pred),
         NEW base, NEW step, NEW n1 \in Nat, NEW n2 \in Nat,
         NEW f, Recurs(f, 0 .. n1, S, D, pred, base, step),
         NEW g, Recurs(g, 0 .. n2, S, D, pred, base, step),
         NEW k \in Nat, k <= n1, k <= n2
  PROVE  f[k] = g[k]
<1> DEFINE Differ == {m \in Nat : m <= n1 /\ m <= n2 /\ f[m] # g[m]}
<1> SUFFICES ASSUME Differ # {} PROVE FALSE
  OBVIOUS
<1>1. PICK m \in Differ : \A j \in Differ : m <= j
  <2>1. Differ \in SUBSET Nat
    OBVIOUS
  <2> HIDE DEF Differ
  <2> QED BY <2>1, LeastElement, Zenon
<1>2. /\ m \in Nat /\ m \in 0 .. n1 /\ m \in 0 .. n2 /\ f[m] # g[m]
  OBVIOUS
<1>3. f[m] = IF m \in D THEN step[<<m, f[pred[m]]>>] ELSE base[m]
  BY <1>2 DEF Recurs
<1>4. g[m] = IF m \in D THEN step[<<m, g[pred[m]]>>] ELSE base[m]
  BY <1>2 DEF Recurs
<1>5. CASE m \in D
  <2>1. PICK p \in Nat : p = pred[m] /\ p < m
    BY <1>5 DEF Smaller
  <2>2. p \notin Differ
    BY <1>1, <2>1
  <2>3. f[p] = g[p]
    BY <1>2, <2>1, <2>2
  <2> QED BY <1>2, <1>3, <1>4, <1>5, <2>1, <2>3
<1>6. CASE m \notin D
  BY <1>2, <1>3, <1>4, <1>6
<1> QED BY <1>5, <1>6

LEMMA RecursionTo ==
  ASSUME NEW S, NEW D \in SUBSET Nat, NEW pred, Smaller(D, pred),
         NEW base \in [Nat -> S], NEW step \in [Nat \X S -> S], NEW n \in Nat
  PROVE  \E f : Recurs(f, 0 .. n, S, D, pred, base, step)
<1> DEFINE T == {m \in Nat : \E f : Recurs(f, 0 .. m, S, D, pred, base, step)}
<1>1. 0 \in T
  <2> DEFINE h == [m \in 0 .. 0 |-> base[0]]
  <2>1. 0 \notin D
    BY DEF Smaller
  <2>2. Recurs(h, 0 .. 0, S, D, pred, base, step)
    BY <2>1 DEF Recurs
  <2> QED BY <2>2
<1>2. ASSUME NEW m \in Nat, m \in T PROVE m + 1 \in T
  <2>1. PICK f : Recurs(f, 0 .. m, S, D, pred, base, step)
    BY <1>2
  <2>2. f \in [0 .. m -> S]
    BY <2>1 DEF Recurs
  <2>3. PICK v \in S : v = IF m + 1 \in D THEN step[<<m + 1, f[pred[m + 1]]>>]
                           ELSE base[m + 1]
    <3>1. CASE m + 1 \in D
      <4>1. PICK p \in 0 .. m : p = pred[m + 1]
        BY <3>1 DEF Smaller
      <4>2. step[<<m + 1, f[p]>>] \in S
        BY <2>2
      <4> QED BY <3>1, <4>1, <4>2
    <3>2. CASE m + 1 \notin D
      BY <3>2
    <3> QED BY <3>1, <3>2
  <2> DEFINE h == [k \in 0 .. m + 1 |-> IF k <= m THEN f[k] ELSE v]
  <2>4. h \in [0 .. m + 1 -> S] /\ \A k \in 0 .. m : h[k] = f[k]
    BY <2>2
  <2>5. h[m + 1] = v
    OBVIOUS
  <2> HIDE DEF h
  <2>6. ASSUME NEW k \in 0 .. m + 1
        PROVE  h[k] = IF k \in D THEN step[<<k, h[pred[k]]>>] ELSE base[k]
    <3>1. CASE k \in 0 .. m
      <4>1. f[k] = IF k \in D THEN step[<<k, f[pred[k]]>>] ELSE base[k]
        BY <2>1, <3>1 DEF Recurs
      <4>2. CASE k \in D
        <5>1. PICK p \in 0 .. m : p = pred[k]
          BY <3>1, <4>2 DEF Smaller
        <5> QED BY <2>4, <3>1, <4>1, <4>2, <5>1
      <4>3. CASE k \notin D
        BY <2>4, <3>1, <4>1, <4>3
      <4> QED BY <4>2, <4>3
    <3>2. CASE k = m + 1
      <4>1. CASE k \in D
        <5>1. PICK p \in 0 .. m : p = pred[k]
          BY <3>2, <4>1 DEF Smaller
        <5> QED BY <2>3, <2>4, <2>5, <3>2, <4>1, <5>1
      <4>2. CASE k \notin D
        BY <2>3, <2>5, <3>2, <4>2
      <4> QED BY <4>1, <4>2
    <3>3. k \in 0 .. m \/ k = m + 1
      OBVIOUS
    <3> QED BY <3>1, <3>2, <3>3
  <2>7. Recurs(h, 0 .. m + 1, S, D, pred, base, step)
    BY <2>4, <2>6 DEF Recurs
  <2> QED BY <2>7
<1>3. Nat \subseteq T
  <2> HIDE DEF T
  <2> QED BY <1>1, <1>2, Induction
<1> QED BY <1>3

(* So there is one on all natural numbers, which is what a recursive       *)
(* definition of it chooses.                                               *)
LEMMA RecursionExists ==
  ASSUME NEW S, NEW D \in SUBSET Nat, NEW pred, Smaller(D, pred),
         NEW base \in [Nat -> S], NEW step \in [Nat \X S -> S]
  PROVE  \E f : Recurs(f, Nat, S, D, pred, base, step)
<1> DEFINE G(n) == CHOOSE f : Recurs(f, 0 .. n, S, D, pred, base, step)
           h == [n \in Nat |-> G(n)[n]]
<1>1. ASSUME NEW n \in Nat PROVE Recurs(G(n), 0 .. n, S, D, pred, base, step)
  <2>1. \E f : Recurs(f, 0 .. n, S, D, pred, base, step)
    BY RecursionTo
  <2> QED BY <2>1
<1>2. \A n \in Nat : h[n] = G(n)[n]
  OBVIOUS
<1> HIDE DEF G
<1>3. ASSUME NEW n \in Nat PROVE h[n] \in S
  BY <1>1, <1>2 DEF Recurs
<1>4. h \in [Nat -> S]
  BY <1>3
<1> HIDE DEF h
<1>5. ASSUME NEW n \in Nat
      PROVE  h[n] = IF n \in D THEN step[<<n, h[pred[n]]>>] ELSE base[n]
  <2>1. n \in 0 .. n
    OBVIOUS
  <2>2. G(n)[n] = IF n \in D THEN step[<<n, G(n)[pred[n]]>>] ELSE base[n]
    BY <1>1, <2>1 DEF Recurs
  <2>3. CASE n \in D
    <3>1. PICK p \in Nat : p = pred[n] /\ p < n
      BY <2>3 DEF Smaller
    <3>2. PICK g1, g2 : g1 = G(n) /\ g2 = G(p)
      OBVIOUS
    <3>3. /\ Recurs(g1, 0 .. n, S, D, pred, base, step)
          /\ Recurs(g2, 0 .. p, S, D, pred, base, step)
          /\ p <= n /\ p <= p
      BY <1>1, <3>1, <3>2
    <3>4. g1[p] = g2[p]
      BY <3>3, RecursionUnique
    <3> QED BY <1>2, <2>2, <2>3, <3>1, <3>2, <3>4
  <2>4. CASE n \notin D
    BY <1>2, <2>2, <2>4
  <2> QED BY <2>3, <2>4
<1> QED BY <1>4, <1>5 DEF Recurs

-----------------------------------------------------------------------------
(* FlattenSeq, the concatenation of the members of a sequence.  The first  *)
(* k of n members concatenated are g[k].                                   *)
Concatenates(g, n, seqs, S) ==
  /\ g \in [0 .. n -> Seq(S)]
  /\ g[0] = <<>>
  /\ \A k \in 1 .. n : g[k] = g[k - 1] \o seqs[k]

LEMMA Concatenations ==
  ASSUME NEW S, NEW n \in Nat, NEW seqs, \A k \in 1 .. n : seqs[k] \in Seq(S)
  PROVE  \E g : Concatenates(g, n, seqs, S)
<1> DEFINE T == {m \in Nat : m <= n => \E g : Concatenates(g, m, seqs, S)}
<1>1. 0 \in T
  <2>1. Concatenates([k \in 0 .. 0 |-> <<>>], 0, seqs, S)
    BY DEF Concatenates
  <2> QED BY <2>1
<1>2. ASSUME NEW m \in Nat, m \in T PROVE m + 1 \in T
  <2> SUFFICES ASSUME m + 1 <= n PROVE \E g : Concatenates(g, m + 1, seqs, S)
    OBVIOUS
  <2>1. PICK g : Concatenates(g, m, seqs, S)
    BY <1>2
  <2> DEFINE h == [k \in 0 .. m + 1 |-> IF k <= m THEN g[k] ELSE g[m] \o seqs[k]]
  <2>2. /\ g \in [0 .. m -> Seq(S)] /\ g[0] = <<>>
        /\ \A k \in 1 .. m : g[k] = g[k - 1] \o seqs[k]
    BY <2>1 DEF Concatenates
  <2>3. g[m] \o seqs[m + 1] \in Seq(S)
    BY <2>2, ConcatProperties
  <2>4. h \in [0 .. m + 1 -> Seq(S)] /\ h[0] = <<>>
    BY <2>2, <2>3
  <2>5. \A k \in 0 .. m + 1 : h[k] = IF k <= m THEN g[k] ELSE g[m] \o seqs[k]
    OBVIOUS
  <2> HIDE DEF h
  <2>6. ASSUME NEW k \in 1 .. m + 1 PROVE h[k] = h[k - 1] \o seqs[k]
    <3>1. k \in 0 .. m + 1 /\ k - 1 \in 0 .. m + 1 /\ k - 1 <= m
      OBVIOUS
    <3>2. h[k - 1] = g[k - 1]
      BY <2>5, <3>1
    <3>3. CASE k <= m
      <4>1. k \in 1 .. m
        BY <3>3
      <4> QED BY <2>2, <2>5, <3>1, <3>2, <3>3, <4>1
    <3>4. CASE ~(k <= m)
      <4>1. k = m + 1 /\ k - 1 = m
        BY <3>4
      <4>2. h[k] = g[m] \o seqs[k]
        BY <2>5, <3>1, <3>4
      <4> QED BY <3>2, <4>1, <4>2
    <3> QED BY <3>3, <3>4
  <2>7. Concatenates(h, m + 1, seqs, S)
    BY <2>4, <2>6 DEF Concatenates
  <2> QED BY <2>7
<1>3. Nat \subseteq T
  <2> HIDE DEF T
  <2> QED BY <1>1, <1>2, Induction
<1> QED BY <1>3

(* They are what FlattenSeq computes.                                      *)
LEMMA FlattenIs ==
  ASSUME NEW S, NEW n \in Nat, NEW seqs, DOMAIN seqs = 1 .. n,
         seqs = [k \in 1 .. n |-> seqs[k]], Len(seqs) = n,
         \A k \in 1 .. n : seqs[k] \in Seq(S),
         NEW g, Concatenates(g, n, seqs, S)
  PROVE  FlattenSeq(seqs) = g[n]
<1>1. /\ g \in [0 .. n -> Seq(S)] /\ g[0] = <<>>
      /\ \A k \in 1 .. n : g[k] = g[k - 1] \o seqs[k]
  BY DEF Concatenates
<1>2. CASE n = 0
  <2>1. seqs = <<>>
    BY <1>2
  <2> QED BY <1>1, <1>2, <2>1 DEF FlattenSeq
<1>3. CASE n # 0
  <2> DEFINE Solves(x) == x = [k \in 1 .. n |-> IF k = 1 THEN seqs[k]
                                               ELSE x[k - 1] \o seqs[k]]
             h == [k \in 1 .. n |-> g[k]]
  <2>1. 1 \in 1 .. n /\ n \in 1 .. n /\ 1 - 1 = 0
    BY <1>3
  <2>2. g[1] = seqs[1]
    <3>1. g[1] = g[0] \o seqs[1] /\ seqs[1] \in Seq(S)
      BY <1>1, <2>1
    <3> QED BY <1>1, <3>1, ConcatEmptySeq
  <2>3. Solves(h)
    <3>1. ASSUME NEW k \in 1 .. n
          PROVE  h[k] = IF k = 1 THEN seqs[k] ELSE h[k - 1] \o seqs[k]
      <4>1. CASE k = 1
        BY <2>2, <4>1
      <4>2. CASE k # 1
        <5>1. k - 1 \in 1 .. n
          BY <4>2
        <5> QED BY <1>1, <4>2, <5>1
      <4> QED BY <4>1, <4>2
    <3> QED BY <3>1
  <2>4. PICK f : f = CHOOSE x : Solves(x)
    OBVIOUS
  <2>5. Solves(f)
    <3> HIDE DEF Solves, h
    <3> QED BY <2>3, <2>4
  <2>6. FlattenSeq(seqs) = f[n]
    BY <1>3, <2>4 DEF FlattenSeq
  <2> DEFINE T == {m \in Nat : m + 1 <= n => f[m + 1] = g[m + 1]}
  <2>7. 0 \in T
    BY <2>1, <2>2, <2>5
  <2>8. ASSUME NEW m \in Nat, m \in T PROVE m + 1 \in T
    <3> SUFFICES ASSUME (m + 1) + 1 <= n PROVE f[(m + 1) + 1] = g[(m + 1) + 1]
      OBVIOUS
    <3>1. PICK k \in 1 .. n : k = (m + 1) + 1 /\ k # 1 /\ k - 1 = m + 1
      OBVIOUS
    <3>2. f[k - 1] = g[k - 1]
      BY <2>8, <3>1
    <3>3. f[k] = f[k - 1] \o seqs[k]
      BY <2>5, <3>1
    <3>4. g[k] = g[k - 1] \o seqs[k]
      BY <1>1
    <3> QED BY <3>1, <3>2, <3>3, <3>4
  <2>9. Nat \subseteq T
    <3> HIDE DEF T
    <3> QED BY <2>7, <2>8, Induction
  <2>10. n - 1 \in Nat /\ (n - 1) + 1 = n
    BY <1>3
  <2>11. f[n] = g[n]
    BY <2>9, <2>10
  <2> QED BY <2>6, <2>11
<1> QED BY <1>2, <1>3

LEMMA FlattenEmpty == FlattenSeq(<<>>) = <<>>
BY DEF FlattenSeq

(* One more member adds its elements at the end.                           *)
LEMMA FlattenAppend ==
  ASSUME NEW S, NEW seqs \in Seq(Seq(S)), NEW s \in Seq(S)
  PROVE  /\ FlattenSeq(seqs) \in Seq(S)
         /\ FlattenSeq(Append(seqs, s)) = FlattenSeq(seqs) \o s
<1>1. PICK n \in Nat : n = Len(seqs)
  OBVIOUS
<1>2. /\ DOMAIN seqs = 1 .. n /\ seqs = [k \in 1 .. n |-> seqs[k]]
      /\ Len(seqs) = n
      /\ \A k \in 1 .. n : seqs[k] \in Seq(S)
  BY <1>1
<1>3. PICK t : t = Append(seqs, s)
  OBVIOUS
<1>4. /\ t \in Seq(Seq(S)) /\ Len(t) = n + 1
      /\ t[n + 1] = s
      /\ \A k \in 1 .. n : t[k] = seqs[k]
  BY <1>1, <1>3, AppendProperties
<1>5. /\ DOMAIN t = 1 .. n + 1 /\ t = [k \in 1 .. n + 1 |-> t[k]]
      /\ \A k \in 1 .. n + 1 : t[k] \in Seq(S)
  BY <1>4
<1>6. n + 1 \in Nat
  OBVIOUS
<1>7. PICK g : Concatenates(g, n + 1, t, S)
  BY <1>5, <1>6, Concatenations, Zenon
<1>8. FlattenSeq(t) = g[n + 1]
  BY <1>4, <1>5, <1>6, <1>7, FlattenIs, ZenonT(30)
<1>9. /\ g \in [0 .. n + 1 -> Seq(S)] /\ g[0] = <<>>
      /\ \A k \in 1 .. n + 1 : g[k] = g[k - 1] \o t[k]
  BY <1>7 DEF Concatenates
<1>10. g[n + 1] = g[n] \o s
  <2>1. n + 1 \in 1 .. n + 1 /\ (n + 1) - 1 = n
    OBVIOUS
  <2> QED BY <1>4, <1>9, <2>1
<1>11. FlattenSeq(seqs) = g[n]
  <2> DEFINE h == [k \in 0 .. n |-> g[k]]
  <2>1. h \in [0 .. n -> Seq(S)] /\ h[0] = <<>> /\ h[n] = g[n]
    BY <1>9
  <2>2. ASSUME NEW k \in 1 .. n PROVE h[k] = h[k - 1] \o seqs[k]
    <3>1. k \in 1 .. n + 1 /\ k \in 0 .. n /\ k - 1 \in 0 .. n
      OBVIOUS
    <3> QED BY <1>4, <1>9, <3>1
  <2> HIDE DEF h
  <2>3. Concatenates(h, n, seqs, S)
    BY <2>1, <2>2 DEF Concatenates
  <2>4. FlattenSeq(seqs) = h[n]
    BY <1>2, <2>3, FlattenIs, Zenon
  <2> QED BY <2>1, <2>4
<1>12. n \in 0 .. n + 1
  OBVIOUS
<1> QED BY <1>3, <1>8, <1>9, <1>10, <1>11, <1>12

-----------------------------------------------------------------------------
(* Loops.  One more turn is one more value of the function of the turns.   *)
Extends(h, g, m, z) ==
  /\ h = [n \in 0 .. m + 1 |-> h[n]]
  /\ h[m + 1] = z
  /\ \A n \in 0 .. m : h[n] = g[n]

LEMMA OneMore ==
  ASSUME NEW m \in Nat, NEW g, NEW z
  PROVE  \E h : Extends(h, g, m, z)
<1> DEFINE h == [n \in 0 .. m + 1 |-> IF n <= m THEN g[n] ELSE z]
<1>1. m + 1 \in 0 .. m + 1 /\ ~(m + 1 <= m)
  OBVIOUS
<1>2. h[m + 1] = z /\ h = [n \in 0 .. m + 1 |-> h[n]]
  BY <1>1
<1>3. \A n \in 0 .. m : h[n] = g[n]
  OBVIOUS
<1>4. Extends(h, g, m, z)
  BY <1>2, <1>3 DEF Extends
<1> QED BY <1>4

-----------------------------------------------------------------------------
(* Sums of the members of a sequence of numbers.                           *)

(* The sums of the first members of a sequence of numbers.                 *)
Sums(g, n, f) ==
  /\ g \in [0 .. n -> Nat]
  /\ g[0] = 0
  /\ \A k \in 1 .. n : g[k] = g[k - 1] + f[k]

LEMMA SumsExist ==
  ASSUME NEW n \in Nat, NEW f, \A k \in 1 .. n : f[k] \in Nat
  PROVE  \E g : Sums(g, n, f)
<1> DEFINE T == {m \in Nat : m <= n => \E g : Sums(g, m, f)}
<1>1. 0 \in T
  <2>1. Sums([k \in 0 .. 0 |-> 0], 0, f)
    BY DEF Sums
  <2> QED BY <2>1
<1>2. ASSUME NEW m \in Nat, m \in T PROVE m + 1 \in T
  <2> SUFFICES ASSUME m + 1 <= n PROVE \E g : Sums(g, m + 1, f)
    OBVIOUS
  <2>1. PICK g : Sums(g, m, f)
    BY <1>2
  <2>2. m + 1 \in 1 .. n /\ m \in 0 .. m
    OBVIOUS
  <2>3. PICK z \in Nat : z = g[m] + f[m + 1]
    BY <2>1, <2>2 DEF Sums
  <2>4. PICK h : Extends(h, g, m, z)
    BY OneMore
  <2>5. ASSUME NEW k \in 0 .. m + 1 PROVE h[k] \in Nat
    <3>1. k \in 0 .. m \/ k = m + 1
      OBVIOUS
    <3> QED BY <2>1, <2>3, <2>4, <3>1 DEF Sums, Extends
  <2>6. ASSUME NEW k \in 1 .. m + 1 PROVE h[k] = h[k - 1] + f[k]
    <3>1. CASE k \in 1 .. m
      <4>1. k \in 0 .. m /\ k - 1 \in 0 .. m
        BY <3>1
      <4> QED BY <2>1, <2>4, <3>1, <4>1 DEF Sums, Extends
    <3>2. CASE k = m + 1
      <4>1. k - 1 = m
        BY <3>2
      <4> QED BY <2>2, <2>3, <2>4, <3>2, <4>1 DEF Extends
    <3>3. k \in 1 .. m \/ k = m + 1
      OBVIOUS
    <3> QED BY <3>1, <3>2, <3>3
  <2>7. h \in [0 .. m + 1 -> Nat] /\ h[0] = 0
    <3>1. h = [k \in 0 .. m + 1 |-> h[k]]
      BY <2>4 DEF Extends
    <3>2. h \in [0 .. m + 1 -> Nat]
      BY <2>5, <3>1
    <3>3. 0 \in 0 .. m /\ g[0] = 0
      BY <2>1 DEF Sums
    <3>4. h[0] = 0
      BY <2>4, <3>3 DEF Extends
    <3> QED BY <3>2, <3>4
  <2>8. Sums(h, m + 1, f)
    BY <2>6, <2>7 DEF Sums
  <2> QED BY <2>8
<1>3. Nat \subseteq T
  <2> HIDE DEF T
  <2> QED BY <1>1, <1>2, Induction
<1>4. n \in T
  BY <1>3
<1> QED BY <1>4

(* Sums are numbers.                                                       *)
LEMMA SumsTyped ==
  ASSUME NEW n \in Nat, NEW f, \A k \in 1 .. n : f[k] \in Nat,
         NEW g, g = [k \in 0 .. n |-> g[k]], g[0] = 0,
         \A k \in 1 .. n : g[k] = g[k - 1] + f[k]
  PROVE  Sums(g, n, f)
<1> DEFINE T == {m \in Nat : m <= n => g[m] \in Nat}
<1>1. 0 \in T
  OBVIOUS
<1>2. ASSUME NEW m \in Nat, m \in T PROVE m + 1 \in T
  <2> SUFFICES ASSUME m + 1 <= n PROVE g[m + 1] \in Nat
    OBVIOUS
  <2>1. m + 1 \in 1 .. n /\ (m + 1) - 1 = m /\ g[m] \in Nat
    BY <1>2
  <2>2. g[m + 1] = g[m] + f[m + 1] /\ f[m + 1] \in Nat
    BY <2>1
  <2> QED BY <2>1, <2>2
<1>3. Nat \subseteq T
  <2> HIDE DEF T
  <2> QED BY <1>1, <1>2, Induction
<1>4. \A k \in 0 .. n : g[k] \in Nat
  BY <1>3
<1>5. g \in [0 .. n -> Nat]
  BY <1>4
<1> QED BY <1>5 DEF Sums

(* A solution of the recursive definition of a sum.                        *)
SumSolved(g, n, f) == g = [k \in 0 .. n |-> IF k = 0 THEN 0 ELSE g[k - 1] + f[k]]

LEMMA SolvedSums ==
  ASSUME NEW n \in Nat, NEW f, \A k \in 1 .. n : f[k] \in Nat,
         NEW g, SumSolved(g, n, f)
  PROVE  Sums(g, n, f)
<1>1. g = [k \in 0 .. n |-> IF k = 0 THEN 0 ELSE g[k - 1] + f[k]]
  BY DEF SumSolved
<1>2. g = [k \in 0 .. n |-> g[k]]
  BY <1>1
<1>3. ASSUME NEW k \in 0 .. n PROVE g[k] = IF k = 0 THEN 0 ELSE g[k - 1] + f[k]
  BY <1>1, Zenon
<1>4. g[0] = 0
  <2>1. 0 \in 0 .. n
    OBVIOUS
  <2> QED BY <1>3, <2>1
<1>5. ASSUME NEW k \in 1 .. n PROVE g[k] = g[k - 1] + f[k]
  <2>1. k \in 0 .. n /\ k # 0
    OBVIOUS
  <2> QED BY <1>3, <2>1, Zenon
<1> QED BY <1>2, <1>4, <1>5, SumsTyped

LEMMA SumsSolve ==
  ASSUME NEW n \in Nat, NEW f, NEW g, Sums(g, n, f)
  PROVE  SumSolved(g, n, f)
<1>1. g = [k \in 0 .. n |-> g[k]]
  BY DEF Sums
<1>2. ASSUME NEW k \in 0 .. n
      PROVE  g[k] = IF k = 0 THEN 0 ELSE g[k - 1] + f[k]
  <2>1. k = 0 \/ k \in 1 .. n
    OBVIOUS
  <2> QED BY <2>1 DEF Sums
<1> QED BY <1>1, <1>2 DEF SumSolved

LEMMA SumsUnique ==
  ASSUME NEW n \in Nat, NEW f, NEW g, Sums(g, n, f), NEW h, Sums(h, n, f)
  PROVE  g[n] = h[n]
<1> DEFINE T == {m \in Nat : m <= n => g[m] = h[m]}
<1>1. 0 \in T
  BY DEF Sums
<1>2. ASSUME NEW m \in Nat, m \in T PROVE m + 1 \in T
  <2> SUFFICES ASSUME m + 1 <= n PROVE g[m + 1] = h[m + 1]
    OBVIOUS
  <2>1. m + 1 \in 1 .. n /\ (m + 1) - 1 = m /\ g[m] = h[m]
    BY <1>2
  <2> QED BY <2>1 DEF Sums
<1>3. Nat \subseteq T
  <2> HIDE DEF T
  <2> QED BY <1>1, <1>2, Induction
<1> QED BY <1>3

LEMMA SumsGrow ==
  ASSUME NEW n \in Nat, NEW f, \A k \in 1 .. n : f[k] \in Nat, NEW g, Sums(g, n, f),
         NEW k \in 0 .. n
  PROVE  g[k] <= g[n]
<1> DEFINE T == {d \in Nat : k + d <= n => g[k] <= g[k + d]}
<1>1. 0 \in T
  BY DEF Sums
<1>2. ASSUME NEW d \in Nat, d \in T PROVE d + 1 \in T
  <2> SUFFICES ASSUME k + (d + 1) <= n PROVE g[k] <= g[k + (d + 1)]
    OBVIOUS
  <2>1. PICK j \in 1 .. n : j = k + (d + 1) /\ j - 1 = k + d
    OBVIOUS
  <2>2. g[k] <= g[j - 1]
    BY <1>2, <2>1
  <2>3. g[j] = g[j - 1] + f[j] /\ f[j] \in Nat
    BY <2>1 DEF Sums
  <2>4. j - 1 \in 0 .. n /\ k \in 0 .. n
    BY <2>1
  <2>5. g[j - 1] \in Nat /\ g[k] \in Nat
    BY <2>4 DEF Sums
  <2> QED BY <2>1, <2>2, <2>3, <2>5
<1>3. Nat \subseteq T
  <2> HIDE DEF T
  <2> QED BY <1>1, <1>2, Induction
<1>4. PICK d \in Nat : k + d = n
  <2>1. n - k \in Nat /\ k + (n - k) = n
    OBVIOUS
  <2> QED BY <2>1
<1>5. d \in T
  BY <1>3
<1> QED BY <1>4, <1>5

-----------------------------------------------------------------------------
(* Sequences that grow at their end.                                       *)

(* t is s with something after it.                                         *)
Grows(s, t) ==
  /\ Len(s) <= Len(t)
  /\ \A i \in 1 .. Len(s) : t[i] = s[i]

LEMMA GrowsItself ==
  ASSUME NEW s
  PROVE  Grows(s, s)
<1>1. Len(s) <= Len(s)
  OBVIOUS
<1> QED BY <1>1 DEF Grows

LEMMA GrowsFurther ==
  ASSUME NEW T, NEW s \in Seq(T), NEW t \in Seq(T), NEW u \in Seq(T),
         Grows(s, t), Grows(t, u)
  PROVE  Grows(s, u)
BY DEF Grows

LEMMA GrowsWith ==
  ASSUME NEW T, NEW s \in Seq(T), NEW t \in Seq(T)
  PROVE  /\ s \o t \in Seq(T)
         /\ Len(s \o t) = Len(s) + Len(t)
         /\ Grows(s, s \o t)
BY DEF Grows

-----------------------------------------------------------------------------
(* Decimal digits.  A function of what is left of a number after its last  *)
(* digit exists, which is how digits are counted and written.              *)
ByTenSteps(f, base, step) ==
  \A m \in Nat :
    f[m] = IF m >= 10 THEN step[<<m, f[m \div 10]>>] ELSE base[m]

LEMMA ByTens ==
  ASSUME NEW S, NEW base \in [Nat -> S], NEW step \in [Nat \X S -> S]
  PROVE  \E f \in [Nat -> S] : ByTenSteps(f, base, step)
<1> DEFINE D == {m \in Nat : m >= 10}
           pred == [m \in D |-> m \div 10]
<1>1. Smaller(D, pred)
  <2>1. ASSUME NEW m \in D PROVE m \div 10 \in Nat /\ m \div 10 < m
    OBVIOUS
  <2> QED BY <2>1 DEF Smaller
<1>2. D \in SUBSET Nat
  OBVIOUS
<1>3. PICK f : Recurs(f, Nat, S, D, pred, base, step)
  <2> HIDE DEF D, pred
  <2> QED BY <1>1, <1>2, RecursionExists
<1>4. f \in [Nat -> S]
  BY <1>3 DEF Recurs
<1>5. ASSUME NEW m \in Nat
      PROVE  f[m] = IF m >= 10 THEN step[<<m, f[m \div 10]>>] ELSE base[m]
  <2>1. f[m] = IF m \in D THEN step[<<m, f[pred[m]]>>] ELSE base[m]
    <3> HIDE DEF D, pred
    <3> QED BY <1>3 DEF Recurs
  <2>2. CASE m >= 10
    <3>1. m \in D /\ pred[m] = m \div 10
      BY <2>2
    <3> QED BY <2>1, <2>2, <3>1
  <2>3. CASE ~(m >= 10)
    <3>1. m \notin D
      BY <2>3
    <3> QED BY <2>1, <2>3, <3>1
  <2> QED BY <2>2, <2>3
<1> QED BY <1>4, <1>5 DEF ByTenSteps

(* The reversal of a sequence.                                             *)
LEMMA ReverseIs ==
  ASSUME NEW S, NEW s \in Seq(S)
  PROVE  /\ Reverse(s) \in Seq(S)
         /\ Len(Reverse(s)) = Len(s)
         /\ \A i \in 1 .. Len(s) : Reverse(s)[i] = s[(Len(s) - i) + 1]
<1>1. PICK n \in Nat : n = Len(s)
  OBVIOUS
<1>2. PICK r : r = Reverse(s)
  OBVIOUS
<1>3. r = [i \in 1 .. n |-> s[(n - i) + 1]]
  BY <1>1, <1>2 DEF Reverse
<1>4. ASSUME NEW i \in 1 .. n PROVE s[(n - i) + 1] \in S
  <2>1. (n - i) + 1 \in 1 .. n
    OBVIOUS
  <2> QED BY <1>1, <2>1
<1>5. r \in Seq(S) /\ Len(r) = n /\ \A i \in 1 .. n : r[i] = s[(n - i) + 1]
  BY <1>3, <1>4
<1> QED BY <1>1, <1>2, <1>5

LEMMA ReverseOne ==
  ASSUME NEW S, NEW x \in S
  PROVE  Reverse(<<x>>) = <<x>>
<1>1. <<x>> \in Seq(S) /\ Len(<<x>>) = 1 /\ <<x>>[1] = x
  OBVIOUS
<1>2. /\ Reverse(<<x>>) \in Seq(S) /\ Len(Reverse(<<x>>)) = 1
      /\ \A i \in 1 .. 1 : Reverse(<<x>>)[i] = <<x>>[(1 - i) + 1]
  BY <1>1, ReverseIs
<1>3. ASSUME NEW i \in 1 .. 1 PROVE Reverse(<<x>>)[i] = <<x>>[i]
  <2>1. i = 1 /\ (1 - i) + 1 = 1
    OBVIOUS
  <2> QED BY <1>2, <2>1
<1> QED BY <1>1, <1>2, <1>3, SeqEqual

LEMMA ReverseJoined ==
  ASSUME NEW S, NEW s \in Seq(S), NEW t \in Seq(S)
  PROVE  Reverse(s \o t) = Reverse(t) \o Reverse(s)
<1>1. PICK m \in Nat, n \in Nat : m = Len(s) /\ n = Len(t)
  OBVIOUS
<1>2. PICK j : j = s \o t
  OBVIOUS
<1>3. /\ j \in Seq(S) /\ Len(j) = m + n
      /\ \A i \in 1 .. m + n : j[i] = IF i <= m THEN s[i] ELSE t[i - m]
  BY <1>1, <1>2, ConcatProperties
<1>4. PICK a : a = Reverse(s)
  OBVIOUS
<1>5. PICK b : b = Reverse(t)
  OBVIOUS
<1>6. PICK r : r = Reverse(j)
  OBVIOUS
<1>7. /\ a \in Seq(S) /\ Len(a) = m
      /\ \A i \in 1 .. m : a[i] = s[(m - i) + 1]
  BY <1>1, <1>4, ReverseIs
<1>8. /\ b \in Seq(S) /\ Len(b) = n
      /\ \A i \in 1 .. n : b[i] = t[(n - i) + 1]
  BY <1>1, <1>5, ReverseIs
<1>9. /\ r \in Seq(S) /\ Len(r) = m + n
      /\ \A i \in 1 .. m + n : r[i] = j[((m + n) - i) + 1]
  BY <1>3, <1>6, ReverseIs
<1>10. PICK c : c = b \o a
  OBVIOUS
<1>11. /\ c \in Seq(S) /\ Len(c) = n + m
       /\ \A i \in 1 .. n + m : c[i] = IF i <= n THEN b[i] ELSE a[i - n]
  <2>1. a \in Seq(S) /\ b \in Seq(S) /\ Len(a) = m /\ Len(b) = n
    BY <1>7, <1>8
  <2> QED BY <1>10, <2>1, ConcatProperties
<1>12. ASSUME NEW i \in 1 .. m + n PROVE r[i] = c[i]
  <2>1. PICK k \in 1 .. m + n : k = ((m + n) - i) + 1
    OBVIOUS
  <2>2. r[i] = j[k]
    BY <1>9, <2>1
  <2>3. CASE i <= n
    <3>1. /\ ~(k <= m) /\ i \in 1 .. n /\ i \in 1 .. n + m
          /\ k - m = (n - i) + 1
      BY <2>1, <2>3
    <3>2. j[k] = t[(n - i) + 1]
      BY <1>3, <3>1
    <3>3. c[i] = t[(n - i) + 1]
      BY <1>8, <1>11, <2>3, <3>1
    <3> QED BY <2>2, <3>2, <3>3
  <2>4. CASE ~(i <= n)
    <3>1. PICK l \in 1 .. m : l = i - n
      BY <2>4
    <3>2. k <= m /\ k = (m - l) + 1 /\ i \in 1 .. n + m
      BY <2>1, <2>4, <3>1
    <3>3. j[k] = s[k]
      BY <1>3, <3>2
    <3>4. c[i] = s[k]
      BY <1>7, <1>11, <2>4, <3>1, <3>2
    <3> QED BY <2>2, <3>3, <3>4
  <2> QED BY <2>3, <2>4
<1>13. r = c
  <2>1. r \in Seq(S) /\ c \in Seq(S) /\ Len(r) = m + n /\ Len(c) = m + n
    BY <1>9, <1>11
  <2> QED BY <1>12, <2>1, SeqEqual
<1> QED BY <1>2, <1>4, <1>5, <1>6, <1>10, <1>13

LEMMA Tenth ==
  ASSUME NEW k \in Nat
  PROVE  /\ k % 10 \in 0 .. 9 /\ k \div 10 \in Nat
         /\ IF k < 10 THEN k \div 10 = 0 ELSE k \div 10 # 0 /\ k \div 10 < k
OBVIOUS

(* The digits of a number, the last one first, reversed are its digits,    *)
(* the first one first, one more than the divisions by ten.                *)
DigitsBackwards(low, c) ==
  \A m \in Nat :
    low[m] = <<c[m % 10]>> \o (IF m \div 10 = 0 THEN <<>> ELSE low[m \div 10])

DigitsForwards(high, c) ==
  \A m \in Nat : high[m] = (IF m < 10 THEN <<>> ELSE high[m \div 10]) \o <<c[m % 10]>>

DigitsAfterFirst(more) ==
  \A m \in Nat : more[m] = IF m < 10 THEN 0 ELSE 1 + more[m \div 10]

DigitsTyped(C, c, low, high, more) ==
  /\ c \in [0 .. 9 -> C] /\ more \in [Nat -> Nat]
  /\ low \in [Nat -> Seq(C)] /\ high \in [Nat -> Seq(C)]

LEMMA DigitsMirrored ==
  ASSUME NEW C, NEW c, NEW low, NEW high, NEW more,
         DigitsTyped(C, c, low, high, more),
         DigitsBackwards(low, c), DigitsForwards(high, c), DigitsAfterFirst(more),
         NEW m \in Nat
  PROVE  /\ Reverse(low[m]) = high[m]
         /\ Len(low[m]) = 1 + more[m]
<1>0. /\ c \in [0 .. 9 -> C] /\ more \in [Nat -> Nat]
      /\ low \in [Nat -> Seq(C)] /\ high \in [Nat -> Seq(C)]
  BY DEF DigitsTyped
<1> DEFINE Good(k) == Reverse(low[k]) = high[k] /\ Len(low[k]) = 1 + more[k]
           T == {k \in Nat : ~Good(k)}
<1> SUFFICES ASSUME T # {} PROVE FALSE
  OBVIOUS
<1>1. PICK n \in T : \A j \in T : n <= j
  <2>1. T \in SUBSET Nat
    OBVIOUS
  <2> HIDE DEF T
  <2> QED BY <2>1, LeastElement, Zenon
<1>2. PICK k \in Nat : ~Good(k) /\ \A j \in Nat : j < k => Good(j)
  <2>1. n \in Nat /\ ~Good(n)
    OBVIOUS
  <2>2. ASSUME NEW j \in Nat, j < n PROVE Good(j)
    <3> SUFFICES ASSUME ~Good(j) PROVE FALSE
      OBVIOUS
    <3>1. j \in T
      OBVIOUS
    <3> HIDE DEF T, Good
    <3> QED BY <1>1, <2>1, <2>2, <3>1
  <2> HIDE DEF T, Good
  <2> QED BY <2>1, <2>2
<1> HIDE DEF Good, T
<1>3. PICK x \in C : x = c[k % 10]
  <2>1. k % 10 \in 0 .. 9
    BY <1>2
  <2> QED BY <1>0, <2>1
<1>4. <<x>> \in Seq(C) /\ <<>> \in Seq(C) /\ Len(<<x>>) = 1 /\ Len(<<>>) = 0
  OBVIOUS
<1>5. Reverse(<<x>>) = <<x>>
  BY ReverseOne
<1>6. CASE k < 10
  <2>1. k \div 10 = 0
    BY <1>2, <1>6, Tenth
  <2>2. low[k] = <<x>> \o <<>> /\ high[k] = <<>> \o <<x>> /\ more[k] = 0
    BY <1>2, <1>3, <1>6, <2>1 DEF DigitsBackwards, DigitsForwards, DigitsAfterFirst
  <2>3. low[k] = <<x>> /\ high[k] = <<x>>
    BY <1>4, <2>2, ConcatEmptySeq
  <2> QED BY <1>2, <1>4, <1>5, <2>2, <2>3 DEF Good
<1>7. CASE ~(k < 10)
  <2>1. PICK j \in Nat : j = k \div 10 /\ j # 0 /\ j < k
    <3>1. k \div 10 \in Nat /\ k \div 10 # 0 /\ k \div 10 < k
      BY <1>2, <1>7, Tenth
    <3> QED BY <3>1
  <2>2. Good(j)
    BY <1>2, <2>1
  <2>3. PICK a \in Seq(C), b \in Seq(C) : a = low[j] /\ b = high[j]
    BY <1>0
  <2>4. low[k] = <<x>> \o a /\ high[k] = b \o <<x>> /\ more[k] = 1 + more[j]
    BY <1>2, <1>3, <1>7, <2>1, <2>3
       DEF DigitsBackwards, DigitsForwards, DigitsAfterFirst
  <2>5. Reverse(<<x>> \o a) = Reverse(a) \o Reverse(<<x>>)
    BY <1>4, ReverseJoined
  <2>6. Reverse(low[k]) = high[k]
    BY <1>5, <2>2, <2>3, <2>4, <2>5 DEF Good
  <2>7. Len(<<x>> \o a) = 1 + Len(a)
    BY <1>4, ConcatProperties
  <2>8. more[j] \in Nat
    BY <1>0
  <2>9. Len(low[k]) = 1 + more[k]
    BY <2>2, <2>3, <2>4, <2>7, <2>8 DEF Good
  <2> QED BY <1>2, <2>6, <2>9 DEF Good
<1> QED BY <1>6, <1>7
(* Induction along divisions by ten.                                       *)
LEMMA InductionByTens ==
  ASSUME NEW T, \A m \in Nat : (m < 10 \/ m \div 10 \in T) => m \in T
  PROVE  Nat \subseteq T
<1> DEFINE U == {m \in Nat : m \notin T}
<1> SUFFICES ASSUME U # {} PROVE FALSE
  OBVIOUS
<1>1. U \in SUBSET Nat
  OBVIOUS
<1>2. PICK m \in U : \A k \in U : m <= k
  <2> HIDE DEF U
  <2> QED BY <1>1, LeastElement, Zenon
<1>3. m \in Nat /\ m \notin T
  OBVIOUS
<1>4. ~(m < 10) /\ m \div 10 \notin T
  BY <1>3
<1>5. m \div 10 \in Nat /\ m \div 10 < m
  BY <1>3, <1>4, Tenth
<1>6. m \div 10 \in U
  BY <1>4, <1>5
<1> HIDE DEF U
<1>7. PICK k \in Nat : k = m \div 10
  BY <1>5
<1>8. k \in U /\ k < m
  BY <1>5, <1>6, <1>7
<1> QED BY <1>2, <1>3, <1>7, <1>8

(* The functions of Int64Text: the digits last first, first first, and the *)
(* divisions that leave ten or more, as their definitions choose them.     *)
SolvesBackwards(f) ==
  f = [m \in Nat |-> <<ToString(m % 10)>> \o (IF m \div 10 = 0 THEN <<>> ELSE f[m \div 10])]

SolvesForwards(f) ==
  f = [m \in Nat |-> (IF m < 10 THEN <<>> ELSE f[m \div 10]) \o <<ToString(m % 10)>>]

SolvesAfterFirst(f) ==
  f = [m \in Nat |-> IF m >= 10 THEN 1 + f[m \div 10] ELSE 0]

ChosenBackwards(f)  == f = CHOOSE g : SolvesBackwards(g)
ChosenForwards(f)   == f = CHOOSE g : SolvesForwards(g)
ChosenAfterFirst(f) == f = CHOOSE g : SolvesAfterFirst(g)

DigitIn(S) == \A d \in 0 .. 9 : ToString(d) \in S

LEMMA OneDigit ==
  ASSUME NEW S, DigitIn(S), NEW m \in Nat
  PROVE  ToString(m % 10) \in S /\ <<ToString(m % 10)>> \in Seq(S)
<1>1. m % 10 \in 0 .. 9
  OBVIOUS
<1>2. ToString(m % 10) \in S
  BY <1>1 DEF DigitIn
<1> QED BY <1>2

LEMMA BackwardsEquations ==
  ASSUME NEW S, DigitIn(S), NEW low, ChosenBackwards(low)
  PROVE  /\ low \in [Nat -> Seq(S)]
         /\ SolvesBackwards(low)
<1> DEFINE base == [m \in Nat |-> <<ToString(m % 10)>> \o <<>>]
           step == [p \in Nat \X Seq(S) |-> <<ToString(p[1] % 10)>> \o p[2]]
<1>1. base \in [Nat -> Seq(S)] /\ step \in [Nat \X Seq(S) -> Seq(S)]
  <2>1. ASSUME NEW m \in Nat, NEW s \in Seq(S)
        PROVE  <<ToString(m % 10)>> \o s \in Seq(S)
    <3>1. <<ToString(m % 10)>> \in Seq(S)
      BY OneDigit
    <3> QED BY <3>1, ConcatProperties
  <2>2. <<>> \in Seq(S)
    OBVIOUS
  <2> QED BY <2>1, <2>2
<1>2. PICK f \in [Nat -> Seq(S)] : ByTenSteps(f, base, step)
  <2> HIDE DEF base, step
  <2> QED BY <1>1, ByTens
<1>3. ASSUME NEW m \in Nat
      PROVE  f[m] = <<ToString(m % 10)>> \o (IF m \div 10 = 0 THEN <<>> ELSE f[m \div 10])
  <2>1. CASE m >= 10
    <3>1. /\ m \div 10 # 0 /\ m \div 10 \in Nat /\ ~(m < 10)
          /\ f[m \div 10] \in Seq(S)
      BY <2>1
    <3>2. step[<<m, f[m \div 10]>>] = <<ToString(m % 10)>> \o f[m \div 10]
      BY <3>1
    <3> HIDE DEF step, base
    <3> QED BY <1>2, <2>1, <3>1, <3>2 DEF ByTenSteps
  <2>2. CASE ~(m >= 10)
    <3>1. m \div 10 = 0 /\ m < 10
      BY <2>2
    <3>2. base[m] = <<ToString(m % 10)>> \o <<>>
      OBVIOUS
    <3> HIDE DEF step, base
    <3> QED BY <1>2, <2>2, <3>1, <3>2 DEF ByTenSteps
  <2> QED BY <2>1, <2>2
<1> HIDE DEF step, base
<1>4. f = [m \in Nat |-> f[m]]
  OBVIOUS
<1>5. SolvesBackwards(f)
  BY <1>3, <1>4 DEF SolvesBackwards
<1>6. SolvesBackwards(low)
  BY <1>5 DEF ChosenBackwards
<1>7. low = [m \in Nat |-> low[m]]
  BY <1>6 DEF SolvesBackwards
<1> DEFINE T == {m \in Nat : low[m] \in Seq(S)}
<1>8. ASSUME NEW m \in Nat, m < 10 \/ m \div 10 \in T
      PROVE  m \in T
  <2>1. low[m] = <<ToString(m % 10)>> \o (IF m \div 10 = 0 THEN <<>> ELSE low[m \div 10])
    BY <1>6 DEF SolvesBackwards
  <2>2. m \div 10 \in Nat /\ (m < 10 => m \div 10 = 0) /\ (~(m < 10) => m \div 10 # 0)
    BY Tenth
  <2>3. CASE m < 10
    <3>1. low[m] = <<ToString(m % 10)>> \o <<>>
      BY <2>1, <2>2, <2>3
    <3>2. <<ToString(m % 10)>> \in Seq(S) /\ <<>> \in Seq(S)
      BY OneDigit
    <3>3. low[m] \in Seq(S)
      BY <3>1, <3>2, ConcatProperties
    <3> QED BY <3>3
  <2>4. CASE m \div 10 \in T /\ ~(m < 10)
    <3>1. low[m] = <<ToString(m % 10)>> \o low[m \div 10]
      BY <2>1, <2>2, <2>4
    <3>2. <<ToString(m % 10)>> \in Seq(S) /\ low[m \div 10] \in Seq(S)
      BY <2>4, OneDigit
    <3>3. low[m] \in Seq(S)
      BY <3>1, <3>2, ConcatProperties
    <3> QED BY <3>3
  <2> QED BY <1>8, <2>3, <2>4
<1>9. Nat \subseteq T
  <2> HIDE DEF T
  <2> QED BY <1>8, InductionByTens
<1>10. \A m \in Nat : low[m] \in Seq(S)
  BY <1>9
<1> QED BY <1>6, <1>7, <1>10

LEMMA ForwardsEquations ==
  ASSUME NEW S, DigitIn(S), NEW high, ChosenForwards(high)
  PROVE  /\ high \in [Nat -> Seq(S)]
         /\ SolvesForwards(high)
<1> DEFINE base == [m \in Nat |-> <<>> \o <<ToString(m % 10)>>]
           step == [p \in Nat \X Seq(S) |-> p[2] \o <<ToString(p[1] % 10)>>]
<1>1. base \in [Nat -> Seq(S)] /\ step \in [Nat \X Seq(S) -> Seq(S)]
  <2>1. ASSUME NEW m \in Nat, NEW s \in Seq(S)
        PROVE  s \o <<ToString(m % 10)>> \in Seq(S)
    <3>1. <<ToString(m % 10)>> \in Seq(S)
      BY OneDigit
    <3> QED BY <3>1, ConcatProperties
  <2>2. <<>> \in Seq(S)
    OBVIOUS
  <2> QED BY <2>1, <2>2
<1>2. PICK f \in [Nat -> Seq(S)] : ByTenSteps(f, base, step)
  <2> HIDE DEF base, step
  <2> QED BY <1>1, ByTens
<1>3. ASSUME NEW m \in Nat
      PROVE  f[m] = (IF m < 10 THEN <<>> ELSE f[m \div 10]) \o <<ToString(m % 10)>>
  <2>1. CASE m >= 10
    <3>1. /\ m \div 10 # 0 /\ m \div 10 \in Nat /\ ~(m < 10)
          /\ f[m \div 10] \in Seq(S)
      BY <2>1
    <3>2. step[<<m, f[m \div 10]>>] = f[m \div 10] \o <<ToString(m % 10)>>
      BY <3>1
    <3> HIDE DEF step, base
    <3> QED BY <1>2, <2>1, <3>1, <3>2 DEF ByTenSteps
  <2>2. CASE ~(m >= 10)
    <3>1. m \div 10 = 0 /\ m < 10
      BY <2>2
    <3>2. base[m] = <<>> \o <<ToString(m % 10)>>
      OBVIOUS
    <3> HIDE DEF step, base
    <3> QED BY <1>2, <2>2, <3>1, <3>2 DEF ByTenSteps
  <2> QED BY <2>1, <2>2
<1> HIDE DEF step, base
<1>4. f = [m \in Nat |-> f[m]]
  OBVIOUS
<1>5. SolvesForwards(f)
  BY <1>3, <1>4 DEF SolvesForwards
<1>6. SolvesForwards(high)
  BY <1>5 DEF ChosenForwards
<1>7. high = [m \in Nat |-> high[m]]
  BY <1>6 DEF SolvesForwards
<1> DEFINE T == {m \in Nat : high[m] \in Seq(S)}
<1>8. ASSUME NEW m \in Nat, m < 10 \/ m \div 10 \in T
      PROVE  m \in T
  <2>1. high[m] = (IF m < 10 THEN <<>> ELSE high[m \div 10]) \o <<ToString(m % 10)>>
    BY <1>6 DEF SolvesForwards
  <2>2. m \div 10 \in Nat /\ (m < 10 => m \div 10 = 0) /\ (~(m < 10) => m \div 10 # 0)
    BY Tenth
  <2>3. CASE m < 10
    <3>1. high[m] = <<>> \o <<ToString(m % 10)>>
      BY <2>1, <2>2, <2>3
    <3>2. <<ToString(m % 10)>> \in Seq(S) /\ <<>> \in Seq(S)
      BY OneDigit
    <3>3. high[m] \in Seq(S)
      BY <3>1, <3>2, ConcatProperties
    <3> QED BY <3>3
  <2>4. CASE m \div 10 \in T /\ ~(m < 10)
    <3>1. high[m] = high[m \div 10] \o <<ToString(m % 10)>>
      BY <2>1, <2>2, <2>4
    <3>2. <<ToString(m % 10)>> \in Seq(S) /\ high[m \div 10] \in Seq(S)
      BY <2>4, OneDigit
    <3>3. high[m] \in Seq(S)
      BY <3>1, <3>2, ConcatProperties
    <3> QED BY <3>3
  <2> QED BY <1>8, <2>3, <2>4
<1>9. Nat \subseteq T
  <2> HIDE DEF T
  <2> QED BY <1>8, InductionByTens
<1>10. \A m \in Nat : high[m] \in Seq(S)
  BY <1>9
<1> QED BY <1>6, <1>7, <1>10

LEMMA AfterFirstEquations ==
  ASSUME NEW more, ChosenAfterFirst(more)
  PROVE  /\ more \in [Nat -> Nat]
         /\ SolvesAfterFirst(more)
<1> DEFINE base == [m \in Nat |-> 0]
           step == [p \in Nat \X Nat |-> 1 + p[2]]
<1>1. base \in [Nat -> Nat] /\ step \in [Nat \X Nat -> Nat]
  OBVIOUS
<1>2. PICK f \in [Nat -> Nat] : ByTenSteps(f, base, step)
  <2> HIDE DEF base, step
  <2> QED BY <1>1, ByTens
<1>3. ASSUME NEW m \in Nat
      PROVE  f[m] = IF m >= 10 THEN 1 + f[m \div 10] ELSE 0
  <2>1. CASE m >= 10
    <3>1. /\ m \div 10 # 0 /\ m \div 10 \in Nat /\ ~(m < 10)
          /\ f[m \div 10] \in Nat
      BY <2>1
    <3>2. step[<<m, f[m \div 10]>>] = 1 + f[m \div 10]
      BY <3>1
    <3> HIDE DEF step, base
    <3> QED BY <1>2, <2>1, <3>1, <3>2 DEF ByTenSteps
  <2>2. CASE ~(m >= 10)
    <3>1. m \div 10 = 0 /\ m < 10
      BY <2>2
    <3>2. base[m] = 0
      OBVIOUS
    <3> HIDE DEF step, base
    <3> QED BY <1>2, <2>2, <3>1, <3>2 DEF ByTenSteps
  <2> QED BY <2>1, <2>2
<1> HIDE DEF step, base
<1>4. f = [m \in Nat |-> f[m]]
  OBVIOUS
<1>5. SolvesAfterFirst(f)
  BY <1>3, <1>4 DEF SolvesAfterFirst
<1>6. SolvesAfterFirst(more)
  BY <1>5 DEF ChosenAfterFirst
<1>7. more = [m \in Nat |-> more[m]]
  BY <1>6 DEF SolvesAfterFirst
<1> DEFINE T == {m \in Nat : more[m] \in Nat}
<1>8. ASSUME NEW m \in Nat, m < 10 \/ m \div 10 \in T
      PROVE  m \in T
  <2>1. more[m] = IF m >= 10 THEN 1 + more[m \div 10] ELSE 0
    BY <1>6 DEF SolvesAfterFirst
  <2>2. m \div 10 \in Nat /\ (m < 10 => m \div 10 = 0) /\ (~(m < 10) => m \div 10 # 0)
    BY Tenth
  <2>3. CASE m < 10
    <3>1. ~(m >= 10)
      BY <2>3
    <3>2. more[m] = 0
      BY <2>1, <3>1
    <3> QED BY <3>2
  <2>4. CASE m \div 10 \in T /\ ~(m < 10)
    <3>1. m >= 10 /\ more[m \div 10] \in Nat
      BY <2>4
    <3>2. more[m] = 1 + more[m \div 10]
      BY <2>1, <3>1
    <3>3. more[m] \in Nat
      BY <3>1, <3>2
    <3> QED BY <3>3
  <2> QED BY <1>8, <2>3, <2>4
<1>9. Nat \subseteq T
  <2> HIDE DEF T
  <2> QED BY <1>8, InductionByTens
<1>10. \A m \in Nat : more[m] \in Nat
  BY <1>9
<1> QED BY <1>6, <1>7, <1>10

(* What the functions of Int64Text have to do with each other.             *)
LEMMA DigitTexts ==
  ASSUME NEW S, DigitIn(S), NEW low, NEW high, NEW more,
         ChosenBackwards(low), ChosenForwards(high),
         ChosenAfterFirst(more), NEW m \in Nat
  PROVE  /\ low[m] \in Seq(S) /\ high[m] \in Seq(S) /\ more[m] \in Nat
         /\ Reverse(low[m]) = high[m] /\ Len(low[m]) = 1 + more[m]
<1>0. PICK c : c = [d \in 0 .. 9 |-> ToString(d)]
  OBVIOUS
<1>1. low \in [Nat -> Seq(S)] /\ SolvesBackwards(low)
  BY BackwardsEquations
<1>2. high \in [Nat -> Seq(S)] /\ SolvesForwards(high)
  BY ForwardsEquations
<1>3. more \in [Nat -> Nat] /\ SolvesAfterFirst(more)
  BY AfterFirstEquations
<1>4. c \in [0 .. 9 -> S] /\ \A k \in Nat : c[k % 10] = ToString(k % 10)
  <2>1. \A k \in Nat : k % 10 \in 0 .. 9
    OBVIOUS
  <2> QED BY <1>0, <2>1 DEF DigitIn
<1>5. DigitsBackwards(low, c)
  <2>1. ASSUME NEW k \in Nat
        PROVE  low[k] = <<c[k % 10]>>
                        \o (IF k \div 10 = 0 THEN <<>> ELSE low[k \div 10])
    <3>1. c[k % 10] = ToString(k % 10)
      BY <1>4
    <3>2. low[k] = <<ToString(k % 10)>>
                   \o (IF k \div 10 = 0 THEN <<>> ELSE low[k \div 10])
      BY <1>1 DEF SolvesBackwards
    <3> QED BY <3>1, <3>2
  <2> QED BY <2>1 DEF DigitsBackwards
<1>6. DigitsForwards(high, c)
  <2>1. ASSUME NEW k \in Nat
        PROVE  high[k] = (IF k < 10 THEN <<>> ELSE high[k \div 10])
                         \o <<c[k % 10]>>
    <3>1. c[k % 10] = ToString(k % 10)
      BY <1>4
    <3>2. high[k] = (IF k < 10 THEN <<>> ELSE high[k \div 10])
                    \o <<ToString(k % 10)>>
      BY <1>2 DEF SolvesForwards
    <3> QED BY <3>1, <3>2
  <2> QED BY <2>1 DEF DigitsForwards
<1>7. DigitsAfterFirst(more)
  <2>1. ASSUME NEW k \in Nat
        PROVE  more[k] = IF k < 10 THEN 0 ELSE 1 + more[k \div 10]
    <3>1. (k >= 10) = ~(k < 10)
      OBVIOUS
    <3>2. more[k] = IF k >= 10 THEN 1 + more[k \div 10] ELSE 0
      BY <1>3 DEF SolvesAfterFirst
    <3> QED BY <3>1, <3>2
  <2> QED BY <2>1 DEF DigitsAfterFirst
<1>8. /\ low \in [Nat -> Seq(S)] /\ high \in [Nat -> Seq(S)]
      /\ more \in [Nat -> Nat] /\ c \in [0 .. 9 -> S]
  BY <1>1, <1>2, <1>3, <1>4
<1>9. DigitsTyped(S, c, low, high, more)
  BY <1>8 DEF DigitsTyped
<1>10. Reverse(low[m]) = high[m] /\ Len(low[m]) = 1 + more[m]
  BY <1>5, <1>6, <1>7, <1>9, DigitsMirrored
<1> QED BY <1>8, <1>10
=============================================================================
