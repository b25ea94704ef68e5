-------------------------- MODULE RowLayoutProofs ---------------------------
(***************************************************************************)
(* Proofs about rows as bytes: C reads what Go assigned, for any number of *)
(* rows and of calls that use them.  Most of it is true of any declaration *)
(* whose fields have names of their own: the rule of the compilers keeps   *)
(* the fields apart and inside, so that a store of one leaves the bytes of *)
(* all others alone.                                                       *)
(***************************************************************************)
EXTENDS RowLayout, RecursionLemmas

Aligns == {1, 4, 8}

(* A declaration of fields that can be told by their names.                *)
Declares(decl, n) ==
  /\ n \in Nat \ {0}
  /\ Len(decl) = n
  /\ \A k \in 1 .. n : decl[k].size \in Nat /\ decl[k].align \in Aligns
  /\ \A j, k \in 1 .. n : decl[j].name = decl[k].name => j = k

LEMMA RoundedUp ==
  ASSUME NEW n \in Nat, NEW align \in Aligns
  PROVE  RoundUp(n, align) \in Nat /\ n <= RoundUp(n, align)
<1>1. CASE align = 1
  BY <1>1 DEF RoundUp
<1>2. CASE align = 4
  BY <1>2 DEF RoundUp
<1>3. CASE align = 8
  BY <1>3 DEF RoundUp
<1> QED BY <1>1, <1>2, <1>3 DEF Aligns

-----------------------------------------------------------------------------
(* Offsets.  A recursive definition over the fields has a solution, so     *)
(* that the offsets are what their equation says.                          *)
OffsetStep(decl, at, k) ==
  RoundUp(IF k = 1 THEN 0 ELSE at[k - 1] + decl[k - 1].size, decl[k].align)

Lays(at, decl, n) == at = [k \in 1 .. n |-> OffsetStep(decl, at, k)]

(* at has the offsets of the first m fields.                               *)
LaysFirst(at, decl, m) == \A k \in 1 .. m : at[k] = OffsetStep(decl, at, k)

LEMMA LaysOneMore ==
  ASSUME NEW decl, NEW n \in Nat, NEW m \in Nat, m + 1 <= n,
         NEW at, at = [k \in 1 .. n |-> at[k]], LaysFirst(at, decl, m)
  PROVE  \E more : more = [k \in 1 .. n |-> more[k]] /\ LaysFirst(more, decl, m + 1)
<1>1. PICK z : z = OffsetStep(decl, at, m + 1)
  OBVIOUS
<1>2. PICK more : more = [k \in 1 .. n |-> IF k = m + 1 THEN z ELSE at[k]]
  OBVIOUS
<1>3. more = [k \in 1 .. n |-> more[k]]
  BY <1>2
<1>4. \A k \in 1 .. m : more[k] = at[k]
  BY <1>2
<1>5. ASSUME NEW k \in 1 .. m + 1
      PROVE  OffsetStep(decl, more, k) = OffsetStep(decl, at, k)
  <2>1. CASE k = 1
    BY <2>1 DEF OffsetStep
  <2>2. CASE k # 1
    <3>1. k - 1 \in 1 .. m
      BY <2>2
    <3>2. more[k - 1] = at[k - 1]
      BY <1>4, <3>1
    <3> QED BY <3>2, Zenon DEF OffsetStep
  <2> QED BY <2>1, <2>2
<1>6. ASSUME NEW k \in 1 .. m + 1
      PROVE  more[k] = OffsetStep(decl, more, k)
  <2>1. CASE k = m + 1
    <3>1. more[k] = z
      BY <1>2, <2>1
    <3> QED BY <1>1, <1>5, <2>1, <3>1
  <2>2. CASE k # m + 1
    <3>1. k \in 1 .. m
      BY <2>2
    <3>2. more[k] = at[k] /\ at[k] = OffsetStep(decl, at, k)
      BY <1>4, <3>1 DEF LaysFirst
    <3> QED BY <1>5, <3>2
  <2> QED BY <2>1, <2>2
<1> QED BY <1>3, <1>6 DEF LaysFirst

LEMMA OffsetsLay ==
  ASSUME NEW decl, NEW n, Declares(decl, n)
  PROVE  Lays(Offsets(decl), decl, n)
<1>1. n \in Nat /\ Len(decl) = n
  BY DEF Declares
<1> DEFINE T == {m \in Nat : m <= n =>
                   \E at : at = [k \in 1 .. n |-> at[k]] /\ LaysFirst(at, decl, m)}
<1>2. 0 \in T
  <2>1. PICK at : at = [k \in 1 .. n |-> 0]
    OBVIOUS
  <2>2. at = [k \in 1 .. n |-> at[k]]
    BY <2>1
  <2>3. LaysFirst(at, decl, 0)
    BY DEF LaysFirst
  <2> QED BY <2>2, <2>3
<1>3. ASSUME NEW m \in Nat, m \in T PROVE m + 1 \in T
  <2>1. SUFFICES ASSUME m + 1 <= n
                 PROVE  \E at : at = [k \in 1 .. n |-> at[k]] /\ LaysFirst(at, decl, m + 1)
    OBVIOUS
  <2>2. PICK at : at = [k \in 1 .. n |-> at[k]] /\ LaysFirst(at, decl, m)
    BY <1>1, <1>3, <2>1
  <2> QED BY <1>1, <2>1, <2>2, LaysOneMore
<1>4. Nat \subseteq T
  <2> HIDE DEF T
  <2> QED BY <1>2, <1>3, Induction
<1>5. PICK at : at = [k \in 1 .. n |-> at[k]] /\ LaysFirst(at, decl, n)
  BY <1>1, <1>4
<1>6. at = [k \in 1 .. n |->
              RoundUp(IF k = 1 THEN 0 ELSE at[k - 1] + decl[k - 1].size, decl[k].align)]
  BY <1>5 DEF LaysFirst, OffsetStep
<1>7. Offsets(decl) = CHOOSE f : f = [k \in 1 .. n |->
              RoundUp(IF k = 1 THEN 0 ELSE f[k - 1] + decl[k - 1].size, decl[k].align)]
  BY <1>1 DEF Offsets
<1>8. PICK o : o = Offsets(decl)
  OBVIOUS
<1>9. o = [k \in 1 .. n |->
             RoundUp(IF k = 1 THEN 0 ELSE o[k - 1] + decl[k - 1].size, decl[k].align)]
  BY <1>6, <1>7, <1>8, Zenon
<1> QED BY <1>8, <1>9, Zenon DEF Lays, OffsetStep

-----------------------------------------------------------------------------
(* The fields in their order: each ends before the next one begins, all of *)
(* them before the end.                                                    *)
Follows(at, decl, k) ==
  /\ at[k] \in Nat
  /\ decl[k].size \in Nat
  /\ at[k] + decl[k].size <= at[k + 1]
  /\ at[k + 1] \in Nat

LEMMA FirstOffset ==
  ASSUME NEW decl, NEW n, Declares(decl, n)
  PROVE  Offsets(decl)[1] \in Nat
<1>1. 1 \in 1 .. n /\ decl[1].align \in Aligns
  BY DEF Declares
<1>2. PICK at : at = Offsets(decl)
  OBVIOUS
<1>3. at = [k \in 1 .. n |-> OffsetStep(decl, at, k)]
  BY <1>2, OffsetsLay, Zenon DEF Lays
<1>4. at[1] = OffsetStep(decl, at, 1)
  BY <1>1, <1>3
<1>5. OffsetStep(decl, at, 1) = RoundUp(0, decl[1].align)
  BY DEF OffsetStep
<1> QED BY <1>1, <1>2, <1>4, <1>5, RoundedUp

LEMMA NextOffset ==
  ASSUME NEW decl, NEW n, Declares(decl, n), NEW k \in 1 .. n - 1,
         Offsets(decl)[k] \in Nat
  PROVE  Follows(Offsets(decl), decl, k)
<1>0. n \in Nat
  BY DEF Declares
<1>1. k \in 1 .. n /\ k + 1 \in 1 .. n /\ k + 1 # 1 /\ (k + 1) - 1 = k
  BY <1>0
<1>2. decl[k].size \in Nat /\ decl[k + 1].align \in Aligns
  BY <1>1 DEF Declares
<1>3. PICK at : at = Offsets(decl)
  OBVIOUS
<1>4. at = [i \in 1 .. n |-> OffsetStep(decl, at, i)]
  BY <1>3, OffsetsLay, Zenon DEF Lays
<1>5. at[k + 1] = OffsetStep(decl, at, k + 1)
  BY <1>1, <1>4
<1>6. OffsetStep(decl, at, k + 1) = RoundUp(at[k] + decl[k].size, decl[k + 1].align)
  BY <1>1 DEF OffsetStep
<1>7. PICK end \in Nat : end = at[k] + decl[k].size
  BY <1>2, <1>3
<1>8. RoundUp(end, decl[k + 1].align) \in Nat /\ end <= RoundUp(end, decl[k + 1].align)
  BY <1>2, RoundedUp
<1> QED BY <1>2, <1>3, <1>5, <1>6, <1>7, <1>8 DEF Follows

LEMMA OffsetsTyped ==
  ASSUME NEW decl, NEW n, Declares(decl, n), NEW k \in 1 .. n
  PROVE  Offsets(decl)[k] \in Nat
<1>1. n \in Nat
  BY DEF Declares
<1> DEFINE T == {m \in Nat : m + 1 <= n => Offsets(decl)[m + 1] \in Nat}
<1>2. 0 \in T
  BY FirstOffset
<1>3. ASSUME NEW m \in Nat, m \in T PROVE m + 1 \in T
  <2> SUFFICES ASSUME (m + 1) + 1 <= n
               PROVE  Offsets(decl)[(m + 1) + 1] \in Nat
    OBVIOUS
  <2>1. m + 1 \in 1 .. n - 1 /\ Offsets(decl)[m + 1] \in Nat
    BY <1>1, <1>3
  <2> QED BY <2>1, NextOffset DEF Follows
<1>4. Nat \subseteq T
  <2> HIDE DEF T
  <2> QED BY <1>2, <1>3, Induction
<1>5. k - 1 \in T /\ (k - 1) + 1 = k /\ k <= n
  BY <1>1, <1>4
<1> QED BY <1>5

LEMMA OffsetsOrdered ==
  ASSUME NEW decl, NEW n, Declares(decl, n), NEW j \in 1 .. n, NEW k \in 1 .. n, j < k
  PROVE  Offsets(decl)[j] + decl[j].size <= Offsets(decl)[k]
<1>1. n \in Nat
  BY DEF Declares
<1>2. PICK end \in Nat : end = Offsets(decl)[j] + decl[j].size
  BY OffsetsTyped DEF Declares
<1> DEFINE T == {m \in Nat : j + 1 + m <= n => end <= Offsets(decl)[j + 1 + m]}
<1>3. 0 \in T
  <2>1. SUFFICES ASSUME j + 1 <= n PROVE end <= Offsets(decl)[j + 1]
    OBVIOUS
  <2>2. j \in 1 .. n - 1 /\ Offsets(decl)[j] \in Nat
    BY <1>1, <2>1, OffsetsTyped
  <2> QED BY <1>2, <2>2, NextOffset DEF Follows
<1>4. ASSUME NEW m \in Nat, m \in T PROVE m + 1 \in T
  <2>1. SUFFICES ASSUME j + 1 + (m + 1) <= n
                 PROVE  end <= Offsets(decl)[j + 1 + (m + 1)]
    OBVIOUS
  <2>2. PICK i \in 1 .. n - 1 : i = j + 1 + m /\ i + 1 = j + 1 + (m + 1)
    BY <1>1, <2>1
  <2>3. end <= Offsets(decl)[i]
    BY <1>1, <1>4, <2>1, <2>2
  <2>4. Offsets(decl)[i] \in Nat
    BY <1>1, OffsetsTyped
  <2>5. Follows(Offsets(decl), decl, i)
    BY <2>4, NextOffset
  <2> QED BY <1>2, <2>2, <2>3, <2>5 DEF Follows
<1>5. Nat \subseteq T
  <2> HIDE DEF T
  <2> QED BY <1>3, <1>4, Induction
<1>6. k - (j + 1) \in T /\ j + 1 + (k - (j + 1)) = k /\ k <= n
  BY <1>1, <1>5
<1> QED BY <1>2, <1>6

LEMMA SizeIs ==
  ASSUME NEW decl, NEW n, Declares(decl, n)
  PROVE  /\ SizeOf(decl) \in Nat
         /\ \A k \in 1 .. n : Offsets(decl)[k] + decl[k].size <= SizeOf(decl)
<1>1. n \in Nat /\ Len(decl) = n /\ n \in 1 .. n
  BY DEF Declares
<1>2. \A k \in 1 .. n : decl[k].size \in Nat /\ Offsets(decl)[k] \in Nat
  BY OffsetsTyped DEF Declares
<1>3. PICK end \in Nat : end = Offsets(decl)[n] + decl[n].size
  BY <1>1, <1>2
<1>4. SizeOf(decl) = RoundUp(end, 8)
  BY <1>1, <1>3 DEF SizeOf, Last
<1>5. PICK size \in Nat : size = SizeOf(decl) /\ end <= size
  BY <1>4, RoundedUp DEF Aligns
<1>6. ASSUME NEW k \in 1 .. n
      PROVE  Offsets(decl)[k] + decl[k].size <= end
  <2>1. CASE k = n
    BY <1>3, <2>1
  <2>2. CASE k # n
    <3>1. k < n
      BY <1>1, <2>2
    <3>2. Offsets(decl)[k] + decl[k].size <= Offsets(decl)[n]
      BY <1>1, <3>1, OffsetsOrdered
    <3> QED BY <1>1, <1>2, <1>3, <3>2
  <2> QED BY <2>1, <2>2
<1>7. ASSUME NEW k \in 1 .. n
      PROVE  Offsets(decl)[k] + decl[k].size <= size
  BY <1>2, <1>5, <1>6
<1> QED BY <1>5, <1>7

-----------------------------------------------------------------------------
(* The same by name: a field has a place of its own.                       *)
Place(decl, name) == OffsetOf(decl, name)
Width(decl, name) == decl[Index(decl, name)].size

LEMMA IndexOfName ==
  ASSUME NEW decl, NEW n, Declares(decl, n), NEW name \in Names(decl)
  PROVE  Index(decl, name) \in 1 .. n /\ decl[Index(decl, name)].name = name
<1>1. Len(decl) = n
  BY DEF Declares
<1>2. \E k \in 1 .. n : decl[k].name = name
  BY <1>1 DEF Names
<1>3. Index(decl, name) = CHOOSE k \in 1 .. n : decl[k].name = name
  BY <1>1 DEF Index
<1> QED BY <1>2, <1>3

LEMMA Places ==
  ASSUME NEW decl, NEW n, Declares(decl, n), NEW f \in Names(decl)
  PROVE  /\ Place(decl, f) \in Nat
         /\ Width(decl, f) \in Nat
         /\ SizeOf(decl) \in Nat
         /\ Place(decl, f) + Width(decl, f) <= SizeOf(decl)
<1>1. PICK k : k = Index(decl, f) /\ k \in 1 .. n
  BY IndexOfName
<1>2. Place(decl, f) = Offsets(decl)[k] /\ Width(decl, f) = decl[k].size
  BY <1>1 DEF Place, Width, OffsetOf
<1>3. decl[k].size \in Nat /\ Offsets(decl)[k] \in Nat
  BY <1>1, OffsetsTyped DEF Declares
<1>4. SizeOf(decl) \in Nat /\ Offsets(decl)[k] + decl[k].size <= SizeOf(decl)
  BY <1>1, SizeIs
<1> QED BY <1>2, <1>3, <1>4

LEMMA PlacesApart ==
  ASSUME NEW decl, NEW n, Declares(decl, n), NEW f \in Names(decl), NEW g \in Names(decl),
         f # g
  PROVE  \/ Place(decl, f) + Width(decl, f) <= Place(decl, g)
         \/ Place(decl, g) + Width(decl, g) <= Place(decl, f)
<1>1. PICK j : j = Index(decl, f) /\ j \in 1 .. n /\ decl[j].name = f
  BY IndexOfName
<1>2. PICK k : k = Index(decl, g) /\ k \in 1 .. n /\ decl[k].name = g
  BY IndexOfName
<1>3. n \in Nat
  BY DEF Declares
<1>4. j < k \/ k < j
  BY <1>1, <1>2, <1>3
<1>5. /\ Place(decl, f) = Offsets(decl)[j] /\ Width(decl, f) = decl[j].size
      /\ Place(decl, g) = Offsets(decl)[k] /\ Width(decl, g) = decl[k].size
  BY <1>1, <1>2 DEF Place, Width, OffsetOf
<1> QED BY <1>1, <1>2, <1>4, <1>5, OffsetsOrdered

-----------------------------------------------------------------------------
(* Memory of m bytes, and a field of a row that begins at base.            *)
IsMemory(mem, m) == mem = [a \in 0 .. m - 1 |-> mem[a]]

(* The field at base + place, of so many bytes, is where the store of name *)
(* at another base does not reach.                                         *)
Elsewhere(decl, base, name, other, f) ==
  \/ base + Place(decl, name) + Width(decl, name) <= other + Place(decl, f)
  \/ other + Place(decl, f) + Width(decl, f) <= base + Place(decl, name)

LEMMA BytesAre ==
  ASSUME NEW v, NEW n \in Nat
  PROVE  /\ DOMAIN Bytes(v, n) = 0 .. n - 1
         /\ Bytes(v, n) = [k \in 0 .. n - 1 |-> Bytes(v, n)[k]]
<1>1. PICK b : b = Bytes(v, n)
  OBVIOUS
<1>2. b = [k \in 0 .. n - 1 |-> IF v = <<>> THEN <<>> ELSE <<v, k>>]
  BY <1>1 DEF Bytes
<1>3. DOMAIN b = 0 .. n - 1 /\ b = [k \in 0 .. n - 1 |-> b[k]]
  BY <1>2
<1> QED BY <1>1, <1>3

LEMMA LoadIs ==
  ASSUME NEW mem, NEW base, NEW decl, NEW f
  PROVE  Load(mem, base, decl, f) =
           [k \in 0 .. Width(decl, f) - 1 |-> mem[base + Place(decl, f) + k]]
BY DEF Load, Width, Place

(* What a store leaves in each byte.                                       *)
LEMMA StoreIs ==
  ASSUME NEW mem, NEW m \in Nat, IsMemory(mem, m), NEW decl, NEW n, Declares(decl, n),
         NEW name \in Names(decl), NEW base \in Nat, base + SizeOf(decl) <= m, NEW v
  PROVE  /\ IsMemory(Store(mem, base, decl, name, v), m)
         /\ \A k \in 0 .. Width(decl, name) - 1 :
              Store(mem, base, decl, name, v)[base + Place(decl, name) + k]
                = Bytes(v, Width(decl, name))[k]
         /\ \A a \in 0 .. m - 1 :
              ~(base + Place(decl, name) <= a
                /\ a < base + Place(decl, name) + Width(decl, name))
                => Store(mem, base, decl, name, v)[a] = mem[a]
<1>1. PICK p \in Nat, wide \in Nat, size \in Nat :
        /\ p = Place(decl, name) /\ wide = Width(decl, name) /\ size = SizeOf(decl)
        /\ p + wide <= size
  BY Places
<1>2. PICK bytes : bytes = Bytes(v, wide)
  OBVIOUS
<1>3. DOMAIN bytes = 0 .. wide - 1
  BY <1>2, BytesAre
<1>4. DOMAIN mem = 0 .. m - 1
  BY DEF IsMemory
<1>5. PICK at \in Nat : at = base + p /\ at + wide <= m
  BY <1>1
<1>6. PICK stored : stored = Store(mem, base, decl, name, v)
  OBVIOUS
<1>7. stored = [a \in 0 .. m - 1 |-> IF a - at \in 0 .. wide - 1 THEN bytes[a - at] ELSE mem[a]]
  <2>1. stored = [a \in DOMAIN mem |-> IF a - at \in DOMAIN bytes THEN bytes[a - at] ELSE mem[a]]
    BY <1>1, <1>2, <1>5, <1>6, Zenon DEF Store, Place, Width
  <2> QED BY <1>3, <1>4, <2>1
<1>8. IsMemory(stored, m)
  BY <1>7 DEF IsMemory
<1>9. ASSUME NEW k \in 0 .. wide - 1
      PROVE  stored[at + k] = bytes[k]
  <2>1. at + k \in 0 .. m - 1 /\ (at + k) - at = k
    BY <1>5
  <2> QED BY <1>7, <2>1
<1>10. ASSUME NEW a \in 0 .. m - 1, ~(at <= a /\ a < at + wide)
       PROVE  stored[a] = mem[a]
  <2>1. a - at \notin 0 .. wide - 1
    BY <1>5, <1>10
  <2> QED BY <1>7, <2>1
<1>11. \A k \in 0 .. wide - 1 : stored[base + p + k] = bytes[k]
  BY <1>5, <1>9
<1>12. \A a \in 0 .. m - 1 : ~(base + p <= a /\ a < base + p + wide) => stored[a] = mem[a]
  BY <1>5, <1>10
<1> QED BY <1>1, <1>2, <1>6, <1>8, <1>11, <1>12, Zenon

(* What is stored is loaded again.                                         *)
LEMMA LoadsStored ==
  ASSUME NEW mem, NEW m \in Nat, IsMemory(mem, m), NEW decl, NEW n, Declares(decl, n),
         NEW name \in Names(decl), NEW base \in Nat, base + SizeOf(decl) <= m, NEW v
  PROVE  Load(Store(mem, base, decl, name, v), base, decl, name) = Bytes(v, Width(decl, name))
<1>1. PICK stored : stored = Store(mem, base, decl, name, v)
  OBVIOUS
<1>2. PICK wide \in Nat, p \in Nat : wide = Width(decl, name) /\ p = Place(decl, name)
  BY Places
<1>3. \A k \in 0 .. wide - 1 : stored[base + p + k] = Bytes(v, wide)[k]
  <2>1. \A k \in 0 .. Width(decl, name) - 1 :
          Store(mem, base, decl, name, v)[base + Place(decl, name) + k]
            = Bytes(v, Width(decl, name))[k]
    BY StoreIs
  <2> QED BY <1>1, <1>2, <2>1
<1>4. Load(stored, base, decl, name) = [k \in 0 .. wide - 1 |-> stored[base + p + k]]
  BY <1>2, LoadIs, Zenon
<1>5. Bytes(v, wide) = [k \in 0 .. wide - 1 |-> Bytes(v, wide)[k]]
  BY BytesAre
<1>6. [k \in 0 .. wide - 1 |-> stored[base + p + k]] = [k \in 0 .. wide - 1 |-> Bytes(v, wide)[k]]
  BY <1>3
<1> QED BY <1>1, <1>2, <1>4, <1>5, <1>6, Zenon

(* And what is elsewhere is as it was.                                     *)
LEMMA LoadsElsewhere ==
  ASSUME NEW mem, NEW m \in Nat, IsMemory(mem, m), NEW decl, NEW n, Declares(decl, n),
         NEW name \in Names(decl), NEW base \in Nat, base + SizeOf(decl) <= m, NEW v,
         NEW f \in Names(decl), NEW other \in Nat, other + SizeOf(decl) <= m,
         Elsewhere(decl, base, name, other, f)
  PROVE  Load(Store(mem, base, decl, name, v), other, decl, f) = Load(mem, other, decl, f)
<1>1. PICK stored : stored = Store(mem, base, decl, name, v)
  OBVIOUS
<1>2. PICK wide \in Nat, p \in Nat, size \in Nat :
        /\ wide = Width(decl, f) /\ p = Place(decl, f) /\ size = SizeOf(decl)
        /\ p + wide <= size
  BY Places
<1>3. PICK breadth \in Nat, q \in Nat : breadth = Width(decl, name) /\ q = Place(decl, name)
  BY Places
<1>4. \/ base + q + breadth <= other + p
      \/ other + p + wide <= base + q
  BY <1>2, <1>3, Zenon DEF Elsewhere
<1>5. \A a \in 0 .. m - 1 : ~(base + q <= a /\ a < base + q + breadth) => stored[a] = mem[a]
  <2>1. \A a \in 0 .. m - 1 :
          ~(base + Place(decl, name) <= a
            /\ a < base + Place(decl, name) + Width(decl, name))
            => Store(mem, base, decl, name, v)[a] = mem[a]
    BY StoreIs
  <2> QED BY <1>1, <1>3, <2>1
<1>6. ASSUME NEW k \in 0 .. wide - 1
      PROVE  stored[other + p + k] = mem[other + p + k]
  <2>1. PICK a : a = other + p + k
    OBVIOUS
  <2>2. a \in 0 .. m - 1
    BY <1>2, <2>1
  <2>3. ~(base + q <= a /\ a < base + q + breadth)
    BY <1>4, <2>1
  <2> QED BY <1>5, <2>1, <2>2, <2>3, Zenon
<1>7. [k \in 0 .. wide - 1 |-> stored[other + p + k]] = [k \in 0 .. wide - 1 |-> mem[other + p + k]]
  BY <1>6
<1>8. Load(stored, other, decl, f) = [k \in 0 .. wide - 1 |-> stored[other + p + k]]
  BY <1>2, LoadIs, Zenon
<1>9. Load(mem, other, decl, f) = [k \in 0 .. wide - 1 |-> mem[other + p + k]]
  BY <1>2, LoadIs, Zenon
<1> QED BY <1>1, <1>7, <1>8, <1>9, Zenon

-----------------------------------------------------------------------------
(* The declarations of the source.  A field keeps its name on both sides   *)
(* and the two sides are alike, field by field.                            *)
LEMMA SameDeclarations == COrderRow = GoOrderRow /\ CItemRow = GoItemRow
BY DEF COrderRow, GoOrderRow, CItemRow, GoItemRow

LEMMA OrderRowIs ==
  /\ GoOrderRow[1] = Ref("orderID") /\ GoOrderRow[2] = Ref("createdAt")
  /\ GoOrderRow[3] = Ref("status") /\ GoOrderRow[4] = Ref("paymentMethod")
  /\ GoOrderRow[5] = Ref("buyerName") /\ GoOrderRow[6] = Ref("city")
  /\ GoOrderRow[7] = Ref("address") /\ GoOrderRow[8] = Ref("trackingNo")
  /\ GoOrderRow[9] = Ref("remark") /\ GoOrderRow[10] = U32("itemStart")
  /\ GoOrderRow[11] = U32("itemCount") /\ GoOrderRow[12] = I64("buyerID")
  /\ GoOrderRow[13] = U8("paid") /\ GoOrderRow[14] = U8("hasTrackingNo")
  /\ GoOrderRow[15] = U8("itemsNull") /\ GoOrderRow[16] = Padding(5)
BY DEF GoOrderRow

(* The number of a field, by which names are told apart.                   *)
Ranks ==
  [ orderID |-> 1, createdAt |-> 2, status |-> 3, paymentMethod |-> 4,
    buyerName |-> 5, city |-> 6, address |-> 7, trackingNo |-> 8,
    remark |-> 9, itemStart |-> 10, itemCount |-> 11, buyerID |-> 12,
    paid |-> 13, hasTrackingNo |-> 14, itemsNull |-> 15 ]

Rank(name) == IF name = "_" THEN 16 ELSE Ranks[name]

LEMMA RanksAre ==
  /\ Rank("orderID") = 1 /\ Rank("createdAt") = 2 /\ Rank("status") = 3
  /\ Rank("paymentMethod") = 4 /\ Rank("buyerName") = 5 /\ Rank("city") = 6
  /\ Rank("address") = 7 /\ Rank("trackingNo") = 8 /\ Rank("remark") = 9
  /\ Rank("itemStart") = 10 /\ Rank("itemCount") = 11 /\ Rank("buyerID") = 12
  /\ Rank("paid") = 13 /\ Rank("hasTrackingNo") = 14 /\ Rank("itemsNull") = 15
  /\ Rank("_") = 16
BY DEF Rank, Ranks

FieldIs(k) ==
  /\ GoOrderRow[k].size \in Nat
  /\ GoOrderRow[k].align \in Aligns
  /\ Rank(GoOrderRow[k].name) = k

LEMMA FieldOfType ==
  ASSUME NEW k, NEW name, Rank(name) = k,
         GoOrderRow[k] \in {Ref(name), U32(name), I64(name), U8(name)}
  PROVE  FieldIs(k)
<1>1. GoOrderRow[k].name = name
  BY DEF Ref, U32, I64, U8
<1>2. GoOrderRow[k].size \in Nat /\ GoOrderRow[k].align \in Aligns
  BY DEF Ref, U32, I64, U8, Aligns
<1> QED BY <1>1, <1>2, Zenon DEF FieldIs

LEMMA OrderFields ==
  ASSUME NEW k \in 1 .. 16
  PROVE  FieldIs(k)
<1>1. FieldIs(1) /\ FieldIs(2) /\ FieldIs(3) /\ FieldIs(4) /\ FieldIs(5)
  BY OrderRowIs, RanksAre, FieldOfType
<1>2. FieldIs(6) /\ FieldIs(7) /\ FieldIs(8) /\ FieldIs(9) /\ FieldIs(10)
  BY OrderRowIs, RanksAre, FieldOfType
<1>3. FieldIs(11) /\ FieldIs(12) /\ FieldIs(13) /\ FieldIs(14) /\ FieldIs(15)
  BY OrderRowIs, RanksAre, FieldOfType
<1>4. FieldIs(16)
  <2>1. PICK blank : blank = "_"
    OBVIOUS
  <2>2. Rank(blank) = 16 /\ GoOrderRow[16] = [name |-> blank, size |-> 5, align |-> 1]
    BY <2>1, OrderRowIs, RanksAre, Zenon DEF Padding
  <2> QED BY <2>2 DEF FieldIs, Aligns
<1>5. \/ k = 1 \/ k = 2 \/ k = 3 \/ k = 4 \/ k = 5 \/ k = 6 \/ k = 7 \/ k = 8 \/ k = 9
      \/ k = 10 \/ k = 11 \/ k = 12 \/ k = 13 \/ k = 14 \/ k = 15 \/ k = 16
  OBVIOUS
<1> QED BY <1>1, <1>2, <1>3, <1>4, <1>5, Zenon

LEMMA FieldNames ==
  /\ GoOrderRow[1].name = "orderID" /\ GoOrderRow[2].name = "createdAt"
  /\ GoOrderRow[3].name = "status" /\ GoOrderRow[4].name = "paymentMethod"
  /\ GoOrderRow[5].name = "buyerName" /\ GoOrderRow[6].name = "city"
  /\ GoOrderRow[7].name = "address" /\ GoOrderRow[8].name = "trackingNo"
  /\ GoOrderRow[9].name = "remark" /\ GoOrderRow[10].name = "itemStart"
  /\ GoOrderRow[11].name = "itemCount" /\ GoOrderRow[12].name = "buyerID"
  /\ GoOrderRow[13].name = "paid" /\ GoOrderRow[14].name = "hasTrackingNo"
  /\ GoOrderRow[15].name = "itemsNull"
BY OrderRowIs DEF Ref, U32, I64, U8

LEMMA OrderRowDeclares == Declares(GoOrderRow, 16)
<1>1. Len(GoOrderRow) = 16
  BY DEF GoOrderRow
<1>2. ASSUME NEW j \in 1 .. 16, NEW k \in 1 .. 16, GoOrderRow[j].name = GoOrderRow[k].name
      PROVE  j = k
  BY <1>2, OrderFields, Zenon DEF FieldIs
<1>3. \A k \in 1 .. 16 : GoOrderRow[k].size \in Nat /\ GoOrderRow[k].align \in Aligns
  BY OrderFields, Zenon DEF FieldIs
<1> QED BY <1>1, <1>2, <1>3 DEF Declares

LEMMA ItemRowDeclares ==
  /\ Declares(GoItemRow, 4)
  /\ Names(GoItemRow) = {"sku", "title", "qty", "price"}
  /\ GoItemRow[1].name = "sku" /\ GoItemRow[2].name = "title"
  /\ GoItemRow[3].name = "qty" /\ GoItemRow[4].name = "price"
<1>1. /\ GoItemRow[1] = Ref("sku") /\ GoItemRow[2] = Ref("title")
      /\ GoItemRow[3] = I64("qty") /\ GoItemRow[4] = I64("price") /\ Len(GoItemRow) = 4
  BY DEF GoItemRow
<1>2. /\ GoItemRow[1].name = "sku" /\ GoItemRow[2].name = "title"
      /\ GoItemRow[3].name = "qty" /\ GoItemRow[4].name = "price"
  BY <1>1 DEF Ref, I64
<1>3. \A k \in 1 .. 4 : GoItemRow[k].size \in Nat /\ GoItemRow[k].align \in Aligns
  BY <1>1 DEF Ref, I64, Aligns
<1>4. Declares(GoItemRow, 4)
  BY <1>1, <1>2, <1>3 DEF Declares
<1>5. Names(GoItemRow) = {"sku", "title", "qty", "price"}
  <2>1. {GoItemRow[k].name : k \in 1 .. 4} = {"sku", "title", "qty", "price"}
    BY <1>2
  <2>2. "_" \notin {"sku", "title", "qty", "price"}
    OBVIOUS
  <2> QED BY <1>1, <2>1, <2>2 DEF Names
<1> QED BY <1>2, <1>4, <1>5

(* Every assignment of packOrder is to a field of the row.                 *)
LEMMA AssignmentsNamed ==
  /\ Len(Assignments) = 19
  /\ \A k \in 1 .. 19 : Assignments[k].name \in Names(GoOrderRow)
<1>1. Len(Assignments) = 19
  BY DEF Assignments
<1>2. ASSUME NEW k \in 1 .. 16
      PROVE  GoOrderRow[k].name \in Names(GoOrderRow) \cup {"_"}
  <2>1. Len(GoOrderRow) = 16
    BY DEF GoOrderRow
  <2> QED BY <2>1, Zenon DEF Names
<1>3. {"orderID", "createdAt", "status", "paymentMethod", "buyerName", "city", "address",
       "trackingNo", "remark", "itemStart", "itemCount", "buyerID", "paid",
       "hasTrackingNo", "itemsNull"} \subseteq Names(GoOrderRow)
  <2>1. {"orderID", "createdAt", "status", "paymentMethod", "buyerName"} \subseteq Names(GoOrderRow)
    <3>1. 1 \in 1 .. 16 /\ 2 \in 1 .. 16 /\ 3 \in 1 .. 16 /\ 4 \in 1 .. 16 /\ 5 \in 1 .. 16
      OBVIOUS
    <3> QED BY <1>2, <3>1, FieldNames, Zenon
  <2>2. {"city", "address", "trackingNo", "remark", "itemStart"} \subseteq Names(GoOrderRow)
    <3>1. 6 \in 1 .. 16 /\ 7 \in 1 .. 16 /\ 8 \in 1 .. 16 /\ 9 \in 1 .. 16 /\ 10 \in 1 .. 16
      OBVIOUS
    <3> QED BY <1>2, <3>1, FieldNames, Zenon
  <2>3. {"itemCount", "buyerID", "paid", "hasTrackingNo", "itemsNull"} \subseteq Names(GoOrderRow)
    <3>1. 11 \in 1 .. 16 /\ 12 \in 1 .. 16 /\ 13 \in 1 .. 16 /\ 14 \in 1 .. 16 /\ 15 \in 1 .. 16
      OBVIOUS
    <3> QED BY <1>2, <3>1, FieldNames, Zenon
  <2> QED BY <2>1, <2>2, <2>3, Zenon
<1>4. ASSUME NEW k \in 1 .. 19
      PROVE  Assignments[k].name \in
               {"orderID", "createdAt", "status", "paymentMethod", "buyerName", "city",
                "address", "trackingNo", "remark", "itemStart", "itemCount", "buyerID",
                "paid", "hasTrackingNo", "itemsNull"}
  BY DEF Assignments, Clear, Text, Branch, Always
<1> QED BY <1>1, <1>3, <1>4

(* Rows one behind the other.                                              *)
LEMMA RowsInside ==
  ASSUME NEW i \in Nat, NEW n \in Nat, i < n, NEW size \in Nat
  PROVE  i * size \in Nat /\ n * size \in Nat /\ i * size + size <= n * size
<1>1. PICK d \in Nat : n = i + 1 + d
  <2>1. n - (i + 1) \in Nat /\ n = i + 1 + (n - (i + 1))
    OBVIOUS
  <2> QED BY <2>1
<1>2. n * size = i * size + size + d * size /\ d * size \in Nat /\ i * size \in Nat
  BY <1>1
<1> QED BY <1>2

-----------------------------------------------------------------------------
(* The invariant: both arrays hold, in each field of each row, what was    *)
(* assigned to it last.                                                    *)
Holds(mem, base, decl, values) ==
  \A f \in Names(decl) : Load(mem, base, decl, f) = Bytes(values[f], Width(decl, f))

Stride == SizeOf(GoOrderRow)

OrdersHeld(mem, values) ==
  /\ IsMemory(mem, Rows * Stride)
  /\ DOMAIN values = 0 .. Rows - 1
  /\ \A i \in 0 .. Rows - 1 : DOMAIN values[i] = Names(GoOrderRow)
  /\ \A i \in 0 .. Rows - 1 : Holds(mem, i * Stride, GoOrderRow, values[i])

ItemHeld(mem, values) ==
  /\ IsMemory(mem, SizeOf(GoItemRow))
  /\ Holds(mem, 0, GoItemRow, values)

Where ==
  /\ row \in 0 .. Rows
  /\ step \in 1 .. 19

LayoutInv ==
  /\ Where
  /\ OrdersHeld(memory, given)
  /\ ItemHeld(item, packed)

(* Sizes are natural numbers, and each row is inside the array.            *)
LEMMA RowInside ==
  ASSUME NEW i \in 0 .. Rows - 1
  PROVE  /\ Stride \in Nat /\ i * Stride \in Nat /\ Rows * Stride \in Nat
         /\ i * Stride + Stride <= Rows * Stride
<1>1. Stride \in Nat
  BY OrderRowDeclares, SizeIs DEF Stride
<1>2. Rows \in Nat /\ i \in Nat /\ i < Rows
  BY RowsAssumption
<1> QED BY <1>1, <1>2, RowsInside

LEMMA ItemsInside == SizeOf(GoItemRow) \in Nat /\ 0 + SizeOf(GoItemRow) <= SizeOf(GoItemRow)
<1>1. SizeOf(GoItemRow) \in Nat
  BY ItemRowDeclares, SizeIs
<1> QED BY <1>1

(* Memory that is clear holds zero values.                                 *)
LEMMA ClearHolds ==
  ASSUME NEW decl, NEW n, Declares(decl, n), NEW m \in Nat,
         NEW mem, mem = [a \in 0 .. m - 1 |-> Zero],
         NEW base \in Nat, base + SizeOf(decl) <= m, NEW f \in Names(decl)
  PROVE  Load(mem, base, decl, f) = Bytes(Zero, Width(decl, f))
<1>1. PICK wide \in Nat, p \in Nat, size \in Nat :
        /\ wide = Width(decl, f) /\ p = Place(decl, f) /\ size = SizeOf(decl)
        /\ p + wide <= size
  BY Places
<1>2. Load(mem, base, decl, f) = [k \in 0 .. wide - 1 |-> mem[base + p + k]]
  <2>1. Load(mem, base, decl, f) =
          [k \in 0 .. Width(decl, f) - 1 |-> mem[base + Place(decl, f) + k]]
    BY LoadIs
  <2> QED BY <1>1, <2>1
<1>3. ASSUME NEW k \in 0 .. wide - 1 PROVE mem[base + p + k] = <<>>
  <2>1. base + p + k \in 0 .. m - 1
    BY <1>1
  <2> QED BY <2>1 DEF Zero
<1>4. Bytes(Zero, wide) = [k \in 0 .. wide - 1 |-> <<>>]
  BY DEF Bytes, Zero
<1>5. [k \in 0 .. wide - 1 |-> mem[base + p + k]] = [k \in 0 .. wide - 1 |-> <<>>]
  BY <1>3
<1> QED BY <1>1, <1>2, <1>4, <1>5, Zenon

LEMMA InitLayout == Init => LayoutInv
<1> SUFFICES ASSUME Init PROVE LayoutInv
  OBVIOUS
<1>1. Where
  BY RowsAssumption DEF Init, Where
<1>2. OrdersHeld(memory, given)
  <2>1. memory = [a \in 0 .. Rows * Stride - 1 |-> Zero]
    BY DEF Init, Stride
  <2>2. given = [i \in 0 .. Rows - 1 |-> [f \in Names(GoOrderRow) |-> Zero]]
    BY DEF Init
  <2>3. IsMemory(memory, Rows * Stride)
    BY <2>1 DEF IsMemory
  <2>4. DOMAIN given = 0 .. Rows - 1
    BY <2>2
  <2>5. ASSUME NEW i \in 0 .. Rows - 1
        PROVE  DOMAIN given[i] = Names(GoOrderRow) /\ Holds(memory, i * Stride, GoOrderRow, given[i])
    <3>1. given[i] = [f \in Names(GoOrderRow) |-> Zero]
      BY <2>2
    <3>2. /\ Stride \in Nat /\ i * Stride \in Nat /\ Rows * Stride \in Nat
          /\ i * Stride + Stride <= Rows * Stride
      BY RowInside
    <3>3. ASSUME NEW f \in Names(GoOrderRow)
          PROVE  Load(memory, i * Stride, GoOrderRow, f) = Bytes(given[i][f], Width(GoOrderRow, f))
      <4>1. Load(memory, i * Stride, GoOrderRow, f) = Bytes(Zero, Width(GoOrderRow, f))
        <5>1. PICK base \in Nat, m \in Nat : /\ base = i * Stride /\ m = Rows * Stride
                                           /\ base + SizeOf(GoOrderRow) <= m
          BY <3>2 DEF Stride
        <5>2. memory = [a \in 0 .. m - 1 |-> Zero]
          BY <2>1, <5>1
        <5>3. Load(memory, base, GoOrderRow, f) = Bytes(Zero, Width(GoOrderRow, f))
          BY <5>1, <5>2, OrderRowDeclares, ClearHolds
        <5> QED BY <5>1, <5>3
      <4>2. given[i][f] = Zero
        BY <3>1
      <4> QED BY <4>1, <4>2
    <3> QED BY <3>1, <3>3 DEF Holds
  <2> QED BY <2>3, <2>4, <2>5 DEF OrdersHeld
<1>3. ItemHeld(item, packed)
  <2>1. item = [a \in 0 .. SizeOf(GoItemRow) - 1 |-> Zero]
    BY DEF Init
  <2>2. IsMemory(item, SizeOf(GoItemRow))
    BY <2>1 DEF IsMemory
  <2>3. ASSUME NEW f \in Names(GoItemRow)
        PROVE  Load(item, 0, GoItemRow, f) = Bytes(packed[f], Width(GoItemRow, f))
    <3>1. Load(item, 0, GoItemRow, f) = Bytes(Zero, Width(GoItemRow, f))
      BY <2>1, ItemRowDeclares, ItemsInside, ClearHolds
    <3>2. packed[f] = Zero
      BY DEF Init
    <3> QED BY <3>1, <3>2
  <2> QED BY <2>2, <2>3 DEF ItemHeld, Holds
<1> QED BY <1>1, <1>2, <1>3 DEF LayoutInv

-----------------------------------------------------------------------------
(* An assignment to one field of one row keeps all others.                 *)
LEMMA RowsApart ==
  ASSUME NEW i \in 0 .. Rows - 1, NEW j \in 0 .. Rows - 1, i # j,
         NEW f \in Names(GoOrderRow), NEW g \in Names(GoOrderRow)
  PROVE  Elsewhere(GoOrderRow, i * Stride, f, j * Stride, g)
<1>1. PICK s \in Nat, pf \in Nat, wf \in Nat, pg \in Nat, wg \in Nat :
        /\ s = Stride
        /\ pf = Place(GoOrderRow, f) /\ wf = Width(GoOrderRow, f) /\ pf + wf <= s
        /\ pg = Place(GoOrderRow, g) /\ wg = Width(GoOrderRow, g) /\ pg + wg <= s
  BY OrderRowDeclares, Places DEF Stride
<1>2. PICK a \in Nat, b \in Nat : a = i * s /\ b = j * s
  BY <1>1, RowInside
<1>3. i \in Nat /\ j \in Nat /\ (i < j \/ j < i)
  BY RowsAssumption
<1>4. a + s <= b \/ b + s <= a
  BY <1>2, <1>3, RowsInside
<1>5. a + pf + wf <= b + pg \/ b + pg + wg <= a + pf
  BY <1>1, <1>4
<1> QED BY <1>1, <1>2, <1>5 DEF Elsewhere

LEMMA AssignHolds ==
  ASSUME NEW mem, NEW values, OrdersHeld(mem, values),
         NEW i \in 0 .. Rows - 1, NEW name \in Names(GoOrderRow), NEW v
  PROVE  OrdersHeld(Store(mem, i * Stride, GoOrderRow, name, v),
                    [values EXCEPT ![i][name] = v])
<1>1. PICK m \in Nat, base \in Nat : /\ m = Rows * Stride /\ base = i * Stride
                                   /\ base + SizeOf(GoOrderRow) <= m
  BY RowInside DEF Stride
<1>2. IsMemory(mem, m) /\ Declares(GoOrderRow, 16)
  BY <1>1, OrderRowDeclares DEF OrdersHeld
<1>3. PICK stored : stored = Store(mem, base, GoOrderRow, name, v)
  OBVIOUS
<1>4. PICK after : after = [values EXCEPT ![i][name] = v]
  OBVIOUS
<1>5. DOMAIN values = 0 .. Rows - 1 /\ \A j \in 0 .. Rows - 1 : DOMAIN values[j] = Names(GoOrderRow)
  BY DEF OrdersHeld
<1>6. IsMemory(stored, m)
  BY <1>1, <1>2, <1>3, StoreIs
<1>7. /\ DOMAIN after = 0 .. Rows - 1
      /\ \A j \in 0 .. Rows - 1 : DOMAIN after[j] = Names(GoOrderRow)
      /\ \A j \in 0 .. Rows - 1 : j # i => after[j] = values[j]
      /\ after[i][name] = v
      /\ \A f \in Names(GoOrderRow) : f # name => after[i][f] = values[i][f]
  BY <1>4, <1>5
<1>8. ASSUME NEW j \in 0 .. Rows - 1, NEW f \in Names(GoOrderRow)
      PROVE  Load(stored, j * Stride, GoOrderRow, f) = Bytes(after[j][f], Width(GoOrderRow, f))
  <2>1. PICK other \in Nat : other = j * Stride /\ other + SizeOf(GoOrderRow) <= m
    BY <1>1, RowInside DEF Stride
  <2>2. Load(mem, other, GoOrderRow, f) = Bytes(values[j][f], Width(GoOrderRow, f))
    BY <2>1 DEF OrdersHeld, Holds
  <2>3. CASE j = i /\ f = name
    <3>1. Load(stored, base, GoOrderRow, name) = Bytes(v, Width(GoOrderRow, name))
      BY <1>1, <1>2, <1>3, LoadsStored
    <3> QED BY <1>1, <1>7, <2>3, <3>1
  <2>4. CASE ~(j = i /\ f = name)
    <3>1. after[j][f] = values[j][f]
      BY <1>7, <2>4
    <3>2. Elsewhere(GoOrderRow, base, name, other, f)
      <4>1. CASE j # i
        BY <1>1, <2>1, <4>1, RowsApart
      <4>2. CASE j = i /\ f # name
        <5>1. other = base
          BY <1>1, <2>1, <4>2
        <5>2. PICK p \in Nat, w \in Nat, q \in Nat, u \in Nat :
                /\ p = Place(GoOrderRow, f) /\ w = Width(GoOrderRow, f)
                /\ q = Place(GoOrderRow, name) /\ u = Width(GoOrderRow, name)
          BY <1>2, Places
        <5>3. p + w <= q \/ q + u <= p
          BY <1>2, <4>2, <5>2, PlacesApart
        <5>4. base + q + u <= base + p \/ base + p + w <= base + q
          BY <5>3
        <5> QED BY <5>1, <5>2, <5>4 DEF Elsewhere
      <4> QED BY <2>4, <4>1, <4>2
    <3>3. Load(stored, other, GoOrderRow, f) = Load(mem, other, GoOrderRow, f)
      BY <1>1, <1>2, <1>3, <2>1, <3>2, LoadsElsewhere
    <3> QED BY <2>1, <2>2, <3>1, <3>3
  <2> QED BY <2>3, <2>4
<1>9. OrdersHeld(stored, after)
  BY <1>1, <1>6, <1>7, <1>8 DEF OrdersHeld, Holds
<1> QED BY <1>1, <1>3, <1>4, <1>9

-----------------------------------------------------------------------------
(* An item is filled field by field, in the order of its declaration.      *)
LEMMA StoreItem ==
  ASSUME NEW mem, IsMemory(mem, SizeOf(GoItemRow)), NEW name \in Names(GoItemRow), NEW v,
         NEW next, next = Store(mem, 0, GoItemRow, name, v)
  PROVE  /\ IsMemory(next, SizeOf(GoItemRow))
         /\ Load(next, 0, GoItemRow, name) = Bytes(v, Width(GoItemRow, name))
         /\ \A f \in Names(GoItemRow) : f # name =>
              Load(next, 0, GoItemRow, f) = Load(mem, 0, GoItemRow, f)
<1>1. PICK m \in Nat : m = SizeOf(GoItemRow) /\ 0 + SizeOf(GoItemRow) <= m
  BY ItemsInside
<1>2. IsMemory(mem, m) /\ Declares(GoItemRow, 4)
  BY <1>1, ItemRowDeclares
<1>3. IsMemory(next, m)
  BY <1>1, <1>2, StoreIs
<1>4. Load(next, 0, GoItemRow, name) = Bytes(v, Width(GoItemRow, name))
  BY <1>1, <1>2, LoadsStored
<1>5. ASSUME NEW f \in Names(GoItemRow), f # name
      PROVE  Load(next, 0, GoItemRow, f) = Load(mem, 0, GoItemRow, f)
  <2>1. PICK p \in Nat, w \in Nat, q \in Nat, u \in Nat :
          /\ p = Place(GoItemRow, f) /\ w = Width(GoItemRow, f)
          /\ q = Place(GoItemRow, name) /\ u = Width(GoItemRow, name)
    BY <1>2, Places
  <2>2. p + w <= q \/ q + u <= p
    BY <1>2, <1>5, <2>1, PlacesApart
  <2>3. 0 + q + u <= 0 + p \/ 0 + p + w <= 0 + q
    BY <2>2
  <2>4. Elsewhere(GoItemRow, 0, name, 0, f)
    BY <2>1, <2>3 DEF Elsewhere
  <2> QED BY <1>1, <1>2, <2>4, LoadsElsewhere
<1> QED BY <1>1, <1>3, <1>4, <1>5

(* The fields of an item when k of them are stored.                        *)
Filling(filled, mem, value) ==
  filled = [k \in 0 .. 4 |->
              IF k = 0 THEN mem
              ELSE Store(filled[k - 1], 0, GoItemRow, GoItemRow[k].name,
                         <<value, GoItemRow[k].name>>)]

LEMMA FillingExists ==
  ASSUME NEW mem, NEW value
  PROVE  \E filled : Filling(filled, mem, value)
<1>1. PICK m1, m2, m3, m4 :
        /\ m1 = Store(mem, 0, GoItemRow, GoItemRow[1].name, <<value, GoItemRow[1].name>>)
        /\ m2 = Store(m1, 0, GoItemRow, GoItemRow[2].name, <<value, GoItemRow[2].name>>)
        /\ m3 = Store(m2, 0, GoItemRow, GoItemRow[3].name, <<value, GoItemRow[3].name>>)
        /\ m4 = Store(m3, 0, GoItemRow, GoItemRow[4].name, <<value, GoItemRow[4].name>>)
  OBVIOUS
<1>2. PICK f : f = [k \in 0 .. 4 |-> IF k = 0 THEN mem ELSE IF k = 1 THEN m1
                                   ELSE IF k = 2 THEN m2 ELSE IF k = 3 THEN m3 ELSE m4]
  OBVIOUS
<1>3. f[0] = mem /\ f[1] = m1 /\ f[2] = m2 /\ f[3] = m3 /\ f[4] = m4
  BY <1>2
<1>4. ASSUME NEW k \in 0 .. 4
      PROVE  f[k] = IF k = 0 THEN mem
                    ELSE Store(f[k - 1], 0, GoItemRow, GoItemRow[k].name,
                               <<value, GoItemRow[k].name>>)
  <2>1. CASE k = 0
    BY <1>3, <2>1
  <2>2. CASE k = 1
    <3>1. k - 1 = 0 /\ k # 0
      BY <2>2
    <3> QED BY <1>1, <1>3, <2>2, <3>1
  <2>3. CASE k = 2
    <3>1. k - 1 = 1 /\ k # 0
      BY <2>3
    <3> QED BY <1>1, <1>3, <2>3, <3>1
  <2>4. CASE k = 3
    <3>1. k - 1 = 2 /\ k # 0
      BY <2>4
    <3> QED BY <1>1, <1>3, <2>4, <3>1
  <2>5. CASE k = 4
    <3>1. k - 1 = 3 /\ k # 0
      BY <2>5
    <3> QED BY <1>1, <1>3, <2>5, <3>1
  <2> QED BY <2>1, <2>2, <2>3, <2>4, <2>5
<1>5. f = [k \in 0 .. 4 |-> f[k]]
  BY <1>2
<1>6. Filling(f, mem, value)
  BY <1>4, <1>5 DEF Filling
<1> QED BY <1>6

LEMMA FilledHolds ==
  ASSUME NEW mem, IsMemory(mem, SizeOf(GoItemRow)), NEW value,
         NEW filled, Filling(filled, mem, value)
  PROVE  ItemHeld(filled[4], [f \in Names(GoItemRow) |-> <<value, f>>])
<1>1. /\ filled[0] = mem
      /\ filled[1] = Store(filled[0], 0, GoItemRow, "sku", <<value, "sku">>)
      /\ filled[2] = Store(filled[1], 0, GoItemRow, "title", <<value, "title">>)
      /\ filled[3] = Store(filled[2], 0, GoItemRow, "qty", <<value, "qty">>)
      /\ filled[4] = Store(filled[3], 0, GoItemRow, "price", <<value, "price">>)
  <2>1. ASSUME NEW k \in 1 .. 4
        PROVE  filled[k] = Store(filled[k - 1], 0, GoItemRow, GoItemRow[k].name,
                                 <<value, GoItemRow[k].name>>)
    BY DEF Filling
  <2>2. filled[0] = mem
    BY DEF Filling
  <2>3. 1 - 1 = 0 /\ 2 - 1 = 1 /\ 3 - 1 = 2 /\ 4 - 1 = 3
    OBVIOUS
  <2>4. 1 \in 1 .. 4 /\ 2 \in 1 .. 4 /\ 3 \in 1 .. 4 /\ 4 \in 1 .. 4
    OBVIOUS
  <2>5. filled[1] = Store(filled[0], 0, GoItemRow, "sku", <<value, "sku">>)
    BY <2>1, <2>3, <2>4, ItemRowDeclares
  <2>6. filled[2] = Store(filled[1], 0, GoItemRow, "title", <<value, "title">>)
    BY <2>1, <2>3, <2>4, ItemRowDeclares
  <2>7. filled[3] = Store(filled[2], 0, GoItemRow, "qty", <<value, "qty">>)
    BY <2>1, <2>3, <2>4, ItemRowDeclares
  <2>8. filled[4] = Store(filled[3], 0, GoItemRow, "price", <<value, "price">>)
    BY <2>1, <2>3, <2>4, ItemRowDeclares
  <2> QED BY <2>2, <2>5, <2>6, <2>7, <2>8
<1>2. PICK m1, m2, m3, m4 :
        m1 = filled[1] /\ m2 = filled[2] /\ m3 = filled[3] /\ m4 = filled[4]
  OBVIOUS
<1>3. /\ "sku" \in Names(GoItemRow) /\ "title" \in Names(GoItemRow)
      /\ "qty" \in Names(GoItemRow) /\ "price" \in Names(GoItemRow)
  BY ItemRowDeclares
<1>4. /\ IsMemory(m1, SizeOf(GoItemRow))
      /\ Load(m1, 0, GoItemRow, "sku") = Bytes(<<value, "sku">>, Width(GoItemRow, "sku"))
  BY <1>1, <1>2, <1>3, StoreItem
<1>5. /\ IsMemory(m2, SizeOf(GoItemRow))
      /\ Load(m2, 0, GoItemRow, "title") = Bytes(<<value, "title">>, Width(GoItemRow, "title"))
      /\ \A f \in Names(GoItemRow) : f # "title" =>
           Load(m2, 0, GoItemRow, f) = Load(m1, 0, GoItemRow, f)
  BY <1>1, <1>2, <1>3, <1>4, StoreItem
<1>6. /\ IsMemory(m3, SizeOf(GoItemRow))
      /\ Load(m3, 0, GoItemRow, "qty") = Bytes(<<value, "qty">>, Width(GoItemRow, "qty"))
      /\ \A f \in Names(GoItemRow) : f # "qty" =>
           Load(m3, 0, GoItemRow, f) = Load(m2, 0, GoItemRow, f)
  BY <1>1, <1>2, <1>3, <1>5, StoreItem
<1>7. /\ IsMemory(m4, SizeOf(GoItemRow))
      /\ Load(m4, 0, GoItemRow, "price") = Bytes(<<value, "price">>, Width(GoItemRow, "price"))
      /\ \A f \in Names(GoItemRow) : f # "price" =>
           Load(m4, 0, GoItemRow, f) = Load(m3, 0, GoItemRow, f)
  BY <1>1, <1>2, <1>3, <1>6, StoreItem
<1>8. \A f \in {"sku", "title", "qty", "price"} :
        Load(m4, 0, GoItemRow, f) = Bytes(<<value, f>>, Width(GoItemRow, f))
  BY <1>3, <1>4, <1>5, <1>6, <1>7
<1>9. \A f \in Names(GoItemRow) :
        Load(m4, 0, GoItemRow, f) = Bytes(<<value, f>>, Width(GoItemRow, f))
  BY <1>8, ItemRowDeclares
<1>10. ItemHeld(m4, [f \in Names(GoItemRow) |-> <<value, f>>])
  BY <1>7, <1>9 DEF ItemHeld, Holds
<1> QED BY <1>2, <1>10

-----------------------------------------------------------------------------
(* Every step keeps the invariant.                                         *)
LEMMA NextStep ==
  ASSUME Where, row < Rows, NEW n \in {1, 2}, Advance(n)
  PROVE  Where'
<1>1. Rows \in Nat /\ Len(Assignments) = 19
  BY RowsAssumption, AssignmentsNamed
<1>2. CASE step + n > 19
  BY <1>1, <1>2 DEF Where, Advance
<1>3. CASE ~(step + n > 19)
  BY <1>1, <1>3 DEF Where, Advance
<1> QED BY <1>2, <1>3

LEMMA AssignKeeps ==
  ASSUME OrdersHeld(memory, given), Where, row < Rows, NEW v, Assign(Current.name, v)
  PROVE  OrdersHeld(memory', given')
<1>1. row \in 0 .. Rows - 1
  BY RowsAssumption DEF Where
<1>2. PICK name : name = Current.name /\ name \in Names(GoOrderRow)
  BY AssignmentsNamed DEF Where, Current
<1>3. OrdersHeld(Store(memory, row * Stride, GoOrderRow, name, v),
                 [given EXCEPT ![row][name] = v])
  BY <1>1, <1>2, AssignHolds
<1>4. /\ memory' = Store(memory, row * Stride, GoOrderRow, name, v)
      /\ given' = [given EXCEPT ![row][name] = v]
  BY <1>2 DEF Assign, Stride
<1> QED BY <1>3, <1>4

LEMMA LayoutStep ==
  ASSUME LayoutInv, [Next]_vars
  PROVE  LayoutInv'
<1>0. Where /\ OrdersHeld(memory, given) /\ ItemHeld(item, packed)
  BY DEF LayoutInv
<1>1. CASE Start
  <2>1. row' = 0 /\ step' = 1
    BY <1>1 DEF Start
  <2>2. Where'
    BY <2>1, RowsAssumption DEF Where
  <2>3. memory' = memory /\ given' = given /\ item' = item /\ packed' = packed
    BY <1>1 DEF Start
  <2>4. OrdersHeld(memory', given') /\ ItemHeld(item', packed')
    BY <1>0, <2>3
  <2> QED BY <2>2, <2>4 DEF LayoutInv, OrdersHeld, ItemHeld, Holds
<1>2. CASE AssignField
  <2>1. PICK v : Assign(Current.name, v) /\ Advance(1) /\ row < Rows
    BY <1>2 DEF AssignField
  <2>2. Where'
    BY <1>0, <2>1, NextStep
  <2>3. OrdersHeld(memory', given')
    BY <1>0, <2>1, AssignKeeps
  <2>4. ItemHeld(item', packed')
    <3>1. item' = item /\ packed' = packed
      BY <1>2 DEF AssignField
    <3> QED BY <1>0, <3>1
  <2> QED BY <2>2, <2>3, <2>4 DEF LayoutInv, OrdersHeld, ItemHeld, Holds
<1>3. CASE SkipBranch
  <2>1. PICK n \in {1, 2} : Advance(n) /\ row < Rows
    BY <1>3 DEF SkipBranch
  <2>2. Where'
    BY <1>0, <2>1, NextStep
  <2>3. memory' = memory /\ given' = given /\ item' = item /\ packed' = packed
    BY <1>3 DEF SkipBranch
  <2>4. OrdersHeld(memory', given') /\ ItemHeld(item', packed')
    BY <1>0, <2>3
  <2> QED BY <2>2, <2>4 DEF LayoutInv, OrdersHeld, ItemHeld, Holds
<1>4. CASE AppendItem
  <2>1. Advance(1) /\ row < Rows
    BY <1>4 DEF AppendItem
  <2>2. Where'
    BY <1>0, <2>1, NextStep
  <2>3. memory' = memory /\ given' = given
    BY <1>4 DEF AppendItem
  <2>4. OrdersHeld(memory', given')
    BY <1>0, <2>3
  <2>5. PICK filled : Filling(filled, item, use) /\ item' = filled[4]
    <3>1. Len(GoItemRow) = 4
      BY ItemRowDeclares DEF Declares
    <3>2. PICK chosen : chosen = CHOOSE filled : Filling(filled, item, use)
      OBVIOUS
    <3>3. Filling(chosen, item, use)
      BY <3>2, FillingExists, Zenon
    <3>4. item' = chosen[4]
      BY <1>4, <3>1, <3>2 DEF AppendItem, Filling
    <3> QED BY <3>3, <3>4
  <2>6. packed' = [f \in Names(GoItemRow) |-> <<use, f>>]
    BY <1>4 DEF AppendItem
  <2>7. IsMemory(item, SizeOf(GoItemRow))
    BY <1>0 DEF ItemHeld
  <2>8. ItemHeld(item', packed')
    BY <2>5, <2>6, <2>7, FilledHolds
  <2> QED BY <2>2, <2>4, <2>8 DEF LayoutInv, OrdersHeld, ItemHeld, Holds
<1>5. CASE GiveUp
  <2>1. row < Rows /\ row' = Rows /\ step' = 1
    BY <1>5 DEF GiveUp
  <2>2. Where'
    BY <2>1, RowsAssumption DEF Where
  <2>3. OrdersHeld(memory', given')
    <3>1. Assign(Current.name, Zero) \/ (memory' = memory /\ given' = given)
      BY <1>5 DEF GiveUp
    <3>2. CASE Assign(Current.name, Zero)
      BY <1>0, <2>1, <3>2, AssignKeeps
    <3>3. CASE memory' = memory /\ given' = given
      BY <1>0, <3>3
    <3> QED BY <3>1, <3>2, <3>3
  <2>4. ItemHeld(item', packed')
    <3>1. item' = item /\ packed' = packed
      BY <1>5 DEF GiveUp
    <3> QED BY <1>0, <3>1
  <2> QED BY <2>2, <2>3, <2>4 DEF LayoutInv, OrdersHeld, ItemHeld, Holds
<1>6. CASE UNCHANGED vars
  BY <1>6 DEF vars, LayoutInv, Where, OrdersHeld, ItemHeld, Holds
<1> QED BY <1>1, <1>2, <1>3, <1>4, <1>5, <1>6 DEF Next

(* For any number of rows and of calls that use them, C reads at its own   *)
(* offsets and with its own stride what Go assigned last to each field,    *)
(* also when a call gave up in the middle of a row                         *)
(* (jitjson.h:32-66, types.go:13-70).                                      *)
THEOREM FieldsReadAsWritten == Spec => []ReadsWhatWasWritten
<1>1. LayoutInv => ReadsWhatWasWritten
  <2> SUFFICES ASSUME LayoutInv PROVE ReadsWhatWasWritten
    OBVIOUS
  <2>1. OrdersHeld(memory, given) /\ ItemHeld(item, packed)
    BY DEF LayoutInv
  <2>2. ASSUME NEW i \in 0 .. Rows - 1, NEW name \in Names(COrderRow)
        PROVE  Load(memory, i * SizeOf(COrderRow), COrderRow, name)
                 = Bytes(given[i][name], COrderRow[Index(COrderRow, name)].size)
    BY <2>1, SameDeclarations DEF OrdersHeld, Holds, Stride, Width
  <2>3. ASSUME NEW name \in Names(CItemRow)
        PROVE  Load(item, 0, CItemRow, name)
                 = Bytes(packed[name], CItemRow[Index(CItemRow, name)].size)
    BY <2>1, SameDeclarations DEF ItemHeld, Holds, Width
  <2> QED BY <2>2, <2>3 DEF ReadsWhatWasWritten
<1> QED BY <1>1, InitLayout, LayoutStep, PTL DEF Spec
=============================================================================
