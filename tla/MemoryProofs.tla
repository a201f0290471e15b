---------------------------- MODULE MemoryProofs ----------------------------
(***************************************************************************)
(* The safety of Memory for every well-formed memory map, page size, place *)
(* and size of the heap and number of page tables: what the recursive      *)
(* definition of usable_frames computes, and what init_heap does with it.  *)
(***************************************************************************)
EXTENDS Memory, LeastNumber

-----------------------------------------------------------------------------
(* Division by the page size: an aligned address is a multiple of it, and  *)
(* what is left after a multiple does not count.                           *)
LEMMA MultipleOf ==
    ASSUME NEW p \in Nat \ {0}, NEW a \in Nat, a % p = 0
    PROVE  \E q \in Nat : a = q * p
  <1>1. a = p * (a \div p) + (a % p)
    OBVIOUS
  <1>2. a \div p \in Nat
    OBVIOUS
  <1> QED BY <1>1, <1>2

(* Division undoes multiplication and a remainder below the divisor. *)
LEMMA Quotient ==
    ASSUME NEW p \in Nat \ {0}, NEW q \in Nat, NEW r \in 0 .. p - 1
    PROVE  (q * p + r) \div p = q
  OBVIOUS

(* Multiplication is monotone. *)
LEMMA TimesMonotone ==
    ASSUME NEW p \in Nat, NEW a \in Nat, NEW b \in Nat, a <= b
    PROVE  a * p <= b * p
  <1>1. PICK d \in Nat : b = a + d
    <2>1. b - a \in Nat /\ b = a + (b - a) OBVIOUS
    <2> QED BY <2>1
  <1>2. b * p = a * p + d * p BY <1>1
  <1>3. d * p \in Nat /\ a * p \in Nat OBVIOUS
  <1> QED BY <1>2, <1>3

(* The quotient is the page an address lies in, *)
LEMMA PageOf ==
    ASSUME NEW p \in Nat, p > 0, NEW a \in Nat
    PROVE  \E q \in Nat : q = a \div p /\ q * p <= a /\ a < (q + 1) * p
  <1>1. a = p * (a \div p) + (a % p) /\ a % p \in 0 .. p - 1
    OBVIOUS
  <1>2. PICK q \in Nat : q = a \div p
    OBVIOUS
  <1>3. a = q * p + (a % p) BY <1>1, <1>2
  <1>4. (q + 1) * p = q * p + p BY <1>2
  <1>5. PICK x \in Nat : x = q * p BY <1>2
  <1>6. q * p <= a /\ a < (q + 1) * p BY <1>1, <1>3, <1>4, <1>5
  <1> QED BY <1>2, <1>6

(* and later addresses lie in later pages. *)
LEMMA PageOrder ==
    ASSUME NEW p \in Nat, NEW a \in Nat, NEW b \in Nat, a <= b,
           NEW i \in Nat, i * p <= a, NEW j \in Nat, b < (j + 1) * p
    PROVE  i <= j
  <1> SUFFICES ASSUME j + 1 <= i PROVE FALSE
    OBVIOUS
  <1>1. (j + 1) * p <= i * p BY TimesMonotone
  <1>2. PICK x \in Nat, y \in Nat : x = (j + 1) * p /\ y = i * p OBVIOUS
  <1> QED BY <1>1, <1>2

-----------------------------------------------------------------------------
(* MemoryAssumption in the form the proofs use. *)
LEMMA MemConstants ==
    /\ PageSize \in Nat \ {0} /\ MaxTables \in Nat
    /\ HeapStart \in Nat /\ HeapSize \in Nat /\ HeapSize > 0
    /\ NoFrame \notin Nat
    /\ \A map \in MemoryMaps : map \in Seq(MemoryRegion) /\ WellFormed(map)
  BY MemoryAssumption

(* The frames of an aligned region are its pages, from the first to the    *)
(* last, one page apart.                                                   *)
LEMMA FramesOfRegion ==
    ASSUME NEW r \in MemoryRegion, r.start % PageSize = 0, r.end % PageSize = 0, r.start <= r.end
    PROVE  /\ FramesOf(r) \in Seq(Nat)
           /\ \A i \in 1 .. Len(FramesOf(r)) :
                 /\ r.start <= FramesOf(r)[i] /\ FramesOf(r)[i] + PageSize <= r.end
           /\ \A i, j \in 1 .. Len(FramesOf(r)) :
                 i < j => FramesOf(r)[i] + PageSize <= FramesOf(r)[j]
  <1> DEFINE P == PageSize
             F == FramesOf(r)
             N == (r.end - r.start + PageSize - 1) \div PageSize
  <1>1. P \in Nat \ {0} /\ r.start \in Nat /\ r.end \in Nat
    BY MemConstants DEF MemoryRegion
  <1>2. PICK a \in Nat : r.start = a * P
    BY <1>1, MultipleOf
  <1>3. PICK b \in Nat : r.end = b * P
    BY <1>1, MultipleOf
  <1> HIDE DEF P
  <1>4. a <= b
    BY <1>1, <1>2, <1>3
  <1>5. PICK c \in Nat : b = a + c
    <2>1. b - a \in Nat /\ b = a + (b - a) BY <1>4
    <2> QED BY <2>1
  <1>6. r.end = r.start + c * P
    BY <1>1, <1>2, <1>3, <1>5
  <1>7. N = c
    <2>1. r.end - r.start + P - 1 = c * P + (P - 1)
      BY <1>1, <1>6
    <2>2. P - 1 \in 0 .. P - 1 BY <1>1
    <2>3. (c * P + (P - 1)) \div P = c
      BY <1>1, <2>2, Quotient
    <2> QED BY <2>1, <2>3 DEF P
  <1> HIDE DEF N
  <1>8. ASSUME NEW i \in 1 .. c PROVE ContainingFrame(r.start + (i - 1) * P) = (a + (i - 1)) * P
    <2>1. PICK d \in Nat : d = i - 1 OBVIOUS
    <2>2. r.start + d * P = (a + d) * P
      BY <1>1, <1>2
    <2>3. ((a + d) * P) \div P = a + d
      <3>1. ((a + d) * P + 0) \div P = a + d
        <4>1. a + d \in Nat /\ 0 \in 0 .. P - 1 BY <1>1
        <4> QED BY <1>1, <4>1, Quotient
      <3>2. (a + d) * P + 0 = (a + d) * P BY <1>1
      <3> QED BY <3>1, <3>2
    <2> QED BY <2>1, <2>2, <2>3 DEF ContainingFrame, P
  <1>9. F = [i \in 1 .. c |-> (a + (i - 1)) * P]
    <2>1. F = [i \in 1 .. c |-> ContainingFrame(r.start + (i - 1) * P)]
      BY <1>7 DEF FramesOf, N, P
    <2> HIDE DEF F
    <2> QED BY <2>1, <1>8
  <1>10. \A i \in 1 .. c : (a + (i - 1)) * P \in Nat
    BY <1>1
  <1>11. F \in Seq(Nat) /\ Len(F) = c /\ \A i \in 1 .. c : F[i] = (a + (i - 1)) * P
    <2> HIDE DEF F
    <2> QED BY <1>9, <1>10
  <1> HIDE DEF F
  <1>12. ASSUME NEW i \in 1 .. c PROVE r.start <= F[i] /\ F[i] + P <= r.end
    <2>1. PICK d \in Nat : d = i - 1 /\ d + 1 <= c OBVIOUS
    <2>2. F[i] = (a + d) * P BY <1>11, <2>1
    <2>3. PICK e \in Nat : c = d + 1 + e
      <3>1. c - (d + 1) \in Nat /\ c = d + 1 + (c - (d + 1)) BY <2>1
      <3> QED BY <3>1
    <2>4. F[i] = r.start + d * P BY <1>1, <1>2, <2>2
    <2>5. r.end = r.start + d * P + P + e * P BY <1>1, <1>6, <2>3
    <2>6. d * P \in Nat /\ e * P \in Nat BY <1>1
    <2> QED BY <1>1, <2>4, <2>5, <2>6
  <1>13. ASSUME NEW i \in 1 .. c, NEW j \in 1 .. c, i < j PROVE F[i] + P <= F[j]
    <2>1. PICK e \in Nat : j = i + 1 + e
      <3>1. j - (i + 1) \in Nat /\ j = i + 1 + (j - (i + 1)) BY <1>13
      <3> QED BY <3>1
    <2>2. F[j] = F[i] + P + e * P
      BY <1>1, <1>11, <2>1
    <2>3. e * P \in Nat BY <1>1
    <2>4. F[i] \in Nat BY <1>11
    <2> QED BY <1>1, <2>2, <2>3, <2>4
  <1> QED BY <1>11, <1>12, <1>13 DEF F, P

-----------------------------------------------------------------------------
(* One more region, as the recursion of usable_frames adds it. *)
WithRegion(frames, r) == IF r.usable THEN frames \o FramesOf(r) ELSE frames

(* The recursion of usable_frames as an equation on a function u. *)
Collects(u, map, N) ==
    u = [n \in 0 .. N |-> IF n = 0 THEN <<>> ELSE WithRegion(u[n - 1], map[n])]

(* The recursion has a solution: it is well defined. *)
LEMMA CollectsExists ==
    ASSUME NEW map
    PROVE  \A N \in Nat : \E u : Collects(u, map, N)
  <1> SUFFICES ASSUME NEW M \in Nat PROVE \E u : Collects(u, map, M)
    OBVIOUS
  <1> DEFINE T == {N \in Nat : \E u : Collects(u, map, N)}
  <1>1. 0 \in T
    <2>1. Collects([n \in 0 .. 0 |-> <<>>], map, 0)
      BY DEF Collects
    <2> QED BY <2>1
  <1>2. ASSUME NEW N \in 1 .. M, N - 1 \in T PROVE N \in T
    <2>1. PICK u : Collects(u, map, N - 1)
      BY <1>2
    <2>2. N \in Nat /\ N # 0 OBVIOUS
    <2> DEFINE v == [n \in 0 .. N |-> IF n = N THEN WithRegion(u[N - 1], map[N]) ELSE u[n]]
    <2>3. \A n \in 0 .. N - 1 : v[n] = u[n] BY <2>2
    <2>4. \A n \in 0 .. N : v[n] = IF n = 0 THEN <<>> ELSE WithRegion(v[n - 1], map[n])
      <3> SUFFICES ASSUME NEW n \in 0 .. N
                   PROVE  v[n] = IF n = 0 THEN <<>> ELSE WithRegion(v[n - 1], map[n])
        OBVIOUS
      <3>1. CASE n = N
        <4>1. v[N] = WithRegion(u[N - 1], map[N]) BY <2>2
        <4>2. v[N - 1] = u[N - 1] BY <2>2, <2>3
        <4> QED BY <2>2, <3>1, <4>1, <4>2
      <3>2. CASE n # N
        <4>1. n \in 0 .. N - 1 BY <2>2, <3>2
        <4>2. v[n] = u[n] BY <4>1, <2>3
        <4>3. u[n] = IF n = 0 THEN <<>> ELSE WithRegion(u[n - 1], map[n])
          BY <2>1, <4>1 DEF Collects
        <4>4. n # 0 => v[n - 1] = u[n - 1] BY <2>2, <4>1, <2>3
        <4> QED BY <4>2, <4>3, <4>4
      <3> QED BY <3>1, <3>2
    <2>5. Collects(v, map, N)
      <3>1. v = [n \in 0 .. N |-> v[n]] OBVIOUS
      <3> HIDE DEF v
      <3> QED BY <2>4, <3>1 DEF Collects
    <2> QED BY <2>2, <2>5
  <1> HIDE DEF T
  <1>3. M \in T
    <2>1. \A n \in 0 .. M : n \in T BY <1>1, <1>2, UpTo
    <2> QED BY <2>1
  <1> QED BY <1>3 DEF T

(* usable_frames is the last value of a solution. *)
LEMMA UsableFramesRecursion ==
    ASSUME NEW map \in Seq(MemoryRegion)
    PROVE  \E u : Collects(u, map, Len(map)) /\ usable_frames(map) = u[Len(map)]
  <1> DEFINE u == CHOOSE f : Collects(f, map, Len(map))
  <1>1. Collects(u, map, Len(map))
    BY CollectsExists
  <1>2. usable_frames(map) = u[Len(map)]
    BY DEF usable_frames, Collects, WithRegion
  <1> QED BY <1>1, <1>2

-----------------------------------------------------------------------------
(* What the allocator needs of a list of frames: they are pages of usable  *)
(* regions among the first n of the map, at least a page apart.            *)
Apart(x, y) == x + PageSize <= y \/ y + PageSize <= x

GoodFrames(f, map, n) ==
    /\ f \in Seq(Nat)
    /\ \A i \in 1 .. Len(f) : \E k \in 1 .. n :
          map[k].usable /\ map[k].start <= f[i] /\ f[i] + PageSize <= map[k].end
    /\ \A i, j \in 1 .. Len(f) : i < j => Apart(f[i], f[j])

(* Adding the frames of region n to a good list of the regions before it   *)
(* gives a good list: regions are aligned and disjoint.                    *)
LEMMA GoodFramesExtend ==
    ASSUME NEW map \in Seq(MemoryRegion), WellFormed(map), NEW n \in 1 .. Len(map),
           NEW f, GoodFrames(f, map, n - 1)
    PROVE  GoodFrames(WithRegion(f, map[n]), map, n)
  <1> DEFINE g == FramesOf(map[n])
             P == PageSize
  <1>1. f \in Seq(Nat) /\ n \in Nat /\ P \in Nat \ {0} /\ Len(map) \in Nat
    BY MemConstants DEF GoodFrames
  <1>2. \A k \in 1 .. Len(map) :
            map[k] \in MemoryRegion /\ map[k].start \in Nat /\ map[k].end \in Nat
    <2>1. \A k \in 1 .. Len(map) : map[k] \in MemoryRegion OBVIOUS
    <2>2. \A r \in MemoryRegion : r.start \in Nat /\ r.end \in Nat BY DEF MemoryRegion
    <2> QED BY <2>1, <2>2
  <1>3. /\ g \in Seq(Nat)
        /\ \A i \in 1 .. Len(g) : map[n].start <= g[i] /\ g[i] + P <= map[n].end
        /\ \A i, j \in 1 .. Len(g) : i < j => g[i] + P <= g[j]
    <2>1. /\ map[n].start % PageSize = 0 /\ map[n].end % PageSize = 0
          /\ map[n].start <= map[n].end
      BY DEF WellFormed
    <2> QED BY <1>2, <2>1, FramesOfRegion
  <1>4. \A k \in 1 .. n - 1 : map[k].end <= map[n].start \/ map[n].end <= map[k].start
    <2>1. \A i, j \in DOMAIN map : i # j => Disjoint(map[i], map[j]) BY DEF WellFormed
    <2>2. \A k \in 1 .. n - 1 : k \in DOMAIN map /\ n \in DOMAIN map /\ k # n
      BY <1>1
    <2>3. \A k \in 1 .. n - 1 : Disjoint(map[k], map[n]) BY <2>1, <2>2
    <2> QED BY <2>3 DEF Disjoint
  <1>5. \A i \in 1 .. Len(f) : \E k \in 1 .. n - 1 :
            map[k].usable /\ map[k].start <= f[i] /\ f[i] + P <= map[k].end
    BY DEF GoodFrames
  <1>6. \A i, j \in 1 .. Len(f) : i < j => Apart(f[i], f[j])
    BY DEF GoodFrames
  <1>7. CASE ~map[n].usable
    <2>1. WithRegion(f, map[n]) = f BY <1>7 DEF WithRegion
    <2>2. \A k \in 1 .. n - 1 : k \in 1 .. n BY <1>1
    <2>3. \A i \in 1 .. Len(f) : \E k \in 1 .. n :
            map[k].usable /\ map[k].start <= f[i] /\ f[i] + P <= map[k].end
      BY <1>5, <2>2
    <2> QED BY <1>1, <1>6, <2>1, <2>3 DEF GoodFrames
  <1>8. CASE map[n].usable
    <2> DEFINE h == f \o g
    <2> HIDE DEF g, P
    <2>1. /\ h \in Seq(Nat) /\ Len(h) = Len(f) + Len(g)
          /\ \A i \in 1 .. Len(f) : h[i] = f[i]
          /\ \A i \in 1 .. Len(h) : i > Len(f) => /\ i - Len(f) \in 1 .. Len(g)
                                                /\ h[i] = g[i - Len(f)]
      BY <1>1, <1>3
    <2> HIDE DEF h
    <2>2. Len(f) \in Nat /\ Len(g) \in Nat /\ Len(h) \in Nat
      BY <1>1, <1>3, <2>1
    <2>3. ASSUME NEW i \in 1 .. Len(h)
          PROVE  \E k \in 1 .. n : map[k].usable /\ map[k].start <= h[i] /\ h[i] + P <= map[k].end
      <3>1. CASE i <= Len(f)
        <4>1. i \in 1 .. Len(f) BY <2>2, <3>1
        <4>2. PICK k \in 1 .. n - 1 :
                map[k].usable /\ map[k].start <= f[i] /\ f[i] + P <= map[k].end
          BY <1>5, <4>1
        <4>3. k \in 1 .. n BY <1>1
        <4> QED BY <2>1, <4>1, <4>2, <4>3
      <3>2. CASE i > Len(f)
        <4>1. n \in 1 .. n BY <1>1
        <4> QED BY <1>3, <1>8, <2>1, <3>2, <4>1
      <3> QED BY <2>2, <3>1, <3>2
    <2>4. ASSUME NEW i \in 1 .. Len(h), NEW j \in 1 .. Len(h), i < j
          PROVE  Apart(h[i], h[j])
      <3>1. CASE j <= Len(f)
        <4>1. i \in 1 .. Len(f) /\ j \in 1 .. Len(f) BY <2>2, <2>4, <3>1
        <4> QED BY <1>6, <2>1, <2>4, <4>1
      <3>2. CASE i > Len(f)
        <4>1. i - Len(f) < j - Len(f) /\ j > Len(f) BY <2>2, <2>4, <3>2
        <4>2. h[i] + P <= h[j] BY <1>3, <2>1, <3>2, <4>1
        <4> QED BY <4>2 DEF Apart, P
      <3>3. CASE i <= Len(f) /\ j > Len(f)
        <4>1. i \in 1 .. Len(f) BY <2>2, <3>3
        <4>2. PICK k \in 1 .. n - 1 : map[k].start <= f[i] /\ f[i] + P <= map[k].end
          BY <1>5, <4>1
        <4>3. map[n].start <= h[j] /\ h[j] + P <= map[n].end BY <1>3, <2>1, <3>3
        <4>4. PICK s1 \in Nat, e1 \in Nat, s2 \in Nat, e2 \in Nat :
                /\ s1 = map[k].start /\ e1 = map[k].end
                /\ s2 = map[n].start /\ e2 = map[n].end
          <5>1. k \in 1 .. Len(map) BY <1>1
          <5> QED BY <1>2, <5>1
        <4>5. PICK x \in Nat, y \in Nat : x = h[i] /\ x = f[i] /\ y = h[j]
          <5>1. h[i] \in Nat /\ h[j] \in Nat BY <2>1
          <5>2. h[i] = f[i] BY <2>1, <4>1
          <5> QED BY <5>1, <5>2
        <4>6. e1 <= s2 \/ e2 <= s1 BY <1>4, <4>4
        <4>7. s1 <= x /\ x + P <= e1 /\ s2 <= y /\ y + P <= e2
          BY <4>2, <4>3, <4>4, <4>5
        <4>8. P \in Nat BY <1>1
        <4>9. x + P <= y \/ y + P <= x BY <4>6, <4>7, <4>8
        <4> QED BY <4>5, <4>9 DEF Apart, P
      <3> QED BY <2>2, <3>1, <3>2, <3>3
    <2>5. WithRegion(f, map[n]) = h BY <1>8 DEF WithRegion, h, g
    <2> QED BY <2>1, <2>3, <2>4, <2>5 DEF GoodFrames, P
  <1> QED BY <1>7, <1>8

(* The frames of every well-formed memory map are good. *)
THEOREM UsableFramesAreGood ==
    ASSUME NEW map \in MemoryMaps
    PROVE  GoodFrames(usable_frames(map), map, Len(map))
  <1>1. map \in Seq(MemoryRegion) /\ WellFormed(map) /\ Len(map) \in Nat
    BY MemConstants
  <1>2. PICK u : Collects(u, map, Len(map)) /\ usable_frames(map) = u[Len(map)]
    BY <1>1, UsableFramesRecursion
  <1>3. \A n \in 0 .. Len(map) :
            u[n] = IF n = 0 THEN <<>> ELSE WithRegion(u[n - 1], map[n])
    BY <1>2 DEF Collects
  <1> DEFINE T == {n \in 0 .. Len(map) : GoodFrames(u[n], map, n)}
  <1>4. \A n \in 0 .. Len(map) : n \in T
    <2>1. 0 \in T
      <3>1. u[0] = <<>> BY <1>1, <1>3
      <3>2. GoodFrames(<<>>, map, 0) BY DEF GoodFrames
      <3> QED BY <1>1, <3>1, <3>2
    <2>2. ASSUME NEW n \in 1 .. Len(map), n - 1 \in T PROVE n \in T
      <3>1. n \in 0 .. Len(map) /\ n # 0 BY <1>1
      <3>2. GoodFrames(u[n - 1], map, n - 1) BY <2>2
      <3>3. u[n] = WithRegion(u[n - 1], map[n]) BY <1>3, <3>1
      <3> QED BY <1>1, <3>1, <3>2, <3>3, GoodFramesExtend
    <2> HIDE DEF T
    <2> QED BY <1>1, <2>1, <2>2, UpTo
  <1>5. Len(map) \in 0 .. Len(map) BY <1>1
  <1>6. GoodFrames(u[Len(map)], map, Len(map)) BY <1>4, <1>5
  <1> QED BY <1>2, <1>6

-----------------------------------------------------------------------------
(* x is one of the frames U that the first n calls hand out. *)
Taken(U, n, x) == \E k \in 1 .. Len(U) : k <= n /\ U[k] = x

MemTypes ==
    /\ memory_map \in MemoryMaps
    /\ next \in Nat /\ page \in Nat /\ owed \in Nat
    /\ mapped \in Seq(Nat) /\ tables \in Seq(Nat)
    /\ frame \in Nat \cup {NoFrame}

(* The page to map is the one after the mapped ones, within the range. *)
PagesInOrder ==
    /\ HeapStartPage <= page /\ page <= HeapEndPage + 1
    /\ present = HeapStartPage .. page - 1
    /\ frame # NoFrame => page <= HeapEndPage
    /\ status = "ready" => page = HeapEndPage + 1

(* Every frame in use came from the allocator, *)
AllTaken ==
    /\ \A i \in 1 .. Len(mapped) : Taken(usable_frames(memory_map), next, mapped[i])
    /\ \A i \in 1 .. Len(tables) : Taken(usable_frames(memory_map), next, tables[i])
    /\ frame # NoFrame => Taken(usable_frames(memory_map), next, frame)

(* and has one use. *)
OneUse ==
    /\ \A i, j \in 1 .. Len(mapped) : mapped[i] = mapped[j] => i = j
    /\ \A i, j \in 1 .. Len(tables) : tables[i] = tables[j] => i = j
    /\ \A i \in 1 .. Len(mapped) : mapped[i] # frame
    /\ \A i \in 1 .. Len(tables) : tables[i] # frame
    /\ \A i \in 1 .. Len(mapped), j \in 1 .. Len(tables) : mapped[i] # tables[j]

MemIInv == MemTypes /\ PagesInOrder /\ AllTaken /\ OneUse

(* What was taken stays taken. *)
LEMMA TakenStays ==
    ASSUME NEW U \in Seq(Nat), NEW n \in Nat, NEW x, Taken(U, n, x)
    PROVE  Taken(U, n + 1, x)
  BY DEF Taken

(* A call that succeeds returns a frame that no earlier call has returned. *)
LEMMA AllocateLemma ==
    ASSUME MemTypes, Allocated # NoFrame
    PROVE  /\ usable_frames(memory_map) \in Seq(Nat)
           /\ Allocated \in Nat
           /\ Taken(usable_frames(memory_map), next + 1, Allocated)
           /\ ~Taken(usable_frames(memory_map), next, Allocated)
  <1>1. PICK U : U = usable_frames(memory_map) OBVIOUS
  <1>2. GoodFrames(U, memory_map, Len(memory_map))
    BY <1>1, UsableFramesAreGood DEF MemTypes
  <1>3. U \in Seq(Nat) /\ \A i, j \in 1 .. Len(U) : i < j => Apart(U[i], U[j])
    BY <1>2 DEF GoodFrames
  <1>4. next \in Nat /\ PageSize \in Nat /\ PageSize > 0 /\ Len(U) \in Nat
    BY <1>3, MemConstants DEF MemTypes
  <1>5. next < Len(U) /\ Allocated = U[next + 1]
    BY <1>1 DEF Allocated
  <1>6. next + 1 \in 1 .. Len(U)
    BY <1>4, <1>5
  <1>7. Allocated \in Nat BY <1>3, <1>5, <1>6
  <1>8. Taken(U, next + 1, Allocated)
    BY <1>4, <1>5, <1>6 DEF Taken
  <1>9. ~Taken(U, next, Allocated)
    <2> SUFFICES ASSUME NEW k \in 1 .. Len(U), k <= next, U[k] = U[next + 1] PROVE FALSE
      BY <1>5 DEF Taken
    <2>1. k < next + 1 BY <1>4
    <2>2. Apart(U[k], U[next + 1]) BY <1>3, <1>6, <2>1
    <2>3. U[k] \in Nat BY <1>3
    <2> QED BY <1>4, <2>2, <2>3 DEF Apart
  <1> QED BY <1>1, <1>3, <1>7, <1>8, <1>9

(* The range of pages is that of the heap: it is not empty, each byte of   *)
(* the heap is in one of its pages and each page holds a byte of it.       *)
LEMMA PagesLemma ==
    /\ HeapStartPage \in Nat /\ HeapEndPage \in Nat /\ HeapStartPage <= HeapEndPage
    /\ \A a \in HeapStart .. HeapStart + HeapSize - 1 : \E p \in HeapStartPage .. HeapEndPage :
          p * PageSize <= a /\ a < (p + 1) * PageSize
    /\ \A p \in HeapStartPage .. HeapEndPage : \E a \in HeapStart .. HeapStart + HeapSize - 1 :
          p * PageSize <= a /\ a < (p + 1) * PageSize
  <1>1. PICK P \in Nat, s \in Nat, e \in Nat :
            P = PageSize /\ P > 0 /\ s = HeapStart /\ e = HeapStart + HeapSize - 1 /\ s <= e
    BY MemConstants
  <1>2. PICK f \in Nat : f = s \div P /\ f * P <= s /\ s < (f + 1) * P
    BY <1>1, PageOf
  <1>3. PICK l \in Nat : l = e \div P /\ l * P <= e /\ e < (l + 1) * P
    BY <1>1, PageOf
  <1>4. HeapStartPage = f /\ HeapEndPage = l
    BY <1>1, <1>2, <1>3 DEF HeapStartPage, HeapEndPage, HeapEnd, ContainingPage
  <1>5. f <= l
    BY <1>1, <1>2, <1>3, PageOrder
  <1>6. ASSUME NEW a \in s .. e
        PROVE  \E p \in f .. l : p * P <= a /\ a < (p + 1) * P
    <2>1. PICK p \in Nat : p = a \div P /\ p * P <= a /\ a < (p + 1) * P
      BY <1>1, PageOf
    <2>2. f <= p BY <1>1, <1>2, <2>1, PageOrder
    <2>3. p <= l BY <1>1, <1>3, <2>1, PageOrder
    <2>4. p \in f .. l BY <2>2, <2>3
    <2> QED BY <2>1, <2>4
  <1>7. ASSUME NEW p \in f .. l
        PROVE  \E a \in s .. e : p * P <= a /\ a < (p + 1) * P
    <2>1. CASE p = f BY <1>1, <1>2, <2>1
    <2>2. CASE p # f
      <3>1. PICK q \in Nat : q = p * P /\ (p + 1) * P = q + P BY <1>1
      <3>2. f + 1 <= p /\ p <= l BY <2>2
      <3>3. (f + 1) * P <= q BY <1>1, <3>1, <3>2, TimesMonotone
      <3>4. q <= l * P BY <1>1, <3>1, <3>2, TimesMonotone
      <3>5. PICK x \in Nat, y \in Nat : x = (f + 1) * P /\ y = l * P BY <1>1
      <3>6. q \in s .. e BY <1>1, <1>2, <1>3, <3>3, <3>4, <3>5
      <3> QED BY <1>1, <3>1, <3>6
    <2> QED BY <2>1, <2>2
  <1> QED BY <1>1, <1>4, <1>5, <1>6, <1>7

(* Nothing is allocated or mapped at the start. *)
LEMMA MemStart == MemInit => MemIInv
  <1> SUFFICES ASSUME MemInit PROVE MemIInv
    OBVIOUS
  <1>1. PagesInOrder BY PagesLemma DEF MemInit, PagesInOrder
  <1>2. MemTypes BY PagesLemma DEF MemInit, MemTypes
  <1> QED BY <1>1, <1>2 DEF MemInit, MemIInv, AllTaken, OneUse

(* Every step keeps the invariant. *)
LEMMA MemStep == MemIInv /\ [MemNext]_memVars => MemIInv'
  <1> SUFFICES ASSUME MemIInv, [MemNext]_memVars PROVE MemIInv'
    OBVIOUS
  <1> USE DEF MemIInv
  <1>1. PICK U : U = usable_frames(memory_map) OBVIOUS
  <1>2. U \in Seq(Nat) /\ next \in Nat
    BY <1>1, UsableFramesAreGood DEF MemTypes, GoodFrames
  <1>3. /\ \A i \in 1 .. Len(mapped) : Taken(U, next, mapped[i])
        /\ \A i \in 1 .. Len(tables) : Taken(U, next, tables[i])
        /\ frame # NoFrame => Taken(U, next, frame)
    BY <1>1 DEF AllTaken
  <1>4. /\ \A i \in 1 .. Len(mapped) : Taken(U, next + 1, mapped[i])
        /\ \A i \in 1 .. Len(tables) : Taken(U, next + 1, tables[i])
        /\ frame # NoFrame => Taken(U, next + 1, frame)
    BY <1>2, <1>3, TakenStays
  <1>5. CASE AllocateForPage
    <2>1. /\ frame' = Allocated /\ frame = NoFrame /\ next' = next + 1
          /\ owed' \in 0 .. MaxTables /\ Allocated # NoFrame /\ page <= HeapEndPage
          /\ UNCHANGED <<memory_map, page, present, mapped, tables, status>>
      BY <1>5 DEF AllocateForPage, Advance
    <2>2. Allocated \in Nat /\ Taken(U, next + 1, Allocated) /\ ~Taken(U, next, Allocated)
      BY <1>1, <2>1, AllocateLemma
    <2>3. MemTypes' BY <2>1, <2>2, MemConstants DEF MemTypes
    <2>4. PagesInOrder' BY <2>1 DEF PagesInOrder
    <2>5. usable_frames(memory_map') = U BY <1>1, <2>1
    <2>6. AllTaken'
      BY <1>4, <2>1, <2>2, <2>5 DEF AllTaken
    <2>7. OneUse' BY <1>3, <2>1, <2>2 DEF OneUse
    <2> QED BY <2>3, <2>4, <2>6, <2>7
  <1>6. CASE CreateTable
    <2>1. /\ tables' = Append(tables, Allocated) /\ frame # NoFrame /\ next' = next + 1
          /\ owed' = owed - 1 /\ owed > 0 /\ Allocated # NoFrame
          /\ UNCHANGED <<memory_map, page, frame, present, mapped, status>>
      BY <1>6 DEF CreateTable, Advance
    <2>2. Allocated \in Nat /\ Taken(U, next + 1, Allocated) /\ ~Taken(U, next, Allocated)
      BY <1>1, <2>1, AllocateLemma
    <2>3. MemTypes' BY <2>1, <2>2 DEF MemTypes
    <2>4. PagesInOrder' BY <2>1 DEF PagesInOrder
    <2>5. usable_frames(memory_map') = U BY <1>1, <2>1
    <2>6. /\ tables \in Seq(Nat) /\ tables' \in Seq(Nat) /\ Len(tables') = Len(tables) + 1
          /\ Len(tables) \in Nat /\ tables'[Len(tables) + 1] = Allocated
          /\ \A i \in 1 .. Len(tables) : tables'[i] = tables[i]
      BY <2>1, <2>2 DEF MemTypes
    <2>7. AllTaken'
      <3>1. \A i \in 1 .. Len(tables') : Taken(U, next', tables'[i])
        BY <1>4, <2>1, <2>2, <2>6
      <3> QED BY <1>4, <2>1, <2>5, <3>1 DEF AllTaken
    <2>8. /\ \A i \in 1 .. Len(tables) : tables[i] # Allocated
          /\ \A i \in 1 .. Len(mapped) : mapped[i] # Allocated
          /\ frame # Allocated
      BY <1>3, <2>1, <2>2
    <2>9. OneUse'
      <3>1. \A i \in 1 .. Len(tables') : i \in 1 .. Len(tables) \/ i = Len(tables) + 1
        BY <2>6
      <3> QED BY <2>1, <2>6, <2>8, <3>1 DEF OneUse
    <2> QED BY <2>3, <2>4, <2>7, <2>9
  <1>7. CASE MapPage
    <2>1. /\ mapped' = Append(mapped, frame) /\ frame # NoFrame /\ frame' = NoFrame
          /\ page' = page + 1 /\ present' = present \cup {page} /\ status = "mapping"
          /\ UNCHANGED <<memory_map, next, owed, tables, status>>
      BY <1>7 DEF MapPage
    <2>2. frame \in Nat BY <2>1 DEF MemTypes
    <2>3. MemTypes' BY <2>1, <2>2 DEF MemTypes
    <2>4. /\ mapped \in Seq(Nat) /\ mapped' \in Seq(Nat) /\ Len(mapped') = Len(mapped) + 1
          /\ Len(mapped) \in Nat /\ mapped'[Len(mapped) + 1] = frame
          /\ \A i \in 1 .. Len(mapped) : mapped'[i] = mapped[i]
      BY <2>1, <2>2 DEF MemTypes
    <2>5. PagesInOrder'
      <3>1. page \in HeapStartPage .. HeapEndPage /\ present = HeapStartPage .. page - 1
        BY <2>1, PagesLemma DEF PagesInOrder, MemTypes
      <3>2. HeapStartPage .. page = (HeapStartPage .. page - 1) \cup {page}
        <4>1. PICK b \in Nat : b = HeapStartPage /\ b <= page /\ page \in Nat
          BY <3>1, PagesLemma
        <4>2. b .. page = (b .. page - 1) \cup {page} BY <4>1
        <4> QED BY <4>1, <4>2
      <3>3. page' - 1 = page BY <2>1, <3>1, PagesLemma
      <3> QED BY <2>1, <3>1, <3>2, <3>3, PagesLemma DEF PagesInOrder
    <2>6. usable_frames(memory_map') = U BY <1>1, <2>1
    <2>7. AllTaken'
      <3>1. \A i \in 1 .. Len(mapped') : Taken(U, next', mapped'[i])
        BY <1>3, <2>1, <2>4
      <3> QED BY <1>3, <2>1, <2>6, <3>1 DEF AllTaken
    <2>8. OneUse'
      <3>1. \A i \in 1 .. Len(mapped') : i \in 1 .. Len(mapped) \/ i = Len(mapped) + 1
        BY <2>4
      <3>2. /\ \A i \in 1 .. Len(mapped') : mapped'[i] # NoFrame
            /\ \A i \in 1 .. Len(tables) : tables[i] # NoFrame
        BY <2>3, <2>1, MemConstants DEF MemTypes
      <3> QED BY <2>1, <2>4, <3>1, <3>2 DEF OneUse
    <2> QED BY <2>3, <2>5, <2>7, <2>8
  <1>8. CASE InitAllocator
    <2>1. /\ page > HeapEndPage /\ UNCHANGED <<memory_map, next, page, frame, owed, present,
                                              mapped, tables>>
      BY <1>8 DEF InitAllocator
    <2>2. PagesInOrder' BY <2>1, PagesLemma DEF PagesInOrder, MemTypes
    <2> QED BY <2>1, <2>2 DEF MemTypes, AllTaken, OneUse
  <1>9. CASE OutOfFrames
    <2>1. next' = next + 1 /\ status' = "failed"
          /\ UNCHANGED <<memory_map, page, frame, owed, present, mapped, tables>>
      BY <1>9 DEF OutOfFrames, Advance
    <2>2. usable_frames(memory_map') = U BY <1>1, <2>1
    <2>3. AllTaken' BY <1>4, <2>1, <2>2 DEF AllTaken
    <2>4. MemTypes' /\ PagesInOrder' /\ OneUse'
      BY <2>1 DEF MemTypes, PagesInOrder, OneUse
    <2> QED BY <2>3, <2>4
  <1>10. CASE UNCHANGED memVars
    BY <1>10 DEF memVars, MemTypes, PagesInOrder, AllTaken, OneUse
  <1> QED BY <1>5, <1>6, <1>7, <1>8, <1>9, <1>10 DEF MemNext

(* The inductive invariant. *)
THEOREM MemInvariant == MemSpec => []MemIInv
  BY MemStart, MemStep, PTL DEF MemSpec

(* The heap allocator is initialised only when every byte of the heap is   *)
(* in a mapped page, and init_heap mapped no page but those: the inclusive *)
(* range from the page of the first byte to the page of the last one is    *)
(* exact, wherever the heap begins and ends.                               *)
THEOREM HeapIsMapped == MemSpec => []HeapFullyMapped
  <1>1. ASSUME MemIInv PROVE HeapFullyMapped
    <2>1. status = "ready" => present = HeapStartPage .. HeapEndPage
      <3>1. status = "ready" => page = HeapEndPage + 1 /\ present = HeapStartPage .. page - 1
        BY <1>1 DEF MemIInv, PagesInOrder
      <3>2. PICK l \in Nat : l = HeapEndPage BY PagesLemma
      <3>3. l + 1 - 1 = l BY <3>2
      <3>4. status = "ready" => page - 1 = l BY <3>1, <3>2, <3>3
      <3> QED BY <3>1, <3>2, <3>4
    <2> QED BY <2>1, PagesLemma DEF HeapFullyMapped
  <1> QED BY MemInvariant, <1>1, PTL

-----------------------------------------------------------------------------
(* The concatenation of two lists without repetition or common elements    *)
(* has no repetition either, and only their elements.                      *)
LEMMA ConcatDistinct ==
    ASSUME NEW s \in Seq(Nat), NEW t \in Seq(Nat),
           \A i, j \in 1 .. Len(s) : s[i] = s[j] => i = j,
           \A i, j \in 1 .. Len(t) : t[i] = t[j] => i = j,
           \A i \in 1 .. Len(s), j \in 1 .. Len(t) : s[i] # t[j]
    PROVE  /\ s \o t \in Seq(Nat)
           /\ \A i, j \in 1 .. Len(s \o t) : (s \o t)[i] = (s \o t)[j] => i = j
           /\ \A i \in 1 .. Len(s \o t) :
                 \/ \E k \in 1 .. Len(s) : (s \o t)[i] = s[k]
                 \/ \E k \in 1 .. Len(t) : (s \o t)[i] = t[k]
  <1> DEFINE h == s \o t
  <1>1. /\ h \in Seq(Nat) /\ Len(h) = Len(s) + Len(t)
        /\ \A i \in 1 .. Len(s) : h[i] = s[i]
        /\ \A i \in 1 .. Len(h) : i > Len(s) => /\ i - Len(s) \in 1 .. Len(t)
                                              /\ h[i] = t[i - Len(s)]
    OBVIOUS
  <1>2. Len(s) \in Nat /\ Len(t) \in Nat OBVIOUS
  <1> HIDE DEF h
  <1>3. \A i \in 1 .. Len(h) : i \in 1 .. Len(s) \/ i > Len(s)
    BY <1>1, <1>2
  <1>4. \A i \in 1 .. Len(h) :
            \/ \E k \in 1 .. Len(s) : h[i] = s[k]
            \/ \E k \in 1 .. Len(t) : h[i] = t[k]
    BY <1>1, <1>3
  <1>5. ASSUME NEW i \in 1 .. Len(h), NEW j \in 1 .. Len(h), h[i] = h[j] PROVE i = j
    <2>1. CASE i > Len(s) /\ j > Len(s)
      <3>1. PICK x \in 1 .. Len(t) : x = i - Len(s) /\ h[i] = t[x] BY <1>1, <2>1
      <3>2. PICK y \in 1 .. Len(t) : y = j - Len(s) /\ h[j] = t[y] BY <1>1, <2>1
      <3>3. x = y BY <1>5, <3>1, <3>2
      <3> QED BY <1>1, <1>2, <3>1, <3>2, <3>3
    <2>2. CASE i \in 1 .. Len(s) /\ j \in 1 .. Len(s)
      BY <1>1, <1>5, <2>2
    <2>3. CASE i \in 1 .. Len(s) /\ j > Len(s)
      <3>1. PICK y \in 1 .. Len(t) : h[j] = t[y] BY <1>1, <2>3
      <3>2. h[i] = s[i] BY <1>1, <2>3
      <3>3. s[i] # t[y] BY <2>3
      <3> QED BY <1>5, <3>1, <3>2, <3>3
    <2>4. CASE j \in 1 .. Len(s) /\ i > Len(s)
      <3>1. PICK x \in 1 .. Len(t) : h[i] = t[x] BY <1>1, <2>4
      <3>2. h[j] = s[j] BY <1>1, <2>4
      <3>3. s[j] # t[x] BY <2>4
      <3> QED BY <1>5, <3>1, <3>2, <3>3
    <2> QED BY <1>3, <2>1, <2>2, <2>3, <2>4
  <1> QED BY <1>1, <1>4, <1>5 DEF h

(* What has been handed out has no repetition, and all of it was taken     *)
(* from the allocator.                                                     *)
LEMMA HandedOutLemma ==
    ASSUME MemIInv
    PROVE  /\ HandedOut \in Seq(Nat)
           /\ \A i, j \in 1 .. Len(HandedOut) : HandedOut[i] = HandedOut[j] => i = j
           /\ \A i \in 1 .. Len(HandedOut) :
                 Taken(usable_frames(memory_map), next, HandedOut[i])
  <1> DEFINE last == IF frame = NoFrame THEN <<>> ELSE <<frame>>
             mt == mapped \o tables
  <1>1. last \in Seq(Nat) BY DEF MemIInv, MemTypes
  <1>2. /\ \A i, j \in 1 .. Len(last) : last[i] = last[j] => i = j
        /\ \A i \in 1 .. Len(last) : last[i] = frame /\ frame # NoFrame
    OBVIOUS
  <1> HIDE DEF last
  <1>3. mapped \in Seq(Nat) /\ tables \in Seq(Nat)
    BY DEF MemIInv, MemTypes
  <1>4. /\ mt \in Seq(Nat)
        /\ \A i, j \in 1 .. Len(mt) : mt[i] = mt[j] => i = j
        /\ \A i \in 1 .. Len(mt) :
              \/ \E k \in 1 .. Len(mapped) : mt[i] = mapped[k]
              \/ \E k \in 1 .. Len(tables) : mt[i] = tables[k]
    BY <1>3, ConcatDistinct DEF MemIInv, OneUse
  <1> HIDE DEF mt
  <1>5. \A i \in 1 .. Len(mt), j \in 1 .. Len(last) : mt[i] # last[j]
    BY <1>2, <1>4 DEF MemIInv, OneUse
  <1>6. /\ mt \o last \in Seq(Nat)
        /\ \A i, j \in 1 .. Len(mt \o last) : (mt \o last)[i] = (mt \o last)[j] => i = j
        /\ \A i \in 1 .. Len(mt \o last) :
              \/ \E k \in 1 .. Len(mt) : (mt \o last)[i] = mt[k]
              \/ \E k \in 1 .. Len(last) : (mt \o last)[i] = last[k]
    BY <1>1, <1>2, <1>4, <1>5, ConcatDistinct
  <1>7. HandedOut = mt \o last BY DEF HandedOut, mt, last
  <1>8. /\ \A i \in 1 .. Len(mt) : Taken(usable_frames(memory_map), next, mt[i])
        /\ \A i \in 1 .. Len(last) : Taken(usable_frames(memory_map), next, last[i])
    BY <1>2, <1>4 DEF MemIInv, AllTaken
  <1>9. \A i \in 1 .. Len(HandedOut) : Taken(usable_frames(memory_map), next, HandedOut[i])
    BY <1>6, <1>7, <1>8
  <1> QED BY <1>6, <1>7, <1>9

(* No frame is used twice, whatever the memory map and however heap pages  *)
(* and page tables alternate.                                              *)
THEOREM NoFrameServesTwice == MemSpec => []FramesAreDistinct
  <1>1. MemIInv => FramesAreDistinct
    BY HandedOutLemma DEF FramesAreDistinct
  <1> QED BY MemInvariant, <1>1, PTL

(* Every frame lies inside a usable region of the memory map. *)
THEOREM EveryFrameIsUsable == MemSpec => []FramesAreUsable
  <1>1. ASSUME MemIInv PROVE FramesAreUsable
    <2>1. PICK U : U = usable_frames(memory_map) OBVIOUS
    <2>2. GoodFrames(U, memory_map, Len(memory_map))
      BY <1>1, <2>1, UsableFramesAreGood DEF MemIInv, MemTypes
    <2>3. memory_map \in Seq(MemoryRegion)
      BY <1>1, MemConstants DEF MemIInv, MemTypes
    <2>4. DOMAIN memory_map = 1 .. Len(memory_map) BY <2>3
    <2>5. DOMAIN HandedOut = 1 .. Len(HandedOut) BY <1>1, HandedOutLemma
    <2>6. ASSUME NEW i \in DOMAIN HandedOut
          PROVE  \E k \in DOMAIN memory_map :
                    /\ memory_map[k].usable
                    /\ memory_map[k].start <= HandedOut[i]
                    /\ HandedOut[i] + PageSize <= memory_map[k].end
      <3>1. PICK j \in 1 .. Len(U) : U[j] = HandedOut[i]
        BY <1>1, <2>1, <2>5, HandedOutLemma DEF Taken
      <3> QED BY <2>2, <2>4, <3>1 DEF GoodFrames
    <2> QED BY <2>6 DEF FramesAreUsable
  <1> QED BY MemInvariant, <1>1, PTL

=============================================================================
