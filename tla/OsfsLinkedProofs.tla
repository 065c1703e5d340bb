--------------------------- MODULE OsfsLinkedProofs ---------------------------
(***************************************************************************)
(* lab4/bonus, for every size of the file system: chains are sound, every  *)
(* block taken is in one place of one of them, both counters are exact and *)
(* the directory keeps every entry, whatever fails half-way.               *)
(***************************************************************************)
EXTENDS OsfsLinked, FiniteSetTheorems, WellFoundedInduction, TLAPS

-----------------------------------------------------------------------------
(* Numbers.                                                                *)

LEMMA Least ==
  ASSUME NEW T \in SUBSET Nat, T # {}
  PROVE  \E x \in T : \A y \in T : x <= y
<1> DEFINE R == OpToRel(<, Nat)
<1>1. IsWellFoundedOn(R, Nat)
  BY NatLessThanWellFounded
<1>2. \A x, y \in Nat : x < y => <<x, y>> \in R
  BY DEF OpToRel
<1> HIDE DEF R
<1>3. PICK x \in T : \A y \in T : ~ (<<y, x>> \in R)
  BY <1>1, WFMin
<1>4. ASSUME NEW y \in T PROVE x <= y
  <2>1. x \in Nat /\ y \in Nat /\ ~(y < x)
    BY <1>2, <1>3
  <2>2. QED
    BY <2>1
<1>5. QED
  BY <1>4

\* Induction, for a set of numbers.
LEMMA Induct ==
  ASSUME NEW S, 0 \in S, \A n \in Nat : n \in S => n + 1 \in S
  PROVE  Nat \subseteq S
<1> SUFFICES ASSUME Nat \ S # {} PROVE FALSE
  OBVIOUS
<1>1. PICK x \in Nat \ S : \A y \in Nat \ S : x <= y
  BY Least
<1>2. QED
  BY <1>1

LEMMA Greatest ==
  ASSUME NEW T \in SUBSET Nat, T # {}, NEW n \in Nat, \A x \in T : x <= n
  PROVE  \E x \in T : \A y \in T : y <= x
<1> DEFINE U == {m \in Nat : \A x \in T : x <= m}
<1>1. n \in U /\ U \in SUBSET Nat
  OBVIOUS
<1> HIDE DEF U
<1>2. PICK m \in U : \A k \in U : m <= k
  BY <1>1, Least
<1>3. m \in Nat /\ \A x \in T : x <= m
  BY <1>2 DEF U
<1>4. m \in T
  <2> SUFFICES ASSUME m \notin T PROVE FALSE
    OBVIOUS
  <2>1. PICK x \in T : TRUE
    OBVIOUS
  <2>2. m - 1 \in Nat /\ \A y \in T : y <= m - 1
    BY <1>3, <2>1
  <2>3. QED
    BY <1>2, <1>3, <2>2 DEF U
<1>5. QED
  BY <1>3, <1>4

LEMMA Times ==
  ASSUME NEW a \in Nat, NEW b \in Nat, NEW m \in Nat
  PROVE  /\ a * m \in Nat /\ (a + b) * m = (a * m) + (b * m)
         /\ a <= b => a * m <= b * m
OBVIOUS

LEMMA DivIs ==
  ASSUME NEW x \in Nat, NEW m \in Nat \ {0}
  PROVE  x \div m \in Nat /\ x % m \in Nat /\ x % m < m /\ x = ((x \div m) * m) + (x % m)
OBVIOUS

LEMMA DivUnique ==
  ASSUME NEW m \in Nat \ {0}, NEW q \in Nat, NEW r \in Nat, r < m
  PROVE  ((q * m) + r) \div m = q /\ ((q * m) + r) % m = r
OBVIOUS

LEMMA NextMod ==
  ASSUME NEW n \in Nat, NEW m \in Nat \ {0}
  PROVE  (n + 1) % m = IF n % m = m - 1 THEN 0 ELSE (n % m) + 1
<1> DEFINE q == n \div m
           r == n % m
<1>1. q \in Nat /\ r \in Nat /\ r < m /\ n = (q * m) + r
  BY DivIs
<1> HIDE DEF q, r
<1>2. CASE r = m - 1
  <2>1. n + 1 = ((q + 1) * m) + 0 /\ q + 1 \in Nat /\ 0 < m
    BY <1>1, <1>2
  <2>2. (n + 1) % m = 0
    BY <2>1, DivUnique
  <2>3. QED
    BY <1>2, <2>2 DEF r
<1>3. CASE r # m - 1
  <2>1. n + 1 = (q * m) + (r + 1) /\ r + 1 < m /\ r + 1 \in Nat
    BY <1>1, <1>3
  <2>2. (n + 1) % m = r + 1
    BY <1>1, <2>1, DivUnique
  <2>3. QED
    BY <1>3, <2>2 DEF r
<1>4. QED
  BY <1>2, <1>3

\* A block is left half empty: not all its places are used.
LEMMA NotFull ==
  ASSUME NEW n \in Nat, NEW k \in Nat, NEW m \in Nat \ {0}, n <= k * m, n % m # 0
  PROVE  n + 1 <= k * m
<1>1. (k * m) % m = 0
  <2>1. 0 < m /\ (k * m) + 0 = k * m
    OBVIOUS
  <2>2. QED
    BY <2>1, DivUnique
<1>2. n # k * m
  BY <1>1
<1>3. k * m \in Nat
  OBVIOUS
<1>4. QED
  BY <1>2, <1>3

LEMMA Enough ==
  ASSUME NEW end \in Nat, NEW m \in Nat \ {0}
  PROVE  LET q == (end - 1) \div m + 1 IN end # 0 => q \in Nat /\ end <= q * m
<1> SUFFICES ASSUME end # 0
             PROVE  (end - 1) \div m + 1 \in Nat /\ end <= ((end - 1) \div m + 1) * m
  OBVIOUS
<1> DEFINE q == (end - 1) \div m
           r == (end - 1) % m
<1>1. end - 1 \in Nat
  OBVIOUS
<1>2. q \in Nat /\ r \in Nat /\ r < m /\ end - 1 = (q * m) + r
  BY <1>1, DivIs
<1> HIDE DEF q, r
<1>3. q + 1 \in Nat /\ end <= (q + 1) * m
  BY <1>2
<1>4. QED
  BY <1>3 DEF q

LEMMA BlocksAreNumbers == \A b \in Block : b \in Nat /\ b < BlockCount /\ b # NO_NEXT_BLOCK
BY SizeAssumption DEF Block, NO_NEXT_BLOCK

\* The first and the last of some blocks.
LEMMA FirstIs ==
  ASSUME NEW B \in SUBSET Block, B # {}
  PROVE  First(B) \in B /\ \A c \in B : First(B) <= c
<1>1. B \in SUBSET Nat
  BY SizeAssumption DEF Block
<1>2. \E b \in B : \A c \in B : b <= c
  BY <1>1, Least
<1>3. QED
  BY <1>2 DEF First

LEMMA LastIs ==
  ASSUME NEW B \in SUBSET Block, B # {}
  PROVE  Last(B) \in B /\ \A c \in B : Last(B) >= c
<1>1. B \in SUBSET Nat /\ BlockCount \in Nat /\ \A b \in B : b <= BlockCount
  BY SizeAssumption DEF Block
<1>2. \E b \in B : \A c \in B : c <= b
  BY <1>1, Greatest
<1>3. \E b \in B : \A c \in B : b >= c
  BY <1>1, <1>2
<1>4. QED
  BY <1>3 DEF Last

LEMMA BlocksFinite ==
  /\ IsFiniteSet(Block) /\ Cardinality(Block) = BlockCount
  /\ \A B \in SUBSET Block : IsFiniteSet(B) /\ Cardinality(B) \in Nat
<1>1. IsFiniteSet(Block) /\ Cardinality(Block) = BlockCount
  BY SizeAssumption, FS_Interval DEF Block
<1>2. QED
  BY <1>1, FS_Subset, FS_CardinalityType

\* How many of B come before b.
Rank(B, b) == Cardinality({c \in B : c < b})

\* Those after b, if any, begin with the next one.
LEMMA RankNext ==
  ASSUME NEW B \in SUBSET Block, NEW b \in B
  PROVE  LET G == {c \in B : c > b}
         IN  /\ Rank(B, b) \in Nat
             /\ Rank(B, b) + 1 + Cardinality(G) = Cardinality(B)
             /\ G = {} <=> b = Last(B)
             /\ G # {} => First(G) \in B /\ Rank(B, First(G)) = Rank(B, b) + 1
<1> DEFINE G == {c \in B : c > b}
           L == {c \in B : c < b}
<1>1. \A c \in B : c \in Nat
  BY BlocksAreNumbers
<1>10. G \in SUBSET Block /\ L \in SUBSET Block /\ b \notin L /\ b \notin G
  <2>1. ~(b < b) /\ ~(b > b)
    BY <1>1
  <2>2. QED
    BY <2>1
<1>2. IsFiniteSet(L) /\ IsFiniteSet(G) /\ Cardinality(L) \in Nat /\ Cardinality(G) \in Nat
  BY <1>10, BlocksFinite
<1>3. IsFiniteSet(L \cup {b}) /\ Cardinality(L \cup {b}) = Cardinality(L) + 1
  <2>1. ASSUME NEW S, IsFiniteSet(S), b \notin S
        PROVE  IsFiniteSet(S \cup {b}) /\ Cardinality(S \cup {b}) = Cardinality(S) + 1
    BY <2>1, FS_AddElement
  <2>2. QED
    BY <1>10, <1>2, <2>1
<1>4. Cardinality(B) = Cardinality(L) + 1 + Cardinality(G)
  <2>1. B = (L \cup {b}) \cup G /\ (L \cup {b}) \cap G = {}
    <3>1. \A c \in B : c < b \/ c = b \/ c > b
      BY <1>1
    <3>2. \A c \in B : ~(c < b /\ c > b)
      BY <1>1
    <3>3. QED
      BY <1>10, <3>1, <3>2
  <2>2. Cardinality((L \cup {b}) \cap G) = 0
    BY <2>1, FS_EmptySet
  <2>3. Cardinality((L \cup {b}) \cup G) =
          Cardinality(L \cup {b}) + Cardinality(G) - Cardinality((L \cup {b}) \cap G)
    BY <1>2, <1>3, FS_Union
  <2> HIDE DEF L, G
  <2>4. QED
    BY <1>2, <1>3, <2>1, <2>2, <2>3
<1>5. G = {} <=> b = Last(B)
  <2>1. Last(B) \in B /\ \A c \in B : Last(B) >= c
    BY LastIs
  <2>2. CASE b = Last(B)
    BY <1>1, <2>1, <2>2
  <2>3. CASE b # Last(B)
    <3>1. Last(B) > b
      BY <1>1, <2>1, <2>3
    <3>2. QED
      BY <2>1, <2>3, <3>1
  <2>4. QED
    BY <2>2, <2>3
<1>6. ASSUME G # {} PROVE First(G) \in B /\ Rank(B, First(G)) = Rank(B, b) + 1
  <2>1. First(G) \in G /\ \A c \in G : First(G) <= c
    BY <1>10, <1>6, FirstIs
  <2>2. {c \in B : c < First(G)} = L \cup {b}
    <3>1. ASSUME NEW c \in B PROVE c < First(G) <=> (c < b \/ c = b)
      <4>1. First(G) \in Nat /\ First(G) > b /\ c \in Nat /\ b \in Nat
        BY <1>1, <2>1
      <4>2. c > b => First(G) <= c
        BY <2>1
      <4>3. QED
        BY <4>1, <4>2
    <3>2. QED
      BY <3>1
  <2>3. QED
    BY <1>3, <2>1, <2>2 DEF Rank
<1>7. QED
  BY <1>2, <1>4, <1>5, <1>6 DEF Rank

LEMMA RankFirst ==
  ASSUME NEW B \in SUBSET Block, B # {}
  PROVE  Rank(B, First(B)) = 0
<1>1. First(B) \in B /\ \A c \in B : First(B) <= c
  BY FirstIs
<1>2. ASSUME NEW c \in B PROVE ~(c < First(B))
  BY <1>1, BlocksAreNumbers
<1>3. {c \in B : c < First(B)} = {}
  BY <1>2
<1>4. QED
  BY <1>3, FS_EmptySet DEF Rank

-----------------------------------------------------------------------------
(* Walks along the headers nxt from block h: what Chain computes.          *)

After(nxt, b) == IF b = NO_NEXT_BLOCK THEN NO_NEXT_BLOCK ELSE nxt[b]

IsWalk(c, h, nxt) ==
  c = [k \in 0 .. BlockCount |-> IF k = 0 THEN h ELSE After(nxt, c[k - 1])]

LEMMA WalkExists ==
  ASSUME NEW h, NEW nxt
  PROVE  \E c : IsWalk(c, h, nxt)
<1> DEFINE WalkTo(n, c) == c = [k \in 0 .. n |-> IF k = 0 THEN h ELSE After(nxt, c[k - 1])]
           S == {n \in Nat : \E c : WalkTo(n, c)}
<1>1. 0 \in S
  <2> DEFINE c == [k \in 0 .. 0 |-> h]
  <2>1. WalkTo(0, c)
    OBVIOUS
  <2>2. QED
    BY <2>1
<1>2. ASSUME NEW n \in Nat, n \in S PROVE n + 1 \in S
  <2>1. PICK c : WalkTo(n, c)
    BY <1>2
  <2> DEFINE d == [k \in 0 .. n + 1 |-> IF k = n + 1 THEN After(nxt, c[n]) ELSE c[k]]
  <2>2. ASSUME NEW k \in 0 .. n + 1
        PROVE  d[k] = IF k = 0 THEN h ELSE After(nxt, d[k - 1])
    <3>1. CASE k = n + 1
      <4>1. k - 1 = n /\ k - 1 \in 0 .. n + 1 /\ k # 0 /\ n # n + 1
        BY <3>1
      <4>2. d[n] = c[n]
        BY <4>1
      <4>3. QED
        BY <3>1, <4>1, <4>2
    <3>2. CASE k # n + 1
      <4>1. k \in 0 .. n
        BY <3>2
      <4>2. c[k] = IF k = 0 THEN h ELSE After(nxt, c[k - 1])
        BY <2>1, <4>1
      <4>3. k # 0 => k - 1 \in 0 .. n + 1 /\ k - 1 # n + 1
        BY <4>1
      <4>4. k # 0 => d[k - 1] = c[k - 1]
        BY <4>3
      <4>5. QED
        BY <3>2, <4>2, <4>4
    <3>3. QED
      BY <3>1, <3>2
  <2>3. d = [k \in 0 .. n + 1 |-> IF k = 0 THEN h ELSE After(nxt, d[k - 1])]
    <3>1. DOMAIN d = 0 .. n + 1 /\ d = [k \in DOMAIN d |-> d[k]]
      OBVIOUS
    <3> HIDE DEF d
    <3>2. QED
      BY <2>2, <3>1
  <2>4. WalkTo(n + 1, d)
    BY <2>3
  <2> HIDE DEF d, WalkTo
  <2>5. QED
    BY <2>4
<1>3. BlockCount \in S
  <2> HIDE DEF S
  <2>1. Nat \subseteq S
    BY <1>1, <1>2, Induct
  <2>2. QED
    BY <2>1, SizeAssumption
<1>4. QED
  BY <1>3 DEF IsWalk

LEMMA ChainWalks == \A i : IsWalk(Chain(i), inode_table[i].i_head, next_block)
<1> SUFFICES ASSUME NEW i PROVE IsWalk(Chain(i), inode_table[i].i_head, next_block)
  OBVIOUS
<1>1. \E c : IsWalk(c, inode_table[i].i_head, next_block)
  BY WalkExists
<1>2. QED
  BY <1>1 DEF IsWalk, Chain, After, Following

LEMMA WalkSteps ==
  ASSUME NEW c, NEW h, NEW nxt, IsWalk(c, h, nxt)
  PROVE  c[0] = h /\ \A k \in Nat : k < BlockCount => c[k + 1] = After(nxt, c[k])
<1> USE SizeAssumption
<1>1. c[0] = h
  BY DEF IsWalk
<1>2. ASSUME NEW k \in Nat, k < BlockCount PROVE c[k + 1] = After(nxt, c[k])
  <2>1. k + 1 \in 0 .. BlockCount /\ k + 1 # 0 /\ (k + 1) - 1 = k
    BY <1>2
  <2>2. c[k + 1] = After(nxt, c[(k + 1) - 1])
    BY <2>1 DEF IsWalk
  <2>3. QED
    BY <2>1, <2>2
<1>3. QED
  BY <1>1, <1>2

\* A walk does not change with headers that it does not come to.
LEMMA WalkSame ==
  ASSUME NEW c, NEW d, NEW h, NEW nxt, NEW new, IsWalk(c, h, nxt), IsWalk(d, h, new),
         \A k \in 0 .. BlockCount : c[k] # NO_NEXT_BLOCK => new[c[k]] = nxt[c[k]]
  PROVE  d = c
<1> DEFINE S == {k \in Nat : k <= BlockCount => d[k] = c[k]}
<1> USE SizeAssumption
<1>1. 0 \in S
  BY WalkSteps
<1>2. ASSUME NEW k \in Nat, k \in S PROVE k + 1 \in S
  <2> SUFFICES ASSUME k + 1 <= BlockCount PROVE d[k + 1] = c[k + 1]
    OBVIOUS
  <2>1. k < BlockCount /\ k \in 0 .. BlockCount /\ d[k] = c[k]
    BY <1>2
  <2>2. c[k + 1] = After(nxt, c[k]) /\ d[k + 1] = After(new, d[k])
    BY <2>1, WalkSteps
  <2>3. QED
    BY <2>1, <2>2 DEF After
<1>3. Nat \subseteq S
  <2> HIDE DEF S
  <2>1. QED
    BY <1>1, <1>2, Induct
<1>4. \A k \in 0 .. BlockCount : d[k] = c[k]
  BY <1>3
<1>5. /\ c = [k \in 0 .. BlockCount |-> c[k]]
      /\ d = [k \in 0 .. BlockCount |-> d[k]]
  BY DEF IsWalk
<1>6. QED
  BY <1>4, <1>5

\* The blocks of B, in ascending order, put after the first n blocks of a walk:
\* the headers before and after.
PutAfter(c, n, nxt, new, B) ==
  /\ \A k \in Nat : k < n =>
       /\ c[k] # NO_NEXT_BLOCK
       /\ new[c[k]] = IF k = n - 1 THEN First(B) ELSE nxt[c[k]]
  /\ \A b \in B : new[b] = IF b = Last(B) THEN NO_NEXT_BLOCK ELSE First({x \in B : x > b})

\* A walk whose first n blocks are those of c, and the others those of B.
GoesOn(c, d, n, B) ==
  /\ \A k \in Nat : k < n => d[k] = c[k]
  /\ \A m \in Nat : m < Cardinality(B) => d[n + m] \in B /\ Rank(B, d[n + m]) = m
  /\ d[n + Cardinality(B) - 1] = Last(B)
  /\ \A k \in 0 .. BlockCount : k >= n + Cardinality(B) => d[k] = NO_NEXT_BLOCK

\* What osfs_append_block and osfs_add_dir_entry make of a chain of n blocks: it
\* goes on with the blocks of B, one after the other.
LEMMA WalkGrown ==
  ASSUME NEW c, NEW d, NEW h, NEW g, NEW nxt, NEW new, IsWalk(c, h, nxt), IsWalk(d, g, new),
         NEW n \in Nat, NEW B \in SUBSET Block, B # {}, n + Cardinality(B) <= BlockCount,
         g = IF n = 0 THEN First(B) ELSE h,
         PutAfter(c, n, nxt, new, B)
  PROVE  GoesOn(c, d, n, B)
<1> USE DEF PutAfter
<1> DEFINE N == Cardinality(B)
<1> USE SizeAssumption
<1>0. N \in Nat /\ N # 0
  BY BlocksFinite, FS_EmptySet
<1> HIDE DEF N
<1>00. n + N <= BlockCount
  BY DEF N
<1>1. \A k \in Nat : k < n => d[k] = c[k]
  <2> DEFINE S == {k \in Nat : k < n => d[k] = c[k]}
  <2>1. 0 \in S
    BY WalkSteps
  <2>2. ASSUME NEW k \in Nat, k \in S PROVE k + 1 \in S
    <3> SUFFICES ASSUME k + 1 < n PROVE d[k + 1] = c[k + 1]
      OBVIOUS
    <3>1. k < BlockCount /\ k < n /\ k # n - 1 /\ d[k] = c[k]
      BY <1>0, <1>00, <2>2
    <3>2. c[k + 1] = After(nxt, c[k]) /\ d[k + 1] = After(new, d[k])
      BY <3>1, WalkSteps
    <3>3. QED
      BY <3>1, <3>2 DEF After
  <2> HIDE DEF S
  <2>3. Nat \subseteq S
    BY <2>1, <2>2, Induct
  <2>4. QED
    BY <2>3 DEF S
<1>2. d[n] = First(B)
  <2>1. CASE n = 0
    BY <2>1, WalkSteps
  <2>2. CASE n # 0
    <3>1. n - 1 \in Nat /\ n - 1 < n /\ n - 1 < BlockCount /\ (n - 1) + 1 = n
      BY <1>0, <1>00, <2>2
    <3>2. d[n] = After(new, d[n - 1])
      BY <3>1, WalkSteps
    <3>3. d[n - 1] = c[n - 1] /\ c[n - 1] # NO_NEXT_BLOCK /\ new[c[n - 1]] = First(B)
      BY <1>1, <3>1
    <3>4. QED
      BY <3>2, <3>3 DEF After
  <2>3. QED
    BY <2>1, <2>2
<1>3. \A m \in Nat : m < N => d[n + m] \in B /\ Rank(B, d[n + m]) = m
  <2> DEFINE S == {m \in Nat : m < N => d[n + m] \in B /\ Rank(B, d[n + m]) = m}
  <2>1. 0 \in S
    <3>1. First(B) \in B /\ Rank(B, First(B)) = 0 /\ n + 0 = n
      BY FirstIs, RankFirst
    <3>2. QED
      BY <1>2, <3>1
  <2>2. ASSUME NEW m \in Nat, m \in S PROVE m + 1 \in S
    <3> SUFFICES ASSUME m + 1 < N PROVE d[n + (m + 1)] \in B /\ Rank(B, d[n + (m + 1)]) = m + 1
      OBVIOUS
    <3> DEFINE b == d[n + m]
               G == {x \in B : x > b}
    <3>1. b \in B /\ Rank(B, b) = m
      BY <2>2, <1>0
    <3>2. /\ m + 1 + Cardinality(G) = N
          /\ G = {} <=> b = Last(B)
          /\ G # {} => First(G) \in B /\ Rank(B, First(G)) = m + 1
      BY <3>1, RankNext DEF N
    <3>3. G # {}
      BY <1>0, <3>2, FS_EmptySet
    <3>4. n + m \in Nat /\ n + m < BlockCount /\ (n + m) + 1 = n + (m + 1)
      BY <1>0, <1>00
    <3>5. d[n + (m + 1)] = After(new, b)
      BY <3>4, WalkSteps
    <3>6. b # NO_NEXT_BLOCK
      BY <3>1, BlocksAreNumbers
    <3>7. d[n + (m + 1)] = First(G)
      BY <3>1, <3>2, <3>3, <3>5, <3>6 DEF After
    <3>8. QED
      BY <3>2, <3>3, <3>7
  <2> HIDE DEF S
  <2>3. Nat \subseteq S
    BY <2>1, <2>2, Induct
  <2>4. QED
    BY <2>3 DEF S
<1>4. d[n + N - 1] = Last(B)
  <2> DEFINE b == d[n + N - 1]
             G == {x \in B : x > b}
  <2>1. N - 1 \in Nat /\ N - 1 < N /\ n + (N - 1) = n + N - 1
    BY <1>0
  <2>2. b \in B /\ Rank(B, b) = N - 1
    BY <1>3, <2>1
  <2>3. Rank(B, b) + 1 + Cardinality(G) = N /\ (G = {} <=> b = Last(B))
    BY <2>2, RankNext DEF N
  <2>4. IsFiniteSet(G) /\ Cardinality(G) \in Nat
    BY BlocksFinite
  <2> HIDE DEF b, G
  <2>5. G = {}
    <3>1. Cardinality(G) = 0
      BY <1>0, <2>2, <2>3, <2>4
    <3>2. QED
      BY <2>4, <3>1, FS_EmptySet
  <2>6. QED
    BY <2>3, <2>5 DEF b
<1>5. \A k \in 0 .. BlockCount : k >= n + N => d[k] = NO_NEXT_BLOCK
  <2> DEFINE S == {m \in Nat : n + N + m <= BlockCount => d[n + N + m] = NO_NEXT_BLOCK}
  <2>1. 0 \in S
    <3>1. n + N - 1 \in Nat /\ n + N - 1 < BlockCount /\ (n + N - 1) + 1 = n + N /\ n + N + 0 = n + N
      BY <1>0, <1>00
    <3>2. d[n + N] = After(new, d[n + N - 1])
      BY <3>1, WalkSteps
    <3>3. Last(B) \in B
      BY LastIs
    <3>4. d[n + N] = NO_NEXT_BLOCK
      BY <1>4, <3>2, <3>3 DEF After
    <3>5. QED
      BY <3>1, <3>4
  <2>2. ASSUME NEW m \in Nat, m \in S PROVE m + 1 \in S
    <3> SUFFICES ASSUME n + N + (m + 1) <= BlockCount PROVE d[n + N + (m + 1)] = NO_NEXT_BLOCK
      OBVIOUS
    <3>1. /\ n + N + m \in Nat /\ n + N + m < BlockCount
          /\ (n + N + m) + 1 = n + N + (m + 1)
      BY <1>0
    <3>2. d[n + N + (m + 1)] = After(new, d[n + N + m])
      BY <3>1, WalkSteps
    <3>3. d[n + N + m] = NO_NEXT_BLOCK
      BY <2>2, <3>1, <1>0
    <3>4. QED
      BY <3>2, <3>3 DEF After
  <2> HIDE DEF S
  <2>3. Nat \subseteq S
    BY <2>1, <2>2, Induct
  <2>4. ASSUME NEW k \in 0 .. BlockCount, k >= n + N PROVE d[k] = NO_NEXT_BLOCK
    <3>1. k - (n + N) \in Nat /\ n + N + (k - (n + N)) = k /\ k <= BlockCount
      BY <1>0, <2>4
    <3>2. k - (n + N) \in S
      BY <2>3, <3>1
    <3>3. QED
      BY <3>1, <3>2 DEF S
  <2>5. QED
    BY <2>4
<1>6. QED
  BY <1>1, <1>3, <1>4, <1>5 DEF N, GoesOn

LEMMA ChainWalksNext == \A i : IsWalk(Chain(i)', inode_table'[i].i_head, next_block')
<1> SUFFICES ASSUME NEW i PROVE IsWalk(Chain(i)', inode_table'[i].i_head, next_block')
  OBVIOUS
<1>1. \E c : IsWalk(c, inode_table'[i].i_head, next_block')
  BY WalkExists
<1>2. QED
  BY <1>1 DEF IsWalk, Chain, After, Following

-----------------------------------------------------------------------------
(* The invariant.                                                          *)

Types ==
  /\ inode_bitmap \subseteq Ino /\ ROOT_INODE \in inode_bitmap
  /\ block_bitmap \subseteq Block
  /\ inode_table \in [Ino -> [i_size : Nat, i_blocks : Nat, i_head : Block \cup {NO_NEXT_BLOCK},
                              i_tail : Block \cup {NO_NEXT_BLOCK}]]
  /\ dir_entries \in [Block -> [Slot -> [filename : Name \cup {""}, inode_no : Nat]]]

\* Block k of inode i, if it has that many.
Has(i, k) == k \in Nat /\ k < inode_table[i].i_blocks

\* The chains: their lengths and last blocks, and that all they have is taken.
Paths ==
  \A i \in Ino :
    LET t == inode_table[i]
    IN  /\ t.i_blocks <= BlockCount
        /\ \A k \in 0 .. BlockCount : Chain(i)[k] = NO_NEXT_BLOCK <=> k >= t.i_blocks
        /\ \A k \in Nat : Has(i, k) => Chain(i)[k] \in block_bitmap
        /\ t.i_tail = IF t.i_blocks = 0 THEN NO_NEXT_BLOCK ELSE Chain(i)[t.i_blocks - 1]

\* No block is in two places.
Apart ==
  \A i, j \in Ino, k, l \in Nat :
    Has(i, k) /\ Has(j, l) /\ Chain(i)[k] = Chain(j)[l] => i = j /\ k = l

\* Every block taken is in one.
Covered == \A b \in block_bitmap : \E i \in Ino, k \in Nat : Has(i, k) /\ Chain(i)[k] = b

Chains == Paths /\ Apart /\ Covered

LEMMA LengthsTyped ==
  ASSUME Types
  PROVE  /\ \A i \in Ino : inode_table[i].i_blocks \in Nat
         /\ 0 \in 0 .. BlockCount /\ \A k \in 0 .. BlockCount : k \in Nat
<1>1. \A i \in Ino : inode_table[i].i_blocks \in Nat
  BY DEF Types
<1>2. 0 \in 0 .. BlockCount /\ \A k \in 0 .. BlockCount : k \in Nat
  BY SizeAssumption
<1>3. QED
  BY <1>1, <1>2

\* A chain and as many free blocks are not more than there are.
LEMMA RoomFor ==
  ASSUME Types, Chains, NEW i \in Ino, NEW B \in SUBSET (Block \ block_bitmap)
  PROVE  inode_table[i].i_blocks + Cardinality(B) <= BlockCount
<1> DEFINE n == inode_table[i].i_blocks
           f == [k \in 0 .. n - 1 |-> Chain(i)[k]]
<1>1. n \in Nat
  BY DEF Types
<1>2. /\ IsFiniteSet(block_bitmap) /\ Cardinality(block_bitmap) \in Nat
      /\ IsFiniteSet(B) /\ Cardinality(B) \in Nat
      /\ IsFiniteSet(block_bitmap \cup B) /\ Cardinality(block_bitmap \cup B) <= BlockCount
  <2>1. block_bitmap \cup B \in SUBSET Block
    BY DEF Types
  <2>2. QED
    BY <2>1, BlocksFinite, FS_Subset DEF Types
<1>3. IsFiniteSet(0 .. n - 1) /\ Cardinality(0 .. n - 1) = n
  <2> HIDE DEF n
  <2>1. 0 \in Int /\ n - 1 \in Int
    BY <1>1
  <2>2. /\ IsFiniteSet(0 .. n - 1)
        /\ Cardinality(0 .. n - 1) = IF 0 > n - 1 THEN 0 ELSE (n - 1) - 0 + 1
    BY <2>1, FS_Interval
  <2>3. QED
    BY <1>1, <2>2
<1>4. n <= Cardinality(block_bitmap)
  <2>1. \A k \in 0 .. n - 1 : k \in Nat /\ Has(i, k)
    BY <1>1 DEF Has
  <2>2. f \in [0 .. n - 1 -> block_bitmap]
    BY <2>1 DEF Chains, Paths
  <2>3. \A k, l \in 0 .. n - 1 : f[k] = f[l] => k = l
    BY <2>1 DEF Chains, Apart
  <2>4. f \in Injection(0 .. n - 1, block_bitmap)
    BY <2>2, <2>3 DEF Injection, IsInjective
  <2>5. QED
    BY <1>2, <1>3, <2>4, FS_Injection
<1>5. Cardinality(block_bitmap \cup B) = Cardinality(block_bitmap) + Cardinality(B)
  <2>1. block_bitmap \cap B = {}
    OBVIOUS
  <2>2. Cardinality(block_bitmap \cap B) = 0
    BY <2>1, FS_EmptySet
  <2>3. Cardinality(block_bitmap \cup B) =
          Cardinality(block_bitmap) + Cardinality(B) - Cardinality(block_bitmap \cap B)
    BY <1>2, FS_Union
  <2>4. QED
    BY <1>2, <2>2, <2>3
<1>6. QED
  BY <1>1, <1>2, <1>4, <1>5, SizeAssumption

\* A chain that nothing is put to stays as it is.
LEMMA ChainStays ==
  ASSUME Types, Chains, NEW i \in Ino, NEW B \in SUBSET (Block \ block_bitmap),
         next_block' = Linked(i, B), NEW j \in Ino, j # i \/ B = {},
         inode_table'[j].i_head = inode_table[j].i_head
  PROVE  Chain(j)' = Chain(j)
<1> DEFINE c == Chain(j)
<1>1. IsWalk(c, inode_table[j].i_head, next_block)
  BY ChainWalks
<1>2. IsWalk(Chain(j)', inode_table[j].i_head, next_block')
  BY ChainWalksNext
<1>3. ASSUME NEW k \in 0 .. BlockCount, c[k] # NO_NEXT_BLOCK
      PROVE  next_block'[c[k]] = next_block[c[k]]
  <2>1. k \in Nat /\ Has(j, k) /\ c[k] \in block_bitmap /\ c[k] \in Block
    <3>1. k \in Nat /\ inode_table[j].i_blocks \in Nat
      BY LengthsTyped
    <3>2. ~(k >= inode_table[j].i_blocks)
      BY <1>3 DEF Chains, Paths
    <3>3. Has(j, k)
      BY <3>1, <3>2 DEF Has
    <3>4. QED
      BY <3>1, <3>3 DEF Chains, Paths, Types
  <2>2. ASSUME B # {}, inode_table[i].i_head # NO_NEXT_BLOCK PROVE c[k] # inode_table[i].i_tail
    <3>1. IsWalk(Chain(i), inode_table[i].i_head, next_block)
      BY ChainWalks
    <3>2. Chain(i)[0] # NO_NEXT_BLOCK
      BY <2>2, <3>1, WalkSteps
    <3>3. inode_table[i].i_blocks \in Nat /\ inode_table[i].i_blocks # 0
      <4>1. inode_table[i].i_blocks \in Nat /\ 0 \in 0 .. BlockCount
        BY LengthsTyped
      <4>2. ~(0 >= inode_table[i].i_blocks)
        BY <3>2, <4>1 DEF Chains, Paths
      <4>3. QED
        BY <4>1, <4>2
    <3>4. inode_table[i].i_blocks - 1 \in Nat /\ Has(i, inode_table[i].i_blocks - 1)
      BY <3>3 DEF Has
    <3>5. inode_table[i].i_tail = Chain(i)[inode_table[i].i_blocks - 1]
      BY <3>3 DEF Chains, Paths
    <3>6. QED
      BY <2>1, <2>2, <3>4, <3>5 DEF Chains, Apart
  <2>3. QED
    BY <2>1, <2>2 DEF Linked
<1> HIDE DEF c
<1>4. Chain(j)' = c
  BY <1>1, <1>2, <1>3, WalkSame
<1>5. QED
  BY <1>4 DEF c

\* What a call that takes the blocks B for the chain of i does to the chains.
Grown(i, B) ==
  /\ block_bitmap' = block_bitmap \cup B
  /\ next_block' = Linked(i, B)
  /\ inode_table'[i].i_head = Extended(i, B).i_head
  /\ inode_table'[i].i_tail = Extended(i, B).i_tail
  /\ inode_table'[i].i_blocks = Extended(i, B).i_blocks
  /\ \A j \in Ino \ {i} :
       /\ inode_table'[j].i_head = inode_table[j].i_head
       /\ inode_table'[j].i_tail = inode_table[j].i_tail
       /\ inode_table'[j].i_blocks = inode_table[j].i_blocks

LEMMA ExtendedIs ==
  ASSUME Types, NEW i \in Ino, NEW B, B # {}
  PROVE  /\ Extended(i, B).i_head = IF inode_table[i].i_head = NO_NEXT_BLOCK THEN First(B)
                                    ELSE inode_table[i].i_head
         /\ Extended(i, B).i_tail = Last(B)
         /\ Extended(i, B).i_blocks = inode_table[i].i_blocks + Cardinality(B)
         /\ Extended(i, B).i_size = inode_table[i].i_size
BY DEF Extended, Types

\* The first block of a chain, if it has one.
LEMMA HeadIs ==
  ASSUME Types, Chains, NEW i \in Ino
  PROVE  /\ inode_table[i].i_head = Chain(i)[0]
         /\ inode_table[i].i_head = NO_NEXT_BLOCK <=> inode_table[i].i_blocks = 0
<1>1. IsWalk(Chain(i), inode_table[i].i_head, next_block)
  BY ChainWalks
<1>2. inode_table[i].i_head = Chain(i)[0]
  BY <1>1, WalkSteps
<1>3. Chain(i)[0] = NO_NEXT_BLOCK <=> 0 >= inode_table[i].i_blocks
  BY LengthsTyped DEF Chains, Paths
<1>4. inode_table[i].i_blocks \in Nat
  BY LengthsTyped
<1>5. QED
  BY <1>2, <1>3, <1>4

LEMMA ChainGrows ==
  ASSUME Types, Chains, NEW i \in Ino, NEW B \in SUBSET (Block \ block_bitmap), B # {}, Grown(i, B)
  PROVE  LET n == inode_table[i].i_blocks
             N == Cardinality(B)
         IN  /\ inode_table'[i].i_blocks = n + N /\ n + N <= BlockCount
             /\ inode_table'[i].i_tail = Chain(i)'[n + N - 1]
             /\ \A k \in Nat : k < n => Chain(i)'[k] = Chain(i)[k]
             /\ \A m \in Nat : m < N => /\ Chain(i)'[n + m] \in B
                                        /\ Rank(B, Chain(i)'[n + m]) = m
             /\ \A k \in 0 .. BlockCount : k >= n + N => Chain(i)'[k] = NO_NEXT_BLOCK
<1> DEFINE c == Chain(i)
           d == Chain(i)'
           n == inode_table[i].i_blocks
           N == Cardinality(B)
           h == inode_table[i].i_head
           g == inode_table'[i].i_head
<1>1. n \in Nat /\ n + N <= BlockCount
  BY LengthsTyped, RoomFor
<1>2. IsWalk(c, h, next_block) /\ IsWalk(d, g, next_block')
  BY ChainWalks, ChainWalksNext
<1>3. g = IF n = 0 THEN First(B) ELSE h
  BY HeadIs, ExtendedIs DEF Grown
<1>4. ASSUME NEW k \in Nat, k < n
      PROVE  /\ c[k] # NO_NEXT_BLOCK
             /\ next_block'[c[k]] = IF k = n - 1 THEN First(B) ELSE next_block[c[k]]
  <2>1. Has(i, k) /\ c[k] \in block_bitmap /\ c[k] \in Block /\ c[k] \notin B
    BY <1>4 DEF Has, Chains, Paths, Types
  <2>2. c[k] # NO_NEXT_BLOCK
    BY <2>1, BlocksAreNumbers
  <2>3. n - 1 \in Nat /\ Has(i, n - 1) /\ n # 0
    BY <1>1, <1>4 DEF Has
  <2>4. h # NO_NEXT_BLOCK /\ inode_table[i].i_tail = c[n - 1]
    BY <2>3, HeadIs DEF Chains, Paths
  <2>5. c[k] = c[n - 1] <=> k = n - 1
    BY <2>1, <2>3 DEF Chains, Apart
  <2>6. next_block'[c[k]] = IF c[k] = inode_table[i].i_tail THEN First(B) ELSE next_block[c[k]]
    BY <2>1, <2>4 DEF Grown, Linked
  <2>7. QED
    BY <2>2, <2>4, <2>5, <2>6
<1>5. ASSUME NEW b \in B
      PROVE  next_block'[b] = IF b = Last(B) THEN NO_NEXT_BLOCK ELSE First({x \in B : x > b})
  BY DEF Grown, Linked
<1>6. inode_table'[i].i_tail = Last(B) /\ inode_table'[i].i_blocks = n + N
  BY ExtendedIs DEF Grown
<1>9. B \in SUBSET Block /\ n + Cardinality(B) <= BlockCount
  BY <1>1
<1>10. PutAfter(c, n, next_block, next_block', B)
  BY <1>4, <1>5 DEF PutAfter
<1> HIDE DEF c, d, h, g, n
<1>7. GoesOn(c, d, n, B)
  BY <1>1, <1>2, <1>3, <1>9, <1>10, WalkGrown
<1>8. QED
  BY <1>1, <1>6, <1>7 DEF c, d, n, GoesOn

\* Every place of the new chains is an old one, or one of those for B.
LEMMA PlacesGrow ==
  ASSUME Types, Chains, NEW i \in Ino, NEW B \in SUBSET (Block \ block_bitmap), Grown(i, B),
         NEW j \in Ino, NEW k \in Nat, k < inode_table'[j].i_blocks
  PROVE  \/ Has(j, k) /\ Chain(j)'[k] = Chain(j)[k] /\ Chain(j)[k] \in block_bitmap
         \/ /\ j = i /\ B # {} /\ Chain(j)'[k] \in B
            /\ k = inode_table[i].i_blocks + Rank(B, Chain(j)'[k])
<1> DEFINE n == inode_table[i].i_blocks
<1>1. n \in Nat /\ inode_table[j].i_blocks \in Nat /\ Cardinality(B) \in Nat
  <2>1. B \in SUBSET Block
    OBVIOUS
  <2>2. QED
    BY <2>1, LengthsTyped, BlocksFinite
<1>2. CASE j # i \/ B = {}
  <2>1. inode_table'[j].i_head = inode_table[j].i_head /\ inode_table'[j].i_blocks = inode_table[j].i_blocks
    BY <1>2 DEF Grown, Extended
  <2>2. Chain(j)' = Chain(j)
    BY <1>2, <2>1, ChainStays DEF Grown
  <2>3. Has(j, k)
    BY <2>1 DEF Has
  <2>4. QED
    BY <2>2, <2>3 DEF Chains, Paths
<1>3. CASE j = i /\ B # {} /\ k < n
  <2>1. Has(j, k)
    BY <1>3 DEF Has
  <2>2. Chain(j)'[k] = Chain(j)[k]
    BY <1>3, ChainGrows
  <2>3. QED
    BY <2>1, <2>2 DEF Chains, Paths
<1>4. CASE j = i /\ B # {} /\ ~(k < n)
  <2>1. inode_table'[i].i_blocks = n + Cardinality(B)
    BY <1>4, ChainGrows
  <2>2. k - n \in Nat /\ k - n < Cardinality(B) /\ n + (k - n) = k
    BY <1>1, <1>4, <2>1
  <2>3. Chain(i)'[k] \in B /\ Rank(B, Chain(i)'[k]) = k - n
    BY <1>4, <2>2, ChainGrows
  <2>4. QED
    BY <1>4, <2>2, <2>3
<1>5. QED
  BY <1>2, <1>3, <1>4

LEMMA RankTells ==
  ASSUME NEW B \in SUBSET Block, NEW b \in B, NEW c \in B, Rank(B, b) = Rank(B, c)
  PROVE  b = c
<1>1. ASSUME NEW x \in B, NEW y \in B, x < y PROVE Rank(B, x) < Rank(B, y)
  <2> DEFINE L == {z \in B : z < x}
             M == {z \in B : z < y}
  <2>1. \A z \in B : z \in Nat
    BY BlocksAreNumbers
  <2>2. x \notin L /\ L \cup {x} \subseteq M
    <3>1. ~(x < x) /\ \A z \in B : z < x => z < y
      BY <1>1, <2>1
    <3>2. QED
      BY <1>1, <3>1
  <2>3. L \in SUBSET Block /\ M \in SUBSET Block
    OBVIOUS
  <2>4. /\ IsFiniteSet(L) /\ Cardinality(L) \in Nat
        /\ IsFiniteSet(M) /\ Cardinality(M) \in Nat
    BY <2>3, BlocksFinite
  <2>5. Cardinality(L \cup {x}) = Cardinality(L) + 1
    BY <2>2, <2>4, FS_AddElement
  <2>6. Cardinality(L \cup {x}) <= Cardinality(M)
    BY <2>2, <2>4, FS_Subset
  <2> HIDE DEF L, M
  <2>7. Cardinality(L) < Cardinality(M)
    BY <2>4, <2>5, <2>6
  <2>8. QED
    BY <2>7 DEF Rank, L, M
<1>2. Rank(B, b) \in Nat /\ b \in Nat /\ c \in Nat
  BY RankNext, BlocksAreNumbers
<1>3. b < c \/ c < b \/ b = c
  BY <1>2
<1>4. QED
  BY <1>1, <1>2, <1>3

\* The old places stay what they are.
LEMMA PlacesStay ==
  ASSUME Types, Chains, NEW i \in Ino, NEW B \in SUBSET (Block \ block_bitmap), Grown(i, B),
         NEW j \in Ino, NEW k \in Nat, Has(j, k)
  PROVE  k < inode_table'[j].i_blocks /\ Chain(j)'[k] = Chain(j)[k]
<1>1. CASE j # i \/ B = {}
  <2>1. inode_table'[j].i_head = inode_table[j].i_head /\ inode_table'[j].i_blocks = inode_table[j].i_blocks
    BY <1>1 DEF Grown, Extended
  <2>2. Chain(j)' = Chain(j)
    BY <1>1, <2>1, ChainStays DEF Grown
  <2>3. QED
    BY <2>1, <2>2 DEF Has
<1>2. CASE j = i /\ B # {}
  <2>1. inode_table[i].i_blocks \in Nat /\ Cardinality(B) \in Nat
    <3>1. B \in SUBSET Block
      OBVIOUS
    <3>2. QED
      BY <3>1, LengthsTyped, BlocksFinite
  <2>2. k < inode_table[i].i_blocks
    BY <1>2 DEF Has
  <2>3. inode_table'[i].i_blocks = inode_table[i].i_blocks + Cardinality(B) /\ Chain(i)'[k] = Chain(i)[k]
    BY <1>2, <2>2, ChainGrows
  <2>4. k < inode_table'[i].i_blocks
    BY <2>1, <2>2, <2>3
  <2>5. QED
    BY <1>2, <2>3, <2>4
<1>3. QED
  BY <1>1, <1>2

LEMMA GrowChains ==
  ASSUME Types, Chains, NEW i \in Ino, NEW B \in SUBSET (Block \ block_bitmap), Grown(i, B)
  PROVE  Chains'
<1> DEFINE n == inode_table[i].i_blocks
<1>0. B \in SUBSET Block /\ n \in Nat /\ Cardinality(B) \in Nat
  <2>1. B \in SUBSET Block
    OBVIOUS
  <2>2. QED
    BY <2>1, LengthsTyped, BlocksFinite
<1>1. Paths'
  <2> SUFFICES ASSUME NEW j \in Ino
               PROVE  /\ inode_table'[j].i_blocks <= BlockCount
                      /\ \A k \in 0 .. BlockCount :
                           Chain(j)'[k] = NO_NEXT_BLOCK <=> k >= inode_table'[j].i_blocks
                      /\ \A k \in Nat : k < inode_table'[j].i_blocks => Chain(j)'[k] \in block_bitmap'
                      /\ inode_table'[j].i_tail = IF inode_table'[j].i_blocks = 0 THEN NO_NEXT_BLOCK
                                                  ELSE Chain(j)'[inode_table'[j].i_blocks - 1]
    BY DEF Paths, Has
  <2>1. \A k \in Nat : k < inode_table'[j].i_blocks => Chain(j)'[k] \in block_bitmap'
    BY PlacesGrow DEF Grown
  <2>2. CASE j # i \/ B = {}
    <3>1. /\ inode_table'[j].i_head = inode_table[j].i_head
          /\ inode_table'[j].i_blocks = inode_table[j].i_blocks
          /\ inode_table'[j].i_tail = inode_table[j].i_tail
      BY <2>2 DEF Grown, Extended
    <3>2. Chain(j)' = Chain(j)
      BY <2>2, <3>1, ChainStays DEF Grown
    <3>3. QED
      BY <2>1, <3>1, <3>2 DEF Chains, Paths
  <2>3. CASE j = i /\ B # {}
    <3> DEFINE N == Cardinality(B)
    <3>1. /\ inode_table'[i].i_blocks = n + N /\ n + N <= BlockCount
          /\ inode_table'[i].i_tail = Chain(i)'[n + N - 1]
          /\ \A k \in 0 .. BlockCount : k >= n + N => Chain(i)'[k] = NO_NEXT_BLOCK
      BY <2>3, ChainGrows
    <3>2. N # 0
      BY <2>3, <1>0, BlocksFinite, FS_EmptySet
    <3>3. ASSUME NEW k \in 0 .. BlockCount, ~(k >= n + N) PROVE Chain(i)'[k] # NO_NEXT_BLOCK
      <4>1. k \in Nat /\ k < inode_table'[i].i_blocks
        BY <1>0, <3>1, <3>3, SizeAssumption
      <4>2. Chain(i)'[k] \in Block
        BY <2>1, <2>3, <4>1 DEF Grown, Types
      <4>3. QED
        BY <4>2, BlocksAreNumbers
    <3> HIDE DEF n, N
    <3>4. n + N # 0 /\ n + N \in Nat
      BY <1>0, <3>2 DEF N
    <3>5. \A k \in 0 .. BlockCount : Chain(i)'[k] = NO_NEXT_BLOCK <=> k >= n + N
      BY <3>1, <3>3
    <3>6. inode_table'[i].i_blocks <= BlockCount
      BY <3>1
    <3>7. \A k \in 0 .. BlockCount : Chain(i)'[k] = NO_NEXT_BLOCK <=> k >= inode_table'[i].i_blocks
      BY <3>1, <3>5
    <3>8. inode_table'[i].i_tail = IF inode_table'[i].i_blocks = 0 THEN NO_NEXT_BLOCK
                                   ELSE Chain(i)'[inode_table'[i].i_blocks - 1]
      <4>1. inode_table'[i].i_blocks # 0
        BY <3>1, <3>4
      <4>2. inode_table'[i].i_tail = Chain(i)'[inode_table'[i].i_blocks - 1]
        <5>1. n + N - 1 = (n + N) - 1
          BY <1>0 DEF N
        <5>2. QED
          BY <3>1, <5>1
      <4>3. QED
        BY <4>1, <4>2
    <3>9. j = i
      BY <2>3
    <3>10. QED
      BY <2>1, <3>6, <3>7, <3>8, <3>9
  <2>4. QED
    BY <2>2, <2>3
<1>2. Apart'
  <2> SUFFICES ASSUME NEW j \in Ino, NEW l \in Ino, NEW k \in Nat, NEW m \in Nat,
                      k < inode_table'[j].i_blocks, m < inode_table'[l].i_blocks,
                      Chain(j)'[k] = Chain(l)'[m]
               PROVE  j = l /\ k = m
    BY DEF Apart, Has
  <2> DEFINE Old(x, p) == Has(x, p) /\ Chain(x)'[p] = Chain(x)[p] /\ Chain(x)[p] \in block_bitmap
             New(x, p) == /\ x = i /\ B # {} /\ Chain(x)'[p] \in B
                          /\ p = n + Rank(B, Chain(x)'[p])
  <2>1. Old(j, k) \/ New(j, k)
    BY PlacesGrow
  <2>2. Old(l, m) \/ New(l, m)
    BY PlacesGrow
  <2>3. CASE Old(j, k) /\ Old(l, m)
    BY <2>3 DEF Chains, Apart
  <2>4. CASE New(j, k) /\ New(l, m)
    BY <2>4
  <2>5. ~(Old(j, k) /\ New(l, m)) /\ ~(New(j, k) /\ Old(l, m))
    OBVIOUS
  <2>6. QED
    BY <2>1, <2>2, <2>3, <2>4, <2>5
<1>3. Covered'
  <2> SUFFICES ASSUME NEW b \in block_bitmap \cup B
               PROVE  \E j \in Ino, k \in Nat : k < inode_table'[j].i_blocks /\ Chain(j)'[k] = b
    BY DEF Covered, Has, Grown
  <2>1. CASE b \in block_bitmap
    <3>1. PICK j \in Ino, k \in Nat : Has(j, k) /\ Chain(j)[k] = b
      BY <2>1 DEF Chains, Covered
    <3>2. k < inode_table'[j].i_blocks /\ Chain(j)'[k] = b
      BY <3>1, PlacesStay
    <3>3. QED
      BY <3>2
  <2>2. CASE b \in B
    <3> DEFINE m == Rank(B, b)
               N == Cardinality(B)
               d == Chain(i)'
    <3>1. m \in Nat /\ m < N
      <4>1. /\ m \in Nat /\ m + 1 + Cardinality({c \in B : c > b}) = N
            /\ Cardinality({c \in B : c > b}) \in Nat
        <5>1. {c \in B : c > b} \in SUBSET Block
          OBVIOUS
        <5>2. QED
          BY <2>2, <1>0, <5>1, RankNext, BlocksFinite
      <4> HIDE DEF m, N
      <4>2. QED
        BY <4>1
    <3>2. d[n + m] \in B /\ Rank(B, d[n + m]) = m /\ inode_table'[i].i_blocks = n + N
      BY <2>2, <3>1, ChainGrows
    <3>3. d[n + m] = b
      BY <1>0, <2>2, <3>2, RankTells
    <3>4. n + m \in Nat /\ n + m < n + N
      BY <1>0, <3>1
    <3>5. QED
      BY <3>2, <3>3, <3>4
  <2>3. QED
    BY <2>1, <2>2
<1>4. QED
  BY <1>1, <1>2, <1>3 DEF Chains

LEMMA ChainsUnchanged ==
  ASSUME Types, Chains, UNCHANGED <<block_bitmap, inode_table, next_block>>
  PROVE  Chains'
<1>1. \A j : Chain(j)' = Chain(j)
  <2> SUFFICES ASSUME NEW j PROVE Chain(j)' = Chain(j)
    OBVIOUS
  <2>1. /\ IsWalk(Chain(j), inode_table[j].i_head, next_block)
        /\ IsWalk(Chain(j)', inode_table[j].i_head, next_block)
    BY ChainWalks, ChainWalksNext
  <2>2. QED
    BY <2>1, WalkSame
<1>2. Paths' /\ Apart' /\ Covered'
  BY <1>1 DEF Chains, Paths, Apart, Covered, Has
<1>3. QED
  BY <1>2 DEF Chains

-----------------------------------------------------------------------------
(* The rest of the invariant.                                              *)

\* A chain is long enough for its size.
Sizes ==
  \A i \in Ino :
    inode_table[i].i_size <=
      inode_table[i].i_blocks * (IF i = ROOT_INODE THEN MaxDirEntries ELSE DataSize)

\* An inode that is not taken is as new.
Fresh == \A i \in Ino \ inode_bitmap : inode_table[i] = NewInode

\* A block that is not taken holds no entry.
Blank == \A b \in Block \ block_bitmap, k \in Slot : dir_entries[b][k] = NoEntry

\* Neither does what is left of the directory's last block.
TailFree ==
  ~NeedsDirBlock =>
    \A k \in Slot : k >= Count % MaxDirEntries => dir_entries[inode_table[ROOT_INODE].i_tail][k] = NoEntry

IInv ==
  /\ Types
  /\ Chains
  /\ Sizes
  /\ Fresh
  /\ CountersExact
  /\ Blank
  /\ TailFree
  /\ EntriesKept

LEMMA InodesFinite ==
  /\ IsFiniteSet(Ino)
  /\ \A I \in SUBSET Ino : IsFiniteSet(I) /\ Cardinality(I) \in Nat
<1>1. IsFiniteSet(Ino)
  BY SizeAssumption, FS_Interval DEF Ino, ROOT_INODE
<1>2. QED
  BY <1>1, FS_Subset, FS_CardinalityType

LEMMA RootIsInode == ROOT_INODE \in Ino /\ \A i \in Ino : i # 0
BY SizeAssumption DEF Ino, ROOT_INODE

LEMMA TypesInit == Init => Types /\ Sizes /\ Fresh /\ Blank /\ TailFree
<1> SUFFICES ASSUME Init PROVE Types /\ Sizes /\ Fresh /\ Blank /\ TailFree
  OBVIOUS
<1>1. ASSUME NEW i \in Ino PROVE inode_table[i] = NewInode
  BY DEF Init
<1>2. ASSUME NEW b \in Block, NEW k \in Slot PROVE dir_entries[b][k] = NoEntry
  BY DEF Init
<1>3. Types
  <2>1. NewInode \in [i_size : Nat, i_blocks : Nat, i_head : Block \cup {NO_NEXT_BLOCK},
                      i_tail : Block \cup {NO_NEXT_BLOCK}]
    BY DEF NewInode
  <2>2. NoEntry \in [filename : Name \cup {""}, inode_no : Nat]
    BY DEF NoEntry
  <2>3. QED
    BY <2>1, <2>2, RootIsInode DEF Init, Types
<1>4. Sizes
  BY <1>1, SizeAssumption DEF Sizes, NewInode
<1>5. NeedsDirBlock
  BY <1>1, RootIsInode DEF NeedsDirBlock, NewInode
<1>6. QED
  BY <1>1, <1>2, <1>3, <1>4, <1>5 DEF Fresh, Blank, TailFree

LEMMA ChainsInit == Init => Chains
<1> SUFFICES ASSUME Init PROVE Chains
  OBVIOUS
<1>1. ASSUME NEW i \in Ino PROVE /\ inode_table[i].i_blocks = 0
                                 /\ inode_table[i].i_head = NO_NEXT_BLOCK
                                 /\ inode_table[i].i_tail = NO_NEXT_BLOCK
  BY DEF Init, NewInode
<1>2. ASSUME NEW i \in Ino PROVE \A k \in 0 .. BlockCount : Chain(i)[k] = NO_NEXT_BLOCK
  <2> DEFINE S == {k \in Nat : k <= BlockCount => Chain(i)[k] = NO_NEXT_BLOCK}
  <2>1. IsWalk(Chain(i), NO_NEXT_BLOCK, next_block)
    BY <1>1, ChainWalks
  <2>2. 0 \in S
    BY <2>1, WalkSteps
  <2>3. ASSUME NEW k \in Nat, k \in S PROVE k + 1 \in S
    <3> SUFFICES ASSUME k + 1 <= BlockCount PROVE Chain(i)[k + 1] = NO_NEXT_BLOCK
      OBVIOUS
    <3>1. k < BlockCount /\ Chain(i)[k] = NO_NEXT_BLOCK
      BY <2>3, SizeAssumption
    <3>2. QED
      BY <2>1, <3>1, WalkSteps DEF After
  <2>4. Nat \subseteq S
    <3> HIDE DEF S
    <3>1. QED
      BY <2>2, <2>3, Induct
  <2>5. QED
    BY <2>4, SizeAssumption
<1>3. Paths
  BY <1>1, <1>2, SizeAssumption DEF Paths, Has
<1>4. Apart
  BY <1>1 DEF Apart, Has
<1>5. Covered
  BY DEF Init, Covered
<1>6. QED
  BY <1>3, <1>4, <1>5 DEF Chains

LEMMA CountsInit == Init => CountersExact /\ EntriesKept
<1> SUFFICES ASSUME Init PROVE CountersExact /\ EntriesKept
  OBVIOUS
<1>1. CountersExact
  <2>1. Cardinality({}) = 0 /\ Cardinality({ROOT_INODE}) = 1
    BY FS_EmptySet, FS_Singleton
  <2>2. QED
    BY <2>1, SizeAssumption DEF Init, CountersExact
<1>2. Written = {}
  BY DEF Init, Written
<1>3. Count = 0
  BY RootIsInode DEF Init, Count, NewInode
<1>4. QED
  BY <1>1, <1>2, <1>3, FS_EmptySet DEF EntriesKept

LEMMA UnchangedKeeps ==
  ASSUME IInv, UNCHANGED <<nr_free_inodes, nr_free_blocks, inode_bitmap, block_bitmap, inode_table,
                           next_block, data, dir_entries>>
  PROVE  IInv'
<1>1. Chains'
  BY ChainsUnchanged DEF IInv
<1>2. Types' /\ Sizes' /\ Fresh' /\ CountersExact' /\ Blank'
  BY DEF IInv, Types, Sizes, Fresh, CountersExact, Blank
<1>3. TailFree'
  BY DEF IInv, TailFree, NeedsDirBlock, Count
<1>4. EntriesKept'
  <2>1. Written' = Written /\ Count' = Count /\ \A p : EntryIn(p)' = EntryIn(p)
    BY DEF Written, Count, EntryIn
  <2>2. QED
    BY <2>1 DEF IInv, EntriesKept
<1>5. QED
  BY <1>1, <1>2, <1>3, <1>4 DEF IInv

-----------------------------------------------------------------------------
(* What the parts of the actions do.                                       *)

LEMMA TakesBlocks ==
  ASSUME Types, CountersExact, NEW B \in SUBSET Block, NEW n, AllocBlocks(B, n)
  PROVE  /\ B \in SUBSET (Block \ block_bitmap)
         /\ block_bitmap' = block_bitmap \cup B
         /\ block_bitmap' \subseteq Block
         /\ nr_free_blocks' = BlockCount - Cardinality(block_bitmap')
<1>1. /\ B \in SUBSET (Block \ block_bitmap) /\ Cardinality(B) = n
      /\ block_bitmap' = block_bitmap \cup B /\ nr_free_blocks' = nr_free_blocks - n
  BY DEF AllocBlocks
<1>2. /\ IsFiniteSet(block_bitmap) /\ Cardinality(block_bitmap) \in Nat
      /\ IsFiniteSet(B) /\ Cardinality(B) \in Nat
  BY BlocksFinite DEF Types
<1>3. block_bitmap \cap B = {} /\ Cardinality(block_bitmap \cap B) = 0
  BY <1>1, FS_EmptySet
<1>4. Cardinality(block_bitmap \cup B) =
        Cardinality(block_bitmap) + Cardinality(B) - Cardinality(block_bitmap \cap B)
  BY <1>2, FS_Union
<1>5. nr_free_blocks = BlockCount - Cardinality(block_bitmap) /\ BlockCount \in Nat
  BY SizeAssumption DEF CountersExact
<1>6. nr_free_blocks' = BlockCount - Cardinality(block_bitmap')
  BY <1>1, <1>2, <1>3, <1>4, <1>5
<1>7. block_bitmap' \subseteq Block
  BY <1>1 DEF Types
<1>8. QED
  BY <1>1, <1>6, <1>7

LEMMA TakesInode ==
  ASSUME Types, CountersExact, NEW i, TakeInode(i)
  PROVE  /\ i \in Ino \ inode_bitmap /\ i # ROOT_INODE
         /\ inode_bitmap' = inode_bitmap \cup {i}
         /\ inode_bitmap' \subseteq Ino /\ ROOT_INODE \in inode_bitmap'
         /\ nr_free_inodes' = InodeCount - Cardinality(inode_bitmap')
<1>1. /\ i \in Ino \ inode_bitmap /\ inode_bitmap' = inode_bitmap \cup {i}
      /\ nr_free_inodes' = nr_free_inodes - 1
  BY DEF TakeInode, FirstFreeInode
<1>2. IsFiniteSet(inode_bitmap) /\ Cardinality(inode_bitmap) \in Nat
  BY InodesFinite DEF Types
<1>3. Cardinality(inode_bitmap \cup {i}) = Cardinality(inode_bitmap) + 1
  BY <1>1, <1>2, FS_AddElement
<1>4. nr_free_inodes = InodeCount - Cardinality(inode_bitmap) /\ InodeCount \in Nat
  BY SizeAssumption DEF CountersExact
<1>5. nr_free_inodes' = InodeCount - Cardinality(inode_bitmap')
  BY <1>1, <1>2, <1>3, <1>4
<1>6. inode_bitmap \subseteq Ino /\ ROOT_INODE \in inode_bitmap
  BY DEF Types
<1>7. QED
  BY <1>1, <1>5, <1>6

\* An inode whose chain has been extended, or not.
LEMMA ExtendedTyped ==
  ASSUME Types, NEW i \in Ino, NEW B \in SUBSET Block
  PROVE  /\ Extended(i, B).i_blocks = inode_table[i].i_blocks + Cardinality(B)
         /\ Extended(i, B).i_size = inode_table[i].i_size
         /\ Extended(i, B) \in [i_size : Nat, i_blocks : Nat, i_head : Block \cup {NO_NEXT_BLOCK},
                                i_tail : Block \cup {NO_NEXT_BLOCK}]
<1> DEFINE R == [i_size : Nat, i_blocks : Nat, i_head : Block \cup {NO_NEXT_BLOCK},
                 i_tail : Block \cup {NO_NEXT_BLOCK}]
           t == inode_table[i]
           N == Cardinality(B)
<1>1. N \in Nat /\ t \in R
  BY BlocksFinite DEF Types
<1>2. CASE B = {}
  <2>1. N = 0
    BY <1>2, FS_EmptySet
  <2>2. Extended(i, B) = t
    BY <1>2 DEF Extended
  <2> HIDE DEF N, t
  <2>3. t.i_blocks = t.i_blocks + N /\ t \in R
    BY <1>1, <2>1
  <2>4. QED
    BY <2>2, <2>3 DEF N, t
<1>3. CASE B # {}
  <2>1. First(B) \in Block /\ Last(B) \in Block
    BY <1>3, FirstIs, LastIs
  <2> DEFINE h == IF t.i_head = NO_NEXT_BLOCK THEN First(B) ELSE t.i_head
             l == Last(B)
             e == [i_size |-> t.i_size, i_blocks |-> t.i_blocks + N, i_head |-> h, i_tail |-> l]
  <2>2. Extended(i, B) = e
    <3>1. t = [i_size |-> t.i_size, i_blocks |-> t.i_blocks, i_head |-> t.i_head, i_tail |-> t.i_tail]
      BY <1>1
    <3>2. QED
      BY <1>3, <3>1 DEF Extended
  <2>3. h \in Block \cup {NO_NEXT_BLOCK} /\ l \in Block \cup {NO_NEXT_BLOCK}
    BY <1>1, <2>1
  <2> HIDE DEF N, t, h, l
  <2>4. e \in R /\ e.i_blocks = t.i_blocks + N /\ e.i_size = t.i_size
    BY <1>1, <2>3
  <2>5. QED
    BY <2>2, <2>4 DEF N, t
<1>4. QED
  BY <1>2, <1>3

\* A call that extends the chain of i, and sets its size.
LEMMA SetsGrown ==
  ASSUME Types, NEW i \in Ino, NEW B \in SUBSET (Block \ block_bitmap), NEW size \in Nat,
         block_bitmap' = block_bitmap \cup B, next_block' = Linked(i, B),
         inode_table' = [inode_table EXCEPT ![i] = [Extended(i, B) EXCEPT !.i_size = size]]
  PROVE  /\ Grown(i, B)
         /\ inode_table' \in [Ino -> [i_size : Nat, i_blocks : Nat, i_head : Block \cup {NO_NEXT_BLOCK},
                                      i_tail : Block \cup {NO_NEXT_BLOCK}]]
         /\ inode_table'[i].i_size = size
         /\ \A j \in Ino \ {i} : inode_table'[j] = inode_table[j]
<1> DEFINE x == Extended(i, B)
           R == [i_size : Nat, i_blocks : Nat, i_head : Block \cup {NO_NEXT_BLOCK},
                 i_tail : Block \cup {NO_NEXT_BLOCK}]
<1>1. x \in R /\ inode_table \in [Ino -> R]
  <2>1. B \in SUBSET Block
    OBVIOUS
  <2>2. QED
    BY <2>1, ExtendedTyped DEF Types
<1> HIDE DEF x
<1>2. /\ [x EXCEPT !.i_size = size] \in R
      /\ [x EXCEPT !.i_size = size].i_size = size
      /\ [x EXCEPT !.i_size = size].i_head = x.i_head
      /\ [x EXCEPT !.i_size = size].i_tail = x.i_tail
      /\ [x EXCEPT !.i_size = size].i_blocks = x.i_blocks
  BY <1>1
<1> DEFINE y == [x EXCEPT !.i_size = size]
<1>3. inode_table' = [inode_table EXCEPT ![i] = y]
  BY DEF x
<1> HIDE DEF y, R
<1>4. inode_table'[i] = y /\ \A j \in Ino \ {i} : inode_table'[j] = inode_table[j]
  BY <1>1, <1>3
<1>5. inode_table' \in [Ino -> R]
  BY <1>1, <1>2, <1>3 DEF y
<1>6. QED
  BY <1>2, <1>4, <1>5 DEF Grown, x, y, R

\* Files are not the directory, and their inodes are taken.
LEMMA FilesTaken ==
  ASSUME Types, EntriesKept, NEW i \in FileInodes
  PROVE  i \in Ino /\ i \in inode_bitmap /\ i # ROOT_INODE
<1>1. PICK b \in Block, k \in Slot : i = dir_entries[b][k].inode_no /\ i # 0
  BY DEF FileInodes
<1>2. <<b, k>> \in Written
  <2>1. NoEntry.inode_no = 0
    BY DEF NoEntry
  <2>2. dir_entries[b][k] # NoEntry /\ <<b, k>>[1] = b /\ <<b, k>>[2] = k
    BY <1>1, <2>1
  <2>3. QED
    BY <2>2 DEF Written
<1>3. EntryIn(<<b, k>>).inode_no = i
  BY <1>1 DEF EntryIn
<1>4. QED
  BY <1>2, <1>3 DEF EntriesKept, Types

\* What a write of any outcome keeps: i is a file, B what its chain takes.
LEMMA WritesKeep ==
  ASSUME IInv, NEW i \in FileInodes, NEW B \in SUBSET Block, NEW n, AllocBlocks(B, n),
         next_block' = Linked(i, B), NEW size \in Nat,
         size <= (inode_table[i].i_blocks + Cardinality(B)) * DataSize,
         inode_table' = [inode_table EXCEPT ![i] = [Extended(i, B) EXCEPT !.i_size = size]],
         UNCHANGED <<nr_free_inodes, inode_bitmap, dir_entries>>
  PROVE  IInv'
<1> USE DEF IInv
<1>1. i \in Ino /\ i \in inode_bitmap /\ i # ROOT_INODE
  BY FilesTaken
<1>2. /\ B \in SUBSET (Block \ block_bitmap)
      /\ block_bitmap' = block_bitmap \cup B
      /\ block_bitmap' \subseteq Block
      /\ nr_free_blocks' = BlockCount - Cardinality(block_bitmap')
  BY TakesBlocks
<1>3. /\ Grown(i, B)
      /\ inode_table' \in [Ino -> [i_size : Nat, i_blocks : Nat, i_head : Block \cup {NO_NEXT_BLOCK},
                                   i_tail : Block \cup {NO_NEXT_BLOCK}]]
      /\ inode_table'[i].i_size = size
      /\ \A j \in Ino \ {i} : inode_table'[j] = inode_table[j]
  BY <1>1, <1>2, SetsGrown
<1>4. Types'
  BY <1>2, <1>3 DEF Types
<1>5. Chains'
  BY <1>1, <1>2, <1>3, GrowChains
<1>6. Sizes'
  <2>1. inode_table'[i].i_blocks = inode_table[i].i_blocks + Cardinality(B)
    BY <1>1, <1>3, ExtendedTyped DEF Grown
  <2>2. ASSUME NEW j \in Ino
        PROVE  inode_table'[j].i_size <=
                 inode_table'[j].i_blocks * (IF j = ROOT_INODE THEN MaxDirEntries ELSE DataSize)
    <3>1. CASE j = i
      BY <1>1, <1>3, <2>1, <3>1
    <3>2. CASE j # i
      <4>1. inode_table'[j] = inode_table[j]
        BY <1>3, <3>2
      <4>2. QED
        BY <4>1 DEF Sizes
    <3>3. QED
      BY <3>1, <3>2
  <2>3. QED
    BY <2>2 DEF Sizes
<1>7. Fresh'
  BY <1>1, <1>3 DEF Fresh
<1>8. CountersExact'
  BY <1>2 DEF CountersExact
<1>9. Blank'
  BY <1>2 DEF Blank
<1>10. inode_table'[ROOT_INODE] = inode_table[ROOT_INODE]
  BY <1>1, <1>3, RootIsInode
<1>11. TailFree'
  BY <1>10 DEF TailFree, NeedsDirBlock, Count
<1>12. EntriesKept'
  <2>1. Written' = Written /\ Count' = Count /\ \A p : EntryIn(p)' = EntryIn(p)
    BY <1>10 DEF Written, Count, EntryIn
  <2>2. QED
    BY <2>1 DEF EntriesKept
<1>13. QED
  BY <1>4, <1>5, <1>6, <1>7, <1>8, <1>9, <1>11, <1>12

\* What osfs_create keeps, up to the entry: size is the directory's new size.
LEMMA NewFileKeeps ==
  ASSUME IInv, NEW i \in Ino, NEW B \in SUBSET Block, NewFile(i, B), NEW size \in Nat,
         size <= (inode_table[ROOT_INODE].i_blocks + Cardinality(B)) * MaxDirEntries,
         inode_table' = [inode_table EXCEPT
                           ![i] = NewInode,
                           ![ROOT_INODE] = [Extended(ROOT_INODE, B) EXCEPT !.i_size = size]]
  PROVE  /\ B \in SUBSET (Block \ block_bitmap)
         /\ i \notin inode_bitmap /\ inode_bitmap' = inode_bitmap \cup {i}
         /\ block_bitmap' = block_bitmap \cup B
         /\ Grown(ROOT_INODE, B) /\ Count' = size
         /\ dir_entries' \in [Block -> [Slot -> [filename : Name \cup {""}, inode_no : Nat]]] => Types'
         /\ Chains' /\ Sizes' /\ Fresh' /\ CountersExact'
<1> USE DEF IInv
<1>1. /\ TakeInode(i) /\ next_block' = Linked(ROOT_INODE, B)
      /\ AllocBlocks(B, IF NeedsDirBlock THEN 1 ELSE 0)
  BY DEF NewFile
<1>2. /\ B \in SUBSET (Block \ block_bitmap)
      /\ block_bitmap' = block_bitmap \cup B
      /\ block_bitmap' \subseteq Block
      /\ nr_free_blocks' = BlockCount - Cardinality(block_bitmap')
  BY <1>1, TakesBlocks
<1>3. /\ i \in Ino \ inode_bitmap /\ i # ROOT_INODE
      /\ inode_bitmap' = inode_bitmap \cup {i}
      /\ inode_bitmap' \subseteq Ino /\ ROOT_INODE \in inode_bitmap'
      /\ nr_free_inodes' = InodeCount - Cardinality(inode_bitmap')
  BY <1>1, TakesInode
<1> DEFINE x == [Extended(ROOT_INODE, B) EXCEPT !.i_size = size]
<1>4. inode_table' = [inode_table EXCEPT ![ROOT_INODE] = x]
  <2>1. inode_table[i] = NewInode
    BY <1>3 DEF Fresh
  <2>2. inode_table' = [inode_table EXCEPT ![i] = NewInode, ![ROOT_INODE] = x]
    OBVIOUS
  <2>3. inode_table = [j \in Ino |-> inode_table[j]]
    BY DEF Types
  <2> HIDE DEF x
  <2>4. QED
    BY <1>3, <2>1, <2>2, <2>3
<1>5. /\ Grown(ROOT_INODE, B)
      /\ inode_table' \in [Ino -> [i_size : Nat, i_blocks : Nat, i_head : Block \cup {NO_NEXT_BLOCK},
                                   i_tail : Block \cup {NO_NEXT_BLOCK}]]
      /\ inode_table'[ROOT_INODE].i_size = size
      /\ \A j \in Ino \ {ROOT_INODE} : inode_table'[j] = inode_table[j]
  BY <1>1, <1>2, <1>4, RootIsInode, SetsGrown
<1>6. dir_entries' \in [Block -> [Slot -> [filename : Name \cup {""}, inode_no : Nat]]] => Types'
  BY <1>2, <1>3, <1>5 DEF Types
<1>7. Chains'
  BY <1>2, <1>5, RootIsInode, GrowChains
<1>8. Sizes'
  <2>1. inode_table'[ROOT_INODE].i_blocks = inode_table[ROOT_INODE].i_blocks + Cardinality(B)
    BY <1>5, RootIsInode, ExtendedTyped DEF Grown
  <2>2. ASSUME NEW j \in Ino
        PROVE  inode_table'[j].i_size <=
                 inode_table'[j].i_blocks * (IF j = ROOT_INODE THEN MaxDirEntries ELSE DataSize)
    <3>1. CASE j = ROOT_INODE
      BY <1>5, <2>1, <3>1
    <3>2. CASE j # ROOT_INODE
      <4>1. inode_table'[j] = inode_table[j]
        BY <1>5, <3>2
      <4>2. QED
        BY <4>1 DEF Sizes
    <3>3. QED
      BY <3>1, <3>2
  <2>3. QED
    BY <2>2 DEF Sizes
<1>9. Fresh'
  BY <1>3, <1>5 DEF Fresh
<1>10. CountersExact'
  BY <1>2, <1>3 DEF CountersExact
<1>11. QED
  BY <1>2, <1>3, <1>5, <1>6, <1>7, <1>8, <1>9, <1>10 DEF Count

\* Where osfs_create puts the entry: in the last block, new or not, after those
\* that are there.
LEMMA EntryPlace ==
  ASSUME IInv, NEW i \in Ino, NEW B \in SUBSET Block, NewFile(i, B), Grown(ROOT_INODE, B)
  PROVE  /\ EntryBlock \in Block /\ EntryBlock \in block_bitmap'
         /\ Count % MaxDirEntries \in Slot
         /\ \A k \in Slot : k >= Count % MaxDirEntries => dir_entries[EntryBlock][k] = NoEntry
         /\ Count + 1 <= (inode_table[ROOT_INODE].i_blocks + Cardinality(B)) * MaxDirEntries
<1> USE DEF IInv
<1> DEFINE n == inode_table[ROOT_INODE].i_blocks
<1>1. /\ Count \in Nat /\ n \in Nat /\ Count <= n * MaxDirEntries
      /\ MaxDirEntries \in Nat \ {0}
  BY RootIsInode, SizeAssumption DEF Types, Sizes, Count
<1>2. Count % MaxDirEntries \in Slot
  <2>1. Count % MaxDirEntries \in Nat /\ Count % MaxDirEntries < MaxDirEntries
    BY <1>1, DivIs
  <2>2. QED
    BY <1>1, <2>1 DEF Slot
<1>3. B \in SUBSET (Block \ block_bitmap) /\ Cardinality(B) = IF NeedsDirBlock THEN 1 ELSE 0
  BY DEF NewFile, AllocBlocks
<1>4. inode_table[ROOT_INODE].i_head = NO_NEXT_BLOCK <=> n = 0
  BY HeadIs, RootIsInode
<1>5. CASE NeedsDirBlock
  <2>1. B # {} /\ Cardinality(B) = 1
    BY <1>3, <1>5, FS_EmptySet
  <2>2. EntryBlock = Last(B)
    BY <2>1, ExtendedIs, RootIsInode DEF EntryBlock, Grown
  <2>3. EntryBlock \in Block \ block_bitmap /\ EntryBlock \in B
    BY <1>3, <2>1, <2>2, LastIs
  <2>4. \A k \in Slot : dir_entries[EntryBlock][k] = NoEntry
    BY <2>3 DEF Blank
  <2>5. Count + 1 <= (n + 1) * MaxDirEntries
    <3> HIDE DEF n
    <3>1. (n + 1) * MaxDirEntries = (n * MaxDirEntries) + MaxDirEntries /\ n * MaxDirEntries \in Nat
      BY <1>1
    <3>2. QED
      BY <1>1, <3>1
  <2>6. EntryBlock \in block_bitmap'
    BY <2>3 DEF Grown
  <2>7. QED
    BY <1>2, <2>1, <2>3, <2>4, <2>5, <2>6
<1>6. CASE ~NeedsDirBlock
  <2>1. B = {} /\ Cardinality(B) = 0
    <3>1. B \in SUBSET Block
      OBVIOUS
    <3>2. QED
      BY <1>3, <1>6, <3>1, BlocksFinite, FS_EmptySet
  <2>2. EntryBlock = inode_table[ROOT_INODE].i_tail
    BY <2>1 DEF EntryBlock, Grown, Extended
  <2>3. n # 0 /\ (Count = 0 \/ Count % MaxDirEntries # 0)
    BY <1>4, <1>6 DEF NeedsDirBlock
  <2>4. EntryBlock \in block_bitmap
    <3>1. n - 1 \in Nat /\ Has(ROOT_INODE, n - 1)
      BY <1>1, <2>3 DEF Has
    <3>2. Chain(ROOT_INODE)[n - 1] \in block_bitmap /\ inode_table[ROOT_INODE].i_tail = Chain(ROOT_INODE)[n - 1]
      BY <2>3, <3>1, RootIsInode DEF Chains, Paths
    <3>3. QED
      BY <2>2, <3>2
  <2>5. EntryBlock \in Block /\ EntryBlock \in block_bitmap'
    BY <2>4 DEF Types, Grown
  <2>6. \A k \in Slot : k >= Count % MaxDirEntries => dir_entries[EntryBlock][k] = NoEntry
    BY <1>6, <2>2 DEF TailFree
  <2>7. Count + 1 <= n * MaxDirEntries
    <3> HIDE DEF n
    <3>1. CASE Count = 0
      <4>1. 1 * MaxDirEntries <= n * MaxDirEntries /\ 1 * MaxDirEntries = MaxDirEntries
        BY <1>1, <2>3, Times
      <4>2. QED
        BY <1>1, <3>1, <4>1
    <3>2. CASE Count % MaxDirEntries # 0
      BY <1>1, <3>2, NotFull
    <3>3. QED
      BY <2>3, <3>1, <3>2
  <2>8. (n + Cardinality(B)) = n
    BY <1>1, <2>1
  <2>9. QED
    BY <1>2, <2>5, <2>6, <2>7, <2>8
<1>7. QED
  BY <1>5, <1>6

LEMMA CreateExistsKeeps ==
  ASSUME IInv, NEW f \in Name, NEW i \in Ino, NEW B \in SUBSET Block, CreateExists(f, i, B)
  PROVE  IInv'
<1> USE DEF IInv
<1> DEFINE r == inode_table[ROOT_INODE]
           X == Extended(ROOT_INODE, B)
<1>1. /\ NewFile(i, B) /\ f \in FileNames /\ UNCHANGED dir_entries
      /\ inode_table' = [inode_table EXCEPT ![i] = NewInode, ![ROOT_INODE] = X]
  BY DEF CreateExists
<1>2. Count \in Nat /\ r.i_blocks \in Nat /\ Count <= r.i_blocks * MaxDirEntries
  BY RootIsInode DEF Types, Sizes, Count
<1>3. Count # 0
  <2>1. PICK n \in 0 .. Count - 1 : TRUE
    BY <1>1 DEF FileNames
  <2>2. QED
    BY <1>2, <2>1
<1>4. X = [X EXCEPT !.i_size = Count]
  <2>1. /\ X.i_size = Count
        /\ X \in [i_size : Nat, i_blocks : Nat, i_head : Block \cup {NO_NEXT_BLOCK},
                  i_tail : Block \cup {NO_NEXT_BLOCK}]
    BY ExtendedTyped, RootIsInode DEF Count
  <2> HIDE DEF X
  <2>2. QED
    BY <2>1
<1>5. Count <= (r.i_blocks + Cardinality(B)) * MaxDirEntries
  <2> DEFINE n == r.i_blocks
             N == Cardinality(B)
  <2>1. N \in Nat /\ n \in Nat /\ MaxDirEntries \in Nat
    BY <1>2, BlocksFinite, SizeAssumption
  <2>2. Count <= n * MaxDirEntries
    BY <1>2
  <2> HIDE DEF n, N
  <2>3. n * MaxDirEntries <= (n + N) * MaxDirEntries /\ n * MaxDirEntries \in Nat
    BY <2>1, Times
  <2>4. (n + N) * MaxDirEntries \in Nat
    BY <2>1
  <2>5. Count <= (n + N) * MaxDirEntries
    BY <1>2, <2>2, <2>3, <2>4
  <2>6. QED
    BY <2>5 DEF n, N
<1>6. inode_table' = [inode_table EXCEPT ![i] = NewInode, ![ROOT_INODE] = [X EXCEPT !.i_size = Count]]
  BY <1>1, <1>4
<1>7. /\ B \in SUBSET (Block \ block_bitmap)
      /\ inode_bitmap' = inode_bitmap \cup {i}
      /\ block_bitmap' = block_bitmap \cup B
      /\ Grown(ROOT_INODE, B) /\ Count' = Count
      /\ dir_entries' \in [Block -> [Slot -> [filename : Name \cup {""}, inode_no : Nat]]] => Types'
      /\ Chains' /\ Sizes' /\ Fresh' /\ CountersExact'
  <2> HIDE DEF r, IInv
  <2>1. QED
    BY <1>1, <1>2, <1>5, <1>6, NewFileKeeps DEF r
<1>8. Types'
  BY <1>1, <1>7 DEF Types
<1>9. Blank'
  BY <1>1, <1>7 DEF Blank
<1>10. TailFree'
  <2> SUFFICES ASSUME ~NeedsDirBlock' PROVE TailFree'
    BY DEF TailFree
  <2>1. Count % MaxDirEntries # 0
    BY <1>3, <1>7 DEF NeedsDirBlock
  <2>2. r.i_head # NO_NEXT_BLOCK
    <3>1. r.i_blocks # 0
      BY <1>2, <1>3, SizeAssumption
    <3>2. QED
      BY <3>1, HeadIs, RootIsInode
  <2>3. ~NeedsDirBlock
    BY <2>1, <2>2 DEF NeedsDirBlock
  <2>4. B = {}
    <3>1. Cardinality(B) = 0
      BY <1>1, <2>3 DEF NewFile, AllocBlocks
    <3>2. QED
      BY <3>1, BlocksFinite, FS_EmptySet
  <2>5. inode_table'[ROOT_INODE].i_tail = r.i_tail
    BY <1>7, <2>4 DEF Grown, Extended
  <2>6. QED
    BY <1>1, <1>7, <2>3, <2>5 DEF TailFree
<1>11. EntriesKept'
  <2>1. Written' = Written /\ \A p : EntryIn(p)' = EntryIn(p)
    BY <1>1 DEF Written, EntryIn
  <2>2. QED
    BY <1>7, <2>1 DEF EntriesKept
<1>12. QED
  BY <1>7, <1>8, <1>9, <1>10, <1>11

LEMMA CreateKeeps ==
  ASSUME IInv, NEW f \in Name, NEW i \in Ino, NEW B \in SUBSET Block, Create(f, i, B)
  PROVE  IInv'
<1> USE DEF IInv
<1> DEFINE r == inode_table[ROOT_INODE]
           X == Extended(ROOT_INODE, B)
           c == Count % MaxDirEntries
           e == [filename |-> f, inode_no |-> i]
           n == Count + 1
<1>1. /\ NewFile(i, B)
      /\ inode_table' = [inode_table EXCEPT ![i] = NewInode,
                                            ![ROOT_INODE] = [X EXCEPT !.i_size = @ + 1]]
      /\ dir_entries' = [dir_entries EXCEPT ![EntryBlock][c] = e]
  BY DEF Create
<1>2. Count \in Nat /\ r.i_blocks \in Nat /\ Cardinality(B) \in Nat
  BY RootIsInode, BlocksFinite DEF Types, Count
<1>3. [X EXCEPT !.i_size = @ + 1] = [X EXCEPT !.i_size = n]
  <2>1. X.i_size = Count
    BY ExtendedTyped, RootIsInode DEF Count
  <2>2. QED
    BY <2>1
<1>4. inode_table' = [inode_table EXCEPT ![i] = NewInode, ![ROOT_INODE] = [X EXCEPT !.i_size = n]]
  BY <1>1, <1>3
<1>5. Grown(ROOT_INODE, B)
  <2>1. i \in Ino \ inode_bitmap /\ i # ROOT_INODE
    BY <1>1, TakesInode DEF NewFile
  <2>2. inode_table'[i] = NewInode /\ inode_table[i] = NewInode
    BY <1>4, <2>1 DEF Types, Fresh
  <2>3. \A j \in Ino \ {ROOT_INODE} : inode_table'[j] = inode_table[j]
    BY <1>4, <2>1, <2>2 DEF Types
  <2>4. inode_table'[ROOT_INODE] = [X EXCEPT !.i_size = n]
    BY <1>4, RootIsInode DEF Types
  <2>5. X \in [i_size : Nat, i_blocks : Nat, i_head : Block \cup {NO_NEXT_BLOCK},
               i_tail : Block \cup {NO_NEXT_BLOCK}]
    BY ExtendedTyped, RootIsInode
  <2>6. /\ inode_table'[ROOT_INODE].i_head = X.i_head
        /\ inode_table'[ROOT_INODE].i_tail = X.i_tail
        /\ inode_table'[ROOT_INODE].i_blocks = X.i_blocks
    <3> HIDE DEF X
    <3>1. QED
      BY <2>4, <2>5
  <2>7. QED
    BY <1>1, <2>3, <2>6 DEF Grown, NewFile, AllocBlocks
<1>6. /\ EntryBlock \in Block /\ EntryBlock \in block_bitmap'
      /\ c \in Slot
      /\ \A k \in Slot : k >= c => dir_entries[EntryBlock][k] = NoEntry
      /\ n <= (r.i_blocks + Cardinality(B)) * MaxDirEntries
  BY <1>1, <1>5, EntryPlace
<1>7. /\ B \in SUBSET (Block \ block_bitmap)
      /\ i \notin inode_bitmap /\ inode_bitmap' = inode_bitmap \cup {i}
      /\ block_bitmap' = block_bitmap \cup B
      /\ Count' = n
      /\ dir_entries' \in [Block -> [Slot -> [filename : Name \cup {""}, inode_no : Nat]]] => Types'
      /\ Chains' /\ Sizes' /\ Fresh' /\ CountersExact'
  <2>1. n \in Nat
    BY <1>2
  <2> HIDE DEF IInv, n
  <2>2. QED
    BY <1>1, <1>4, <1>6, <2>1, NewFileKeeps
<1>8. /\ dir_entries'[EntryBlock][c] = e
      /\ \A b \in Block, k \in Slot :
           ~(b = EntryBlock /\ k = c) => dir_entries'[b][k] = dir_entries[b][k]
      /\ dir_entries' \in [Block -> [Slot -> [filename : Name \cup {""}, inode_no : Nat]]]
  <2> DEFINE E == [filename : Name \cup {""}, inode_no : Nat]
             b0 == EntryBlock
  <2>1. e \in E
    <3>1. i \in Nat
      BY SizeAssumption DEF Ino, ROOT_INODE
    <3>2. QED
      BY <3>1
  <2>2. dir_entries \in [Block -> [Slot -> E]]
    BY DEF Types
  <2>3. b0 \in Block /\ c \in Slot /\ dir_entries' = [dir_entries EXCEPT ![b0][c] = e]
    BY <1>1, <1>6
  <2> HIDE DEF E, e, c, b0
  <2>4. /\ dir_entries'[b0][c] = e
        /\ \A b \in Block, k \in Slot : ~(b = b0 /\ k = c) => dir_entries'[b][k] = dir_entries[b][k]
        /\ dir_entries' \in [Block -> [Slot -> E]]
    BY <2>1, <2>2, <2>3
  <2>5. QED
    BY <2>4 DEF E, b0
<1>9. Types'
  BY <1>7, <1>8
<1>10. Blank'
  <2> SUFFICES ASSUME NEW b \in Block, b \notin block_bitmap', NEW k \in Slot
               PROVE  dir_entries'[b][k] = NoEntry
    BY DEF Blank
  <2>1. b # EntryBlock /\ b \notin block_bitmap
    BY <1>6, <1>7
  <2>2. dir_entries'[b][k] = dir_entries[b][k]
    BY <1>8, <2>1
  <2>3. QED
    BY <2>1, <2>2 DEF Blank
<1>11. TailFree'
  <2> SUFFICES ASSUME ~NeedsDirBlock', NEW k \in Slot, k >= n % MaxDirEntries
               PROVE  dir_entries'[EntryBlock][k] = NoEntry
    BY <1>7 DEF TailFree, EntryBlock
  <2>1. n # 0 /\ n % MaxDirEntries # 0
    <3>1. n # 0 /\ Count' = n
      <4>1. Count' = n
        BY <1>7
      <4>2. n # 0
        BY <1>2
      <4>3. QED
        BY <4>1, <4>2
    <3>2. ~(Count' # 0 /\ Count' % MaxDirEntries = 0)
      BY DEF NeedsDirBlock
    <3> HIDE DEF n
    <3>3. QED
      BY <3>1, <3>2
  <2>2. n % MaxDirEntries = c + 1
    BY <1>2, <2>1, SizeAssumption, NextMod
  <2>3. k >= c /\ k # c
    <3>1. c \in Nat /\ k \in Nat
      BY <1>6 DEF Slot
    <3> HIDE DEF c, n
    <3>2. QED
      BY <2>2, <3>1
  <2>4. QED
    BY <1>6, <1>8, <2>3
<1>12. EntriesKept'
  <2> DEFINE p0 == <<EntryBlock, c>>
  <2>1. e # NoEntry /\ e.inode_no = i
    BY RootIsInode DEF NoEntry
  <2>2. p0 \in Block \X Slot /\ p0 \notin Written
    <3>1. dir_entries[EntryBlock][c] = NoEntry
      <4>1. c >= c
        BY <1>6 DEF Slot
      <4>2. QED
        BY <1>6, <4>1
    <3>2. QED
      BY <1>6, <3>1 DEF Written
  <2>3. ASSUME NEW p \in Block \X Slot
        PROVE  EntryIn(p)' = IF p = p0 THEN e ELSE EntryIn(p)
    <3>1. p[1] \in Block /\ p[2] \in Slot /\ p = <<p[1], p[2]>>
      OBVIOUS
    <3>2. p = p0 <=> (p[1] = EntryBlock /\ p[2] = c)
      BY <3>1
    <3>3. QED
      BY <1>8, <3>1, <3>2 DEF EntryIn
  <2>4. /\ Written = {p \in Block \X Slot : EntryIn(p) # NoEntry}
        /\ Written' = {p \in Block \X Slot : EntryIn(p)' # NoEntry}
    BY DEF Written, EntryIn
  <2> HIDE DEF e, p0
  <2>5. Written' = Written \cup {p0}
    BY <2>1, <2>2, <2>3, <2>4
  <2>6. Cardinality(Written') = Count'
    <3>1. IsFiniteSet(Written)
      <4>1. IsFiniteSet(Slot) /\ IsFiniteSet(Block)
        BY SizeAssumption, FS_Interval, BlocksFinite DEF Slot
      <4>2. IsFiniteSet(Block \X Slot)
        BY <4>1, FS_Product
      <4>3. QED
        BY <4>2, FS_Subset DEF Written
    <3>2. Cardinality(Written \cup {p0}) = Cardinality(Written) + 1
      BY <2>2, <3>1, FS_AddElement
    <3>3. QED
      BY <1>7, <2>5, <3>2 DEF EntriesKept
  <2>7. i # ROOT_INODE
    BY <1>1, TakesInode DEF NewFile
  <2>8. ASSUME NEW p \in Written'
        PROVE  EntryIn(p)'.inode_no \in inode_bitmap' \ {ROOT_INODE}
    BY <1>7, <2>1, <2>2, <2>3, <2>5, <2>7, <2>8 DEF EntriesKept, Written
  <2>9. ASSUME NEW p \in Written', NEW q \in Written', p # q
        PROVE  EntryIn(p)'.inode_no # EntryIn(q)'.inode_no
    <3>1. p \in Block \X Slot /\ q \in Block \X Slot
      BY <2>2, <2>5 DEF Written
    <3>2. CASE p # p0 /\ q # p0
      BY <2>3, <2>5, <2>9, <3>1, <3>2 DEF EntriesKept
    <3>3. CASE p = p0
      <4>1. q \in Written /\ EntryIn(q)' = EntryIn(q) /\ EntryIn(p)' = e
        BY <2>2, <2>3, <2>5, <2>9, <3>1, <3>3
      <4>2. EntryIn(q).inode_no \in inode_bitmap
        BY <4>1 DEF EntriesKept
      <4>3. QED
        BY <1>7, <2>1, <4>1, <4>2
    <3>4. CASE q = p0
      <4>1. p \in Written /\ EntryIn(p)' = EntryIn(p) /\ EntryIn(q)' = e
        BY <2>2, <2>3, <2>5, <2>9, <3>1, <3>4
      <4>2. EntryIn(p).inode_no \in inode_bitmap
        BY <4>1 DEF EntriesKept
      <4>3. QED
        BY <1>7, <2>1, <4>1, <4>2
    <3>5. QED
      BY <3>2, <3>3, <3>4
  <2>10. QED
    BY <2>6, <2>8, <2>9 DEF EntriesKept
<1>13. QED
  BY <1>7, <1>9, <1>10, <1>11, <1>12

LEMMA CreatingKeeps == IInv /\ Creating => IInv'
<1> SUFFICES ASSUME IInv, NEW f \in Name,
                    \/ CreateNoSpace(f)
                    \/ \E i \in Ino : CreateNoMemory(f, i)
                    \/ \E i \in Ino, B \in SUBSET Block : CreateExists(f, i, B) \/ Create(f, i, B)
             PROVE  IInv'
  BY DEF Creating
<1>1. CASE CreateNoSpace(f)
  <2>1. UNCHANGED <<nr_free_inodes, nr_free_blocks, inode_bitmap, block_bitmap, inode_table,
                    next_block, data, dir_entries>>
    BY <1>1 DEF CreateNoSpace
  <2>2. QED
    BY <2>1, UnchangedKeeps
<1>2. ASSUME NEW i \in Ino, CreateNoMemory(f, i) PROVE IInv'
  <2>1. TakeInode(i) /\ UNCHANGED <<nr_free_blocks, block_bitmap, inode_table, next_block, data, dir_entries>>
    BY <1>2 DEF CreateNoMemory
  <2>2. /\ inode_bitmap' = inode_bitmap \cup {i}
        /\ inode_bitmap' \subseteq Ino /\ ROOT_INODE \in inode_bitmap'
        /\ nr_free_inodes' = InodeCount - Cardinality(inode_bitmap')
    BY <2>1, TakesInode DEF IInv
  <2>3. Types'
    BY <2>1, <2>2 DEF IInv, Types
  <2>4. Chains'
    BY <2>1, ChainsUnchanged DEF IInv
  <2>5. Sizes' /\ Blank'
    BY <2>1 DEF IInv, Sizes, Blank
  <2>6. Fresh'
    BY <2>1, <2>2 DEF IInv, Fresh
  <2>7. CountersExact'
    BY <2>1, <2>2 DEF IInv, CountersExact
  <2>8. TailFree'
    BY <2>1 DEF IInv, TailFree, NeedsDirBlock, Count
  <2>9. EntriesKept'
    <3>1. Written' = Written /\ Count' = Count /\ \A p : EntryIn(p)' = EntryIn(p)
      BY <2>1 DEF Written, Count, EntryIn
    <3>2. QED
      BY <2>2, <3>1 DEF IInv, EntriesKept
  <2>10. QED
    BY <2>3, <2>4, <2>5, <2>6, <2>7, <2>8, <2>9 DEF IInv
<1>3. QED
  BY <1>1, <1>2, CreateExistsKeeps, CreateKeeps

LEMMA WritingKeeps ==
  ASSUME IInv, NEW i \in FileInodes, NEW pos \in Positions, NEW s \in Strings, Writing(i, pos, s)
  PROVE  IInv'
<1>1. i \in Ino /\ pos + Len(s) \in Nat /\ DataSize \in Nat \ {0}
  <2>1. pos \in Nat /\ Len(s) \in Nat
    <3>1. s \in Seq(Byte) /\ pos \in Nat
      BY DataAssumption
    <3>2. QED
      BY <3>1
  <2>2. i \in Ino
    BY FilesTaken DEF IInv
  <2>3. QED
    BY <2>1, <2>2, SizeAssumption
<1> DEFINE end == pos + Len(s)
           t == inode_table[i]
<1>2. /\ t.i_size \in Nat /\ t.i_blocks \in Nat /\ i # ROOT_INODE
      /\ t.i_size <= t.i_blocks * DataSize
  BY <1>1, FilesTaken DEF IInv, Types, Sizes
<1>3. ASSUME NEW B \in SUBSET Block
      PROVE  /\ Cardinality(B) \in Nat
             /\ t.i_size <= (t.i_blocks + Cardinality(B)) * DataSize
             /\ Extended(i, B) = [Extended(i, B) EXCEPT !.i_size = t.i_size]
  <2> DEFINE n == t.i_blocks
             N == Cardinality(B)
             X == Extended(i, B)
  <2>1. N \in Nat
    BY BlocksFinite
  <2>2. X.i_size = t.i_size /\ X \in [i_size : Nat, i_blocks : Nat, i_head : Block \cup {NO_NEXT_BLOCK},
                                      i_tail : Block \cup {NO_NEXT_BLOCK}]
    BY <1>1, ExtendedTyped DEF IInv
  <2>3. t.i_size <= (n + N) * DataSize
    <3>1. n \in Nat /\ t.i_size \in Nat /\ t.i_size <= n * DataSize
      BY <1>2
    <3> HIDE DEF n, N, t
    <3>2. n * DataSize <= (n + N) * DataSize /\ n * DataSize \in Nat /\ (n + N) * DataSize \in Nat
      BY <1>1, <2>1, <3>1, Times
    <3>3. QED
      BY <3>1, <3>2
  <2> HIDE DEF X, t
  <2>4. X = [X EXCEPT !.i_size = t.i_size]
    BY <2>2
  <2>5. QED
    BY <2>1, <2>3, <2>4 DEF X
<1>4. ASSUME NEW B \in SUBSET Block, NEW n, AllocBlocks(B, n), next_block' = Linked(i, B),
             inode_table' = [inode_table EXCEPT ![i] = Extended(i, B)],
             UNCHANGED <<nr_free_inodes, inode_bitmap, dir_entries>>
      PROVE  IInv'
  <2>1. inode_table' = [inode_table EXCEPT ![i] = [Extended(i, B) EXCEPT !.i_size = t.i_size]]
    BY <1>3, <1>4
  <2> HIDE DEF t
  <2>2. t.i_size \in Nat /\ t.i_size <= (inode_table[i].i_blocks + Cardinality(B)) * DataSize
    BY <1>2, <1>3 DEF t
  <2>3. QED
    BY <1>4, <2>1, <2>2, WritesKeep
<1>5. ASSUME NEW B \in SUBSET Block, WriteNoSpace(i, pos, s, B) PROVE IInv'
  <2>1. /\ AllocBlocks(B, FreeBlocks) /\ next_block' = Linked(i, B)
        /\ inode_table' = [inode_table EXCEPT ![i] = Extended(i, B)]
        /\ UNCHANGED <<nr_free_inodes, inode_bitmap, dir_entries>>
    BY <1>5 DEF WriteNoSpace
  <2>2. QED
    BY <1>4, <2>1
<1>6. ASSUME NEW B \in SUBSET Block, NEW k, WriteFault(i, pos, s, B, k) PROVE IInv'
  <2>1. /\ AllocBlocks(B, Missing(i, end)) /\ next_block' = Linked(i, B)
        /\ inode_table' = [inode_table EXCEPT ![i] = Extended(i, B)]
        /\ UNCHANGED <<nr_free_inodes, inode_bitmap, dir_entries>>
    BY <1>6 DEF WriteFault, Grow
  <2>2. QED
    BY <1>4, <2>1
<1>7. ASSUME NEW B \in SUBSET Block, Write(i, pos, s, B) PROVE IInv'
  <2> DEFINE size == NewSize(i, end)
             N == Cardinality(B)
             n == t.i_blocks
  <2>1. /\ AllocBlocks(B, Missing(i, end)) /\ next_block' = Linked(i, B)
        /\ inode_table' = [inode_table EXCEPT ![i] = [Extended(i, B) EXCEPT !.i_size = size]]
        /\ UNCHANGED <<nr_free_inodes, inode_bitmap, dir_entries>>
    BY <1>7 DEF Write, Grow
  <2>2. N \in Nat /\ N = Missing(i, end) /\ n \in Nat
    BY <1>2, <1>3, <2>1 DEF AllocBlocks
  <2>3. CASE ~(end > t.i_size)
    <3>1. size = t.i_size
      BY <2>3 DEF NewSize
    <3>2. size \in Nat /\ size <= (inode_table[i].i_blocks + Cardinality(B)) * DataSize
      BY <1>2, <1>3, <3>1
    <3> HIDE DEF size, N, n, t, end
    <3>3. QED
      BY <2>1, <3>2, WritesKeep
  <2>4. CASE end > t.i_size
    <3>1. size = end /\ end # 0 /\ end \in Nat
      BY <1>1, <1>2, <2>4 DEF NewSize
    <3> DEFINE q == (end - 1) \div DataSize + 1
    <3>2. q \in Nat /\ end <= q * DataSize
      <4> HIDE DEF end
      <4>1. QED
        BY <1>1, <3>1, Enough
    <3>3. q <= n + N
      <4>1. Required(end) = q
        BY <3>1 DEF Required
      <4>2. N = IF q > n THEN q - n ELSE 0
        BY <2>2, <4>1 DEF Missing
      <4> HIDE DEF q, n, N
      <4>3. QED
        BY <2>2, <3>2, <4>2
    <3>4. end <= (n + N) * DataSize
      <4> HIDE DEF q, n, N, end
      <4>1. q * DataSize <= (n + N) * DataSize /\ q * DataSize \in Nat /\ (n + N) * DataSize \in Nat
        BY <1>1, <2>2, <3>2, <3>3, Times
      <4>2. QED
        BY <3>1, <3>2, <4>1
    <3>5. size \in Nat /\ size <= (inode_table[i].i_blocks + Cardinality(B)) * DataSize
      BY <3>1, <3>4
    <3> HIDE DEF size, N, n, t, end
    <3>6. QED
      BY <2>1, <3>5, WritesKeep
  <2>5. QED
    BY <2>3, <2>4
<1>8. QED
  BY <1>5, <1>6, <1>7 DEF Writing

LEMMA StepKeeps == IInv /\ [Next]_vars => IInv'
<1> SUFFICES ASSUME IInv, [Next]_vars PROVE IInv'
  OBVIOUS
<1>1. CASE Creating
  BY <1>1, CreatingKeeps
<1>2. ASSUME NEW i \in FileInodes, NEW pos \in Positions, NEW s \in Strings,
             Writing(i, pos, s) \/ Reading(i, pos, s)
      PROVE  IInv'
  <2>1. CASE Writing(i, pos, s)
    BY <2>1, WritingKeeps
  <2>2. CASE Reading(i, pos, s)
    <3>1. UNCHANGED <<nr_free_inodes, nr_free_blocks, inode_bitmap, block_bitmap, inode_table,
                      next_block, data, dir_entries>>
      BY <2>2 DEF Reading, ReadEnd, Read
    <3>2. QED
      BY <3>1, UnchangedKeeps
  <2>3. QED
    BY <1>2, <2>1, <2>2
<1>3. CASE UNCHANGED vars
  <2>1. UNCHANGED <<nr_free_inodes, nr_free_blocks, inode_bitmap, block_bitmap, inode_table,
                    next_block, data, dir_entries>>
    BY <1>3 DEF vars
  <2>2. QED
    BY <2>1, UnchangedKeeps
<1>4. QED
  BY <1>1, <1>2, <1>3 DEF Next

\* The invariant holds from the mount on, whatever fails half-way.
THEOREM LinkedInv == Spec => []IInv
<1>1. Init => IInv
  BY TypesInit, ChainsInit, CountsInit DEF IInv
<1>2. QED
  BY <1>1, StepKeeps, PTL DEF Spec

-----------------------------------------------------------------------------
(* What follows.                                                           *)

\* Both counters of the superblock are the numbers of clear bits of their maps
\* after every call, those that fail half-way included.
THEOREM LinkedCountersExact == Spec => []CountersExact
<1>1. IInv => CountersExact
  BY DEF IInv
<1>2. QED
  BY <1>1, LinkedInv, PTL

\* The directory's size is the number of entries written: none is overwritten
\* and each has a taken inode of its own, whatever blocks failing creations
\* have put into the directory.
THEOREM LinkedEntriesKept == Spec => []EntriesKept
<1>1. IInv => EntriesKept
  BY DEF IInv
<1>2. QED
  BY <1>1, LinkedInv, PTL

\* Head, tail and number of blocks of every inode agree with the headers, and
\* the chain is long enough for the size: no walk runs off a chain's end.
THEOREM LinkedChainsSound == Spec => []ChainsSound
<1>1. IInv => ChainsSound
  BY DEF IInv, Chains, Paths, Sizes, ChainsSound
<1>2. QED
  BY <1>1, LinkedInv, PTL

\* Every block taken is at exactly one place of one chain: files and directory
\* share none, and no failing call loses one.
THEOREM LinkedEachBlockOnce == Spec => []EachBlockOnce
<1>1. IInv => EachBlockOnce
  <2> SUFFICES ASSUME IInv PROVE EachBlockOnce
    OBVIOUS
  <2> DEFINE P == {p \in Ino \X (0 .. BlockCount) : Chain(p[1])[p[2]] # NO_NEXT_BLOCK}
             at == [p \in P |-> Chain(p[1])[p[2]]]
  <2>1. \A p \in P : /\ p[1] \in Ino /\ p[2] \in Nat /\ Has(p[1], p[2])
                     /\ p = <<p[1], p[2]>>
    <3> SUFFICES ASSUME NEW p \in P
                 PROVE  /\ p[1] \in Ino /\ p[2] \in Nat /\ Has(p[1], p[2])
                        /\ p = <<p[1], p[2]>>
      OBVIOUS
    <3>1. p[1] \in Ino /\ p[2] \in 0 .. BlockCount /\ Chain(p[1])[p[2]] # NO_NEXT_BLOCK /\ p = <<p[1], p[2]>>
      OBVIOUS
    <3>2. p[2] \in Nat /\ inode_table[p[1]].i_blocks \in Nat /\ ~(p[2] >= inode_table[p[1]].i_blocks)
      BY <3>1, LengthsTyped DEF IInv, Chains, Paths
    <3>3. QED
      BY <3>1, <3>2 DEF Has
  <2>2. \A p \in P : at[p] \in block_bitmap
    BY <2>1 DEF IInv, Chains, Paths
  <2>3. ASSUME NEW p \in P, NEW q \in P, at[p] = at[q] PROVE p = q
    <3>1. p[1] = q[1] /\ p[2] = q[2]
      BY <2>1, <2>3 DEF IInv, Chains, Apart
    <3>2. QED
      BY <2>1, <3>1
  <2>4. ASSUME NEW b \in block_bitmap PROVE \E p \in P : at[p] = b
    <3>1. PICK i \in Ino, k \in Nat : Has(i, k) /\ Chain(i)[k] = b
      BY DEF IInv, Chains, Covered
    <3>2. inode_table[i].i_blocks \in Nat /\ inode_table[i].i_blocks <= BlockCount /\ k < inode_table[i].i_blocks
      BY <3>1, LengthsTyped DEF IInv, Chains, Paths, Has
    <3>3. k \in 0 .. BlockCount
      BY <3>2, SizeAssumption
    <3>4. b # NO_NEXT_BLOCK
      BY BlocksAreNumbers DEF IInv, Types
    <3>5. <<i, k>> \in P /\ at[<<i, k>>] = b
      BY <3>1, <3>3, <3>4
    <3>6. QED
      BY <3>5
  <2>5. block_bitmap = {Chain(p[1])[p[2]] : p \in P}
    <3>1. \A p \in P : at[p] = Chain(p[1])[p[2]]
      OBVIOUS
    <3> HIDE DEF P, at
    <3>2. QED
      BY <2>2, <2>4, <3>1
  <2>6. Cardinality(block_bitmap) = Cardinality(P)
    <3>1. at \in [P -> block_bitmap]
      BY <2>2
    <3>2. IsFiniteSet(P)
      <4>1. IsFiniteSet(0 .. BlockCount)
        BY SizeAssumption, FS_Interval
      <4>2. IsFiniteSet(Ino \X (0 .. BlockCount))
        BY <4>1, InodesFinite, FS_Product
      <4>3. QED
        BY <4>2, FS_Subset
    <3> HIDE DEF P, at
    <3>3. at \in Bijection(P, block_bitmap)
      BY <2>3, <2>4, <3>1 DEF Bijection, Injection, Surjection, IsInjective
    <3>4. ExistsBijection(P, block_bitmap)
      BY <3>3 DEF ExistsBijection
    <3>5. QED
      BY <3>2, <3>4, FS_Bijection
  <2> HIDE DEF P
  <2>7. QED
    BY <2>5, <2>6 DEF EachBlockOnce, P
<1>2. QED
  BY <1>1, LinkedInv, PTL
=============================================================================
