--------------------------- MODULE OsfsVfsProofs ---------------------------
(***************************************************************************)
(* What the VFS asks of osfs: listings of the directory, for any number of *)
(* files, blocks and room in the program's buffer, and mounts, for any     *)
(* number of super blocks and addresses.                                   *)
(*                                                                         *)
(* A listing is right because the entries lie in the order of creation     *)
(* whatever gaps there are (Slots), all that has been listed lies before   *)
(* the position (Passed), and without gaps, cuts and strays all before the *)
(* position has been listed (Full).                                        *)
(***************************************************************************)
EXTENDS OsfsDir, SequenceTheorems, TLAPS

-----------------------------------------------------------------------------
(* Numbers and sequences.                                                  *)

LEMMA DivIs ==
  ASSUME NEW x \in Nat, NEW m \in Nat \ {0}
  PROVE  x \div m \in Nat /\ x % m \in Nat /\ x % m < m /\ x = ((x \div m) * m) + (x % m)
OBVIOUS

LEMMA DivUnique ==
  ASSUME NEW m \in Nat \ {0}, NEW q \in Nat, NEW r \in Nat, r < m
  PROVE  ((q * m) + r) \div m = q /\ ((q * m) + r) % m = r
OBVIOUS

LEMMA RoundUp ==
  ASSUME NEW x \in Nat, NEW m \in Nat \ {0}
  PROVE  (x + m - 1) \div m = IF x % m = 0 THEN x \div m ELSE (x \div m) + 1
<1> DEFINE q == x \div m
           r == x % m
<1>1. q \in Nat /\ r \in Nat /\ r < m /\ x = (q * m) + r
  BY DivIs
<1> HIDE DEF q, r
<1>2. CASE r = 0
  <2>1. x + m - 1 = (q * m) + (m - 1) /\ m - 1 \in Nat /\ m - 1 < m
    BY <1>1, <1>2
  <2>2. ((q * m) + (m - 1)) \div m = q
    BY <1>1, <2>1, DivUnique
  <2>3. QED
    BY <1>2, <2>1, <2>2 DEF q, r
<1>3. CASE r # 0
  <2>1. x + m - 1 = ((q + 1) * m) + (r - 1) /\ r - 1 \in Nat /\ r - 1 < m /\ q + 1 \in Nat
    BY <1>1, <1>3
  <2>2. (((q + 1) * m) + (r - 1)) \div m = q + 1
    BY <2>1, DivUnique
  <2>3. QED
    BY <1>3, <2>1, <2>2 DEF q, r
<1>4. QED
  BY <1>2, <1>3

\* Counting on: within a group of m, or to the next group.
LEMMA NextDiv ==
  ASSUME NEW n \in Nat, NEW m \in Nat \ {0}
  PROVE  /\ n % m = m - 1 => (n + 1) % m = 0 /\ (n + 1) \div m = (n \div m) + 1
         /\ n % m # m - 1 => (n + 1) % m = (n % m) + 1 /\ (n + 1) \div m = n \div m
<1> DEFINE q == n \div m
           r == n % m
<1>1. q \in Nat /\ r \in Nat /\ r < m /\ n = (q * m) + r
  BY DivIs
<1> HIDE DEF q, r
<1>2. CASE r = m - 1
  <2>1. n + 1 = ((q + 1) * m) + 0 /\ q + 1 \in Nat /\ 0 < m
    BY <1>1, <1>2
  <2>2. (((q + 1) * m) + 0) \div m = q + 1 /\ (((q + 1) * m) + 0) % m = 0
    BY <2>1, DivUnique
  <2>3. QED
    BY <1>2, <2>1, <2>2 DEF q, r
<1>3. CASE r # m - 1
  <2>1. n + 1 = (q * m) + (r + 1) /\ r + 1 < m /\ r + 1 \in Nat
    BY <1>1, <1>3
  <2>2. (n + 1) % m = r + 1 /\ (n + 1) \div m = q
    BY <1>1, <2>1, DivUnique
  <2>3. QED
    BY <1>3, <2>2 DEF q, r
<1>4. QED
  BY <1>2, <1>3

\* What is at each place of three sequences put together.
LEMMA Together ==
  ASSUME NEW S, NEW a \in Seq(S), NEW b \in Seq(S), NEW c \in Seq(S), NEW d, d = a \o b \o c
  PROVE  /\ d \in Seq(S) /\ Len(d) = Len(a) + Len(b) + Len(c)
         /\ \A k \in DOMAIN a : d[k] = a[k]
         /\ \A k \in DOMAIN d : \/ k \in DOMAIN a
                                \/ k - Len(a) \in DOMAIN b /\ d[k] = b[k - Len(a)]
                                \/ k - (Len(a) + Len(b)) \in DOMAIN c /\ d[k] = c[k - (Len(a) + Len(b))]
<1> DEFINE ab == a \o b
<1>1. ab \in Seq(S) /\ Len(ab) = Len(a) + Len(b)
  OBVIOUS
<1>2. \A k \in 1 .. Len(ab) : ab[k] = IF k <= Len(a) THEN a[k] ELSE b[k - Len(a)]
  OBVIOUS
<1>3. d = ab \o c
  OBVIOUS
<1> HIDE DEF ab
<1>40. ab \o c \in Seq(S) /\ Len(ab \o c) = Len(ab) + Len(c)
  BY <1>1, ConcatProperties
<1>4. d \in Seq(S) /\ Len(d) = Len(ab) + Len(c)
  BY <1>3, <1>40
<1>50. \A k \in 1 .. Len(ab) + Len(c) : (ab \o c)[k] = IF k <= Len(ab) THEN ab[k] ELSE c[k - Len(ab)]
  BY <1>1, ConcatProperties
<1>5. \A k \in 1 .. Len(d) : d[k] = IF k <= Len(ab) THEN ab[k] ELSE c[k - Len(ab)]
  BY <1>3, <1>4, <1>50
<1>6. Len(a) \in Nat /\ Len(b) \in Nat /\ Len(c) \in Nat
  OBVIOUS
<1>7. ASSUME NEW k \in DOMAIN a PROVE d[k] = a[k]
  <2>1. k \in 1 .. Len(a)
    OBVIOUS
  <2>2. k \in 1 .. Len(ab) /\ k \in 1 .. Len(d)
    BY <1>1, <1>4, <1>6, <2>1
  <2>3. QED
    BY <1>2, <1>5, <2>1, <2>2
<1>8. ASSUME NEW k \in DOMAIN d
      PROVE  \/ k \in DOMAIN a
             \/ k - Len(a) \in DOMAIN b /\ d[k] = b[k - Len(a)]
             \/ k - (Len(a) + Len(b)) \in DOMAIN c /\ d[k] = c[k - (Len(a) + Len(b))]
  <2>1. k \in 1 .. Len(d)
    BY <1>4
  <2>2. CASE k <= Len(a)
    BY <1>6, <2>1, <2>2
  <2>3. CASE k > Len(a) /\ k <= Len(ab)
    <3>1. k - Len(a) \in DOMAIN b
      BY <1>1, <1>6, <2>1, <2>3
    <3>2. d[k] = b[k - Len(a)]
      BY <1>1, <1>2, <1>5, <1>6, <2>1, <2>3
    <3>3. QED
      BY <3>1, <3>2
  <2>4. CASE k > Len(ab)
    <3>1. k - Len(ab) \in DOMAIN c /\ Len(ab) = Len(a) + Len(b)
      BY <1>1, <1>4, <1>6, <2>1, <2>4
    <3>2. d[k] = c[k - Len(ab)]
      BY <1>1, <1>5, <1>6, <2>1, <2>4
    <3>3. QED
      BY <3>1, <3>2
  <2>5. QED
    BY <1>1, <1>6, <2>1, <2>2, <2>3, <2>4
<1>9. QED
  BY <1>1, <1>4, <1>7, <1>8

-----------------------------------------------------------------------------
(* The invariant.                                                          *)

\* The place of the next entry.
Behind == ((ChainFor - 1) * PerBlock) + (size % PerBlock)

Gapless == bonus => ~HasGap

\* What may be listed.
Word == {".", "..", Empty, Stray} \cup {Names[m] : m \in DOMAIN Names}

Types ==
  /\ bonus \in BOOLEAN
  /\ slot \in [Position -> Word]
  /\ pos \in Nat /\ listed \in Seq(Word)
  /\ cut \in BOOLEAN /\ strayed \in BOOLEAN

Sizes ==
  /\ size \in 0 .. Len(Names) /\ blocks \in Nat
  /\ blocks <= MaxBlocks /\ size <= blocks * PerBlock
  /\ ~bonus => blocks = 1

\* Entries come one behind the other in the order of their creation.
Slots ==
  /\ \A x \in Position : slot[x] = Empty \/ \E m \in 1 .. size : slot[x] = Names[m]
  /\ bonus \/ size < PerBlock => \A x \in Position : slot[x] # Empty => x < Behind
  /\ \A x, y \in Position : x < y => \A m, n \in DOMAIN Names : slot[x] = Names[m] /\ slot[y] = Names[n] => m < n

\* Without a gap the entry of the x-th file is the x-th one.
Flat == Gapless => \A x \in Position : slot[x] = IF x < size THEN Names[x + 1] ELSE Empty

\* What has been listed lies before the position.
Passed ==
  /\ pos = 0 => listed = <<>>
  /\ \A k \in DOMAIN listed : \/ listed[k] \in {".", "..", Stray}
                              \/ \E x \in Position : x < pos - 2 /\ slot[x] = listed[k] /\ slot[x] # Empty

\* A listing that has gone well has all up to its position.
Full ==
  ~cut /\ ~strayed /\ Gapless /\ pos # 0 =>
    pos - 2 \in 0 .. size /\ listed = Dots \o SubSeq(Names, 1, pos - 2)

DInv == Types /\ Sizes /\ Slots /\ Flat /\ Passed /\ Full /\ ListedInOrder

LEMMA NamesAre ==
  /\ Len(Names) \in Nat /\ DOMAIN Names = 1 .. Len(Names)
  /\ \A m \in 1 .. Len(Names) : Names[m] \in Word /\ Names[m] \notin {".", "..", Empty, Stray}
  /\ \A m, n \in 1 .. Len(Names) : Names[m] = Names[n] => m = n
BY NamesAssumption, SizeAssumption DEF Word

LEMMA InitDInv == Init => DInv
<1> SUFFICES ASSUME Init PROVE DInv
  OBVIOUS
<1> USE DEF Init, Opened
<1>1. Types
  <2>1. slot \in [Position -> Word] /\ <<>> \in Seq(Word)
    BY DEF Word
  <2>2. QED
    BY <2>1 DEF Types
<1>2. Sizes
  BY SizeAssumption, NamesAre DEF Sizes
<1>3. Slots /\ Flat
  <2>1. \A x \in Position : slot[x] = Empty /\ ~(x < size)
    BY SizeAssumption DEF Position
  <2>2. \A x \in Position : \A m \in DOMAIN Names : slot[x] # Names[m]
    BY <2>1, NamesAre
  <2>3. QED
    BY <2>1, <2>2 DEF Slots, Flat
<1>4. Passed /\ Full /\ ListedInOrder
  BY DEF Passed, Full, ListedInOrder
<1>5. QED
  BY <1>1, <1>2, <1>3, <1>4 DEF DInv

-----------------------------------------------------------------------------
(* Creations.                                                              *)

\* The next place, and the one after it.
LEMMA BehindIs ==
  ASSUME Sizes, bonus \in BOOLEAN
  PROVE  /\ ChainFor \in Nat \ {0} /\ ChainFor >= blocks /\ Behind \in Nat
         /\ bonus => HasGap \/ (Behind = size /\ size <= ChainFor * PerBlock)
         /\ bonus => size < ChainFor * PerBlock
         /\ ~bonus /\ size < PerBlock => Behind = size
         /\ ChainFor <= MaxBlocks => Behind \in Position
<1> DEFINE q == size \div PerBlock
           r == size % PerBlock
<1>1. PerBlock \in Nat \ {0} /\ MaxBlocks \in Nat \ {0} /\ size \in Nat /\ blocks \in Nat
  BY SizeAssumption, NamesAre DEF Sizes
<1>2. q \in Nat /\ r \in Nat /\ r < PerBlock /\ size = (q * PerBlock) + r
  BY <1>1, DivIs
<1>3. size <= blocks * PerBlock
  BY DEF Sizes
<1>4. ChainFor = IF bonus /\ r = 0 THEN blocks + 1 ELSE blocks
  BY DEF ChainFor
<1>5. Behind = ((ChainFor - 1) * PerBlock) + r
  BY DEF Behind
<1>6. (size + PerBlock - 1) \div PerBlock = IF r = 0 THEN q ELSE q + 1
  BY <1>1, RoundUp
<1>7. ~HasGap <=> blocks <= IF r = 0 THEN q ELSE q + 1
  BY <1>1, <1>2, <1>6 DEF HasGap
<1> HIDE DEF q, r
<1>8. q <= blocks /\ (r # 0 => q + 1 <= blocks)
  <2>1. ASSUME q > blocks PROVE FALSE
    <3>1. q * PerBlock >= (blocks + 1) * PerBlock /\ (blocks + 1) * PerBlock = (blocks * PerBlock) + PerBlock
      BY <1>1, <1>2, <2>1
    <3>2. q * PerBlock \in Nat /\ blocks * PerBlock \in Nat
      BY <1>1, <1>2
    <3>3. QED
      BY <1>1, <1>2, <1>3, <3>1, <3>2
  <2>2. ASSUME r # 0, q >= blocks PROVE FALSE
    <3>1. q * PerBlock >= blocks * PerBlock
      BY <1>1, <1>2, <2>2
    <3>2. q * PerBlock \in Nat /\ blocks * PerBlock \in Nat
      BY <1>1, <1>2
    <3>3. QED
      BY <1>1, <1>2, <1>3, <2>2, <3>1, <3>2
  <2>3. QED
    BY <1>1, <1>2, <2>1, <2>2
<1>9. ~bonus => blocks = 1
  BY DEF Sizes
<1>10. ChainFor \in Nat \ {0} /\ ChainFor >= blocks
  BY <1>1, <1>2, <1>4, <1>8, <1>9
<1>11. (ChainFor - 1) * PerBlock \in Nat
  BY <1>1, <1>10
<1>12. Behind \in Nat
  BY <1>2, <1>5, <1>11
<1>13. ASSUME bonus PROVE size < ChainFor * PerBlock
  <2>1. q + 1 <= ChainFor
    BY <1>1, <1>2, <1>4, <1>8, <1>13
  <2>2. (q + 1) * PerBlock <= ChainFor * PerBlock /\ (q + 1) * PerBlock = (q * PerBlock) + PerBlock
    BY <1>1, <1>2, <1>10, <2>1
  <2>3. q * PerBlock \in Nat /\ ChainFor * PerBlock \in Nat
    BY <1>1, <1>2, <1>10
  <2>4. QED
    BY <1>1, <1>2, <2>2, <2>3
<1>14. ASSUME bonus, ~HasGap PROVE Behind = size
  <2>1. ChainFor - 1 = q
    BY <1>1, <1>2, <1>4, <1>7, <1>8, <1>14
  <2>2. QED
    BY <1>2, <1>5, <2>1
<1>15. ASSUME ~bonus, size < PerBlock PROVE Behind = size
  <2>1. ChainFor = 1
    BY <1>4, <1>9, <1>15
  <2>2. q = 0
    <3>1. ASSUME q >= 1 PROVE FALSE
      <4>1. q * PerBlock >= 1 * PerBlock /\ q * PerBlock \in Nat
        BY <1>1, <1>2, <3>1
      <4>2. QED
        BY <1>1, <1>2, <1>15, <4>1
    <3>2. QED
      BY <1>2, <3>1
  <2>3. q * PerBlock = 0 /\ (ChainFor - 1) * PerBlock = 0
    BY <1>1, <2>1, <2>2
  <2>4. QED
    BY <1>2, <1>5, <2>3
<1>16. ASSUME ChainFor <= MaxBlocks PROVE Behind \in Position
  <2>1. ChainFor * PerBlock <= MaxBlocks * PerBlock /\ ChainFor * PerBlock = ((ChainFor - 1) * PerBlock) + PerBlock
    BY <1>1, <1>10, <1>16
  <2>2. MaxBlocks * PerBlock = PerBlock * MaxBlocks /\ MaxBlocks * PerBlock \in Nat
    BY <1>1
  <2>3. Behind < PerBlock * MaxBlocks
    BY <1>1, <1>2, <1>5, <1>11, <2>1, <2>2
  <2>4. QED
    BY <1>1, <1>12, <2>2, <2>3 DEF Position
<1>17. ChainFor * PerBlock \in Nat
  BY <1>1, <1>10
<1>18. QED
  BY <1>1, <1>10, <1>12, <1>13, <1>14, <1>15, <1>16, <1>17

\* Where the entry after the next one goes.
LEMMA BehindNext ==
  ASSUME DInv, Create
  PROVE  /\ bonus \/ size' < PerBlock => Behind' = Behind + 1
         /\ Gapless' => Gapless
         /\ ChainFor <= MaxBlocks /\ (bonus \/ size < PerBlock)
<1> DEFINE c == ChainFor
           q == size \div PerBlock
           r == size % PerBlock
<1>1. PerBlock \in Nat \ {0} /\ MaxBlocks \in Nat \ {0} /\ size \in Nat /\ blocks \in Nat /\ bonus \in BOOLEAN
  BY SizeAssumption, NamesAre DEF DInv, Types, Sizes
<1>2. q \in Nat /\ r \in Nat /\ r < PerBlock /\ size = (q * PerBlock) + r
  BY <1>1, DivIs
<1>3. bonus' = bonus /\ size' = size + 1 /\ blocks' = c
  BY DEF Create
<1>4. /\ r = PerBlock - 1 => (size + 1) % PerBlock = 0 /\ (size + 1) \div PerBlock = q + 1
      /\ r # PerBlock - 1 => (size + 1) % PerBlock = r + 1 /\ (size + 1) \div PerBlock = q
  BY <1>1, NextDiv
<1>5. c \in Nat \ {0} /\ c = IF bonus /\ r = 0 THEN blocks + 1 ELSE blocks
  BY <1>1, BehindIs DEF DInv, ChainFor
<1>6. ChainFor' = IF bonus /\ (size + 1) % PerBlock = 0 THEN c + 1 ELSE c
  BY <1>3 DEF ChainFor
<1>7. Behind' = ((ChainFor' - 1) * PerBlock) + ((size + 1) % PerBlock)
  BY <1>3 DEF Behind
<1>8. Behind = ((c - 1) * PerBlock) + r
  BY DEF Behind
<1>9. HasGap <=> blocks > IF r = 0 THEN q ELSE q + 1
  BY <1>1, RoundUp DEF HasGap
<1>10. HasGap' <=> c > IF (size + 1) % PerBlock = 0 THEN (size + 1) \div PerBlock
                       ELSE ((size + 1) \div PerBlock) + 1
  <2>1. size + 1 \in Nat
    BY <1>1
  <2>2. ((size + 1) + PerBlock - 1) \div PerBlock
          = IF (size + 1) % PerBlock = 0 THEN (size + 1) \div PerBlock ELSE ((size + 1) \div PerBlock) + 1
    BY <1>1, <2>1, RoundUp
  <2>3. HasGap' <=> c > ((size + 1) + PerBlock - 1) \div PerBlock
    BY <1>3 DEF HasGap
  <2>4. QED
    BY <2>2, <2>3
<1>11. ChainFor <= MaxBlocks /\ (bonus \/ size < PerBlock)
  BY <1>1 DEF Create, ChainFor, DInv, Sizes
<1> HIDE DEF c, q, r
<1>12. ASSUME bonus \/ size + 1 < PerBlock PROVE Behind' = Behind + 1
  <2>1. CASE r = PerBlock - 1
    <3>1. bonus
      <4>1. ASSUME size + 1 < PerBlock PROVE FALSE
        <5>1. q * PerBlock \in Nat
          BY <1>1, <1>2
        <5>2. QED
          BY <1>1, <1>2, <2>1, <4>1, <5>1
      <4>2. QED
        BY <1>12, <4>1
    <3>2. Behind' = (((c + 1) - 1) * PerBlock) + 0
      BY <1>4, <1>6, <1>7, <2>1, <3>1
    <3>3. ((c + 1) - 1) * PerBlock = ((c - 1) * PerBlock) + PerBlock
      BY <1>1, <1>5
    <3>4. (c - 1) * PerBlock \in Nat
      BY <1>1, <1>5
    <3>5. QED
      BY <1>1, <1>8, <2>1, <3>2, <3>3, <3>4
  <2>2. CASE r # PerBlock - 1
    <3>1. (size + 1) % PerBlock = r + 1 /\ r + 1 # 0
      BY <1>2, <1>4, <2>2
    <3>2. Behind' = ((c - 1) * PerBlock) + (r + 1)
      BY <1>6, <1>7, <3>1
    <3>3. (c - 1) * PerBlock \in Nat
      BY <1>1, <1>5
    <3>4. QED
      BY <1>2, <1>8, <3>2, <3>3
  <2>3. QED
    BY <2>1, <2>2
<1>13. bonus /\ ~HasGap' => ~HasGap
  BY <1>1, <1>2, <1>4, <1>5, <1>9, <1>10
<1>14. QED
  BY <1>3, <1>11, <1>12, <1>13 DEF Gapless

LEMMA CreateKeeps == DInv /\ Create => DInv'
<1> SUFFICES ASSUME DInv, Create PROVE DInv'
  OBVIOUS
<1> DEFINE b == Behind
           name == Names[size + 1]
<1>1. /\ size' = size + 1 /\ blocks' = ChainFor /\ size < Len(Names)
      /\ slot' = [slot EXCEPT ![b] = name]
      /\ UNCHANGED <<bonus, pos, listed, state, cut, strayed>>
  BY DEF Create, Behind, listing
<1>2. /\ bonus \/ size' < PerBlock => Behind' = b + 1
      /\ Gapless' => Gapless
      /\ ChainFor <= MaxBlocks /\ (bonus \/ size < PerBlock)
  BY BehindNext
<1>3. /\ ChainFor \in Nat \ {0} /\ b \in Nat /\ b \in Position
      /\ bonus => HasGap \/ b = size
      /\ ~bonus => b = size
      /\ bonus => size < ChainFor * PerBlock
  BY <1>2, BehindIs DEF DInv, Types
<1>4. size \in Nat /\ size + 1 \in 1 .. Len(Names) /\ Len(Names) \in Nat /\ size + 1 \in DOMAIN Names
  BY <1>1, NamesAre DEF DInv, Sizes
<1>5. name \in Word /\ name # Empty
  BY <1>4, NamesAre
<1> HIDE DEF b
<1>6. slot'[b] = name /\ \A x \in Position : x # b => slot'[x] = slot[x]
  BY <1>1, <1>3 DEF DInv, Types
<1>7. \A x \in Position : slot[x] # Empty => x < b
  BY <1>2 DEF DInv, Slots, b
<1>8. Types'
  BY <1>1, <1>5 DEF DInv, Types
<1>9. Sizes'
  <2>1. ~bonus => ChainFor = 1 /\ size + 1 <= 1 * PerBlock
    BY <1>2, <1>4, SizeAssumption DEF DInv, Sizes, ChainFor
  <2>2. bonus => size + 1 <= ChainFor * PerBlock
    <3>1. ChainFor * PerBlock \in Nat
      BY <1>3, SizeAssumption
    <3>2. QED
      BY <1>3, <1>4, <3>1
  <2>3. bonus \in BOOLEAN
    BY DEF DInv, Types
  <2>4. size + 1 <= ChainFor * PerBlock
    BY <2>1, <2>2, <2>3
  <2>5. QED
    BY <1>1, <1>2, <1>3, <1>4, <2>1, <2>4 DEF Sizes
<1>10. Slots'
  <2>1. ASSUME NEW x \in Position
        PROVE  slot'[x] = Empty \/ \E m \in 1 .. size + 1 : slot'[x] = Names[m]
    <3>1. size + 1 \in 1 .. size + 1
      BY <1>4
    <3>2. CASE x = b
      BY <1>6, <3>1, <3>2
    <3>3. CASE x # b
      <4>1. slot[x] = Empty \/ \E m \in 1 .. size : slot[x] = Names[m]
        BY DEF DInv, Slots
      <4>2. \A m \in 1 .. size : m \in 1 .. size + 1
        BY <1>4
      <4>3. QED
        BY <1>6, <3>3, <4>1, <4>2
    <3>4. QED
      BY <3>2, <3>3
  <2>2. ASSUME bonus \/ size' < PerBlock, NEW x \in Position, slot'[x] # Empty PROVE x < Behind'
    <3>1. x = b \/ x < b
      BY <1>6, <1>7, <2>2
    <3>2. x \in Int
      BY SizeAssumption DEF Position
    <3>3. QED
      BY <1>2, <1>3, <2>2, <3>1, <3>2
  <2>3. ASSUME NEW x \in Position, NEW y \in Position, x < y,
               NEW m \in DOMAIN Names, NEW n \in DOMAIN Names,
               slot'[x] = Names[m], slot'[y] = Names[n]
        PROVE  m < n
    <3>1. x \in Int /\ y \in Int /\ m \in 1 .. Len(Names) /\ n \in 1 .. Len(Names)
      BY NamesAre, SizeAssumption DEF Position
    <3>2. Names[m] # Empty /\ Names[n] # Empty
      BY <3>1, NamesAre
    <3>3. CASE y = b
      <4>1. n = size + 1
        BY <1>4, <1>6, <2>3, <3>1, <3>3, NamesAre
      <4>2. x # b /\ slot[x] = Names[m]
        BY <1>6, <2>3, <3>1, <3>3
      <4>3. PICK i \in 1 .. size : Names[i] = Names[m]
        BY <3>2, <4>2 DEF DInv, Slots
      <4>4. i = m
        BY <1>4, <3>1, <4>3, NamesAre
      <4>5. QED
        BY <1>4, <4>1, <4>4
    <3>4. CASE x = b /\ y # b
      <4>1. y < b
        BY <1>6, <1>7, <2>3, <3>2, <3>4
      <4>2. QED
        BY <1>3, <2>3, <3>1, <3>4, <4>1
    <3>5. CASE x # b /\ y # b
      BY <1>6, <2>3, <3>5 DEF DInv, Slots
    <3>6. QED
      BY <3>3, <3>4, <3>5
  <2>4. QED
    BY <1>1, <2>1, <2>2, <2>3 DEF Slots
<1>11. Flat'
  <2> SUFFICES ASSUME Gapless', NEW x \in Position
               PROVE  slot'[x] = IF x < size + 1 THEN Names[x + 1] ELSE Empty
    BY <1>1 DEF Flat
  <2>1. Gapless
    BY <1>2
  <2>2. b = size
    BY <1>3, <2>1 DEF Gapless
  <2>3. slot[x] = IF x < size THEN Names[x + 1] ELSE Empty
    BY <2>1 DEF DInv, Flat
  <2>4. x \in Int
    BY SizeAssumption DEF Position
  <2>5. QED
    BY <1>4, <1>6, <2>2, <2>3, <2>4
<1>12. Passed'
  <2>1. ASSUME NEW k \in DOMAIN listed
        PROVE  \/ listed[k] \in {".", "..", Stray}
               \/ \E x \in Position : x < pos - 2 /\ slot'[x] = listed[k] /\ slot'[x] # Empty
    <3>1. CASE \E x \in Position : x < pos - 2 /\ slot[x] = listed[k] /\ slot[x] # Empty
      <4>1. PICK x \in Position : x < pos - 2 /\ slot[x] = listed[k] /\ slot[x] # Empty
        BY <3>1
      <4>2. x # b
        BY <1>3, <1>7, <4>1
      <4>3. QED
        BY <1>6, <4>1, <4>2
    <3>2. QED
      BY <3>1 DEF DInv, Passed
  <2>2. QED
    BY <1>1, <2>1 DEF DInv, Passed
<1>13. Full'
  BY <1>1, <1>2, <1>4 DEF DInv, Full, Types
<1>14. ListedInOrder'
  BY <1>1 DEF DInv, ListedInOrder
<1>15. QED
  BY <1>8, <1>9, <1>10, <1>11, <1>12, <1>13, <1>14 DEF DInv

LEMMA CreateExistsKeeps ==
  ASSUME DInv, NEW x \in Position, CreateExists(x)
  PROVE  DInv'
<1> DEFINE c == ChainFor
           q == size \div PerBlock
           r == size % PerBlock
<1>1. bonus /\ blocks' = c /\ c <= MaxBlocks /\ UNCHANGED <<bonus, slot, size, pos, listed, state, cut, strayed>>
  BY DEF CreateExists, listing
<1>2. PerBlock \in Nat \ {0} /\ size \in Nat /\ blocks \in Nat /\ bonus \in BOOLEAN
  BY SizeAssumption, NamesAre DEF DInv, Types, Sizes
<1>3. q \in Nat /\ r \in Nat /\ r < PerBlock
  BY <1>2, DivIs
<1>4. c \in Nat \ {0} /\ c = (IF r = 0 THEN blocks + 1 ELSE blocks) /\ size < c * PerBlock
  BY <1>1, <1>2, BehindIs DEF DInv, ChainFor
<1>5. ChainFor' = IF r = 0 THEN c + 1 ELSE c
  BY <1>1 DEF ChainFor
<1>6. Behind = ((c - 1) * PerBlock) + r /\ Behind' = ((ChainFor' - 1) * PerBlock) + r
  BY <1>1 DEF Behind
<1>7. HasGap <=> blocks > IF r = 0 THEN q ELSE q + 1
  BY <1>2, RoundUp DEF HasGap
<1>8. HasGap' <=> c > IF r = 0 THEN q ELSE q + 1
  BY <1>1, <1>2, RoundUp DEF HasGap
<1> HIDE DEF c, q, r
<1>9. Behind' >= Behind /\ Behind \in Int /\ Behind' \in Int
  <2>1. (c - 1) * PerBlock \in Nat /\ ((c + 1) - 1) * PerBlock = ((c - 1) * PerBlock) + PerBlock
    BY <1>2, <1>4
  <2>2. QED
    BY <1>2, <1>3, <1>5, <1>6, <2>1
<1>10. Gapless' => Gapless
  BY <1>1, <1>2, <1>3, <1>4, <1>7, <1>8 DEF Gapless
<1>11. Types' /\ Passed' /\ ListedInOrder'
  BY <1>1 DEF DInv, Types, Passed, ListedInOrder
<1>12. Sizes'
  <2>1. c * PerBlock \in Nat
    BY <1>2, <1>4
  <2>2. QED
    BY <1>1, <1>2, <1>4, <2>1 DEF DInv, Sizes
<1>13. Slots'
  <2>1. ASSUME NEW y \in Position, slot[y] # Empty PROVE y < Behind'
    <3>1. y < Behind /\ y \in Int
      BY <1>1, <2>1, SizeAssumption DEF DInv, Slots, Position
    <3>2. QED
      BY <1>9, <3>1
  <2>2. QED
    BY <1>1, <2>1 DEF DInv, Slots
<1>14. Flat' /\ Full'
  BY <1>1, <1>10 DEF DInv, Flat, Full
<1>15. QED
  BY <1>11, <1>12, <1>13, <1>14 DEF DInv

-----------------------------------------------------------------------------
(* Calls of getdents.                                                      *)

\* What a call emits: the dots, then the entries from the first it reads.
LEMMA OfferIs ==
  ASSUME DInv, NEW room \in 1 .. MaxRoom, NEW before \in [{-2, -1} -> {Empty, Stray}],
         NEW dots, dots = DotsEmitted(room),
         NEW offer, offer = IF pos = 0 /\ dots = 1 THEN <<>> ELSE Offered(FirstEntry, before)
  PROVE  /\ offer \in Seq(Word)
         /\ dots \in 0 .. 2 /\ (dots = 0 <=> pos # 0)
         /\ FirstEntry \in Int /\ FirstEntry >= -2 /\ FirstEntry >= pos - 2
         /\ pos # 0 => FirstEntry = pos - 2
         /\ dots = 2 => FirstEntry = IF bonus THEN -2 ELSE 0
         /\ Len(offer) > 0 =>
              Len(offer) = size - FirstEntry /\ FirstEntry <= pos + dots - 2
         /\ Len(offer) = 0 =>
              (pos = 0 /\ dots = 1) \/ (bonus /\ blocks = 0) \/ size <= FirstEntry
         /\ \A k \in 1 .. Len(offer) :
              IF FirstEntry + k - 1 < 0
              THEN offer[k] \in {Empty, Stray}
              ELSE FirstEntry + k - 1 \in Position /\ offer[k] = slot[FirstEntry + k - 1]
<1> DEFINE first == FirstEntry
           V(k) == IF first + k - 1 < 0 THEN before[first + k - 1] ELSE slot[first + k - 1]
           none == (pos = 0 /\ dots = 1) \/ (bonus /\ blocks = 0) \/ size - first < 0
           L == IF none THEN 0 ELSE size - first
<1>1. pos \in Nat /\ size \in Nat /\ blocks \in Nat /\ slot \in [Position -> Word] /\ bonus \in BOOLEAN
  BY NamesAre DEF DInv, Types, Sizes
<1>2. dots \in 0 .. 2 /\ (dots = 0 <=> pos # 0)
  BY <1>1 DEF DotsEmitted
<1>3. first \in Int /\ first >= -2 /\ first >= pos - 2 /\ (pos # 0 => first = pos - 2)
      /\ (dots = 2 => first = IF bonus THEN -2 ELSE 0)
  BY <1>1, <1>2 DEF FirstEntry
<1>4. ~(pos = 0 /\ dots = 1) => first <= pos + dots - 2
  BY <1>1, <1>2, <1>3
<1>5. \A x \in 0 .. size - 1 : x \in Position
  <2>1. PerBlock \in Nat \ {0} /\ MaxBlocks \in Nat \ {0}
    BY SizeAssumption
  <2>2. blocks <= MaxBlocks /\ size <= blocks * PerBlock
    BY DEF DInv, Sizes
  <2>3. blocks * PerBlock <= MaxBlocks * PerBlock /\ MaxBlocks * PerBlock = PerBlock * MaxBlocks
    BY <1>1, <2>1, <2>2
  <2>4. blocks * PerBlock \in Nat /\ PerBlock * MaxBlocks \in Nat
    BY <1>1, <2>1
  <2>5. size <= PerBlock * MaxBlocks
    BY <1>1, <2>2, <2>3, <2>4
  <2>6. QED
    BY <1>1, <2>4, <2>5 DEF Position
<1>6. Empty \in Word /\ Stray \in Word
  BY DEF Word
<1>7. offer = [k \in 1 .. L |-> V(k)]
  <2>1. CASE pos = 0 /\ dots = 1
    <3>1. L = 0 /\ offer = <<>>
      BY <2>1
    <3>2. QED
      BY <3>1
  <2>2. CASE ~(pos = 0 /\ dots = 1)
    <3>1. offer = Offered(first, before)
      BY <2>2
    <3>2. CASE bonus /\ blocks = 0
      <4>1. L = 0 /\ offer = <<>>
        BY <3>1, <3>2 DEF Offered
      <4>2. QED
        BY <4>1
    <3>3. CASE ~(bonus /\ blocks = 0)
      <4>1. offer = [k \in 1 .. size - first |-> V(k)]
        BY <3>1, <3>3 DEF Offered
      <4>2. 1 .. size - first = 1 .. L
        BY <1>1, <1>3, <2>2, <3>3
      <4>3. QED
        BY <4>1, <4>2
    <3>4. QED
      BY <3>2, <3>3
  <2>3. QED
    BY <2>1, <2>2
<1> HIDE DEF first
<1>8. L \in Nat /\ (~none => L = size - first)
  BY <1>1, <1>3
<1>9. ASSUME NEW k \in 1 .. L
      PROVE  IF first + k - 1 < 0 THEN V(k) \in {Empty, Stray}
             ELSE first + k - 1 \in Position /\ V(k) = slot[first + k - 1]
  <2>1. L = size - first /\ k \in Nat \ {0} /\ k <= L
    BY <1>8, <1>9
  <2>2. CASE first + k - 1 < 0
    <3>1. first + k - 1 \in {-2, -1}
      BY <1>3, <2>1, <2>2
    <3>2. QED
      BY <2>2, <3>1
  <2>3. CASE ~(first + k - 1 < 0)
    <3>1. first + k - 1 \in 0 .. size - 1
      BY <1>1, <1>3, <2>1, <2>3
    <3>2. QED
      BY <1>5, <2>3, <3>1
  <2>4. QED
    BY <2>2, <2>3
<1>10. \A k \in 1 .. L : V(k) \in Word
  BY <1>1, <1>6, <1>9
<1> HIDE DEF V, L
<1>11. offer \in Seq(Word) /\ Len(offer) = L /\ \A k \in 1 .. L : offer[k] = V(k)
  BY <1>7, <1>8, <1>10
<1>12. Len(offer) > 0 => Len(offer) = size - first /\ first <= pos + dots - 2
  BY <1>4, <1>8, <1>11 DEF L
<1>13. Len(offer) = 0 => (pos = 0 /\ dots = 1) \/ (bonus /\ blocks = 0) \/ size <= first
  BY <1>1, <1>3, <1>8, <1>11 DEF L
<1>14. \A k \in 1 .. Len(offer) :
              IF first + k - 1 < 0 THEN offer[k] \in {Empty, Stray}
              ELSE first + k - 1 \in Position /\ offer[k] = slot[first + k - 1]
  BY <1>9, <1>11
<1>15. QED
  BY <1>2, <1>3, <1>11, <1>12, <1>13, <1>14 DEF first

\* Dots and names, and more names.
Continued(a, t, b) ==
  /\ Len(b) = Len(a) + Len(t)
  /\ \A k \in 1 .. Len(a) : b[k] = a[k]
  /\ \A k \in 1 .. Len(t) : b[Len(a) + k] = t[k]

SameJoined(d, a, t, b) == (d \o a) \o t = d \o b

LEMMA PutOn ==
  ASSUME NEW d \in Seq(Word), NEW a \in Seq(Word), NEW t \in Seq(Word), NEW b \in Seq(Word),
         Continued(a, t, b)
  PROVE  SameJoined(d, a, t, b)
<1> USE DEF Continued, SameJoined
<1>1. a \o t \in Seq(Word) /\ Len(a \o t) = Len(a) + Len(t)
      /\ \A k \in 1 .. Len(a) + Len(t) : (a \o t)[k] = IF k <= Len(a) THEN a[k] ELSE t[k - Len(a)]
  BY ConcatProperties
<1> DEFINE c == a \o t
<1>2. c \in Seq(Word) /\ Len(c) = Len(a) + Len(t)
      /\ \A k \in 1 .. Len(a) + Len(t) : c[k] = IF k <= Len(a) THEN a[k] ELSE t[k - Len(a)]
  BY <1>1
<1> HIDE DEF c
<1>3. Len(a) \in Nat /\ Len(t) \in Nat
  OBVIOUS
<1>4. ASSUME NEW k \in 1 .. Len(b) PROVE c[k] = b[k]
  <2>1. CASE k <= Len(a)
    BY <1>2, <1>3, <2>1
  <2>2. CASE k > Len(a)
    <3>1. k - Len(a) \in 1 .. Len(t) /\ Len(a) + (k - Len(a)) = k
      BY <1>3, <2>2
    <3>2. b[Len(a) + (k - Len(a))] = t[k - Len(a)]
      BY <3>1
    <3>3. c[k] = t[k - Len(a)]
      BY <1>2, <1>3, <2>2
    <3>4. QED
      BY <3>1, <3>2, <3>3
  <2>3. QED
    BY <1>3, <2>1, <2>2
<1>5. c = b
  BY <1>2, <1>4
<1>6. (d \o a) \o t = d \o (a \o t)
  BY ConcatAssociative
<1>7. QED
  BY <1>5, <1>6 DEF c

LEMMA NamesOn ==
  ASSUME NEW p \in Nat, NEW n \in Nat, p + n <= Len(Names), NEW t \in Seq(Word), Len(t) = n,
         \A k \in 1 .. n : t[k] = Names[p + k]
  PROVE  (Dots \o SubSeq(Names, 1, p)) \o t = Dots \o SubSeq(Names, 1, p + n)
<1> DEFINE a == SubSeq(Names, 1, p)
           b == SubSeq(Names, 1, p + n)
<1>1. Names \in Seq(Word) /\ Dots \in Seq(Word) /\ Len(Names) \in Nat
  BY NamesAre, NamesAssumption DEF Dots, Word
<1>2. a \in Seq(Word) /\ Len(a) = p /\ \A k \in 1 .. p : a[k] = Names[k]
  BY <1>1
<1>3. b \in Seq(Word) /\ Len(b) = p + n /\ \A k \in 1 .. p + n : b[k] = Names[k]
  BY <1>1
<1> HIDE DEF a, b
<1>4. ASSUME NEW k \in 1 .. Len(a) PROVE b[k] = a[k]
  <2>1. k \in 1 .. p /\ k \in 1 .. p + n
    BY <1>2
  <2>2. QED
    BY <1>2, <1>3, <2>1
<1>5. ASSUME NEW k \in 1 .. Len(t) PROVE b[Len(a) + k] = t[k]
  <2>1. p + k \in 1 .. p + n /\ k \in 1 .. n
    OBVIOUS
  <2>2. QED
    BY <1>2, <1>3, <2>1
<1>6. Len(b) = Len(a) + Len(t)
  BY <1>2, <1>3
<1>7. Dots \in Seq(Word) /\ a \in Seq(Word) /\ b \in Seq(Word)
  BY <1>1, <1>2, <1>3
<1>8. Continued(a, t, b)
  BY <1>4, <1>5, <1>6 DEF Continued
<1>9. SameJoined(Dots, a, t, b)
  BY <1>7, <1>8, PutOn
<1>10. QED
  BY <1>9 DEF SameJoined, a, b

LEMMA GetDentsKeeps ==
  ASSUME DInv, NEW room \in 1 .. MaxRoom, NEW before \in [{-2, -1} -> {Empty, Stray}],
         GetDents(room, before)
  PROVE  DInv'
<1> DEFINE dots == DotsEmitted(room)
           offer == IF pos = 0 /\ dots = 1 THEN <<>> ELSE Offered(FirstEntry, before)
           At(k) == FirstEntry + k - 1
<1>1. PICK n \in 0 .. room :
        /\ Emits(offer, n, room - dots)
        /\ pos' = pos + dots + n
        /\ listed' = listed \o SubSeq(Dots, 1, dots) \o SubSeq(offer, 1, n)
        /\ cut' = (cut \/ (pos = 0 /\ dots = 1))
        /\ strayed' = (strayed \/ \E k \in 1 .. n : offer[k] = Stray)
  BY DEF GetDents, Moved
<1>2. UNCHANGED <<bonus, slot, size, blocks>>
  BY DEF GetDents, directory
<1>3. /\ offer \in Seq(Word)
      /\ dots \in 0 .. 2 /\ (dots = 0 <=> pos # 0)
      /\ FirstEntry \in Int /\ FirstEntry >= -2 /\ FirstEntry >= pos - 2
      /\ pos # 0 => FirstEntry = pos - 2
      /\ dots = 2 => FirstEntry = IF bonus THEN -2 ELSE 0
      /\ Len(offer) > 0 => Len(offer) = size - FirstEntry /\ FirstEntry <= pos + dots - 2
      /\ \A k \in 1 .. Len(offer) :
           IF At(k) < 0 THEN offer[k] \in {Empty, Stray} ELSE At(k) \in Position /\ offer[k] = slot[At(k)]
  BY OfferIs
<1>4. n \in Nat /\ n <= Len(offer) /\ \A k \in 1 .. n : offer[k] # Empty
  BY <1>1 DEF Emits
<1>5. pos \in Nat /\ size \in Nat /\ listed \in Seq(Word) /\ slot \in [Position -> Word] /\ bonus \in BOOLEAN
      /\ cut \in BOOLEAN /\ strayed \in BOOLEAN
  BY NamesAre DEF DInv, Types, Sizes
<1> HIDE DEF offer, dots
<1> DEFINE part == SubSeq(Dots, 1, dots)
           new == SubSeq(offer, 1, n)
<1>6. part \in Seq(Word) /\ Len(part) = dots /\ \A k \in DOMAIN part : part[k] \in {".", ".."}
  <2>1. Dots \in Seq(Word) /\ Len(Dots) = 2 /\ \A k \in 1 .. 2 : Dots[k] \in {".", ".."}
    BY DEF Dots, Word
  <2>2. dots \in Nat /\ dots <= 2
    BY <1>3
  <2> HIDE DEF Dots
  <2>3. part \in Seq(Word) /\ Len(part) = dots /\ \A k \in 1 .. dots : part[k] = Dots[k]
    <3>1. dots \in Int /\ 1 \in Int /\ \A k \in 1 .. dots : Dots[k] \in Word
      BY <2>1, <2>2 DEF Word
    <3>2. /\ part \in Seq(Word)
          /\ Len(part) = IF 1 <= dots THEN dots - 1 + 1 ELSE 0
          /\ \A k \in 1 .. dots - 1 + 1 : part[k] = Dots[1 + k - 1]
      BY <3>1, SubSeqProperties
    <3>3. QED
      BY <2>2, <3>2
  <2>4. DOMAIN part = 1 .. dots /\ \A k \in 1 .. dots : k \in 1 .. 2
    BY <2>2, <2>3
  <2>5. QED
    BY <2>1, <2>3, <2>4
<1>7. new \in Seq(Word) /\ Len(new) = n /\ \A k \in 1 .. n : new[k] = offer[k]
  BY <1>3, <1>4
<1>8. listed' = listed \o part \o new
  BY <1>1
<1> HIDE DEF part, new
<1>9. /\ listed' \in Seq(Word)
      /\ \A k \in DOMAIN listed : listed'[k] = listed[k]
      /\ \A k \in DOMAIN listed' :
           \/ k \in DOMAIN listed
           \/ k - Len(listed) \in DOMAIN part /\ listed'[k] = part[k - Len(listed)]
           \/ k - (Len(listed) + Len(part)) \in DOMAIN new
              /\ listed'[k] = new[k - (Len(listed) + Len(part))]
  <2>1. listed \in Seq(Word) /\ part \in Seq(Word) /\ new \in Seq(Word)
    BY <1>5, <1>6, <1>7
  <2>2. QED
    BY <1>8, <2>1, Together
<1>10. pos' \in Nat /\ pos' >= pos /\ pos' # 0
  BY <1>1, <1>3, <1>4, <1>5
\* What is new is a stray name or an entry between the two positions.
<1>11. ASSUME NEW i \in DOMAIN new
       PROVE  /\ i \in 1 .. n
              /\ new[i] # Stray => At(i) >= 0
              /\ At(i) < 0 => new[i] = Stray
              /\ At(i) >= 0 => At(i) \in Position /\ At(i) < pos' - 2 /\ At(i) >= pos - 2
                               /\ new[i] = slot[At(i)] /\ new[i] # Empty
  <2>1. i \in 1 .. n
    BY <1>4, <1>7
  <2>2. i \in 1 .. Len(offer) /\ i <= n /\ i >= 1 /\ Len(offer) > 0
    BY <1>3, <1>4, <2>1
  <2>3. At(i) \in Int /\ At(i) < pos' - 2 /\ At(i) >= pos - 2
    <3>1. FirstEntry <= pos + dots - 2
      BY <1>3, <2>2
    <3>2. FirstEntry \in Int /\ dots \in Int /\ FirstEntry >= pos - 2
      BY <1>3
    <3>3. pos' = pos + dots + n /\ i \in Int /\ i <= n /\ i >= 1
      BY <1>1, <2>2
    <3>4. QED
      BY <1>4, <1>5, <3>1, <3>2, <3>3
  <2>4. new[i] = offer[i] /\ offer[i] # Empty
    BY <1>4, <1>7, <2>1
  <2>5. IF At(i) < 0 THEN offer[i] \in {Empty, Stray} ELSE At(i) \in Position /\ offer[i] = slot[At(i)]
    BY <1>3, <2>2
  <2>6. \A x \in Position : slot[x] # Stray
    <3>1. \A x \in Position : slot[x] = Empty \/ \E m \in 1 .. size : slot[x] = Names[m]
      BY DEF DInv, Slots
    <3>2. 1 .. size \subseteq 1 .. Len(Names)
      BY NamesAre DEF DInv, Sizes
    <3>3. Empty # Stray
      BY DEF Empty, Stray
    <3>4. QED
      BY <3>1, <3>2, <3>3, NamesAre
  <2>7. QED
    BY <2>1, <2>3, <2>4, <2>5, <2>6
<1>12. Types'
  BY <1>1, <1>2, <1>5, <1>9, <1>10 DEF Types, DInv
<1>13. Sizes' /\ Slots' /\ Flat'
  <2>1. Behind' = Behind /\ Gapless' = Gapless
    BY <1>2 DEF Behind, ChainFor, Gapless, HasGap
  <2>2. QED
    BY <1>2, <2>1 DEF DInv, Sizes, Slots, Flat
<1>14. Passed'
  <2>1. ASSUME NEW k \in DOMAIN listed'
        PROVE  \/ listed'[k] \in {".", "..", Stray}
               \/ \E x \in Position : x < pos' - 2 /\ slot[x] = listed'[k] /\ slot[x] # Empty
    <3>1. CASE k \in DOMAIN listed
      <4>1. \/ listed[k] \in {".", "..", Stray}
            \/ \E x \in Position : x < pos - 2 /\ slot[x] = listed[k] /\ slot[x] # Empty
        BY <3>1 DEF DInv, Passed
      <4>2. \A x \in Position : x < pos - 2 => x < pos' - 2
        <5>1. \A x \in Position : x \in Int
          BY DEF Position
        <5>2. QED
          BY <1>5, <1>10, <5>1
      <4>3. QED
        BY <1>9, <3>1, <4>1, <4>2
    <3>2. CASE \E i \in DOMAIN part : listed'[k] = part[i]
      BY <1>6, <3>2
    <3>3. CASE \E i \in DOMAIN new : listed'[k] = new[i]
      <4>1. PICK i \in DOMAIN new : listed'[k] = new[i]
        BY <3>3
      <4>2. QED
        BY <1>11, <4>1
    <3>4. QED
      BY <1>9, <3>1, <3>2, <3>3
  <2>2. QED
    BY <1>2, <1>10, <2>1 DEF Passed
<1>15. ListedInOrder'
  <2>1. SUFFICES ASSUME NEW j \in DOMAIN listed', NEW k \in DOMAIN listed', j < k,
                        NEW l \in DOMAIN Names, NEW m \in DOMAIN Names,
                        listed'[j] = Names[l], listed'[k] = Names[m]
                 PROVE  l < m
    BY DEF ListedInOrder
  <2>2. /\ listed'[j] \notin {".", "..", Stray, Empty} /\ listed'[k] \notin {".", "..", Stray, Empty}
    BY NamesAre, <2>1
  <2>3. DOMAIN listed = 1 .. Len(listed) /\ DOMAIN new = 1 .. n /\ DOMAIN part = 1 .. dots
        /\ Len(listed) \in Nat /\ dots \in Nat /\ j \in Nat /\ k \in Nat
    BY <1>3, <1>4, <1>5, <1>6, <1>7, <1>9
  <2>4. ~(\E i \in DOMAIN part : listed'[j] = part[i] \/ listed'[k] = part[i])
    BY <1>6, <2>2
  <2>5. \A x, y \in Position : x < y /\ slot[x] = Names[l] /\ slot[y] = Names[m] => l < m
    BY <2>1 DEF DInv, Slots
  <2>6. CASE k \in DOMAIN listed
    <3>1. j \in 1 .. Len(listed)
      <4>1. k <= Len(listed) /\ j >= 1
        BY <1>9, <2>3, <2>6
      <4>2. QED
        BY <2>1, <2>3, <4>1
    <3>2. listed[j] = Names[l] /\ listed[k] = Names[m]
      BY <1>9, <2>1, <2>3, <2>6, <3>1
    <3>3. QED
      BY <2>1, <2>3, <2>6, <3>1, <3>2 DEF DInv, ListedInOrder
  <2>7. CASE k \notin DOMAIN listed
    <3>1. PICK i \in DOMAIN new : i = k - (Len(listed) + Len(part)) /\ listed'[k] = new[i]
      BY <1>9, <2>4, <2>7
    <3>2. At(i) \in Position /\ At(i) >= pos - 2 /\ slot[At(i)] = Names[m]
      BY <1>11, <2>1, <2>2, <3>1
    <3>3. CASE j \in DOMAIN listed
      <4>1. PICK x \in Position : x < pos - 2 /\ slot[x] = listed[j]
        BY <1>9, <2>2, <3>3 DEF DInv, Passed
      <4>2. x < At(i) /\ slot[x] = Names[l]
        BY <1>5, <1>9, <2>1, <3>2, <3>3, <4>1, SizeAssumption DEF Position
      <4>3. QED
        BY <2>5, <3>2, <4>2
    <3>4. CASE j \notin DOMAIN listed
      <4>1. PICK h \in DOMAIN new : h = j - (Len(listed) + Len(part)) /\ listed'[j] = new[h]
        BY <1>9, <2>4, <3>4
      <4>2. At(h) \in Position /\ slot[At(h)] = Names[l]
        BY <1>11, <2>1, <2>2, <4>1
      <4>3. h < i
        BY <1>6, <2>1, <2>3, <3>1, <4>1
      <4>4. At(h) < At(i)
        BY <1>3, <2>3, <4>3
      <4>5. QED
        BY <2>5, <3>2, <4>2, <4>4
    <3>5. QED
      BY <3>3, <3>4
  <2>8. QED
    BY <2>6, <2>7
<1>16. Full'
  <2>1. SUFFICES ASSUME ~cut', ~strayed', Gapless
                 PROVE  pos' - 2 \in 0 .. size /\ listed' = Dots \o SubSeq(Names, 1, pos' - 2)
    <3>1. Gapless' = Gapless
      BY <1>2 DEF Gapless, HasGap
    <3>2. QED
      BY <1>2, <2>1, <3>1 DEF Full
  <2>2. ~cut /\ ~strayed /\ ~(pos = 0 /\ dots = 1) /\ \A k \in 1 .. n : offer[k] # Stray
    BY <1>1, <1>5, <2>1
  <2>3. \A i \in DOMAIN new : At(i) >= 0
    BY <1>3, <1>7, <1>11, <2>2
  <2>4. \A x \in Position : slot[x] = IF x < size THEN Names[x + 1] ELSE Empty
    BY <2>1 DEF DInv, Flat
  <2>5. DOMAIN new = 1 .. n
    BY <1>4, <1>7
  <2>6. ASSUME NEW p \in Nat, p <= size, n > 0 => FirstEntry = p,
               listed \o part = Dots \o SubSeq(Names, 1, p), pos' = p + 2 + n
        PROVE  pos' - 2 \in 0 .. size /\ listed' = Dots \o SubSeq(Names, 1, pos' - 2)
    <3>1. p + n <= size /\ size <= Len(Names) /\ Len(Names) \in Nat
      BY <1>3, <1>4, <1>5, <2>6, NamesAre DEF DInv, Sizes
    <3>2. ASSUME NEW k \in 1 .. n PROVE new[k] = Names[p + k]
      <4>1. At(k) = p + k - 1 /\ At(k) < size
        BY <1>4, <1>5, <2>6, <3>1, <3>2
      <4>2. new[k] = slot[At(k)] /\ At(k) \in Position
        BY <1>11, <2>3, <2>5, <3>2
      <4>3. slot[At(k)] = Names[At(k) + 1]
        BY <2>4, <4>1, <4>2
      <4>4. At(k) + 1 = p + k
        BY <1>4, <2>6, <3>2, <4>1
      <4>5. QED
        BY <4>2, <4>3, <4>4
    <3>3. p + n \in Nat /\ n \in Nat /\ p + n <= Len(Names)
      BY <1>4, <1>5, <2>6, <3>1
    <3>4. (Dots \o SubSeq(Names, 1, p)) \o new = Dots \o SubSeq(Names, 1, p + n)
      BY <1>7, <2>6, <3>2, <3>3, NamesOn
    <3>5. pos' - 2 = p + n
      BY <2>6, <3>3
    <3>6. p + n \in 0 .. size
      BY <1>5, <3>1, <3>3
    <3>7. listed' = (Dots \o SubSeq(Names, 1, p)) \o new
      BY <1>8, <2>6
    <3>8. QED
      BY <3>4, <3>5, <3>6, <3>7
  <2>7. CASE pos = 0
    <3>1. dots = 2 /\ listed = <<>>
      BY <1>3, <2>2, <2>7 DEF DInv, Passed
    <3>2. FirstEntry = IF bonus THEN -2 ELSE 0
      BY <1>3, <3>1
    <3>3. n > 0 => FirstEntry = 0
      <4>1. ASSUME n > 0, bonus PROVE FALSE
        <5>1. 1 \in DOMAIN new /\ At(1) = -2
          BY <1>4, <2>5, <3>2, <4>1
        <5>2. QED
          BY <2>3, <5>1
      <4>2. QED
        BY <3>2, <4>1
    <3>4. part = Dots /\ SubSeq(Names, 1, 0) = <<>>
      <4>1. part = SubSeq(Dots, 1, 2)
        BY <3>1 DEF part
      <4>2. SubSeq(Dots, 1, 2) = Dots
        <5>1. Dots \in Seq(Word) /\ Len(Dots) = 2
          BY DEF Dots, Word
        <5>2. QED
          BY <5>1, SubSeqFull
      <4>3. SubSeq(Names, 1, 0) = <<>>
        BY NamesAssumption
      <4>4. QED
        BY <4>1, <4>2, <4>3
    <3>5. listed \o part = Dots \o SubSeq(Names, 1, 0)
      BY <3>1, <3>4 DEF Dots
    <3>6. 0 <= size /\ pos' = 0 + 2 + n /\ 0 \in Nat
      BY <1>1, <1>4, <1>5, <2>7, <3>1
    <3>7. QED
      BY <2>6, <3>3, <3>5, <3>6
  <2>8. CASE pos # 0
    <3>1. pos - 2 \in 0 .. size /\ listed = Dots \o SubSeq(Names, 1, pos - 2)
      BY <2>1, <2>2, <2>8 DEF DInv, Full
    <3>2. dots = 0 /\ FirstEntry = pos - 2
      BY <1>3, <2>8
    <3>3. part = <<>>
      BY <1>6, <3>2
    <3>4. listed \o part = listed
      BY <1>5, <3>3
    <3>5. pos - 2 \in Nat /\ pos - 2 <= size /\ pos' = (pos - 2) + 2 + n
      BY <1>1, <1>4, <1>5, <3>1, <3>2
    <3>6. QED
      BY <2>6, <3>1, <3>2, <3>4, <3>5
  <2>9. QED
    BY <2>7, <2>8
<1>17. QED
  BY <1>12, <1>13, <1>14, <1>15, <1>16 DEF DInv

-----------------------------------------------------------------------------
(* Every step.                                                             *)

LEMMA ReopenKeeps == DInv /\ Reopen => DInv'
<1> SUFFICES ASSUME DInv, Reopen PROVE DInv'
  OBVIOUS
<1>1. UNCHANGED <<bonus, slot, size, blocks>> /\ pos' = 0 /\ listed' = <<>> /\ cut' = FALSE /\ strayed' = FALSE
  BY DEF Reopen, directory
<1>2. <<>> \in Seq(Word) /\ DOMAIN <<>> = {}
  OBVIOUS
<1>3. Types' /\ Passed' /\ Full' /\ ListedInOrder'
  BY <1>1, <1>2 DEF DInv, Types, Passed, Full, ListedInOrder
<1>4. Sizes' /\ Slots' /\ Flat'
  <2>1. Behind' = Behind /\ Gapless' = Gapless
    BY <1>1 DEF Behind, ChainFor, Gapless, HasGap
  <2>2. QED
    BY <1>1, <2>1 DEF DInv, Sizes, Slots, Flat
<1>5. QED
  BY <1>3, <1>4 DEF DInv

LEMMA StepDInv == DInv /\ [Next]_vars => DInv'
<1> SUFFICES ASSUME DInv, [Next]_vars PROVE DInv'
  OBVIOUS
<1>1. CASE Create
  BY <1>1, CreateKeeps
<1>2. ASSUME NEW x \in Position, CreateExists(x) PROVE DInv'
  BY <1>2, CreateExistsKeeps
<1>3. ASSUME NEW room \in 1 .. MaxRoom, NEW before \in [{-2, -1} -> {Empty, Stray}],
             GetDents(room, before)
      PROVE  DInv'
  BY <1>3, GetDentsKeeps
<1>4. CASE Reopen
  BY <1>4, ReopenKeeps
<1>5. CASE UNCHANGED vars
  <2>1. UNCHANGED <<bonus, slot, size, blocks, pos, listed, cut, strayed>>
    BY <1>5 DEF vars, directory, listing
  <2>2. Behind' = Behind /\ Gapless' = Gapless
    BY <2>1 DEF Behind, ChainFor, Gapless, HasGap
  <2>3. QED
    BY <2>1, <2>2 DEF DInv, Types, Sizes, Slots, Flat, Passed, Full, ListedInOrder
<1>6. QED
  BY <1>1, <1>2, <1>3, <1>4, <1>5 DEF Next, Reads

\* However many files are created between the calls of one listing, and however
\* small the buffers are, what has been listed names no file twice and none
\* before an older one.
THEOREM DirListedInOrder == Spec => []ListedInOrder
<1>1. DInv => ListedInOrder
  BY DEF DInv
<1>2. QED
  BY InitDInv, StepDInv, <1>1, PTL DEF Spec

\* When the position reaches the size the listing is complete.
LEMMA DoneIsComplete ==
  DInv /\ Next =>
    (state = "open" /\ state' = "done" /\ ~cut /\ ~strayed /\ (bonus => ~HasGap) =>
       listed = Dots \o SubSeq(Names, 1, size))
<1> SUFFICES ASSUME DInv, Next, state = "open", state' = "done", ~cut, ~strayed, Gapless
             PROVE  listed = Dots \o SubSeq(Names, 1, size)
  BY DEF Gapless
<1>1. Reads
  <2>1. ~Create /\ ~Reopen /\ \A x \in Position : ~CreateExists(x)
    BY DEF Create, CreateExists, Reopen, listing
  <2>2. QED
    BY <2>1 DEF Next
<1>2. PICK room \in 1 .. MaxRoom, before \in [{-2, -1} -> {Empty, Stray}] : GetDents(room, before)
  BY <1>1 DEF Reads
<1> DEFINE dots == DotsEmitted(room)
           offer == IF pos = 0 /\ dots = 1 THEN <<>> ELSE Offered(FirstEntry, before)
<1>3. PICK n \in 0 .. room :
        Emits(offer, n, room - dots) /\ state' = Outcome(dots + n, n < Len(offer))
  BY <1>2 DEF GetDents
<1>4. /\ offer \in Seq(Word)
      /\ dots \in 0 .. 2 /\ (dots = 0 <=> pos # 0)
      /\ pos # 0 => FirstEntry = pos - 2
      /\ Len(offer) = 0 => (pos = 0 /\ dots = 1) \/ (bonus /\ blocks = 0) \/ size <= FirstEntry
  BY OfferIs
<1> HIDE DEF offer, dots
<1>5. dots + n = 0 /\ ~(n < Len(offer))
  <2>1. ~(dots + n > 0) /\ ~(dots + n = 0 /\ n < Len(offer))
    BY <1>3 DEF Outcome
  <2>2. dots + n \in Nat
    BY <1>4
  <2>3. QED
    BY <2>1, <2>2
<1>6. dots = 0 /\ n = 0 /\ Len(offer) = 0
  BY <1>4, <1>5
<1>7. pos - 2 \in 0 .. size /\ listed = Dots \o SubSeq(Names, 1, pos - 2)
  BY <1>4, <1>6 DEF DInv, Full
<1>8. size \in Nat /\ blocks \in Nat /\ size <= blocks * PerBlock /\ PerBlock \in Nat
  BY NamesAre, SizeAssumption DEF DInv, Sizes
<1>9. blocks = 0 => size = 0
  BY <1>8
<1>10. pos - 2 = size
  BY <1>4, <1>6, <1>7, <1>8, <1>9
<1>11. QED
  BY <1>7, <1>10

\* A listing that comes to its end, by a call that emits nothing and reports no
\* error, has given both dots and then every file there is by then, in the
\* order of their creation; the three exceptions are those the code has: a
\* buffer that took "." only, a stray name read before the first block, and a
\* block that a failed creation left empty.
THEOREM DirListingComplete == Spec => ListingComplete
<1>1. DInv /\ [Next]_vars =>
        [state = "open" /\ state' = "done" /\ ~cut /\ ~strayed /\ (bonus => ~HasGap) =>
           listed = Dots \o SubSeq(Names, 1, size)]_vars
  BY DoneIsComplete
<1>2. QED
  BY InitDInv, StepDInv, <1>1, PTL DEF Spec, ListingComplete

-----------------------------------------------------------------------------
(* Mounts: the regions that hold the file systems.                         *)

CONSTANTS Super, Region
VARIABLES registered, at, s_fs_info, holder, exposed

Mounts == INSTANCE OsfsMount

RegionTypes ==
  /\ at \in [Super -> {"unused", "alloc", "inode", "root", "mounted", "failed", "dead"}]
  /\ s_fs_info \in [Super -> SUBSET Region]
  /\ holder \in [Region -> SUBSET Super]

\* Nobody else points to the region of one that is not exposed.
Alone ==
  \A s \in Super \ exposed, t \in Super :
    Mounts!Holds(s) /\ t # s => s_fs_info[t] \cap s_fs_info[s] = {}

MInv == RegionTypes /\ Alone /\ Mounts!RegionKept /\ Mounts!NoRegionLost

LEMMA MInvInit == Mounts!Init => MInv
BY DEF Mounts!Init, MInv, RegionTypes, Alone, Mounts!RegionKept, Mounts!NoRegionLost, Mounts!Holds

\* A region handed out belongs to nobody who relies on having it alone.
LEMMA AllocKeeps ==
  ASSUME MInv, NEW s \in Super, NEW r \in Region, Mounts!Alloc(s, r)
  PROVE  MInv'
<1> USE DEF MInv, Mounts!Alloc, Mounts!Goes, Mounts!Holds
<1>1. RegionTypes'
  BY DEF RegionTypes
<1>2. Alone'
  <2> SUFFICES ASSUME NEW x \in Super, NEW y \in Super, x \notin exposed', Mounts!Holds(x)', y # x
               PROVE  s_fs_info'[y] \cap s_fs_info'[x] = {}
    BY DEF Alone
  <2>1. CASE x = s
    BY <2>1 DEF RegionTypes
  <2>2. CASE x # s
    <3>1. x \notin exposed /\ Mounts!Holds(x) /\ s_fs_info'[x] = s_fs_info[x]
      BY <2>2 DEF RegionTypes
    <3>2. \A r2 \in s_fs_info[x] : holder[r2] = {x}
      BY <3>1 DEF Mounts!RegionKept
    <3>3. r \notin s_fs_info[x]
      BY <3>2 DEF RegionTypes
    <3> QED
      BY <3>1, <3>3 DEF RegionTypes, Alone
  <2> QED
    BY <2>1, <2>2
<1>3. Mounts!RegionKept'
  BY DEF RegionTypes, Mounts!RegionKept
<1>4. Mounts!NoRegionLost'
  BY DEF RegionTypes, Mounts!NoRegionLost
<1> QED
  BY <1>1, <1>2, <1>3, <1>4

\* What a super block frees is its own or nobody's who relies on it.
LEMMA FreeKeeps ==
  ASSUME MInv, NEW s \in Super, Mounts!NoRootInode(s) \/ Mounts!Kill(s)
  PROVE  MInv'
<1> USE DEF MInv, Mounts!NoRootInode, Mounts!Kill, Mounts!Goes, Mounts!Holds, Mounts!vfree
<1>1. RegionTypes'
  BY DEF RegionTypes
<1>2. Alone'
  <2> SUFFICES ASSUME NEW x \in Super, NEW y \in Super, x \notin exposed', Mounts!Holds(x)', y # x
               PROVE  s_fs_info'[y] \cap s_fs_info'[x] = {}
    BY DEF Alone
  <2>1. x # s /\ x \notin exposed /\ Mounts!Holds(x) /\ s_fs_info'[x] = s_fs_info[x]
    BY DEF RegionTypes
  <2>2. s_fs_info[y] \cap s_fs_info[x] = {}
    BY <2>1 DEF Alone
  <2>3. s_fs_info'[y] \in {s_fs_info[y], {}}
    BY DEF RegionTypes
  <2> QED
    BY <2>1, <2>2, <2>3
<1>3. Mounts!RegionKept'
  <2> SUFFICES ASSUME NEW x \in Super, x \notin exposed', Mounts!Holds(x)'
               PROVE  s_fs_info'[x] # {} /\ \A r \in s_fs_info'[x] : holder'[r] = {x}
    BY DEF Mounts!RegionKept
  <2>1. x # s /\ x \notin exposed /\ Mounts!Holds(x) /\ s_fs_info'[x] = s_fs_info[x]
    BY DEF RegionTypes
  <2>2. s_fs_info[s] \cap s_fs_info[x] = {}
    BY <2>1 DEF Alone
  <2>3. s_fs_info[x] # {} /\ \A r \in s_fs_info[x] : holder[r] = {x}
    BY <2>1 DEF Mounts!RegionKept
  <2> QED
    BY <2>1, <2>2, <2>3 DEF RegionTypes
<1>4. Mounts!NoRegionLost'
  BY DEF RegionTypes, Mounts!NoRegionLost
<1> QED
  BY <1>1, <1>2, <1>3, <1>4

LEMMA MountStep == MInv /\ [Mounts!Next]_(Mounts!vars) => MInv'
<1> SUFFICES ASSUME MInv, [Mounts!Next]_(Mounts!vars)
             PROVE  MInv'
  OBVIOUS
<1> USE DEF MInv, RegionTypes, Alone, Mounts!RegionKept, Mounts!NoRegionLost, Mounts!Holds
<1>1. CASE Mounts!Load \/ Mounts!Unload \/ UNCHANGED Mounts!vars
  BY <1>1 DEF Mounts!Load, Mounts!Unload, Mounts!vars
<1>2. ASSUME NEW s \in Super,
             \/ Mounts!Mount(s) \/ Mounts!NoMemory(s)
             \/ Mounts!RootInode(s) \/ Mounts!MakeRoot(s) \/ Mounts!NoRoot(s)
      PROVE  MInv'
  BY <1>2 DEF Mounts!Mount, Mounts!NoMemory,
              Mounts!RootInode, Mounts!MakeRoot, Mounts!NoRoot, Mounts!Goes
<1>3. ASSUME NEW s \in Super, NEW r \in Region, Mounts!Alloc(s, r)
      PROVE  MInv'
  BY <1>3, AllocKeeps
<1>4. ASSUME NEW s \in Super, Mounts!NoRootInode(s) \/ Mounts!Kill(s)
      PROVE  MInv'
  BY <1>4, FreeKeeps
<1> QED
  BY <1>1, <1>2, <1>3, <1>4 DEF Mounts!Next, Mounts!Step

\* A file system that is not exposed keeps its region to itself.
THEOREM MountRegionKept == Mounts!Spec => []Mounts!RegionKept
<1>1. MInv => Mounts!RegionKept
  BY DEF MInv
<1> QED
  BY <1>1, MInvInit, MountStep, PTL DEF Mounts!Spec

\* Every region taken is one that its super block will free, or has died with.
THEOREM MountNoRegionLost == Mounts!Spec => []Mounts!NoRegionLost
<1>1. MInv => Mounts!NoRegionLost
  BY DEF MInv
<1> QED
  BY <1>1, MInvInit, MountStep, PTL DEF Mounts!Spec
=============================================================================
