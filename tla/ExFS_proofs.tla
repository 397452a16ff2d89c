----------------------------- MODULE ExFS_proofs -----------------------------
(***************************************************************************)
(* Proofs about ExFS, for every image mkfs accepts, every size of a block, *)
(* an inode and a directory, any number of extents, and any set of names.  *)
(* First lemmas about the operators of Extents, and what each of them does *)
(* with the blocks of a file; then the directory, to which the blocks of   *)
(* files do not matter; then what truncate and write make of a file; then  *)
(* the image as a whole.                                                   *)
(***************************************************************************)
EXTENDS ExFS, QueueLemmas

-----------------------------------------------------------------------------
(* The operators of Extents                                                *)

LEMMA Sizes1 ==
  /\ BlockSize \in Nat \ {0} /\ InlineSize \in Nat \ {0} /\ NumExtents \in Nat \ {0}
  /\ WordSize \in Nat \ {0} /\ Width \in Nat \ {0} /\ InlineSize <= BlockSize
  BY ExtentsAssumption

-----------------------------------------------------------------------------
(* Numbers                                                                 *)

(* A set of numbers up to a bound that is not empty has a greatest.        *)
LEMMA GreatestNumber ==
  ASSUME NEW n \in Int, NEW T, T # {}, \A t \in T : t \in Int /\ t <= n
  PROVE  Max(T) \in T /\ \A t \in T : t <= Max(T)
<1> DEFINE U == {n - t : t \in T}
<1>1. U \in SUBSET Nat /\ U # {}
  OBVIOUS
<1> DEFINE u == Min(U)
<1>2. u \in U /\ \A m \in U : u <= m
  BY <1>1, LeastNumber
<1> HIDE DEF u
<1>3. PICK x \in T : u = n - x
  BY <1>2
<1>4. \A t \in T : t <= x
  <2> SUFFICES ASSUME NEW t \in T PROVE t <= x
    OBVIOUS
  <2>1. n - t \in U
    OBVIOUS
  <2>2. u <= n - t
    BY <1>2, <2>1
  <2> QED BY <1>3, <2>2
<1> QED BY <1>4 DEF Max

(* The blocks for a number of bytes.                                       *)
LEMMA DivBlock ==
  ASSUME NEW x \in Nat
  PROVE  /\ x \div BlockSize \in Nat /\ x % BlockSize \in 0 .. BlockSize - 1
         /\ x = BlockSize * (x \div BlockSize) + (x % BlockSize)
  BY Sizes1

LEMMA BlocksForBytes ==
  ASSUME NEW x \in Nat
  PROVE  /\ BlocksFor(x) \in Nat
         /\ x <= BlocksFor(x) * BlockSize
         /\ BlocksFor(x) * BlockSize < x + BlockSize
  BY Sizes1, DivBlock DEF BlocksFor

(* Nonlinear facts about multiples of a block.                             *)
LEMMA Multiples ==
  ASSUME NEW a \in Nat, NEW b \in Nat, a * BlockSize < b * BlockSize + BlockSize
  PROVE  a <= b
<1> SUFFICES ASSUME a >= b + 1 PROVE FALSE
  OBVIOUS
<1>1. \A x, y, z \in Nat : x >= y => x * z >= y * z
  OBVIOUS
<1>2. a * BlockSize >= (b + 1) * BlockSize
  BY <1>1, Sizes1
<1>3. (b + 1) * BlockSize = b * BlockSize + BlockSize
  BY Sizes1
<1>4. a * BlockSize \in Nat /\ b * BlockSize \in Nat
  BY Sizes1
<1> QED BY <1>2, <1>3, <1>4, Sizes1

LEMMA BlocksForMore ==
  ASSUME NEW x \in Nat, NEW y \in Nat
  PROVE  /\ x <= y => BlocksFor(x) <= BlocksFor(y)
         /\ BlocksFor(0) = 0
         /\ BlocksFor(x + BlockSize) = BlocksFor(x) + 1
<1>1. ASSUME NEW z \in Nat
      PROVE  BlocksFor(z) \in Nat /\ z <= BlocksFor(z) * BlockSize
             /\ BlocksFor(z) * BlockSize < z + BlockSize /\ BlocksFor(z) * BlockSize \in Nat
  BY BlocksForBytes, Sizes1
<1>2. ASSUME x <= y PROVE BlocksFor(x) <= BlocksFor(y)
  <2>1. BlocksFor(x) * BlockSize < BlocksFor(y) * BlockSize + BlockSize
    BY <1>1, <1>2, Sizes1
  <2> QED BY <1>1, <2>1, Multiples
<1>3. BlocksFor(0) = 0
  <2>1. 0 \in Nat /\ 0 * BlockSize = 0
    BY Sizes1
  <2>2. BlocksFor(0) * BlockSize < 0 * BlockSize + BlockSize
    BY <1>1, <2>1
  <2>3. BlocksFor(0) <= 0
    BY <1>1, <2>1, <2>2, Multiples
  <2> QED BY <1>1, <2>1, <2>3
<1>4. BlocksFor(x + BlockSize) = BlocksFor(x) + 1
  <2> DEFINE u == BlocksFor(x + BlockSize)
             v == BlocksFor(x)
  <2>1. u \in Nat /\ v \in Nat /\ v + 1 \in Nat /\ x + BlockSize \in Nat
    BY <1>1, Sizes1
  <2>2. /\ x + BlockSize <= u * BlockSize /\ u * BlockSize < x + BlockSize + BlockSize
        /\ u * BlockSize \in Nat
    BY <1>1, <2>1
  <2>3. x <= v * BlockSize /\ v * BlockSize < x + BlockSize /\ v * BlockSize \in Nat
    BY <1>1
  <2> HIDE DEF u, v
  <2>4. (v + 1) * BlockSize = v * BlockSize + BlockSize
    BY <2>1, Sizes1
  <2>5. (v + 1) * BlockSize < u * BlockSize + BlockSize
    BY <2>2, <2>3, <2>4, Sizes1
  <2>6. u * BlockSize < (v + 1) * BlockSize + BlockSize
    BY <2>2, <2>3, <2>4, Sizes1
  <2>7. v + 1 <= u /\ u <= v + 1
    BY <2>1, <2>5, <2>6, Multiples
  <2> QED BY <2>1, <2>7 DEF u, v
<1> QED BY <1>2, <1>3, <1>4

(* A position of a file lies in one of the blocks its size asks for.       *)
LEMMA PositionInBlocks ==
  ASSUME NEW p \in Nat, NEW k \in Nat, p < k * BlockSize
  PROVE  p \div BlockSize < k
<1>1. p \div BlockSize \in Nat /\ BlockSize * (p \div BlockSize) <= p
  BY DivBlock, Sizes1
<1> DEFINE q == p \div BlockSize
<1> HIDE DEF q
<1>2. q \in Nat /\ BlockSize * q <= p
  BY <1>1 DEF q
<1>3. (q + 1) * BlockSize < k * BlockSize + BlockSize
  <2>1. (q + 1) * BlockSize = BlockSize * q + BlockSize
    BY <1>2, Sizes1
  <2>2. BlockSize * q \in Nat /\ k * BlockSize \in Nat
    BY <1>2, Sizes1
  <2> QED BY <1>2, <2>1, <2>2, Sizes1
<1>4. q + 1 <= k
  BY <1>2, <1>3, Multiples
<1> QED BY <1>2, <1>4 DEF q

LEMMA PositionInFile ==
  ASSUME NEW x \in Nat, NEW p \in Nat, p < x
  PROVE  p \div BlockSize < BlocksFor(x)
<1>1. BlocksFor(x) \in Nat /\ x <= BlocksFor(x) * BlockSize /\ BlocksFor(x) * BlockSize \in Nat
  BY BlocksForBytes, Sizes1
<1> QED BY <1>1, PositionInBlocks

-----------------------------------------------------------------------------
(* The blocks of a sequence of extents                                     *)

FileExtent == [start : Nat, length : Nat \ {0}]
Blks(s) == FlattenSeq([i \in DOMAIN s |-> ExtentBlocks(s[i])])

LEMMA ExtentFields ==
  /\ \A e \in FileExtent : e.start \in Nat /\ e.length \in Nat \ {0}
  /\ \A e, f \in FileExtent : e.start = f.start /\ e.length = f.length => e = f
  BY DEF FileExtent

LEMMA BlocksOfStore == \A n : BlocksOf(n) = Blks(n.store)
  BY DEF BlocksOf, Blks

LEMMA BlocksOfExtent ==
  ASSUME NEW e \in FileExtent
  PROVE  /\ e.start \in Nat /\ e.length \in Nat \ {0}
         /\ ExtentBlocks(e) \in Seq(Nat) /\ Len(ExtentBlocks(e)) = e.length
         /\ ToSet(ExtentBlocks(e)) = e.start .. e.start + e.length - 1
         /\ IsInjective(ExtentBlocks(e))
         /\ \A i \in 1 .. e.length : ExtentBlocks(e)[i] = e.start + i - 1
<1>1. e.start \in Nat /\ e.length \in Nat \ {0}
  BY DEF FileExtent
<1> DEFINE x == ExtentBlocks(e)
<1>2. x = [i \in 1 .. e.length |-> e.start + i - 1]
  BY DEF ExtentBlocks
<1> HIDE DEF x
<1>3. x \in Seq(Nat) /\ Len(x) = e.length /\ DOMAIN x = 1 .. e.length
  BY <1>1, <1>2
<1>4. \A i \in 1 .. e.length : x[i] = e.start + i - 1
  BY <1>2
<1>5. ToSet(x) = e.start .. e.start + e.length - 1
  <2>1. ASSUME NEW b \in e.start .. e.start + e.length - 1 PROVE b \in ToSet(x)
    <3>1. b - e.start + 1 \in 1 .. e.length /\ x[b - e.start + 1] = b
      BY <1>1, <1>4
    <3> QED BY <1>3, <3>1 DEF ToSet
  <2>2. \A i \in DOMAIN x : x[i] \in e.start .. e.start + e.length - 1
    BY <1>1, <1>3, <1>4
  <2> QED BY <2>1, <2>2 DEF ToSet
<1>6. IsInjective(x)
  BY <1>1, <1>3, <1>4 DEF IsInjective
<1> QED BY <1>1, <1>3, <1>4, <1>5, <1>6 DEF x

(* One more extent: its blocks come last.                                  *)
LEMMA BlksAppend ==
  ASSUME NEW s \in Seq(FileExtent), NEW e \in FileExtent
  PROVE  /\ Blks(<<>>) = <<>> /\ Blks(s) \in Seq(Nat)
         /\ Blks(Append(s, e)) = Blks(s) \o ExtentBlocks(e)
<1> DEFINE M(t) == [i \in DOMAIN t |-> ExtentBlocks(t[i])]
<1>1. \A t \in Seq(FileExtent) : M(t) \in Seq(Seq(Nat)) /\ Len(M(t)) = Len(t)
  <2> SUFFICES ASSUME NEW t \in Seq(FileExtent)
               PROVE  M(t) \in Seq(Seq(Nat)) /\ Len(M(t)) = Len(t)
    OBVIOUS
  <2>1. Len(t) \in Nat /\ DOMAIN t = 1 .. Len(t) /\ \A i \in 1 .. Len(t) : t[i] \in FileExtent
    BY ElementOfSeq
  <2>2. \A i \in 1 .. Len(t) : ExtentBlocks(t[i]) \in Seq(Nat)
    BY <2>1, BlocksOfExtent
  <2>3. M(t) \in [1 .. Len(t) -> Seq(Nat)]
    BY <2>1, <2>2
  <2> HIDE DEF M
  <2> QED BY <2>1, <2>3
<1>2. Blks(<<>>) = <<>>
  <2>1. M(<<>>) = <<>>
    OBVIOUS
  <2>2. FlattenSeq(<<>>) = <<>>
    BY DEF FlattenSeq
  <2> QED BY <2>1, <2>2, Zenon DEF Blks
<1>3. M(Append(s, e)) = Append(M(s), ExtentBlocks(e))
  <2>1. /\ Len(s) \in Nat /\ DOMAIN s = 1 .. Len(s)
        /\ Append(s, e) \in Seq(FileExtent) /\ Len(Append(s, e)) = Len(s) + 1
        /\ DOMAIN Append(s, e) = 1 .. Len(s) + 1
        /\ Append(s, e)[Len(s) + 1] = e /\ \A i \in 1 .. Len(s) : Append(s, e)[i] = s[i]
    BY AppendProperties
  <2>2. ExtentBlocks(e) \in Seq(Nat)
    BY BlocksOfExtent
  <2> DEFINE l == M(Append(s, e))
             r == Append(M(s), ExtentBlocks(e))
  <2>3. l \in Seq(Seq(Nat)) /\ Len(l) = Len(s) + 1 /\ M(s) \in Seq(Seq(Nat)) /\ Len(M(s)) = Len(s)
    BY <1>1, <2>1
  <2>4. \A i \in 1 .. Len(s) + 1 : l[i] = ExtentBlocks(IF i <= Len(s) THEN s[i] ELSE e)
    BY <2>1
  <2>5. \A i \in 1 .. Len(s) : M(s)[i] = ExtentBlocks(s[i])
    BY <2>1
  <2>6. /\ r \in Seq(Seq(Nat)) /\ Len(r) = Len(s) + 1
        /\ r[Len(s) + 1] = ExtentBlocks(e) /\ \A i \in 1 .. Len(s) : r[i] = M(s)[i]
    <3> HIDE DEF M
    <3> QED BY <2>2, <2>3, AppendProperties
  <2> HIDE DEF l, r, M
  <2>7. ASSUME NEW i \in 1 .. Len(l) PROVE l[i] = r[i]
    <3>1. i \in 1 .. Len(s) \/ i = Len(s) + 1
      BY <2>1, <2>3
    <3>2. CASE i \in 1 .. Len(s)
      <4>1. i <= Len(s) /\ i \in 1 .. Len(s) + 1
        BY <2>1, <3>2
      <4>2. l[i] = ExtentBlocks(s[i])
        BY <2>4, <4>1, Zenon
      <4> QED BY <2>5, <2>6, <3>2, <4>2
    <3>3. CASE i = Len(s) + 1
      <4>1. ~(i <= Len(s)) /\ i \in 1 .. Len(s) + 1
        BY <2>1, <3>3
      <4>2. l[i] = ExtentBlocks(e)
        BY <2>4, <4>1, Zenon
      <4> QED BY <2>6, <3>3, <4>2
    <3> QED BY <3>1, <3>2, <3>3
  <2>8. l = r
    BY <2>3, <2>6, <2>7, SeqEqual
  <2> QED BY <2>8 DEF l, r
<1>4. ExtentBlocks(e) \in Seq(Nat) /\ M(s) \in Seq(Seq(Nat))
  BY <1>1, BlocksOfExtent
<1>5. Blks(s) = FlattenSeq(M(s)) /\ Blks(Append(s, e)) = FlattenSeq(M(Append(s, e)))
  BY Zenon DEF Blks
<1> HIDE DEF M
<1> QED BY <1>2, <1>3, <1>4, <1>5, FlattenAppend

(* The first elements of two sequences joined are those of the first.      *)
LEMMA ConcatFirst ==
  ASSUME NEW S, NEW s \in Seq(S), NEW t \in Seq(S)
  PROVE  /\ Len(s \o t) = Len(s) + Len(t)
         /\ \A i \in 1 .. Len(s) : (s \o t)[i] = s[i]
<1> DEFINE c == s \o t
<1>1. /\ Len(c) = Len(s) + Len(t) /\ Len(s) \in Nat /\ Len(t) \in Nat
      /\ \A i \in 1 .. Len(s) + Len(t) : c[i] = IF i <= Len(s) THEN s[i] ELSE t[i - Len(s)]
  BY ConcatProperties
<1> HIDE DEF c
<1>2. \A i \in 1 .. Len(s) : c[i] = s[i]
  BY <1>1
<1> QED BY <1>1, <1>2 DEF c

(* A sequence that is not empty is its front and its last element.         *)
LEMMA FrontAndLast ==
  ASSUME NEW S, NEW s \in Seq(S), s # <<>>
  PROVE  /\ Len(s) \in Nat \ {0} /\ Front(s) \in Seq(S) /\ Last(s) \in S /\ Last(s) = s[Len(s)]
         /\ Len(Front(s)) = Len(s) - 1 /\ \A i \in 1 .. Len(s) - 1 : Front(s)[i] = s[i]
         /\ s = Append(Front(s), Last(s))
<1>1. Len(s) \in Nat \ {0} /\ \A i \in 1 .. Len(s) : s[i] \in S
  BY EmptySeq, ElementOfSeq, LenProperties
<1> DEFINE f == SubSeq(s, 1, Len(s) - 1)
<1>2. /\ f \in Seq(S) /\ Len(f) = Len(s) - 1
      /\ \A i \in 1 .. Len(s) - 1 : f[i] = s[i]
  <2>1. \A i \in 1 .. Len(s) - 1 : s[i] \in S
    BY <1>1
  <2>2. /\ f \in Seq(S) /\ Len(f) = IF 1 <= Len(s) - 1 THEN (Len(s) - 1) - 1 + 1 ELSE 0
        /\ \A i \in 1 .. (Len(s) - 1) - 1 + 1 : f[i] = s[1 + i - 1]
    BY <1>1, <2>1, SubSeqProperties
  <2> HIDE DEF f
  <2>3. Len(f) = Len(s) - 1
    <3>1. \A m \in Nat \ {0} : (IF 1 <= m - 1 THEN (m - 1) - 1 + 1 ELSE 0) = m - 1
      OBVIOUS
    <3> QED BY <1>1, <2>2, <3>1
  <2>4. \A i \in 1 .. Len(s) - 1 : i \in 1 .. (Len(s) - 1) - 1 + 1 /\ 1 + i - 1 = i
    BY <1>1
  <2> QED BY <2>2, <2>3, <2>4
<1>3. Front(s) = f
  BY DEF Front
<1> HIDE DEF f
<1>4. Last(s) = s[Len(s)] /\ Last(s) \in S
  BY <1>1 DEF Last
<1> DEFINE a == Append(f, Last(s))
<1>5. /\ a \in Seq(S) /\ Len(a) = Len(s) /\ a[Len(s)] = Last(s)
      /\ \A i \in 1 .. Len(s) - 1 : a[i] = f[i]
  <2>1. /\ a \in Seq(S) /\ Len(a) = Len(f) + 1 /\ a[Len(f) + 1] = Last(s)
        /\ \A i \in 1 .. Len(f) : a[i] = f[i]
    BY <1>2, <1>4, AppendProperties
  <2> HIDE DEF a
  <2> QED BY <1>1, <1>2, <2>1
<1>6. s = a
  <2> HIDE DEF a
  <2>1. \A i \in 1 .. Len(s) : s[i] = a[i]
    BY <1>1, <1>2, <1>4, <1>5
  <2> QED BY <1>5, <2>1, SeqEqual
<1> QED BY <1>1, <1>2, <1>3, <1>4, <1>6

LEMMA FrontOfAppend ==
  ASSUME NEW S, NEW s \in Seq(S), NEW e \in S
  PROVE  Front(Append(s, e)) = s /\ Last(Append(s, e)) = e /\ Append(s, e) # <<>>
<1> DEFINE a == Append(s, e)
<1>1. /\ Len(s) \in Nat /\ a \in Seq(S) /\ a # <<>> /\ Len(a) = Len(s) + 1
      /\ a[Len(s) + 1] = e /\ \A i \in 1 .. Len(s) : a[i] = s[i]
  BY AppendProperties
<1> HIDE DEF a
<1>2. /\ Front(a) \in Seq(S) /\ Last(a) = a[Len(a)] /\ Len(Front(a)) = Len(s)
      /\ \A i \in 1 .. Len(s) : Front(a)[i] = s[i]
  <2>1. /\ Front(a) \in Seq(S) /\ Last(a) = a[Len(a)] /\ Len(Front(a)) = Len(a) - 1
        /\ \A i \in 1 .. Len(a) - 1 : Front(a)[i] = a[i]
    BY <1>1, FrontAndLast
  <2> QED BY <1>1, <2>1
<1>3. Front(a) = s
  BY <1>2, SeqEqual
<1> QED BY <1>1, <1>2, <1>3 DEF a

(* Two runs one after the other are one run.                               *)
LEMMA JoinedExtents ==
  ASSUME NEW b \in Nat, NEW k \in Nat \ {0}, NEW l \in Nat \ {0}
  PROVE  ExtentBlocks([start |-> b, length |-> k + l]) =
           ExtentBlocks([start |-> b, length |-> k]) \o
           ExtentBlocks([start |-> b + k, length |-> l])
<1> DEFINE x == ExtentBlocks([start |-> b, length |-> k + l])
           y == ExtentBlocks([start |-> b, length |-> k])
           z == ExtentBlocks([start |-> b + k, length |-> l])
           w == y \o z
<1>1. /\ [start |-> b, length |-> k + l] \in FileExtent
      /\ [start |-> b, length |-> k] \in FileExtent
      /\ [start |-> b + k, length |-> l] \in FileExtent
  BY DEF FileExtent
<1>2. /\ x \in Seq(Nat) /\ Len(x) = k + l /\ \A i \in 1 .. k + l : x[i] = b + i - 1
      /\ y \in Seq(Nat) /\ Len(y) = k /\ \A i \in 1 .. k : y[i] = b + i - 1
      /\ z \in Seq(Nat) /\ Len(z) = l /\ \A i \in 1 .. l : z[i] = (b + k) + i - 1
  BY <1>1, BlocksOfExtent
<1> HIDE DEF x, y, z
<1>3. /\ w \in Seq(Nat) /\ Len(w) = k + l
      /\ \A i \in 1 .. k + l : w[i] = IF i <= k THEN y[i] ELSE z[i - k]
  BY <1>2, ConcatProperties
<1> HIDE DEF w
<1>4. \A i \in 1 .. k + l : x[i] = w[i]
  <2> SUFFICES ASSUME NEW i \in 1 .. k + l PROVE x[i] = w[i]
    OBVIOUS
  <2>1. CASE i <= k
    BY <1>2, <1>3, <2>1
  <2>2. CASE i > k
    <3>1. i - k \in 1 .. l
      BY <2>2
    <3>2. z[i - k] = (b + k) + (i - k) - 1
      BY <1>2, <3>1
    <3> QED BY <1>2, <1>3, <2>2, <3>2
  <2>3. i \in Int /\ k \in Int
    OBVIOUS
  <2> QED BY <2>1, <2>2, <2>3
<1>5. x = w
  BY <1>2, <1>3, <1>4, SeqEqual
<1> QED BY <1>5 DEF w, x, y, z

(* The last extent without its last block.                                 *)
LEMMA ShorterExtent ==
  ASSUME NEW b \in Nat, NEW k \in Nat \ {0}
  PROVE  /\ ExtentBlocks([start |-> b, length |-> 1]) = <<b>>
         /\ ExtentBlocks([start |-> b, length |-> k + 1]) =
              ExtentBlocks([start |-> b, length |-> k]) \o <<b + k>>
<1>1. \A c \in Nat : ExtentBlocks([start |-> c, length |-> 1]) = <<c>>
  <2> SUFFICES ASSUME NEW c \in Nat PROVE ExtentBlocks([start |-> c, length |-> 1]) = <<c>>
    OBVIOUS
  <2> DEFINE x == ExtentBlocks([start |-> c, length |-> 1])
  <2>1. [start |-> c, length |-> 1] \in FileExtent
    BY DEF FileExtent
  <2>2. x \in Seq(Nat) /\ Len(x) = 1 /\ \A i \in 1 .. 1 : x[i] = c + i - 1
    BY <2>1, BlocksOfExtent
  <2> HIDE DEF x
  <2>3. <<c>> \in Seq(Nat) /\ Len(<<c>>) = 1 /\ \A i \in 1 .. 1 : x[i] = <<c>>[i]
    BY <2>2
  <2>4. x = <<c>>
    BY <2>2, <2>3, SeqEqual
  <2> QED BY <2>4 DEF x
<1>2. b + k \in Nat /\ 1 \in Nat \ {0}
  OBVIOUS
<1>3. ExtentBlocks([start |-> b + k, length |-> 1]) = <<b + k>>
  BY <1>1, <1>2
<1>4. ExtentBlocks([start |-> b, length |-> k + 1]) =
        ExtentBlocks([start |-> b, length |-> k]) \o
        ExtentBlocks([start |-> b + k, length |-> 1])
  BY <1>2, JoinedExtents
<1> QED BY <1>1, <1>3, <1>4, Zenon

LEMMA BlksLast ==
  ASSUME NEW s \in Seq(FileExtent)
  PROVE  /\ Blks(s) \in Seq(Nat) /\ Len(Blks(s)) \in Nat
         /\ s = <<>> => Blks(s) = <<>>
         /\ s # <<>> => /\ Blks(s) = Blks(Front(s)) \o ExtentBlocks(Last(s))
                        /\ Len(Blks(s)) = Len(Blks(Front(s))) + Last(s).length
<1>1. [start |-> 0, length |-> 1] \in FileExtent
  BY DEF FileExtent
<1>2. Blks(s) \in Seq(Nat) /\ Blks(<<>>) = <<>>
  BY <1>1, BlksAppend
<1>3. Len(Blks(s)) \in Nat
  BY <1>2, LenProperties
<1>4. ASSUME s # <<>>
      PROVE  /\ Blks(s) = Blks(Front(s)) \o ExtentBlocks(Last(s))
             /\ Len(Blks(s)) = Len(Blks(Front(s))) + Last(s).length
  <2>1. Front(s) \in Seq(FileExtent) /\ Last(s) \in FileExtent /\ s = Append(Front(s), Last(s))
    BY <1>4, FrontAndLast
  <2> DEFINE f == Front(s)
             e == Last(s)
  <2> HIDE DEF f, e
  <2>2. Blks(Append(f, e)) = Blks(f) \o ExtentBlocks(e) /\ Blks(f) \in Seq(Nat)
    BY <2>1, BlksAppend DEF f, e
  <2>3. ExtentBlocks(e) \in Seq(Nat) /\ Len(ExtentBlocks(e)) = e.length
    BY <2>1, BlocksOfExtent DEF e
  <2>4. Len(Blks(f) \o ExtentBlocks(e)) = Len(Blks(f)) + e.length
    <3>1. \A u, v \in Seq(Nat) : Len(u \o v) = Len(u) + Len(v)
      BY ConcatProperties
    <3> QED BY <2>2, <2>3, <3>1
  <2>5. s = Append(f, e)
    BY <2>1 DEF f, e
  <2> QED BY <2>2, <2>4, <2>5 DEF f, e
<1> QED BY <1>2, <1>3, <1>4

(* The last extent of s with another length.                               *)
LEMMA OtherLength ==
  ASSUME NEW s \in Seq(FileExtent), s # <<>>, NEW k \in Nat \ {0}
  PROVE  LET e == [start |-> Last(s).start, length |-> k]
         IN  /\ e \in FileExtent
             /\ [s EXCEPT ![Len(s)].length = k] = Append(Front(s), e)
<1>1. /\ Len(s) \in Nat \ {0} /\ Front(s) \in Seq(FileExtent) /\ Last(s) \in FileExtent
      /\ Last(s) = s[Len(s)]
      /\ Len(Front(s)) = Len(s) - 1 /\ \A i \in 1 .. Len(s) - 1 : Front(s)[i] = s[i]
  BY FrontAndLast
<1> DEFINE e == [start |-> Last(s).start, length |-> k]
           x == [s EXCEPT ![Len(s)].length = k]
           y == Append(Front(s), e)
           f == Front(s)
<1>2. e \in FileExtent /\ [Last(s) EXCEPT !.length = k] = e
  <2>1. \A z \in FileExtent : /\ [start |-> z.start, length |-> k] \in FileExtent
                               /\ [z EXCEPT !.length = k] = [start |-> z.start, length |-> k]
    BY DEF FileExtent
  <2> QED BY <1>1, <2>1
<1>3. x = [s EXCEPT ![Len(s)] = e]
  BY <1>1, <1>2
<1> HIDE DEF e, x, f
<1>4. /\ x \in Seq(FileExtent) /\ Len(x) = Len(s)
      /\ \A i \in 1 .. Len(s) : x[i] = IF i = Len(s) THEN e ELSE s[i]
  <2>1. Len(s) \in 1 .. Len(s)
    BY <1>1
  <2> QED BY <1>2, <1>3, <2>1, ExceptSeq
<1>5. /\ y \in Seq(FileExtent) /\ Len(y) = Len(s) /\ y[Len(s)] = e
      /\ \A i \in 1 .. Len(s) - 1 : y[i] = s[i]
  <2>1. f \in Seq(FileExtent) /\ Len(f) = Len(s) - 1 /\ \A i \in 1 .. Len(s) - 1 : f[i] = s[i]
    BY <1>1 DEF f
  <2>2. y = Append(f, e)
    BY DEF f
  <2> HIDE DEF y
  <2>3. /\ y \in Seq(FileExtent) /\ Len(y) = Len(f) + 1 /\ y[Len(f) + 1] = e
        /\ \A i \in 1 .. Len(f) : y[i] = f[i]
    BY <1>2, <2>1, <2>2, AppendProperties
  <2> QED BY <1>1, <2>1, <2>3
<1> HIDE DEF y
<1>6. \A i \in 1 .. Len(s) : x[i] = y[i]
  BY <1>1, <1>4, <1>5
<1>7. x = y
  BY <1>4, <1>5, <1>6, SeqEqual
<1> QED BY <1>2, <1>7 DEF x, y, e

(* How a file grows: t is s with more blocks after its last one.           *)
Extends(s, t) ==
  /\ Len(s) <= Len(t)
  /\ \A i \in 1 .. Len(s) - 1 : t[i] = s[i]
  /\ s # <<>> => t[Len(s)].start = Last(s).start /\ t[Len(s)].length >= Last(s).length

(* A run at the end of the last extent makes it longer, any other is one   *)
(* extent more (append_extent_range).                                      *)
LongerStore(s, run) ==
  IF s # <<>> /\ Last(s).start + Last(s).length = run.start
  THEN [s EXCEPT ![Len(s)].length = @ + run.length]
  ELSE Append(s, run)

LEMMA LongerBlocks ==
  ASSUME NEW s \in Seq(FileExtent), NEW run \in FileExtent
  PROVE  /\ LongerStore(s, run) \in Seq(FileExtent)
         /\ Blks(LongerStore(s, run)) = Blks(s) \o ExtentBlocks(run)
         /\ Len(LongerStore(s, run)) \in {Len(s), Len(s) + 1}
         /\ \A i \in 1 .. Len(s) - 1 : LongerStore(s, run)[i] = s[i]
         /\ s # <<>> => /\ LongerStore(s, run)[Len(s)].start = Last(s).start
                        /\ LongerStore(s, run)[Len(s)].length >= Last(s).length
<1>0. run.start \in Nat /\ run.length \in Nat \ {0} /\ Len(s) \in Nat
  BY DEF FileExtent
<1>1. CASE s # <<>> /\ Last(s).start + Last(s).length = run.start
  <2>1. /\ Len(s) \in Nat \ {0} /\ Front(s) \in Seq(FileExtent) /\ Last(s) \in FileExtent
        /\ Last(s) = s[Len(s)]
        /\ Len(Front(s)) = Len(s) - 1 /\ \A i \in 1 .. Len(s) - 1 : Front(s)[i] = s[i]
    BY <1>1, FrontAndLast
  <2> DEFINE f == Front(s)
             a == Last(s)
             k == a.length + run.length
             e == [start |-> a.start, length |-> k]
             t == LongerStore(s, run)
  <2>2. a.start \in Nat /\ a.length \in Nat \ {0} /\ k \in Nat \ {0}
    BY <1>0, <2>1 DEF FileExtent
  <2>3. t = [s EXCEPT ![Len(s)].length = k]
    BY <1>1, <2>1 DEF LongerStore
  <2> HIDE DEF t, k
  <2>4. e \in FileExtent /\ t = Append(f, e)
    BY <1>1, <2>2, <2>3, OtherLength
  <2>5. f \in Seq(FileExtent) /\ Len(f) = Len(s) - 1 /\ \A i \in 1 .. Len(s) - 1 : f[i] = s[i]
    BY <2>1
  <2>6. Blks(s) = Blks(f) \o ExtentBlocks(a)
    BY <1>1, BlksLast
  <2>7. ExtentBlocks(e) = ExtentBlocks(a) \o ExtentBlocks(run)
    <3>1. a = [start |-> a.start, length |-> a.length]
      BY <2>1 DEF FileExtent
    <3>2. run = [start |-> a.start + a.length, length |-> run.length]
      BY <1>1 DEF FileExtent
    <3> HIDE DEF a
    <3>3. ExtentBlocks([start |-> a.start, length |-> a.length + run.length]) =
            ExtentBlocks([start |-> a.start, length |-> a.length]) \o
            ExtentBlocks([start |-> a.start + a.length, length |-> run.length])
      BY <1>0, <2>2, JoinedExtents
    <3> QED BY <3>1, <3>2, <3>3 DEF k, e
  <2> HIDE DEF f, a, e
  <2>8. Blks(t) = Blks(f) \o ExtentBlocks(e) /\ Blks(f) \in Seq(Nat)
    BY <2>4, <2>5, BlksAppend
  <2>9. /\ ExtentBlocks(a) \in Seq(Nat) /\ ExtentBlocks(run) \in Seq(Nat)
    BY <2>1, BlocksOfExtent DEF a
  <2>10. Blks(t) = Blks(s) \o ExtentBlocks(run)
    <3>1. (Blks(f) \o ExtentBlocks(a)) \o ExtentBlocks(run) =
            Blks(f) \o (ExtentBlocks(a) \o ExtentBlocks(run))
      BY <2>8, <2>9, ConcatAssociative, SMTT(30)
    <3> QED BY <2>6, <2>7, <2>8, <3>1
  <2>11. /\ t \in Seq(FileExtent) /\ Len(t) = Len(f) + 1 /\ t[Len(f) + 1] = e
         /\ \A i \in 1 .. Len(f) : t[i] = f[i]
    BY <2>4, <2>5, AppendProperties
  <2>12. e.start = a.start /\ e.length >= a.length
    BY <1>0, <2>2 DEF e, k
  <2> QED BY <2>1, <2>5, <2>10, <2>11, <2>12 DEF t, a
<1>2. CASE ~(s # <<>> /\ Last(s).start + Last(s).length = run.start)
  <2> DEFINE t == LongerStore(s, run)
  <2>1. t = Append(s, run)
    BY <1>2 DEF LongerStore
  <2> HIDE DEF t
  <2>2. Blks(t) = Blks(s) \o ExtentBlocks(run)
    BY <2>1, BlksAppend
  <2>3. t \in Seq(FileExtent) /\ Len(t) = Len(s) + 1 /\ \A i \in 1 .. Len(s) : t[i] = s[i]
    BY <2>1, AppendProperties
  <2>4. s # <<>> => /\ Len(s) \in 1 .. Len(s) /\ t[Len(s)] = Last(s)
                    /\ Last(s).length \in Nat
    <3> SUFFICES ASSUME s # <<>>
                 PROVE  Len(s) \in 1 .. Len(s) /\ t[Len(s)] = Last(s) /\ Last(s).length \in Nat
      OBVIOUS
    <3>1. Len(s) \in Nat \ {0} /\ Last(s) = s[Len(s)] /\ Last(s) \in FileExtent
      BY FrontAndLast
    <3> QED BY <2>3, <3>1 DEF FileExtent
  <2>5. \A i \in 1 .. Len(s) - 1 : t[i] = s[i]
    BY <1>0, <2>3
  <2> QED BY <2>2, <2>3, <2>4, <2>5 DEF t
<1> QED BY <1>1, <1>2

LEMMA ExtendsItself ==
  ASSUME NEW s \in Seq(FileExtent)
  PROVE  Extends(s, s)
<1>1. s # <<>> => Last(s) = s[Len(s)] /\ Last(s).length \in Nat
  BY FrontAndLast, ExtentFields
<1>2. Len(s) \in Nat
  OBVIOUS
<1> QED BY <1>1, <1>2 DEF Extends

LEMMA ExtendsLonger ==
  ASSUME NEW r \in Seq(FileExtent), NEW s \in Seq(FileExtent), Extends(r, s),
         NEW run \in FileExtent
  PROVE  Extends(r, LongerStore(s, run))
<1> DEFINE t == LongerStore(s, run)
<1>1. /\ t \in Seq(FileExtent) /\ Len(t) \in {Len(s), Len(s) + 1}
      /\ \A i \in 1 .. Len(s) - 1 : t[i] = s[i]
      /\ s # <<>> => t[Len(s)].start = Last(s).start /\ t[Len(s)].length >= Last(s).length
  BY LongerBlocks
<1> HIDE DEF t
<1>2. /\ Len(r) \in Nat /\ Len(s) \in Nat /\ Len(r) <= Len(s)
      /\ \A i \in 1 .. Len(r) - 1 : s[i] = r[i]
      /\ r # <<>> => s[Len(r)].start = Last(r).start /\ s[Len(r)].length >= Last(r).length
  BY DEF Extends
<1>3. \A i \in 1 .. Len(r) - 1 : t[i] = r[i]
  BY <1>1, <1>2
<1>4. ASSUME r # <<>>
      PROVE  t[Len(r)].start = Last(r).start /\ t[Len(r)].length >= Last(r).length
  <2>1. Len(r) \in Nat \ {0} /\ Last(r) \in FileExtent /\ s # <<>>
    <3>1. Len(r) \in Nat \ {0} /\ Last(r) \in FileExtent
      BY <1>4, FrontAndLast
    <3> QED BY <1>2, <3>1
  <2>2. CASE Len(r) < Len(s)
    <3>1. Len(r) \in 1 .. Len(s) - 1
      BY <1>2, <2>1, <2>2
    <3>2. t[Len(r)] = s[Len(r)]
      BY <1>1, <3>1
    <3> QED BY <1>2, <1>4, <3>2
  <2>3. CASE Len(r) = Len(s)
    <3>1. Last(s) = s[Len(s)] /\ Last(s) \in FileExtent /\ Len(s) \in 1 .. Len(s)
      BY <2>1, FrontAndLast, <2>3
    <3>2. t[Len(s)] \in FileExtent
      BY <1>1, <1>2, <3>1
    <3>3. /\ Last(r).length \in Nat /\ Last(s).length \in Nat /\ t[Len(s)].length \in Nat
      BY <2>1, <3>1, <3>2 DEF FileExtent
    <3> QED BY <1>1, <1>2, <1>4, <2>1, <2>3, <3>1, <3>3
  <2> QED BY <1>2, <2>2, <2>3
<1> QED BY <1>1, <1>2, <1>3, <1>4 DEF Extends, t

(* A file that has grown has more blocks, unless it is as it was.          *)
LEMMA ExtendsBlocks ==
  ASSUME NEW r \in Seq(FileExtent), NEW s \in Seq(FileExtent), Extends(r, s)
  PROVE  /\ Len(Blks(r)) <= Len(Blks(s))
         /\ Len(Blks(r)) = Len(Blks(s)) => r = s
         /\ Len(r) < Len(s) => Len(Blks(r)) < Len(Blks(s))
         /\ r # <<>> /\ Len(r) = Len(s) =>
              Len(Blks(s)) - Last(s).length = Len(Blks(r)) - Last(r).length
<1> DEFINE ok(t) == /\ Len(Blks(r)) <= Len(Blks(t))
                    /\ Len(Blks(r)) = Len(Blks(t)) => r = t
                    /\ Len(r) < Len(t) => Len(Blks(r)) < Len(Blks(t))
                    /\ r # <<>> /\ Len(r) = Len(t) =>
                         Len(Blks(t)) - Last(t).length = Len(Blks(r)) - Last(r).length
           T == {m \in Nat : \A t \in Seq(FileExtent) : Len(t) = Len(r) + m /\ Extends(r, t) => ok(t)}
<1>0. Len(r) \in Nat /\ Len(Blks(r)) \in Nat
  BY BlksLast
<1>1. ASSUME NEW t \in Seq(FileExtent), Len(t) = Len(r), Extends(r, t) PROVE ok(t)
  <2>1. CASE r = <<>>
    <3>1. t = <<>>
      BY <1>1, <2>1
    <3> QED BY <1>0, <2>1, <3>1
  <2>2. CASE r # <<>>
    <3> DEFINE a == Last(r)
               b == Last(t)
    <3>1. t # <<>> /\ Len(r) \in Nat \ {0}
      BY <1>1, <2>2, EmptySeq
    <3>2. /\ Front(r) \in Seq(FileExtent) /\ a \in FileExtent /\ Len(Front(r)) = Len(r) - 1
          /\ r = Append(Front(r), a)
          /\ \A i \in 1 .. Len(r) - 1 : Front(r)[i] = r[i]
      BY <2>2, FrontAndLast
    <3>3. /\ Front(t) \in Seq(FileExtent) /\ b \in FileExtent /\ Len(Front(t)) = Len(t) - 1
          /\ t = Append(Front(t), b) /\ b = t[Len(t)]
          /\ \A i \in 1 .. Len(t) - 1 : Front(t)[i] = t[i]
      BY <3>1, FrontAndLast
    <3>4. /\ \A i \in 1 .. Len(r) - 1 : t[i] = r[i]
          /\ b.start = a.start /\ b.length >= a.length
      BY <1>1, <2>2, <3>3 DEF Extends
    <3>5. Front(r) = Front(t)
      <4>1. \A i \in 1 .. Len(Front(r)) : Front(r)[i] = Front(t)[i]
        BY <1>1, <3>2, <3>3, <3>4
      <4> QED BY <1>1, <3>2, <3>3, <4>1, SeqEqual
    <3>6. /\ Len(Blks(r)) = Len(Blks(Front(r))) + a.length
          /\ Len(Blks(t)) = Len(Blks(Front(r))) + b.length
      BY <2>2, <3>1, <3>5, BlksLast
    <3>7. Len(Blks(Front(r))) \in Nat
      BY <3>2, BlksLast
    <3>8. a.length \in Nat /\ b.length \in Nat /\ (a.length = b.length => a = b)
      BY <3>2, <3>3, <3>4, ExtentFields
    <3>9. Len(Blks(r)) = Len(Blks(t)) => r = t
      BY <3>2, <3>3, <3>5, <3>6, <3>7, <3>8, SMTT(30)
    <3> HIDE DEF a, b
    <3>10. Len(Blks(r)) <= Len(Blks(t)) /\ Len(Blks(t)) - b.length = Len(Blks(r)) - a.length
      BY <3>4, <3>6, <3>7, <3>8
    <3> QED BY <1>0, <1>1, <3>9, <3>10 DEF a, b
  <2> QED BY <2>1, <2>2
<1>2. ASSUME NEW m \in Nat, m \in T PROVE m + 1 \in T
  <2> SUFFICES ASSUME NEW t \in Seq(FileExtent), Len(t) = Len(r) + (m + 1), Extends(r, t)
               PROVE  ok(t)
    OBVIOUS
  <2>1. t # <<>>
    BY <1>0
  <2>2. /\ Front(t) \in Seq(FileExtent) /\ Last(t) \in FileExtent /\ Len(Front(t)) = Len(r) + m
        /\ \A i \in 1 .. Len(r) + m : Front(t)[i] = t[i]
    <3>1. Len(t) - 1 = Len(r) + m
      BY <1>0
    <3> QED BY <2>1, <3>1, FrontAndLast
  <2>3. Extends(r, Front(t))
    <3>1. r # <<>> => Len(r) \in 1 .. Len(r) + m
      BY <1>0, EmptySeq
    <3>2. \A i \in 1 .. Len(r) - 1 : i \in 1 .. Len(r) + m
      BY <1>0
    <3>3. Len(r) <= Len(r) + m
      BY <1>0
    <3> QED BY <2>2, <3>1, <3>2, <3>3 DEF Extends
  <2>4. ok(Front(t))
    BY <1>2, <2>2, <2>3
  <2>5. Len(Blks(t)) = Len(Blks(Front(t))) + Last(t).length /\ Len(Blks(Front(t))) \in Nat
    BY <2>1, <2>2, BlksLast
  <2>6. Last(t).length \in Nat \ {0}
    BY <2>2 DEF FileExtent
  <2>7. Len(Blks(r)) < Len(Blks(t)) /\ Len(r) # Len(t)
    BY <1>0, <2>4, <2>5, <2>6
  <2>8. Len(Blks(t)) \in Nat
    BY BlksLast
  <2> QED BY <1>0, <2>7, <2>8
<1>3. Len(s) - Len(r) \in T
  <2>1. Len(s) - Len(r) \in Nat
    BY <1>0 DEF Extends
  <2>2. 0 \in T
    <3>1. \A t \in Seq(FileExtent) : Len(t) = Len(r) + 0 => Len(t) = Len(r)
      BY <1>0
    <3> QED BY <1>1, <3>1
  <2> HIDE DEF T
  <2>3. \A m \in 0 .. (Len(s) - Len(r)) - 1 : m \in T => m + 1 \in T
    BY <1>2
  <2>4. 0 .. Len(s) - Len(r) \subseteq T
    BY <2>1, <2>2, <2>3, BoundedInduction
  <2> QED BY <2>1, <2>4
<1>4. Len(s) = Len(r) + (Len(s) - Len(r))
  BY <1>0
<1> QED BY <1>3, <1>4

(* free_last_block takes the last block of the last extent.                *)
ShorterStore(s) ==
  IF Last(s).length = 1 THEN Front(s) ELSE [s EXCEPT ![Len(s)].length = @ - 1]
LastBlock(s) == Last(s).start + Last(s).length - 1

LEMMA ShorterBlocks ==
  ASSUME NEW s \in Seq(FileExtent), s # <<>>
  PROVE  /\ ShorterStore(s) \in Seq(FileExtent) /\ LastBlock(s) \in Nat
         /\ Blks(s) = Append(Blks(ShorterStore(s)), LastBlock(s))
<1> DEFINE f == Front(s)
           e == Last(s)
<1>1. f \in Seq(FileExtent) /\ e \in FileExtent /\ e = s[Len(s)] /\ Len(s) \in Nat \ {0}
  BY FrontAndLast
<1>2. e.start \in Nat /\ e.length \in Nat \ {0} /\ LastBlock(s) = e.start + e.length - 1
  BY <1>1 DEF FileExtent, LastBlock
<1>3. e = [start |-> e.start, length |-> e.length]
  BY <1>1 DEF FileExtent
<1>4. Blks(s) = Blks(f) \o ExtentBlocks(e) /\ Blks(f) \in Seq(Nat)
  BY <1>1, BlksLast
<1> HIDE DEF f, e
<1>5. LastBlock(s) \in Nat
  BY <1>2
<1>6. CASE e.length = 1
  <2>1. ShorterStore(s) = f
    BY <1>6 DEF ShorterStore, f, e
  <2>2. ExtentBlocks(e) = <<LastBlock(s)>>
    <3>1. ExtentBlocks([start |-> e.start, length |-> 1]) = <<e.start>>
      BY <1>2, ShorterExtent
    <3>2. LastBlock(s) = e.start
      BY <1>2, <1>6
    <3> QED BY <1>3, <1>6, <3>1, <3>2
  <2>3. Append(Blks(f), LastBlock(s)) = Blks(f) \o <<LastBlock(s)>>
    BY <1>4, <1>5, AppendIsConcat
  <2> QED BY <1>1, <1>4, <1>5, <2>1, <2>2, <2>3
<1>7. CASE e.length # 1
  <2> DEFINE k == e.length - 1
             g == [start |-> e.start, length |-> k]
  <2>1. k \in Nat \ {0} /\ e.length = k + 1 /\ LastBlock(s) = e.start + k
    BY <1>2, <1>7
  <2>2. ShorterStore(s) = [s EXCEPT ![Len(s)].length = k]
    BY <1>1, <1>7 DEF ShorterStore, e
  <2> HIDE DEF k
  <2>3. g \in FileExtent /\ ShorterStore(s) = Append(f, g)
    BY <2>1, <2>2, OtherLength DEF f, e
  <2>4. ExtentBlocks(e) = ExtentBlocks(g) \o <<LastBlock(s)>>
    BY <1>2, <1>3, <2>1, ShorterExtent
  <2> HIDE DEF g
  <2>5. /\ Append(f, g) \in Seq(FileExtent) /\ Blks(Append(f, g)) = Blks(f) \o ExtentBlocks(g)
        /\ ExtentBlocks(g) \in Seq(Nat)
    BY <1>1, <2>3, BlksAppend, BlocksOfExtent, AppendProperties
  <2>6. <<LastBlock(s)>> \in Seq(Nat)
    BY <1>5
  <2>7. (Blks(f) \o ExtentBlocks(g)) \o <<LastBlock(s)>> = Blks(s)
    BY <1>4, <2>4, <2>5, <2>6, ConcatAssociative
  <2>8. Blks(f) \o ExtentBlocks(g) \in Seq(Nat)
    BY <1>4, <2>5, ConcatProperties
  <2>9. Append(Blks(f) \o ExtentBlocks(g), LastBlock(s)) =
          (Blks(f) \o ExtentBlocks(g)) \o <<LastBlock(s)>>
    BY <1>5, <2>8, AppendIsConcat
  <2> QED BY <1>5, <2>3, <2>5, <2>7, <2>9
<1> QED BY <1>5, <1>6, <1>7

LEMMA ExtendsShorter ==
  ASSUME NEW r \in Seq(FileExtent), NEW s \in Seq(FileExtent), Extends(r, s),
         Len(Blks(r)) < Len(Blks(s))
  PROVE  s # <<>> /\ Extends(r, ShorterStore(s))
<1> DEFINE f == Front(s)
           e == Last(s)
<1>1. s # <<>>
  <2>1. Len(Blks(r)) \in Nat /\ (s = <<>> => Len(Blks(s)) = 0)
    BY BlksLast
  <2> QED BY <2>1
<1>2. /\ f \in Seq(FileExtent) /\ e \in FileExtent /\ e = s[Len(s)] /\ Len(s) \in Nat \ {0}
      /\ Len(f) = Len(s) - 1 /\ \A i \in 1 .. Len(s) - 1 : f[i] = s[i]
  BY <1>1, FrontAndLast
<1>3. /\ Len(r) \in Nat /\ Len(r) <= Len(s) /\ \A i \in 1 .. Len(r) - 1 : s[i] = r[i]
      /\ r # <<>> => s[Len(r)].start = Last(r).start /\ s[Len(r)].length >= Last(r).length
  BY DEF Extends
<1>4. r # <<>> => Len(r) \in Nat \ {0} /\ Last(r).length \in Nat \ {0}
  BY FrontAndLast, ExtentFields
<1>5. Len(Blks(r)) \in Nat /\ Len(Blks(s)) \in Nat
  BY BlksLast
<1>6. r # <<>> /\ Len(r) = Len(s) => e.length > Last(r).length
  <2>1. r # <<>> /\ Len(r) = Len(s) => Len(Blks(s)) - e.length = Len(Blks(r)) - Last(r).length
    BY ExtendsBlocks
  <2>2. e.length \in Nat
    BY <1>2 DEF FileExtent
  <2> QED BY <1>4, <1>5, <2>1, <2>2
<1> HIDE DEF f, e
<1>7. CASE e.length = 1
  <2>1. ShorterStore(s) = f
    BY <1>7 DEF ShorterStore, f, e
  <2>2. r # <<>> => Len(r) < Len(s)
    BY <1>3, <1>4, <1>6, <1>7, <1>2
  <2>3. Len(r) <= Len(f)
    <3>1. r = <<>> => Len(r) = 0
      OBVIOUS
    <3> QED BY <1>2, <1>3, <2>2, <3>1
  <2>4. ASSUME NEW i \in 1 .. Len(r) - 1 PROVE f[i] = r[i]
    <3>1. i \in 1 .. Len(s) - 1
      BY <1>2, <1>3, SMTT(30)
    <3>2. f[i] = s[i] /\ s[i] = r[i]
      BY <1>2, <1>3, <3>1, Zenon
    <3> QED BY <3>2
  <2>5. r # <<>> => f[Len(r)] = s[Len(r)]
    BY <1>2, <1>4, <2>2, SMTT(30)
  <2> QED BY <1>1, <1>3, <2>1, <2>3, <2>4, <2>5 DEF Extends
<1>8. CASE e.length # 1
  <2> DEFINE k == e.length - 1
             g == [start |-> e.start, length |-> k]
             t == ShorterStore(s)
  <2>0. k \in Nat \ {0} /\ k = e.length - 1
    BY <1>2, <1>8 DEF FileExtent
  <2>1. t = [s EXCEPT ![Len(s)].length = k]
    BY <1>2, <1>8 DEF ShorterStore, e
  <2> HIDE DEF k, t
  <2>2. g \in FileExtent /\ t = Append(f, g)
    BY <1>1, <2>0, <2>1, OtherLength DEF f, e
  <2>3. g.start = e.start /\ g.length = k
    OBVIOUS
  <2> HIDE DEF g
  <2>4. /\ t \in Seq(FileExtent) /\ Len(t) = Len(s) /\ t[Len(s)] = g
        /\ \A i \in 1 .. Len(s) - 1 : t[i] = s[i]
    <3>1. /\ t \in Seq(FileExtent) /\ Len(t) = Len(f) + 1 /\ t[Len(f) + 1] = g
          /\ \A i \in 1 .. Len(f) : t[i] = f[i]
      BY <1>2, <2>2, AppendProperties
    <3> QED BY <1>2, <3>1
  <2>5. \A i \in 1 .. Len(r) - 1 : t[i] = r[i]
    BY <1>2, <1>3, <2>4, SMTT(30)
  <2>6. ASSUME r # <<>>
        PROVE  t[Len(r)].start = Last(r).start /\ t[Len(r)].length >= Last(r).length
    <3>1. CASE Len(r) < Len(s)
      <4>1. t[Len(r)] = s[Len(r)]
        BY <1>2, <1>3, <1>4, <2>4, <2>6, <3>1
      <4> QED BY <1>3, <2>6, <4>1
    <3>2. CASE Len(r) = Len(s)
      <4>1. t[Len(r)] = g /\ s[Len(r)] = e
        BY <1>2, <2>4, <3>2
      <4>2. g.length >= Last(r).length
        <5>1. e.length \in Nat
          BY <1>2 DEF FileExtent
        <5> QED BY <1>4, <1>6, <2>0, <2>3, <2>6, <3>2, <5>1
      <4> QED BY <1>3, <2>3, <2>6, <4>1, <4>2
    <3> QED BY <1>2, <1>3, <3>1, <3>2
  <2> QED BY <1>1, <1>2, <1>3, <2>4, <2>5, <2>6 DEF Extends, t
<1> QED BY <1>7, <1>8

-----------------------------------------------------------------------------
(* A file in an image                                                      *)

Sums == [0 .. WordSize - 1 -> Byte]
BlockBytes == [0 .. BlockSize - 1 -> Byte]
Codes == {"OK", "EFBIG", "ENOSPC", "EIO", "LOOP", "ASSERT"}

(* The inode of a file that has blocks, and of one that has none.          *)
BlockInodes == [inline : {FALSE}, blocks : Nat, size : Nat, sum : Sums, store : Seq(FileExtent)]
InlineInodes == [inline : {TRUE}, blocks : {0}, size : 0 .. InlineSize, sum : Sums,
                 store : [0 .. InlineSize - 1 -> Byte]]

States(first, end, inodes) ==
  [first : {first}, end : {end}, free : Nat, dmap : SUBSET (0 .. end - 1),
   disk : [first .. end - 1 -> BlockBytes], n : inodes, rc : Codes]

(* The file has its blocks for itself, and nobody has the ones not in use. *)
(* others are the blocks of metadata and of other files.                   *)
Sound(first, end, others, fs) ==
  /\ fs \in States(first, end, BlockInodes)
  /\ first \in Nat /\ end \in Nat /\ 0 .. first - 1 \subseteq others /\ others \subseteq 0 .. end - 1
  /\ IsInjective(Blks(fs.n.store))
  /\ ToSet(Blks(fs.n.store)) \subseteq first .. end - 1
  /\ ToSet(Blks(fs.n.store)) \cap others = {}
  /\ fs.dmap = others \cup ToSet(Blks(fs.n.store))
  /\ fs.n.blocks = Len(Blks(fs.n.store))
  /\ fs.free = end - Cardinality(fs.dmap)

(* The fields of a state, and of one that differs in some of them.         *)
LEMMA StateFields ==
  ASSUME NEW first, NEW end, NEW I, NEW fs \in States(first, end, I)
  PROVE  /\ fs.first = first /\ fs.end = end /\ fs.free \in Nat /\ fs.dmap \in SUBSET (0 .. end - 1)
         /\ fs.disk \in [first .. end - 1 -> BlockBytes] /\ fs.n \in I /\ fs.rc \in Codes
         /\ fs = [first |-> first, end |-> end, free |-> fs.free, dmap |-> fs.dmap,
                  disk |-> fs.disk, n |-> fs.n, rc |-> fs.rc]
  BY DEF States

LEMMA BlockInodeFields ==
  ASSUME NEW n \in BlockInodes
  PROVE  /\ n.inline = FALSE /\ n.blocks \in Nat /\ n.size \in Nat /\ n.sum \in Sums
         /\ n.store \in Seq(FileExtent)
         /\ n = [inline |-> FALSE, blocks |-> n.blocks, size |-> n.size, sum |-> n.sum,
                 store |-> n.store]
  BY DEF BlockInodes

LEMMA FailedState ==
  ASSUME NEW first, NEW end, NEW I, NEW fs \in States(first, end, I), NEW rc \in Codes
  PROVE  /\ Failed(fs, rc) = [first |-> first, end |-> end, free |-> fs.free, dmap |-> fs.dmap,
                              disk |-> fs.disk, n |-> fs.n, rc |-> rc]
         /\ Failed(fs, rc) \in States(first, end, I)
  BY DEF States, Failed

(* What a run adds to an inode.                                            *)
LEMMA InodeWithExtent ==
  ASSUME NEW n \in BlockInodes, NEW run \in FileExtent
  PROVE  /\ WithExtent(n, run.start, run.length) \in BlockInodes
         /\ WithExtent(n, run.start, run.length) =
              [inline |-> FALSE, blocks |-> n.blocks + run.length, size |-> n.size,
               sum |-> n.sum, store |-> LongerStore(n.store, run)]
<1> DEFINE s == n.store
           m == [inline |-> FALSE, blocks |-> n.blocks + run.length, size |-> n.size,
                 sum |-> n.sum, store |-> LongerStore(s, run)]
<1>0. /\ n.inline = FALSE /\ n.blocks \in Nat /\ n.size \in Nat /\ n.sum \in Sums
      /\ n = [inline |-> FALSE, blocks |-> n.blocks, size |-> n.size, sum |-> n.sum,
              store |-> n.store]
  BY BlockInodeFields
<1>1. s \in Seq(FileExtent) /\ LongerStore(s, run) \in Seq(FileExtent)
  BY BlockInodeFields, LongerBlocks
<1>2. run = [start |-> run.start, length |-> run.length] /\ run.length \in Nat
  BY DEF FileExtent
<1>3. MergesWithLast(n, run.start) <=> s # <<>> /\ Last(s).start + Last(s).length = run.start
  <2>1. s # <<>> => Last(s).length > 0
    BY <1>1, FrontAndLast, ExtentFields
  <2> QED BY <2>1 DEF MergesWithLast
<1>4. LongerStore(s, run) =
        IF MergesWithLast(n, run.start)
        THEN [n.store EXCEPT ![Len(n.store)].length = @ + run.length]
        ELSE Append(n.store, [start |-> run.start, length |-> run.length])
  BY <1>2, <1>3 DEF LongerStore
<1> HIDE DEF s
<1>5. WithExtent(n, run.start, run.length) =
        [n EXCEPT !.blocks = @ + run.length, !.store = LongerStore(s, run)]
  BY <1>4, Zenon DEF WithExtent
<1>6. WithExtent(n, run.start, run.length) = m
  BY <1>0, <1>5
<1>7. n.blocks + run.length \in Nat
  BY <1>0, <1>2
<1>8. m \in BlockInodes
  BY <1>0, <1>1, <1>7 DEF BlockInodes
<1> QED BY <1>6, <1>8 DEF s

(* What free_last_block leaves of an inode.                                *)
LEMMA InodeWithoutLastBlock ==
  ASSUME NEW n \in BlockInodes, n.store # <<>>, n.blocks > 0
  PROVE  /\ WithoutLastBlock(n) \in BlockInodes
         /\ WithoutLastBlock(n).blocks = n.blocks - 1
         /\ WithoutLastBlock(n).size = n.size /\ WithoutLastBlock(n).sum = n.sum
         /\ WithoutLastBlock(n).store = ShorterStore(n.store)
<1> DEFINE t == ShorterStore(n.store)
           k == n.blocks - 1
           m == WithoutLastBlock(n)
<1>0. n.store \in Seq(FileExtent) /\ n.blocks \in Nat
  BY BlockInodeFields
<1>1. t \in Seq(FileExtent) /\ k \in Nat
  BY <1>0, ShorterBlocks
<1>2. m = [n EXCEPT !.blocks = k, !.store = t]
  BY DEF WithoutLastBlock, ShorterStore
<1> HIDE DEF t, k, m
<1>3. m \in BlockInodes
  BY <1>1, <1>2 DEF BlockInodes
<1>4. m.blocks = k /\ m.size = n.size /\ m.sum = n.sum /\ m.store = t
  BY <1>2 DEF BlockInodes
<1> QED BY <1>3, <1>4 DEF t, k, m

SoundFacts(first, end, fs) ==
  /\ first \in Nat /\ end \in Nat
  /\ fs.first = first /\ fs.end = end /\ fs.free \in Nat /\ fs.dmap \in SUBSET (0 .. end - 1)
  /\ fs.disk \in [first .. end - 1 -> BlockBytes] /\ DOMAIN fs.disk = first .. end - 1
  /\ fs.n \in BlockInodes /\ fs.rc \in Codes
  /\ fs.n.inline = FALSE /\ fs.n.blocks \in Nat /\ fs.n.size \in Nat /\ fs.n.sum \in Sums
  /\ fs.n.store \in Seq(FileExtent) /\ Blks(fs.n.store) \in Seq(Nat)
  /\ fs.n.blocks = Len(Blks(fs.n.store))
  /\ IsFiniteSet(fs.dmap) /\ Cardinality(fs.dmap) \in Nat
LEMMA SoundFields ==
  ASSUME NEW first, NEW end, NEW others, NEW fs, Sound(first, end, others, fs)
  PROVE  SoundFacts(first, end, fs)
<1>1. fs \in States(first, end, BlockInodes) /\ first \in Nat /\ end \in Nat
  BY DEF Sound
<1>2. /\ fs.first = first /\ fs.end = end /\ fs.free \in Nat /\ fs.dmap \in SUBSET (0 .. end - 1)
      /\ fs.disk \in [first .. end - 1 -> BlockBytes] /\ fs.n \in BlockInodes /\ fs.rc \in Codes
  BY <1>1, StateFields
<1>3. /\ fs.n.inline = FALSE /\ fs.n.blocks \in Nat /\ fs.n.size \in Nat /\ fs.n.sum \in Sums
      /\ fs.n.store \in Seq(FileExtent)
  BY <1>2, BlockInodeFields
<1>4. Blks(fs.n.store) \in Seq(Nat)
  BY <1>3, BlksLast
<1>5. IsFiniteSet(fs.dmap) /\ Cardinality(fs.dmap) \in Nat
  <2>1. IsFiniteSet(0 .. end - 1)
    BY <1>1, FS_Interval
  <2>2. IsFiniteSet(fs.dmap)
    BY <1>2, <2>1, FS_Subset
  <2> QED BY <2>2, FS_CardinalityType
<1>6. DOMAIN fs.disk = first .. end - 1
  BY <1>2
<1>7. fs.n.blocks = Len(Blks(fs.n.store))
  BY DEF Sound
<1> QED BY <1>1, <1>2, <1>3, <1>4, <1>5, <1>6, <1>7 DEF SoundFacts

LEMMA SoundFailed ==
  ASSUME NEW first, NEW end, NEW others, NEW fs, Sound(first, end, others, fs), NEW rc \in Codes
  PROVE  /\ Sound(first, end, others, Failed(fs, rc))
         /\ Failed(fs, rc).rc = rc /\ Failed(fs, rc).n = fs.n /\ Failed(fs, rc).dmap = fs.dmap
         /\ Failed(fs, rc).disk = fs.disk /\ Failed(fs, rc).free = fs.free
<1> DEFINE r == Failed(fs, rc)
<1>1. fs \in States(first, end, BlockInodes)
  BY DEF Sound
<1>2. r \in States(first, end, BlockInodes)
  BY <1>1, FailedState
<1>3. r.rc = rc /\ r.n = fs.n /\ r.dmap = fs.dmap /\ r.disk = fs.disk /\ r.free = fs.free
  <2>1. r = [first |-> first, end |-> end, free |-> fs.free, dmap |-> fs.dmap,
             disk |-> fs.disk, n |-> fs.n, rc |-> rc]
    BY <1>1, FailedState
  <2> HIDE DEF r
  <2> QED BY <2>1
<1> HIDE DEF r
<1>4. Sound(first, end, others, r)
  BY <1>2, <1>3 DEF Sound
<1> QED BY <1>3, <1>4 DEF r

(* What growing keeps: the bytes of blocks in use, and the file so far.    *)
Grew(fs, r) ==
  /\ r.n.size = fs.n.size /\ r.n.sum = fs.n.sum
  /\ fs.n.blocks <= r.n.blocks /\ r.free + r.n.blocks = fs.free + fs.n.blocks
  /\ fs.dmap \subseteq r.dmap
  /\ \A b \in fs.dmap \cap DOMAIN fs.disk : r.disk[b] = fs.disk[b]
  /\ \A q \in Seq(FileExtent) : Extends(q, fs.n.store) => Extends(q, r.n.store)
  /\ \A i \in 1 .. fs.n.blocks : Blks(r.n.store)[i] = Blks(fs.n.store)[i]

(* append_extent_range takes the run or fails, and it leaves everything    *)
(* alone when it fails.                                                    *)
LEMMA AppendRun ==
  ASSUME NEW first, NEW end, NEW others, NEW fs, Sound(first, end, others, fs), fs.rc = "OK",
         NEW run \in [start : Nat, length : Nat]
  PROVE  LET r == AppendExtentRange(fs, run)
         IN  \/ /\ r.rc \in {"EFBIG", "ENOSPC", "EIO"} /\ r = Failed(fs, r.rc)
                /\ r.rc = "ENOSPC" => fs.free < run.length
                /\ r.rc = "EIO" => \E b \in run.start .. run.start + run.length - 1 : ~IsFree(fs, b)
             \/ /\ r.rc = "OK" /\ Sound(first, end, others, r)
                /\ r.n.blocks = fs.n.blocks + run.length /\ Grew(fs, r)
<1> DEFINE r == AppendExtentRange(fs, run)
           range == run.start .. run.start + run.length - 1
           s == fs.n.store
<1>0. SoundFacts(first, end, fs)
  BY SoundFields
<1>5. /\ s \in Seq(FileExtent) /\ Blks(s) \in Seq(Nat) /\ fs.n.blocks = Len(Blks(s))
      /\ fs.n.blocks \in Nat
  BY <1>0 DEF SoundFacts
<1>1. run.start \in Nat /\ run.length \in Nat
  OBVIOUS
<1>2. CASE run.length = 0
  <2>1. r = fs
    BY <1>2 DEF AppendExtentRange
  <2>2. Grew(fs, fs)
    BY <1>0 DEF Grew, SoundFacts
  <2> QED BY <1>0, <1>2, <2>1, <2>2 DEF SoundFacts
<1>3. CASE /\ run.length > 0 /\ ~MergesWithLast(fs.n, run.start) /\ Len(fs.n.store) >= NumExtents
  <2>1. r = Failed(fs, "EFBIG")
    BY <1>3 DEF AppendExtentRange
  <2>2. Failed(fs, "EFBIG").rc = "EFBIG"
    BY SoundFailed DEF Codes
  <2> QED BY <2>1, <2>2
<1>4. CASE run.length > 0 /\ ~(~MergesWithLast(fs.n, run.start) /\ Len(fs.n.store) >= NumExtents)
  <2> DEFINE zero == [o \in 0 .. BlockSize - 1 |-> 0]
             region == [b \in DOMAIN fs.disk |-> IF b \in range THEN zero ELSE fs.disk[b]]
             n == WithExtent(fs.n, run.start, run.length)
  <2>1. r = IF fs.free < run.length THEN Failed(fs, "ENOSPC")
            ELSE IF \E b \in range : ~IsFree(fs, b) THEN Failed(fs, "EIO")
            ELSE [fs EXCEPT !.dmap = @ \cup range, !.free = @ - run.length,
                            !.disk = region, !.n = n]
    BY <1>4 DEF AppendExtentRange
  <2>2. CASE fs.free < run.length
    <3>1. r = Failed(fs, "ENOSPC")
      BY <2>1, <2>2
    <3>2. Failed(fs, "ENOSPC").rc = "ENOSPC"
      BY SoundFailed DEF Codes
    <3> QED BY <2>2, <3>1, <3>2
  <2>3. CASE ~(fs.free < run.length) /\ \E b \in range : ~IsFree(fs, b)
    <3>1. r = Failed(fs, "EIO")
      BY <2>1, <2>3
    <3>2. Failed(fs, "EIO").rc = "EIO"
      BY SoundFailed DEF Codes
    <3> QED BY <2>3, <3>1, <3>2
  <2>4. CASE ~(fs.free < run.length) /\ ~(\E b \in range : ~IsFree(fs, b))
    <3> DEFINE t == LongerStore(s, run)
               x == ExtentBlocks(run)
    <3>1. run \in FileExtent
      BY <1>4 DEF FileExtent
    <3>2. /\ n \in BlockInodes
          /\ n = [inline |-> FALSE, blocks |-> fs.n.blocks + run.length, size |-> fs.n.size,
                  sum |-> fs.n.sum, store |-> t]
      BY <1>0, <3>1, InodeWithExtent DEF SoundFacts
    <3>3. /\ t \in Seq(FileExtent) /\ Blks(t) = Blks(s) \o x
      BY <1>0, <3>1, LongerBlocks DEF SoundFacts
    <3>4. x \in Seq(Nat) /\ Len(x) = run.length /\ ToSet(x) = range /\ IsInjective(x)
      BY <3>1, BlocksOfExtent
    <3>5. range \subseteq first .. end - 1 /\ range \cap fs.dmap = {}
      BY <1>0, <2>4 DEF IsFree, IsValidDataBlock, SoundFacts
    <3>6. region \in [first .. end - 1 -> BlockBytes]
      <4>1. zero \in BlockBytes
        BY DEF BlockBytes, Byte
      <4> HIDE DEF zero
      <4> QED BY <1>0, <4>1 DEF SoundFacts
    <3>11. fs.free - run.length = end - Cardinality(fs.dmap \cup range) /\ fs.free - run.length \in Nat
      <4>1. IsFiniteSet(range) /\ Cardinality(range) = run.length
        <5>1. run.start <= run.start + run.length - 1
          BY <1>1, <1>4
        <5>2. IsFiniteSet(range) /\ Cardinality(range) = (run.start + run.length - 1) - run.start + 1
          BY <1>1, <5>1, FS_Interval
        <5> HIDE DEF range
        <5> QED BY <1>1, <5>2
      <4> HIDE DEF range
      <4>2. Cardinality(fs.dmap \cup range) = Cardinality(fs.dmap) + Cardinality(range)
                                              - Cardinality(fs.dmap \cap range)
        BY <1>0, <4>1, FS_Union DEF SoundFacts
      <4>3. Cardinality(fs.dmap \cap range) = 0
        BY <3>5, FS_EmptySet
      <4>4. fs.free = end - Cardinality(fs.dmap)
        BY DEF Sound
      <4> QED BY <1>0, <1>1, <2>4, <4>1, <4>2, <4>3, <4>4 DEF SoundFacts
    <3>12. fs.dmap \cup range \in SUBSET (0 .. end - 1)
      BY <1>0, <3>5 DEF SoundFacts
    <3>8. /\ r \in States(first, end, BlockInodes)
          /\ r.n = n /\ r.dmap = fs.dmap \cup range /\ r.disk = region /\ r.rc = "OK"
          /\ r.free = fs.free - run.length
      <4>1. r = [fs EXCEPT !.dmap = fs.dmap \cup range, !.free = fs.free - run.length,
                           !.disk = region, !.n = n]
        BY <2>1, <2>4
      <4>2. fs \in States(first, end, BlockInodes)
        BY DEF Sound
      <4> DEFINE taken == fs.dmap \cup range
                 free == fs.free - run.length
      <4>3. taken \in SUBSET (0 .. end - 1) /\ free \in Nat /\ n \in BlockInodes
        BY <3>2, <3>11, <3>12
      <4> HIDE DEF range, region, n, r, taken, free
      <4>4. r = [fs EXCEPT !.dmap = taken, !.free = free, !.disk = region, !.n = n]
        BY <4>1 DEF taken, free
      <4>5. /\ r \in States(first, end, BlockInodes)
            /\ r.n = n /\ r.dmap = taken /\ r.disk = region /\ r.rc = fs.rc /\ r.free = free
        <5>1. r \in States(first, end, BlockInodes)
          BY <3>6, <4>2, <4>3, <4>4 DEF States
        <5>2. r.n = n /\ r.dmap = taken /\ r.disk = region /\ r.rc = fs.rc /\ r.free = free
          BY <4>2, <4>4 DEF States
        <5> QED BY <5>1, <5>2
      <4> QED BY <4>5 DEF taken, free
    <3> HIDE DEF r
    <3>9. /\ r.n.store = t /\ r.n.blocks = fs.n.blocks + run.length
          /\ r.n.size = fs.n.size /\ r.n.sum = fs.n.sum
      <4> HIDE DEF n, t
      <4> QED BY <3>2, <3>8
    <3>10. /\ Blks(t) \in Seq(Nat) /\ IsInjective(Blks(t)) /\ ToSet(Blks(t)) = ToSet(Blks(s)) \cup range
           /\ Len(Blks(t)) = fs.n.blocks + run.length
           /\ \A i \in 1 .. fs.n.blocks : Blks(t)[i] = Blks(s)[i]
      <4> HIDE DEF x, range, t, s
      <4>1. ToSet(Blks(s)) \cap ToSet(x) = {} /\ IsInjective(Blks(s))
        BY <3>4, <3>5 DEF Sound, s
      <4>2. /\ Blks(s) \o x \in Seq(Nat) /\ IsInjective(Blks(s) \o x)
            /\ ToSet(Blks(s) \o x) = ToSet(Blks(s)) \cup ToSet(x)
        BY <1>5, <3>4, <4>1, QueueConcat
      <4>3. /\ Len(Blks(s) \o x) = Len(Blks(s)) + Len(x)
            /\ \A i \in 1 .. Len(Blks(s)) : (Blks(s) \o x)[i] = Blks(s)[i]
        <5>1. \A u, v \in Seq(Nat) : /\ Len(u \o v) = Len(u) + Len(v)
                                     /\ \A i \in 1 .. Len(u) : (u \o v)[i] = u[i]
          BY ConcatFirst
        <5> QED BY <1>5, <3>4, <5>1
      <4> QED BY <1>5, <3>3, <3>4, <4>2, <4>3
    <3> HIDE DEF range, region, n, t, s
    <3>14. Sound(first, end, others, r)
      <4>1. /\ 0 .. first - 1 \subseteq others /\ others \subseteq 0 .. end - 1
            /\ ToSet(Blks(s)) \subseteq first .. end - 1 /\ ToSet(Blks(s)) \cap others = {}
            /\ fs.dmap = others \cup ToSet(Blks(s))
        BY DEF Sound, s
      <4> QED BY <1>0, <3>5, <3>8, <3>9, <3>10, <3>11, <4>1 DEF Sound, SoundFacts
    <3>15. Grew(fs, r)
      <4>1. \A b \in fs.dmap \cap DOMAIN fs.disk : r.disk[b] = fs.disk[b]
        BY <3>5, <3>8 DEF region
      <4>2. \A q \in Seq(FileExtent) : Extends(q, fs.n.store) => Extends(q, r.n.store)
        BY <1>0, <3>1, <3>9, ExtendsLonger DEF t, s, SoundFacts
      <4>3. /\ fs.dmap \subseteq r.dmap /\ fs.n.blocks <= r.n.blocks
            /\ r.free + r.n.blocks = fs.free + fs.n.blocks
        <5>1. /\ fs.free \in Nat /\ fs.n.blocks \in Nat /\ run.length \in Nat
              /\ r.free = fs.free - run.length /\ r.n.blocks = fs.n.blocks + run.length
          BY <1>1, <1>5, <1>0, <3>8, <3>9 DEF SoundFacts
        <5>2. r.dmap = fs.dmap \cup range
          BY <3>8
        <5> QED BY <5>1, <5>2
      <4> QED BY <3>9, <3>10, <4>1, <4>2, <4>3 DEF Grew, s
    <3> QED BY <3>8, <3>9, <3>14, <3>15 DEF r
  <2> QED BY <2>2, <2>3, <2>4
<1> QED BY <1>1, <1>2, <1>3, <1>4

(* A sequence without its last element.                                    *)
LEMMA AppendedElements ==
  ASSUME NEW S, NEW s \in Seq(S), NEW e \in S, IsInjective(Append(s, e))
  PROVE  /\ IsInjective(s) /\ e \notin ToSet(s) /\ ToSet(Append(s, e)) = ToSet(s) \cup {e}
         /\ Len(Append(s, e)) = Len(s) + 1 /\ \A i \in 1 .. Len(s) : Append(s, e)[i] = s[i]
<1> DEFINE a == Append(s, e)
<1>1. /\ Len(a) = Len(s) + 1 /\ DOMAIN a = 1 .. Len(s) + 1 /\ Len(s) \in Nat
      /\ DOMAIN s = 1 .. Len(s)
      /\ (\A i \in 1 .. Len(s) : a[i] = s[i]) /\ a[Len(s) + 1] = e
  BY AppendProperties
<1>2. IsInjective(a)
  OBVIOUS
<1> HIDE DEF a
<1>3. IsInjective(s)
  BY <1>1, <1>2 DEF IsInjective
<1>4. e \notin ToSet(s)
  BY <1>1, <1>2 DEF IsInjective, ToSet
<1>5. ToSet(a) = ToSet(s) \cup {e}
  BY <1>1 DEF ToSet
<1> QED BY <1>1, <1>3, <1>4, <1>5 DEF a

(* free_last_block gives back the last block of the file, and nothing else *)
(* changes.                                                                *)
LosesLast(fs, r) ==
  /\ r.rc = fs.rc /\ r.disk = fs.disk /\ r.free = fs.free + 1
  /\ r.n.blocks = fs.n.blocks - 1 /\ r.n.size = fs.n.size /\ r.n.sum = fs.n.sum
  /\ r.n.store = ShorterStore(fs.n.store)
  /\ r.dmap \subseteq fs.dmap
  /\ \A i \in 1 .. r.n.blocks : Blks(r.n.store)[i] = Blks(fs.n.store)[i]
LEMMA FreeOne ==
  ASSUME NEW first, NEW end, NEW others, NEW fs, Sound(first, end, others, fs), fs.n.blocks > 0
  PROVE  /\ Sound(first, end, others, FreeLastBlock(fs))
         /\ LosesLast(fs, FreeLastBlock(fs))
<1> DEFINE r == FreeLastBlock(fs)
           s == fs.n.store
           t == ShorterStore(s)
           b == LastBlock(s)
<1>0. SoundFacts(first, end, fs)
  BY SoundFields
<1>1. s \in Seq(FileExtent) /\ fs.n.blocks = Len(Blks(s)) /\ fs.n.blocks \in Nat
  BY <1>0 DEF SoundFacts
<1>2. s # <<>>
  <2>1. s = <<>> => Blks(s) = <<>>
    BY <1>1, BlksLast
  <2> QED BY <1>1, <2>1
<1>3. t \in Seq(FileExtent) /\ b \in Nat /\ Blks(s) = Append(Blks(t), b)
  BY <1>1, <1>2, ShorterBlocks
<1>4. Blks(t) \in Seq(Nat)
  BY <1>3, BlksLast
<1>5. IsInjective(Blks(s))
  BY DEF Sound
<1>6. /\ IsInjective(Blks(t)) /\ b \notin ToSet(Blks(t)) /\ ToSet(Blks(s)) = ToSet(Blks(t)) \cup {b}
      /\ Len(Blks(s)) = Len(Blks(t)) + 1 /\ \A i \in 1 .. Len(Blks(t)) : Blks(s)[i] = Blks(t)[i]
  <2> DEFINE u == Blks(t)
  <2>1. u \in Seq(Nat) /\ b \in Nat /\ IsInjective(Append(u, b))
    BY <1>3, <1>4, <1>5
  <2> HIDE DEF u, b
  <2>2. /\ IsInjective(u) /\ b \notin ToSet(u) /\ ToSet(Append(u, b)) = ToSet(u) \cup {b}
        /\ Len(Append(u, b)) = Len(u) + 1 /\ \A i \in 1 .. Len(u) : Append(u, b)[i] = u[i]
    BY <2>1, AppendedElements
  <2>3. Blks(s) = Append(u, b)
    BY <1>3 DEF u
  <2> QED BY <2>2, <2>3 DEF u
<1>7. /\ 0 .. first - 1 \subseteq others /\ others \subseteq 0 .. end - 1
      /\ ToSet(Blks(s)) \subseteq first .. end - 1 /\ ToSet(Blks(s)) \cap others = {}
      /\ fs.dmap = others \cup ToSet(Blks(s)) /\ fs.free = end - Cardinality(fs.dmap)
  BY DEF Sound
<1>8. b \in fs.dmap /\ fs.dmap \ {b} = others \cup ToSet(Blks(t))
  BY <1>6, <1>7
<1> DEFINE freed == [fs EXCEPT !.dmap = @ \ {b}]
<1>9. BitmapFree(fs, b) = freed
  BY <1>8 DEF BitmapFree
<1>10. fs \in States(first, end, BlockInodes) /\ fs.n \in BlockInodes
  BY <1>0 DEF Sound, SoundFacts
<1> HIDE DEF b
<1> DEFINE d == fs.dmap \ {b}
<1> HIDE DEF d
<1>11. /\ freed \in States(first, end, BlockInodes)
       /\ freed.dmap = d /\ freed.disk = fs.disk /\ freed.n = fs.n /\ freed.rc = fs.rc
       /\ freed.free = fs.free
  <2>1. d \in SUBSET (0 .. end - 1)
    BY <1>0 DEF d, SoundFacts
  <2>2. freed = [fs EXCEPT !.dmap = d]
    BY DEF d
  <2> HIDE DEF freed
  <2>3. freed \in States(first, end, BlockInodes)
    BY <1>10, <2>1, <2>2 DEF States
  <2>4. freed.dmap = d /\ freed.disk = fs.disk /\ freed.n = fs.n /\ freed.rc = fs.rc
        /\ freed.free = fs.free
    BY <1>10, <2>2 DEF States
  <2> QED BY <2>3, <2>4
<1> HIDE DEF freed
<1> DEFINE n == WithoutLastBlock(fs.n)
<1>12. /\ n \in BlockInodes /\ n.blocks = fs.n.blocks - 1 /\ n.size = fs.n.size
       /\ n.sum = fs.n.sum /\ n.store = t
  BY <1>1, <1>2, <1>3, <1>10, InodeWithoutLastBlock
<1>13. r = [freed EXCEPT !.free = @ + 1, !.n = n]
  <2>1. r = [BitmapFree(fs, b) EXCEPT !.free = @ + 1, !.n = n]
    BY <1>1, <1>2 DEF FreeLastBlock, b, LastBlock
  <2> QED BY <1>9, <2>1
<1> HIDE DEF r, t, n
<1>14. /\ r.rc = fs.rc /\ r.disk = fs.disk /\ r.free = fs.free + 1 /\ r.dmap = d
       /\ r.n = n /\ r \in States(first, end, BlockInodes)
  <2> DEFINE k == fs.free + 1
  <2>1. k \in Nat
    BY <1>0 DEF SoundFacts
  <2>2. r = [freed EXCEPT !.free = k, !.n = n]
    BY <1>11, <1>13
  <2> HIDE DEF k
  <2>3. r \in States(first, end, BlockInodes)
    BY <1>11, <1>12, <2>1, <2>2 DEF States
  <2>4. r.rc = fs.rc /\ r.disk = fs.disk /\ r.free = k /\ r.dmap = d /\ r.n = n
    BY <1>11, <2>2 DEF States
  <2> QED BY <2>3, <2>4 DEF k
<1>15. Cardinality(d) = Cardinality(fs.dmap) - 1
  BY <1>0, <1>8, FS_RemoveElement DEF d, SoundFacts
<1>16. /\ IsInjective(Blks(t)) /\ ToSet(Blks(t)) \subseteq first .. end - 1
       /\ ToSet(Blks(t)) \cap others = {} /\ d = others \cup ToSet(Blks(t))
  BY <1>6, <1>7, <1>8 DEF d
<1>17. fs.n.blocks - 1 = Len(Blks(t)) /\ Len(Blks(t)) \in Nat
  BY <1>1, <1>4, <1>6
<1>18. Sound(first, end, others, r)
  <2>1. fs.free + 1 = end - Cardinality(d)
    BY <1>0, <1>7, <1>15 DEF SoundFacts
  <2> QED BY <1>0, <1>7, <1>12, <1>14, <1>16, <1>17, <2>1 DEF Sound, SoundFacts
<1>19. d \subseteq fs.dmap
  BY DEF d
<1>20. \A i \in 1 .. r.n.blocks : Blks(r.n.store)[i] = Blks(fs.n.store)[i]
  BY <1>6, <1>12, <1>14, <1>17 DEF s
<1> QED BY <1>12, <1>14, <1>18, <1>19, <1>20 DEF s, t, r, LosesLast

(* What giving back the last blocks keeps: the rest of the file, as it was *)
(* when it grew.                                                           *)
Freed(fs, r) ==
  /\ r.rc = fs.rc /\ r.disk = fs.disk /\ r.n.size = fs.n.size /\ r.n.sum = fs.n.sum
  /\ r.dmap \subseteq fs.dmap /\ r.free + r.n.blocks = fs.free + fs.n.blocks
  /\ \A i \in 1 .. r.n.blocks : Blks(r.n.store)[i] = Blks(fs.n.store)[i]
  /\ \A q \in Seq(FileExtent) :
       Extends(q, fs.n.store) /\ Len(Blks(q)) <= r.n.blocks => Extends(q, r.n.store)

LEMMA FreedOne ==
  ASSUME NEW first, NEW end, NEW others, NEW fs, NEW x,
         Sound(first, end, others, x), Freed(fs, x), x.n.blocks > 0, x.n.blocks <= fs.n.blocks
  PROVE  LET r == FreeLastBlock(x)
         IN  Sound(first, end, others, r) /\ Freed(fs, r) /\ r.n.blocks = x.n.blocks - 1
<1> DEFINE r == FreeLastBlock(x)
<1>0. Sound(first, end, others, r) /\ LosesLast(x, r)
  BY FreeOne
<1> HIDE DEF r
<1>1. /\ Sound(first, end, others, r)
      /\ r.rc = x.rc /\ r.disk = x.disk /\ r.free = x.free + 1
      /\ r.n.blocks = x.n.blocks - 1 /\ r.n.size = x.n.size /\ r.n.sum = x.n.sum
      /\ r.n.store = ShorterStore(x.n.store)
      /\ r.dmap \subseteq x.dmap
      /\ \A i \in 1 .. r.n.blocks : Blks(r.n.store)[i] = Blks(x.n.store)[i]
  BY <1>0 DEF LosesLast
<1>2. SoundFacts(first, end, x) /\ SoundFacts(first, end, r)
  BY <1>1, SoundFields
<1>3. ASSUME NEW q \in Seq(FileExtent), Extends(q, fs.n.store), Len(Blks(q)) <= r.n.blocks
      PROVE  Extends(q, r.n.store)
  <2>1. Len(Blks(q)) \in Nat
    BY BlksLast
  <2>2. Extends(q, x.n.store) /\ Len(Blks(q)) < Len(Blks(x.n.store))
    BY <1>1, <1>2, <1>3, <2>1, SMTT(30) DEF Freed, SoundFacts
  <2>3. x.n.store \in Seq(FileExtent)
    BY <1>2 DEF SoundFacts
  <2> QED BY <1>1, <2>2, <2>3, ExtendsShorter
<1>4. \A i \in 1 .. r.n.blocks : Blks(r.n.store)[i] = Blks(fs.n.store)[i]
  <2>1. \A i \in 1 .. r.n.blocks : i \in 1 .. x.n.blocks
    BY <1>1, <1>2 DEF SoundFacts
  <2> QED BY <1>1, <2>1 DEF Freed
<1>5. Freed(fs, r)
  <2>1. r.free + r.n.blocks = fs.free + fs.n.blocks
    <3>1. x.free + x.n.blocks = fs.free + fs.n.blocks
      BY DEF Freed
    <3>2. x.free \in Nat /\ x.n.blocks \in Nat
      BY <1>2 DEF SoundFacts
    <3>3. r.free = x.free + 1 /\ r.n.blocks = x.n.blocks - 1
      BY <1>1
    <3> QED BY <3>1, <3>2, <3>3
  <2> QED BY <1>1, <1>3, <1>4, <2>1 DEF Freed
<1> QED BY <1>1, <1>5 DEF r

(* The states free_last_block goes through.                                *)
LEMMA FreeLastSteps ==
  ASSUME NEW fs, NEW k \in Nat
  PROVE  \E f : /\ f[0] = fs /\ \A i \in 1 .. k : f[i] = FreeLastBlock(f[i - 1])
                /\ FreeLastBlocks(fs, k) = f[k]
<1> DEFINE T == {m \in Nat : \E f :
                   f = [i \in 0 .. m |-> IF i = 0 THEN fs ELSE FreeLastBlock(f[i - 1])]}
<1>1. 0 \in T
  <2> DEFINE g == [i \in 0 .. 0 |-> fs]
  <2>1. g = [i \in 0 .. 0 |-> IF i = 0 THEN fs ELSE FreeLastBlock(g[i - 1])]
    OBVIOUS
  <2> QED BY <2>1
<1>2. ASSUME NEW m \in 0 .. k - 1, m \in T PROVE m + 1 \in T
  <2>1. PICK f : f = [i \in 0 .. m |-> IF i = 0 THEN fs ELSE FreeLastBlock(f[i - 1])]
    BY <1>2
  <2>2. m \in Nat
    OBVIOUS
  <2>3. ASSUME NEW i \in 0 .. m PROVE f[i] = IF i = 0 THEN fs ELSE FreeLastBlock(f[i - 1])
    BY <2>1, Zenon
  <2> DEFINE g == [i \in 0 .. m + 1 |-> IF i <= m THEN f[i] ELSE FreeLastBlock(f[i - 1])]
  <2>4. ASSUME NEW i \in 0 .. m + 1
        PROVE  g[i] = IF i = 0 THEN fs ELSE FreeLastBlock(g[i - 1])
    <3>1. CASE i = 0
      <4>1. 0 \in 0 .. m
        BY <2>2
      <4>2. f[0] = fs
        BY <2>3, <4>1
      <4> QED BY <2>2, <3>1, <4>2
    <3>2. CASE i # 0
      <4>1. i - 1 \in 0 .. m + 1 /\ i - 1 <= m /\ g[i - 1] = f[i - 1]
        BY <3>2
      <4>2. i <= m => f[i] = FreeLastBlock(f[i - 1])
        <5>1. i <= m => i \in 0 .. m
          BY <2>2
        <5> QED BY <2>3, <3>2, <5>1, Zenon
      <4> QED BY <3>2, <4>1, <4>2
    <3> QED BY <3>1, <3>2
  <2>5. g = [i \in 0 .. m + 1 |-> g[i]]
    OBVIOUS
  <2> HIDE DEF g
  <2>6. g = [i \in 0 .. m + 1 |-> IF i = 0 THEN fs ELSE FreeLastBlock(g[i - 1])]
    BY <2>4, <2>5
  <2>7. m + 1 \in Nat
    BY <2>2
  <2> QED BY <2>6, <2>7, Zenon
<1>3. k \in T
  <2>1. k \in 0 .. k
    OBVIOUS
  <2> HIDE DEF T
  <2> QED BY <1>1, <1>2, <2>1, BoundedInduction
<1> DEFINE nth == CHOOSE f : f = [i \in 0 .. k |-> IF i = 0 THEN fs ELSE FreeLastBlock(f[i - 1])]
<1>4. nth = [i \in 0 .. k |-> IF i = 0 THEN fs ELSE FreeLastBlock(nth[i - 1])]
  BY <1>3
<1>5. FreeLastBlocks(fs, k) = nth[k]
  BY DEF FreeLastBlocks
<1> HIDE DEF nth
<1>6. ASSUME NEW i \in 0 .. k PROVE nth[i] = IF i = 0 THEN fs ELSE FreeLastBlock(nth[i - 1])
  BY <1>4, Zenon
<1>7. nth[0] = fs
  <2>1. 0 \in 0 .. k
    OBVIOUS
  <2> QED BY <1>6, <2>1
<1>8. ASSUME NEW i \in 1 .. k PROVE nth[i] = FreeLastBlock(nth[i - 1])
  <2>1. i \in 0 .. k /\ i # 0
    OBVIOUS
  <2> QED BY <1>6, <2>1, Zenon
<1> QED BY <1>5, <1>7, <1>8

(* Freeing the last k blocks.                                              *)
LEMMA FreeSome ==
  ASSUME NEW first, NEW end, NEW others, NEW fs, Sound(first, end, others, fs),
         NEW k \in 0 .. fs.n.blocks
  PROVE  LET r == FreeLastBlocks(fs, k)
         IN  Sound(first, end, others, r) /\ Freed(fs, r) /\ r.n.blocks = fs.n.blocks - k
<1>0. SoundFacts(first, end, fs)
  BY SoundFields
<1>1. k \in Nat /\ fs.n.blocks \in Nat /\ k <= fs.n.blocks
  BY <1>0 DEF SoundFacts
<1>2. PICK f : /\ f[0] = fs /\ \A i \in 1 .. k : f[i] = FreeLastBlock(f[i - 1])
               /\ FreeLastBlocks(fs, k) = f[k]
  BY <1>1, FreeLastSteps
<1> DEFINE T == {i \in Nat : /\ Sound(first, end, others, f[i]) /\ Freed(fs, f[i])
                             /\ f[i].n.blocks = fs.n.blocks - i}
<1>3. 0 \in T
  <2>1. Freed(fs, fs)
    BY DEF Freed
  <2> QED BY <1>1, <1>2, <2>1
<1>4. ASSUME NEW m \in 0 .. k - 1, m \in T PROVE m + 1 \in T
  <2>1. m \in Nat /\ m + 1 \in 1 .. k /\ (m + 1) - 1 = m
    BY <1>1
  <2>2. f[m + 1] = FreeLastBlock(f[m])
    BY <1>2, <2>1
  <2>3. Sound(first, end, others, f[m]) /\ Freed(fs, f[m]) /\ f[m].n.blocks = fs.n.blocks - m
    BY <1>4
  <2>4. f[m].n.blocks > 0 /\ f[m].n.blocks <= fs.n.blocks
    BY <1>1, <2>1, <2>3
  <2>5. /\ Sound(first, end, others, f[m + 1]) /\ Freed(fs, f[m + 1])
        /\ f[m + 1].n.blocks = f[m].n.blocks - 1
    BY <2>2, <2>3, <2>4, FreedOne
  <2>6. f[m + 1].n.blocks = fs.n.blocks - (m + 1)
    BY <1>1, <2>1, <2>3, <2>5
  <2> QED BY <2>1, <2>5, <2>6
<1>5. k \in T
  <2>1. k \in 0 .. k
    BY <1>1
  <2> HIDE DEF T
  <2> QED BY <1>1, <1>3, <1>4, <2>1, BoundedInduction
<1> QED BY <1>2, <1>5

-----------------------------------------------------------------------------
(* ensure_blocks_for_size                                                  *)

LEMMA RunOfFree ==
  ASSUME NEW fs, NEW blk, NEW max \in Nat
  PROVE  /\ CountFreeRun(fs, blk, max) \in 0 .. max
         /\ CountFreeRun(fs, blk, max) > 0 =>
              \A b \in blk .. blk + CountFreeRun(fs, blk, max) - 1 : IsFree(fs, b)
<1> DEFINE K == {k \in 0 .. max : k = 0 \/ \A b \in blk .. blk + k - 1 : IsFree(fs, b)}
<1>1. 0 \in K
  OBVIOUS
<1>2. \A t \in K : t \in Int /\ t <= max
  OBVIOUS
<1>3. Max(K) \in K
  <2> HIDE DEF K
  <2> QED BY <1>1, <1>2, GreatestNumber
<1>4. CountFreeRun(fs, blk, max) = Max(K)
  BY DEF CountFreeRun
<1> QED BY <1>3, <1>4

(* A free block that follows one that is not starts a run.                 *)
LEMMA RunFromStart ==
  ASSUME NEW fs, fs.first \in Nat, fs.end \in Nat, NEW b \in RunStarts(fs)
  PROVE  /\ b \in Nat /\ RunLength(fs, b) \in 1 .. fs.end - b
         /\ \A c \in b .. b + RunLength(fs, b) - 1 : IsFree(fs, c)
<1>1. b \in fs.first .. fs.end - 1 /\ IsFree(fs, b)
  BY DEF RunStarts
<1> DEFINE m == fs.end - b
           K == {k \in 0 .. m : k = 0 \/ \A c \in b .. b + k - 1 : IsFree(fs, c)}
<1>2. b \in Nat /\ m \in Nat \ {0}
  BY <1>1
<1>3. 1 \in K
  <2>1. \A c \in b .. b + 1 - 1 : c = b
    BY <1>2
  <2> QED BY <1>1, <1>2, <2>1
<1>4. \A t \in K : t \in Int /\ t <= m
  BY <1>2
<1>5. K # {} /\ m \in Int
  BY <1>2, <1>3
<1>6. Max(K) \in K /\ 1 <= Max(K)
  <2> HIDE DEF K, m
  <2> QED BY <1>3, <1>4, <1>5, GreatestNumber
<1>7. RunLength(fs, b) = Max(K)
  BY DEF RunLength, CountFreeRun
<1>8. Max(K) \in 1 .. m /\ \A c \in b .. b + Max(K) - 1 : IsFree(fs, c)
  <2> DEFINE k == Max(K)
  <2>1. k \in K /\ 1 <= k
    BY <1>6
  <2> HIDE DEF k
  <2>2. k \in 1 .. m /\ \A c \in b .. b + k - 1 : IsFree(fs, c)
    BY <1>2, <2>1
  <2> QED BY <2>2 DEF k
<1> QED BY <1>2, <1>7, <1>8

(* The run that is appended next holds a block at least, and no more than  *)
(* are wanted.                                                             *)
LEMMA RunFits ==
  ASSUME NEW fs, fs.first \in Nat, fs.end \in Nat, fs.n.store \in Seq(FileExtent),
         RunStarts(fs) # {}, NEW max \in Nat
  PROVE  /\ NextRun(fs, max) \in [start : Nat, length : Nat]
         /\ NextRun(fs, max).length <= max
         /\ max > 0 => NextRun(fs, max).length > 0
         /\ \A b \in NextRun(fs, max).start ..
                    NextRun(fs, max).start + NextRun(fs, max).length - 1 : IsFree(fs, b)
<1> DEFINE R == RunStarts(fs)
           fit == {b \in R : RunLength(fs, b) >= max}
           longest == {b \in R : \A c \in R : RunLength(fs, b) >= RunLength(fs, c)}
           S == IF fit # {} THEN fit ELSE longest
           start == Min(S)
           length == Min({max, RunLength(fs, start)})
           inPlace == CountFreeRun(fs, EndOf(fs.n), max)
<1>1. /\ inPlace \in 0 .. max
      /\ inPlace > 0 => \A b \in EndOf(fs.n) .. EndOf(fs.n) + inPlace - 1 : IsFree(fs, b)
  BY RunOfFree
<1>2. EndOf(fs.n) \in Nat
  <2>1. fs.n.store # <<>> => Last(fs.n.store).start \in Nat /\ Last(fs.n.store).length \in Nat
    BY FrontAndLast, ExtentFields
  <2> QED BY <2>1 DEF EndOf
<1>3. \A b \in R : /\ b \in Nat /\ RunLength(fs, b) \in 1 .. fs.end - b
                     /\ \A c \in b .. b + RunLength(fs, b) - 1 : IsFree(fs, c)
  BY RunFromStart
<1>4. longest # {}
  <2> DEFINE L == {RunLength(fs, b) : b \in R}
  <2>1. L # {} /\ \A t \in L : t \in Int /\ t <= fs.end
    BY <1>3
  <2>2. Max(L) \in L /\ \A t \in L : t <= Max(L)
    <3> HIDE DEF L
    <3> QED BY <2>1, GreatestNumber
  <2>3. PICK b \in R : Max(L) = RunLength(fs, b)
    BY <2>2
  <2>4. \A c \in R : RunLength(fs, b) >= RunLength(fs, c)
    BY <1>3, <2>2, <2>3
  <2> QED BY <2>4
<1>5. start \in R
  <2>1. S # {} /\ S \subseteq R /\ S \in SUBSET Nat
    BY <1>3, <1>4
  <2>2. Min(S) \in S
    <3> HIDE DEF S
    <3> QED BY <2>1, LeastNumber
  <2> QED BY <2>1, <2>2
<1> HIDE DEF start, R, S
<1>6. /\ start \in Nat /\ RunLength(fs, start) \in Nat \ {0}
      /\ \A c \in start .. start + RunLength(fs, start) - 1 : IsFree(fs, c)
  BY <1>3, <1>5
<1>7. /\ length \in Nat /\ length <= max /\ (max > 0 => length > 0)
      /\ length <= RunLength(fs, start)
  <2> DEFINE T == {max, RunLength(fs, start)}
  <2>1. T \in SUBSET Nat /\ T # {} /\ max \in T /\ RunLength(fs, start) \in T
    BY <1>6
  <2>2. Min(T) \in T /\ Min(T) <= max /\ Min(T) <= RunLength(fs, start)
    <3> HIDE DEF T
    <3> QED BY <2>1, LeastNumber
  <2> QED BY <1>6, <2>2
<1>8. FindBestFreeRun(fs, max) = [start |-> start, length |-> length]
  BY DEF FindBestFreeRun, start, S, R
<1> HIDE DEF inPlace, length
<1>9. NextRun(fs, max) = IF inPlace > 0 THEN [start |-> EndOf(fs.n), length |-> inPlace]
                         ELSE [start |-> start, length |-> length]
  BY <1>8 DEF NextRun, inPlace
<1>10. \A b \in start .. start + length - 1 : IsFree(fs, b)
  BY <1>6, <1>7
<1> QED BY <1>1, <1>2, <1>6, <1>7, <1>9, <1>10

(* When no run starts anywhere no block is free.                           *)
LEMMA NoneFree ==
  ASSUME NEW first, NEW end, NEW others, NEW fs, Sound(first, end, others, fs),
         RunStarts(fs) = {}
  PROVE  fs.free = 0
<1>0. SoundFacts(first, end, fs)
  BY SoundFields
<1>1. first \in Nat /\ end \in Nat /\ fs.first = first /\ fs.end = end
  BY <1>0 DEF SoundFacts
<1> DEFINE U == {b \in first .. end - 1 : b \notin fs.dmap}
<1>2. U = {}
  <2> SUFFICES ASSUME U # {} PROVE FALSE
    OBVIOUS
  <2>1. U \in SUBSET Nat
    BY <1>1
  <2> DEFINE u == Min(U)
  <2>2. u \in U /\ \A b \in U : u <= b
    <3> HIDE DEF U
    <3> QED BY <2>1, LeastNumber
  <2> HIDE DEF u
  <2>3. u \in Nat /\ u \in first .. end - 1 /\ IsFree(fs, u)
    BY <1>1, <2>2 DEF IsFree, IsValidDataBlock
  <2>4. ~IsFree(fs, u - 1)
    <3> SUFFICES ASSUME IsFree(fs, u - 1) PROVE FALSE
      OBVIOUS
    <3>1. u - 1 \in U
      BY <1>1 DEF IsFree, IsValidDataBlock
    <3> QED BY <2>2, <2>3, <3>1
  <2> QED BY <1>1, <2>3, <2>4 DEF RunStarts
<1>3. fs.dmap = 0 .. end - 1
  <2>1. 0 .. first - 1 \subseteq fs.dmap /\ fs.dmap \subseteq 0 .. end - 1
    BY <1>0 DEF Sound, SoundFacts
  <2>2. \A b \in 0 .. end - 1 : b \in 0 .. first - 1 \/ b \in first .. end - 1
    BY <1>1
  <2> QED BY <1>2, <2>1, <2>2
<1>4. Cardinality(0 .. end - 1) = end
  <2>1. Cardinality(0 .. end - 1) = IF 0 > end - 1 THEN 0 ELSE end - 1 - 0 + 1
    BY <1>1, FS_Interval
  <2> QED BY <1>1, <2>1
<1>5. fs.free = end - Cardinality(fs.dmap)
  BY DEF Sound
<1> QED BY <1>1, <1>3, <1>4, <1>5

LEMMA Remainder ==
  ASSUME NEW x \in Nat
  PROVE  x % Width \in Nat /\ x % Width <= x /\ (x < Width => x % Width = x)
<1>1. Width \in Nat \ {0}
  BY Sizes1
<1> QED BY <1>1

(* One turn of the loop fails and changes nothing, or takes blocks, but no *)
(* more than are needed.                                                   *)
Turned(first, end, others, fs, needed, r) ==
  \/ /\ r.rc \in {"EFBIG", "ENOSPC"} /\ r = Failed(fs, r.rc)
     /\ r.rc = "ENOSPC" => fs.free < needed - fs.n.blocks
  \/ /\ r.rc = "OK" /\ Sound(first, end, others, r) /\ Grew(fs, r)
     /\ r.n.blocks <= needed
     /\ needed < Width => r.n.blocks > fs.n.blocks

LEMMA OneTurn ==
  ASSUME NEW first, NEW end, NEW others, NEW fs, Sound(first, end, others, fs), fs.rc = "OK",
         NEW needed \in Nat, fs.n.blocks < needed
  PROVE  Turned(first, end, others, fs, needed, GrowOnce(fs, needed))
<1> DEFINE r == GrowOnce(fs, needed)
           x == needed - fs.n.blocks
           max == x % Width
           run == NextRun(fs, max)
<1>0. SoundFacts(first, end, fs)
  BY SoundFields
<1>1. /\ fs.first \in Nat /\ fs.end \in Nat /\ fs.n.store \in Seq(FileExtent)
      /\ fs.n.blocks \in Nat /\ fs.free \in Nat
  BY <1>0 DEF SoundFacts
<1>2. x \in Nat \ {0}
  BY <1>1
<1>3. max \in Nat /\ max <= x /\ (x < Width => max = x)
  <2> HIDE DEF x
  <2> QED BY <1>2, Remainder
<1>4. CASE RunStarts(fs) = {}
  <2>1. r = Failed(fs, "ENOSPC")
    BY <1>4 DEF GrowOnce
  <2>2. Failed(fs, "ENOSPC").rc = "ENOSPC"
    BY SoundFailed DEF Codes
  <2>3. fs.free = 0
    BY <1>4, NoneFree
  <2>4. fs.free < needed - fs.n.blocks
    BY <1>2, <2>3
  <2> QED BY <2>1, <2>2, <2>4 DEF Turned
<1>5. CASE RunStarts(fs) # {}
  <2> HIDE DEF max
  <2>1. /\ run \in [start : Nat, length : Nat] /\ run.length <= max /\ (max > 0 => run.length > 0)
        /\ \A b \in run.start .. run.start + run.length - 1 : IsFree(fs, b)
    BY <1>1, <1>3, <1>5, RunFits
  <2>2. r = AppendExtentRange(fs, run)
    BY <1>5 DEF GrowOnce, max
  <2> HIDE DEF r, run
  <2>3. \/ /\ r.rc \in {"EFBIG", "ENOSPC"} /\ r = Failed(fs, r.rc)
           /\ r.rc = "ENOSPC" => fs.free < run.length
        \/ /\ r.rc = "OK" /\ Sound(first, end, others, r)
           /\ r.n.blocks = fs.n.blocks + run.length /\ Grew(fs, r)
    BY <2>1, <2>2, AppendRun
  <2>4. run.length \in Nat /\ run.length <= needed - fs.n.blocks
    BY <1>1, <1>2, <1>3, <2>1
  <2>5. needed < Width => run.length > 0
    BY <1>1, <1>2, <1>3, <2>1, Sizes1
  <2>6. CASE r.rc = "OK"
    <3>1. Sound(first, end, others, r) /\ r.n.blocks = fs.n.blocks + run.length /\ Grew(fs, r)
      BY <2>3, <2>6
    <3> QED BY <1>1, <2>4, <2>5, <2>6, <3>1 DEF Turned, r
  <2>7. CASE r.rc # "OK"
    <3>1. /\ r.rc \in {"EFBIG", "ENOSPC"} /\ r = Failed(fs, r.rc)
          /\ r.rc = "ENOSPC" => fs.free < run.length
      BY <2>3, <2>7
    <3>2. r.rc = "ENOSPC" => fs.free < needed - fs.n.blocks
      BY <1>1, <2>4, <3>1
    <3> QED BY <3>1, <3>2 DEF Turned, r
  <2> QED BY <2>6, <2>7
<1> QED BY <1>4, <1>5

LEMMA GrewTwice ==
  ASSUME NEW first, NEW end, NEW others, NEW a, NEW b, NEW c, Sound(first, end, others, a),
         Sound(first, end, others, b), Sound(first, end, others, c), Grew(a, b), Grew(b, c)
  PROVE  Grew(a, c)
<1>0. SoundFacts(first, end, a) /\ SoundFacts(first, end, b) /\ SoundFacts(first, end, c)
  BY SoundFields
<1>1. /\ a.n.blocks \in Nat /\ b.n.blocks \in Nat /\ c.n.blocks \in Nat
      /\ DOMAIN a.disk = DOMAIN b.disk
  BY <1>0 DEF SoundFacts
<1>2. /\ c.n.size = a.n.size /\ c.n.sum = a.n.sum /\ c.free + c.n.blocks = a.free + a.n.blocks
      /\ a.dmap \subseteq c.dmap
      /\ \A q \in Seq(FileExtent) : Extends(q, a.n.store) => Extends(q, c.n.store)
  BY DEF Grew
<1>3. a.n.blocks <= c.n.blocks
  BY <1>1 DEF Grew
<1>4. \A x \in a.dmap \cap DOMAIN a.disk : c.disk[x] = a.disk[x]
  BY <1>1 DEF Grew
<1>5. \A i \in 1 .. a.n.blocks : Blks(c.n.store)[i] = Blks(a.n.store)[i]
  <2>1. a.n.blocks <= b.n.blocks
    BY DEF Grew
  <2>2. \A i \in 1 .. a.n.blocks : i \in 1 .. b.n.blocks
    BY <1>1, <2>1
  <2> QED BY <2>2 DEF Grew
<1> QED BY <1>2, <1>3, <1>4, <1>5 DEF Grew

LEMMA GrewFailed ==
  ASSUME NEW first, NEW end, NEW others, NEW a, NEW b, Sound(first, end, others, b),
         Grew(a, b), NEW rc \in Codes
  PROVE  Grew(a, Failed(b, rc))
<1>1. /\ Failed(b, rc).rc = rc /\ Failed(b, rc).n = b.n /\ Failed(b, rc).dmap = b.dmap
      /\ Failed(b, rc).disk = b.disk /\ Failed(b, rc).free = b.free
  BY SoundFailed
<1> QED BY <1>1 DEF Grew

(* After i turns of the loop.                                              *)
GrownTo(first, end, others, fs, needed, i, g) ==
  /\ Sound(first, end, others, g) /\ Grew(fs, g)
  /\ g.rc \in {"OK", "EFBIG", "ENOSPC"}
  /\ g.n.blocks <= needed \/ g.n.blocks = fs.n.blocks
  /\ needed < Width /\ g.rc = "OK" => g.n.blocks >= needed \/ g.n.blocks >= fs.n.blocks + i
  /\ g.rc = "ENOSPC" => needed - fs.n.blocks > fs.free

TurnOf(g, needed) == IF g.rc # "OK" \/ g.n.blocks >= needed THEN g ELSE GrowOnce(g, needed)

LEMMA TurnGrows ==
  ASSUME NEW first, NEW end, NEW others, NEW fs, Sound(first, end, others, fs),
         NEW needed \in Nat, NEW i \in Nat, NEW g, GrownTo(first, end, others, fs, needed, i, g)
  PROVE  GrownTo(first, end, others, fs, needed, i + 1, TurnOf(g, needed))
<1> DEFINE r == TurnOf(g, needed)
<1>0. Sound(first, end, others, g) /\ Grew(fs, g) /\ g.rc \in {"OK", "EFBIG", "ENOSPC"}
  BY DEF GrownTo
<1>1. SoundFacts(first, end, fs) /\ SoundFacts(first, end, g)
  BY <1>0, SoundFields
<1>2. /\ fs.n.blocks \in Nat /\ fs.free \in Nat /\ g.n.blocks \in Nat /\ g.free \in Nat
      /\ fs.n.blocks <= g.n.blocks /\ g.free + g.n.blocks = fs.free + fs.n.blocks
  BY <1>0, <1>1 DEF SoundFacts, Grew
<1>3. CASE g.rc # "OK" \/ g.n.blocks >= needed
  <2>1. r = g
    BY <1>3 DEF TurnOf
  <2> QED BY <1>3, <2>1 DEF GrownTo
<1>4. CASE g.rc = "OK" /\ ~(g.n.blocks >= needed)
  <2>1. g.n.blocks < needed
    BY <1>2, <1>4
  <2>2. r = GrowOnce(g, needed)
    BY <1>4 DEF TurnOf
  <2>3. Turned(first, end, others, g, needed, r)
    BY <1>0, <1>4, <2>1, <2>2, OneTurn
  <2> HIDE DEF r
  <2>4. CASE r.rc = "OK"
    <3>1. /\ Sound(first, end, others, r) /\ Grew(g, r) /\ r.n.blocks <= needed
          /\ needed < Width => r.n.blocks > g.n.blocks
      BY <2>3, <2>4 DEF Turned
    <3>2. Grew(fs, r)
      BY <1>0, <3>1, GrewTwice
    <3>3. needed < Width => g.n.blocks >= fs.n.blocks + i
      BY <1>2, <1>4, <2>1 DEF GrownTo
    <3>4. r.n.blocks \in Nat
      BY <3>1, SoundFields DEF SoundFacts
    <3>5. needed < Width => r.n.blocks >= fs.n.blocks + (i + 1)
      BY <1>2, <3>1, <3>3, <3>4
    <3> QED BY <2>4, <3>1, <3>2, <3>5 DEF GrownTo, r
  <2>5. CASE r.rc # "OK"
    <3>1. /\ r.rc \in {"EFBIG", "ENOSPC"} /\ r = Failed(g, r.rc)
          /\ r.rc = "ENOSPC" => g.free < needed - g.n.blocks
      BY <2>3, <2>5 DEF Turned
    <3>2. r.rc \in Codes
      BY <3>1 DEF Codes
    <3>3. Sound(first, end, others, r) /\ Grew(fs, r) /\ r.n = g.n
      <4> DEFINE rc == r.rc
      <4>1. rc \in Codes /\ r = Failed(g, rc)
        BY <3>1, <3>2
      <4> HIDE DEF rc
      <4>2. /\ Sound(first, end, others, Failed(g, rc)) /\ Failed(g, rc).n = g.n
            /\ Grew(fs, Failed(g, rc))
        BY <1>0, <4>1, SoundFailed, GrewFailed
      <4> QED BY <4>1, <4>2
    <3>4. r.rc = "ENOSPC" => needed - fs.n.blocks > fs.free
      BY <1>2, <3>1
    <3>5. r.n.blocks <= needed
      BY <1>2, <2>1, <3>3
    <3> QED BY <2>5, <3>1, <3>3, <3>4, <3>5 DEF GrownTo, r
  <2> QED BY <2>4, <2>5
<1> QED BY <1>3, <1>4

LEMMA GrownSteps ==
  ASSUME NEW fs, NEW needed, fs.end - fs.first + 1 \in Nat
  PROVE  \E f : /\ f[0] = fs
                /\ \A i \in 1 .. fs.end - fs.first + 1 : f[i] = TurnOf(f[i - 1], needed)
                /\ Grown(fs, needed) = f[fs.end - fs.first + 1]
<1> DEFINE k == fs.end - fs.first + 1
           T == {m \in Nat : \E f :
                   f = [i \in 0 .. m |-> IF i = 0 THEN fs ELSE TurnOf(f[i - 1], needed)]}
<1>0. k \in Nat
  OBVIOUS
<1>1. 0 \in T
  <2> DEFINE g == [i \in 0 .. 0 |-> fs]
  <2>1. g = [i \in 0 .. 0 |-> IF i = 0 THEN fs ELSE TurnOf(g[i - 1], needed)]
    OBVIOUS
  <2> QED BY <2>1
<1>2. ASSUME NEW m \in 0 .. k - 1, m \in T PROVE m + 1 \in T
  <2>1. PICK f : f = [i \in 0 .. m |-> IF i = 0 THEN fs ELSE TurnOf(f[i - 1], needed)]
    BY <1>2
  <2>2. m \in Nat
    OBVIOUS
  <2>3. ASSUME NEW i \in 0 .. m PROVE f[i] = IF i = 0 THEN fs ELSE TurnOf(f[i - 1], needed)
    BY <2>1, Zenon
  <2> DEFINE g == [i \in 0 .. m + 1 |-> IF i <= m THEN f[i] ELSE TurnOf(f[i - 1], needed)]
  <2>4. ASSUME NEW i \in 0 .. m + 1
        PROVE  g[i] = IF i = 0 THEN fs ELSE TurnOf(g[i - 1], needed)
    <3>1. CASE i = 0
      <4>1. 0 \in 0 .. m
        BY <2>2
      <4>2. f[0] = fs
        BY <2>3, <4>1
      <4> QED BY <2>2, <3>1, <4>2
    <3>2. CASE i # 0
      <4>1. i - 1 \in 0 .. m + 1 /\ i - 1 <= m /\ g[i - 1] = f[i - 1]
        BY <3>2
      <4>2. i <= m => f[i] = TurnOf(f[i - 1], needed)
        <5>1. i <= m => i \in 0 .. m
          BY <2>2
        <5> QED BY <2>3, <3>2, <5>1, Zenon
      <4> QED BY <3>2, <4>1, <4>2
    <3> QED BY <3>1, <3>2
  <2>5. g = [i \in 0 .. m + 1 |-> g[i]]
    OBVIOUS
  <2> HIDE DEF g
  <2>6. g = [i \in 0 .. m + 1 |-> IF i = 0 THEN fs ELSE TurnOf(g[i - 1], needed)]
    BY <2>4, <2>5
  <2>7. m + 1 \in Nat
    BY <2>2
  <2> QED BY <2>6, <2>7, Zenon
<1>3. k \in T
  <2>1. k \in 0 .. k
    BY <1>0
  <2> HIDE DEF T, k
  <2> QED BY <1>0, <1>1, <1>2, <2>1, BoundedInduction
<1> DEFINE nth == CHOOSE f : f = [i \in 0 .. k |-> IF i = 0 THEN fs ELSE TurnOf(f[i - 1], needed)]
<1>4. nth = [i \in 0 .. k |-> IF i = 0 THEN fs ELSE TurnOf(nth[i - 1], needed)]
  BY <1>3
<1>5. Grown(fs, needed) = nth[k]
  BY DEF Grown, TurnOf
<1> HIDE DEF nth
<1>6. ASSUME NEW i \in 0 .. k PROVE nth[i] = IF i = 0 THEN fs ELSE TurnOf(nth[i - 1], needed)
  BY <1>4, Zenon
<1>7. nth[0] = fs
  <2>1. 0 \in 0 .. k
    BY <1>0
  <2> QED BY <1>6, <2>1
<1>8. ASSUME NEW i \in 1 .. k PROVE nth[i] = TurnOf(nth[i - 1], needed)
  <2>1. i \in 0 .. k /\ i # 0
    OBVIOUS
  <2> QED BY <1>6, <2>1, Zenon
<1> QED BY <1>5, <1>7, <1>8

(* A file has no more blocks than there are in the data region.            *)
LEMMA FewBlocks ==
  ASSUME NEW first, NEW end, NEW others, NEW fs, Sound(first, end, others, fs)
  PROVE  first <= end /\ fs.n.blocks <= end - first
<1>0. SoundFacts(first, end, fs)
  BY SoundFields
<1>1. first \in Nat /\ end \in Nat /\ first <= end
  <2>1. first \in Nat /\ end \in Nat /\ 0 .. first - 1 \subseteq 0 .. end - 1
    BY DEF Sound
  <2>2. first # 0 => first - 1 \in 0 .. first - 1
    BY <2>1
  <2> QED BY <2>1, <2>2
<1> DEFINE D == first .. end - 1
           s == Blks(fs.n.store)
<1>2. IsFiniteSet(D) /\ Cardinality(D) = end - first
  <2>1. IsFiniteSet(D) /\ Cardinality(D) = IF first > end - 1 THEN 0 ELSE end - 1 - first + 1
    BY <1>1, FS_Interval
  <2> QED BY <1>1, <2>1
<1>3. s \in Seq(D)
  <2>1. s \in Seq(Nat) /\ ToSet(s) \subseteq D
    BY <1>0 DEF Sound, SoundFacts
  <2>2. \A i \in 1 .. Len(s) : s[i] \in D
    BY <2>1 DEF ToSet
  <2>3. Len(s) \in Nat /\ s = [i \in 1 .. Len(s) |-> s[i]]
    BY <2>1
  <2> HIDE DEF s, D
  <2>4. s \in [1 .. Len(s) -> D]
    BY <2>2, <2>3
  <2> QED BY <2>3, <2>4, SeqDef
<1>4. IsInjective(s) /\ fs.n.blocks = Len(s)
  BY DEF Sound
<1>5. Len(s) <= Cardinality(D)
  <2> HIDE DEF D, s
  <2> QED BY <1>2, <1>3, <1>4, QueueLength
<1> QED BY <1>1, <1>2, <1>4, <1>5

(* The loop of ensure_blocks_for_size.  A turn that succeeds takes a block *)
(* at least, so it ends before the turns do, unless the file needs 2^32    *)
(* blocks or more.                                                         *)
LEMMA GrownEnds ==
  ASSUME NEW first, NEW end, NEW others, NEW fs, Sound(first, end, others, fs), fs.rc = "OK",
         NEW needed \in Nat
  PROVE  /\ Sound(first, end, others, Grown(fs, needed)) /\ Grew(fs, Grown(fs, needed))
         /\ Grown(fs, needed).rc \in {"OK", "EFBIG", "ENOSPC"}
         /\ Grown(fs, needed).n.blocks <= needed \/ Grown(fs, needed).n.blocks = fs.n.blocks
         /\ needed < Width /\ Grown(fs, needed).rc = "OK" => Grown(fs, needed).n.blocks >= needed
         /\ Grown(fs, needed).rc = "ENOSPC" => needed - fs.n.blocks > fs.free
<1>0. SoundFacts(first, end, fs)
  BY SoundFields
<1> DEFINE k == fs.end - fs.first + 1
<1>1. /\ fs.n.blocks \in Nat /\ fs.first = first /\ fs.end = end
      /\ first \in Nat /\ end \in Nat /\ first <= end
  BY <1>0, FewBlocks DEF SoundFacts
<1>2. k \in Nat /\ k = end - first + 1
  BY <1>1
<1>3. PICK f : /\ f[0] = fs /\ \A i \in 1 .. k : f[i] = TurnOf(f[i - 1], needed)
               /\ Grown(fs, needed) = f[k]
  BY <1>2, GrownSteps
<1> DEFINE T == {i \in Nat : GrownTo(first, end, others, fs, needed, i, f[i])}
<1>4. 0 \in T
  <2>1. Grew(fs, fs)
    BY <1>0 DEF Grew, SoundFacts
  <2>2. fs.n.blocks >= fs.n.blocks + 0
    BY <1>1
  <2> QED BY <1>3, <2>1, <2>2 DEF GrownTo
<1> HIDE DEF k
<1>5. ASSUME NEW m \in 0 .. k - 1, m \in T PROVE m + 1 \in T
  <2>1. m \in Nat /\ m + 1 \in 1 .. k /\ (m + 1) - 1 = m /\ m + 1 \in Nat
    BY <1>2
  <2>2. f[m + 1] = TurnOf(f[m], needed)
    BY <1>3, <2>1
  <2>3. GrownTo(first, end, others, fs, needed, m, f[m])
    BY <1>5
  <2>4. GrownTo(first, end, others, fs, needed, m + 1, TurnOf(f[m], needed))
    BY <2>1, <2>3, TurnGrows
  <2> QED BY <2>1, <2>2, <2>4
<1>6. k \in T
  <2>1. k \in 0 .. k
    BY <1>2
  <2> HIDE DEF T
  <2> QED BY <1>2, <1>4, <1>5, <2>1, BoundedInduction
<1> DEFINE g == Grown(fs, needed)
<1>7. GrownTo(first, end, others, fs, needed, k, g)
  BY <1>3, <1>6
<1> HIDE DEF g
<1>8. Sound(first, end, others, g)
  BY <1>7 DEF GrownTo
<1>9. needed < Width /\ g.rc = "OK" => g.n.blocks >= needed
  <2>1. g.n.blocks <= end - first /\ g.n.blocks \in Nat
    BY <1>8, FewBlocks, SoundFields DEF SoundFacts
  <2>2. ~(g.n.blocks >= fs.n.blocks + k)
    BY <1>1, <1>2, <2>1
  <2> QED BY <1>7, <2>2 DEF GrownTo
<1> QED BY <1>7, <1>9 DEF GrownTo, g

(* What a call that fails leaves: the inode, the bitmap and the bytes of   *)
(* the blocks in use, as they were.                                        *)
Restores(fs, r) ==
  /\ r.n = fs.n /\ r.dmap = fs.dmap /\ r.free = fs.free
  /\ \A b \in fs.dmap \cap DOMAIN fs.disk : r.disk[b] = fs.disk[b]

(* A file that has grown and gives back what it got is the file it was.    *)
LEMMA GivenBack ==
  ASSUME NEW first, NEW end, NEW others, NEW fs, NEW g, Sound(first, end, others, fs),
         Sound(first, end, others, g), Grew(fs, g)
  PROVE  LET r == FreeLastBlocks(g, g.n.blocks - fs.n.blocks)
         IN  Sound(first, end, others, r) /\ Restores(fs, r)
<1> DEFINE k == g.n.blocks - fs.n.blocks
           r == FreeLastBlocks(g, k)
<1>0. SoundFacts(first, end, fs) /\ SoundFacts(first, end, g)
  BY SoundFields
<1>1. fs.n.blocks \in Nat /\ g.n.blocks \in Nat /\ fs.n.blocks <= g.n.blocks
  BY <1>0 DEF SoundFacts, Grew
<1>2. k \in 0 .. g.n.blocks /\ g.n.blocks - k = fs.n.blocks
  BY <1>1
<1>3. Sound(first, end, others, r) /\ Freed(g, r) /\ r.n.blocks = g.n.blocks - k
  <2> HIDE DEF k
  <2> QED BY <1>2, FreeSome
<1> HIDE DEF r, k
<1>4. r.n.blocks = fs.n.blocks
  BY <1>2, <1>3
<1>5. SoundFacts(first, end, r)
  BY <1>3, SoundFields
<1> DEFINE s == fs.n.store
           t == r.n.store
<1>6. /\ s \in Seq(FileExtent) /\ t \in Seq(FileExtent)
      /\ Len(Blks(s)) = fs.n.blocks /\ Len(Blks(t)) = r.n.blocks
  BY <1>0, <1>5 DEF SoundFacts
<1>7. Extends(s, t)
  <2>1. Extends(s, s)
    BY <1>6, ExtendsItself
  <2>2. Extends(s, g.n.store)
    BY <1>6, <2>1 DEF Grew
  <2>3. Len(Blks(s)) <= r.n.blocks
    BY <1>1, <1>4, <1>6
  <2> QED BY <1>3, <1>6, <2>2, <2>3 DEF Freed
<1>8. s = t
  <2>1. Len(Blks(s)) = Len(Blks(t))
    BY <1>4, <1>6
  <2> HIDE DEF s, t
  <2> QED BY <1>6, <1>7, <2>1, ExtendsBlocks
<1>9. r.n = fs.n
  <2>1. r.n \in BlockInodes /\ fs.n \in BlockInodes
    BY <1>0, <1>5 DEF SoundFacts
  <2>2. /\ r.n = [inline |-> FALSE, blocks |-> r.n.blocks, size |-> r.n.size, sum |-> r.n.sum,
                  store |-> r.n.store]
        /\ fs.n = [inline |-> FALSE, blocks |-> fs.n.blocks, size |-> fs.n.size, sum |-> fs.n.sum,
                   store |-> fs.n.store]
    BY <2>1, BlockInodeFields
  <2>3. r.n.size = fs.n.size /\ r.n.sum = fs.n.sum
    BY <1>3 DEF Freed, Grew
  <2> QED BY <1>4, <1>8, <2>2, <2>3
<1>10. r.dmap = fs.dmap /\ r.free = fs.free
  <2>1. r.dmap = others \cup ToSet(Blks(t)) /\ fs.dmap = others \cup ToSet(Blks(s))
    BY <1>3 DEF Sound
  <2>2. r.free = end - Cardinality(r.dmap) /\ fs.free = end - Cardinality(fs.dmap)
    BY <1>3 DEF Sound
  <2> QED BY <1>8, <2>1, <2>2
<1>11. \A b \in fs.dmap \cap DOMAIN fs.disk : r.disk[b] = fs.disk[b]
  BY <1>3 DEF Freed, Grew
<1> QED BY <1>3, <1>9, <1>10, <1>11 DEF Restores, r, k

(* ensure_blocks_for_size gives the file the blocks it needs, or leaves it *)
(* as it was, or never returns, which takes 2^32 blocks.                   *)
Ensured(first, end, others, fs, needed, r) ==
  /\ Sound(first, end, others, r)
  /\ r.rc \in {"OK", "EFBIG", "ENOSPC", "LOOP"}
  /\ r.rc = "OK" => /\ Grew(fs, r) /\ needed <= r.n.blocks
                    /\ r.n.blocks = needed \/ r.n.blocks = fs.n.blocks
  /\ r.rc = "LOOP" => Grew(fs, r)
  /\ r.rc = "LOOP" => needed >= Width
  /\ r.rc \in {"EFBIG", "ENOSPC"} => Restores(fs, r)
  /\ r.rc = "ENOSPC" => needed - fs.n.blocks > fs.free

LEMMA EnsureBlocks ==
  ASSUME NEW first, NEW end, NEW others, NEW fs, Sound(first, end, others, fs), fs.rc = "OK",
         NEW target \in Nat
  PROVE  Ensured(first, end, others, fs, BlocksFor(target), EnsureBlocksForSize(fs, target))
<1> DEFINE needed == BlocksFor(target)
           g == Grown(fs, needed)
           r == EnsureBlocksForSize(fs, target)
<1>1. needed \in Nat
  BY BlocksForBytes
<1>2. r = RolledBack(fs, g, needed)
  BY DEF EnsureBlocksForSize
<1> HIDE DEF r, needed
<1>3. /\ Sound(first, end, others, g) /\ Grew(fs, g) /\ g.rc \in {"OK", "EFBIG", "ENOSPC"}
      /\ g.n.blocks <= needed \/ g.n.blocks = fs.n.blocks
      /\ needed < Width /\ g.rc = "OK" => g.n.blocks >= needed
      /\ g.rc = "ENOSPC" => needed - fs.n.blocks > fs.free
  BY <1>1, GrownEnds
<1> HIDE DEF g
<1>4. fs.n.blocks \in Nat /\ g.n.blocks \in Nat
  BY <1>3, SoundFields DEF SoundFacts
<1>5. CASE g.rc # "OK"
  <2> DEFINE x == FreeLastBlocks(g, g.n.blocks - fs.n.blocks)
             rc == g.rc
  <2>1. r = Failed(x, rc)
    BY <1>2, <1>5 DEF RolledBack
  <2>2. Sound(first, end, others, x) /\ Restores(fs, x)
    BY <1>3, GivenBack
  <2>3. rc \in {"EFBIG", "ENOSPC"} /\ rc \in Codes
    BY <1>3, <1>5 DEF Codes
  <2> HIDE DEF x, rc
  <2>4. /\ Sound(first, end, others, r) /\ r.rc = rc /\ r.n = x.n /\ r.dmap = x.dmap
        /\ r.disk = x.disk /\ r.free = x.free
    BY <2>1, <2>2, <2>3, SoundFailed
  <2>5. Restores(fs, r)
    BY <2>2, <2>4 DEF Restores
  <2>6. rc = "ENOSPC" => needed - fs.n.blocks > fs.free
    BY <1>3 DEF rc
  <2> QED BY <2>3, <2>4, <2>5, <2>6 DEF Ensured, r, needed
<1>6. CASE g.rc = "OK" /\ g.n.blocks < needed
  <2>1. r = Failed(g, "LOOP")
    BY <1>2, <1>6 DEF RolledBack
  <2>2. Sound(first, end, others, r) /\ r.rc = "LOOP" /\ Grew(fs, r)
    <3>1. "LOOP" \in Codes
      BY DEF Codes
    <3> QED BY <1>3, <2>1, <3>1, SoundFailed, GrewFailed
  <2>3. needed >= Width
    BY <1>1, <1>3, <1>4, <1>6, Sizes1
  <2> QED BY <2>2, <2>3 DEF Ensured, r, needed
<1>7. CASE g.rc = "OK" /\ ~(g.n.blocks < needed)
  <2>1. r = g
    BY <1>2, <1>7 DEF RolledBack
  <2>2. needed <= g.n.blocks /\ (g.n.blocks = needed \/ g.n.blocks = fs.n.blocks)
    BY <1>1, <1>3, <1>4, <1>7
  <2> QED BY <1>3, <1>7, <2>1, <2>2 DEF Ensured, r, needed
<1> QED BY <1>5, <1>6, <1>7

-----------------------------------------------------------------------------
(* Bytes, and the calls that fail half way                                 *)

(* The file keeps its size and checksum, and others their bytes; a block   *)
(* the file gets was free.                                                 *)
Keeps(others, fs, r) ==
  /\ r.n.size = fs.n.size /\ r.n.sum = fs.n.sum
  /\ r.free + r.n.blocks = fs.free + fs.n.blocks
  /\ \A b \in others \cap DOMAIN fs.disk : r.disk[b] = fs.disk[b]

LEMMA GrewKeeps ==
  ASSUME NEW first, NEW end, NEW others, NEW fs, NEW r, Sound(first, end, others, fs), Grew(fs, r)
  PROVE  Keeps(others, fs, r)
<1>1. others \subseteq fs.dmap
  BY DEF Sound
<1> QED BY <1>1 DEF Grew, Keeps

LEMMA FreedKeeps ==
  ASSUME NEW others, NEW fs, NEW r, Freed(fs, r)
  PROVE  Keeps(others, fs, r)
  BY DEF Freed, Keeps

(* Bytes go to the blocks of the file and to no other.                     *)
LEMMA PutBytes ==
  ASSUME NEW first, NEW end, NEW others, NEW fs, Sound(first, end, others, fs), fs.rc = "OK",
         NEW P \in SUBSET Nat, NEW bytes \in [P -> Byte], \A p \in P : p \div BlockSize < fs.n.blocks
  PROVE  /\ Sound(first, end, others, Put(fs, bytes)) /\ Keeps(others, fs, Put(fs, bytes))
         /\ Put(fs, bytes).rc = "OK" /\ Put(fs, bytes).n = fs.n
<1> DEFINE r == Put(fs, bytes)
           blks == Blks(fs.n.store)
           at(b, o) == {p \in DOMAIN bytes : p % BlockSize = o /\ blks[p \div BlockSize + 1] = b}
           region == [b \in DOMAIN fs.disk |-> [o \in 0 .. BlockSize - 1 |->
                     IF at(b, o) # {} THEN bytes[Min(at(b, o))] ELSE fs.disk[b][o]]]
<1>0. SoundFacts(first, end, fs)
  BY SoundFields
<1>1. /\ fs.n.blocks = Len(blks) /\ fs.n.blocks \in Nat /\ blks \in Seq(Nat)
      /\ fs.disk \in [first .. end - 1 -> BlockBytes] /\ DOMAIN fs.disk = first .. end - 1
      /\ fs \in States(first, end, BlockInodes)
  BY <1>0 DEF SoundFacts, Sound
<1>2. DOMAIN bytes = P
  OBVIOUS
<1>3. BlocksOf(fs.n) = blks
  BY BlocksOfStore
<1>4. ~ \E p \in DOMAIN bytes : p \div BlockSize >= Len(blks)
  <2> SUFFICES ASSUME NEW p \in P, p \div BlockSize >= Len(blks) PROVE FALSE
    BY <1>2
  <2> DEFINE q == p \div BlockSize
  <2>1. q \in Nat /\ q < fs.n.blocks /\ q >= Len(blks)
    BY DivBlock
  <2> HIDE DEF q, blks
  <2> QED BY <1>1, <2>1
<1>5. r = [fs EXCEPT !.disk = region]
  BY <1>3, <1>4 DEF Put
<1>6. ASSUME NEW b, NEW o, at(b, o) # {} PROVE bytes[Min(at(b, o))] \in Byte
  <2> DEFINE A == at(b, o)
  <2>1. A \in SUBSET Nat /\ A # {} /\ A \subseteq P
    BY <1>2, <1>6
  <2> HIDE DEF A
  <2>2. Min(A) \in P
    BY <2>1, LeastNumber
  <2> QED BY <2>2 DEF A
<1>7. region \in [first .. end - 1 -> BlockBytes]
  <2> HIDE DEF at
  <2>1. ASSUME NEW b \in first .. end - 1, NEW o \in 0 .. BlockSize - 1
        PROVE  (IF at(b, o) # {} THEN bytes[Min(at(b, o))] ELSE fs.disk[b][o]) \in Byte
    BY <1>1, <1>6 DEF BlockBytes
  <2>2. ASSUME NEW b \in first .. end - 1
        PROVE  [o \in 0 .. BlockSize - 1 |->
                  IF at(b, o) # {} THEN bytes[Min(at(b, o))] ELSE fs.disk[b][o]] \in BlockBytes
    BY <2>1 DEF BlockBytes
  <2> QED BY <1>1, <2>2
<1>8. ASSUME NEW b \in others \cap DOMAIN fs.disk PROVE region[b] = fs.disk[b]
  <2>1. b \notin ToSet(blks)
    BY DEF Sound
  <2>2. ASSUME NEW o PROVE at(b, o) = {}
    <3> SUFFICES ASSUME NEW p \in P, blks[p \div BlockSize + 1] = b PROVE FALSE
      BY <1>2
    <3>1. p \div BlockSize \in Nat /\ p \div BlockSize < Len(blks)
      BY <1>1, DivBlock
    <3>2. p \div BlockSize + 1 \in DOMAIN blks
      BY <1>1, <3>1
    <3> QED BY <2>1, <3>2 DEF ToSet
  <2> HIDE DEF at
  <2>3. fs.disk[b] \in BlockBytes
    BY <1>1
  <2>4. region[b] = [o \in 0 .. BlockSize - 1 |-> fs.disk[b][o]]
    BY <2>2
  <2> QED BY <2>3, <2>4 DEF BlockBytes
<1> HIDE DEF r, region, at
<1>9. /\ r \in States(first, end, BlockInodes) /\ r.n = fs.n /\ r.dmap = fs.dmap
      /\ r.free = fs.free /\ r.rc = "OK" /\ r.disk = region
  <2>1. r \in States(first, end, BlockInodes)
    BY <1>1, <1>5, <1>7 DEF States
  <2>2. r.n = fs.n /\ r.dmap = fs.dmap /\ r.free = fs.free /\ r.rc = fs.rc /\ r.disk = region
    BY <1>1, <1>5 DEF States
  <2> QED BY <2>1, <2>2
<1>10. Sound(first, end, others, r)
  BY <1>9 DEF Sound
<1>11. Keeps(others, fs, r)
  BY <1>8, <1>9 DEF Keeps
<1> QED BY <1>9, <1>10, <1>11 DEF r

LEMMA ZeroRange ==
  ASSUME NEW first, NEW end, NEW others, NEW fs, Sound(first, end, others, fs), fs.rc = "OK",
         NEW from \in Nat, NEW to \in Nat, to <= fs.n.blocks * BlockSize
  PROVE  LET r == ZeroExtentRange(fs, from, to)
         IN  Sound(first, end, others, r) /\ Keeps(others, fs, r) /\ r.rc = "OK" /\ r.n = fs.n
<1> DEFINE P == from .. to - 1
           bytes == [p \in P |-> 0]
           r == ZeroExtentRange(fs, from, to)
<1>1. P \in SUBSET Nat /\ bytes \in [P -> Byte]
  BY DEF Byte
<1>2. fs.n.blocks \in Nat
  BY SoundFields DEF SoundFacts
<1>3. ASSUME NEW p \in P PROVE p \div BlockSize < fs.n.blocks
  <2>1. fs.n.blocks * BlockSize \in Nat
    BY <1>2, Sizes1
  <2>2. p \in Nat /\ p < fs.n.blocks * BlockSize
    BY <2>1
  <2> HIDE DEF P
  <2> QED BY <1>2, <2>2, PositionInBlocks
<1>4. r = Put(fs, bytes)
  BY DEF ZeroExtentRange
<1> HIDE DEF P, bytes
<1>5. /\ Sound(first, end, others, Put(fs, bytes)) /\ Keeps(others, fs, Put(fs, bytes))
      /\ Put(fs, bytes).rc = "OK" /\ Put(fs, bytes).n = fs.n
  BY <1>1, <1>3, PutBytes
<1> QED BY <1>4, <1>5

(* The byte at a position of a file, wherever the file keeps it.           *)
ByteAt(region, n, p) ==
  IF n.inline THEN n.store[p] ELSE region[MapBlock(n, p \div BlockSize)][p % BlockSize]
Reads(fs, p) == ByteAt(fs.disk, fs.n, p)

LEMMA ReadsBlock ==
  ASSUME NEW first, NEW end, NEW others, NEW fs, Sound(first, end, others, fs),
         NEW p \in Nat, p \div BlockSize < fs.n.blocks
  PROVE  LET i == p \div BlockSize + 1
             b == Blks(fs.n.store)[i]
         IN  /\ i \in 1 .. fs.n.blocks /\ i \in DOMAIN Blks(fs.n.store)
             /\ b \in first .. end - 1 /\ b \in fs.dmap /\ b \in DOMAIN fs.disk
             /\ Reads(fs, p) = fs.disk[b][p % BlockSize]
<1> DEFINE blks == Blks(fs.n.store)
           i == p \div BlockSize + 1
           b == blks[i]
<1>0. SoundFacts(first, end, fs)
  BY SoundFields
<1>1. /\ blks \in Seq(Nat) /\ fs.n.blocks = Len(blks) /\ fs.n.inline = FALSE
      /\ DOMAIN fs.disk = first .. end - 1
  BY <1>0 DEF SoundFacts
<1>2. i \in 1 .. fs.n.blocks /\ i \in DOMAIN blks
  <2> DEFINE d == p \div BlockSize
  <2>1. d \in Nat /\ d < fs.n.blocks
    BY DivBlock
  <2>2. i = d + 1
    OBVIOUS
  <2> HIDE DEF d, i, blks
  <2> QED BY <1>1, <2>1, <2>2
<1>3. b \in first .. end - 1 /\ b \in fs.dmap
  <2>1. b \in ToSet(blks)
    <3> HIDE DEF i, blks
    <3> QED BY <1>2 DEF ToSet, b
  <2> QED BY <2>1 DEF Sound
<1>4. Reads(fs, p) = fs.disk[b][p % BlockSize]
  BY <1>1, BlocksOfStore DEF Reads, ByteAt, MapBlock
<1> QED BY <1>1, <1>2, <1>3, <1>4

(* A file that grows, and one that gives back its last blocks, keeps the   *)
(* bytes of its other blocks.                                              *)
LEMMA GrewReads ==
  ASSUME NEW first, NEW end, NEW others, NEW fs, NEW r, Sound(first, end, others, fs),
         Sound(first, end, others, r), Grew(fs, r), NEW p \in Nat, p \div BlockSize < fs.n.blocks
  PROVE  Reads(r, p) = Reads(fs, p)
<1> DEFINE i == p \div BlockSize + 1
           b == Blks(fs.n.store)[i]
           o == p % BlockSize
           d == p \div BlockSize
<1>1. /\ i \in 1 .. fs.n.blocks /\ b \in fs.dmap /\ b \in DOMAIN fs.disk
      /\ Reads(fs, p) = fs.disk[b][o]
  BY ReadsBlock
<1>2. d \in Nat /\ fs.n.blocks \in Nat /\ r.n.blocks \in Nat /\ fs.n.blocks <= r.n.blocks
  BY DivBlock, SoundFields DEF SoundFacts, Grew
<1>3. d < r.n.blocks
  <2>1. d < fs.n.blocks
    OBVIOUS
  <2> HIDE DEF d
  <2> QED BY <1>2, <2>1
<1>4. Reads(r, p) = r.disk[Blks(r.n.store)[i]][o]
  BY <1>3, ReadsBlock
<1> HIDE DEF i, o
<1>5. Blks(r.n.store)[i] = b /\ r.disk[b] = fs.disk[b]
  BY <1>1 DEF Grew
<1> QED BY <1>1, <1>4, <1>5

LEMMA FreedReads ==
  ASSUME NEW first, NEW end, NEW others, NEW fs, NEW r, Sound(first, end, others, fs),
         Sound(first, end, others, r), Freed(fs, r), r.n.blocks <= fs.n.blocks,
         NEW p \in Nat, p \div BlockSize < r.n.blocks
  PROVE  Reads(r, p) = Reads(fs, p)
<1> DEFINE i == p \div BlockSize + 1
           b == Blks(fs.n.store)[i]
           o == p % BlockSize
           d == p \div BlockSize
<1>1. i \in 1 .. r.n.blocks /\ Reads(r, p) = r.disk[Blks(r.n.store)[i]][o]
  BY ReadsBlock
<1>2. d \in Nat /\ fs.n.blocks \in Nat /\ r.n.blocks \in Nat
  BY DivBlock, SoundFields DEF SoundFacts
<1>3. d < fs.n.blocks
  <2>1. d < r.n.blocks
    OBVIOUS
  <2> HIDE DEF d
  <2> QED BY <1>2, <2>1
<1>4. Reads(fs, p) = fs.disk[b][o]
  BY <1>3, ReadsBlock
<1> HIDE DEF i, o
<1>5. Blks(r.n.store)[i] = b /\ r.disk = fs.disk
  BY <1>1 DEF Freed
<1> QED BY <1>1, <1>4, <1>5

(* Put changes the bytes at its positions and no other byte of the file.   *)
LEMMA PutReads ==
  ASSUME NEW first, NEW end, NEW others, NEW fs, Sound(first, end, others, fs), fs.rc = "OK",
         NEW P \in SUBSET Nat, NEW bytes \in [P -> Byte], \A p \in P : p \div BlockSize < fs.n.blocks,
         NEW p \in Nat, p \div BlockSize < fs.n.blocks
  PROVE  Reads(Put(fs, bytes), p) = IF p \in P THEN bytes[p] ELSE Reads(fs, p)
<1> DEFINE r == Put(fs, bytes)
           blks == Blks(fs.n.store)
           at(b, o) == {q \in DOMAIN bytes : q % BlockSize = o /\ blks[q \div BlockSize + 1] = b}
           region == [b \in DOMAIN fs.disk |-> [o \in 0 .. BlockSize - 1 |->
                     IF at(b, o) # {} THEN bytes[Min(at(b, o))] ELSE fs.disk[b][o]]]
           i == p \div BlockSize + 1
           e == blks[i]
           x == p % BlockSize
<1>0. SoundFacts(first, end, fs)
  BY SoundFields
<1>1. /\ fs.n.blocks = Len(blks) /\ fs.n.blocks \in Nat /\ blks \in Seq(Nat)
      /\ fs \in States(first, end, BlockInodes) /\ IsInjective(blks)
  BY <1>0 DEF SoundFacts, Sound
<1>2. DOMAIN bytes = P
  OBVIOUS
<1>3. BlocksOf(fs.n) = blks
  BY BlocksOfStore
<1>4. ~ \E q \in DOMAIN bytes : q \div BlockSize >= Len(blks)
  <2> SUFFICES ASSUME NEW q \in P, q \div BlockSize >= Len(blks) PROVE FALSE
    BY <1>2
  <2> DEFINE d == q \div BlockSize
  <2>1. d \in Nat /\ d < fs.n.blocks /\ d >= Len(blks)
    BY DivBlock
  <2> HIDE DEF d, blks
  <2> QED BY <1>1, <2>1
<1>5. r = [fs EXCEPT !.disk = region]
  BY <1>3, <1>4 DEF Put
<1>6. r.disk = region /\ r.n = fs.n /\ r.n.blocks = fs.n.blocks
  <2> HIDE DEF region, r
  <2> QED BY <1>1, <1>5 DEF States
<1>7. Sound(first, end, others, r)
  BY PutBytes
<1>8. i \in DOMAIN blks /\ e \in DOMAIN fs.disk /\ Reads(fs, p) = fs.disk[e][x]
  BY ReadsBlock
<1>9. Reads(r, p) = region[e][x]
  <2> HIDE DEF region, r
  <2>1. Reads(r, p) = r.disk[Blks(r.n.store)[i]][x]
    BY <1>6, <1>7, ReadsBlock
  <2> QED BY <1>6, <2>1
<1>10. x \in 0 .. BlockSize - 1
  BY DivBlock
<1> HIDE DEF r
<1>11. region[e][x] = IF at(e, x) # {} THEN bytes[Min(at(e, x))] ELSE fs.disk[e][x]
  <2> HIDE DEF at, e, x
  <2> QED BY <1>8, <1>10
<1>12. at(e, x) = {p} \cap P
  <2>1. ASSUME NEW q \in P, q % BlockSize = x, blks[q \div BlockSize + 1] = e
        PROVE  q = p
    <3> DEFINE d == q \div BlockSize
               c == p \div BlockSize
    <3>1. d \in Nat /\ d < fs.n.blocks /\ c \in Nat
      BY DivBlock
    <3>2. d + 1 \in DOMAIN blks /\ c + 1 \in DOMAIN blks /\ blks[d + 1] = blks[c + 1]
      <4>1. blks[d + 1] = blks[c + 1] /\ c + 1 \in DOMAIN blks
        BY <1>8, <2>1
      <4> HIDE DEF d, c, blks
      <4> QED BY <1>1, <3>1, <4>1
    <3>3. d = c
      <4> HIDE DEF d, c, blks
      <4>1. d + 1 = c + 1
        BY <1>1, <3>2 DEF IsInjective
      <4> QED BY <3>1, <4>1
    <3>4. /\ q = BlockSize * d + (q % BlockSize) /\ p = BlockSize * c + (p % BlockSize)
      BY DivBlock
    <3>5. q % BlockSize = p % BlockSize
      BY <2>1
    <3> HIDE DEF d, c
    <3> QED BY <3>3, <3>4, <3>5
  <2>2. p \in P => p \in at(e, x)
    BY <1>2
  <2>3. at(e, x) \subseteq P
    BY <1>2
  <2>4. \A q \in at(e, x) : q % BlockSize = x /\ blks[q \div BlockSize + 1] = e
    OBVIOUS
  <2> HIDE DEF at
  <2>5. \A q \in at(e, x) : q = p
    BY <2>1, <2>3, <2>4
  <2> QED BY <2>2, <2>3, <2>5
<1> HIDE DEF at, region, e, x
<1>13. CASE p \in P
  <2> DEFINE T == {p}
  <2>1. at(e, x) = T /\ T # {} /\ T \in SUBSET Nat
    BY <1>12, <1>13
  <2>2. Min(T) \in T
    <3> HIDE DEF T
    <3> QED BY <2>1, LeastNumber
  <2>3. Min(T) = p
    BY <2>2
  <2> HIDE DEF T
  <2> QED BY <1>9, <1>11, <1>13, <2>1, <2>3 DEF r
<1>14. CASE p \notin P
  <2>1. at(e, x) = {}
    BY <1>12, <1>14
  <2> QED BY <1>8, <1>9, <1>11, <1>14, <2>1 DEF r
<1> QED BY <1>13, <1>14

LEMMA ZeroReads ==
  ASSUME NEW first, NEW end, NEW others, NEW fs, Sound(first, end, others, fs), fs.rc = "OK",
         NEW from \in Nat, NEW to \in Nat, to <= fs.n.blocks * BlockSize,
         NEW p \in Nat, p \div BlockSize < fs.n.blocks
  PROVE  Reads(ZeroExtentRange(fs, from, to), p) = IF p \in from .. to - 1 THEN 0 ELSE Reads(fs, p)
<1> DEFINE P == from .. to - 1
           bytes == [q \in P |-> 0]
           r == ZeroExtentRange(fs, from, to)
<1>1. P \in SUBSET Nat /\ bytes \in [P -> Byte] /\ (p \in P => bytes[p] = 0)
  BY DEF Byte
<1>2. fs.n.blocks \in Nat
  BY SoundFields DEF SoundFacts
<1>3. ASSUME NEW q \in P PROVE q \div BlockSize < fs.n.blocks
  <2>1. fs.n.blocks * BlockSize \in Nat
    BY <1>2, Sizes1
  <2>2. q \in Nat /\ q < fs.n.blocks * BlockSize
    BY <2>1
  <2> HIDE DEF P
  <2> QED BY <1>2, <2>2, PositionInBlocks
<1>4. r = Put(fs, bytes)
  BY DEF ZeroExtentRange
<1> HIDE DEF P, bytes, r
<1>5. Reads(Put(fs, bytes), p) = IF p \in P THEN bytes[p] ELSE Reads(fs, p)
  BY <1>1, <1>3, PutReads
<1>6. p \in P <=> p \in from .. to - 1
  BY DEF P
<1> QED BY <1>1, <1>4, <1>5, <1>6 DEF r

LEMMA KeepsTwice ==
  ASSUME NEW others, NEW a, NEW b, NEW c, DOMAIN a.disk = DOMAIN b.disk,
         Keeps(others, a, b), Keeps(others, b, c)
  PROVE  Keeps(others, a, c)
  BY DEF Keeps

(* shrink_to_size.                                                         *)
LEMMA Shrunk ==
  ASSUME NEW first, NEW end, NEW others, NEW fs, Sound(first, end, others, fs), fs.rc = "OK",
         NEW target \in Nat, BlocksFor(target) <= fs.n.blocks
  PROVE  LET r == ShrinkToSize(fs, target)
         IN  /\ Sound(first, end, others, r) /\ Keeps(others, fs, r) /\ r.rc = "OK"
             /\ r.n.blocks = BlocksFor(target)
             /\ \A p \in Nat : p < target => Reads(r, p) = Reads(fs, p)
<1> DEFINE m == BlocksFor(target)
           k == Max({fs.n.blocks - m, 0})
           x == FreeLastBlocks(fs, k)
           r == ShrinkToSize(fs, target)
<1>1. m \in Nat /\ target <= m * BlockSize /\ m * BlockSize \in Nat
  <2>1. m \in Nat /\ target <= m * BlockSize
    BY BlocksForBytes
  <2> HIDE DEF m
  <2> QED BY <2>1, Sizes1
<1>2. SoundFacts(first, end, fs)
  BY SoundFields
<1>3. fs.n.blocks \in Nat /\ m <= fs.n.blocks
  BY <1>2 DEF SoundFacts
<1>4. r = ZeroExtentRange(x, target, m * BlockSize)
  BY DEF ShrinkToSize
<1> HIDE DEF m, r
<1>5. k = fs.n.blocks - m
  <2> DEFINE T == {fs.n.blocks - m, 0}
             d == fs.n.blocks - m
  <2>1. T # {} /\ d \in Nat /\ d \in T /\ \A t \in T : t \in Int /\ t <= d
    BY <1>1, <1>3
  <2>2. Max(T) \in T /\ \A t \in T : t <= Max(T)
    <3> HIDE DEF T
    <3> QED BY <2>1, GreatestNumber
  <2> QED BY <2>1, <2>2
<1> HIDE DEF k
<1>6. k \in 0 .. fs.n.blocks /\ fs.n.blocks - k = m
  BY <1>1, <1>3, <1>5
<1>7. Sound(first, end, others, x) /\ Freed(fs, x) /\ x.n.blocks = m
  BY <1>6, FreeSome
<1> HIDE DEF x
<1>8. Keeps(others, fs, x) /\ x.rc = "OK"
  BY <1>7, FreedKeeps DEF Freed
<1>9. /\ Sound(first, end, others, r) /\ Keeps(others, x, r) /\ r.rc = "OK" /\ r.n = x.n
  <2> DEFINE to == m * BlockSize
  <2>1. to \in Nat /\ to <= x.n.blocks * BlockSize
    BY <1>1, <1>7
  <2>2. r = ZeroExtentRange(x, target, to)
    BY <1>4
  <2> HIDE DEF to
  <2> DEFINE z == ZeroExtentRange(x, target, to)
  <2>3. Sound(first, end, others, z) /\ Keeps(others, x, z) /\ z.rc = "OK" /\ z.n = x.n
    BY <1>7, <1>8, <2>1, ZeroRange
  <2> QED BY <2>2, <2>3
<1>10. DOMAIN fs.disk = DOMAIN x.disk
  BY <1>7 DEF Freed
<1>11. Keeps(others, fs, r)
  BY <1>8, <1>9, <1>10, KeepsTwice
<1>12. ASSUME NEW p \in Nat, p < target PROVE Reads(r, p) = Reads(fs, p)
  <2> DEFINE to == m * BlockSize
  <2>1. p \div BlockSize < x.n.blocks
    BY <1>7, <1>12, PositionInFile DEF m
  <2>2. Reads(x, p) = Reads(fs, p)
    BY <1>3, <1>7, <2>1, FreedReads
  <2>3. to \in Nat /\ to <= x.n.blocks * BlockSize /\ p \notin target .. to - 1
    BY <1>1, <1>7, <1>12
  <2>4. r = ZeroExtentRange(x, target, to)
    BY <1>4
  <2> HIDE DEF to
  <2>5. Reads(ZeroExtentRange(x, target, to), p) =
          IF p \in target .. to - 1 THEN 0 ELSE Reads(x, p)
    BY <1>7, <1>8, <2>1, <2>3, ZeroReads
  <2> QED BY <2>2, <2>3, <2>4, <2>5
<1> QED BY <1>7, <1>9, <1>11, <1>12 DEF r, m

(* A file that is inline has no block.                                     *)
Flat(first, end, others, fs) ==
  /\ fs \in States(first, end, InlineInodes)
  /\ first \in Nat /\ end \in Nat /\ 0 .. first - 1 \subseteq others /\ others \subseteq 0 .. end - 1
  /\ fs.dmap = others /\ fs.free = end - Cardinality(others)

FlatFacts(first, end, others, fs) ==
  /\ first \in Nat /\ end \in Nat /\ fs.first = first /\ fs.end = end
  /\ fs.free \in Nat /\ fs.dmap = others
  /\ fs.disk \in [first .. end - 1 -> BlockBytes] /\ DOMAIN fs.disk = first .. end - 1
  /\ fs.n \in InlineInodes /\ fs.rc \in Codes
  /\ fs.n.inline = TRUE /\ fs.n.blocks = 0 /\ fs.n.size \in Nat /\ fs.n.size <= InlineSize
  /\ fs.n.sum \in Sums /\ fs.n.store \in [0 .. InlineSize - 1 -> Byte]
LEMMA FlatFields ==
  ASSUME NEW first, NEW end, NEW others, NEW fs, Flat(first, end, others, fs)
  PROVE  FlatFacts(first, end, others, fs)
<1>1. fs \in States(first, end, InlineInodes)
  BY DEF Flat
<1>2. /\ fs.first = first /\ fs.end = end /\ fs.free \in Nat
      /\ fs.disk \in [first .. end - 1 -> BlockBytes] /\ fs.n \in InlineInodes /\ fs.rc \in Codes
  BY <1>1, StateFields
<1>3. /\ fs.n.inline = TRUE /\ fs.n.blocks = 0 /\ fs.n.size \in 0 .. InlineSize
      /\ fs.n.sum \in Sums /\ fs.n.store \in [0 .. InlineSize - 1 -> Byte]
  BY <1>2 DEF InlineInodes
<1>4. fs.n.size \in Nat /\ fs.n.size <= InlineSize
  BY <1>3, Sizes1
<1> QED BY <1>2, <1>3, <1>4 DEF Flat, FlatFacts

(* The inode convert_inline_to_extents begins with: no extent, no block.   *)
LEMMA Emptied ==
  ASSUME NEW first, NEW end, NEW others, NEW fs, Flat(first, end, others, fs), fs.rc = "OK"
  PROVE  LET x == [fs EXCEPT !.n.inline = FALSE, !.n.store = <<>>]
         IN  /\ Sound(first, end, others, x) /\ x.rc = "OK" /\ x.n.blocks = 0
             /\ x.n.size = fs.n.size /\ x.n.sum = fs.n.sum
             /\ x.dmap = fs.dmap /\ x.disk = fs.disk /\ x.free = fs.free
<1> DEFINE x == [fs EXCEPT !.n.inline = FALSE, !.n.store = <<>>]
           m == [inline |-> FALSE, blocks |-> 0, size |-> fs.n.size, sum |-> fs.n.sum, store |-> <<>>]
<1>0. FlatFacts(first, end, others, fs)
  BY FlatFields
<1>1. /\ fs.n \in InlineInodes /\ fs.n.inline = TRUE /\ fs.n.blocks = 0
      /\ fs.n.size \in Nat /\ fs.n.sum \in Sums /\ fs.dmap = others
  BY <1>0 DEF FlatFacts
<1>2. fs \in States(first, end, InlineInodes)
  BY DEF Flat
<1>3. x.n = [fs.n EXCEPT !.inline = FALSE, !.store = <<>>]
  BY <1>2 DEF States
<1>4. x.n = m
  <2> HIDE DEF x
  <2>1. /\ x.n.inline = FALSE /\ x.n.blocks = 0 /\ x.n.size = fs.n.size /\ x.n.sum = fs.n.sum
        /\ x.n.store = <<>>
    BY <1>1, <1>3 DEF InlineInodes
  <2>2. x.n \in [inline : {FALSE}, blocks : {0}, size : {fs.n.size}, sum : {fs.n.sum},
                 store : {<<>>}]
    BY <1>1, <1>3 DEF InlineInodes
  <2> QED BY <2>2
<1>5. m \in BlockInodes /\ m.store = <<>> /\ m.blocks = 0 /\ m.size = fs.n.size /\ m.sum = fs.n.sum
  <2>1. <<>> \in Seq(FileExtent)
    BY EmptySeq
  <2> QED BY <1>1, <2>1 DEF BlockInodes
<1> HIDE DEF m
<1>6. x.rc = fs.rc /\ x.dmap = fs.dmap /\ x.disk = fs.disk /\ x.free = fs.free
  BY <1>2 DEF States
<1>7. x = [fs EXCEPT !.n = m]
  <2>1. x = [fs EXCEPT !.n = x.n]
    BY <1>2 DEF States
  <2> HIDE DEF x
  <2> QED BY <1>4, <2>1
<1> HIDE DEF x
<1>8. x \in States(first, end, BlockInodes)
  BY <1>2, <1>5, <1>7 DEF States
<1>9. /\ Blks(<<>>) \in Seq(Nat) /\ Len(Blks(<<>>)) = 0 /\ Blks(<<>>) = <<>>
  <2>1. \A s \in Seq(FileExtent) : Blks(s) \in Seq(Nat) /\ (s = <<>> => Blks(s) = <<>>)
    BY BlksLast
  <2> DEFINE e == <<>>
  <2>2. e \in Seq(FileExtent) /\ e = <<>>
    BY EmptySeq
  <2> HIDE DEF e
  <2>3. Blks(e) \in Seq(Nat) /\ Blks(e) = <<>>
    BY <2>1, <2>2
  <2>4. Len(<<>>) = 0 /\ Blks(<<>>) = Blks(e)
    BY <2>2
  <2> QED BY <2>3, <2>4
<1>10. ToSet(Blks(<<>>)) = {} /\ IsInjective(Blks(<<>>))
  BY <1>9, QueueEmpty
<1>11. Sound(first, end, others, x)
  BY <1>1, <1>4, <1>5, <1>6, <1>8, <1>9, <1>10 DEF Sound, Flat
<1> QED BY <1>4, <1>5, <1>6, <1>11 DEF x

(* convert_inline_to_extents: the file gets blocks and keeps its bytes, or *)
(* is the inline file it was.  One block is enough, so the loop ends.      *)
Converted(first, end, others, fs, r) ==
  /\ r.rc \in {"OK", "EFBIG", "ENOSPC"}
  /\ r.rc = "OK" => /\ Sound(first, end, others, r) /\ Keeps(others, fs, r)
                    /\ r.n.blocks = BlocksFor(fs.n.size)
                    /\ \A p \in Nat : p < fs.n.size => Reads(r, p) = Reads(fs, p)
  /\ r.rc \in {"EFBIG", "ENOSPC"} => Flat(first, end, others, r) /\ Restores(fs, r)
  /\ r.rc = "ENOSPC" => BlocksFor(fs.n.size) > fs.free

LEMMA Convert ==
  ASSUME NEW first, NEW end, NEW others, NEW fs, Flat(first, end, others, fs), fs.rc = "OK"
  PROVE  Converted(first, end, others, fs, ConvertInlineToExtents(fs))
<1> DEFINE r == ConvertInlineToExtents(fs)
           x == [fs EXCEPT !.n.inline = FALSE, !.n.store = <<>>]
           size == fs.n.size
           needed == BlocksFor(size)
           y == EnsureBlocksForSize(x, size)
           P == 0 .. size - 1
           bytes == [p \in P |-> fs.n.store[p]]
           z == Put(y, bytes)
<1>0. FlatFacts(first, end, others, fs)
  BY FlatFields
<1>1. /\ fs.n.inline = TRUE /\ fs.n.blocks = 0 /\ size \in Nat /\ size <= InlineSize
      /\ fs.n.sum \in Sums /\ fs.n.store \in [0 .. InlineSize - 1 -> Byte] /\ fs.dmap = others
      /\ fs.free \in Nat /\ DOMAIN fs.disk = first .. end - 1 /\ InlineSize \in Nat
  BY <1>0, Sizes1 DEF FlatFacts
<1>2. r = Restored(fs, z)
  BY <1>1 DEF ConvertInlineToExtents
<1>3. /\ Sound(first, end, others, x) /\ x.rc = "OK" /\ x.n.blocks = 0
      /\ x.n.size = fs.n.size /\ x.n.sum = fs.n.sum
      /\ x.dmap = fs.dmap /\ x.disk = fs.disk /\ x.free = fs.free
  BY Emptied, ZenonT(60)
<1>4. needed \in Nat
  BY <1>1, BlocksForBytes
<1> HIDE DEF x, r
<1>5. Ensured(first, end, others, x, needed, y)
  BY <1>1, <1>3, EnsureBlocks
<1>6. bytes \in [P -> Byte] /\ P \in SUBSET Nat
  BY <1>1
<1>11. \A p \in P : p \div BlockSize < needed
  BY <1>1, PositionInFile
<1> HIDE DEF y, bytes, P
<1>7. y.rc \in {"OK", "EFBIG", "ENOSPC", "LOOP"} /\ Sound(first, end, others, y)
  BY <1>5 DEF Ensured
<1>8. CASE y.rc = "OK"
  <2>1. Grew(x, y) /\ y.n.blocks = needed
    <3>1. Grew(x, y) /\ needed <= y.n.blocks /\ (y.n.blocks = needed \/ y.n.blocks = 0)
      BY <1>3, <1>5, <1>8 DEF Ensured
    <3> QED BY <1>4, <3>1
  <2>2. \A p \in P : p \div BlockSize < y.n.blocks
    BY <1>11, <2>1
  <2>3. Sound(first, end, others, z) /\ Keeps(others, y, z) /\ z.rc = "OK" /\ z.n = y.n
    BY <1>6, <1>7, <1>8, <2>2, PutBytes
  <2> HIDE DEF z
  <2>4. r = z
    BY <1>2, <2>3 DEF Restored
  <2>5. Keeps(others, x, z)
    <3>1. Keeps(others, x, y)
      BY <1>3, <2>1, GrewKeeps
    <3>2. DOMAIN x.disk = DOMAIN y.disk
      <4>1. SoundFacts(first, end, x) /\ SoundFacts(first, end, y)
        BY <1>3, <1>7, SoundFields
      <4> QED BY <4>1 DEF SoundFacts
    <3> QED BY <2>3, <3>1, <3>2, KeepsTwice
  <2>6. Keeps(others, fs, z)
    BY <1>1, <1>3, <2>5 DEF Keeps
  <2>7. ASSUME NEW p \in Nat, p < size PROVE Reads(z, p) = Reads(fs, p)
    <3>1. p \in P /\ p \div BlockSize < y.n.blocks
      <4>1. p \in P
        BY <1>1, <2>7 DEF P
      <4> QED BY <2>2, <4>1
    <3>2. Reads(z, p) = IF p \in P THEN bytes[p] ELSE Reads(y, p)
      BY <1>6, <1>7, <1>8, <2>2, <3>1, PutReads DEF z
    <3>3. bytes[p] = fs.n.store[p]
      BY <3>1 DEF bytes
    <3> QED BY <1>1, <3>1, <3>2, <3>3 DEF Reads, ByteAt
  <2> QED BY <2>1, <2>3, <2>4, <2>6, <2>7 DEF Converted, r
<1>9. CASE y.rc = "LOOP"
  <2>1. needed >= Width
    BY <1>5, <1>9 DEF Ensured
  <2>2. needed <= 1
    <3>1. BlocksFor(0 + BlockSize) = BlocksFor(0) + 1 /\ BlocksFor(0) = 0
      BY Sizes1, BlocksForMore
    <3>2. BlockSize \in Nat /\ size <= BlockSize /\ 0 + BlockSize = BlockSize
      BY <1>1, Sizes1
    <3>3. BlocksFor(size) <= BlocksFor(BlockSize)
      BY <1>1, <3>2, BlocksForMore
    <3> QED BY <3>1, <3>2, <3>3
  <2> QED BY <1>4, <2>1, <2>2, ExtentsAssumption
<1>10. CASE y.rc \in {"EFBIG", "ENOSPC"}
  <2>1. z = y
    BY <1>10 DEF Put
  <2>2. r = [y EXCEPT !.n = fs.n]
    BY <1>2, <1>10, <2>1 DEF Restored
  <2>3. Restores(x, y)
    BY <1>5, <1>10 DEF Ensured
  <2>4. y \in States(first, end, BlockInodes) /\ fs.n \in InlineInodes
    BY <1>0, <1>7 DEF Sound, FlatFacts
  <2>5. /\ r \in States(first, end, InlineInodes) /\ r.n = fs.n /\ r.dmap = y.dmap
        /\ r.free = y.free /\ r.disk = y.disk /\ r.rc = y.rc
    <3>1. r \in States(first, end, InlineInodes)
      BY <2>2, <2>4 DEF States
    <3>2. r.n = fs.n /\ r.dmap = y.dmap /\ r.free = y.free /\ r.disk = y.disk /\ r.rc = y.rc
      BY <2>2, <2>4 DEF States
    <3> QED BY <3>1, <3>2
  <2>6. Restores(fs, r)
    BY <1>3, <2>3, <2>5 DEF Restores
  <2>7. Flat(first, end, others, r)
    BY <2>5, <2>6 DEF Flat, Restores
  <2>8. r.rc = "ENOSPC" => needed > fs.free
    BY <1>1, <1>3, <1>4, <1>5, <2>5 DEF Ensured
  <2> QED BY <1>10, <2>5, <2>6, <2>7, <2>8 DEF Converted, r
<1> QED BY <1>7, <1>8, <1>9, <1>10

(* shrink_to_size of a file that is inline has nothing to do.              *)
LEMMA ShrinkInline ==
  ASSUME NEW first, NEW end, NEW others, NEW x, Flat(first, end, others, x), x.rc = "OK"
  PROVE  ShrinkToSize(x, 0) = x
<1>0. FlatFacts(first, end, others, x)
  BY FlatFields
<1>1. x.n.blocks = 0 /\ x.disk \in [first .. end - 1 -> BlockBytes] /\ BlocksFor(0) = 0
  BY <1>0, BlocksForMore DEF FlatFacts
<1>2. Max({x.n.blocks - BlocksFor(0), 0}) = 0
  <2> DEFINE T == {x.n.blocks - BlocksFor(0), 0}
  <2>1. T # {} /\ \A t \in T : t \in Int /\ t <= 0 /\ t = 0
    BY <1>1
  <2>2. Max(T) \in T
    <3> HIDE DEF T
    <3> QED BY <2>1, GreatestNumber
  <2> QED BY <2>1, <2>2
<1>3. FreeLastBlocks(x, 0) = x
  <2>1. 0 \in Nat
    OBVIOUS
  <2>2. PICK f : f[0] = x /\ FreeLastBlocks(x, 0) = f[0]
    BY <2>1, FreeLastSteps
  <2> QED BY <2>2
<1> DEFINE bytes == [p \in 0 .. (0 * BlockSize) - 1 |-> 0]
           blks == BlocksOf(x.n)
           at(b, o) == {p \in DOMAIN bytes : p % BlockSize = o /\ blks[p \div BlockSize + 1] = b}
           region == [b \in DOMAIN x.disk |-> [o \in 0 .. BlockSize - 1 |->
                     IF at(b, o) # {} THEN bytes[Min(at(b, o))] ELSE x.disk[b][o]]]
<1>4. ShrinkToSize(x, 0) = Put(x, bytes)
  <2>1. BlocksFor(0) * BlockSize = 0 * BlockSize
    BY <1>1
  <2> QED BY <1>2, <1>3, <2>1 DEF ShrinkToSize, ZeroExtentRange
<1>5. DOMAIN bytes = {}
  BY Sizes1
<1>6. Put(x, bytes) = [x EXCEPT !.disk = region]
  BY <1>5 DEF Put
<1>7. \A b, o : at(b, o) = {}
  BY <1>5
<1> HIDE DEF at
<1>8. region = x.disk
  <2>1. region = [b \in DOMAIN x.disk |-> [o \in 0 .. BlockSize - 1 |-> x.disk[b][o]]]
    BY <1>7
  <2>2. \A b \in DOMAIN x.disk : x.disk[b] = [o \in 0 .. BlockSize - 1 |-> x.disk[b][o]]
    BY <1>1 DEF BlockBytes
  <2> QED BY <1>1, <2>1, <2>2
<1> HIDE DEF region
<1>9. [x EXCEPT !.disk = x.disk] = x
  BY DEF Flat, States
<1> QED BY <1>4, <1>6, <1>8, <1>9

(* The end of a call that failed on a file that was inline when it began:  *)
(* the file is as it was.                                                  *)
LEMMA UndoneRestores ==
  ASSUME NEW first, NEW end, NEW others, NEW before, Flat(first, end, others, before),
         NEW fs, fs.rc \in {"EFBIG", "ENOSPC"},
         \/ Sound(first, end, others, fs) /\ Keeps(others, before, fs)
         \/ Flat(first, end, others, fs) /\ Restores(before, fs)
  PROVE  /\ Flat(first, end, others, Undone(before, fs))
         /\ Restores(before, Undone(before, fs)) /\ Undone(before, fs).rc = fs.rc
<1> DEFINE r == Undone(before, fs)
           rc == fs.rc
           x == Failed(fs, "OK")
           w == ShrinkToSize(x, 0)
           v == Failed(w, rc)
<1>0. FlatFacts(first, end, others, before)
  BY FlatFields
<1>1. /\ before.n \in InlineInodes /\ before.n.inline = TRUE /\ before.dmap = others
      /\ before.free = end - Cardinality(others) /\ DOMAIN before.disk = first .. end - 1
  BY <1>0 DEF FlatFacts, Flat
<1>2. r = [v EXCEPT !.n = before.n]
  BY <1>1 DEF Undone, Failed
<1>3. rc \in Codes /\ "OK" \in Codes
  BY DEF Codes
<1>4. /\ \E I : w \in States(first, end, I)
      /\ w.dmap = others /\ w.free = before.free
      /\ \A b \in others \cap DOMAIN before.disk : w.disk[b] = before.disk[b]
  <2>1. CASE Sound(first, end, others, fs) /\ Keeps(others, before, fs)
    <3>1. /\ Sound(first, end, others, x) /\ x.rc = "OK" /\ x.n = fs.n /\ x.disk = fs.disk
          /\ x.free = fs.free
      BY <1>3, <2>1, SoundFailed
    <3> HIDE DEF x
    <3>2. BlocksFor(0) = 0 /\ 0 \in Nat
      BY BlocksForMore
    <3>3. SoundFacts(first, end, x) /\ SoundFacts(first, end, fs)
      BY <2>1, <3>1, SoundFields
    <3>4. BlocksFor(0) <= x.n.blocks
      BY <3>2, <3>3 DEF SoundFacts
    <3>5. Sound(first, end, others, w) /\ Keeps(others, x, w) /\ w.n.blocks = BlocksFor(0)
      BY <3>1, <3>2, <3>4, Shrunk
    <3> HIDE DEF w
    <3>6. ToSet(Blks(w.n.store)) = {}
      <4> DEFINE s == Blks(w.n.store)
      <4>0. SoundFacts(first, end, w)
        BY <3>5, SoundFields
      <4>1. s \in Seq(Nat) /\ Len(s) = 0
        BY <3>2, <3>5, <4>0 DEF SoundFacts
      <4> HIDE DEF s
      <4>2. s = <<>>
        BY <4>1
      <4>3. s = <<>> <=> ToSet(s) = {}
        BY <4>1, QueueEmpty, ZenonT(60)
      <4> QED BY <4>2, <4>3 DEF s
    <3>7. w.dmap = others /\ w.free = end - Cardinality(w.dmap)
      BY <3>5, <3>6 DEF Sound
    <3>8. \A b \in others \cap DOMAIN before.disk : w.disk[b] = before.disk[b]
      BY <1>1, <2>1, <3>1, <3>3, <3>5 DEF Keeps, SoundFacts
    <3>9. w \in States(first, end, BlockInodes)
      BY <3>5 DEF Sound
    <3> QED BY <1>1, <3>7, <3>8, <3>9
  <2>2. CASE Flat(first, end, others, fs) /\ Restores(before, fs)
    <3>1. fs \in States(first, end, InlineInodes)
      BY <2>2 DEF Flat
    <3>2. /\ x \in States(first, end, InlineInodes)
          /\ x = [first |-> first, end |-> end, free |-> fs.free, dmap |-> fs.dmap,
                  disk |-> fs.disk, n |-> fs.n, rc |-> "OK"]
      BY <1>3, <3>1, FailedState
    <3>3. x.rc = "OK" /\ x.dmap = fs.dmap /\ x.free = fs.free /\ x.disk = fs.disk
      <4> HIDE DEF x
      <4> QED BY <3>2
    <3> HIDE DEF x
    <3>4. Flat(first, end, others, x)
      BY <2>2, <3>2, <3>3 DEF Flat
    <3>5. w = x
      BY <3>3, <3>4, ShrinkInline
    <3> QED BY <1>1, <2>2, <3>2, <3>3, <3>5 DEF Restores
  <2> QED BY <2>1, <2>2
<1> HIDE DEF w
<1>5. PICK I : w \in States(first, end, I)
  BY <1>4
<1>6. /\ v \in States(first, end, I)
      /\ v.dmap = w.dmap /\ v.free = w.free /\ v.disk = w.disk /\ v.rc = rc
  <2> HIDE DEF rc
  <2>1. /\ v \in States(first, end, I)
        /\ v = [first |-> first, end |-> end, free |-> w.free, dmap |-> w.dmap,
                disk |-> w.disk, n |-> w.n, rc |-> rc]
    BY <1>3, <1>5, FailedState
  <2> HIDE DEF v
  <2> QED BY <2>1
<1> HIDE DEF r, v, rc
<1>7. r \in States(first, end, InlineInodes)
  BY <1>1, <1>2, <1>6 DEF States
<1>8. /\ r.n = before.n /\ r.dmap = w.dmap /\ r.free = w.free /\ r.disk = w.disk /\ r.rc = rc
  BY <1>2, <1>6 DEF States
<1>9. Restores(before, r)
  BY <1>1, <1>4, <1>8 DEF Restores
<1>10. Flat(first, end, others, r)
  BY <1>1, <1>4, <1>7, <1>8 DEF Flat
<1> QED BY <1>8, <1>9, <1>10 DEF r, rc

-----------------------------------------------------------------------------
(* The directory                                                           *)

(* The assumptions on the constants the proofs use.                        *)
LEMMA Constants ==
  /\ BlockSize \in Nat \ {0} /\ BitmapBits \in Nat
  /\ DirEntries \in Nat /\ DirEntries >= 2
  /\ "." \notin Names /\ ".." \notin Names
  BY ExtentsAssumption, ExFSAssumption

Entry == [ino : Int, name : Names \cup {".", "..", ""}]
InUse == DOMAIN dir \ FreeEntries

(* What the invariant of the directory needs besides itself: the shape of  *)
(* the tables, and an i_size in the root inode.                            *)
Shape ==
  /\ "num_inodes" \in DOMAIN sb /\ sb.num_inodes \in Nat \ {0}
  /\ imap \subseteq 0 .. sb.num_inodes - 1
  /\ DOMAIN itable = 0 .. sb.num_inodes - 1 /\ DOMAIN mtime = 0 .. sb.num_inodes - 1
  /\ "size" \in DOMAIN itable[RootIno] /\ itable[RootIno].size \in Nat
  /\ dir \in Seq(Entry)
DirInv == Shape /\ DirectoryMatchesInodes

(* A name has one entry, and the entry an inode in use.                    *)
LEMMA OneEntry ==
  ASSUME DirInv, NEW n, Found(n)
  PROVE  \E i \in InUse : /\ EntriesNamed(n) = {i} /\ PathLookup(n) = dir[i].ino
                          /\ dir[i].name = n /\ dir[i].ino \in imap
<1>1. PICK i \in EntriesNamed(n) : TRUE
  BY DEF Found
<1>2. i \in InUse /\ dir[i].name = n
  BY <1>1 DEF EntriesNamed, InUse, FreeEntries
<1>3. ASSUME NEW j \in EntriesNamed(n) PROVE j = i
  BY <1>2, <1>3 DEF EntriesNamed, DirInv, DirectoryMatchesInodes, IsInjective, ReadDir, InUse,
                    FreeEntries
<1>4. EntriesNamed(n) = {i}
  BY <1>1, <1>3
<1>5. Min(EntriesNamed(n)) = i
  <2>1. i \in Nat
    BY <1>2 DEF InUse, DirInv, Shape
  <2> QED BY <1>4, <2>1, LeastNumber
<1>6. dir[i].ino \in imap
  BY <1>2 DEF DirInv, DirectoryMatchesInodes, ReadDir, InUse
<1> QED BY <1>2, <1>4, <1>5, <1>6 DEF PathLookup

(* The inode of a file is not the root's.                                  *)
LEMMA FilesAreNotRoot ==
  ASSUME DirInv, NEW n \in Names, Found(n)
  PROVE  PathLookup(n) # RootIno
<1>1. PICK i \in InUse : PathLookup(n) = dir[i].ino /\ dir[i].name = n
  BY OneEntry
<1>2. Found(".") /\ PathLookup(".") = RootIno
  BY DEF DirInv, DirectoryMatchesInodes
<1>3. PICK j \in InUse : RootIno = dir[j].ino /\ dir[j].name = "."
  BY <1>2, OneEntry
<1>4. ASSUME dir[i].ino = RootIno PROVE FALSE
  <2>1. i # j
    BY <1>1, <1>3, Constants
  <2>2. {ReadDir[i], ReadDir[j]} = {".", ".."}
    BY <1>1, <1>3, <1>4, <2>1 DEF DirInv, DirectoryMatchesInodes, ReadDir, InUse
  <2>3. n \in {".", ".."}
    BY <1>1, <2>2 DEF ReadDir, InUse
  <2> QED BY <2>3, Constants
<1> QED BY <1>1, <1>4

(* mkfs leaves . and .. in the root directory, and no inode but the root's *)
(* in use.                                                                 *)
LEMMA InitDirInv == Init => DirInv
<1> SUFFICES ASSUME Init PROVE DirInv
  OBVIOUS
<1>1. PICK f \in Formats :
        /\ MkfsAccepts(f)
        /\ sb = [num_inodes |-> f.inodes, free_inodes |-> f.inodes - 1,
                 num_blocks |-> f.blocks, free_blocks |-> f.blocks - (DataRegion(f) + 1),
                 data_region |-> DataRegion(f)]
        /\ imap = {RootIno}
        /\ itable = [i \in 0 .. f.inodes - 1 |->
                       IF i = RootIno THEN FormattedInode(f) ELSE Zeroed]
        /\ dir = <<[ino |-> RootIno, name |-> "."], [ino |-> RootIno, name |-> ".."]>>
                   \o [i \in 1 .. DirEntries - 2 |-> FreeEntry]
        /\ mtime = [i \in 0 .. f.inodes - 1 |-> IF i = RootIno THEN "now" ELSE "old"]
  BY DEF Init
<1>2. f.inodes \in Nat \ {0}
  BY <1>1, Constants DEF MkfsAccepts
<1>3. sb.num_inodes = f.inodes /\ "num_inodes" \in DOMAIN sb
  BY <1>1
<1> DEFINE two == <<[ino |-> RootIno, name |-> "."], [ino |-> RootIno, name |-> ".."]>>
           free == [i \in 1 .. DirEntries - 2 |-> FreeEntry]
<1>4. /\ dir \in Seq(Entry) /\ Len(dir) = DirEntries
      /\ dir[1] = [ino |-> RootIno, name |-> "."] /\ dir[2] = [ino |-> RootIno, name |-> ".."]
      /\ \A i \in 3 .. DirEntries : dir[i] = FreeEntry
  <2>1. two \in Seq(Entry) /\ Len(two) = 2
    BY DEF Entry, RootIno
  <2>2. free \in Seq(Entry) /\ Len(free) = DirEntries - 2
    BY Constants DEF Entry, FreeEntry, NoIno
  <2>3. /\ dir \in Seq(Entry) /\ Len(dir) = DirEntries
        /\ \A i \in 1 .. DirEntries : dir[i] = IF i <= 2 THEN two[i] ELSE free[i - 2]
    <3> HIDE DEF two, free
    <3> QED BY <1>1, <2>1, <2>2, Constants, ConcatProperties DEF two, free
  <2>4. \A i \in 3 .. DirEntries : i \in 1 .. DirEntries /\ i - 2 \in 1 .. DirEntries - 2
    BY Constants
  <2>5. dir[1] = two[1] /\ dir[2] = two[2] /\ \A i \in 3 .. DirEntries : dir[i] = free[i - 2]
    <3> HIDE DEF two, free
    <3> QED BY <2>3, <2>4, Constants
  <2> QED BY <2>3, <2>4, <2>5
<1>5. InUse = {1, 2} /\ DOMAIN dir = 1 .. DirEntries
  <2>1. DOMAIN dir = 1 .. DirEntries /\ {1, 2} \subseteq DOMAIN dir
    BY <1>4, Constants
  <2>2. \A i \in DOMAIN dir : i \in {1, 2} \/ i \in 3 .. DirEntries
    BY <2>1, Constants
  <2>3. FreeEntry.ino = NoIno /\ RootIno # NoIno
    BY DEF FreeEntry, NoIno, RootIno
  <2>4. dir[1].ino = RootIno /\ dir[2].ino = RootIno
    BY <1>4
  <2>5. \A i \in DOMAIN dir : dir[i].ino = NoIno <=> i \notin {1, 2}
    BY <1>4, <2>2, <2>3, <2>4
  <2> QED BY <2>1, <2>5 DEF InUse, FreeEntries
<1>6. itable[RootIno] = FormattedInode(f)
  BY <1>1, <1>2 DEF RootIno
<1>7. "size" \in DOMAIN itable[RootIno] /\ itable[RootIno].size = BlockSize
  BY <1>6 DEF FormattedInode, Zeroed, Fresh
<1>8. Shape
  <2>1. 0 \in 0 .. sb.num_inodes - 1
    BY <1>2, <1>3
  <2>2. DOMAIN itable = 0 .. sb.num_inodes - 1 /\ DOMAIN mtime = 0 .. sb.num_inodes - 1
    BY <1>1, <1>3
  <2> QED BY <1>1, <1>2, <1>3, <1>4, <1>7, <2>1, <2>2, Constants DEF Shape, RootIno
<1>9. DOMAIN ReadDir = {1, 2} /\ ReadDir[1] = "." /\ ReadDir[2] = ".."
  BY <1>4, <1>5 DEF ReadDir, InUse
<1>10. EntriesNamed(".") = {1} /\ EntriesNamed("..") = {2}
  <2>1. \A n : EntriesNamed(n) = {i \in {1, 2} : dir[i].name = n}
    BY <1>5 DEF EntriesNamed, InUse, FreeEntries
  <2>2. dir[1].name = "." /\ dir[2].name = ".."
    BY <1>4
  <2> QED BY <2>1, <2>2
<1>11. \A n \in {".", ".."} : Found(n) /\ PathLookup(n) = RootIno
  <2>1. Min({1}) = 1 /\ Min({2}) = 2
    BY DEF Min
  <2>2. dir[1].ino = RootIno /\ dir[2].ino = RootIno
    BY <1>4
  <2> QED BY <1>10, <2>1, <2>2 DEF Found, PathLookup
<1>12. Len(dir) * BlockSize = itable[RootIno].size * DirEntries
  BY <1>4, <1>7, Constants
<1>13. \A ino \in DOMAIN itable \ imap : itable[ino] = Zeroed
  BY <1>1
<1>14. IsInjective(ReadDir)
  BY <1>9 DEF IsInjective
<1>15. imap = {dir[i].ino : i \in DOMAIN ReadDir}
  BY <1>1, <1>4, <1>9
<1>16. \A i, j \in DOMAIN ReadDir :
         i # j /\ dir[i].ino = dir[j].ino => {ReadDir[i], ReadDir[j]} = {".", ".."}
  BY <1>9
<1> QED
  BY <1>8, <1>11, <1>12, <1>13, <1>14, <1>15, <1>16 DEF DirInv, DirectoryMatchesInodes

LEMMA FreeEntryType == FreeEntry \in Entry /\ FreeEntry.ino = NoIno
<1>1. FreeEntry \in Entry
  BY DEF Entry, FreeEntry, NoIno
<1>2. FreeEntry.ino = NoIno
  BY DEF FreeEntry
<1> QED BY <1>1, <1>2

-----------------------------------------------------------------------------
(* The steps                                                               *)

(* What a step sees that leaves the entries alone.                         *)
LEMMA SameDirectory ==
  ASSUME dir' = dir
  PROVE  /\ ReadDir' = ReadDir
         /\ \A n : /\ EntriesNamed(n)' = EntriesNamed(n) /\ (Found(n)' <=> Found(n))
                   /\ PathLookup(n)' = PathLookup(n)
  BY DEF ReadDir, FreeEntries, Found, PathLookup, EntriesNamed

(* A call that leaves the directory and the inodes alone.                  *)
LEMMA QuietStep ==
  ASSUME DirInv, UNCHANGED <<sb, imap, itable, dir>>, DOMAIN mtime' = DOMAIN mtime
  PROVE  DirInv'
<1>1. Shape'
  BY DEF DirInv, Shape
<1>2. DirectoryMatchesInodes'
  BY SameDirectory DEF DirInv, DirectoryMatchesInodes
<1> QED BY <1>1, <1>2 DEF DirInv

LEMMA StampDomain ==
  ASSUME NEW S, Stamp(S)
  PROVE  DOMAIN mtime' = DOMAIN mtime /\ \A ino \in S \cap DOMAIN mtime : mtime'[ino] = "now"
  BY DEF Stamp, SetTime

LEMMA FailedStep ==
  ASSUME DirInv, NEW op, NEW n, NEW at, NEW bytes, NEW rc, Fails(op, n, at, bytes, rc)
  PROVE  DirInv' /\ call'.op = op /\ call'.rc = rc
<1>1. UNCHANGED <<sb, imap, itable, dir>> /\ DOMAIN mtime' = DOMAIN mtime
  BY StampDomain DEF Fails, image
<1> QED BY <1>1, QuietStep DEF Fails, Returns

(* truncate and write replace the inode of a file, and nothing else of the *)
(* tables; the file keeps its name.                                        *)
LEMMA ChangedStep ==
  ASSUME DirInv, NEW n \in Names, Found(n), NEW op, NEW at, NEW bytes, NEW fs,
         Changes(op, n, at, bytes, fs)
  PROVE  /\ DirInv'
         /\ call'.op = op /\ call'.name = n /\ call'.rc = fs.rc /\ dir' = dir
         /\ fs.rc = "OK" => mtime'[PathLookup(n)] = "now"
<1> DEFINE ino == PathLookup(n)
<1>1. ino \in imap /\ ino # RootIno
  BY OneEntry, FilesAreNotRoot
<1>2. /\ itable' = [itable EXCEPT ![ino] = fs.n]
      /\ sb' = [sb EXCEPT !.free_blocks = fs.free]
      /\ Stamp(IF fs.rc = "OK" THEN {ino} ELSE {})
      /\ imap' = imap /\ dir' = dir
      /\ call' = [op |-> op, name |-> n, at |-> at, bytes |-> bytes, rc |-> fs.rc]
  BY DEF Changes, Returns
<1>3. ino \in DOMAIN mtime /\ ino \in DOMAIN itable
  BY <1>1 DEF DirInv, Shape
<1> HIDE DEF ino
<1>4. DOMAIN mtime' = DOMAIN mtime /\ (fs.rc = "OK" => mtime'[ino] = "now")
  BY <1>2, <1>3, StampDomain
<1>5. "num_inodes" \in DOMAIN sb' /\ sb'.num_inodes = sb.num_inodes
  BY <1>2 DEF DirInv, Shape
<1>6. DOMAIN itable' = DOMAIN itable /\ \A i \in DOMAIN itable \ {ino} : itable'[i] = itable[i]
  BY <1>2
<1>7. RootIno \in DOMAIN itable
  BY DEF DirInv, Shape, RootIno
<1>8. Shape'
  BY <1>1, <1>2, <1>4, <1>5, <1>6, <1>7 DEF DirInv, Shape
<1>9. /\ \A k \in DOMAIN itable' \ imap' : itable'[k] = Zeroed
      /\ Len(dir') * BlockSize = itable'[RootIno].size * DirEntries
  BY <1>1, <1>2, <1>6, <1>7 DEF DirInv, DirectoryMatchesInodes
<1>10. DirectoryMatchesInodes'
  <2>1. /\ ReadDir' = ReadDir /\ imap' = imap /\ dir' = dir
        /\ \A m : (Found(m)' <=> Found(m)) /\ PathLookup(m)' = PathLookup(m)
    BY <1>2, SameDirectory
  <2>2. \A m \in {".", ".."} : Found(m)' /\ PathLookup(m)' = RootIno
    BY <2>1 DEF DirInv, DirectoryMatchesInodes
  <2>3. /\ IsInjective(ReadDir') /\ imap' = {dir'[i].ino : i \in DOMAIN ReadDir'}
        /\ \A i, j \in DOMAIN ReadDir' :
             i # j /\ dir'[i].ino = dir'[j].ino => {ReadDir'[i], ReadDir'[j]} = {".", ".."}
    BY <2>1 DEF DirInv, DirectoryMatchesInodes
  <2> QED BY <1>9, <2>2, <2>3 DEF DirectoryMatchesInodes
<1> QED BY <1>2, <1>4, <1>8, <1>10 DEF DirInv, ino

(* What a step does to the names but n: they stay those of the same files. *)
OthersKept(n) ==
  \A m : m # n => (Found(m)' <=> Found(m)) /\ (Found(m) => PathLookup(m)' = PathLookup(m))

(* unlink frees an entry and the inode it names.                           *)
LEMMA UnlinkStep ==
  ASSUME DirInv, NEW n \in Names, Unlink(n)
  PROVE  /\ DirInv'
         /\ call'.op = "unlink" /\ (call'.rc = "OK" => mtime'[RootIno] = "now")
         /\ Found(n) => OthersKept(n) /\ ~Found(n)'
<1>1. CASE ~Found(n)
  BY <1>1, FailedStep DEF Unlink
<1>2. CASE Found(n)
  <2>1. PICK i \in InUse : /\ EntriesNamed(n) = {i} /\ PathLookup(n) = dir[i].ino
                            /\ dir[i].name = n /\ dir[i].ino \in imap
    BY <1>2, OneEntry
  <2> DEFINE ino == dir[i].ino
  <2>2. Min(EntriesNamed(n)) = i
    <3>1. i \in Nat
      BY <2>1 DEF InUse, DirInv, Shape
    <3> QED BY <2>1, <3>1, LeastNumber
  <2>3. ino \in imap /\ ino # RootIno /\ ino # NoIno
    BY <1>2, <2>1, FilesAreNotRoot DEF InUse, FreeEntries
  <2> DEFINE blks == IF itable[PathLookup(n)].inline THEN <<>> ELSE BlocksOf(itable[PathLookup(n)])
  <2>4. /\ imap' = imap \ {PathLookup(n)}
        /\ itable' = [itable EXCEPT ![PathLookup(n)] = Zeroed]
        /\ dir' = [dir EXCEPT ![Min(EntriesNamed(n))] = FreeEntry]
        /\ sb' = [sb EXCEPT !.free_blocks = @ + Len(blks), !.free_inodes = @ + 1]
        /\ Stamp({RootIno}) /\ \E rc : Returns("unlink", n, 0, <<>>, rc)
    BY <1>2, Zenon DEF Unlink
  <2>5. /\ imap' = imap \ {ino}
        /\ itable' = [itable EXCEPT ![ino] = Zeroed]
        /\ dir' = [dir EXCEPT ![i] = FreeEntry]
    BY <2>1, <2>2, <2>4
  <2>6. "num_inodes" \in DOMAIN sb' /\ sb'.num_inodes = sb.num_inodes
    <3> HIDE DEF blks
    <3> QED BY <2>4 DEF DirInv, Shape
  <2>7. RootIno \in DOMAIN itable /\ RootIno \in DOMAIN mtime
    BY DEF DirInv, Shape, RootIno
  <2>8. DOMAIN mtime' = DOMAIN mtime /\ mtime'[RootIno] = "now"
    BY <2>4, <2>7, StampDomain
  <2>9. /\ dir \in Seq(Entry) /\ i \in DOMAIN dir
        /\ dir' \in Seq(Entry) /\ Len(dir') = Len(dir) /\ DOMAIN dir' = DOMAIN dir
        /\ dir'[i] = FreeEntry /\ \A j \in DOMAIN dir \ {i} : dir'[j] = dir[j]
    <3>1. FreeEntry \in Entry
      BY DEF Entry, FreeEntry, NoIno
    <3>2. dir \in Seq(Entry) /\ i \in DOMAIN dir
      BY <2>1 DEF DirInv, Shape, InUse
    <3> QED BY <2>5, <3>1, <3>2
  <2>10. /\ DOMAIN itable' = DOMAIN itable /\ itable'[RootIno] = itable[RootIno]
         /\ \A k \in DOMAIN itable : itable'[k] = IF k = ino THEN Zeroed ELSE itable[k]
    BY <2>3, <2>5, <2>7
  <2> HIDE DEF ino
  <2>11. Shape'
    BY <2>5, <2>6, <2>8, <2>9, <2>10 DEF DirInv, Shape
  <2>12. FreeEntry.ino = NoIno
    BY DEF FreeEntry
  <2>13. /\ InUse' = InUse \ {i} /\ DOMAIN ReadDir = InUse /\ DOMAIN ReadDir' = InUse'
         /\ (\A j \in InUse : ReadDir[j] = dir[j].name)
         /\ (\A j \in InUse' : ReadDir'[j] = ReadDir[j] /\ dir'[j] = dir[j])
    BY <2>9, <2>12 DEF InUse, FreeEntries, ReadDir
  <2>14. \A j \in InUse' : dir[j].ino # ino
    <3>1. SUFFICES ASSUME NEW j \in InUse, j # i, dir[j].ino = ino PROVE FALSE
      BY <2>13
    <3>2. {ReadDir[i], ReadDir[j]} = {".", ".."}
      BY <2>1, <2>13, <3>1 DEF DirInv, DirectoryMatchesInodes, ino
    <3> QED BY <2>1, <2>13, <3>2, Constants
  <2>15. imap' = {dir'[j].ino : j \in DOMAIN ReadDir'}
    <3>1. imap = {dir[j].ino : j \in InUse}
      BY <2>13 DEF DirInv, DirectoryMatchesInodes
    <3>2. dir[i].ino = ino
      BY DEF ino
    <3>3. imap \ {ino} = {dir[j].ino : j \in InUse'}
      BY <2>1, <2>13, <2>14, <3>1, <3>2
    <3> QED BY <2>5, <2>13, <3>3
  <2>16. \A m : m # n => EntriesNamed(m)' = EntriesNamed(m)
    BY <2>1, <2>9, <2>12 DEF EntriesNamed, InUse, FreeEntries
  <2>24. OthersKept(n)
    <3> SUFFICES ASSUME NEW m, m # n
                 PROVE  (Found(m)' <=> Found(m)) /\ (Found(m) => PathLookup(m)' = PathLookup(m))
      BY DEF OthersKept
    <3>1. Found(m)' <=> Found(m)
      BY <2>16 DEF Found
    <3>2. ASSUME Found(m) PROVE PathLookup(m)' = PathLookup(m)
      <4>1. PICK k \in InUse : EntriesNamed(m) = {k} /\ dir[k].name = m
        BY <3>2, OneEntry
      <4>2. Min(EntriesNamed(m)) = k
        <5>1. k \in Nat
          BY <2>9 DEF InUse
        <5> QED BY <4>1, <5>1, LeastNumber
      <4>3. k \in InUse'
        BY <2>1, <2>13, <4>1
      <4> QED BY <2>13, <2>16, <4>2, <4>3 DEF PathLookup
    <3> QED BY <3>1, <3>2
  <2>17. \A m \in {".", ".."} : Found(m)' /\ PathLookup(m)' = RootIno
    BY <2>24, Constants DEF OthersKept, DirInv, DirectoryMatchesInodes
  <2>25. ~Found(n)'
    <3> SUFFICES ASSUME NEW j \in EntriesNamed(n)' PROVE FALSE
      BY DEF Found
    <3>1. j \in InUse' /\ dir'[j].name = n
      BY DEF EntriesNamed, InUse, FreeEntries
    <3>2. j \in InUse /\ j # i /\ dir[j].name = n
      BY <2>1, <2>13, <3>1
    <3>3. j \in EntriesNamed(n)
      BY <3>2 DEF EntriesNamed, InUse, FreeEntries
    <3> QED BY <2>1, <3>2, <3>3
  <2>18. IsInjective(ReadDir')
    BY <2>13 DEF DirInv, DirectoryMatchesInodes, IsInjective
  <2>19. \A j, k \in DOMAIN ReadDir' :
           j # k /\ dir'[j].ino = dir'[k].ino => {ReadDir'[j], ReadDir'[k]} = {".", ".."}
    <3> SUFFICES ASSUME NEW j \in InUse', NEW k \in InUse', j # k, dir'[j].ino = dir'[k].ino
                 PROVE  {ReadDir'[j], ReadDir'[k]} = {".", ".."}
      BY <2>13
    <3>1. j \in DOMAIN ReadDir /\ k \in DOMAIN ReadDir /\ dir[j].ino = dir[k].ino
      BY <2>13
    <3>2. {ReadDir[j], ReadDir[k]} = {".", ".."}
      BY <3>1 DEF DirInv, DirectoryMatchesInodes
    <3> QED BY <2>13, <3>2
  <2>20. Len(dir') * BlockSize = itable'[RootIno].size * DirEntries
    BY <2>9, <2>10 DEF DirInv, DirectoryMatchesInodes
  <2>21. \A k \in DOMAIN itable' \ imap' : itable'[k] = Zeroed
    BY <2>5, <2>10 DEF DirInv, DirectoryMatchesInodes
  <2>22. DirectoryMatchesInodes'
    BY <2>15, <2>17, <2>18, <2>19, <2>20, <2>21 DEF DirectoryMatchesInodes
  <2>23. call'.op = "unlink"
    BY <2>4 DEF Returns
  <2> QED BY <2>8, <2>11, <2>22, <2>23, <2>24, <2>25 DEF DirInv
<1> QED BY <1>1, <1>2

(* The entries create chooses from: those of the directory, or of the      *)
(* directory with one more block.                                          *)
root == IF FreeEntries # {} THEN Open(RootIno) ELSE DirGrowBlock(Open(RootIno))
entries == IF FreeEntries # {} THEN dir ELSE dir \o [i \in 1 .. DirEntries |-> FreeEntry]

LEMMA EntriesToChoose ==
  ASSUME DirInv, root.rc = "OK"
  PROVE  /\ entries \in Seq(Entry) /\ DOMAIN dir \subseteq DOMAIN entries
         /\ \A i \in DOMAIN dir : entries[i] = dir[i]
         /\ \A i \in DOMAIN entries \ DOMAIN dir : entries[i].ino = NoIno
         /\ {i \in DOMAIN entries : entries[i].ino = NoIno} # {}
         /\ "size" \in DOMAIN root.n /\ root.n.size \in Nat
         /\ Len(entries) * BlockSize = root.n.size * DirEntries
<1>1. /\ dir \in Seq(Entry) /\ "size" \in DOMAIN itable[RootIno]
      /\ itable[RootIno].size \in Nat /\ Len(dir) * BlockSize = itable[RootIno].size * DirEntries
  BY DEF DirInv, Shape, DirectoryMatchesInodes
<1>2. CASE FreeEntries # {}
  BY <1>1, <1>2 DEF root, entries, Open, FreeEntries
<1>3. CASE FreeEntries = {}
  <2> DEFINE new == [i \in 1 .. DirEntries |-> FreeEntry]
  <2>1. FreeEntry \in Entry
    BY FreeEntryType
  <2>2. new \in Seq(Entry) /\ Len(new) = DirEntries /\ \A i \in 1 .. DirEntries : new[i] = FreeEntry
    BY <2>1, Constants
  <2> HIDE DEF new
  <2>3. entries = dir \o new
    BY <1>3 DEF new, entries
  <2>4. /\ entries \in Seq(Entry) /\ Len(entries) = Len(dir) + DirEntries
        /\ \A i \in 1 .. Len(dir) + DirEntries :
             entries[i] = IF i <= Len(dir) THEN dir[i] ELSE new[i - Len(dir)]
    BY <1>1, <2>2, <2>3, ConcatProperties
  <2>5. /\ \A i \in DOMAIN dir : i \in DOMAIN entries /\ entries[i] = dir[i]
        /\ \A i \in DOMAIN entries \ DOMAIN dir : entries[i] = FreeEntry
    BY <1>1, <2>2, <2>4, Constants
  <2>6. Len(dir) + 1 \in DOMAIN entries /\ Len(dir) + 1 \notin DOMAIN dir
    BY <1>1, <2>4, Constants
  <2>7. "size" \in DOMAIN root.n /\ root.n.size = itable[RootIno].size + BlockSize
    <3> DEFINE fs == Open(RootIno)
               blk == BitmapAlloc(fs.end, fs.dmap)
               with == WithExtent(fs.n, blk, 1)
    <3>1. /\ fs.n = itable[RootIno] /\ {"n", "dmap", "free", "disk", "rc"} \subseteq DOMAIN fs
      BY DEF Open
    <3>2. "size" \in DOMAIN with /\ with.size = itable[RootIno].size
      <4>1. DOMAIN with = DOMAIN fs.n /\ with.size = fs.n.size
        BY <1>1, <3>1 DEF WithExtent
      <4> QED BY <1>1, <3>1, <4>1
    <3> HIDE DEF fs
    <3>3. root = DirGrowBlock(fs)
      BY <1>3 DEF fs, root
    <3> DEFINE full == \/ Exhausted(fs.end, fs.dmap)
                       \/ ~MergesWithLast(fs.n, blk) /\ Len(fs.n.store) >= NumExtents
               back == Released(fs.dmap \cup {blk}, blk)
    <3> DEFINE grown == [with EXCEPT !.size = @ + BlockSize]
    <3>4. DirGrowBlock(fs).rc = "OK" => DirGrowBlock(fs).n = grown
      <4>1. ASSUME full PROVE DirGrowBlock(fs).rc = "ENOSPC"
        <5>1. DirGrowBlock(fs) \in {Failed(fs, "ENOSPC"), Failed([fs EXCEPT !.dmap = back], "ENOSPC")}
          BY <4>1, Zenon DEF DirGrowBlock
        <5> HIDE DEF back
        <5> QED BY <3>1, <5>1 DEF Failed
      <4>2. ASSUME ~full PROVE DirGrowBlock(fs).n = grown
        <5> DEFINE used == fs.dmap \cup {blk}
                   zeroed == [fs.disk EXCEPT ![blk] = [o \in 0 .. BlockSize - 1 |-> 0]]
        <5>1. DirGrowBlock(fs) = [fs EXCEPT !.dmap = used, !.free = @ - 1, !.n = grown,
                                            !.disk = zeroed]
          BY <4>2, Zenon DEF DirGrowBlock
        <5> HIDE DEF used, zeroed, grown
        <5> QED BY <3>1, <5>1
      <4> QED BY <4>1, <4>2
    <3> HIDE DEF with
    <3> QED BY <3>2, <3>3, <3>4
  <2>8. Len(entries) * BlockSize = root.n.size * DirEntries
    <3>1. \A l, z, d, b \in Nat : l * b = z * d => (l + d) * b = (z + b) * d
      OBVIOUS
    <3>2. Len(dir) \in Nat /\ itable[RootIno].size \in Nat /\ DirEntries \in Nat /\ BlockSize \in Nat
      BY <1>1, Constants
    <3>3. (Len(dir) + DirEntries) * BlockSize = (itable[RootIno].size + BlockSize) * DirEntries
      BY <1>1, <3>1, <3>2
    <3> QED BY <2>4, <2>7, <3>3
  <2>9. FreeEntry.ino = NoIno
    BY DEF FreeEntry
  <2>10. entries[Len(dir) + 1].ino = NoIno
    BY <2>5, <2>6, <2>9
  <2>11. entries \in Seq(Entry) /\ {i \in DOMAIN entries : entries[i].ino = NoIno} # {}
    BY <2>4, <2>6, <2>10
  <2> QED BY <1>1, <2>5, <2>7, <2>8, <2>9, <2>11, Constants
<1> QED BY <1>2, <1>3

(* create without a block for the directory gives the inode back.          *)
CreateGivesUp(n) ==
  LET ino == BitmapAlloc(sb.num_inodes, imap)
  IN  /\ ~Found(n) /\ ~Exhausted(sb.num_inodes, imap) /\ root.rc # "OK"
      /\ imap' = Released(imap \cup {ino}, ino)
      /\ Saved(root) /\ Stamp({}) /\ Returns("create", n, 0, <<>>, root.rc)
      /\ UNCHANGED <<sb, itable, dir>>

LEMMA InodeGivenBack ==
  ASSUME DirInv, NEW n, CreateGivesUp(n)
  PROVE  imap' = imap /\ DOMAIN mtime' = DOMAIN mtime
<1> DEFINE ino == BitmapAlloc(sb.num_inodes, imap)
<1>1. ino \notin imap
  <2>1. (0 .. sb.num_inodes - 1) \ imap \in SUBSET Nat /\ (0 .. sb.num_inodes - 1) \ imap # {}
    BY DEF CreateGivesUp, Exhausted, DirInv, Shape
  <2> QED BY <2>1, LeastNumber DEF BitmapAlloc
<1>2. imap' = Released(imap \cup {ino}, ino) /\ Stamp({})
  BY DEF CreateGivesUp
<1> HIDE DEF ino
<1>3. DOMAIN mtime' = DOMAIN mtime
  BY <1>2, StampDomain
<1> QED BY <1>1, <1>2, <1>3 DEF Released

(* create takes the first free entry and the first free inode.             *)
LEMMA CreateStep ==
  ASSUME DirInv, NEW n \in Names, Create(n)
  PROVE  /\ DirInv'
         /\ call'.op = "create" /\ call'.name = n
         /\ call'.rc = "OK" =>
              /\ mtime'[RootIno] = "now" /\ mtime'[PathLookup(n)'] = "now"
              /\ OthersKept(n) /\ Found(n)' /\ PathLookup(n)' = BitmapAlloc(sb.num_inodes, imap)
<1> DEFINE slot == Min({i \in DOMAIN entries : entries[i].ino = NoIno})
           ino == BitmapAlloc(sb.num_inodes, imap)
<1>1. CASE \E rc : Fails("create", n, 0, <<>>, rc) /\ rc # "OK"
  BY <1>1, FailedStep DEF Fails, Returns
<1>2. CASE /\ ~Found(n) /\ ~Exhausted(sb.num_inodes, imap) /\ root.rc = "OK"
           /\ imap' = imap \cup {ino}
           /\ itable' = [itable EXCEPT ![RootIno] = root.n, ![ino] = Fresh]
           /\ dir' = [entries EXCEPT ![slot] = [ino |-> ino, name |-> n]]
           /\ sb' = [sb EXCEPT !.free_blocks = root.free, !.free_inodes = @ - 1]
           /\ Stamp({RootIno, ino}) /\ Returns("create", n, 0, <<>>, "OK")
  <2> DEFINE new == [ino |-> ino, name |-> n]
  <2>1. ino \in (0 .. sb.num_inodes - 1) \ imap
    <3>1. (0 .. sb.num_inodes - 1) \ imap \in SUBSET Nat /\ (0 .. sb.num_inodes - 1) \ imap # {}
      BY <1>2 DEF Exhausted, DirInv, Shape
    <3> QED BY <3>1, LeastNumber DEF BitmapAlloc
  <2>2. /\ entries \in Seq(Entry) /\ DOMAIN dir \subseteq DOMAIN entries
        /\ \A i \in DOMAIN dir : entries[i] = dir[i]
        /\ \A i \in DOMAIN entries \ DOMAIN dir : entries[i].ino = NoIno
        /\ "size" \in DOMAIN root.n /\ root.n.size \in Nat
        /\ Len(entries) * BlockSize = root.n.size * DirEntries
    BY <1>2, EntriesToChoose
  <2>3. slot \in DOMAIN entries /\ entries[slot].ino = NoIno
    <3>1. {i \in DOMAIN entries : entries[i].ino = NoIno} # {}
      BY <1>2, EntriesToChoose
    <3>2. {i \in DOMAIN entries : entries[i].ino = NoIno} \in SUBSET Nat
      BY <2>2
    <3> QED BY <3>1, <3>2, LeastNumber
  <2> HIDE DEF slot
  <2>4. ino \in Nat /\ ino # RootIno /\ RootIno \in imap /\ RootIno # NoIno /\ ino # NoIno
    <3>1. Found(".") /\ PathLookup(".") = RootIno
      BY DEF DirInv, DirectoryMatchesInodes
    <3>2. RootIno \in imap
      BY <3>1, OneEntry
    <3> QED BY <2>1, <3>2 DEF RootIno, NoIno, DirInv, Shape
  <2> HIDE DEF ino
  <2>5. /\ new \in Entry /\ new.ino = ino /\ new.name = n
    <3>1. n \in Names \cup {".", "..", ""}
      OBVIOUS
    <3>2. ino \in Int
      BY <2>4
    <3> QED BY <3>1, <3>2 DEF Entry, new
  <2> HIDE DEF new
  <2>6. /\ dir' \in Seq(Entry) /\ Len(dir') = Len(entries) /\ DOMAIN dir' = DOMAIN entries
        /\ dir'[slot] = new /\ \A i \in DOMAIN entries \ {slot} : dir'[i] = entries[i]
    <3>1. dir' = [entries EXCEPT ![slot] = new]
      BY <1>2 DEF new
    <3> QED BY <2>2, <2>3, <2>5, <3>1
  <2>7. /\ RootIno \in DOMAIN itable /\ ino \in DOMAIN itable
        /\ RootIno \in DOMAIN mtime /\ ino \in DOMAIN mtime
    BY <2>1, <2>4 DEF DirInv, Shape
  <2>8. /\ DOMAIN itable' = DOMAIN itable /\ itable'[RootIno] = root.n
        /\ \A k \in DOMAIN itable \ {RootIno, ino} : itable'[k] = itable[k]
    BY <1>2, <2>4, <2>7
  <2>9. DOMAIN mtime' = DOMAIN mtime /\ mtime'[RootIno] = "now" /\ mtime'[ino] = "now"
    BY <1>2, <2>7, StampDomain
  <2>10. "num_inodes" \in DOMAIN sb' /\ sb'.num_inodes = sb.num_inodes
    BY <1>2 DEF DirInv, Shape
  <2>11. Shape'
    BY <1>2, <2>1, <2>2, <2>6, <2>8, <2>9, <2>10 DEF DirInv, Shape
  <2>12. /\ InUse' = InUse \cup {slot} /\ slot \notin InUse
         /\ DOMAIN ReadDir = InUse /\ DOMAIN ReadDir' = InUse'
         /\ (\A j \in InUse : ReadDir[j] = dir[j].name /\ dir'[j] = dir[j])
         /\ (\A j \in InUse' : ReadDir'[j] = dir'[j].name)
    <3>1. \A j \in InUse : j \in DOMAIN dir /\ j # slot /\ dir'[j] = dir[j] /\ dir[j].ino # NoIno
      BY <2>2, <2>3, <2>6 DEF InUse, FreeEntries
    <3>2. \A j \in DOMAIN dir' : dir'[j].ino # NoIno <=> j \in InUse \cup {slot}
      BY <2>2, <2>3, <2>4, <2>5, <2>6, <3>1 DEF InUse, FreeEntries
    <3>3. InUse' = {j \in DOMAIN dir' : dir'[j].ino # NoIno}
      BY DEF InUse, FreeEntries
    <3>4. InUse \cup {slot} \subseteq DOMAIN dir'
      BY <2>2, <2>3, <2>6, <3>1
    <3>5. InUse' = InUse \cup {slot}
      BY <3>2, <3>3, <3>4
    <3> QED BY <3>1, <3>5 DEF ReadDir, InUse
  <2>13. \A j \in InUse : dir[j].name # n /\ dir[j].ino \in imap /\ dir[j].ino # ino
    <3>1. \A j \in InUse : dir[j].name # n
      BY <1>2 DEF Found, EntriesNamed, InUse, FreeEntries
    <3>2. \A j \in InUse : dir[j].ino \in imap
      BY <2>12 DEF DirInv, DirectoryMatchesInodes
    <3> QED BY <2>1, <3>1, <3>2
  <2>14. IsInjective(ReadDir')
    BY <2>5, <2>6, <2>12, <2>13 DEF DirInv, DirectoryMatchesInodes, IsInjective
  <2>15. imap' = {dir'[j].ino : j \in DOMAIN ReadDir'}
    <3>1. imap = {dir[j].ino : j \in InUse}
      BY <2>12 DEF DirInv, DirectoryMatchesInodes
    <3>2. dir'[slot].ino = ino
      BY <2>5, <2>6
    <3>3. {dir'[j].ino : j \in InUse'} = {dir[j].ino : j \in InUse} \cup {ino}
      BY <2>12, <3>2
    <3> QED BY <1>2, <2>12, <3>1, <3>3
  <2>16. \A j, k \in DOMAIN ReadDir' :
           j # k /\ dir'[j].ino = dir'[k].ino => {ReadDir'[j], ReadDir'[k]} = {".", ".."}
    <3> SUFFICES ASSUME NEW j \in InUse', NEW k \in InUse', j # k, dir'[j].ino = dir'[k].ino
                 PROVE  {ReadDir'[j], ReadDir'[k]} = {".", ".."}
      BY <2>12
    <3>1. j \in InUse /\ k \in InUse /\ dir[j].ino = dir[k].ino
      BY <2>5, <2>6, <2>12, <2>13
    <3>2. {ReadDir[j], ReadDir[k]} = {".", ".."}
      BY <2>12, <3>1 DEF DirInv, DirectoryMatchesInodes
    <3>3. ReadDir'[j] = ReadDir[j] /\ ReadDir'[k] = ReadDir[k]
      BY <2>12, <3>1
    <3> QED BY <3>2, <3>3
  <2>17. \A m : EntriesNamed(m)' = {j \in InUse' : dir'[j].name = m}
    BY DEF EntriesNamed, InUse, FreeEntries
  <2>24. OthersKept(n)
    <3> SUFFICES ASSUME NEW m, m # n
                 PROVE  (Found(m)' <=> Found(m)) /\ (Found(m) => PathLookup(m)' = PathLookup(m))
      BY DEF OthersKept
    <3>1. EntriesNamed(m)' = EntriesNamed(m)
      <4>1. EntriesNamed(m) = {j \in InUse : dir[j].name = m}
        BY DEF EntriesNamed, InUse, FreeEntries
      <4>2. dir'[slot].name # m
        BY <2>5, <2>6
      <4> QED BY <2>12, <2>17, <4>1, <4>2
    <3>2. ASSUME Found(m) PROVE PathLookup(m)' = PathLookup(m)
      <4>1. PICK k \in InUse : EntriesNamed(m) = {k} /\ PathLookup(m) = dir[k].ino
        BY <3>2, OneEntry
      <4>2. Min(EntriesNamed(m)) = k
        <5>1. k \in Nat
          BY <2>12 DEF InUse, DirInv, Shape
        <5> QED BY <4>1, <5>1, LeastNumber
      <4> QED BY <2>12, <3>1, <4>1, <4>2 DEF PathLookup
    <3> QED BY <3>1, <3>2 DEF Found
  <2>18. \A m \in {".", ".."} : Found(m)' /\ PathLookup(m)' = RootIno
    BY <2>24, Constants DEF OthersKept, DirInv, DirectoryMatchesInodes
  <2>19. Len(dir') * BlockSize = itable'[RootIno].size * DirEntries
    BY <2>2, <2>6, <2>8
  <2>20. \A k \in DOMAIN itable' \ imap' : itable'[k] = Zeroed
    BY <1>2, <2>4, <2>8 DEF DirInv, DirectoryMatchesInodes
  <2>21. DirectoryMatchesInodes'
    BY <2>14, <2>15, <2>16, <2>18, <2>19, <2>20 DEF DirectoryMatchesInodes
  <2>22. Found(n)' /\ PathLookup(n)' = ino
    <3>1. EntriesNamed(n)' = {slot}
      BY <2>5, <2>6, <2>12, <2>13, <2>17
    <3>2. Min({slot}) = slot
      <4>1. slot \in Nat
        BY <2>2, <2>3
      <4> QED BY <4>1, LeastNumber
    <3> QED BY <2>5, <2>6, <3>1, <3>2 DEF PathLookup, Found
  <2>23. call'.op = "create" /\ call'.name = n
    BY <1>2 DEF Returns
  <2> QED BY <2>9, <2>11, <2>21, <2>22, <2>23, <2>24 DEF DirInv, ino
<1>3. \/ Fails("create", n, 0, <<>>, "EEXIST") \/ Fails("create", n, 0, <<>>, "ENOSPC")
      \/ CreateGivesUp(n)
      \/ /\ ~Found(n) /\ ~Exhausted(sb.num_inodes, imap) /\ root.rc = "OK"
         /\ imap' = imap \cup {ino}
         /\ itable' = [itable EXCEPT ![RootIno] = root.n, ![ino] = Fresh]
         /\ dir' = [entries EXCEPT ![slot] = [ino |-> ino, name |-> n]]
         /\ sb' = [sb EXCEPT !.free_blocks = root.free, !.free_inodes = @ - 1]
         /\ Stamp({RootIno, ino}) /\ Returns("create", n, 0, <<>>, "OK")
  BY Zenon DEF Create, root, entries, CreateGivesUp
<1>4. CASE CreateGivesUp(n)
  <2>1. UNCHANGED <<sb, imap, itable, dir>> /\ DOMAIN mtime' = DOMAIN mtime
    BY <1>4, InodeGivenBack DEF CreateGivesUp
  <2>2. call'.op = "create" /\ call'.name = n /\ call'.rc # "OK"
    BY <1>4 DEF CreateGivesUp, Returns
  <2> QED BY <2>1, <2>2, QuietStep
<1> QED BY <1>1, <1>2, <1>3, <1>4

LEMMA UtimensStep ==
  ASSUME DirInv, NEW n \in Names, Utimens(n)
  PROVE  DirInv' /\ call'.op \in {"utimens", "omit"}
<1>1. UNCHANGED <<sb, imap, itable, dir>> /\ DOMAIN mtime' = DOMAIN mtime
  BY DEF Utimens, Fails, Stamp, SetTime, image
<1>2. call'.op \in {"utimens", "omit"}
  BY DEF Utimens, Fails, Returns
<1> QED BY <1>1, <1>2, QuietStep

(* What a step does to the time of the inodes it changes.                  *)
TimesOfStep ==
  call'.rc = "OK" =>
    /\ call'.op \in {"create", "unlink"} => mtime'[RootIno] = "now"
    /\ call'.op \in {"create", "truncate", "write"} =>
         \A n \in Names : call'.name = n => mtime'[PathLookup(n)'] = "now"

(* A truncate or a write that finds its file, or does not.                 *)
LEMMA ResizingStep ==
  ASSUME DirInv, NEW n \in Names, NEW op \in {"truncate", "write"}, NEW at, NEW bytes, NEW fs,
         \/ ~Found(n) /\ Fails(op, n, at, bytes, "ENOENT")
         \/ Found(n) /\ Changes(op, n, at, bytes, fs)
  PROVE  DirInv' /\ TimesOfStep
<1>1. CASE ~Found(n) /\ Fails(op, n, at, bytes, "ENOENT")
  BY <1>1, FailedStep DEF TimesOfStep
<1>2. CASE Found(n) /\ Changes(op, n, at, bytes, fs)
  <2>1. /\ DirInv' /\ call'.op = op /\ call'.name = n /\ call'.rc = fs.rc /\ dir' = dir
        /\ fs.rc = "OK" => mtime'[PathLookup(n)] = "now"
    BY <1>2, ChangedStep
  <2>2. PathLookup(n)' = PathLookup(n)
    BY <2>1, SameDirectory
  <2> QED BY <2>1, <2>2 DEF TimesOfStep
<1> QED BY <1>1, <1>2

LEMMA Steps ==
  ASSUME DirInv, Next
  PROVE  DirInv' /\ (TimesOfStep \/ UNCHANGED vars)
<1>1. ASSUME NEW n \in Names, Create(n) PROVE DirInv' /\ TimesOfStep
  <2>1. /\ DirInv' /\ call'.op = "create" /\ call'.name = n
        /\ call'.rc = "OK" => mtime'[RootIno] = "now" /\ mtime'[PathLookup(n)'] = "now"
    BY <1>1, CreateStep
  <2> QED BY <2>1 DEF TimesOfStep
<1>2. ASSUME NEW n \in Names, Unlink(n) PROVE DirInv' /\ TimesOfStep
  BY <1>2, UnlinkStep DEF TimesOfStep
<1>3. ASSUME NEW n \in Names, Utimens(n) PROVE DirInv' /\ TimesOfStep
  BY <1>3, UtimensStep DEF TimesOfStep
<1>4. ASSUME NEW n \in Names, NEW size \in Sizes, Truncate(n, size) PROVE DirInv' /\ TimesOfStep
  BY <1>4, ResizingStep DEF Truncate
<1>5. ASSUME NEW n \in Names, NEW a \in Accesses, Write(n, a.at, a.bytes)
      PROVE  DirInv' /\ TimesOfStep
  BY <1>5, ResizingStep DEF Write
<1>6. ASSUME Loop PROVE DirInv' /\ UNCHANGED vars
  <2>1. UNCHANGED vars
    BY <1>6 DEF Loop
  <2>2. UNCHANGED <<sb, imap, itable, dir>> /\ DOMAIN mtime' = DOMAIN mtime
    BY <2>1 DEF vars, image
  <2> QED BY <2>1, <2>2, QuietStep
<1> QED BY <1>1, <1>2, <1>3, <1>4, <1>5, <1>6 DEF Next

(* After any calls, failed ones included, the root directory, the inode    *)
(* bitmap and the inode table fit together, for every size of the image.   *)
THEOREM DirectoryInvariant == Spec => []DirInv
<1>1. DirInv /\ [Next]_vars => DirInv'
  <2>1. ASSUME DirInv, UNCHANGED vars PROVE DirInv'
    <3>1. UNCHANGED <<sb, imap, itable, dir>> /\ DOMAIN mtime' = DOMAIN mtime
      BY <2>1 DEF vars, image
    <3> QED BY <2>1, <3>1, QuietStep
  <2> QED BY <2>1, Steps
<1> QED BY <1>1, InitDirInv, PTL DEF Spec

(* readdir lists no name twice, every inode in use has one name and every  *)
(* name an inode in use, and the size of the directory is that of its      *)
(* entries (exfs_create, exfs_unlink).                                     *)
THEOREM DirectoryKept == Spec => []DirectoryMatchesInodes
<1>1. DirInv => DirectoryMatchesInodes
  BY DEF DirInv
<1> QED BY <1>1, DirectoryInvariant, PTL

(* A call that succeeds and changes a file or the directory sets its time  *)
(* (exfs.h:104).                                                           *)
THEOREM MtimeKept == Spec => MtimeFollowsChange
<1>1. DirInv /\ [Next]_vars => [TimesOfStep]_vars
  BY Steps
<1>2. Spec => [][TimesOfStep]_vars
  BY <1>1, DirectoryInvariant, PTL DEF Spec
<1> QED BY <1>2 DEF MtimeFollowsChange, TimesOfStep

-----------------------------------------------------------------------------
(* What truncate and write make of a file                                  *)

LEMMA XorByte ==
  ASSUME NEW P, IsFiniteSet(P), NEW f, DOMAIN f = P
  PROVE  Xor(f) \in Byte
<1> DEFINE T == {p \in DOMAIN f : f[p] = 1}
<1>1. T \in SUBSET P
  OBVIOUS
<1>2. IsFiniteSet(T)
  BY <1>1, FS_Subset
<1>3. Cardinality(T) \in Nat
  BY <1>2, FS_CardinalityType
<1> HIDE DEF T
<1>4. Cardinality(T) % 2 \in {0, 1}
  BY <1>3
<1> QED BY <1>4 DEF Xor, T, Byte

LEMMA ChecksumType ==
  ASSUME NEW bytes, NEW n, n.size \in Nat
  PROVE  InodeChecksum(bytes, n) \in Sums
<1> DEFINE P(w) == {q \in 0 .. n.size - 1 : q % WordSize = w}
<1>1. ASSUME NEW w PROVE IsFiniteSet(P(w))
  <2>1. IsFiniteSet(0 .. n.size - 1)
    BY FS_Interval
  <2>2. P(w) \in SUBSET (0 .. n.size - 1)
    OBVIOUS
  <2> HIDE DEF P
  <2> QED BY <2>1, <2>2, FS_Subset
<1> HIDE DEF P
<1>2. CalculateChecksum(n) \in Sums
  <2>1. ASSUME NEW w PROVE Xor([p \in P(w) |-> n.store[p]]) \in Byte
    BY <1>1, XorByte
  <2> QED BY <2>1 DEF CalculateChecksum, Sums, P
<1>3. ChecksumExtents(bytes, n) \in Sums
  <2>1. ASSUME NEW w
        PROVE  Xor([p \in P(w) |-> bytes[MapBlock(n, p \div BlockSize)][p % BlockSize]]) \in Byte
    BY <1>1, XorByte
  <2> QED BY <2>1 DEF ChecksumExtents, Sums, P
<1> QED BY <1>2, <1>3 DEF InodeChecksum

(* A state with another inode.                                             *)
LEMMA OtherInode ==
  ASSUME NEW first, NEW end, NEW I, NEW J, NEW fs \in States(first, end, I), NEW m \in J
  PROVE  LET r == [fs EXCEPT !.n = m]
         IN  /\ r \in States(first, end, J)
             /\ r.n = m /\ r.dmap = fs.dmap /\ r.free = fs.free /\ r.disk = fs.disk /\ r.rc = fs.rc
<1>1. [fs EXCEPT !.n = m] \in States(first, end, J)
  BY DEF States
<1>2. LET r == [fs EXCEPT !.n = m]
      IN  r.n = m /\ r.dmap = fs.dmap /\ r.free = fs.free /\ r.disk = fs.disk /\ r.rc = fs.rc
  BY DEF States
<1> QED BY <1>1, <1>2

LEMMA OtherSize ==
  ASSUME NEW n \in BlockInodes \cup InlineInodes, NEW size
  PROVE  LET m == [n EXCEPT !.size = size]
         IN  /\ m.size = size /\ m.inline = n.inline /\ m.blocks = n.blocks /\ m.sum = n.sum
             /\ m.store = n.store
             /\ n \in BlockInodes /\ size \in Nat => m \in BlockInodes
             /\ n \in InlineInodes /\ size \in 0 .. InlineSize => m \in InlineInodes
  BY DEF BlockInodes, InlineInodes

LEMMA OtherSum ==
  ASSUME NEW n \in BlockInodes \cup InlineInodes, NEW sum
  PROVE  LET m == [n EXCEPT !.sum = sum]
         IN  /\ m.sum = sum /\ m.inline = n.inline /\ m.blocks = n.blocks /\ m.size = n.size
             /\ m.store = n.store
             /\ n \in BlockInodes /\ sum \in Sums => m \in BlockInodes
             /\ n \in InlineInodes /\ sum \in Sums => m \in InlineInodes
  BY DEF BlockInodes, InlineInodes

(* The checksum does not read itself.                                      *)
LEMMA SameChecksum ==
  ASSUME NEW bytes, NEW n, NEW m, m.inline = n.inline, m.size = n.size, m.store = n.store
  PROVE  InodeChecksum(bytes, m) = InodeChecksum(bytes, n)
  BY DEF InodeChecksum, CalculateChecksum, ChecksumExtents, MapBlock, BlocksOf

(* The file has its new size and its checksum.                             *)
LEMMA Finished ==
  ASSUME NEW first, NEW end, NEW others, NEW fs, Sound(first, end, others, fs), fs.rc = "OK",
         NEW size \in Nat
  PROVE  LET r == Checksummed(Resized(fs, size))
         IN  /\ Sound(first, end, others, r) /\ r.rc = "OK" /\ r.disk = fs.disk
             /\ r.n.size = size /\ r.n.blocks = fs.n.blocks /\ r.free = fs.free
             /\ r.n.sum = InodeChecksum(r.disk, r.n) /\ r.n.store = fs.n.store
<1> DEFINE m == [fs.n EXCEPT !.size = size]
           x == Resized(fs, size)
           sum == InodeChecksum(x.disk, x.n)
           k == [x.n EXCEPT !.sum = sum]
           r == Checksummed(x)
<1>0. SoundFacts(first, end, fs)
  BY SoundFields
<1>1. fs \in States(first, end, BlockInodes) /\ fs.n \in BlockInodes /\ fs.disk = fs.disk
  BY <1>0 DEF Sound, SoundFacts
<1>2. x = [fs EXCEPT !.n = m]
  <2>1. x = [fs EXCEPT !.n.size = size]
    BY DEF Resized
  <2> QED BY <1>1, <2>1 DEF States
<1>3. m \in BlockInodes /\ m.size = size /\ m.blocks = fs.n.blocks /\ m.store = fs.n.store
  BY <1>1, OtherSize
<1> HIDE DEF m, x
<1>4. /\ x \in States(first, end, BlockInodes)
      /\ x.n = m /\ x.dmap = fs.dmap /\ x.free = fs.free /\ x.disk = fs.disk /\ x.rc = fs.rc
  BY <1>1, <1>2, <1>3, OtherInode
<1>5. r = [x EXCEPT !.n = k]
  <2>1. r = [x EXCEPT !.n.sum = sum]
    BY <1>4 DEF Checksummed
  <2> QED BY <1>4, <2>1 DEF States
<1>6. sum \in Sums
  BY <1>3, <1>4, ChecksumType
<1> HIDE DEF sum
<1>7. /\ k \in BlockInodes /\ k.sum = sum /\ k.size = size /\ k.blocks = fs.n.blocks
      /\ k.store = fs.n.store /\ k.inline = x.n.inline
  BY <1>3, <1>4, <1>6, OtherSum
<1> HIDE DEF k, r
<1>8. /\ r \in States(first, end, BlockInodes)
      /\ r.n = k /\ r.dmap = fs.dmap /\ r.free = fs.free /\ r.disk = fs.disk /\ r.rc = fs.rc
  BY <1>4, <1>5, <1>7, OtherInode
<1>9. Sound(first, end, others, r)
  BY <1>7, <1>8 DEF Sound
<1>10. r.n.sum = InodeChecksum(r.disk, r.n)
  <2>1. InodeChecksum(x.disk, k) = InodeChecksum(x.disk, x.n)
    BY <1>3, <1>4, <1>7, SameChecksum
  <2> QED BY <1>4, <1>7, <1>8, <2>1 DEF sum
<1> QED BY <1>7, <1>8, <1>9, <1>10 DEF r, x

(* A file that has just the blocks for its size.                           *)
Whole(first, end, others, fs) ==
  \/ Flat(first, end, others, fs)
  \/ Sound(first, end, others, fs) /\ fs.n.blocks = BlocksFor(fs.n.size)

(* What a file that has blocks becomes when it needs blocks for target     *)
(* bytes: one with that many, or the same, or the call never returns.      *)
Reshaped(first, end, others, fs, needed, blocks, r) ==
  /\ Sound(first, end, others, r)
  /\ r.rc \in {"OK", "EFBIG", "ENOSPC", "LOOP"}
  /\ r.rc = "OK" => Keeps(others, fs, r) /\ r.n.blocks = blocks
  /\ r.rc = "LOOP" => needed >= Width /\ Keeps(others, fs, r) /\ fs.n.blocks <= r.n.blocks
  /\ r.rc \in {"EFBIG", "ENOSPC"} => Restores(fs, r)
  /\ r.rc = "ENOSPC" => needed - fs.n.blocks > fs.free

LEMMA Extended ==
  ASSUME NEW first, NEW end, NEW others, NEW fs, Sound(first, end, others, fs), fs.rc = "OK",
         fs.n.blocks = BlocksFor(fs.n.size), NEW target \in Nat
  PROVE  Reshaped(first, end, others, fs, BlocksFor(target),
                  BlocksFor(IF target >= fs.n.size THEN target ELSE fs.n.size),
                  EnsureBlocksForSize(fs, target))
<1> DEFINE needed == BlocksFor(target)
           size == fs.n.size
           big == IF target >= size THEN target ELSE size
           r == EnsureBlocksForSize(fs, target)
<1>1. size \in Nat /\ fs.n.blocks \in Nat
  BY SoundFields DEF SoundFacts
<1>2. Ensured(first, end, others, fs, needed, r)
  BY EnsureBlocks
<1> HIDE DEF r
<1>3. needed \in Nat /\ BlocksFor(size) \in Nat
  BY <1>1, BlocksForBytes
<1>4. (target >= size => BlocksFor(size) <= needed) /\ (target < size => needed <= BlocksFor(size))
  BY <1>1, BlocksForMore
<1>5. ASSUME r.rc = "OK" PROVE Keeps(others, fs, r) /\ r.n.blocks = BlocksFor(big)
  <2>1. Grew(fs, r) /\ needed <= r.n.blocks /\ (r.n.blocks = needed \/ r.n.blocks = fs.n.blocks)
    BY <1>2, <1>5 DEF Ensured
  <2>2. Keeps(others, fs, r)
    BY <2>1, GrewKeeps
  <2>3. fs.n.blocks <= r.n.blocks
    BY <2>1 DEF Grew
  <2> HIDE DEF needed, size
  <2>4. CASE target >= size
    <3>1. r.n.blocks = needed
      BY <1>1, <1>3, <1>4, <2>1, <2>3, <2>4 DEF size
    <3> QED BY <2>2, <2>4, <3>1 DEF needed
  <2>5. CASE ~(target >= size)
    <3>1. target < size
      BY <1>1, <2>5
    <3>2. r.n.blocks = BlocksFor(size)
      BY <1>1, <1>3, <1>4, <2>1, <2>3, <3>1 DEF size
    <3> QED BY <2>2, <2>5, <3>2
  <2> QED BY <2>4, <2>5
<1>6. ASSUME r.rc = "LOOP" PROVE Keeps(others, fs, r) /\ fs.n.blocks <= r.n.blocks
  <2>1. Grew(fs, r)
    BY <1>2, <1>6 DEF Ensured
  <2>2. Keeps(others, fs, r)
    BY <2>1, GrewKeeps
  <2> QED BY <2>1, <2>2 DEF Grew
<1> QED BY <1>2, <1>5, <1>6 DEF Ensured, Reshaped, r

(* Bytes put to a file that was extended.                                  *)
LEMMA PutAfter ==
  ASSUME NEW first, NEW end, NEW others, NEW fs, Sound(first, end, others, fs),
         NEW needed, NEW blocks, NEW x, Reshaped(first, end, others, fs, needed, blocks, x),
         NEW P \in SUBSET Nat, NEW bytes \in [P -> Byte], \A p \in P : p \div BlockSize < blocks
  PROVE  Reshaped(first, end, others, fs, needed, blocks, Put(x, bytes))
<1> DEFINE r == Put(x, bytes)
<1>1. CASE x.rc # "OK"
  <2>1. r = x
    BY <1>1 DEF Put
  <2> QED BY <2>1
<1>2. CASE x.rc = "OK"
  <2>1. Sound(first, end, others, x) /\ Keeps(others, fs, x) /\ x.n.blocks = blocks
    BY <1>2 DEF Reshaped
  <2>2. \A p \in P : p \div BlockSize < x.n.blocks
    BY <2>1
  <2>3. Sound(first, end, others, r) /\ Keeps(others, x, r) /\ r.rc = "OK" /\ r.n = x.n
    BY <1>2, <2>1, <2>2, PutBytes
  <2> HIDE DEF r
  <2>4. DOMAIN fs.disk = DOMAIN x.disk
    <3>1. SoundFacts(first, end, fs) /\ SoundFacts(first, end, x)
      BY <2>1, SoundFields
    <3> QED BY <3>1 DEF SoundFacts
  <2>5. Keeps(others, fs, r)
    BY <2>1, <2>3, <2>4, KeepsTwice
  <2> QED BY <2>1, <2>3, <2>5 DEF Reshaped, r
<1> QED BY <1>1, <1>2

LEMMA ZeroAfter ==
  ASSUME NEW first, NEW end, NEW others, NEW fs, Sound(first, end, others, fs),
         NEW needed, NEW size \in Nat, NEW x,
         Reshaped(first, end, others, fs, needed, BlocksFor(size), x),
         NEW from \in Nat, NEW to \in Nat, to <= size
  PROVE  Reshaped(first, end, others, fs, needed, BlocksFor(size), ZeroExtentRange(x, from, to))
<1> DEFINE P == from .. to - 1
           bytes == [p \in P |-> 0]
           blocks == BlocksFor(size)
<1>1. P \in SUBSET Nat /\ bytes \in [P -> Byte]
  BY DEF Byte
<1>2. \A p \in P : p \div BlockSize < blocks
  BY PositionInFile
<1>3. ZeroExtentRange(x, from, to) = Put(x, bytes)
  BY DEF ZeroExtentRange
<1> HIDE DEF P, bytes, blocks
<1>4. Reshaped(first, end, others, fs, needed, blocks, x)
  BY DEF blocks
<1>5. Reshaped(first, end, others, fs, needed, blocks, Put(x, bytes))
  BY <1>1, <1>2, <1>4, PutAfter
<1> QED BY <1>3, <1>5 DEF blocks

(* truncate, for a file that has blocks.                                   *)
LEMMA TruncatesBlocks ==
  ASSUME NEW first, NEW end, NEW others, NEW fs, Sound(first, end, others, fs), fs.rc = "OK",
         fs.n.blocks = BlocksFor(fs.n.size), NEW size \in Nat
  PROVE  Reshaped(first, end, others, fs, BlocksFor(size), BlocksFor(size),
                  TruncatedBlocks(fs, size))
<1> DEFINE r == TruncatedBlocks(fs, size)
<1>0. SoundFacts(first, end, fs)
  BY SoundFields
<1>1. fs.n.size \in Nat /\ fs.n.blocks \in Nat
  BY <1>0 DEF SoundFacts
<1>2. CASE size > fs.n.size
  <2> DEFINE x == EnsureBlocksForSize(fs, size)
             big == IF size >= fs.n.size THEN size ELSE fs.n.size
  <2>1. r = ZeroExtentRange(x, fs.n.size, size)
    <3>1. ~(size < fs.n.size)
      BY <1>1, <1>2
    <3> QED BY <1>2, <3>1, Zenon DEF TruncatedBlocks
  <2>2. Reshaped(first, end, others, fs, BlocksFor(size), BlocksFor(big), x)
    BY Extended
  <2>3. big = size
    BY <1>1, <1>2
  <2> HIDE DEF x, big
  <2>4. Reshaped(first, end, others, fs, BlocksFor(size), BlocksFor(size), x)
    BY <2>2, <2>3
  <2> DEFINE z == ZeroExtentRange(x, fs.n.size, size)
  <2>5. Reshaped(first, end, others, fs, BlocksFor(size), BlocksFor(size), z)
    BY <1>1, <2>4, ZeroAfter
  <2> QED BY <2>1, <2>5
<1>3. CASE size < fs.n.size
  <2>1. r = ShrinkToSize(fs, size)
    BY <1>1, <1>3 DEF TruncatedBlocks
  <2>2. BlocksFor(size) <= fs.n.blocks
    BY <1>1, <1>3, BlocksForMore
  <2> DEFINE z == ShrinkToSize(fs, size)
  <2>3. Sound(first, end, others, z) /\ Keeps(others, fs, z) /\ z.rc = "OK"
        /\ z.n.blocks = BlocksFor(size)
    BY <2>2, Shrunk
  <2> HIDE DEF z
  <2>4. Reshaped(first, end, others, fs, BlocksFor(size), BlocksFor(size), z)
    BY <2>3 DEF Reshaped
  <2> QED BY <2>1, <2>4 DEF z
<1>4. CASE size = fs.n.size
  <2>1. r = fs
    BY <1>1, <1>4 DEF TruncatedBlocks
  <2>2. Reshaped(first, end, others, fs, BlocksFor(size), BlocksFor(size), fs)
    BY <1>4 DEF Reshaped, Keeps
  <2> QED BY <2>1, <2>2
<1> QED BY <1>1, <1>2, <1>3, <1>4

(* write, for a file that has blocks.                                      *)
LEMMA WritesBlocks ==
  ASSUME NEW first, NEW end, NEW others, NEW fs, Sound(first, end, others, fs), fs.rc = "OK",
         fs.n.blocks = BlocksFor(fs.n.size), NEW at \in Nat, NEW to \in Nat, at <= to,
         NEW buf \in [at .. to - 1 -> Byte]
  PROVE  Reshaped(first, end, others, fs, BlocksFor(to),
                  BlocksFor(IF to >= fs.n.size THEN to ELSE fs.n.size),
                  WrittenBlocks(fs, at, buf, to))
<1> DEFINE big == IF to >= fs.n.size THEN to ELSE fs.n.size
           blocks == BlocksFor(big)
           P == at .. to - 1
           x == EnsureBlocksForSize(fs, to)
           y == ZeroExtentRange(x, fs.n.size, at)
           r == Put(y, buf)
<1>0. SoundFacts(first, end, fs)
  BY SoundFields
<1>1. big \in Nat /\ fs.n.size \in Nat /\ at <= big /\ to <= big
  BY <1>0 DEF SoundFacts
<1>2. Reshaped(first, end, others, fs, BlocksFor(to), blocks, x)
  BY Extended
<1>3. r = WrittenBlocks(fs, at, buf, to)
  BY DEF WrittenBlocks
<1>4. P \in SUBSET Nat /\ buf \in [P -> Byte]
  OBVIOUS
<1>5. \A p \in P : p \div BlockSize < blocks
  <2>1. \A p \in P : p \in Nat /\ p < big
    BY <1>1
  <2> HIDE DEF big, P
  <2> QED BY <1>1, <2>1, PositionInFile
<1> HIDE DEF x, big, P
<1>6. Reshaped(first, end, others, fs, BlocksFor(to), blocks, y)
  BY <1>1, <1>2, ZeroAfter
<1> HIDE DEF y
<1>7. Reshaped(first, end, others, fs, BlocksFor(to), blocks, r)
  <2> HIDE DEF blocks
  <2> QED BY <1>4, <1>5, <1>6, PutAfter
<1> QED BY <1>3, <1>7 DEF big

(* What truncate or write makes of a file, of which the blocks in others   *)
(* are no part, when it needs that many blocks: a file with its size, its  *)
(* blocks and its checksum, or the file that was; it may keep the daemon   *)
(* for ever.                                                               *)
Changed(first, end, others, fs, needed, r) ==
  /\ r.rc \in {"OK", "EFBIG", "ENOSPC", "LOOP"}
  /\ r.rc # "LOOP" => Whole(first, end, others, r)
  /\ r.rc = "LOOP" => /\ Sound(first, end, others, r) /\ needed >= Width
                      /\ r.n.size = fs.n.size /\ BlocksFor(r.n.size) <= r.n.blocks
  /\ r.rc \in {"OK", "LOOP"} => \A b \in others \cap DOMAIN fs.disk : r.disk[b] = fs.disk[b]
  /\ r.rc = "OK" => r.n.sum = InodeChecksum(r.disk, r.n)
  /\ r.rc \in {"EFBIG", "ENOSPC"} => Restores(fs, r)
  /\ r.rc = "ENOSPC" => needed - fs.n.blocks > fs.free

LEMMA WholeFields ==
  ASSUME NEW first, NEW end, NEW others, NEW fs, Whole(first, end, others, fs)
  PROVE  /\ fs.n.inline \in BOOLEAN /\ fs.n.size \in Nat /\ fs.n.blocks \in Nat
         /\ DOMAIN fs.disk = first .. end - 1 /\ others \subseteq fs.dmap
         /\ fs.n.inline => Flat(first, end, others, fs)
         /\ ~fs.n.inline => Sound(first, end, others, fs) /\ fs.n.blocks = BlocksFor(fs.n.size)
<1>1. CASE Flat(first, end, others, fs)
  <2>1. FlatFacts(first, end, others, fs)
    BY <1>1, FlatFields
  <2>2. /\ fs.n.inline = TRUE /\ fs.n.size \in Nat /\ fs.n.blocks = 0
        /\ DOMAIN fs.disk = first .. end - 1 /\ fs.dmap = others
    BY <2>1 DEF FlatFacts
  <2>3. fs.n.inline \in BOOLEAN /\ fs.n.inline
    BY <2>2, Zenon
  <2> QED BY <1>1, <2>2, <2>3
<1>2. CASE Sound(first, end, others, fs) /\ fs.n.blocks = BlocksFor(fs.n.size)
  <2>1. SoundFacts(first, end, fs)
    BY <1>2, SoundFields
  <2>2. others \subseteq fs.dmap
    BY <1>2 DEF Sound
  <2> QED BY <1>2, <2>1, <2>2 DEF SoundFacts
<1> QED BY <1>1, <1>2 DEF Whole

(* The file before truncate or write extends it.                           *)
LEMMA ConvertedFile ==
  ASSUME NEW first, NEW end, NEW others, NEW fs, Whole(first, end, others, fs), fs.rc = "OK",
         ConvertInlineToExtents(fs).rc = "OK"
  PROVE  LET c == ConvertInlineToExtents(fs)
         IN  /\ Sound(first, end, others, c) /\ Keeps(others, fs, c)
             /\ c.n.size = fs.n.size /\ c.n.blocks = BlocksFor(c.n.size)
<1> DEFINE c == ConvertInlineToExtents(fs)
<1>1. CASE fs.n.inline
  <2>1. Flat(first, end, others, fs)
    BY <1>1, WholeFields
  <2>2. Converted(first, end, others, fs, c)
    BY <2>1, Convert
  <2>3. c.rc = "OK"
    OBVIOUS
  <2> HIDE DEF c
  <2>4. Sound(first, end, others, c) /\ Keeps(others, fs, c) /\ c.n.blocks = BlocksFor(fs.n.size)
    BY <2>2, <2>3 DEF Converted
  <2> QED BY <2>4 DEF Keeps, c
<1>2. CASE ~fs.n.inline
  <2>1. c = fs
    BY <1>2 DEF ConvertInlineToExtents
  <2>2. Sound(first, end, others, fs) /\ fs.n.blocks = BlocksFor(fs.n.size)
    BY <1>2, WholeFields
  <2> QED BY <2>1, <2>2 DEF Keeps
<1> QED BY <1>1, <1>2, WholeFields

LEMMA RestoresKeeps ==
  ASSUME NEW first, NEW end, NEW others, NEW fs, NEW r, Sound(first, end, others, fs), Restores(fs, r)
  PROVE  Keeps(others, fs, r)
<1>1. others \subseteq fs.dmap
  BY DEF Sound
<1> QED BY <1>1 DEF Restores, Keeps

(* A call that does not succeed ends as it is.                             *)
LEMMA EndOfFailed ==
  ASSUME NEW fs, NEW size, fs.rc # "OK"
  PROVE  Checksummed(Resized(fs, size)) = fs
  BY DEF Checksummed, Resized

(* What the tail of a call does not change of t, what there is before it.  *)
Ended(t, size, r) ==
  /\ r.rc = t.rc
  /\ r.rc = "OK" => r.n.size = size /\ \A p : Reads(r, p) = Reads(t, p)
  /\ r.rc = "LOOP" => r = t

(* The tail of exfs_truncate and exfs_write: t is what there is before it. *)
LEMMA CallEnds ==
  ASSUME NEW first, NEW end, NEW others, NEW fs, Whole(first, end, others, fs), fs.rc = "OK",
         NEW needed \in Nat, NEW size \in Nat, NEW t,
         fs.n.inline => BlocksFor(fs.n.size) <= needed,
         ConvertInlineToExtents(fs).rc # "OK" => t = ConvertInlineToExtents(fs),
         ConvertInlineToExtents(fs).rc = "OK" =>
           Reshaped(first, end, others, ConvertInlineToExtents(fs), needed, BlocksFor(size), t)
  PROVE  /\ Changed(first, end, others, fs, needed, Checksummed(Resized(Undone(fs, t), size)))
         /\ Ended(t, size, Checksummed(Resized(Undone(fs, t), size)))
<1> DEFINE c == ConvertInlineToExtents(fs)
           u == Undone(fs, t)
           r == Checksummed(Resized(u, size))
<1>0. /\ fs.n.inline \in BOOLEAN /\ fs.n.size \in Nat /\ fs.n.blocks \in Nat
      /\ DOMAIN fs.disk = first .. end - 1 /\ others \subseteq fs.dmap
      /\ fs.n.inline => Flat(first, end, others, fs)
      /\ ~fs.n.inline => Sound(first, end, others, fs) /\ fs.n.blocks = BlocksFor(fs.n.size)
  BY WholeFields
<1>1. c.rc = "OK" => /\ Sound(first, end, others, c) /\ Keeps(others, fs, c)
                     /\ c.n.size = fs.n.size /\ c.n.blocks = BlocksFor(c.n.size)
                     /\ Reshaped(first, end, others, c, needed, BlocksFor(size), t)
  BY ConvertedFile
<1>2. fs.n.inline => Converted(first, end, others, fs, c)
  BY <1>0, Convert
<1>3. ~fs.n.inline => c = fs
  BY DEF ConvertInlineToExtents
<1>4. c.rc # "OK" => t = c
  OBVIOUS
<1>5. t.rc \in {"OK", "LOOP"} \/ ~fs.n.inline => u = t
  BY DEF Undone
<1>6. u.rc # "OK" => r = u
  BY EndOfFailed
<1>7. BlocksFor(fs.n.size) \in Nat
  BY <1>0, BlocksForBytes
<1> HIDE DEF c
<1>8. CASE t.rc = "OK"
  <2>1. c.rc = "OK" /\ u = t
    BY <1>4, <1>5, <1>8
  <2>2. Sound(first, end, others, t) /\ Keeps(others, c, t) /\ t.n.blocks = BlocksFor(size)
    BY <1>1, <1>8, <2>1 DEF Reshaped
  <2> DEFINE z == Checksummed(Resized(t, size))
  <2>3. /\ Sound(first, end, others, z) /\ z.rc = "OK" /\ z.disk = t.disk
        /\ z.n.size = size /\ z.n.blocks = t.n.blocks /\ z.n.sum = InodeChecksum(z.disk, z.n)
        /\ z.n.store = t.n.store
    BY <1>8, <2>2, Finished
  <2>4. r = z
    BY <2>1
  <2> HIDE DEF z, r, u
  <2>5. DOMAIN c.disk = DOMAIN fs.disk
    <3>1. SoundFacts(first, end, c)
      BY <1>1, <2>1, SoundFields
    <3> QED BY <1>0, <3>1 DEF SoundFacts
  <2>6. \A b \in others \cap DOMAIN fs.disk : t.disk[b] = fs.disk[b]
    BY <1>1, <2>1, <2>2, <2>5 DEF Keeps
  <2>7. Whole(first, end, others, z)
    BY <2>2, <2>3 DEF Whole
  <2>8. Changed(first, end, others, fs, needed, z)
    BY <2>3, <2>6, <2>7 DEF Changed
  <2>9. z.n.inline = t.n.inline
    <3>1. SoundFacts(first, end, z) /\ SoundFacts(first, end, t)
      BY <2>2, <2>3, SoundFields
    <3> QED BY <3>1 DEF SoundFacts
  <2>10. \A p : Reads(z, p) = Reads(t, p)
    BY <2>3, <2>9, BlocksOfStore DEF Reads, ByteAt, MapBlock
  <2>11. Ended(t, size, z)
    BY <1>8, <2>3, <2>10 DEF Ended
  <2> QED BY <2>4, <2>8, <2>11 DEF r, u
<1>9. CASE t.rc = "LOOP"
  <2>1. u = t /\ r = t
    BY <1>5, <1>6, <1>9
  <2> HIDE DEF r, u
  <2>2. c.rc = "OK"
    <3> SUFFICES ASSUME c.rc # "OK" PROVE FALSE
      OBVIOUS
    <3>1. fs.n.inline /\ t = c
      BY <1>0, <1>3, <1>4
    <3> QED BY <1>2, <1>9, <3>1 DEF Converted
  <2>3. /\ Sound(first, end, others, t) /\ needed >= Width /\ Keeps(others, c, t)
        /\ c.n.blocks <= t.n.blocks
    BY <1>1, <1>9, <2>2 DEF Reshaped
  <2>4. DOMAIN c.disk = DOMAIN fs.disk
    <3>1. SoundFacts(first, end, c)
      BY <1>1, <2>2, SoundFields
    <3> QED BY <1>0, <3>1 DEF SoundFacts
  <2>5. Keeps(others, fs, t)
    BY <1>1, <2>2, <2>3, <2>4, KeepsTwice
  <2>6. t.n.size = fs.n.size /\ BlocksFor(t.n.size) <= t.n.blocks
    BY <1>1, <2>2, <2>3, <2>5 DEF Keeps
  <2>7. Changed(first, end, others, fs, needed, t)
    BY <1>9, <2>3, <2>5, <2>6 DEF Changed, Keeps
  <2>8. Ended(t, size, t)
    BY <1>9 DEF Ended
  <2> QED BY <2>1, <2>7, <2>8 DEF r, u
<1>10. CASE t.rc \in {"EFBIG", "ENOSPC"} /\ ~fs.n.inline
  <2>1. u = t /\ r = t /\ c = fs
    BY <1>3, <1>5, <1>6, <1>10
  <2> HIDE DEF r, u
  <2>2. Reshaped(first, end, others, fs, needed, BlocksFor(size), t)
    BY <1>1, <2>1
  <2>3. Sound(first, end, others, t) /\ Restores(fs, t) /\ t.n.blocks = BlocksFor(t.n.size)
    BY <1>0, <1>10, <2>2 DEF Reshaped, Restores
  <2>4. Changed(first, end, others, fs, needed, t)
    BY <1>10, <2>2, <2>3 DEF Changed, Whole, Reshaped
  <2>5. Ended(t, size, t)
    BY <1>10 DEF Ended
  <2> QED BY <2>1, <2>4, <2>5 DEF r, u
<1>11. CASE t.rc \in {"EFBIG", "ENOSPC"} /\ fs.n.inline
  <2>1. Flat(first, end, others, fs) /\ fs.n.blocks = 0 /\ fs.free \in Nat
    <3>1. Flat(first, end, others, fs)
      BY <1>0, <1>11
    <3>2. FlatFacts(first, end, others, fs)
      BY <3>1, FlatFields
    <3> QED BY <3>1, <3>2 DEF FlatFacts
  <2>2. /\ \/ Sound(first, end, others, t) /\ Keeps(others, fs, t)
           \/ Flat(first, end, others, t) /\ Restores(fs, t)
        /\ t.rc = "ENOSPC" => needed - fs.n.blocks > fs.free
    <3>1. CASE c.rc = "OK"
      <4>1. Sound(first, end, others, t) /\ Restores(c, t)
            /\ (t.rc = "ENOSPC" => needed - c.n.blocks > c.free)
        BY <1>1, <1>11, <3>1 DEF Reshaped
      <4>2. Keeps(others, c, t)
        BY <1>1, <3>1, <4>1, RestoresKeeps
      <4>3. SoundFacts(first, end, c)
        BY <1>1, <3>1, SoundFields
      <4>4. DOMAIN c.disk = DOMAIN fs.disk /\ c.free \in Nat /\ c.n.blocks \in Nat
        BY <1>0, <4>3 DEF SoundFacts
      <4>5. Keeps(others, fs, t)
        BY <1>1, <3>1, <4>2, <4>4, KeepsTwice
      <4>6. c.free + c.n.blocks = fs.free
        BY <1>1, <2>1, <3>1 DEF Keeps
      <4>7. t.rc = "ENOSPC" => needed - fs.n.blocks > fs.free
        BY <2>1, <4>1, <4>4, <4>6
      <4> QED BY <4>1, <4>5, <4>7
    <3>2. CASE c.rc # "OK"
      <4>1. t = c
        BY <1>4, <3>2
      <4>2. Flat(first, end, others, t) /\ Restores(fs, t)
            /\ (t.rc = "ENOSPC" => BlocksFor(fs.n.size) > fs.free)
        BY <1>2, <1>11, <4>1 DEF Converted
      <4>3. BlocksFor(fs.n.size) <= needed
        BY <1>11
      <4>4. t.rc = "ENOSPC" => needed - fs.n.blocks > fs.free
        BY <1>7, <2>1, <4>2, <4>3
      <4> QED BY <4>2, <4>4
    <3> QED BY <3>1, <3>2
  <2>3. Flat(first, end, others, Undone(fs, t)) /\ Restores(fs, Undone(fs, t))
        /\ Undone(fs, t).rc = t.rc
    BY <1>11, <2>1, <2>2, UndoneRestores
  <2>4. Flat(first, end, others, u) /\ Restores(fs, u) /\ u.rc = t.rc
    BY <2>3
  <2>5. r = u
    BY <1>6, <1>11, <2>4
  <2> HIDE DEF r, u
  <2>6. Changed(first, end, others, fs, needed, u)
    BY <1>11, <2>2, <2>4 DEF Changed, Whole
  <2>7. Ended(t, size, u)
    BY <1>11, <2>4 DEF Ended
  <2> QED BY <2>5, <2>6, <2>7 DEF r, u
<1>12. t.rc \in {"OK", "LOOP", "EFBIG", "ENOSPC"}
  <2>1. CASE c.rc = "OK"
    BY <1>1, <2>1 DEF Reshaped
  <2>2. CASE c.rc # "OK"
    BY <1>0, <1>2, <1>3, <1>4, <2>2 DEF Converted
  <2> QED BY <2>1, <2>2
<1> QED BY <1>8, <1>9, <1>10, <1>11, <1>12

(* A file that stays inline.                                               *)
LEMMA FinishedInline ==
  ASSUME NEW first, NEW end, NEW others, NEW fs, Flat(first, end, others, fs), fs.rc = "OK",
         NEW needed, NEW m \in InlineInodes
  PROVE  LET r == Checksummed([fs EXCEPT !.n = m])
         IN  /\ Changed(first, end, others, fs, needed, r)
             /\ r.rc = "OK" /\ r.n.size = m.size /\ r.n.store = m.store /\ r.n.inline = m.inline
<1> DEFINE x == [fs EXCEPT !.n = m]
           sum == InodeChecksum(x.disk, x.n)
           k == [x.n EXCEPT !.sum = sum]
           r == Checksummed(x)
<1>1. fs \in States(first, end, InlineInodes) /\ m.size \in Nat
  BY DEF Flat, InlineInodes
<1>2. /\ x \in States(first, end, InlineInodes)
      /\ x.n = m /\ x.dmap = fs.dmap /\ x.free = fs.free /\ x.disk = fs.disk /\ x.rc = fs.rc
  BY <1>1, OtherInode
<1> HIDE DEF x
<1>3. r = [x EXCEPT !.n = k]
  <2>1. r = [x EXCEPT !.n.sum = sum]
    BY <1>2 DEF Checksummed
  <2> QED BY <1>2, <2>1 DEF States
<1>4. sum \in Sums
  BY <1>1, <1>2, ChecksumType
<1> HIDE DEF sum
<1>5. k \in InlineInodes /\ k.sum = sum /\ k.size = m.size /\ k.store = m.store /\ k.inline = m.inline
  BY <1>2, <1>4, OtherSum
<1> HIDE DEF k, r
<1>6. /\ r \in States(first, end, InlineInodes)
      /\ r.n = k /\ r.dmap = fs.dmap /\ r.free = fs.free /\ r.disk = fs.disk /\ r.rc = fs.rc
  BY <1>2, <1>3, <1>5, OtherInode
<1>7. Flat(first, end, others, r)
  BY <1>6 DEF Flat
<1>8. r.n.sum = InodeChecksum(r.disk, r.n)
  <2>1. InodeChecksum(x.disk, k) = InodeChecksum(x.disk, x.n)
    BY <1>2, <1>5, SameChecksum
  <2> QED BY <1>2, <1>5, <1>6, <2>1 DEF sum
<1>9. Changed(first, end, others, fs, needed, r)
  BY <1>6, <1>7, <1>8 DEF Changed, Whole
<1>10. r.rc = "OK" /\ r.n.size = m.size /\ r.n.store = m.store /\ r.n.inline = m.inline
  BY <1>2, <1>5, <1>6
<1> QED BY <1>9, <1>10 DEF r, x

LEMMA TruncatedInlineType ==
  ASSUME NEW n \in InlineInodes, NEW size \in 0 .. InlineSize
  PROVE  TruncatedInline(n, size) \in InlineInodes
<1> DEFINE st == [p \in DOMAIN n.store |->
                    IF p \in Min({size, n.size}) .. Max({size, n.size}) - 1 THEN 0 ELSE n.store[p]]
<1>1. n.store \in [0 .. InlineSize - 1 -> Byte]
  BY DEF InlineInodes
<1>2. st \in [0 .. InlineSize - 1 -> Byte]
  BY <1>1 DEF Byte
<1>3. TruncatedInline(n, size) = [n EXCEPT !.size = size, !.store = st]
  BY DEF TruncatedInline
<1> HIDE DEF st
<1> QED BY <1>2, <1>3 DEF InlineInodes

LEMMA WrittenInlineType ==
  ASSUME NEW n \in InlineInodes, NEW at \in Nat, NEW to \in Nat, NEW buf \in [at .. to - 1 -> Byte],
         NEW size \in 0 .. InlineSize
  PROVE  WrittenInline(n, at, buf, size) \in InlineInodes
<1> DEFINE v(p) == CASE p \in DOMAIN buf -> buf[p]
                     [] p \in n.size .. at - 1 -> 0
                     [] OTHER -> n.store[p]
           st == [p \in DOMAIN n.store |-> v(p)]
<1>1. n.store \in [0 .. InlineSize - 1 -> Byte] /\ DOMAIN n.store = 0 .. InlineSize - 1
      /\ n.size \in Nat
  BY DEF InlineInodes
<1>2. ASSUME NEW p \in 0 .. InlineSize - 1 PROVE v(p) \in Byte
  <2>0. DOMAIN buf = at .. to - 1 /\ p \in Int
    OBVIOUS
  <2>1. CASE p \in at .. to - 1
    <3>1. ~(p \in n.size .. at - 1)
      BY <2>1
    <3>2. v(p) = buf[p]
      BY <2>0, <2>1, <3>1
    <3> QED BY <2>1, <3>2
  <2>2. CASE ~(p \in at .. to - 1) /\ p \in n.size .. at - 1
    <3>1. v(p) = 0
      BY <2>0, <2>2
    <3> QED BY <3>1 DEF Byte
  <2>3. CASE ~(p \in at .. to - 1) /\ ~(p \in n.size .. at - 1)
    <3>1. v(p) = n.store[p]
      BY <2>0, <2>3
    <3> QED BY <1>1, <3>1
  <2> QED BY <2>1, <2>2, <2>3
<1>3. WrittenInline(n, at, buf, size) = [n EXCEPT !.size = size, !.store = st]
  BY DEF WrittenInline
<1> HIDE DEF v
<1>4. st \in [0 .. InlineSize - 1 -> Byte]
  BY <1>1, <1>2
<1> HIDE DEF st
<1> QED BY <1>3, <1>4 DEF InlineInodes

LEMMA WholeFailed ==
  ASSUME NEW first, NEW end, NEW others, NEW fs, Whole(first, end, others, fs), NEW rc \in Codes
  PROVE  /\ Whole(first, end, others, Failed(fs, rc)) /\ Restores(fs, Failed(fs, rc))
         /\ Failed(fs, rc).rc = rc
<1> DEFINE r == Failed(fs, rc)
<1>1. CASE Flat(first, end, others, fs)
  <2>1. fs \in States(first, end, InlineInodes)
    BY <1>1 DEF Flat
  <2>2. /\ r \in States(first, end, InlineInodes)
        /\ r = [first |-> first, end |-> end, free |-> fs.free, dmap |-> fs.dmap,
                disk |-> fs.disk, n |-> fs.n, rc |-> rc]
    BY <2>1, FailedState
  <2> HIDE DEF r
  <2>3. r.rc = rc /\ r.n = fs.n /\ r.dmap = fs.dmap /\ r.disk = fs.disk /\ r.free = fs.free
    BY <2>2
  <2>4. Flat(first, end, others, r)
    BY <1>1, <2>2, <2>3 DEF Flat
  <2> QED BY <2>3, <2>4 DEF Whole, Restores, r
<1>2. CASE Sound(first, end, others, fs) /\ fs.n.blocks = BlocksFor(fs.n.size)
  <2>1. /\ Sound(first, end, others, r) /\ r.rc = rc /\ r.n = fs.n /\ r.dmap = fs.dmap
        /\ r.disk = fs.disk /\ r.free = fs.free
    BY <1>2, SoundFailed
  <2> HIDE DEF r
  <2> QED BY <1>2, <2>1 DEF Whole, Restores, r
<1> QED BY <1>1, <1>2 DEF Whole

(* exfs_truncate, once the inode is found.                                 *)
LEMMA TruncateChanges ==
  ASSUME NEW first, NEW end, NEW others, NEW fs, Whole(first, end, others, fs), fs.rc = "OK",
         NEW size \in Nat
  PROVE  Changed(first, end, others, fs, BlocksFor(size), Truncated(fs, size))
<1>0. /\ fs.n.inline \in BOOLEAN /\ fs.n.size \in Nat
      /\ fs.n.inline => Flat(first, end, others, fs)
  BY WholeFields
<1>1. CASE fs.n.inline /\ size <= InlineSize
  <2> DEFINE m == TruncatedInline(fs.n, size)
             r == Checksummed([fs EXCEPT !.n = m])
  <2>1. Flat(first, end, others, fs)
    BY <1>0, <1>1
  <2>2. fs.n \in InlineInodes
    BY <2>1, FlatFields DEF FlatFacts
  <2>3. size \in 0 .. InlineSize
    BY <1>1, Sizes1
  <2>4. m \in InlineInodes
    BY <2>2, <2>3, TruncatedInlineType
  <2>5. Truncated(fs, size) = r
    BY <1>1 DEF Truncated
  <2> HIDE DEF m
  <2>6. Changed(first, end, others, fs, BlocksFor(size), r)
    BY <2>1, <2>4, FinishedInline
  <2> QED BY <2>5, <2>6
<1>2. CASE ~(fs.n.inline /\ size <= InlineSize)
  <2> DEFINE c == ConvertInlineToExtents(fs)
             t == TruncatedBlocks(c, size)
             needed == BlocksFor(size)
             r == Checksummed(Resized(Undone(fs, t), size))
  <2>1. Truncated(fs, size) = r
    BY <1>2, Zenon DEF Truncated
  <2>2. c.rc # "OK" => t = c
    <3> HIDE DEF c
    <3> SUFFICES ASSUME c.rc # "OK" PROVE t = c
      OBVIOUS
    <3>1. /\ EnsureBlocksForSize(c, size) = c /\ ShrinkToSize(c, size) = c
          /\ ZeroExtentRange(c, c.n.size, size) = c
      BY DEF EnsureBlocksForSize, ShrinkToSize, ZeroExtentRange, Put
    <3>2. t = CASE size > c.n.size -> c [] size < c.n.size -> c [] OTHER -> c
      BY <3>1 DEF TruncatedBlocks
    <3> QED BY <3>2
  <2>3. c.rc = "OK" => Reshaped(first, end, others, c, needed, BlocksFor(size), t)
    <3> SUFFICES ASSUME c.rc = "OK" PROVE Reshaped(first, end, others, c, needed, BlocksFor(size), t)
      OBVIOUS
    <3>1. Sound(first, end, others, c) /\ c.n.blocks = BlocksFor(c.n.size)
      BY ConvertedFile
    <3> HIDE DEF c
    <3> QED BY <3>1, TruncatesBlocks
  <2>4. fs.n.inline => BlocksFor(fs.n.size) <= needed
    <3> SUFFICES ASSUME fs.n.inline PROVE BlocksFor(fs.n.size) <= needed
      OBVIOUS
    <3>1. FlatFacts(first, end, others, fs)
      BY <1>0, FlatFields
    <3>2. fs.n.size <= InlineSize /\ ~(size <= InlineSize)
      BY <1>2, <3>1 DEF FlatFacts
    <3>3. fs.n.size <= size
      BY <1>0, <3>2, Sizes1
    <3> QED BY <1>0, <3>3, BlocksForMore
  <2>5. needed \in Nat
    BY BlocksForBytes
  <2>6. Changed(first, end, others, fs, needed, r)
    <3> HIDE DEF needed, t
    <3> QED BY <2>2, <2>3, <2>4, <2>5, CallEnds
  <2> QED BY <2>1, <2>6
<1> QED BY <1>1, <1>2

(* exfs_write, once the inode is found.                                    *)
LEMMA WriteChanges ==
  ASSUME NEW first, NEW end, NEW others, NEW fs, Whole(first, end, others, fs), fs.rc = "OK",
         NEW at \in Nat, NEW bytes \in Seq(Byte)
  PROVE  Changed(first, end, others, fs, BlocksFor(at + Len(bytes)), Written(fs, at, bytes))
<1> DEFINE to == at + Len(bytes)
           buf == [p \in at .. to - 1 |-> bytes[p - at + 1]]
           size == Max({to, fs.n.size})
           needed == BlocksFor(to)
<1>0. /\ fs.n.inline \in BOOLEAN /\ fs.n.size \in Nat
      /\ fs.n.inline => Flat(first, end, others, fs)
  BY WholeFields
<1>1. to \in Nat /\ at <= to /\ fs.end * BlockSize \in Int
  <2>1. fs.end \in Nat
    <3>1. CASE Flat(first, end, others, fs)
      <4>1. FlatFacts(first, end, others, fs)
        BY <3>1, FlatFields
      <4> QED BY <4>1 DEF FlatFacts
    <3>2. CASE Sound(first, end, others, fs)
      <4>1. SoundFacts(first, end, fs)
        BY <3>2, SoundFields
      <4> QED BY <4>1 DEF SoundFacts
    <3> QED BY <3>1, <3>2 DEF Whole
  <2> QED BY <2>1, Sizes1
<1>2. buf \in [at .. to - 1 -> Byte]
  <2>1. \A p \in at .. to - 1 : p - at + 1 \in 1 .. Len(bytes)
    BY <1>1
  <2> QED BY <2>1
<1>3. size = IF to >= fs.n.size THEN to ELSE fs.n.size
  <2> DEFINE x == to
             y == fs.n.size
  <2>1. x \in Int /\ y \in Int
    BY <1>0, <1>1
  <2> HIDE DEF x, y
  <2>2. Max({x, y}) \in {x, y} /\ \A z \in {x, y} : z <= Max({x, y})
    <3> DEFINE S == {x, y}
               n == IF x >= y THEN x ELSE y
    <3>1. S # {} /\ n \in Int /\ \A z \in S : z \in Int /\ z <= n
      BY <2>1
    <3> HIDE DEF S, n
    <3>2. Max(S) \in S /\ \A z \in S : z <= Max(S)
      BY <3>1, GreatestNumber
    <3> QED BY <3>2 DEF S
  <2>3. Max({x, y}) = IF x >= y THEN x ELSE y
    BY <2>1, <2>2
  <2> QED BY <2>3 DEF x, y
<1>4. size \in Nat
  BY <1>0, <1>1, <1>3
<1>5. Written(fs, at, bytes) =
        CASE to > fs.end * BlockSize -> Failed(fs, "EFBIG")
          [] to <= fs.end * BlockSize /\ fs.n.inline /\ to <= InlineSize ->
               Checksummed([fs EXCEPT !.n = WrittenInline(@, at, buf, size)])
          [] OTHER -> Checksummed(Resized(
               Undone(fs, WrittenBlocks(ConvertInlineToExtents(fs), at, buf, to)), size))
  BY Zenon DEF Written
<1> DEFINE w == Written(fs, at, bytes)
<1> HIDE DEF to, buf, size, w
<1>6. CASE to > fs.end * BlockSize
  <2>0. ~(to <= fs.end * BlockSize)
    BY <1>1, <1>6
  <2>1. w = Failed(fs, "EFBIG")
    BY <1>5, <1>6, <2>0, Zenon DEF w
  <2>2. "EFBIG" \in Codes
    BY DEF Codes
  <2> DEFINE r == Failed(fs, "EFBIG")
  <2>3. Whole(first, end, others, r) /\ Restores(fs, r) /\ r.rc = "EFBIG"
    BY <2>2, WholeFailed
  <2> HIDE DEF r
  <2>4. Changed(first, end, others, fs, needed, r)
    BY <2>3 DEF Changed
  <2> QED BY <2>1, <2>4 DEF r, to, w
<1>7. CASE ~(to > fs.end * BlockSize) /\ fs.n.inline /\ to <= InlineSize
  <2> DEFINE m == WrittenInline(fs.n, at, buf, size)
             r == Checksummed([fs EXCEPT !.n = m])
  <2>0. to <= fs.end * BlockSize
    BY <1>1, <1>7
  <2>1. w = Checksummed([fs EXCEPT !.n = WrittenInline(@, at, buf, size)])
    BY <1>5, <1>7, <2>0, Zenon DEF w
  <2>2. Flat(first, end, others, fs)
    BY <1>0, <1>7
  <2>3. fs.n \in InlineInodes /\ fs.n.size <= InlineSize
    BY <2>2, FlatFields DEF FlatFacts
  <2>4. size \in 0 .. InlineSize
    BY <1>0, <1>1, <1>3, <1>7, <2>3, Sizes1
  <2>5. m \in InlineInodes
    BY <1>1, <1>2, <2>3, <2>4, WrittenInlineType
  <2>6. w = r
    BY <2>1
  <2> HIDE DEF m
  <2>7. Changed(first, end, others, fs, needed, r)
    BY <2>2, <2>5, FinishedInline
  <2> QED BY <2>6, <2>7 DEF to, w
<1>8. CASE ~(to > fs.end * BlockSize) /\ ~(fs.n.inline /\ to <= InlineSize)
  <2> DEFINE c == ConvertInlineToExtents(fs)
             t == WrittenBlocks(c, at, buf, to)
             r == Checksummed(Resized(Undone(fs, t), size))
  <2>1. w = r
    BY <1>5, <1>8, Zenon DEF w
  <2>2. c.rc # "OK" => t = c
    <3> HIDE DEF c
    <3> QED BY DEF WrittenBlocks, EnsureBlocksForSize, ZeroExtentRange, Put
  <2>3. c.rc = "OK" => Reshaped(first, end, others, c, needed, BlocksFor(size), t)
    <3> SUFFICES ASSUME c.rc = "OK" PROVE Reshaped(first, end, others, c, needed, BlocksFor(size), t)
      OBVIOUS
    <3>1. Sound(first, end, others, c) /\ c.n.size = fs.n.size /\ c.n.blocks = BlocksFor(c.n.size)
      BY ConvertedFile
    <3> HIDE DEF c
    <3> DEFINE big == IF to >= c.n.size THEN to ELSE c.n.size
    <3>2. Reshaped(first, end, others, c, BlocksFor(to), BlocksFor(big), t)
      BY <1>1, <1>2, <3>1, WritesBlocks
    <3>3. big = size
      BY <1>3, <3>1
    <3> QED BY <3>2, <3>3
  <2>4. fs.n.inline => BlocksFor(fs.n.size) <= needed
    <3> SUFFICES ASSUME fs.n.inline PROVE BlocksFor(fs.n.size) <= needed
      OBVIOUS
    <3>1. FlatFacts(first, end, others, fs)
      BY <1>0, FlatFields
    <3>2. fs.n.size <= InlineSize /\ ~(to <= InlineSize)
      BY <1>8, <3>1 DEF FlatFacts
    <3>3. fs.n.size <= to
      BY <1>0, <1>1, <3>2, Sizes1
    <3> QED BY <1>0, <1>1, <3>3, BlocksForMore
  <2>5. needed \in Nat
    BY <1>1, BlocksForBytes
  <2>6. Changed(first, end, others, fs, needed, r)
    <3> HIDE DEF needed, t
    <3> QED BY <1>4, <2>2, <2>3, <2>4, <2>5, CallEnds
  <2> QED BY <2>1, <2>6 DEF to, w
<1> QED BY <1>6, <1>7, <1>8

-----------------------------------------------------------------------------
(* The blocks of an image                                                  *)

(* The blocks of an inode, and an inode that has those its size takes.     *)
Own(n) == IF n.inline THEN {} ELSE ToSet(Blks(n.store))
ValidInode(first, end, n) ==
  \/ n \in InlineInodes
  \/ /\ n \in BlockInodes /\ IsInjective(Blks(n.store))
     /\ ToSet(Blks(n.store)) \subseteq first .. end - 1
     /\ n.blocks = Len(Blks(n.store)) /\ n.blocks = BlocksFor(n.size)

(* In a table t of inodes every block in use has one owner, and the rest   *)
(* is free.                                                                *)
Accounted(first, end, free, d, t) ==
  /\ first \in Nat /\ end \in Nat /\ first <= end
  /\ d = (0 .. first - 1) \cup UNION {Own(t[i]) : i \in DOMAIN t}
  /\ \A i \in DOMAIN t : ValidInode(first, end, t[i])
  /\ \A i, j \in DOMAIN t : i # j => Own(t[i]) \cap Own(t[j]) = {}
  /\ free = end - Cardinality(d)

LEMMA OwnOfInline == \A n \in InlineInodes : n.inline = TRUE /\ Own(n) = {} /\ n.blocks = 0
<1> SUFFICES ASSUME NEW n \in InlineInodes PROVE n.inline = TRUE /\ Own(n) = {} /\ n.blocks = 0
  OBVIOUS
<1>1. n.inline = TRUE /\ n.blocks = 0
  BY DEF InlineInodes
<1> QED BY <1>1 DEF Own

LEMMA OwnOfBlocks == \A n \in BlockInodes : n.inline = FALSE /\ Own(n) = ToSet(Blks(n.store))
<1> SUFFICES ASSUME NEW n \in BlockInodes PROVE n.inline = FALSE /\ Own(n) = ToSet(Blks(n.store))
  OBVIOUS
<1>1. n.inline = FALSE
  BY DEF BlockInodes
<1> QED BY <1>1 DEF Own

LEMMA OwnInRegion ==
  ASSUME NEW first, NEW end, NEW n, ValidInode(first, end, n)
  PROVE  n \in BlockInodes \cup InlineInodes /\ Own(n) \subseteq first .. end - 1
<1>1. CASE n \in InlineInodes
  BY <1>1, OwnOfInline
<1>2. CASE n \in BlockInodes /\ ToSet(Blks(n.store)) \subseteq first .. end - 1
  BY <1>2, OwnOfBlocks
<1> QED BY <1>1, <1>2 DEF ValidInode

(* The blocks in use that inode i does not own.                            *)
LEMMA OthersOf ==
  ASSUME NEW first, NEW end, NEW free, NEW d, NEW t, Accounted(first, end, free, d, t),
         NEW i \in DOMAIN t
  PROVE  /\ 0 .. first - 1 \subseteq d \ Own(t[i]) /\ d \subseteq 0 .. end - 1
         /\ d = (d \ Own(t[i])) \cup Own(t[i])
         /\ \A j \in DOMAIN t \ {i} : Own(t[j]) \subseteq d \ Own(t[i])
         /\ d \ Own(t[i]) = (0 .. first - 1) \cup UNION {Own(t[j]) : j \in DOMAIN t \ {i}}
<1>1. \A j \in DOMAIN t : Own(t[j]) \subseteq first .. end - 1 /\ Own(t[j]) \subseteq d
  <2>1. \A j \in DOMAIN t : Own(t[j]) \subseteq first .. end - 1
    BY OwnInRegion DEF Accounted
  <2>2. \A j \in DOMAIN t : Own(t[j]) \subseteq d
    BY DEF Accounted
  <2> QED BY <2>1, <2>2
<1>2. first \in Nat /\ end \in Nat /\ first <= end
  BY DEF Accounted
<1>3. (0 .. first - 1) \cap (first .. end - 1) = {} /\ 0 .. first - 1 \subseteq 0 .. end - 1
      /\ first .. end - 1 \subseteq 0 .. end - 1
  BY <1>2
<1>4. d = (0 .. first - 1) \cup UNION {Own(t[j]) : j \in DOMAIN t}
  BY DEF Accounted
<1>5. \A j \in DOMAIN t : j # i => Own(t[j]) \cap Own(t[i]) = {}
  BY DEF Accounted
<1>6. /\ d \subseteq 0 .. end - 1 /\ 0 .. first - 1 \subseteq d \ Own(t[i])
      /\ Own(t[i]) \subseteq d
  <2> DEFINE A == 0 .. first - 1
             B == first .. end - 1
             C == 0 .. end - 1
  <2> HIDE DEF A, B, C
  <2>1. d = A \cup UNION {Own(t[j]) : j \in DOMAIN t} /\ A \cap B = {} /\ A \subseteq C /\ B \subseteq C
        /\ \A j \in DOMAIN t : Own(t[j]) \subseteq B /\ Own(t[j]) \subseteq d
    BY <1>1, <1>3, <1>4 DEF A, B, C
  <2>2. d \subseteq C /\ A \subseteq d \ Own(t[i])
    BY <2>1
  <2> QED BY <1>1, <2>2 DEF A, C
<1>7. \A j \in DOMAIN t \ {i} : Own(t[j]) \subseteq d \ Own(t[i])
  BY <1>1, <1>5
<1>8. d \ Own(t[i]) = (0 .. first - 1) \cup UNION {Own(t[j]) : j \in DOMAIN t \ {i}}
  <2> DEFINE A == 0 .. first - 1
  <2> HIDE DEF A
  <2>1. d = A \cup UNION {Own(t[j]) : j \in DOMAIN t} /\ A \subseteq d \ Own(t[i])
    BY <1>4, <1>6 DEF A
  <2>2. d \ Own(t[i]) = A \cup UNION {Own(t[j]) : j \in DOMAIN t \ {i}}
    BY <1>7, <2>1
  <2> QED BY <2>2 DEF A
<1> QED BY <1>6, <1>7, <1>8

(* What a call works on for an inode of the table.                         *)
LEMMA OpenedWhole ==
  ASSUME NEW first, NEW end, NEW fs \in States(first, end, BlockInodes \cup InlineInodes), NEW t,
         Accounted(first, end, fs.free, fs.dmap, t), NEW i \in DOMAIN t, fs.n = t[i]
  PROVE  Whole(first, end, fs.dmap \ Own(fs.n), fs)
<1> DEFINE others == fs.dmap \ Own(fs.n)
<1>1. /\ 0 .. first - 1 \subseteq others /\ others \subseteq 0 .. end - 1
      /\ fs.dmap = others \cup Own(fs.n)
  BY OthersOf
<1>2. first \in Nat /\ end \in Nat /\ fs.free = end - Cardinality(fs.dmap)
      /\ ValidInode(first, end, fs.n)
  BY DEF Accounted
<1>3. others \cap Own(fs.n) = {}
  OBVIOUS
<1> HIDE DEF others
<1>4. CASE fs.n \in InlineInodes
  <2>1. fs \in States(first, end, InlineInodes)
    BY <1>4 DEF States
  <2>2. Own(fs.n) = {}
    BY <1>4, OwnOfInline
  <2>3. fs.dmap = others
    BY <1>1, <2>2
  <2>4. Flat(first, end, others, fs)
    BY <1>1, <1>2, <2>1, <2>3 DEF Flat
  <2> QED BY <2>4 DEF Whole, others
<1>5. CASE /\ fs.n \in BlockInodes /\ IsInjective(Blks(fs.n.store))
           /\ ToSet(Blks(fs.n.store)) \subseteq first .. end - 1
           /\ fs.n.blocks = Len(Blks(fs.n.store)) /\ fs.n.blocks = BlocksFor(fs.n.size)
  <2>1. fs \in States(first, end, BlockInodes)
    BY <1>5 DEF States
  <2>2. Own(fs.n) = ToSet(Blks(fs.n.store))
    BY <1>5, OwnOfBlocks
  <2>3. Sound(first, end, others, fs)
    BY <1>1, <1>2, <1>3, <1>5, <2>1, <2>2 DEF Sound
  <2> QED BY <1>5, <2>3 DEF Whole, others
<1> QED BY <1>2, <1>4, <1>5 DEF ValidInode

(* What a file that has just its blocks is in the table.                   *)
LEMMA WholeOwns ==
  ASSUME NEW first, NEW end, NEW others, NEW r, Whole(first, end, others, r)
  PROVE  /\ ValidInode(first, end, r.n) /\ r.dmap = others \cup Own(r.n)
         /\ Own(r.n) \cap others = {} /\ r.free = end - Cardinality(r.dmap)
<1>1. CASE Flat(first, end, others, r)
  <2>1. r.n \in InlineInodes
    BY <1>1, FlatFields DEF FlatFacts
  <2>2. Own(r.n) = {}
    BY <2>1, OwnOfInline
  <2> QED BY <1>1, <2>1, <2>2 DEF Flat, ValidInode
<1>2. CASE Sound(first, end, others, r) /\ r.n.blocks = BlocksFor(r.n.size)
  <2>1. SoundFacts(first, end, r)
    BY <1>2, SoundFields
  <2>2. r.n \in BlockInodes
    BY <2>1 DEF SoundFacts
  <2>3. Own(r.n) = ToSet(Blks(r.n.store))
    BY <2>2, OwnOfBlocks
  <2> QED BY <1>2, <2>2, <2>3 DEF Sound, ValidInode
<1> QED BY <1>1, <1>2 DEF Whole

LEMMA Replaced ==
  ASSUME NEW first, NEW end, NEW free, NEW d, NEW t, Accounted(first, end, free, d, t),
         NEW i \in DOMAIN t, NEW r, Whole(first, end, d \ Own(t[i]), r)
  PROVE  Accounted(first, end, r.free, r.dmap, [t EXCEPT ![i] = r.n])
<1> DEFINE others == d \ Own(t[i])
           u == [t EXCEPT ![i] = r.n]
<1>1. /\ others = (0 .. first - 1) \cup UNION {Own(t[j]) : j \in DOMAIN t \ {i}}
      /\ \A j \in DOMAIN t \ {i} : Own(t[j]) \subseteq others
  BY OthersOf
<1>2. /\ ValidInode(first, end, r.n) /\ r.dmap = others \cup Own(r.n)
      /\ Own(r.n) \cap others = {} /\ r.free = end - Cardinality(r.dmap)
  BY WholeOwns
<1>3. DOMAIN u = DOMAIN t /\ u[i] = r.n /\ \A j \in DOMAIN t \ {i} : u[j] = t[j]
  OBVIOUS
<1> HIDE DEF others, u
<1>4. \A j \in DOMAIN u : ValidInode(first, end, u[j])
  BY <1>2, <1>3 DEF Accounted
<1>5. \A j, k \in DOMAIN u : j # k => Own(u[j]) \cap Own(u[k]) = {}
  <2> SUFFICES ASSUME NEW j \in DOMAIN u, NEW k \in DOMAIN u, j # k
               PROVE  Own(u[j]) \cap Own(u[k]) = {}
    OBVIOUS
  <2>1. CASE j = i
    BY <1>1, <1>2, <1>3, <2>1
  <2>2. CASE k = i
    BY <1>1, <1>2, <1>3, <2>2
  <2>3. CASE j # i /\ k # i
    BY <1>3, <2>3 DEF Accounted
  <2> QED BY <2>1, <2>2, <2>3
<1>6. r.dmap = (0 .. first - 1) \cup UNION {Own(u[j]) : j \in DOMAIN u}
  <2> DEFINE A == 0 .. first - 1
  <2> HIDE DEF A
  <2>1. others = A \cup UNION {Own(t[j]) : j \in DOMAIN t \ {i}}
    BY <1>1 DEF A
  <2>2. UNION {Own(u[j]) : j \in DOMAIN u} =
          Own(r.n) \cup UNION {Own(t[j]) : j \in DOMAIN t \ {i}}
    BY <1>3
  <2> QED BY <1>2, <2>1, <2>2 DEF A
<1>7. first \in Nat /\ end \in Nat /\ first <= end
  BY DEF Accounted
<1> QED BY <1>2, <1>4, <1>5, <1>6, <1>7 DEF Accounted, u

(* The blocks of a file are the ones its bytes are in.                     *)
LEMMA BlockOfByte ==
  ASSUME NEW first, NEW end, NEW n \in BlockInodes, ValidInode(first, end, n),
         NEW p \in Nat, p < n.size
  PROVE  /\ p \div BlockSize \in Nat /\ p \div BlockSize < Len(BlocksOf(n))
         /\ MapBlock(n, p \div BlockSize) \in Own(n)
         /\ MapBlock(n, p \div BlockSize) = BlocksOf(n)[p \div BlockSize + 1]
<1> DEFINE k == p \div BlockSize
           s == Blks(n.store)
<1>1. n.size \in Nat /\ n.store \in Seq(FileExtent)
  BY DEF BlockInodes
<1>2. s \in Seq(Nat) /\ Own(n) = ToSet(s) /\ BlocksOf(n) = s
  BY <1>1, BlksLast, OwnOfBlocks, BlocksOfStore
<1>3. Len(s) = BlocksFor(n.size)
  <2>1. n \notin InlineInodes
    <3>1. n.inline = FALSE
      BY OwnOfBlocks
    <3> QED BY <3>1, OwnOfInline
  <2> QED BY <2>1 DEF ValidInode
<1>4. k \in Nat /\ k < BlocksFor(n.size)
  BY <1>1, DivBlock, PositionInFile
<1> HIDE DEF k, s
<1>5. k + 1 \in 1 .. Len(s) /\ s[k + 1] \in ToSet(s)
  <2>1. k + 1 \in 1 .. Len(s)
    BY <1>2, <1>3, <1>4
  <2> QED BY <1>2, <2>1 DEF ToSet
<1> QED BY <1>2, <1>3, <1>4, <1>5 DEF MapBlock, k

(* A file whose blocks keep their bytes keeps its checksum.                *)
LEMMA ChecksumOfSameBytes ==
  ASSUME NEW first, NEW end, NEW n, ValidInode(first, end, n), NEW bytes, NEW now,
         \A b \in Own(n) : now[b] = bytes[b]
  PROVE  InodeChecksum(now, n) = InodeChecksum(bytes, n)
<1>1. CASE n \in InlineInodes
  BY <1>1, OwnOfInline DEF InodeChecksum
<1>2. CASE n \in BlockInodes
  <2>0. n.size \in Nat
    BY <1>2 DEF BlockInodes
  <2>1. \A p \in 0 .. n.size - 1 : now[MapBlock(n, p \div BlockSize)] = bytes[MapBlock(n, p \div BlockSize)]
    <3> SUFFICES ASSUME NEW p \in 0 .. n.size - 1
                 PROVE  MapBlock(n, p \div BlockSize) \in Own(n)
      OBVIOUS
    <3>1. p \in Nat /\ p < n.size
      BY <2>0
    <3> QED BY <1>2, <3>1, BlockOfByte
  <2> DEFINE P(w) == {q \in 0 .. n.size - 1 : q % WordSize = w}
             f(w) == [p \in P(w) |-> now[MapBlock(n, p \div BlockSize)][p % BlockSize]]
             g(w) == [p \in P(w) |-> bytes[MapBlock(n, p \div BlockSize)][p % BlockSize]]
  <2>2. \A w : f(w) = g(w)
    BY <2>1
  <2>3. /\ ChecksumExtents(now, n) = [w \in 0 .. WordSize - 1 |-> Xor(f(w))]
        /\ ChecksumExtents(bytes, n) = [w \in 0 .. WordSize - 1 |-> Xor(g(w))]
    BY DEF ChecksumExtents
  <2> HIDE DEF f, g
  <2>4. ChecksumExtents(now, n) = ChecksumExtents(bytes, n)
    BY <2>2, <2>3
  <2>5. n.inline = FALSE
    BY <1>2, OwnOfBlocks
  <2> QED BY <2>4, <2>5 DEF InodeChecksum
<1> QED BY <1>1, <1>2, OwnInRegion

(* The inode of a file that was just created, and one that is free.        *)
LEMMA EmptyInodes ==
  /\ Fresh \in InlineInodes /\ Fresh.size = 0
  /\ Zeroed \in BlockInodes /\ Own(Zeroed) = {} /\ Blks(Zeroed.store) = <<>>
  /\ Zeroed.blocks = 0 /\ Zeroed.size = 0
  /\ \A first, end : ValidInode(first, end, Zeroed)
<1>1. [w \in 0 .. WordSize - 1 |-> 0] \in Sums
  BY DEF Sums, Byte
<1>2. NoBytes \in [0 .. InlineSize - 1 -> Byte]
  BY DEF NoBytes, Byte
<1>3. Fresh \in InlineInodes /\ Fresh.size = 0
  <2> DEFINE z == [w \in 0 .. WordSize - 1 |-> 0]
  <2> HIDE DEF z
  <2>1. Fresh = [inline |-> TRUE, blocks |-> 0, size |-> 0, sum |-> z, store |-> NoBytes]
    BY DEF Fresh, z
  <2>2. z \in Sums
    BY <1>1 DEF z
  <2>3. 0 \in 0 .. InlineSize
    BY Sizes1
  <2> QED BY <1>2, <2>1, <2>2, <2>3 DEF InlineInodes
<1>4. /\ Zeroed \in BlockInodes /\ Zeroed.store = <<>> /\ Zeroed.blocks = 0 /\ Zeroed.size = 0
  <2> DEFINE z == [w \in 0 .. WordSize - 1 |-> 0]
             e == <<>>
  <2> HIDE DEF z
  <2>1. Zeroed = [inline |-> FALSE, blocks |-> 0, size |-> 0, sum |-> z, store |-> e]
    <3>1. Fresh = [inline |-> TRUE, blocks |-> 0, size |-> 0, sum |-> z, store |-> NoBytes]
      BY DEF Fresh, z
    <3>2. Zeroed = [Fresh EXCEPT !.inline = FALSE, !.store = e]
      BY DEF Zeroed
    <3> HIDE DEF e
    <3> QED BY <3>1, <3>2
  <2>2. z \in Sums
    BY <1>1 DEF z
  <2>3. e \in Seq(FileExtent) /\ e = <<>>
    BY EmptySeq
  <2> HIDE DEF e
  <2> QED BY <2>1, <2>2, <2>3 DEF BlockInodes
<1>5. Blks(Zeroed.store) = <<>>
  BY <1>4, BlksLast DEF BlockInodes
<1>6. Own(Zeroed) = {}
  <2> DEFINE s == Blks(Zeroed.store)
  <2>1. s \in Seq(Nat) /\ s = <<>>
    BY <1>4, <1>5, BlksLast DEF BlockInodes
  <2>2. Own(Zeroed) = ToSet(s)
    BY <1>4, OwnOfBlocks
  <2> HIDE DEF s
  <2> QED BY <2>1, <2>2, QueueEmpty
<1>7. ASSUME NEW first, NEW end PROVE ValidInode(first, end, Zeroed)
  <2> DEFINE s == Blks(Zeroed.store)
  <2>1. s \in Seq(Nat) /\ s = <<>>
    BY <1>4, <1>5, BlksLast DEF BlockInodes
  <2>2. ToSet(s) = {}
    BY <1>4, <1>6, OwnOfBlocks
  <2> HIDE DEF s
  <2>3. IsInjective(s) /\ Len(s) = 0
    BY <2>1, QueueEmpty
  <2>4. BlocksFor(0) = 0
    BY BlocksForMore
  <2>5. /\ Zeroed \in BlockInodes /\ IsInjective(s) /\ ToSet(s) \subseteq first .. end - 1
        /\ Zeroed.blocks = Len(s) /\ Zeroed.blocks = BlocksFor(Zeroed.size)
    BY <1>4, <2>2, <2>3, <2>4
  <2> QED BY <2>5 DEF ValidInode, s
<1> QED BY <1>3, <1>4, <1>5, <1>6, <1>7

-----------------------------------------------------------------------------
(* The invariant of the image                                              *)

ImageType ==
  /\ sb \in [num_inodes : Nat \ {0}, free_inodes : Nat, num_blocks : Nat, free_blocks : Nat,
             data_region : Nat]
  /\ dmap \subseteq 0 .. sb.num_blocks - 1
  /\ itable \in [0 .. sb.num_inodes - 1 -> BlockInodes \cup InlineInodes]
  /\ disk \in [sb.data_region .. sb.num_blocks - 1 -> BlockBytes]
  /\ mtime \in [0 .. sb.num_inodes - 1 -> {"now", "old", "given"}]
  /\ daemon \in {"serving", "looping"}
  /\ sb.free_inodes = sb.num_inodes - Cardinality(imap)

SpaceInv ==
  /\ Accounted(sb.data_region, sb.num_blocks, sb.free_blocks, dmap, itable)
  /\ itable[RootIno] \in BlockInodes

SumsInv == \A ino \in imap \ {RootIno} : itable[ino].sum = InodeChecksum(disk, itable[ino])

(* While a call keeps the daemon for ever its file has extents that are    *)
(* not accounted for yet, and nobody looks at them.                        *)
ImageInv == DirInv /\ ImageType /\ (daemon = "serving" => SpaceInv /\ SumsInv)

LEMMA TimeTypes ==
  ASSUME ImageType, NEW S, NEW time \in {"now", "given"}, SetTime(S, time)
  PROVE  /\ mtime' \in [0 .. sb.num_inodes - 1 -> {"now", "old", "given"}]
         /\ S = {} => \A ino \in DOMAIN mtime : mtime'[ino] # "now"
<1>1. DOMAIN mtime = 0 .. sb.num_inodes - 1 /\ \A i \in DOMAIN mtime : mtime[i] \in {"now", "old", "given"}
  BY DEF ImageType
<1>2. \A i \in DOMAIN mtime : mtime'[i] = CASE i \in S -> time
                                            [] i \notin S /\ mtime[i] = "now" -> "old"
                                            [] OTHER -> mtime[i]
  BY DEF SetTime
<1>3. DOMAIN mtime' = DOMAIN mtime /\ mtime' = [i \in DOMAIN mtime |-> mtime'[i]]
  BY DEF SetTime
<1>4. ASSUME NEW i \in DOMAIN mtime
      PROVE  mtime'[i] \in {"now", "old", "given"} /\ (i \notin S => mtime'[i] # "now")
  <2>1. CASE i \in S
    BY <1>2, <2>1
  <2>2. CASE i \notin S /\ mtime[i] = "now"
    BY <1>2, <2>2
  <2>3. CASE i \notin S /\ mtime[i] # "now"
    <3>1. mtime'[i] = mtime[i]
      BY <1>2, <2>3
    <3> QED BY <1>1, <2>3, <3>1
  <2> QED BY <2>1, <2>2, <2>3
<1> QED BY <1>1, <1>3, <1>4

LEMMA StampTypes ==
  ASSUME ImageType, NEW S, Stamp(S)
  PROVE  /\ mtime' \in [0 .. sb.num_inodes - 1 -> {"now", "old", "given"}]
         /\ S = {} => \A ino \in DOMAIN mtime : mtime'[ino] # "now"
  BY TimeTypes DEF Stamp

LEMMA OpenFields ==
  ASSUME ImageType, NEW ino \in DOMAIN itable
  PROVE  /\ Open(ino) \in States(sb.data_region, sb.num_blocks, BlockInodes \cup InlineInodes)
         /\ Open(ino).dmap = dmap /\ Open(ino).free = sb.free_blocks /\ Open(ino).disk = disk
         /\ Open(ino).n = itable[ino] /\ Open(ino).rc = "OK"
         /\ Open(ino).first = sb.data_region /\ Open(ino).end = sb.num_blocks
         /\ DOMAIN disk = sb.data_region .. sb.num_blocks - 1
         /\ sb.data_region \in Nat /\ sb.num_blocks \in Nat /\ sb.free_blocks \in Nat
<1>1. /\ sb.data_region \in Nat /\ sb.num_blocks \in Nat /\ sb.free_blocks \in Nat
      /\ dmap \in SUBSET (0 .. sb.num_blocks - 1)
      /\ disk \in [sb.data_region .. sb.num_blocks - 1 -> BlockBytes]
      /\ itable[ino] \in BlockInodes \cup InlineInodes
  BY DEF ImageType
<1>2. Open(ino) \in States(sb.data_region, sb.num_blocks, BlockInodes \cup InlineInodes)
  BY <1>1 DEF Open, States, Codes
<1> QED BY <1>1, <1>2 DEF Open

LEMMA OpenWhole ==
  ASSUME ImageType, SpaceInv, NEW ino \in DOMAIN itable
  PROVE  /\ Whole(sb.data_region, sb.num_blocks, dmap \ Own(itable[ino]), Open(ino))
         /\ ValidInode(sb.data_region, sb.num_blocks, itable[ino])
<1> DEFINE fs == Open(ino)
<1>1. /\ fs \in States(sb.data_region, sb.num_blocks, BlockInodes \cup InlineInodes)
      /\ fs.n = itable[ino] /\ fs.dmap = dmap /\ fs.free = sb.free_blocks
  BY OpenFields
<1> HIDE DEF fs
<1>2. Accounted(sb.data_region, sb.num_blocks, fs.free, fs.dmap, itable)
  BY <1>1 DEF SpaceInv
<1>3. Whole(sb.data_region, sb.num_blocks, fs.dmap \ Own(fs.n), fs)
  BY <1>1, <1>2, OpenedWhole
<1>4. ValidInode(sb.data_region, sb.num_blocks, itable[ino])
  BY <1>2 DEF Accounted
<1> QED BY <1>1, <1>3, <1>4 DEF fs

LEMMA ChangedTypes ==
  ASSUME NEW first, NEW end, NEW others, NEW fs, NEW needed, NEW r,
         Changed(first, end, others, fs, needed, r)
  PROVE  /\ r.free \in Nat /\ r.dmap \in SUBSET (0 .. end - 1)
         /\ r.disk \in [first .. end - 1 -> BlockBytes] /\ r.n \in BlockInodes \cup InlineInodes
         /\ DaemonAfter(r.rc) \in {"serving", "looping"}
         /\ DaemonAfter(r.rc) = "serving" => Whole(first, end, others, r)
<1>1. /\ r.free \in Nat /\ r.dmap \in SUBSET (0 .. end - 1)
      /\ r.disk \in [first .. end - 1 -> BlockBytes] /\ r.n \in BlockInodes \cup InlineInodes
  <2>1. CASE Sound(first, end, others, r)
    <3>1. SoundFacts(first, end, r)
      BY <2>1, SoundFields
    <3> QED BY <3>1 DEF SoundFacts
  <2>2. CASE Flat(first, end, others, r)
    <3>1. FlatFacts(first, end, others, r) /\ others \subseteq 0 .. end - 1
      BY <2>2, FlatFields DEF Flat
    <3> QED BY <3>1 DEF FlatFacts
  <2> QED BY <2>1, <2>2 DEF Changed, Whole
<1>2. r.rc \in {"OK", "EFBIG", "ENOSPC", "LOOP"} /\ (r.rc # "LOOP" => Whole(first, end, others, r))
  BY DEF Changed
<1>3. r.rc = "LOOP" => DaemonAfter(r.rc) = "looping"
  BY DEF DaemonAfter
<1>4. r.rc # "LOOP" => DaemonAfter(r.rc) = "serving"
  BY <1>2 DEF DaemonAfter
<1> QED BY <1>1, <1>2, <1>3, <1>4

(* A call that fails leaves the image and the times as they are.           *)
FailureOfStep ==
  call'.rc \notin {"OK", "LOOP"} =>
    /\ UNCHANGED <<sb, imap, dmap, itable, dir>>
    /\ \A b \in dmap \cap DOMAIN disk : disk'[b] = disk[b]
    /\ \A ino \in DOMAIN mtime : mtime'[ino] # "now"

(* A call fails for space, or never returns, for want of blocks only.      *)
SpaceOfStep ==
  \A n \in Names : call'.op \in {"truncate", "write"} /\ call'.name = n =>
    LET needed == BlocksFor(call'.at + Len(call'.bytes))
    IN  /\ call'.rc = "ENOSPC" => needed - GetAttr(n).blocks > sb.free_blocks
        /\ call'.rc = "LOOP" => needed >= Width

LEMMA SameImage ==
  ASSUME ImageInv, UNCHANGED image,
         mtime' \in [0 .. sb.num_inodes - 1 -> {"now", "old", "given"}]
  PROVE  ImageInv'
<1>1. UNCHANGED <<sb, imap, dmap, itable, dir, disk, daemon>>
  BY DEF image
<1>2. DOMAIN mtime' = DOMAIN mtime
  BY DEF ImageInv, ImageType
<1>3. DirInv'
  BY <1>1, <1>2, QuietStep DEF ImageInv
<1>4. ImageType'
  BY <1>1 DEF ImageInv, ImageType
<1>5. (SpaceInv' <=> SpaceInv) /\ (SumsInv' <=> SumsInv)
  BY <1>1 DEF SpaceInv, SumsInv
<1> QED BY <1>1, <1>3, <1>4, <1>5 DEF ImageInv

LEMMA FailsImage ==
  ASSUME ImageInv, NEW op, NEW n, NEW at, NEW bytes, NEW rc, Fails(op, n, at, bytes, rc)
  PROVE  ImageInv' /\ FailureOfStep /\ call'.op = op /\ call'.rc = rc
<1>1. UNCHANGED image /\ Stamp({}) /\ call'.op = op /\ call'.rc = rc
  BY DEF Fails, Returns
<1>2. /\ mtime' \in [0 .. sb.num_inodes - 1 -> {"now", "old", "given"}]
      /\ \A ino \in DOMAIN mtime : mtime'[ino] # "now"
  BY <1>1, StampTypes DEF ImageInv
<1>3. ImageInv'
  BY <1>1, <1>2, SameImage
<1>4. UNCHANGED <<sb, imap, dmap, itable, dir, disk>>
  BY <1>1 DEF image
<1> QED BY <1>1, <1>2, <1>3, <1>4 DEF FailureOfStep

(* A superblock with other counters.                                       *)
LEMMA OtherCounters ==
  ASSUME ImageType, NEW free \in Nat
  PROVE  LET s == [sb EXCEPT !.free_blocks = free]
         IN  /\ s \in [num_inodes : Nat \ {0}, free_inodes : Nat, num_blocks : Nat,
                       free_blocks : Nat, data_region : Nat]
             /\ s.num_inodes = sb.num_inodes /\ s.free_inodes = sb.free_inodes
             /\ s.num_blocks = sb.num_blocks /\ s.free_blocks = free
             /\ s.data_region = sb.data_region
             /\ free = sb.free_blocks => s = sb
  BY DEF ImageType

(* The end of a truncate or a write, on the whole image.                   *)
LEMMA ChangesImage ==
  ASSUME ImageInv, daemon = "serving", NEW n \in Names, Found(n), NEW op, NEW at, NEW bytes,
         NEW needed, NEW fs, Changes(op, n, at, bytes, fs),
         Changed(sb.data_region, sb.num_blocks, dmap \ Own(itable[PathLookup(n)]),
                 Open(PathLookup(n)), needed, fs)
  PROVE  /\ ImageInv' /\ FailureOfStep
         /\ fs.rc = "ENOSPC" => needed - GetAttr(n).blocks > sb.free_blocks
         /\ fs.rc = "LOOP" => needed >= Width
<1> DEFINE ino == PathLookup(n)
           first == sb.data_region
           end == sb.num_blocks
           others == dmap \ Own(itable[ino])
           opened == Open(ino)
<1>1. ino \in imap /\ ino # RootIno /\ ino \in DOMAIN itable /\ RootIno \in DOMAIN itable
  BY OneEntry, FilesAreNotRoot DEF ImageInv, DirInv, Shape, RootIno
<1>2. DirInv' /\ call'.rc = fs.rc
  BY ChangedStep DEF ImageInv
<1>3. /\ itable' = [itable EXCEPT ![ino] = fs.n] /\ sb' = [sb EXCEPT !.free_blocks = fs.free]
      /\ dmap' = fs.dmap /\ disk' = fs.disk /\ daemon' = DaemonAfter(fs.rc)
      /\ Stamp(IF fs.rc = "OK" THEN {ino} ELSE {}) /\ imap' = imap /\ dir' = dir
  BY DEF Changes, Saved
<1>4. Changed(first, end, others, opened, needed, fs)
  OBVIOUS
<1>5. /\ opened.dmap = dmap /\ opened.free = sb.free_blocks /\ opened.disk = disk
      /\ opened.n = itable[ino] /\ DOMAIN disk = first .. end - 1
  BY <1>1, OpenFields DEF ImageInv
<1>6. GetAttr(n).blocks = itable[ino].blocks
  BY DEF GetAttr
<1> HIDE DEF ino, opened, others, first, end
<1>7. /\ fs.free \in Nat /\ fs.dmap \in SUBSET (0 .. end - 1)
      /\ fs.disk \in [first .. end - 1 -> BlockBytes] /\ fs.n \in BlockInodes \cup InlineInodes
      /\ daemon' \in {"serving", "looping"}
      /\ daemon' = "serving" => Whole(first, end, others, fs)
  BY <1>3, <1>4, ChangedTypes
<1>8. /\ sb' \in [num_inodes : Nat \ {0}, free_inodes : Nat, num_blocks : Nat,
                  free_blocks : Nat, data_region : Nat]
      /\ sb'.num_inodes = sb.num_inodes /\ sb'.free_inodes = sb.free_inodes
      /\ sb'.num_blocks = end /\ sb'.free_blocks = fs.free /\ sb'.data_region = first
      /\ fs.free = sb.free_blocks => sb' = sb
  BY <1>3, <1>7, OtherCounters DEF ImageInv, first, end
<1>9. /\ mtime' \in [0 .. sb.num_inodes - 1 -> {"now", "old", "given"}]
      /\ fs.rc # "OK" => \A i \in DOMAIN mtime : mtime'[i] # "now"
  <2> DEFINE S == IF fs.rc = "OK" THEN {ino} ELSE {}
  <2>1. Stamp(S) /\ ImageType
    BY <1>3 DEF ImageInv
  <2>2. fs.rc # "OK" => S = {}
    OBVIOUS
  <2> HIDE DEF S
  <2> QED BY <2>1, <2>2, StampTypes
<1>10. itable' \in [0 .. sb.num_inodes - 1 -> BlockInodes \cup InlineInodes]
  BY <1>1, <1>3, <1>7 DEF ImageInv, ImageType
<1>11. ImageType'
  BY <1>3, <1>7, <1>8, <1>9, <1>10 DEF ImageInv, ImageType, first, end
<1>12. SpaceInv /\ SumsInv
  BY DEF ImageInv
<1>13. daemon' = "serving" => SpaceInv'
  <2> SUFFICES ASSUME daemon' = "serving" PROVE SpaceInv'
    OBVIOUS
  <2>1. Accounted(first, end, sb.free_blocks, dmap, itable)
    BY <1>12 DEF SpaceInv, first, end
  <2>2. Whole(first, end, dmap \ Own(itable[ino]), fs)
    BY <1>7 DEF others
  <2>3. Accounted(first, end, fs.free, fs.dmap, [itable EXCEPT ![ino] = fs.n])
    BY <1>1, <2>1, <2>2, Replaced
  <2>4. Accounted(sb'.data_region, sb'.num_blocks, sb'.free_blocks, dmap', itable')
    BY <1>3, <1>8, <2>3
  <2>5. itable'[RootIno] = itable[RootIno]
    BY <1>1, <1>3
  <2> QED BY <1>12, <2>4, <2>5 DEF SpaceInv
<1>14. fs.rc \in {"EFBIG", "ENOSPC"} =>
         UNCHANGED <<sb, imap, dmap, itable, dir>>
         /\ \A b \in dmap \cap DOMAIN disk : disk'[b] = disk[b]
  <2> SUFFICES ASSUME fs.rc \in {"EFBIG", "ENOSPC"}
               PROVE  UNCHANGED <<sb, imap, dmap, itable, dir>>
                      /\ \A b \in dmap \cap DOMAIN disk : disk'[b] = disk[b]
    OBVIOUS
  <2>1. Restores(opened, fs)
    BY <1>4 DEF Changed
  <2>2. /\ fs.n = itable[ino] /\ fs.dmap = dmap /\ fs.free = sb.free_blocks
        /\ \A b \in dmap \cap DOMAIN disk : fs.disk[b] = disk[b]
    BY <1>5, <2>1 DEF Restores
  <2>3. itable' = itable
    BY <1>1, <1>3, <2>2 DEF ImageInv, ImageType
  <2> QED BY <1>3, <1>8, <2>2, <2>3
<1>15. fs.rc \in {"OK", "EFBIG", "ENOSPC", "LOOP"}
  BY <1>4 DEF Changed
<1>16. daemon' = "serving" => SumsInv'
  <2> SUFFICES ASSUME daemon' = "serving", NEW j \in imap' \ {RootIno}
               PROVE  itable'[j].sum = InodeChecksum(disk', itable'[j])
    BY DEF SumsInv
  <2>1. j \in imap \ {RootIno} /\ j \in DOMAIN itable
    BY <1>3 DEF ImageInv, DirInv, Shape
  <2>2. ValidInode(first, end, itable[j]) /\ Own(itable[j]) \subseteq DOMAIN disk
        /\ Own(itable[j]) \subseteq dmap
    <3>1. Accounted(first, end, sb.free_blocks, dmap, itable)
      BY <1>12 DEF SpaceInv, first, end
    <3>2. ValidInode(first, end, itable[j])
      BY <2>1, <3>1 DEF Accounted
    <3>3. Own(itable[j]) \subseteq dmap
      BY <2>1, <3>1 DEF Accounted
    <3> QED BY <1>5, <3>2, <3>3, OwnInRegion
  <2>3. itable[j].sum = InodeChecksum(disk, itable[j])
    BY <1>12, <2>1 DEF SumsInv
  <2>4. CASE fs.rc = "OK"
    <3>1. /\ \A b \in others \cap DOMAIN opened.disk : fs.disk[b] = opened.disk[b]
          /\ fs.n.sum = InodeChecksum(fs.disk, fs.n)
      BY <1>4, <2>4 DEF Changed
    <3>2. CASE j = ino
      <4>1. itable'[j] = fs.n
        BY <1>1, <1>3, <3>2
      <4> QED BY <1>3, <3>1, <4>1
    <3>3. CASE j # ino
      <4>1. itable'[j] = itable[j]
        BY <1>1, <1>3, <2>1, <3>3
      <4>2. Own(itable[j]) \subseteq others
        <5>1. Accounted(first, end, sb.free_blocks, dmap, itable)
          BY <1>12 DEF SpaceInv, first, end
        <5> QED BY <1>1, <2>1, <3>3, <5>1, OthersOf DEF others
      <4>3. \A b \in Own(itable[j]) : disk'[b] = disk[b]
        BY <1>3, <1>5, <2>2, <3>1, <4>2
      <4>4. InodeChecksum(disk', itable[j]) = InodeChecksum(disk, itable[j])
        BY <2>2, <4>3, ChecksumOfSameBytes
      <4> QED BY <2>3, <4>1, <4>4
    <3> QED BY <3>2, <3>3
  <2>5. CASE fs.rc \in {"EFBIG", "ENOSPC"}
    <3>1. itable' = itable /\ \A b \in Own(itable[j]) : disk'[b] = disk[b]
      BY <1>14, <2>2, <2>5
    <3>2. InodeChecksum(disk', itable[j]) = InodeChecksum(disk, itable[j])
      BY <2>2, <3>1, ChecksumOfSameBytes
    <3> QED BY <2>3, <3>1, <3>2
  <2>6. fs.rc # "LOOP"
    BY <1>3 DEF DaemonAfter
  <2> QED BY <1>15, <2>4, <2>5, <2>6
<1>17. FailureOfStep
  <2> SUFFICES ASSUME call'.rc \notin {"OK", "LOOP"}
               PROVE  /\ UNCHANGED <<sb, imap, dmap, itable, dir>>
                      /\ \A b \in dmap \cap DOMAIN disk : disk'[b] = disk[b]
                      /\ \A i \in DOMAIN mtime : mtime'[i] # "now"
    BY DEF FailureOfStep
  <2>1. fs.rc \in {"EFBIG", "ENOSPC"}
    BY <1>2, <1>15
  <2> QED BY <1>9, <1>14, <2>1
<1>18. /\ fs.rc = "ENOSPC" => needed - GetAttr(n).blocks > sb.free_blocks
       /\ fs.rc = "LOOP" => needed >= Width
  BY <1>4, <1>5, <1>6 DEF Changed
<1> QED BY <1>2, <1>11, <1>13, <1>16, <1>17, <1>18 DEF ImageInv

-----------------------------------------------------------------------------
(* The image after the other calls                                         *)

(* The directory grows as append_extent_range lets a file grow, by a block.*)
GrownDirectory(first, end, others, fs, r) ==
  /\ Sound(first, end, others, r) /\ r.n.blocks = BlocksFor(r.n.size)
  /\ \A b \in others \cap DOMAIN fs.disk : r.disk[b] = fs.disk[b]

LEMMA DirectoryGrows ==
  ASSUME NEW first, NEW end, NEW others, NEW fs, Sound(first, end, others, fs), fs.rc = "OK",
         fs.n.blocks = BlocksFor(fs.n.size), DirGrowBlock(fs).rc = "OK"
  PROVE  GrownDirectory(first, end, others, fs, DirGrowBlock(fs))
<1> DEFINE r == DirGrowBlock(fs)
           blk == BitmapAlloc(fs.end, fs.dmap)
           zeros == [o \in 0 .. BlockSize - 1 |-> 0]
           range == blk .. blk + 1 - 1
           disks == [b \in DOMAIN fs.disk |-> IF b \in range THEN zeros ELSE fs.disk[b]]
           run == [start |-> blk, length |-> 1]
           with == WithExtent(fs.n, blk, 1)
           m == [with EXCEPT !.size = @ + BlockSize]
           x == AppendExtentRange(fs, run)
<1>0. SoundFacts(first, end, fs)
  BY SoundFields
<1>1. /\ first \in Nat /\ end \in Nat /\ fs.end = end /\ fs.first = first
      /\ fs.dmap \in SUBSET (0 .. end - 1) /\ fs.n.size \in Nat /\ fs.n.blocks \in Nat
      /\ fs.free \in Nat /\ DOMAIN fs.disk = first .. end - 1 /\ Cardinality(fs.dmap) \in Nat
      /\ fs.n \in BlockInodes /\ fs \in States(first, end, BlockInodes)
      /\ 0 .. first - 1 \subseteq others /\ others \subseteq fs.dmap
      /\ fs.free = end - Cardinality(fs.dmap)
  BY <1>0 DEF SoundFacts, Sound
<1>2. ~(\/ Exhausted(fs.end, fs.dmap)
        \/ ~MergesWithLast(fs.n, blk) /\ Len(fs.n.store) >= NumExtents)
  <2> SUFFICES ASSUME \/ Exhausted(fs.end, fs.dmap)
                      \/ ~MergesWithLast(fs.n, blk) /\ Len(fs.n.store) >= NumExtents
               PROVE  FALSE
    OBVIOUS
  <2> DEFINE back == Released(fs.dmap \cup {blk}, blk)
  <2>1. r \in {Failed(fs, "ENOSPC"), Failed([fs EXCEPT !.dmap = back], "ENOSPC")}
    BY Zenon DEF DirGrowBlock
  <2> HIDE DEF back, r
  <2>2. "rc" \in DOMAIN fs
    BY <1>1 DEF States
  <2>3. r.rc = "ENOSPC"
    BY <2>1, <2>2 DEF Failed
  <2> QED BY <2>3 DEF r
<1>3. r = [fs EXCEPT !.dmap = @ \cup {blk}, !.free = @ - 1, !.n = m, !.disk[blk] = zeros]
  BY <1>2, Zenon DEF DirGrowBlock
<1>4. blk \in first .. end - 1 /\ blk \notin fs.dmap
  <2> DEFINE S == (0 .. end - 1) \ fs.dmap
  <2>1. S \in SUBSET Nat /\ S # {}
    BY <1>1, <1>2 DEF Exhausted
  <2> HIDE DEF S
  <2>2. Min(S) \in S
    BY <2>1, LeastNumber
  <2>3. blk = Min(S)
    BY <1>1 DEF BitmapAlloc, S
  <2>4. blk \in 0 .. end - 1 /\ blk \notin fs.dmap
    BY <2>2, <2>3 DEF S
  <2>5. blk \notin 0 .. first - 1
    BY <1>1, <2>4
  <2> QED BY <1>1, <2>4, <2>5
<1>5. fs.free >= 1
  <2> DEFINE A == 0 .. end - 1
  <2>1. IsFiniteSet(A) /\ Cardinality(A) = end
    BY <1>1, FS_Interval
  <2>2. fs.dmap \in SUBSET A /\ fs.dmap # A
    BY <1>1, <1>4
  <2> HIDE DEF A
  <2>3. Cardinality(fs.dmap) <= Cardinality(A) /\ Cardinality(fs.dmap) # Cardinality(A)
    BY <2>1, <2>2, FS_Subset
  <2> QED BY <1>1, <2>1, <2>3
<1> HIDE DEF blk
<1>6. range = {blk}
  BY <1>4
<1>7. run \in [start : Nat, length : Nat] /\ run.start = blk /\ run.length = 1
  BY <1>1, <1>4
<1>8. x = [fs EXCEPT !.dmap = @ \cup range, !.free = @ - 1, !.disk = disks,
                     !.n = WithExtent(@, blk, 1)]
  <2>1. ~(run.length = 0) /\ run.length > 0 /\ ~(fs.free < run.length)
    BY <1>1, <1>5, <1>7
  <2>2. ~(run.length > 0 /\ ~MergesWithLast(fs.n, run.start) /\ Len(fs.n.store) >= NumExtents)
    BY <1>2, <1>7
  <2>3. ~(\E b \in range : ~IsFree(fs, b))
    BY <1>1, <1>4, <1>6 DEF IsFree, IsValidDataBlock
  <2> DEFINE rg == run.start .. run.start + run.length - 1
             full == [fs EXCEPT !.dmap = @ \cup rg, !.free = @ - run.length,
                             !.disk = [b \in DOMAIN @ |->
                                IF b \in rg THEN [o \in 0 .. BlockSize - 1 |-> 0] ELSE @[b]],
                             !.n = WithExtent(@, run.start, run.length)]
  <2>4. rg = range
    BY <1>7
  <2>5. ~(\E b \in rg : ~IsFree(fs, b))
    BY <2>3, <2>4
  <2>6. x = CASE run.length = 0 -> fs
              [] run.length > 0 /\ ~MergesWithLast(fs.n, run.start)
                                /\ Len(fs.n.store) >= NumExtents -> Failed(fs, "EFBIG")
              [] OTHER -> IF fs.free < run.length THEN Failed(fs, "ENOSPC")
                          ELSE IF \E b \in rg : ~IsFree(fs, b) THEN Failed(fs, "EIO")
                          ELSE full
    BY Zenon DEF AppendExtentRange
  <2> HIDE DEF full, rg, x
  <2>7. x = full
    BY <2>1, <2>2, <2>5, <2>6, Zenon
  <2> HIDE DEF range, run
  <2>8. full = [fs EXCEPT !.dmap = @ \cup range, !.free = @ - 1, !.disk = disks,
                          !.n = WithExtent(@, blk, 1)]
    BY <1>7, <2>4, Zenon DEF full
  <2> QED BY <2>7, <2>8
<1> HIDE DEF run, range
<1>9. x.rc = "OK" /\ x.dmap = fs.dmap \cup {blk} /\ x.free = fs.free - 1 /\ x.disk = disks /\ x.n = with
  <2> HIDE DEF disks, with, x
  <2>1. x = [fs EXCEPT !.dmap = @ \cup range, !.free = @ - 1, !.disk = disks, !.n = with]
    BY <1>8 DEF x, with
  <2> QED BY <1>1, <1>6, <2>1 DEF States
<1>10. Sound(first, end, others, x) /\ x.n.blocks = fs.n.blocks + 1 /\ Grew(fs, x)
  <2> DEFINE y == AppendExtentRange(fs, run)
  <2>1. \/ /\ y.rc \in {"EFBIG", "ENOSPC", "EIO"} /\ y = Failed(fs, y.rc)
           /\ y.rc = "ENOSPC" => fs.free < run.length
        \/ /\ y.rc = "OK" /\ Sound(first, end, others, y)
           /\ y.n.blocks = fs.n.blocks + run.length /\ Grew(fs, y)
    BY <1>7, AppendRun
  <2>2. y.rc = "OK"
    BY <1>9
  <2> HIDE DEF y
  <2>3. Sound(first, end, others, y) /\ y.n.blocks = fs.n.blocks + 1 /\ Grew(fs, y)
    BY <1>7, <2>1, <2>2
  <2> QED BY <2>3 DEF y
<1> HIDE DEF x
<1>11. x \in States(first, end, BlockInodes) /\ with \in BlockInodes /\ with.size = fs.n.size
  <2>1. x.n.size = fs.n.size
    BY <1>10 DEF Grew
  <2>2. SoundFacts(first, end, x)
    BY <1>10, SoundFields
  <2> HIDE DEF with
  <2> QED BY <1>9, <1>10, <2>1, <2>2 DEF Sound, SoundFacts
<1> HIDE DEF with
<1>12. m \in BlockInodes /\ m.size = fs.n.size + BlockSize /\ m.blocks = with.blocks /\ m.store = with.store
  <2> DEFINE size == with.size + BlockSize
  <2>1. size \in Nat
    BY <1>1, <1>11, Sizes1
  <2>2. m = [with EXCEPT !.size = size]
    BY <1>11 DEF BlockInodes
  <2> HIDE DEF size, m
  <2>3. m \in BlockInodes /\ m.size = size /\ m.blocks = with.blocks /\ m.store = with.store
    BY <1>11, <2>1, <2>2, OtherSize
  <2> QED BY <1>11, <2>3 DEF size
<1> HIDE DEF m
<1>13. [fs.disk EXCEPT ![blk] = zeros] = disks
  <2> HIDE DEF zeros
  <2> QED BY <1>1, <1>4, <1>6
<1> HIDE DEF disks
<1>14. r = [x EXCEPT !.n = m]
  <2> DEFINE ds == [fs.disk EXCEPT ![blk] = zeros]
             dm == fs.dmap \cup {blk}
             fr == fs.free - 1
  <2>1. r = [fs EXCEPT !.dmap = dm, !.free = fr, !.n = m, !.disk = ds]
    BY <1>1, <1>3 DEF States
  <2>2. ds = disks
    BY <1>13
  <2> HIDE DEF ds, dm, fr, r
  <2>3. /\ r.dmap = dm /\ r.free = fr /\ r.n = m /\ r.disk = disks /\ r.rc = "OK"
        /\ r = [first |-> first, end |-> end, free |-> fr, dmap |-> dm, disk |-> disks,
                n |-> m, rc |-> "OK"]
    BY <1>1, <2>1, <2>2 DEF States
  <2>4. x = [first |-> first, end |-> end, free |-> fr, dmap |-> dm, disk |-> disks,
             n |-> with, rc |-> "OK"]
    <3>1. x = [first |-> first, end |-> end, free |-> x.free, dmap |-> x.dmap,
               disk |-> x.disk, n |-> x.n, rc |-> x.rc]
      BY <1>11, StateFields
    <3> QED BY <1>9, <3>1 DEF fr, dm
  <2> QED BY <2>3, <2>4
<1> HIDE DEF r
<1>15. /\ r \in States(first, end, BlockInodes)
       /\ r.n = m /\ r.dmap = x.dmap /\ r.free = x.free /\ r.disk = x.disk /\ r.rc = x.rc
  BY <1>11, <1>12, <1>14, OtherInode
<1>16. Sound(first, end, others, r)
  BY <1>9, <1>10, <1>12, <1>15 DEF Sound
<1>17. r.n.blocks = BlocksFor(r.n.size)
  <2>1. BlocksFor(fs.n.size + BlockSize) = BlocksFor(fs.n.size) + 1
    BY <1>1, BlocksForMore
  <2> QED BY <1>9, <1>10, <1>12, <1>15, <2>1
<1>18. \A b \in others \cap DOMAIN fs.disk : r.disk[b] = fs.disk[b]
  BY <1>1, <1>10, <1>15 DEF Grew
<1> QED BY <1>16, <1>17, <1>18 DEF r, GrownDirectory

LEMMA InjectiveCount ==
  ASSUME NEW S, NEW s \in Seq(S), IsInjective(s)
  PROVE  IsFiniteSet(ToSet(s)) /\ Cardinality(ToSet(s)) = Len(s)
<1>1. DOMAIN s = 1 .. Len(s) /\ Len(s) \in Nat /\ s \in [1 .. Len(s) -> S]
  OBVIOUS
<1>2. s \in [1 .. Len(s) -> ToSet(s)] /\ \A x \in ToSet(s) : \E i \in 1 .. Len(s) : s[i] = x
  <2>1. \A x : x \in ToSet(s) <=> \E i \in 1 .. Len(s) : s[i] = x
    BY <1>1 DEF ToSet
  <2> QED BY <1>1, <2>1
<1>3. \A i, j \in 1 .. Len(s) : s[i] = s[j] => i = j
  BY <1>1 DEF IsInjective
<1>4. ExistsBijection(1 .. Len(s), ToSet(s))
  <2> DEFINE T == ToSet(s)
             D == 1 .. Len(s)
  <2> HIDE DEF T, D
  <2>1. s \in [D -> T] /\ (\A x \in T : \E i \in D : s[i] = x)
        /\ \A i, j \in D : s[i] = s[j] => i = j
    BY <1>2, <1>3 DEF T, D
  <2>2. s \in Bijection(D, T)
    BY <2>1 DEF Bijection, Injection, Surjection
  <2> QED BY <2>2 DEF ExistsBijection, T, D
<1>5. Cardinality(ToSet(s)) = Len(s)
  BY <1>1, <1>4, FS_CountingElements
<1>6. IsFiniteSet(ToSet(s))
  <2>1. IsFiniteSet(1 .. Len(s))
    BY <1>1, FS_Interval
  <2> QED BY <1>4, <2>1, FS_Bijection
<1> QED BY <1>5, <1>6

(* The blocks of an inode of the table, as unlink frees them.              *)
LEMMA ValidBlocks ==
  ASSUME NEW first, NEW end, NEW n, ValidInode(first, end, n)
  PROVE  LET blks == IF n.inline THEN <<>> ELSE BlocksOf(n)
         IN  /\ blks \in Seq(Nat) /\ IsInjective(blks) /\ ToSet(blks) = Own(n)
             /\ n.blocks = Len(blks) /\ (~n.inline => n.blocks = BlocksFor(n.size))
             /\ IsFiniteSet(Own(n)) /\ Cardinality(Own(n)) = Len(blks)
<1> DEFINE blks == IF n.inline THEN <<>> ELSE BlocksOf(n)
<1>1. CASE n \in InlineInodes
  <2>1. n.inline = TRUE /\ Own(n) = {} /\ n.blocks = 0
    BY <1>1, OwnOfInline
  <2>2. blks = <<>>
    BY <2>1
  <2> DEFINE e == <<>>
  <2>3. e \in Seq(Nat) /\ e = <<>> /\ Len(e) = 0 /\ blks = e
    BY <2>2, EmptySeq
  <2> HIDE DEF e
  <2>4. ToSet(e) = {} /\ IsInjective(e)
    BY <2>3, QueueEmpty
  <2> HIDE DEF blks
  <2>5. /\ blks \in Seq(Nat) /\ IsInjective(blks) /\ ToSet(blks) = Own(n) /\ n.blocks = Len(blks)
        /\ IsFiniteSet(Own(n)) /\ Cardinality(Own(n)) = Len(blks)
    BY <2>1, <2>3, <2>4, FS_EmptySet
  <2> QED BY <2>1, <2>5 DEF blks
<1>2. CASE /\ n \in BlockInodes /\ IsInjective(Blks(n.store))
           /\ n.blocks = Len(Blks(n.store)) /\ n.blocks = BlocksFor(n.size)
  <2>1. n.inline = FALSE /\ Own(n) = ToSet(Blks(n.store)) /\ BlocksOf(n) = Blks(n.store)
    BY <1>2, OwnOfBlocks, BlocksOfStore
  <2>2. blks = Blks(n.store)
    BY <2>1
  <2>3. blks \in Seq(Nat)
    BY <1>2, <2>2, BlksLast DEF BlockInodes
  <2> HIDE DEF blks
  <2>4. IsFiniteSet(ToSet(blks)) /\ Cardinality(ToSet(blks)) = Len(blks)
    BY <1>2, <2>2, <2>3, InjectiveCount
  <2> QED BY <1>2, <2>1, <2>2, <2>3, <2>4 DEF blks
<1> QED BY <1>1, <1>2 DEF ValidInode

LEMMA FewInodes ==
  ASSUME ImageInv
  PROVE  /\ IsFiniteSet(imap) /\ Cardinality(imap) \in Nat /\ sb.num_inodes \in Nat
         /\ sb.free_inodes \in Nat /\ sb.free_inodes = sb.num_inodes - Cardinality(imap)
         /\ ~(0 .. sb.num_inodes - 1 \subseteq imap) => sb.free_inodes > 0
<1>1. /\ sb.num_inodes \in Nat /\ sb.free_inodes \in Nat /\ imap \in SUBSET (0 .. sb.num_inodes - 1)
      /\ sb.free_inodes = sb.num_inodes - Cardinality(imap)
  BY DEF ImageInv, ImageType, DirInv, Shape
<1> DEFINE A == 0 .. sb.num_inodes - 1
<1>2. IsFiniteSet(A) /\ Cardinality(A) = sb.num_inodes
  <2> DEFINE k == sb.num_inodes
             last == k - 1
  <2>1. k \in Nat /\ last = k - 1 /\ last \in Int /\ 0 \in Int
    BY <1>1
  <2> HIDE DEF k, last
  <2>2. IsFiniteSet(0 .. last) /\ Cardinality(0 .. last) = IF 0 > last THEN 0 ELSE last - 0 + 1
    BY <2>1, FS_Interval
  <2>3. IsFiniteSet(0 .. last) /\ Cardinality(0 .. last) = k
    BY <2>1, <2>2
  <2> QED BY <2>3 DEF k, last
<1> HIDE DEF A
<1>3. IsFiniteSet(imap) /\ (Cardinality(A) = Cardinality(imap) => A = imap)
  BY <1>1, <1>2, FS_Subset DEF A
<1>4. Cardinality(imap) \in Nat
  BY <1>3, FS_CardinalityType
<1>5. ~(A \subseteq imap) => sb.free_inodes > 0
  <2>1. ~(A \subseteq imap) => Cardinality(imap) # sb.num_inodes
    BY <1>2, <1>3
  <2> QED BY <1>1, <1>4, <2>1
<1> QED BY <1>1, <1>3, <1>4, <1>5 DEF A

(* A file without blocks, or an inode that is free, in the table.          *)
LEMMA EmptyWhole ==
  ASSUME NEW first \in Nat, NEW end \in Nat, NEW others, NEW bytes \in [first .. end - 1 -> BlockBytes],
         0 .. first - 1 \subseteq others, others \subseteq 0 .. end - 1,
         end - Cardinality(others) \in Nat, NEW m \in {Fresh, Zeroed}
  PROVE  Whole(first, end, others,
               [first |-> first, end |-> end, free |-> end - Cardinality(others), dmap |-> others,
                disk |-> bytes, n |-> m, rc |-> "OK"])
<1> DEFINE free == end - Cardinality(others)
           r == [first |-> first, end |-> end, free |-> free, dmap |-> others,
                 disk |-> bytes, n |-> m, rc |-> "OK"]
<1>0. free \in Nat /\ free = end - Cardinality(others) /\ others \in SUBSET (0 .. end - 1)
  OBVIOUS
<1> HIDE DEF free
<1>1. r.n = m /\ r.dmap = others /\ r.free = free
  OBVIOUS
<1>2. CASE m = Fresh
  <2>1. m \in InlineInodes
    BY <1>2, EmptyInodes
  <2>2. r \in States(first, end, InlineInodes)
    BY <1>0, <2>1 DEF States, Codes
  <2> HIDE DEF r
  <2>3. Flat(first, end, others, r)
    BY <1>0, <1>1, <2>2 DEF Flat
  <2> QED BY <2>3 DEF Whole, r, free
<1>3. CASE m = Zeroed
  <2>1. m \in BlockInodes /\ Own(m) = {} /\ ValidInode(first, end, m) /\ m.blocks = 0 /\ m.size = 0
    BY <1>3, EmptyInodes
  <2>2. r \in States(first, end, BlockInodes)
    BY <1>0, <2>1 DEF States, Codes
  <2> HIDE DEF r
  <2>3. ToSet(Blks(m.store)) = {} /\ m \notin InlineInodes
    <3>1. m.inline = FALSE
      BY <2>1, OwnOfBlocks
    <3> QED BY <2>1, <3>1, OwnOfBlocks, OwnOfInline
  <2>4. IsInjective(Blks(m.store)) /\ m.blocks = Len(Blks(m.store)) /\ m.blocks = BlocksFor(m.size)
    BY <2>1, <2>3 DEF ValidInode
  <2>5. Sound(first, end, others, r)
    BY <1>0, <1>1, <2>2, <2>3, <2>4 DEF Sound
  <2> QED BY <1>1, <2>4, <2>5 DEF Whole, r, free
<1> QED BY <1>2, <1>3

LEMMA EmptyChecksum == \A bytes : InodeChecksum(bytes, Fresh) = Fresh.sum
<1> SUFFICES ASSUME NEW bytes PROVE InodeChecksum(bytes, Fresh) = Fresh.sum
  OBVIOUS
<1>1. Fresh.inline = TRUE /\ Fresh.size = 0
  BY EmptyInodes, OwnOfInline
<1>2. Fresh.sum = [w \in 0 .. WordSize - 1 |-> 0]
  <2> DEFINE z == [w \in 0 .. WordSize - 1 |-> 0]
  <2> HIDE DEF z
  <2>1. Fresh = [inline |-> TRUE, blocks |-> 0, size |-> 0, sum |-> z, store |-> NoBytes]
    BY DEF Fresh, z
  <2> QED BY <2>1 DEF z
<1>3. ASSUME NEW w \in 0 .. WordSize - 1
      PROVE  Xor([p \in {q \in 0 .. Fresh.size - 1 : q % WordSize = w} |-> Fresh.store[p]]) = 0
  <2> DEFINE f == [p \in {q \in 0 .. Fresh.size - 1 : q % WordSize = w} |-> Fresh.store[p]]
  <2>1. DOMAIN f = {}
    BY <1>1
  <2> HIDE DEF f
  <2>2. {p \in DOMAIN f : f[p] = 1} = {}
    BY <2>1
  <2>3. Xor(f) = 0 % 2
    BY <2>2, FS_EmptySet DEF Xor
  <2> QED BY <2>3 DEF f
<1>4. CalculateChecksum(Fresh) = Fresh.sum
  BY <1>2, <1>3 DEF CalculateChecksum
<1> QED BY <1>1, <1>4 DEF InodeChecksum

(* unlink gives the blocks of the file back.                               *)
LEMMA UnlinkImage ==
  ASSUME ImageInv, daemon = "serving", NEW n \in Names, Unlink(n)
  PROVE  ImageInv' /\ FailureOfStep /\ call'.op = "unlink"
<1>0. DirInv' /\ call'.op = "unlink"
  BY UnlinkStep DEF ImageInv
<1>1. CASE ~Found(n)
  BY <1>0, <1>1, FailsImage DEF Unlink
<1>2. CASE Found(n)
  <2> DEFINE ino == PathLookup(n)
             inode == itable[ino]
             blks == IF inode.inline THEN <<>> ELSE BlocksOf(inode)
             opened == Open(ino)
             fs == BitmapFreeAll(opened, blks)
             rc == IF ino \in imap THEN fs.rc ELSE "ASSERT"
             first == sb.data_region
             end == sb.num_blocks
             others == dmap \ Own(inode)
             free == sb.free_blocks + Len(blks)
  <2>1. ino \in imap /\ ino # RootIno /\ ino \in DOMAIN itable /\ RootIno \in DOMAIN itable
    <3>1. DirInv
      BY DEF ImageInv
    <3>2. ino \in imap /\ ino # RootIno
      BY <1>2, <3>1, OneEntry, FilesAreNotRoot
    <3> HIDE DEF ino
    <3> QED BY <3>1, <3>2 DEF DirInv, Shape, RootIno
  <2>2. /\ imap' = imap \ {ino} /\ itable' = [itable EXCEPT ![ino] = Zeroed]
        /\ sb' = [sb EXCEPT !.free_blocks = @ + Len(blks), !.free_inodes = @ + 1]
        /\ Saved(Failed(fs, rc)) /\ Stamp({RootIno})
        /\ Returns("unlink", n, 0, <<>>, rc)
    BY <1>2, Zenon DEF Unlink
  <2>3. Accounted(first, end, sb.free_blocks, dmap, itable) /\ SumsInv
        /\ itable[RootIno] \in BlockInodes /\ ImageType /\ DirInv
    BY DEF ImageInv, SpaceInv
  <2>4. /\ blks \in Seq(Nat) /\ IsInjective(blks) /\ ToSet(blks) = Own(inode)
        /\ IsFiniteSet(Own(inode)) /\ Cardinality(Own(inode)) = Len(blks)
    <3>1. ValidInode(first, end, inode)
      BY <2>1, <2>3 DEF Accounted
    <3> HIDE DEF inode
    <3> QED BY <3>1, ValidBlocks
  <2>5. /\ 0 .. first - 1 \subseteq others /\ others \subseteq 0 .. end - 1
        /\ dmap = others \cup Own(inode) /\ Own(inode) \subseteq dmap /\ dmap \subseteq 0 .. end - 1
        /\ \A j \in DOMAIN itable \ {ino} : Own(itable[j]) \subseteq others
    BY <2>1, <2>3, OthersOf
  <2>6. /\ opened.dmap = dmap /\ opened.disk = disk /\ opened.rc = "OK"
        /\ opened \in States(first, end, BlockInodes \cup InlineInodes)
        /\ first \in Nat /\ end \in Nat /\ sb.free_blocks \in Nat
    BY <2>1, <2>3, OpenFields
  <2> HIDE DEF blks, opened, first, end, inode, ino
  <2>7. /\ Failed(fs, rc).dmap = others /\ Failed(fs, rc).disk = disk /\ Failed(fs, rc).rc = "OK"
        /\ rc = "OK"
    <3> DEFINE rest == opened.dmap \ ToSet(blks)
    <3>1. fs = [opened EXCEPT !.dmap = rest]
      BY <2>4, <2>5, <2>6 DEF BitmapFreeAll
    <3>2. rest = others
      BY <2>4, <2>6
    <3> HIDE DEF rest, others
    <3>3. fs.rc = "OK" /\ fs.dmap = others /\ fs.disk = disk
      BY <2>6, <3>1, <3>2 DEF States
    <3>4. rc = "OK"
      BY <2>1, <3>3
    <3>5. Failed(fs, rc) = [opened EXCEPT !.dmap = rest, !.rc = "OK"]
      BY <2>6, <3>1, <3>4 DEF Failed, States
    <3> QED BY <2>6, <3>2, <3>4, <3>5 DEF States
  <2> HIDE DEF fs, rc
  <2>8. dmap' = others /\ disk' = disk /\ daemon' = "serving" /\ call'.rc = "OK"
    BY <2>2, <2>7 DEF Saved, DaemonAfter, Returns
  <2>9. free = end - Cardinality(others) /\ free \in Nat
    <3>1. IsFiniteSet(0 .. end - 1)
      BY <2>6, FS_Interval
    <3>2. IsFiniteSet(dmap) /\ IsFiniteSet(others)
      <4>1. dmap \in SUBSET (0 .. end - 1) /\ others \in SUBSET (0 .. end - 1)
        BY <2>5
      <4> QED BY <3>1, <4>1, FS_Subset
    <3>3. Cardinality(dmap) = Cardinality(others) + Cardinality(Own(inode)) - Cardinality(others \cap Own(inode))
      BY <2>4, <2>5, <3>2, FS_Union
    <3>4. others \cap Own(inode) = {}
      OBVIOUS
    <3>5. Cardinality({}) = 0
      BY FS_EmptySet
    <3>6. sb.free_blocks = end - Cardinality(dmap)
      BY <2>3 DEF Accounted
    <3>7. Cardinality(others) \in Nat /\ Cardinality(Own(inode)) \in Nat /\ Len(blks) \in Nat
      BY <2>4, <3>2, FS_CardinalityType
    <3> DEFINE c == Cardinality(others)
               k == Len(blks)
               f == sb.free_blocks
    <3>8. /\ c \in Nat /\ k \in Nat /\ f \in Nat /\ end \in Nat
          /\ f = end - Cardinality(dmap) /\ Cardinality(dmap) = c + k - 0
      BY <2>4, <2>6, <3>3, <3>4, <3>5, <3>6, <3>7
    <3> HIDE DEF c, k, f
    <3>9. f + k = end - c /\ f + k \in Nat
      BY <3>8
    <3> QED BY <3>9 DEF c, k, f
  <2>10. /\ sb' \in [num_inodes : Nat \ {0}, free_inodes : Nat, num_blocks : Nat,
                     free_blocks : Nat, data_region : Nat]
         /\ sb'.num_inodes = sb.num_inodes /\ sb'.free_inodes = sb.free_inodes + 1
         /\ sb'.num_blocks = end /\ sb'.free_blocks = free /\ sb'.data_region = first
    <3>1. sb.free_inodes + 1 \in Nat
      BY FewInodes
    <3> DEFINE more == sb.free_inodes + 1
    <3>2. sb' = [sb EXCEPT !.free_blocks = free, !.free_inodes = more]
      BY <2>2
    <3>3. more \in Nat
      BY <3>1
    <3> HIDE DEF free, more
    <3>4. /\ sb' \in [num_inodes : Nat \ {0}, free_inodes : Nat, num_blocks : Nat,
                      free_blocks : Nat, data_region : Nat]
          /\ sb'.num_inodes = sb.num_inodes /\ sb'.free_inodes = more
          /\ sb'.num_blocks = sb.num_blocks /\ sb'.free_blocks = free
          /\ sb'.data_region = sb.data_region
      BY <2>3, <2>9, <3>2, <3>3 DEF ImageType
    <3> QED BY <3>4 DEF more, first, end
  <2> HIDE DEF others, free
  <2>11. sb'.free_inodes = sb'.num_inodes - Cardinality(imap')
    <3>1. /\ IsFiniteSet(imap) /\ Cardinality(imap) \in Nat
          /\ sb.num_inodes \in Nat /\ sb.free_inodes = sb.num_inodes - Cardinality(imap)
      BY FewInodes
    <3>2. Cardinality(imap \ {ino}) = Cardinality(imap) - 1
      BY <2>1, <3>1, FS_RemoveElement
    <3> QED BY <2>2, <2>10, <3>1, <3>2
  <2>12. /\ itable' \in [0 .. sb.num_inodes - 1 -> BlockInodes \cup InlineInodes]
         /\ itable'[RootIno] = itable[RootIno] /\ \A j \in DOMAIN itable \ {ino} : itable'[j] = itable[j]
    BY <2>1, <2>2, <2>3, EmptyInodes DEF ImageType
  <2>13. mtime' \in [0 .. sb.num_inodes - 1 -> {"now", "old", "given"}]
    BY <2>2, <2>3, StampTypes
  <2>14. ImageType'
    BY <2>3, <2>5, <2>8, <2>10, <2>11, <2>12, <2>13 DEF ImageType, first, end
  <2>15. SpaceInv'
    <3> DEFINE r == [first |-> first, end |-> end, free |-> end - Cardinality(others),
                     dmap |-> others, disk |-> disk, n |-> Zeroed, rc |-> "OK"]
    <3>1. disk \in [first .. end - 1 -> BlockBytes]
      BY <2>3 DEF ImageType, first, end
    <3>2. Whole(first, end, others, r)
      BY <2>5, <2>6, <2>9, <3>1, EmptyWhole
    <3>3. r.free = free /\ r.dmap = others /\ r.n = Zeroed
      BY <2>9
    <3> HIDE DEF r
    <3>4. Whole(first, end, dmap \ Own(itable[ino]), r)
      BY <3>2 DEF others, inode
    <3>5. Accounted(first, end, r.free, r.dmap, [itable EXCEPT ![ino] = r.n])
      BY <2>1, <2>3, <3>4, Replaced
    <3>6. Accounted(sb'.data_region, sb'.num_blocks, sb'.free_blocks, dmap', itable')
      BY <2>2, <2>8, <2>10, <3>3, <3>5
    <3> QED BY <2>3, <2>12, <3>6 DEF SpaceInv
  <2>16. SumsInv'
    <3> SUFFICES ASSUME NEW j \in imap' \ {RootIno}
                 PROVE  itable'[j].sum = InodeChecksum(disk', itable'[j])
      BY DEF SumsInv
    <3>1. j \in imap \ {RootIno} /\ j \in DOMAIN itable \ {ino}
      BY <2>2, <2>3 DEF DirInv, Shape
    <3> QED BY <2>3, <2>8, <2>12, <3>1 DEF SumsInv
  <2> QED BY <1>0, <2>8, <2>14, <2>15, <2>16 DEF ImageInv, FailureOfStep
<1> QED BY <1>1, <1>2

(* The directory create works with: as it is, or with one more block.      *)
LEMMA RootForCreate ==
  ASSUME ImageInv, daemon = "serving", root.rc = "OK"
  PROVE  /\ Whole(sb.data_region, sb.num_blocks, dmap \ Own(itable[RootIno]), root)
         /\ root.n \in BlockInodes /\ root.free \in Nat
         /\ root.dmap \subseteq 0 .. sb.num_blocks - 1
         /\ root.disk \in [sb.data_region .. sb.num_blocks - 1 -> BlockBytes]
         /\ \A b \in (dmap \ Own(itable[RootIno])) \cap DOMAIN disk : root.disk[b] = disk[b]
<1> DEFINE first == sb.data_region
           end == sb.num_blocks
           others == dmap \ Own(itable[RootIno])
           opened == Open(RootIno)
<1>1. ImageType /\ SpaceInv /\ RootIno \in DOMAIN itable
  BY DEF ImageInv, DirInv, Shape, RootIno
<1>2. /\ opened.n = itable[RootIno] /\ opened.disk = disk /\ opened.rc = "OK"
  BY <1>1, OpenFields
<1>3. Whole(first, end, others, opened)
  BY <1>1, OpenWhole
<1>4. opened.n \in BlockInodes
  BY <1>1, <1>2 DEF SpaceInv
<1>5. ~opened.n.inline
  <2> DEFINE m == opened.n
  <2>1. m \in BlockInodes
    BY <1>4
  <2> HIDE DEF m
  <2>2. m.inline = FALSE
    BY <2>1, OwnOfBlocks
  <2> QED BY <2>2 DEF m
<1> HIDE DEF opened, first, end, others
<1>6. Sound(first, end, others, opened) /\ opened.n.blocks = BlocksFor(opened.n.size)
  BY <1>3, <1>5, WholeFields
<1>7. /\ Sound(first, end, others, root) /\ root.n.blocks = BlocksFor(root.n.size)
      /\ \A b \in others \cap DOMAIN opened.disk : root.disk[b] = opened.disk[b]
  <2>1. CASE FreeEntries # {}
    <3>1. root = opened
      BY <2>1 DEF root, opened
    <3> QED BY <1>6, <3>1
  <2>2. CASE FreeEntries = {}
    <3>1. root = DirGrowBlock(opened)
      BY <2>2 DEF root, opened
    <3>2. DirGrowBlock(opened).rc = "OK"
      BY <3>1
    <3>3. GrownDirectory(first, end, others, opened, DirGrowBlock(opened))
      BY <1>2, <1>6, <3>2, DirectoryGrows
    <3> QED BY <3>1, <3>3 DEF GrownDirectory
  <2> QED BY <2>1, <2>2
<1>8. Whole(first, end, others, root)
  BY <1>7 DEF Whole
<1>9. SoundFacts(first, end, root)
  BY <1>7, SoundFields
<1>10. /\ root.n \in BlockInodes /\ root.free \in Nat /\ root.dmap \in SUBSET (0 .. end - 1)
       /\ root.disk \in [first .. end - 1 -> BlockBytes]
  BY <1>9 DEF SoundFacts
<1>11. \A b \in others \cap DOMAIN disk : root.disk[b] = disk[b]
  BY <1>2, <1>7
<1> QED BY <1>8, <1>10, <1>11 DEF first, end, others

(* A directory that cannot grow gives back the block it took, and create   *)
(* the inode: the call fails and nothing is changed.                       *)
LEMMA RootGivesUp ==
  ASSUME ImageInv, root.rc # "OK"
  PROVE  root.rc = "ENOSPC" /\ root.dmap = dmap /\ root.disk = disk
<1> DEFINE fs == Open(RootIno)
           blk == BitmapAlloc(fs.end, fs.dmap)
           back == Released(fs.dmap \cup {blk}, blk)
           used == fs.dmap \cup {blk}
           less == fs.free - 1
           m == [WithExtent(fs.n, blk, 1) EXCEPT !.size = @ + BlockSize]
           zeroed == [fs.disk EXCEPT ![blk] = [o \in 0 .. BlockSize - 1 |-> 0]]
           full == ~MergesWithLast(fs.n, blk) /\ Len(fs.n.store) >= NumExtents
<1>1. /\ DOMAIN fs = {"first", "end", "free", "dmap", "disk", "n", "rc"} /\ fs.rc = "OK"
      /\ fs.dmap = dmap /\ fs.disk = disk /\ fs.end = sb.num_blocks
  BY DEF Open
<1>2. root = IF FreeEntries # {} THEN fs ELSE DirGrowBlock(fs)
  BY DEF root
<1>3. DirGrowBlock(fs) =
        IF Exhausted(fs.end, fs.dmap) THEN Failed(fs, "ENOSPC")
        ELSE IF full THEN Failed([fs EXCEPT !.dmap = back], "ENOSPC")
        ELSE [fs EXCEPT !.dmap = used, !.free = less, !.n = m, !.disk = zeroed]
  BY Zenon DEF DirGrowBlock
<1>4. ~Exhausted(fs.end, fs.dmap) => back = dmap
  <2> SUFFICES ASSUME ~Exhausted(fs.end, fs.dmap) PROVE back = dmap
    OBVIOUS
  <2> DEFINE S == (0 .. sb.num_blocks - 1) \ dmap
  <2>1. S \in SUBSET Nat /\ S # {}
    BY <1>1 DEF Exhausted, ImageInv, ImageType
  <2> HIDE DEF S
  <2>2. Min(S) \in S
    BY <2>1, LeastNumber
  <2>3. blk = Min(S)
    BY <1>1 DEF BitmapAlloc, S
  <2>4. blk \notin dmap
    BY <2>2, <2>3 DEF S
  <2> HIDE DEF blk
  <2> QED BY <1>1, <2>4 DEF Released
<1> HIDE DEF fs, blk, back, used, less, m, zeroed, full
<1>5. root = Failed(fs, "ENOSPC") \/ (back = dmap /\ root = Failed([fs EXCEPT !.dmap = back], "ENOSPC"))
  BY <1>1, <1>2, <1>3, <1>4
<1> QED BY <1>1, <1>5 DEF Failed

LEMMA CreateFails ==
  ASSUME ImageInv, daemon = "serving", NEW n, CreateGivesUp(n)
  PROVE  Fails("create", n, 0, <<>>, "ENOSPC")
<1>1. root.rc = "ENOSPC" /\ root.dmap = dmap /\ root.disk = disk
  BY RootGivesUp DEF CreateGivesUp
<1>2. imap' = imap
  BY InodeGivenBack DEF ImageInv
<1>3. dmap' = dmap /\ disk' = disk /\ daemon' = daemon
  BY <1>1 DEF CreateGivesUp, Saved, DaemonAfter
<1>4. UNCHANGED image
  BY <1>2, <1>3 DEF CreateGivesUp, image
<1> QED BY <1>1, <1>4 DEF CreateGivesUp, Fails

(* create takes a free inode, and a block for the directory when it has to.*)
LEMMA CreateImage ==
  ASSUME ImageInv, daemon = "serving", NEW n \in Names, Create(n)
  PROVE  ImageInv' /\ FailureOfStep /\ call'.op = "create"
<1> DEFINE slot == Min({i \in DOMAIN entries : entries[i].ino = NoIno})
           ino == BitmapAlloc(sb.num_inodes, imap)
           first == sb.data_region
           end == sb.num_blocks
           others == dmap \ Own(itable[RootIno])
<1>0. DirInv' /\ call'.op = "create"
  BY CreateStep DEF ImageInv
<1>1. CASE \E rc : Fails("create", n, 0, <<>>, rc)
  BY <1>0, <1>1, FailsImage
<1>2. CASE /\ ~Exhausted(sb.num_inodes, imap) /\ root.rc = "OK"
           /\ imap' = imap \cup {ino}
           /\ itable' = [itable EXCEPT ![RootIno] = root.n, ![ino] = Fresh]
           /\ sb' = [sb EXCEPT !.free_blocks = root.free, !.free_inodes = @ - 1]
           /\ Saved(root) /\ Stamp({RootIno, ino}) /\ Returns("create", n, 0, <<>>, "OK")
  <2>0. DirInv /\ ImageType /\ SpaceInv /\ SumsInv
    BY DEF ImageInv
  <2>1. ino \in (0 .. sb.num_inodes - 1) \ imap
    <3>1. (0 .. sb.num_inodes - 1) \ imap \in SUBSET Nat /\ (0 .. sb.num_inodes - 1) \ imap # {}
      BY <1>2, <2>0 DEF Exhausted, DirInv, Shape
    <3> QED BY <3>1, LeastNumber DEF BitmapAlloc
  <2> HIDE DEF ino
  <2>2. RootIno \in imap /\ RootIno \in DOMAIN itable /\ ino \in DOMAIN itable /\ ino # RootIno
    <3>1. Found(".") /\ PathLookup(".") = RootIno
      BY <2>0 DEF DirInv, DirectoryMatchesInodes
    <3>2. RootIno \in imap
      BY <2>0, <3>1, OneEntry
    <3> QED BY <2>0, <2>1, <3>2 DEF DirInv, Shape
  <2>3. itable[ino] = Zeroed
    BY <2>0, <2>1, <2>2 DEF DirInv, DirectoryMatchesInodes
  <2>4. /\ Whole(first, end, others, root)
        /\ root.n \in BlockInodes /\ root.free \in Nat /\ root.dmap \subseteq 0 .. end - 1
        /\ root.disk \in [first .. end - 1 -> BlockBytes]
        /\ \A b \in others \cap DOMAIN disk : root.disk[b] = disk[b]
    BY <1>2, RootForCreate
  <2>5. /\ dmap' = root.dmap /\ disk' = root.disk /\ daemon' = "serving" /\ call'.rc = "OK"
    BY <1>2 DEF Saved, DaemonAfter, Returns
  <2> DEFINE t == [itable EXCEPT ![RootIno] = root.n]
  <2>6. Accounted(first, end, sb.free_blocks, dmap, itable) /\ first \in Nat /\ end \in Nat
    BY <2>0 DEF SpaceInv, Accounted
  <2>7. Accounted(first, end, root.free, root.dmap, t)
    <3> HIDE DEF first, end
    <3>1. Whole(first, end, dmap \ Own(itable[RootIno]), root)
      BY <2>4
    <3> QED BY <2>2, <2>6, <3>1, Replaced
  <2>8. DOMAIN t = DOMAIN itable /\ t[ino] = Zeroed /\ t[RootIno] = root.n
        /\ itable' = [t EXCEPT ![ino] = Fresh]
        /\ itable'[RootIno] = root.n /\ itable'[ino] = Fresh
        /\ \A j \in DOMAIN itable \ {RootIno, ino} : itable'[j] = itable[j]
    BY <1>2, <2>2, <2>3
  <2> HIDE DEF t, others, first, end
  <2>9. Accounted(first, end, root.free, root.dmap, itable')
    <3> DEFINE r == [first |-> first, end |-> end, free |-> end - Cardinality(root.dmap),
                     dmap |-> root.dmap, disk |-> root.disk, n |-> Fresh, rc |-> "OK"]
    <3>1. /\ root.dmap \ Own(t[ino]) = root.dmap /\ 0 .. first - 1 \subseteq root.dmap
          /\ root.free = end - Cardinality(root.dmap)
      <4>1. Own(t[ino]) = {}
        BY <2>8, EmptyInodes
      <4>2. 0 .. first - 1 \subseteq root.dmap \ Own(t[ino])
        BY <2>2, <2>7, <2>8, OthersOf
      <4> QED BY <2>7, <4>1, <4>2 DEF Accounted
    <3>2. Whole(first, end, root.dmap, r)
      BY <2>4, <2>6, <3>1, EmptyWhole
    <3>3. r.free = root.free /\ r.dmap = root.dmap /\ r.n = Fresh
      BY <3>1
    <3> HIDE DEF r
    <3>4. Whole(first, end, root.dmap \ Own(t[ino]), r)
      BY <3>1, <3>2
    <3>5. Accounted(first, end, r.free, r.dmap, [t EXCEPT ![ino] = r.n])
      BY <2>2, <2>7, <2>8, <3>4, Replaced
    <3> QED BY <2>8, <3>3, <3>5
  <2>10. /\ sb.free_inodes > 0 /\ sb.free_inodes \in Nat /\ sb.num_inodes \in Nat
         /\ IsFiniteSet(imap) /\ Cardinality(imap) \in Nat
         /\ sb.free_inodes = sb.num_inodes - Cardinality(imap)
    BY <1>2, FewInodes DEF Exhausted
  <2>11. /\ sb' \in [num_inodes : Nat \ {0}, free_inodes : Nat, num_blocks : Nat,
                     free_blocks : Nat, data_region : Nat]
         /\ sb'.num_inodes = sb.num_inodes /\ sb'.free_inodes = sb.free_inodes - 1
         /\ sb'.num_blocks = end /\ sb'.free_blocks = root.free /\ sb'.data_region = first
    <3> DEFINE less == sb.free_inodes - 1
               free == root.free
    <3>1. less \in Nat /\ free \in Nat
      BY <2>4, <2>10
    <3>2. sb' = [sb EXCEPT !.free_blocks = free, !.free_inodes = less]
      BY <1>2
    <3> HIDE DEF less, free
    <3>3. /\ sb' \in [num_inodes : Nat \ {0}, free_inodes : Nat, num_blocks : Nat,
                      free_blocks : Nat, data_region : Nat]
          /\ sb'.num_inodes = sb.num_inodes /\ sb'.free_inodes = less
          /\ sb'.num_blocks = sb.num_blocks /\ sb'.free_blocks = free
          /\ sb'.data_region = sb.data_region
      BY <2>0, <3>1, <3>2 DEF ImageType
    <3> QED BY <3>3 DEF less, free, first, end
  <2>12. sb'.free_inodes = sb'.num_inodes - Cardinality(imap')
    <3>1. Cardinality(imap \cup {ino}) = Cardinality(imap) + 1
      BY <2>1, <2>10, FS_AddElement
    <3> QED BY <1>2, <2>10, <2>11, <3>1
  <2>13. itable' \in [0 .. sb.num_inodes - 1 -> BlockInodes \cup InlineInodes]
    BY <1>2, <2>0, <2>4, EmptyInodes DEF ImageType
  <2>14. mtime' \in [0 .. sb.num_inodes - 1 -> {"now", "old", "given"}]
    BY <1>2, <2>0, StampTypes
  <2>15. ImageType'
    BY <2>4, <2>5, <2>11, <2>12, <2>13, <2>14 DEF ImageType, first, end
  <2>16. SpaceInv'
    <3>1. Accounted(sb'.data_region, sb'.num_blocks, sb'.free_blocks, dmap', itable')
      BY <2>5, <2>9, <2>11
    <3> QED BY <2>4, <2>8, <3>1 DEF SpaceInv
  <2>17. SumsInv'
    <3> SUFFICES ASSUME NEW j \in imap' \ {RootIno}
                 PROVE  itable'[j].sum = InodeChecksum(disk', itable'[j])
      BY DEF SumsInv
    <3>1. CASE j = ino
      BY <2>8, <3>1, EmptyChecksum
    <3>2. CASE j # ino
      <4>1. j \in imap \ {RootIno} /\ j \in DOMAIN itable \ {RootIno, ino} /\ itable'[j] = itable[j]
        BY <1>2, <2>0, <2>8, <3>2 DEF DirInv, Shape
      <4>2. Own(itable[j]) \subseteq others
        BY <2>2, <2>6, <4>1, OthersOf DEF others
      <4>3. ValidInode(first, end, itable[j])
        BY <2>6, <4>1 DEF Accounted
      <4>4. Own(itable[j]) \subseteq DOMAIN disk
        <5>1. DOMAIN disk = first .. end - 1
          BY <2>0 DEF ImageType, first, end
        <5> QED BY <4>3, <5>1, OwnInRegion
      <4>5. \A b \in Own(itable[j]) : disk'[b] = disk[b]
        BY <2>4, <2>5, <4>2, <4>4
      <4>6. InodeChecksum(disk', itable[j]) = InodeChecksum(disk, itable[j])
        BY <4>3, <4>5, ChecksumOfSameBytes
      <4> QED BY <2>0, <4>1, <4>6 DEF SumsInv
    <3> QED BY <3>1, <3>2
  <2> QED BY <1>0, <2>5, <2>15, <2>16, <2>17 DEF ImageInv, FailureOfStep
<1>3. \/ Fails("create", n, 0, <<>>, "EEXIST") \/ Fails("create", n, 0, <<>>, "ENOSPC")
      \/ CreateGivesUp(n)
      \/ /\ ~Found(n) /\ ~Exhausted(sb.num_inodes, imap) /\ root.rc = "OK"
         /\ imap' = imap \cup {ino}
         /\ itable' = [itable EXCEPT ![RootIno] = root.n, ![ino] = Fresh]
         /\ dir' = [entries EXCEPT ![slot] = [ino |-> ino, name |-> n]]
         /\ sb' = [sb EXCEPT !.free_blocks = root.free, !.free_inodes = @ - 1]
         /\ Saved(root) /\ Stamp({RootIno, ino}) /\ Returns("create", n, 0, <<>>, "OK")
  BY Zenon DEF Create, root, entries, CreateGivesUp
<1>4. CASE CreateGivesUp(n)
  BY <1>0, <1>4, CreateFails, FailsImage
<1> QED BY <1>1, <1>2, <1>3, <1>4

LEMMA UtimensImage ==
  ASSUME ImageInv, NEW n \in Names, Utimens(n)
  PROVE  ImageInv' /\ FailureOfStep /\ call'.op \in {"utimens", "omit"}
<1>1. CASE ~Found(n) /\ Fails("utimens", n, 0, <<>>, "ENOENT")
  BY <1>1, FailsImage
<1>2. CASE /\ UNCHANGED image /\ \E op \in {"utimens", "omit"} : Returns(op, n, 0, <<>>, "OK")
           /\ \E S : \E time \in {"now", "given"} : SetTime(S, time)
  <2>1. UNCHANGED image /\ call'.op \in {"utimens", "omit"} /\ call'.rc = "OK"
    BY <1>2 DEF Returns
  <2>2. mtime' \in [0 .. sb.num_inodes - 1 -> {"now", "old", "given"}]
    BY <1>2, TimeTypes DEF ImageInv
  <2> QED BY <2>1, <2>2, SameImage DEF FailureOfStep
<1> QED BY <1>1, <1>2 DEF Utimens, Stamp

(* A call on a file that was found, or was not.                            *)
LEMMA TruncateImage ==
  ASSUME ImageInv, daemon = "serving", NEW n \in Names, NEW size \in Nat, Truncate(n, size)
  PROVE  ImageInv' /\ FailureOfStep /\ SpaceOfStep
<1> DEFINE bytes == <<>>
<1>0. ImageType /\ SpaceInv /\ Len(bytes) = 0
  BY DEF ImageInv
<1> HIDE DEF bytes
<1>1. CASE ~Found(n)
  <2>1. Fails("truncate", n, size, bytes, "ENOENT")
    BY <1>1 DEF Truncate, bytes
  <2> QED BY <2>1, FailsImage DEF SpaceOfStep
<1>2. CASE Found(n)
  <2> DEFINE ino == PathLookup(n)
             opened == Open(ino)
             fs == Truncated(opened, size)
             others == dmap \ Own(itable[ino])
             needed == BlocksFor(size)
  <2>1. Changes("truncate", n, size, bytes, fs)
    BY <1>2 DEF Truncate, bytes
  <2>2. ino \in DOMAIN itable
    <3>1. DirInv
      BY DEF ImageInv
    <3>2. ino \in imap
      BY <1>2, <3>1, OneEntry
    <3> HIDE DEF ino
    <3> QED BY <3>1, <3>2 DEF DirInv, Shape
  <2>3. Whole(sb.data_region, sb.num_blocks, others, opened) /\ opened.rc = "OK"
    BY <1>0, <2>2, OpenWhole, OpenFields
  <2>4. Changed(sb.data_region, sb.num_blocks, others, opened, needed, fs)
    <3> HIDE DEF opened, others
    <3> QED BY <2>3, TruncateChanges
  <2> HIDE DEF fs, needed
  <2>5. /\ ImageInv' /\ FailureOfStep
        /\ fs.rc = "ENOSPC" => needed - GetAttr(n).blocks > sb.free_blocks
        /\ fs.rc = "LOOP" => needed >= Width
    BY <1>2, <2>1, <2>4, ChangesImage
  <2>6. /\ call'.rc = fs.rc /\ call'.name = n /\ call'.at = size /\ call'.bytes = bytes
    BY <2>1 DEF Changes, Returns
  <2>7. BlocksFor(call'.at + Len(call'.bytes)) = needed
    <3>1. size + 0 = size
      OBVIOUS
    <3> QED BY <1>0, <2>6, <3>1 DEF needed
  <2> QED BY <2>5, <2>6, <2>7 DEF SpaceOfStep
<1> QED BY <1>1, <1>2

LEMMA WriteImage ==
  ASSUME ImageInv, daemon = "serving", NEW n \in Names, NEW at \in Nat, NEW bytes \in Seq(Byte),
         Write(n, at, bytes)
  PROVE  ImageInv' /\ FailureOfStep /\ SpaceOfStep
<1>0. ImageType /\ SpaceInv
  BY DEF ImageInv
<1>1. CASE ~Found(n)
  <2>1. Fails("write", n, at, bytes, "ENOENT")
    BY <1>1 DEF Write
  <2> QED BY <2>1, FailsImage DEF SpaceOfStep
<1>2. CASE Found(n)
  <2> DEFINE ino == PathLookup(n)
             opened == Open(ino)
             fs == Written(opened, at, bytes)
             others == dmap \ Own(itable[ino])
             needed == BlocksFor(at + Len(bytes))
  <2>1. Changes("write", n, at, bytes, fs)
    BY <1>2 DEF Write
  <2>2. ino \in DOMAIN itable
    <3>1. DirInv
      BY DEF ImageInv
    <3>2. ino \in imap
      BY <1>2, <3>1, OneEntry
    <3> HIDE DEF ino
    <3> QED BY <3>1, <3>2 DEF DirInv, Shape
  <2>3. Whole(sb.data_region, sb.num_blocks, others, opened) /\ opened.rc = "OK"
    BY <1>0, <2>2, OpenWhole, OpenFields
  <2>4. Changed(sb.data_region, sb.num_blocks, others, opened, needed, fs)
    <3> HIDE DEF opened, others
    <3> QED BY <2>3, WriteChanges
  <2> HIDE DEF fs, needed
  <2>5. /\ ImageInv' /\ FailureOfStep
        /\ fs.rc = "ENOSPC" => needed - GetAttr(n).blocks > sb.free_blocks
        /\ fs.rc = "LOOP" => needed >= Width
    BY <1>2, <2>1, <2>4, ChangesImage
  <2>6. /\ call'.rc = fs.rc /\ call'.name = n /\ call'.at = at /\ call'.bytes = bytes
    BY <2>1 DEF Changes, Returns
  <2>7. BlocksFor(call'.at + Len(call'.bytes)) = needed
    BY <2>6 DEF needed
  <2> QED BY <2>5, <2>6, <2>7 DEF SpaceOfStep
<1> QED BY <1>1, <1>2

LEMMA ImageSteps ==
  ASSUME ImageInv, Next
  PROVE  ImageInv' /\ ((FailureOfStep /\ SpaceOfStep) \/ UNCHANGED vars)
<1>1. ASSUME NEW n \in Names, daemon = "serving", Create(n)
      PROVE  ImageInv' /\ FailureOfStep /\ SpaceOfStep
  BY <1>1, CreateImage DEF SpaceOfStep
<1>2. ASSUME NEW n \in Names, daemon = "serving", Unlink(n)
      PROVE  ImageInv' /\ FailureOfStep /\ SpaceOfStep
  BY <1>2, UnlinkImage DEF SpaceOfStep
<1>3. ASSUME NEW n \in Names, Utimens(n) PROVE ImageInv' /\ FailureOfStep /\ SpaceOfStep
  BY <1>3, UtimensImage DEF SpaceOfStep
<1>4. ASSUME NEW n \in Names, NEW size \in Sizes, daemon = "serving", Truncate(n, size)
      PROVE  ImageInv' /\ FailureOfStep /\ SpaceOfStep
  <2>1. size \in Nat
    BY ExFSAssumption
  <2> QED BY <1>4, <2>1, TruncateImage
<1>5. ASSUME NEW n \in Names, NEW a \in Accesses, daemon = "serving", Write(n, a.at, a.bytes)
      PROVE  ImageInv' /\ FailureOfStep /\ SpaceOfStep
  <2>1. a.at \in Nat /\ a.bytes \in Seq(Byte)
    BY ExFSAssumption
  <2> QED BY <1>5, <2>1, WriteImage
<1>6. ASSUME Loop PROVE ImageInv' /\ UNCHANGED vars
  <2>1. UNCHANGED vars
    BY <1>6 DEF Loop
  <2>2. UNCHANGED image /\ mtime' = mtime
    BY <2>1 DEF vars
  <2>3. mtime' \in [0 .. sb.num_inodes - 1 -> {"now", "old", "given"}]
    BY <2>2 DEF ImageInv, ImageType
  <2> QED BY <2>1, <2>2, <2>3, SameImage
<1> QED BY <1>1, <1>2, <1>3, <1>4, <1>5, <1>6 DEF Next

-----------------------------------------------------------------------------
(* The image mkfs writes                                                   *)

LEMMA FormattedRoot ==
  ASSUME NEW f \in Formats, MkfsAccepts(f)
  PROVE  /\ DataRegion(f) \in Nat /\ DataRegion(f) < f.blocks /\ f.blocks \in Nat
         /\ FormattedInode(f) \in BlockInodes /\ Own(FormattedInode(f)) = {DataRegion(f)}
         /\ ValidInode(DataRegion(f), f.blocks, FormattedInode(f))
<1> DEFINE r == DataRegion(f)
           e == [start |-> r, length |-> 1]
           n == FormattedInode(f)
<1>1. f.blocks \in Nat /\ f.inodes \in Nat /\ InodesPerBlock \in Nat /\ InodesPerBlock > 0
  BY ExFSAssumption
<1>2. r \in Nat /\ r < f.blocks
  <2> DEFINE x == f.inodes + InodesPerBlock - 1
  <2>1. x \in Nat
    BY <1>1
  <2> HIDE DEF x
  <2>2. x \div InodesPerBlock \in Nat
    BY <1>1, <2>1
  <2>3. r = 3 + (x \div InodesPerBlock)
    BY DEF DataRegion, x
  <2> QED BY <2>2, <2>3 DEF MkfsAccepts
<1> HIDE DEF r
<1>3. BitmapAlloc(f.blocks, 0 .. r - 1) = r
  <2> DEFINE S == (0 .. f.blocks - 1) \ (0 .. r - 1)
  <2>1. S \in SUBSET Nat /\ r \in S /\ \A x \in S : r <= x
    BY <1>1, <1>2
  <2> HIDE DEF S
  <2>2. Min(S) \in S /\ \A x \in S : Min(S) <= x
    BY <2>1, LeastNumber
  <2>3. Min(S) = r
    <3>1. Min(S) \in Nat /\ r <= Min(S) /\ Min(S) <= r
      BY <2>1, <2>2
    <3> QED BY <1>2, <3>1
  <2> QED BY <2>3 DEF BitmapAlloc, S
<1>4. e \in FileExtent /\ e.start = r /\ e.length = 1
  BY <1>2 DEF FileExtent
<1>5. n = [Zeroed EXCEPT !.blocks = 1, !.size = BlockSize, !.store = <<e>>]
  BY <1>3 DEF FormattedInode, r
<1>6. Blks(<<e>>) = <<r>>
  <2>1. ExtentBlocks(e) = <<r>>
    <3> DEFINE k == 1
    <3>1. k \in Nat \ {0}
      OBVIOUS
    <3> HIDE DEF k
    <3>2. ExtentBlocks([start |-> r, length |-> 1]) = <<r>>
      BY <1>2, <3>1, ShorterExtent
    <3> QED BY <3>2
  <2> HIDE DEF e
  <2> DEFINE z == <<>>
  <2>2. z \in Seq(FileExtent) /\ z = <<>> /\ Append(z, e) = <<e>>
    BY <1>4, EmptySeq
  <2> HIDE DEF z
  <2>3. Blks(<<>>) = <<>> /\ Blks(Append(z, e)) = Blks(z) \o ExtentBlocks(e)
    BY <1>4, <2>2, BlksAppend
  <2>4. Blks(<<e>>) = <<>> \o <<r>>
    BY <2>1, <2>2, <2>3
  <2>5. <<>> \o <<r>> = <<r>>
    BY <1>2
  <2> QED BY <2>4, <2>5
<1> DEFINE store == <<e>>
<1>7. store \in Seq(FileExtent)
  <2> HIDE DEF e
  <2> QED BY <1>4
<1> HIDE DEF e, n
<1>8. /\ n \in BlockInodes /\ n.store = store /\ n.blocks = 1 /\ n.size = BlockSize
  <2> DEFINE st == store
  <2>1. st \in Seq(FileExtent) /\ n = [Zeroed EXCEPT !.blocks = 1, !.size = BlockSize, !.store = st]
    BY <1>5, <1>7
  <2>2. Zeroed \in BlockInodes /\ BlockSize \in Nat
    BY EmptyInodes, Sizes1
  <2> HIDE DEF st, store
  <2>3. n \in BlockInodes
    BY <2>1, <2>2 DEF BlockInodes
  <2>4. n.store = st /\ n.blocks = 1 /\ n.size = BlockSize
    BY <2>1, <2>2 DEF BlockInodes
  <2> QED BY <2>3, <2>4 DEF st
<1> HIDE DEF store
<1>9. Blks(n.store) = <<r>>
  BY <1>6, <1>8 DEF store
<1>10. /\ ToSet(<<r>>) = {r} /\ IsInjective(<<r>>) /\ Len(<<r>>) = 1
  BY DEF ToSet, IsInjective
<1>11. Own(n) = {r}
  BY <1>8, <1>9, <1>10, OwnOfBlocks
<1>12. BlocksFor(BlockSize) = 1
  <2>1. BlocksFor(0 + BlockSize) = BlocksFor(0) + 1 /\ BlocksFor(0) = 0
    BY BlocksForMore
  <2> QED BY <2>1, Sizes1
<1>13. ValidInode(r, f.blocks, n)
  <2>1. {r} \subseteq r .. f.blocks - 1
    BY <1>1, <1>2
  <2> QED BY <1>8, <1>9, <1>10, <1>12, <2>1 DEF ValidInode
<1> QED BY <1>1, <1>2, <1>8, <1>11, <1>13 DEF r, n

LEMMA InitImage == Init => ImageInv
<1> SUFFICES ASSUME Init PROVE ImageInv
  OBVIOUS
<1>1. PICK f \in Formats :
        /\ MkfsAccepts(f)
        /\ sb = [num_inodes |-> f.inodes, free_inodes |-> f.inodes - 1,
                 num_blocks |-> f.blocks, free_blocks |-> f.blocks - (DataRegion(f) + 1),
                 data_region |-> DataRegion(f)]
        /\ imap = {RootIno}
        /\ dmap = 0 .. DataRegion(f)
        /\ itable = [i \in 0 .. f.inodes - 1 |->
                       IF i = RootIno THEN FormattedInode(f) ELSE Zeroed]
        /\ disk = [b \in DataRegion(f) .. f.blocks - 1 |-> [o \in 0 .. BlockSize - 1 |-> f.was]]
        /\ mtime = [i \in 0 .. f.inodes - 1 |-> IF i = RootIno THEN "now" ELSE "old"]
        /\ daemon = "serving"
  BY DEF Init
<1> DEFINE r == DataRegion(f)
           root0 == FormattedInode(f)
<1>2. /\ r \in Nat /\ r < f.blocks /\ f.blocks \in Nat
      /\ root0 \in BlockInodes /\ Own(root0) = {r} /\ ValidInode(r, f.blocks, root0)
  BY <1>1, FormattedRoot
<1>3. f.inodes \in Nat \ {0} /\ f.was \in Byte
  <2>1. f.inodes \in 1 .. BitmapBits - 1 /\ BitmapBits \in Nat /\ f.was \in Byte
    BY <1>1, ExFSAssumption DEF MkfsAccepts
  <2> QED BY <2>1
<1> HIDE DEF r, root0
<1>4. /\ sb.num_inodes = f.inodes /\ sb.num_blocks = f.blocks /\ sb.data_region = r
      /\ sb.free_blocks = f.blocks - (r + 1) /\ sb.free_inodes = f.inodes - 1
      /\ sb \in [num_inodes : Nat \ {0}, free_inodes : Nat, num_blocks : Nat,
                 free_blocks : Nat, data_region : Nat]
  <2>1. f.blocks - (r + 1) \in Nat /\ f.inodes - 1 \in Nat
    BY <1>2, <1>3
  <2>2. sb = [num_inodes |-> f.inodes, free_inodes |-> f.inodes - 1,
              num_blocks |-> f.blocks, free_blocks |-> f.blocks - (r + 1), data_region |-> r]
    BY <1>1 DEF r
  <2> QED BY <1>2, <1>3, <2>1, <2>2
<1>5. /\ itable = [i \in 0 .. f.inodes - 1 |-> IF i = RootIno THEN root0 ELSE Zeroed]
      /\ RootIno \in 0 .. f.inodes - 1 /\ dmap = 0 .. r
      /\ disk = [b \in r .. f.blocks - 1 |-> [o \in 0 .. BlockSize - 1 |-> f.was]]
  BY <1>1, <1>3 DEF r, root0, RootIno
<1>6. /\ DOMAIN itable = 0 .. f.inodes - 1 /\ itable[RootIno] = root0
      /\ \A i \in DOMAIN itable : itable[i] = IF i = RootIno THEN root0 ELSE Zeroed
  BY <1>5
<1>7. ImageType
  <2>1. itable \in [0 .. sb.num_inodes - 1 -> BlockInodes \cup InlineInodes]
    BY <1>2, <1>4, <1>5, EmptyInodes
  <2>2. disk \in [sb.data_region .. sb.num_blocks - 1 -> BlockBytes]
    BY <1>3, <1>4, <1>5 DEF BlockBytes
  <2>3. dmap \subseteq 0 .. sb.num_blocks - 1
    BY <1>2, <1>4, <1>5
  <2>4. mtime \in [0 .. sb.num_inodes - 1 -> {"now", "old", "given"}]
    BY <1>1, <1>4
  <2>5. sb.free_inodes = sb.num_inodes - Cardinality(imap)
    <3>1. Cardinality({RootIno}) = 1
      BY FS_Singleton
    <3> QED BY <1>1, <1>4, <3>1
  <2> QED BY <1>1, <1>4, <2>1, <2>2, <2>3, <2>4, <2>5 DEF ImageType
<1>8. Accounted(r, f.blocks, f.blocks - (r + 1), dmap, itable)
  <2>1. \A i \in DOMAIN itable : Own(itable[i]) = IF i = RootIno THEN {r} ELSE {}
    BY <1>2, <1>6, EmptyInodes
  <2>2. UNION {Own(itable[i]) : i \in DOMAIN itable} = {r}
    BY <1>5, <1>6, <2>1
  <2>3. dmap = (0 .. r - 1) \cup {r}
    BY <1>2, <1>5
  <2>4. \A i \in DOMAIN itable : ValidInode(r, f.blocks, itable[i])
    BY <1>2, <1>6, EmptyInodes
  <2>5. \A i, j \in DOMAIN itable : i # j => Own(itable[i]) \cap Own(itable[j]) = {}
    BY <2>1
  <2>6. Cardinality(dmap) = r + 1
    <3>1. 0 \in Int /\ r \in Int /\ ~(0 > r) /\ r - 0 + 1 = r + 1
      BY <1>2
    <3>2. Cardinality(0 .. r) = IF 0 > r THEN 0 ELSE r - 0 + 1
      BY <3>1, FS_Interval
    <3> QED BY <1>5, <3>1, <3>2
  <2>7. r <= f.blocks
    BY <1>2
  <2> QED BY <1>2, <2>2, <2>3, <2>4, <2>5, <2>6, <2>7 DEF Accounted
<1>9. SpaceInv
  BY <1>2, <1>4, <1>6, <1>8 DEF SpaceInv
<1>10. SumsInv
  BY <1>1 DEF SumsInv
<1> QED BY <1>7, <1>9, <1>10, InitDirInv DEF ImageInv

-----------------------------------------------------------------------------
(* What holds of ExFS                                                      *)

(* Every state of the daemon has the invariant of the image: the tables    *)
(* have their types, and while the daemon serves calls every block in use  *)
(* has one owner and every file the checksum of its bytes (exfs_create,    *)
(* exfs_unlink, exfs_truncate, exfs_write, exfs_utimens).                  *)
THEOREM ImageInvariant == Spec => []ImageInv
<1>1. ImageInv /\ [Next]_vars => ImageInv'
  <2>1. ASSUME ImageInv, UNCHANGED vars PROVE ImageInv'
    <3>1. UNCHANGED image /\ mtime' = mtime
      BY <2>1 DEF vars
    <3>2. mtime' \in [0 .. sb.num_inodes - 1 -> {"now", "old", "given"}]
      BY <2>1, <3>1 DEF ImageInv, ImageType
    <3> QED BY <2>1, <3>1, <3>2, SameImage
  <2> QED BY <2>1, ImageSteps
<1> QED BY <1>1, InitImage, PTL DEF Spec

LEMMA InodeTypes ==
  /\ BlockInodes \cup InlineInodes \subseteq Inode
  /\ \A n \in BlockInodes \cup InlineInodes :
       n.inline <=> n.store \in [0 .. InlineSize - 1 -> Byte]
<1>1. FileExtent \subseteq Extent
  BY DEF FileExtent, Extent
<1>2. Seq(FileExtent) \subseteq Seq(Extent)
  <2> SUFFICES ASSUME NEW s \in Seq(FileExtent) PROVE s \in Seq(Extent)
    OBVIOUS
  <2>1. Len(s) \in Nat /\ s \in [1 .. Len(s) -> FileExtent]
    OBVIOUS
  <2>2. s \in [1 .. Len(s) -> Extent]
    BY <1>1, <2>1
  <2> QED BY <2>1, <2>2
<1>3. \A s \in Seq(FileExtent) : s \notin [0 .. InlineSize - 1 -> Byte]
  <2> SUFFICES ASSUME NEW s \in Seq(FileExtent), s \in [0 .. InlineSize - 1 -> Byte] PROVE FALSE
    OBVIOUS
  <2>1. DOMAIN s = 1 .. Len(s) /\ DOMAIN s = 0 .. InlineSize - 1
    OBVIOUS
  <2>2. 0 \in 0 .. InlineSize - 1 /\ 0 \notin 1 .. Len(s)
    BY Sizes1
  <2> QED BY <2>1, <2>2
<1>4. ASSUME NEW n \in BlockInodes
      PROVE  n \in Inode /\ (n.inline <=> n.store \in [0 .. InlineSize - 1 -> Byte])
  <2>1. n.inline = FALSE /\ n.store \in Seq(FileExtent)
    BY DEF BlockInodes
  <2>2. n \in Inode
    BY <1>2 DEF BlockInodes, Inode, Sums
  <2> QED BY <1>3, <2>1, <2>2
<1>5. ASSUME NEW n \in InlineInodes
      PROVE  n \in Inode /\ (n.inline <=> n.store \in [0 .. InlineSize - 1 -> Byte])
  <2>1. n.inline = TRUE /\ n.store \in [0 .. InlineSize - 1 -> Byte]
    BY DEF InlineInodes
  <2>2. n \in Inode
    BY Sizes1 DEF InlineInodes, Inode, Sums
  <2> QED BY <2>1, <2>2
<1> QED BY <1>4, <1>5

(* The tables, the counters and the blocks keep their types, whatever the  *)
(* sequence of calls.                                                      *)
THEOREM TypesKept == Spec => []TypeOK
<1> SUFFICES ASSUME ImageInv PROVE TypeOK
  BY ImageInvariant, PTL
<1>1. ImageType /\ DirectoryMatchesInodes /\ Shape
  BY DEF ImageInv, DirInv
<1>2. /\ sb \in [num_inodes : Nat, free_inodes : Nat, num_blocks : Nat, free_blocks : Nat,
                 data_region : Nat]
      /\ imap \subseteq 0 .. sb.num_inodes - 1 /\ dmap \subseteq 0 .. sb.num_blocks - 1
      /\ daemon \in {"serving", "looping", "aborted"}
  BY <1>1 DEF ImageType, Shape
<1>3. DOMAIN itable = 0 .. sb.num_inodes - 1
      /\ \A ino \in DOMAIN itable : itable[ino] \in BlockInodes \cup InlineInodes
  BY <1>1 DEF ImageType
<1>4. /\ itable \in [0 .. sb.num_inodes - 1 -> Inode]
      /\ \A ino \in DOMAIN itable :
           itable[ino].inline <=> itable[ino].store \in [0 .. InlineSize - 1 -> Byte]
  <2>1. \A ino \in DOMAIN itable : itable[ino] \in Inode
    BY <1>3, InodeTypes
  <2>2. itable \in [0 .. sb.num_inodes - 1 -> Inode]
    BY <1>1, <1>3, <2>1 DEF ImageType
  <2> QED BY <1>3, <2>2, InodeTypes
<1>5. dir \in Seq([ino : {NoIno} \cup DOMAIN itable, name : Names \cup {".", "..", ""}])
  <2> DEFINE T == [ino : {NoIno} \cup DOMAIN itable, name : Names \cup {".", "..", ""}]
  <2>1. Len(dir) \in Nat /\ dir \in [1 .. Len(dir) -> Entry]
    BY <1>1 DEF Shape
  <2>2. ASSUME NEW i \in 1 .. Len(dir) PROVE dir[i] \in T
    <3>1. dir[i] \in Entry
      BY <2>1, <2>2
    <3>2. CASE dir[i].ino = NoIno
      BY <3>1, <3>2 DEF Entry
    <3>3. CASE dir[i].ino # NoIno
      <4>1. i \in DOMAIN ReadDir
        BY <2>1, <2>2, <3>3 DEF ReadDir, FreeEntries
      <4>2. dir[i].ino \in imap
        BY <1>1, <4>1 DEF DirectoryMatchesInodes
      <4>3. dir[i].ino \in DOMAIN itable
        BY <1>2, <1>3, <4>2
      <4> QED BY <3>1, <4>3 DEF Entry
    <3> QED BY <3>2, <3>3
  <2> HIDE DEF T
  <2>3. dir \in Seq(T)
    BY <2>1, <2>2
  <2> QED BY <2>3 DEF T
<1>6. /\ disk \in [sb.data_region .. sb.num_blocks - 1 -> [0 .. BlockSize - 1 -> Byte]]
      /\ mtime \in [DOMAIN itable -> {"now", "old", "given"}]
  BY <1>1, <1>3 DEF ImageType, BlockBytes
<1> QED BY <1>2, <1>4, <1>5, <1>6 DEF TypeOK

(* No block is lost, shared or freed twice, by calls that succeed or fail  *)
(* half way (ensure_blocks_for_size, shrink_to_size, convert_inline_to_-   *)
(* extents), statfs reports what is free, and the assertion of bitmap_free *)
(* never fails.                                                            *)
THEOREM SpaceKept == Spec => []SpaceAccounted
<1> SUFFICES ASSUME ImageInv PROVE SpaceAccounted
  BY ImageInvariant, PTL
<1>1. daemon # "aborted"
  BY DEF ImageInv, ImageType
<1> DEFINE first == sb.data_region
           end == sb.num_blocks
<1>2. ASSUME daemon = "serving"
      PROVE  /\ dmap = (0 .. first - 1) \cup UNION {ToSet(OwnBlocks(ino)) : ino \in DOMAIN itable}
             /\ \A ino \in DOMAIN itable :
                  /\ IsInjective(OwnBlocks(ino))
                  /\ ToSet(OwnBlocks(ino)) \subseteq first .. end - 1
                  /\ itable[ino].blocks = Len(OwnBlocks(ino))
                  /\ ~itable[ino].inline => itable[ino].blocks = BlocksFor(itable[ino].size)
             /\ \A i, j \in DOMAIN itable :
                  i # j => ToSet(OwnBlocks(i)) \cap ToSet(OwnBlocks(j)) = {}
             /\ StatFs.bfree = end - Cardinality(dmap)
             /\ StatFs.ffree = sb.num_inodes - Cardinality(imap)
  <2>1. Accounted(first, end, sb.free_blocks, dmap, itable)
    BY <1>2 DEF ImageInv, SpaceInv
  <2>2. StatFs.bfree = sb.free_blocks /\ StatFs.ffree = sb.free_inodes
    BY DEF StatFs
  <2>3. sb.free_inodes = sb.num_inodes - Cardinality(imap)
    BY FewInodes
  <2> HIDE DEF first, end
  <2>4. /\ dmap = (0 .. first - 1) \cup UNION {Own(itable[i]) : i \in DOMAIN itable}
        /\ \A i \in DOMAIN itable : ValidInode(first, end, itable[i])
        /\ \A i, j \in DOMAIN itable : i # j => Own(itable[i]) \cap Own(itable[j]) = {}
        /\ sb.free_blocks = end - Cardinality(dmap)
    BY <2>1 DEF Accounted
  <2>5. ASSUME NEW ino \in DOMAIN itable
        PROVE  /\ IsInjective(OwnBlocks(ino)) /\ ToSet(OwnBlocks(ino)) = Own(itable[ino])
               /\ Own(itable[ino]) \subseteq first .. end - 1
               /\ itable[ino].blocks = Len(OwnBlocks(ino))
               /\ ~itable[ino].inline => itable[ino].blocks = BlocksFor(itable[ino].size)
    <3> DEFINE n == itable[ino]
    <3>1. ValidInode(first, end, n)
      BY <2>4
    <3>2. OwnBlocks(ino) = IF n.inline THEN <<>> ELSE BlocksOf(n)
      BY DEF OwnBlocks
    <3> HIDE DEF n
    <3>3. /\ IsInjective(OwnBlocks(ino)) /\ ToSet(OwnBlocks(ino)) = Own(n)
          /\ n.blocks = Len(OwnBlocks(ino)) /\ (~n.inline => n.blocks = BlocksFor(n.size))
      BY <3>1, <3>2, ValidBlocks
    <3>4. Own(n) \subseteq first .. end - 1
      BY <3>1, OwnInRegion
    <3> QED BY <3>3, <3>4 DEF n
  <2>6. UNION {ToSet(OwnBlocks(ino)) : ino \in DOMAIN itable} =
          UNION {Own(itable[i]) : i \in DOMAIN itable}
    BY <2>5
  <2> QED BY <2>2, <2>3, <2>4, <2>5, <2>6
<1> QED BY <1>1, <1>2 DEF SpaceAccounted

(* A call that returns an error has changed nothing, however far it had    *)
(* come before it failed (restore_inline_inode and the tails of            *)
(* exfs_truncate and exfs_write).                                          *)
THEOREM FailuresChangeNothing == Spec => FailedCallChangesNothing
<1>1. ImageInv /\ [Next]_vars => [FailureOfStep]_vars
  BY ImageSteps
<1>2. Spec => [][FailureOfStep]_vars
  BY <1>1, ImageInvariant, PTL DEF Spec
<1> QED BY <1>2 DEF FailedCallChangesNothing, FailureOfStep

(* ensure_blocks_for_size gives up only if there are not enough free       *)
(* blocks, and repeats a turn for ever only if the file needs 2^32 of them *)
(* or more.                                                                *)
THEOREM SpaceNeeded == Spec => FailsOnlyForSpace
<1>1. ImageInv /\ [Next]_vars => [SpaceOfStep]_vars
  BY ImageSteps
<1>2. Spec => [][SpaceOfStep]_vars
  BY <1>1, ImageInvariant, PTL DEF Spec
<1> QED BY <1>2 DEF FailsOnlyForSpace, SpaceOfStep

(* A byte of a file, as the read of the block it is in returns it.         *)
LEMMA ByteRead ==
  ASSUME NEW n, NEW bytes, NEW q \in Nat, n.size \in Nat, q < n.size, n.inline \in BOOLEAN,
         n.inline \/ q \div BlockSize < Len(BlocksOf(n))
  PROVE  ReadBytes(bytes, n, PageOf(q + 1), BlockSize)[(q + 1) - PageOf(q + 1)] =
           ByteAt(bytes, n, q)
<1> DEFINE k == q \div BlockSize
           o == q % BlockSize
           off == k * BlockSize
           i == o + 1
           most == Min({BlockSize, n.size - off})
<1>1. PageOf(q + 1) = off
  <2>1. (q + 1) - 1 = q
    OBVIOUS
  <2> QED BY <2>1 DEF PageOf
<1>2. k \in Nat /\ o \in 0 .. BlockSize - 1 /\ q = BlockSize * k + o
  BY DivBlock
<1> HIDE DEF k, o
<1>3. off \in Nat /\ q = off + o /\ (q + 1) - off = i /\ off + i - 1 = q
  BY <1>2, Sizes1
<1>4. off \div BlockSize = k /\ off % BlockSize = 0
  BY <1>2, Sizes1
<1> HIDE DEF off
<1>5. i \in 1 .. most /\ (off % BlockSize) + i - 1 = o
  <2> DEFINE T == {BlockSize, n.size - off}
  <2>1. n.size - off \in Nat /\ T \in SUBSET Nat
    BY <1>2, <1>3, Sizes1
  <2>2. BlockSize >= i /\ n.size - off >= i /\ i \in Nat \ {0}
    BY <1>2, <1>3, Sizes1
  <2>3. \A t \in T : t >= i
    BY <2>2
  <2>4. T # {}
    OBVIOUS
  <2>5. most = Min(T)
    OBVIOUS
  <2> HIDE DEF T, most
  <2>6. most \in T
    BY <2>1, <2>4, <2>5, LeastNumber
  <2>7. most >= i /\ most \in Nat
    BY <2>1, <2>3, <2>6
  <2>8. (off % BlockSize) + i - 1 = o
    BY <1>2, <1>4
  <2> QED BY <2>2, <2>7, <2>8
<1> HIDE DEF most
<1> DEFINE blks == BlocksOf(n)
<1>6. ReadBytes(bytes, n, off, BlockSize)[i] =
        CASE n.inline -> n.store[off + i - 1]
          [] ~n.inline /\ k < Len(blks) -> bytes[blks[k + 1]][(off % BlockSize) + i - 1]
          [] OTHER -> 0
  <2>1. ReadBytes(bytes, n, off, BlockSize) =
          [j \in 1 .. most |->
             CASE n.inline -> n.store[off + j - 1]
               [] ~n.inline /\ k < Len(blks) -> bytes[blks[k + 1]][(off % BlockSize) + j - 1]
               [] OTHER -> 0]
    BY <1>4, Zenon DEF ReadBytes, most
  <2> HIDE DEF i, blks
  <2> QED BY <1>5, <2>1
<1>7. CASE n.inline
  <2>1. n.store[off + i - 1] = n.store[q]
    BY <1>3
  <2>2. ByteAt(bytes, n, q) = n.store[q]
    BY <1>7 DEF ByteAt
  <2> QED BY <1>1, <1>3, <1>6, <1>7, <2>1, <2>2
<1>8. CASE ~n.inline
  <2>1. k < Len(blks) /\ MapBlock(n, k) = blks[k + 1]
    BY <1>8 DEF k, MapBlock
  <2>2. ByteAt(bytes, n, q) = bytes[MapBlock(n, k)][o]
    BY <1>8 DEF ByteAt, k, o
  <2>3. bytes[blks[k + 1]][(off % BlockSize) + i - 1] = bytes[MapBlock(n, k)][o]
    BY <1>5, <2>1
  <2> HIDE DEF i, blks
  <2>4. ReadBytes(bytes, n, off, BlockSize)[i] = bytes[MapBlock(n, k)][o]
    BY <1>6, <1>8, <2>1, <2>3
  <2> QED BY <1>1, <1>3, <2>2, <2>4
<1> QED BY <1>7, <1>8

(* Every byte of a file has a place.                                       *)
Placed(n) ==
  /\ n.size \in Nat /\ n.inline \in BOOLEAN
  /\ \A p \in Nat : p < n.size => n.inline \/ p \div BlockSize < Len(BlocksOf(n))

LEMMA ValidPlaced ==
  ASSUME NEW first, NEW end, NEW n, ValidInode(first, end, n)
  PROVE  Placed(n)
<1>1. CASE n \in InlineInodes
  <2>1. n.size \in 0 .. InlineSize
    BY <1>1 DEF InlineInodes
  <2>2. n.inline = TRUE
    BY <1>1, OwnOfInline
  <2>3. n.size \in Nat
    BY <2>1, Sizes1
  <2>4. n.inline \in BOOLEAN /\ n.inline
    BY <2>2, Zenon
  <2> QED BY <2>3, <2>4 DEF Placed
<1>2. CASE n \in BlockInodes
  <2>1. n.size \in Nat
    BY <1>2 DEF BlockInodes
  <2>2. n.inline = FALSE
    BY <1>2, OwnOfBlocks
  <2>3. \A p \in Nat : p < n.size => p \div BlockSize < Len(BlocksOf(n))
    BY <1>2, BlockOfByte
  <2> QED BY <2>1, <2>2, <2>3 DEF Placed
<1> QED BY <1>1, <1>2, OwnInRegion

(* The bytes of a file are numbered from 1 where it is read.               *)
LEMMA XorShifted ==
  ASSUME NEW N \in Nat, NEW f, NEW g, DOMAIN g \subseteq 0 .. N - 1,
         DOMAIN f = {p + 1 : p \in DOMAIN g}, \A p \in DOMAIN g : f[p + 1] = g[p]
  PROVE  Xor(f) = Xor(g)
<1> DEFINE P == DOMAIN g
           S == {p \in P : g[p] = 1}
           T == {p \in DOMAIN f : f[p] = 1}
           h == [p \in S |-> p + 1]
<1>1. T = {p + 1 : p \in S}
  OBVIOUS
<1>2. S \in SUBSET Int
  <2>1. P \in SUBSET Int
    OBVIOUS
  <2>2. S \subseteq P
    OBVIOUS
  <2> HIDE DEF S, T, h, P
  <2> QED BY <2>1, <2>2
<1>3. IsFiniteSet(S)
  <2>1. IsFiniteSet(0 .. N - 1)
    BY FS_Interval
  <2>2. S \in SUBSET (0 .. N - 1)
    OBVIOUS
  <2> QED BY <2>1, <2>2, FS_Subset
<1>4. Xor(f) = Cardinality(T) % 2 /\ Xor(g) = Cardinality(S) % 2
  BY DEF Xor
<1> HIDE DEF S, T
<1>5. h \in [S -> T] /\ (\A t \in T : \E p \in S : h[p] = t) /\ \A p, q \in S : h[p] = h[q] => p = q
  BY <1>1, <1>2
<1> HIDE DEF h
<1>6. h \in Bijection(S, T)
  BY <1>5 DEF Bijection, Injection, Surjection, IsInjective
<1>7. Cardinality(T) = Cardinality(S)
  BY <1>3, <1>6, FS_Bijection DEF ExistsBijection
<1> QED BY <1>4, <1>7

(* The checksum kept in an inode is that of the bytes the file is read as, *)
(* after any sequence of calls (inode_checksum).                           *)
THEOREM ChecksumKept == Spec => []ChecksumCurrent
<1> SUFFICES ASSUME ImageInv PROVE ChecksumCurrent
  BY ImageInvariant, PTL
<1> SUFFICES ASSUME daemon = "serving", NEW n \in Names, Found(n)
             PROVE  itable[PathLookup(n)].sum =
                      [w \in 0 .. WordSize - 1 |->
                         Xor([p \in {q \in DOMAIN Contents(n) : (q - 1) % WordSize = w} |->
                                Contents(n)[p]])]
  BY Zenon DEF ChecksumCurrent
<1> DEFINE ino == PathLookup(n)
           f == itable[ino]
           c == Contents(n)
<1>1. DirInv /\ ImageType /\ SpaceInv /\ SumsInv
  BY DEF ImageInv
<1>2. ino \in imap \ {RootIno} /\ ino \in DOMAIN itable
  <2>1. ino \in imap
    BY <1>1, OneEntry
  <2>2. ino # RootIno
    BY <1>1, FilesAreNotRoot
  <2> HIDE DEF ino
  <2> QED BY <1>1, <2>1, <2>2 DEF DirInv, Shape
<1>3. c = [p \in 1 .. f.size |-> ReadBytes(disk, f, PageOf(p), BlockSize)[p - PageOf(p)]]
  <2> HIDE DEF ino
  <2> QED BY <1>2 DEF Contents, FileBytes, ino
<1> HIDE DEF ino, c
<1>4. /\ f.sum = InodeChecksum(disk, f) /\ ValidInode(sb.data_region, sb.num_blocks, f)
      /\ f \in BlockInodes \cup InlineInodes
  BY <1>1, <1>2 DEF SumsInv, SpaceInv, Accounted, ImageType
<1> HIDE DEF f
<1>5. Placed(f) /\ f.size \in Nat /\ f.inline \in BOOLEAN
  BY <1>4, ValidPlaced DEF Placed
<1> DEFINE byte(q) == IF f.inline THEN f.store[q]
                      ELSE disk[MapBlock(f, q \div BlockSize)][q % BlockSize]
<1>6. ASSUME NEW q \in 0 .. f.size - 1 PROVE c[q + 1] = byte(q)
  <2>1. q \in Nat /\ q < f.size /\ q + 1 \in 1 .. f.size
    BY <1>5
  <2>2. c[q + 1] = ReadBytes(disk, f, PageOf(q + 1), BlockSize)[(q + 1) - PageOf(q + 1)]
    BY <1>3, <2>1
  <2>3. f.inline \/ q \div BlockSize < Len(BlocksOf(f))
    BY <1>5, <2>1 DEF Placed
  <2>4. c[q + 1] = ByteAt(disk, f, q)
    BY <1>5, <2>1, <2>2, <2>3, ByteRead
  <2> QED BY <2>4 DEF ByteAt
<1> DEFINE P(w) == {q \in 0 .. f.size - 1 : q % WordSize = w}
           Q(w) == {q \in DOMAIN c : (q - 1) % WordSize = w}
           a(w) == [p \in P(w) |-> byte(p)]
           b(w) == [p \in Q(w) |-> c[p]]
<1>7. InodeChecksum(disk, f) = [w \in 0 .. WordSize - 1 |-> Xor(a(w))]
  <2>1. CASE f.inline
    <3>1. InodeChecksum(disk, f) = [w \in 0 .. WordSize - 1 |->
            Xor([p \in {q \in 0 .. f.size - 1 : q % WordSize = w} |-> f.store[p]])]
      BY <2>1, Zenon DEF InodeChecksum, CalculateChecksum
    <3>2. \A w : a(w) = [p \in {q \in 0 .. f.size - 1 : q % WordSize = w} |-> f.store[p]]
      BY <2>1
    <3> QED BY <3>1, <3>2, Zenon
  <2>2. CASE ~f.inline
    <3>1. InodeChecksum(disk, f) = [w \in 0 .. WordSize - 1 |->
            Xor([p \in {q \in 0 .. f.size - 1 : q % WordSize = w} |->
                   disk[MapBlock(f, p \div BlockSize)][p % BlockSize]])]
      BY <2>2, Zenon DEF InodeChecksum, ChecksumExtents
    <3>2. \A w : a(w) = [p \in {q \in 0 .. f.size - 1 : q % WordSize = w} |->
                           disk[MapBlock(f, p \div BlockSize)][p % BlockSize]]
      BY <2>2
    <3> QED BY <3>1, <3>2, Zenon
  <2> QED BY <2>1, <2>2
<1>8. ASSUME NEW w PROVE Xor(b(w)) = Xor(a(w))
  <2>1. DOMAIN c = 1 .. f.size
    BY <1>3
  <2> HIDE DEF byte
  <2>2. DOMAIN a(w) = P(w) /\ P(w) \in SUBSET (0 .. f.size - 1)
    OBVIOUS
  <2>3. Q(w) = {p + 1 : p \in P(w)}
    <3>1. ASSUME NEW q \in Q(w) PROVE q \in {p + 1 : p \in P(w)}
      <4>1. q - 1 \in P(w) /\ q = (q - 1) + 1
        BY <1>5, <2>1
      <4> QED BY <4>1
    <3>2. ASSUME NEW p \in P(w) PROVE p + 1 \in Q(w)
      <4>1. p \in Int /\ p + 1 \in 1 .. f.size /\ (p + 1) - 1 = p /\ p % WordSize = w
        BY <1>5
      <4> QED BY <2>1, <4>1
    <3> QED BY <3>1, <3>2
  <2>4. DOMAIN b(w) = Q(w) /\ \A p \in P(w) : b(w)[p + 1] = a(w)[p]
    <3>1. ASSUME NEW p \in P(w) PROVE b(w)[p + 1] = a(w)[p]
      <4>1. p + 1 \in Q(w) /\ p \in 0 .. f.size - 1
        BY <2>3
      <4>2. b(w)[p + 1] = c[p + 1] /\ a(w)[p] = byte(p)
        BY <4>1
      <4> QED BY <1>6, <4>1, <4>2
    <3> QED BY <3>1
  <2> DEFINE x == a(w)
             y == b(w)
             D == P(w)
             N == f.size
  <2>5. /\ N \in Nat /\ DOMAIN x \subseteq 0 .. N - 1 /\ DOMAIN y = {p + 1 : p \in DOMAIN x}
        /\ \A p \in DOMAIN x : y[p + 1] = x[p]
    <3>1. DOMAIN x = D /\ DOMAIN y = {p + 1 : p \in D} /\ \A p \in D : y[p + 1] = x[p]
      BY <2>2, <2>3, <2>4
    <3>2. N \in Nat /\ D \in SUBSET (0 .. N - 1)
      BY <1>5, <2>2
    <3> HIDE DEF x, y, D, N
    <3> QED BY <3>1, <3>2
  <2> HIDE DEF x, y, D, N
  <2>6. Xor(y) = Xor(x)
    BY <2>5, XorShifted
  <2> QED BY <2>6 DEF x, y
<1> HIDE DEF a, b
<1>9. [w \in 0 .. WordSize - 1 |-> Xor(a(w))] = [w \in 0 .. WordSize - 1 |-> Xor(b(w))]
  BY <1>8
<1>10. f.sum = [w \in 0 .. WordSize - 1 |-> Xor(b(w))]
  BY <1>4, <1>7, <1>9
<1> QED BY <1>10, Zenon DEF b, f, c, ino

-----------------------------------------------------------------------------
(* The bytes of files                                                      *)

(* A file that gets more blocks keeps its bytes.                           *)
LEMMA ExtendedReads ==
  ASSUME NEW first, NEW end, NEW others, NEW fs, Sound(first, end, others, fs), fs.rc = "OK",
         fs.n.blocks = BlocksFor(fs.n.size), NEW target \in Nat,
         EnsureBlocksForSize(fs, target).rc \in {"OK", "LOOP"}, NEW p \in Nat, p < fs.n.size
  PROVE  Reads(EnsureBlocksForSize(fs, target), p) = Reads(fs, p)
<1> DEFINE r == EnsureBlocksForSize(fs, target)
<1>1. Ensured(first, end, others, fs, BlocksFor(target), r)
  BY EnsureBlocks
<1>2. r.rc \in {"OK", "LOOP"}
  OBVIOUS
<1> HIDE DEF r
<1>3. Sound(first, end, others, r) /\ Grew(fs, r)
  BY <1>1, <1>2 DEF Ensured
<1>4. fs.n.size \in Nat
  BY SoundFields DEF SoundFacts
<1>5. p \div BlockSize < fs.n.blocks
  BY <1>4, PositionInFile
<1>6. Reads(r, p) = Reads(fs, p)
  BY <1>3, <1>5, GrewReads
<1> QED BY <1>6 DEF r

(* The bytes of r, which size bytes of are left, are those of fs with buf  *)
(* over them, and zeros where the file was shorter; a call that never      *)
(* returns has not changed a byte yet.                                     *)
Overlaid(fs, size, buf, r) ==
  /\ r.rc = "OK" =>
       \A p \in Nat : p < size =>
         Reads(r, p) = IF p \in DOMAIN buf THEN buf[p] ELSE IF p < fs.n.size THEN Reads(fs, p) ELSE 0
  /\ r.rc = "LOOP" => \A p \in Nat : p < fs.n.size => Reads(r, p) = Reads(fs, p)
Nothing == [p \in {} |-> 0]

LEMMA TruncatesReads ==
  ASSUME NEW first, NEW end, NEW others, NEW fs, Sound(first, end, others, fs), fs.rc = "OK",
         fs.n.blocks = BlocksFor(fs.n.size), NEW size \in Nat
  PROVE  Overlaid(fs, size, Nothing, TruncatedBlocks(fs, size))
<1> DEFINE r == TruncatedBlocks(fs, size)
<1>0. DOMAIN Nothing = {}
  BY DEF Nothing
<1>1. fs.n.size \in Nat /\ fs.n.blocks \in Nat
  BY SoundFields DEF SoundFacts
<1>2. CASE size > fs.n.size
  <2> DEFINE x == EnsureBlocksForSize(fs, size)
             big == IF size >= fs.n.size THEN size ELSE fs.n.size
             z == ZeroExtentRange(x, fs.n.size, size)
  <2>1. r = z
    <3>1. ~(size < fs.n.size)
      BY <1>1, <1>2
    <3> QED BY <1>2, <3>1, Zenon DEF TruncatedBlocks
  <2>2. Reshaped(first, end, others, fs, BlocksFor(size), BlocksFor(big), x)
    BY Extended
  <2>3. big = size
    BY <1>1, <1>2
  <2>4. ASSUME x.rc \in {"OK", "LOOP"}, NEW p \in Nat, p < fs.n.size
        PROVE  Reads(x, p) = Reads(fs, p)
    BY <2>4, ExtendedReads
  <2> HIDE DEF x, big
  <2>5. CASE x.rc = "OK"
    <3>1. Sound(first, end, others, x) /\ x.n.blocks = BlocksFor(size)
      BY <2>2, <2>3, <2>5 DEF Reshaped
    <3>2. size <= x.n.blocks * BlockSize
      BY <3>1, BlocksForBytes
    <3>3. z.rc = "OK"
      BY <1>1, <2>5, <3>1, <3>2, ZeroRange
    <3>4. ASSUME NEW p \in Nat, p < size
          PROVE  Reads(z, p) = IF p < fs.n.size THEN Reads(fs, p) ELSE 0
      <4>1. p \div BlockSize < x.n.blocks
        BY <3>1, <3>4, PositionInFile
      <4>2. Reads(z, p) = IF p \in fs.n.size .. size - 1 THEN 0 ELSE Reads(x, p)
        BY <1>1, <2>5, <3>1, <3>2, <4>1, ZeroReads
      <4>3. p < fs.n.size => Reads(x, p) = Reads(fs, p)
        BY <2>4, <2>5
      <4>4. p \in fs.n.size .. size - 1 <=> ~(p < fs.n.size)
        BY <1>1, <3>4
      <4> QED BY <4>2, <4>3, <4>4
    <3> HIDE DEF z
    <3>5. Overlaid(fs, size, Nothing, z)
      BY <1>0, <3>3, <3>4 DEF Overlaid
    <3> HIDE DEF r
    <3> QED BY <2>1, <3>5 DEF r
  <2>6. CASE x.rc # "OK"
    <3>1. z = x
      BY <2>6 DEF ZeroExtentRange, Put
    <3>2. Overlaid(fs, size, Nothing, x)
      BY <2>4, <2>6 DEF Overlaid
    <3> HIDE DEF z, r
    <3> QED BY <2>1, <3>1, <3>2 DEF r
  <2> QED BY <2>5, <2>6
<1>3. CASE size < fs.n.size
  <2> DEFINE z == ShrinkToSize(fs, size)
  <2>1. r = z
    BY <1>1, <1>3 DEF TruncatedBlocks
  <2>2. BlocksFor(size) <= fs.n.blocks
    BY <1>1, <1>3, BlocksForMore
  <2>3. z.rc = "OK" /\ \A p \in Nat : p < size => Reads(z, p) = Reads(fs, p)
    BY <2>2, Shrunk
  <2> HIDE DEF z
  <2>4. \A p \in Nat : p < size => p < fs.n.size
    BY <1>1, <1>3
  <2>5. Overlaid(fs, size, Nothing, z)
    BY <1>0, <2>3, <2>4 DEF Overlaid
  <2> HIDE DEF r
  <2> QED BY <2>1, <2>5 DEF r
<1>4. CASE size = fs.n.size
  <2>1. r = fs
    BY <1>1, <1>4 DEF TruncatedBlocks
  <2>2. Overlaid(fs, size, Nothing, fs)
    BY <1>0, <1>4 DEF Overlaid
  <2> HIDE DEF r
  <2> QED BY <2>1, <2>2 DEF r
<1> QED BY <1>1, <1>2, <1>3, <1>4

LEMMA WritesReads ==
  ASSUME NEW first, NEW end, NEW others, NEW fs, Sound(first, end, others, fs), fs.rc = "OK",
         fs.n.blocks = BlocksFor(fs.n.size), NEW at \in Nat, NEW to \in Nat, at <= to,
         NEW buf \in [at .. to - 1 -> Byte]
  PROVE  Overlaid(fs, IF to >= fs.n.size THEN to ELSE fs.n.size, buf, WrittenBlocks(fs, at, buf, to))
<1> DEFINE big == IF to >= fs.n.size THEN to ELSE fs.n.size
           P == at .. to - 1
           x == EnsureBlocksForSize(fs, to)
           y == ZeroExtentRange(x, fs.n.size, at)
           r == Put(y, buf)
<1>1. big \in Nat /\ fs.n.size \in Nat /\ at <= big /\ to <= big
  <2>1. fs.n.size \in Nat
    BY SoundFields DEF SoundFacts
  <2> QED BY <2>1
<1>2. Reshaped(first, end, others, fs, BlocksFor(to), BlocksFor(big), x)
  BY Extended
<1>3. r = WrittenBlocks(fs, at, buf, to)
  BY DEF WrittenBlocks
<1>4. P \in SUBSET Nat /\ buf \in [P -> Byte] /\ DOMAIN buf = P
  OBVIOUS
<1>5. ASSUME x.rc \in {"OK", "LOOP"}, NEW p \in Nat, p < fs.n.size
      PROVE  Reads(x, p) = Reads(fs, p)
  BY <1>5, ExtendedReads
<1>6. \A p \in Nat : p < big /\ p \notin P /\ ~(p < fs.n.size) => p \in fs.n.size .. at - 1
  BY <1>1
<1>7. \A p \in fs.n.size .. at - 1 : ~(p < fs.n.size)
  BY <1>1
<1>8. \A p \in P : p \in Nat /\ p < big
  BY <1>1
<1> HIDE DEF x, big, P
<1>9. CASE x.rc = "OK"
  <2>1. Sound(first, end, others, x) /\ x.n.blocks = BlocksFor(big)
    BY <1>2, <1>9 DEF Reshaped
  <2>2. at <= x.n.blocks * BlockSize
    <3> DEFINE m == BlocksFor(big) * BlockSize
    <3>1. big <= m /\ m \in Nat
      <4>1. BlocksFor(big) \in Nat /\ big <= m
        BY <1>1, BlocksForBytes
      <4> QED BY <4>1, Sizes1
    <3>2. x.n.blocks * BlockSize = m
      BY <2>1
    <3> HIDE DEF m
    <3> QED BY <1>1, <3>1, <3>2
  <2>3. Sound(first, end, others, y) /\ y.rc = "OK" /\ y.n = x.n
    BY <1>1, <1>9, <2>1, <2>2, ZeroRange
  <2>4. \A p \in Nat : p < big => p \div BlockSize < BlocksFor(big)
    BY <1>1, PositionInFile
  <2>5. ASSUME NEW p \in Nat, p < big
        PROVE  Reads(y, p) = IF p \in fs.n.size .. at - 1 THEN 0 ELSE Reads(x, p)
    BY <1>1, <1>9, <2>1, <2>2, <2>4, <2>5, ZeroReads
  <2> HIDE DEF y
  <2>6. \A p \in P : p \div BlockSize < y.n.blocks
    BY <1>8, <2>1, <2>3, <2>4
  <2>7. r.rc = "OK"
    BY <1>4, <2>3, <2>6, PutBytes
  <2>8. ASSUME NEW p \in Nat, p < big
        PROVE  Reads(r, p) = IF p \in P THEN buf[p] ELSE Reads(y, p)
    <3>1. p \div BlockSize < y.n.blocks
      BY <2>1, <2>3, <2>4, <2>8
    <3> QED BY <1>4, <2>3, <2>6, <3>1, PutReads
  <2> HIDE DEF r
  <2>9. ASSUME NEW p \in Nat, p < big
        PROVE  Reads(r, p) = IF p \in DOMAIN buf THEN buf[p]
                             ELSE IF p < fs.n.size THEN Reads(fs, p) ELSE 0
    <3>1. CASE p \in P
      BY <1>4, <2>8, <2>9, <3>1
    <3>2. CASE p \notin P /\ p < fs.n.size
      <4>1. p \notin fs.n.size .. at - 1
        BY <1>7, <3>2
      <4> QED BY <1>4, <1>5, <1>9, <2>5, <2>8, <2>9, <3>2, <4>1
    <3>3. CASE p \notin P /\ ~(p < fs.n.size)
      <4>1. p \in fs.n.size .. at - 1
        BY <1>6, <2>9, <3>3
      <4> QED BY <1>4, <2>5, <2>8, <2>9, <3>3, <4>1
    <3> QED BY <3>1, <3>2, <3>3
  <2>10. Overlaid(fs, big, buf, r)
    BY <2>7, <2>9 DEF Overlaid
  <2> QED BY <1>3, <2>10 DEF big
<1>10. CASE x.rc # "OK"
  <2>1. r = x
    BY <1>10 DEF ZeroExtentRange, Put
  <2>2. Overlaid(fs, big, buf, x)
    BY <1>5, <1>10 DEF Overlaid
  <2> HIDE DEF r
  <2> QED BY <1>3, <2>1, <2>2 DEF big
<1> QED BY <1>9, <1>10

(* The file before truncate or write extends it has the bytes it had.      *)
LEMMA ConvertedReads ==
  ASSUME NEW first, NEW end, NEW others, NEW fs, Whole(first, end, others, fs), fs.rc = "OK"
  PROVE  LET c == ConvertInlineToExtents(fs)
         IN  /\ c.rc # "LOOP"
             /\ c.rc = "OK" => \A p \in Nat : p < fs.n.size => Reads(c, p) = Reads(fs, p)
<1> DEFINE c == ConvertInlineToExtents(fs)
<1>1. CASE fs.n.inline
  <2>1. Flat(first, end, others, fs)
    BY <1>1, WholeFields
  <2>2. Converted(first, end, others, fs, c)
    BY <2>1, Convert
  <2> HIDE DEF c
  <2>3. /\ c.rc # "LOOP"
        /\ c.rc = "OK" => \A p \in Nat : p < fs.n.size => Reads(c, p) = Reads(fs, p)
    BY <2>2 DEF Converted
  <2> QED BY <2>3 DEF c
<1>2. CASE ~fs.n.inline
  <2>1. c = fs
    BY <1>2 DEF ConvertInlineToExtents
  <2> QED BY <2>1
<1> QED BY <1>1, <1>2

(* The bytes a call leaves, and the size when it succeeds.                 *)
Rewritten(fs, size, buf, r) ==
  /\ Overlaid(fs, size, buf, r)
  /\ r.rc = "OK" => r.n.size = size

LEMMA CallRewrites ==
  ASSUME NEW first, NEW end, NEW others, NEW fs, Whole(first, end, others, fs), fs.rc = "OK",
         NEW size, NEW buf, NEW t, NEW r, Ended(t, size, r),
         ConvertInlineToExtents(fs).rc # "OK" => t = ConvertInlineToExtents(fs),
         ConvertInlineToExtents(fs).rc = "OK" => Overlaid(ConvertInlineToExtents(fs), size, buf, t)
  PROVE  Rewritten(fs, size, buf, r)
<1> DEFINE c == ConvertInlineToExtents(fs)
<1>1. /\ c.rc # "LOOP"
      /\ c.rc = "OK" => \A p \in Nat : p < fs.n.size => Reads(c, p) = Reads(fs, p)
  BY ConvertedReads
<1>2. c.rc = "OK" => c.n.size = fs.n.size
  BY ConvertedFile
<1>3. /\ c.rc # "OK" => t = c
      /\ c.rc = "OK" => Overlaid(c, size, buf, t)
  OBVIOUS
<1> HIDE DEF c
<1>4. CASE r.rc = "OK"
  <2>1. /\ t.rc = "OK" /\ c.rc = "OK" /\ r.n.size = size
        /\ \A p : Reads(r, p) = Reads(t, p)
    BY <1>3, <1>4 DEF Ended
  <2>2. ASSUME NEW p \in Nat, p < size
        PROVE  Reads(r, p) = IF p \in DOMAIN buf THEN buf[p]
                             ELSE IF p < fs.n.size THEN Reads(fs, p) ELSE 0
    <3>1. Reads(t, p) = IF p \in DOMAIN buf THEN buf[p]
                        ELSE IF p < c.n.size THEN Reads(c, p) ELSE 0
      BY <1>3, <2>1, <2>2 DEF Overlaid
    <3> QED BY <1>1, <1>2, <2>1, <3>1
  <2> QED BY <1>4, <2>1, <2>2 DEF Rewritten, Overlaid
<1>5. CASE r.rc = "LOOP"
  <2>1. t.rc = "LOOP" /\ r = t
    BY <1>5 DEF Ended
  <2>2. c.rc = "OK"
    BY <1>1, <1>3, <2>1
  <2>3. \A p \in Nat : p < fs.n.size => Reads(t, p) = Reads(fs, p)
    BY <1>1, <1>2, <1>3, <2>1, <2>2 DEF Overlaid
  <2> QED BY <1>5, <2>1, <2>3 DEF Rewritten, Overlaid
<1>6. CASE r.rc \notin {"OK", "LOOP"}
  BY <1>6 DEF Rewritten, Overlaid
<1> QED BY <1>4, <1>5, <1>6

LEMMA TwoNumbers ==
  ASSUME NEW a \in Nat, NEW b \in Nat
  PROVE  /\ Min({a, b}) = IF a <= b THEN a ELSE b
         /\ Max({a, b}) = IF a >= b THEN a ELSE b
<1> DEFINE T == {a, b}
           m == IF a >= b THEN a ELSE b
           least == Min(T)
           greatest == Max(T)
<1>1. T \in SUBSET Nat /\ T # {} /\ m \in Int /\ \A t \in T : t \in Int /\ t <= m
  OBVIOUS
<1>2. \A t \in T : t = a \/ t = b
  OBVIOUS
<1>3. a \in T /\ b \in T
  OBVIOUS
<1> HIDE DEF T
<1>4. least \in T /\ \A t \in T : least <= t
  BY <1>1, LeastNumber
<1>5. greatest \in T /\ \A t \in T : t <= greatest
  <2> HIDE DEF m
  <2> QED BY <1>1, GreatestNumber
<1> HIDE DEF least, greatest
<1>6. least = IF a <= b THEN a ELSE b
  BY <1>2, <1>3, <1>4
<1>7. greatest = IF a >= b THEN a ELSE b
  BY <1>2, <1>3, <1>5
<1> QED BY <1>6, <1>7 DEF least, greatest, T

(* The bytes of a file that is inline and stays so.                        *)
LEMMA TruncatedInlineBytes ==
  ASSUME NEW n \in InlineInodes, NEW size \in 0 .. InlineSize, NEW p \in Nat, p < size
  PROVE  /\ TruncatedInline(n, size).size = size
         /\ TruncatedInline(n, size).store[p] = IF p < n.size THEN n.store[p] ELSE 0
<1> DEFINE low == Min({size, n.size})
           high == Max({size, n.size})
           st == [q \in DOMAIN n.store |-> IF q \in low .. high - 1 THEN 0 ELSE n.store[q]]
           m == TruncatedInline(n, size)
<1>1. n.store \in [0 .. InlineSize - 1 -> Byte] /\ n.size \in Nat /\ size \in Nat /\ InlineSize \in Nat
  <2>1. n.store \in [0 .. InlineSize - 1 -> Byte] /\ n.size \in 0 .. InlineSize
    BY DEF InlineInodes
  <2> QED BY <2>1, Sizes1
<1>2. /\ low = IF size <= n.size THEN size ELSE n.size
      /\ high = IF size >= n.size THEN size ELSE n.size
  BY <1>1, TwoNumbers
<1>3. m = [n EXCEPT !.size = size, !.store = st]
  BY DEF TruncatedInline
<1> HIDE DEF low, high, m
<1>4. p \in DOMAIN n.store
  BY <1>1
<1>5. st[p] = IF p \in low .. high - 1 THEN 0 ELSE n.store[p]
  BY <1>4
<1>6. p \in low .. high - 1 <=> ~(p < n.size)
  BY <1>1, <1>2
<1> HIDE DEF st
<1>7. m.size = size /\ m.store = st
  BY <1>3 DEF InlineInodes
<1> QED BY <1>5, <1>6, <1>7 DEF m

OverlaidBytes(n, to, size, buf, m) ==
  \A p \in Nat : p < size /\ (p < to \/ p < n.size) =>
    m.store[p] = IF p \in DOMAIN buf THEN buf[p] ELSE IF p < n.size THEN n.store[p] ELSE 0

LEMMA WrittenInlineBytes ==
  ASSUME NEW n \in InlineInodes, NEW at \in Nat, NEW to \in Nat, NEW buf \in [at .. to - 1 -> Byte],
         NEW size \in 0 .. InlineSize
  PROVE  OverlaidBytes(n, to, size, buf, WrittenInline(n, at, buf, size))
<1> SUFFICES ASSUME NEW p \in Nat, p < size, p < to \/ p < n.size
             PROVE  WrittenInline(n, at, buf, size).store[p] =
                      IF p \in DOMAIN buf THEN buf[p] ELSE IF p < n.size THEN n.store[p] ELSE 0
  BY DEF OverlaidBytes
<1> DEFINE v(q) == CASE q \in DOMAIN buf -> buf[q]
                     [] q \in n.size .. at - 1 -> 0
                     [] OTHER -> n.store[q]
           st == [q \in DOMAIN n.store |-> v(q)]
           m == WrittenInline(n, at, buf, size)
<1>1. n.store \in [0 .. InlineSize - 1 -> Byte] /\ n.size \in Nat /\ size \in Nat /\ InlineSize \in Nat
  <2>1. n.store \in [0 .. InlineSize - 1 -> Byte] /\ n.size \in 0 .. InlineSize
    BY DEF InlineInodes
  <2> QED BY <2>1, Sizes1
<1>2. DOMAIN buf = at .. to - 1
  OBVIOUS
<1>3. m = [n EXCEPT !.size = size, !.store = st]
  BY DEF WrittenInline
<1> HIDE DEF m
<1>4. p \in DOMAIN n.store
  BY <1>1
<1>5. v(p) = IF p \in DOMAIN buf THEN buf[p] ELSE IF p < n.size THEN n.store[p] ELSE 0
  <2>1. CASE p \in DOMAIN buf
    <3>1. ~(p \in n.size .. at - 1)
      BY <1>1, <1>2, <2>1
    <3> QED BY <2>1, <3>1, Zenon
  <2>2. CASE p \notin DOMAIN buf /\ p < n.size
    <3>1. ~(p \in n.size .. at - 1)
      BY <1>1, <2>2
    <3> QED BY <2>2, <3>1, Zenon
  <2>3. CASE p \notin DOMAIN buf /\ ~(p < n.size)
    <3>1. p \in n.size .. at - 1
      BY <1>1, <1>2, <2>3
    <3> QED BY <2>3, <3>1, Zenon
  <2> QED BY <2>1, <2>2, <2>3
<1> HIDE DEF v
<1>6. st[p] = v(p)
  BY <1>4
<1> HIDE DEF st
<1>7. m.size = size /\ m.store = st
  BY <1>3 DEF InlineInodes
<1> QED BY <1>5, <1>6, <1>7 DEF m

(* exfs_truncate.                                                          *)
LEMMA TruncateRewrites ==
  ASSUME NEW first, NEW end, NEW others, NEW fs, Whole(first, end, others, fs), fs.rc = "OK",
         NEW size \in Nat
  PROVE  Rewritten(fs, size, Nothing, Truncated(fs, size))
<1>0. /\ fs.n.inline \in BOOLEAN /\ fs.n.size \in Nat
      /\ fs.n.inline => Flat(first, end, others, fs)
  BY WholeFields
<1>1. CASE fs.n.inline /\ size <= InlineSize
  <2> DEFINE m == TruncatedInline(fs.n, size)
             r == Checksummed([fs EXCEPT !.n = m])
  <2>1. Flat(first, end, others, fs)
    BY <1>0, <1>1
  <2>2. fs.n \in InlineInodes /\ fs.n.inline = TRUE
    BY <2>1, FlatFields DEF FlatFacts
  <2>3. size \in 0 .. InlineSize
    BY <1>1, Sizes1
  <2>4. m \in InlineInodes
    BY <2>2, <2>3, TruncatedInlineType
  <2>5. Truncated(fs, size) = r
    BY <1>1 DEF Truncated
  <2>6. \A p \in Nat : p < size => m.store[p] = IF p < fs.n.size THEN fs.n.store[p] ELSE 0
    BY <2>2, <2>3, TruncatedInlineBytes
  <2>7. m.size = size /\ m.inline = TRUE
    <3>1. m.size = size
      BY <2>2 DEF TruncatedInline, InlineInodes
    <3> HIDE DEF m
    <3> QED BY <2>4, <3>1 DEF InlineInodes
  <2> HIDE DEF m
  <2>8. r.rc = "OK" /\ r.n.size = m.size /\ r.n.store = m.store /\ r.n.inline = m.inline
    BY <2>1, <2>4, FinishedInline
  <2> HIDE DEF r
  <2>9. \A p : Reads(r, p) = m.store[p] /\ Reads(fs, p) = fs.n.store[p]
    BY <2>2, <2>7, <2>8 DEF Reads, ByteAt
  <2>10. DOMAIN Nothing = {}
    BY DEF Nothing
  <2>11. Rewritten(fs, size, Nothing, r)
    BY <2>6, <2>7, <2>8, <2>9, <2>10 DEF Rewritten, Overlaid
  <2> QED BY <2>5, <2>11
<1>2. CASE ~(fs.n.inline /\ size <= InlineSize)
  <2> DEFINE c == ConvertInlineToExtents(fs)
             t == TruncatedBlocks(c, size)
             needed == BlocksFor(size)
             r == Checksummed(Resized(Undone(fs, t), size))
  <2>1. Truncated(fs, size) = r
    BY <1>2, Zenon DEF Truncated
  <2>2. c.rc # "OK" => t = c
    <3> HIDE DEF c
    <3> SUFFICES ASSUME c.rc # "OK" PROVE t = c
      OBVIOUS
    <3>1. /\ EnsureBlocksForSize(c, size) = c /\ ShrinkToSize(c, size) = c
          /\ ZeroExtentRange(c, c.n.size, size) = c
      BY DEF EnsureBlocksForSize, ShrinkToSize, ZeroExtentRange, Put
    <3>2. t = CASE size > c.n.size -> c [] size < c.n.size -> c [] OTHER -> c
      BY <3>1 DEF TruncatedBlocks
    <3> QED BY <3>2
  <2>3. c.rc = "OK" => /\ Reshaped(first, end, others, c, needed, BlocksFor(size), t)
                       /\ Overlaid(c, size, Nothing, t)
    <3> SUFFICES ASSUME c.rc = "OK"
                 PROVE  /\ Reshaped(first, end, others, c, needed, BlocksFor(size), t)
                        /\ Overlaid(c, size, Nothing, t)
      OBVIOUS
    <3>1. Sound(first, end, others, c) /\ c.n.blocks = BlocksFor(c.n.size)
      BY ConvertedFile
    <3> HIDE DEF c
    <3> QED BY <3>1, TruncatesBlocks, TruncatesReads
  <2>4. fs.n.inline => BlocksFor(fs.n.size) <= needed
    <3> SUFFICES ASSUME fs.n.inline PROVE BlocksFor(fs.n.size) <= needed
      OBVIOUS
    <3>1. FlatFacts(first, end, others, fs)
      BY <1>0, FlatFields
    <3>2. fs.n.size <= InlineSize /\ ~(size <= InlineSize)
      BY <1>2, <3>1 DEF FlatFacts
    <3>3. fs.n.size <= size
      BY <1>0, <3>2, Sizes1
    <3> QED BY <1>0, <3>3, BlocksForMore
  <2>5. needed \in Nat
    BY BlocksForBytes
  <2>6. Ended(t, size, r)
    <3> HIDE DEF needed, t
    <3> QED BY <2>2, <2>3, <2>4, <2>5, CallEnds
  <2> HIDE DEF r, t, needed
  <2>7. Rewritten(fs, size, Nothing, r)
    BY <2>2, <2>3, <2>6, CallRewrites
  <2> QED BY <2>1, <2>7
<1> QED BY <1>1, <1>2

(* exfs_write.                                                             *)
LEMMA WriteRewrites ==
  ASSUME NEW first, NEW end, NEW others, NEW fs, Whole(first, end, others, fs), fs.rc = "OK",
         NEW at \in Nat, NEW bytes \in Seq(Byte)
  PROVE  Rewritten(fs, IF at + Len(bytes) >= fs.n.size THEN at + Len(bytes) ELSE fs.n.size,
                   [p \in at .. at + Len(bytes) - 1 |-> bytes[p - at + 1]],
                   Written(fs, at, bytes))
<1> DEFINE to == at + Len(bytes)
           buf == [p \in at .. to - 1 |-> bytes[p - at + 1]]
           size == Max({to, fs.n.size})
           needed == BlocksFor(to)
<1>0. /\ fs.n.inline \in BOOLEAN /\ fs.n.size \in Nat
      /\ fs.n.inline => Flat(first, end, others, fs)
  BY WholeFields
<1>1. to \in Nat /\ at <= to /\ fs.end * BlockSize \in Int
  <2>1. fs.end \in Nat
    <3>1. CASE Flat(first, end, others, fs)
      <4>1. FlatFacts(first, end, others, fs)
        BY <3>1, FlatFields
      <4> QED BY <4>1 DEF FlatFacts
    <3>2. CASE Sound(first, end, others, fs)
      <4>1. SoundFacts(first, end, fs)
        BY <3>2, SoundFields
      <4> QED BY <4>1 DEF SoundFacts
    <3> QED BY <3>1, <3>2 DEF Whole
  <2> QED BY <2>1, Sizes1
<1>2. buf \in [at .. to - 1 -> Byte]
  <2>1. \A p \in at .. to - 1 : p - at + 1 \in 1 .. Len(bytes)
    BY <1>1
  <2> QED BY <2>1
<1>3. size = IF to >= fs.n.size THEN to ELSE fs.n.size
  BY <1>0, <1>1, TwoNumbers
<1>4. size \in Nat
  BY <1>0, <1>1, <1>3
<1>5. Written(fs, at, bytes) =
        CASE to > fs.end * BlockSize -> Failed(fs, "EFBIG")
          [] to <= fs.end * BlockSize /\ fs.n.inline /\ to <= InlineSize ->
               Checksummed([fs EXCEPT !.n = WrittenInline(@, at, buf, size)])
          [] OTHER -> Checksummed(Resized(
               Undone(fs, WrittenBlocks(ConvertInlineToExtents(fs), at, buf, to)), size))
  BY Zenon DEF Written
<1> DEFINE w == Written(fs, at, bytes)
<1> HIDE DEF buf, size, w
<1> SUFFICES Rewritten(fs, size, buf, w)
  BY <1>3 DEF buf, w
<1> HIDE DEF to
<1>6. CASE to > fs.end * BlockSize
  <2>0. ~(to <= fs.end * BlockSize)
    BY <1>1, <1>6
  <2>1. w = Failed(fs, "EFBIG")
    BY <1>5, <1>6, <2>0, Zenon DEF w
  <2>2. "EFBIG" \in Codes
    BY DEF Codes
  <2>3. w.rc = "EFBIG"
    BY <2>1, <2>2, WholeFailed
  <2> QED BY <2>3 DEF Rewritten, Overlaid
<1>7. CASE ~(to > fs.end * BlockSize) /\ fs.n.inline /\ to <= InlineSize
  <2> DEFINE m == WrittenInline(fs.n, at, buf, size)
             r == Checksummed([fs EXCEPT !.n = m])
  <2>0. to <= fs.end * BlockSize
    BY <1>1, <1>7
  <2>1. w = Checksummed([fs EXCEPT !.n = WrittenInline(@, at, buf, size)])
    BY <1>5, <1>7, <2>0, Zenon DEF w
  <2>2. Flat(first, end, others, fs)
    BY <1>0, <1>7
  <2>3. fs.n \in InlineInodes /\ fs.n.size <= InlineSize /\ fs.n.inline = TRUE
    BY <2>2, FlatFields DEF FlatFacts
  <2>4. size \in 0 .. InlineSize
    BY <1>0, <1>1, <1>3, <1>7, <2>3, Sizes1
  <2>5. m \in InlineInodes
    BY <1>1, <1>2, <2>3, <2>4, WrittenInlineType
  <2>6. w = r
    BY <2>1
  <2>7. OverlaidBytes(fs.n, to, size, buf, m)
    BY <1>1, <1>2, <2>3, <2>4, WrittenInlineBytes
  <2>8. m.size = size /\ m.inline = TRUE
    <3>1. m.size = size
      BY <2>3 DEF WrittenInline, InlineInodes
    <3> HIDE DEF m
    <3> QED BY <2>5, <3>1 DEF InlineInodes
  <2> HIDE DEF m
  <2>9. r.rc = "OK" /\ r.n.size = m.size /\ r.n.store = m.store /\ r.n.inline = m.inline
    BY <2>2, <2>5, FinishedInline, SMTT(30)
  <2> HIDE DEF r
  <2>10. \A p : Reads(r, p) = m.store[p] /\ Reads(fs, p) = fs.n.store[p]
    BY <2>3, <2>8, <2>9 DEF Reads, ByteAt
  <2>11. \A p \in Nat : p < size => p < to \/ p < fs.n.size
    BY <1>0, <1>1, <1>3
  <2>12. Rewritten(fs, size, buf, r)
    BY <2>7, <2>8, <2>9, <2>10, <2>11 DEF Rewritten, Overlaid, OverlaidBytes
  <2> QED BY <2>6, <2>12
<1>8. CASE ~(to > fs.end * BlockSize) /\ ~(fs.n.inline /\ to <= InlineSize)
  <2> DEFINE c == ConvertInlineToExtents(fs)
             t == WrittenBlocks(c, at, buf, to)
             r == Checksummed(Resized(Undone(fs, t), size))
  <2>1. w = r
    BY <1>5, <1>8, Zenon DEF w
  <2>2. c.rc # "OK" => t = c
    <3> HIDE DEF c
    <3> QED BY DEF WrittenBlocks, EnsureBlocksForSize, ZeroExtentRange, Put
  <2>3. c.rc = "OK" => /\ Reshaped(first, end, others, c, needed, BlocksFor(size), t)
                       /\ Overlaid(c, size, buf, t)
    <3> SUFFICES ASSUME c.rc = "OK"
                 PROVE  /\ Reshaped(first, end, others, c, needed, BlocksFor(size), t)
                        /\ Overlaid(c, size, buf, t)
      OBVIOUS
    <3>1. Sound(first, end, others, c) /\ c.n.size = fs.n.size /\ c.n.blocks = BlocksFor(c.n.size)
      BY ConvertedFile
    <3> HIDE DEF c
    <3> DEFINE big == IF to >= c.n.size THEN to ELSE c.n.size
    <3>2. Reshaped(first, end, others, c, BlocksFor(to), BlocksFor(big), t)
      BY <1>1, <1>2, <3>1, WritesBlocks
    <3>3. Overlaid(c, big, buf, t)
      BY <1>1, <1>2, <3>1, WritesReads
    <3>4. big = size
      BY <1>3, <3>1
    <3> QED BY <3>2, <3>3, <3>4
  <2>4. fs.n.inline => BlocksFor(fs.n.size) <= needed
    <3> SUFFICES ASSUME fs.n.inline PROVE BlocksFor(fs.n.size) <= needed
      OBVIOUS
    <3>1. FlatFacts(first, end, others, fs)
      BY <1>0, FlatFields
    <3>2. fs.n.size <= InlineSize /\ ~(to <= InlineSize)
      BY <1>8, <3>1 DEF FlatFacts
    <3>3. fs.n.size <= to
      BY <1>0, <1>1, <3>2, Sizes1
    <3> QED BY <1>0, <1>1, <3>3, BlocksForMore
  <2>5. needed \in Nat
    BY <1>1, BlocksForBytes
  <2>6. Ended(t, size, r)
    <3> HIDE DEF needed, t
    <3> QED BY <1>4, <2>2, <2>3, <2>4, <2>5, CallEnds
  <2> HIDE DEF r, t, needed
  <2>7. Rewritten(fs, size, buf, r)
    BY <2>2, <2>3, <2>6, CallRewrites
  <2> QED BY <2>1, <2>7
<1> QED BY <1>6, <1>7, <1>8

-----------------------------------------------------------------------------
(* What readers see: ExFS implements Files                                 *)

(* A file as it is read, and its bytes where the file keeps them.          *)
FileOf(d, m) == [p \in 1 .. m.size |-> ReadBytes(d, m, PageOf(p), BlockSize)[p - PageOf(p)]]
BytesOf(d, m) == [p \in 1 .. m.size |-> ByteAt(d, m, p - 1)]

LEMMA PlacedFile ==
  ASSUME NEW d, NEW m, Placed(m)
  PROVE  FileOf(d, m) = BytesOf(d, m)
<1>1. m.size \in Nat /\ m.inline \in BOOLEAN
  BY DEF Placed
<1>2. ASSUME NEW p \in 1 .. m.size
      PROVE  ReadBytes(d, m, PageOf(p), BlockSize)[p - PageOf(p)] = ByteAt(d, m, p - 1)
  <2> DEFINE q == p - 1
  <2>1. q \in Nat /\ q < m.size /\ q + 1 = p
    BY <1>1
  <2> HIDE DEF q
  <2>2. m.inline \/ q \div BlockSize < Len(BlocksOf(m))
    BY <2>1 DEF Placed
  <2>3. ReadBytes(d, m, PageOf(q + 1), BlockSize)[(q + 1) - PageOf(q + 1)] = ByteAt(d, m, q)
    BY <1>1, <2>1, <2>2, ByteRead
  <2> QED BY <2>1, <2>3 DEF q
<1> DEFINE x(p) == ReadBytes(d, m, PageOf(p), BlockSize)[p - PageOf(p)]
           y(p) == ByteAt(d, m, p - 1)
<1>3. FileOf(d, m) = [p \in 1 .. m.size |-> x(p)] /\ BytesOf(d, m) = [p \in 1 .. m.size |-> y(p)]
  BY DEF FileOf, BytesOf
<1>4. \A p \in 1 .. m.size : x(p) = y(p)
  BY <1>2
<1> HIDE DEF x, y
<1> QED BY <1>3, <1>4

(* A file that truncate or write has changed, or is at work on for ever.   *)
LEMMA ChangedPlaced ==
  ASSUME NEW first, NEW end, NEW others, NEW fs, NEW needed, NEW r,
         Changed(first, end, others, fs, needed, r)
  PROVE  Placed(r.n)
<1>1. CASE r.rc # "LOOP"
  <2>1. Whole(first, end, others, r)
    BY <1>1 DEF Changed
  <2>2. ValidInode(first, end, r.n)
    BY <2>1, WholeOwns
  <2> QED BY <2>2, ValidPlaced
<1>2. CASE r.rc = "LOOP"
  <2>1. Sound(first, end, others, r) /\ BlocksFor(r.n.size) <= r.n.blocks
    BY <1>2 DEF Changed
  <2>2. SoundFacts(first, end, r)
    BY <2>1, SoundFields
  <2> DEFINE m == r.n
  <2>3. /\ m.size \in Nat /\ m.inline = FALSE /\ m.blocks = Len(Blks(m.store))
        /\ m.blocks \in Nat /\ BlocksFor(m.size) <= m.blocks
    BY <2>1, <2>2 DEF SoundFacts
  <2> HIDE DEF m
  <2>4. BlocksOf(m) = Blks(m.store)
    BY BlocksOfStore
  <2>5. \A p \in Nat : p < m.size => p \div BlockSize < Len(BlocksOf(m))
    <3> SUFFICES ASSUME NEW p \in Nat, p < m.size PROVE p \div BlockSize < m.blocks
      BY <2>3, <2>4
    <3>1. p \div BlockSize < BlocksFor(m.size) /\ p \div BlockSize \in Nat
      BY <2>3, PositionInFile, DivBlock
    <3>2. BlocksFor(m.size) \in Nat
      BY <2>3, BlocksForBytes
    <3> QED BY <2>3, <3>1, <3>2
  <2>6. m.inline \in BOOLEAN
    BY <2>3, Zenon
  <2>7. Placed(m)
    BY <2>3, <2>5, <2>6 DEF Placed
  <2> QED BY <2>7 DEF m
<1> QED BY <1>1, <1>2

(* A file of the image is a sequence of bytes.                             *)
LEMMA FileBytesType ==
  ASSUME NEW first, NEW end, NEW m, ValidInode(first, end, m), NEW d \in [first .. end - 1 -> BlockBytes]
  PROVE  /\ FileOf(d, m) \in Seq(Byte) /\ Len(FileOf(d, m)) = m.size
         /\ \A p \in 1 .. m.size : FileOf(d, m)[p] = ByteAt(d, m, p - 1)
<1>1. Placed(m) /\ FileOf(d, m) = BytesOf(d, m)
  BY ValidPlaced, PlacedFile
<1>2. ASSUME NEW q \in Nat, q < m.size PROVE ByteAt(d, m, q) \in Byte
  <2>1. CASE m \in InlineInodes
    <3>1. m.inline = TRUE
      BY <2>1, OwnOfInline
    <3>2. m.store \in [0 .. InlineSize - 1 -> Byte] /\ m.size \in 0 .. InlineSize
      BY <2>1 DEF InlineInodes
    <3>3. q \in 0 .. InlineSize - 1
      BY <1>2, <3>2, Sizes1
    <3>4. ByteAt(d, m, q) = m.store[q]
      BY <3>1 DEF ByteAt
    <3> QED BY <3>2, <3>3, <3>4
  <2>2. CASE m \in BlockInodes
    <3>1. m.inline = FALSE
      BY <2>2, OwnOfBlocks
    <3>2. MapBlock(m, q \div BlockSize) \in Own(m)
      BY <1>2, <2>2, BlockOfByte
    <3>3. MapBlock(m, q \div BlockSize) \in first .. end - 1
      BY <3>2, OwnInRegion
    <3>4. q % BlockSize \in 0 .. BlockSize - 1
      BY DivBlock
    <3>5. ByteAt(d, m, q) = d[MapBlock(m, q \div BlockSize)][q % BlockSize]
      BY <3>1 DEF ByteAt
    <3> DEFINE b == MapBlock(m, q \div BlockSize)
               o == q % BlockSize
    <3>6. b \in first .. end - 1 /\ o \in 0 .. BlockSize - 1 /\ ByteAt(d, m, q) = d[b][o]
      BY <3>3, <3>4, <3>5
    <3> HIDE DEF b, o
    <3>7. d[b] \in BlockBytes
      BY <3>6
    <3>8. d[b][o] \in Byte
      BY <3>6, <3>7 DEF BlockBytes
    <3> QED BY <3>6, <3>8
  <2> QED BY <2>1, <2>2, OwnInRegion
<1>3. m.size \in Nat
  BY <1>1 DEF Placed
<1>4. \A p \in 1 .. m.size : ByteAt(d, m, p - 1) \in Byte
  <2> SUFFICES ASSUME NEW p \in 1 .. m.size PROVE ByteAt(d, m, p - 1) \in Byte
    OBVIOUS
  <2>1. p - 1 \in Nat /\ p - 1 < m.size
    BY <1>3
  <2> QED BY <1>2, <2>1
<1> DEFINE y(p) == ByteAt(d, m, p - 1)
           s == [p \in 1 .. m.size |-> y(p)]
<1>5. FileOf(d, m) = s /\ \A p \in 1 .. m.size : y(p) \in Byte
  BY <1>1, <1>4 DEF BytesOf
<1> HIDE DEF y
<1>6. s \in Seq(Byte) /\ Len(s) = m.size /\ \A p \in 1 .. m.size : s[p] = y(p)
  BY <1>3, <1>5
<1> HIDE DEF s
<1> QED BY <1>5, <1>6 DEF y

(* A file whose blocks keep their bytes is read as it was.                 *)
LEMMA SameFile ==
  ASSUME NEW first, NEW end, NEW m, ValidInode(first, end, m), NEW d, NEW now,
         \A b \in Own(m) : now[b] = d[b]
  PROVE  FileOf(now, m) = FileOf(d, m)
<1>1. Placed(m) /\ FileOf(d, m) = BytesOf(d, m) /\ FileOf(now, m) = BytesOf(now, m)
  BY ValidPlaced, PlacedFile
<1>2. ASSUME NEW q \in Nat, q < m.size PROVE ByteAt(now, m, q) = ByteAt(d, m, q)
  <2>1. CASE m \in InlineInodes
    BY <2>1, OwnOfInline DEF ByteAt
  <2>2. CASE m \in BlockInodes
    <3>1. MapBlock(m, q \div BlockSize) \in Own(m)
      BY <1>2, <2>2, BlockOfByte
    <3> QED BY <2>2, <3>1, OwnOfBlocks DEF ByteAt
  <2> QED BY <2>1, <2>2, OwnInRegion
<1>3. \A p \in 1 .. m.size : ByteAt(now, m, p - 1) = ByteAt(d, m, p - 1)
  <2> SUFFICES ASSUME NEW p \in 1 .. m.size PROVE ByteAt(now, m, p - 1) = ByteAt(d, m, p - 1)
    OBVIOUS
  <2>1. p - 1 \in Nat /\ p - 1 < m.size
    BY <1>1 DEF Placed
  <2> QED BY <1>2, <2>1
<1> DEFINE x(p) == ByteAt(now, m, p - 1)
           y(p) == ByteAt(d, m, p - 1)
<1>4. /\ BytesOf(now, m) = [p \in 1 .. m.size |-> x(p)] /\ BytesOf(d, m) = [p \in 1 .. m.size |-> y(p)]
      /\ \A p \in 1 .. m.size : x(p) = y(p)
  BY <1>3 DEF BytesOf
<1> HIDE DEF x, y
<1>5. BytesOf(now, m) = BytesOf(d, m)
  BY <1>4
<1> QED BY <1>1, <1>5

(* What is read of a file that truncate or write has changed: buf over the *)
(* bytes there were, and zeros beyond them.                                *)
Overlay(f, size, buf) ==
  [p \in 1 .. size |-> IF p - 1 \in DOMAIN buf THEN buf[p - 1] ELSE IF p <= Len(f) THEN f[p] ELSE 0]

LEMMA ChangedFile ==
  ASSUME NEW first, NEW end, NEW others, NEW fs, Whole(first, end, others, fs),
         fs.disk \in [first .. end - 1 -> BlockBytes],
         NEW size \in Nat, NEW buf, NEW needed, NEW r, Changed(first, end, others, fs, needed, r),
         Rewritten(fs, size, buf, r)
  PROVE  /\ r.rc = "OK" => FileOf(r.disk, r.n) = Overlay(FileOf(fs.disk, fs.n), size, buf)
         /\ r.rc = "LOOP" => FileOf(r.disk, r.n) = FileOf(fs.disk, fs.n)
<1> DEFINE old == FileOf(fs.disk, fs.n)
<1>1. ValidInode(first, end, fs.n)
  BY WholeOwns
<1>2. /\ old \in Seq(Byte) /\ Len(old) = fs.n.size
      /\ \A p \in 1 .. fs.n.size : old[p] = Reads(fs, p - 1)
  BY <1>1, FileBytesType DEF Reads
<1>3. FileOf(r.disk, r.n) = BytesOf(r.disk, r.n)
  BY ChangedPlaced, PlacedFile
<1>4. old = BytesOf(fs.disk, fs.n) /\ fs.n.size \in Nat
  BY <1>1, ValidPlaced, PlacedFile DEF Placed
<1>5. BytesOf(r.disk, r.n) = [p \in 1 .. r.n.size |-> Reads(r, p - 1)]
      /\ BytesOf(fs.disk, fs.n) = [p \in 1 .. fs.n.size |-> Reads(fs, p - 1)]
  BY DEF BytesOf, Reads
<1> HIDE DEF old
<1>6. CASE r.rc = "OK"
  <2>1. r.n.size = size
    BY <1>6 DEF Rewritten
  <2>2. ASSUME NEW p \in 1 .. size
        PROVE  Reads(r, p - 1) = IF p - 1 \in DOMAIN buf THEN buf[p - 1]
                                 ELSE IF p <= Len(old) THEN old[p] ELSE 0
    <3>1. p - 1 \in Nat /\ p - 1 < size /\ (p - 1 < fs.n.size <=> p <= Len(old))
          /\ (p <= Len(old) => p \in 1 .. fs.n.size)
      BY <1>2, <1>4
    <3>2. Reads(r, p - 1) = IF p - 1 \in DOMAIN buf THEN buf[p - 1]
                            ELSE IF p - 1 < fs.n.size THEN Reads(fs, p - 1) ELSE 0
      BY <1>6, <3>1 DEF Rewritten, Overlaid
    <3> QED BY <1>2, <3>1, <3>2
  <2> DEFINE x(p) == Reads(r, p - 1)
             y(p) == IF p - 1 \in DOMAIN buf THEN buf[p - 1] ELSE IF p <= Len(old) THEN old[p] ELSE 0
  <2>3. /\ BytesOf(r.disk, r.n) = [p \in 1 .. size |-> x(p)]
        /\ Overlay(old, size, buf) = [p \in 1 .. size |-> y(p)]
        /\ \A p \in 1 .. size : x(p) = y(p)
    BY <1>5, <2>1, <2>2 DEF Overlay
  <2> HIDE DEF x, y
  <2>4. BytesOf(r.disk, r.n) = Overlay(old, size, buf)
    BY <2>3
  <2> QED BY <1>3, <1>6, <2>4 DEF old
<1>7. CASE r.rc = "LOOP"
  <2>1. r.n.size = fs.n.size
    BY <1>7 DEF Changed
  <2>2. ASSUME NEW p \in 1 .. fs.n.size PROVE Reads(r, p - 1) = Reads(fs, p - 1)
    <3>1. p - 1 \in Nat /\ p - 1 < fs.n.size
      BY <1>4
    <3> QED BY <1>7, <3>1 DEF Rewritten, Overlaid
  <2> DEFINE x(p) == Reads(r, p - 1)
             y(p) == Reads(fs, p - 1)
  <2>3. /\ BytesOf(r.disk, r.n) = [p \in 1 .. fs.n.size |-> x(p)]
        /\ BytesOf(fs.disk, fs.n) = [p \in 1 .. fs.n.size |-> y(p)]
        /\ \A p \in 1 .. fs.n.size : x(p) = y(p)
    BY <1>5, <2>1, <2>2
  <2> HIDE DEF x, y
  <2>4. BytesOf(r.disk, r.n) = BytesOf(fs.disk, fs.n)
    BY <2>3
  <2> QED BY <1>3, <1>4, <1>7, <2>4 DEF old
<1> QED BY <1>6, <1>7

(* What readers see of a name.                                             *)
Seen(n) == IF Found(n) THEN Contents(n) ELSE Absent

LEMMA FileFound ==
  ASSUME ImageInv, NEW n \in Names, Found(n)
  PROVE  /\ PathLookup(n) \in imap /\ PathLookup(n) # RootIno /\ PathLookup(n) \in DOMAIN itable
         /\ Contents(n) = FileOf(disk, itable[PathLookup(n)])
<1> DEFINE ino == PathLookup(n)
<1>1. ino \in imap /\ ino # RootIno /\ ino \in DOMAIN itable
  <2>1. DirInv
    BY DEF ImageInv
  <2>2. ino \in imap /\ ino # RootIno
    BY <2>1, OneEntry, FilesAreNotRoot
  <2> HIDE DEF ino
  <2> QED BY <2>1, <2>2 DEF DirInv, Shape
<1>2. Contents(n) = FileBytes[ino]
  BY DEF Contents
<1> HIDE DEF ino
<1>3. FileBytes[ino] = FileOf(disk, itable[ino])
  BY <1>1 DEF FileBytes, FileOf
<1> QED BY <1>1, <1>2, <1>3 DEF ino

(* The same after a step.                                                  *)
LEMMA FileAfter ==
  ASSUME NEW n, PathLookup(n)' \in DOMAIN itable'
  PROVE  Contents(n)' = FileOf(disk', itable'[PathLookup(n)'])
<1> DEFINE ino == PathLookup(n)'
<1>1. Contents(n)' = FileBytes'[ino] /\ ino \in DOMAIN itable'
  BY DEF Contents
<1> HIDE DEF ino
<1>2. FileBytes'[ino] = FileOf(disk', itable'[ino])
  BY <1>1 DEF FileBytes, FileOf
<1> QED BY <1>1, <1>2 DEF ino

LEMMA SeenType ==
  ASSUME ImageInv, daemon = "serving", NEW n \in Names, Found(n)
  PROVE  Seen(n) \in Seq(Byte) /\ Seen(n) # Absent
<1>1. PathLookup(n) \in DOMAIN itable /\ Seen(n) = FileOf(disk, itable[PathLookup(n)])
  BY FileFound DEF Seen
<1>2. ValidInode(sb.data_region, sb.num_blocks, itable[PathLookup(n)])
  BY <1>1 DEF ImageInv, SpaceInv, Accounted
<1>3. disk \in [sb.data_region .. sb.num_blocks - 1 -> BlockBytes]
  BY DEF ImageInv, ImageType
<1>4. Seen(n) \in Seq(Byte)
  BY <1>1, <1>2, <1>3, FileBytesType
<1> QED BY <1>4, ExFSAssumption

(* Two names are of two files.                                             *)
LEMMA OtherNames ==
  ASSUME DirInv, NEW m \in Names, NEW n \in Names, m # n, Found(m), Found(n)
  PROVE  PathLookup(m) # PathLookup(n)
<1>1. PICK i \in InUse : PathLookup(m) = dir[i].ino /\ dir[i].name = m
  BY OneEntry
<1>2. PICK j \in InUse : PathLookup(n) = dir[j].ino /\ dir[j].name = n
  BY OneEntry
<1>3. /\ i \in DOMAIN ReadDir /\ j \in DOMAIN ReadDir /\ ReadDir[i] = m /\ ReadDir[j] = n
  BY <1>1, <1>2 DEF ReadDir, InUse
<1>4. i # j
  BY <1>3
<1> SUFFICES ASSUME dir[i].ino = dir[j].ino PROVE FALSE
  BY <1>1, <1>2
<1>5. {ReadDir[i], ReadDir[j]} = {".", ".."}
  BY <1>3, <1>4 DEF DirInv, DirectoryMatchesInodes
<1> QED BY <1>3, <1>5, Constants

(* The blocks of a file, and that they are no other inode's.               *)
LEMMA OwnOfFile ==
  ASSUME ImageInv, daemon = "serving", NEW i \in DOMAIN itable
  PROVE  /\ ValidInode(sb.data_region, sb.num_blocks, itable[i])
         /\ Own(itable[i]) \subseteq dmap \cap DOMAIN disk
         /\ \A j \in DOMAIN itable \ {i} : Own(itable[i]) \subseteq dmap \ Own(itable[j])
<1>1. Accounted(sb.data_region, sb.num_blocks, sb.free_blocks, dmap, itable)
  BY DEF ImageInv, SpaceInv
<1>2. ValidInode(sb.data_region, sb.num_blocks, itable[i])
  BY <1>1 DEF Accounted
<1>3. DOMAIN disk = sb.data_region .. sb.num_blocks - 1
  BY DEF ImageInv, ImageType
<1>4. Own(itable[i]) \subseteq DOMAIN disk
  BY <1>2, <1>3, OwnInRegion
<1>5. Own(itable[i]) \subseteq dmap
  BY <1>1 DEF Accounted
<1>6. \A j \in DOMAIN itable \ {i} : Own(itable[i]) \cap Own(itable[j]) = {}
  BY <1>1 DEF Accounted
<1> QED BY <1>2, <1>4, <1>5, <1>6

(* A name whose entry, inode and blocks a step leaves alone.               *)
LEMMA SeenKept ==
  ASSUME ImageInv, daemon = "serving", NEW m \in Names, Found(m)' <=> Found(m),
         Found(m) => /\ PathLookup(m)' = PathLookup(m) /\ PathLookup(m) \in DOMAIN itable'
                     /\ itable'[PathLookup(m)] = itable[PathLookup(m)]
                     /\ \A b \in Own(itable[PathLookup(m)]) : disk'[b] = disk[b]
  PROVE  Seen(m)' = Seen(m)
<1>1. CASE ~Found(m)
  BY <1>1 DEF Seen
<1>2. CASE Found(m)
  <2>1. PathLookup(m) \in DOMAIN itable /\ Seen(m) = FileOf(disk, itable[PathLookup(m)])
    BY <1>2, FileFound DEF Seen
  <2>2. ValidInode(sb.data_region, sb.num_blocks, itable[PathLookup(m)])
    BY <2>1, OwnOfFile
  <2>3. FileOf(disk', itable[PathLookup(m)]) = FileOf(disk, itable[PathLookup(m)])
    BY <1>2, <2>2, SameFile
  <2>4. Contents(m)' = FileOf(disk', itable'[PathLookup(m)'])
    BY <1>2, FileAfter
  <2>5. Seen(m)' = Contents(m)'
    BY <1>2 DEF Seen
  <2> QED BY <1>2, <2>1, <2>3, <2>4, <2>5
<1> QED BY <1>1, <1>2

(* A call that fails changes nothing readers see.                          *)
LEMMA FailureSeen ==
  ASSUME ImageInv, daemon = "serving", FailureOfStep, call'.rc \notin {"OK", "LOOP"}
  PROVE  \A m \in Names : Seen(m)' = Seen(m)
<1> SUFFICES ASSUME NEW m \in Names PROVE Seen(m)' = Seen(m)
  OBVIOUS
<1>1. /\ itable' = itable /\ dir' = dir
      /\ \A b \in dmap \cap DOMAIN disk : disk'[b] = disk[b]
  BY DEF FailureOfStep
<1>2. (Found(m)' <=> Found(m)) /\ PathLookup(m)' = PathLookup(m)
  BY <1>1, SameDirectory
<1>3. Found(m) => PathLookup(m) \in DOMAIN itable
  BY FileFound
<1>4. Found(m) => \A b \in Own(itable[PathLookup(m)]) : disk'[b] = disk[b]
  BY <1>1, <1>3, OwnOfFile
<1> QED BY <1>1, <1>2, <1>3, <1>4, SeenKept

(* A truncate or a write changes what is read of its file, and of no other.*)
LEMMA ChangesSeen ==
  ASSUME ImageInv, daemon = "serving", NEW n \in Names, Found(n), NEW op, NEW at, NEW bytes,
         NEW needed, NEW fs, Changes(op, n, at, bytes, fs),
         Changed(sb.data_region, sb.num_blocks, dmap \ Own(itable[PathLookup(n)]),
                 Open(PathLookup(n)), needed, fs),
         NEW size \in Nat, NEW buf, Rewritten(Open(PathLookup(n)), size, buf, fs)
  PROVE  /\ call' = [op |-> op, name |-> n, at |-> at, bytes |-> bytes, rc |-> fs.rc]
         /\ fs.rc \in {"OK", "EFBIG", "ENOSPC", "LOOP"}
         /\ \A m \in Names \ {n} : Seen(m)' = Seen(m)
         /\ Seen(n)' = IF fs.rc = "OK" THEN Overlay(Seen(n), size, buf) ELSE Seen(n)
<1> DEFINE ino == PathLookup(n)
           first == sb.data_region
           end == sb.num_blocks
           others == dmap \ Own(itable[ino])
           opened == Open(ino)
<1>1. ino \in DOMAIN itable /\ Contents(n) = FileOf(disk, itable[ino]) /\ DirInv
  BY FileFound DEF ImageInv
<1>2. /\ call' = [op |-> op, name |-> n, at |-> at, bytes |-> bytes, rc |-> fs.rc]
      /\ itable' = [itable EXCEPT ![ino] = fs.n] /\ disk' = fs.disk /\ dir' = dir
  BY DEF Changes, Saved, Returns
<1>3. Changed(first, end, others, opened, needed, fs) /\ Rewritten(opened, size, buf, fs)
  OBVIOUS
<1>4. /\ opened.dmap = dmap /\ opened.disk = disk /\ opened.n = itable[ino]
      /\ DOMAIN disk = first .. end - 1
  BY <1>1, OpenFields DEF ImageInv
<1>5. Whole(first, end, others, opened)
  BY <1>1, OpenWhole DEF ImageInv
<1>6. opened.disk \in [first .. end - 1 -> BlockBytes]
  BY <1>4 DEF ImageInv, ImageType
<1>7. FailureOfStep
  BY ChangesImage
<1>8. \A m \in Names \ {n} : Found(m) =>
        /\ PathLookup(m) \in DOMAIN itable \ {ino} /\ Own(itable[PathLookup(m)]) \subseteq others
        /\ Own(itable[PathLookup(m)]) \subseteq DOMAIN disk
  <2> SUFFICES ASSUME NEW m \in Names \ {n}, Found(m)
               PROVE  /\ PathLookup(m) \in DOMAIN itable \ {ino}
                      /\ Own(itable[PathLookup(m)]) \subseteq others
                      /\ Own(itable[PathLookup(m)]) \subseteq DOMAIN disk
    OBVIOUS
  <2> DEFINE j == PathLookup(m)
  <2>1. j \in DOMAIN itable
    BY FileFound
  <2>2. j # ino
    BY <1>1, OtherNames
  <2> HIDE DEF j, ino
  <2>3. Own(itable[j]) \subseteq others /\ Own(itable[j]) \subseteq DOMAIN disk
    BY <1>1, <2>1, <2>2, OwnOfFile DEF others
  <2> QED BY <2>1, <2>2, <2>3 DEF j
<1> HIDE DEF ino, opened, others, first, end
<1>9. /\ fs.rc \in {"OK", "EFBIG", "ENOSPC", "LOOP"}
      /\ fs.rc \in {"OK", "LOOP"} => \A b \in others \cap DOMAIN disk : disk'[b] = disk[b]
  BY <1>2, <1>3, <1>4 DEF Changed
<1>10. CASE fs.rc \in {"EFBIG", "ENOSPC"}
  <2>1. call'.rc \notin {"OK", "LOOP"}
    BY <1>2, <1>10
  <2>2. \A m \in Names : Seen(m)' = Seen(m)
    BY <1>7, <2>1, FailureSeen
  <2> QED BY <1>2, <1>9, <1>10, <2>2
<1>11. CASE fs.rc \in {"OK", "LOOP"}
  <2>1. ASSUME NEW m \in Names \ {n} PROVE Seen(m)' = Seen(m)
    <3>1. (Found(m)' <=> Found(m)) /\ PathLookup(m)' = PathLookup(m)
      BY <1>2, SameDirectory
    <3>2. Found(m) => /\ PathLookup(m) \in DOMAIN itable'
                      /\ itable'[PathLookup(m)] = itable[PathLookup(m)]
                      /\ \A b \in Own(itable[PathLookup(m)]) : disk'[b] = disk[b]
      BY <1>2, <1>8, <1>9, <1>11
    <3> QED BY <3>1, <3>2, SeenKept
  <2>2. Found(n)' /\ PathLookup(n)' = ino
    BY <1>2, SameDirectory DEF ino
  <2>3. itable'[ino] = fs.n /\ ino \in DOMAIN itable'
    BY <1>1, <1>2
  <2>4. Seen(n)' = FileOf(fs.disk, fs.n)
    <3>1. Seen(n)' = Contents(n)'
      BY <2>2 DEF Seen
    <3>2. Contents(n)' = FileOf(disk', itable'[ino])
      BY <2>2, <2>3, FileAfter
    <3> QED BY <1>2, <2>3, <3>1, <3>2
  <2>5. Seen(n) = FileOf(opened.disk, opened.n)
    BY <1>1, <1>4 DEF Seen
  <2>6. /\ fs.rc = "OK" => FileOf(fs.disk, fs.n) = Overlay(FileOf(opened.disk, opened.n), size, buf)
        /\ fs.rc = "LOOP" => FileOf(fs.disk, fs.n) = FileOf(opened.disk, opened.n)
    BY <1>3, <1>5, <1>6, ChangedFile
  <2>7. Seen(n)' = IF fs.rc = "OK" THEN Overlay(Seen(n), size, buf) ELSE Seen(n)
    BY <1>11, <2>4, <2>5, <2>6
  <2> QED BY <1>2, <1>9, <2>1, <2>7
<1> QED BY <1>9, <1>10, <1>11

(* What calls that return at once leave.                                   *)
LEMMA FailsSeen ==
  ASSUME ImageInv, NEW op, NEW n, NEW at, NEW bytes, NEW rc, Fails(op, n, at, bytes, rc)
  PROVE  /\ call' = [op |-> op, name |-> n, at |-> at, bytes |-> bytes, rc |-> rc]
         /\ \A m \in Names : Seen(m)' = Seen(m)
<1>1. call' = [op |-> op, name |-> n, at |-> at, bytes |-> bytes, rc |-> rc]
  BY DEF Fails, Returns
<1>2. itable' = itable /\ dir' = dir /\ disk' = disk
  BY DEF Fails, image
<1>3. \A m : (Found(m)' <=> Found(m)) /\ PathLookup(m)' = PathLookup(m)
  BY <1>2, SameDirectory
<1>4. \A m : Contents(m)' = Contents(m)
  BY <1>2, <1>3 DEF Contents, FileBytes
<1> QED BY <1>1, <1>3, <1>4 DEF Seen

LEMMA UnlinkSeen ==
  ASSUME ImageInv, daemon = "serving", NEW n \in Names, Unlink(n)
  PROVE  /\ call' = [op |-> "unlink", name |-> n, at |-> 0, bytes |-> <<>>, rc |-> call'.rc]
         /\ \A m \in Names \ {n} : Seen(m)' = Seen(m)
         /\ IF Found(n) THEN call'.rc = "OK" /\ Seen(n)' = Absent
            ELSE call'.rc = "ENOENT" /\ Seen(n)' = Seen(n)
<1>1. CASE ~Found(n)
  <2>1. Fails("unlink", n, 0, <<>>, "ENOENT")
    BY <1>1 DEF Unlink
  <2>2. /\ call' = [op |-> "unlink", name |-> n, at |-> 0, bytes |-> <<>>, rc |-> "ENOENT"]
        /\ \A m \in Names : Seen(m)' = Seen(m)
    BY <2>1, FailsSeen
  <2> QED BY <1>1, <2>2
<1>2. CASE Found(n)
  <2> DEFINE ino == PathLookup(n)
             inode == itable[ino]
             blks == IF inode.inline THEN <<>> ELSE BlocksOf(inode)
             opened == Open(ino)
             fs == BitmapFreeAll(opened, blks)
             rc == IF ino \in imap THEN fs.rc ELSE "ASSERT"
  <2>1. /\ itable' = [itable EXCEPT ![ino] = Zeroed]
        /\ Saved(Failed(fs, rc)) /\ Returns("unlink", n, 0, <<>>, rc)
    BY <1>2, Zenon DEF Unlink
  <2>2. ino \in imap /\ ino \in DOMAIN itable /\ DirInv /\ ImageType
    BY <1>2, FileFound DEF ImageInv
  <2>3. OthersKept(n) /\ ~Found(n)'
    BY <1>2, <2>2, UnlinkStep
  <2>4. blks \in Seq(Nat) /\ IsInjective(blks) /\ ToSet(blks) = Own(inode)
    <3>1. ValidInode(sb.data_region, sb.num_blocks, inode)
      BY <2>2, OwnOfFile
    <3> HIDE DEF inode
    <3> QED BY <3>1, ValidBlocks
  <2>5. /\ opened \in States(sb.data_region, sb.num_blocks, BlockInodes \cup InlineInodes)
        /\ opened.dmap = dmap /\ opened.disk = disk /\ opened.rc = "OK"
    BY <2>2, OpenFields
  <2>6. Own(inode) \subseteq dmap
    BY <2>2, OwnOfFile
  <2>7. \A m \in Names \ {n} : Found(m) => PathLookup(m) \in DOMAIN itable \ {ino}
    <3> SUFFICES ASSUME NEW m \in Names \ {n}, Found(m) PROVE PathLookup(m) \in DOMAIN itable \ {ino}
      OBVIOUS
    <3>1. PathLookup(m) \in DOMAIN itable
      BY FileFound
    <3>2. PathLookup(m) # ino
      BY <1>2, <2>2, OtherNames
    <3> QED BY <3>1, <3>2
  <2> HIDE DEF blks, opened, inode, ino
  <2>8. /\ disk' = disk
        /\ call' = [op |-> "unlink", name |-> n, at |-> 0, bytes |-> <<>>, rc |-> "OK"]
    <3> DEFINE rest == opened.dmap \ ToSet(blks)
    <3>1. fs = [opened EXCEPT !.dmap = rest]
      BY <2>4, <2>5, <2>6 DEF BitmapFreeAll
    <3> HIDE DEF rest
    <3>2. fs.rc = "OK" /\ fs.disk = disk /\ Failed(fs, rc).disk = disk
      BY <2>5, <3>1 DEF States, Failed
    <3>3. rc = "OK"
      BY <2>2, <3>2
    <3> HIDE DEF fs, rc
    <3> QED BY <2>1, <3>2, <3>3 DEF Saved, Returns
  <2>9. ASSUME NEW m \in Names \ {n} PROVE Seen(m)' = Seen(m)
    <3>1. (Found(m)' <=> Found(m)) /\ (Found(m) => PathLookup(m)' = PathLookup(m))
      BY <2>3 DEF OthersKept
    <3>2. Found(m) => PathLookup(m) \in DOMAIN itable' /\ itable'[PathLookup(m)] = itable[PathLookup(m)]
      BY <2>1, <2>7
    <3> QED BY <2>8, <3>1, <3>2, SeenKept
  <2>10. Seen(n)' = Absent
    BY <2>3 DEF Seen
  <2> QED BY <1>2, <2>8, <2>9, <2>10
<1> QED BY <1>1, <1>2

LEMMA UtimensSeen ==
  ASSUME ImageInv, NEW n \in Names, Utimens(n)
  PROVE  /\ call' = [op |-> call'.op, name |-> n, at |-> 0, bytes |-> <<>>, rc |-> call'.rc]
         /\ \A m \in Names : Seen(m)' = Seen(m)
         /\ \/ call'.op = "omit" /\ call'.rc = "OK"
            \/ call'.op = "utimens" /\ call'.rc = IF Found(n) THEN "OK" ELSE "ENOENT"
<1>1. /\ UNCHANGED image
      /\ \/ Returns("omit", n, 0, <<>>, "OK")
         \/ Returns("utimens", n, 0, <<>>, IF Found(n) THEN "OK" ELSE "ENOENT")
  BY DEF Utimens, Fails
<1>2. itable' = itable /\ dir' = dir /\ disk' = disk
  BY <1>1 DEF image
<1>3. \A m : (Found(m)' <=> Found(m)) /\ PathLookup(m)' = PathLookup(m)
  BY <1>2, SameDirectory
<1>4. \A m : Contents(m)' = Contents(m)
  BY <1>2, <1>3 DEF Contents, FileBytes
<1>5. \A m \in Names : Seen(m)' = Seen(m)
  BY <1>3, <1>4 DEF Seen
<1> QED BY <1>1, <1>5 DEF Returns

(* A new file has no bytes, and no other file changes, also when the       *)
(* directory gets a block.                                                 *)
LEMMA CreateSeen ==
  ASSUME ImageInv, daemon = "serving", NEW n \in Names, Create(n)
  PROVE  /\ call' = [op |-> "create", name |-> n, at |-> 0, bytes |-> <<>>, rc |-> call'.rc]
         /\ \A m \in Names \ {n} : Seen(m)' = Seen(m)
         /\ \/ Found(n) /\ call'.rc = "EEXIST" /\ Seen(n)' = Seen(n)
            \/ ~Found(n) /\ call'.rc = "ENOSPC" /\ Seen(n)' = Seen(n)
            \/ ~Found(n) /\ call'.rc = "OK" /\ Seen(n)' = <<>>
<1> DEFINE slot == Min({i \in DOMAIN entries : entries[i].ino = NoIno})
           ino == BitmapAlloc(sb.num_inodes, imap)
           others == dmap \ Own(itable[RootIno])
<1>2. CASE /\ ~Found(n) /\ ~Exhausted(sb.num_inodes, imap) /\ root.rc = "OK"
           /\ imap' = imap \cup {ino}
           /\ itable' = [itable EXCEPT ![RootIno] = root.n, ![ino] = Fresh]
           /\ Saved(root) /\ Returns("create", n, 0, <<>>, "OK")
  <2>0. DirInv /\ ImageType
    BY DEF ImageInv
  <2>1. ino \in (0 .. sb.num_inodes - 1) \ imap
    <3>1. (0 .. sb.num_inodes - 1) \ imap \in SUBSET Nat /\ (0 .. sb.num_inodes - 1) \ imap # {}
      BY <1>2, <2>0 DEF Exhausted, DirInv, Shape
    <3> QED BY <3>1, LeastNumber DEF BitmapAlloc
  <2>2. /\ call' = [op |-> "create", name |-> n, at |-> 0, bytes |-> <<>>, rc |-> "OK"]
        /\ disk' = root.disk
    BY <1>2 DEF Returns, Saved
  <2>3. OthersKept(n) /\ Found(n)' /\ PathLookup(n)' = ino
    <3>1. call'.rc = "OK"
      BY <2>2
    <3> QED BY <2>0, <3>1, CreateStep
  <2> HIDE DEF ino
  <2>4. /\ root.disk \in [sb.data_region .. sb.num_blocks - 1 -> BlockBytes]
        /\ \A b \in others \cap DOMAIN disk : root.disk[b] = disk[b]
    BY <1>2, RootForCreate
  <2>5. RootIno \in DOMAIN itable /\ ino \in DOMAIN itable
    BY <2>0, <2>1 DEF DirInv, Shape, RootIno
  <2>6. itable'[ino] = Fresh /\ DOMAIN itable' = DOMAIN itable
        /\ \A j \in DOMAIN itable \ {RootIno, ino} : itable'[j] = itable[j]
    BY <1>2, <2>5
  <2>7. ASSUME NEW m \in Names \ {n} PROVE Seen(m)' = Seen(m)
    <3>1. (Found(m)' <=> Found(m)) /\ (Found(m) => PathLookup(m)' = PathLookup(m))
      BY <2>3, <2>7 DEF OthersKept
    <3>2. ASSUME Found(m)
          PROVE  /\ PathLookup(m) \in DOMAIN itable' /\ itable'[PathLookup(m)] = itable[PathLookup(m)]
                 /\ \A b \in Own(itable[PathLookup(m)]) : disk'[b] = disk[b]
      <4> DEFINE j == PathLookup(m)
      <4>1. j \in imap /\ j # RootIno /\ j \in DOMAIN itable
        BY <3>2, FileFound
      <4> HIDE DEF j
      <4>2. j \in DOMAIN itable \ {RootIno, ino}
        BY <2>1, <4>1
      <4>3. Own(itable[j]) \subseteq others \cap DOMAIN disk
        BY <2>5, <4>1, OwnOfFile
      <4>4. \A b \in Own(itable[j]) : disk'[b] = disk[b]
        BY <2>2, <2>4, <4>3
      <4> QED BY <2>6, <4>2, <4>4 DEF j
    <3> QED BY <3>1, <3>2, SeenKept
  <2>8. Seen(n)' = <<>>
    <3>1. Seen(n)' = FileOf(disk', Fresh)
      <4>1. Contents(n)' = FileOf(disk', itable'[PathLookup(n)'])
        BY <2>3, <2>5, <2>6, FileAfter
      <4> QED BY <2>3, <2>6, <4>1 DEF Seen
    <3>2. ValidInode(sb.data_region, sb.num_blocks, Fresh) /\ Fresh.size = 0
      BY EmptyInodes DEF ValidInode
    <3>3. FileOf(disk', Fresh) \in Seq(Byte) /\ Len(FileOf(disk', Fresh)) = Fresh.size
      BY <2>2, <2>4, <3>2, FileBytesType
    <3> QED BY <3>1, <3>2, <3>3, EmptySeq
  <2> QED BY <1>2, <2>2, <2>7, <2>8
<1>3. \/ Found(n) /\ Fails("create", n, 0, <<>>, "EEXIST")
      \/ ~Found(n) /\ Fails("create", n, 0, <<>>, "ENOSPC")
      \/ ~Found(n) /\ CreateGivesUp(n)
      \/ /\ ~Found(n) /\ ~Exhausted(sb.num_inodes, imap) /\ root.rc = "OK"
         /\ imap' = imap \cup {ino}
         /\ itable' = [itable EXCEPT ![RootIno] = root.n, ![ino] = Fresh]
         /\ Saved(root) /\ Returns("create", n, 0, <<>>, "OK")
  BY Zenon DEF Create, root, entries, CreateGivesUp
<1>5. CASE Found(n) /\ Fails("create", n, 0, <<>>, "EEXIST")
  <2>1. /\ call' = [op |-> "create", name |-> n, at |-> 0, bytes |-> <<>>, rc |-> "EEXIST"]
        /\ \A m \in Names : Seen(m)' = Seen(m)
    BY <1>5, FailsSeen
  <2> QED BY <1>5, <2>1
<1>6. CASE ~Found(n) /\ Fails("create", n, 0, <<>>, "ENOSPC")
  <2>1. /\ call' = [op |-> "create", name |-> n, at |-> 0, bytes |-> <<>>, rc |-> "ENOSPC"]
        /\ \A m \in Names : Seen(m)' = Seen(m)
    BY <1>6, FailsSeen
  <2> QED BY <1>6, <2>1
<1>7. CASE ~Found(n) /\ CreateGivesUp(n)
  BY <1>6, <1>7, CreateFails
<1> QED BY <1>2, <1>3, <1>5, <1>6, <1>7, Zenon

(* What truncate and write make of the bytes read, in the words of Files.  *)
LEMMA ResizedFile ==
  ASSUME NEW f, NEW size \in Nat
  PROVE  Overlay(f, size, Nothing) = F!Resized(f, size)
<1>1. \A p \in 1 .. size : p - 1 \notin DOMAIN Nothing
  BY DEF Nothing
<1> QED BY <1>1 DEF Overlay, F!Resized

LEMMA OverwrittenFile ==
  ASSUME NEW f \in Seq(Byte), NEW at \in Nat, NEW bytes \in Seq(Byte)
  PROVE  Overlay(f, IF at + Len(bytes) >= Len(f) THEN at + Len(bytes) ELSE Len(f),
                 [p \in at .. at + Len(bytes) - 1 |-> bytes[p - at + 1]])
         = F!Overwritten(f, at, bytes)
<1> DEFINE to == at + Len(bytes)
           size == IF to > Len(f) THEN to ELSE Len(f)
           buf == [p \in at .. to - 1 |-> bytes[p - at + 1]]
           x(p) == IF p - 1 \in DOMAIN buf THEN buf[p - 1] ELSE IF p <= Len(f) THEN f[p] ELSE 0
           y(p) == CASE p \in at + 1 .. to -> bytes[p - at]
                     [] p \notin at + 1 .. to /\ p <= Len(f) -> f[p]
                     [] OTHER -> 0
<1>1. to \in Nat /\ Len(f) \in Nat
  OBVIOUS
<1>2. \A p \in 1 .. size : x(p) = y(p)
  <2> SUFFICES ASSUME NEW p \in 1 .. size PROVE x(p) = y(p)
    OBVIOUS
  <2> HIDE DEF to
  <2>0. p \in Int /\ size \in Nat
    BY <1>1
  <2> HIDE DEF size
  <2>1. CASE p \in at + 1 .. to
    <3>1. p - 1 \in at .. to - 1 /\ (p - 1) - at + 1 = p - at
      BY <1>1, <2>0, <2>1
    <3>2. buf[p - 1] = bytes[p - at] /\ p - 1 \in DOMAIN buf
      BY <3>1
    <3> HIDE DEF buf
    <3>3. x(p) = bytes[p - at]
      BY <3>2
    <3>4. y(p) = bytes[p - at]
      BY <2>1, Zenon
    <3> QED BY <3>3, <3>4
  <2>2. CASE p \notin at + 1 .. to
    <3>1. p - 1 \notin at .. to - 1
      BY <1>1, <2>0, <2>2
    <3>2. p - 1 \notin DOMAIN buf
      BY <3>1
    <3> HIDE DEF buf
    <3>3. CASE p <= Len(f)
      <4>1. y(p) = f[p]
        BY <2>2, <3>3, Zenon
      <4> QED BY <3>2, <3>3, <4>1
    <3>4. CASE ~(p <= Len(f))
      <4>1. y(p) = 0
        BY <2>2, <3>4, Zenon
      <4> QED BY <3>2, <3>4, <4>1
    <3> QED BY <3>3, <3>4
  <2> QED BY <2>1, <2>2
<1>3. F!Overwritten(f, at, bytes) = [p \in 1 .. size |-> y(p)]
  BY Zenon DEF F!Overwritten
<1>4. (IF to >= Len(f) THEN to ELSE Len(f)) = size
  <2> HIDE DEF to
  <2> QED BY <1>1
<1> HIDE DEF size
<1>5. Overlay(f, size, buf) = [p \in 1 .. size |-> x(p)]
  BY DEF Overlay
<1> HIDE DEF x, y, buf
<1>6. Overlay(f, size, buf) = F!Overwritten(f, at, bytes)
  BY <1>2, <1>3, <1>5
<1> QED BY <1>4, <1>6 DEF buf

LEMMA TruncateSeen ==
  ASSUME ImageInv, daemon = "serving", NEW n \in Names, NEW size \in Nat, Truncate(n, size)
  PROVE  /\ call' = [op |-> "truncate", name |-> n, at |-> size, bytes |-> <<>>, rc |-> call'.rc]
         /\ \A m \in Names \ {n} : Seen(m)' = Seen(m)
         /\ \/ ~Found(n) /\ call'.rc = "ENOENT" /\ Seen(n)' = Seen(n)
            \/ Found(n) /\ call'.rc \in {"ENOSPC", "EFBIG", "LOOP"} /\ Seen(n)' = Seen(n)
            \/ Found(n) /\ call'.rc = "OK" /\ Seen(n)' = F!Resized(Seen(n), size)
<1>1. CASE ~Found(n)
  <2>1. Fails("truncate", n, size, <<>>, "ENOENT")
    BY <1>1 DEF Truncate
  <2>2. /\ call' = [op |-> "truncate", name |-> n, at |-> size, bytes |-> <<>>, rc |-> "ENOENT"]
        /\ \A m \in Names : Seen(m)' = Seen(m)
    BY <2>1, FailsSeen
  <2> QED BY <1>1, <2>2
<1>2. CASE Found(n)
  <2> DEFINE ino == PathLookup(n)
             opened == Open(ino)
             fs == Truncated(opened, size)
             others == dmap \ Own(itable[ino])
             needed == BlocksFor(size)
  <2>1. Changes("truncate", n, size, <<>>, fs)
    BY <1>2 DEF Truncate
  <2>2. ino \in DOMAIN itable
    BY <1>2, FileFound
  <2>3. Whole(sb.data_region, sb.num_blocks, others, opened) /\ opened.rc = "OK"
    BY <2>2, OpenWhole, OpenFields DEF ImageInv
  <2>4. /\ Changed(sb.data_region, sb.num_blocks, others, opened, needed, fs)
        /\ Rewritten(opened, size, Nothing, fs)
    <3> HIDE DEF opened, others
    <3> QED BY <2>3, TruncateChanges, TruncateRewrites
  <2> HIDE DEF fs, needed
  <2>5. /\ call' = [op |-> "truncate", name |-> n, at |-> size, bytes |-> <<>>, rc |-> fs.rc]
        /\ fs.rc \in {"OK", "EFBIG", "ENOSPC", "LOOP"}
        /\ \A m \in Names \ {n} : Seen(m)' = Seen(m)
        /\ Seen(n)' = IF fs.rc = "OK" THEN Overlay(Seen(n), size, Nothing) ELSE Seen(n)
    BY <1>2, <2>1, <2>4, ChangesSeen
  <2>6. Overlay(Seen(n), size, Nothing) = F!Resized(Seen(n), size)
    BY ResizedFile
  <2>7. call'.rc = fs.rc
    BY <2>5
  <2> QED BY <1>2, <2>5, <2>6, <2>7
<1> QED BY <1>1, <1>2

LEMMA WriteSeen ==
  ASSUME ImageInv, daemon = "serving", NEW n \in Names, NEW at \in Nat, NEW bytes \in Seq(Byte),
         Write(n, at, bytes)
  PROVE  /\ call' = [op |-> "write", name |-> n, at |-> at, bytes |-> bytes, rc |-> call'.rc]
         /\ \A m \in Names \ {n} : Seen(m)' = Seen(m)
         /\ \/ ~Found(n) /\ call'.rc = "ENOENT" /\ Seen(n)' = Seen(n)
            \/ Found(n) /\ call'.rc \in {"ENOSPC", "EFBIG", "LOOP"} /\ Seen(n)' = Seen(n)
            \/ Found(n) /\ call'.rc = "OK" /\ Seen(n)' = F!Overwritten(Seen(n), at, bytes)
<1>1. CASE ~Found(n)
  <2>1. Fails("write", n, at, bytes, "ENOENT")
    BY <1>1 DEF Write
  <2>2. /\ call' = [op |-> "write", name |-> n, at |-> at, bytes |-> bytes, rc |-> "ENOENT"]
        /\ \A m \in Names : Seen(m)' = Seen(m)
    BY <2>1, FailsSeen
  <2> QED BY <1>1, <2>2
<1>2. CASE Found(n)
  <2> DEFINE ino == PathLookup(n)
             opened == Open(ino)
             fs == Written(opened, at, bytes)
             others == dmap \ Own(itable[ino])
             needed == BlocksFor(at + Len(bytes))
             size == IF at + Len(bytes) >= opened.n.size THEN at + Len(bytes) ELSE opened.n.size
             buf == [p \in at .. at + Len(bytes) - 1 |-> bytes[p - at + 1]]
  <2>1. Changes("write", n, at, bytes, fs)
    BY <1>2 DEF Write
  <2>2. ino \in DOMAIN itable /\ Seen(n) = FileOf(disk, itable[ino])
    BY <1>2, FileFound DEF Seen
  <2>3. /\ Whole(sb.data_region, sb.num_blocks, others, opened) /\ opened.rc = "OK"
        /\ opened.n = itable[ino]
    BY <2>2, OpenWhole, OpenFields DEF ImageInv
  <2>4. Seen(n) \in Seq(Byte) /\ Len(Seen(n)) = opened.n.size
    <3>1. ValidInode(sb.data_region, sb.num_blocks, itable[ino])
      BY <2>2, OwnOfFile
    <3>2. disk \in [sb.data_region .. sb.num_blocks - 1 -> BlockBytes]
      BY DEF ImageInv, ImageType
    <3> HIDE DEF ino, opened
    <3> QED BY <2>2, <2>3, <3>1, <3>2, FileBytesType
  <2>5. /\ Changed(sb.data_region, sb.num_blocks, others, opened, needed, fs)
        /\ Rewritten(opened, size, buf, fs)
    <3> HIDE DEF opened, others
    <3> QED BY <2>3, WriteChanges, WriteRewrites
  <2>6. size \in Nat /\ size = IF at + Len(bytes) >= Len(Seen(n)) THEN at + Len(bytes) ELSE Len(Seen(n))
    <3> HIDE DEF opened
    <3> QED BY <2>4
  <2>7. Overlay(Seen(n), size, buf) = F!Overwritten(Seen(n), at, bytes)
    <3> HIDE DEF size
    <3> QED BY <2>4, <2>6, OverwrittenFile
  <2> HIDE DEF fs, needed, size, buf
  <2>8. /\ call' = [op |-> "write", name |-> n, at |-> at, bytes |-> bytes, rc |-> fs.rc]
        /\ fs.rc \in {"OK", "EFBIG", "ENOSPC", "LOOP"}
        /\ \A m \in Names \ {n} : Seen(m)' = Seen(m)
        /\ Seen(n)' = IF fs.rc = "OK" THEN Overlay(Seen(n), size, buf) ELSE Seen(n)
    BY <1>2, <2>1, <2>5, <2>6, ChangesSeen
  <2>9. call'.rc = fs.rc
    BY <2>8
  <2> QED BY <1>2, <2>7, <2>8, <2>9
<1> QED BY <1>1, <1>2

(* The step of Files that a call of ExFS is.                               *)
LEMMA FileBecomes ==
  ASSUME NEW n \in Names, NEW f, call'.rc = "OK", Seen(n)' = f,
         \A m \in Names \ {n} : Seen(m)' = Seen(m)
  PROVE  F!Becomes(n, f)
<1> DEFINE was == [m \in Names |-> Seen(m)]
           now == [m \in Names |-> Seen(m)']
<1>1. F!Becomes(n, f) <=> call'.rc = "OK" /\ now = [was EXCEPT ![n] = f]
  BY DEF F!Becomes, FilesSeen, Seen
<1>2. now = [was EXCEPT ![n] = f]
  OBVIOUS
<1> QED BY <1>1, <1>2

LEMMA FilesKept ==
  ASSUME \A m \in Names : Seen(m)' = Seen(m)
  PROVE  UNCHANGED FilesSeen
<1> DEFINE was == [m \in Names |-> Seen(m)]
           now == [m \in Names |-> Seen(m)']
<1>1. now = was
  OBVIOUS
<1> QED BY <1>1 DEF FilesSeen, Seen

(* A name has a file in Files just if it is found.                         *)
LEMMA FileThere ==
  ASSUME ImageInv, daemon = "serving", NEW n \in Names
  PROVE  /\ FilesSeen[n] = Seen(n)
         /\ Seen(n) = Absent <=> ~Found(n)
<1>1. Seen(n) = Absent <=> ~Found(n)
  BY SeenType DEF Seen
<1> QED BY <1>1 DEF FilesSeen, Seen

(* The step a call of ExFS is for its readers.                             *)
FilesNext == IF call'.rc = "LOOP" THEN UNCHANGED FilesSeen ELSE F!Next

(* A step of Files, from what is seen before and after a call: the file    *)
(* there is, or its absence, is Seen(n).                                   *)
LEMMA FilesStep ==
  ASSUME ImageInv, daemon = "serving", NEW n \in Names, call' \in CallRecord, call'.name = n,
         \/ (\A m \in Names : Seen(m)' = Seen(m)) /\ call'.rc \in F!MayFail(n)
         \/ /\ call'.rc = "OK" /\ \A m \in Names \ {n} : Seen(m)' = Seen(m)
            /\ \/ ~Found(n) /\ call'.op = "create" /\ Seen(n)' = <<>>
               \/ Found(n) /\ call'.op = "unlink" /\ Seen(n)' = Absent
               \/ Found(n) /\ call'.op = "truncate" /\ Seen(n)' = F!Resized(Seen(n), call'.at)
               \/ /\ Found(n) /\ call'.op = "write"
                  /\ Seen(n)' = F!Overwritten(Seen(n), call'.at, call'.bytes)
               \/ Found(n) /\ call'.op = "utimens" /\ Seen(n)' = Seen(n)
               \/ call'.op = "omit" /\ Seen(n)' = Seen(n)
  PROVE  FilesNext
<1> DEFINE was == FilesSeen
<1>0. call'.rc # "LOOP"
  BY DEF CallRecord, Results
<1>1. was[n] = Seen(n) /\ (Seen(n) = Absent <=> ~Found(n))
  BY FileThere
<1>2. SUFFICES \/ F!Create(n) \/ F!Unlink(n) \/ F!Truncate(n) \/ F!Write(n) \/ F!Touch(n)
               \/ F!Omit(n) \/ F!Fail(n)
  BY <1>0 DEF FilesNext, F!Next
<1>3. CASE (\A m \in Names : Seen(m)' = Seen(m)) /\ call'.rc \in F!MayFail(n)
  <2>1. UNCHANGED was /\ call'.rc \in F!MayFail(n)
    BY <1>3, FilesKept
  <2> QED BY <2>1, Zenon DEF F!Fail
<1>4. ASSUME NEW f, call'.rc = "OK", \A m \in Names \ {n} : Seen(m)' = Seen(m), Seen(n)' = f
      PROVE  F!Becomes(n, f)
  BY <1>4, FileBecomes
<1> SUFFICES ASSUME call'.rc = "OK", \A m \in Names \ {n} : Seen(m)' = Seen(m),
                    \/ ~Found(n) /\ call'.op = "create" /\ Seen(n)' = <<>>
                    \/ Found(n) /\ call'.op = "unlink" /\ Seen(n)' = Absent
                    \/ /\ Found(n) /\ call'.op = "truncate"
                       /\ Seen(n)' = F!Resized(Seen(n), call'.at)
                    \/ /\ Found(n) /\ call'.op = "write"
                       /\ Seen(n)' = F!Overwritten(Seen(n), call'.at, call'.bytes)
                    \/ Found(n) /\ call'.op = "utimens" /\ Seen(n)' = Seen(n)
                    \/ call'.op = "omit" /\ Seen(n)' = Seen(n)
             PROVE  \/ F!Create(n) \/ F!Unlink(n) \/ F!Truncate(n) \/ F!Write(n) \/ F!Touch(n)
                    \/ F!Omit(n) \/ F!Fail(n)
  BY <1>3
<1>5. CASE ~Found(n) /\ call'.op = "create" /\ Seen(n)' = <<>>
  <2>1. F!Becomes(n, <<>>)
    BY <1>4, <1>5
  <2>2. F!Create(n)
    BY <1>1, <1>5, <2>1, Zenon DEF F!Create, F!Called
  <2> QED BY <2>2
<1>6. CASE Found(n) /\ call'.op = "unlink" /\ Seen(n)' = Absent
  <2>1. F!Becomes(n, Absent)
    BY <1>4, <1>6
  <2>2. F!Unlink(n)
    BY <1>1, <1>6, <2>1, Zenon DEF F!Unlink, F!Called
  <2> QED BY <2>2
<1>7. CASE Found(n) /\ call'.op = "truncate" /\ Seen(n)' = F!Resized(Seen(n), call'.at)
  <2>1. F!Becomes(n, F!Resized(was[n], call'.at))
    BY <1>1, <1>4, <1>7
  <2>2. F!Truncate(n)
    BY <1>1, <1>7, <2>1, Zenon DEF F!Truncate, F!Called
  <2> QED BY <2>2
<1>8. CASE /\ Found(n) /\ call'.op = "write"
           /\ Seen(n)' = F!Overwritten(Seen(n), call'.at, call'.bytes)
  <2>1. F!Becomes(n, F!Overwritten(was[n], call'.at, call'.bytes))
    BY <1>1, <1>4, <1>8
  <2>2. F!Write(n)
    BY <1>1, <1>8, <2>1, Zenon DEF F!Write, F!Called
  <2> QED BY <2>2
<1>9. CASE Found(n) /\ call'.op = "utimens" /\ Seen(n)' = Seen(n)
  <2>1. F!Becomes(n, was[n])
    BY <1>1, <1>4, <1>9
  <2>2. F!Touch(n)
    BY <1>1, <1>9, <2>1, Zenon DEF F!Touch, F!Called
  <2> QED BY <2>2
<1>10. CASE call'.op = "omit" /\ Seen(n)' = Seen(n)
  <2>1. \A m \in Names : Seen(m)' = Seen(m)
    BY <1>10
  <2>2. UNCHANGED was
    BY <2>1, FilesKept
  <2>3. F!Omit(n)
    BY <1>10, <2>2, Zenon DEF F!Omit, F!Called
  <2> QED BY <2>3
<1> QED BY <1>5, <1>6, <1>7, <1>8, <1>9, <1>10

(* The reasons a call may fail for.                                        *)
LEMMA MayFailFor ==
  ASSUME ImageInv, daemon = "serving", NEW n \in Names, NEW rc, call'.rc = rc
  PROVE  /\ call'.op = "create" /\ Found(n) /\ rc = "EEXIST" => call'.rc \in F!MayFail(n)
         /\ call'.op = "create" /\ ~Found(n) /\ rc = "ENOSPC" => call'.rc \in F!MayFail(n)
         /\ call'.op \in {"truncate", "write"} /\ Found(n) /\ rc \in {"ENOSPC", "EFBIG"}
              => call'.rc \in F!MayFail(n)
         /\ call'.op \in {"unlink", "truncate", "write", "utimens"} /\ ~Found(n) /\ rc = "ENOENT"
              => call'.rc \in F!MayFail(n)
<1> DEFINE was == FilesSeen
<1>1. was[n] = Absent <=> ~Found(n)
  BY FileThere
<1>2. F!MayFail(n) =
        CASE call'.op = "create" -> IF was[n] = Absent THEN {"ENOSPC"} ELSE {"EEXIST"}
          [] call'.op \in {"truncate", "write"} ->
               IF was[n] = Absent THEN {"ENOENT"} ELSE {"ENOSPC", "EFBIG"}
          [] call'.op \in {"unlink", "utimens"} ->
               IF was[n] = Absent THEN {"ENOENT"} ELSE {}
          [] OTHER -> {}
  BY Zenon DEF F!MayFail
<1> HIDE DEF was
<1> QED BY <1>1, <1>2

LEMMA CallFiles ==
  ASSUME ImageInv, daemon = "serving", NEW n \in Names,
         \/ Create(n) \/ Unlink(n) \/ Utimens(n)
         \/ \E size \in Sizes : Truncate(n, size)
         \/ \E a \in Accesses : Write(n, a.at, a.bytes)
  PROVE  FilesNext
<1> DEFINE kept == \A m \in Names : Seen(m)' = Seen(m)
<1>1. \A m \in Names : m = n \/ m \in Names \ {n}
  OBVIOUS
<1>2. CASE Create(n)
  <2>1. /\ call' = [op |-> "create", name |-> n, at |-> 0, bytes |-> <<>>, rc |-> call'.rc]
        /\ \A m \in Names \ {n} : Seen(m)' = Seen(m)
        /\ \/ Found(n) /\ call'.rc = "EEXIST" /\ Seen(n)' = Seen(n)
           \/ ~Found(n) /\ call'.rc = "ENOSPC" /\ Seen(n)' = Seen(n)
           \/ ~Found(n) /\ call'.rc = "OK" /\ Seen(n)' = <<>>
    BY <1>2, CreateSeen
  <2>2. call'.op = "create" /\ call'.name = n
    BY <2>1
  <2>3. call' \in CallRecord
    <3>1. call'.rc \in Results
      BY <2>1 DEF Results
    <3> QED BY <2>1, <3>1 DEF CallRecord
  <2>4. CASE call'.rc # "OK"
    <3>1. kept /\ call'.rc \in F!MayFail(n)
      BY <1>1, <2>1, <2>2, <2>4, MayFailFor
    <3> QED BY <2>2, <2>3, <3>1, FilesStep
  <2>5. CASE call'.rc = "OK"
    <3>1. ~Found(n) /\ Seen(n)' = <<>>
      BY <2>1, <2>5
    <3> QED BY <2>1, <2>2, <2>3, <2>5, <3>1, FilesStep
  <2> QED BY <2>4, <2>5
<1>3. CASE Unlink(n)
  <2>1. /\ call' = [op |-> "unlink", name |-> n, at |-> 0, bytes |-> <<>>, rc |-> call'.rc]
        /\ \A m \in Names \ {n} : Seen(m)' = Seen(m)
        /\ IF Found(n) THEN call'.rc = "OK" /\ Seen(n)' = Absent
           ELSE call'.rc = "ENOENT" /\ Seen(n)' = Seen(n)
    BY <1>3, UnlinkSeen
  <2>2. call'.op = "unlink" /\ call'.name = n
    BY <2>1
  <2>3. call' \in CallRecord
    <3>1. call'.rc \in Results
      BY <2>1 DEF Results
    <3> QED BY <2>1, <3>1 DEF CallRecord
  <2>4. CASE ~Found(n)
    <3>1. kept /\ call'.rc \in F!MayFail(n)
      BY <1>1, <2>1, <2>2, <2>4, MayFailFor
    <3> QED BY <2>2, <2>3, <3>1, FilesStep
  <2>5. CASE Found(n)
    <3>1. call'.rc = "OK" /\ Seen(n)' = Absent
      BY <2>1, <2>5
    <3> QED BY <2>1, <2>2, <2>3, <2>5, <3>1, FilesStep
  <2> QED BY <2>4, <2>5
<1>4. CASE Utimens(n)
  <2>1. /\ call' = [op |-> call'.op, name |-> n, at |-> 0, bytes |-> <<>>, rc |-> call'.rc]
        /\ kept
        /\ \/ call'.op = "omit" /\ call'.rc = "OK"
           \/ call'.op = "utimens" /\ call'.rc = IF Found(n) THEN "OK" ELSE "ENOENT"
    BY <1>4, UtimensSeen
  <2>2. call'.op \in {"utimens", "omit"} /\ call'.name = n
    BY <2>1
  <2>3. call' \in CallRecord
    <3>1. call'.rc \in Results
      BY <2>1 DEF Results
    <3> QED BY <2>1, <3>1 DEF CallRecord
  <2>4. CASE ~Found(n) /\ call'.op = "utimens"
    <3>1. kept /\ call'.rc \in F!MayFail(n)
      BY <2>1, <2>4, MayFailFor
    <3> QED BY <2>2, <2>3, <3>1, FilesStep
  <2>5. CASE Found(n) \/ call'.op = "omit"
    <3>1. call'.rc = "OK"
      BY <2>1, <2>5
    <3> QED BY <2>1, <2>2, <2>3, <2>5, <3>1, FilesStep
  <2> QED BY <2>2, <2>4, <2>5
<1>5. ASSUME NEW size \in Sizes, Truncate(n, size)
      PROVE  FilesNext
  <2>0. size \in Nat
    BY ExFSAssumption
  <2>1. /\ call' = [op |-> "truncate", name |-> n, at |-> size, bytes |-> <<>>, rc |-> call'.rc]
        /\ \A m \in Names \ {n} : Seen(m)' = Seen(m)
        /\ \/ ~Found(n) /\ call'.rc = "ENOENT" /\ Seen(n)' = Seen(n)
           \/ Found(n) /\ call'.rc \in {"ENOSPC", "EFBIG", "LOOP"} /\ Seen(n)' = Seen(n)
           \/ Found(n) /\ call'.rc = "OK" /\ Seen(n)' = F!Resized(Seen(n), size)
    BY <1>5, <2>0, TruncateSeen
  <2>2. call'.op = "truncate" /\ call'.name = n /\ call'.at = size
    BY <2>1
  <2>3. ASSUME call'.rc # "LOOP" PROVE call' \in CallRecord
    <3>1. call'.rc \in Results
      BY <2>1, <2>3 DEF Results
    <3> QED BY <2>0, <2>1, <3>1 DEF CallRecord
  <2>4. CASE call'.rc = "LOOP"
    <3>1. kept
      BY <1>1, <2>1, <2>4
    <3> QED BY <2>4, <3>1, FilesKept DEF FilesNext
  <2>5. CASE call'.rc \notin {"OK", "LOOP"}
    <3>1. kept
      BY <1>1, <2>1, <2>5
    <3>2. call'.rc \in F!MayFail(n)
      BY <2>1, <2>2, <2>5, MayFailFor
    <3> QED BY <2>2, <2>3, <2>5, <3>1, <3>2, FilesStep
  <2>6. CASE call'.rc = "OK"
    <3>1. Found(n) /\ Seen(n)' = F!Resized(Seen(n), call'.at)
      BY <2>1, <2>2, <2>6
    <3> QED BY <2>1, <2>2, <2>3, <2>6, <3>1, FilesStep
  <2> QED BY <2>4, <2>5, <2>6
<1>6. ASSUME NEW a \in Accesses, Write(n, a.at, a.bytes)
      PROVE  FilesNext
  <2>0. a.at \in Nat /\ a.bytes \in Seq(Byte)
    BY ExFSAssumption
  <2>1. /\ call' = [op |-> "write", name |-> n, at |-> a.at, bytes |-> a.bytes, rc |-> call'.rc]
        /\ \A m \in Names \ {n} : Seen(m)' = Seen(m)
        /\ \/ ~Found(n) /\ call'.rc = "ENOENT" /\ Seen(n)' = Seen(n)
           \/ Found(n) /\ call'.rc \in {"ENOSPC", "EFBIG", "LOOP"} /\ Seen(n)' = Seen(n)
           \/ Found(n) /\ call'.rc = "OK" /\ Seen(n)' = F!Overwritten(Seen(n), a.at, a.bytes)
    BY <1>6, <2>0, WriteSeen
  <2>2. call'.op = "write" /\ call'.name = n /\ call'.at = a.at /\ call'.bytes = a.bytes
    BY <2>1
  <2>3. ASSUME call'.rc # "LOOP" PROVE call' \in CallRecord
    <3>1. call'.rc \in Results
      BY <2>1, <2>3 DEF Results
    <3> QED BY <2>0, <2>1, <3>1 DEF CallRecord
  <2>4. CASE call'.rc = "LOOP"
    <3>1. kept
      BY <1>1, <2>1, <2>4
    <3> QED BY <2>4, <3>1, FilesKept DEF FilesNext
  <2>5. CASE call'.rc \notin {"OK", "LOOP"}
    <3>1. kept
      BY <1>1, <2>1, <2>5
    <3>2. call'.rc \in F!MayFail(n)
      BY <2>1, <2>2, <2>5, MayFailFor
    <3> QED BY <2>2, <2>3, <2>5, <3>1, <3>2, FilesStep
  <2>6. CASE call'.rc = "OK"
    <3>1. Found(n) /\ Seen(n)' = F!Overwritten(Seen(n), call'.at, call'.bytes)
      BY <2>1, <2>2, <2>6
    <3> QED BY <2>1, <2>2, <2>3, <2>6, <3>1, FilesStep
  <2> QED BY <2>4, <2>5, <2>6
<1> QED BY <1>2, <1>3, <1>4, <1>5, <1>6

(* mkfs leaves no file.                                                    *)
LEMMA InitFiles == Init => F!Init
<1> SUFFICES ASSUME Init PROVE F!Init
  OBVIOUS
<1>1. imap = {RootIno} /\ call.op = "none" /\ ImageInv
  BY InitImage DEF Init
<1>2. \A n \in Names : ~Found(n)
  BY <1>1, FileFound
<1>3. FilesSeen = [n \in Names |-> Absent]
  BY <1>2 DEF FilesSeen
<1> QED BY <1>1, <1>3 DEF F!Init

LEMMA StepFiles == ImageInv /\ [Next]_vars => [FilesNext]_(F!vars)
<1> SUFFICES ASSUME ImageInv, [Next]_vars PROVE FilesNext \/ UNCHANGED F!vars
  OBVIOUS
<1>1. CASE UNCHANGED vars
  <2>1. itable' = itable /\ dir' = dir /\ disk' = disk /\ call' = call
    BY <1>1 DEF vars, image
  <2>2. \A m : (Found(m)' <=> Found(m)) /\ PathLookup(m)' = PathLookup(m)
    BY <2>1, SameDirectory
  <2>3. \A m : Contents(m)' = Contents(m)
    BY <2>1, <2>2 DEF Contents, FileBytes
  <2>4. \A m \in Names : Seen(m)' = Seen(m)
    BY <2>2, <2>3 DEF Seen
  <2>5. UNCHANGED FilesSeen
    BY <2>4, FilesKept
  <2> QED BY <2>1, <2>5 DEF F!vars
<1>2. CASE daemon = "serving" /\ \E n \in Names :
             \/ Create(n) \/ Unlink(n) \/ Utimens(n)
             \/ \E size \in Sizes : Truncate(n, size)
             \/ \E a \in Accesses : Write(n, a.at, a.bytes)
  BY <1>2, CallFiles
<1> QED BY <1>1, <1>2 DEF Next, Loop

(* What readers see of every file is what the calls that succeeded made of *)
(* it, as they were asked, and by nothing else: no other file's bytes move *)
(* when a file grows, shrinks, is moved to blocks or is removed, and a     *)
(* call that fails half way, or never returns (exfs.c:1106), leaves every  *)
(* file as it was read before.  Every call that returns does so as Files   *)
(* says, and with an error only for a reason the comments of exfs.c give.  *)
THEOREM FilesImplemented == Spec => ImplementsFiles
<1>1. Spec => F!Init /\ [][FilesNext]_(F!vars)
  BY InitFiles, StepFiles, ImageInvariant, PTL DEF Spec
<1> QED BY <1>1 DEF ImplementsFiles, FilesNext

=============================================================================
