----------------------------- MODULE QueueLemmas -----------------------------
(***************************************************************************)
(* Sequences without repetition, which is what every queue of the thread   *)
(* library is: how the operations of a queue change its set of elements.   *)
(* Then sequences of sequences, joined to one.                             *)
(***************************************************************************)
EXTENDS Integers, Sequences, SequencesExt, SequenceTheorems,
        FiniteSetTheorems, WellFoundedInduction, TLAPS

(* An empty queue has no element; a queue that is not empty has one.       *)
LEMMA QueueEmpty ==
  ASSUME NEW S, NEW s \in Seq(S)
  PROVE  /\ ToSet(s) \subseteq S
         /\ s = <<>> <=> ToSet(s) = {}
         /\ ToSet(<<>>) = {} /\ IsInjective(<<>>)
  BY DEF ToSet, IsInjective

(* Append adds an element at the end.                                      *)
LEMMA QueueAppend ==
  ASSUME NEW S, NEW s \in Seq(S), IsInjective(s), NEW e \in S, e \notin ToSet(s)
  PROVE  /\ Append(s, e) \in Seq(S) /\ IsInjective(Append(s, e))
         /\ ToSet(Append(s, e)) = ToSet(s) \cup {e}
<1> DEFINE a == Append(s, e)
<1>1. a \in Seq(S) /\ Len(a) = Len(s) + 1 /\ DOMAIN a = 1 .. Len(s) + 1
      /\ (\A i \in 1 .. Len(s) : a[i] = s[i]) /\ a[Len(s) + 1] = e
  BY AppendProperties
<1>2. DOMAIN s = 1 .. Len(s) /\ Len(s) \in Nat
  OBVIOUS
<1>3. IsInjective(a)
  BY <1>1, <1>2 DEF IsInjective, ToSet
<1>4. ToSet(a) = ToSet(s) \cup {e}
  BY <1>1, <1>2 DEF ToSet
<1> QED BY <1>1, <1>3, <1>4

(* The head of a queue is its only copy.                                   *)
LEMMA QueueTail ==
  ASSUME NEW S, NEW s \in Seq(S), IsInjective(s), s # <<>>
  PROVE  /\ Head(s) \in ToSet(s) /\ Head(s) \in S
         /\ Tail(s) \in Seq(S) /\ IsInjective(Tail(s))
         /\ ToSet(Tail(s)) = ToSet(s) \ {Head(s)}
<1>1. /\ Len(s) \in Nat \ {0} /\ DOMAIN s = 1 .. Len(s) /\ Head(s) = s[1]
      /\ Tail(s) \in Seq(S) /\ DOMAIN Tail(s) = 1 .. Len(s) - 1
      /\ \A i \in 1 .. Len(s) - 1 : Tail(s)[i] = s[i + 1]
  BY HeadTailProperties
<1>2. Head(s) \in ToSet(s) /\ Head(s) \in S
  BY <1>1 DEF ToSet
<1>3. IsInjective(Tail(s))
  BY <1>1 DEF IsInjective
<1>4. ToSet(Tail(s)) = ToSet(s) \ {Head(s)}
  <2>1. \A x \in ToSet(s) \ {Head(s)} : x \in ToSet(Tail(s))
    <3> SUFFICES ASSUME NEW i \in 1 .. Len(s), s[i] # Head(s)
                 PROVE  s[i] \in ToSet(Tail(s))
      BY <1>1 DEF ToSet
    <3>1. i - 1 \in DOMAIN Tail(s) /\ Tail(s)[i - 1] = s[i]
      BY <1>1
    <3> QED BY <3>1 DEF ToSet
  <2>2. \A x \in ToSet(Tail(s)) : x \in ToSet(s) \ {Head(s)}
    BY <1>1 DEF ToSet, IsInjective
  <2> QED BY <2>1, <2>2
<1> QED BY <1>1, <1>2, <1>3, <1>4

(* What two sequences hold together.                                       *)
LEMMA ConcatElements ==
  ASSUME NEW S, NEW s \in Seq(S), NEW t \in Seq(S)
  PROVE  ToSet(s \o t) = ToSet(s) \cup ToSet(t)
<1> DEFINE c == s \o t
<1>1. /\ DOMAIN c = 1 .. Len(s) + Len(t)
      /\ DOMAIN s = 1 .. Len(s) /\ DOMAIN t = 1 .. Len(t)
      /\ Len(s) \in Nat /\ Len(t) \in Nat
      /\ \A i \in 1 .. Len(s) + Len(t) :
           c[i] = IF i <= Len(s) THEN s[i] ELSE t[i - Len(s)]
  BY ConcatProperties
<1>2. \A i \in DOMAIN c : c[i] \in ToSet(s) \cup ToSet(t)
  BY <1>1 DEF ToSet
<1>3. \A i \in DOMAIN s : s[i] \in ToSet(c)
  BY <1>1 DEF ToSet
<1>4. ASSUME NEW i \in DOMAIN t PROVE t[i] \in ToSet(c)
  <2>1. i + Len(s) \in DOMAIN c /\ c[i + Len(s)] = t[i]
    BY <1>1
  <2> QED BY <2>1 DEF ToSet
<1> QED BY <1>2, <1>3, <1>4 DEF ToSet

(* Two queues without a common element make one queue.                     *)
LEMMA QueueConcat ==
  ASSUME NEW S, NEW s \in Seq(S), NEW t \in Seq(S), IsInjective(s), IsInjective(t),
         ToSet(s) \cap ToSet(t) = {}
  PROVE  /\ s \o t \in Seq(S) /\ IsInjective(s \o t)
         /\ ToSet(s \o t) = ToSet(s) \cup ToSet(t)
<1> DEFINE c == s \o t
<1>1. /\ c \in Seq(S) /\ DOMAIN c = 1 .. Len(s) + Len(t)
      /\ DOMAIN s = 1 .. Len(s) /\ DOMAIN t = 1 .. Len(t)
      /\ Len(s) \in Nat /\ Len(t) \in Nat
      /\ \A i \in 1 .. Len(s) + Len(t) :
           c[i] = IF i <= Len(s) THEN s[i] ELSE t[i - Len(s)]
  BY ConcatProperties
<1>2. ASSUME NEW i \in DOMAIN c, NEW j \in DOMAIN c, c[i] = c[j]
      PROVE  i = j
  <2>1. CASE i <= Len(s) /\ j <= Len(s)
    BY <1>1, <1>2, <2>1 DEF IsInjective
  <2>2. CASE i > Len(s) /\ j > Len(s)
    <3>1. i - Len(s) \in DOMAIN t /\ j - Len(s) \in DOMAIN t
          /\ t[i - Len(s)] = t[j - Len(s)]
      BY <1>1, <1>2, <2>2
    <3>2. i - Len(s) = j - Len(s)
      BY <3>1 DEF IsInjective
    <3> QED BY <1>1, <3>2
  <2>3. CASE i <= Len(s) /\ j > Len(s)
    <3>1. c[i] = s[i] /\ i \in DOMAIN s /\ c[j] = t[j - Len(s)]
          /\ j - Len(s) \in DOMAIN t
      BY <1>1, <2>3
    <3> QED BY <1>2, <3>1 DEF ToSet
  <2>4. CASE i > Len(s) /\ j <= Len(s)
    <3>1. c[j] = s[j] /\ j \in DOMAIN s /\ c[i] = t[i - Len(s)]
          /\ i - Len(s) \in DOMAIN t
      BY <1>1, <2>4
    <3> QED BY <1>2, <3>1 DEF ToSet
  <2> QED BY <1>1, <2>1, <2>2, <2>3, <2>4
<1>3. IsInjective(c)
  BY <1>2 DEF IsInjective
<1>4. ToSet(c) = ToSet(s) \cup ToSet(t)
  BY ConcatElements
<1> QED BY <1>1, <1>3, <1>4

(* RemoveAt(s, p) is s without its p-th place.                             *)
LEMMA RemoveAtPlaces ==
  ASSUME NEW S, NEW s \in Seq(S), NEW p \in 1 .. Len(s)
  PROVE  /\ RemoveAt(s, p) \in Seq(S) /\ Len(RemoveAt(s, p)) = Len(s) - 1
         /\ \A i \in 1 .. Len(s) - 1 :
              RemoveAt(s, p)[i] = IF i < p THEN s[i] ELSE s[i + 1]
<1>0. Len(s) \in Nat /\ p \in Int /\ \A i \in 1 .. Len(s) : s[i] \in S
  OBVIOUS
<1> DEFINE b == SubSeq(s, 1, p - 1)
           a == SubSeq(s, p + 1, Len(s))
           c == b \o a
<1>1. b \in Seq(S) /\ Len(b) = p - 1 /\ \A i \in 1 .. p - 1 : b[i] = s[i]
  <2>1. \A i \in 1 .. p - 1 : s[i] \in S
    BY <1>0
  <2>2. /\ b \in Seq(S)
        /\ Len(b) = IF 1 <= p - 1 THEN (p - 1) - 1 + 1 ELSE 0
        /\ \A i \in 1 .. (p - 1) - 1 + 1 : b[i] = s[1 + i - 1]
    BY <1>0, <2>1, SubSeqProperties
  <2> HIDE DEF b
  <2> QED BY <1>0, <2>2
<1>2. /\ a \in Seq(S) /\ Len(a) = Len(s) - p
      /\ \A i \in 1 .. Len(s) - p : a[i] = s[p + i]
  <2>1. \A i \in p + 1 .. Len(s) : s[i] \in S
    BY <1>0
  <2>2. /\ a \in Seq(S)
        /\ Len(a) = IF p + 1 <= Len(s) THEN Len(s) - (p + 1) + 1 ELSE 0
        /\ \A i \in 1 .. Len(s) - (p + 1) + 1 : a[i] = s[(p + 1) + i - 1]
    BY <1>0, <2>1, SubSeqProperties
  <2> HIDE DEF a
  <2> QED BY <1>0, <2>2
<1>3. RemoveAt(s, p) = c
  BY DEF RemoveAt
<1> HIDE DEF b, a
<1>4. /\ c \in Seq(S) /\ Len(c) = Len(b) + Len(a)
      /\ \A i \in 1 .. Len(b) + Len(a) :
           c[i] = IF i <= Len(b) THEN b[i] ELSE a[i - Len(b)]
  BY <1>1, <1>2, ConcatProperties
<1> HIDE DEF c
<1>5. ASSUME NEW i \in 1 .. Len(s) - 1
      PROVE  c[i] = IF i < p THEN s[i] ELSE s[i + 1]
  <2>1. CASE i < p
    <3>1. i \in 1 .. Len(b) + Len(a) /\ i <= Len(b) /\ i \in 1 .. p - 1
      BY <1>0, <1>1, <1>2, <2>1
    <3>2. c[i] = b[i] /\ b[i] = s[i]
      BY <1>1, <1>4, <3>1
    <3> QED BY <2>1, <3>2
  <2>2. CASE i >= p
    <3>1. i - Len(b) \in 1 .. Len(s) - p /\ p + (i - Len(b)) = i + 1
      BY <1>0, <1>1, <2>2
    <3>2. c[i] = a[i - Len(b)]
      BY <1>0, <1>1, <1>2, <1>4, <2>2, SMTT(30)
    <3>3. c[i] = s[i + 1]
      BY <1>2, <3>1, <3>2
    <3> QED BY <1>0, <2>2, <3>3
  <2> QED BY <1>0, <2>1, <2>2
<1> QED BY <1>0, <1>1, <1>2, <1>3, <1>4, <1>5

(* A queue without one place has lost that element only.                   *)
LEMMA QueueDrop ==
  ASSUME NEW S, NEW s \in Seq(S), IsInjective(s), NEW p \in 1 .. Len(s),
         NEW r \in Seq(S), Len(r) = Len(s) - 1,
         \A i \in 1 .. Len(s) - 1 : r[i] = IF i < p THEN s[i] ELSE s[i + 1]
  PROVE  IsInjective(r) /\ ToSet(r) = ToSet(s) \ {s[p]}
<1>0. Len(s) \in Nat /\ DOMAIN s = 1 .. Len(s) /\ DOMAIN r = 1 .. Len(s) - 1
  OBVIOUS
<1>1. \A i, j \in 1 .. Len(s) : s[i] = s[j] => i = j
  BY <1>0 DEF IsInjective
<1>2. IsInjective(r)
  BY <1>0, <1>1 DEF IsInjective
<1>3. ASSUME NEW i \in 1 .. Len(s) - 1 PROVE r[i] \in ToSet(s) /\ r[i] # s[p]
  <2>1. CASE i < p
    BY <1>0, <1>1, <2>1 DEF ToSet
  <2>2. CASE i >= p
    BY <1>0, <1>1, <2>2 DEF ToSet
  <2> QED BY <1>0, <2>1, <2>2
<1>4. ASSUME NEW i \in 1 .. Len(s), s[i] # s[p] PROVE s[i] \in ToSet(r)
  <2>1. CASE i < p
    BY <1>0, <2>1 DEF ToSet
  <2>2. CASE i > p
    <3>1. i - 1 \in 1 .. Len(s) - 1 /\ r[i - 1] = s[i]
      BY <1>0, <2>2
    <3> QED BY <1>0, <3>1 DEF ToSet
  <2> QED BY <1>0, <1>4, <2>1, <2>2
<1> QED BY <1>0, <1>2, <1>3, <1>4 DEF ToSet

(* RemoveFirst takes the element out and keeps the others.                 *)
LEMMA QueueRemove ==
  ASSUME NEW S, NEW s \in Seq(S), IsInjective(s), NEW e
  PROVE  /\ RemoveFirst(s, e) \in Seq(S) /\ IsInjective(RemoveFirst(s, e))
         /\ ToSet(RemoveFirst(s, e)) = ToSet(s) \ {e}
<1> DEFINE I == {i \in 1 .. Len(s) : s[i] = e}
<1>0. Len(s) \in Nat /\ DOMAIN s = 1 .. Len(s)
  OBVIOUS
<1>1. CASE I = {}
  <2>1. RemoveFirst(s, e) = s
    BY <1>1 DEF RemoveFirst
  <2> QED BY <1>0, <1>1, <2>1 DEF ToSet
<1>2. CASE I # {}
  <2>1. PICK p \in 1 .. Len(s) : s[p] = e
    BY <1>2
  <2>2. I = {p}
    BY <1>0, <2>1 DEF IsInjective
  <2>3. Min(I) = p
    BY <2>2 DEF Min
  <2>4. SelectInSeq(s, LAMBDA v : v = e) = p
    BY <2>2, <2>3 DEF SelectInSeq
  <2>5. RemoveFirst(s, e) = RemoveAt(s, p)
    BY <2>1, <2>4 DEF RemoveFirst
  <2> QED BY <2>1, <2>5, RemoveAtPlaces, QueueDrop
<1> QED BY <1>1, <1>2

(* A queue over a finite set is no longer than the set.                    *)
LEMMA QueueLength ==
  ASSUME NEW S, IsFiniteSet(S), NEW s \in Seq(S), IsInjective(s)
  PROVE  Len(s) <= Cardinality(S)
<1>1. Len(s) \in Nat /\ s \in [1 .. Len(s) -> S]
  BY LenProperties
<1>2. s \in Injection(1 .. Len(s), S)
  BY <1>1 DEF Injection
<1>3. Cardinality(1 .. Len(s)) <= Cardinality(S)
  BY <1>2, FS_Injection
<1>4. Cardinality(1 .. Len(s)) = Len(s)
  BY <1>1, FS_Interval
<1> QED BY <1>3, <1>4

(* A set of numbers that is not empty has a least one.                     *)
LEMMA LeastNumber ==
  ASSUME NEW T \in SUBSET Nat, T # {}
  PROVE  Min(T) \in T /\ \A n \in T : Min(T) <= n
<1> DEFINE R == {ss \in Nat \X Nat : ss[1] < ss[2]}
<1>1. OpToRel(<, Nat) = R
  BY Zenon DEF OpToRel
<1>2. IsWellFoundedOn(R, Nat)
  BY <1>1, NatLessThanWellFounded
<1>3. PICK m \in T : \A n \in T : ~(<<n, m>> \in R)
  <2> HIDE DEF R
  <2> QED BY <1>2, WFMin
<1>4. \A n \in T : m <= n
  <2> SUFFICES ASSUME NEW n \in T, n < m PROVE FALSE
    OBVIOUS
  <2>1. <<n, m>> \in Nat \X Nat
    OBVIOUS
  <2>2. <<n, m>>[1] = n /\ <<n, m>>[2] = m
    OBVIOUS
  <2>3. <<n, m>> \in R
    BY <2>1, <2>2
  <2> QED BY <1>3, <2>3
<1> QED BY <1>4 DEF Min

(* RemoveFirst takes out at most one place.                                *)
LEMMA RemovedSequence ==
  ASSUME NEW S, NEW s \in Seq(S), NEW e
  PROVE  /\ RemoveFirst(s, e) \in Seq(S)
         /\ Len(RemoveFirst(s, e)) \in {Len(s), Len(s) - 1}
<1>1. CASE \A i \in 1 .. Len(s) : s[i] # e
  <2>1. RemoveFirst(s, e) = s
    BY <1>1 DEF RemoveFirst
  <2> QED BY <2>1
<1>2. CASE \E i \in 1 .. Len(s) : s[i] = e
  <2> DEFINE I == {i \in 1 .. Len(s) : s[i] = e}
             p == Min(I)
  <2>1. I # {} /\ I \in SUBSET Nat /\ I \subseteq 1 .. Len(s)
    BY <1>2
  <2>2. SelectInSeq(s, LAMBDA v : v = e) = p
    BY <2>1 DEF SelectInSeq
  <2>3. RemoveFirst(s, e) = RemoveAt(s, p)
    BY <1>2, <2>2 DEF RemoveFirst
  <2> HIDE DEF I
  <2>4. p \in I
    BY <2>1, LeastNumber
  <2> HIDE DEF p
  <2>5. p \in 1 .. Len(s)
    BY <2>1, <2>4
  <2> QED BY <2>3, <2>5, RemoveAtPlaces
<1> QED BY <1>1, <1>2

(* The element at a place is at no other: RemoveFirst closes that place.   *)
LEMMA RemovedPlace ==
  ASSUME NEW S, NEW s \in Seq(S), IsInjective(s), NEW p \in 1 .. Len(s)
  PROVE  /\ RemoveFirst(s, s[p]) \in Seq(S) /\ Len(RemoveFirst(s, s[p])) = Len(s) - 1
         /\ \A i \in 1 .. Len(s) - 1 :
              RemoveFirst(s, s[p])[i] = IF i < p THEN s[i] ELSE s[i + 1]
<1> DEFINE I == {i \in 1 .. Len(s) : s[i] = s[p]}
<1>1. I = {p}
  BY DEF IsInjective
<1>2. Min(I) = p
  BY <1>1 DEF Min
<1>3. SelectInSeq(s, LAMBDA v : v = s[p]) = p
  BY <1>1, <1>2 DEF SelectInSeq
<1>4. RemoveFirst(s, s[p]) = RemoveAt(s, p)
  BY <1>3 DEF RemoveFirst
<1> QED BY <1>4, RemoveAtPlaces

(* Two sequences of the same length with the same elements are the same.   *)
LEMMA SamePlaces ==
  ASSUME NEW S, NEW s \in Seq(S), NEW T, NEW t \in Seq(T), Len(s) = Len(t),
         \A i \in 1 .. Len(s) : s[i] = t[i]
  PROVE  s = t
<1>1. s = [i \in 1 .. Len(s) |-> s[i]] /\ t = [i \in 1 .. Len(t) |-> t[i]]
  OBVIOUS
<1> QED BY <1>1

(* Taking its only element out of a queue empties it; taking an element    *)
(* out of an empty queue changes nothing.                                  *)
LEMMA RemovedAlone ==
  ASSUME NEW S, NEW e \in S
  PROVE  RemoveFirst(<<e>>, e) = <<>> /\ RemoveFirst(<<>>, e) = <<>>
<1> DEFINE q == <<e>>
           r == RemoveFirst(q, e)
<1>1. q \in Seq(S) /\ IsInjective(q) /\ ToSet(q) = {e}
  BY DEF IsInjective, ToSet
<1>2. RemoveFirst(<<>>, e) = <<>>
  BY DEF RemoveFirst
<1> HIDE DEF q
<1>3. r \in Seq(S) /\ ToSet(r) = ToSet(q) \ {e}
  BY <1>1, QueueRemove
<1> HIDE DEF r
<1>4. r = <<>>
  BY <1>1, <1>3, QueueEmpty
<1> QED BY <1>2, <1>4 DEF q, r

(* Induction up to a bound.                                                *)
LEMMA BoundedInduction ==
  ASSUME NEW n \in Nat, NEW T, 0 \in T, \A m \in 0 .. n - 1 : m \in T => m + 1 \in T
  PROVE  0 .. n \subseteq T
<1> DEFINE U == (0 .. n) \ T
<1> SUFFICES ASSUME U # {} PROVE FALSE
  OBVIOUS
<1>1. U \in SUBSET Nat
  OBVIOUS
<1> DEFINE u == Min(U)
<1>2. u \in U /\ \A m \in U : u <= m
  BY <1>1, LeastNumber
<1> HIDE DEF u
<1>3. u \in Nat /\ u # 0 /\ u <= n /\ u \notin T
  BY <1>2
<1>4. u - 1 \in 0 .. n - 1 /\ u - 1 \notin U
  BY <1>2, <1>3
<1>5. u - 1 \in T
  BY <1>3, <1>4
<1>6. (u - 1) + 1 \in T
  BY <1>4, <1>5
<1> QED BY <1>3, <1>6

(* The function FlattenSeq is defined by.                                  *)
LEMMA FlattenFunction ==
  ASSUME NEW s, Len(s) \in Nat \ {0}
  PROVE  \E f : /\ f = [i \in 1 .. Len(s) |-> IF i = 1 THEN s[i] ELSE f[i - 1] \o s[i]]
                /\ FlattenSeq(s) = f[Len(s)]
<1> DEFINE k == Len(s)
           T == {m \in Nat : \E f : f = [i \in 1 .. m |-> IF i = 1 THEN s[i] ELSE f[i - 1] \o s[i]]}
<1>1. 0 \in T
  <2>1. <<>> = [i \in 1 .. 0 |-> IF i = 1 THEN s[i] ELSE <<>>[i - 1] \o s[i]]
    OBVIOUS
  <2> QED BY <2>1
<1>2. ASSUME NEW m \in 0 .. k - 1, m \in T PROVE m + 1 \in T
  <2>1. PICK f : f = [i \in 1 .. m |-> IF i = 1 THEN s[i] ELSE f[i - 1] \o s[i]]
    BY <1>2
  <2>0. m \in Nat
    OBVIOUS
  <2>6. ASSUME NEW i \in 1 .. m PROVE f[i] = IF i = 1 THEN s[i] ELSE f[i - 1] \o s[i]
    BY <2>1, Zenon
  <2> DEFINE g == [i \in 1 .. m + 1 |->
                     IF i <= m THEN f[i] ELSE IF i = 1 THEN s[i] ELSE f[i - 1] \o s[i]]
  <2>2. ASSUME NEW i \in 1 .. m + 1
        PROVE  g[i] = IF i = 1 THEN s[i] ELSE g[i - 1] \o s[i]
    <3>1. CASE i = 1
      BY <2>1, <3>1
    <3>2. CASE i # 1
      <4>1. i - 1 \in 1 .. m + 1 /\ i - 1 <= m /\ g[i - 1] = f[i - 1]
        BY <3>2
      <4>2. i <= m => f[i] = f[i - 1] \o s[i]
        <5>1. i <= m => i \in 1 .. m
          BY <2>0
        <5> QED BY <2>6, <3>2, <5>1, Zenon
      <4> QED BY <3>2, <4>1, <4>2
    <3> QED BY <3>1, <3>2
  <2>3. g = [i \in 1 .. m + 1 |-> g[i]]
    OBVIOUS
  <2> HIDE DEF g
  <2>4. g = [i \in 1 .. m + 1 |-> IF i = 1 THEN s[i] ELSE g[i - 1] \o s[i]]
    BY <2>2, <2>3
  <2>5. m + 1 \in Nat
    BY <2>0
  <2> QED BY <2>4, <2>5, Zenon
<1>3. k \in T
  <2>1. k \in Nat /\ k \in 0 .. k
    OBVIOUS
  <2> HIDE DEF T, k
  <2> QED BY <1>1, <1>2, <2>1, BoundedInduction
<1> DEFINE F == CHOOSE f : f = [i \in 1 .. Len(s) |-> IF i = 1 THEN s[i] ELSE f[i - 1] \o s[i]]
<1>4. F = [i \in 1 .. Len(s) |-> IF i = 1 THEN s[i] ELSE F[i - 1] \o s[i]]
  BY <1>3
<1>5. FlattenSeq(s) = F[Len(s)]
  BY DEF FlattenSeq
<1> HIDE DEF F
<1> QED BY <1>4, <1>5

(* FlattenSeq joins its sequences one by one.                              *)
LEMMA FlattenAppend ==
  ASSUME NEW S, NEW q \in Seq(Seq(S)), NEW e \in Seq(S)
  PROVE  /\ FlattenSeq(q) \in Seq(S)
         /\ FlattenSeq(Append(q, e)) = FlattenSeq(q) \o e
<1> DEFINE k == Len(q)
           a == Append(q, e)
<1>1. /\ k \in Nat /\ a \in Seq(Seq(S)) /\ Len(a) = k + 1 /\ a[k + 1] = e
      /\ \A i \in 1 .. k : a[i] = q[i] /\ q[i] \in Seq(S)
  BY AppendProperties, ElementOfSeq
<1> HIDE DEF k, a
<1>2. PICK g : /\ g = [i \in 1 .. Len(a) |-> IF i = 1 THEN a[i] ELSE g[i - 1] \o a[i]]
               /\ FlattenSeq(a) = g[Len(a)]
  <2>1. Len(a) \in Nat \ {0}
    BY <1>1
  <2> QED BY <2>1, FlattenFunction
<1>3. ASSUME NEW i \in 1 .. k + 1 PROVE g[i] = IF i = 1 THEN a[i] ELSE g[i - 1] \o a[i]
  BY <1>1, <1>2, Zenon
<1>4. CASE k = 0
  <2>1. q = <<>>
    BY <1>1, <1>4 DEF k
  <2>2. FlattenSeq(q) = <<>>
    BY <2>1 DEF FlattenSeq
  <2>3. FlattenSeq(a) = e
    <3>1. 1 \in 1 .. k + 1 /\ k + 1 = 1
      BY <1>4
    <3> QED BY <1>1, <1>2, <1>3, <3>1
  <2>4. <<>> \in Seq(S) /\ <<>> \o e = e
    BY ConcatEmptySeq
  <2> QED BY <2>2, <2>3, <2>4 DEF a
<1>5. CASE k # 0
  <2>1. PICK f : /\ f = [i \in 1 .. Len(q) |-> IF i = 1 THEN q[i] ELSE f[i - 1] \o q[i]]
                 /\ FlattenSeq(q) = f[Len(q)]
    <3>1. Len(q) \in Nat \ {0}
      BY <1>1, <1>5 DEF k
    <3> QED BY <3>1, FlattenFunction
  <2>2. ASSUME NEW i \in 1 .. k PROVE f[i] = IF i = 1 THEN q[i] ELSE f[i - 1] \o q[i]
    BY <2>1, Zenon DEF k
  <2> DEFINE T == {0} \cup {i \in 1 .. k : f[i] = g[i] /\ f[i] \in Seq(S)}
  <2>3. ASSUME NEW m \in 0 .. k - 1, m \in T PROVE m + 1 \in T
    <3>1. m + 1 \in 1 .. k /\ m + 1 \in 1 .. k + 1 /\ (m + 1) - 1 = m
      BY <1>1
    <3>2. a[m + 1] = q[m + 1] /\ q[m + 1] \in Seq(S)
      BY <1>1, <3>1
    <3>3. CASE m = 0
      <4>1. f[1] = q[1] /\ g[1] = a[1]
        BY <2>2, <1>3, <3>1, <3>3
      <4> QED BY <3>1, <3>2, <3>3, <4>1
    <3>4. CASE m # 0
      <4>1. m + 1 # 1 /\ f[m] = g[m] /\ f[m] \in Seq(S)
        BY <2>3, <3>4, <1>1
      <4>2. f[m + 1] = f[m] \o q[m + 1]
        BY <2>2, <3>1, <4>1, Zenon
      <4>3. g[m + 1] = g[m] \o a[m + 1]
        BY <1>3, <3>1, <4>1, Zenon
      <4>4. f[m] \o q[m + 1] \in Seq(S)
        BY <3>2, <4>1, ConcatProperties
      <4> QED BY <3>1, <3>2, <4>1, <4>2, <4>3, <4>4
    <3> QED BY <3>3, <3>4
  <2>4. k \in T
    <3>1. 0 \in T /\ k \in 0 .. k
      BY <1>1
    <3> HIDE DEF T
    <3> QED BY <1>1, <2>3, <3>1, BoundedInduction
  <2>5. f[k] = g[k] /\ f[k] \in Seq(S)
    BY <1>5, <2>4
  <2>6. g[k + 1] = g[k] \o e
    <3>1. k + 1 \in 1 .. k + 1 /\ k + 1 # 1 /\ (k + 1) - 1 = k
      BY <1>1, <1>5
    <3> QED BY <1>1, <1>3, <3>1, Zenon
  <2> QED BY <1>1, <1>2, <2>1, <2>5, <2>6 DEF a, k
<1> QED BY <1>4, <1>5

=============================================================================
