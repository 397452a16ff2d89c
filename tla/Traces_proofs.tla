---------------------------- MODULE Traces_proofs ----------------------------
(***************************************************************************)
(* Proofs about Traces, for all programs, page sizes, buffers and quanta:  *)
(* what a flush and a fork write, how the file and the buffer of a process *)
(* keep the order of its last uses, that each process begins once, and     *)
(* that some memory of each process explains its file, from which the      *)
(* trace implements module TraceMemory.                                    *)
(***************************************************************************)
EXTENDS Traces, QueueLemmas

LEMMA Sizes1 ==
  /\ SimPageSize \in Nat \ {0} /\ BufSize \in Nat \ {0}
  /\ Types \subseteq {"I", "L", "S", "M"} /\ Unknown \notin Val
  /\ \A page \in Pages \cup {MarkerPage} : page \in Nat
  BY SimplifyAssumption

-----------------------------------------------------------------------------
(* Addresses, lines and the activations                                    *)

Written == [type : Types \cup {"S"}, addr : Addr, value : Val]
ForkLine(P) == [type : {"F"}, addr : P, value : {0}]
FileLine(P) == Written \cup ForkLine(P)
Acts(P) ==
  [pid : P, found : BOOLEAN, ignore : BOOLEAN, as : AsMap, buf : Seq(Line),
   file : Seq(FileLine(P)),
   at : {"before", "user", "fork369", "fork", "parent", "child", "registered", "again",
         "ended", "ended again"}]

LEMMA LineFields ==
  ASSUME NEW l \in Line
  PROVE  /\ l.type \in Types \cup {"S"} /\ l.page \in Nat /\ l.off \in 0 .. SimPageSize - 1
         /\ AddrOf(l) \in Addr /\ PageOf(AddrOf(l)) = l.page /\ l.type # "F"
<1>1. /\ l.type \in Types \cup {"S"} /\ l.page \in Pages \cup {MarkerPage}
      /\ l.off \in 0 .. SimPageSize - 1
  BY DEF Line
<1>2. l.page \in Nat
  BY <1>1, Sizes1
<1>3. AddrOf(l) \in Addr
  BY DEF Addr
<1>4. PageOf(AddrOf(l)) = l.page
  <2> DEFINE n == l.page
             o == l.off
             k == SimPageSize
             q == (n * k + o) \div k
  <2>1. n \in Nat /\ o \in 0 .. k - 1 /\ k \in Nat \ {0}
    BY <1>1, <1>2, Sizes1
  <2>2. PageOf(AddrOf(l)) = q
    BY DEF PageOf, AddrOf
  <2> HIDE DEF n, o, k
  <2>3. n * k \in Nat /\ n * k + o \in Nat
    BY <2>1
  <2>4. q \in Nat /\ k * q <= n * k + o /\ n * k + o < k * q + k
    BY <2>1, <2>3
  <2> HIDE DEF q
  <2>5. \A x, y, z \in Nat : x >= y => x * z >= y * z
    OBVIOUS
  <2>6. ~(q >= n + 1)
    <3> SUFFICES ASSUME q >= n + 1 PROVE FALSE
      OBVIOUS
    <3>1. q * k >= (n + 1) * k /\ (n + 1) * k = n * k + k /\ k * q = q * k
      BY <2>1, <2>4, <2>5
    <3> QED BY <2>1, <2>3, <2>4, <3>1
  <2>7. ~(n >= q + 1)
    <3> SUFFICES ASSUME n >= q + 1 PROVE FALSE
      OBVIOUS
    <3>1. n * k >= (q + 1) * k /\ (q + 1) * k = q * k + k /\ k * q = q * k
      BY <2>1, <2>4, <2>5
    <3> QED BY <2>1, <2>3, <2>4, <3>1
  <2>8. q = n
    BY <2>1, <2>4, <2>6, <2>7
  <2> QED BY <2>2, <2>8 DEF n
<1>5. l.type # "F"
  BY <1>1, Sizes1
<1> QED BY <1>1, <1>2, <1>3, <1>4, <1>5

(* What a line does to the memory of its process: a load finds there what  *)
(* it says, unless nothing is known.                                       *)
Follows(before, l, after) ==
  /\ l.type \in {"I", "L"} => before[l.addr] \in {l.value, Unknown}
  /\ after = [before EXCEPT ![l.addr] = l.value]

(* A line written out with the value random or the one that is known.      *)
LEMMA WriteOutEffect ==
  ASSUME NEW P, NEW f \in Acts(P), NEW l \in Line, NEW random \in Val
  PROVE  LET r == WriteOut(f, l, random)
             x == [type |-> l.type, addr |-> AddrOf(l), value |-> GetSimulValue(f.as, l, random)]
         IN  /\ r \in Acts(P) /\ r.buf = f.buf /\ r.pid = f.pid /\ r.at = f.at
             /\ r.found = f.found /\ r.ignore = f.ignore
             /\ x \in Written /\ r.file = Append(f.file, x) /\ Follows(f.as, x, r.as)
<1> DEFINE v == GetSimulValue(f.as, l, random)
           a == AddrOf(l)
           x == [type |-> l.type, addr |-> a, value |-> v]
           as == [f.as EXCEPT ![a] = v]
           file == Append(f.file, x)
           r == WriteOut(f, l, random)
<1>1. a \in Addr /\ l.type \in Types \cup {"S"}
  BY LineFields
<1>2. f.as \in AsMap /\ f.file \in Seq(FileLine(P))
  BY DEF Acts
<1>3. v \in Val /\ (l.type \in {"I", "L"} => f.as[a] \in {v, Unknown})
  <2>1. f.as[a] \in Val \cup {Unknown}
    BY <1>1, <1>2 DEF AsMap
  <2> QED BY <2>1 DEF GetSimulValue, AsMapHas
<1>4. r = [f EXCEPT !.as = as, !.file = file]
  BY DEF WriteOut, AsMapPut
<1> HIDE DEF v, a
<1>5. x \in Written
  BY <1>1, <1>3 DEF Written
<1>6. as \in AsMap
  BY <1>1, <1>2, <1>3 DEF AsMap
<1>7. Follows(f.as, x, as)
  BY <1>3 DEF Follows
<1> HIDE DEF x
<1>8. file \in Seq(FileLine(P))
  BY <1>2, <1>5 DEF FileLine
<1> HIDE DEF as, file, r
<1>9. r \in Acts(P)
  BY <1>4, <1>6, <1>8 DEF Acts
<1>10. /\ r.buf = f.buf /\ r.pid = f.pid /\ r.at = f.at /\ r.found = f.found
       /\ r.ignore = f.ignore /\ r.as = as /\ r.file = file
  BY <1>4 DEF Acts
<1> QED BY <1>5, <1>7, <1>9, <1>10 DEF r, file, x, v, a

-----------------------------------------------------------------------------
(* A flush                                                                 *)

(* The function FlushWriter is defined by.                                 *)
LEMMA FlushFunction ==
  ASSUME NEW f, NEW random, Len(f.buf) \in Nat
  PROVE  \E out : /\ DOMAIN out = 0 .. Len(f.buf) /\ out[0] = f
                  /\ \A i \in 1 .. Len(f.buf) : out[i] = WriteOut(out[i - 1], f.buf[i], random[i])
                  /\ FlushWriter(f, random) = [out[Len(f.buf)] EXCEPT !.buf = <<>>]
<1> DEFINE k == Len(f.buf)
           Next0(i, g) == WriteOut(g, f.buf[i], random[i])
           T == {m \in Nat : \E out : out = [i \in 0 .. m |-> IF i = 0 THEN f ELSE Next0(i, out[i - 1])]}
<1> HIDE DEF Next0
<1>1. 0 \in T
  <2> DEFINE g == [i \in 0 .. 0 |-> f]
  <2>1. g = [i \in 0 .. 0 |-> IF i = 0 THEN f ELSE Next0(i, g[i - 1])]
    OBVIOUS
  <2> HIDE DEF g
  <2>2. \E out : out = [i \in 0 .. 0 |-> IF i = 0 THEN f ELSE Next0(i, out[i - 1])]
    BY <2>1, Zenon
  <2> QED BY <2>2
<1>2. ASSUME NEW m \in 0 .. k - 1, m \in T PROVE m + 1 \in T
  <2>0. m \in Nat
    OBVIOUS
  <2>1. PICK out : out = [i \in 0 .. m |-> IF i = 0 THEN f ELSE Next0(i, out[i - 1])]
    BY <1>2
  <2>2. ASSUME NEW i \in 0 .. m PROVE out[i] = IF i = 0 THEN f ELSE Next0(i, out[i - 1])
    BY <2>1, Zenon
  <2> DEFINE g == [i \in 0 .. m + 1 |->
                     IF i <= m THEN out[i] ELSE IF i = 0 THEN f ELSE Next0(i, out[i - 1])]
  <2>3. ASSUME NEW i \in 0 .. m + 1 PROVE g[i] = IF i = 0 THEN f ELSE Next0(i, g[i - 1])
    <3>1. CASE i = 0
      BY <2>0, <2>2, <3>1
    <3>2. CASE i # 0
      <4>1. i - 1 \in 0 .. m + 1 /\ i - 1 <= m /\ g[i - 1] = out[i - 1]
        BY <2>0, <3>2
      <4>2. i <= m => out[i] = Next0(i, out[i - 1])
        <5>1. i <= m => i \in 0 .. m
          BY <2>0
        <5> QED BY <2>2, <3>2, <5>1, Zenon
      <4> QED BY <3>2, <4>1, <4>2
    <3> QED BY <3>1, <3>2
  <2>4. g = [i \in 0 .. m + 1 |-> g[i]]
    OBVIOUS
  <2> HIDE DEF g
  <2>5. g = [i \in 0 .. m + 1 |-> IF i = 0 THEN f ELSE Next0(i, g[i - 1])]
    BY <2>3, <2>4
  <2>6. m + 1 \in Nat
    BY <2>0
  <2> QED BY <2>5, <2>6, Zenon
<1>3. k \in T
  <2>1. k \in Nat /\ k \in 0 .. k
    OBVIOUS
  <2> HIDE DEF T, k
  <2> QED BY <1>1, <1>2, <2>1, BoundedInduction
<1> DEFINE F == CHOOSE out : out = [i \in 0 .. k |-> IF i = 0 THEN f ELSE Next0(i, out[i - 1])]
<1>4. F = [i \in 0 .. k |-> IF i = 0 THEN f ELSE Next0(i, F[i - 1])]
  BY <1>3
<1>5. FlushWriter(f, random) = [F[k] EXCEPT !.buf = <<>>]
  BY DEF FlushWriter, Next0
<1> HIDE DEF F
<1>6. DOMAIN F = 0 .. k
  BY <1>4
<1>7. ASSUME NEW i \in 0 .. k PROVE F[i] = IF i = 0 THEN f ELSE Next0(i, F[i - 1])
  BY <1>4, Zenon
<1>8. F[0] = f
  <2>1. 0 \in 0 .. k
    OBVIOUS
  <2> QED BY <1>7, <2>1, Zenon
<1>9. \A i \in 1 .. k : F[i] = Next0(i, F[i - 1])
  <2> SUFFICES ASSUME NEW i \in 1 .. k PROVE F[i] = Next0(i, F[i - 1])
    OBVIOUS
  <2>1. i \in 0 .. k /\ i # 0
    OBVIOUS
  <2> QED BY <1>7, <2>1, Zenon
<1> QED BY <1>5, <1>6, <1>8, <1>9 DEF Next0

(* The lines of the buffer follow those of the file, each with a value     *)
(* that a memory might hold which was as before the flush and is as the    *)
(* activation says after it.                                               *)
WrittenOut(f, r) ==
  /\ Len(r.file) = Len(f.file) + Len(f.buf)
  /\ \A i \in 1 .. Len(f.file) : r.file[i] = f.file[i]
  /\ \A i \in 1 .. Len(f.buf) :
       LET x == r.file[Len(f.file) + i]
       IN  x \in Written /\ x.type = f.buf[i].type /\ x.addr = AddrOf(f.buf[i])
SameActivation(f, r) ==
  r.pid = f.pid /\ r.at = f.at /\ r.found = f.found /\ r.ignore = f.ignore
Explained(f, r) ==
  \E m \in [0 .. Len(f.buf) -> AsMap] :
    /\ m[0] = f.as /\ m[Len(f.buf)] = r.as
    /\ \A i \in 1 .. Len(f.buf) : Follows(m[i - 1], r.file[Len(f.file) + i], m[i])

LEMMA FlushEffect ==
  ASSUME NEW P, NEW f \in Acts(P), NEW random \in Random, Len(f.buf) <= BufSize
  PROVE  LET r == FlushWriter(f, random)
         IN  r \in Acts(P) /\ r.buf = <<>> /\ SameActivation(f, r) /\ WrittenOut(f, r) /\ Explained(f, r)
<1> DEFINE k == Len(f.buf)
           n == Len(f.file)
           r == FlushWriter(f, random)
<1>1. /\ f.buf \in Seq(Line) /\ f.file \in Seq(FileLine(P)) /\ f.as \in AsMap
      /\ k \in Nat /\ n \in Nat /\ \A i \in 1 .. k : f.buf[i] \in Line
  <2>1. f.buf \in Seq(Line) /\ f.file \in Seq(FileLine(P)) /\ f.as \in AsMap
    BY DEF Acts
  <2> QED BY <2>1, LenProperties, ElementOfSeq
<1>2. PICK out : /\ DOMAIN out = 0 .. k /\ out[0] = f
                 /\ \A i \in 1 .. k : out[i] = WriteOut(out[i - 1], f.buf[i], random[i])
                 /\ r = [out[k] EXCEPT !.buf = <<>>]
  BY <1>1, FlushFunction
<1>3. \A i \in 1 .. k : random[i] \in Val
  BY <1>1, Sizes1 DEF Random
<1> HIDE DEF k, n
<1> DEFINE Good(g) == /\ g \in Acts(P) /\ g.pid = f.pid /\ g.at = f.at /\ g.found = f.found
                      /\ g.ignore = f.ignore
           T == {i \in 0 .. k : Good(out[i])}
<1>4. ASSUME NEW i \in 1 .. k, Good(out[i - 1])
      PROVE  /\ Good(out[i])
             /\ \E x \in Written :
                  /\ x.type = f.buf[i].type /\ x.addr = AddrOf(f.buf[i])
                  /\ out[i].file = Append(out[i - 1].file, x) /\ Follows(out[i - 1].as, x, out[i].as)
  <2> DEFINE g == out[i - 1]
             l == f.buf[i]
             h == out[i]
             x == [type |-> l.type, addr |-> AddrOf(l), value |-> GetSimulValue(g.as, l, random[i])]
  <2>1. h = WriteOut(g, l, random[i]) /\ g \in Acts(P) /\ l \in Line /\ random[i] \in Val
    BY <1>1, <1>2, <1>3, <1>4
  <2>2. x.type = l.type /\ x.addr = AddrOf(l)
    OBVIOUS
  <2> HIDE DEF g, l, h
  <2>3. /\ h \in Acts(P) /\ h.pid = g.pid /\ h.at = g.at /\ h.found = g.found /\ h.ignore = g.ignore
        /\ x \in Written /\ h.file = Append(g.file, x) /\ Follows(g.as, x, h.as)
    BY <2>1, WriteOutEffect
  <2> HIDE DEF x
  <2>4. Good(h)
    BY <1>4, <2>3, Zenon DEF g
  <2> HIDE DEF Good
  <2> QED BY <2>2, <2>3, <2>4 DEF g, l, h
<1>5. \A i \in 0 .. k : Good(out[i])
  <2>1. 0 \in T
    BY <1>1, <1>2
  <2>2. ASSUME NEW m \in 0 .. k - 1, m \in T PROVE m + 1 \in T
    <3>1. m + 1 \in 1 .. k /\ (m + 1) - 1 = m
      BY <1>1
    <3> HIDE DEF Good
    <3>2. Good(out[(m + 1) - 1])
      BY <2>2, <3>1
    <3>3. Good(out[m + 1])
      BY <1>4, <3>1, <3>2
    <3> QED BY <3>1, <3>3, <1>1
  <2> HIDE DEF T
  <2>3. 0 .. k \subseteq T
    BY <1>1, <2>1, <2>2, BoundedInduction
  <2> QED BY <2>3 DEF T
<1> DEFINE Lines(i) ==
             /\ out[i].file \in Seq(FileLine(P)) /\ Len(out[i].file) = n + i
             /\ \A j \in 1 .. n : out[i].file[j] = f.file[j]
             /\ \A j \in 1 .. i :
                  /\ out[i].file[n + j] \in Written
                  /\ out[i].file[n + j].type = f.buf[j].type
                  /\ out[i].file[n + j].addr = AddrOf(f.buf[j])
                  /\ Follows(out[j - 1].as, out[i].file[n + j], out[j].as)
           L == {i \in 0 .. k : Lines(i)}
<1>6. \A i \in 0 .. k : Lines(i)
  <2>1. 0 \in L
    BY <1>1, <1>2 DEF n
  <2>2. ASSUME NEW m \in 0 .. k - 1, m \in L PROVE m + 1 \in L
    <3>1. m + 1 \in 1 .. k /\ (m + 1) - 1 = m /\ m \in Nat /\ m \in 0 .. k /\ m + 1 \in 0 .. k
      BY <1>1
    <3>2. PICK x \in Written :
            /\ x.type = f.buf[m + 1].type /\ x.addr = AddrOf(f.buf[m + 1])
            /\ out[m + 1].file = Append(out[m].file, x) /\ Follows(out[m].as, x, out[m + 1].as)
      <4> HIDE DEF Good
      <4>1. Good(out[(m + 1) - 1])
        BY <1>5, <3>1
      <4> QED BY <1>4, <3>1, <4>1
    <3> DEFINE old == out[m].file
               new == out[m + 1].file
    <3>3. old \in Seq(FileLine(P)) /\ Len(old) = n + m /\ x \in FileLine(P)
      BY <2>2 DEF FileLine
    <3>4. new = Append(old, x)
      BY <3>2
    <3> HIDE DEF new
    <3>5. /\ new \in Seq(FileLine(P)) /\ Len(new) = n + m + 1 /\ new[n + m + 1] = x
          /\ \A j \in 1 .. n + m : new[j] = old[j]
      <4> HIDE DEF old
      <4> QED BY <1>1, <3>1, <3>3, <3>4, AppendProperties
    <3>6. Lines(m + 1)
      <4>1. \A j \in 1 .. n : new[j] = f.file[j]
        BY <1>1, <2>2, <3>1, <3>5
      <4>2. ASSUME NEW j \in 1 .. m + 1
            PROVE  /\ new[n + j] \in Written
                   /\ new[n + j].type = f.buf[j].type
                   /\ new[n + j].addr = AddrOf(f.buf[j])
                   /\ Follows(out[j - 1].as, new[n + j], out[j].as)
        <5>1. CASE j = m + 1
          <6>1. new[n + j] = x /\ j - 1 = m
            BY <1>1, <3>1, <3>5, <5>1
          <6> QED BY <3>2, <5>1, <6>1
        <5>2. CASE j # m + 1
          <6>1. j \in 1 .. m /\ n + j \in 1 .. n + m /\ new[n + j] = old[n + j]
            BY <1>1, <3>1, <3>5, <5>2
          <6> QED BY <2>2, <6>1
        <5> QED BY <5>1, <5>2
      <4> QED BY <1>1, <3>1, <3>5, <4>1, <4>2 DEF new
    <3> QED BY <3>1, <3>6
  <2> HIDE DEF L
  <2>3. 0 .. k \subseteq L
    BY <1>1, <2>1, <2>2, BoundedInduction
  <2> QED BY <2>3 DEF L
<1> DEFINE last == out[k]
<1>7. last \in Acts(P) /\ SameActivation(f, last) /\ Lines(k)
  <2>1. k \in 0 .. k
    BY <1>1
  <2> QED BY <1>5, <1>6, <2>1 DEF SameActivation
<1>8. r = [last EXCEPT !.buf = <<>>]
  BY <1>2
<1> HIDE DEF r
<1>9. /\ r \in Acts(P) /\ r.buf = <<>> /\ r.file = last.file /\ r.as = last.as /\ r.pid = last.pid
      /\ r.at = last.at /\ r.found = last.found /\ r.ignore = last.ignore
  <2> HIDE DEF last
  <2>1. <<>> \in Seq(Line)
    OBVIOUS
  <2> QED BY <1>7, <1>8, <2>1 DEF Acts
<1>10. SameActivation(f, r)
  BY <1>7, <1>9, Zenon DEF SameActivation
<1>11. WrittenOut(f, r)
  BY <1>7, <1>9 DEF WrittenOut, k, n
<1>12. Explained(f, r)
  <2> DEFINE m == [i \in 0 .. k |-> out[i].as]
  <2>1. \A i \in 0 .. k : out[i].as \in AsMap
    BY <1>5 DEF Acts
  <2>2. m \in [0 .. k -> AsMap]
    BY <2>1
  <2>3. m[0] = f.as /\ m[k] = r.as
    BY <1>1, <1>2, <1>9
  <2>4. ASSUME NEW i \in 1 .. k PROVE Follows(m[i - 1], r.file[n + i], m[i])
    <3>1. m[i - 1] = out[i - 1].as /\ m[i] = out[i].as
      BY <1>1
    <3> QED BY <1>7, <1>9, <3>1
  <2> HIDE DEF m
  <2> QED BY <2>2, <2>3, <2>4 DEF Explained, k, n
<1> QED BY <1>9, <1>10, <1>11, <1>12 DEF r

-----------------------------------------------------------------------------
(* The buffer, and the order of the last uses                              *)

Renewed(buf, l, b) ==
  \/ b = Append(buf, l)
  \/ \E q \in 1 .. Len(buf) :
       /\ Key(buf[q]) = Key(l) /\ Len(b) = Len(buf) /\ Key(b[Len(buf)]) = Key(l)
       /\ \A i \in 1 .. Len(buf) - 1 : b[i] = IF i < q THEN buf[i] ELSE buf[i + 1]

LEMMA BufferedEffect ==
  ASSUME NEW buf \in Seq(Line), NEW l \in Line
  PROVE  /\ Buffered(buf, l) \in Seq(Line) /\ Len(Buffered(buf, l)) <= Len(buf) + 1
         /\ Renewed(buf, l, Buffered(buf, l))
<1> DEFINE I == {i \in 1 .. Len(buf) : Key(buf[i]) = Key(l)}
           q == Min(I)
           r == RemoveAt(buf, q)
           hits == SelectInSeq(buf, LAMBDA x : Key(x) = Key(l))
           b == Buffered(buf, l)
<1>0. Len(buf) \in Nat
  OBVIOUS
<1>1. hits = IF I # {} THEN Min(I) ELSE 0
  BY DEF SelectInSeq
<1>2. b = IF hits = 0 THEN Append(buf, l) ELSE Append(RemoveAt(buf, hits), buf[hits])
  BY DEF Buffered
<1>3. CASE I = {}
  <2>1. b = Append(buf, l)
    BY <1>1, <1>2, <1>3
  <2> HIDE DEF b
  <2>2. b \in Seq(Line) /\ Len(b) = Len(buf) + 1
    BY <2>1, AppendProperties
  <2> QED BY <1>0, <2>1, <2>2 DEF Renewed, b
<1>4. CASE I # {}
  <2>1. I \in SUBSET Nat
    BY <1>0
  <2>2. q \in I
    BY <1>4, <2>1, LeastNumber
  <2>3. q \in 1 .. Len(buf) /\ Key(buf[q]) = Key(l) /\ q # 0
    BY <1>0, <2>2
  <2>4. hits = q
    BY <1>1, <1>4
  <2> HIDE DEF I, q, hits
  <2>5. /\ r \in Seq(Line) /\ Len(r) = Len(buf) - 1
        /\ \A i \in 1 .. Len(buf) - 1 : r[i] = IF i < q THEN buf[i] ELSE buf[i + 1]
    BY <2>3, RemoveAtPlaces
  <2>6. b = Append(r, buf[q])
    BY <1>2, <2>3, <2>4
  <2>7. buf[q] \in Line
    BY <2>3, ElementOfSeq
  <2> DEFINE x == buf[q]
  <2> HIDE DEF b, r, x
  <2>8. b = Append(r, x) /\ x \in Line
    BY <2>6, <2>7 DEF x
  <2>9. /\ b \in Seq(Line) /\ Len(b) = Len(buf) /\ b[Len(buf)] = x
        /\ \A i \in 1 .. Len(buf) - 1 : b[i] = r[i]
    BY <1>0, <2>3, <2>5, <2>8, AppendProperties
  <2>10. Renewed(buf, l, b)
    BY <2>3, <2>5, <2>9 DEF Renewed, x
  <2> QED BY <1>0, <2>9, <2>10 DEF b
<1> QED BY <1>3, <1>4

(* A use of k at place m, after all others; the places before are those of *)
(* the old uses, in their order, and at most uses of k are gone.           *)
UsedLater(uses, new, k, m, h) ==
  /\ DOMAIN new \subseteq Int /\ m \in DOMAIN new /\ new[m] = k /\ \A i \in DOMAIN new : i <= m
  /\ \A i \in DOMAIN new \ {m} : h[i] \in DOMAIN uses /\ new[i] = uses[h[i]]
  /\ \A i, j \in DOMAIN new \ {m} : i <= j => h[i] <= h[j]
  /\ \A x \in DOMAIN uses : uses[x] # k => \E i \in DOMAIN new \ {m} : h[i] = x

LEMMA UsedAgain ==
  ASSUME NEW S, NEW keys \in Seq(S), NEW uses, NEW new, NEW k \in S, NEW m, NEW h,
         InOrderOfLastUse(keys, uses), UsedLater(uses, new, k, m, h)
  PROVE  /\ Append(RemoveFirst(keys, k), k) \in Seq(S)
         /\ InOrderOfLastUse(Append(RemoveFirst(keys, k), k), new)
<1>0. /\ DOMAIN new \subseteq Int /\ m \in DOMAIN new /\ new[m] = k
      /\ \A i \in DOMAIN new : i <= m
      /\ \A i \in DOMAIN new \ {m} : h[i] \in DOMAIN uses /\ new[i] = uses[h[i]]
      /\ \A i, j \in DOMAIN new \ {m} : i <= j => h[i] <= h[j]
      /\ \A x \in DOMAIN uses : uses[x] # k => \E i \in DOMAIN new \ {m} : h[i] = x
  BY DEF UsedLater
<1> DEFINE r == RemoveFirst(keys, k)
           a == Append(r, k)
<1>1. /\ IsInjective(keys) /\ ToSet(keys) = Range(uses)
      /\ \A i, j \in DOMAIN keys : i < j =>
           \E b \in DOMAIN uses :
             uses[b] = keys[j] /\ \A c \in DOMAIN uses : c >= b => uses[c] # keys[i]
  BY DEF InOrderOfLastUse
<1>2. r \in Seq(S) /\ IsInjective(r) /\ ToSet(r) = ToSet(keys) \ {k}
  BY <1>1, QueueRemove
<1>3. a \in Seq(S) /\ IsInjective(a) /\ ToSet(a) = ToSet(r) \cup {k}
  <2> HIDE DEF r
  <2> QED BY <1>2, QueueAppend
<1>4. ToSet(a) = Range(new)
  <2>1. ASSUME NEW x \in DOMAIN new PROVE new[x] \in ToSet(keys) \cup {k}
    <3>1. CASE x = m
      BY <1>0, <3>1
    <3>2. CASE x # m
      BY <1>0, <1>1, <3>2 DEF Range
    <3> QED BY <3>1, <3>2
  <2>2. ASSUME NEW y \in ToSet(keys), y # k PROVE y \in Range(new)
    <3>1. PICK x \in DOMAIN uses : uses[x] = y
      BY <1>1, <2>2 DEF Range
    <3>2. PICK i \in DOMAIN new \ {m} : h[i] = x
      BY <1>0, <2>2, <3>1
    <3> QED BY <1>0, <3>1, <3>2 DEF Range
  <2>3. k \in Range(new)
    BY <1>0 DEF Range
  <2>4. \A y \in Range(new) : y \in ToSet(keys) \cup {k}
    BY <2>1 DEF Range
  <2> QED BY <1>2, <1>3, <2>2, <2>3, <2>4
<1>5. Len(keys) \in Nat /\ DOMAIN keys = 1 .. Len(keys) /\ Len(r) \in Nat /\ DOMAIN r = 1 .. Len(r)
  BY <1>2
<1>6. /\ \A i \in 1 .. Len(r) : a[i] = r[i]
      /\ a[Len(r) + 1] = k /\ DOMAIN a = 1 .. Len(r) + 1
  <2> HIDE DEF r
  <2> QED BY <1>2, AppendProperties
<1>7. PICK e \in [1 .. Len(r) -> 1 .. Len(keys)] :
        /\ \A i \in 1 .. Len(r) : r[i] = keys[e[i]]
        /\ \A i, j \in 1 .. Len(r) : i < j => e[i] < e[j]
  <2>1. CASE \E p \in 1 .. Len(keys) : keys[p] = k
    <3>1. PICK p \in 1 .. Len(keys) : keys[p] = k
      BY <2>1
    <3> DEFINE e == [i \in 1 .. Len(r) |-> IF i < p THEN i ELSE i + 1]
    <3>2. /\ Len(r) = Len(keys) - 1
          /\ \A i \in 1 .. Len(keys) - 1 : r[i] = IF i < p THEN keys[i] ELSE keys[i + 1]
      <4> DEFINE w == RemoveFirst(keys, keys[p])
      <4>1. /\ Len(w) = Len(keys) - 1
            /\ \A i \in 1 .. Len(keys) - 1 : w[i] = IF i < p THEN keys[i] ELSE keys[i + 1]
        BY <1>1, RemovedPlace
      <4>2. w = r
        BY <3>1
      <4> HIDE DEF w, r
      <4> QED BY <4>1, <4>2
    <3> HIDE DEF r
    <3>3. e \in [1 .. Len(r) -> 1 .. Len(keys)]
      BY <1>5, <3>2
    <3>4. \A i \in 1 .. Len(r) : r[i] = keys[e[i]]
      BY <1>5, <3>2
    <3>5. \A i, j \in 1 .. Len(r) : i < j => e[i] < e[j]
      BY <1>5, <3>2
    <3> HIDE DEF e
    <3> QED BY <3>3, <3>4, <3>5
  <2>2. CASE ~\E p \in 1 .. Len(keys) : keys[p] = k
    <3>1. r = keys
      BY <2>2 DEF RemoveFirst
    <3> DEFINE e == [i \in 1 .. Len(r) |-> i]
    <3>2. /\ e \in [1 .. Len(r) -> 1 .. Len(keys)]
          /\ \A i \in 1 .. Len(r) : r[i] = keys[e[i]]
          /\ \A i, j \in 1 .. Len(r) : i < j => e[i] < e[j]
      BY <1>5, <3>1
    <3> HIDE DEF e, r
    <3> QED BY <3>2
  <2> QED BY <2>1, <2>2
<1> HIDE DEF r, a
<1>8. ASSUME NEW i \in DOMAIN a, NEW j \in DOMAIN a, i < j
      PROVE  \E b \in DOMAIN new :
               new[b] = a[j] /\ \A c \in DOMAIN new : c >= b => new[c] # a[i]
  <2>0. i \in 1 .. Len(r) /\ a[i] = r[i] /\ r[i] # k
    <3>1. i \in 1 .. Len(r)
      BY <1>5, <1>6, <1>8
    <3>2. r[i] \in ToSet(r)
      BY <1>5, <3>1 DEF ToSet
    <3> QED BY <1>2, <1>6, <3>1, <3>2
  <2>1. CASE j = Len(r) + 1
    <3>1. a[j] = k
      BY <1>6, <2>1
    <3>2. \A c \in DOMAIN new : c >= m => c = m
      BY <1>0
    <3> QED BY <1>0, <2>0, <3>1, <3>2
  <2>2. CASE j # Len(r) + 1
    <3>1. j \in 1 .. Len(r) /\ a[j] = r[j]
      BY <1>5, <1>6, <2>2
    <3>2. r[j] # k
      <4>1. r[j] \in ToSet(r)
        BY <1>5, <3>1 DEF ToSet
      <4> QED BY <1>2, <4>1
    <3>3. e[i] \in DOMAIN keys /\ e[j] \in DOMAIN keys /\ e[i] < e[j]
      BY <1>5, <1>7, <1>8, <2>0, <3>1
    <3>4. PICK b \in DOMAIN uses :
            uses[b] = keys[e[j]] /\ \A c \in DOMAIN uses : c >= b => uses[c] # keys[e[i]]
      BY <1>1, <3>3
    <3>5. keys[e[j]] = r[j] /\ keys[e[i]] = r[i]
      BY <1>7, <2>0, <3>1
    <3>6. PICK d \in DOMAIN new \ {m} : h[d] = b
      BY <1>0, <3>2, <3>4, <3>5
    <3>7. new[d] = a[j]
      BY <1>0, <3>1, <3>4, <3>5, <3>6
    <3>8. ASSUME NEW c \in DOMAIN new, c >= d PROVE new[c] # a[i]
      <4>1. CASE c = m
        BY <1>0, <2>0, <4>1
      <4>2. CASE c # m
        <5>1. h[d] <= h[c]
          BY <1>0, <3>8, <4>2
        <5>2. h[c] \in DOMAIN uses /\ new[c] = uses[h[c]]
          BY <1>0, <4>2
        <5>3. uses[h[c]] # keys[e[i]]
          BY <3>4, <3>6, <5>1, <5>2
        <5> QED BY <2>0, <3>5, <5>2, <5>3
      <4> QED BY <4>1, <4>2
    <3> QED BY <3>7, <3>8
  <2> QED BY <2>1, <2>2
<1>9. InOrderOfLastUse(a, new)
  BY <1>3, <1>4, <1>8 DEF InOrderOfLastUse
<1> QED BY <1>3, <1>9 DEF a, r

(* The uses that an activation has written and buffered, and how those     *)
(* follow each other when it reads, flushes or forks.                      *)
LEMMA UsesOf ==
  ASSUME NEW S, NEW T, NEW file \in Seq(S), NEW buf \in Seq(T)
  PROVE  /\ DOMAIN Uses(file, buf) \subseteq 1 .. Len(file) + Len(buf)
         /\ \A i \in 1 .. Len(file) : i \in DOMAIN Uses(file, buf) <=> file[i].type # "F"
         /\ \A i \in Len(file) + 1 .. Len(file) + Len(buf) : i \in DOMAIN Uses(file, buf)
         /\ \A i \in DOMAIN Uses(file, buf) :
              Uses(file, buf)[i] = IF i <= Len(file) THEN <<PageOf(file[i].addr), file[i].type>>
                                   ELSE Key(buf[i - Len(file)])
<1>1. Len(file) \in Nat /\ Len(buf) \in Nat
  OBVIOUS
<1> QED BY <1>1 DEF Uses

LEMMA UsesOfBuffered ==
  ASSUME NEW S, NEW file \in Seq(S), NEW buf \in Seq(Line), NEW l \in Line,
         NEW b \in Seq(Line), Renewed(buf, l, b),
         NEW K, NEW keys \in Seq(K), Key(l) \in K, InOrderOfLastUse(keys, Uses(file, buf))
  PROVE  /\ Append(RemoveFirst(keys, Key(l)), Key(l)) \in Seq(K)
         /\ InOrderOfLastUse(Append(RemoveFirst(keys, Key(l)), Key(l)), Uses(file, b))
<1> DEFINE k == Key(l)
           n == Len(file)
           c == Len(buf)
           uses == Uses(file, buf)
           new == Uses(file, b)
           m == n + Len(b)
           value(i) == <<PageOf(file[i].addr), file[i].type>>
<1>1. n \in Nat /\ c \in Nat /\ Len(b) \in Nat
  OBVIOUS
<1>2. /\ DOMAIN uses \subseteq 1 .. n + c
      /\ \A i \in 1 .. n : i \in DOMAIN uses <=> file[i].type # "F"
      /\ \A i \in n + 1 .. n + c : i \in DOMAIN uses
      /\ \A i \in DOMAIN uses : uses[i] = IF i <= n THEN value(i) ELSE Key(buf[i - n])
  BY UsesOf
<1>3. /\ DOMAIN new \subseteq 1 .. n + Len(b)
      /\ \A i \in 1 .. n : i \in DOMAIN new <=> file[i].type # "F"
      /\ \A i \in n + 1 .. n + Len(b) : i \in DOMAIN new
      /\ \A i \in DOMAIN new : new[i] = IF i <= n THEN value(i) ELSE Key(b[i - n])
  BY UsesOf
<1> HIDE DEF uses, new, value
<1>4. PICK h : /\ Len(b) > 0 /\ Key(b[Len(b)]) = k
               /\ \A i \in DOMAIN new \ {m} : h[i] \in DOMAIN uses /\ new[i] = uses[h[i]]
               /\ \A i, j \in DOMAIN new \ {m} : i <= j => h[i] <= h[j]
               /\ \A x \in DOMAIN uses : uses[x] # k => \E i \in DOMAIN new \ {m} : h[i] = x
  <2>1. CASE b = Append(buf, l)
    <3> DEFINE h == [i \in DOMAIN new |-> i]
    <3>1. /\ Len(b) = c + 1 /\ b[c + 1] = l
          /\ \A i \in 1 .. c : b[i] = buf[i]
      BY <2>1, AppendProperties
    <3>2. ASSUME NEW i \in DOMAIN new \ {m}
          PROVE  h[i] = i /\ i \in DOMAIN uses /\ new[i] = uses[i]
      <4>1. CASE i <= n
        BY <1>1, <1>2, <1>3, <4>1
      <4>2. CASE i > n
        <5>1. i \in n + 1 .. n + c /\ i - n \in 1 .. c
          BY <1>1, <1>3, <3>1, <4>2, SMTT(30)
        <5>2. b[i - n] = buf[i - n]
          BY <3>1, <5>1
        <5> QED BY <1>1, <1>2, <1>3, <4>2, <5>1, <5>2
      <4> QED BY <1>1, <1>3, <4>1, <4>2
    <3>3. ASSUME NEW x \in DOMAIN uses PROVE x \in DOMAIN new \ {m}
      <4>1. x \in 1 .. n + c /\ x # m
        BY <1>1, <1>2, <3>1
      <4>2. CASE x <= n
        <5>1. x \in 1 .. n
          BY <1>1, <4>1, <4>2
        <5> QED BY <1>2, <1>3, <4>1, <5>1
      <4>3. CASE x > n
        <5>1. x \in n + 1 .. n + Len(b)
          BY <1>1, <3>1, <4>1, <4>3
        <5> QED BY <1>3, <4>1, <5>1
      <4> QED BY <1>1, <4>1, <4>2, <4>3
    <3>4. Key(b[Len(b)]) = k /\ Len(b) > 0
      BY <1>1, <3>1
    <3>5. \A i \in DOMAIN new \ {m} : h[i] \in DOMAIN uses /\ new[i] = uses[h[i]]
      BY <3>2
    <3>6. \A i, j \in DOMAIN new \ {m} : i <= j => h[i] <= h[j]
      BY <3>2
    <3>7. \A x \in DOMAIN uses : uses[x] # k => \E i \in DOMAIN new \ {m} : h[i] = x
      BY <3>2, <3>3
    <3> HIDE DEF h, k, m
    <3> QED BY <3>4, <3>5, <3>6, <3>7
  <2>2. CASE \E q \in 1 .. c :
               /\ Key(buf[q]) = k /\ Len(b) = c /\ Key(b[c]) = k
               /\ \A i \in 1 .. c - 1 : b[i] = IF i < q THEN buf[i] ELSE buf[i + 1]
    <3>1. PICK q \in 1 .. c :
            /\ Key(buf[q]) = k /\ Len(b) = c /\ Key(b[c]) = k
            /\ \A i \in 1 .. c - 1 : b[i] = IF i < q THEN buf[i] ELSE buf[i + 1]
      BY <2>2
    <3> HIDE DEF k
    <3> DEFINE h == [i \in DOMAIN new |-> IF i < n + q THEN i ELSE i + 1]
    <3>2. ASSUME NEW i \in DOMAIN new \ {m}
          PROVE  /\ h[i] = (IF i < n + q THEN i ELSE i + 1) /\ i \in Nat
                 /\ h[i] \in DOMAIN uses /\ new[i] = uses[h[i]]
      <4>0. h[i] = (IF i < n + q THEN i ELSE i + 1) /\ i \in 1 .. n + c - 1
        BY <1>1, <1>3, <3>1, SMTT(30)
      <4>1. CASE i <= n
        BY <1>1, <1>2, <1>3, <3>1, <4>0, <4>1
      <4>2. CASE i > n /\ i < n + q
        <5>1. i \in n + 1 .. n + c /\ i - n \in 1 .. c - 1 /\ i - n < q
          BY <1>1, <3>1, <4>0, <4>2
        <5>2. b[i - n] = buf[i - n]
          BY <3>1, <5>1
        <5> QED BY <1>1, <1>2, <1>3, <4>0, <4>2, <5>1, <5>2
      <4>3. CASE i >= n + q
        <5>1. /\ i + 1 \in n + 1 .. n + c /\ i - n \in 1 .. c - 1 /\ ~(i - n < q)
              /\ (i - n) + 1 = (i + 1) - n
          BY <1>1, <3>1, <4>0, <4>3
        <5>2. b[i - n] = buf[(i + 1) - n]
          BY <3>1, <5>1
        <5>3. i > n /\ i + 1 > n /\ h[i] = i + 1
          BY <1>1, <4>0, <4>3
        <5> QED BY <1>1, <1>2, <1>3, <4>0, <5>1, <5>2, <5>3
      <4> QED BY <1>1, <4>0, <4>1, <4>2, <4>3
    <3>3. ASSUME NEW x \in DOMAIN uses, uses[x] # k
          PROVE  \E i \in DOMAIN new \ {m} : h[i] = x
      <4>0. x \in 1 .. n + c /\ x # n + q
        <5>1. x \in 1 .. n + c
          BY <1>2
        <5>2. ~(n + q <= n) /\ (n + q) - n = q
          BY <1>1
        <5>3. uses[n + q] = k
          <6>1. n + q \in n + 1 .. n + c
            BY <1>1
          <6> QED BY <1>2, <3>1, <5>2, <6>1
        <5> QED BY <3>3, <5>1, <5>3
      <4>1. CASE x < n + q
        <5>1. x \in DOMAIN new \ {m} /\ h[x] = x
          BY <1>1, <1>2, <1>3, <3>1, <4>0, <4>1
        <5> QED BY <5>1
      <4>2. CASE x > n + q
        <5>1. x - 1 \in n + 1 .. n + c /\ ~(x - 1 < n + q) /\ (x - 1) + 1 = x /\ x - 1 # m
          BY <1>1, <3>1, <4>0, <4>2
        <5>2. x - 1 \in DOMAIN new \ {m}
          BY <1>3, <3>1, <5>1
        <5>3. h[x - 1] = x
          BY <5>1, <5>2
        <5> HIDE DEF h
        <5> QED BY <5>2, <5>3
      <4> HIDE DEF h
      <4>3. x < n + q \/ x > n + q
        <5>1. x \in Int /\ n + q \in Int /\ x # n + q
          BY <1>1, <4>0
        <5> QED BY <5>1, SMTT(30)
      <4> QED BY <4>1, <4>2, <4>3
    <3>4. \A i, j \in DOMAIN new \ {m} : i <= j => h[i] <= h[j]
      BY <1>1, <3>2
    <3>5. Len(b) > 0 /\ Key(b[Len(b)]) = k
      BY <1>1, <3>1
    <3>6. \A i \in DOMAIN new \ {m} : h[i] \in DOMAIN uses /\ new[i] = uses[h[i]]
      BY <3>2
    <3>7. \A x \in DOMAIN uses : uses[x] # k => \E i \in DOMAIN new \ {m} : h[i] = x
      BY <3>3
    <3> HIDE DEF h, m
    <3> QED BY <3>4, <3>5, <3>6, <3>7
  <2> QED BY <2>1, <2>2 DEF Renewed
<1>5. /\ DOMAIN new \subseteq Int /\ m \in DOMAIN new /\ new[m] = k
      /\ \A i \in DOMAIN new : i <= m
  <2>1. m \in n + 1 .. n + Len(b) /\ m - n = Len(b) /\ ~(m <= n)
    BY <1>1, <1>4
  <2> HIDE DEF m, k
  <2>2. m \in DOMAIN new /\ new[m] = k
    BY <1>3, <1>4, <2>1
  <2> QED BY <1>1, <1>3, <2>2 DEF m
<1>6. InOrderOfLastUse(keys, uses) /\ k \in K
  BY DEF uses
<1> HIDE DEF k, m, n, c
<1>7. UsedLater(uses, new, k, m, h)
  BY <1>4, <1>5, Zenon DEF UsedLater
<1>8. Append(RemoveFirst(keys, k), k) \in Seq(K) /\ InOrderOfLastUse(Append(RemoveFirst(keys, k), k), new)
  BY <1>6, <1>7, UsedAgain
<1> QED BY <1>8 DEF k, new

LEMMA UsesOfFlush ==
  ASSUME NEW P, NEW f \in Acts(P), NEW r \in Acts(P), WrittenOut(f, r)
  PROVE  Uses(r.file, <<>>) = Uses(f.file, f.buf)
<1> DEFINE file == f.file
           buf == f.buf
           long == r.file
           none == <<>>
           n == Len(file)
           c == Len(buf)
           new == Uses(long, none)
           old == Uses(file, buf)
           value(x) == <<PageOf(x.addr), x.type>>
<1>1. file \in Seq(FileLine(P)) /\ buf \in Seq(Line) /\ long \in Seq(FileLine(P))
  BY DEF Acts
<1>0. none \in Seq(Line)
  OBVIOUS
<1>2. Len(none) = 0
  OBVIOUS
<1>3. /\ Len(long) = n + c /\ \A i \in 1 .. n : long[i] = file[i]
      /\ \A i \in 1 .. c : long[n + i].type = buf[i].type /\ long[n + i].addr = AddrOf(buf[i])
  BY DEF WrittenOut
<1> HIDE DEF file, buf, long, none
<1>4. n \in Nat /\ c \in Nat /\ \A i \in 1 .. c : buf[i] \in Line
  BY <1>1, LenProperties, ElementOfSeq
<1>5. \A i \in 1 .. c : long[n + i].type # "F" /\ value(long[n + i]) = Key(buf[i])
  BY <1>3, <1>4, LineFields DEF Key
<1>6. /\ DOMAIN old \subseteq 1 .. n + c
      /\ \A i \in 1 .. n : i \in DOMAIN old <=> file[i].type # "F"
      /\ \A i \in n + 1 .. n + c : i \in DOMAIN old
      /\ \A i \in DOMAIN old : old[i] = IF i <= n THEN value(file[i]) ELSE Key(buf[i - n])
  BY <1>1, UsesOf
<1>7. /\ DOMAIN new \subseteq 1 .. Len(long) + Len(none)
      /\ \A i \in 1 .. Len(long) : i \in DOMAIN new <=> long[i].type # "F"
      /\ \A i \in Len(long) + 1 .. Len(long) + Len(none) : i \in DOMAIN new
      /\ \A i \in DOMAIN new :
           new[i] = IF i <= Len(long) THEN value(long[i]) ELSE Key(none[i - Len(long)])
  BY <1>0, <1>1, UsesOf
<1>8. new = [i \in DOMAIN new |-> new[i]] /\ old = [i \in DOMAIN old |-> old[i]]
  BY DEF Uses
<1> HIDE DEF new, old, n, c, value
<1>9. ASSUME NEW i \in 1 .. n + c
      PROVE  /\ i \in DOMAIN new <=> i \in DOMAIN old
             /\ i \in DOMAIN new => new[i] = old[i]
  <2>0. /\ i \in DOMAIN new <=> long[i].type # "F"
        /\ i \in DOMAIN new => new[i] = value(long[i])
    BY <1>2, <1>3, <1>4, <1>7
  <2>1. CASE i <= n
    <3>1. i \in 1 .. n /\ long[i] = file[i]
      BY <1>3, <1>4, <2>1
    <3> QED BY <1>6, <2>0, <2>1, <3>1
  <2>2. CASE i > n
    <3>1. i - n \in 1 .. c /\ n + (i - n) = i /\ i \in n + 1 .. n + c /\ ~(i <= n)
      BY <1>4, <2>2
    <3>2. long[i].type # "F" /\ value(long[i]) = Key(buf[i - n])
      BY <1>5, <3>1
    <3> QED BY <1>6, <2>0, <3>1, <3>2
  <2> QED BY <1>4, <2>1, <2>2
<1>10. DOMAIN new = DOMAIN old
  <2>1. 1 .. Len(long) + Len(none) = 1 .. n + c
    BY <1>2, <1>3, <1>4
  <2> QED BY <1>6, <1>7, <1>9, <2>1
<1>11. \A i \in DOMAIN new : new[i] = old[i]
  BY <1>6, <1>9, <1>10
<1>12. new = old
  BY <1>8, <1>10, <1>11
<1> QED BY <1>12 DEF new, old, long, file, buf, none

LEMMA UsesOfFork ==
  ASSUME NEW P, NEW file \in Seq(FileLine(P)), NEW x \in ForkLine(P)
  PROVE  Uses(Append(file, x), <<>>) = Uses(file, <<>>)
<1> DEFINE long == Append(file, x)
           none == <<>>
           n == Len(file)
           new == Uses(long, none)
           old == Uses(file, none)
           value(y) == <<PageOf(y.addr), y.type>>
<1>0. none \in Seq(Line)
  OBVIOUS
<1>1. Len(none) = 0 /\ n \in Nat
  OBVIOUS
<1>2. x \in FileLine(P) /\ x.type = "F"
  BY DEF FileLine, ForkLine
<1>3. /\ long \in Seq(FileLine(P)) /\ Len(long) = n + 1 /\ long[n + 1] = x
      /\ \A i \in 1 .. n : long[i] = file[i]
  BY <1>2, AppendProperties
<1> HIDE DEF long, none
<1>4. /\ DOMAIN old \subseteq 1 .. n + Len(none)
      /\ \A i \in 1 .. n : i \in DOMAIN old <=> file[i].type # "F"
      /\ \A i \in n + 1 .. n + Len(none) : i \in DOMAIN old
      /\ \A i \in DOMAIN old : old[i] = IF i <= n THEN value(file[i]) ELSE Key(none[i - n])
  BY <1>0, UsesOf
<1>5. /\ DOMAIN new \subseteq 1 .. Len(long) + Len(none)
      /\ \A i \in 1 .. Len(long) : i \in DOMAIN new <=> long[i].type # "F"
      /\ \A i \in Len(long) + 1 .. Len(long) + Len(none) : i \in DOMAIN new
      /\ \A i \in DOMAIN new :
           new[i] = IF i <= Len(long) THEN value(long[i]) ELSE Key(none[i - Len(long)])
  BY <1>0, <1>3, UsesOf
<1>6. new = [i \in DOMAIN new |-> new[i]] /\ old = [i \in DOMAIN old |-> old[i]]
  BY DEF Uses
<1> HIDE DEF new, old, n, value
<1>7. n + 1 \notin DOMAIN new
  BY <1>1, <1>2, <1>3, <1>5
<1>8. ASSUME NEW i \in 1 .. n
      PROVE  /\ i \in DOMAIN new <=> i \in DOMAIN old
             /\ i \in DOMAIN new => new[i] = old[i]
  <2>1. i \in 1 .. Len(long) /\ i <= n /\ i <= Len(long) /\ long[i] = file[i]
    BY <1>1, <1>3
  <2> QED BY <1>4, <1>5, <2>1
<1>9. DOMAIN old \subseteq 1 .. n /\ DOMAIN new \subseteq 1 .. n
  BY <1>1, <1>3, <1>4, <1>5, <1>7
<1>10. DOMAIN new = DOMAIN old /\ \A i \in DOMAIN new : new[i] = old[i]
  BY <1>8, <1>9
<1>11. new = old
  BY <1>6, <1>10
<1> QED BY <1>11 DEF new, old, long, none

(* What a step of an activation writes follows what its file held, and a   *)
(* memory explains it.                                                     *)
Grown(f, r) ==
  /\ Len(f.file) <= Len(r.file) /\ \A i \in 1 .. Len(f.file) : r.file[i] = f.file[i]
  /\ \E m \in [Nat -> AsMap] :
       /\ m[Len(f.file)] = f.as /\ m[Len(r.file)] = r.as
       /\ \A i \in Len(f.file) + 1 .. Len(r.file) :
            r.file[i] \in Written /\ Follows(m[i - 1], r.file[i], m[i])

LEMMA FlushGrown ==
  ASSUME NEW P, NEW f \in Acts(P), NEW r \in Acts(P), WrittenOut(f, r), Explained(f, r)
  PROVE  Grown(f, r)
<1> DEFINE file == f.file
           buf == f.buf
           long == r.file
           n == Len(file)
           c == Len(buf)
<1>1. file \in Seq(FileLine(P)) /\ buf \in Seq(Line) /\ f.as \in AsMap /\ r.as \in AsMap
  BY DEF Acts
<1>2. /\ Len(long) = n + c /\ \A i \in 1 .. n : long[i] = file[i]
      /\ \A i \in 1 .. c : long[n + i] \in Written
  BY DEF WrittenOut
<1>3. PICK m \in [0 .. c -> AsMap] :
        /\ m[0] = f.as /\ m[c] = r.as
        /\ \A i \in 1 .. c : Follows(m[i - 1], long[n + i], m[i])
  BY DEF Explained
<1> HIDE DEF file, buf, long
<1>4. n \in Nat /\ c \in Nat
  BY <1>1, LenProperties
<1> HIDE DEF n, c
<1> DEFINE w == [i \in Nat |-> IF i < n THEN f.as ELSE IF i <= n + c THEN m[i - n] ELSE r.as]
<1>5. w \in [Nat -> AsMap]
  BY <1>1, <1>3, <1>4
<1>6. w[n] = f.as /\ w[n + c] = r.as
  BY <1>3, <1>4
<1>7. ASSUME NEW i \in n + 1 .. n + c
      PROVE  long[i] \in Written /\ Follows(w[i - 1], long[i], w[i])
  <2>1. i - n \in 1 .. c /\ n + (i - n) = i /\ (i - n) - 1 = (i - 1) - n
    BY <1>4
  <2>2. long[i] \in Written /\ Follows(m[(i - n) - 1], long[i], m[i - n])
    BY <1>2, <1>3, <2>1
  <2>3. w[i] = m[i - n] /\ w[i - 1] = m[(i - n) - 1]
    BY <1>4, <2>1
  <2> QED BY <2>2, <2>3
<1> HIDE DEF w
<1>8. n <= n + c
  BY <1>4
<1> QED BY <1>2, <1>5, <1>6, <1>7, <1>8, Zenon DEF Grown, n, c, long, file, buf

LEMMA NothingWritten ==
  ASSUME NEW P, NEW f \in Acts(P), NEW r \in Acts(P), r.file = f.file, r.as = f.as
  PROVE  Grown(f, r)
<1> DEFINE m == [i \in Nat |-> f.as]
           n == Len(f.file)
<1>1. f.as \in AsMap /\ f.file \in Seq(FileLine(P))
  BY DEF Acts
<1>2. n \in Nat
  BY <1>1, LenProperties
<1>3. m \in [Nat -> AsMap] /\ m[n] = f.as
  BY <1>1, <1>2
<1> HIDE DEF m
<1>4. n <= n /\ n + 1 .. n = {}
  BY <1>2
<1> QED BY <1>3, <1>4 DEF Grown

-----------------------------------------------------------------------------
(* A line goes through the activation                                      *)

Procs == Pids(runs)
KeySet == (Pages \cup {MarkerPage}) \X (Types \cup {"S"})

(* How the history of a process goes on when its activation reads a line.  *)
NewKeys(g, l, keys) ==
  IF g.found /\ ~g.ignore THEN Append(RemoveFirst(keys, Key(l)), Key(l)) ELSE keys

LEMMA SimplifiedEffect ==
  ASSUME NEW P, NEW g \in Acts(P), Len(g.buf) < BufSize, NEW l, Simulated(l) \in Line,
         Key(Simulated(l)) = Key(l), NEW random \in Random, NEW keys \in Seq(KeySet),
         InOrderOfLastUse(keys, Uses(g.file, g.buf))
  PROVE  LET r == Simplified(g, l, random)
         IN  /\ r \in Acts(P) /\ SameActivation(g, r) /\ Len(r.buf) < BufSize /\ Grown(g, r)
             /\ NewKeys(g, l, keys) \in Seq(KeySet)
             /\ InOrderOfLastUse(NewKeys(g, l, keys), Uses(r.file, r.buf))
<1> DEFINE r == Simplified(g, l, random)
           s == Simulated(l)
           b == Buffered(g.buf, s)
           h == [g EXCEPT !.buf = b]
           new == Append(RemoveFirst(keys, Key(s)), Key(s))
<1>1. /\ g.buf \in Seq(Line) /\ g.file \in Seq(FileLine(P)) /\ BufSize \in Nat \ {0}
      /\ Len(g.buf) \in Nat
  <2>1. g.buf \in Seq(Line) /\ g.file \in Seq(FileLine(P))
    BY DEF Acts
  <2> QED BY <2>1, Sizes1, LenProperties
<1>2. CASE g.found /\ ~g.ignore
  <2>1. r = WriteTraceline(g, s, random)
    BY <1>2 DEF Simplified
  <2>2. WriteTraceline(g, s, random) = IF Len(h.buf) = BufSize THEN FlushWriter(h, random) ELSE h
    BY DEF WriteTraceline
  <2>3. s \in Line /\ Key(s) \in KeySet
    BY DEF Key, KeySet, Line
  <2>4. NewKeys(g, l, keys) = new
    BY <1>2 DEF NewKeys
  <2> HIDE DEF r, s
  <2>5. b \in Seq(Line) /\ Len(b) <= Len(g.buf) + 1 /\ Renewed(g.buf, s, b)
    BY <1>1, <2>3, BufferedEffect
  <2>6. new \in Seq(KeySet) /\ InOrderOfLastUse(new, Uses(g.file, b))
    <3> DEFINE file == g.file
               buf == g.buf
    <3>1. file \in Seq(FileLine(P)) /\ buf \in Seq(Line) /\ Renewed(buf, s, b)
          /\ InOrderOfLastUse(keys, Uses(file, buf))
      BY <1>1, <2>5
    <3> HIDE DEF file, buf, b
    <3>2. new \in Seq(KeySet) /\ InOrderOfLastUse(new, Uses(file, b))
      BY <2>3, <2>5, <3>1, UsesOfBuffered
    <3> QED BY <3>2 DEF file
  <2> HIDE DEF b, h, new
  <2>7. h \in Acts(P)
    BY <2>5 DEF Acts, h
  <2>8. /\ h.buf = b /\ h.file = g.file /\ h.as = g.as /\ h.pid = g.pid /\ h.at = g.at
        /\ h.found = g.found /\ h.ignore = g.ignore
    BY DEF Acts, h
  <2>9. Len(b) \in Nat /\ Len(b) <= BufSize
    BY <1>1, <2>5
  <2>10. CASE Len(b) # BufSize
    <3>1. r = h
      BY <2>1, <2>2, <2>8, <2>10
    <3>2. SameActivation(g, h)
      BY <2>8, Zenon DEF SameActivation
    <3>3. Grown(g, h)
      BY <2>7, <2>8, NothingWritten
    <3>4. Len(h.buf) < BufSize
      BY <1>1, <2>8, <2>9, <2>10
    <3> QED BY <2>4, <2>6, <2>7, <2>8, <3>1, <3>2, <3>3, <3>4 DEF r
  <2>11. CASE Len(b) = BufSize
    <3> DEFINE e == FlushWriter(h, random)
    <3>1. r = e
      BY <2>1, <2>2, <2>8, <2>11
    <3>2. Len(h.buf) <= BufSize
      BY <2>8, <2>9
    <3>3. e \in Acts(P) /\ e.buf = <<>> /\ SameActivation(h, e) /\ WrittenOut(h, e) /\ Explained(h, e)
      BY <2>7, <3>2, FlushEffect
    <3> HIDE DEF e
    <3>4. SameActivation(g, e)
      BY <2>8, <3>3, Zenon DEF SameActivation
    <3>5. Grown(h, e)
      BY <2>7, <3>3, FlushGrown
    <3>6. Grown(g, e)
      BY <2>8, <3>5 DEF Grown
    <3>7. Len(e.buf) < BufSize
      <4>1. Len(e.buf) = 0
        BY <3>3
      <4> QED BY <1>1, <4>1
    <3>8. Uses(e.file, e.buf) = Uses(g.file, b)
      <4>1. Uses(e.file, <<>>) = Uses(h.file, h.buf)
        BY <2>7, <3>3, UsesOfFlush
      <4> QED BY <2>8, <3>3, <4>1
    <3> QED BY <2>4, <2>6, <3>1, <3>3, <3>4, <3>6, <3>7, <3>8 DEF r
  <2> QED BY <2>10, <2>11
<1>3. CASE ~(g.found /\ ~g.ignore)
  <2>1. r = g /\ NewKeys(g, l, keys) = keys
    BY <1>3 DEF Simplified, NewKeys
  <2>2. Grown(g, g)
    BY NothingWritten
  <2> QED BY <2>1, <2>2 DEF SameActivation
<1> QED BY <1>2, <1>3

LEMMA SimulatedLine ==
  ASSUME NEW t \in Types \cup {"S"}, NEW page \in Pages \cup {MarkerPage}, NEW off \in Nat
  PROVE  LET l == [type |-> t, page |-> page, off |-> off]
         IN  Simulated(l) \in Line /\ Key(Simulated(l)) = Key(l)
<1> DEFINE l == [type |-> t, page |-> page, off |-> off]
           o == off % SimPageSize
<1>1. o \in 0 .. SimPageSize - 1
  BY Sizes1
<1>2. Simulated(l) = [type |-> t, page |-> page, off |-> o]
  BY DEF Simulated
<1> HIDE DEF o
<1> QED BY <1>1, <1>2 DEF Line, Key

(* Where marker.h the process of an activation is says whether its lines   *)
(* are recorded.                                                           *)
Unrecorded == {"fork369", "parent", "registered", "again", "ended again"}
Stage(g) == (g.found <=> g.at # "before") /\ (g.ignore <=> g.at \in Unrecorded)

LEMMA StageRecorded ==
  ASSUME NEW P, NEW g \in Acts(P), Stage(g)
  PROVE  (g.found /\ ~g.ignore) <=> g.at \in Recorded
<1>1. g.at \in {"before", "user", "fork369", "fork", "parent", "child", "registered", "again",
                "ended", "ended again"}
  BY DEF Acts
<1>2. (g.at # "before" /\ g.at \notin Unrecorded) <=> g.at \in Recorded
  BY <1>1 DEF Unrecorded, Recorded
<1> QED BY <1>2, Zenon DEF Stage

LEMMA MarkedEffect ==
  ASSUME NEW P, NEW g \in Acts(P), Stage(g), NEW step \in MarkerStores, g.at = step[1]
  PROVE  LET r == [Marked(g, step[2]) EXCEPT !.at = step[3]]
         IN  /\ r \in Acts(P) /\ Stage(r) /\ r.pid = g.pid /\ r.as = g.as /\ r.buf = g.buf
             /\ r.file = g.file /\ r.at = step[3]
<1> DEFINE marker == step[2]
           found == g.found \/ marker = "start"
           ignore == CASE marker \in {"fork369_start", "fork_end"} -> TRUE
                       [] marker = "fork_start" -> FALSE
                       [] OTHER -> g.ignore
           at == step[3]
           r == [Marked(g, step[2]) EXCEPT !.at = step[3]]
<1>1. r = [g EXCEPT !.found = found, !.ignore = ignore, !.at = at]
  BY DEF Marked
<1>2. g.found \in BOOLEAN /\ g.ignore \in BOOLEAN
  BY DEF Acts
<1>3. found \in BOOLEAN
  OBVIOUS
<1>4. \/ g.at = "before" /\ marker = "start" /\ at = "user"
      \/ g.at \in {"user", "again"} /\ marker = "fork369_start" /\ at = "fork369"
      \/ g.at = "fork369" /\ marker = "fork_start" /\ at = "fork"
      \/ g.at = "fork" /\ marker = "fork_end" /\ at = "parent"
      \/ g.at = "child" /\ marker = "fork_end" /\ at = "registered"
      \/ g.at = "registered" /\ marker = "fork369_end" /\ at = "again"
      \/ g.at = "user" /\ marker = "end" /\ at = "ended"
      \/ g.at = "again" /\ marker = "end" /\ at = "ended again"
  <2> DEFINE Is(a, m, b) == g.at = a /\ marker = m /\ at = b
  <2>1. \A a, m, b : step = <<a, m, b>> => Is(a, m, b)
    OBVIOUS
  <2> HIDE DEF Is
  <2>2. \/ Is("before", "start", "user")
        \/ Is("user", "fork369_start", "fork369")
        \/ Is("again", "fork369_start", "fork369")
        \/ Is("fork369", "fork_start", "fork")
        \/ Is("fork", "fork_end", "parent")
        \/ Is("child", "fork_end", "registered")
        \/ Is("registered", "fork369_end", "again")
        \/ Is("user", "end", "ended")
        \/ Is("again", "end", "ended again")
    BY <2>1, Zenon DEF MarkerStores
  <2> HIDE DEF at, marker
  <2> QED BY <2>2 DEF Is
<1>5. /\ marker \in {"fork369_start", "fork_end"} => ignore
      /\ marker = "fork_start" => ~ignore
      /\ marker \notin {"fork369_start", "fork_end", "fork_start"} => ignore = g.ignore
      /\ ignore \in BOOLEAN
  <2>1. CASE marker \in {"fork369_start", "fork_end"}
    <3>1. ignore = TRUE /\ marker # "fork_start"
      BY <2>1
    <3> QED BY <2>1, <3>1
  <2>2. CASE marker = "fork_start"
    <3>1. ignore = FALSE
      BY <2>2
    <3> QED BY <2>2, <3>1
  <2>3. CASE marker \notin {"fork369_start", "fork_end", "fork_start"}
    <3>1. ignore = g.ignore
      BY <2>3
    <3> HIDE DEF ignore
    <3> QED BY <1>2, <2>3, <3>1
  <2> HIDE DEF ignore, marker
  <2> QED BY <2>1, <2>2, <2>3, Zenon
<1>6. at \in {"user", "fork369", "fork", "parent", "registered", "again", "ended", "ended again"}
  BY <1>4
<1>7. found <=> at # "before"
  <2>1. g.at # "before" => g.found
    BY DEF Stage
  <2> QED BY <1>4, <1>6, <2>1
<1>8. ignore <=> at \in Unrecorded
  <2> HIDE DEF ignore, marker, at
  <2>1. g.ignore <=> g.at \in Unrecorded
    BY DEF Stage
  <2>2. CASE marker \in {"fork369_start", "fork_end", "fork_start"}
    BY <1>4, <1>5, <2>2 DEF Unrecorded
  <2>3. CASE marker \notin {"fork369_start", "fork_end", "fork_start"}
    <3>1. g.at \in Unrecorded <=> at \in Unrecorded
      BY <1>4, <2>3 DEF Unrecorded
    <3> QED BY <1>5, <2>1, <2>3, <3>1, Zenon
  <2> QED BY <2>2, <2>3
<1> HIDE DEF found, ignore, at, marker, r
<1>9. r \in Acts(P)
  BY <1>1, <1>3, <1>5, <1>6 DEF Acts
<1>10. /\ r.pid = g.pid /\ r.as = g.as /\ r.buf = g.buf /\ r.file = g.file
       /\ r.at = at /\ r.found = found /\ r.ignore = ignore
  BY <1>1 DEF Acts
<1>11. Stage(r)
  BY <1>7, <1>8, <1>10, Zenon DEF Stage
<1> QED BY <1>9, <1>10, <1>11 DEF r, at

-----------------------------------------------------------------------------
(* The processes                                                           *)

LEMMA RunFacts ==
  ASSUME NEW rs \in Runs
  PROVE  /\ Len(rs) \in Nat \ {0} /\ DOMAIN rs = 1 .. Len(rs)
         /\ \A i \in DOMAIN rs : rs[i].pid \in Pids(rs)
         /\ Forks(rs) \in Seq(Pids(rs) \X Pids(rs))
         /\ \A i, j \in DOMAIN rs : rs[i].pid = rs[j].pid => i = j
         /\ \A i, j \in DOMAIN Forks(rs) : Forks(rs)[i][2] = Forks(rs)[j][2] => i = j
         /\ \A i \in DOMAIN rs, j \in DOMAIN Forks(rs) : rs[i].pid # Forks(rs)[j][2]
<1> DEFINE P == Pids(rs)
           q == [i \in DOMAIN rs |-> rs[i].forks]
<1>1. /\ rs # <<>> /\ rs \in Seq([pid : P, forks : Seq(P \X P)])
      /\ \A i, j \in DOMAIN rs : rs[i].pid = rs[j].pid => i = j
      /\ \A i, j \in DOMAIN Forks(rs) : Forks(rs)[i][2] = Forks(rs)[j][2] => i = j
      /\ \A i \in DOMAIN rs, j \in DOMAIN Forks(rs) : rs[i].pid # Forks(rs)[j][2]
  BY RunsAssumption
<1>2. \A i \in DOMAIN rs : rs[i].pid \in P
  BY DEF Pids
<1> HIDE DEF P
<1>3. Len(rs) \in Nat \ {0} /\ DOMAIN rs = 1 .. Len(rs)
  BY <1>1, EmptySeq, LenProperties
<1>4. \A i \in 1 .. Len(rs) : rs[i].forks \in Seq(P \X P)
  <2>1. \A i \in 1 .. Len(rs) : rs[i] \in [pid : P, forks : Seq(P \X P)]
    BY <1>1, ElementOfSeq
  <2> QED BY <2>1
<1>5. q \in Seq(Seq(P \X P))
  BY <1>3, <1>4
<1>6. FlattenSeq(q) \in Seq(P \X P)
  <2> HIDE DEF q
  <2>1. <<>> \in Seq(P \X P)
    OBVIOUS
  <2> QED BY <1>5, <2>1, FlattenAppend
<1>7. Forks(rs) \in Seq(P \X P)
  BY <1>6 DEF Forks
<1> QED BY <1>1, <1>2, <1>3, <1>7 DEF P

(* The function ChildrenOf is defined by.                                  *)
LEMMA ChildrenFunction ==
  ASSUME NEW rs, NEW p, Len(Forks(rs)) \in Nat
  PROVE  \E queue :
           /\ queue[0] = <<>> /\ ChildrenOf(rs, p) = queue[Len(Forks(rs))]
           /\ \A i \in 1 .. Len(Forks(rs)) :
                queue[i] = IF Forks(rs)[i][1] = p THEN Append(queue[i - 1], Forks(rs)[i][2])
                           ELSE queue[i - 1]
<1> DEFINE k == Len(Forks(rs))
           Next0(i, g) == IF Forks(rs)[i][1] = p THEN Append(g, Forks(rs)[i][2]) ELSE g
           T == {m \in Nat :
                   \E out : out = [i \in 0 .. m |-> IF i = 0 THEN <<>> ELSE Next0(i, out[i - 1])]}
           F == CHOOSE out : out = [i \in 0 .. k |-> IF i = 0 THEN <<>> ELSE Next0(i, out[i - 1])]
<1>5. ChildrenOf(rs, p) = F[k]
  BY DEF ChildrenOf
<1> HIDE DEF Next0
<1>1. 0 \in T
  <2> DEFINE g == [i \in 0 .. 0 |-> <<>>]
  <2>1. g = [i \in 0 .. 0 |-> IF i = 0 THEN <<>> ELSE Next0(i, g[i - 1])]
    OBVIOUS
  <2> HIDE DEF g
  <2>2. \E out : out = [i \in 0 .. 0 |-> IF i = 0 THEN <<>> ELSE Next0(i, out[i - 1])]
    BY <2>1, Zenon
  <2> QED BY <2>2
<1>2. ASSUME NEW m \in 0 .. k - 1, m \in T PROVE m + 1 \in T
  <2>0. m \in Nat
    OBVIOUS
  <2>1. PICK out : out = [i \in 0 .. m |-> IF i = 0 THEN <<>> ELSE Next0(i, out[i - 1])]
    BY <1>2
  <2>2. ASSUME NEW i \in 0 .. m PROVE out[i] = IF i = 0 THEN <<>> ELSE Next0(i, out[i - 1])
    BY <2>1, Zenon
  <2> DEFINE g == [i \in 0 .. m + 1 |->
                     IF i <= m THEN out[i] ELSE IF i = 0 THEN <<>> ELSE Next0(i, out[i - 1])]
  <2>3. ASSUME NEW i \in 0 .. m + 1 PROVE g[i] = IF i = 0 THEN <<>> ELSE Next0(i, g[i - 1])
    <3>1. CASE i = 0
      BY <2>0, <2>2, <3>1
    <3>2. CASE i # 0
      <4>1. i - 1 \in 0 .. m + 1 /\ i - 1 <= m /\ g[i - 1] = out[i - 1]
        BY <2>0, <3>2
      <4>2. i <= m => out[i] = Next0(i, out[i - 1])
        <5>1. i <= m => i \in 0 .. m
          BY <2>0
        <5> QED BY <2>2, <3>2, <5>1, Zenon
      <4> QED BY <3>2, <4>1, <4>2
    <3> QED BY <3>1, <3>2
  <2>4. g = [i \in 0 .. m + 1 |-> g[i]]
    OBVIOUS
  <2> HIDE DEF g
  <2>5. g = [i \in 0 .. m + 1 |-> IF i = 0 THEN <<>> ELSE Next0(i, g[i - 1])]
    BY <2>3, <2>4
  <2>6. m + 1 \in Nat
    BY <2>0
  <2> QED BY <2>5, <2>6, Zenon
<1>3. k \in T
  <2>1. k \in Nat /\ k \in 0 .. k
    OBVIOUS
  <2> HIDE DEF T, k
  <2> QED BY <1>1, <1>2, <2>1, BoundedInduction
<1>4. F = [i \in 0 .. k |-> IF i = 0 THEN <<>> ELSE Next0(i, F[i - 1])]
  BY <1>3
<1> HIDE DEF F
<1>6. ASSUME NEW i \in 0 .. k PROVE F[i] = IF i = 0 THEN <<>> ELSE Next0(i, F[i - 1])
  BY <1>4, Zenon
<1>7. F[0] = <<>>
  <2>1. 0 \in 0 .. k
    OBVIOUS
  <2> QED BY <1>6, <2>1, Zenon
<1>8. \A i \in 1 .. k : F[i] = Next0(i, F[i - 1])
  <2> SUFFICES ASSUME NEW i \in 1 .. k PROVE F[i] = Next0(i, F[i - 1])
    OBVIOUS
  <2>1. i \in 0 .. k /\ i # 0
    OBVIOUS
  <2> QED BY <1>6, <2>1, Zenon
<1> QED BY <1>5, <1>7, <1>8 DEF Next0

(* The queue of a process holds its children, and each of them once.       *)
ForkOf(rs, p, c) ==
  \E j \in DOMAIN Forks(rs) : Forks(rs)[j][1] = p /\ Forks(rs)[j][2] = c

LEMMA ChildrenOfEffect ==
  ASSUME NEW rs \in Runs, NEW p
  PROVE  /\ ChildrenOf(rs, p) \in Seq(Pids(rs)) /\ IsInjective(ChildrenOf(rs, p))
         /\ \A c \in ToSet(ChildrenOf(rs, p)) : ForkOf(rs, p, c)
<1> DEFINE forks == Forks(rs)
           P == Pids(rs)
           n == Len(forks)
<1>1. /\ forks \in Seq(P \X P)
      /\ \A i, j \in DOMAIN forks : forks[i][2] = forks[j][2] => i = j
  BY RunFacts
<1>2. n \in Nat /\ DOMAIN forks = 1 .. n /\ \A i \in 1 .. n : forks[i] \in P \X P
  BY <1>1, LenProperties, ElementOfSeq
<1>3. PICK queue : /\ queue[0] = <<>> /\ ChildrenOf(rs, p) = queue[n]
                   /\ \A i \in 1 .. n : queue[i] = IF forks[i][1] = p
                                                    THEN Append(queue[i - 1], forks[i][2])
                                                    ELSE queue[i - 1]
  BY <1>2, ChildrenFunction
<1> HIDE DEF P, n, forks
<1> DEFINE Good(i) == /\ queue[i] \in Seq(P) /\ IsInjective(queue[i])
                      /\ \A c \in ToSet(queue[i]) :
                           \E j \in 1 .. i : forks[j][1] = p /\ forks[j][2] = c
           T == {i \in 0 .. n : Good(i)}
<1>4. 0 \in T
  <2>1. <<>> \in Seq(P) /\ IsInjective(<<>>) /\ ToSet(<<>>) = {}
    <3>1. <<>> \in Seq(P)
      OBVIOUS
    <3> QED BY <3>1, QueueEmpty
  <2>2. queue[0] \in Seq(P) /\ IsInjective(queue[0]) /\ ToSet(queue[0]) = {}
    BY <1>3, <2>1, Zenon
  <2>3. 0 \in 0 .. n
    BY <1>2
  <2> QED BY <2>2, <2>3
<1>5. ASSUME NEW m \in 0 .. n - 1, m \in T PROVE m + 1 \in T
  <2>1. m + 1 \in 1 .. n /\ (m + 1) - 1 = m /\ m \in Nat /\ 1 .. m \subseteq 1 .. m + 1
    BY <1>2
  <2> DEFINE q == queue[m]
             e == forks[m + 1][2]
  <2>2. q \in Seq(P) /\ IsInjective(q) /\ e \in P
    BY <1>2, <1>5, <2>1
  <2>3. queue[m + 1] = IF forks[m + 1][1] = p THEN Append(q, e) ELSE q
    BY <1>3, <2>1
  <2>4. \A c \in ToSet(q) : \E j \in 1 .. m : forks[j][1] = p /\ forks[j][2] = c
    BY <1>5
  <2>5. e \notin ToSet(q)
    <3> SUFFICES ASSUME e \in ToSet(q) PROVE FALSE
      OBVIOUS
    <3>1. PICK j \in 1 .. m : forks[j][2] = forks[m + 1][2]
      BY <2>4
    <3>2. j = m + 1
      BY <1>1, <1>2, <2>1, <3>1
    <3> QED BY <2>1, <3>2
  <2> DEFINE a == Append(q, e)
  <2>6. a \in Seq(P) /\ IsInjective(a) /\ ToSet(a) = ToSet(q) \cup {e}
    <3> HIDE DEF q, e
    <3> QED BY <2>2, <2>5, QueueAppend
  <2>7. CASE forks[m + 1][1] = p
    <3>1. queue[m + 1] = a
      BY <2>3, <2>7
    <3>2. ASSUME NEW c \in ToSet(a)
          PROVE  \E j \in 1 .. m + 1 : forks[j][1] = p /\ forks[j][2] = c
      <4>1. CASE c = e
        <5>1. m + 1 \in 1 .. m + 1
          BY <2>1
        <5> QED BY <2>7, <4>1, <5>1
      <4>2. CASE c \in ToSet(q)
        <5>1. PICK j \in 1 .. m : forks[j][1] = p /\ forks[j][2] = c
          BY <2>4, <4>2
        <5>2. j \in 1 .. m + 1
          BY <2>1
        <5> QED BY <5>1, <5>2
      <4> HIDE DEF a, q, e
      <4> QED BY <2>6, <3>2, <4>1, <4>2
    <3> HIDE DEF a
    <3>3. m + 1 \in 0 .. n
      BY <1>2
    <3> QED BY <2>6, <3>1, <3>2, <3>3
  <2>8. CASE forks[m + 1][1] # p
    <3>1. queue[m + 1] = q
      BY <2>3, <2>8
    <3>2. ASSUME NEW c \in ToSet(q)
          PROVE  \E j \in 1 .. m + 1 : forks[j][1] = p /\ forks[j][2] = c
      <4>1. PICK j \in 1 .. m : forks[j][1] = p /\ forks[j][2] = c
        BY <2>4
      <4>2. j \in 1 .. m + 1
        BY <2>1
      <4> QED BY <4>1, <4>2
    <3> HIDE DEF q
    <3>3. m + 1 \in 0 .. n
      BY <1>2
    <3> QED BY <2>2, <3>1, <3>2, <3>3
  <2> QED BY <2>7, <2>8
<1>6. n \in T
  <2>1. n \in 0 .. n
    BY <1>2
  <2> HIDE DEF T
  <2> QED BY <1>2, <1>4, <1>5, <2>1, BoundedInduction
<1>7. Good(n)
  BY <1>6
<1>8. \A c \in ToSet(queue[n]) : ForkOf(rs, p, c)
  BY <1>2, <1>7 DEF ForkOf, forks
<1> QED BY <1>3, <1>7, <1>8 DEF P

-----------------------------------------------------------------------------
(* The invariant of the simplification                                     *)

SimplifyTypes ==
  /\ runs \in Runs /\ simplified \in Nat
  /\ stack \in Seq(Acts(Procs))
  /\ \A i \in DOMAIN stack : Len(stack[i].buf) < BufSize /\ Stage(stack[i])
  /\ children \in [Procs -> Seq(Procs)]
  /\ files \in [Procs -> Seq(FileLine(Procs))]
  /\ recency \in [Procs -> Seq(KeySet)]

(* A process that has not begun yet has left nothing.                      *)
OnStack(p) == \E i \in DOMAIN stack : stack[i].pid = p
Fresh(c) == ~OnStack(c) /\ files[c] = <<>> /\ recency[c] = <<>>

(* The children the marker file names, and the programs after the one that *)
(* is simplified, have not begun; each process begins once.                *)
ForksLeft(waiting, g) == g.at \in {"fork369", "fork", "parent"} => waiting[g.pid] # <<>>
Births ==
  /\ \A i, j \in DOMAIN stack : stack[i].pid = stack[j].pid => i = j
  /\ \A i \in DOMAIN stack : ForksLeft(children, stack[i])
  /\ \A p \in Procs : IsInjective(children[p])
  /\ \A p \in Procs : \A c \in ToSet(children[p]) :
       /\ Fresh(c)
       /\ \A q \in Procs : c \in ToSet(children[q]) => q = p
       /\ \A k \in DOMAIN runs : runs[k].pid # c
  /\ stack # <<>> => \A c \in Procs, k \in DOMAIN runs :
                        (k > simplified + 1 /\ runs[k].pid = c) => Fresh(c)

OrderKept ==
  /\ \A i \in DOMAIN stack :
       InOrderOfLastUse(recency[stack[i].pid], Uses(stack[i].file, stack[i].buf))
  /\ \A p \in Procs : ~OnStack(p) => InOrderOfLastUse(recency[p], Uses(files[p], <<>>))

(* The activation at the top.                                              *)
LEMMA TopOfStack ==
  ASSUME SimplifyTypes, stack # <<>>
  PROVE  /\ Len(stack) \in Nat \ {0} /\ DOMAIN stack = 1 .. Len(stack)
         /\ top = stack[Len(stack)] /\ top \in Acts(Procs) /\ top.pid \in Procs
         /\ Len(top.buf) < BufSize /\ Stage(top)
<1>1. Len(stack) \in Nat \ {0} /\ DOMAIN stack = 1 .. Len(stack)
  BY EmptySeq, LenProperties DEF SimplifyTypes
<1>2. top = stack[Len(stack)] /\ Len(stack) \in 1 .. Len(stack)
  BY <1>1 DEF Last, top
<1>3. stack[Len(stack)] \in Acts(Procs)
  BY <1>2, ElementOfSeq DEF SimplifyTypes
<1>4. top \in Acts(Procs)
  BY <1>2, <1>3
<1>5. top.pid \in Procs
  BY <1>4 DEF Acts
<1>6. Len(top.buf) < BufSize /\ Stage(top)
  BY <1>1, <1>2 DEF SimplifyTypes
<1> QED BY <1>1, <1>2, <1>4, <1>5, <1>6

LEMMA UsedEffect ==
  ASSUME recency \in [Procs -> Seq(KeySet)], NEW p \in Procs, NEW g, NEW at, NEW l,
         (g.found /\ ~g.ignore) <=> at \in Recorded, Used(p, at, l)
  PROVE  recency' = [recency EXCEPT ![p] = NewKeys(g, l, recency[p])]
<1>1. CASE at \in Recorded
  <2>1. NewKeys(g, l, recency[p]) = Append(RemoveFirst(recency[p], Key(l)), Key(l))
    BY <1>1, Zenon DEF NewKeys
  <2>2. recency' = [recency EXCEPT ![p] = Append(RemoveFirst(recency[p], Key(l)), Key(l))]
    BY <1>1, Zenon DEF Used
  <2> QED BY <2>1, <2>2, Zenon
<1>2. CASE at \notin Recorded
  <2>1. NewKeys(g, l, recency[p]) = recency[p]
    BY <1>2, Zenon DEF NewKeys
  <2>2. recency' = recency
    BY <1>2, Zenon DEF Used
  <2>3. recency = [recency EXCEPT ![p] = recency[p]]
    OBVIOUS
  <2> QED BY <2>1, <2>2, <2>3, Zenon
<1> QED BY <1>1, <1>2

(* A line of the log changes the activation at the top only.               *)
Reading(g, keys) ==
  /\ stack' = Append(Front(stack), g) /\ recency' = [recency EXCEPT ![top.pid] = keys]
  /\ UNCHANGED <<runs, simplified, children, files>>
GoodTop(g, keys) ==
  /\ g.pid = top.pid /\ Len(g.buf) < BufSize /\ Stage(g) /\ ForksLeft(children, g) /\ Grown(top, g)
  /\ InOrderOfLastUse(keys, Uses(g.file, g.buf))
ReadLine ==
  \/ \E t \in Types, page \in Pages, off \in Offsets :
       ReadReference([type |-> t, page |-> page, off |-> off])
  \/ \E step \in MarkerStores : ReadMarker(step)

LEMMA ReadEffect ==
  ASSUME SimplifyTypes, Births, OrderKept, stack # <<>>, ReadLine
  PROVE  \E g \in Acts(Procs), keys \in Seq(KeySet) : Reading(g, keys) /\ GoodTop(g, keys)
<1> DEFINE p == top.pid
           old == recency[p]
<1>1. /\ Len(stack) \in Nat \ {0} /\ DOMAIN stack = 1 .. Len(stack)
      /\ top = stack[Len(stack)] /\ top \in Acts(Procs) /\ p \in Procs
      /\ Len(top.buf) < BufSize /\ Stage(top)
  BY TopOfStack
<1>2. old \in Seq(KeySet) /\ recency \in [Procs -> Seq(KeySet)]
  BY <1>1 DEF SimplifyTypes
<1>3. ForksLeft(children, top) /\ InOrderOfLastUse(old, Uses(top.file, top.buf))
  <2>1. Len(stack) \in DOMAIN stack
    BY <1>1
  <2> QED BY <1>1, <2>1 DEF Births, OrderKept
<1>4. CASE \E t \in Types, page \in Pages, off \in Offsets :
             ReadReference([type |-> t, page |-> page, off |-> off])
  <2>1. PICK t \in Types, page \in Pages, off \in Offsets :
          ReadReference([type |-> t, page |-> page, off |-> off])
    BY <1>4
  <2> DEFINE l == [type |-> t, page |-> page, off |-> off]
  <2>2. /\ \E random \in Random : stack' = Append(Front(stack), Simplified(top, l, random))
        /\ Used(p, top.at, l) /\ UNCHANGED <<runs, simplified, children, files>>
    BY <2>1, Zenon DEF ReadReference, Replaced
  <2>3. PICK random \in Random : stack' = Append(Front(stack), Simplified(top, l, random))
    BY <2>2
  <2>4. t \in Types \cup {"S"} /\ page \in Pages \cup {MarkerPage} /\ off \in Nat
    BY SimplifyAssumption
  <2>5. Simulated(l) \in Line /\ Key(Simulated(l)) = Key(l)
    BY <2>4, SimulatedLine
  <2> HIDE DEF l, old, p
  <2> DEFINE g == Simplified(top, l, random)
             keys == NewKeys(top, l, old)
  <2>6. /\ g \in Acts(Procs) /\ SameActivation(top, g) /\ Len(g.buf) < BufSize /\ Grown(top, g)
        /\ keys \in Seq(KeySet) /\ InOrderOfLastUse(keys, Uses(g.file, g.buf))
    BY <1>1, <1>2, <1>3, <2>5, SimplifiedEffect
  <2> HIDE DEF g
  <2>7. g.pid = top.pid /\ Stage(g) /\ ForksLeft(children, g)
    <3>1. g.pid = top.pid /\ g.at = top.at /\ g.found = top.found /\ g.ignore = top.ignore
      BY <2>6, Zenon DEF SameActivation
    <3>2. Stage(g)
      BY <1>1, <3>1, Zenon DEF Stage
    <3>3. ForksLeft(children, g)
      BY <1>3, <3>1, Zenon DEF ForksLeft
    <3> QED BY <3>1, <3>2, <3>3
  <2>8. recency' = [recency EXCEPT ![p] = keys]
    <3>1. (top.found /\ ~top.ignore) <=> top.at \in Recorded
      BY <1>1, StageRecorded
    <3> QED BY <1>1, <1>2, <2>2, <3>1, UsedEffect DEF old
  <2> HIDE DEF keys
  <2>9. Reading(g, keys)
    BY <2>2, <2>3, <2>8 DEF Reading, g, p
  <2>10. GoodTop(g, keys)
    BY <2>6, <2>7 DEF GoodTop
  <2> QED BY <2>6, <2>9, <2>10
<1>5. CASE \E step \in MarkerStores : ReadMarker(step)
  <2>1. PICK step \in MarkerStores : ReadMarker(step)
    BY <1>5
  <2> DEFINE l == [type |-> "S", page |-> MarkerPage, off |-> 0]
             h == [Marked(top, step[2]) EXCEPT !.at = step[3]]
  <2>2. /\ top.at = step[1] /\ MayStore(p, step[2])
        /\ \E random \in Random : stack' = Append(Front(stack), Simplified(h, l, random))
        /\ Used(p, step[3], l) /\ UNCHANGED <<runs, simplified, children, files>>
    BY <2>1, Zenon DEF ReadMarker, Replaced
  <2>3. PICK random \in Random : stack' = Append(Front(stack), Simplified(h, l, random))
    BY <2>2
  <2>4. "S" \in Types \cup {"S"} /\ MarkerPage \in Pages \cup {MarkerPage} /\ 0 \in Nat
    OBVIOUS
  <2>5. Simulated(l) \in Line /\ Key(Simulated(l)) = Key(l)
    BY <2>4, SimulatedLine
  <2>6. /\ h \in Acts(Procs) /\ Stage(h) /\ h.pid = top.pid /\ h.as = top.as
        /\ h.buf = top.buf /\ h.file = top.file /\ h.at = step[3]
    BY <1>1, <2>2, MarkedEffect
  <2> HIDE DEF l, old, p, h
  <2> DEFINE g == Simplified(h, l, random)
             keys == NewKeys(h, l, old)
  <2>7. /\ g \in Acts(Procs) /\ SameActivation(h, g) /\ Len(g.buf) < BufSize /\ Grown(h, g)
        /\ keys \in Seq(KeySet) /\ InOrderOfLastUse(keys, Uses(g.file, g.buf))
    <3>1. Len(h.buf) < BufSize /\ InOrderOfLastUse(old, Uses(h.file, h.buf))
      BY <1>1, <1>3, <2>6
    <3> QED BY <1>2, <2>5, <2>6, <3>1, SimplifiedEffect
  <2> HIDE DEF g
  <2>8. g.pid = top.pid /\ Stage(g) /\ g.at = step[3]
    <3>1. g.pid = h.pid /\ g.at = h.at /\ g.found = h.found /\ g.ignore = h.ignore
      BY <2>7, Zenon DEF SameActivation
    <3>2. Stage(g)
      BY <2>6, <3>1, Zenon DEF Stage
    <3> QED BY <2>6, <3>1, <3>2
  <2>9. ForksLeft(children, g)
    <3> SUFFICES ASSUME step[3] \in {"fork369", "fork", "parent"} PROVE children[p] # <<>>
      BY <2>8 DEF ForksLeft, p
    <3>1. step[2] = "fork369_start" \/ step[1] \in {"fork369", "fork"}
      <4>1. \A a, m, b : step = <<a, m, b>> => step[1] = a /\ step[2] = m /\ step[3] = b
        OBVIOUS
      <4>2. step[3] \notin {"user", "registered", "again", "ended", "ended again"}
        OBVIOUS
      <4> QED BY <4>1, <4>2, Zenon DEF MarkerStores
    <3>2. CASE step[2] = "fork369_start"
      BY <2>2, <3>2 DEF MayStore
    <3>3. CASE step[1] \in {"fork369", "fork"}
      BY <1>3, <2>2, <3>3 DEF ForksLeft, p
    <3> QED BY <3>1, <3>2, <3>3
  <2>10. recency' = [recency EXCEPT ![p] = keys]
    <3>1. (h.found /\ ~h.ignore) <=> step[3] \in Recorded
      BY <2>6, StageRecorded
    <3> QED BY <1>1, <1>2, <2>2, <3>1, UsedEffect DEF old
  <2> HIDE DEF keys
  <2>11. Reading(g, keys)
    BY <2>2, <2>3, <2>10 DEF Reading, g, p
  <2>12. Grown(top, g)
    BY <2>6, <2>7 DEF Grown
  <2>13. GoodTop(g, keys)
    BY <2>7, <2>8, <2>9, <2>12 DEF GoodTop
  <2> QED BY <2>7, <2>11, <2>13
<1> QED BY <1>4, <1>5 DEF ReadLine

(* The stack after a step.                                                 *)
LEMMA StackPopped ==
  ASSUME NEW S, NEW s \in Seq(S), s # <<>>
  PROVE  /\ Front(s) \in Seq(S) /\ Len(Front(s)) = Len(s) - 1
         /\ \A i \in 1 .. Len(s) - 1 : Front(s)[i] = s[i]
<1> DEFINE n == Len(s)
           f == Front(s)
<1>1. n \in Nat \ {0} /\ \A i \in 1 .. n : s[i] \in S
  BY EmptySeq, ElementOfSeq
<1>2. f = SubSeq(s, 1, n - 1)
  BY DEF Front
<1> HIDE DEF f, n
<1>3. \A i \in 1 .. n - 1 : s[i] \in S
  BY <1>1
<1>4. /\ f \in Seq(S) /\ Len(f) = (IF 1 <= n - 1 THEN (n - 1) - 1 + 1 ELSE 0)
      /\ \A i \in 1 .. (n - 1) - 1 + 1 : f[i] = s[1 + i - 1]
  BY <1>1, <1>2, <1>3, SubSeqProperties
<1>5. Len(f) = n - 1
  BY <1>1, <1>4
<1>6. ASSUME NEW i \in 1 .. n - 1 PROVE f[i] = s[i]
  <2>1. i \in 1 .. (n - 1) - 1 + 1 /\ 1 + i - 1 = i
    BY <1>1
  <2> QED BY <1>4, <2>1
<1> QED BY <1>4, <1>5, <1>6 DEF f, n

LEMMA StackReplaced ==
  ASSUME NEW S, NEW s \in Seq(S), s # <<>>, NEW g \in S
  PROVE  /\ Append(Front(s), g) \in Seq(S) /\ Len(Append(Front(s), g)) = Len(s)
         /\ \A i \in 1 .. Len(s) : Append(Front(s), g)[i] = IF i = Len(s) THEN g ELSE s[i]
<1> DEFINE n == Len(s)
           f == Front(s)
           a == Append(f, g)
<1>1. n \in Nat \ {0} /\ f \in Seq(S) /\ Len(f) = n - 1 /\ \A i \in 1 .. n - 1 : f[i] = s[i]
  BY EmptySeq, StackPopped
<1> HIDE DEF f
<1>2. /\ a \in Seq(S) /\ Len(a) = Len(f) + 1 /\ a[Len(f) + 1] = g
      /\ \A i \in 1 .. Len(f) : a[i] = f[i]
  BY <1>1, AppendProperties
<1> HIDE DEF a, n
<1>3. \A i \in 1 .. n : a[i] = IF i = n THEN g ELSE s[i]
  BY <1>1, <1>2
<1>4. Len(a) = n
  BY <1>1, <1>2
<1> QED BY <1>2, <1>3, <1>4 DEF a, f, n

LEMMA StackGrown ==
  ASSUME NEW S, NEW s \in Seq(S), s # <<>>, NEW g \in S, NEW h \in S
  PROVE  /\ Front(s) \o <<g, h>> \in Seq(S) /\ Len(Front(s) \o <<g, h>>) = Len(s) + 1
         /\ \A i \in 1 .. Len(s) + 1 :
              (Front(s) \o <<g, h>>)[i] = IF i < Len(s) THEN s[i] ELSE IF i = Len(s) THEN g ELSE h
<1> DEFINE n == Len(s)
           f == Front(s)
           t == <<g, h>>
           b == f \o t
<1>1. n \in Nat \ {0} /\ f \in Seq(S) /\ Len(f) = n - 1 /\ \A i \in 1 .. n - 1 : f[i] = s[i]
  BY EmptySeq, StackPopped
<1>2. t \in Seq(S) /\ Len(t) = 2 /\ t[1] = g /\ t[2] = h
  OBVIOUS
<1> HIDE DEF f, t
<1>3. /\ b \in Seq(S) /\ Len(b) = Len(f) + Len(t)
      /\ \A i \in 1 .. Len(f) + Len(t) : b[i] = IF i <= Len(f) THEN f[i] ELSE t[i - Len(f)]
  BY <1>1, <1>2, ConcatProperties
<1> HIDE DEF b, n
<1>4. Len(b) = n + 1 /\ Len(f) + Len(t) = n + 1
  BY <1>1, <1>2, <1>3
<1>5. ASSUME NEW i \in 1 .. n + 1
      PROVE  b[i] = IF i < n THEN s[i] ELSE IF i = n THEN g ELSE h
  <2>1. b[i] = IF i <= Len(f) THEN f[i] ELSE t[i - Len(f)]
    BY <1>3, <1>4
  <2>2. CASE i < n
    BY <1>1, <2>1, <2>2
  <2>3. CASE i = n
    <3>1. i - Len(f) = 1 /\ ~(i <= Len(f))
      BY <1>1, <2>3
    <3> QED BY <1>1, <1>2, <2>1, <2>3, <3>1
  <2>4. CASE i = n + 1
    <3>1. i - Len(f) = 2 /\ ~(i <= Len(f)) /\ ~(i < n) /\ i # n
      BY <1>1, <2>4
    <3> QED BY <1>2, <2>1, <3>1
  <2> QED BY <1>1, <2>2, <2>3, <2>4
<1> QED BY <1>3, <1>4, <1>5 DEF b, f, t, n

LEMMA NoUses == InOrderOfLastUse(<<>>, Uses(<<>>, <<>>))
<1> DEFINE e == <<>>
           u == Uses(e, e)
<1>1. e \in Seq(Nat) /\ Len(e) = 0 /\ DOMAIN e = {} /\ IsInjective(e) /\ ToSet(e) = {}
  <2>1. e \in Seq(Nat) /\ Len(e) = 0 /\ DOMAIN e = {}
    OBVIOUS
  <2> QED BY <2>1 DEF IsInjective, ToSet
<1>2. DOMAIN u = {}
  BY DEF Uses
<1>3. Range(u) = {}
  BY <1>2 DEF Range
<1> HIDE DEF u, e
<1>4. InOrderOfLastUse(e, u)
  BY <1>1, <1>3 DEF InOrderOfLastUse
<1> QED BY <1>4 DEF u, e

(* A line that is read keeps the invariant.                                *)
LEMMA ReadKept ==
  ASSUME SimplifyTypes, Births, OrderKept, stack # <<>>,
         NEW g \in Acts(Procs), NEW keys \in Seq(KeySet), Reading(g, keys), GoodTop(g, keys)
  PROVE  SimplifyTypes' /\ Births' /\ OrderKept'
<1> DEFINE n == Len(stack)
           p == top.pid
<1>1. /\ n \in Nat \ {0} /\ DOMAIN stack = 1 .. n
      /\ top = stack[n] /\ top \in Acts(Procs) /\ p \in Procs
  BY TopOfStack
<1>2. /\ stack' = Append(Front(stack), g) /\ recency' = [recency EXCEPT ![p] = keys]
      /\ UNCHANGED <<runs, simplified, children, files>> /\ UNCHANGED Procs
  BY DEF Reading, Procs
<1>3. /\ stack' \in Seq(Acts(Procs)) /\ Len(stack') = n /\ DOMAIN stack' = 1 .. n
      /\ \A i \in 1 .. n : stack'[i] = IF i = n THEN g ELSE stack[i]
  <2>1. stack \in Seq(Acts(Procs))
    BY DEF SimplifyTypes
  <2>2. /\ stack' \in Seq(Acts(Procs)) /\ Len(stack') = n
        /\ \A i \in 1 .. n : stack'[i] = IF i = n THEN g ELSE stack[i]
    BY <1>2, <2>1, StackReplaced
  <2> QED BY <2>2, LenProperties
<1>4. /\ g.pid = p /\ Len(g.buf) < BufSize /\ Stage(g) /\ ForksLeft(children, g)
      /\ InOrderOfLastUse(keys, Uses(g.file, g.buf))
  BY DEF GoodTop
<1> HIDE DEF n, p
<1>5. \A i \in 1 .. n : stack'[i].pid = stack[i].pid
  BY <1>1, <1>3, <1>4 DEF p
<1>6. \A c : OnStack(c)' <=> OnStack(c)
  BY <1>1, <1>3, <1>5 DEF OnStack
<1>7. \A c \in Procs : Fresh(c) => Fresh(c)'
  <2> SUFFICES ASSUME NEW c \in Procs, Fresh(c) PROVE Fresh(c)'
    OBVIOUS
  <2>1. c # p
    <3>1. OnStack(p)
      BY <1>1 DEF OnStack, p
    <3> QED BY <3>1 DEF Fresh
  <2>2. recency'[c] = recency[c]
    BY <1>1, <1>2, <2>1 DEF SimplifyTypes
  <2> QED BY <1>2, <1>6, <2>2 DEF Fresh
<1>8. SimplifyTypes'
  <2>1. ASSUME NEW i \in DOMAIN stack' PROVE Len(stack'[i].buf) < BufSize /\ Stage(stack'[i])
    <3>1. CASE i = n
      BY <1>1, <1>3, <1>4, <3>1
    <3>2. CASE i # n
      BY <1>1, <1>3, <3>2 DEF SimplifyTypes
    <3> QED BY <3>1, <3>2
  <2>2. recency' \in [Procs -> Seq(KeySet)]
    BY <1>1, <1>2 DEF SimplifyTypes
  <2> QED BY <1>2, <1>3, <2>1, <2>2 DEF SimplifyTypes
<1>9. Births'
  <2>1. \A i, j \in DOMAIN stack' : stack'[i].pid = stack'[j].pid => i = j
    BY <1>1, <1>3, <1>5 DEF Births
  <2>2. ASSUME NEW i \in DOMAIN stack' PROVE ForksLeft(children', stack'[i])
    <3>1. ForksLeft(children, stack'[i])
      <4>1. CASE i = n
        BY <1>1, <1>3, <1>4, <4>1
      <4>2. CASE i # n
        BY <1>1, <1>3, <4>2 DEF Births
      <4> QED BY <4>1, <4>2
    <3>2. children' = children
      BY <1>2
    <3> QED BY <3>1, <3>2
  <2>3. ASSUME NEW q \in Procs, NEW c \in ToSet(children[q]) PROVE Fresh(c)'
    <3>1. c \in Procs /\ Fresh(c)
      <4>1. children[q] \in Seq(Procs)
        BY DEF SimplifyTypes
      <4> QED BY <4>1, QueueEmpty DEF Births
    <3> QED BY <1>7, <3>1
  <2>4. ASSUME NEW c \in Procs, NEW k \in DOMAIN runs, k > simplified + 1, runs[k].pid = c
        PROVE  Fresh(c)'
    BY <1>7, <2>4 DEF Births
  <2> QED BY <1>2, <2>1, <2>2, <2>3, <2>4 DEF Births
<1>10. OrderKept'
  <2>1. ASSUME NEW i \in DOMAIN stack'
        PROVE  InOrderOfLastUse(recency'[stack'[i].pid], Uses(stack'[i].file, stack'[i].buf))
    <3>1. CASE i = n
      <4>1. recency'[p] = keys
        BY <1>1, <1>2 DEF SimplifyTypes
      <4> QED BY <1>1, <1>3, <1>4, <3>1, <4>1
    <3>2. CASE i # n
      <4>1. stack'[i] = stack[i] /\ i \in DOMAIN stack
        BY <1>1, <1>3, <3>2
      <4>2. stack[i].pid # p /\ stack[i].pid \in Procs
        <5>1. stack[i] \in Acts(Procs)
          BY <1>1, <1>3, <4>1, ElementOfSeq DEF SimplifyTypes
        <5>2. stack[i].pid # p
          BY <1>1, <3>2, <4>1 DEF Births, p
        <5> QED BY <5>1, <5>2 DEF Acts
      <4>3. recency'[stack[i].pid] = recency[stack[i].pid]
        BY <1>1, <1>2, <4>2 DEF SimplifyTypes
      <4> QED BY <4>1, <4>3 DEF OrderKept
    <3> QED BY <3>1, <3>2
  <2>2. ASSUME NEW q \in Procs, ~OnStack(q)'
        PROVE  InOrderOfLastUse(recency'[q], Uses(files'[q], <<>>))
    <3>1. ~OnStack(q) /\ q # p
      <4>1. OnStack(p)
        BY <1>1 DEF OnStack, p
      <4> QED BY <1>6, <2>2, <4>1
    <3>2. recency'[q] = recency[q]
      BY <1>1, <1>2, <3>1 DEF SimplifyTypes
    <3> QED BY <1>2, <3>1, <3>2 DEF OrderKept
  <2> QED BY <1>2, <2>1, <2>2 DEF OrderKept
<1> QED BY <1>8, <1>9, <1>10

(* At a fork the buffer is written and an F line after it; the child goes  *)
(* on with the address space the parent then has.                          *)
ForkWritten(f, e, g, child) ==
  /\ e.buf = <<>> /\ SameActivation(f, e) /\ Grown(f, e) /\ Uses(e.file, <<>>) = Uses(f.file, f.buf)
  /\ \E x \in ForkLine(Procs) : x.addr = child /\ g.file = Append(e.file, x)
  /\ g.buf = <<>> /\ g.as = e.as /\ g.pid = f.pid /\ g.at = "registered"
  /\ g.found = f.found /\ g.ignore = f.ignore

LEMMA WriteForkEffect ==
  ASSUME NEW f \in Acts(Procs), Len(f.buf) <= BufSize, NEW child \in Procs, NEW random \in Random
  PROVE  LET g == [WriteFork(f, child, random) EXCEPT !.at = "registered"]
         IN  g \in Acts(Procs) /\ \E e \in Acts(Procs) : ForkWritten(f, e, g, child)
<1> DEFINE e == FlushWriter(f, random)
           x == [type |-> "F", addr |-> child, value |-> 0]
           file == Append(e.file, x)
           at == "registered"
           g == [WriteFork(f, child, random) EXCEPT !.at = at]
<1>1. e \in Acts(Procs) /\ e.buf = <<>> /\ SameActivation(f, e) /\ WrittenOut(f, e) /\ Explained(f, e)
  BY FlushEffect
<1>2. g = [e EXCEPT !.file = file, !.at = at]
  BY DEF WriteFork
<1> HIDE DEF e
<1>3. Grown(f, e) /\ Uses(e.file, <<>>) = Uses(f.file, f.buf)
  BY <1>1, FlushGrown, UsesOfFlush
<1>4. x \in ForkLine(Procs) /\ x.addr = child
  BY DEF ForkLine
<1>5. at \in {"before", "user", "fork369", "fork", "parent", "child", "registered", "again",
              "ended", "ended again"}
  OBVIOUS
<1> HIDE DEF x
<1>6. file \in Seq(FileLine(Procs))
  <2>1. e.file \in Seq(FileLine(Procs)) /\ x \in FileLine(Procs)
    BY <1>1, <1>4 DEF Acts, FileLine
  <2> QED BY <2>1, AppendProperties
<1> HIDE DEF g, at
<1>7. g.file = file
  BY <1>1, <1>2 DEF Acts
<1>8. \E y \in ForkLine(Procs) : y.addr = child /\ g.file = Append(e.file, y)
  BY <1>4, <1>7
<1> HIDE DEF file
<1>9. g \in Acts(Procs)
  BY <1>1, <1>2, <1>5, <1>6 DEF Acts
<1>10. /\ g.buf = e.buf /\ g.as = e.as /\ g.pid = e.pid /\ g.at = at
       /\ g.found = e.found /\ g.ignore = e.ignore
  BY <1>1, <1>2 DEF Acts
<1>11. g.pid = f.pid /\ g.found = f.found /\ g.ignore = f.ignore
  BY <1>1, <1>10, Zenon DEF SameActivation
<1>12. ForkWritten(f, e, g, child)
  BY <1>1, <1>3, <1>8, <1>10, <1>11 DEF ForkWritten, at
<1> QED BY <1>1, <1>9, <1>12 DEF g, at

Forking(g, h, child) ==
  /\ stack' = Front(stack) \o <<g, h>>
  /\ children' = [children EXCEPT ![top.pid] = Tail(children[top.pid])]
  /\ UNCHANGED <<runs, simplified, files, recency>>
GoodFork(e, g, h, child) ==
  /\ children[top.pid] # <<>> /\ child = Head(children[top.pid])
  /\ ForkWritten(top, e, g, child) /\ Stage(g) /\ Stage(h)
  /\ h.pid = child /\ h.as = g.as /\ h.buf = <<>> /\ h.file = <<>> /\ h.at = "child"

LEMMA ForkEffect ==
  ASSUME SimplifyTypes, Births, stack # <<>>, ReadIsParent
  PROVE  \E e, g, h \in Acts(Procs), child \in Procs :
           Forking(g, h, child) /\ GoodFork(e, g, h, child)
<1> DEFINE p == top.pid
           child == Head(children[p])
<1>1. /\ Len(stack) \in Nat \ {0} /\ DOMAIN stack = 1 .. Len(stack)
      /\ top = stack[Len(stack)] /\ top \in Acts(Procs) /\ p \in Procs
      /\ Len(top.buf) < BufSize /\ Stage(top)
  BY TopOfStack
<1>2. /\ top.at = "parent"
      /\ \E random \in Random :
           stack' = Front(stack) \o
                      <<[WriteFork(top, child, random) EXCEPT !.at = "registered"],
                        ChildActivation(top, [WriteFork(top, child, random) EXCEPT !.at = "registered"],
                                        child)>>
      /\ children' = [children EXCEPT ![p] = Tail(@)]
      /\ UNCHANGED <<runs, simplified, files, recency>>
  BY Zenon DEF ReadIsParent
<1>3. PICK random \in Random :
           stack' = Front(stack) \o
                      <<[WriteFork(top, child, random) EXCEPT !.at = "registered"],
                        ChildActivation(top, [WriteFork(top, child, random) EXCEPT !.at = "registered"],
                                        child)>>
  BY <1>2
<1>4. children[p] # <<>>
  <2>1. Len(stack) \in DOMAIN stack
    BY <1>1
  <2>2. ForksLeft(children, top)
    BY <1>1, <2>1 DEF Births
  <2> QED BY <1>2, <2>2 DEF ForksLeft
<1>5. children[p] \in Seq(Procs) /\ child \in Procs
  <2>1. children[p] \in Seq(Procs)
    BY <1>1 DEF SimplifyTypes
  <2> QED BY <1>4, <2>1, HeadTailProperties
<1> DEFINE g == [WriteFork(top, child, random) EXCEPT !.at = "registered"]
           h == ChildActivation(top, g, child)
<1>6. g \in Acts(Procs) /\ \E e \in Acts(Procs) : ForkWritten(top, e, g, child)
  <2>1. Len(top.buf) <= BufSize
    <3>1. Len(top.buf) \in Nat
      BY <1>1, LenProperties DEF Acts
    <3> QED BY <1>1, <3>1, Sizes1
  <2> HIDE DEF child
  <2> QED BY <1>1, <1>5, <2>1, WriteForkEffect
<1>7. PICK e \in Acts(Procs) : ForkWritten(top, e, g, child)
  BY <1>6
<1>8. /\ g.pid = top.pid /\ g.at = "registered" /\ g.found = top.found /\ g.ignore = top.ignore
      /\ g.as = e.as
  BY <1>7, Zenon DEF ForkWritten
<1>9. stack' = Front(stack) \o <<g, h>>
  BY <1>3
<1>10. h = [pid |-> child, found |-> g.found, ignore |-> FALSE, as |-> g.as, buf |-> <<>>,
            file |-> <<>>, at |-> "child"]
  BY DEF ChildActivation, Activation
<1> HIDE DEF g, h, child
<1>11. /\ h.pid = child /\ h.found = g.found /\ h.as = g.as /\ h.buf = <<>> /\ h.file = <<>>
       /\ h.at = "child" /\ h.ignore = FALSE
  BY <1>10
<1>12. h \in Acts(Procs)
  <2>1. g.found \in BOOLEAN /\ g.as \in AsMap
    BY <1>6 DEF Acts
  <2>2. <<>> \in Seq(Line) /\ <<>> \in Seq(FileLine(Procs))
    OBVIOUS
  <2> QED BY <1>5, <1>10, <2>1, <2>2 DEF Acts
<1>13. top.found /\ top.ignore
  <2>1. top.at # "before" /\ top.at \in Unrecorded
    BY <1>2 DEF Unrecorded
  <2> QED BY <1>1, <2>1, Zenon DEF Stage
<1>14. Stage(g)
  <2>1. g.at # "before" /\ g.at \in Unrecorded
    BY <1>8 DEF Unrecorded
  <2> QED BY <1>8, <1>13, <2>1, Zenon DEF Stage
<1>15. Stage(h)
  <2>1. h.at # "before" /\ h.at \notin Unrecorded
    BY <1>11 DEF Unrecorded
  <2> QED BY <1>8, <1>11, <1>13, <2>1, Zenon DEF Stage
<1>16. Forking(g, h, child)
  BY <1>2, <1>9 DEF Forking, p
<1>17. GoodFork(e, g, h, child)
  BY <1>4, <1>7, <1>11, <1>14, <1>15, Zenon DEF GoodFork, child, p
<1> QED BY <1>5, <1>6, <1>12, <1>16, <1>17

(* A fork keeps the invariant.                                             *)
LEMMA ForkKept ==
  ASSUME SimplifyTypes, Births, OrderKept, stack # <<>>,
         NEW e \in Acts(Procs), NEW g \in Acts(Procs), NEW h \in Acts(Procs), NEW child \in Procs,
         Forking(g, h, child), GoodFork(e, g, h, child)
  PROVE  SimplifyTypes' /\ Births' /\ OrderKept'
<1> DEFINE n == Len(stack)
           p == top.pid
           own == children[p]
<1>1. /\ n \in Nat \ {0} /\ DOMAIN stack = 1 .. n
      /\ top = stack[n] /\ top \in Acts(Procs) /\ p \in Procs
  BY TopOfStack
<1>2. /\ stack' = Front(stack) \o <<g, h>> /\ children' = [children EXCEPT ![p] = Tail(own)]
      /\ UNCHANGED <<runs, simplified, files, recency>> /\ UNCHANGED Procs
  BY DEF Forking, Procs
<1>3. /\ stack' \in Seq(Acts(Procs)) /\ Len(stack') = n + 1 /\ DOMAIN stack' = 1 .. n + 1
      /\ \A i \in 1 .. n + 1 : stack'[i] = IF i < n THEN stack[i] ELSE IF i = n THEN g ELSE h
  <2>1. stack \in Seq(Acts(Procs))
    BY DEF SimplifyTypes
  <2>2. /\ stack' \in Seq(Acts(Procs)) /\ Len(stack') = n + 1
        /\ \A i \in 1 .. n + 1 : stack'[i] = IF i < n THEN stack[i] ELSE IF i = n THEN g ELSE h
    BY <1>2, <2>1, StackGrown
  <2> QED BY <2>2, LenProperties
<1>4. /\ own # <<>> /\ child = Head(own)
      /\ ForkWritten(top, e, g, child) /\ Stage(g) /\ Stage(h)
      /\ h.pid = child /\ h.buf = <<>> /\ h.file = <<>> /\ h.at = "child"
  BY DEF GoodFork
<1>5. /\ g.pid = p /\ g.buf = <<>> /\ g.at = "registered"
      /\ Uses(e.file, <<>>) = Uses(top.file, top.buf)
      /\ \E x \in ForkLine(Procs) : x.addr = child /\ g.file = Append(e.file, x)
  BY <1>4, Zenon DEF ForkWritten
<1>6. /\ own \in Seq(Procs) /\ IsInjective(own)
      /\ child \in ToSet(own) /\ Tail(own) \in Seq(Procs) /\ IsInjective(Tail(own))
      /\ ToSet(Tail(own)) = ToSet(own) \ {child}
  <2>1. own \in Seq(Procs) /\ IsInjective(own)
    BY <1>1 DEF SimplifyTypes, Births
  <2> HIDE DEF own
  <2> QED BY <1>4, <2>1, QueueTail
<1> HIDE DEF n, p, own
<1>7. /\ children'[p] = Tail(own) /\ \A q \in Procs : q # p => children'[q] = children[q]
      /\ children' \in [Procs -> Seq(Procs)]
  BY <1>1, <1>2, <1>6 DEF SimplifyTypes
<1>8. Fresh(child)
  BY <1>1, <1>6 DEF Births, own
<1>9. \A i \in 1 .. n : stack'[i].pid = stack[i].pid
  BY <1>1, <1>3, <1>5 DEF p
<1>10. stack'[n + 1] = h /\ stack'[n] = g /\ n \in 1 .. n + 1 /\ n + 1 \in 1 .. n + 1
       /\ \A i \in 1 .. n + 1 : i = n + 1 \/ i = n \/ (i \in 1 .. n /\ i < n)
  BY <1>1, <1>3
<1>11. \A c : OnStack(c)' <=> (OnStack(c) \/ c = child)
  <2> SUFFICES ASSUME NEW c PROVE OnStack(c)' <=> (OnStack(c) \/ c = child)
    OBVIOUS
  <2>1. ASSUME NEW i \in DOMAIN stack', stack'[i].pid = c PROVE OnStack(c) \/ c = child
    <3>1. CASE i = n + 1
      BY <1>4, <1>10, <2>1, <3>1
    <3>2. CASE i # n + 1
      <4>1. i \in DOMAIN stack /\ stack[i].pid = c
        BY <1>1, <1>3, <1>9, <2>1, <3>2
      <4> QED BY <4>1 DEF OnStack
    <3> QED BY <3>1, <3>2
  <2>2. ASSUME NEW i \in DOMAIN stack, stack[i].pid = c PROVE OnStack(c)'
    <3>1. i \in DOMAIN stack' /\ stack'[i].pid = c
      BY <1>1, <1>3, <1>9, <2>2
    <3> QED BY <3>1 DEF OnStack
  <2>3. OnStack(child)'
    BY <1>3, <1>4, <1>10 DEF OnStack
  <2> QED BY <2>1, <2>2, <2>3 DEF OnStack
<1>12. \A c : (Fresh(c) /\ c # child) => Fresh(c)'
  BY <1>2, <1>11 DEF Fresh
<1>13. \A q \in Procs : ToSet(children'[q]) = ToSet(children[q]) \ {child}
  <2> SUFFICES ASSUME NEW q \in Procs PROVE ToSet(children'[q]) = ToSet(children[q]) \ {child}
    OBVIOUS
  <2>1. CASE q = p
    BY <1>6, <1>7, <2>1 DEF own
  <2>2. CASE q # p
    <3>1. child \notin ToSet(children[q])
      BY <1>1, <1>6, <2>2 DEF Births, own
    <3> QED BY <1>7, <2>2, <3>1
  <2> QED BY <2>1, <2>2
<1>14. SimplifyTypes'
  <2>1. ASSUME NEW i \in DOMAIN stack' PROVE Len(stack'[i].buf) < BufSize /\ Stage(stack'[i])
    <3>1. Len(<<>>) = 0 /\ BufSize > 0
      BY Sizes1
    <3>2. CASE i = n + 1 \/ i = n
      BY <1>4, <1>5, <1>10, <3>1, <3>2
    <3>3. CASE i # n + 1 /\ i # n
      BY <1>1, <1>3, <1>10, <3>3 DEF SimplifyTypes
    <3> QED BY <3>2, <3>3
  <2> QED BY <1>2, <1>3, <1>7, <2>1 DEF SimplifyTypes
<1>15. Births'
  <2>1. \A i, j \in DOMAIN stack' : stack'[i].pid = stack'[j].pid => i = j
    <3>1. \A i \in 1 .. n : stack'[i].pid # child
      BY <1>1, <1>8, <1>9 DEF Fresh, OnStack
    <3>2. \A i, j \in 1 .. n : stack'[i].pid = stack'[j].pid => i = j
      BY <1>1, <1>9 DEF Births
    <3>3. stack'[n + 1].pid = child
      BY <1>4, <1>10
    <3> QED BY <1>1, <1>3, <1>10, <3>1, <3>2, <3>3
  <2>2. ASSUME NEW i \in DOMAIN stack' PROVE ForksLeft(children', stack'[i])
    <3>1. CASE i = n + 1
      BY <1>4, <1>10, <3>1 DEF ForksLeft
    <3>2. CASE i = n
      BY <1>5, <1>10, <3>2 DEF ForksLeft
    <3>3. CASE i # n + 1 /\ i # n
      <4>1. stack'[i] = stack[i] /\ i \in 1 .. n /\ i \in DOMAIN stack
        BY <1>1, <1>3, <1>10, <3>3
      <4>2. ForksLeft(children, stack[i])
        BY <4>1 DEF Births
      <4>3. stack[i].pid # p /\ stack[i].pid \in Procs
        <5>1. stack[i] \in Acts(Procs)
          BY <1>1, <4>1, ElementOfSeq DEF SimplifyTypes
        <5>2. stack[i].pid # p
          BY <1>1, <3>3, <4>1 DEF Births, p
        <5> QED BY <5>1, <5>2 DEF Acts
      <4>4. children'[stack[i].pid] = children[stack[i].pid]
        BY <1>7, <4>3
      <4> QED BY <4>1, <4>2, <4>4 DEF ForksLeft
    <3> QED BY <3>1, <3>2, <3>3
  <2>3. \A q \in Procs : IsInjective(children'[q])
    BY <1>6, <1>7 DEF Births
  <2>4. ASSUME NEW q \in Procs, NEW c \in ToSet(children'[q])
        PROVE  /\ Fresh(c)'
               /\ \A r \in Procs : c \in ToSet(children'[r]) => r = q
               /\ \A k \in DOMAIN runs : runs[k].pid # c
    <3>1. c \in ToSet(children[q]) /\ c # child
      BY <1>13
    <3>2. /\ Fresh(c) /\ \A r \in Procs : c \in ToSet(children[r]) => r = q
          /\ \A k \in DOMAIN runs : runs[k].pid # c
      BY <3>1 DEF Births
    <3> QED BY <1>12, <1>13, <3>1, <3>2
  <2>5. ASSUME NEW c \in Procs, NEW k \in DOMAIN runs, k > simplified + 1, runs[k].pid = c
        PROVE  Fresh(c)'
    <3>1. Fresh(c)
      BY <2>5 DEF Births
    <3>2. c # child
      BY <1>1, <1>6, <2>5 DEF Births, own
    <3> QED BY <1>12, <3>1, <3>2
  <2> QED BY <1>2, <2>1, <2>2, <2>3, <2>4, <2>5 DEF Births
<1>16. OrderKept'
  <2>1. ASSUME NEW i \in DOMAIN stack'
        PROVE  InOrderOfLastUse(recency[stack'[i].pid], Uses(stack'[i].file, stack'[i].buf))
    <3>1. CASE i = n + 1
      <4>1. recency[child] = <<>>
        BY <1>8 DEF Fresh
      <4> QED BY <1>4, <1>10, <3>1, <4>1, NoUses
    <3>2. CASE i = n
      <4>1. PICK x \in ForkLine(Procs) : g.file = Append(e.file, x)
        BY <1>5
      <4>2. e.file \in Seq(FileLine(Procs))
        BY DEF Acts
      <4>3. Uses(g.file, <<>>) = Uses(top.file, top.buf)
        BY <1>5, <4>1, <4>2, UsesOfFork
      <4>4. InOrderOfLastUse(recency[p], Uses(top.file, top.buf))
        BY <1>1 DEF OrderKept, p
      <4> QED BY <1>5, <1>10, <3>2, <4>3, <4>4
    <3>3. CASE i # n + 1 /\ i # n
      <4>1. stack'[i] = stack[i] /\ i \in 1 .. n /\ i \in DOMAIN stack
        BY <1>1, <1>3, <1>10, <3>3
      <4> QED BY <4>1 DEF OrderKept
    <3> QED BY <3>1, <3>2, <3>3
  <2>2. ASSUME NEW q \in Procs, ~OnStack(q)'
        PROVE  InOrderOfLastUse(recency[q], Uses(files[q], <<>>))
    BY <1>11, <2>2 DEF OrderKept
  <2> QED BY <1>2, <2>1, <2>2 DEF OrderKept
<1> QED BY <1>14, <1>15, <1>16

(* At the end of a log the file is complete, and the caller goes on; after *)
(* the log of a program the next program is simplified.                    *)
Ending(e) ==
  /\ files' = [files EXCEPT ![top.pid] = e.file] /\ UNCHANGED <<runs, children, recency>>
  /\ simplified' \in Nat
  /\ \/ stack' = Front(stack) /\ (Len(stack) = 1 \/ simplified' = simplified)
     \/ /\ Len(stack) = 1 /\ simplified' = simplified + 1
        /\ \E k \in DOMAIN runs : k = simplified + 2 /\ stack' = <<Main(runs[k].pid)>>
GoodEnd(e) == Grown(top, e) /\ Uses(e.file, <<>>) = Uses(top.file, top.buf)

LEMMA EndEffect ==
  ASSUME SimplifyTypes, stack # <<>>, EndOfLog
  PROVE  \E e \in Acts(Procs) : Ending(e) /\ GoodEnd(e)
<1>1. /\ Len(stack) \in Nat \ {0} /\ top \in Acts(Procs) /\ Len(top.buf) < BufSize
      /\ simplified \in Nat /\ runs \in Runs
  BY TopOfStack DEF SimplifyTypes
<1>2. /\ \E random \in Random : files' = [files EXCEPT ![top.pid] = FlushWriter(top, random).file]
      /\ simplified' = IF Len(stack) = 1 THEN simplified + 1 ELSE simplified
      /\ stack' = IF Len(stack) = 1 /\ simplified' < Len(runs)
                  THEN <<Main(runs[simplified' + 1].pid)>> ELSE Front(stack)
      /\ UNCHANGED <<runs, children, recency>>
  BY Zenon DEF EndOfLog
<1>3. PICK random \in Random : files' = [files EXCEPT ![top.pid] = FlushWriter(top, random).file]
  BY <1>2
<1> DEFINE e == FlushWriter(top, random)
<1>4. Len(top.buf) <= BufSize
  <2>1. Len(top.buf) \in Nat
    BY <1>1, LenProperties DEF Acts
  <2> QED BY <1>1, <2>1, Sizes1
<1>5. e \in Acts(Procs) /\ WrittenOut(top, e) /\ Explained(top, e)
  BY <1>1, <1>4, FlushEffect
<1>6. files' = [files EXCEPT ![top.pid] = e.file]
  BY <1>3
<1> HIDE DEF e
<1>7. GoodEnd(e)
  BY <1>1, <1>5, FlushGrown, UsesOfFlush DEF GoodEnd
<1>8. simplified' \in Nat
  BY <1>1, <1>2
<1>9. \/ stack' = Front(stack) /\ (Len(stack) = 1 \/ simplified' = simplified)
      \/ /\ Len(stack) = 1 /\ simplified' = simplified + 1
         /\ \E k \in DOMAIN runs : k = simplified + 2 /\ stack' = <<Main(runs[k].pid)>>
  <2>1. CASE Len(stack) = 1 /\ simplified' < Len(runs)
    <3>1. simplified' = simplified + 1 /\ stack' = <<Main(runs[simplified' + 1].pid)>>
      BY <1>2, <2>1
    <3>2. simplified' + 1 = simplified + 2 /\ simplified' + 1 \in DOMAIN runs
      BY <1>1, <2>1, <3>1, RunFacts
    <3> QED BY <2>1, <3>1, <3>2
  <2>2. CASE ~(Len(stack) = 1 /\ simplified' < Len(runs))
    <3>1. stack' = Front(stack)
      BY <1>2, <2>2
    <3>2. Len(stack) # 1 => simplified' = simplified
      BY <1>2
    <3> QED BY <3>1, <3>2
  <2> QED BY <2>1, <2>2
<1>10. Ending(e)
  BY <1>2, <1>6, <1>8, <1>9, Zenon DEF Ending
<1> QED BY <1>5, <1>7, <1>10

LEMMA MainEffect ==
  ASSUME NEW P, NEW q \in P
  PROVE  /\ Main(q) \in Acts(P) /\ Main(q).pid = q /\ Main(q).at = "before" /\ Stage(Main(q))
         /\ Main(q).buf = <<>> /\ Main(q).file = <<>> /\ Main(q).as = AsMapCreate
<1> DEFINE m == Main(q)
<1>1. m = [pid |-> q, found |-> FALSE, ignore |-> FALSE, as |-> AsMapCreate, buf |-> <<>>,
           file |-> <<>>, at |-> "before"]
  BY DEF Main, Activation
<1>2. AsMapCreate \in AsMap
  BY DEF AsMapCreate, AsMap
<1>3. <<>> \in Seq(Line) /\ <<>> \in Seq(FileLine(P))
  OBVIOUS
<1> HIDE DEF m
<1>4. m \in Acts(P)
  BY <1>1, <1>2, <1>3 DEF Acts
<1>5. /\ m.pid = q /\ m.at = "before" /\ m.buf = <<>> /\ m.file = <<>> /\ m.as = AsMapCreate
      /\ m.found = FALSE /\ m.ignore = FALSE
  BY <1>1
<1>6. Stage(m)
  <2>1. ~(m.at # "before") /\ m.at \notin Unrecorded
    BY <1>5 DEF Unrecorded
  <2> QED BY <1>5, <2>1, Zenon DEF Stage
<1> QED BY <1>4, <1>5, <1>6 DEF m

(* The end of a log keeps the invariant.                                   *)
LEMMA EndKept ==
  ASSUME SimplifyTypes, Births, OrderKept, stack # <<>>,
         NEW e \in Acts(Procs), Ending(e), GoodEnd(e)
  PROVE  SimplifyTypes' /\ Births' /\ OrderKept'
<1> DEFINE n == Len(stack)
           p == top.pid
           Started == {q \in Procs :
                         /\ n = 1 /\ simplified' = simplified + 1 /\ stack' = <<Main(q)>>
                         /\ \E k \in DOMAIN runs : k = simplified + 2 /\ runs[k].pid = q}
<1>1. /\ n \in Nat \ {0} /\ DOMAIN stack = 1 .. n
      /\ top = stack[n] /\ top \in Acts(Procs) /\ p \in Procs
  BY TopOfStack
<1>2. /\ files' = [files EXCEPT ![p] = e.file] /\ UNCHANGED <<runs, children, recency>>
      /\ UNCHANGED Procs /\ simplified' \in Nat /\ simplified \in Nat
      /\ runs \in Runs /\ stack \in Seq(Acts(Procs))
  BY DEF Ending, Procs, SimplifyTypes
<1>3. Uses(e.file, <<>>) = Uses(top.file, top.buf) /\ e.file \in Seq(FileLine(Procs))
  BY DEF GoodEnd, Acts
<1>4. \/ stack' = Front(stack) /\ (n = 1 \/ simplified' = simplified)
      \/ \E q \in Procs : q \in Started
  <2>1. CASE stack' = Front(stack) /\ (n = 1 \/ simplified' = simplified)
    BY <2>1
  <2>2. CASE /\ n = 1 /\ simplified' = simplified + 1
             /\ \E k \in DOMAIN runs : k = simplified + 2 /\ stack' = <<Main(runs[k].pid)>>
    <3>1. PICK k \in DOMAIN runs : k = simplified + 2 /\ stack' = <<Main(runs[k].pid)>>
      BY <2>2
    <3>2. runs[k].pid \in Procs
      BY <1>2, RunFacts DEF Procs
    <3> QED BY <2>2, <3>1, <3>2
  <2> HIDE DEF Started
  <2> QED BY <2>1, <2>2 DEF Ending
<1> HIDE DEF n, p
<1>5. /\ files' \in [Procs -> Seq(FileLine(Procs))] /\ files'[p] = e.file
      /\ \A c \in Procs : c # p => files'[c] = files[c]
  BY <1>1, <1>2, <1>3 DEF SimplifyTypes
<1>6. OnStack(p) /\ \A c \in Procs : Fresh(c) => c # p
  BY <1>1 DEF OnStack, Fresh, p
<1>7. /\ InOrderOfLastUse(recency[p], Uses(files'[p], <<>>))
      /\ \A c \in Procs : (~OnStack(c) => InOrderOfLastUse(recency[c], Uses(files'[c], <<>>)))
  <2>1. InOrderOfLastUse(recency[p], Uses(top.file, top.buf))
    BY <1>1 DEF OrderKept, p
  <2> QED BY <1>3, <1>5, <1>6, <2>1 DEF OrderKept
<1>8. CASE stack' = Front(stack) /\ (n = 1 \/ simplified' = simplified)
  <2>1. /\ stack' \in Seq(Acts(Procs)) /\ Len(stack') = n - 1 /\ DOMAIN stack' = 1 .. n - 1
        /\ \A i \in 1 .. n - 1 : stack'[i] = stack[i]
    <3>1. /\ stack' \in Seq(Acts(Procs)) /\ Len(stack') = n - 1
          /\ \A i \in 1 .. n - 1 : stack'[i] = stack[i]
      BY <1>2, <1>8, StackPopped DEF n
    <3> QED BY <3>1, LenProperties
  <2>2. \A i \in 1 .. n - 1 : i \in DOMAIN stack /\ i # n /\ n \in DOMAIN stack
    BY <1>1
  <2>3. \A c : OnStack(c)' <=> (OnStack(c) /\ c # p)
    <3> SUFFICES ASSUME NEW c PROVE OnStack(c)' <=> (OnStack(c) /\ c # p)
      OBVIOUS
    <3>1. ASSUME NEW i \in DOMAIN stack', stack'[i].pid = c PROVE OnStack(c) /\ c # p
      <4>1. i \in 1 .. n - 1 /\ stack'[i] = stack[i]
        BY <2>1
      <4>2. stack[i].pid = c /\ i \in DOMAIN stack /\ n \in DOMAIN stack /\ i # n
        BY <2>2, <3>1, <4>1
      <4>3. c # p
        BY <1>1, <4>2 DEF Births, p
      <4> QED BY <4>2, <4>3 DEF OnStack
    <3>2. ASSUME NEW i \in DOMAIN stack, stack[i].pid = c, c # p PROVE OnStack(c)'
      <4>1. i # n
        BY <1>1, <3>2 DEF p
      <4>2. i \in DOMAIN stack' /\ stack'[i].pid = c
        BY <1>1, <2>1, <3>2, <4>1
      <4> QED BY <4>2 DEF OnStack
    <3> QED BY <3>1, <3>2 DEF OnStack
  <2>4. \A c \in Procs : Fresh(c) => Fresh(c)'
    BY <1>2, <1>5, <1>6, <2>3 DEF Fresh
  <2>5. SimplifyTypes'
    BY <1>2, <1>5, <2>1, <2>2 DEF SimplifyTypes
  <2>6. Births'
    <3>1. \A i, j \in DOMAIN stack' : stack'[i].pid = stack'[j].pid => i = j
      BY <2>1, <2>2 DEF Births
    <3>2. \A i \in DOMAIN stack' : ForksLeft(children, stack'[i])
      BY <2>1, <2>2 DEF Births
    <3>3. ASSUME NEW q \in Procs, NEW c \in ToSet(children[q]) PROVE Fresh(c)'
      <4>1. c \in Procs /\ Fresh(c)
        <5>1. children[q] \in Seq(Procs)
          BY DEF SimplifyTypes
        <5> QED BY <5>1, QueueEmpty DEF Births
      <4> QED BY <2>4, <4>1
    <3>4. ASSUME NEW c \in Procs, NEW k \in DOMAIN runs, stack' # <<>>, k > simplified' + 1,
                 runs[k].pid = c
          PROVE  Fresh(c)'
      <4>1. n # 1
        <5>1. Len(stack') # 0
          BY <2>1, <3>4, EmptySeq
        <5> QED BY <1>1, <2>1, <5>1
      <4>2. simplified' = simplified
        BY <1>8, <4>1
      <4>3. Fresh(c)
        BY <3>4, <4>2 DEF Births
      <4> QED BY <2>4, <4>3
    <3> QED BY <1>2, <3>1, <3>2, <3>3, <3>4 DEF Births
  <2>7. OrderKept'
    <3>1. \A i \in DOMAIN stack' :
            InOrderOfLastUse(recency[stack'[i].pid], Uses(stack'[i].file, stack'[i].buf))
      BY <2>1, <2>2 DEF OrderKept
    <3>2. \A q \in Procs : ~OnStack(q)' => InOrderOfLastUse(recency[q], Uses(files'[q], <<>>))
      BY <1>7, <2>3
    <3> QED BY <1>2, <3>1, <3>2 DEF OrderKept
  <2> QED BY <2>5, <2>6, <2>7
<1>9. CASE \E q \in Procs : q \in Started
  <2>1. PICK q \in Procs : q \in Started
    BY <1>9
  <2> DEFINE m == Main(q)
  <2>2. n = 1 /\ simplified' = simplified + 1 /\ stack' = <<m>>
    BY <2>1
  <2>3. PICK k \in DOMAIN runs : k = simplified + 2 /\ runs[k].pid = q
    BY <2>1
  <2>4. /\ m \in Acts(Procs) /\ m.pid = q /\ m.at = "before" /\ Stage(m)
        /\ m.buf = <<>> /\ m.file = <<>>
    BY MainEffect
  <2> HIDE DEF m, Started
  <2>5. stack' \in Seq(Acts(Procs)) /\ DOMAIN stack' = {1} /\ stack'[1] = m
    BY <2>2, <2>4
  <2>6. Fresh(q)
    <3>1. k > simplified + 1
      BY <1>2, <2>3
    <3> QED BY <2>3, <3>1 DEF Births
  <2>7. q # p /\ ~OnStack(q) /\ files'[q] = <<>> /\ recency[q] = <<>>
    BY <1>5, <1>6, <2>6 DEF Fresh
  <2>8. \A c : OnStack(c)' <=> c = q
    BY <2>4, <2>5 DEF OnStack
  <2>9. \A c \in Procs : OnStack(c) => c = p
    <3>1. \A i \in DOMAIN stack : i = n
      BY <1>1, <2>2
    <3> QED BY <1>1, <3>1 DEF OnStack, p
  <2>10. \A c \in Procs : (Fresh(c) /\ c # q) => Fresh(c)'
    BY <1>2, <1>5, <1>6, <2>8 DEF Fresh
  <2>11. SimplifyTypes'
    <3>1. Len(<<>>) = 0 /\ BufSize > 0
      BY Sizes1
    <3>2. Len(m.buf) < BufSize
      BY <2>4, <3>1
    <3> QED BY <1>2, <1>5, <2>4, <2>5, <3>2 DEF SimplifyTypes
  <2>12. Births'
    <3>1. \A i, j \in DOMAIN stack' : stack'[i].pid = stack'[j].pid => i = j
      BY <2>5
    <3>2. \A i \in DOMAIN stack' : ForksLeft(children, stack'[i])
      BY <2>4, <2>5 DEF ForksLeft
    <3>3. ASSUME NEW r \in Procs, NEW c \in ToSet(children[r]) PROVE Fresh(c)'
      <4>1. c \in Procs /\ Fresh(c) /\ c # q
        <5>1. children[r] \in Seq(Procs)
          BY DEF SimplifyTypes
        <5>2. c # q
          BY <2>3 DEF Births
        <5> QED BY <5>1, <5>2, QueueEmpty DEF Births
      <4> QED BY <2>10, <4>1
    <3>4. ASSUME NEW c \in Procs, NEW j \in DOMAIN runs, j > simplified' + 1, runs[j].pid = c
          PROVE  Fresh(c)'
      <4>1. DOMAIN runs = 1 .. Len(runs) /\ Len(runs) \in Nat
        BY <1>2, RunFacts
      <4>2. j > simplified + 1 /\ j # k
        BY <1>2, <2>2, <2>3, <3>4, <4>1
      <4>3. Fresh(c)
        BY <3>4, <4>2 DEF Births
      <4>4. c # q
        BY <1>2, <2>3, <3>4, <4>2, RunFacts
      <4> QED BY <2>10, <4>3, <4>4
    <3> QED BY <1>2, <3>1, <3>2, <3>3, <3>4 DEF Births
  <2>13. OrderKept'
    <3>1. \A i \in DOMAIN stack' :
            InOrderOfLastUse(recency[stack'[i].pid], Uses(stack'[i].file, stack'[i].buf))
      BY <2>4, <2>5, <2>7, NoUses
    <3>2. ASSUME NEW c \in Procs PROVE InOrderOfLastUse(recency[c], Uses(files'[c], <<>>))
      BY <1>7, <2>9
    <3> QED BY <1>2, <3>1, <3>2 DEF OrderKept
  <2> QED BY <2>11, <2>12, <2>13
<1> QED BY <1>4, <1>8, <1>9

LEMMA SimplifyInit ==
  ASSUME Init
  PROVE  SimplifyTypes /\ Births /\ OrderKept
<1> DEFINE q == runs[1].pid
           m == Main(q)
<1>1. /\ runs \in Runs /\ simplified = 0 /\ children = [p \in Procs |-> ChildrenOf(runs, p)]
      /\ stack = <<m>> /\ files = [p \in Procs |-> <<>>] /\ recency = [p \in Procs |-> <<>>]
  BY DEF Init, Procs
<1>2. 1 \in DOMAIN runs /\ q \in Procs
  <2>1. runs \in Runs
    BY <1>1
  <2>2. 1 \in DOMAIN runs
    <3>1. Len(runs) \in Nat \ {0} /\ DOMAIN runs = 1 .. Len(runs)
      BY <2>1, RunFacts
    <3> QED BY <3>1
  <2> QED BY <2>1, <2>2, RunFacts DEF Procs
<1>3. /\ m \in Acts(Procs) /\ m.pid = q /\ m.at = "before" /\ Stage(m)
      /\ m.buf = <<>> /\ m.file = <<>>
  BY <1>2, MainEffect
<1> HIDE DEF m, q
<1>4. stack \in Seq(Acts(Procs)) /\ DOMAIN stack = {1} /\ stack[1] = m /\ stack # <<>>
  BY <1>1, <1>3
<1>5. \A p \in Procs : /\ children[p] \in Seq(Procs) /\ IsInjective(children[p])
                       /\ \A c \in ToSet(children[p]) : ForkOf(runs, p, c)
  BY <1>1, ChildrenOfEffect DEF Procs
<1>6. \A p, c : ForkOf(runs, p, c) => /\ \A r : ForkOf(runs, r, c) => r = p
                                      /\ \A k \in DOMAIN runs : runs[k].pid # c
  <2> DEFINE forks == Forks(runs)
  <2>1. /\ \A i, j \in DOMAIN forks : forks[i][2] = forks[j][2] => i = j
        /\ \A i \in DOMAIN runs, j \in DOMAIN forks : runs[i].pid # forks[j][2]
    BY <1>1, RunFacts
  <2> SUFFICES ASSUME NEW p, NEW c, ForkOf(runs, p, c)
               PROVE  /\ \A r : ForkOf(runs, r, c) => r = p
                      /\ \A k \in DOMAIN runs : runs[k].pid # c
    OBVIOUS
  <2>2. \A r : ForkOf(runs, r, c) <=> \E j \in DOMAIN forks : forks[j][1] = r /\ forks[j][2] = c
    BY DEF ForkOf
  <2> HIDE DEF forks
  <2>3. PICK j \in DOMAIN forks : forks[j][1] = p /\ forks[j][2] = c
    BY <2>2
  <2>4. ASSUME NEW r, ForkOf(runs, r, c) PROVE r = p
    BY <2>1, <2>2, <2>3, <2>4
  <2> QED BY <2>1, <2>3, <2>4
<1>7. \A c : OnStack(c) <=> c = q
  BY <1>3, <1>4 DEF OnStack
<1>8. \A c \in Procs : c # q => Fresh(c)
  BY <1>1, <1>7 DEF Fresh
<1>9. SimplifyTypes
  <2>1. Len(<<>>) = 0 /\ BufSize > 0
    BY Sizes1
  <2>2. Len(m.buf) < BufSize
    BY <1>3, <2>1
  <2>3. files \in [Procs -> Seq(FileLine(Procs))]
    <3>1. <<>> \in Seq(FileLine(Procs))
      OBVIOUS
    <3> QED BY <1>1, <3>1
  <2>4. recency \in [Procs -> Seq(KeySet)]
    <3>1. <<>> \in Seq(KeySet)
      OBVIOUS
    <3> QED BY <1>1, <3>1
  <2>5. children \in [Procs -> Seq(Procs)]
    <3>1. children = [p \in Procs |-> children[p]]
      BY <1>1
    <3> QED BY <1>5, <3>1
  <2> QED BY <1>1, <1>3, <1>4, <2>2, <2>3, <2>4, <2>5 DEF SimplifyTypes
<1>10. Births
  <2>1. \A i, j \in DOMAIN stack : stack[i].pid = stack[j].pid => i = j
    BY <1>4
  <2>2. \A i \in DOMAIN stack : ForksLeft(children, stack[i])
    BY <1>3, <1>4 DEF ForksLeft
  <2>3. ASSUME NEW p \in Procs, NEW c \in ToSet(children[p])
        PROVE  /\ Fresh(c) /\ \A r \in Procs : c \in ToSet(children[r]) => r = p
               /\ \A k \in DOMAIN runs : runs[k].pid # c
    <3>1. c \in Procs
      BY <1>5, QueueEmpty
    <3>2. /\ \A r \in Procs : c \in ToSet(children[r]) => r = p
          /\ \A k \in DOMAIN runs : runs[k].pid # c
      BY <1>5, <1>6
    <3>3. c # q
      BY <1>2, <3>2 DEF q
    <3> QED BY <1>8, <3>1, <3>2, <3>3
  <2>4. ASSUME NEW c \in Procs, NEW k \in DOMAIN runs, k > simplified + 1, runs[k].pid = c
        PROVE  Fresh(c)
    <3>1. k # 1
      BY <1>1, <2>4
    <3>2. c # q
      BY <1>1, <1>2, <2>4, <3>1, RunFacts DEF q
    <3> QED BY <1>8, <3>2
  <2> QED BY <1>5, <2>1, <2>2, <2>3, <2>4 DEF Births
<1>11. OrderKept
  <2>1. \A p \in Procs : recency[p] = <<>> /\ files[p] = <<>>
    BY <1>1
  <2> QED BY <1>2, <1>3, <1>4, <2>1, NoUses DEF OrderKept
<1> QED BY <1>9, <1>10, <1>11

LEMMA SimplifyKept ==
  ASSUME SimplifyTypes, Births, OrderKept, SimplifyNext
  PROVE  SimplifyTypes' /\ Births' /\ OrderKept'
<1>1. /\ stack # <<>>
      /\ ReadLine \/ ReadIsParent \/ EndOfLog
  BY Zenon DEF SimplifyNext, ReadLine
<1>2. CASE ReadLine
  <2>1. PICK g \in Acts(Procs), keys \in Seq(KeySet) : Reading(g, keys) /\ GoodTop(g, keys)
    BY <1>1, <1>2, ReadEffect
  <2> QED BY <1>1, <2>1, ReadKept
<1>3. CASE ReadIsParent
  <2>1. PICK e, g, h \in Acts(Procs), child \in Procs :
          Forking(g, h, child) /\ GoodFork(e, g, h, child)
    BY <1>1, <1>3, ForkEffect
  <2> QED BY <1>1, <2>1, ForkKept
<1>4. CASE EndOfLog
  <2>1. PICK e \in Acts(Procs) : Ending(e) /\ GoodEnd(e)
    BY <1>1, <1>4, EndEffect
  <2> QED BY <1>1, <2>1, EndKept
<1> QED BY <1>1, <1>2, <1>3, <1>4

-----------------------------------------------------------------------------
(* The scheduler                                                           *)

SchedulerTypes ==
  /\ pid \in Seq(Procs) /\ pos \in Seq(Nat) /\ Len(pos) = Len(pid)
  /\ memory \in Seq(AsMap) /\ Len(memory) = Len(pid)
  /\ processes \subseteq 0 .. Len(pid) - 1
  /\ \A v \in processes : pos[v + 1] <= Len(files[pid[v + 1]])
  /\ running \in processes \cup {Nobody} /\ interval \in 0 .. Quantum
  /\ stack # <<>> => pid = <<>>

LEMMA IntervalKept ==
  ASSUME interval \in 0 .. Quantum
  PROVE  Interval \in 0 .. Quantum
<1>1. Quantum \in Nat
  BY TracesAssumption
<1>2. CASE TurnOver
  BY <1>1, <1>2 DEF Interval
<1>3. CASE ~TurnOver
  BY <1>1, <1>3 DEF Interval, TurnOver
<1> QED BY <1>2, <1>3

(* A process of the trace has a place in its file.                         *)
LEMMA PlaceInFile ==
  ASSUME SimplifyTypes, SchedulerTypes, NEW v \in processes
  PROVE  /\ v \in Nat /\ v + 1 \in 1 .. Len(pid) /\ v < Len(pid) /\ pid[v + 1] \in Procs
         /\ FileOf(v) \in Seq(FileLine(Procs)) /\ Len(FileOf(v)) \in Nat
         /\ pos[v + 1] \in 0 .. Len(FileOf(v)) /\ memory[v + 1] \in AsMap
         /\ ~AtEnd(v) => /\ pos[v + 1] + 1 \in 1 .. Len(FileOf(v))
                         /\ NextLine(v) \in FileLine(Procs)
<1>1. Len(pid) \in Nat /\ v \in 0 .. Len(pid) - 1
  BY LenProperties DEF SchedulerTypes
<1>2. v \in Nat /\ v + 1 \in 1 .. Len(pid) /\ v < Len(pid)
  BY <1>1
<1>3. pid[v + 1] \in Procs /\ pos[v + 1] \in Nat /\ memory[v + 1] \in AsMap
  BY <1>2, ElementOfSeq DEF SchedulerTypes
<1>4. FileOf(v) \in Seq(FileLine(Procs)) /\ FileOf(v) = files[pid[v + 1]]
  BY <1>3 DEF FileOf, SimplifyTypes
<1>5. Len(FileOf(v)) \in Nat
  BY <1>4, LenProperties
<1>6. pos[v + 1] <= Len(FileOf(v))
  BY <1>4 DEF SchedulerTypes
<1>7. ASSUME ~AtEnd(v)
      PROVE  pos[v + 1] + 1 \in 1 .. Len(FileOf(v)) /\ NextLine(v) \in FileLine(Procs)
  <2>1. pos[v + 1] + 1 \in 1 .. Len(FileOf(v))
    BY <1>3, <1>5, <1>6, <1>7 DEF AtEnd
  <2>2. FileOf(v)[pos[v + 1] + 1] \in FileLine(Procs)
    BY <1>4, <2>1, ElementOfSeq
  <2> QED BY <2>1, <2>2 DEF NextLine
<1> QED BY <1>2, <1>3, <1>4, <1>5, <1>6, <1>7

LEMMA FileLines ==
  ASSUME NEW P, NEW x \in FileLine(P)
  PROVE  /\ x.type = "F" => x \in ForkLine(P) /\ x.addr \in P
         /\ x.type # "F" => x \in Written /\ x.addr \in Addr /\ x.value \in Val
                            /\ x.type \in Types \cup {"S"}
<1>1. CASE x \in Written
  <2>1. x.type \in Types \cup {"S"} /\ x.addr \in Addr /\ x.value \in Val
    BY <1>1 DEF Written
  <2>2. x.type # "F"
    BY <2>1, Sizes1
  <2> QED BY <1>1, <2>1, <2>2
<1>2. CASE x \in ForkLine(P)
  <2>1. x.type = "F" /\ x.addr \in P
    BY <1>2 DEF ForkLine
  <2> QED BY <1>2, <2>1
<1> QED BY <1>1, <1>2 DEF FileLine

(* A process that begins, by itself or by a fork.                          *)
LEMMA ScheduleEffect ==
  ASSUME SchedulerTypes, NEW p \in Procs, NEW m \in AsMap, NEW q \in Seq(Nat),
         Len(q) = Len(pid), Schedule(p), pos' = Append(q, 0), memory' = Append(memory, m)
  PROVE  /\ pid' \in Seq(Procs) /\ Len(pid') = Len(pid) + 1 /\ Len(pid) \in Nat
         /\ pid'[Len(pid) + 1] = p /\ \A i \in 1 .. Len(pid) : pid'[i] = pid[i]
         /\ pos' \in Seq(Nat) /\ Len(pos') = Len(pid) + 1
         /\ pos'[Len(pid) + 1] = 0 /\ \A i \in 1 .. Len(pid) : pos'[i] = q[i]
         /\ memory' \in Seq(AsMap) /\ Len(memory') = Len(pid) + 1
         /\ memory'[Len(pid) + 1] = m /\ \A i \in 1 .. Len(pid) : memory'[i] = memory[i]
         /\ processes' = processes \cup {Len(pid)} /\ processes' \subseteq 0 .. Len(pid)
<1>1. pid \in Seq(Procs) /\ memory \in Seq(AsMap) /\ Len(memory) = Len(pid) /\ Len(pid) \in Nat
      /\ processes \subseteq 0 .. Len(pid) - 1
  BY LenProperties DEF SchedulerTypes
<1>2. pid' = Append(pid, p) /\ processes' = processes \cup {Len(pid)}
  BY DEF Schedule
<1>3. /\ pid' \in Seq(Procs) /\ Len(pid') = Len(pid) + 1
      /\ pid'[Len(pid) + 1] = p /\ \A i \in 1 .. Len(pid) : pid'[i] = pid[i]
  BY <1>1, <1>2, AppendProperties
<1>4. 0 \in Nat
  OBVIOUS
<1>5. /\ pos' \in Seq(Nat) /\ Len(pos') = Len(q) + 1
      /\ pos'[Len(q) + 1] = 0 /\ \A i \in 1 .. Len(q) : pos'[i] = q[i]
  BY <1>4, AppendProperties
<1>6. /\ memory' \in Seq(AsMap) /\ Len(memory') = Len(memory) + 1
      /\ memory'[Len(memory) + 1] = m /\ \A i \in 1 .. Len(memory) : memory'[i] = memory[i]
  BY <1>1, AppendProperties
<1>7. processes' \subseteq 0 .. Len(pid)
  <2>1. 0 .. Len(pid) - 1 \subseteq 0 .. Len(pid) /\ Len(pid) \in 0 .. Len(pid)
    BY <1>1
  <2> QED BY <1>1, <1>2, <2>1
<1> QED BY <1>1, <1>2, <1>3, <1>5, <1>6, <1>7

LEMMA BeginTypes ==
  ASSUME SimplifyTypes, SchedulerTypes, BeginProcess
  PROVE  SchedulerTypes'
<1> DEFINE p == runs[Len(pid) + 1].pid
<1>1. /\ stack = <<>> /\ Len(pid) < Len(runs) /\ Schedule(p) /\ pos' = Append(pos, 0)
      /\ memory' = Append(memory, AsMapCreate)
      /\ stack' = stack /\ files' = files /\ running' = running /\ interval' = interval
      /\ UNCHANGED Procs
  BY DEF BeginProcess, simplifyVars, Procs
<1>2. Len(pid) \in Nat /\ pos \in Seq(Nat) /\ Len(pos) = Len(pid)
  BY LenProperties DEF SchedulerTypes
<1>3. p \in Procs
  <2>1. runs \in Runs
    BY DEF SimplifyTypes
  <2>2. Len(runs) \in Nat /\ DOMAIN runs = 1 .. Len(runs)
    BY <2>1, RunFacts
  <2>3. Len(pid) + 1 \in DOMAIN runs
    BY <1>1, <1>2, <2>2
  <2> QED BY <2>1, <2>3, RunFacts DEF Procs
<1>4. AsMapCreate \in AsMap
  BY DEF AsMapCreate, AsMap
<1> HIDE DEF p
<1>5. /\ pid' \in Seq(Procs) /\ Len(pid') = Len(pid) + 1
      /\ pid'[Len(pid) + 1] = p /\ \A i \in 1 .. Len(pid) : pid'[i] = pid[i]
      /\ pos' \in Seq(Nat) /\ Len(pos') = Len(pid) + 1
      /\ pos'[Len(pid) + 1] = 0 /\ \A i \in 1 .. Len(pid) : pos'[i] = pos[i]
      /\ memory' \in Seq(AsMap) /\ Len(memory') = Len(pid) + 1
      /\ processes' = processes \cup {Len(pid)} /\ processes' \subseteq 0 .. Len(pid)
  BY <1>1, <1>2, <1>3, <1>4, ScheduleEffect
<1>6. ASSUME NEW v \in processes' PROVE pos'[v + 1] <= Len(files'[pid'[v + 1]])
  <2>1. CASE v = Len(pid)
    <3>1. pos'[v + 1] = 0 /\ pid'[v + 1] = p
      BY <1>5, <2>1
    <3>2. files[p] \in Seq(FileLine(Procs))
      BY <1>3 DEF SimplifyTypes
    <3>3. Len(files[p]) >= 0
      BY <3>2, LenProperties
    <3> QED BY <1>1, <3>1, <3>3
  <2>2. CASE v \in processes
    <3>1. v + 1 \in 1 .. Len(pid) /\ pos[v + 1] <= Len(files[pid[v + 1]])
      BY <2>2, PlaceInFile DEF SchedulerTypes
    <3>2. pos'[v + 1] = pos[v + 1] /\ pid'[v + 1] = pid[v + 1]
      BY <1>5, <3>1
    <3> QED BY <1>1, <3>1, <3>2
  <2> QED BY <1>5, <2>1, <2>2
<1>7. Len(pid') - 1 = Len(pid)
  BY <1>2, <1>5
<1>8. running' \in processes' \cup {Nobody} /\ interval' \in 0 .. Quantum
  BY <1>1, <1>5 DEF SchedulerTypes
<1> QED BY <1>1, <1>5, <1>6, <1>7, <1>8 DEF SchedulerTypes

LEMMA EndTypes ==
  ASSUME SimplifyTypes, SchedulerTypes, stack = <<>>, NEW v \in processes, EndProcess(v)
  PROVE  SchedulerTypes'
<1>1. /\ processes' = processes \ {v} /\ running' = Nobody /\ interval' = 0
      /\ UNCHANGED <<stack, files, pid, pos, memory>> /\ UNCHANGED Procs
  BY DEF EndProcess, simplifyVars, Procs
<1>2. 0 \in 0 .. Quantum
  BY TracesAssumption
<1> QED BY <1>1, <1>2 DEF SchedulerTypes

LEMMA ForkTypes ==
  ASSUME SimplifyTypes, SchedulerTypes, stack = <<>>, NEW v \in processes, ForkProcess(v)
  PROVE  SchedulerTypes'
<1> DEFINE p == NextLine(v).addr
           q == [pos EXCEPT ![v + 1] = pos[v + 1] + 1]
<1>1. /\ ~AtEnd(v) /\ NextLine(v).type = "F" /\ Schedule(p) /\ pos' = Append(q, 0)
      /\ running' = v /\ interval' = Interval /\ memory' = Append(memory, memory[v + 1])
      /\ stack' = stack /\ files' = files /\ UNCHANGED Procs
  BY DEF ForkProcess, simplifyVars, Procs
<1>2. /\ v \in Nat /\ v + 1 \in 1 .. Len(pid) /\ v < Len(pid) /\ memory[v + 1] \in AsMap
      /\ Len(FileOf(v)) \in Nat
      /\ pos[v + 1] + 1 \in 1 .. Len(FileOf(v)) /\ NextLine(v) \in FileLine(Procs)
  BY <1>1, PlaceInFile
<1>3. Len(pid) \in Nat /\ pos \in Seq(Nat) /\ Len(pos) = Len(pid)
  BY LenProperties DEF SchedulerTypes
<1>4. p \in Procs
  BY <1>1, <1>2, FileLines
<1>5. q \in Seq(Nat) /\ Len(q) = Len(pid)
      /\ \A i \in 1 .. Len(pid) : q[i] = IF i = v + 1 THEN pos[v + 1] + 1 ELSE pos[i]
  BY <1>2, <1>3, ExceptSeq
<1> DEFINE m == memory[v + 1]
<1>6. m \in AsMap /\ memory' = Append(memory, m)
  BY <1>1, <1>2
<1> HIDE DEF p, q, m
<1>7. /\ pid' \in Seq(Procs) /\ Len(pid') = Len(pid) + 1
      /\ pid'[Len(pid) + 1] = p /\ \A i \in 1 .. Len(pid) : pid'[i] = pid[i]
      /\ pos' \in Seq(Nat) /\ Len(pos') = Len(pid) + 1
      /\ pos'[Len(pid) + 1] = 0 /\ \A i \in 1 .. Len(pid) : pos'[i] = q[i]
      /\ memory' \in Seq(AsMap) /\ Len(memory') = Len(pid) + 1
      /\ processes' = processes \cup {Len(pid)} /\ processes' \subseteq 0 .. Len(pid)
  BY <1>1, <1>4, <1>5, <1>6, ScheduleEffect
<1>8. ASSUME NEW w \in processes' PROVE pos'[w + 1] <= Len(files'[pid'[w + 1]])
  <2>1. CASE w = Len(pid)
    <3>1. pos'[w + 1] = 0 /\ pid'[w + 1] = p
      BY <1>7, <2>1
    <3>2. files[p] \in Seq(FileLine(Procs))
      BY <1>4 DEF SimplifyTypes
    <3>3. Len(files[p]) >= 0
      BY <3>2, LenProperties
    <3> QED BY <1>1, <3>1, <3>3
  <2>2. CASE w \in processes
    <3>1. w + 1 \in 1 .. Len(pid) /\ pos[w + 1] <= Len(files[pid[w + 1]]) /\ w \in Nat
      BY <2>2, PlaceInFile DEF SchedulerTypes
    <3>2. pos'[w + 1] = q[w + 1] /\ pid'[w + 1] = pid[w + 1]
      BY <1>7, <3>1
    <3>3. CASE w = v
      <4>1. q[w + 1] = pos[v + 1] + 1
        BY <1>5, <3>1, <3>3
      <4>2. pos[v + 1] + 1 <= Len(files[pid[v + 1]])
        BY <1>2 DEF FileOf
      <4> QED BY <1>1, <3>2, <3>3, <4>1, <4>2
    <3>4. CASE w # v
      <4>1. q[w + 1] = pos[w + 1]
        BY <1>2, <1>5, <3>1, <3>4
      <4> QED BY <1>1, <3>1, <3>2, <4>1
    <3> QED BY <3>3, <3>4
  <2> QED BY <1>7, <2>1, <2>2
<1>9. Len(pid') - 1 = Len(pid)
  BY <1>3, <1>7
<1>10. running' \in processes' \cup {Nobody} /\ interval' \in 0 .. Quantum
  BY <1>1, <1>7, IntervalKept DEF SchedulerTypes
<1> QED BY <1>1, <1>7, <1>8, <1>9, <1>10 DEF SchedulerTypes

LEMMA CopyTypes ==
  ASSUME SimplifyTypes, SchedulerTypes, stack = <<>>, NEW v \in processes, CopyLine(v)
  PROVE  SchedulerTypes'
<1> DEFINE x == NextLine(v)
           m == [memory[v + 1] EXCEPT ![x.addr] = x.value]
<1>1. /\ ~AtEnd(v) /\ x.type # "F" /\ pos' = [pos EXCEPT ![v + 1] = pos[v + 1] + 1]
      /\ running' = v /\ interval' = Interval /\ memory' = [memory EXCEPT ![v + 1] = m]
      /\ UNCHANGED <<stack, files, pid, processes>> /\ UNCHANGED Procs
  BY DEF CopyLine, simplifyVars, Procs
<1>2. /\ v \in Nat /\ v + 1 \in 1 .. Len(pid) /\ v < Len(pid) /\ memory[v + 1] \in AsMap
      /\ Len(FileOf(v)) \in Nat
      /\ pos[v + 1] + 1 \in 1 .. Len(FileOf(v)) /\ x \in FileLine(Procs)
  BY <1>1, PlaceInFile
<1>3. /\ Len(pid) \in Nat /\ pos \in Seq(Nat) /\ Len(pos) = Len(pid)
      /\ memory \in Seq(AsMap) /\ Len(memory) = Len(pid)
  BY LenProperties DEF SchedulerTypes
<1>4. m \in AsMap
  <2>1. x.addr \in Addr /\ x.value \in Val
    BY <1>1, <1>2, FileLines
  <2> QED BY <1>2, <2>1 DEF AsMap
<1> HIDE DEF x, m
<1>5. /\ pos' \in Seq(Nat) /\ Len(pos') = Len(pid)
      /\ \A i \in 1 .. Len(pid) : pos'[i] = IF i = v + 1 THEN pos[v + 1] + 1 ELSE pos[i]
  BY <1>1, <1>2, <1>3, ExceptSeq
<1>6. memory' \in Seq(AsMap) /\ Len(memory') = Len(pid)
  BY <1>1, <1>2, <1>3, <1>4, ExceptSeq
<1>7. ASSUME NEW w \in processes PROVE pos'[w + 1] <= Len(files[pid[w + 1]])
  <2>1. w + 1 \in 1 .. Len(pid) /\ pos[w + 1] <= Len(files[pid[w + 1]]) /\ w \in Nat
    BY PlaceInFile DEF SchedulerTypes
  <2>2. CASE w = v
    <3>1. pos'[w + 1] = pos[v + 1] + 1
      BY <1>5, <2>1, <2>2
    <3>2. pos[v + 1] + 1 <= Len(files[pid[v + 1]])
      BY <1>2 DEF FileOf
    <3> QED BY <2>2, <3>1, <3>2
  <2>3. CASE w # v
    <3>1. pos'[w + 1] = pos[w + 1]
      BY <1>2, <1>5, <2>1, <2>3
    <3> QED BY <2>1, <3>1
  <2> QED BY <2>2, <2>3
<1>8. running' \in processes' \cup {Nobody} /\ interval' \in 0 .. Quantum
  BY <1>1, IntervalKept DEF SchedulerTypes
<1> QED BY <1>1, <1>5, <1>6, <1>7, <1>8 DEF SchedulerTypes

LEMMA SchedulerKept ==
  ASSUME SimplifyTypes, SchedulerTypes, Next
  PROVE  SchedulerTypes'
<1>1. CASE SimplifyNext /\ UNCHANGED schedulerVars
  <2>1. stack # <<>> /\ UNCHANGED schedulerVars
    BY <1>1 DEF SimplifyNext
  <2>2. pid = <<>> /\ Len(<<>>) = 0
    BY <2>1 DEF SchedulerTypes
  <2>3. processes = {}
    BY <2>2 DEF SchedulerTypes
  <2>4. <<>> \in Seq(Procs') /\ pid' = pid /\ pos' = pos /\ processes' = processes
        /\ running' = running /\ interval' = interval /\ memory' = memory
    BY <2>1 DEF schedulerVars
  <2> QED BY <2>2, <2>3, <2>4 DEF SchedulerTypes
<1>2. CASE BeginProcess
  BY <1>2, BeginTypes
<1>3. CASE Combine
  <2>1. stack = <<>>
    BY <1>3 DEF Combine
  <2>2. PICK v \in processes : EndProcess(v) \/ ForkProcess(v) \/ CopyLine(v)
    BY <1>3 DEF Combine
  <2> QED BY <2>1, <2>2, EndTypes, ForkTypes, CopyTypes
<1>4. CASE Finished
  BY <1>4 DEF Finished, vars, simplifyVars, schedulerVars, SchedulerTypes, Procs
<1> QED BY <1>1, <1>2, <1>3, <1>4 DEF Next

Inv == SimplifyTypes /\ Births /\ OrderKept /\ SchedulerTypes

LEMMA InvInit == TracesInit => Inv
<1> SUFFICES ASSUME TracesInit PROVE Inv
  OBVIOUS
<1>1. SimplifyTypes /\ Births /\ OrderKept
  BY SimplifyInit DEF TracesInit
<1>2. SchedulerTypes
  <2> DEFINE e == <<>>
  <2>1. e \in Seq(Procs) /\ e \in Seq(Nat) /\ e \in Seq(AsMap) /\ Len(e) = 0
    OBVIOUS
  <2>2. pid = e /\ pos = e /\ memory = e /\ processes = {} /\ running = Nobody /\ interval = 0
    BY DEF TracesInit
  <2>3. 0 \in 0 .. Quantum
    BY TracesAssumption
  <2> QED BY <2>1, <2>2, <2>3 DEF SchedulerTypes
<1> QED BY <1>1, <1>2 DEF Inv

LEMMA InvNext == Inv /\ [Next]_vars => Inv'
<1> SUFFICES ASSUME Inv, [Next]_vars PROVE Inv'
  OBVIOUS
<1>1. SimplifyTypes /\ Births /\ OrderKept /\ SchedulerTypes
  BY DEF Inv
<1>2. ASSUME UNCHANGED simplifyVars PROVE SimplifyTypes' /\ Births' /\ OrderKept'
  BY <1>1, <1>2
     DEF simplifyVars, SimplifyTypes, Births, OrderKept, Fresh, OnStack, Procs
<1>3. CASE Next
  <2>1. SchedulerTypes'
    BY <1>1, <1>3, SchedulerKept
  <2>2. SimplifyTypes' /\ Births' /\ OrderKept'
    <3>1. CASE SimplifyNext
      BY <1>1, <3>1, SimplifyKept
    <3>2. CASE UNCHANGED simplifyVars
      BY <1>2, <3>2
    <3>3. SimplifyNext \/ UNCHANGED simplifyVars
      <4>1. CASE BeginProcess
        BY <4>1 DEF BeginProcess
      <4>2. CASE Combine
        BY <4>2 DEF Combine, EndProcess, ForkProcess, CopyLine
      <4>3. CASE Finished
        BY <4>3 DEF Finished, vars
      <4> QED BY <1>3, <4>1, <4>2, <4>3 DEF Next
    <3> QED BY <3>1, <3>2, <3>3
  <2> QED BY <2>1, <2>2 DEF Inv
<1>4. CASE UNCHANGED vars
  <2>1. UNCHANGED simplifyVars /\ UNCHANGED schedulerVars
    BY <1>4 DEF vars
  <2>2. SchedulerTypes'
    BY <1>1, <2>1 DEF SchedulerTypes, simplifyVars, schedulerVars, Procs
  <2> QED BY <1>2, <2>1, <2>2 DEF Inv
<1> QED BY <1>3, <1>4

(* The inductive invariant holds in every reachable state.                 *)
THEOREM Invariant == Spec => []Inv
<1>1. TracesInit => Inv
  BY InvInit
<1>2. Inv /\ [Next]_vars => Inv'
  BY InvNext
<1> QED BY <1>1, <1>2, PTL DEF Spec

LEMMA FileLineTypes == FileLine(Procs) = TraceLine
  BY DEF FileLine, Written, ForkLine, TraceLine, Procs

(* The types of module Traces hold of every program, page size, buffer and *)
(* quantum.                                                                *)
THEOREM TypesKept == Spec => []TypeOK
<1>1. Inv => TypeOK
  <2> SUFFICES ASSUME Inv PROVE TypeOK
    OBVIOUS
  <2>1. SimplifyTypes /\ SchedulerTypes
    BY DEF Inv
  <2>2. ASSUME NEW i \in DOMAIN stack
        PROVE  /\ stack[i].pid \in Pids(runs) /\ {stack[i].found, stack[i].ignore} \subseteq BOOLEAN
               /\ stack[i].as \in AsMap
               /\ stack[i].buf \in Seq(Line) /\ Len(stack[i].buf) < BufSize
               /\ stack[i].file \in Seq(TraceLine)
    <3>1. stack[i] \in Acts(Procs) /\ Len(stack[i].buf) < BufSize
      BY <2>1, ElementOfSeq, LenProperties DEF SimplifyTypes
    <3>2. /\ stack[i].pid \in Procs /\ stack[i].found \in BOOLEAN /\ stack[i].ignore \in BOOLEAN
          /\ stack[i].as \in AsMap /\ stack[i].buf \in Seq(Line)
          /\ stack[i].file \in Seq(FileLine(Procs))
      BY <3>1 DEF Acts
    <3>3. {stack[i].found, stack[i].ignore} \subseteq BOOLEAN
      BY <3>2, Zenon
    <3> QED BY <3>1, <3>2, <3>3, FileLineTypes DEF Procs
  <2>3. files \in [Pids(runs) -> Seq(TraceLine)]
    BY <2>1, FileLineTypes DEF SimplifyTypes, Procs
  <2>4. \A v \in processes : pos[v + 1] \in 0 .. Len(FileOf(v))
    BY <2>1, PlaceInFile
  <2> QED BY <2>1, <2>2, <2>3, <2>4 DEF TypeOK, SchedulerTypes, Procs
<1> QED BY <1>1, Invariant, PTL

(* Of the pages and types a process has used where its references are      *)
(* recorded, its file and buffer keep the order of the last uses, through  *)
(* every flush and fork.                                                   *)
THEOREM OrderOfLastUse == Spec => []LastUsesKept
<1>1. Inv => LastUsesKept
  <2> SUFFICES ASSUME Inv PROVE LastUsesKept
    OBVIOUS
  <2>1. OrderKept
    BY DEF Inv
  <2>2. stack = <<>> => \A p \in Procs : ~OnStack(p)
    BY DEF OnStack
  <2> QED BY <2>1, <2>2 DEF LastUsesKept, OrderKept, Procs
<1> QED BY <1>1, Invariant, PTL

-----------------------------------------------------------------------------
(* What the memory of a process was at each line of its file               *)

Pasts(P) == [P -> [Nat -> AsMap]]

(* past explains the file of p: a reference follows the one before it, and *)
(* at a fork the child, no longer waiting to be born, begins with what its *)
(* parent has.                                                             *)
Told(W, past, p, file) ==
  \A i \in 1 .. Len(file) :
    /\ file[i].type # "F" => Follows(past[p][i - 1], file[i], past[p][i])
    /\ file[i].type = "F" => /\ past[p][i] = past[p][i - 1]
                             /\ past[file[i].addr][0] = past[p][i - 1] /\ file[i].addr \notin W

(* past explains the activations and the files that are complete, and the  *)
(* programs begin with nothing known.                                      *)
Recall(P, W, past, stk, fs, rs) ==
  /\ past \in Pasts(P)
  /\ \A i \in DOMAIN stk : /\ Told(W, past, stk[i].pid, stk[i].file)
                           /\ past[stk[i].pid][Len(stk[i].file)] = stk[i].as
  /\ \A p \in P : (\A i \in DOMAIN stk : stk[i].pid # p) => Told(W, past, p, fs[p])
  /\ \A k \in DOMAIN rs : past[rs[k].pid][0] = AsMapCreate

(* The children that have not been forked yet.                             *)
Waiting(P, ch) == UNION {ToSet(ch[p]) : p \in P}

(* A past that differs in the later lines of one process, or in a process  *)
(* no line names yet, explains the same file.                              *)
LEMMA ToldKept ==
  ASSUME NEW P, NEW p \in P, NEW file \in Seq(FileLine(P)), NEW W, NEW V, V \subseteq W,
         NEW past, NEW new, Told(W, past, p, file),
         \A i \in Nat : i <= Len(file) => new[p][i] = past[p][i],
         \A c \in P : c \notin W => new[c][0] = past[c][0]
  PROVE  Told(V, new, p, file)
<1>1. Len(file) \in Nat
  BY LenProperties
<1>2. SUFFICES ASSUME NEW i \in 1 .. Len(file)
               PROVE  /\ file[i].type # "F" => Follows(new[p][i - 1], file[i], new[p][i])
                      /\ file[i].type = "F" =>
                           /\ new[p][i] = new[p][i - 1]
                           /\ new[file[i].addr][0] = new[p][i - 1] /\ file[i].addr \notin V
  BY DEF Told
<1>3. new[p][i] = past[p][i] /\ new[p][i - 1] = past[p][i - 1]
  <2>1. i \in Nat /\ i - 1 \in Nat /\ i <= Len(file) /\ i - 1 <= Len(file)
    BY <1>1
  <2> QED BY <2>1
<1>4. /\ file[i].type # "F" => Follows(past[p][i - 1], file[i], past[p][i])
      /\ file[i].type = "F" =>
           /\ past[p][i] = past[p][i - 1]
           /\ past[file[i].addr][0] = past[p][i - 1] /\ file[i].addr \notin W
  BY DEF Told
<1>5. file[i].type = "F" => file[i].addr \in P
  BY ElementOfSeq, FileLines
<1> QED BY <1>3, <1>4, <1>5

(* What an activation writes has a past that goes on from the one before.  *)
LongerPast(P, p, past, new) ==
  /\ new \in Pasts(P) /\ (\A q \in P : q # p => new[q] = past[q]) /\ new[p][0] = past[p][0]

LEMMA PastGrown ==
  ASSUME NEW P, NEW p \in P, NEW f \in Acts(P), NEW r \in Acts(P), Grown(f, r), NEW W,
         NEW past \in Pasts(P), Told(W, past, p, f.file), past[p][Len(f.file)] = f.as
  PROVE  \E new : /\ LongerPast(P, p, past, new)
                  /\ Told(W, new, p, r.file) /\ new[p][Len(r.file)] = r.as
<1> DEFINE old == f.file
           file == r.file
           n == Len(old)
<1>1. old \in Seq(FileLine(P)) /\ file \in Seq(FileLine(P))
  BY DEF Acts
<1>2. n \in Nat /\ Len(file) \in Nat
  BY <1>1, LenProperties
<1>3. /\ n <= Len(file) /\ \A i \in 1 .. n : file[i] = old[i]
      /\ \E m \in [Nat -> AsMap] :
           /\ m[n] = f.as /\ m[Len(file)] = r.as
           /\ \A i \in n + 1 .. Len(file) :
                file[i] \in Written /\ Follows(m[i - 1], file[i], m[i])
  BY DEF Grown
<1>4. PICK m \in [Nat -> AsMap] :
           /\ m[n] = f.as /\ m[Len(file)] = r.as
           /\ \A i \in n + 1 .. Len(file) :
                file[i] \in Written /\ Follows(m[i - 1], file[i], m[i])
  BY <1>3
<1> DEFINE own == [i \in Nat |-> IF i <= n THEN past[p][i] ELSE m[i]]
           new == [past EXCEPT ![p] = own]
<1> HIDE DEF old, file
<1>5. past[p] \in [Nat -> AsMap]
  BY DEF Pasts
<1>6. own \in [Nat -> AsMap]
  BY <1>4, <1>5
<1>7. past[p][n] = m[n]
  BY <1>4 DEF old
<1> HIDE DEF n
<1>8. \A i \in Nat : (i <= n => own[i] = past[p][i]) /\ (n <= i => own[i] = m[i])
  <2> SUFFICES ASSUME NEW i \in Nat PROVE (i <= n => own[i] = past[p][i]) /\ (n <= i => own[i] = m[i])
    OBVIOUS
  <2>1. own[i] = IF i <= n THEN past[p][i] ELSE m[i]
    OBVIOUS
  <2>2. (i <= n /\ n <= i) => i = n
    BY <1>2
  <2> QED BY <1>7, <2>1, <2>2
<1> HIDE DEF own
<1>9. new \in Pasts(P) /\ (\A q \in P : q # p => new[q] = past[q]) /\ new[p] = own
  BY <1>6 DEF Pasts
<1> HIDE DEF new
<1>10. own[0] = past[p][0] /\ own[Len(file)] = r.as
  BY <1>2, <1>3, <1>4, <1>8
<1>11. \A c \in P : new[c][0] = past[c][0]
  BY <1>9, <1>10
<1>12. Told(W, new, p, file)
  <2> SUFFICES ASSUME NEW i \in 1 .. Len(file)
               PROVE  /\ file[i].type # "F" => Follows(new[p][i - 1], file[i], new[p][i])
                      /\ file[i].type = "F" =>
                           /\ new[p][i] = new[p][i - 1]
                           /\ new[file[i].addr][0] = new[p][i - 1] /\ file[i].addr \notin W
    BY DEF Told
  <2>0. i \in Nat /\ i - 1 \in Nat
    BY <1>2
  <2>1. CASE i <= n
    <3>1. i \in 1 .. n /\ i - 1 <= n
      BY <1>2, <2>0, <2>1
    <3>2. file[i] = old[i] /\ own[i] = past[p][i] /\ own[i - 1] = past[p][i - 1]
      BY <1>3, <1>8, <2>0, <3>1
    <3>3. /\ old[i].type # "F" => Follows(past[p][i - 1], old[i], past[p][i])
          /\ old[i].type = "F" =>
               /\ past[p][i] = past[p][i - 1]
               /\ past[old[i].addr][0] = past[p][i - 1] /\ old[i].addr \notin W
      BY <3>1 DEF Told, n, old
    <3>4. old[i].type = "F" => old[i].addr \in P
      BY <1>1, <3>1, ElementOfSeq, FileLines DEF n
    <3> QED BY <1>9, <1>11, <3>2, <3>3, <3>4
  <2>2. CASE ~(i <= n)
    <3>1. i \in n + 1 .. Len(file) /\ n <= i - 1 /\ n <= i
      BY <1>2, <2>0, <2>2
    <3>2. file[i] \in Written /\ Follows(m[i - 1], file[i], m[i])
      BY <1>4, <3>1
    <3>3. own[i] = m[i] /\ own[i - 1] = m[i - 1]
      BY <1>8, <2>0, <3>1
    <3>4. file[i].type # "F"
      BY <3>2, Sizes1 DEF Written
    <3> QED BY <1>9, <3>2, <3>3, <3>4
  <2> QED BY <2>1, <2>2
<1>13. LongerPast(P, p, past, new)
  BY <1>9, <1>10 DEF LongerPast
<1>14. new[p][Len(file)] = r.as
  BY <1>9, <1>10
<1> QED BY <1>12, <1>13, <1>14 DEF file

Recalled == \E past : Recall(Procs, Waiting(Procs, children), past, stack, files, runs)

(* The activations below the top and the files keep their pasts when the   *)
(* past of the process at the top goes on.                                 *)
LEMMA OthersKept ==
  ASSUME SimplifyTypes, Births, stack # <<>>, NEW past, NEW new,
         Recall(Procs, Waiting(Procs, children), past, stack, files, runs),
         LongerPast(Procs, top.pid, past, new)
  PROVE  /\ \A i \in 1 .. Len(stack) - 1 :
              /\ Told(Waiting(Procs, children), new, stack[i].pid, stack[i].file)
              /\ new[stack[i].pid][Len(stack[i].file)] = stack[i].as
         /\ \A q \in Procs : ~OnStack(q) => Told(Waiting(Procs, children), new, q, files[q])
         /\ \A k \in DOMAIN runs : new[runs[k].pid][0] = AsMapCreate
<1> DEFINE n == Len(stack)
           p == top.pid
           W == Waiting(Procs, children)
<1>1. /\ n \in Nat \ {0} /\ DOMAIN stack = 1 .. n
      /\ top = stack[n] /\ top \in Acts(Procs) /\ p \in Procs
  BY TopOfStack
<1> HIDE DEF n, W
<1>2. /\ \A i \in DOMAIN stack : /\ Told(W, past, stack[i].pid, stack[i].file)
                                 /\ past[stack[i].pid][Len(stack[i].file)] = stack[i].as
      /\ \A q \in Procs : (\A i \in DOMAIN stack : stack[i].pid # q) => Told(W, past, q, files[q])
      /\ \A k \in DOMAIN runs : past[runs[k].pid][0] = AsMapCreate
  BY DEF Recall, W
<1>3. (\A q \in Procs : q # p => new[q] = past[q]) /\ new[p][0] = past[p][0]
  BY DEF LongerPast
<1> HIDE DEF p
<1>4. \A c \in Procs : new[c][0] = past[c][0]
  BY <1>3
<1>5. ASSUME NEW i \in 1 .. n - 1
      PROVE  /\ Told(W, new, stack[i].pid, stack[i].file)
             /\ new[stack[i].pid][Len(stack[i].file)] = stack[i].as
  <2>1. i \in DOMAIN stack /\ n \in DOMAIN stack /\ i # n
    BY <1>1
  <2>2. stack[i] \in Acts(Procs)
    BY <1>1, <2>1, ElementOfSeq DEF SimplifyTypes, n
  <2>3. stack[i].pid \in Procs /\ stack[i].file \in Seq(FileLine(Procs))
    BY <2>2 DEF Acts
  <2>4. stack[i].pid # p
    BY <1>1, <2>1 DEF Births, p
  <2>5. new[stack[i].pid] = past[stack[i].pid]
    BY <1>3, <2>3, <2>4
  <2>6. Told(W, new, stack[i].pid, stack[i].file)
    BY <1>2, <1>4, <2>1, <2>3, <2>5, ToldKept
  <2> QED BY <1>2, <2>1, <2>5, <2>6
<1>6. ASSUME NEW q \in Procs, ~OnStack(q) PROVE Told(W, new, q, files[q])
  <2>1. Told(W, past, q, files[q])
    BY <1>2, <1>6 DEF OnStack
  <2>2. q # p
    BY <1>1, <1>6 DEF OnStack, p
  <2>3. files[q] \in Seq(FileLine(Procs))
    BY DEF SimplifyTypes
  <2> QED BY <1>3, <1>4, <2>1, <2>2, <2>3, ToldKept
<1>7. ASSUME NEW k \in DOMAIN runs PROVE new[runs[k].pid][0] = AsMapCreate
  <2>1. runs[k].pid \in Procs
    <3>1. runs \in Runs
      BY DEF SimplifyTypes
    <3> QED BY <3>1, RunFacts DEF Procs
  <2> QED BY <1>2, <1>4, <2>1
<1> QED BY <1>5, <1>6, <1>7 DEF n, W

LEMMA ReadRecalled ==
  ASSUME SimplifyTypes, Births, stack # <<>>, Recalled,
         NEW g \in Acts(Procs), NEW keys, Reading(g, keys), GoodTop(g, keys)
  PROVE  Recalled'
<1> DEFINE n == Len(stack)
           p == top.pid
           W == Waiting(Procs, children)
<1>1. /\ n \in Nat \ {0} /\ DOMAIN stack = 1 .. n
      /\ top = stack[n] /\ top \in Acts(Procs) /\ p \in Procs
  BY TopOfStack
<1>2. PICK past : Recall(Procs, W, past, stack, files, runs)
  BY DEF Recalled
<1>3. past \in Pasts(Procs) /\ Told(W, past, p, top.file) /\ past[p][Len(top.file)] = top.as
  <2>1. n \in DOMAIN stack
    BY <1>1
  <2> QED BY <1>1, <1>2, <2>1 DEF Recall
<1>4. g.pid = p /\ Grown(top, g)
  BY DEF GoodTop
<1>5. PICK new : /\ LongerPast(Procs, p, past, new)
                 /\ Told(W, new, p, g.file) /\ new[p][Len(g.file)] = g.as
  <2> HIDE DEF p, W
  <2>1. /\ p \in Procs /\ top \in Acts(Procs) /\ g \in Acts(Procs) /\ Grown(top, g)
        /\ past \in Pasts(Procs) /\ Told(W, past, p, top.file) /\ past[p][Len(top.file)] = top.as
    BY <1>1, <1>3, <1>4
  <2> QED BY <2>1, PastGrown
<1>6. /\ \A i \in 1 .. n - 1 : /\ Told(W, new, stack[i].pid, stack[i].file)
                               /\ new[stack[i].pid][Len(stack[i].file)] = stack[i].as
      /\ \A q \in Procs : ~OnStack(q) => Told(W, new, q, files[q])
      /\ \A k \in DOMAIN runs : new[runs[k].pid][0] = AsMapCreate
  BY <1>2, <1>5, OthersKept
<1>7. /\ stack' = Append(Front(stack), g) /\ files' = files /\ runs' = runs
      /\ Procs' = Procs /\ children' = children
  BY DEF Reading, Procs
<1>8. /\ DOMAIN stack' = 1 .. n /\ \A i \in 1 .. n : stack'[i] = IF i = n THEN g ELSE stack[i]
  <2>1. stack \in Seq(Acts(Procs))
    BY DEF SimplifyTypes
  <2>2. /\ stack' \in Seq(Acts(Procs)) /\ Len(stack') = n
        /\ \A i \in 1 .. n : stack'[i] = IF i = n THEN g ELSE stack[i]
    BY <1>7, <2>1, StackReplaced
  <2> QED BY <2>2, LenProperties
<1> HIDE DEF n, p, W
<1>9. ASSUME NEW i \in DOMAIN stack'
      PROVE  /\ Told(W, new, stack'[i].pid, stack'[i].file)
             /\ new[stack'[i].pid][Len(stack'[i].file)] = stack'[i].as
  <2>1. CASE i = n
    BY <1>1, <1>4, <1>5, <1>8, <2>1
  <2>2. CASE i # n
    <3>1. i \in 1 .. n - 1 /\ stack'[i] = stack[i]
      BY <1>1, <1>8, <2>2
    <3> QED BY <1>6, <3>1
  <2> QED BY <2>1, <2>2
<1>10. ASSUME NEW q \in Procs, \A i \in DOMAIN stack' : stack'[i].pid # q
       PROVE  Told(W, new, q, files[q])
  <2>1. \A i \in DOMAIN stack : stack'[i].pid = stack[i].pid
    BY <1>1, <1>4, <1>8 DEF p
  <2>2. ~OnStack(q)
    BY <1>1, <1>8, <1>10, <2>1 DEF OnStack
  <2> QED BY <1>6, <2>2
<1>11. new \in Pasts(Procs)
  BY <1>5 DEF LongerPast
<1>12. Recall(Procs, W, new, stack', files, runs)
  BY <1>6, <1>9, <1>10, <1>11 DEF Recall
<1> QED BY <1>7, <1>12 DEF Recalled, W

LEMMA EndRecalled ==
  ASSUME SimplifyTypes, Births, stack # <<>>, Recalled,
         NEW e \in Acts(Procs), Ending(e), GoodEnd(e)
  PROVE  Recalled'
<1> DEFINE n == Len(stack)
           p == top.pid
           W == Waiting(Procs, children)
<1>1. /\ n \in Nat \ {0} /\ DOMAIN stack = 1 .. n
      /\ top = stack[n] /\ top \in Acts(Procs) /\ p \in Procs
  BY TopOfStack
<1>2. PICK past : Recall(Procs, W, past, stack, files, runs)
  BY DEF Recalled
<1>3. past \in Pasts(Procs) /\ Told(W, past, p, top.file) /\ past[p][Len(top.file)] = top.as
  <2>1. n \in DOMAIN stack
    BY <1>1
  <2> QED BY <1>1, <1>2, <2>1 DEF Recall
<1>4. Grown(top, e)
  BY DEF GoodEnd
<1>5. PICK new : /\ LongerPast(Procs, p, past, new)
                 /\ Told(W, new, p, e.file) /\ new[p][Len(e.file)] = e.as
  <2> HIDE DEF p, W
  <2>1. /\ p \in Procs /\ top \in Acts(Procs) /\ e \in Acts(Procs) /\ Grown(top, e)
        /\ past \in Pasts(Procs) /\ Told(W, past, p, top.file) /\ past[p][Len(top.file)] = top.as
    BY <1>1, <1>3, <1>4
  <2> QED BY <2>1, PastGrown
<1>6. /\ \A i \in 1 .. n - 1 : /\ Told(W, new, stack[i].pid, stack[i].file)
                               /\ new[stack[i].pid][Len(stack[i].file)] = stack[i].as
      /\ \A q \in Procs : ~OnStack(q) => Told(W, new, q, files[q])
      /\ \A k \in DOMAIN runs : new[runs[k].pid][0] = AsMapCreate
  BY <1>2, <1>5, OthersKept
<1>7. /\ files' = [files EXCEPT ![p] = e.file] /\ runs' = runs
      /\ Procs' = Procs /\ children' = children
      /\ runs \in Runs /\ stack \in Seq(Acts(Procs)) /\ files \in [Procs -> Seq(FileLine(Procs))]
  BY DEF Ending, Procs, SimplifyTypes
<1>8. \/ stack' = Front(stack)
      \/ n = 1 /\ \E k \in DOMAIN runs : stack' = <<Main(runs[k].pid)>>
  BY DEF Ending
<1>9. files'[p] = e.file /\ \A q \in Procs : q # p => files'[q] = files[q]
  BY <1>1, <1>7
<1> HIDE DEF n, p, W
<1>10. new \in Pasts(Procs)
  BY <1>5 DEF LongerPast
<1>11. ASSUME NEW q \in Procs, ~OnStack(q) \/ q = p PROVE Told(W, new, q, files'[q])
  BY <1>5, <1>6, <1>9, <1>11
<1>12. CASE stack' = Front(stack)
  <2>1. DOMAIN stack' = 1 .. n - 1 /\ \A i \in 1 .. n - 1 : stack'[i] = stack[i]
    <3>1. /\ stack' \in Seq(Acts(Procs)) /\ Len(stack') = n - 1
          /\ \A i \in 1 .. n - 1 : stack'[i] = stack[i]
      BY <1>7, <1>12, StackPopped DEF n
    <3> QED BY <3>1, LenProperties
  <2>2. ASSUME NEW q \in Procs, \A i \in DOMAIN stack' : stack'[i].pid # q
        PROVE  Told(W, new, q, files'[q])
    <3>1. ASSUME NEW i \in DOMAIN stack, stack[i].pid = q PROVE q = p
      <4>1. CASE i = n
        BY <1>1, <3>1, <4>1 DEF p
      <4>2. CASE i # n
        <5>1. i \in 1 .. n - 1
          BY <1>1, <4>2
        <5> QED BY <2>1, <2>2, <3>1, <5>1
      <4> QED BY <4>1, <4>2
    <3>2. ~OnStack(q) \/ q = p
      BY <3>1 DEF OnStack
    <3> QED BY <1>11, <3>2
  <2>3. Recall(Procs, W, new, stack', files', runs)
    BY <1>6, <1>10, <2>1, <2>2 DEF Recall
  <2> QED BY <1>7, <2>3 DEF Recalled, W
<1>13. CASE n = 1 /\ \E k \in DOMAIN runs : stack' = <<Main(runs[k].pid)>>
  <2>1. PICK k \in DOMAIN runs : stack' = <<Main(runs[k].pid)>>
    BY <1>13
  <2> DEFINE q == runs[k].pid
             m == Main(q)
  <2>2. q \in Procs
    BY <1>7, RunFacts DEF Procs
  <2>3. m.pid = q /\ m.file = <<>> /\ m.as = AsMapCreate
    BY <2>2, MainEffect
  <2>4. stack' = <<m>> /\ new[q][0] = AsMapCreate
    BY <1>6, <2>1
  <2> HIDE DEF q, m
  <2>5. DOMAIN stack' = {1} /\ stack'[1] = m
    BY <2>4
  <2>6. Told(W, new, q, <<>>) /\ Len(<<>>) = 0
    <3>1. Len(<<>>) = 0 /\ 1 .. 0 = {}
      OBVIOUS
    <3> QED BY <3>1, Zenon DEF Told
  <2>7. ASSUME NEW c \in Procs PROVE Told(W, new, c, files'[c])
    <3>1. \A i \in DOMAIN stack : stack[i].pid = p
      BY <1>1, <1>13 DEF p
    <3>2. ~OnStack(c) \/ c = p
      BY <3>1 DEF OnStack
    <3> QED BY <1>11, <3>2
  <2>8. \A i \in DOMAIN stack' : /\ Told(W, new, stack'[i].pid, stack'[i].file)
                                 /\ new[stack'[i].pid][Len(stack'[i].file)] = stack'[i].as
    BY <2>3, <2>4, <2>5, <2>6
  <2>9. Recall(Procs, W, new, stack', files', runs)
    BY <1>6, <1>10, <2>7, <2>8 DEF Recall
  <2> QED BY <1>7, <2>9 DEF Recalled, W
<1> QED BY <1>8, <1>12, <1>13

(* A fork takes the child from the children that wait.                     *)
LEMMA ChildLeaves ==
  ASSUME SimplifyTypes, Births, stack # <<>>,
         NEW e, NEW g, NEW h, NEW child, Forking(g, h, child), GoodFork(e, g, h, child)
  PROVE  /\ child \in Procs /\ Fresh(child) /\ child # top.pid
         /\ \A k \in DOMAIN runs : runs[k].pid # child
         /\ child \in Waiting(Procs, children)
         /\ Waiting(Procs, children') = Waiting(Procs, children) \ {child}
<1> DEFINE p == top.pid
           own == children[p]
<1>1. /\ Len(stack) \in Nat \ {0} /\ DOMAIN stack = 1 .. Len(stack)
      /\ top = stack[Len(stack)] /\ p \in Procs
  BY TopOfStack
<1>2. /\ children' = [children EXCEPT ![p] = Tail(own)] /\ own # <<>> /\ child = Head(own)
      /\ children \in [Procs -> Seq(Procs)]
  BY DEF Forking, GoodFork, SimplifyTypes
<1>3. /\ own \in Seq(Procs) /\ IsInjective(own)
      /\ child \in ToSet(own) /\ ToSet(Tail(own)) = ToSet(own) \ {child} /\ child \in Procs
  <2>1. own \in Seq(Procs) /\ IsInjective(own)
    BY <1>1 DEF SimplifyTypes, Births
  <2> HIDE DEF own
  <2>2. child \in ToSet(own) /\ ToSet(Tail(own)) = ToSet(own) \ {child}
    BY <1>2, <2>1, QueueTail
  <2>3. child \in Procs
    BY <2>1, <2>2, QueueEmpty
  <2> QED BY <2>1, <2>2, <2>3
<1>4. OnStack(p)
  <2>1. Len(stack) \in DOMAIN stack
    BY <1>1
  <2> QED BY <1>1, <2>1 DEF OnStack
<1> HIDE DEF p
<1>5. /\ Fresh(child) /\ child # p /\ \A k \in DOMAIN runs : runs[k].pid # child
      /\ \A q \in Procs : child \in ToSet(children[q]) => q = p
  BY <1>1, <1>3, <1>4 DEF Births, own, Fresh
<1>6. ASSUME NEW q \in Procs PROVE ToSet(children'[q]) = ToSet(children[q]) \ {child}
  <2>1. CASE q = p
    <3>1. children'[q] = Tail(own)
      BY <1>2, <2>1
    <3> QED BY <1>3, <2>1, <3>1 DEF own
  <2>2. CASE q # p
    <3>1. child \notin ToSet(children[q])
      BY <1>5, <2>2
    <3>2. children'[q] = children[q]
      BY <1>2, <2>2
    <3> QED BY <3>1, <3>2
  <2> QED BY <2>1, <2>2
<1>7. child \in Waiting(Procs, children)
  BY <1>1, <1>3 DEF Waiting, own
<1>8. Waiting(Procs, children') = Waiting(Procs, children) \ {child}
  BY <1>6, ZenonT(60) DEF Waiting
<1> QED BY <1>3, <1>5, <1>7, <1>8 DEF p

LEMMA ToldFork ==
  ASSUME NEW P, NEW p, NEW file \in Seq(FileLine(P)), NEW x \in ForkLine(P), NEW W, NEW past,
         Told(W, past, p, file), x.addr \notin W,
         past[p][Len(file) + 1] = past[p][Len(file)], past[x.addr][0] = past[p][Len(file)]
  PROVE  Told(W, past, p, Append(file, x))
<1> DEFINE n == Len(file)
           long == Append(file, x)
<1>1. n \in Nat
  BY LenProperties
<1>2. /\ Len(long) = n + 1 /\ long[n + 1] = x /\ \A i \in 1 .. n : long[i] = file[i]
  <2>1. x \in FileLine(P)
    BY DEF FileLine
  <2> QED BY <2>1, AppendProperties
<1>3. x.type = "F"
  BY DEF ForkLine
<1> HIDE DEF n, long
<1>4. ASSUME NEW i \in 1 .. n + 1
      PROVE  /\ long[i].type # "F" => Follows(past[p][i - 1], long[i], past[p][i])
             /\ long[i].type = "F" => /\ past[p][i] = past[p][i - 1]
                                      /\ past[long[i].addr][0] = past[p][i - 1] /\ long[i].addr \notin W
  <2>1. CASE i = n + 1
    <3>1. i - 1 = n
      BY <1>1, <2>1
    <3> QED BY <1>2, <1>3, <2>1, <3>1 DEF n
  <2>2. CASE i # n + 1
    <3>1. i \in 1 .. n
      BY <1>1, <2>2
    <3>2. long[i] = file[i]
      BY <1>2, <3>1
    <3> QED BY <3>1, <3>2 DEF Told, n
  <2> QED BY <2>1, <2>2
<1> QED BY <1>2, <1>4 DEF Told, long

LEMMA ForkRecalled ==
  ASSUME SimplifyTypes, Births, stack # <<>>, Recalled,
         NEW e \in Acts(Procs), NEW g \in Acts(Procs), NEW h \in Acts(Procs), NEW child \in Procs,
         Forking(g, h, child), GoodFork(e, g, h, child)
  PROVE  Recalled'
<1> DEFINE n == Len(stack)
           p == top.pid
           W == Waiting(Procs, children)
           V == Waiting(Procs, children')
           k == Len(e.file)
<1>1. /\ n \in Nat \ {0} /\ DOMAIN stack = 1 .. n
      /\ top = stack[n] /\ top \in Acts(Procs) /\ p \in Procs
  BY TopOfStack
<1>2. PICK past : Recall(Procs, W, past, stack, files, runs)
  BY DEF Recalled
<1>3. past \in Pasts(Procs) /\ Told(W, past, p, top.file) /\ past[p][Len(top.file)] = top.as
  <2>1. n \in DOMAIN stack
    BY <1>1
  <2> QED BY <1>1, <1>2, <2>1 DEF Recall
<1>4. ForkWritten(top, e, g, child) /\ h.pid = child /\ h.as = g.as /\ h.file = <<>>
  BY DEF GoodFork
<1>5. /\ Grown(top, e) /\ g.pid = p /\ g.as = e.as
      /\ \E x \in ForkLine(Procs) : x.addr = child /\ g.file = Append(e.file, x)
  BY <1>4, Zenon DEF ForkWritten
<1>6. PICK old : /\ LongerPast(Procs, p, past, old)
                 /\ Told(W, old, p, e.file) /\ old[p][k] = e.as
  <2> HIDE DEF p, W
  <2>1. /\ p \in Procs /\ top \in Acts(Procs) /\ e \in Acts(Procs) /\ Grown(top, e)
        /\ past \in Pasts(Procs) /\ Told(W, past, p, top.file) /\ past[p][Len(top.file)] = top.as
    BY <1>1, <1>3, <1>5
  <2> QED BY <2>1, PastGrown
<1>7. /\ \A i \in 1 .. n - 1 : /\ Told(W, old, stack[i].pid, stack[i].file)
                               /\ old[stack[i].pid][Len(stack[i].file)] = stack[i].as
      /\ \A q \in Procs : ~OnStack(q) => Told(W, old, q, files[q])
      /\ \A j \in DOMAIN runs : old[runs[j].pid][0] = AsMapCreate
  BY <1>2, <1>6, OthersKept
<1>8. /\ Fresh(child) /\ child # p /\ child \in W /\ V = W \ {child}
      /\ \A j \in DOMAIN runs : runs[j].pid # child
  BY ChildLeaves
<1>9. /\ runs' = runs /\ Procs' = Procs /\ files' = files /\ stack' = Front(stack) \o <<g, h>>
      /\ runs \in Runs /\ stack \in Seq(Acts(Procs)) /\ files \in [Procs -> Seq(FileLine(Procs))]
  BY DEF Forking, Procs, SimplifyTypes
<1>10. /\ DOMAIN stack' = 1 .. n + 1
       /\ \A i \in 1 .. n + 1 : stack'[i] = IF i < n THEN stack[i] ELSE IF i = n THEN g ELSE h
  <2>1. /\ stack' \in Seq(Acts(Procs)) /\ Len(stack') = n + 1
        /\ \A i \in 1 .. n + 1 : stack'[i] = IF i < n THEN stack[i] ELSE IF i = n THEN g ELSE h
    BY <1>9, StackGrown
  <2> QED BY <2>1, LenProperties
<1>11. e.file \in Seq(FileLine(Procs)) /\ e.as \in AsMap /\ k \in Nat
  <2>1. e.file \in Seq(FileLine(Procs)) /\ e.as \in AsMap
    BY DEF Acts
  <2> QED BY <2>1, LenProperties
<1> HIDE DEF n, p, W, V, k
<1> DEFINE own == [i \in Nat |-> IF i = k + 1 THEN e.as ELSE old[p][i]]
           start == [i \in Nat |-> e.as]
           new == [q \in Procs |-> IF q = p THEN own ELSE IF q = child THEN start ELSE old[q]]
<1>12. old \in Pasts(Procs)
  BY <1>6 DEF LongerPast
<1>13. own \in [Nat -> AsMap] /\ start \in [Nat -> AsMap]
  <2>1. old[p] \in [Nat -> AsMap]
    BY <1>1, <1>12 DEF Pasts
  <2> QED BY <1>11, <2>1
<1>14. /\ \A i \in Nat : i <= k => own[i] = old[p][i]
       /\ own[k + 1] = e.as /\ own[0] = old[p][0] /\ start[0] = e.as
  BY <1>11
<1> HIDE DEF own, start
<1>15. /\ new \in Pasts(Procs) /\ new[p] = own /\ new[child] = start
       /\ \A q \in Procs : (q # p /\ q # child) => new[q] = old[q]
  BY <1>1, <1>8, <1>12, <1>13 DEF Pasts
<1> HIDE DEF new
<1>16. V \subseteq W /\ \A c \in Procs : c \notin W => new[c][0] = old[c][0]
  BY <1>8, <1>14, <1>15
<1>17. Told(V, new, p, g.file) /\ new[p][Len(g.file)] = g.as
  <2>1. Told(V, new, p, e.file)
    <3>1. \A i \in Nat : i <= Len(e.file) => new[p][i] = old[p][i]
      BY <1>14, <1>15 DEF k
    <3> QED BY <1>1, <1>6, <1>11, <1>16, <3>1, ToldKept
  <2>2. PICK x \in ForkLine(Procs) : x.addr = child /\ g.file = Append(e.file, x)
    BY <1>5
  <2>3. new[p][k] = e.as /\ new[p][k + 1] = e.as /\ new[x.addr][0] = e.as /\ x.addr \notin V
    BY <1>6, <1>8, <1>11, <1>14, <1>15, <2>2
  <2>4. Told(V, new, p, Append(e.file, x))
    BY <1>11, <2>1, <2>3, ToldFork DEF k
  <2>5. Len(g.file) = k + 1
    <3>1. x \in FileLine(Procs)
      BY DEF FileLine
    <3> QED BY <1>11, <2>2, <3>1, AppendProperties DEF k
  <2> QED BY <1>5, <2>2, <2>3, <2>4, <2>5
<1>18. Told(V, new, child, h.file) /\ new[child][Len(h.file)] = h.as
  <2>1. Len(<<>>) = 0 /\ 1 .. 0 = {}
    OBVIOUS
  <2>2. Told(V, new, child, <<>>)
    BY <2>1, Zenon DEF Told
  <2> QED BY <1>4, <1>5, <1>14, <1>15, <2>1, <2>2
<1>19. ASSUME NEW i \in 1 .. n - 1
       PROVE  /\ Told(V, new, stack[i].pid, stack[i].file)
              /\ new[stack[i].pid][Len(stack[i].file)] = stack[i].as
  <2>1. i \in DOMAIN stack /\ n \in DOMAIN stack /\ i # n
    BY <1>1
  <2>2. stack[i] \in Acts(Procs)
    BY <1>1, <1>9, <2>1, ElementOfSeq DEF n
  <2>3. stack[i].pid \in Procs /\ stack[i].file \in Seq(FileLine(Procs))
    BY <2>2 DEF Acts
  <2>4. stack[i].pid # p /\ stack[i].pid # child
    BY <1>1, <1>8, <2>1 DEF Births, Fresh, OnStack, p
  <2>5. new[stack[i].pid] = old[stack[i].pid]
    BY <1>15, <2>3, <2>4
  <2>6. Told(V, new, stack[i].pid, stack[i].file)
    BY <1>7, <1>16, <2>3, <2>5, ToldKept
  <2> QED BY <1>7, <2>5, <2>6
<1>20. ASSUME NEW i \in DOMAIN stack'
       PROVE  /\ Told(V, new, stack'[i].pid, stack'[i].file)
              /\ new[stack'[i].pid][Len(stack'[i].file)] = stack'[i].as
  <2>1. CASE i = n + 1
    <3>1. stack'[i] = h
      BY <1>1, <1>10, <2>1
    <3> QED BY <1>4, <1>18, <3>1
  <2>2. CASE i = n
    <3>1. stack'[i] = g
      BY <1>1, <1>10, <2>2
    <3> QED BY <1>5, <1>17, <3>1
  <2>3. CASE i # n + 1 /\ i # n
    <3>1. i \in 1 .. n - 1 /\ stack'[i] = stack[i]
      BY <1>1, <1>10, <2>3
    <3> QED BY <1>19, <3>1
  <2> QED BY <2>1, <2>2, <2>3
<1>21. ASSUME NEW q \in Procs, \A i \in DOMAIN stack' : stack'[i].pid # q
       PROVE  Told(V, new, q, files[q])
  <2>1. n \in DOMAIN stack' /\ n + 1 \in DOMAIN stack' /\ stack'[n] = g /\ stack'[n + 1] = h
    BY <1>1, <1>10
  <2>2. q # p /\ q # child
    BY <1>4, <1>5, <1>21, <2>1
  <2>3. ASSUME NEW i \in DOMAIN stack PROVE stack[i].pid # q
    <3>1. CASE i = n
      BY <1>1, <2>2, <3>1 DEF p
    <3>2. CASE i # n
      <4>1. i \in DOMAIN stack' /\ stack'[i] = stack[i]
        BY <1>1, <1>10, <3>2
      <4> QED BY <1>21, <4>1
    <3> QED BY <3>1, <3>2
  <2>4. ~OnStack(q)
    BY <2>3 DEF OnStack
  <2>5. new[q] = old[q] /\ Told(W, old, q, files[q]) /\ files[q] \in Seq(FileLine(Procs))
    BY <1>7, <1>9, <1>15, <2>2, <2>4
  <2> QED BY <1>16, <2>5, ToldKept
<1>22. ASSUME NEW j \in DOMAIN runs PROVE new[runs[j].pid][0] = AsMapCreate
  <2>1. runs[j].pid \in Procs /\ runs[j].pid # child
    BY <1>8, <1>9, RunFacts DEF Procs
  <2> QED BY <1>7, <1>14, <1>15, <2>1
<1>23. Recall(Procs, V, new, stack', files, runs)
  BY <1>15, <1>20, <1>21, <1>22 DEF Recall
<1> QED BY <1>9, <1>23 DEF Recalled, V

-----------------------------------------------------------------------------
(* The trace                                                               *)

(* A process of the trace has of its memory what its file says it had at   *)
(* the line the process has got to.                                        *)
Placed(past, p, place, mem) ==
  \A v \in 0 .. Len(p) - 1 : mem[v + 1] = past[p[v + 1]][place[v + 1]]
Remembered ==
  \E past : /\ Recall(Procs, Waiting(Procs, children), past, stack, files, runs)
            /\ Placed(past, pid, pos, memory)

(* The next line of a process, when the files are complete.                *)
LEMMA LineRead ==
  ASSUME SimplifyTypes, SchedulerTypes, stack = <<>>, NEW past,
         Recall(Procs, Waiting(Procs, children), past, stack, files, runs),
         Placed(past, pid, pos, memory), NEW v \in processes, ~AtEnd(v)
  PROVE  LET x == NextLine(v)
             next == past[pid[v + 1]][pos[v + 1] + 1]
         IN  /\ x.type # "F" => Follows(memory[v + 1], x, next)
             /\ x.type = "F" => next = memory[v + 1] /\ past[x.addr][0] = memory[v + 1]
<1> DEFINE x == NextLine(v)
           p == pid[v + 1]
           i == pos[v + 1]
           W == Waiting(Procs, children)
           file == files[p]
<1>1. /\ v \in Nat /\ v + 1 \in 1 .. Len(pid) /\ p \in Procs
      /\ i \in 0 .. Len(file) /\ Len(file) \in Nat /\ i + 1 \in 1 .. Len(file)
  BY PlaceInFile DEF FileOf
<1>2. x = file[i + 1]
  BY DEF NextLine, FileOf
<1>3. Len(pid) \in Nat
  BY LenProperties DEF SchedulerTypes
<1>4. memory[v + 1] = past[p][i]
  <2>1. v \in 0 .. Len(pid) - 1
    BY <1>1, <1>3
  <2> QED BY <2>1 DEF Placed
<1>5. Told(W, past, p, file)
  <2>1. DOMAIN stack = {}
    OBVIOUS
  <2> QED BY <1>1, <2>1 DEF Recall
<1> HIDE DEF x, p, i, W, file
<1>6. i \in Nat /\ (i + 1) - 1 = i
  BY <1>1
<1>7. /\ x.type # "F" => Follows(past[p][i], x, past[p][i + 1])
      /\ x.type = "F" => past[p][i + 1] = past[p][i] /\ past[x.addr][0] = past[p][i]
  <2>1. /\ x.type # "F" => Follows(past[p][(i + 1) - 1], x, past[p][i + 1])
        /\ x.type = "F" => /\ past[p][i + 1] = past[p][(i + 1) - 1]
                           /\ past[x.addr][0] = past[p][(i + 1) - 1]
    BY <1>1, <1>2, <1>5 DEF Told
  <2> QED BY <1>6, <2>1
<1> QED BY <1>4, <1>7 DEF x, p, i

LEMMA BeginPlaced ==
  ASSUME SimplifyTypes, SchedulerTypes, BeginProcess, NEW past,
         Recall(Procs, Waiting(Procs, children), past, stack, files, runs),
         Placed(past, pid, pos, memory)
  PROVE  Placed(past, pid', pos', memory')
<1> DEFINE n == Len(pid)
           p == runs[n + 1].pid
<1>1. /\ n < Len(runs) /\ Schedule(p) /\ pos' = Append(pos, 0)
      /\ memory' = Append(memory, AsMapCreate)
  BY DEF BeginProcess
<1>2. n \in Nat /\ pos \in Seq(Nat) /\ Len(pos) = n
  BY LenProperties DEF SchedulerTypes
<1>3. p \in Procs /\ past[p][0] = AsMapCreate
  <2>1. runs \in Runs
    BY DEF SimplifyTypes
  <2>2. n + 1 \in DOMAIN runs
    BY <1>1, <1>2, <2>1, RunFacts
  <2> QED BY <2>1, <2>2, RunFacts DEF Procs, Recall
<1>4. AsMapCreate \in AsMap
  BY DEF AsMapCreate, AsMap
<1> HIDE DEF p
<1>5. /\ Len(pid') = n + 1 /\ pid'[n + 1] = p /\ \A i \in 1 .. n : pid'[i] = pid[i]
      /\ pos'[n + 1] = 0 /\ \A i \in 1 .. n : pos'[i] = pos[i]
      /\ memory'[n + 1] = AsMapCreate /\ \A i \in 1 .. n : memory'[i] = memory[i]
  BY <1>1, <1>2, <1>3, <1>4, ScheduleEffect
<1> HIDE DEF n
<1>6. ASSUME NEW v \in 0 .. n PROVE memory'[v + 1] = past[pid'[v + 1]][pos'[v + 1]]
  <2>1. CASE v = n
    BY <1>3, <1>5, <2>1
  <2>2. CASE v # n
    <3>1. v + 1 \in 1 .. n /\ v \in 0 .. n - 1
      BY <1>2, <2>2
    <3> QED BY <1>5, <3>1 DEF Placed, n
  <2> QED BY <2>1, <2>2
<1>7. Len(pid') - 1 = n
  BY <1>2, <1>5
<1> QED BY <1>6, <1>7 DEF Placed

LEMMA ForkPlaced ==
  ASSUME SimplifyTypes, SchedulerTypes, stack = <<>>, NEW v \in processes, ForkProcess(v), NEW past,
         Recall(Procs, Waiting(Procs, children), past, stack, files, runs),
         Placed(past, pid, pos, memory)
  PROVE  Placed(past, pid', pos', memory')
<1> DEFINE n == Len(pid)
           p == NextLine(v).addr
           i == pos[v + 1]
           q == [pos EXCEPT ![v + 1] = i + 1]
           m == memory[v + 1]
<1>1. /\ ~AtEnd(v) /\ NextLine(v).type = "F" /\ Schedule(p) /\ pos' = Append(q, 0)
      /\ memory' = Append(memory, m)
  BY DEF ForkProcess
<1>2. v \in Nat /\ v + 1 \in 1 .. n /\ m \in AsMap /\ NextLine(v) \in FileLine(Procs)
      /\ i + 1 \in 1 .. Len(FileOf(v)) /\ Len(FileOf(v)) \in Nat
  BY <1>1, PlaceInFile
<1>3. n \in Nat /\ pos \in Seq(Nat) /\ Len(pos) = n
  BY LenProperties DEF SchedulerTypes
<1>4. p \in Procs
  BY <1>1, <1>2, FileLines
<1>5. past[pid[v + 1]][i + 1] = m /\ past[p][0] = m
  BY <1>1, LineRead
<1>6. q \in Seq(Nat) /\ Len(q) = n
      /\ \A k \in 1 .. n : q[k] = IF k = v + 1 THEN i + 1 ELSE pos[k]
  <2>1. i + 1 \in Nat
    BY <1>2
  <2> QED BY <1>2, <1>3, <2>1, ExceptSeq
<1> HIDE DEF p, q, i, m
<1>7. /\ Len(pid') = n + 1 /\ pid'[n + 1] = p /\ \A k \in 1 .. n : pid'[k] = pid[k]
      /\ pos'[n + 1] = 0 /\ \A k \in 1 .. n : pos'[k] = q[k]
      /\ memory'[n + 1] = m /\ \A k \in 1 .. n : memory'[k] = memory[k]
  BY <1>1, <1>2, <1>4, <1>6, ScheduleEffect
<1> HIDE DEF n
<1>8. ASSUME NEW w \in 0 .. n PROVE memory'[w + 1] = past[pid'[w + 1]][pos'[w + 1]]
  <2>1. CASE w = n
    BY <1>5, <1>7, <2>1
  <2>2. CASE w # n
    <3>1. w + 1 \in 1 .. n /\ w \in 0 .. n - 1 /\ w \in Nat
      BY <1>3, <2>2
    <3>2. memory'[w + 1] = memory[w + 1] /\ pid'[w + 1] = pid[w + 1] /\ pos'[w + 1] = q[w + 1]
      BY <1>7, <3>1
    <3>3. CASE w = v
      BY <1>2, <1>5, <1>6, <3>1, <3>2, <3>3 DEF m
    <3>4. CASE w # v
      <4>1. q[w + 1] = pos[w + 1]
        BY <1>2, <1>6, <3>1, <3>4
      <4>2. memory[w + 1] = past[pid[w + 1]][pos[w + 1]]
        BY <3>1 DEF Placed, n
      <4> QED BY <3>2, <4>1, <4>2
    <3> QED BY <3>3, <3>4
  <2> QED BY <2>1, <2>2
<1>9. Len(pid') - 1 = n
  BY <1>3, <1>7
<1> QED BY <1>8, <1>9 DEF Placed

LEMMA CopyPlaced ==
  ASSUME SimplifyTypes, SchedulerTypes, stack = <<>>, NEW v \in processes, CopyLine(v), NEW past,
         Recall(Procs, Waiting(Procs, children), past, stack, files, runs),
         Placed(past, pid, pos, memory)
  PROVE  Placed(past, pid', pos', memory')
<1> DEFINE n == Len(pid)
           x == NextLine(v)
           i == pos[v + 1]
           m == [memory[v + 1] EXCEPT ![x.addr] = x.value]
<1>1. /\ ~AtEnd(v) /\ x.type # "F" /\ pos' = [pos EXCEPT ![v + 1] = i + 1]
      /\ memory' = [memory EXCEPT ![v + 1] = m] /\ pid' = pid
  BY DEF CopyLine
<1>2. v \in Nat /\ v + 1 \in 1 .. n /\ i + 1 \in 1 .. Len(FileOf(v)) /\ Len(FileOf(v)) \in Nat
  BY <1>1, PlaceInFile
<1>3. /\ n \in Nat /\ pos \in Seq(Nat) /\ Len(pos) = n /\ memory \in Seq(AsMap) /\ Len(memory) = n
  BY LenProperties DEF SchedulerTypes
<1>4. m = past[pid[v + 1]][i + 1]
  BY <1>1, LineRead DEF Follows
<1>5. DOMAIN pos = 1 .. n /\ DOMAIN memory = 1 .. n
  BY <1>3, LenProperties
<1> HIDE DEF n, x, i, m
<1>6. ASSUME NEW w \in 0 .. n - 1 PROVE memory'[w + 1] = past[pid[w + 1]][pos'[w + 1]]
  <2>1. w + 1 \in 1 .. n /\ w \in Nat
    BY <1>3
  <2>2. CASE w = v
    <3>1. pos'[w + 1] = i + 1 /\ memory'[w + 1] = m
      BY <1>1, <1>5, <2>1, <2>2
    <3> QED BY <1>4, <2>2, <3>1
  <2>3. CASE w # v
    <3>1. w + 1 # v + 1
      BY <1>2, <2>1, <2>3
    <3>2. pos'[w + 1] = pos[w + 1] /\ memory'[w + 1] = memory[w + 1]
      BY <1>1, <1>5, <2>1, <3>1
    <3> QED BY <3>2 DEF Placed, n
  <2> QED BY <2>2, <2>3
<1> QED BY <1>1, <1>6 DEF Placed, n

MemoryInv == Inv /\ Remembered

LEMMA RememberedInit == TracesInit => Remembered
<1> SUFFICES ASSUME TracesInit PROVE Remembered
  OBVIOUS
<1> DEFINE past == [p \in Procs |-> [i \in Nat |-> AsMapCreate]]
           W == Waiting(Procs, children)
           m == stack[1]
           e == <<>>
<1>1. SimplifyTypes
  BY SimplifyInit DEF TracesInit
<1>2. /\ stack = <<Main(runs[1].pid)>> /\ files = [p \in Procs |-> e] /\ pid = e
  BY DEF TracesInit, Init, Procs
<1>3. runs \in Runs /\ runs[1].pid \in Procs /\ \A k \in DOMAIN runs : runs[k].pid \in Procs
  <2>1. runs \in Runs
    BY <1>1 DEF SimplifyTypes
  <2>2. 1 \in DOMAIN runs
    <3>1. Len(runs) \in Nat \ {0} /\ DOMAIN runs = 1 .. Len(runs)
      BY <2>1, RunFacts
    <3> QED BY <3>1
  <2> QED BY <2>1, <2>2, RunFacts DEF Procs
<1>4. DOMAIN stack = {1} /\ m.pid \in Procs /\ m.file = e /\ m.as = AsMapCreate
  <2> DEFINE q == runs[1].pid
  <2>1. Main(q).pid = q /\ Main(q).file = e /\ Main(q).as = AsMapCreate
    BY <1>3, MainEffect
  <2> QED BY <1>2, <1>3, <2>1
<1>5. Len(e) = 0 /\ 1 .. 0 = {} /\ 0 .. 0 - 1 = {}
  OBVIOUS
<1>6. past \in Pasts(Procs) /\ \A p \in Procs : past[p][0] = AsMapCreate
  <2>1. AsMapCreate \in AsMap
    BY DEF AsMapCreate, AsMap
  <2> QED BY <2>1 DEF Pasts
<1> HIDE DEF past, W, m, e
<1>7. \A p : Told(W, past, p, e)
  BY <1>5, Zenon DEF Told
<1>8. Recall(Procs, W, past, stack, files, runs)
  <2>1. \A i \in DOMAIN stack : /\ Told(W, past, stack[i].pid, stack[i].file)
                                /\ past[stack[i].pid][Len(stack[i].file)] = stack[i].as
    BY <1>4, <1>5, <1>6, <1>7 DEF m
  <2>2. \A p \in Procs : files[p] = e
    BY <1>2
  <2>3. \A p \in Procs : Told(W, past, p, files[p])
    BY <1>7, <2>2
  <2> QED BY <1>3, <1>6, <2>1, <2>3 DEF Recall
<1>9. Placed(past, pid, pos, memory)
  BY <1>2, <1>5, Zenon DEF Placed
<1> QED BY <1>8, <1>9 DEF Remembered, W

LEMMA RememberedSimplify ==
  ASSUME Inv, Remembered, SimplifyNext, UNCHANGED schedulerVars
  PROVE  Remembered'
<1>1. /\ SimplifyTypes /\ Births /\ OrderKept /\ stack # <<>> /\ Recalled
      /\ pid = <<>> /\ pid' = pid
  BY DEF Inv, Remembered, Recalled, SimplifyNext, SchedulerTypes, schedulerVars
<1>2. ReadLine \/ ReadIsParent \/ EndOfLog
  BY Zenon DEF SimplifyNext, ReadLine
<1>3. Recalled'
  <2>1. CASE ReadLine
    <3>1. PICK g \in Acts(Procs), keys \in Seq(KeySet) : Reading(g, keys) /\ GoodTop(g, keys)
      BY <1>1, <2>1, ReadEffect
    <3> QED BY <1>1, <3>1, ReadRecalled
  <2>2. CASE ReadIsParent
    <3>1. PICK e, g, h \in Acts(Procs), child \in Procs :
            Forking(g, h, child) /\ GoodFork(e, g, h, child)
      BY <1>1, <2>2, ForkEffect
    <3> QED BY <1>1, <3>1, ForkRecalled
  <2>3. CASE EndOfLog
    <3>1. PICK e \in Acts(Procs) : Ending(e) /\ GoodEnd(e)
      BY <1>1, <2>3, EndEffect
    <3> QED BY <1>1, <3>1, EndRecalled
  <2> QED BY <1>2, <2>1, <2>2, <2>3
<1>4. PICK past : Recall(Procs', Waiting(Procs', children'), past, stack', files', runs')
  BY <1>3 DEF Recalled
<1>5. Placed(past, pid', pos', memory')
  <2>1. Len(<<>>) = 0 /\ 0 .. 0 - 1 = {}
    OBVIOUS
  <2> QED BY <1>1, <2>1 DEF Placed
<1> QED BY <1>4, <1>5 DEF Remembered

LEMMA RememberedNext == MemoryInv /\ [Next]_vars => Remembered'
<1> SUFFICES ASSUME Inv, Remembered, [Next]_vars PROVE Remembered'
  BY DEF MemoryInv
<1>1. SimplifyTypes /\ SchedulerTypes
  BY DEF Inv
<1>2. PICK past : /\ Recall(Procs, Waiting(Procs, children), past, stack, files, runs)
                  /\ Placed(past, pid, pos, memory)
  BY DEF Remembered
<1>3. ASSUME UNCHANGED simplifyVars, Placed(past, pid', pos', memory') PROVE Remembered'
  <2>1. Procs' = Procs /\ children' = children /\ stack' = stack /\ files' = files /\ runs' = runs
    BY <1>3 DEF simplifyVars, Procs
  <2> QED BY <1>2, <1>3, <2>1 DEF Remembered
<1>4. CASE SimplifyNext /\ UNCHANGED schedulerVars
  BY <1>4, RememberedSimplify
<1>5. CASE BeginProcess
  <2>1. UNCHANGED simplifyVars
    BY <1>5 DEF BeginProcess
  <2> QED BY <1>1, <1>2, <1>3, <1>5, <2>1, BeginPlaced
<1>6. CASE Combine
  <2>1. stack = <<>>
    BY <1>6 DEF Combine
  <2>2. PICK v \in processes : EndProcess(v) \/ ForkProcess(v) \/ CopyLine(v)
    BY <1>6 DEF Combine
  <2>3. UNCHANGED simplifyVars
    BY <2>2 DEF EndProcess, ForkProcess, CopyLine
  <2>4. CASE EndProcess(v)
    <3>1. pid' = pid /\ pos' = pos /\ memory' = memory
      BY <2>4 DEF EndProcess
    <3> QED BY <1>2, <1>3, <2>3, <3>1
  <2>5. CASE ForkProcess(v)
    BY <1>1, <1>2, <1>3, <2>1, <2>3, <2>5, ForkPlaced
  <2>6. CASE CopyLine(v)
    BY <1>1, <1>2, <1>3, <2>1, <2>3, <2>6, CopyPlaced
  <2> QED BY <2>2, <2>4, <2>5, <2>6
<1>7. CASE UNCHANGED vars
  <2>1. UNCHANGED simplifyVars /\ pid' = pid /\ pos' = pos /\ memory' = memory
    BY <1>7 DEF vars, schedulerVars
  <2> QED BY <1>2, <1>3, <2>1
<1>8. CASE Finished
  BY <1>7, <1>8 DEF Finished
<1> QED BY <1>4, <1>5, <1>6, <1>7, <1>8 DEF Next

THEOREM MemoryInvariant == Spec => []MemoryInv
<1>1. TracesInit => MemoryInv
  BY InvInit, RememberedInit DEF MemoryInv
<1>2. MemoryInv /\ [Next]_vars => MemoryInv'
  BY InvNext, RememberedNext DEF MemoryInv
<1> QED BY <1>1, <1>2, PTL DEF Spec

LEMMA InitMemory == TracesInit => M!Init
<1> SUFFICES ASSUME TracesInit PROVE M!Init
  OBVIOUS
<1>1. pid = <<>> /\ memory = <<>> /\ processes = {} /\ line.type = "none"
  BY DEF TracesInit
<1>2. Len(<<>>) = 0 /\ 0 .. 0 - 1 = {}
  OBVIOUS
<1>3. Len(pid) = 0 /\ (0 .. Len(pid) - 1) \ processes = {}
  BY <1>1, <1>2
<1> QED BY <1>1, <1>3 DEF M!Init

(* The tasks that have not ended are those the scheduler may choose.       *)
LEMMA Living ==
  ASSUME SchedulerTypes
  PROVE  Len(pid) \in Nat /\ M!Alive = processes
<1>1. Len(pid) \in Nat
  BY LenProperties DEF SchedulerTypes
<1>2. processes \subseteq 0 .. Len(pid) - 1
  BY DEF SchedulerTypes
<1> QED BY <1>1, <1>2 DEF M!Alive

LEMMA StepMemory == MemoryInv /\ [Next]_vars => [M!Next]_(M!vars)
<1> SUFFICES ASSUME Inv, Remembered, [Next]_vars PROVE M!Next \/ UNCHANGED M!vars
  BY DEF MemoryInv
<1> DEFINE n == Len(pid)
           Ended == (0 .. n - 1) \ processes
<1>1. /\ SimplifyTypes /\ SchedulerTypes /\ n \in Nat /\ M!Alive = processes
      /\ processes \subseteq 0 .. n - 1
  BY Living DEF Inv, SchedulerTypes
<1>2. PICK past : /\ Recall(Procs, Waiting(Procs, children), past, stack, files, runs)
                  /\ Placed(past, pid, pos, memory)
  BY DEF Remembered
<1>3. ASSUME UNCHANGED schedulerVars PROVE UNCHANGED M!vars
  BY <1>3 DEF schedulerVars, M!vars
<1>4. ASSUME NEW p \in Procs, Schedule(p)
      PROVE  Len(pid') = n + 1 /\ (0 .. Len(pid') - 1) \ processes' = Ended
  <2>1. Len(pid') = n + 1
    BY <1>1, <1>4, AppendProperties DEF Schedule, SchedulerTypes
  <2>2. 0 .. Len(pid') - 1 = (0 .. n - 1) \cup {n} /\ n \notin 0 .. n - 1
    BY <1>1, <2>1
  <2>3. processes' = processes \cup {n}
    BY <1>4 DEF Schedule
  <2> QED BY <2>1, <2>2, <2>3
<1>5. CASE SimplifyNext /\ UNCHANGED schedulerVars
  BY <1>3, <1>5
<1>6. CASE BeginProcess
  <2> DEFINE p == runs[n + 1].pid
  <2>1. /\ n < Len(runs) /\ Schedule(p) /\ memory' = Append(memory, AsMapCreate)
        /\ line' = [vpid |-> n, type |-> "B", addr |-> 0, value |-> 0]
    BY <1>6 DEF BeginProcess, WriteLine
  <2>2. p \in Procs
    <3>1. runs \in Runs
      BY <1>1 DEF SimplifyTypes
    <3>2. n + 1 \in DOMAIN runs
      BY <1>1, <2>1, <3>1, RunFacts
    <3> QED BY <3>1, <3>2, RunFacts DEF Procs
  <2> HIDE DEF p
  <2>3. Len(pid') = n + 1 /\ (0 .. Len(pid') - 1) \ processes' = Ended
    BY <1>4, <2>1, <2>2
  <2>4. M!Begin
    BY <2>1, <2>3 DEF M!Begin, M!Blank, AsMapCreate
  <2> QED BY <2>4 DEF M!Next
<1>7. CASE Combine
  <2>1. stack = <<>>
    BY <1>7 DEF Combine
  <2>2. PICK v \in processes : EndProcess(v) \/ ForkProcess(v) \/ CopyLine(v)
    BY <1>7 DEF Combine
  <2>3. CASE EndProcess(v)
    <3>1. /\ processes' = processes \ {v} /\ pid' = pid /\ memory' = memory
          /\ line' = [vpid |-> v, type |-> "E", addr |-> 0, value |-> 0]
      BY <2>3 DEF EndProcess, WriteLine
    <3>2. (0 .. n - 1) \ (processes \ {v}) = Ended \cup {v}
      BY <1>1
    <3>3. M!End(v)
      BY <3>1, <3>2 DEF M!End
    <3> QED BY <1>1, <3>3 DEF M!Next
  <2>4. CASE ForkProcess(v)
    <3> DEFINE p == NextLine(v).addr
    <3>1. /\ ~AtEnd(v) /\ NextLine(v).type = "F" /\ Schedule(p)
          /\ memory' = Append(memory, memory[v + 1])
          /\ line' = [vpid |-> v, type |-> "F", addr |-> n, value |-> 0]
      BY <2>4 DEF ForkProcess, WriteLine
    <3>2. p \in Procs
      BY <1>1, <3>1, PlaceInFile, FileLines
    <3> HIDE DEF p
    <3>3. Len(pid') = n + 1 /\ (0 .. Len(pid') - 1) \ processes' = Ended
      BY <1>4, <3>1, <3>2
    <3>4. M!Fork(v)
      BY <3>1, <3>3 DEF M!Fork
    <3> QED BY <1>1, <3>4 DEF M!Next
  <2>5. CASE CopyLine(v)
    <3> DEFINE x == NextLine(v)
               a == x.addr
               y == x.value
               next == past[pid[v + 1]][pos[v + 1] + 1]
    <3>1. /\ ~AtEnd(v) /\ x.type # "F" /\ memory' = [memory EXCEPT ![v + 1][a] = y]
          /\ line' = [vpid |-> v, type |-> x.type, addr |-> a, value |-> y]
          /\ pid' = pid /\ processes' = processes
      BY <2>5 DEF CopyLine, WriteLine
    <3>2. x.type \in {"I", "L", "S", "M"} /\ a \in Addr /\ y \in Val
      <4>1. x \in FileLine(Procs)
        BY <1>1, <3>1, PlaceInFile
      <4> QED BY <3>1, <4>1, FileLines, Sizes1
    <3>3. x.type \in {"I", "L"} => memory[v + 1][a] \in {y, Unknown}
      <4>1. Follows(memory[v + 1], x, next)
        BY <1>1, <1>2, <2>1, <3>1, LineRead
      <4> QED BY <4>1 DEF Follows
    <3> HIDE DEF x, a, y, next
    <3>4. M!Access(v, a, y)
      BY <3>1, <3>2, <3>3 DEF M!Access
    <3> QED BY <1>1, <3>2, <3>4 DEF M!Next
  <2> QED BY <2>2, <2>3, <2>4, <2>5
<1>8. CASE UNCHANGED vars
  BY <1>3, <1>8 DEF vars
<1>9. CASE Finished
  BY <1>3, <1>9 DEF Finished, vars
<1> QED BY <1>5, <1>6, <1>7, <1>8, <1>9 DEF Next

(* The trace implements module TraceMemory: whatever is buffered, thrown   *)
(* away, flushed or copied at a fork, and in whatever order the scheduler  *)
(* takes the lines, every load has the value its task's memory holds.      *)
THEOREM MemoryImplemented == Spec => ImplementsMemory
  BY InitMemory, StepMemory, MemoryInvariant, PTL DEF Spec, ImplementsMemory, M!Spec

=============================================================================
