--------------------------- MODULE JobLogsProofs ---------------------------
(***************************************************************************)
(* What the scrubber, which is written as recursive functions, computes    *)
(* for every text and every set of secrets; and, from that, that no log    *)
(* shows a secret and no follower of a log misses a part of it.            *)
(*                                                                         *)
(* The library's induction theorems take a predicate as a parameter; here  *)
(* induction is stated for sets of numbers, from its theorem that the      *)
(* natural numbers are well-founded.                                       *)
(***************************************************************************)
EXTENDS JobLogs, SequenceTheorems, FiniteSetTheorems, FunctionTheorems, WellFoundedInduction,
        TLAPS

-----------------------------------------------------------------------------
(* Induction and recursion over the natural numbers.                       *)

\* A set of numbers has a least element.
LEMMA LeastNumber ==
  ASSUME NEW T, T \subseteq Nat, T # {}
  PROVE  \E x \in T : \A y \in T : x <= y
<1>1. PICK x \in T : \A y \in T : ~ (<<y, x>> \in OpToRel(<, Nat))
  BY NatLessThanWellFounded, WFMin
<1>2. \A y \in T : ~ (y < x)
  <2> SUFFICES ASSUME NEW y \in T, y < x PROVE FALSE
    OBVIOUS
  <2>1. <<y, x>> \in OpToRel(<, Nat)
    BY DEF OpToRel
  <2> QED
    BY <1>1, <2>1
<1>3. x \in Nat /\ \A y \in T : y \in Nat
  OBVIOUS
<1>4. \A y \in T : x <= y
  BY <1>2, <1>3
<1> QED
  BY <1>4

\* Induction from 0 upwards.
LEMMA Upwards ==
  ASSUME NEW S, 0 \in S, \A n \in Nat : n \in S => n + 1 \in S
  PROVE  \A n \in Nat : n \in S
<1> DEFINE T == Nat \ S
<1> SUFFICES ASSUME T # {} PROVE FALSE
  OBVIOUS
<1>1. PICK x \in T : \A y \in T : x <= y
  <2> HIDE DEF T
  <2>1. T \subseteq Nat
    BY DEF T
  <2> QED
    BY <2>1, LeastNumber
<1>2. x # 0
  OBVIOUS
<1>3. x - 1 \in Nat /\ x - 1 \notin T
  BY <1>1, <1>2
<1>4. x - 1 \in S /\ (x - 1) + 1 = x
  BY <1>1, <1>3
<1> QED
  BY <1>3, <1>4

\* Induction from the end of an interval downwards.
LEMMA Downwards ==
  ASSUME NEW n \in Nat, NEW S,
         \A i \in 1 .. n : (\A j \in i + 1 .. n : j \in S) => i \in S
  PROVE  \A i \in 1 .. n : i \in S
<1> DEFINE T == {k \in Nat : k < n /\ n - k \notin S}
<1> SUFFICES ASSUME NEW i \in 1 .. n, i \notin S PROVE FALSE
  OBVIOUS
<1>1. n - i \in T
  OBVIOUS
<1>2. PICK k \in T : \A l \in T : k <= l
  <2> HIDE DEF T
  <2>1. T \subseteq Nat /\ T # {}
    BY <1>1 DEF T
  <2> QED
    BY <2>1, LeastNumber
<1>3. n - k \in 1 .. n /\ n - k \notin S
  BY <1>2
<1>4. ASSUME NEW j \in n - k + 1 .. n, j \notin S PROVE FALSE
  <2>1. n - j \in T /\ n - j < k
    BY <1>3, <1>4
  <2> QED
    BY <1>2, <2>1
<1> QED
  BY <1>3, <1>4

\* H stands for the body of a definition of a function on I by recursion: its value at a
\* place is determined by those at places of a smaller rank.
Decreasing(H, I, V, rank) ==
  /\ [I -> V] # {} /\ H \in [[I -> V] -> [I -> V]]
  /\ \A f, g \in [I -> V], i \in I :
       (\A j \in I : rank[j] < rank[i] => f[j] = g[j]) => H[f][i] = H[g][i]
Ranked(I, rank, b) == b \in Nat /\ rank \in [I -> Nat] /\ \A i \in I : rank[i] < b

\* Such a function exists.
LEMMA Recursion ==
  ASSUME NEW I, NEW V, NEW rank, NEW b, NEW H, Decreasing(H, I, V, rank), Ranked(I, rank, b)
  PROVE  \E f \in [I -> V] : f = H[f]
<1> USE DEF Decreasing, Ranked
<1> DEFINE Upto(f, n) == \A i \in I : rank[i] < n => f[i] = H[f][i]
           S == {n \in Nat : \E f \in [I -> V] : Upto(f, n)}
<1>1. 0 \in S
  OBVIOUS
<1>2. ASSUME NEW n \in Nat, n \in S PROVE n + 1 \in S
  <2>1. PICK f \in [I -> V] : Upto(f, n)
    BY <1>2
  <2> DEFINE g == H[f]
  <2>2. g \in [I -> V]
    OBVIOUS
  <2>3. ASSUME NEW i \in I, rank[i] < n + 1 PROVE g[i] = H[g][i]
    <3>1. \A j \in I : rank[j] < rank[i] => f[j] = g[j]
      BY <2>1, <2>3
    <3> QED
      BY <2>2, <3>1
  <2> HIDE DEF g
  <2> QED
    BY <2>2, <2>3
<1>3. b \in S
  <2> HIDE DEF S
  <2> QED
    BY <1>1, <1>2, Upwards
<1>4. PICK f \in [I -> V] : Upto(f, b)
  BY <1>3
<1>5. \A i \in I : f[i] = H[f][i]
  BY <1>4
<1>6. H[f] \in [I -> V]
  OBVIOUS
<1> QED
  BY <1>5, <1>6

-----------------------------------------------------------------------------
(* Flat: the text of a file from its parts.                                *)

FlatRec(parts, f) ==
  f = [i \in 0 .. Len(parts) |-> IF i = 0 THEN <<>> ELSE f[i - 1] \o parts[i]]
UpTo(parts) == CHOOSE f : FlatRec(parts, f)

\* The text up to a part is the text up to the part before it, and that part.
LEMMA FlatSteps ==
  ASSUME NEW A, NEW parts \in Seq(Seq(A))
  PROVE  /\ Flat(parts) = UpTo(parts)[Len(parts)]
         /\ UpTo(parts)[0] = <<>>
         /\ \A i \in 1 .. Len(parts) : UpTo(parts)[i] = UpTo(parts)[i - 1] \o parts[i]
         /\ \A i \in 0 .. Len(parts) : UpTo(parts)[i] \in Seq(A)
<1> DEFINE n == Len(parts)
           I == 0 .. n
           V == Seq(A)
           m == [i \in I |-> i]
           H == [f \in [I -> V] |-> [i \in I |-> IF i = 0 THEN <<>> ELSE f[i - 1] \o parts[i]]]
<1>1. n \in Nat /\ \A i \in 1 .. n : parts[i] \in V
  BY LenProperties
<1>2. \E f : FlatRec(parts, f)
  <2>1. <<>> \in V
    OBVIOUS
  <2>2. m \in [I -> Nat] /\ \A i \in I : m[i] < n + 1
    BY <1>1
  <2>3. \A f \in [I -> V], i \in I : i # 0 => f[i - 1] \o parts[i] \in V
    <3> SUFFICES ASSUME NEW f \in [I -> V], NEW i \in I, i # 0
                 PROVE  f[i - 1] \o parts[i] \in V
      OBVIOUS
    <3>1. i - 1 \in I /\ i \in 1 .. n
      BY <1>1
    <3> HIDE DEF I, n
    <3>2. f[i - 1] \in V /\ parts[i] \in V
      <4> HIDE DEF V
      <4> QED
        BY <1>1, <3>1
    <3> QED
      BY <3>2, ConcatProperties
  <2>4. H \in [[I -> V] -> [I -> V]]
    BY <2>1, <2>3
  <2>5. [i \in I |-> <<>>] \in [I -> V]
    BY <2>1
  <2>6. ASSUME NEW f \in [I -> V], NEW g \in [I -> V], NEW i \in I,
               \A j \in I : m[j] < m[i] => f[j] = g[j]
        PROVE  H[f][i] = H[g][i]
    <3>1. H[f][i] = (IF i = 0 THEN <<>> ELSE f[i - 1] \o parts[i])
          /\ H[g][i] = (IF i = 0 THEN <<>> ELSE g[i - 1] \o parts[i])
      OBVIOUS
    <3>2. i # 0 => f[i - 1] = g[i - 1]
      BY <1>1, <2>6
    <3> QED
      BY <3>1, <3>2
  <2>7. \E f \in [I -> V] : f = H[f]
    <3>1. Ranked(I, m, n + 1)
      BY <1>1, <2>2 DEF Ranked
    <3> HIDE DEF I, V, m, H
    <3>2. Decreasing(H, I, V, m)
      BY <2>4, <2>5, <2>6 DEF Decreasing
    <3> QED
      BY <3>1, <3>2, Recursion
  <2>8. PICK f \in [I -> V] : f = H[f]
    BY <2>7
  <2>9. FlatRec(parts, f)
    BY <2>8 DEF FlatRec
  <2> QED
    BY <2>9
<1>3. FlatRec(parts, UpTo(parts))
  BY <1>2 DEF UpTo
<1>4. Flat(parts) = UpTo(parts)[n]
  BY DEF Flat, UpTo, FlatRec
<1> DEFINE U == UpTo(parts)
<1>5. U[0] = <<>> /\ \A i \in 1 .. n : U[i] = U[i - 1] \o parts[i]
  <2> HIDE DEF U
  <2>1. U = [i \in 0 .. n |-> IF i = 0 THEN <<>> ELSE U[i - 1] \o parts[i]]
    BY <1>3 DEF FlatRec, U
  <2>2. \A i \in 0 .. n : U[i] = IF i = 0 THEN <<>> ELSE U[i - 1] \o parts[i]
    BY <2>1
  <2>3. 0 \in 0 .. n /\ \A i \in 1 .. n : i \in 0 .. n /\ i # 0
    BY <1>1
  <2> HIDE DEF n
  <2> QED
    BY <2>2, <2>3
<1>6. \A i \in 0 .. n : U[i] \in Seq(A)
  <2> DEFINE S == {k \in Nat : k \in 0 .. n => U[k] \in Seq(A)}
  <2> HIDE DEF U
  <2>1. 0 \in S
    <3>1. U[0] \in Seq(A)
      BY <1>5
    <3> QED
      BY <3>1
  <2>2. ASSUME NEW k \in Nat, k \in S PROVE k + 1 \in S
    <3> SUFFICES ASSUME k + 1 \in 0 .. n PROVE U[k + 1] \in Seq(A)
      OBVIOUS
    <3>1. k \in 0 .. n /\ k + 1 \in 1 .. n /\ (k + 1) - 1 = k
      BY <1>1
    <3> HIDE DEF n
    <3>2. U[k] \in Seq(A) /\ parts[k + 1] \in Seq(A)
      BY <1>1, <2>2, <3>1
    <3>3. U[k + 1] = U[k] \o parts[k + 1]
      BY <1>5, <3>1
    <3> QED
      BY <3>2, <3>3, ConcatProperties
  <2>3. \A k \in Nat : k \in S
    <3> HIDE DEF S
    <3> QED
      BY <2>1, <2>2, Upwards
  <2> QED
    BY <1>1, <2>3
<1> QED
  BY <1>1, <1>4, <1>5, <1>6

\* What appending a part appends to the text.
LEMMA FlatAppend ==
  ASSUME NEW A, NEW parts \in Seq(Seq(A)), NEW x \in Seq(A)
  PROVE  Flat(Append(parts, x)) = Flat(parts) \o x
<1> DEFINE q == Append(parts, x)
           n == Len(parts)
           U == UpTo(parts)
           W == UpTo(q)
<1>1. /\ n \in Nat /\ q \in Seq(Seq(A)) /\ Len(q) = n + 1
      /\ \A i \in 1 .. n : q[i] = parts[i]
      /\ q[n + 1] = x
  BY AppendProperties, LenProperties
<1>2. /\ Flat(parts) = U[n] /\ U[0] = <<>>
      /\ \A i \in 1 .. n : U[i] = U[i - 1] \o parts[i]
  BY FlatSteps
<1>3. /\ Flat(q) = W[n + 1] /\ W[0] = <<>>
      /\ \A i \in 1 .. n + 1 : W[i] = W[i - 1] \o q[i]
  <2> HIDE DEF q
  <2> QED
    BY <1>1, FlatSteps
<1>4. U[n] = W[n]
  <2> DEFINE S == {k \in Nat : k <= n => U[k] = W[k]}
  <2> HIDE DEF U, W, n, q
  <2>1. 0 \in S
    BY <1>2, <1>3
  <2>2. ASSUME NEW k \in Nat, k \in S PROVE k + 1 \in S
    <3> SUFFICES ASSUME k + 1 <= n PROVE U[k + 1] = W[k + 1]
      OBVIOUS
    <3>1. k + 1 \in 1 .. n /\ k + 1 \in 1 .. n + 1 /\ (k + 1) - 1 = k /\ k <= n
      BY <1>1
    <3>2. U[k] = W[k]
      BY <2>2, <3>1
    <3>3. U[k + 1] = U[k] \o parts[k + 1] /\ W[k + 1] = W[k] \o q[k + 1]
      BY <1>2, <1>3, <3>1
    <3> QED
      BY <1>1, <3>1, <3>2, <3>3
  <2>3. \A k \in Nat : k \in S
    <3> HIDE DEF S
    <3> QED
      BY <2>1, <2>2, Upwards
  <2> QED
    BY <1>1, <2>3
<1>5. W[n + 1] = W[n] \o x
  <2>1. n + 1 \in 1 .. n + 1 /\ (n + 1) - 1 = n
    BY <1>1
  <2> HIDE DEF W, n, q
  <2> QED
    BY <1>1, <1>3, <2>1
<1> QED
  BY <1>2, <1>3, <1>4, <1>5

\* The text of a file that was opened once, or not at all.
LEMMA FlatShort ==
  ASSUME NEW A, NEW parts \in Seq(Seq(A))
  PROVE  /\ Flat(parts) \in Seq(A)
         /\ Len(parts) = 1 => Flat(parts) = parts[1]
         /\ Len(parts) = 0 => Flat(parts) = <<>>
<1>1. /\ Flat(parts) = UpTo(parts)[Len(parts)] /\ UpTo(parts)[0] = <<>>
      /\ \A i \in 1 .. Len(parts) : UpTo(parts)[i] = UpTo(parts)[i - 1] \o parts[i]
      /\ \A i \in 0 .. Len(parts) : UpTo(parts)[i] \in Seq(A)
  BY FlatSteps
<1>2. Flat(parts) \in Seq(A)
  BY <1>1, LenProperties
<1>3. ASSUME Len(parts) = 1 PROVE Flat(parts) = parts[1]
  <2>1. parts[1] \in Seq(A)
    BY <1>3, LenProperties
  <2>2. 1 \in 1 .. Len(parts) /\ 1 - 1 = 0
    BY <1>3
  <2>3. UpTo(parts)[1] = UpTo(parts)[1 - 1] \o parts[1]
    BY <1>1, <2>2
  <2>4. UpTo(parts)[1] = <<>> \o parts[1]
    BY <1>1, <2>2, <2>3
  <2> QED
    BY <1>1, <1>3, <2>1, <2>4, ConcatEmptySeq
<1> QED
  BY <1>1, <1>2, <1>3

-----------------------------------------------------------------------------
(* Secrets.                                                                *)

\* The alphabet of a log.
Alphabet == Symbol \cup {Mark, Promoted}

\* Every nonempty set of secrets has a longest one.
LEMMA LongestExists ==
  ASSUME NEW T, T \subseteq Values, T # {}
  PROVE  \E s \in T : \A t \in T : Len(t) <= Len(s)
<1> DEFINE Long(X) == \E s \in X : \A t \in X : Len(t) <= Len(s)
           S == {n \in Nat : \A X \in SUBSET Secrets : X # {} /\ Cardinality(X) = n => Long(X)}
<1>1. \A s \in Secrets : Len(s) \in Nat
  BY TextAssumption
<1>2. \A X \in SUBSET Secrets : IsFiniteSet(X) /\ Cardinality(X) \in Nat
  BY TextAssumption, FS_Subset, FS_CardinalityType
<1>3. 0 \in S
  <2> SUFFICES ASSUME NEW X \in SUBSET Secrets, X # {}, Cardinality(X) = 0 PROVE FALSE
    OBVIOUS
  <2> QED
    BY <1>2, FS_EmptySet
<1>4. ASSUME NEW n \in Nat, n \in S PROVE n + 1 \in S
  <2> SUFFICES ASSUME NEW X \in SUBSET Secrets, X # {}, Cardinality(X) = n + 1 PROVE Long(X)
    OBVIOUS
  <2>1. PICK x \in X : TRUE
    OBVIOUS
  <2> DEFINE Y == X \ {x}
  <2>2. Y \in SUBSET Secrets /\ Cardinality(Y) = n
    <3>1. Cardinality(Y) = Cardinality(X) - 1
      BY <1>2, <2>1, FS_RemoveElement
    <3> HIDE DEF Y
    <3>2. Cardinality(Y) = n
      BY <3>1
    <3> QED
      BY <3>2 DEF Y
  <2>3. CASE Y = {}
    <3>1. X = {x}
      BY <2>1, <2>3
    <3> QED
      BY <1>1, <3>1
  <2>4. CASE Y # {}
    <3>1. PICK y \in Y : \A t \in Y : Len(t) <= Len(y)
      BY <1>4, <2>2, <2>4
    <3>2. Len(x) \in Nat /\ \A t \in X : Len(t) \in Nat
      BY <1>1, <2>1
    <3>3. CASE Len(x) <= Len(y)
      BY <3>1, <3>3
    <3>4. CASE ~ (Len(x) <= Len(y))
      <4>1. \A t \in X : Len(t) <= Len(x)
        BY <3>1, <3>2, <3>4
      <4> QED
        BY <2>1, <4>1
    <3> QED
      BY <3>3, <3>4
  <2> QED
    BY <2>3, <2>4
<1>5. \A n \in Nat : n \in S
  <2> HIDE DEF S
  <2> QED
    BY <1>3, <1>4, Upwards
<1>6. T \in SUBSET Secrets
  BY DEF Values
<1> QED
  BY <1>2, <1>5, <1>6

\* Values that are looked for are not empty and at most MaxLen long.
LEMMA ValuesAre ==
  /\ \A s \in Values : s \in Seq(Symbol) /\ s # <<>> /\ Len(s) \in Nat \ {0} /\ Len(s) <= MaxLen
  /\ Values # {} => MaxLen \in Nat \ {0}
  /\ IsFiniteSet(Values)
<1>1. \A s \in Values : s \in Seq(Symbol) /\ Len(s) \in Nat \ {0}
  BY TextAssumption, ScrubberAssumption, LenProperties DEF Values
<1>2. ASSUME Values # {}
      PROVE  MaxLen \in Nat \ {0} /\ \A s \in Values : Len(s) <= MaxLen
  <2>1. \E s \in Values : \A t \in Values : Len(t) <= Len(s)
    BY <1>2, LongestExists
  <2> DEFINE l == CHOOSE s \in Values : \A t \in Values : Len(t) <= Len(s)
  <2>2. l \in Values /\ \A t \in Values : Len(t) <= Len(l)
    BY <2>1
  <2>3. MaxLen = Len(l)
    BY <1>2 DEF MaxLen
  <2> HIDE DEF l
  <2> QED
    BY <1>1, <2>2, <2>3
<1>3. IsFiniteSet(Values)
  <2>1. Values \in SUBSET Secrets
    BY DEF Values
  <2> QED
    BY <2>1, TextAssumption, FS_Subset
<1>4. \A s \in Values : s # <<>>
  BY <1>1
<1> QED
  BY <1>1, <1>2, <1>3, <1>4

\* The match at a place is the longest value that starts there.
LEMMA MatchedIs ==
  ASSUME NEW t, NEW i
  PROVE  \/ /\ Matched(t, i) = <<>>
            /\ \A s \in Values : ~ StartsAt(s, t, i)
         \/ /\ Matched(t, i) # <<>>
            /\ Matched(t, i) \in Values /\ StartsAt(Matched(t, i), t, i)
<1> DEFINE here == {s \in Values : StartsAt(s, t, i)}
           M == CHOOSE s \in here : \A u \in here : Len(u) <= Len(s)
<1>1. Matched(t, i) = IF here = {} THEN <<>> ELSE M
  BY DEF Matched
<1>2. CASE here = {}
  BY <1>1, <1>2
<1>3. CASE here # {}
  <2>1. \E s \in here : \A u \in here : Len(u) <= Len(s)
    <3>1. here \subseteq Values
      OBVIOUS
    <3> HIDE DEF here
    <3> QED
      BY <1>3, <3>1, LongestExists
  <2>2. M \in here
    BY <2>1
  <2>3. Matched(t, i) = M
    BY <1>1, <1>3
  <2> HIDE DEF M
  <2> QED
    BY <2>2, <2>3, ValuesAre
<1> QED
  BY <1>2, <1>3

-----------------------------------------------------------------------------
(* flush: the loop over the tail.                                          *)

\* The loop of Flushed as a function of the place in the tail.
ScanRec(t, final, f) ==
  f = [i \in 1 .. Len(t) + 1 |->
        IF i > Len(t) THEN [out |-> <<>>, tail |-> <<>>]
        ELSE IF HoldBack(Len(t) - i + 1, final)
             THEN [out |-> <<>>, tail |-> SubSeq(t, i, Len(t))]
        ELSE IF Matched(t, i) # <<>>
             THEN [f[i + Len(Matched(t, i))] EXCEPT !.out = <<Mark>> \o @]
             ELSE [f[i + 1] EXCEPT !.out = <<t[i]>> \o @]]
Scan(t, final) == CHOOSE f : ScanRec(t, final, f)
Scanned == [out : Seq(Alphabet), tail : Seq(Symbol)]

\* A match lies within the text.
LEMMA MatchInside ==
  ASSUME NEW t \in Seq(Symbol), NEW i \in 1 .. Len(t), Matched(t, i) # <<>>
  PROVE  /\ Len(Matched(t, i)) \in Nat \ {0}
         /\ i + Len(Matched(t, i)) \in i + 1 .. Len(t) + 1
<1>1. Matched(t, i) \in Values /\ StartsAt(Matched(t, i), t, i)
  BY MatchedIs
<1>2. Len(Matched(t, i)) \in Nat \ {0}
  BY <1>1, ValuesAre
<1>3. i + Len(Matched(t, i)) - 1 <= Len(t)
  BY <1>1 DEF StartsAt
<1>4. Len(t) \in Nat
  OBVIOUS
<1> HIDE DEF Matched
<1> QED
  BY <1>2, <1>3, <1>4

\* Writing a symbol before what the rest writes.
LEMMA Prefixed ==
  ASSUME NEW r \in Scanned, NEW c \in Alphabet
  PROVE  /\ [r EXCEPT !.out = <<c>> \o @] \in Scanned
         /\ [r EXCEPT !.out = <<c>> \o @].out = <<c>> \o r.out
         /\ [r EXCEPT !.out = <<c>> \o @].tail = r.tail
<1>1. r.out \in Seq(Alphabet) /\ <<c>> \in Seq(Alphabet)
  BY DEF Scanned
<1>2. <<c>> \o r.out \in Seq(Alphabet)
  BY <1>1, ConcatProperties
<1> QED
  BY <1>2 DEF Scanned

\* The recursion has a solution.
LEMMA ScanExists ==
  ASSUME NEW t \in Seq(Symbol), NEW final
  PROVE  \E f : ScanRec(t, final, f)
<1> DEFINE n == Len(t)
           I == 1 .. n + 1
           Next1(i) == i + Len(Matched(t, i))
           Body(f, i) ==
             IF i > n THEN [out |-> <<>>, tail |-> <<>>]
             ELSE IF HoldBack(n - i + 1, final) THEN [out |-> <<>>, tail |-> SubSeq(t, i, n)]
             ELSE IF Matched(t, i) # <<>>
                  THEN [f[Next1(i)] EXCEPT !.out = <<Mark>> \o @]
                  ELSE [f[i + 1] EXCEPT !.out = <<t[i]>> \o @]
           H == [f \in [I -> Scanned] |-> [i \in I |-> Body(f, i)]]
           rank == [i \in I |-> n + 1 - i]
<1>1. n \in Nat /\ \A i \in 1 .. n : t[i] \in Symbol
  OBVIOUS
<1>2. ASSUME NEW i \in 1 .. n, Matched(t, i) # <<>> PROVE Next1(i) \in I /\ Next1(i) > i
  <2>1. Next1(i) \in i + 1 .. n + 1
    BY <1>2, MatchInside
  <2> HIDE DEF Next1
  <2> QED
    BY <1>1, <2>1
<1>3. [out |-> <<>>, tail |-> <<>>] \in Scanned
  BY DEF Scanned
<1>4. ASSUME NEW f \in [I -> Scanned], NEW i \in I PROVE Body(f, i) \in Scanned
  <2>1. CASE i > n
    BY <1>3, <2>1
  <2>2. CASE i <= n /\ HoldBack(n - i + 1, final)
    <3>1. SubSeq(t, i, n) \in Seq(Symbol)
      BY <1>1, <2>2, SubSeqProperties
    <3> HIDE DEF n
    <3>2. Body(f, i) = [out |-> <<>>, tail |-> SubSeq(t, i, n)]
      BY <1>1, <2>2
    <3> QED
      BY <3>1, <3>2, SMTT(20) DEF Scanned
  <2>3. CASE i <= n /\ ~ HoldBack(n - i + 1, final) /\ Matched(t, i) # <<>>
    <3>1. f[Next1(i)] \in Scanned
      BY <1>1, <1>2, <2>3
    <3>2. Body(f, i) = [f[Next1(i)] EXCEPT !.out = <<Mark>> \o @]
      BY <1>1, <2>3
    <3> HIDE DEF Next1, Body
    <3> QED
      BY <3>1, <3>2, Prefixed, ZenonT(30) DEF Alphabet
  <2>4. CASE i <= n /\ ~ HoldBack(n - i + 1, final) /\ Matched(t, i) = <<>>
    <3>1. f[i + 1] \in Scanned /\ t[i] \in Alphabet
      BY <1>1, <2>4 DEF Alphabet
    <3>2. Body(f, i) = [f[i + 1] EXCEPT !.out = <<t[i]>> \o @]
      BY <1>1, <2>4
    <3> HIDE DEF Body
    <3> QED
      BY <3>1, <3>2, Prefixed, ZenonT(30)
  <2> QED
    BY <1>1, <2>1, <2>2, <2>3, <2>4
<1>5. ASSUME NEW f \in [I -> Scanned], NEW g \in [I -> Scanned], NEW i \in I,
             \A j \in I : rank[j] < rank[i] => f[j] = g[j]
      PROVE  Body(f, i) = Body(g, i)
  <2>0. \A j \in I : j > i => f[j] = g[j]
    BY <1>1, <1>5
  <2>1. CASE i > n
    BY <2>1
  <2>2. CASE i <= n /\ Matched(t, i) # <<>>
    <3>1. f[Next1(i)] = g[Next1(i)]
      BY <1>1, <1>2, <2>0, <2>2
    <3> HIDE DEF Next1
    <3> QED
      BY <2>2, <3>1
  <2>3. CASE i <= n /\ Matched(t, i) = <<>>
    <3>1. f[i + 1] = g[i + 1]
      BY <1>1, <2>0, <2>3
    <3> QED
      BY <2>3, <3>1
  <2> QED
    BY <1>1, <2>1, <2>2, <2>3
<1>6. Ranked(I, rank, n + 2)
  BY <1>1 DEF Ranked
<1>7. Decreasing(H, I, Scanned, rank)
  <2>1. [i \in I |-> [out |-> <<>>, tail |-> <<>>]] \in [I -> Scanned]
    BY <1>3
  <2>2. [I -> Scanned] # {}
    BY <2>1
  <2> HIDE DEF I, rank, Body, n
  <2>3. H \in [[I -> Scanned] -> [I -> Scanned]]
    BY <1>4
  <2>4. \A f \in [I -> Scanned], i \in I : H[f][i] = Body(f, i)
    OBVIOUS
  <2> HIDE DEF H
  <2> QED
    BY <1>5, <2>2, <2>3, <2>4 DEF Decreasing
<1>8. PICK f \in [I -> Scanned] : f = H[f]
  <2> HIDE DEF I, rank, H, n
  <2> QED
    BY <1>6, <1>7, Recursion
<1>9. ScanRec(t, final, f)
  BY <1>8 DEF ScanRec
<1> QED
  BY <1>9

\* The text from a place on is held back.
Held(t, final, i) == HoldBack(Len(t) - i + 1, final)

\* The loop at one place: its end, a tail that is held back, a match, a symbol.
ScanAt(t, final, F, i) ==
  /\ i > Len(t) => F[i] = [out |-> <<>>, tail |-> <<>>]
  /\ i <= Len(t) /\ Held(t, final, i) =>
       F[i] = [out |-> <<>>, tail |-> SubSeq(t, i, Len(t))]
  /\ i <= Len(t) /\ ~ Held(t, final, i) /\ Matched(t, i) # <<>> =>
       F[i] = [F[i + Len(Matched(t, i))] EXCEPT !.out = <<Mark>> \o @]
  /\ i <= Len(t) /\ ~ Held(t, final, i) /\ Matched(t, i) = <<>> =>
       F[i] = [F[i + 1] EXCEPT !.out = <<t[i]>> \o @]

\* The loop does that.
LEMMA ScanUnfolds ==
  ASSUME NEW t \in Seq(Symbol), NEW final, NEW i \in 1 .. Len(t) + 1
  PROVE  ScanAt(t, final, Scan(t, final), i)
<1> DEFINE F == Scan(t, final)
<1>1. ScanRec(t, final, F)
  BY ScanExists DEF Scan
<1> HIDE DEF F
<1>2. F[i] = IF i > Len(t) THEN [out |-> <<>>, tail |-> <<>>]
             ELSE IF Held(t, final, i) THEN [out |-> <<>>, tail |-> SubSeq(t, i, Len(t))]
             ELSE IF Matched(t, i) # <<>>
                  THEN [F[i + Len(Matched(t, i))] EXCEPT !.out = <<Mark>> \o @]
                  ELSE [F[i + 1] EXCEPT !.out = <<t[i]>> \o @]
  BY <1>1 DEF ScanRec, Held
<1>3. i > Len(t) <=> ~ (i <= Len(t))
  OBVIOUS
<1>4. CASE i > Len(t)
  BY <1>2, <1>3, <1>4 DEF F, ScanAt
<1>5. CASE i <= Len(t)
  <2>1. F[i] = IF Held(t, final, i) THEN [out |-> <<>>, tail |-> SubSeq(t, i, Len(t))]
               ELSE IF Matched(t, i) # <<>>
                    THEN [F[i + Len(Matched(t, i))] EXCEPT !.out = <<Mark>> \o @]
                    ELSE [F[i + 1] EXCEPT !.out = <<t[i]>> \o @]
    BY <1>2, <1>3, <1>5
  <2> QED
    BY <1>3, <1>5, <2>1 DEF F, ScanAt
<1> QED
  BY <1>3, <1>4, <1>5

\* What is written and kept are texts.
LEMMA ScanType ==
  ASSUME NEW t \in Seq(Symbol), NEW final
  PROVE  /\ Flushed(t, final) = Scan(t, final)[1]
         /\ \A i \in 1 .. Len(t) + 1 : Scan(t, final)[i] \in Scanned
<1> DEFINE F == Scan(t, final)
           n == Len(t)
           S == {i \in 1 .. n + 1 : F[i] \in Scanned}
<1>1. Flushed(t, final) = F[1]
  BY DEF Flushed, Scan, ScanRec
<1>2. n \in Nat /\ \A i \in 1 .. n : t[i] \in Symbol
  OBVIOUS
<1>9. \A i \in 1 .. n + 1 : ScanAt(t, final, F, i)
  BY ScanUnfolds
<1> HIDE DEF F
<1>3. ASSUME NEW i \in 1 .. n + 1, \A j \in i + 1 .. n + 1 : j \in S
      PROVE  i \in S
  <2>0. \A j \in i + 1 .. n + 1 : F[j] \in Scanned
    BY <1>3
  <2> SUFFICES F[i] \in Scanned
    OBVIOUS
  <2>1. CASE i > n
    <3>1. F[i] = [out |-> <<>>, tail |-> <<>>]
      BY <1>9, <2>1 DEF ScanAt
    <3> QED
      BY <3>1 DEF Scanned
  <2>2. CASE i <= n /\ Held(t, final, i)
    <3>1. SubSeq(t, i, n) \in Seq(Symbol)
      BY <1>2, <2>2, SubSeqProperties
    <3>2. F[i] = [out |-> <<>>, tail |-> SubSeq(t, i, n)]
      BY <1>2, <1>9, <2>2 DEF ScanAt
    <3> QED
      BY <3>1, <3>2 DEF Scanned
  <2>3. CASE i <= n /\ ~ Held(t, final, i) /\ Matched(t, i) # <<>>
    <3>1. F[i + Len(Matched(t, i))] \in Scanned
      BY <1>2, <2>0, <2>3, MatchInside
    <3>2. F[i] = [F[i + Len(Matched(t, i))] EXCEPT !.out = <<Mark>> \o @]
      BY <1>2, <1>9, <2>3 DEF ScanAt
    <3> QED
      BY <3>1, <3>2, Prefixed DEF Alphabet
  <2>4. CASE i <= n /\ ~ Held(t, final, i) /\ Matched(t, i) = <<>>
    <3>1. F[i + 1] \in Scanned /\ t[i] \in Alphabet
      BY <1>2, <2>0, <2>4 DEF Alphabet
    <3>2. F[i] = [F[i + 1] EXCEPT !.out = <<t[i]>> \o @]
      BY <1>2, <1>9, <2>4 DEF ScanAt
    <3> QED
      BY <3>1, <3>2, Prefixed
  <2> QED
    BY <1>2, <2>1, <2>2, <2>3, <2>4
<1>4. \A i \in 1 .. n + 1 : i \in S
  <2>1. n + 1 \in Nat
    BY <1>2
  <2>2. \A i \in 1 .. n + 1 : (\A j \in i + 1 .. n + 1 : j \in S) => i \in S
    BY <1>3
  <2> HIDE DEF S, n
  <2> QED
    BY <2>1, <2>2, Downwards
<1> QED
  BY <1>1, <1>4 DEF F

\* So they are at the end of it.
LEMMA FlushedType ==
  ASSUME NEW t \in Seq(Symbol), NEW final
  PROVE  Flushed(t, final) \in Scanned
<1>1. 1 \in 1 .. Len(t) + 1
  OBVIOUS
<1>2. Flushed(t, final) = Scan(t, final)[1]
  BY ScanType
<1>3. \A i \in 1 .. Len(t) + 1 : Scan(t, final)[i] \in Scanned
  BY ScanType
<1>4. Scan(t, final)[1] \in Scanned
  BY <1>1, <1>3
<1> QED
  BY <1>2, <1>4

\* The loop in terms of what is written and what is kept.
Goes(t, final, F) ==
  /\ F[Len(t) + 1].out = <<>> /\ F[Len(t) + 1].tail = <<>>
  /\ \A i \in 1 .. Len(t) :
       /\ Held(t, final, i) => F[i].out = <<>> /\ F[i].tail = SubSeq(t, i, Len(t))
       /\ ~ Held(t, final, i) /\ Matched(t, i) # <<>> =>
            LET next == i + Len(Matched(t, i))
            IN  F[i].out = <<Mark>> \o F[next].out /\ F[i].tail = F[next].tail
       /\ ~ Held(t, final, i) /\ Matched(t, i) = <<>> =>
            F[i].out = <<t[i]>> \o F[i + 1].out /\ F[i].tail = F[i + 1].tail

\* One step of it.
LEMMA GoesHeld ==
  ASSUME NEW t, NEW final, NEW F, Goes(t, final, F), NEW i \in 1 .. Len(t), Held(t, final, i)
  PROVE  F[i].out = <<>> /\ F[i].tail = SubSeq(t, i, Len(t))
BY DEF Goes

\* Another.
LEMMA GoesMatch ==
  ASSUME NEW t, NEW final, NEW F, Goes(t, final, F), NEW i \in 1 .. Len(t), ~ Held(t, final, i),
         Matched(t, i) # <<>>
  PROVE  /\ F[i].out = <<Mark>> \o F[i + Len(Matched(t, i))].out
         /\ F[i].tail = F[i + Len(Matched(t, i))].tail
BY DEF Goes

\* And the third.
LEMMA GoesSymbol ==
  ASSUME NEW t, NEW final, NEW F, Goes(t, final, F), NEW i \in 1 .. Len(t), ~ Held(t, final, i),
         Matched(t, i) = <<>>
  PROVE  /\ F[i].out = <<t[i]>> \o F[i + 1].out
         /\ F[i].tail = F[i + 1].tail
BY DEF Goes

\* The loop does that.
LEMMA ScanSteps ==
  ASSUME NEW t \in Seq(Symbol), NEW final
  PROVE  Goes(t, final, Scan(t, final))
<1> DEFINE F == Scan(t, final)
           n == Len(t)
<1>1. n \in Nat /\ \A i \in 1 .. n : t[i] \in Symbol
  OBVIOUS
<1>8. /\ \A i \in 1 .. n : i \in 1 .. n + 1 /\ i <= n
      /\ n + 1 \in 1 .. n + 1 /\ n + 1 > n
  BY <1>1
<1>2. \A i \in 1 .. n + 1 : F[i] \in Scanned
  BY ScanType
<1>9. \A i \in 1 .. n + 1 : ScanAt(t, final, F, i)
  BY ScanUnfolds
<1> HIDE DEF F
<1>3. F[n + 1].out = <<>> /\ F[n + 1].tail = <<>>
  <2>1. F[n + 1] = [out |-> <<>>, tail |-> <<>>]
    BY <1>8, <1>9 DEF ScanAt
  <2> QED
    BY <2>1
<1>4. ASSUME NEW i \in 1 .. n, Held(t, final, i)
      PROVE  F[i].out = <<>> /\ F[i].tail = SubSeq(t, i, n)
  <2>1. F[i] = [out |-> <<>>, tail |-> SubSeq(t, i, n)]
    BY <1>8, <1>9, <1>4 DEF ScanAt
  <2> QED
    BY <2>1
<1>5. ASSUME NEW i \in 1 .. n, ~ Held(t, final, i), Matched(t, i) # <<>>
      PROVE  /\ F[i].out = <<Mark>> \o F[i + Len(Matched(t, i))].out
             /\ F[i].tail = F[i + Len(Matched(t, i))].tail
  <2>1. F[i + Len(Matched(t, i))] \in Scanned
    BY <1>1, <1>2, <1>5, MatchInside
  <2>2. F[i] = [F[i + Len(Matched(t, i))] EXCEPT !.out = <<Mark>> \o @]
    BY <1>8, <1>9, <1>5 DEF ScanAt
  <2> QED
    BY <2>1, <2>2, Prefixed DEF Alphabet
<1>6. ASSUME NEW i \in 1 .. n, ~ Held(t, final, i), Matched(t, i) = <<>>
      PROVE  F[i].out = <<t[i]>> \o F[i + 1].out /\ F[i].tail = F[i + 1].tail
  <2>1. F[i + 1] \in Scanned /\ t[i] \in Alphabet
    BY <1>1, <1>2 DEF Alphabet
  <2>2. F[i] = [F[i + 1] EXCEPT !.out = <<t[i]>> \o @]
    BY <1>8, <1>9, <1>6 DEF ScanAt
  <2> QED
    BY <2>1, <2>2, Prefixed
<1> HIDE DEF n
<1>7. Goes(t, final, F)
  BY <1>3, <1>4, <1>5, <1>6 DEF Goes, n
<1> QED
  BY <1>7 DEF F

\* A value starts at a place by the symbols from there on alone.
LEMMA StartsAtShift ==
  ASSUME NEW t, NEW u, NEW k \in Nat, Len(u) \in Nat, Len(t) = Len(u) + k,
         \A j \in 1 .. Len(u) : t[j + k] = u[j],
         NEW i \in 1 .. Len(u), NEW s, Len(s) \in Nat
  PROVE  StartsAt(s, t, i + k) <=> StartsAt(s, u, i)
<1>1. i + k + Len(s) - 1 <= Len(t) <=> i + Len(s) - 1 <= Len(u)
  OBVIOUS
<1>2. ASSUME i + Len(s) - 1 <= Len(u), NEW l \in 1 .. Len(s)
      PROVE  t[i + k + l - 1] = u[i + l - 1]
  <2>1. i + l - 1 \in 1 .. Len(u) /\ i + k + l - 1 = (i + l - 1) + k
    BY <1>2
  <2> QED
    BY <2>1
<1>3. ASSUME StartsAt(s, u, i) PROVE StartsAt(s, t, i + k)
  <2>1. i + Len(s) - 1 <= Len(u) /\ \A l \in 1 .. Len(s) : u[i + l - 1] = s[l]
    BY <1>3 DEF StartsAt
  <2>2. i + k + Len(s) - 1 <= Len(t)
    BY <1>1, <2>1
  <2>3. \A l \in 1 .. Len(s) : t[i + k + l - 1] = s[l]
    BY <1>2, <2>1
  <2> QED
    BY <2>2, <2>3 DEF StartsAt
<1>4. ASSUME StartsAt(s, t, i + k) PROVE StartsAt(s, u, i)
  <2>1. i + k + Len(s) - 1 <= Len(t) /\ \A l \in 1 .. Len(s) : t[i + k + l - 1] = s[l]
    BY <1>4 DEF StartsAt
  <2>2. i + Len(s) - 1 <= Len(u)
    BY <1>1, <2>1
  <2>3. \A l \in 1 .. Len(s) : u[i + l - 1] = s[l]
    BY <1>2, <2>1, <2>2
  <2> QED
    BY <2>2, <2>3 DEF StartsAt
<1> QED
  BY <1>3, <1>4

\* So does a match.
LEMMA MatchedSame ==
  ASSUME NEW t, NEW u, NEW i, NEW j, \A s \in Values : StartsAt(s, t, i) <=> StartsAt(s, u, j)
  PROVE  Matched(t, i) = Matched(u, j)
<1>1. {s \in Values : StartsAt(s, t, i)} = {s \in Values : StartsAt(s, u, j)}
  OBVIOUS
<1> DEFINE Longest(X) == IF X = {} THEN <<>> ELSE CHOOSE s \in X : \A w \in X : Len(w) <= Len(s)
<1>2. Matched(t, i) = Longest({s \in Values : StartsAt(s, t, i)})
  BY DEF Matched
<1>3. Matched(u, j) = Longest({s \in Values : StartsAt(s, u, j)})
  BY DEF Matched
<1> HIDE DEF Longest
<1> QED
  BY <1>1, <1>2, <1>3

\* What the loop does from a place on depends on the text from there on alone.
LEMMA ScanShift ==
  ASSUME NEW t \in Seq(Symbol), NEW u \in Seq(Symbol), NEW k \in Nat, NEW final,
         Len(t) = Len(u) + k, \A j \in 1 .. Len(u) : t[j + k] = u[j]
  PROVE  \A i \in 1 .. Len(u) + 1 :
           /\ Scan(t, final)[i + k].out = Scan(u, final)[i].out
           /\ Scan(t, final)[i + k].tail = Scan(u, final)[i].tail
<1> DEFINE F == Scan(t, final)
           G == Scan(u, final)
           n == Len(u)
           Same(i) == F[i + k].out = G[i].out /\ F[i + k].tail = G[i].tail
           S == {i \in 1 .. n + 1 : Same(i)}
<1>1. Goes(t, final, F) /\ Goes(u, final, G)
  BY ScanSteps
<1>2. n \in Nat
  OBVIOUS
<1> HIDE DEF F, G
<1>3. ASSUME NEW i \in 1 .. n + 1, \A j \in i + 1 .. n + 1 : j \in S
      PROVE  Same(i)
  <2>1. CASE i = n + 1
    <3>1. i + k = Len(t) + 1 /\ i = Len(u) + 1
      BY <1>2, <2>1
    <3> HIDE DEF n
    <3> QED
      BY <1>1, <3>1 DEF Goes
  <2>2. ASSUME i \in 1 .. n PROVE Same(i)
    <3>1. /\ i + k \in 1 .. Len(t) /\ Len(t) - (i + k) + 1 = n - i + 1
          /\ t[i + k] = u[i]
      BY <1>2, <2>2
    <3>2. Held(t, final, i + k) <=> Held(u, final, i)
      BY <3>1 DEF Held
    <3>3. Matched(t, i + k) = Matched(u, i)
      <4>1. \A s \in Values : StartsAt(s, t, i + k) <=> StartsAt(s, u, i)
        BY <1>2, <2>2, ValuesAre, StartsAtShift
      <4> QED
        BY <4>1, MatchedSame
    <3>4. CASE Held(u, final, i)
      <4>1. SubSeq(t, i + k, Len(t)) = SubSeq(u, i, n)
        <5> DEFINE x == SubSeq(t, i + k, Len(t))
                   y == SubSeq(u, i, n)
        <5>1. /\ x \in Seq(Symbol) /\ Len(x) = n - i + 1
              /\ \A l \in 1 .. n - i + 1 : x[l] = t[i + k + l - 1]
          BY <1>2, <2>2, SubSeqProperties, SMTT(20)
        <5>2. /\ y \in Seq(Symbol) /\ Len(y) = n - i + 1
              /\ \A l \in 1 .. n - i + 1 : y[l] = u[i + l - 1]
          BY <1>2, <2>2, SubSeqProperties
        <5>3. ASSUME NEW l \in 1 .. n - i + 1 PROVE t[i + k + l - 1] = u[i + l - 1]
          <6>1. i + l - 1 \in 1 .. n /\ i + k + l - 1 = (i + l - 1) + k
            BY <1>2, <2>2
          <6> QED
            BY <6>1
        <5> HIDE DEF x, y
        <5>4. Len(x) = Len(y) /\ \A l \in 1 .. Len(x) : x[l] = y[l]
          BY <5>1, <5>2, <5>3
        <5>5. x = y
          BY <5>1, <5>2, <5>4, SeqEqual
        <5> QED
          BY <5>5 DEF x, y
      <4> QED
        BY <1>1, <2>2, <3>1, <3>2, <3>4, <4>1 DEF Goes
    <3>5. CASE ~ Held(u, final, i) /\ Matched(u, i) # <<>>
      <4> DEFINE m == Len(Matched(u, i))
      <4>1. i + m \in i + 1 .. n + 1 /\ (i + k) + m = (i + m) + k
        BY <1>2, <2>2, <3>5, MatchInside
      <4>2. Same(i + m)
        BY <1>3, <4>1
      <4>3. F[i + k].out = <<Mark>> \o F[(i + k) + m].out /\ F[i + k].tail = F[(i + k) + m].tail
        BY <1>1, <3>1, <3>2, <3>3, <3>5 DEF Goes
      <4>4. G[i].out = <<Mark>> \o G[i + m].out /\ G[i].tail = G[i + m].tail
        BY <1>1, <2>2, <3>5 DEF Goes
      <4> HIDE DEF m
      <4> QED
        BY <4>1, <4>2, <4>3, <4>4
    <3>6. CASE ~ Held(u, final, i) /\ Matched(u, i) = <<>>
      <4>1. i + 1 \in i + 1 .. n + 1 /\ (i + k) + 1 = (i + 1) + k
        BY <1>2, <2>2
      <4>2. Same(i + 1)
        BY <1>3, <4>1
      <4>3. /\ F[i + k].out = <<t[i + k]>> \o F[(i + k) + 1].out
            /\ F[i + k].tail = F[(i + k) + 1].tail
        BY <1>1, <3>1, <3>2, <3>3, <3>6 DEF Goes
      <4>4. G[i].out = <<u[i]>> \o G[i + 1].out /\ G[i].tail = G[i + 1].tail
        BY <1>1, <2>2, <3>6 DEF Goes
      <4> QED
        BY <3>1, <4>1, <4>2, <4>3, <4>4
    <3> QED
      BY <3>4, <3>5, <3>6
  <2> QED
    BY <1>2, <2>1, <2>2
<1>4. \A i \in 1 .. n + 1 : i \in S
  <2>1. n + 1 \in Nat
    BY <1>2
  <2>2. \A i \in 1 .. n + 1 : (\A j \in i + 1 .. n + 1 : j \in S) => i \in S
    BY <1>3
  <2> HIDE DEF S, n
  <2> QED
    BY <2>1, <2>2, Downwards
<1> QED
  BY <1>4 DEF F, G

-----------------------------------------------------------------------------
(* A text that comes in two pieces.                                        *)

\* MaxLen is a number also without any value.
LEMMA MaxLenType == MaxLen \in Nat /\ \A s \in Values : Len(s) <= MaxLen
<1>1. CASE Values = {}
  BY <1>1 DEF MaxLen
<1>2. CASE Values # {}
  BY <1>2, ValuesAre
<1> QED
  BY <1>1, <1>2

\* Where the longest value fits, what starts there does not depend on what follows.
LEMMA StartsAtLocal ==
  ASSUME NEW x, NEW y, Len(x) \in Nat, Len(y) \in Nat, Len(x) <= Len(y),
         \A j \in 1 .. Len(x) : y[j] = x[j],
         NEW i \in 1 .. Len(x), NEW s, Len(s) \in Nat, i + Len(s) - 1 <= Len(x)
  PROVE  StartsAt(s, y, i) <=> StartsAt(s, x, i)
<1>1. i + Len(s) - 1 <= Len(y)
  OBVIOUS
<1>2. ASSUME NEW l \in 1 .. Len(s) PROVE y[i + l - 1] = x[i + l - 1]
  <2>1. i + l - 1 \in 1 .. Len(x)
    OBVIOUS
  <2> QED
    BY <2>1
<1>3. ASSUME StartsAt(s, x, i) PROVE StartsAt(s, y, i)
  <2>1. \A l \in 1 .. Len(s) : x[i + l - 1] = s[l]
    BY <1>3 DEF StartsAt
  <2>2. \A l \in 1 .. Len(s) : y[i + l - 1] = s[l]
    BY <1>2, <2>1
  <2> QED
    BY <1>1, <2>2 DEF StartsAt
<1>4. ASSUME StartsAt(s, y, i) PROVE StartsAt(s, x, i)
  <2>1. \A l \in 1 .. Len(s) : y[i + l - 1] = s[l]
    BY <1>4 DEF StartsAt
  <2>2. \A l \in 1 .. Len(s) : x[i + l - 1] = s[l]
    BY <1>2, <2>1
  <2> QED
    BY <2>2 DEF StartsAt
<1> QED
  BY <1>3, <1>4

\* The scan of a text from a place on is the scan of the text that is left there.
LEMMA ScanRest ==
  ASSUME NEW y \in Seq(Symbol), NEW u \in Seq(Symbol), NEW k \in Nat, NEW final,
         Len(y) = Len(u) + k, \A j \in 1 .. Len(u) : y[j + k] = u[j]
  PROVE  /\ Scan(y, final)[k + 1].out = Flushed(u, final).out
         /\ Scan(y, final)[k + 1].tail = Flushed(u, final).tail
<1>1. 1 \in 1 .. Len(u) + 1 /\ 1 + k = k + 1
  OBVIOUS
<1>2. Flushed(u, final) = Scan(u, final)[1]
  BY ScanType
<1> QED
  BY <1>1, <1>2, ScanShift

\* A text in two pieces.
LEMMA TwoPieces ==
  ASSUME NEW x \in Seq(Symbol), NEW c \in Seq(Symbol)
  PROVE  /\ x \o c \in Seq(Symbol) /\ Len(x \o c) = Len(x) + Len(c)
         /\ \A j \in 1 .. Len(x) : (x \o c)[j] = x[j]
         /\ \A j \in 1 .. Len(c) : (x \o c)[j + Len(x)] = c[j]
<1>1. Len(x) \in Nat /\ Len(c) \in Nat
  OBVIOUS
<1>2. \A j \in 1 .. Len(c) : j + Len(x) = Len(x) + j
  BY <1>1
<1>3. \A j \in 1 .. Len(c) : (x \o c)[Len(x) + j] = c[j]
  BY ConcatProperties
<1>4. \A j \in 1 .. Len(c) : (x \o c)[j + Len(x)] = c[j]
  BY <1>2, <1>3
<1>5. x \o c \in Seq(Symbol) /\ Len(x \o c) = Len(x) + Len(c)
  BY ConcatProperties
<1>6. \A j \in 1 .. Len(x) : (x \o c)[j] = x[j]
  BY ConcatProperties
<1> QED
  BY <1>4, <1>5, <1>6

\* e is x without its first k symbols.
Ends(e, x, k) == Len(x) = Len(e) + k /\ \A l \in 1 .. Len(e) : x[l + k] = e[l]

\* The end of the first piece and the second one.
LEMMA EndAndPiece ==
  ASSUME NEW x \in Seq(Symbol), NEW c \in Seq(Symbol), NEW e \in Seq(Symbol),
         NEW k \in Nat, Ends(e, x, k)
  PROVE  Ends(e \o c, x \o c, k)
<1> SUFFICES /\ Len(x \o c) = Len(e \o c) + k
             /\ \A j \in 1 .. Len(e \o c) : (x \o c)[j + k] = (e \o c)[j]
  BY DEF Ends
<1>0. Len(x) = Len(e) + k /\ \A l \in 1 .. Len(e) : x[l + k] = e[l]
  BY DEF Ends
<1> DEFINE y == x \o c
           u == e \o c
<1>1. Len(x) \in Nat /\ Len(c) \in Nat /\ Len(e) \in Nat
  OBVIOUS
<1>2. /\ Len(y) = Len(x) + Len(c) /\ \A j \in 1 .. Len(x) : y[j] = x[j]
      /\ \A j \in 1 .. Len(c) : y[j + Len(x)] = c[j]
  BY TwoPieces
<1>3. /\ Len(u) = Len(e) + Len(c) /\ \A j \in 1 .. Len(e) : u[j] = e[j]
      /\ \A j \in 1 .. Len(c) : u[j + Len(e)] = c[j]
  BY TwoPieces
<1> HIDE DEF y, u
<1>4. ASSUME NEW j \in 1 .. Len(u) PROVE y[j + k] = u[j]
  <2>1. CASE j \in 1 .. Len(e)
    <3>1. j + k \in 1 .. Len(x)
      BY <1>0, <1>1, <2>1
    <3>2. y[j + k] = x[j + k]
      BY <1>2, <3>1
    <3>3. x[j + k] = e[j] /\ u[j] = e[j]
      BY <1>0, <1>3, <2>1
    <3> QED
      BY <3>2, <3>3
  <2>2. CASE j \notin 1 .. Len(e)
    <3>1. /\ j - Len(e) \in 1 .. Len(c) /\ (j - Len(e)) + Len(e) = j
          /\ (j - Len(e)) + Len(x) = j + k
      BY <1>0, <1>1, <1>3, <2>2
    <3>2. u[(j - Len(e)) + Len(e)] = c[j - Len(e)] /\ y[(j - Len(e)) + Len(x)] = c[j - Len(e)]
      BY <1>2, <1>3, <3>1
    <3> QED
      BY <3>1, <3>2
  <2> QED
    BY <2>1, <2>2
<1>5. Len(y) = Len(u) + k
  BY <1>0, <1>1, <1>2, <1>3
<1> QED
  BY <1>4, <1>5 DEF y, u

\* What is written of x \o c is what is written of x, and then of the tail of x and of c.
Joined(x, c, final, i) ==
  LET r == Scan(x, FALSE)[i]
      R == Flushed(r.tail \o c, final)
  IN  Scan(x \o c, final)[i].out = r.out \o R.out /\ Scan(x \o c, final)[i].tail = R.tail

\* The rest of x, which is not written, goes with c.
LEMMA JoinedAtEnd ==
  ASSUME NEW x \in Seq(Symbol), NEW c \in Seq(Symbol), NEW e \in Seq(Symbol), NEW final,
         NEW k \in Nat, Len(x) = Len(e) + k, \A l \in 1 .. Len(e) : x[l + k] = e[l],
         Scan(x, FALSE)[k + 1].out = <<>>, Scan(x, FALSE)[k + 1].tail = e
  PROVE  Joined(x, c, final, k + 1)
<1> DEFINE y == x \o c
           u == e \o c
<1>1. y \in Seq(Symbol) /\ u \in Seq(Symbol)
  BY TwoPieces
<1>2. Len(y) = Len(u) + k /\ \A j \in 1 .. Len(u) : y[j + k] = u[j]
  <2>1. Ends(e, x, k)
    BY DEF Ends
  <2> HIDE DEF y, u
  <2>2. Ends(u, y, k)
    BY <2>1, EndAndPiece DEF y, u
  <2> QED
    BY <2>2 DEF Ends
<1> HIDE DEF y, u
<1>3. /\ Scan(y, final)[k + 1].out = Flushed(u, final).out
      /\ Scan(y, final)[k + 1].tail = Flushed(u, final).tail
  BY <1>1, <1>2, ScanRest
<1>4. Flushed(u, final) \in Scanned
  BY <1>1, FlushedType
<1>5. <<>> \o Flushed(u, final).out = Flushed(u, final).out
  BY <1>4, ConcatEmptySeq DEF Scanned
<1> QED
  BY <1>3, <1>5 DEF Joined, y, u

\* At the end of x, and where the rest of x is held back.
LEMMA JoinedAtRest ==
  ASSUME NEW x \in Seq(Symbol), NEW c \in Seq(Symbol), NEW final, NEW i \in 1 .. Len(x) + 1,
         i <= Len(x) => Held(x, FALSE, i)
  PROVE  Joined(x, c, final, i)
<1> DEFINE n == Len(x)
           F == Scan(x, FALSE)
<1>0. n \in Nat
  OBVIOUS
<1>1. Goes(x, FALSE, F)
  BY ScanSteps
<1> HIDE DEF F
<1>2. CASE i = n + 1
  <2>1. F[n + 1].out = <<>> /\ F[n + 1].tail = <<>>
    BY <1>1 DEF Goes
  <2>2. <<>> \in Seq(Symbol) /\ Len(<<>>) = 0 /\ n = 0 + n /\ 1 .. 0 = {}
    BY <1>0
  <2>3. Joined(x, c, final, n + 1)
    BY <1>0, <2>1, <2>2, JoinedAtEnd DEF F
  <2> QED
    BY <1>2, <2>3
<1>3. CASE i \in 1 .. n
  <2> DEFINE e == SubSeq(x, i, n)
             k == i - 1
  <2>1. F[i].out = <<>> /\ F[i].tail = e
    <3>0. i \in 1 .. Len(x) /\ i <= Len(x)
      BY <1>0, <1>3
    <3>1. i \in 1 .. Len(x) /\ Held(x, FALSE, i)
      BY <3>0, Zenon
    <3>2. F[i].out = <<>> /\ F[i].tail = SubSeq(x, i, Len(x))
      BY <1>1, <3>1, GoesHeld, Zenon
    <3> QED
      BY <3>2
  <2>2. /\ e \in Seq(Symbol) /\ Len(e) = n - i + 1
        /\ \A l \in 1 .. n - i + 1 : e[l] = x[i + l - 1]
    BY <1>0, <1>3, SubSeqProperties
  <2> HIDE DEF e
  <2>3. /\ k \in Nat /\ k + 1 = i /\ n = Len(e) + k
        /\ \A l \in 1 .. Len(e) : i + l - 1 = l + k
    BY <1>0, <1>3, <2>2
  <2>4. \A l \in 1 .. Len(e) : x[l + k] = e[l]
    BY <2>2, <2>3
  <2> HIDE DEF k
  <2>5. F[k + 1].out = <<>> /\ F[k + 1].tail = e
    BY <2>1, <2>3
  <2>6. Joined(x, c, final, k + 1)
    BY <2>2, <2>3, <2>4, <2>5, JoinedAtEnd DEF F
  <2> QED
    BY <2>3, <2>6
<1> QED
  BY <1>0, <1>2, <1>3

\* Three pieces of a log.
LEMMA Regroup ==
  \A a, b, c \in Seq(Alphabet) : a \o (b \o c) = (a \o b) \o c
<1> SUFFICES ASSUME NEW a \in Seq(Alphabet), NEW b \in Seq(Alphabet), NEW c \in Seq(Alphabet)
             PROVE  (a \o b) \o c = a \o (b \o c)
  OBVIOUS
<1> QED
  BY ConcatAssociative

\* One step of both scans that writes the same.
LEMMA JoinedStep ==
  ASSUME NEW x \in Seq(Symbol), NEW c \in Seq(Symbol), NEW final,
         NEW i \in 1 .. Len(x), NEW j \in i + 1 .. Len(x) + 1, NEW s \in Alphabet,
         Joined(x, c, final, j),
         Scan(x, FALSE)[i].out = <<s>> \o Scan(x, FALSE)[j].out,
         Scan(x, FALSE)[i].tail = Scan(x, FALSE)[j].tail,
         Scan(x \o c, final)[i].out = <<s>> \o Scan(x \o c, final)[j].out,
         Scan(x \o c, final)[i].tail = Scan(x \o c, final)[j].tail
  PROVE  Joined(x, c, final, i)
<1> DEFINE r == Scan(x, FALSE)[j]
           R == Flushed(r.tail \o c, final)
<1>1. r \in Scanned
  <2>1. j \in 1 .. Len(x) + 1
    OBVIOUS
  <2>2. \A k \in 1 .. Len(x) + 1 : Scan(x, FALSE)[k] \in Scanned
    BY ScanType
  <2> QED
    BY <2>1, <2>2
<1>2. r.out \in Seq(Alphabet) /\ r.tail \in Seq(Symbol)
  BY <1>1 DEF Scanned
<1>3. R.out \in Seq(Alphabet)
  <2> HIDE DEF r
  <2>1. r.tail \o c \in Seq(Symbol)
    BY <1>2, TwoPieces
  <2>2. R \in Scanned
    BY <2>1, FlushedType
  <2> QED
    BY <2>2 DEF Scanned
<1>4. Scan(x \o c, final)[j].out = r.out \o R.out /\ Scan(x \o c, final)[j].tail = R.tail
  BY DEF Joined
<1>5. <<s>> \in Seq(Alphabet)
  OBVIOUS
<1> HIDE DEF R
<1>6. <<s>> \o (r.out \o R.out) = (<<s>> \o r.out) \o R.out
  <2> DEFINE a == <<s>>
             b == r.out
             d == R.out
  <2>1. a \in Seq(Alphabet) /\ b \in Seq(Alphabet) /\ d \in Seq(Alphabet)
    BY <1>2, <1>3, <1>5
  <2> HIDE DEF a, b, d, r
  <2>2. a \o (b \o d) = (a \o b) \o d
    BY <2>1, Regroup
  <2> QED
    BY <2>2 DEF a, b, d
<1>7. Scan(x \o c, final)[i].out = Scan(x, FALSE)[i].out \o R.out
  BY <1>4, <1>6
<1>8. Scan(x \o c, final)[i].tail = R.tail
  BY <1>4
<1>9. R = Flushed(Scan(x, FALSE)[i].tail \o c, final)
  BY DEF R
<1> QED
  BY <1>7, <1>8, <1>9 DEF Joined

\* Where the rest of x is not held back the scan of x \o c does what the scan of x does.
LEMMA SameWhereNotHeld ==
  ASSUME NEW x \in Seq(Symbol), NEW c \in Seq(Symbol), NEW final, NEW i \in 1 .. Len(x),
         ~ Held(x, FALSE, i)
  PROVE  /\ ~ Held(x \o c, final, i)
         /\ Matched(x \o c, i) = Matched(x, i)
         /\ (x \o c)[i] = x[i] /\ x[i] \in Alphabet
         /\ i \in 1 .. Len(x \o c)
<1> DEFINE y == x \o c
<1>1. /\ y \in Seq(Symbol) /\ Len(y) = Len(x) + Len(c)
      /\ \A j \in 1 .. Len(x) : y[j] = x[j]
  BY TwoPieces
<1>2. Len(x) \in Nat /\ Len(c) \in Nat /\ x[i] \in Symbol
  OBVIOUS
<1> HIDE DEF y
<1>3. Len(x) - i + 1 >= MaxLen
  BY <1>2, MaxLenType DEF Held, HoldBack
<1>4. ~ (Len(y) - i + 1 < MaxLen)
  BY <1>1, <1>2, <1>3, MaxLenType
<1>5. ~ Held(y, final, i)
  BY <1>4 DEF Held, HoldBack
<1>6. ASSUME NEW s \in Values PROVE StartsAt(s, y, i) <=> StartsAt(s, x, i)
  <2>1. Len(s) \in Nat /\ i + Len(s) - 1 <= Len(x)
    BY <1>2, <1>3, MaxLenType, ValuesAre
  <2>2. Len(y) \in Nat /\ Len(x) <= Len(y)
    BY <1>1, <1>2
  <2> QED
    BY <1>1, <1>2, <2>1, <2>2, StartsAtLocal
<1>7. Matched(y, i) = Matched(x, i)
  BY <1>6, MatchedSame
<1>8. i \in 1 .. Len(y) /\ y[i] = x[i] /\ x[i] \in Alphabet
  BY <1>1, <1>2 DEF Alphabet
<1> QED
  BY <1>5, <1>7, <1>8 DEF y

\* So the scan goes on.
LEMMA JoinedOn ==
  ASSUME NEW x \in Seq(Symbol), NEW c \in Seq(Symbol), NEW final, NEW i \in 1 .. Len(x),
         ~ Held(x, FALSE, i), \A j \in i + 1 .. Len(x) + 1 : Joined(x, c, final, j)
  PROVE  Joined(x, c, final, i)
<1> DEFINE y == x \o c
           F == Scan(x, FALSE)
           G == Scan(y, final)
<1>1. /\ ~ Held(y, final, i) /\ Matched(y, i) = Matched(x, i) /\ y[i] = x[i]
      /\ x[i] \in Alphabet /\ i \in 1 .. Len(y)
  BY SameWhereNotHeld
<1>2. y \in Seq(Symbol) /\ Len(x) \in Nat
  BY TwoPieces
<1>3. Goes(x, FALSE, F)
  BY ScanSteps
<1>4. Goes(y, final, G)
  <2> HIDE DEF y
  <2> QED
    BY <1>2, ScanSteps
<1>5. CASE Matched(x, i) # <<>>
  <2> DEFINE j == i + Len(Matched(x, i))
  <2>1. j \in i + 1 .. Len(x) + 1
    BY <1>5, MatchInside
  <2>2. F[i].out = <<Mark>> \o F[j].out /\ F[i].tail = F[j].tail
    <3> HIDE DEF F
    <3> QED
      BY <1>3, <1>5, GoesMatch, Zenon
  <2>3. G[i].out = <<Mark>> \o G[j].out /\ G[i].tail = G[j].tail
    <3> HIDE DEF G, y
    <3>1. /\ G[i].out = <<Mark>> \o G[i + Len(Matched(y, i))].out
          /\ G[i].tail = G[i + Len(Matched(y, i))].tail
      BY <1>1, <1>4, <1>5, GoesMatch, Zenon
    <3> QED
      BY <1>1, <3>1
  <2>4. Joined(x, c, final, j) /\ Mark \in Alphabet
    <3> HIDE DEF j
    <3> QED
      BY <2>1 DEF Alphabet
  <2> HIDE DEF j
  <2> QED
    BY <2>1, <2>2, <2>3, <2>4, JoinedStep
<1>6. CASE Matched(x, i) = <<>>
  <2>1. i + 1 \in i + 1 .. Len(x) + 1
    BY <1>2
  <2>2. F[i].out = <<x[i]>> \o F[i + 1].out /\ F[i].tail = F[i + 1].tail
    <3> HIDE DEF F
    <3> QED
      BY <1>3, <1>6, GoesSymbol, ZenonT(30)
  <2>3. G[i].out = <<x[i]>> \o G[i + 1].out /\ G[i].tail = G[i + 1].tail
    <3> HIDE DEF G, y
    <3>0. Matched(y, i) = <<>> /\ ~ Held(y, final, i) /\ i \in 1 .. Len(y)
      BY <1>1, <1>6, Zenon
    <3>1. G[i].out = <<y[i]>> \o G[i + 1].out /\ G[i].tail = G[i + 1].tail
      BY <1>4, <3>0, GoesSymbol
    <3> QED
      BY <1>1, <3>1
  <2>4. Joined(x, c, final, i + 1)
    BY <2>1
  <2> QED
    BY <1>1, <2>1, <2>2, <2>3, <2>4, JoinedStep
<1> QED
  BY <1>5, <1>6

\* Text in two pieces is written as it would be in one.
InPieces(x, c, final) ==
  LET r == Flushed(x, FALSE)
      R == Flushed(r.tail \o c, final)
  IN  /\ r.tail \in Seq(Symbol)
      /\ Flushed(x \o c, final).out = r.out \o R.out
      /\ Flushed(x \o c, final).tail = R.tail

\* However it is cut.
THEOREM Composed ==
  ASSUME NEW x \in Seq(Symbol), NEW c \in Seq(Symbol), NEW final
  PROVE  InPieces(x, c, final)
<1> DEFINE n == Len(x)
           S == {i \in 1 .. n + 1 : Joined(x, c, final, i)}
<1>1. n \in Nat /\ 1 \in 1 .. n + 1
  OBVIOUS
<1>2. ASSUME NEW i \in 1 .. n + 1, \A j \in i + 1 .. n + 1 : j \in S
      PROVE  Joined(x, c, final, i)
  <2>0. \A j \in i + 1 .. n + 1 : Joined(x, c, final, j)
    BY <1>2
  <2>1. CASE i <= Len(x) => Held(x, FALSE, i)
    BY <2>1, JoinedAtRest
  <2>2. CASE i <= Len(x) /\ ~ Held(x, FALSE, i)
    <3>1. i \in 1 .. Len(x)
      BY <1>1, <2>2
    <3> QED
      BY <2>0, <2>2, <3>1, JoinedOn
  <2> QED
    BY <2>1, <2>2
<1>3. \A i \in 1 .. n + 1 : (\A j \in i + 1 .. n + 1 : j \in S) => i \in S
  BY <1>2
<1>4. Joined(x, c, final, 1)
  <2>1. n + 1 \in Nat
    BY <1>1
  <2>2. \A i \in 1 .. n + 1 : i \in S
    <3> HIDE DEF S, n
    <3> QED
      BY <1>3, <2>1, Downwards
  <2> QED
    BY <1>1, <2>2
<1>5. Flushed(x, FALSE) = Scan(x, FALSE)[1]
  BY ScanType
<1>6. Flushed(x \o c, final) = Scan(x \o c, final)[1]
  BY TwoPieces, ScanType
<1>7. Flushed(x, FALSE).tail \in Seq(Symbol)
  BY FlushedType DEF Scanned
<1> QED
  BY <1>4, <1>5, <1>6, <1>7 DEF Joined, InPieces

\* The last flush writes the rest of what would have been written at once.
LEMMA LastFlush ==
  ASSUME NEW x \in Seq(Symbol)
  PROVE  Flushed(x, TRUE).out
           = Flushed(x, FALSE).out \o Flushed(Flushed(x, FALSE).tail, TRUE).out
<1> DEFINE e == Flushed(x, FALSE).tail
<1>1. <<>> \in Seq(Symbol) /\ x \o <<>> = x
  BY ConcatEmptySeq
<1>2. InPieces(x, <<>>, TRUE)
  BY <1>1, Composed
<1>3. /\ e \in Seq(Symbol)
      /\ Flushed(x \o <<>>, TRUE).out = Flushed(x, FALSE).out \o Flushed(e \o <<>>, TRUE).out
  BY <1>2 DEF InPieces
<1> HIDE DEF e
<1>4. e \o <<>> = e
  BY <1>3, ConcatEmptySeq
<1> QED
  BY <1>1, <1>3, <1>4 DEF e

\* A match that is still possible is shorter than the longest value.
LEMMA TailShort ==
  ASSUME NEW t \in Seq(Symbol), NEW final, Values # {}
  PROVE  Len(Flushed(t, final).tail) < MaxLen
<1> DEFINE n == Len(t)
           F == Scan(t, final)
           Short(i) == Len(F[i].tail) < MaxLen
           S == {i \in 1 .. n + 1 : Short(i)}
<1>1. n \in Nat /\ 1 \in 1 .. n + 1
  OBVIOUS
<1>2. Goes(t, final, F)
  BY ScanSteps
<1> HIDE DEF F
<1>3. ASSUME NEW i \in 1 .. n + 1, \A j \in i + 1 .. n + 1 : j \in S
      PROVE  Short(i)
  <2>1. CASE i = n + 1
    <3>1. F[n + 1].tail = <<>>
      BY <1>2 DEF Goes
    <3>2. Len(F[i].tail) = 0 /\ MaxLen \in Nat \ {0}
      BY <2>1, <3>1, ValuesAre
    <3> QED
      BY <3>2
  <2>2. CASE i \in 1 .. n
    <3>1. CASE Held(t, final, i)
      <4>1. F[i].tail = SubSeq(t, i, n)
        BY <1>2, <2>2, <3>1, GoesHeld
      <4>2. Len(SubSeq(t, i, n)) = n - i + 1
        BY <1>1, <2>2, SubSeqProperties
      <4>3. n - i + 1 < MaxLen
        BY <3>1 DEF Held, HoldBack
      <4> QED
        BY <4>1, <4>2, <4>3
    <3>2. CASE ~ Held(t, final, i) /\ Matched(t, i) # <<>>
      <4> DEFINE j == i + Len(Matched(t, i))
      <4>1. F[i].tail = F[j].tail
        BY <1>2, <2>2, <3>2, GoesMatch
      <4>2. j \in i + 1 .. n + 1
        BY <2>2, <3>2, MatchInside
      <4> HIDE DEF j
      <4>3. Short(j)
        BY <1>3, <4>2
      <4> QED
        BY <4>1, <4>3
    <3>3. CASE ~ Held(t, final, i) /\ Matched(t, i) = <<>>
      <4>1. F[i].tail = F[i + 1].tail
        BY <1>2, <2>2, <3>3, GoesSymbol, ZenonT(30)
      <4>2. i + 1 \in i + 1 .. n + 1
        BY <1>1, <2>2
      <4>3. Short(i + 1)
        BY <1>3, <4>2
      <4> QED
        BY <4>1, <4>3
    <3> QED
      BY <3>1, <3>2, <3>3
  <2> QED
    BY <1>1, <2>1, <2>2
<1>4. Short(1)
  <2>1. n + 1 \in Nat
    BY <1>1
  <2>2. \A i \in 1 .. n + 1 : (\A j \in i + 1 .. n + 1 : j \in S) => i \in S
    BY <1>3
  <2>3. \A i \in 1 .. n + 1 : i \in S
    <3> HIDE DEF S, n
    <3> QED
      BY <2>1, <2>2, Downwards
  <2> QED
    BY <1>1, <2>3
<1>5. Flushed(t, final) = F[1]
  BY ScanType DEF F
<1> QED
  BY <1>4, <1>5

-----------------------------------------------------------------------------
(* What a replacement leaves.                                              *)

\* out[i] is what is left of t from its i-th place on when the place is copied, or when
\* something longer that begins there is replaced.
Leaves(t, K, out) ==
  /\ out \in [1 .. Len(t) + 1 -> Seq(Alphabet)]
  /\ out[Len(t) + 1] = <<>>
  /\ \A i \in 1 .. Len(t) :
       /\ i \in K => out[i] = <<t[i]>> \o out[i + 1]
       /\ i \notin K => \E j \in i + 1 .. Len(t) + 1 : out[i] = <<Mark>> \o out[j]

\* A text without the replacement, found at the head of what is left, was at that place.
HeadWasThere(t, K, out, s, i) ==
  StartsAt(s, out[i], 1) => StartsAt(s, t, i) /\ (s # <<>> => i \in K)

\* A text that was not empty and starts with a symbol.
LEMMA HeadStart ==
  ASSUME NEW c \in Alphabet, NEW o \in Seq(Alphabet), NEW s \in Seq(Alphabet), s # <<>>
  PROVE  StartsAt(s, <<c>> \o o, 1) <=> s[1] = c /\ StartsAt(Tail(s), o, 1)
<1> DEFINE q == Tail(s)
           p == <<c>> \o o
<1>1. /\ q \in Seq(Alphabet) /\ Len(s) = Len(q) + 1 /\ s[1] \in Alphabet
      /\ \A k \in 1 .. Len(q) : q[k] = s[k + 1]
  OBVIOUS
<1>2. p \in Seq(Alphabet) /\ Len(p) = Len(o) + 1 /\ p[1] = c /\ \A k \in 1 .. Len(o) : p[k + 1] = o[k]
  OBVIOUS
<1>3. Len(q) \in Nat /\ Len(o) \in Nat
  BY <1>1
<1> HIDE DEF q, p
<1>4. ASSUME StartsAt(s, p, 1) PROVE s[1] = c /\ StartsAt(q, o, 1)
  <2>1. 1 + Len(s) - 1 <= Len(p) /\ \A k \in 1 .. Len(s) : p[1 + k - 1] = s[k]
    BY <1>4 DEF StartsAt
  <2>2. Len(s) <= Len(p) /\ \A k \in 1 .. Len(s) : p[k] = s[k]
    BY <1>1, <1>3, <2>1
  <2>3. 1 + Len(q) - 1 <= Len(o)
    BY <1>1, <1>2, <1>3, <2>2
  <2>4. ASSUME NEW k \in 1 .. Len(q) PROVE o[1 + k - 1] = q[k]
    <3>1. k + 1 \in 1 .. Len(s) /\ k \in 1 .. Len(o) /\ 1 + k - 1 = k
      BY <1>1, <1>3, <2>3
    <3>2. p[k + 1] = s[k + 1] /\ p[k + 1] = o[k] /\ q[k] = s[k + 1]
      BY <1>1, <1>2, <2>2, <3>1
    <3> QED
      BY <3>1, <3>2
  <2>5. 1 \in 1 .. Len(s)
    BY <1>1, <1>3
  <2>6. s[1] = c
    BY <1>2, <2>2, <2>5
  <2> QED
    BY <2>3, <2>4, <2>6 DEF StartsAt
<1>5. ASSUME s[1] = c, StartsAt(q, o, 1) PROVE StartsAt(s, p, 1)
  <2>1. 1 + Len(q) - 1 <= Len(o) /\ \A k \in 1 .. Len(q) : o[1 + k - 1] = q[k]
    BY <1>5 DEF StartsAt
  <2>2. Len(q) <= Len(o) /\ \A k \in 1 .. Len(q) : o[k] = q[k]
    BY <1>3, <2>1
  <2>3. 1 + Len(s) - 1 <= Len(p)
    BY <1>1, <1>2, <1>3, <2>2
  <2>4. ASSUME NEW k \in 1 .. Len(s) PROVE p[1 + k - 1] = s[k]
    <3>1. CASE k = 1
      BY <1>2, <1>5, <3>1
    <3>2. CASE k # 1
      <4>1. k - 1 \in 1 .. Len(q) /\ k - 1 \in 1 .. Len(o) /\ (k - 1) + 1 = k /\ 1 + k - 1 = k
        BY <1>1, <1>3, <2>2, <3>2
      <4>2. p[(k - 1) + 1] = o[k - 1] /\ o[k - 1] = q[k - 1] /\ q[k - 1] = s[(k - 1) + 1]
        BY <1>1, <1>2, <2>2, <4>1
      <4> QED
        BY <4>1, <4>2
    <3> QED
      BY <3>1, <3>2
  <2> QED
    BY <2>3, <2>4 DEF StartsAt
<1> QED
  BY <1>4, <1>5 DEF q, p

\* A text starts where its first symbol is and the rest starts at the next place.
LEMMA StartsAtCons ==
  ASSUME NEW t \in Seq(Alphabet), NEW i \in 1 .. Len(t), NEW s \in Seq(Symbol), s # <<>>,
         s[1] = t[i], StartsAt(Tail(s), t, i + 1)
  PROVE  StartsAt(s, t, i)
<1> DEFINE q == Tail(s)
<1>1. /\ Len(s) = Len(q) + 1 /\ Len(q) \in Nat /\ Len(t) \in Nat
      /\ \A k \in 1 .. Len(q) : q[k] = s[k + 1]
  OBVIOUS
<1> HIDE DEF q
<1>2. i + 1 + Len(q) - 1 <= Len(t) /\ \A k \in 1 .. Len(q) : t[i + 1 + k - 1] = q[k]
  BY DEF StartsAt, q
<1>3. i + Len(s) - 1 <= Len(t)
  BY <1>1, <1>2
<1>4. ASSUME NEW k \in 1 .. Len(s) PROVE t[i + k - 1] = s[k]
  <2>1. CASE k = 1
    BY <2>1
  <2>2. CASE k # 1
    <3>1. k - 1 \in 1 .. Len(q) /\ i + 1 + (k - 1) - 1 = i + k - 1 /\ (k - 1) + 1 = k
      BY <1>1, <2>2
    <3>2. t[i + 1 + (k - 1) - 1] = q[k - 1] /\ q[k - 1] = s[(k - 1) + 1]
      BY <1>1, <1>2, <3>1
    <3> QED
      BY <3>1, <3>2
  <2> QED
    BY <2>1, <2>2
<1> QED
  BY <1>3, <1>4 DEF StartsAt

\* The empty text starts everywhere, ...
LEMMA EmptyStarts ==
  ASSUME NEW t \in Seq(Alphabet), NEW i \in 1 .. Len(t) + 1
  PROVE  StartsAt(<<>>, t, i)
<1>1. Len(<<>>) = 0 /\ i + 0 - 1 <= Len(t) /\ 1 .. 0 = {}
  OBVIOUS
<1> QED
  BY <1>1 DEF StartsAt

\* ... and nothing else starts in it.
LEMMA StartsInEmpty ==
  ASSUME NEW s \in Seq(Symbol), StartsAt(s, <<>>, 1)
  PROVE  s = <<>>
<1>1. 1 + Len(s) - 1 <= Len(<<>>)
  BY DEF StartsAt
<1>2. Len(s) = 0
  BY <1>1
<1> QED
  BY <1>2

\* The head of what is left.
LEMMA HeadKept ==
  ASSUME NEW t \in Seq(Alphabet), NEW K, NEW out, Leaves(t, K, out)
  PROVE  \A i \in 1 .. Len(t) + 1 : \A s \in Seq(Symbol) : HeadWasThere(t, K, out, s, i)
<1> DEFINE n == Len(t)
           Was(i) == \A s \in Seq(Symbol) : HeadWasThere(t, K, out, s, i)
           S == {i \in 1 .. n + 1 : Was(i)}
<1>1. n \in Nat /\ \A i \in 1 .. n : t[i] \in Alphabet
  OBVIOUS
<1>2. \A i \in 1 .. n + 1 : out[i] \in Seq(Alphabet)
  BY DEF Leaves
<1>3. ASSUME NEW i \in 1 .. n + 1, \A j \in i + 1 .. n + 1 : j \in S,
             NEW s \in Seq(Symbol), StartsAt(s, out[i], 1)
      PROVE  StartsAt(s, t, i) /\ (s # <<>> => i \in K)
  <2>1. CASE s = <<>>
    BY <2>1, EmptyStarts
  <2>2. CASE s # <<>> /\ i = n + 1
    <3>1. out[i] = <<>>
      BY <2>2 DEF Leaves
    <3> QED
      BY <1>3, <2>2, <3>1, StartsInEmpty
  <2>3. CASE s # <<>> /\ i \in 1 .. n
    <3>1. s \in Seq(Alphabet) /\ s[1] \in Symbol /\ Tail(s) \in Seq(Symbol)
      BY <2>3 DEF Alphabet
    <3>2. CASE i \in K
      <4>1. out[i] = <<t[i]>> \o out[i + 1]
        BY <2>3, <3>2 DEF Leaves
      <4>2. i + 1 \in i + 1 .. n + 1 /\ i + 1 \in 1 .. n + 1
        BY <1>1, <2>3
      <4>3. out[i + 1] \in Seq(Alphabet) /\ t[i] \in Alphabet
        BY <1>1, <1>2, <2>3, <4>2
      <4>4. s[1] = t[i] /\ StartsAt(Tail(s), out[i + 1], 1)
        <5>1. StartsAt(s, <<t[i]>> \o out[i + 1], 1)
          BY <1>3, <4>1
        <5> QED
          BY <2>3, <3>1, <4>3, <5>1, HeadStart
      <4>5. StartsAt(Tail(s), t, i + 1)
        <5>1. Was(i + 1)
          BY <1>3, <4>2
        <5>2. HeadWasThere(t, K, out, Tail(s), i + 1)
          BY <3>1, <5>1
        <5> QED
          BY <4>4, <5>2 DEF HeadWasThere
      <4>6. StartsAt(s, t, i)
        BY <2>3, <4>4, <4>5, StartsAtCons
      <4> QED
        BY <3>2, <4>6
    <3>3. CASE i \notin K
      <4>1. PICK j \in i + 1 .. n + 1 : out[i] = <<Mark>> \o out[j]
        BY <2>3, <3>3 DEF Leaves
      <4>2. out[j] \in Seq(Alphabet) /\ Mark \in Alphabet
        BY <1>1, <1>2, <2>3 DEF Alphabet
      <4>3. StartsAt(s, <<Mark>> \o out[j], 1)
        BY <1>3, <4>1
      <4>4. s[1] = Mark
        BY <2>3, <3>1, <4>2, <4>3, HeadStart
      <4> QED
        BY <3>1, <4>4, TextAssumption
    <3> QED
      BY <3>2, <3>3
  <2> QED
    BY <1>1, <2>1, <2>2, <2>3
<1>4. ASSUME NEW i \in 1 .. n + 1, \A j \in i + 1 .. n + 1 : j \in S PROVE i \in S
  BY <1>3, <1>4 DEF HeadWasThere
<1>5. \A i \in 1 .. n + 1 : i \in S
  <2>1. n + 1 \in Nat
    BY <1>1
  <2>2. \A i \in 1 .. n + 1 : (\A j \in i + 1 .. n + 1 : j \in S) => i \in S
    BY <1>4
  <2> HIDE DEF S, n
  <2> QED
    BY <2>1, <2>2, Downwards
<1> QED
  BY <1>5

\* What begins at the second place of what is left, or later, begins in the rest of it.
LEMMA OccursLater ==
  ASSUME NEW c \in Alphabet, NEW o \in Seq(Alphabet), NEW s \in Seq(Symbol),
         Occurs(s, <<c>> \o o), ~ StartsAt(s, <<c>> \o o, 1)
  PROVE  Occurs(s, o)
<1> DEFINE p == <<c>> \o o
<1>1. p \in Seq(Alphabet) /\ Len(p) = Len(o) + 1 /\ \A k \in 1 .. Len(o) : p[k + 1] = o[k]
  OBVIOUS
<1>2. PICK i \in 1 .. Len(p) : StartsAt(s, p, i)
  BY DEF Occurs
<1>3. i # 1
  BY <1>2
<1> HIDE DEF p
<1>4. i - 1 \in 1 .. Len(o) /\ (i - 1) + 1 = i /\ Len(o) \in Nat /\ Len(s) \in Nat
  BY <1>1, <1>3
<1>5. StartsAt(s, p, (i - 1) + 1) <=> StartsAt(s, o, i - 1)
  <2> DEFINE k == i - 1
  <2>1. k \in 1 .. Len(o)
    BY <1>4
  <2> HIDE DEF k
  <2>2. StartsAt(s, p, k + 1) <=> StartsAt(s, o, k)
    BY <1>1, <1>4, <2>1, StartsAtShift
  <2> QED
    BY <2>2 DEF k
<1> QED
  BY <1>2, <1>4, <1>5 DEF Occurs

\* What is left of a text from a place on has only what the text has, at a place that was
\* copied.
WasThere(t, K, out, s, i) ==
  Occurs(s, out[i]) => \E p \in 1 .. Len(t) : StartsAt(s, t, p) /\ p \in K

\* A text without the replacement in it.
LEMMA OccursKept ==
  ASSUME NEW t \in Seq(Alphabet), NEW K, NEW out, Leaves(t, K, out),
         NEW s \in Seq(Symbol), s # <<>>
  PROVE  WasThere(t, K, out, s, 1)
<1> DEFINE n == Len(t)
           S == {i \in 1 .. n + 1 : WasThere(t, K, out, s, i)}
<1>1. n \in Nat /\ 1 \in 1 .. n + 1 /\ \A i \in 1 .. n : t[i] \in Alphabet
  OBVIOUS
<1>2. \A i \in 1 .. n + 1 : out[i] \in Seq(Alphabet)
  BY DEF Leaves
<1>3. ASSUME NEW i \in 1 .. n + 1, \A j \in i + 1 .. n + 1 : j \in S,
             Occurs(s, out[i])
      PROVE  \E p \in 1 .. n : StartsAt(s, t, p) /\ p \in K
  <2>1. CASE i = n + 1
    <3>1. out[i] = <<>>
      BY <2>1 DEF Leaves
    <3>2. 1 .. Len(<<>>) = {}
      OBVIOUS
    <3> QED
      BY <1>3, <3>1, <3>2 DEF Occurs
  <2>2. CASE i \in 1 .. n /\ StartsAt(s, out[i], 1)
    <3>1. HeadWasThere(t, K, out, s, i)
      BY HeadKept
    <3> QED
      BY <2>2, <3>1 DEF HeadWasThere
  <2>3. CASE i \in 1 .. n /\ ~ StartsAt(s, out[i], 1)
    <3>1. PICK c \in Alphabet, j \in i + 1 .. n + 1 : out[i] = <<c>> \o out[j]
      <4>1. CASE i \in K
        <5>1. out[i] = <<t[i]>> \o out[i + 1]
          BY <2>3, <4>1 DEF Leaves
        <5>2. i + 1 \in i + 1 .. n + 1 /\ t[i] \in Alphabet
          BY <1>1, <2>3
        <5> QED
          BY <5>1, <5>2
      <4>2. CASE i \notin K
        <5>1. \E j \in i + 1 .. n + 1 : out[i] = <<Mark>> \o out[j]
          BY <2>3, <4>2 DEF Leaves
        <5>2. Mark \in Alphabet
          BY DEF Alphabet
        <5> QED
          BY <5>1, <5>2
      <4> QED
        BY <4>1, <4>2
    <3>2. j \in 1 .. n + 1 /\ out[j] \in Seq(Alphabet)
      BY <1>1, <1>2, <2>3
    <3>3. Occurs(s, out[j])
      <4>1. Occurs(s, <<c>> \o out[j]) /\ ~ StartsAt(s, <<c>> \o out[j], 1)
        BY <1>3, <2>3, <3>1
      <4> QED
        BY <3>2, <4>1, OccursLater
    <3>4. WasThere(t, K, out, s, j)
      BY <1>3
    <3> QED
      BY <3>3, <3>4 DEF WasThere
  <2> QED
    BY <1>1, <2>1, <2>2, <2>3
<1>4. ASSUME NEW i \in 1 .. n + 1, \A j \in i + 1 .. n + 1 : j \in S PROVE i \in S
  BY <1>3, <1>4 DEF WasThere
<1>5. \A i \in 1 .. n + 1 : i \in S
  <2>1. n + 1 \in Nat
    BY <1>1
  <2>2. \A i \in 1 .. n + 1 : (\A j \in i + 1 .. n + 1 : j \in S) => i \in S
    BY <1>4
  <2> HIDE DEF S, n
  <2> QED
    BY <2>1, <2>2, Downwards
<1> QED
  BY <1>1, <1>5

\* flush at the end leaves no value in what it writes.
THEOREM NoValueFlushed ==
  ASSUME NEW t \in Seq(Symbol), NEW s \in Values
  PROVE  ~ Occurs(s, Flushed(t, TRUE).out)
<1> DEFINE n == Len(t)
           F == Scan(t, TRUE)
           K == {i \in 1 .. n : Matched(t, i) = <<>>}
           out == [i \in 1 .. n + 1 |-> F[i].out]
<1>1. n \in Nat /\ 1 \in 1 .. n + 1 /\ t \in Seq(Alphabet)
  BY DEF Alphabet
<1>2. Goes(t, TRUE, F)
  BY ScanSteps
<1>3. \A i \in 1 .. n + 1 : F[i] \in Scanned
  BY ScanType
<1>4. ASSUME NEW i PROVE ~ Held(t, TRUE, i)
  BY DEF Held, HoldBack
<1> HIDE DEF F
<1>5. Leaves(t, K, out)
  <2>1. out \in [1 .. n + 1 -> Seq(Alphabet)]
    BY <1>3 DEF Scanned
  <2>2. out[n + 1] = <<>>
    <3>1. F[n + 1].out = <<>>
      BY <1>2 DEF Goes
    <3> QED
      BY <1>1, <3>1
  <2>3. ASSUME NEW i \in 1 .. n, i \in K PROVE out[i] = <<t[i]>> \o out[i + 1]
    <3>0. Matched(t, i) = <<>> /\ ~ Held(t, TRUE, i)
      BY <1>4, <2>3
    <3>1. F[i].out = <<t[i]>> \o F[i + 1].out
      BY <1>2, <3>0 DEF Goes
    <3>2. i \in 1 .. n + 1 /\ i + 1 \in 1 .. n + 1
      BY <1>1
    <3> QED
      BY <3>1, <3>2
  <2>4. ASSUME NEW i \in 1 .. n, i \notin K
        PROVE  \E j \in i + 1 .. n + 1 : out[i] = <<Mark>> \o out[j]
    <3>0. Matched(t, i) # <<>> /\ ~ Held(t, TRUE, i)
      BY <1>4, <2>4
    <3> DEFINE j == i + Len(Matched(t, i))
    <3>1. F[i].out = <<Mark>> \o F[j].out
      BY <1>2, <3>0, GoesMatch, Zenon
    <3>2. j \in i + 1 .. n + 1
      BY <3>0, MatchInside
    <3> HIDE DEF j
    <3>3. i \in 1 .. n + 1 /\ j \in 1 .. n + 1
      BY <1>1, <3>2
    <3> QED
      BY <3>1, <3>2, <3>3
  <2> HIDE DEF K, out
  <2> QED
    BY <2>1, <2>2, <2>3, <2>4 DEF Leaves
<1>6. Flushed(t, TRUE).out = out[1]
  <2>1. Flushed(t, TRUE) = F[1]
    BY ScanType DEF F
  <2> QED
    BY <1>1, <2>1
<1>7. s \in Seq(Symbol) /\ s # <<>>
  BY ValuesAre
<1>8. ASSUME Occurs(s, out[1]) PROVE FALSE
  <2>1. WasThere(t, K, out, s, 1)
    <3> HIDE DEF K, out
    <3> QED
      BY <1>1, <1>5, <1>7, OccursKept
  <2>2. PICK p \in 1 .. n : StartsAt(s, t, p) /\ p \in K
    BY <1>8, <2>1 DEF WasThere
  <2> QED
    BY <2>2, MatchedIs
<1> QED
  BY <1>6, <1>8

-----------------------------------------------------------------------------
(* ReplaceAll, and the scrubbing of a line.                                *)

ReplaceRec(t, s, f) ==
  f = [i \in 1 .. Len(t) + 1 |->
        IF i > Len(t) THEN <<>>
        ELSE IF StartsAt(s, t, i) THEN <<Mark>> \o f[i + Len(s)]
                                  ELSE <<t[i]>> \o f[i + 1]]

\* A symbol before a log.
LEMMA OneMore ==
  ASSUME NEW c \in Alphabet, NEW o \in Seq(Alphabet)
  PROVE  <<c>> \o o \in Seq(Alphabet)
OBVIOUS

\* A text that starts somewhere lies within.
LEMMA StartInside ==
  ASSUME NEW t \in Seq(Alphabet), NEW s \in Seq(Symbol), s # <<>>, NEW i \in 1 .. Len(t),
         StartsAt(s, t, i)
  PROVE  i + Len(s) \in i + 1 .. Len(t) + 1
<1>1. i + Len(s) - 1 <= Len(t)
  BY DEF StartsAt
<1>2. Len(s) \in Nat \ {0} /\ Len(t) \in Nat
  OBVIOUS
<1> QED
  BY <1>1, <1>2

\* The recursion has a solution.
LEMMA ReplaceExists ==
  ASSUME NEW t \in Seq(Alphabet), NEW s \in Seq(Symbol), s # <<>>
  PROVE  \E f \in [1 .. Len(t) + 1 -> Seq(Alphabet)] : ReplaceRec(t, s, f)
<1> DEFINE n == Len(t)
           I == 1 .. n + 1
           V == Seq(Alphabet)
           Body(f, i) == IF i > n THEN <<>>
                         ELSE IF StartsAt(s, t, i) THEN <<Mark>> \o f[i + Len(s)]
                                                   ELSE <<t[i]>> \o f[i + 1]
           H == [f \in [I -> V] |-> [i \in I |-> Body(f, i)]]
           rank == [i \in I |-> n + 1 - i]
<1>1. n \in Nat /\ \A i \in 1 .. n : t[i] \in Alphabet
  OBVIOUS
<1>2. ASSUME NEW i \in 1 .. n, StartsAt(s, t, i) PROVE i + Len(s) \in I /\ i + Len(s) > i
  <2>1. i + Len(s) \in i + 1 .. n + 1
    BY <1>2, StartInside
  <2> QED
    BY <1>1, <2>1
<1>3. <<>> \in V /\ Mark \in Alphabet
  BY DEF Alphabet
<1>4. ASSUME NEW f \in [I -> V], NEW i \in I PROVE Body(f, i) \in V
  <2>1. CASE i > n
    BY <1>3, <2>1
  <2>2. CASE i <= n /\ StartsAt(s, t, i)
    <3>1. f[i + Len(s)] \in V
      <4>1. i + Len(s) \in I
        BY <1>1, <1>2, <2>2
      <4> HIDE DEF I, V
      <4> QED
        BY <4>1
    <3>2. Body(f, i) = <<Mark>> \o f[i + Len(s)]
      BY <1>1, <2>2
    <3> QED
      BY <1>3, <3>1, <3>2, OneMore
  <2>3. CASE i <= n /\ ~ StartsAt(s, t, i)
    <3>1. f[i + 1] \in V /\ t[i] \in Alphabet
      <4>1. i + 1 \in I /\ i \in 1 .. n
        BY <1>1, <2>3
      <4> HIDE DEF I, V
      <4> QED
        BY <1>1, <4>1
    <3>2. Body(f, i) = <<t[i]>> \o f[i + 1]
      BY <1>1, <2>3
    <3> QED
      BY <3>1, <3>2, OneMore
  <2> QED
    BY <1>1, <2>1, <2>2, <2>3
<1>5. ASSUME NEW f \in [I -> V], NEW g \in [I -> V], NEW i \in I,
             \A j \in I : rank[j] < rank[i] => f[j] = g[j]
      PROVE  Body(f, i) = Body(g, i)
  <2>0. \A j \in I : j > i => f[j] = g[j]
    BY <1>1, <1>5
  <2>1. CASE i > n
    BY <2>1
  <2>2. CASE i <= n /\ StartsAt(s, t, i)
    <3>1. f[i + Len(s)] = g[i + Len(s)]
      <4>1. i + Len(s) \in I /\ i + Len(s) > i
        BY <1>1, <1>2, <2>2
      <4> HIDE DEF I
      <4> QED
        BY <2>0, <4>1
    <3> QED
      BY <2>2, <3>1
  <2>3. CASE i <= n /\ ~ StartsAt(s, t, i)
    <3>1. f[i + 1] = g[i + 1]
      BY <1>1, <2>0, <2>3
    <3> QED
      BY <2>3, <3>1
  <2> QED
    BY <1>1, <2>1, <2>2, <2>3
<1>6. Ranked(I, rank, n + 2)
  BY <1>1 DEF Ranked
<1>7. Decreasing(H, I, V, rank)
  <2>1. [i \in I |-> <<>>] \in [I -> V]
    BY <1>3
  <2>2. [I -> V] # {}
    BY <2>1
  <2> HIDE DEF I, V, rank, Body, n
  <2>3. H \in [[I -> V] -> [I -> V]]
    BY <1>4
  <2>4. \A f \in [I -> V], i \in I : H[f][i] = Body(f, i)
    OBVIOUS
  <2> HIDE DEF H
  <2>5. ASSUME NEW f \in [I -> V], NEW g \in [I -> V], NEW i \in I,
               \A j \in I : rank[j] < rank[i] => f[j] = g[j]
        PROVE  H[f][i] = H[g][i]
    <3>1. Body(f, i) = Body(g, i)
      BY <1>5, <2>5
    <3> QED
      BY <2>4, <3>1
  <2> QED
    BY <2>2, <2>3, <2>5 DEF Decreasing
<1>8. PICK f \in [I -> V] : f = H[f]
  <2> HIDE DEF I, V, rank, H, n
  <2> QED
    BY <1>6, <1>7, Recursion
<1>9. ReplaceRec(t, s, f)
  BY <1>8 DEF ReplaceRec
<1> QED
  BY <1>9

\* ReplaceAll copies what is not the beginning of an occurrence.
LEMMA ReplaceLeaves ==
  ASSUME NEW t \in Seq(Alphabet), NEW s \in Seq(Symbol), s # <<>>
  PROVE  \E out : /\ Leaves(t, {i \in 1 .. Len(t) : ~ StartsAt(s, t, i)}, out)
                  /\ ReplaceAll(t, s) = out[1]
<1> DEFINE n == Len(t)
           K == {i \in 1 .. n : ~ StartsAt(s, t, i)}
           I == 1 .. n + 1
           V == Seq(Alphabet)
           R(f) == \A i \in I : /\ i > n => f[i] = <<>>
                                /\ i <= n /\ StartsAt(s, t, i) => f[i] = <<Mark>> \o f[i + Len(s)]
                                /\ i <= n /\ ~ StartsAt(s, t, i) => f[i] = <<t[i]>> \o f[i + 1]
           out == CHOOSE f : ReplaceRec(t, s, f)
<1>1. n \in Nat /\ 1 \in I
  OBVIOUS
<1>2. ReplaceAll(t, s) = out[1]
  BY DEF ReplaceAll, ReplaceRec
<1>3. PICK f \in [I -> V] : ReplaceRec(t, s, f)
  BY ReplaceExists
<1>4. ReplaceRec(t, s, out)
  BY <1>3
<1> HIDE DEF out
<1>5. ASSUME NEW h, ReplaceRec(t, s, h)
      PROVE  h = [i \in I |-> h[i]] /\ R(h)
  <2>1. h = [i \in I |-> IF i > n THEN <<>>
                         ELSE IF StartsAt(s, t, i) THEN <<Mark>> \o h[i + Len(s)]
                                                   ELSE <<t[i]>> \o h[i + 1]]
    BY <1>5 DEF ReplaceRec
  <2>2. \A i \in I : h[i] = IF i > n THEN <<>>
                            ELSE IF StartsAt(s, t, i) THEN <<Mark>> \o h[i + Len(s)]
                                                      ELSE <<t[i]>> \o h[i + 1]
    BY <2>1
  <2>3. \A i \in I : i > n <=> ~ (i <= n)
    BY <1>1
  <2>4. R(h)
    BY <2>2, <2>3
  <2>5. h = [i \in I |-> h[i]]
    <3> DEFINE e(i) == IF i > n THEN <<>>
                       ELSE IF StartsAt(s, t, i) THEN <<Mark>> \o h[i + Len(s)]
                                                 ELSE <<t[i]>> \o h[i + 1]
    <3>1. h = [i \in I |-> e(i)]
      BY <2>1
    <3> HIDE DEF I, e
    <3> QED
      BY <3>1
  <2> QED
    BY <2>4, <2>5
<1>6. R(out) /\ out = [i \in I |-> out[i]]
  BY <1>4, <1>5
<1>7. \A i \in 1 .. n : i + 1 \in i + 1 .. n + 1 /\ i <= n /\ i \in I
  BY <1>1
<1>8. \A i \in 1 .. n : StartsAt(s, t, i) => i + Len(s) \in i + 1 .. n + 1
  BY StartInside
<1>9. \A i \in I : out[i] \in V
  <2> DEFINE S == {i \in I : out[i] \in V}
  <2>1. ASSUME NEW i \in I, \A j \in i + 1 .. n + 1 : j \in S PROVE i \in S
    <3>0. \A j \in i + 1 .. n + 1 : out[j] \in V
      BY <2>1
    <3>1. CASE i > n
      <4>1. out[i] = <<>>
        BY <1>6, <3>1
      <4>2. <<>> \in V
        OBVIOUS
      <4> HIDE DEF I, V
      <4> QED
        BY <2>1, <4>1, <4>2
    <3>2. CASE i <= n /\ StartsAt(s, t, i)
      <4>1. i \in 1 .. n
        BY <1>1, <3>2
      <4>2. out[i + Len(s)] \in V /\ Mark \in Alphabet
        <5>1. i + Len(s) \in i + 1 .. n + 1
          BY <1>8, <3>2, <4>1
        <5> HIDE DEF V
        <5> QED
          BY <3>0, <5>1 DEF Alphabet
      <4>3. out[i] = <<Mark>> \o out[i + Len(s)]
        BY <1>6, <3>2
      <4> QED
        BY <4>2, <4>3, OneMore
    <3>3. CASE i <= n /\ ~ StartsAt(s, t, i)
      <4>1. i \in 1 .. n
        BY <1>1, <3>3
      <4>2. out[i + 1] \in V /\ t[i] \in Alphabet
        <5>1. t[i] \in Alphabet
          BY <4>1
        <5> HIDE DEF V
        <5> QED
          BY <1>7, <3>0, <4>1, <5>1
      <4>3. out[i] = <<t[i]>> \o out[i + 1]
        BY <1>6, <3>3
      <4> QED
        BY <4>2, <4>3, OneMore
    <3> QED
      BY <1>1, <3>1, <3>2, <3>3
  <2>2. n + 1 \in Nat
    BY <1>1
  <2>3. \A i \in 1 .. n + 1 : (\A j \in i + 1 .. n + 1 : j \in S) => i \in S
    BY <2>1
  <2>4. \A i \in 1 .. n + 1 : i \in S
    <3> HIDE DEF S, n
    <3> QED
      BY <2>2, <2>3, Downwards
  <2> QED
    BY <2>4
<1>10. Leaves(t, K, out)
  <2>1. out \in [1 .. n + 1 -> Seq(Alphabet)]
    BY <1>6, <1>9
  <2>2. out[n + 1] = <<>>
    <3>1. n + 1 \in I /\ n + 1 > n
      BY <1>1
    <3> QED
      BY <1>6, <3>1
  <2>3. ASSUME NEW i \in 1 .. n, i \in K PROVE out[i] = <<t[i]>> \o out[i + 1]
    BY <1>6, <1>7, <2>3
  <2>4. ASSUME NEW i \in 1 .. n, i \notin K
        PROVE  \E j \in i + 1 .. n + 1 : out[i] = <<Mark>> \o out[j]
    BY <1>6, <1>7, <1>8, <2>4
  <2> HIDE DEF K
  <2> QED
    BY <2>1, <2>2, <2>3, <2>4 DEF Leaves
<1> QED
  BY <1>2, <1>10

\* A text that ReplaceAll looked for is gone, and it brings none back.
Gone(t, s) ==
  /\ ReplaceAll(t, s) \in Seq(Alphabet)
  /\ ~ Occurs(s, ReplaceAll(t, s))
  /\ \A u \in Seq(Symbol) : u # <<>> /\ ~ Occurs(u, t) => ~ Occurs(u, ReplaceAll(t, s))

\* So it is.
LEMMA Replaced ==
  ASSUME NEW t \in Seq(Alphabet), NEW s \in Seq(Symbol), s # <<>>
  PROVE  Gone(t, s)
<1> DEFINE K == {i \in 1 .. Len(t) : ~ StartsAt(s, t, i)}
<1>1. PICK out : Leaves(t, K, out) /\ ReplaceAll(t, s) = out[1]
  BY ReplaceLeaves
<1> HIDE DEF K
<1>2. out[1] \in Seq(Alphabet)
  <2>1. 1 \in 1 .. Len(t) + 1
    OBVIOUS
  <2> QED
    BY <1>1, <2>1 DEF Leaves
<1>3. ASSUME NEW u \in Seq(Symbol), u # <<>>, Occurs(u, out[1])
      PROVE  \E p \in 1 .. Len(t) : StartsAt(u, t, p) /\ p \in K
  <2>1. WasThere(t, K, out, u, 1)
    BY <1>1, <1>3, OccursKept
  <2> QED
    BY <1>3, <2>1 DEF WasThere
<1>4. ~ Occurs(s, out[1])
  BY <1>3 DEF K
<1>5. ASSUME NEW u \in Seq(Symbol), u # <<>>, ~ Occurs(u, t) PROVE ~ Occurs(u, out[1])
  BY <1>3, <1>5 DEF Occurs
<1> QED
  BY <1>1, <1>2, <1>4, <1>5 DEF Gone

\* Scrub replaces one value after another.
ScrubRec(t, o, f) ==
  f = [i \in 0 .. Len(o) |-> IF i = 0 THEN t ELSE ReplaceAll(f[i - 1], o[i])]

\* An order of the values has them all.
LEMMA OrderHasAll ==
  ASSUME NEW o \in Orders
  PROVE  /\ Len(o) \in Nat
         /\ \A i \in 1 .. Len(o) : o[i] \in Values
         /\ \A s \in Values : \E i \in 1 .. Len(o) : o[i] = s
<1> DEFINE m == Cardinality(Values)
           I == 1 .. m
<1>1. IsFiniteSet(Values) /\ m \in Nat
  BY ValuesAre, FS_CardinalityType
<1>2. o \in [I -> Values] /\ \A i, j \in I : i # j => o[i] # o[j]
  BY DEF Orders
<1>3. Cardinality(I) = m
  <2> HIDE DEF m
  <2> QED
    BY <1>1, FS_Interval
<1>4. o \in Injection(I, Values)
  <2> HIDE DEF I
  <2> QED
    BY <1>2, Fun_IsInj
<1>5. o \in Surjection(I, Values)
  <2> HIDE DEF I
  <2> QED
    BY <1>1, <1>3, <1>4, FS_Injection
<1>6. Len(o) = m
  <2> HIDE DEF m
  <2> QED
    BY <1>1, <1>2
<1>7. \A s \in Values : \E i \in I : o[i] = s
  <2> HIDE DEF I
  <2> QED
    BY <1>5, Fun_SurjectionProperties
<1> QED
  BY <1>1, <1>2, <1>6, <1>7

\* The recursion has a solution.
LEMMA ScrubExists ==
  ASSUME NEW t \in Seq(Alphabet), NEW o \in Orders
  PROVE  \E f \in [0 .. Len(o) -> Seq(Alphabet)] : ScrubRec(t, o, f)
<1> DEFINE n == Len(o)
           I == 0 .. n
           V == Seq(Alphabet)
           rank == [i \in I |-> i]
           Body(f, i) == IF i = 0 THEN t ELSE ReplaceAll(f[i - 1], o[i])
           H == [f \in [I -> V] |-> [i \in I |-> Body(f, i)]]
<1>1. n \in Nat /\ \A i \in 1 .. n : o[i] \in Seq(Symbol) /\ o[i] # <<>>
  BY OrderHasAll, ValuesAre
<1>2. ASSUME NEW f \in [I -> V], NEW i \in I PROVE Body(f, i) \in V
  <2>1. CASE i = 0
    BY <2>1
  <2>2. CASE i # 0
    <3>1. i - 1 \in I /\ i \in 1 .. n
      BY <1>1, <2>2
    <3>2. f[i - 1] \in V
      <4> HIDE DEF I, V
      <4> QED
        BY <3>1
    <3>3. Gone(f[i - 1], o[i])
      BY <1>1, <3>1, <3>2, Replaced
    <3> QED
      BY <2>2, <3>3 DEF Gone
  <2> QED
    BY <2>1, <2>2
<1>3. ASSUME NEW f \in [I -> V], NEW g \in [I -> V], NEW i \in I,
             \A j \in I : rank[j] < rank[i] => f[j] = g[j]
      PROVE  Body(f, i) = Body(g, i)
  <2>1. i # 0 => f[i - 1] = g[i - 1]
    BY <1>1, <1>3
  <2> QED
    BY <2>1
<1>4. Ranked(I, rank, n + 1)
  BY <1>1 DEF Ranked
<1>5. Decreasing(H, I, V, rank)
  <2>1. [i \in I |-> t] \in [I -> V]
    OBVIOUS
  <2>2. [I -> V] # {}
    BY <2>1
  <2> HIDE DEF I, V, rank, Body, n
  <2>3. H \in [[I -> V] -> [I -> V]]
    BY <1>2
  <2>4. \A f \in [I -> V], i \in I : H[f][i] = Body(f, i)
    OBVIOUS
  <2> HIDE DEF H
  <2>5. ASSUME NEW f \in [I -> V], NEW g \in [I -> V], NEW i \in I,
               \A j \in I : rank[j] < rank[i] => f[j] = g[j]
        PROVE  H[f][i] = H[g][i]
    <3>1. Body(f, i) = Body(g, i)
      BY <1>3, <2>5
    <3> QED
      BY <2>4, <3>1
  <2> QED
    BY <2>2, <2>3, <2>5 DEF Decreasing
<1>6. PICK f \in [I -> V] : f = H[f]
  <2> HIDE DEF I, V, rank, H, n
  <2> QED
    BY <1>4, <1>5, Recursion
<1>7. ScrubRec(t, o, f)
  BY <1>6 DEF ScrubRec
<1> QED
  BY <1>7

\* The values that were looked for so far are gone.
Cleared(o, f, i) ==
  /\ f[i] \in Seq(Alphabet)
  /\ \A j \in 1 .. i : ~ Occurs(o[j], f[i])

\* A scrubbed line has no value in it.
THEOREM Scrubbed ==
  ASSUME NEW t \in Seq(Alphabet), NEW x \in Scrub(t)
  PROVE  x \in Seq(Alphabet) /\ \A s \in Values : ~ Occurs(s, x)
<1>1. PICK o \in Orders : x = (CHOOSE f : ScrubRec(t, o, f))[Len(o)]
  BY DEF Scrub, ScrubRec
<1> DEFINE n == Len(o)
           f == CHOOSE h : ScrubRec(t, o, h)
           S == {i \in Nat : i <= n => Cleared(o, f, i)}
<1>2. n \in Nat /\ \A i \in 1 .. n : o[i] \in Seq(Symbol) /\ o[i] # <<>>
  BY OrderHasAll, ValuesAre
<1>3. ScrubRec(t, o, f)
  BY ScrubExists
<1>4. x = f[n]
  BY <1>1
<1> HIDE DEF f
<1>5. f[0] = t /\ \A i \in 1 .. n : f[i] = ReplaceAll(f[i - 1], o[i])
  <2>1. f = [i \in 0 .. n |-> IF i = 0 THEN t ELSE ReplaceAll(f[i - 1], o[i])]
    BY <1>3 DEF ScrubRec
  <2>2. \A i \in 0 .. n : f[i] = IF i = 0 THEN t ELSE ReplaceAll(f[i - 1], o[i])
    BY <2>1
  <2>3. 0 \in 0 .. n /\ \A i \in 1 .. n : i \in 0 .. n /\ i # 0
    BY <1>2
  <2> HIDE DEF n
  <2> QED
    BY <2>2, <2>3
<1>6. 0 \in S
  <2>1. Cleared(o, f, 0)
    BY <1>5 DEF Cleared
  <2> QED
    BY <2>1
<1>7. ASSUME NEW i \in Nat, i \in S, i + 1 <= n PROVE Cleared(o, f, i + 1)
  <2>1. Cleared(o, f, i)
    BY <1>2, <1>7
  <2>2. i + 1 \in 1 .. n /\ (i + 1) - 1 = i
    BY <1>2, <1>7
  <2>3. f[i + 1] = ReplaceAll(f[i], o[i + 1])
    BY <1>5, <2>2
  <2>4. Gone(f[i], o[i + 1])
    <3>1. f[i] \in Seq(Alphabet) /\ o[i + 1] \in Seq(Symbol) /\ o[i + 1] # <<>>
      BY <1>2, <2>1, <2>2 DEF Cleared
    <3> QED
      BY <3>1, Replaced
  <2>5. f[i + 1] \in Seq(Alphabet) /\ ~ Occurs(o[i + 1], f[i + 1])
    BY <2>3, <2>4 DEF Gone
  <2>6. ASSUME NEW j \in 1 .. i + 1 PROVE ~ Occurs(o[j], f[i + 1])
    <3>1. CASE j = i + 1
      BY <2>5, <3>1
    <3>2. CASE j \in 1 .. i
      <4>1. ~ Occurs(o[j], f[i])
        BY <2>1, <3>2 DEF Cleared
      <4>2. o[j] \in Seq(Symbol) /\ o[j] # <<>>
        <5>1. j \in 1 .. n
          BY <1>2, <1>7, <3>2
        <5> HIDE DEF n
        <5> QED
          BY <1>2, <5>1
      <4> QED
        BY <2>3, <2>4, <4>1, <4>2 DEF Gone
    <3> QED
      BY <3>1, <3>2
  <2> QED
    BY <2>5, <2>6 DEF Cleared
<1>8. ASSUME NEW i \in Nat, i \in S PROVE i + 1 \in S
  BY <1>7, <1>8
<1>9. \A i \in Nat : i \in S
  <2> HIDE DEF S
  <2> QED
    BY <1>6, <1>8, Upwards
<1>10. Cleared(o, f, n)
  BY <1>2, <1>9
<1>11. ASSUME NEW s \in Values PROVE ~ Occurs(s, x)
  <2>1. PICK j \in 1 .. n : o[j] = s
    BY OrderHasAll
  <2> QED
    BY <1>4, <1>10, <2>1 DEF Cleared
<1> QED
  BY <1>4, <1>10, <1>11 DEF Cleared

-----------------------------------------------------------------------------
(* The log of a job.                                                       *)

\* What has been written of an output, and what is held back of it.
Soft(x) == IF Values = {} THEN [out |-> x, tail |-> <<>>] ELSE Flushed(x, FALSE)

Begins(p, q) == Len(p) <= Len(q) /\ p = SubSeq(q, 1, Len(p))

Streams == [pc : {"none", "first", "poll", "read", "ended", "error", "broken"},
            seen : {"queued", "running", "done"}, offset : Nat, sent : Seq(Alphabet)]

States ==
  /\ kind \in {"job", "run"}
  /\ row \in {"queued", "running", "done", "gone"}
  /\ path \in BOOLEAN
  /\ file \in [there : BOOLEAN, parts : Seq(Seq(Alphabet))]
  /\ worker \in {"down", "idle", "claimed", "writing", "appending", "finishing", "promoted",
                "left"}
  /\ tail \in Seq(Symbol)
  /\ stream \in [Reader -> Streams]
  /\ clean \in {"idle", "unlisted", "listed", "rows", "done"}
  /\ crashes \in 0 .. 1
  /\ input \in Seq(Symbol) /\ Len(input) <= MaxInput
  /\ committed \in Nat
  /\ overlap \in BOOLEAN /\ refused \in BOOLEAN

\* The row follows the worker; only the cleanup deletes it.
RowInv ==
  /\ worker \in {"claimed", "writing", "appending", "finishing"} => row \in {"running", "gone"}
  /\ worker = "promoted" => row # "queued"
  /\ row = "gone" => clean \in {"rows", "done"}

\* What is in the file, from the first write to the last line.
FileInv ==
  /\ file.there <=> file.parts # <<>>
  /\ tail = IF worker = "writing" THEN Soft(input).tail ELSE <<>>
  /\ worker = "writing" /\ file.there =>
       Len(file.parts) = 1 /\ file.parts[1] = Soft(input).out
  /\ worker \in {"appending", "finishing", "promoted"} /\ file.there =>
       file.parts[1] = Redact(input)
  /\ file.there => Begins(file.parts[1], Redact(input))
  /\ \A i \in 2 .. Len(file.parts) : \A s \in Values : ~ Occurs(s, file.parts[i])
  /\ row = "queued" \/ worker = "claimed" => ~ file.there /\ input = <<>>

\* What a follower has, and what it knows.
FollowInv ==
  /\ row = "queued" \/ worker = "claimed" =>
       \A r \in Reader : stream[r].offset = 0 /\ stream[r].sent = <<>>
  /\ DeliveredInOrder
  /\ clean = "idle" => committed <= Len(Text)
  /\ \A r \in Reader : stream[r].seen = "done" => row \in {"done", "gone"}
  /\ \A r \in Reader : stream[r].pc = "ended" => stream[r].seen = "done"
  /\ MissesOnlyLaterLines

\* A cleanup that is alone leaves no file, when the rows and their paths are known.
LeftInv ==
  ~ overlap /\ crashes = 0 /\ ~ refused =>
    /\ worker = "left" => ~ file.there
    /\ clean # "idle" => ~ Busy
    /\ worker # "down"
    /\ file.there /\ (worker = "idle" \/ (worker = "promoted" /\ row = "done")) => path
    /\ clean = "unlisted" => ~ file.there
    /\ clean = "done" /\ row = "gone" => ~ file.there

LogInv == States /\ RowInv /\ FileInv /\ FollowInv /\ LeftInv

-----------------------------------------------------------------------------
(* What the worker writes, as texts.                                       *)

\* Nothing yet.
LEMMA SoftStart == Soft(<<>>).out = <<>> /\ Soft(<<>>).tail = <<>>
<1>1. CASE Values = {}
  BY <1>1 DEF Soft
<1>2. CASE Values # {}
  <2> DEFINE F == Scan(<<>>, FALSE)
  <2>1. <<>> \in Seq(Symbol) /\ Len(<<>>) = 0 /\ 0 + 1 = 1
    OBVIOUS
  <2>2. Goes(<<>>, FALSE, F)
    BY <2>1, ScanSteps
  <2>3. Flushed(<<>>, FALSE) = F[1]
    BY <2>1, ScanType
  <2> HIDE DEF F
  <2>4. F[1].out = <<>> /\ F[1].tail = <<>>
    BY <2>1, <2>2 DEF Goes
  <2> QED
    BY <1>2, <2>3, <2>4 DEF Soft
<1> QED
  BY <1>1, <1>2

\* Symbols are letters of a log.
LEMMA TextIsLog == Seq(Symbol) \subseteq Seq(Alphabet)
BY DEF Alphabet

\* The types of both.
LEMMA SoftType ==
  ASSUME NEW x \in Seq(Symbol)
  PROVE  /\ Soft(x).out \in Seq(Alphabet) /\ Soft(x).tail \in Seq(Symbol)
         /\ Values # {} => Len(Soft(x).tail) < MaxLen
<1>1. CASE Values = {}
  BY <1>1, TextIsLog DEF Soft
<1>2. CASE Values # {}
  <2>1. Soft(x) = Flushed(x, FALSE)
    BY <1>2 DEF Soft
  <2>2. Flushed(x, FALSE) \in Scanned
    BY FlushedType
  <2>3. Len(Flushed(x, FALSE).tail) < MaxLen
    BY <1>2, TailShort
  <2> QED
    BY <2>1, <2>2, <2>3 DEF Scanned
<1> QED
  BY <1>1, <1>2

\* Another chunk.
LEMMA SoftWrite ==
  ASSUME NEW x \in Seq(Symbol), NEW c \in Seq(Symbol)
  PROVE  /\ Soft(x \o c).out = Soft(x).out \o Written(Soft(x).tail, c).out
         /\ Soft(x \o c).tail = Written(Soft(x).tail, c).tail
         /\ Written(Soft(x).tail, c).out \in Seq(Alphabet)
<1>1. CASE Values = {}
  BY <1>1, TextIsLog DEF Soft, Written
<1>2. CASE Values # {}
  <2> DEFINE r == Flushed(x, FALSE)
             R == Flushed(r.tail \o c, FALSE)
  <2>1. Soft(x) = r /\ Soft(x \o c) = Flushed(x \o c, FALSE) /\ Written(r.tail, c) = R
    BY <1>2 DEF Soft, Written
  <2>2. InPieces(x, c, FALSE)
    BY Composed
  <2>3. /\ r.tail \in Seq(Symbol) /\ Flushed(x \o c, FALSE).out = r.out \o R.out
        /\ Flushed(x \o c, FALSE).tail = R.tail
    BY <2>2 DEF InPieces
  <2>4. R.out \in Seq(Alphabet)
    <3>1. r.tail \o c \in Seq(Symbol)
      <4> HIDE DEF r
      <4> QED
        BY <2>3, TwoPieces
    <3>2. R \in Scanned
      BY <3>1, FlushedType
    <3> QED
      BY <3>2 DEF Scanned
  <2> HIDE DEF r, R
  <2> QED
    BY <2>1, <2>3, <2>4
<1> QED
  BY <1>1, <1>2

\* The last flush.
LEMMA SoftFlush ==
  ASSUME NEW x \in Seq(Symbol)
  PROVE  /\ Redact(x) = Soft(x).out \o Flushed(Soft(x).tail, TRUE).out
         /\ Flushed(Soft(x).tail, TRUE).out \in Seq(Alphabet)
<1>1. Soft(x).tail \in Seq(Symbol)
  BY SoftType
<1>2. Flushed(Soft(x).tail, TRUE) \in Scanned
  BY <1>1, FlushedType
<1>3. CASE Values = {}
  <2>1. Soft(x).tail = <<>> /\ Soft(x).out = x /\ Redact(x) = x
    BY <1>3 DEF Soft, Redact
  <2>2. Flushed(<<>>, TRUE).out = <<>>
    <3> DEFINE F == Scan(<<>>, TRUE)
    <3>1. <<>> \in Seq(Symbol) /\ Len(<<>>) = 0 /\ 0 + 1 = 1
      OBVIOUS
    <3>2. Goes(<<>>, TRUE, F)
      BY <3>1, ScanSteps
    <3>3. Flushed(<<>>, TRUE) = F[1]
      BY <3>1, ScanType
    <3> HIDE DEF F
    <3>4. F[1].out = <<>>
      BY <3>1, <3>2 DEF Goes
    <3> QED
      BY <3>3, <3>4
  <2>3. x \o <<>> = x
    BY ConcatEmptySeq
  <2> QED
    BY <1>2, <2>1, <2>2, <2>3 DEF Scanned
<1>4. CASE Values # {}
  <2>1. Soft(x) = Flushed(x, FALSE) /\ Redact(x) = Flushed(x, TRUE).out
    BY <1>4 DEF Soft, Redact
  <2> QED
    BY <1>2, <2>1, LastFlush DEF Scanned
<1> QED
  BY <1>3, <1>4

\* A log is not longer for a while than it will be.
LEMMA BeginsWith ==
  ASSUME NEW p \in Seq(Alphabet), NEW q \in Seq(Alphabet)
  PROVE  Begins(p, p \o q)
<1> DEFINE y == p \o q
           z == SubSeq(y, 1, Len(p))
<1>1. y \in Seq(Alphabet) /\ Len(y) = Len(p) + Len(q) /\ \A i \in 1 .. Len(p) : y[i] = p[i]
  OBVIOUS
<1>2. Len(p) \in Nat /\ Len(q) \in Nat
  OBVIOUS
<1> HIDE DEF y
<1>3. \A i \in 1 .. Len(p) : y[i] \in Alphabet
  BY <1>1
<1>4. /\ z \in Seq(Alphabet) /\ Len(z) = Len(p)
      /\ \A i \in 1 .. Len(p) : z[i] = y[i]
  BY <1>1, <1>2, <1>3, SubSeqProperties
<1> HIDE DEF z
<1>5. z = p
  BY <1>1, <1>4, SeqEqual
<1> QED
  BY <1>1, <1>2, <1>5 DEF Begins, y, z

\* What a log has at first it keeps.
LEMMA BeginsOccurs ==
  ASSUME NEW p \in Seq(Alphabet), NEW q \in Seq(Alphabet), Begins(p, q),
         NEW s \in Values, ~ Occurs(s, q)
  PROVE  ~ Occurs(s, p)
<1> SUFFICES ASSUME Occurs(s, p) PROVE FALSE
  OBVIOUS
<1>1. s \in Seq(Symbol) /\ Len(s) \in Nat \ {0}
  BY ValuesAre
<1>2. PICK i \in 1 .. Len(p) : StartsAt(s, p, i)
  BY DEF Occurs
<1>3. i + Len(s) - 1 <= Len(p)
  BY <1>2 DEF StartsAt
<1>4. Len(p) <= Len(q) /\ p = SubSeq(q, 1, Len(p)) /\ Len(p) \in Nat /\ Len(q) \in Nat
  BY DEF Begins
<1>5. ASSUME NEW j \in 1 .. Len(p) PROVE q[j] = p[j]
  <2>1. \A k \in 1 .. Len(p) : q[k] \in Alphabet
    BY <1>4
  <2>2. SubSeq(q, 1, Len(p))[j] = q[j]
    BY <1>4, <2>1, SubSeqProperties
  <2> QED
    BY <1>4, <2>2
<1>6. StartsAt(s, q, i)
  BY <1>1, <1>2, <1>3, <1>4, <1>5, StartsAtLocal
<1>7. i \in 1 .. Len(q)
  BY <1>4
<1> QED
  BY <1>6, <1>7 DEF Occurs

\* The whole output, scrubbed at once, has no value in it.
LEMMA Redacted ==
  ASSUME NEW x \in Seq(Symbol)
  PROVE  /\ Redact(x) \in Seq(Alphabet)
         /\ \A s \in Values : ~ Occurs(s, Redact(x))
<1>1. Flushed(x, TRUE).out \in Seq(Alphabet)
  BY FlushedType DEF Scanned
<1>2. \A s \in Values : ~ Occurs(s, Flushed(x, TRUE).out)
  BY NoValueFlushed
<1> QED
  BY <1>1, <1>2, TextIsLog DEF Redact

-----------------------------------------------------------------------------
(* What the steps do to the file.                                          *)

\* A write through the descriptor goes to the end of the only part.
LEMMA OutputDoes ==
  ASSUME States, FileInv, worker = "writing", NEW x \in Seq(Alphabet), Output(x)
  PROVE  /\ file' \in [there : BOOLEAN, parts : Seq(Seq(Alphabet))]
         /\ file'.there = file.there
         /\ ~ file.there => file' = file
         /\ file.there => /\ Len(file.parts) = 1 /\ file.parts[1] \in Seq(Alphabet)
                          /\ Len(file'.parts) = 1 /\ file'.parts[1] = file.parts[1] \o x
<1>1. file \in [there : BOOLEAN, parts : Seq(Seq(Alphabet))]
  BY DEF States
<1>2. CASE ~ file.there
  BY <1>1, <1>2 DEF Output
<1>3. CASE file.there
  <2>1. Len(file.parts) = 1 /\ file.parts \in Seq(Seq(Alphabet))
    BY <1>1, <1>3 DEF FileInv
  <2>2. file.parts[1] \in Seq(Alphabet)
    BY <2>1, LenProperties
  <2>3. file.parts[1] \o x \in Seq(Alphabet)
    BY <2>2, ConcatProperties
  <2> DEFINE p == [file.parts EXCEPT ![1] = file.parts[1] \o x]
  <2>4. p \in Seq(Seq(Alphabet)) /\ Len(p) = 1 /\ p[1] = file.parts[1] \o x
    BY <2>1, <2>3
  <2> HIDE DEF p
  <2>5. file' = [file EXCEPT !.parts = p]
    BY <1>3 DEF Output, p
  <2>6. file' \in [there : BOOLEAN, parts : Seq(Seq(Alphabet))] /\ file'.parts = p
        /\ file'.there = file.there
    BY <1>1, <2>4, <2>5
  <2> QED
    BY <1>3, <2>1, <2>2, <2>4, <2>6
<1> QED
  BY <1>2, <1>3

\* An appended line is a part of its own, without a secret.
LEMMA LineDoes ==
  ASSUME States, NEW line \in Seq(Alphabet), AppendLine(line)
  PROVE  /\ ~ file.there => file' = file
         /\ file.there =>
              \E x \in Seq(Alphabet) :
                /\ \A s \in Values : ~ Occurs(s, x)
                /\ file' \in [there : BOOLEAN, parts : Seq(Seq(Alphabet))]
                /\ file'.there /\ file'.parts = Append(file.parts, x)
<1>1. file \in [there : BOOLEAN, parts : Seq(Seq(Alphabet))]
  BY DEF States
<1>2. PICK x \in Scrub(line) :
        file' = IF file.there THEN [file EXCEPT !.parts = Append(@, x)] ELSE file
  BY DEF AppendLine
<1>3. x \in Seq(Alphabet) /\ \A s \in Values : ~ Occurs(s, x)
  BY Scrubbed
<1>4. CASE ~ file.there
  BY <1>2, <1>4
<1>5. CASE file.there
  <2> DEFINE p == Append(file.parts, x)
  <2>1. p \in Seq(Seq(Alphabet))
    BY <1>1, <1>3, AppendProperties
  <2>2. file' = [file EXCEPT !.parts = p]
    BY <1>2, <1>5
  <2> HIDE DEF p
  <2>3. file' \in [there : BOOLEAN, parts : Seq(Seq(Alphabet))] /\ file'.parts = p
        /\ file'.there
    BY <1>1, <1>5, <2>1, <2>2
  <2> QED
    BY <1>3, <1>5, <2>3 DEF p
<1> QED
  BY <1>4, <1>5

\* Lines that are appended are texts of a log.
LEMMA LineTexts ==
  /\ \A line \in Lines : line \in Seq(Alphabet)
  /\ <<Promoted>> \in Seq(Alphabet)
<1>1. \A line \in Lines : line \in Seq(Alphabet)
  BY TextAssumption, TextIsLog
<1>2. Promoted \in Alphabet
  BY DEF Alphabet
<1> QED
  BY <1>1, <1>2

\* The steps that append a line to the file, or to nothing.
Appends ==
  \/ AppendLifecycle
  \/ Provisioned /\ worker' = "finishing"
  \/ FinishPromoted /\ worker' = "finishing"
  \/ AppendPromoted

\* The last steps of the worker that append nothing.
Closes ==
  \/ Provisioned /\ worker' # "finishing"
  \/ FinishPromoted /\ worker' # "finishing"
  \/ Finish

\* The first ones append a line.
LEMMA AppendsLine ==
  ASSUME Appends
  PROVE  \E line \in Seq(Alphabet) : AppendLine(line)
<1>1. CASE AppendLifecycle
  BY <1>1, LineTexts DEF AppendLifecycle
<1>2. CASE Provisioned /\ worker' = "finishing"
  BY <1>2, LineTexts DEF Provisioned
<1>3. CASE AppendPromoted
  BY <1>3, LineTexts DEF AppendPromoted
<1>4. CASE FinishPromoted /\ worker' = "finishing"
  BY <1>4, LineTexts DEF FinishPromoted
<1> QED
  BY <1>1, <1>2, <1>3, <1>4 DEF Appends

\* Chunks are texts.
LEMMA ChunkType == Chunks \subseteq Seq(Symbol)
BY LogAssumption DEF Chunks

\* A step is one of these.
Steps ==
  \/ Claim \/ CreateLog \/ Write \/ Flush \/ AppendLifecycle \/ Provisioned
  \/ Finish \/ FinishPromoted \/ AppendPromoted \/ Crash \/ Start
  \/ CleanList \/ CleanRows \/ CleanAbort \/ CleanFiles
  \/ \E r \in Reader : Open(r) \/ ReadFirst(r) \/ Poll(r) \/ ReadDelta(r)
  \/ UNCHANGED vars

\* It is.
LEMMA StepsAre == [Next]_vars => Steps
BY DEF Next, Work, Clean, Follow, Steps

\* What is read is a part of the log.
LEMMA TextType ==
  ASSUME States
  PROVE  /\ Text \in Seq(Alphabet)
         /\ file.parts = <<>> => Text = <<>>
<1>1. file.parts \in Seq(Seq(Alphabet))
  BY DEF States
<1>2. Text \in Seq(Alphabet)
  BY <1>1, FlatShort DEF Text
<1>3. file.parts = <<>> => Text = <<>>
  <2>1. file.parts = <<>> => Len(file.parts) = 0
    OBVIOUS
  <2> QED
    BY <1>1, <2>1, FlatShort DEF Text
<1> QED
  BY <1>2, <1>3

\* A beginning of a text and the rest of it are the text.
LEMMA BeginningAndRest ==
  ASSUME NEW x \in Seq(Alphabet), NEW n \in Nat, n <= Len(x)
  PROVE  SubSeq(x, 1, n) \o SubSeq(x, n + 1, Len(x)) = SubSeq(x, 1, Len(x))
<1> DEFINE p == SubSeq(x, 1, n)
           q == SubSeq(x, n + 1, Len(x))
           w == SubSeq(x, 1, Len(x))
<1>1. Len(x) \in Nat /\ \A i \in 1 .. Len(x) : x[i] \in Alphabet
  OBVIOUS
<1>2. p \in Seq(Alphabet) /\ Len(p) = n /\ \A i \in 1 .. n : p[i] = x[i]
  <2>1. \A i \in 1 .. n : x[i] \in Alphabet /\ 1 + i - 1 = i
    BY <1>1
  <2> QED
    BY <1>1, <2>1, SubSeqProperties
<1>3. /\ q \in Seq(Alphabet) /\ Len(q) = Len(x) - n
      /\ \A i \in 1 .. Len(x) - n : q[i] = x[i + n]
  <2>1. \A i \in n + 1 .. Len(x) : x[i] \in Alphabet
    BY <1>1
  <2>2. \A i \in 1 .. Len(x) - (n + 1) + 1 : n + 1 + i - 1 = i + n
    BY <1>1
  <2>3. /\ q \in Seq(Alphabet)
        /\ Len(q) = IF n + 1 <= Len(x) THEN Len(x) - (n + 1) + 1 ELSE 0
        /\ \A i \in 1 .. Len(x) - (n + 1) + 1 : q[i] = x[n + 1 + i - 1]
    BY <1>1, <2>1, SubSeqProperties
  <2> HIDE DEF q
  <2>4. Len(x) - (n + 1) + 1 = Len(x) - n
    BY <1>1
  <2>5. Len(q) = Len(x) - n
    BY <1>1, <2>3
  <2>6. \A i \in 1 .. Len(x) - n : q[i] = x[i + n]
    BY <2>2, <2>3, <2>4
  <2> QED
    BY <2>3, <2>5, <2>6
<1>4. w \in Seq(Alphabet) /\ Len(w) = Len(x) /\ \A i \in 1 .. Len(x) : w[i] = x[i]
  <2>1. w = x
    BY SubSeqFull
  <2> QED
    BY <2>1
<1> HIDE DEF p, q, w
<1>5. p \o q \in Seq(Alphabet) /\ Len(p \o q) = Len(x)
  BY <1>1, <1>2, <1>3, ConcatProperties
<1>6. ASSUME NEW i \in 1 .. Len(x) PROVE (p \o q)[i] = w[i]
  <2>1. CASE i <= n
    <3>1. (p \o q)[i] = p[i]
      BY <1>2, <1>3, <2>1, ConcatProperties
    <3>2. p[i] = x[i]
      BY <1>2, <2>1
    <3> QED
      BY <1>4, <3>1, <3>2
  <2>2. CASE ~ (i <= n)
    <3>1. i - n \in 1 .. Len(x) - n /\ (i - n) + n = i /\ i \in 1 .. Len(p) + Len(q)
          /\ ~ (i <= Len(p)) /\ i - Len(p) = i - n
      BY <1>1, <1>2, <1>3, <2>2
    <3>2. (p \o q)[i] = q[i - n]
      BY <1>2, <1>3, <3>1, ConcatProperties
    <3>3. q[i - n] = x[(i - n) + n]
      BY <1>3, <3>1
    <3> QED
      BY <1>4, <3>1, <3>2, <3>3
  <2> QED
    BY <2>1, <2>2
<1>7. p \o q = w
  BY <1>4, <1>5, <1>6, SeqEqual
<1> QED
  BY <1>7 DEF p, q, w

\* What a turn of a follower reads.
Reads(r) ==
  /\ Delta(r) \in Streams /\ Delta(r).pc = stream[r].pc /\ Delta(r).seen = stream[r].seen
  /\ ~ file.there => Delta(r) = stream[r]
  /\ file.there => Delta(r).offset = Len(Text)
  /\ file.there /\ stream[r].offset <= Len(Text)
       /\ stream[r].sent = SubSeq(Text, 1, stream[r].offset)
     => Delta(r).sent = SubSeq(Text, 1, Len(Text))

\* So it reads.
LEMMA DeltaDoes ==
  ASSUME States, NEW r \in Reader
  PROVE  Reads(r)
<1>1. stream[r] \in Streams /\ Text \in Seq(Alphabet)
  BY TextType DEF States
<1>2. CASE ~ file.there
  BY <1>1, <1>2 DEF Delta, Reads
<1>3. CASE file.there
  <2> DEFINE old == stream[r]
             o == From(old.offset)
             new == SubSeq(Text, o + 1, Len(Text))
             n == Len(Text)
  <2>1. n \in Nat /\ old.offset \in Nat /\ old.sent \in Seq(Alphabet)
    BY <1>1 DEF Streams
  <2>2. o \in Nat /\ (old.offset <= n => o = old.offset)
    BY <2>1 DEF From
  <2>3. new \in Seq(Alphabet)
    <3>1. \A i \in o + 1 .. n : Text[i] \in Alphabet
      <4> HIDE DEF o
      <4> QED
        BY <1>1, <2>2
    <3> HIDE DEF o
    <3> QED
      BY <2>1, <2>2, <3>1, SubSeqProperties
  <2>4. Delta(r) = [[old EXCEPT !.sent = old.sent \o new] EXCEPT !.offset = n]
    BY <1>3 DEF Delta
  <2> DEFINE sent == old.sent \o new
  <2>5. sent \in Seq(Alphabet)
    <3> HIDE DEF new, old
    <3> QED
      BY <2>1, <2>3, ConcatProperties
  <2> HIDE DEF new, o, n
  <2>6. /\ Delta(r) \in Streams /\ Delta(r).pc = old.pc /\ Delta(r).seen = old.seen
        /\ Delta(r).offset = n /\ Delta(r).sent = sent
    <3>1. Delta(r) = [[old EXCEPT !.sent = sent] EXCEPT !.offset = n]
      BY <2>4
    <3> HIDE DEF sent
    <3> QED
      BY <1>1, <2>1, <2>5, <3>1 DEF Streams
  <2>7. ASSUME old.offset <= n, old.sent = SubSeq(Text, 1, old.offset)
        PROVE  sent = SubSeq(Text, 1, n)
    <3>1. o = old.offset
      BY <2>2, <2>7
    <3>2. new = SubSeq(Text, old.offset + 1, n)
      BY <3>1 DEF new, n
    <3>3. SubSeq(Text, 1, old.offset) \o SubSeq(Text, old.offset + 1, n) = SubSeq(Text, 1, n)
      <4> DEFINE k == old.offset
                 x == Text
      <4> HIDE DEF k, x
      <4>1. x \in Seq(Alphabet) /\ k \in Nat /\ k <= Len(x)
        BY <1>1, <2>1, <2>7 DEF k, x, n
      <4>2. SubSeq(x, 1, k) \o SubSeq(x, k + 1, Len(x)) = SubSeq(x, 1, Len(x))
        BY <4>1, BeginningAndRest
      <4> QED
        BY <4>2 DEF k, x, n
    <3> QED
      BY <2>7, <3>2, <3>3
  <2> QED
    BY <1>3, <2>6, <2>7 DEF Reads, n
<1> QED
  BY <1>2, <1>3

\* The initial state.
LEMMA LogInit == Init => LogInv
<1> SUFFICES ASSUME Init PROVE LogInv
  OBVIOUS
<1>1. NoStream \in Streams
  BY DEF NoStream, Streams
<1>2. Len(<<>>) = 0 /\ 0 <= MaxInput
  BY LogAssumption
<1>3. States
  <2>1. file \in [there : BOOLEAN, parts : Seq(Seq(Alphabet))]
    <3>1. <<>> \in Seq(Seq(Alphabet))
      OBVIOUS
    <3> QED
      BY <3>1 DEF Init
  <2>2. stream \in [Reader -> Streams]
    BY <1>1 DEF Init
  <2>3. tail \in Seq(Symbol) /\ input \in Seq(Symbol) /\ Len(input) <= MaxInput
    BY <1>2 DEF Init
  <2> QED
    <3>1. /\ kind \in {"job", "run"} /\ row = "queued" /\ worker = "idle" /\ clean = "idle"
          /\ crashes = 0 /\ committed = 0
      BY DEF Init
    <3>2. path \in BOOLEAN /\ overlap \in BOOLEAN /\ refused \in BOOLEAN
      BY DEF Init
    <3> QED
      BY <2>1, <2>2, <2>3, <3>1, <3>2 DEF States
<1>4. RowInv
  BY DEF Init, RowInv
<1>5. FileInv
  <2>1. 2 .. Len(<<>>) = {}
    OBVIOUS
  <2> QED
    BY <2>1 DEF Init, FileInv
<1>6. FollowInv
  <2>1. Text = <<>>
    BY <1>3, TextType DEF Init
  <2>2. \A r \in Reader : stream[r] = NoStream
    BY DEF Init
  <2> QED
    <3>1. \A r \in Reader : /\ stream[r].pc = "none" /\ stream[r].seen = "queued"
                            /\ stream[r].offset = 0 /\ stream[r].sent = <<>>
      BY <2>2 DEF NoStream
    <3>2. ~ file.there /\ committed = 0 /\ Len(<<>>) = 0 /\ 0 <= 0
      BY DEF Init
    <3>3. DeliveredInOrder
      BY <3>2 DEF DeliveredInOrder
    <3>4. MissesOnlyLaterLines
      BY <3>1 DEF MissesOnlyLaterLines
    <3> QED
      BY <2>1, <3>1, <3>2, <3>3, <3>4 DEF FollowInv
<1>7. LeftInv
  BY DEF Init, LeftInv, Busy
<1> QED
  BY <1>3, <1>4, <1>5, <1>6, <1>7 DEF LogInv

-----------------------------------------------------------------------------
(* Types.                                                                  *)

Scalars ==
  /\ kind \in {"job", "run"}
  /\ row \in {"queued", "running", "done", "gone"}
  /\ path \in BOOLEAN
  /\ worker \in {"down", "idle", "claimed", "writing", "appending", "finishing", "promoted",
                "left"}
  /\ clean \in {"idle", "unlisted", "listed", "rows", "done"}
  /\ crashes \in 0 .. 1
  /\ committed \in Nat
  /\ overlap \in BOOLEAN /\ refused \in BOOLEAN

\* The variables that are no data.
LEMMA ScalarsStep == LogInv /\ Steps => Scalars'
<1> SUFFICES ASSUME LogInv, Steps PROVE Scalars'
  OBVIOUS
<1>1. Len(Text) \in Nat
  BY TextType DEF LogInv
<1>2. Scalars
  BY DEF LogInv, States, Scalars
<1>3. CASE Claim
  BY <1>2, <1>3 DEF Claim, Scalars, Busy
<1>4. CASE CreateLog
  <2>1. /\ UNCHANGED <<kind, path, clean, crashes, overlap>>
        /\ row' \in {row, "gone", "done"} /\ worker' \in {"writing", "idle", "left"}
        /\ committed' \in {committed, 0}
    BY <1>4 DEF CreateLog, Leave
  <2>2. refused' = refused \/ refused' = TRUE
    BY <1>4 DEF CreateLog, Leave
  <2>3. refused' \in BOOLEAN
    BY <1>2, <2>2 DEF Scalars
  <2> QED
    BY <1>2, <2>1, <2>3 DEF Scalars
<1>5. CASE Write
  BY <1>2, <1>5 DEF Write, Scalars
<1>6. CASE Flush
  BY <1>2, <1>6 DEF Flush, Scalars
<1>7. CASE AppendLifecycle
  BY <1>2, <1>7 DEF AppendLifecycle, Scalars
<1>8. CASE Provisioned
  BY <1>2, <1>8 DEF Provisioned, Scalars
<1>9. CASE Finish \/ FinishPromoted
  BY <1>1, <1>2, <1>9 DEF Finish, FinishPromoted, Commit, Leave, Scalars
<1>10. CASE AppendPromoted
  BY <1>2, <1>10 DEF AppendPromoted, Scalars
<1>11. CASE Crash
  <2>1. crashes' \in 0 .. 1
    BY <1>2, <1>11 DEF Crash, Scalars
  <2> QED
    BY <1>2, <1>11, <2>1 DEF Crash, Scalars
<1>12. CASE Start
  BY <1>1, <1>2, <1>12 DEF Start, Scalars
<1>13. CASE CleanList
  BY <1>2, <1>13 DEF CleanList, Scalars, workerVars, Busy
<1>14. CASE CleanRows
  BY <1>2, <1>14 DEF CleanRows, Scalars, workerVars, Busy
<1>15. CASE CleanAbort \/ CleanFiles
  BY <1>2, <1>15 DEF CleanAbort, CleanFiles, Scalars, workerVars
<1>16. CASE \E r \in Reader : Open(r) \/ ReadFirst(r) \/ Poll(r) \/ ReadDelta(r)
  BY <1>2, <1>16 DEF Open, ReadFirst, Poll, ReadDelta, Scalars, workerVars
<1>17. CASE UNCHANGED vars
  BY <1>2, <1>17 DEF vars, Scalars
<1> QED
  BY <1>3, <1>4, <1>5, <1>6, <1>7, <1>8, <1>9, <1>10, <1>11, <1>12, <1>13, <1>14, <1>15, <1>16,
     <1>17 DEF Steps

\* A write of the worker.
LEMMA WriteDoes ==
  ASSUME LogInv, Write
  PROVE  \E c \in Seq(Symbol) :
           /\ input' = input \o c /\ input' \in Seq(Symbol) /\ Len(input') <= MaxInput
           /\ tail' = Soft(input').tail
           /\ Output(Written(tail, c).out) /\ Written(tail, c).out \in Seq(Alphabet)
           /\ Soft(input').out = Soft(input).out \o Written(tail, c).out
<1>1. PICK c \in Chunks : LET w == Written(tail, c)
                          IN  /\ Len(input) + Len(c) <= MaxInput
                              /\ input' = input \o c
                              /\ tail' = w.tail
                              /\ Output(w.out)
  BY DEF Write
<1>2. input \in Seq(Symbol) /\ tail = Soft(input).tail
  BY DEF Write, LogInv, States, FileInv
<1>3. c \in Seq(Symbol)
  BY ChunkType
<1>4. input' \in Seq(Symbol) /\ Len(input') = Len(input) + Len(c)
  BY <1>1, <1>2, <1>3, TwoPieces
<1>5. /\ Soft(input').out = Soft(input).out \o Written(tail, c).out
      /\ Soft(input').tail = Written(tail, c).tail
      /\ Written(tail, c).out \in Seq(Alphabet)
  BY <1>1, <1>2, <1>3, SoftWrite
<1> QED
  BY <1>1, <1>3, <1>4, <1>5

\* A flush of the worker.
LEMMA FlushDoes ==
  ASSUME LogInv, Flush
  PROVE  \E x \in Seq(Alphabet) : Output(x) /\ Redact(input) = Soft(input).out \o x
<1>1. input \in Seq(Symbol) /\ tail = Soft(input).tail
  BY DEF Flush, LogInv, States, FileInv
<1>2. Output(Flushed(tail, TRUE).out)
  BY DEF Flush
<1>3. /\ Redact(input) = Soft(input).out \o Flushed(tail, TRUE).out
      /\ Flushed(tail, TRUE).out \in Seq(Alphabet)
  BY <1>1, SoftFlush
<1> QED
  BY <1>2, <1>3

\* What a follower's step does to its own record.
LEMMA FollowTypes ==
  ASSUME LogInv, NEW r \in Reader, Open(r) \/ ReadFirst(r) \/ Poll(r) \/ ReadDelta(r)
  PROVE  \E x \in Streams : stream' = [stream EXCEPT ![r] = x]
<1>1. stream[r] \in Streams /\ row \in {"queued", "running", "done", "gone"}
  BY DEF LogInv, States
<1>2. Reads(r)
  BY DeltaDoes DEF LogInv
<1>3. CASE Open(r)
  <2> DEFINE x == [[stream[r] EXCEPT !.pc = "first"] EXCEPT !.seen = row]
  <2>1. stream' = [stream EXCEPT ![r] = x] /\ row # "gone"
    BY <1>3 DEF Open, LogInv, States
  <2>2. x \in Streams
    BY <1>1, <2>1 DEF Streams
  <2> QED
    BY <2>1, <2>2
<1>4. CASE Poll(r)
  <2> DEFINE x == [[stream[r] EXCEPT !.pc = IF row = "gone" THEN "error" ELSE "read"]
                             EXCEPT !.seen = IF row = "gone" THEN stream[r].seen ELSE row]
  <2>1. stream' = [stream EXCEPT ![r] = x]
    BY <1>4 DEF Poll, LogInv, States
  <2>2. x \in Streams
    BY <1>1 DEF Streams
  <2> QED
    BY <2>1, <2>2
<1>5. CASE ReadFirst(r) \/ ReadDelta(r)
  <2> DEFINE x == [Delta(r) EXCEPT !.pc = IF stream[r].seen = "done" THEN "ended" ELSE "poll"]
  <2>1. stream' = [stream EXCEPT ![r] = x]
    BY <1>5 DEF ReadFirst, ReadDelta
  <2>2. x \in Streams
    <3>1. Delta(r) \in Streams
      BY <1>2 DEF Reads
    <3> QED
      BY <3>1 DEF Streams
  <2> QED
    BY <2>1, <2>2
<1> QED
  BY <1>3, <1>4, <1>5

\* The data.
LEMMA DataStep ==
  ASSUME LogInv, Steps
  PROVE  /\ file' \in [there : BOOLEAN, parts : Seq(Seq(Alphabet))]
         /\ tail' \in Seq(Symbol)
         /\ input' \in Seq(Symbol) /\ Len(input') <= MaxInput
         /\ stream' \in [Reader -> Streams]
<1>1. States /\ FileInv
  BY DEF LogInv
<1>2. /\ file \in [there : BOOLEAN, parts : Seq(Seq(Alphabet))]
      /\ tail \in Seq(Symbol)
      /\ input \in Seq(Symbol) /\ Len(input) <= MaxInput
      /\ stream \in [Reader -> Streams]
  BY DEF LogInv, States
<1>3. CASE CreateLog
  <2>1. <<<<>>>> \in Seq(Seq(Alphabet)) /\ <<>> \in Seq(Seq(Alphabet))
    OBVIOUS
  <2>2. file' \in [there : BOOLEAN, parts : Seq(Seq(Alphabet))]
    <3> DEFINE e == <<<<>>>>
    <3>1. file' = [there |-> TRUE, parts |-> e] \/ file' = file
      BY <1>3 DEF CreateLog
    <3>2. e \in Seq(Seq(Alphabet))
      BY <2>1
    <3> HIDE DEF e
    <3>3. CASE file' = [there |-> TRUE, parts |-> e]
      BY <3>2, <3>3
    <3>4. CASE file' = file
      BY <1>2, <3>4
    <3> QED
      BY <3>1, <3>3, <3>4
  <2> QED
    BY <1>2, <1>3, <2>2 DEF CreateLog
<1>4. CASE Write
  <2>1. PICK c \in Seq(Symbol) :
           /\ input' \in Seq(Symbol) /\ Len(input') <= MaxInput
           /\ tail' = Soft(input').tail
           /\ Output(Written(tail, c).out) /\ Written(tail, c).out \in Seq(Alphabet)
    BY <1>4, WriteDoes
  <2>2. file' \in [there : BOOLEAN, parts : Seq(Seq(Alphabet))]
    <3>1. worker = "writing"
      BY <1>4 DEF Write
    <3> QED
      BY <1>1, <2>1, <3>1, OutputDoes
  <2>3. tail' \in Seq(Symbol)
    BY <2>1, SoftType
  <2> QED
    BY <1>2, <1>4, <2>1, <2>2, <2>3 DEF Write
<1>5. CASE Flush
  <2>1. PICK x \in Seq(Alphabet) : Output(x)
    BY <1>5, FlushDoes
  <2>2. file' \in [there : BOOLEAN, parts : Seq(Seq(Alphabet))]
    <3>1. worker = "writing"
      BY <1>5 DEF Flush
    <3> QED
      BY <1>1, <2>1, <3>1, OutputDoes
  <2> QED
    BY <1>2, <1>5, <2>2 DEF Flush
<1>6. CASE Appends
  <2>1. PICK line \in Seq(Alphabet) : AppendLine(line)
    BY <1>6, AppendsLine
  <2>2. file' \in [there : BOOLEAN, parts : Seq(Seq(Alphabet))]
    BY <1>1, <1>2, <2>1, LineDoes
  <2> QED
    BY <1>2, <1>6, <2>2
    DEF Appends, AppendLifecycle, Provisioned, FinishPromoted, AppendPromoted
<1>7. CASE Crash
  <2>1. stream' \in [Reader -> Streams]
    <3>1. ASSUME NEW r \in Reader
          PROVE  (IF stream[r].pc \in {"first", "poll", "read"}
                  THEN [stream[r] EXCEPT !.pc = "broken"] ELSE stream[r]) \in Streams
      <4>1. stream[r] \in Streams
        BY <1>2
      <4> QED
        BY <4>1 DEF Streams
    <3> QED
      BY <1>7, <3>1 DEF Crash
  <2>2. <<>> \in Seq(Symbol)
    OBVIOUS
  <2> QED
    BY <1>2, <1>7, <2>1, <2>2 DEF Crash
<1>8. CASE CleanFiles
  <2>1. <<>> \in Seq(Seq(Alphabet))
    OBVIOUS
  <2>2. file' \in [there : BOOLEAN, parts : Seq(Seq(Alphabet))]
    BY <1>8, <2>1 DEF CleanFiles
  <2> QED
    BY <1>2, <1>8, <2>2 DEF CleanFiles, workerVars
<1>9. CASE \E r \in Reader : Open(r) \/ ReadFirst(r) \/ Poll(r) \/ ReadDelta(r)
  <2>1. PICK r \in Reader : Open(r) \/ ReadFirst(r) \/ Poll(r) \/ ReadDelta(r)
    BY <1>9
  <2>2. PICK x \in Streams : stream' = [stream EXCEPT ![r] = x]
    BY <2>1, FollowTypes
  <2>3. stream' \in [Reader -> Streams]
    BY <1>2, <2>2
  <2> QED
    BY <1>2, <2>1, <2>3 DEF Open, ReadFirst, Poll, ReadDelta, workerVars
<1>10. CASE UNCHANGED <<file, tail, input, stream>>
  BY <1>2, <1>10
<1>11. CASE Claim \/ Closes \/ Start
            \/ CleanList \/ CleanRows \/ CleanAbort \/ UNCHANGED vars
  <2>1. UNCHANGED <<file, tail, input, stream>>
    BY <1>11 DEF Claim, Closes, Provisioned, Finish, FinishPromoted, Commit, Leave, Start, CleanList, CleanRows,
                 CleanAbort, vars, workerVars
  <2> QED
    BY <1>10, <2>1
<1> QED
  BY <1>3, <1>4, <1>5, <1>6, <1>7, <1>8, <1>9, <1>11 DEF Steps, Appends, Closes

\* The types are kept.
LEMMA StatesStep == LogInv /\ Steps => States'
<1> SUFFICES ASSUME LogInv, Steps PROVE States'
  OBVIOUS
<1>1. Scalars'
  BY ScalarsStep
<1> QED
  BY <1>1, DataStep DEF Scalars, States

-----------------------------------------------------------------------------
(* The row, and the file.                                                  *)

\* RowInv is kept.
LEMMA RowStep == LogInv /\ Steps => RowInv'
<1> SUFFICES ASSUME LogInv, Steps PROVE RowInv'
  OBVIOUS
<1> USE DEF RowInv
<1>1. RowInv /\ row \in {"queued", "running", "done", "gone"}
  BY DEF LogInv, States
<1>2. CASE Claim
  BY <1>1, <1>2 DEF Claim
<1>3. CASE CreateLog
  BY <1>1, <1>3 DEF CreateLog, Leave
<1>4. CASE Write \/ Flush
  BY <1>1, <1>4 DEF Write, Flush
<1>5. CASE AppendLifecycle \/ Provisioned
  BY <1>1, <1>5 DEF AppendLifecycle, Provisioned
<1>6. CASE Finish \/ FinishPromoted \/ AppendPromoted
  BY <1>1, <1>6 DEF Finish, FinishPromoted, AppendPromoted, Commit, Leave
<1>7. CASE Crash
  BY <1>1, <1>7 DEF Crash
<1>8. CASE Start
  BY <1>1, <1>8 DEF Start
<1>9. CASE CleanList \/ CleanRows \/ CleanAbort \/ CleanFiles
  BY <1>1, <1>9 DEF CleanList, CleanRows, CleanAbort, CleanFiles, workerVars
<1>10. CASE \E r \in Reader : Open(r) \/ ReadFirst(r) \/ Poll(r) \/ ReadDelta(r)
  BY <1>1, <1>10 DEF Open, ReadFirst, Poll, ReadDelta, workerVars
<1>11. CASE UNCHANGED vars
  BY <1>1, <1>11 DEF vars
<1> QED
  BY <1>2, <1>3, <1>4, <1>5, <1>6, <1>7, <1>8, <1>9, <1>10, <1>11 DEF Steps

\* A file that was opened once.
LEMMA OnePart ==
  ASSUME NEW p, Len(p) = 1
  PROVE  p # <<>> /\ 2 .. Len(p) = {}
<1>1. Len(<<>>) = 0
  OBVIOUS
<1>2. p # <<>>
  <2> SUFFICES ASSUME p = <<>> PROVE FALSE
    OBVIOUS
  <2>1. Len(p) = Len(<<>>)
    OBVIOUS
  <2> QED
    BY <1>1, <2>1
<1>3. 2 .. 1 = {}
  OBVIOUS
<1> QED
  BY <1>2, <1>3

\* A step that writes nothing.
FileQuiet ==
  /\ UNCHANGED <<file, input>>
  /\ \/ worker' = worker /\ tail' = tail
     \/ worker' # "writing" /\ tail' = <<>>
  /\ worker' \in {"appending", "finishing", "promoted"} =>
       worker \in {"appending", "finishing", "promoted"}
  /\ row' = "queued" \/ worker' = "claimed" => row = "queued" \/ worker = "claimed"

\* It keeps FileInv.
LEMMA QuietFile == FileInv /\ FileQuiet => FileInv'
<1> SUFFICES ASSUME FileInv, FileQuiet PROVE FileInv'
  OBVIOUS
<1>1. file' = file /\ input' = input
  BY DEF FileQuiet
<1>2. CASE worker' = worker /\ tail' = tail
  BY <1>1, <1>2 DEF FileQuiet, FileInv
<1>3. CASE worker' # "writing" /\ tail' = <<>>
  BY <1>1, <1>3 DEF FileQuiet, FileInv
<1> QED
  BY <1>2, <1>3 DEF FileQuiet

\* The steps that are quiet.
LEMMA QuietSteps ==
  ASSUME LogInv,
         \/ Claim \/ Closes \/ Crash
         \/ Start \/ CleanList \/ CleanRows \/ CleanAbort \/ UNCHANGED vars
         \/ \E r \in Reader : Open(r) \/ ReadFirst(r) \/ Poll(r) \/ ReadDelta(r)
  PROVE  FileQuiet
<1> USE DEF FileQuiet
<1>0. /\ RowInv /\ (worker # "writing" => tail = <<>>)
      /\ row \in {"queued", "running", "done", "gone"}
  BY DEF LogInv, FileInv, States
<1>1. CASE Claim
  BY <1>0, <1>1 DEF Claim
<1>2. CASE Provisioned /\ worker' # "finishing"
  BY <1>0, <1>2 DEF Provisioned, RowInv
<1>3. CASE Finish
  BY <1>0, <1>3 DEF Finish, Commit, Leave, RowInv
<1>9. CASE FinishPromoted /\ worker' # "finishing"
  BY <1>0, <1>9 DEF FinishPromoted, Commit, RowInv
<1>4. CASE Crash
  BY <1>0, <1>4 DEF Crash
<1>5. CASE Start
  BY <1>0, <1>5 DEF Start
<1>6. CASE CleanList \/ CleanRows \/ CleanAbort
  BY <1>0, <1>6 DEF CleanList, CleanRows, CleanAbort, workerVars
<1>7. CASE UNCHANGED vars
  BY <1>0, <1>7 DEF vars
<1>8. CASE \E r \in Reader : Open(r) \/ ReadFirst(r) \/ Poll(r) \/ ReadDelta(r)
  BY <1>0, <1>8 DEF Open, ReadFirst, Poll, ReadDelta, workerVars
<1> QED
  BY <1>1, <1>2, <1>3, <1>4, <1>5, <1>6, <1>7, <1>8, <1>9 DEF Closes

\* FileInv is kept.
LEMMA FileStep == LogInv /\ Steps => FileInv'
<1> SUFFICES ASSUME LogInv, Steps PROVE FileInv'
  OBVIOUS
<1>1. States /\ RowInv /\ FileInv
  BY DEF LogInv
<1>2. file' \in [there : BOOLEAN, parts : Seq(Seq(Alphabet))]
  BY DataStep
<1>3. file \in [there : BOOLEAN, parts : Seq(Seq(Alphabet))] /\ input \in Seq(Symbol)
  BY <1>1 DEF States
<1>4. CASE CreateLog
  <2>1. worker = "claimed" /\ tail = <<>> /\ input = <<>> /\ ~ file.there /\ row # "queued"
    BY <1>1, <1>4 DEF CreateLog, FileInv, RowInv
  <2>2. input' = <<>> /\ tail' = <<>>
    BY <1>4, <2>1 DEF CreateLog
  <2>3. CASE file' = [there |-> TRUE, parts |-> <<<<>>>>] /\ worker' = "writing"
             /\ UNCHANGED <<row, committed, refused>>
    <3>1. file'.there /\ file'.parts # <<>> /\ Len(file'.parts) = 1 /\ file'.parts[1] = <<>>
      <4> DEFINE e == <<<<>>>>
      <4>1. e # <<>> /\ Len(e) = 1 /\ e[1] = <<>>
        OBVIOUS
      <4>2. file' = [there |-> TRUE, parts |-> e]
        BY <2>3
      <4> HIDE DEF e
      <4>3. file'.there
        BY <2>3, Zenon
      <4>4. file'.parts = e
        BY <4>2
      <4> QED
        BY <4>1, <4>3, <4>4, Zenon
    <3>2. Begins(<<>>, Redact(<<>>))
      <4>0. <<>> \in Seq(Symbol) /\ Len(<<>>) = 0
        OBVIOUS
      <4>1. Redact(<<>>) \in Seq(Alphabet) /\ Len(<<>>) = 0
        BY <4>0, Redacted
      <4>2. SubSeq(Redact(<<>>), 1, 0) = <<>>
        BY SubSeqEmpty
      <4>3. 0 <= Len(Redact(<<>>))
        BY <4>1
      <4> QED
        BY <4>1, <4>2, <4>3 DEF Begins
    <3>3. 2 .. Len(file'.parts) = {}
      BY <3>1
    <3> QED
      BY <2>1, <2>2, <2>3, <3>1, <3>2, <3>3, SoftStart DEF FileInv
  <2>4. CASE worker' \in {"idle", "left"} /\ row' # "queued" /\ file' = file
    BY <1>1, <2>1, <2>2, <2>4 DEF FileInv
  <2>5. CASE worker' = "idle" /\ row' = (IF row = "gone" THEN "gone" ELSE "done") /\ file' = file
    BY <2>4, <2>5
  <2>6. CASE Leave /\ file' = file
    BY <2>1, <2>4, <2>6 DEF Leave
  <2> QED
    BY <1>4, <2>3, <2>5, <2>6 DEF CreateLog
<1>5. CASE Write
  <2>0. worker = "writing" /\ worker' = "writing" /\ row' = row /\ row # "queued"
    BY <1>1, <1>5 DEF Write, RowInv
  <2>1. PICK c \in Seq(Symbol) :
           /\ input' \in Seq(Symbol)
           /\ tail' = Soft(input').tail
           /\ Output(Written(tail, c).out) /\ Written(tail, c).out \in Seq(Alphabet)
           /\ Soft(input').out = Soft(input).out \o Written(tail, c).out
    BY <1>5, WriteDoes
  <2> DEFINE x == Written(tail, c).out
  <2>2. /\ file'.there = file.there
        /\ ~ file.there => file' = file
        /\ file.there => Len(file'.parts) = 1 /\ file'.parts[1] = file.parts[1] \o x
    <3> HIDE DEF x
    <3>1. x \in Seq(Alphabet) /\ Output(x)
      BY <2>1 DEF x
    <3> QED
      BY <1>1, <2>0, <3>1, OutputDoes
  <2>3. file.there => file'.parts[1] = Soft(input').out
    BY <1>1, <2>0, <2>1, <2>2 DEF FileInv
  <2>4. Begins(Soft(input').out, Redact(input'))
    <3>1. Soft(input').out \in Seq(Alphabet)
      BY <2>1, SoftType
    <3>2. /\ Redact(input') = Soft(input').out \o Flushed(Soft(input').tail, TRUE).out
          /\ Flushed(Soft(input').tail, TRUE).out \in Seq(Alphabet)
      BY <2>1, SoftFlush
    <3> QED
      BY <3>1, <3>2, BeginsWith
  <2>5. file.there => file'.parts # <<>> /\ 2 .. Len(file'.parts) = {}
    BY <2>2, OnePart
  <2> HIDE DEF x
  <2>6. CASE file.there
    BY <2>0, <2>1, <2>2, <2>3, <2>4, <2>5, <2>6 DEF FileInv
  <2>7. CASE ~ file.there
    BY <1>1, <2>0, <2>1, <2>2, <2>7 DEF FileInv
  <2> QED
    BY <2>6, <2>7
<1>6. CASE Flush
  <2>0. worker = "writing" /\ worker' \in {"appending", "finishing"} /\ row' = row
        /\ row # "queued" /\ tail' = <<>> /\ input' = input
    BY <1>1, <1>6 DEF Flush, RowInv
  <2>1. PICK x \in Seq(Alphabet) : Output(x) /\ Redact(input) = Soft(input).out \o x
    BY <1>6, FlushDoes
  <2>2. /\ file'.there = file.there
        /\ ~ file.there => file' = file
        /\ file.there => Len(file'.parts) = 1 /\ file'.parts[1] = file.parts[1] \o x
    BY <1>1, <2>0, <2>1, OutputDoes
  <2>3. file.there => file'.parts[1] = Redact(input)
    BY <1>1, <2>0, <2>1, <2>2 DEF FileInv
  <2>4. Begins(Redact(input), Redact(input))
    <3> DEFINE y == Redact(input)
    <3>1. y \in Seq(Alphabet)
      BY <1>3, Redacted
    <3> HIDE DEF y
    <3>2. SubSeq(y, 1, Len(y)) = y /\ Len(y) <= Len(y)
      BY <3>1, SubSeqFull
    <3> QED
      BY <3>2 DEF Begins, y
  <2>5. file.there => file'.parts # <<>> /\ 2 .. Len(file'.parts) = {}
    BY <2>2, OnePart
  <2>6. CASE file.there
    BY <2>0, <2>2, <2>3, <2>4, <2>5, <2>6 DEF FileInv
  <2>7. CASE ~ file.there
    BY <1>1, <2>0, <2>2, <2>7 DEF FileInv
  <2> QED
    BY <2>6, <2>7
<1>7. CASE Appends
  <2>0. /\ worker \in {"appending", "promoted"} /\ worker' \in {"appending", "finishing", "idle"}
        /\ row' = row /\ row # "queued" /\ tail' = <<>> /\ input' = input
    BY <1>1, <1>7 
    DEF Appends, AppendLifecycle, Provisioned, FinishPromoted, AppendPromoted, RowInv, FileInv
  <2>1. PICK line \in Seq(Alphabet) : AppendLine(line)
    BY <1>7, AppendsLine
  <2>2. CASE ~ file.there
    <3>1. file' = file
      BY <1>1, <2>1, <2>2, LineDoes
    <3> QED
      BY <1>1, <2>0, <2>2, <3>1 DEF FileInv
  <2>3. CASE file.there
    <3>1. PICK x \in Seq(Alphabet) : /\ \A s \in Values : ~ Occurs(s, x)
                                     /\ file'.there /\ file'.parts = Append(file.parts, x)
      BY <1>1, <2>1, <2>3, LineDoes
    <3> DEFINE p == file.parts
               q == file'.parts
    <3>2. p \in Seq(Seq(Alphabet)) /\ p # <<>>
      BY <1>1, <1>3, <2>3 DEF FileInv
    <3> HIDE DEF p, q
    <3>3. /\ Len(p) \in Nat \ {0} /\ Len(q) = Len(p) + 1 /\ q # <<>>
          /\ \A i \in 1 .. Len(p) : q[i] = p[i]
          /\ q[Len(p) + 1] = x
      <4>1. q = Append(p, x)
        BY <3>1 DEF p, q
      <4>2. Len(p) \in Nat \ {0}
        BY <3>2
      <4>3. /\ Len(q) = Len(p) + 1 /\ \A i \in 1 .. Len(p) : q[i] = p[i]
            /\ q[Len(p) + 1] = x
        BY <3>2, <4>1, AppendProperties
      <4>4. q # <<>>
        <5>1. Len(<<>>) = 0
          OBVIOUS
        <5> QED
          BY <4>2, <4>3, <5>1
      <4> QED
        BY <4>2, <4>3, <4>4
    <3>4. q[1] = p[1]
      BY <3>3
    <3>5. ASSUME NEW i \in 2 .. Len(q), NEW s \in Values PROVE ~ Occurs(s, q[i])
      <4>1. CASE i = Len(p) + 1
        BY <3>1, <3>3, <4>1
      <4>2. CASE i # Len(p) + 1
        <5>1. i \in 2 .. Len(p) /\ q[i] = p[i]
          BY <3>3, <4>2
        <5> QED
          BY <1>1, <5>1 DEF FileInv, p
      <4> QED
        BY <4>1, <4>2
    <3>6. /\ worker' \in {"appending", "finishing", "promoted"} => q[1] = Redact(input)
          /\ Begins(q[1], Redact(input))
      <4>1. p[1] = Redact(input) /\ Begins(p[1], Redact(input))
        BY <1>1, <2>0, <2>3 DEF FileInv, p
      <4> QED
        BY <3>4, <4>1
    <3> QED
      BY <2>0, <3>1, <3>3, <3>5, <3>6 DEF FileInv, q
  <2> QED
    BY <2>2, <2>3
<1>8. CASE CleanFiles
  <2>1. UNCHANGED <<row, worker, tail, input>> /\ ~ file'.there /\ file'.parts = <<>>
    BY <1>8 DEF CleanFiles, workerVars
  <2>2. 2 .. Len(<<>>) = {}
    OBVIOUS
  <2> QED
    BY <1>1, <2>1, <2>2 DEF FileInv
<1>9. CASE \/ Claim \/ Closes \/ Crash
           \/ Start \/ CleanList \/ CleanRows \/ CleanAbort \/ UNCHANGED vars
           \/ \E r \in Reader : Open(r) \/ ReadFirst(r) \/ Poll(r) \/ ReadDelta(r)
  BY <1>1, <1>9, QuietSteps, QuietFile
<1> QED
  BY <1>4, <1>5, <1>6, <1>7, <1>8, <1>9 DEF Steps, Appends, Closes

-----------------------------------------------------------------------------
(* The followers.                                                          *)

\* A step that no follower takes: what it may do to the file, to the row and to the history.
TextGrows == file.there /\ file'.there => \E x \in Seq(Alphabet) : Text' = Text \o x
FollowQuiet ==
  /\ \A r \in Reader : /\ stream'[r].seen = stream[r].seen
                       /\ stream'[r].offset = stream[r].offset
                       /\ stream'[r].sent = stream[r].sent
                       /\ stream'[r].pc = "ended" => stream[r].pc = "ended"
  /\ TextGrows
  /\ file'.there /\ ~ file.there => worker = "claimed"
  /\ clean' = "idle" =>
       /\ clean = "idle" /\ committed' <= Len(Text')
       /\ committed' = committed \/ row \notin {"done", "gone"}
  /\ row' = "queued" \/ worker' = "claimed" => row = "queued" \/ worker = "claimed"
  /\ row \in {"done", "gone"} => row' \in {"done", "gone"}

\* A beginning stays one when the text grows.
LEMMA BeginningStays ==
  ASSUME NEW x \in Seq(Alphabet), NEW y \in Seq(Alphabet), NEW n \in Nat, n <= Len(x)
  PROVE  n <= Len(x \o y) /\ SubSeq(x \o y, 1, n) = SubSeq(x, 1, n)
<1> DEFINE z == x \o y
           p == SubSeq(x, 1, n)
           q == SubSeq(z, 1, n)
<1>1. z \in Seq(Alphabet) /\ Len(z) = Len(x) + Len(y) /\ \A i \in 1 .. Len(x) : z[i] = x[i]
  OBVIOUS
<1>2. Len(x) \in Nat /\ Len(y) \in Nat /\ \A i \in 1 .. n : x[i] \in Alphabet /\ i \in 1 .. Len(x)
  OBVIOUS
<1>3. p \in Seq(Alphabet) /\ Len(p) = n /\ \A i \in 1 .. n : p[i] = x[i]
  <2>1. \A i \in 1 .. n : 1 + i - 1 = i
    OBVIOUS
  <2> QED
    BY <1>2, <2>1, SubSeqProperties
<1> HIDE DEF z
<1>4. q \in Seq(Alphabet) /\ Len(q) = n /\ \A i \in 1 .. n : q[i] = z[i]
  <2>1. \A i \in 1 .. n : z[i] \in Alphabet /\ 1 + i - 1 = i
    BY <1>1, <1>2
  <2> QED
    BY <1>2, <2>1, SubSeqProperties
<1> HIDE DEF p, q
<1>5. \A i \in 1 .. n : p[i] = q[i]
  BY <1>1, <1>2, <1>3, <1>4
<1>6. p = q
  BY <1>3, <1>4, <1>5, SeqEqual
<1> QED
  BY <1>1, <1>2, <1>6 DEF p, q, z

\* Such a step keeps FollowInv.
LEMMA QuietFollow ==
  ASSUME LogInv, States', FollowQuiet
  PROVE  FollowInv'
<1>1. FollowInv /\ States /\ FileInv
  BY DEF LogInv
<1>2. \A r \in Reader : stream[r] \in Streams /\ stream'[r] \in Streams
  BY <1>1 DEF States
<1>3. Text \in Seq(Alphabet)
  BY <1>1, TextType
<1>4. ASSUME row' = "queued" \/ worker' = "claimed", NEW r \in Reader
      PROVE  stream'[r].offset = 0 /\ stream'[r].sent = <<>>
  BY <1>1, <1>4 DEF FollowInv, FollowQuiet
<1>5. ASSUME NEW r \in Reader, file'.there
      PROVE  stream'[r].offset <= Len(Text') /\ stream'[r].sent = SubSeq(Text', 1, stream'[r].offset)
  <2>1. stream'[r].offset = stream[r].offset /\ stream'[r].sent = stream[r].sent
    BY DEF FollowQuiet
  <2>2. CASE file.there
    <3>1. /\ stream[r].offset <= Len(Text) /\ stream[r].sent = SubSeq(Text, 1, stream[r].offset)
          /\ stream[r].offset \in Nat
      BY <1>1, <1>2, <2>2 DEF FollowInv, DeliveredInOrder, Streams
    <3>2. PICK x \in Seq(Alphabet) : Text' = Text \o x
      BY <1>5, <2>2 DEF FollowQuiet, TextGrows
    <3> DEFINE n == stream[r].offset
               t == Text
               u == Text'
    <3>3. n \in Nat /\ t \in Seq(Alphabet) /\ n <= Len(t) /\ u = t \o x
      BY <1>3, <3>1, <3>2
    <3> HIDE DEF n, t, u
    <3>4. n <= Len(u) /\ SubSeq(u, 1, n) = SubSeq(t, 1, n)
      BY <3>3, BeginningStays
    <3> QED
      BY <2>1, <3>1, <3>4 DEF n, t, u
  <2>3. CASE ~ file.there
    <3>1. worker = "claimed"
      BY <1>5, <2>3 DEF FollowQuiet
    <3>2. stream[r].offset = 0 /\ stream[r].sent = <<>>
      BY <1>1, <3>1 DEF FollowInv
    <3>3. Text' \in Seq(Alphabet)
      <4>1. file'.parts \in Seq(Seq(Alphabet))
        BY DEF States
      <4> QED
        BY <4>1, FlatShort DEF Text
    <3> DEFINE u == Text'
    <3>4. 0 <= Len(u) /\ SubSeq(u, 1, 0) = <<>>
      <4> HIDE DEF u
      <4>1. u \in Seq(Alphabet)
        BY <3>3 DEF u
      <4> QED
        BY <4>1, SubSeqEmpty
    <3> HIDE DEF u
    <3> QED
      BY <2>1, <3>2, <3>4 DEF u
  <2> QED
    BY <2>2, <2>3
<1>6. clean' = "idle" => committed' <= Len(Text')
  BY DEF FollowQuiet
<1>7. ASSUME NEW r \in Reader, stream'[r].seen = "done"
      PROVE  row' \in {"done", "gone"}
  BY <1>1, <1>7 DEF FollowInv, FollowQuiet
<1>8. ASSUME NEW r \in Reader, stream'[r].pc = "ended"
      PROVE  stream'[r].seen = "done" /\ (stream'[r].offset >= committed' \/ clean' # "idle")
  <2>1. stream[r].pc = "ended" /\ stream[r].seen = "done" /\ row \in {"done", "gone"}
    BY <1>1, <1>8 DEF FollowInv, FollowQuiet
  <2>2. stream[r].offset >= committed \/ clean # "idle"
    BY <1>1, <2>1 DEF FollowInv, MissesOnlyLaterLines
  <2>3. stream'[r].offset = stream[r].offset /\ stream'[r].seen = "done"
    BY <2>1 DEF FollowQuiet
  <2>4. clean' = "idle" => clean = "idle" /\ committed' = committed
    BY <2>1 DEF FollowQuiet
  <2> QED
    BY <2>2, <2>3, <2>4
<1>9. DeliveredInOrder'
  BY <1>5 DEF DeliveredInOrder
<1>10. MissesOnlyLaterLines'
  BY <1>8 DEF MissesOnlyLaterLines
<1> QED
  BY <1>4, <1>6, <1>7, <1>8, <1>9, <1>10 DEF FollowInv

\* The text stays when the file does.
LEMMA SameText ==
  ASSUME LogInv, file' = file
  PROVE  Text' = Text /\ TextGrows
<1>1. Text' = Text
  BY DEF Text
<1>2. Text \in Seq(Alphabet)
  BY TextType DEF LogInv
<1>3. <<>> \in Seq(Alphabet) /\ Text \o <<>> = Text
  <2> DEFINE t == Text
  <2> HIDE DEF t
  <2>1. t \in Seq(Alphabet)
    BY <1>2 DEF t
  <2>2. t \o <<>> = t
    BY <2>1, ConcatEmptySeq
  <2> QED
    BY <2>2 DEF t
<1> QED
  BY <1>1, <1>3 DEF TextGrows

\* It grows by what the worker writes, ...
LEMMA TextOutput ==
  ASSUME LogInv, worker = "writing", NEW x \in Seq(Alphabet), Output(x)
  PROVE  TextGrows /\ file'.there = file.there /\ Text' \in Seq(Alphabet)
<1>1. /\ file' \in [there : BOOLEAN, parts : Seq(Seq(Alphabet))]
      /\ file'.there = file.there
      /\ file.there => /\ Len(file.parts) = 1 /\ file.parts[1] \in Seq(Alphabet)
                       /\ Len(file'.parts) = 1 /\ file'.parts[1] = file.parts[1] \o x
  BY OutputDoes DEF LogInv
<1>2. file.parts \in Seq(Seq(Alphabet)) /\ file'.parts \in Seq(Seq(Alphabet))
  BY <1>1 DEF LogInv, States
<1>3. Text' \in Seq(Alphabet)
  BY <1>2, FlatShort DEF Text
<1>4. ASSUME file.there PROVE Text' = Text \o x
  <2>1. Text = file.parts[1] /\ Text' = file'.parts[1]
    BY <1>1, <1>2, <1>4, FlatShort DEF Text
  <2> QED
    BY <1>1, <1>4, <2>1
<1> QED
  BY <1>1, <1>3, <1>4 DEF TextGrows

\* ... and by a line that it appends.
LEMMA TextLine ==
  ASSUME LogInv, NEW line \in Seq(Alphabet), AppendLine(line)
  PROVE  TextGrows /\ (file'.there => file.there)
         /\ (~ file.there => file' = file)
<1>1. CASE ~ file.there
  <2>1. file' = file
    BY <1>1, LineDoes DEF LogInv
  <2> QED
    BY <1>1, <2>1, SameText
<1>2. CASE file.there
  <2>1. PICK x \in Seq(Alphabet) : file'.parts = Append(file.parts, x)
    BY <1>2, LineDoes DEF LogInv
  <2>2. file.parts \in Seq(Seq(Alphabet))
    BY DEF LogInv, States
  <2>3. Text' = Text \o x
    BY <2>1, <2>2, FlatAppend DEF Text
  <2> QED
    BY <1>2, <2>3 DEF TextGrows
<1> QED
  BY <1>1, <1>2

\* A log that grows is not shorter.
LEMMA NotShorter ==
  ASSUME LogInv, States', TextGrows, file'.there = file.there, ~ file.there => file' = file
  PROVE  Len(Text) <= Len(Text')
<1>1. Text \in Seq(Alphabet)
  BY TextType DEF LogInv
<1>2. CASE ~ file.there
  <2>1. Text' = Text
    BY <1>2, SameText
  <2> QED
    BY <1>1, <2>1
<1>3. CASE file.there
  <2>1. PICK x \in Seq(Alphabet) : Text' = Text \o x
    BY <1>3 DEF TextGrows
  <2> DEFINE t == Text
             u == Text'
  <2>2. t \in Seq(Alphabet) /\ u = t \o x
    BY <1>1, <2>1
  <2> HIDE DEF t, u
  <2>3. Len(u) = Len(t) + Len(x) /\ Len(t) \in Nat /\ Len(x) \in Nat
    BY <2>2, ConcatProperties
  <2>4. Len(t) <= Len(u)
    BY <2>3
  <2> QED
    BY <2>4 DEF t, u
<1> QED
  BY <1>2, <1>3

\* The steps of the worker that write.
LEMMA WritersFollow ==
  ASSUME LogInv, States', CreateLog \/ Write \/ Flush \/ Appends
  PROVE  FollowQuiet
<1>1. States /\ RowInv /\ FileInv /\ FollowInv
  BY DEF LogInv
<1>2. Text' \in Seq(Alphabet) /\ Len(Text') \in Nat
  <2>1. file'.parts \in Seq(Seq(Alphabet))
    BY DEF States
  <2>2. Text' \in Seq(Alphabet)
    BY <2>1, FlatShort DEF Text
  <2> QED
    BY <2>2
<1>3. (clean = "idle" => committed <= Len(Text)) /\ committed \in Nat /\ Len(Text) \in Nat
  <2>1. Text \in Seq(Alphabet)
    BY <1>1, TextType
  <2> QED
    BY <1>1, <2>1 DEF FollowInv, States
<1>4. CASE CreateLog
  <2>1. worker = "claimed" /\ ~ file.there /\ row # "queued" /\ UNCHANGED <<stream, clean>>
    BY <1>1, <1>4 DEF CreateLog, FileInv, RowInv
  <2>2. Len(Text) = 0
    <3>1. file.parts = <<>>
      BY <1>1, <2>1 DEF FileInv
    <3>2. Text = <<>>
      BY <1>1, <3>1, TextType
    <3> QED
      BY <3>2
  <2>3. committed' = 0 \/ committed' = committed
    BY <1>4 DEF CreateLog, Leave
  <2>4. clean' = "idle" => committed' <= Len(Text')
    BY <1>2, <1>3, <2>1, <2>2, <2>3
  <2>5. row \notin {"done"} /\ worker' # "claimed" /\ row' # "queued"
    BY <1>1, <1>4, <2>1 DEF CreateLog, Leave, RowInv
  <2>6. row = "gone" => row' = "gone" /\ clean' # "idle"
    BY <1>1, <1>4, <2>1 DEF CreateLog, Leave, RowInv
  <2> QED
    BY <1>1, <2>1, <2>4, <2>5, <2>6 DEF FollowQuiet, TextGrows
<1>5. ASSUME TextGrows, file'.there = file.there, ~ file.there => file' = file,
             UNCHANGED <<row, stream, clean, committed>>, worker' # "claimed"
      PROVE  FollowQuiet
  <2>1. Len(Text) <= Len(Text')
    BY <1>5, NotShorter
  <2> QED
    BY <1>2, <1>3, <1>5, <2>1 DEF FollowQuiet
<1>6. CASE Write
  <2>1. UNCHANGED <<row, stream, clean, committed>> /\ worker = "writing" /\ worker' = "writing"
    BY <1>6 DEF Write
  <2>2. PICK c \in Seq(Symbol) : Output(Written(tail, c).out) /\ Written(tail, c).out \in Seq(Alphabet)
    BY <1>6, WriteDoes
  <2> DEFINE x == Written(tail, c).out
  <2> HIDE DEF x
  <2>3. x \in Seq(Alphabet) /\ Output(x)
    BY <2>2 DEF x
  <2>4. TextGrows /\ file'.there = file.there /\ (~ file.there => file' = file)
    BY <1>1, <2>1, <2>3, TextOutput, OutputDoes
  <2> QED
    BY <1>5, <2>1, <2>4
<1>7. CASE Flush
  <2>1. /\ UNCHANGED <<row, stream, clean, committed>> /\ worker = "writing"
        /\ worker' # "claimed"
    BY <1>7 DEF Flush
  <2>2. PICK x \in Seq(Alphabet) : Output(x)
    BY <1>7, FlushDoes
  <2>3. TextGrows /\ file'.there = file.there /\ (~ file.there => file' = file)
    BY <1>1, <2>1, <2>2, TextOutput, OutputDoes
  <2> QED
    BY <1>5, <2>1, <2>3
<1>8. CASE Appends
  <2>1. UNCHANGED <<row, stream, clean, committed>> /\ worker' # "claimed"
    BY <1>8 DEF Appends, AppendLifecycle, Provisioned, FinishPromoted, AppendPromoted
  <2>2. PICK line \in Seq(Alphabet) : AppendLine(line)
    BY <1>8, AppendsLine
  <2>3. TextGrows /\ (~ file.there => file' = file) /\ (file.there => file'.there)
    BY <1>1, <2>2, TextLine, LineDoes
  <2>4. file'.there = file.there
    <3>1. CASE ~ file.there
      <4>1. file' = file
        BY <2>3, <3>1
      <4> QED
        BY <4>1
    <3>2. CASE file.there
      <4>1. file'.there \in BOOLEAN /\ file.there \in BOOLEAN
        BY <1>1 DEF States
      <4> QED
        BY <2>3, <3>2, <4>1, Zenon
    <3> QED
      BY <3>1, <3>2
  <2> QED
    BY <1>5, <2>1, <2>3, <2>4
<1> QED
  BY <1>4, <1>6, <1>7, <1>8

\* The steps that leave the file alone or remove it.
LEMMA OthersFollow ==
  ASSUME LogInv, States',
         \/ Claim \/ Closes \/ Crash
         \/ Start \/ CleanList \/ CleanRows \/ CleanAbort \/ CleanFiles \/ UNCHANGED vars
  PROVE  FollowQuiet
<1>1. States /\ RowInv /\ FileInv /\ FollowInv
  BY DEF LogInv
<1>2. (clean = "idle" => committed <= Len(Text)) /\ committed \in Nat /\ Len(Text) \in Nat
  <2>1. Text \in Seq(Alphabet)
    BY <1>1, TextType
  <2> QED
    BY <1>1, <2>1 DEF FollowInv, States
<1>3. CASE CleanFiles
  <2>1. ~ file'.there
    BY <1>3 DEF CleanFiles
  <2> QED
    BY <1>3, <2>1 DEF CleanFiles, FollowQuiet, TextGrows, workerVars
<1>4. ASSUME file' = file,
             \A r \in Reader : /\ stream'[r].seen = stream[r].seen
                               /\ stream'[r].offset = stream[r].offset
                               /\ stream'[r].sent = stream[r].sent
                               /\ stream'[r].pc = "ended" => stream[r].pc = "ended",
             clean' = "idle" =>
               /\ clean = "idle"
               /\ committed' = committed \/ (row \notin {"done", "gone"} /\ committed' = Len(Text)),
             row' = "queued" \/ worker' = "claimed" => row = "queued" \/ worker = "claimed",
             row \in {"done", "gone"} => row' \in {"done", "gone"}
      PROVE  FollowQuiet
  <2>1. Text' = Text /\ TextGrows
    BY <1>4, SameText
  <2>2. clean' = "idle" => committed' <= Len(Text')
    BY <1>2, <1>4, <2>1
  <2> QED
    BY <1>4, <2>1, <2>2 DEF FollowQuiet
<1>5. CASE Claim
  BY <1>1, <1>4, <1>5 DEF Claim
<1>6. CASE Provisioned /\ worker' # "finishing"
  BY <1>1, <1>4, <1>6 DEF Provisioned
<1>7. CASE Finish
  <2>1. row \in {"running", "gone"} /\ (row = "gone" => clean # "idle")
    BY <1>1, <1>7 DEF Finish, RowInv
  <2> QED
    BY <1>4, <1>7, <2>1 DEF Finish, Commit, Leave
<1>8. CASE FinishPromoted /\ worker' # "finishing"
  <2>1. row # "done" /\ (row = "gone" => clean # "idle") /\ row # "queued"
    BY <1>1, <1>8 DEF FinishPromoted, RowInv
  <2> QED
    BY <1>4, <1>8, <2>1 DEF FinishPromoted, Commit
<1>9. CASE Crash
  <2>1. \A r \in Reader : /\ stream'[r].seen = stream[r].seen
                          /\ stream'[r].offset = stream[r].offset
                          /\ stream'[r].sent = stream[r].sent
                          /\ stream'[r].pc = "ended" => stream[r].pc = "ended"
    <3> SUFFICES ASSUME NEW r \in Reader
                 PROVE  /\ stream'[r].seen = stream[r].seen
                        /\ stream'[r].offset = stream[r].offset
                        /\ stream'[r].sent = stream[r].sent
                        /\ stream'[r].pc = "ended" => stream[r].pc = "ended"
      OBVIOUS
    <3>1. stream[r] \in Streams
      BY <1>1 DEF States
    <3>2. stream'[r] = IF stream[r].pc \in {"first", "poll", "read"}
                       THEN [stream[r] EXCEPT !.pc = "broken"] ELSE stream[r]
      BY <1>9 DEF Crash
    <3> QED
      BY <3>1, <3>2 DEF Streams
  <2> QED
    BY <1>1, <1>4, <1>9, <2>1 DEF Crash
<1>10. CASE Start
  BY <1>1, <1>4, <1>10 DEF Start
<1>11. CASE CleanList \/ CleanAbort
  BY <1>1, <1>4, <1>11 DEF CleanList, CleanAbort, workerVars
<1>12. CASE CleanRows
  BY <1>1, <1>4, <1>12 DEF CleanRows, workerVars
<1>13. CASE UNCHANGED vars
  BY <1>1, <1>4, <1>13 DEF vars
<1> QED
  BY <1>3, <1>5, <1>6, <1>7, <1>8, <1>9, <1>10, <1>11, <1>12, <1>13 DEF Closes

\* What a follower's step does to its record, and that it does nothing else.
FollowerDoes(r, x) ==
  /\ UNCHANGED <<row, file, clean, worker, committed>>
  /\ stream' = [stream EXCEPT ![r] = x]
  /\ \/ /\ x.offset = stream[r].offset /\ x.sent = stream[r].sent
        /\ x.pc # "ended"
        /\ x.seen = "done" => stream[r].seen = "done" \/ row = "done"
     \/ /\ x.offset = Delta(r).offset /\ x.sent = Delta(r).sent
        /\ x.seen = stream[r].seen
        /\ x.pc = "ended" => stream[r].seen = "done"

\* So it does.
LEMMA FollowerSteps ==
  ASSUME LogInv, NEW r \in Reader, Open(r) \/ ReadFirst(r) \/ Poll(r) \/ ReadDelta(r)
  PROVE  \E x \in Streams : FollowerDoes(r, x)
<1>1. stream[r] \in Streams /\ row \in {"queued", "running", "done", "gone"}
  BY DEF LogInv, States
<1>2. Reads(r)
  BY DeltaDoes DEF LogInv
<1>3. UNCHANGED <<row, file, clean, worker, committed>>
  BY DEF Open, ReadFirst, Poll, ReadDelta, workerVars
<1>4. CASE Open(r)
  <2> DEFINE x == [[stream[r] EXCEPT !.pc = "first"] EXCEPT !.seen = row]
  <2>1. stream' = [stream EXCEPT ![r] = x] /\ row # "gone"
    BY <1>4 DEF Open, LogInv, States
  <2>2. x \in Streams /\ x.pc = "first" /\ x.seen = row
        /\ x.offset = stream[r].offset /\ x.sent = stream[r].sent
    BY <1>1, <2>1 DEF Streams
  <2> HIDE DEF x
  <2>3. FollowerDoes(r, x)
    BY <1>3, <2>1, <2>2 DEF FollowerDoes
  <2> QED
    BY <2>2, <2>3
<1>5. CASE Poll(r)
  <2> DEFINE x == [[stream[r] EXCEPT !.pc = IF row = "gone" THEN "error" ELSE "read"]
                             EXCEPT !.seen = IF row = "gone" THEN stream[r].seen ELSE row]
  <2>1. stream' = [stream EXCEPT ![r] = x]
    BY <1>5 DEF Poll, LogInv, States
  <2>2. x \in Streams /\ x.pc # "ended" /\ (x.seen = stream[r].seen \/ x.seen = row)
        /\ x.offset = stream[r].offset /\ x.sent = stream[r].sent
    BY <1>1 DEF Streams
  <2> HIDE DEF x
  <2>3. FollowerDoes(r, x)
    BY <1>3, <2>1, <2>2 DEF FollowerDoes
  <2> QED
    BY <2>2, <2>3
<1>6. CASE ReadFirst(r) \/ ReadDelta(r)
  <2> DEFINE x == [Delta(r) EXCEPT !.pc = IF stream[r].seen = "done" THEN "ended" ELSE "poll"]
  <2>1. stream' = [stream EXCEPT ![r] = x]
    BY <1>6 DEF ReadFirst, ReadDelta
  <2>2. Delta(r) \in Streams /\ Delta(r).seen = stream[r].seen
    BY <1>2 DEF Reads
  <2>3. x \in Streams /\ (x.pc = "ended" => stream[r].seen = "done") /\ x.seen = stream[r].seen
        /\ x.offset = Delta(r).offset /\ x.sent = Delta(r).sent
    BY <2>2 DEF Streams
  <2> HIDE DEF x
  <2>4. FollowerDoes(r, x)
    BY <1>3, <2>1, <2>3 DEF FollowerDoes
  <2> QED
    BY <2>3, <2>4
<1> QED
  BY <1>4, <1>5, <1>6

\* A follower's step keeps FollowInv.
LEMMA FollowersFollow ==
  ASSUME LogInv, NEW r \in Reader, NEW x \in Streams, FollowerDoes(r, x)
  PROVE  FollowInv'
<1>1. States /\ FileInv /\ FollowInv
  BY DEF LogInv
<1>2. UNCHANGED <<row, file, clean, worker, committed>> /\ Text' = Text
  BY DEF FollowerDoes, Text
<1>3. /\ stream \in [Reader -> Streams] /\ stream'[r] = x
      /\ \A q \in Reader : q # r => stream'[q] = stream[q]
  BY <1>1 DEF States, FollowerDoes
<1>4. Reads(r) /\ Text \in Seq(Alphabet) /\ (file.parts = <<>> => Text = <<>>)
  BY <1>1, DeltaDoes, TextType
<1>5. Len(Text) \in Nat /\ committed \in Nat /\ stream[r] \in Streams
  BY <1>1, <1>3, <1>4 DEF States
<1>6. ASSUME row = "queued" \/ worker = "claimed" PROVE x.offset = 0 /\ x.sent = <<>>
  <2>1. stream[r].offset = 0 /\ stream[r].sent = <<>> /\ ~ file.there
    BY <1>1, <1>6 DEF FollowInv, FileInv
  <2>2. Delta(r) = stream[r]
    BY <1>4, <2>1 DEF Reads
  <2> QED
    BY <2>1, <2>2 DEF FollowerDoes
<1>7. ASSUME file.there PROVE x.offset <= Len(Text) /\ x.sent = SubSeq(Text, 1, x.offset)
  <2>1. stream[r].offset <= Len(Text) /\ stream[r].sent = SubSeq(Text, 1, stream[r].offset)
    BY <1>1, <1>7 DEF FollowInv, DeliveredInOrder
  <2>2. Delta(r).offset = Len(Text) /\ Delta(r).sent = SubSeq(Text, 1, Len(Text))
    BY <1>4, <1>7, <2>1 DEF Reads
  <2>3. Len(Text) <= Len(Text)
    BY <1>5
  <2>4. CASE x.offset = stream[r].offset /\ x.sent = stream[r].sent
    BY <2>1, <2>4
  <2>5. CASE x.offset = Delta(r).offset /\ x.sent = Delta(r).sent
    BY <2>2, <2>3, <2>5
  <2> QED
    BY <2>4, <2>5 DEF FollowerDoes
<1>8. x.seen = "done" => row \in {"done", "gone"}
  BY <1>1 DEF FollowerDoes, FollowInv
<1>9. ASSUME x.pc = "ended" PROVE x.seen = "done" /\ (x.offset >= committed \/ clean # "idle")
  <2>1. x.offset = Delta(r).offset /\ x.seen = "done"
    BY <1>9 DEF FollowerDoes
  <2>2. CASE file.there
    <3>1. x.offset = Len(Text)
      BY <1>4, <2>1, <2>2 DEF Reads
    <3>2. clean = "idle" => committed <= Len(Text)
      BY <1>1 DEF FollowInv
    <3> QED
      BY <1>5, <2>1, <3>1, <3>2
  <2>3. CASE ~ file.there
    <3>1. Len(Text) = 0
      BY <1>1, <1>4, <2>3 DEF FileInv
    <3>2. clean = "idle" => committed = 0
      BY <1>1, <1>5, <3>1 DEF FollowInv
    <3>3. x.offset \in Nat
      BY DEF Streams
    <3> QED
      BY <2>1, <3>2, <3>3
  <2> QED
    BY <2>2, <2>3
<1>10. ASSUME NEW q \in Reader
       PROVE  /\ row = "queued" \/ worker = "claimed" =>
                   stream'[q].offset = 0 /\ stream'[q].sent = <<>>
              /\ file.there => /\ stream'[q].offset <= Len(Text)
                               /\ stream'[q].sent = SubSeq(Text, 1, stream'[q].offset)
              /\ stream'[q].seen = "done" => row \in {"done", "gone"}
              /\ stream'[q].pc = "ended" => stream'[q].seen = "done"
              /\ stream'[q].pc = "ended" => stream'[q].offset >= committed \/ clean # "idle"
  <2>1. CASE q = r
    BY <1>3, <1>6, <1>7, <1>8, <1>9, <2>1
  <2>2. CASE q # r
    <3>1. stream'[q] = stream[q]
      BY <1>3, <2>2
    <3> QED
      BY <1>1, <3>1 DEF FollowInv, DeliveredInOrder, MissesOnlyLaterLines
  <2> QED
    BY <2>1, <2>2
<1>11. DeliveredInOrder'
  BY <1>2, <1>10 DEF DeliveredInOrder
<1>12. MissesOnlyLaterLines'
  BY <1>2, <1>10 DEF MissesOnlyLaterLines
<1>13. clean' = "idle" => committed' <= Len(Text')
  BY <1>1, <1>2 DEF FollowInv
<1> QED
  BY <1>2, <1>10, <1>11, <1>12, <1>13 DEF FollowInv

\* FollowInv is kept.
LEMMA FollowStep == LogInv /\ Steps => FollowInv'
<1> SUFFICES ASSUME LogInv, Steps PROVE FollowInv'
  OBVIOUS
<1>1. States'
  BY StatesStep
<1>2. CASE \E r \in Reader : Open(r) \/ ReadFirst(r) \/ Poll(r) \/ ReadDelta(r)
  <2>1. PICK r \in Reader : Open(r) \/ ReadFirst(r) \/ Poll(r) \/ ReadDelta(r)
    BY <1>2
  <2>2. PICK x \in Streams : FollowerDoes(r, x)
    BY <2>1, FollowerSteps
  <2> QED
    BY <2>2, FollowersFollow
<1>3. CASE CreateLog \/ Write \/ Flush \/ Appends
  <2>1. FollowQuiet
    BY <1>1, <1>3, WritersFollow
  <2> QED
    BY <1>1, <2>1, QuietFollow
<1>4. CASE \/ Claim \/ Closes
           \/ Crash \/ Start \/ CleanList \/ CleanRows \/ CleanAbort \/ CleanFiles
           \/ UNCHANGED vars
  <2>1. FollowQuiet
    BY <1>1, <1>4, OthersFollow
  <2> QED
    BY <1>1, <2>1, QuietFollow
<1> QED
  BY <1>2, <1>3, <1>4 DEF Steps, Appends, Closes

-----------------------------------------------------------------------------
(* The files of a cleaned project.                                         *)

\* LeftInv is kept.
LEMMA LeftStep == LogInv /\ Steps => LeftInv'
<1> SUFFICES ASSUME LogInv, Steps, ~ overlap', crashes' = 0, ~ refused'
             PROVE  /\ worker' = "left" => ~ file'.there
                    /\ clean' # "idle" => ~ Busy'
                    /\ worker' # "down"
                    /\ file'.there /\ (worker' = "idle" \/ (worker' = "promoted" /\ row' = "done"))
                         => path'
                    /\ clean' = "unlisted" => ~ file'.there
                    /\ clean' = "done" /\ row' = "gone" => ~ file'.there
  BY DEF LeftInv
<1>1. States /\ RowInv /\ FileInv
  BY DEF LogInv
<1>2. /\ overlap \in BOOLEAN /\ refused \in BOOLEAN /\ crashes \in 0 .. 1
      /\ row \in {"queued", "running", "done", "gone"}
      /\ clean \in {"idle", "unlisted", "listed", "rows", "done"}
  BY <1>1 DEF States
<1>3. /\ row = "gone" => clean \in {"rows", "done"}
      /\ worker = "claimed" => ~ file.there
      /\ row = "queued" => ~ file.there
  BY <1>1 DEF RowInv, FileInv
<1>4. ASSUME ~ overlap, crashes = 0, ~ refused
      PROVE  /\ worker = "left" => ~ file.there
             /\ clean # "idle" => ~ Busy
             /\ worker # "down"
             /\ file.there /\ (worker = "idle" \/ (worker = "promoted" /\ row = "done")) => path
             /\ clean = "unlisted" => ~ file.there
             /\ clean = "done" /\ row = "gone" => ~ file.there
  BY <1>4 DEF LogInv, LeftInv
<1>5. CASE Claim
  <2>1. ~ overlap /\ ~ refused /\ crashes = 0 /\ clean' = "idle" /\ ~ file'.there
        /\ worker' \in {"claimed", "left"}
    BY <1>3, <1>5 DEF Claim
  <2> QED
    BY <2>1
<1>6. CASE CreateLog
  <2>1. ~ overlap /\ ~ refused /\ crashes = 0 /\ worker = "claimed" /\ UNCHANGED <<path, clean>>
    BY <1>6 DEF CreateLog, Leave
  <2>2. clean' = "idle" /\ worker' \in {"writing", "idle"}
    BY <1>4, <1>6, <2>1 DEF CreateLog, Leave, Busy
  <2>3. worker' = "idle" => ~ file'.there
    BY <1>3, <1>6, <2>1 DEF CreateLog
  <2> QED
    BY <2>1, <2>2, <2>3
<1>7. CASE Write \/ Flush \/ AppendLifecycle \/ Provisioned
  <2>1. ~ overlap /\ ~ refused /\ crashes = 0 /\ Busy /\ UNCHANGED <<path, clean, row>>
    <3>1. CASE Write
      BY <1>7, <3>1 DEF Write, Busy
    <3>2. CASE Flush
      BY <1>7, <3>2 DEF Flush, Busy
    <3>3. CASE AppendLifecycle
      BY <1>7, <3>3 DEF AppendLifecycle, Busy
    <3>4. CASE Provisioned
      BY <1>7, <3>4 DEF Provisioned, Busy
    <3> QED
      BY <1>7, <3>1, <3>2, <3>3, <3>4
  <2>2. clean' = "idle" /\ worker' \in {"writing", "appending", "finishing", "promoted"}
    BY <1>4, <1>7, <2>1 DEF Write, Flush, AppendLifecycle, Provisioned
  <2>3. worker' = "promoted" => row # "done"
    BY <1>1, <1>7 DEF Write, Flush, AppendLifecycle, Provisioned, RowInv
  <2> QED
    BY <2>1, <2>2, <2>3
<1>8. CASE Finish \/ FinishPromoted
  <2>1. ~ overlap /\ ~ refused /\ crashes = 0 /\ Busy /\ UNCHANGED clean /\ path'
        /\ worker' \notin {"down", "left"}
    BY <1>8 DEF Finish, FinishPromoted, Commit, Leave, Busy
  <2>2. clean' = "idle"
    BY <1>4, <2>1
  <2> QED
    BY <2>1, <2>2
<1>9. CASE AppendPromoted
  <2>1. /\ ~ overlap /\ ~ refused /\ crashes = 0 /\ Busy /\ UNCHANGED <<clean, path>> /\ worker' = "idle"
        /\ worker = "promoted" /\ row = "done"
    BY <1>9 DEF AppendPromoted, Busy
  <2>2. clean' = "idle"
    BY <1>4, <2>1
  <2>3. file'.there => path
    <3>1. PICK line \in Seq(Alphabet) : AppendLine(line)
      BY <1>9, AppendsLine DEF Appends
    <3>2. ~ file.there => file' = file
      BY <1>1, <3>1, LineDoes
    <3> QED
      BY <1>4, <2>1, <3>2
  <2> QED
    BY <2>1, <2>2, <2>3
<1>10. CASE Crash
  BY <1>2, <1>10 DEF Crash
<1>11. CASE Start
  BY <1>4, <1>11 DEF Start
<1>12. CASE CleanList
  <2>5. refused' = refused /\ clean' = IF path THEN "listed" ELSE "unlisted"
    BY <1>12 DEF CleanList
  <2>6. ~ refused
    BY <2>5, Zenon
  <2>7. ~ overlap /\ ~ Busy
    BY <1>12, Zenon DEF CleanList
  <2>8. crashes = 0 /\ worker # "down" /\ clean = "idle" /\ UNCHANGED <<row, file, worker, path>>
    BY <1>12 DEF CleanList, Up, workerVars
  <2>1. ~ overlap /\ ~ refused /\ ~ Busy /\ crashes = 0 /\ worker # "down" /\ clean = "idle"
        /\ UNCHANGED <<row, file, worker, path>>
    BY <2>6, <2>7, <2>8
  <2>2. worker \in {"idle", "left"}
    BY <1>1, <2>1 DEF States, Busy
  <2>3. clean' = IF path THEN "listed" ELSE "unlisted"
    BY <2>5
  <2>4. ~ Busy'
    BY <2>1, <2>2 DEF Busy
  <2> QED
    BY <1>3, <1>4, <2>1, <2>2, <2>3, <2>4
<1>13. CASE CleanRows
  <2>1. ~ overlap /\ ~ refused /\ ~ Busy /\ crashes = 0 /\ UNCHANGED <<file, worker, path>>
    BY <1>2, <1>13 DEF CleanRows, workerVars, Busy
  <2>2. clean \in {"listed", "unlisted"} /\ clean' = IF clean = "listed" THEN "rows" ELSE "done"
    BY <1>13 DEF CleanRows
  <2>3. ~ Busy'
    BY <2>1 DEF Busy
  <2>4. worker # "promoted"
    BY <2>1 DEF Busy
  <2> QED
    BY <1>4, <2>1, <2>2, <2>3, <2>4
<1>14. CASE CleanAbort
  <2>1. ~ overlap /\ ~ refused /\ crashes = 0 /\ UNCHANGED <<row, file, worker, path>> /\ clean' = "done"
        /\ clean \in {"listed", "unlisted"}
    BY <1>14 DEF CleanAbort, workerVars
  <2>2. row # "gone" /\ ~ Busy
    BY <1>3, <1>4, <2>1
  <2>3. ~ Busy'
    BY <2>1, <2>2 DEF Busy
  <2> QED
    BY <1>4, <2>1, <2>2, <2>3
<1>15. CASE CleanFiles
  <2>1. ~ overlap /\ ~ refused /\ crashes = 0 /\ UNCHANGED <<row, worker, path>> /\ clean' = "done"
        /\ clean = "rows" /\ ~ file'.there
    BY <1>15 DEF CleanFiles, workerVars
  <2>2. ~ Busy'
    BY <1>4, <2>1 DEF Busy
  <2> QED
    BY <1>4, <2>1, <2>2
<1>16. CASE UNCHANGED <<row, file, worker, path, clean, crashes, overlap, refused>>
  <2>1. Busy' = Busy
    BY <1>16 DEF Busy
  <2> QED
    BY <1>4, <1>16, <2>1
<1>17. CASE \/ \E r \in Reader : Open(r) \/ ReadFirst(r) \/ Poll(r) \/ ReadDelta(r)
            \/ UNCHANGED vars
  <2>1. UNCHANGED <<row, file, worker, path, clean, crashes, overlap, refused>>
    BY <1>17 DEF Open, ReadFirst, Poll, ReadDelta, workerVars, vars
  <2> QED
    BY <1>16, <2>1
<1> QED
  BY <1>5, <1>6, <1>7, <1>8, <1>9, <1>10, <1>11, <1>12, <1>13, <1>14, <1>15, <1>17 DEF Steps

-----------------------------------------------------------------------------
(* Theorems.                                                               *)

\* The invariant of the log, the worker, the followers and the cleanup.
THEOREM LogInvariant == Spec => []LogInv
<1>1. LogInv /\ [Next]_vars => LogInv'
  BY StepsAre, StatesStep, RowStep, FileStep, FollowStep, LeftStep DEF LogInv
<1> QED
  BY LogInit, <1>1, PTL DEF Spec

\* No log shows a secret, and no log depends on the chunks its output came in.
THEOREM LogAlwaysScrubbed == Spec => []ScrubbedLog
<1>1. LogInv => ScrubbedLog
  <2> SUFFICES ASSUME LogInv PROVE ScrubbedLog
    OBVIOUS
  <2>1. FileInv /\ file.parts \in Seq(Seq(Alphabet)) /\ input \in Seq(Symbol)
    BY DEF LogInv, States
  <2>2. Redact(input) \in Seq(Alphabet) /\ \A s \in Values : ~ Occurs(s, Redact(input))
    BY <2>1, Redacted
  <2>3. ASSUME NEW i \in DOMAIN file.parts, NEW s \in Values PROVE ~ Occurs(s, file.parts[i])
    <3>1. i \in 1 .. Len(file.parts) /\ file.parts[i] \in Seq(Alphabet)
      BY <2>1
    <3>2. CASE i = 1
      <4>1. file.there
        <5>1. Len(<<>>) = 0
          OBVIOUS
        <5>2. file.parts # <<>>
          BY <3>1, <3>2, <5>1
        <5> QED
          BY <2>1, <5>2 DEF FileInv
      <4>2. Begins(file.parts[1], Redact(input))
        BY <2>1, <4>1 DEF FileInv
      <4> QED
        BY <2>2, <3>1, <3>2, <4>2, BeginsOccurs
    <3>3. CASE i # 1
      <4>1. i \in 2 .. Len(file.parts)
        BY <3>1, <3>3
      <4> QED
        BY <2>1, <4>1 DEF FileInv
    <3> QED
      BY <3>2, <3>3
  <2>4. NoSecretInLog
    BY <2>3 DEF NoSecretInLog
  <2>5. ChunksInvisible
    BY <2>1 DEF ChunksInvisible, FileInv, Begins
  <2> QED
    BY <2>4, <2>5 DEF ScrubbedLog
<1> QED
  BY LogInvariant, <1>1, PTL

\* A follower gets the log in order, up to the terminal status, and is told of the end only then.
THEOREM LogAlwaysFollowed == Spec => []StreamFaithful
<1>1. LogInv => StreamFaithful
  <2> SUFFICES ASSUME LogInv PROVE StreamFaithful
    OBVIOUS
  <2>1. States /\ FileInv /\ FollowInv
    BY DEF LogInv
  <2>2. \A i \in DOMAIN file.parts : file.parts[i] \in Seq(Symbol \cup {Mark, Promoted})
    <3>1. file.parts \in Seq(Seq(Alphabet))
      BY <2>1 DEF States
    <3> QED
      BY <3>1 DEF Alphabet
  <2>3. tail \in Seq(Symbol) /\ (Values # {} => Len(tail) < MaxLen)
    <3>1. CASE worker = "writing"
      BY <2>1, <3>1, SoftType DEF States, FileInv
    <3>2. CASE worker # "writing"
      <4>1. tail = <<>> /\ Len(<<>>) = 0
        BY <2>1, <3>2 DEF FileInv
      <4> QED
        BY <2>1, <4>1, ValuesAre DEF States
    <3> QED
      BY <3>1, <3>2
  <2>4. \A r \in Reader : stream[r] \in Streams
    BY <2>1 DEF States
  <2>5. \A r \in Reader : /\ stream[r].pc \in {"none", "first", "poll", "read", "ended", "error", "broken"}
                          /\ stream[r].seen \in {"queued", "running", "done"}
                          /\ stream[r].offset \in Nat
    BY <2>4 DEF Streams
  <2>6. file.there \in BOOLEAN
    BY <2>1 DEF States
  <2>7. LogTypeOK
    BY <2>1, <2>2, <2>3, <2>5, <2>6 DEF LogTypeOK, States
  <2>8. EndMeansFinal
    BY <2>1 DEF EndMeansFinal, FollowInv
  <2> QED
    BY <2>1, <2>7, <2>8 DEF StreamFaithful, FollowInv
<1> QED
  BY LogInvariant, <1>1, PTL

\* A log file without a row is left over only by an overlap, a crash, a refused terminal update or
\* a failed list of log paths.
THEOREM OrphansAlwaysByOverlap == Spec => []OrphanOnlyByOverlap
<1>1. LogInv => OrphanOnlyByOverlap
  <2> SUFFICES ASSUME LogInv, file.there, row = "gone", clean = "done", ~ overlap, ~ refused
               PROVE  crashes > 0
    BY DEF OrphanOnlyByOverlap
  <2>1. crashes \in 0 .. 1 /\ crashes # 0
    BY DEF LogInv, LeftInv, States
  <2> QED
    BY <2>1
<1> QED
  BY LogInvariant, <1>1, PTL
=============================================================================
