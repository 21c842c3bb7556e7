----------------------------- MODULE QueueLemmas -----------------------------
(***************************************************************************)
(* What a send to a channel and a receive from it do to the elements the   *)
(* channel holds, and how a set whose elements are each paid for by a      *)
(* fault is counted.  Both job channels of the Brain need these facts.     *)
(***************************************************************************)
EXTENDS Naturals, Sequences, FiniteSets, SequenceTheorems, FiniteSetTheorems, TLAPS

\* The elements of the channel after a receive.
LEMMA Received ==
  ASSUME NEW S, NEW s \in Seq(S), s # <<>>,
         \A i, k \in DOMAIN s : s[i] = s[k] => i = k
  PROVE  /\ Head(s) \in {s[i] : i \in DOMAIN s}
         /\ {Tail(s)[i] : i \in DOMAIN Tail(s)} = {s[i] : i \in DOMAIN s} \ {Head(s)}
         /\ \A i, k \in DOMAIN Tail(s) : Tail(s)[i] = Tail(s)[k] => i = k
<1>1. /\ DOMAIN s = 1 .. Len(s) /\ Len(s) \in Nat \ {0}
      /\ Tail(s) \in Seq(S) /\ Len(Tail(s)) = Len(s) - 1
      /\ DOMAIN Tail(s) = 1 .. Len(s) - 1
      /\ \A i \in 1 .. Len(s) - 1 : Tail(s)[i] = s[i + 1]
  BY HeadTailProperties, LenProperties, EmptySeq
<1>2. Head(s) = s[1]
  BY <1>1
<1>3. {Tail(s)[i] : i \in DOMAIN Tail(s)} \subseteq {s[i] : i \in DOMAIN s} \ {Head(s)}
  BY <1>1, <1>2
<1>4. ASSUME NEW i \in DOMAIN s, s[i] # Head(s)
      PROVE  \E k \in DOMAIN Tail(s) : Tail(s)[k] = s[i]
  <2>1. i - 1 \in DOMAIN Tail(s) /\ Tail(s)[i - 1] = s[i]
    BY <1>1, <1>2, <1>4
  <2> QED
    BY <2>1
<1>5. \A i, k \in DOMAIN Tail(s) : Tail(s)[i] = Tail(s)[k] => i = k
  BY <1>1
<1> QED
  BY <1>1, <1>2, <1>3, <1>4, <1>5

\* The elements of the channel after a send.
LEMMA Sent ==
  ASSUME NEW S, NEW s \in Seq(S), NEW e \in S, e \notin {s[i] : i \in DOMAIN s},
         \A i, k \in DOMAIN s : s[i] = s[k] => i = k
  PROVE  /\ {Append(s, e)[i] : i \in DOMAIN Append(s, e)} = {s[i] : i \in DOMAIN s} \cup {e}
         /\ \A i, k \in DOMAIN Append(s, e) : Append(s, e)[i] = Append(s, e)[k] => i = k
<1>1. /\ DOMAIN s = 1 .. Len(s) /\ Len(s) \in Nat
      /\ DOMAIN Append(s, e) = 1 .. Len(s) + 1
      /\ \A i \in 1 .. Len(s) : Append(s, e)[i] = s[i]
      /\ Append(s, e)[Len(s) + 1] = e
  BY LenProperties, AppendProperties
<1>2. {Append(s, e)[i] : i \in DOMAIN Append(s, e)} \subseteq {s[i] : i \in DOMAIN s} \cup {e}
  BY <1>1
<1>3. {s[i] : i \in DOMAIN s} \cup {e} \subseteq {Append(s, e)[i] : i \in DOMAIN Append(s, e)}
  BY <1>1
<1>4. \A i, k \in DOMAIN Append(s, e) : Append(s, e)[i] = Append(s, e)[k] => i = k
  BY <1>1
<1> QED
  BY <1>2, <1>3, <1>4

\* A set bounded by the number of faults stays so when it gains nothing, or gains one
\* element with one more fault.
LEMMA FaultsCounted ==
  ASSUME NEW S, IsFiniteSet(S), NEW m \in Nat, NEW n \in Nat, Cardinality(S) <= m, NEW T,
         \/ T \subseteq S /\ m <= n
         \/ \E x : T \subseteq S \cup {x} /\ m < n
  PROVE  Cardinality(T) <= n
<1>1. Cardinality(S) \in Nat
  BY FS_CardinalityType
<1>2. CASE T \subseteq S /\ m <= n
  <2>1. Cardinality(T) \in Nat /\ Cardinality(T) <= Cardinality(S)
    BY <1>2, FS_Subset, FS_CardinalityType
  <2> QED
    BY <1>1, <1>2, <2>1
<1>3. ASSUME NEW x, T \subseteq S \cup {x}, m < n PROVE Cardinality(T) <= n
  <2>1. IsFiniteSet(S \cup {x}) /\ Cardinality(S \cup {x}) <= Cardinality(S) + 1
    BY <1>1, FS_AddElement
  <2>2. /\ Cardinality(T) \in Nat /\ Cardinality(T) <= Cardinality(S \cup {x})
        /\ Cardinality(S \cup {x}) \in Nat
    BY <1>3, <2>1, FS_Subset, FS_CardinalityType
  <2> QED
    BY <1>1, <1>3, <2>1, <2>2
<1> QED
  BY <1>2, <1>3
=============================================================================
