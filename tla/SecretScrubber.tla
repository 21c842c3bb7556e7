--------------------------- MODULE SecretScrubber ---------------------------
(***************************************************************************)
(* secret_scrubber.go: what is left of a text when every secret of a       *)
(* project has been replaced by "[redacted]".  A text is a sequence of     *)
(* symbols, and the replacement is one symbol of its own, Mark.            *)
(* The scrubber is used in two ways: on a whole line (Scrub) and on a      *)
(* stream of chunks (flush), which holds back what may be the beginning of *)
(* a secret.                                                               *)
(***************************************************************************)
EXTENDS Naturals, Sequences, FiniteSets

CONSTANTS
  Secrets,   \* the values of the secret variables
  MinLen,    \* minSecretScrubLength
  Mark       \* "[redacted]"

ASSUME ScrubberAssumption == MinLen \in Nat \ {0}

(* newSecretScrubber drops values that are too short to look for.          *)
Values == {s \in Secrets : Len(s) >= MinLen}

MaxLen == IF Values = {} THEN 0
          ELSE Len(CHOOSE s \in Values : \A t \in Values : Len(t) <= Len(s))

StartsAt(s, text, i) ==
  /\ i + Len(s) - 1 <= Len(text)
  /\ \A k \in 1..Len(s) : text[i + k - 1] = s[k]

Occurs(s, text) == \E i \in 1..Len(text) : StartsAt(s, text, i)

(* strings.ReplaceAll: from the left, without overlaps.                    *)
ReplaceAll(text, s) ==
  LET from[i \in 1..Len(text) + 1] ==
        IF i > Len(text) THEN <<>>
        ELSE IF StartsAt(s, text, i) THEN <<Mark>> \o from[i + Len(s)]
                                     ELSE <<text[i]>> \o from[i + 1]
  IN  from[1]

(* The longest value goes first.  Values of one length come in the order   *)
(* the map of unique values was iterated in, which is any order.           *)
Orders == {o \in [1..Cardinality(Values) -> Values] :
             /\ \A i, j \in DOMAIN o : i < j => Len(o[i]) >= Len(o[j])
             /\ \A i, j \in DOMAIN o : i # j => o[i] # o[j]}

Scrub(text) ==
  { LET upTo[i \in 0..Len(o)] == IF i = 0 THEN text ELSE ReplaceAll(upTo[i - 1], o[i])
    IN  upTo[Len(o)] : o \in Orders }

(* The longest value at the head of the tail, <<>> if there is none.       *)
Matched(text, i) ==
  LET here == {s \in Values : StartsAt(s, text, i)}
  IN  IF here = {} THEN <<>> ELSE CHOOSE s \in here : \A t \in here : Len(t) <= Len(s)

(* Unless this is the final flush, a tail shorter than the longest value   *)
(* may still grow into one and is held back.  Mutant: one symbol less.     *)
HoldBackLess(rest, final) == ~final /\ rest + 1 < MaxLen
HoldBack(rest, final) == ~final /\ rest < MaxLen

(* The loop of flush: what is written, and the tail that is kept.          *)
Flushed(tail, final) ==
  LET from[i \in 1..Len(tail) + 1] ==
        IF i > Len(tail) THEN [out |-> <<>>, tail |-> <<>>]
        ELSE IF HoldBack(Len(tail) - i + 1, final)
             THEN [out |-> <<>>, tail |-> SubSeq(tail, i, Len(tail))]
        ELSE IF Matched(tail, i) # <<>>
             THEN LET next == from[i + Len(Matched(tail, i))]
                  IN  [next EXCEPT !.out = <<Mark>> \o @]
             ELSE LET next == from[i + 1]
                  IN  [next EXCEPT !.out = <<tail[i]>> \o @]
  IN  from[1]

(* Write: without secrets the payload passes through.                      *)
Written(tail, chunk) ==
  IF Values = {} THEN [out |-> chunk, tail |-> <<>>] ELSE Flushed(tail \o chunk, FALSE)

(* Reference: the same text written in one piece.                          *)
Redact(text) == IF Values = {} THEN text ELSE Flushed(text, TRUE).out
=============================================================================
