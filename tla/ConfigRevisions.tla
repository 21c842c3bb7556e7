-------------------------- MODULE ConfigRevisions --------------------------
(***************************************************************************)
(* The table project_config_revisions of one project, as a sequence in the *)
(* order of the commits.  A revision holds all the entries of the project  *)
(* at its time; the next one starts from the latest one, and the latest    *)
(* one is the row whose created_at is the greatest text.                   *)
(*                                                                         *)
(* created_at is time.RFC3339Nano, which drops trailing zeros: "05.1Z"     *)
(* sorts before "05Z", since '.' comes before 'Z'.  An instant is a second *)
(* and a fraction of it of at most one digit; fraction 0 is the one that   *)
(* is written without digits.  (Of two fractions with more digits, the     *)
(* shorter one sorts late likewise, ".1Z" after ".12Z".)                   *)
(***************************************************************************)
EXTENDS Naturals, Sequences

CONSTANT PerSecond     \* fractions of a second that are told apart

ASSUME PerSecondAssumption == PerSecond \in 1..10

Instant == [sec : Nat, frac : 0..PerSecond - 1]

(* Real time, and the order of the texts.                                  *)
NotAfter(s, t) == s.sec < t.sec \/ (s.sec = t.sec /\ s.frac <= t.frac)

TextBefore(s, t) ==
  \/ s.sec < t.sec
  \/ s.sec = t.sec /\ s.frac # 0 /\ (t.frac = 0 \/ s.frac < t.frac)

(* ORDER BY created_at DESC LIMIT 1: rows with equal texts come in any     *)
(* order; 0 is "no revision".  Mutant: the oldest row.                     *)
OldestRows(revs) ==
  {i \in DOMAIN revs : \A j \in DOMAIN revs : ~TextBefore(revs[j].at, revs[i].at)}
LatestRows(revs) ==
  {i \in DOMAIN revs : \A j \in DOMAIN revs : ~TextBefore(revs[i].at, revs[j].at)}

LatestIDs(revs) == IF revs = <<>> THEN {0} ELSE LatestRows(revs)

(* The entries of a revision; none for a project without one.              *)
EntryMap(revs, id, none) == IF id = 0 THEN none ELSE revs[id].entries

(* The latest entries with the entries of `changes' put over them.         *)
Changed(entries, changes) ==
  [n \in DOMAIN entries |-> IF n \in DOMAIN changes THEN changes[n] ELSE entries[n]]
=============================================================================
