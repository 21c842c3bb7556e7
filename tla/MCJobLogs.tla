----------------------------- MODULE MCJobLogs -----------------------------
(* One log, two symbols.  "ab" is a prefix of the longer secret "abb" and  *)
(* overlaps "ba"; "b" is too short to be looked for.                       *)
EXTENDS JobLogs

CONSTANTS a, b

MCSymbol  == {a, b}
MCSecrets == {<<a, b>>, <<b, a>>, <<a, b, b>>, <<b>>}
MCLines   == {<<b, a, b>>, <<a, a>>}
=============================================================================
