--------------------------- MODULE MCLintBatches ---------------------------
(***************************************************************************)
(* An instance of the lint pass for TLC: files are numbers.  The first two  *)
(* are a component and the .tsx that was generated from it; the third and   *)
(* the fourth are one path that was listed twice.                           *)
(***************************************************************************)
EXTENDS LintBatchesProperties

Mixed == <<<<1, 2, 3>>, <<4, 5>>>>
Paths == <<"Card.astro", "Card.tsx", "twice", "twice", "once">>
Sources == <<"Card.astro", "Card.astro", "twice", "twice", "once">>
=============================================================================
