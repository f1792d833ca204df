---------------------------- MODULE MCSearchSession ----------------------------
(***************************************************************************)
(* Two evaluators of which each may change once, two option sets, shadow   *)
(* metadata on and off, three domains, and a counter that runs out after   *)
(* three generations.  The one bucket has two slots for three keys; a root *)
(* runs for two depths.                                                    *)
(***************************************************************************)
EXTENDS SearchSession

CONSTANTS k1, k2, k3, e1, e2, o1, o2, s1

MCIndexFor == [key \in Key |-> 1]

\* Some numbering of what values depend on.
MCValue ==
  [s \in Semantics |->
     (CASE s.evaluator = e1 -> 0 [] s.evaluator = e2 -> 12 [] OTHER -> 24)
     + 6 * s.version
     + (IF s.engine = o1 THEN 0 ELSE 3)
     + (CASE s.domain = "midgame" -> 1 [] s.domain = "exact_endgame" -> 2 [] OTHER -> 3)]

MCStoreRequests ==
  {[key |-> key, depth |-> 1, score |-> score, bound |-> "exact",
    best_move |-> NoMove, kind |-> "midgame", selective |-> FALSE] :
     key \in Key, score \in {MCValue[s] : s \in Semantics}}

\* "Iterative deepening advances the table generation before starting each new
\* depth after depth 1" (docs/architecture/search.md:1172).
DepthsAdvanceGeneration ==
  [][depth # 0 /\ depth' = depth + 1 => generation_' # generation_]_vars
=============================================================================
