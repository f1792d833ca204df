--------------------------- MODULE MCEvaluatorReuse ---------------------------
(***************************************************************************)
(* A session that outlives its evaluators: an evaluator is destroyed and   *)
(* another one is constructed at its address.  Both are immutable and keep *)
(* the default transposition_table_revision(), 0.                          *)
(***************************************************************************)
EXTENDS MCSearchSession

InitImmutable == Init /\ revision = [evaluator \in Evaluator |-> 0]

ReplaceEvaluator(evaluator) ==
  /\ root = NoRoot
  /\ version[evaluator] < MaxRevision
  /\ version' = [version EXCEPT ![evaluator] = @ + 1]
  /\ UNCHANGED <<buckets, generation_, touched, semantic_fingerprint, revision, root, depth>>

NextWithReuse ==
  \/ \E evaluator \in Evaluator, options \in ResolvedSearchOptions,
        domain \in SearchSemanticDomain : BeginRoot(evaluator, options, domain)
  \/ \E r \in StoreRequests : SearchStore(r)
  \/ NextDepth
  \/ EndRoot
  \/ Clear
  \/ \E evaluator \in Evaluator : ReplaceEvaluator(evaluator)

SpecWithReuse == InitImmutable /\ [][NextWithReuse]_vars

\* "SearchSession also binds the evaluator object's address, so immutable
\* evaluators can keep the default revision" (search/evaluator.h:19-21).
ImmutableEvaluatorsKeepDefaultRevision == EntriesFitTheRoot
=============================================================================
