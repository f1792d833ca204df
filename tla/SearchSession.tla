----------------------------- MODULE SearchSession -----------------------------
(***************************************************************************)
(* A search session (engine/src/search/search_session_internal.h): it owns *)
(* the transposition table and keeps it from one root search to the next.  *)
(* What a stored value means depends on the evaluator, its revision, the   *)
(* options and the semantic domain of the search that stored it, so        *)
(* begin_root compares a fingerprint of them with that of the last root    *)
(* and clears the table when they differ.                                  *)
(*                                                                         *)
(* The move-ordering state the session also keeps decides in which order   *)
(* moves are tried and nothing else; it is left out here, and the searches *)
(* modelled above the table try moves in any order.                        *)
(***************************************************************************)
EXTENDS TranspositionTable

CONSTANTS
  Evaluator,             \* addresses of evaluators
  nullptr,
  MaxRevision,           \* bound on transposition_table_revision()
  MaxDepth,              \* bound on the depths of an iterative search
  EngineOptions,         \* options that change values
  ShadowOptions,         \* options.selective: observational metadata
  NoFingerprint,
  value                  \* the score a search stores, by what it depends on

SearchSemanticDomain == {"midgame", "exact_endgame", "wld_endgame"}

Revision == 0 .. MaxRevision

ResolvedSearchOptions == [engine : EngineOptions, selective : ShadowOptions \cup {nullptr}]

SearchSemanticFingerprint ==
  [evaluator : Evaluator \cup {nullptr}, evaluator_revision : Revision,
   options : ResolvedSearchOptions, domain : SearchSemanticDomain]

\* What the values of a search really depend on.
Semantics ==
  [evaluator : Evaluator \cup {nullptr}, version : Revision,
   engine : EngineOptions, domain : SearchSemanticDomain]

ASSUME SessionAssumption ==
  /\ nullptr \notin Evaluator \cup ShadowOptions
  /\ MaxRevision \in Nat /\ MaxDepth \in Nat
  /\ NoFingerprint \notin SearchSemanticFingerprint
  /\ value \in [Semantics -> Int]
  /\ \A s, t \in Semantics : value[s] = value[t] => s = t

VARIABLES
  semantic_fingerprint,  \* Impl::semantic_fingerprint
  revision,              \* each evaluator's transposition_table_revision()
  version,               \* history variable: the scoring behaviour each evaluator has
  root,                  \* history variable: what the running root search depends on
  depth                  \* depths the running root search has started

NoRoot == NoFingerprint

session_vars == <<semantic_fingerprint, revision, version, root, depth>>
vars == <<buckets, generation_, touched, semantic_fingerprint, revision, version, root, depth>>

SessionTypeOK ==
  /\ TypeOK
  /\ semantic_fingerprint \in SearchSemanticFingerprint \cup {NoFingerprint}
  /\ revision \in [Evaluator -> Revision]
  /\ version \in [Evaluator -> Revision]
  /\ root \in Semantics \cup {NoRoot}
  /\ depth \in 0 .. MaxDepth

-----------------------------------------------------------------------------
\* search_iterative: only a midgame search depends on the evaluator.
semantic_evaluator(evaluator, domain) == IF domain = "midgame" THEN evaluator ELSE nullptr

revision_of(evaluator) == IF evaluator = nullptr THEN 0 ELSE revision[evaluator]
version_of(evaluator) == IF evaluator = nullptr THEN 0 ELSE version[evaluator]

\* Mutant: an evaluator is known by its address alone.
fingerprint_without_revision(evaluator, options, domain) ==
  [evaluator |-> evaluator,
   evaluator_revision |-> 0,
   options |-> [options EXCEPT !.selective = nullptr],
   domain |-> domain]

\* Mutant: observational metadata counts as an option that changes values.
fingerprint_with_metadata(evaluator, options, domain) ==
  [evaluator |-> evaluator,
   evaluator_revision |-> revision_of(evaluator),
   options |-> options,
   domain |-> domain]

make_search_semantic_fingerprint(evaluator, options, domain) ==
  [evaluator |-> evaluator,
   evaluator_revision |-> revision_of(evaluator),
   options |-> [options EXCEPT !.selective = nullptr],
   domain |-> domain]

\* begin_root's effect on the table: clear, then new_generation.
clear_and_new_generation ==
  /\ buckets' = no_entries
  /\ generation_' = IF MaxGeneration = 1 THEN 1 ELSE 2
  /\ touched' = {}

\* Mutant: a warm root starts no generation.
begin_root_without_aging(fingerprint) ==
  /\ semantic_fingerprint' = fingerprint
  /\ \/ semantic_fingerprint \in {NoFingerprint, fingerprint} /\ UNCHANGED table_vars
     \/ semantic_fingerprint \notin {NoFingerprint, fingerprint} /\ clear_and_new_generation

begin_root(fingerprint) ==
  /\ semantic_fingerprint' = fingerprint
  /\ \/ semantic_fingerprint \in {NoFingerprint, fingerprint} /\ new_generation
     \/ semantic_fingerprint \notin {NoFingerprint, fingerprint} /\ clear_and_new_generation

Init ==
  /\ TableInit
  /\ semantic_fingerprint = NoFingerprint
  /\ revision \in [Evaluator -> Revision]
  /\ version = revision
  /\ root = NoRoot
  /\ depth = 0

BeginRoot(evaluator, options, domain) ==
  LET bound_evaluator == semantic_evaluator(evaluator, domain)
  IN  /\ root = NoRoot
      /\ begin_root(make_search_semantic_fingerprint(bound_evaluator, options, domain))
      /\ root' = [evaluator |-> bound_evaluator, version |-> version_of(bound_evaluator),
                  engine |-> options.engine, domain |-> domain]
      /\ UNCHANGED <<revision, version, depth>>

\* The loop of search_iterative goes on to its next depth, on the same table.
NextDepth ==
  /\ root # NoRoot /\ root.domain = "midgame"
  /\ depth < MaxDepth
  /\ depth' = depth + 1
  /\ UNCHANGED <<buckets, generation_, touched, semantic_fingerprint, revision, version, root>>

\* A search only stores what is true for its own evaluator and options.
SearchStore(r) ==
  /\ root # NoRoot
  /\ root.domain = "midgame" => depth # 0
  /\ r.score = value[root]
  /\ store_entry(r)
  /\ UNCHANGED session_vars

EndRoot ==
  /\ root # NoRoot
  /\ root' = NoRoot
  /\ depth' = 0
  /\ UNCHANGED <<buckets, generation_, touched, semantic_fingerprint, revision, version>>

\* SearchSession::clear, called between searches.
Clear ==
  /\ root = NoRoot
  /\ clear
  /\ semantic_fingerprint' = NoFingerprint
  /\ UNCHANGED <<revision, version, root, depth>>

\* An evaluator that can change reports it with a new revision.
ChangeEvaluator(evaluator) ==
  /\ root = NoRoot
  /\ revision[evaluator] < MaxRevision /\ version[evaluator] < MaxRevision
  /\ revision' = [revision EXCEPT ![evaluator] = @ + 1]
  /\ version' = [version EXCEPT ![evaluator] = @ + 1]
  /\ UNCHANGED <<buckets, generation_, touched, semantic_fingerprint, root, depth>>

Next ==
  \/ \E evaluator \in Evaluator, options \in ResolvedSearchOptions,
        domain \in SearchSemanticDomain : BeginRoot(evaluator, options, domain)
  \/ \E r \in StoreRequests : SearchStore(r)
  \/ NextDepth
  \/ EndRoot
  \/ Clear
  \/ \E evaluator \in Evaluator : ChangeEvaluator(evaluator)

Spec == Init /\ [][Next]_vars

-----------------------------------------------------------------------------
(***************************************************************************)
(* Properties.                                                             *)
(***************************************************************************)

\* A root search never finds a value that depends on another evaluator, on an
\* earlier revision of its own, on other options or on another domain: "A
\* binding change clears the TT before probing", docs/architecture/search.md.
EntriesFitTheRoot ==
  root # NoRoot =>
    \A b \in BucketIndex : \A i \in Slot :
      buckets[b][i] # NoEntry => buckets[b][i].score = value[root]

\* The session stays warm: a root that depends on the same things as the last
\* one keeps every entry, whatever its shadow metadata, unless the generation
\* counter has run out.
WarmRootKeepsEntries ==
  [][(root = NoRoot /\ root' # NoRoot /\ generation_ # MaxGeneration
        /\ semantic_fingerprint # NoFingerprint
        /\ semantic_fingerprint.evaluator = root'.evaluator
        /\ semantic_fingerprint.evaluator_revision = root'.version
        /\ semantic_fingerprint.options.engine = root'.engine
        /\ semantic_fingerprint.domain = root'.domain)
       => buckets' = buckets]_vars

\* Entries of earlier roots are aged: no entry has the current generation
\* when a root starts, also after a clear in the same call.
RootStartsWithAgedEntries ==
  [][(root = NoRoot /\ root' # NoRoot) =>
       \A b \in BucketIndex : \A i \in Slot :
         buckets'[b][i] # NoEntry => buckets'[b][i].generation # generation_']_vars
=============================================================================
