-------------------------- MODULE TranspositionTable --------------------------
(***************************************************************************)
(* The transposition table of engine/src/search/transposition_table.cc: a  *)
(* fixed array of buckets of kBucketWidth entries, a generation counter    *)
(* that ages the entries of earlier roots, and the replacement policy of   *)
(* store_entry.                                                            *)
(*                                                                         *)
(* The owner of the table (SearchSession) is single threaded, so one call  *)
(* is one step.  store_entry has five ways to end and each is an action.   *)
(* Keys, scores and moves are model values or small numbers, and the       *)
(* statistics counters are left out.                                       *)
(***************************************************************************)
EXTENDS Integers

CONSTANTS
  Key,                   \* position hashes that are ever looked up
  BucketWidth,           \* kBucketWidth: 4 in the code
  BucketIndex,           \* indices of buckets_
  index_for,             \* the bucket of a key: its low bits
  BestMove,              \* best moves an entry may hold
  NoMove,                \* has_best_move = false
  NoEntry,               \* occupied = false
  MaxGeneration          \* largest generation_: 255 in the code

Slot == 1 .. BucketWidth

TTEntryKind == {"midgame", "exact_endgame_score", "exact_endgame_wld"}
BoundType == {"exact", "lower", "upper"}

\* The arguments of store and store_value.
StoreRequest ==
  [key : Key, depth : Nat, score : Int, bound : BoundType,
   best_move : BestMove \cup {NoMove}, kind : TTEntryKind, selective : BOOLEAN]

Generation == 0 .. MaxGeneration

TTEntry ==
  [key : Key, depth : Nat, score : Int, bound : BoundType,
   best_move : BestMove \cup {NoMove}, kind : TTEntryKind, selective : BOOLEAN,
   generation : Generation]

CONSTANT StoreRequests   \* the stores the searches above the table make

ASSUME TableAssumption ==
  /\ BucketWidth \in Nat \ {0}
  /\ index_for \in [Key -> BucketIndex]
  /\ NoMove \notin BestMove
  /\ NoEntry \notin TTEntry
  /\ MaxGeneration \in Nat \ {0}
  /\ StoreRequests \subseteq StoreRequest

VARIABLES
  buckets,               \* buckets_
  generation_,
  touched                \* history variable: the slots written since the last new_generation

table_vars == <<buckets, generation_, touched>>

TypeOK ==
  /\ buckets \in [BucketIndex -> [Slot -> TTEntry \cup {NoEntry}]]
  /\ generation_ \in 1 .. MaxGeneration
  /\ touched \subseteq BucketIndex \X Slot

-----------------------------------------------------------------------------
(***************************************************************************)
(* Comparing entries.                                                      *)
(***************************************************************************)
bound_quality(bound) == IF bound = "exact" THEN 1 ELSE 0

bound_is_stronger(incoming, existing) ==
  \/ incoming.bound = "exact" /\ existing.bound # "exact"
  \/ /\ incoming.bound = existing.bound
     /\ \/ incoming.bound = "lower" /\ incoming.score > existing.score
        \/ incoming.bound = "upper" /\ incoming.score < existing.score

\* Mutant: of two entries as deep as each other the newer wins.
should_replace_if_as_deep(existing, incoming) == incoming.depth >= existing.depth

should_replace_same_key(existing, incoming) ==
  \/ incoming.depth > existing.depth
  \/ /\ incoming.depth = existing.depth
     /\ \/ bound_quality(incoming.bound) > bound_quality(existing.bound)
        \/ /\ bound_quality(incoming.bound) = bound_quality(existing.bound)
           /\ bound_is_stronger(incoming, existing)

make_entry(r, generation) ==
  [key |-> r.key, depth |-> r.depth, score |-> r.score, bound |-> r.bound,
   best_move |-> r.best_move, kind |-> r.kind, selective |-> r.selective,
   generation |-> generation]

first(slots) == CHOOSE i \in slots : \A j \in slots : i <= j

\* Mutant: of two entries of the same age the one in the lower slot goes.
evicted_before_by_age(a, b) == a.generation # generation_ /\ b.generation = generation_

\* The loop over a full bucket moves on from a to b only when b goes first.
evicted_before(a, b) ==
  LET a_old == a.generation # generation_
      b_old == b.generation # generation_
  IN  \/ a_old /\ ~b_old
      \/ /\ a_old = b_old
         /\ \/ a.depth < b.depth
            \/ /\ a.depth = b.depth
               /\ bound_quality(a.bound) < bound_quality(b.bound)

victim_slot(bucket) ==
  first({i \in Slot : \A j \in Slot : ~evicted_before(bucket[j], bucket[i])})

\* A current entry that is deeper than the incoming one, or as deep with a
\* better kind of bound, keeps its slot.
keeps_slot(victim, r) ==
  /\ victim.generation = generation_
  /\ \/ victim.depth > r.depth
     \/ victim.depth = r.depth /\ bound_quality(victim.bound) > bound_quality(r.bound)

-----------------------------------------------------------------------------
(***************************************************************************)
(* The table as its callers see it.                                        *)
(***************************************************************************)
\* Mutant: a midgame and an endgame entry of one key are taken for each other.
same_key_slots_of_any_kind(table, key, kind) ==
  {i \in Slot : LET entry == table[index_for[key]][i]
                IN  entry # NoEntry /\ entry.key = key}

same_key_slots(table, key, kind) ==
  {i \in Slot : LET entry == table[index_for[key]][i]
                IN  entry # NoEntry /\ entry.key = key /\ entry.kind = kind}

empty_slots(table, key) == {i \in Slot : table[index_for[key]][i] = NoEntry}

\* probe: the first entry with the key and the kind, or nullopt.
probe(table, key, kind) ==
  LET found == same_key_slots(table, key, kind)
  IN  IF found = {} THEN NoEntry ELSE table[index_for[key]][first(found)]

-----------------------------------------------------------------------------
no_entries == [b \in BucketIndex |-> [i \in Slot |-> NoEntry]]

TableInit ==
  /\ buckets = no_entries
  /\ generation_ = 1
  /\ touched = {}

clear ==
  /\ buckets' = no_entries
  /\ generation_' = 1
  /\ touched' = {}

\* Mutant: the counter wraps and the entries stay.
new_generation_wrapping ==
  /\ generation_' = (generation_ % MaxGeneration) + 1
  /\ touched' = {}
  /\ UNCHANGED buckets

\* The counter does not wrap: the root that would need a 256th generation
\* starts from an empty table.
new_generation ==
  \/ generation_ = MaxGeneration /\ clear
  \/ /\ generation_ # MaxGeneration
     /\ generation_' = generation_ + 1
     /\ touched' = {}
     /\ UNCHANGED buckets

put(key, slot, entry) ==
  /\ buckets' = [buckets EXCEPT ![index_for[key]][slot] = entry]
  /\ touched' = touched \cup {<<index_for[key], slot>>}
  /\ UNCHANGED generation_

\* The five ends of store_entry.
ReplaceSameKey(r) ==
  LET found == same_key_slots(buckets, r.key, r.kind)
      existing == probe(buckets, r.key, r.kind)
      incoming == make_entry(r, generation_)
  IN  /\ found # {}
      /\ should_replace_same_key(existing, incoming)
      /\ put(r.key, first(found),
             [incoming EXCEPT !.best_move = IF @ = NoMove THEN existing.best_move ELSE @])

GraftBestMove(r) ==
  LET found == same_key_slots(buckets, r.key, r.kind)
      existing == probe(buckets, r.key, r.kind)
  IN  /\ found # {}
      /\ ~should_replace_same_key(existing, r)
      /\ existing.best_move = NoMove /\ r.best_move # NoMove
      /\ put(r.key, first(found),
             [make_entry(existing, generation_) EXCEPT !.best_move = r.best_move])

\* Mutant: an empty slot is taken before the key is looked for.
FillEmptySlotFirst(r) ==
  /\ empty_slots(buckets, r.key) # {}
  /\ put(r.key, first(empty_slots(buckets, r.key)), make_entry(r, generation_))

FillEmptySlot(r) ==
  /\ same_key_slots(buckets, r.key, r.kind) = {}
  /\ empty_slots(buckets, r.key) # {}
  /\ put(r.key, first(empty_slots(buckets, r.key)), make_entry(r, generation_))

ReplaceVictim(r) ==
  LET slot == victim_slot(buckets[index_for[r.key]])
  IN  /\ same_key_slots(buckets, r.key, r.kind) = {}
      /\ empty_slots(buckets, r.key) = {}
      /\ ~keeps_slot(buckets[index_for[r.key]][slot], r)
      /\ put(r.key, slot, make_entry(r, generation_))

RejectStore(r) ==
  LET existing == probe(buckets, r.key, r.kind)
      bucket == buckets[index_for[r.key]]
  IN  /\ \/ /\ existing # NoEntry
            /\ ~should_replace_same_key(existing, r)
            /\ existing.best_move # NoMove \/ r.best_move = NoMove
         \/ /\ existing = NoEntry
            /\ empty_slots(buckets, r.key) = {}
            /\ keeps_slot(bucket[victim_slot(bucket)], r)
      /\ UNCHANGED table_vars

store_entry(r) ==
  \/ ReplaceSameKey(r)
  \/ GraftBestMove(r)
  \/ FillEmptySlot(r)
  \/ ReplaceVictim(r)
  \/ RejectStore(r)

TableNext ==
  \/ new_generation
  \/ clear
  \/ \E r \in StoreRequests : store_entry(r)

TableSpec == TableInit /\ [][TableNext]_table_vars

-----------------------------------------------------------------------------
(***************************************************************************)
(* Properties.                                                             *)
(***************************************************************************)

\* An entry lies in the bucket its key is looked up in, and no bucket holds
\* two entries with the same key and kind: a probe has one possible answer and
\* an update never leaves an older copy behind it.
OneEntryPerKeyAndKind ==
  \A b \in BucketIndex : \A i \in Slot :
    LET entry == buckets[b][i]
    IN  entry # NoEntry =>
          /\ index_for[entry.key] = b
          /\ \A j \in Slot : LET other == buckets[b][j]
                             IN  (other # NoEntry /\ other.key = entry.key
                                    /\ other.kind = entry.kind) => i = j

\* An entry has the current generation exactly when this root wrote it, also
\* when the counter has run out and started again (docs/architecture/search.md,
\* "generation aging").  Otherwise entries of a root 255 roots ago would be
\* protected as if they were new.
GenerationIsTruthful ==
  \A b \in BucketIndex : \A i \in Slot :
    buckets[b][i] # NoEntry =>
      (buckets[b][i].generation = generation_ <=> <<b, i>> \in touched)

\* An entry of the table was written by some store with its key, kind, depth,
\* score and bound, and its best move by some store with its key and kind: the
\* grafting of best moves never joins two positions.
EntriesWereStored ==
  \A b \in BucketIndex : \A i \in Slot :
    LET entry == buckets[b][i]
    IN  entry # NoEntry =>
          /\ \E r \in StoreRequests :
               entry = [make_entry(r, entry.generation) EXCEPT !.best_move = entry.best_move]
          /\ \E r \in StoreRequests :
               r.key = entry.key /\ r.kind = entry.kind /\ r.best_move = entry.best_move

\* What a table holds for a key and a kind only improves while it is held: it
\* gets deeper, or at the same depth exact or tighter, and a best move is
\* never forgotten for none.
SameKeyOnlyImproves ==
  [][\A key \in Key, kind \in TTEntryKind :
       LET before == probe(buckets, key, kind)
           after == probe(buckets', key, kind)
       IN  (before # NoEntry /\ after # NoEntry) =>
             /\ after.depth >= before.depth
             /\ before.best_move # NoMove => after.best_move # NoMove
             /\ after.depth = before.depth =>
                  \/ after.bound = "exact" /\ before.bound # "exact"
                  \/ /\ after.bound = before.bound
                     /\ after.bound = "exact" => after.score = before.score
                     /\ after.bound = "lower" => after.score >= before.score
                     /\ after.bound = "upper" => after.score <= before.score]_table_vars

\* An entry is shallower than the other, or as deep with a bound no better.
no_better(entry, other) ==
  \/ entry.depth < other.depth
  \/ /\ entry.depth = other.depth
     /\ entry.bound = "exact" => other.bound = "exact"

\* An entry is worth no more than another one when this root has not written it
\* and has written the other, or, of the same age, when it is shallower or as
\* deep with a bound that is no better.
worth_no_more(b, i, j) ==
  \/ <<b, i>> \notin touched /\ <<b, j>> \in touched
  \/ /\ <<b, i>> \in touched <=> <<b, j>> \in touched
     /\ no_better(buckets[b][i], buckets[b][j])

\* A store costs another position its entry only when the bucket is full, and
\* the entry is the one worth least of its bucket: it is of an earlier root
\* while there is such an entry, of those the shallowest, and then one whose
\* bound is not exact while there is one.  An entry of this root goes only for
\* one that is worth at least as much.
EvictionIsLastResort ==
  [][\A b \in BucketIndex : \A i \in Slot :
       LET before == buckets[b][i]
           after == buckets'[b][i]
       IN  (before # NoEntry /\ after # NoEntry
              /\ <<after.key, after.kind>> # <<before.key, before.kind>>) =>
             /\ \A j \in Slot : buckets[b][j] # NoEntry /\ worth_no_more(b, i, j)
             /\ <<b, i>> \in touched => no_better(before, after)]_table_vars

-----------------------------------------------------------------------------
(***************************************************************************)
(* The table keeps the promise of SearchCache: a claim is an entry without *)
(* its generation, and the claim held for a key is what a probe returns.   *)
(***************************************************************************)
claim_of(entry, best_move) ==
  [depth |-> entry.depth, score |-> entry.score, bound |-> entry.bound,
   best_move |-> best_move, selective |-> entry.selective]

TableClaim == {claim_of(r, m) : r \in StoreRequests, m \in BestMove \cup {NoMove}}

ASSUME NoClaimAssumption == NoEntry \notin TableClaim

probed(k) ==
  LET entry == probe(buckets, k[1], k[2])
  IN  IF entry = NoEntry THEN NoEntry ELSE claim_of(entry, entry.best_move)

Cache ==
  INSTANCE SearchCache WITH
    CacheKey <- Key \X TTEntryKind,
    Claim <- TableClaim,
    NoClaim <- NoEntry,
    NoBestMove <- NoMove,
    claim <- [k \in Key \X TTEntryKind |-> probed(k)]

\* The table implements the cache: a store changes what is known of its own
\* position only by the stored claim and its best move, and of at most one
\* other position, which is forgotten.
ImplementsCache == Cache!CacheSpec
=============================================================================
