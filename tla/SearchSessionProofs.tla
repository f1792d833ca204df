-------------------------- MODULE SearchSessionProofs --------------------------
(***************************************************************************)
(* The transposition table is consistent for any number of buckets, slots, *)
(* keys and generations, and for any stores its callers make; and a        *)
(* session never lets a search find a value of another evaluator,          *)
(* revision, option set or domain, for any table, any stores and any       *)
(* sequence of searches, clears and evaluator changes.                     *)
(***************************************************************************)
EXTENDS SearchSession, WellFoundedInduction, TLAPS

-----------------------------------------------------------------------------
(***************************************************************************)
(* The table, whatever its callers store.                                  *)
(***************************************************************************)

\* The inductive invariant: every named invariant of the table.  The uniqueness
\* of entries needs that a store writes a new key only when no slot has it.
TableInv ==
  /\ TypeOK
  /\ OneEntryPerKeyAndKind
  /\ GenerationIsTruthful
  /\ EntriesWereStored

-----------------------------------------------------------------------------
(***************************************************************************)
(* Choosing slots.                                                         *)
(***************************************************************************)
less == OpToRel(<, Nat)

\* A set of natural numbers has a least element.
LEMMA LeastNatural ==
  ASSUME NEW T \in SUBSET Nat, T # {}
  PROVE  \E x \in T : \A y \in T : x <= y
<1>1. PICK x \in T : \A y \in T : ~ (<<y, x>> \in less)
  <2>1. IsWellFoundedOn(less, Nat)
    BY NatLessThanWellFounded DEF less
  <2>. QED BY <2>1, WFMin
<1>2. ASSUME NEW y \in T PROVE ~ (y < x)
  <2>1. y \in Nat /\ x \in Nat /\ (y < x => <<y, x>> \in less)
    BY DEF less, OpToRel
  <2>. QED BY <1>1, <2>1, Zenon
<1>. QED BY <1>2

\* The loops over a bucket stop at the lowest slot of those they look for.
LEMMA FirstSlot ==
  ASSUME NEW slots \in SUBSET Slot, slots # {}
  PROVE  first(slots) \in slots
<1>1. slots \in SUBSET Nat
  BY TableAssumption DEF Slot
<1>. QED BY <1>1, LeastNatural DEF first

\* In a full bucket the victim loop ends at a slot no other slot goes before.
LEMMA VictimSlot ==
  ASSUME NEW bucket \in [Slot -> TTEntry]
  PROVE  /\ victim_slot(bucket) \in Slot
         /\ \A j \in Slot : ~evicted_before(bucket[j], bucket[victim_slot(bucket)])
<1>. DEFINE minimal == {i \in Slot : \A j \in Slot : ~evicted_before(bucket[j], bucket[i])}
            old == {i \in Slot : bucket[i].generation # generation_}
            eldest == IF old = {} THEN Slot ELSE old
            depths == {bucket[i].depth : i \in eldest}
<1>1. Slot # {} /\ eldest # {} /\ eldest \subseteq Slot
  BY TableAssumption DEF Slot
<1>2. depths \in SUBSET Nat /\ depths # {}
  BY <1>1 DEF TTEntry
<1>3. PICK d \in depths : \A e \in depths : d <= e
  BY <1>2, LeastNatural
<1>4. PICK i \in eldest : /\ bucket[i].depth = d
                          /\ \A j \in eldest : bucket[j].depth = d =>
                               ~(bound_quality(bucket[j].bound) < bound_quality(bucket[i].bound))
  <2>. DEFINE shallowest == {j \in eldest : bucket[j].depth = d}
  <2>1. shallowest # {}
    BY <1>3
  <2>2. CASE \E j \in shallowest : bucket[j].bound # "exact"
    BY <2>2 DEF bound_quality
  <2>3. CASE \A j \in shallowest : bucket[j].bound = "exact"
    BY <2>1, <2>3 DEF bound_quality
  <2>. QED BY <2>2, <2>3
<1>5. i \in minimal
  <2>. SUFFICES ASSUME NEW j \in Slot, evicted_before(bucket[j], bucket[i]) PROVE FALSE
    BY <1>1
  <2>1. j \in eldest
    BY DEF evicted_before
  <2>2. (bucket[j].generation # generation_) = (bucket[i].generation # generation_)
    BY <2>1
  <2>3. bucket[j].depth \in Nat /\ bucket[i].depth \in Nat /\ d <= bucket[j].depth
    BY <1>1, <1>3, <2>1 DEF TTEntry
  <2>. QED BY <1>4, <2>1, <2>2, <2>3 DEF evicted_before
<1>6. first(minimal) \in minimal
  BY <1>5, FirstSlot
<1>. QED BY <1>6 DEF victim_slot

\* What the search for a slot with a key and a kind finds.
LEMMA ProbeFinds ==
  ASSUME TypeOK, NEW key \in Key, NEW kind \in TTEntryKind
  PROVE  LET found == same_key_slots(buckets, key, kind)
             existing == probe(buckets, key, kind)
         IN  /\ found \subseteq Slot
             /\ found = {} => existing = NoEntry
             /\ found # {} => /\ first(found) \in found
                              /\ existing = buckets[index_for[key]][first(found)]
                              /\ existing \in TTEntry
                              /\ existing.key = key /\ existing.kind = kind
                              /\ existing # NoEntry
<1>. DEFINE found == same_key_slots(buckets, key, kind)
<1>1. index_for[key] \in BucketIndex /\ buckets[index_for[key]] \in [Slot -> TTEntry \cup {NoEntry}]
  BY TableAssumption DEF TypeOK
<1>2. found \subseteq Slot
  BY DEF same_key_slots
<1>3. found # {} => first(found) \in found
  BY <1>2, FirstSlot
<1>. QED BY <1>1, <1>2, <1>3 DEF same_key_slots, probe

CacheKey == Key \X TTEntryKind

\* An entry made of stores makes a claim some store made.
LEMMA EntryClaims ==
  ASSUME NEW entry \in TTEntry,
         \E s \in StoreRequests :
           entry = [make_entry(s, entry.generation) EXCEPT !.best_move = entry.best_move]
  PROVE  claim_of(entry, entry.best_move) \in TableClaim
<1>1. PICK s \in StoreRequests :
        entry = [make_entry(s, entry.generation) EXCEPT !.best_move = entry.best_move]
  OBVIOUS
<1>2. /\ entry.depth = s.depth /\ entry.score = s.score
      /\ entry.bound = s.bound /\ entry.selective = s.selective
  BY <1>1 DEF make_entry
<1>3. claim_of(entry, entry.best_move) = claim_of(s, entry.best_move)
  BY <1>2 DEF claim_of
<1>4. entry.best_move \in BestMove \cup {NoMove}
  BY DEF TTEntry
<1>. QED BY <1>3, <1>4 DEF TableClaim

\* The claims of a consistent table are claims some store made.
LEMMA ProbedIsClaim ==
  ASSUME TableInv, NEW k \in CacheKey
  PROVE  probed(k) \in TableClaim \cup {NoEntry}
<1>. DEFINE found == same_key_slots(buckets, k[1], k[2])
            existing == probe(buckets, k[1], k[2])
<1>1. k[1] \in Key /\ k[2] \in TTEntryKind /\ index_for[k[1]] \in BucketIndex
  BY TableAssumption DEF CacheKey
<1>2. CASE found = {}
  BY <1>1, <1>2, ProbeFinds DEF TableInv, probed
<1>3. CASE found # {}
  <2>1. /\ first(found) \in Slot
        /\ existing = buckets[index_for[k[1]]][first(found)]
        /\ existing \in TTEntry /\ existing # NoEntry
    BY <1>1, <1>3, ProbeFinds DEF TableInv
  <2>2. \E s \in StoreRequests :
          existing = [make_entry(s, existing.generation) EXCEPT !.best_move = existing.best_move]
    BY <1>1, <2>1 DEF TableInv, EntriesWereStored
  <2>. QED BY <2>1, <2>2, EntryClaims DEF probed
<1>. QED BY <1>2, <1>3

-----------------------------------------------------------------------------
(***************************************************************************)
(* Writing one slot.                                                       *)
(***************************************************************************)

\* A write keeps the invariant when its entry is of the current generation,
\* combines stores of its own key and kind, and no other slot has them.
Writable(r, slot, entry) ==
  /\ entry \in TTEntry
  /\ entry.key = r.key /\ entry.kind = r.kind
  /\ entry.generation = generation_
  /\ same_key_slots(buckets, r.key, r.kind) \subseteq {slot}
  /\ \E s \in StoreRequests :
       entry = [make_entry(s, entry.generation) EXCEPT !.best_move = entry.best_move]
  /\ \E s \in StoreRequests :
       s.key = r.key /\ s.kind = r.kind /\ s.best_move = entry.best_move

LEMMA PutKeepsInv ==
  ASSUME TableInv, NEW r \in StoreRequests, NEW slot \in Slot, NEW entry,
         Writable(r, slot, entry), put(r.key, slot, entry)
  PROVE  TableInv'
<1>. DEFINE b == index_for[r.key]
<1>1. r.key \in Key /\ b \in BucketIndex /\ entry # NoEntry /\ entry \in TTEntry
  BY TableAssumption DEF Writable, StoreRequest
<1>2. /\ buckets \in [BucketIndex -> [Slot -> TTEntry \cup {NoEntry}]]
      /\ buckets' = [buckets EXCEPT ![b][slot] = entry]
      /\ generation_' = generation_ /\ touched' = touched \cup {<<b, slot>>}
  BY DEF TableInv, TypeOK, put
<1>3. \A c \in BucketIndex : \A i \in Slot :
        buckets'[c][i] = IF c = b /\ i = slot THEN entry ELSE buckets[c][i]
  BY <1>1, <1>2
<1>4. TypeOK'
  BY <1>1, <1>2 DEF TableInv, TypeOK
<1>5. OneEntryPerKeyAndKind'
  <2>1. \A i \in Slot : (buckets[b][i] # NoEntry /\ buckets[b][i].key = entry.key
                          /\ buckets[b][i].kind = entry.kind) => i = slot
    BY DEF Writable, same_key_slots
  <2>. QED BY <1>1, <1>3, <2>1 DEF TableInv, OneEntryPerKeyAndKind, Writable
<1>6. GenerationIsTruthful'
  BY <1>1, <1>2, <1>3 DEF TableInv, GenerationIsTruthful, Writable
<1>7. EntriesWereStored'
  BY <1>1, <1>3 DEF TableInv, EntriesWereStored, Writable
<1>. QED BY <1>4, <1>5, <1>6, <1>7 DEF TableInv

\* An entry that makes a claim the cache allows for its key: the stored one,
\* or the known one, or one of the two with the other's best move.
Merges(r, entry) ==
  claim_of(entry, entry.best_move)
    \in Cache!Merged(probed(<<r.key, r.kind>>), claim_of(r, r.best_move))

\* The three ways of writing a slot satisfy the condition, and the slot is
\* the one that has the key, an empty one, or the victim of a full bucket.
LEMMA WritesAreWritable ==
  ASSUME TableInv, NEW r \in StoreRequests,
         ReplaceSameKey(r) \/ GraftBestMove(r) \/ FillEmptySlot(r) \/ ReplaceVictim(r)
  PROVE  \E slot \in Slot, entry \in TTEntry :
           Writable(r, slot, entry) /\ Merges(r, entry) /\ put(r.key, slot, entry)
<1>. DEFINE found == same_key_slots(buckets, r.key, r.kind)
            existing == probe(buckets, r.key, r.kind)
            incoming == make_entry(r, generation_)
            known == probed(<<r.key, r.kind>>)
            new == claim_of(r, r.best_move)
<1>1. r \in StoreRequest /\ r.key \in Key /\ r.kind \in TTEntryKind /\ r.best_move \in BestMove \cup {NoMove}
  BY TableAssumption DEF StoreRequest
<1>2. generation_ \in Generation
  BY TableAssumption DEF TableInv, TypeOK, Generation
<1>3. /\ incoming \in TTEntry /\ incoming.key = r.key /\ incoming.kind = r.kind
      /\ incoming.generation = generation_ /\ incoming.best_move = r.best_move
      /\ incoming = [make_entry(r, incoming.generation) EXCEPT !.best_move = incoming.best_move]
  BY <1>1, <1>2 DEF make_entry, TTEntry, StoreRequest
<1>4. index_for[r.key] \in BucketIndex
      /\ buckets[index_for[r.key]] \in [Slot -> TTEntry \cup {NoEntry}]
  BY <1>1, TableAssumption DEF TableInv, TypeOK
<1>5. ASSUME found # {}
      PROVE  /\ first(found) \in Slot /\ found \subseteq {first(found)}
             /\ existing \in TTEntry /\ existing.key = r.key /\ existing.kind = r.kind
             /\ \E s \in StoreRequests :
                  existing = [make_entry(s, existing.generation) EXCEPT !.best_move = existing.best_move]
             /\ \E s \in StoreRequests :
                  s.key = r.key /\ s.kind = r.kind /\ s.best_move = existing.best_move
  <2>1. /\ found \subseteq Slot /\ first(found) \in found
        /\ existing = buckets[index_for[r.key]][first(found)]
        /\ existing \in TTEntry /\ existing # NoEntry /\ existing.key = r.key /\ existing.kind = r.kind
    BY <1>1, <1>5, ProbeFinds DEF TableInv
  <2>2. found \subseteq {first(found)}
    <3>1. SUFFICES ASSUME NEW i \in found PROVE i = first(found)
      OBVIOUS
    <3>2. /\ i \in Slot /\ first(found) \in Slot
          /\ buckets[index_for[r.key]][i] # NoEntry
          /\ buckets[index_for[r.key]][i].key = existing.key
          /\ buckets[index_for[r.key]][i].kind = existing.kind
      BY <2>1 DEF same_key_slots
    <3>. QED BY <1>4, <2>1, <3>2 DEF TableInv, OneEntryPerKeyAndKind
  <2>. QED BY <1>4, <2>1, <2>2 DEF TableInv, EntriesWereStored
<1>6. found # {} => known = claim_of(existing, existing.best_move) /\ known # NoEntry
  <2>1. found # {} => existing # NoEntry
    BY <1>1, ProbeFinds DEF TableInv
  <2>. QED BY <1>5, <2>1, EntryClaims, NoClaimAssumption DEF probed
<1>7. Merges(r, incoming)
  <2>1. claim_of(incoming, incoming.best_move) = new
    BY <1>3 DEF claim_of, make_entry
  <2>. QED BY <2>1 DEF Merges, Cache!Merged
<1>8. CASE ReplaceSameKey(r)
  <2>. DEFINE entry == [incoming EXCEPT !.best_move = IF @ = NoMove THEN existing.best_move ELSE @]
  <2>1. found # {} /\ put(r.key, first(found), entry)
    BY <1>8 DEF ReplaceSameKey
  <2>2. /\ entry \in TTEntry /\ entry.key = r.key /\ entry.kind = r.kind
        /\ entry.generation = generation_
        /\ entry = [make_entry(r, entry.generation) EXCEPT !.best_move = entry.best_move]
        /\ entry.best_move = IF r.best_move = NoMove THEN existing.best_move ELSE r.best_move
    BY <1>2, <1>1, <1>5, <2>1 DEF make_entry, TTEntry, StoreRequest
  <2>3. Writable(r, first(found), entry)
    BY <1>5, <2>1, <2>2 DEF Writable
  <2>4. claim_of(entry, entry.best_move) = Cache!WithBestMove(new, known)
    <3>1. /\ entry.depth = r.depth /\ entry.score = r.score
          /\ entry.bound = r.bound /\ entry.selective = r.selective
      BY <2>2 DEF make_entry
    <3>. QED BY <1>6, <2>1, <2>2, <3>1 DEF claim_of, Cache!WithBestMove
  <2>5. Merges(r, entry)
    BY <1>6, <1>5, <2>1, <2>4 DEF Merges, Cache!Merged
  <2>. QED BY <1>5, <2>1, <2>2, <2>3, <2>5
<1>9. CASE GraftBestMove(r)
  <2>. DEFINE entry == [make_entry(existing, generation_) EXCEPT !.best_move = r.best_move]
  <2>1. found # {} /\ put(r.key, first(found), entry)
    BY <1>9 DEF GraftBestMove
  <2>2. PICK s \in StoreRequests :
          existing = [make_entry(s, existing.generation) EXCEPT !.best_move = existing.best_move]
    BY <1>5, <2>1
  <2>3. /\ entry \in TTEntry /\ entry.key = r.key /\ entry.kind = r.kind
        /\ entry.generation = generation_ /\ entry.best_move = r.best_move
        /\ entry = [make_entry(s, entry.generation) EXCEPT !.best_move = entry.best_move]
    <3>1. existing = [key |-> s.key, depth |-> s.depth, score |-> s.score, bound |-> s.bound,
                      best_move |-> existing.best_move, kind |-> s.kind,
                      selective |-> s.selective, generation |-> existing.generation]
      BY <2>2 DEF make_entry
    <3>2. entry = [key |-> s.key, depth |-> s.depth, score |-> s.score, bound |-> s.bound,
                   best_move |-> r.best_move, kind |-> s.kind,
                   selective |-> s.selective, generation |-> generation_]
      BY <3>1 DEF make_entry
    <3>3. entry = [make_entry(s, entry.generation) EXCEPT !.best_move = entry.best_move]
      BY <3>2 DEF make_entry
    <3>4. s \in StoreRequest
      BY TableAssumption
    <3>5. entry \in TTEntry
      BY <1>1, <1>2, <3>2, <3>4 DEF TTEntry, StoreRequest
    <3>6. entry.key = existing.key /\ entry.kind = existing.kind
      BY <3>1, <3>2, <1>5, <2>1
    <3>. QED BY <1>5, <2>1, <3>2, <3>3, <3>5, <3>6
  <2>4. Writable(r, first(found), entry)
    BY <1>5, <2>1, <2>3 DEF Writable
  <2>5. claim_of(entry, entry.best_move) = Cache!WithBestMove(known, new)
    <3>1. /\ entry.depth = existing.depth /\ entry.score = existing.score
          /\ entry.bound = existing.bound /\ entry.selective = existing.selective
      BY DEF make_entry
    <3>2. existing.best_move = NoMove
      BY <1>9 DEF GraftBestMove
    <3>. QED BY <1>6, <2>1, <2>3, <3>1, <3>2 DEF claim_of, Cache!WithBestMove
  <2>6. Merges(r, entry)
    BY <1>6, <1>5, <2>1, <2>5 DEF Merges, Cache!Merged
  <2>. QED BY <1>5, <2>1, <2>3, <2>4, <2>6
<1>10. CASE FillEmptySlot(r)
  <2>1. empty_slots(buckets, r.key) \subseteq Slot /\ empty_slots(buckets, r.key) # {}
    BY <1>10 DEF FillEmptySlot, empty_slots
  <2>2. first(empty_slots(buckets, r.key)) \in Slot
    BY <2>1, FirstSlot
  <2>. QED BY <1>3, <1>7, <1>10, <2>2 DEF FillEmptySlot, Writable
<1>11. CASE ReplaceVictim(r)
  <2>1. buckets[index_for[r.key]] \in [Slot -> TTEntry]
    BY <1>4, <1>11 DEF ReplaceVictim, empty_slots
  <2>. QED BY <1>3, <1>7, <1>11, <2>1, VictimSlot DEF ReplaceVictim, Writable
<1>. QED BY <1>8, <1>9, <1>10, <1>11

-----------------------------------------------------------------------------
(***************************************************************************)
(* The invariant.                                                          *)
(***************************************************************************)
LEMMA EmptyTableInv ==
  ASSUME buckets = no_entries, generation_ = 1, touched = {}
  PROVE  TableInv
<1>1. \A b \in BucketIndex : \A i \in Slot : buckets[b][i] = NoEntry
  BY DEF no_entries
<1>2. TypeOK
  BY TableAssumption DEF TypeOK, no_entries
<1>. QED BY <1>1, <1>2 DEF TableInv, OneEntryPerKeyAndKind, GenerationIsTruthful, EntriesWereStored

LEMMA ClearInv ==
  ASSUME clear
  PROVE  TableInv'
<1>1. \A b \in BucketIndex : \A i \in Slot : buckets'[b][i] = NoEntry
  BY DEF clear, no_entries
<1>2. TypeOK'
  BY TableAssumption DEF TypeOK, no_entries, clear
<1>. QED BY <1>1, <1>2 DEF TableInv, OneEntryPerKeyAndKind, GenerationIsTruthful, EntriesWereStored, clear

\* The generation counter is above every generation in the table, so the next
\* generation is new: part of the invariant below.
GenerationsArePast ==
  \A b \in BucketIndex : \A i \in Slot :
    buckets[b][i] # NoEntry => buckets[b][i].generation <= generation_

IInv == TableInv /\ GenerationsArePast

LEMMA NewGenerationIInv ==
  ASSUME IInv, new_generation
  PROVE  IInv'
<1>1. CASE generation_ = MaxGeneration /\ clear
  <2>1. GenerationsArePast'
    BY <1>1 DEF GenerationsArePast, clear, no_entries
  <2>. QED BY <1>1, <2>1, ClearInv DEF IInv
<1>2. CASE generation_ # MaxGeneration /\ generation_' = generation_ + 1 /\ touched' = {} /\ UNCHANGED buckets
  <2>1. generation_ \in Nat /\ generation_' \in 1 .. MaxGeneration
    BY <1>2, TableAssumption DEF IInv, TableInv, TypeOK
  <2>2. TypeOK'
    BY <1>2, <2>1 DEF IInv, TableInv, TypeOK
  <2>3. \A b \in BucketIndex : \A i \in Slot :
          buckets[b][i] # NoEntry => /\ buckets[b][i].generation \in Nat
                                     /\ buckets[b][i].generation <= generation_
    BY DEF IInv, TableInv, TypeOK, GenerationsArePast, TTEntry, Generation
  <2>4. GenerationIsTruthful' /\ GenerationsArePast'
    BY <1>2, <2>1, <2>3 DEF GenerationIsTruthful, GenerationsArePast
  <2>5. OneEntryPerKeyAndKind' /\ EntriesWereStored'
    BY <1>2 DEF IInv, TableInv, OneEntryPerKeyAndKind, EntriesWereStored
  <2>. QED BY <2>2, <2>4, <2>5 DEF IInv, TableInv
<1>. QED BY <1>1, <1>2 DEF new_generation

LEMMA StoreIInv ==
  ASSUME IInv, NEW r \in StoreRequests, store_entry(r)
  PROVE  IInv'
<1>1. CASE RejectStore(r)
  BY <1>1 DEF RejectStore, table_vars, IInv, TableInv, TypeOK, OneEntryPerKeyAndKind,
              GenerationIsTruthful, EntriesWereStored, GenerationsArePast
<1>2. CASE ReplaceSameKey(r) \/ GraftBestMove(r) \/ FillEmptySlot(r) \/ ReplaceVictim(r)
  <2>1. PICK slot \in Slot, entry \in TTEntry : Writable(r, slot, entry) /\ put(r.key, slot, entry)
    BY <1>2, WritesAreWritable DEF IInv
  <2>2. TableInv'
    BY <2>1, PutKeepsInv DEF IInv
  <2>3. r.key \in Key /\ index_for[r.key] \in BucketIndex
    BY TableAssumption DEF StoreRequest
  <2>4. \A b \in BucketIndex : \A i \in Slot :
          buckets'[b][i] = IF b = index_for[r.key] /\ i = slot THEN entry ELSE buckets[b][i]
    BY <2>1, <2>3 DEF put, IInv, TableInv, TypeOK
  <2>5. generation_' = generation_ /\ entry.generation <= generation_
    BY <2>1 DEF put, Writable, TTEntry, Generation
  <2>. QED BY <2>2, <2>4, <2>5 DEF IInv, GenerationsArePast
<1>. QED BY <1>1, <1>2 DEF store_entry

LEMMA TableInitIInv == TableInit => IInv
  BY EmptyTableInv DEF TableInit, IInv, GenerationsArePast, no_entries

LEMMA TableNextIInv == IInv /\ [TableNext]_table_vars => IInv'
<1>. SUFFICES ASSUME IInv, [TableNext]_table_vars PROVE IInv'
  OBVIOUS
<1>1. CASE new_generation
  BY <1>1, NewGenerationIInv
<1>2. CASE clear
  BY <1>2, ClearInv DEF IInv, GenerationsArePast, clear, no_entries
<1>3. ASSUME NEW r \in StoreRequests, store_entry(r) PROVE IInv'
  BY <1>3, StoreIInv
<1>4. CASE UNCHANGED table_vars
  BY <1>4 DEF table_vars, IInv, TableInv, TypeOK, OneEntryPerKeyAndKind,
              GenerationIsTruthful, EntriesWereStored, GenerationsArePast
<1>. QED BY <1>1, <1>2, <1>3, <1>4 DEF TableNext

LEMMA TableIInv == TableSpec => []IInv
  BY TableInitIInv, TableNextIInv, PTL DEF TableSpec

\* The table never mixes two positions, never holds one twice, and ages its
\* entries truthfully although the generation counter is finite.
THEOREM TableCorrect == TableSpec => [](TypeOK /\ OneEntryPerKeyAndKind /\ EntriesWereStored)
<1>1. IInv => TypeOK /\ OneEntryPerKeyAndKind /\ EntriesWereStored
  BY DEF IInv, TableInv
<1>. QED BY <1>1, TableIInv, PTL

THEOREM GenerationCorrect == TableSpec => []GenerationIsTruthful
<1>1. IInv => GenerationIsTruthful
  BY DEF IInv, TableInv
<1>. QED BY <1>1, TableIInv, PTL

-----------------------------------------------------------------------------
(***************************************************************************)
(* The table implements the cache.                                         *)
(***************************************************************************)
\* After a write, its key is known by the entry written; every other key by
\* what was known, or by nothing when the slot was its own.
LEMMA PutProbes ==
  ASSUME TableInv, NEW r \in StoreRequests, NEW slot \in Slot, NEW entry,
         Writable(r, slot, entry), put(r.key, slot, entry)
  PROVE  /\ probe(buckets', r.key, r.kind) = entry
         /\ probed(<<r.key, r.kind>>)' = claim_of(entry, entry.best_move)
         /\ \E lost \in CacheKey :
              \A k \in CacheKey \ {<<r.key, r.kind>>} :
                \/ /\ probe(buckets', k[1], k[2]) = probe(buckets, k[1], k[2])
                   /\ probed(k)' = probed(k)
                \/ /\ k = lost
                   /\ probe(buckets', k[1], k[2]) = NoEntry
                   /\ probed(k)' = NoEntry
<1>. DEFINE b == index_for[r.key]
            before == buckets[b][slot]
            lost == IF before = NoEntry THEN <<r.key, r.kind>> ELSE <<before.key, before.kind>>
<1>1. /\ r.key \in Key /\ r.kind \in TTEntryKind /\ b \in BucketIndex
      /\ entry # NoEntry /\ entry.key = r.key /\ entry.kind = r.kind
  BY TableAssumption DEF Writable, StoreRequest
<1>2. \A c \in BucketIndex : \A i \in Slot :
        buckets'[c][i] = IF c = b /\ i = slot THEN entry ELSE buckets[c][i]
  BY <1>1 DEF TableInv, TypeOK, put
<1>3. /\ probe(buckets', r.key, r.kind) = entry
      /\ probed(<<r.key, r.kind>>)' = claim_of(entry, entry.best_move)
  <2>1. same_key_slots(buckets', r.key, r.kind) = {slot}
    BY <1>1, <1>2 DEF same_key_slots, Writable
  <2>2. first({slot}) = slot
    BY FirstSlot
  <2>3. probe(buckets', r.key, r.kind) = entry
    BY <1>1, <1>2, <2>1, <2>2 DEF probe
  <2>. QED BY <1>1, <2>3 DEF probed
<1>4. lost \in CacheKey
  BY <1>1 DEF CacheKey, TableInv, TypeOK, TTEntry
<1>5. ASSUME NEW k \in CacheKey \ {<<r.key, r.kind>>}
      PROVE  \/ /\ probe(buckets', k[1], k[2]) = probe(buckets, k[1], k[2])
                /\ probed(k)' = probed(k)
             \/ /\ k = lost
                /\ probe(buckets', k[1], k[2]) = NoEntry
                /\ probed(k)' = NoEntry
  <2>. DEFINE found == same_key_slots(buckets, k[1], k[2])
              found_now == same_key_slots(buckets', k[1], k[2])
  <2>1. /\ k[1] \in Key /\ k[2] \in TTEntryKind /\ index_for[k[1]] \in BucketIndex
        /\ k = <<k[1], k[2]>> /\ ~(k[1] = r.key /\ k[2] = r.kind)
    BY TableAssumption DEF CacheKey
  <2>2. CASE index_for[k[1]] = b /\ slot \in found
    <3>1. /\ before # NoEntry /\ before.key = k[1] /\ before.kind = k[2]
      BY <2>2 DEF same_key_slots
    <3>2. found \subseteq {slot}
      <4>1. SUFFICES ASSUME NEW i \in found PROVE i = slot
        OBVIOUS
      <4>2. /\ i \in Slot /\ buckets[b][i] # NoEntry
            /\ buckets[b][i].key = before.key /\ buckets[b][i].kind = before.kind
        BY <2>2, <3>1 DEF same_key_slots
      <4>. QED BY <1>1, <3>1, <4>2 DEF TableInv, OneEntryPerKeyAndKind
    <3>3. found_now = {}
      BY <1>1, <1>2, <2>1, <2>2, <3>2 DEF same_key_slots
    <3>4. probe(buckets', k[1], k[2]) = NoEntry /\ probed(k)' = NoEntry
      BY <3>3 DEF probed, probe
    <3>. QED BY <2>1, <3>1, <3>4
  <2>3. CASE ~(index_for[k[1]] = b /\ slot \in found)
    <3>1. found_now = found
      BY <1>1, <1>2, <2>1, <2>3 DEF same_key_slots
    <3>2. found \subseteq Slot /\ (found # {} => first(found) \in found)
      BY <2>1, ProbeFinds DEF TableInv
    <3>3. found # {} => buckets'[index_for[k[1]]][first(found)] = buckets[index_for[k[1]]][first(found)]
      BY <1>2, <2>1, <2>3, <3>2
    <3>4. probe(buckets', k[1], k[2]) = probe(buckets, k[1], k[2])
      BY <3>1, <3>3 DEF probe
    <3>. QED BY <3>4 DEF probed
  <2>. QED BY <2>2, <2>3
<1>. QED BY <1>3, <1>4, <1>5

LEMMA TableInitMaps == TableInit => Cache!CacheInit
<1>. SUFFICES ASSUME TableInit PROVE \A k \in CacheKey : probed(k) = NoEntry
  BY DEF Cache!CacheInit, CacheKey
<1>. TAKE k \in CacheKey
<1>1. same_key_slots(buckets, k[1], k[2]) = {}
  BY TableAssumption DEF TableInit, no_entries, same_key_slots, CacheKey
<1>. QED BY <1>1 DEF probed, probe

LEMMA ClearForgets == clear => Cache!ForgetAll
<1>. SUFFICES ASSUME clear PROVE \A k \in CacheKey : probed(k)' = NoEntry
  BY DEF Cache!ForgetAll, CacheKey
<1>. TAKE k \in CacheKey
<1>1. same_key_slots(buckets', k[1], k[2]) = {}
  BY TableAssumption DEF clear, no_entries, same_key_slots, CacheKey
<1>. QED BY <1>1 DEF probed, probe

\* A store that is not rejected is a store of the cache.
LEMMA StoreMaps ==
  ASSUME IInv, NEW r \in StoreRequests, store_entry(r)
  PROVE  \/ Cache!CacheNext
         \/ UNCHANGED [k \in Key \X TTEntryKind |-> probed(k)]
<1>. DEFINE k == <<r.key, r.kind>>
            new == claim_of(r, r.best_move)
            claim == [c \in Key \X TTEntryKind |-> probed(c)]
<1>1. CASE RejectStore(r)
  BY <1>1 DEF RejectStore, table_vars, probed, probe, same_key_slots
<1>2. CASE ReplaceSameKey(r) \/ GraftBestMove(r) \/ FillEmptySlot(r) \/ ReplaceVictim(r)
  <2>1. PICK slot \in Slot, entry \in TTEntry :
          Writable(r, slot, entry) /\ Merges(r, entry) /\ put(r.key, slot, entry)
    BY <1>2, WritesAreWritable DEF IInv
  <2>2. r \in StoreRequest /\ k \in CacheKey /\ new \in TableClaim
    BY TableAssumption DEF StoreRequest, CacheKey, TableClaim
  <2>3. claim_of(entry, entry.best_move) \in TableClaim
    BY <2>1, EntryClaims DEF Writable
  <2>4. /\ claim'[k] \in Cache!Merged(claim[k], new)
        /\ \E lost \in CacheKey :
             \A other \in CacheKey \ {k} :
               \/ claim'[other] = claim[other]
               \/ other = lost /\ claim'[other] = NoEntry
    BY <2>1, <2>2, PutProbes DEF IInv, Merges, CacheKey
  <2>5. claim' \in [CacheKey -> TableClaim \cup {NoEntry}]
    <3>1. ASSUME NEW c \in CacheKey PROVE probed(c)' \in TableClaim \cup {NoEntry}
      BY <2>1, <2>3, PutProbes, ProbedIsClaim DEF IInv
    <3>. QED BY <3>1 DEF CacheKey
  <2>6. Cache!StoreClaim(k)
    BY <2>2, <2>4, <2>5 DEF Cache!StoreClaim, CacheKey
  <2>. QED BY <2>2, <2>6 DEF Cache!CacheNext, CacheKey
<1>. QED BY <1>1, <1>2 DEF store_entry

\* The table implements the cache the searches rely on, whatever is stored,
\* evicted, grafted or cleared, for tables of any size.
THEOREM TableImplementsCache == TableSpec => ImplementsCache
<1>1. TableInit => Cache!CacheInit
  BY TableInitMaps
<1>2. IInv /\ [TableNext]_table_vars
        => [Cache!CacheNext]_([k \in Key \X TTEntryKind |-> probed(k)])
  <2>. SUFFICES ASSUME IInv, [TableNext]_table_vars
       PROVE  [Cache!CacheNext]_([k \in Key \X TTEntryKind |-> probed(k)])
    OBVIOUS
  <2>1. CASE clear
    BY <2>1, ClearForgets DEF Cache!CacheNext
  <2>2. CASE UNCHANGED buckets
    BY <2>2 DEF probed, probe, same_key_slots
  <2>3. ASSUME NEW r \in StoreRequests, store_entry(r)
        PROVE  [Cache!CacheNext]_([k \in Key \X TTEntryKind |-> probed(k)])
    BY <2>3, StoreMaps
  <2>. QED BY <2>1, <2>2, <2>3 DEF TableNext, new_generation, table_vars
<1>. QED BY <1>1, <1>2, TableIInv, PTL DEF TableSpec, ImplementsCache, Cache!CacheSpec

-----------------------------------------------------------------------------
(***************************************************************************)
(* What a store may do to the entries that are there.                      *)
(***************************************************************************)
Improves(before, after) ==
  /\ after.depth >= before.depth
  /\ before.best_move # NoMove => after.best_move # NoMove
  /\ after.depth = before.depth =>
       \/ after.bound = "exact" /\ before.bound # "exact"
       \/ /\ after.bound = before.bound
          /\ after.bound = "exact" => after.score = before.score
          /\ after.bound = "lower" => after.score >= before.score
          /\ after.bound = "upper" => after.score <= before.score

\* A store that finds its key replaces the entry by a better one, or gives it
\* a best move.
LEMMA WriteImproves ==
  ASSUME TableInv, NEW r \in StoreRequests,
         ReplaceSameKey(r) \/ GraftBestMove(r) \/ FillEmptySlot(r) \/ ReplaceVictim(r),
         probe(buckets, r.key, r.kind) # NoEntry
  PROVE  Improves(probe(buckets, r.key, r.kind), probe(buckets', r.key, r.kind))
<1>. DEFINE found == same_key_slots(buckets, r.key, r.kind)
            existing == probe(buckets, r.key, r.kind)
            incoming == make_entry(r, generation_)
<1>1. PICK slot \in Slot, entry \in TTEntry : Writable(r, slot, entry) /\ put(r.key, slot, entry)
  BY WritesAreWritable
<1>2. r \in StoreRequest /\ r.key \in Key /\ r.kind \in TTEntryKind
      /\ index_for[r.key] \in BucketIndex
  BY TableAssumption DEF StoreRequest
<1>3. found # {} /\ found \subseteq Slot /\ first(found) \in found
      /\ existing \in TTEntry
  BY <1>2, ProbeFinds DEF TableInv
<1>4. probe(buckets', r.key, r.kind) = entry
  BY <1>1, PutProbes
<1>5. CASE ReplaceSameKey(r)
  <2>. DEFINE other == [incoming EXCEPT !.best_move = IF @ = NoMove THEN existing.best_move ELSE @]
  <2>1. put(r.key, first(found), other) /\ should_replace_same_key(existing, incoming)
    BY <1>5 DEF ReplaceSameKey
  <2>2. slot = first(found)
    BY <1>1, <1>3 DEF Writable
  <2>3. entry = other
    BY <1>1, <1>2, <2>1, <2>2 DEF put, TableInv, TypeOK
  <2>4. /\ entry.depth = r.depth /\ entry.bound = r.bound /\ entry.score = r.score
        /\ entry.best_move = IF r.best_move = NoMove THEN existing.best_move ELSE r.best_move
        /\ incoming.depth = r.depth /\ incoming.bound = r.bound /\ incoming.score = r.score
    BY <2>3 DEF make_entry
  <2>5. /\ r.depth \in Nat /\ existing.depth \in Nat /\ r.score \in Int /\ existing.score \in Int
        /\ r.bound \in BoundType /\ existing.bound \in BoundType
    BY <1>2, <1>3 DEF StoreRequest, TTEntry
  <2>6. \/ r.depth > existing.depth
        \/ /\ r.depth = existing.depth
           /\ \/ r.bound = "exact" /\ existing.bound # "exact"
              \/ /\ r.bound = existing.bound
                 /\ \/ r.bound = "lower" /\ r.score > existing.score
                    \/ r.bound = "upper" /\ r.score < existing.score
    BY <2>1, <2>4, <2>5 DEF should_replace_same_key, bound_is_stronger, bound_quality, BoundType
  <2>7. existing.best_move # NoMove => entry.best_move # NoMove
    BY <2>4
  <2>8. Improves(existing, entry)
    BY <2>4, <2>5, <2>6, <2>7 DEF Improves, BoundType
  <2>. QED BY <1>4, <2>8
<1>6. CASE GraftBestMove(r)
  <2>. DEFINE other == [make_entry(existing, generation_) EXCEPT !.best_move = r.best_move]
  <2>1. put(r.key, first(found), other) /\ existing.best_move = NoMove
    BY <1>6 DEF GraftBestMove
  <2>2. slot = first(found)
    BY <1>1, <1>3 DEF Writable
  <2>3. entry = other
    BY <1>1, <1>2, <2>1, <2>2 DEF put, TableInv, TypeOK
  <2>4. /\ entry.depth = existing.depth /\ entry.bound = existing.bound
        /\ entry.score = existing.score
    BY <2>3 DEF make_entry
  <2>5. existing.depth \in Nat /\ existing.score \in Int
    BY <1>3 DEF TTEntry
  <2>. QED BY <1>4, <2>1, <2>4, <2>5 DEF Improves
<1>7. CASE FillEmptySlot(r) \/ ReplaceVictim(r)
  BY <1>3, <1>7 DEF FillEmptySlot, ReplaceVictim
<1>. QED BY <1>5, <1>6, <1>7

LEMMA StoreImproves ==
  ASSUME IInv, NEW r \in StoreRequests, store_entry(r), NEW key \in Key, NEW kind \in TTEntryKind,
         probe(buckets, key, kind) # NoEntry, probe(buckets', key, kind) # NoEntry
  PROVE  Improves(probe(buckets, key, kind), probe(buckets', key, kind))
<1>1. CASE probe(buckets', key, kind) = probe(buckets, key, kind)
  <2>1. probe(buckets, key, kind) \in TTEntry
    BY ProbeFinds DEF IInv, TableInv
  <2>. QED BY <1>1, <2>1 DEF Improves, TTEntry
<1>2. CASE RejectStore(r)
  BY <1>1, <1>2 DEF RejectStore, table_vars
<1>3. CASE ReplaceSameKey(r) \/ GraftBestMove(r) \/ FillEmptySlot(r) \/ ReplaceVictim(r)
  <2>1. PICK slot \in Slot, entry \in TTEntry : Writable(r, slot, entry) /\ put(r.key, slot, entry)
    BY <1>3, WritesAreWritable DEF IInv
  <2>2. CASE key = r.key /\ kind = r.kind
    BY <1>3, <2>2, WriteImproves DEF IInv
  <2>3. CASE ~(key = r.key /\ kind = r.kind)
    <3>1. <<key, kind>> \in CacheKey \ {<<r.key, r.kind>>}
      BY <2>3 DEF CacheKey
    <3>2. \A k \in CacheKey \ {<<r.key, r.kind>>} :
            \/ probe(buckets', k[1], k[2]) = probe(buckets, k[1], k[2])
            \/ probe(buckets', k[1], k[2]) = NoEntry
      BY <2>1, PutProbes DEF IInv
    <3>3. \/ probe(buckets', key, kind) = probe(buckets, key, kind)
          \/ probe(buckets', key, kind) = NoEntry
      BY <3>1, <3>2
    <3>. QED BY <1>1, <3>3
  <2>. QED BY <2>2, <2>3
<1>. QED BY <1>2, <1>3 DEF store_entry

\* What the table holds for a position never gets shallower, looser or
\* forgetful of its best move, for tables of any size and any stores.
THEOREM EntriesImprove == TableSpec => SameKeyOnlyImproves
<1>1. IInv /\ [TableNext]_table_vars
        => ((\A key \in Key, kind \in TTEntryKind :
               LET before == probe(buckets, key, kind)
                   after == probe(buckets', key, kind)
               IN  (before # NoEntry /\ after # NoEntry) =>
                     /\ after.depth >= before.depth
                     /\ before.best_move # NoMove => after.best_move # NoMove
                     /\ after.depth = before.depth =>
                          \/ after.bound = "exact" /\ before.bound # "exact"
                          \/ /\ after.bound = before.bound
                             /\ after.bound = "exact" => after.score = before.score
                             /\ after.bound = "lower" => after.score >= before.score
                             /\ after.bound = "upper" => after.score <= before.score)
            \/ UNCHANGED table_vars)
  <2>. SUFFICES ASSUME IInv, TableNext, NEW key \in Key, NEW kind \in TTEntryKind,
                       probe(buckets, key, kind) # NoEntry, probe(buckets', key, kind) # NoEntry
                PROVE  Improves(probe(buckets, key, kind), probe(buckets', key, kind))
    BY DEF Improves
  <2>1. CASE clear
    <3>1. same_key_slots(buckets', key, kind) = {}
      BY <2>1, TableAssumption DEF clear, no_entries, same_key_slots
    <3>. QED BY <3>1 DEF probe
  <2>2. CASE UNCHANGED buckets
    <3>1. probe(buckets, key, kind) \in TTEntry
      BY ProbeFinds DEF IInv, TableInv
    <3>. QED BY <2>2, <3>1 DEF Improves, TTEntry
  <2>3. ASSUME NEW r \in StoreRequests, store_entry(r)
        PROVE  Improves(probe(buckets, key, kind), probe(buckets', key, kind))
    BY <2>3, StoreImproves
  <2>. QED BY <2>1, <2>2, <2>3 DEF TableNext, new_generation
<1>. QED BY <1>1, TableIInv, PTL DEF TableSpec, SameKeyOnlyImproves

\* A slot whose entry makes place for another position is the victim of a full
\* bucket, of which the truthful generations tell which entries are this root's.
LEMMA VictimIsLastResort ==
  ASSUME IInv, NEW r \in StoreRequests, store_entry(r), NEW b \in BucketIndex, NEW i \in Slot,
         buckets[b][i] # NoEntry, buckets'[b][i] # NoEntry,
         <<buckets'[b][i].key, buckets'[b][i].kind>> # <<buckets[b][i].key, buckets[b][i].kind>>
  PROVE  /\ \A j \in Slot : buckets[b][j] # NoEntry
         /\ \A j \in Slot : worth_no_more(b, i, j)
         /\ <<b, i>> \in touched => no_better(buckets[b][i], buckets'[b][i])
<1>. DEFINE found == same_key_slots(buckets, r.key, r.kind)
            bucket == buckets[index_for[r.key]]
            victim == victim_slot(bucket)
<1>1. r \in StoreRequest /\ r.key \in Key /\ r.kind \in TTEntryKind
      /\ index_for[r.key] \in BucketIndex
  BY TableAssumption DEF StoreRequest
<1>2. ~RejectStore(r)
  BY DEF RejectStore, table_vars
<1>3. PICK slot \in Slot, entry \in TTEntry : Writable(r, slot, entry) /\ put(r.key, slot, entry)
  BY <1>2, WritesAreWritable DEF store_entry, IInv
<1>4. /\ b = index_for[r.key] /\ i = slot
      /\ buckets'[b][i] = entry /\ entry.key = r.key /\ entry.kind = r.kind
  BY <1>1, <1>3 DEF put, Writable, IInv, TableInv, TypeOK
<1>5. \A c \in Slot : \A other : put(r.key, c, other) => c = i
  <2>. SUFFICES ASSUME NEW c \in Slot, NEW other, put(r.key, c, other), c # i PROVE FALSE
    OBVIOUS
  <2>1. buckets'[b][i] = buckets[b][i]
    BY <1>1, <1>4 DEF put, IInv, TableInv, TypeOK
  <2>. QED BY <2>1
<1>6. i \notin found
  BY <1>4 DEF same_key_slots
<1>7. found # {} => first(found) \in found /\ first(found) \in Slot
  BY <1>1, ProbeFinds DEF IInv, TableInv
<1>8. ~ReplaceSameKey(r) /\ ~GraftBestMove(r)
  BY <1>5, <1>6, <1>7 DEF ReplaceSameKey, GraftBestMove
<1>9. ~FillEmptySlot(r)
  <2>1. empty_slots(buckets, r.key) # {} =>
          /\ first(empty_slots(buckets, r.key)) \in empty_slots(buckets, r.key)
          /\ first(empty_slots(buckets, r.key)) \in Slot
    <3>1. empty_slots(buckets, r.key) \in SUBSET Slot
      BY DEF empty_slots
    <3>. QED BY <3>1, FirstSlot
  <2>2. i \notin empty_slots(buckets, r.key)
    BY <1>4 DEF empty_slots
  <2>. QED BY <1>5, <2>1, <2>2 DEF FillEmptySlot
<1>10. ReplaceVictim(r)
  BY <1>2, <1>8, <1>9 DEF store_entry
<1>11. /\ \A j \in Slot : buckets[b][j] # NoEntry
       /\ bucket \in [Slot -> TTEntry]
  BY <1>1, <1>4, <1>10 DEF ReplaceVictim, empty_slots, IInv, TableInv, TypeOK
<1>12. victim \in Slot /\ \A j \in Slot : ~evicted_before(bucket[j], bucket[victim])
  BY <1>11, VictimSlot
<1>13. victim = i /\ ~keeps_slot(bucket[victim], r) /\ put(r.key, victim, make_entry(r, generation_))
  BY <1>5, <1>10, <1>12 DEF ReplaceVictim
<1>14. \A j \in Slot : buckets[b][j].generation = generation_ <=> <<b, j>> \in touched
  BY <1>11 DEF IInv, TableInv, GenerationIsTruthful
<1>15. \A j \in Slot : buckets[b][j].depth \in Nat /\ buckets[b][j].bound \in BoundType
  BY <1>4, <1>11 DEF TTEntry
<1>16. ASSUME NEW j \in Slot
       PROVE  worth_no_more(b, i, j)
  <2>1. ~evicted_before(buckets[b][j], buckets[b][i])
    BY <1>4, <1>12, <1>13
  <2>. QED
    BY <1>14, <1>15, <2>1 DEF evicted_before, worth_no_more, no_better, bound_quality, BoundType
<1>17. ASSUME <<b, i>> \in touched
       PROVE  no_better(buckets[b][i], buckets'[b][i])
  <2>1. buckets[b][i].generation = generation_
    BY <1>14, <1>17
  <2>2. buckets'[b][i].depth = r.depth /\ buckets'[b][i].bound = r.bound
    <3>1. buckets'[b][i] = make_entry(r, generation_)
      BY <1>1, <1>4, <1>13 DEF put, IInv, TableInv, TypeOK
    <3>. QED BY <3>1 DEF make_entry
  <2>3. r.depth \in Nat /\ r.bound \in BoundType
    BY <1>1 DEF StoreRequest
  <2>4. ~keeps_slot(buckets[b][i], r)
    BY <1>4, <1>13
  <2>. QED
    BY <1>15, <2>1, <2>2, <2>3, <2>4 DEF keeps_slot, no_better, bound_quality, BoundType
<1>. QED BY <1>11, <1>16, <1>17

\* No store costs a position its entry while there is room, and the entry it
\* costs is the one worth least of its bucket, the earlier roots' first, and
\* worth no more than what comes when it is of this root.
THEOREM EvictionCorrect == TableSpec => EvictionIsLastResort
<1>1. IInv /\ [TableNext]_table_vars
        => ((\A b \in BucketIndex : \A i \in Slot :
               LET before == buckets[b][i]
                   after == buckets'[b][i]
               IN  (before # NoEntry /\ after # NoEntry
                      /\ <<after.key, after.kind>> # <<before.key, before.kind>>) =>
                     /\ \A j \in Slot : buckets[b][j] # NoEntry /\ worth_no_more(b, i, j)
                     /\ <<b, i>> \in touched => no_better(before, after))
            \/ UNCHANGED table_vars)
  <2>. SUFFICES ASSUME IInv, TableNext, NEW b \in BucketIndex, NEW i \in Slot,
                       buckets[b][i] # NoEntry, buckets'[b][i] # NoEntry,
                       <<buckets'[b][i].key, buckets'[b][i].kind>>
                         # <<buckets[b][i].key, buckets[b][i].kind>>
                PROVE  /\ \A j \in Slot : buckets[b][j] # NoEntry
                       /\ \A j \in Slot : worth_no_more(b, i, j)
                       /\ <<b, i>> \in touched => no_better(buckets[b][i], buckets'[b][i])
    OBVIOUS
  <2>1. ~clear /\ ~UNCHANGED buckets
    BY DEF clear, no_entries
  <2>2. PICK r \in StoreRequests : store_entry(r)
    BY <2>1 DEF TableNext, new_generation
  <2>. QED BY <2>2, VictimIsLastResort
<1>. QED BY <1>1, TableIInv, PTL DEF TableSpec, EvictionIsLastResort

-----------------------------------------------------------------------------
(***************************************************************************)
(* The session above the table.                                            *)
(***************************************************************************)

SessionTypes ==
  /\ semantic_fingerprint \in SearchSemanticFingerprint \cup {NoFingerprint}
  /\ revision \in [Evaluator -> Revision]
  /\ version = revision
  /\ root \in Semantics \cup {NoRoot}
  /\ depth \in 0 .. MaxDepth

\* What a search with the fingerprint depends on.
semantics_of(fingerprint) ==
  [evaluator |-> fingerprint.evaluator, version |-> fingerprint.evaluator_revision,
   engine |-> fingerprint.options.engine, domain |-> fingerprint.domain]

\* The stored fingerprint stands for everything in the table, between roots
\* too, and for the root that runs.
FingerprintStands ==
  /\ \A b \in BucketIndex : \A i \in Slot :
       buckets[b][i] # NoEntry =>
         /\ semantic_fingerprint # NoFingerprint
         /\ buckets[b][i].score = value[semantics_of(semantic_fingerprint)]
  /\ root # NoRoot =>
       /\ semantic_fingerprint # NoFingerprint
       /\ root = semantics_of(semantic_fingerprint)

SInv == IInv /\ SessionTypes /\ FingerprintStands

\* A store leaves entries that were there, or have the score that was stored,
\* or the score of an entry of the same bucket.
LEMMA StoredScores ==
  ASSUME TableInv, NEW r \in StoreRequests, store_entry(r),
         NEW b \in BucketIndex, NEW i \in Slot, buckets'[b][i] # NoEntry
  PROVE  \/ buckets'[b][i].score = r.score
         \/ \E j \in Slot : /\ buckets[b][j] # NoEntry
                            /\ buckets'[b][i].score = buckets[b][j].score
<1>1. CASE RejectStore(r)
  BY <1>1 DEF RejectStore, table_vars
<1>2. CASE ReplaceSameKey(r) \/ GraftBestMove(r) \/ FillEmptySlot(r) \/ ReplaceVictim(r)
  <2>. DEFINE found == same_key_slots(buckets, r.key, r.kind)
              existing == probe(buckets, r.key, r.kind)
              known == probed(<<r.key, r.kind>>)
  <2>1. PICK slot \in Slot, entry \in TTEntry :
          Writable(r, slot, entry) /\ Merges(r, entry) /\ put(r.key, slot, entry)
    BY <1>2, WritesAreWritable
  <2>2. r.key \in Key /\ r.kind \in TTEntryKind /\ index_for[r.key] \in BucketIndex
    BY TableAssumption DEF StoreRequest
  <2>3. buckets'[b][i] = IF b = index_for[r.key] /\ i = slot THEN entry ELSE buckets[b][i]
    BY <2>1, <2>2 DEF put, TableInv, TypeOK
  <2>4. entry.score = r.score \/ (known # NoEntry /\ entry.score = known.score)
    <3>1. claim_of(entry, entry.best_move).score = entry.score
          /\ claim_of(r, r.best_move).score = r.score
      BY DEF claim_of
    <3>2. CASE known = NoEntry
      <4>1. entry.score = r.score \/ claim_of(entry, entry.best_move) = NoEntry
        BY <2>1, <3>1, <3>2 DEF Merges, Cache!Merged
      <4>. QED BY <2>1, <4>1, EntryClaims, NoClaimAssumption DEF Writable
    <3>3. CASE known # NoEntry
      <4>1. Cache!WithBestMove(claim_of(r, r.best_move), known).score = r.score
        BY DEF Cache!WithBestMove, claim_of
      <4>2. known = claim_of(existing, existing.best_move)
        BY <3>3 DEF probed
      <4>3. Cache!WithBestMove(known, claim_of(r, r.best_move)).score = known.score
        BY <4>2 DEF Cache!WithBestMove, claim_of
      <4>. QED BY <2>1, <3>1, <3>3, <4>1, <4>3 DEF Merges, Cache!Merged
    <3>. QED BY <3>2, <3>3
  <2>5. known # NoEntry => /\ first(found) \in Slot
                           /\ existing = buckets[index_for[r.key]][first(found)]
                           /\ existing # NoEntry
                           /\ known.score = existing.score
    BY <2>2, ProbeFinds DEF TableInv, probed, claim_of
  <2>. QED BY <2>3, <2>4, <2>5
<1>. QED BY <1>1, <1>2 DEF store_entry

LEMMA InitSInv == Init => SInv
<1>. SUFFICES ASSUME Init PROVE SInv
  OBVIOUS
<1>1. IInv
  BY TableInitIInv DEF Init
<1>2. SessionTypes /\ FingerprintStands
  BY SessionAssumption DEF Init, TableInit, no_entries, SessionTypes, FingerprintStands
<1>. QED BY <1>1, <1>2 DEF SInv

LEMMA BeginRootSInv ==
  ASSUME SInv, NEW evaluator \in Evaluator, NEW options \in ResolvedSearchOptions,
         NEW domain \in SearchSemanticDomain, BeginRoot(evaluator, options, domain)
  PROVE  SInv'
<1>. DEFINE bound == semantic_evaluator(evaluator, domain)
            fingerprint == make_search_semantic_fingerprint(bound, options, domain)
<1>1. /\ bound \in Evaluator \cup {nullptr}
      /\ revision_of(bound) \in Revision
  BY SessionAssumption DEF semantic_evaluator, revision_of, SInv, SessionTypes, Revision
<1>2. /\ fingerprint \in SearchSemanticFingerprint
      /\ fingerprint # NoFingerprint
      /\ semantics_of(fingerprint) \in Semantics
      /\ root' = semantics_of(fingerprint)
  <2>1. /\ [options EXCEPT !.selective = nullptr] \in ResolvedSearchOptions
        /\ [options EXCEPT !.selective = nullptr].engine = options.engine
    BY DEF ResolvedSearchOptions
  <2>2. fingerprint \in SearchSemanticFingerprint
    BY <1>1, <2>1 DEF make_search_semantic_fingerprint, SearchSemanticFingerprint
  <2>3. semantics_of(fingerprint) =
          [evaluator |-> bound, version |-> revision_of(bound),
           engine |-> options.engine, domain |-> domain]
    BY <2>1 DEF semantics_of, make_search_semantic_fingerprint
  <2>5. version_of(bound) = revision_of(bound)
    BY DEF version_of, revision_of, SInv, SessionTypes
  <2>4. semantics_of(fingerprint) \in Semantics
    BY <1>1, <2>3 DEF Semantics, ResolvedSearchOptions
  <2>. QED BY <2>2, <2>3, <2>4, <2>5, SessionAssumption DEF BeginRoot
<1>3. /\ semantic_fingerprint' = fingerprint
      /\ UNCHANGED <<revision, version, depth>>
  BY DEF BeginRoot, begin_root
<1>4. SessionTypes'
  BY <1>2, <1>3 DEF SInv, SessionTypes
<1>5. IInv' /\ FingerprintStands'
  <2>1. CASE semantic_fingerprint \in {NoFingerprint, fingerprint} /\ new_generation
    <3>1. IInv'
      BY <2>1, NewGenerationIInv DEF SInv
    <3>2. buckets' = buckets \/ buckets' = no_entries
      BY <2>1 DEF new_generation, clear
    <3>. QED BY <1>2, <1>3, <2>1, <3>1, <3>2 DEF SInv, FingerprintStands, no_entries
  <2>2. CASE clear_and_new_generation
    <3>1. \A b \in BucketIndex : \A i \in Slot : buckets'[b][i] = NoEntry
      BY <2>2 DEF clear_and_new_generation, no_entries
    <3>2. TypeOK'
      BY <2>2, TableAssumption DEF clear_and_new_generation, no_entries, TypeOK
    <3>3. IInv'
      BY <3>1, <3>2 DEF IInv, TableInv, OneEntryPerKeyAndKind, GenerationIsTruthful,
                        EntriesWereStored, GenerationsArePast
    <3>. QED BY <1>2, <1>3, <3>1, <3>3 DEF FingerprintStands
  <2>. QED BY <2>1, <2>2 DEF BeginRoot, begin_root
<1>. QED BY <1>4, <1>5 DEF SInv

LEMMA NextSInv == SInv /\ [Next]_vars => SInv'
<1>. SUFFICES ASSUME SInv, [Next]_vars PROVE SInv'
  OBVIOUS
<1>1. ASSUME NEW evaluator \in Evaluator, NEW options \in ResolvedSearchOptions,
             NEW domain \in SearchSemanticDomain, BeginRoot(evaluator, options, domain)
      PROVE  SInv'
  BY <1>1, BeginRootSInv
<1>2. ASSUME NEW r \in StoreRequests, SearchStore(r) PROVE SInv'
  <2>1. IInv' /\ SessionTypes'
    BY <1>2, StoreIInv DEF SearchStore, SInv, session_vars, SessionTypes
  <2>2. /\ r.score = value[root] /\ root # NoRoot /\ UNCHANGED session_vars /\ store_entry(r)
        /\ semantic_fingerprint # NoFingerprint
        /\ value[root] = value[semantics_of(semantic_fingerprint)]
    BY <1>2 DEF SearchStore, SInv, FingerprintStands
  <2>3. ASSUME NEW b \in BucketIndex, NEW i \in Slot, buckets'[b][i] # NoEntry
        PROVE  buckets'[b][i].score = r.score
    BY <2>2, <2>3, StoredScores DEF SInv, IInv, FingerprintStands
  <2>. QED BY <2>1, <2>2, <2>3 DEF SInv, FingerprintStands, session_vars
<1>3. CASE NextDepth \/ EndRoot \/ UNCHANGED vars
  BY <1>3, SessionAssumption
          DEF NextDepth, EndRoot, vars, SInv, IInv, SessionTypes, FingerprintStands, TableInv, TypeOK,
              OneEntryPerKeyAndKind, GenerationIsTruthful, EntriesWereStored, GenerationsArePast
<1>4. CASE Clear
  <2>1. IInv'
    BY <1>4, ClearInv DEF Clear, IInv, GenerationsArePast, clear, no_entries
  <2>. QED BY <1>4, <2>1 DEF Clear, SInv, SessionTypes, FingerprintStands, clear, no_entries
<1>5. ASSUME NEW evaluator \in Evaluator, ChangeEvaluator(evaluator) PROVE SInv'
  <2>1. IInv'
    BY <1>5 DEF ChangeEvaluator, SInv, IInv, TableInv, TypeOK,
                OneEntryPerKeyAndKind, GenerationIsTruthful, EntriesWereStored, GenerationsArePast
  <2>2. SessionTypes'
    BY <1>5, SessionAssumption DEF ChangeEvaluator, SInv, SessionTypes, Revision
  <2>. QED BY <1>5, <2>1, <2>2 DEF ChangeEvaluator, SInv, FingerprintStands
<1>. QED BY <1>1, <1>2, <1>3, <1>4, <1>5 DEF Next

\* Every value a search can find in the table was stored for what the search
\* itself depends on.
THEOREM EntriesFit == Spec => []EntriesFitTheRoot
<1>1. SInv => EntriesFitTheRoot
  BY DEF SInv, FingerprintStands, EntriesFitTheRoot
<1>. QED BY <1>1, InitSInv, NextSInv, PTL DEF Spec

\* Type correctness of the session and its table.
THEOREM SessionTypeCorrect == Spec => []SessionTypeOK
<1>1. SInv => SessionTypeOK
  BY DEF SInv, IInv, TableInv, SessionTypes, SessionTypeOK
<1>. QED BY <1>1, InitSInv, NextSInv, PTL DEF Spec

\* Only a search that begins makes a root out of none.
LEMMA RootsBegin ==
  ASSUME SInv, [Next]_vars, root = NoRoot, root' # NoRoot
  PROVE  \E evaluator \in Evaluator, options \in ResolvedSearchOptions,
            domain \in SearchSemanticDomain : BeginRoot(evaluator, options, domain)
BY DEF Next, vars, SearchStore, NextDepth, EndRoot, Clear, ChangeEvaluator, session_vars

\* A root finds its table empty or one generation old.
LEMMA RootAges ==
  ASSUME SInv, [Next]_vars, root = NoRoot, root' # NoRoot,
         NEW b \in BucketIndex, NEW i \in Slot, buckets'[b][i] # NoEntry
  PROVE  buckets'[b][i].generation # generation_'
<1>1. PICK fingerprint : begin_root(fingerprint)
  BY RootsBegin DEF BeginRoot
<1>2. buckets' # no_entries
  BY DEF no_entries
<1>3. /\ generation_' = generation_ + 1
      /\ buckets' = buckets
  BY <1>1, <1>2 DEF begin_root, new_generation, clear, clear_and_new_generation
<1>4. /\ buckets[b][i] \in TTEntry
      /\ buckets[b][i].generation <= generation_
  BY <1>3 DEF SInv, IInv, GenerationsArePast, TableInv, TypeOK
<1>5. buckets[b][i].generation \in Int /\ generation_ \in Int
  <2>1. buckets[b][i].generation \in 0 .. MaxGeneration
    BY <1>4 DEF TTEntry, Generation
  <2>2. generation_ \in 1 .. MaxGeneration
    BY DEF SInv, IInv, TableInv, TypeOK
  <2>. QED BY <2>1, <2>2, TableAssumption
<1>. QED BY <1>3, <1>4, <1>5

\* No entry of an earlier root looks like one of the root that starts, also
\* when the counter has run out or the table was cleared on the way.
THEOREM RootsAge == Spec => []RootStartsWithAgedEntries
<1>1. SInv /\ [Next]_vars
        => ((root = NoRoot /\ root' # NoRoot) =>
              \A b \in BucketIndex : \A i \in Slot :
                buckets'[b][i] # NoEntry => buckets'[b][i].generation # generation_')
  BY RootAges
<1>. QED BY <1>1, InitSInv, NextSInv, PTL DEF Spec, RootStartsWithAgedEntries

\* The fingerprint that is kept names no observational metadata, so roots that
\* differ in it alone have the same one.
NoMetadata ==
  semantic_fingerprint # NoFingerprint => semantic_fingerprint.options.selective = nullptr

LEMMA NextNoMetadata == NoMetadata /\ [Next]_vars => NoMetadata'
<1>. SUFFICES ASSUME NoMetadata, [Next]_vars PROVE NoMetadata'
  OBVIOUS
<1>1. ASSUME NEW evaluator \in Evaluator, NEW options \in ResolvedSearchOptions,
             NEW domain \in SearchSemanticDomain, BeginRoot(evaluator, options, domain)
      PROVE  NoMetadata'
  <2>1. [options EXCEPT !.selective = nullptr].selective = nullptr
    BY DEF ResolvedSearchOptions
  <2>. QED BY <1>1, <2>1 DEF BeginRoot, begin_root, make_search_semantic_fingerprint, NoMetadata
<1>2. CASE UNCHANGED semantic_fingerprint \/ semantic_fingerprint' = NoFingerprint
  BY <1>2 DEF NoMetadata
<1>. QED BY <1>1, <1>2 DEF Next, vars, SearchStore, NextDepth, EndRoot, Clear, ChangeEvaluator,
                           session_vars

LEMMA WarmRoot ==
  ASSUME SInv, NoMetadata, [Next]_vars, root = NoRoot, root' # NoRoot,
         generation_ # MaxGeneration, semantic_fingerprint # NoFingerprint,
         semantic_fingerprint.evaluator = root'.evaluator,
         semantic_fingerprint.evaluator_revision = root'.version,
         semantic_fingerprint.options.engine = root'.engine,
         semantic_fingerprint.domain = root'.domain
  PROVE  buckets' = buckets
<1>1. PICK evaluator \in Evaluator, options \in ResolvedSearchOptions,
           domain \in SearchSemanticDomain : BeginRoot(evaluator, options, domain)
  BY RootsBegin
<1>. DEFINE bound == semantic_evaluator(evaluator, domain)
            fingerprint == make_search_semantic_fingerprint(bound, options, domain)
<1>2. root' = [evaluator |-> bound, version |-> revision_of(bound),
               engine |-> options.engine, domain |-> domain]
  BY <1>1 DEF BeginRoot, version_of, revision_of, SInv, SessionTypes
<1>3. [options EXCEPT !.selective = nullptr]
        = [engine |-> options.engine, selective |-> nullptr]
  BY DEF ResolvedSearchOptions
<1>4. fingerprint = [evaluator |-> bound, evaluator_revision |-> revision_of(bound),
                     options |-> [engine |-> options.engine, selective |-> nullptr],
                     domain |-> domain]
  BY <1>3 DEF make_search_semantic_fingerprint
<1>5. semantic_fingerprint =
        [evaluator |-> semantic_fingerprint.evaluator,
         evaluator_revision |-> semantic_fingerprint.evaluator_revision,
         options |-> semantic_fingerprint.options, domain |-> semantic_fingerprint.domain]
  BY DEF SInv, SessionTypes, SearchSemanticFingerprint
<1>6. semantic_fingerprint.options =
        [engine |-> semantic_fingerprint.options.engine, selective |-> nullptr]
  BY DEF NoMetadata, SInv, SessionTypes, SearchSemanticFingerprint, ResolvedSearchOptions
<1>7. semantic_fingerprint = fingerprint
  BY <1>2, <1>4, <1>5, <1>6
<1>. QED BY <1>1, <1>7 DEF BeginRoot, begin_root, new_generation

\* A root like the last one keeps the whole table, whatever its metadata.
THEOREM RootsStayWarm == Spec => []WarmRootKeepsEntries
<1>1. SInv /\ NoMetadata /\ [Next]_vars
        => ((root = NoRoot /\ root' # NoRoot /\ generation_ # MaxGeneration
              /\ semantic_fingerprint # NoFingerprint
              /\ semantic_fingerprint.evaluator = root'.evaluator
              /\ semantic_fingerprint.evaluator_revision = root'.version
              /\ semantic_fingerprint.options.engine = root'.engine
              /\ semantic_fingerprint.domain = root'.domain)
             => buckets' = buckets)
  BY WarmRoot
<1>2. Init => NoMetadata
  BY DEF Init, NoMetadata
<1>. QED BY <1>1, <1>2, InitSInv, NextSInv, NextNoMetadata, PTL DEF Spec, WarmRootKeepsEntries
=============================================================================
