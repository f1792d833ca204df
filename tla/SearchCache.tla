------------------------------ MODULE SearchCache ------------------------------
(***************************************************************************)
(* What the searches are promised by the transposition table: at most one  *)
(* claim for a key, which is the last one stored, the one that was there,  *)
(* or one of the two with the other's best move.  Claims may be forgotten, *)
(* at most one other key's at a store, all of them between roots.  There   *)
(* is no promise about which claim wins or how long it is kept.            *)
(***************************************************************************)
CONSTANTS
  CacheKey,              \* what is looked up: a key and a kind
  Claim,                 \* records with a best_move
  NoClaim,
  NoBestMove

VARIABLE claim           \* the claim held for each key, or NoClaim

CacheTypeOK == claim \in [CacheKey -> Claim \cup {NoClaim}]

CacheInit == claim = [k \in CacheKey |-> NoClaim]

\* Filling in the best move of one claim from another.
WithBestMove(c, other) ==
  [c EXCEPT !.best_move = IF @ = NoBestMove THEN other.best_move ELSE @]

Merged(old, new) ==
  {new, old} \cup
  (IF old = NoClaim THEN {} ELSE {WithBestMove(new, old), WithBestMove(old, new)})

StoreClaim(k) ==
  /\ \E lost \in CacheKey :
       \A other \in CacheKey \ {k} :
         \/ claim'[other] = claim[other]
         \/ other = lost /\ claim'[other] = NoClaim
  /\ \E new \in Claim : claim'[k] \in Merged(claim[k], new)
  /\ claim' \in [CacheKey -> Claim \cup {NoClaim}]

ForgetAll == claim' = [k \in CacheKey |-> NoClaim]

CacheNext ==
  \/ \E k \in CacheKey : StoreClaim(k)
  \/ ForgetAll

CacheSpec == CacheInit /\ [][CacheNext]_claim
=============================================================================
