----------------------------- MODULE SearchLimits -----------------------------
(***************************************************************************)
(* The limits of one root search (engine/src/search/search_util.cc):       *)
(* a node budget, a deadline and a flag another thread may raise.  The     *)
(* search calls note_node_visited at every node and should_stop at the     *)
(* boundaries in between; reading the clock is rationed to one node in     *)
(* kTimeCheckNodeInterval + 1.                                             *)
(*                                                                         *)
(* The environment raises the flag and lets the deadline pass at any step. *)
(* The search may ask again after it was told to stop, as the loops it     *)
(* unwinds through do.                                                     *)
(***************************************************************************)
EXTENDS Integers, TLAPS

CONSTANTS
  Limits,                \* the limits a search may be given
  CheckInterval,         \* kTimeCheckNodeInterval: 256 in the code
  MaxNodes               \* bound on the nodes a behaviour visits

ASSUME LimitsAssumption ==
  /\ Limits \subseteq [max_nodes : Nat, has_deadline : BOOLEAN]
  /\ CheckInterval \in Nat \ {0}
  /\ MaxNodes \in Nat

VARIABLES
  limits,                       \* max_nodes (0 is no budget) and has_deadline
  nodes,                        \* SearchLimitState::nodes
  nodes_until_next_time_check,
  stopped,                      \* SearchLimitState::stopped
  stop_requested,               \* *SearchLimitState::stop_requested
  deadline_passed,              \* steady_clock::now() >= deadline
  told_to_stop,                 \* history: some call has returned true
  late_nodes,                   \* history: nodes counted since the deadline
  unwanted_nodes                 \* history: nodes counted after the flag was raised

vars == <<limits, nodes, nodes_until_next_time_check, stopped, stop_requested, deadline_passed,
          told_to_stop, late_nodes, unwanted_nodes>>

TypeOK ==
  /\ limits \in Limits
  /\ nodes \in Nat
  /\ nodes_until_next_time_check \in 0 .. CheckInterval
  /\ stopped \in BOOLEAN /\ stop_requested \in BOOLEAN
  /\ deadline_passed \in BOOLEAN /\ told_to_stop \in BOOLEAN
  /\ late_nodes \in Nat /\ unwanted_nodes \in Nat

Init ==
  /\ limits \in Limits
  /\ nodes = 0
  /\ nodes_until_next_time_check = 0
  /\ stopped = FALSE
  /\ stop_requested \in BOOLEAN
  /\ deadline_passed = FALSE
  /\ told_to_stop = FALSE
  /\ late_nodes = 0
  /\ unwanted_nodes = 0

external_stop_requested == stop_requested
time_limit_reached == limits.has_deadline /\ deadline_passed

-----------------------------------------------------------------------------
\* Mutant: a deadline is taken from a search that has none.
ShouldStopOnAnyClock ==
  /\ stopped' = (stopped \/ external_stop_requested \/ deadline_passed)
  /\ told_to_stop' = stopped'
  /\ UNCHANGED <<limits, nodes, nodes_until_next_time_check, stop_requested, deadline_passed,
                 late_nodes, unwanted_nodes>>

\* should_stop: asked at boundaries, it always reads the flag and the clock.
ShouldStop ==
  /\ stopped' = (stopped \/ external_stop_requested \/ time_limit_reached)
  /\ told_to_stop' = stopped'
  /\ UNCHANGED <<limits, nodes, nodes_until_next_time_check, stop_requested, deadline_passed,
                 late_nodes, unwanted_nodes>>

\* Mutant: the budget is spent one node too late.
budget_exceeded(count) == limits.max_nodes # 0 /\ count > limits.max_nodes

budget_spent(count) == limits.max_nodes # 0 /\ count >= limits.max_nodes

\* Mutant: a node is refused without remembering why.
RefuseNodeOnce ==
  /\ stopped \/ external_stop_requested \/ budget_spent(nodes)
  /\ told_to_stop' = TRUE
  /\ UNCHANGED <<limits, nodes, nodes_until_next_time_check, stopped, stop_requested,
                 deadline_passed, late_nodes, unwanted_nodes>>

\* note_node_visited, when the node is refused and not counted.
RefuseNode ==
  /\ stopped \/ external_stop_requested \/ budget_spent(nodes)
  /\ stopped' = TRUE
  /\ told_to_stop' = TRUE
  /\ UNCHANGED <<limits, nodes, nodes_until_next_time_check, stop_requested, deadline_passed,
                 late_nodes, unwanted_nodes>>

\* Mutant: the countdown starts one node too high.
check_time_too_rarely ==
  \/ /\ nodes_until_next_time_check = 0
     /\ nodes_until_next_time_check' = CheckInterval + 1
     /\ stopped' = time_limit_reached
     /\ told_to_stop' = time_limit_reached
  \/ /\ nodes_until_next_time_check # 0
     /\ nodes_until_next_time_check' = nodes_until_next_time_check - 1
     /\ UNCHANGED <<stopped, told_to_stop>>

\* The rationed reading of the clock; what it says is returned.
check_time_sometimes ==
  \/ /\ nodes_until_next_time_check = 0
     /\ nodes_until_next_time_check' = CheckInterval
     /\ stopped' = time_limit_reached
     /\ told_to_stop' = time_limit_reached
  \/ /\ nodes_until_next_time_check # 0
     /\ nodes_until_next_time_check' = nodes_until_next_time_check - 1
     /\ UNCHANGED <<stopped, told_to_stop>>

\* note_node_visited, when the node is counted.  The last node of the budget
\* raises stopped and still returns false.
CountNode ==
  /\ nodes < MaxNodes
  /\ ~(stopped \/ external_stop_requested \/ budget_spent(nodes))
  /\ nodes' = nodes + 1
  /\ late_nodes' = IF deadline_passed THEN late_nodes + 1 ELSE late_nodes
  /\ unwanted_nodes' = IF stop_requested THEN unwanted_nodes + 1 ELSE unwanted_nodes
  /\ \/ /\ budget_spent(nodes + 1)
        /\ stopped' = TRUE
        /\ UNCHANGED <<told_to_stop, nodes_until_next_time_check>>
     \/ /\ ~budget_spent(nodes + 1)
        /\ check_time_sometimes
  /\ UNCHANGED <<limits, stop_requested, deadline_passed>>

RaiseStop ==
  /\ ~stop_requested
  /\ stop_requested' = TRUE
  /\ UNCHANGED <<limits, nodes, nodes_until_next_time_check, stopped, deadline_passed,
                 told_to_stop, late_nodes, unwanted_nodes>>

DeadlinePasses ==
  /\ ~deadline_passed
  /\ deadline_passed' = TRUE
  /\ UNCHANGED <<limits, nodes, nodes_until_next_time_check, stopped, stop_requested,
                 told_to_stop, late_nodes, unwanted_nodes>>

Next == ShouldStop \/ RefuseNode \/ CountNode \/ RaiseStop \/ DeadlinePasses

Spec == Init /\ [][Next]_vars

-----------------------------------------------------------------------------
(***************************************************************************)
(* Properties.                                                             *)
(***************************************************************************)

\* A node budget is never exceeded, over all the depths of an iterative search
\* and all its window re-searches, which share one SearchLimitState.
BudgetIsKept == limits.max_nodes # 0 => nodes <= limits.max_nodes

\* A search told to stop has a reason: a spent budget, the flag or the clock.
\* A search without limits is never cut short.
StopHasReason ==
  stopped => budget_spent(nodes) \/ stop_requested \/ time_limit_reached

\* Although the clock is read only now and then, at most an interval of nodes
\* is visited after the deadline, also when nobody asks should_stop.
DeadlineIsPrompt ==
  limits.has_deadline => late_nodes <= CheckInterval + 1

\* Once the flag is up no further node is counted.
FlagIsPrompt == unwanted_nodes = 0

\* A stop that comes from outside is seen in time: the flag at the next node,
\* the deadline within one interval of nodes (note_node_visited).
StopIsPrompt == FlagIsPrompt /\ DeadlineIsPrompt

\* Telling to stop is final: whoever asks or visits a node afterwards, in this
\* depth or the next, is told the same and counts nothing.
StopIsFinal ==
  [][told_to_stop => nodes' = nodes /\ stopped' /\ told_to_stop']_vars

-----------------------------------------------------------------------------
(***************************************************************************)
(* The limits hold for every budget, check interval and search.            *)
(***************************************************************************)

\* The inductive invariant: how far the countdown can still be from the next
\* reading of the clock bounds the nodes that may still come late.
IInv ==
  /\ TypeOK
  /\ BudgetIsKept
  /\ StopHasReason
  /\ FlagIsPrompt
  /\ told_to_stop => stopped
  /\ late_nodes # 0 => deadline_passed
  /\ limits.has_deadline =>
       \/ late_nodes + nodes_until_next_time_check <= CheckInterval
       \/ late_nodes <= CheckInterval + 1 /\ stopped

LEMMA InitIInv == Init => IInv
<1>. SUFFICES ASSUME Init PROVE IInv
  OBVIOUS
<1>1. TypeOK
  <2>1. 0 \in Nat /\ 0 \in 0 .. CheckInterval
    BY LimitsAssumption
  <2>. QED BY <2>1, Zenon DEF Init, TypeOK
<1>2. BudgetIsKept /\ StopHasReason /\ FlagIsPrompt
  BY LimitsAssumption DEF Init, BudgetIsKept, StopHasReason, FlagIsPrompt
<1>3. limits.has_deadline => late_nodes + nodes_until_next_time_check <= CheckInterval
  BY LimitsAssumption DEF Init
<1>. QED BY <1>1, <1>2, <1>3 DEF Init, IInv

LEMMA CountNodeIInv ==
  ASSUME IInv, CountNode
  PROVE  IInv'
<1>. USE LimitsAssumption
<1>1. TypeOK'
  <2>1. /\ nodes' \in Nat /\ late_nodes' \in Nat /\ unwanted_nodes' \in Nat
        /\ nodes_until_next_time_check' \in 0 .. CheckInterval
    BY DEF IInv, TypeOK, CountNode, check_time_sometimes
  <2>2. time_limit_reached \in BOOLEAN
    BY DEF IInv, TypeOK, time_limit_reached
  <2>3. stopped' \in BOOLEAN /\ told_to_stop' \in BOOLEAN
    BY <2>2 DEF IInv, TypeOK, CountNode, check_time_sometimes
  <2>. QED BY <2>1, <2>3 DEF IInv, TypeOK, CountNode, check_time_sometimes
<1>2. BudgetIsKept' /\ FlagIsPrompt'
  BY DEF IInv, TypeOK, CountNode, check_time_sometimes, BudgetIsKept, FlagIsPrompt, budget_spent,
         external_stop_requested
<1>3. StopHasReason' /\ (told_to_stop => stopped)' /\ (late_nodes # 0 => deadline_passed)'
  BY DEF IInv, TypeOK, CountNode, check_time_sometimes, StopHasReason, budget_spent, time_limit_reached
<1>4. (limits.has_deadline =>
         \/ late_nodes + nodes_until_next_time_check <= CheckInterval
         \/ late_nodes <= CheckInterval + 1 /\ stopped)'
  BY DEF IInv, TypeOK, CountNode, check_time_sometimes, budget_spent, time_limit_reached, external_stop_requested
<1>. QED BY <1>1, <1>2, <1>3, <1>4 DEF IInv

LEMMA NextIInv == IInv /\ [Next]_vars => IInv'
<1>. SUFFICES ASSUME IInv, [Next]_vars PROVE IInv'
  OBVIOUS
<1>1. CASE ShouldStop
  BY <1>1 DEF ShouldStop, IInv, TypeOK, BudgetIsKept, StopHasReason, FlagIsPrompt,
              external_stop_requested, time_limit_reached, budget_spent
<1>2. CASE RefuseNode
  BY <1>2 DEF RefuseNode, IInv, TypeOK, BudgetIsKept, StopHasReason, FlagIsPrompt,
              external_stop_requested, time_limit_reached, budget_spent
<1>3. CASE CountNode
  BY <1>3, CountNodeIInv
<1>4. CASE RaiseStop
  BY <1>4 DEF RaiseStop, IInv, TypeOK, BudgetIsKept, StopHasReason, FlagIsPrompt,
              time_limit_reached, budget_spent
<1>5. CASE DeadlinePasses
  BY <1>5 DEF DeadlinePasses, IInv, TypeOK, BudgetIsKept, StopHasReason, FlagIsPrompt,
              time_limit_reached, budget_spent
<1>6. CASE UNCHANGED vars
  BY <1>6 DEF vars, IInv, TypeOK, BudgetIsKept, StopHasReason, FlagIsPrompt,
              time_limit_reached, budget_spent
<1>. QED BY <1>1, <1>2, <1>3, <1>4, <1>5, <1>6 DEF Next

\* Every variable keeps its type, the countdown its range.
THEOREM TypeCorrect == Spec => []TypeOK
<1>1. IInv => TypeOK
  BY DEF IInv
<1>. QED BY <1>1, InitIInv, NextIInv, PTL DEF Spec

\* The node budget holds, for every budget.
THEOREM BudgetCorrect == Spec => []BudgetIsKept
<1>1. IInv => BudgetIsKept
  BY DEF IInv
<1>. QED BY <1>1, InitIInv, NextIInv, PTL DEF Spec

\* The flag is seen at the next node, and the deadline within one interval of
\* nodes, for every interval.
THEOREM PromptCorrect == Spec => []StopIsPrompt
<1>1. IInv => StopIsPrompt
  BY LimitsAssumption DEF IInv, StopIsPrompt, DeadlineIsPrompt, TypeOK
<1>. QED BY <1>1, InitIInv, NextIInv, PTL DEF Spec

\* No search is stopped without a reason that is true of it.
THEOREM StopCorrect == Spec => []StopHasReason
<1>1. IInv => StopHasReason
  BY DEF IInv
<1>. QED BY <1>1, InitIInv, NextIInv, PTL DEF Spec

\* Being told to stop is final.
THEOREM StopFinal == Spec => StopIsFinal
<1>1. ASSUME IInv, [Next]_vars
      PROVE  [told_to_stop => nodes' = nodes /\ stopped' /\ told_to_stop']_vars
  <2>. SUFFICES ASSUME told_to_stop, Next
                PROVE  nodes' = nodes /\ stopped' /\ told_to_stop'
    BY <1>1
  <2>1. stopped
    BY <1>1 DEF IInv
  <2>2. ~CountNode
    BY <2>1 DEF CountNode
  <2>3. CASE ShouldStop
    BY <2>1, <2>3 DEF ShouldStop
  <2>4. CASE RefuseNode
    BY <2>4 DEF RefuseNode
  <2>5. CASE RaiseStop \/ DeadlinePasses
    BY <2>1, <2>5 DEF RaiseStop, DeadlinePasses
  <2>. QED BY <2>2, <2>3, <2>4, <2>5 DEF Next
<1>. QED BY <1>1, InitIInv, NextIInv, PTL DEF Spec, StopIsFinal
=============================================================================
