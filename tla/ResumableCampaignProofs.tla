------------------------ MODULE ResumableCampaignProofs ------------------------
(***************************************************************************)
(* For every program, every list of stages that meets StagesAssumption and *)
(* every reuse rule that meets ReuseAssumption: a session takes over only  *)
(* outputs that are what its own command line makes of the inputs as they  *)
(* are now, however many sessions, crashes and edits by hand came before.  *)
(* Of the five programs that decide on the evidence of their tools: that   *)
(* their decisions are one-sided and monotone in it, for every report the  *)
(* tools can make and every limit, matrix and threshold.                   *)
(***************************************************************************)
EXTENDS CampaignDecisions, FiniteSetTheorems, WellFoundedInduction, TLAPS

Asked(s) == s.when # <<>> => settings[s.when[1]] = s.when[2]
Taken(i) == status[Stages[i].name] \in {"ok", "reused"}

CampaignType ==
    /\ program \in Programs
    /\ phase \in {"idle", "stage", "tool", "writing", "publish", "report"}
    /\ resume \in BOOLEAN
    /\ at \in Nat
    /\ disk = [g \in Groups |-> disk[g]]
    /\ side = [n \in Names |-> side[n]]
    /\ status = [n \in Names |-> status[n]]

\* Stages are taken in their order, each because it was asked for.
TakenStagesAreCurrent ==
    phase # "idle" => \A i \in DOMAIN Stages : Taken(i) =>
        /\ phase # "report" => i < at
        /\ Asked(Stages[i])
        /\ Current(Stages[i])

\* While a stage is under way, what was expected of it is still so.
WorkInHand ==
    phase \in {"tool", "writing", "publish"} =>
        /\ at \in DOMAIN Stages
        /\ Asked(Stages[at])
        /\ expected = Expected(Stages[at])

OutputsAreMade ==
    phase = "publish" => \E r : disk[Stages[at].out] = Made(Stages[at], r)

IInv ==
    /\ CampaignType
    /\ TakenStagesAreCurrent
    /\ WorkInHand
    /\ OutputsAreMade
    /\ SidecarTellsTruth

-----------------------------------------------------------------------------
\* Contents that a stage has made are none of the three marks.
LEMMA MadeIsWhole == \A s, r : Whole(Made(s, r))
BY DEF Whole, Made, Absent, Some, Torn

LEMMA CompleteIsNoMark == \A e, out : Complete(e, out) \notin {Absent, Torn}
BY DEF Complete, Absent, Torn

\* What the assumption says of the stages of the program at hand.
LEMMA StageFacts ==
    ASSUME program \in Programs
    PROVE  /\ Len(Stages) \in Nat \ {0}
           /\ DOMAIN Stages = 1..Len(Stages)
           /\ \A i, j \in DOMAIN Stages :
                 /\ Stages[i].prints \subseteq Stages[i].reads
                 /\ Stages[i].reads \subseteq Sources[program] \cup Groups
                 /\ i <= j => Stages[j].out \notin Stages[i].reads \ Sources[program]
                 /\ i # j => Stages[i].name # Stages[j].name
                 /\ i # j /\ Stages[i].out = Stages[j].out =>
                       ~(Asked(Stages[i]) /\ Asked(Stages[j]))
           /\ \A i \in DOMAIN Stages : Stages[i] \in StageSet
           /\ \A i \in DOMAIN Stages : Stages[i].out \in Groups /\ Stages[i].name \in Names
<1>1. /\ Len(Stages) \in Nat \ {0}
      /\ DOMAIN Stages = 1..Len(Stages)
  BY StagesAssumption DEF Stages
<1>2. \A i \in DOMAIN Stages : Stages[i] \in StageSet
  BY DEF StageSet
<1>3. \A i \in DOMAIN Stages : Stages[i].out \in Groups /\ Stages[i].name \in Names
  BY <1>2 DEF Groups, Names
<1>4. ASSUME NEW i \in DOMAIN Stages, NEW j \in DOMAIN Stages
      PROVE  /\ Stages[i].prints \subseteq Stages[i].reads
             /\ Stages[i].reads \subseteq Sources[program] \cup Groups
             /\ i <= j => Stages[j].out \notin Stages[i].reads \ Sources[program]
             /\ i # j => Stages[i].name # Stages[j].name
             /\ i # j /\ Stages[i].out = Stages[j].out =>
                   ~(Asked(Stages[i]) /\ Asked(Stages[j]))
  <2> DEFINE s == Stages[i]
             t == Stages[j]
  <2>1. /\ s.prints \subseteq s.reads
        /\ s.reads \subseteq Sources[program] \cup {Stages[k].out : k \in DOMAIN Stages}
        /\ i <= j => t.out \notin s.reads \ Sources[program]
        /\ i # j => s.name # t.name
        /\ i # j /\ s.out = t.out =>
              /\ s.when # <<>> /\ t.when # <<>>
              /\ s.when[1] = t.when[1] /\ s.when[2] # t.when[2]
    BY StagesAssumption DEF Stages
  <2>2. {Stages[k].out : k \in DOMAIN Stages} \subseteq Groups
    BY <1>3
  <2>3. i # j /\ s.out = t.out => ~(Asked(s) /\ Asked(t))
    BY <2>1 DEF Asked
  <2> QED  BY <2>1, <2>2, <2>3
<1> QED  BY <1>1, <1>2, <1>3, <1>4

\* Writing the outputs of stage j changes no input of stage i <= j ...
LEMMA InputsStay ==
    ASSUME CampaignType,
           NEW i \in DOMAIN Stages, NEW j \in DOMAIN Stages, i <= j,
           NEW c, disk' = [disk EXCEPT ![Stages[j].out] = c], UNCHANGED fixed_vars,
           NEW n \in Stages[i].reads
    PROVE  Now(n)' = Now(n)
<1>1. program' = program /\ sources' = sources
  BY DEF fixed_vars
<1>2. n \in Sources[program] => Now(n)' = Now(n)
  BY <1>1 DEF Now
<1>3. ASSUME n \notin Sources[program]
      PROVE  Now(n)' = Now(n)
  <2>1. n \in Groups /\ n # Stages[j].out
    BY <1>3, StageFacts DEF CampaignType
  <2>2. disk'[n] = disk[n]
    BY <2>1 DEF CampaignType
  <2> QED  BY <1>1, <1>3, <2>2 DEF Now
<1> QED  BY <1>2, <1>3

\* ... nor the outputs of stage i < j, if both were asked for.
LEMMA OutputsStay ==
    ASSUME CampaignType,
           NEW i \in DOMAIN Stages, NEW j \in DOMAIN Stages, i < j,
           Asked(Stages[i]), Asked(Stages[j]), Current(Stages[i]),
           NEW c, disk' = [disk EXCEPT ![Stages[j].out] = c],
           UNCHANGED fixed_vars, settings' = settings
    PROVE  Current(Stages[i])'
<1>1. program' = program /\ Stages' = Stages
  BY DEF fixed_vars, Stages
<1>2. i <= j /\ i # j
  BY StageFacts DEF CampaignType
<1>3. Stages[i].out \in Groups /\ Stages[i].out # Stages[j].out
  BY <1>2, StageFacts DEF CampaignType
<1>4. disk'[Stages[i].out] = disk[Stages[i].out]
  BY <1>3 DEF CampaignType
<1>5. \A n \in Stages[i].prints : Now(n)' = Now(n)
  BY <1>2, StageFacts, InputsStay DEF CampaignType
<1>6. Chosen(Stages[i])' = Chosen(Stages[i])
  BY <1>1 DEF Chosen
<1> QED  BY <1>1, <1>4, <1>5, <1>6 DEF Current

\* Nothing changes when neither the disk nor the settings do.
LEMMA CurrentStays ==
    ASSUME UNCHANGED <<fixed_vars, settings, disk>>, NEW i \in DOMAIN Stages
    PROVE  /\ Stages' = Stages
           /\ Current(Stages[i])' <=> Current(Stages[i])
           /\ Asked(Stages[i])' <=> Asked(Stages[i])
           /\ Expected(Stages[i])' = Expected(Stages[i])
<1>1. program' = program /\ sources' = sources /\ settings' = settings /\ disk' = disk
  BY DEF fixed_vars
<1>2. Stages' = Stages
  BY <1>1 DEF Stages
<1>3. \A n : Now(n)' = Now(n)
  BY <1>1 DEF Now
<1>4. Chosen(Stages[i])' = Chosen(Stages[i])
  BY <1>1, <1>2 DEF Chosen
<1>5. Inputs(Stages[i].prints)' = Inputs(Stages[i].prints)
  BY <1>2, <1>3 DEF Inputs
<1> QED  BY <1>1, <1>2, <1>3, <1>4, <1>5 DEF Current, Asked, Expected

\* A reused stage is current, for its sidecar matches and tells the truth.
LEMMA ReusedIsCurrent ==
    ASSUME CampaignType, SidecarTellsTruth, NEW i \in DOMAIN Stages,
           Verdict(program, LookOf(Stages[i])) = "reuse"
    PROVE  Current(Stages[i])
<1> DEFINE s == Stages[i]
<1>1. s \in StageSet
  BY StageFacts DEF CampaignType
<1>2. LookOf(s) \in Looks
  <2>1. (IF Whole(disk[s.out]) THEN Entire ELSE disk[s.out]) \in {Absent, Some, Torn, Entire}
    BY DEF Whole
  <2>2. (side[s.name] # Absent) \in BOOLEAN /\ (Matches(s) /\ Whole(disk[s.out])) \in BOOLEAN
    OBVIOUS
  <2> QED  BY <2>1, <2>2 DEF LookOf, Looks, CampaignType
<1>3. LookOf(s).matches
  BY <1>2, ReuseAssumption DEF CampaignType
<1>4. Matches(s) /\ Whole(disk[s.out])
  BY <1>3 DEF LookOf
<1>5. /\ side[s.name].expected = Expected(s)
      /\ side[s.name].output = disk[s.out]
      /\ side[s.name] \notin {Absent, Torn}
  BY <1>4, CompleteIsNoMark DEF Matches, Complete
<1>6. /\ disk[s.out].by = Expected(s).by /\ disk[s.out].with = Expected(s).with
      /\ \A n \in s.prints : disk[s.out].from[n] = Expected(s).from[n]
  BY <1>1, <1>5 DEF SidecarTellsTruth
<1> QED  BY <1>4, <1>6 DEF Current, Expected, Inputs

\* Outputs just made from what was expected are current.
LEMMA MadeIsCurrent ==
    ASSUME CampaignType, NEW i \in DOMAIN Stages, NEW r,
           disk[Stages[i].out] = Made(Stages[i], r)
    PROVE  Current(Stages[i])
<1> DEFINE s == Stages[i]
<1>1. s.prints \subseteq s.reads
  BY StageFacts DEF CampaignType
<1>2. Whole(disk[s.out])
  BY MadeIsWhole
<1>3. \A n \in s.prints : disk[s.out].from[n] = Now(n)
  BY <1>1 DEF Made, Inputs
<1> QED  BY <1>2, <1>3 DEF Current, Made

\* What a stage is made from stays the same while its outputs are written ...
LEMMA MakingStays ==
    ASSUME CampaignType, NEW j \in DOMAIN Stages, NEW c,
           disk' = [disk EXCEPT ![Stages[j].out] = c],
           UNCHANGED fixed_vars, settings' = settings
    PROVE  /\ Stages' = Stages
           /\ Expected(Stages[j])' = Expected(Stages[j])
           /\ \A r : Made(Stages[j], r)' = Made(Stages[j], r)
           /\ disk'[Stages[j].out] = c
<1>1. program' = program /\ Stages' = Stages
  BY DEF fixed_vars, Stages
<1>2. Chosen(Stages[j])' = Chosen(Stages[j])
  BY <1>1 DEF Chosen
<1>3. /\ Len(Stages) \in Nat \ {0} /\ DOMAIN Stages = 1..Len(Stages)
      /\ Stages[j].prints \subseteq Stages[j].reads
      /\ Stages[j].out \in Groups
  BY StageFacts DEF CampaignType
<1>4. j <= j
  BY <1>3
<1>5. \A n \in Stages[j].reads : Now(n)' = Now(n)
  BY <1>4, InputsStay
<1>6. Inputs(Stages[j].prints)' = Inputs(Stages[j].prints)
  BY <1>1, <1>3, <1>5 DEF Inputs
<1>7. Inputs(Stages[j].reads)' = Inputs(Stages[j].reads)
  BY <1>1, <1>5 DEF Inputs
<1>8. disk'[Stages[j].out] = c
  BY <1>3 DEF CampaignType
<1>9. Expected(Stages[j])' = Expected(Stages[j])
  BY <1>1, <1>2, <1>6 DEF Expected
<1>10. \A r : Made(Stages[j], r)' = Made(Stages[j], r)
  BY <1>1, <1>2, <1>7 DEF Made
<1> QED  BY <1>1, <1>8, <1>9, <1>10

\* ... so that a stage whose tool has finished is current.
LEMMA FinishedIsCurrent ==
    ASSUME CampaignType, NEW j \in DOMAIN Stages, NEW r,
           disk' = [disk EXCEPT ![Stages[j].out] = Made(Stages[j], r)],
           UNCHANGED fixed_vars, settings' = settings
    PROVE  /\ Stages' = Stages
           /\ Expected(Stages[j])' = Expected(Stages[j])
           /\ disk'[Stages[j].out] = Made(Stages[j], r)'
           /\ Current(Stages[j])'
<1>1. program' = program /\ Stages' = Stages
  BY DEF fixed_vars, Stages
<1>2. Chosen(Stages[j])' = Chosen(Stages[j])
  BY <1>1 DEF Chosen
<1>3. /\ Len(Stages) \in Nat \ {0} /\ DOMAIN Stages = 1..Len(Stages)
      /\ Stages[j].prints \subseteq Stages[j].reads
      /\ Stages[j].out \in Groups
  BY StageFacts DEF CampaignType
<1>5. \A n \in Stages[j].reads : Now(n)' = Now(n)
  <2>1. j <= j
    BY <1>3
  <2>2. \E c : disk' = [disk EXCEPT ![Stages[j].out] = c]
    OBVIOUS
  <2>3. PICK c : disk' = [disk EXCEPT ![Stages[j].out] = c]
    BY <2>2
  <2> QED  BY <2>1, <2>3, InputsStay
<1>6. Inputs(Stages[j].prints)' = Inputs(Stages[j].prints)
  BY <1>1, <1>3, <1>5 DEF Inputs
<1>7. Inputs(Stages[j].reads)' = Inputs(Stages[j].reads)
  BY <1>1, <1>5 DEF Inputs
<1>8. disk'[Stages[j].out] = Made(Stages[j], r)
  BY <1>3 DEF CampaignType
<1>9. Expected(Stages[j])' = Expected(Stages[j])
  BY <1>1, <1>2, <1>6 DEF Expected
<1>10. Made(Stages[j], r)' = Made(Stages[j], r)
  BY <1>1, <1>2, <1>7 DEF Made
<1>11. Whole(disk'[Stages[j].out])
  BY <1>8, MadeIsWhole
<1>12. \A n \in Stages[j].prints : disk'[Stages[j].out].from[n] = Now(n)'
  BY <1>3, <1>5, <1>8 DEF Made, Inputs
<1>13. Current(Stages[j])'
  BY <1>1, <1>2, <1>8, <1>11, <1>12 DEF Current, Made, Whole
<1> QED  BY <1>1, <1>8, <1>9, <1>10, <1>13

\* The status of stage j is set, and the stages before it stay what they are.
LEMMA StatusStep ==
    ASSUME CampaignType, TakenStagesAreCurrent, phase \notin {"idle", "report"},
           NEW j \in DOMAIN Stages, at = j, UNCHANGED fixed_vars,
           NEW outcome, status' = [status EXCEPT ![Stages[j].name] = outcome],
           \A i \in DOMAIN Stages : i < j /\ Taken(i) =>
               Asked(Stages[i])' /\ Current(Stages[i])',
           outcome \in {"ok", "reused"} =>
               /\ Asked(Stages[j])' /\ Current(Stages[j])'
               /\ at' = at + 1,
           at' \in {at, at + 1}
    PROVE  TakenStagesAreCurrent'
<1>1. Stages' = Stages
  BY DEF fixed_vars, Stages
<1>2. Len(Stages) \in Nat \ {0} /\ DOMAIN Stages = 1..Len(Stages)
  BY StageFacts DEF CampaignType
<1>3. SUFFICES ASSUME NEW i \in DOMAIN Stages, Taken(i)'
               PROVE  i < at' /\ Asked(Stages[i])' /\ Current(Stages[i])'
  BY <1>1 DEF TakenStagesAreCurrent
<1>4. CASE i = j
  <2>1. Stages[j].name \in Names
    BY StageFacts DEF CampaignType
  <2>2. status'[Stages[j].name] = outcome
    BY <2>1 DEF CampaignType
  <2>3. outcome \in {"ok", "reused"}
    BY <1>1, <1>3, <1>4, <2>2 DEF Taken
  <2> QED  BY <1>2, <1>4, <2>3
<1>5. CASE i # j
  <2>1. Stages[i].name # Stages[j].name
    BY <1>5, StageFacts DEF CampaignType
  <2>2. Stages[i].name \in Names
    BY StageFacts DEF CampaignType
  <2>3. status'[Stages[i].name] = status[Stages[i].name]
    BY <2>1, <2>2 DEF CampaignType
  <2>4. Taken(i)
    BY <1>1, <1>3, <2>3 DEF Taken
  <2>5. i < j
    BY <2>4 DEF TakenStagesAreCurrent
  <2> QED  BY <1>2, <2>4, <2>5
<1> QED  BY <1>4, <1>5

\* Stages before j that were taken stay current while j is written or left alone.
LEMMA TakenStay ==
    ASSUME CampaignType, TakenStagesAreCurrent, phase \notin {"idle", "report"},
           NEW j \in DOMAIN Stages, at = j, Asked(Stages[j]),
           UNCHANGED fixed_vars, settings' = settings,
           NEW c, disk' = [disk EXCEPT ![Stages[j].out] = c]
    PROVE  \A i \in DOMAIN Stages : i < j /\ Taken(i) =>
               Asked(Stages[i])' /\ Current(Stages[i])'
<1> SUFFICES ASSUME NEW i \in DOMAIN Stages, i < j, Taken(i)
             PROVE  Asked(Stages[i])' /\ Current(Stages[i])'
  OBVIOUS
<1>1. Asked(Stages[i]) /\ Current(Stages[i])
  BY DEF TakenStagesAreCurrent
<1>2. Stages' = Stages
  BY DEF fixed_vars, Stages
<1>3. Asked(Stages[i])'
  BY <1>1, <1>2 DEF Asked
<1>4. Current(Stages[i])'
  BY <1>1, OutputsStay
<1> QED  BY <1>3, <1>4

-----------------------------------------------------------------------------
\* A fresh directory: no outputs, no sidecars, nothing taken over.
LEMMA InitIInv == Init => IInv
<1> SUFFICES ASSUME NEW p \in Programs, InitFor(p)
             PROVE  IInv
  BY DEF Init
<1>1. program = p /\ phase = "idle" /\ Stages = StagesOf[p]
  BY DEF InitFor, Stages
<1>2. Groups = {StagesOf[p][i].out : i \in DOMAIN StagesOf[p]}
  BY <1>1 DEF Groups, StageSet
<1>3. Names = {StagesOf[p][i].name : i \in DOMAIN StagesOf[p]}
  BY <1>1 DEF Names, StageSet
<1>4. /\ disk = [g \in Groups |-> Absent] /\ side = [n \in Names |-> Absent]
      /\ DOMAIN side = Names /\ status = [n \in Names |-> "none"]
  BY <1>2, <1>3 DEF InitFor
<1>5. resume = FALSE /\ at = 1
  BY DEF InitFor
<1>6. CampaignType
  BY <1>1, <1>4, <1>5 DEF CampaignType
<1>7. SidecarTellsTruth
  BY <1>4 DEF SidecarTellsTruth, Names
<1> QED  BY <1>1, <1>6, <1>7 DEF IInv, TakenStagesAreCurrent, WorkInHand, OutputsAreMade

\* Types are kept by every step.
LEMMA TypeStays == CampaignType /\ [Next]_vars => CampaignType'
<1> SUFFICES ASSUME CampaignType, [Next]_vars
             PROVE  CampaignType'
  OBVIOUS
<1> USE DEF fixed_vars, session_vars, disk_vars
<1>1. program' = program /\ Groups' = Groups /\ Names' = Names
  <2>1. program' = program
    BY DEF Next, vars, StartSession, StageStep, SkipStage, ReuseStage, RefuseStage, RunStage,
           ToolWrites, ToolFinishes, ToolFails, RejectOutput, PublishSidecar, FinishReport,
           Crash, ReplaceSource, RemoveOutputs
  <2> QED  BY <2>1 DEF Groups, Names, StageSet, Stages
<1>2. /\ phase' \in {"idle", "stage", "tool", "writing", "publish", "report"}
      /\ resume' \in BOOLEAN
      /\ at' \in Nat
  BY DEF CampaignType, Next, vars, StartSession, StageStep, SkipStage, ReuseStage,
         RefuseStage, RunStage, ToolWrites, ToolFinishes, ToolFails, RejectOutput,
         PublishSidecar, FinishReport, Crash, ReplaceSource, RemoveOutputs, PassOn, Refuse
<1>3. disk' = [g \in Groups |-> disk'[g]]
  <2>1. \/ disk' = disk
        \/ \E s, c : disk' = [disk EXCEPT ![s] = c]
    BY DEF Next, vars, StartSession, StageStep, SkipStage, ReuseStage, RefuseStage, RunStage,
           ToolWrites, ToolFinishes, ToolFails, RejectOutput, PublishSidecar, FinishReport,
           Crash, ReplaceSource, RemoveOutputs
  <2> QED  BY <2>1 DEF CampaignType
<1>4. side' = [n \in Names |-> side'[n]]
  <2>1. \/ side' = side
        \/ \E s, c : side' = [side EXCEPT ![s] = c]
    BY DEF Next, vars, StartSession, StageStep, SkipStage, ReuseStage, RefuseStage, RunStage,
           ToolWrites, ToolFinishes, ToolFails, RejectOutput, PublishSidecar, FinishReport,
           Crash, ReplaceSource, RemoveOutputs
  <2> QED  BY <2>1 DEF CampaignType
<1>5. status' = [n \in Names |-> status'[n]]
  <2>1. \/ status' = status
        \/ status' = [n \in Names |-> "none"]
        \/ \E s, c : status' = [status EXCEPT ![s] = c]
    BY DEF Next, vars, StartSession, StageStep, SkipStage, ReuseStage, RefuseStage, RunStage,
           ToolWrites, ToolFinishes, ToolFails, RejectOutput, PublishSidecar, FinishReport,
           Crash, ReplaceSource, RemoveOutputs, PassOn, Refuse
  <2> QED  BY <2>1 DEF CampaignType
<1> QED  BY <1>1, <1>2, <1>3, <1>4, <1>5 DEF CampaignType

\* A session that is over, or starts afresh, has taken nothing over.
LEMMA NothingInHand ==
    ASSUME IInv, CampaignType', Stages' = Stages,
           side' = side \/ \E n : \E c \in {Absent, Torn} : side' = [side EXCEPT ![n] = c],
           \/ phase' = "idle"
           \/ phase' = "stage" /\ status' = [n \in Names |-> "none"]
    PROVE  IInv'
<1>1. TakenStagesAreCurrent'
  <2>1. ASSUME phase' = "stage", status' = [n \in Names |-> "none"]
        PROVE  \A i \in DOMAIN Stages : ~Taken(i)'
    BY <2>1, StageFacts DEF Taken, IInv, CampaignType
  <2> QED  BY <2>1 DEF TakenStagesAreCurrent
<1>2. SidecarTellsTruth'
  <2>1. StageSet' = StageSet
    BY DEF StageSet
  <2>2. SUFFICES ASSUME NEW s \in StageSet, side'[s.name] \notin {Absent, Torn}
                 PROVE  side'[s.name] = side[s.name]
    BY <2>1 DEF IInv, SidecarTellsTruth
  <2>3. s.name \in Names
    BY DEF Names
  <2> QED  BY <2>2, <2>3 DEF IInv, CampaignType
<1>3. WorkInHand' /\ OutputsAreMade'
  BY DEF WorkInHand, OutputsAreMade
<1> QED  BY <1>1, <1>2, <1>3 DEF IInv

\* Sidecars that are left alone keep telling the truth.
LEMMA SidecarsStay ==
    ASSUME SidecarTellsTruth, UNCHANGED side, Stages' = Stages
    PROVE  SidecarTellsTruth'
BY DEF SidecarTellsTruth, StageSet

\* A new sidecar tells the truth: what was expected then is so still.
LEMMA NewSidecar ==
    ASSUME IInv, NEW j \in DOMAIN Stages, at = j, PublishSidecar(Stages[j])
    PROVE  SidecarTellsTruth'
<1> DEFINE s == Stages[j]
<1>1. Stages' = Stages /\ StageSet' = StageSet
  BY DEF PublishSidecar, fixed_vars, Stages, StageSet
<1>2. /\ expected = Expected(s)
      /\ \E r : disk[s.out] = Made(s, r)
  BY DEF PublishSidecar, IInv, WorkInHand, OutputsAreMade
<1>3. PICK r : disk[s.out] = Made(s, r)
  BY <1>2
<1>4. s.prints \subseteq s.reads /\ s.name \in Names
  BY StageFacts DEF IInv, CampaignType
<1>5. side'[s.name] = Complete(expected, disk[s.out])
  BY <1>4 DEF PublishSidecar, IInv, CampaignType
<1>6. /\ side'[s.name].expected = Expected(s)
      /\ side'[s.name].output = Made(s, r)
  BY <1>2, <1>3, <1>5 DEF Complete
<1>7. SUFFICES ASSUME NEW i \in DOMAIN Stages, side'[Stages[i].name] \notin {Absent, Torn}
               PROVE  LET e == side'[Stages[i].name].expected
                          made == side'[Stages[i].name].output
                      IN  /\ made.by = e.by /\ made.with = e.with
                          /\ \A n \in Stages[i].prints : made.from[n] = e.from[n]
  BY <1>1 DEF SidecarTellsTruth, StageSet
<1>8. CASE i = j
  <2>1. Made(s, r).by = Expected(s).by /\ Made(s, r).with = Expected(s).with
    BY DEF Made, Expected
  <2>2. \A n \in s.prints : Made(s, r).from[n] = Expected(s).from[n]
    BY <1>4 DEF Made, Expected, Inputs
  <2> QED  BY <1>6, <1>8, <2>1, <2>2
<1>9. CASE i # j
  <2>1. /\ Stages[i].name # s.name /\ Stages[i].name \in Names
        /\ Stages[i] \in StageSet
    BY <1>9, StageFacts DEF IInv, CampaignType
  <2>2. side'[Stages[i].name] = side[Stages[i].name]
    BY <2>1 DEF PublishSidecar, IInv, CampaignType
  <2> QED  BY <1>7, <2>1, <2>2 DEF IInv, SidecarTellsTruth
<1> QED  BY <1>8, <1>9

\* Every step keeps the invariant.
LEMMA NextIInv == IInv /\ [Next]_vars => IInv'
<1> SUFFICES ASSUME IInv, [Next]_vars
             PROVE  IInv'
  OBVIOUS
<1>1. CampaignType' /\ CampaignType
  BY TypeStays DEF IInv
<1>2. CASE UNCHANGED vars
  <2>1. TakenStagesAreCurrent'
    BY <1>2 DEF IInv, vars, TakenStagesAreCurrent, Taken, Asked, Current, Whole, Chosen, Now,
                Stages
  <2>2. WorkInHand'
    BY <1>2 DEF IInv, vars, WorkInHand, Asked, Expected, Inputs, Chosen, Now, Stages
  <2>3. OutputsAreMade'
    BY <1>2 DEF IInv, vars, OutputsAreMade, Made, Inputs, Chosen, Now, Stages
  <2>4. SidecarTellsTruth'
    BY <1>2 DEF IInv, vars, SidecarTellsTruth, StageSet, Stages
  <2> QED  BY <1>1, <2>1, <2>2, <2>3, <2>4 DEF IInv
<1>3. ASSUME NEW line \in CommandLines[program], NEW r \in BOOLEAN, StartSession(line, r)
      PROVE  IInv'
  <2>1. Stages' = Stages
    BY <1>3 DEF StartSession, fixed_vars, Stages
  <2> QED  BY <1>1, <1>3, <2>1, NothingInHand DEF StartSession, disk_vars
<1>4. ASSUME NEW j \in DOMAIN Stages, at = j, StageStep(Stages[j])
      PROVE  IInv'
  <2> DEFINE s == Stages[j]
  <2>1. CASE RefuseStage(s)
    <3>1. Stages' = Stages /\ side' = side /\ phase' = "idle"
      BY <2>1 DEF RefuseStage, Refuse, fixed_vars, disk_vars, Stages
    <3> QED  BY <1>1, <3>1, NothingInHand
  <2>2. CASE RejectOutput(s)
    <3>1. Stages' = Stages /\ side' = side /\ phase' = "idle"
      BY <2>2 DEF RejectOutput, Refuse, fixed_vars, disk_vars, Stages
    <3> QED  BY <1>1, <3>1, NothingInHand
  <2>3. CASE SkipStage(s)
    <3>1. /\ UNCHANGED <<fixed_vars, settings, disk>> /\ side' = side
          /\ phase = "stage" /\ phase' \in {"stage", "report"} /\ at' = at + 1
          /\ status' = [status EXCEPT ![s.name] = "skipped"]
      BY <2>3 DEF SkipStage, PassOn, session_vars, disk_vars
    <3>2. \A i \in DOMAIN Stages : i < j /\ Taken(i) =>
              Asked(Stages[i])' /\ Current(Stages[i])'
      BY <3>1, CurrentStays DEF IInv, TakenStagesAreCurrent
    <3>3. TakenStagesAreCurrent'
      BY <1>1, <1>4, <3>1, <3>2, StatusStep DEF IInv
    <3>4. SidecarTellsTruth'
      BY <3>1, CurrentStays, SidecarsStay DEF IInv
    <3> QED  BY <1>1, <3>1, <3>3, <3>4 DEF IInv, WorkInHand, OutputsAreMade
  <2>4. CASE ReuseStage(s)
    <3>1. /\ UNCHANGED <<fixed_vars, settings, disk>> /\ side' = side
          /\ phase = "stage" /\ phase' \in {"stage", "report"} /\ at' = at + 1
          /\ status' = [status EXCEPT ![s.name] = "reused"]
      BY <2>4 DEF ReuseStage, PassOn, session_vars, disk_vars
    <3>2. \A i \in DOMAIN Stages : i < j /\ Taken(i) =>
              Asked(Stages[i])' /\ Current(Stages[i])'
      BY <3>1, CurrentStays DEF IInv, TakenStagesAreCurrent
    <3>3. Asked(s)' /\ Current(s)'
      <4>1. Asked(s)
        BY <2>4 DEF ReuseStage, Enabled, Asked
      <4>2. Current(s)
        BY <1>1, <2>4, ReusedIsCurrent DEF ReuseStage, IInv
      <4> QED  BY <3>1, <4>1, <4>2, CurrentStays
    <3>4. TakenStagesAreCurrent'
      BY <1>1, <1>4, <3>1, <3>2, <3>3, StatusStep DEF IInv
    <3>5. SidecarTellsTruth'
      BY <3>1, CurrentStays, SidecarsStay DEF IInv
    <3> QED  BY <1>1, <3>1, <3>4, <3>5 DEF IInv, WorkInHand, OutputsAreMade
  <2>5. CASE RunStage(s)
    <3>1. /\ UNCHANGED <<fixed_vars, settings, disk>> /\ side' = side
          /\ phase = "stage" /\ phase' = "tool" /\ at' = at
          /\ status' = status /\ expected' = Expected(s)
      BY <2>5 DEF RunStage, session_vars, disk_vars
    <3>2. TakenStagesAreCurrent'
      BY <3>1, CurrentStays DEF IInv, TakenStagesAreCurrent, Taken
    <3>3. WorkInHand'
      <4>1. Asked(s)
        BY <2>5 DEF RunStage, Enabled, Asked
      <4>2. Asked(s)' /\ Expected(s)' = Expected(s) /\ Stages' = Stages
        BY <3>1, <4>1, CurrentStays
      <4> QED  BY <1>4, <3>1, <4>2 DEF WorkInHand
    <3>4. SidecarTellsTruth'
      BY <3>1, CurrentStays, SidecarsStay DEF IInv
    <3> QED  BY <1>1, <3>1, <3>2, <3>3, <3>4 DEF IInv, OutputsAreMade
  <2>6. CASE ToolWrites(s)
    <3>1. /\ UNCHANGED fixed_vars /\ settings' = settings /\ side' = side
          /\ phase = "tool" /\ phase' = "writing" /\ at' = at
          /\ status' = status /\ expected' = expected
          /\ \E c : disk' = [disk EXCEPT ![s.out] = c]
      BY <2>6 DEF ToolWrites, session_vars
    <3>2. PICK c : disk' = [disk EXCEPT ![s.out] = c]
      BY <3>1
    <3>3. Asked(s) /\ expected = Expected(s)
      BY <1>4, <3>1 DEF IInv, WorkInHand
    <3>4. \A i \in DOMAIN Stages : i < j /\ Taken(i) =>
              Asked(Stages[i])' /\ Current(Stages[i])'
      BY <1>1, <1>4, <3>1, <3>2, <3>3, TakenStay DEF IInv
    <3>5. Stages' = Stages /\ Expected(s)' = Expected(s)
      BY <1>1, <3>1, <3>2, MakingStays
    <3>6. TakenStagesAreCurrent'
      BY <1>4, <3>1, <3>4, <3>5 DEF IInv, TakenStagesAreCurrent, Taken
    <3>7. WorkInHand'
      BY <1>4, <3>1, <3>3, <3>5 DEF WorkInHand, Asked
    <3>8. SidecarTellsTruth'
      BY <3>1, <3>5, SidecarsStay DEF IInv
    <3> QED  BY <1>1, <3>1, <3>6, <3>7, <3>8 DEF IInv, OutputsAreMade
  <2>7. CASE ToolFinishes(s)
    <3>1. /\ UNCHANGED fixed_vars /\ settings' = settings /\ side' = side
          /\ phase = "writing" /\ expected' = expected
          /\ \E r : disk' = [disk EXCEPT ![s.out] = Made(s, r)]
          /\ \/ phase' = "publish" /\ at' = at /\ status' = status
             \/ /\ phase' \in {"stage", "report"} /\ at' = at + 1
                /\ status' = [status EXCEPT ![s.name] = "ok"]
      BY <2>7 DEF ToolFinishes, PassOn, session_vars
    <3>2. PICK r : disk' = [disk EXCEPT ![s.out] = Made(s, r)]
      BY <3>1
    <3>3. Asked(s) /\ expected = Expected(s)
      BY <1>4, <3>1 DEF IInv, WorkInHand
    <3>4. \A i \in DOMAIN Stages : i < j /\ Taken(i) =>
              Asked(Stages[i])' /\ Current(Stages[i])'
      <4>1. PICK c : disk' = [disk EXCEPT ![s.out] = c]
        BY <3>2
      <4> QED  BY <1>1, <1>4, <3>1, <3>3, <4>1, TakenStay DEF IInv
    <3>5. /\ Stages' = Stages /\ Expected(s)' = Expected(s)
          /\ disk'[s.out] = Made(s, r)' /\ Current(s)'
      BY <1>1, <3>1, <3>2, FinishedIsCurrent
    <3>6. Asked(s)'
      BY <3>1, <3>3, <3>5 DEF Asked
    <3>7. SidecarTellsTruth'
      BY <3>1, <3>5, SidecarsStay DEF IInv
    <3>8. CASE phase' = "publish"
      <4>1. at' = at /\ status' = status
        BY <3>1, <3>8
      <4>2. TakenStagesAreCurrent'
        BY <1>4, <3>1, <3>4, <3>5, <4>1 DEF IInv, TakenStagesAreCurrent, Taken
      <4>3. WorkInHand'
        BY <1>4, <3>1, <3>3, <3>5, <3>6, <4>1 DEF WorkInHand
      <4>4. OutputsAreMade'
        BY <1>4, <3>5, <4>1 DEF OutputsAreMade
      <4> QED  BY <1>1, <3>7, <4>2, <4>3, <4>4 DEF IInv
    <3>9. CASE phase' # "publish"
      <4>1. /\ phase' \in {"stage", "report"} /\ at' = at + 1
            /\ status' = [status EXCEPT ![s.name] = "ok"]
        BY <3>1, <3>9
      <4>2. TakenStagesAreCurrent'
        BY <1>1, <1>4, <3>1, <3>4, <3>5, <3>6, <4>1, StatusStep DEF IInv
      <4> QED  BY <1>1, <3>7, <4>1, <4>2 DEF IInv, WorkInHand, OutputsAreMade
    <3> QED  BY <3>8, <3>9
  <2>8. CASE ToolFails(s)
    <3>1. /\ UNCHANGED <<fixed_vars, settings, disk>> /\ side' = side
          /\ phase \in {"tool", "writing"}
          /\ \/ phase' = "idle"
             \/ /\ phase' \in {"stage", "report"} /\ at' = at + 1
                /\ status' = [status EXCEPT ![s.name] = "failed"]
             \/ /\ phase' = "report" /\ at' = at
                /\ status' = [status EXCEPT ![s.name] = "failed"]
      BY <2>8 DEF ToolFails, Refuse, PassOn, session_vars, disk_vars
    <3>2. Stages' = Stages
      BY <3>1, CurrentStays
    <3>3. CASE phase' = "idle"
      BY <1>1, <3>1, <3>2, <3>3, NothingInHand
    <3>4. CASE phase' # "idle"
      <4>1. /\ phase' \in {"stage", "report"} /\ at' \in {at, at + 1}
            /\ status' = [status EXCEPT ![s.name] = "failed"]
        BY <3>1, <3>4
      <4>2. \A i \in DOMAIN Stages : i < j /\ Taken(i) =>
                Asked(Stages[i])' /\ Current(Stages[i])'
        BY <3>1, CurrentStays DEF IInv, TakenStagesAreCurrent
      <4>3. TakenStagesAreCurrent'
        BY <1>1, <1>4, <3>1, <4>1, <4>2, StatusStep DEF IInv
      <4>4. SidecarTellsTruth'
        BY <3>1, <3>2, SidecarsStay DEF IInv
      <4> QED  BY <1>1, <4>1, <4>3, <4>4 DEF IInv, WorkInHand, OutputsAreMade
    <3> QED  BY <3>3, <3>4
  <2>9. CASE PublishSidecar(s)
    <3>1. /\ UNCHANGED <<fixed_vars, settings, disk>>
          /\ phase = "publish" /\ phase' \in {"stage", "report"} /\ at' = at + 1
          /\ status' = [status EXCEPT ![s.name] = "ok"]
      BY <2>9 DEF PublishSidecar, PassOn, session_vars
    <3>2. \A i \in DOMAIN Stages : i < j /\ Taken(i) =>
              Asked(Stages[i])' /\ Current(Stages[i])'
      BY <3>1, CurrentStays DEF IInv, TakenStagesAreCurrent
    <3>3. PICK r : disk[s.out] = Made(s, r)
      BY <1>4, <3>1 DEF IInv, OutputsAreMade
    <3>4. Asked(s) /\ Current(s)
      BY <1>1, <1>4, <3>1, <3>3, MadeIsCurrent DEF IInv, WorkInHand
    <3>5. Asked(s)' /\ Current(s)'
      BY <3>1, <3>4, CurrentStays
    <3>6. TakenStagesAreCurrent'
      BY <1>1, <1>4, <3>1, <3>2, <3>5, StatusStep DEF IInv
    <3>7. SidecarTellsTruth'
      BY <1>4, <2>9, NewSidecar
    <3> QED  BY <1>1, <3>1, <3>6, <3>7 DEF IInv, WorkInHand, OutputsAreMade
  <2> QED  BY <1>4, <2>1, <2>2, <2>3, <2>4, <2>5, <2>6, <2>7, <2>8, <2>9 DEF StageStep
<1>5. CASE FinishReport
  <2>1. Stages' = Stages /\ side' = side /\ phase' = "idle"
    BY <1>5 DEF FinishReport, fixed_vars, disk_vars, Stages
  <2> QED  BY <1>1, <2>1, NothingInHand
<1>6. CASE Crash
  <2>1. Stages' = Stages /\ phase' = "idle"
    BY <1>6 DEF Crash, fixed_vars, Stages
  <2>2. side' = side \/ side' = [side EXCEPT ![Stages[at].name] = Torn]
    BY <1>6 DEF Crash
  <2> QED  BY <1>1, <2>1, <2>2, NothingInHand
<1>7. ASSUME NEW x \in Sources[program], ReplaceSource(x)
      PROVE  IInv'
  <2>1. Stages' = Stages /\ side' = side /\ phase' = "idle"
    BY <1>7 DEF ReplaceSource, disk_vars, Stages
  <2> QED  BY <1>1, <2>1, NothingInHand
<1>8. ASSUME NEW s \in StageSet, RemoveOutputs(s)
      PROVE  IInv'
  <2>1. Stages' = Stages /\ phase' = "idle"
    BY <1>8 DEF RemoveOutputs, fixed_vars, Stages
  <2>2. side' = side \/ side' = [side EXCEPT ![s.name] = Absent]
    BY <1>8 DEF RemoveOutputs
  <2> QED  BY <1>1, <2>1, <2>2, NothingInHand
<1>9. (at \in DOMAIN Stages /\ StageStep(Stages[at])) => IInv'
  BY <1>4
<1> QED  BY <1>2, <1>3, <1>5, <1>6, <1>7, <1>8, <1>9 DEF Next

\* The inductive invariant holds throughout.
THEOREM SpecIInv == Spec => []IInv
BY InitIInv, NextIInv, PTL DEF Spec

\* Every sidecar says what the outputs it lists were made from
\* (write_resume_metadata and its kin), whatever happened in between.
THEOREM SidecarCorrect == Spec => []SidecarTellsTruth
<1>1. IInv => SidecarTellsTruth
  BY DEF IInv
<1> QED  BY <1>1, SpecIInv, PTL

\* A session takes over, or makes, only what its own command line makes of
\* the inputs as they are now (the reuse rules of the campaign programs).
THEOREM ReportCorrect == Spec => []ReportIsCurrent
<1>1. IInv => ReportIsCurrent
  <2> SUFFICES ASSUME IInv, phase # "idle", NEW s \in StageSet,
                      status[s.name] \in {"ok", "reused"}
               PROVE  Current(s)
    BY DEF ReportIsCurrent
  <2>1. PICK i \in DOMAIN Stages : s = Stages[i]
    BY DEF StageSet
  <2> QED  BY <2>1 DEF IInv, TakenStagesAreCurrent, Taken
<1> QED  BY <1>1, SpecIInv, PTL

-----------------------------------------------------------------------------
(***************************************************************************)
(* Keepers: what they write over was not finished, from the moment they    *)
(* have looked at the stage until their tool has come back.                *)
(***************************************************************************)
NothingIsOverwritten ==
    phase \in {"tool", "writing"} /\ program \in Keepers => ~Whole(disk[Stages[at].out])

LEMMA LookIsLook ==
    ASSUME resume \in BOOLEAN, NEW s
    PROVE  LookOf(s) \in Looks /\ (LookOf(s).files # Entire => ~Whole(disk[s.out]))
<1>1. ~Whole(disk[s.out]) => disk[s.out] \in {Absent, Some, Torn}
  BY DEF Whole
<1> QED  BY <1>1 DEF LookOf, Looks

LEMMA OverwritingStarts ==
    ASSUME IInv, NEW s, s = Stages[at], program \in Keepers, RunStage(s)
    PROVE  ~Whole(disk[s.out])
<1>1. LookOf(s) \in Looks /\ Verdict(program, LookOf(s)) = "run"
  BY LookIsLook DEF IInv, CampaignType, RunStage
<1>2. LookOf(s).files # Entire
  BY <1>1, KeepersAssumption
<1> QED  BY <1>2, LookIsLook DEF IInv, CampaignType

LEMMA OverwritingStays == IInv /\ NothingIsOverwritten /\ [Next]_vars => NothingIsOverwritten'
<1> SUFFICES ASSUME IInv, NothingIsOverwritten, [Next]_vars,
                    phase' \in {"tool", "writing"}, program' \in Keepers
             PROVE  ~Whole(disk'[Stages'[at'].out])
  BY DEF NothingIsOverwritten
<1>1. CASE UNCHANGED vars
  BY <1>1 DEF vars, NothingIsOverwritten, Stages
<1>2. ASSUME at \in DOMAIN Stages, StageStep(Stages[at])
      PROVE  ~Whole(disk'[Stages'[at'].out])
  <2> DEFINE s == Stages[at]
  <2>1. s.out \in Groups
    BY <1>2, StageFacts DEF IInv, CampaignType
  <2>2. ASSUME RunStage(s)
        PROVE  ~Whole(disk'[Stages'[at'].out])
    <3>1. Stages' = Stages /\ at' = at /\ disk' = disk /\ program' = program
      BY <2>2 DEF RunStage, fixed_vars, disk_vars, Stages
    <3> QED  BY <2>2, <3>1, OverwritingStarts
  <2>3. ASSUME ToolWrites(s)
        PROVE  ~Whole(disk'[Stages'[at'].out])
    <3>1. PICK c \in HalfWritten(s) : disk' = [disk EXCEPT ![s.out] = c]
      BY <2>3 DEF ToolWrites
    <3>2. c \in {Some, Torn}
      BY DEF HalfWritten
    <3>3. disk'[s.out] = c
      BY <2>1, <3>1 DEF IInv, CampaignType
    <3>4. Stages' = Stages /\ at' = at
      BY <2>3 DEF ToolWrites, fixed_vars, Stages
    <3> QED  BY <3>2, <3>3, <3>4 DEF Whole
  <2>4. RunStage(s) \/ ToolWrites(s)
    BY <1>2 DEF StageStep, SkipStage, ReuseStage, RefuseStage, ToolFinishes, ToolFails,
                RejectOutput, PublishSidecar, PassOn, Refuse
  <2> QED  BY <2>2, <2>3, <2>4
<1>3. ~Next => UNCHANGED vars
  OBVIOUS
<1>4. Next => at \in DOMAIN Stages /\ StageStep(Stages[at])
  BY DEF Next, StartSession, FinishReport, Crash, ReplaceSource, RemoveOutputs
<1> QED  BY <1>1, <1>2, <1>3, <1>4

\* No step of a session replaces the finished outputs of a stage: only a tool
\* writes, and only where nothing was finished.
LEMMA FinishedOutputsStay ==
    ASSUME IInv, NothingIsOverwritten, Next, phase # "idle", program \in Keepers,
           NEW t \in StageSet, Whole(disk[t.out])
    PROVE  disk'[t.out] = disk[t.out]
<1>1. t.out \in Groups
  BY DEF Groups
<1>2. CASE disk' = disk
  BY <1>2
<1>3. CASE disk' # disk
  <2>1. at \in DOMAIN Stages /\ (ToolWrites(Stages[at]) \/ ToolFinishes(Stages[at]))
    BY <1>3 DEF Next, StartSession, FinishReport, Crash, ReplaceSource, RemoveOutputs,
                StageStep, SkipStage, ReuseStage, RefuseStage, RunStage, ToolFails,
                RejectOutput, PublishSidecar, disk_vars
  <2>2. PICK c : disk' = [disk EXCEPT ![Stages[at].out] = c]
    BY <2>1 DEF ToolWrites, ToolFinishes
  <2>3. ~Whole(disk[Stages[at].out])
    BY <2>1 DEF ToolWrites, ToolFinishes, NothingIsOverwritten
  <2> QED  BY <1>1, <2>2, <2>3 DEF IInv, CampaignType
<1> QED  BY <1>2, <1>3

LEMMA KeepingIsInvariant == Spec => [](IInv /\ NothingIsOverwritten)
<1>1. Init => NothingIsOverwritten
  BY DEF Init, InitFor, NothingIsOverwritten
<1> QED  BY <1>1, InitIInv, NextIInv, OverwritingStays, PTL DEF Spec

\* A stage that was finished is never replaced by a later session of a program
\* that promises to keep it (fixed time, arena matrix, ProbCut, full phase),
\* with or without --resume and whatever a crash has left behind.
THEOREM FinishedCorrect == Spec => FinishedStagesStand
<1>1. IInv /\ NothingIsOverwritten /\ [Next]_vars =>
        ((phase # "idle" /\ program \in Keepers =>
            \A s \in StageSet : Whole(disk[s.out]) => disk'[s.out] = disk[s.out])
         \/ UNCHANGED vars)
  BY FinishedOutputsStay
<1> QED  BY <1>1, KeepingIsInvariant, PTL DEF Spec, FinishedStagesStand

-----------------------------------------------------------------------------
\* The evidence: what a session knows of its tools is what they can report.

\* What a stage's tool found out, if the session knows it.
Reported(i) == results[Stages[i].name] \in Outcomes(program, Stages[i])
Missing(i) == results[Stages[i].name] \in {None, Failed}

OutputsAreReports ==
    \A i \in DOMAIN Stages :
        LET c == disk[Stages[i].out]
        IN  Whole(c) /\ c.by = Stages[i].name => c.result \in Outcomes(program, Stages[i])

ResultsAreReports ==
    /\ results = [n \in Names |-> results[n]]
    /\ \A i \in DOMAIN Stages : Missing(i) \/ Reported(i)
    /\ phase # "idle" => \A i \in DOMAIN Stages : Taken(i) => Reported(i)
    /\ phase = "publish" => Reported(at)

\* A program that gives up with any tool has, once it is past a stage, what
\* that stage reports, if it was asked for it.
Strict == \A i \in DOMAIN Stages : ~Stages[i].tolerant /\ ~Stages[i].planned
NothingIsLeftOut ==
    Strict /\ phase # "idle" =>
        /\ \A i \in DOMAIN Stages : i < at => Taken(i) \/ ~Asked(Stages[i])
        /\ phase = "report" => at > Len(Stages)

EvidenceInv == OutputsAreReports /\ ResultsAreReports /\ NothingIsLeftOut

LEMMA InitEvidence == Init => EvidenceInv
<1> SUFFICES ASSUME NEW p \in Programs, InitFor(p)
             PROVE  EvidenceInv
  BY DEF Init
<1>1. program = p /\ phase = "idle" /\ Stages = StagesOf[p]
  BY DEF InitFor, Stages
<1>2. DOMAIN side = Names
  BY <1>1 DEF InitFor, Names, StageSet
<1>3. results = [n \in Names |-> None]
  BY <1>2 DEF InitFor
<1>4. \A i \in DOMAIN Stages : Stages[i].name \in Names /\ Stages[i].out \in Groups
  BY DEF Names, StageSet, Groups
<1>5. ASSUME NEW i \in DOMAIN Stages PROVE Missing(i)
  BY <1>3, <1>4 DEF Missing
<1>6. ASSUME NEW i \in DOMAIN Stages PROVE ~Whole(disk[Stages[i].out])
  <2>1. disk = [g \in Groups |-> Absent]
    BY <1>1 DEF InitFor, Groups, StageSet
  <2> QED  BY <1>4, <2>1 DEF Whole
<1> QED
  BY <1>1, <1>3, <1>5, <1>6 DEF EvidenceInv, OutputsAreReports, ResultsAreReports,
     NothingIsLeftOut

\* Writing what is not whole, or what a stage has made, leaves only reports.
LEMMA OutputsStayReports ==
    ASSUME CampaignType, OutputsAreReports, UNCHANGED fixed_vars,
           NEW j \in DOMAIN Stages, NEW c, disk' = [disk EXCEPT ![Stages[j].out] = c],
           Whole(c) => c.by = Stages[j].name /\ c.result \in Outcomes(program, Stages[j])
    PROVE  OutputsAreReports'
<1>1. program' = program /\ Stages' = Stages
  BY DEF fixed_vars, Stages
<1> SUFFICES ASSUME NEW i \in DOMAIN Stages, Whole(disk'[Stages[i].out]),
                    disk'[Stages[i].out].by = Stages[i].name
             PROVE  disk'[Stages[i].out].result \in Outcomes(program, Stages[i])
  BY <1>1 DEF OutputsAreReports, Whole
<1>2. Stages[i].out \in Groups /\ Stages[j].out \in Groups
  BY StageFacts DEF CampaignType
<1>3. CASE Stages[i].out # Stages[j].out
  <2>1. disk'[Stages[i].out] = disk[Stages[i].out]
    BY <1>2, <1>3 DEF CampaignType
  <2> QED  BY <2>1 DEF OutputsAreReports
<1>4. CASE Stages[i].out = Stages[j].out
  <2>1. disk'[Stages[i].out] = c
    BY <1>2, <1>4 DEF CampaignType
  <2>2. Stages[i].name = Stages[j].name
    BY <2>1
  <2>3. i = j
    BY <2>2, StageFacts DEF CampaignType
  <2> QED  BY <2>1, <2>3
<1> QED  BY <1>3, <1>4

LEMMA ReusedIsReported ==
    ASSUME IInv, OutputsAreReports, NEW j \in DOMAIN Stages, ReuseStage(Stages[j])
    PROVE  disk[Stages[j].out].result \in Outcomes(program, Stages[j])
<1>1. Current(Stages[j])
  BY ReusedIsCurrent DEF ReuseStage, IInv
<1> QED  BY <1>1 DEF Current, OutputsAreReports

\* The session comes past stage j with some outcome and some result.
LEMMA PassingOn ==
    ASSUME CampaignType, ResultsAreReports, NothingIsLeftOut, phase # "idle",
           UNCHANGED fixed_vars, settings' = settings,
           NEW j \in DOMAIN Stages, at = j, NEW outcome,
           status' = [status EXCEPT ![Stages[j].name] = outcome],
           at' = at + 1, phase' = IF at = Len(Stages) THEN "report" ELSE "stage",
           NEW r, results' = [results EXCEPT ![Stages[j].name] = r],
           r \in {None, Failed} \cup Outcomes(program, Stages[j]),
           outcome \in {"ok", "reused"} => r \in Outcomes(program, Stages[j]),
           Strict /\ outcome \notin {"ok", "reused"} => ~Asked(Stages[j])
    PROVE  ResultsAreReports' /\ NothingIsLeftOut'
<1>1. program' = program /\ Stages' = Stages /\ Names' = Names
  BY DEF fixed_vars, Stages, Names, StageSet
<1>2. /\ Len(Stages) \in Nat \ {0} /\ DOMAIN Stages = 1..Len(Stages)
      /\ \A i \in DOMAIN Stages : Stages[i].name \in Names
      /\ \A i \in DOMAIN Stages : i # j => Stages[i].name # Stages[j].name
  BY StageFacts DEF CampaignType
<1>3. /\ results' = [n \in Names |-> results'[n]]
      /\ results'[Stages[j].name] = r
      /\ \A i \in DOMAIN Stages : i # j => results'[Stages[i].name] = results[Stages[i].name]
  BY <1>2 DEF ResultsAreReports
<1>4. /\ status'[Stages[j].name] = outcome
      /\ \A i \in DOMAIN Stages : i # j => status'[Stages[i].name] = status[Stages[i].name]
  BY <1>2 DEF CampaignType
<1>5. ASSUME NEW i \in DOMAIN Stages
      PROVE  /\ Missing(i)' \/ Reported(i)'
             /\ Taken(i)' => Reported(i)'
  BY <1>1, <1>3, <1>4 DEF ResultsAreReports, Missing, Reported, Taken
<1>6. ResultsAreReports'
  BY <1>1, <1>3, <1>5 DEF ResultsAreReports
<1>7. ASSUME NEW i \in DOMAIN Stages, Strict, i < at'
      PROVE  Taken(i)' \/ ~Asked(Stages[i])'
  <2>1. Asked(Stages[i])' <=> Asked(Stages[i])
    BY <1>1 DEF Asked
  <2>2. i = j \/ i < at
    BY <1>2, <1>7
  <2> QED  BY <1>1, <1>4, <1>7, <2>1, <2>2 DEF NothingIsLeftOut, Taken
<1>8. Strict' <=> Strict
  BY <1>1 DEF Strict
<1>9. NothingIsLeftOut'
  BY <1>1, <1>2, <1>7, <1>8 DEF NothingIsLeftOut
<1> QED  BY <1>6, <1>9

\* Work on a stage that has not ended.
LEMMA WorkingOn ==
    ASSUME ResultsAreReports, NothingIsLeftOut, phase # "idle",
           UNCHANGED fixed_vars, settings' = settings, at' = at, status' = status,
           results' = results, phase' \notin {"report", "publish"}
    PROVE  ResultsAreReports' /\ NothingIsLeftOut'
<1>1. program' = program /\ Stages' = Stages /\ Names' = Names /\ Strict' = Strict
  BY DEF fixed_vars, Stages, Names, StageSet, Strict
<1>2. ASSUME NEW i \in DOMAIN Stages
      PROVE  /\ Missing(i)' = Missing(i) /\ Reported(i)' = Reported(i) /\ Taken(i)' = Taken(i)
             /\ Asked(Stages[i])' = Asked(Stages[i])
  BY <1>1 DEF Missing, Reported, Taken, Asked
<1> QED  BY <1>1, <1>2 DEF ResultsAreReports, NothingIsLeftOut

LEMMA NothingGoesOn ==
    ASSUME ResultsAreReports, UNCHANGED fixed_vars, results' = results, phase' = "idle"
    PROVE  ResultsAreReports' /\ NothingIsLeftOut'
<1>1. program' = program /\ Stages' = Stages /\ Names' = Names
  BY DEF fixed_vars, Stages, Names, StageSet
<1>2. ASSUME NEW i \in DOMAIN Stages
      PROVE  Missing(i)' = Missing(i) /\ Reported(i)' = Reported(i)
  BY <1>1 DEF Missing, Reported
<1> QED  BY <1>1, <1>2 DEF ResultsAreReports, NothingIsLeftOut

LEMMA SameOutputs ==
    ASSUME OutputsAreReports, UNCHANGED fixed_vars, disk' = disk
    PROVE  OutputsAreReports'
<1>1. program' = program /\ Stages' = Stages
  BY DEF fixed_vars, Stages
<1> QED  BY <1>1 DEF OutputsAreReports, Whole

\* Reports stay reports along every step.
LEMMA EvidenceStep ==
    ASSUME IInv, EvidenceInv, [Next]_vars
    PROVE  EvidenceInv'
<1>0. /\ CampaignType /\ OutputsAreReports /\ ResultsAreReports /\ NothingIsLeftOut
      /\ \A i \in DOMAIN Stages : Stages[i].name \in Names
      /\ DOMAIN Stages = 1..Len(Stages) /\ Len(Stages) \in Nat \ {0}
  BY StageFacts DEF IInv, EvidenceInv, CampaignType
<1>00. SUFFICES OutputsAreReports' /\ ResultsAreReports' /\ NothingIsLeftOut'
  BY DEF EvidenceInv
<1>1. CASE UNCHANGED vars
  <2>1. UNCHANGED fixed_vars /\ disk' = disk
    BY <1>1 DEF vars, fixed_vars
  <2>2. program' = program /\ Stages' = Stages /\ Names' = Names /\ Strict' = Strict
    BY <2>1 DEF fixed_vars, Stages, Names, StageSet, Strict
  <2>3. ASSUME NEW i \in DOMAIN Stages
        PROVE  /\ Missing(i)' = Missing(i) /\ Reported(i)' = Reported(i)
               /\ Taken(i)' = Taken(i) /\ Asked(Stages[i])' = Asked(Stages[i])
    BY <1>1, <2>2 DEF vars, Missing, Reported, Taken, Asked
  <2>4. Reported(at)' = Reported(at)
    BY <1>1, <2>2 DEF vars, Reported
  <2>5. phase' = phase /\ results' = results /\ at' = at
    BY <1>1 DEF vars
  <2>6. ResultsAreReports'
    BY <1>0, <2>2, <2>3, <2>4, <2>5 DEF ResultsAreReports
  <2>7. NothingIsLeftOut'
    BY <1>0, <2>2, <2>3, <2>5 DEF NothingIsLeftOut
  <2> QED  BY <1>0, <2>1, <2>6, <2>7, SameOutputs
<1>2. ASSUME NEW line \in CommandLines[program], NEW r \in BOOLEAN, StartSession(line, r)
      PROVE  OutputsAreReports' /\ ResultsAreReports' /\ NothingIsLeftOut'
  <2>1. /\ UNCHANGED fixed_vars /\ disk' = disk /\ phase' = "stage" /\ at' = 1
        /\ results' = [n \in Names |-> None] /\ status' = [n \in Names |-> "none"]
    BY <1>2 DEF StartSession, disk_vars
  <2>2. program' = program /\ Stages' = Stages /\ Names' = Names
    BY <2>1 DEF fixed_vars, Stages, Names, StageSet
  <2>3. ASSUME NEW i \in DOMAIN Stages PROVE Missing(i)' /\ ~Taken(i)'
    BY <1>0, <2>1, <2>2 DEF Missing, Taken
  <2>4. ResultsAreReports'
    BY <2>1, <2>2, <2>3 DEF ResultsAreReports
  <2>5. NothingIsLeftOut'
    BY <1>0, <2>1, <2>2 DEF NothingIsLeftOut
  <2> QED  BY <1>0, <2>1, <2>4, <2>5, SameOutputs
<1>3. ASSUME NEW j \in DOMAIN Stages, at = j, StageStep(Stages[j])
      PROVE  OutputsAreReports' /\ ResultsAreReports' /\ NothingIsLeftOut'
  <2> DEFINE s == Stages[j]
  <2>1. CASE SkipStage(s)
    <3>1. /\ UNCHANGED fixed_vars /\ disk' = disk /\ settings' = settings
          /\ results' = results /\ phase # "idle"
          /\ status' = [status EXCEPT ![s.name] = "skipped"] /\ at' = at + 1
          /\ phase' = IF at = Len(Stages) THEN "report" ELSE "stage"
      BY <2>1 DEF SkipStage, PassOn, session_vars, disk_vars
    <3>2. results' = [results EXCEPT ![s.name] = results[s.name]]
      BY <1>0, <3>1 DEF ResultsAreReports
    <3>3. results[s.name] \in {None, Failed} \cup Outcomes(program, s)
      BY <1>0 DEF ResultsAreReports, Missing, Reported
    <3>4. Strict => ~Asked(s)
      BY <2>1 DEF SkipStage, Enabled, Strict, Asked
    <3>5. "skipped" \notin {"ok", "reused"}
      OBVIOUS
    <3>6. ResultsAreReports' /\ NothingIsLeftOut'
      BY <1>0, <1>3, <3>1, <3>2, <3>3, <3>4, <3>5, PassingOn, Zenon
    <3> QED  BY <1>0, <3>1, <3>6, SameOutputs
  <2>2. CASE ReuseStage(s)
    <3>1. /\ UNCHANGED fixed_vars /\ disk' = disk /\ settings' = settings /\ phase # "idle"
          /\ results' = [results EXCEPT ![s.name] = disk[s.out].result]
          /\ status' = [status EXCEPT ![s.name] = "reused"] /\ at' = at + 1
          /\ phase' = IF at = Len(Stages) THEN "report" ELSE "stage"
      BY <2>2 DEF ReuseStage, PassOn, session_vars, disk_vars
    <3>2. disk[s.out].result \in Outcomes(program, s)
      BY <1>0, <2>2, ReusedIsReported
    <3>3. ResultsAreReports' /\ NothingIsLeftOut'
      BY <1>0, <1>3, <3>1, <3>2, PassingOn
    <3> QED  BY <1>0, <3>1, <3>3, SameOutputs
  <2>3. CASE RefuseStage(s) \/ RejectOutput(s)
    <3>1. /\ UNCHANGED fixed_vars /\ disk' = disk /\ results' = results /\ phase' = "idle"
      BY <2>3 DEF RefuseStage, RejectOutput, Refuse, disk_vars
    <3> QED  BY <1>0, <3>1, NothingGoesOn, SameOutputs
  <2>4. CASE RunStage(s)
    <3>1. /\ UNCHANGED fixed_vars /\ disk' = disk /\ settings' = settings
          /\ results' = results /\ status' = status /\ at' = at
          /\ phase # "idle" /\ phase' = "tool"
      BY <2>4 DEF RunStage, session_vars, disk_vars
    <3>2. ResultsAreReports' /\ NothingIsLeftOut'
      BY <1>0, <3>1, WorkingOn
    <3> QED  BY <1>0, <3>1, <3>2, SameOutputs
  <2>5. CASE ToolWrites(s)
    <3>1. /\ UNCHANGED fixed_vars /\ settings' = settings
          /\ results' = results /\ status' = status /\ at' = at
          /\ phase # "idle" /\ phase' = "writing"
      BY <2>5 DEF ToolWrites, session_vars
    <3>2. PICK c \in HalfWritten(s) : disk' = [disk EXCEPT ![s.out] = c]
      BY <2>5 DEF ToolWrites
    <3>3. ~Whole(c)
      BY <3>2 DEF HalfWritten, Whole
    <3>4. ResultsAreReports' /\ NothingIsLeftOut'
      BY <1>0, <3>1, WorkingOn
    <3> QED  BY <1>0, <3>1, <3>2, <3>3, <3>4, OutputsStayReports
  <2>6. CASE ToolFinishes(s)
    <3>1. /\ UNCHANGED fixed_vars /\ settings' = settings /\ phase # "idle"
      BY <2>6 DEF ToolFinishes, session_vars
    <3>2. PICK r \in Outcomes(program, s) : /\ disk' = [disk EXCEPT ![s.out] = Made(s, r)]
                                           /\ results' = [results EXCEPT ![s.name] = r]
      BY <2>6 DEF ToolFinishes
    <3>3. OutputsAreReports'
      <4>1. Made(s, r).by = s.name /\ Made(s, r).result \in Outcomes(program, s)
        BY DEF Made
      <4> QED  BY <1>0, <3>1, <3>2, <4>1, OutputsStayReports
    <3>4. CASE s.sidecar
      <4>1. phase' = "publish" /\ at' = at /\ status' = status
        BY <2>6, <3>4 DEF ToolFinishes
      <4>2. program' = program /\ Stages' = Stages /\ Names' = Names /\ Strict' = Strict
        BY <3>1 DEF fixed_vars, Stages, Names, StageSet, Strict
      <4>3. /\ results' = [n \in Names |-> results'[n]]
            /\ results'[s.name] = r
            /\ \A i \in DOMAIN Stages : i # j => results'[Stages[i].name] = results[Stages[i].name]
        BY <1>0, <3>2, StageFacts DEF ResultsAreReports, CampaignType
      <4>4. ASSUME NEW i \in DOMAIN Stages
            PROVE  /\ Missing(i)' \/ Reported(i)'
                   /\ Taken(i)' => Reported(i)'
                   /\ Taken(i)' = Taken(i) /\ Asked(Stages[i])' = Asked(Stages[i])
        BY <1>0, <3>1, <4>1, <4>2, <4>3 DEF ResultsAreReports, Missing, Reported, Taken, Asked
      <4>5. Reported(at)'
        BY <1>3, <4>1, <4>2, <4>3 DEF Reported
      <4>6. ResultsAreReports'
        BY <4>2, <4>3, <4>4, <4>5 DEF ResultsAreReports
      <4>7. NothingIsLeftOut'
        BY <1>0, <3>1, <4>1, <4>2, <4>4 DEF NothingIsLeftOut
      <4> QED  BY <3>3, <4>6, <4>7
    <3>5. CASE ~s.sidecar
      <4>1. /\ status' = [status EXCEPT ![s.name] = "ok"] /\ at' = at + 1
            /\ phase' = IF at = Len(Stages) THEN "report" ELSE "stage"
        BY <2>6, <3>5 DEF ToolFinishes, PassOn
      <4>2. ResultsAreReports' /\ NothingIsLeftOut'
        BY <1>0, <1>3, <3>1, <3>2, <4>1, PassingOn
      <4> QED  BY <3>3, <4>2
    <3> QED  BY <3>4, <3>5
  <2>7. CASE ToolFails(s)
    <3>1. /\ UNCHANGED fixed_vars /\ settings' = settings /\ phase \in {"tool", "writing"}
          /\ disk' = disk
      BY <2>7 DEF ToolFails, session_vars, disk_vars
    <3>2. CASE ~s.tolerant
      <4>1. results' = results /\ phase' = "idle"
        BY <2>7, <3>2 DEF ToolFails, Refuse
      <4> QED  BY <1>0, <3>1, <4>1, NothingGoesOn, SameOutputs
    <3>3. CASE s.tolerant
      <4>0. ~Strict /\ results' = [results EXCEPT ![s.name] = Failed]
        BY <2>7, <3>3 DEF ToolFails, Strict
      <4>1. CASE KeepsGoing(s)
        <5>1. /\ status' = [status EXCEPT ![s.name] = "failed"] /\ at' = at + 1
              /\ phase' = IF at = Len(Stages) THEN "report" ELSE "stage"
          BY <2>7, <3>3, <4>1 DEF ToolFails, PassOn
        <5>2. "failed" \notin {"ok", "reused"} /\ phase # "idle"
          BY <3>1
        <5>3. Failed \in {None, Failed} \cup Outcomes(program, s)
          OBVIOUS
        <5>4. ResultsAreReports' /\ NothingIsLeftOut'
          BY <1>0, <1>3, <3>1, <4>0, <5>1, <5>2, <5>3, PassingOn, Zenon
        <5> QED  BY <1>0, <3>1, <5>4, SameOutputs
      <4>2. CASE ~KeepsGoing(s)
        <5>1. status' = [status EXCEPT ![s.name] = "failed"] /\ phase' = "report"
          BY <2>7, <3>3, <4>2 DEF ToolFails
        <5>2. program' = program /\ Stages' = Stages /\ Names' = Names /\ Strict' = Strict
          BY <3>1 DEF fixed_vars, Stages, Names, StageSet, Strict
        <5>3. /\ results' = [n \in Names |-> results'[n]]
              /\ results'[s.name] = Failed /\ status'[s.name] = "failed"
              /\ \A i \in DOMAIN Stages : i # j =>
                    /\ results'[Stages[i].name] = results[Stages[i].name]
                    /\ status'[Stages[i].name] = status[Stages[i].name]
          BY <1>0, <4>0, <5>1, StageFacts DEF ResultsAreReports, CampaignType
        <5>4. ASSUME NEW i \in DOMAIN Stages
              PROVE  /\ Missing(i)' \/ Reported(i)'
                     /\ Taken(i)' => Reported(i)'
          BY <1>0, <3>1, <5>2, <5>3 DEF ResultsAreReports, Missing, Reported, Taken
        <5>5. ResultsAreReports'
          BY <5>1, <5>2, <5>3, <5>4 DEF ResultsAreReports
        <5>6. NothingIsLeftOut'
          BY <4>0, <5>2 DEF NothingIsLeftOut
        <5> QED  BY <1>0, <3>1, <5>5, <5>6, SameOutputs
      <4> QED  BY <4>1, <4>2
    <3> QED  BY <3>2, <3>3
  <2>8. CASE PublishSidecar(s)
    <3>1. /\ UNCHANGED fixed_vars /\ disk' = disk /\ settings' = settings
          /\ results' = results /\ phase = "publish"
          /\ status' = [status EXCEPT ![s.name] = "ok"] /\ at' = at + 1
          /\ phase' = IF at = Len(Stages) THEN "report" ELSE "stage"
      BY <2>8 DEF PublishSidecar, PassOn, session_vars
    <3>2. results' = [results EXCEPT ![s.name] = results[s.name]]
      BY <1>0, <3>1 DEF ResultsAreReports
    <3>3. results[s.name] \in Outcomes(program, s)
      BY <1>0, <1>3, <3>1 DEF ResultsAreReports, Reported
    <3>4. ResultsAreReports' /\ NothingIsLeftOut'
      BY <1>0, <1>3, <3>1, <3>2, <3>3, PassingOn
    <3> QED  BY <1>0, <3>1, <3>4, SameOutputs
  <2> QED  BY <1>3, <2>1, <2>2, <2>3, <2>4, <2>5, <2>6, <2>7, <2>8 DEF StageStep
<1>4. CASE FinishReport \/ Crash
  <2>1. UNCHANGED fixed_vars /\ disk' = disk /\ results' = results /\ phase' = "idle"
    BY <1>4 DEF FinishReport, Crash, disk_vars
  <2> QED  BY <1>0, <2>1, NothingGoesOn, SameOutputs
<1>5. ASSUME NEW x \in Sources[program], ReplaceSource(x)
      PROVE  OutputsAreReports' /\ ResultsAreReports' /\ NothingIsLeftOut'
  <2>1. /\ program' = program /\ disk' = disk /\ results' = results
        /\ phase = "idle" /\ phase' = "idle"
    BY <1>5 DEF ReplaceSource, disk_vars
  <2>2. Stages' = Stages /\ Names' = Names
    BY <2>1 DEF Stages, Names, StageSet
  <2>3. ASSUME NEW i \in DOMAIN Stages
        PROVE  Missing(i)' = Missing(i) /\ Reported(i)' = Reported(i)
    BY <2>1, <2>2 DEF Missing, Reported
  <2>4. OutputsAreReports'
    BY <1>0, <2>1, <2>2 DEF OutputsAreReports, Whole
  <2> QED  BY <1>0, <2>1, <2>2, <2>3, <2>4 DEF ResultsAreReports, NothingIsLeftOut
<1>6. ASSUME NEW s \in StageSet, RemoveOutputs(s)
      PROVE  OutputsAreReports' /\ ResultsAreReports' /\ NothingIsLeftOut'
  <2>1. /\ UNCHANGED fixed_vars /\ disk' = [disk EXCEPT ![s.out] = Absent]
        /\ results' = results /\ phase' = "idle"
    BY <1>6 DEF RemoveOutputs
  <2>2. PICK j \in DOMAIN Stages : s = Stages[j]
    BY DEF StageSet
  <2>3. OutputsAreReports'
    <3>1. ~Whole(Absent)
      BY DEF Whole
    <3> QED  BY <1>0, <2>1, <2>2, <3>1, OutputsStayReports
  <2> QED  BY <1>0, <2>1, <2>3, NothingGoesOn
<1> QED
  BY <1>1, <1>2, <1>3, <1>4, <1>5, <1>6 DEF Next

LEMMA SpecEvidence == Spec => [](IInv /\ EvidenceInv)
<1>1. IInv /\ EvidenceInv /\ [Next]_vars => (IInv /\ EvidenceInv)'
  BY NextIInv, EvidenceStep
<1> QED  BY <1>1, InitIInv, InitEvidence, PTL DEF Spec

-----------------------------------------------------------------------------
\* A decision is one-sided: two majorities of the same runs have a run in
\* common, and a pair of games that one side has won the other has not.

LEMMA ReportFacts ==
    ASSUME IInv, EvidenceInv, program \in Evidence
    PROVE  /\ Stages = PlanOf[program]
           /\ DOMAIN Stages = 1..Len(Stages) /\ Len(Stages) \in Nat \ {0}
           /\ DOMAIN results = Names
           /\ \A n \in Names : \E i \in DOMAIN Stages : Stages[i].name = n
           /\ \A i \in DOMAIN Stages : Stages[i].name \in Names
           /\ \A i \in DOMAIN Stages : Missing(i) \/ Reported(i)
           /\ \A i \in DOMAIN Stages :
                 Reported(i) => results[Stages[i].name] \in ReportsOf(program, Stages[i])
<1>1. program \in Programs
  BY DEF IInv, CampaignType
<1>2. Stages = PlanOf[program]
  BY <1>1, EvidenceAssumption DEF Stages
<1>3. DOMAIN Stages = 1..Len(Stages) /\ Len(Stages) \in Nat \ {0}
  BY <1>1, StageFacts
<1>4. DOMAIN results = Names
  BY DEF EvidenceInv, ResultsAreReports
<1>5. /\ \A n \in Names : \E i \in DOMAIN Stages : Stages[i].name = n
      /\ \A i \in DOMAIN Stages : Stages[i].name \in Names
  BY DEF Names, StageSet
<1>6. \A i \in DOMAIN Stages : Missing(i) \/ Reported(i)
  BY DEF EvidenceInv, ResultsAreReports
<1>7. ASSUME NEW i \in DOMAIN Stages, Reported(i)
      PROVE  results[Stages[i].name] \in ReportsOf(program, Stages[i])
  <2>1. Outcomes(program, Stages[i]) \subseteq ReportsOf(program, Stages[i])
    BY <1>1, <1>2, EvidenceAssumption
  <2> QED  BY <1>7, <2>1 DEF Reported
<1> QED  BY <1>2, <1>3, <1>4, <1>5, <1>6, <1>7

LEMMA DeltaFields ==
    ASSUME NEW r \in DeltaReports
    PROVE  /\ r.top1 \in Int /\ r.pairwise \in Int /\ r.regret \in Int /\ r.heldout \in BOOLEAN
           /\ IsKnown(r)
           /\ MirrorDeltas(r).pairwise = -r.pairwise
           /\ MirrorDeltas(r) \in DeltaReports
<1>1. /\ r.top1 \in Int /\ r.pairwise \in Int /\ r.regret \in Int /\ r.heldout \in BOOLEAN
      /\ r = [top1 |-> r.top1, pairwise |-> r.pairwise, regret |-> r.regret,
              heldout |-> r.heldout, all_same |-> r.all_same, compressed |-> r.compressed,
              arena |-> r.arena]
      /\ r.all_same \in BOOLEAN /\ r.compressed \in BOOLEAN /\ r.arena \in BOOLEAN \cup {None}
  BY DEF DeltaReports
<1>2. IsKnown(r)
  BY ConstantsAssumption DEF IsKnown
<1>3. MirrorDeltas(r) =
        [top1 |-> -r.top1, pairwise |-> -r.pairwise, regret |-> -r.regret,
         heldout |-> ~r.heldout, all_same |-> r.all_same, compressed |-> r.compressed,
         arena |-> IF r.arena = None THEN None ELSE ~r.arena]
  BY <1>1, <1>2 DEF MirrorDeltas
<1>4. (IF r.arena = None THEN None ELSE ~r.arena) \in BOOLEAN \cup {None}
  BY <1>1
<1> QED  BY <1>1, <1>2, <1>3, <1>4 DEF DeltaReports

LEMMA MatrixCardinality == \A S : CME!Cardinality(S) = Cardinality(S)
BY DEF Cardinality, CME!Cardinality
LEMMA GrowthCardinality == \A S : GCE!Cardinality(S) = Cardinality(S)
BY DEF Cardinality, GCE!Cardinality
LEMMA FixedTimeCardinality == \A S : FTE!Cardinality(S) = Cardinality(S)
BY DEF Cardinality, FTE!Cardinality

\* No two halves of the same runs say the contrary of each other.
LEMMA MajorityIsOneSided ==
    ASSUME NEW U, IsFiniteSet(U), NEW S \in SUBSET U, NEW T \in SUBSET U, S \cap T = {},
           2 * Cardinality(S) > Cardinality(U), 2 * Cardinality(T) > Cardinality(U)
    PROVE  FALSE
<1>1. /\ Cardinality(U) \in Nat /\ Cardinality(S) \in Nat /\ Cardinality(T) \in Nat
  BY FS_CardinalityType, FS_Subset
<1> QED  BY <1>1, FS_MajoritiesIntersect

\* The names of the stages of a program are finitely many.
LEMMA NamesAreFinite == ASSUME CampaignType PROVE IsFiniteSet(Names)
<1>1. DOMAIN Stages = 1..Len(Stages) /\ Len(Stages) \in Nat
  BY StageFacts DEF CampaignType
<1> DEFINE f == [i \in DOMAIN Stages |-> Stages[i].name]
<1>2. IsFiniteSet(DOMAIN Stages)
  BY <1>1, FS_Interval
<1>3. f \in Surjection(DOMAIN Stages, Names)
  BY DEF Surjection, Names, StageSet
<1> HIDE DEF f
<1> QED  BY <1>2, <1>3, FS_Surjection

LEMMA RobustHasMost ==
    ASSUME NEW found, CME!aggregate(found).decision = "robust"
    PROVE  2 * Cardinality({r \in CME!comparable_runs(found) : found[r].pairwise > 0})
             > Cardinality(CME!comparable_runs(found))
<1> DEFINE overall == CME!summarize_group(found, CME!comparable_runs(found))
           completed == overall.comparable_run_count
<1>1. CME!recommendation(overall) = "robust"
  BY DEF CME!aggregate
<1>2. 2 * overall.pairwise_positive_count > completed
  <2> HIDE DEF overall
  <2> QED  BY <1>1 DEF CME!recommendation
<1>3. /\ completed = Cardinality(CME!comparable_runs(found))
      /\ overall.pairwise_positive_count =
            Cardinality({r \in CME!comparable_runs(found) : found[r].pairwise > 0})
  BY MatrixCardinality DEF CME!summarize_group
<1> HIDE DEF overall
<1> QED  BY <1>2, <1>3

\* The summaries of a matrix with the two sides exchanged.
LEMMA MatrixIsOneSided ==
    ASSUME NEW found, IsFiniteSet(DOMAIN found),
           \A n \in DOMAIN found : found[n] \in {None, Failed} \cup DeltaReports,
           CME!aggregate(found).decision = "robust",
           CME!aggregate([n \in DOMAIN found |-> MirrorDeltas(found[n])]).decision = "robust"
    PROVE  FALSE
<1> DEFINE mirror == [n \in DOMAIN found |-> MirrorDeltas(found[n])]
           U == CME!comparable_runs(found)
           S == {r \in U : found[r].pairwise > 0}
           T == {r \in U : mirror[r].pairwise > 0}
<1>1. U = {n \in DOMAIN found : found[n] \in DeltaReports}
  BY ConstantsAssumption DEF CME!comparable_runs, CME!IsKnown
<1>2. CME!comparable_runs(mirror) = U
  <2>1. ASSUME NEW n \in DOMAIN found PROVE CME!IsKnown(mirror[n]) <=> CME!IsKnown(found[n])
    <3>1. CASE found[n] \in DeltaReports
      BY <3>1, DeltaFields DEF CME!IsKnown, IsKnown
    <3>2. CASE found[n] \in {None, Failed}
      BY <3>2 DEF MirrorDeltas, CME!IsKnown, IsKnown
    <3> QED  BY <3>1, <3>2
  <2> QED  BY <2>1 DEF CME!comparable_runs
<1>3. \A r \in U : mirror[r].pairwise = -found[r].pairwise /\ found[r].pairwise \in Int
  BY <1>1, DeltaFields
<1>4. S \cap T = {}
  BY <1>3
<1>5. IsFiniteSet(U)
  <2>1. U \subseteq DOMAIN found
    BY <1>1
  <2> HIDE DEF U
  <2> QED  BY <2>1, FS_Subset
<1>6. 2 * Cardinality(S) > Cardinality(U)
  BY RobustHasMost
<1>7. 2 * Cardinality(T) > Cardinality(U)
  <2>1. CME!aggregate(mirror).decision = "robust"
    OBVIOUS
  <2> HIDE DEF mirror, U
  <2> QED  BY <1>2, <2>1, RobustHasMost
<1>8. S \in SUBSET U /\ T \in SUBSET U
  OBVIOUS
<1> HIDE DEF S, T, U
<1> QED  BY <1>4, <1>5, <1>6, <1>7, <1>8, MajorityIsOneSided

LEMMA PromotedGrowthHasMost ==
    ASSUME NEW found, GCE!report(found).decision = "promote_to_larger_local_validation"
    PROVE  2 * Cardinality({r \in GCE!completed_comparable_runs(found["matrix"]) :
                               found["matrix"][r].pairwise > 0})
             > Cardinality(GCE!completed_comparable_runs(found["matrix"]))
<1> DEFINE matrix == found["matrix"]
           decision == GCE!summarize_decision_leverage(matrix)
           arena == GCE!summarize_arena_validation(found)
           completed == GCE!completed_comparable_runs(matrix)
<1>1. GCE!promotion_decision(decision, arena) = "promote_to_larger_local_validation"
  BY DEF GCE!report
<1>2. decision.gate_passed
  <2> HIDE DEF decision, arena
  <2> QED  BY <1>1 DEF GCE!promotion_decision
<1>3. 2 * GCE!Cardinality({r \in completed : matrix[r].pairwise > 0}) > GCE!Cardinality(completed)
  <2> DEFINE counts ==
          {GCE!Cardinality({r \in completed : matrix[r].top1 > 0}),
           GCE!Cardinality({r \in completed : matrix[r].pairwise > 0}),
           GCE!Cardinality({r \in completed : matrix[r].regret < 0}),
           GCE!Cardinality({r \in completed : matrix[r].heldout})}
  <2>1. decision.gate_passed =
          /\ GCE!Cardinality(completed) > 0
          /\ \A c \in counts : 2 * c > GCE!Cardinality(completed)
    BY DEF GCE!summarize_decision_leverage
  <2> HIDE DEF matrix, completed, decision
  <2> QED  BY <1>2, <2>1
<1> QED  BY <1>3, GrowthCardinality

LEMMA RunsAreListed ==
    /\ runs = [i \in 1..Len(runs) |-> runs[i]]
    /\ DOMAIN runs = 1..Len(runs) /\ Len(runs) \in Nat
<1>1. runs \in Seq([id : STRING, root : Nat, seed : Nat])
  BY ConstantsAssumption
<1> QED  BY <1>1

LEMMA GrowthStartsWithMatrix == GCE!main[1] = GCE!run_or_reuse_matrix
<1> DEFINE Any == {GCE!arena_command(k, q, a) :
                      k \in {"same_artifact_sanity", "exact_root_v2_vs_v1",
                             "move_teacher_v2_vs_v1", "move_teacher_v2_vs_exact_root_v2",
                             "candidate_baseline_swap_sanity"},
                      q \in GCE!Runs \cup {GCE!baselines},
                      a \in SUBSET {"matrix", "baseline_v1", "baseline_root_label"}}
<1>1. runs = [i \in 1..Len(runs) |-> runs[i]] /\ DOMAIN runs = 1..Len(runs) /\ Len(runs) \in Nat
  BY RunsAreListed
<1>2. /\ GCE!PerRun("same_artifact_sanity", {"matrix"}) \in Seq(Any)
      /\ GCE!PerRun("move_teacher_v2_vs_v1", {"matrix", "baseline_v1"}) \in Seq(Any)
      /\ GCE!PerRun("move_teacher_v2_vs_exact_root_v2", {"matrix", "baseline_root_label"})
            \in Seq(Any)
      /\ GCE!PerRun("candidate_baseline_swap_sanity", {"matrix", "baseline_v1"}) \in Seq(Any)
  <2>1. ASSUME NEW k \in {"same_artifact_sanity", "move_teacher_v2_vs_v1",
                          "move_teacher_v2_vs_exact_root_v2", "candidate_baseline_swap_sanity"},
               NEW a \in SUBSET {"matrix", "baseline_v1", "baseline_root_label"}
        PROVE  GCE!PerRun(k, a) \in Seq(Any)
    <3>1. \A i \in 1..Len(runs) : GCE!arena_command(k, runs[i], a) \in Any
      BY <1>1 DEF GCE!Runs
    <3>2. GCE!PerRun(k, a) = [i \in 1..Len(runs) |-> GCE!arena_command(k, runs[i], a)]
      BY <1>1 DEF GCE!PerRun
    <3> HIDE DEF Any
    <3> QED  BY <1>1, <3>1, <3>2
  <2> HIDE DEF Any
  <2> QED  BY <2>1
<1>3. <<GCE!arena_command("exact_root_v2_vs_v1", GCE!baselines,
                          {"baseline_root_label", "baseline_v1"})>> \in Seq(Any)
  OBVIOUS
<1> HIDE DEF Any
<1>4. GCE!run_arena_matrix \in Seq(Any)
  BY <1>2, <1>3 DEF GCE!run_arena_matrix
<1>5. GCE!main = <<GCE!run_or_reuse_matrix>> \o GCE!run_arena_matrix
  BY DEF GCE!main
<1>6. GCE!run_arena_matrix \in Seq(Any \cup {GCE!run_or_reuse_matrix})
  BY <1>4
<1> QED  BY <1>5, <1>6

LEMMA GrowthIsOneSided ==
    ASSUME NEW found, "matrix" \in DOMAIN found,
           found["matrix"] \in {None, Failed} \cup [GCE!Runs -> DeltaReports \cup {Failed}],
           GCE!report(found).decision = "promote_to_larger_local_validation",
           GCE!report(MirrorGrowth(found)).decision = "promote_to_larger_local_validation"
    PROVE  FALSE
<1> DEFINE mirror == MirrorGrowth(found)["matrix"]
           matrix == found["matrix"]
           U == GCE!completed_comparable_runs(matrix)
           S == {r \in U : matrix[r].pairwise > 0}
           T == {r \in U : mirror[r].pairwise > 0}
<1>1. CASE ~IsKnown(matrix)
  <2>1. U = {}
    BY <1>1 DEF GCE!completed_comparable_runs, GCE!IsKnown, IsKnown
  <2>2. S = {}
    BY <2>1
  <2>3. 2 * Cardinality({}) > Cardinality({})
    <3> HIDE DEF S, U
    <3>1. 2 * Cardinality(S) > Cardinality(U)
      BY PromotedGrowthHasMost DEF S, U
    <3> QED  BY <2>1, <2>2, <3>1
  <2> QED  BY <2>3, FS_EmptySet
<1>2. CASE IsKnown(matrix)
  <2>1. /\ mirror = [r \in DOMAIN matrix |-> MirrorDeltas(matrix[r])]
        /\ DOMAIN matrix = GCE!Runs
        /\ \A r \in GCE!Runs : matrix[r] \in DeltaReports \cup {Failed}
    BY <1>2 DEF MirrorGrowth, IsKnown
  <2>2. U = {r \in GCE!Runs : matrix[r] \in DeltaReports}
    BY <1>2, <2>1, ConstantsAssumption DEF GCE!completed_comparable_runs, GCE!IsKnown, IsKnown
  <2>3. \A r \in U : mirror[r].pairwise = -matrix[r].pairwise /\ matrix[r].pairwise \in Int
    BY <2>1, <2>2, DeltaFields
  <2>4. S \cap T = {}
    BY <2>3
  <2>5. IsFiniteSet(U)
    <3>1. IsFiniteSet(DOMAIN runs)
      <4>1. DOMAIN runs = 1..Len(runs) /\ 1 \in Int /\ Len(runs) \in Int
        BY RunsAreListed
      <4> QED  BY <4>1, FS_Interval
    <3>2. runs \in Surjection(DOMAIN runs, GCE!Runs)
      BY RunsAreListed DEF Surjection, GCE!Runs
    <3>3. IsFiniteSet(GCE!Runs) /\ U \subseteq GCE!Runs
      BY <2>2, <3>1, <3>2, FS_Surjection
    <3> HIDE DEF U
    <3> QED  BY <3>3, FS_Subset
  <2>6. 2 * Cardinality(S) > Cardinality(U)
    BY PromotedGrowthHasMost
  <2>7. {r \in GCE!completed_comparable_runs(mirror) : mirror[r].pairwise > 0} \subseteq T
        /\ GCE!completed_comparable_runs(mirror) \in {U, {}}
    <3>1. \A r \in GCE!Runs : mirror[r] # Failed <=> matrix[r] # Failed
      <4>1. ASSUME NEW r \in GCE!Runs PROVE mirror[r] # Failed <=> matrix[r] # Failed
        <5>1. CASE matrix[r] \in DeltaReports
          BY <2>1, <5>1, DeltaFields, ConstantsAssumption
        <5>2. CASE matrix[r] = Failed
          BY <2>1, <5>2 DEF MirrorDeltas, IsKnown
        <5> QED  BY <2>1, <5>1, <5>2
      <4> QED  BY <4>1
    <3>2. DOMAIN mirror = GCE!Runs
      BY <2>1
    <3>3. U = {r \in GCE!Runs : matrix[r] # Failed}
      BY <1>2, <2>1 DEF GCE!completed_comparable_runs, GCE!IsKnown, IsKnown
    <3> HIDE DEF U, mirror, matrix
    <3> QED  BY <3>1, <3>2, <3>3 DEF GCE!completed_comparable_runs
  <2>8. 2 * Cardinality({r \in GCE!completed_comparable_runs(mirror) : mirror[r].pairwise > 0})
          > Cardinality(GCE!completed_comparable_runs(mirror))
    BY PromotedGrowthHasMost
  <2>9. GCE!completed_comparable_runs(mirror) = U
    <3>1. CASE GCE!completed_comparable_runs(mirror) = {}
      <4> HIDE DEF mirror
      <4>1. {r \in GCE!completed_comparable_runs(mirror) : mirror[r].pairwise > 0} = {}
        BY <3>1
      <4> QED  BY <2>8, <3>1, <4>1, FS_EmptySet
    <3> QED  BY <2>7, <3>1
  <2>10. 2 * Cardinality(T) > Cardinality(U)
    BY <2>8, <2>9
  <2>11. S \in SUBSET U /\ T \in SUBSET U
    OBVIOUS
  <2> HIDE DEF S, T, U
  <2> QED  BY <2>4, <2>5, <2>6, <2>10, <2>11, MajorityIsOneSided
<1> QED  BY <1>1, <1>2

\* All that the checks ask for, one of the 500 ms runs that decide has.
LEMMA HoldingChecksHaveWins ==
    ASSUME NEW found, PCE!run(found).decision = "all_checks_hold"
    PROVE  LET primary == {m \in DOMAIN found : m[2] \in PCE!multi_off /\ m[1] \in {"500ms"}}
           IN  /\ primary # {}
               /\ \A n \in primary : PCE!stage_summary(found[n], n[2]).score_rate > 50
<1> DEFINE checks == PCE!automatic_checks(found)
           primary == PCE!summaries(found, PCE!multi_off, {"500ms"})
<1>1. /\ checks.primary_500ms_direction_consistent
          = PCE!AllOf(primary, LAMBDA s : s.score_rate > 50)
      /\ "primary_500ms_direction_consistent" \in DOMAIN checks
  BY DEF PCE!automatic_checks
<1>2. \A c \in DOMAIN checks : checks[c]
  BY DEF PCE!run
<1>3. PCE!AllOf(primary, LAMBDA s : s.score_rate > 50)
  <2> HIDE DEF checks, primary
  <2> QED  BY <1>1, <1>2
<1>4. DOMAIN primary # {} /\ \A n \in DOMAIN primary : primary[n].score_rate > 50
  BY <1>3 DEF PCE!AllOf
<1> QED  BY <1>4 DEF PCE!summaries

LEMMA ProbcutIsOneSided ==
    ASSUME NEW found, \A n \in DOMAIN found : found[n] \in ProbcutReports,
           PCE!run(found).decision = "all_checks_hold",
           PCE!run(MirrorProbcut(found)).decision = "all_checks_hold"
    PROVE  FALSE
<1> DEFINE mirror == MirrorProbcut(found)
           primary == {m \in DOMAIN found : m[2] \in PCE!multi_off /\ m[1] \in {"500ms"}}
<1>1. primary # {} /\ \A n \in primary : PCE!stage_summary(found[n], n[2]).score_rate > 50
  BY HoldingChecksHaveWins
<1>2. DOMAIN mirror = DOMAIN found
  BY DEF MirrorProbcut
<1>3. \A n \in primary : PCE!stage_summary(mirror[n], n[2]).score_rate > 50
  <2>1. PCE!run(mirror).decision = "all_checks_hold"
    OBVIOUS
  <2> HIDE DEF mirror
  <2> QED  BY <1>2, <2>1, HoldingChecksHaveWins
<1>4. PICK n \in primary : TRUE
  BY <1>1
<1>5. /\ found[n].point \in Int
      /\ mirror[n].point = 100 - found[n].point
  BY DEF ProbcutReports, MirrorProbcut
<1>6. \A r, c : PCE!stage_summary(r, c).score_rate
                   = IF c \in PCE!reversed THEN 100 - r.point ELSE r.point
  BY DEF PCE!stage_summary
<1> HIDE DEF mirror
<1> QED  BY <1>1, <1>3, <1>5, <1>6

-----------------------------------------------------------------------------
\* Fixed time: one stage per opening set, time limit and variant.
LEMMA PlaceInBlocks ==
    ASSUME NEW b \in Nat \ {0}, NEW q \in 0..1, NEW r \in 0..(b - 1),
           NEW x, x = IF q = 0 THEN r ELSE b + r
    PROVE  x \in Nat /\ x \div b = q /\ x % b = r
<1>1. CASE q = 0
  BY <1>1
<1>2. CASE q = 1
  BY <1>2
<1> QED  BY <1>1, <1>2

LEMMA FixedTimeStages ==
    ASSUME NEW k \in 1..2, NEW t \in DOMAIN time_limits_ms, NEW v \in 1..4
    PROVE  \E i \in DOMAIN FTE!main :
              FTE!main[i] = FTE!stage_of(FTE!opening_sets[k], time_limits_ms[t], FTE!Variants[v])
<1> DEFINE T == Len(time_limits_ms)
           r == (t - 1) * 4 + (v - 1)
           i == (IF k = 1 THEN r ELSE T * 4 + r) + 1
<1>1. T \in Nat \ {0} /\ t \in 1..T /\ Len(FTE!Variants) = 4 /\ Len(FTE!opening_sets) = 2
  BY ConstantsAssumption DEF FTE!Variants, FTE!opening_sets
<1>2. DOMAIN FTE!main = 1..(2 * T * 4)
  BY <1>1 DEF FTE!main
<1> HIDE DEF T
<1>3. r \in 0..(T * 4 - 1) /\ T * 4 \in Nat \ {0}
  BY <1>1
<1>4. i \in 1..(2 * T * 4) /\ i - 1 = IF k - 1 = 0 THEN r ELSE T * 4 + r
  BY <1>1
<1>5. ((i - 1) \div (T * 4)) + 1 = k
  <2> DEFINE b == T * 4
             x == i - 1
             q == k - 1
  <2>1. b \in Nat \ {0} /\ q \in 0..1 /\ r \in 0..(b - 1) /\ x = IF q = 0 THEN r ELSE b + r
    BY <1>3, <1>4
  <2>2. x \div b = q
    <3> HIDE DEF b, x, q, r, i
    <3> QED  BY <2>1, PlaceInBlocks
  <2> HIDE DEF i
  <2> QED  BY <2>2
<1>6. (i - 1) \div 4 = (IF k - 1 = 0 THEN t - 1 ELSE T + (t - 1)) /\ (i - 1) % 4 = v - 1
  <2>1. CASE k = 1
    <3>1. i - 1 = 4 * (t - 1) + (v - 1) /\ t - 1 \in Nat
      BY <1>1, <2>1
    <3> HIDE DEF i, r
    <3> QED  BY <2>1, <3>1
  <2>2. CASE k = 2
    <3>1. i - 1 = 4 * (T + (t - 1)) + (v - 1) /\ T + (t - 1) \in Nat
      BY <1>1, <2>2
    <3> HIDE DEF i, r
    <3> QED  BY <2>2, <3>1
  <2> QED  BY <2>1, <2>2
<1>7. ((i - 1) \div 4) % T = t - 1
  <2> DEFINE x == (i - 1) \div 4
             q == k - 1
             s == t - 1
  <2>1. q \in 0..1 /\ s \in 0..(T - 1) /\ x = IF q = 0 THEN s ELSE T + s
    <3> HIDE DEF i, r
    <3> QED  BY <1>1, <1>6
  <2>2. x % T = s
    <3>1. T \in Nat \ {0}
      BY <1>1
    <3> HIDE DEF x, q, s, i, r
    <3>2. CASE q = 0
      BY <2>1, <3>1, <3>2
    <3>3. CASE q = 1
      BY <2>1, <3>1, <3>3
    <3> QED  BY <2>1, <3>2, <3>3
  <2> QED  BY <2>2
<1>8. FTE!main[i] = FTE!stage_of(FTE!opening_sets[k], time_limits_ms[t], FTE!Variants[v])
  <2> HIDE DEF i, r
  <2>1. FTE!main[i] = FTE!stage_of(FTE!opening_sets[((i - 1) \div (T * 4)) + 1],
                     time_limits_ms[(((i - 1) \div 4) % T) + 1],
                     FTE!Variants[((i - 1) % 4) + 1])
    BY <1>1, <1>2, <1>4 DEF FTE!main, T
  <2>2. t \in Nat /\ v \in Nat /\ (t - 1) + 1 = t /\ (v - 1) + 1 = v
    BY <1>1
  <2> QED  BY <1>5, <1>6, <1>7, <2>1, <2>2
<1> QED  BY <1>2, <1>4, <1>8

\* Of finitely many numbers one is the greatest.
LEMMA LeastNumber ==
    ASSUME NEW T \in SUBSET Nat, T # {}
    PROVE  \E x \in T : \A y \in T : x <= y
<1> DEFINE R == OpToRel(<, Nat)
<1>1. IsWellFoundedOn(R, Nat)
  BY NatLessThanWellFounded
<1>2. PICK x \in T : \A y \in T : ~ (<<y, x>> \in R)
  <2> HIDE DEF R
  <2> QED  BY <1>1, WFMin
<1>3. ASSUME NEW y \in T PROVE ~ (y < x)
  <2>1. y \in Nat /\ x \in Nat /\ (y < x => <<y, x>> \in R)
    BY DEF OpToRel
  <2> HIDE DEF R
  <2> QED  BY <1>2, <2>1, Zenon
<1> QED  BY <1>3

LEMMA GreatestNumber ==
    ASSUME NEW S \in SUBSET Nat, IsFiniteSet(S), S # {}
    PROVE  \E m \in S : \A x \in S : m >= x
<1> DEFINE above(m) == {x \in S : x > m}
           sizes == {Cardinality(above(m)) : m \in S}
<1>1. \A m \in S : IsFiniteSet(above(m)) /\ Cardinality(above(m)) \in Nat
  <2> TAKE m \in S
  <2>1. above(m) \subseteq S
    OBVIOUS
  <2> HIDE DEF above
  <2> QED  BY <2>1, FS_Subset, FS_CardinalityType
<1>2. PICK k \in sizes : \A j \in sizes : k <= j
  <2>1. sizes \in SUBSET Nat /\ sizes # {}
    <3> HIDE DEF above
    <3> QED  BY <1>1
  <2> HIDE DEF sizes
  <2> QED  BY <2>1, LeastNumber
<1>3. PICK m \in S : k = Cardinality(above(m))
  <2> HIDE DEF above
  <2> QED  OBVIOUS
<1>4. ASSUME NEW x \in S, x > m PROVE FALSE
  <2>1. above(x) \subseteq above(m) /\ x \in above(m) /\ x \notin above(x)
    <3>1. x \in Nat /\ m \in Nat /\ \A y \in S : y \in Nat
      OBVIOUS
    <3>2. \A y \in S : y > x => y > m
      BY <1>4, <3>1
    <3>3. ~(x > x)
      BY <3>1
    <3> QED  BY <1>4, <3>2, <3>3
  <2>2. above(x) \subseteq above(m) \ {x}
    BY <2>1
  <2>3. /\ IsFiniteSet(above(m)) /\ Cardinality(above(m)) \in Nat
        /\ IsFiniteSet(above(m) \ {x})
        /\ Cardinality(above(m) \ {x}) = Cardinality(above(m)) - 1
    <3>1. IsFiniteSet(above(m)) /\ Cardinality(above(m)) \in Nat
      BY <1>1
    <3> HIDE DEF above
    <3> QED  BY <2>1, <3>1, FS_RemoveElement
  <2>4. Cardinality(above(x)) <= Cardinality(above(m)) - 1 /\ Cardinality(above(x)) \in Nat
    <3>1. Cardinality(above(x)) \in Nat
      BY <1>1
    <3> HIDE DEF above
    <3> QED  BY <2>2, <2>3, <3>1, FS_Subset
  <2>5. k <= Cardinality(above(x))
    <3> HIDE DEF above
    <3> QED  BY <1>2
  <2> HIDE DEF above
  <2> QED  BY <1>3, <2>3, <2>4, <2>5
<1> QED  BY <1>4

TimeLimits == {time_limits_ms[i] : i \in DOMAIN time_limits_ms}

LEMMA TimeLimitsAreFinite ==
    TimeLimits \in SUBSET Nat /\ TimeLimits # {} /\ IsFiniteSet(TimeLimits)
<1>1. /\ time_limits_ms \in Seq(Nat) /\ Len(time_limits_ms) \in Nat \ {0}
      /\ DOMAIN time_limits_ms = 1..Len(time_limits_ms)
  BY ConstantsAssumption
<1>2. TimeLimits \in SUBSET Nat /\ TimeLimits # {}
  BY <1>1 DEF TimeLimits
<1>3. IsFiniteSet(TimeLimits)
  <2>1. IsFiniteSet(DOMAIN time_limits_ms)
    BY <1>1, FS_Interval
  <2>2. time_limits_ms \in Surjection(DOMAIN time_limits_ms, TimeLimits)
    BY <1>1 DEF Surjection, TimeLimits
  <2> QED  BY <2>1, <2>2, FS_Surjection
<1> QED  BY <1>2, <1>3

LEMMA LongestTimeIsOne == FTE!Max(TimeLimits) \in TimeLimits
<1>1. \E m \in TimeLimits : \A x \in TimeLimits : m >= x
  BY TimeLimitsAreFinite, GreatestNumber
<1> QED  BY <1>1 DEF FTE!Max

\* In a cell that is passed the candidate is ahead in every pair of games.
LEMMA PassedCellsAreWon ==
    ASSUME NEW forward \in FixedTimeReports, NEW reverse \in FixedTimeReports,
           FTE!promotion_passed(FTE!promotion_cell_assessment(forward, reverse))
    PROVE  forward.scores[1] > reverse.scores[1]
<1> DEFINE obs == FTE!argument_order_observations(forward, reverse)
           S == {obs[o] : o \in DOMAIN obs}
<1>1. forward.scores \in [1..2 -> 0..4] /\ reverse.scores \in [1..2 -> 0..4]
  BY DEF FixedTimeReports
<1>2. obs = [o \in 1..2 |-> forward.scores[o] + (4 - reverse.scores[o])]
  BY <1>1 DEF FTE!argument_order_observations, FTE!opening_pair_score_map
<1>3. FTE!Min(S) > 4
  <2>1. FTE!bootstrap_interval(obs).lower > 4
    BY DEF FTE!promotion_passed, FTE!promotion_cell_assessment
  <2> QED  BY <2>1 DEF FTE!bootstrap_interval
<1>4. S = {obs[1], obs[2]} /\ obs[1] \in Int /\ obs[2] \in Int
  BY <1>1, <1>2
<1>5. FTE!Min(S) <= obs[1]
  <2> HIDE DEF S, obs
  <2>1. \E x \in S : \A y \in S : x =< y
    BY <1>4
  <2>2. \A y \in S : FTE!Min(S) =< y
    BY <2>1 DEF FTE!Min
  <2> QED  BY <1>4, <2>2
<1>6. FTE!Min(S) \in Int
  <2> HIDE DEF S, obs
  <2>1. \E x \in S : \A y \in S : x =< y
    BY <1>4
  <2>2. FTE!Min(S) \in S
    BY <2>1 DEF FTE!Min
  <2> QED  BY <1>4, <2>2
<1>7. obs[1] > 4
  <2> HIDE DEF S, obs
  <2> QED  BY <1>3, <1>4, <1>5, <1>6
<1> QED  BY <1>1, <1>2, <1>7

VariantSet == {FTE!Variants[i] : i \in 1..4}
AskedSets(line) == IF line.holdout THEN {"primary", "holdout"} ELSE {"primary"}
DecisionSet(line) == IF line.holdout THEN "holdout" ELSE "primary"

\* What decides are two stages: the longest time limit of the set that decides.
LEMMA PromotedCellIsPassed ==
    ASSUME NEW line, line.holdout \in BOOLEAN, NEW found,
           FTE!build_decision(line, found).decision = "promote"
    PROVE  FTE!promotion_passed(FTE!promotion_cell_assessment(
               found[<<DecisionSet(line), FTE!Max(TimeLimits), "candidate_vs_baseline">>],
               found[<<DecisionSet(line), FTE!Max(TimeLimits), "baseline_vs_candidate">>]))
<1> DEFINE times == {time_limits_ms[i] : i \in DOMAIN time_limits_ms}
           cell(t) == FTE!promotion_cell_assessment(
                          found[<<DecisionSet(line), t, "candidate_vs_baseline">>],
                          found[<<DecisionSet(line), t, "baseline_vs_candidate">>])
<1>1. \E failed, passed :
          FTE!suggest_decision(failed, cell(FTE!Max(times)), passed) = "promote"
  <2> DEFINE sets == IF line.holdout THEN {"primary", "holdout"} ELSE {"primary"}
             broken == {n \in sets \X times \X {FTE!Variants[i] : i \in 1..4} :
                            found[n].bad > 0}
             passes == {t \in times : FTE!promotion_passed(cell(t))}
  <2>1. FTE!build_decision(line, found).decision
          = FTE!suggest_decision(FTE!Cardinality(broken), cell(FTE!Max(times)),
                                 FTE!Cardinality(passes))
    BY SMTT(60) DEF FTE!build_decision, DecisionSet
  <2> HIDE DEF broken, cell, passes, times
  <2> QED  BY <2>1
<1>2. FTE!promotion_passed(cell(FTE!Max(times)))
  <2> DEFINE c == cell(FTE!Max(times))
  <2>1. PICK failed, passed : FTE!suggest_decision(failed, c, passed) = "promote"
    BY <1>1
  <2> HIDE DEF c
  <2>2. FTE!promotion_passed(c)
    BY <2>1 DEF FTE!suggest_decision
  <2> QED  BY <2>2 DEF c
<1> QED  BY <1>2 DEF TimeLimits

\* The stages of a fixed-time campaign that has come to its report.
LEMMA FixedTimeIsReported ==
    ASSUME IInv, EvidenceInv, settings \in CommandLines[program],
           phase = "report", program = "fixed_time_evidence",
           NEW set \in AskedSets(settings), NEW t \in TimeLimits, NEW v \in VariantSet
    PROVE  /\ settings.holdout \in BOOLEAN
           /\ <<set, t, v>> \in Names
           /\ results[<<set, t, v>>] \in FixedTimeReports
<1> DEFINE name == <<set, t, v>>
<1>1. program \in Evidence /\ program \in Programs
  BY DEF Evidence, IInv, CampaignType
<1>2. Stages = FTE!main
  BY <1>1, ReportFacts DEF PlanOf
<1>3. settings.holdout \in BOOLEAN
  <2>1. settings \in FTE!parse_args
    BY <1>1, EvidenceAssumption
  <2> QED  BY <2>1 DEF FTE!parse_args
<1>4. \E k \in 1..2 : FTE!opening_sets[k] = set
  <2>1. FTE!opening_sets[1] = "primary" /\ FTE!opening_sets[2] = "holdout"
    BY DEF FTE!opening_sets
  <2> QED  BY <2>1 DEF AskedSets
<1>5. \E w \in 1..4 : FTE!Variants[w] = v
  BY DEF VariantSet
<1>6. PICK i \in DOMAIN Stages : Stages[i] = FTE!stage_of(set, t, v)
  <2>1. PICK k \in 1..2 : FTE!opening_sets[k] = set
    BY <1>4
  <2>2. PICK w \in 1..4 : FTE!Variants[w] = v
    BY <1>5
  <2>3. PICK j \in DOMAIN time_limits_ms : time_limits_ms[j] = t
    BY DEF TimeLimits
  <2> QED  BY <1>2, <2>1, <2>2, <2>3, FixedTimeStages
<1>7. /\ Stages[i].name = name
      /\ Stages[i].when = IF set = "holdout" THEN <<"holdout", TRUE>> ELSE <<>>
  BY <1>6 DEF FTE!stage_of, FTE!Fingerprinted, FTE!Stage
<1>8. Strict
  <2>1. ASSUME NEW j \in DOMAIN Stages PROVE ~Stages[j].tolerant /\ ~Stages[j].planned
    <3>1. \E a, b, c : Stages[j] = FTE!stage_of(a, b, c)
      BY <1>2 DEF FTE!main
    <3>2. \A a, b, c : ~FTE!stage_of(a, b, c).tolerant /\ ~FTE!stage_of(a, b, c).planned
      BY DEF FTE!stage_of, FTE!Fingerprinted, FTE!Stage
    <3> QED  BY <3>1, <3>2
  <2> QED  BY <2>1 DEF Strict
<1>9. Asked(Stages[i])
  <2>1. CASE set = "holdout"
    <3>1. settings["holdout"] = TRUE
      BY <1>3, <2>1 DEF AskedSets
    <3>2. Stages[i].when[1] = "holdout" /\ Stages[i].when[2] = TRUE
      BY <1>7, <2>1
    <3> QED  BY <3>1, <3>2 DEF Asked
  <2>2. CASE set # "holdout"
    BY <1>7, <2>2 DEF Asked
  <2> QED  BY <2>1, <2>2
<1>10. Taken(i)
  <2>1. at > Len(Stages) /\ \A j \in DOMAIN Stages : j < at => Taken(j) \/ ~Asked(Stages[j])
    BY <1>8 DEF EvidenceInv, NothingIsLeftOut
  <2>2. i < at
    <3>1. i \in 1..Len(Stages) /\ Len(Stages) \in Nat
      BY <1>1, ReportFacts
    <3>2. at \in Nat
      BY DEF IInv, CampaignType
    <3> QED  BY <2>1, <3>1, <3>2
  <2> QED  BY <1>9, <2>1, <2>2
<1>11. Reported(i)
  BY <1>10 DEF EvidenceInv, ResultsAreReports
<1>12. results[Stages[i].name] \in ReportsOf(program, Stages[i])
  BY <1>1, <1>11, ReportFacts
<1>13. ReportsOf(program, Stages[i]) = FixedTimeReports
  BY DEF ReportsOf
<1> QED  BY <1>1, <1>3, <1>7, <1>12, <1>13, ReportFacts

LEMMA FixedTimeIsOneSided ==
    ASSUME IInv, EvidenceInv, settings \in CommandLines[program],
           phase = "report", program = "fixed_time_evidence",
           FTE!build_decision(settings, results).decision = "promote",
           FTE!build_decision(settings, MirrorFixedTime(results)).decision = "promote"
    PROVE  FALSE
<1> DEFINE t == FTE!Max(TimeLimits)
           set == DecisionSet(settings)
           forward == <<set, t, "candidate_vs_baseline">>
           reverse == <<set, t, "baseline_vs_candidate">>
           mirror == MirrorFixedTime(results)
<1>1. t \in TimeLimits
  BY LongestTimeIsOne
<1>2. /\ "candidate_vs_baseline" \in VariantSet /\ "baseline_vs_candidate" \in VariantSet
      /\ set \in AskedSets(settings)
  <2>1. FTE!Variants[1] = "candidate_vs_baseline" /\ FTE!Variants[2] = "baseline_vs_candidate"
    BY DEF FTE!Variants
  <2> QED  BY <2>1 DEF VariantSet, DecisionSet, AskedSets
<1> HIDE DEF t
<1>3. /\ settings.holdout \in BOOLEAN
      /\ forward \in Names /\ results[forward] \in FixedTimeReports
      /\ reverse \in Names /\ results[reverse] \in FixedTimeReports
  BY <1>1, <1>2, FixedTimeIsReported
<1>4. mirror[forward] = results[reverse] /\ mirror[reverse] = results[forward]
  <2>1. DOMAIN results = Names
    BY DEF EvidenceInv, ResultsAreReports
  <2> HIDE DEF set
  <2> QED  BY <1>3, <2>1 DEF MirrorFixedTime
<1>5. FTE!promotion_passed(FTE!promotion_cell_assessment(results[forward], results[reverse]))
  BY <1>3, PromotedCellIsPassed DEF t
<1>6. FTE!promotion_passed(FTE!promotion_cell_assessment(mirror[forward], mirror[reverse]))
  <2>1. FTE!build_decision(settings, mirror).decision = "promote"
    OBVIOUS
  <2> HIDE DEF mirror
  <2> QED  BY <1>3, <2>1, PromotedCellIsPassed DEF t
<1>7. results[forward].scores[1] > results[reverse].scores[1]
  <2> HIDE DEF forward, reverse
  <2> QED  BY <1>3, <1>5, PassedCellsAreWon
<1>8. results[reverse].scores[1] > results[forward].scores[1]
  <2> HIDE DEF forward, reverse, mirror
  <2> QED  BY <1>3, <1>4, <1>6, PassedCellsAreWon
<1>9. results[forward].scores[1] \in Int /\ results[reverse].scores[1] \in Int
  <2> HIDE DEF forward, reverse
  <2> QED  BY <1>3 DEF FixedTimeReports
<1> QED  BY <1>7, <1>8, <1>9

LEMMA ProbcutIsReported ==
    ASSUME IInv, EvidenceInv, phase = "report", program = "probcut_evidence"
    PROVE  \A n \in DOMAIN results : results[n] \in ProbcutReports
<1>1. program \in Evidence
  BY DEF Evidence
<1>2. Stages = PCE!stage_limits
  BY <1>1, ReportFacts DEF PlanOf
<1>3. ASSUME NEW j \in DOMAIN Stages
      PROVE  ~Stages[j].tolerant /\ ~Stages[j].planned /\ Asked(Stages[j])
  <2>1. \E a, b : Stages[j] = PCE!command_for(a, b)
    BY <1>2 DEF PCE!stage_limits
  <2>2. \A a, b : /\ ~PCE!command_for(a, b).tolerant /\ ~PCE!command_for(a, b).planned
                  /\ PCE!command_for(a, b).when = <<>>
    BY DEF PCE!command_for, PCE!Fingerprinted, PCE!Stage
  <2> QED  BY <2>1, <2>2 DEF Asked
<1>4. Strict
  BY <1>3 DEF Strict
<1>5. ASSUME NEW i \in DOMAIN Stages PROVE results[Stages[i].name] \in ProbcutReports
  <2>1. at > Len(Stages) /\ \A j \in DOMAIN Stages : j < at => Taken(j) \/ ~Asked(Stages[j])
    BY <1>4 DEF EvidenceInv, NothingIsLeftOut
  <2>2. i < at
    <3>1. i \in 1..Len(Stages) /\ Len(Stages) \in Nat
      BY <1>1, ReportFacts
    <3>2. at \in Nat
      BY DEF IInv, CampaignType
    <3> QED  BY <2>1, <3>1, <3>2
  <2>3. Reported(i)
    BY <1>3, <2>1, <2>2 DEF EvidenceInv, ResultsAreReports
  <2>4. ReportsOf(program, Stages[i]) = ProbcutReports
    BY DEF ReportsOf
  <2> QED  BY <1>1, <2>3, <2>4, ReportFacts
<1> QED  BY <1>1, <1>5, ReportFacts

\* What each program's promotion is.
LEMMA PromotesMeans ==
    ASSUME NEW line, NEW found
    PROVE  /\ Promotes("fixed_time_evidence", line, found) <=>
                  FTE!build_decision(line, found).decision = "promote"
           /\ Promotes("arena_matrix_evidence", line, found) <=>
                  AME!build_report(found).decision = "local_harness_passed"
           /\ Promotes("probcut_evidence", line, found) <=>
                  PCE!run(found).decision = "all_checks_hold"
           /\ Promotes("growth_evidence", line, found) <=>
                  GCE!report(found).decision = "promote_to_larger_local_validation"
           /\ Promotes("campaign_matrix_evidence", line, found) <=>
                  CME!aggregate(found).decision = "robust"
<1>1. Promotes("fixed_time_evidence", line, found) <=>
          FTE!build_decision(line, found).decision = "promote"
  <2>1. \A f, c, n : FTE!suggest_decision(f, c, n) \in
            {"reject_correctness", "inconclusive", "continue_validation",
             "reject_strength", "promote"}
    BY DEF FTE!suggest_decision
  <2>2. FTE!build_decision(line, found).decision \in
            {"reject_correctness", "inconclusive", "continue_validation",
             "reject_strength", "promote"}
    BY <2>1 DEF FTE!build_decision
  <2>3. ConcludeEvidence("fixed_time_evidence", line, found)
          = FTE!build_decision(line, found)
    BY DEF ConcludeEvidence
  <2> QED  BY <2>2, <2>3 DEF Promotes
<1>2. Promotes("arena_matrix_evidence", line, found) <=>
          AME!build_report(found).decision = "local_harness_passed"
  <2>1. AME!overall_local_assessment(found) \in
            {"local_harness_failed", "local_harness_passed", "local_harness_needs_more_runs"}
    BY DEF AME!overall_local_assessment
  <2>2. AME!build_report(found).decision = AME!overall_local_assessment(found)
    BY DEF AME!build_report
  <2>3. ConcludeEvidence("arena_matrix_evidence", line, found) = AME!build_report(found)
    BY DEF ConcludeEvidence
  <2> QED  BY <2>1, <2>2, <2>3 DEF Promotes
<1>3. Promotes("probcut_evidence", line, found) <=>
          PCE!run(found).decision = "all_checks_hold"
  <2>1. PCE!run(found).decision \in {"all_checks_hold", "some_check_fails"}
    BY DEF PCE!run
  <2>2. ConcludeEvidence("probcut_evidence", line, found) = PCE!run(found)
    BY DEF ConcludeEvidence
  <2> QED  BY <2>1, <2>2 DEF Promotes
<1>4. Promotes("growth_evidence", line, found) <=>
          GCE!report(found).decision = "promote_to_larger_local_validation"
  <2>1. \A d, a : GCE!promotion_decision(d, a) \in
            {"inconclusive", "needs_rank_objective", "negative", "hold_for_more_data",
             "promote_to_larger_local_validation"}
    BY DEF GCE!promotion_decision
  <2>2. GCE!report(found).decision \in
            {"inconclusive", "needs_rank_objective", "negative", "hold_for_more_data",
             "promote_to_larger_local_validation"}
    BY <2>1 DEF GCE!report
  <2>3. ConcludeEvidence("growth_evidence", line, found) = GCE!report(found)
    BY DEF ConcludeEvidence
  <2> QED  BY <2>2, <2>3 DEF Promotes
<1>5. Promotes("campaign_matrix_evidence", line, found) <=>
          CME!aggregate(found).decision = "robust"
  <2>1. \A o : CME!recommendation(o) \in
            {"inconclusive", "negative", "robust", "positive_mixed"}
    BY DEF CME!recommendation
  <2>2. CME!aggregate(found).decision \in
            {"inconclusive", "negative", "robust", "positive_mixed"}
    BY <2>1 DEF CME!aggregate
  <2>3. ConcludeEvidence("campaign_matrix_evidence", line, found) = CME!aggregate(found)
    BY DEF ConcludeEvidence
  <2> QED  BY <2>2, <2>3 DEF Promotes
<1> QED  BY <1>1, <1>2, <1>3, <1>4, <1>5

LEMMA OneSidedState ==
    ASSUME IInv, EvidenceInv, settings \in CommandLines[program]
    PROVE  PromotionIsOneSided
<1> SUFFICES ASSUME phase = "report", program \in Evidence \ {"arena_matrix_evidence"}
             PROVE  PromotionIsOneSided
  BY DEF PromotionIsOneSided
<1>1. CASE program = "fixed_time_evidence"
  <2>1. \A found : Promotes(program, settings, found) =>
                      FTE!build_decision(settings, found).decision = "promote"
    BY <1>1, PromotesMeans
  <2>2. ~(/\ Promotes(program, settings, results)
          /\ Promotes(program, settings, MirrorFixedTime(results)))
    BY <1>1, <2>1, FixedTimeIsOneSided
  <2> QED  BY <1>1, <2>2 DEF PromotionIsOneSided
<1>2. CASE program = "probcut_evidence"
  <2>1. \A found : Promotes(program, settings, found) =>
                      PCE!run(found).decision = "all_checks_hold"
    BY <1>2, PromotesMeans
  <2>2. ~(/\ Promotes(program, settings, results)
          /\ Promotes(program, settings, MirrorProbcut(results)))
    BY <1>2, <2>1, ProbcutIsReported, ProbcutIsOneSided
  <2> QED  BY <1>2, <2>2 DEF PromotionIsOneSided
<1>3. CASE program = "growth_evidence"
  <2>1. \A found : Promotes(program, settings, found) =>
                      GCE!report(found).decision = "promote_to_larger_local_validation"
    BY <1>3, PromotesMeans
  <2>2. /\ "matrix" \in DOMAIN results
        /\ results["matrix"] \in {None, Failed} \cup [GCE!Runs -> DeltaReports \cup {Failed}]
    <3>1. program \in Evidence /\ Stages = GCE!main /\ 1 \in DOMAIN Stages
      BY <1>3, ReportFacts DEF PlanOf
    <3>2. Stages[1].name = "matrix"
      BY <3>1, GrowthStartsWithMatrix DEF GCE!run_or_reuse_matrix, GCE!Stage
    <3>3. ReportsOf(program, Stages[1]) = [GCE!Runs -> DeltaReports \cup {Failed}]
      BY <1>3, <3>2 DEF ReportsOf
    <3>4. Missing(1) \/ Reported(1)
      BY <3>1, ReportFacts
    <3>5. Reported(1) => results[Stages[1].name] \in ReportsOf(program, Stages[1])
      BY <3>1, ReportFacts
    <3>6. Stages[1].name \in DOMAIN results
      BY <3>1, ReportFacts
    <3> QED  BY <3>2, <3>3, <3>4, <3>5, <3>6 DEF Missing
  <2>3. ~(/\ Promotes(program, settings, results)
          /\ Promotes(program, settings, MirrorGrowth(results)))
    BY <2>1, <2>2, GrowthIsOneSided
  <2> QED  BY <1>3, <2>3 DEF PromotionIsOneSided
<1>4. CASE program = "campaign_matrix_evidence"
  <2> DEFINE mirror == [n \in DOMAIN results |-> MirrorDeltas(results[n])]
  <2>1. \A found : Promotes(program, settings, found) =>
                      CME!aggregate(found).decision = "robust"
    BY <1>4, PromotesMeans
  <2>2. IsFiniteSet(DOMAIN results)
    BY <1>4, ReportFacts, NamesAreFinite DEF IInv
  <2>3. ASSUME NEW n \in DOMAIN results
        PROVE  results[n] \in {None, Failed} \cup DeltaReports
    <3>1. PICK i \in DOMAIN Stages : Stages[i].name = n
      BY ReportFacts
    <3>2. ReportsOf(program, Stages[i]) = DeltaReports
      BY <1>4 DEF ReportsOf
    <3> QED  BY <3>1, <3>2, ReportFacts DEF Missing
  <2>4. ~(Promotes(program, settings, results) /\ Promotes(program, settings, mirror))
    BY <2>1, <2>2, <2>3, MatrixIsOneSided
  <2> QED  BY <1>4, <2>4 DEF PromotionIsOneSided
<1> QED  BY <1>1, <1>2, <1>3, <1>4 DEF Evidence

\* The command line of the session is one of the program's.
LEMMA LineStays ==
    ASSUME settings \in CommandLines[program], [Next]_vars
    PROVE  (settings \in CommandLines[program])'
<1> USE DEF fixed_vars, session_vars
<1>1. CASE UNCHANGED vars
  BY <1>1 DEF vars
<1>2. CASE \E line \in CommandLines[program], r \in BOOLEAN : StartSession(line, r)
  BY <1>2 DEF StartSession
<1>3. ASSUME NEW s, StageStep(s) PROVE (settings \in CommandLines[program])'
  BY <1>3 DEF StageStep, SkipStage, ReuseStage, RefuseStage, RunStage, ToolWrites,
     ToolFinishes, ToolFails, RejectOutput, PublishSidecar
<1>4. CASE FinishReport \/ Crash
  BY <1>4 DEF FinishReport, Crash
<1>5. ASSUME NEW x, ReplaceSource(x) \/ RemoveOutputs(x)
      PROVE  (settings \in CommandLines[program])'
  BY <1>5 DEF ReplaceSource, RemoveOutputs
<1> QED  BY <1>1, <1>2, <1>3, <1>4, <1>5 DEF Next

\* No campaign program promotes a candidate over a baseline on evidence that,
\* read the other way round, would promote the baseline over the candidate:
\* whatever its tools report, however many sessions that took, and whatever
\* limits, matrices and thresholds the program is run with.
THEOREM OneSidedCorrect == Spec => []PromotionIsOneSided
<1>1. Init => settings \in CommandLines[program]
  BY DEF Init, InitFor
<1>2. settings \in CommandLines[program] /\ [Next]_vars => (settings \in CommandLines[program])'
  BY LineStays
<1>3. Spec => [](settings \in CommandLines[program])
  BY <1>1, <1>2, PTL DEF Spec
<1>4. IInv /\ EvidenceInv /\ settings \in CommandLines[program] => PromotionIsOneSided
  BY OneSidedState
<1> QED  BY <1>3, <1>4, SpecEvidence, PTL

-----------------------------------------------------------------------------
\* A decision is monotone: totals, groups and summaries of worse evidence are
\* no better, and each program's conditions are monotone in those.

\* A total adds up the values of a function, one after the other.
AddsUp(f, S, up) ==
    up = [s \in SUBSET S |->
             IF s = {} THEN 0
             ELSE f[CHOOSE x \in s : TRUE] + up[s \ {CHOOSE x \in s : TRUE}]]
Total(f) == (CHOOSE up : AddsUp(f, DOMAIN f, up))[DOMAIN f]

LEMMA FixedTimeTotal == \A f : FTE!TotalOf(f) = Total(f)
BY DEF FTE!TotalOf, FTE!MapThenSumSet, FTE!MapThenFoldSet, AddsUp, Total

LEMMA ArenaTotal == \A f : AME!TotalOf(f) = Total(f)
BY DEF AME!TotalOf, AME!MapThenSumSet, AME!MapThenFoldSet, AddsUp, Total

LEMMA ProbcutTotal == \A f : PCE!TotalOf(f) = Total(f)
BY DEF PCE!TotalOf, PCE!MapThenSumSet, PCE!MapThenFoldSet, AddsUp, Total

OneOf(s) == CHOOSE x \in s : TRUE
Smaller(S, n) == {s \in SUBSET S : Cardinality(s) <= n}
AddsUpTo(f, S, n, up) ==
    up = [s \in Smaller(S, n) |->
             IF s = {} THEN 0 ELSE f[OneOf(s)] + up[s \ {OneOf(s)}]]

\* A set without the member that comes first is smaller by one.
LEMMA WithoutOne ==
    ASSUME NEW S, IsFiniteSet(S), S # {}
    PROVE  /\ OneOf(S) \in S /\ IsFiniteSet(S \ {OneOf(S)})
           /\ Cardinality(S \ {OneOf(S)}) = Cardinality(S) - 1
           /\ Cardinality(S) \in Nat \ {0}
<1>1. OneOf(S) \in S
  BY DEF OneOf
<1> QED  BY <1>1, FS_RemoveElement, FS_CardinalityType, FS_EmptySet

\* There are such sums, by the least size of a set that has none.
LEMMA SumsUpTo ==
    ASSUME NEW f, NEW S, IsFiniteSet(S)
    PROVE  \A n \in Nat : \E up : AddsUpTo(f, S, n, up)
<1> DEFINE bad == {n \in Nat : ~ \E up : AddsUpTo(f, S, n, up)}
<1> SUFFICES ASSUME bad # {} PROVE FALSE
  OBVIOUS
<1>1. PICK n \in bad : \A m \in bad : n <= m
  <2>1. bad \in SUBSET Nat
    OBVIOUS
  <2> HIDE DEF bad
  <2> QED  BY <2>1, LeastNumber
<1>2. n \in Nat /\ ~ \E up : AddsUpTo(f, S, n, up)
  OBVIOUS
<1>3. CASE n = 0
  <2> DEFINE up == [s \in Smaller(S, 0) |-> 0]
  <2>1. ASSUME NEW s \in Smaller(S, 0) PROVE s = {}
    BY FS_Subset, FS_EmptySet, FS_CardinalityType DEF Smaller
  <2>2. AddsUpTo(f, S, 0, up)
    BY <2>1 DEF AddsUpTo
  <2> QED  BY <1>2, <1>3, <2>2
<1>4. CASE n > 0
  <2>1. n - 1 \in Nat /\ n - 1 \notin bad
    BY <1>1, <1>2, <1>4
  <2>2. PICK below : AddsUpTo(f, S, n - 1, below)
    BY <2>1
  <2> DEFINE up == [s \in Smaller(S, n) |->
                       IF s = {} THEN 0 ELSE f[OneOf(s)] + below[s \ {OneOf(s)}]]
  <2>3. ASSUME NEW s \in Smaller(S, n), s # {}
        PROVE  up[s \ {OneOf(s)}] = below[s \ {OneOf(s)}]
    <3> DEFINE t == s \ {OneOf(s)}
    <3>1. s \subseteq S /\ IsFiniteSet(s) /\ Cardinality(s) <= n
      BY FS_Subset DEF Smaller
    <3>2. t \in SUBSET S /\ Cardinality(t) = Cardinality(s) - 1 /\ Cardinality(s) \in Nat
      BY <2>3, <3>1, WithoutOne
    <3>3. t \in Smaller(S, n) /\ t \in Smaller(S, n - 1)
      BY <1>2, <3>1, <3>2 DEF Smaller
    <3>4. up[t] = IF t = {} THEN 0 ELSE f[OneOf(t)] + below[t \ {OneOf(t)}]
      BY <3>3
    <3>5. below[t] = IF t = {} THEN 0 ELSE f[OneOf(t)] + below[t \ {OneOf(t)}]
      BY <2>2, <3>3 DEF AddsUpTo
    <3> QED  BY <3>4, <3>5
  <2>4. up = [s \in Smaller(S, n) |->
                 IF s = {} THEN 0 ELSE f[OneOf(s)] + up[s \ {OneOf(s)}]]
    BY <2>3
  <2> QED  BY <1>2, <2>4 DEF AddsUpTo
<1> QED  BY <1>2, <1>3, <1>4

LEMMA SumExists ==
    ASSUME NEW f, NEW S, IsFiniteSet(S)
    PROVE  \E up : AddsUp(f, S, up)
<1>1. Cardinality(S) \in Nat
  BY FS_CardinalityType
<1>2. PICK up : AddsUpTo(f, S, Cardinality(S), up)
  BY <1>1, SumsUpTo
<1>3. Smaller(S, Cardinality(S)) = SUBSET S
  BY FS_Subset DEF Smaller
<1>4. AddsUp(f, S, up)
  BY <1>2, <1>3 DEF AddsUp, AddsUpTo, OneOf
<1> QED  BY <1>4

\* Lesser values add up to less.
LEMMA TotalIsMonotone ==
    ASSUME NEW f, NEW g, DOMAIN f = DOMAIN g, IsFiniteSet(DOMAIN f),
           \A x \in DOMAIN f : f[x] \in Int /\ g[x] \in Int /\ f[x] <= g[x]
    PROVE  Total(f) \in Int /\ Total(g) \in Int /\ Total(f) <= Total(g)
<1> DEFINE T == DOMAIN f
           up == CHOOSE u : AddsUp(f, T, u)
           down == CHOOSE u : AddsUp(g, T, u)
           Fine(s) == up[s] \in Int /\ down[s] \in Int /\ up[s] <= down[s]
           bad == {s \in FiniteSubsetsOf(T) : ~Fine(s)}
<1>1. AddsUp(f, T, up) /\ AddsUp(g, T, down)
  BY SumExists
<1>2. Total(f) = up[T] /\ Total(g) = down[T]
  BY DEF Total
<1> HIDE DEF up, down
<1>3. \A s \in SUBSET T :
         /\ up[s] = IF s = {} THEN 0 ELSE f[OneOf(s)] + up[s \ {OneOf(s)}]
         /\ down[s] = IF s = {} THEN 0 ELSE g[OneOf(s)] + down[s \ {OneOf(s)}]
  BY <1>1 DEF AddsUp, OneOf
<1> SUFFICES ASSUME ~Fine(T) PROVE FALSE
  BY <1>2
<1>4. bad # {} /\ bad \subseteq FiniteSubsetsOf(T)
  <2> HIDE DEF Fine
  <2> QED  BY DEF FiniteSubsetsOf
<1>5. PICK s \in bad : \A t \in bad : ~ (<<t, s>> \in StrictSubsetOrdering(T))
  <2> HIDE DEF bad
  <2> QED  BY <1>4, FS_StrictSubsetOrderingWellFounded, WFMin
<1>6. s \in SUBSET T /\ IsFiniteSet(s) /\ ~Fine(s)
  <2> HIDE DEF Fine
  <2> QED  BY DEF FiniteSubsetsOf
<1>7. s # {}
  <2>1. s = {} => up[s] = 0 /\ down[s] = 0
    <3> HIDE DEF Fine, bad
    <3> QED  BY <1>3, <1>6
  <2>2. 0 \in Int /\ 0 <= 0
    OBVIOUS
  <2> QED  BY <1>6, <2>1, <2>2
<1> DEFINE t == s \ {OneOf(s)}
<1>8. OneOf(s) \in s /\ IsFiniteSet(t)
  BY <1>6, <1>7, WithoutOne
<1>9. <<t, s>> \in StrictSubsetOrdering(T) /\ t \in FiniteSubsetsOf(T)
  BY <1>6, <1>8 DEF StrictSubsetOrdering, FiniteSubsetsOf
<1>10. Fine(t)
  <2> HIDE DEF Fine
  <2> QED  BY <1>5, <1>9
<1>11. /\ up[s] = f[OneOf(s)] + up[t] /\ down[s] = g[OneOf(s)] + down[t]
       /\ OneOf(s) \in T
  BY <1>3, <1>6, <1>7, <1>8
<1> HIDE DEF t, T
<1>12. f[OneOf(s)] \in Int /\ g[OneOf(s)] \in Int /\ f[OneOf(s)] <= g[OneOf(s)]
  BY <1>11 DEF T
<1> QED  BY <1>6, <1>10, <1>11, <1>12

-----------------------------------------------------------------------------
\* A matrix of campaigns with one summary replaced by a worse one.
LEMMA WorseDeltasAreWorse ==
    ASSUME NEW r \in DeltaReports, NEW w \in WorseDeltas(r)
    PROVE  /\ w.top1 > 0 => r.top1 > 0
           /\ w.pairwise > 0 => r.pairwise > 0
           /\ w.regret < 0 => r.regret < 0
           /\ w.heldout => r.heldout
           /\ w.arena = None <=> r.arena = None
           /\ w.arena = TRUE => r.arena = TRUE
           /\ IsKnown(w)
<1>1. /\ r.top1 \in Int /\ r.pairwise \in Int /\ r.regret \in Int /\ r.heldout \in BOOLEAN
      /\ r = [top1 |-> r.top1, pairwise |-> r.pairwise, regret |-> r.regret,
              heldout |-> r.heldout, all_same |-> r.all_same, compressed |-> r.compressed,
              arena |-> r.arena]
      /\ r.all_same \in BOOLEAN /\ r.compressed \in BOOLEAN /\ r.arena \in BOOLEAN \cup {None}
  BY DEF DeltaReports
<1>2. CASE w = [r EXCEPT !.top1 = -1]
  <2>1. w = [top1 |-> -1, pairwise |-> r.pairwise, regret |-> r.regret,
             heldout |-> r.heldout, all_same |-> r.all_same, compressed |-> r.compressed,
             arena |-> r.arena]
    BY <1>1, <1>2
  <2>2. w \in DeltaReports
    BY <1>1, <2>1 DEF DeltaReports
  <2> QED  BY <2>1, <2>2, DeltaFields
<1>3. CASE w = [r EXCEPT !.pairwise = -1]
  <2>1. w = [top1 |-> r.top1, pairwise |-> -1, regret |-> r.regret,
             heldout |-> r.heldout, all_same |-> r.all_same, compressed |-> r.compressed,
             arena |-> r.arena]
    BY <1>1, <1>3
  <2>2. w \in DeltaReports
    BY <1>1, <2>1 DEF DeltaReports
  <2> QED  BY <2>1, <2>2, DeltaFields
<1>4. CASE w = [r EXCEPT !.regret = 1]
  <2>1. w = [top1 |-> r.top1, pairwise |-> r.pairwise, regret |-> 1,
             heldout |-> r.heldout, all_same |-> r.all_same, compressed |-> r.compressed,
             arena |-> r.arena]
    BY <1>1, <1>4
  <2>2. w \in DeltaReports
    BY <1>1, <2>1 DEF DeltaReports
  <2> QED  BY <2>1, <2>2, DeltaFields
<1>5. CASE w = [r EXCEPT !.heldout = FALSE]
  <2>1. w = [top1 |-> r.top1, pairwise |-> r.pairwise, regret |-> r.regret,
             heldout |-> FALSE, all_same |-> r.all_same, compressed |-> r.compressed,
             arena |-> r.arena]
    BY <1>1, <1>5
  <2>2. w \in DeltaReports
    BY <1>1, <2>1 DEF DeltaReports
  <2> QED  BY <2>1, <2>2, DeltaFields
<1>6. CASE r.arena = TRUE /\ w = [r EXCEPT !.arena = FALSE]
  <2>1. w = [top1 |-> r.top1, pairwise |-> r.pairwise, regret |-> r.regret,
             heldout |-> r.heldout, all_same |-> r.all_same, compressed |-> r.compressed,
             arena |-> FALSE]
    BY <1>1, <1>6
  <2>2. w \in DeltaReports
    BY <1>1, <2>1 DEF DeltaReports
  <2>3. None # TRUE /\ None # FALSE
    BY ConstantsAssumption
  <2> QED  BY <1>6, <2>1, <2>2, <2>3, DeltaFields
<1> QED  BY <1>2, <1>3, <1>4, <1>5, <1>6 DEF WorseDeltas

\* Of a smaller part of the same runs fewer are counted.
LEMMA FewerAreCounted ==
    ASSUME NEW U, IsFiniteSet(U), NEW S, NEW T, S \subseteq T, T \subseteq U
    PROVE  /\ Cardinality(S) \in Nat /\ Cardinality(T) \in Nat /\ Cardinality(U) \in Nat
           /\ Cardinality(S) <= Cardinality(T)
BY FS_Subset, FS_CardinalityType

\* What a recommendation of "robust" comes down to.
LEMMA RobustMeans ==
    ASSUME NEW o
    PROVE  CME!recommendation(o) = "robust" <=>
             /\ o.comparable_run_count # 0
             /\ 2 * o.pairwise_positive_count > o.comparable_run_count
             /\ 2 * o.regret_decrease_count > o.comparable_run_count
             /\ 2 * o.top1_positive_count > o.comparable_run_count
             /\ 2 * o.heldout_support_count > o.comparable_run_count
             /\ \/ o.arena_completed_count = 0
                \/ 2 * o.arena_non_negative_count > o.arena_completed_count
BY DEF CME!recommendation

CountsAre(o, found, U) ==
    /\ o.comparable_run_count = Cardinality(U)
    /\ o.top1_positive_count = Cardinality({r \in U : found[r].top1 > 0})
    /\ o.pairwise_positive_count = Cardinality({r \in U : found[r].pairwise > 0})
    /\ o.regret_decrease_count = Cardinality({r \in U : found[r].regret < 0})
    /\ o.heldout_support_count = Cardinality({r \in U : found[r].heldout})
    /\ o.arena_completed_count = Cardinality({r \in U : found[r].arena # None})
    /\ o.arena_non_negative_count = Cardinality({r \in U : found[r].arena = TRUE})

LEMMA GroupCounts ==
    ASSUME NEW found, NEW U
    PROVE  CountsAre(CME!summarize_group(found, U), found, U)
BY MatrixCardinality DEF CountsAre, CME!summarize_group, CME!arena_completed,
   CME!arena_non_negative

LEMMA MatrixIsMonotone ==
    ASSUME NEW found, IsFiniteSet(DOMAIN found),
           NEW n \in DOMAIN found, found[n] \in DeltaReports, NEW r \in WorseDeltas(found[n]),
           CME!aggregate([found EXCEPT ![n] = r]).decision = "robust"
    PROVE  CME!aggregate(found).decision = "robust"
<1> DEFINE worse == [found EXCEPT ![n] = r]
           U == CME!comparable_runs(found)
           o == CME!summarize_group(found, U)
           w == CME!summarize_group(worse, U)
<1>1. /\ DOMAIN worse = DOMAIN found /\ worse[n] = r
      /\ \A m \in DOMAIN found : m # n => worse[m] = found[m]
  OBVIOUS
<1>2. /\ r.top1 > 0 => found[n].top1 > 0
      /\ r.pairwise > 0 => found[n].pairwise > 0
      /\ r.regret < 0 => found[n].regret < 0
      /\ r.heldout => found[n].heldout
      /\ r.arena = None <=> found[n].arena = None
      /\ r.arena = TRUE => found[n].arena = TRUE
      /\ IsKnown(r) /\ IsKnown(found[n])
  BY WorseDeltasAreWorse, DeltaFields
<1> HIDE DEF worse
<1>3. CME!comparable_runs(worse) = U
  BY <1>1, <1>2 DEF CME!comparable_runs, CME!IsKnown, IsKnown
<1>4. \A m \in U : /\ worse[m].top1 > 0 => found[m].top1 > 0
                   /\ worse[m].pairwise > 0 => found[m].pairwise > 0
                   /\ worse[m].regret < 0 => found[m].regret < 0
                   /\ worse[m].heldout => found[m].heldout
                   /\ worse[m].arena = None <=> found[m].arena = None
                   /\ worse[m].arena = TRUE => found[m].arena = TRUE
  <2> U \subseteq DOMAIN found
    BY DEF CME!comparable_runs
  <2> HIDE DEF U
  <2> QED  BY <1>1, <1>2
<1>5. IsFiniteSet(U) /\ CME!recommendation(w) = "robust"
  <2>1. U \subseteq DOMAIN found
    BY DEF CME!comparable_runs
  <2>2. CME!aggregate(worse).decision = "robust"
    BY DEF worse
  <2>3. CME!recommendation(w) = "robust"
    BY <1>3, <2>2 DEF CME!aggregate
  <2> HIDE DEF U, w
  <2> QED  BY <2>1, <2>3, FS_Subset
<1>6. CountsAre(w, worse, U) /\ CountsAre(o, found, U)
  <2> HIDE DEF U
  <2> QED  BY GroupCounts
<1> HIDE DEF U, o, w
<1>7. /\ w.top1_positive_count <= o.top1_positive_count
      /\ w.top1_positive_count \in Nat /\ o.top1_positive_count \in Nat
  <2>1. {m \in U : worse[m].top1 > 0} \subseteq {m \in U : found[m].top1 > 0}
    BY <1>4
  <2> QED  BY <1>5, <1>6, <2>1, FewerAreCounted DEF CountsAre
<1>8. /\ w.pairwise_positive_count <= o.pairwise_positive_count
      /\ w.pairwise_positive_count \in Nat /\ o.pairwise_positive_count \in Nat
  <2>1. {m \in U : worse[m].pairwise > 0} \subseteq {m \in U : found[m].pairwise > 0}
    BY <1>4
  <2> QED  BY <1>5, <1>6, <2>1, FewerAreCounted DEF CountsAre
<1>9. /\ w.regret_decrease_count <= o.regret_decrease_count
      /\ w.regret_decrease_count \in Nat /\ o.regret_decrease_count \in Nat
  <2>1. {m \in U : worse[m].regret < 0} \subseteq {m \in U : found[m].regret < 0}
    BY <1>4
  <2> QED  BY <1>5, <1>6, <2>1, FewerAreCounted DEF CountsAre
<1>10. /\ w.heldout_support_count <= o.heldout_support_count
       /\ w.heldout_support_count \in Nat /\ o.heldout_support_count \in Nat
  <2>1. {m \in U : worse[m].heldout} \subseteq {m \in U : found[m].heldout}
    BY <1>4
  <2> QED  BY <1>5, <1>6, <2>1, FewerAreCounted DEF CountsAre
<1>11. w.arena_completed_count = o.arena_completed_count /\ o.arena_completed_count \in Nat
  <2>1. /\ {m \in U : worse[m].arena # None} = {m \in U : found[m].arena # None}
        /\ {m \in U : found[m].arena # None} \subseteq U
    BY <1>4
  <2>2. Cardinality({m \in U : found[m].arena # None}) \in Nat
    BY <1>5, <2>1, FewerAreCounted
  <2> QED  BY <1>6, <2>1, <2>2 DEF CountsAre
<1>12. /\ w.arena_non_negative_count <= o.arena_non_negative_count
       /\ w.arena_non_negative_count \in Nat /\ o.arena_non_negative_count \in Nat
  <2>1. {m \in U : worse[m].arena = TRUE} \subseteq {m \in U : found[m].arena = TRUE}
    BY <1>4
  <2> QED  BY <1>5, <1>6, <2>1, FewerAreCounted DEF CountsAre
<1>13. w.comparable_run_count = o.comparable_run_count /\ o.comparable_run_count \in Nat
  BY <1>5, <1>6, FS_CardinalityType DEF CountsAre
<1>14. CME!recommendation(o) = "robust"
  BY <1>5, <1>7, <1>8, <1>9, <1>10, <1>11, <1>12, <1>13, RobustMeans
<1> QED  BY <1>14 DEF CME!aggregate, o, U

-----------------------------------------------------------------------------
\* A growth cycle with one arena replaced by one that went worse.
ArenasOf(found, comparison) ==
    {n \in {GCE!Arena(comparison, r) : r \in GCE!Runs \cup {GCE!baselines}} :
        n \in DOMAIN found /\ IsKnown(found[n])}
PlayedArenas(found) == {n \in DOMAIN found \ {"matrix"} : IsKnown(found[n])}
Supportive(found, comparison, close_ok) ==
    {n \in ArenasOf(found, comparison) : GCE!arena_supportive(found[n], close_ok)}
Supported(found, comparison, close_ok) ==
    \/ ArenasOf(found, comparison) = {}
    \/ 2 * Cardinality(Supportive(found, comparison, close_ok))
         > Cardinality(ArenasOf(found, comparison))

\* What the arenas have to show, and what the trainings.
ArenasPass(found) ==
    /\ PlayedArenas(found) # {}
    /\ \A n \in ArenasOf(found, "same_artifact_sanity") :
          GCE!same_artifact_sanity_passes(found[n])
    /\ Supported(found, "move_teacher_v2_vs_v1", FALSE)
    /\ Supported(found, "move_teacher_v2_vs_exact_root_v2", TRUE)
    /\ \A n \in PlayedArenas(found) : found[n].failed = 0
MarginObserved(found) ==
    \E n \in ArenasOf(found, "move_teacher_v2_vs_v1") : found[n].rate > 50

LEMMA ArenaSummary ==
    ASSUME NEW found
    PROVE  LET a == GCE!summarize_arena_validation(found)
           IN  /\ a.status = IF PlayedArenas(found) = {} THEN "missing" ELSE "ok"
               /\ a.gate_passed = ArenasPass(found)
               /\ a.positive_arena_margin_observed = MarginObserved(found)
<1>1. \A c : ArenasOf(found, c) =
          {n \in {GCE!Arena(c, r) : r \in GCE!Runs \cup {GCE!baselines}} :
              n \in DOMAIN found /\ GCE!IsKnown(found[n])}
  BY DEF ArenasOf, IsKnown, GCE!IsKnown
<1>2. PlayedArenas(found) = {n \in DOMAIN found \ {"matrix"} : GCE!IsKnown(found[n])}
  BY DEF PlayedArenas, IsKnown, GCE!IsKnown
<1> QED
  BY <1>1, <1>2, GrowthCardinality
     DEF GCE!summarize_arena_validation, ArenasPass, MarginObserved, Supported, Supportive

LEMMA LeverageSummary ==
    ASSUME NEW matrix, GCE!summarize_decision_leverage(matrix).gate_passed
    PROVE  LET d == GCE!summarize_decision_leverage(matrix)
           IN  /\ d.completed_comparable_runs # 0
               /\ 2 * d.pairwise_positive_count > d.completed_comparable_runs
               /\ 2 * d.regret_decrease_count > d.completed_comparable_runs
<1> DEFINE d == GCE!summarize_decision_leverage(matrix)
           completed == GCE!completed_comparable_runs(matrix)
           counts ==
              {GCE!Cardinality({r \in completed : matrix[r].top1 > 0}),
               GCE!Cardinality({r \in completed : matrix[r].pairwise > 0}),
               GCE!Cardinality({r \in completed : matrix[r].regret < 0}),
               GCE!Cardinality({r \in completed : matrix[r].heldout})}
<1>1. d.gate_passed = /\ GCE!Cardinality(completed) > 0
                      /\ \A c \in counts : 2 * c > GCE!Cardinality(completed)
  BY DEF GCE!summarize_decision_leverage
<1>2. /\ d.completed_comparable_runs = GCE!Cardinality(completed)
      /\ d.pairwise_positive_count = GCE!Cardinality({r \in completed : matrix[r].pairwise > 0})
      /\ d.regret_decrease_count = GCE!Cardinality({r \in completed : matrix[r].regret < 0})
  BY DEF GCE!summarize_decision_leverage
<1> HIDE DEF d, completed
<1>3. d.gate_passed
  BY DEF d
<1>4. d.completed_comparable_runs > 0
  BY <1>1, <1>2, <1>3
<1>5. /\ 2 * d.pairwise_positive_count > d.completed_comparable_runs
      /\ 2 * d.regret_decrease_count > d.completed_comparable_runs
  BY <1>1, <1>2, <1>3
<1>6. d.completed_comparable_runs # 0
  BY <1>4
<1> QED  BY <1>5, <1>6 DEF d

LEMMA PromotionMeans ==
    ASSUME NEW d, NEW a,
           d.gate_passed => /\ d.completed_comparable_runs # 0
                            /\ 2 * d.pairwise_positive_count > d.completed_comparable_runs
                            /\ 2 * d.regret_decrease_count > d.completed_comparable_runs,
           a.gate_passed => a.status # "missing"
    PROVE  GCE!promotion_decision(d, a) = "promote_to_larger_local_validation" <=>
             d.gate_passed /\ a.gate_passed /\ a.positive_arena_margin_observed /\ d.stable
BY DEF GCE!promotion_decision

\* A growth cycle promotes when its trainings and its arenas pass.
LEMMA GrowthPromotes ==
    ASSUME NEW found
    PROVE  GCE!report(found).decision = "promote_to_larger_local_validation" <=>
             /\ GCE!summarize_decision_leverage(found["matrix"]).gate_passed
             /\ GCE!summarize_decision_leverage(found["matrix"]).stable
             /\ ArenasPass(found) /\ MarginObserved(found)
<1> DEFINE d == GCE!summarize_decision_leverage(found["matrix"])
           a == GCE!summarize_arena_validation(found)
<1>1. d.gate_passed => /\ d.completed_comparable_runs # 0
                       /\ 2 * d.pairwise_positive_count > d.completed_comparable_runs
                       /\ 2 * d.regret_decrease_count > d.completed_comparable_runs
  BY LeverageSummary
<1>2. /\ a.status = IF PlayedArenas(found) = {} THEN "missing" ELSE "ok"
      /\ a.gate_passed = ArenasPass(found)
      /\ a.positive_arena_margin_observed = MarginObserved(found)
  BY ArenaSummary
<1>3. GCE!report(found).decision = GCE!promotion_decision(d, a)
  BY DEF GCE!report
<1> HIDE DEF d, a
<1>4. a.gate_passed => a.status # "missing"
  BY <1>2 DEF ArenasPass
<1>5. GCE!promotion_decision(d, a) = "promote_to_larger_local_validation" <=>
         d.gate_passed /\ a.gate_passed /\ a.positive_arena_margin_observed /\ d.stable
  BY <1>1, <1>4, PromotionMeans
<1> QED  BY <1>2, <1>3, <1>5 DEF d

\* Each comparison has at least as much support in the better evidence.
LEMMA SupportIsMonotone ==
    ASSUME NEW found, NEW worse, NEW comparison, NEW close_ok \in BOOLEAN,
           IsFiniteSet(ArenasOf(found, comparison)),
           ArenasOf(worse, comparison) = ArenasOf(found, comparison),
           \A m \in ArenasOf(found, comparison) :
               GCE!arena_supportive(worse[m], close_ok)
                   => GCE!arena_supportive(found[m], close_ok),
           Supported(worse, comparison, close_ok)
    PROVE  Supported(found, comparison, close_ok)
<1> DEFINE U == ArenasOf(found, comparison)
<1>1. Supportive(worse, comparison, close_ok) \subseteq Supportive(found, comparison, close_ok)
  BY DEF Supportive
<1>2. Supportive(found, comparison, close_ok) \subseteq U
  BY DEF Supportive
<1>3. /\ Cardinality(U) \in Nat
      /\ Cardinality(Supportive(worse, comparison, close_ok)) \in Nat
      /\ Cardinality(Supportive(found, comparison, close_ok)) \in Nat
      /\ Cardinality(Supportive(worse, comparison, close_ok))
           <= Cardinality(Supportive(found, comparison, close_ok))
  BY <1>1, <1>2, FewerAreCounted
<1> QED  BY <1>3 DEF Supported

LEMMA GrowthIsMonotone ==
    ASSUME NEW found, IsFiniteSet(DOMAIN found),
           NEW n \in DOMAIN found, found[n] \in MatrixReports,
           NEW r \in WorseArena(n, found[n]),
           GCE!report([found EXCEPT ![n] = r]).decision
               = "promote_to_larger_local_validation"
    PROVE  GCE!report(found).decision = "promote_to_larger_local_validation"
<1> DEFINE worse == [found EXCEPT ![n] = r]
           better(w, m) == /\ w.failed = found[m].failed
                           /\ w.rate \in Int /\ found[m].rate \in Int
                           /\ w.rate <= found[m].rate
<1>1. /\ DOMAIN worse = DOMAIN found /\ worse[n] = r
      /\ \A m \in DOMAIN found : m # n => worse[m] = found[m]
  OBVIOUS
<1>2. PICK c \in {"move_teacher_v2_vs_v1", "move_teacher_v2_vs_exact_root_v2"} :
          \E q \in GCE!Runs : n = GCE!Arena(c, q)
  BY DEF WorseArena
<1>3. PICK q \in GCE!Runs : n = GCE!Arena(c, q)
  BY <1>2
<1>4. n # "matrix" /\ \A p \in GCE!Runs \cup {GCE!baselines} :
                          n # GCE!Arena("same_artifact_sanity", p)
  <2>1. "same_artifact_sanity" # c
    OBVIOUS
  <2> QED  BY <1>3, <2>1, ArenaNamesAssumption
<1>5. r = [found[n] EXCEPT !.rate = @ - 3]
  BY DEF WorseArena
<1>6. /\ found[n].rate \in Int /\ found[n].failed \in Nat /\ found[n].diff \in Int
      /\ found[n] = [rate |-> found[n].rate, diff |-> found[n].diff,
                     failed |-> found[n].failed]
  BY DEF MatrixReports
<1>7. r = [rate |-> found[n].rate - 3, diff |-> found[n].diff, failed |-> found[n].failed]
  BY <1>5, <1>6
<1>8. r \in MatrixReports /\ better(r, n)
  BY <1>6, <1>7 DEF MatrixReports
<1>9. IsKnown(r) /\ IsKnown(found[n])
  BY <1>8, ConstantsAssumption DEF IsKnown
<1>10. GCE!report(worse).decision = "promote_to_larger_local_validation"
  OBVIOUS
<1> HIDE DEF worse
<1>11. /\ \A k : ArenasOf(worse, k) = ArenasOf(found, k)
       /\ PlayedArenas(worse) = PlayedArenas(found)
  BY <1>1, <1>9 DEF ArenasOf, PlayedArenas
<1>12. worse["matrix"] = found["matrix"]
  BY <1>1, <1>4 DEF worse
<1>13. ArenasPass(worse) /\ MarginObserved(worse)
  BY <1>10, GrowthPromotes
<1>14. \A k : IsFiniteSet(ArenasOf(found, k))
  <2> TAKE k
  <2>1. ArenasOf(found, k) \subseteq DOMAIN found
    BY DEF ArenasOf
  <2> QED  BY <2>1, FS_Subset
<1>15. \A m \in DOMAIN found, ok \in BOOLEAN :
          GCE!arena_supportive(worse[m], ok) => GCE!arena_supportive(found[m], ok)
  <2> TAKE m \in DOMAIN found, ok \in BOOLEAN
  <2>1. CASE m = n
    BY <1>1, <1>8, <2>1 DEF GCE!arena_supportive
  <2>2. CASE m # n
    BY <1>1, <2>2
  <2> QED  BY <2>1, <2>2
<1>16. \A k : \A m \in ArenasOf(found, k) : m \in DOMAIN found
  BY DEF ArenasOf
<1>17. Supported(found, "move_teacher_v2_vs_v1", FALSE)
  <2>1. Supported(worse, "move_teacher_v2_vs_v1", FALSE)
    BY <1>13 DEF ArenasPass
  <2> QED  BY <1>11, <1>14, <1>15, <1>16, <2>1, SupportIsMonotone
<1>18. Supported(found, "move_teacher_v2_vs_exact_root_v2", TRUE)
  <2>1. Supported(worse, "move_teacher_v2_vs_exact_root_v2", TRUE)
    BY <1>13 DEF ArenasPass
  <2> QED  BY <1>11, <1>14, <1>15, <1>16, <2>1, SupportIsMonotone
<1>19. \A m \in ArenasOf(found, "same_artifact_sanity") :
           GCE!same_artifact_sanity_passes(found[m])
  <2> TAKE m \in ArenasOf(found, "same_artifact_sanity")
  <2>1. m # n /\ m \in DOMAIN found
    BY <1>4 DEF ArenasOf
  <2>2. GCE!same_artifact_sanity_passes(worse[m])
    BY <1>11, <1>13 DEF ArenasPass
  <2> QED  BY <1>1, <2>1, <2>2
<1>20. PlayedArenas(found) # {} /\ \A m \in PlayedArenas(found) : found[m].failed = 0
  <2>1. PlayedArenas(found) # {} /\ \A m \in PlayedArenas(found) : worse[m].failed = 0
    BY <1>11, <1>13 DEF ArenasPass
  <2>2. ASSUME NEW m \in PlayedArenas(found) PROVE found[m].failed = worse[m].failed
    <3>1. m \in DOMAIN found
      BY DEF PlayedArenas
    <3> QED  BY <1>1, <1>8, <3>1
  <2> QED  BY <2>1, <2>2
<1>21. MarginObserved(found)
  <2>1. PICK m \in ArenasOf(found, "move_teacher_v2_vs_v1") : worse[m].rate > 50
    BY <1>11, <1>13 DEF MarginObserved
  <2>2. m \in DOMAIN found
    BY <1>16
  <2>3. found[m].rate > 50
    BY <1>1, <1>8, <2>1, <2>2
  <2> QED  BY <2>3 DEF MarginObserved
<1>22. ArenasPass(found)
  BY <1>17, <1>18, <1>19, <1>20 DEF ArenasPass
<1> QED  BY <1>10, <1>12, <1>21, <1>22, GrowthPromotes

-----------------------------------------------------------------------------
\* A matrix of arenas with one result replaced by a worse one.
LEMMA ArenaCardinality == \A S : AME!Cardinality(S) = Cardinality(S)
BY DEF Cardinality, AME!Cardinality

Weaker(w, r) ==
    /\ w.failed = r.failed /\ w.failed \in Nat
    /\ w.rate \in Int /\ r.rate \in Int /\ w.rate <= r.rate
    /\ w.diff \in Int /\ r.diff \in Int /\ w.diff <= r.diff
WeakerGroup(H, G) ==
    /\ DOMAIN H = DOMAIN G /\ IsFiniteSet(DOMAIN G)
    /\ H = <<>> <=> G = <<>>
    /\ \A k \in DOMAIN G : Weaker(H[k], G[k])

\* Of a weaker group the statistics are no better.
LEMMA WeakerStats ==
    ASSUME NEW H, NEW G, WeakerGroup(H, G)
    PROVE  LET h == AME!basic_stats(H)
               g == AME!basic_stats(G)
           IN  /\ h.run_count = g.run_count /\ g.run_count \in Nat
               /\ h.total_failed_games = g.total_failed_games
               /\ h.non_negative_run_count \in Nat /\ g.non_negative_run_count \in Nat
               /\ h.non_negative_run_count <= g.non_negative_run_count
               /\ h.rates \in Int /\ g.rates \in Int /\ h.rates <= g.rates
               /\ h.diffs \in Int /\ g.diffs \in Int /\ h.diffs <= g.diffs
<1> DEFINE D == DOMAIN G
           rate(f) == [k \in DOMAIN f |-> f[k].rate]
           diff(f) == [k \in DOMAIN f |-> f[k].diff]
           failed(f) == [k \in DOMAIN f |-> f[k].failed]
           positive(f) == {k \in DOMAIN f : AME!non_negative(f[k])}
<1>1. DOMAIN H = D /\ IsFiniteSet(D) /\ \A k \in D : Weaker(H[k], G[k])
  BY DEF WeakerGroup
<1>2. Total(rate(H)) \in Int /\ Total(rate(G)) \in Int /\ Total(rate(H)) <= Total(rate(G))
  <2>1. \A k \in D : rate(H)[k] \in Int /\ rate(G)[k] \in Int /\ rate(H)[k] <= rate(G)[k]
    BY <1>1 DEF Weaker
  <2>2. DOMAIN rate(H) = D /\ DOMAIN rate(G) = D
    BY <1>1
  <2> HIDE DEF rate, D
  <2> QED  BY <1>1, <2>1, <2>2, TotalIsMonotone
<1>3. Total(diff(H)) \in Int /\ Total(diff(G)) \in Int /\ Total(diff(H)) <= Total(diff(G))
  <2>1. \A k \in D : diff(H)[k] \in Int /\ diff(G)[k] \in Int /\ diff(H)[k] <= diff(G)[k]
    BY <1>1 DEF Weaker
  <2>2. DOMAIN diff(H) = D /\ DOMAIN diff(G) = D
    BY <1>1
  <2> HIDE DEF diff, D
  <2> QED  BY <1>1, <2>1, <2>2, TotalIsMonotone
<1>4. failed(H) = failed(G)
  BY <1>1 DEF Weaker
<1>5. positive(H) \subseteq positive(G) /\ positive(G) \subseteq D
  BY <1>1 DEF Weaker, AME!non_negative
<1>6. /\ Cardinality(positive(H)) \in Nat /\ Cardinality(positive(G)) \in Nat
      /\ Cardinality(D) \in Nat /\ Cardinality(positive(H)) <= Cardinality(positive(G))
  <2> HIDE DEF positive, D
  <2> QED  BY <1>1, <1>5, FewerAreCounted
<1>7. ASSUME NEW f
      PROVE  LET s == AME!basic_stats(f)
             IN  /\ s.run_count = Cardinality(DOMAIN f)
                 /\ s.total_failed_games = Total(failed(f))
                 /\ s.non_negative_run_count = Cardinality(positive(f))
                 /\ s.rates = Total(rate(f)) /\ s.diffs = Total(diff(f))
  BY ArenaCardinality, ArenaTotal DEF AME!basic_stats
<1> HIDE DEF rate, diff, failed, positive
<1> QED  BY <1>1, <1>2, <1>3, <1>4, <1>6, <1>7

LEMMA WeakerMeans ==
    ASSUME NEW H, NEW G, WeakerGroup(H, G)
    PROVE  /\ AME!group_mean_non_negative(H) => AME!group_mean_non_negative(G)
           /\ AME!group_non_negative_most(H, 1, 2) => AME!group_non_negative_most(G, 1, 2)
           /\ AME!group_non_negative_most(H, 4, 5) => AME!group_non_negative_most(G, 4, 5)
<1> DEFINE h == AME!basic_stats(H)
           g == AME!basic_stats(G)
<1>1. /\ h.run_count = g.run_count /\ g.run_count \in Nat
      /\ h.non_negative_run_count \in Nat /\ g.non_negative_run_count \in Nat
      /\ h.non_negative_run_count <= g.non_negative_run_count
      /\ h.rates \in Int /\ g.rates \in Int /\ h.rates <= g.rates
      /\ h.diffs \in Int /\ g.diffs \in Int /\ h.diffs <= g.diffs
  BY WeakerStats
<1>2. AME!Ceiling(g.run_count * 1, 2) \in Int /\ AME!Ceiling(g.run_count * 4, 5) \in Int
  <2> HIDE DEF g
  <2> QED  BY <1>1 DEF AME!Ceiling
<1>3. AME!group_mean_non_negative(H) => AME!group_mean_non_negative(G)
  <2>1. AME!group_mean_non_negative(H) <=>
          h.run_count > 0 /\ h.rates >= 2 * h.run_count /\ h.diffs >= 0
    BY DEF AME!group_mean_non_negative, AME!mean_at_least_half, AME!mean_diff_non_negative
  <2>2. AME!group_mean_non_negative(G) <=>
          g.run_count > 0 /\ g.rates >= 2 * g.run_count /\ g.diffs >= 0
    BY DEF AME!group_mean_non_negative, AME!mean_at_least_half, AME!mean_diff_non_negative
  <2> HIDE DEF g, h
  <2> QED  BY <1>1, <2>1, <2>2
<1>4. AME!group_non_negative_most(H, 1, 2) => AME!group_non_negative_most(G, 1, 2)
  <2>1. AME!group_non_negative_most(H, 1, 2) <=>
          h.run_count > 0 /\ h.non_negative_run_count >= AME!Ceiling(h.run_count * 1, 2)
    BY DEF AME!group_non_negative_most
  <2>2. AME!group_non_negative_most(G, 1, 2) <=>
          g.run_count > 0 /\ g.non_negative_run_count >= AME!Ceiling(g.run_count * 1, 2)
    BY DEF AME!group_non_negative_most
  <2> HIDE DEF g, h
  <2> QED  BY <1>1, <1>2, <2>1, <2>2
<1>5. AME!group_non_negative_most(H, 4, 5) => AME!group_non_negative_most(G, 4, 5)
  <2>1. AME!group_non_negative_most(H, 4, 5) <=>
          h.run_count > 0 /\ h.non_negative_run_count >= AME!Ceiling(h.run_count * 4, 5)
    BY DEF AME!group_non_negative_most
  <2>2. AME!group_non_negative_most(G, 4, 5) <=>
          g.run_count > 0 /\ g.non_negative_run_count >= AME!Ceiling(g.run_count * 4, 5)
    BY DEF AME!group_non_negative_most
  <2> HIDE DEF g, h
  <2> QED  BY <1>1, <1>2, <2>1, <2>2
<1> QED  BY <1>3, <1>4, <1>5

\* What is negative at the deepest depth is so in the weaker group.
LEMMA WeakerDeepest ==
    ASSUME NEW H, NEW G, WeakerGroup(H, G), AME!deepest_depth_negative(G)
    PROVE  AME!deepest_depth_negative(H)
<1> DEFINE D == DOMAIN G
           depth == AME!Max({k[2] : k \in D})
           S == {j \in D : j[2] = depth}
           Hd == [k \in S |-> H[k]]
           Gd == [k \in S |-> G[k]]
           h == AME!basic_stats(Hd)
           g == AME!basic_stats(Gd)
<1>1. DOMAIN H = D /\ IsFiniteSet(D) /\ \A k \in D : Weaker(H[k], G[k])
  BY DEF WeakerGroup
<1>2. /\ AME!deepest_depth_negative(G) <=>
           D # {} /\ g.non_negative_run_count = 0 /\ ~AME!mean_at_least_half(g)
      /\ AME!deepest_depth_negative(H) <=>
           D # {} /\ h.non_negative_run_count = 0 /\ ~AME!mean_at_least_half(h)
  BY <1>1 DEF AME!deepest_depth_negative, AME!depth_breakdown
<1> HIDE DEF depth
<1>3. WeakerGroup(Hd, Gd)
  <2>1. S \subseteq D
    OBVIOUS
  <2>2. IsFiniteSet(S)
    <3> HIDE DEF S, D
    <3> QED  BY <1>1, <2>1, FS_Subset
  <2>3. DOMAIN Hd = S /\ DOMAIN Gd = S /\ \A k \in S : Hd[k] = H[k] /\ Gd[k] = G[k]
    OBVIOUS
  <2>4. \A k \in S : Weaker(Hd[k], Gd[k])
    BY <1>1, <2>3
  <2>5. Hd = <<>> <=> Gd = <<>>
    <3>1. CASE S = {}
      <4>1. Hd = Gd
        BY <3>1
      <4> QED  BY <4>1
    <3>2. CASE S # {}
      <4>1. DOMAIN Hd # DOMAIN <<>> /\ DOMAIN Gd # DOMAIN <<>>
        BY <2>3, <3>2
      <4> QED  BY <4>1
    <3> QED  BY <3>1, <3>2
  <2> QED  BY <2>2, <2>3, <2>4, <2>5 DEF WeakerGroup
<1>4. /\ h.run_count = g.run_count /\ g.run_count \in Nat
      /\ h.non_negative_run_count \in Nat /\ g.non_negative_run_count \in Nat
      /\ h.non_negative_run_count <= g.non_negative_run_count
      /\ h.rates \in Int /\ g.rates \in Int /\ h.rates <= g.rates
  <2> HIDE DEF Hd, Gd
  <2> QED  BY <1>3, WeakerStats
<1> HIDE DEF h, g, D
<1> QED  BY <1>2, <1>4 DEF AME!mean_at_least_half

\* What the harness has to show to pass.
ByComparison(found) == AME!summarize_by_comparison(found)
FoundGroup(found, words) == AME!find_group(ByComparison(found), words)
MoveExact(found) == FoundGroup(found, {"move", "exact"})
MoveV1(found) == FoundGroup(found, {"move", "v1"})
ExactV1(found) == FoundGroup(found, {"exact", "v1"})
GamesAreWhole(found) ==
    \A i \in DOMAIN ByComparison(found) :
        AME!basic_stats(ByComparison(found)[i].group).total_failed_games = 0

LEMMA HarnessPasses ==
    ASSUME NEW found
    PROVE  AME!build_report(found).decision = "local_harness_passed" <=>
             /\ GamesAreWhole(found)
             /\ AME!same_artifact_sanity_summary(ByComparison(found)).passed
             /\ AME!swap_sanity(found).passed
             /\ MoveExact(found) # <<>> /\ MoveV1(found) # <<>> /\ ExactV1(found) # <<>>
             /\ AME!group_non_negative_most(MoveExact(found), 1, 2)
             /\ AME!group_non_negative_most(MoveExact(found), 4, 5)
             /\ ~AME!deepest_depth_negative(MoveExact(found))
             /\ AME!group_mean_non_negative(MoveExact(found))
             /\ AME!group_mean_non_negative(MoveV1(found))
             /\ AME!group_mean_non_negative(ExactV1(found))
             /\ \E k \in DOMAIN MoveExact(found) : k[2] = 7
<1>1. AME!build_report(found).decision = AME!overall_local_assessment(found)
  BY DEF AME!build_report
<1> DEFINE fatal ==
              \/ \E i \in DOMAIN ByComparison(found) :
                    AME!basic_stats(ByComparison(found)[i].group).total_failed_games # 0
              \/ /\ AME!same_artifact_sanity_summary(ByComparison(found)).run
                 /\ ~AME!same_artifact_sanity_summary(ByComparison(found)).passed
              \/ AME!swap_sanity(found).run /\ ~AME!swap_sanity(found).passed
              \/ MoveExact(found) # <<>> /\ ~AME!group_non_negative_most(MoveExact(found), 1, 2)
              \/ MoveV1(found) # <<>> /\ ~AME!group_mean_non_negative(MoveV1(found))
              \/ AME!deepest_depth_negative(MoveExact(found))
           good ==
              /\ AME!same_artifact_sanity_summary(ByComparison(found)).passed
              /\ AME!swap_sanity(found).passed
              /\ MoveExact(found) # <<>> /\ MoveV1(found) # <<>> /\ ExactV1(found) # <<>>
              /\ AME!group_non_negative_most(MoveExact(found), 4, 5)
              /\ AME!group_mean_non_negative(MoveExact(found))
              /\ AME!group_mean_non_negative(MoveV1(found))
              /\ AME!group_mean_non_negative(ExactV1(found))
              /\ \E k \in DOMAIN MoveExact(found) : k[2] = 7
<1>2. AME!overall_local_assessment(found) =
        CASE fatal -> "local_harness_failed"
          [] ~fatal /\ good -> "local_harness_passed"
          [] OTHER -> "local_harness_needs_more_runs"
  BY DEF AME!overall_local_assessment, ByComparison, FoundGroup, MoveExact, MoveV1, ExactV1
<1>3. AME!overall_local_assessment(found) = "local_harness_passed" <=> ~fatal /\ good
  <2> HIDE DEF fatal, good
  <2> QED  BY <1>2
<1> QED  BY <1>1, <1>3 DEF GamesAreWhole

LEMMA SanityComparisons ==
    /\ DOMAIN AME!sanity_comparisons = 1..5
    /\ \A i \in 1..5 : AME!sanity_comparisons[i].kind = "same_artifact_sanity" =>
           AME!sanity_comparisons[i].comparison = "same_artifact_sanity__move"
<1> DEFINE sanity ==
              <<[comparison |-> "same_artifact_sanity__move", words |-> {"move"},
                 kind |-> "same_artifact_sanity", swap_of |-> ""],
                [comparison |-> "swap_sanity__move_vs_exact",
                 words |-> {"swap", "move", "exact"},
                 kind |-> "swap_sanity", swap_of |-> "move_vs_exact"]>>
           base == AME!base_comparisons
           Any == {base[1], base[2], base[3], sanity[1], sanity[2]}
<1>1. /\ base[1].kind = "comparison" /\ base[2].kind = "comparison"
      /\ base[3].kind = "comparison" /\ Len(base) = 3 /\ base = <<base[1], base[2], base[3]>>
  BY DEF AME!base_comparisons
<1>2. /\ sanity[1].comparison = "same_artifact_sanity__move"
      /\ sanity[2].kind = "swap_sanity" /\ Len(sanity) = 2
      /\ sanity = <<sanity[1], sanity[2]>>
  OBVIOUS
<1>3. AME!sanity_comparisons = base \o sanity
  BY DEF AME!sanity_comparisons
<1> HIDE DEF base, sanity
<1>4. base \in Seq(Any) /\ sanity \in Seq(Any)
  <2>1. <<base[1], base[2], base[3]>> \in Seq(Any) /\ <<sanity[1], sanity[2]>> \in Seq(Any)
    OBVIOUS
  <2> HIDE DEF Any
  <2> QED  BY <1>1, <1>2, <2>1
<1> HIDE DEF Any
<1>5. /\ DOMAIN (base \o sanity) = 1..5
      /\ (base \o sanity)[1] = base[1] /\ (base \o sanity)[2] = base[2]
      /\ (base \o sanity)[3] = base[3] /\ (base \o sanity)[4] = sanity[1]
      /\ (base \o sanity)[5] = sanity[2]
  <2>1. Len(base) = 3 /\ Len(sanity) = 2
    BY <1>1, <1>2
  <2>2. /\ Len(base \o sanity) = Len(base) + Len(sanity)
        /\ base \o sanity \in Seq(Any)
    BY <1>4
  <2>3. DOMAIN (base \o sanity) = 1..5
    BY <2>1, <2>2
  <2>4. \A i \in 1..Len(base) : (base \o sanity)[i] = base[i]
    BY <1>4
  <2>5. \A i \in 1..Len(sanity) : (base \o sanity)[i + Len(base)] = sanity[i]
    BY <1>4
  <2>6. (base \o sanity)[4] = sanity[1] /\ (base \o sanity)[5] = sanity[2]
    <3>1. /\ 1 + Len(base) = 4 /\ 2 + Len(base) = 5
          /\ 1 \in 1..Len(sanity) /\ 2 \in 1..Len(sanity)
      BY <2>1
    <3>2. /\ (base \o sanity)[1 + Len(base)] = sanity[1]
          /\ (base \o sanity)[2 + Len(base)] = sanity[2]
      BY <2>5, <3>1, Zenon
    <3> QED  BY <3>1, <3>2, Zenon
  <2> QED  BY <2>1, <2>3, <2>4, <2>6
<1> QED  BY <1>1, <1>2, <1>3, <1>5

LEMMA GroupsGetWeaker ==
    ASSUME NEW found, IsFiniteSet(DOMAIN found),
           \A m \in DOMAIN found : found[m] \in {None, Failed} \cup MatrixReports,
           NEW worse, DOMAIN worse = DOMAIN found,
           \A m \in DOMAIN found : IsKnown(worse[m]) <=> IsKnown(found[m]),
           \A m \in DOMAIN found : IsKnown(found[m]) => Weaker(worse[m], found[m]),
           NEW c
    PROVE  WeakerGroup(AME!group_of(worse, c), AME!group_of(found, c))
<1> DEFINE D == {j \in DOMAIN found : IsKnown(found[j]) /\ j[1] = c}
<1>1. /\ AME!group_of(found, c) = [k \in D |-> found[k]]
      /\ AME!group_of(worse, c) = [k \in D |-> worse[k]]
  <2>1. /\ D = {j \in AME!completed_results(found) : j[1] = c}
        /\ D = {j \in AME!completed_results(worse) : j[1] = c}
    BY DEF AME!completed_results, AME!IsKnown, IsKnown
  <2> HIDE DEF D
  <2> QED  BY <2>1 DEF AME!group_of
<1>2. IsFiniteSet(D)
  <2>1. D \subseteq DOMAIN found
    OBVIOUS
  <2> HIDE DEF D
  <2> QED  BY <2>1, FS_Subset
<1>3. \A k \in D : Weaker(worse[k], found[k])
  OBVIOUS
<1> DEFINE H == [k \in D |-> worse[k]]
           G == [k \in D |-> found[k]]
<1>4. H = <<>> <=> G = <<>>
  <2>1. CASE D = {}
    <3>1. H = G
      BY <2>1
    <3> QED  BY <3>1
  <2>2. CASE D # {}
    <3>1. DOMAIN H # DOMAIN <<>> /\ DOMAIN G # DOMAIN <<>>
      BY <2>2
    <3> QED  BY <3>1
  <2> QED  BY <2>1, <2>2
<1>5. WeakerGroup(H, G)
  <2> HIDE DEF D
  <2> QED  BY <1>2, <1>3, <1>4 DEF WeakerGroup
<1> QED  BY <1>1, <1>5

LEMMA FoundGroupsGetWeaker ==
    ASSUME NEW found, NEW worse, NEW words,
           DOMAIN ByComparison(worse) = DOMAIN ByComparison(found),
           \A i \in DOMAIN ByComparison(found) :
               /\ ByComparison(worse)[i].about = ByComparison(found)[i].about
               /\ WeakerGroup(ByComparison(worse)[i].group, ByComparison(found)[i].group),
           DOMAIN ByComparison(found) \subseteq 1..5
    PROVE  WeakerGroup(FoundGroup(worse, words), FoundGroup(found, words))
<1> DEFINE I == {i \in DOMAIN ByComparison(found) :
                    words \subseteq ByComparison(found)[i].about.words}
<1>1. /\ FoundGroup(found, words) =
            IF I = {} THEN <<>> ELSE ByComparison(found)[AME!Min(I)].group
      /\ FoundGroup(worse, words) =
            IF I = {} THEN <<>> ELSE ByComparison(worse)[AME!Min(I)].group
  <2>1. I = {i \in DOMAIN ByComparison(worse) :
                words \subseteq ByComparison(worse)[i].about.words}
    OBVIOUS
  <2> HIDE DEF I
  <2>2. I = {i \in DOMAIN ByComparison(found) :
                words \subseteq ByComparison(found)[i].about.words}
    BY DEF I
  <2> QED  BY <2>1, <2>2 DEF FoundGroup, AME!find_group
<1>2. CASE I = {}
  <2>1. IsFiniteSet(DOMAIN <<>>)
    <3>1. DOMAIN <<>> = {}
      OBVIOUS
    <3> QED  BY <3>1, FS_EmptySet
  <2>2. WeakerGroup(<<>>, <<>>)
    BY <2>1 DEF WeakerGroup
  <2> QED  BY <1>1, <1>2, <2>2
<1>3. CASE I # {}
  <2>1. AME!Min(I) \in I
    <3>1. I \in SUBSET Nat /\ I # {}
      BY <1>3
    <3> HIDE DEF I
    <3>2. PICK n \in I : \A m \in I : n <= m
      BY <3>1, LeastNumber
    <3> QED  BY <3>2 DEF AME!Min
  <2>2. AME!Min(I) \in DOMAIN ByComparison(found)
    BY <2>1
  <2> HIDE DEF I
  <2> QED  BY <1>1, <1>3, <2>2
<1> QED  BY <1>2, <1>3

LEMMA WorseMatrixIsWeaker ==
    ASSUME NEW n, NEW r \in MatrixReports, NEW w \in WorseMatrix(n, r)
    PROVE  /\ Weaker(w, r) /\ w \in MatrixReports
           /\ n[1] \in {"move_vs_v1", "exact_vs_v1"}
<1>1. /\ r.rate \in Int /\ r.diff \in Int /\ r.failed \in Nat
      /\ r = [rate |-> r.rate, diff |-> r.diff, failed |-> r.failed]
  BY DEF MatrixReports
<1>2. n[1] \in {"move_vs_v1", "exact_vs_v1"}
  BY DEF WorseMatrix
<1>3. w \in {[r EXCEPT !.rate = @ - 1], [r EXCEPT !.diff = @ - 1]}
  BY <1>2 DEF WorseMatrix
<1>4. CASE w = [r EXCEPT !.rate = @ - 1]
  <2>1. w = [rate |-> r.rate - 1, diff |-> r.diff, failed |-> r.failed]
    BY <1>1, <1>4
  <2> QED  BY <1>1, <1>2, <2>1 DEF MatrixReports, Weaker
<1>5. CASE w = [r EXCEPT !.diff = @ - 1]
  <2>1. w = [rate |-> r.rate, diff |-> r.diff - 1, failed |-> r.failed]
    BY <1>1, <1>5
  <2> QED  BY <1>1, <1>2, <2>1 DEF MatrixReports, Weaker
<1> QED  BY <1>3, <1>4, <1>5

LEMMA ArenaIsMonotone ==
    ASSUME NEW found, IsFiniteSet(DOMAIN found),
           \A m \in DOMAIN found : found[m] \in {None, Failed} \cup MatrixReports,
           NEW n \in DOMAIN found, found[n] \in MatrixReports,
           NEW r \in WorseMatrix(n, found[n]),
           AME!build_report([found EXCEPT ![n] = r]).decision = "local_harness_passed"
    PROVE  AME!build_report(found).decision = "local_harness_passed"
<1> DEFINE worse == [found EXCEPT ![n] = r]
<1>1. /\ DOMAIN worse = DOMAIN found /\ worse[n] = r
      /\ \A m \in DOMAIN found : m # n => worse[m] = found[m]
  OBVIOUS
<1>2. /\ Weaker(r, found[n]) /\ r \in MatrixReports
      /\ n[1] \in {"move_vs_v1", "exact_vs_v1"}
  BY WorseMatrixIsWeaker
<1>3. AME!build_report(worse).decision = "local_harness_passed"
  OBVIOUS
<1> HIDE DEF worse
<1>4. \A q \in MatrixReports : IsKnown(q) /\ Weaker(q, q)
  BY ConstantsAssumption DEF IsKnown, Weaker, MatrixReports
<1>5. \A m \in DOMAIN found : IsKnown(worse[m]) <=> IsKnown(found[m])
  BY <1>1, <1>2, <1>4
<1>6. \A m \in DOMAIN found : IsKnown(found[m]) => Weaker(worse[m], found[m])
  <2> SUFFICES ASSUME NEW m \in DOMAIN found, IsKnown(found[m])
               PROVE  Weaker(worse[m], found[m])
    OBVIOUS
  <2>1. found[m] \in MatrixReports
    BY DEF IsKnown
  <2>2. CASE m = n
    BY <1>1, <1>2, <2>2
  <2>3. CASE m # n
    BY <1>1, <1>4, <2>1, <2>3
  <2> QED  BY <2>2, <2>3
<1>7. \A c : WeakerGroup(AME!group_of(worse, c), AME!group_of(found, c))
  BY <1>1, <1>5, <1>6, GroupsGetWeaker
<1>8. \A c : DOMAIN AME!group_of(worse, c) = DOMAIN AME!group_of(found, c)
  BY <1>7 DEF WeakerGroup
<1> DEFINE by == ByComparison(found)
           wby == ByComparison(worse)
           name(i) == AME!sanity_comparisons[i].comparison
<1>9. /\ DOMAIN wby = DOMAIN by /\ DOMAIN by \subseteq 1..5
      /\ \A i \in DOMAIN by : /\ by[i].about = AME!sanity_comparisons[i]
                              /\ wby[i].about = AME!sanity_comparisons[i]
                              /\ by[i].group = AME!group_of(found, name(i))
                              /\ wby[i].group = AME!group_of(worse, name(i))
  BY <1>8, SanityComparisons DEF ByComparison, AME!summarize_by_comparison
<1>10. \A i \in DOMAIN by : /\ wby[i].about = by[i].about
                            /\ WeakerGroup(wby[i].group, by[i].group)
  BY <1>7, <1>9
<1>11. \A words : WeakerGroup(FoundGroup(worse, words), FoundGroup(found, words))
  <2> HIDE DEF by, wby
  <2> QED  BY <1>9, <1>10, FoundGroupsGetWeaker DEF by, wby
<1>12. /\ WeakerGroup(MoveExact(worse), MoveExact(found))
       /\ WeakerGroup(MoveV1(worse), MoveV1(found))
       /\ WeakerGroup(ExactV1(worse), ExactV1(found))
  BY <1>11 DEF MoveExact, MoveV1, ExactV1
<1>13. /\ GamesAreWhole(worse)
       /\ AME!same_artifact_sanity_summary(wby).passed
       /\ AME!swap_sanity(worse).passed
       /\ MoveExact(worse) # <<>> /\ MoveV1(worse) # <<>> /\ ExactV1(worse) # <<>>
       /\ AME!group_non_negative_most(MoveExact(worse), 1, 2)
       /\ AME!group_non_negative_most(MoveExact(worse), 4, 5)
       /\ ~AME!deepest_depth_negative(MoveExact(worse))
       /\ AME!group_mean_non_negative(MoveExact(worse))
       /\ AME!group_mean_non_negative(MoveV1(worse))
       /\ AME!group_mean_non_negative(ExactV1(worse))
       /\ \E k \in DOMAIN MoveExact(worse) : k[2] = 7
  BY <1>3, HarnessPasses
<1> HIDE DEF by, wby
<1>14. GamesAreWhole(found)
  <2> SUFFICES ASSUME NEW i \in DOMAIN by
               PROVE  AME!basic_stats(by[i].group).total_failed_games = 0
    BY DEF GamesAreWhole, by
  <2>1. AME!basic_stats(wby[i].group).total_failed_games = 0
    BY <1>9, <1>13 DEF GamesAreWhole, wby
  <2> QED  BY <1>10, <2>1, WeakerStats
<1>15. AME!same_artifact_sanity_summary(by).passed
  <2> DEFINE checks == {i \in DOMAIN by : by[i].about.kind = "same_artifact_sanity"}
  <2>1. checks = {i \in DOMAIN wby : wby[i].about.kind = "same_artifact_sanity"}
    BY <1>9
  <2>2. checks # {} /\ \A i \in checks : AME!same_artifact_passes(wby[i].group)
    <3> HIDE DEF checks
    <3> QED  BY <1>13, <2>1 DEF AME!same_artifact_sanity_summary
  <2>3. ASSUME NEW i \in checks PROVE wby[i].group = by[i].group
    <3>1. name(i) = "same_artifact_sanity__move"
      BY <1>9, SanityComparisons
    <3>2. name(i) # n[1]
      BY <1>2, <3>1
    <3>3. AME!group_of(worse, name(i)) = AME!group_of(found, name(i))
      <4> DEFINE D == {j \in AME!completed_results(found) : j[1] = name(i)}
      <4>1. AME!completed_results(worse) = AME!completed_results(found)
        BY <1>1, <1>5 DEF AME!completed_results, AME!IsKnown, IsKnown
      <4>2. \A j \in D : worse[j] = found[j]
        BY <1>1, <3>2 DEF AME!completed_results
      <4>3. /\ AME!group_of(worse, name(i)) = [k \in D |-> worse[k]]
            /\ AME!group_of(found, name(i)) = [k \in D |-> found[k]]
        BY <4>1 DEF AME!group_of
      <4> HIDE DEF D
      <4> QED  BY <4>2, <4>3
    <3> QED  BY <1>9, <3>3
  <2>4. checks # {} /\ \A i \in checks : AME!same_artifact_passes(by[i].group)
    BY <2>2, <2>3
  <2> QED  BY <2>4 DEF AME!same_artifact_sanity_summary
<1>16. AME!swap_sanity(found).passed
  <2> DEFINE checks == {k \in AME!completed_results(found) :
                           k[1] = "swap_sanity__move_vs_exact"}
             forward(k) == <<"move_vs_exact", k[2]>>
  <2>1. AME!completed_results(worse) = AME!completed_results(found)
    BY <1>1, <1>5 DEF AME!completed_results, AME!IsKnown, IsKnown
  <2>2. /\ checks # {}
        /\ \A k \in checks : /\ forward(k) \in AME!completed_results(found)
                             /\ AME!swap_mirrors(worse[k], worse[forward(k)])
    BY <1>13, <2>1 DEF AME!swap_sanity
  <2>3. ASSUME NEW k \in checks
        PROVE  worse[k] = found[k] /\ worse[forward(k)] = found[forward(k)]
    <3>1. k # n /\ forward(k) # n
      BY <1>2
    <3>2. k \in DOMAIN found /\ forward(k) \in DOMAIN found
      BY <2>2 DEF AME!completed_results
    <3> QED  BY <1>1, <3>1, <3>2
  <2>4. \A k \in checks : AME!swap_mirrors(found[k], found[forward(k)])
    BY <2>2, <2>3
  <2> QED  BY <2>2, <2>4 DEF AME!swap_sanity
<1>17. MoveExact(found) # <<>> /\ MoveV1(found) # <<>> /\ ExactV1(found) # <<>>
  BY <1>12, <1>13 DEF WeakerGroup
<1>18. /\ AME!group_non_negative_most(MoveExact(found), 1, 2)
       /\ AME!group_non_negative_most(MoveExact(found), 4, 5)
       /\ AME!group_mean_non_negative(MoveExact(found))
       /\ AME!group_mean_non_negative(MoveV1(found))
       /\ AME!group_mean_non_negative(ExactV1(found))
  BY <1>12, <1>13, WeakerMeans
<1>19. ~AME!deepest_depth_negative(MoveExact(found))
  BY <1>12, <1>13, WeakerDeepest
<1>20. \E k \in DOMAIN MoveExact(found) : k[2] = 7
  BY <1>12, <1>13 DEF WeakerGroup
<1> QED
  BY <1>14, <1>15, <1>16, <1>17, <1>18, <1>19, <1>20, HarnessPasses DEF by

-----------------------------------------------------------------------------
\* A ProbCut campaign with one report replaced by a worse one.
TelemetryIsInt(t) ==
    /\ t.later_attempts \in Int /\ t.later_successes \in Int /\ t.shadow_candidates \in Int
    /\ t.shadow_verifications \in Int /\ t.shadow_false_cuts \in Int
    /\ t.depth \in Int /\ t.speed \in Int
WeakerTelemetry(w, t) ==
    /\ TelemetryIsInt(w) /\ TelemetryIsInt(t)
    /\ w.later_attempts <= t.later_attempts /\ w.depth <= t.depth
    /\ w.shadow_false_cuts >= t.shadow_false_cuts
    /\ w.later_successes = t.later_successes /\ w.speed = t.speed
    /\ w.shadow_candidates = t.shadow_candidates
    /\ w.shadow_verifications = t.shadow_verifications
WeakerSummary(w, s) ==
    /\ w.score_rate \in Int /\ s.score_rate \in Int /\ w.score_rate <= s.score_rate
    /\ w.lower \in Int /\ s.lower \in Int /\ w.lower <= s.lower
    /\ w.pairs = s.pairs /\ w.control = s.control /\ TelemetryIsInt(s.control)
    /\ WeakerTelemetry(w.tested, s.tested)

LEMMA ReportsAreSummed ==
    ASSUME NEW r \in ProbcutReports
    PROVE  /\ r.point \in Int /\ r.lower \in Int /\ r.upper \in Int
           /\ TelemetryIsInt(r.candidate) /\ TelemetryIsInt(r.baseline)
           /\ r.candidate \in TelemetryReports /\ r.baseline \in TelemetryReports
           /\ r = [modes |-> r.modes, bad |-> r.bad, eligible |-> r.eligible,
                   point |-> r.point, lower |-> r.lower, upper |-> r.upper,
                   pairs |-> r.pairs, neutral |-> r.neutral, candidate |-> r.candidate,
                   baseline |-> r.baseline]
<1>1. r.candidate \in TelemetryReports /\ r.baseline \in TelemetryReports
  BY DEF ProbcutReports
<1>2. \A t \in TelemetryReports : TelemetryIsInt(t)
  BY DEF TelemetryReports, TelemetryIsInt
<1> QED  BY <1>1, <1>2 DEF ProbcutReports

LEMMA SameTelemetryIsWeaker ==
    ASSUME NEW t, TelemetryIsInt(t)
    PROVE  WeakerTelemetry(t, t)
BY DEF TelemetryIsInt, WeakerTelemetry

Shallower(t) == [t EXCEPT !.depth = @ - 2]
Inactive(t) == [t EXCEPT !.later_attempts = 0]
WithFalseCuts(t) == [t EXCEPT !.shadow_false_cuts = @ + 3]

LEMMA WorseTelemetryIsWeaker ==
    ASSUME NEW t \in TelemetryReports
    PROVE  /\ WeakerTelemetry(Shallower(t), t)
           /\ WeakerTelemetry(Inactive(t), t)
           /\ WeakerTelemetry(WithFalseCuts(t), t)
<1>1. /\ t.later_attempts \in Nat /\ t.later_successes \in Nat /\ t.shadow_candidates \in Nat
      /\ t.shadow_verifications \in Nat /\ t.shadow_false_cuts \in Nat
      /\ t.depth \in Int /\ t.speed \in Int
      /\ t = [later_attempts |-> t.later_attempts, later_successes |-> t.later_successes,
              shadow_candidates |-> t.shadow_candidates,
              shadow_verifications |-> t.shadow_verifications,
              shadow_false_cuts |-> t.shadow_false_cuts, depth |-> t.depth,
              speed |-> t.speed]
  BY DEF TelemetryReports
<1>2. Shallower(t)
        = [later_attempts |-> t.later_attempts, later_successes |-> t.later_successes,
           shadow_candidates |-> t.shadow_candidates,
           shadow_verifications |-> t.shadow_verifications,
           shadow_false_cuts |-> t.shadow_false_cuts, depth |-> t.depth - 2,
           speed |-> t.speed]
  BY <1>1 DEF Shallower, Inactive, WithFalseCuts
<1>3. Inactive(t)
        = [later_attempts |-> 0, later_successes |-> t.later_successes,
           shadow_candidates |-> t.shadow_candidates,
           shadow_verifications |-> t.shadow_verifications,
           shadow_false_cuts |-> t.shadow_false_cuts, depth |-> t.depth,
           speed |-> t.speed]
  BY <1>1 DEF Shallower, Inactive, WithFalseCuts
<1>4. WithFalseCuts(t)
        = [later_attempts |-> t.later_attempts, later_successes |-> t.later_successes,
           shadow_candidates |-> t.shadow_candidates,
           shadow_verifications |-> t.shadow_verifications,
           shadow_false_cuts |-> t.shadow_false_cuts + 3, depth |-> t.depth,
           speed |-> t.speed]
  BY <1>1 DEF Shallower, Inactive, WithFalseCuts
<1> QED  BY <1>1, <1>2, <1>3, <1>4 DEF WeakerTelemetry, TelemetryIsInt

LEMMA SameSummaryIsWeaker ==
    ASSUME NEW c, NEW r \in ProbcutReports
    PROVE  WeakerSummary(PCE!stage_summary(r, c), PCE!stage_summary(r, c))
<1> DEFINE s == PCE!stage_summary(r, c)
<1>1. /\ r.point \in Int /\ r.lower \in Int /\ r.upper \in Int
      /\ TelemetryIsInt(r.candidate) /\ TelemetryIsInt(r.baseline)
  BY ReportsAreSummed
<1>2. CASE c \in PCE!reversed
  <2>1. /\ s.score_rate = 100 - r.point /\ s.lower = 100 - r.upper
        /\ s.tested = r.baseline /\ s.control = r.candidate
    BY <1>2 DEF PCE!stage_summary
  <2> HIDE DEF s
  <2>2. WeakerSummary(s, s)
    BY <1>1, <2>1, SameTelemetryIsWeaker DEF WeakerSummary
  <2> QED  BY <2>2 DEF s
<1>3. CASE c \notin PCE!reversed
  <2>1. /\ s.score_rate = r.point /\ s.lower = r.lower
        /\ s.tested = r.candidate /\ s.control = r.baseline
    BY <1>3 DEF PCE!stage_summary
  <2> HIDE DEF s
  <2>2. WeakerSummary(s, s)
    BY <1>1, <2>1, SameTelemetryIsWeaker DEF WeakerSummary
  <2> QED  BY <2>2 DEF s
<1> QED  BY <1>2, <1>3

LEMMA WorseReportsAreWeaker ==
    ASSUME NEW n, NEW r \in ProbcutReports, NEW w \in WorseProbcut(n, r)
    PROVE  /\ WeakerSummary(PCE!stage_summary(w, n[2]), PCE!stage_summary(r, n[2]))
           /\ n[2] # "same_config_off"
<1> DEFINE c == n[2]
           s == PCE!stage_summary(r, c)
           v == PCE!stage_summary(w, c)
<1>1. /\ r.point \in Int /\ r.lower \in Int /\ r.upper \in Int
      /\ TelemetryIsInt(r.candidate) /\ TelemetryIsInt(r.baseline)
      /\ r.candidate \in TelemetryReports /\ r.baseline \in TelemetryReports
      /\ r = [modes |-> r.modes, bad |-> r.bad, eligible |-> r.eligible,
              point |-> r.point, lower |-> r.lower, upper |-> r.upper,
              pairs |-> r.pairs, neutral |-> r.neutral, candidate |-> r.candidate,
              baseline |-> r.baseline]
  BY ReportsAreSummed
<1>2. "same_config_off" \notin PCE!reversed
  BY DEF PCE!reversed
<1>3. CASE c \in PCE!reversed
  <2>1. /\ s.score_rate = 100 - r.point /\ s.lower = 100 - r.upper /\ s.pairs = r.pairs
        /\ s.tested = r.baseline /\ s.control = r.candidate
        /\ v.score_rate = 100 - w.point /\ v.lower = 100 - w.upper /\ v.pairs = w.pairs
        /\ v.tested = w.baseline /\ v.control = w.candidate
    BY <1>3 DEF PCE!stage_summary
  <2>2. /\ w.point \in Int /\ w.upper \in Int /\ w.point >= r.point /\ w.upper >= r.upper
        /\ w.pairs = r.pairs /\ w.candidate = r.candidate
        /\ WeakerTelemetry(w.baseline, r.baseline)
    <3>1. CASE w = [r EXCEPT !.point = @ + 2, !.lower = @ + 2, !.upper = @ + 2]
      <4>1. w = [modes |-> r.modes, bad |-> r.bad, eligible |-> r.eligible,
                 point |-> r.point + 2, lower |-> r.lower + 2, upper |-> r.upper + 2,
                 pairs |-> r.pairs, neutral |-> r.neutral, candidate |-> r.candidate,
                 baseline |-> r.baseline]
        BY <1>1, <3>1 DEF Shallower, Inactive, WithFalseCuts
      <4> QED  BY <1>1, <4>1, SameTelemetryIsWeaker
    <3>2. CASE w = [r EXCEPT !.baseline.depth = @ - 2]
      <4>1. w = [modes |-> r.modes, bad |-> r.bad, eligible |-> r.eligible,
                 point |-> r.point, lower |-> r.lower, upper |-> r.upper,
                 pairs |-> r.pairs, neutral |-> r.neutral, candidate |-> r.candidate,
                 baseline |-> Shallower(r.baseline)]
        BY <1>1, <3>2 DEF Shallower, Inactive, WithFalseCuts
      <4> QED  BY <1>1, <4>1, WorseTelemetryIsWeaker
    <3>3. CASE w = [r EXCEPT !.baseline.later_attempts = 0]
      <4>1. w = [modes |-> r.modes, bad |-> r.bad, eligible |-> r.eligible,
                 point |-> r.point, lower |-> r.lower, upper |-> r.upper,
                 pairs |-> r.pairs, neutral |-> r.neutral, candidate |-> r.candidate,
                 baseline |-> Inactive(r.baseline)]
        BY <1>1, <3>3 DEF Shallower, Inactive, WithFalseCuts
      <4> QED  BY <1>1, <4>1, WorseTelemetryIsWeaker
    <3> QED  BY <1>3, <3>1, <3>2, <3>3 DEF WorseProbcut
  <2> HIDE DEF s, v
  <2>3. WeakerSummary(v, s)
    BY <1>1, <2>1, <2>2 DEF WeakerSummary
  <2> QED  BY <1>2, <1>3, <2>3 DEF s, v
<1>4. CASE c \notin PCE!reversed
  <2>1. /\ s.score_rate = r.point /\ s.lower = r.lower /\ s.pairs = r.pairs
        /\ s.tested = r.candidate /\ s.control = r.baseline
        /\ v.score_rate = w.point /\ v.lower = w.lower /\ v.pairs = w.pairs
        /\ v.tested = w.candidate /\ v.control = w.baseline
    BY <1>4 DEF PCE!stage_summary
  <2>2. c # "same_config_off"
    BY <1>4 DEF WorseProbcut
  <2>3. /\ w.point \in Int /\ w.lower \in Int /\ w.point <= r.point /\ w.lower <= r.lower
        /\ w.pairs = r.pairs /\ w.baseline = r.baseline
        /\ WeakerTelemetry(w.candidate, r.candidate)
    <3>1. CASE w = [r EXCEPT !.point = @ - 2, !.lower = @ - 2, !.upper = @ - 2]
      <4>1. w = [modes |-> r.modes, bad |-> r.bad, eligible |-> r.eligible,
                 point |-> r.point - 2, lower |-> r.lower - 2, upper |-> r.upper - 2,
                 pairs |-> r.pairs, neutral |-> r.neutral, candidate |-> r.candidate,
                 baseline |-> r.baseline]
        BY <1>1, <3>1 DEF Shallower, Inactive, WithFalseCuts
      <4> QED  BY <1>1, <4>1, SameTelemetryIsWeaker
    <3>2. CASE w = [r EXCEPT !.candidate.depth = @ - 2]
      <4>1. w = [modes |-> r.modes, bad |-> r.bad, eligible |-> r.eligible,
                 point |-> r.point, lower |-> r.lower, upper |-> r.upper,
                 pairs |-> r.pairs, neutral |-> r.neutral,
                 candidate |-> Shallower(r.candidate),
                 baseline |-> r.baseline]
        BY <1>1, <3>2 DEF Shallower, Inactive, WithFalseCuts
      <4> QED  BY <1>1, <4>1, WorseTelemetryIsWeaker
    <3>3. CASE w = [r EXCEPT !.candidate.shadow_false_cuts = @ + 3]
      <4>1. w = [modes |-> r.modes, bad |-> r.bad, eligible |-> r.eligible,
                 point |-> r.point, lower |-> r.lower, upper |-> r.upper,
                 pairs |-> r.pairs, neutral |-> r.neutral,
                 candidate |-> WithFalseCuts(r.candidate),
                 baseline |-> r.baseline]
        BY <1>1, <3>3 DEF Shallower, Inactive, WithFalseCuts
      <4> QED  BY <1>1, <4>1, WorseTelemetryIsWeaker
    <3> QED  BY <1>4, <2>2, <3>1, <3>2, <3>3 DEF WorseProbcut
  <2> HIDE DEF s, v
  <2>4. WeakerSummary(v, s)
    BY <1>1, <2>1, <2>3 DEF WeakerSummary
  <2> QED  BY <2>2, <2>4 DEF s, v
<1> QED  BY <1>3, <1>4

LEMMA SquareIsMonotone ==
    ASSUME NEW a \in Nat, NEW b \in Nat, a <= b
    PROVE  a * a <= b * b
<1>1. PICK d \in Nat : b = a + d
  <2>1. b - a \in Nat /\ b = a + (b - a)
    OBVIOUS
  <2> QED  BY <2>1
<1>2. b * b = a * a + (a * d + d * a + d * d)
  BY <1>1
<1>3. a * d \in Nat /\ d * a \in Nat /\ d * d \in Nat /\ a * a \in Nat
  OBVIOUS
<1> QED  BY <1>2, <1>3

\* With fewer false cuts the bound on their rate is no worse.
LEMMA FewerFalseCutsAreFine ==
    ASSUME NEW f \in Int, NEW g \in Int, NEW c \in Int, NEW b \in Nat, g <= f,
           PCE!wilson_upper_bound_at_most(f, c, b)
    PROVE  PCE!wilson_upper_bound_at_most(g, c, b)
<1> DEFINE hi == b * c - 100 * g
           lo == b * c - 100 * f
           most == 3842 * b * (100 - b) * c
<1>2. lo \in Int /\ hi \in Int /\ lo <= hi /\ most \in Int
  OBVIOUS
<1>3. PCE!wilson_upper_bound_at_most(f, c, b) <=>
         IF c = 0 THEN b >= 100 ELSE b >= 100 \/ (lo >= 0 /\ 1000 * lo * lo >= most)
  BY DEF PCE!wilson_upper_bound_at_most
<1>4. PCE!wilson_upper_bound_at_most(g, c, b) <=>
         IF c = 0 THEN b >= 100 ELSE b >= 100 \/ (hi >= 0 /\ 1000 * hi * hi >= most)
  BY DEF PCE!wilson_upper_bound_at_most
<1> HIDE DEF lo, hi, most
<1>5. lo >= 0 => hi >= 0 /\ lo * lo <= hi * hi
  BY <1>2, SquareIsMonotone
<1>6. 1000 * lo * lo = 1000 * (lo * lo) /\ 1000 * hi * hi = 1000 * (hi * hi)
  BY <1>2
<1>7. lo * lo \in Int /\ hi * hi \in Int
  BY <1>2
<1>8. lo >= 0 => 1000 * lo * lo <= 1000 * hi * hi
  <2> SUFFICES ASSUME lo >= 0 PROVE 1000 * (lo * lo) <= 1000 * (hi * hi)
    BY <1>6
  <2>1. lo * lo <= hi * hi
    BY <1>5
  <2> DEFINE x == lo * lo
             y == hi * hi
  <2>2. x \in Int /\ y \in Int /\ x <= y
    BY <1>7, <2>1
  <2> HIDE DEF x, y
  <2>3. 1000 * x <= 1000 * y
    BY <2>2
  <2> QED  BY <2>3 DEF x, y
<1> DEFINE u == 1000 * lo * lo
           v == 1000 * hi * hi
<1>9. u \in Int /\ v \in Int /\ (lo >= 0 => u <= v)
  BY <1>2, <1>8
<1>10. (lo >= 0 /\ u >= most) => (hi >= 0 /\ v >= most)
  <2> HIDE DEF u, v
  <2> QED  BY <1>2, <1>5, <1>9
<1> QED  BY <1>3, <1>4, <1>10

\* Summaries of the same stages, one by one weaker, add up to less.
WeakerSummaries(H, G) ==
    /\ DOMAIN H = DOMAIN G /\ IsFiniteSet(DOMAIN G)
    /\ \A n \in DOMAIN G : WeakerSummary(H[n], G[n])
Totals(stages, field) == PCE!pair_telemetry_total(stages, field)

LEMMA TotalsGetWeaker ==
    ASSUME NEW H, NEW G, WeakerSummaries(H, G)
    PROVE  /\ Totals(H, "later_attempts") \in Int /\ Totals(G, "later_attempts") \in Int
           /\ Totals(H, "later_attempts") <= Totals(G, "later_attempts")
           /\ Totals(H, "shadow_false_cuts") \in Int /\ Totals(G, "shadow_false_cuts") \in Int
           /\ Totals(H, "shadow_false_cuts") >= Totals(G, "shadow_false_cuts")
           /\ Totals(H, "later_successes") = Totals(G, "later_successes")
           /\ Totals(H, "shadow_candidates") = Totals(G, "shadow_candidates")
           /\ Totals(H, "shadow_verifications") = Totals(G, "shadow_verifications")
           /\ Totals(G, "shadow_verifications") \in Int
<1> DEFINE D == DOMAIN G
           col(f, field) == [n \in DOMAIN f |-> f[n].tested[field]]
<1>1. DOMAIN H = D /\ IsFiniteSet(D) /\ \A n \in D : WeakerTelemetry(H[n].tested, G[n].tested)
  BY DEF WeakerSummaries, WeakerSummary
<1>2. \A f, field : Totals(f, field) = Total(col(f, field))
  BY ProbcutTotal DEF Totals, PCE!pair_telemetry_total
<1>3. /\ col(H, "later_successes") = col(G, "later_successes")
      /\ col(H, "shadow_candidates") = col(G, "shadow_candidates")
      /\ col(H, "shadow_verifications") = col(G, "shadow_verifications")
  <2>1. col(H, "later_successes") = col(G, "later_successes")
    BY <1>1 DEF WeakerTelemetry
  <2>2. col(H, "shadow_candidates") = col(G, "shadow_candidates")
    BY <1>1 DEF WeakerTelemetry
  <2>3. col(H, "shadow_verifications") = col(G, "shadow_verifications")
    BY <1>1 DEF WeakerTelemetry
  <2> QED  BY <2>1, <2>2, <2>3
<1>4. \A f, field : DOMAIN col(f, field) = DOMAIN f
  OBVIOUS
<1>5. \A n \in D : /\ col(H, "later_attempts")[n] \in Int /\ col(G, "later_attempts")[n] \in Int
                   /\ col(H, "later_attempts")[n] <= col(G, "later_attempts")[n]
  BY <1>1 DEF WeakerTelemetry, TelemetryIsInt
<1>6. \A n \in D : /\ col(H, "shadow_false_cuts")[n] \in Int
                   /\ col(G, "shadow_false_cuts")[n] \in Int
                   /\ col(G, "shadow_false_cuts")[n] <= col(H, "shadow_false_cuts")[n]
  BY <1>1 DEF WeakerTelemetry, TelemetryIsInt
<1>7. \A n \in D : col(G, "shadow_verifications")[n] \in Int
  BY <1>1 DEF WeakerTelemetry, TelemetryIsInt
<1> HIDE DEF col, D
<1>8. /\ Total(col(H, "later_attempts")) \in Int /\ Total(col(G, "later_attempts")) \in Int
      /\ Total(col(H, "later_attempts")) <= Total(col(G, "later_attempts"))
  <2>1. DOMAIN col(H, "later_attempts") = D /\ DOMAIN col(G, "later_attempts") = D
    BY <1>1, <1>4 DEF D
  <2> QED  BY <1>1, <1>5, <2>1, TotalIsMonotone
<1>9. /\ Total(col(H, "shadow_false_cuts")) \in Int /\ Total(col(G, "shadow_false_cuts")) \in Int
      /\ Total(col(G, "shadow_false_cuts")) <= Total(col(H, "shadow_false_cuts"))
  <2>1. DOMAIN col(H, "shadow_false_cuts") = D /\ DOMAIN col(G, "shadow_false_cuts") = D
    BY <1>1, <1>4 DEF D
  <2> QED  BY <1>1, <1>6, <2>1, TotalIsMonotone
<1>10. Total(col(G, "shadow_verifications")) \in Int
  <2>1. DOMAIN col(G, "shadow_verifications") = D
    BY <1>1, <1>4 DEF D
  <2>2. \A n \in D : col(G, "shadow_verifications")[n] <= col(G, "shadow_verifications")[n]
    BY <1>7
  <2> QED  BY <1>1, <1>7, <2>1, <2>2, TotalIsMonotone
<1> QED  BY <1>2, <1>3, <1>8, <1>9, <1>10

\* All that the checks ask for.
Every(found) == {n[1] : n \in DOMAIN found}
Primary(found) == PCE!summaries(found, PCE!multi_off, {"500ms"})
Single(found) == PCE!summaries(found, PCE!multi_single, {"500ms"})
Secondary(found) == PCE!summaries(found, PCE!multi_off, {"100ms"})
Active(found) == PCE!summaries(found, PCE!multi_off \cup PCE!multi_single, Every(found))
Shadow(found) == PCE!summaries(found, PCE!shadow_multi, Every(found))
PrimaryHolds(stages) ==
    DOMAIN stages # {} /\ \A n \in DOMAIN stages :
        /\ stages[n].score_rate > 50 /\ stages[n].lower > 50
        /\ stages[n].tested.depth >= stages[n].control.depth
        /\ \/ stages[n].tested.depth > stages[n].control.depth
           \/ stages[n].tested.speed > stages[n].control.speed
        /\ stages[n].pairs >= 100
SingleHolds(stages) ==
    DOMAIN stages # {} /\ \A n \in DOMAIN stages :
        stages[n].lower >= 50 - noninferiority_margin /\ stages[n].score_rate > 50
SecondaryHolds(stages) ==
    DOMAIN stages # {} /\ \A n \in DOMAIN stages :
        stages[n].score_rate >= minimum_100ms_score_rate
ActiveHolds(stages) ==
    /\ Totals(stages, "later_attempts") >= minimum_later_pair_attempts
    /\ Totals(stages, "later_successes") >= minimum_later_pair_successes
ShadowHolds(stages) ==
    /\ Totals(stages, "shadow_candidates") >= minimum_shadow_candidates
    /\ Totals(stages, "shadow_verifications") = Totals(stages, "shadow_candidates")
    /\ PCE!wilson_upper_bound_at_most(Totals(stages, "shadow_false_cuts"),
           Totals(stages, "shadow_verifications"), false_cut_bound)

LEMMA ChecksHold ==
    ASSUME NEW found
    PROVE  PCE!run(found).decision = "all_checks_hold" <=>
             /\ PCE!sanity_passed(found)
             /\ PrimaryHolds(Primary(found)) /\ SingleHolds(Single(found))
             /\ SecondaryHolds(Secondary(found)) /\ ActiveHolds(Active(found))
             /\ ShadowHolds(Shadow(found))
<1> DEFINE checks == PCE!automatic_checks(found)
           p == Primary(found)
           s == Single(found)
           o == Secondary(found)
<1>1. PCE!run(found).decision = "all_checks_hold" <=> \A c \in DOMAIN checks : checks[c]
  BY DEF PCE!run
<1>2. DOMAIN checks =
        {"same_config_sanity_passed", "primary_500ms_direction_consistent",
         "primary_500ms_ci_lower_above_half", "primary_500ms_completed_depth_non_degraded",
         "primary_500ms_effective_efficiency_improved",
         "primary_500ms_minimum_100_opening_pairs", "multi_vs_single_non_degraded",
         "multi_vs_single_point_superior", "secondary_100ms_not_reversed",
         "later_pair_exercised", "scheduler_shadow_audit_passed"}
  BY DEF PCE!automatic_checks
<1>3. /\ checks["same_config_sanity_passed"] = PCE!sanity_passed(found)
      /\ checks["later_pair_exercised"] = PCE!later_pair_exercised(Active(found))
      /\ checks["scheduler_shadow_audit_passed"]
           = PCE!scheduler_shadow_audit_passed(Shadow(found))
  BY DEF PCE!automatic_checks, Active, Shadow, Every
<1>4. /\ checks["primary_500ms_direction_consistent"]
           = (DOMAIN p # {} /\ \A n \in DOMAIN p : p[n].score_rate > 50)
      /\ checks["primary_500ms_ci_lower_above_half"]
           = (DOMAIN p # {} /\ \A n \in DOMAIN p : p[n].lower > 50)
      /\ checks["primary_500ms_completed_depth_non_degraded"]
           = (DOMAIN p # {} /\ \A n \in DOMAIN p : p[n].tested.depth >= p[n].control.depth)
      /\ checks["primary_500ms_effective_efficiency_improved"]
           = (DOMAIN p # {} /\ \A n \in DOMAIN p :
                 \/ p[n].tested.depth > p[n].control.depth
                 \/ p[n].tested.speed > p[n].control.speed)
      /\ checks["primary_500ms_minimum_100_opening_pairs"]
           = (DOMAIN p # {} /\ \A n \in DOMAIN p : p[n].pairs >= 100)
  BY DEF PCE!automatic_checks, PCE!AllOf, Primary
<1>5. /\ checks["multi_vs_single_non_degraded"]
           = (DOMAIN s # {} /\ \A n \in DOMAIN s : s[n].lower >= 50 - noninferiority_margin)
      /\ checks["multi_vs_single_point_superior"]
           = (DOMAIN s # {} /\ \A n \in DOMAIN s : s[n].score_rate > 50)
      /\ checks["secondary_100ms_not_reversed"]
           = (DOMAIN o # {} /\ \A n \in DOMAIN o :
                 o[n].score_rate >= minimum_100ms_score_rate)
  BY DEF PCE!automatic_checks, PCE!AllOf, Single, Secondary
<1>6. /\ PCE!later_pair_exercised(Active(found)) <=> ActiveHolds(Active(found))
      /\ PCE!scheduler_shadow_audit_passed(Shadow(found)) <=> ShadowHolds(Shadow(found))
  BY DEF PCE!later_pair_exercised, ActiveHolds, Totals, ShadowHolds,
     PCE!scheduler_shadow_audit_passed
<1> HIDE DEF checks, p, s, o
<1>7. (\A c \in DOMAIN checks : checks[c]) <=>
         /\ checks["same_config_sanity_passed"]
         /\ checks["primary_500ms_direction_consistent"]
         /\ checks["primary_500ms_ci_lower_above_half"]
         /\ checks["primary_500ms_completed_depth_non_degraded"]
         /\ checks["primary_500ms_effective_efficiency_improved"]
         /\ checks["primary_500ms_minimum_100_opening_pairs"]
         /\ checks["multi_vs_single_non_degraded"]
         /\ checks["multi_vs_single_point_superior"]
         /\ checks["secondary_100ms_not_reversed"]
         /\ checks["later_pair_exercised"]
         /\ checks["scheduler_shadow_audit_passed"]
  BY <1>2
<1>8. /\ PrimaryHolds(p) <=>
            /\ checks["primary_500ms_direction_consistent"]
            /\ checks["primary_500ms_ci_lower_above_half"]
            /\ checks["primary_500ms_completed_depth_non_degraded"]
            /\ checks["primary_500ms_effective_efficiency_improved"]
            /\ checks["primary_500ms_minimum_100_opening_pairs"]
  BY <1>4 DEF PrimaryHolds
<1>9. /\ SingleHolds(s) <=> /\ checks["multi_vs_single_non_degraded"]
                            /\ checks["multi_vs_single_point_superior"]
      /\ SecondaryHolds(o) <=> checks["secondary_100ms_not_reversed"]
  BY <1>5 DEF SingleHolds, SecondaryHolds
<1> QED  BY <1>1, <1>3, <1>6, <1>7, <1>8, <1>9 DEF p, s, o

LEMMA SummariesGetWeaker ==
    ASSUME NEW found, IsFiniteSet(DOMAIN found), NEW worse, DOMAIN worse = DOMAIN found,
           \A m \in DOMAIN found :
               WeakerSummary(PCE!stage_summary(worse[m], m[2]),
                             PCE!stage_summary(found[m], m[2])),
           NEW compared, NEW under
    PROVE  WeakerSummaries(PCE!summaries(worse, compared, under),
                           PCE!summaries(found, compared, under))
<1> DEFINE D == {m \in DOMAIN found : m[2] \in compared /\ m[1] \in under}
<1>1. /\ PCE!summaries(worse, compared, under)
           = [n \in D |-> PCE!stage_summary(worse[n], n[2])]
      /\ PCE!summaries(found, compared, under)
           = [n \in D |-> PCE!stage_summary(found[n], n[2])]
  BY DEF PCE!summaries
<1>2. IsFiniteSet(D)
  <2>1. D \subseteq DOMAIN found
    OBVIOUS
  <2> HIDE DEF D
  <2> QED  BY <2>1, FS_Subset
<1>3. \A n \in D : WeakerSummary(PCE!stage_summary(worse[n], n[2]),
                                 PCE!stage_summary(found[n], n[2]))
  OBVIOUS
<1> HIDE DEF D
<1> QED  BY <1>1, <1>2, <1>3 DEF WeakerSummaries

LEMMA WeakerSummariesHoldLess ==
    ASSUME NEW H, NEW G, WeakerSummaries(H, G)
    PROVE  /\ PrimaryHolds(H) => PrimaryHolds(G)
           /\ SingleHolds(H) => SingleHolds(G)
           /\ SecondaryHolds(H) => SecondaryHolds(G)
           /\ ActiveHolds(H) => ActiveHolds(G)
           /\ ShadowHolds(H) => ShadowHolds(G)
<1>1. /\ DOMAIN H = DOMAIN G
      /\ \A n \in DOMAIN G : WeakerSummary(H[n], G[n])
  BY DEF WeakerSummaries
<1>2. noninferiority_margin \in Nat /\ minimum_100ms_score_rate \in Nat
      /\ minimum_later_pair_attempts \in Nat /\ false_cut_bound \in Nat
  BY ConstantsAssumption
<1>3. PrimaryHolds(H) => PrimaryHolds(G)
  <2> SUFFICES ASSUME PrimaryHolds(H), NEW n \in DOMAIN G
               PROVE  /\ G[n].score_rate > 50 /\ G[n].lower > 50
                      /\ G[n].tested.depth >= G[n].control.depth
                      /\ \/ G[n].tested.depth > G[n].control.depth
                         \/ G[n].tested.speed > G[n].control.speed
                      /\ G[n].pairs >= 100
    BY <1>1 DEF PrimaryHolds
  <2>1. /\ H[n].score_rate > 50 /\ H[n].lower > 50
        /\ H[n].tested.depth >= H[n].control.depth
        /\ \/ H[n].tested.depth > H[n].control.depth
           \/ H[n].tested.speed > H[n].control.speed
        /\ H[n].pairs >= 100
    BY <1>1 DEF PrimaryHolds
  <2>2. WeakerSummary(H[n], G[n])
    BY <1>1
  <2>3. WeakerTelemetry(H[n].tested, G[n].tested) /\ TelemetryIsInt(G[n].control)
    BY <2>2 DEF WeakerSummary
  <2>4. /\ H[n].tested.depth \in Int /\ G[n].tested.depth \in Int
        /\ H[n].tested.depth <= G[n].tested.depth /\ G[n].control.depth \in Int
        /\ H[n].tested.speed = G[n].tested.speed
    BY <2>3 DEF WeakerTelemetry, TelemetryIsInt
  <2> QED  BY <2>1, <2>2, <2>4 DEF WeakerSummary
<1>4. SingleHolds(H) => SingleHolds(G)
  BY <1>1, <1>2 DEF SingleHolds, WeakerSummary
<1>5. SecondaryHolds(H) => SecondaryHolds(G)
  BY <1>1, <1>2 DEF SecondaryHolds, WeakerSummary
<1>6. ActiveHolds(H) => ActiveHolds(G)
  BY <1>2, TotalsGetWeaker DEF ActiveHolds
<1>7. ShadowHolds(H) => ShadowHolds(G)
  BY <1>2, TotalsGetWeaker, FewerFalseCutsAreFine DEF ShadowHolds
<1> QED  BY <1>3, <1>4, <1>5, <1>6, <1>7

LEMMA ProbcutIsMonotone ==
    ASSUME NEW found, IsFiniteSet(DOMAIN found),
           \A m \in DOMAIN found : found[m] \in ProbcutReports,
           NEW n \in DOMAIN found, NEW r \in WorseProbcut(n, found[n]),
           PCE!run([found EXCEPT ![n] = r]).decision = "all_checks_hold"
    PROVE  PCE!run(found).decision = "all_checks_hold"
<1> DEFINE worse == [found EXCEPT ![n] = r]
<1>1. /\ DOMAIN worse = DOMAIN found /\ worse[n] = r
      /\ \A m \in DOMAIN found : m # n => worse[m] = found[m]
  OBVIOUS
<1>2. /\ WeakerSummary(PCE!stage_summary(r, n[2]), PCE!stage_summary(found[n], n[2]))
      /\ n[2] # "same_config_off"
  BY WorseReportsAreWeaker
<1>3. PCE!run(worse).decision = "all_checks_hold"
  OBVIOUS
<1> HIDE DEF worse
<1>4. \A m \in DOMAIN found :
          WeakerSummary(PCE!stage_summary(worse[m], m[2]), PCE!stage_summary(found[m], m[2]))
  <2> TAKE m \in DOMAIN found
  <2>1. CASE m = n
    BY <1>1, <1>2, <2>1
  <2>2. CASE m # n
    BY <1>1, <2>2, SameSummaryIsWeaker
  <2> QED  BY <2>1, <2>2
<1>5. \A c, u : WeakerSummaries(PCE!summaries(worse, c, u), PCE!summaries(found, c, u))
  BY <1>1, <1>4, SummariesGetWeaker
<1>6. Every(worse) = Every(found)
  BY <1>1 DEF Every
<1>7. /\ WeakerSummaries(Primary(worse), Primary(found))
      /\ WeakerSummaries(Single(worse), Single(found))
      /\ WeakerSummaries(Secondary(worse), Secondary(found))
      /\ WeakerSummaries(Active(worse), Active(found))
      /\ WeakerSummaries(Shadow(worse), Shadow(found))
  BY <1>5, <1>6 DEF Primary, Single, Secondary, Active, Shadow
<1>8. /\ PCE!sanity_passed(worse)
      /\ PrimaryHolds(Primary(worse)) /\ SingleHolds(Single(worse))
      /\ SecondaryHolds(Secondary(worse)) /\ ActiveHolds(Active(worse))
      /\ ShadowHolds(Shadow(worse))
  BY <1>3, ChecksHold
<1>9. PCE!sanity_passed(found)
  <2> DEFINE strict == {m \in DOMAIN found :
                           m[2] = "same_config_off" /\ m[1] \in {"depth", "nodes"}}
  <2>1. strict # {} /\ \A m \in strict : worse[m].neutral
    BY <1>1, <1>8 DEF PCE!sanity_passed
  <2>2. \A m \in strict : worse[m] = found[m]
    BY <1>1, <1>2
  <2> QED  BY <2>1, <2>2 DEF PCE!sanity_passed
<1>10. /\ PrimaryHolds(Primary(found)) /\ SingleHolds(Single(found))
       /\ SecondaryHolds(Secondary(found)) /\ ActiveHolds(Active(found))
       /\ ShadowHolds(Shadow(found))
  BY <1>7, <1>8, WeakerSummariesHoldLess
<1> QED  BY <1>9, <1>10, ChecksHold

-----------------------------------------------------------------------------
\* A fixed-time campaign with one arena replaced by one that went worse.
SameGames(w, r) ==
    /\ w \in FixedTimeReports /\ r \in FixedTimeReports /\ w.eligible = r.eligible
BehindForward(w, r) ==
    /\ SameGames(w, r) /\ \A o \in 1..2 : w.scores[o] <= r.scores[o]
    /\ w.depth.candidate <= r.depth.candidate /\ w.depth.baseline = r.depth.baseline
BehindReverse(w, r) ==
    /\ SameGames(w, r) /\ \A o \in 1..2 : w.scores[o] >= r.scores[o]
    /\ w.depth.baseline <= r.depth.baseline /\ w.depth.candidate = r.depth.candidate

LEMMA FixedTimeFields ==
    ASSUME NEW r \in FixedTimeReports
    PROVE  /\ r.scores \in [1..2 -> 0..4] /\ r.bad \in Nat /\ r.eligible \in BOOLEAN
           /\ r.depth.candidate \in Int /\ r.depth.baseline \in Int
           /\ r.depth = [candidate |-> r.depth.candidate, baseline |-> r.depth.baseline]
           /\ r = [scores |-> r.scores, depth |-> r.depth, bad |-> r.bad,
                   eligible |-> r.eligible,
                   paired_color_swap_complete |-> r.paired_color_swap_complete]
           /\ \A o \in 1..2 : r.scores[o] \in Int
           /\ BehindForward(r, r) /\ BehindReverse(r, r)
<1>1. /\ r.scores \in [1..2 -> 0..4] /\ r.bad \in Nat /\ r.eligible \in BOOLEAN
      /\ r.depth \in [candidate : Int, baseline : Int]
      /\ r = [scores |-> r.scores, depth |-> r.depth, bad |-> r.bad,
              eligible |-> r.eligible,
              paired_color_swap_complete |-> r.paired_color_swap_complete]
  BY DEF FixedTimeReports
<1>2. /\ r.depth.candidate \in Int /\ r.depth.baseline \in Int
      /\ r.depth = [candidate |-> r.depth.candidate, baseline |-> r.depth.baseline]
  BY <1>1
<1>3. \A o \in 1..2 : r.scores[o] \in Int
  BY <1>1
<1>4. BehindForward(r, r) /\ BehindReverse(r, r)
  BY <1>2, <1>3 DEF BehindForward, BehindReverse, SameGames
<1> QED  BY <1>1, <1>2, <1>3, <1>4

LEMMA LowerScores ==
    ASSUME NEW r \in FixedTimeReports, NEW o \in {1, 2}
    PROVE  BehindForward(Lower(r, o), r)
<1> DEFINE f == [r.scores EXCEPT ![o] = r.scores[o] - 1]
           w == [scores |-> f, depth |-> r.depth, bad |-> r.bad, eligible |-> r.eligible,
                 paired_color_swap_complete |-> r.paired_color_swap_complete]
<1>1. CASE r.scores[o] = 0
  BY <1>1, FixedTimeFields DEF Lower
<1>2. CASE r.scores[o] # 0
  <2>1. /\ r.scores \in [1..2 -> 0..4]
        /\ r = [scores |-> r.scores, depth |-> r.depth, bad |-> r.bad,
                eligible |-> r.eligible,
                paired_color_swap_complete |-> r.paired_color_swap_complete]
        /\ r.depth.candidate \in Int
        /\ \A p \in 1..2 : r.scores[p] \in Int
    BY FixedTimeFields
  <2>0. o \in 1..2
    OBVIOUS
  <2>2. Lower(r, o) = w
    BY <1>2, <2>1 DEF Lower
  <2>3. f \in [1..2 -> 0..4] /\ \A p \in 1..2 : f[p] <= r.scores[p]
    BY <1>2, <2>0, <2>1
  <2> HIDE DEF f
  <2>4. w \in FixedTimeReports
    BY <2>3 DEF FixedTimeReports
  <2>5. w.scores = f /\ w.depth = r.depth /\ w.eligible = r.eligible
    OBVIOUS
  <2> HIDE DEF w
  <2>6. BehindForward(w, r)
    BY <2>1, <2>3, <2>4, <2>5 DEF BehindForward, SameGames
  <2> QED  BY <2>2, <2>6
<1> QED  BY <1>1, <1>2

LEMMA RaiseScores ==
    ASSUME NEW r \in FixedTimeReports, NEW o \in {1, 2}
    PROVE  BehindReverse(Raise(r, o), r)
<1> DEFINE f == [r.scores EXCEPT ![o] = r.scores[o] + 1]
           w == [scores |-> f, depth |-> r.depth, bad |-> r.bad, eligible |-> r.eligible,
                 paired_color_swap_complete |-> r.paired_color_swap_complete]
<1>1. CASE r.scores[o] = 4
  BY <1>1, FixedTimeFields DEF Raise
<1>2. CASE r.scores[o] # 4
  <2>1. /\ r.scores \in [1..2 -> 0..4]
        /\ r = [scores |-> r.scores, depth |-> r.depth, bad |-> r.bad,
                eligible |-> r.eligible,
                paired_color_swap_complete |-> r.paired_color_swap_complete]
        /\ r.depth.baseline \in Int
        /\ \A p \in 1..2 : r.scores[p] \in Int
    BY FixedTimeFields
  <2>0. o \in 1..2
    OBVIOUS
  <2>2. Raise(r, o) = w
    BY <1>2, <2>1 DEF Raise
  <2>3. f \in [1..2 -> 0..4] /\ \A p \in 1..2 : f[p] >= r.scores[p]
    BY <1>2, <2>0, <2>1
  <2> HIDE DEF f
  <2>4. w \in FixedTimeReports
    BY <2>3 DEF FixedTimeReports
  <2>5. w.scores = f /\ w.depth = r.depth /\ w.eligible = r.eligible
    OBVIOUS
  <2> HIDE DEF w
  <2>6. BehindReverse(w, r)
    BY <2>1, <2>3, <2>4, <2>5 DEF BehindReverse, SameGames
  <2> QED  BY <2>2, <2>6
<1> QED  BY <1>1, <1>2

LEMMA WorseGamesAreBehind ==
    ASSUME NEW n, NEW r \in FixedTimeReports, NEW w \in WorseFixedTime(n, r)
    PROVE  /\ n[3] = "candidate_vs_baseline" => BehindForward(w, r)
           /\ n[3] = "baseline_vs_candidate" => BehindReverse(w, r)
           /\ r.bad > 0 => w.bad > 0
<1>1. /\ r.depth.candidate \in Int /\ r.depth.baseline \in Int /\ r.bad \in Nat
      /\ r.depth = [candidate |-> r.depth.candidate, baseline |-> r.depth.baseline]
      /\ r = [scores |-> r.scores, depth |-> r.depth, bad |-> r.bad,
              eligible |-> r.eligible,
              paired_color_swap_complete |-> r.paired_color_swap_complete]
      /\ BehindForward(r, r) /\ BehindReverse(r, r)
      /\ \A o \in 1..2 : r.scores[o] \in Int
  BY FixedTimeFields
<1>2. CASE n[3] = "candidate_vs_baseline"
  <2>1. \/ \E o \in {1, 2} : w = Lower(r, o)
        \/ w = [r EXCEPT !.depth.candidate = @ - 3]
    BY <1>2 DEF WorseFixedTime
  <2>2. ASSUME NEW o \in {1, 2}, w = Lower(r, o) PROVE BehindForward(w, r) /\ w.bad = r.bad
    <3>1. Lower(r, o).bad = r.bad
      BY <1>1 DEF Lower
    <3> QED  BY <2>2, <3>1, LowerScores
  <2>3. CASE w = [r EXCEPT !.depth.candidate = @ - 3]
    <3> DEFINE d == [candidate |-> r.depth.candidate - 3, baseline |-> r.depth.baseline]
    <3>1. [r.depth EXCEPT !.candidate = @ - 3] = d
      BY <1>1
    <3>2. w = [scores |-> r.scores, depth |-> d, bad |-> r.bad,
               eligible |-> r.eligible,
               paired_color_swap_complete |-> r.paired_color_swap_complete]
      BY <1>1, <2>3, <3>1
    <3>3. w \in FixedTimeReports
      BY <1>1, <3>2 DEF FixedTimeReports
    <3>5. /\ w.scores = r.scores /\ w.bad = r.bad /\ w.eligible = r.eligible
          /\ w.depth.candidate = r.depth.candidate - 3
          /\ w.depth.baseline = r.depth.baseline
      BY <3>2
    <3>6. BehindForward(w, r)
      BY <1>1, <3>3, <3>5 DEF BehindForward, SameGames
    <3> QED  BY <1>2, <3>5, <3>6
  <2> QED  BY <1>2, <2>1, <2>2, <2>3
<1>3. CASE n[3] = "baseline_vs_candidate"
  <2>1. \/ \E o \in {1, 2} : w = Raise(r, o)
        \/ w = [r EXCEPT !.depth.baseline = @ - 3]
    BY <1>3 DEF WorseFixedTime
  <2>2. ASSUME NEW o \in {1, 2}, w = Raise(r, o) PROVE BehindReverse(w, r) /\ w.bad = r.bad
    <3>1. Raise(r, o).bad = r.bad
      BY <1>1 DEF Raise
    <3> QED  BY <2>2, <3>1, RaiseScores
  <2>3. CASE w = [r EXCEPT !.depth.baseline = @ - 3]
    <3> DEFINE d == [candidate |-> r.depth.candidate, baseline |-> r.depth.baseline - 3]
    <3>1. [r.depth EXCEPT !.baseline = @ - 3] = d
      BY <1>1
    <3>2. w = [scores |-> r.scores, depth |-> d, bad |-> r.bad,
               eligible |-> r.eligible,
               paired_color_swap_complete |-> r.paired_color_swap_complete]
      BY <1>1, <2>3, <3>1
    <3>3. w \in FixedTimeReports
      BY <1>1, <3>2 DEF FixedTimeReports
    <3>5. /\ w.scores = r.scores /\ w.bad = r.bad /\ w.eligible = r.eligible
          /\ w.depth.candidate = r.depth.candidate
          /\ w.depth.baseline = r.depth.baseline - 3
      BY <3>2
    <3>6. BehindReverse(w, r)
      BY <1>1, <3>3, <3>5 DEF BehindReverse, SameGames
    <3> QED  BY <1>3, <3>5, <3>6
  <2> QED  BY <1>3, <2>1, <2>2, <2>3
<1>4. CASE n[3] \notin {"candidate_vs_baseline", "baseline_vs_candidate"}
  <2>1. w = [r EXCEPT !.bad = 1]
    BY <1>4 DEF WorseFixedTime
  <2>2. w.bad = 1
    BY <1>1, <2>1
  <2> QED  BY <1>4, <2>2
<1> QED  BY <1>2, <1>3, <1>4

\* What it takes to pass a cell.
Cell(forward, reverse) == FTE!promotion_cell_assessment(forward, reverse)
Observed(forward, reverse) ==
    [o \in 1..2 |-> forward.scores[o] + (4 - reverse.scores[o])]

LEMMA CellPasses ==
    ASSUME NEW forward \in FixedTimeReports, NEW reverse \in FixedTimeReports
    PROVE  LET obs == Observed(forward, reverse)
               c == Cell(forward, reverse)
           IN  /\ FTE!promotion_passed(c) <=>
                    /\ forward.eligible /\ reverse.eligible
                    /\ Total(obs) > 4 * Cardinality(1..2)
                    /\ obs[1] > 4 /\ obs[2] > 4
                    /\ FTE!argument_order_depth_passed(forward, reverse)
                    /\ Cardinality(1..2) >= minimum_pairs
               /\ c.ci95.upper \in {obs[1], obs[2]}
               /\ c.eligible = (forward.eligible /\ reverse.eligible)
               /\ c.minimum_opening_pairs_passed = (Cardinality(1..2) >= minimum_pairs)
<1> DEFINE obs == Observed(forward, reverse)
           c == Cell(forward, reverse)
           S == {obs[o] : o \in DOMAIN obs}
<1>1. forward.scores \in [1..2 -> 0..4] /\ reverse.scores \in [1..2 -> 0..4]
  BY FixedTimeFields
<1>2. FTE!argument_order_observations(forward, reverse) = obs
  BY <1>1 DEF FTE!argument_order_observations, FTE!opening_pair_score_map, Observed
<1>3. /\ c.eligible = (forward.eligible /\ reverse.eligible)
      /\ c.score_rate_passed = (Total(obs) > 4 * Cardinality(1..2))
      /\ c.ci95.lower = FTE!Min(S) /\ c.ci95.upper = FTE!Max(S)
      /\ c.completed_depth_passed = FTE!argument_order_depth_passed(forward, reverse)
      /\ c.minimum_opening_pairs_passed = (Cardinality(1..2) >= minimum_pairs)
  <2>1. FTE!argument_order_overall(forward, reverse) = Total(obs)
    BY <1>2, FixedTimeTotal DEF FTE!argument_order_overall
  <2>2. FTE!Cardinality(DOMAIN obs) = Cardinality(1..2)
    BY FixedTimeCardinality DEF Observed
  <2> HIDE DEF obs
  <2>3. /\ FTE!bootstrap_interval(obs).lower = FTE!Min(S)
        /\ FTE!bootstrap_interval(obs).upper = FTE!Max(S)
    BY DEF FTE!bootstrap_interval
  <2> QED
    BY <1>2, <2>1, <2>2, <2>3 DEF Cell, FTE!promotion_cell_assessment
<1>4. /\ S = {obs[1], obs[2]} /\ obs[1] \in Int /\ obs[2] \in Int
  <2>1. \A o \in 1..2 : forward.scores[o] \in Int /\ reverse.scores[o] \in Int
    BY FixedTimeFields
  <2> QED  BY <2>1 DEF Observed
<1> HIDE DEF obs, S
<1>5. FTE!Min(S) \in S /\ \A y \in S : FTE!Min(S) =< y
  <2>1. \E x \in S : \A y \in S : x =< y
    BY <1>4
  <2> QED  BY <2>1 DEF FTE!Min
<1>6. FTE!Max(S) \in S
  <2>1. \E x \in S : \A y \in S : x >= y
    BY <1>4
  <2> QED  BY <2>1 DEF FTE!Max
<1>7. FTE!Min(S) > 4 <=> obs[1] > 4 /\ obs[2] > 4
  BY <1>4, <1>5
<1>8. FTE!promotion_passed(c) <=>
        /\ c.eligible /\ c.score_rate_passed /\ c.ci95.lower > 4
        /\ c.completed_depth_passed /\ c.minimum_opening_pairs_passed
  BY DEF FTE!promotion_passed
<1> HIDE DEF c
<1> QED  BY <1>3, <1>4, <1>6, <1>7, <1>8 DEF obs, c

LEMMA CellIsMonotone ==
    ASSUME NEW f, NEW fw, BehindForward(fw, f), NEW r, NEW rw, BehindReverse(rw, r),
           FTE!promotion_passed(Cell(fw, rw))
    PROVE  FTE!promotion_passed(Cell(f, r)) /\ ~(Cell(f, r).ci95.upper < 4)
<1> DEFINE obs == Observed(f, r)
           wobs == Observed(fw, rw)
<1>1. /\ f \in FixedTimeReports /\ fw \in FixedTimeReports
      /\ r \in FixedTimeReports /\ rw \in FixedTimeReports
      /\ fw.eligible = f.eligible /\ rw.eligible = r.eligible
  BY DEF BehindForward, BehindReverse, SameGames
<1>2. \A o \in 1..2 : /\ f.scores[o] \in Int /\ fw.scores[o] \in Int
                      /\ r.scores[o] \in Int /\ rw.scores[o] \in Int
                      /\ fw.scores[o] <= f.scores[o] /\ rw.scores[o] >= r.scores[o]
  BY <1>1, FixedTimeFields DEF BehindForward, BehindReverse
<1>3. /\ DOMAIN obs = 1..2 /\ DOMAIN wobs = 1..2
      /\ \A o \in 1..2 : wobs[o] \in Int /\ obs[o] \in Int /\ wobs[o] <= obs[o]
  BY <1>2 DEF Observed
<1>4. IsFiniteSet(1..2) /\ Cardinality(1..2) \in Nat
  <2>1. IsFiniteSet(1..2)
    <3>1. 1 \in Int /\ 2 \in Int
      OBVIOUS
    <3> QED  BY <3>1, FS_Interval, Zenon
  <2> QED  BY <2>1, FS_CardinalityType
<1>5. /\ fw.eligible /\ rw.eligible
      /\ Total(wobs) > 4 * Cardinality(1..2) /\ wobs[1] > 4 /\ wobs[2] > 4
      /\ FTE!argument_order_depth_passed(fw, rw) /\ Cardinality(1..2) >= minimum_pairs
  BY <1>1, CellPasses
<1>6. FTE!argument_order_depth_passed(f, r)
  <2>1. /\ f.depth.candidate \in Int /\ f.depth.baseline \in Int
        /\ fw.depth.candidate \in Int /\ r.depth.candidate \in Int
        /\ r.depth.baseline \in Int /\ rw.depth.baseline \in Int
    BY <1>1, FixedTimeFields
  <2>2. /\ fw.depth.candidate <= f.depth.candidate /\ fw.depth.baseline = f.depth.baseline
        /\ rw.depth.baseline <= r.depth.baseline /\ rw.depth.candidate = r.depth.candidate
    BY DEF BehindForward, BehindReverse
  <2> QED  BY <1>5, <2>1, <2>2 DEF FTE!argument_order_depth_passed
<1> HIDE DEF obs, wobs
<1>7. Total(wobs) \in Int /\ Total(obs) \in Int /\ Total(wobs) <= Total(obs)
  BY <1>3, <1>4, TotalIsMonotone
<1>8. Total(obs) > 4 * Cardinality(1..2) /\ obs[1] > 4 /\ obs[2] > 4
  BY <1>3, <1>4, <1>5, <1>7
<1>9. FTE!promotion_passed(Cell(f, r))
  BY <1>1, <1>5, <1>6, <1>8, CellPasses DEF obs
<1>10. Cell(f, r).ci95.upper \in {obs[1], obs[2]}
  BY <1>1, CellPasses DEF obs
<1>11. ~(Cell(f, r).ci95.upper < 4)
  BY <1>3, <1>8, <1>10
<1> QED  BY <1>9, <1>11

\* What a fixed-time campaign has to show to promote.
AskedNames(line) == AskedSets(line) \X TimeLimits \X VariantSet
BrokenGames(line, found) == {n \in AskedNames(line) : found[n].bad > 0}
DecisionCell(line, found, t) ==
    Cell(found[<<DecisionSet(line), t, "candidate_vs_baseline">>],
         found[<<DecisionSet(line), t, "baseline_vs_candidate">>])
PassedLimits(line, found) ==
    {t \in TimeLimits : FTE!promotion_passed(DecisionCell(line, found, t))}

LEMMA FixedTimePromotes ==
    ASSUME NEW line, NEW found
    PROVE  LET c == DecisionCell(line, found, FTE!Max(TimeLimits))
           IN  FTE!build_decision(line, found).decision = "promote" <=>
                 /\ ~(Cardinality(BrokenGames(line, found)) > 0)
                 /\ c.eligible /\ c.minimum_opening_pairs_passed /\ ~(c.ci95.upper < 4)
                 /\ FTE!promotion_passed(c)
                 /\ ~(Cardinality(PassedLimits(line, found)) < minimum_time_limits)
<1> DEFINE c == DecisionCell(line, found, FTE!Max(TimeLimits))
           broken == FTE!Cardinality(BrokenGames(line, found))
           passed == FTE!Cardinality(PassedLimits(line, found))
<1>1. FTE!build_decision(line, found).decision = FTE!suggest_decision(broken, c, passed)
  <2> DEFINE set == IF line.holdout THEN "holdout" ELSE "primary"
             sets == IF line.holdout THEN {"primary", "holdout"} ELSE {"primary"}
             times == {time_limits_ms[i] : i \in DOMAIN time_limits_ms}
             cell(t) == FTE!promotion_cell_assessment(
                            found[<<set, t, "candidate_vs_baseline">>],
                            found[<<set, t, "baseline_vs_candidate">>])
             B == {n \in sets \X times \X {FTE!Variants[i] : i \in 1..4} :
                      found[n].bad > 0}
             P == {t \in times : FTE!promotion_passed(cell(t))}
  <2>1. FTE!build_decision(line, found).decision
          = FTE!suggest_decision(FTE!Cardinality(B), cell(FTE!Max(times)),
                                 FTE!Cardinality(P))
    BY SMTT(60) DEF FTE!build_decision
  <2>2. B = BrokenGames(line, found)
    BY DEF BrokenGames, AskedNames, AskedSets, TimeLimits, VariantSet
  <2>3. \A t : cell(t) = DecisionCell(line, found, t)
    BY DEF DecisionCell, Cell, DecisionSet
  <2>4. times = TimeLimits
    BY DEF TimeLimits
  <2> HIDE DEF cell, times, B
  <2>5. P = PassedLimits(line, found)
    BY <2>3, <2>4 DEF PassedLimits
  <2> HIDE DEF P
  <2> QED  BY <2>1, <2>2, <2>3, <2>4, <2>5
<1>2. /\ broken = Cardinality(BrokenGames(line, found))
      /\ passed = Cardinality(PassedLimits(line, found))
  BY FixedTimeCardinality
<1> HIDE DEF c, broken, passed
<1>3. FTE!suggest_decision(broken, c, passed) = "promote" <=>
        /\ ~(broken > 0) /\ c.eligible /\ c.minimum_opening_pairs_passed
        /\ ~(c.ci95.upper < 4) /\ FTE!promotion_passed(c) /\ ~(passed < minimum_time_limits)
  BY DEF FTE!suggest_decision
<1> QED  BY <1>1, <1>2, <1>3 DEF c

LEMMA FixedTimeIsMonotone ==
    ASSUME NEW line, line.holdout \in BOOLEAN,
           NEW found, IsFiniteSet(DOMAIN found),
           \A m \in AskedNames(line) : m \in DOMAIN found /\ found[m] \in FixedTimeReports,
           NEW n \in DOMAIN found, found[n] \in FixedTimeReports,
           NEW r \in WorseFixedTime(n, found[n]),
           FTE!build_decision(line, [found EXCEPT ![n] = r]).decision = "promote"
    PROVE  FTE!build_decision(line, found).decision = "promote"
<1> DEFINE worse == [found EXCEPT ![n] = r]
           longest == FTE!Max(TimeLimits)
<1>1. /\ DOMAIN worse = DOMAIN found /\ worse[n] = r
      /\ \A m \in DOMAIN found : m # n => worse[m] = found[m]
  OBVIOUS
<1>2. /\ n[3] = "candidate_vs_baseline" => BehindForward(r, found[n])
      /\ n[3] = "baseline_vs_candidate" => BehindReverse(r, found[n])
      /\ found[n].bad > 0 => r.bad > 0
  BY WorseGamesAreBehind
<1>3. FTE!build_decision(line, worse).decision = "promote"
  OBVIOUS
<1> HIDE DEF worse
<1>4. /\ "candidate_vs_baseline" \in VariantSet /\ "baseline_vs_candidate" \in VariantSet
      /\ DecisionSet(line) \in AskedSets(line)
  <2>1. FTE!Variants[1] = "candidate_vs_baseline" /\ FTE!Variants[2] = "baseline_vs_candidate"
    BY DEF FTE!Variants
  <2> QED  BY <2>1 DEF VariantSet, DecisionSet, AskedSets
<1>5. ASSUME NEW t \in TimeLimits
      PROVE  /\ BehindForward(worse[<<DecisionSet(line), t, "candidate_vs_baseline">>],
                              found[<<DecisionSet(line), t, "candidate_vs_baseline">>])
             /\ BehindReverse(worse[<<DecisionSet(line), t, "baseline_vs_candidate">>],
                              found[<<DecisionSet(line), t, "baseline_vs_candidate">>])
  <2> DEFINE f == <<DecisionSet(line), t, "candidate_vs_baseline">>
             b == <<DecisionSet(line), t, "baseline_vs_candidate">>
  <2>1. f \in AskedNames(line) /\ b \in AskedNames(line)
    BY <1>4 DEF AskedNames
  <2>2. /\ f \in DOMAIN found /\ found[f] \in FixedTimeReports
        /\ b \in DOMAIN found /\ found[b] \in FixedTimeReports
    BY <2>1
  <2>3. f[3] = "candidate_vs_baseline" /\ b[3] = "baseline_vs_candidate"
    OBVIOUS
  <2> HIDE DEF f, b
  <2>4. BehindForward(worse[f], found[f])
    <3>1. CASE f = n
      BY <1>1, <1>2, <2>3, <3>1
    <3>2. CASE f # n
      BY <1>1, <2>2, <3>2, FixedTimeFields
    <3> QED  BY <3>1, <3>2
  <2>5. BehindReverse(worse[b], found[b])
    <3>1. CASE b = n
      BY <1>1, <1>2, <2>3, <3>1
    <3>2. CASE b # n
      BY <1>1, <2>2, <3>2, FixedTimeFields
    <3> QED  BY <3>1, <3>2
  <2> QED  BY <2>4, <2>5 DEF f, b
<1>6. ASSUME NEW t \in TimeLimits, FTE!promotion_passed(DecisionCell(line, worse, t))
      PROVE  /\ FTE!promotion_passed(DecisionCell(line, found, t))
             /\ ~(DecisionCell(line, found, t).ci95.upper < 4)
  BY <1>5, <1>6, CellIsMonotone DEF DecisionCell
<1>7. /\ ~(Cardinality(BrokenGames(line, worse)) > 0)
      /\ FTE!promotion_passed(DecisionCell(line, worse, longest))
      /\ ~(Cardinality(PassedLimits(line, worse)) < minimum_time_limits)
  BY <1>3, FixedTimePromotes
<1>8. longest \in TimeLimits
  BY LongestTimeIsOne
<1> HIDE DEF longest
<1>9. ~(Cardinality(BrokenGames(line, found)) > 0)
  <2>1. BrokenGames(line, found) \subseteq BrokenGames(line, worse)
    <3> SUFFICES ASSUME NEW m \in AskedNames(line), found[m].bad > 0
                 PROVE  worse[m].bad > 0
      BY DEF BrokenGames
    <3> QED  BY <1>1, <1>2
  <2>2. BrokenGames(line, worse) \subseteq DOMAIN found
    BY DEF BrokenGames
  <2> QED  BY <1>7, <2>1, <2>2, FewerAreCounted
<1>10. ~(Cardinality(PassedLimits(line, found)) < minimum_time_limits)
  <2>1. PassedLimits(line, worse) \subseteq PassedLimits(line, found)
    BY <1>6 DEF PassedLimits
  <2>2. PassedLimits(line, found) \subseteq TimeLimits
    BY DEF PassedLimits
  <2>3. minimum_time_limits \in Nat
    BY ConstantsAssumption
  <2> QED  BY <1>7, <2>1, <2>2, <2>3, TimeLimitsAreFinite, FewerAreCounted
<1>11. /\ FTE!promotion_passed(DecisionCell(line, found, longest))
       /\ ~(DecisionCell(line, found, longest).ci95.upper < 4)
  BY <1>6, <1>7, <1>8
<1>12. /\ DecisionCell(line, found, longest).eligible
       /\ DecisionCell(line, found, longest).minimum_opening_pairs_passed
  BY <1>11 DEF FTE!promotion_passed
<1> QED  BY <1>9, <1>10, <1>11, <1>12, FixedTimePromotes DEF longest

-----------------------------------------------------------------------------
\* With one result worse, no program's report promotes what it did not.
LEMMA WorseState ==
    ASSUME IInv, EvidenceInv, settings \in CommandLines[program]
    PROVE  WorseEvidenceNeverPromotes
<1> SUFFICES ASSUME phase = "report", program \in Evidence,
                    NEW n \in DOMAIN results, status[n] = "ok",
                    NEW r \in Worse(program, n, results[n]),
                    Promotes(program, settings, [results EXCEPT ![n] = r])
             PROVE  Promotes(program, settings, results)
  BY DEF WorseEvidenceNeverPromotes
<1> DEFINE worse == [results EXCEPT ![n] = r]
<1>1. /\ IsFiniteSet(DOMAIN results)
      /\ \A m \in DOMAIN results : \E i \in DOMAIN Stages : Stages[i].name = m
  BY ReportFacts, NamesAreFinite DEF IInv
<1>2. PICK i \in DOMAIN Stages : Stages[i].name = n
  BY <1>1
<1>3. results[n] \in ReportsOf(program, Stages[i])
  <2>1. Taken(i)
    BY <1>2 DEF Taken
  <2>2. Reported(i)
    BY <2>1 DEF EvidenceInv, ResultsAreReports
  <2> QED  BY <1>2, <2>2, ReportFacts
<1>4. CASE program = "fixed_time_evidence"
  <2>1. settings.holdout \in BOOLEAN
    <3>1. settings \in FTE!parse_args
      BY <1>4, EvidenceAssumption DEF IInv, CampaignType
    <3> QED  BY <3>1 DEF FTE!parse_args
  <2>2. ASSUME NEW m \in AskedNames(settings)
        PROVE  m \in DOMAIN results /\ results[m] \in FixedTimeReports
    <3>1. PICK set \in AskedSets(settings), t \in TimeLimits, v \in VariantSet :
              m = <<set, t, v>>
      BY DEF AskedNames
    <3>2. <<set, t, v>> \in Names /\ results[<<set, t, v>>] \in FixedTimeReports
      BY <1>4, FixedTimeIsReported
    <3> QED  BY <3>1, <3>2, ReportFacts
  <2>3. results[n] \in FixedTimeReports /\ r \in WorseFixedTime(n, results[n])
    BY <1>3, <1>4 DEF ReportsOf, Worse
  <2>4. FTE!build_decision(settings, worse).decision = "promote"
    <3>1. Promotes("fixed_time_evidence", settings, worse)
      BY <1>4
    <3> HIDE DEF worse
    <3> QED  BY <3>1, PromotesMeans
  <2>5. FTE!build_decision(settings, results).decision = "promote"
    BY <1>1, <2>1, <2>2, <2>3, <2>4, FixedTimeIsMonotone
  <2> QED  BY <1>4, <2>5, PromotesMeans
<1>5. CASE program = "arena_matrix_evidence"
  <2>1. ASSUME NEW m \in DOMAIN results
        PROVE  results[m] \in {None, Failed} \cup MatrixReports
    <3>1. PICK j \in DOMAIN Stages : Stages[j].name = m
      BY <1>1
    <3>2. ReportsOf(program, Stages[j]) = MatrixReports
      BY <1>5 DEF ReportsOf
    <3> QED  BY <3>1, <3>2, ReportFacts DEF Missing
  <2>2. results[n] \in MatrixReports /\ r \in WorseMatrix(n, results[n])
    BY <1>3, <1>5 DEF ReportsOf, Worse
  <2>3. AME!build_report(worse).decision = "local_harness_passed"
    <3>1. Promotes("arena_matrix_evidence", settings, worse)
      BY <1>5
    <3> HIDE DEF worse
    <3> QED  BY <3>1, PromotesMeans
  <2>4. AME!build_report(results).decision = "local_harness_passed"
    BY <1>1, <2>1, <2>2, <2>3, ArenaIsMonotone
  <2> QED  BY <1>5, <2>4, PromotesMeans
<1>6. CASE program = "probcut_evidence"
  <2>1. \A m \in DOMAIN results : results[m] \in ProbcutReports
    BY <1>6, ProbcutIsReported
  <2>2. r \in WorseProbcut(n, results[n])
    BY <1>6 DEF Worse
  <2>3. PCE!run(worse).decision = "all_checks_hold"
    <3>1. Promotes("probcut_evidence", settings, worse)
      BY <1>6
    <3> HIDE DEF worse
    <3> QED  BY <3>1, PromotesMeans
  <2>4. PCE!run(results).decision = "all_checks_hold"
    BY <1>1, <2>1, <2>2, <2>3, ProbcutIsMonotone
  <2> QED  BY <1>6, <2>4, PromotesMeans
<1>7. CASE program = "growth_evidence"
  <2>1. r \in WorseArena(n, results[n])
    BY <1>7 DEF Worse
  <2>2. PICK c \in {"move_teacher_v2_vs_v1", "move_teacher_v2_vs_exact_root_v2"} :
            \E run \in GCE!Runs : n = GCE!Arena(c, run)
    BY <2>1 DEF WorseArena
  <2>3. n # "matrix"
    BY <2>2, ArenaNamesAssumption
  <2>4. results[n] \in MatrixReports
    BY <1>2, <1>3, <1>7, <2>3 DEF ReportsOf
  <2>5. GCE!report(worse).decision = "promote_to_larger_local_validation"
    <3>1. Promotes("growth_evidence", settings, worse)
      BY <1>7
    <3> HIDE DEF worse
    <3> QED  BY <3>1, PromotesMeans
  <2>6. GCE!report(results).decision = "promote_to_larger_local_validation"
    BY <1>1, <2>1, <2>4, <2>5, GrowthIsMonotone
  <2> QED  BY <1>7, <2>6, PromotesMeans
<1>8. CASE program = "campaign_matrix_evidence"
  <2>1. results[n] \in DeltaReports /\ r \in WorseDeltas(results[n])
    BY <1>3, <1>8 DEF ReportsOf, Worse
  <2>2. CME!aggregate(worse).decision = "robust"
    <3>1. Promotes("campaign_matrix_evidence", settings, worse)
      BY <1>8
    <3> HIDE DEF worse
    <3> QED  BY <3>1, PromotesMeans
  <2>3. CME!aggregate(results).decision = "robust"
    BY <1>1, <2>1, <2>2, MatrixIsMonotone
  <2> QED  BY <1>8, <2>3, PromotesMeans
<1> QED  BY <1>4, <1>5, <1>6, <1>7, <1>8 DEF Evidence

\* The decision of each of the five campaign programs is monotone in its
\* evidence: with the result of any one stage that ran replaced by one less
\* favourable to the candidate, a report that did not promote it does not
\* promote it either, whatever the tools report, however many sessions that
\* took, and whatever limits, matrices and thresholds the program is run with.
THEOREM WorseEvidenceCorrect == Spec => []WorseEvidenceNeverPromotes
<1>1. Init => settings \in CommandLines[program]
  BY DEF Init, InitFor
<1>2. settings \in CommandLines[program] /\ [Next]_vars => (settings \in CommandLines[program])'
  BY LineStays
<1>3. Spec => [](settings \in CommandLines[program])
  BY <1>1, <1>2, PTL DEF Spec
<1>4. IInv /\ EvidenceInv /\ settings \in CommandLines[program] => WorseEvidenceNeverPromotes
  BY WorseState
<1> QED  BY <1>3, <1>4, SpecEvidence, PTL
=============================================================================
