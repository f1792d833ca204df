-------------------------- MODULE ResumableCampaign --------------------------
(***************************************************************************)
(* The local campaign programs under src/tools: each walks a fixed list of *)
(* stages, runs one external tool per stage, and writes a resume sidecar   *)
(* beside the outputs of the stage.  A later session of the same program   *)
(* may be started with --resume, with another command line, after a crash, *)
(* and after somebody replaced an input or removed outputs by hand.        *)
(*                                                                         *)
(* What the programs share is here; what they differ in (their stages and  *)
(* when they reuse, refuse or rerun one) comes in as constants, defined by *)
(* MCResumableCampaign.  A file is known by what it was made from: equal   *)
(* checksums are equal contents.  The outputs of a stage are one group,    *)
(* for the programs always fingerprint all of them together.               *)
(***************************************************************************)
EXTENDS CampaignStage

CONSTANTS
    Programs,          \* the programs, one of which the directory belongs to
    StagesOf,          \* program -> sequence of stages
    CommandLines,      \* program -> set of command lines (settings)
    Sources,           \* program -> files made elsewhere, tools among them
    Verdict(_, _),     \* program, look of a stage -> "run", "reuse", "refuse"
    Outcomes(_, _),    \* program, stage -> what the tool may find out
    Planned(_, _, _),  \* program, stage, results -> is the stage to be run?
    Ready(_, _, _),    \* program, stage, results -> no objection to start it?
    Accepts(_, _, _),  \* program, stage, content -> is the output believed?
    Conclude(_, _, _), \* program, settings, results -> what the report says
    Quotes(_, _),      \* program, stage -> is the output quoted if it exists?
    Keepers,           \* programs that do not write over a finished stage
    MaxSessions,       \* bound on sessions, per program
    MaxMishaps         \* bound on crashes and on edits by hand, per program

Looks == [files : {Absent, Some, Torn, Entire}, sidecar : BOOLEAN,
          matches : BOOLEAN, resume : BOOLEAN]

\* A stage is reused only when its sidecar matches.
ASSUME ReuseAssumption ==
    \A p \in Programs, look \in Looks : Verdict(p, look) = "reuse" => look.matches

\* A keeper reuses or refuses a stage that has its outputs.
ASSUME KeepersAssumption ==
    \A p \in Keepers, look \in Looks : Verdict(p, look) = "run" => look.files # Entire

\* A stage reads sources and outputs of the program, and its sidecar lists
\* some of what it reads.  No stage reads what it or a later one writes.  Two
\* stages with the same outputs are alternatives of one setting.
ASSUME StagesAssumption ==
    \A p \in Programs :
        /\ Len(StagesOf[p]) \in Nat \ {0}
        /\ DOMAIN StagesOf[p] = 1..Len(StagesOf[p])
        /\ \A i, j \in DOMAIN StagesOf[p] :
              LET s == StagesOf[p][i]
                  t == StagesOf[p][j]
              IN  /\ s.prints \subseteq s.reads
                  /\ s.reads \subseteq Sources[p] \cup {StagesOf[p][k].out : k \in DOMAIN StagesOf[p]}
                  /\ i <= j => t.out \notin s.reads \ Sources[p]
                  /\ i # j => s.name # t.name
                  /\ i # j /\ s.out = t.out =>
                        /\ s.when # <<>> /\ t.when # <<>>
                        /\ s.when[1] = t.when[1] /\ s.when[2] # t.when[2]

VARIABLES
    program,   \* whose output directory this is
    sources,   \* source -> its current version
    disk,      \* output group -> Absent, Some, Torn or its content
    side,      \* stage -> Absent, Torn or the sidecar
    inner,     \* stages that left files of an inner campaign behind
    phase,     \* "idle", "stage", "tool", "writing", "publish" or "report"
    settings,  \* the command line of the session
    resume,    \* was it started with --resume?
    at,        \* index of the stage the session has come to
    expected,  \* the metadata computed before the tool was started
    status,    \* stage -> what the session did about it
    results,   \* stage -> what its tool found out
    report,    \* the campaign report on disk, or None
    sessions, mishaps

vars == <<program, sources, disk, side, inner, phase, settings, resume, at,
          expected, status, results, report, sessions, mishaps>>

disk_vars == <<disk, side, inner>>
fixed_vars == <<program, sources>>
session_vars == <<settings, resume, sessions>>

-----------------------------------------------------------------------------
Stages == StagesOf[program]
StageSet == {Stages[i] : i \in DOMAIN Stages}
Names == {s.name : s \in StageSet}
Groups == {s.out : s \in StageSet}
Named(n) == CHOOSE s \in StageSet : s.name = n

\* A content made by a stage, as opposed to the three states of a group that
\* is not whole: no file of it, some but not all, all but one cut short.
Whole(c) == c \notin {Absent, Some, Torn}

\* What a stage's input is now: a source, or an output on disk.
Now(n) == IF n \in Sources[program] THEN sources[n] ELSE disk[n]
Inputs(names) == [n \in names |-> Now(n)]
Chosen(s) == [f \in s.flags |-> settings[f]]

Made(s, result) == [is |-> "whole", by |-> s.name, with |-> Chosen(s),
                    from |-> Inputs(s.reads), result |-> result]

\* resume_expected_metadata and its kin: command, inputs and, where the
\* program records them, the identities of its tools.
Expected(s) == [by |-> s.name, with |-> Chosen(s), from |-> Inputs(s.prints)]
Complete(e, out) == [is |-> "whole", expected |-> e, output |-> out]
MatchesOutputs(s) == side[s.name] \notin {Absent, Torn} /\ side[s.name].output = disk[s.out]
Matches(s) == side[s.name] = Complete(Expected(s), disk[s.out])

\* Mutant: outputs are looked for only where a sidecar lists them.
LookOfListed(s) ==
    [files |-> CASE side[s.name] = Absent -> Absent
                 [] Whole(disk[s.out])    -> Entire
                 [] OTHER                 -> disk[s.out],
     sidecar |-> side[s.name] # Absent,
     matches |-> Matches(s) /\ Whole(disk[s.out]),
     resume |-> resume]

\* All a program looks at before it decides about a stage.
LookOf(s) ==
    [files |-> IF Whole(disk[s.out]) THEN Entire ELSE disk[s.out],
     sidecar |-> side[s.name] # Absent,
     matches |-> Matches(s) /\ Whole(disk[s.out]),
     resume |-> resume]

\* Does this command line, and what the session has found out, ask for s?
Enabled(s) ==
    /\ s.when # <<>> => settings[s.when[1]] = s.when[2]
    /\ s.planned => Planned(program, s, results)
KeepsGoing(s) == settings["keep_going"] /\ ~s.required
Done(i) == i \in DOMAIN Stages /\ status[Stages[i].name] \in {"ok", "reused"}

\* The output is what this command line makes of what is there now.
Current(s) ==
    /\ Whole(disk[s.out])
    /\ disk[s.out].by = s.name
    /\ disk[s.out].with = Chosen(s)
    /\ \A n \in s.prints : disk[s.out].from[n] = Now(n)

-----------------------------------------------------------------------------
InitFor(p) ==
    /\ program = p
    /\ sources = [x \in Sources[p] |-> 1]
    /\ disk = [g \in {StagesOf[p][i].out : i \in DOMAIN StagesOf[p]} |-> Absent]
    /\ side = [n \in {StagesOf[p][i].name : i \in DOMAIN StagesOf[p]} |-> Absent]
    /\ inner = {}
    /\ phase = "idle"
    /\ settings \in CommandLines[p]
    /\ resume = FALSE
    /\ at = 1
    /\ expected = None
    /\ status = [n \in DOMAIN side |-> "none"]
    /\ results = [n \in DOMAIN side |-> None]
    /\ report = None
    /\ sessions = 0
    /\ mishaps = 0

Init == \E p \in Programs : InitFor(p)

\* A session starts: any command line, with or without --resume.
StartSession(line, r) ==
    /\ phase = "idle"
    /\ sessions < MaxSessions[program]
    /\ phase' = "stage"
    /\ settings' = line
    /\ resume' = r
    /\ at' = 1
    /\ expected' = None
    /\ status' = [n \in Names |-> "none"]
    /\ results' = [n \in Names |-> None]
    /\ sessions' = sessions + 1
    /\ UNCHANGED <<fixed_vars, disk_vars, report, mishaps>>

\* The session goes on behind stage s.
PassOn(s, outcome) ==
    /\ status' = [status EXCEPT ![s.name] = outcome]
    /\ at' = at + 1
    /\ phase' = IF at = Len(Stages) THEN "report" ELSE "stage"

\* The program raises its error and exits: no report is written.
Refuse(s) ==
    /\ status' = [status EXCEPT ![s.name] = "refused"]
    /\ phase' = "idle"
    /\ UNCHANGED <<at, results>>

\* An optional stage the command line does not ask for.
SkipStage(s) ==
    /\ phase = "stage" /\ ~Enabled(s)
    /\ PassOn(s, "skipped")
    /\ UNCHANGED <<fixed_vars, session_vars, disk_vars, expected, results,
                   report, mishaps>>

ReuseStage(s) ==
    /\ phase = "stage" /\ Enabled(s) /\ Ready(program, s, results)
    /\ Verdict(program, LookOf(s)) = "reuse"
    /\ PassOn(s, "reused")
    /\ results' = [results EXCEPT ![s.name] = disk[s.out].result]
    /\ UNCHANGED <<fixed_vars, session_vars, disk_vars, expected, report, mishaps>>

RefuseStage(s) ==
    /\ phase = "stage" /\ Enabled(s)
    /\ Ready(program, s, results) => Verdict(program, LookOf(s)) = "refuse"
    /\ Refuse(s)
    /\ UNCHANGED <<fixed_vars, session_vars, disk_vars, expected, report, mishaps>>

\* The expected metadata is computed before the tool is started.
RunStage(s) ==
    /\ phase = "stage" /\ Enabled(s) /\ Ready(program, s, results)
    /\ Verdict(program, LookOf(s)) = "run"
    /\ expected' = Expected(s)
    /\ phase' = "tool"
    /\ UNCHANGED <<fixed_vars, session_vars, disk_vars, at, status, results,
                   report, mishaps>>

\* What a tool leaves that has started to write its files one by one.
HalfWritten(s) ==
    IF disk[s.out] \in {Absent, Some} /\ s.files > 1
    THEN {Some, Torn} ELSE {Torn}

\* The tool opens its outputs.  A stage that starts another campaign in its
\* own directory cannot get past the files an earlier start of it left there.
ToolWrites(s) ==
    /\ phase = "tool"
    /\ s.name \notin inner
    /\ \E c \in HalfWritten(s) : disk' = [disk EXCEPT ![s.out] = c]
    /\ inner' = IF s.nested THEN inner \cup {s.name} ELSE inner
    /\ phase' = "writing"
    /\ UNCHANGED <<fixed_vars, session_vars, side, at, expected, status,
                   results, report, mishaps>>

ToolFinishes(s) ==
    /\ phase = "writing"
    /\ \E r \in Outcomes(program, s) :
          /\ disk' = [disk EXCEPT ![s.out] = Made(s, r)]
          /\ results' = [results EXCEPT ![s.name] = r]
    /\ IF s.sidecar
       THEN /\ phase' = "publish"
            /\ UNCHANGED <<at, status>>
       ELSE PassOn(s, "ok")
    /\ UNCHANGED <<fixed_vars, session_vars, side, inner, expected, report, mishaps>>

\* The tool exits with an error.  Most programs give up; the matrices record
\* a failed run and go on, or stop early and still write their report.
ToolFails(s) ==
    /\ phase \in {"tool", "writing"}
    /\ \/ s.name \in inner /\ phase = "tool" /\ UNCHANGED mishaps
       \/ mishaps < MaxMishaps[program] /\ mishaps' = mishaps + 1
    /\ \/ /\ ~s.tolerant
          /\ Refuse(s)
       \/ /\ s.tolerant
          /\ results' = [results EXCEPT ![s.name] = Failed]
          /\ IF KeepsGoing(s)
             THEN PassOn(s, "failed")
             ELSE /\ status' = [status EXCEPT ![s.name] = "failed"]
                  /\ phase' = "report"
                  /\ UNCHANGED at
    /\ UNCHANGED <<fixed_vars, session_vars, disk_vars, expected, report>>

\* The program refuses what its tool reported; no sidecar is written.
RejectOutput(s) ==
    /\ phase = "publish"
    /\ ~Accepts(program, s, disk[s.out])
    /\ Refuse(s)
    /\ UNCHANGED <<fixed_vars, session_vars, disk_vars, expected, report, mishaps>>

\* The sidecar: what was expected before, and the outputs as they are now.
PublishSidecar(s) ==
    /\ phase = "publish"
    /\ Accepts(program, s, disk[s.out])
    /\ side' = [side EXCEPT ![s.name] = Complete(expected, disk[s.out])]
    /\ PassOn(s, "ok")
    /\ UNCHANGED <<fixed_vars, session_vars, disk, inner, expected, results,
                   report, mishaps>>

\* The campaign report is built from the stages of the session, and from
\* outputs the program quotes whenever the file is there.
FinishReport ==
    /\ phase = "report"
    /\ report' = [settings |-> settings, resume |-> resume,
                  quoted |-> {n \in Names :
                                 \/ status[n] \in {"ok", "reused"}
                                 \/ /\ Quotes(program, Named(n))
                                    /\ disk[Named(n).out] \notin {Absent, Some}},
                  status |-> status,
                  says |-> Conclude(program, settings, results)]
    /\ phase' = "idle"
    /\ UNCHANGED <<fixed_vars, session_vars, disk_vars, at, expected, status,
                   results, mishaps>>

\* The process dies; a sidecar that was being written may be cut short.
Crash ==
    /\ phase # "idle"
    /\ mishaps < MaxMishaps[program]
    /\ mishaps' = mishaps + 1
    /\ phase' = "idle"
    /\ side' \in IF phase = "publish"
                 THEN {side, [side EXCEPT ![Stages[at].name] = Torn]} ELSE {side}
    /\ UNCHANGED <<fixed_vars, session_vars, disk, inner, at, expected, status,
                   results, report>>

\* Between sessions an input or a tool is replaced by another version ...
ReplaceSource(x) ==
    /\ phase = "idle" /\ sessions > 0
    /\ mishaps < MaxMishaps[program]
    /\ mishaps' = mishaps + 1
    /\ sources' = [sources EXCEPT ![x] = @ + 1]
    /\ UNCHANGED <<program, session_vars, disk_vars, phase, at, expected,
                   status, results, report>>

\* ... or somebody removes the outputs of a stage, as the errors advise.
RemoveOutputs(s) ==
    /\ phase = "idle" /\ disk[s.out] # Absent
    /\ mishaps < MaxMishaps[program]
    /\ mishaps' = mishaps + 1
    /\ disk' = [disk EXCEPT ![s.out] = Absent]
    /\ side' \in {side, [side EXCEPT ![s.name] = Absent]}
    /\ inner' \in {inner, inner \ {s.name}}
    /\ UNCHANGED <<fixed_vars, session_vars, phase, at, expected, status,
                   results, report>>

StageStep(s) ==
    \/ SkipStage(s)    \/ ReuseStage(s)   \/ RefuseStage(s) \/ RunStage(s)
    \/ ToolWrites(s)   \/ ToolFinishes(s) \/ ToolFails(s)
    \/ RejectOutput(s) \/ PublishSidecar(s)

Next ==
    \/ \E line \in CommandLines[program], r \in BOOLEAN : StartSession(line, r)
    \/ at \in DOMAIN Stages /\ StageStep(Stages[at])
    \/ FinishReport
    \/ Crash
    \/ \E x \in Sources[program] : ReplaceSource(x)
    \/ \E s \in StageSet : RemoveOutputs(s)

Spec == Init /\ [][Next]_vars

-----------------------------------------------------------------------------
\* What a sidecar says of the outputs it lists is what they were made from:
\* the command and the inputs, though both are looked at before the tool runs
\* and the outputs after it, with crashes and edits by hand in between.
SidecarTellsTruth ==
    \A s \in StageSet :
        side[s.name] \notin {Absent, Torn} =>
            LET e == side[s.name].expected
                made == side[s.name].output
            IN  /\ made.by = e.by /\ made.with = e.with
                /\ \A n \in s.prints : made.from[n] = e.from[n]

\* Whatever a session has taken over from an earlier one, or made itself, is
\* what its own command line makes of the inputs as they are now: a report
\* never mixes the evidence of different settings or inputs.
ReportIsCurrent ==
    phase # "idle" => \A s \in StageSet : status[s.name] \in {"ok", "reused"} => Current(s)

\* No session of a keeper, with whatever options and after whatever crash,
\* replaces outputs that an earlier one finished.
FinishedStagesStand ==
    [][phase # "idle" /\ program \in Keepers =>
          \A s \in StageSet : Whole(disk[s.out]) => disk'[s.out] = disk[s.out]]_vars
=============================================================================
