---------------------------- MODULE CampaignStage ----------------------------
(***************************************************************************)
(* What the campaign programs are described with: the record of a stage    *)
(* (see ResumableCampaign), and sums and counts over what tools reported.  *)
(***************************************************************************)
EXTENDS Integers, Sequences, FiniteSetsExt

CONSTANTS None, Failed   \* no value yet; the result of a tool that failed

\* The files of an output group: none, some of them, all of them with one cut
\* short, or all of them whole.  A group that is whole has a content besides.
Absent == [is |-> "absent"]
Some == [is |-> "some"]
Torn == [is |-> "torn"]
Entire == [is |-> "whole"]

\* One tool run of a campaign program that writes one file.
Stage(name) ==
    [name |-> name,
     kind |-> "",        \* what it compares, where a program has variants
     out |-> name,       \* the group of its outputs
     files |-> 1,        \* how many files are in that group
     reads |-> {},       \* outputs of other stages and sources it reads
     prints |-> {},      \* those whose checksums its sidecar records
     flags |-> {},       \* the settings in its command
     when |-> <<>>,      \* <<setting, value>>: it runs only then
     planned |-> FALSE,  \* does it depend on earlier results if it runs?
     sidecar |-> TRUE,   \* does it write a sidecar at all?
     tolerant |-> FALSE, \* is a failed tool run recorded, not fatal?
     required |-> FALSE, \* ... except for this one
     nested |-> FALSE]   \* does its tool keep a directory of its own?

\* A tool whose sidecar lists all the files it reads.
Fingerprinted(name, files, inputs, flags) ==
    [Stage(name) EXCEPT !.files = files, !.reads = inputs, !.prints = inputs,
                        !.flags = flags]

\* A tool has run in this session or an earlier one, and said something.
IsKnown(result) == result # None /\ result # Failed

TotalOf(f) == MapThenSumSet(LAMBDA x : f[x], DOMAIN f)
Ceiling(num, den) == (num + den - 1) \div den
=============================================================================
