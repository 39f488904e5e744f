---------------------------- MODULE MCFramework ----------------------------
EXTENDS Framework

CONSTANTS f1, f2

\* In every plan a generator step's FilePath names the file its options
\* make it write (out = file).

\* A plan that changes both needed files: a generator step and an edit.
PlanComplete == << [type |-> "GenerateKRM", file |-> f1, out |-> f1],
                   [type |-> "ModifyFile", file |-> f2, out |-> f2] >>
\* A plan that misses a needed file.
PlanPartial == << [type |-> "ModifyFile", file |-> f2, out |-> f2] >>
\* A plan whose first step has a type executeStep does not know.
PlanUnknownStep == << [type |-> "Unknown", file |-> f1, out |-> f1],
                      [type |-> "ModifyFile", file |-> f2, out |-> f2] >>
\* A plan of generator steps only.
PlanGenerated == << [type |-> "GenerateKRM", file |-> f1, out |-> f1],
                    [type |-> "GenerateMapper", file |-> f2, out |-> f2] >>

\* A complete plan that edits a file before running a generator.
PlanEditFirst == << [type |-> "ModifyFile", file |-> f2, out |-> f2],
                    [type |-> "GenerateKRM", file |-> f1, out |-> f1] >>

MCPlans == {PlanComplete, PlanPartial, PlanUnknownStep}
MCPlansComplete == {PlanComplete}
MCPlansGenerated == {PlanGenerated}
MCPlansEditFirst == {PlanEditFirst}
=============================================================================
