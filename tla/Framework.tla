----------------------------- MODULE Framework -----------------------------
(***************************************************************************)
(* The phase-driven orchestration engine of dev/tools/aiframework:         *)
(* Framework.ProcessAPIChange (framework/framework.go), the four phase     *)
(* handlers (framework/phases.go) and the side effects they reach through  *)
(* the Tools and Validator collaborators (tools/tools.go,                  *)
(* validators/complation.go) and the review parser of the AI client        *)
(* (client.go/gemini.go).                                                  *)
(*                                                                         *)
(* One loop iteration of ProcessAPIChange (runPhase plus the bookkeeping   *)
(* that follows it) is one atomic action: the program is single-threaded  *)
(* and nothing else observes UpdateContext while a phase runs.  External   *)
(* calls that can fail transiently draw from a named fault budget.         *)
(***************************************************************************)
EXTENDS Naturals, Sequences, SequencesExt, FiniteSets

CONSTANTS
  Files,       \* file paths an implementation plan can name
  ReqFiles,    \* the files the API change really needs changed for the build to pass
  Plans,       \* the implementation plans the AI client can return (sequences of steps)
  MaxRetries,  \* UpdateContext.MaxRetries, hard-coded to 3 in ProcessAPIChange
  FaultyOps,   \* kinds of external call allowed to fail transiently: "ai", "fs", "gen", "git"
  MaxFaults,   \* bound on the number of transient faults in one behaviour
  None         \* a model value: a nil field of UpdateState or AttemptResult

StepTypes == {"GenerateKRM", "GenerateMapper", "ModifyFile", "Unknown"}
\* FilePath, and for a generator step the file its options make it write
\* (GenerateKRMTypes and GenerateMapper are passed the options, never
\* FilePath).
Steps == [type : StepTypes, file : Files, out : Files]

ASSUME ReqFiles \subseteq Files
ASSUME Plans \subseteq Seq(Steps)
ASSUME MaxRetries \in Nat \ {0}
ASSUME FaultyOps \subseteq {"ai", "fs", "gen", "git"}
ASSUME MaxFaults \in Nat

VARIABLES
  phase,           \* ctx.State.Phase
  currentAttempt,  \* ctx.State.CurrentAttempt
  history,         \* ctx.History, one record per failed attempt plus the success
  result,          \* "running" inside the loop, then what ProcessAPIChange returns
  analysis,        \* ctx.State.Analysis
  modifiedFiles,   \* ctx.State.ModifiedFiles
  plannedMods,     \* ctx.State.PlannedModifications (set only by the review)
  lastValidation,  \* ctx.State.LastValidationResults
  disk,            \* state of each file in the working tree
  git,             \* git/GitHub effects reached by Tools.CreatePR
  faults,          \* transient faults injected so far
  validatedTree,   \* (history) the tree the last successful validation judged
  publishedTree    \* (history) the tree committed by CreatePR

vars == <<phase, currentAttempt, history, result, analysis, modifiedFiles,
          plannedMods, lastValidation, disk, git, faults, validatedTree,
          publishedTree>>

Phases == <<"Analysis", "Implementation", "Validation", "PRCreation">>

\* A file is untouched, holds the intended change, had line-range edits
\* applied to already-edited content, or was left half-written.
DiskStates == {"orig", "done", "redone", "torn"}

\* A ValidationResult (with its CompileErrors) as the verdict it carries.
Verdicts == {"pass", "fail"}

\* An AttemptResult: its phase, whether Error is set, ValidationResults and
\* ModificationsAttempted; the timestamp and the error text are left out.
AttemptResults == [phase : {Phases[i] : i \in 1..4}, failed : BOOLEAN,
                   vres : {None} \cup Verdicts, mods : {None, "fixes"}]

\* git effects of CreatePR, one per command it runs
GitEffects == {"branch", "staged", "commit", "push", "pr"}

TypeOK ==
  /\ phase \in {Phases[i] : i \in 1..4}
  /\ currentAttempt \in Nat
  /\ history \in Seq(AttemptResults)
  /\ result \in {"running", "success", "failed"}
  /\ analysis \in {None, "some"}
  /\ modifiedFiles \in Seq(Files)
  /\ plannedMods \in {None, "fixes"}
  /\ lastValidation \in {None} \cup Verdicts
  /\ disk \in [Files -> DiskStates]
  /\ git \subseteq GitEffects
  /\ faults \in 0..MaxFaults
  /\ validatedTree \in [Files -> DiskStates] \cup {None}
  /\ publishedTree \in [Files -> DiskStates] \cup {None}

-----------------------------------------------------------------------------
(* Helpers translated from the handlers.                                    *)

\* Mutant: a phase constant renamed in one place only ("Publish").
NextPhaseStaleName(p) ==
  CASE p = "Analysis"       -> "Implementation"
    [] p = "Implementation" -> "Validation"
    [] p = "Validation"     -> "Publish"
    [] OTHER                -> "Analysis"

\* Mutant: Implementation hands over straight to PRCreation.
NextPhaseSkipValidation(p) ==
  CASE p = "Analysis"       -> "Implementation"
    [] p = "Implementation" -> "PRCreation"
    [] p = "Validation"     -> "PRCreation"
    [] OTHER                -> "Analysis"

\* nextPhase in framework.go

NextPhase(p) ==
  CASE p = "Analysis"       -> "Implementation"
    [] p = "Implementation" -> "Validation"
    [] p = "Validation"     -> "PRCreation"
    [] OTHER                -> "Analysis"

\* The CompilationValidator runs `go build ./...` over the tree: it passes
\* when every file the change needs holds the change and nothing is broken.
BuildPasses(d) ==
  /\ \A f \in ReqFiles : d[f] = "done"
  /\ \A f \in Files : d[f] \in {"orig", "done"}

\* An external call of kind op fails transiently, charged to the budget.
Fault(op) ==
  /\ op \in FaultyOps
  /\ faults < MaxFaults
  /\ faults' = faults + 1

\* GeminiAIClient.PreparePRDescription and the other client calls go
\* through generateContent: the GenerateContent request fails and its
\* error is returned, a transient fault; otherwise the text parts of the
\* first candidate are the answer.
AIFails == Fault("ai")

\* GeminiAIClient.AnalyzeChange: the AffectedFiles and RequiredChanges
\* parsed from the answer (AdvisorParse models the parsers); no later
\* phase reads them.
Analysed == "some"

\* GeminiAIClient.PlanImplementation: parsePlan of the answer, one of the
\* plans of the model.
PlanImplementation == Plans

\* What a successful step of executeStep leaves in its file: a generator
\* rewrites the whole file; applyModifications re-addresses line ranges of
\* the original file, so applying it to edited content corrupts it.
AfterStep(type, st) ==
  CASE type \in {"GenerateKRM", "GenerateMapper"} -> "done"
    [] type = "ModifyFile" /\ st = "orig"         -> "done"
    [] type = "ModifyFile" /\ st = "torn"         -> "torn"
    [] type = "ModifyFile"                        -> "redone"
    [] OTHER                                      -> st

\* The file a step writes: a generator its output, an edit its FilePath.
Written(s) == IF s.type \in {"GenerateKRM", "GenerateMapper"} THEN s.out ELSE s.file

ExecuteStep(d, s) == [d EXCEPT ![Written(s)] = AfterStep(s.type, @)]

\* executeStep has no default case: a step of unknown type does nothing
\* and is not appended to ModifiedFiles.
Known(s) == s.type # "Unknown"

\* Mutant: only edit steps append their FilePath.
AppendedFilesEditsOnly(steps) ==
  LET ks == SelectSeq(steps, LAMBDA s : s.type = "ModifyFile")
  IN [i \in 1..Len(ks) |-> ks[i].file]

\* Mutant: every step's file is appended, as a default case would.
AppendedFilesAll(steps) == [i \in 1..Len(steps) |-> steps[i].file]

AppendedFiles(steps) ==
  LET ks == SelectSeq(steps, Known) IN [i \in 1..Len(ks) |-> ks[i].file]

\* How a step fails: ReadFile or MkdirAll fail before the file is touched,
\* os.WriteFile fails after truncating it; a generator fails before or after
\* writing part of its output.
FailModes(type) ==
  CASE type = "ModifyFile"                        -> {"fs", "fsTorn"}
    [] type \in {"GenerateKRM", "GenerateMapper"} -> {"gen", "genTorn"}
    [] OTHER                                      -> {}
OpOf(mode) == IF mode \in {"fs", "fsTorn"} THEN "fs" ELSE "gen"
Tears(mode) == mode \in {"fsTorn", "genTorn"}

\* `git commit` records HEAD (the tree as the run found it) with the staged
\* paths replaced by their content on disk; nothing else is committed.
Committed(d, staged) == [f \in Files |-> IF f \in staged THEN d[f] ELSE "orig"]

\* The git/gh commands of Tools.CreatePR, in order, and the effect of each.
GitStages == <<"checkout", "add", "commit", "push", "prCreate">>
EffectOf == [checkout |-> "branch", add |-> "staged", commit |-> "commit",
             push |-> "push", prCreate |-> "pr"]

\* Whether the command can succeed in the current state: the branch name is
\* derived only from the API change, so `git checkout -b` fails once it
\* exists; `git commit` fails when nothing was added.
GitCanPass(st) ==
  CASE st = "checkout" -> "branch" \notin git
    [] st = "commit"   -> modifiedFiles # <<>>
    [] OTHER           -> TRUE

\* A command that can pass fails only by a transient fault; the `git add`
\* loop runs no command when there is no file.
GitFails(st) ==
  IF GitCanPass(st)
  THEN /\ st # "add" \/ modifiedFiles # <<>>
       /\ Fault("git")
  ELSE UNCHANGED faults

-----------------------------------------------------------------------------
(* The loop of ProcessAPIChange.                                            *)

\* Mutant: the loop condition written with <=.
RunningOffByOne == result = "running" /\ currentAttempt <= MaxRetries

Running == result = "running" /\ currentAttempt < MaxRetries

\* Mutant: the failure is recorded but the attempt counter not charged.
RecordFailureNoCharge(vres, mods) ==
  /\ history' = Append(history, [phase |-> phase, failed |-> TRUE,
                                 vres |-> vres, mods |-> mods])
  /\ UNCHANGED <<phase, result, currentAttempt>>

\* runPhase returned an error: record the attempt with its phase context,
\* charge the retry budget, and retry the same phase.
RecordFailure(vres, mods) ==
  /\ history' = Append(history, [phase |-> phase, failed |-> TRUE,
                                 vres |-> vres, mods |-> mods])
  /\ currentAttempt' = currentAttempt + 1
  /\ UNCHANGED <<phase, result>>

\* runPhase succeeded in PRCreation: the terminal record, then return nil.
RecordSuccess ==
  /\ history' = Append(history, [phase |-> "PRCreation", failed |-> FALSE,
                                 vres |-> None, mods |-> None])
  /\ result' = "success"
  /\ UNCHANGED <<phase, currentAttempt, faults>>

\* runPhase succeeded in a phase other than PRCreation.
Advance ==
  /\ phase' = NextPhase(phase)
  /\ UNCHANGED <<currentAttempt, history, result>>

Init ==
  /\ phase = "Analysis"
  /\ currentAttempt = 0
  /\ history = <<>>
  /\ result = "running"
  /\ analysis = None
  /\ modifiedFiles = <<>>
  /\ plannedMods = None
  /\ lastValidation = None
  /\ disk = [f \in Files |-> "orig"]
  /\ git = {}
  /\ faults = 0
  /\ validatedTree = None
  /\ publishedTree = None

\* analyzeChange
AnalyzeChange ==
  /\ Running /\ phase = "Analysis"
  /\ \/ /\ analysis' = Analysed
        /\ Advance
        /\ UNCHANGED faults
     \/ /\ AIFails
        /\ RecordFailure(None, None)
        /\ UNCHANGED analysis
  /\ UNCHANGED <<modifiedFiles, plannedMods, lastValidation, disk, git,
                 validatedTree, publishedTree>>

\* implementChange: plan, then execute the steps in order; the first
\* failing step aborts the rest and nothing already written is rolled back.
ImplementChange ==
  /\ Running /\ phase = "Implementation"
  /\ \/ /\ AIFails
        /\ RecordFailure(None, plannedMods)
        /\ UNCHANGED <<disk, modifiedFiles>>
     \/ \E p \in PlanImplementation :
          \/ /\ disk' = FoldLeft(ExecuteStep, disk, p)
             /\ modifiedFiles' = modifiedFiles \o AppendedFiles(p)
             /\ Advance
             /\ UNCHANGED faults
          \/ \E k \in 0..(Len(p) - 1) : \E mode \in FailModes(p[k + 1].type) :
               LET ran  == SubSeq(p, 1, k)
                   bad  == Written(p[k + 1])
                   left == FoldLeft(ExecuteStep, disk, ran)
               IN /\ Fault(OpOf(mode))
                  /\ disk' = IF Tears(mode) THEN [left EXCEPT ![bad] = "torn"]
                                            ELSE left
                  /\ modifiedFiles' = modifiedFiles \o AppendedFiles(ran)
                  /\ RecordFailure(None, plannedMods)
  /\ UNCHANGED <<analysis, plannedMods, lastValidation, git, validatedTree,
                 publishedTree>>

\* parseReviewDecision: an answer containing "success" anywhere (also
\* "unsuccessful") is an approval; otherwise its Modification lines,
\* possibly none, are the fixes.
ParseReviewDecision == {"mentionsSuccess", "fixes"}

\* ReviewValidationResult: a passing build is approved without asking the
\* AI; otherwise the AI call may fail or its answer is parsed.
ReviewOutcomes(passed) ==
  IF passed THEN {"approve"} ELSE {"aiError"} \cup ParseReviewDecision

\* validateChange, with every validator a CompilationValidator (which
\* reports a failed build as a result, never as an error).
ValidateChange ==
  /\ Running /\ phase = "Validation"
  /\ LET passed == BuildPasses(disk)
         vres   == IF passed THEN "pass" ELSE "fail"
     IN /\ lastValidation' = vres
        /\ \E r \in ReviewOutcomes(passed) :
             \/ /\ r \in {"approve", "mentionsSuccess"}
                /\ validatedTree' = disk
                /\ Advance
                /\ UNCHANGED <<plannedMods, faults>>
             \/ /\ r = "aiError"
                /\ AIFails
                /\ RecordFailure(vres, None)
                /\ UNCHANGED <<plannedMods, validatedTree>>
             \/ /\ r = "fixes"
                /\ plannedMods' = "fixes"
                /\ RecordFailure(vres, None)
                /\ UNCHANGED <<faults, validatedTree>>
  /\ UNCHANGED <<analysis, modifiedFiles, disk, git, publishedTree>>

\* Tools.CreatePR returns nil only when its n-th command was the last one.
CreatePRSucceeded(n) == n = Len(GitStages)

\* createPR: PreparePRDescription, then Tools.CreatePR runs its commands in
\* order and stops at the first that fails.  On success the loop appends
\* the terminal record and returns.
CreatePR ==
  /\ Running /\ phase = "PRCreation"
  /\ \/ /\ AIFails
        /\ RecordFailure(None, None)
        /\ UNCHANGED <<git, publishedTree>>
     \/ \E n \in 0..Len(GitStages) :
          /\ \A i \in 1..n : GitCanPass(GitStages[i])
          /\ git' = git \cup {EffectOf[GitStages[i]] : i \in 1..n}
          /\ publishedTree' = IF n >= 3 THEN Committed(disk, Range(modifiedFiles))
                               ELSE publishedTree
          /\ IF CreatePRSucceeded(n)
             THEN RecordSuccess
             ELSE /\ GitFails(GitStages[n + 1])
                  /\ RecordFailure(None, None)
  /\ UNCHANGED <<analysis, modifiedFiles, plannedMods, lastValidation, disk,
                 validatedTree>>

\* The loop condition fails: "max retries exceeded".
RetriesExhausted ==
  /\ result = "running"
  /\ currentAttempt >= MaxRetries
  /\ result' = "failed"
  /\ UNCHANGED <<phase, currentAttempt, history, analysis, modifiedFiles,
                 plannedMods, lastValidation, disk, git, faults,
                 validatedTree, publishedTree>>

\* ProcessAPIChange has returned.
Returned ==
  /\ result # "running"
  /\ UNCHANGED vars

Next ==
  \/ AnalyzeChange
  \/ ImplementChange
  \/ ValidateChange
  \/ CreatePR
  \/ RetriesExhausted
  \/ Returned

\* The loop runs without pause until it returns.
Spec == Init /\ [][Next]_vars /\ WF_vars(Next)

-----------------------------------------------------------------------------
(* Properties.                                                              *)

\* The retry budget of ProcessAPIChange: the history holds one record per
\* charged attempt plus the terminal success record, the counter never
\* passes MaxRetries, and "max retries exceeded" is returned exactly when
\* MaxRetries failures were recorded, all of them failures.
HistoryAccounting ==
  /\ currentAttempt <= MaxRetries
  /\ Len(history) = currentAttempt + (IF result = "success" THEN 1 ELSE 0)
  /\ Len(SelectSeq(history, LAMBDA h : h.failed)) = currentAttempt
  /\ result = "failed" => currentAttempt = MaxRetries

\* Spec 7: the written-files list reflects what was written, even on
\* failure.  CreatePR stages only ModifiedFiles, so the commit can differ
\* from the tree the last successful validation judged; it does so only
\* in a file a failed write tore (os.WriteFile truncating, a generator
\* stopping halfway) and no later step listed: every file a step wrote
\* completely is listed, and no phase after Validation touches the tree.
PublishedTreeValidated ==
  "commit" \in git =>
     \A f \in Files : publishedTree[f] # validatedTree[f] =>
                       /\ validatedTree[f] = "torn"
                       /\ f \notin Range(modifiedFiles)

\* ProcessAPIChange implements the orchestrator of spec 4.1: the phase,
\* the attempt counter and the outcome move as WorkflowAbstract allows,
\* and the run ends.
Abstract == INSTANCE WorkflowAbstract WITH failures <- currentAttempt
ImplementsWorkflow == Abstract!Spec

\* A Validation failure whose review planned corrective modifications
\* hands the next attempt to Implementation, which applies them (spec 4.2).
FixesReachImplementation ==
  [][ (/\ phase = "Validation"
       /\ plannedMods' = "fixes"
       /\ Len(history') > Len(history)
       /\ currentAttempt' < MaxRetries) => phase' = "Implementation" ]_vars

\* Every path in ModifiedFiles names a file a step has written: a step of
\* unknown type, and a step that fails, never list their file, whatever
\* plans, failures and retries came before.  CreatePR stages exactly these
\* paths, so a non-empty list means `git commit` has a change to commit.
ModifiedFilesWritten ==
  \A k \in 1..Len(modifiedFiles) : disk[modifiedFiles[k]] # "orig"

\* A pull request is only opened for a tree that compiles.
PublishedBuildPasses ==
  "commit" \in git => BuildPasses(publishedTree)

\* With the retry budget larger than the number of transient faults, a
\* run whose plan is right ends with a pull request (spec 4.1: every
\* handler error is recoverable).
FaultTolerated == <>(result = "success")

=============================================================================
