# TLA+ models of the aiframework update engine

This directory holds TLA+ models of `dev/tools/aiframework` in this repository,
and the TLC configurations that check them. The engine takes an API change and
automates the update. It runs four phases in order: Analysis, Implementation,
Validation and PR creation. A failed phase is retried within a retry budget.

## Inventory

| Component | Source | State it keeps | Operations |
|---|---|---|---|
| Orchestrator | `framework/framework.go` | `UpdateContext`: `State.Phase`, `State.CurrentAttempt`, `History`, `MaxRetries` (3) | `ProcessAPIChange` loop, `runPhase`, `nextPhase` |
| Phase handlers | `framework/phases.go` | writes `Analysis`, `ModifiedFiles`, `LastValidationResults`, `PlannedModifications` | `analyzeChange`, `implementChange`/`executeStep`, `validateChange`, `createPR` |
| Modification applier | `framework/phases.go` (`applyModifications`) | a `lines` slice that shares its backing array | reverse loop of slice splices, then `strings.Join` |
| Tools | `tools/tools.go` | the working tree and the git repository (external) | `ReadFile`, `WriteFile`, `GenerateKRMTypes`, `GenerateMapper`, `CreatePR` (checkout -b, add, commit, push, gh pr create), `FindRelatedFiles` (unused) |
| Compilation validator | `validators/complation.go` | none | `Validate` (`go build ./...`), `parseCompilerErrors` |
| Gemini AI client | `client.go/gemini.go` | none | `AnalyzeChange`, `PlanImplementation`, `ReviewValidationResult`, `PreparePRDescription`, the text parsers |
| API types | `api/types.go` | data only | — |
| Workstation reference | `apis/workstations/v1beta1/workstation_reference.go` | the `WorkstationRef` receiver (`External`, `Name`, `Namespace`) | `NormalizedExternal` |
| Others | generated KRM types, a generated fake clientset, a model-registration `init`, a Terraform acceptance test | — | — |

How the parts interact. `ProcessAPIChange` owns the context. In each loop
iteration it calls the handler for the current phase. Handlers make blocking
calls to the AI client, the tools and the validators, and they mutate the
context. There is one thread and no callbacks. The working tree and the git
repository are shared, mutable, and never rolled back.

What is hard:
- **Retries of non-idempotent work.** A retried phase repeats the side effects
  of the failed attempt. That means line edits re-applied to an edited file, and
  `git checkout -b` run on a branch that already exists.
- **Partial failure.** A plan aborts halfway. A write truncates a file and then
  fails. `CreatePR` fails after push.
- **The retry budget.** One counter is shared by every phase.
- **Control flow.** Validation failures retry Validation, not Implementation.
- **Parsing free text.** The word "success" anywhere approves a review.
- **Go slice semantics in the applier.** This covers inclusive ends, reverse
  order, capacity beyond length, and out-of-range panics.

What makes each part correct:
- **Orchestrator.** It stops after `MaxRetries` failures, and the history
  accounts for every attempt. Phases only move forward. It reports success
  exactly when a pull request was opened.
- **Handlers.** The committed tree is the validated tree, and it compiles.
  `ModifiedFiles` lists every file that was changed. Planned fixes get applied.
  A single transient fault is recovered from.
- **Applier.** An empty modification list is the identity. Every range lands on
  the original lines. An invalid range is rejected without a crash.
- **WorkstationRef.** Resolution is idempotent. `External` and `Name` are
  mutually exclusive, and the cluster is only consulted when `External` is
  empty.

## Modules

### `Framework.tla` (orchestrator, phase handlers, tools, validator, review)
One action is one iteration of the `ProcessAPIChange` loop: `runPhase` plus the
bookkeeping after it. The program is single-threaded, so nothing can interleave
inside an iteration.

| Action | Code |
|---|---|
| `AnalyzeChange` | `analyzeChange` |
| `ImplementChange` | `implementChange` + `executeStep` |
| `ValidateChange` | `validateChange` + `ReviewValidationResult` + `parseReviewDecision` |
| `CreatePR` | `createPR` + `Tools.CreatePR` |
| `RetriesExhausted` | the loop exit |
| `Returned` | after the function returned |

`RecordFailure` is the failure branch of the loop, and `Advance` is
`nextPhase`. The AI client calls are `Analysed` (`AnalyzeChange`),
`PlanImplementation` (a choice among `Plans`) and `AIFails`, the error
return of `generateContent` that every client call, `PreparePRDescription`
included, passes on.

Data is abstracted as follows:
- A file's content is one of four states: untouched, carrying the intended
  change, re-edited (line ranges applied on top of edited content), or torn (a
  partial write).
- The planner returns one plan from a set `Plans` of step sequences.
- The build passes when every file in `ReqFiles` carries the change and no file
  is re-edited or torn.
- The git repository is the set of effects reached: branch, staged, commit,
  push and pr. `Committed` is what `git commit` records: the tree as the
  run found it, with the staged paths (`ModifiedFiles`) taken from disk.
- A step writes `Written(s)`: an edit its `FilePath`, a generator the file
  its options make it write (`out`), since `GenerateKRMTypes` and
  `GenerateMapper` are passed the options and never `FilePath`. The plans
  of `MCFramework` set `out` to `FilePath`; a plan where they differ would
  leave the generated file unstaged. Re-editing already edited content is
  always "redone", whatever the ranges.
- `ModifiedFiles` is a sequence, because duplicates are possible.
- Two history variables record the tree at the last successful validation and
  the tree committed by `CreatePR`.

Transient failures of external calls are drawn from `FaultyOps`, with at most
`MaxFaults` in one behaviour. Failures that are determined by the state are not
faults and are always taken: `checkout -b` on an existing branch, `commit` with
nothing staged, and a review that returns fixes.

### `WorkflowAbstract.tla` (the orchestrator's promise, spec 4.1)
This module has three variables: a phase, a failure count and a result. A
phase either succeeds and hands over to the next phase in the fixed order, or
it fails and is charged to the single budget. The run succeeds right after
PRCreation succeeds, and it fails once the budget is spent. The spec has weak
fairness, so it also promises that the run ends.

`Framework` instantiates the module with `failures <- currentAttempt`; the
phase and the result map to themselves. `ImplementsWorkflow` (=
`Abstract!Spec`) is checked as a `PROPERTY` of `framework_core`.

### `ModApply.tla` (applyModifications)
The content is a sequence of one-character strings, and `"\n"` is the
separator. `Split` and `Join` model `strings.Split` and `strings.Join`, so n
separators give n+1 fields.

A slice is modelled as its backing array (its length is the capacity) together
with a length:
- `lines[:lo]` may reach up to the capacity.
- `lines[hi:]` may not go past the length.
- `append` writes in place while the capacity suffices. Otherwise it grows the
  array the way `growslice` does for small slices.
- Anything out of range is `Panic`.

Init chooses the inputs: a content and a sequence of modifications, with line
numbers 0..4 and texts of one line, two lines, or empty. Each `Iterate` step is
one loop iteration, last modification first. `Finish` is the join.

`ValueResult` is a reference definition: the same loop over plain
sequences, where `lines[:lo]` may not pass the length and nothing one
iteration writes is seen through an older slice. `SliceAliasingInvisible`
compares the two.

### `WorkstationRef.tla` (WorkstationRef.NormalizedExternal)
The method has a pointer receiver. It writes two things back into the
receiver: the defaulted `Namespace`, and the resolved `External`. So `ref`
is state that outlives a call.

- The cluster is a function from (name, namespace) keys to the state of the
  Workstation object under each key. An object is absent, has a malformed
  `status.externalRef`, is not ready (`""`), or carries its external
  reference.
- `ClusterChange` lets the Workstation controller create, ready, re-acquire
  or delete the object between calls.
- `NormalizedExternal(readFails)` is one whole call by the referencing
  resource, whose namespace `home` is fixed for the behaviour. It covers
  every return path of the method: both fields set, a parse error of the
  given `External`, a read error, NotFound, a malformed status, not ready,
  and resolved.
- `ParseWorkstationExternal` is defined outside these sources. It is
  abstracted to a set `WellFormed` of accepted values.
- Two history variables, `declared` (the reference as written) and `moved`
  (the cluster changed since the last call), state the properties.

### `AdvisorParse.tla` (the AI client's text parsers)
An answer is a sequence of lines. Each line is reduced to the prefix that
`strings.HasPrefix` finds at its start (`Step Type:`, `File:`,
`TypesOptions:`, `MapperOptions:`, `Modification:`, `Type:`,
`Description:`) and the trimmed value after it. A line with `File:` after
other text is `FileInside`, and all other lines are `Other`. A
`Modification:` line is the sequence of its `;`-separated parts.
`ParseModification` folds over the parts the way the `switch` does. An
`Sscanf` that fails leaves the field as it was, so a missing `StartLine`
stays 0.

- `parsePlan` is the state machine. Init chooses the answer, `ScanLine` is
  one loop iteration (its `switch`), and `Finish` adds the last open step.
- `parseRequiredChanges` and `parseAffectedFiles`, which `AnalyzeChange`
  applies to its own answer, are operators over the same lines.
- Reference definitions give each parse its meaning. `Blocks` is the steps
  an answer describes, one per `Step Type:` header. `ChangeBlocks` is the
  changes, one per `Description:` line.

## Runs

| Run | Expect | What it shows |
|---|---|---|
| `framework_core` (`MCFramework.cfg`) | pass | With every external call able to fail (up to 3 faults) and three plans (complete, missing a file, with an unknown step type): `HistoryAccounting` holds (the budget never exceeds 3, history length = attempts + success record, failure reported exactly at 3 failures). `PublishedTreeValidated` holds: `CreatePR` commits only the staged `ModifiedFiles`, and the commit differs from the validated tree only in a file a failed write tore and no later step listed (spec 7's unlisted write, tools.go:53; such a commit is reached). `ModifiedFilesWritten` holds (every path `ModifiedFiles` lists was written by a step: an unknown step or a failing step never lists its file, so the `git commit` of `CreatePR` has a change to commit whenever the list is non-empty; this is what makes the model's `GitCanPass` for commit sound). `ImplementsWorkflow` holds (refinement of `WorkflowAbstract`, termination included). |
| `framework_fixes` | violation | `FixesReachImplementation`: planned fixes are retried as Validation and never applied. |
| `framework_review` | violation | `PublishedBuildPasses`: a review answer containing "success" approves a failing build, and the build is published. |
| `framework_gitretry` | violation | `FaultTolerated` with only generator steps, and one git fault: every retry fails at `checkout -b`. |
| `framework_editretry` | violation | `FaultTolerated` with an edit step before a generator step, and one generator fault: the retry re-edits the file and the build never passes. |
| `modapply_core` | pass | `EmptyModsIdentity` holds (round trip, trailing newline included). `AscendingMatchesOriginal` holds (front-to-back disjoint inclusive ranges land on the original lines). `SliceAliasingInvisible` holds: the shared backing array changes no result except where value semantics would reject the range, an inverted range after a shrinking edit, which reads stale elements past the length (this case is reached). |
| `modapply_halfopen` | violation | `HalfOpenAnyOrder`: the code's end is inclusive, so the spec's insertion `start == end` replaces a line. |
| `modapply_panic` | violation | `NoPanic`: StartLine 0 panics. |
| `workstation_core` | pass | `ReturnsCurrentOrDeclared` holds: while the cluster changes between calls, a returned value is the declared `External` or the object's current `externalRef`, never a stale value cached in the receiver. The "cannot specify both" check is what guarantees it. `ResolvesOnceReady` holds: a reference by name to an object that ends up ready for good is eventually resolved. |
| `workstation_second` | violation | `SecondCallAgrees`: after a resolution by name, a second call on the same reference fails with "cannot specify both", because `External` was cached while `Name` stays set. |
| `advisorparse_core` | pass | Checks every answer of up to 5 lines. `PlanMatchesBlocks`: any answer gives exactly the steps of its blocks whose header names a type, in order; field lines before the first header and the block of an empty header are dropped whole, and nothing carries over from one step to the next. `ChangesMatchBlocks`: each required change is built only from its own entry. |
| `advisorparse_options` | violation | `GeneratorOptionsParsed`: a `GenerateKRM` step with no `TypesOptions:` line comes out with nil options, which `GenerateKRMTypes` dereferences. |

Why the bounds are enough:
- `MaxRetries = 3` is the value hard-coded in the source.
- Two files are enough to have a step that succeeds before a step that fails.
- `MaxFaults = 3` lets every attempt fail by a fault.
- For the applier, files of up to 3 lines and up to 2 modifications are enough
  to contain every pairing: ascending or descending, overlapping or disjoint,
  insertion or replacement, in range or out of range, and shrinking or growing.

- For `WorkstationRef`, one name and two namespaces are enough for a
  reference with and without a namespace, and for a resource and an object
  in different namespaces. Two external values let the object be
  re-acquired under a new identity between calls.
- For the parsers, every answer of up to 5 lines over 13 line kinds is
  checked (402234 answers, about 2.8 million states, 45 s). Five lines
  are enough for two steps that each have a field, for a field line before
  the first header, and for an empty header followed by fields.

Fairness. `Framework`'s `Spec` has `WF_vars(Next)`. The loop is a sequential function that
keeps running until it returns. Two properties are about liveness.
`ImplementsWorkflow` includes termination through the abstract spec's fairness.
This assumes every external call returns and no step panics: spec 5 says
the source sets no timeouts, and the panics of `NoPanic` and
`GeneratorOptionsParsed` are left out of `Framework`.
`FaultTolerated` is violated by the code.
`WorkstationRef` assumes weak fairness of a call that reaches the cluster.
The controller of the referencing resource requeues it after every error, and
a transient read error does not recur forever. Cluster changes have no
fairness: the object may change forever, and `ResolvesOnceReady` only
promises anything once it stays ready.

## Findings
Each violation run is listed under `findings` in `PROJECT.json`, with the line
where it happens and what the spec says instead.

## Not modelled
- Prompt text, the Gemini network call and `formatHistory`. These are I/O.
- `parseCompilerErrors`, `formatHistory` and `formatErrors`. They produce
  text for prompts and logs, and no control decision depends on them. The
  dropped `filepath.Rel` error and the `;` split of `parseModification` are
  listed as hazards.
- The answer of `generateContent`. This is the network call; its error
  return is `AIFails`. Its `resp.Candidates[0]`
  panics on an answer with no candidates, which is listed as a hazard.
- Two behaviours are recorded as hazards but have no violation run.
  - A failing `os.WriteFile` truncates the file and then fails. The file is
    then changed on disk but missing from `ModifiedFiles` (spec 7), and so
    from the pull request. `PublishedTreeValidated` shows that this is the
    only way the commit departs from the validated tree.
  - `parsePlan` silently drops two kinds of line: field lines before the
    first `Step Type:` line, and the block of a `Step Type:` line with an
    empty value. Spec 9 wants such an answer reported as an advisor error.
    `PlanMatchesBlocks` pins down exactly what is dropped, and that none of
    it leaks into a kept step.
- `FindRelatedFiles`. It is never called.
- Generated types and the fake clientset. They are generated code that
  forwards to client-go.
- The Terraform acceptance test.
- The registration `init` of the bigquerydatatransfer model. Its registry is
  not in these sources.

## Plan
1. Done: `Framework`, `ModApply`, `WorkflowAbstract` and the refinement.
2. Done: `WorkstationRef` (idempotence finding, freshness and liveness).
3. Done: `AdvisorParse` (`parsePlan`, `parseModification`,
   `parseRequiredChanges`, `parseAffectedFiles`).
4. Done: more of the client and types mapped into `Framework`;
   `SliceAliasingInvisible` for the applier; parser answers of 5 lines.
   Not done, for want of a run of their own (the project keeps one run per
   question and its runs are taken): `ImplementationRecordCarriesPlan`
   (spec 3) and the rejection of unknown step types (spec 7), both of
   which the code would violate. Composing `AdvisorParse` with `ModApply`
   adds nothing the runs do not show: the line numbers the parser can give
   (0 for a missing field included) are the ones `ModApply` enumerates.
5. Done: `PlanMatchesBlocks` widened from well-formed answers to every
   answer; `ModifiedFilesWritten` for the bookkeeping of `executeStep`.
6. Not modelled: generated code, the Terraform test, and the registration
   `init`. The reasons are under "Not modelled".
