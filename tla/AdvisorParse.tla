----------------------------- MODULE AdvisorParse -----------------------------
(***************************************************************************)
(* The parsers of the AI client's free-text answers (client.go/gemini.go). *)
(* parsePlan and parseModification turn the answer to PlanImplementation   *)
(* into an ImplementationPlan: Init chooses the answer, each step of the   *)
(* behaviour is one iteration of parsePlan's loop over its lines, and      *)
(* Finish is the code after the loop.  parseRequiredChanges and            *)
(* parseAffectedFiles, which AnalyzeChange applies to its answer, are pure *)
(* operators over the same lines, checked against reference definitions.   *)
(*                                                                         *)
(* A line is abstracted to the prefix strings.HasPrefix finds at its start *)
(* (or "Other": prose, markdown) and the TrimSpace'd value after it;       *)
(* "FileInside" is a line with "File:" after other text ("- File: x").     *)
(* A Modification line is the sequence of its ";"-separated parts.         *)
(***************************************************************************)
EXTENDS Integers, Sequences, SequencesExt

CONSTANTS
  StepVals,   \* values after "Step Type:" ("" included: nothing after the colon)
  Files,      \* values after "File:"
  Nums,       \* numbers Sscanf can read after "StartLine:" or "EndLine:"
  NaN,        \* a model value: text Sscanf cannot read as a number
  Texts,      \* values after "Content:"
  ChangeTypes, \* values after "Type:"
  Descs,      \* values after "Description:"
  ModLines,   \* the Modification lines: sequences of parts
  MaxLines,   \* longest answer
  None        \* a model value: parsePlan has not returned

Parts ==
  [tag : {"StartLine", "EndLine"}, val : Nums \cup {NaN}]
    \cup [tag : {"Content"}, val : Texts] \cup [tag : {"Other"}]

ASSUME ModLines \subseteq Seq(Parts)
ASSUME "" \in StepVals

Lines ==
  [tag : {"StepType"}, val : StepVals] \cup [tag : {"File"}, val : Files]
    \cup [tag : {"TypesOptions", "MapperOptions", "Other"}]
    \cup [tag : {"Modification"}, val : ModLines]
    \cup [tag : {"FileInside"}, val : Files]
    \cup [tag : {"Type"}, val : ChangeTypes] \cup [tag : {"Description"}, val : Descs]

Modifications == [start : Nums \cup {0}, end : Nums \cup {0}, text : Texts \cup {""}]

\* api.ImplementationStep; topts and mopts say whether the option
\* pointers are non-nil.
Steps == [type : StepVals, file : Files \cup {""}, topts : BOOLEAN,
          mopts : BOOLEAN, mods : Seq(Modifications)]

VARIABLES
  resp,   \* the aiResponse argument, as its lines
  i,      \* the next line the loop looks at
  cur,    \* currentStep
  steps,  \* plan.Steps
  out     \* the returned plan's steps, or None while the loop runs

vars == <<resp, i, cur, steps, out>>

TypeOK ==
  /\ resp \in Seq(Lines) /\ Len(resp) <= MaxLines
  /\ i \in 1..Len(resp) + 1
  /\ cur \in Steps
  /\ steps \in Seq(Steps)
  /\ out \in Seq(Steps) \cup {None}

-----------------------------------------------------------------------------
\* Mutant: the value after StartLine:/EndLine: is taken whether or not
\* Sscanf could read it.
ParseModificationTakingAll(parts) ==
  LET step(m, p) ==
        CASE p.tag = "StartLine" -> [m EXCEPT !.start = p.val]
          [] p.tag = "EndLine"   -> [m EXCEPT !.end = p.val]
          [] p.tag = "Content"   -> [m EXCEPT !.text = p.val]
          [] OTHER               -> m
  IN FoldLeft(step, [start |-> 0, end |-> 0, text |-> ""], parts)

\* parseModification: the zero Modification, then each part in turn.
\* Sscanf "%d" that fails leaves the field as it was.
ParseModification(parts) ==
  LET step(m, p) ==
        CASE p.tag = "StartLine" /\ p.val # NaN -> [m EXCEPT !.start = p.val]
          [] p.tag = "EndLine" /\ p.val # NaN   -> [m EXCEPT !.end = p.val]
          [] p.tag = "Content"                  -> [m EXCEPT !.text = p.val]
          [] OTHER                              -> m
  IN FoldLeft(step, [start |-> 0, end |-> 0, text |-> ""], parts)

\* The zero ImplementationStep.
EmptyStep == [type |-> "", file |-> "", topts |-> FALSE, mopts |-> FALSE,
              mods |-> <<>>]

\* Mutant: the value after "Step Type:" is taken without TrimSpace, so the
\* space after the colon stays in the type.
NewStepUntrimmed(t) == [EmptyStep EXCEPT !.type = " " \o t]

\* Mutant: a new step that keeps the fields of the one before it.
NewStepKeeping(t) == [cur EXCEPT !.type = t]

\* currentStep = api.ImplementationStep{Type: ...}
NewStep(t) == [EmptyStep EXCEPT !.type = t]

\* if currentStep.Type != "" { plan.Steps = append(plan.Steps, currentStep) }
Flush(ss, c) == IF c.type # "" THEN Append(ss, c) ELSE ss

\* Mutant: the step still open after the loop is not added.
AddLastNever(ss, c) == ss

\* The same check and append after the loop.
AddLast(ss, c) == Flush(ss, c)

Init ==
  /\ resp \in BoundedSeq(Lines, MaxLines)
  /\ i = 1
  /\ cur = EmptyStep
  /\ steps = <<>>
  /\ out = None

\* One iteration of `for _, line := range lines` and its switch.
ScanLine ==
  LET l == resp[i] IN
  /\ i <= Len(resp)
  /\ i' = i + 1
  /\ CASE l.tag = "StepType" ->
            steps' = Flush(steps, cur) /\ cur' = NewStep(l.val)
       [] l.tag = "File" ->
            cur' = [cur EXCEPT !.file = l.val] /\ UNCHANGED steps
       [] l.tag = "TypesOptions" ->
            cur' = [cur EXCEPT !.topts = TRUE] /\ UNCHANGED steps
       [] l.tag = "MapperOptions" ->
            cur' = [cur EXCEPT !.mopts = TRUE] /\ UNCHANGED steps
       [] l.tag = "Modification" ->
            /\ cur' = [cur EXCEPT !.mods = Append(@, ParseModification(l.val))]
            /\ UNCHANGED steps
       [] OTHER -> UNCHANGED <<cur, steps>>
  /\ UNCHANGED <<resp, out>>

\* After the loop: add the last step and return the plan.
Finish ==
  /\ i = Len(resp) + 1 /\ out = None
  /\ out' = AddLast(steps, cur)
  /\ UNCHANGED <<resp, i, cur, steps>>

\* parsePlan has returned.
Returned ==
  /\ out # None
  /\ UNCHANGED vars

Next == ScanLine \/ Finish \/ Returned

Spec == Init /\ [][Next]_vars

-----------------------------------------------------------------------------
(* parseRequiredChanges and parseAffectedFiles.                            *)

\* api.Change{}
EmptyChange == [type |-> "", file |-> "", desc |-> ""]

\* Mutant: the change after a Description starts from the one before it.
NextChangeKeeping(c) == c

\* currentChange = api.Change{} after a Description completes an entry.
NextChange(c) == EmptyChange

\* The switch on Type:/File:/Description: prefixes; a Description appends
\* the change it completes.
ParseRequiredChanges(r) ==
  LET step(acc, l) ==
        CASE l.tag = "Type" -> [acc EXCEPT !.cur.type = l.val]
          [] l.tag = "File" -> [acc EXCEPT !.cur.file = l.val]
          [] l.tag = "Description" ->
               LET done == [acc.cur EXCEPT !.desc = l.val]
               IN [changes |-> Append(acc.changes, done), cur |-> NextChange(done)]
          [] OTHER -> acc
  IN FoldLeft(step, [changes |-> <<>>, cur |-> EmptyChange], r).changes

\* What TrimSpace(TrimPrefix(line, "File:")) gives for a line that has
\* "File:" after other text: the whole line, not a path.
WholeLine(v) == [line |-> v]

\* TrimSpace(TrimPrefix(line, "File:")) of a line that contains "File:".
FilePath(l) == IF l.tag = "File" THEN l.val ELSE WholeLine(l.val)

\* Every line that contains "File:" anywhere.
ParseAffectedFiles(r) ==
  LET hits == SelectSeq(r, LAMBDA l : l.tag \in {"File", "FileInside"})
  IN [k \in 1..Len(hits) |-> FilePath(hits[k])]

-----------------------------------------------------------------------------
(* Reference: the steps an answer describes.                                *)

\* Each Description line closes the entry made of the lines since the last
\* one: its last Type and File, if any.
ChangeBlocks(r) ==
  LET ds == SetToSortSeq({k \in 1..Len(r) : r[k].tag = "Description"}, <)
      from(j) == IF j = 1 THEN 1 ELSE ds[j - 1] + 1
      lastOf(b, t) ==
        LET xs == SelectSeq(b, LAMBDA x : x.tag = t)
        IN IF xs = <<>> THEN "" ELSE Last(xs).val
  IN [j \in 1..Len(ds) |->
        LET b == SubSeq(r, from(j), ds[j] - 1)
        IN [type |-> lastOf(b, "Type"), file |-> lastOf(b, "File"),
            desc |-> r[ds[j]].val]]

FieldTags == {"File", "TypesOptions", "MapperOptions", "Modification"}

\* Each "Step Type:" line opens a block that runs to the next one; the
\* step of a block has the header's type, the block's last File, options
\* iff the block has an options line, and its Modification lines in order.
Blocks(r) ==
  LET hs == SetToSortSeq({k \in 1..Len(r) : r[k].tag = "StepType"}, <)
      stop(j) == IF j < Len(hs) THEN hs[j + 1] ELSE Len(r) + 1
      body(j) == SubSeq(r, hs[j] + 1, stop(j) - 1)
      has(b, t) == \E k \in 1..Len(b) : b[k].tag = t
      fileOf(b) ==
        LET fs == SelectSeq(b, LAMBDA x : x.tag = "File")
        IN IF fs = <<>> THEN "" ELSE Last(fs).val
      modsOf(b) ==
        LET ms == SelectSeq(b, LAMBDA x : x.tag = "Modification")
        IN [k \in 1..Len(ms) |-> ParseModification(ms[k].val)]
  IN [j \in 1..Len(hs) |->
        [type  |-> r[hs[j]].val, file |-> fileOf(body(j)),
         topts |-> has(body(j), "TypesOptions"),
         mopts |-> has(body(j), "MapperOptions"),
         mods  |-> modsOf(body(j))]]

\* parsePlan keeps a block only when its header names a type.
Typed(st) == st.type # ""

-----------------------------------------------------------------------------
(* Properties.                                                              *)

\* Whatever the answer, parsePlan returns exactly the steps of its blocks
\* whose "Step Type:" names a type, in order.  Field lines before the first
\* header, and the block of a header with an empty value, are dropped
\* whole: none of their File, options or Modification lines reaches a
\* kept step, because a new header starts from a zero step and only a
\* typed step is appended, at a header or after the loop.
PlanMatchesBlocks ==
  out # None => out = SelectSeq(Blocks(resp), Typed)

\* Spec 3: a generate-types step carries its service/resource/version and
\* a generate-mapper step its service/version/output directory.  The plan
\* never holds a generator step whose options pointer is nil, which
\* GenerateKRMTypes and GenerateMapper dereference.
GeneratorOptionsParsed ==
  out # None =>
    \A k \in 1..Len(out) :
      /\ out[k].type = "GenerateKRM" => out[k].topts
      /\ out[k].type = "GenerateMapper" => out[k].mopts

\* parseRequiredChanges returns one change per Description line, built
\* only from the lines since the previous Description: a field of an
\* earlier entry never leaks into a later one that lacks it.
ChangesMatchBlocks == ParseRequiredChanges(resp) = ChangeBlocks(resp)

=============================================================================
