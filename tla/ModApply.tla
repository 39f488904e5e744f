------------------------------ MODULE ModApply ------------------------------
(***************************************************************************)
(* applyModifications (framework/phases.go): the composition of line-range *)
(* replacements into a file's new content, with the Go semantics it        *)
(* relies on: strings.Split and strings.Join on "\n", and append on a      *)
(* slice whose backing array it shares.  A slice is modelled as its        *)
(* backing array (whose length is the capacity) and its length, so that    *)
(* re-slicing beyond the length, growth, and panics are those of Go.       *)
(*                                                                         *)
(* Text is a sequence of one-character strings.  The inputs (a content     *)
(* and a modification sequence, as the AI client parses them) are chosen   *)
(* in Init; each step of the behaviour is one iteration of the loop.       *)
(***************************************************************************)
EXTENDS Integers, Sequences, SequencesExt

CONSTANTS
  Contents,   \* file contents to edit
  Texts,      \* replacement texts (Modification.NewContent)
  LineNums,   \* values StartLine and EndLine range over (parseModification may leave 0)
  MaxMods,    \* longest modification sequence
  Panic,      \* a model value: the runtime panic of an out-of-range slice
  None        \* a model value: no result yet

NL == "\n"

Mods == [start : LineNums, end : LineNums, text : Texts]

VARIABLES
  content,  \* the content argument
  mods,     \* the mods argument
  left,     \* modifications not yet applied (the loop index plus one)
  lines,    \* the lines slice, or Panic
  out       \* the returned content, Panic, or None while the loop runs

vars == <<content, mods, left, lines, out>>

Line == Seq({c \in UNION {ToSet(t) : t \in Contents \cup Texts} : c # NL})

TypeOK ==
  /\ content \in Contents
  /\ mods \in BoundedSeq(Mods, MaxMods)
  /\ left \in 0..Len(mods)
  /\ lines \in [arr : Seq(Line), len : Nat] \cup {Panic}
  /\ out \in Seq(UNION {ToSet(t) : t \in Contents \cup Texts}) \cup {Panic, None}

-----------------------------------------------------------------------------
(* strings.Split(s, "\n") and strings.Join(lines, "\n").                    *)

\* Mutant: strings.SplitAfter, which keeps each separator in its field.
SplitAfter(s) ==
  LET cuts == SetToSortSeq({i \in 1..Len(s) : s[i] = NL}, <)
      b    == <<0>> \o cuts \o <<Len(s)>>
  IN [j \in 1..Len(b) - 1 |-> SubSeq(s, b[j] + 1, b[j + 1])]

\* Mutant: a split that drops the empty field after a trailing separator.
SplitDropTrailing(s) ==
  LET cuts == SetToSortSeq({i \in 1..Len(s) : s[i] = NL}, <)
      b    == <<0>> \o cuts \o <<Len(s) + 1>>
      ls   == [j \in 1..Len(b) - 1 |-> SubSeq(s, b[j] + 1, b[j + 1] - 1)]
  IN IF Len(ls) > 1 /\ Last(ls) = <<>> THEN Front(ls) ELSE ls

\* The fields between separators: n separators give n + 1 fields.
Split(s) ==
  LET cuts == SetToSortSeq({i \in 1..Len(s) : s[i] = NL}, <)
      b    == <<0>> \o cuts \o <<Len(s) + 1>>
  IN [j \in 1..Len(b) - 1 |-> SubSeq(s, b[j] + 1, b[j + 1] - 1)]

Join(ls) ==
  IF ls = <<>> THEN <<>>
  ELSE FoldLeft(LAMBDA acc, l : acc \o <<NL>> \o l, Head(ls), Tail(ls))

-----------------------------------------------------------------------------
(* Go slices.                                                               *)

\* strings.Split allocates exactly as many elements as it returns.
SliceOf(ls) == [arr |-> ls, len |-> Len(ls)]

\* growslice for appends under 256 elements of 16 bytes: the capacity
\* doubles, or becomes the needed length if that is more; the size
\* classes up to 256 bytes are multiples of 16, so no rounding up.
GrownCap(oldCap, need) == IF need > 2 * oldCap THEN need ELSE 2 * oldCap

\* Mutant: the two appends done one after the other, the first in place,
\* so that lines[EndLine:] is read from the array it has just overwritten.
ApplyOneInPlaceFirst(sl, mod) ==
  LET lo == mod.start - 1
      hi == mod.end
      cap == Len(sl.arr)
      new == Split(mod.text)
      arr == IF lo + Len(new) <= cap
             THEN [i \in 1..cap |-> IF i > lo /\ i <= lo + Len(new)
                                    THEN new[i - lo] ELSE sl.arr[i]]
             ELSE sl.arr
  IN IF lo < 0 \/ lo > cap \/ hi < 0 \/ hi > sl.len THEN Panic
     ELSE SliceOf(SubSeq(arr, 1, lo) \o new \o SubSeq(arr, hi + 1, sl.len))

\* One iteration of the loop:
\*   lines = append(lines[:StartLine-1], append(newLines, lines[EndLine:]...)...)
\* lines[:lo] may reach past the length up to the capacity; lines[hi:] may
\* not pass the length.  The inner append copies into a fresh array; the
\* outer one writes in place when the capacity suffices.
ApplyOne(sl, mod) ==
  LET lo == mod.start - 1
      hi == mod.end
      cap == Len(sl.arr)
  IN IF lo < 0 \/ lo > cap \/ hi < 0 \/ hi > sl.len THEN Panic
     ELSE
     LET inner == Split(mod.text) \o SubSeq(sl.arr, hi + 1, sl.len)
         need  == lo + Len(inner)
     IN IF need <= cap
        THEN [arr |-> [i \in 1..cap |-> IF i > lo /\ i <= need
                                         THEN inner[i - lo] ELSE sl.arr[i]],
              len |-> need]
        ELSE [arr |-> SubSeq(sl.arr, 1, lo) \o inner
                      \o [i \in 1..(GrownCap(cap, need) - need) |-> <<>>],
              len |-> need]

\* Mutant: the loop walks the modifications front to back.
ModAtForward(ms, k) == ms[Len(ms) - k + 1]

\* The loop `for i := len(mods) - 1; i >= 0; i--` visits mods[k] at the
\* iteration where k modifications are left (indices from 1 here).
ModAt(ms, k) == ms[k]

Init ==
  /\ content \in Contents
  /\ mods \in BoundedSeq(Mods, MaxMods)
  /\ left = Len(mods)
  /\ lines = SliceOf(Split(content))
  /\ out = None

\* One iteration of the loop; a panic ends the call.
Iterate ==
  /\ left > 0 /\ lines # Panic
  /\ lines' = ApplyOne(lines, ModAt(mods, left))
  /\ left' = left - 1
  /\ UNCHANGED <<content, mods, out>>

\* strings.Join of the remaining lines, or the panic.
Finish ==
  /\ out = None
  /\ left = 0 \/ lines = Panic
  /\ out' = IF lines = Panic THEN Panic
            ELSE Join(SubSeq(lines.arr, 1, lines.len))
  /\ UNCHANGED <<content, mods, left, lines>>

\* applyModifications has returned (or panicked).
Returned ==
  /\ out # None
  /\ UNCHANGED vars

Next == Iterate \/ Finish \/ Returned

Spec == Init /\ [][Next]_vars

-----------------------------------------------------------------------------
(* Reference definitions.                                                   *)

\* Ranges as the code indexes them: 1-based and inclusive, so that
\* start = end + 1 inserts before start; listed front to back, disjoint,
\* within the file.
InclusiveAscending(c, ms) ==
  LET n == Len(Split(c)) IN
  /\ \A k \in 1..Len(ms) : 1 <= ms[k].start /\ ms[k].start <= ms[k].end + 1
                          /\ ms[k].end <= n
  /\ \A k \in 1..Len(ms) - 1 : ms[k].end < ms[k + 1].start

\* Every range addressed against the original lines: before line i come
\* the replacements starting at i, then line i unless a range covers it.
ReplaceAgainstOriginal(c, ms, Covers(_, _)) ==
  LET ls == Split(c)
      n  == Len(ls)
      at(i) == FlattenSeq([k \in 1..Len(ms) |->
                 IF ms[k].start = i THEN Split(ms[k].text) ELSE <<>>])
      keep(i) == IF i <= n /\ ~\E k \in 1..Len(ms) : Covers(ms[k], i)
                 THEN <<ls[i]>> ELSE <<>>
  IN Join(FlattenSeq([i \in 1..n + 1 |-> at(i) \o keep(i)]))

\* Ranges as the spec (section 4.3) defines them: half-open [start, end),
\* start = end a pure insertion, disjoint, with distinct starts, in any order.
HalfOpenDisjoint(c, ms) ==
  LET n == Len(Split(c)) IN
  /\ \A k \in 1..Len(ms) : 1 <= ms[k].start /\ ms[k].start <= ms[k].end
                          /\ ms[k].end <= n + 1
  /\ \A j, k \in 1..Len(ms) : j # k =>
        /\ ms[j].start # ms[k].start
        /\ (ms[j].end <= ms[k].start \/ ms[k].end <= ms[j].start)

\* The same loop over values rather than slices: lines[:lo] may not pass
\* the length, and nothing written by one iteration is seen through an
\* older slice.
ValueApply(ls, mod) ==
  LET lo == mod.start - 1
      hi == mod.end
  IN IF lo < 0 \/ lo > Len(ls) \/ hi < 0 \/ hi > Len(ls) THEN Panic
     ELSE SubSeq(ls, 1, lo) \o Split(mod.text) \o SubSeq(ls, hi + 1, Len(ls))

ValueResult(c, ms) ==
  LET r == FoldRight(LAMBDA m, acc : IF acc = Panic THEN Panic
                                     ELSE ValueApply(acc, m),
                     ms, Split(c))
  IN IF r = Panic THEN Panic ELSE Join(r)

-----------------------------------------------------------------------------
(* Properties.                                                              *)

\* With no modification, applyModifications returns its input byte for
\* byte: Split and Join round-trip, trailing newline included (spec 4.3).
EmptyModsIdentity ==
  (out # None /\ mods = <<>>) => out = content

\* Front-to-back disjoint ranges, applied last first, all land on the
\* lines of the original file they name: the reverse loop keeps earlier
\* line numbers valid while later ranges change the line count.
AscendingMatchesOriginal ==
  (out # None /\ InclusiveAscending(content, mods)) =>
     out = ReplaceAgainstOriginal(content, mods,
             LAMBDA m, i : m.start <= i /\ i <= m.end)

\* Spec 4.3 and 8: for disjoint half-open ranges given in any order the
\* result replaces [start, end) of the original file.
HalfOpenAnyOrder ==
  (out # None /\ HalfOpenDisjoint(content, mods)) =>
     out = ReplaceAgainstOriginal(content, mods,
             LAMBDA m, i : m.start <= i /\ i < m.end)

\* The nested append in the loop body shares its backing array between
\* iterations: the outer append writes in place over elements the next
\* lines[:StartLine-1] may reach.  Whatever the modifications, the result
\* is the one the same edits on plain values give, except where those
\* reject a range: an inverted range after a shrinking edit, whose
\* lines[:StartLine-1] reads stale elements past the length.
SliceAliasingInvisible ==
  (out \notin {None, Panic} /\ ValueResult(content, mods) # Panic)
     => out = ValueResult(content, mods)

\* Spec 4.3 and 7: a range outside the file is clamped or rejected as a
\* phase failure, never a crash of the process.
NoPanic == out # Panic

=============================================================================
