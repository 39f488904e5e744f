----------------------------- MODULE MCAdvisorParse -----------------------------
EXTENDS AdvisorParse

CONSTANTS f1

\* "StartLine: 2; EndLine: 2; Content: x", a line with no StartLine part,
\* and one whose StartLine is not a number.
MCModLines ==
  { << [tag |-> "StartLine", val |-> 2], [tag |-> "EndLine", val |-> 2],
       [tag |-> "Content", val |-> "x"] >>,
    << [tag |-> "EndLine", val |-> 2], [tag |-> "Content", val |-> "x"] >>,
    << [tag |-> "StartLine", val |-> NaN], [tag |-> "Other"] >> }
=============================================================================
