----------------------------- MODULE MCModApply -----------------------------
EXTENDS ModApply

\* "a\nb\nc", "a\nb\n" (a trailing newline gives an empty last line), ""
MCContents == { <<"a", NL, "b", NL, "c">>, <<"a", NL, "b", NL>>, <<>> }
\* "x", "x\ny" (two lines for one range), "" (one empty line)
MCTexts == { <<"x">>, <<"x", NL, "y">>, <<>> }
=============================================================================
