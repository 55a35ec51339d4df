------------------------------- MODULE MCFat32 -------------------------------
EXTENDS Fat32
CONSTANTS n1, n2, a, b
MCNames == {n1, n2}
MCTexts == {<<>>, <<a>>, <<b, b, b>>}
MCLongTexts == {<<b, b>>}
=============================================================================
