----------------------------- MODULE MCWorkQueue -----------------------------
EXTENDS WorkQueue

\* Two tables with the same range: their works share the name of a file.
Tables == {<<"table1", "range1">>, <<"table2", "range1">>}
=============================================================================
