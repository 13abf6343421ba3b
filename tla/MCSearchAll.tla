----------------------------- MODULE MCSearchAll -----------------------------
(* Four documents match the query at first; pages of none, one, two or     *)
(* three rows, from the beginning, from the second row or from past the    *)
(* end. One more document may be indexed.                                  *)
EXTENDS SearchAll

CONSTANTS d1, d2, d3, d4, d5

MCDocs == {d1, d2, d3, d4, d5}
MCInitial == <<d1, d2, d3, d4>>
MCStarts == {0, 1, 5}
MCPageSizes == {0, 1, 2, 3}
=============================================================================
