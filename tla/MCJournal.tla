----------------------------- MODULE MCJournal -----------------------------
(***************************************************************************)
(* Three small entries, one as large as a record may be and one larger.    *)
(* The journal is full at two small entries by their number, and at the    *)
(* large one by its size.  A unit is the four bytes of a length prefix.    *)
(***************************************************************************)
EXTENDS Journal

CONSTANTS e1, e2, e3, e4, e5

MCEntries == {e1, e2, e3, e4, e5}
MCSize == [e \in MCEntries |-> CASE e = e4 -> 4 [] e = e5 -> 5 [] OTHER -> 1]
=============================================================================
