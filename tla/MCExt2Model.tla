----------------------------- MODULE MCExt2Model -----------------------------
(***************************************************************************)
(* Ext2Model for TLC: two groups, two names of different length.           *)
(***************************************************************************)
EXTENDS Ext2Model

MCRecLenFor == [n \in Name \cup {".", ".."} |-> IF n = "b" THEN 2 ELSE 1]
MCSpans == {<<1, 3>>, <<5, 4>>, <<16, 1>>, <<32, 1>>}
MCSizes == {0, 1, 6, 33}
=============================================================================
