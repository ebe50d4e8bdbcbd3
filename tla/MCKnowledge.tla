---------------------------- MODULE MCKnowledge ----------------------------
(* Small instances of Knowledge for TLC.                                   *)
EXTENDS Knowledge, TLC

CONSTANTS a, b

MCFolders == {{a, b}}
MCFolderMoves == {[x \in {a} |-> b]}
=============================================================================
