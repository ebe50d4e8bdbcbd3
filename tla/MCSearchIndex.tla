--------------------------- MODULE MCSearchIndex ---------------------------
(* Small instances of SearchIndex for TLC.                                 *)
EXTENDS SearchIndex

CONSTANTS a, b

=============================================================================
