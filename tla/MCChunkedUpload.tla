-------------------------- MODULE MCChunkedUpload --------------------------
(* Small instances of ChunkedUpload for TLC.                               *)
EXTENDS ChunkedUpload, TLC

CONSTANTS x, y, z, k1, k2, k3, p1, p2, c1, c2, c3, c4, c5

\* c1, c2 and c3 use one key; c2 declares another total than c1, c3 none.
MCDoc  == [c \in Clients |-> CASE c = c1 -> <<x, y>> [] c = c2 -> <<x, z, x>>
                               [] c = c4 -> <<y>> [] OTHER -> <<z>>]
MCKey  == [c \in Clients |-> CASE c = c4 -> k2 [] c = c5 -> k3 [] OTHER -> k1]
MCPath == [c \in Clients |-> IF c = c4 THEN p2 ELSE p1]
MCMode == [c \in Clients |-> IF c = c4 THEN "append" ELSE "replace"]
MCSize == x :> 1 @@ y :> 2 @@ z :> 3
=============================================================================
