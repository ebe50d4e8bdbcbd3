------------------------------ MODULE MCNotes ------------------------------
(* Small instances of Notes for TLC.                                        *)
EXTENDS Notes, TLC

CONSTANTS d1, d2, n1, n2, v, w

p11 == <<d1, n1>>
p12 == <<d1, n2>>
p21 == <<d2, n1>>

MCSlots == <<n1, n2>>
\* d1/n1 has the title and links to itself; d2/n1 links to it.  The word w has the
\* name n1 in it.
MCLinks == {<<Here, n1>>, <<d1, n1>>, <<Here, n2>>, <<d1, n2>>}
MCMasks == {<<w, n1>>}
MCSeeds == p11 :> Note(1, {v}, {<<Here, n1>>}, Title)
           @@ p21 :> Note(1, {v}, {<<d1, n1>>}, NoTitle)
MCEdited == {p11, p21}
MCMoves == {<<p11, p12>>, <<p11, <<d2, n2>>>>, <<p21, p11>>}
MCBatches == {{p11, p21}}
MCSorts == {{<<p11, p12>>, <<p21, p11>>}}
\* The lock of d1/n1 is also that of d2.
MCStripe == p11 :> 1 @@ p12 :> 2 @@ p21 :> 3 @@ <<d2, n2>> :> 4 @@ d1 :> 5 @@ d2 :> 1
=============================================================================
