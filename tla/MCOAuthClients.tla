--------------------------- MODULE MCOAuthClients ---------------------------
(* Small instances of OAuthClients for TLC.                                *)
EXTENDS OAuthClients

CONSTANTS k1, c1, c2, c3, g1, g2, i1, i2, i3, u2

\* A behaviour either registers clients, or uses codes and tokens of one client id
\* that is not registered: what the two share is the redirect check, which one code
\* and one registration meet.  Clients register the redirect that is not on the
\* whitelist.
OneHalf ==
    /\ \A c \in Codes : code[c].client \in {c1, NoClient}
    /\ \/ /\ \A i \in Ids : ~Issued(i)
          /\ valid = Keys /\ \A c \in Codes : owner[c] = k1
          /\ used # {} => Waiting = {} /\ peak <= 1 /\ DOMAIN origin = {c1}
          /\ \A c \in Listed : registered[c].uris = {u2}
          /\ now <= 3
       \/ /\ origin = <<>> /\ Waiting = {} /\ peak = 0
          /\ \A i \in Ids : token[i].client \in {c1, NoClient}

\* Clients, codes and ids are interchangeable and handed out in this order.
InOrder ==
    /\ DOMAIN origin \in {{}, {c1}, {c1, c2}, {c1, c2, c3}}
    /\ used \in {{}, {g1}, {g1, g2}}
    /\ {i \in Ids : Issued(i)} \in {{}, {i1}, {i1, i2}, {i1, i2, i3}}
=============================================================================
