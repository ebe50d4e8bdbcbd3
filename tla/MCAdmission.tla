---------------------------- MODULE MCAdmission ----------------------------
(* Small instances of Admission for TLC.                                    *)
EXTENDS Admission, TLC

CONSTANTS s1, s2, r1, r2, r3

\* Two logins of one source, and the other form used by another source.
MCSource == [r \in Requests |-> IF r = r3 THEN s2 ELSE s1]
MCTier   == [r \in Requests |-> IF r = r3 THEN "oauth" ELSE "login"]
MCLimit  == [t \in Tiers |-> IF t = "login" THEN 2 ELSE 1]
MCWindow == [t \in Tiers |-> IF t = "login" THEN 2 ELSE 1]
=============================================================================
