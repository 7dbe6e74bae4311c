-------------------------- MODULE MCVerificationRun --------------------------
(* Instances of VerificationRun for TLC: a batch of three items and a      *)
(* single run of one service.                                              *)
EXTENDS VerificationRun

CONSTANTS r1, r2

MCRun   == {r1, r2}
MCBatch == {r1}
MCSize  == [r \in MCRun |-> IF r = r1 THEN 3 ELSE 1]
=============================================================================
