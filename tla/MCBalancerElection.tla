------------------------- MODULE MCBalancerElection -------------------------
(***************************************************************************)
(* Small instances of BalancerElection.                                    *)
(***************************************************************************)
EXTENDS BalancerElection

CONSTANTS s1, s2, s3, u0, u1
=============================================================================
