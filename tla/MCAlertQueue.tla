---------------------------- MODULE MCAlertQueue ----------------------------
(***************************************************************************)
(* Small instances of AlertQueue.                                          *)
(***************************************************************************)
EXTENDS AlertQueueProperties, TLC

CONSTANTS k1, k2, d1, d2, o1, p1, p2

UmaChave   == d1 :> k1
DuasChaves == d1 :> k1 @@ d2 :> k2

\* who runs where: a detector, two, or one and an operator, in the first process
CasaDetector == d1 :> p1
CasaDupla    == d1 :> p1 @@ d2 :> p1
CasaAmbos    == d1 :> p1 @@ o1 :> p1
=============================================================================
