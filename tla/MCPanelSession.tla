--------------------------- MODULE MCPanelSession ---------------------------
(***************************************************************************)
(* A small instance of PanelSession: a global admin who lists one site and *)
(* an account that lists none.                                             *)
(***************************************************************************)
EXTENDS PanelSession, TLC

DoAdmin == "s1" :> {"u1"} @@ "s2" :> {}
=============================================================================
