----------------------------- MODULE MCComponents -----------------------------
(***************************************************************************)
(* The components for TLC; the constants are in MCComponents.cfg.          *)
(***************************************************************************)
EXTENDS Components
=============================================================================
