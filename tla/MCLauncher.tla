----------------------------- MODULE MCLauncher -----------------------------
(* Two instance ids and three creations: one id is used again after it was  *)
(* deleted, beside another instance in any state.                           *)
EXTENDS Launcher
=============================================================================
