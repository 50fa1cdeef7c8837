---------------------------- MODULE MCSupervisor ----------------------------
(***************************************************************************)
(* Small instances of Supervisor: one rule of each severity, and room for  *)
(* one rewrite before the longest route to the end.                        *)
(***************************************************************************)
EXTENDS Supervisor

MCRules == {"G4", "G5", "G6"}
OneRule == {"G5"}
=============================================================================
