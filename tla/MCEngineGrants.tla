--------------------------- MODULE MCEngineGrants ---------------------------
(***************************************************************************)
(* The instance of managed releases with the engines that ask about them.  *)
(***************************************************************************)
EXTENDS MCInstallation, EngineGrants

EnrolledApps == [a \in Apps |-> "emisell"]
=============================================================================
