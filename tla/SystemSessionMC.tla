---------------------------- MODULE SystemSessionMC ----------------------------
(***************************************************************************)
(* The reviewed package, which has a license, and another one.             *)
(***************************************************************************)
EXTENDS SystemSession

CONSTANTS p, q

MCPackages  == {p, q}
MCPlatforms == {"windows", "linux", "macos"}
MCFit       == {p, q}
MCLicensed  == {p}
=============================================================================
