--------------------------- MODULE StdioServerMC ---------------------------
(* Requests of all kinds under two ids for model checking StdioServer.      *)
EXTENDS StdioServer

CONSTANTS i1, i2

MCIds == {i1, i2}
=============================================================================
