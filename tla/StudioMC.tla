------------------------------ MODULE StudioMC ------------------------------
(* An importable directory with one program, and the starter.               *)
EXTENDS Studio

CONSTANTS hello, dir, app, s1, s2

MCInside == {app}
MCBeside == {}
MCPrograms == {app}
MCSettings == {s1, s2}
MCImports == {{dir}, {hello}, {dir, hello}}
=============================================================================
