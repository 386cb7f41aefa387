--------------------------- MODULE TransactionMC ---------------------------
(* Small packages for model checking Transaction: two paths, an old and a   *)
(* new digest, and a third one that only the user writes.                   *)
EXTENDS TransactionAtomic

CONSTANTS f1, f2, old, new, usr

MCFiles == {f1, f2}
MCShas  == {old, new, usr}

Plain(s) == [sha |-> s, exec |-> FALSE]
Exec(s)  == [sha |-> s, exec |-> TRUE]

Package(a, b) == [f \in MCFiles |-> IF f = f1 THEN a ELSE b]

(* Version 1 owns both files, version 2 changes one and drops the other,    *)
(* and version 3 is version 1 with one file made executable.                *)
V1 == Package(Plain(old), Plain(old))
V2 == Package(Plain(new), None)
V3 == Package(Exec(old), Plain(old))

Versions   == {V1, V2, V3}
NewDigests == {V1, V2}   \* every replacement has a digest of its own

UserWrites == {Plain(usr)}
=============================================================================
