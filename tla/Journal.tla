------------------------------ MODULE Journal ------------------------------
(***************************************************************************)
(* The write-ahead journal of a package transaction: its records and what  *)
(* the reader accepts (crates/luxury-platform/src/local/transaction.rs).   *)
(* A record is appended and synced before the step it announces, so a      *)
(* journal found after a crash is a prefix of what the process meant to    *)
(* do.  A torn last line is ignored by the reader and is therefore the     *)
(* same as a record that was never appended.                               *)
(***************************************************************************)
EXTENDS Integers, Sequences, FiniteSets

CONSTANTS
  Files,   \* the package paths, up to their collision key
  Shas,    \* digests of file contents
  None     \* "there is no such file"

Content == [sha : Shas, exec : BOOLEAN]

(* An ownership receipt, reduced to the files it owns.  Two receipt files   *)
(* have the same digest exactly when they are the same receipt.            *)
Receipt == [Files -> Content \cup {None}]

Operations == {"install", "upgrade", "uninstall"}

ASSUME JournalAssumption ==
  /\ IsFiniteSet(Files)
  /\ None \notin Content
  /\ None \notin Receipt

-----------------------------------------------------------------------------
Header(op, previous) == [kind |-> "Header", op |-> op, previous |-> previous]
RemoveDirectory      == [kind |-> "RemoveDirectory"]
StageFile(f, s)      == [kind |-> "StageFile", file |-> f, sha |-> s]
RemoveFile(f, s)     == [kind |-> "RemoveFile", file |-> f, sha |-> s]
RestoreFile(f, c)    == [kind |-> "RestoreFile", file |-> f, content |-> c]
PendingReceipt(r)    == [kind |-> "PendingReceipt", receipt |-> r]
Committing           == [kind |-> "Committing"]
RollingBack          == [kind |-> "RollingBack"]

FileKinds == {"StageFile", "RemoveFile", "RestoreFile"}

Record ==
  [kind : {"Header"}, op : Operations, previous : Receipt \cup {None}]
    \cup [kind : {"RemoveDirectory", "Committing", "RollingBack"}]
    \cup [kind : {"StageFile", "RemoveFile"}, file : Files, sha : Shas]
    \cup [kind : {"RestoreFile"}, file : Files, content : Content]
    \cup [kind : {"PendingReceipt"}, receipt : Receipt]

-----------------------------------------------------------------------------
(* What the reader accepts.                                                 *)

Before(recs, i) == {recs[j] : j \in 1 .. (i - 1)}

(* Install and upgrade journals: a file is staged at most once and first,   *)
(* restored at most once (upgrades only), and removed only after it was     *)
(* staged under the same digest.                                            *)
FileOrderOK(recs) ==
  \A i \in 2 .. Len(recs) : recs[i].kind \in FileKinds =>
    LET r       == recs[i]
        earlier == {e \in Before(recs, i) : e.kind \in FileKinds /\ e.file = r.file}
        kinds   == {e.kind : e \in earlier}
    IN  CASE r.kind = "StageFile"   -> earlier = {}
          [] r.kind = "RestoreFile" -> /\ recs[1].op = "upgrade"
                                       /\ kinds \subseteq {"StageFile"}
          [] r.kind = "RemoveFile"  -> /\ "RemoveFile" \notin kinds
                                       /\ StageFile(r.file, r.sha) \in earlier

(* Uninstall journals hold one restore intent per file, then the marker.    *)
UninstallOrderOK(recs) ==
  \A i \in 2 .. Len(recs) :
    \/ /\ recs[i].kind = "RestoreFile"
       /\ \A j \in 2 .. (i - 1) : recs[j].file # recs[i].file
    \/ recs[i] = Committing /\ i = Len(recs)

RollbackMarkerOK(recs) ==
  \A i \in 1 .. Len(recs) :
    recs[i] = RollingBack => i = Len(recs) /\ recs[1].op = "upgrade"

ReadJournal(recs) ==
  /\ recs # <<>>
  /\ recs[1].kind = "Header"
  /\ (recs[1].op = "install") = (recs[1].previous = None)
  /\ \A i \in 2 .. Len(recs) : recs[i].kind # "Header"
  /\ RollbackMarkerOK(recs)
  /\ IF recs[1].op = "uninstall" THEN UninstallOrderOK(recs)
                                 ELSE FileOrderOK(recs)

IsRollingBack(recs) == recs # <<>> /\ recs[Len(recs)] = RollingBack

(* The receipt transition recorded by an upgrade: one binding of the        *)
(* pending receipt, after every file record, then at most the commit        *)
(* marker, then at most the rollback marker.                                *)
UpgradeReceiptsOK(recs) ==
  LET n == IF IsRollingBack(recs) THEN Len(recs) - 1 ELSE Len(recs)
      bound(i) == \E j \in 2 .. (i - 1) : recs[j].kind = "PendingReceipt"
  IN  /\ recs[1].op = "upgrade"
      /\ \A i \in 2 .. n :
           /\ recs[i] # RollingBack
           /\ recs[i] = Committing => i = n /\ bound(i)
           /\ recs[i] # Committing => ~bound(i)

BoundReceipts(recs) ==
  {recs[i].receipt : i \in {j \in 1 .. Len(recs) : recs[j].kind = "PendingReceipt"}}

IsCommitting(recs) == recs # <<>> /\ recs[Len(recs)] = Committing
=============================================================================
