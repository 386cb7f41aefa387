---------------------------- MODULE Transaction ----------------------------
(***************************************************************************)
(* One package's install, upgrade and uninstall transactions, driven by    *)
(* the engine (luxury-engine install.rs, uninstall.rs) and carried out by  *)
(* the local adapter (luxury-platform local/mod.rs, local/transaction.rs): *)
(* every step changes the disk in one place, and the process may die       *)
(* between any two steps.  The next call recovers what it finds on disk.   *)
(***************************************************************************)
EXTENDS Journal

CONSTANTS
  Torn,         \* a receipt file whose bytes are not all written
  Manifests,    \* the file sets of the packages a caller may install
  UserContent,  \* what the user may write into an installed file
  MaxFaults,    \* bound: crashes and failing steps of a behaviour
  MaxEdits      \* bound: changes the user makes to files under the root

Slots == {"live", "pending", "previous", "deleted", "incoming"}

Empty == [f \in Files |-> None]

ASSUME TransactionAssumption ==
  /\ Torn # None /\ Torn \notin Receipt
  /\ Manifests \subseteq Receipt \ {Empty}
  /\ UserContent \subseteq Content
  /\ MaxFaults \in Nat /\ MaxEdits \in Nat

VARIABLES
  \* on disk
  dest,     \* the installed tree: content of each file under the install root
  backup,   \* <destination_dir>/removed/<file>
  staged,   \* <destination_dir>/incoming/<file>
  rcpt,     \* the receipt files: live, pending, previous, deleted, incoming
  dirs,     \* which of "root", "state" (state_dir), "destination" (destination_dir) exist
  jfile,    \* journal.jsonl, renamed journal.done, or absent
  records,  \* the complete records of the journal
  \* in the process
  pc,       \* what the call in progress does next; "idle" between calls
  mode,     \* "run" a transaction, "recover" one, or "finish" what cleanup left
  op, target,
  todo, cur,\* files the current pass has still to handle, and the one in hand
  known,    \* how many of the records the process knows it appended
  \* history and bounds
  before,   \* tree, live receipt and root when the transaction began
  edited,   \* files the user changed since then
  result,   \* what became of it: "none" while undecided, "committed", "undone"
  faults, edits

files   == <<dest, backup, staged>>
journal == <<jfile, records>>
disk    == <<files, rcpt, dirs, journal>>
work    == <<mode, todo, cur, known>>
plan    == <<op, target, before>>
bounds  == <<faults, edits>>
history == <<plan, edited, result, bounds>>
vars    == <<disk, pc, work, history>>

-----------------------------------------------------------------------------
Known       == {records[i] : i \in 1 .. known}
Recorded(k) == {r.file : r \in {x \in Known : x.kind = k}}
RemoveSha(f)      == (CHOOSE r \in Known : r.kind = "RemoveFile" /\ r.file = f).sha
RestoreContent(f) == (CHOOSE r \in Known : r.kind = "RestoreFile" /\ r.file = f).content

OwnedBy(r)  == {f \in Files : r[f] # None}
Previous    == records[1].previous
Owned(f)    == op = "upgrade" /\ rcpt["live"][f] # None
TreeEmpty   == \A f \in Files : dest[f] = None
Pending     == dirs \cap {"state", "destination"} # {}

Moved(from, to) == [rcpt EXCEPT ![to] = rcpt[from], ![from] = None]
Dropped(slot)   == [rcpt EXCEPT ![slot] = None]

(* The files remove_obsolete and remove_if_unchanged are called for: those  *)
(* of the live receipt that the plan does not keep (none for uninstall).    *)
Obsolete(r, t) == {f \in OwnedBy(r) : t[f] = None}

(* A published file that no longer has the journaled digest.                *)
Modified(f) == dest[f] # None /\ dest[f].sha # RemoveSha(f)

-----------------------------------------------------------------------------
(* Errors.  Before the commit point the engine answers an error (or a       *)
(* cancellation) with rollback; rollback and recovery that cannot go on     *)
(* return an error and leave the transaction pending.  After the commit     *)
(* point a failed cleanup is not reported.                                  *)

StartRollback ==
  /\ pc' = CASE op = "install"   -> "undo"
             [] op = "upgrade"   -> "mark"
             [] op = "uninstall" -> "restore"
  /\ todo' = CASE op = "install"   -> Recorded("StageFile") \cup Recorded("RemoveFile")
               [] op = "upgrade"   -> {}
               [] op = "uninstall" -> Recorded("RestoreFile")

Refuse ==
  /\ pc' = IF mode = "run" /\ result = "committed" THEN "dropRoot" ELSE "refused"
  /\ UNCHANGED <<disk, work, history>>

(* Appending a record: it is synced, or the error is reported although the  *)
(* bytes reached the disk, and then the process does not count it.          *)
Log(r, next) ==
  /\ records' = Append(records, r)
  /\ \/ /\ known' = known + 1
        /\ pc' = next
        /\ UNCHANGED <<todo, faults>>
     \/ /\ faults < MaxFaults
        /\ faults' = faults + 1
        /\ known' = known
        /\ StartRollback
  /\ UNCHANGED <<files, rcpt, dirs, jfile, mode, plan, edited, result, edits>>

-----------------------------------------------------------------------------
(* Beginning a transaction: state directory, journal, header, destination   *)
(* directory.  No pending transaction and no foreign file at a destination  *)
(* of the plan is accepted.                                                 *)

(* check_journal_capacity: the records preflight reserves for a plan.       *)
RecordsReserved(r, t) == 4 + 2 * Cardinality(OwnedBy(t)) + Cardinality(OwnedBy(r))

ForeignFile(t, r) ==
  \E f \in OwnedBy(t) : dest[f] # None /\ (r = None \/ r[f] = None)

Begin(o, t) ==
  /\ pc = "idle" /\ ~Pending
  /\ (o = "install") = (rcpt["live"] = None)
  /\ t \in IF o = "uninstall" THEN {Empty} ELSE Manifests
  /\ ~ForeignFile(t, rcpt["live"])
  /\ dirs' = dirs \cup {"state"}
  /\ pc' = "journal" /\ mode' = "run"
  /\ op' = o /\ target' = t
  /\ before' = [dest |-> dest, live |-> rcpt["live"], root |-> "root" \in dirs]
  /\ edited' = {} /\ result' = "none"
  /\ todo' = {} /\ cur' = None /\ known' = 0
  /\ UNCHANGED <<files, rcpt, journal, bounds>>

CreateJournal ==
  /\ pc = "journal" /\ pc' = "header"
  /\ jfile' = "journal" /\ records' = <<>>
  /\ UNCHANGED <<files, rcpt, dirs, work, history>>

WriteHeader ==
  /\ pc = "header" /\ pc' = "destination"
  /\ records' = <<Header(op, rcpt["live"])>> /\ known' = 1
  /\ UNCHANGED <<files, rcpt, dirs, jfile, mode, todo, cur, history>>

(* A header that cannot be written takes the journal and the state          *)
(* directory with it.                                                       *)
HeaderFails ==
  /\ pc \in {"journal", "header"} /\ faults < MaxFaults
  /\ faults' = faults + 1
  /\ pc' = "idle" /\ result' = "undone"
  /\ jfile' = "absent" /\ dirs' = dirs \ {"state"}
  /\ UNCHANGED <<files, rcpt, records, work, plan, edited, edits>>

MakeDestination ==
  /\ pc = "destination"
  /\ dirs' = dirs \cup {"destination"}
  /\ IF op # "uninstall" /\ ForeignFile(target, rcpt["live"])
     THEN StartRollback
     ELSE /\ pc' = "remove"
          /\ todo' = IF op = "install" THEN {} ELSE Obsolete(rcpt["live"], target)
  /\ UNCHANGED <<files, rcpt, journal, mode, cur, known, history>>

-----------------------------------------------------------------------------
(* Moving a file aside: journal its content, rename it into the backup      *)
(* tree, look at it again, and move it back if it changed on the way.       *)

KeepFile(f) ==     \* Missing or PreservedModified
  /\ pc = "remove" /\ f \in todo
  /\ dest[f] = None \/ dest[f] # rcpt["live"][f]
  /\ todo' = todo \ {f}
  /\ UNCHANGED <<disk, pc, mode, cur, known, history>>

RemoveUnlogged(f) ==       \* faulty: moves the file without a record
  /\ pc = "remove" /\ f \in todo
  /\ dest[f] # None /\ dest[f] = rcpt["live"][f]
  /\ cur' = f /\ pc' = "removeMove"
  /\ UNCHANGED <<disk, mode, todo, known, history>>

RemoveIntent(f) ==
  /\ pc = "remove" /\ f \in todo
  /\ dest[f] # None /\ dest[f] = rcpt["live"][f]
  /\ cur' = f
  /\ Log(RestoreFile(f, dest[f]), "removeMove")

MoveAside ==
  /\ pc \in {"removeMove", "replaceMove"} /\ dest[cur] # None
  /\ backup' = [backup EXCEPT ![cur] = dest[cur]]
  /\ dest' = [dest EXCEPT ![cur] = None]
  /\ IF RestoreFile(cur, dest[cur]) \notin Known
     THEN /\ pc' = IF pc = "removeMove" THEN "removeBack" ELSE "replaceBack"
          /\ UNCHANGED todo
     ELSE /\ pc' = IF pc = "removeMove" THEN "remove" ELSE "replaced"
          /\ todo' = IF pc = "removeMove" THEN todo \ {cur} ELSE todo
  /\ UNCHANGED <<staged, rcpt, dirs, journal, mode, cur, known, history>>

MoveBack ==
  /\ pc \in {"removeBack", "replaceBack"} /\ dest[cur] = None
  /\ dest' = [dest EXCEPT ![cur] = backup[cur]]
  /\ backup' = [backup EXCEPT ![cur] = None]
  /\ IF pc = "removeBack"
     THEN pc' = "remove" /\ todo' = todo \ {cur}
     ELSE StartRollback
  /\ UNCHANGED <<staged, rcpt, dirs, journal, mode, cur, known, history>>

RemovesDone ==
  /\ pc = "remove" /\ todo = {}
  /\ IF op = "uninstall"
     THEN pc' = "commit" /\ UNCHANGED todo
     ELSE pc' = "apply" /\ todo' = OwnedBy(target)
  /\ UNCHANGED <<disk, mode, cur, known, history>>

-----------------------------------------------------------------------------
(* apply_file: create the install root if it is missing, skip a file that   *)
(* is already as wanted, else stage it, move what it replaces aside and     *)
(* rename it into place.                                                    *)

RootIntent ==
  /\ pc = "apply" /\ todo # {} /\ "root" \notin dirs
  /\ UNCHANGED cur
  /\ Log(RemoveDirectory, "makeRoot")

MakeRoot ==
  /\ pc = "makeRoot" /\ pc' = "apply"
  /\ dirs' = dirs \cup {"root"}
  /\ UNCHANGED <<files, rcpt, journal, work, history>>

SkipSameDigest(f) ==       \* faulty: does not look at the executable mode
  /\ pc = "apply" /\ "root" \in dirs /\ f \in todo
  /\ Owned(f) /\ dest[f] # None /\ dest[f].sha = target[f].sha
  /\ todo' = todo \ {f}
  /\ UNCHANGED <<disk, pc, mode, cur, known, history>>

SkipIdentical(f) ==
  /\ pc = "apply" /\ "root" \in dirs /\ f \in todo
  /\ Owned(f) /\ dest[f] = target[f]
  /\ todo' = todo \ {f}
  /\ UNCHANGED <<disk, pc, mode, cur, known, history>>

StageIntent(f) ==
  /\ pc = "apply" /\ "root" \in dirs /\ f \in todo
  /\ IF Owned(f) THEN dest[f] # target[f] ELSE dest[f] = None
  /\ cur' = f
  /\ Log(StageFile(f, target[f].sha), "stage")

StageCopy ==
  /\ pc = "stage" /\ pc' = "staged"
  /\ staged' = [staged EXCEPT ![cur] = target[cur]]
  /\ UNCHANGED <<dest, backup, rcpt, dirs, journal, work, history>>

ReplaceIntent ==
  /\ pc = "staged" /\ Owned(cur) /\ dest[cur] # None
  /\ UNCHANGED cur
  /\ Log(RestoreFile(cur, dest[cur]), "replaceMove")

PublishIntent ==
  /\ pc = "replaced" \/ (pc = "staged" /\ dest[cur] = None)
  /\ UNCHANGED cur
  /\ Log(RemoveFile(cur, target[cur].sha), "publish")

Publish ==
  /\ pc = "publish" /\ dest[cur] = None /\ pc' = "verify"
  /\ dest' = [dest EXCEPT ![cur] = staged[cur]]
  /\ staged' = [staged EXCEPT ![cur] = None]
  /\ UNCHANGED <<backup, rcpt, dirs, journal, work, history>>

VerifyPublished ==
  /\ pc = "verify" /\ dest[cur] # None /\ dest[cur].sha = target[cur].sha
  /\ pc' = "apply" /\ todo' = todo \ {cur}
  /\ UNCHANGED <<disk, mode, cur, known, history>>

ApplyDone ==
  /\ pc = "apply" /\ todo = {}
  /\ pc' = IF op = "upgrade" THEN "bindReceipt" ELSE "createReceipt"
  /\ UNCHANGED <<disk, work, history>>

-----------------------------------------------------------------------------
(* stage_receipt: an upgrade journals the digest and writes the receipt     *)
(* under another name first; an install writes receipt.pending in place.    *)

StagingSlot == IF op = "upgrade" THEN "incoming" ELSE "pending"

BindReceipt ==
  /\ pc = "bindReceipt"
  /\ UNCHANGED cur
  /\ Log(PendingReceipt(target), "createReceipt")

CreateReceipt ==
  /\ pc = "createReceipt" /\ pc' = "writeReceipt"
  /\ rcpt' = [rcpt EXCEPT ![StagingSlot] = Torn]
  /\ UNCHANGED <<files, dirs, journal, work, history>>

WriteReceipt ==
  /\ pc = "writeReceipt"
  /\ pc' = IF op = "upgrade" THEN "publishReceipt" ELSE "commit"
  /\ rcpt' = [rcpt EXCEPT ![StagingSlot] = target]
  /\ UNCHANGED <<files, dirs, journal, work, history>>

WriteReceiptFails ==      \* the partly written file is removed
  /\ pc = "writeReceipt" /\ faults < MaxFaults
  /\ faults' = faults + 1
  /\ rcpt' = Dropped(StagingSlot)
  /\ StartRollback
  /\ UNCHANGED <<files, dirs, journal, mode, cur, known, plan, edited, result, edits>>

PublishReceipt ==
  /\ pc = "publishReceipt" /\ pc' = "commit"
  /\ rcpt' = Moved("incoming", "pending")
  /\ UNCHANGED <<files, dirs, journal, work, history>>

-----------------------------------------------------------------------------
(* commit: the marker, then the receipt renames.  The rename that makes the *)
(* new receipt live, or takes the live one away, is the commit point.       *)

Commit ==
  /\ pc = "commit"
  /\ UNCHANGED cur
  /\ Log(Committing, "cutover")

Cutover ==
  /\ pc = "cutover"
  /\ CASE op = "install"   -> /\ rcpt["live"] = None
                              /\ rcpt' = Moved("pending", "live")
                              /\ pc' = "clean" /\ result' = "committed"
       [] op = "uninstall" -> /\ rcpt["deleted"] = None
                              /\ rcpt' = Moved("live", "deleted")
                              /\ pc' = "clean" /\ result' = "committed"
       [] op = "upgrade"   -> /\ rcpt["previous"] = None
                              /\ rcpt["live"] = Previous
                              /\ rcpt["pending"] \in BoundReceipts(records)
                              /\ rcpt' = Moved("live", "previous")
                              /\ pc' = "publishLive" /\ UNCHANGED result
  /\ UNCHANGED <<files, dirs, journal, work, plan, edited, bounds>>

PublishLive ==
  /\ pc = "publishLive" /\ pc' = "clean"
  /\ rcpt' = Moved("pending", "live") /\ result' = "committed"
  /\ UNCHANGED <<files, dirs, journal, work, plan, edited, bounds>>

-----------------------------------------------------------------------------
(* A step of the transaction that returns an error: because of what it      *)
(* finds at the destination, because the file system refuses, or because    *)
(* the caller cancelled at a checkpoint.                                    *)

Forward == {"remove", "removeMove", "removeBack", "apply", "makeRoot", "stage", "staged",
            "replaceMove", "replaceBack", "replaced", "publish", "verify", "bindReceipt",
            "createReceipt", "writeReceipt", "publishReceipt", "commit", "cutover",
            "publishLive"}

Blocked ==
  CASE pc = "apply" -> \E f \in todo : ~Owned(f) /\ dest[f] # None
    [] pc = "staged" -> ~Owned(cur) /\ dest[cur] # None
    [] pc \in {"removeMove", "replaceMove"} -> dest[cur] = None
    [] pc \in {"removeBack", "replaceBack"} -> TRUE   \* taken again, or another file moved
    [] pc = "publish" -> dest[cur] # None
    [] pc = "verify" -> ~(dest[cur] # None /\ dest[cur].sha = target[cur].sha)
    [] OTHER -> FALSE

StepBlocked ==
  /\ pc \in Forward /\ Blocked
  /\ StartRollback
  /\ UNCHANGED <<disk, mode, cur, known, history>>

StepFails ==
  /\ pc \in Forward /\ faults < MaxFaults
  /\ faults' = faults + 1
  /\ StartRollback
  /\ UNCHANGED <<disk, mode, cur, known, plan, edited, result, edits>>

-----------------------------------------------------------------------------
(* Rollback.  An upgrade first makes the decision durable and checks every  *)
(* file and receipt it will touch; an install goes straight to work.        *)

MarkRollingBack ==
  /\ pc = "mark"
  /\ IF known = Len(records)
     THEN /\ records' = Append(records, RollingBack) /\ known' = known + 1
          /\ pc' = "validate"
          /\ UNCHANGED <<files, rcpt, dirs, jfile, mode, todo, cur, history>>
     ELSE Refuse     \* "journal changed before rollback marker publication"

RestoreFirstTime(f) ==     \* faulty: a file that is already back is refused
  LET c == RestoreContent(f)
  IN  /\ backup[f] = c
      /\ dest[f] # None => f \in Recorded("RemoveFile") /\ ~Modified(f)

RestorePossible(f) ==
  LET c == RestoreContent(f)
  IN  \/ /\ dest[f] # None /\ backup[f] = c
         /\ f \in Recorded("RemoveFile") /\ ~Modified(f)
      \/ dest[f] = c /\ backup[f] = None
      \/ dest[f] = None /\ backup[f] = c

RollbackValid ==
  /\ (rcpt["live"] = None) # (rcpt["previous"] = None)
  /\ rcpt["live"] \in {None, Previous} /\ rcpt["previous"] \in {None, Previous}
  /\ rcpt["pending"] # None => rcpt["pending"] \in BoundReceipts(records)
  /\ \A f \in Recorded("RestoreFile") : RestorePossible(f)
  /\ \A f \in Recorded("RemoveFile") \ Recorded("RestoreFile") : ~Modified(f)

ValidateRollback ==
  /\ pc = "validate"
  /\ IF RollbackValid
     THEN /\ pc' = "undo" /\ todo' = Recorded("RemoveFile")
          /\ UNCHANGED <<disk, mode, cur, known, history>>
     ELSE Refuse

UndoUnchecked(f) ==        \* faulty: removes whatever is in place
  /\ pc = "undo" /\ f \in todo
  /\ dest' = IF f \in Recorded("RemoveFile") THEN [dest EXCEPT ![f] = None] ELSE dest
  /\ staged' = IF op = "install" THEN [staged EXCEPT ![f] = None] ELSE staged
  /\ todo' = todo \ {f}
  /\ UNCHANGED <<backup, rcpt, dirs, journal, pc, mode, cur, known, history>>

(* Remove a published file if it still has the digest that was published;   *)
(* an install also removes its staged copy on the way.                      *)
UndoFile(f) ==
  /\ pc = "undo" /\ f \in todo
  /\ IF f \in Recorded("RemoveFile") \ Recorded("RestoreFile") /\ Modified(f)
     THEN Refuse
     ELSE /\ dest' = IF f \in Recorded("RemoveFile") /\ ~Modified(f)
                     THEN [dest EXCEPT ![f] = None] ELSE dest
          /\ staged' = IF op = "install" THEN [staged EXCEPT ![f] = None] ELSE staged
          /\ todo' = todo \ {f}
          /\ UNCHANGED <<backup, rcpt, dirs, journal, pc, mode, cur, known, history>>

UndoDone ==
  /\ pc = "undo" /\ todo = {}
  /\ IF op = "install"
     THEN pc' = "undoRoot" /\ UNCHANGED todo
     ELSE pc' = "restore" /\ todo' = Recorded("RestoreFile")
  /\ UNCHANGED <<disk, mode, cur, known, history>>

(* Bring a backup home.  An upgrade compares both copies with the journal,  *)
(* an uninstall compares them with each other.                              *)
RestoreUncompared(f) ==    \* faulty: takes any file in place for the restored one
  dest[f] = None /\ backup[f] = None

RestoreConflict(f) ==
  LET c == RestoreContent(f)
  IN  \/ dest[f] = None /\ backup[f] = None
      \/ dest[f] # None /\ backup[f] # None /\ dest[f] # backup[f]
      \/ op = "upgrade" /\ ({dest[f], backup[f]} \ {None}) # {c}

RestoreStep(f) ==
  /\ pc = "restore" /\ f \in todo
  /\ IF RestoreConflict(f)
     THEN Refuse
     ELSE /\ dest' = [dest EXCEPT ![f] = IF @ = None THEN backup[f] ELSE @]
          /\ backup' = [backup EXCEPT ![f] = None]
          /\ todo' = todo \ {f}
          /\ UNCHANGED <<staged, rcpt, dirs, journal, pc, mode, cur, known, history>>

RestoreDone ==
  /\ pc = "restore" /\ todo = {}
  /\ pc' = IF op = "upgrade" THEN "undoStaged" ELSE "clean"
  /\ UNCHANGED <<disk, work, history>>

UndoStaged ==
  /\ pc = "undoStaged" /\ pc' = "undoRoot"
  /\ staged' = [f \in Files |-> IF f \in Recorded("StageFile") THEN None ELSE staged[f]]
  /\ UNCHANGED <<dest, backup, rcpt, dirs, journal, work, history>>

UndoRoot ==
  /\ pc = "undoRoot"
  /\ pc' = IF op = "upgrade" THEN "restoreReceipt" ELSE "clean"
  /\ dirs' = IF RemoveDirectory \in Known /\ TreeEmpty THEN dirs \ {"root"} ELSE dirs
  /\ UNCHANGED <<files, rcpt, journal, work, history>>

DropPrevious ==            \* faulty: takes the old receipt for the new one's copy
  /\ pc = "restoreReceipt" /\ pc' = "dropStagedReceipts"
  /\ rcpt' = Dropped("previous")
  /\ UNCHANGED <<files, dirs, journal, work, history>>

RestoreReceipt ==
  /\ pc = "restoreReceipt" /\ pc' = "dropStagedReceipts"
  /\ rcpt' = IF rcpt["previous"] = None THEN rcpt ELSE Moved("previous", "live")
  /\ UNCHANGED <<files, dirs, journal, work, history>>

DropStagedReceipts ==
  /\ pc = "dropStagedReceipts"
  /\ IF (rcpt["incoming"] # None \/ rcpt["pending"] # None) /\ BoundReceipts(records) = {}
     THEN Refuse
     ELSE /\ pc' = "clean"
          /\ rcpt' = [rcpt EXCEPT !["incoming"] = None, !["pending"] = None]
          /\ UNCHANGED <<files, dirs, journal, work, history>>

-----------------------------------------------------------------------------
(* cleanup_transaction: check, then remove backups and staged files, the    *)
(* destination directory, the receipts that are not live, the journal, and  *)
(* the state directory.                                                     *)

UninstallValid ==
  /\ rcpt["previous"] = None /\ rcpt["pending"] = None
  /\ \/ rcpt["live"] = Previous /\ rcpt["deleted"] = None
     \/ rcpt["live"] = None /\ rcpt["deleted"] = Previous /\ IsCommitting(records)
  /\ \A i \in 2 .. Len(records) : records[i].kind = "RestoreFile" =>
       records[i].content = Previous[records[i].file]

CleanupValid ==
  CASE op = "install"   -> TRUE
    [] op = "upgrade"   ->
         IF ~IsRollingBack(records)
         THEN /\ IsCommitting(records) /\ rcpt["pending"] = None
              /\ rcpt["live"] \in BoundReceipts(records)
              /\ rcpt["previous"] \in {None, Previous}
              /\ \A f \in OwnedBy(rcpt["live"]) : dest[f] = rcpt["live"][f]
         ELSE rcpt["previous"] = None /\ rcpt["pending"] = None /\ rcpt["live"] = Previous
    [] op = "uninstall" -> UninstallValid

Clean ==
  /\ pc = "clean"
  /\ IF CleanupValid
     THEN /\ pc' = "sweep"
          /\ todo' = Recorded("RestoreFile") \cup Recorded("StageFile")
          /\ rcpt' = IF op = "upgrade" THEN Dropped("incoming") ELSE rcpt
          /\ UNCHANGED <<files, dirs, journal, mode, cur, known, history>>
     ELSE Refuse

Sweep(f) ==
  /\ pc = "sweep" /\ f \in todo
  /\ IF backup[f] # None /\ f \in Recorded("RestoreFile") /\ backup[f] # RestoreContent(f)
     THEN Refuse
     ELSE /\ backup' = [backup EXCEPT ![f] = None]
          /\ staged' = [staged EXCEPT ![f] = None]
          /\ todo' = todo \ {f}
          /\ UNCHANGED <<dest, rcpt, dirs, journal, pc, mode, cur, known, history>>

DropDestination ==
  /\ pc = "sweep" /\ todo = {} /\ pc' = "dropReceipts"
  /\ dirs' = dirs \ {"destination"}
  /\ UNCHANGED <<files, rcpt, journal, work, history>>

KeepPrevious ==            \* faulty: leaves receipt.previous after an upgrade
  /\ pc = "dropReceipts"
  /\ pc' = IF op = "uninstall" /\ rcpt["live"] = None THEN "dropDeleted" ELSE "dropJournal"
  /\ rcpt' = IF op = "install" THEN Dropped("pending") ELSE rcpt
  /\ jfile' = IF op = "uninstall" /\ rcpt["live"] = None THEN "done" ELSE jfile
  /\ UNCHANGED <<files, dirs, records, work, history>>

DropReceipts ==
  /\ pc = "dropReceipts"
  /\ IF op = "install" /\ rcpt["pending"] = Torn
     THEN Refuse          \* validate_transaction_receipt cannot parse it
     ELSE /\ pc' = IF op = "uninstall" /\ rcpt["live"] = None THEN "dropDeleted"
                                                              ELSE "dropJournal"
          /\ rcpt' = CASE op = "install"   -> Dropped("pending")
                       [] op = "upgrade"   -> Dropped("previous")
                       [] op = "uninstall" -> rcpt
          /\ jfile' = IF op = "uninstall" /\ rcpt["live"] = None THEN "done" ELSE jfile
          /\ UNCHANGED <<files, dirs, records, work, history>>

DropDeleted ==
  /\ pc = "dropDeleted" /\ pc' = "dropJournal"
  /\ rcpt' = Dropped("deleted")
  /\ UNCHANGED <<files, dirs, journal, work, history>>

DropJournal ==
  /\ pc = "dropJournal" /\ pc' = "dropState"
  /\ jfile' = "absent" /\ records' = <<>> /\ known' = 0
  /\ UNCHANGED <<files, rcpt, dirs, mode, todo, cur, history>>

DropState ==
  /\ pc = "dropState"
  /\ dirs' = dirs \ {"state"}
  /\ result' = IF result = "committed" THEN result ELSE "undone"
  /\ pc' = IF result = "committed" /\ op # "install" /\ mode # "finish"
           THEN "dropRoot" ELSE "idle"
  /\ UNCHANGED <<files, rcpt, journal, work, plan, edited, bounds>>

(* remove_owned_empty_directories after a committed upgrade or uninstall,   *)
(* whatever became of the cleanup; the adapter ignores its errors.          *)
DropRoot ==
  /\ pc = "dropRoot" /\ pc' = "idle"
  /\ dirs' = IF op # "install" /\ TreeEmpty THEN dirs \ {"root"} ELSE dirs
  /\ UNCHANGED <<files, rcpt, journal, work, history>>

-----------------------------------------------------------------------------
(* recover_pending: load_recovery_for_scope, then one procedure per         *)
(* operation.  A journal without a complete header is not bound to          *)
(* anything and is kept for a person to look at.                            *)

Unreadable ==
  \/ "state" \notin dirs
  \/ /\ jfile # "journal"
     /\ \/ "destination" \in dirs
        \/ \E s \in {"previous", "pending", "incoming"} : rcpt[s] # None
        \/ rcpt["live"] # None /\ (jfile = "done" \/ rcpt["deleted"] # None)
  \/ jfile = "done" /\ ~(IsCommitting(records) /\ records[1].op = "uninstall")
  \/ jfile # "absent" /\ ~ReadJournal(records)

Recover(next, passed) ==
  /\ pc = "idle" /\ Pending /\ ~Unreadable
  /\ mode' = "recover" /\ known' = Len(records)
  /\ op' = records[1].op
  /\ pc' = next /\ todo' = passed
  /\ UNCHANGED <<disk, cur, target, before, edited, result, bounds>>

RecoverRefuses ==
  /\ pc = "idle" /\ Pending /\ Unreadable
  /\ mode' = "recover" /\ known' = Len(records) /\ pc' = "refused"
  /\ UNCHANGED <<disk, todo, cur, history>>

RecoverNotEmpty ==         \* faulty: waits for a journal that will never come
  /\ pc = "idle" /\ Pending /\ ~Unreadable /\ jfile = "absent" /\ records # <<>>
  /\ mode' = "finish" /\ pc' = "dropState"
  /\ UNCHANGED <<disk, todo, cur, known, history>>

RecoverEmpty ==       \* a state directory with at most a tombstone in it
  /\ pc = "idle" /\ Pending /\ ~Unreadable /\ jfile = "absent"
  /\ mode' = "finish" /\ pc' = "dropState"
  /\ rcpt' = Dropped("deleted")
  /\ UNCHANGED <<files, dirs, journal, todo, cur, known, history>>

RecoverDone ==        \* journal.done: only the tombstone and the marker are left
  /\ pc = "idle" /\ Pending /\ ~Unreadable /\ jfile = "done"
  /\ mode' = "finish" /\ pc' = "dropDeleted"
  /\ UNCHANGED <<disk, todo, cur, known, history>>

FilesOf(kinds) ==
  {r.file : r \in {records[i] : i \in {j \in 1 .. Len(records) : records[j].kind \in kinds}}}

UndoInstall ==             \* faulty: does not ask whether the receipt is live
  /\ jfile = "journal" /\ records # <<>> /\ records[1].op = "install"
  /\ Recover("undo", FilesOf({"StageFile", "RemoveFile"}))

RecoverInstall ==
  /\ jfile = "journal" /\ records # <<>> /\ records[1].op = "install"
  /\ IF rcpt["live"] # None
     THEN Recover(IF rcpt["pending"] = None THEN "clean" ELSE "refused", {})
     ELSE Recover("undo", FilesOf({"StageFile", "RemoveFile"}))

(* The receipt transition of an upgrade: it is rolled forward only when the *)
(* bound receipt is live and no longer pending.                             *)
RollForward ==
  /\ IsCommitting(records)
  /\ rcpt["live"] \in BoundReceipts(records) /\ rcpt["pending"] = None

OldReceiptLive == rcpt["live"] = Previous /\ rcpt["previous"] = None

Ambiguous ==
  \/ ~UpgradeReceiptsOK(records)
  \/ ~IsCommitting(records) /\ ~OldReceiptLive
  \/ /\ IsCommitting(records) /\ ~RollForward
     /\ \/ rcpt["live"] # None /\ ~OldReceiptLive
        \/ rcpt["live"] = None /\ rcpt["previous"] # Previous
        \/ rcpt["live"] = None /\ rcpt["pending"] = None
        \/ rcpt["pending"] \notin BoundReceipts(records) \cup {None}

UpgradeDecision ==
  IF IsRollingBack(records) THEN "validate"
  ELSE IF Ambiguous THEN "refused"
  ELSE IF RollForward THEN "clean" ELSE "mark"

RecoverUpgrade ==
  /\ jfile = "journal" /\ records # <<>> /\ records[1].op = "upgrade"
  /\ Recover(UpgradeDecision, {})

UninstallByMarker ==       \* faulty: takes the marker for the commit point
  /\ jfile = "journal" /\ records # <<>> /\ records[1].op = "uninstall"
  /\ Recover(IF ~UninstallValid THEN "refused"
             ELSE IF IsCommitting(records) THEN "clean" ELSE "restore",
             FilesOf({"RestoreFile"}))

RecoverUninstall ==
  /\ jfile = "journal" /\ records # <<>> /\ records[1].op = "uninstall"
  /\ Recover(IF ~UninstallValid THEN "refused"
             ELSE IF rcpt["live"] # None THEN "restore" ELSE "clean",
             FilesOf({"RestoreFile"}))

(* The caller of a refused recovery or rollback gets an error; the next     *)
(* operation tries again.                                                   *)
Retry ==
  /\ pc = "refused" /\ pc' = "idle"
  /\ mode' = "run" /\ todo' = {} /\ cur' = None /\ known' = 0
  /\ UNCHANGED <<disk, history>>

-----------------------------------------------------------------------------
(* The environment.  Dying, and an I/O error in begin, rollback, recovery   *)
(* or cleanup, leave the disk as it is and end the call.                    *)
Crash ==
  /\ pc \notin {"idle", "refused"} /\ faults < MaxFaults
  /\ faults' = faults + 1
  /\ pc' = "idle" /\ mode' = "run" /\ todo' = {} /\ cur' = None /\ known' = 0
  /\ UNCHANGED <<disk, plan, edited, result, edits>>

(* The user changes, creates or deletes a file under an existing root.      *)
UserEdit(f, c) ==
  /\ edits < MaxEdits /\ "root" \in dirs /\ dest[f] # c
  /\ edits' = edits + 1
  /\ dest' = [dest EXCEPT ![f] = c]
  /\ edited' = edited \cup {f}
  /\ UNCHANGED <<backup, staged, rcpt, dirs, journal, pc, work, plan, result, faults>>

-----------------------------------------------------------------------------
Init ==
  /\ dest \in [Files -> UserContent \cup {None}]
  /\ backup = Empty /\ staged = Empty
  /\ rcpt = [s \in Slots |-> None]
  /\ dirs = IF TreeEmpty THEN {} ELSE {"root"}
  /\ jfile = "absent" /\ records = <<>> /\ known = 0
  /\ pc = "idle" /\ mode = "run" /\ op = "install" /\ target = Empty
  /\ todo = {} /\ cur = None
  /\ before = [dest |-> dest, live |-> None, root |-> "root" \in dirs]
  /\ edited = {} /\ result = "undone"
  /\ faults = 0 /\ edits = 0

Transact ==
  \/ CreateJournal \/ WriteHeader \/ MakeDestination
  \/ \E f \in Files : KeepFile(f) \/ RemoveIntent(f) \/ SkipIdentical(f) \/ StageIntent(f)
  \/ MoveAside \/ MoveBack \/ RemovesDone
  \/ RootIntent \/ MakeRoot \/ StageCopy \/ ReplaceIntent \/ PublishIntent \/ Publish
  \/ VerifyPublished \/ ApplyDone
  \/ BindReceipt \/ CreateReceipt \/ WriteReceipt \/ PublishReceipt
  \/ Commit \/ Cutover \/ PublishLive
  \/ StepBlocked

Rollback ==
  \/ MarkRollingBack \/ ValidateRollback
  \/ \E f \in Files : UndoFile(f) \/ RestoreStep(f)
  \/ UndoDone \/ RestoreDone \/ UndoStaged \/ UndoRoot
  \/ RestoreReceipt \/ DropStagedReceipts

Cleanup ==
  \/ Clean \/ DropDestination \/ DropReceipts \/ DropDeleted \/ DropJournal
  \/ DropState \/ DropRoot
  \/ \E f \in Files : Sweep(f)

Recovery ==
  \/ RecoverRefuses \/ RecoverEmpty \/ RecoverDone
  \/ RecoverInstall \/ RecoverUpgrade \/ RecoverUninstall \/ Retry

Failure == HeaderFails \/ WriteReceiptFails \/ StepFails \/ Crash

Next ==
  \/ \E o \in Operations, t \in Manifests \cup {Empty} : Begin(o, t)
  \/ Transact \/ Rollback \/ Cleanup \/ Recovery
  \/ Failure
  \/ \E f \in Files, c \in UserContent \cup {None} : UserEdit(f, c)

Spec == Init /\ [][Next]_vars

-----------------------------------------------------------------------------
Phases == Forward \cup
  {"idle", "journal", "header", "destination", "mark", "validate", "undo", "restore",
   "undoStaged", "undoRoot", "restoreReceipt", "dropStagedReceipts", "clean", "sweep",
   "dropReceipts", "dropDeleted", "dropJournal", "dropState", "dropRoot", "refused"}

(* Every variable has its type.                                             *)
TypeOK ==
  /\ dest \in Receipt /\ backup \in Receipt /\ staged \in Receipt
  /\ rcpt \in [Slots -> Receipt \cup {None, Torn}]
  /\ \A s \in {"live", "previous", "deleted"} : rcpt[s] # Torn
  /\ dirs \subseteq {"root", "state", "destination"}
  /\ jfile \in {"absent", "journal", "done"}
  /\ records \in Seq(Record)
  /\ known \in 0 .. Len(records)
  /\ pc \in Phases /\ mode \in {"run", "recover", "finish"}
  /\ op \in Operations /\ target \in Receipt
  /\ todo \subseteq Files /\ cur \in Files \cup {None}
  /\ before \in [dest : Receipt, live : Receipt \cup {None}, root : BOOLEAN]
  /\ edited \subseteq Files /\ result \in {"none", "committed", "undone"}
  /\ faults \in Nat /\ edits \in Nat

OnDisk(k) == FilesOf({k})

(* Write-ahead: a crash never finds a file moved, staged or published, or   *)
(* a directory created, that a record on disk does not announce ("Destructive *)
(* actions are journaled first").                                           *)
WriteAhead ==
  /\ \A f \in Files :
       /\ backup[f] # None => f \in OnDisk("RestoreFile")
       /\ staged[f] # None => f \in OnDisk("StageFile")
       /\ (result = "none" /\ dest[f] # before.dest[f] /\ f \notin edited) =>
            f \in OnDisk("RestoreFile") \cup OnDisk("RemoveFile")
  /\ (result = "none" /\ "root" \in dirs /\ ~before.root /\ edited = {}) =>
       RemoveDirectory \in {records[i] : i \in 1 .. Len(records)}

(* Whatever the writer leaves behind, with failed appends and rollbacks in  *)
(* between, is a journal that the reader accepts once its header is there.  *)
JournalReadable ==
  (jfile # "absent" /\ records # <<>>) =>
    /\ ReadJournal(records)
    /\ records[1].op = "upgrade" => UpgradeReceiptsOK(records)

(* However a transaction ends, its journal keeps to the records preflight   *)
(* reserved for it (capacity.rs check_journal_capacity), so that its reader *)
(* never refuses it for its length; a user who brings a removed file back   *)
(* meanwhile can cost one record more.                                      *)
JournalFits ==
  (jfile # "absent" /\ op # "uninstall" /\ edited = {}) =>
    Len(records) <= RecordsReserved(IF before.live = None THEN Empty ELSE before.live, target)

(* The journal can be relied on at any time.                                *)
JournalSound == WriteAhead /\ JournalReadable /\ JournalFits

(* A replacement whose digest is that of the file it replaces, and only the *)
(* executable mode differs.                                                 *)
ModeOnly(f) ==
  /\ before.dest[f] # None /\ target[f] # None
  /\ before.dest[f].sha = target[f].sha /\ before.dest[f] # target[f]

(* Until the transaction is decided, the original content of every file is  *)
(* still there, in place or as a backup.  A replacement that only changes   *)
(* the mode is an exception: rollback tells files apart by digest alone,    *)
(* and one that is interrupted may take the original for the replacement.   *)
OriginalSurvives ==
  result = "none" => \A f \in Files \ edited :
    (before.dest[f] # None /\ ~ModeOnly(f)) => before.dest[f] \in {dest[f], backup[f]}

(* Until the commit point the receipt that was live is live or set aside    *)
(* as receipt.previous: ownership is never forgotten.                       *)
OwnershipKept ==
  result # "committed" => before.live \in {rcpt["live"], rcpt["previous"]}

(* From the commit point on, through crashes and recovery, the tree and the *)
(* receipt are those of the plan: its files in place, obsolete files gone   *)
(* unless the user had changed them, everything else as it was.             *)
CommittedTree ==
  result = "committed" =>
    /\ rcpt["live"] = IF target = Empty THEN None ELSE target
    /\ \A f \in Files \ edited :
         dest[f] = IF target[f] # None THEN target[f]
                   ELSE IF before.live # None /\ before.live[f] = before.dest[f] THEN None
                   ELSE before.dest[f]

(* A transaction that was undone, by its own rollback or by recovery, left  *)
(* the tree, the receipt and the root as they were when it began.           *)
UndoneTree ==
  result = "undone" =>
    /\ rcpt["live"] = before.live
    /\ \A f \in Files \ edited : dest[f] = before.dest[f]
    /\ edited = {} => (("root" \in dirs) = before.root)

(* A transaction that ended left what its outcome promises: all of the plan *)
(* or nothing of it.                                                        *)
OutcomeTree == CommittedTree /\ UndoneTree

(* When nothing is pending there is no backup, staged file, journal or      *)
(* spare receipt left that a later transaction could mistake for its own.   *)
NothingLeftBehind ==
  ~Pending =>
    /\ backup = Empty /\ staged = Empty /\ jfile = "absent"
    /\ \A s \in Slots \ {"live"} : rcpt[s] = None

(* Rollback and recovery refuse only for a reason outside the transaction's *)
(* control: the user changed a file meanwhile, the journal has no complete  *)
(* header or holds a record the process never confirmed, receipt.pending is *)
(* torn, or a replacement changed only the mode.                            *)
RefusalExplained ==
  pc = "refused" =>
    \/ edited # {}
    \/ jfile = "journal" /\ (records = <<>> \/ known # Len(records))
    \/ rcpt["pending"] = Torn
    \/ \E f \in Files : ModeOnly(f)

(* A backup leaves the transaction storage only to go back to its place,    *)
(* as a second copy of what is in place, or after the commit point.         *)
BackupsNeverLost ==
  [][\A f \in Files : (backup[f] # None /\ backup'[f] = None) =>
       dest'[f] = backup[f] \/ result = "committed"]_vars

(* Once committed, no later step, crash or recovery turns the transaction   *)
(* back or touches the installed tree, not even files the user changed      *)
(* since; only a new one, begun with nothing pending, moves on.             *)
CommitIsFinal ==
  [][result = "committed" =>
       \/ /\ result' = "committed" /\ rcpt'["live"] = rcpt["live"]
          /\ edits' = edits => dest' = dest
       \/ pc = "idle" /\ ~Pending]_vars

-----------------------------------------------------------------------------
(* Calls run to completion: each is a sequential procedure over finitely    *)
(* many files.  A caller that finds a transaction pending calls again.      *)
Progress == Transact \/ Rollback \/ Cleanup \/ Recovery

FairSpec == Spec /\ WF_vars(Progress)

(* Every transaction that is begun is decided and leaves nothing pending,   *)
(* or recovery has refused and keeps refusing until somebody intervenes.    *)
PendingResolved == Pending ~> (~Pending \/ pc = "refused")

=============================================================================
