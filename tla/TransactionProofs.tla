------------------------- MODULE TransactionProofs -------------------------
(* Proofs about Transaction, for any set of paths, any packages, any user   *)
(* and any number of faults.                                                *)
EXTENDS TransactionAtomic, FiniteSetTheorems, FunctionTheorems, TLAPS

Replacing == {"stage", "staged", "replaceMove", "replaceBack", "replaced", "publish",
     "verify"}

(* What each phase takes from the ones before it: the file in hand and the  *)
(* files still to do are files of the plan, and a receipt about to be made  *)
(* live is completely written.                                              *)
PhaseOK ==
  /\ pc \in {"journal", "header"} => known = 0
  /\ pc \in {"removeMove", "removeBack"} => cur \in Files
  /\ pc \in Replacing => cur \in OwnedBy(target)
  /\ pc \in Replacing \cup {"apply", "makeRoot"} => todo \subseteq OwnedBy(target)
  /\ pc = "publishReceipt" => rcpt["incoming"] \in Receipt
  /\ (pc \in {"commit", "cutover"} /\ op = "install") => rcpt["pending"] \in Receipt
  /\ pc = "publishLive" => rcpt["pending"] \in Receipt

TypeInv == TypeOK /\ PhaseOK

(* The fields of a record have their types.                                 *)
LEMMA RecordFields ==
  ASSUME NEW r \in Record
  PROVE  /\ r.kind \in FileKinds => r.file \in Files
         /\ r.kind = "RestoreFile" => r.content \in Content
         /\ r.kind \in {"StageFile", "RemoveFile"} => r.sha \in Shas
         /\ r.kind = "PendingReceipt" => r.receipt \in Receipt
         /\ r.kind = "Header" => r.op \in Operations /\ r.previous \in Receipt \cup {None}
BY DEF Record, FileKinds

(* The records the transaction appends are records of the journal.          *)
LEMMA RecordMade ==
  /\ Committing \in Record /\ RollingBack \in Record /\ RemoveDirectory \in Record
  /\ \A f \in Files, s \in Shas :
       StageFile(f, s) \in Record /\ RemoveFile(f, s) \in Record
  /\ \A f \in Files, c \in Content : RestoreFile(f, c) \in Record
  /\ \A r \in Receipt : PendingReceipt(r) \in Record
  /\ \A o \in Operations, r \in Receipt \cup {None} : Header(o, r) \in Record
BY DEF Record, Committing, RollingBack, RemoveDirectory, StageFile, RemoveFile, RestoreFile,
       PendingReceipt, Header

(* The passes of rollback and recovery are over files of the package.       *)
LEMMA PassesOverFiles ==
  ASSUME records \in Seq(Record), known \in 0 .. Len(records)
  PROVE  /\ \A k \in FileKinds : Recorded(k) \subseteq Files
         /\ \A K \in SUBSET FileKinds : FilesOf(K) \subseteq Files
         /\ BoundReceipts(records) \subseteq Receipt
BY RecordFields DEF Recorded, Known, FilesOf, BoundReceipts

(* Going back is a step to a rollback phase, over files of the package.     *)
LEMMA StartRollbackType ==
  ASSUME TypeOK, StartRollback
  PROVE  pc' \in {"undo", "mark", "restore"} /\ todo' \subseteq Files
BY PassesOverFiles DEF TypeOK, StartRollback, FileKinds, Operations

(* Appending goes on to the next step, or back.                             *)
LEMMA LogType ==
  ASSUME TypeOK, NEW r \in Record, NEW next \in Phases, Log(r, next),
         cur' \in Files \cup {None}
  PROVE  /\ TypeOK'
         /\ \/ pc' = next /\ todo' = todo
            \/ pc' \in {"undo", "mark", "restore"}
         /\ UNCHANGED <<rcpt, op, target>>
<1>1. records' \in Seq(Record) /\ Len(records') = Len(records) + 1
  BY DEF TypeOK, Log
<1>2. known' \in 0 .. Len(records') /\ faults' \in Nat
  BY <1>1 DEF TypeOK, Log
<1>3. /\ todo' \subseteq Files
      /\ (pc' = next /\ todo' = todo) \/ pc' \in {"undo", "mark", "restore"}
  BY StartRollbackType DEF TypeOK, Log
<1>4. UNCHANGED <<dest, backup, staged, rcpt, dirs, jfile, mode, op, target, before,
                  edited, result, edits>>
  BY DEF Log, files, plan
<1>5. pc' \in Phases
  BY <1>3 DEF Phases
<1> QED BY <1>1, <1>2, <1>3, <1>4, <1>5 DEF TypeOK

(* Steps forward keep the types.                                            *)
LEMMA TransactType == TypeInv /\ Transact => TypeInv'
<1> SUFFICES ASSUME TypeInv, Transact PROVE TypeInv'
  OBVIOUS
<1> USE DEF TypeInv, TypeOK, PhaseOK, Replacing, Phases, Forward,
            vars, disk, files, journal, work, plan, bounds, history
<1>1. CASE CreateJournal
  BY <1>1 DEF CreateJournal
<1>2. CASE WriteHeader
  BY <1>2, RecordMade DEF WriteHeader, Slots, Operations
<1>3. CASE MakeDestination
  BY <1>3, StartRollbackType DEF MakeDestination, ForeignFile, Obsolete, OwnedBy
<1>4. CASE MoveAside
  BY <1>4 DEF MoveAside, Receipt, OwnedBy
<1>5. CASE MoveBack
  BY <1>5, StartRollbackType DEF MoveBack, Receipt, OwnedBy
<1>6. CASE RemovesDone
  BY <1>6 DEF RemovesDone, OwnedBy
<1>7. CASE RootIntent
  <2>1. /\ RemoveDirectory \in Record
        /\ cur' \in Files \cup {None}
        /\ Log(RemoveDirectory, "makeRoot")
    BY <1>7, RecordMade DEF RootIntent
  <2> HIDE DEF TypeOK, PhaseOK
  <2>2. TypeOK'
    BY <2>1, LogType
  <2>3. (pc' = "makeRoot" /\ todo' = todo) \/ pc' \in {"undo", "mark", "restore"}
    BY <2>1, LogType
  <2>4. UNCHANGED <<rcpt, op, target>>
    BY <2>1, LogType
  <2> QED BY <1>7, <2>2, <2>3, <2>4 DEF PhaseOK, RootIntent, OwnedBy
<1>8. CASE MakeRoot
  BY <1>8 DEF MakeRoot
<1>9. CASE StageCopy
  BY <1>9 DEF StageCopy, Receipt, OwnedBy
<1>10. CASE ReplaceIntent
  <2>1. /\ RestoreFile(cur, dest[cur]) \in Record
        /\ cur' \in Files \cup {None}
        /\ Log(RestoreFile(cur, dest[cur]), "replaceMove")
    BY <1>10, RecordMade DEF ReplaceIntent, Receipt, OwnedBy
  <2> HIDE DEF TypeOK, PhaseOK
  <2>2. TypeOK'
    BY <2>1, LogType
  <2>3. (pc' = "replaceMove" /\ todo' = todo) \/ pc' \in {"undo", "mark", "restore"}
    BY <2>1, LogType
  <2>4. UNCHANGED <<rcpt, op, target>>
    BY <2>1, LogType
  <2> QED BY <1>10, <2>2, <2>3, <2>4 DEF PhaseOK, ReplaceIntent, OwnedBy
<1>11. CASE PublishIntent
  <2>1. /\ RemoveFile(cur, target[cur].sha) \in Record
        /\ cur' \in Files \cup {None}
        /\ Log(RemoveFile(cur, target[cur].sha), "publish")
    BY <1>11, RecordMade DEF PublishIntent, Receipt, OwnedBy, Content
  <2> HIDE DEF TypeOK, PhaseOK
  <2>2. TypeOK'
    BY <2>1, LogType
  <2>3. (pc' = "publish" /\ todo' = todo) \/ pc' \in {"undo", "mark", "restore"}
    BY <2>1, LogType
  <2>4. UNCHANGED <<rcpt, op, target>>
    BY <2>1, LogType
  <2> QED BY <1>11, <2>2, <2>3, <2>4 DEF PhaseOK, PublishIntent, OwnedBy
<1>12. CASE Publish
  BY <1>12 DEF Publish, Receipt, OwnedBy
<1>13. CASE VerifyPublished
  BY <1>13 DEF VerifyPublished
<1>14. CASE ApplyDone
  BY <1>14 DEF ApplyDone
<1>15. CASE BindReceipt
  <2>1. /\ PendingReceipt(target) \in Record
        /\ cur' \in Files \cup {None}
        /\ Log(PendingReceipt(target), "createReceipt")
    BY <1>15, RecordMade DEF BindReceipt
  <2> HIDE DEF TypeOK, PhaseOK
  <2>2. TypeOK'
    BY <2>1, LogType
  <2>3. (pc' = "createReceipt" /\ todo' = todo) \/ pc' \in {"undo", "mark", "restore"}
    BY <2>1, LogType
  <2>4. UNCHANGED <<rcpt, op, target>>
    BY <2>1, LogType
  <2> QED BY <1>15, <2>2, <2>3, <2>4 DEF PhaseOK, BindReceipt, OwnedBy
<1>16. CASE CreateReceipt
  BY <1>16 DEF CreateReceipt, Slots, StagingSlot
<1>17. CASE WriteReceipt
  BY <1>17 DEF WriteReceipt, Slots, StagingSlot, Operations
<1>18. CASE PublishReceipt
  BY <1>18 DEF PublishReceipt, Slots, Moved
<1>19. CASE Commit
  <2>1. /\ Committing \in Record
        /\ cur' \in Files \cup {None}
        /\ Log(Committing, "cutover")
    BY <1>19, RecordMade DEF Commit
  <2> HIDE DEF TypeOK, PhaseOK
  <2>2. TypeOK'
    BY <2>1, LogType
  <2>3. (pc' = "cutover" /\ todo' = todo) \/ pc' \in {"undo", "mark", "restore"}
    BY <2>1, LogType
  <2>4. UNCHANGED <<rcpt, op, target>>
    BY <2>1, LogType
  <2> QED BY <1>19, <2>2, <2>3, <2>4 DEF PhaseOK, Commit, OwnedBy
<1>20. CASE Cutover
  <2>1. CASE op = "install"
    BY <1>20, <2>1, TransactionAssumption DEF Cutover, Slots, Moved
  <2>2. CASE op = "uninstall"
    BY <1>20, <2>2, TransactionAssumption DEF Cutover, Slots, Moved
  <2>3. CASE op = "upgrade"
    <3>1. rcpt["pending"] \in Receipt
      BY <1>20, <2>3, PassesOverFiles DEF Cutover
    <3> QED BY <1>20, <2>3, <3>1, TransactionAssumption DEF Cutover, Slots, Moved
  <2> QED BY <2>1, <2>2, <2>3 DEF Operations
<1>21. CASE PublishLive
  BY <1>21, TransactionAssumption DEF PublishLive, Slots, Moved
<1>22. CASE StepBlocked
  BY <1>22, StartRollbackType DEF StepBlocked
<1>23. ASSUME NEW f \in Files, KeepFile(f) PROVE TypeInv'
  BY <1>23 DEF KeepFile
<1>24. ASSUME NEW f \in Files, RemoveIntent(f) PROVE TypeInv'
  <2>1. /\ RestoreFile(f, dest[f]) \in Record
        /\ cur' \in Files \cup {None}
        /\ Log(RestoreFile(f, dest[f]), "removeMove")
    BY <1>24, RecordMade DEF RemoveIntent, Receipt
  <2> HIDE DEF TypeOK, PhaseOK
  <2>2. TypeOK'
    BY <2>1, LogType
  <2>3. (pc' = "removeMove" /\ todo' = todo) \/ pc' \in {"undo", "mark", "restore"}
    BY <2>1, LogType
  <2>4. UNCHANGED <<rcpt, op, target>>
    BY <2>1, LogType
  <2> QED BY <1>24, <2>2, <2>3, <2>4 DEF PhaseOK, RemoveIntent, OwnedBy
<1>25. ASSUME NEW f \in Files, SkipIdentical(f) PROVE TypeInv'
  BY <1>25 DEF SkipIdentical
<1>26. ASSUME NEW f \in Files, StageIntent(f) PROVE TypeInv'
  <2>1. /\ StageFile(f, target[f].sha) \in Record
        /\ cur' \in Files \cup {None}
        /\ Log(StageFile(f, target[f].sha), "stage")
    BY <1>26, RecordMade DEF StageIntent, Receipt, OwnedBy, Content
  <2> HIDE DEF TypeOK, PhaseOK
  <2>2. TypeOK'
    BY <2>1, LogType
  <2>3. (pc' = "stage" /\ todo' = todo) \/ pc' \in {"undo", "mark", "restore"}
    BY <2>1, LogType
  <2>4. UNCHANGED <<rcpt, op, target>>
    BY <2>1, LogType
  <2> QED BY <1>26, <2>2, <2>3, <2>4 DEF PhaseOK, StageIntent, OwnedBy
<1> HIDE DEF TypeInv
<1> QED BY <1>1, <1>2, <1>3, <1>4, <1>5, <1>6, <1>7, <1>8, <1>9, <1>10, <1>11, <1>12, <1>13,
     <1>14, <1>15, <1>16, <1>17, <1>18, <1>19, <1>20, <1>21, <1>22, <1>23, <1>24, <1>25,
     <1>26 DEF Transact

(* Rollback keeps the types.                                                *)
LEMMA RollbackType == TypeInv /\ Rollback => TypeInv'
<1> SUFFICES ASSUME TypeInv, Rollback PROVE TypeInv'
  OBVIOUS
<1> USE DEF TypeInv, TypeOK, PhaseOK, Replacing, Phases, Forward, Refuse,
            vars, disk, files, journal, work, plan, bounds, history
<1>1. CASE MarkRollingBack
  <2>1. CASE known = Len(records)
    <3>1. records' \in Seq(Record) /\ Len(records') = Len(records) + 1
      BY <1>1, <2>1, RecordMade DEF MarkRollingBack
    <3>2. known' \in 0 .. Len(records')
      BY <1>1, <2>1, <3>1 DEF MarkRollingBack
    <3> QED BY <1>1, <2>1, <3>1, <3>2 DEF MarkRollingBack
  <2> QED BY <1>1, <2>1 DEF MarkRollingBack
<1>2. CASE ValidateRollback
  BY <1>2, PassesOverFiles DEF ValidateRollback, FileKinds
<1>3. CASE UndoDone
  BY <1>3, PassesOverFiles DEF UndoDone, FileKinds
<1>4. CASE RestoreDone
  BY <1>4 DEF RestoreDone
<1>5. CASE UndoStaged
  BY <1>5 DEF UndoStaged, Receipt
<1>6. CASE UndoRoot
  BY <1>6 DEF UndoRoot
<1>7. CASE RestoreReceipt
  BY <1>7, TransactionAssumption DEF RestoreReceipt, Slots, Moved
<1>8. CASE DropStagedReceipts
  BY <1>8, TransactionAssumption DEF DropStagedReceipts, Slots
<1>9. ASSUME NEW f \in Files, UndoFile(f) PROVE TypeInv'
  BY <1>9 DEF UndoFile, Receipt
<1>10. ASSUME NEW f \in Files, RestoreStep(f) PROVE TypeInv'
  BY <1>10 DEF RestoreStep, Receipt
<1> HIDE DEF TypeInv
<1> QED BY <1>1, <1>2, <1>3, <1>4, <1>5, <1>6, <1>7, <1>8, <1>9, <1>10 DEF Rollback

(* Cleanup keeps the types.                                                 *)
LEMMA CleanupType == TypeInv /\ Cleanup => TypeInv'
<1> SUFFICES ASSUME TypeInv, Cleanup PROVE TypeInv'
  OBVIOUS
<1> USE DEF TypeInv, TypeOK, PhaseOK, Replacing, Phases, Forward, Refuse,
            vars, disk, files, journal, work, plan, bounds, history
<1>1. CASE Clean
  <2>1. CASE CleanupValid
    <3>1. todo' \subseteq Files /\ pc' = "sweep"
      BY <1>1, <2>1, PassesOverFiles DEF Clean, FileKinds
    <3>2. /\ rcpt' \in [Slots -> Receipt \cup {None, Torn}]
          /\ \A s \in {"live", "previous", "deleted"} : rcpt'[s] # Torn
      BY <1>1, <2>1, TransactionAssumption DEF Clean, Slots, Dropped
    <3> QED BY <1>1, <2>1, <3>1, <3>2 DEF Clean
  <2> QED BY <1>1, <2>1 DEF Clean
<1>2. CASE DropDestination
  BY <1>2 DEF DropDestination
<1>3. CASE DropReceipts
  BY <1>3, TransactionAssumption DEF DropReceipts, Slots, Dropped, Operations
<1>4. CASE DropDeleted
  BY <1>4, TransactionAssumption DEF DropDeleted, Slots, Dropped
<1>5. CASE DropJournal
  BY <1>5 DEF DropJournal
<1>6. CASE DropState
  BY <1>6 DEF DropState
<1>7. CASE DropRoot
  BY <1>7 DEF DropRoot
<1>8. ASSUME NEW f \in Files, Sweep(f) PROVE TypeInv'
  BY <1>8 DEF Sweep, Receipt
<1> HIDE DEF TypeInv
<1> QED BY <1>1, <1>2, <1>3, <1>4, <1>5, <1>6, <1>7, <1>8 DEF Cleanup

(* Recovery starts from records it has read, in a pass over their files.    *)
LEMMA RecoverType ==
  ASSUME TypeInv, NEW next \in {"clean", "refused", "undo", "restore", "validate", "mark"},
         NEW passed \in SUBSET Files, jfile = "journal", Recover(next, passed)
  PROVE  TypeInv'
<1>1. ReadJournal(records) /\ records \in Seq(Record)
  BY DEF TypeInv, TypeOK, Recover, Unreadable
<1>2. records[1] \in Record
  BY <1>1 DEF ReadJournal
<1>3. records[1].op \in Operations
  BY <1>1, <1>2, RecordFields DEF ReadJournal
<1> QED BY <1>3 DEF TypeInv, TypeOK, PhaseOK, Replacing, Phases, Recover,
                    disk, files, journal, bounds

(* Recovery keeps the types.                                                *)
LEMMA RecoveryType == TypeInv /\ Recovery => TypeInv'
<1> SUFFICES ASSUME TypeInv, Recovery PROVE TypeInv'
  OBVIOUS
<1> USE DEF TypeInv, TypeOK, PhaseOK, Replacing, Phases, Forward, Refuse,
            vars, disk, files, journal, work, plan, bounds, history
<1>1. CASE RecoverRefuses
  BY <1>1 DEF RecoverRefuses
<1>2. CASE RecoverEmpty
  BY <1>2, TransactionAssumption DEF RecoverEmpty, Slots, Dropped
<1>3. CASE RecoverDone
  BY <1>3 DEF RecoverDone
<1>4. CASE Retry
  BY <1>4 DEF Retry
<1>5. CASE RecoverInstall
  <2>1. \E next \in {"clean", "refused", "undo", "restore", "validate", "mark"},
           passed \in SUBSET Files : jfile = "journal" /\ Recover(next, passed)
    BY <1>5, PassesOverFiles DEF RecoverInstall, FileKinds
  <2> QED BY <2>1, RecoverType
<1>6. CASE RecoverUpgrade
  <2>1. \E next \in {"clean", "refused", "undo", "restore", "validate", "mark"},
           passed \in SUBSET Files : jfile = "journal" /\ Recover(next, passed)
    BY <1>6, PassesOverFiles DEF RecoverUpgrade, UpgradeDecision
  <2> QED BY <2>1, RecoverType
<1>7. CASE RecoverUninstall
  <2>1. \E next \in {"clean", "refused", "undo", "restore", "validate", "mark"},
           passed \in SUBSET Files : jfile = "journal" /\ Recover(next, passed)
    BY <1>7, PassesOverFiles DEF RecoverUninstall, FileKinds
  <2> QED BY <2>1, RecoverType
<1> HIDE DEF TypeInv
<1> QED BY <1>1, <1>2, <1>3, <1>4, <1>5, <1>6, <1>7 DEF Recovery

(* Failures and crashes keep the types.                                     *)
LEMMA FailureType == TypeInv /\ Failure => TypeInv'
<1> SUFFICES ASSUME TypeInv, Failure PROVE TypeInv'
  OBVIOUS
<1> USE DEF TypeInv, TypeOK, PhaseOK, Replacing, Phases, Forward, Refuse,
            vars, disk, files, journal, work, plan, bounds, history
<1>1. CASE HeaderFails
  BY <1>1 DEF HeaderFails
<1>2. CASE WriteReceiptFails
  BY <1>2, StartRollbackType, TransactionAssumption DEF WriteReceiptFails, Slots, Dropped,
       StagingSlot
<1>3. CASE StepFails
  BY <1>3, StartRollbackType DEF StepFails
<1>4. CASE Crash
  BY <1>4 DEF Crash
<1> HIDE DEF TypeInv
<1> QED BY <1>1, <1>2, <1>3, <1>4 DEF Failure

(* Beginning a transaction keeps the types.                                 *)
LEMMA BeginType ==
  ASSUME TypeInv, NEW o \in Operations, NEW t \in Manifests \cup {Empty}, Begin(o, t)
  PROVE  TypeInv'
<1>1. t \in Receipt
  BY TransactionAssumption DEF Empty, Receipt
<1> QED BY <1>1 DEF Begin, TypeInv, TypeOK, PhaseOK, Replacing, Phases, Slots,
                    disk, files, journal, bounds

(* The user keeps the types.                                                *)
LEMMA UserEditType ==
  ASSUME TypeInv, NEW f \in Files, NEW c \in UserContent \cup {None}, UserEdit(f, c)
  PROVE  TypeInv'
BY TransactionAssumption DEF UserEdit, TypeInv, TypeOK, PhaseOK, Receipt, files, journal,
     work, plan

(* The invariant holds when nothing is installed.                           *)
LEMMA InitType == Init => TypeInv
BY TransactionAssumption DEF Init, TypeInv, TypeOK, PhaseOK, Replacing, Phases, Receipt,
     Empty, Slots,
   Operations

(* ... and every step keeps it.                                             *)
LEMMA TypeStep == TypeInv /\ [Next]_vars => TypeInv'
<1> SUFFICES ASSUME TypeInv, [Next]_vars PROVE TypeInv'
  OBVIOUS
<1>1. CASE UNCHANGED vars
  BY <1>1 DEF TypeInv, TypeOK, PhaseOK, vars, disk, files, journal, work, plan, bounds,
       history
<1>2. CASE Next
  BY <1>2, BeginType, TransactType, RollbackType, CleanupType, RecoveryType, FailureType,
     UserEditType DEF Next
<1> QED BY <1>1, <1>2

(* Every variable keeps its type, however many transactions begin, fail and *)
(* are recovered: in particular no step counts records that are not there,  *)
(* and a receipt that is not completely written never becomes live.         *)
THEOREM TypeCorrect == Spec => []TypeOK
<1>1. Spec => []TypeInv
  BY InitType, TypeStep, PTL DEF Spec
<1> QED BY <1>1, PTL DEF TypeInv

-----------------------------------------------------------------------------
(* The journal belongs to the transaction at hand: it is empty outside one, *)
(* its header is written before anything else, and the header names the     *)
(* receipt that was live at the beginning.                                  *)
JournalBound ==
  /\ (jfile = "absent" \/ "state" \notin dirs) => records = <<>>
  /\ pc = "journal" => "state" \in dirs
  /\ pc = "header" => "state" \in dirs /\ jfile # "absent"
  /\ pc \in {"journal", "header", "dropState"} => records = <<>>
  /\ pc \in Forward \cup {"destination", "mark", "validate"} => records # <<>>
  /\ records # <<>> => records[1].previous = before.live

Undoing == {"undo", "restore", "undoStaged", "undoRoot", "restoreReceipt"}

(* Where the old receipt is: live, or set aside while nothing is live.      *)
(* Nothing is done to it before the journal is written, a rollback that     *)
(* passed its checks has exactly one copy, and cleanup after a rollback     *)
(* starts with the old receipt live again.                                  *)
ReceiptBound ==
  /\ result # "committed" =>
       \/ rcpt["live"] = before.live
       \/ rcpt["live"] = None /\ rcpt["previous"] = before.live
  /\ pc \in {"journal", "header"} => result # "committed" /\ rcpt["live"] = before.live
  /\ pc = "restoreReceipt" => op = "upgrade"
  /\ (op = "upgrade" /\ pc \in Undoing) =>
       /\ (rcpt["live"] = None) # (rcpt["previous"] = None)
       /\ rcpt["previous"] \in {None, before.live}
  /\ (op = "upgrade" /\ pc \in {"sweep", "dropReceipts"} /\ result # "committed") =>
       rcpt["live"] = before.live

Bound == JournalBound /\ ReceiptBound

(* Which rollback is started depends on the operation.                     *)
LEMMA StartRollbackBound ==
  ASSUME TypeOK, StartRollback
  PROVE  \/ pc' = "undo" /\ op = "install"
         \/ pc' = "mark"
         \/ pc' = "restore" /\ op = "uninstall"
BY DEF TypeOK, StartRollback, Operations

(* Appending does not touch the header or the receipts.                     *)
LEMMA LogBound ==
  ASSUME TypeOK, Bound, NEW r \in Record, NEW next \in Forward, pc \in Forward, Log(r, next)
  PROVE  Bound'
<1>1. records # <<>>
  BY DEF Bound, JournalBound
<1>2. records' # <<>> /\ records'[1] = records[1]
  BY <1>1 DEF TypeOK, Log
<1>3. \/ pc' = next
      \/ pc' = "undo" /\ op = "install"
      \/ pc' = "mark"
      \/ pc' = "restore" /\ op = "uninstall"
  BY StartRollbackBound DEF Log
<1>4. UNCHANGED <<rcpt, dirs, jfile, op, before, result>>
  BY DEF Log, plan
<1> QED BY <1>1, <1>2, <1>3, <1>4 DEF Bound, JournalBound, ReceiptBound, Forward, Undoing

(* Steps forward keep the journal and the old receipt bound.                *)
LEMMA TransactBound == TypeInv /\ Bound /\ Transact => Bound'
<1> SUFFICES ASSUME TypeInv, Bound, Transact PROVE Bound'
  OBVIOUS
<1>0. TypeOK
  BY DEF TypeInv
<1> USE DEF Bound, JournalBound, ReceiptBound, Undoing, Forward, Refuse,
            disk, files, journal, work, plan, bounds, history
<1>1. CASE CreateJournal
  BY <1>1, <1>0 DEF CreateJournal
<1>2. CASE WriteHeader
  BY <1>2, <1>0 DEF WriteHeader, Header
<1>3. CASE MakeDestination
  BY <1>3, <1>0, StartRollbackBound DEF MakeDestination
<1>4. CASE MoveAside
  BY <1>4, <1>0 DEF MoveAside
<1>5. CASE MoveBack
  BY <1>5, <1>0, StartRollbackBound DEF MoveBack
<1>6. CASE RemovesDone
  BY <1>6, <1>0 DEF RemovesDone
<1>7. CASE RootIntent
  <2>1. /\ RemoveDirectory \in Record
        /\ Log(RemoveDirectory, "makeRoot")
        /\ pc \in Forward
    BY <1>0, <1>7, RecordMade DEF RootIntent
  <2> QED BY <1>0, <2>1, LogBound
<1>8. CASE MakeRoot
  BY <1>8, <1>0 DEF MakeRoot
<1>9. CASE StageCopy
  BY <1>9, <1>0 DEF StageCopy
<1>10. CASE ReplaceIntent
  <2>1. /\ RestoreFile(cur, dest[cur]) \in Record
        /\ Log(RestoreFile(cur, dest[cur]), "replaceMove")
        /\ pc \in Forward
    BY <1>0, <1>10, RecordMade DEF ReplaceIntent, TypeOK, TypeInv, PhaseOK, Replacing,
         Receipt, OwnedBy
  <2> QED BY <1>0, <2>1, LogBound
<1>11. CASE PublishIntent
  <2>1. /\ RemoveFile(cur, target[cur].sha) \in Record
        /\ Log(RemoveFile(cur, target[cur].sha), "publish")
        /\ pc \in Forward
    BY <1>0, <1>11, RecordMade DEF PublishIntent, TypeOK, TypeInv, PhaseOK, Replacing,
         Receipt, OwnedBy, Content
  <2> QED BY <1>0, <2>1, LogBound
<1>12. CASE Publish
  BY <1>12, <1>0 DEF Publish
<1>13. CASE VerifyPublished
  BY <1>13, <1>0 DEF VerifyPublished
<1>14. CASE ApplyDone
  BY <1>14, <1>0 DEF ApplyDone
<1>15. CASE BindReceipt
  <2>1. /\ PendingReceipt(target) \in Record
        /\ Log(PendingReceipt(target), "createReceipt")
        /\ pc \in Forward
    BY <1>0, <1>15, RecordMade DEF BindReceipt, TypeOK
  <2> QED BY <1>0, <2>1, LogBound
<1>16. CASE CreateReceipt
  BY <1>16, <1>0 DEF CreateReceipt, StagingSlot, Slots, TypeOK
<1>17. CASE WriteReceipt
  BY <1>17, <1>0 DEF WriteReceipt, StagingSlot, Slots, TypeOK
<1>18. CASE PublishReceipt
  BY <1>18, <1>0 DEF PublishReceipt, Moved, Slots, TypeOK
<1>19. CASE Commit
  <2>1. /\ Committing \in Record
        /\ Log(Committing, "cutover")
        /\ pc \in Forward
    BY <1>0, <1>19, RecordMade DEF Commit
  <2> QED BY <1>0, <2>1, LogBound
<1>20. CASE Cutover
  <2>1. CASE op = "install"
    BY <1>0, <1>20, <2>1 DEF Cutover, Moved, Slots, TypeOK
  <2>2. CASE op = "uninstall"
    BY <1>0, <1>20, <2>2 DEF Cutover, Moved, Slots, TypeOK
  <2>3. CASE op = "upgrade"
    BY <1>0, <1>20, <2>3 DEF Cutover, Moved, Slots, TypeOK
  <2> QED BY <1>0, <2>1, <2>2, <2>3 DEF TypeOK, Operations
<1>21. CASE PublishLive
  BY <1>21, <1>0 DEF PublishLive, Moved, Slots, TypeOK
<1>22. CASE StepBlocked
  BY <1>22, <1>0, StartRollbackBound DEF StepBlocked
<1>23. ASSUME NEW f \in Files, KeepFile(f) PROVE Bound'
  BY <1>23, <1>0 DEF KeepFile
<1>24. ASSUME NEW f \in Files, RemoveIntent(f) PROVE Bound'
  <2>1. /\ RestoreFile(f, dest[f]) \in Record
        /\ Log(RestoreFile(f, dest[f]), "removeMove")
        /\ pc \in Forward
    BY <1>0, <1>24, RecordMade DEF RemoveIntent, TypeOK, Receipt
  <2> QED BY <1>0, <2>1, LogBound
<1>25. ASSUME NEW f \in Files, SkipIdentical(f) PROVE Bound'
  BY <1>25, <1>0 DEF SkipIdentical
<1>26. ASSUME NEW f \in Files, StageIntent(f) PROVE Bound'
  <2>1. /\ StageFile(f, target[f].sha) \in Record
        /\ Log(StageFile(f, target[f].sha), "stage")
        /\ pc \in Forward
    BY <1>0, <1>26, RecordMade DEF StageIntent, TypeInv, TypeOK, PhaseOK, Receipt, OwnedBy,
         Content
  <2> QED BY <1>0, <2>1, LogBound
<1> HIDE DEF Bound
<1> QED BY <1>1, <1>2, <1>3, <1>4, <1>5, <1>6, <1>7, <1>8, <1>9, <1>10, <1>11, <1>12, <1>13,
     <1>14, <1>15, <1>16, <1>17, <1>18, <1>19, <1>20, <1>21, <1>22, <1>23, <1>24, <1>25,
     <1>26 DEF Transact

(* So does rollback ...                                                     *)
LEMMA RollbackBound == TypeInv /\ Bound /\ Rollback => Bound'
<1> SUFFICES ASSUME TypeInv, Bound, Rollback PROVE Bound'
  OBVIOUS
<1>0. TypeOK
  BY DEF TypeInv
<1> USE DEF Bound, JournalBound, ReceiptBound, Undoing, Forward, Refuse,
            disk, files, journal, work, plan, bounds, history
<1>1. CASE MarkRollingBack
  BY <1>1, <1>0 DEF MarkRollingBack, TypeOK
<1>2. CASE ValidateRollback
  BY <1>2, <1>0 DEF ValidateRollback, RollbackValid, Previous
<1>3. CASE UndoDone
  BY <1>3, <1>0 DEF UndoDone
<1>4. CASE RestoreDone
  BY <1>4, <1>0 DEF RestoreDone
<1>5. CASE UndoStaged
  BY <1>5, <1>0 DEF UndoStaged
<1>6. CASE UndoRoot
  BY <1>6, <1>0 DEF UndoRoot
<1>7. CASE RestoreReceipt
  BY <1>7, <1>0 DEF RestoreReceipt, Moved, Slots, TypeOK
<1>8. CASE DropStagedReceipts
  BY <1>8, <1>0 DEF DropStagedReceipts, Slots, TypeOK
<1>9. ASSUME NEW f \in Files, UndoFile(f) PROVE Bound'
  BY <1>9, <1>0 DEF UndoFile
<1>10. ASSUME NEW f \in Files, RestoreStep(f) PROVE Bound'
  BY <1>10, <1>0 DEF RestoreStep
<1> HIDE DEF Bound
<1> QED BY <1>1, <1>2, <1>3, <1>4, <1>5, <1>6, <1>7, <1>8, <1>9, <1>10 DEF Rollback

(* ... cleanup ...                                                          *)
LEMMA CleanupBound == TypeInv /\ Bound /\ Cleanup => Bound'
<1> SUFFICES ASSUME TypeInv, Bound, Cleanup PROVE Bound'
  OBVIOUS
<1>0. TypeOK
  BY DEF TypeInv
<1> USE DEF Bound, JournalBound, ReceiptBound, Undoing, Forward, Refuse,
            disk, files, journal, work, plan, bounds, history
<1>1. CASE Clean
  <2>1. CASE ~CleanupValid
    BY <1>1, <2>1 DEF Clean
  <2>2. CASE CleanupValid
    <3>1. /\ pc' = "sweep"
          /\ rcpt'["live"] = rcpt["live"] /\ rcpt'["previous"] = rcpt["previous"]
          /\ UNCHANGED <<records, jfile, dirs, op, before, result>>
      BY <1>0, <1>1, <2>2 DEF Clean, Slots, Dropped, TypeOK
    <3>2. ASSUME op = "upgrade", result # "committed"
          PROVE  rcpt["live"] = before.live
      <4>1. CASE IsRollingBack(records)
        BY <2>2, <3>2, <4>1 DEF CleanupValid, IsRollingBack, Previous
      <4>2. CASE ~IsRollingBack(records)
        <5>1. rcpt["live"] \in Receipt
          BY <1>0, <2>2, <3>2, <4>2, PassesOverFiles DEF CleanupValid, TypeOK
        <5> QED BY <3>2, <5>1, JournalAssumption
      <4> QED BY <4>1, <4>2
    <3> QED BY <3>1, <3>2
  <2> QED BY <2>1, <2>2
<1>2. CASE DropDestination
  BY <1>2, <1>0 DEF DropDestination
<1>3. CASE DropReceipts
  BY <1>3, <1>0 DEF DropReceipts, Slots, Dropped, TypeOK, Operations
<1>4. CASE DropDeleted
  BY <1>4, <1>0 DEF DropDeleted, Slots, Dropped, TypeOK
<1>5. CASE DropJournal
  BY <1>5, <1>0 DEF DropJournal
<1>6. CASE DropState
  BY <1>6, <1>0 DEF DropState
<1>7. CASE DropRoot
  BY <1>7, <1>0 DEF DropRoot
<1>8. ASSUME NEW f \in Files, Sweep(f) PROVE Bound'
  BY <1>8, <1>0 DEF Sweep
<1> HIDE DEF Bound
<1> QED BY <1>1, <1>2, <1>3, <1>4, <1>5, <1>6, <1>7, <1>8 DEF Cleanup

(* ... the choice recovery makes from what it has read ...                  *)
LEMMA RecoverBound ==
  ASSUME TypeInv, Bound, NEW next, NEW passed, jfile = "journal", Recover(next, passed),
         \/ next \in {"clean", "refused", "undo", "restore"} /\ records[1].op # "upgrade"
         \/ next \in {"clean", "refused", "validate", "mark"}
  PROVE  Bound'
<1>1. records # <<>>
  BY DEF Recover, Unreadable, ReadJournal
<1> QED BY <1>1 DEF Bound, JournalBound, ReceiptBound, Undoing, Forward, Recover,
                    Unreadable, disk, files, journal, bounds

(* ... recovery ...                                                         *)
LEMMA RecoveryBound == TypeInv /\ Bound /\ Recovery => Bound'
<1> SUFFICES ASSUME TypeInv, Bound, Recovery PROVE Bound'
  OBVIOUS
<1>0. TypeOK
  BY DEF TypeInv
<1> USE DEF Bound, JournalBound, ReceiptBound, Undoing, Forward, Refuse,
            disk, files, journal, work, plan, bounds, history
<1>1. CASE RecoverRefuses
  BY <1>1, <1>0 DEF RecoverRefuses
<1>2. CASE RecoverEmpty
  BY <1>2, <1>0 DEF RecoverEmpty, Slots, Dropped, Unreadable, TypeOK
<1>3. CASE RecoverDone
  BY <1>3, <1>0 DEF RecoverDone
<1>4. CASE Retry
  BY <1>4, <1>0 DEF Retry
<1>5. CASE RecoverInstall
  <2>1. \E next, passed :
          /\ jfile = "journal" /\ Recover(next, passed)
          /\ \/ /\ next \in {"clean", "refused", "undo", "restore"}
                /\ records[1].op # "upgrade"
             \/ next \in {"clean", "refused", "validate", "mark"}
    BY <1>5 DEF RecoverInstall
  <2> QED BY <2>1, RecoverBound
<1>6. CASE RecoverUpgrade
  <2>1. \E next, passed :
          /\ jfile = "journal" /\ Recover(next, passed)
          /\ \/ /\ next \in {"clean", "refused", "undo", "restore"}
                /\ records[1].op # "upgrade"
             \/ next \in {"clean", "refused", "validate", "mark"}
    BY <1>6 DEF RecoverUpgrade, UpgradeDecision
  <2> QED BY <2>1, RecoverBound
<1>7. CASE RecoverUninstall
  <2>1. \E next, passed :
          /\ jfile = "journal" /\ Recover(next, passed)
          /\ \/ /\ next \in {"clean", "refused", "undo", "restore"}
                /\ records[1].op # "upgrade"
             \/ next \in {"clean", "refused", "validate", "mark"}
    BY <1>7 DEF RecoverUninstall
  <2> QED BY <2>1, RecoverBound
<1> HIDE DEF Bound
<1> QED BY <1>1, <1>2, <1>3, <1>4, <1>5, <1>6, <1>7 DEF Recovery

(* ... failures and crashes ...                                             *)
LEMMA FailureBound == TypeInv /\ Bound /\ Failure => Bound'
<1> SUFFICES ASSUME TypeInv, Bound, Failure PROVE Bound'
  OBVIOUS
<1>0. TypeOK
  BY DEF TypeInv
<1> USE DEF Bound, JournalBound, ReceiptBound, Undoing, Forward, Refuse,
            disk, files, journal, work, plan, bounds, history
<1>1. CASE HeaderFails
  BY <1>1, <1>0 DEF HeaderFails
<1>2. CASE WriteReceiptFails
  BY <1>2, <1>0, StartRollbackBound DEF WriteReceiptFails, Slots, Dropped, StagingSlot,
       TypeOK
<1>3. CASE StepFails
  BY <1>3, <1>0, StartRollbackBound DEF StepFails
<1>4. CASE Crash
  BY <1>4, <1>0 DEF Crash
<1> HIDE DEF Bound
<1> QED BY <1>1, <1>2, <1>3, <1>4 DEF Failure

(* ... a new transaction, which starts from an empty journal ...            *)
LEMMA BeginBound ==
  ASSUME TypeInv, Bound, NEW o \in Operations, NEW t, Begin(o, t)
  PROVE  Bound'
BY DEF Begin, Pending, Bound, JournalBound, ReceiptBound, Undoing, Forward, files, journal,
     bounds

(* ... and the user, who touches neither.                                   *)
LEMMA UserEditBound ==
  ASSUME Bound, NEW f, NEW c, UserEdit(f, c)
  PROVE  Bound'
BY DEF UserEdit, Bound, JournalBound, ReceiptBound, journal, work, plan

(* The invariant holds when nothing is installed.                           *)
LEMMA InitBound == Init => Bound
BY DEF Init, Bound, JournalBound, ReceiptBound, Undoing, Forward, Slots

(* Every step keeps the journal and the old receipt bound.                  *)
LEMMA BoundStep == TypeInv /\ Bound /\ [Next]_vars => Bound'
<1> SUFFICES ASSUME TypeInv, Bound, [Next]_vars PROVE Bound'
  OBVIOUS
<1>1. CASE UNCHANGED vars
  BY <1>1 DEF Bound, JournalBound, ReceiptBound, vars, disk, journal, work, plan, history
<1>2. CASE Next
  BY <1>2, BeginBound, TransactBound, RollbackBound, CleanupBound, RecoveryBound,
       FailureBound,
     UserEditBound DEF Next
<1> QED BY <1>1, <1>2

(* Until the commit point the old ownership receipt exists, live or as      *)
(* receipt.previous, whatever fails, crashes or is retried: the installed   *)
(* files never become unowned.                                              *)
THEOREM OwnershipSafe == Spec => []OwnershipKept
<1>1. Init => TypeInv /\ Bound
  BY InitType, InitBound
<1>2. TypeInv /\ Bound /\ [Next]_vars => (TypeInv /\ Bound)'
  BY TypeStep, BoundStep
<1>3. Bound => OwnershipKept
  BY DEF Bound, ReceiptBound, OwnershipKept
<1> QED BY <1>1, <1>2, <1>3, PTL DEF Spec

-----------------------------------------------------------------------------
(* What the state directory says of a transaction, whatever fails, crashes  *)
(* or is retried: which files it holds, what its journal is bound to and    *)
(* where the old and the new receipt are.  From it follow that a finished   *)
(* transaction leaves nothing behind and that a committed one is never      *)
(* turned back.                                                             *)

(* The records on disk, and the last of them.                               *)
Logged    == {records[i] : i \in 1 .. Len(records)}
LastIs(r) == records # <<>> /\ records[Len(records)] = r

GoingBack == {"mark", "validate", "undo", "restore", "undoStaged", "undoRoot",
              "restoreReceipt", "dropStagedReceipts"}
Early     == {"journal", "header", "destination"}
Working   == Forward \cup GoingBack \cup {"destination", "clean", "sweep"}
Ending    == {"dropReceipts", "dropDeleted", "dropJournal", "dropState"}
FilePhases == Forward \ {"bindReceipt", "createReceipt", "writeReceipt", "publishReceipt",
                         "commit", "cutover", "publishLive"}

SpareNone == \A s \in Slots \ {"live"} : rcpt[s] = None

(* The header names the operation and the receipt it began with, and a      *)
(* transaction is undecided exactly while it can still go forward or back.  *)
PlanBound ==
  /\ records # <<>> => records[1] = Header(op, before.live)
  /\ (op = "install") = (before.live = None)
  /\ (Pending \/ result = "committed") =>
        /\ (op = "uninstall") = (target = Empty)
        /\ target \in Manifests \cup {Empty}
  /\ ~Pending => result # "none" /\ pc \in {"idle", "dropRoot"}
  /\ result = "undone" => ~Pending /\ rcpt["live"] = before.live
  /\ pc \in Forward \cup GoingBack \cup Early => result = "none"
  /\ pc = "dropRoot" => result = "committed"
  /\ pc \in {"mark", "validate", "undoStaged", "restoreReceipt", "dropStagedReceipts"} =>
       op = "upgrade"
  /\ pc \in {"undo", "undoRoot"} => op # "uninstall"
  /\ pc = "restore" => op # "install"

(* The directories and the journal come and go in a fixed order.            *)
StorageBound ==
  /\ "destination" \in dirs => jfile = "journal"
  /\ jfile # "absent" => "state" \in dirs
  /\ jfile = "done" => result = "committed" /\ op = "uninstall"
  /\ pc \in Forward => "destination" \in dirs
  /\ pc \in Early \cup Ending => "destination" \notin dirs
  /\ pc \in Working \cup {"header", "dropReceipts"} => jfile = "journal"
  /\ pc \in {"journal", "dropState"} => jfile = "absent"
  /\ pc = "dropDeleted" => jfile = "done"

(* The process knows of every record on disk, save one whose append failed; *)
(* then it only goes back, and an upgrade not even that.                    *)
KnownBound ==
  /\ pc \in Working =>
       records # <<>> /\ known # 0 /\ known \in {Len(records), Len(records) - 1}
  /\ pc \in Forward \cup {"destination", "validate"} => known = Len(records)
  /\ (op = "upgrade" /\ pc \in (GoingBack \ {"mark"}) \cup {"clean", "sweep"}) =>
       known = Len(records)

(* Where the receipts are while the transaction is undecided.               *)
OpenReceipts ==
  result = "none" =>
    /\ pc # "publishLive" /\ rcpt["live"] # before.live =>
         /\ op = "upgrade" /\ rcpt["live"] = None /\ rcpt["previous"] = before.live
         /\ pc \notin Forward \cup Early
         /\ Committing \in Logged
    /\ pc = "publishLive" =>
         /\ op = "upgrade" /\ rcpt["live"] = None /\ rcpt["previous"] = before.live
         /\ rcpt["pending"] = target
    /\ rcpt["live"] = before.live => rcpt["deleted"] = None /\ rcpt["previous"] = None
    /\ (op = "upgrade" /\ LastIs(Committing)) => rcpt["pending"] = target
    /\ pc \in FilePhases \cup Early \cup {"bindReceipt", "createReceipt"} => SpareNone
    /\ pc = "publishReceipt" => rcpt["incoming"] = target
    /\ (pc \in {"commit", "cutover"} /\ op # "uninstall") => rcpt["pending"] = target
    /\ (pc \in {"commit", "cutover", "publishLive"}) => rcpt["incoming"] = None
    /\ pc \in {"cutover", "publishLive"} => LastIs(Committing)
    /\ pc \in {"publishReceipt", "bindReceipt"} => op = "upgrade"
    /\ pc \in {"apply", "makeRoot", "stage", "staged", "replaceMove", "replaceBack",
               "replaced", "publish", "verify", "createReceipt", "writeReceipt"} =>
         op # "uninstall"
    /\ (op = "upgrade" /\ pc \in {"createReceipt", "writeReceipt"}) =>
         PendingReceipt(target) \in Logged
    /\ (op = "upgrade" /\ pc \in GoingBack \ {"mark"}) => LastIs(RollingBack)
    /\ (op = "upgrade" /\ pc \in {"clean", "sweep", "dropReceipts", "dropStagedReceipts"}) =>
         rcpt["live"] = before.live

(* Which receipt files there can be beside the live one.                    *)
SpareReceipts ==
  /\ op = "install" => /\ rcpt["previous"] = None /\ rcpt["deleted"] = None
                       /\ rcpt["incoming"] = None
  /\ op = "upgrade" => rcpt["deleted"] = None /\ rcpt["pending"] # Torn
  /\ op = "uninstall" => /\ rcpt["previous"] = None /\ rcpt["pending"] = None
                         /\ rcpt["incoming"] = None
  /\ rcpt["pending"] \in {None, Torn, target} /\ rcpt["incoming"] \in {None, Torn, target}
  /\ (op = "upgrade" /\ (rcpt["incoming"] # None \/ rcpt["pending"] # None)) =>
       PendingReceipt(target) \in Logged
  /\ \A r \in Logged : r.kind = "PendingReceipt" => r = PendingReceipt(target)
  /\ (op = "upgrade" /\ pc \in {"sweep", "dropReceipts"}) =>
       rcpt["incoming"] = None /\ rcpt["pending"] = None
  /\ (op = "uninstall" /\ pc \in {"sweep", "dropReceipts"}) =>
       (rcpt["live"] = None) # (rcpt["deleted"] = None)
  /\ pc = "dropDeleted" => op = "uninstall" /\ result = "committed"
  /\ pc \in {"dropJournal", "dropState"} \/ ~Pending => SpareNone

(* Where they are once it is committed.                                     *)
CommittedReceipts ==
  result = "committed" =>
    /\ rcpt["live"] = IF op = "uninstall" THEN None ELSE target
    /\ rcpt["pending"] = None /\ rcpt["incoming"] = None
    /\ records # <<>> => LastIs(Committing)
    /\ (op = "upgrade" /\ records # <<>>) => PendingReceipt(target) \in Logged
    /\ rcpt["previous"] \in {None, before.live} /\ rcpt["deleted"] \in {None, before.live}
    /\ (op = "uninstall" /\ jfile = "journal") => rcpt["deleted"] = before.live

Books == /\ PlanBound /\ StorageBound /\ KnownBound
         /\ OpenReceipts /\ SpareReceipts /\ CommittedReceipts

-----------------------------------------------------------------------------
(* Appending a record.                                                      *)
LEMMA Appended ==
  ASSUME NEW r \in Record, records \in Seq(Record), records' = Append(records, r)
  PROVE  /\ records' \in Seq(Record) /\ records' # <<>> /\ Len(records') = Len(records) + 1
         /\ records # <<>> => records'[1] = records[1]
         /\ Logged' = Logged \cup {r}
         /\ \A x : LastIs(x)' <=> x = r
<1>1. /\ records' \in Seq(Record) /\ records' # <<>> /\ Len(records') = Len(records) + 1
      /\ \A i \in 1 .. Len(records) : records'[i] = records[i]
      /\ records'[Len(records) + 1] = r
      /\ Len(records) \in Nat
  OBVIOUS
<1>2. Logged' = {records'[i] : i \in 1 .. Len(records) + 1}
  BY <1>1 DEF Logged
<1>3. Logged' = Logged \cup {r}
  BY <1>1, <1>2 DEF Logged
<1>4. records # <<>> => 1 \in 1 .. Len(records)
  OBVIOUS
<1> QED BY <1>1, <1>3, <1>4 DEF LastIs

(* The last record is one of those on disk, and there is but one.           *)
LEMMA LastLogged ==
  ASSUME records \in Seq(Record)
  PROVE  /\ \A r : LastIs(r) => r \in Logged
         /\ ~(LastIs(Committing) /\ LastIs(RollingBack))
         /\ records = <<>> => Logged = {}
BY DEF LastIs, Logged, Committing, RollingBack

(* A step that leaves the journal alone leaves the books about it alone.    *)
LEMMA SameRecords ==
  records' = records => Logged' = Logged /\ \A x : LastIs(x)' <=> LastIs(x)
BY DEF Logged, LastIs

(* What the receipt rules read of the journal.                              *)
LEMMA ReadsBooks ==
  ASSUME records \in Seq(Record)
  PROVE  /\ IsCommitting(records) <=> LastIs(Committing)
         /\ IsRollingBack(records) <=> LastIs(RollingBack)
         /\ \A x : x \in BoundReceipts(records) <=>
                     \E r \in Logged : r.kind = "PendingReceipt" /\ x = r.receipt
         /\ PendingReceipt(target).receipt = target
         /\ PendingReceipt(target).kind = "PendingReceipt"
         /\ Committing.kind = "Committing" /\ RollingBack.kind = "RollingBack"
BY DEF IsCommitting, IsRollingBack, LastIs, BoundReceipts, Logged, PendingReceipt,
       Committing, RollingBack

(* Appending goes on with all records known, or back with one unknown.      *)
LEMMA LogEffect ==
  ASSUME TypeOK, NEW r \in Record, NEW next, Log(r, next), known = Len(records),
         records # <<>>
  PROVE  /\ records' # <<>> /\ records'[1] = records[1]
         /\ Logged' = Logged \cup {r}
         /\ \A x : LastIs(x)' <=> x = r
         /\ known' # 0
         /\ \/ pc' = next /\ known' = Len(records')
            \/ /\ known' = Len(records') - 1
               /\ \/ pc' = "undo" /\ op = "install"
                  \/ pc' = "mark" /\ op = "upgrade"
                  \/ pc' = "restore" /\ op = "uninstall"
         /\ UNCHANGED <<rcpt, dirs, jfile, op, target, before, result>>
<1>1. records' = Append(records, r) /\ records \in Seq(Record) /\ Len(records) \in Nat
  BY DEF Log, TypeOK
<1>2. Len(records) # 0
  BY <1>1
<1>3. \/ pc' = next /\ known' = known + 1
      \/ /\ known' = known
         /\ \/ pc' = "undo" /\ op = "install"
            \/ pc' = "mark" /\ op = "upgrade"
            \/ pc' = "restore" /\ op = "uninstall"
  BY DEF Log, StartRollback, TypeOK, Operations
<1>4. UNCHANGED <<rcpt, dirs, jfile, op, target, before, result>>
  BY DEF Log, plan
<1> QED BY <1>1, <1>2, <1>3, <1>4, Appended

(* Rollback starts where the operation starts it.                           *)
LEMMA StartRollbackWhere ==
  ASSUME TypeOK, StartRollback
  PROVE  \/ pc' = "undo" /\ op = "install"
         \/ pc' = "mark" /\ op = "upgrade"
         \/ pc' = "restore" /\ op = "uninstall"
BY DEF TypeOK, StartRollback, Operations

(* The kinds of the records.                                                *)
LEMMA RecordKinds ==
  /\ \A f, s : StageFile(f, s).kind = "StageFile" /\ RemoveFile(f, s).kind = "RemoveFile"
  /\ \A f, c : RestoreFile(f, c).kind = "RestoreFile"
  /\ \A r : PendingReceipt(r).kind = "PendingReceipt" /\ PendingReceipt(r).receipt = r
  /\ \A o, r : Header(o, r).kind = "Header"
  /\ Committing.kind = "Committing" /\ RollingBack.kind = "RollingBack"
  /\ RemoveDirectory.kind = "RemoveDirectory"
  /\ Committing # RollingBack
BY DEF StageFile, RemoveFile, RestoreFile, PendingReceipt, Header, Committing, RollingBack,
       RemoveDirectory

(* Steps forward keep the books.                                            *)
LEMMA TransactBooks == TypeInv /\ Bound /\ Books /\ Transact => Books'
<1> SUFFICES ASSUME TypeInv, Bound, Books, Transact PROVE Books'
  OBVIOUS
<1>0. TypeOK
  BY DEF TypeInv
<1> USE DEF Books, PlanBound, StorageBound, KnownBound, OpenReceipts, SpareReceipts, CommittedReceipts
<1> USE DEF Forward, GoingBack, Early, Working, Ending, FilePhases, SpareNone, Slots, Pending,
            disk, files, journal, work, plan, bounds, history, Refuse
<1>1. CASE CreateJournal
  BY <1>1, <1>0, SameRecords DEF CreateJournal, Logged, LastIs
<1>2. CASE WriteHeader
  BY <1>2, <1>0, SameRecords DEF WriteHeader, Header, Logged, LastIs, Committing, RollingBack
<1>3. CASE MakeDestination
  BY <1>3, <1>0, StartRollbackWhere, SameRecords DEF MakeDestination
<1>4. CASE MoveAside
  BY <1>4, <1>0, SameRecords DEF MoveAside
<1>5. CASE MoveBack
  BY <1>5, <1>0, StartRollbackWhere, SameRecords DEF MoveBack
<1>6. CASE RemovesDone
  BY <1>6, <1>0, SameRecords DEF RemovesDone
<1>7. CASE RootIntent
  <2>1. RemoveDirectory \in Record /\ Log(RemoveDirectory, "makeRoot")
    BY <1>7, <1>0, RecordMade DEF RootIntent, TypeInv, TypeOK, PhaseOK, Replacing, Receipt, OwnedBy, Content
  <2>2. pc \in Forward /\ records # <<>> /\ known = Len(records)
    BY <1>7 DEF RootIntent
  <2>3. /\ records' # <<>> /\ records'[1] = records[1] /\ known' # 0
        /\ Logged' = Logged \cup {RemoveDirectory}
        /\ \A x : LastIs(x)' <=> x = RemoveDirectory
        /\ \/ pc' = "makeRoot" /\ known' = Len(records')
           \/ /\ known' = Len(records') - 1
              /\ \/ pc' = "undo" /\ op = "install"
                 \/ pc' = "mark" /\ op = "upgrade"
                 \/ pc' = "restore" /\ op = "uninstall"
        /\ UNCHANGED <<rcpt, dirs, jfile, op, target, before, result>>
    BY <1>0, <2>1, <2>2, LogEffect
  <2> QED BY <1>7, <1>0, <2>2, <2>3, RecordKinds DEF RootIntent
<1>8. CASE MakeRoot
  BY <1>8, <1>0, SameRecords DEF MakeRoot
<1>9. CASE StageCopy
  BY <1>9, <1>0, SameRecords DEF StageCopy
<1>10. CASE ReplaceIntent
  <2>1. RestoreFile(cur, dest[cur]) \in Record /\ Log(RestoreFile(cur, dest[cur]), "replaceMove")
    BY <1>10, <1>0, RecordMade DEF ReplaceIntent, TypeInv, TypeOK, PhaseOK, Replacing, Receipt, OwnedBy, Content
  <2>2. pc \in Forward /\ records # <<>> /\ known = Len(records)
    BY <1>10 DEF ReplaceIntent
  <2>3. /\ records' # <<>> /\ records'[1] = records[1] /\ known' # 0
        /\ Logged' = Logged \cup {RestoreFile(cur, dest[cur])}
        /\ \A x : LastIs(x)' <=> x = RestoreFile(cur, dest[cur])
        /\ \/ pc' = "replaceMove" /\ known' = Len(records')
           \/ /\ known' = Len(records') - 1
              /\ \/ pc' = "undo" /\ op = "install"
                 \/ pc' = "mark" /\ op = "upgrade"
                 \/ pc' = "restore" /\ op = "uninstall"
        /\ UNCHANGED <<rcpt, dirs, jfile, op, target, before, result>>
    BY <1>0, <2>1, <2>2, LogEffect
  <2> QED BY <1>10, <1>0, <2>2, <2>3, RecordKinds DEF ReplaceIntent
<1>11. CASE PublishIntent
  <2>1. RemoveFile(cur, target[cur].sha) \in Record /\ Log(RemoveFile(cur, target[cur].sha), "publish")
    BY <1>11, <1>0, RecordMade DEF PublishIntent, TypeInv, TypeOK, PhaseOK, Replacing, Receipt, OwnedBy, Content
  <2>2. pc \in Forward /\ records # <<>> /\ known = Len(records)
    BY <1>11 DEF PublishIntent
  <2>3. /\ records' # <<>> /\ records'[1] = records[1] /\ known' # 0
        /\ Logged' = Logged \cup {RemoveFile(cur, target[cur].sha)}
        /\ \A x : LastIs(x)' <=> x = RemoveFile(cur, target[cur].sha)
        /\ \/ pc' = "publish" /\ known' = Len(records')
           \/ /\ known' = Len(records') - 1
              /\ \/ pc' = "undo" /\ op = "install"
                 \/ pc' = "mark" /\ op = "upgrade"
                 \/ pc' = "restore" /\ op = "uninstall"
        /\ UNCHANGED <<rcpt, dirs, jfile, op, target, before, result>>
    BY <1>0, <2>1, <2>2, LogEffect
  <2> QED BY <1>11, <1>0, <2>2, <2>3, RecordKinds DEF PublishIntent
<1>12. CASE Publish
  BY <1>12, <1>0, SameRecords DEF Publish
<1>13. CASE VerifyPublished
  BY <1>13, <1>0, SameRecords DEF VerifyPublished
<1>14. CASE ApplyDone
  BY <1>14, <1>0, SameRecords DEF ApplyDone
<1>15. CASE BindReceipt
  <2>1. PendingReceipt(target) \in Record /\ Log(PendingReceipt(target), "createReceipt")
    BY <1>15, <1>0, RecordMade DEF BindReceipt, TypeInv, TypeOK, PhaseOK, Replacing, Receipt, OwnedBy, Content
  <2>2. pc \in Forward /\ records # <<>> /\ known = Len(records)
    BY <1>15 DEF BindReceipt
  <2>3. /\ records' # <<>> /\ records'[1] = records[1] /\ known' # 0
        /\ Logged' = Logged \cup {PendingReceipt(target)}
        /\ \A x : LastIs(x)' <=> x = PendingReceipt(target)
        /\ \/ pc' = "createReceipt" /\ known' = Len(records')
           \/ /\ known' = Len(records') - 1
              /\ \/ pc' = "undo" /\ op = "install"
                 \/ pc' = "mark" /\ op = "upgrade"
                 \/ pc' = "restore" /\ op = "uninstall"
        /\ UNCHANGED <<rcpt, dirs, jfile, op, target, before, result>>
    BY <1>0, <2>1, <2>2, LogEffect
  <2> QED BY <1>15, <1>0, <2>2, <2>3, RecordKinds DEF BindReceipt
<1>16. CASE CreateReceipt
  BY <1>16, <1>0, TransactionAssumption, JournalAssumption, SameRecords DEF CreateReceipt, StagingSlot, TypeOK
<1>17. CASE WriteReceipt
  <2>1. CASE op = "install"
    BY <1>17, <1>0, <2>1, TransactionAssumption, JournalAssumption, SameRecords
       DEF WriteReceipt, TypeOK, StagingSlot
  <2>2. CASE op = "upgrade"
    BY <1>17, <1>0, <2>2, TransactionAssumption, JournalAssumption, SameRecords
       DEF WriteReceipt, TypeOK, StagingSlot
  <2>3. CASE op = "uninstall"
    BY <1>17, <1>0, <2>3, TransactionAssumption, JournalAssumption, SameRecords
       DEF WriteReceipt, TypeOK, StagingSlot
  <2> QED BY <1>0, <2>1, <2>2, <2>3 DEF TypeOK, Operations
<1>18. CASE PublishReceipt
  BY <1>18, <1>0, TransactionAssumption, JournalAssumption, SameRecords DEF PublishReceipt, Moved, TypeOK
<1>19. CASE Commit
  <2>1. Committing \in Record /\ Log(Committing, "cutover")
    BY <1>19, <1>0, RecordMade DEF Commit, TypeInv, TypeOK, PhaseOK, Replacing, Receipt, OwnedBy, Content
  <2>2. pc \in Forward /\ records # <<>> /\ known = Len(records)
    BY <1>19 DEF Commit
  <2>3. /\ records' # <<>> /\ records'[1] = records[1] /\ known' # 0
        /\ Logged' = Logged \cup {Committing}
        /\ \A x : LastIs(x)' <=> x = Committing
        /\ \/ pc' = "cutover" /\ known' = Len(records')
           \/ /\ known' = Len(records') - 1
              /\ \/ pc' = "undo" /\ op = "install"
                 \/ pc' = "mark" /\ op = "upgrade"
                 \/ pc' = "restore" /\ op = "uninstall"
        /\ UNCHANGED <<rcpt, dirs, jfile, op, target, before, result>>
    BY <1>0, <2>1, <2>2, LogEffect
  <2> QED BY <1>19, <1>0, <2>2, <2>3, RecordKinds DEF Commit
<1>20. CASE Cutover
  <2>1. CASE op = "install"
    BY <1>20, <1>0, <2>1, TransactionAssumption, JournalAssumption, SameRecords
       DEF Cutover, TypeOK, Moved
  <2>2. CASE op = "upgrade"
    BY <1>20, <1>0, <2>2, TransactionAssumption, JournalAssumption, SameRecords
       DEF Cutover, TypeOK, Moved
  <2>3. CASE op = "uninstall"
    BY <1>20, <1>0, <2>3, TransactionAssumption, JournalAssumption, SameRecords
       DEF Cutover, TypeOK, Moved
  <2> QED BY <1>0, <2>1, <2>2, <2>3 DEF TypeOK, Operations
<1>21. CASE PublishLive
  BY <1>21, <1>0, TransactionAssumption, JournalAssumption, SameRecords DEF PublishLive, Moved, TypeOK
<1>22. CASE StepBlocked
  BY <1>22, <1>0, StartRollbackWhere, SameRecords DEF StepBlocked, Blocked
<1>23. ASSUME NEW f \in Files, KeepFile(f) PROVE Books'
  BY <1>23, <1>0, SameRecords DEF KeepFile
<1>24. ASSUME NEW f \in Files, RemoveIntent(f) PROVE Books'
  <2>1. RestoreFile(f, dest[f]) \in Record /\ Log(RestoreFile(f, dest[f]), "removeMove")
    BY <1>24, <1>0, RecordMade DEF RemoveIntent, TypeInv, TypeOK, PhaseOK, Replacing, Receipt, OwnedBy, Content
  <2>2. pc \in Forward /\ records # <<>> /\ known = Len(records)
    BY <1>24 DEF RemoveIntent
  <2>3. /\ records' # <<>> /\ records'[1] = records[1] /\ known' # 0
        /\ Logged' = Logged \cup {RestoreFile(f, dest[f])}
        /\ \A x : LastIs(x)' <=> x = RestoreFile(f, dest[f])
        /\ \/ pc' = "removeMove" /\ known' = Len(records')
           \/ /\ known' = Len(records') - 1
              /\ \/ pc' = "undo" /\ op = "install"
                 \/ pc' = "mark" /\ op = "upgrade"
                 \/ pc' = "restore" /\ op = "uninstall"
        /\ UNCHANGED <<rcpt, dirs, jfile, op, target, before, result>>
    BY <1>0, <2>1, <2>2, LogEffect
  <2> QED BY <1>24, <1>0, <2>2, <2>3, RecordKinds DEF RemoveIntent
<1>25. ASSUME NEW f \in Files, SkipIdentical(f) PROVE Books'
  BY <1>25, <1>0, SameRecords DEF SkipIdentical
<1>26. ASSUME NEW f \in Files, StageIntent(f) PROVE Books'
  <2>1. StageFile(f, target[f].sha) \in Record /\ Log(StageFile(f, target[f].sha), "stage")
    BY <1>26, <1>0, RecordMade DEF StageIntent, TypeInv, TypeOK, PhaseOK, Replacing, Receipt, OwnedBy, Content
  <2>2. pc \in Forward /\ records # <<>> /\ known = Len(records)
    BY <1>26 DEF StageIntent
  <2>3. /\ records' # <<>> /\ records'[1] = records[1] /\ known' # 0
        /\ Logged' = Logged \cup {StageFile(f, target[f].sha)}
        /\ \A x : LastIs(x)' <=> x = StageFile(f, target[f].sha)
        /\ \/ pc' = "stage" /\ known' = Len(records')
           \/ /\ known' = Len(records') - 1
              /\ \/ pc' = "undo" /\ op = "install"
                 \/ pc' = "mark" /\ op = "upgrade"
                 \/ pc' = "restore" /\ op = "uninstall"
        /\ UNCHANGED <<rcpt, dirs, jfile, op, target, before, result>>
    BY <1>0, <2>1, <2>2, LogEffect
  <2> QED BY <1>26, <1>0, <2>2, <2>3, RecordKinds DEF StageIntent
<1> HIDE DEF Books
<1> QED BY <1>1, <1>2, <1>3, <1>4, <1>5, <1>6, <1>7, <1>8, <1>9, <1>10, <1>11, <1>12, <1>13, <1>14, <1>15, <1>16, <1>17, <1>18, <1>19, <1>20, <1>21, <1>22, <1>23, <1>24, <1>25, <1>26 DEF Transact

(* So does rollback ...                                                     *)
LEMMA RollbackBooks == TypeInv /\ Bound /\ Books /\ Rollback => Books'
<1> SUFFICES ASSUME TypeInv, Bound, Books, Rollback PROVE Books'
  OBVIOUS
<1>0. TypeOK
  BY DEF TypeInv
<1> USE DEF Books, PlanBound, StorageBound, KnownBound, OpenReceipts, SpareReceipts, CommittedReceipts
<1> USE DEF Forward, GoingBack, Early, Working, Ending, FilePhases, SpareNone, Slots, Pending,
            disk, files, journal, work, plan, bounds, history, Refuse
<1>1. CASE MarkRollingBack
  <2>1. CASE known = Len(records)
    <3>1. /\ records' # <<>> /\ records'[1] = records[1] /\ known' = Len(records')
          /\ Logged' = Logged \cup {RollingBack}
          /\ \A x : LastIs(x)' <=> x = RollingBack
      BY <1>1, <1>0, <2>1, Appended, RecordMade DEF MarkRollingBack, TypeOK
    <3> QED BY <1>1, <1>0, <2>1, <3>1, RecordKinds DEF MarkRollingBack, TypeOK
  <2>2. CASE known # Len(records)
    BY <1>1, <1>0, <2>2, SameRecords DEF MarkRollingBack
  <2> QED BY <2>1, <2>2
<1>2. CASE ValidateRollback
  BY <1>2, <1>0, SameRecords DEF ValidateRollback
<1>3. CASE UndoDone
  BY <1>3, <1>0, SameRecords DEF UndoDone
<1>4. CASE RestoreDone
  BY <1>4, <1>0, SameRecords DEF RestoreDone
<1>5. CASE UndoStaged
  BY <1>5, <1>0, SameRecords DEF UndoStaged
<1>6. CASE UndoRoot
  BY <1>6, <1>0, SameRecords DEF UndoRoot
<1>7. CASE RestoreReceipt
  BY <1>7, <1>0, SameRecords DEF RestoreReceipt, Moved, TypeOK, Bound, ReceiptBound, Undoing
<1>8. CASE DropStagedReceipts
  BY <1>8, <1>0, LastLogged, ReadsBooks, SameRecords DEF DropStagedReceipts, TypeOK
<1>9. ASSUME NEW f \in Files, UndoFile(f) PROVE Books'
  BY <1>9, <1>0, SameRecords DEF UndoFile
<1>10. ASSUME NEW f \in Files, RestoreStep(f) PROVE Books'
  BY <1>10, <1>0, SameRecords DEF RestoreStep
<1> HIDE DEF Books
<1> QED BY <1>1, <1>2, <1>3, <1>4, <1>5, <1>6, <1>7, <1>8, <1>9, <1>10 DEF Rollback

(* ... cleanup ...                                                          *)
LEMMA CleanupBooks == TypeInv /\ Bound /\ Books /\ Cleanup => Books'
<1> SUFFICES ASSUME TypeInv, Bound, Books, Cleanup PROVE Books'
  OBVIOUS
<1>0. TypeOK
  BY DEF TypeInv
<1> USE DEF Books, PlanBound, StorageBound, KnownBound, OpenReceipts, SpareReceipts, CommittedReceipts
<1> USE DEF Forward, GoingBack, Early, Working, Ending, FilePhases, SpareNone, Slots, Pending,
            disk, files, journal, work, plan, bounds, history, Refuse
<1>1. CASE Clean
  <2>1. CASE ~CleanupValid
    BY <1>1, <1>0, <2>1, SameRecords DEF Clean
  <2>2. CASE CleanupValid
    <3>1. /\ pc' = "sweep" /\ records' = records
          /\ rcpt' \in [Slots -> Receipt \cup {None, Torn}]
          /\ \A s \in Slots : rcpt'[s] = IF op = "upgrade" /\ s = "incoming" THEN None ELSE rcpt[s]
          /\ UNCHANGED <<dirs, jfile, known, op, target, before, result>>
      BY <1>1, <1>0, <2>2 DEF Clean, Dropped, TypeOK
    <3>2. op = "upgrade" => rcpt["pending"] = None
      BY <1>0, <2>2, ReadsBooks, JournalAssumption DEF CleanupValid, TypeOK
    <3>3. op = "uninstall" => (rcpt["live"] = None) # (rcpt["deleted"] = None)
      <4>1. op = "uninstall" => before.live # None /\ records[1] = Header(op, before.live)
        BY <1>1, <1>0 DEF Clean, TypeOK
      <4> QED BY <1>0, <2>2, <4>1 DEF CleanupValid, UninstallValid, Previous, Header, TypeOK
    <3> QED BY <1>1, <1>0, <3>1, <3>2, <3>3, SameRecords DEF Clean
  <2> QED BY <2>1, <2>2
<1>2. CASE DropDestination
  BY <1>2, <1>0, SameRecords DEF DropDestination
<1>3. CASE DropReceipts
  <2>1. CASE op = "install"
    BY <1>3, <1>0, <2>1, TransactionAssumption, JournalAssumption, SameRecords
       DEF DropReceipts, TypeOK, Dropped
  <2>2. CASE op = "upgrade"
    BY <1>3, <1>0, <2>2, TransactionAssumption, JournalAssumption, SameRecords
       DEF DropReceipts, TypeOK, Dropped
  <2>3. CASE op = "uninstall"
    BY <1>3, <1>0, <2>3, TransactionAssumption, JournalAssumption, SameRecords
       DEF DropReceipts, TypeOK, Dropped
  <2> QED BY <1>0, <2>1, <2>2, <2>3 DEF TypeOK, Operations
<1>4. CASE DropDeleted
  BY <1>4, <1>0, SameRecords DEF DropDeleted, Dropped, TypeOK
<1>5. CASE DropJournal
  BY <1>5, <1>0, SameRecords DEF DropJournal, Logged, LastIs
<1>6. CASE DropState
  BY <1>6, <1>0, LastLogged, SameRecords DEF DropState, TypeOK, Bound, JournalBound
<1>7. CASE DropRoot
  BY <1>7, <1>0, SameRecords DEF DropRoot
<1>8. ASSUME NEW f \in Files, Sweep(f) PROVE Books'
  BY <1>8, <1>0, SameRecords DEF Sweep
<1> HIDE DEF Books
<1> QED BY <1>1, <1>2, <1>3, <1>4, <1>5, <1>6, <1>7, <1>8 DEF Cleanup

(* ... recovery ...                                                         *)
LEMMA RecoveryBooks == TypeInv /\ Bound /\ Books /\ Recovery => Books'
<1> SUFFICES ASSUME TypeInv, Bound, Books, Recovery PROVE Books'
  OBVIOUS
<1>0. TypeOK
  BY DEF TypeInv
<1> USE DEF Books, PlanBound, StorageBound, KnownBound, OpenReceipts, SpareReceipts, CommittedReceipts
<1> USE DEF Forward, GoingBack, Early, Working, Ending, FilePhases, SpareNone, Slots, Pending,
            disk, files, journal, work, plan, bounds, history, Refuse
<1>1. CASE RecoverRefuses
  BY <1>1, <1>0, SameRecords DEF RecoverRefuses
<1>2. CASE RecoverEmpty
  BY <1>2, <1>0, SameRecords DEF RecoverEmpty, Unreadable, Dropped, TypeOK
<1>3. CASE RecoverDone
  BY <1>3, <1>0, SameRecords DEF RecoverDone, Unreadable
<1>4. CASE RecoverInstall
  BY <1>4, <1>0, TransactionAssumption, JournalAssumption, SameRecords DEF RecoverInstall, Recover, Unreadable, Header, TypeOK
<1>5. CASE RecoverUpgrade
  BY <1>5, <1>0, LastLogged, ReadsBooks, TransactionAssumption, JournalAssumption, SameRecords DEF RecoverUpgrade, UpgradeDecision, RollForward, Recover, Unreadable, Header, TypeOK
<1>6. CASE RecoverUninstall
  BY <1>6, <1>0, TransactionAssumption, JournalAssumption, SameRecords DEF RecoverUninstall, Recover, Unreadable, Header, TypeOK
<1>7. CASE Retry
  BY <1>7, <1>0, SameRecords DEF Retry
<1> HIDE DEF Books
<1> QED BY <1>1, <1>2, <1>3, <1>4, <1>5, <1>6, <1>7 DEF Recovery

(* ... failures and crashes ...                                             *)
LEMMA FailureBooks == TypeInv /\ Bound /\ Books /\ Failure => Books'
<1> SUFFICES ASSUME TypeInv, Bound, Books, Failure PROVE Books'
  OBVIOUS
<1>0. TypeOK
  BY DEF TypeInv
<1> USE DEF Books, PlanBound, StorageBound, KnownBound, OpenReceipts, SpareReceipts, CommittedReceipts
<1> USE DEF Forward, GoingBack, Early, Working, Ending, FilePhases, SpareNone, Slots, Pending,
            disk, files, journal, work, plan, bounds, history, Refuse
<1>1. CASE HeaderFails
  BY <1>1, <1>0, SameRecords DEF HeaderFails, TypeOK
<1>2. CASE WriteReceiptFails
  BY <1>2, <1>0, StartRollbackWhere, SameRecords DEF WriteReceiptFails, StagingSlot, Dropped, TypeOK
<1>3. CASE StepFails
  BY <1>3, <1>0, StartRollbackWhere, LastLogged, SameRecords DEF StepFails, TypeOK
<1>4. CASE Crash
  BY <1>4, <1>0, LastLogged, SameRecords DEF Crash, TypeOK
<1> HIDE DEF Books
<1> QED BY <1>1, <1>2, <1>3, <1>4 DEF Failure

(* ... a new transaction ...                                                *)
LEMMA BeginBooks ==
  ASSUME TypeInv, Bound, Books, NEW o \in Operations, NEW t \in Manifests \cup {Empty},
         Begin(o, t)
  PROVE  Books'
<1>1. TypeOK /\ records = <<>> /\ Logged = {}
  BY LastLogged DEF TypeInv, TypeOK, Begin, Bound, JournalBound, Pending
<1>2. (o = "uninstall") = (t = Empty)
  BY TransactionAssumption DEF Begin
<1>3. /\ records' = <<>> /\ Logged' = {} /\ ~Pending /\ Pending'
      /\ pc' = "journal" /\ jfile = "absent" /\ jfile' = "absent" /\ "destination" \notin dirs'
      /\ op' = o /\ target' = t /\ before'.live = rcpt["live"] /\ result' = "none"
      /\ rcpt' = rcpt /\ SpareNone
  BY <1>1, SameRecords DEF Begin, Pending, Books, StorageBound, SpareReceipts, files, journal
<1>4. (o = "install") = (rcpt["live"] = None)
  BY DEF Begin
<1> USE DEF Forward, GoingBack, Early, Working, Ending, FilePhases, SpareNone, Slots, Pending
<1>5. PlanBound' /\ StorageBound' /\ KnownBound'
  BY <1>2, <1>3, <1>4 DEF PlanBound, StorageBound, KnownBound
<1>6. OpenReceipts' /\ SpareReceipts' /\ CommittedReceipts'
  BY <1>3, TransactionAssumption DEF OpenReceipts, SpareReceipts, CommittedReceipts, LastIs
<1> QED BY <1>5, <1>6 DEF Books

(* ... and the user, who touches no file of the books.                      *)
LEMMA UserEditBooks ==
  ASSUME Books, NEW f, NEW c, UserEdit(f, c)
  PROVE  Books'
BY SameRecords DEF UserEdit, Books, PlanBound, StorageBound, KnownBound, OpenReceipts, SpareReceipts, CommittedReceipts,
   Forward, GoingBack, Early, Working, Ending, FilePhases, SpareNone, Slots, Pending,
   journal, work, plan

(* The books are right when nothing is installed ...                        *)
LEMMA InitBooks == Init => Books
BY DEF Init, Books, PlanBound, StorageBound, KnownBound, OpenReceipts, SpareReceipts, CommittedReceipts,
   Forward, GoingBack, Early, Working, Ending, FilePhases, SpareNone, Slots, Pending, Logged, LastIs

(* ... and every step keeps them.                                           *)
LEMMA BooksStep == TypeInv /\ Bound /\ Books /\ [Next]_vars => Books'
<1> SUFFICES ASSUME TypeInv, Bound, Books, [Next]_vars PROVE Books'
  OBVIOUS
<1>1. CASE UNCHANGED vars
  BY <1>1, SameRecords DEF Books, PlanBound, StorageBound, KnownBound, OpenReceipts, SpareReceipts, CommittedReceipts,
     Forward, GoingBack, Early, Working, Ending, FilePhases, SpareNone, Slots, Pending,
     vars, disk, files, journal, work, plan, bounds, history
<1>2. CASE Next
  BY <1>2, BeginBooks, TransactBooks, RollbackBooks, CleanupBooks, RecoveryBooks,
     FailureBooks, UserEditBooks DEF Next
<1> QED BY <1>1, <1>2

-----------------------------------------------------------------------------
(* A file for which there is a record of some kind among R.                 *)
Has(R, k, f) == \E r \in R : r.kind = k /\ r.file = f

Spent == backup = Empty /\ staged = Empty

(* Backups and staged copies are those the journal tells of, in a process   *)
(* at work those it knows of, and cleanup leaves none; what is staged is    *)
(* what the plan wants.                                                     *)
StorageCovered ==
  /\ "destination" \notin dirs => Spent
  /\ \A f \in Files :
       /\ backup[f] # None => Has(Logged, "RestoreFile", f)
       /\ staged[f] # None => Has(Logged, "StageFile", f) /\ staged[f] = target[f]
       /\ (pc \in Working /\ backup[f] # None) => Has(Known, "RestoreFile", f)
       /\ (pc \in Working /\ staged[f] # None) => Has(Known, "StageFile", f)
       /\ (pc = "sweep" /\ f \notin todo) => backup[f] = None /\ staged[f] = None

(* The file in hand has the records that its next step needs.               *)
HandCovered ==
  /\ pc \in {"stage", "staged", "replaceMove", "replaceBack", "replaced", "publish"} =>
       Has(Known, "StageFile", cur)
  /\ pc \in {"removeMove", "replaceMove", "removeBack", "replaceBack", "replaced"} =>
       Has(Known, "RestoreFile", cur)
  /\ pc \in {"staged", "replaceMove", "replaceBack", "replaced", "publish"} =>
       staged[cur] = target[cur]
  /\ pc \in {"publish", "verify"} => RemoveFile(cur, target[cur].sha) \in Known

Covered == StorageCovered /\ HandCovered

(* The process knows a part of the journal, and all of it when it counts    *)
(* every record.                                                            *)
LEMMA KnownLogged ==
  ASSUME TypeOK
  PROVE  /\ Known \subseteq Logged
         /\ known = Len(records) => Known = Logged
         /\ \A k, f : f \in Recorded(k) <=> Has(Known, k, f)
         /\ \A k, f : f \in OnDisk(k) <=> Has(Logged, k, f)
         /\ known = 0 => Known = {}
BY DEF TypeOK, Known, Logged, Recorded, OnDisk, FilesOf, Has

(* A step that neither appends nor forgets keeps what is known.             *)
LEMMA SameKnown ==
  /\ records' = records /\ known' = known => Known' = Known
  /\ records' = records /\ known' = Len(records) => Known' = Logged
BY DEF Known, Logged

(* What is known after appending.                                           *)
LEMMA LogKnown ==
  ASSUME TypeOK, NEW r \in Record, NEW next, Log(r, next), known = Len(records)
  PROVE  /\ Known = Logged
         /\ Known' = Logged \cup {r} \/ Known' = Logged
         /\ pc' = next => Known' = Logged \cup {r} \/ pc' \in GoingBack
         /\ UNCHANGED <<dest, backup, staged>>
<1>1. records' = Append(records, r) /\ records \in Seq(Record) /\ Len(records) \in Nat
  BY DEF Log, TypeOK
<1>2. Known = Logged /\ Logged' = Logged \cup {r} /\ Len(records') = Len(records) + 1
  BY <1>1, KnownLogged, Appended
<1>3. \A i \in 1 .. Len(records) : records'[i] = records[i]
  BY <1>1
<1>4. known' = known => Known' = Logged
  BY <1>1, <1>3 DEF Known, Logged
<1>5. known' = known + 1 => Known' = Logged'
  BY <1>1, <1>2 DEF Known, Logged
<1>6. \/ pc' = next /\ known' = known + 1
      \/ known' = known /\ pc' \in GoingBack
  BY StartRollbackWhere DEF Log, GoingBack
<1> QED BY <1>2, <1>4, <1>5, <1>6 DEF Log, files

(* Steps forward keep storage and records together.                         *)
LEMMA TransactCovered == TypeInv /\ Bound /\ Books /\ Covered /\ Transact => Covered'
<1> SUFFICES ASSUME TypeInv, Bound, Books, Covered, Transact PROVE Covered'
  OBVIOUS
<1>0. TypeOK
  BY DEF TypeInv
<1> USE DEF Covered, StorageCovered, HandCovered, Books, StorageBound, KnownBound
<1> USE DEF Forward, GoingBack, Early, Working, Ending, FilePhases, SpareNone, Slots, Pending,
            disk, files, journal, work, plan, bounds, history, Refuse
<1>1. CASE CreateJournal
  BY <1>1, <1>0, SameRecords, SameKnown DEF CreateJournal, TypeOK, Receipt, Has, Spent, Empty
<1>2. CASE WriteHeader
  BY <1>2, <1>0, SameRecords, SameKnown DEF WriteHeader, TypeOK, Receipt, Has, Spent, Empty
<1>3. CASE MakeDestination
  BY <1>3, <1>0, SameRecords, SameKnown, StartRollbackWhere DEF MakeDestination, TypeOK, Receipt, Has, Spent
<1>4. CASE MoveAside
  BY <1>4, <1>0, SameRecords, SameKnown DEF MoveAside, TypeOK, Receipt, Has, Spent
<1>5. CASE MoveBack
  BY <1>5, <1>0, SameRecords, SameKnown, StartRollbackWhere DEF MoveBack, TypeOK, Receipt, Has, Spent
<1>6. CASE RemovesDone
  BY <1>6, <1>0, SameRecords, SameKnown DEF RemovesDone, TypeOK, Receipt, Has, Spent
<1>7. CASE RootIntent
  <2>1. RemoveDirectory \in Record /\ Log(RemoveDirectory, "makeRoot")
    BY <1>7, <1>0, RecordMade DEF RootIntent, TypeInv, TypeOK, PhaseOK, Replacing, Receipt, OwnedBy, Content
  <2>2. pc \in Forward /\ known = Len(records) /\ records # <<>> /\ "destination" \in dirs
    BY <1>7 DEF RootIntent, Books, KnownBound, StorageBound
  <2>3. Logged' = Logged \cup {RemoveDirectory} /\ UNCHANGED <<dirs, target>>
    BY <1>0, <2>1, <2>2, LogEffect
  <2>4. pc' = "makeRoot" \/ pc' \in {"undo", "mark", "restore"}
    BY <1>0, <2>1, <2>2, LogEffect
  <2>5. /\ Known = Logged
        /\ Known' = Logged \cup {RemoveDirectory} \/ Known' = Logged
        /\ pc' = "makeRoot" => Known' = Logged \cup {RemoveDirectory}
        /\ UNCHANGED <<dest, backup, staged>>
    BY <1>0, <2>1, <2>2, LogKnown
  <2> QED BY <1>7, <1>0, <2>2, <2>3, <2>4, <2>5 DEF RootIntent, Has, Spent, StageFile, RestoreFile, TypeInv, PhaseOK, TypeOK
<1>8. CASE MakeRoot
  BY <1>8, <1>0, SameRecords, SameKnown DEF MakeRoot, TypeOK, Receipt, Has, Spent
<1>9. CASE StageCopy
  BY <1>9, <1>0, SameRecords, SameKnown DEF StageCopy, TypeOK, Receipt, Has, Spent, TypeInv, PhaseOK, Replacing, OwnedBy
<1>10. CASE ReplaceIntent
  <2>1. RestoreFile(cur, dest[cur]) \in Record /\ Log(RestoreFile(cur, dest[cur]), "replaceMove")
    BY <1>10, <1>0, RecordMade DEF ReplaceIntent, TypeInv, TypeOK, PhaseOK, Replacing, Receipt, OwnedBy, Content
  <2>2. pc \in Forward /\ known = Len(records) /\ records # <<>> /\ "destination" \in dirs
    BY <1>10 DEF ReplaceIntent, Books, KnownBound, StorageBound
  <2>3. Logged' = Logged \cup {RestoreFile(cur, dest[cur])} /\ UNCHANGED <<dirs, target>>
    BY <1>0, <2>1, <2>2, LogEffect
  <2>4. pc' = "replaceMove" \/ pc' \in {"undo", "mark", "restore"}
    BY <1>0, <2>1, <2>2, LogEffect
  <2>5. /\ Known = Logged
        /\ Known' = Logged \cup {RestoreFile(cur, dest[cur])} \/ Known' = Logged
        /\ pc' = "replaceMove" => Known' = Logged \cup {RestoreFile(cur, dest[cur])}
        /\ UNCHANGED <<dest, backup, staged>>
    BY <1>0, <2>1, <2>2, LogKnown
  <2> QED BY <1>10, <1>0, <2>2, <2>3, <2>4, <2>5 DEF ReplaceIntent, Has, Spent, StageFile, RestoreFile, TypeInv, PhaseOK, TypeOK
<1>11. CASE PublishIntent
  <2>1. RemoveFile(cur, target[cur].sha) \in Record /\ Log(RemoveFile(cur, target[cur].sha), "publish")
    BY <1>11, <1>0, RecordMade DEF PublishIntent, TypeInv, TypeOK, PhaseOK, Replacing, Receipt, OwnedBy, Content
  <2>2. pc \in Forward /\ known = Len(records) /\ records # <<>> /\ "destination" \in dirs
    BY <1>11 DEF PublishIntent, Books, KnownBound, StorageBound
  <2>3. Logged' = Logged \cup {RemoveFile(cur, target[cur].sha)} /\ UNCHANGED <<dirs, target>>
    BY <1>0, <2>1, <2>2, LogEffect
  <2>4. pc' = "publish" \/ pc' \in {"undo", "mark", "restore"}
    BY <1>0, <2>1, <2>2, LogEffect
  <2>5. /\ Known = Logged
        /\ Known' = Logged \cup {RemoveFile(cur, target[cur].sha)} \/ Known' = Logged
        /\ pc' = "publish" => Known' = Logged \cup {RemoveFile(cur, target[cur].sha)}
        /\ UNCHANGED <<dest, backup, staged>>
    BY <1>0, <2>1, <2>2, LogKnown
  <2> QED BY <1>11, <1>0, <2>2, <2>3, <2>4, <2>5 DEF PublishIntent, Has, Spent, StageFile, RestoreFile, TypeInv, PhaseOK, TypeOK
<1>12. CASE Publish
  BY <1>12, <1>0, SameRecords, SameKnown DEF Publish, TypeOK, Receipt, Has, Spent
<1>13. CASE VerifyPublished
  BY <1>13, <1>0, SameRecords, SameKnown DEF VerifyPublished, TypeOK, Receipt, Has, Spent
<1>14. CASE ApplyDone
  BY <1>14, <1>0, SameRecords, SameKnown DEF ApplyDone, TypeOK, Receipt, Has, Spent
<1>15. CASE BindReceipt
  <2>1. PendingReceipt(target) \in Record /\ Log(PendingReceipt(target), "createReceipt")
    BY <1>15, <1>0, RecordMade DEF BindReceipt, TypeInv, TypeOK, PhaseOK, Replacing, Receipt, OwnedBy, Content
  <2>2. pc \in Forward /\ known = Len(records) /\ records # <<>> /\ "destination" \in dirs
    BY <1>15 DEF BindReceipt, Books, KnownBound, StorageBound
  <2>3. Logged' = Logged \cup {PendingReceipt(target)} /\ UNCHANGED <<dirs, target>>
    BY <1>0, <2>1, <2>2, LogEffect
  <2>4. pc' = "createReceipt" \/ pc' \in {"undo", "mark", "restore"}
    BY <1>0, <2>1, <2>2, LogEffect
  <2>5. /\ Known = Logged
        /\ Known' = Logged \cup {PendingReceipt(target)} \/ Known' = Logged
        /\ pc' = "createReceipt" => Known' = Logged \cup {PendingReceipt(target)}
        /\ UNCHANGED <<dest, backup, staged>>
    BY <1>0, <2>1, <2>2, LogKnown
  <2> QED BY <1>15, <1>0, <2>2, <2>3, <2>4, <2>5 DEF BindReceipt, Has, Spent, StageFile, RestoreFile, TypeInv, PhaseOK, TypeOK
<1>16. CASE CreateReceipt
  BY <1>16, <1>0, SameRecords, SameKnown DEF CreateReceipt, TypeOK, Receipt, Has, Spent
<1>17. CASE WriteReceipt
  BY <1>17, <1>0, SameRecords, SameKnown DEF WriteReceipt, TypeOK, Receipt, Has, Spent
<1>18. CASE PublishReceipt
  BY <1>18, <1>0, SameRecords, SameKnown DEF PublishReceipt, TypeOK, Receipt, Has, Spent
<1>19. CASE Commit
  <2>1. Committing \in Record /\ Log(Committing, "cutover")
    BY <1>19, <1>0, RecordMade DEF Commit, TypeInv, TypeOK, PhaseOK, Replacing, Receipt, OwnedBy, Content
  <2>2. pc \in Forward /\ known = Len(records) /\ records # <<>> /\ "destination" \in dirs
    BY <1>19 DEF Commit, Books, KnownBound, StorageBound
  <2>3. Logged' = Logged \cup {Committing} /\ UNCHANGED <<dirs, target>>
    BY <1>0, <2>1, <2>2, LogEffect
  <2>4. pc' = "cutover" \/ pc' \in {"undo", "mark", "restore"}
    BY <1>0, <2>1, <2>2, LogEffect
  <2>5. /\ Known = Logged
        /\ Known' = Logged \cup {Committing} \/ Known' = Logged
        /\ pc' = "cutover" => Known' = Logged \cup {Committing}
        /\ UNCHANGED <<dest, backup, staged>>
    BY <1>0, <2>1, <2>2, LogKnown
  <2> QED BY <1>19, <1>0, <2>2, <2>3, <2>4, <2>5 DEF Commit, Has, Spent, StageFile, RestoreFile, TypeInv, PhaseOK, TypeOK
<1>20. CASE Cutover
  <2>1. /\ pc' \in {"clean", "publishLive"} /\ pc = "cutover"
        /\ UNCHANGED <<dest, backup, staged, dirs, records, known, todo, cur, target>>
    BY <1>20, <1>0 DEF Cutover, TypeOK, Operations
  <2> QED BY <1>20, <1>0, <2>1, SameRecords, SameKnown DEF Has, Spent
<1>21. CASE PublishLive
  BY <1>21, <1>0, SameRecords, SameKnown DEF PublishLive, TypeOK, Receipt, Has, Spent
<1>22. CASE StepBlocked
  BY <1>22, <1>0, SameRecords, SameKnown, StartRollbackWhere DEF StepBlocked, TypeOK, Receipt, Has, Spent
<1>23. ASSUME NEW f \in Files, KeepFile(f) PROVE Covered'
  BY <1>23, <1>0, SameRecords, SameKnown DEF KeepFile, TypeOK, Receipt, Has, Spent
<1>24. ASSUME NEW f \in Files, RemoveIntent(f) PROVE Covered'
  <2>1. RestoreFile(f, dest[f]) \in Record /\ Log(RestoreFile(f, dest[f]), "removeMove")
    BY <1>24, <1>0, RecordMade DEF RemoveIntent, TypeInv, TypeOK, PhaseOK, Replacing, Receipt, OwnedBy, Content
  <2>2. pc \in Forward /\ known = Len(records) /\ records # <<>> /\ "destination" \in dirs
    BY <1>24 DEF RemoveIntent, Books, KnownBound, StorageBound
  <2>3. Logged' = Logged \cup {RestoreFile(f, dest[f])} /\ UNCHANGED <<dirs, target>>
    BY <1>0, <2>1, <2>2, LogEffect
  <2>4. pc' = "removeMove" \/ pc' \in {"undo", "mark", "restore"}
    BY <1>0, <2>1, <2>2, LogEffect
  <2>5. /\ Known = Logged
        /\ Known' = Logged \cup {RestoreFile(f, dest[f])} \/ Known' = Logged
        /\ pc' = "removeMove" => Known' = Logged \cup {RestoreFile(f, dest[f])}
        /\ UNCHANGED <<dest, backup, staged>>
    BY <1>0, <2>1, <2>2, LogKnown
  <2> QED BY <1>24, <1>0, <2>2, <2>3, <2>4, <2>5 DEF RemoveIntent, Has, Spent, StageFile, RestoreFile, TypeInv, PhaseOK, TypeOK
<1>25. ASSUME NEW f \in Files, SkipIdentical(f) PROVE Covered'
  BY <1>25, <1>0, SameRecords, SameKnown DEF SkipIdentical, TypeOK, Receipt, Has, Spent
<1>26. ASSUME NEW f \in Files, StageIntent(f) PROVE Covered'
  <2>1. StageFile(f, target[f].sha) \in Record /\ Log(StageFile(f, target[f].sha), "stage")
    BY <1>26, <1>0, RecordMade DEF StageIntent, TypeInv, TypeOK, PhaseOK, Replacing, Receipt, OwnedBy, Content
  <2>2. pc \in Forward /\ known = Len(records) /\ records # <<>> /\ "destination" \in dirs
    BY <1>26 DEF StageIntent, Books, KnownBound, StorageBound
  <2>3. Logged' = Logged \cup {StageFile(f, target[f].sha)} /\ UNCHANGED <<dirs, target>>
    BY <1>0, <2>1, <2>2, LogEffect
  <2>4. pc' = "stage" \/ pc' \in {"undo", "mark", "restore"}
    BY <1>0, <2>1, <2>2, LogEffect
  <2>5. /\ Known = Logged
        /\ Known' = Logged \cup {StageFile(f, target[f].sha)} \/ Known' = Logged
        /\ pc' = "stage" => Known' = Logged \cup {StageFile(f, target[f].sha)}
        /\ UNCHANGED <<dest, backup, staged>>
    BY <1>0, <2>1, <2>2, LogKnown
  <2> QED BY <1>26, <1>0, <2>2, <2>3, <2>4, <2>5 DEF StageIntent, Has, Spent, StageFile, RestoreFile, TypeInv, PhaseOK, TypeOK
<1> HIDE DEF Covered
<1> QED BY <1>1, <1>2, <1>3, <1>4, <1>5, <1>6, <1>7, <1>8, <1>9, <1>10, <1>11, <1>12, <1>13, <1>14, <1>15, <1>16, <1>17, <1>18, <1>19, <1>20, <1>21, <1>22, <1>23, <1>24, <1>25, <1>26 DEF Transact

(* So does rollback ...                                                     *)
LEMMA RollbackCovered == TypeInv /\ Bound /\ Books /\ Covered /\ Rollback => Covered'
<1> SUFFICES ASSUME TypeInv, Bound, Books, Covered, Rollback PROVE Covered'
  OBVIOUS
<1>0. TypeOK
  BY DEF TypeInv
<1> USE DEF Covered, StorageCovered, HandCovered, Books, StorageBound, KnownBound
<1> USE DEF Forward, GoingBack, Early, Working, Ending, FilePhases, SpareNone, Slots, Pending,
            disk, files, journal, work, plan, bounds, history, Refuse, Empty
<1>1. CASE MarkRollingBack
  <2>1. (Known' = Logged' /\ Logged \subseteq Logged') \/ UNCHANGED <<records, known>>
    <3>1. CASE known = Len(records)
      <4>1. /\ records' \in Seq(Record) /\ Len(records') = Len(records) + 1
            /\ Logged' = Logged \cup {RollingBack} /\ known' = Len(records')
        BY <1>1, <1>0, <3>1, Appended, RecordMade DEF MarkRollingBack, TypeOK
      <4> QED BY <4>1 DEF Known, Logged
    <3> QED BY <1>1, <3>1 DEF MarkRollingBack
  <2> QED BY <1>1, <1>0, <2>1, SameRecords, SameKnown, KnownLogged DEF MarkRollingBack, Has, Spent
<1>2. CASE ValidateRollback
  BY <1>2, <1>0, SameRecords, SameKnown DEF ValidateRollback, TypeOK, Receipt, Has, Spent
<1>3. CASE UndoDone
  BY <1>3, <1>0, SameRecords, SameKnown DEF UndoDone, TypeOK, Receipt, Has, Spent
<1>4. CASE RestoreDone
  BY <1>4, <1>0, SameRecords, SameKnown DEF RestoreDone, TypeOK, Receipt, Has, Spent
<1>5. CASE UndoStaged
  BY <1>5, <1>0, SameRecords, SameKnown DEF UndoStaged, TypeOK, Receipt, Has, Spent
<1>6. CASE UndoRoot
  BY <1>6, <1>0, SameRecords, SameKnown DEF UndoRoot, TypeOK, Receipt, Has, Spent
<1>7. CASE RestoreReceipt
  BY <1>7, <1>0, SameRecords, SameKnown DEF RestoreReceipt, TypeOK, Receipt, Has, Spent
<1>8. CASE DropStagedReceipts
  BY <1>8, <1>0, SameRecords, SameKnown DEF DropStagedReceipts, TypeOK, Receipt, Has, Spent
<1>9. ASSUME NEW f \in Files, UndoFile(f) PROVE Covered'
  BY <1>9, <1>0, SameRecords, SameKnown DEF UndoFile, TypeOK, Receipt, Has, Spent
<1>10. ASSUME NEW f \in Files, RestoreStep(f) PROVE Covered'
  BY <1>10, <1>0, SameRecords, SameKnown DEF RestoreStep, TypeOK, Receipt, Has, Spent
<1> HIDE DEF Covered
<1> QED BY <1>1, <1>2, <1>3, <1>4, <1>5, <1>6, <1>7, <1>8, <1>9, <1>10 DEF Rollback

(* ... cleanup, which takes away all of it ...                              *)
LEMMA CleanupCovered == TypeInv /\ Bound /\ Books /\ Covered /\ Cleanup => Covered'
<1> SUFFICES ASSUME TypeInv, Bound, Books, Covered, Cleanup PROVE Covered'
  OBVIOUS
<1>0. TypeOK
  BY DEF TypeInv
<1> USE DEF Covered, StorageCovered, HandCovered, Books, StorageBound, KnownBound
<1> USE DEF Forward, GoingBack, Early, Working, Ending, FilePhases, SpareNone, Slots, Pending,
            disk, files, journal, work, plan, bounds, history, Refuse, Empty
<1>1. CASE Clean
  <2>1. CASE ~CleanupValid
    BY <1>1, <1>0, <2>1, SameRecords, SameKnown DEF Clean, Has, Spent
  <2>2. CASE CleanupValid
    <3>1. todo' = Recorded("RestoreFile") \cup Recorded("StageFile") /\ pc' = "sweep"
      BY <1>1, <2>2 DEF Clean
    <3> QED BY <1>1, <1>0, <2>2, <3>1, KnownLogged, SameRecords, SameKnown DEF Clean, Has, Spent
  <2> QED BY <2>1, <2>2
<1>2. CASE DropDestination
  BY <1>2, <1>0, SameRecords, SameKnown DEF DropDestination, TypeOK, Receipt, Has, Spent
<1>3. CASE DropReceipts
  BY <1>3, <1>0, SameRecords, SameKnown DEF DropReceipts, TypeOK, Receipt, Has, Spent, Operations
<1>4. CASE DropDeleted
  BY <1>4, <1>0, SameRecords, SameKnown DEF DropDeleted, TypeOK, Receipt, Has, Spent
<1>5. CASE DropJournal
  BY <1>5, <1>0, SameRecords, SameKnown DEF DropJournal, TypeOK, Receipt, Has, Spent
<1>6. CASE DropState
  BY <1>6, <1>0, SameRecords, SameKnown DEF DropState, TypeOK, Receipt, Has, Spent
<1>7. CASE DropRoot
  BY <1>7, <1>0, SameRecords, SameKnown DEF DropRoot, TypeOK, Receipt, Has, Spent
<1>8. ASSUME NEW f \in Files, Sweep(f) PROVE Covered'
  BY <1>8, <1>0, SameRecords, SameKnown DEF Sweep, TypeOK, Receipt, Has, Spent
<1> HIDE DEF Covered
<1> QED BY <1>1, <1>2, <1>3, <1>4, <1>5, <1>6, <1>7, <1>8 DEF Cleanup

(* ... recovery, which knows the whole journal ...                          *)
LEMMA RecoveryCovered == TypeInv /\ Bound /\ Books /\ Covered /\ Recovery => Covered'
<1> SUFFICES ASSUME TypeInv, Bound, Books, Covered, Recovery PROVE Covered'
  OBVIOUS
<1>0. TypeOK
  BY DEF TypeInv
<1> USE DEF Covered, StorageCovered, HandCovered, Books, StorageBound, KnownBound
<1> USE DEF Forward, GoingBack, Early, Working, Ending, FilePhases, SpareNone, Slots, Pending,
            disk, files, journal, work, plan, bounds, history, Refuse
<1>1. CASE RecoverRefuses
  BY <1>1, <1>0, SameRecords, SameKnown DEF RecoverRefuses, TypeOK, Receipt, Has, Spent
<1>2. CASE RecoverEmpty
  BY <1>2, <1>0, SameRecords, SameKnown DEF RecoverEmpty, TypeOK, Receipt, Has, Spent
<1>3. CASE RecoverDone
  BY <1>3, <1>0, SameRecords, SameKnown DEF RecoverDone, TypeOK, Receipt, Has, Spent
<1>4. CASE RecoverInstall
  BY <1>4, <1>0, SameRecords, SameKnown DEF RecoverInstall, TypeOK, Receipt, Has, Spent, Recover
<1>5. CASE RecoverUpgrade
  BY <1>5, <1>0, SameRecords, SameKnown DEF RecoverUpgrade, TypeOK, Receipt, Has, Spent, Recover, UpgradeDecision
<1>6. CASE RecoverUninstall
  BY <1>6, <1>0, SameRecords, SameKnown DEF RecoverUninstall, TypeOK, Receipt, Has, Spent, Recover
<1>7. CASE Retry
  BY <1>7, <1>0, SameRecords, SameKnown DEF Retry, TypeOK, Receipt, Has, Spent
<1> HIDE DEF Covered
<1> QED BY <1>1, <1>2, <1>3, <1>4, <1>5, <1>6, <1>7 DEF Recovery

(* ... failures and crashes ...                                             *)
LEMMA FailureCovered == TypeInv /\ Bound /\ Books /\ Covered /\ Failure => Covered'
<1> SUFFICES ASSUME TypeInv, Bound, Books, Covered, Failure PROVE Covered'
  OBVIOUS
<1>0. TypeOK
  BY DEF TypeInv
<1> USE DEF Covered, StorageCovered, HandCovered, Books, StorageBound, KnownBound
<1> USE DEF Forward, GoingBack, Early, Working, Ending, FilePhases, SpareNone, Slots, Pending,
            disk, files, journal, work, plan, bounds, history, Refuse
<1>1. CASE HeaderFails
  BY <1>1, <1>0, SameRecords, SameKnown DEF HeaderFails, TypeOK, Receipt, Has, Spent
<1>2. CASE WriteReceiptFails
  BY <1>2, <1>0, SameRecords, SameKnown, StartRollbackWhere DEF WriteReceiptFails, TypeOK, Receipt, Has, Spent
<1>3. CASE StepFails
  BY <1>3, <1>0, SameRecords, SameKnown, StartRollbackWhere DEF StepFails, TypeOK, Receipt, Has, Spent
<1>4. CASE Crash
  BY <1>4, <1>0, SameRecords, SameKnown DEF Crash, TypeOK, Receipt, Has, Spent
<1> HIDE DEF Covered
<1> QED BY <1>1, <1>2, <1>3, <1>4 DEF Failure

(* ... a new transaction ...                                                *)
LEMMA BeginCovered ==
  ASSUME TypeInv, Books, Covered, NEW o \in Operations, NEW t, Begin(o, t)
  PROVE  Covered'
<1>1. Spent /\ Spent' /\ pc' = "journal"
  BY DEF Begin, Covered, StorageCovered, Pending, Spent, files
<1> QED BY <1>1 DEF Covered, StorageCovered, HandCovered, Spent, Empty,
           Forward, GoingBack, Early, Working, Ending, FilePhases, SpareNone, Slots, Pending

(* ... and the user, who does not touch what the transaction keeps.         *)
LEMMA UserEditCovered ==
  ASSUME Covered, NEW f, NEW c, UserEdit(f, c)
  PROVE  Covered'
BY SameRecords, SameKnown DEF UserEdit, Covered, StorageCovered, HandCovered, Spent,
   journal, work, plan, Has

(* There is nothing to keep at the beginning ...                            *)
LEMMA InitCovered == Init => Covered
BY DEF Init, Covered, StorageCovered, HandCovered, Spent, Empty, Forward, GoingBack, Early, Working, Ending, FilePhases, SpareNone, Slots, Pending

(* ... and every step keeps storage and records together.                   *)
LEMMA CoveredStep == TypeInv /\ Bound /\ Books /\ Covered /\ [Next]_vars => Covered'
<1> SUFFICES ASSUME TypeInv, Bound, Books, Covered, [Next]_vars PROVE Covered'
  OBVIOUS
<1>1. CASE UNCHANGED vars
  BY <1>1, SameRecords, SameKnown DEF Covered, StorageCovered, HandCovered, Spent, Has,
     vars, disk, files, journal, work, plan, bounds, history
<1>2. CASE Next
  BY <1>2, BeginCovered, TransactCovered, RollbackCovered, CleanupCovered, RecoveryCovered,
     FailureCovered, UserEditCovered DEF Next
<1> QED BY <1>1, <1>2

-----------------------------------------------------------------------------
(* What has been proved to hold at any time.                                *)
LEMMA BooksAlways == Spec => [](TypeInv /\ Bound /\ Books /\ Covered)
<1>1. Init => TypeInv /\ Bound /\ Books /\ Covered
  BY InitType, InitBound, InitBooks, InitCovered
<1>2. TypeInv /\ Bound /\ Books /\ Covered /\ [Next]_vars =>
        (TypeInv /\ Bound /\ Books /\ Covered)'
  BY TypeStep, BoundStep, BooksStep, CoveredStep
<1> QED BY <1>1, <1>2, PTL DEF Spec

(* When nothing is pending there is no backup, staged copy, journal or      *)
(* spare receipt left, whatever failed or crashed on the way: a finished    *)
(* transaction cannot be mistaken for one to recover.                       *)
THEOREM StorageIsEmptied == Spec => []NothingLeftBehind
<1>1. TypeInv /\ Books /\ Covered => NothingLeftBehind
  BY DEF TypeInv, TypeOK, Books, StorageBound, SpareReceipts, SpareNone, Covered,
         StorageCovered, Spent, NothingLeftBehind, Pending
<1> QED BY <1>1, BooksAlways, PTL

(* A step of a committed transaction with something left to clean.          *)
LEMMA CommittedStep ==
  ASSUME TypeInv, Bound, Books, Next, result = "committed", ~(pc = "idle" /\ ~Pending)
  PROVE  /\ result' = "committed" /\ rcpt'["live"] = rcpt["live"]
         /\ edits' = edits => dest' = dest
<1>1. pc \notin Forward \cup GoingBack \cup Early
  BY DEF Books, PlanBound
<1>2. TypeOK
  BY DEF TypeInv
<1> USE DEF Forward, GoingBack, Early, disk, files, journal, work, plan, bounds, history, Refuse
<1>3. CASE Transact
  BY <1>1, <1>3 DEF Transact, CreateJournal, WriteHeader, MakeDestination, KeepFile,
     RemoveIntent, SkipIdentical, StageIntent, MoveAside, MoveBack, RemovesDone, RootIntent,
     MakeRoot, StageCopy, ReplaceIntent, PublishIntent, Publish, VerifyPublished, ApplyDone,
     BindReceipt, CreateReceipt, WriteReceipt, PublishReceipt, Commit, Cutover, PublishLive,
     StepBlocked
<1>4. CASE Rollback
  BY <1>1, <1>4 DEF Rollback, MarkRollingBack, ValidateRollback, UndoFile, RestoreStep,
     UndoDone, RestoreDone, UndoStaged, UndoRoot, RestoreReceipt, DropStagedReceipts
<1>5. CASE Cleanup
  <2>1. ASSUME NEW f \in Files, Sweep(f) PROVE UNCHANGED <<dest, rcpt, result>>
    BY <2>1 DEF Sweep
  <2>2. CASE Clean
    BY <1>2, <2>2 DEF Clean, Dropped, TypeOK, Slots
  <2>3. CASE DropReceipts
    BY <1>2, <2>3 DEF DropReceipts, Dropped, TypeOK, Slots, Operations
  <2>4. CASE DropDeleted
    BY <1>2, <2>4 DEF DropDeleted, Dropped, TypeOK, Slots
  <2> QED BY <1>5, <2>1, <2>2, <2>3, <2>4 DEF Cleanup, DropDestination, DropJournal,
             DropState, DropRoot
<1>6. CASE Recovery
  <2>1. CASE RecoverEmpty
    BY <1>2, <2>1 DEF RecoverEmpty, Dropped, TypeOK, Slots
  <2> QED BY <1>6, <2>1 DEF Recovery, RecoverRefuses, RecoverDone, RecoverInstall,
             RecoverUpgrade, RecoverUninstall, Recover, Retry
<1>7. CASE Failure
  BY <1>1, <1>7 DEF Failure, HeaderFails, WriteReceiptFails, StepFails, Crash
<1>8. ASSUME NEW f \in Files, NEW c \in UserContent \cup {None}, UserEdit(f, c)
      PROVE  UNCHANGED <<rcpt, result>> /\ edits' # edits
  BY <1>2, <1>8 DEF UserEdit, TypeOK
<1>9. ASSUME NEW o, NEW t, Begin(o, t) PROVE FALSE
  BY <1>9 DEF Begin
<1> QED BY <1>3, <1>4, <1>5, <1>6, <1>7, <1>8, <1>9 DEF Next

(* Once the receipt rename has committed a transaction, no failure, crash   *)
(* or recovery takes the receipt or the installed files back: until nothing *)
(* is pending and the next one begins, only the user changes the tree.      *)
THEOREM CommitStands == Spec => CommitIsFinal
<1>1. TypeInv /\ Bound /\ Books /\ Covered /\ [Next]_vars =>
        [result = "committed" =>
           \/ /\ result' = "committed" /\ rcpt'["live"] = rcpt["live"]
              /\ edits' = edits => dest' = dest
           \/ pc = "idle" /\ ~Pending]_vars
  BY CommittedStep
<1> QED BY <1>1, BooksAlways, PTL DEF Spec, CommitIsFinal

-----------------------------------------------------------------------------
(* What the journal holds in each phase.                                    *)
RemovePhases == {"remove", "removeMove", "removeBack"}
ApplyPhases  == Replacing \cup {"apply", "makeRoot"}
TailPhases   == {"bindReceipt", "createReceipt", "writeReceipt", "publishReceipt", "commit",
                 "cutover", "publishLive"}
Restored     == {"undoStaged", "undoRoot", "restoreReceipt", "dropStagedReceipts", "clean",
                 "sweep"} \cup Ending

(* Which receipt files are left when the journal is gone, and after a       *)
(* rollback.                                                                *)
Spares ==
  /\ jfile = "absent" => SpareNone
  /\ jfile = "done" => records # <<>> /\ rcpt["previous"] = None /\ rcpt["pending"] = None
                       /\ rcpt["incoming"] = None
  /\ pc = "dropReceipts" => records # <<>>
  /\ (result = "none" /\ op = "upgrade" /\ pc \in {"clean", "sweep"}) =>
       LastIs(RollingBack) /\ rcpt["pending"] = None

(* The passes forward have no record yet of the files they still handle,    *)
(* save the file in hand ...                                                *)
FilesPhased ==
  /\ pc \in RemovePhases =>
       /\ \A f \in todo : target[f] = None /\ op # "install"
       /\ \A r \in Logged : r.kind \in FileKinds =>
            target[r.file] = None /\ (r.file \in todo => pc # "remove" /\ r.file = cur)
  /\ pc \in {"apply", "makeRoot"} => \A r \in Logged : r.kind \in FileKinds => r.file \notin todo
  /\ pc \in Replacing => \A r \in Logged : r.kind \in FileKinds /\ r.file \in todo => r.file = cur
  /\ pc \in {"stage", "staged", "replaceMove", "replaceBack", "replaced"} =>
       StageFile(cur, target[cur].sha) \in Logged /\ ~Has(Logged, "RemoveFile", cur)
  /\ pc \in {"stage", "staged"} => ~Has(Logged, "RestoreFile", cur)

(* ... and every other record belongs to its phase.                         *)
MarksPhased ==
  /\ pc = "destination" => \A r \in Logged : r.kind = "Header"
  /\ pc \in FilePhases \cup {"destination", "bindReceipt"} =>
       \A r \in Logged : r.kind # "PendingReceipt"
  /\ pc \in (Forward \ {"cutover", "publishLive"}) \cup {"destination"} => Committing \notin Logged
  /\ pc \in Forward \cup {"destination", "mark"} => RollingBack \notin Logged
  /\ (pc \in Forward \cup {"destination"} /\ RemoveDirectory \in Logged) =>
       pc = "makeRoot" \/ "root" \in dirs

(* No record is written twice, and the reader accepts what is written.      *)
Accepted ==
  /\ IsFiniteSet(Logged) /\ Cardinality(Logged) = Len(records)
  /\ records # <<>> => ReadJournal(records) /\ (op = "upgrade" => UpgradeReceiptsOK(records))

Readable == Spares /\ FilesPhased /\ MarksPhased /\ Accepted

-----------------------------------------------------------------------------
(* What an action that appends the record r does, besides.                  *)
Appends(r, next) ==
  /\ pc \in Forward /\ known = Len(records) /\ records # <<>> /\ result = "none"
  /\ r \in Record /\ Logged' = Logged \cup {r} /\ records' # <<>>
  /\ Known = Logged /\ (Known' = Logged \cup {r} \/ Known' = Logged)
  /\ \/ pc' = next /\ Known' = Logged \cup {r} /\ todo' = todo
     \/ /\ \/ pc' = "undo" /\ op = "install"
           \/ pc' = "mark" /\ op = "upgrade"
           \/ pc' = "restore" /\ op = "uninstall"
        /\ Known' = Logged
        /\ todo' = CASE op = "install"   -> Recorded("StageFile") \cup Recorded("RemoveFile")
                     [] op = "upgrade"   -> {}
                     [] op = "uninstall" -> Recorded("RestoreFile")
  /\ UNCHANGED <<dest, backup, staged, rcpt, dirs, jfile, op, target, before, edited, result>>

(* The records of a journal that grows by one.                              *)
LEMMA Logs ==
  ASSUME TypeInv, Books, NEW r \in Record, NEW next, Log(r, next), pc \in Forward
  PROVE  Appends(r, next)
<1>1. TypeOK /\ known = Len(records) /\ records # <<>> /\ result = "none"
  BY DEF TypeInv, Books, PlanBound, KnownBound, Working
<1>2. /\ records' # <<>> /\ Logged' = Logged \cup {r}
      /\ \/ pc' = next /\ known' = Len(records')
         \/ known' = Len(records') - 1
      /\ UNCHANGED <<rcpt, dirs, jfile, op, target, before, result>>
  BY <1>1, LogEffect
<1>3. /\ Known = Logged
      /\ Known' = Logged \cup {r} \/ Known' = Logged
      /\ UNCHANGED <<dest, backup, staged, edited>>
  BY <1>1, LogKnown DEF Log
<1>4. \/ known' = known + 1 /\ pc' = next /\ todo' = todo
      \/ known' = known /\ StartRollback
  BY DEF Log
<1>5. records' = Append(records, r) /\ records \in Seq(Record)
  BY <1>1 DEF Log, TypeOK
<1>6. Len(records') = Len(records) + 1
  BY <1>5
<1>7. known' = known + 1 => Known' = Logged'
  BY <1>1, <1>6 DEF Known, Logged
<1>8. known' = known => Known' = Logged
  <2>1. \A i \in 1 .. Len(records) : records'[i] = records[i]
    BY <1>5
  <2> QED BY <1>1, <2>1 DEF Known, Logged
<1>9. StartRollback =>
        /\ \/ pc' = "undo" /\ op = "install"
           \/ pc' = "mark" /\ op = "upgrade"
           \/ pc' = "restore" /\ op = "uninstall"
        /\ todo' = CASE op = "install"   -> Recorded("StageFile") \cup Recorded("RemoveFile")
                     [] op = "upgrade"   -> {}
                     [] op = "uninstall" -> Recorded("RestoreFile")
  BY <1>1, StartRollbackWhere DEF StartRollback
<1> QED BY <1>1, <1>2, <1>3, <1>4, <1>7, <1>8, <1>9 DEF Appends

(* Each of the actions that append, with its record.                        *)
LEMMA AppendingSteps ==
  ASSUME TypeInv, Books
  PROVE  /\ RootIntent => Appends(RemoveDirectory, "makeRoot")
         /\ ReplaceIntent => Appends(RestoreFile(cur, dest[cur]), "replaceMove")
         /\ PublishIntent => Appends(RemoveFile(cur, target[cur].sha), "publish")
         /\ BindReceipt => Appends(PendingReceipt(target), "createReceipt")
         /\ Commit => Appends(Committing, "cutover")
         /\ \A f \in Files : RemoveIntent(f) => Appends(RestoreFile(f, dest[f]), "removeMove")
         /\ \A f \in Files : StageIntent(f) => Appends(StageFile(f, target[f].sha), "stage")
<1> USE RecordMade, Logs DEF TypeInv, TypeOK, PhaseOK, Replacing, Receipt, OwnedBy, Content, Forward
<1>1. ASSUME RootIntent PROVE Appends(RemoveDirectory, "makeRoot")
  <2>1. RemoveDirectory \in Record /\ Log(RemoveDirectory, "makeRoot") /\ pc \in Forward
    BY <1>1 DEF RootIntent
  <2> HIDE DEF TypeInv, TypeOK
  <2> QED BY <2>1
<1>2. ASSUME ReplaceIntent PROVE Appends(RestoreFile(cur, dest[cur]), "replaceMove")
  <2>1. RestoreFile(cur, dest[cur]) \in Record /\ Log(RestoreFile(cur, dest[cur]), "replaceMove") /\ pc \in Forward
    BY <1>2 DEF ReplaceIntent
  <2> HIDE DEF TypeInv, TypeOK
  <2> QED BY <2>1
<1>3. ASSUME PublishIntent PROVE Appends(RemoveFile(cur, target[cur].sha), "publish")
  <2>1. RemoveFile(cur, target[cur].sha) \in Record /\ Log(RemoveFile(cur, target[cur].sha), "publish") /\ pc \in Forward
    BY <1>3 DEF PublishIntent
  <2> HIDE DEF TypeInv, TypeOK
  <2> QED BY <2>1
<1>4. ASSUME BindReceipt PROVE Appends(PendingReceipt(target), "createReceipt")
  <2>1. PendingReceipt(target) \in Record /\ Log(PendingReceipt(target), "createReceipt") /\ pc \in Forward
    BY <1>4 DEF BindReceipt
  <2> HIDE DEF TypeInv, TypeOK
  <2> QED BY <2>1
<1>5. ASSUME Commit PROVE Appends(Committing, "cutover")
  <2>1. Committing \in Record /\ Log(Committing, "cutover") /\ pc \in Forward
    BY <1>5 DEF Commit
  <2> HIDE DEF TypeInv, TypeOK
  <2> QED BY <2>1
<1>6. ASSUME NEW f \in Files, RemoveIntent(f) PROVE Appends(RestoreFile(f, dest[f]), "removeMove")
  <2>1. RestoreFile(f, dest[f]) \in Record /\ Log(RestoreFile(f, dest[f]), "removeMove") /\ pc \in Forward
    BY <1>6 DEF RemoveIntent
  <2> HIDE DEF TypeInv, TypeOK
  <2> QED BY <2>1
<1>7. ASSUME NEW f \in Files, StageIntent(f) PROVE Appends(StageFile(f, target[f].sha), "stage")
  <2>1. StageFile(f, target[f].sha) \in Record /\ Log(StageFile(f, target[f].sha), "stage") /\ pc \in Forward
    BY <1>7 DEF StageIntent
  <2> HIDE DEF TypeInv, TypeOK
  <2> QED BY <2>1
<1> HIDE DEF TypeInv, TypeOK
<1> QED BY <1>1, <1>2, <1>3, <1>4, <1>5, <1>6, <1>7

(* Steps forward have the records of the files they have handled ...        *)
LEMMA TransactFilesPhased ==
  ASSUME TypeInv, Bound, Books, Covered, Accepted, MarksPhased, FilesPhased, Transact
  PROVE  FilesPhased'
<1>0. TypeOK
  BY DEF TypeInv
<1> USE DEF FilesPhased, Forward, GoingBack, Early, Working, Ending, FilePhases, RemovePhases, Replacing
<1> USE DEF disk, files, journal, work, plan, bounds, history, Refuse
<1>1. CASE CreateJournal
  BY <1>1, <1>0, SameRecords DEF CreateJournal
<1>2. CASE WriteHeader
  BY <1>2, <1>0 DEF WriteHeader
<1>3. CASE MakeDestination
  BY <1>3, <1>0, SameRecords, StartRollbackWhere DEF MakeDestination, Obsolete, FileKinds, Books, PlanBound, MarksPhased
<1>4. CASE MoveAside
  BY <1>4, <1>0, SameRecords DEF MoveAside
<1>5. CASE MoveBack
  BY <1>5, <1>0, SameRecords, StartRollbackWhere DEF MoveBack
<1>6. CASE RemovesDone
  BY <1>6, <1>0, SameRecords DEF RemovesDone, OwnedBy
<1>7. CASE RootIntent
  BY <1>7, <1>0, AppendingSteps, RecordKinds DEF Appends, RootIntent, StageFile, RemoveFile, RestoreFile, PendingReceipt, Committing, RollingBack, RemoveDirectory, Header, Has, FileKinds, TypeInv, PhaseOK, OwnedBy
<1>8. CASE MakeRoot
  BY <1>8, <1>0, SameRecords DEF MakeRoot
<1>9. CASE StageCopy
  BY <1>9, <1>0, SameRecords DEF StageCopy
<1>10. CASE ReplaceIntent
  BY <1>10, <1>0, AppendingSteps, RecordKinds DEF Appends, ReplaceIntent, StageFile, RemoveFile, RestoreFile, PendingReceipt, Committing, RollingBack, RemoveDirectory, Header, Has, FileKinds, TypeInv, PhaseOK, OwnedBy
<1>11. CASE PublishIntent
  BY <1>11, <1>0, AppendingSteps, RecordKinds DEF Appends, PublishIntent, StageFile, RemoveFile, RestoreFile, PendingReceipt, Committing, RollingBack, RemoveDirectory, Header, Has, FileKinds, TypeInv, PhaseOK, OwnedBy
<1>12. CASE Publish
  BY <1>12, <1>0, SameRecords DEF Publish
<1>13. CASE VerifyPublished
  BY <1>13, <1>0, SameRecords DEF VerifyPublished
<1>14. CASE ApplyDone
  BY <1>14, <1>0, SameRecords DEF ApplyDone
<1>15. CASE BindReceipt
  BY <1>15, <1>0, AppendingSteps, RecordKinds DEF Appends, BindReceipt, StageFile, RemoveFile, RestoreFile, PendingReceipt, Committing, RollingBack, RemoveDirectory, Header, Has, FileKinds, TypeInv, PhaseOK, OwnedBy
<1>16. CASE CreateReceipt
  BY <1>16, <1>0, SameRecords DEF CreateReceipt
<1>17. CASE WriteReceipt
  BY <1>17, <1>0, SameRecords DEF WriteReceipt
<1>18. CASE PublishReceipt
  BY <1>18, <1>0, SameRecords DEF PublishReceipt
<1>19. CASE Commit
  BY <1>19, <1>0, AppendingSteps, RecordKinds DEF Appends, Commit, StageFile, RemoveFile, RestoreFile, PendingReceipt, Committing, RollingBack, RemoveDirectory, Header, Has, FileKinds, TypeInv, PhaseOK, OwnedBy
<1>20. CASE Cutover
  BY <1>20, <1>0, SameRecords DEF Cutover, Operations, TypeOK
<1>21. CASE PublishLive
  BY <1>21, <1>0, SameRecords DEF PublishLive
<1>22. CASE StepBlocked
  BY <1>22, <1>0, SameRecords, StartRollbackWhere DEF StepBlocked
<1>23. ASSUME NEW f \in Files, KeepFile(f) PROVE FilesPhased'
  BY <1>23, <1>0, SameRecords DEF KeepFile
<1>24. ASSUME NEW f \in Files, RemoveIntent(f) PROVE FilesPhased'
  BY <1>24, <1>0, AppendingSteps, RecordKinds DEF Appends, RemoveIntent, StageFile, RemoveFile, RestoreFile, PendingReceipt, Committing, RollingBack, RemoveDirectory, Header, Has, FileKinds, TypeInv, PhaseOK, OwnedBy
<1>25. ASSUME NEW f \in Files, SkipIdentical(f) PROVE FilesPhased'
  BY <1>25, <1>0, SameRecords DEF SkipIdentical
<1>26. ASSUME NEW f \in Files, StageIntent(f) PROVE FilesPhased'
  BY <1>26, <1>0, AppendingSteps, RecordKinds DEF Appends, StageIntent, StageFile, RemoveFile, RestoreFile, PendingReceipt, Committing, RollingBack, RemoveDirectory, Header, Has, FileKinds, TypeInv, PhaseOK, OwnedBy
<1> HIDE DEF FilesPhased
<1> QED BY <1>1, <1>2, <1>3, <1>4, <1>5, <1>6, <1>7, <1>8, <1>9, <1>10, <1>11, <1>12, <1>13, <1>14, <1>15, <1>16, <1>17, <1>18, <1>19, <1>20, <1>21, <1>22, <1>23, <1>24, <1>25, <1>26 DEF Transact

(* ... rollback ...                                                         *)
LEMMA RollbackFilesPhased ==
  ASSUME TypeInv, Bound, Books, Covered, Accepted, FilesPhased, Rollback
  PROVE  FilesPhased'
<1>0. TypeOK
  BY DEF TypeInv
<1> USE DEF FilesPhased, Forward, GoingBack, Early, Working, Ending, FilePhases, RemovePhases, Replacing
<1> USE DEF disk, files, journal, work, plan, bounds, history, Refuse
<1>1. CASE MarkRollingBack
  BY <1>1, <1>0 DEF MarkRollingBack
<1>2. CASE ValidateRollback
  BY <1>2, <1>0, SameRecords DEF ValidateRollback
<1>3. CASE UndoDone
  BY <1>3, <1>0, SameRecords DEF UndoDone
<1>4. CASE RestoreDone
  BY <1>4, <1>0, SameRecords DEF RestoreDone
<1>5. CASE UndoStaged
  BY <1>5, <1>0, SameRecords DEF UndoStaged
<1>6. CASE UndoRoot
  BY <1>6, <1>0, SameRecords DEF UndoRoot
<1>7. CASE RestoreReceipt
  BY <1>7, <1>0, SameRecords DEF RestoreReceipt
<1>8. CASE DropStagedReceipts
  BY <1>8, <1>0, SameRecords DEF DropStagedReceipts
<1>9. ASSUME NEW f \in Files, UndoFile(f) PROVE FilesPhased'
  BY <1>9, <1>0, SameRecords DEF UndoFile
<1>10. ASSUME NEW f \in Files, RestoreStep(f) PROVE FilesPhased'
  BY <1>10, <1>0, SameRecords DEF RestoreStep
<1> HIDE DEF FilesPhased
<1> QED BY <1>1, <1>2, <1>3, <1>4, <1>5, <1>6, <1>7, <1>8, <1>9, <1>10 DEF Rollback

(* ... cleanup ...                                                          *)
LEMMA CleanupFilesPhased ==
  ASSUME TypeInv, Bound, Books, Covered, Accepted, FilesPhased, Cleanup
  PROVE  FilesPhased'
<1>0. TypeOK
  BY DEF TypeInv
<1> USE DEF FilesPhased, Forward, GoingBack, Early, Working, Ending, FilePhases, RemovePhases, Replacing
<1> USE DEF disk, files, journal, work, plan, bounds, history, Refuse
<1>1. CASE Clean
  BY <1>1, <1>0, SameRecords DEF Clean
<1>2. CASE DropDestination
  BY <1>2, <1>0, SameRecords DEF DropDestination
<1>3. CASE DropReceipts
  BY <1>3, <1>0, SameRecords DEF DropReceipts
<1>4. CASE DropDeleted
  BY <1>4, <1>0, SameRecords DEF DropDeleted
<1>5. CASE DropJournal
  BY <1>5, <1>0, SameRecords DEF DropJournal
<1>6. CASE DropState
  BY <1>6, <1>0, SameRecords DEF DropState
<1>7. CASE DropRoot
  BY <1>7, <1>0, SameRecords DEF DropRoot
<1>8. ASSUME NEW f \in Files, Sweep(f) PROVE FilesPhased'
  BY <1>8, <1>0, SameRecords DEF Sweep
<1> HIDE DEF FilesPhased
<1> QED BY <1>1, <1>2, <1>3, <1>4, <1>5, <1>6, <1>7, <1>8 DEF Cleanup

(* ... and recovery have no such pass ...                                   *)
LEMMA RecoveryFilesPhased ==
  ASSUME TypeInv, Bound, Books, Covered, Accepted, FilesPhased, Recovery
  PROVE  FilesPhased'
<1>0. TypeOK
  BY DEF TypeInv
<1> USE DEF FilesPhased, Forward, GoingBack, Early, Working, Ending, FilePhases, RemovePhases, Replacing
<1> USE DEF disk, files, journal, work, plan, bounds, history, Refuse
<1>1. CASE RecoverRefuses
  BY <1>1, <1>0, SameRecords DEF RecoverRefuses
<1>2. CASE RecoverEmpty
  BY <1>2, <1>0, SameRecords DEF RecoverEmpty
<1>3. CASE RecoverDone
  BY <1>3, <1>0, SameRecords DEF RecoverDone
<1>4. CASE RecoverInstall
  BY <1>4, <1>0, SameRecords DEF RecoverInstall, Recover, UpgradeDecision
<1>5. CASE RecoverUpgrade
  BY <1>5, <1>0, SameRecords DEF RecoverUpgrade, Recover, UpgradeDecision
<1>6. CASE RecoverUninstall
  BY <1>6, <1>0, SameRecords DEF RecoverUninstall, Recover, UpgradeDecision
<1>7. CASE Retry
  BY <1>7, <1>0, SameRecords DEF Retry
<1> HIDE DEF FilesPhased
<1> QED BY <1>1, <1>2, <1>3, <1>4, <1>5, <1>6, <1>7 DEF Recovery

(* ... and neither has what fails.                                          *)
LEMMA FailureFilesPhased ==
  ASSUME TypeInv, Bound, Books, Covered, Accepted, FilesPhased, Failure
  PROVE  FilesPhased'
<1>0. TypeOK
  BY DEF TypeInv
<1> USE DEF FilesPhased, Forward, GoingBack, Early, Working, Ending, FilePhases, RemovePhases, Replacing
<1> USE DEF disk, files, journal, work, plan, bounds, history, Refuse
<1>1. CASE HeaderFails
  BY <1>1, <1>0, SameRecords DEF HeaderFails
<1>2. CASE WriteReceiptFails
  BY <1>2, <1>0, SameRecords, StartRollbackWhere DEF WriteReceiptFails
<1>3. CASE StepFails
  BY <1>3, <1>0, SameRecords, StartRollbackWhere DEF StepFails
<1>4. CASE Crash
  BY <1>4, <1>0, SameRecords DEF Crash
<1> HIDE DEF FilesPhased
<1> QED BY <1>1, <1>2, <1>3, <1>4 DEF Failure

(* The other records belong to their phases going forward ...               *)
LEMMA TransactMarksPhased ==
  ASSUME TypeInv, Bound, Books, Covered, Accepted, MarksPhased, Transact
  PROVE  MarksPhased'
<1>0. TypeOK
  BY DEF TypeInv
<1> USE DEF MarksPhased, Forward, GoingBack, Early, Working, Ending, FilePhases, RemovePhases, Replacing, Books, KnownBound
<1> USE DEF disk, files, journal, work, plan, bounds, history, Refuse
<1>1. CASE CreateJournal
  BY <1>1, <1>0, SameRecords DEF CreateJournal
<1>2. CASE WriteHeader
  <2>1. Logged' = {Header(op, rcpt["live"])} /\ pc' = "destination"
    BY <1>2 DEF WriteHeader, Logged
  <2> QED BY <2>1, RecordKinds
<1>3. CASE MakeDestination
  BY <1>3, <1>0, SameRecords, StartRollbackWhere DEF MakeDestination
<1>4. CASE MoveAside
  BY <1>4, <1>0, SameRecords DEF MoveAside
<1>5. CASE MoveBack
  BY <1>5, <1>0, SameRecords, StartRollbackWhere DEF MoveBack
<1>6. CASE RemovesDone
  BY <1>6, <1>0, SameRecords DEF RemovesDone
<1>7. CASE RootIntent
  BY <1>7, <1>0, AppendingSteps, RecordKinds, KnownLogged DEF Appends, RootIntent, StageFile, RemoveFile, RestoreFile, PendingReceipt, Committing, RollingBack, RemoveDirectory, Header, Books, PlanBound, OpenReceipts
<1>8. CASE MakeRoot
  BY <1>8, <1>0, SameRecords DEF MakeRoot
<1>9. CASE StageCopy
  BY <1>9, <1>0, SameRecords DEF StageCopy
<1>10. CASE ReplaceIntent
  BY <1>10, <1>0, AppendingSteps, RecordKinds, KnownLogged DEF Appends, ReplaceIntent, StageFile, RemoveFile, RestoreFile, PendingReceipt, Committing, RollingBack, RemoveDirectory, Header, Books, PlanBound, OpenReceipts
<1>11. CASE PublishIntent
  BY <1>11, <1>0, AppendingSteps, RecordKinds, KnownLogged DEF Appends, PublishIntent, StageFile, RemoveFile, RestoreFile, PendingReceipt, Committing, RollingBack, RemoveDirectory, Header, Books, PlanBound, OpenReceipts
<1>12. CASE Publish
  BY <1>12, <1>0, SameRecords DEF Publish
<1>13. CASE VerifyPublished
  BY <1>13, <1>0, SameRecords DEF VerifyPublished
<1>14. CASE ApplyDone
  BY <1>14, <1>0, SameRecords DEF ApplyDone
<1>15. CASE BindReceipt
  BY <1>15, <1>0, AppendingSteps, RecordKinds, KnownLogged DEF Appends, BindReceipt, StageFile, RemoveFile, RestoreFile, PendingReceipt, Committing, RollingBack, RemoveDirectory, Header, Books, PlanBound, OpenReceipts
<1>16. CASE CreateReceipt
  BY <1>16, <1>0, SameRecords DEF CreateReceipt
<1>17. CASE WriteReceipt
  BY <1>17, <1>0, SameRecords DEF WriteReceipt
<1>18. CASE PublishReceipt
  BY <1>18, <1>0, SameRecords DEF PublishReceipt
<1>19. CASE Commit
  BY <1>19, <1>0, AppendingSteps, RecordKinds, KnownLogged DEF Appends, Commit, StageFile, RemoveFile, RestoreFile, PendingReceipt, Committing, RollingBack, RemoveDirectory, Header, Books, PlanBound, OpenReceipts
<1>20. CASE Cutover
  BY <1>20, <1>0, SameRecords DEF Cutover, Operations, TypeOK
<1>21. CASE PublishLive
  BY <1>21, <1>0, SameRecords DEF PublishLive
<1>22. CASE StepBlocked
  BY <1>22, <1>0, SameRecords, StartRollbackWhere DEF StepBlocked
<1>23. ASSUME NEW f \in Files, KeepFile(f) PROVE MarksPhased'
  BY <1>23, <1>0, SameRecords DEF KeepFile
<1>24. ASSUME NEW f \in Files, RemoveIntent(f) PROVE MarksPhased'
  BY <1>24, <1>0, AppendingSteps, RecordKinds, KnownLogged DEF Appends, RemoveIntent, StageFile, RemoveFile, RestoreFile, PendingReceipt, Committing, RollingBack, RemoveDirectory, Header, Books, PlanBound, OpenReceipts
<1>25. ASSUME NEW f \in Files, SkipIdentical(f) PROVE MarksPhased'
  BY <1>25, <1>0, SameRecords DEF SkipIdentical
<1>26. ASSUME NEW f \in Files, StageIntent(f) PROVE MarksPhased'
  BY <1>26, <1>0, AppendingSteps, RecordKinds, KnownLogged DEF Appends, StageIntent, StageFile, RemoveFile, RestoreFile, PendingReceipt, Committing, RollingBack, RemoveDirectory, Header, Books, PlanBound, OpenReceipts
<1> HIDE DEF MarksPhased
<1> QED BY <1>1, <1>2, <1>3, <1>4, <1>5, <1>6, <1>7, <1>8, <1>9, <1>10, <1>11, <1>12, <1>13, <1>14, <1>15, <1>16, <1>17, <1>18, <1>19, <1>20, <1>21, <1>22, <1>23, <1>24, <1>25, <1>26 DEF Transact

(* ... and back ...                                                         *)
LEMMA RollbackMarksPhased ==
  ASSUME TypeInv, Bound, Books, Covered, Accepted, MarksPhased, Rollback
  PROVE  MarksPhased'
<1>0. TypeOK
  BY DEF TypeInv
<1> USE DEF MarksPhased, Forward, GoingBack, Early, Working, Ending, FilePhases, RemovePhases, Replacing, Books, KnownBound
<1> USE DEF disk, files, journal, work, plan, bounds, history, Refuse
<1>1. CASE MarkRollingBack
  BY <1>1, <1>0 DEF MarkRollingBack
<1>2. CASE ValidateRollback
  BY <1>2, <1>0, SameRecords DEF ValidateRollback
<1>3. CASE UndoDone
  BY <1>3, <1>0, SameRecords DEF UndoDone
<1>4. CASE RestoreDone
  BY <1>4, <1>0, SameRecords DEF RestoreDone
<1>5. CASE UndoStaged
  BY <1>5, <1>0, SameRecords DEF UndoStaged
<1>6. CASE UndoRoot
  BY <1>6, <1>0, SameRecords DEF UndoRoot
<1>7. CASE RestoreReceipt
  BY <1>7, <1>0, SameRecords DEF RestoreReceipt
<1>8. CASE DropStagedReceipts
  BY <1>8, <1>0, SameRecords DEF DropStagedReceipts
<1>9. ASSUME NEW f \in Files, UndoFile(f) PROVE MarksPhased'
  BY <1>9, <1>0, SameRecords DEF UndoFile
<1>10. ASSUME NEW f \in Files, RestoreStep(f) PROVE MarksPhased'
  BY <1>10, <1>0, SameRecords DEF RestoreStep
<1> HIDE DEF MarksPhased
<1> QED BY <1>1, <1>2, <1>3, <1>4, <1>5, <1>6, <1>7, <1>8, <1>9, <1>10 DEF Rollback

(* ... in cleanup ...                                                       *)
LEMMA CleanupMarksPhased ==
  ASSUME TypeInv, Bound, Books, Covered, Accepted, MarksPhased, Cleanup
  PROVE  MarksPhased'
<1>0. TypeOK
  BY DEF TypeInv
<1> USE DEF MarksPhased, Forward, GoingBack, Early, Working, Ending, FilePhases, RemovePhases, Replacing, Books, KnownBound
<1> USE DEF disk, files, journal, work, plan, bounds, history, Refuse
<1>1. CASE Clean
  BY <1>1, <1>0, SameRecords DEF Clean
<1>2. CASE DropDestination
  BY <1>2, <1>0, SameRecords DEF DropDestination
<1>3. CASE DropReceipts
  BY <1>3, <1>0, SameRecords DEF DropReceipts
<1>4. CASE DropDeleted
  BY <1>4, <1>0, SameRecords DEF DropDeleted
<1>5. CASE DropJournal
  BY <1>5, <1>0, SameRecords DEF DropJournal
<1>6. CASE DropState
  BY <1>6, <1>0, SameRecords DEF DropState
<1>7. CASE DropRoot
  BY <1>7, <1>0, SameRecords DEF DropRoot
<1>8. ASSUME NEW f \in Files, Sweep(f) PROVE MarksPhased'
  BY <1>8, <1>0, SameRecords DEF Sweep
<1> HIDE DEF MarksPhased
<1> QED BY <1>1, <1>2, <1>3, <1>4, <1>5, <1>6, <1>7, <1>8 DEF Cleanup

(* ... in recovery, which marks only what is not marked yet ...             *)
LEMMA RecoveryMarksPhased ==
  ASSUME TypeInv, Bound, Books, Covered, Accepted, MarksPhased, Recovery
  PROVE  MarksPhased'
<1>0. TypeOK
  BY DEF TypeInv
<1> USE DEF MarksPhased, Forward, GoingBack, Early, Working, Ending, FilePhases, RemovePhases, Replacing, Books, KnownBound
<1> USE DEF disk, files, journal, work, plan, bounds, history, Refuse
<1>1. CASE RecoverRefuses
  BY <1>1, <1>0, SameRecords DEF RecoverRefuses
<1>2. CASE RecoverEmpty
  BY <1>2, <1>0, SameRecords DEF RecoverEmpty
<1>3. CASE RecoverDone
  BY <1>3, <1>0, SameRecords DEF RecoverDone
<1>4. CASE RecoverInstall
  BY <1>4, <1>0, SameRecords DEF RecoverInstall, Recover
<1>5. CASE RecoverUpgrade
  <2>1. /\ UNCHANGED records /\ pc' \in {"validate", "refused", "mark", "clean"}
        /\ records # <<>> /\ (pc' = "mark" => ~IsRollingBack(records))
    BY <1>5 DEF RecoverUpgrade, Recover, UpgradeDecision
  <2>2. pc' = "mark" => RollingBack \notin Logged
    BY <2>1 DEF Accepted, ReadJournal, RollbackMarkerOK, IsRollingBack, Logged
  <2> QED BY <2>1, <2>2, SameRecords
<1>6. CASE RecoverUninstall
  BY <1>6, <1>0, SameRecords DEF RecoverUninstall, Recover
<1>7. CASE Retry
  BY <1>7, <1>0, SameRecords DEF Retry
<1> HIDE DEF MarksPhased
<1> QED BY <1>1, <1>2, <1>3, <1>4, <1>5, <1>6, <1>7 DEF Recovery

(* ... and in failures.                                                     *)
LEMMA FailureMarksPhased ==
  ASSUME TypeInv, Bound, Books, Covered, Accepted, MarksPhased, Failure
  PROVE  MarksPhased'
<1>0. TypeOK
  BY DEF TypeInv
<1> USE DEF MarksPhased, Forward, GoingBack, Early, Working, Ending, FilePhases, RemovePhases, Replacing, Books, KnownBound
<1> USE DEF disk, files, journal, work, plan, bounds, history, Refuse
<1>1. CASE HeaderFails
  BY <1>1, <1>0, SameRecords DEF HeaderFails
<1>2. CASE WriteReceiptFails
  BY <1>2, <1>0, SameRecords, StartRollbackWhere DEF WriteReceiptFails
<1>3. CASE StepFails
  BY <1>3, <1>0, SameRecords, StartRollbackWhere DEF StepFails
<1>4. CASE Crash
  BY <1>4, <1>0, SameRecords DEF Crash
<1> HIDE DEF MarksPhased
<1> QED BY <1>1, <1>2, <1>3, <1>4 DEF Failure

(* Recovery takes an undecided transaction back, never forward.             *)
LEMMA UndecidedGoesBack ==
  ASSUME TypeInv, Books, result = "none"
  PROVE  /\ RecoverInstall => pc' = "undo" /\ op = "install"
         /\ RecoverUpgrade => pc' \in {"validate", "refused", "mark"} /\ op = "upgrade"
         /\ RecoverUninstall => pc' \in {"restore", "refused"} /\ op = "uninstall"
<1>1. TypeOK
  BY DEF TypeInv
<1>2. records # <<>> => records[1].op = op /\ ((op = "install") = (before.live = None))
  BY DEF Books, PlanBound, Header
<1>3. ASSUME RecoverInstall PROVE pc' = "undo" /\ op = "install"
  BY <1>1, <1>2, <1>3 DEF RecoverInstall, Recover, Books, OpenReceipts
<1>4. ASSUME RecoverUpgrade PROVE pc' \in {"validate", "refused", "mark"} /\ op = "upgrade"
  <2>1. op = "upgrade" /\ before.live # None
    BY <1>1, <1>2, <1>4 DEF RecoverUpgrade
  <2>2. ~RollForward
    <3>1. LastIs(Committing) => rcpt["pending"] = target
      BY <2>1 DEF Books, OpenReceipts
    <3>2. target # None
      BY <1>1, JournalAssumption DEF TypeOK
    <3> QED BY <1>1, <3>1, <3>2, ReadsBooks DEF RollForward, TypeOK
  <2> QED BY <1>4, <2>1, <2>2 DEF RecoverUpgrade, Recover, UpgradeDecision
<1>5. ASSUME RecoverUninstall PROVE pc' \in {"restore", "refused"} /\ op = "uninstall"
  BY <1>1, <1>2, <1>5 DEF RecoverUninstall, Recover, Books, OpenReceipts
<1> QED BY <1>3, <1>4, <1>5

(* The receipt files beside the live one are for the journal to explain ... *)
LEMMA TransactSpares ==
  ASSUME TypeInv, Bound, Books, Spares, Transact
  PROVE  Spares'
<1>0. TypeOK
  BY DEF TypeInv
<1> USE DEF Spares, Forward, GoingBack, Early, Working, Ending, FilePhases, SpareNone, Slots, PlanBound, StorageBound, KnownBound, OpenReceipts, SpareReceipts, CommittedReceipts, Books
<1> USE DEF disk, files, journal, work, plan, bounds, history, Refuse
<1>1. CASE CreateJournal
  BY <1>1, <1>0, SameRecords DEF CreateJournal
<1>2. CASE WriteHeader
  BY <1>2, <1>0, SameRecords DEF WriteHeader
<1>3. CASE MakeDestination
  BY <1>3, <1>0, SameRecords, StartRollbackWhere DEF MakeDestination
<1>4. CASE MoveAside
  BY <1>4, <1>0, SameRecords DEF MoveAside
<1>5. CASE MoveBack
  BY <1>5, <1>0, SameRecords, StartRollbackWhere DEF MoveBack
<1>6. CASE RemovesDone
  BY <1>6, <1>0, SameRecords DEF RemovesDone
<1>7. CASE RootIntent
  BY <1>7, <1>0, AppendingSteps, RecordKinds DEF Appends, RootIntent, StageFile, RemoveFile, RestoreFile, PendingReceipt, Committing, RollingBack, RemoveDirectory, Header
<1>8. CASE MakeRoot
  BY <1>8, <1>0, SameRecords DEF MakeRoot
<1>9. CASE StageCopy
  BY <1>9, <1>0, SameRecords DEF StageCopy
<1>10. CASE ReplaceIntent
  BY <1>10, <1>0, AppendingSteps, RecordKinds DEF Appends, ReplaceIntent, StageFile, RemoveFile, RestoreFile, PendingReceipt, Committing, RollingBack, RemoveDirectory, Header
<1>11. CASE PublishIntent
  BY <1>11, <1>0, AppendingSteps, RecordKinds DEF Appends, PublishIntent, StageFile, RemoveFile, RestoreFile, PendingReceipt, Committing, RollingBack, RemoveDirectory, Header
<1>12. CASE Publish
  BY <1>12, <1>0, SameRecords DEF Publish
<1>13. CASE VerifyPublished
  BY <1>13, <1>0, SameRecords DEF VerifyPublished
<1>14. CASE ApplyDone
  BY <1>14, <1>0, SameRecords DEF ApplyDone
<1>15. CASE BindReceipt
  BY <1>15, <1>0, AppendingSteps, RecordKinds DEF Appends, BindReceipt, StageFile, RemoveFile, RestoreFile, PendingReceipt, Committing, RollingBack, RemoveDirectory, Header
<1>16. CASE CreateReceipt
  BY <1>16, <1>0, SameRecords DEF CreateReceipt
<1>17. CASE WriteReceipt
  BY <1>17, <1>0, SameRecords DEF WriteReceipt
<1>18. CASE PublishReceipt
  BY <1>18, <1>0, SameRecords DEF PublishReceipt
<1>19. CASE Commit
  BY <1>19, <1>0, AppendingSteps, RecordKinds DEF Appends, Commit, StageFile, RemoveFile, RestoreFile, PendingReceipt, Committing, RollingBack, RemoveDirectory, Header
<1>20. CASE Cutover
  <2>1. UNCHANGED <<jfile, op, records>> /\ jfile = "journal" /\ pc' \in {"clean", "publishLive"}
        /\ (op = "upgrade" => pc' = "publishLive")
    BY <1>20, <1>0 DEF Cutover, Operations, TypeOK
  <2> QED BY <2>1
<1>21. CASE PublishLive
  <2>1. UNCHANGED <<jfile, op, records>> /\ jfile = "journal" /\ pc' = "clean" /\ result' = "committed"
    BY <1>21, <1>0 DEF PublishLive
  <2> QED BY <2>1
<1>22. CASE StepBlocked
  BY <1>22, <1>0, SameRecords, StartRollbackWhere DEF StepBlocked
<1>23. ASSUME NEW f \in Files, KeepFile(f) PROVE Spares'
  BY <1>23, <1>0, SameRecords DEF KeepFile
<1>24. ASSUME NEW f \in Files, RemoveIntent(f) PROVE Spares'
  BY <1>24, <1>0, AppendingSteps, RecordKinds DEF Appends, RemoveIntent, StageFile, RemoveFile, RestoreFile, PendingReceipt, Committing, RollingBack, RemoveDirectory, Header
<1>25. ASSUME NEW f \in Files, SkipIdentical(f) PROVE Spares'
  BY <1>25, <1>0, SameRecords DEF SkipIdentical
<1>26. ASSUME NEW f \in Files, StageIntent(f) PROVE Spares'
  BY <1>26, <1>0, AppendingSteps, RecordKinds DEF Appends, StageIntent, StageFile, RemoveFile, RestoreFile, PendingReceipt, Committing, RollingBack, RemoveDirectory, Header
<1> HIDE DEF Spares
<1> QED BY <1>1, <1>2, <1>3, <1>4, <1>5, <1>6, <1>7, <1>8, <1>9, <1>10, <1>11, <1>12, <1>13, <1>14, <1>15, <1>16, <1>17, <1>18, <1>19, <1>20, <1>21, <1>22, <1>23, <1>24, <1>25, <1>26 DEF Transact

(* ... the rollback of an upgrade removes them ...                          *)
LEMMA RollbackSpares ==
  ASSUME TypeInv, Bound, Books, Spares, Rollback
  PROVE  Spares'
<1>0. TypeOK
  BY DEF TypeInv
<1> USE DEF Spares, Forward, GoingBack, Early, Working, Ending, FilePhases, SpareNone, Slots, PlanBound, StorageBound, KnownBound, OpenReceipts, SpareReceipts, CommittedReceipts, Books
<1> USE DEF disk, files, journal, work, plan, bounds, history, Refuse
<1>1. CASE MarkRollingBack
  BY <1>1, <1>0 DEF MarkRollingBack
<1>2. CASE ValidateRollback
  BY <1>2, <1>0, SameRecords DEF ValidateRollback
<1>3. CASE UndoDone
  BY <1>3, <1>0, SameRecords DEF UndoDone
<1>4. CASE RestoreDone
  BY <1>4, <1>0, SameRecords DEF RestoreDone
<1>5. CASE UndoStaged
  BY <1>5, <1>0, SameRecords DEF UndoStaged
<1>6. CASE UndoRoot
  BY <1>6, <1>0, SameRecords DEF UndoRoot
<1>7. CASE RestoreReceipt
  BY <1>7, <1>0, SameRecords DEF RestoreReceipt, Moved, TypeOK
<1>8. CASE DropStagedReceipts
  BY <1>8, <1>0, SameRecords DEF DropStagedReceipts, TypeOK
<1>9. ASSUME NEW f \in Files, UndoFile(f) PROVE Spares'
  BY <1>9, <1>0, SameRecords DEF UndoFile
<1>10. ASSUME NEW f \in Files, RestoreStep(f) PROVE Spares'
  BY <1>10, <1>0, SameRecords DEF RestoreStep
<1> HIDE DEF Spares
<1> QED BY <1>1, <1>2, <1>3, <1>4, <1>5, <1>6, <1>7, <1>8, <1>9, <1>10 DEF Rollback

(* ... cleanup removes them before the journal ...                          *)
LEMMA CleanupSpares ==
  ASSUME TypeInv, Bound, Books, Spares, Cleanup
  PROVE  Spares'
<1>0. TypeOK
  BY DEF TypeInv
<1> USE DEF Spares, Forward, GoingBack, Early, Working, Ending, FilePhases, SpareNone, Slots, PlanBound, StorageBound, KnownBound, OpenReceipts, SpareReceipts, CommittedReceipts, Books
<1> USE DEF disk, files, journal, work, plan, bounds, history, Refuse
<1>1. CASE Clean
  BY <1>1, <1>0, SameRecords DEF Clean, Dropped, TypeOK
<1>2. CASE DropDestination
  BY <1>2, <1>0, SameRecords DEF DropDestination
<1>3. CASE DropReceipts
  <2>1. /\ pc = "dropReceipts" /\ jfile = "journal" /\ records # <<>> /\ UNCHANGED <<records, op, result>>
        /\ pc' \in {"refused", "dropRoot", "dropDeleted", "dropJournal"}
        /\ \/ jfile' = "journal"
           \/ jfile' = "done" /\ op = "uninstall" /\ rcpt' = rcpt
    BY <1>3, <1>0 DEF DropReceipts, Operations, TypeOK
  <2> QED BY <2>1
<1>4. CASE DropDeleted
  BY <1>4, <1>0, SameRecords DEF DropDeleted, Dropped, TypeOK
<1>5. CASE DropJournal
  BY <1>5, <1>0, SameRecords DEF DropJournal
<1>6. CASE DropState
  BY <1>6, <1>0, SameRecords DEF DropState
<1>7. CASE DropRoot
  BY <1>7, <1>0, SameRecords DEF DropRoot
<1>8. ASSUME NEW f \in Files, Sweep(f) PROVE Spares'
  BY <1>8, <1>0, SameRecords DEF Sweep
<1> HIDE DEF Spares
<1> QED BY <1>1, <1>2, <1>3, <1>4, <1>5, <1>6, <1>7, <1>8 DEF Cleanup

(* ... recovery does not add any ...                                        *)
LEMMA RecoverySpares ==
  ASSUME TypeInv, Bound, Books, Spares, Recovery
  PROVE  Spares'
<1>0. TypeOK
  BY DEF TypeInv
<1> USE DEF Spares, Forward, GoingBack, Early, Working, Ending, FilePhases, SpareNone, Slots, PlanBound, StorageBound, KnownBound, OpenReceipts, SpareReceipts, CommittedReceipts, Books
<1> USE DEF disk, files, journal, work, plan, bounds, history, Refuse
<1>1. CASE RecoverRefuses
  BY <1>1, <1>0, SameRecords DEF RecoverRefuses
<1>2. CASE RecoverEmpty
  BY <1>2, <1>0, SameRecords DEF RecoverEmpty, Dropped, TypeOK
<1>3. CASE RecoverDone
  BY <1>3, <1>0, SameRecords DEF RecoverDone
<1>4. CASE RecoverInstall
  <2>1. /\ UNCHANGED <<jfile, rcpt, records, result>> /\ jfile = "journal"
        /\ pc' \in {"clean", "undo", "refused", "validate", "mark", "restore"}
        /\ result = "none" => pc' # "clean"
    BY <1>4, UndecidedGoesBack DEF RecoverInstall, Recover, UpgradeDecision
  <2> QED BY <2>1
<1>5. CASE RecoverUpgrade
  <2>1. /\ UNCHANGED <<jfile, rcpt, records, result>> /\ jfile = "journal"
        /\ pc' \in {"clean", "undo", "refused", "validate", "mark", "restore"}
        /\ result = "none" => pc' # "clean"
    BY <1>5, UndecidedGoesBack DEF RecoverUpgrade, Recover, UpgradeDecision
  <2> QED BY <2>1
<1>6. CASE RecoverUninstall
  <2>1. /\ UNCHANGED <<jfile, rcpt, records, result>> /\ jfile = "journal"
        /\ pc' \in {"clean", "undo", "refused", "validate", "mark", "restore"}
        /\ result = "none" => pc' # "clean"
    BY <1>6, UndecidedGoesBack DEF RecoverUninstall, Recover, UpgradeDecision
  <2> QED BY <2>1
<1>7. CASE Retry
  BY <1>7, <1>0, SameRecords DEF Retry
<1> HIDE DEF Spares
<1> QED BY <1>1, <1>2, <1>3, <1>4, <1>5, <1>6, <1>7 DEF Recovery

(* ... nor does a failure.                                                  *)
LEMMA FailureSpares ==
  ASSUME TypeInv, Bound, Books, Spares, Failure
  PROVE  Spares'
<1>0. TypeOK
  BY DEF TypeInv
<1> USE DEF Spares, Forward, GoingBack, Early, Working, Ending, FilePhases, SpareNone, Slots, PlanBound, StorageBound, KnownBound, OpenReceipts, SpareReceipts, CommittedReceipts, Books
<1> USE DEF disk, files, journal, work, plan, bounds, history, Refuse
<1>1. CASE HeaderFails
  BY <1>1, <1>0, SameRecords DEF HeaderFails
<1>2. CASE WriteReceiptFails
  BY <1>2, <1>0, SameRecords, StartRollbackWhere DEF WriteReceiptFails
<1>3. CASE StepFails
  BY <1>3, <1>0, SameRecords, StartRollbackWhere DEF StepFails
<1>4. CASE Crash
  BY <1>4, <1>0, SameRecords DEF Crash
<1> HIDE DEF Spares
<1> QED BY <1>1, <1>2, <1>3, <1>4 DEF Failure

-----------------------------------------------------------------------------
(* What the reader makes of a journal with one more record.                 *)
LEMMA ReaderAppends ==
  ASSUME NEW recs \in Seq(Record), recs # <<>>, ReadJournal(recs), NEW r \in Record, NEW L,
         L = {recs[i] : i \in 1 .. Len(recs)}, r.kind # "Header",
         RollingBack \notin L, r = RollingBack => recs[1].op = "upgrade",
         recs[1].op = "uninstall" =>
           /\ Committing \notin L
           /\ \/ r = Committing
              \/ /\ r.kind = "RestoreFile"
                 /\ \A x \in L : x.kind \in FileKinds => x.file # r.file,
         recs[1].op # "uninstall" =>
           LET earlier == {x \in L : x.kind \in FileKinds /\ x.file = r.file}
               kinds   == {x.kind : x \in earlier}
           IN  /\ r.kind = "StageFile" => earlier = {}
               /\ r.kind = "RestoreFile" => recs[1].op = "upgrade" /\ kinds \subseteq {"StageFile"}
               /\ r.kind = "RemoveFile" => /\ "RemoveFile" \notin kinds
                                           /\ StageFile(r.file, r.sha) \in earlier
  PROVE  ReadJournal(Append(recs, r))
<1> DEFINE more == Append(recs, r)
           n    == Len(recs)
<1>1. /\ more \in Seq(Record) /\ Len(more) = n + 1 /\ n \in Nat /\ n >= 1 /\ more # <<>>
      /\ \A i \in 1 .. n : more[i] = recs[i]
      /\ more[n + 1] = r /\ 1 \in 1 .. n /\ more[1] = recs[1]
  OBVIOUS
<1>2. \A i \in 1 .. n : Before(more, i) = Before(recs, i)
  <2> SUFFICES ASSUME NEW i \in 1 .. n PROVE Before(more, i) = Before(recs, i)
    OBVIOUS
  <2>1. \A j \in 1 .. (i - 1) : more[j] = recs[j]
    BY <1>1
  <2> QED BY <2>1 DEF Before
<1>3. Before(more, n + 1) = L
  <2>1. (n + 1) - 1 = n
    BY <1>1
  <2> QED BY <1>1, <2>1 DEF Before
<1>4. \A i \in 2 .. Len(more) : i \in 2 .. n \/ i = n + 1
  BY <1>1
<1> HIDE DEF more
<1>5. \A i \in 2 .. Len(more) : more[i].kind # "Header"
  BY <1>1, <1>4 DEF ReadJournal
<1>6. RollbackMarkerOK(more)
  BY <1>1 DEF RollbackMarkerOK
<1>7. recs[1].op = "uninstall" => UninstallOrderOK(more)
  <2> SUFFICES ASSUME recs[1].op = "uninstall", NEW i \in 2 .. Len(more)
               PROVE  \/ /\ more[i].kind = "RestoreFile"
                         /\ \A j \in 2 .. (i - 1) : more[j].file # more[i].file
                      \/ more[i] = Committing /\ i = Len(more)
    BY DEF UninstallOrderOK
  <2>1. \A j \in 2 .. n : recs[j].kind = "RestoreFile" /\ recs[j] \in L
    BY <1>1 DEF ReadJournal, UninstallOrderOK
  <2>2. CASE i \in 2 .. n
    BY <1>1, <2>1, <2>2 DEF ReadJournal, UninstallOrderOK
  <2>3. CASE i = n + 1
    <3>1. \A j \in 2 .. (i - 1) : more[j] = recs[j] /\ j \in 2 .. n
      BY <1>1, <2>3
    <3> QED BY <1>1, <2>1, <2>3, <3>1 DEF FileKinds
  <2> QED BY <1>4, <2>2, <2>3
<1>8. recs[1].op # "uninstall" => FileOrderOK(more)
  <2> SUFFICES ASSUME recs[1].op # "uninstall", NEW i \in 2 .. Len(more),
                      more[i].kind \in FileKinds
               PROVE  LET x       == more[i]
                          earlier == {e \in Before(more, i) : e.kind \in FileKinds /\ e.file = x.file}
                          kinds   == {e.kind : e \in earlier}
                      IN  CASE x.kind = "StageFile"   -> earlier = {}
                            [] x.kind = "RestoreFile" -> /\ more[1].op = "upgrade"
                                                         /\ kinds \subseteq {"StageFile"}
                            [] x.kind = "RemoveFile"  -> /\ "RemoveFile" \notin kinds
                                                         /\ StageFile(x.file, x.sha) \in earlier
    BY DEF FileOrderOK
  <2>1. CASE i \in 2 .. n
    <3>1. more[i] = recs[i] /\ Before(more, i) = Before(recs, i)
      BY <1>1, <1>2, <2>1
    <3>2. recs[i].kind \in FileKinds
      BY <3>1
    <3>3. FileOrderOK(recs) /\ more[1].op = recs[1].op
      BY <1>1 DEF ReadJournal
    <3>4. LET x       == recs[i]
              earlier == {e \in Before(recs, i) : e.kind \in FileKinds /\ e.file = x.file}
              kinds   == {e.kind : e \in earlier}
          IN  CASE x.kind = "StageFile"   -> earlier = {}
                [] x.kind = "RestoreFile" -> /\ recs[1].op = "upgrade"
                                             /\ kinds \subseteq {"StageFile"}
                [] x.kind = "RemoveFile"  -> /\ "RemoveFile" \notin kinds
                                             /\ StageFile(x.file, x.sha) \in earlier
      BY <2>1, <3>2, <3>3 DEF FileOrderOK
    <3> QED BY <3>1, <3>3, <3>4
  <2>2. CASE i = n + 1
    BY <1>1, <1>3, <2>2 DEF FileKinds
  <2> QED BY <1>4, <2>1, <2>2
<1>9. more # <<>> /\ more[1].kind = "Header" /\ ((more[1].op = "install") = (more[1].previous = None))
  BY <1>1 DEF ReadJournal
<1> QED BY <1>1, <1>5, <1>6, <1>7, <1>8, <1>9 DEF ReadJournal, more

(* The receipt transition of an upgrade with one more record.               *)
LEMMA TransitionAppends ==
  ASSUME NEW recs \in Seq(Record), recs # <<>>, UpgradeReceiptsOK(recs), NEW r \in Record, NEW L,
         L = {recs[i] : i \in 1 .. Len(recs)}, recs[1].kind = "Header", RollingBack \notin L,
         r # RollingBack => /\ Committing \notin L
                            /\ IF r = Committing THEN \E x \in L : x.kind = "PendingReceipt"
                               ELSE \A x \in L : x.kind # "PendingReceipt"
  PROVE  UpgradeReceiptsOK(Append(recs, r))
<1> DEFINE more == Append(recs, r)
           n    == Len(recs)
<1>1. /\ more \in Seq(Record) /\ Len(more) = n + 1 /\ n \in Nat /\ n >= 1 /\ more # <<>>
      /\ \A i \in 1 .. n : more[i] = recs[i]
      /\ more[n + 1] = r /\ 1 \in 1 .. n /\ more[1] = recs[1] /\ n \in 1 .. n
  OBVIOUS
<1>2. ~IsRollingBack(recs) /\ \A i \in 1 .. n : recs[i] \in L /\ recs[i] # RollingBack
  BY <1>1 DEF IsRollingBack
<1> DEFINE bound(s, i) == \E j \in 2 .. (i - 1) : s[j].kind = "PendingReceipt"
<1>3. \A i \in 2 .. n + 1 : bound(more, i) <=> bound(recs, i)
  BY <1>1
<1>4. /\ recs[1].op = "upgrade"
      /\ \A i \in 2 .. n : /\ recs[i] # RollingBack
                           /\ recs[i] = Committing => i = n /\ bound(recs, i)
                           /\ recs[i] # Committing => ~bound(recs, i)
  BY <1>2 DEF UpgradeReceiptsOK
<1>5. IsRollingBack(more) <=> r = RollingBack
  BY <1>1 DEF IsRollingBack, more
<1>6. bound(recs, n + 1) <=> \E x \in L : x.kind = "PendingReceipt"
  <2>1. \A i \in 1 .. n : i = 1 \/ i \in 2 .. n
    BY <1>1
  <2>2. (n + 1) - 1 = n /\ \A i \in 2 .. n : i \in 1 .. n
    BY <1>1
  <2>3. ASSUME NEW x \in L, x.kind = "PendingReceipt" PROVE bound(recs, n + 1)
    <3>1. PICK i \in 1 .. n : x = recs[i]
      OBVIOUS
    <3>2. i \in 2 .. n
      BY <2>1, <2>3, <3>1
    <3> QED BY <2>2, <2>3, <3>1, <3>2
  <2> QED BY <1>2, <2>2, <2>3
<1>7. CASE r = RollingBack
  <2>1. UpgradeReceiptsOK(more) <=>
          /\ more[1].op = "upgrade"
          /\ \A i \in 2 .. n : /\ more[i] # RollingBack
                               /\ more[i] = Committing => i = n /\ bound(more, i)
                               /\ more[i] # Committing => ~bound(more, i)
    BY <1>1, <1>5, <1>7 DEF UpgradeReceiptsOK
  <2> QED BY <1>1, <1>3, <1>4, <2>1
<1>8. CASE r # RollingBack
  <2>1. UpgradeReceiptsOK(more) <=>
          /\ more[1].op = "upgrade"
          /\ \A i \in 2 .. n + 1 : /\ more[i] # RollingBack
                                   /\ more[i] = Committing => i = n + 1 /\ bound(more, i)
                                   /\ more[i] # Committing => ~bound(more, i)
    BY <1>1, <1>5, <1>8 DEF UpgradeReceiptsOK
  <2>2. \A i \in 2 .. n : recs[i] # Committing
    BY <1>2, <1>8
  <2>3. \A i \in 2 .. n : /\ more[i] # RollingBack /\ more[i] # Committing
                          /\ ~bound(more, i)
    BY <1>1, <1>3, <1>4, <2>2
  <2>4. /\ more[n + 1] # RollingBack
        /\ more[n + 1] = Committing => bound(more, n + 1)
        /\ more[n + 1] # Committing => ~bound(more, n + 1)
    BY <1>1, <1>3, <1>6, <1>8
  <2>5. \A i \in 2 .. n + 1 : i \in 2 .. n \/ i = n + 1
    BY <1>1
  <2> QED BY <1>1, <1>4, <2>1, <2>3, <2>4, <2>5
<1> QED BY <1>7, <1>8

(* A record the journal has room for: its operation, the file records       *)
(* before it and the receipt records before it allow it.                    *)
FileRecord(f)  == {r \in Logged : r.kind \in FileKinds /\ r.file = f}
Appendable(r) ==
  /\ r \notin Logged /\ r.kind # "Header" /\ RollingBack \notin Logged
  /\ r = RollingBack => op = "upgrade"
  /\ op = "uninstall" =>
       /\ Committing \notin Logged
       /\ r = Committing \/ (r.kind = "RestoreFile" /\ FileRecord(r.file) = {})
  /\ op # "uninstall" =>
       /\ r.kind = "StageFile" => FileRecord(r.file) = {}
       /\ r.kind = "RestoreFile" => /\ op = "upgrade"
                                   /\ \A x \in FileRecord(r.file) : x.kind = "StageFile"
       /\ r.kind = "RemoveFile" => /\ \A x \in FileRecord(r.file) : x.kind # "RemoveFile"
                                  /\ StageFile(r.file, r.sha) \in Logged
  /\ (op = "upgrade" /\ r # RollingBack) =>
       /\ Committing \notin Logged
       /\ (r = Committing) <=> (\E x \in Logged : x.kind = "PendingReceipt")

(* The reader accepts a journal with one more record that is in its place.  *)
LEMMA OneMore ==
  ASSUME TypeOK, PlanBound, Accepted, NEW r \in Record, records # <<>>, records' = Append(records, r),
         op' = op, Appendable(r)
  PROVE  Accepted'
<1>1. /\ records \in Seq(Record) /\ records[1].op = op /\ records[1].kind = "Header"
      /\ ReadJournal(records) /\ (op = "upgrade" => UpgradeReceiptsOK(records))
  BY DEF TypeOK, PlanBound, Header, Accepted
<1>2. /\ Logged' = Logged \cup {r} /\ Len(records') = Len(records) + 1 /\ records' # <<>>
      /\ records'[1] = records[1]
  BY <1>1, Appended
<1>3. IsFiniteSet(Logged') /\ Cardinality(Logged') = Len(records')
  BY <1>2, FS_AddElement DEF Accepted, Appendable
<1>4. ReadJournal(records')
  <2>1. op = "uninstall" =>
           /\ Committing \notin Logged
           /\ \/ r = Committing
              \/ /\ r.kind = "RestoreFile"
                 /\ \A x \in Logged : x.kind \in FileKinds => x.file # r.file
    BY DEF Appendable, FileRecord
  <2>2. op # "uninstall" =>
         LET earlier == {x \in Logged : x.kind \in FileKinds /\ x.file = r.file}
             kinds   == {x.kind : x \in earlier}
         IN  /\ r.kind = "StageFile" => earlier = {}
             /\ r.kind = "RestoreFile" => op = "upgrade" /\ kinds \subseteq {"StageFile"}
             /\ r.kind = "RemoveFile" => /\ "RemoveFile" \notin kinds
                                         /\ StageFile(r.file, r.sha) \in earlier
    BY DEF Appendable, FileRecord, StageFile, FileKinds
  <2>3. Logged = {records[i] : i \in 1 .. Len(records)}
    BY DEF Logged
  <2>4. r.kind # "Header" /\ RollingBack \notin Logged /\ (r = RollingBack => op = "upgrade")
    BY DEF Appendable
  <2>5. ReadJournal(Append(records, r))
    BY <1>1, <2>1, <2>2, <2>3, <2>4, ReaderAppends
  <2> QED BY <2>5
<1>5. ASSUME op = "upgrade" PROVE UpgradeReceiptsOK(records')
  <2>1. r # RollingBack =>
           /\ Committing \notin Logged
           /\ IF r = Committing THEN \E x \in Logged : x.kind = "PendingReceipt"
              ELSE \A x \in Logged : x.kind # "PendingReceipt"
    BY <1>5 DEF Appendable
  <2>2. Logged = {records[i] : i \in 1 .. Len(records)}
    BY DEF Logged
  <2>3. UpgradeReceiptsOK(Append(records, r))
    BY <1>1, <1>5, <2>1, <2>2, TransitionAppends DEF Appendable
  <2> QED BY <2>3
<1> QED BY <1>2, <1>3, <1>4, <1>5 DEF Accepted

(* A journal of which there is nothing yet, or only the header.             *)
LEMMA NoRecord == records' = <<>> => Accepted'
<1> SUFFICES ASSUME records' = <<>> PROVE Accepted'
  OBVIOUS
<1>1. Logged' = {} /\ Len(records') = 0
  BY DEF Logged
<1> QED BY <1>1, FS_EmptySet DEF Accepted

(* The header is a journal the reader accepts.                              *)
LEMMA FirstRecord ==
  ASSUME NEW o, NEW p, records' = <<Header(o, p)>>, (o = "install") = (p = None), op' = o
  PROVE  Accepted'
<1>1. /\ Len(records') = 1 /\ records'[1] = Header(o, p) /\ records' # <<>>
      /\ \A i \in 1 .. Len(records') : records'[i] = Header(o, p)
  OBVIOUS
<1>2. Logged' = {Header(o, p)}
  BY <1>1 DEF Logged
<1>3. IsFiniteSet(Logged') /\ Cardinality(Logged') = Len(records')
  BY <1>1, <1>2, FS_Singleton
<1>4. /\ records'[1].kind = "Header" /\ records'[1].op = o /\ records'[1].previous = p
      /\ records'[1] # RollingBack
  BY <1>1 DEF Header, RollingBack
<1>5. RollbackMarkerOK(records') /\ UninstallOrderOK(records') /\ FileOrderOK(records')
  BY <1>1, <1>4 DEF RollbackMarkerOK, UninstallOrderOK, FileOrderOK
<1>6. o = "upgrade" => UpgradeReceiptsOK(records')
  BY <1>1, <1>4 DEF UpgradeReceiptsOK, IsRollingBack
<1> QED BY <1>1, <1>3, <1>4, <1>5, <1>6 DEF Accepted, ReadJournal

(* Going forward every record is in its place ...                          *)
LEMMA TransactAccepted ==
  ASSUME TypeInv, Bound, Books, Covered, Spares, FilesPhased, MarksPhased, Accepted, Transact
  PROVE  Accepted'
<1>0. TypeOK
  BY DEF TypeInv
<1> USE DEF FilesPhased, MarksPhased, Books, Forward, GoingBack, Early, Working, Ending, FilePhases, RemovePhases, Replacing, FilePhases, KnownBound
<1> USE DEF disk, files, journal, work, plan, bounds, history, Refuse
<1>1. CASE CreateJournal
  BY <1>1, NoRecord DEF CreateJournal
<1>2. CASE WriteHeader
  <2>1. rcpt["live"] = before.live
    BY <1>2 DEF WriteHeader, PlanBound, OpenReceipts
  <2> QED BY <1>2, <2>1, FirstRecord DEF WriteHeader, PlanBound
<1>3. CASE MakeDestination
  <2>1. UNCHANGED <<records, op>>
    BY <1>3 DEF MakeDestination
  <2> QED BY <2>1, SameRecords DEF Accepted
<1>4. CASE MoveAside
  <2>1. UNCHANGED <<records, op>>
    BY <1>4 DEF MoveAside
  <2> QED BY <2>1, SameRecords DEF Accepted
<1>5. CASE MoveBack
  <2>1. UNCHANGED <<records, op>>
    BY <1>5 DEF MoveBack
  <2> QED BY <2>1, SameRecords DEF Accepted
<1>6. CASE RemovesDone
  <2>1. UNCHANGED <<records, op>>
    BY <1>6 DEF RemovesDone
  <2> QED BY <2>1, SameRecords DEF Accepted
<1>7. CASE RootIntent
  <2>1. Appends(RemoveDirectory, "makeRoot") /\ records' = Append(records, RemoveDirectory)
    BY <1>7, AppendingSteps DEF RootIntent, Log
  <2>2. RemoveDirectory \in Record /\ records # <<>> /\ op' = op
    BY <2>1 DEF Appends
  <2>3. Appendable(RemoveDirectory)
    BY <1>7, <1>0, RecordKinds, JournalAssumption
       DEF RootIntent, Appendable, FileRecord, Has, Owned, StageFile, RemoveFile, RestoreFile, PendingReceipt,
           RemoveDirectory, Committing, RollingBack, FileKinds, OpenReceipts, SpareReceipts,
           PlanBound, TypeOK, Operations
  <2> QED BY <1>0, <2>1, <2>2, <2>3, OneMore
<1>8. CASE MakeRoot
  <2>1. UNCHANGED <<records, op>>
    BY <1>8 DEF MakeRoot
  <2> QED BY <2>1, SameRecords DEF Accepted
<1>9. CASE StageCopy
  <2>1. UNCHANGED <<records, op>>
    BY <1>9 DEF StageCopy
  <2> QED BY <2>1, SameRecords DEF Accepted
<1>10. CASE ReplaceIntent
  <2>1. Appends(RestoreFile(cur, dest[cur]), "replaceMove") /\ records' = Append(records, RestoreFile(cur, dest[cur]))
    BY <1>10, AppendingSteps DEF ReplaceIntent, Log
  <2>2. RestoreFile(cur, dest[cur]) \in Record /\ records # <<>> /\ op' = op
    BY <2>1 DEF Appends
  <2>3. Appendable(RestoreFile(cur, dest[cur]))
    BY <1>10, <1>0, RecordKinds, JournalAssumption
       DEF ReplaceIntent, Appendable, FileRecord, Has, Owned, StageFile, RemoveFile, RestoreFile, PendingReceipt,
           RemoveDirectory, Committing, RollingBack, FileKinds, OpenReceipts, SpareReceipts,
           PlanBound, TypeOK, Operations
  <2> QED BY <1>0, <2>1, <2>2, <2>3, OneMore
<1>11. CASE PublishIntent
  <2>1. Appends(RemoveFile(cur, target[cur].sha), "publish") /\ records' = Append(records, RemoveFile(cur, target[cur].sha))
    BY <1>11, AppendingSteps DEF PublishIntent, Log
  <2>2. RemoveFile(cur, target[cur].sha) \in Record /\ records # <<>> /\ op' = op
    BY <2>1 DEF Appends
  <2>3. Appendable(RemoveFile(cur, target[cur].sha))
    BY <1>11, <1>0, RecordKinds, JournalAssumption
       DEF PublishIntent, Appendable, FileRecord, Has, Owned, StageFile, RemoveFile, RestoreFile, PendingReceipt,
           RemoveDirectory, Committing, RollingBack, FileKinds, OpenReceipts, SpareReceipts,
           PlanBound, TypeOK, Operations
  <2> QED BY <1>0, <2>1, <2>2, <2>3, OneMore
<1>12. CASE Publish
  <2>1. UNCHANGED <<records, op>>
    BY <1>12 DEF Publish
  <2> QED BY <2>1, SameRecords DEF Accepted
<1>13. CASE VerifyPublished
  <2>1. UNCHANGED <<records, op>>
    BY <1>13 DEF VerifyPublished
  <2> QED BY <2>1, SameRecords DEF Accepted
<1>14. CASE ApplyDone
  <2>1. UNCHANGED <<records, op>>
    BY <1>14 DEF ApplyDone
  <2> QED BY <2>1, SameRecords DEF Accepted
<1>15. CASE BindReceipt
  <2>1. Appends(PendingReceipt(target), "createReceipt") /\ records' = Append(records, PendingReceipt(target))
    BY <1>15, AppendingSteps DEF BindReceipt, Log
  <2>2. PendingReceipt(target) \in Record /\ records # <<>> /\ op' = op
    BY <2>1 DEF Appends
  <2>3. Appendable(PendingReceipt(target))
    BY <1>15, <1>0, RecordKinds, JournalAssumption
       DEF BindReceipt, Appendable, FileRecord, Has, Owned, StageFile, RemoveFile, RestoreFile, PendingReceipt,
           RemoveDirectory, Committing, RollingBack, FileKinds, OpenReceipts, SpareReceipts,
           PlanBound, TypeOK, Operations
  <2> QED BY <1>0, <2>1, <2>2, <2>3, OneMore
<1>16. CASE CreateReceipt
  <2>1. UNCHANGED <<records, op>>
    BY <1>16 DEF CreateReceipt
  <2> QED BY <2>1, SameRecords DEF Accepted
<1>17. CASE WriteReceipt
  <2>1. UNCHANGED <<records, op>>
    BY <1>17 DEF WriteReceipt
  <2> QED BY <2>1, SameRecords DEF Accepted
<1>18. CASE PublishReceipt
  <2>1. UNCHANGED <<records, op>>
    BY <1>18 DEF PublishReceipt
  <2> QED BY <2>1, SameRecords DEF Accepted
<1>19. CASE Commit
  <2>1. Appends(Committing, "cutover") /\ records' = Append(records, Committing)
    BY <1>19, AppendingSteps DEF Commit, Log
  <2>2. Committing \in Record /\ records # <<>> /\ op' = op
    BY <2>1 DEF Appends
  <2>3. Appendable(Committing)
    BY <1>19, <1>0, RecordKinds, JournalAssumption
       DEF Commit, Appendable, FileRecord, Has, Owned, StageFile, RemoveFile, RestoreFile, PendingReceipt,
           RemoveDirectory, Committing, RollingBack, FileKinds, OpenReceipts, SpareReceipts,
           PlanBound, TypeOK, Operations
  <2> QED BY <1>0, <2>1, <2>2, <2>3, OneMore
<1>20. CASE Cutover
  <2>1. UNCHANGED <<records, op>>
    BY <1>20 DEF Cutover
  <2> QED BY <2>1, SameRecords DEF Accepted
<1>21. CASE PublishLive
  <2>1. UNCHANGED <<records, op>>
    BY <1>21 DEF PublishLive
  <2> QED BY <2>1, SameRecords DEF Accepted
<1>22. CASE StepBlocked
  <2>1. UNCHANGED <<records, op>>
    BY <1>22 DEF StepBlocked
  <2> QED BY <2>1, SameRecords DEF Accepted
<1>23. ASSUME NEW f \in Files, KeepFile(f) PROVE Accepted'
  <2>1. UNCHANGED <<records, op>>
    BY <1>23 DEF KeepFile
  <2> QED BY <2>1, SameRecords DEF Accepted
<1>24. ASSUME NEW f \in Files, RemoveIntent(f) PROVE Accepted'
  <2>1. Appends(RestoreFile(f, dest[f]), "removeMove") /\ records' = Append(records, RestoreFile(f, dest[f]))
    BY <1>24, AppendingSteps DEF RemoveIntent, Log
  <2>2. RestoreFile(f, dest[f]) \in Record /\ records # <<>> /\ op' = op
    BY <2>1 DEF Appends
  <2>3. Appendable(RestoreFile(f, dest[f]))
    BY <1>24, <1>0, RecordKinds, JournalAssumption
       DEF RemoveIntent, Appendable, FileRecord, Has, Owned, StageFile, RemoveFile, RestoreFile, PendingReceipt,
           RemoveDirectory, Committing, RollingBack, FileKinds, OpenReceipts, SpareReceipts,
           PlanBound, TypeOK, Operations
  <2> QED BY <1>0, <2>1, <2>2, <2>3, OneMore
<1>25. ASSUME NEW f \in Files, SkipIdentical(f) PROVE Accepted'
  <2>1. UNCHANGED <<records, op>>
    BY <1>25 DEF SkipIdentical
  <2> QED BY <2>1, SameRecords DEF Accepted
<1>26. ASSUME NEW f \in Files, StageIntent(f) PROVE Accepted'
  <2>1. Appends(StageFile(f, target[f].sha), "stage") /\ records' = Append(records, StageFile(f, target[f].sha))
    BY <1>26, AppendingSteps DEF StageIntent, Log
  <2>2. StageFile(f, target[f].sha) \in Record /\ records # <<>> /\ op' = op
    BY <2>1 DEF Appends
  <2>3. Appendable(StageFile(f, target[f].sha))
    BY <1>26, <1>0, RecordKinds, JournalAssumption
       DEF StageIntent, Appendable, FileRecord, Has, Owned, StageFile, RemoveFile, RestoreFile, PendingReceipt,
           RemoveDirectory, Committing, RollingBack, FileKinds, OpenReceipts, SpareReceipts,
           PlanBound, TypeOK, Operations
  <2> QED BY <1>0, <2>1, <2>2, <2>3, OneMore
<1> QED BY <1>1, <1>2, <1>3, <1>4, <1>5, <1>6, <1>7, <1>8, <1>9, <1>10, <1>11, <1>12, <1>13, <1>14, <1>15, <1>16, <1>17, <1>18, <1>19, <1>20, <1>21, <1>22, <1>23, <1>24, <1>25, <1>26 DEF Transact

(* ... and the marker of a rollback is the last ...                         *)
LEMMA RollbackAccepted ==
  ASSUME TypeInv, Bound, Books, Covered, Spares, FilesPhased, MarksPhased, Accepted, Rollback
  PROVE  Accepted'
<1>0. TypeOK
  BY DEF TypeInv
<1> USE DEF FilesPhased, MarksPhased, Books, Forward, GoingBack, Early, Working, Ending, FilePhases, RemovePhases, Replacing, FilePhases, KnownBound
<1> USE DEF disk, files, journal, work, plan, bounds, history, Refuse
<1>1. CASE MarkRollingBack
  <2>1. CASE known = Len(records)
    <3>1. records' = Append(records, RollingBack) /\ op' = op /\ op = "upgrade" /\ RollingBack \notin Logged
      BY <1>1, <2>1 DEF MarkRollingBack, PlanBound
    <3>2. RollingBack \in Record /\ RollingBack.kind = "RollingBack" /\ records # <<>>
      BY <1>1 DEF MarkRollingBack, KnownBound, Record, RollingBack
    <3>3. Appendable(RollingBack)
      BY <3>1, <3>2 DEF Appendable, RollingBack
    <3> QED BY <1>0, <3>1, <3>2, <3>3, OneMore
  <2>2. CASE known # Len(records)
    <3>1. UNCHANGED <<records, op>>
      BY <1>1, <2>2 DEF MarkRollingBack
    <3> QED BY <3>1, SameRecords DEF Accepted
  <2> QED BY <2>1, <2>2
<1>2. CASE ValidateRollback
  <2>1. UNCHANGED <<records, op>>
    BY <1>2 DEF ValidateRollback
  <2> QED BY <2>1, SameRecords DEF Accepted
<1>3. CASE UndoDone
  <2>1. UNCHANGED <<records, op>>
    BY <1>3 DEF UndoDone
  <2> QED BY <2>1, SameRecords DEF Accepted
<1>4. CASE RestoreDone
  <2>1. UNCHANGED <<records, op>>
    BY <1>4 DEF RestoreDone
  <2> QED BY <2>1, SameRecords DEF Accepted
<1>5. CASE UndoStaged
  <2>1. UNCHANGED <<records, op>>
    BY <1>5 DEF UndoStaged
  <2> QED BY <2>1, SameRecords DEF Accepted
<1>6. CASE UndoRoot
  <2>1. UNCHANGED <<records, op>>
    BY <1>6 DEF UndoRoot
  <2> QED BY <2>1, SameRecords DEF Accepted
<1>7. CASE RestoreReceipt
  <2>1. UNCHANGED <<records, op>>
    BY <1>7 DEF RestoreReceipt
  <2> QED BY <2>1, SameRecords DEF Accepted
<1>8. CASE DropStagedReceipts
  <2>1. UNCHANGED <<records, op>>
    BY <1>8 DEF DropStagedReceipts
  <2> QED BY <2>1, SameRecords DEF Accepted
<1>9. ASSUME NEW f \in Files, UndoFile(f) PROVE Accepted'
  <2>1. UNCHANGED <<records, op>>
    BY <1>9 DEF UndoFile
  <2> QED BY <2>1, SameRecords DEF Accepted
<1>10. ASSUME NEW f \in Files, RestoreStep(f) PROVE Accepted'
  <2>1. UNCHANGED <<records, op>>
    BY <1>10 DEF RestoreStep
  <2> QED BY <2>1, SameRecords DEF Accepted
<1> QED BY <1>1, <1>2, <1>3, <1>4, <1>5, <1>6, <1>7, <1>8, <1>9, <1>10 DEF Rollback

(* ... while cleanup only drops the journal ...                             *)
LEMMA CleanupAccepted ==
  ASSUME TypeInv, Bound, Books, Covered, Spares, FilesPhased, MarksPhased, Accepted, Cleanup
  PROVE  Accepted'
<1>0. TypeOK
  BY DEF TypeInv
<1> USE DEF FilesPhased, MarksPhased, Books, Forward, GoingBack, Early, Working, Ending, FilePhases, RemovePhases, Replacing, FilePhases, KnownBound
<1> USE DEF disk, files, journal, work, plan, bounds, history, Refuse
<1>1. CASE Clean
  <2>1. UNCHANGED <<records, op>>
    BY <1>1 DEF Clean
  <2> QED BY <2>1, SameRecords DEF Accepted
<1>2. CASE DropDestination
  <2>1. UNCHANGED <<records, op>>
    BY <1>2 DEF DropDestination
  <2> QED BY <2>1, SameRecords DEF Accepted
<1>3. CASE DropReceipts
  <2>1. UNCHANGED <<records, op>>
    BY <1>3 DEF DropReceipts
  <2> QED BY <2>1, SameRecords DEF Accepted
<1>4. CASE DropDeleted
  <2>1. UNCHANGED <<records, op>>
    BY <1>4 DEF DropDeleted
  <2> QED BY <2>1, SameRecords DEF Accepted
<1>5. CASE DropJournal
  BY <1>5, NoRecord DEF DropJournal
<1>6. CASE DropState
  <2>1. UNCHANGED <<records, op>>
    BY <1>6 DEF DropState
  <2> QED BY <2>1, SameRecords DEF Accepted
<1>7. CASE DropRoot
  <2>1. UNCHANGED <<records, op>>
    BY <1>7 DEF DropRoot
  <2> QED BY <2>1, SameRecords DEF Accepted
<1>8. ASSUME NEW f \in Files, Sweep(f) PROVE Accepted'
  <2>1. UNCHANGED <<records, op>>
    BY <1>8 DEF Sweep
  <2> QED BY <2>1, SameRecords DEF Accepted
<1> QED BY <1>1, <1>2, <1>3, <1>4, <1>5, <1>6, <1>7, <1>8 DEF Cleanup

(* ... and recovery ...                                                     *)
LEMMA RecoveryAccepted ==
  ASSUME TypeInv, Bound, Books, Covered, Spares, FilesPhased, MarksPhased, Accepted, Recovery
  PROVE  Accepted'
<1>0. TypeOK
  BY DEF TypeInv
<1> USE DEF FilesPhased, MarksPhased, Books, Forward, GoingBack, Early, Working, Ending, FilePhases, RemovePhases, Replacing, FilePhases, KnownBound
<1> USE DEF disk, files, journal, work, plan, bounds, history, Refuse
<1>1. CASE RecoverRefuses
  <2>1. UNCHANGED <<records, op>>
    BY <1>1 DEF RecoverRefuses
  <2> QED BY <2>1, SameRecords DEF Accepted
<1>2. CASE RecoverEmpty
  <2>1. UNCHANGED <<records, op>>
    BY <1>2 DEF RecoverEmpty
  <2> QED BY <2>1, SameRecords DEF Accepted
<1>3. CASE RecoverDone
  <2>1. UNCHANGED <<records, op>>
    BY <1>3 DEF RecoverDone
  <2> QED BY <2>1, SameRecords DEF Accepted
<1>4. CASE RecoverInstall
  <2>1. UNCHANGED <<records, op>>
    BY <1>4 DEF RecoverInstall, Recover, PlanBound, Header
  <2> QED BY <2>1, SameRecords DEF Accepted
<1>5. CASE RecoverUpgrade
  <2>1. UNCHANGED <<records, op>>
    BY <1>5 DEF RecoverUpgrade, Recover, PlanBound, Header
  <2> QED BY <2>1, SameRecords DEF Accepted
<1>6. CASE RecoverUninstall
  <2>1. UNCHANGED <<records, op>>
    BY <1>6 DEF RecoverUninstall, Recover, PlanBound, Header
  <2> QED BY <2>1, SameRecords DEF Accepted
<1>7. CASE Retry
  <2>1. UNCHANGED <<records, op>>
    BY <1>7 DEF Retry
  <2> QED BY <2>1, SameRecords DEF Accepted
<1> QED BY <1>1, <1>2, <1>3, <1>4, <1>5, <1>6, <1>7 DEF Recovery

(* ... and failures write nothing.                                          *)
LEMMA FailureAccepted ==
  ASSUME TypeInv, Bound, Books, Covered, Spares, FilesPhased, MarksPhased, Accepted, Failure
  PROVE  Accepted'
<1>0. TypeOK
  BY DEF TypeInv
<1> USE DEF FilesPhased, MarksPhased, Books, Forward, GoingBack, Early, Working, Ending, FilePhases, RemovePhases, Replacing, FilePhases, KnownBound
<1> USE DEF disk, files, journal, work, plan, bounds, history, Refuse
<1>1. CASE HeaderFails
  <2>1. UNCHANGED <<records, op>>
    BY <1>1 DEF HeaderFails
  <2> QED BY <2>1, SameRecords DEF Accepted
<1>2. CASE WriteReceiptFails
  <2>1. UNCHANGED <<records, op>>
    BY <1>2 DEF WriteReceiptFails
  <2> QED BY <2>1, SameRecords DEF Accepted
<1>3. CASE StepFails
  <2>1. UNCHANGED <<records, op>>
    BY <1>3 DEF StepFails
  <2> QED BY <2>1, SameRecords DEF Accepted
<1>4. CASE Crash
  <2>1. UNCHANGED <<records, op>>
    BY <1>4 DEF Crash
  <2> QED BY <2>1, SameRecords DEF Accepted
<1> QED BY <1>1, <1>2, <1>3, <1>4 DEF Failure

(* A new transaction begins without a journal, and only the user's files    *)
(* are the user's.                                                          *)
LEMMA BeginReadable ==
  ASSUME TypeInv, Bound, Books, Covered, Readable, NEW o \in Operations, NEW t, Begin(o, t)
  PROVE  Readable'
<1>1. /\ records' = <<>> /\ pc' = "journal" /\ jfile' = "absent" /\ SpareNone' /\ result' = "none"
  BY DEF Begin, Bound, JournalBound, Pending, journal, Books, SpareReceipts, SpareNone, StorageBound, files
<1>2. Logged' = {}
  BY <1>1 DEF Logged
<1>3. Accepted'
  BY <1>1, NoRecord
<1> QED BY <1>1, <1>2, <1>3 DEF Readable, Spares, FilesPhased, MarksPhased, Forward, RemovePhases,
           FilePhases, Replacing

(* A user who edits files leaves the journal as it is.                      *)
LEMMA UserEditReadable ==
  ASSUME Readable, NEW f, NEW c, UserEdit(f, c)
  PROVE  Readable'
<1>1. UNCHANGED <<records, jfile, rcpt, pc, result, op, target, todo, cur, dirs>>
  BY DEF UserEdit, journal, work, plan
<1>2. Logged' = Logged /\ \A x : LastIs(x)' <=> LastIs(x)
  BY <1>1, SameRecords
<1> QED BY <1>1, <1>2 DEF Readable, Spares, SpareNone, FilesPhased, MarksPhased, Accepted

(* Before the first transaction there is nothing to read.                   *)
LEMMA InitReadable == Init => Readable
<1> SUFFICES ASSUME Init PROVE Readable
  OBVIOUS
<1>1. Logged = {} /\ Len(records) = 0 /\ SpareNone
  BY DEF Init, Logged, SpareNone
<1> QED BY <1>1, FS_EmptySet DEF Init, Readable, Spares, FilesPhased, MarksPhased, Accepted, Forward,
           RemovePhases, FilePhases, Replacing

(* Every step leaves a readable journal.                                    *)
LEMMA ReadableStep ==
  TypeInv /\ Bound /\ Books /\ Covered /\ Readable /\ [Next]_vars => Readable'
<1> SUFFICES ASSUME TypeInv, Bound, Books, Covered, Readable, [Next]_vars PROVE Readable'
  OBVIOUS
<1>0. Spares /\ FilesPhased /\ MarksPhased /\ Accepted
  BY DEF Readable
<1>1. CASE UNCHANGED vars
  <2>1. UNCHANGED <<records, jfile, rcpt, pc, result, op, target, todo, cur, dirs>>
    BY <1>1 DEF vars, disk, files, journal, work, plan, history
  <2>2. Logged' = Logged /\ \A x : LastIs(x)' <=> LastIs(x)
    BY <2>1, SameRecords
  <2> QED BY <2>1, <2>2 DEF Readable, Spares, SpareNone, FilesPhased, MarksPhased, Accepted
<1>2. CASE Transact
  BY <1>0, <1>2, TransactSpares, TransactFilesPhased, TransactMarksPhased, TransactAccepted DEF Readable
<1>3. CASE Rollback
  BY <1>0, <1>3, RollbackSpares, RollbackFilesPhased, RollbackMarksPhased, RollbackAccepted DEF Readable
<1>4. CASE Cleanup
  BY <1>0, <1>4, CleanupSpares, CleanupFilesPhased, CleanupMarksPhased, CleanupAccepted DEF Readable
<1>5. CASE Recovery
  BY <1>0, <1>5, RecoverySpares, RecoveryFilesPhased, RecoveryMarksPhased, RecoveryAccepted DEF Readable
<1>6. CASE Failure
  BY <1>0, <1>6, FailureSpares, FailureFilesPhased, FailureMarksPhased, FailureAccepted DEF Readable
<1>7. ASSUME NEW o \in Operations, NEW t \in Manifests \cup {Empty}, Begin(o, t) PROVE Readable'
  BY <1>7, BeginReadable
<1>8. ASSUME NEW f \in Files, NEW c \in UserContent \cup {None}, UserEdit(f, c) PROVE Readable'
  BY <1>8, UserEditReadable
<1> QED BY <1>1, <1>2, <1>3, <1>4, <1>5, <1>6, <1>7, <1>8 DEF Next

(* The journal and the receipts beside it can be read at any time.          *)
LEMMA ReadableAlways == Spec => [](TypeInv /\ Bound /\ Books /\ Covered /\ Readable)
<1>1. Init => Readable
  BY InitReadable
<1>2. TypeInv /\ Bound /\ Books /\ Covered /\ Readable /\ [Next]_vars => Readable'
  BY ReadableStep
<1> QED BY <1>1, <1>2, BooksAlways, PTL DEF Spec

-----------------------------------------------------------------------------
(* What becomes of the installed tree: where each file of the package is at *)
(* any step of a transaction, of its rollback and of its recovery.  From it *)
(* follow that no original is lost, that a transaction does all of its plan *)
(* or nothing, and why a recovery may refuse.                               *)

(* What a record says of the plan: only packages are staged and published,  *)
(* under their digests, and only owned files are moved aside.               *)
Meant ==
  \A r \in Logged :
    /\ r.kind \in {"StageFile", "RemoveFile"} =>
         /\ op # "uninstall" /\ target[r.file] # None /\ r.sha = target[r.file].sha
    /\ r.kind = "RestoreFile" =>
         /\ op # "install" /\ before.live[r.file] # None
         /\ target[r.file] = None => r.content = before.live[r.file]
    /\ r.kind = "RemoveDirectory" => op # "uninstall"

(* The passes handle the files that the plan and the journal name, and when *)
(* the rollback is over no backup is left.                                  *)
Passes ==
  /\ pc \in RemovePhases => IF op = "install" THEN todo = {}
                            ELSE todo \subseteq Obsolete(before.live, target)
  /\ pc \in {"removeMove", "removeBack"} \cup Replacing => cur \in todo
  /\ pc = "restore" => \A f \in Files : IF f \in todo THEN Has(Known, "RestoreFile", f)
                                                       ELSE backup[f] = None
  /\ (result = "none" /\ pc \in Restored) => backup = Empty

(* What the plan makes of a file.                                           *)
Planned(f) ==
  IF target[f] # None THEN target[f]
  ELSE IF before.live # None /\ before.live[f] = before.dest[f] THEN None
  ELSE before.dest[f]

(* Where a file is that the user has not changed: as it was, set aside,     *)
(* replaced, or, when only its mode was to change, taken for the            *)
(* replacement and removed by a second rollback.                            *)
Untouched(f) == dest[f] = before.dest[f] /\ backup[f] = None
Aside(f)     == before.dest[f] # None /\ dest[f] = None /\ backup[f] = before.dest[f]
Replaced(f)  == target[f] # None /\ dest[f] = target[f] /\ backup[f] = before.dest[f]
Lost(f)      == ModeOnly(f) /\ dest[f] = None /\ backup[f] = None

(* The records R account for where the file is.                             *)
Accounted(R, f) ==
  /\ Has(R, "RemoveFile", f) /\ before.dest[f] # None => Has(R, "RestoreFile", f)
  /\ Replaced(f) => Has(R, "RemoveFile", f)
  /\ Lost(f) => Has(R, "RestoreFile", f)

(* The records of the file hold its original content, and there are none    *)
(* for a file that is as the plan wants it.                                 *)
Truthful(f) ==
  \A r \in Logged : r.kind \in FileKinds /\ r.file = f =>
    IF r.kind = "RestoreFile" THEN r.content = before.dest[f] ELSE before.dest[f] # target[f]

(* How far the transaction has got with the file, going forward ...         *)
Advanced(f) ==
  /\ pc \in Early => Untouched(f)
  /\ pc \in Forward => ~Lost(f)
  /\ pc \in RemovePhases =>
       /\ ~Replaced(f)
       /\ f \in todo \/ target[f] # None => Untouched(f)
       /\ f \notin todo /\ target[f] = None => dest[f] = Planned(f)
  /\ pc \in ApplyPhases =>
       /\ target[f] = None \/ f \notin todo => dest[f] = Planned(f)
       /\ f \in todo /\ ~(pc \in {"replaced", "publish", "verify"} /\ f = cur) => Untouched(f)
       /\ pc = "verify" /\ f = cur => dest[f] = target[f]
  /\ pc \in {"removeBack", "replaceBack"} => f # cur
  /\ pc \in TailPhases => dest[f] = Planned(f)

(* ... and going back.                                                      *)
TakenBack(f) ==
  /\ pc = "undo" /\ f \notin todo => ~Replaced(f)
  /\ pc = "restore" => ~Replaced(f) /\ (f \notin todo => Untouched(f))
  /\ pc \in Restored \/ records = <<>> => Untouched(f)

FileOK(f) ==
  /\ Truthful(f) /\ backup[f] \in {None, before.dest[f]}
  /\ result = "none" =>
       /\ Untouched(f) \/ Aside(f) \/ Replaced(f) \/ Lost(f)
       /\ Accounted(Logged, f) /\ (pc \in Working => Accounted(Known, f))
       /\ Advanced(f) /\ TakenBack(f)
  /\ result = "committed" => dest[f] = Planned(f)
  /\ result = "undone" => dest[f] = before.dest[f]

Outcomes == \A f \in Files \ edited : FileOK(f)

(* The install root is there when it was there before, or the journal says  *)
(* that the transaction made it; it is made before anything is put into it  *)
(* and removed when the rollback has emptied it.                            *)
Rooted ==
  /\ "root" \notin dirs => dest = Empty
  /\ ("root" \notin dirs /\ result # "committed") => backup = Empty
  /\ pc \in {"removeMove", "removeBack"} \cup Replacing => "root" \in dirs
  /\ ~before.root => before.dest = Empty
  /\ RemoveDirectory \in Logged => ~before.root
  /\ (result = "none" /\ before.root) => "root" \in dirs
  /\ pc = "makeRoot" => RemoveDirectory \in Known
  /\ (result = "none" /\ edited = {} /\ "root" \in dirs /\ ~before.root) =>
       /\ RemoveDirectory \in Logged
       /\ pc \in Working => RemoveDirectory \in Known
       /\ pc \notin (Restored \ {"undoStaged", "undoRoot"}) /\ records # <<>>
  /\ (result = "undone" /\ edited = {}) => (("root" \in dirs) = before.root)

-----------------------------------------------------------------------------
(* Steps forward write only what is meant so.                               *)
LEMMA TransactMeant ==
  ASSUME TypeInv, Bound, Books, Covered, Passes, Meant, Transact
  PROVE  Meant'
<1>0. TypeOK
  BY DEF TypeInv
<1> USE DEF Meant, Books, PlanBound, StorageBound, KnownBound, OpenReceipts, Forward, GoingBack, Early, Working, Ending, Passes, RemovePhases, Replacing
<1> USE DEF disk, files, journal, work, plan, bounds, history, Refuse
<1>1. CASE CreateJournal
  BY <1>1, <1>0, SameRecords DEF CreateJournal, Logged
<1>2. CASE WriteHeader
  BY <1>2, <1>0, SameRecords DEF WriteHeader, Logged, Header
<1>3. CASE MakeDestination
  BY <1>3, <1>0, SameRecords DEF MakeDestination
<1>4. CASE MoveAside
  BY <1>4, <1>0, SameRecords DEF MoveAside
<1>5. CASE MoveBack
  BY <1>5, <1>0, SameRecords DEF MoveBack
<1>6. CASE RemovesDone
  BY <1>6, <1>0, SameRecords DEF RemovesDone
<1>7. CASE RootIntent
  BY <1>7, <1>0, AppendingSteps, RecordKinds DEF Appends, RootIntent, StageFile, RemoveFile, RestoreFile, PendingReceipt, Committing, RollingBack, RemoveDirectory, Header
<1>8. CASE MakeRoot
  BY <1>8, <1>0, SameRecords DEF MakeRoot
<1>9. CASE StageCopy
  BY <1>9, <1>0, SameRecords DEF StageCopy
<1>10. CASE ReplaceIntent
  BY <1>10, <1>0, AppendingSteps, RecordKinds DEF Appends, ReplaceIntent, StageFile, RemoveFile, RestoreFile, PendingReceipt, Committing, RollingBack, RemoveDirectory, Header, Owned, OwnedBy, TypeInv, PhaseOK
<1>11. CASE PublishIntent
  BY <1>11, <1>0, AppendingSteps, RecordKinds DEF Appends, PublishIntent, StageFile, RemoveFile, RestoreFile, PendingReceipt, Committing, RollingBack, RemoveDirectory, Header, Owned, OwnedBy, TypeInv, PhaseOK
<1>12. CASE Publish
  BY <1>12, <1>0, SameRecords DEF Publish
<1>13. CASE VerifyPublished
  BY <1>13, <1>0, SameRecords DEF VerifyPublished
<1>14. CASE ApplyDone
  BY <1>14, <1>0, SameRecords DEF ApplyDone
<1>15. CASE BindReceipt
  BY <1>15, <1>0, AppendingSteps, RecordKinds DEF Appends, BindReceipt, StageFile, RemoveFile, RestoreFile, PendingReceipt, Committing, RollingBack, RemoveDirectory, Header
<1>16. CASE CreateReceipt
  BY <1>16, <1>0, SameRecords DEF CreateReceipt
<1>17. CASE WriteReceipt
  BY <1>17, <1>0, SameRecords DEF WriteReceipt
<1>18. CASE PublishReceipt
  BY <1>18, <1>0, SameRecords DEF PublishReceipt
<1>19. CASE Commit
  BY <1>19, <1>0, AppendingSteps, RecordKinds DEF Appends, Commit, StageFile, RemoveFile, RestoreFile, PendingReceipt, Committing, RollingBack, RemoveDirectory, Header
<1>20. CASE Cutover
  BY <1>20, <1>0, SameRecords DEF Cutover, Operations, TypeOK
<1>21. CASE PublishLive
  BY <1>21, <1>0, SameRecords DEF PublishLive
<1>22. CASE StepBlocked
  BY <1>22, <1>0, SameRecords DEF StepBlocked
<1>23. ASSUME NEW f \in Files, KeepFile(f) PROVE Meant'
  BY <1>23, <1>0, SameRecords DEF KeepFile
<1>24. ASSUME NEW f \in Files, RemoveIntent(f) PROVE Meant'
  BY <1>24, <1>0, AppendingSteps, RecordKinds DEF Appends, RemoveIntent, StageFile, RemoveFile, RestoreFile, PendingReceipt, Committing, RollingBack, RemoveDirectory, Header, Obsolete, OwnedBy
<1>25. ASSUME NEW f \in Files, SkipIdentical(f) PROVE Meant'
  BY <1>25, <1>0, SameRecords DEF SkipIdentical
<1>26. ASSUME NEW f \in Files, StageIntent(f) PROVE Meant'
  BY <1>26, <1>0, AppendingSteps, RecordKinds DEF Appends, StageIntent, StageFile, RemoveFile, RestoreFile, PendingReceipt, Committing, RollingBack, RemoveDirectory, Header, Owned, OwnedBy, TypeInv, PhaseOK
<1> HIDE DEF Meant
<1> QED BY <1>1, <1>2, <1>3, <1>4, <1>5, <1>6, <1>7, <1>8, <1>9, <1>10, <1>11, <1>12, <1>13, <1>14, <1>15, <1>16, <1>17, <1>18, <1>19, <1>20, <1>21, <1>22, <1>23, <1>24, <1>25, <1>26 DEF Transact

(* So does rollback, which writes its marker ...                            *)
LEMMA RollbackMeant ==
  ASSUME TypeInv, Bound, Books, Covered, Meant, Rollback
  PROVE  Meant'
<1>0. TypeOK
  BY DEF TypeInv
<1> USE DEF Meant, Books, PlanBound, StorageBound, KnownBound, OpenReceipts, Forward, GoingBack, Early, Working, Ending
<1> USE DEF disk, files, journal, work, plan, bounds, history, Refuse
<1>1. CASE MarkRollingBack
  <2>1. Logged' \subseteq Logged \cup {RollingBack} /\ UNCHANGED <<op, target, before>>
    BY <1>1, <1>0, SameRecords, Appended, RecordMade DEF MarkRollingBack, TypeOK
  <2> QED BY <2>1, RecordKinds
<1>2. CASE ValidateRollback
  BY <1>2, <1>0, SameRecords DEF ValidateRollback
<1>3. CASE UndoDone
  BY <1>3, <1>0, SameRecords DEF UndoDone
<1>4. CASE RestoreDone
  BY <1>4, <1>0, SameRecords DEF RestoreDone
<1>5. CASE UndoStaged
  BY <1>5, <1>0, SameRecords DEF UndoStaged
<1>6. CASE UndoRoot
  BY <1>6, <1>0, SameRecords DEF UndoRoot
<1>7. CASE RestoreReceipt
  BY <1>7, <1>0, SameRecords DEF RestoreReceipt
<1>8. CASE DropStagedReceipts
  BY <1>8, <1>0, SameRecords DEF DropStagedReceipts
<1>9. ASSUME NEW f \in Files, UndoFile(f) PROVE Meant'
  BY <1>9, <1>0, SameRecords DEF UndoFile
<1>10. ASSUME NEW f \in Files, RestoreStep(f) PROVE Meant'
  BY <1>10, <1>0, SameRecords DEF RestoreStep
<1> HIDE DEF Meant
<1> QED BY <1>1, <1>2, <1>3, <1>4, <1>5, <1>6, <1>7, <1>8, <1>9, <1>10 DEF Rollback

(* ... cleanup ...                                                          *)
LEMMA CleanupMeant ==
  ASSUME TypeInv, Bound, Books, Covered, Meant, Cleanup
  PROVE  Meant'
<1>0. TypeOK
  BY DEF TypeInv
<1> USE DEF Meant, Books, PlanBound, StorageBound, KnownBound, OpenReceipts, Forward, GoingBack, Early, Working, Ending
<1> USE DEF disk, files, journal, work, plan, bounds, history, Refuse
<1>1. CASE Clean
  BY <1>1, <1>0, SameRecords DEF Clean
<1>2. CASE DropDestination
  BY <1>2, <1>0, SameRecords DEF DropDestination
<1>3. CASE DropReceipts
  BY <1>3, <1>0, SameRecords DEF DropReceipts
<1>4. CASE DropDeleted
  BY <1>4, <1>0, SameRecords DEF DropDeleted
<1>5. CASE DropJournal
  BY <1>5, <1>0, SameRecords DEF DropJournal, Logged
<1>6. CASE DropState
  BY <1>6, <1>0, SameRecords DEF DropState
<1>7. CASE DropRoot
  BY <1>7, <1>0, SameRecords DEF DropRoot
<1>8. ASSUME NEW f \in Files, Sweep(f) PROVE Meant'
  BY <1>8, <1>0, SameRecords DEF Sweep
<1> HIDE DEF Meant
<1> QED BY <1>1, <1>2, <1>3, <1>4, <1>5, <1>6, <1>7, <1>8 DEF Cleanup

(* ... recovery, which reads the operation from the header ...              *)
LEMMA RecoveryMeant ==
  ASSUME TypeInv, Bound, Books, Covered, Meant, Recovery
  PROVE  Meant'
<1>0. TypeOK
  BY DEF TypeInv
<1> USE DEF Meant, Books, PlanBound, StorageBound, KnownBound, OpenReceipts, Forward, GoingBack, Early, Working, Ending
<1> USE DEF disk, files, journal, work, plan, bounds, history, Refuse
<1>1. CASE RecoverRefuses
  BY <1>1, <1>0, SameRecords DEF RecoverRefuses
<1>2. CASE RecoverEmpty
  BY <1>2, <1>0, SameRecords DEF RecoverEmpty
<1>3. CASE RecoverDone
  BY <1>3, <1>0, SameRecords DEF RecoverDone
<1>4. CASE RecoverInstall
  BY <1>4, <1>0, SameRecords DEF RecoverInstall, Recover, Header
<1>5. CASE RecoverUpgrade
  BY <1>5, <1>0, SameRecords DEF RecoverUpgrade, Recover, Header
<1>6. CASE RecoverUninstall
  BY <1>6, <1>0, SameRecords DEF RecoverUninstall, Recover, Header
<1>7. CASE Retry
  BY <1>7, <1>0, SameRecords DEF Retry
<1> HIDE DEF Meant
<1> QED BY <1>1, <1>2, <1>3, <1>4, <1>5, <1>6, <1>7 DEF Recovery

(* ... and what fails.                                                      *)
LEMMA FailureMeant ==
  ASSUME TypeInv, Bound, Books, Covered, Meant, Failure
  PROVE  Meant'
<1>0. TypeOK
  BY DEF TypeInv
<1> USE DEF Meant, Books, PlanBound, StorageBound, KnownBound, OpenReceipts, Forward, GoingBack, Early, Working, Ending
<1> USE DEF disk, files, journal, work, plan, bounds, history, Refuse
<1>1. CASE HeaderFails
  BY <1>1, <1>0, SameRecords DEF HeaderFails
<1>2. CASE WriteReceiptFails
  BY <1>2, <1>0, SameRecords DEF WriteReceiptFails
<1>3. CASE StepFails
  BY <1>3, <1>0, SameRecords DEF StepFails
<1>4. CASE Crash
  BY <1>4, <1>0, SameRecords DEF Crash
<1> HIDE DEF Meant
<1> QED BY <1>1, <1>2, <1>3, <1>4 DEF Failure


(* The passes keep to their files going forward ...                         *)
LEMMA TransactPasses ==
  ASSUME TypeInv, Bound, Books, Covered, Meant, Passes, Transact
  PROVE  Passes'
<1>0. TypeOK
  BY DEF TypeInv
<1> USE DEF Passes, Books, PlanBound, StorageBound, KnownBound, OpenReceipts, Forward, GoingBack, Early, Working, Ending, RemovePhases, ApplyPhases, Replacing, Restored
<1> USE DEF disk, files, journal, work, plan, bounds, history, Refuse
<1>1. CASE CreateJournal
  BY <1>1, <1>0, SameRecords, SameKnown DEF CreateJournal
<1>2. CASE WriteHeader
  BY <1>2, <1>0, SameRecords, SameKnown DEF WriteHeader
<1>3. CASE MakeDestination
  BY <1>3, <1>0, SameRecords, SameKnown, KnownLogged DEF MakeDestination, StartRollback, Operations, TypeOK, Has, Covered, StorageCovered, Obsolete, OwnedBy, Empty
<1>4. CASE MoveAside
  BY <1>4, <1>0, SameRecords, SameKnown DEF MoveAside
<1>5. CASE MoveBack
  BY <1>5, <1>0, SameRecords, SameKnown, KnownLogged DEF MoveBack, StartRollback, Operations, TypeOK, Has, Covered, StorageCovered, Obsolete, OwnedBy, Empty
<1>6. CASE RemovesDone
  BY <1>6, <1>0, SameRecords, SameKnown DEF RemovesDone, TypeInv, TypeOK, PhaseOK
<1>7. CASE RootIntent
  BY <1>7, <1>0, AppendingSteps, RecordKinds, KnownLogged DEF Appends, RootIntent, Covered, StorageCovered, Has, StageFile, RemoveFile, RestoreFile, PendingReceipt, Committing, RollingBack, RemoveDirectory, Header
<1>8. CASE MakeRoot
  BY <1>8, <1>0, SameRecords, SameKnown DEF MakeRoot
<1>9. CASE StageCopy
  BY <1>9, <1>0, SameRecords, SameKnown DEF StageCopy, TypeInv, TypeOK, PhaseOK
<1>10. CASE ReplaceIntent
  BY <1>10, <1>0, AppendingSteps, RecordKinds, KnownLogged DEF Appends, ReplaceIntent, Covered, StorageCovered, Has, StageFile, RemoveFile, RestoreFile, PendingReceipt, Committing, RollingBack, RemoveDirectory, Header
<1>11. CASE PublishIntent
  BY <1>11, <1>0, AppendingSteps, RecordKinds, KnownLogged DEF Appends, PublishIntent, Covered, StorageCovered, Has, StageFile, RemoveFile, RestoreFile, PendingReceipt, Committing, RollingBack, RemoveDirectory, Header
<1>12. CASE Publish
  BY <1>12, <1>0, SameRecords, SameKnown DEF Publish
<1>13. CASE VerifyPublished
  BY <1>13, <1>0, SameRecords, SameKnown DEF VerifyPublished
<1>14. CASE ApplyDone
  BY <1>14, <1>0, SameRecords, SameKnown DEF ApplyDone
<1>15. CASE BindReceipt
  BY <1>15, <1>0, AppendingSteps, RecordKinds, KnownLogged DEF Appends, BindReceipt, Covered, StorageCovered, Has, StageFile, RemoveFile, RestoreFile, PendingReceipt, Committing, RollingBack, RemoveDirectory, Header
<1>16. CASE CreateReceipt
  BY <1>16, <1>0, SameRecords, SameKnown DEF CreateReceipt
<1>17. CASE WriteReceipt
  BY <1>17, <1>0, SameRecords, SameKnown DEF WriteReceipt
<1>18. CASE PublishReceipt
  BY <1>18, <1>0, SameRecords, SameKnown DEF PublishReceipt
<1>19. CASE Commit
  BY <1>19, <1>0, AppendingSteps, RecordKinds, KnownLogged DEF Appends, Commit, Covered, StorageCovered, Has, StageFile, RemoveFile, RestoreFile, PendingReceipt, Committing, RollingBack, RemoveDirectory, Header
<1>20. CASE Cutover
  BY <1>20, <1>0, SameRecords, SameKnown DEF Cutover, Operations, TypeOK
<1>21. CASE PublishLive
  BY <1>21, <1>0, SameRecords, SameKnown DEF PublishLive
<1>22. CASE StepBlocked
  BY <1>22, <1>0, SameRecords, SameKnown, KnownLogged DEF StepBlocked, StartRollback, Operations, TypeOK, Has, Covered, StorageCovered, Obsolete, OwnedBy, Empty
<1>23. ASSUME NEW f \in Files, KeepFile(f) PROVE Passes'
  BY <1>23, <1>0, SameRecords, SameKnown DEF KeepFile
<1>24. ASSUME NEW f \in Files, RemoveIntent(f) PROVE Passes'
  BY <1>24, <1>0, AppendingSteps, RecordKinds, KnownLogged DEF Appends, RemoveIntent, Covered, StorageCovered, Has, StageFile, RemoveFile, RestoreFile, PendingReceipt, Committing, RollingBack, RemoveDirectory, Header
<1>25. ASSUME NEW f \in Files, SkipIdentical(f) PROVE Passes'
  BY <1>25, <1>0, SameRecords, SameKnown DEF SkipIdentical
<1>26. ASSUME NEW f \in Files, StageIntent(f) PROVE Passes'
  BY <1>26, <1>0, AppendingSteps, RecordKinds, KnownLogged DEF Appends, StageIntent, Covered, StorageCovered, Has, StageFile, RemoveFile, RestoreFile, PendingReceipt, Committing, RollingBack, RemoveDirectory, Header
<1> HIDE DEF Passes
<1> QED BY <1>1, <1>2, <1>3, <1>4, <1>5, <1>6, <1>7, <1>8, <1>9, <1>10, <1>11, <1>12, <1>13, <1>14, <1>15, <1>16, <1>17, <1>18, <1>19, <1>20, <1>21, <1>22, <1>23, <1>24, <1>25, <1>26 DEF Transact

(* ... and back ...                                                         *)
LEMMA RollbackPasses ==
  ASSUME TypeInv, Bound, Books, Covered, Meant, Passes, Rollback
  PROVE  Passes'
<1>0. TypeOK
  BY DEF TypeInv
<1> USE DEF Passes, Books, PlanBound, StorageBound, KnownBound, OpenReceipts, Forward, GoingBack, Early, Working, Ending, RemovePhases, ApplyPhases, Replacing, Restored
<1> USE DEF disk, files, journal, work, plan, bounds, history, Refuse
<1>1. CASE MarkRollingBack
  BY <1>1, <1>0 DEF MarkRollingBack
<1>2. CASE ValidateRollback
  BY <1>2, <1>0, SameRecords, SameKnown DEF ValidateRollback
<1>3. CASE UndoDone
  BY <1>3, <1>0, SameRecords, SameKnown, KnownLogged DEF UndoDone, TypeOK, Operations, Has, Empty, Receipt, Meant, Covered, StorageCovered
<1>4. CASE RestoreDone
  BY <1>4, <1>0, SameRecords, SameKnown, KnownLogged DEF RestoreDone, TypeOK, Operations, Has, Empty, Receipt, Meant, Covered, StorageCovered
<1>5. CASE UndoStaged
  BY <1>5, <1>0, SameRecords, SameKnown DEF UndoStaged
<1>6. CASE UndoRoot
  BY <1>6, <1>0, SameRecords, SameKnown DEF UndoRoot
<1>7. CASE RestoreReceipt
  BY <1>7, <1>0, SameRecords, SameKnown DEF RestoreReceipt
<1>8. CASE DropStagedReceipts
  BY <1>8, <1>0, SameRecords, SameKnown DEF DropStagedReceipts
<1>9. ASSUME NEW f \in Files, UndoFile(f) PROVE Passes'
  BY <1>9, <1>0, SameRecords, SameKnown DEF UndoFile
<1>10. ASSUME NEW f \in Files, RestoreStep(f) PROVE Passes'
  BY <1>10, <1>0, SameRecords, SameKnown, KnownLogged DEF RestoreStep, TypeOK, Has, Receipt
<1> HIDE DEF Passes
<1> QED BY <1>1, <1>2, <1>3, <1>4, <1>5, <1>6, <1>7, <1>8, <1>9, <1>10 DEF Rollback

(* ... in cleanup there is no backup left but of a committed transaction ...*)
LEMMA CleanupPasses ==
  ASSUME TypeInv, Bound, Books, Covered, Meant, Passes, Cleanup
  PROVE  Passes'
<1>0. TypeOK
  BY DEF TypeInv
<1> USE DEF Passes, Books, PlanBound, StorageBound, KnownBound, OpenReceipts, Forward, GoingBack, Early, Working, Ending, RemovePhases, ApplyPhases, Replacing, Restored
<1> USE DEF disk, files, journal, work, plan, bounds, history, Refuse
<1>1. CASE Clean
  BY <1>1, <1>0, SameRecords, SameKnown DEF Clean
<1>2. CASE DropDestination
  BY <1>2, <1>0, SameRecords, SameKnown DEF DropDestination
<1>3. CASE DropReceipts
  BY <1>3, <1>0, SameRecords, SameKnown DEF DropReceipts
<1>4. CASE DropDeleted
  BY <1>4, <1>0, SameRecords, SameKnown DEF DropDeleted
<1>5. CASE DropJournal
  BY <1>5, <1>0, SameRecords, SameKnown DEF DropJournal
<1>6. CASE DropState
  BY <1>6, <1>0, SameRecords, SameKnown DEF DropState
<1>7. CASE DropRoot
  BY <1>7, <1>0, SameRecords, SameKnown DEF DropRoot
<1>8. ASSUME NEW f \in Files, Sweep(f) PROVE Passes'
  BY <1>8, <1>0, SameRecords, SameKnown DEF Sweep, Empty
<1> HIDE DEF Passes
<1> QED BY <1>1, <1>2, <1>3, <1>4, <1>5, <1>6, <1>7, <1>8 DEF Cleanup

(* ... recovery resumes the pass ...                                        *)
LEMMA RecoveryPasses ==
  ASSUME TypeInv, Bound, Books, Covered, Meant, Passes, Recovery
  PROVE  Passes'
<1>0. TypeOK
  BY DEF TypeInv
<1> USE DEF Passes, Books, PlanBound, StorageBound, KnownBound, OpenReceipts, Forward, GoingBack, Early, Working, Ending, RemovePhases, ApplyPhases, Replacing, Restored
<1> USE DEF disk, files, journal, work, plan, bounds, history, Refuse
<1>1. CASE RecoverRefuses
  BY <1>1, <1>0, SameRecords, SameKnown DEF RecoverRefuses
<1>2. CASE RecoverEmpty
  BY <1>2, <1>0, SameRecords, SameKnown DEF RecoverEmpty, Unreadable, Spent, Covered, StorageCovered
<1>3. CASE RecoverDone
  BY <1>3, <1>0, SameRecords, SameKnown DEF RecoverDone
<1>4. CASE RecoverInstall
  BY <1>4, <1>0, SameRecords, SameKnown, KnownLogged, UndecidedGoesBack DEF RecoverInstall, Recover, Header, OnDisk, TypeOK, Has, Covered, StorageCovered
<1>5. CASE RecoverUpgrade
  <2>1. /\ UNCHANGED result /\ pc' \in {"refused", "validate", "mark", "clean"}
        /\ result = "none" => pc' # "clean"
    BY <1>5, <1>0, UndecidedGoesBack DEF RecoverUpgrade, Recover, UpgradeDecision
  <2> QED BY <2>1
<1>6. CASE RecoverUninstall
  <2>1. /\ todo' = OnDisk("RestoreFile") /\ UNCHANGED <<records, backup, result>>
        /\ known' = Len(records) /\ pc' \in {"refused", "restore", "clean"}
        /\ result = "none" => pc' # "clean"
    BY <1>6, <1>0, UndecidedGoesBack DEF RecoverUninstall, Recover, OnDisk
  <2>2. Known' = Logged
    BY <2>1, SameKnown
  <2> QED BY <1>0, <2>1, <2>2, KnownLogged DEF Covered, StorageCovered
<1>7. CASE Retry
  BY <1>7, <1>0, SameRecords, SameKnown DEF Retry
<1> HIDE DEF Passes
<1> QED BY <1>1, <1>2, <1>3, <1>4, <1>5, <1>6, <1>7 DEF Recovery

(* ... and a failure starts the rollback or ends the call.                  *)
LEMMA FailurePasses ==
  ASSUME TypeInv, Bound, Books, Covered, Meant, Passes, Failure
  PROVE  Passes'
<1>0. TypeOK
  BY DEF TypeInv
<1> USE DEF Passes, Books, PlanBound, StorageBound, KnownBound, OpenReceipts, Forward, GoingBack, Early, Working, Ending, RemovePhases, ApplyPhases, Replacing, Restored
<1> USE DEF disk, files, journal, work, plan, bounds, history, Refuse
<1>1. CASE HeaderFails
  BY <1>1, <1>0, SameRecords, SameKnown DEF HeaderFails
<1>2. CASE WriteReceiptFails
  BY <1>2, <1>0, SameRecords, SameKnown, KnownLogged DEF WriteReceiptFails, StartRollback, Operations, TypeOK, Has, Covered, StorageCovered, Obsolete, OwnedBy, Empty
<1>3. CASE StepFails
  BY <1>3, <1>0, SameRecords, SameKnown, KnownLogged DEF StepFails, StartRollback, Operations, TypeOK, Has, Covered, StorageCovered, Obsolete, OwnedBy, Empty
<1>4. CASE Crash
  BY <1>4, <1>0, SameRecords, SameKnown DEF Crash
<1> HIDE DEF Passes
<1> QED BY <1>1, <1>2, <1>3, <1>4 DEF Failure

-----------------------------------------------------------------------------
(* The file is in one of its four places, and in no two of them.            *)
LEMMA OnePlace ==
  ASSUME TypeOK, NEW f \in Files
  PROVE  /\ Untouched(f) => ~Aside(f) /\ ~Replaced(f) /\ ~Lost(f)
         /\ Lost(f) => ~Aside(f) /\ ~Replaced(f)
         /\ Aside(f) => ~Replaced(f)
         /\ before.dest[f] \in Content \cup {None} /\ dest[f] \in Content \cup {None}
         /\ target[f] \in Content \cup {None} /\ None \notin Content
BY JournalAssumption DEF Untouched, Aside, Replaced, Lost, ModeOnly, TypeOK, Receipt

(* A restore record of a file the user has left alone holds its original.   *)
LEMMA OriginalRecorded ==
  ASSUME TypeOK, NEW f \in Files, Truthful(f)
  PROVE  /\ Has(Known, "RestoreFile", f) => RestoreFile(f, before.dest[f]) \in Known
         /\ \A c : RestoreFile(f, c) \in Logged => c = before.dest[f]
         /\ Has(Logged, "RestoreFile", f) => before.dest[f] \in Content
         /\ Has(Known, "RestoreFile", f) => RestoreContent(f) = before.dest[f]
<1>1. \A r \in Logged : r \in Record
  BY DEF Logged, TypeOK
<1>2. Known \subseteq Logged
  BY KnownLogged
<1>3. \A r \in Logged : r.kind = "RestoreFile" /\ r.file = f =>
         r.content = before.dest[f] /\ r = RestoreFile(f, before.dest[f]) /\ r.content \in Content
  <2> SUFFICES ASSUME NEW r \in Logged, r.kind = "RestoreFile", r.file = f
               PROVE  r.content = before.dest[f] /\ r = RestoreFile(f, before.dest[f])
                      /\ r.content \in Content
    OBVIOUS
  <2>1. r.content = before.dest[f]
    BY DEF Truthful, FileKinds
  <2>2. r \in [kind : {"RestoreFile"}, file : Files, content : Content]
    BY <1>1 DEF Record
  <2> QED BY <2>1, <2>2 DEF RestoreFile
<1>4. \A c : RestoreFile(f, c).kind = "RestoreFile" /\ RestoreFile(f, c).file = f
             /\ RestoreFile(f, c).content = c
  BY DEF RestoreFile
<1>5. Has(Known, "RestoreFile", f) => RestoreContent(f) = before.dest[f]
  BY <1>2, <1>3 DEF Has, RestoreContent
<1> QED BY <1>2, <1>3, <1>4, <1>5 DEF Has

(* A published file that the user has left alone is not taken for changed,  *)
(* and what is taken for the published file has its digest.                 *)
LEMMA PublishedRecorded ==
  ASSUME TypeOK, Meant, NEW f \in Files, Has(Known, "RemoveFile", f)
  PROVE  /\ target[f] # None /\ RemoveSha(f) = target[f].sha /\ op # "uninstall"
         /\ Modified(f) <=> dest[f] # None /\ dest[f].sha # target[f].sha
<1>1. Known \subseteq Logged
  BY KnownLogged
<1>2. \A r \in Known : r.kind = "RemoveFile" /\ r.file = f =>
        op # "uninstall" /\ target[f] # None /\ r.sha = target[f].sha
  BY <1>1 DEF Meant
<1> QED BY <1>2 DEF Has, RemoveSha, Modified

(* A step that does not touch the file, and appends nothing, has only to    *)
(* keep up with it.                                                         *)
LEMMA FileStays ==
  ASSUME TypeOK, NEW f \in Files, FileOK(f),
         UNCHANGED <<target, before, result, records>>,
         dest'[f] = dest[f], backup'[f] = backup[f],
         known' = Len(records) \/ (known' = known /\ (pc' \in Working => pc \in Working))
           \/ pc' \notin Working,
         result = "none" => Advanced(f)' /\ TakenBack(f)'
  PROVE  FileOK(f)'
<1>1. Logged' = Logged
  BY SameRecords
<1>2. known' = Len(records) => Known' = Logged
  BY SameKnown
<1>3. known' = known => Known' = Known
  BY SameKnown
<1>4. /\ Untouched(f)' = Untouched(f) /\ Aside(f)' = Aside(f) /\ Replaced(f)' = Replaced(f)
      /\ Lost(f)' = Lost(f) /\ Truthful(f)' = Truthful(f) /\ Planned(f)' = Planned(f)
      /\ Accounted(Logged, f)' = Accounted(Logged, f)
  BY <1>1 DEF Untouched, Aside, Replaced, Lost, ModeOnly, Truthful, Planned, Accounted
<1>5. result = "none" /\ pc' \in Working => Accounted(Known, f)'
  BY <1>1, <1>2, <1>3, <1>4 DEF FileOK, Accounted
<1> QED BY <1>4, <1>5 DEF FileOK

(* Appending a record about another file, or a truthful one about this.     *)
LEMMA FileLogged ==
  ASSUME TypeOK, NEW f \in Files, FileOK(f), NEW r, NEW next, Appends(r, next),
         (r.kind \in FileKinds /\ r.file = f) =>
           IF r.kind = "RestoreFile" THEN r.content = before.dest[f] ELSE before.dest[f] # target[f],
         (r.kind = "RemoveFile" /\ r.file = f /\ before.dest[f] # None) =>
           Has(Logged, "RestoreFile", f),
         pc' = next /\ Known' = Logged \cup {r} => Advanced(f)' /\ TakenBack(f)',
         pc' \in GoingBack => Advanced(f)' /\ TakenBack(f)'
  PROVE  FileOK(f)'
<1>1. /\ Untouched(f)' = Untouched(f) /\ Aside(f)' = Aside(f) /\ Replaced(f)' = Replaced(f)
      /\ Lost(f)' = Lost(f)
  BY DEF Untouched, Aside, Replaced, Lost, ModeOnly, Appends
<1>2. Truthful(f)'
  BY DEF FileOK, Truthful, Appends
<1>3. Accounted(Logged, f) /\ result = "none" /\ Logged' = Logged \cup {r}
  BY DEF FileOK, Appends
<1>4. Accounted(Logged, f)'
  BY <1>1, <1>3 DEF Accounted, Has, Appends
<1>5. Accounted(Known, f)'
  <2>1. CASE Known' = Logged
    BY <1>1, <1>3, <2>1 DEF Accounted, Has, Appends
  <2>2. CASE Known' = Logged \cup {r}
    BY <1>3, <1>4, <2>2 DEF Accounted, Has
  <2> QED BY <2>1, <2>2 DEF Appends
<1>6. Advanced(f)' /\ TakenBack(f)'
  BY DEF Appends, GoingBack
<1> QED BY <1>1, <1>2, <1>4, <1>5, <1>6 DEF FileOK, Appends

(* A rollback starts with every file where it can find it.                  *)
LEMMA GoesBack ==
  ASSUME TypeInv, Books, Covered, Meant, NEW f \in Files, FileOK(f), result = "none",
         pc \in Forward \cup {"destination"}, records # <<>>, records' # <<>>,
         UNCHANGED <<target, before>>, dest'[f] = dest[f], backup'[f] = backup[f],
         \/ pc' = "undo" /\ op = "install"
         \/ pc' = "mark" /\ op = "upgrade"
         \/ pc' = "restore" /\ op = "uninstall",
         todo' = CASE op = "install"   -> Recorded("StageFile") \cup Recorded("RemoveFile")
                   [] op = "upgrade"   -> {}
                   [] op = "uninstall" -> Recorded("RestoreFile")
  PROVE  Advanced(f)' /\ TakenBack(f)'
<1>1. /\ Untouched(f)' = Untouched(f) /\ Replaced(f)' = Replaced(f)
  BY DEF Untouched, Replaced
<1>2. TypeOK /\ Known \subseteq Logged /\ pc \in Working
  BY KnownLogged DEF TypeInv, Working
<1>3. Accounted(Known, f) /\ (Untouched(f) \/ Aside(f) \/ Replaced(f) \/ Lost(f))
  BY <1>2 DEF FileOK
<1>4. Replaced(f) => Has(Known, "RemoveFile", f)
  BY <1>3 DEF Accounted
<1>5. Replaced(f) => op # "uninstall"
  BY <1>2, <1>4 DEF Meant, Has
<1>6. pc' = "undo" /\ f \notin todo' => ~Replaced(f)
  BY <1>2, <1>4, KnownLogged DEF TypeOK
<1>7. Aside(f) \/ Lost(f) => Has(Known, "RestoreFile", f)
  BY <1>2, <1>3 DEF Accounted, Aside, Covered, StorageCovered
<1>8. pc' = "restore" => ~Replaced(f) /\ (f \notin todo' => Untouched(f))
  BY <1>2, <1>3, <1>5, <1>7, KnownLogged DEF TypeOK
<1> QED BY <1>1, <1>6, <1>8 DEF Advanced, TakenBack, Forward, Early, RemovePhases, ApplyPhases,
           Replacing, TailPhases, Restored, Ending

(* Steps forward do with a file what the plan asks for.                     *)
LEMMA TransactFileOK ==
  ASSUME TypeInv, Bound, Books, Covered, Meant, Passes,
         NEW f \in Files, f \notin edited, FileOK(f), Transact
  PROVE  FileOK(f)'
<1>0. TypeOK
  BY DEF TypeInv
<1> USE DEF Forward, GoingBack, Early, Working, Ending, RemovePhases, ApplyPhases, Replacing, TailPhases, Restored
<1> USE DEF disk, files, journal, work, plan, bounds, history, Refuse
<1>1. CASE CreateJournal
  <2>1. records = <<>> /\ pc' = "header" /\ UNCHANGED <<target, before, result, records, dest, backup>>
    BY <1>1 DEF CreateJournal, Bound, JournalBound
  <2>2. result = "none" => Advanced(f)' /\ TakenBack(f)'
    BY <1>1, <1>0, <2>1 DEF CreateJournal, FileOK, Advanced, TakenBack, Untouched, Aside, Replaced, Lost, ModeOnly, Planned
  <2> QED BY <1>0, <2>1, <2>2, FileStays
<1>2. CASE WriteHeader
  <2>1. /\ records = <<>> /\ pc' = "destination" /\ result = "none"
        /\ UNCHANGED <<target, before, result, dest, backup>>
        /\ Logged' = {Header(op, rcpt["live"])} /\ Known' = {Header(op, rcpt["live"])}
    BY <1>2, <1>0 DEF WriteHeader, Bound, JournalBound, Books, PlanBound, Logged, Known
  <2>2. Untouched(f)
    BY <1>2, <2>1 DEF WriteHeader, FileOK, Advanced
  <2> QED BY <1>2, <1>0, <2>1, <2>2, OnePlace, RecordKinds
          DEF FileOK, Truthful, Accounted, Advanced, TakenBack, Has, FileKinds, Untouched, Aside, Replaced, Lost, ModeOnly
<1>3. CASE MakeDestination
  <2>1. /\ UNCHANGED <<target, before, result, records, known, dest, backup, op>>
        /\ pc = "destination" /\ result = "none" /\ records # <<>> /\ Untouched(f)
    BY <1>3 DEF MakeDestination, Books, PlanBound, KnownBound, FileOK, Advanced
  <2>2. CASE pc' = "remove"
    <3>1. todo' = IF op = "install" THEN {} ELSE Obsolete(before.live, target)
      BY <1>3, <1>0, <2>1, <2>2, StartRollbackWhere DEF MakeDestination, Books, OpenReceipts
    <3>2. f \notin todo' /\ target[f] = None => before.live = None \/ before.live[f] = None
      BY <2>1, <3>1 DEF Obsolete, OwnedBy, Books, PlanBound
    <3>3. Advanced(f)' /\ TakenBack(f)'
      BY <1>0, <2>1, <2>2, <3>1, <3>2, OnePlace, JournalAssumption DEF FileOK, Advanced, TakenBack, Untouched, Aside, Replaced, Lost, ModeOnly, Planned, TypeOK, Receipt
    <3> QED BY <1>0, <2>1, <3>3, FileStays
  <2>3. CASE pc' # "remove"
    <3>1. StartRollback
      BY <1>3, <2>3 DEF MakeDestination
    <3>2. Advanced(f)' /\ TakenBack(f)'
      BY <1>0, <2>1, <3>1, StartRollbackWhere, GoesBack DEF StartRollback
    <3> QED BY <1>0, <2>1, <3>2, FileStays
  <2> QED BY <2>2, <2>3
<1>4. CASE MoveAside
  <2>1. /\ UNCHANGED <<target, before, result, records, known, op>>
        /\ pc \in {"removeMove", "replaceMove"} /\ result = "none" /\ records # <<>>
        /\ cur \in todo /\ cur \in Files /\ Has(Known, "RestoreFile", cur)
        /\ Known \subseteq Logged
    BY <1>4, <1>0, KnownLogged DEF MoveAside, Books, PlanBound, KnownBound, Passes, Covered, HandCovered, TypeOK
  <2>2. CASE f # cur
    <3>1. dest'[f] = dest[f] /\ backup'[f] = backup[f]
      BY <1>4, <1>0, <2>1, <2>2 DEF MoveAside, TypeOK, Receipt
    <3>2. Advanced(f)' /\ TakenBack(f)'
      BY <1>4, <1>0, <2>1, <2>2, <3>1 DEF MoveAside, FileOK, Advanced, TakenBack, Untouched, Aside, Replaced, Lost, ModeOnly, Planned
    <3> QED BY <1>0, <2>1, <3>1, <3>2, FileStays
  <2>3. CASE f = cur
    <3>1. Untouched(f) /\ Truthful(f)
      BY <2>1, <2>3 DEF FileOK, Advanced
    <3>2. RestoreFile(cur, dest[cur]) \in Known
      BY <1>0, <2>1, <2>3, <3>1, OriginalRecorded DEF Untouched
    <3>3. /\ dest'[f] = None /\ backup'[f] = before.dest[f] /\ before.dest[f] # None
          /\ \/ pc = "removeMove" /\ pc' = "remove" /\ todo' = todo \ {f}
             \/ pc = "replaceMove" /\ pc' = "replaced" /\ todo' = todo
          /\ UNCHANGED cur
      BY <1>4, <1>0, <2>1, <2>3, <3>1, <3>2 DEF MoveAside, Untouched, TypeOK, Receipt
    <3>4. Aside(f)'
      BY <2>1, <3>3 DEF Aside
    <3>5. Logged' = Logged /\ Known' = Known
      BY <2>1, SameRecords, SameKnown
    <3>7. ~Untouched(f)' /\ ~Replaced(f)' /\ ~Lost(f)'
      BY <3>3, JournalAssumption, <2>1, <1>0 DEF Untouched, Replaced, Lost, TypeOK, Receipt
    <3>8. pc = "removeMove" => before.live # None /\ before.live[f] = before.dest[f] /\ target[f] = None
      <4>1. pc = "removeMove" => target[f] = None /\ before.live # None
        BY <2>1, <2>3 DEF Passes, Obsolete, OwnedBy, Books, PlanBound
      <4>2. PICK r \in Known : r.kind = "RestoreFile" /\ r.file = f
        BY <2>1, <2>3 DEF Has
      <4>3. r \in Logged /\ r.content = before.dest[f]
        BY <2>1, <3>1, <4>2 DEF Truthful, FileKinds
      <4> QED BY <4>1, <4>2, <4>3 DEF Meant
    <3>9. pc = "replaceMove" => target[f] # None
      BY <2>3 DEF TypeInv, PhaseOK, OwnedBy
    <3>10. Truthful(f)' /\ Accounted(Logged, f)' /\ Accounted(Known, f)'
      BY <2>1, <3>1, <3>5, <3>7 DEF FileOK, Truthful, Accounted
    <3>11. Advanced(f)' /\ TakenBack(f)'
      BY <2>1, <2>3, <3>3, <3>7, <3>8, <3>9 DEF Advanced, TakenBack, Planned
    <3> QED BY <2>1, <3>3, <3>4, <3>10, <3>11 DEF FileOK
  <2> QED BY <2>2, <2>3
<1>5. CASE MoveBack
  <2>1. /\ UNCHANGED <<target, before, result, records, known, op>>
        /\ pc \in {"removeBack", "replaceBack"} /\ result = "none" /\ records # <<>> /\ f # cur
    BY <1>5 DEF MoveBack, Books, PlanBound, KnownBound, FileOK, Advanced
  <2>2. dest'[f] = dest[f] /\ backup'[f] = backup[f]
    BY <1>5, <1>0, <2>1 DEF MoveBack, TypeOK, Receipt
  <2>3. CASE pc = "removeBack"
    <3>1. Advanced(f)' /\ TakenBack(f)'
      BY <1>5, <1>0, <2>1, <2>2, <2>3 DEF MoveBack, FileOK, Advanced, TakenBack, Untouched, Aside, Replaced, Lost, ModeOnly, Planned
    <3> QED BY <1>0, <2>1, <2>2, <3>1, FileStays
  <2>4. CASE pc = "replaceBack"
    <3>1. StartRollback
      BY <1>5, <2>4 DEF MoveBack
    <3>2. Advanced(f)' /\ TakenBack(f)'
      BY <1>0, <2>1, <2>2, <3>1, StartRollbackWhere, GoesBack DEF StartRollback
    <3> QED BY <1>0, <2>1, <2>2, <3>2, FileStays
  <2> QED BY <2>1, <2>3, <2>4
<1>6. CASE RemovesDone
  <2>1. UNCHANGED <<target, before, result, records, dest, backup>> /\ UNCHANGED known
    BY <1>6, <1>0 DEF RemovesDone, OwnedBy, Empty, Pending
  <2>2. result = "none" => Advanced(f)' /\ TakenBack(f)'
    BY <1>6, <1>0, OnePlace DEF RemovesDone, FileOK, Advanced, TakenBack, Untouched, Aside, Replaced, Lost, ModeOnly, Planned, Bound, JournalBound, Books, PlanBound, StorageBound, KnownBound, OpenReceipts, Passes, OwnedBy, Empty, Pending
  <2>3. pc' \in Working => pc \in Working \/ known' = Len(records)
    BY <1>6, <1>0 DEF RemovesDone, OwnedBy, Empty, Pending
  <2> QED BY <1>0, <2>1, <2>2, <2>3, FileStays
<1>7. CASE RootIntent
  <2>1. Appends(RemoveDirectory, "makeRoot")
    BY <1>7, AppendingSteps
  <2>2. ((RemoveDirectory).kind \in FileKinds /\ (RemoveDirectory).file = f) =>
          IF (RemoveDirectory).kind = "RestoreFile" THEN (RemoveDirectory).content = before.dest[f]
          ELSE before.dest[f] # target[f]
    BY RecordKinds DEF FileKinds
  <2>3. ((RemoveDirectory).kind = "RemoveFile" /\ (RemoveDirectory).file = f /\ before.dest[f] # None) =>
          Has(Logged, "RestoreFile", f)
    BY RecordKinds DEF FileKinds
  <2>4. pc' = "makeRoot" /\ Known' = Logged \cup {RemoveDirectory} => Advanced(f)' /\ TakenBack(f)'
    BY <1>7, <1>0, <2>1, OnePlace DEF RootIntent, FileOK, Advanced, TakenBack, Untouched, Aside, Replaced, Lost, ModeOnly, Planned, Appends, Passes
  <2>5. pc' \in GoingBack => Advanced(f)' /\ TakenBack(f)'
    BY <1>0, <2>1, GoesBack DEF Appends
  <2> QED BY <1>0, <2>1, <2>2, <2>3, <2>4, <2>5, FileLogged
<1>8. CASE MakeRoot
  <2>1. UNCHANGED <<target, before, result, records, dest, backup>> /\ UNCHANGED known
    BY <1>8, <1>0 DEF MakeRoot
  <2>2. result = "none" => Advanced(f)' /\ TakenBack(f)'
    BY <1>8, <1>0, OnePlace DEF MakeRoot, FileOK, Advanced, TakenBack, Untouched, Aside, Replaced, Lost, ModeOnly, Planned, Bound, JournalBound, Books, PlanBound, StorageBound, KnownBound, OpenReceipts, Passes
  <2>3. pc' \in Working => pc \in Working \/ known' = Len(records)
    BY <1>8, <1>0 DEF MakeRoot
  <2> QED BY <1>0, <2>1, <2>2, <2>3, FileStays
<1>9. CASE StageCopy
  <2>1. UNCHANGED <<target, before, result, records, dest, backup>> /\ UNCHANGED known
    BY <1>9, <1>0 DEF StageCopy
  <2>2. result = "none" => Advanced(f)' /\ TakenBack(f)'
    BY <1>9, <1>0, OnePlace DEF StageCopy, FileOK, Advanced, TakenBack, Untouched, Aside, Replaced, Lost, ModeOnly, Planned, Bound, JournalBound, Books, PlanBound, StorageBound, KnownBound, OpenReceipts, Passes
  <2>3. pc' \in Working => pc \in Working \/ known' = Len(records)
    BY <1>9, <1>0 DEF StageCopy
  <2> QED BY <1>0, <2>1, <2>2, <2>3, FileStays
<1>10. CASE ReplaceIntent
  <2>1. Appends(RestoreFile(cur, dest[cur]), "replaceMove")
    BY <1>10, AppendingSteps
  <2>2. ((RestoreFile(cur, dest[cur])).kind \in FileKinds /\ (RestoreFile(cur, dest[cur])).file = f) =>
          IF (RestoreFile(cur, dest[cur])).kind = "RestoreFile" THEN (RestoreFile(cur, dest[cur])).content = before.dest[f]
          ELSE before.dest[f] # target[f]
    BY <1>10, <1>0, <2>1, OnePlace DEF ReplaceIntent, FileOK, Advanced, TakenBack, Untouched, Aside, Replaced, Lost, ModeOnly, Planned, Appends, Passes, RestoreFile, FileKinds
  <2>3. ((RestoreFile(cur, dest[cur])).kind = "RemoveFile" /\ (RestoreFile(cur, dest[cur])).file = f /\ before.dest[f] # None) =>
          Has(Logged, "RestoreFile", f)
    BY <1>10, <1>0, <2>1, OnePlace DEF ReplaceIntent, FileOK, Advanced, TakenBack, Untouched, Aside, Replaced, Lost, ModeOnly, Planned, Appends, Passes, RestoreFile, FileKinds
  <2>4. pc' = "replaceMove" /\ Known' = Logged \cup {RestoreFile(cur, dest[cur])} => Advanced(f)' /\ TakenBack(f)'
    BY <1>10, <1>0, <2>1, OnePlace DEF ReplaceIntent, FileOK, Advanced, TakenBack, Untouched, Aside, Replaced, Lost, ModeOnly, Planned, Appends, Passes
  <2>5. pc' \in GoingBack => Advanced(f)' /\ TakenBack(f)'
    BY <1>0, <2>1, GoesBack DEF Appends
  <2> QED BY <1>0, <2>1, <2>2, <2>3, <2>4, <2>5, FileLogged
<1>11. CASE PublishIntent
  <2>1. Appends(RemoveFile(cur, target[cur].sha), "publish")
    BY <1>11, AppendingSteps
  <2>11. cur = f => before.dest[f] # target[f] /\ (before.dest[f] # None => Has(Logged, "RestoreFile", f))
    <3>1. Has(Known, "StageFile", cur) /\ Known \subseteq Logged
      BY <1>11, <1>0, KnownLogged DEF PublishIntent, Covered, HandCovered
    <3>2. cur = f => before.dest[f] # target[f]
      BY <3>1 DEF FileOK, Truthful, Has, FileKinds
    <3>3. CASE pc = "replaced"
      BY <3>1, <3>2, <3>3 DEF Covered, HandCovered, Has
    <3>4. CASE pc = "staged" /\ dest[cur] = None
      BY <1>0, <2>1, <3>2, <3>4 DEF Appends, FileOK, Advanced, Passes, Untouched
    <3> QED BY <1>11, <3>2, <3>3, <3>4 DEF PublishIntent
  <2>2. ((RemoveFile(cur, target[cur].sha)).kind \in FileKinds /\ (RemoveFile(cur, target[cur].sha)).file = f) =>
          IF (RemoveFile(cur, target[cur].sha)).kind = "RestoreFile" THEN (RemoveFile(cur, target[cur].sha)).content = before.dest[f]
          ELSE before.dest[f] # target[f]
    BY <2>11 DEF RemoveFile, FileKinds
  <2>3. ((RemoveFile(cur, target[cur].sha)).kind = "RemoveFile" /\ (RemoveFile(cur, target[cur].sha)).file = f /\ before.dest[f] # None) =>
          Has(Logged, "RestoreFile", f)
    BY <2>11 DEF RemoveFile, FileKinds
  <2>4. pc' = "publish" /\ Known' = Logged \cup {RemoveFile(cur, target[cur].sha)} => Advanced(f)' /\ TakenBack(f)'
    BY <1>11, <1>0, <2>1, OnePlace DEF PublishIntent, FileOK, Advanced, TakenBack, Untouched, Aside, Replaced, Lost, ModeOnly, Planned, Appends, Passes
  <2>5. pc' \in GoingBack => Advanced(f)' /\ TakenBack(f)'
    BY <1>0, <2>1, GoesBack DEF Appends
  <2> QED BY <1>0, <2>1, <2>2, <2>3, <2>4, <2>5, FileLogged
<1>12. CASE Publish
  <2>1. /\ UNCHANGED <<target, before, result, records, known, op, backup, todo, cur>>
        /\ pc = "publish" /\ pc' = "verify" /\ result = "none" /\ records # <<>>
        /\ cur \in todo /\ cur \in Files /\ target[cur] # None /\ staged[cur] = target[cur]
        /\ RemoveFile(cur, target[cur].sha) \in Known /\ Known \subseteq Logged
    BY <1>12, <1>0, KnownLogged DEF Publish, Books, PlanBound, KnownBound, Passes, Covered, HandCovered,
       TypeInv, PhaseOK, OwnedBy
  <2>2. CASE f # cur
    <3>1. dest'[f] = dest[f] /\ backup'[f] = backup[f]
      BY <1>12, <1>0, <2>1, <2>2 DEF Publish, TypeOK, Receipt
    <3>2. Advanced(f)' /\ TakenBack(f)'
      BY <1>12, <1>0, <2>1, <2>2, <3>1 DEF Publish, FileOK, Advanced, TakenBack, Untouched, Aside, Replaced, Lost, ModeOnly, Planned
    <3> QED BY <1>0, <2>1, <3>1, <3>2, FileStays
  <2>3. CASE f = cur
    <3>1. dest[f] = None /\ dest'[f] = target[f] /\ backup'[f] = backup[f] /\ target[f] # None
      BY <1>12, <1>0, <2>1, <2>3 DEF Publish, TypeOK, Receipt
    <3>2. backup[f] = before.dest[f]
      BY <2>1, <3>1 DEF FileOK, Advanced, Untouched, Aside, Replaced, Lost, ModeOnly
    <3>3. Logged' = Logged /\ Known' = Known
      BY <2>1, SameRecords, SameKnown
    <3>4. Has(Known, "RemoveFile", f) /\ Has(Logged, "RemoveFile", f)
      BY <2>1, <2>3 DEF Has, RemoveFile
    <3>5. Replaced(f)' /\ ~Lost(f)' /\ ~Untouched(f)'
      BY <1>0, <2>1, <3>1, <3>2, OnePlace DEF Replaced, Lost, Untouched
    <3>6. Truthful(f)' /\ Accounted(Logged, f)' /\ Accounted(Known, f)'
      BY <2>1, <3>3, <3>4, <3>5 DEF FileOK, Truthful, Accounted
    <3>7. Advanced(f)' /\ TakenBack(f)'
      BY <2>1, <2>3, <3>1, <3>5 DEF Advanced, TakenBack, Planned
    <3> QED BY <2>1, <3>1, <3>2, <3>5, <3>6, <3>7 DEF FileOK
  <2> QED BY <2>2, <2>3
<1>13. CASE VerifyPublished
  <2>1. UNCHANGED <<target, before, result, records, dest, backup>> /\ UNCHANGED known
    BY <1>13, <1>0 DEF VerifyPublished
  <2>2. result = "none" => Advanced(f)' /\ TakenBack(f)'
    BY <1>13, <1>0, OnePlace DEF VerifyPublished, FileOK, Advanced, TakenBack, Untouched, Aside, Replaced, Lost, ModeOnly, Planned, Bound, JournalBound, Books, PlanBound, StorageBound, KnownBound, OpenReceipts, Passes
  <2>3. pc' \in Working => pc \in Working \/ known' = Len(records)
    BY <1>13, <1>0 DEF VerifyPublished
  <2> QED BY <1>0, <2>1, <2>2, <2>3, FileStays
<1>14. CASE ApplyDone
  <2>1. UNCHANGED <<target, before, result, records, dest, backup>> /\ UNCHANGED known
    BY <1>14, <1>0 DEF ApplyDone
  <2>2. result = "none" => Advanced(f)' /\ TakenBack(f)'
    BY <1>14, <1>0, OnePlace DEF ApplyDone, FileOK, Advanced, TakenBack, Untouched, Aside, Replaced, Lost, ModeOnly, Planned, Bound, JournalBound, Books, PlanBound, StorageBound, KnownBound, OpenReceipts, Passes
  <2>3. pc' \in Working => pc \in Working \/ known' = Len(records)
    BY <1>14, <1>0 DEF ApplyDone
  <2> QED BY <1>0, <2>1, <2>2, <2>3, FileStays
<1>15. CASE BindReceipt
  <2>1. Appends(PendingReceipt(target), "createReceipt")
    BY <1>15, AppendingSteps
  <2>2. ((PendingReceipt(target)).kind \in FileKinds /\ (PendingReceipt(target)).file = f) =>
          IF (PendingReceipt(target)).kind = "RestoreFile" THEN (PendingReceipt(target)).content = before.dest[f]
          ELSE before.dest[f] # target[f]
    BY RecordKinds DEF FileKinds
  <2>3. ((PendingReceipt(target)).kind = "RemoveFile" /\ (PendingReceipt(target)).file = f /\ before.dest[f] # None) =>
          Has(Logged, "RestoreFile", f)
    BY RecordKinds DEF FileKinds
  <2>4. pc' = "createReceipt" /\ Known' = Logged \cup {PendingReceipt(target)} => Advanced(f)' /\ TakenBack(f)'
    BY <1>15, <1>0, <2>1, OnePlace DEF BindReceipt, FileOK, Advanced, TakenBack, Untouched, Aside, Replaced, Lost, ModeOnly, Planned, Appends, Passes
  <2>5. pc' \in GoingBack => Advanced(f)' /\ TakenBack(f)'
    BY <1>0, <2>1, GoesBack DEF Appends
  <2> QED BY <1>0, <2>1, <2>2, <2>3, <2>4, <2>5, FileLogged
<1>16. CASE CreateReceipt
  <2>1. UNCHANGED <<target, before, result, records, dest, backup>> /\ UNCHANGED known
    BY <1>16, <1>0 DEF CreateReceipt
  <2>2. result = "none" => Advanced(f)' /\ TakenBack(f)'
    BY <1>16, <1>0, OnePlace DEF CreateReceipt, FileOK, Advanced, TakenBack, Untouched, Aside, Replaced, Lost, ModeOnly, Planned, Bound, JournalBound, Books, PlanBound, StorageBound, KnownBound, OpenReceipts, Passes
  <2>3. pc' \in Working => pc \in Working \/ known' = Len(records)
    BY <1>16, <1>0 DEF CreateReceipt
  <2> QED BY <1>0, <2>1, <2>2, <2>3, FileStays
<1>17. CASE WriteReceipt
  <2>1. UNCHANGED <<target, before, result, records, dest, backup>> /\ UNCHANGED known
    BY <1>17, <1>0 DEF WriteReceipt
  <2>2. result = "none" => Advanced(f)' /\ TakenBack(f)'
    BY <1>17, <1>0, OnePlace DEF WriteReceipt, FileOK, Advanced, TakenBack, Untouched, Aside, Replaced, Lost, ModeOnly, Planned, Bound, JournalBound, Books, PlanBound, StorageBound, KnownBound, OpenReceipts, Passes
  <2>3. pc' \in Working => pc \in Working \/ known' = Len(records)
    BY <1>17, <1>0 DEF WriteReceipt
  <2> QED BY <1>0, <2>1, <2>2, <2>3, FileStays
<1>18. CASE PublishReceipt
  <2>1. UNCHANGED <<target, before, result, records, dest, backup>> /\ UNCHANGED known
    BY <1>18, <1>0 DEF PublishReceipt
  <2>2. result = "none" => Advanced(f)' /\ TakenBack(f)'
    BY <1>18, <1>0, OnePlace DEF PublishReceipt, FileOK, Advanced, TakenBack, Untouched, Aside, Replaced, Lost, ModeOnly, Planned, Bound, JournalBound, Books, PlanBound, StorageBound, KnownBound, OpenReceipts, Passes
  <2>3. pc' \in Working => pc \in Working \/ known' = Len(records)
    BY <1>18, <1>0 DEF PublishReceipt
  <2> QED BY <1>0, <2>1, <2>2, <2>3, FileStays
<1>19. CASE Commit
  <2>1. Appends(Committing, "cutover")
    BY <1>19, AppendingSteps
  <2>2. ((Committing).kind \in FileKinds /\ (Committing).file = f) =>
          IF (Committing).kind = "RestoreFile" THEN (Committing).content = before.dest[f]
          ELSE before.dest[f] # target[f]
    BY RecordKinds DEF FileKinds
  <2>3. ((Committing).kind = "RemoveFile" /\ (Committing).file = f /\ before.dest[f] # None) =>
          Has(Logged, "RestoreFile", f)
    BY RecordKinds DEF FileKinds
  <2>4. pc' = "cutover" /\ Known' = Logged \cup {Committing} => Advanced(f)' /\ TakenBack(f)'
    BY <1>19, <1>0, <2>1, OnePlace DEF Commit, FileOK, Advanced, TakenBack, Untouched, Aside, Replaced, Lost, ModeOnly, Planned, Appends, Passes
  <2>5. pc' \in GoingBack => Advanced(f)' /\ TakenBack(f)'
    BY <1>0, <2>1, GoesBack DEF Appends
  <2> QED BY <1>0, <2>1, <2>2, <2>3, <2>4, <2>5, FileLogged
<1>20. CASE Cutover
  <2>1. /\ UNCHANGED <<target, before, records, known, dest, backup>> /\ pc = "cutover"
        /\ result = "none" /\ dest[f] = Planned(f)
        /\ \/ pc' = "clean" /\ result' = "committed"
           \/ pc' = "publishLive" /\ UNCHANGED result
    BY <1>20, <1>0 DEF Cutover, Operations, TypeOK, Books, PlanBound, FileOK, Advanced
  <2>2. CASE UNCHANGED result
    <3>1. Advanced(f)' /\ TakenBack(f)'
      BY <2>1, <2>2 DEF FileOK, Advanced, TakenBack, Untouched, Aside, Replaced, Lost, ModeOnly, Planned
    <3> QED BY <1>0, <2>1, <2>2, <3>1, FileStays
  <2>3. CASE result' = "committed"
    BY <2>1, <2>3, SameRecords DEF FileOK, Truthful, Planned
  <2> QED BY <2>1, <2>2, <2>3
<1>21. CASE PublishLive
  <2>1. /\ UNCHANGED <<target, before, records, dest, backup>> /\ pc = "publishLive"
        /\ result = "none" /\ dest[f] = Planned(f) /\ result' = "committed"
    BY <1>21 DEF PublishLive, Books, PlanBound, FileOK, Advanced
  <2> QED BY <2>1, SameRecords DEF FileOK, Truthful, Planned
<1>22. CASE StepBlocked
  <2>1. /\ UNCHANGED <<target, before, result, records, known, dest, backup, op>>
        /\ pc \in Forward /\ result = "none" /\ records # <<>> /\ StartRollback
    BY <1>22 DEF StepBlocked, Books, PlanBound, KnownBound
  <2>2. Advanced(f)' /\ TakenBack(f)'
    BY <1>0, <2>1, StartRollbackWhere, GoesBack DEF StartRollback
  <2> QED BY <1>0, <2>1, <2>2, FileStays
<1>23. ASSUME NEW g \in Files, KeepFile(g) PROVE FileOK(f)'
  <2>1. UNCHANGED <<target, before, result, records, dest, backup>> /\ UNCHANGED known
    BY <1>23, <1>0, JournalAssumption, SameRecords DEF KeepFile, OwnedBy
  <2>2. result = "none" => Advanced(f)' /\ TakenBack(f)'
    BY <1>23, <1>0, OnePlace, JournalAssumption, SameRecords DEF KeepFile, FileOK, Advanced, TakenBack, Untouched, Aside, Replaced, Lost, ModeOnly, Planned, Bound, JournalBound, Books, PlanBound, StorageBound, KnownBound, OpenReceipts, Passes, OwnedBy
  <2>3. pc' \in Working => pc \in Working \/ known' = Len(records)
    BY <1>23, <1>0, JournalAssumption, SameRecords DEF KeepFile, OwnedBy
  <2> QED BY <1>0, <2>1, <2>2, <2>3, FileStays
<1>24. ASSUME NEW g \in Files, RemoveIntent(g) PROVE FileOK(f)'
  <2>1. Appends(RestoreFile(g, dest[g]), "removeMove")
    BY <1>24, AppendingSteps
  <2>2. ((RestoreFile(g, dest[g])).kind \in FileKinds /\ (RestoreFile(g, dest[g])).file = f) =>
          IF (RestoreFile(g, dest[g])).kind = "RestoreFile" THEN (RestoreFile(g, dest[g])).content = before.dest[f]
          ELSE before.dest[f] # target[f]
    BY <1>24, <1>0, <2>1, OnePlace DEF RemoveIntent, FileOK, Advanced, TakenBack, Untouched, Aside, Replaced, Lost, ModeOnly, Planned, Appends, Passes, RestoreFile, FileKinds
  <2>3. ((RestoreFile(g, dest[g])).kind = "RemoveFile" /\ (RestoreFile(g, dest[g])).file = f /\ before.dest[f] # None) =>
          Has(Logged, "RestoreFile", f)
    BY <1>24, <1>0, <2>1, OnePlace DEF RemoveIntent, FileOK, Advanced, TakenBack, Untouched, Aside, Replaced, Lost, ModeOnly, Planned, Appends, Passes, RestoreFile, FileKinds
  <2>4. pc' = "removeMove" /\ Known' = Logged \cup {RestoreFile(g, dest[g])} => Advanced(f)' /\ TakenBack(f)'
    BY <1>24, <1>0, <2>1, OnePlace DEF RemoveIntent, FileOK, Advanced, TakenBack, Untouched, Aside, Replaced, Lost, ModeOnly, Planned, Appends, Passes
  <2>5. pc' \in GoingBack => Advanced(f)' /\ TakenBack(f)'
    BY <1>0, <2>1, GoesBack DEF Appends
  <2> QED BY <1>0, <2>1, <2>2, <2>3, <2>4, <2>5, FileLogged
<1>25. ASSUME NEW g \in Files, SkipIdentical(g) PROVE FileOK(f)'
  <2>1. UNCHANGED <<target, before, result, records, dest, backup>> /\ UNCHANGED known
    BY <1>25, <1>0 DEF SkipIdentical
  <2>2. result = "none" => Advanced(f)' /\ TakenBack(f)'
    BY <1>25, <1>0, OnePlace DEF SkipIdentical, FileOK, Advanced, TakenBack, Untouched, Aside, Replaced, Lost, ModeOnly, Planned, Bound, JournalBound, Books, PlanBound, StorageBound, KnownBound, OpenReceipts, Passes
  <2>3. pc' \in Working => pc \in Working \/ known' = Len(records)
    BY <1>25, <1>0 DEF SkipIdentical
  <2> QED BY <1>0, <2>1, <2>2, <2>3, FileStays
<1>26. ASSUME NEW g \in Files, StageIntent(g) PROVE FileOK(f)'
  <2>1. Appends(StageFile(g, target[g].sha), "stage")
    BY <1>26, AppendingSteps
  <2>11. g = f => before.dest[f] # target[f]
    <3>1. g = f => dest[f] = before.dest[f] /\ target[f] # None
      BY <1>26, <1>0, <2>1 DEF StageIntent, Appends, FileOK, Advanced, Untouched, TypeInv, PhaseOK, OwnedBy
    <3> QED BY <1>26, <3>1 DEF StageIntent
  <2>2. ((StageFile(g, target[g].sha)).kind \in FileKinds /\ (StageFile(g, target[g].sha)).file = f) =>
          IF (StageFile(g, target[g].sha)).kind = "RestoreFile" THEN (StageFile(g, target[g].sha)).content = before.dest[f]
          ELSE before.dest[f] # target[f]
    BY <2>11 DEF StageFile, FileKinds
  <2>3. ((StageFile(g, target[g].sha)).kind = "RemoveFile" /\ (StageFile(g, target[g].sha)).file = f /\ before.dest[f] # None) =>
          Has(Logged, "RestoreFile", f)
    BY <2>11 DEF StageFile, FileKinds
  <2>4. pc' = "stage" /\ Known' = Logged \cup {StageFile(g, target[g].sha)} => Advanced(f)' /\ TakenBack(f)'
    BY <1>26, <1>0, <2>1, OnePlace DEF StageIntent, FileOK, Advanced, TakenBack, Untouched, Aside, Replaced, Lost, ModeOnly, Planned, Appends, Passes
  <2>5. pc' \in GoingBack => Advanced(f)' /\ TakenBack(f)'
    BY <1>0, <2>1, GoesBack DEF Appends
  <2> QED BY <1>0, <2>1, <2>2, <2>3, <2>4, <2>5, FileLogged
<1> QED BY <1>1, <1>2, <1>3, <1>4, <1>5, <1>6, <1>7, <1>8, <1>9, <1>10, <1>11, <1>12, <1>13, <1>14, <1>15, <1>16, <1>17, <1>18, <1>19, <1>20, <1>21, <1>22, <1>23, <1>24, <1>25, <1>26 DEF Transact

(* Rollback brings it back ...                                              *)
LEMMA RollbackFileOK ==
  ASSUME TypeInv, Bound, Books, Covered, Meant, Passes,
         NEW f \in Files, f \notin edited, FileOK(f), Rollback
  PROVE  FileOK(f)'
<1>0. TypeOK
  BY DEF TypeInv
<1> USE DEF Forward, GoingBack, Early, Working, Ending, RemovePhases, ApplyPhases, Replacing, TailPhases, Restored
<1> USE DEF disk, files, journal, work, plan, bounds, history, Refuse
<1>1. CASE MarkRollingBack
  <2>1. CASE known = Len(records)
    <3>1. /\ records' \in Seq(Record) /\ Len(records') = Len(records) + 1 /\ known' = Len(records')
          /\ Logged' = Logged \cup {RollingBack} /\ records' # <<>> /\ pc' = "validate"
          /\ UNCHANGED <<target, before, result, dest, backup>>
      BY <1>1, <1>0, <2>1, Appended, RecordMade DEF MarkRollingBack, TypeOK
    <3>2. Known' = Logged'
      BY <3>1 DEF Known, Logged
    <3>3. /\ Untouched(f)' = Untouched(f) /\ Aside(f)' = Aside(f) /\ Replaced(f)' = Replaced(f)
          /\ Lost(f)' = Lost(f) /\ Planned(f)' = Planned(f)
      BY <3>1 DEF Untouched, Aside, Replaced, Lost, ModeOnly, Planned
    <3>4. Truthful(f)' /\ (Accounted(Logged, f) => Accounted(Logged, f)')
      BY <3>1, <3>3, RecordKinds DEF FileOK, Truthful, FileKinds, Accounted, Has
    <3>5. Accounted(Logged, f)' => Accounted(Known, f)'
      BY <3>2 DEF Accounted
    <3> QED BY <3>1, <3>3, <3>4, <3>5 DEF FileOK, Advanced, TakenBack
  <2>2. CASE known # Len(records)
    <3>1. pc' \in {"refused", "dropRoot"} /\ UNCHANGED <<target, before, result, records, dest, backup>>
      BY <1>1, <2>2 DEF MarkRollingBack
    <3>2. result = "none" => Advanced(f)' /\ TakenBack(f)'
      BY <1>1, <3>1 DEF MarkRollingBack, FileOK, Advanced, TakenBack, Untouched, Aside, Replaced, Lost, ModeOnly, Planned
    <3> QED BY <1>0, <3>1, <3>2, FileStays
  <2> QED BY <2>1, <2>2
<1>2. CASE ValidateRollback
  <2>1. /\ UNCHANGED <<target, before, result, records, known, dest, backup>>
        /\ pc = "validate" /\ records # <<>> /\ result = "none"
        /\ pc' \in {"refused", "dropRoot"} \/ (pc' = "undo" /\ todo' = Recorded("RemoveFile"))
    BY <1>2 DEF ValidateRollback, Books, PlanBound, KnownBound
  <2>2. Replaced(f) => f \in Recorded("RemoveFile")
    BY <1>0, <2>1, KnownLogged DEF FileOK, Accounted
  <2>3. Advanced(f)' /\ TakenBack(f)'
    BY <2>1, <2>2 DEF FileOK, Advanced, TakenBack, Untouched, Aside, Replaced, Lost, ModeOnly, Planned
  <2> QED BY <1>0, <2>1, <2>3, FileStays
<1>3. CASE UndoDone
  <2>1. /\ UNCHANGED <<target, before, result, records, known, dest, backup>>
        /\ pc = "undo" /\ records # <<>> /\ result = "none" /\ f \notin todo
        /\ \/ pc' = "undoRoot" /\ op = "install"
           \/ pc' = "restore" /\ op # "install" /\ todo' = Recorded("RestoreFile")
    BY <1>3 DEF UndoDone, Books, PlanBound, KnownBound
  <2>2. ~Replaced(f) /\ (Aside(f) \/ Lost(f) => Has(Known, "RestoreFile", f)) /\ Known \subseteq Logged
    BY <1>0, <2>1, KnownLogged DEF FileOK, TakenBack, Accounted, Aside, Covered, StorageCovered
  <2>3. Aside(f) \/ Lost(f) => op # "install"
    BY <2>2 DEF Meant, Has
  <2>4. Aside(f) \/ Lost(f) => f \in Recorded("RestoreFile")
    BY <1>0, <2>2, KnownLogged
  <2>5. Advanced(f)' /\ TakenBack(f)'
    BY <2>1, <2>2, <2>3, <2>4 DEF FileOK, Advanced, TakenBack, Untouched, Aside, Replaced, Lost, ModeOnly, Planned
  <2> QED BY <1>0, <2>1, <2>5, FileStays
<1>4. CASE RestoreDone
  <2>1. UNCHANGED <<target, before, result, records, dest, backup>> /\ UNCHANGED known
    BY <1>4, <1>0 DEF RestoreDone
  <2>2. result = "none" => Advanced(f)' /\ TakenBack(f)'
    BY <1>4, <1>0, OnePlace DEF RestoreDone, FileOK, Advanced, TakenBack, Untouched, Aside, Replaced, Lost, ModeOnly, Planned, Bound, JournalBound, Books, PlanBound, StorageBound, KnownBound, OpenReceipts, Passes
  <2>3. pc' \in Working => pc \in Working \/ known' = Len(records)
    BY <1>4, <1>0 DEF RestoreDone
  <2> QED BY <1>0, <2>1, <2>2, <2>3, FileStays
<1>5. CASE UndoStaged
  <2>1. UNCHANGED <<target, before, result, records, dest, backup>> /\ UNCHANGED known
    BY <1>5, <1>0 DEF UndoStaged
  <2>2. result = "none" => Advanced(f)' /\ TakenBack(f)'
    BY <1>5, <1>0, OnePlace DEF UndoStaged, FileOK, Advanced, TakenBack, Untouched, Aside, Replaced, Lost, ModeOnly, Planned, Bound, JournalBound, Books, PlanBound, StorageBound, KnownBound, OpenReceipts, Passes
  <2>3. pc' \in Working => pc \in Working \/ known' = Len(records)
    BY <1>5, <1>0 DEF UndoStaged
  <2> QED BY <1>0, <2>1, <2>2, <2>3, FileStays
<1>6. CASE UndoRoot
  <2>1. UNCHANGED <<target, before, result, records, dest, backup>> /\ UNCHANGED known
    BY <1>6, <1>0 DEF UndoRoot
  <2>2. result = "none" => Advanced(f)' /\ TakenBack(f)'
    BY <1>6, <1>0, OnePlace DEF UndoRoot, FileOK, Advanced, TakenBack, Untouched, Aside, Replaced, Lost, ModeOnly, Planned, Bound, JournalBound, Books, PlanBound, StorageBound, KnownBound, OpenReceipts, Passes
  <2>3. pc' \in Working => pc \in Working \/ known' = Len(records)
    BY <1>6, <1>0 DEF UndoRoot
  <2> QED BY <1>0, <2>1, <2>2, <2>3, FileStays
<1>7. CASE RestoreReceipt
  <2>1. UNCHANGED <<target, before, result, records, dest, backup>> /\ UNCHANGED known
    BY <1>7, <1>0 DEF RestoreReceipt
  <2>2. result = "none" => Advanced(f)' /\ TakenBack(f)'
    BY <1>7, <1>0, OnePlace DEF RestoreReceipt, FileOK, Advanced, TakenBack, Untouched, Aside, Replaced, Lost, ModeOnly, Planned, Bound, JournalBound, Books, PlanBound, StorageBound, KnownBound, OpenReceipts, Passes
  <2>3. pc' \in Working => pc \in Working \/ known' = Len(records)
    BY <1>7, <1>0 DEF RestoreReceipt
  <2> QED BY <1>0, <2>1, <2>2, <2>3, FileStays
<1>8. CASE DropStagedReceipts
  <2>1. UNCHANGED <<target, before, result, records, dest, backup>> /\ UNCHANGED known
    BY <1>8, <1>0 DEF DropStagedReceipts
  <2>2. result = "none" => Advanced(f)' /\ TakenBack(f)'
    BY <1>8, <1>0, OnePlace DEF DropStagedReceipts, FileOK, Advanced, TakenBack, Untouched, Aside, Replaced, Lost, ModeOnly, Planned, Bound, JournalBound, Books, PlanBound, StorageBound, KnownBound, OpenReceipts, Passes
  <2>3. pc' \in Working => pc \in Working \/ known' = Len(records)
    BY <1>8, <1>0 DEF DropStagedReceipts
  <2> QED BY <1>0, <2>1, <2>2, <2>3, FileStays
<1>9. ASSUME NEW g \in Files, UndoFile(g) PROVE FileOK(f)'
  <2>1. CASE g \in Recorded("RemoveFile") \ Recorded("RestoreFile") /\ Modified(g)
    <3>1. pc' \in {"refused", "dropRoot"} /\ UNCHANGED <<target, before, result, records, dest, backup>>
      BY <1>9, <2>1 DEF UndoFile
    <3>2. result = "none" => Advanced(f)' /\ TakenBack(f)'
      BY <1>9, <3>1 DEF UndoFile, FileOK, Advanced, TakenBack, Untouched, Aside, Replaced, Lost, ModeOnly, Planned
    <3> QED BY <1>0, <3>1, <3>2, FileStays
  <2>2. CASE ~(g \in Recorded("RemoveFile") \ Recorded("RestoreFile") /\ Modified(g))
    <3>1. /\ UNCHANGED <<target, before, result, records, known, backup, pc>> /\ pc = "undo"
          /\ records # <<>> /\ result = "none" /\ todo' = todo \ {g} /\ g \in todo
          /\ dest' = IF g \in Recorded("RemoveFile") /\ ~Modified(g)
                     THEN [dest EXCEPT ![g] = None] ELSE dest
      BY <1>9, <2>2 DEF UndoFile, Books, PlanBound, KnownBound
    <3>2. CASE g # f \/ dest' = dest \/ dest[f] = None
      <4>1. dest'[f] = dest[f] /\ (g = f => ~Replaced(f))
        <5>1. dest'[f] = dest[f]
          BY <1>0, <3>1, <3>2 DEF TypeOK, Receipt
        <5>2. ASSUME g = f, Replaced(f) PROVE FALSE
          <6>1. Has(Known, "RemoveFile", f) /\ dest[f] # None /\ dest[f] = target[f] /\ dest' = dest
            BY <1>0, <3>1, <3>2, <5>2, OnePlace DEF FileOK, Accounted, Replaced
          <6>2. ~Modified(f)
            BY <1>0, <6>1, PublishedRecorded
          <6>3. dest' = [dest EXCEPT ![f] = None]
            BY <1>0, <3>1, <5>2, <6>1, <6>2, KnownLogged
          <6> QED BY <1>0, <6>1, <6>3 DEF TypeOK, Receipt
        <5> QED BY <5>1, <5>2
      <4>2. Advanced(f)' /\ TakenBack(f)'
        BY <3>1, <4>1 DEF FileOK, Advanced, TakenBack, Untouched, Aside, Replaced, Lost, ModeOnly, Planned
      <4> QED BY <1>0, <3>1, <4>1, <4>2, FileStays
    <3>3. CASE g = f /\ dest[f] # None /\ dest' # dest
      <4>1. /\ dest'[f] = None /\ backup'[f] = backup[f] /\ Has(Known, "RemoveFile", f) /\ ~Modified(f)
        BY <1>0, <3>1, <3>3, KnownLogged DEF TypeOK, Receipt
      <4>2. target[f] # None /\ dest[f].sha = target[f].sha
        BY <1>0, <3>3, <4>1, PublishedRecorded
      <4>3. before.dest[f] # target[f]
        BY <1>0, <4>1, KnownLogged DEF FileOK, Truthful, Has, FileKinds
      <4>4. /\ Logged' = Logged /\ Known' = Known /\ pc \in Working
        BY <3>1, SameRecords, SameKnown
      <4>5. Untouched(f)' \/ Aside(f)' \/ Lost(f)'
        BY <1>0, <3>1, <3>3, <4>1, <4>2, <4>3, OnePlace DEF FileOK, Untouched, Aside, Replaced, Lost, ModeOnly
      <4>6. ~Replaced(f)'
        BY <3>1, <4>1, <4>2 DEF Replaced
      <4>7. Lost(f)' => Has(Known, "RestoreFile", f)
        BY <3>1, <4>1, <4>4 DEF FileOK, Accounted, Lost, ModeOnly
      <4>8. Accounted(Known, f)' /\ Accounted(Logged, f)'
        BY <1>0, <3>1, <4>4, <4>6, <4>7, KnownLogged DEF FileOK, Accounted, Has
      <4>9. Advanced(f)' /\ TakenBack(f)' /\ Truthful(f)'
        BY <3>1, <4>4, <4>6 DEF FileOK, Truthful, Advanced, TakenBack
      <4> QED BY <3>1, <4>1, <4>5, <4>8, <4>9 DEF FileOK
    <3> QED BY <3>2, <3>3
  <2> QED BY <2>1, <2>2
<1>10. ASSUME NEW g \in Files, RestoreStep(g) PROVE FileOK(f)'
  <2>1. CASE RestoreConflict(g)
    <3>1. pc' \in {"refused", "dropRoot"} /\ UNCHANGED <<target, before, result, records, dest, backup>>
      BY <1>10, <2>1 DEF RestoreStep
    <3>2. result = "none" => Advanced(f)' /\ TakenBack(f)'
      BY <1>10, <3>1 DEF RestoreStep, FileOK, Advanced, TakenBack, Untouched, Aside, Replaced, Lost, ModeOnly, Planned
    <3> QED BY <1>0, <3>1, <3>2, FileStays
  <2>2. CASE ~RestoreConflict(g)
    <3>1. /\ UNCHANGED <<target, before, result, records, known, pc>> /\ pc = "restore"
          /\ records # <<>> /\ result = "none" /\ todo' = todo \ {g} /\ g \in todo
          /\ dest' = [dest EXCEPT ![g] = IF dest[g] = None THEN backup[g] ELSE dest[g]]
          /\ backup' = [backup EXCEPT ![g] = None]
      BY <1>10, <2>2 DEF RestoreStep, Books, PlanBound, KnownBound
    <3>2. CASE g # f
      <4>1. dest'[f] = dest[f] /\ backup'[f] = backup[f]
        BY <1>0, <3>1, <3>2 DEF TypeOK, Receipt
      <4>2. Advanced(f)' /\ TakenBack(f)'
        BY <3>1, <3>2, <4>1 DEF FileOK, Advanced, TakenBack, Untouched, Aside, Replaced, Lost, ModeOnly, Planned
      <4> QED BY <1>0, <3>1, <4>1, <4>2, FileStays
    <3>3. CASE g = f
      <4>1. /\ dest'[f] = (IF dest[f] = None THEN backup[f] ELSE dest[f]) /\ backup'[f] = None
        BY <1>0, <3>1, <3>3 DEF TypeOK, Receipt
      <4>2. ~Replaced(f) /\ ~Lost(f)
        BY <2>2, <3>1, <3>3 DEF FileOK, TakenBack, Lost, RestoreConflict
      <4>3. Untouched(f) \/ Aside(f)
        BY <3>1, <4>2 DEF FileOK
      <4>4. Untouched(f)'
        BY <1>0, <3>1, <4>1, <4>3, OnePlace DEF Untouched, Aside
      <4>5. Logged' = Logged /\ Known' = Known /\ pc \in Working
        BY <3>1, SameRecords, SameKnown
      <4>6. ~Replaced(f)' /\ ~Lost(f)'
        BY <1>0, <3>1, <4>1, <4>4, OnePlace DEF Untouched, Replaced, Lost, ModeOnly
      <4>7. Accounted(Known, f)' /\ Accounted(Logged, f)'
        BY <3>1, <4>5, <4>6 DEF FileOK, Accounted
      <4>8. Advanced(f)' /\ TakenBack(f)' /\ Truthful(f)'
        BY <3>1, <4>4, <4>5, <4>6 DEF FileOK, Truthful, Advanced, TakenBack
      <4> QED BY <3>1, <4>1, <4>4, <4>7, <4>8 DEF FileOK
    <3> QED BY <3>2, <3>3
  <2> QED BY <2>1, <2>2
<1> QED BY <1>1, <1>2, <1>3, <1>4, <1>5, <1>6, <1>7, <1>8, <1>9, <1>10 DEF Rollback

(* ... cleanup leaves it alone ...                                          *)
LEMMA CleanupFileOK ==
  ASSUME TypeInv, Bound, Books, Covered, Meant, Passes,
         NEW f \in Files, f \notin edited, FileOK(f), Cleanup
  PROVE  FileOK(f)'
<1>0. TypeOK
  BY DEF TypeInv
<1> USE DEF Forward, GoingBack, Early, Working, Ending, RemovePhases, ApplyPhases, Replacing, TailPhases, Restored
<1> USE DEF disk, files, journal, work, plan, bounds, history, Refuse
<1>1. CASE Clean
  <2>1. UNCHANGED <<target, before, result, records, dest, backup>> /\ UNCHANGED known
    BY <1>1, <1>0 DEF Clean
  <2>2. result = "none" => Advanced(f)' /\ TakenBack(f)'
    BY <1>1, <1>0, OnePlace DEF Clean, FileOK, Advanced, TakenBack, Untouched, Aside, Replaced, Lost, ModeOnly, Planned, Bound, JournalBound, Books, PlanBound, StorageBound, KnownBound, OpenReceipts, Passes
  <2>3. pc' \in Working => pc \in Working \/ known' = Len(records)
    BY <1>1, <1>0 DEF Clean
  <2> QED BY <1>0, <2>1, <2>2, <2>3, FileStays
<1>2. CASE DropDestination
  <2>1. UNCHANGED <<target, before, result, records, dest, backup>> /\ UNCHANGED known
    BY <1>2, <1>0 DEF DropDestination
  <2>2. result = "none" => Advanced(f)' /\ TakenBack(f)'
    BY <1>2, <1>0, OnePlace DEF DropDestination, FileOK, Advanced, TakenBack, Untouched, Aside, Replaced, Lost, ModeOnly, Planned, Bound, JournalBound, Books, PlanBound, StorageBound, KnownBound, OpenReceipts, Passes
  <2>3. pc' \in Working => pc \in Working \/ known' = Len(records)
    BY <1>2, <1>0 DEF DropDestination
  <2> QED BY <1>0, <2>1, <2>2, <2>3, FileStays
<1>3. CASE DropReceipts
  <2>1. UNCHANGED <<target, before, result, records, dest, backup>> /\ UNCHANGED known
    BY <1>3, <1>0 DEF DropReceipts, Operations, TypeOK
  <2>2. result = "none" => Advanced(f)' /\ TakenBack(f)'
    BY <1>3, <1>0, OnePlace DEF DropReceipts, FileOK, Advanced, TakenBack, Untouched, Aside, Replaced, Lost, ModeOnly, Planned, Bound, JournalBound, Books, PlanBound, StorageBound, KnownBound, OpenReceipts, Passes, Operations, TypeOK
  <2>3. pc' \in Working => pc \in Working \/ known' = Len(records)
    BY <1>3, <1>0 DEF DropReceipts, Operations, TypeOK
  <2> QED BY <1>0, <2>1, <2>2, <2>3, FileStays
<1>4. CASE DropDeleted
  <2>1. UNCHANGED <<target, before, result, records, dest, backup>> /\ UNCHANGED known
    BY <1>4, <1>0 DEF DropDeleted
  <2>2. result = "none" => Advanced(f)' /\ TakenBack(f)'
    BY <1>4, <1>0, OnePlace DEF DropDeleted, FileOK, Advanced, TakenBack, Untouched, Aside, Replaced, Lost, ModeOnly, Planned, Bound, JournalBound, Books, PlanBound, StorageBound, KnownBound, OpenReceipts, Passes
  <2>3. pc' \in Working => pc \in Working \/ known' = Len(records)
    BY <1>4, <1>0 DEF DropDeleted
  <2> QED BY <1>0, <2>1, <2>2, <2>3, FileStays
<1>5. CASE DropJournal
  <2>1. /\ UNCHANGED <<target, before, result, dest, backup>> /\ records' = <<>> /\ pc = "dropJournal"
        /\ pc' = "dropState" /\ Logged' = {}
    BY <1>5 DEF DropJournal, Logged
  <2>2. result = "none" => Untouched(f)
    BY <2>1 DEF FileOK, TakenBack
  <2> QED BY <1>0, <2>1, <2>2, OnePlace
          DEF FileOK, Truthful, Accounted, Advanced, TakenBack, Has, Planned, Untouched, Aside, Replaced, Lost, ModeOnly
<1>6. CASE DropState
  <2>1. /\ UNCHANGED <<target, before, records, dest, backup>> /\ pc = "dropState"
        /\ result' = (IF result = "committed" THEN result ELSE "undone")
    BY <1>6 DEF DropState
  <2>2. result = "none" => dest[f] = before.dest[f]
    BY <2>1 DEF FileOK, TakenBack, Untouched
  <2> QED BY <1>0, <2>1, <2>2, SameRecords DEF FileOK, Truthful, Planned, TypeOK
<1>7. CASE DropRoot
  <2>1. UNCHANGED <<target, before, result, records, dest, backup>> /\ UNCHANGED known
    BY <1>7, <1>0 DEF DropRoot
  <2>2. result = "none" => Advanced(f)' /\ TakenBack(f)'
    BY <1>7, <1>0, OnePlace DEF DropRoot, FileOK, Advanced, TakenBack, Untouched, Aside, Replaced, Lost, ModeOnly, Planned, Bound, JournalBound, Books, PlanBound, StorageBound, KnownBound, OpenReceipts, Passes
  <2>3. pc' \in Working => pc \in Working \/ known' = Len(records)
    BY <1>7, <1>0 DEF DropRoot
  <2> QED BY <1>0, <2>1, <2>2, <2>3, FileStays
<1>8. ASSUME NEW g \in Files, Sweep(g) PROVE FileOK(f)'
  <2>1. /\ UNCHANGED <<target, before, result, records, dest>> /\ pc = "sweep"
        /\ \/ pc' \in {"refused", "dropRoot"} /\ backup' = backup
           \/ UNCHANGED <<pc, known>> /\ backup' = [backup EXCEPT ![g] = None]
    BY <1>8 DEF Sweep
  <2>2. result = "none" => backup[f] = None
    BY <2>1 DEF Passes, Empty
  <2>3. backup'[f] \in {None, backup[f]}
    BY <1>0, <2>1 DEF TypeOK, Receipt
  <2>4. CASE result = "none"
    <3>1. Advanced(f)' /\ TakenBack(f)'
      BY <2>1, <2>2, <2>3, <2>4 DEF FileOK, Advanced, TakenBack, Untouched, Aside, Replaced, Lost, ModeOnly, Planned
    <3> QED BY <1>0, <2>1, <2>2, <2>3, <2>4, <3>1, FileStays
  <2>5. CASE result # "none"
    BY <2>1, <2>3, <2>5, SameRecords DEF FileOK, Truthful, Planned
  <2> QED BY <2>4, <2>5
<1> QED BY <1>1, <1>2, <1>3, <1>4, <1>5, <1>6, <1>7, <1>8 DEF Cleanup

(* ... recovery resumes where the file is ...                               *)
LEMMA RecoveryFileOK ==
  ASSUME TypeInv, Bound, Books, Covered, Meant, Passes,
         NEW f \in Files, f \notin edited, FileOK(f), Recovery
  PROVE  FileOK(f)'
<1>0. TypeOK
  BY DEF TypeInv
<1> USE DEF Forward, GoingBack, Early, Working, Ending, RemovePhases, ApplyPhases, Replacing, TailPhases, Restored
<1> USE DEF disk, files, journal, work, plan, bounds, history, Refuse
<1>1. CASE RecoverRefuses
  <2>1. UNCHANGED <<target, before, result, records, dest, backup>> /\ known' = Len(records)
    BY <1>1 DEF RecoverRefuses, Recover
  <2>2. result = "none" => Advanced(f)' /\ TakenBack(f)'
    BY <1>1, <2>1 DEF RecoverRefuses, FileOK, Advanced, TakenBack, Untouched, Aside, Replaced, Lost, ModeOnly, Planned
  <2> QED BY <1>0, <2>1, <2>2, FileStays
<1>2. CASE RecoverEmpty
  <2>1. UNCHANGED <<target, before, result, records, dest, backup>> /\ pc' = "dropState" /\ records = <<>>
    BY <1>2 DEF RecoverEmpty, Bound, JournalBound
  <2>2. result = "none" => Advanced(f)' /\ TakenBack(f)'
    BY <1>2, <2>1 DEF RecoverEmpty, FileOK, Advanced, TakenBack, Untouched, Aside, Replaced, Lost, ModeOnly, Planned
  <2> QED BY <1>0, <2>1, <2>2, FileStays
<1>3. CASE RecoverDone
  <2>1. /\ UNCHANGED <<target, before, result, records, dest, backup>> /\ pc' = "dropDeleted"
        /\ result # "none"
    BY <1>3 DEF RecoverDone, Books, StorageBound
  <2> QED BY <1>0, <2>1, FileStays
<1>4. CASE RecoverInstall
  <2>1. UNCHANGED <<target, before, result, records, dest, backup>> /\ known' = Len(records)
    BY <1>4 DEF RecoverInstall, Recover
  <2>2. result = "none" => Advanced(f)' /\ TakenBack(f)'
    <3>1. result = "none" => pc' = "undo" /\ todo' = FilesOf({"StageFile", "RemoveFile"}) /\ records # <<>>
      BY <1>4, UndecidedGoesBack DEF RecoverInstall, Recover
    <3>2. result = "none" /\ Replaced(f) => f \in FilesOf({"StageFile", "RemoveFile"})
      BY DEF FileOK, Accounted, Has, Logged, FilesOf
    <3> QED BY <2>1, <3>1, <3>2 DEF FileOK, Advanced, TakenBack, Untouched, Aside, Replaced, Lost, ModeOnly, Planned
  <2> QED BY <1>0, <2>1, <2>2, FileStays
<1>5. CASE RecoverUpgrade
  <2>1. UNCHANGED <<target, before, result, records, dest, backup>> /\ known' = Len(records)
    BY <1>5 DEF RecoverUpgrade, Recover
  <2>2. result = "none" => Advanced(f)' /\ TakenBack(f)'
    <3>1. result = "none" => pc' \in {"validate", "refused", "mark"} /\ records # <<>>
      BY <1>5, UndecidedGoesBack DEF RecoverUpgrade
    <3> QED BY <2>1, <3>1 DEF FileOK, Advanced, TakenBack, Untouched, Aside, Replaced, Lost, ModeOnly, Planned
  <2> QED BY <1>0, <2>1, <2>2, FileStays
<1>6. CASE RecoverUninstall
  <2>1. UNCHANGED <<target, before, result, records, dest, backup>> /\ known' = Len(records)
    BY <1>6 DEF RecoverUninstall, Recover
  <2>2. result = "none" => Advanced(f)' /\ TakenBack(f)'
    <3>1. result = "none" => /\ pc' \in {"restore", "refused"} /\ records # <<>> /\ op = "uninstall"
                             /\ todo' = OnDisk("RestoreFile")
      BY <1>6, UndecidedGoesBack DEF RecoverUninstall, Recover, OnDisk
    <3>2. result = "none" /\ Aside(f) => Has(Logged, "RestoreFile", f)
      BY <1>0 DEF Aside, Covered, StorageCovered
    <3>3. result = "none" /\ Lost(f) => Has(Logged, "RestoreFile", f)
      BY DEF FileOK, Accounted
    <3>4. result = "none" /\ op = "uninstall" => ~Replaced(f)
      BY DEF FileOK, Accounted, Meant, Has
    <3>5. Has(Logged, "RestoreFile", f) => f \in OnDisk("RestoreFile")
      BY <1>0, KnownLogged
    <3> QED BY <2>1, <3>1, <3>2, <3>3, <3>4, <3>5 DEF FileOK, Advanced, TakenBack, Untouched, Aside, Replaced, Lost, ModeOnly, Planned
  <2> QED BY <1>0, <2>1, <2>2, FileStays
<1>7. CASE Retry
  <2>1. UNCHANGED <<target, before, result, records, dest, backup>> /\ pc' \notin Working
    BY <1>7, <1>0 DEF Retry
  <2>2. result = "none" => Advanced(f)' /\ TakenBack(f)'
    BY <1>7, <1>0, OnePlace DEF Retry, FileOK, Advanced, TakenBack, Untouched, Aside, Replaced, Lost, ModeOnly, Planned, Bound, JournalBound, Books, PlanBound, StorageBound, KnownBound, OpenReceipts, Passes
  <2>3. pc' \in Working => pc \in Working \/ known' = Len(records)
    BY <1>7, <1>0 DEF Retry
  <2> QED BY <1>0, <2>1, <2>2, <2>3, FileStays
<1> QED BY <1>1, <1>2, <1>3, <1>4, <1>5, <1>6, <1>7 DEF Recovery

(* ... and a failure or a crash leaves it where it is.                      *)
LEMMA FailureFileOK ==
  ASSUME TypeInv, Bound, Books, Covered, Meant, Passes,
         NEW f \in Files, f \notin edited, FileOK(f), Failure
  PROVE  FileOK(f)'
<1>0. TypeOK
  BY DEF TypeInv
<1> USE DEF Forward, GoingBack, Early, Working, Ending, RemovePhases, ApplyPhases, Replacing, TailPhases, Restored
<1> USE DEF disk, files, journal, work, plan, bounds, history, Refuse
<1>1. CASE HeaderFails
  <2>1. /\ UNCHANGED <<target, before, records, dest, backup>> /\ result' = "undone"
        /\ pc \in {"journal", "header"} /\ result = "none"
    BY <1>1 DEF HeaderFails, Books, PlanBound
  <2>2. Untouched(f)
    BY <2>1 DEF FileOK, Advanced
  <2> QED BY <2>1, <2>2, SameRecords DEF FileOK, Truthful, Untouched
<1>2. CASE WriteReceiptFails
  <2>1. /\ UNCHANGED <<target, before, result, records, known, dest, backup, op>>
        /\ pc \in Forward /\ result = "none" /\ records # <<>> /\ StartRollback
    BY <1>2 DEF WriteReceiptFails, Books, PlanBound, KnownBound
  <2>2. Advanced(f)' /\ TakenBack(f)'
    BY <1>0, <2>1, StartRollbackWhere, GoesBack DEF StartRollback
  <2> QED BY <1>0, <2>1, <2>2, FileStays
<1>3. CASE StepFails
  <2>1. /\ UNCHANGED <<target, before, result, records, known, dest, backup, op>>
        /\ pc \in Forward /\ result = "none" /\ records # <<>> /\ StartRollback
    BY <1>3 DEF StepFails, Books, PlanBound, KnownBound
  <2>2. Advanced(f)' /\ TakenBack(f)'
    BY <1>0, <2>1, StartRollbackWhere, GoesBack DEF StartRollback
  <2> QED BY <1>0, <2>1, <2>2, FileStays
<1>4. CASE Crash
  <2>1. UNCHANGED <<target, before, result, records, dest, backup>> /\ pc' \notin Working
    BY <1>4, <1>0 DEF Crash
  <2>2. result = "none" => Advanced(f)' /\ TakenBack(f)'
    BY <1>4, <1>0, OnePlace DEF Crash, FileOK, Advanced, TakenBack, Untouched, Aside, Replaced, Lost, ModeOnly, Planned, Bound, JournalBound, Books, PlanBound, StorageBound, KnownBound, OpenReceipts, Passes
  <2>3. pc' \in Working => pc \in Working \/ known' = Len(records)
    BY <1>4, <1>0 DEF Crash
  <2> QED BY <1>0, <2>1, <2>2, <2>3, FileStays
<1> QED BY <1>1, <1>2, <1>3, <1>4 DEF Failure

(* Only a new transaction has a new plan, and only the user edits.          *)
LEMMA PlanStays ==
  ASSUME Transact \/ Rollback \/ Cleanup \/ Recovery \/ Failure
  PROVE  UNCHANGED <<before, target, edited, edits>>
<1> USE DEF disk, files, journal, work, plan, bounds, history, Refuse
<1>1. CASE Transact
  BY <1>1 DEF Transact, CreateJournal, WriteHeader, MakeDestination, KeepFile, Log,
     RemoveIntent, SkipIdentical, StageIntent, MoveAside, MoveBack, RemovesDone, RootIntent,
     MakeRoot, StageCopy, ReplaceIntent, PublishIntent, Publish, VerifyPublished, ApplyDone,
     BindReceipt, CreateReceipt, WriteReceipt, PublishReceipt, Commit, Cutover, PublishLive,
     StepBlocked
<1>2. CASE Rollback
  BY <1>2 DEF Rollback, MarkRollingBack, ValidateRollback, UndoFile, RestoreStep,
     UndoDone, RestoreDone, UndoStaged, UndoRoot, RestoreReceipt, DropStagedReceipts
<1>3. CASE Cleanup
  BY <1>3 DEF Cleanup, Clean, DropDestination, DropReceipts, DropDeleted, DropJournal,
     DropState, DropRoot, Sweep
<1>4. CASE Recovery
  BY <1>4 DEF Recovery, RecoverRefuses, RecoverEmpty, RecoverDone, RecoverInstall,
     RecoverUpgrade, RecoverUninstall, Recover, Retry
<1>5. CASE Failure
  BY <1>5 DEF Failure, HeaderFails, WriteReceiptFails, StepFails, Crash
<1> QED BY <1>1, <1>2, <1>3, <1>4, <1>5

(* A new transaction finds everything in place ...                          *)
LEMMA BeginOutcomes ==
  ASSUME TypeInv, Bound, Books, Covered, NEW o \in Operations, NEW t, Begin(o, t)
  PROVE  Meant' /\ Passes' /\ Outcomes'
<1>1. TypeOK /\ records = <<>> /\ Logged' = {} /\ records' = <<>>
  BY SameRecords, LastLogged DEF TypeInv, TypeOK, Begin, Bound, JournalBound, Pending, journal
<1>2. /\ pc' = "journal" /\ result' = "none" /\ UNCHANGED <<dest, backup>>
      /\ before'.dest = dest /\ backup = Empty
  BY DEF Begin, files, Covered, StorageCovered, Spent, Pending
<1>3. ASSUME NEW f \in Files PROVE Untouched(f)' /\ ~Replaced(f)' /\ ~Lost(f)'
  BY <1>1, <1>2 DEF Untouched, Replaced, Lost, ModeOnly, Empty
<1>4. Outcomes'
  BY <1>1, <1>2, <1>3 DEF Outcomes, FileOK, Truthful, Accounted, Has, Advanced, TakenBack,
     Untouched, Forward, Working, GoingBack, Early, RemovePhases, ApplyPhases, Replacing, TailPhases,
     Restored, Ending
<1> QED BY <1>1, <1>2, <1>4 DEF Meant, Passes, RemovePhases, Replacing, Restored, Ending

(* ... the user, whose files are no longer the transaction's ...            *)
LEMMA UserEditOutcomes ==
  ASSUME TypeOK, Meant, Passes, Outcomes, NEW g \in Files, NEW c, UserEdit(g, c)
  PROVE  Meant' /\ Passes' /\ Outcomes'
<1>1. /\ UNCHANGED <<backup, records, pc, todo, cur, known, op, target, before, result>>
      /\ edited' = edited \cup {g} /\ dest' = [dest EXCEPT ![g] = c]
  BY DEF UserEdit, journal, work, plan
<1>2. Logged' = Logged /\ Known' = Known
  BY <1>1, SameRecords, SameKnown
<1>3. ASSUME NEW f \in Files, f \notin edited' PROVE FileOK(f)'
  <2>1. FileOK(f) /\ dest'[f] = dest[f] /\ backup'[f] = backup[f]
    BY <1>1, <1>3 DEF Outcomes, TypeOK, Receipt
  <2>2. result = "none" => Advanced(f)' /\ TakenBack(f)'
    BY <1>1, <2>1 DEF FileOK, Advanced, TakenBack, Untouched, Replaced, Lost, ModeOnly, Planned
  <2> QED BY <1>1, <2>1, <2>2, FileStays
<1>4. Outcomes'
  BY <1>3 DEF Outcomes
<1> QED BY <1>1, <1>2, <1>4 DEF Meant, Passes

(* ... and it begins with nothing in it.                                    *)
LEMMA InitOutcomes == Init => Meant /\ Passes /\ Outcomes
<1> SUFFICES ASSUME Init PROVE Meant /\ Passes /\ Outcomes
  OBVIOUS
<1>1. Logged = {} /\ pc = "idle" /\ result = "undone" /\ backup = Empty /\ before.dest = dest
  BY DEF Init, Logged
<1> QED BY <1>1 DEF Meant, Passes, Outcomes, FileOK, Truthful, Empty, RemovePhases, Replacing,
           Restored, Ending

(* Every step does with every file what it should.                          *)
LEMMA OutcomesStep ==
  TypeInv /\ Bound /\ Books /\ Covered /\ Meant /\ Passes /\ Outcomes /\ [Next]_vars =>
    Meant' /\ Passes' /\ Outcomes'
<1> SUFFICES ASSUME TypeInv, Bound, Books, Covered, Meant, Passes, Outcomes, [Next]_vars
             PROVE  Meant' /\ Passes' /\ Outcomes'
  OBVIOUS
<1>0. TypeOK
  BY DEF TypeInv
<1>1. CASE UNCHANGED vars
  <2>1. /\ UNCHANGED <<dest, backup, records, pc, todo, cur, known, op, target, before, result, edited>>
    BY <1>1 DEF vars, disk, files, journal, work, plan, bounds, history
  <2>2. Logged' = Logged /\ Known' = Known
    BY <2>1, SameRecords, SameKnown
  <2>3. ASSUME NEW f \in Files, f \notin edited' PROVE FileOK(f)'
    <3>1. FileOK(f) /\ (result = "none" => Advanced(f)' /\ TakenBack(f)')
      BY <2>1, <2>3 DEF Outcomes, FileOK, Advanced, TakenBack, Untouched, Replaced, Lost, ModeOnly,
         Planned
    <3> QED BY <1>0, <2>1, <3>1, FileStays
  <2>4. Outcomes'
    BY <2>3 DEF Outcomes
  <2> QED BY <2>1, <2>2, <2>4 DEF Meant, Passes
<1>2. ASSUME Transact \/ Rollback \/ Cleanup \/ Recovery \/ Failure
      PROVE  Meant' /\ Passes' /\ Outcomes'
  <2>1. edited' = edited
    BY <1>2, PlanStays
  <2>2. Meant' /\ Passes'
    BY <1>2, TransactMeant, RollbackMeant, CleanupMeant, RecoveryMeant, FailureMeant,
       TransactPasses, RollbackPasses, CleanupPasses, RecoveryPasses, FailurePasses
  <2>3. ASSUME NEW f \in Files, f \notin edited' PROVE FileOK(f)'
    <3>1. f \notin edited /\ FileOK(f)
      BY <2>1, <2>3 DEF Outcomes
    <3> QED BY <1>2, <3>1, TransactFileOK, RollbackFileOK, CleanupFileOK, RecoveryFileOK, FailureFileOK
  <2> QED BY <2>2, <2>3 DEF Outcomes
<1>3. ASSUME NEW o \in Operations, NEW t \in Manifests \cup {Empty}, Begin(o, t)
      PROVE  Meant' /\ Passes' /\ Outcomes'
  BY <1>3, BeginOutcomes
<1>4. ASSUME NEW f \in Files, NEW c \in UserContent \cup {None}, UserEdit(f, c)
      PROVE  Meant' /\ Passes' /\ Outcomes'
  BY <1>0, <1>4, UserEditOutcomes
<1> QED BY <1>1, <1>2, <1>3, <1>4 DEF Next

-----------------------------------------------------------------------------
(* Steps forward journal the root before they make it ...                   *)
LEMMA TransactRooted ==
  ASSUME TypeInv, Bound, Books, Covered, Meant, Passes, Outcomes, Rooted, Transact
  PROVE  Rooted'
<1>0. TypeOK
  BY DEF TypeInv
<1> USE DEF Rooted, Forward, GoingBack, Early, Working, Ending, RemovePhases, Replacing, Restored
<1> USE DEF disk, files, journal, work, plan, bounds, history, Refuse
<1>1. CASE CreateJournal
  BY <1>1, <1>0, SameRecords, SameKnown DEF CreateJournal, Books, PlanBound, StorageBound, KnownBound, OpenReceipts, Bound, JournalBound
<1>2. CASE WriteHeader
  <2>1. /\ records = <<>> /\ pc' = "destination" /\ UNCHANGED <<dirs, dest, backup, before, result, edited>>
        /\ (~Pending \/ result = "none") /\ pc = "header" /\ Logged' = {Header(op, rcpt["live"])}
    BY <1>2 DEF WriteHeader, Bound, JournalBound, Books, PlanBound, Logged
  <2> QED BY <1>2, <2>1, RecordKinds, <1>0 DEF Books, PlanBound
<1>3. CASE MakeDestination
  BY <1>3, <1>0, SameRecords, SameKnown, StartRollbackWhere DEF MakeDestination, Books, PlanBound, StorageBound, KnownBound, OpenReceipts
<1>4. CASE MoveAside
  BY <1>4, <1>0, SameRecords, SameKnown, KnownLogged DEF MoveAside, Empty, TypeOK, Receipt, Books, PlanBound, StorageBound, KnownBound, OpenReceipts
<1>5. CASE MoveBack
  BY <1>5, <1>0, SameRecords, SameKnown, StartRollbackWhere DEF MoveBack, Books, PlanBound, StorageBound, KnownBound, OpenReceipts, Empty, TypeOK, Receipt
<1>6. CASE RemovesDone
  BY <1>6, <1>0, SameRecords, SameKnown DEF RemovesDone, Books, PlanBound, StorageBound, KnownBound, OpenReceipts
<1>7. CASE RootIntent
  BY <1>7, <1>0, AppendingSteps, RecordKinds, KnownLogged DEF Appends, RootIntent, StageFile, RemoveFile, RestoreFile, PendingReceipt, Committing, RollingBack, RemoveDirectory, Header, Empty
<1>8. CASE MakeRoot
  BY <1>8, <1>0, SameRecords, SameKnown DEF MakeRoot, Books, PlanBound, StorageBound, KnownBound, OpenReceipts
<1>9. CASE StageCopy
  BY <1>9, <1>0, SameRecords, SameKnown DEF StageCopy, Books, PlanBound, StorageBound, KnownBound, OpenReceipts
<1>10. CASE ReplaceIntent
  BY <1>10, <1>0, AppendingSteps, RecordKinds, KnownLogged DEF Appends, ReplaceIntent, StageFile, RemoveFile, RestoreFile, PendingReceipt, Committing, RollingBack, RemoveDirectory, Header, Empty
<1>11. CASE PublishIntent
  BY <1>11, <1>0, AppendingSteps, RecordKinds, KnownLogged DEF Appends, PublishIntent, StageFile, RemoveFile, RestoreFile, PendingReceipt, Committing, RollingBack, RemoveDirectory, Header, Empty
<1>12. CASE Publish
  BY <1>12, <1>0, SameRecords, SameKnown DEF Publish, Empty, TypeOK, Receipt, Books, PlanBound, StorageBound, KnownBound, OpenReceipts
<1>13. CASE VerifyPublished
  BY <1>13, <1>0, SameRecords, SameKnown DEF VerifyPublished, Books, PlanBound, StorageBound, KnownBound, OpenReceipts
<1>14. CASE ApplyDone
  BY <1>14, <1>0, SameRecords, SameKnown DEF ApplyDone, Books, PlanBound, StorageBound, KnownBound, OpenReceipts
<1>15. CASE BindReceipt
  BY <1>15, <1>0, AppendingSteps, RecordKinds, KnownLogged DEF Appends, BindReceipt, StageFile, RemoveFile, RestoreFile, PendingReceipt, Committing, RollingBack, RemoveDirectory, Header, Empty
<1>16. CASE CreateReceipt
  BY <1>16, <1>0, SameRecords, SameKnown DEF CreateReceipt, Books, PlanBound, StorageBound, KnownBound, OpenReceipts
<1>17. CASE WriteReceipt
  BY <1>17, <1>0, SameRecords, SameKnown DEF WriteReceipt, Books, PlanBound, StorageBound, KnownBound, OpenReceipts
<1>18. CASE PublishReceipt
  BY <1>18, <1>0, SameRecords, SameKnown DEF PublishReceipt, Books, PlanBound, StorageBound, KnownBound, OpenReceipts
<1>19. CASE Commit
  BY <1>19, <1>0, AppendingSteps, RecordKinds, KnownLogged DEF Appends, Commit, StageFile, RemoveFile, RestoreFile, PendingReceipt, Committing, RollingBack, RemoveDirectory, Header, Empty
<1>20. CASE Cutover
  BY <1>20, <1>0, SameRecords, SameKnown DEF Cutover, Books, PlanBound, StorageBound, KnownBound, OpenReceipts, Operations, TypeOK
<1>21. CASE PublishLive
  BY <1>21, <1>0, SameRecords, SameKnown DEF PublishLive, Books, PlanBound, StorageBound, KnownBound, OpenReceipts
<1>22. CASE StepBlocked
  BY <1>22, <1>0, SameRecords, SameKnown, StartRollbackWhere DEF StepBlocked, Books, PlanBound, StorageBound, KnownBound, OpenReceipts
<1>23. ASSUME NEW f \in Files, KeepFile(f) PROVE Rooted'
  BY <1>23, <1>0, SameRecords, SameKnown DEF KeepFile, Books, PlanBound, StorageBound, KnownBound, OpenReceipts
<1>24. ASSUME NEW f \in Files, RemoveIntent(f) PROVE Rooted'
  BY <1>24, <1>0, AppendingSteps, RecordKinds, KnownLogged DEF Appends, RemoveIntent, StageFile, RemoveFile, RestoreFile, PendingReceipt, Committing, RollingBack, RemoveDirectory, Header, Empty
<1>25. ASSUME NEW f \in Files, SkipIdentical(f) PROVE Rooted'
  BY <1>25, <1>0, SameRecords, SameKnown DEF SkipIdentical, Books, PlanBound, StorageBound, KnownBound, OpenReceipts
<1>26. ASSUME NEW f \in Files, StageIntent(f) PROVE Rooted'
  BY <1>26, <1>0, AppendingSteps, RecordKinds, KnownLogged DEF Appends, StageIntent, StageFile, RemoveFile, RestoreFile, PendingReceipt, Committing, RollingBack, RemoveDirectory, Header, Empty
<1> HIDE DEF Rooted
<1> QED BY <1>1, <1>2, <1>3, <1>4, <1>5, <1>6, <1>7, <1>8, <1>9, <1>10, <1>11, <1>12, <1>13, <1>14, <1>15, <1>16, <1>17, <1>18, <1>19, <1>20, <1>21, <1>22, <1>23, <1>24, <1>25, <1>26 DEF Transact

(* ... rollback removes it again ...                                        *)
LEMMA RollbackRooted ==
  ASSUME TypeInv, Bound, Books, Covered, Meant, Passes, Outcomes, Rooted, Rollback
  PROVE  Rooted'
<1>0. TypeOK
  BY DEF TypeInv
<1> USE DEF Rooted, Forward, GoingBack, Early, Working, Ending, RemovePhases, Replacing, Restored
<1> USE DEF disk, files, journal, work, plan, bounds, history, Refuse
<1>1. CASE MarkRollingBack
  <2>1. /\ UNCHANGED <<dirs, dest, backup, before, result, edited>> /\ pc = "mark" /\ records # <<>>
        /\ pc' \in {"validate", "refused", "dropRoot"} /\ records' # <<>>
        /\ RemoveDirectory \in Logged' <=> RemoveDirectory \in Logged
        /\ pc' = "validate" => Known' = Logged'
    <3>1. CASE known = Len(records)
      <4>1. /\ records' \in Seq(Record) /\ Len(records') = Len(records) + 1 /\ known' = Len(records')
            /\ Logged' = Logged \cup {RollingBack} /\ records' # <<>>
        BY <1>1, <1>0, <3>1, Appended, RecordMade DEF MarkRollingBack, TypeOK
      <4> QED BY <1>1, <3>1, <4>1, RecordKinds DEF MarkRollingBack, Known, Logged, Books, KnownBound
    <3>2. CASE known # Len(records)
      BY <1>1, <3>2, SameRecords DEF MarkRollingBack, Books, KnownBound
    <3> QED BY <3>1, <3>2
  <2> QED BY <2>1
<1>2. CASE ValidateRollback
  BY <1>2, <1>0, SameRecords, SameKnown DEF ValidateRollback, Books, PlanBound, StorageBound, KnownBound, OpenReceipts
<1>3. CASE UndoDone
  BY <1>3, <1>0, SameRecords, SameKnown DEF UndoDone, Books, PlanBound, StorageBound, KnownBound, OpenReceipts
<1>4. CASE RestoreDone
  BY <1>4, <1>0, SameRecords, SameKnown, KnownLogged DEF RestoreDone, Meant, Operations, TypeOK, Books, PlanBound, StorageBound, KnownBound, OpenReceipts, StageFile, RemoveFile, RestoreFile, PendingReceipt, Committing, RollingBack, RemoveDirectory, Header
<1>5. CASE UndoStaged
  BY <1>5, <1>0, SameRecords, SameKnown DEF UndoStaged, Books, PlanBound, StorageBound, KnownBound, OpenReceipts
<1>6. CASE UndoRoot
  <2>1. /\ UNCHANGED <<dest, backup, before, result, records, known, edited>> /\ result = "none"
        /\ pc = "undoRoot" /\ pc' \in {"restoreReceipt", "clean"} /\ records # <<>>
        /\ dirs' = IF RemoveDirectory \in Known /\ TreeEmpty THEN dirs \ {"root"} ELSE dirs
    BY <1>6 DEF UndoRoot, Books, PlanBound, KnownBound
  <2>2. Logged' = Logged /\ Known' = Known /\ backup = Empty /\ Known \subseteq Logged
    BY <1>0, <2>1, SameRecords, SameKnown, KnownLogged DEF Passes
  <2>3. TreeEmpty => dest = Empty
    BY <1>0 DEF TreeEmpty, Empty, TypeOK, Receipt
  <2>4. edited = {} /\ ~before.root => TreeEmpty
    BY <1>0, <2>1 DEF Outcomes, FileOK, TakenBack, Untouched, TreeEmpty, Empty
  <2> QED BY <2>1, <2>2, <2>3, <2>4
<1>7. CASE RestoreReceipt
  BY <1>7, <1>0, SameRecords, SameKnown DEF RestoreReceipt, Books, PlanBound, StorageBound, KnownBound, OpenReceipts
<1>8. CASE DropStagedReceipts
  BY <1>8, <1>0, SameRecords, SameKnown DEF DropStagedReceipts, Books, PlanBound, StorageBound, KnownBound, OpenReceipts
<1>9. ASSUME NEW f \in Files, UndoFile(f) PROVE Rooted'
  BY <1>9, <1>0, SameRecords, SameKnown DEF UndoFile, Empty, TypeOK, Receipt, Books, PlanBound, StorageBound, KnownBound, OpenReceipts
<1>10. ASSUME NEW f \in Files, RestoreStep(f) PROVE Rooted'
  BY <1>10, <1>0, SameRecords, SameKnown DEF RestoreStep, Empty, TypeOK, Receipt, Books, PlanBound, StorageBound, KnownBound, OpenReceipts
<1> HIDE DEF Rooted
<1> QED BY <1>1, <1>2, <1>3, <1>4, <1>5, <1>6, <1>7, <1>8, <1>9, <1>10 DEF Rollback

(* ... cleanup leaves it alone, save for an empty one after the commit ...  *)
LEMMA CleanupRooted ==
  ASSUME TypeInv, Bound, Books, Covered, Meant, Passes, Outcomes, Rooted, Cleanup
  PROVE  Rooted'
<1>0. TypeOK
  BY DEF TypeInv
<1> USE DEF Rooted, Forward, GoingBack, Early, Working, Ending, RemovePhases, Replacing, Restored
<1> USE DEF disk, files, journal, work, plan, bounds, history, Refuse
<1>1. CASE Clean
  BY <1>1, <1>0, SameRecords, SameKnown DEF Clean, Books, PlanBound, StorageBound, KnownBound, OpenReceipts
<1>2. CASE DropDestination
  BY <1>2, <1>0, SameRecords, SameKnown DEF DropDestination, Books, PlanBound, StorageBound, KnownBound, OpenReceipts
<1>3. CASE DropReceipts
  BY <1>3, <1>0, SameRecords, SameKnown DEF DropReceipts, Books, PlanBound, StorageBound, KnownBound, OpenReceipts
<1>4. CASE DropDeleted
  BY <1>4, <1>0, SameRecords, SameKnown DEF DropDeleted, Books, PlanBound, StorageBound, KnownBound, OpenReceipts
<1>5. CASE DropJournal
  <2>1. /\ UNCHANGED <<dest, backup, before, result, dirs, edited>> /\ Logged' = {} /\ pc = "dropJournal"
        /\ pc' = "dropState"
    BY <1>5 DEF DropJournal, Logged
  <2> QED BY <2>1
<1>6. CASE DropState
  <2>1. /\ UNCHANGED <<dest, backup, before, records, known, edited>> /\ pc = "dropState"
        /\ dirs' = dirs \ {"state"} /\ result' = (IF result = "committed" THEN result ELSE "undone")
        /\ pc' \in {"idle", "dropRoot"}
    BY <1>6 DEF DropState
  <2>2. result = "none" /\ edited = {} => (("root" \in dirs) = before.root)
    BY <1>0, <2>1 DEF TypeOK
  <2> QED BY <1>0, <2>1, <2>2, SameRecords DEF TypeOK
<1>7. CASE DropRoot
  <2>1. /\ UNCHANGED <<dest, backup, before, result, records, known, edited>> /\ result = "committed"
        /\ pc' = "idle" /\ dirs' = IF op # "install" /\ TreeEmpty THEN dirs \ {"root"} ELSE dirs
    BY <1>7 DEF DropRoot, Books, PlanBound
  <2>2. TreeEmpty => dest = Empty
    BY <1>0 DEF TreeEmpty, Empty, TypeOK, Receipt
  <2> QED BY <2>1, <2>2, SameRecords
<1>8. ASSUME NEW f \in Files, Sweep(f) PROVE Rooted'
  BY <1>8, <1>0, SameRecords, SameKnown DEF Sweep, Empty, TypeOK, Receipt, Books, PlanBound, StorageBound, KnownBound, OpenReceipts
<1> HIDE DEF Rooted
<1> QED BY <1>1, <1>2, <1>3, <1>4, <1>5, <1>6, <1>7, <1>8 DEF Cleanup

(* ... recovery resumes ...                                                 *)
LEMMA RecoveryRooted ==
  ASSUME TypeInv, Bound, Books, Covered, Meant, Passes, Outcomes, Rooted, Recovery
  PROVE  Rooted'
<1>0. TypeOK
  BY DEF TypeInv
<1> USE DEF Rooted, Forward, GoingBack, Early, Working, Ending, RemovePhases, Replacing, Restored
<1> USE DEF disk, files, journal, work, plan, bounds, history, Refuse
<1>1. CASE RecoverRefuses
  BY <1>1, <1>0, SameRecords, SameKnown DEF RecoverRefuses, Books, PlanBound, StorageBound, KnownBound, OpenReceipts
<1>2. CASE RecoverEmpty
  BY <1>2, <1>0, SameRecords, SameKnown DEF RecoverEmpty, Books, PlanBound, StorageBound, KnownBound, OpenReceipts, Bound, JournalBound
<1>3. CASE RecoverDone
  BY <1>3, <1>0, SameRecords, SameKnown DEF RecoverDone, Books, PlanBound, StorageBound, KnownBound, OpenReceipts
<1>4. CASE RecoverInstall
  <2>1. /\ UNCHANGED <<dest, backup, before, result, dirs, edited, records>> /\ known' = Len(records)
        /\ pc' \in {"clean", "undo", "refused", "validate", "mark", "restore"}
        /\ result = "none" => pc' # "clean"
        /\ records # <<>>
    BY <1>4, UndecidedGoesBack DEF RecoverInstall, Recover, UpgradeDecision
  <2> QED BY <2>1, SameRecords, SameKnown
<1>5. CASE RecoverUpgrade
  <2>1. /\ UNCHANGED <<dest, backup, before, result, dirs, edited, records>> /\ known' = Len(records)
        /\ pc' \in {"clean", "undo", "refused", "validate", "mark", "restore"}
        /\ result = "none" => pc' # "clean"
        /\ records # <<>>
    BY <1>5, UndecidedGoesBack DEF RecoverUpgrade, Recover, UpgradeDecision
  <2> QED BY <2>1, SameRecords, SameKnown
<1>6. CASE RecoverUninstall
  <2>1. /\ UNCHANGED <<dest, backup, before, result, dirs, edited, records>> /\ known' = Len(records)
        /\ pc' \in {"clean", "undo", "refused", "validate", "mark", "restore"}
        /\ result = "none" => pc' # "clean"
        /\ records # <<>>
    BY <1>6, UndecidedGoesBack DEF RecoverUninstall, Recover, UpgradeDecision
  <2> QED BY <2>1, SameRecords, SameKnown
<1>7. CASE Retry
  BY <1>7, <1>0, SameRecords, SameKnown DEF Retry, Books, PlanBound, StorageBound, KnownBound, OpenReceipts
<1> HIDE DEF Rooted
<1> QED BY <1>1, <1>2, <1>3, <1>4, <1>5, <1>6, <1>7 DEF Recovery

(* ... and a failure leaves it to be rolled back.                           *)
LEMMA FailureRooted ==
  ASSUME TypeInv, Bound, Books, Covered, Meant, Passes, Outcomes, Rooted, Failure
  PROVE  Rooted'
<1>0. TypeOK
  BY DEF TypeInv
<1> USE DEF Rooted, Forward, GoingBack, Early, Working, Ending, RemovePhases, Replacing, Restored
<1> USE DEF disk, files, journal, work, plan, bounds, history, Refuse
<1>1. CASE HeaderFails
  <2>1. /\ UNCHANGED <<dest, backup, before, records, known, edited>> /\ pc \in {"journal", "header"}
        /\ dirs' = dirs \ {"state"} /\ result' = "undone" /\ pc' = "idle" /\ records = <<>> /\ result = "none"
    BY <1>1 DEF HeaderFails, Bound, JournalBound, Books, PlanBound
  <2>2. edited = {} => (("root" \in dirs) = before.root)
    BY <1>0, <2>1 DEF TypeOK
  <2> QED BY <1>0, <2>1, <2>2, SameRecords DEF TypeOK
<1>2. CASE WriteReceiptFails
  BY <1>2, <1>0, SameRecords, SameKnown, StartRollbackWhere DEF WriteReceiptFails, Books, PlanBound, StorageBound, KnownBound, OpenReceipts
<1>3. CASE StepFails
  BY <1>3, <1>0, SameRecords, SameKnown, StartRollbackWhere DEF StepFails, Books, PlanBound, StorageBound, KnownBound, OpenReceipts
<1>4. CASE Crash
  BY <1>4, <1>0, SameRecords, SameKnown DEF Crash, Books, PlanBound, StorageBound, KnownBound, OpenReceipts
<1> HIDE DEF Rooted
<1> QED BY <1>1, <1>2, <1>3, <1>4 DEF Failure

(* Whatever the step, the root is there when it should be.                  *)
LEMMA RootedStep ==
  TypeInv /\ Bound /\ Books /\ Covered /\ Meant /\ Passes /\ Outcomes /\ Rooted /\ [Next]_vars =>
    Rooted'
<1> SUFFICES ASSUME TypeInv, Bound, Books, Covered, Meant, Passes, Outcomes, Rooted, [Next]_vars
             PROVE  Rooted'
  OBVIOUS
<1>0. TypeOK
  BY DEF TypeInv
<1>1. CASE UNCHANGED vars
  BY <1>1, SameRecords, SameKnown DEF Rooted, vars, disk, files, journal, work, plan, bounds, history
<1>2. ASSUME NEW o \in Operations, NEW t \in Manifests \cup {Empty}, Begin(o, t) PROVE Rooted'
  <2>1. records = <<>> /\ Logged = {} /\ Logged' = {} /\ records' = <<>>
    BY <1>0, <1>2, SameRecords, LastLogged DEF TypeOK, Begin, Bound, JournalBound, Pending, journal
  <2>2. /\ pc' = "journal" /\ result' = "none" /\ UNCHANGED <<dest, backup>> /\ backup = Empty
        /\ before'.dest = dest /\ before'.root = ("root" \in dirs) /\ dirs' = dirs \cup {"state"}
    BY <1>2 DEF Begin, files, Covered, StorageCovered, Spent, Pending
  <2> QED BY <2>1, <2>2 DEF Rooted, Replacing, Working, Forward, GoingBack
<1>3. ASSUME NEW f \in Files, NEW c \in UserContent \cup {None}, UserEdit(f, c) PROVE Rooted'
  <2>1. /\ UNCHANGED <<backup, records, pc, known, before, result, dirs>> /\ "root" \in dirs
        /\ edited' = edited \cup {f}
    BY <1>3 DEF UserEdit, journal, work, plan
  <2> QED BY <2>1, SameRecords DEF Rooted, Known
<1> QED BY <1>1, <1>2, <1>3, TransactRooted, RollbackRooted, CleanupRooted, RecoveryRooted,
          FailureRooted DEF Next

(* Before the first transaction.                                            *)
LEMMA InitRooted == Init => Rooted
<1> SUFFICES ASSUME Init PROVE Rooted
  OBVIOUS
<1>1. Logged = {} /\ (TreeEmpty => dest = Empty)
  BY DEF Init, Logged, TreeEmpty, Empty
<1>2. /\ result = "undone" /\ pc = "idle" /\ backup = Empty
      /\ before.root = ("root" \in dirs) /\ before.dest = dest
      /\ "root" \notin dirs => dest = Empty
  BY <1>1 DEF Init
<1> QED BY <1>1, <1>2 DEF Rooted, Replacing

-----------------------------------------------------------------------------
(* What has been proved to hold at any time.                                *)
Accountable == Books /\ Covered /\ Meant /\ Passes /\ Outcomes /\ Rooted

(* The invariants about journal, files and outcome hold together.           *)
LEMMA AccountableAlways == Spec => [](TypeInv /\ Bound /\ Accountable)
<1>1. Init => TypeInv /\ Bound /\ Accountable
  BY InitType, InitBound, InitBooks, InitCovered, InitOutcomes, InitRooted DEF Accountable
<1>2. TypeInv /\ Bound /\ Accountable /\ [Next]_vars => (TypeInv /\ Bound /\ Accountable)'
  BY TypeStep, BoundStep, BooksStep, CoveredStep, OutcomesStep, RootedStep DEF Accountable
<1> QED BY <1>1, <1>2, PTL DEF Spec

(* However often a transaction and its recovery fail or crash, before it is *)
(* decided the original of every file the user has left alone is in place   *)
(* or set aside (but for a file of which only the mode is replaced).        *)
THEOREM OriginalsKept == Spec => []OriginalSurvives
<1>1. TypeInv /\ Accountable => OriginalSurvives
  BY DEF Accountable, Outcomes, FileOK, Untouched, Aside, Replaced, Lost, OriginalSurvives
<1> QED BY <1>1, AccountableAlways, PTL

(* A transaction that has ended has done all of its plan, or nothing: the   *)
(* tree, the receipt and the root are those of the plan or as they were.    *)
THEOREM AllOrNothing == Spec => []OutcomeTree
<1>1. TypeInv /\ Bound /\ Accountable => CommittedTree
  <2> SUFFICES ASSUME TypeInv, Bound, Accountable, result = "committed" PROVE CommittedTree
    BY DEF CommittedTree
  <2>1. \A f \in Files \ edited : dest[f] = Planned(f)
    BY DEF Accountable, Outcomes, FileOK
  <2>2. rcpt["live"] = IF target = Empty THEN None ELSE target
    BY DEF Accountable, Books, PlanBound, CommittedReceipts
  <2> QED BY <2>1, <2>2 DEF CommittedTree, Planned
<1>2. TypeInv /\ Bound /\ Accountable => UndoneTree
  BY DEF Accountable, Books, PlanBound, Outcomes, FileOK, Rooted, UndoneTree
<1> QED BY <1>1, <1>2, AccountableAlways, PTL DEF OutcomeTree

(* A step that takes a backup out of the storage puts it in its place, or   *)
(* the file is in place already, or the transaction is committed.           *)
LEMMA BackupStep ==
  ASSUME TypeInv, Bound, Accountable, Next, NEW f \in Files, backup[f] # None, backup'[f] = None
  PROVE  dest'[f] = backup[f] \/ result = "committed"
<1>1. TypeOK
  BY DEF TypeInv
<1> USE DEF disk, files, journal, work, plan, bounds, history, Refuse
<1>2. CASE backup' = backup
  BY <1>2
<1>3. CASE MoveAside
  BY <1>1, <1>3 DEF MoveAside, TypeOK, Receipt
<1>4. CASE MoveBack
  BY <1>1, <1>4 DEF MoveBack, TypeOK, Receipt
<1>5. ASSUME NEW g \in Files, RestoreStep(g) PROVE dest'[f] = backup[f]
  <2>1. /\ ~RestoreConflict(g) /\ backup' = [backup EXCEPT ![g] = None]
        /\ dest' = [dest EXCEPT ![g] = IF dest[g] = None THEN backup[g] ELSE dest[g]]
    BY <1>5 DEF RestoreStep
  <2>2. g = f
    BY <1>1, <2>1 DEF TypeOK, Receipt
  <2> QED BY <1>1, <2>1, <2>2 DEF RestoreConflict, TypeOK, Receipt
<1>6. ASSUME NEW g \in Files, Sweep(g) PROVE result = "committed"
  <2>1. pc = "sweep"
    BY <1>6 DEF Sweep
  <2>2. result # "none"
    BY <1>1, <2>1 DEF Accountable, Passes, Restored, Ending, Empty
  <2>3. result # "undone"
    BY <2>1 DEF Accountable, Books, PlanBound, StorageBound, Working, Pending
  <2> QED BY <1>1, <2>2, <2>3 DEF TypeOK
<1>7. CASE Transact
  BY <1>2, <1>3, <1>4, <1>7 DEF Transact, CreateJournal, WriteHeader, MakeDestination, KeepFile,
     RemoveIntent, SkipIdentical, StageIntent, RemovesDone, RootIntent, Log,
     MakeRoot, StageCopy, ReplaceIntent, PublishIntent, Publish, VerifyPublished, ApplyDone,
     BindReceipt, CreateReceipt, WriteReceipt, PublishReceipt, Commit, Cutover, PublishLive,
     StepBlocked
<1>8. CASE Rollback
  BY <1>2, <1>5, <1>8 DEF Rollback, MarkRollingBack, ValidateRollback, UndoFile,
     UndoDone, RestoreDone, UndoStaged, UndoRoot, RestoreReceipt, DropStagedReceipts
<1>9. CASE Cleanup
  BY <1>2, <1>6, <1>9 DEF Cleanup, Clean, DropDestination, DropReceipts, DropDeleted, DropJournal,
     DropState, DropRoot
<1>10. CASE Recovery
  BY <1>2, <1>10 DEF Recovery, RecoverRefuses, RecoverEmpty, RecoverDone, RecoverInstall,
     RecoverUpgrade, RecoverUninstall, Recover, Retry
<1>11. CASE Failure
  BY <1>2, <1>11 DEF Failure, HeaderFails, WriteReceiptFails, StepFails, Crash
<1>12. ASSUME NEW o \in Operations, NEW t \in Manifests \cup {Empty}, Begin(o, t) PROVE backup' = backup
  BY <1>12 DEF Begin
<1>13. ASSUME NEW g \in Files, NEW c \in UserContent \cup {None}, UserEdit(g, c) PROVE backup' = backup
  BY <1>13 DEF UserEdit
<1> QED BY <1>2, <1>7, <1>8, <1>9, <1>10, <1>11, <1>12, <1>13 DEF Next

(* A backup is not thrown away while it may still be needed.                *)
THEOREM BackupsReturn == Spec => BackupsNeverLost
<1>1. TypeInv /\ Bound /\ Accountable /\ [Next]_vars =>
        [\A f \in Files : (backup[f] # None /\ backup'[f] = None) =>
           dest'[f] = backup[f] \/ result = "committed"]_vars
  BY BackupStep
<1> QED BY <1>1, AccountableAlways, PTL DEF Spec, BackupsNeverLost

-----------------------------------------------------------------------------
(* The receipt a transaction began with is that of a package.               *)
Bequeathed == before.live \in Manifests \cup {None}

(* A receipt is the manifest of a package since a commit or the beginning.  *)
LEMMA BequeathedAlways == Spec => []Bequeathed
<1>1. Init => Bequeathed
  BY DEF Init, Bequeathed
<1>2. TypeInv /\ Bound /\ Accountable /\ Bequeathed /\ [Next]_vars => Bequeathed'
  <2> SUFFICES ASSUME TypeInv, Bound, Accountable, Bequeathed, [Next]_vars PROVE Bequeathed'
    OBVIOUS
  <2>1. CASE before' = before
    BY <2>1 DEF Bequeathed
  <2>2. ASSUME NEW o \in Operations, NEW t \in Manifests \cup {Empty}, Begin(o, t) PROVE Bequeathed'
    <3>1. before'.live = rcpt["live"] /\ ~Pending /\ pc = "idle"
      BY <2>2 DEF Begin
    <3>2. \/ result = "undone" /\ rcpt["live"] = before.live
          \/ /\ result = "committed" /\ (op = "uninstall") = (target = Empty)
             /\ rcpt["live"] = IF op = "uninstall" THEN None ELSE target
             /\ target \in Manifests \cup {Empty}
      BY <3>1 DEF Accountable, Books, PlanBound, CommittedReceipts, TypeInv, TypeOK
    <3> QED BY <3>1, <3>2 DEF Bequeathed
  <2>3. CASE Transact \/ Rollback \/ Cleanup \/ Recovery \/ Failure
    BY <2>1, <2>3, PlanStays
  <2>4. ASSUME NEW f \in Files, NEW c \in UserContent \cup {None}, UserEdit(f, c) PROVE Bequeathed'
    BY <2>1, <2>4 DEF UserEdit, plan
  <2>5. CASE UNCHANGED vars
    BY <2>1, <2>5 DEF vars, history, plan
  <2> QED BY <2>2, <2>3, <2>4, <2>5 DEF Next
<1> QED BY <1>1, <1>2, AccountableAlways, PTL DEF Spec

(* There are at most as many records of a kind as files they are about,     *)
(* when the file determines the record.                                     *)
LEMMA RecordPerFile ==
  ASSUME NEW R, NEW S, IsFiniteSet(S), \A r \in R : r.file \in S,
         \A r, q \in R : r.file = q.file => r = q
  PROVE  IsFiniteSet(R) /\ Cardinality(R) <= Cardinality(S) /\ Cardinality(R) \in Nat
<1> DEFINE file == [r \in R |-> r.file]
<1>1. file \in [R -> S] /\ \A r, q \in R : file[r] = file[q] => r = q
  OBVIOUS
<1>2. file \in Injection(R, S)
  BY <1>1, Fun_IsInj
<1> QED BY <1>2, FS_Injection, FS_CardinalityType

(* A union is no larger than its parts.                                     *)
LEMMA UnionBound ==
  ASSUME NEW S, NEW T, IsFiniteSet(S), IsFiniteSet(T)
  PROVE  /\ IsFiniteSet(S \cup T) /\ Cardinality(S \cup T) \in Nat
         /\ Cardinality(S \cup T) <= Cardinality(S) + Cardinality(T)
<1>1. /\ IsFiniteSet(S \cup T) /\ IsFiniteSet(S \cap T)
      /\ Cardinality(S \cup T) = Cardinality(S) + Cardinality(T) - Cardinality(S \cap T)
  BY FS_Union, FS_Intersection
<1>2. /\ Cardinality(S) \in Nat /\ Cardinality(T) \in Nat /\ Cardinality(S \cap T) \in Nat
      /\ Cardinality(S \cup T) \in Nat
  BY <1>1, FS_CardinalityType
<1> QED BY <1>1, <1>2

(* A set written down has at most as many members as are written.           *)
LEMMA FewMembers ==
  ASSUME NEW a, NEW b, NEW c, NEW d
  PROVE  /\ IsFiniteSet({a, b, c}) /\ Cardinality({a, b, c}) \in Nat /\ Cardinality({a, b, c}) <= 3
         /\ IsFiniteSet({a, b, c, d}) /\ Cardinality({a, b, c, d}) \in Nat
         /\ Cardinality({a, b, c, d}) <= 4
<1>1. IsFiniteSet({a}) /\ Cardinality({a}) = 1
  BY FS_Singleton
<1>2. IsFiniteSet({a} \cup {b}) /\ Cardinality({a} \cup {b}) \in {1, 2}
  BY <1>1, FS_AddElement
<1>3. /\ IsFiniteSet(({a} \cup {b}) \cup {c})
      /\ Cardinality(({a} \cup {b}) \cup {c}) \in {1, 2, 3}
  BY <1>2, FS_AddElement
<1>4. /\ IsFiniteSet((({a} \cup {b}) \cup {c}) \cup {d})
      /\ Cardinality((({a} \cup {b}) \cup {c}) \cup {d}) \in {1, 2, 3, 4}
  BY <1>3, FS_AddElement
<1>5. ({a} \cup {b}) \cup {c} = {a, b, c} /\ (({a} \cup {b}) \cup {c}) \cup {d} = {a, b, c, d}
  OBVIOUS
<1> QED BY <1>3, <1>4, <1>5

(* The journal announces what is done, is readable, and fits what preflight *)
(* reserved for it.                                                         *)
LEMMA Announces == TypeInv /\ Bound /\ Accountable => WriteAhead
<1> SUFFICES ASSUME TypeInv, Bound, Accountable PROVE WriteAhead
  OBVIOUS
<1>0. TypeOK
  BY DEF TypeInv
<1>1. \A k, f : f \in OnDisk(k) <=> Has(Logged, k, f)
  BY <1>0, KnownLogged
<1>2. ASSUME NEW f \in Files
      PROVE  /\ backup[f] # None => Has(Logged, "RestoreFile", f)
             /\ staged[f] # None => Has(Logged, "StageFile", f)
  BY DEF Accountable, Covered, StorageCovered
<1>3. ASSUME NEW f \in Files, result = "none", dest[f] # before.dest[f], f \notin edited
      PROVE  Has(Logged, "RestoreFile", f) \/ Has(Logged, "RemoveFile", f)
  <2>1. Aside(f) \/ Replaced(f) \/ Lost(f)
    BY <1>3 DEF Accountable, Outcomes, FileOK, Untouched
  <2>2. Accounted(Logged, f)
    BY <1>3 DEF Accountable, Outcomes, FileOK
  <2> QED BY <1>2, <2>1, <2>2 DEF Aside, Accounted
<1>4. (result = "none" /\ "root" \in dirs /\ ~before.root /\ edited = {}) => RemoveDirectory \in Logged
  BY DEF Accountable, Rooted
<1> QED BY <1>1, <1>2, <1>3, <1>4 DEF WriteAhead, Logged

(* The journal never needs more records than begin reserved space for: no   *)
(* record is written twice, and every one belongs to the plan.              *)
LEMMA Fits == TypeInv /\ Bound /\ Accountable /\ Readable /\ Bequeathed => JournalFits
<1> SUFFICES ASSUME TypeInv, Bound, Accountable, Readable, Bequeathed,
                    jfile # "absent", op # "uninstall", edited = {}
             PROVE  Len(records) <=
                      RecordsReserved(IF before.live = None THEN Empty ELSE before.live, target)
  BY DEF JournalFits
<1>0. TypeOK /\ IsFiniteSet(Logged) /\ Cardinality(Logged) = Len(records) /\ IsFiniteSet(Files)
  BY JournalAssumption DEF TypeInv, Readable, Accepted
<1>1. Logged \subseteq Record
  <2>1. records \in Seq(Record)
    BY <1>0 DEF TypeOK
  <2> QED BY <2>1 DEF Logged
<1> DEFINE old      == IF before.live = None THEN Empty ELSE before.live
           stages   == {r \in Logged : r.kind = "StageFile"}
           removes  == {r \in Logged : r.kind = "RemoveFile"}
           restores == {r \in Logged : r.kind = "RestoreFile"}
           marks    == {r \in Logged : r.kind \in {"Header", "PendingReceipt", "Committing", "RollingBack"}}
           root     == {r \in Logged : r.kind = "RemoveDirectory"}
<1>2. /\ IsFiniteSet(OwnedBy(target)) /\ IsFiniteSet(OwnedBy(old))
      /\ Cardinality(OwnedBy(target)) \in Nat /\ Cardinality(OwnedBy(old)) \in Nat
  BY <1>0, FS_Subset, FS_CardinalityType DEF OwnedBy
<1>3. /\ IsFiniteSet(stages) /\ Cardinality(stages) \in Nat
      /\ Cardinality(stages) <= Cardinality(OwnedBy(target))
  <2>1. /\ \A r \in stages : r.file \in OwnedBy(target)
        /\ \A r \in stages : r = StageFile(r.file, target[r.file].sha)
    BY <1>1 DEF Accountable, Meant, OwnedBy, Record, StageFile
  <2>2. \A r, q \in stages : r.file = q.file => r = q
    BY <2>1
  <2> QED BY <1>2, <2>1, <2>2, RecordPerFile
<1>4. /\ IsFiniteSet(removes) /\ Cardinality(removes) \in Nat
      /\ Cardinality(removes) <= Cardinality(OwnedBy(target))
  <2>1. /\ \A r \in removes : r.file \in OwnedBy(target)
        /\ \A r \in removes : r = RemoveFile(r.file, target[r.file].sha)
    BY <1>1 DEF Accountable, Meant, OwnedBy, Record, RemoveFile
  <2>2. \A r, q \in removes : r.file = q.file => r = q
    BY <2>1
  <2> QED BY <1>2, <2>1, <2>2, RecordPerFile
<1>5. /\ \A r \in restores : /\ r.file \in OwnedBy(old) /\ before.live # None
                             /\ r = RestoreFile(r.file, before.dest[r.file])
                             /\ before.dest[r.file] # None
      /\ IsFiniteSet(restores) /\ Cardinality(restores) \in Nat
      /\ Cardinality(restores) <= Cardinality(OwnedBy(old))
  <2>1. ASSUME NEW r \in restores
        PROVE  /\ r.file \in Files /\ r.file \in OwnedBy(old) /\ before.live # None
               /\ r.content = before.dest[r.file] /\ r.content \in Content
               /\ r = RestoreFile(r.file, r.content)
    <3>1. r.file \in Files /\ r.content \in Content /\ r = RestoreFile(r.file, r.content)
      BY <1>1 DEF Record, RestoreFile
    <3>2. FileOK(r.file) /\ r.kind \in FileKinds
      BY <3>1 DEF Accountable, Outcomes, FileKinds
    <3>3. r.content = before.dest[r.file]
      BY <3>2 DEF FileOK, Truthful
    <3>4. op # "install" /\ before.live[r.file] # None
      BY DEF Accountable, Meant
    <3>5. before.live # None
      BY <3>4 DEF Accountable, Books, PlanBound
    <3> QED BY <3>1, <3>3, <3>4, <3>5 DEF OwnedBy
  <2>2. \A r, q \in restores : r.file = q.file => r = q
    BY <2>1
  <2>3. None \notin Content
    BY JournalAssumption
  <2> HIDE DEF restores, old
  <2> QED BY <1>2, <2>1, <2>2, <2>3, RecordPerFile
<1>6. /\ IsFiniteSet(marks) /\ Cardinality(marks) \in Nat
      /\ Cardinality(marks) <= 4 /\ (op = "install" => Cardinality(marks) <= 3)
  <2>1. marks \subseteq {Header(op, before.live), PendingReceipt(target), Committing, RollingBack}
    <3>1. ASSUME NEW r \in Logged, r.kind = "Header" PROVE r = Header(op, before.live)
      <4>1. PICK i \in 1 .. Len(records) : r = records[i]
        BY DEF Logged
      <4>2. records # <<>> /\ ReadJournal(records)
        BY <1>0, <4>1 DEF TypeOK, Readable, Accepted
      <4>3. i = 1
        BY <1>0, <3>1, <4>1, <4>2 DEF ReadJournal, TypeOK
      <4> QED BY <4>1, <4>2, <4>3 DEF Accountable, Books, PlanBound
    <3>2. ASSUME NEW r \in Logged, r.kind = "PendingReceipt" PROVE r = PendingReceipt(target)
      BY <3>2 DEF Accountable, Books, SpareReceipts
    <3>3. ASSUME NEW r \in Logged PROVE /\ r.kind = "Committing" => r = Committing
                                        /\ r.kind = "RollingBack" => r = RollingBack
      BY <1>1 DEF Record, Committing, RollingBack
    <3> QED BY <3>1, <3>2, <3>3
  <2>2. op = "install" => RollingBack \notin Logged
    <3>1. ASSUME RollingBack \in Logged PROVE op = "upgrade"
      <4>1. PICK i \in 1 .. Len(records) : RollingBack = records[i]
        BY <3>1 DEF Logged
      <4>2. records # <<>> /\ ReadJournal(records)
        BY <1>0, <4>1 DEF TypeOK, Readable, Accepted
      <4> QED BY <4>1, <4>2 DEF ReadJournal, RollbackMarkerOK, Accountable, Books, PlanBound, Header
    <3> QED BY <3>1
  <2>3. /\ IsFiniteSet({Header(op, before.live), PendingReceipt(target), Committing})
        /\ Cardinality({Header(op, before.live), PendingReceipt(target), Committing}) <= 3
    BY FewMembers
  <2>4. /\ IsFiniteSet({Header(op, before.live), PendingReceipt(target), Committing, RollingBack})
        /\ Cardinality({Header(op, before.live), PendingReceipt(target), Committing, RollingBack}) <= 4
    BY FewMembers
  <2>6. op = "install" => marks \subseteq {Header(op, before.live), PendingReceipt(target), Committing}
    BY <2>1, <2>2
  <2> HIDE DEF marks
  <2>7. IsFiniteSet(marks) /\ Cardinality(marks) \in Nat
    BY <2>1, <2>4, FS_Subset, FS_CardinalityType
  <2>8. Cardinality(marks) <= 4
    BY <2>1, <2>4, <2>7, FewMembers, FS_Subset, FS_CardinalityType
  <2>9. op = "install" => Cardinality(marks) <= 3
    BY <2>3, <2>6, <2>7, FewMembers, FS_Subset, FS_CardinalityType
  <2> QED BY <2>7, <2>8, <2>9
<1>7. /\ root \subseteq {RemoveDirectory}
      /\ IsFiniteSet(root) /\ Cardinality(root) \in Nat
      /\ Cardinality(root) <= 1 /\ (root = {} => Cardinality(root) = 0)
  <2>1. root \subseteq {RemoveDirectory}
    BY <1>1 DEF Record, RemoveDirectory
  <2> HIDE DEF root
  <2>2. root = {} \/ root = {RemoveDirectory}
    BY <2>1
  <2>3. IsFiniteSet({}) /\ Cardinality({}) = 0
    BY FS_EmptySet
  <2>4. IsFiniteSet({RemoveDirectory}) /\ Cardinality({RemoveDirectory}) = 1
    BY FS_Singleton
  <2>5. CASE root = {}
    BY <2>3, <2>5
  <2>6. CASE root = {RemoveDirectory}
    BY <2>4, <2>6
  <2> QED BY <2>2, <2>5, <2>6
<1>8. Logged = (((stages \cup removes) \cup restores) \cup marks) \cup root
  BY <1>1 DEF Record
<1>9. op = "install" => restores = {}
  BY DEF Accountable, Meant
<1>10. root # {} => restores = {}
  <2> SUFFICES ASSUME root # {} PROVE restores = {}
    OBVIOUS
  <2>1. before.dest = Empty
    BY <1>7 DEF Accountable, Rooted
  <2>2. \A r \in restores : r.file \in Files /\ before.dest[r.file] # None
    BY <1>5 DEF OwnedBy
  <2> QED BY <2>1, <2>2 DEF Empty
<1>11. op = "upgrade" => Cardinality(OwnedBy(old)) # 0
  <2> SUFFICES ASSUME op = "upgrade" PROVE Cardinality(OwnedBy(old)) # 0
    OBVIOUS
  <2>1. before.live # None
    BY DEF Accountable, Books, PlanBound
  <2>2. old \in Receipt /\ old # Empty
    BY <2>1, TransactionAssumption DEF Bequeathed
  <2>3. OwnedBy(old) # {}
    <3> HIDE DEF old
    <3>1. OwnedBy(old) = {} => old = Empty
      BY <2>2 DEF OwnedBy, Empty, Receipt
    <3> QED BY <2>2, <3>1
  <2> QED BY <1>2, <2>3, FS_EmptySet
<1>12. op = "install" \/ op = "upgrade"
  BY <1>0 DEF TypeOK, Operations
<1>13. restores = {} => Cardinality(restores) = 0
  BY FS_EmptySet
<1> HIDE DEF stages, removes, restores, marks, root, old
<1>14. /\ IsFiniteSet(stages \cup removes) /\ Cardinality(stages \cup removes) \in Nat
       /\ Cardinality(stages \cup removes) <= Cardinality(stages) + Cardinality(removes)
  BY <1>3, <1>4, UnionBound
<1>15. /\ IsFiniteSet((stages \cup removes) \cup restores)
       /\ Cardinality((stages \cup removes) \cup restores) \in Nat
       /\ Cardinality((stages \cup removes) \cup restores)
            <= Cardinality(stages \cup removes) + Cardinality(restores)
  BY <1>5, <1>14, UnionBound
<1>16. /\ IsFiniteSet(((stages \cup removes) \cup restores) \cup marks)
       /\ Cardinality(((stages \cup removes) \cup restores) \cup marks) \in Nat
       /\ Cardinality(((stages \cup removes) \cup restores) \cup marks)
            <= Cardinality((stages \cup removes) \cup restores) + Cardinality(marks)
  BY <1>6, <1>15, UnionBound
<1>17. /\ Cardinality(Logged) \in Nat
       /\ Cardinality(Logged) <=
            Cardinality(((stages \cup removes) \cup restores) \cup marks) + Cardinality(root)
  BY <1>7, <1>8, <1>16, UnionBound
<1>18. Cardinality(Logged) <= 4 + 2 * Cardinality(OwnedBy(target)) + Cardinality(OwnedBy(old))
  BY <1>2, <1>3, <1>4, <1>5, <1>6, <1>7, <1>9, <1>10, <1>11, <1>12, <1>13, <1>14, <1>15, <1>16, <1>17
<1> QED BY <1>0, <1>18 DEF RecordsReserved, old

(* At any time, whatever has failed or crashed, the journal on disk can be  *)
(* relied on: it announces every change, its reader accepts it, and it is   *)
(* no longer than preflight reserved.                                       *)
THEOREM JournalIsSound == Spec => []JournalSound
<1>1. TypeInv /\ Bound /\ Accountable /\ Readable /\ Bequeathed => JournalSound
  <2>1. TypeInv /\ Accountable /\ Readable => JournalReadable
    BY DEF Accountable, Books, PlanBound, Header, Readable, Accepted, JournalReadable
  <2> QED BY <2>1, Announces, Fits DEF JournalSound
<1> QED BY <1>1, AccountableAlways, ReadableAlways, BequeathedAlways, PTL

-----------------------------------------------------------------------------
(* While the user has changed nothing and no replacement is one of mode     *)
(* only, every check of rollback, cleanup and recovery finds what it looks  *)
(* for.                                                                     *)
Undisturbed == edited = {} /\ \A f \in Files : ~ModeOnly(f)

(* What the journal says of a file is so.                                   *)
LEMMA RecordsTrue ==
  ASSUME TypeInv, Accountable, Undisturbed, NEW f \in Files
  PROVE  /\ f \in Recorded("RestoreFile") =>
              RestoreContent(f) = before.dest[f] /\ before.dest[f] # None
         /\ f \in Recorded("RemoveFile") => RemoveSha(f) = target[f].sha /\ target[f] # None
         /\ backup[f] \in {None, before.dest[f]} /\ ~Lost(f)
         /\ (pc \in Working /\ result = "none") =>
              /\ Untouched(f) \/ Aside(f) \/ Replaced(f)
              /\ Replaced(f) => f \in Recorded("RemoveFile")
              /\ (f \in Recorded("RemoveFile") /\ before.dest[f] # None) => f \in Recorded("RestoreFile")
<1>0. TypeOK /\ FileOK(f) /\ Known \subseteq Logged
  BY KnownLogged DEF TypeInv, Accountable, Outcomes, Undisturbed
<1>1. ASSUME f \in Recorded("RestoreFile")
      PROVE  RestoreContent(f) = before.dest[f] /\ before.dest[f] # None
  <2>1. \A r \in Known : r.kind = "RestoreFile" /\ r.file = f => r.content = before.dest[f]
    BY <1>0 DEF FileOK, Truthful, FileKinds
  <2>2. \E r \in Known : r.kind = "RestoreFile" /\ r.file = f
    BY <1>1 DEF Recorded
  <2>3. RestoreContent(f) = before.dest[f]
    BY <2>1, <2>2 DEF RestoreContent
  <2>4. \A r \in Known : r.kind = "RestoreFile" => r.content \in Content
    <3>1. Known \subseteq Record
      BY <1>0 DEF TypeOK, Known
    <3> QED BY <3>1 DEF Record
  <2> QED BY <2>1, <2>2, <2>3, <2>4, JournalAssumption
<1>2. ASSUME f \in Recorded("RemoveFile")
      PROVE  RemoveSha(f) = target[f].sha /\ target[f] # None
  <2>1. \A r \in Known : r.kind = "RemoveFile" /\ r.file = f => r.sha = target[f].sha /\ target[f] # None
    BY <1>0 DEF Accountable, Meant
  <2>2. \E r \in Known : r.kind = "RemoveFile" /\ r.file = f
    BY <1>2 DEF Recorded
  <2> QED BY <2>1, <2>2 DEF RemoveSha
<1>3. ~Lost(f) /\ backup[f] \in {None, before.dest[f]}
  BY <1>0 DEF Lost, Undisturbed, FileOK
<1>4. ASSUME pc \in Working, result = "none"
      PROVE  /\ Untouched(f) \/ Aside(f) \/ Replaced(f)
             /\ Replaced(f) => f \in Recorded("RemoveFile")
             /\ (f \in Recorded("RemoveFile") /\ before.dest[f] # None) => f \in Recorded("RestoreFile")
  <2>1. \A k : f \in Recorded(k) <=> Has(Known, k, f)
    BY <1>0, KnownLogged
  <2> QED BY <1>0, <1>3, <1>4, <2>1 DEF FileOK, Accounted
<1> QED BY <1>1, <1>2, <1>3, <1>4

(* A published file still has the digest that was published.                *)
LEMMA PublishedAsRecorded ==
  ASSUME TypeInv, Accountable, Undisturbed, NEW f \in Files, pc \in Working, result = "none",
         f \in Recorded("RemoveFile"), Replaced(f) \/ f \notin Recorded("RestoreFile")
  PROVE  ~Modified(f)
<1>1. RemoveSha(f) = target[f].sha
  BY RecordsTrue
<1>2. dest[f] = None \/ dest[f] = target[f]
  BY RecordsTrue DEF Untouched, Aside, Replaced
<1> QED BY <1>1, <1>2 DEF Modified

(* Undisturbed, the check before the rollback of an upgrade refuses nothing.*)
LEMMA ValidateGoesOn ==
  ASSUME TypeInv, Bound, Accountable, Undisturbed, ValidateRollback
  PROVE  pc' # "refused"
<1>0. TypeOK /\ pc = "validate" /\ result = "none" /\ op = "upgrade" /\ pc \in Working
  BY DEF TypeInv, ValidateRollback, Accountable, Books, PlanBound, Working, GoingBack
<1>1. /\ records # <<>> /\ Previous = before.live /\ before.live # None
      /\ records \in Seq(Record)
  BY <1>0 DEF Accountable, Books, PlanBound, KnownBound, Previous, Header, TypeOK
<1>2. /\ (rcpt["live"] = None) # (rcpt["previous"] = None)
      /\ rcpt["live"] \in {None, Previous} /\ rcpt["previous"] \in {None, Previous}
  BY <1>0, <1>1 DEF Accountable, Books, OpenReceipts
<1>3. rcpt["pending"] # None => rcpt["pending"] \in BoundReceipts(records)
  BY <1>0, <1>1, ReadsBooks DEF Accountable, Books, SpareReceipts
<1>4. ASSUME NEW f \in Recorded("RestoreFile") PROVE RestorePossible(f)
  <2>1. f \in Files
    <3>1. Known \subseteq Record
      BY <1>0 DEF TypeOK, Known
    <3> QED BY <3>1 DEF Recorded, Record
  <2>2. RestoreContent(f) = before.dest[f] /\ before.dest[f] # None
    BY <2>1, <1>4, RecordsTrue
  <2>3. CASE Untouched(f)
    BY <2>2, <2>3 DEF Untouched, RestorePossible
  <2>4. CASE Aside(f)
    BY <2>2, <2>4 DEF Aside, RestorePossible
  <2>5. CASE Replaced(f)
    <3>1. f \in Recorded("RemoveFile")
      BY <1>0, <2>1, <2>5, RecordsTrue
    <3>2. ~Modified(f)
      BY <1>0, <2>1, <2>5, <3>1, PublishedAsRecorded
    <3> QED BY <2>2, <2>5, <3>1, <3>2 DEF Replaced, RestorePossible
  <2> QED BY <1>0, <2>1, <2>3, <2>4, <2>5, RecordsTrue
<1>5. ASSUME NEW f \in Recorded("RemoveFile") \ Recorded("RestoreFile") PROVE ~Modified(f)
  <2>1. f \in Files
    <3>1. Known \subseteq Record
      BY <1>0 DEF TypeOK, Known
    <3> QED BY <3>1 DEF Recorded, Record
  <2> QED BY <1>0, <2>1, <1>5, PublishedAsRecorded
<1>6. RollbackValid
  BY <1>2, <1>3, <1>4, <1>5 DEF RollbackValid
<1> QED BY <1>6 DEF ValidateRollback

(* Undisturbed, what a rollback removes is what was published.              *)
LEMMA UndoGoesOn ==
  ASSUME TypeInv, Bound, Accountable, Undisturbed, NEW f \in Files, UndoFile(f)
  PROVE  pc' # "refused"
<1>1. pc = "undo" /\ result = "none" /\ pc \in Working
  BY DEF UndoFile, Accountable, Books, PlanBound, Working, GoingBack
<1>2. ~(f \in Recorded("RemoveFile") \ Recorded("RestoreFile") /\ Modified(f))
  BY <1>1, PublishedAsRecorded
<1> QED BY <1>1, <1>2 DEF UndoFile

(* Undisturbed, what a rollback restores is what was set aside.             *)
LEMMA RestoreGoesOn ==
  ASSUME TypeInv, Bound, Accountable, Undisturbed, NEW f \in Files, RestoreStep(f)
  PROVE  pc' # "refused"
<1>0. TypeOK
  BY DEF TypeInv
<1>1. pc = "restore" /\ f \in todo /\ result = "none" /\ pc \in Working
  BY DEF RestoreStep, Accountable, Books, PlanBound, Working, GoingBack
<1>2. f \in Recorded("RestoreFile")
  BY <1>0, <1>1, KnownLogged DEF Accountable, Passes
<1>3. RestoreContent(f) = before.dest[f] /\ before.dest[f] # None
  BY <1>2, RecordsTrue
<1>4. ~Replaced(f)
  BY <1>1 DEF Accountable, Outcomes, FileOK, TakenBack, Undisturbed
<1>5. Untouched(f) \/ Aside(f)
  BY <1>1, <1>4, RecordsTrue
<1>6. ~RestoreConflict(f)
  BY <1>3, <1>5 DEF RestoreConflict, Untouched, Aside
<1> QED BY <1>1, <1>6 DEF RestoreStep

(* Undisturbed, the backups a cleanup removes are as the journal says.      *)
LEMMA SweepGoesOn ==
  ASSUME TypeInv, Bound, Accountable, Undisturbed, NEW f \in Files, Sweep(f)
  PROVE  pc' # "refused"
<1>1. ~(backup[f] # None /\ f \in Recorded("RestoreFile") /\ backup[f] # RestoreContent(f))
  BY RecordsTrue
<1> QED BY <1>1 DEF Sweep

(* Undisturbed, the spare receipts are those the journal binds.             *)
LEMMA DropStagedGoesOn ==
  ASSUME TypeInv, Bound, Accountable, Undisturbed, DropStagedReceipts
  PROVE  pc' # "refused"
<1>1. op = "upgrade" /\ records \in Seq(Record)
  BY DEF DropStagedReceipts, TypeInv, TypeOK, Accountable, Books, PlanBound
<1>2. (rcpt["incoming"] # None \/ rcpt["pending"] # None) => target \in BoundReceipts(records)
  BY <1>1, ReadsBooks DEF Accountable, Books, SpareReceipts
<1> QED BY <1>2 DEF DropStagedReceipts

(* The journal of a pending uninstall is the one it wrote.                  *)
LEMMA UninstallStands ==
  ASSUME TypeInv, Bound, Accountable, op = "uninstall", jfile = "journal", records # <<>>,
         result # "undone"
  PROVE  UninstallValid
<1>0. TypeOK
  BY DEF TypeInv
<1>1. /\ Previous = before.live /\ target = Empty /\ Pending /\ records \in Seq(Record)
      /\ before.live # None
  BY <1>0 DEF Accountable, Books, PlanBound, StorageBound, Previous, Header, Pending, TypeOK
<1>2. rcpt["previous"] = None /\ rcpt["pending"] = None
  BY DEF Accountable, Books, SpareReceipts
<1>3. \/ rcpt["live"] = Previous /\ rcpt["deleted"] = None
      \/ rcpt["live"] = None /\ rcpt["deleted"] = Previous /\ IsCommitting(records)
  <2>1. CASE result = "none"
    BY <1>1, <2>1 DEF Accountable, Books, OpenReceipts
  <2>2. CASE result = "committed"
    BY <1>1, <2>2, ReadsBooks DEF Accountable, Books, CommittedReceipts
  <2> QED BY <1>0, <2>1, <2>2 DEF TypeOK
<1>4. ASSUME NEW i \in 2 .. Len(records), records[i].kind = "RestoreFile"
      PROVE  records[i].content = Previous[records[i].file]
  <2>1. records[i] \in Logged /\ records[i] \in Record
    BY <1>1 DEF Logged
  <2>2. records[i].file \in Files
    BY <1>4, <2>1 DEF Record
  <2> QED BY <1>1, <1>4, <2>1, <2>2 DEF Accountable, Meant, Empty
<1> QED BY <1>2, <1>3, <1>4 DEF UninstallValid

(* Undisturbed, the cleanup of a decided transaction refuses nothing.       *)
LEMMA CleanGoesOn ==
  ASSUME TypeInv, Bound, Accountable, Readable, Undisturbed, Clean
  PROVE  pc' # "refused"
<1>0. TypeOK /\ pc = "clean" /\ pc \in Working
  BY DEF TypeInv, Clean, Working
<1>1. /\ jfile = "journal" /\ records # <<>> /\ records \in Seq(Record) /\ Previous = before.live
      /\ result # "undone"
  BY <1>0 DEF Accountable, Books, PlanBound, StorageBound, KnownBound, Previous, Header, TypeOK, Pending
<1>2. ASSUME op = "upgrade", result = "none"
      PROVE  IsRollingBack(records) /\ rcpt["previous"] = None /\ rcpt["pending"] = None
             /\ rcpt["live"] = Previous
  BY <1>0, <1>1, <1>2, ReadsBooks DEF Accountable, Books, OpenReceipts, Readable, Spares
<1>3. ASSUME op = "upgrade", result = "committed"
      PROVE  /\ ~IsRollingBack(records) /\ IsCommitting(records) /\ rcpt["pending"] = None
             /\ rcpt["live"] \in BoundReceipts(records)
             /\ rcpt["previous"] \in {None, Previous}
             /\ \A f \in OwnedBy(rcpt["live"]) : dest[f] = rcpt["live"][f]
  <2>1. rcpt["live"] = target /\ LastIs(Committing) /\ PendingReceipt(target) \in Logged
    BY <1>1, <1>3 DEF Accountable, Books, CommittedReceipts
  <2>2. \A f \in OwnedBy(target) : dest[f] = target[f]
    BY <1>3 DEF Accountable, Outcomes, FileOK, Planned, Undisturbed, OwnedBy
  <2>3. rcpt["pending"] = None /\ rcpt["previous"] \in {None, Previous}
    BY <1>1, <1>3 DEF Accountable, Books, CommittedReceipts
  <2> QED BY <1>1, <2>1, <2>2, <2>3, ReadsBooks, LastLogged
<1>4. op = "uninstall" => UninstallValid
  BY <1>1, UninstallStands
<1>5. CleanupValid
  BY <1>0, <1>1, <1>2, <1>3, <1>4 DEF CleanupValid, TypeOK, Operations
<1> QED BY <1>5 DEF Clean

(* Recovery can read what it finds, save a journal without a header, ...    *)
LEMMA RecoveryReads ==
  ASSUME TypeInv, Bound, Accountable, Readable, Pending, Unreadable
  PROVE  jfile = "journal" /\ records = <<>>
<1>0. TypeOK /\ records \in Seq(Record)
  BY DEF TypeInv, TypeOK
<1>1. "state" \in dirs
  BY DEF Pending, Accountable, Books, StorageBound
<1>2. jfile # "journal" => "destination" \notin dirs
  BY DEF Accountable, Books, StorageBound
<1>3. CASE jfile = "absent"
  BY <1>1, <1>2, <1>3 DEF Readable, Spares, SpareNone, Slots, Unreadable
<1>4. CASE jfile = "done"
  <2>1. result = "committed" /\ op = "uninstall" /\ records # <<>>
    BY <1>4 DEF Accountable, Books, StorageBound, Readable, Spares
  <2>2. rcpt["live"] = None /\ IsCommitting(records) /\ records[1].op = "uninstall"
    BY <1>0, <2>1, ReadsBooks DEF Accountable, Books, PlanBound, CommittedReceipts, Header
  <2>3. ReadJournal(records)
    BY <2>1 DEF Readable, Accepted
  <2>4. rcpt["previous"] = None /\ rcpt["pending"] = None /\ rcpt["incoming"] = None
    BY <1>4 DEF Readable, Spares
  <2> QED BY <1>1, <1>2, <1>4, <2>2, <2>3, <2>4 DEF Unreadable
<1>5. CASE jfile = "journal"
  <2>1. records # <<>> => ReadJournal(records)
    BY DEF Readable, Accepted
  <2> QED BY <1>1, <1>5, <2>1 DEF Unreadable
<1> QED BY <1>0, <1>3, <1>4, <1>5 DEF TypeOK

(* ... and decides by it.                                                   *)
LEMMA RecoveryDecides ==
  ASSUME TypeInv, Bound, Accountable, Readable,
         RecoverInstall \/ RecoverUpgrade \/ RecoverUninstall
  PROVE  pc' # "refused"
<1>0. TypeOK /\ records # <<>> /\ jfile = "journal" /\ records \in Seq(Record)
  BY DEF TypeInv, TypeOK, RecoverInstall, RecoverUpgrade, RecoverUninstall
<1>1. /\ records[1].op = op /\ Previous = before.live /\ result # "undone"
      /\ (op = "install") = (before.live = None)
  BY <1>0 DEF Accountable, Books, PlanBound, StorageBound, Previous, Header, Pending
<1>2. result = "none" \/ result = "committed"
  BY <1>0, <1>1 DEF TypeOK
<1>3. CASE RecoverInstall
  <2>1. op = "install"
    BY <1>1, <1>3 DEF RecoverInstall
  <2>2. rcpt["live"] # None => rcpt["pending"] = None
    <3>1. CASE result = "none"
      BY <1>1, <2>1, <3>1 DEF Accountable, Books, OpenReceipts
    <3>2. CASE result = "committed"
      BY <3>2 DEF Accountable, Books, CommittedReceipts
    <3> QED BY <1>2, <3>1, <3>2
  <2> QED BY <1>3, <2>2 DEF RecoverInstall, Recover
<1>4. CASE RecoverUpgrade
  <2>1. op = "upgrade" /\ before.live # None /\ target # None
    BY <1>0, <1>1, <1>4, JournalAssumption DEF RecoverUpgrade, TypeOK
  <2>2. UpgradeReceiptsOK(records)
    BY <1>0, <2>1 DEF Readable, Accepted
  <2>3. ASSUME ~IsRollingBack(records), Committing \in Logged PROVE IsCommitting(records)
    <3>1. PICK i \in 1 .. Len(records) : records[i] = Committing
      BY <2>3 DEF Logged
    <3>2. i # 1
      BY <1>0, <3>1 DEF Accountable, Books, PlanBound, Header, Committing
    <3>3. i \in 2 .. Len(records)
      BY <1>0, <3>1, <3>2
    <3>4. i = Len(records)
      BY <2>2, <2>3, <3>1, <3>3 DEF UpgradeReceiptsOK
    <3> QED BY <1>0, <3>1, <3>4 DEF IsCommitting
  <2>4. CASE result = "committed"
    <3>1. /\ rcpt["live"] = target /\ rcpt["pending"] = None /\ LastIs(Committing)
          /\ PendingReceipt(target) \in Logged
      BY <1>0, <2>1, <2>4 DEF Accountable, Books, CommittedReceipts
    <3>2. RollForward
      BY <1>0, <3>1, ReadsBooks DEF RollForward
    <3>3. ~Ambiguous
      BY <2>2, <3>2 DEF Ambiguous, RollForward
    <3> QED BY <1>4, <3>2, <3>3 DEF RecoverUpgrade, Recover, UpgradeDecision
  <2>5. CASE result = "none"
    <3>0. pc = "idle"
      BY <1>4 DEF RecoverUpgrade, Recover
    <3>1. \/ OldReceiptLive
          \/ rcpt["live"] = None /\ rcpt["previous"] = Previous /\ Committing \in Logged
      BY <1>1, <2>1, <2>5, <3>0 DEF Accountable, Books, OpenReceipts, OldReceiptLive
    <3>2. IsCommitting(records) =>
            rcpt["pending"] = target /\ rcpt["pending"] \in BoundReceipts(records)
      BY <1>0, <2>1, <2>5, ReadsBooks DEF Accountable, Books, OpenReceipts, SpareReceipts
    <3>3. ~IsRollingBack(records) => ~Ambiguous
      BY <1>1, <2>1, <2>2, <2>3, <3>1, <3>2 DEF Ambiguous, OldReceiptLive
    <3> QED BY <1>4, <3>3 DEF RecoverUpgrade, Recover, UpgradeDecision
  <2> QED BY <1>2, <2>4, <2>5
<1>5. CASE RecoverUninstall
  <2>1. op = "uninstall"
    BY <1>1, <1>5 DEF RecoverUninstall
  <2>2. UninstallValid
    BY <1>0, <1>1, <2>1, UninstallStands
  <2> QED BY <1>5, <2>2 DEF RecoverUninstall, Recover
<1> QED BY <1>3, <1>4, <1>5

(* So a step into a refusal has one of the reasons named.                   *)
LEMMA RefusalStep ==
  ASSUME TypeInv, Bound, Accountable, Readable, Undisturbed,
         Transact \/ Rollback \/ Cleanup \/ Recovery \/ Failure, pc' = "refused"
  PROVE  \/ jfile' = "journal" /\ (records' = <<>> \/ known' # Len(records'))
         \/ rcpt'["pending"] = Torn
<1>0. TypeOK
  BY DEF TypeInv
<1> USE DEF disk, files, journal, work, plan, bounds, history
<1>1. CASE Transact
  <2>1. ~StartRollback
    BY <1>0, StartRollbackWhere
  <2>2. ASSUME NEW r, NEW next, next # "refused" PROVE ~Log(r, next)
    BY <2>1, <2>2 DEF Log
  <2>3. /\ ~RootIntent /\ ~ReplaceIntent /\ ~PublishIntent /\ ~BindReceipt /\ ~Commit
        /\ \A f \in Files : ~RemoveIntent(f) /\ ~StageIntent(f)
    BY <2>2 DEF RootIntent, ReplaceIntent, PublishIntent, BindReceipt, Commit, RemoveIntent, StageIntent
  <2> QED BY <1>0, <1>1, <2>1, <2>3 DEF Transact, CreateJournal, WriteHeader, MakeDestination, KeepFile,
       SkipIdentical, MoveAside, MoveBack, RemovesDone,
       MakeRoot, StageCopy, Publish, VerifyPublished, ApplyDone,
       CreateReceipt, WriteReceipt, PublishReceipt, Cutover, PublishLive,
       StepBlocked, TypeOK, Operations
<1>2. CASE Rollback
  <2>1. CASE MarkRollingBack
    <3>1. pc = "mark" /\ jfile = "journal" /\ known # Len(records)
      BY <2>1 DEF MarkRollingBack, Accountable, Books, StorageBound, Working, GoingBack
    <3> QED BY <2>1, <3>1 DEF MarkRollingBack, Refuse
  <2>2. /\ ~ValidateRollback /\ ~DropStagedReceipts
        /\ \A f \in Files : ~UndoFile(f) /\ ~RestoreStep(f)
    BY ValidateGoesOn, DropStagedGoesOn, UndoGoesOn, RestoreGoesOn
  <2> QED BY <1>2, <2>1, <2>2 DEF Rollback, UndoDone, RestoreDone, UndoStaged, UndoRoot, RestoreReceipt
<1>3. CASE Cleanup
  <2>1. ~Clean /\ \A f \in Files : ~Sweep(f)
    BY CleanGoesOn, SweepGoesOn
  <2>2. CASE DropReceipts
    BY <2>2 DEF DropReceipts, Refuse
  <2> QED BY <1>3, <2>1, <2>2 DEF Cleanup, DropDestination, DropDeleted, DropJournal, DropState, DropRoot
<1>4. CASE Recovery
  <2>1. CASE RecoverRefuses
    BY <2>1, RecoveryReads DEF RecoverRefuses
  <2>2. ~RecoverInstall /\ ~RecoverUpgrade /\ ~RecoverUninstall
    BY RecoveryDecides
  <2> QED BY <1>4, <2>1, <2>2 DEF Recovery, RecoverEmpty, RecoverDone, Retry
<1>5. CASE Failure
  <2>1. ~StartRollback
    BY <1>0, StartRollbackWhere
  <2> QED BY <1>5, <2>1 DEF Failure, HeaderFails, WriteReceiptFails, StepFails, Crash
<1> QED BY <1>1, <1>2, <1>3, <1>4, <1>5

(* Rollback and recovery refuse only because the user changed a file, the   *)
(* journal has no header or an unconfirmed record, receipt.pending is torn, *)
(* or a replacement changed only the mode.                                  *)
THEOREM RefusalsHaveReasons == Spec => []RefusalExplained
<1>1. Init => RefusalExplained
  BY DEF Init, RefusalExplained
<1>2. TypeInv /\ Bound /\ Accountable /\ Readable /\ RefusalExplained /\ [Next]_vars => RefusalExplained'
  <2> SUFFICES ASSUME TypeInv, Bound, Accountable, Readable, RefusalExplained, [Next]_vars,
                      pc' = "refused"
               PROVE  RefusalExplained'
    BY DEF RefusalExplained
  <2>0. TypeOK
    BY DEF TypeInv
  <2>1. CASE UNCHANGED vars
    BY <2>1 DEF RefusalExplained, ModeOnly, vars, disk, journal, work, plan, history
  <2>2. ASSUME Transact \/ Rollback \/ Cleanup \/ Recovery \/ Failure PROVE RefusalExplained'
    <3>1. UNCHANGED <<before, target, edited>>
      BY <2>2, PlanStays
    <3>2. CASE Undisturbed
      BY <2>2, <3>2, RefusalStep DEF RefusalExplained
    <3>3. CASE ~Undisturbed
      BY <3>1, <3>3 DEF Undisturbed, ModeOnly, RefusalExplained
    <3> QED BY <3>2, <3>3
  <2>3. ASSUME NEW o \in Operations, NEW t \in Manifests \cup {Empty}, Begin(o, t) PROVE FALSE
    BY <2>3 DEF Begin
  <2>4. ASSUME NEW f \in Files, NEW c \in UserContent \cup {None}, UserEdit(f, c)
        PROVE  RefusalExplained'
    BY <2>4 DEF UserEdit, RefusalExplained
  <2> QED BY <2>1, <2>2, <2>3, <2>4 DEF Next
<1> QED BY <1>1, <1>2, AccountableAlways, ReadableAlways, PTL DEF Spec

-----------------------------------------------------------------------------
(* The transactions implement AtomicInstall as long as no replacement       *)
(* changes only the mode of a file.                                         *)
ContentChanges == \A f \in Files : ~ModeOnly(f)

(* What is seen of the disk: while the outcome is open, the tree and the    *)
(* receipt as they were when the transaction began; then those in place.    *)
Seen ==
  /\ result = "none" =>
       /\ Tree = [f \in Files |-> IF f \in edited THEN None ELSE before.dest[f]]
       /\ Owner = before.live
  /\ result # "none" => Tree = dest /\ Owner = rcpt["live"]

(* Where contents differ by their digests, what the refinement reads from   *)
(* the disk is what the plan and the history say.                           *)
LEMMA SeenFromDisk == TypeInv /\ Bound /\ Accountable /\ ContentChanges => Seen
<1> SUFFICES ASSUME TypeInv, Bound, Accountable, ContentChanges PROVE Seen
  OBVIOUS
<1>0. TypeOK
  BY DEF TypeInv
<1>1. ASSUME NEW f \in Files, f \notin edited, result = "none" PROVE Original(f) = before.dest[f]
  <2>1. FileOK(f) /\ ~Lost(f)
    BY <1>1 DEF Accountable, Outcomes, Lost, ContentChanges
  <2>2. \A k : f \in OnDisk(k) <=> Has(Logged, k, f)
    BY <1>0, KnownLogged
  <2>3. before.dest[f] = None => ~Has(Logged, "RestoreFile", f)
    <3>1. Logged \subseteq Record
      BY <1>0 DEF Logged, TypeOK
    <3>2. \A r \in Logged : r.kind = "RestoreFile" => r.content # None
      BY <3>1, JournalAssumption DEF Record
    <3> QED BY <2>1, <3>2 DEF FileOK, Truthful, Has, FileKinds
  <2>4. Accounted(Logged, f) /\ (Untouched(f) \/ Aside(f) \/ Replaced(f))
    BY <1>1, <2>1 DEF FileOK
  <2>5. CASE Untouched(f)
    BY <2>2, <2>4, <2>5 DEF Untouched, Accounted, Original
  <2>6. CASE Aside(f)
    BY <2>6 DEF Aside, Original
  <2>7. CASE Replaced(f)
    BY <2>2, <2>3, <2>4, <2>7 DEF Replaced, Accounted, Original
  <2> QED BY <2>4, <2>5, <2>6, <2>7
<1>2. result = "none" => Owner = before.live
  BY DEF Accountable, Books, OpenReceipts, Owner
<1>3. result # "none" => Owner = rcpt["live"]
  <2>1. CASE result = "committed"
    BY <1>0, <2>1, JournalAssumption
       DEF Accountable, Books, CommittedReceipts, SpareReceipts, Owner, TypeOK
  <2>2. CASE result = "undone"
    BY <2>2 DEF Accountable, Books, PlanBound, SpareReceipts, SpareNone, Slots, Owner
  <2> QED BY <1>0, <2>1, <2>2 DEF TypeOK
<1>4. result # "none" => Tree = dest
  BY <1>0 DEF Tree, Open, TypeOK, Receipt
<1>5. result = "none" => Tree = [f \in Files |-> IF f \in edited THEN None ELSE before.dest[f]]
  BY <1>1 DEF Tree, Open
<1> QED BY <1>2, <1>3, <1>4, <1>5 DEF Seen

(* A new transaction opens a plan ...                                       *)
LEMMA BeginsAtomically ==
  ASSUME TypeInv, Bound, Accountable, Seen, Seen',
         NEW o \in Operations, NEW t \in Manifests \cup {Empty}, Begin(o, t)
  PROVE  Atomic!Begin(t)
<1>1. TypeOK /\ result # "none" /\ result' = "none" /\ target' = t /\ edited' = {}
  BY DEF TypeInv, Begin, Accountable, Books, PlanBound
<1>2. before'.dest = dest /\ before'.live = rcpt["live"]
  BY DEF Begin
<1>3. Tree' = Tree /\ Owner' = Owner
  BY <1>1, <1>2 DEF Seen, TypeOK, Receipt
<1>4. t = Empty => Owner # None
  BY <1>1, TransactionAssumption DEF Begin, Seen
<1> QED BY <1>1, <1>3, <1>4 DEF Atomic!Begin, Open

(* ... the commit point and the end of a rollback close it ...              *)
LEMMA CommitsAtomically ==
  ASSUME TypeInv, TypeInv', Bound, Accountable, Accountable', Seen, Seen', result = "none",
         result' = "committed", UNCHANGED <<before, target, edited>>
  PROVE  Atomic!Commit
<1>1. TypeOK /\ TypeOK'
  BY DEF TypeInv
<1>2. Tree' \in [Files -> Content \cup {None}] /\ target # Closed
  BY <1>1, ClosedAssumption DEF Seen, TypeOK, Receipt
<1>3. ASSUME NEW f \in Files \ edited PROVE Tree'[f] = Atomic!Installed(f)
  <2>1. Tree'[f] = Planned(f)'
    BY <1>3 DEF Accountable, Outcomes, FileOK, Seen
  <2>2. Planned(f)' = Planned(f)
    BY DEF Planned
  <2>3. Tree[f] = before.dest[f] /\ Owner = before.live
    BY <1>3 DEF Seen
  <2> QED BY <2>1, <2>2, <2>3 DEF Planned, Atomic!Installed, Open
<1>4. Owner' = IF target = Empty THEN None ELSE target
  <2>1. (op = "uninstall")' <=> target = Empty
    BY DEF Accountable, Books, PlanBound
  <2> QED BY <2>1 DEF Accountable, Books, CommittedReceipts, Seen
<1> QED BY <1>2, <1>3, <1>4 DEF Atomic!Commit, Atomic!Close, Open

(* The end of a rollback is the step GiveUp of the abstract transaction.    *)
LEMMA GivesUpAtomically ==
  ASSUME TypeInv, TypeInv', Bound, Accountable, Accountable', Seen, Seen', result = "none",
         result' = "undone", UNCHANGED <<before, target, edited>>
  PROVE  Atomic!GiveUp
<1>1. TypeOK /\ TypeOK'
  BY DEF TypeInv
<1>2. Tree' \in [Files -> Content \cup {None}] /\ target # Closed
  BY <1>1, ClosedAssumption DEF Seen, TypeOK, Receipt
<1>3. ASSUME NEW f \in Files \ edited PROVE Tree'[f] = Tree[f]
  BY <1>3 DEF Accountable, Outcomes, FileOK, Seen
<1>4. Owner' = Owner
  BY DEF Accountable, Books, PlanBound, Seen
<1> QED BY <1>2, <1>3, <1>4 DEF Atomic!GiveUp, Atomic!Close, Open

(* A transaction that is decided stays so ...                               *)
LEMMA DecidedStays ==
  ASSUME TypeInv, Bound, Accountable, result # "none",
         Transact \/ Rollback \/ Cleanup \/ Recovery \/ Failure
  PROVE  result' # "none" /\ dest' = dest /\ rcpt'["live"] = rcpt["live"]
<1>0. TypeOK
  BY DEF TypeInv
<1>1. ~(pc = "idle" /\ ~Pending)
  <2> USE DEF Forward
  <2>1. pc = "idle" => ~Transact /\ ~Rollback /\ ~Cleanup
    BY DEF Transact, CreateJournal, WriteHeader, MakeDestination, KeepFile,
     RemoveIntent, SkipIdentical, StageIntent, MoveAside, MoveBack, RemovesDone, RootIntent,
     MakeRoot, StageCopy, ReplaceIntent, PublishIntent, Publish, VerifyPublished, ApplyDone,
     BindReceipt, CreateReceipt, WriteReceipt, PublishReceipt, Commit, Cutover, PublishLive,
     StepBlocked, Rollback, MarkRollingBack, ValidateRollback, UndoFile, RestoreStep,
     UndoDone, RestoreDone, UndoStaged, UndoRoot, RestoreReceipt, DropStagedReceipts,
     Cleanup, Clean, DropDestination, DropReceipts, DropDeleted, DropJournal,
     DropState, DropRoot, Sweep
  <2>2. pc = "idle" /\ ~Pending => ~Recovery /\ ~Failure
    BY DEF Recovery, RecoverRefuses, RecoverEmpty, RecoverDone, RecoverInstall, RecoverUpgrade,
       RecoverUninstall, Recover, Retry, Failure, HeaderFails, WriteReceiptFails, StepFails, Crash
  <2> QED BY <2>1, <2>2
<1>2. result = "committed"
  <2>1. result = "undone" => ~Pending /\ pc = "idle"
    BY DEF Accountable, Books, PlanBound
  <2> QED BY <1>0, <1>1, <2>1 DEF TypeOK
<1>3. edits' = edits
  BY PlanStays
<1> QED BY <1>1, <1>2, <1>3, CommittedStep DEF Next, Accountable

(* ... and no other step is seen, but the user's.                           *)
LEMMA StepsAtomically ==
  ASSUME TypeInv, TypeInv', Bound, Accountable, Accountable', Seen, Seen', [Next]_vars
  PROVE  [Atomic!AtomicInstallNext]_(Atomic!vars)
<1>0. TypeOK /\ TypeOK'
  BY DEF TypeInv
<1>1. CASE UNCHANGED vars
  <2>1. UNCHANGED <<dest, before, rcpt, target, edited, result>>
    BY <1>1 DEF vars, disk, files, history, plan
  <2>2. UNCHANGED <<Tree, Owner>>
    BY <2>1 DEF Seen
  <2> QED BY <2>1, <2>2 DEF Atomic!vars, Open
<1>2. CASE Transact \/ Rollback \/ Cleanup \/ Recovery \/ Failure
  <2>1. UNCHANGED <<before, target, edited>>
    BY <1>2, PlanStays
  <2>2. CASE result = "none" /\ result' = "none"
    BY <2>1, <2>2 DEF Seen, Atomic!vars, Open
  <2>3. CASE result = "none" /\ result' = "committed"
    BY <2>1, <2>3, CommitsAtomically DEF Atomic!AtomicInstallNext
  <2>4. CASE result = "none" /\ result' = "undone"
    BY <2>1, <2>4, GivesUpAtomically DEF Atomic!AtomicInstallNext
  <2>5. CASE result # "none"
    <3>1. result' # "none" /\ dest' = dest /\ rcpt'["live"] = rcpt["live"]
      BY <1>2, <2>5, DecidedStays
    <3> QED BY <2>1, <2>5, <3>1 DEF Seen, Atomic!vars, Open
  <2> QED BY <1>0, <2>2, <2>3, <2>4, <2>5 DEF TypeOK
<1>3. ASSUME NEW o \in Operations, NEW t \in Manifests \cup {Empty}, Begin(o, t)
      PROVE  Atomic!AtomicInstallNext
  BY <1>3, BeginsAtomically DEF Atomic!AtomicInstallNext
<1>4. ASSUME NEW f \in Files, NEW c \in UserContent \cup {None}, UserEdit(f, c)
      PROVE  Atomic!AtomicInstallNext
  <2>1. /\ dest' = [dest EXCEPT ![f] = c] /\ edited' = edited \cup {f}
        /\ UNCHANGED <<before, target, rcpt, result>>
    BY <1>4 DEF UserEdit, plan
  <2>2. Owner' = Owner
    BY <2>1 DEF Seen
  <2>3. \E d \in Content \cup {None} : Tree' = [Tree EXCEPT ![f] = d]
    <3>1. CASE result = "none"
      <4>1. Tree' = [Tree EXCEPT ![f] = None]
        BY <2>1, <3>1 DEF Seen
      <4> QED BY <4>1
    <3>2. CASE result # "none"
      <4>1. Tree' = [Tree EXCEPT ![f] = c]
        BY <2>1, <3>2 DEF Seen
      <4> QED BY <4>1, TransactionAssumption
    <3> QED BY <3>1, <3>2
  <2>4. Atomic!User(f)
    BY <2>1, <2>2, <2>3 DEF Atomic!User, Open
  <2> QED BY <2>4 DEF Atomic!AtomicInstallNext
<1> QED BY <1>1, <1>2, <1>3, <1>4 DEF Next

(* Whoever looks at the tree a rollback would restore and at the receipt    *)
(* sees one step from the old to the new installation, or none, whatever    *)
(* fails or crashes meanwhile.                                              *)
THEOREM InstallsAtomically == Spec /\ []ContentChanges => ImplementsAtomicInstall
<1>1. Init => Atomic!AtomicInstallInit
  <2> SUFFICES ASSUME Init PROVE Atomic!AtomicInstallInit
    OBVIOUS
  <2>1. /\ dest \in [Files -> UserContent \cup {None}] /\ result = "undone" /\ edited = {}
        /\ rcpt["live"] = None /\ rcpt["previous"] = None
    BY DEF Init, Slots
  <2>2. Tree = dest /\ Owner = None
    BY <2>1 DEF Tree, Owner, Open
  <2> QED BY <2>1, <2>2, TransactionAssumption DEF Atomic!AtomicInstallInit, Open
<1>2. TypeInv /\ Bound /\ Accountable /\ ContentChanges => Seen
  BY SeenFromDisk
<1>3. TypeInv /\ TypeInv' /\ Bound /\ Accountable /\ Accountable' /\ Seen /\ Seen' /\ [Next]_vars
        => [Atomic!AtomicInstallNext]_(Atomic!vars)
  BY StepsAtomically
<1> QED BY <1>1, <1>2, <1>3, AccountableAlways, PTL
        DEF Spec, ImplementsAtomicInstall, Atomic!AtomicInstallSpec
=============================================================================
