---------------------------- MODULE EngineProofs ----------------------------
(* Proofs about Engine, for any processes, packages, directories, files,    *)
(* archives and keys, and any number of faults and of files the user        *)
(* removes: the locks and the history of the receipts, then that installed  *)
(* packages keep their files, and at last that they are what was published. *)
EXTENDS Distribution, TLAPS

Mutating == {"begin", "directory", "apply", "publish"}
Changing == {"apply", "publish"}
Starting == {"start", "spawn"}

(* Where a call holds the lock of its package.                              *)
Locked == {"recovering", "directory", "apply", "publish", "finish", "spawn"}

Labels == {"idle", "recover", "look", "load", "preflight"} \cup Locked \cup Mutating \cup Starting

DiskOK ==
  /\ tree \in [Directories -> [Files -> Contents \cup {None}]]
  /\ receipts \in [Packages -> Receipt \cup {None}]
  /\ pending \in [Packages -> Pending \cup {None}]

LockTypes ==
  /\ packageLock \in [Packages -> Processes \cup {None}]
  /\ directoryLock \in [Directories -> Processes \cup {None}]

WorkOK ==
  /\ pc \in [Processes -> Labels]
  /\ call \in [Processes -> Call \cup {None}]
  /\ seen \in [Processes -> Receipt \cup {None}]
  /\ todo \in [Processes -> SUBSET Files]
  /\ cur \in [Processes -> Files \cup {None}]

TypeOK == DiskOK /\ LockTypes /\ WorkOK

(* What a call is for, as far as it has come.                               *)
CallOK(p) ==
  /\ pc[p] # "idle" => call[p] \in Call
  /\ pc[p] = "preflight" => call[p].kind = "install"
  /\ pc[p] \in Mutating => call[p].kind \in {"install", "uninstall"}
  /\ pc[p] \in Starting => call[p].kind = "launch"
  /\ (pc[p] \in Mutating \cup Starting /\ call[p].kind # "install") => seen[p] # None
  /\ pc[p] = "publish" => call[p].kind = "install" /\ cur[p] \in NewFiles(p)
  /\ pc[p] = "spawn" => Entrypoint(p) # None

(* The locks a call holds.                                                  *)
LocksOK(p) ==
  /\ pc[p] \in Locked => packageLock[Package(p)] = p
  /\ pc[p] \in Changing => directoryLock[Directory(p)] = p
  /\ pc[p] = "recovering" =>
       /\ pending[Package(p)] # None
       /\ directoryLock[pending[Package(p)].directory] = p
  /\ pc[p] = "spawn" => directoryLock[seen[p].directory] = p

(* The receipt a call is to leave.                                          *)
Target(p) == IF call[p].kind = "install" THEN ReceiptOf(call[p].release) ELSE None

(* What a call found out before it took its locks is still so.              *)
JudgedOK(p) ==
  /\ (pc[p] \in {"preflight"} \cup Mutating /\ call[p].kind = "install") =>
       Accepts(call[p].release, seen[p], call[p].approvals)
  /\ pc[p] \in {"directory", "apply", "publish", "spawn"} => receipts[Package(p)] = seen[p]
  /\ pc[p] \in Changing =>
       /\ pending[Package(p)] # None
       /\ pending[Package(p)].receipt = Target(p)
       /\ pending[Package(p)].directory = Directory(p)
  /\ pc[p] = "spawn" =>
       /\ pending[Package(p)] = None
       /\ tree[seen[p].directory][Entrypoint(p)] \in {None, seen[p].files[Entrypoint(p)]}

ProcessOK(p) == CallOK(p) /\ LocksOK(p) /\ JudgedOK(p)

IInv == TypeOK /\ \A p \in Processes : ProcessOK(p)

-----------------------------------------------------------------------------
(* The receipt an accepted release leaves is a valid one.                   *)
LEMMA ReceiptMade ==
  ASSUME NEW release \in Release
  PROVE  ReceiptOf(release) \in Receipt
BY AssessmentAssumption
DEF Release, Receipt, ReceiptOf, ReceiptFields, ValidReceipt, PackageIdentity

(* Releases and receipts own files, with contents.                          *)
LEMMA OwnedFiles ==
  ASSUME NEW r \in Receipt \cup Release
  PROVE  /\ r.directory \in Directories
         /\ DOMAIN r.files \subseteq Files
         /\ \A f \in DOMAIN r.files : r.files[f] \in Contents
         /\ r.entrypoint \in DOMAIN r.files \cup {None}
BY DEF Release, Receipt, ReceiptFields, ValidReceipt, FileSets

(* The parts of a call.                                                     *)
LEMMA CallParts ==
  ASSUME NEW c \in Call
  PROVE  /\ c.package \in Packages
         /\ c.kind \in {"install", "uninstall", "launch"}
         /\ c.kind = "install" => c.release \in Release
BY DEF Call

(* What a call that works on files works on.                                *)
LEMMA Places ==
  ASSUME TypeOK, NEW p \in Processes, CallOK(p), pc[p] \in Mutating
  PROVE  /\ Package(p) \in Packages
         /\ Directory(p) \in Directories
         /\ NewFiles(p) \subseteq Files /\ OldFiles(p) \subseteq Files
         /\ Target(p) \in Receipt \cup {None}
<1>1. call[p] \in Call /\ call[p].kind \in {"install", "uninstall"}
  BY DEF CallOK, Mutating
<1>2. Package(p) \in Packages
  BY <1>1, CallParts DEF Package
<1>3. seen[p] \in Receipt \cup {None}
  BY DEF TypeOK, WorkOK
<1>4. OldFiles(p) \subseteq Files
  BY <1>3, OwnedFiles DEF OldFiles
<1>5. CASE call[p].kind = "install"
  <2>1. call[p].release \in Release
    BY <1>1, <1>5, CallParts
  <2> QED BY <1>2, <1>4, <1>5, <2>1, OwnedFiles, ReceiptMade DEF Directory, NewFiles, Target
<1>6. CASE call[p].kind = "uninstall"
  <2>1. seen[p] \in Receipt
    BY <1>3, <1>6 DEF CallOK
  <2> QED BY <1>2, <1>4, <1>6, <2>1, OwnedFiles DEF Directory, NewFiles, Target
<1> QED BY <1>1, <1>5, <1>6

-----------------------------------------------------------------------------
(* What others may do while process q is in a call: its own state stays, as *)
(* does everything under a lock it holds, except that the user may remove a *)
(* file.                                                                    *)
Steady(q) ==
  /\ pc'[q] = pc[q] /\ call'[q] = call[q] /\ seen'[q] = seen[q] /\ cur'[q] = cur[q]
  /\ \A k \in Packages : packageLock[k] = q =>
       packageLock'[k] = q /\ pending'[k] = pending[k] /\ receipts'[k] = receipts[k]
  /\ \A d \in Directories : directoryLock[d] = q =>
       directoryLock'[d] = q /\ \A f \in Files : tree'[d][f] \in {tree[d][f], None}

(* Such steps take nothing away from what q has established.                *)
LEMMA SteadyKeeps ==
  ASSUME TypeOK, NEW q \in Processes, ProcessOK(q), Steady(q)
  PROVE  ProcessOK(q)'
<1> USE DEF ProcessOK
<1>1. /\ pc'[q] = pc[q] /\ call'[q] = call[q] /\ seen'[q] = seen[q] /\ cur'[q] = cur[q]
      /\ Package(q)' = Package(q) /\ Directory(q)' = Directory(q)
      /\ NewFiles(q)' = NewFiles(q) /\ Entrypoint(q)' = Entrypoint(q)
      /\ Target(q)' = Target(q)
  BY DEF Steady, Package, Directory, NewFiles, Entrypoint, Target
<1>2. CallOK(q)'
  BY <1>1 DEF CallOK
<1>3. ASSUME pc[q] \in Locked
      PROVE  /\ Package(q) \in Packages
             /\ packageLock'[Package(q)] = q
             /\ pending'[Package(q)] = pending[Package(q)]
             /\ receipts'[Package(q)] = receipts[Package(q)]
  <2>1. call[q] \in Call
    BY <1>3 DEF CallOK, Locked
  <2>2. Package(q) \in Packages /\ packageLock[Package(q)] = q
    BY <1>3, <2>1, CallParts DEF Package, LocksOK
  <2> QED BY <2>2 DEF Steady
<1>4. ASSUME pc[q] \in Changing
      PROVE  directoryLock'[Directory(q)] = q
  <2>1. Directory(q) \in Directories
    BY <1>4, Places DEF Changing, Mutating
  <2> QED BY <1>4, <2>1 DEF LocksOK, Steady
<1>5. ASSUME pc[q] = "recovering"
      PROVE  directoryLock'[pending[Package(q)].directory] = q
  <2>1. Package(q) \in Packages
    BY <1>3, <1>5 DEF Locked
  <2>2. pending[Package(q)] \in Pending
    BY <1>5, <2>1 DEF TypeOK, DiskOK, LocksOK
  <2>3. pending[Package(q)].directory \in Directories
    BY <2>2 DEF Pending
  <2> QED BY <1>5, <2>3 DEF LocksOK, Steady
<1>6. ASSUME pc[q] = "spawn"
      PROVE  /\ directoryLock'[seen[q].directory] = q
             /\ tree'[seen[q].directory][Entrypoint(q)] \in {None, seen[q].files[Entrypoint(q)]}
  <2>1. seen[q] \in Receipt
    BY <1>6 DEF TypeOK, WorkOK, CallOK, Starting, Mutating
  <2>2. seen[q].directory \in Directories /\ Entrypoint(q) \in Files
    BY <1>6, <2>1, OwnedFiles DEF Entrypoint, CallOK
  <2>3. directoryLock[seen[q].directory] = q
    BY <1>6 DEF LocksOK
  <2>4. tree'[seen[q].directory][Entrypoint(q)] \in {tree[seen[q].directory][Entrypoint(q)], None}
    BY <2>2, <2>3 DEF Steady
  <2> QED BY <1>6, <2>2, <2>3, <2>4 DEF Steady, JudgedOK
<1>7. LocksOK(q)'
  BY <1>1, <1>3, <1>4, <1>5, <1>6 DEF LocksOK, Locked
<1>8. JudgedOK(q)'
  <2>1. (pc'[q] \in {"preflight"} \cup Mutating /\ call'[q].kind = "install") =>
          Accepts(call'[q].release, seen'[q], call'[q].approvals)
    BY <1>1 DEF JudgedOK
  <2>2. pc'[q] \in {"directory", "apply", "publish", "spawn"} =>
          receipts'[Package(q)] = seen'[q]
    BY <1>1, <1>3 DEF JudgedOK, Locked
  <2>3. pc'[q] \in Changing =>
          /\ pending'[Package(q)] # None
          /\ pending'[Package(q)].receipt = Target(q)
          /\ pending'[Package(q)].directory = Directory(q)
    BY <1>1, <1>3 DEF JudgedOK, Locked, Changing
  <2>4. pc'[q] = "spawn" => pending'[Package(q)] = None
    BY <1>1, <1>3 DEF JudgedOK, Locked
  <2> QED BY <1>1, <1>6, <2>1, <2>2, <2>3, <2>4 DEF JudgedOK
<1> QED BY <1>2, <1>7, <1>8

-----------------------------------------------------------------------------
(* A step of process p leaves the other processes where they are, the locks *)
(* they hold, and what it has not locked itself.                            *)
Frame(p) ==
  /\ \A q \in Processes \ {p} :
       pc'[q] = pc[q] /\ call'[q] = call[q] /\ seen'[q] = seen[q] /\ cur'[q] = cur[q]
  /\ \A k \in Packages :
       /\ packageLock[k] \notin {p, None} => packageLock'[k] = packageLock[k]
       /\ packageLock[k] # p => pending'[k] = pending[k] /\ receipts'[k] = receipts[k]
  /\ \A d \in Directories :
       /\ directoryLock[d] \notin {p, None} => directoryLock'[d] = directoryLock[d]
       /\ directoryLock[d] # p => tree'[d] = tree[d]

(* For any other process such a step is steady: a lock has one holder.      *)
LEMMA FrameIsSteady ==
  ASSUME NEW p \in Processes, Frame(p), NEW q \in Processes \ {p}
  PROVE  Steady(q)
BY EngineAssumption DEF Frame, Steady

(* A step keeps what a call established, its own and the others'.           *)
Keeps(p) == TypeOK' /\ ProcessOK(p)' /\ Frame(p)

(* The end of a call frees its locks; nothing is then asked of it.          *)
LEMMA EndKeeps ==
  ASSUME TypeOK, NEW p \in Processes, End(p), DiskOK',
         \A k \in Packages :
           packageLock[k] # p => pending'[k] = pending[k] /\ receipts'[k] = receipts[k],
         \A d \in Directories : directoryLock[d] # p => tree'[d] = tree[d]
  PROVE  Keeps(p)
<1>1. LockTypes'
  BY DEF TypeOK, LockTypes, End, Unlock
<1>2. WorkOK'
  BY DEF TypeOK, WorkOK, End, Goto, Labels
<1>3. pc'[p] = "idle"
  BY DEF End, Goto, TypeOK, WorkOK
<1>4. ProcessOK(p)'
  BY <1>3 DEF ProcessOK, CallOK, LocksOK, JudgedOK, Locked, Mutating, Changing, Starting
<1>5. Frame(p)
  <2>1. \A q \in Processes \ {p} :
          pc'[q] = pc[q] /\ call'[q] = call[q] /\ seen'[q] = seen[q] /\ cur'[q] = cur[q]
    BY DEF End, Goto, TypeOK, WorkOK
  <2>2. \A k \in Packages : packageLock[k] \notin {p, None} => packageLock'[k] = packageLock[k]
    BY DEF End, Unlock
  <2>3. \A d \in Directories : directoryLock[d] \notin {p, None} => directoryLock'[d] = directoryLock[d]
    BY DEF End, Unlock
  <2> QED BY <2>1, <2>2, <2>3 DEF Frame
<1> QED BY <1>1, <1>2, <1>4, <1>5 DEF TypeOK, Keeps

(* A call that ends without having changed the disk.                        *)
LEMMA ReturnKeeps ==
  ASSUME TypeOK, NEW p \in Processes, End(p), UNCHANGED disk
  PROVE  Keeps(p)
<1>1. DiskOK'
  BY DEF TypeOK, DiskOK, disk
<1> QED BY <1>1, EndKeeps DEF disk

(* Undoing changes the transaction's directory and the transaction.         *)
LEMMA UndoTypes ==
  ASSUME TypeOK, NEW k \in Packages, pending[k] # None, Undo(k)
  PROVE  /\ DiskOK'
         /\ receipts' = receipts
         /\ \A j \in Packages \ {k} : pending'[j] = pending[j]
         /\ \A d \in Directories \ {pending[k].directory} : tree'[d] = tree[d]
<1> DEFINE tx == pending[k]
           Restored(part) ==
             [tree EXCEPT ![tx.directory] =
                [f \in Files |-> IF f \in part THEN Undone(tx, f) ELSE @[f]]]
           Partly(part) ==
             [pending EXCEPT ![k].backup = [f \in Files |-> IF f \in part THEN None ELSE @[f]]]
<1>1. tx \in Pending
  BY DEF TypeOK, DiskOK
<1>2. tx.directory \in Directories /\ tx.backup \in [Files -> Contents \cup {None}]
  BY <1>1 DEF Pending
<1>3. \A f \in Files : Undone(tx, f) \in Contents \cup {None}
  BY <1>2 DEF Undone, TypeOK, DiskOK
<1>4. ASSUME NEW part \in SUBSET Files
      PROVE  /\ Restored(part) \in [Directories -> [Files -> Contents \cup {None}]]
             /\ \A d \in Directories \ {tx.directory} : Restored(part)[d] = tree[d]
  BY <1>2, <1>3 DEF TypeOK, DiskOK
<1>5. ASSUME NEW part \in SUBSET Files
      PROVE  /\ Partly(part) \in [Packages -> Pending \cup {None}]
             /\ \A j \in Packages \ {k} : Partly(part)[j] = pending[j]
  <2>1. [tx EXCEPT !.backup = [f \in Files |-> IF f \in part THEN None ELSE @[f]]] \in Pending
    BY <1>1 DEF Pending
  <2> QED BY <2>1 DEF TypeOK, DiskOK
<1>6. [pending EXCEPT ![k] = None] \in [Packages -> Pending \cup {None}]
  BY DEF TypeOK, DiskOK
<1>7. Touched(tx) \subseteq Files
  BY <1>1 DEF Touched, Pending
<1>8. CASE tree' = Restored(Touched(tx)) /\ pending' = [pending EXCEPT ![k] = None] /\ receipts' = receipts
  <2>1. DiskOK'
    BY <1>4, <1>6, <1>7, <1>8 DEF TypeOK, DiskOK
  <2> QED BY <1>4, <1>7, <1>8, <2>1 DEF TypeOK, DiskOK
<1>9. CASE \E part \in SUBSET Files :
             tree' = Restored(part) /\ pending' = Partly(part) /\ receipts' = receipts
  <2>1. PICK part \in SUBSET Files :
             tree' = Restored(part) /\ pending' = Partly(part) /\ receipts' = receipts
    BY <1>9
  <2> HIDE DEF Restored, Partly
  <2>2. DiskOK'
    BY <1>4, <1>5, <2>1 DEF TypeOK, DiskOK
  <2> QED BY <1>4, <1>5, <2>1, <2>2
<1> QED BY <1>7, <1>8, <1>9 DEF Undo

-----------------------------------------------------------------------------
(* Calls that end without a change.                                         *)
LEMMA Refusals ==
  ASSUME TypeOK, NEW p \in Processes,
         \/ RecoverBusy(p) \/ LoadRefused(p) \/ BeginRefused(p) \/ StartRefused(p)
         \/ StartDenied(p) \/ Spawn(p) \/ Crash(p)
  PROVE  Keeps(p)
<1>1. End(p) /\ UNCHANGED disk
  BY DEF RecoverBusy, LoadRefused, BeginRefused, StartRefused, StartDenied, Spawn, Crash, Return
<1> QED BY <1>1, ReturnKeeps

(* Steps that only go on to another place, with no lock held.               *)
LEMMA Moves ==
  ASSUME TypeOK, NEW p \in Processes, ProcessOK(p), NEW label \in {"load", "begin"},
         Goto(p, label), UNCHANGED <<disk, locks, work>>,
         pc[p] # "idle", label = "begin" => pc[p] = "preflight"
  PROVE  Keeps(p)
<1>1. TypeOK'
  BY DEF TypeOK, DiskOK, LockTypes, WorkOK, disk, locks, work, Goto, Labels, Mutating
<1>2. pc'[p] = label
  BY DEF Goto, TypeOK, WorkOK
<1>3. /\ call'[p] = call[p] /\ seen'[p] = seen[p] /\ cur'[p] = cur[p]
  BY DEF work
<1>4. CallOK(p)'
  BY <1>2, <1>3 DEF CallOK, ProcessOK, Locked, Mutating, Starting
<1>5. LocksOK(p)'
  BY <1>2 DEF LocksOK, Locked, Changing
<1>6. JudgedOK(p)'
  BY <1>2, <1>3 DEF JudgedOK, ProcessOK, Locked, Changing, Mutating
<1>7. Frame(p)
  BY DEF Frame, disk, locks, work, Goto, TypeOK, WorkOK
<1> QED BY <1>1, <1>4, <1>5, <1>6, <1>7 DEF Keeps, ProcessOK

(* A call starts with nothing but its parameters.                           *)
LEMMA InvokeKeeps ==
  ASSUME TypeOK, NEW p \in Processes, ProcessOK(p), Invoke(p)
  PROVE  Keeps(p)
<1>1. PICK c \in Call : call' = [call EXCEPT ![p] = c]
  <2>1. ASSUME NEW o \in Offers, NEW a \in Approvals
        PROVE  [kind |-> "install", package |-> o[1], release |-> o[2], approvals |-> a] \in Call
    BY EngineAssumption DEF Call
  <2>2. ASSUME NEW kind \in {"uninstall", "launch"}, NEW k \in Packages
        PROVE  [kind |-> kind, package |-> k] \in Call
    BY DEF Call
  <2> QED BY <2>1, <2>2 DEF Invoke
<1>2. PICK label \in {"look", "recover"} : Goto(p, label)
  BY DEF Invoke
<1>3. UNCHANGED <<disk, locks, seen, todo, cur>>
  BY DEF Invoke
<1>4. TypeOK'
  BY <1>1, <1>2, <1>3 DEF TypeOK, DiskOK, LockTypes, WorkOK, disk, locks, Goto, Labels
<1>5. pc'[p] = label /\ call'[p] = c
  BY <1>1, <1>2 DEF Goto, TypeOK, WorkOK
<1>6. ProcessOK(p)'
  BY <1>5 DEF ProcessOK, CallOK, LocksOK, JudgedOK, Locked, Mutating, Changing, Starting
<1>7. Frame(p)
  BY <1>1, <1>2, <1>3 DEF Frame, disk, locks, Goto, TypeOK, WorkOK
<1> QED BY <1>4, <1>6, <1>7 DEF Keeps

(* A call that finds a transaction goes on with both locks, or without.     *)
LEMMA RecoverKeeps ==
  ASSUME TypeOK, NEW p \in Processes, ProcessOK(p), Recover(p)
  PROVE  Keeps(p)
<1>1. call[p] \in Call /\ Package(p) \in Packages
  BY CallParts DEF Recover, ProcessOK, CallOK, Package
<1>2. CASE pending[Package(p)] = None
  BY <1>2, Moves DEF Recover
<1>3. CASE pending[Package(p)] # None
  <2> DEFINE d == pending[Package(p)].directory
  <2>1. d \in Directories
    BY <1>1, <1>3 DEF TypeOK, DiskOK, Pending
  <2>2. Free(p, d) /\ Lock(p, d) /\ Goto(p, "recovering") /\ UNCHANGED <<disk, work>>
    BY <1>3 DEF Recover
  <2>3. pc'[p] = "recovering" /\ call'[p] = call[p] /\ Package(p)' = Package(p)
    BY <2>2 DEF Goto, TypeOK, WorkOK, work, Package
  <2>4. packageLock'[Package(p)] = p /\ directoryLock'[d] = p /\ pending' = pending
    BY <1>1, <2>1, <2>2 DEF Lock, TypeOK, LockTypes, disk
  <2>5. TypeOK'
    BY <2>2 DEF TypeOK, DiskOK, LockTypes, WorkOK, disk, work, Goto, Lock, Labels, Locked
  <2>6. ProcessOK(p)'
    BY <1>1, <1>3, <2>3, <2>4
    DEF ProcessOK, CallOK, LocksOK, JudgedOK, Locked, Mutating, Changing, Starting
  <2>7. Frame(p)
    BY <1>1, <2>1, <2>2 DEF Frame, disk, work, Goto, TypeOK, WorkOK, LockTypes, Lock, Free
  <2> QED BY <2>5, <2>6, <2>7 DEF Keeps
<1> QED BY <1>2, <1>3

(* Looks without a lock, and the plan checked for the first time.           *)
LEMMA LookKeeps ==
  ASSUME TypeOK, NEW p \in Processes, ProcessOK(p), Look(p) \/ Preflight(p)
  PROVE  Keeps(p)
<1>1. CASE Return(p)
  BY <1>1, ReturnKeeps DEF Return
<1>2. CASE ~Return(p)
  BY <1>2, Moves DEF Look, Preflight
<1> QED BY <1>1, <1>2

(* The receipt is read without a lock, and judged.                          *)
LEMMA LoadKeeps ==
  ASSUME TypeOK, NEW p \in Processes, ProcessOK(p), Load(p)
  PROVE  Keeps(p)
<1>1. call[p] \in Call /\ Package(p) \in Packages
  BY CallParts DEF Load, ProcessOK, CallOK, Package
<1>2. /\ Judged(p)
      /\ seen' = [seen EXCEPT ![p] = receipts[Package(p)]]
      /\ UNCHANGED <<disk, locks, call, todo, cur>>
  BY DEF Load
<1>3. PICK label \in {"preflight", "begin", "start"} :
        /\ Goto(p, label)
        /\ label = "preflight" <=> call[p].kind = "install"
        /\ label = "begin" <=> call[p].kind = "uninstall"
        /\ label = "start" <=> call[p].kind = "launch"
  BY <1>1, CallParts DEF Load
<1>4. receipts[Package(p)] \in Receipt \cup {None}
  BY <1>1 DEF TypeOK, DiskOK
<1>5. TypeOK'
  BY <1>2, <1>3, <1>4
  DEF TypeOK, DiskOK, LockTypes, WorkOK, disk, locks, Goto, Labels, Mutating, Starting
<1>6. pc'[p] = label /\ call'[p] = call[p] /\ seen'[p] = receipts[Package(p)]
  BY <1>2, <1>3 DEF Goto, TypeOK, WorkOK
<1>7. CallOK(p)'
  BY <1>1, <1>2, <1>3, <1>6 DEF CallOK, Judged, Mutating, Starting
<1>8. LocksOK(p)'
  BY <1>6 DEF LocksOK, Locked, Changing
<1>9. JudgedOK(p)'
  BY <1>2, <1>3, <1>6 DEF JudgedOK, Judged, Mutating, Changing
<1>10. Frame(p)
  BY <1>2, <1>3 DEF Frame, disk, locks, Goto, TypeOK, WorkOK
<1> QED BY <1>5, <1>7, <1>8, <1>9, <1>10 DEF Keeps, ProcessOK

(* Recovery works under both locks and ends them.                           *)
LEMMA RecoveringKeeps ==
  ASSUME TypeOK, NEW p \in Processes, ProcessOK(p), Recovering(p)
  PROVE  Keeps(p)
<1> DEFINE k == Package(p)
<1>1. pc[p] = "recovering" /\ call[p] \in Call /\ k \in Packages
  BY CallParts DEF Recovering, ProcessOK, CallOK, Package
<1>2. pending[k] # None /\ packageLock[k] = p /\ directoryLock[pending[k].directory] = p
  BY <1>1 DEF ProcessOK, LocksOK, Locked
<1>3. /\ DiskOK'
      /\ receipts' = receipts
      /\ \A j \in Packages \ {k} : pending'[j] = pending[j]
      /\ \A d \in Directories \ {pending[k].directory} : tree'[d] = tree[d]
  <2>1. CASE pending[k].committed
    BY <1>1, <2>1 DEF Recovering, TypeOK, DiskOK
  <2>2. CASE ~pending[k].committed
    <3>1. Undo(k)
      BY <2>2 DEF Recovering
    <3> QED BY <1>1, <1>2, <3>1, UndoTypes
  <2> QED BY <2>1, <2>2
<1>4. /\ \A j \in Packages :
           packageLock[j] # p => pending'[j] = pending[j] /\ receipts'[j] = receipts[j]
      /\ \A d \in Directories : directoryLock[d] # p => tree'[d] = tree[d]
  BY <1>2, <1>3
<1>5. CASE End(p)
  BY <1>3, <1>4, <1>5, EndKeeps
<1>6. CASE Goto(p, "load") /\ Unlock(p) /\ UNCHANGED work
  <2>1. TypeOK'
    BY <1>3, <1>6 DEF TypeOK, LockTypes, WorkOK, Goto, Unlock, work, Labels
  <2>2. pc'[p] = "load" /\ call'[p] = call[p]
    BY <1>6 DEF Goto, TypeOK, WorkOK, work
  <2>3. ProcessOK(p)'
    BY <1>1, <2>2
    DEF ProcessOK, CallOK, LocksOK, JudgedOK, Locked, Mutating, Changing, Starting
  <2>4. Frame(p)
    BY <1>4, <1>6 DEF Frame, Goto, Unlock, work, TypeOK, WorkOK
  <2> QED BY <2>1, <2>3, <2>4 DEF Keeps
<1> QED BY <1>5, <1>6 DEF Recovering

(* The package's lock, and the receipt once more.                           *)
LEMMA BeginKeeps ==
  ASSUME TypeOK, NEW p \in Processes, ProcessOK(p), BeginInstall(p) \/ BeginUninstall(p)
  PROVE  Keeps(p)
<1> DEFINE k == Package(p)
<1>1. /\ pc[p] = "begin" /\ LockPackage(p) /\ receipts[k] = seen[p]
      /\ Goto(p, "directory") /\ UNCHANGED <<disk, directoryLock, work>>
  BY DEF BeginInstall, BeginUninstall, PlanStands, Unchanged
<1>2. k \in Packages
  BY <1>1, Places DEF ProcessOK, Mutating
<1>3. TypeOK'
  BY <1>1, <1>2
  DEF TypeOK, DiskOK, LockTypes, WorkOK, disk, work, Goto, LockPackage, Labels, Locked
<1>4. /\ pc'[p] = "directory" /\ packageLock'[k] = p
      /\ call' = call /\ seen' = seen /\ cur' = cur /\ receipts' = receipts
  BY <1>1, <1>2 DEF Goto, LockPackage, TypeOK, WorkOK, LockTypes, work, disk
<1>5. CallOK(p)'
  BY <1>1, <1>4 DEF ProcessOK, CallOK, Mutating, Starting
<1>6. LocksOK(p)'
  BY <1>4 DEF LocksOK, Changing, Package
<1>7. JudgedOK(p)'
  BY <1>1, <1>4 DEF ProcessOK, JudgedOK, Mutating, Changing, Package
<1>8. Frame(p)
  BY <1>1, <1>2 DEF Frame, disk, work, Goto, LockPackage, TypeOK, LockTypes, WorkOK
<1> QED BY <1>3, <1>5, <1>6, <1>7, <1>8 DEF Keeps, ProcessOK

(* The directory's lock and the journal.                                    *)
LEMMA StartTransactionKeeps ==
  ASSUME TypeOK, NEW p \in Processes, ProcessOK(p), StartTransaction(p)
  PROVE  Keeps(p)
<1> DEFINE k == Package(p)
           tx == [directory |-> Directory(p), receipt |-> Target(p), committed |-> FALSE,
                  named |-> {}, backup |-> [f \in Files |-> None]]
<1>1. /\ pc[p] = "directory" /\ directoryLock[Directory(p)] = None
      /\ directoryLock' = [directoryLock EXCEPT ![Directory(p)] = p]
      /\ pending' = [pending EXCEPT ![k] = tx]
      /\ todo' = [todo EXCEPT ![p] = OldFiles(p) \cup NewFiles(p)]
      /\ Goto(p, "apply")
      /\ UNCHANGED <<tree, receipts, packageLock, call, seen, cur>>
  BY DEF StartTransaction, MayStart, Target
<1>2. /\ k \in Packages /\ Directory(p) \in Directories
      /\ NewFiles(p) \subseteq Files /\ OldFiles(p) \subseteq Files
      /\ Target(p) \in Receipt \cup {None}
  BY <1>1, Places DEF ProcessOK, Mutating
<1>3. packageLock[k] = p
  BY <1>1 DEF ProcessOK, LocksOK, Locked
<1>4. tx \in Pending /\ tx # None
  <2>1. tx \in Pending
    BY <1>2 DEF Pending
  <2> QED BY <2>1, EngineAssumption
<1>5. TypeOK'
  <2>1. DiskOK'
    BY <1>1, <1>2, <1>4 DEF TypeOK, DiskOK
  <2>2. LockTypes'
    BY <1>1, <1>2 DEF TypeOK, LockTypes
  <2>3. WorkOK'
    BY <1>1, <1>2 DEF TypeOK, WorkOK, Goto, Labels, Mutating
  <2> QED BY <2>1, <2>2, <2>3 DEF TypeOK
<1>6. /\ pc'[p] = "apply" /\ pending'[k] = tx /\ directoryLock'[Directory(p)] = p
      /\ packageLock'[k] = p /\ call' = call /\ seen' = seen /\ cur' = cur /\ receipts' = receipts
  BY <1>1, <1>2, <1>3 DEF Goto, TypeOK, DiskOK, LockTypes, WorkOK
<1>7. CallOK(p)'
  BY <1>1, <1>6 DEF ProcessOK, CallOK, Mutating, Starting
<1>8. LocksOK(p)'
  BY <1>6 DEF LocksOK, Package, Directory
<1>9. JudgedOK(p)'
  BY <1>1, <1>4, <1>6 DEF ProcessOK, JudgedOK, Mutating, Package, Directory, Target
<1>10. Frame(p)
  BY <1>1, <1>2, <1>3 DEF Frame, Goto, TypeOK, DiskOK, LockTypes, WorkOK
<1> QED BY <1>5, <1>7, <1>8, <1>9, <1>10 DEF Keeps, ProcessOK

-----------------------------------------------------------------------------
(* Under both locks: a step changes one file and the transaction's books,   *)
(* and stays among the changing steps.                                      *)
LEMMA Change ==
  ASSUME TypeOK, NEW p \in Processes, ProcessOK(p), pc[p] \in Changing,
         NEW label \in Changing, Goto(p, label),
         NEW f \in Files, NEW content \in Contents \cup {None},
         \/ tree' = [tree EXCEPT ![Directory(p)][f] = content]
         \/ tree' = tree,
         NEW tx \in Pending, tx.receipt = Target(p), tx.directory = Directory(p),
         pending' = [pending EXCEPT ![Package(p)] = tx],
         NEW rest \in SUBSET Files, todo' = [todo EXCEPT ![p] = rest],
         NEW file \in Files \cup {None}, cur' = [cur EXCEPT ![p] = file],
         label = "publish" => call[p].kind = "install" /\ file \in NewFiles(p),
         UNCHANGED <<receipts, locks, call, seen>>
  PROVE  Keeps(p)
<1> DEFINE k == Package(p)
<1>1. k \in Packages /\ Directory(p) \in Directories
  BY Places DEF ProcessOK, Mutating, Changing
<1>2. DiskOK'
  <2>1. tree' \in [Directories -> [Files -> Contents \cup {None}]]
    BY <1>1 DEF TypeOK, DiskOK
  <2> QED BY <1>1, <2>1 DEF TypeOK, DiskOK
<1>3. LockTypes' /\ WorkOK'
  BY DEF TypeOK, LockTypes, WorkOK, locks, Goto, Labels, Changing, Mutating
<1>4. /\ pc'[p] = label /\ pending'[k] = tx /\ cur'[p] = file
      /\ packageLock' = packageLock /\ directoryLock' = directoryLock
      /\ call' = call /\ seen' = seen /\ receipts' = receipts
  BY <1>1 DEF Goto, TypeOK, DiskOK, WorkOK, locks
<1>5. CallOK(p)'
  <2>1. call[p] \in Call /\ call[p].kind \in {"install", "uninstall"}
        /\ (call[p].kind # "install" => seen[p] # None)
    BY DEF ProcessOK, CallOK, Changing, Mutating
  <2> QED BY <1>4, <2>1 DEF CallOK, Changing, Mutating, Starting, NewFiles
<1>6. LocksOK(p)'
  <2>1. packageLock[k] = p /\ directoryLock[Directory(p)] = p
    BY DEF ProcessOK, LocksOK, Changing, Locked
  <2> QED BY <1>4, <2>1 DEF LocksOK, Changing, Package, Directory
<1>7. JudgedOK(p)'
  <2>1. /\ call[p].kind = "install" => Accepts(call[p].release, seen[p], call[p].approvals)
        /\ receipts[k] = seen[p]
    BY DEF ProcessOK, JudgedOK, Changing, Mutating
  <2>2. tx # None
    BY EngineAssumption
  <2> QED BY <1>4, <2>1, <2>2 DEF JudgedOK, Changing, Package, Directory, Target
<1>8. Frame(p)
  <2>1. packageLock[k] = p /\ directoryLock[Directory(p)] = p
    BY DEF ProcessOK, LocksOK, Changing, Locked
  <2>2. \A q \in Processes \ {p} :
          pc'[q] = pc[q] /\ call'[q] = call[q] /\ seen'[q] = seen[q] /\ cur'[q] = cur[q]
    BY DEF Goto, TypeOK, WorkOK
  <2>3. \A d \in Directories : directoryLock[d] # p => tree'[d] = tree[d]
    BY <1>1, <2>1 DEF TypeOK, DiskOK
  <2>4. \A j \in Packages : packageLock[j] # p => pending'[j] = pending[j]
    BY <1>1, <2>1 DEF TypeOK, DiskOK
  <2> QED BY <1>4, <2>2, <2>3, <2>4 DEF Frame
<1> QED BY <1>2, <1>3, <1>5, <1>6, <1>7, <1>8 DEF Keeps, ProcessOK, TypeOK

(* What such a step starts from.                                            *)
LEMMA InHand ==
  ASSUME TypeOK, NEW p \in Processes, ProcessOK(p), pc[p] \in Changing
  PROVE  /\ Package(p) \in Packages /\ Directory(p) \in Directories
         /\ pending[Package(p)] \in Pending
         /\ pending[Package(p)].receipt = Target(p)
         /\ pending[Package(p)].directory = Directory(p)
         /\ \A f \in Files : Found(p, f) \in Contents \cup {None}
         /\ NewFiles(p) \subseteq Files /\ OldFiles(p) \subseteq Files
<1>1. /\ Package(p) \in Packages /\ Directory(p) \in Directories
      /\ NewFiles(p) \subseteq Files /\ OldFiles(p) \subseteq Files
  BY Places DEF ProcessOK, Changing, Mutating
<1>2. pending[Package(p)] # None
  BY DEF ProcessOK, JudgedOK, Changing
<1> QED BY <1>1, <1>2 DEF ProcessOK, JudgedOK, TypeOK, DiskOK, Found

(* A file the new version does not have is set aside, or left.              *)
LEMMA RemoveOwnedKeeps ==
  ASSUME TypeOK, NEW p \in Processes, ProcessOK(p), RemoveOwned(p)
  PROVE  Keeps(p)
<1> DEFINE k == Package(p)
<1>1. pc[p] = "apply" /\ UNCHANGED <<receipts, locks, pc, call, seen, cur>>
  BY DEF RemoveOwned
<1>2. PICK f \in Obsolete(p) \cap todo[p] : RemoveIfUnchanged(p, f) /\ Handled(p, f)
  BY DEF RemoveOwned
<1>3. f \in Files
  BY <1>1, InHand DEF Obsolete, Changing
<1>4. Goto(p, "apply") /\ cur' = [cur EXCEPT ![p] = cur[p]] /\ cur[p] \in Files \cup {None}
  BY <1>1 DEF Goto, TypeOK, WorkOK
<1>5. todo[p] \ {f} \in SUBSET Files /\ todo' = [todo EXCEPT ![p] = todo[p] \ {f}]
  BY <1>2 DEF Handled, TypeOK, WorkOK
<1> DEFINE tx == [pending[k] EXCEPT !.backup[f] = Found(p, f)]
<1>6. /\ tx \in Pending /\ tx.receipt = Target(p) /\ tx.directory = Directory(p)
      /\ pending[k] \in Pending /\ pending[k].receipt = Target(p)
      /\ pending[k].directory = Directory(p)
  BY <1>1, <1>3, InHand DEF Pending, Changing
<1>7. CASE SetAside(p, f)
  <2>1. /\ tree' = [tree EXCEPT ![Directory(p)][f] = None]
        /\ pending' = [pending EXCEPT ![k] = tx]
    BY <1>7 DEF SetAside
  <2> HIDE DEF tx
  <2> QED BY <1>1, <1>3, <1>4, <1>5, <1>6, <2>1, Change DEF Changing
<1>8. CASE UNCHANGED <<tree, pending>>
  <2>1. tree' = tree /\ pending' = [pending EXCEPT ![k] = pending[k]]
    BY <1>1, <1>8, InHand DEF TypeOK, DiskOK, Changing
  <2> QED BY <1>1, <1>3, <1>4, <1>5, <1>6, <2>1, Change DEF Changing
<1> QED BY <1>2, <1>7, <1>8 DEF RemoveIfUnchanged

(* A file is announced; what is in its place is set aside.                  *)
LEMMA AnnounceKeeps ==
  ASSUME TypeOK, NEW p \in Processes, ProcessOK(p), Announce(p)
  PROVE  Keeps(p)
<1> DEFINE k == Package(p)
<1>1. pc[p] = "apply" /\ UNCHANGED <<receipts, locks, call, seen>>
  BY DEF Announce
<1>2. PICK f \in NewFiles(p) \cap todo[p] :
        \/ Handled(p, f) /\ UNCHANGED <<tree, pending, pc, cur>>
        \/ /\ tree' = [tree EXCEPT ![Directory(p)][f] = None]
           /\ pending' = [pending EXCEPT ![k].backup[f] = Found(p, f),
                                         ![k].named = @ \cup {f}]
           /\ cur' = [cur EXCEPT ![p] = f]
           /\ Goto(p, "publish")
           /\ UNCHANGED todo
  BY DEF Announce
<1>3. f \in Files /\ call[p].kind = "install"
  BY <1>1, InHand DEF Changing, NewFiles
<1>4. pending[k] \in Pending /\ pending[k].receipt = Target(p) /\ pending[k].directory = Directory(p)
      /\ k \in Packages /\ Found(p, f) \in Contents \cup {None}
  BY <1>1, <1>3, InHand DEF Changing
<1>5. CASE Handled(p, f) /\ UNCHANGED <<tree, pending, pc, cur>>
  <2>1. Goto(p, "apply") /\ cur' = [cur EXCEPT ![p] = cur[p]] /\ cur[p] \in Files \cup {None}
    BY <1>1, <1>5 DEF Goto, TypeOK, WorkOK
  <2>2. todo[p] \ {f} \in SUBSET Files /\ todo' = [todo EXCEPT ![p] = todo[p] \ {f}]
    BY <1>5 DEF Handled, TypeOK, WorkOK
  <2>3. tree' = tree /\ pending' = [pending EXCEPT ![k] = pending[k]]
    BY <1>4, <1>5 DEF TypeOK, DiskOK
  <2> QED BY <1>1, <1>3, <1>4, <2>1, <2>2, <2>3, Change DEF Changing
<1>6. CASE /\ tree' = [tree EXCEPT ![Directory(p)][f] = None]
           /\ pending' = [pending EXCEPT ![k].backup[f] = Found(p, f),
                                         ![k].named = @ \cup {f}]
           /\ cur' = [cur EXCEPT ![p] = f]
           /\ Goto(p, "publish")
           /\ UNCHANGED todo
  <2> DEFINE moved == [pending[k] EXCEPT !.backup[f] = Found(p, f)]
             tx == [moved EXCEPT !.named = @ \cup {f}]
  <2>1. moved \in Pending /\ moved.receipt = Target(p) /\ moved.directory = Directory(p)
    BY <1>3, <1>4 DEF Pending
  <2> HIDE DEF moved
  <2>2. tx \in Pending /\ tx.receipt = Target(p) /\ tx.directory = Directory(p)
    BY <1>3, <2>1 DEF Pending
  <2>3. pending' = [pending EXCEPT ![k] = tx]
    BY <1>4, <1>6 DEF TypeOK, DiskOK, moved
  <2>4. todo[p] \in SUBSET Files /\ todo' = [todo EXCEPT ![p] = todo[p]]
    BY <1>6 DEF TypeOK, WorkOK
  <2> HIDE DEF tx
  <2> QED BY <1>1, <1>2, <1>3, <1>4, <1>6, <2>2, <2>3, <2>4, Change DEF Changing
<1> QED BY <1>2, <1>5, <1>6

(* A file is published where nothing is.                                    *)
LEMMA PublishKeeps ==
  ASSUME TypeOK, NEW p \in Processes, ProcessOK(p), Publish(p)
  PROVE  Keeps(p)
<1> DEFINE k == Package(p)
           f == cur[p]
<1>1. /\ pc[p] = "publish" /\ UNCHANGED <<receipts, pending, locks, call, seen>>
      /\ tree' = [tree EXCEPT ![Directory(p)][f] = call[p].release.files[f]]
      /\ Handled(p, f) /\ cur' = [cur EXCEPT ![p] = None] /\ Goto(p, "apply")
  BY DEF Publish
<1>2. call[p] \in Call /\ call[p].kind = "install" /\ f \in NewFiles(p)
  BY <1>1 DEF ProcessOK, CallOK
<1>3. f \in Files /\ call[p].release.files[f] \in Contents
  <2>1. call[p].release \in Release
    BY <1>2, CallParts
  <2> QED BY <1>2, <2>1, OwnedFiles DEF NewFiles
<1>4. pending[k] \in Pending /\ pending[k].receipt = Target(p) /\ pending[k].directory = Directory(p)
  BY <1>1, InHand DEF Changing
<1>5. todo[p] \ {f} \in SUBSET Files /\ todo' = [todo EXCEPT ![p] = todo[p] \ {f}]
  BY <1>1 DEF Handled, TypeOK, WorkOK
<1>6. pending' = [pending EXCEPT ![k] = pending[k]]
  BY <1>1 DEF TypeOK, DiskOK
<1> QED BY <1>1, <1>3, <1>4, <1>5, <1>6, Change DEF Changing

(* The commit is the last thing that needs what was judged.                 *)
LEMMA CommitKeeps ==
  ASSUME TypeOK, NEW p \in Processes, ProcessOK(p), Commit(p)
  PROVE  Keeps(p)
<1> DEFINE k == Package(p)
           tx == [pending[k] EXCEPT !.committed = TRUE]
<1>1. /\ pc[p] = "apply" /\ Goto(p, "finish") /\ UNCHANGED <<tree, locks, work>>
      /\ receipts' = [receipts EXCEPT ![k] = pending[k].receipt]
      /\ pending' = [pending EXCEPT ![k] = tx]
  BY DEF Commit
<1>2. k \in Packages /\ pending[k] \in Pending
  BY <1>1, InHand DEF Changing
<1>3. tx \in Pending /\ pending[k].receipt \in Receipt \cup {None}
  BY <1>2 DEF Pending
<1> HIDE DEF tx
<1>4. TypeOK'
  BY <1>1, <1>2, <1>3
  DEF TypeOK, DiskOK, LockTypes, WorkOK, locks, work, Goto, Labels, Locked
<1>5. call[p] \in Call /\ packageLock[k] = p
  BY <1>1 DEF ProcessOK, CallOK, LocksOK, Locked
<1>6. pc'[p] = "finish" /\ call' = call /\ packageLock' = packageLock
  BY <1>1 DEF Goto, TypeOK, WorkOK, work, locks
<1>7. ProcessOK(p)'
  BY <1>5, <1>6
  DEF ProcessOK, CallOK, LocksOK, JudgedOK, Locked, Mutating, Changing, Starting, Package
<1>8. Frame(p)
  BY <1>1, <1>2, <1>5 DEF Frame, Goto, TypeOK, DiskOK, WorkOK, work, locks
<1> QED BY <1>4, <1>7, <1>8 DEF Keeps

(* The transaction is cleaned up, or stays behind committed.                *)
LEMMA FinishKeeps ==
  ASSUME TypeOK, NEW p \in Processes, ProcessOK(p), Finish(p)
  PROVE  Keeps(p)
<1> DEFINE k == Package(p)
<1>1. /\ pc[p] = "finish" /\ End(p) /\ UNCHANGED <<tree, receipts>>
      /\ pending' \in {pending, [pending EXCEPT ![k] = None]}
  BY DEF Finish
<1>2. k \in Packages /\ packageLock[k] = p
  BY <1>1, CallParts DEF ProcessOK, CallOK, LocksOK, Locked, Package
<1>3. DiskOK'
  BY <1>1 DEF TypeOK, DiskOK
<1>4. \A j \in Packages : packageLock[j] # p => pending'[j] = pending[j]
  BY <1>1, <1>2 DEF TypeOK, DiskOK
<1> QED BY <1>1, <1>3, <1>4, EndKeeps

(* A rollback works under both locks and ends the call.                     *)
LEMMA RollbackKeeps ==
  ASSUME TypeOK, NEW p \in Processes, ProcessOK(p), Rollback(p)
  PROVE  Keeps(p)
<1> DEFINE k == Package(p)
<1>1. pc[p] \in Changing /\ Undo(k) /\ End(p)
  BY DEF Rollback, Changing
<1>2. k \in Packages /\ pending[k] # None /\ pending[k].directory = Directory(p)
  BY <1>1, InHand DEF ProcessOK, JudgedOK
<1>3. packageLock[k] = p /\ directoryLock[pending[k].directory] = p
  BY <1>1, <1>2 DEF ProcessOK, LocksOK, Changing, Locked
<1> QED BY <1>1, <1>2, <1>3, UndoTypes, EndKeeps

(* Under both locks everything a launch relies on is looked up again.       *)
LEMMA StartKeeps ==
  ASSUME TypeOK, NEW p \in Processes, ProcessOK(p), Start(p)
  PROVE  Keeps(p)
<1> DEFINE k == Package(p)
           d == seen[p].directory
<1>1. /\ pc[p] = "start" /\ LaunchAllowed(p) /\ Free(p, d) /\ Lock(p, d)
      /\ Goto(p, "spawn") /\ UNCHANGED <<disk, work>>
  BY DEF Start, LaunchAllowed
<1>2. call[p] \in Call /\ call[p].kind = "launch" /\ k \in Packages
  BY <1>1, CallParts DEF ProcessOK, CallOK, Starting, Package
<1>3. seen[p] \in Receipt
  BY <1>1, <1>2 DEF ProcessOK, CallOK, Starting, TypeOK, WorkOK
<1>4. d \in Directories
  BY <1>3, OwnedFiles
<1>5. TypeOK'
  BY <1>1, <1>2, <1>4
  DEF TypeOK, DiskOK, LockTypes, WorkOK, disk, work, Goto, Lock, Labels, Locked
<1>6. /\ pc'[p] = "spawn" /\ packageLock'[k] = p /\ directoryLock'[d] = p
      /\ call' = call /\ seen' = seen /\ receipts' = receipts /\ pending' = pending /\ tree' = tree
  BY <1>1, <1>2, <1>4 DEF Goto, Lock, TypeOK, WorkOK, LockTypes, work, disk
<1>7. CallOK(p)'
  BY <1>1, <1>2, <1>6 DEF ProcessOK, CallOK, Mutating, Starting, LaunchAllowed, Entrypoint
<1>8. LocksOK(p)'
  BY <1>6 DEF LocksOK, Changing, Package
<1>9. JudgedOK(p)'
  BY <1>1, <1>6
  DEF JudgedOK, LaunchAllowed, Unchanged, EntrypointIntact, Mutating, Changing, Package, Entrypoint
<1>10. Frame(p)
  BY <1>1, <1>2, <1>4 DEF Frame, Lock, Free, Goto, TypeOK, LockTypes, WorkOK, disk, work
<1> QED BY <1>5, <1>7, <1>8, <1>9, <1>10 DEF Keeps, ProcessOK

-----------------------------------------------------------------------------
(* Every step of a process keeps what all of them have established.         *)
LEMMA StepKeeps ==
  ASSUME TypeOK, NEW p \in Processes, ProcessOK(p), Step(p)
  PROVE  Keeps(p)
BY Refusals, InvokeKeeps, RecoverKeeps, RecoveringKeeps, LookKeeps, LoadKeeps, BeginKeeps,
   StartTransactionKeeps, RemoveOwnedKeeps, AnnounceKeeps, PublishKeeps, CommitKeeps,
   FinishKeeps, RollbackKeeps, StartKeeps
DEF Step

(* So does the user.                                                        *)
LEMMA UserKeeps ==
  ASSUME TypeOK, UserRemoves
  PROVE  TypeOK' /\ \A q \in Processes : Steady(q)
<1>1. PICK d \in Directories, f \in Files : tree' = [tree EXCEPT ![d][f] = None]
  BY DEF UserRemoves
<1>2. UNCHANGED <<receipts, pending, locks, pc, work>>
  BY DEF UserRemoves
<1>3. TypeOK'
  BY <1>1, <1>2 DEF TypeOK, DiskOK, LockTypes, WorkOK, locks, work
<1>4. \A e \in Directories, g \in Files : tree'[e][g] \in {tree[e][g], None}
  BY <1>1 DEF TypeOK, DiskOK
<1> QED BY <1>2, <1>3, <1>4 DEF Steady, locks, work

(* At first nothing is under way and the tree is the receipts'.             *)
LEMMA Initial == Init => IInv
<1> SUFFICES ASSUME Init PROVE IInv
  OBVIOUS
<1>1. receipts \in [Packages -> Receipt \cup {None}]
  BY EngineAssumption DEF Init
<1>2. tree \in [Directories -> [Files -> Contents \cup {None}]]
  <2> DEFINE Owners(d, f) == {k \in Packages : receipts[k] # None /\ receipts[k].directory = d
                                                /\ f \in DOMAIN receipts[k].files}
             At(d, f) == IF Owners(d, f) = {} THEN None
                         ELSE receipts[CHOOSE k \in Owners(d, f) : TRUE].files[f]
  <2>1. tree = [d \in Directories |-> [f \in Files |-> At(d, f)]]
    BY DEF Init, InitialTree
  <2>2. ASSUME NEW d \in Directories, NEW f \in Files, Owners(d, f) # {}
        PROVE  At(d, f) \in Contents
    <3>1. PICK k \in Owners(d, f) : k = CHOOSE j \in Owners(d, f) : TRUE
      BY <2>2
    <3>2. receipts[k] \in Receipt /\ f \in DOMAIN receipts[k].files
      BY <1>1
    <3>3. receipts[k].files[f] \in Contents
      BY <3>2, OwnedFiles
    <3> QED BY <2>2, <3>1, <3>3
  <2>3. \A d \in Directories, f \in Files : At(d, f) \in Contents \cup {None}
    BY <2>2
  <2> HIDE DEF At
  <2> QED BY <2>1, <2>3
<1>3. TypeOK
  BY <1>1, <1>2 DEF Init, TypeOK, DiskOK, LockTypes, WorkOK, Labels
<1>4. \A p \in Processes : ProcessOK(p)
  BY DEF Init, ProcessOK, CallOK, LocksOK, JudgedOK, Locked, Mutating, Changing, Starting
<1> QED BY <1>3, <1>4 DEF IInv

(* IInv is inductive.                                                       *)
LEMMA Inductive == IInv /\ [Next]_vars => IInv'
<1> SUFFICES ASSUME IInv, [Next]_vars PROVE IInv'
  OBVIOUS
<1>1. ASSUME NEW p \in Processes, Step(p) PROVE IInv'
  <2>1. Keeps(p)
    BY <1>1, StepKeeps DEF IInv
  <2>2. ASSUME NEW q \in Processes \ {p} PROVE ProcessOK(q)'
    <3>1. Steady(q)
      BY <2>1, FrameIsSteady DEF Keeps
    <3> QED BY <3>1, SteadyKeeps DEF IInv
  <2> QED BY <2>1, <2>2 DEF IInv, Keeps
<1>2. CASE UserRemoves
  BY <1>2, UserKeeps, SteadyKeeps DEF IInv
<1>3. CASE UNCHANGED vars
  <2>1. TypeOK'
    BY <1>3 DEF IInv, TypeOK, DiskOK, LockTypes, WorkOK, vars, disk, locks, work
  <2>2. \A q \in Processes : Steady(q)
    BY <1>3 DEF Steady, vars, disk, locks, work
  <2> QED BY <2>1, <2>2, SteadyKeeps DEF IInv
<1> QED BY <1>1, <1>2, <1>3 DEF Next

-----------------------------------------------------------------------------
(* What is started is the entrypoint of the installed version, while no     *)
(* call changes the package.                                                *)
THEOREM LaunchSafe == Spec => []LaunchesInstalled
<1>1. IInv => LaunchesInstalled
  <2> SUFFICES ASSUME IInv, NEW p \in Processes, pc[p] = "spawn"
               PROVE  /\ receipts[Package(p)] # None /\ pending[Package(p)] = None
                      /\ receipts[Package(p)].entrypoint = Entrypoint(p)
                      /\ tree[seen[p].directory][Entrypoint(p)] \in
                           {None, receipts[Package(p)].files[Entrypoint(p)]}
    BY DEF LaunchesInstalled
  <2>1. seen[p] # None /\ receipts[Package(p)] = seen[p]
    BY DEF IInv, ProcessOK, CallOK, JudgedOK, Starting
  <2> QED BY <2>1 DEF IInv, ProcessOK, JudgedOK, Entrypoint
<1> QED BY <1>1, Initial, Inductive, PTL DEF Spec

(* An accepted release follows on a receipt only as the policy allows.      *)
LEMMA AcceptedFollows ==
  ASSUME NEW release \in Release, NEW receipt \in Receipt, receipt # None, NEW approvals,
         Accepts(release, receipt, approvals)
  PROVE  LET left == ReceiptOf(release)
         IN  /\ receipt.publisher \in Keys => left.signer = receipt.publisher
             /\ left.publisher # receipt.publisher =>
                  IF receipt.publisher \in Keys THEN left.version > receipt.version
                                                ELSE "migration" \in approvals
             /\ left.version < receipt.version => "downgrade" \in approvals
             /\ left.version = receipt.version => left.files = receipt.files
             /\ left.directory = receipt.directory
BY AssessmentAssumption
DEF Accepts, PublisherAccepted, RotationAccepted, NeedsMigration, SameContents, ReceiptOf,
    PackageIdentity, Release, Receipt, ReceiptFields

(* Receipts change at a commit.                                             *)
LEMMA OnlyCommits ==
  ASSUME Next, receipts' # receipts
  PROVE  \E p \in Processes : Commit(p)
<1>1. ASSUME NEW p \in Processes, Step(p), ~Commit(p) PROVE receipts' = receipts
  <2>1. CASE Return(p)
    BY <2>1 DEF Return, disk
  <2>2. CASE Recover(p) \/ Recovering(p) \/ Look(p) \/ Load(p) \/ Preflight(p) \/ Invoke(p)
    BY <2>1, <2>2 DEF Recover, Recovering, Look, Load, Preflight, Invoke, Undo, disk
  <2>3. CASE BeginInstall(p) \/ BeginUninstall(p) \/ StartTransaction(p) \/ RemoveOwned(p)
             \/ Announce(p) \/ Publish(p)
    BY <2>3 DEF BeginInstall, BeginUninstall, StartTransaction, RemoveOwned, Announce, Publish, disk
  <2>4. CASE Finish(p) \/ Rollback(p) \/ Start(p) \/ Crash(p)
    BY <2>4 DEF Finish, Rollback, Undo, Start, Crash, disk
  <2>5. CASE RecoverBusy(p) \/ LoadRefused(p) \/ BeginRefused(p) \/ StartRefused(p)
             \/ StartDenied(p) \/ Spawn(p)
    BY <2>1, <2>5 DEF RecoverBusy, LoadRefused, BeginRefused, StartRefused, StartDenied, Spawn
  <2> QED BY <1>1, <2>2, <2>3, <2>4, <2>5 DEF Step
<1> QED BY <1>1 DEF Next, UserRemoves

(* One receipt replaces another only as the policy allows, although it was  *)
(* judged against one read without a lock.                                  *)
THEOREM HistorySafe == Spec => HistoryIsAuthorized
<1>1. IInv /\ [Next]_vars => [HandoversAllowed]_vars
  <2> SUFFICES ASSUME IInv, Next, NEW k \in Packages, receipts[k] # None,
                      receipts'[k] # None, receipts'[k] # receipts[k]
               PROVE  HandedOver(k, receipts[k], receipts'[k])
    BY DEF HandoversAllowed
  <2>1. PICK p \in Processes : Commit(p)
    BY OnlyCommits
  <2>2. pc[p] = "apply" /\ TypeOK /\ ProcessOK(p)
    BY <2>1 DEF Commit, IInv
  <2>3. /\ Package(p) \in Packages
        /\ receipts' = [receipts EXCEPT ![Package(p)] = Target(p)]
    BY <2>1, <2>2, InHand DEF Commit, Changing
  <2>4. /\ k = Package(p) /\ packageLock[k] = p
        /\ receipts[k] = seen[p] /\ receipts'[k] = Target(p)
    BY <2>2, <2>3 DEF TypeOK, DiskOK, ProcessOK, LocksOK, JudgedOK, Locked
  <2>5. call[p] \in Call /\ call[p].kind = "install"
    BY <2>2, <2>4 DEF ProcessOK, CallOK, Target
  <2>6. /\ call[p].release \in Release /\ seen[p] \in Receipt
        /\ Accepts(call[p].release, seen[p], call[p].approvals)
    BY <2>2, <2>4, <2>5, CallParts DEF TypeOK, WorkOK, ProcessOK, JudgedOK, Mutating
  <2> QED BY <2>4, <2>5, <2>6, AcceptedFollows DEF HandedOver, Target
<1> QED BY <1>1, Initial, Inductive, PTL DEF Spec, HistoryIsAuthorized

-----------------------------------------------------------------------------
(* Who owns a file.                                                         *)

Owns(k, d, f) ==
  receipts[k] # None /\ receipts[k].directory = d /\ f \in DOMAIN receipts[k].files

(* A transaction that is not decided has announced or moved the file.       *)
InTransaction(k, d, f) ==
  /\ pending[k] # None
  /\ ~pending[k].committed
  /\ pending[k].directory = d
  /\ f \in Touched(pending[k])

Working(k) == \E p \in Processes : pc[p] \in Changing /\ Package(p) = k

(* A file has one owner and is as its receipt has it; or it is in the hands *)
(* of a transaction somebody works on, which can bring it back.             *)
PlaceOK(d, f) ==
  /\ \A k, other \in Packages : Owns(k, d, f) /\ Owns(other, d, f) => k = other
  /\ \A k \in Packages :
       Owns(k, d, f) /\ ~InTransaction(k, d, f) => tree[d][f] = receipts[k].files[f]
  /\ \A k \in Packages : InTransaction(k, d, f) =>
       /\ Working(k)
       /\ \A other \in Packages \ {k} : ~Owns(other, d, f)
       /\ pending[k].backup[f] = IF Owns(k, d, f) THEN receipts[k].files[f] ELSE None
       /\ tree[d][f] = None \/ Published(pending[k], f)

PlacesOK == \A d \in Directories, f \in Files : <<d, f>> \notin taken => PlaceOK(d, f)

(* How far the process has come with the files, none of which has another   *)
(* owner.                                                                   *)
TaskOK(p) ==
  /\ pc[p] \in Changing =>
       /\ ~pending[Package(p)].committed
       /\ \A f \in todo[p] \cap Touched(pending[Package(p)]) : pc[p] = "publish" /\ f = cur[p]
       /\ pc[p] = "publish" => cur[p] \in pending[Package(p)].named
       /\ \A f \in NewFiles(p) : <<Directory(p), f>> \notin taken =>
            /\ f \notin todo[p] => Found(p, f) = call[p].release.files[f]
            /\ \A other \in Packages \ {Package(p)} : ~Owns(other, Directory(p), f)
  /\ pc[p] = "finish" => pending[Package(p)] = None \/ pending[Package(p)].committed

FilesInv == IInv /\ PlacesOK /\ \A p \in Processes : TaskOK(p)

-----------------------------------------------------------------------------
(* The files of the receipt a call judged are those its package owns.       *)
LEMMA OldFilesOwned ==
  ASSUME IInv, NEW p \in Processes, pc[p] \in Changing \cup {"directory"}, NEW f \in Files
  PROVE  /\ f \in OldFiles(p) <=> Owns(Package(p), Directory(p), f)
         /\ f \in OldFiles(p) => receipts[Package(p)].files[f] = seen[p].files[f]
<1>1. /\ call[p] \in Call /\ call[p].kind \in {"install", "uninstall"}
      /\ receipts[Package(p)] = seen[p]
      /\ call[p].kind = "install" => Accepts(call[p].release, seen[p], call[p].approvals)
      /\ call[p].kind = "uninstall" => seen[p] # None
  BY DEF IInv, ProcessOK, CallOK, JudgedOK, Changing, Mutating
<1>2. seen[p] # None => Directory(p) = seen[p].directory
  BY <1>1 DEF Directory, Accepts
<1> QED BY <1>1, <1>2 DEF OldFiles, Owns

(* Who works in a directory is alone there.                                 *)
LEMMA OneWorker ==
  ASSUME IInv, NEW p \in Processes, NEW d \in Directories, directoryLock[d] = p,
         NEW k \in Packages, Working(k), pending[k].directory = d
  PROVE  pc[p] \in Changing /\ Package(p) = k
<1>1. PICK q \in Processes : pc[q] \in Changing /\ Package(q) = k
  BY DEF Working
<1>2. directoryLock[Directory(q)] = q /\ Directory(q) = d
  BY <1>1 DEF IInv, ProcessOK, LocksOK, JudgedOK
<1> QED BY <1>1, <1>2

(* Who works on a package is alone with it.                                 *)
LEMMA OneCaller ==
  ASSUME IInv, NEW p \in Processes, NEW k \in Packages, packageLock[k] = p, Working(k)
  PROVE  pc[p] \in Changing /\ Package(p) = k
<1>1. PICK q \in Processes : pc[q] \in Changing /\ Package(q) = k
  BY DEF Working
<1>2. packageLock[k] = q
  BY <1>1 DEF IInv, ProcessOK, LocksOK, Changing, Locked
<1> QED BY <1>1, <1>2

(* Other work goes on, and that of p if p does.                             *)
LEMMA WorkGoesOn ==
  ASSUME NEW p \in Processes, Frame(p), NEW k \in Packages, Working(k),
         pc[p] \in Changing /\ Package(p) = k => pc'[p] \in Changing /\ call'[p] = call[p]
  PROVE  Working(k)'
<1>1. PICK q \in Processes : pc[q] \in Changing /\ Package(q) = k
  BY DEF Working
<1>2. pc'[q] \in Changing /\ call'[q] = call[q]
  BY <1>1 DEF Frame
<1> QED BY <1>1, <1>2 DEF Working, Package

-----------------------------------------------------------------------------
(* A step that leaves the files and the receipts alone: no place enters a   *)
(* transaction, and one that leaves its transaction or its process is no    *)
(* longer vouched for.                                                      *)
LEMMA QuietPlaces ==
  ASSUME FilesInv, tree' = tree, receipts' = receipts, taken \subseteq taken',
         \A k \in Packages, d \in Directories, f \in Files :
           InTransaction(k, d, f)' =>
             /\ InTransaction(k, d, f) /\ pending'[k] = pending[k]
             /\ Working(k)' \/ ~Working(k) \/ <<d, f>> \in taken',
         \A k \in Packages, d \in Directories, f \in Files :
           InTransaction(k, d, f) => InTransaction(k, d, f)' \/ <<d, f>> \in taken'
  PROVE  PlacesOK'
<1> SUFFICES ASSUME NEW d \in Directories, NEW f \in Files, <<d, f>> \notin taken'
             PROVE  PlaceOK(d, f)'
  BY DEF PlacesOK
<1>1. PlaceOK(d, f)
  BY DEF FilesInv, PlacesOK
<1>2. \A k \in Packages : Owns(k, d, f)' <=> Owns(k, d, f)
  BY DEF Owns
<1>3. ASSUME NEW k \in Packages, InTransaction(k, d, f)'
      PROVE  /\ InTransaction(k, d, f) /\ pending'[k] = pending[k] /\ Working(k)'
             /\ Published(pending[k], f)' <=> Published(pending[k], f)
  <2>1. InTransaction(k, d, f) /\ pending'[k] = pending[k]
    BY <1>3
  <2>2. Working(k)
    BY <1>1, <2>1 DEF PlaceOK
  <2> QED BY <1>3, <2>1, <2>2 DEF Published
<1>4. \A k \in Packages : InTransaction(k, d, f) => InTransaction(k, d, f)'
  OBVIOUS
<1> QED BY <1>1, <1>2, <1>3, <1>4 DEF PlaceOK

(* A step of process p changes one file of its directory and what its       *)
(* transaction says of that file; p goes on.                                *)
LEMMA OnePlace ==
  ASSUME FilesInv, NEW p \in Processes, pc[p] \in Changing, Frame(p),
         NEW k \in Packages, k = Package(p), NEW D \in Directories, D = Directory(p),
         pc'[p] \in Changing, call'[p] = call[p], receipts' = receipts, taken' = taken,
         NEW f \in Files,
         \A g \in Files \ {f} : tree'[D][g] = tree[D][g],
         \A d \in Directories \ {D} : tree'[d] = tree[d],
         \A j \in Packages \ {k} : pending'[j] = pending[j],
         pending'[k] \in Pending,
         pending'[k].directory = pending[k].directory,
         pending'[k].receipt = pending[k].receipt,
         pending'[k].committed = pending[k].committed,
         \A g \in Files \ {f} :
           /\ pending'[k].backup[g] = pending[k].backup[g]
           /\ g \in pending'[k].named <=> g \in pending[k].named,
         <<D, f>> \notin taken =>
           /\ \A other \in Packages \ {k} : ~Owns(other, D, f)
           /\ Owns(k, D, f) /\ ~InTransaction(k, D, f)' =>
                tree'[D][f] = receipts[k].files[f]
           /\ InTransaction(k, D, f)' =>
                /\ pending'[k].backup[f] =
                     IF Owns(k, D, f) THEN receipts[k].files[f] ELSE None
                /\ tree'[D][f] = None \/ Published(pending[k], f)'
  PROVE  PlacesOK'
<1>1. /\ TypeOK /\ ProcessOK(p)
      /\ pending[k] \in Pending /\ pending[k].directory = D /\ directoryLock[D] = p
  BY InHand DEF FilesInv, IInv, ProcessOK, LocksOK
<1>2. ASSUME NEW j \in Packages, Working(j) PROVE Working(j)'
  BY <1>2, WorkGoesOn
<1>3. \A j \in Packages, d \in Directories, g \in Files : Owns(j, d, g)' <=> Owns(j, d, g)
  BY DEF Owns
<1>4. pending[k] # None /\ pending'[k] # None
  BY <1>1, EngineAssumption
<1>5. ASSUME NEW d \in Directories, NEW g \in Files, d # D \/ g # f, <<d, g>> \notin taken'
      PROVE  PlaceOK(d, g)'
  <2>1. PlaceOK(d, g) /\ tree'[d][g] = tree[d][g]
    BY <1>5 DEF FilesInv, PlacesOK
  <2>2. ASSUME NEW j \in Packages
        PROVE  InTransaction(j, d, g)' <=> InTransaction(j, d, g)
    <3>1. CASE j # k
      <4>1. pending'[j] = pending[j]
        BY <3>1
      <4> QED BY <4>1 DEF InTransaction, Touched
    <3>2. CASE j = k
      <4>1. d = D => (g \in Touched(pending[k])' <=> g \in Touched(pending[k]))
        BY <1>5 DEF Touched
      <4> QED BY <1>1, <1>4, <3>2, <4>1 DEF InTransaction
    <3> QED BY <3>1, <3>2
  <2>3. ASSUME NEW j \in Packages, InTransaction(j, d, g)
        PROVE  /\ pending'[j].backup[g] = pending[j].backup[g]
               /\ Published(pending[j], g)' <=> Published(pending[j], g)
    <3>1. CASE j # k
      <4>1. pending'[j] = pending[j] /\ pending[j].directory = d
        BY <2>3, <3>1 DEF InTransaction
      <4> QED BY <2>1, <4>1 DEF Published
    <3>2. CASE j = k
      <4>1. d = D /\ g # f
        BY <1>1, <1>5, <2>3, <3>2 DEF InTransaction
      <4> QED BY <1>1, <2>1, <3>2, <4>1 DEF Published
    <3> QED BY <3>1, <3>2
  <2> QED BY <1>2, <1>3, <2>1, <2>2, <2>3 DEF PlaceOK
<1>6. ASSUME <<D, f>> \notin taken' PROVE PlaceOK(D, f)'
  <2>1. PlaceOK(D, f)
    BY <1>1, <1>6 DEF FilesInv, PlacesOK
  <2>2. ASSUME NEW j \in Packages, InTransaction(j, D, f)'
        PROVE  j = k /\ Working(j)'
    <3>1. CASE j # k
      <4>1. pending'[j] = pending[j]
        BY <3>1
      <4>2. InTransaction(j, D, f)
        BY <2>2, <4>1 DEF InTransaction, Touched
      <4>3. Working(j) /\ pending[j].directory = D
        BY <2>1, <4>2 DEF PlaceOK, InTransaction
      <4> QED BY <1>1, <3>1, <4>3, OneWorker DEF FilesInv
    <3>2. CASE j = k
      <4>1. Working(k)
        BY DEF Working
      <4> QED BY <1>1, <1>2, <3>2, <4>1
    <3> QED BY <3>1, <3>2
  <2> QED BY <1>1, <1>3, <1>6, <2>1, <2>2 DEF PlaceOK
<1> QED
  <2> SUFFICES ASSUME NEW d \in Directories, NEW g \in Files, <<d, g>> \notin taken'
               PROVE  PlaceOK(d, g)'
    BY DEF PlacesOK
  <2>1. CASE d = D /\ g = f
    BY <1>6, <2>1
  <2>2. CASE d # D \/ g # f
    BY <1>5, <2>2
  <2> QED BY <2>1, <2>2

(* What another process has done so far stays, when its files do and nobody *)
(* else comes to own one of them.                                           *)
LEMMA TaskStays ==
  ASSUME IInv, NEW q \in Processes, TaskOK(q), Steady(q), todo'[q] = todo[q],
         taken \subseteq taken',
         \A d \in Directories, f \in Files :
           directoryLock[d] = q /\ <<d, f>> \notin taken' => tree'[d][f] = tree[d][f],
         \A d \in Directories, f \in Files, k \in Packages :
           directoryLock[d] = q /\ Owns(k, d, f)' => Owns(k, d, f)
  PROVE  TaskOK(q)'
<1>1. /\ pc'[q] = pc[q] /\ call'[q] = call[q] /\ seen'[q] = seen[q] /\ cur'[q] = cur[q]
      /\ Package(q)' = Package(q) /\ Directory(q)' = Directory(q) /\ NewFiles(q)' = NewFiles(q)
  BY DEF Steady, Package, Directory, NewFiles
<1>2. ASSUME pc[q] \in Locked PROVE pending'[Package(q)] = pending[Package(q)]
  <2>1. Package(q) \in Packages /\ packageLock[Package(q)] = q
    BY <1>2, CallParts DEF IInv, ProcessOK, CallOK, LocksOK, Package, Locked
  <2> QED BY <2>1 DEF Steady
<1>3. CASE pc[q] \in Changing
  <2>1. /\ Directory(q) \in Directories /\ NewFiles(q) \subseteq Files
        /\ directoryLock[Directory(q)] = q
        /\ pending'[Package(q)] = pending[Package(q)]
    BY <1>2, <1>3, Places DEF IInv, ProcessOK, LocksOK, Changing, Mutating, Locked
  <2>2. ASSUME NEW f \in NewFiles(q), <<Directory(q), f>> \notin taken'
        PROVE  /\ f \notin todo[q] => tree'[Directory(q)][f] = call[q].release.files[f]
               /\ \A other \in Packages \ {Package(q)} : ~Owns(other, Directory(q), f)'
    <3>1. <<Directory(q), f>> \notin taken /\ f \in Files
      BY <2>1, <2>2
    <3>2. tree'[Directory(q)][f] = tree[Directory(q)][f]
      BY <2>1, <2>2, <3>1
    <3>3. /\ f \notin todo[q] => tree[Directory(q)][f] = call[q].release.files[f]
          /\ \A other \in Packages \ {Package(q)} : ~Owns(other, Directory(q), f)
      BY <1>3, <2>2, <3>1 DEF TaskOK, Found
    <3>4. \A other \in Packages : Owns(other, Directory(q), f)' => Owns(other, Directory(q), f)
      <4> DEFINE D == Directory(q)
      <4>1. D \in Directories /\ directoryLock[D] = q /\ D' = D
        BY <1>1, <2>1
      <4> HIDE DEF D
      <4>2. ASSUME NEW other \in Packages, Owns(other, D, f)' PROVE Owns(other, D, f)
        <5>1. receipts'[other] # None /\ receipts'[other].directory = D
              /\ f \in DOMAIN receipts'[other].files
          BY <4>1, <4>2 DEF Owns
        <5> QED BY <3>1, <4>1, <5>1 DEF Owns
      <4> QED BY <4>2 DEF D
    <3> QED BY <2>1, <3>2, <3>3, <3>4
  <2>3. Touched(pending[Package(q)])' = Touched(pending[Package(q)])
    BY <1>1, <2>1 DEF Touched
  <2> QED BY <1>1, <1>3, <2>1, <2>2, <2>3 DEF TaskOK, Changing, Found
<1>4. CASE pc[q] \notin Changing
  BY <1>1, <1>2, <1>4 DEF TaskOK, Locked
<1> QED BY <1>3, <1>4

-----------------------------------------------------------------------------
(* What a step of p has to keep: every place, and its own progress.         *)
FilesKept(p) == PlacesOK' /\ TaskOK(p)'

(* Steps that leave the disk alone, outside the changing steps.             *)
LEMMA NoFiles ==
  ASSUME FilesInv, NEW p \in Processes, Frame(p), UNCHANGED disk, taken' = taken,
         pc[p] \notin Changing, pc'[p] \notin Changing \cup {"finish"}
  PROVE  FilesKept(p)
<1>1. \A k \in Packages, d \in Directories, f \in Files :
        InTransaction(k, d, f)' <=> InTransaction(k, d, f)
  BY DEF disk, InTransaction, Touched
<1>2. \A k \in Packages : Working(k) => Working(k)'
  BY WorkGoesOn
<1>3. PlacesOK'
  BY <1>1, <1>2, QuietPlaces DEF disk
<1> QED BY <1>3 DEF FilesKept, TaskOK

(* A call up to its locks, a refused one, and a launch.                     *)
LEMMA QuietFiles ==
  ASSUME FilesInv, NEW p \in Processes, Frame(p),
         \/ Invoke(p) \/ Recover(p) \/ RecoverBusy(p) \/ Look(p) \/ Load(p) \/ LoadRefused(p)
         \/ Preflight(p) \/ BeginInstall(p) \/ BeginUninstall(p) \/ BeginRefused(p)
         \/ StartRefused(p) \/ Start(p) \/ StartDenied(p) \/ Spawn(p)
  PROVE  FilesKept(p)
<1>1. UNCHANGED disk /\ taken' = taken
  BY DEF Invoke, Recover, RecoverBusy, Look, Load, LoadRefused, Preflight, BeginInstall,
         BeginUninstall, BeginRefused, StartRefused, Start, StartDenied, Spawn, Return
<1>2. pc[p] \notin Changing
  BY DEF Changing, Invoke, Recover, RecoverBusy, Look, Load, LoadRefused, Preflight,
         BeginInstall, BeginUninstall, BeginRefused, StartRefused, Start, StartDenied, Spawn
<1>3. pc \in [Processes -> Labels]
  BY DEF FilesInv, IInv, TypeOK, WorkOK
<1>4. ASSUME End(p) PROVE pc'[p] \notin Changing \cup {"finish"}
  BY <1>3, <1>4 DEF End, Goto, Changing
<1>5. CASE Return(p)
  BY <1>1, <1>2, <1>4, <1>5, NoFiles DEF Return
<1>6. CASE Invoke(p) \/ Recover(p) \/ Look(p) \/ Preflight(p)
  <2>1. pc'[p] \notin Changing \cup {"finish"}
    BY <1>3, <1>4, <1>6 DEF Invoke, Recover, Look, Preflight, Return, Goto, Changing
  <2> QED BY <1>1, <1>2, <2>1, NoFiles
<1>7. CASE Load(p)
  <2>1. call[p].kind \in {"install", "uninstall", "launch"}
    BY <1>7, CallParts DEF Load, FilesInv, IInv, ProcessOK, CallOK
  <2>2. pc'[p] \notin Changing \cup {"finish"}
    BY <1>3, <1>7, <2>1 DEF Load, Goto, Changing
  <2> QED BY <1>1, <1>2, <2>2, NoFiles
<1>8. CASE BeginInstall(p) \/ BeginUninstall(p) \/ Start(p)
  <2>1. pc'[p] \notin Changing \cup {"finish"}
    BY <1>3, <1>8 DEF BeginInstall, BeginUninstall, Start, Goto, Changing
  <2> QED BY <1>1, <1>2, <2>1, NoFiles
<1> QED BY <1>5, <1>6, <1>7, <1>8
        DEF RecoverBusy, LoadRefused, BeginRefused, StartRefused, StartDenied, Spawn

(* A process that dies in a transaction abandons the places it touched.     *)
LEMMA CrashFiles ==
  ASSUME FilesInv, NEW p \in Processes, Frame(p), Crash(p)
  PROVE  FilesKept(p)
<1>1. End(p) /\ UNCHANGED disk /\ pc'[p] = "idle"
  BY DEF Crash, End, Goto, FilesInv, IInv, TypeOK, WorkOK
<1>2. taken \subseteq taken'
  BY DEF Crash
<1>3. PICK k \in Packages : k = Package(p)
  BY CallParts DEF Crash, FilesInv, IInv, ProcessOK, CallOK, Package
<1>4. CASE pc[p] \in Changing
  <2>1. packageLock[k] = p /\ pending[k] # None
    BY <1>3, <1>4 DEF FilesInv, IInv, ProcessOK, LocksOK, JudgedOK, Locked, Changing
  <2>2. taken' = taken \cup Abandoned(k)
    BY <1>3, <2>1 DEF Crash
  <2>3. \A d \in Directories, f \in Files : InTransaction(k, d, f) => <<d, f>> \in taken'
    BY <2>2 DEF InTransaction, Abandoned
  <2>4. ASSUME NEW j \in Packages, j # k, Working(j) PROVE Working(j)'
    BY <1>3, <2>4, WorkGoesOn
  <2>5. \A j \in Packages, d \in Directories, f \in Files :
          InTransaction(j, d, f)' <=> InTransaction(j, d, f)
    BY <1>1 DEF disk, InTransaction, Touched
  <2>6. PlacesOK'
    <3>1. \A j \in Packages, d \in Directories, f \in Files :
            InTransaction(j, d, f)' =>
              /\ InTransaction(j, d, f) /\ pending'[j] = pending[j]
              /\ Working(j)' \/ ~Working(j) \/ <<d, f>> \in taken'
      BY <1>1, <2>3, <2>4, <2>5 DEF disk
    <3> QED BY <1>1, <1>2, <2>5, <3>1, QuietPlaces DEF disk
  <2> QED BY <1>1, <2>6 DEF FilesKept, TaskOK, Changing
<1>5. CASE pc[p] \notin Changing
  <2>1. \A j \in Packages : Working(j) => Working(j)'
    BY <1>5, WorkGoesOn
  <2>2. \A j \in Packages, d \in Directories, f \in Files :
          InTransaction(j, d, f)' <=> InTransaction(j, d, f)
    BY <1>1 DEF disk, InTransaction, Touched
  <2>3. PlacesOK'
    BY <1>1, <1>2, <2>1, <2>2, QuietPlaces DEF disk
  <2> QED BY <1>1, <2>3 DEF FilesKept, TaskOK, Changing
<1> QED BY <1>4, <1>5

-----------------------------------------------------------------------------
(* What undoing does to the files: it is complete, or it leaves the rest of *)
(* the transaction for a recovery.                                          *)
LEMMA UndoFiles ==
  ASSUME TypeOK, NEW k \in Packages, pending[k] # None, Undo(k)
  PROVE  LET tx == pending[k]
             d  == pending[k].directory
         IN  /\ \A f \in Files : f \notin Touched(tx) => tree'[d][f] = tree[d][f]
             /\ pending'[k] = None => \A f \in Touched(tx) : tree'[d][f] = Undone(tx, f)
             /\ pending'[k] # None =>
                  /\ pending'[k].directory = d
                  /\ Touched(pending[k])' \subseteq Touched(tx)
<1> DEFINE tx == pending[k]
           d  == pending[k].directory
           Restored(part) ==
             [tree EXCEPT ![tx.directory] =
                [f \in Files |-> IF f \in part THEN Undone(tx, f) ELSE @[f]]]
<1>1. tx \in Pending /\ d \in Directories /\ Touched(tx) \subseteq Files
  BY DEF TypeOK, DiskOK, Pending, Touched
<1>2. ASSUME NEW part \in SUBSET Files, tree' = Restored(part)
      PROVE  /\ \A f \in Files : f \notin part => tree'[d][f] = tree[d][f]
             /\ \A f \in part : tree'[d][f] = Undone(tx, f)
  <2>1. tree'[d] = [f \in Files |-> IF f \in part THEN Undone(tx, f) ELSE tree[d][f]]
    BY <1>1, <1>2 DEF TypeOK, DiskOK
  <2> QED BY <2>1
<1>3. CASE tree' = Restored(Touched(tx)) /\ pending' = [pending EXCEPT ![k] = None]
  <2>1. pending'[k] = None
    BY <1>3 DEF TypeOK, DiskOK
  <2> HIDE DEF Restored
  <2> QED BY <1>1, <1>2, <1>3, <2>1
<1>4. ASSUME NEW part \in SUBSET Touched(tx), tree' = Restored(part),
             pending' = [pending EXCEPT ![k].backup =
                           [f \in Files |-> IF f \in part THEN None ELSE @[f]]]
      PROVE  /\ \A f \in Files : f \notin Touched(tx) => tree'[d][f] = tree[d][f]
             /\ pending'[k] # None
             /\ pending'[k].directory = d
             /\ Touched(pending[k])' \subseteq Touched(tx)
  <2> DEFINE rest == [f \in Files |-> IF f \in part THEN None ELSE tx.backup[f]]
  <2>1. pending'[k] = [tx EXCEPT !.backup = rest]
    BY <1>4 DEF TypeOK, DiskOK
  <2>2. /\ pending'[k].directory = d /\ pending'[k].named = tx.named
        /\ pending'[k].backup = rest
    BY <1>1, <2>1 DEF Pending
  <2>3. pending'[k] # None
    <3>1. [tx EXCEPT !.backup = rest] \in Pending
      BY <1>1 DEF Pending
    <3> QED BY <2>1, <3>1, EngineAssumption
  <2>4. Touched(pending[k])' \subseteq Touched(tx)
    BY <2>2 DEF Touched
  <2> HIDE DEF Restored
  <2> QED BY <1>1, <1>2, <1>4, <2>2, <2>3, <2>4
<1> QED BY <1>3, <1>4 DEF Undo

(* Two processes have no place in hand at the same time.                    *)
LEMMA OneTransaction ==
  ASSUME FilesInv, NEW d \in Directories, NEW f \in Files, <<d, f>> \notin taken,
         NEW k \in Packages, NEW j \in Packages,
         InTransaction(k, d, f), InTransaction(j, d, f)
  PROVE  j = k
<1>1. Working(k) /\ Working(j) /\ pending[k].directory = d /\ pending[j].directory = d
  BY DEF FilesInv, PlacesOK, PlaceOK, InTransaction
<1>2. PICK p \in Processes : pc[p] \in Changing /\ Package(p) = k
  BY <1>1 DEF Working
<1>3. directoryLock[d] = p
  BY <1>1, <1>2 DEF FilesInv, IInv, ProcessOK, LocksOK, JudgedOK
<1> QED BY <1>1, <1>2, <1>3, OneWorker DEF FilesInv

(* Undoing gives the owner its file back.  What stays behind of a           *)
(* transaction no process works on is no longer vouched for.                *)
LEMMA UndoPlaces ==
  ASSUME FilesInv, NEW k \in Packages, pending[k] # None, ~pending[k].committed, Undo(k),
         taken \subseteq taken',
         \A d \in Directories, f \in Files :
           pending'[k] # None /\ InTransaction(k, d, f) => <<d, f>> \in taken',
         \A j \in Packages \ {k} : Working(j) => Working(j)'
  PROVE  PlacesOK'
<1> SUFFICES ASSUME NEW d \in Directories, NEW f \in Files, <<d, f>> \notin taken'
             PROVE  PlaceOK(d, f)'
  BY DEF PlacesOK
<1>1. <<d, f>> \notin taken /\ PlaceOK(d, f) /\ TypeOK
  BY DEF FilesInv, IInv, PlacesOK
<1>2. /\ receipts' = receipts
      /\ \A j \in Packages \ {k} : pending'[j] = pending[j]
      /\ d # pending[k].directory => tree'[d] = tree[d]
  BY <1>1, UndoTypes
<1>3. \A j \in Packages : Owns(j, d, f)' <=> Owns(j, d, f)
  BY <1>2 DEF Owns
<1>4. \A j \in Packages \ {k} : InTransaction(j, d, f)' <=> InTransaction(j, d, f)
  BY <1>2 DEF InTransaction, Touched
<1>5. CASE InTransaction(k, d, f)
  <2>1. pending'[k] = None /\ pending[k].directory = d /\ f \in Touched(pending[k])
    BY <1>5 DEF InTransaction
  <2>2. tree'[d][f] = pending[k].backup[f]
    <3>1. tree'[d][f] = Undone(pending[k], f)
      BY <1>1, <2>1, UndoFiles
    <3>2. tree[d][f] = None \/ Published(pending[k], f)
      BY <1>1, <1>5 DEF PlaceOK
    <3> QED BY <2>1, <3>1, <3>2 DEF Undone
  <2>3. \A j \in Packages : ~InTransaction(j, d, f)'
    <3>1. ~InTransaction(k, d, f)'
      BY <2>1 DEF InTransaction
    <3>2. \A j \in Packages : InTransaction(j, d, f) => j = k
      BY <1>1, <1>5, OneTransaction
    <3> QED BY <1>4, <3>1, <3>2
  <2> QED BY <1>1, <1>2, <1>3, <1>5, <2>2, <2>3 DEF PlaceOK
<1>6. CASE ~InTransaction(k, d, f)
  <2>1. pending[k].directory = d => f \notin Touched(pending[k])
    BY <1>6 DEF InTransaction
  <2>2. tree'[d][f] = tree[d][f]
    BY <1>1, <1>2, <2>1, UndoFiles
  <2>3. ~InTransaction(k, d, f)'
    BY <1>1, <2>1, UndoFiles DEF InTransaction
  <2>4. ASSUME NEW j \in Packages, InTransaction(j, d, f)'
        PROVE  /\ j # k /\ InTransaction(j, d, f) /\ pending'[j] = pending[j] /\ Working(j)'
               /\ Published(pending[j], f)' <=> Published(pending[j], f)
    <3>1. j # k /\ InTransaction(j, d, f) /\ pending'[j] = pending[j]
      BY <1>2, <1>4, <2>3, <2>4
    <3>2. Working(j)'
      BY <1>1, <3>1 DEF PlaceOK
    <3>3. pending[j].directory = d
      BY <3>1 DEF InTransaction
    <3> QED BY <2>2, <3>1, <3>2, <3>3 DEF Published
  <2> QED BY <1>1, <1>2, <1>3, <1>4, <1>6, <2>2, <2>3, <2>4 DEF PlaceOK
<1> QED BY <1>5, <1>6

(* A call that fails undoes its transaction.                                *)
LEMMA RollbackFiles ==
  ASSUME FilesInv, NEW p \in Processes, Frame(p), Rollback(p)
  PROVE  FilesKept(p)
<1>1. pc[p] \in Changing /\ TypeOK /\ ProcessOK(p) /\ TaskOK(p)
  BY DEF Rollback, Changing, FilesInv, IInv
<1>2. PICK k \in Packages : k = Package(p)
  BY <1>1, InHand
<1>3. pending[k] # None /\ ~pending[k].committed
  BY <1>1, <1>2 DEF ProcessOK, JudgedOK, TaskOK, Changing
<1>4. /\ Undo(k) /\ pc'[p] = "idle"
      /\ taken' = IF pending'[k] = None THEN taken ELSE taken \cup Abandoned(k)
  BY <1>1, <1>2 DEF Rollback, End, Goto, TypeOK, WorkOK
<1>5. \A d \in Directories, f \in Files :
        pending'[k] # None /\ InTransaction(k, d, f) => <<d, f>> \in taken'
  BY <1>4 DEF InTransaction, Abandoned
<1>6. \A j \in Packages \ {k} : Working(j) => Working(j)'
  BY <1>2, WorkGoesOn
<1>7. PlacesOK'
  BY <1>3, <1>4, <1>5, <1>6, UndoPlaces
<1> QED BY <1>4, <1>7 DEF FilesKept, TaskOK, Changing

(* A recovery only touches what is no longer vouched for.                   *)
LEMMA RecoveringFiles ==
  ASSUME FilesInv, NEW p \in Processes, Frame(p), Recovering(p)
  PROVE  FilesKept(p)
<1>1. pc[p] = "recovering" /\ TypeOK /\ ProcessOK(p) /\ taken' = taken
  BY DEF Recovering, FilesInv, IInv
<1>2. PICK k \in Packages : k = Package(p)
  BY <1>1, CallParts DEF ProcessOK, CallOK, Package
<1>3. packageLock[k] = p /\ pending[k] # None /\ ~Working(k)
  <2>1. packageLock[k] = p /\ pending[k] # None
    BY <1>1, <1>2 DEF ProcessOK, LocksOK, Locked
  <2> QED BY <1>1, <2>1, OneCaller DEF FilesInv, Changing
<1>4. pc'[p] \notin Changing \cup {"finish"}
  BY <1>1 DEF Recovering, End, Goto, TypeOK, WorkOK, Changing
<1>5. \A j \in Packages : Working(j) => Working(j)'
  BY <1>1, WorkGoesOn DEF Changing
<1>6. CASE pending[k].committed
  <2>1. pending' = [pending EXCEPT ![k] = None] /\ UNCHANGED <<tree, receipts>>
    BY <1>2, <1>6 DEF Recovering
  <2>2. pending'[k] = None /\ \A j \in Packages \ {k} : pending'[j] = pending[j]
    BY <1>1, <2>1 DEF TypeOK, DiskOK
  <2>3. ASSUME NEW j \in Packages, NEW d \in Directories, NEW f \in Files
        PROVE  /\ InTransaction(j, d, f)' <=> InTransaction(j, d, f)
               /\ InTransaction(j, d, f) => pending'[j] = pending[j]
    <3>1. CASE j = k
      BY <1>6, <2>2, <3>1 DEF InTransaction
    <3>2. CASE j # k
      <4>1. pending'[j] = pending[j]
        BY <2>2, <3>2
      <4> QED BY <4>1 DEF InTransaction, Touched
    <3> QED BY <3>1, <3>2
  <2>4. PlacesOK'
    BY <1>1, <1>5, <2>1, <2>3, QuietPlaces
  <2> QED BY <1>4, <2>4 DEF FilesKept, TaskOK
<1>7. CASE ~pending[k].committed
  <2>1. Undo(k)
    BY <1>2, <1>7 DEF Recovering
  <2>2. \A d \in Directories, f \in Files : InTransaction(k, d, f) => <<d, f>> \in taken'
    BY <1>1, <1>3 DEF FilesInv, PlacesOK, PlaceOK
  <2>3. PlacesOK'
    BY <1>1, <1>3, <1>5, <1>7, <2>1, <2>2, UndoPlaces
  <2> QED BY <1>4, <2>3 DEF FilesKept, TaskOK
<1> QED BY <1>6, <1>7

(* A call that has committed cleans up, or leaves that to a recovery.       *)
LEMMA FinishFiles ==
  ASSUME FilesInv, NEW p \in Processes, Frame(p), Finish(p)
  PROVE  FilesKept(p)
<1>1. /\ pc[p] = "finish" /\ TypeOK /\ ProcessOK(p) /\ TaskOK(p)
      /\ UNCHANGED <<tree, receipts, taken>> /\ pc'[p] = "idle"
  BY DEF Finish, End, Goto, FilesInv, IInv, TypeOK, WorkOK
<1>2. PICK k \in Packages : k = Package(p)
  BY <1>1, CallParts DEF ProcessOK, CallOK, Package
<1>3. pending[k] = None \/ pending[k].committed
  BY <1>1, <1>2 DEF TaskOK
<1>4. /\ \A j \in Packages \ {k} : pending'[j] = pending[j]
      /\ pending'[k] \in {pending[k], None}
  BY <1>1, <1>2 DEF Finish, TypeOK, DiskOK
<1>5. ASSUME NEW j \in Packages, NEW d \in Directories, NEW f \in Files
      PROVE  /\ InTransaction(j, d, f)' <=> InTransaction(j, d, f)
             /\ InTransaction(j, d, f) => pending'[j] = pending[j]
  <2>1. CASE j = k
    BY <1>3, <1>4, <2>1 DEF InTransaction
  <2>2. CASE j # k
    <3>1. pending'[j] = pending[j]
      BY <1>4, <2>2
    <3> QED BY <3>1 DEF InTransaction, Touched
  <2> QED BY <2>1, <2>2
<1>6. \A j \in Packages : Working(j) => Working(j)'
  BY <1>1, WorkGoesOn DEF Changing
<1>7. PlacesOK'
  BY <1>1, <1>5, <1>6, QuietPlaces
<1> QED BY <1>1, <1>7 DEF FilesKept, TaskOK, Changing

-----------------------------------------------------------------------------
(* Under the directory's lock, what lies at a place another package owns is *)
(* that package's file.                                                     *)
LEMMA FreePlaces ==
  ASSUME FilesInv, NEW d \in Directories, directoryLock[d] = None, NEW f \in Files,
         <<d, f>> \notin taken, NEW k \in Packages, Owns(k, d, f)
  PROVE  tree[d][f] # None
<1>1. ~InTransaction(k, d, f)
  <2> SUFFICES ASSUME InTransaction(k, d, f) PROVE FALSE
    OBVIOUS
  <2>1. Working(k) /\ pending[k].directory = d
    BY DEF FilesInv, PlacesOK, PlaceOK, InTransaction
  <2>2. PICK p \in Processes : pc[p] \in Changing /\ Package(p) = k
    BY <2>1 DEF Working
  <2>3. directoryLock[d] = p
    BY <2>1, <2>2 DEF FilesInv, IInv, ProcessOK, LocksOK, JudgedOK
  <2> QED BY <2>3, EngineAssumption
<1>2. tree[d][f] = receipts[k].files[f]
  BY <1>1 DEF FilesInv, PlacesOK, PlaceOK
<1>3. receipts[k] \in Receipt /\ f \in DOMAIN receipts[k].files
  BY DEF Owns, FilesInv, IInv, TypeOK, DiskOK
<1> QED BY <1>2, <1>3, OwnedFiles, AssessmentAssumption

(* A transaction starts where nobody else owns what it is to publish.       *)
LEMMA StartTransactionFiles ==
  ASSUME FilesInv, NEW p \in Processes, Frame(p), StartTransaction(p)
  PROVE  FilesKept(p)
<1>1. /\ pc[p] = "directory" /\ TypeOK /\ ProcessOK(p) /\ CallOK(p)
      /\ UNCHANGED <<tree, receipts, call, seen, taken>> /\ pc'[p] = "apply"
  BY DEF StartTransaction, Goto, FilesInv, IInv, ProcessOK, TypeOK, WorkOK
<1>2. PICK k \in Packages : k = Package(p)
  BY <1>1, Places DEF Mutating
<1>3. PICK D \in Directories : D = Directory(p)
  BY <1>1, Places DEF Mutating
<1>4. NewFiles(p) \subseteq Files /\ OldFiles(p) \subseteq Files
  BY <1>1, Places DEF Mutating
<1>5. directoryLock[D] = None /\ pending[k] = None /\ DestinationFree(p)
  BY <1>2, <1>3 DEF StartTransaction, MayStart
<1>6. /\ \A j \in Packages \ {k} : pending'[j] = pending[j]
      /\ ~pending'[k].committed
      /\ pending'[k].named = {} /\ pending'[k].backup = [f \in Files |-> None]
      /\ todo'[p] = OldFiles(p) \cup NewFiles(p)
  BY <1>1, <1>2 DEF StartTransaction, TypeOK, DiskOK, WorkOK
<1>7. Touched(pending[k])' = {}
  BY <1>6 DEF Touched
<1>8. ASSUME NEW j \in Packages, NEW d \in Directories, NEW f \in Files
      PROVE  /\ InTransaction(j, d, f)' <=> InTransaction(j, d, f)
             /\ InTransaction(j, d, f) => pending'[j] = pending[j]
  <2>1. CASE j = k
    BY <1>5, <1>7, <2>1 DEF InTransaction
  <2>2. CASE j # k
    <3>1. pending'[j] = pending[j]
      BY <1>6, <2>2
    <3> QED BY <3>1 DEF InTransaction, Touched
  <2> QED BY <2>1, <2>2
<1>9. \A j \in Packages : Working(j) => Working(j)'
  BY <1>1, WorkGoesOn DEF Changing
<1>10. PlacesOK'
  BY <1>1, <1>8, <1>9, QuietPlaces
<1>11. ASSUME NEW f \in NewFiles(p), <<D, f>> \notin taken, NEW other \in Packages \ {k}
       PROVE  ~Owns(other, D, f)
  <2> SUFFICES ASSUME Owns(other, D, f) PROVE FALSE
    OBVIOUS
  <2>1. f \in Files
    BY <1>4
  <2>2. CASE f \in OldFiles(p)
    <3>1. Owns(k, D, f)
      BY <1>1, <1>2, <1>3, <2>1, <2>2, OldFilesOwned DEF FilesInv
    <3> QED BY <1>11, <2>1, <3>1 DEF FilesInv, PlacesOK, PlaceOK
  <2>3. CASE f \notin OldFiles(p)
    <3>1. tree[D][f] = None
      BY <1>3, <1>5, <2>3 DEF DestinationFree, Found
    <3> QED BY <1>5, <1>11, <2>1, <3>1, FreePlaces
  <2> QED BY <2>2, <2>3
<1>12. TaskOK(p)'
  <2>1. Package(p)' = k /\ Directory(p)' = D /\ NewFiles(p)' = NewFiles(p)
    BY <1>1, <1>2, <1>3 DEF Package, Directory, NewFiles
  <2>2. \A f \in NewFiles(p), other \in Packages \ {k} : <<D, f>> \notin taken' => ~Owns(other, D, f)'
    BY <1>1, <1>11 DEF Owns
  <2>3. \A f \in NewFiles(p) : f \in todo'[p]
    BY <1>6
  <2>4. \A f \in NewFiles(p)' : <<Directory(p)', f>> \notin taken' =>
          /\ f \in todo'[p]
          /\ \A other \in Packages \ {Package(p)'} : ~Owns(other, D, f)'
    BY <2>1, <2>2, <2>3
  <2> QED BY <1>1, <1>6, <1>7, <2>1, <2>4 DEF TaskOK
<1> QED BY <1>10, <1>12 DEF FilesKept

(* An obsolete file is set aside by its owner.                              *)
LEMMA RemoveOwnedFiles ==
  ASSUME FilesInv, NEW p \in Processes, Keeps(p), RemoveOwned(p)
  PROVE  FilesKept(p)
<1>1. /\ pc[p] = "apply" /\ pc' = pc /\ TypeOK /\ ProcessOK(p) /\ TaskOK(p) /\ TypeOK' /\ Frame(p)
      /\ UNCHANGED <<receipts, call, seen, cur, taken>>
  BY DEF RemoveOwned, FilesInv, IInv, Keeps
<1>2. PICK f \in Obsolete(p) \cap todo[p] : RemoveIfUnchanged(p, f) /\ Handled(p, f)
  BY DEF RemoveOwned
<1>3. PICK k \in Packages : k = Package(p)
  BY <1>1, InHand DEF Changing
<1>4. PICK D \in Directories : D = Directory(p)
  BY <1>1, InHand DEF Changing
<1>5. /\ pending[k] \in Pending /\ pending[k].directory = D
      /\ NewFiles(p) \subseteq Files /\ f \in Files /\ f \in OldFiles(p) /\ f \notin NewFiles(p)
  BY <1>1, <1>3, <1>4, InHand DEF Changing, Obsolete
<1>6. todo'[p] = todo[p] \ {f} /\ todo[p] \subseteq Files
  BY <1>1, <1>2 DEF Handled, TypeOK, WorkOK
<1>7. /\ ~pending[k].committed /\ f \notin Touched(pending[k])
      /\ todo[p] \cap Touched(pending[k]) = {}
  BY <1>1, <1>2, <1>3 DEF TaskOK, Changing
<1>8. /\ Package(p)' = k /\ Directory(p)' = D /\ NewFiles(p)' = NewFiles(p)
  BY <1>1, <1>3, <1>4 DEF Package, Directory, NewFiles
<1>9. CASE UNCHANGED <<tree, pending>>
  <2>1. \A j \in Packages, d \in Directories, g \in Files :
          InTransaction(j, d, g)' <=> InTransaction(j, d, g)
    BY <1>9 DEF InTransaction, Touched
  <2>2. \A j \in Packages : Working(j) => Working(j)'
    BY <1>1, WorkGoesOn
  <2>3. PlacesOK'
    BY <1>1, <1>9, <2>1, <2>2, QuietPlaces
  <2>4. TaskOK(p)'
    BY <1>1, <1>3, <1>4, <1>5, <1>6, <1>7, <1>8, <1>9
    DEF TaskOK, Found, Owns, Changing, Touched
  <2> QED BY <2>3, <2>4 DEF FilesKept
<1>10. CASE Found(p, f) = seen[p].files[f] /\ SetAside(p, f)
  <2>1. /\ tree' = [tree EXCEPT ![D][f] = None]
        /\ pending' = [pending EXCEPT ![k].backup[f] = tree[D][f]]
    BY <1>3, <1>4, <1>10 DEF SetAside, Found
  <2>2. /\ tree'[D][f] = None
        /\ \A g \in Files \ {f} : tree'[D][g] = tree[D][g]
        /\ \A d \in Directories \ {D} : tree'[d] = tree[d]
        /\ \A j \in Packages \ {k} : pending'[j] = pending[j]
    BY <1>1, <1>5, <2>1 DEF TypeOK, DiskOK
  <2>3. pending'[k] = [pending[k] EXCEPT !.backup[f] = tree[D][f]]
    BY <1>1, <2>1 DEF TypeOK, DiskOK
  <2>4. /\ pending'[k].directory = D /\ pending'[k].receipt = pending[k].receipt
        /\ pending'[k].committed = pending[k].committed
        /\ pending'[k].named = pending[k].named
        /\ pending'[k].backup[f] = tree[D][f]
        /\ \A g \in Files \ {f} : pending'[k].backup[g] = pending[k].backup[g]
    BY <1>5, <2>3 DEF Pending
  <2>5. pending'[k] \in Pending
    <3>1. tree[D][f] \in Contents \cup {None}
      BY <1>1, <1>5 DEF TypeOK, DiskOK
    <3> QED BY <1>5, <2>3, <3>1 DEF Pending
  <2>6. ASSUME <<D, f>> \notin taken
        PROVE  /\ \A other \in Packages \ {k} : ~Owns(other, D, f)
               /\ Owns(k, D, f)
               /\ tree[D][f] = receipts[k].files[f]
               /\ InTransaction(k, D, f)'
    <3>1. Owns(k, D, f) /\ receipts[k].files[f] = seen[p].files[f]
      BY <1>1, <1>3, <1>4, <1>5, OldFilesOwned DEF FilesInv, Changing
    <3>2. \A other \in Packages \ {k} : ~Owns(other, D, f)
      BY <1>5, <2>6, <3>1 DEF FilesInv, PlacesOK, PlaceOK
    <3>3. tree[D][f] = receipts[k].files[f]
      BY <1>4, <1>10, <3>1 DEF Found
    <3>4. tree[D][f] # None
      BY <1>1, <3>1, <3>3, OwnedFiles, AssessmentAssumption DEF Owns, TypeOK, DiskOK
    <3>5. pending'[k] # None
      BY <2>5, EngineAssumption
    <3> QED BY <1>5, <1>7, <2>4, <3>1, <3>2, <3>3, <3>4, <3>5 DEF InTransaction, Touched
  <2>7. PlacesOK'
    <3> HIDE <2>1, <2>3
    <3>1. pc[p] \in Changing /\ pc'[p] \in Changing
      BY <1>1 DEF Changing
    <3>2. <<D, f>> \notin taken =>
            /\ \A other \in Packages \ {k} : ~Owns(other, D, f)
            /\ Owns(k, D, f) /\ ~InTransaction(k, D, f)' => tree'[D][f] = receipts[k].files[f]
            /\ InTransaction(k, D, f)' =>
                 /\ pending'[k].backup[f] =
                      IF Owns(k, D, f) THEN receipts[k].files[f] ELSE None
                 /\ tree'[D][f] = None \/ Published(pending[k], f)'
      BY <2>2, <2>4, <2>6
    <3> QED BY <1>1, <1>3, <1>4, <1>5, <2>2, <2>4, <2>5, <3>1, <3>2, OnePlace
  <2>8. Touched(pending[k])' \subseteq Touched(pending[k]) \cup {f}
    BY <2>4 DEF Touched
  <2>9. \A g \in NewFiles(p) : tree'[D][g] = tree[D][g]
    BY <1>5, <2>2
  <2>10. TaskOK(p)'
    BY <1>1, <1>3, <1>4, <1>5, <1>6, <1>7, <1>8, <2>4, <2>8, <2>9 DEF TaskOK, Found, Owns, Changing
  <2> QED BY <2>7, <2>10 DEF FilesKept
<1> QED BY <1>2, <1>9, <1>10 DEF RemoveIfUnchanged

(* A file is announced, and what its owner had there is set aside.          *)
LEMMA AnnounceFiles ==
  ASSUME FilesInv, NEW p \in Processes, Keeps(p), Announce(p)
  PROVE  FilesKept(p)
<1>1. /\ pc[p] = "apply" /\ TypeOK /\ ProcessOK(p) /\ TaskOK(p) /\ TypeOK' /\ Frame(p)
      /\ UNCHANGED <<receipts, call, seen, taken>>
  BY DEF Announce, FilesInv, IInv, Keeps
<1>2. PICK f \in NewFiles(p) \cap todo[p] :
        IF f \in OldFiles(p) /\ Found(p, f) = call[p].release.files[f]
        THEN /\ Handled(p, f)
             /\ UNCHANGED <<tree, pending, pc, cur>>
        ELSE /\ Found(p, f) = None \/ f \in OldFiles(p)
             /\ tree' = [tree EXCEPT ![Directory(p)][f] = None]
             /\ pending' = [pending EXCEPT ![Package(p)].backup[f] = Found(p, f),
                                           ![Package(p)].named = @ \cup {f}]
             /\ cur' = [cur EXCEPT ![p] = f]
             /\ Goto(p, "publish")
             /\ UNCHANGED todo
  BY DEF Announce
<1>3. PICK k \in Packages : k = Package(p)
  BY <1>1, InHand DEF Changing
<1>4. PICK D \in Directories : D = Directory(p)
  BY <1>1, InHand DEF Changing
<1>5. /\ pending[k] \in Pending /\ pending[k].directory = D
      /\ NewFiles(p) \subseteq Files /\ f \in Files /\ f \in NewFiles(p)
  BY <1>1, <1>3, <1>4, InHand DEF Changing
<1>6. /\ ~pending[k].committed /\ f \notin Touched(pending[k])
      /\ todo[p] \cap Touched(pending[k]) = {}
  BY <1>1, <1>2, <1>3 DEF TaskOK, Changing
<1>7. /\ Package(p)' = k /\ Directory(p)' = D /\ NewFiles(p)' = NewFiles(p)
  BY <1>1, <1>3, <1>4 DEF Package, Directory, NewFiles
<1>8. CASE /\ Found(p, f) = call[p].release.files[f]
           /\ Handled(p, f)
           /\ UNCHANGED <<tree, pending, pc, cur>>
  <2>1. \A j \in Packages, d \in Directories, g \in Files :
          InTransaction(j, d, g)' <=> InTransaction(j, d, g)
    BY <1>8 DEF InTransaction, Touched
  <2>2. \A j \in Packages : Working(j) => Working(j)'
    BY <1>1, <1>8, WorkGoesOn
  <2>3. PlacesOK'
    BY <1>1, <1>8, <2>1, <2>2, QuietPlaces
  <2>4. todo'[p] = todo[p] \ {f}
    BY <1>1, <1>8 DEF Handled, TypeOK, WorkOK
  <2>5. TaskOK(p)'
    BY <1>1, <1>3, <1>4, <1>5, <1>6, <1>7, <1>8, <2>4
    DEF TaskOK, Found, Owns, Changing, Touched
  <2> QED BY <2>3, <2>5 DEF FilesKept
<1>9. CASE /\ Found(p, f) = None \/ f \in OldFiles(p)
           /\ tree' = [tree EXCEPT ![Directory(p)][f] = None]
           /\ pending' = [pending EXCEPT ![Package(p)].backup[f] = Found(p, f),
                                         ![Package(p)].named = @ \cup {f}]
           /\ cur' = [cur EXCEPT ![p] = f]
           /\ Goto(p, "publish")
           /\ UNCHANGED todo
  <2>1. /\ tree' = [tree EXCEPT ![D][f] = None]
        /\ pending' = [pending EXCEPT ![k].backup[f] = tree[D][f], ![k].named = @ \cup {f}]
    BY <1>3, <1>4, <1>9 DEF Found
  <2>2. /\ tree'[D][f] = None
        /\ \A g \in Files \ {f} : tree'[D][g] = tree[D][g]
        /\ \A d \in Directories \ {D} : tree'[d] = tree[d]
        /\ \A j \in Packages \ {k} : pending'[j] = pending[j]
        /\ pc'[p] = "publish" /\ cur'[p] = f
    <3>1. /\ tree'[D][f] = None
          /\ \A g \in Files \ {f} : tree'[D][g] = tree[D][g]
          /\ \A d \in Directories \ {D} : tree'[d] = tree[d]
      BY <1>1, <1>5, <2>1 DEF TypeOK, DiskOK
    <3>2. \A j \in Packages \ {k} : pending'[j] = pending[j]
      BY <1>1, <2>1 DEF TypeOK, DiskOK
    <3>3. pc'[p] = "publish" /\ cur'[p] = f
      BY <1>1, <1>9 DEF TypeOK, WorkOK, Goto
    <3> QED BY <3>1, <3>2, <3>3
  <2>3. pending'[k] = [pending[k] EXCEPT !.backup[f] = tree[D][f], !.named = @ \cup {f}]
    BY <1>1, <2>1 DEF TypeOK, DiskOK
  <2>4. /\ pending'[k].directory = D /\ pending'[k].receipt = pending[k].receipt
        /\ pending'[k].committed = pending[k].committed
        /\ pending'[k].named = pending[k].named \cup {f}
        /\ pending'[k].backup[f] = tree[D][f]
        /\ \A g \in Files \ {f} : pending'[k].backup[g] = pending[k].backup[g]
    BY <1>5, <2>3 DEF Pending
  <2>5. pending'[k] \in Pending /\ pending'[k] # None
    <3>1. tree[D][f] \in Contents \cup {None}
      BY <1>1, <1>5 DEF TypeOK, DiskOK
    <3> DEFINE tx == [pending[k] EXCEPT !.backup[f] = tree[D][f], !.named = @ \cup {f}]
    <3>2. tx \in Pending
      <4>1. /\ [pending[k].backup EXCEPT ![f] = tree[D][f]] \in [Files -> Contents \cup {None}]
            /\ pending[k].named \cup {f} \in SUBSET Files
        BY <1>5, <3>1 DEF Pending
      <4> QED BY <1>5, <4>1 DEF Pending
    <3> HIDE DEF tx
    <3>3. pending'[k] = tx
      BY <2>3 DEF tx
    <3> QED BY <3>2, <3>3, EngineAssumption
  <2>6. ASSUME <<D, f>> \notin taken
        PROVE  /\ \A other \in Packages \ {k} : ~Owns(other, D, f)
               /\ tree[D][f] = IF Owns(k, D, f) THEN receipts[k].files[f] ELSE None
               /\ InTransaction(k, D, f)'
    <3>1. f \in OldFiles(p) <=> Owns(k, D, f)
      BY <1>1, <1>3, <1>4, <1>5, OldFilesOwned DEF FilesInv, Changing
    <3>2. \A other \in Packages \ {k} : ~Owns(other, D, f)
      BY <1>1, <1>3, <1>4, <1>5, <2>6 DEF TaskOK, Changing
    <3>3. ~InTransaction(k, D, f)
      BY <1>6 DEF InTransaction
    <3>4. Owns(k, D, f) => tree[D][f] = receipts[k].files[f]
      BY <1>5, <2>6, <3>3 DEF FilesInv, PlacesOK, PlaceOK
    <3>5. InTransaction(k, D, f)'
      BY <1>6, <2>4, <2>5 DEF InTransaction, Touched
    <3> QED BY <1>4, <1>9, <3>1, <3>2, <3>4, <3>5 DEF Found
  <2>7. PlacesOK'
    <3>1. pc[p] \in Changing /\ pc'[p] \in Changing
      BY <1>1, <2>2 DEF Changing
    <3>2. <<D, f>> \notin taken =>
            /\ \A other \in Packages \ {k} : ~Owns(other, D, f)
            /\ Owns(k, D, f) /\ ~InTransaction(k, D, f)' => tree'[D][f] = receipts[k].files[f]
            /\ InTransaction(k, D, f)' =>
                 /\ pending'[k].backup[f] =
                      IF Owns(k, D, f) THEN receipts[k].files[f] ELSE None
                 /\ tree'[D][f] = None \/ Published(pending[k], f)'
      BY <2>2, <2>4, <2>6
    <3>3. \A g \in Files \ {f} : g \in pending'[k].named <=> g \in pending[k].named
      BY <2>4
    <3> QED BY <1>1, <1>3, <1>4, <1>5, <2>2, <2>4, <2>5, <3>1, <3>2, <3>3, OnePlace
  <2>8. Touched(pending[k])' \subseteq Touched(pending[k]) \cup {f}
    BY <2>4 DEF Touched
  <2>9. \A g \in NewFiles(p) : g \notin todo[p] => tree'[D][g] = tree[D][g]
    BY <1>2, <1>5, <2>2
  <2>10. TaskOK(p)'
    <3>1. todo'[p] = todo[p]
      BY <1>9
    <3>2. \A g \in todo'[p] \cap Touched(pending[k])' : g = cur'[p]
      BY <1>6, <2>2, <2>8, <3>1
    <3>3. ASSUME NEW g \in NewFiles(p), <<D, g>> \notin taken
          PROVE  /\ g \notin todo'[p] => tree'[D][g] = call[p].release.files[g]
                 /\ \A other \in Packages \ {k} : ~Owns(other, D, g)'
      <4>1. /\ g \notin todo[p] => tree[D][g] = call[p].release.files[g]
            /\ \A other \in Packages \ {k} : ~Owns(other, D, g)
        BY <1>1, <1>3, <1>4, <3>3 DEF TaskOK, Found, Changing
      <4>2. \A other \in Packages \ {k} : ~Owns(other, D, g)'
        BY <1>1, <4>1 DEF Owns
      <4> QED BY <2>9, <3>1, <3>3, <4>1, <4>2
    <3> QED BY <1>1, <1>6, <1>7, <2>2, <2>4, <3>2, <3>3 DEF TaskOK, Found
  <2> QED BY <2>7, <2>10 DEF FilesKept
<1> QED BY <1>2, <1>8, <1>9

(* The new file appears where its transaction announced it.                 *)
LEMMA PublishFiles ==
  ASSUME FilesInv, NEW p \in Processes, Keeps(p), Publish(p)
  PROVE  FilesKept(p)
<1>1. /\ pc[p] = "publish" /\ TypeOK /\ ProcessOK(p) /\ TaskOK(p) /\ TypeOK' /\ Frame(p)
      /\ UNCHANGED <<receipts, pending, call, seen, taken>>
  BY DEF Publish, FilesInv, IInv, Keeps
<1>2. PICK k \in Packages : k = Package(p)
  BY <1>1, InHand DEF Changing
<1>3. PICK D \in Directories : D = Directory(p)
  BY <1>1, InHand DEF Changing
<1>4. /\ pending[k] \in Pending /\ pending[k] # None /\ pending[k].directory = D
      /\ pending[k].receipt = Target(p) /\ call[p].kind = "install"
      /\ NewFiles(p) \subseteq Files /\ cur[p] \in NewFiles(p)
  BY <1>1, <1>2, <1>3, InHand, EngineAssumption DEF Changing, ProcessOK, CallOK
<1>5. PICK f \in Files : f = cur[p] /\ f \in NewFiles(p)
  BY <1>4
<1>6. pending[k].receipt.files[f] = call[p].release.files[f]
  <2>1. call[p].release \in Release
    BY <1>1, <1>4, CallParts DEF ProcessOK, CallOK
  <2> QED BY <1>4, <2>1 DEF Target, ReceiptOf
<1>7. /\ ~pending[k].committed /\ f \in pending[k].named
      /\ todo[p] \cap Touched(pending[k]) \subseteq {f}
  BY <1>1, <1>2, <1>5 DEF TaskOK, Changing
<1>8. /\ Package(p)' = k /\ Directory(p)' = D /\ NewFiles(p)' = NewFiles(p)
  BY <1>1, <1>2, <1>3 DEF Package, Directory, NewFiles
<1>9. /\ tree'[D][f] = call[p].release.files[f]
      /\ \A g \in Files \ {f} : tree'[D][g] = tree[D][g]
      /\ \A d \in Directories \ {D} : tree'[d] = tree[d]
  BY <1>1, <1>3, <1>5 DEF Publish, TypeOK, DiskOK
<1>10. pc'[p] = "apply" /\ todo'[p] = todo[p] \ {f}
  BY <1>1, <1>5 DEF Publish, Handled, Goto, TypeOK, WorkOK
<1>11. ASSUME <<D, f>> \notin taken
       PROVE  /\ \A other \in Packages \ {k} : ~Owns(other, D, f)
              /\ InTransaction(k, D, f)'
              /\ pending[k].backup[f] = IF Owns(k, D, f) THEN receipts[k].files[f] ELSE None
              /\ Published(pending[k], f)'
  <2>1. InTransaction(k, D, f) /\ InTransaction(k, D, f)'
    BY <1>1, <1>4, <1>7 DEF InTransaction, Touched
  <2>2. PlaceOK(D, f)
    BY <1>11 DEF FilesInv, PlacesOK
  <2>3. Published(pending[k], f)'
    BY <1>1, <1>4, <1>6, <1>7, <1>9 DEF Published
  <2> QED BY <2>1, <2>2, <2>3 DEF PlaceOK
<1>12. PlacesOK'
  <2>1. pc[p] \in Changing /\ pc'[p] \in Changing
    BY <1>1, <1>10 DEF Changing
  <2>2. <<D, f>> \notin taken =>
          /\ \A other \in Packages \ {k} : ~Owns(other, D, f)
          /\ Owns(k, D, f) /\ ~InTransaction(k, D, f)' => tree'[D][f] = receipts[k].files[f]
          /\ InTransaction(k, D, f)' =>
               /\ pending'[k].backup[f] =
                    IF Owns(k, D, f) THEN receipts[k].files[f] ELSE None
               /\ tree'[D][f] = None \/ Published(pending[k], f)'
    BY <1>1, <1>11
  <2> QED BY <1>1, <1>2, <1>3, <1>4, <1>9, <2>1, <2>2, OnePlace
<1>13. TaskOK(p)'
  <2>1. todo'[p] \cap Touched(pending[k])' = {}
    BY <1>1, <1>7, <1>10 DEF Touched
  <2>2. ASSUME NEW g \in NewFiles(p), <<D, g>> \notin taken
        PROVE  /\ g \notin todo'[p] => tree'[D][g] = call[p].release.files[g]
               /\ \A other \in Packages \ {k} : ~Owns(other, D, g)'
    <3>1. /\ g \notin todo[p] => tree[D][g] = call[p].release.files[g]
          /\ \A other \in Packages \ {k} : ~Owns(other, D, g)
      BY <1>1, <1>2, <1>3, <2>2 DEF TaskOK, Found, Changing
    <3>2. \A other \in Packages \ {k} : ~Owns(other, D, g)'
      BY <1>1, <3>1 DEF Owns
    <3> QED BY <1>4, <1>9, <1>10, <2>2, <3>1, <3>2
  <2> QED BY <1>1, <1>7, <1>8, <1>10, <2>1, <2>2 DEF TaskOK, Found
<1> QED BY <1>12, <1>13 DEF FilesKept

(* At the commit the package has all its new files, and nobody else has.    *)
LEMMA CommitFiles ==
  ASSUME FilesInv, NEW p \in Processes, Keeps(p), Commit(p)
  PROVE  FilesKept(p)
<1>1. /\ pc[p] = "apply" /\ TypeOK /\ ProcessOK(p) /\ TaskOK(p) /\ TypeOK' /\ Frame(p)
      /\ UNCHANGED <<tree, call, seen, todo, cur, taken>> /\ todo[p] = {}
  BY DEF Commit, work, FilesInv, IInv, Keeps
<1>2. PICK k \in Packages : k = Package(p)
  BY <1>1, InHand DEF Changing
<1>3. PICK D \in Directories : D = Directory(p)
  BY <1>1, InHand DEF Changing
<1>4. /\ pending[k] \in Pending /\ pending[k] # None /\ pending[k].directory = D
      /\ pending[k].receipt = Target(p) /\ directoryLock[D] = p
      /\ NewFiles(p) \subseteq Files
  BY <1>1, <1>2, <1>3, InHand, EngineAssumption DEF Changing, ProcessOK, LocksOK
<1>5. /\ receipts'[k] = Target(p) /\ pending'[k].committed
      /\ \A j \in Packages \ {k} : receipts'[j] = receipts[j] /\ pending'[j] = pending[j]
      /\ pc'[p] = "finish" /\ Package(p)' = k
  <2>1. pending'[k] = [pending[k] EXCEPT !.committed = TRUE]
    BY <1>1, <1>2 DEF Commit, TypeOK, DiskOK
  <2>2. pending'[k].committed
    BY <1>4, <2>1 DEF Pending
  <2>3. \A j \in Packages \ {k} : receipts'[j] = receipts[j] /\ pending'[j] = pending[j]
    BY <1>1, <1>2 DEF Commit, TypeOK, DiskOK
  <2>4. receipts'[k] = Target(p)
    BY <1>1, <1>2, <1>4 DEF Commit, TypeOK, DiskOK
  <2>5. pc'[p] = "finish" /\ Package(p)' = k
    BY <1>1, <1>2 DEF Commit, Goto, TypeOK, WorkOK, Package
  <2> QED BY <2>2, <2>3, <2>4, <2>5
<1>6. ASSUME NEW d \in Directories, NEW f \in Files, Owns(k, d, f)'
      PROVE  d = D /\ f \in NewFiles(p) /\ receipts'[k].files[f] = call[p].release.files[f]
  <2>1. Target(p) # None /\ Target(p).directory = d /\ f \in DOMAIN Target(p).files
        /\ receipts'[k] = Target(p)
    BY <1>5, <1>6 DEF Owns
  <2>2. call[p].kind = "install" /\ call[p].release \in Release
    BY <1>1, <2>1, CallParts DEF Target, ProcessOK, CallOK, Changing, Mutating
  <2> QED BY <1>3, <2>1, <2>2 DEF Target, ReceiptOf, Directory, NewFiles
<1>7. ASSUME NEW f \in NewFiles(p), <<D, f>> \notin taken
      PROVE  /\ tree[D][f] = call[p].release.files[f]
             /\ \A other \in Packages \ {k} : ~Owns(other, D, f)
  BY <1>1, <1>2, <1>3, <1>7 DEF TaskOK, Found, Changing
<1>8. \A j \in Packages \ {k} : Working(j) => Working(j)'
  BY <1>1, <1>2, WorkGoesOn
<1>9. PlacesOK'
  <2> SUFFICES ASSUME NEW d \in Directories, NEW f \in Files, <<d, f>> \notin taken'
               PROVE  PlaceOK(d, f)'
    BY DEF PlacesOK
  <2>1. <<d, f>> \notin taken /\ PlaceOK(d, f) /\ tree' = tree
    BY <1>1 DEF FilesInv, PlacesOK
  <2>2. ~InTransaction(k, d, f)'
    BY <1>5 DEF InTransaction
  <2>3. \A j \in Packages \ {k} :
          /\ InTransaction(j, d, f)' <=> InTransaction(j, d, f)
          /\ Owns(j, d, f)' <=> Owns(j, d, f)
    BY <1>5 DEF InTransaction, Touched, Owns
  <2>4. ASSUME Owns(k, d, f)'
        PROVE  /\ tree[d][f] = receipts'[k].files[f]
               /\ \A j \in Packages \ {k} : ~Owns(j, d, f) /\ ~InTransaction(j, d, f)
    <3>1. d = D /\ f \in NewFiles(p) /\ receipts'[k].files[f] = call[p].release.files[f]
      BY <1>6, <2>4
    <3>2. ASSUME NEW j \in Packages \ {k}, InTransaction(j, d, f) PROVE FALSE
      <4>1. Working(j) /\ pending[j].directory = D
        BY <2>1, <3>1, <3>2 DEF PlaceOK, InTransaction
      <4>2. Package(p) = j
        BY <1>4, <4>1, OneWorker DEF FilesInv
      <4> QED BY <1>2, <4>2
    <3> QED BY <1>7, <2>1, <3>1, <3>2
  <2>5. ASSUME NEW j \in Packages, InTransaction(j, d, f)'
        PROVE  /\ j # k /\ InTransaction(j, d, f) /\ pending'[j] = pending[j]
               /\ receipts'[j] = receipts[j] /\ Working(j)'
               /\ Published(pending[j], f)' <=> Published(pending[j], f)
               /\ ~Owns(k, d, f)'
    <3>1. j # k /\ InTransaction(j, d, f) /\ pending'[j] = pending[j] /\ receipts'[j] = receipts[j]
      BY <1>5, <2>2, <2>3, <2>5
    <3>2. Working(j)'
      BY <1>8, <2>1, <3>1 DEF PlaceOK
    <3>3. ~Owns(k, d, f)'
      BY <2>4, <3>1
    <3> QED BY <2>1, <3>1, <3>2, <3>3 DEF Published
  <2>6. \A j \in Packages \ {k} : receipts'[j] = receipts[j]
    BY <1>5
  <2>7. \A j, other \in Packages : Owns(j, d, f)' /\ Owns(other, d, f)' => j = other
    BY <2>1, <2>3, <2>4 DEF PlaceOK
  <2>8. \A j \in Packages :
          Owns(j, d, f)' /\ ~InTransaction(j, d, f)' => tree'[d][f] = receipts'[j].files[f]
    BY <2>1, <2>3, <2>4, <2>6 DEF PlaceOK
  <2>9. ASSUME NEW j \in Packages, InTransaction(j, d, f)'
        PROVE  /\ Working(j)'
               /\ \A other \in Packages \ {j} : ~Owns(other, d, f)'
               /\ pending'[j].backup[f] = IF Owns(j, d, f)' THEN receipts'[j].files[f] ELSE None
               /\ tree'[d][f] = None \/ Published(pending[j], f)'
    BY <2>1, <2>3, <2>5, <2>9 DEF PlaceOK
  <2> QED BY <2>7, <2>8, <2>9 DEF PlaceOK
<1> QED BY <1>5, <1>9 DEF FilesKept, TaskOK, Changing

-----------------------------------------------------------------------------
(* Every step keeps the places and the progress of its process.             *)
LEMMA StepFiles ==
  ASSUME FilesInv, NEW p \in Processes, Step(p)
  PROVE  Keeps(p) /\ FilesKept(p)
<1>1. Keeps(p) /\ Frame(p)
  BY StepKeeps DEF FilesInv, IInv, Keeps
<1> QED BY <1>1, QuietFiles, CrashFiles, RollbackFiles, RecoveringFiles, FinishFiles,
           StartTransactionFiles, RemoveOwnedFiles, AnnounceFiles, PublishFiles, CommitFiles
        DEF Step

(* What it leaves of the others' lists, and of what is not vouched for.     *)
LEMMA ListsStay ==
  ASSUME TypeOK, NEW p \in Processes, Step(p), NEW q \in Processes \ {p}
  PROVE  todo'[q] = todo[q] /\ taken \subseteq taken'
<1>1. todo \in [Processes -> SUBSET Files]
  BY DEF TypeOK, WorkOK
<1>2. CASE End(p) /\ taken' = taken
  BY <1>1, <1>2 DEF End
<1>3. CASE RecoverBusy(p) \/ LoadRefused(p) \/ BeginRefused(p) \/ StartRefused(p)
           \/ StartDenied(p) \/ Spawn(p) \/ Finish(p)
  BY <1>2, <1>3 DEF RecoverBusy, LoadRefused, BeginRefused, StartRefused, StartDenied, Spawn,
                    Finish, Return
<1>4. CASE Invoke(p) \/ Recover(p) \/ Recovering(p) \/ Look(p) \/ Load(p) \/ Preflight(p)
           \/ BeginInstall(p) \/ BeginUninstall(p) \/ Start(p)
  BY <1>2, <1>4 DEF Invoke, Recover, Recovering, Look, Load, Preflight, BeginInstall,
                    BeginUninstall, Start, Return, work
<1>5. CASE StartTransaction(p) \/ RemoveOwned(p) \/ Announce(p) \/ Publish(p) \/ Commit(p)
  BY <1>1, <1>5 DEF StartTransaction, RemoveOwned, Announce, Publish, Commit, Handled, work
<1>6. CASE Rollback(p) \/ Crash(p)
  BY <1>1, <1>6 DEF Rollback, Crash, End
<1> QED BY <1>3, <1>4, <1>5, <1>6 DEF Step

(* A package comes to own a file only under its directory's lock.           *)
LEMMA OwnersOnlyCommit ==
  ASSUME IInv, NEW p \in Processes, Step(p), NEW q \in Processes \ {p},
         NEW d \in Directories, directoryLock[d] = q,
         NEW k \in Packages, NEW f \in Files, Owns(k, d, f)'
  PROVE  Owns(k, d, f)
<1>1. CASE receipts'[k] = receipts[k]
  BY <1>1 DEF Owns
<1>2. CASE receipts'[k] # receipts[k]
  <2>1. Commit(p)
    <3>1. PICK r \in Processes : Commit(r)
      BY <1>2, OnlyCommits DEF Next
    <3>2. pc'[r] # pc[r]
      BY <3>1 DEF Commit, Goto, IInv, TypeOK, WorkOK
    <3>3. r = p
      BY <3>2, StepKeeps DEF IInv, Keeps, Frame
    <3> QED BY <3>1, <3>3
  <2>2. pc[p] = "apply" /\ TypeOK /\ ProcessOK(p)
    BY <2>1 DEF Commit, IInv
  <2>3. /\ receipts' = [receipts EXCEPT ![Package(p)] = Target(p)]
        /\ directoryLock[Directory(p)] = p
    BY <2>1, <2>2, InHand DEF Commit, Changing, ProcessOK, LocksOK
  <2>4. receipts'[k] = Target(p)
    BY <1>2, <2>2, <2>3 DEF TypeOK, DiskOK
  <2>5. call[p].kind = "install" /\ call[p].release.directory = d
    BY <2>4 DEF Owns, Target, ReceiptOf
  <2> QED BY <2>3, <2>5 DEF Directory
<1> QED BY <1>1, <1>2

(* The user takes a file and nothing else.                                  *)
LEMMA UserFiles ==
  ASSUME FilesInv, UserRemoves
  PROVE  PlacesOK' /\ \A q \in Processes : TaskOK(q)'
<1>1. PICK e \in Directories, g \in Files :
        tree' = [tree EXCEPT ![e][g] = None] /\ taken' = taken \cup {<<e, g>>}
  BY DEF UserRemoves
<1>2. /\ UNCHANGED <<receipts, pending, locks, pc, work>>
      /\ tree \in [Directories -> [Files -> Contents \cup {None}]]
  BY DEF UserRemoves, FilesInv, IInv, TypeOK, DiskOK
<1>3. \A d \in Directories, f \in Files : <<d, f>> \notin taken' => tree'[d][f] = tree[d][f]
  BY <1>1, <1>2
<1>4. PlacesOK'
  <2> SUFFICES ASSUME NEW d \in Directories, NEW f \in Files, <<d, f>> \notin taken'
               PROVE  PlaceOK(d, f)'
    BY DEF PlacesOK
  <2>1. PlaceOK(d, f) /\ tree'[d][f] = tree[d][f]
    BY <1>1, <1>3 DEF FilesInv, PlacesOK
  <2>2. \A k \in Packages :
          /\ Owns(k, d, f)' <=> Owns(k, d, f)
          /\ InTransaction(k, d, f)' <=> InTransaction(k, d, f)
          /\ Working(k)' <=> Working(k)
          /\ InTransaction(k, d, f) => (Published(pending[k], f)' <=> Published(pending[k], f))
    BY <1>2, <2>1 DEF work, Owns, InTransaction, Touched, Working, Package, Published
  <2> QED BY <1>2, <2>1, <2>2 DEF PlaceOK
<1>5. ASSUME NEW q \in Processes PROVE TaskOK(q)'
  <2>1. Steady(q)
    BY UserKeeps DEF FilesInv, IInv
  <2>2. TaskOK(q) /\ todo'[q] = todo[q] /\ taken \subseteq taken'
    BY <1>1, <1>2 DEF FilesInv, work
  <2>3. \A d \in Directories, f \in Files, k \in Packages : Owns(k, d, f)' => Owns(k, d, f)
    BY <1>2 DEF Owns
  <2> QED BY <1>3, <2>1, <2>2, <2>3, TaskStays DEF FilesInv
<1> QED BY <1>4, <1>5

-----------------------------------------------------------------------------
(* At first every installed package has its files, and no two share one.    *)
LEMMA InitialFiles == Init => FilesInv
<1> SUFFICES ASSUME Init PROVE FilesInv
  OBVIOUS
<1>1. IInv
  BY Initial
<1>2. \A p \in Processes : TaskOK(p)
  BY DEF Init, TaskOK, Changing
<1>3. ASSUME NEW d \in Directories, NEW f \in Files PROVE PlaceOK(d, f)
  <2>1. \A k \in Packages : ~InTransaction(k, d, f)
    BY DEF Init, InTransaction
  <2>2. ASSUME NEW k \in Packages, NEW other \in Packages, Owns(k, d, f), Owns(other, d, f)
        PROVE  k = other
    BY <2>2, EngineAssumption DEF Init, Owns
  <2>3. ASSUME NEW k \in Packages, Owns(k, d, f)
        PROVE  tree[d][f] = receipts[k].files[f]
    <3> DEFINE owners == {j \in Packages : /\ receipts[j] # None /\ receipts[j].directory = d
                                           /\ f \in DOMAIN receipts[j].files}
    <3>1. tree[d][f] = IF owners = {} THEN None ELSE receipts[CHOOSE j \in owners : TRUE].files[f]
      BY DEF Init, InitialTree
    <3>2. k \in owners /\ \A j \in owners : j = k
      BY <2>2, <2>3 DEF Owns
    <3>3. (CHOOSE j \in owners : TRUE) = k
      BY <3>2
    <3> QED BY <3>1, <3>2, <3>3
  <2> QED BY <2>1, <2>2, <2>3 DEF PlaceOK
<1> QED BY <1>1, <1>2, <1>3 DEF FilesInv, PlacesOK

(* FilesInv is inductive.                                                   *)
LEMMA InductiveFiles == FilesInv /\ [Next]_vars => FilesInv'
<1> SUFFICES ASSUME FilesInv, [Next]_vars PROVE FilesInv'
  OBVIOUS
<1>1. IInv /\ IInv'
  BY Inductive DEF FilesInv
<1>2. ASSUME NEW p \in Processes, Step(p) PROVE FilesInv'
  <2>1. Keeps(p) /\ FilesKept(p)
    BY <1>2, StepFiles
  <2>2. ASSUME NEW q \in Processes \ {p} PROVE TaskOK(q)'
    <3>1. Steady(q) /\ TaskOK(q)
      BY <2>1, FrameIsSteady DEF Keeps, FilesInv
    <3>2. todo'[q] = todo[q] /\ taken \subseteq taken'
      BY <1>1, <1>2, ListsStay DEF IInv
    <3>3. \A d \in Directories : directoryLock[d] = q => tree'[d] = tree[d]
      BY <2>1 DEF Keeps, Frame
    <3>4. \A d \in Directories, f \in Files, k \in Packages :
            directoryLock[d] = q /\ Owns(k, d, f)' => Owns(k, d, f)
      BY <1>1, <1>2, OwnersOnlyCommit
    <3> QED BY <1>1, <3>1, <3>2, <3>3, <3>4, TaskStays
  <2> QED BY <1>1, <2>1, <2>2 DEF FilesInv, FilesKept
<1>3. CASE UserRemoves
  BY <1>1, <1>3, UserFiles DEF FilesInv
<1>4. CASE UNCHANGED vars
  <2>1. UNCHANGED <<tree, receipts, pending, pc, call, seen, todo, cur, taken>>
    BY <1>4 DEF vars, disk, work
  <2>2. PlacesOK'
    BY <2>1 DEF FilesInv, PlacesOK, PlaceOK, Owns, InTransaction, Touched, Working, Package, Published
  <2>3. \A q \in Processes : TaskOK(q)'
    BY <2>1 DEF FilesInv, TaskOK, Owns, Touched, Package, Directory, NewFiles, Found
  <2> QED BY <1>1, <2>2, <2>3 DEF FilesInv
<1> QED BY <1>2, <1>3, <1>4 DEF Next

(* Whatever calls run at the same time, and whichever of them die, an       *)
(* installed package has the files of its receipt and shares none of them,  *)
(* but for what the user removed and what a dead transaction touched.       *)
THEOREM OwnersSafe == Spec => []OwnersKeepTheirFiles
<1>1. FilesInv => OwnersKeepTheirFiles
  <2> SUFFICES ASSUME FilesInv, NEW k \in Packages, receipts[k] # None, pending[k] = None,
                      NEW f \in DOMAIN receipts[k].files, <<receipts[k].directory, f>> \notin taken
               PROVE  /\ tree[receipts[k].directory][f] = receipts[k].files[f]
                      /\ \A other \in Packages \ {k} :
                           receipts[other] # None
                             /\ receipts[other].directory = receipts[k].directory
                             => f \notin DOMAIN receipts[other].files
    BY DEF OwnersKeepTheirFiles
  <2>1. receipts[k].directory \in Directories /\ f \in Files
    BY OwnedFiles DEF FilesInv, IInv, TypeOK, DiskOK
  <2>2. PICK d \in Directories : d = receipts[k].directory
    BY <2>1
  <2>3. PlaceOK(d, f)
    BY <2>1, <2>2 DEF FilesInv, PlacesOK
  <2>4. Owns(k, d, f) /\ ~InTransaction(k, d, f)
    BY <2>2 DEF Owns, InTransaction
  <2> QED BY <2>2, <2>3, <2>4 DEF PlaceOK, Owns
<1> QED BY <1>1, InitialFiles, InductiveFiles, PTL DEF Spec

-----------------------------------------------------------------------------
(* What was published.  Texts signed for different purposes differ.         *)
LEMMA TextsDiffer ==
  ASSUME NEW key, NEW m, NEW package, NEW version, NEW from, NEW to
  PROVE  <<key, m>> # RotationTranscript(package, version, from, to)
BY DEF RotationTranscript

(* A signature over a manifest was made by who published this manifest, and *)
(* one over a succession by who agreed to it.                               *)
LEMMA ManifestSigned ==
  ASSUME NEW key \in Keys, NEW m, Made(Signature(key, <<key, m>>))
  PROVE  \E p \in Publications : p[2] = key /\ p[1] = m
<1>1. <<key, m>> \in SignedBy(key)
  BY DEF Made, Signature
<1>2. PICK p \in {q \in Publications : q[2] = key} : <<key, p[1]>> = <<key, m>>
  BY <1>1, TextsDiffer DEF SignedBy
<1> QED BY <1>2

LEMMA SuccessionAgreed ==
  ASSUME NEW package, NEW version, NEW from, NEW to \in Keys,
         Made(Signature(to, RotationTranscript(package, version, from, to)))
  PROVE  <<package, version, from, to>> \in Agreements
<1> DEFINE text == RotationTranscript(package, version, from, to)
<1>1. text \in SignedBy(to)
  BY DEF Made, Signature
<1>2. \A p \in Publications : <<to, p[1]>> # text
  BY TextsDiffer
<1>3. PICK a \in Agreements : RotationTranscript(a[1], a[2], a[3], a[4]) = text
  BY <1>1, <1>2 DEF SignedBy
<1>4. a \in Packages \X Nat \X Keys \X Keys
  BY PublicationAssumption
<1>5. a = <<a[1], a[2], a[3], a[4]>>
  BY <1>4
<1>6. <<a[1], a[2], a[3], a[4]>> = <<package, version, from, to>>
  BY <1>3 DEF RotationTranscript
<1> QED BY <1>5, <1>6

(* An archive that opens has the objects of its manifest.                   *)
LEMMA BodiesAsNamed ==
  ASSUME NEW archive, NEW trusted, Opens(archive, trusted),
         NEW object \in Objects(ManifestOf(archive))
  PROVE  Body(archive, object) = object
<1> DEFINE rest == Rest(archive)
           i    == CHOOSE j \in DOMAIN rest : rest[j].path = object
<1>1. \A j \in DOMAIN rest : rest[j].body = rest[j].path
  BY DEF Opens, ObjectsVerified, ObjectVerified
<1>2. \E j \in DOMAIN rest : rest[j].path = object
  BY DEF Opens, NoneMissing
<1>3. i \in DOMAIN rest /\ rest[i].path = object
  BY <1>2
<1>4. Body(archive, object) = rest[i].body
  BY DEF Body
<1> QED BY <1>1, <1>3, <1>4

(* What a caller can get installed, if it is signed, was published.         *)
LEMMA OffersPublished ==
  ASSUME NEW o \in Offers
  PROVE  Genuine(o[1], ReceiptOf(o[2]))
<1>1. PICK archive \in Openable : o = <<ManifestOf(archive).package, Opened(archive)>>
  BY DEF Offers
<1>2. archive \in Archives /\ \E trusted \in TrustedKey : Opens(archive, trusted)
  BY DEF Openable
<1>3. PICK trusted \in TrustedKey : Opens(archive, trusted)
  BY <1>2
<1> DEFINE m == ManifestOf(archive)
           release == Opened(archive)
           receipt == ReceiptOf(release)
<1>4. release \in Release
  BY <1>1, EngineAssumption
<1>5. /\ receipt.signer = release.signer /\ receipt.version = m.version
      /\ receipt.files = [f \in DOMAIN m.files |-> Body(archive, m.files[f])]
      /\ receipt.entrypoint = m.entrypoint
      /\ receipt.publisher = PackageIdentity(release)
      /\ release.signer = IF Signed(m) THEN archive.entries[2].body.keyId ELSE Unsigned
      /\ release.rotation = IF m.rotation = None THEN None ELSE m.rotation.to
  BY DEF ReceiptOf, Opened
<1> SUFFICES ASSUME receipt.signer \in Keys PROVE Genuine(m.package, receipt)
  BY <1>1 DEF Genuine
<1>6. Signed(m)
  BY <1>5, AssessmentAssumption
<1>7. /\ archive.entries[1].path = ManifestEntry /\ Len(archive.entries) > 1
      /\ archive.entries[2].path = SignatureEntry /\ trusted \in Keys
      /\ archive.entries[2].body.keyId = trusted
      /\ archive.entries[2].body.signature = Signature(trusted, <<trusted, m>>)
      /\ RotationValid(m, trusted)
  BY <1>3, <1>6
  DEF Opens, ManifestRead, Trust, SignatureVerified, ManifestSignatureValid, TrustedKey
<1>8. 1 \in DOMAIN archive.entries /\ 2 \in DOMAIN archive.entries
  BY <1>2, <1>7, SignaturesAreMade
<1>9. m \in BodiesAt(ManifestEntry) /\ archive.entries[2].body \in BodiesAt(SignatureEntry)
  BY <1>2, <1>7, <1>8 DEF BodiesAt, ManifestOf
<1>10. receipt.signer = trusted
  BY <1>5, <1>6, <1>7
<1>11. PICK p \in Publications : p[2] = trusted /\ p[1] = m
  <2>1. Made(Signature(trusted, <<trusted, m>>))
    BY <1>7, <1>9, SignaturesAreMade
  <2> QED BY <1>7, <2>1, ManifestSigned
<1>12. receipt.files = m.files
  <2>1. m.files \in FileSets
    BY <1>11, PublicationAssumption
  <2>2. m.files = [f \in DOMAIN m.files |-> m.files[f]]
    BY <2>1 DEF FileSets
  <2>3. \A f \in DOMAIN m.files : Body(archive, m.files[f]) = m.files[f]
    BY <1>3, BodiesAsNamed DEF Objects
  <2> QED BY <1>5, <2>2, <2>3
<1>13. ASSUME receipt.publisher # receipt.signer
       PROVE  <<m.package, m.version, trusted, receipt.publisher>> \in Agreements
  <2>1. m.rotation # None /\ receipt.publisher = m.rotation.to /\ m.rotation.to # None
    BY <1>5, <1>13 DEF PackageIdentity
  <2>2. m.rotation.to \in Keys
    BY <1>4, <1>5, <2>1 DEF Release
  <2>3. m.rotation.proof =
          Signature(m.rotation.to, RotationTranscript(m.package, m.version, trusted, m.rotation.to))
    BY <1>7, <2>1 DEF RotationValid
  <2>4. Made(m.rotation.proof)
    BY <1>9, <2>1, SignaturesAreMade
  <2> QED BY <2>1, <2>2, <2>3, <2>4, SuccessionAgreed
<1> QED BY <1>5, <1>10, <1>11, <1>12, <1>13 DEF Genuine

-----------------------------------------------------------------------------
(* A call that installs has one of the offers in hand.                      *)
Offered(p) ==
  pc[p] # "idle" /\ call[p].kind = "install" => <<call[p].package, call[p].release>> \in Offers

PublishedInv == IInv /\ OnlyPublished /\ \A p \in Processes : Offered(p)

(* A call begins with an offer, keeps it, and ends.                         *)
LEMMA CallGoesOn ==
  ASSUME NEW p \in Processes, TypeOK, Step(p)
  PROVE  Invoke(p) \/ pc'[p] = "idle" \/ (pc[p] # "idle" /\ call'[p] = call[p])
<1>1. CASE End(p)
  BY <1>1 DEF End, Goto, TypeOK, WorkOK
<1>2. CASE pc[p] # "idle" /\ UNCHANGED call
  BY <1>2
<1>3. CASE Return(p)
  BY <1>1, <1>3 DEF Return
<1>4. CASE Recover(p) \/ Recovering(p) \/ Look(p) \/ Load(p) \/ Preflight(p)
  BY <1>1, <1>2, <1>3, <1>4 DEF Recover, Recovering, Look, Load, Preflight, work
<1>5. CASE BeginInstall(p) \/ BeginUninstall(p) \/ StartTransaction(p) \/ RemoveOwned(p)
           \/ Announce(p) \/ Publish(p) \/ Commit(p) \/ Start(p)
  BY <1>2, <1>5
  DEF BeginInstall, BeginUninstall, StartTransaction, RemoveOwned, Announce, Publish, Commit,
      Start, work
<1>6. CASE Finish(p) \/ Rollback(p) \/ Crash(p)
  BY <1>1, <1>6 DEF Finish, Rollback, Crash
<1>7. CASE RecoverBusy(p) \/ LoadRefused(p) \/ BeginRefused(p) \/ StartRefused(p)
           \/ StartDenied(p) \/ Spawn(p)
  BY <1>3, <1>7 DEF RecoverBusy, LoadRefused, BeginRefused, StartRefused, StartDenied, Spawn
<1> QED BY <1>4, <1>5, <1>6, <1>7 DEF Step

LEMMA OfferedStays ==
  ASSUME IInv, NEW p \in Processes, Step(p), NEW q \in Processes, Offered(q)
  PROVE  Offered(q)'
<1>1. CASE q # p
  <2>1. Steady(q)
    BY <1>1, StepKeeps, FrameIsSteady DEF IInv, Keeps
  <2> QED BY <2>1 DEF Steady, Offered
<1>2. CASE pc'[q] = "idle" \/ (pc[q] # "idle" /\ call'[q] = call[q])
  BY <1>2 DEF Offered
<1>3. CASE q = p /\ Invoke(p)
  <2>1. CASE \E o \in Offers, a \in Approvals :
               call' = [call EXCEPT ![p] = [kind |-> "install", package |-> o[1],
                                            release |-> o[2], approvals |-> a]]
    <3>1. PICK o \in Offers, a \in Approvals :
            call' = [call EXCEPT ![p] = [kind |-> "install", package |-> o[1],
                                         release |-> o[2], approvals |-> a]]
      BY <2>1
    <3>2. call'[p].package = o[1] /\ call'[p].release = o[2]
      BY <3>1 DEF IInv, TypeOK, WorkOK
    <3>3. o = <<o[1], o[2]>>
      BY EngineAssumption
    <3> QED BY <1>3, <3>2, <3>3 DEF Offered
  <2>2. CASE \E kind \in {"uninstall", "launch"}, k \in Packages :
               call' = [call EXCEPT ![p] = [kind |-> kind, package |-> k]]
    <3>1. PICK kind \in {"uninstall", "launch"}, k \in Packages :
            call' = [call EXCEPT ![p] = [kind |-> kind, package |-> k]]
      BY <2>2
    <3>2. call'[p].kind # "install"
      BY <3>1 DEF IInv, TypeOK, WorkOK
    <3> QED BY <1>3, <3>2 DEF Offered
  <2> QED BY <1>3, <2>1, <2>2 DEF Invoke
<1> QED BY <1>1, <1>2, <1>3, CallGoesOn DEF IInv

(* The receipt a commit leaves is that of the offer its call has in hand.   *)
LEMMA CommitsPublished ==
  ASSUME IInv, NEW p \in Processes, Offered(p), Commit(p), NEW k \in Packages,
         receipts[k] # None => Genuine(k, receipts[k]), receipts'[k] # None
  PROVE  Genuine(k, receipts'[k])
<1>1. pc[p] = "apply" /\ TypeOK /\ ProcessOK(p)
  BY DEF Commit, IInv
<1>2. /\ Package(p) \in Packages
      /\ receipts' = [receipts EXCEPT ![Package(p)] = Target(p)]
  BY <1>1, InHand DEF Commit, Changing
<1>3. receipts'[k] = IF k = Package(p) THEN Target(p) ELSE receipts[k]
  BY <1>1, <1>2 DEF TypeOK, DiskOK
<1>4. CASE k = Package(p)
  <2>1. receipts'[k] = Target(p) /\ call[p] \in Call
    BY <1>1, <1>3, <1>4 DEF ProcessOK, CallOK
  <2>2. call[p].kind = "install" /\ receipts'[k] = ReceiptOf(call[p].release)
    BY <2>1 DEF Target
  <2>3. <<k, call[p].release>> \in Offers
    BY <1>1, <1>4, <2>2 DEF Offered, Package
  <2> QED BY <2>2, <2>3, OffersPublished
<1> QED BY <1>3, <1>4

(* An installed package that names a publisher is one it published.         *)
THEOREM PublishedOnly == Spec => []OnlyPublished
<1>1. Init => PublishedInv
  <2> SUFFICES ASSUME Init PROVE OnlyPublished /\ \A p \in Processes : Offered(p)
    BY Initial DEF PublishedInv
  <2>1. receipts \in Installed /\ \A p \in Processes : pc[p] = "idle"
    BY DEF Init
  <2> QED BY <2>1, InstalledWasPublished DEF OnlyPublished, Offered
<1>2. PublishedInv /\ [Next]_vars => PublishedInv'
  <2> SUFFICES ASSUME PublishedInv, [Next]_vars
               PROVE  OnlyPublished' /\ \A p \in Processes : Offered(p)'
    BY Inductive DEF PublishedInv
  <2>1. CASE UNCHANGED <<receipts, pc, call>>
    BY <2>1 DEF PublishedInv, OnlyPublished, Genuine, Offered
  <2>2. ASSUME NEW p \in Processes, Step(p)
        PROVE  OnlyPublished' /\ \A q \in Processes : Offered(q)'
    <3>1. \A q \in Processes : Offered(q)'
      BY <2>2, OfferedStays DEF PublishedInv
    <3>2. CASE UNCHANGED receipts
      BY <3>1, <3>2 DEF PublishedInv, OnlyPublished, Genuine
    <3>3. CASE receipts' # receipts
      <4>1. PICK c \in Processes : Commit(c)
        BY <2>2, <3>3, OnlyCommits DEF Next
      <4>2. ASSUME NEW k \in Packages, receipts'[k] # None PROVE Genuine(k, receipts'[k])
        BY <4>1, <4>2, CommitsPublished DEF PublishedInv, OnlyPublished
      <4>3. OnlyPublished'
        BY <4>2 DEF OnlyPublished, Genuine
      <4> QED BY <3>1, <4>3
    <3> QED BY <3>2, <3>3
  <2>3. CASE UserRemoves
    BY <2>1, <2>3 DEF UserRemoves, work
  <2>4. CASE UNCHANGED vars
    BY <2>1, <2>4 DEF vars, disk, work
  <2> QED BY <2>2, <2>3, <2>4 DEF Next
<1>3. PublishedInv => OnlyPublished
  BY DEF PublishedInv
<1> QED BY <1>1, <1>2, <1>3, PTL DEF Spec
=============================================================================
