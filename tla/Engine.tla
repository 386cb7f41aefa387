------------------------------- MODULE Engine -------------------------------
(***************************************************************************)
(* Calls of several processes on several packages of one install base:     *)
(* luxury-engine's install, uninstall and launch over the local adapters.  *)
(* A call judges the receipt it read without a lock, takes the package's   *)
(* and then the directory's lock, checks again, and changes the directory  *)
(* file by file; a process may die at any point, which frees its locks and *)
(* leaves its transaction pending.  How one transaction survives that is   *)
(* module Transaction's subject: here a commit, a rollback and a recovery  *)
(* are one step each.                                                      *)
(***************************************************************************)
EXTENDS PackageFormat

CONSTANTS
  Processes,
  Packages,
  Archives,   \* what may be in the package file a caller names
  Approvals,  \* the sets of approvals a caller may give
  Installed,  \* what may be installed at first: functions from Packages
  UserActs,   \* whether the user removes files
  MaxFaults   \* bound: processes that die in a transaction, files removed

(* The packages a caller can get the engine to install: those whose file    *)
(* opens for it.                                                            *)
Openable == {a \in Archives : \E trusted \in TrustedKey : Opens(a, trusted)}
Offers   == {<<ManifestOf(a).package, Opened(a)>> : a \in Openable}

VARIABLES
  tree,      \* content of each file of each install directory
  receipts,  \* the live receipt of each package
  pending,   \* the transaction each package has on disk
  packageLock, directoryLock,  \* who holds each lock
  pc, call,  \* what each process does next, and for which call
  seen,      \* the receipt the call judged
  todo, cur, \* files the transaction has still to handle, and the one in hand
  taken,     \* history: files the user removed or a dead transaction touched
  faults

disk  == <<tree, receipts, pending>>
locks == <<packageLock, directoryLock>>
work  == <<call, seen, todo, cur>>
vars  == <<disk, locks, pc, work, taken, faults>>

Call ==
       [kind : {"install"}, package : Packages, release : Release, approvals : SUBSET Approval]
  \cup [kind : {"uninstall", "launch"}, package : Packages]

(* A transaction on disk: the receipt it commits to (None to uninstall),    *)
(* the files it has journaled to publish, and those it moved aside.         *)
Pending ==
  [directory : Directories, receipt : Receipt \cup {None}, committed : BOOLEAN,
   named : SUBSET Files, backup : [Files -> Contents \cup {None}]]

ASSUME EngineAssumption ==
  /\ Offers \subseteq Packages \X Release
  /\ Approvals \subseteq SUBSET Approval
  /\ Installed \subseteq [Packages -> Receipt \cup {None}]
  /\ \A r \in Installed, k, other \in Packages :
       k # other /\ r[k] # None /\ r[other] # None /\ r[k].directory = r[other].directory
         => DOMAIN r[k].files \cap DOMAIN r[other].files = {}
  /\ None \notin Processes \cup Pending
  /\ UserActs \in BOOLEAN /\ MaxFaults \in Nat

-----------------------------------------------------------------------------
Package(p)   == call[p].package
Directory(p) == IF call[p].kind = "install" THEN call[p].release.directory
                                            ELSE seen[p].directory
NewFiles(p)  == IF call[p].kind = "install" THEN DOMAIN call[p].release.files ELSE {}
OldFiles(p)  == IF seen[p] = None THEN {} ELSE DOMAIN seen[p].files
Obsolete(p)  == OldFiles(p) \ NewFiles(p)
Found(p, f)  == tree[Directory(p)][f]

StillThere(p) == (receipts[Package(p)] = None) = (seen[p] = None)

(* The receipt the call judged is still the live one.                       *)
Unchanged(p) == receipts[Package(p)] = seen[p]

(* check_destination_files: a file new to the package is not there yet.     *)
DestinationFree(p) == \A f \in NewFiles(p) \ OldFiles(p) : Found(p, f) = None

(* Both locks are only tried: a call that finds one taken ends as busy.     *)
Free(p, d)  == packageLock[Package(p)] = None /\ directoryLock[d] = None
Lock(p, d) ==
  /\ packageLock'   = [packageLock EXCEPT ![Package(p)] = p]
  /\ directoryLock' = [directoryLock EXCEPT ![d] = p]

(* Locks end with the handles of the call, or with its process.             *)
Unlock(p) ==
  /\ packageLock'   = [k \in Packages |->
                         IF packageLock[k] = p THEN None ELSE packageLock[k]]
  /\ directoryLock' = [d \in Directories |->
                         IF directoryLock[d] = p THEN None ELSE directoryLock[d]]

Goto(p, label) == pc' = [pc EXCEPT ![p] = label]

(* The call ends, whatever its outcome.                                     *)
End(p) ==
  /\ Goto(p, "idle")
  /\ Unlock(p)
  /\ call' = [call EXCEPT ![p] = None]
  /\ seen' = [seen EXCEPT ![p] = None]
  /\ todo' = [todo EXCEPT ![p] = {}]
  /\ cur'  = [cur EXCEPT ![p] = None]

Return(p) == End(p) /\ UNCHANGED <<disk, taken, faults>>

-----------------------------------------------------------------------------
(* Undoing a transaction, by its own call or by a recovery: a published     *)
(* file is known by its digest alone, a backup goes where nothing is, and   *)
(* anything else at a place of the journal is a conflict nothing resolves.  *)

Touched(tx) == tx.named \cup {f \in Files : tx.backup[f] # None}

Published(tx, f) == f \in tx.named /\ tree[tx.directory][f] = tx.receipt.files[f]

Undone(tx, f) ==
  IF Published(tx, f) \/ tree[tx.directory][f] = None
  THEN tx.backup[f]
  ELSE tree[tx.directory][f]

Conflicting(tx) ==
  {f \in Touched(tx) : /\ tree[tx.directory][f] \notin {None, tx.backup[f]}
                       /\ ~Published(tx, f)}

(* Everything, then the transaction is gone; or, when something conflicts,  *)
(* what came before it (nothing for an upgrade, which looks before it       *)
(* acts), and the transaction stays.                                        *)
Undo(k) ==
  LET tx == pending[k]
      upgrade == tx.receipt # None /\ receipts[k] # None
      Restore(part) ==
        tree' = [tree EXCEPT ![tx.directory] =
                   [f \in Files |-> IF f \in part THEN Undone(tx, f) ELSE @[f]]]
  IN  /\ \/ /\ Conflicting(tx) = {}
            /\ Restore(Touched(tx))
            /\ pending' = [pending EXCEPT ![k] = None]
         \/ /\ Conflicting(tx) # {}
            /\ \E part \in SUBSET (Touched(tx) \ Conflicting(tx)) :
                 /\ upgrade => part = {}
                 /\ Restore(part)
                 /\ pending' = [pending EXCEPT ![k].backup =
                      [f \in Files |-> IF f \in part THEN None ELSE @[f]]]
      /\ UNCHANGED receipts

(* The places a transaction leaves behind that no process works on.         *)
Abandoned(k) ==
  IF pending[k] = None \/ pending[k].committed
  THEN {}
  ELSE {pending[k].directory} \X Touched(pending[k])

-----------------------------------------------------------------------------
(* Before the locks.                                                        *)

Invoke(p) ==
  /\ pc[p] = "idle"
  /\ \/ \E o \in Offers, a \in Approvals :
          call' = [call EXCEPT ![p] = [kind |-> "install", package |-> o[1],
                                       release |-> o[2], approvals |-> a]]
     \/ \E kind \in {"uninstall", "launch"}, k \in Packages :
          call' = [call EXCEPT ![p] = [kind |-> kind, package |-> k]]
  /\ Goto(p, IF call'[p].kind = "launch" THEN "look" ELSE "recover")
  /\ UNCHANGED <<disk, locks, seen, todo, cur, taken, faults>>

(* recover_pending looks without a lock, and takes both to recover.         *)
Recover(p) ==
  /\ pc[p] = "recover"
  /\ \/ /\ pending[Package(p)] = None
        /\ Goto(p, "load")
        /\ UNCHANGED locks
     \/ /\ pending[Package(p)] # None
        /\ Free(p, pending[Package(p)].directory)
        /\ Lock(p, pending[Package(p)].directory)
        /\ Goto(p, "recovering")
  /\ UNCHANGED <<disk, work, taken, faults>>

RecoverBusy(p) ==
  /\ pc[p] = "recover"
  /\ pending[Package(p)] # None
  /\ ~Free(p, pending[Package(p)].directory)
  /\ Return(p)

(* A transaction past its commit point is cleaned up, another undone.       *)
Recovering(p) ==
  /\ pc[p] = "recovering"
  /\ IF pending[Package(p)].committed
     THEN pending' = [pending EXCEPT ![Package(p)] = None] /\ UNCHANGED <<tree, receipts>>
     ELSE Undo(Package(p))
  /\ IF pending'[Package(p)] = None
     THEN Goto(p, "load") /\ Unlock(p) /\ UNCHANGED work
     ELSE End(p)
  /\ UNCHANGED <<taken, faults>>

Look(p) ==
  /\ pc[p] = "look"
  /\ IF pending[Package(p)] # None
     THEN Return(p)
     ELSE Goto(p, "load") /\ UNCHANGED <<disk, locks, work, taken, faults>>

(* load_receipt, and what the engine makes of it.                           *)
Judged(p) ==
  LET receipt == receipts[Package(p)]
  IN  IF call[p].kind = "install"
      THEN Accepts(call[p].release, receipt, call[p].approvals)
      ELSE receipt # None

Load(p) ==
  /\ pc[p] = "load"
  /\ Judged(p)
  /\ seen' = [seen EXCEPT ![p] = receipts[Package(p)]]
  /\ Goto(p, CASE call[p].kind = "install"   -> "preflight"
               [] call[p].kind = "uninstall" -> "begin"
               [] call[p].kind = "launch"    -> "start")
  /\ UNCHANGED <<disk, locks, call, todo, cur, taken, faults>>

LoadRefused(p) ==
  /\ pc[p] = "load"
  /\ ~Judged(p)
  /\ Return(p)

(* check_install_plan, first without a lock.                                *)
PlanStands(p) == pending[Package(p)] = None /\ Unchanged(p) /\ DestinationFree(p)

Preflight(p) ==
  /\ pc[p] = "preflight"
  /\ IF PlanStands(p)
     THEN Goto(p, "begin") /\ UNCHANGED <<disk, locks, work, taken, faults>>
     ELSE Return(p)

-----------------------------------------------------------------------------
(* Under the locks.                                                         *)

LockPackage(p) ==
  /\ packageLock[Package(p)] = None
  /\ packageLock' = [packageLock EXCEPT ![Package(p)] = p]

BeginInstall(p) ==
  /\ pc[p] = "begin"
  /\ call[p].kind = "install"
  /\ LockPackage(p)
  /\ PlanStands(p)
  /\ Goto(p, "directory")
  /\ UNCHANGED <<disk, directoryLock, work, taken, faults>>

BeginUninstall(p) ==
  /\ pc[p] = "begin"
  /\ call[p].kind = "uninstall"
  /\ LockPackage(p)
  /\ Unchanged(p)
  /\ Goto(p, "directory")
  /\ UNCHANGED <<disk, directoryLock, work, taken, faults>>

BeginRefused(p) ==
  /\ pc[p] = "begin"
  /\ \/ packageLock[Package(p)] # None
     \/ call[p].kind = "install" /\ ~PlanStands(p)
     \/ ~Unchanged(p)
  /\ Return(p)

(* The directory's lock, the journal, and the destination once more: what   *)
(* appeared in between has the new transaction rolled back at once.         *)
MayStartUnlocked(p) == pending[Package(p)] = None /\ DestinationFree(p)

MayStart(p) ==
  /\ directoryLock[Directory(p)] = None
  /\ pending[Package(p)] = None
  /\ DestinationFree(p)

StartTransaction(p) ==
  /\ pc[p] = "directory"
  /\ MayStart(p)
  /\ directoryLock' = [directoryLock EXCEPT ![Directory(p)] = p]
  /\ pending' = [pending EXCEPT ![Package(p)] =
       [directory |-> Directory(p),
        receipt   |-> IF call[p].kind = "install" THEN ReceiptOf(call[p].release) ELSE None,
        committed |-> FALSE,
        named     |-> {},
        backup    |-> [f \in Files |-> None]]]
  /\ todo' = [todo EXCEPT ![p] = OldFiles(p) \cup NewFiles(p)]
  /\ Goto(p, "apply")
  /\ UNCHANGED <<tree, receipts, packageLock, call, seen, cur, taken, faults>>

StartRefused(p) ==
  /\ pc[p] = "directory"
  /\ ~MayStart(p)
  /\ Return(p)

Handled(p, f) == todo' = [todo EXCEPT ![p] = @ \ {f}]

SetAside(p, f) ==
  /\ tree' = [tree EXCEPT ![Directory(p)][f] = None]
  /\ pending' = [pending EXCEPT ![Package(p)].backup[f] = Found(p, f)]

(* A file that is missing or modified is left alone.                        *)
RemoveIfUnchanged(p, f) ==
  IF Found(p, f) = seen[p].files[f] THEN SetAside(p, f) ELSE UNCHANGED <<tree, pending>>

RemoveOwned(p) ==
  /\ pc[p] = "apply"
  /\ \E f \in Obsolete(p) \cap todo[p] : RemoveIfUnchanged(p, f) /\ Handled(p, f)
  /\ UNCHANGED <<receipts, locks, pc, call, seen, cur, taken, faults>>

(* apply_file, up to the record that announces the publication: the file    *)
(* of the previous receipt is moved aside unless it has the new content     *)
(* already, and nothing may be where a new file goes.                       *)
Announce(p) ==
  /\ pc[p] = "apply"
  /\ Obsolete(p) \cap todo[p] = {}
  /\ \E f \in NewFiles(p) \cap todo[p] :
       IF f \in OldFiles(p) /\ Found(p, f) = call[p].release.files[f]
       THEN /\ Handled(p, f)
            /\ UNCHANGED <<tree, pending, pc, cur>>
       ELSE /\ Found(p, f) = None \/ f \in OldFiles(p)
            /\ tree' = [tree EXCEPT ![Directory(p)][f] = None]
            /\ pending' = [pending EXCEPT ![Package(p)].backup[f] = Found(p, f),
                                          ![Package(p)].named = @ \cup {f}]
            /\ cur' = [cur EXCEPT ![p] = f]
            /\ Goto(p, "publish")
            /\ UNCHANGED todo
  /\ UNCHANGED <<receipts, locks, call, seen, taken, faults>>

(* A rename that replaces nothing.                                          *)
Publish(p) ==
  /\ pc[p] = "publish"
  /\ Found(p, cur[p]) = None
  /\ tree' = [tree EXCEPT ![Directory(p)][cur[p]] = call[p].release.files[cur[p]]]
  /\ Handled(p, cur[p])
  /\ cur' = [cur EXCEPT ![p] = None]
  /\ Goto(p, "apply")
  /\ UNCHANGED <<receipts, pending, locks, call, seen, taken, faults>>

Commit(p) ==
  /\ pc[p] = "apply"
  /\ todo[p] = {}
  /\ receipts' = [receipts EXCEPT ![Package(p)] = pending[Package(p)].receipt]
  /\ pending' = [pending EXCEPT ![Package(p)].committed = TRUE]
  /\ Goto(p, "finish")
  /\ UNCHANGED <<tree, locks, work, taken, faults>>

(* The cleanup of a committed transaction may fail without being reported.  *)
Finish(p) ==
  /\ pc[p] = "finish"
  /\ pending' \in {pending, [pending EXCEPT ![Package(p)] = None]}
  /\ End(p)
  /\ UNCHANGED <<tree, receipts, taken, faults>>

(* A step fails, or the caller cancels: the call undoes what it did.        *)
Rollback(p) ==
  /\ pc[p] \in {"apply", "publish"}
  /\ Undo(Package(p))
  /\ End(p)
  /\ taken' = IF pending'[Package(p)] = None THEN taken ELSE taken \cup Abandoned(Package(p))
  /\ UNCHANGED faults

(* launch_owned_entrypoint: everything once more under both locks, which    *)
(* the call holds until the program runs.                                   *)
Entrypoint(p) == seen[p].entrypoint

(* verify_entrypoint                                                        *)
EntrypointIntact(p) ==
  tree[seen[p].directory][Entrypoint(p)] = seen[p].files[Entrypoint(p)]

LaunchAllowedOnce(p) ==
  /\ Entrypoint(p) # None
  /\ Free(p, seen[p].directory)
  /\ Unchanged(p)
  /\ EntrypointIntact(p)

LaunchAllowed(p) ==
  /\ Entrypoint(p) # None
  /\ Free(p, seen[p].directory)
  /\ pending[Package(p)] = None
  /\ Unchanged(p)
  /\ EntrypointIntact(p)

Start(p) ==
  /\ pc[p] = "start"
  /\ LaunchAllowed(p)
  /\ Lock(p, seen[p].directory)
  /\ Goto(p, "spawn")
  /\ UNCHANGED <<disk, work, taken, faults>>

StartDenied(p) ==
  /\ pc[p] = "start"
  /\ ~LaunchAllowed(p)
  /\ Return(p)

Spawn(p) ==
  /\ pc[p] = "spawn"
  /\ Return(p)

(* The process dies: its locks are free, its transaction stays.  A call     *)
(* that is cancelled before it holds a lock, and a rollback or a recovery   *)
(* that fails for a reason of its own, end the same way.                    *)
Crash(p) ==
  /\ pc[p] # "idle"
  /\ End(p)
  /\ IF packageLock[Package(p)] = p /\ pending[Package(p)] # None
     THEN /\ faults < MaxFaults
          /\ faults' = faults + 1
          /\ taken' = taken \cup Abandoned(Package(p))
     ELSE UNCHANGED <<faults, taken>>
  /\ UNCHANGED disk

(* The user deletes an installed file.                                      *)
UserRemoves ==
  /\ UserActs
  /\ faults < MaxFaults
  /\ \E d \in Directories, f \in Files :
       /\ tree[d][f] # None
       /\ tree' = [tree EXCEPT ![d][f] = None]
       /\ taken' = taken \cup {<<d, f>>}
  /\ faults' = faults + 1
  /\ UNCHANGED <<receipts, pending, locks, pc, work>>

-----------------------------------------------------------------------------
(* At first the files of the installed packages are there; no two packages  *)
(* have one in common.                                                      *)
InitialTree(r) ==
  [d \in Directories |-> [f \in Files |->
     LET owners == {k \in Packages : r[k] # None /\ r[k].directory = d /\ f \in DOMAIN r[k].files}
     IN  IF owners = {} THEN None ELSE r[CHOOSE k \in owners : TRUE].files[f]]]

Init ==
  /\ receipts \in Installed
  /\ tree = InitialTree(receipts)
  /\ pending = [k \in Packages |-> None]
  /\ packageLock = [k \in Packages |-> None]
  /\ directoryLock = [d \in Directories |-> None]
  /\ pc = [p \in Processes |-> "idle"]
  /\ call = [p \in Processes |-> None]
  /\ seen = [p \in Processes |-> None]
  /\ todo = [p \in Processes |-> {}]
  /\ cur = [p \in Processes |-> None]
  /\ taken = {} /\ faults = 0

Step(p) ==
  \/ Invoke(p)
  \/ Recover(p) \/ RecoverBusy(p) \/ Recovering(p)
  \/ Look(p) \/ Load(p) \/ LoadRefused(p) \/ Preflight(p)
  \/ BeginInstall(p) \/ BeginUninstall(p) \/ BeginRefused(p)
  \/ StartTransaction(p) \/ StartRefused(p)
  \/ RemoveOwned(p) \/ Announce(p) \/ Publish(p)
  \/ Commit(p) \/ Finish(p) \/ Rollback(p)
  \/ Start(p) \/ StartDenied(p) \/ Spawn(p)
  \/ Crash(p)

Next == (\E p \in Processes : Step(p)) \/ UserRemoves

Spec == Init /\ [][Next]_vars

-----------------------------------------------------------------------------
(* An installed package has the files of its receipt, whatever other calls  *)
(* did in the same directory at the same time, and no two packages have one *)
(* in common, except for what the user removed and for what a transaction   *)
(* touched that its process did not live to finish: the two locks and the   *)
(* destination checks under them (transaction.rs acquire_package_lock,      *)
(* acquire_destination_lock; mod.rs check_destination_files).               *)
OwnersKeepTheirFiles ==
  \A k \in Packages : receipts[k] # None /\ pending[k] = None =>
    \A f \in DOMAIN receipts[k].files :
      LET place == <<receipts[k].directory, f>>
      IN  place \notin taken =>
            /\ tree[place[1]][f] = receipts[k].files[f]
            /\ \A other \in Packages \ {k} :
                 receipts[other] # None /\ receipts[other].directory = place[1]
                   => f \notin DOMAIN receipts[other].files

(* One receipt replaces another only as the engine's policy allows for      *)
(* these two, although it judged a receipt read without a lock: a signed    *)
(* package follows its publisher's key, a key passes its authority on only  *)
(* to a newer version, an unsigned one changes hands and a version goes     *)
(* down only if the caller holding the lock approved it, and one version    *)
(* has one content (install.rs assess_install, assess_publisher_transition; *)
(* mod.rs begin).                                                           *)
HandedOver(k, old, new) ==
  LET approvals == call[packageLock[k]].approvals
  IN  /\ old.publisher \in Keys => new.signer = old.publisher
      /\ new.publisher # old.publisher =>
           IF old.publisher \in Keys THEN new.version > old.version
                                     ELSE "migration" \in approvals
      /\ new.version < old.version => "downgrade" \in approvals
      /\ new.version = old.version => new.files = old.files
      /\ new.directory = old.directory

HandoversAllowed ==
  \A k \in Packages :
    LET old == receipts[k]
        new == receipts'[k]
    IN  old # None /\ new # None /\ new # old => HandedOver(k, old, new)

HistoryIsAuthorized == [][HandoversAllowed]_vars

(* What a launch starts is the entrypoint of the installed version, as its  *)
(* receipt has it, while no call changes the package: nothing it checked    *)
(* goes stale before the program runs (local/launch.rs                      *)
(* launch_owned_entrypoint_with).                                           *)
LaunchesInstalled ==
  \A p \in Processes : pc[p] = "spawn" =>
    LET k == Package(p)
        name == Entrypoint(p)
    IN  /\ receipts[k] # None /\ pending[k] = None
        /\ receipts[k].entrypoint = name
        /\ tree[seen[p].directory][name] \in {None, receipts[k].files[name]}

(* Every removal is receipt-owned (docs/ai-build.md): only a call for a     *)
(* package, or the user, takes a file of an installed package away.         *)
RemovalIsReceiptOwned ==
  [][\A k \in Packages :
       receipts[k] # None /\ pending[k] = None /\ pc' # pc =>
         \A f \in DOMAIN receipts[k].files :
           LET d == receipts[k].directory
           IN  tree[d][f] = receipts[k].files[f] /\ tree'[d][f] # tree[d][f] =>
                 \E p \in Processes : pc[p] # "idle" /\ Package(p) = k]_vars
=============================================================================
