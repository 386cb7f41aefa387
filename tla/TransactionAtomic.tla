-------------------------- MODULE TransactionAtomic --------------------------
(***************************************************************************)
(* The transactions of the adapter implement AtomicInstall.  What the      *)
(* abstract tree and receipt are is read off the disk alone: while the     *)
(* outcome is open, the tree is what a rollback would bring back.          *)
(***************************************************************************)
EXTENDS Transaction

CONSTANT Closed   \* "there is no transaction"

ASSUME ClosedAssumption == Closed \notin Receipt

Open == result = "none"

(* The content a rollback restores: the backup if there is one, nothing if  *)
(* the journal says the transaction put the file there itself.              *)
Original(f) ==
  IF backup[f] # None THEN backup[f]
  ELSE IF f \in OnDisk("RemoveFile") \ OnDisk("RestoreFile") THEN None
  ELSE dest[f]

Tree ==
  [f \in Files |-> IF ~Open THEN dest[f] ELSE IF f \in edited THEN None ELSE Original(f)]

Owner ==
  IF rcpt["live"] = None /\ rcpt["previous"] # None THEN rcpt["previous"] ELSE rcpt["live"]

Atomic == INSTANCE AtomicInstall WITH
  Removal <- Empty,
  tree    <- Tree,
  receipt <- Owner,
  plan    <- IF Open THEN target ELSE Closed,
  touched <- edited

(* Seen through its recoverable tree and its receipts, every step of an     *)
(* install, upgrade or uninstall, of its rollback, cleanup and recovery, of *)
(* a crash and of the user is a step of AtomicInstall or changes nothing.   *)
ImplementsAtomicInstall == Atomic!AtomicInstallSpec
=============================================================================
