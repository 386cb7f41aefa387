---------------------------- MODULE AtomicInstall ----------------------------
(***************************************************************************)
(* What a package transaction promises whoever looks at the installed tree *)
(* and the ownership receipt: from the moment it begins nothing happens to *)
(* either until both change together, once, or the transaction is given    *)
(* up.  Files the user changes meanwhile are the user's: nothing is said   *)
(* about them until the next transaction begins.                           *)
(***************************************************************************)
CONSTANTS
  Files, Content, None,
  Manifests,  \* the file sets of the packages that may be installed
  Removal,    \* the file set that stands for an uninstallation
  Closed      \* there is no transaction

VARIABLES
  tree,     \* content of each file
  receipt,  \* the file set that is owned, or None
  plan,     \* the file set the open transaction will own, or Closed
  touched   \* files the user changed since the last transaction began

vars == <<tree, receipt, plan, touched>>

AtomicInstallInit ==
  /\ tree \in [Files -> Content \cup {None}]
  /\ receipt = None /\ plan = Closed /\ touched = {}

Begin(p) ==
  /\ plan = Closed /\ plan' = p /\ touched' = {}
  /\ p = Removal => receipt # None
  /\ UNCHANGED <<tree, receipt>>

(* Obsolete files go unless they were no longer what the receipt says.      *)
Installed(f) ==
  IF plan[f] # None THEN plan[f]
  ELSE IF receipt # None /\ receipt[f] = tree[f] THEN None
  ELSE tree[f]

Close(wanted(_)) ==
  /\ plan # Closed /\ plan' = Closed
  /\ tree' \in [Files -> Content \cup {None}]
  /\ \A f \in Files \ touched : tree'[f] = wanted(f)
  /\ UNCHANGED touched

Commit == /\ Close(Installed)
          /\ receipt' = IF plan = Removal THEN None ELSE plan

GiveUp == /\ Close(LAMBDA f : tree[f])
          /\ UNCHANGED receipt

User(f) ==
  /\ \E c \in Content \cup {None} : tree' = [tree EXCEPT ![f] = c]
  /\ touched' = touched \cup {f}
  /\ UNCHANGED <<receipt, plan>>

AtomicInstallNext ==
  \/ \E p \in Manifests \cup {Removal} : Begin(p)
  \/ Commit \/ GiveUp
  \/ \E f \in Files : User(f)

AtomicInstallSpec == AtomicInstallInit /\ [][AtomicInstallNext]_vars
=============================================================================
