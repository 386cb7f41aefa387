----------------------------- MODULE Assessment -----------------------------
(***************************************************************************)
(* How the engine judges a release against the receipt of what is          *)
(* installed (luxury-engine install.rs): who may publish the next version, *)
(* which versions may follow, and the receipt an accepted release leaves.  *)
(***************************************************************************)
EXTENDS Integers

CONSTANTS
  None,       \* no value
  Legacy,     \* the identity of a receipt written before receipts had one
  Unsigned,   \* the identity of an unsigned package
  Keys,       \* publisher keys
  Files, Contents, Directories

ASSUME AssessmentAssumption ==
  /\ None \notin Keys \cup {Legacy, Unsigned} \cup Contents
  /\ {Legacy, Unsigned} \cap Keys = {} /\ Legacy # Unsigned

FileSets == UNION {[names -> Contents] : names \in SUBSET Files \ {{}}}

(* A verified package: signer is Unsigned or the key that signed it, and    *)
(* rotation the key it hands its publisher's authority to.                  *)
Release ==
  {r \in [version : Nat, directory : Directories, files : FileSets,
          entrypoint : Files \cup {None}, signer : Keys \cup {Unsigned},
          rotation : Keys \cup {None}, allowDowngrade : BOOLEAN] :
     /\ r.entrypoint \in DOMAIN r.files \cup {None}
     /\ r.rotation # None => r.signer # Unsigned}

(* The fields of a receipt: publisher may sign the next version, signer     *)
(* signed this one; old formats do not name them, nor an entrypoint.        *)
ReceiptFields ==
  [version : Nat, directory : Directories, files : FileSets,
   entrypoint : Files \cup {None}, signer : Keys \cup {Unsigned, Legacy},
   publisher : Keys \cup {Unsigned, Legacy}]

(* OwnershipReceipt::validate                                               *)
ValidReceipt(r) ==
  /\ r.entrypoint \in DOMAIN r.files \cup {None}
  /\ r.signer = Legacy => r.entrypoint = None
  /\ r.publisher = Legacy => r.signer = Legacy
  /\ r.signer # Legacy => (r.signer = Unsigned) = (r.publisher = Unsigned)

Receipt == {r \in ReceiptFields : ValidReceipt(r)}

(* What a caller may approve beyond the review itself.                      *)
Approval == {"migration", "downgrade"}

(* The identity a package installs under: the key its authority is now with. *)
PackageIdentity(release) ==
  IF release.rotation = None THEN release.signer ELSE release.rotation

ReceiptOf(release) ==
  [version    |-> release.version,
   directory  |-> release.directory,
   files      |-> release.files,
   entrypoint |-> release.entrypoint,
   signer     |-> release.signer,
   publisher  |-> PackageIdentity(release)]

-----------------------------------------------------------------------------
(* validate_fresh_publisher: nobody has authority to pass on yet.           *)
FreshPublisherAccepted(release) == release.rotation = None

(* A rotation is believed only when the authorised publisher signed it, in  *)
(* a package newer than the installed one.                                  *)
RotationAccepted(release, receipt) ==
  /\ release.signer # release.rotation
  /\ receipt.publisher = release.signer
  /\ release.version > receipt.version

(* An unsigned or unidentified installation may pass to another publisher   *)
(* when the caller approves; a signed one stays with its publisher.         *)
NeedsMigration(release, receipt) ==
  /\ release.rotation = None
  /\ receipt.publisher # release.signer

PublisherAccepted(release, receipt) ==
  IF release.rotation # None
  THEN RotationAccepted(release, receipt)
  ELSE receipt.publisher \in {Legacy, Unsigned, release.signer}

SameContents(release, receipt) ==
  /\ release.files = receipt.files
  /\ release.entrypoint = receipt.entrypoint

(* assess_install: fresh installation, update, repair or downgrade.         *)
Accepts(release, receipt, approvals) ==
  IF receipt = None
  THEN FreshPublisherAccepted(release)
  ELSE /\ release.directory = receipt.directory
       /\ PublisherAccepted(release, receipt)
       /\ NeedsMigration(release, receipt) => "migration" \in approvals
       /\ release.version < receipt.version =>
            release.allowDowngrade /\ "downgrade" \in approvals
       /\ release.version = receipt.version => SameContents(release, receipt)
=============================================================================
