---------------------------- MODULE Distribution ----------------------------
(***************************************************************************)
(* From the publisher to the installed package: what publishers wrote      *)
(* reaches a caller as some archive, perhaps not the one written.          *)
(***************************************************************************)
EXTENDS Engine

CONSTANTS
  Publications,  \* pairs <<manifest, key>> a publisher signed, None for no key
  Agreements     \* the successions <<package, version, from, to>> a next key agreed to

(* What a publisher writes opens for who trusts it, as what was published.  *)
Payload(m) == [f \in Files |-> IF f \in DOMAIN m.files THEN m.files[f] ELSE None]

ASSUME WrittenPackagesOpen ==
  \A p \in Publications : Writable(p[1], Payload(p[1]), p[2]) =>
    LET archive == Write(p[1], p[2])
    IN  Opens(archive, p[2]) /\ Opened(archive).files = p[1].files

(* Signatures are ideal: an archive holds no signature by a key over a text *)
(* that the holder of the key did not sign, wherever it was taken from.     *)
SignedBy(key) ==
  {<<key, p[1]>> : p \in {q \in Publications : q[2] = key}}
    \cup {RotationTranscript(a[1], a[2], a[3], a[4]) : a \in {b \in Agreements : b[4] = key}}

Made(signature) == signature.by \in Keys => signature.over \in SignedBy(signature.by)

BodiesAt(path) ==
  UNION {{a.entries[i].body : i \in {j \in DOMAIN a.entries : a.entries[j].path = path}} :
           a \in Archives}

ASSUME SignaturesAreMade ==
  /\ \A a \in Archives : Len(a.entries) \in Nat /\ DOMAIN a.entries = 1 .. Len(a.entries)
  /\ \A record \in BodiesAt(SignatureEntry) : Made(record.signature)
  /\ \A m \in BodiesAt(ManifestEntry) : m.rotation # None => Made(m.rotation.proof)

ASSUME PublicationAssumption ==
  /\ \A p \in Publications : p[1].files \in FileSets
  /\ Agreements \subseteq Packages \X Nat \X Keys \X Keys

(* The receipt of a package that names a publisher is one that publisher    *)
(* published, file by file, and the key that may publish the next version   *)
(* has agreed to follow on this version of this package.                    *)
Genuine(k, receipt) ==
  receipt.signer \in Keys =>
    /\ \E p \in Publications :
         /\ p[2] = receipt.signer /\ p[1].package = k
         /\ p[1].version = receipt.version
         /\ p[1].files = receipt.files /\ p[1].entrypoint = receipt.entrypoint
    /\ receipt.publisher # receipt.signer =>
         <<k, receipt.version, receipt.signer, receipt.publisher>> \in Agreements

ASSUME InstalledWasPublished ==
  \A r \in Installed, k \in Packages : r[k] # None => Genuine(k, r[k])

(* An installed package that names a publisher is one that publisher        *)
(* published, whatever became of the archive on its way (luxury-bundle      *)
(* open_bundle_inner).                                                      *)
OnlyPublished == \A k \in Packages : receipts[k] # None => Genuine(k, receipts[k])
=============================================================================
