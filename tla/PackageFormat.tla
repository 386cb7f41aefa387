---------------------------- MODULE PackageFormat ----------------------------
(***************************************************************************)
(* The .luxpkg archive (crate luxury-bundle): what the writer puts in it   *)
(* and what a reader makes sure of before anything of it is installed.     *)
(* Signatures and digests are ideal: a key signs one text, and a content   *)
(* is denoted by its digest.                                               *)
(***************************************************************************)
EXTENDS Assessment, Sequences, SequencesExt

ManifestEntry  == "META/manifest.toml"
SignatureEntry == "META/signature.ed25519"

(* Format 1 is unsigned, 2 signed, 3 signed and hands the publisher's       *)
(* authority to the next key.                                               *)
Signed(m) == m.format # 1

(* Manifest::validate                                                       *)
ValidManifest(m) ==
  /\ m.format \in 1..3
  /\ m.format = 3 <=> m.rotation # None
  /\ DOMAIN m.files # {}
  /\ m.entrypoint \in DOMAIN m.files \cup {None}

(* expected_objects: files with the same content share one object.          *)
Objects(m) == {m.files[f] : f \in DOMAIN m.files}

-----------------------------------------------------------------------------
Signature(key, text) == [by |-> key, over |-> text]

(* The record names its key; the text signed holds that name as well.       *)
SignManifest(key, m) == [keyId |-> key, signature |-> Signature(key, <<key, m>>)]

ManifestSignatureValid(key, m, record) ==
  /\ record.keyId = key
  /\ record.signature = Signature(key, <<record.keyId, m>>)

(* A transcript without the version.                                        *)
VersionlessTranscript(package, version, from, to) == <<package, from, to>>

(* The next key agrees to one package, one version and one predecessor.     *)
RotationTranscript(package, version, from, to) == <<package, version, from, to>>

CreateRotation(package, version, from, to) ==
  [to |-> to, proof |-> Signature(to, RotationTranscript(package, version, from, to))]

(* verify_manifest_rotation                                                 *)
RotationValid(m, key) ==
  m.rotation # None =>
    /\ m.rotation.to # key
    /\ m.rotation.proof =
         Signature(m.rotation.to, RotationTranscript(m.package, m.version, key, m.rotation.to))

-----------------------------------------------------------------------------
Entry(path, body) == [path |-> path, regular |-> TRUE, body |-> body]

(* verify_payload_objects: every file of the manifest is there as it says.  *)
PayloadVerified(m, payload) == \A f \in DOMAIN m.files : payload[f] = m.files[f]

(* create_unsigned_bundle (no key), create_signed_bundle                    *)
Writable(m, payload, key) ==
  /\ ValidManifest(m)
  /\ Signed(m) <=> key # None
  /\ key # None => RotationValid(m, key)
  /\ PayloadVerified(m, payload)

SignatureOf(m, key) ==
  IF key = None THEN <<>> ELSE <<Entry(SignatureEntry, SignManifest(key, m))>>

Stored(m) == LET order == SetToSeq(Objects(m))
             IN  [i \in DOMAIN order |-> Entry(order[i], order[i])]

Write(m, key) ==
  [entries |-> <<Entry(ManifestEntry, m)>> \o SignatureOf(m, key) \o Stored(m),
   end     |-> "canonical"]

-----------------------------------------------------------------------------
(* A caller trusts the key it names, or none.                               *)
TrustedKey == Keys \cup {None}

ManifestOf(archive) == archive.entries[1].body

(* The manifest is first ...                                                *)
ManifestRead(archive) ==
  /\ archive.entries # <<>>
  /\ archive.entries[1].path = ManifestEntry
  /\ archive.entries[1].regular
  /\ ValidManifest(ManifestOf(archive))

(* ... the signature second, by the trusted key over exactly this manifest, *)
SignatureVerified(archive, trusted) ==
  /\ Len(archive.entries) > 1
  /\ archive.entries[2].path = SignatureEntry
  /\ archive.entries[2].regular
  /\ trusted # None
  /\ ManifestSignatureValid(trusted, ManifestOf(archive), archive.entries[2].body)

Trust(archive, trusted) ==
  Signed(ManifestOf(archive)) =>
    SignatureVerified(archive, trusted) /\ RotationValid(ManifestOf(archive), trusted)

(* ... and then the objects the manifest names,                             *)
Rest(archive) ==
  SubSeq(archive.entries, IF Signed(ManifestOf(archive)) THEN 3 ELSE 2, Len(archive.entries))

Expected(entry, m) == entry.path \in Objects(m)

ObjectVerified(entry, m) ==
  Expected(entry, m) /\ entry.regular /\ entry.body = entry.path

(* each once, none missing, nothing else before the end of the archive.     *)
ObjectsVerified(archive) ==
  LET rest == Rest(archive)
      m    == ManifestOf(archive)
  IN  /\ \A i \in DOMAIN rest : ObjectVerified(rest[i], m)
      /\ \A i, j \in DOMAIN rest : rest[i].path = rest[j].path => i = j

NoneMissing(archive) ==
  \A object \in Objects(ManifestOf(archive)) :
    \E i \in DOMAIN Rest(archive) : Rest(archive)[i].path = object

EndVerified(archive) == archive.end = "canonical"

Opens(archive, trusted) ==
  /\ ManifestRead(archive)
  /\ Trust(archive, trusted)
  /\ ObjectsVerified(archive)
  /\ NoneMissing(archive)
  /\ EndVerified(archive)

(* What the engine is given of an open archive: the manifest, its trust,    *)
(* and the bodies of the objects.                                           *)
Body(archive, object) ==
  LET rest == Rest(archive)
  IN  rest[CHOOSE i \in DOMAIN rest : rest[i].path = object].body

Opened(archive) ==
  LET m == ManifestOf(archive)
  IN  [version        |-> m.version,
       directory      |-> m.directory,
       files          |-> [f \in DOMAIN m.files |-> Body(archive, m.files[f])],
       entrypoint     |-> m.entrypoint,
       signer         |-> IF Signed(m) THEN archive.entries[2].body.keyId ELSE Unsigned,
       rotation       |-> IF m.rotation = None THEN None ELSE m.rotation.to,
       allowDowngrade |-> m.allowDowngrade]
=============================================================================
