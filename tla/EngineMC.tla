------------------------------ MODULE EngineMC ------------------------------
(* Two packages in one install directory for model checking Engine: the     *)
(* history of app goes from a legacy or unsigned installation to a signed   *)
(* one and on to a second key; tool ships a file app also ships.            *)
EXTENDS Distribution, TLC

CONSTANTS p1, p2, app, tool, dir, main, lib, content1, content2, key1, key2

MCProcesses == {p1, p2}
Symmetry == Permutations(MCProcesses)

Manifest(format, package, version, files, rotation) ==
  [format |-> format, package |-> package, version |-> version, directory |-> dir,
   files |-> files, entrypoint |-> main, rotation |-> rotation,
   allowDowngrade |-> format = 2]

OldFilesOf == main :> content1 @@ lib :> content1
NewFilesOf == main :> content2 @@ lib :> content1

Unsigned1 == Manifest(1, app, 1, OldFilesOf, None)
Signed2   == Manifest(2, app, 2, NewFilesOf, None)
Rotated3  == Manifest(3, app, 3, main :> content2, CreateRotation(app, 3, key1, key2))
Tool1     == [Manifest(1, tool, 1, lib :> content2, None) EXCEPT !.entrypoint = lib]

(* Key 1 published a rotation the other key agreed to for version 3 only.   *)
Reused4   == [Rotated3 EXCEPT !.version = 4]

MCPublications ==
  {<<Unsigned1, None>>, <<Signed2, key1>>, <<Rotated3, key1>>, <<Reused4, key1>>,
   <<Tool1, None>>}

MCAgreements == {<<app, 3, key1, key2>>}

(* Archives: any four entries out of what publishers wrote and of entries   *)
(* that differ from it: a manifest with other contents, a signature that    *)
(* names another key, an object with another body, a link, a stray file.    *)
Altered2 == [Signed2 EXCEPT !.files = OldFilesOf]

Manifests  == {p[1] : p \in MCPublications} \cup {Altered2}
Signatures == {SignManifest(p[2], p[1]) : p \in {q \in MCPublications : q[2] # None}}
                \cup {[SignManifest(key1, Signed2) EXCEPT !.keyId = key2]}

Pool == {Entry(ManifestEntry, m) : m \in Manifests}
          \cup {Entry(SignatureEntry, s) : s \in Signatures}
          \cup {Entry(content1, content1), Entry(content2, content2),
                Entry(content2, content1), Entry("README", content1),
                [Entry(content1, content1) EXCEPT !.regular = FALSE]}

MCArchives == [entries : BoundedSeq(Pool, 4), end : {"canonical", "trailing"}]

-----------------------------------------------------------------------------
LegacyApp  == [version |-> 1, directory |-> dir, files |-> OldFilesOf, entrypoint |-> None,
               signer |-> Legacy, publisher |-> Legacy]
SignedApp  == ReceiptOf(Opened(Write(Signed2, key1)))
Nothing    == app :> None @@ tool :> None

MCApprovals == {{"migration"}, {"downgrade"}}
MCInstalled == {Nothing, [Nothing EXCEPT ![app] = LegacyApp],
                [Nothing EXCEPT ![app] = SignedApp]}

(* For the run with a dead transaction: two packages with one library.      *)
SharedTool     == [Tool1 EXCEPT !.files = lib :> content1]
SharedArchives == {Write(Signed2, key1), Write(SharedTool, None)}
NoApproval     == {{}}
OnlyNothing    == {Nothing}
=============================================================================
