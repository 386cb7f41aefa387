------------------------------ MODULE Protocol ------------------------------
(***************************************************************************)
(* What crosses the JSONL pipes between the desktop shell and the CLI: the *)
(* parameters each request must and may have, the results and error codes, *)
(* and the limits that the package format, the server, the client and the  *)
(* shell each check on their own.                                          *)
(*                                                                         *)
(* A text is known by its characters and its UTF-8 bytes, and an absent    *)
(* text has none.  Sizes of payloads are in GiB.                           *)
(***************************************************************************)
EXTENDS Integers, Sequences

CONSTANT Host                        \* the platform both ends were built for

None   == "none"
Absent == [chars |-> 0, bytes |-> 0]

MaxMessage   == 1024                 \* bytes of a message, and of a text the shell shows
MaxLicense   == 16384                \* characters
MaxPath      == 32768                \* bytes of a path in a request
MaxFiles     == 100000
MaxPayload   == 1024
MaxSafe      == 8388607              \* 2^53 - 1 bytes
MaxLog       == 128                  \* files an install log names
MaxLinks     == 4
MaxKeyBytes  == 16384

Least(a, b) == IF a < b THEN a ELSE b

\* The fields of f, and those that only g has.
With(f, g) == [x \in DOMAIN f \cup DOMAIN g |-> IF x \in DOMAIN f THEN f[x] ELSE g[x]]

\* A character of UTF-8 has one to four bytes.
Texts == {t \in [chars : Nat, bytes : Nat] : t.chars <= t.bytes /\ t.bytes <= 4 * t.chars}
Versions == Texts \ {Absent}

Manifests ==
  [id : STRING, format : Nat, schema : Nat, signer : STRING, next : STRING, name : Texts,
   publisher : Texts, version : Versions, description : Texts, license : Texts, directory : Nat,
   target : STRING, entry : BOOLEAN, lower : BOOLEAN, log : BOOLEAN,
   links : Seq([label : Texts, url : Nat, https : BOOLEAN]), files : Nat, size : Nat,
   print : STRING, parses : BOOLEAN]

-----------------------------------------------------------------------------
(* The rules of the package format (luxury-spec).  "parses" says that the  *)
(* id, the version, the directory and the paths are of their types.        *)

(* validate_text: a limit in characters.                                   *)
TextOf(t, max) == t.chars \in 1..max

(* valid_https_url, the same rule in the format and in Setup.              *)
ValidUrl(link) == link.url <= 2048 /\ link.https

(* InstallDirectory::parse: one portable component.                        *)
ValidDirectory(bytes) == bytes \in 1..512

ValidManifest(m) ==
  /\ m.parses /\ ValidDirectory(m.directory)
  /\ m.schema \in 1..3 /\ m.format \in 1..3
  /\ m.format = 3 <=> m.next # None
  /\ TextOf(m.name, 128) /\ TextOf(m.publisher, 128)
  /\ m.description # Absent => TextOf(m.description, 1024)
  /\ m.entry => m.schema >= 2
  /\ m.license # Absent => m.schema >= 3 /\ TextOf(m.license, MaxLicense)
  /\ Len(m.links) <= MaxLinks
  /\ \A i \in DOMAIN m.links : TextOf(m.links[i].label, 48) /\ ValidUrl(m.links[i])
  /\ m.files \in 1..MaxFiles /\ m.size <= MaxPayload

(* A bundle that opens: format 1 is unsigned, and only it, and a rotation  *)
(* is to another key.                                                      *)
ValidBundle(m) ==
  ValidManifest(m) /\ (m.format = 1 <=> m.signer = None) /\ (m.next # None => m.next # m.signer)

(* update_project_cancellable: the form replaces the settings, and the     *)
(* schema is the lowest that has what the form uses.                       *)
Updated(m, form) ==
  [form EXCEPT !.schema = IF form.license # Absent THEN 3 ELSE IF form.entry THEN 2 ELSE 1,
               !.files = m.files, !.size = m.size]

-----------------------------------------------------------------------------
(* Requests: the fields a method must have and those it may leave out.     *)

Roots == {"installBase", "stateRoot"}
PathFields == Roots \cup {"packagePath", "projectPath", "outputPath", "sourcePaths", "selectedPath"}

Required ==
  [defaults           |-> {},
   initProject        |-> {"projectPath"},
   validateProject    |-> {"projectPath"},
   updateProject      |-> {"projectPath", "package", "target", "install"},
   importPayload      |-> {"projectPath", "sourcePaths"},
   resolvePayloadPath |-> {"projectPath", "selectedPath"},
   buildProject       |-> {"projectPath", "outputPath"},
   inspect            |-> {"packagePath"},
   prepareInstall     |-> Roots \cup {"packagePath", "expectedFingerprint"},
   install            |-> Roots \cup {"packagePath", "allowUnsigned", "expectedFingerprint"},
   uninstall          |-> Roots \cup {"packageId"},
   launch             |-> Roots \cup {"packageId"},
   cancel             |-> {"requestId"}]

(* #[serde(default)]: consent that is not given is refused.                *)
Defaults(method) ==
  CASE method = "install" ->
         [acceptLicense |-> FALSE, allowDowngrade |-> FALSE, allowPublisherMigration |-> FALSE]
    [] method = "updateProject" -> [executable |-> None]
    [] OTHER -> [none \in {} |-> None]

(* absolute_path                                                           *)
AbsolutePath(bytes) == bytes \in 1..MaxPath

(* decode_params with its deny_unknown_fields, then the validators.        *)
Decodes(q) ==
  /\ q.method \in DOMAIN Required
  /\ Required[q.method] \subseteq DOMAIN q.params
  /\ DOMAIN q.params \subseteq Required[q.method] \cup DOMAIN Defaults(q.method)
  /\ \A f \in DOMAIN q.params \cap PathFields : AbsolutePath(q.params[f])
  /\ "package" \in DOMAIN q.params => q.params["package"].parses

Decoded(q) == With(q.params, Defaults(q.method))

-----------------------------------------------------------------------------
(* Errors: the code each cause has on the pipe, and the code the shell     *)
(* makes public.                                                           *)

PortCode(other) ==
  [Integrity |-> "integrity_failed", Collision |-> "collision", Permission |-> "permission_denied",
   Capacity |-> "insufficient_space", Busy |-> "busy", Recovery |-> "recovery_required",
   State |-> "state_error", Unsupported |-> "unsupported", Io |-> "io_error", Other |-> other]

InstallCode ==
  With([UnsupportedTarget |-> "unsupported_target", UnsupportedScope |-> "unsupported_scope",
        LicenseNotAccepted |-> "license_not_accepted", InvalidReceipt |-> "invalid_state",
        ReceiptMismatch |-> "state_conflict", PathAliasChanged |-> "state_conflict",
        PublisherMigrationDenied |-> "publisher_migration_required",
        PublisherMismatch |-> "publisher_mismatch",
        PublisherRotationDenied |-> "publisher_rotation_denied",
        DowngradeDenied |-> "downgrade_denied", ReinstallMismatch |-> "reinstall_mismatch",
        Cancelled |-> "cancelled", Rollback |-> "rollback_failed"], PortCode("install_failed"))

(* faulty: a rollback that failed has no code of its own.                  *)
UninstallCodeOfPort ==
  With([InvalidReceipt |-> "invalid_state", UnsupportedScope |-> "unsupported_scope",
        ReceiptPackageMismatch |-> "state_conflict", Cancelled |-> "cancelled",
        Rollback |-> "uninstall_failed"], PortCode("uninstall_failed"))
UninstallCode ==
  With([InvalidReceipt |-> "invalid_state", UnsupportedScope |-> "unsupported_scope",
        ReceiptPackageMismatch |-> "state_conflict", Cancelled |-> "cancelled",
        Rollback |-> "rollback_failed"], PortCode("uninstall_failed"))

LaunchCode ==
  [Cancelled |-> "cancelled", RecoveryPending |-> "recovery_required",
   NotInstalled |-> "launch_not_available", MissingEntrypoint |-> "launch_not_available",
   InvalidReceipt |-> "invalid_state", ReceiptPackageMismatch |-> "invalid_state",
   EntrypointNotOwned |-> "invalid_state", UnsupportedScope |-> "unsupported_scope",
   Recovery |-> "recovery_required", Integrity |-> "invalid_state", Collision |-> "invalid_state",
   State |-> "invalid_state", Other |-> "launch_failed"]

BundleCode(fallback) ==
  [MissingSignature |-> "signature_missing", InvalidSignature |-> "signature_invalid",
   InvalidRotation |-> "publisher_rotation_invalid", UntrustedPublisher |-> "publisher_untrusted",
   Other |-> fallback]

CompilerCode(fallback) ==
  [ProjectChanged |-> "state_conflict", ImportConflict |-> "collision",
   ImportNotUndone |-> "rollback_failed", Other |-> fallback]

Fallback ==
  [initProject |-> "project_init_failed", validateProject |-> "project_validation_failed",
   updateProject |-> "project_update_failed", importPayload |-> "project_import_failed",
   resolvePayloadPath |-> "payload_path_invalid", buildProject |-> "project_build_failed",
   inspect |-> "inspect_failed", prepareInstall |-> "package_open_failed",
   install |-> "package_open_failed"]

(* load_trusted_publisher_key, for the absolute path the client hands over. *)
KeyLoads(key) == key.given => key.regular /\ key.bytes <= MaxKeyBytes /\ key.pem

(* faulty: the limit is one of characters, which have up to four bytes.    *)
BoundedInChars(message) ==
  [bytes |-> IF message.bytes = 0 THEN 16 ELSE Least(message.bytes, 4 * MaxMessage), control |-> FALSE]

(* WireError::new: one line of bounded length, and never empty.            *)
Bounded(message) ==
  [bytes |-> IF message.bytes = 0 THEN 16 ELSE Least(message.bytes, MaxMessage), control |-> FALSE]

(* require_backend_error                                                   *)
ValidMessage(message) == message.bytes \in 1..MaxMessage /\ ~message.control

(* public_backend_message: what it does not name is an internal error.     *)
PublicCodes ==
  {"busy", "cancelled", "downgrade_denied", "insufficient_space", "package_changed",
   "package_open_failed", "permission_denied", "launch_failed", "launch_not_available",
   "license_not_accepted", "invalid_backend_output", "project_build_failed",
   "project_import_failed", "project_init_failed", "project_update_failed",
   "project_validation_failed", "payload_path_invalid", "publisher_migration_required",
   "publisher_mismatch", "publisher_rotation_denied", "publisher_rotation_invalid",
   "publisher_untrusted", "recovery_required", "reinstall_mismatch", "rollback_failed",
   "signature_invalid", "signature_missing", "invalid_state", "state_conflict", "state_error",
   "unsigned_not_allowed", "uninstall_failed", "unsupported", "unsupported_scope",
   "unsupported_target"}
Public(code) == IF code \in PublicCodes THEN code ELSE "internal_error"

-----------------------------------------------------------------------------
(* Events: what the client takes from an operation of each kind.           *)

Actions == {"install", "update", "repair"}
Phases ==
  [install   |-> {"validating", "recovering", "verifying", "planning", "applying", "committing",
                  "rollingBack", "completed", "cancelled", "failed"},
   uninstall |-> {"recovering", "loadingReceipt", "removing", "committing", "rollingBack",
                  "completed", "cancelled", "failed"}]

ParsesEvent(kind, line) ==
  \/ line.event = "action" /\ kind = "install" /\ line.data.action \in Actions
  \/ line.event = "phase" /\ kind \in DOMAIN Phases /\ line.data.phase \in Phases[kind]
  \/ /\ line.event = "progress" /\ kind \in DOMAIN Phases
     /\ line.data.files <= line.data.totalFiles
     /\ line.data.size <= line.data.totalSize /\ line.data.totalSize <= MaxSafe

-----------------------------------------------------------------------------
(* Results: what the server makes of a manifest, a plan, an outcome, and   *)
(* what the shell takes.                                                   *)

(* ProjectResult::from_manifest, InspectResult::from_bundle                *)
Described(m) ==
  LET shown == IF m.log THEN Least(m.files, MaxLog) ELSE 0
  IN  With(m, [shown |-> shown, omitted |-> IF m.log THEN m.files - shown ELSE 0])
Describable(m) == m.version.bytes <= MaxMessage

(* valid_text, valid_license, valid_install_directory: limits in bytes.    *)
ShellText(t)       == t.bytes \in 1..MaxMessage
ShellLicense(t)    == t.bytes <= 65536 /\ t.chars \in 1..MaxLicense
ShellDirectory(b)  == b \in 1..255
ShellLog(r)        == IF r.log THEN r.shown <= MaxLog /\ r.shown + r.omitted = r.files
                               ELSE r.shown = 0
ShellLinks(links)  == /\ Len(links) <= MaxLinks
                      /\ \A i \in DOMAIN links : links[i].label.chars <= 48 /\ ShellText(links[i].label)

(* What every result about a package or a project must be.                 *)
AcceptsIdentity(r) ==
  /\ r.format \in 1..3 /\ r.schema \in 1..3
  /\ r.license # Absent => r.schema = 3 /\ ShellLicense(r.license)
  /\ ShellText(r.name) /\ ShellText(r.publisher) /\ ShellText(r.version)
  /\ ShellDirectory(r.directory)
  /\ r.size <= MaxSafe

(* BoundPackage::from_backend                                              *)
AcceptsPackage(r) ==
  /\ AcceptsIdentity(r)
  /\ r.format = 1 <=> r.signer = None
  /\ r.format = 3 <=> r.next # None
  /\ r.next # None => r.signer \notin {None, r.next}
  /\ r.entry => r.schema # 1
  /\ ShellLinks(r.links) /\ \A i \in DOMAIN r.links : ValidUrl(r.links[i])
  /\ ShellLog(r)

(* StudioProject::from_backend                                             *)
AcceptsProject(r) ==
  AcceptsIdentity(r) /\ (r.description # Absent => ShellText(r.description))

(* validate_project_update: of a link it only sees how it begins.          *)
AcceptsForm(f) ==
  /\ ShellText(f.name) /\ ShellText(f.publisher) /\ ShellText(f.version)
  /\ f.description # Absent => ShellText(f.description)
  /\ f.license # Absent => ShellLicense(f.license)
  /\ ShellDirectory(f.directory)
  /\ ShellLinks(f.links) /\ \A i \in DOMAIN f.links : f.links[i].url <= 2048

(* validate_preparation: a version is installed unless it is an install.   *)
AcceptsPlan(p) ==
  p.status # "recoveryRequired" =>
    /\ p.action = "install" <=> p.version = Absent
    /\ p.version # Absent => ShellText(p.version)

(* validate_install_result: what was planned, of the package reviewed.     *)
AcceptsInstall(r, plan, bound) ==
  /\ plan.status = "recoveryRequired" \/ r.action = plan.action
  /\ r.id = bound.id /\ r.directory = bound.directory
  /\ r.files = bound.files /\ r.size = bound.size

(* validate_uninstall_result, launch_installed                             *)
AcceptsId(r, bound) == r.id = bound.id
=============================================================================
