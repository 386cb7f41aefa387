----------------------------- MODULE Authoring -----------------------------
(***************************************************************************)
(* A project directory and what luxury-compiler does with it on behalf of  *)
(* the `luxury stdio` worker: init, validate, update, import, resolve and  *)
(* build, one at a time, while the user edits the same files with other    *)
(* tools.  Every step may fail, where it is cancelled or meets an error of *)
(* the disk, and the process may be killed between any two.                *)
(***************************************************************************)
EXTENDS Naturals, Sequences, FiniteSets

CONSTANTS
  Starter,             \* hello.txt, the sample payload of a new project
  Folder, Inside,      \* a directory the user imports and the files it brings
  Beside,              \* other files the user may import
  Programs,            \* the imported files with an executable bit
  Settings, First,     \* what luxury.toml says otherwise, and what init writes
  Nothing, NoConfig, HalfConfig,
  MaxEdits, MaxFaults  \* bounds: the user's edits; failures and kills

Files == {Starter} \cup Inside \cup Beside
Entries == Files \cup {Folder}

ASSUME AuthoringAssumption ==
  /\ IsFiniteSet(Files) /\ Folder \notin Files /\ Nothing \notin Entries
  /\ Starter \notin Inside \cup Beside /\ Inside \cap Beside = {} /\ Inside # {}
  /\ Programs \subseteq Files /\ First \in Settings
  /\ MaxEdits \in Nat /\ MaxFaults \in Nat

\* The bytes of a payload file: none, the sample's, the import's, not all
\* written, or the user's own.
Contents == {"missing", "sample", "import", "partial", "own"}
Missing  == [f \in Files |-> "missing"]

\* luxury.toml as ProjectConfig; the target is not Windows.
Configs == [settings : Settings, entry : Files \cup {Nothing}, exec : SUBSET Files,
            signed : BOOLEAN]
SampleConfig == [settings |-> First, entry |-> Nothing, exec |-> {}, signed |-> FALSE]

ASSUME ConfigAssumption == NoConfig \notin Configs /\ HalfConfig \notin Configs

VARIABLES
  payload, folder,  \* the payload files, and whether Folder exists
  config,           \* luxury.toml: Configs, NoConfig, or half written
  output,           \* the bundle at the chosen path
  job,              \* the operation under way
  edits, faults     \* bounds

project == <<payload, folder, config, output>>

NoJob == [kind |-> "none", pc |-> "idle", arg |-> Nothing, source |-> Nothing,
          candidate |-> Nothing, sole |-> FALSE, aside |-> "missing", published |-> <<>>,
          writing |-> Nothing, files |-> Missing, objects |-> Missing, failed |-> FALSE,
          before |-> Nothing, touched |-> {}, late |-> {}]

NewJob(kind, arg) ==
  [NoJob EXCEPT !.kind = kind, !.arg = arg, !.pc = IF kind = "init" THEN "create" ELSE "read",
                !.before = IF kind # "import" THEN Nothing
                           ELSE [payload |-> payload, folder |-> folder, config |-> config]]

\* The job after it has returned "ok", "error" or, when an import could not be
\* undone, "stuck".
Returned(outcome) == [job EXCEPT !.pc = outcome]
Over == job.pc \in {"ok", "error", "stuck"}

At(pc)       == job.pc = pc
Goes(pc)     == job' = [job EXCEPT !.pc = pc]
Returns(out) == job' = Returned(out)

-----------------------------------------------------------------------------
(* The payload and its manifest. *)

Present(p) == {f \in Files : p[f] # "missing"}

\* validate_entrypoint: a program among the files.
EntryOwned(c) == c.entry # Nothing => c.entry \in c.exec

\* Manifest::validate: the payload is not empty.
WellFormed(c, files) == files # {} /\ EntryOwned(c)

\* prepare_project_source: the configured executables exist.
Valid(c, p) == c.exec \subseteq Present(p) /\ WellFormed(c, Present(p))

\* publisher_rotation and formats 2 and 3 are for the CLI.
Editable(c) == c \in Configs /\ ~c.signed

\* The exact starter and nothing else.
OnlyStarter(p) == Present(p) = {Starter} /\ p[Starter] = "sample"

\* The configuration an update leaves: the executables stay, but for a previous
\* entry point that is gone; a new one is added.
Updated(c, draft) ==
  LET gone == c.entry # draft.entry /\ c.entry # Nothing /\ payload[c.entry] = "missing"
      kept == IF gone THEN c.exec \ {c.entry} ELSE c.exec
  IN  [c EXCEPT !.settings = draft.settings, !.entry = draft.entry,
                !.exec = kept \cup ({draft.entry} \ {Nothing})]

\* What the user chose to import, as the files it brings.
Brings(arg) == (arg \cap Files) \cup IF Folder \in arg THEN Inside ELSE {}

-----------------------------------------------------------------------------
(* init_project: nothing different is there, then the sample, then the      *)
(* configuration, each created and then written.                            *)

InitLooks ==
  /\ At("create")
  /\ IF config \in {NoConfig, SampleConfig} /\ payload[Starter] \in {"missing", "sample"}
       THEN Goes("sample") ELSE Returns("error")
  /\ UNCHANGED project

\* write_new: a file that exists must hold the same bytes.
WriteSample ==
  /\ \/ /\ At("sample") /\ payload[Starter] = "missing" /\ Goes("fill")
        /\ payload' = [payload EXCEPT ![Starter] = "partial"]
     \/ /\ At("sample") /\ payload[Starter] # "missing" /\ UNCHANGED payload
        /\ IF payload[Starter] = "sample" THEN Goes("config") ELSE Returns("error")
     \/ /\ At("fill") /\ Goes("config")
        /\ payload' = IF payload[Starter] = "partial"
                        THEN [payload EXCEPT ![Starter] = "sample"] ELSE payload
  /\ UNCHANGED <<folder, config, output>>

WriteConfig ==
  /\ \/ At("config") /\ config = NoConfig /\ config' = HalfConfig /\ Goes("fillConfig")
     \/ /\ At("config") /\ config # NoConfig /\ UNCHANGED config
        /\ IF config = SampleConfig THEN Goes("read") ELSE Returns("error")
     \/ At("fillConfig") /\ config' = SampleConfig /\ Goes("read")
  /\ UNCHANGED <<payload, folder, output>>

-----------------------------------------------------------------------------
(* Reading the project: every operation starts with it. *)

\* validate_project, and what follows init: nothing but the check.
Validates ==
  /\ job.kind \in {"init", "validate"}
  /\ IF config \in Configs /\ Valid(config, payload)
       THEN job' = [Returned("ok") EXCEPT !.candidate = config] ELSE Returns("error")

\* resolve_payload_file: the chosen file lies in the payload.
Resolves ==
  /\ job.kind = "resolve"
  /\ IF Editable(config) /\ job.arg \in Present(payload) THEN Returns("ok") ELSE Returns("error")

\* update_project up to the replacement of the configuration.
Updates ==
  /\ job.kind = "update"
  /\ IF Editable(config) /\ Valid(Updated(config, job.arg), payload)
       THEN job' = [job EXCEPT !.pc = "check", !.source = config,
                               !.candidate = Updated(config, job.arg)]
       ELSE Returns("error")

\* import_payload up to the staging of the sources: the project is valid as it
\* is, and a starter that is all it has is to be replaced.
Imports ==
  /\ job.kind = "import"
  /\ IF Editable(config) /\ Valid(config, payload)
       THEN job' = [job EXCEPT !.pc = "stage", !.source = config,
                               !.sole = OnlyStarter(payload) /\ Starter \notin config.exec]
       ELSE Returns("error")

\* compile_project up to the bundle: an unsigned build hashes every file.
Builds ==
  /\ job.kind = "build"
  /\ IF Editable(config) /\ Valid(config, payload)
       THEN job' = [job EXCEPT !.pc = "snapshot", !.candidate = config, !.files = payload]
       ELSE Returns("error")

Read == /\ At("read")
        /\ Validates \/ Resolves \/ Updates \/ Imports \/ Builds
        /\ UNCHANGED project

-----------------------------------------------------------------------------
(* import_payload.  The staging directory lies in the project; what has been *)
(* published is kept in order, so that it can be removed backwards.          *)

Exists(e) == IF e = Folder THEN folder ELSE payload[e] # "missing"

\* stage_import_source: no destination exists, save the starter to be replaced.
Stage ==
  /\ At("stage")
  /\ IF \E e \in job.arg : Exists(e) /\ ~(job.sole /\ e = Starter)
       THEN Returns("error")
       ELSE job' = [job EXCEPT !.pc = "starter",
                               !.candidate = [job.source EXCEPT
                                   !.exec = @ \cup (Brings(job.arg) \cap Programs)]]
  /\ UNCHANGED project

\* move_starter_payload: the starter is to be alone, is to hold the sample, and
\* is then moved into the staging directory, whatever it holds by then.
LookForStarter ==
  /\ At("starter")
  /\ Goes(IF job.sole /\ Present(payload) = {Starter} /\ ~folder THEN "compare" ELSE "publish")
  /\ UNCHANGED project

\* existing_file_matches fails on a file that is gone.
CompareStarter ==
  /\ At("compare")
  /\ IF payload[Starter] = "missing" THEN Returns("error")
     ELSE Goes(IF payload[Starter] = "sample" THEN "setAside" ELSE "publish")
  /\ UNCHANGED project

SetAside ==
  /\ At("setAside")
  /\ IF payload[Starter] = "missing"
       THEN Returns("error") /\ UNCHANGED payload
       ELSE /\ payload' = [payload EXCEPT ![Starter] = "missing"]
            /\ job' = [job EXCEPT !.pc = "publish", !.aside = payload[Starter],
                                  !.late = @ \ {Starter}]
  /\ UNCHANGED <<folder, config, output>>

Done(e)  == \E i \in DOMAIN job.published : job.published[i] = e
Wanted   == job.arg \cup Brings(job.arg)
\* publish_entry goes into a directory before it goes on.
NextEntry(e) ==
  /\ e \in Wanted /\ ~Done(e)
  /\ e \in Inside => Done(Folder)
  /\ (e \notin Inside /\ Done(Folder)) => \A f \in Inside : Done(f)

Undo(j) == [j EXCEPT !.pc = "rollback", !.writing = Nothing]

PublishFolder ==
  /\ At("publish") /\ NextEntry(Folder)
  /\ IF folder THEN job' = Undo(job) /\ UNCHANGED folder
               ELSE folder' = TRUE /\ job' = [job EXCEPT !.published = Append(@, Folder)]
  /\ UNCHANGED <<payload, config, output>>

\* A plausible bug: the destination is opened without create_new.
faultyCreatable(f) == f \in Inside => folder
\* create_new
Creatable(f) == payload[f] = "missing" /\ (f \in Inside => folder)

PublishOpen ==
  /\ At("publish") /\ job.writing = Nothing
  /\ \E f \in Files :
       /\ NextEntry(f)
       /\ IF Creatable(f)
            THEN /\ payload' = [payload EXCEPT ![f] = "partial"]
                 /\ job' = [job EXCEPT !.pc = "write", !.writing = f]
            ELSE job' = Undo(job) /\ UNCHANGED payload
  /\ UNCHANGED <<folder, config, output>>

\* copy_and_sync; what the user has put in the place of the file stays there.
PublishWrite ==
  /\ At("write")
  /\ payload' = IF payload[job.writing] = "partial"
                  THEN [payload EXCEPT ![job.writing] = "import"] ELSE payload
  /\ job' = [job EXCEPT !.pc = "publish", !.writing = Nothing,
                        !.published = Append(@, job.writing)]
  /\ UNCHANGED <<folder, config, output>>

\* The whole project is prepared again, with the configuration it would have.
Verify ==
  /\ At("publish") /\ \A e \in Wanted : Done(e)
  /\ job' = IF Valid(job.candidate, payload) THEN [job EXCEPT !.pc = "check"] ELSE Undo(job)
  /\ UNCHANGED project

-----------------------------------------------------------------------------
(* replace_project_config: compare, then rename.  Import only compares when *)
(* the configuration stays as it is.                                        *)

Fail(j) == IF j.kind = "import" THEN Undo(j) ELSE [j EXCEPT !.pc = "error"]

Check ==
  /\ At("check")
  /\ job' = IF config # job.source THEN Fail(job)
            ELSE IF job.kind = "import" /\ job.candidate = job.source THEN Returned("ok")
            ELSE [job EXCEPT !.pc = "swap"]
  /\ UNCHANGED project

Swap == /\ At("swap") /\ config' = job.candidate /\ Returns("ok")
        /\ UNCHANGED <<payload, folder, output>>

-----------------------------------------------------------------------------
(* The rollback of an import. *)

Last == job.published[Len(job.published)]
Popped == [job EXCEPT !.published = SubSeq(@, 1, Len(@) - 1)]

\* remove_file, by path; remove_dir fails on a directory that is not empty, and
\* the entries before it are then left alone.
RollbackImport ==
  /\ At("rollback")
  /\ IF job.published = <<>> THEN Goes("restore") /\ UNCHANGED <<payload, folder>>
     ELSE IF Last # Folder
       THEN payload' = [payload EXCEPT ![Last] = "missing"] /\ job' = Popped /\ UNCHANGED folder
     ELSE IF \E f \in Inside : payload[f] # "missing"
       THEN job' = [job EXCEPT !.pc = "restore", !.failed = TRUE] /\ UNCHANGED <<payload, folder>>
     ELSE folder' = FALSE /\ job' = Popped /\ UNCHANGED payload
  /\ UNCHANGED <<config, output>>

\* A plausible bug: the starter is left in the staging directory.
faultyRestoreStarter ==
  /\ At("restore")
  /\ Returns(IF job.failed THEN "stuck" ELSE "error")
  /\ UNCHANGED project
\* restore_starter_payload, also after a rollback that failed: nothing is to be
\* in the place of the starter, and what comes there after that is replaced.
RestoreStarter ==
  /\ At("restore")
  /\ IF job.aside = "missing" THEN Returns(IF job.failed THEN "stuck" ELSE "error")
     ELSE IF payload[Starter] # "missing" THEN Returns("stuck") ELSE Goes("putBack")
  /\ UNCHANGED project

PutBack ==
  /\ At("putBack") /\ Returns(IF job.failed THEN "stuck" ELSE "error")
  /\ payload' = [payload EXCEPT ![Starter] = job.aside]
  /\ UNCHANGED <<folder, config, output>>

-----------------------------------------------------------------------------
(* write_bundle: every file is copied to a snapshot and compared with the   *)
(* manifest, and the archive replaces the output in one rename.             *)

\* A plausible bug: only the presence of the file is compared.
faultyUnchanged(f) == payload[f] # "missing"
Unchanged(f) == payload[f] = job.files[f]

Snapshot ==
  /\ At("snapshot")
  /\ \E f \in Present(job.files) :
       /\ job.objects[f] = "missing"
       /\ job' = IF Unchanged(f) THEN [job EXCEPT !.objects[f] = payload[f]] ELSE Returned("error")
  /\ UNCHANGED project

Archive ==
  /\ At("snapshot") /\ Present(job.objects) = Present(job.files)
  /\ Goes("replace") /\ UNCHANGED project

\* replace_output, by one rename.
ReplaceOutput ==
  /\ At("replace") /\ Returns("ok")
  /\ output' = [config |-> job.candidate, valid |-> Valid(job.candidate, job.objects),
                 intact |-> job.objects = job.files]
  /\ UNCHANGED <<payload, folder, config>>

-----------------------------------------------------------------------------
(* Failures, kills and the user. *)

\* A step fails, or looks at the cancelled flag: an import is undone, the file
\* it was writing removed first; a rollback goes on with the starter.
StepFails ==
  /\ faults < MaxFaults /\ faults' = faults + 1 /\ UNCHANGED <<folder, config, output, edits>>
  /\ \/ /\ job.pc \in {"create", "sample", "fill", "config", "fillConfig", "read", "stage", "starter",
                       "compare", "setAside", "snapshot", "replace"}
        /\ Returns("error") /\ UNCHANGED payload
     \/ At("publish") /\ job' = Undo(job) /\ UNCHANGED payload
     \/ At("write") /\ job' = Undo(job) /\ payload' = [payload EXCEPT ![job.writing] = "missing"]
     \/ job.pc \in {"check", "swap"} /\ job' = Fail(job) /\ UNCHANGED payload
     \/ At("rollback") /\ job' = [job EXCEPT !.pc = "restore", !.failed = TRUE] /\ UNCHANGED payload
     \/ At("restore") /\ job.aside # "missing" /\ Returns("stuck") /\ UNCHANGED payload
     \/ At("putBack") /\ Returns("stuck") /\ UNCHANGED payload

\* The backend dies; a starter in its staging directory stays there.
Kill ==
  /\ job.pc # "idle" /\ faults < MaxFaults /\ faults' = faults + 1
  /\ job' = NoJob /\ UNCHANGED <<project, edits>>

\* What the code has looked at and is about to rename, or to rename something
\* over: an edit that comes in between is late.
Windows == {<<"swap", "config">>, <<"setAside", Starter>>, <<"putBack", Starter>>}

Touch(what) ==
  job' = IF job.pc = "idle" THEN job
         ELSE [job EXCEPT !.touched = @ \cup {what},
                          !.late = IF <<job.pc, what>> \in Windows THEN @ \cup {what} ELSE @]

UserEditsFile ==
  /\ edits < MaxEdits /\ edits' = edits + 1
  /\ \E f \in Files :
       /\ \/ payload' = [payload EXCEPT ![f] = "own"] /\ (f \in Inside => folder)
          \/ payload' = [payload EXCEPT ![f] = "missing"]
       /\ payload' # payload /\ Touch(f)
  /\ UNCHANGED <<folder, config, output, faults>>

\* The user makes the directory, or removes it when it is empty.
UserEditsFolder ==
  /\ edits < MaxEdits /\ edits' = edits + 1
  /\ \A f \in Inside : payload[f] = "missing"
  /\ folder' = ~folder /\ Touch(Folder)
  /\ UNCHANGED <<payload, config, output, faults>>

\* By hand or by another tool: other settings, or a signed format.
UserEditsConfig ==
  /\ config \in Configs /\ edits < MaxEdits /\ edits' = edits + 1
  /\ \/ \E s \in Settings : config' = [config EXCEPT !.settings = s]
     \/ config' = [config EXCEPT !.signed = TRUE]
  /\ config' # config /\ Touch("config")
  /\ UNCHANGED <<payload, folder, output, faults>>

JobStep == /\ \/ InitLooks \/ WriteSample \/ WriteConfig \/ Read \/ Stage
              \/ LookForStarter \/ CompareStarter \/ SetAside
              \/ PublishFolder \/ PublishOpen \/ PublishWrite \/ Verify \/ Check \/ Swap
              \/ RollbackImport \/ RestoreStarter \/ PutBack
              \/ Snapshot \/ Archive \/ ReplaceOutput
           /\ UNCHANGED <<edits, faults>>

AuthoringInit ==
  /\ payload = Missing /\ folder = FALSE /\ config = NoConfig /\ output = Nothing
  /\ job = NoJob /\ edits = 0 /\ faults = 0

-----------------------------------------------------------------------------
(* Properties. *)

\* authoring.rs import_payload: an import that fails and says nothing of its
\* rollback has changed nothing, as far as the user let it; one that succeeds
\* has published everything and lists its programs, and no rollback leaves a
\* file half written.
ImportIsAllOrNothing ==
  job.kind = "import" =>
    /\ At("error") =>
         /\ \A f \in Files \ job.touched : payload[f] = job.before.payload[f]
         /\ Folder \notin job.touched => folder = job.before.folder
         /\ "config" \notin job.touched => config = job.before.config
    /\ At("ok") =>
         /\ \A f \in Brings(job.arg) \ job.touched : payload[f] = "import"
         /\ "config" \notin job.touched =>
              /\ job.before.config.exec \cup (Brings(job.arg) \cap Programs) = config.exec
              /\ job.touched = {} => Valid(config, payload)
    /\ Over => \A f \in Files : payload[f] # "partial" \/ job.before.payload[f] = "partial"

\* A file the user wrote is changed or removed only at a path this very import
\* had published or was writing, and an edit of luxury.toml is not overwritten.
\* Three windows are left, each between a look at a file and the rename it
\* decides: of luxury.toml when it is replaced (authoring.rs:666), of the starter
\* when it is moved aside (:599) and of the starter when it is put back (:628).
UsersWorkIsKept ==
  [][job.pc # "idle" /\ edits' = edits =>
       /\ \A f \in Files : payload[f] = "own" /\ payload'[f] # "own" =>
            Done(f) \/ job.writing = f \/ (f = Starter /\ Starter \in job.late)
       /\ config' # config =>
            config \in {job.source, NoConfig, HalfConfig} \/ "config" \in job.late]_<<project, job, edits>>

\* The bundle at the output path is never a part of one, and every object in it
\* is what its manifest says, whatever happened to the payload meanwhile.
BundleIsWhole ==
  output # Nothing => output.valid /\ output.intact
=============================================================================
