------------------------------ MODULE Exchange ------------------------------
(***************************************************************************)
(* One session of the desktop shell with the CLI it runs, for what the     *)
(* lines say: the shell writes requests from what it was told and what the *)
(* user agreed to, the server decodes and executes them and writes events, *)
(* results and errors, the client of the shell takes or refuses each line, *)
(* and the shell takes or refuses each result.  Threads, queues and limits *)
(* of time are those of BackendClient, StdioServer and SetupShell.         *)
(***************************************************************************)
EXTENDS Protocol, FiniteSets

CONSTANTS
  Starts,        \* what a session may find: [app, disk, installed, key,
                 \* path, asks]; asks bounds the requests of the session
  Starter,       \* the project that initProject makes
  Forms,         \* what the user may save in Studio
  Replacements,  \* what others may put where the package was
  PortKinds,     \* how a port may fail
  MaxOthers      \* changes other processes make meanwhile

VARIABLES
  disk,          \* the package (Setup) or the project (Studio) at the path
  installed,     \* what the destination holds, compared with the package
  others,        \* changes other processes made
  shell,         \* what the shell knows, asked for and shows
  client,        \* the client's process, its table of requests and its ids
  requests,      \* the server's stdin, the oldest line first
  server,        \* "down", "up" or "exited"
  job,           \* the worker of the server
  tree,          \* what the last install or uninstall did to the destination
  lines          \* the server's stdout, the oldest line first

vars == <<disk, installed, others, shell, client, requests, server, job, tree, lines>>
world == <<disk, installed, others>>

NoPlan == [status |-> None, action |-> None, version |-> Absent, migrate |-> FALSE]
NoProject == [format |-> 0]
NoConsent == [unsigned |-> FALSE, license |-> FALSE, migration |-> FALSE]
NoJob  == [at |-> "idle"]
NothingInstalled == [order |-> None, version |-> Absent, migrate |-> FALSE, files |-> 0]

Holdings ==
  {NothingInstalled} \cup [order : {"older", "same", "newer", "other"}, version : Versions,
                          migrate : BOOLEAN, files : Nat \ {0}]

(* Setup finds a package, and what replaces it is one, too; Studio finds a  *)
(* project or none.                                                        *)
ASSUME SessionAssumption ==
  /\ MaxOthers \in Nat /\ Forms \subseteq Manifests /\ PortKinds \subseteq DOMAIN PortCode(None)
  /\ Starter \in Manifests /\ ValidManifest(Starter)
  /\ \A m \in Replacements : m \in Manifests /\ ValidBundle(m)
  /\ \A s \in Starts :
       /\ s.app \in {"setup", "studio"} /\ s.path \in Nat \ {0} /\ s.asks \in Nat
       /\ s.installed \in Holdings
       /\ s.disk = NoProject => s.app = "studio"
       /\ s.disk # NoProject => s.disk \in Manifests /\ ValidManifest(s.disk)
       /\ s.app = "setup" => ValidBundle(s.disk)

(* What errors say, at the worst: the text of the system with paths.       *)
SystemText == [bytes |-> 4096, control |-> TRUE]

ResultLine(id, r) == [type |-> "result", id |-> id, result |-> r]
ErrorLine(id, code) ==
  [type |-> "error", id |-> id, code |-> code, message |-> Bounded(SystemText)]
EventLine(id, event, data) == [type |-> "event", id |-> id, event |-> event, data |-> data]
PhaseLine(phase) == EventLine(job.id, "phase", [phase |-> phase])

-----------------------------------------------------------------------------
(* The shell asks.                                                         *)

Idle == client.up /\ shell.id = 0 /\ client.next <= shell.asks

(* BackendClient::submit                                                   *)
Submit(method, params, kind) ==
  /\ requests' = Append(requests, [id |-> client.next, method |-> method, params |-> params])
  /\ client' = [client EXCEPT !.next = @ + 1, !.pending = @ \cup {[id |-> client.next, kind |-> kind]}]
  /\ UNCHANGED <<world, server, job, tree, lines>>

(* A refresh of the plan goes unnoticed: what is shown stays.              *)
Asked(method) ==
  [shell EXCEPT !.id = client.next, !.last = method, !.refused = {},
                !.shown = IF shell.at \in {"refresh", "reselect"} THEN @ ELSE None,
                !.told = IF method \in {"install", "uninstall"} THEN None ELSE @]
Ask(method, params, kind) == Idle /\ Submit(method, params, kind) /\ shell' = Asked(method)

AskDefaults == shell.app = "setup" /\ shell.at = "new" /\ Ask("defaults", [none \in {} |-> None], "request")

AskInspect ==
  shell.at = "ready" /\ Ask("inspect", [packagePath |-> shell.path], "request")

AtRoots == [installBase |-> shell.path, stateRoot |-> shell.path]

PrepareParams ==
  With(AtRoots, [packagePath |-> shell.path, expectedFingerprint |-> shell.bound.print])

AskPrepare ==
  shell.at \in {"bound", "planned", "refresh", "reselect"} /\ Ask("prepareInstall", PrepareParams, "request")

(* start_install_sync: only what the plan and the package call for is      *)
(* asked of the user, and all of that.                                     *)
Consents ==
  {c \in [unsigned : BOOLEAN, license : BOOLEAN, migration : BOOLEAN] :
     /\ c.migration <=> (shell.plan.status = "ready" /\ shell.plan.migrate)
     /\ shell.bound.signer = None => c.unsigned
     /\ c.license <=> shell.bound.license # Absent}

InstallParams(c) ==
  With(PrepareParams, [allowUnsigned |-> shell.bound.signer = None /\ c.unsigned,
                       acceptLicense |-> shell.bound.license # Absent /\ c.license,
                       allowPublisherMigration |-> c.migration])

AskInstall ==
  /\ shell.at = "planned" /\ shell.plan.status # "insufficientSpace"
  /\ \E c \in Consents : /\ Idle /\ Submit("install", InstallParams(c), "install")
                        /\ shell' = [Asked("install") EXCEPT !.agreed = c]

PackageParams == With(AtRoots, [packageId |-> shell.bound.id])

AskUninstall ==
  shell.at = "planned" /\ shell.plan.version # Absent /\ Ask("uninstall", PackageParams, "uninstall")

AskLaunch ==
  shell.at = "planned" /\ shell.bound.entry /\ Ask("launch", PackageParams, "request")

(* Studio opens a project, and changes and builds unsigned ones only.      *)
ProjectParams == [projectPath |-> shell.path]

AskOpen ==
  /\ shell.app = "studio" /\ shell.at = "new"
  /\ \E method \in {"initProject", "validateProject"} : Ask(method, ProjectParams, "request")

AskReload == shell.at = "open" /\ Ask("validateProject", ProjectParams, "request")

AskUpdate ==
  /\ shell.at = "open" /\ shell.bound.format = 1
  /\ \E form \in Forms :
       /\ AcceptsForm(form)
       /\ Ask("updateProject",
              With(ProjectParams, [package |-> form, target |-> form.target, install |-> form]), "request")

AskWith ==
  [importPayload |-> [sourcePaths |-> shell.path], resolvePayloadPath |-> [selectedPath |-> shell.path],
   buildProject |-> [outputPath |-> shell.path]]

AskProject ==
  /\ shell.at = "open" /\ shell.bound.format = 1
  /\ \E method \in DOMAIN AskWith : Ask(method, With(ProjectParams, AskWith[method]), "request")

(* submit of a line that is too long, as an import of many files may be:   *)
(* it is refused before it has an id in the table.                         *)
AskTooMuch ==
  /\ shell.at = "open" /\ shell.bound.format = 1 /\ Idle
  /\ shell' = [shell EXCEPT !.shown = Public("invalid_request"), !.refused = {}]
  /\ UNCHANGED <<world, client, requests, server, job, tree, lines>>

(* cancel_operation, and request_operation whose time is up.               *)
AskCancel ==
  /\ client.up /\ shell.id # 0 /\ shell.cancel = 0 /\ client.next <= shell.asks
  /\ shell.last \notin {"defaults", "launch"}
  /\ Submit("cancel", [requestId |-> shell.id], "request")
  /\ shell' = [shell EXCEPT !.cancel = client.next]

ShellStep ==
  \/ AskDefaults \/ AskInspect \/ AskPrepare \/ AskInstall \/ AskUninstall \/ AskLaunch
  \/ AskOpen \/ AskReload \/ AskUpdate \/ AskProject \/ AskTooMuch \/ AskCancel

-----------------------------------------------------------------------------
(* The server decodes.                                                     *)

Write(more) == lines' = lines \o more

(* run: the key is loaded before the first line is read.                   *)
ServerStarts ==
  /\ server = "down" /\ requests # <<>>
  /\ IF KeyLoads(shell.key)
       THEN server' = "up" /\ UNCHANGED lines
       ELSE /\ server' = "exited"
            /\ Write(<<ErrorLine(0, "trusted_publisher_key_invalid")>>)
  /\ UNCHANGED <<world, shell, client, requests, job, tree>>

Takes(q) ==
  /\ server = "up" /\ requests # <<>> /\ q = Head(requests)
  /\ requests' = Tail(requests)
  /\ UNCHANGED <<world, shell, client, server>>

RequestFails(code) ==
  /\ Write(<<ErrorLine(Head(requests).id, code)>>)
  /\ UNCHANGED <<job, tree>>

NewJob(q) ==
  [at |-> "open", id |-> q.id, method |-> q.method, args |-> Decoded(q), cancel |-> FALSE,
   m |-> disk, action |-> None, done |-> 0, total |-> 0]

Mutations == {"install", "uninstall"}

HandleRequest ==
  LET q == Head(requests) IN
  /\ Takes(q) /\ q.method # "cancel"
  /\ IF q.method # "defaults" /\ job # NoJob THEN RequestFails("busy")
     ELSE IF ~Decodes(q) THEN RequestFails("invalid_params")
     ELSE IF q.method = "defaults"
       THEN \/ RequestFails("defaults_failed")
            \/ Write(<<ResultLine(q.id, [target |-> Host])>>) /\ UNCHANGED <<job, tree>>
     ELSE /\ job' = NewJob(q)
          /\ tree' = IF q.method \in Mutations THEN "before" ELSE tree
          /\ UNCHANGED lines

(* request_cancellation: the running request, unless it is a launch.       *)
HandleCancel ==
  LET q == Head(requests)
      hits == job # NoJob /\ job.id = q.params.requestId /\ job.method # "launch"
  IN  /\ Takes(q) /\ q.method = "cancel"
      /\ IF ~Decodes(q)
           THEN RequestFails("invalid_params")
           ELSE /\ Write(<<ResultLine(q.id, [requestId |-> q.params.requestId, accepted |-> hits])>>)
                /\ job' = IF hits THEN [job EXCEPT !.cancel = TRUE] ELSE job
                /\ UNCHANGED tree

-----------------------------------------------------------------------------
(* The worker: one step of reading, compiling and launching.               *)

Job(methods) == job # NoJob /\ job.method \in methods /\ UNCHANGED <<shell, client, requests, server, others>>

Answer(r) == Write(<<ResultLine(job.id, r)>>) /\ job' = NoJob
Fails(code) == Write(<<ErrorLine(job.id, code)>>) /\ job' = NoJob

(* An error of one of a table's causes, or the panic of the worker.        *)
FailsBy(code, causes) == \E e \in causes \cap DOMAIN code : Fails(code[e])
Panics == Fails("internal_error")
Stops == job.cancel /\ Fails("cancelled")

BundleFails == FailsBy(BundleCode(Fallback[job.method]), DOMAIN BundleCode(None))

(* assess_install: the action, or why there is none.                       *)
ActionOn(i) ==
  CASE i.order = "older" -> "update" [] i.order = "same" -> "repair"
    [] i.order = "newer" -> "downgrade" [] OTHER -> "install"
AssessErrors(m, i, migration, downgrade) ==
  IF m.next # None /\ i.order # "older" THEN {"PublisherRotationDenied"}
  ELSE IF i.migrate /\ ~migration THEN {"PublisherMigrationDenied"}
  ELSE IF i.order = "newer" /\ ~downgrade THEN {"DowngradeDenied"}
  ELSE IF i.order = "other" THEN {"ReinstallMismatch"} ELSE {}

(* What else an installed receipt may be refused for: it is damaged, of    *)
(* another place or publisher, or has a path in another case.              *)
StateErrors(m, i) ==
  IF i = NothingInstalled THEN {}
    ELSE {"InvalidReceipt", "ReceiptMismatch", "PathAliasChanged"}
         \cup {IF m.next # None THEN "PublisherRotationDenied" ELSE "PublisherMismatch"}

Inspect ==
  /\ Job({"inspect"}) /\ UNCHANGED <<disk, installed, tree>>
  /\ \/ Stops \/ Panics \/ BundleFails
     \/ IF Describable(disk) THEN Answer(Described(disk)) ELSE Fails(Fallback.inspect)

(* prepare_install_package, prepare_install: a downgrade is never planned. *)
Plan(status) ==
  [status |-> status, action |-> ActionOn(installed), version |-> installed.version,
   migrate |-> installed.migrate]

Prepare ==
  /\ Job({"prepareInstall"}) /\ UNCHANGED <<disk, installed, tree>>
  /\ \/ Stops \/ Panics \/ BundleFails
     \/ IF disk.print # job.args.expectedFingerprint THEN Fails("package_changed")
        ELSE IF disk.target # Host THEN Fails(InstallCode.UnsupportedTarget)
        ELSE LET errors == AssessErrors(disk, installed, TRUE, FALSE) IN
             \/ FailsBy(InstallCode, PortKinds \cup StateErrors(disk, installed) \cup errors)
             \/ Answer([NoPlan EXCEPT !.status = "recoveryRequired"])
             \/ /\ errors = {}
                /\ \E status \in {"ready", "insufficientSpace"} : Answer(Plan(status))

Launch ==
  /\ Job({"launch"}) /\ UNCHANGED <<disk, installed, tree>>
  /\ Panics \/ FailsBy(LaunchCode, DOMAIN LaunchCode) \/ Answer([id |-> job.args.packageId])

(* The project methods answer with the manifest of what they left on the   *)
(* disk; an init that fails or is cancelled may have made the project.     *)
ProjectAnswer ==
  IF Describable(disk') THEN Answer(Described(disk')) ELSE Fails(Fallback[job.method])
Creates == job.method = "initProject" /\ disk = NoProject /\ disk' = Starter

ProjectFails ==
  /\ \/ job.method # "resolvePayloadPath" /\ Stops
     \/ Panics \/ FailsBy(CompilerCode(Fallback[job.method]), DOMAIN CompilerCode(None))
  /\ UNCHANGED disk \/ Creates
ProjectRead ==
  /\ job.method \in {"validateProject", "buildProject"} /\ disk # NoProject
  /\ disk' = disk /\ ProjectAnswer
ProjectUpdated ==
  /\ job.method = "updateProject" /\ disk.format = 1
  /\ LET m == Updated(disk, job.args.package)
     IN  ValidManifest(m) /\ disk' = m /\ ProjectAnswer
PayloadImported ==
  /\ job.method = "importPayload" /\ disk.files < MaxFiles
  /\ disk' = [disk EXCEPT !.files = @ + 1] /\ ProjectAnswer
PathResolved ==
  job.method = "resolvePayloadPath" /\ UNCHANGED disk /\ Answer([path |-> shell.path])

Project ==
  /\ Job({"initProject", "validateProject", "updateProject", "importPayload", "buildProject",
          "resolvePayloadPath"})
  /\ UNCHANGED <<installed, tree>>
  /\ (Creates /\ ProjectAnswer) \/ ProjectFails \/ ProjectRead \/ ProjectUpdated
     \/ PayloadImported \/ PathResolved

-----------------------------------------------------------------------------
(* The worker: install and uninstall, phase by phase.                      *)

After ==
  [install |-> [open |-> "validating", validating |-> "verifying", verifying |-> "recovering",
                recovering |-> "planning", planning |-> "preflight", preflight |-> "applying",
                applying |-> "committing"],
   uninstall |-> [open |-> "recovering", recovering |-> "loadingReceipt",
                  loadingReceipt |-> "removing", removing |-> "committing"]]

Code == [install |-> InstallCode, uninstall |-> UninstallCode]

(* install_package before install(): errors without an event.              *)
OpenRefuses ==
  /\ job.method = "install" /\ job.at = "open"
  /\ \/ Stops \/ BundleFails
     \/ disk.signer = None /\ ~job.args.allowUnsigned /\ Fails("unsigned_not_allowed")
     \/ disk.print # job.args.expectedFingerprint /\ Fails("package_changed")

(* faulty: the fingerprint is not compared.                                *)
OpensAnother ==
  job.at = "open" /\ job.method = "install" => (disk.signer = None => job.args.allowUnsigned)
Opens ==
  job.at = "open" /\ job.method = "install" =>
    (disk.signer = None => job.args.allowUnsigned) /\ disk.print = job.args.expectedFingerprint

(* What may be wrong before anything was changed: what is wrong of the     *)
(* package, the approvals and the destination, and what may go wrong.      *)
Wrong ==
  CASE job.at = "validating" /\ job.m.target # Host -> {"UnsupportedTarget"}
    [] job.at = "validating" /\ job.m.target = Host ->
         IF job.m.license # Absent /\ ~job.args.acceptLicense THEN {"LicenseNotAccepted"} ELSE {}
    [] job.at = "planning" ->
         AssessErrors(job.m, installed, job.args.allowPublisherMigration,
                      job.args.allowDowngrade /\ job.m.lower)
    [] OTHER -> {}
MayGoWrong ==
  CASE job.at = "planning" -> PortKinds \cup StateErrors(job.m, installed)
    [] job.at \in {"verifying", "recovering", "preflight"} -> PortKinds
    [] job.at = "loadingReceipt" ->
         PortKinds \cup IF installed = NothingInstalled THEN {}
                        ELSE {"InvalidReceipt", "UnsupportedScope", "ReceiptPackageMismatch"}
    [] OTHER -> {}

(* emit_terminal_error, then the error.                                    *)
Terminal(e) == PhaseLine(IF e = "Cancelled" THEN "cancelled" ELSE "failed")
EndsWith(e, before) ==
  /\ Write(before \o <<Terminal(e), ErrorLine(job.id, Code[job.method][e])>>)
  /\ job' = NoJob

CancelPoints ==
  [install |-> {"open", "recovering", "preflight"},
   uninstall |-> {"open"} \cup IF installed = NothingInstalled THEN {} ELSE {"loadingReceipt"}]
Refuse ==
  /\ \E e \in Wrong \cup MayGoWrong : EndsWith(e, <<>>)
  /\ UNCHANGED <<disk, installed, tree>>
CancelEarly ==
  /\ job.cancel /\ job.at \in CancelPoints[job.method] /\ Opens /\ EndsWith("Cancelled", <<>>)
  /\ UNCHANGED <<disk, installed, tree>>

Progress(done) ==
  EventLine(job.id, "progress",
    [files |-> done, totalFiles |-> job'.total,
     size |-> IF job.method = "install" /\ done = job'.total THEN job'.m.size ELSE 0,
     totalSize |-> IF job.method = "install" THEN job'.m.size ELSE 0])

(* The next phase; a plan also has an action and its totals.               *)
Proceed ==
  /\ job.at \in DOMAIN After[job.method] /\ Opens /\ Wrong = {}
  /\ job.at \in {"applying", "removing"} => job.done = job.total
  /\ job.at = "loadingReceipt" => installed # NothingInstalled
  /\ \E obsolete \in (IF job.at = "planning" /\ installed.order = "older" THEN {0, 1} ELSE {0}) :
       job' = [job EXCEPT !.at = After[job.method][job.at],
                          !.m = IF job.at = "open" THEN disk ELSE @,
                          !.action = IF job.at = "planning" THEN ActionOn(installed) ELSE @,
                          !.total = CASE job.at = "planning" -> job.m.files + obsolete
                                      [] job.at = "loadingReceipt" -> installed.files
                                      [] OTHER -> @]
  /\ Write(CASE job.at = "planning" ->
                  <<EventLine(job.id, "action", [action |-> job'.action]), Progress(0)>>
             [] job.at = "loadingReceipt" -> <<Progress(0), PhaseLine("removing")>>
             [] OTHER -> <<PhaseLine(job'.at)>>)
  /\ UNCHANGED <<disk, installed, tree>>

Work ==
  /\ job.at \in {"applying", "removing"}
  /\ \E done \in {1, job.total} : done > job.done /\ job' = [job EXCEPT !.done = done]
  /\ Write(<<Progress(job'.done)>>)
  /\ UNCHANGED <<disk, installed, tree>>

(* rollback: what failed is reported, unless it could not be undone.       *)
RollBack ==
  /\ job.at \in {"applying", "removing", "committing"}
  /\ \E e \in PortKinds \cup IF job.cancel /\ (job.method = "install" \/ job.at = "removing")
                             THEN {"Cancelled"} ELSE {} :
       \/ EndsWith(e, <<PhaseLine("rollingBack")>>) /\ tree' = "before"
       \/ EndsWith("Rollback", <<PhaseLine("rollingBack")>>) /\ tree' = "torn"
  /\ UNCHANGED <<disk, installed>>

InstallResult == [id |-> job.m.id, action |-> job.action, directory |-> job.m.directory,
                  files |-> job.m.files, size |-> job.m.size]
Completes(r) == Write(<<PhaseLine("completed"), ResultLine(job.id, r)>>) /\ job' = NoJob

Finish ==
  /\ job.at = "committing" /\ tree' = "after" /\ UNCHANGED disk
  /\ IF job.method = "install"
       THEN /\ installed' = [order |-> "same", version |-> job.m.version, migrate |-> FALSE,
                             files |-> job.m.files]
            /\ Completes(InstallResult)
       ELSE installed' = NothingInstalled /\ Completes([id |-> job.args.packageId])

NothingToRemove ==
  /\ job.at = "loadingReceipt" /\ installed = NothingInstalled
  /\ tree' = "after" /\ Completes([id |-> job.args.packageId]) /\ UNCHANGED <<disk, installed>>

(* A panic: the engine tries to roll back, and nobody hears if it could.   *)
WorkerPanics ==
  /\ Panics /\ UNCHANGED <<disk, installed>>
  /\ tree' = IF job.at \in {"applying", "removing", "committing"} THEN "unknown" ELSE tree

Mutate ==
  /\ Job(Mutations)
  /\ \/ OpenRefuses /\ UNCHANGED <<disk, installed, tree>>
     \/ Refuse \/ CancelEarly \/ Proceed \/ Work \/ RollBack \/ Finish \/ NothingToRemove \/ WorkerPanics

WorkerStep == Inspect \/ Prepare \/ Launch \/ Project \/ Mutate

-----------------------------------------------------------------------------
(* The client and the shell take what comes back.                          *)

PendingOf(id) == {p \in client.pending : p.id = id}

(* consume_line                                                            *)
Understood(line) ==
  /\ PendingOf(line.id) # {}
  /\ line.type = "error" => ValidMessage(line.message)
  /\ line.type = "event" => \A p \in PendingOf(line.id) : ParsesEvent(p.kind, line)

(* The end of a request: what is shown, where the shell goes on, and what  *)
(* the user was told of an install or uninstall.                           *)
Settled(to, shown, told) ==
  [shell EXCEPT !.id = 0, !.at = to, !.shown = shown,
                !.told = IF shell.last \in Mutations THEN told ELSE @]

(* finish_install, finish_uninstall, refresh_selection: these codes ask    *)
(* for a new plan, and a plan that does not come is not an error.          *)
Refreshing == {"cancelled", "rollback_failed", "state_conflict", "publisher_migration_required",
               "insufficient_space"}
AfterError(code) ==
  CASE shell.at \in {"ready", "bound"} -> "new"
    [] shell.at = "refresh" -> "planned"
    [] shell.at = "reselect" -> "lost"
    [] shell.last = "install" /\ code \in Refreshing -> "refresh"
    [] OTHER -> shell.at
ErrorComes(code) ==
  Settled(AfterError(code), IF shell.at \in {"refresh", "reselect"} THEN shell.shown ELSE code, code)

Planned(plan) == [Settled("planned", shell.shown, None) EXCEPT !.plan = plan]
Repairs == [status |-> "ready", action |-> "repair", version |-> shell.bound.version, migrate |-> FALSE]

Accepts(r) ==
  CASE shell.last = "defaults" -> r.target = Host
    [] shell.last = "inspect" -> r.target = Host /\ AcceptsPackage(r)
    [] shell.last = "prepareInstall" -> AcceptsPlan(r)
    [] shell.last = "install" -> AcceptsInstall(r, shell.plan, shell.bound)
    [] shell.last \in {"uninstall", "launch"} -> AcceptsId(r, shell.bound)
    [] shell.last = "resolvePayloadPath" -> TRUE
    [] OTHER -> AcceptsProject(r)

ResultComes(r) ==
  IF ~Accepts(r) THEN [ErrorComes("invalid_backend_output") EXCEPT !.refused = {r}]
  ELSE CASE shell.last = "defaults" -> Settled("ready", None, None)
         [] shell.last = "inspect" -> [Settled("bound", None, None) EXCEPT !.bound = r]
         [] shell.last = "prepareInstall" -> Planned(r)
         [] shell.last = "install" -> [Settled("planned", None, "done") EXCEPT !.plan = Repairs]
         [] shell.last = "uninstall" -> [Settled("reselect", None, "done") EXCEPT !.plan = NoPlan]
         [] shell.last \in {"launch", "resolvePayloadPath"} -> Settled(shell.at, None, None)
         [] OTHER -> [Settled("open", None, None) EXCEPT !.bound = r]

ReadLine ==
  /\ client.up /\ lines # <<>> /\ lines' = Tail(lines) /\ Understood(Head(lines))
  /\ LET line == Head(lines) IN
     IF line.type = "event" THEN UNCHANGED <<client, shell>>
     ELSE /\ client' = [client EXCEPT !.pending = @ \ PendingOf(line.id)]
          /\ shell' = IF line.id = shell.cancel THEN [shell EXCEPT !.cancel = 0]
                      ELSE IF line.type = "error" THEN ErrorComes(Public(line.code))
                      ELSE ResultComes(line.result)
  /\ UNCHANGED <<world, requests, server, job, tree>>

(* BackendProcess::fail: every request ends with the reason.               *)
ClientFails ==
  /\ client.up /\ lines # <<>> /\ ~Understood(Head(lines))
  /\ LET line == Head(lines)
         code == IF line.id = 0 THEN line.code ELSE "invalid_backend_output"
     IN  shell' = [ErrorComes(Public(code)) EXCEPT !.cancel = 0]
  /\ client' = [client EXCEPT !.up = FALSE, !.pending = {}]
  /\ lines' = <<>>
  /\ UNCHANGED <<world, requests, server, job, tree>>

ClientStep == ReadLine \/ ClientFails

-----------------------------------------------------------------------------
(* Another process installs or replaces the file between two requests.     *)
OthersInstall ==
  /\ \E s \in Starts : s.installed # installed /\ installed' = s.installed
  /\ UNCHANGED disk
FileReplaced ==
  /\ disk' \in Replacements
  /\ UNCHANGED installed
OthersStep ==
  /\ shell.app = "setup" /\ others < MaxOthers /\ job = NoJob
  /\ others' = others + 1
  /\ OthersInstall \/ FileReplaced
  /\ UNCHANGED <<shell, client, requests, server, job, tree, lines>>

Init ==
  \E s \in Starts :
    /\ disk = s.disk /\ installed = s.installed /\ others = 0
    /\ shell = [app |-> s.app, path |-> s.path, key |-> s.key, asks |-> s.asks, at |-> "new", id |-> 0, cancel |-> 0,
                last |-> None, bound |-> NoProject, plan |-> NoPlan, shown |-> None, told |-> None,
                refused |-> {}, agreed |-> NoConsent]
    /\ client = [up |-> TRUE, next |-> 1, pending |-> {}]
    /\ requests = <<>> /\ server = "down" /\ job = NoJob /\ tree = "before" /\ lines = <<>>

-----------------------------------------------------------------------------
(* Properties.                                                             *)

(* The client of a CLI that could start never takes what the CLI writes    *)
(* for the output of something else: every line is an event of a phase the *)
(* kind of request has, an error with a text of legal length, or a result, *)
(* for a request that is open (BackendProcess::consume_line against the    *)
(* writers of stdio.rs).                                                   *)
HealthyStaysUp == client.up \/ ~KeyLoads(shell.key)

(* The CLI understands every request of the shell, save for a path longer  *)
(* than it allows and a form whose id, version or paths do not parse       *)
(* (decode_params against the requests of setup.rs and studio.rs).         *)
RequestsAreUnderstood ==
  \A i \in DOMAIN requests :
    \/ Decodes(requests[i])
    \/ shell.path > MaxPath
    \/ requests[i].method = "updateProject" /\ ~requests[i].params.package.parses

(* The shell takes every result of the CLI, except where the two are known *)
(* to disagree: a directory or a description that only the format allows,  *)
(* a package for another platform, an installed version of a length that   *)
(* no result is checked for, and a destination that others changed.        *)
Disagreement(r) ==
  CASE shell.last = "prepareInstall" -> r.version.bytes > MaxMessage
    [] shell.last = "install" -> others > 0
    [] shell.last \in {"defaults", "uninstall", "launch"} -> FALSE
    [] OTHER -> \/ r.directory > 255
                \/ shell.last = "inspect" /\ r.target # Host
                \/ shell.last # "inspect" /\ r.description.bytes > MaxMessage
AnswersAreAccepted == \A r \in shell.refused : Disagreement(r)

(* The two ends of the pipe, which check each line by rules of their own,  *)
(* agree on what may cross it, at every limit and in every session         *)
(* (stdio.rs against protocol.rs, client.rs, setup.rs and studio.rs).      *)
EndsAgree == HealthyStaysUp /\ RequestsAreUnderstood /\ AnswersAreAccepted

(* An install that changes the destination installs the package that was   *)
(* shown, with each consent that this package and what is installed call   *)
(* for given by the user, and never a version that is lower (fingerprint,  *)
(* consents and defaults on their way from Setup to the engine).           *)
OnlyWhatWasAgreed ==
  job # NoJob /\ job.method = "install" /\ job.at \in {"applying", "committing"} =>
    /\ job.m.print = shell.bound.print
    /\ job.m.signer = None => shell.agreed.unsigned
    /\ job.m.license # Absent => shell.agreed.license
    /\ installed.migrate => shell.agreed.migration
    /\ installed.order # "newer"

(* What the user is told of an install or uninstall is what happened to    *)
(* the destination: success, a rollback that failed, and a change that was *)
(* undone are told apart (error codes on their way to the screen).         *)
FailureIsTold ==
  shell.told # None =>
    /\ shell.told = "done" => tree = "after"
    /\ shell.told = "rollback_failed" <=> tree = "torn"
    /\ tree = "after" /\ shell.told # "done" => shell.told = "invalid_backend_output"
    /\ tree = "unknown" => shell.told = "internal_error"

-----------------------------------------------------------------------------
Next == ShellStep \/ ServerStarts \/ HandleRequest \/ HandleCancel \/ WorkerStep \/ ClientStep \/ OthersStep
Spec == Init /\ [][Next]_vars
=============================================================================
