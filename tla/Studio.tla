------------------------------- MODULE Studio -------------------------------
(***************************************************************************)
(* The Studio window over Authoring: the renderer (use-studio.ts,          *)
(* StudioApp.tsx) shows a project and holds a draft of its settings, the   *)
(* shell (studio.rs) keeps the active project and runs one command at a    *)
(* time, each a native dialog, a request to the backend, or both.          *)
(***************************************************************************)
EXTENDS Authoring

CONSTANTS
  Here, Elsewhere,  \* the project directory and one without a project
  Pickable,         \* the files the entry point dialog offers
  ImportChoices     \* the selections the import dialogs offer

\* A dialog picks what lies outside of the payload: files, or the directory.
ASSUME StudioAssumption ==
  /\ Here # Elsewhere /\ Pickable \subseteq Files
  /\ ImportChoices \subseteq SUBSET (Entries \ Inside)

VARIABLES
  active,  \* StudioState::active: a summary or Nothing
  cmd,     \* the command under way: its kind, where it is, its result
  view,    \* StudioView: its kind and the project it shows
  draft    \* the form of ProjectView

vars == <<project, job, edits, faults, active, cmd, view, draft>>
studio == <<active, cmd, view, draft>>

Commands == {"create", "open", "reload", "update", "import", "entrypoint", "build", "reveal"}
Dialogs  == {"create", "open", "import", "entrypoint", "build"}

\* What from_backend keeps of a project.
Summary(path, c) == [path |-> path, settings |-> c.settings, entry |-> c.entry, signed |-> c.signed]

NoCommand == [kind |-> "none", pc |-> "idle", path |-> Nothing, input |-> Nothing, result |-> Nothing,
              previous |-> Nothing, typed |-> FALSE]
Empty == [kind |-> "empty", project |-> Nothing]

Form(p) == IF p = Nothing THEN Nothing ELSE [settings |-> p.settings, entry |-> p.entry]
Dirty   == draft # Form(view.project)
Busy    == cmd.kind # "none"

StudioInit ==
  AuthoringInit /\ active = Nothing /\ cmd = NoCommand /\ view = Empty /\ draft = Nothing

-----------------------------------------------------------------------------
(* The renderer. *)

\* ProjectView is unmounted while a project is created or opened, and with it
\* the draft goes.
Shown(kind) == CASE kind \in {"create", "open"} -> [kind |-> "loading", project |-> Nothing]
                 [] kind = "reveal" -> view
                 [] OTHER -> [view EXCEPT !.kind = kind]

\* The buttons of StudioApp and the guards of useStudio.
Offered(kind) ==
  CASE kind \in {"create", "open"} -> TRUE
    [] kind \in {"reload", "reveal"} -> view.project # Nothing
    [] kind = "update" -> view.project # Nothing /\ ~view.project.signed /\ Dirty
    [] kind = "entrypoint" -> view.project # Nothing /\ ~view.project.signed
    [] OTHER -> view.project # Nothing /\ ~view.project.signed /\ ~Dirty

Click(kind) ==
  /\ ~Busy /\ Offered(kind)
  /\ cmd' = [NoCommand EXCEPT !.kind = kind, !.pc = "shell", !.previous = view,
                             !.input = IF kind = "update" THEN draft ELSE Nothing]
  /\ view' = Shown(kind)
  /\ draft' = IF kind \in {"create", "open"} THEN Nothing ELSE draft
  /\ UNCHANGED <<project, job, edits, faults, active>>

\* The fields stay enabled while a command runs.
Type ==
  /\ view.project # Nothing
  /\ \/ \E s \in Settings : draft' = [draft EXCEPT !.settings = s]
     \/ draft' = [draft EXCEPT !.entry = Nothing]
  /\ draft' # draft
  /\ cmd' = IF Busy THEN [cmd EXCEPT !.typed = TRUE] ELSE cmd
  /\ UNCHANGED <<project, job, edits, faults, active, view>>

\* The button of an error, which stays where it was while a folder is revealed.
Dismiss ==
  /\ view.kind = "error"
  /\ view' = IF view.project = Nothing THEN Empty ELSE [view EXCEPT !.kind = "ready"]
  /\ UNCHANGED <<project, job, edits, faults, active, cmd, draft>>

\* A new project object resets the form, the same one does not.
Settles(v) == /\ view' = v
              /\ draft' = IF v.project = view.project THEN draft ELSE Form(v.project)

\* The promise of a command settles: with a result, with null after a cancelled
\* dialog, or with an error, which keeps the project that was shown.
Answered(kinds, pc) == cmd.kind \in kinds /\ cmd.pc = pc /\ cmd' = NoCommand
Old == cmd.previous.project
Becomes(kind) == view' = [kind |-> kind, project |-> cmd.result] /\ draft' = Form(cmd.result)

ErrorSettles  == Answered(Commands, "error") /\ Settles([kind |-> "error", project |-> Old])
LoadSettles   == \/ Answered({"create", "open"}, "ok") /\ Becomes("ready")
                 \/ Answered({"create", "open"}, "null") /\ Settles(cmd.previous)
ReloadSettles == Answered({"reload"}, "ok") /\ Becomes("ready")
UpdateSettles == Answered({"update"}, "ok") /\ Becomes("ready")
ImportSettles == \/ Answered({"import"}, "ok") /\ Becomes("ready")
                 \/ Answered({"import"}, "null") /\ Settles([kind |-> "ready", project |-> Old])
BuildSettles  == \/ Answered({"build"}, "ok") /\ Becomes("built")
                 \/ Answered({"build"}, "null") /\ Settles(cmd.previous)
RevealSettles == Answered({"reveal"}, "ok") /\ UNCHANGED <<view, draft>>
\* The chosen path goes into the form as it is by then.
EntrypointSettles ==
  /\ Answered({"entrypoint"}, "ok") \/ Answered({"entrypoint"}, "null")
  /\ view' = [kind |-> "ready", project |-> Old]
  /\ draft' = IF cmd.pc = "ok" THEN [draft EXCEPT !.entry = cmd.result] ELSE draft

Settle == /\ \/ ErrorSettles \/ LoadSettles \/ ReloadSettles \/ UpdateSettles \/ ImportSettles
             \/ BuildSettles \/ RevealSettles \/ EntrypointSettles
          /\ UNCHANGED <<project, job, edits, faults, active>>

-----------------------------------------------------------------------------
(* The shell.  The guard of the command is held until it answers. *)

Answers(pc, result) == cmd' = [cmd EXCEPT !.pc = pc, !.result = result]

\* What the commands ask of the active project.
HasProject(kind) == kind \notin {"create", "open"} => active # Nothing
MayChange(kind)  == kind \notin {"create", "open", "reload", "reveal"} => ~active.signed
Accepted(kind)   == HasProject(kind) /\ MayChange(kind)

Asked(kinds) == cmd.pc = "shell" /\ cmd.kind \in kinds /\ Accepted(cmd.kind)

Sent(path, kind, arg) ==
  /\ cmd' = [cmd EXCEPT !.pc = "backend", !.path = path]
  /\ job' = IF path = Elsewhere THEN [NewJob(kind, arg) EXCEPT !.pc = "error"] ELSE NewJob(kind, arg)

Refused == /\ cmd.pc = "shell" /\ ~Accepted(cmd.kind)
           /\ Answers("error", Nothing) /\ UNCHANGED <<job, active>>
Reveal  == /\ Asked({"reveal"}) /\ \E pc \in {"ok", "error"} : Answers(pc, Nothing)
           /\ UNCHANGED <<job, active>>
Reload  == Asked({"reload"}) /\ Sent(active.path, "validate", Nothing) /\ UNCHANGED active
Update  == Asked({"update"}) /\ Sent(active.path, "update", cmd.input) /\ UNCHANGED active

OpenDialog == /\ Asked(Dialogs) /\ cmd' = [cmd EXCEPT !.pc = "dialog"] /\ UNCHANGED <<job, active>>
Cancelled  == /\ cmd.pc = "dialog" /\ Answers("null", Nothing) /\ UNCHANGED <<job, active>>

\* The user has picked something and the request is sent.
Picks(kind) == cmd.pc = "dialog" /\ cmd.kind = kind

\* A plausible bug: the chosen directory becomes active at once.
faultyChosen(path) == active' = [path |-> path, settings |-> First, entry |-> Nothing, signed |-> FALSE]
Chosen(path) == UNCHANGED active

PickNew    == Picks("create") /\ Sent(Here, "init", Nothing) /\ UNCHANGED active
PickOld    == \E path \in {Here, Elsewhere} :
                Picks("open") /\ Sent(path, "validate", Nothing) /\ Chosen(path)
PickImport == /\ \E s \in ImportChoices : Picks("import") /\ Sent(active.path, "import", s)
              /\ UNCHANGED active
PickEntry  == /\ \E f \in Pickable : Picks("entrypoint") /\ Sent(active.path, "resolve", f)
              /\ UNCHANGED active
PickOutput == Picks("build") /\ Sent(active.path, "build", Nothing) /\ UNCHANGED active

\* The backend answers, or is found dead: only a success changes what is active.
Finish ==
  /\ cmd.pc = "backend" /\ job.pc \in {"idle", "ok", "error", "stuck"} /\ job' = NoJob
  /\ IF job.pc # "ok" THEN Answers("error", Nothing) /\ UNCHANGED active
     ELSE IF cmd.kind = "entrypoint" THEN Answers("ok", job.arg) /\ UNCHANGED active
     ELSE LET summary == Summary(cmd.path, job.candidate)
          IN  active' = summary /\ Answers("ok", summary)

ShellStep == /\ \/ Refused \/ Reveal \/ Reload \/ Update \/ OpenDialog \/ Cancelled
                \/ PickNew \/ PickOld \/ PickImport \/ PickEntry \/ PickOutput \/ Finish
             /\ UNCHANGED <<project, edits, faults, view, draft>>

\* The window is closed, which ends the backend, and Studio is started again.
Reopen ==
  /\ view # Empty /\ faults < MaxFaults /\ faults' = faults + 1
  /\ job' = NoJob /\ active' = Nothing /\ cmd' = NoCommand /\ view' = Empty /\ draft' = Nothing
  /\ UNCHANGED <<project, edits>>

Next ==
  \/ \E kind \in Commands : Click(kind)
  \/ Type \/ Dismiss \/ Settle
  \/ ShellStep \/ Reopen
  \/ (JobStep \/ StepFails \/ Kill \/ UserEditsFile \/ UserEditsFolder \/ UserEditsConfig) /\ UNCHANGED studio

Spec == StudioInit /\ [][Next]_vars

-----------------------------------------------------------------------------
(* Properties. *)

\* studio.rs, use-studio.ts: between commands the window shows the project that
\* is active, and after a build the one the bundle at the output was built from.
ScreenAgrees ==
  ~Busy => /\ view.project # Nothing => active = view.project
           /\ view.kind = "built" => Summary(Here, output.config) = view.project
=============================================================================
