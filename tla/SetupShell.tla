----------------------------- MODULE SetupShell -----------------------------
(***************************************************************************)
(* The Rust side of the Setup window (luxury-installer setup.rs, app.rs,   *)
(* lib.rs): commands run on threads of their own behind one startup gate,  *)
(* every operation has a completion thread, and closing the window races   *)
(* with all of them.  The operation itself is the backend's for user scope *)
(* and the privileged helper's for system scope; here it runs and ends.    *)
(***************************************************************************)
EXTENDS Integers, Sequences, FiniteSets

CONSTANTS
  Ops,            \* operations, in the order they are started
  None,
  Scopes,         \* install scopes of the package
  Installed,      \* bound: what is installed at first
  MaxCloses,      \* bound: requests to close the window
  MaxSpawnFaults  \* bound: completion threads that cannot be created

Commands == {"bootstrap", "choose", "install", "uninstall", "launch", "link", "cancel"}
Starts   == {"install", "uninstall"}

ASSUME ShellAssumption ==
  /\ IsFiniteSet(Ops) /\ None \notin Ops \cup Commands
  /\ Scopes \subseteq {"user", "system"} /\ Scopes # {}
  /\ Installed \subseteq {"absent", "current", "legacy", "recovery"}
  /\ MaxCloses \in Nat /\ MaxSpawnFaults \in Nat

(* What a preparation reports: nothing installed, this publisher's package, *)
(* one whose publisher has to be migrated, or a transaction to be recovered;*)
(* and whether there is room.                                              *)
Trees      == {"absent", "current", "legacy", "recovery"}
Selections == [class : Trees, space : BOOLEAN]

\* "conflict" stands for the errors after which Setup looks at the tree again:
\* rollback_failed, state_conflict and insufficient_space.
Codes      == {"ok", "cancelled", "conflict", "migration_required", "other"}

VARIABLES
  scope, tree,          \* the package's scope and what is installed
  context, loader,      \* AppState::setup and the command that holds its mutex
  gate, dialog,         \* starting, dialog_open
  active, selection,    \* of the SetupContext
  installCompleted,
  closeStarted, closeReady,
  closer, doomed,       \* the closing thread and the operation it shuts down
  backendOpen, window,
  op,                   \* operations with their completion threads
  cmd,                  \* command threads
  events,               \* operation events on their way to the renderer
  closes, faults        \* bounds

shell == <<scope, tree, context, loader, gate, dialog, active, selection, installCompleted,
           closeStarted, closeReady, closer, doomed, backendOpen, window, op, cmd, events,
           closes, faults>>

closing  == <<closeStarted, closeReady, closer, doomed, backendOpen, window, closes>>
store    == <<context, loader, selection>>
running  == <<tree, op>>

Open == window = "open"

IdleCommand == [pc |-> "idle", consent |-> FALSE, op |-> None, review |-> None]
NewOp == [kind |-> None, state |-> "new", code |-> None, fresh |-> FALSE, cancel |-> FALSE,
          consent |-> FALSE, sel |-> None, told |-> FALSE, completed |-> FALSE,
          thread |-> "none", review |-> None]

Running(o) == op[o].state = "running"

-----------------------------------------------------------------------------
(* Reviews and preparations. *)

Review(s) == [class |-> s.class, space |-> s.space, removable |-> s.class \in {"current", "legacy"}]

\* "Nothing" is neither a selection nor a review.
ASSUME NoneAssumption ==
  None \notin Selections \cup [class : Trees, space : BOOLEAN, removable : BOOLEAN]

MigrationRequired(s) == s.class = "legacy"

\* prepare_selection: the backend or the helper looks at what is installed, and
\* answers "busy" while it changes that.  Room may come and go.
Prepared == {[class |-> tree, space |-> e] : e \in IF tree = "recovery" THEN {TRUE} ELSE BOOLEAN}
CanPrepare == (scope = "user" => backendOpen) /\ \A o \in Ops : ~Running(o)

-----------------------------------------------------------------------------
(* Commands.  The thread of a command goes through its steps; where it      *)
(* returns, what it holds is dropped and the answer waits for the renderer. *)

At(c, pc) == Open /\ cmd[c].pc = pc
Goes(c, pc) == cmd' = [cmd EXCEPT ![c].pc = pc]

Issued(c, consent) == [IdleCommand EXCEPT !.pc = "context", !.consent = consent]

\* The thread returns: the guards of the gate and of the dialog drop.
Answers(c, result, review) ==
  /\ cmd' = [cmd EXCEPT ![c] =
       [@ EXCEPT !.pc = result, !.consent = FALSE, !.review = review,
                 !.op = IF c \in Starts /\ result = "ok" THEN cmd[c].op ELSE None]]
  /\ gate' = IF gate = c THEN None ELSE gate
  /\ dialog' = (dialog /\ gate # c)

Fails(c) == Answers(c, "error", None)

\* setup_context: clone the context, or load the package with the mutex held.
\* The first look of bootstrap_review releases the mutex in between.
TakeContext(c) ==
  /\ loader = None
  /\ \/ /\ At(c, "context") /\ context = "ready"
        /\ Goes(c, IF c = "cancel" THEN "active" ELSE "gate") /\ UNCHANGED loader
     \/ /\ At(c, "context") /\ context = "none"
        /\ IF c = "bootstrap" THEN Goes(c, "again") /\ UNCHANGED loader
                              ELSE Goes(c, "load") /\ loader' = c
     \/ /\ At(c, "again") /\ context = "none" /\ Goes(c, "load") /\ loader' = c
     \/ /\ At(c, "again") /\ context = "ready" /\ Goes(c, "review") /\ UNCHANGED loader
  /\ UNCHANGED <<scope, running, context, gate, dialog, active, selection, installCompleted,
                 closing, events, faults>>

\* build_setup_context, with the first preparation.
Loaded(c) ==
  /\ CanPrepare /\ backendOpen /\ context' = "ready"
  /\ \E s \in Prepared : selection' = s
  /\ Goes(c, CASE c = "bootstrap" -> "review" [] c = "cancel" -> "active" [] OTHER -> "gate")
  /\ UNCHANGED <<gate, dialog>>

\* The package is not the one the build is bound to, or breaks a bound of
\* BoundPackage, or the backend does not answer.
LoadFails(c) == Fails(c) /\ UNCHANGED <<context, selection>>

Load(c) ==
  /\ At(c, "load") /\ loader' = None
  /\ Loaded(c) \/ LoadFails(c)
  /\ UNCHANGED <<scope, running, active, installCompleted, closing, events, faults>>

\* review of a context that was built just now: the gate is not asked.
FirstReview(c) ==
  /\ At(c, "review")
  /\ IF selection = None THEN Fails(c) ELSE Answers(c, "ok", Review(selection))
  /\ UNCHANGED <<scope, running, store, active, installCompleted, closing, events, faults>>

\* acquire_idle: the startup gate first, then close_started, then what is active.
EnterGate(c) ==
  /\ At(c, "gate")
  /\ IF gate # None THEN Fails(c) ELSE gate' = c /\ Goes(c, "closing") /\ UNCHANGED dialog
  /\ UNCHANGED <<scope, running, store, active, installCompleted, closing, events, faults>>

CheckClosing(c) ==
  /\ At(c, "closing")
  /\ IF closeStarted THEN Fails(c) ELSE Goes(c, "idleness") /\ UNCHANGED <<gate, dialog>>
  /\ UNCHANGED <<scope, running, store, active, installCompleted, closing, events, faults>>

Idle(c) == ~dialog /\ active = None

\* What the command needs before its first effect: its selection, and the checks
\* of start_install, start_uninstall, choose_directory and open_finish_link.
Allowed(c) ==
  CASE c = "link"      -> installCompleted
    [] c = "choose"    -> scope = "user" /\ selection # None
    [] c = "launch"    -> scope = "user" => selection # None
    [] c = "bootstrap" -> selection # None
    [] c = "uninstall" -> selection # None /\ Review(selection).removable
    [] c = "install"   -> /\ selection # None /\ selection.space
                          /\ cmd[c].consent = MigrationRequired(selection)

CheckIdle(c) ==
  /\ At(c, "idleness")
  /\ IF Idle(c) /\ Allowed(c)
     THEN /\ Goes(c, CASE c = "choose" -> "dialog" [] c = "bootstrap" -> "prepare"
                       [] c \in Starts -> "start" [] OTHER -> "act")
          /\ dialog' = (dialog \/ c = "choose")
          /\ installCompleted' = (installCompleted /\ c # "install")
          /\ UNCHANGED gate
     ELSE Fails(c) /\ UNCHANGED installCompleted
  /\ UNCHANGED <<scope, running, store, active, closing, events, faults>>

\* The folder dialog: the user picks a folder or gives up.
DialogEnds(c) ==
  /\ At(c, "dialog")
  /\ (Goes(c, "prepare") /\ UNCHANGED <<gate, dialog>>) \/ Answers(c, "nothing", None)
  /\ UNCHANGED <<scope, running, store, active, installCompleted, closing, events, faults>>

\* faulty: the selection is taken out while its successor is prepared.
PrepareByTaking(c) ==
  /\ At(c, "prepare")
  /\ \/ CanPrepare /\ \E s \in Prepared : selection' = s /\ Answers(c, "ok", Review(s))
     \/ Fails(c) /\ selection' = None
  /\ UNCHANGED <<scope, running, context, loader, active, installCompleted, closing, events, faults>>

\* refresh_selection, or the preparation for a chosen folder.
Prepare(c) ==
  /\ At(c, "prepare")
  /\ \/ CanPrepare /\ \E s \in Prepared : selection' = s /\ Answers(c, "ok", Review(s))
     \/ Fails(c) /\ UNCHANGED selection
  /\ UNCHANGED <<scope, running, context, loader, active, installCompleted, closing, events, faults>>

\* launch_installed and open_finish_link hand over to the system.
Act(c) ==
  /\ At(c, "act")
  /\ Answers(c, "ok", None) \/ Fails(c)
  /\ UNCHANGED <<scope, running, store, active, installCompleted, closing, events, faults>>

-----------------------------------------------------------------------------
(* start_install_sync and start_uninstall_sync after their checks.          *)

\* An operation that meets another one is refused and changes nothing.
StartOperation(c) ==
  /\ At(c, "start")
  /\ \/ /\ scope = "user" => backendOpen
        /\ \E o \in Ops :
             /\ op[o].state = "new"
             /\ cmd' = [cmd EXCEPT ![c].pc = "publish", ![c].op = o]
             /\ op' = [op EXCEPT ![o] = [NewOp EXCEPT
                  !.kind = c, !.sel = selection, !.consent = cmd[c].consent,
                  !.state = IF \E p \in Ops : Running(p) THEN "ended" ELSE "running",
                  !.code = IF \E p \in Ops : Running(p) THEN "other" ELSE None]]
        /\ UNCHANGED <<gate, dialog>>
     \/ Fails(c) /\ UNCHANGED op
  /\ UNCHANGED <<scope, tree, store, active, installCompleted, closing, events, faults>>

\* The operation becomes the active one, and only then the gate opens.
Publish(c) ==
  /\ At(c, "publish") /\ active' = cmd[c].op /\ Goes(c, "release")
  /\ UNCHANGED <<scope, running, store, gate, dialog, installCompleted, closing, events, faults>>

Release(c) ==
  /\ At(c, "release") /\ gate' = None /\ Goes(c, "spawn")
  /\ UNCHANGED <<scope, running, store, dialog, active, installCompleted, closing, events, faults>>

\* The completion thread starts, or cannot be created.
Spawn(c) ==
  /\ At(c, "spawn")
  /\ \/ /\ op' = [op EXCEPT ![cmd[c].op].thread = "receive"]
        /\ Answers(c, "ok", None) /\ UNCHANGED faults
     \/ /\ faults < MaxSpawnFaults /\ faults' = faults + 1
        /\ Goes(c, "disown") /\ UNCHANGED <<op, gate, dialog>>
  /\ UNCHANGED <<scope, tree, store, active, installCompleted, closing, events>>

\* clear_active: the operation is no longer active and whoever waits for its
\* completion goes on.
Cleared(o) == /\ active' = IF active = o THEN None ELSE active
              /\ op' = [op EXCEPT ![o].completed = @ \/ active = o]

Disown(c) ==
  /\ At(c, "disown") /\ Cleared(cmd[c].op) /\ Goes(c, "revoke")
  /\ UNCHANGED <<scope, tree, store, gate, dialog, installCompleted, closing, events, faults>>

\* A cancellation reaches an operation that runs; the helper's flag is set in
\* any case, and the backend rejects one for an operation that has ended.
CancelSent(o) == op' = [op EXCEPT ![o].cancel = @ \/ Running(o)]

\* faulty: an operation without a completion thread is left alone.
ForgetOrphan(c) ==
  /\ At(c, "revoke") /\ Fails(c) /\ UNCHANGED op
  /\ UNCHANGED <<scope, tree, store, active, installCompleted, closing, events, faults>>

Revoke(c) ==
  /\ At(c, "revoke") /\ CancelSent(cmd[c].op) /\ Fails(c)
  /\ UNCHANGED <<scope, tree, store, active, installCompleted, closing, events, faults>>

-----------------------------------------------------------------------------
(* cancel_operation: whatever is active when the thread looks.              *)

FindActive(c) ==
  /\ At(c, "active")
  /\ IF active = None THEN Answers(c, "ok", None)
                      ELSE /\ cmd' = [cmd EXCEPT ![c].pc = "send", ![c].op = active]
                           /\ UNCHANGED <<gate, dialog>>
  /\ UNCHANGED <<scope, running, store, active, installCompleted, closing, events, faults>>

SendCancel(c) ==
  /\ At(c, "send")
  /\ \/ CancelSent(cmd[c].op) /\ Answers(c, "ok", None)
     \/ scope = "user" /\ Fails(c) /\ UNCHANGED op
  /\ UNCHANGED <<scope, tree, store, active, installCompleted, closing, events, faults>>

-----------------------------------------------------------------------------
(* The operation and its completion thread.                                 *)

\* A transaction that waits for recovery turns out one way or the other.
Resolved == IF tree = "recovery" THEN {"absent", "current", "legacy"} ELSE {tree}

Ends(o) ==
  /\ Open /\ Running(o)
  /\ \E r \in Resolved, code \in Codes :
       /\ op' = [op EXCEPT ![o].state = "ended", ![o].code = code, ![o].fresh = (r = "absent")]
       /\ CASE code = "ok" -> /\ (op[o].kind = "install" /\ r = "legacy") => op[o].consent
                              /\ tree' = IF op[o].kind = "install" THEN "current" ELSE "absent"
            [] code = "cancelled" -> op[o].cancel /\ tree' = r
            [] code = "migration_required" ->
                 op[o].kind = "install" /\ r = "legacy" /\ ~op[o].consent /\ tree' = r
            [] code \in {"conflict", "other"} -> tree' \in {r, "recovery"}
  /\ UNCHANGED <<scope, store, gate, dialog, active, installCompleted, closing, cmd, events, faults>>

InThread(o, pc) == Open /\ op[o].thread = pc
Emits(o, kind, review) ==
  events' = Append(events, [op |-> o, kind |-> kind, code |-> op[o].code, review |-> review])

\* emit_backend_event passes on what the active operation reports.
PassEvent(o) ==
  /\ InThread(o, "receive") /\ Running(o) /\ ~op[o].told /\ active = o
  /\ op' = [op EXCEPT ![o].told = TRUE] /\ Emits(o, "progress", None)
  /\ UNCHANGED <<scope, tree, store, gate, dialog, active, installCompleted, closing, cmd, faults>>

\* validate_install_result: the action is the one that was prepared.
ActionMatches(o) ==
  op[o].sel.class = "recovery" \/ (op[o].sel.class = "absent") = op[o].fresh

Refreshing == {"cancelled", "conflict", "migration_required"}

\* finish_install and finish_uninstall up to the first slow call.
TakeResult(o) ==
  /\ InThread(o, "receive") /\ op[o].state = "ended"
  /\ LET install == op[o].kind = "install"
         ok == op[o].code = "ok" /\ (install => ActionMatches(o))
     IN /\ op' = [op EXCEPT
             ![o].code = IF op[o].code = "ok" /\ ~ok THEN "other" ELSE @,
             ![o].thread =
                IF active # o THEN "ended"
                ELSE CASE ok /\ install -> "cache"
                       [] ok /\ ~install -> "prepare"
                       [] ~ok /\ install /\ ~closeStarted /\ op[o].code \in Refreshing -> "refresh"
                       [] OTHER -> "clear"]
        /\ installCompleted' = (installCompleted /\ ~(active = o /\ ok /\ ~install))
  /\ UNCHANGED <<scope, tree, store, gate, dialog, active, closing, cmd, events, faults>>

\* cache_installed_selection
CacheSelection(o) ==
  /\ InThread(o, "cache")
  /\ LET s == [class |-> "current", space |-> TRUE]
     IN /\ selection' = s
        /\ op' = [op EXCEPT ![o].thread = "clear", ![o].review = Review(s)]

\* refresh_selection after some errors; when it fails there is no review.
RefreshSelection(o) ==
  /\ InThread(o, "refresh")
  /\ \/ /\ CanPrepare
        /\ \E s \in Prepared :
             /\ selection' = s
             /\ op' = [op EXCEPT ![o].thread = "clear", ![o].review = Review(s)]
     \/ op' = [op EXCEPT ![o].thread = "clear"] /\ UNCHANGED selection

\* What is selected after an uninstall; nothing when the preparation fails.
PrepareAgain(o) ==
  /\ InThread(o, "prepare")
  /\ selection' \in IF scope = "system" THEN {[class |-> "absent", space |-> TRUE]}
                    ELSE {None} \cup (IF CanPrepare THEN Prepared ELSE {})
  /\ op' = [op EXCEPT ![o].thread = "clear"]

Reselect(o) ==
  /\ CacheSelection(o) \/ RefreshSelection(o) \/ PrepareAgain(o)
  /\ UNCHANGED <<scope, tree, context, loader, gate, dialog, active, installCompleted, closing,
                 cmd, events, faults>>

Clear(o) ==
  /\ InThread(o, "clear")
  /\ active' = IF active = o THEN None ELSE active
  /\ op' = [op EXCEPT ![o].completed = @ \/ active = o,
              ![o].thread = IF op[o].code = "ok" /\ op[o].kind = "install" THEN "flag" ELSE "emit"]
  /\ UNCHANGED <<scope, tree, store, gate, dialog, installCompleted, closing, cmd, events, faults>>

\* faulty: the event is emitted before the flag is set.
FlagLater(o) ==
  /\ \/ InThread(o, "flag") /\ op' = [op EXCEPT ![o].thread = "late"]
        /\ Emits(o, "complete", op[o].review) /\ UNCHANGED installCompleted
     \/ InThread(o, "late") /\ op' = [op EXCEPT ![o].thread = "ended"]
        /\ installCompleted' = TRUE /\ UNCHANGED events
  /\ UNCHANGED <<scope, tree, store, gate, dialog, active, closing, cmd, faults>>

SetFlag(o) ==
  /\ InThread(o, "flag") /\ installCompleted' = TRUE
  /\ op' = [op EXCEPT ![o].thread = "emit"]
  /\ UNCHANGED <<scope, tree, store, gate, dialog, active, closing, cmd, events, faults>>

EmitTerminal(o) ==
  /\ InThread(o, "emit")
  /\ op' = [op EXCEPT ![o] = [NewOp EXCEPT !.state = "ended", !.thread = "ended", !.completed = TRUE]]
  /\ Emits(o, IF op[o].code # "ok" THEN "error"
              ELSE IF op[o].kind = "install" THEN "complete" ELSE "uninstalled", op[o].review)
  /\ UNCHANGED <<scope, tree, store, gate, dialog, active, installCompleted, closing, cmd, faults>>

-----------------------------------------------------------------------------
(* close_window_inner, shutdown_operation and the native close request.     *)

others == <<scope, tree, store, gate, dialog, active, installCompleted, cmd, events, faults>>

RequestClose ==
  /\ Open /\ closes < MaxCloses /\ closes' = closes + 1
  /\ IF closeStarted
     THEN /\ window' = IF closeReady THEN "gone" ELSE window   \* Allow, or Wait
          /\ UNCHANGED <<closeStarted, closer>>
     ELSE closeStarted' = TRUE /\ closer' = "lock" /\ UNCHANGED window
  /\ UNCHANGED <<others, op, closeReady, doomed, backendOpen>>

CloserAt(pc) == Open /\ closer = pc

\* The mutex of the context is tried until the deadline; without a context
\* there is nothing to shut down.
LockContext ==
  /\ CloserAt("lock") /\ loader = None
  /\ closer' = IF context = "none" THEN "backend" ELSE "active"
  /\ UNCHANGED doomed

\* First what is active, then whether a start is on its way.
LookForActive ==
  /\ CloserAt("active")
  /\ doomed' = active /\ closer' = IF active = None THEN "starting" ELSE "cancel"

LookForStart ==
  /\ CloserAt("starting") /\ closer' = IF gate = None THEN "backend" ELSE "active"
  /\ UNCHANGED doomed

Shutdown ==
  /\ LockContext \/ LookForActive \/ LookForStart
  /\ UNCHANGED <<others, op, closeStarted, closeReady, backendOpen, window, closes>>

RequestCancel ==
  /\ CloserAt("cancel") /\ CancelSent(doomed) /\ closer' = "wait"
  /\ UNCHANGED <<others, closeStarted, closeReady, doomed, backendOpen, window, closes>>

WaitCompleted ==
  /\ CloserAt("wait") /\ op[doomed].completed /\ closer' = "backend"
  /\ UNCHANGED <<others, op, closeStarted, closeReady, doomed, backendOpen, window, closes>>

\* faulty: a failed shutdown leaves the window in its closing state.
StayClosing == /\ Open /\ closer \in {"lock", "active", "starting", "cancel", "wait"}
               /\ closer' = "idle" /\ closeReady' = FALSE /\ doomed' = None
               /\ UNCHANGED <<others, op, backendOpen, window, closes, closeStarted>>

\* The deadline passes, or the cancellation fails: the window stays.
ShutdownFails ==
  /\ Open /\ closer \in {"lock", "active", "starting", "cancel", "wait"}
  /\ closer' = "idle" /\ closeStarted' = FALSE /\ closeReady' = FALSE /\ doomed' = None
  /\ UNCHANGED <<others, op, backendOpen, window, closes>>

CloseBackend ==
  /\ CloserAt("backend") /\ backendOpen' = FALSE /\ closer' = "ready"
  /\ UNCHANGED <<others, op, closeStarted, closeReady, doomed, window, closes>>

CloseWindow ==
  /\ \/ CloserAt("ready") /\ closer' = "window" /\ closeReady' = TRUE
        /\ UNCHANGED <<window, closeStarted>>
     \/ CloserAt("window") /\ window' = "gone" /\ UNCHANGED <<closer, closeReady, closeStarted>>
     \/ CloserAt("window") /\ closer' = "idle" /\ closeReady' = FALSE /\ closeStarted' = FALSE
        /\ UNCHANGED window
  /\ UNCHANGED <<others, op, doomed, backendOpen, closes>>

CloserStep == Shutdown \/ RequestCancel \/ WaitCompleted \/ CloseBackend \/ CloseWindow

-----------------------------------------------------------------------------
ShellInit ==
  /\ scope \in Scopes /\ tree \in Installed
  /\ context = "none" /\ loader = None /\ gate = None /\ dialog = FALSE
  /\ active = None /\ selection = None /\ installCompleted = FALSE
  /\ closeStarted = FALSE /\ closeReady = FALSE /\ closer = "idle" /\ doomed = None
  /\ backendOpen = TRUE /\ window = "open"
  /\ op = [o \in Ops |-> NewOp] /\ events = <<>> /\ closes = 0 /\ faults = 0

\* The thread of a command takes steps until it returns.
CommandStep(c) ==
  /\ Open /\ cmd[c].pc \notin {"idle", "ok", "error", "nothing"}
  /\ \/ TakeContext(c) \/ Load(c) \/ FirstReview(c)
     \/ EnterGate(c) \/ CheckClosing(c) \/ CheckIdle(c)
     \/ DialogEnds(c) \/ Prepare(c) \/ Act(c)
     \/ StartOperation(c) \/ Publish(c) \/ Release(c) \/ Spawn(c) \/ Disown(c) \/ Revoke(c)
     \/ FindActive(c) \/ SendCancel(c)

CompletionStep(o) ==
  TakeResult(o) \/ Reselect(o) \/ Clear(o) \/ SetFlag(o) \/ EmitTerminal(o)
=============================================================================
