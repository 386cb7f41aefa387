------------------------------ MODULE SetupApp ------------------------------
(***************************************************************************)
(* The renderer of Setup (use-installer.ts, SetupApp.tsx, tauri-bridge.ts) *)
(* over the shell.  It calls commands, whose answers come back in any      *)
(* order, and hears of operations by events, which come in order but before*)
(* or after the answer of the command that started the operation.          *)
(***************************************************************************)
EXTENDS SetupShell

VARIABLES
  view,       \* InstallerView
  retryable,  \* canRetry of the error view
  review,     \* the InstallerReview on display
  accepted,   \* publisherMigrationAccepted
  opId, opPending, cancelPending  \* operationId, operationPending, cancelPending

ui   == <<view, retryable, review, accepted, opId, opPending, cancelPending>>
vars == <<shell, ui>>

Views == {"booting", "review", "install", "uninstall", "finished", "complete", "cancelled",
          "uninstalled", "error"}
InProgress == {"install", "uninstall"}

(* What a renderer step leaves alone in the shell: all but its commands.    *)
backend == <<scope, running, store, gate, dialog, active, installCompleted, closing, faults>>

Idles(c) == cmd[c].pc = "idle"
Answered(c) == Open /\ cmd[c].pc \in {"ok", "error", "nothing"}
Succeeded(c) == cmd[c].pc = "ok"
Calls(c, consent) == cmd' = [cmd EXCEPT ![c] = Issued(c, consent)]
Hears(c) == cmd' = [cmd EXCEPT ![c] = IdleCommand]

\* An error view; the code of a failed command is not looked at.
ShowsError(again) == view' = "error" /\ retryable' = again

-----------------------------------------------------------------------------
(* Commands of the user and their answers.                                  *)

BootstrapAnswers ==
  /\ Answered("bootstrap") /\ Hears("bootstrap")
  /\ IF Succeeded("bootstrap")
     THEN /\ review' = cmd["bootstrap"].review /\ accepted' = FALSE /\ view' = "review"
          /\ UNCHANGED retryable
     ELSE ShowsError(TRUE) /\ UNCHANGED <<review, accepted>>
  /\ UNCHANGED <<backend, events, opId, opPending, cancelPending>>

\* faulty: going back shows the review that is at hand.
RetryAtOnce ==
  /\ Open /\ (view = "cancelled" \/ (view = "error" /\ retryable))
  /\ review # None /\ view' = "review" /\ accepted' = FALSE
  /\ UNCHANGED <<backend, cmd, events, retryable, review, opId, opPending, cancelPending>>

Retry ==
  /\ Open /\ (view = "cancelled" \/ (view = "error" /\ retryable))
  /\ Idles("bootstrap") /\ Calls("bootstrap", FALSE)
  /\ view' = "booting" /\ accepted' = (accepted /\ view # "error")
  /\ UNCHANGED <<backend, events, retryable, review, opId, opPending, cancelPending>>

AcceptMigration ==
  /\ Open /\ view = "review" /\ review.class = "legacy" /\ accepted' = ~accepted
  /\ UNCHANGED <<backend, cmd, events, view, retryable, review, opId, opPending, cancelPending>>

SelectDestination ==
  /\ Open /\ view = "review" /\ Idles("choose") /\ Calls("choose", FALSE)
  /\ UNCHANGED <<backend, events, ui>>

DestinationAnswers ==
  /\ Answered("choose") /\ Hears("choose")
  /\ IF Succeeded("choose")
     THEN review' = cmd["choose"].review /\ accepted' = FALSE
     ELSE UNCHANGED <<review, accepted>>
  /\ UNCHANGED <<backend, events, view, retryable, opId, opPending, cancelPending>>

\* The buttons of the review: what its data and the consents allow.
Offered(c) ==
  /\ c = "install" => review.space /\ (review.class = "legacy" => accepted)
  /\ c = "uninstall" => review.removable

\* startInstall and startUninstall.  The buttons are off while a folder is being
\* chosen; the answer of an earlier start has come.
Start(c) ==
  /\ Open /\ view = "review" /\ ~opPending
  /\ Idles("choose") /\ \A s \in Starts : Idles(s)
  /\ \E o \in Ops : op[o].state = "new"
  /\ Offered(c)
  /\ Calls(c, c = "install" /\ review.class = "legacy" /\ accepted)
  /\ view' = c /\ opId' = None /\ opPending' = TRUE /\ cancelPending' = FALSE
  /\ UNCHANGED <<backend, events, retryable, review, accepted>>

\* The answer names the operation, which may be over; a cancellation asked for
\* while the name was unknown is sent now.
StartAnswers(c) ==
  /\ Answered(c) /\ (opPending /\ Succeeded(c) /\ cancelPending => Idles("cancel"))
  /\ CASE ~opPending -> Hears(c) /\ UNCHANGED ui
       [] opPending /\ Succeeded(c) ->
            /\ opId' = cmd[c].op
            /\ cmd' = [cmd EXCEPT ![c] = IdleCommand,
                         !["cancel"] = IF cancelPending THEN Issued("cancel", FALSE) ELSE @]
            /\ UNCHANGED <<view, retryable, review, accepted, opPending, cancelPending>>
       [] OTHER ->
            /\ Hears(c) /\ ShowsError(TRUE) /\ opPending' = FALSE /\ opId' = None
            /\ accepted' = (accepted /\ c # "install") /\ UNCHANGED <<review, cancelPending>>
  /\ UNCHANGED <<backend, events>>

Cancel ==
  /\ Open /\ view \in InProgress /\ ~cancelPending /\ cancelPending' = TRUE
  /\ IF opId = None THEN UNCHANGED cmd ELSE Idles("cancel") /\ Calls("cancel", FALSE)
  /\ UNCHANGED <<backend, events, view, retryable, review, accepted, opId, opPending>>

CancelAnswers ==
  /\ Answered("cancel") /\ Hears("cancel")
  /\ cancelPending' = (cancelPending /\ Succeeded("cancel"))
  /\ UNCHANGED <<backend, events, view, retryable, review, accepted, opId, opPending>>

Continue ==
  /\ Open /\ view = "finished" /\ view' = "complete"
  /\ UNCHANGED <<backend, cmd, events, retryable, review, accepted, opId, opPending, cancelPending>>

\* launchInstalled, which closes the window after a success, and openFinishLink.
Finally(c) ==
  /\ Open /\ c \in {"launch", "link"} /\ view = "complete"
  /\ Idles("launch") /\ Idles("link") /\ Calls(c, FALSE)
  /\ UNCHANGED <<backend, events, ui>>

FinallyAnswers(c) ==
  /\ c \in {"launch", "link"} /\ Answered(c) /\ Hears(c)
  /\ IF c = "launch" /\ ~Succeeded(c) THEN ShowsError(TRUE) ELSE UNCHANGED <<view, retryable>>
  /\ UNCHANGED <<backend, events, review, accepted, opId, opPending, cancelPending>>

-----------------------------------------------------------------------------
(* Operation events.                                                        *)

\* faulty: before the name of the operation is known every event is dropped.
WaitsForName(e) == opPending /\ opId = e.op

Listens(e) == opPending /\ (opId # None => e.op = opId)

OperationEnds(v) == view' = v /\ opPending' = FALSE /\ opId' = None

Shows(e) ==
  CASE e.kind = "progress" ->
         opId' = e.op /\ UNCHANGED <<view, retryable, accepted, opPending>>
    [] e.kind = "complete" -> OperationEnds("finished") /\ accepted' = FALSE /\ UNCHANGED retryable
    [] e.kind = "uninstalled" -> OperationEnds("uninstalled") /\ UNCHANGED <<retryable, accepted>>
    [] e.kind = "error" /\ e.code = "cancelled" ->
         OperationEnds("cancelled") /\ accepted' = FALSE /\ UNCHANGED retryable
    [] OTHER ->
         LET migration == e.code = "migration_required" /\ e.review # None /\ e.review.class = "legacy"
         IN /\ OperationEnds("error")
            /\ accepted' = (accepted /\ migration)
            /\ retryable' \in CASE e.code = "migration_required" -> {migration}
                                [] OTHER -> BOOLEAN   \* not after state_conflict and the like

EventComes ==
  /\ Open /\ events # <<>> /\ events' = Tail(events)
  /\ LET e == Head(events)
     IN IF Listens(e)
        THEN /\ Shows(e)
             /\ review' = CASE e.kind \in {"complete", "error"} /\ e.review # None -> e.review
                            [] e.kind = "uninstalled" /\ review # None ->
                                 [review EXCEPT !.removable = FALSE]
                            [] OTHER -> review
        ELSE UNCHANGED <<view, retryable, review, accepted, opId, opPending>>
  /\ UNCHANGED <<backend, cmd, cancelPending>>

-----------------------------------------------------------------------------
Init ==
  /\ ShellInit
  /\ cmd = [c \in Commands |-> IF c = "bootstrap" THEN Issued(c, FALSE) ELSE IdleCommand]
  /\ view = "booting" /\ retryable = FALSE /\ review = None /\ accepted = FALSE
  /\ opId = None /\ opPending = FALSE /\ cancelPending = FALSE

UserStep ==
  \/ Retry \/ AcceptMigration \/ SelectDestination \/ Cancel \/ Continue
  \/ \E c \in Starts : Start(c)
  \/ \E c \in {"launch", "link"} : Finally(c)

AnswerStep ==
  \/ BootstrapAnswers \/ DestinationAnswers \/ CancelAnswers
  \/ \E c \in Starts : StartAnswers(c)
  \/ \E c \in {"launch", "link"} : FinallyAnswers(c)

Next ==
  \/ \E c \in Commands : CommandStep(c) /\ UNCHANGED ui
  \/ \E o \in Ops : (Ends(o) \/ PassEvent(o) \/ CompletionStep(o)) /\ UNCHANGED ui
  \/ (RequestClose \/ CloserStep \/ ShutdownFails) /\ UNCHANGED ui
  \/ UserStep \/ AnswerStep \/ EventComes

Spec == Init /\ [][Next]_vars

(* The threads of a start, of an operation and of a shutdown are scheduled, *)
(* messages are delivered, operations end (the backend's own deadline sees  *)
(* to it) and a shutdown has a deadline.  The user need not do anything.    *)
FairSpec ==
  /\ Spec
  /\ \A c \in Starts : WF_vars((CommandStep(c) /\ UNCHANGED ui) \/ StartAnswers(c))
  /\ \A o \in Ops : WF_vars((Ends(o) \/ CompletionStep(o)) /\ UNCHANGED ui)
  /\ WF_vars(EventComes) /\ WF_vars(CancelAnswers)
  /\ WF_vars(CommandStep("cancel") /\ UNCHANGED ui)
  /\ WF_vars(CloserStep /\ UNCHANGED ui) /\ WF_vars(ShutdownFails /\ UNCHANGED ui)

-----------------------------------------------------------------------------
(* The shell follows every operation that runs: it is the active one, or on *)
(* its way to be, or it was cancelled because nobody can follow it; and what*)
(* a completion thread follows stays active until that thread clears it.    *)
OperationIsFollowed ==
  \A o \in Ops :
    /\ Running(o) =>
         \/ active = o \/ op[o].cancel
         \/ \E c \in Starts : cmd[c].op = o /\ cmd[c].pc \in {"publish", "revoke"}
    /\ op[o].thread \in {"receive", "cache", "refresh", "prepare", "clear"} => active = o

(* The views that report a result tell what is installed, and the links they*)
(* offer can be opened: what the completion thread sets it sets before it   *)
(* tells the renderer.                                                      *)
ViewTellsTruth ==
  /\ view \in {"finished", "complete"} => tree = "current" /\ installCompleted
  /\ view = "uninstalled" => tree = "absent"

(* What an operation achieved is never reported as a failure: the selection *)
(* it was checked against was not stale.                                    *)
SuccessIsReported ==
  \A o \in Ops :
    op[o].state = "ended" /\ op[o].code = "ok" /\ op[o].kind = "install" => ActionMatches(o)

(* A review the user can act on is the selection the shell acts on, and a   *)
(* consent to migrate was given for the review on display.                  *)
ReviewIsCurrent ==
  /\ view = "review" /\ Idles("choose") => selection # None /\ review = Review(selection)
  /\ accepted => review # None /\ review.class = "legacy"

(* An operation on display comes to an end there, unless the window closes. *)
ProgressEnds == (view \in InProgress) ~> (view \notin InProgress \/ window = "gone")

(* A request to close ends: with the window gone, or open for another one.  *)
CloseSettles == closeStarted ~> (window = "gone" \/ ~closeStarted)

(* "close cannot pass an operation that has not yet published `active`" *)
ClosePassesNoOperation == closer \in {"backend", "ready", "window"} => active = None
=============================================================================
