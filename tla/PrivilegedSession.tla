-------------------------- MODULE PrivilegedSession --------------------------
(***************************************************************************)
(* One system-scope session: the unelevated Setup process (the broker,     *)
(* privilege.rs of the desktop shell) starts an elevated one-shot helper   *)
(* (privilege.rs of the command line), the two authenticate each other,    *)
(* the broker sends one request with a pinned package, the helper runs the *)
(* engine and sends events and a last frame.  What the three platforms     *)
(* share is here; SessionWindows, SessionLinux and SessionMacos hold what  *)
(* each does in its own way.                                               *)
(***************************************************************************)
EXTENDS Integers, Sequences

CONSTANTS
  Platforms,     \* platforms to start on
  Packages,      \* contents a package file can have
  Reviewed,      \* the one the user reviewed, whose fingerprint Setup keeps
  Fit,           \* the packages for this host, of system scope and unsigned
  Licensed,      \* the packages with a license
  None,
  MaxEvents,     \* bound: progress frames of one operation
  Room           \* frames a transport holds before its reader takes one

Actions   == {"probe", "authorize", "install", "uninstall", "launch"}
Mutations == {"install", "uninstall"}

ASSUME SessionAssumption ==
  /\ Platforms \subseteq {"windows", "linux", "macos"}
  /\ Reviewed \in Packages /\ Fit \subseteq Packages /\ Licensed \subseteq Packages
  /\ None \notin Packages
  /\ MaxEvents \in Nat /\ Room \in Nat \ {0}

VARIABLES
  platform,
  job,        \* the request: action and consents
  package,    \* what the package file holds
  cancel,     \* SystemOperation.cancel, set by the user or by closing Setup
  broker,     \* the thread of the operation in Setup
  report,     \* how that thread ended the operation
  process,    \* the helper process as its parent or launchd sees it
  helper,     \* the helper's own state
  ends,       \* the ends of the transport that are open
  down, up,   \* frames on their way to the helper and to the broker
  tree        \* the system installation

vars == <<platform, job, package, cancel, broker, report, process, helper, ends, down, up, tree>>

transport == <<ends, down, up>>
setup     == <<job, package, cancel, report>>

On(name) == platform = name

(***************************************************************************)
(* The transport.                                                          *)
(***************************************************************************)
\* A frame: its action, the package it names, and what comes with it, the
\* pinned package of a request or the outcome in an answer.
Frame(kind, action, about, with) ==
  [kind |-> kind, action |-> action, about |-> about, with |-> with]

Plain(kind) == Frame(kind, job.action, None, None)

Challenge == Plain("challenge")
Ready     == Plain("ready")

\* The request names the package that was reviewed, never a path.
Request   == Frame("request", job.action, Reviewed, broker.pinned)

ChallengeMatches(f) == f.kind = "challenge" /\ f.action = job.action
ReadyMatches(f)     == f.kind = "ready" /\ f.action = job.action
RequestMatches(f)   == f.kind = "request" /\ f.action = job.action /\ f.about \in Packages
CancelMatches(f)    == f.kind = "cancel" /\ f.action = job.action

BrokerSends(f) == "helper" \in ends /\ down' = Append(down, f)

BrokerAt(pc)   == broker.pc = pc
BrokerGoes(pc) == broker' = [broker EXCEPT !.pc = pc]

\* An error of the thread: what is left to do with the helper comes first.
BrokerFails(code) == broker' = [broker EXCEPT !.pc = "abort", !.error = code]

\* Setup hears of the end of the operation once, from its thread, which lets
\* go of the transport and of the pinned package.
Reports(r) ==
  /\ report' = r
  /\ broker' = [broker EXCEPT !.pc = "done", !.pinned = None]
  /\ ends' = ends \ {"broker"}

(***************************************************************************)
(* The broker: start, what it forwards, cancellation and deadlines.        *)
(***************************************************************************)
\* start_system_operation: pin the package file and start the thread.
StartSystemOperation ==
  /\ BrokerAt("idle")
  /\ broker' = [broker EXCEPT !.pc = "start", !.pinned = package]
  /\ UNCHANGED <<platform, setup, process, helper, transport, tree>>

FrameAction(f) == f.action

\* forward_system_operation_frame: an event goes to Setup and the loop goes
\* on, a last frame is withheld until the helper has ended, and whatever does
\* not belong to this operation ends it.
Forwarded(f) ==
  IF FrameAction(f) # job.action THEN "invalid"
  ELSE IF f.kind = "event" THEN "event"
  ELSE IF f.kind = "last" /\ f.about \in {Reviewed, None} THEN "last"
  ELSE "invalid"

\* The cancellation is sent once, at the top of the loop.
SendCancel ==
  /\ BrokerAt("loop") /\ ~broker.checking /\ cancel /\ ~broker.cancelSent
  /\ \/ BrokerSends(Plain("cancel")) /\ broker' = [broker EXCEPT !.cancelSent = TRUE]
     \/ "helper" \notin ends /\ BrokerFails("backend_unavailable") /\ UNCHANGED down
  /\ UNCHANGED <<platform, setup, process, helper, ends, up, tree>>

\* The loop goes past the cancellation.
Polling == BrokerAt("loop") /\ ~broker.checking /\ (cancel => broker.cancelSent)

\* A frame arrived; after an event Linux looks at the process.
TakeFrame ==
  /\ Polling /\ up # <<>>
  /\ up' = Tail(up)
  /\ broker' = CASE Forwarded(Head(up)) = "event" -> [broker EXCEPT !.checking = On("linux")]
                 [] Forwarded(Head(up)) = "last"  -> [broker EXCEPT !.pc = "finish", !.last = Head(up)]
                 [] OTHER -> [broker EXCEPT !.pc = "abort", !.error = "backend_unavailable"]
  /\ UNCHANGED <<platform, setup, process, helper, ends, down, tree>>

\* Two hours in all or fifteen minutes without a frame; five minutes or
\* fifteen seconds for the answers of the handshake.
Deadline ==
  /\ \/ BrokerAt("loop") /\ (On("windows") => up = <<>>)
     \/ broker.pc \in {"connect", "ready", "authorized"} /\ up = <<>>
  /\ BrokerFails("backend_timeout")
  /\ UNCHANGED <<platform, setup, process, helper, transport, tree>>

\* The preparation of a system install is answered by one frame.
AuthorizationMatches(f) == f.kind = "authorized" /\ f.action = job.action /\ f.about = Reviewed

TakeAuthorized ==
  /\ BrokerAt("authorized") /\ ~broker.checking /\ up # <<>>
  /\ up' = Tail(up)
  /\ IF AuthorizationMatches(Head(up))
     THEN broker' = [broker EXCEPT !.pc = "finish", !.last = Head(up)]
     ELSE BrokerFails("backend_unavailable")
  /\ UNCHANGED <<platform, setup, process, helper, ends, down, tree>>

SendRequest ==
  /\ BrokerAt("request")
  /\ \/ BrokerSends(Request) /\ BrokerGoes(IF job.action = "authorize" THEN "authorized" ELSE "loop")
     \/ "helper" \notin ends /\ BrokerFails("backend_unavailable") /\ UNCHANGED down
  /\ UNCHANGED <<platform, setup, process, helper, ends, up, tree>>

(***************************************************************************)
(* The helper: request, engine, last frame.                                *)
(***************************************************************************)
HelperAt(pc)   == process = "running" /\ helper.pc = pc
HelperGoes(pc) == helper' = [helper EXCEPT !.pc = pc]

\* The process ends and its end of the transport closes with it.
Exits(status) ==
  /\ process' = status
  /\ ends' = ends \ {"helper"}
  /\ helper' = [helper EXCEPT !.pc = "gone"]

HelperEnds(status) ==
  /\ Exits(status)
  /\ UNCHANGED <<platform, setup, broker, down, up, tree>>

\* A frame fits, or the write fails: the broker's end is closed or, on a pipe
\* in PIPE_NOWAIT mode, there is no room.  A Unix socket waits for room.
HelperSends(f) == "broker" \in ends /\ Len(up) < Room /\ up' = Append(up, f)
WriteFails     == ("broker" \notin ends \/ (On("windows") /\ Len(up) = Room)) /\ UNCHANGED up

Sends(f, pc) ==
  /\ \/ HelperSends(f) /\ HelperGoes(pc) /\ UNCHANGED <<process, ends>>
     \/ WriteFails /\ Exits("failed")
  /\ UNCHANGED <<platform, setup, broker, down, tree>>

\* As it would be without the fingerprint of the review.
AuthorizedById(pinned, about) == pinned \in Fit /\ about \in Packages

\* validate_authorized_package: the bytes behind the pinned handle are
\* opened again and must be the package the request names.
Authorized(pinned, about) == pinned \in Fit /\ pinned = about

ConsentMatches(about) == job.unsigned /\ (job.license <=> about \in Licensed)

\* The helper takes the request.  How it comes by the package the broker
\* pinned, and what it asks of it besides, is the platform's.
TakeRequest(pinned, trusted) ==
  /\ HelperAt("request") /\ down # <<>>
  /\ down' = Tail(down)
  /\ IF /\ RequestMatches(Head(down))
        /\ trusted /\ Authorized(pinned, Head(down).about)
        /\ job.action = "install" => ConsentMatches(Head(down).about)
     THEN /\ helper' = [helper EXCEPT !.pc = IF job.action \in Mutations THEN "checkpoint" ELSE job.action,
                                      !.package = pinned,
                                      !.reader = ~On("windows") /\ job.action \in Mutations]
          /\ UNCHANGED <<process, ends>>
     ELSE Exits("failed")
  /\ UNCHANGED <<platform, setup, broker, up, tree>>

\* The broker does not send what the helper waits for within fifteen seconds.
HelperGivesUp ==
  /\ process = "running" /\ helper.pc \in {"connect", "challenge", "accepted", "request"}
  /\ down = <<>>
  /\ HelperEnds("failed")

\* prepare_system_install reads only.
Authorize ==
  /\ HelperAt("authorize")
  /\ \/ Sends(Frame("authorized", job.action, helper.package, "prepared"), "exit")
     \/ HelperEnds("failed")

\* launch: the application runs, then the frame says so.
Launch ==
  /\ HelperAt("launch")
  /\ \E end \in {"ok", "failed"} :
       helper' = [helper EXCEPT !.pc = "last", !.outcome = end]
  /\ UNCHANGED <<platform, setup, broker, process, transport, tree>>

(***************************************************************************)
(* install and uninstall of the engine, between their checkpoints.         *)
(***************************************************************************)
\* An event the transport does not take ends the operation at its next
\* checkpoint, and events after it are dropped.
Event(next) ==
  \/ /\ helper.failed /\ helper' = next /\ UNCHANGED up
  \/ /\ ~helper.failed /\ HelperSends(Plain("event")) /\ helper' = next
  \/ /\ ~helper.failed /\ WriteFails
     /\ helper' = [next EXCEPT !.failed = TRUE, !.cancelled = TRUE]

\* A checkpoint: cancelled, failed, some progress, or past the last one.
Checkpoint(cancelled) ==
  /\ HelperAt("checkpoint")
  /\ IF cancelled THEN helper' = [helper EXCEPT !.pc = "rollback", !.outcome = "cancelled",
                                                !.cancelled = TRUE]
     ELSE \/ HelperGoes("rollback")
          \/ helper.events < MaxEvents /\ HelperGoes("progress")
          \/ HelperGoes("commit")
  /\ UNCHANGED <<platform, setup, broker, process, ends, up, tree>>

Progress ==
  /\ HelperAt("progress")
  /\ Event([helper EXCEPT !.pc = "checkpoint", !.events = @ + 1])
  /\ tree' = IF tree = "before" THEN "changing" ELSE tree
  /\ UNCHANGED <<platform, setup, broker, process, ends, down>>

Commit ==
  /\ HelperAt("commit")
  /\ tree' = "after"
  /\ helper' = [helper EXCEPT !.pc = "ended", !.outcome = "ok"]
  /\ UNCHANGED <<platform, setup, broker, process, transport>>

\* A rollback may leave its journal behind for the next operation to recover.
Rollback ==
  /\ HelperAt("rollback")
  /\ \/ tree' = "before" /\ HelperGoes("ended")
     \/ /\ tree = "changing" /\ UNCHANGED tree
        /\ helper' = [helper EXCEPT !.pc = "ended", !.outcome = "rollback_failed"]
  /\ UNCHANGED <<platform, setup, broker, process, transport>>

\* The phase that ends the operation: completed, cancelled or failed.
LastPhase ==
  /\ HelperAt("ended")
  /\ Event([helper EXCEPT !.pc = "transport"])
  /\ UNCHANGED <<platform, setup, broker, process, ends, down, tree>>

\* require_transport: an operation whose transport failed has no last frame.
RequireTransport ==
  /\ HelperAt("transport")
  /\ IF helper.failed THEN Exits("failed")
     ELSE HelperGoes("last") /\ UNCHANGED <<process, ends>>
  /\ UNCHANGED <<platform, setup, broker, down, up, tree>>

\* A completed operation is answered with the package it was for, a failed one
\* with a code.
Complete == Frame("last", job.action, helper.package, "ok")
Failed   == Frame("last", job.action, None, helper.outcome)

LastFrame ==
  /\ HelperAt("last")
  /\ Sends(IF helper.outcome = "ok" THEN Complete ELSE Failed, "exit")

Exit == HelperAt("exit") /\ HelperEnds("ok")

HelperStep ==
  \/ HelperGivesUp \/ Authorize \/ Launch
  \/ Progress \/ Commit \/ Rollback \/ LastPhase \/ RequireTransport \/ LastFrame \/ Exit

(***************************************************************************)
(* Around the two processes.                                               *)
(***************************************************************************)
\* The user cancels, or Setup closes.
RequestCancel ==
  /\ ~cancel /\ job.action \in Mutations /\ broker.pc \notin {"idle", "done"}
  /\ cancel' = TRUE
  /\ UNCHANGED <<platform, job, package, report, broker, process, helper, transport, tree>>

\* The package file is replaced after it was reviewed; Windows pins it with
\* a handle that shares reading only.
ReplacePackage ==
  /\ On("windows") => broker.pinned = None
  /\ broker.pc \notin {"done", "dead"}
  /\ \E p \in Packages \ {package} : package' = p
  /\ UNCHANGED <<platform, job, cancel, report, broker, process, helper, transport, tree>>

\* Setup dies; its end of the transport closes.
SetupDies ==
  /\ broker.pc \notin {"idle", "done", "dead"}
  /\ broker' = [broker EXCEPT !.pc = "dead", !.pinned = None]
  /\ ends' = ends \ {"broker"}
  /\ UNCHANGED <<platform, setup, process, helper, down, up, tree>>

\* The helper dies.
HelperDies == process = "running" /\ HelperEnds("failed")

SessionInit ==
  /\ platform \in Platforms
  /\ job \in [action : Actions, unsigned : BOOLEAN, license : BOOLEAN]
  /\ job.action = "probe" => On("windows")
  /\ package = Reviewed /\ cancel = FALSE /\ report = "none"
  /\ broker = [pc |-> "idle", pinned |-> None, cancelSent |-> FALSE, checking |-> FALSE,
               last |-> Plain("none"), error |-> "none"]
  /\ process = "none"
  /\ helper = [pc |-> "none", package |-> None, reader |-> FALSE, cancelled |-> FALSE,
               failed |-> FALSE, events |-> 0, outcome |-> "failed"]
  /\ ends = {} /\ down = <<>> /\ up = <<>> /\ tree = "before"
=============================================================================
