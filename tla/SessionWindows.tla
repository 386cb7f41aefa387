---------------------------- MODULE SessionWindows ----------------------------
(***************************************************************************)
(* The session on Windows: a one-shot named pipe in PIPE_NOWAIT mode, a    *)
(* helper started by ShellExecuteExW "runas", which polls the pipe for a   *)
(* cancellation at the checkpoints of the engine.                          *)
(***************************************************************************)
EXTENDS PrivilegedSession

\* The pipe is created, the executable pinned and the user asked, all before
\* the call returns; a helper without an elevated token is terminated.
LaunchElevated ==
  /\ On("windows") /\ BrokerAt("start")
  /\ \/ /\ process' = "running" /\ HelperGoes("connect") /\ ends' = {"broker"}
        /\ \/ BrokerGoes("connect") \/ BrokerFails("backend_unavailable")
        /\ UNCHANGED report
     \/ /\ process' = "declined" /\ Reports("cancelled") /\ UNCHANGED helper
     \/ /\ Reports("backend_unavailable") /\ UNCHANGED <<process, helper>>
  /\ UNCHANGED <<platform, job, package, cancel, down, up, tree>>

\* run_probe up to the challenge: the token, the pipe and its server, and the
\* signer of that process.
HelperConnects ==
  /\ On("windows") /\ HelperAt("connect") /\ "broker" \in ends
  /\ \/ ends' = ends \cup {"helper"} /\ HelperGoes("challenge") /\ UNCHANGED process
     \/ Exits("failed")
  /\ UNCHANGED <<platform, setup, broker, down, up, tree>>

\* accept_helper: the client of the pipe has to be the process started.
AcceptHelper ==
  /\ On("windows") /\ BrokerAt("connect")
  /\ \/ BrokerSends(Challenge) /\ BrokerGoes("ready")
     \/ process # "running" /\ BrokerFails("backend_unavailable") /\ UNCHANGED down
  /\ UNCHANGED <<platform, setup, process, helper, ends, up, tree>>

HelperReady ==
  /\ On("windows") /\ HelperAt("challenge") /\ down # <<>> /\ ChallengeMatches(Head(down))
  /\ down' = Tail(down)
  /\ \/ HelperSends(Ready) /\ HelperGoes("accepted") /\ UNCHANGED <<process, ends>>
     \/ WriteFails /\ Exits("failed")
  /\ UNCHANGED <<platform, setup, broker, tree>>

\* A probe of the transport ends with the handshake.
Verified == broker' = [broker EXCEPT !.pc = "finish", !.last = Frame("last", "probe", None, "verified")]

Accept ==
  /\ On("windows") /\ BrokerAt("ready") /\ up # <<>> /\ ReadyMatches(Head(up))
  /\ up' = Tail(up)
  /\ \/ /\ BrokerSends(Plain("accepted"))
        /\ IF job.action = "probe" THEN Verified ELSE BrokerGoes("request")
     \/ "helper" \notin ends /\ BrokerFails("backend_unavailable") /\ UNCHANGED down
  /\ UNCHANGED <<platform, setup, process, helper, ends, tree>>

HelperAccepted ==
  /\ On("windows") /\ HelperAt("accepted") /\ down # <<>> /\ Head(down).kind = "accepted"
  /\ down' = Tail(down) /\ HelperGoes(IF job.action = "probe" THEN "exit" ELSE "request")
  /\ UNCHANGED <<platform, setup, broker, process, ends, up, tree>>

\* duplicate_package_handle: the handle is taken out of the broker, which has
\* to be there still.
DuplicatePackage == On("windows") /\ TakeRequest(broker.pinned, broker.pinned # None)

\* poll_operation_cancel at a checkpoint: a frame, nothing, or a broken pipe.
PollCancel ==
  /\ On("windows")
  /\ \/ /\ helper.cancelled \/ (down = <<>> /\ "broker" \in ends)
        /\ Checkpoint(helper.cancelled) /\ UNCHANGED down
     \/ /\ ~helper.cancelled /\ down # <<>> /\ down' = Tail(down)
        /\ CancelMatches(Head(down)) /\ Checkpoint(TRUE)
     \/ /\ HelperAt("checkpoint") /\ ~helper.cancelled /\ down = <<>> /\ "broker" \notin ends
        /\ helper' = [helper EXCEPT !.failed = TRUE, !.cancelled = TRUE]
        /\ UNCHANGED <<platform, setup, broker, process, ends, down, up, tree>>

\* Reading a pipe whose other end is closed, once it is empty.
BrokenPipe ==
  /\ On("windows") /\ broker.pc \in {"ready", "authorized", "loop"}
  /\ BrokerAt("loop") => Polling
  /\ up = <<>> /\ "helper" \notin ends
  /\ BrokerFails("backend_unavailable")
  /\ UNCHANGED <<platform, setup, process, helper, transport, tree>>

\* terminate_process; whether an elevated process obeys is not for the
\* broker to say, and it ignores the answer.
TerminateProcess ==
  /\ On("windows") /\ BrokerAt("abort")
  /\ \/ process = "running" /\ Exits("killed")
     \/ UNCHANGED <<process, helper, ends>>
  /\ BrokerGoes("reap")
  /\ UNCHANGED <<platform, setup, down, up, tree>>

\* wait_process: the exit code decides whether the withheld frame counts.
WaitProcess ==
  /\ On("windows") /\ broker.pc \in {"reap", "finish"}
  /\ IF process = "running" THEN Reports("backend_timeout")
     ELSE IF BrokerAt("reap") THEN Reports(broker.error)
     ELSE IF process = "ok" THEN Reports(broker.last.with)
     ELSE Reports("backend_unavailable")
  /\ UNCHANGED <<platform, job, package, cancel, process, helper, down, up, tree>>

WindowsBroker == LaunchElevated \/ AcceptHelper \/ Accept \/ BrokenPipe \/ TerminateProcess \/ WaitProcess
WindowsHelper == HelperConnects \/ HelperReady \/ HelperAccepted \/ DuplicatePackage \/ PollCancel
=============================================================================
