----------------------------- MODULE SessionLinux -----------------------------
(***************************************************************************)
(* The session on Linux: a Unix datagram pair that is the helper's         *)
(* standard input, a helper started through pkexec, and a thread in the    *)
(* helper that waits for the cancellation.  A datagram socket has no end   *)
(* of file: the helper learns that its peer is gone when it writes, the    *)
(* broker when it looks at the child.                                      *)
(***************************************************************************)
EXTENDS PrivilegedSession

\* launch_helper and the challenge; pkexec asks the user meanwhile.
LaunchHelper ==
  /\ On("linux") /\ BrokerAt("start")
  /\ \/ /\ process' = "prompt" /\ ends' = {"broker", "helper"} /\ down' = <<Challenge>>
        /\ BrokerGoes("ready") /\ UNCHANGED report
     \/ Reports("backend_unavailable") /\ UNCHANGED <<process, down>>
  /\ UNCHANGED <<platform, job, package, cancel, helper, up, tree>>

\* pkexec ends with 126 or 127, or becomes the helper.
Polkit ==
  /\ On("linux") /\ process = "prompt"
  /\ \/ process' = "running" /\ HelperGoes("challenge") /\ UNCHANGED ends
     \/ Exits("declined")
  /\ UNCHANGED <<platform, setup, broker, down, up, tree>>

\* run: root, its own identity, the caller and the challenge.
HelperReady ==
  /\ On("linux") /\ HelperAt("challenge") /\ down # <<>> /\ ChallengeMatches(Head(down))
  /\ down' = Tail(down)
  /\ \/ HelperSends(Ready) /\ HelperGoes("request") /\ UNCHANGED <<process, ends>>
     \/ WriteFails /\ Exits("failed")
     \/ Exits("failed") /\ UNCHANGED up
  /\ UNCHANGED <<platform, setup, broker, tree>>

\* authenticate_helper: the sender and the executable it runs.
AuthenticateHelper ==
  /\ On("linux") /\ BrokerAt("ready") /\ ~broker.checking /\ up # <<>> /\ ReadyMatches(Head(up))
  /\ up' = Tail(up)
  /\ BrokerGoes("request") \/ BrokerFails("backend_unavailable")
  /\ UNCHANGED <<platform, setup, process, helper, ends, down, tree>>

\* Nothing to read: look at the child.
NoFrame ==
  /\ On("linux") /\ broker.pc \in {"ready", "authorized", "loop"} /\ ~broker.checking
  /\ BrokerAt("loop") => Polling
  /\ up = <<>>
  /\ broker' = [broker EXCEPT !.checking = TRUE]
  /\ UNCHANGED <<platform, setup, process, helper, transport, tree>>

Running == process \in {"prompt", "running"}

\* exit_error tells the user's refusal apart.
ExitError == IF process = "declined" THEN "cancelled" ELSE "backend_unavailable"

\* try_wait: a child that has ended ends the operation.
TryWait ==
  /\ On("linux") /\ broker.checking
  /\ broker.pc \in {"ready", "authorized", "loop"}
  /\ IF Running THEN broker' = [broker EXCEPT !.checking = FALSE]
     ELSE BrokerFails(ExitError)
  /\ UNCHANGED <<platform, setup, process, helper, transport, tree>>

\* As it would be without the kill.
KillNothing ==
  /\ On("linux") /\ BrokerAt("abort")
  /\ BrokerGoes("reap")
  /\ UNCHANGED <<platform, setup, process, helper, transport, tree>>

\* kill: the broker runs as the user, the helper as root, so the signal
\* reaches pkexec only while it asks.
Kill ==
  /\ On("linux") /\ BrokerAt("abort")
  /\ IF process = "prompt" THEN Exits("killed") ELSE UNCHANGED <<process, helper, ends>>
  /\ BrokerGoes("reap")
  /\ UNCHANGED <<platform, setup, down, up, tree>>

\* wait has no deadline, and the socket stays open meanwhile.
Wait ==
  /\ On("linux") /\ BrokerAt("reap") /\ ~Running
  /\ Reports(broker.error)
  /\ UNCHANGED <<platform, job, package, cancel, process, helper, down, up, tree>>

\* wait_child after the last frame: fifteen seconds, then kill and wait.
WaitChild ==
  /\ On("linux") /\ BrokerAt("finish")
  /\ IF Running THEN BrokerFails("backend_timeout") /\ UNCHANGED <<report, ends>>
     ELSE IF process = "ok" THEN Reports(broker.last.with) ELSE Reports(ExitError)
  /\ UNCHANGED <<platform, job, package, cancel, process, helper, down, up, tree>>

\* The descriptor travels in the request; the file has to be a private one
\* of root, which a package in the installed tree is.
ReceivePackage == On("linux") /\ down # <<>> /\ TakeRequest(Head(down).with, TRUE)

\* The cancellation thread of the helper reads one frame.
CancelReader ==
  /\ On("linux") /\ process = "running" /\ helper.reader /\ down # <<>>
  /\ down' = Tail(down)
  /\ helper' = [helper EXCEPT !.reader = FALSE, !.cancelled = TRUE,
                              !.failed = @ \/ ~CancelMatches(Head(down))]
  /\ UNCHANGED <<platform, setup, broker, process, ends, up, tree>>

LoadCancelled == On("linux") /\ Checkpoint(helper.cancelled) /\ UNCHANGED down

LinuxBroker == LaunchHelper \/ AuthenticateHelper \/ NoFrame \/ TryWait \/ Kill \/ Wait \/ WaitChild
LinuxHelper == HelperReady \/ ReceivePackage \/ CancelReader \/ LoadCancelled
=============================================================================
