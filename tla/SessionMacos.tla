----------------------------- MODULE SessionMacos -----------------------------
(***************************************************************************)
(* The session on macOS: launchd owns a sequenced-packet socket and starts *)
(* the helper for one connection.  The broker never kills the helper; it   *)
(* closes the connection, which the helper's cancellation thread sees, and *)
(* it learns of the helper's exit from kqueue.                             *)
(***************************************************************************)
EXTENDS PrivilegedSession

\* The service has to be enabled and the connection made before a deadline.
ConnectHelper ==
  /\ On("macos") /\ BrokerAt("start")
  /\ \/ /\ process' = "running" /\ HelperGoes("challenge")
        /\ ends' = {"broker", "helper"} /\ down' = <<Challenge>>
        /\ BrokerGoes("ready") /\ UNCHANGED report
     \/ Reports("backend_unavailable") /\ UNCHANGED <<process, helper, down>>
  /\ UNCHANGED <<platform, job, package, cancel, up, tree>>

\* run: root, the helper's and the caller's signatures, and the challenge.
HelperReady ==
  /\ On("macos") /\ HelperAt("challenge") /\ down # <<>> /\ ChallengeMatches(Head(down))
  /\ down' = Tail(down)
  /\ \/ HelperSends(Ready) /\ HelperGoes("request") /\ UNCHANGED <<process, ends>>
     \/ WriteFails /\ Exits("failed")
     \/ Exits("failed") /\ UNCHANGED up
  /\ UNCHANGED <<platform, setup, broker, tree>>

\* The peer's signature, and a watch on a process that is still there.
VerifyHelper ==
  /\ On("macos") /\ BrokerAt("ready") /\ up # <<>> /\ ReadyMatches(Head(up))
  /\ up' = Tail(up)
  /\ \/ process = "running" /\ BrokerGoes("request")
     \/ BrokerFails("backend_unavailable")
  /\ UNCHANGED <<platform, setup, process, helper, ends, down, tree>>

EndOfFile ==
  /\ On("macos") /\ broker.pc \in {"ready", "authorized", "loop"}
  /\ BrokerAt("loop") => Polling
  /\ up = <<>> /\ "helper" \notin ends
  /\ BrokerFails("backend_unavailable")
  /\ UNCHANGED <<platform, setup, process, helper, transport, tree>>

\* An error drops the connection and is reported; nobody waits for the helper.
DropConnection ==
  /\ On("macos") /\ BrokerAt("abort")
  /\ Reports(broker.error)
  /\ UNCHANGED <<platform, job, package, cancel, process, helper, down, up, tree>>

\* As it would be if the last frame were passed on at once.
FinishAtOnce ==
  /\ On("macos") /\ BrokerAt("finish")
  /\ Reports(broker.last.with)
  /\ UNCHANGED <<platform, job, package, cancel, process, helper, down, up, tree>>

\* finish_helper: the end of file, then the exit of the process; the exit
\* code is not known.
FinishHelper ==
  /\ On("macos") /\ BrokerAt("finish")
  /\ \/ up = <<>> /\ "helper" \notin ends /\ Reports(broker.last.with)
     \/ up # <<>> /\ Reports("backend_unavailable")
     \/ up = <<>> /\ "helper" \in ends /\ Reports("backend_unavailable")
  /\ UNCHANGED <<platform, job, package, cancel, process, helper, down, up, tree>>

\* The descriptor has to be the file that lies in the caller's signed bundle
\* now, and the caller the one that sent the challenge.
ReceiveResource ==
  /\ On("macos") /\ down # <<>>
  /\ TakeRequest(Head(down).with, "broker" \in ends /\ Head(down).with = package)

\* The cancellation thread of the helper reads one frame or the end of file.
CancelReader ==
  /\ On("macos") /\ process = "running" /\ helper.reader
  /\ \/ /\ down # <<>> /\ down' = Tail(down)
        /\ helper' = [helper EXCEPT !.reader = FALSE, !.cancelled = TRUE,
                                    !.failed = @ \/ ~CancelMatches(Head(down))]
     \/ /\ down = <<>> /\ "broker" \notin ends
        /\ helper' = [helper EXCEPT !.reader = FALSE, !.cancelled = TRUE, !.failed = TRUE]
        /\ UNCHANGED down
  /\ UNCHANGED <<platform, setup, broker, process, ends, up, tree>>

LoadCancelled == On("macos") /\ Checkpoint(helper.cancelled) /\ UNCHANGED down

MacosBroker == ConnectHelper \/ VerifyHelper \/ EndOfFile \/ DropConnection \/ FinishHelper
MacosHelper == HelperReady \/ ReceiveResource \/ CancelReader \/ LoadCancelled
=============================================================================
