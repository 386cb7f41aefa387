----------------------------- MODULE SystemSession -----------------------------
(***************************************************************************)
(* A system-scope session on any of the three platforms, with a user who   *)
(* cancels, a package file that changes under Setup, a Setup that dies and *)
(* a helper that dies.                                                     *)
(***************************************************************************)
EXTENDS PrivilegedSession

Windows == INSTANCE SessionWindows
Linux   == INSTANCE SessionLinux
Macos   == INSTANCE SessionMacos

BrokerStep ==
  \/ StartSystemOperation \/ SendCancel \/ TakeFrame \/ TakeAuthorized \/ SendRequest
  \/ Windows!WindowsBroker \/ Linux!LinuxBroker \/ Macos!MacosBroker

Helping == HelperStep \/ Windows!WindowsHelper \/ Linux!LinuxHelper \/ Macos!MacosHelper

User == Linux!Polkit \/ RequestCancel

Next == BrokerStep \/ Deadline \/ Helping \/ User \/ ReplacePackage \/ SetupDies \/ HelperDies

Spec == SessionInit /\ [][Next]_vars

(***************************************************************************)
(* Threads that can run do, and deadlines pass; ShellExecuteExW returns,   *)
(* as Windows closes its own prompt.  Nobody has to answer pkexec, to      *)
(* cancel or to die.                                                       *)
(***************************************************************************)
FairSpec == Spec /\ WF_vars(BrokerStep) /\ WF_vars(Deadline) /\ WF_vars(Helping)

Ended == process \notin {"prompt", "running"}

\* Setup is told the truth.  When it hears of a success the helper has ended
\* and the installation is there; when it hears that the operation was
\* cancelled, by the user at the prompt or by the helper, or that it failed,
\* nothing has changed and nothing will.
ReportIsTrue ==
  /\ report \in {"ok", "prepared", "verified", "cancelled", "failed", "rollback_failed"} => Ended
  /\ report = "ok" /\ job.action \in Mutations => tree = "after"
  /\ report \in {"cancelled", "failed"} => tree = "before"
  /\ report = "rollback_failed" => tree = "changing"

\* The system is changed only with the package the user reviewed and agreed
\* to, whatever the file at its path held when Setup or the helper opened it.
OnlyTheReviewed ==
  tree # "before" =>
    /\ helper.package = Reviewed /\ Reviewed \in Fit
    /\ job.action = "install" => ConsentMatches(Reviewed)

\* The broker on Linux, which waits without a deadline for a helper it may
\* not kill and whose frames nobody reads any more.
WaitsForBlocked == On("linux") /\ BrokerAt("reap") /\ Len(up) = Room

\* A session that was started is reported to Setup, whatever the helper, the
\* user and the transport do, as long as Setup lives.
SessionIsReported ==
  BrokerAt("start") ~> (report # "none" \/ BrokerAt("dead") \/ WaitsForBlocked)

\* A helper that runs ends, whether or not anybody is left to hear it: it does
\* not stay behind with the locks of the package.
HelperIsGone == (process = "running") ~> (process # "running" \/ WaitsForBlocked)

\* A session ends on both sides: Setup hears of it and the helper is gone.
SessionEnds == SessionIsReported /\ HelperIsGone
=============================================================================
