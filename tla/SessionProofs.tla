---------------------------- MODULE SessionProofs ----------------------------
(* Proofs about SystemSession, for any packages, and any bounds on progress *)
(* and on the transport.                                                    *)
EXTENDS SystemSession, TLAPS

Kinds    == {"none", "challenge", "ready", "accepted", "request", "cancel", "event",
             "authorized", "last"}
Outcomes == {"ok", "cancelled", "failed", "rollback_failed"}
Errors   == {"none", "backend_unavailable", "backend_timeout", "cancelled"}
Answers  == Outcomes \cup {"prepared", "verified"}

Abouts == Packages \cup {None}
Frames == [kind : Kinds, action : Actions, about : Abouts, with : Abouts \cup Answers]

(* Where a helper is before it takes a request, while it works on one that  *)
(* changes the system, when it knows the end, and when it has told it.      *)
Before  == {"none", "connect", "challenge", "accepted", "request"} \cup Actions
Working == {"checkpoint", "progress", "commit", "rollback"}
Knowing == {"ended", "transport", "last"}
Over    == {"exit", "gone"}

BrokerPlaces == {"idle", "start", "connect", "ready", "request", "authorized", "loop",
                 "finish", "abort", "reap", "done", "dead"}

Brokers == [pc : BrokerPlaces, pinned : Abouts, cancelSent : BOOLEAN, checking : BOOLEAN,
            last : Frames, error : Errors]
HelperPlaces == Before \cup Working \cup Knowing \cup Over

Helpers == [pc : HelperPlaces, package : Abouts,
            reader : BOOLEAN, cancelled : BOOLEAN, failed : BOOLEAN, events : Nat,
            outcome : Outcomes]

Scalars ==
  /\ job \in [action : Actions, unsigned : BOOLEAN, license : BOOLEAN]
  /\ package \in Packages
  /\ broker \in Brokers
  /\ report \in Answers \cup Errors
  /\ process \in {"none", "prompt", "running", "declined", "killed", "failed", "ok"}
  /\ helper \in Helpers
  /\ ends \subseteq {"broker", "helper"}
  /\ tree \in {"before", "changing", "after"}

TypeOK == Scalars /\ down \in Seq(Frames) /\ up \in Seq(Frames)

(* A process is started once, from a session in which nothing happened yet. *)
StartOK ==
  /\ broker.pc \in {"idle", "start"} => process = "none"
  /\ process \in {"none", "prompt"} => helper.pc = "none"
  /\ process = "declined" => tree = "before"
  /\ process = "prompt" => On("linux")
  /\ On("macos") /\ process = "running" => "helper" \in ends

(* A request names the package that was reviewed.                           *)
AsksForReviewed(f) == f.kind = "request" => f.about = Reviewed

(* What the helper knows of its own work.                                   *)
Permitted ==
  /\ helper.package = Reviewed /\ Reviewed \in Fit
  /\ job.action = "install" => ConsentMatches(Reviewed)

Matches(outcome) ==
  /\ outcome = "ok" /\ job.action \in Mutations => tree = "after"
  /\ outcome \in {"cancelled", "failed"} => tree = "before"
  /\ outcome = "rollback_failed" => tree = "changing"

HelperOK ==
  /\ helper.pc \in Before => tree = "before"
  /\ helper.pc \in Before => helper.outcome = "failed"
  /\ helper.pc = "launch" => job.action = "launch"
  /\ helper.pc \in Working => helper.outcome \in {"failed", "cancelled"} /\ Permitted
  /\ tree # "before" => Permitted
  /\ helper.pc \in Knowing => Matches(helper.outcome)

(* What a helper has told stays so.                                         *)
Told(answer) == answer \in Outcomes /\ helper.pc \in Over /\ Matches(answer)

Truthful(f) ==
  /\ f.kind = "last" => Told(f.with)
  /\ f.kind = "authorized" => f.with = "prepared"

BrokerOK ==
  /\ broker.pc = "finish" => broker.last.with \in {"prepared", "verified"} \/ Told(broker.last.with)
  /\ broker.error = "cancelled" => process = "declined"
  /\ report # "none" => broker.pc = "done"

InTransit(s) == {s[i] : i \in 1..Len(s)}

FramesOK ==
  /\ \A f \in InTransit(down) : AsksForReviewed(f)
  /\ \A f \in InTransit(up) : Truthful(f)

IInv == TypeOK /\ StartOK /\ HelperOK /\ FramesOK /\ BrokerOK /\ ReportIsTrue

-----------------------------------------------------------------------------
(* What the helper has told stays so: a step that keeps a helper that is    *)
(* over, and then the installation.                                         *)
Kept == UNCHANGED job /\ (helper.pc \in Over => helper'.pc \in Over /\ UNCHANGED tree)

DownStep ==
  \/ UNCHANGED down
  \/ down # <<>> /\ down' = Tail(down)
  \/ \E f \in Frames : AsksForReviewed(f) /\ down' \in {Append(down, f), <<f>>}

UpStep ==
  \/ UNCHANGED up
  \/ up # <<>> /\ up' = Tail(up)
  \/ \E f \in Frames : Truthful(f)' /\ up' = Append(up, f)

LEMMA ToldKept ==
  ASSUME Kept, NEW answer, Told(answer)
  PROVE  Told(answer)'
BY DEF Kept, Told, Matches

LEMMA TruthKept ==
  ASSUME Kept, NEW f, Truthful(f)
  PROVE  Truthful(f)'
BY ToldKept DEF Truthful

(* The frames in transit as one is taken and one is sent.                   *)
LEMMA TakeOne ==
  ASSUME NEW S, NEW s \in Seq(S), s # <<>>
  PROVE  /\ Tail(s) \in Seq(S) /\ Head(s) \in S /\ Head(s) \in InTransit(s)
         /\ InTransit(Tail(s)) \subseteq InTransit(s)
<1>1. /\ Tail(s) \in Seq(S) /\ Head(s) \in S /\ Head(s) = s[1] /\ 1 \in 1..Len(s)
      /\ \A i \in 1..Len(Tail(s)) : i + 1 \in 1..Len(s) /\ Tail(s)[i] = s[i + 1]
  OBVIOUS
<1> QED BY <1>1 DEF InTransit

LEMMA SendOne ==
  ASSUME NEW S, NEW s \in Seq(S), NEW e \in S
  PROVE  /\ Append(s, e) \in Seq(S)
         /\ InTransit(Append(s, e)) \subseteq InTransit(s) \cup {e}
<1>1. /\ Append(s, e) \in Seq(S)
      /\ \A i \in 1..Len(Append(s, e)) :
           \/ i \in 1..Len(s) /\ Append(s, e)[i] = s[i]
           \/ Append(s, e)[i] = e
  OBVIOUS
<1> QED BY <1>1 DEF InTransit

LEMMA OnlyOne ==
  ASSUME NEW S, NEW e \in S
  PROVE  <<e>> \in Seq(S) /\ InTransit(<<e>>) = {e}
BY DEF InTransit

LEMMA FramesKept ==
  ASSUME TypeOK, FramesOK, Kept, DownStep, UpStep
  PROVE  FramesOK' /\ down' \in Seq(Frames) /\ up' \in Seq(Frames)
<1>1. down \in Seq(Frames) /\ up \in Seq(Frames)
  BY DEF TypeOK
<1>2. down' \in Seq(Frames) /\ \A f \in InTransit(down') : AsksForReviewed(f)
  <2>1. CASE UNCHANGED down
    BY <1>1, <2>1 DEF FramesOK
  <2>2. CASE down # <<>> /\ down' = Tail(down)
    BY <1>1, <2>2, TakeOne DEF FramesOK
  <2>3. ASSUME NEW f \in Frames, AsksForReviewed(f), down' \in {Append(down, f), <<f>>}
        PROVE  down' \in Seq(Frames) /\ \A g \in InTransit(down') : AsksForReviewed(g)
    <3>1. CASE down' = Append(down, f)
      BY <1>1, <2>3, <3>1, SendOne DEF FramesOK
    <3>2. CASE down' = <<f>>
      BY <2>3, <3>2, OnlyOne
    <3> QED BY <2>3, <3>1, <3>2
  <2> QED BY <2>1, <2>2, <2>3 DEF DownStep
<1>3. up' \in Seq(Frames) /\ \A f \in InTransit(up') : Truthful(f)'
  <2>1. \A f \in InTransit(up) : Truthful(f)'
    BY TruthKept DEF FramesOK
  <2>2. CASE UNCHANGED up
    BY <1>1, <2>1, <2>2
  <2>3. CASE up # <<>> /\ up' = Tail(up)
    BY <1>1, <2>1, <2>3, TakeOne
  <2>4. ASSUME NEW f \in Frames, Truthful(f)', up' = Append(up, f)
        PROVE  up' \in Seq(Frames) /\ \A g \in InTransit(up') : Truthful(g)'
    BY <1>1, <2>1, <2>4, SendOne
  <2> QED BY <2>2, <2>3, <2>4 DEF UpStep
<1> QED BY <1>2, <1>3 DEF FramesOK

(* The record of the helper keeps its fields.                               *)
LEMMA HelperUpdates ==
  ASSUME NEW h \in Helpers
  PROVE  /\ \A pc \in HelperPlaces : [h EXCEPT !.pc = pc] \in Helpers
         /\ \A pc \in HelperPlaces, end \in Outcomes :
              [h EXCEPT !.pc = pc, !.outcome = end] \in Helpers
         /\ \A pc \in HelperPlaces, end \in Outcomes, yes \in BOOLEAN :
              [h EXCEPT !.pc = pc, !.outcome = end, !.cancelled = yes] \in Helpers
         /\ \A pc \in HelperPlaces, p \in Abouts, yes \in BOOLEAN :
              [h EXCEPT !.pc = pc, !.package = p, !.reader = yes] \in Helpers
         /\ \A yes, no \in BOOLEAN : [h EXCEPT !.failed = yes, !.cancelled = no] \in Helpers
         /\ \A r, c, f \in BOOLEAN :
              [h EXCEPT !.reader = r, !.cancelled = c, !.failed = f] \in Helpers
BY DEF Helpers

LEMMA OneMoreEvent ==
  ASSUME NEW h \in Helpers, NEW pc \in HelperPlaces
  PROVE  LET next == [h EXCEPT !.pc = pc, !.events = h.events + 1]
         IN  /\ next \in Helpers /\ next.pc = pc
             /\ next.package = h.package /\ next.outcome = h.outcome
<1>1. h.events \in Nat
  BY DEF Helpers
<1>2. PICK n \in Nat : n = h.events + 1
  BY <1>1
<1>3. /\ [h EXCEPT !.pc = pc, !.events = n] \in Helpers
      /\ [h EXCEPT !.pc = pc, !.events = n].pc = pc
      /\ [h EXCEPT !.pc = pc, !.events = n].package = h.package
      /\ [h EXCEPT !.pc = pc, !.events = n].outcome = h.outcome
  BY <1>2 DEF Helpers
<1> QED BY <1>2, <1>3

(* A frame made of the parts it should have is one.                         *)
LEMMA FrameMade ==
  ASSUME Scalars, NEW kind \in Kinds, NEW about \in Abouts, NEW with \in Abouts \cup Answers
  PROVE  /\ Frame(kind, job.action, about, with) \in Frames
         /\ Frame(kind, job.action, about, with).kind = kind
         /\ Frame(kind, job.action, about, with).about = about
         /\ Frame(kind, job.action, about, with).with = with
BY DEF Scalars, Frames, Frame

LEMMA PlainMade ==
  ASSUME Scalars, NEW kind \in Kinds
  PROVE  Plain(kind) \in Frames /\ Plain(kind).kind = kind
<1>1. None \in Abouts
  BY DEF Abouts
<1> QED BY <1>1, FrameMade DEF Plain

(* An event is sent or not, and what comes next is as it was to be.         *)
LEMMA EventMoves ==
  ASSUME Scalars, NEW next \in Helpers, Event(next)
  PROVE  /\ helper' \in Helpers
         /\ helper'.pc = next.pc /\ helper'.package = next.package
         /\ helper'.outcome = next.outcome
         /\ UNCHANGED up \/ up' = Append(up, Plain("event"))
<1>1. [next EXCEPT !.failed = TRUE, !.cancelled = TRUE] \in Helpers
  BY HelperUpdates
<1>2. /\ [next EXCEPT !.failed = TRUE, !.cancelled = TRUE].pc = next.pc
      /\ [next EXCEPT !.failed = TRUE, !.cancelled = TRUE].package = next.package
      /\ [next EXCEPT !.failed = TRUE, !.cancelled = TRUE].outcome = next.outcome
  OBVIOUS
<1> DEFINE lost == [next EXCEPT !.failed = TRUE, !.cancelled = TRUE]
<1>3. lost \in Helpers /\ lost.pc = next.pc /\ lost.package = next.package
      /\ lost.outcome = next.outcome
  BY <1>1, <1>2
<1>4. helper' \in {next, lost} /\ (UNCHANGED up \/ up' = Append(up, Plain("event")))
  BY DEF Event, HelperSends, WriteFails
<1> HIDE DEF lost
<1> QED BY <1>3, <1>4

(* What every step has to do for the invariant.                             *)
Good ==
  /\ Kept /\ DownStep /\ UpStep
  /\ Scalars' /\ StartOK' /\ HelperOK' /\ BrokerOK' /\ ReportIsTrue'

LEMMA GoodKeeps ==
  ASSUME IInv, Good
  PROVE  IInv'
BY FramesKept DEF IInv, Good, TypeOK

-----------------------------------------------------------------------------
(* The steps the platforms share.                                           *)
USE DEF IInv, TypeOK, Scalars, setup, transport, On, BrokerAt, BrokerGoes, BrokerFails, BrokerSends, HelperAt,
        HelperGoes, Exits, HelperEnds, HelperSends, WriteFails, Sends

LEMMA StartSystemOperationGood ==
  ASSUME IInv, StartSystemOperation
  PROVE  Good
<1>1. Kept
  BY DEF Kept, Helpers, Before, Working, Knowing, HelperPlaces, Over, StartSystemOperation
<1>2. DownStep
  BY PlainMade DEF DownStep, AsksForReviewed, Kinds, StartSystemOperation
<1>3. UpStep
  BY PlainMade DEF UpStep, Truthful, Kinds, StartSystemOperation
<1>4. Scalars'
  <2>1. broker' \in Brokers
    BY DEF Brokers, BrokerPlaces, Errors, Abouts, StartSystemOperation
  <2>2. helper' \in Helpers
    BY DEF HelperPlaces, Before, Working, Knowing, Over, Outcomes, StartSystemOperation
  <2> QED BY <2>1, <2>2 DEF Errors, Outcomes, StartSystemOperation
<1>5. StartOK'
  BY DEF StartOK, Brokers, Helpers, StartSystemOperation
<1>6. HelperOK'
  BY DEF HelperOK, Permitted, Matches, ConsentMatches, Helpers, Before, Working, Knowing,
         Actions, Mutations, StartSystemOperation
<1>7. BrokerOK'
  BY <1>1, ToldKept DEF BrokerOK, StartOK, Brokers, StartSystemOperation
<1>8. ReportIsTrue'
  BY DEF ReportIsTrue, BrokerOK, StartOK, Ended, StartSystemOperation
<1> QED BY <1>1, <1>2, <1>3, <1>4, <1>5, <1>6, <1>7, <1>8 DEF Good

LEMMA SendCancelGood ==
  ASSUME IInv, SendCancel
  PROVE  Good
<1>1. Kept
  BY DEF Kept, Helpers, Before, Working, Knowing, HelperPlaces, Over, SendCancel
<1>2. DownStep
  BY PlainMade DEF DownStep, AsksForReviewed, Kinds, SendCancel
<1>3. UpStep
  BY PlainMade DEF UpStep, Truthful, Kinds, SendCancel
<1>4. Scalars'
  <2>1. broker' \in Brokers
    BY ZenonT(60) DEF Brokers, BrokerPlaces, Errors, Abouts, SendCancel
  <2>2. helper' \in Helpers
    BY DEF HelperPlaces, Before, Working, Knowing, Over, Outcomes, SendCancel
  <2> QED BY <2>1, <2>2 DEF Errors, Outcomes, SendCancel
<1>5. StartOK'
  BY DEF StartOK, Brokers, Helpers, SendCancel
<1>6. HelperOK'
  BY DEF HelperOK, Permitted, Matches, ConsentMatches, Helpers, Before, Working, Knowing,
         Actions, Mutations, SendCancel
<1>7. BrokerOK'
  BY <1>1, ToldKept DEF BrokerOK, StartOK, Brokers, SendCancel
<1>8. ReportIsTrue'
  BY DEF ReportIsTrue, BrokerOK, StartOK, Ended, SendCancel
<1> QED BY <1>1, <1>2, <1>3, <1>4, <1>5, <1>6, <1>7, <1>8 DEF Good

LEMMA TakeFrameGood ==
  ASSUME IInv, TakeFrame
  PROVE  Good
<1>a. Head(up) \in Frames /\ Truthful(Head(up))
  BY TakeOne DEF FramesOK, TakeFrame
<1>1. Kept
  BY DEF Kept, Helpers, Before, Working, Knowing, HelperPlaces, Over, TakeFrame, Polling,
         Forwarded, FrameAction
<1>2. DownStep
  BY PlainMade
  DEF DownStep, AsksForReviewed, Kinds, TakeFrame, Polling, Forwarded, FrameAction
<1>3. UpStep
  BY PlainMade DEF UpStep, Truthful, Kinds, TakeFrame, Polling, Forwarded, FrameAction
<1>4. Scalars'
  <2>1. broker' \in Brokers
    BY <1>a DEF Brokers, BrokerPlaces, Errors, TakeFrame, Polling, Forwarded, FrameAction
  <2>2. helper' \in Helpers
    BY DEF HelperPlaces, Before, Working, Knowing, Over, Outcomes, TakeFrame, Polling,
           Forwarded, FrameAction
  <2> QED BY <2>1, <2>2 DEF Errors, Outcomes, TakeFrame, Polling, Forwarded, FrameAction
<1>5. StartOK'
  BY DEF StartOK, Brokers, Helpers, TakeFrame, Polling, Forwarded, FrameAction
<1>6. HelperOK'
  BY DEF HelperOK, Permitted, Matches, ConsentMatches, Helpers, Before, Working, Knowing,
         Actions, Mutations, TakeFrame, Polling, Forwarded, FrameAction
<1>7. BrokerOK'
  BY <1>a, <1>1, ToldKept
  DEF BrokerOK, StartOK, Brokers, Truthful, TakeFrame, Polling, Forwarded, FrameAction
<1>8. ReportIsTrue'
  BY DEF ReportIsTrue, BrokerOK, StartOK, Ended, TakeFrame, Polling, Forwarded, FrameAction
<1> QED BY <1>1, <1>2, <1>3, <1>4, <1>5, <1>6, <1>7, <1>8 DEF Good

LEMMA DeadlineGood ==
  ASSUME IInv, Deadline
  PROVE  Good
<1>1. Kept
  BY DEF Kept, Helpers, Before, Working, Knowing, HelperPlaces, Over, Deadline
<1>2. DownStep
  BY PlainMade DEF DownStep, AsksForReviewed, Kinds, Deadline
<1>3. UpStep
  BY PlainMade DEF UpStep, Truthful, Kinds, Deadline
<1>4. Scalars'
  <2>1. broker' \in Brokers
    BY DEF Brokers, BrokerPlaces, Errors, Abouts, Deadline
  <2>2. helper' \in Helpers
    BY DEF HelperPlaces, Before, Working, Knowing, Over, Outcomes, Deadline
  <2> QED BY <2>1, <2>2 DEF Errors, Outcomes, Deadline
<1>5. StartOK'
  BY DEF StartOK, Brokers, Helpers, Deadline
<1>6. HelperOK'
  BY DEF HelperOK, Permitted, Matches, ConsentMatches, Helpers, Before, Working, Knowing,
         Actions, Mutations, Deadline
<1>7. BrokerOK'
  BY <1>1, ToldKept DEF BrokerOK, StartOK, Brokers, Deadline
<1>8. ReportIsTrue'
  BY DEF ReportIsTrue, BrokerOK, StartOK, Ended, Deadline
<1> QED BY <1>1, <1>2, <1>3, <1>4, <1>5, <1>6, <1>7, <1>8 DEF Good

LEMMA TakeAuthorizedGood ==
  ASSUME IInv, TakeAuthorized
  PROVE  Good
<1>a. Head(up) \in Frames /\ Truthful(Head(up))
  BY TakeOne DEF FramesOK, TakeAuthorized
<1>1. Kept
  BY DEF Kept, Helpers, Before, Working, Knowing, HelperPlaces, Over, TakeAuthorized,
         AuthorizationMatches
<1>2. DownStep
  BY PlainMade DEF DownStep, AsksForReviewed, Kinds, TakeAuthorized, AuthorizationMatches
<1>3. UpStep
  BY PlainMade DEF UpStep, Truthful, Kinds, TakeAuthorized, AuthorizationMatches
<1>4. Scalars'
  <2>1. broker' \in Brokers
    BY ZenonT(60), <1>a DEF Brokers, BrokerPlaces, Errors, TakeAuthorized, AuthorizationMatches
  <2>2. helper' \in Helpers
    BY DEF HelperPlaces, Before, Working, Knowing, Over, Outcomes, TakeAuthorized,
           AuthorizationMatches
  <2> QED BY <2>1, <2>2 DEF Errors, Outcomes, TakeAuthorized, AuthorizationMatches
<1>5. StartOK'
  BY DEF StartOK, Brokers, Helpers, TakeAuthorized, AuthorizationMatches
<1>6. HelperOK'
  BY DEF HelperOK, Permitted, Matches, ConsentMatches, Helpers, Before, Working, Knowing,
         Actions, Mutations, TakeAuthorized, AuthorizationMatches
<1>7. BrokerOK'
  BY <1>a, <1>1, ToldKept
  DEF BrokerOK, StartOK, Brokers, Truthful, TakeAuthorized, AuthorizationMatches
<1>8. ReportIsTrue'
  BY DEF ReportIsTrue, BrokerOK, StartOK, Ended, TakeAuthorized, AuthorizationMatches
<1> QED BY <1>1, <1>2, <1>3, <1>4, <1>5, <1>6, <1>7, <1>8 DEF Good

LEMMA SendRequestGood ==
  ASSUME IInv, SendRequest
  PROVE  Good
<1>1. Kept
  BY DEF Kept, Helpers, Before, Working, Knowing, HelperPlaces, Over, SendRequest
<1>2. DownStep
  <2>1. broker.pinned \in Abouts /\ Reviewed \in Abouts
    BY SessionAssumption DEF Brokers, Abouts
  <2>2. Request \in Frames /\ AsksForReviewed(Request)
    BY <2>1, FrameMade DEF Kinds, Request, AsksForReviewed
  <2> QED BY <2>2 DEF DownStep, SendRequest
<1>3. UpStep
  BY PlainMade DEF UpStep, Truthful, Kinds, SendRequest
<1>4. Scalars'
  <2>1. broker' \in Brokers
    BY ZenonT(60) DEF Brokers, BrokerPlaces, Errors, Abouts, SendRequest
  <2>2. helper' \in Helpers
    BY DEF HelperPlaces, Before, Working, Knowing, Over, Outcomes, SendRequest
  <2> QED BY <2>1, <2>2 DEF Errors, Outcomes, SendRequest
<1>5. StartOK'
  BY ZenonT(60) DEF StartOK, Brokers, Helpers, SendRequest
<1>6. HelperOK'
  BY DEF HelperOK, Permitted, Matches, ConsentMatches, Helpers, Before, Working, Knowing,
         Actions, Mutations, SendRequest
<1>7. BrokerOK'
  BY <1>1, ToldKept DEF BrokerOK, StartOK, Brokers, SendRequest
<1>8. ReportIsTrue'
  BY DEF ReportIsTrue, BrokerOK, StartOK, Ended, SendRequest
<1> QED BY <1>1, <1>2, <1>3, <1>4, <1>5, <1>6, <1>7, <1>8 DEF Good

LEMMA HelperGivesUpGood ==
  ASSUME IInv, HelperGivesUp
  PROVE  Good
<1>1. Kept
  BY DEF Kept, Helpers, Before, Working, Knowing, HelperPlaces, Over, HelperGivesUp
<1>2. DownStep
  BY PlainMade DEF DownStep, AsksForReviewed, Kinds, HelperGivesUp
<1>3. UpStep
  BY PlainMade DEF UpStep, Truthful, Kinds, HelperGivesUp
<1>4. Scalars'
  <2>1. broker' \in Brokers
    BY DEF BrokerPlaces, Errors, Abouts, HelperGivesUp
  <2>2. helper' \in Helpers
    BY DEF Helpers, HelperPlaces, Before, Working, Knowing, Over, Outcomes, HelperGivesUp
  <2> QED BY <2>1, <2>2 DEF Errors, Outcomes, HelperGivesUp
<1>5. StartOK'
  BY DEF StartOK, Brokers, Helpers, HelperGivesUp
<1>6. HelperOK'
  BY DEF HelperOK, Permitted, Matches, ConsentMatches, Helpers, Before, Working, Knowing,
         Actions, Mutations, HelperGivesUp
<1>7. BrokerOK'
  BY <1>1, ToldKept DEF BrokerOK, StartOK, Brokers, HelperGivesUp
<1>8. ReportIsTrue'
  BY DEF ReportIsTrue, BrokerOK, StartOK, Ended, HelperGivesUp
<1> QED BY <1>1, <1>2, <1>3, <1>4, <1>5, <1>6, <1>7, <1>8 DEF Good

LEMMA AuthorizeGood ==
  ASSUME IInv, Authorize
  PROVE  Good
<1>1. Kept
  BY DEF Kept, Helpers, Before, Working, Knowing, HelperPlaces, Over, Authorize
<1>2. DownStep
  BY PlainMade DEF DownStep, AsksForReviewed, Kinds, Authorize
<1>3. UpStep
  <2> DEFINE answer == Frame("authorized", job.action, helper.package, "prepared")
  <2>1. answer \in Frames /\ answer.kind = "authorized" /\ answer.with = "prepared"
    BY FrameMade DEF Helpers, Kinds, Answers
  <2> HIDE DEF answer
  <2>2. UNCHANGED up \/ up' = Append(up, answer)
    BY DEF Authorize, answer
  <2>3. \A f : f = answer => Truthful(f)'
    BY <2>1 DEF Truthful
  <2> QED BY <2>1, <2>2, <2>3 DEF UpStep
<1>4. Scalars'
  <2>1. broker' \in Brokers
    BY DEF BrokerPlaces, Errors, Abouts, Authorize
  <2>2. helper' \in Helpers
    BY DEF Helpers, HelperPlaces, Before, Working, Knowing, Over, Outcomes, Authorize
  <2> QED BY <2>1, <2>2 DEF Errors, Outcomes, Authorize
<1>5. StartOK'
  BY DEF StartOK, Brokers, Helpers, Authorize
<1>6. HelperOK'
  BY DEF HelperOK, Permitted, Matches, ConsentMatches, Helpers, Before, Working, Knowing,
         Actions, Mutations, Authorize
<1>7. BrokerOK'
  BY <1>1, ToldKept DEF BrokerOK, StartOK, Brokers, Authorize
<1>8. ReportIsTrue'
  BY DEF ReportIsTrue, BrokerOK, StartOK, Ended, Authorize
<1> QED BY <1>1, <1>2, <1>3, <1>4, <1>5, <1>6, <1>7, <1>8 DEF Good

LEMMA LaunchGood ==
  ASSUME IInv, Launch
  PROVE  Good
<1>1. Kept
  BY DEF Kept, Helpers, Before, Working, Knowing, HelperPlaces, Over, Launch
<1>2. DownStep
  BY PlainMade DEF DownStep, AsksForReviewed, Kinds, Launch
<1>3. UpStep
  BY PlainMade DEF UpStep, Truthful, Kinds, Launch
<1>4. Scalars'
  <2>1. broker' \in Brokers
    BY DEF BrokerPlaces, Errors, Abouts, Launch
  <2>2. helper' \in Helpers
    BY ZenonT(60) DEF Helpers, HelperPlaces, Before, Working, Knowing, Over, Outcomes, Launch
  <2> QED BY <2>1, <2>2 DEF Errors, Outcomes, Launch
<1>5. StartOK'
  BY DEF StartOK, Brokers, Helpers, Launch
<1>6. HelperOK'
  BY DEF HelperOK, Permitted, Matches, ConsentMatches, Helpers, Before, Working, Knowing,
         Actions, Mutations, Launch
<1>7. BrokerOK'
  BY <1>1, ToldKept DEF BrokerOK, StartOK, Brokers, Launch
<1>8. ReportIsTrue'
  BY DEF ReportIsTrue, BrokerOK, StartOK, Ended, Launch
<1> QED BY <1>1, <1>2, <1>3, <1>4, <1>5, <1>6, <1>7, <1>8 DEF Good

LEMMA CommitGood ==
  ASSUME IInv, Commit
  PROVE  Good
<1>1. Kept
  BY DEF Kept, Helpers, Before, Working, Knowing, HelperPlaces, Over, Commit
<1>2. DownStep
  BY PlainMade DEF DownStep, AsksForReviewed, Kinds, Commit
<1>3. UpStep
  BY PlainMade DEF UpStep, Truthful, Kinds, Commit
<1>4. Scalars'
  <2>1. broker' \in Brokers
    BY DEF BrokerPlaces, Errors, Abouts, Commit
  <2>2. helper' \in Helpers
    BY DEF Helpers, HelperPlaces, Before, Working, Knowing, Over, Outcomes, Commit
  <2> QED BY <2>1, <2>2 DEF Errors, Outcomes, Commit
<1>5. StartOK'
  BY DEF StartOK, Brokers, Helpers, Commit
<1>6. HelperOK'
  BY DEF HelperOK, Permitted, Matches, ConsentMatches, Helpers, Before, Working, Knowing,
         Actions, Mutations, Commit
<1>7. BrokerOK'
  BY <1>1, ToldKept DEF BrokerOK, StartOK, Brokers, Commit
<1>8. ReportIsTrue'
  BY DEF ReportIsTrue, BrokerOK, StartOK, Ended, Commit
<1> QED BY <1>1, <1>2, <1>3, <1>4, <1>5, <1>6, <1>7, <1>8 DEF Good

LEMMA RollbackGood ==
  ASSUME IInv, Rollback
  PROVE  Good
<1>1. Kept
  BY DEF Kept, Helpers, Before, Working, Knowing, HelperPlaces, Over, Rollback
<1>2. DownStep
  BY PlainMade DEF DownStep, AsksForReviewed, Kinds, Rollback
<1>3. UpStep
  BY PlainMade DEF UpStep, Truthful, Kinds, Rollback
<1>4. Scalars'
  <2>1. broker' \in Brokers
    BY DEF BrokerPlaces, Errors, Abouts, Rollback
  <2>2. helper' \in Helpers
    BY ZenonT(60) DEF Helpers, HelperPlaces, Before, Working, Knowing, Over, Outcomes, Rollback
  <2> QED BY <2>1, <2>2 DEF Errors, Outcomes, Rollback
<1>5. StartOK'
  BY DEF StartOK, Brokers, Helpers, Rollback
<1>6. HelperOK'
  BY ZenonT(60) DEF HelperOK, Permitted, Matches, ConsentMatches, Helpers, Before, Working, Knowing,
         Actions, Mutations, Rollback
<1>7. BrokerOK'
  BY <1>1, ToldKept DEF BrokerOK, StartOK, Brokers, Rollback
<1>8. ReportIsTrue'
  BY DEF ReportIsTrue, BrokerOK, StartOK, Ended, Rollback
<1> QED BY <1>1, <1>2, <1>3, <1>4, <1>5, <1>6, <1>7, <1>8 DEF Good

LEMMA RequireTransportGood ==
  ASSUME IInv, RequireTransport
  PROVE  Good
<1>1. Kept
  BY DEF Kept, Helpers, Before, Working, Knowing, HelperPlaces, Over, RequireTransport
<1>2. DownStep
  BY PlainMade DEF DownStep, AsksForReviewed, Kinds, RequireTransport
<1>3. UpStep
  BY PlainMade DEF UpStep, Truthful, Kinds, RequireTransport
<1>4. Scalars'
  <2>1. broker' \in Brokers
    BY DEF BrokerPlaces, Errors, Abouts, RequireTransport
  <2>2. helper' \in Helpers
    BY DEF Helpers, HelperPlaces, Before, Working, Knowing, Over, Outcomes, RequireTransport
  <2> QED BY <2>1, <2>2 DEF Errors, Outcomes, RequireTransport
<1>5. StartOK'
  BY DEF StartOK, Brokers, Helpers, RequireTransport
<1>6. HelperOK'
  BY DEF HelperOK, Permitted, Matches, ConsentMatches, Helpers, Before, Working, Knowing,
         Actions, Mutations, RequireTransport
<1>7. BrokerOK'
  BY <1>1, ToldKept DEF BrokerOK, StartOK, Brokers, RequireTransport
<1>8. ReportIsTrue'
  BY DEF ReportIsTrue, BrokerOK, StartOK, Ended, RequireTransport
<1> QED BY <1>1, <1>2, <1>3, <1>4, <1>5, <1>6, <1>7, <1>8 DEF Good

LEMMA LastFrameGood ==
  ASSUME IInv, LastFrame
  PROVE  Good
<1>1. Kept
  BY DEF Kept, Helpers, Before, Working, Knowing, HelperPlaces, Over, LastFrame
<1>2. DownStep
  BY PlainMade DEF DownStep, AsksForReviewed, Kinds, LastFrame
<1>3. UpStep
  <2> DEFINE answer == IF helper.outcome = "ok" THEN Complete ELSE Failed
  <2>1. helper.package \in Abouts /\ helper.outcome \in Outcomes /\ helper.pc = "last"
    BY DEF Helpers, LastFrame
  <2>2. answer \in Frames /\ answer.kind = "last" /\ answer.with = helper.outcome
    <3>1. None \in Abouts
      BY DEF Abouts
    <3> QED BY <2>1, <3>1, FrameMade DEF Kinds, Answers, Outcomes, Complete, Failed
  <2> HIDE DEF answer
  <2>3. \/ UNCHANGED up
        \/ up' = Append(up, answer) /\ helper'.pc = "exit" /\ UNCHANGED <<job, tree>>
    BY DEF Helpers, LastFrame, answer
  <2>4. Matches(helper.outcome)
    BY <2>1 DEF HelperOK, Knowing
  <2>5. ASSUME helper'.pc = "exit", UNCHANGED <<job, tree>>, NEW f, f.kind = "last",
               f.with = helper.outcome
        PROVE  Truthful(f)'
    BY <2>1, <2>4, <2>5 DEF Truthful, Told, Matches, Over
  <2> QED BY <2>2, <2>3, <2>5 DEF UpStep
<1>4. Scalars'
  <2>1. broker' \in Brokers
    BY DEF BrokerPlaces, Errors, Abouts, LastFrame
  <2>2. helper' \in Helpers
    BY ZenonT(60) DEF Helpers, HelperPlaces, Before, Working, Knowing, Over, Outcomes, LastFrame
  <2> QED BY <2>1, <2>2 DEF Errors, Outcomes, LastFrame
<1>5. StartOK'
  BY DEF StartOK, Brokers, Helpers, LastFrame
<1>6. HelperOK'
  BY DEF HelperOK, Permitted, Matches, ConsentMatches, Helpers, Before, Working, Knowing,
         Actions, Mutations, LastFrame
<1>7. BrokerOK'
  BY <1>1, ToldKept DEF BrokerOK, StartOK, Brokers, LastFrame
<1>8. ReportIsTrue'
  BY DEF ReportIsTrue, BrokerOK, StartOK, Ended, LastFrame
<1> QED BY <1>1, <1>2, <1>3, <1>4, <1>5, <1>6, <1>7, <1>8 DEF Good

LEMMA ExitGood ==
  ASSUME IInv, Exit
  PROVE  Good
<1>1. Kept
  BY DEF Kept, Helpers, Before, Working, Knowing, HelperPlaces, Over, Exit
<1>2. DownStep
  BY PlainMade DEF DownStep, AsksForReviewed, Kinds, Exit
<1>3. UpStep
  BY PlainMade DEF UpStep, Truthful, Kinds, Exit
<1>4. Scalars'
  <2>1. broker' \in Brokers
    BY DEF BrokerPlaces, Errors, Abouts, Exit
  <2>2. helper' \in Helpers
    BY DEF Helpers, HelperPlaces, Before, Working, Knowing, Over, Outcomes, Exit
  <2> QED BY <2>1, <2>2 DEF Errors, Outcomes, Exit
<1>5. StartOK'
  BY DEF StartOK, Brokers, Helpers, Exit
<1>6. HelperOK'
  BY DEF HelperOK, Permitted, Matches, ConsentMatches, Helpers, Before, Working, Knowing,
         Actions, Mutations, Exit
<1>7. BrokerOK'
  BY <1>1, ToldKept DEF BrokerOK, StartOK, Brokers, Exit
<1>8. ReportIsTrue'
  BY DEF ReportIsTrue, BrokerOK, StartOK, Ended, Exit
<1> QED BY <1>1, <1>2, <1>3, <1>4, <1>5, <1>6, <1>7, <1>8 DEF Good

LEMMA RequestCancelGood ==
  ASSUME IInv, RequestCancel
  PROVE  Good
<1>1. Kept
  BY DEF Kept, Helpers, Before, Working, Knowing, HelperPlaces, Over, RequestCancel
<1>2. DownStep
  BY PlainMade DEF DownStep, AsksForReviewed, Kinds, RequestCancel
<1>3. UpStep
  BY PlainMade DEF UpStep, Truthful, Kinds, RequestCancel
<1>4. Scalars'
  <2>1. broker' \in Brokers
    BY DEF BrokerPlaces, Errors, Abouts, RequestCancel
  <2>2. helper' \in Helpers
    BY DEF HelperPlaces, Before, Working, Knowing, Over, Outcomes, RequestCancel
  <2> QED BY <2>1, <2>2 DEF Errors, Outcomes, RequestCancel
<1>5. StartOK'
  BY DEF StartOK, Brokers, Helpers, RequestCancel
<1>6. HelperOK'
  BY DEF HelperOK, Permitted, Matches, ConsentMatches, Helpers, Before, Working, Knowing,
         Actions, Mutations, RequestCancel
<1>7. BrokerOK'
  BY <1>1, ToldKept DEF BrokerOK, StartOK, Brokers, RequestCancel
<1>8. ReportIsTrue'
  BY DEF ReportIsTrue, BrokerOK, StartOK, Ended, RequestCancel
<1> QED BY <1>1, <1>2, <1>3, <1>4, <1>5, <1>6, <1>7, <1>8 DEF Good

LEMMA ReplacePackageGood ==
  ASSUME IInv, ReplacePackage
  PROVE  Good
<1>1. Kept
  BY DEF Kept, Helpers, Before, Working, Knowing, HelperPlaces, Over, ReplacePackage
<1>2. DownStep
  BY PlainMade DEF DownStep, AsksForReviewed, Kinds, ReplacePackage
<1>3. UpStep
  BY PlainMade DEF UpStep, Truthful, Kinds, ReplacePackage
<1>4. Scalars'
  <2>1. broker' \in Brokers
    BY DEF BrokerPlaces, Errors, Abouts, ReplacePackage
  <2>2. helper' \in Helpers
    BY DEF HelperPlaces, Before, Working, Knowing, Over, Outcomes, ReplacePackage
  <2> QED BY <2>1, <2>2 DEF Errors, Outcomes, ReplacePackage
<1>5. StartOK'
  BY DEF StartOK, Brokers, Helpers, ReplacePackage
<1>6. HelperOK'
  BY DEF HelperOK, Permitted, Matches, ConsentMatches, Helpers, Before, Working, Knowing,
         Actions, Mutations, ReplacePackage
<1>7. BrokerOK'
  BY <1>1, ToldKept DEF BrokerOK, StartOK, Brokers, ReplacePackage
<1>8. ReportIsTrue'
  BY DEF ReportIsTrue, BrokerOK, StartOK, Ended, ReplacePackage
<1> QED BY <1>1, <1>2, <1>3, <1>4, <1>5, <1>6, <1>7, <1>8 DEF Good

LEMMA SetupDiesGood ==
  ASSUME IInv, SetupDies
  PROVE  Good
<1>1. Kept
  BY DEF Kept, Helpers, Before, Working, Knowing, HelperPlaces, Over, SetupDies
<1>2. DownStep
  BY PlainMade DEF DownStep, AsksForReviewed, Kinds, SetupDies
<1>3. UpStep
  BY PlainMade DEF UpStep, Truthful, Kinds, SetupDies
<1>4. Scalars'
  <2>1. broker' \in Brokers
    BY DEF Brokers, BrokerPlaces, Errors, Abouts, SetupDies
  <2>2. helper' \in Helpers
    BY DEF HelperPlaces, Before, Working, Knowing, Over, Outcomes, SetupDies
  <2> QED BY <2>1, <2>2 DEF Errors, Outcomes, SetupDies
<1>5. StartOK'
  BY DEF StartOK, Brokers, Helpers, SetupDies
<1>6. HelperOK'
  BY DEF HelperOK, Permitted, Matches, ConsentMatches, Helpers, Before, Working, Knowing,
         Actions, Mutations, SetupDies
<1>7. BrokerOK'
  BY <1>1, ToldKept DEF BrokerOK, StartOK, Brokers, SetupDies
<1>8. ReportIsTrue'
  BY DEF ReportIsTrue, BrokerOK, StartOK, Ended, SetupDies
<1> QED BY <1>1, <1>2, <1>3, <1>4, <1>5, <1>6, <1>7, <1>8 DEF Good

LEMMA HelperDiesGood ==
  ASSUME IInv, HelperDies
  PROVE  Good
<1>1. Kept
  BY DEF Kept, Helpers, Before, Working, Knowing, HelperPlaces, Over, HelperDies
<1>2. DownStep
  BY PlainMade DEF DownStep, AsksForReviewed, Kinds, HelperDies
<1>3. UpStep
  BY PlainMade DEF UpStep, Truthful, Kinds, HelperDies
<1>4. Scalars'
  <2>1. broker' \in Brokers
    BY DEF BrokerPlaces, Errors, Abouts, HelperDies
  <2>2. helper' \in Helpers
    BY DEF Helpers, HelperPlaces, Before, Working, Knowing, Over, Outcomes, HelperDies
  <2> QED BY <2>1, <2>2 DEF Errors, Outcomes, HelperDies
<1>5. StartOK'
  BY DEF StartOK, Brokers, Helpers, HelperDies
<1>6. HelperOK'
  BY DEF HelperOK, Permitted, Matches, ConsentMatches, Helpers, Before, Working, Knowing,
         Actions, Mutations, HelperDies
<1>7. BrokerOK'
  BY <1>1, ToldKept DEF BrokerOK, StartOK, Brokers, HelperDies
<1>8. ReportIsTrue'
  BY DEF ReportIsTrue, BrokerOK, StartOK, Ended, HelperDies
<1> QED BY <1>1, <1>2, <1>3, <1>4, <1>5, <1>6, <1>7, <1>8 DEF Good

LEMMA ProgressGood ==
  ASSUME IInv, Progress
  PROVE  Good
<1> DEFINE next == [helper EXCEPT !.pc = "checkpoint", !.events = helper.events + 1]
<1>1. Event(next) /\ helper.pc = "progress" /\ process = "running"
  BY DEF Progress
<1>2. /\ next \in Helpers /\ next.pc = "checkpoint"
      /\ next.package = helper.package /\ next.outcome = helper.outcome
  BY OneMoreEvent DEF HelperPlaces, Working, Knowing
<1> HIDE DEF next
<1>3. /\ helper' \in Helpers /\ helper'.pc = next.pc
      /\ helper'.package = helper.package /\ helper'.outcome = helper.outcome
      /\ UNCHANGED up \/ up' = Append(up, Plain("event"))
  BY <1>1, <1>2, EventMoves
<1>4. UNCHANGED <<platform, setup, broker, process, ends, down>> /\ tree' \in {"changing", tree}
  BY DEF Progress
<1>5. Plain("event") \in Frames /\ Plain("event").kind = "event"
  BY PlainMade DEF Kinds
<1>6. Kept
  BY <1>1, <1>4 DEF Kept, Over
<1>7. DownStep
  BY <1>4 DEF DownStep
<1>8. UpStep
  <2>1. \A f : f.kind = "event" => Truthful(f)'
    BY DEF Truthful
  <2> QED BY <1>3, <1>5, <2>1 DEF UpStep
<1>9. Scalars'
  BY <1>3, <1>4
<1>10. StartOK'
  BY <1>1, <1>4 DEF StartOK
<1>11. HelperOK'
  BY <1>1, <1>2, <1>3, <1>4
  DEF HelperOK, Permitted, Matches, ConsentMatches, Before, Working, Knowing, Actions
<1>12. BrokerOK'
  BY <1>4, <1>6, ToldKept DEF BrokerOK
<1>13. ReportIsTrue'
  BY <1>1, <1>4 DEF ReportIsTrue, Ended
<1> QED BY <1>6, <1>7, <1>8, <1>9, <1>10, <1>11, <1>12, <1>13 DEF Good

LEMMA LastPhaseGood ==
  ASSUME IInv, LastPhase
  PROVE  Good
<1> DEFINE next == [helper EXCEPT !.pc = "transport"]
<1>1. Event(next) /\ helper.pc = "ended" /\ process = "running"
  BY DEF LastPhase
<1>2. /\ next \in Helpers /\ next.pc = "transport"
      /\ next.package = helper.package /\ next.outcome = helper.outcome
  BY DEF Helpers, HelperPlaces, Working, Knowing
<1> HIDE DEF next
<1>3. /\ helper' \in Helpers /\ helper'.pc = next.pc
      /\ helper'.package = helper.package /\ helper'.outcome = helper.outcome
      /\ UNCHANGED up \/ up' = Append(up, Plain("event"))
  BY <1>1, <1>2, EventMoves
<1>4. UNCHANGED <<platform, setup, broker, process, ends, down>> /\ UNCHANGED tree
  BY DEF LastPhase
<1>5. Plain("event") \in Frames /\ Plain("event").kind = "event"
  BY PlainMade DEF Kinds
<1>6. Kept
  BY <1>1, <1>4 DEF Kept, Over
<1>7. DownStep
  BY <1>4 DEF DownStep
<1>8. UpStep
  <2>1. \A f : f.kind = "event" => Truthful(f)'
    BY DEF Truthful
  <2> QED BY <1>3, <1>5, <2>1 DEF UpStep
<1>9. Scalars'
  BY <1>3, <1>4
<1>10. StartOK'
  BY <1>1, <1>4 DEF StartOK
<1>11. HelperOK'
  BY <1>1, <1>2, <1>3, <1>4
  DEF HelperOK, Permitted, Matches, ConsentMatches, Before, Working, Knowing, Actions
<1>12. BrokerOK'
  BY <1>4, <1>6, ToldKept DEF BrokerOK
<1>13. ReportIsTrue'
  BY <1>1, <1>4 DEF ReportIsTrue, Ended
<1> QED BY <1>6, <1>7, <1>8, <1>9, <1>10, <1>11, <1>12, <1>13 DEF Good

(* A request is taken, or refused.                                          *)
LEMMA TakeRequestGood ==
  ASSUME IInv, NEW pinned, NEW trusted, TakeRequest(pinned, trusted)
  PROVE  Good
<1>a. Head(down) \in Frames /\ AsksForReviewed(Head(down))
  BY TakeOne DEF FramesOK, TakeRequest
<1>1. Kept
  BY DEF Kept, Helpers, Before, Working, Knowing, HelperPlaces, Over, TakeRequest,
         RequestMatches, Authorized, ConsentMatches
<1>2. DownStep
  BY PlainMade
  DEF DownStep, AsksForReviewed, Kinds, TakeRequest, RequestMatches, Authorized,
      ConsentMatches
<1>3. UpStep
  BY PlainMade
  DEF UpStep, Truthful, Kinds, TakeRequest, RequestMatches, Authorized, ConsentMatches
<1>4. Scalars'
  <2>1. broker' \in Brokers
    BY DEF BrokerPlaces, Errors, Abouts, TakeRequest, RequestMatches, Authorized,
           ConsentMatches
  <2>2. helper' \in Helpers
    <3>1. \A pc \in HelperPlaces, p \in Packages, yes \in BOOLEAN :
            [helper EXCEPT !.pc = pc, !.package = p, !.reader = yes] \in Helpers
      BY HelperUpdates DEF Abouts
    <3>2. [helper EXCEPT !.pc = "gone"] \in Helpers
      BY HelperUpdates DEF HelperPlaces, Over
    <3> DEFINE at  == IF job.action \in Mutations THEN "checkpoint" ELSE job.action
               yes == ~On("windows") /\ job.action \in Mutations
    <3>3. at \in HelperPlaces /\ yes \in BOOLEAN
      BY DEF HelperPlaces, Working, Before
    <3>4. \/ helper' = [helper EXCEPT !.pc = "gone"]
          \/ pinned \in Packages
             /\ helper' = [helper EXCEPT !.pc = at, !.package = pinned, !.reader = yes]
      BY DEF TakeRequest, RequestMatches, Authorized
    <3> HIDE DEF at, yes
    <3>5. ASSUME pinned \in Packages
          PROVE  [helper EXCEPT !.pc = at, !.package = pinned, !.reader = yes] \in Helpers
      BY <3>1, <3>3, <3>5
    <3> QED BY <3>2, <3>4, <3>5
  <2> QED BY <2>1, <2>2
          DEF Errors, Outcomes, TakeRequest, RequestMatches, Authorized, ConsentMatches
<1>5. StartOK'
  BY DEF StartOK, Brokers, Helpers, TakeRequest, RequestMatches, Authorized, ConsentMatches
<1>6. HelperOK'
  BY ZenonT(60), <1>a
  DEF HelperOK, Permitted, Matches, AsksForReviewed, Helpers, Before, Working, Knowing,
      Actions, Mutations, TakeRequest, RequestMatches, Authorized, ConsentMatches
<1>7. BrokerOK'
  BY <1>1, ToldKept
  DEF BrokerOK, StartOK, Brokers, TakeRequest, RequestMatches, Authorized, ConsentMatches
<1>8. ReportIsTrue'
  BY DEF ReportIsTrue, BrokerOK, StartOK, Ended, TakeRequest, RequestMatches, Authorized,
         ConsentMatches
<1> QED BY <1>1, <1>2, <1>3, <1>4, <1>5, <1>6, <1>7, <1>8 DEF Good

(* The helper looks whether it is cancelled, and goes on or back.           *)
LEMMA CheckpointGood ==
  ASSUME IInv, NEW cancelled, Checkpoint(cancelled),
         UNCHANGED down \/ (down # <<>> /\ down' = Tail(down))
  PROVE  Good
<1>1. /\ helper.pc = "checkpoint" /\ process = "running"
      /\ \/ \E pc \in {"rollback", "progress", "commit"} : helper' = [helper EXCEPT !.pc = pc]
         \/ helper' = [helper EXCEPT !.pc = "rollback", !.outcome = "cancelled", !.cancelled = TRUE]
  BY DEF Checkpoint
<1>2. /\ helper' \in Helpers /\ helper'.pc \in Working /\ helper'.package = helper.package
      /\ helper'.outcome \in {helper.outcome, "cancelled"}
  <2>1. \A pc \in {"rollback", "progress", "commit"} :
          LET next == [helper EXCEPT !.pc = pc]
          IN  /\ next \in Helpers /\ next.pc \in Working /\ next.package = helper.package
              /\ next.outcome = helper.outcome
    BY DEF Helpers, HelperPlaces, Working
  <2>2. LET next == [helper EXCEPT !.pc = "rollback", !.outcome = "cancelled", !.cancelled = TRUE]
        IN  /\ next \in Helpers /\ next.pc \in Working /\ next.package = helper.package
            /\ next.outcome = "cancelled"
    BY DEF Helpers, HelperPlaces, Working, Outcomes
  <2> QED BY ZenonT(60), <1>1, <2>1, <2>2
<1>3. UNCHANGED <<platform, setup, broker, process, ends, up, tree>>
  BY DEF Checkpoint
<1>4. Kept /\ DownStep /\ UpStep
  BY <1>1, <1>3 DEF Kept, Over, DownStep, UpStep
<1>5. Scalars'
  BY <1>2, <1>3
<1>6. StartOK'
  BY <1>1, <1>3 DEF StartOK
<1>7. HelperOK'
  <2>1. Permitted /\ helper.outcome \in {"failed", "cancelled"}
    BY <1>1 DEF HelperOK, Working
  <2> QED BY <1>2, <1>3, <2>1
          DEF HelperOK, Permitted, ConsentMatches, Before, Working, Knowing, Actions
<1>8. BrokerOK'
  BY <1>3, <1>4, ToldKept DEF BrokerOK
<1>9. ReportIsTrue'
  BY <1>3 DEF ReportIsTrue, Ended
<1> QED BY <1>4, <1>5, <1>6, <1>7, <1>8, <1>9 DEF Good

(* What a thread may tell Setup: of an end that was told, or of none.       *)
TrueReport(r) ==
  /\ r \in Answers \cup Errors
  /\ r \in Answers => Ended
  /\ Matches(r)

LEMMA LastIsTrue ==
  ASSUME IInv, broker.pc = "finish", Ended
  PROVE  TrueReport(broker.last.with)
BY DEF BrokerOK, TrueReport, Told, Matches, Answers, Outcomes

(* A thread that knows of no end, or of a refusal, tells of an error.       *)
LEMMA ErrorIsTrue ==
  ASSUME IInv, NEW code \in Errors, code = "cancelled" => process = "declined"
  PROVE  TrueReport(code)
BY DEF StartOK, TrueReport, Matches, Answers, Outcomes, Errors, Ended

LEMMA BrokerErrorIsTrue ==
  ASSUME IInv
  PROVE  TrueReport(broker.error)
<1>1. broker.error \in Errors
  BY DEF Brokers
<1> QED BY <1>1, ErrorIsTrue DEF BrokerOK

LEMMA ReportsGood ==
  ASSUME IInv, NEW r, TrueReport(r), Reports(r),
         UNCHANGED <<platform, job, package, cancel, process, helper, down, up, tree>>
  PROVE  Good
<1>1. /\ broker' = [broker EXCEPT !.pc = "done", !.pinned = None]
      /\ report' = r /\ ends' = ends \ {"broker"}
  BY DEF Reports
<1>2. broker' \in Brokers /\ broker'.pc = "done" /\ broker'.error = broker.error
  BY <1>1 DEF Brokers, BrokerPlaces, Abouts
<1>3. Kept /\ DownStep /\ UpStep
  BY DEF Kept, DownStep, UpStep
<1>4. Scalars'
  BY <1>1, <1>2 DEF TrueReport
<1>5. StartOK'
  BY <1>1, <1>2 DEF StartOK
<1>6. HelperOK'
  BY DEF HelperOK, Permitted, ConsentMatches, Matches
<1>7. BrokerOK'
  BY <1>2 DEF BrokerOK
<1>8. ReportIsTrue'
  BY <1>1 DEF ReportIsTrue, TrueReport, Matches, Ended, Answers, Outcomes
<1> QED BY <1>3, <1>4, <1>5, <1>6, <1>7, <1>8 DEF Good

(* A process is started, by a thread that waits for it or gives it up.      *)
LEMMA StartsGood ==
  ASSUME IInv, broker.pc = "start", DownStep,
         UNCHANGED <<platform, job, package, cancel, report, up, tree>>,
         broker' \in {[broker EXCEPT !.pc = "connect"], [broker EXCEPT !.pc = "ready"],
                      [broker EXCEPT !.pc = "abort", !.error = "backend_unavailable"]},
         ends' \subseteq {"broker", "helper"},
         \/ process' = "prompt" /\ On("linux") /\ UNCHANGED helper
         \/ /\ process' = "running"
            /\ On("macos") => "helper" \in ends'
            /\ helper' \in {[helper EXCEPT !.pc = "connect"], [helper EXCEPT !.pc = "challenge"]}
  PROVE  Good
<1>1. process = "none" /\ helper.pc = "none"
  BY DEF StartOK
<1>2. /\ broker' \in Brokers /\ broker'.pc \in {"connect", "ready", "abort"}
      /\ broker'.error \in {broker.error, "backend_unavailable"}
  BY ZenonT(60) DEF Brokers, BrokerPlaces, Errors
<1>3. /\ helper' \in Helpers /\ helper'.pc \in {"none", "connect", "challenge"}
      /\ helper'.package = helper.package /\ helper'.outcome = helper.outcome
      /\ process' = "prompt" => helper'.pc = "none"
  BY <1>1 DEF Helpers, HelperPlaces, Before
<1>4. Kept /\ UpStep
  BY <1>1 DEF Kept, UpStep, Over
<1>5. Scalars'
  BY <1>2, <1>3
<1>6. StartOK'
  BY <1>2, <1>3 DEF StartOK
<1>7. HelperOK'
  BY <1>1, <1>3 DEF HelperOK, Before, Working, Knowing, Actions, Permitted, ConsentMatches
<1>8. report = "none"
  BY DEF BrokerOK
<1>9. BrokerOK'
  BY <1>1, <1>2, <1>8 DEF BrokerOK
<1>10. ReportIsTrue'
  BY <1>8 DEF ReportIsTrue
<1> QED BY <1>4, <1>5, <1>6, <1>7, <1>9, <1>10 DEF Good


-----------------------------------------------------------------------------
(* Windows.                                                                 *)
USE DEF Windows!setup, Windows!transport, Windows!On, Windows!BrokerAt, Windows!BrokerGoes,
        Windows!BrokerFails, Windows!BrokerSends, Windows!HelperAt, Windows!HelperGoes,
        Windows!Exits, Windows!HelperEnds, Windows!HelperSends, Windows!WriteFails,
        Windows!Sends

LEMMA WindowsFrames ==
  /\ Windows!Ready = Plain("ready") /\ Windows!Challenge = Plain("challenge")
  /\ Windows!Plain("accepted") = Plain("accepted")
BY DEF Windows!Ready, Windows!Challenge, Windows!Plain, Windows!Frame, Plain, Frame

LEMMA WindowsReports ==
  ASSUME NEW r, Windows!Reports(r)
  PROVE  Reports(r)
BY DEF Windows!Reports, Reports

LEMMA WindowsTakeRequest ==
  ASSUME NEW pinned, NEW trusted, Windows!TakeRequest(pinned, trusted)
  PROVE  TakeRequest(pinned, trusted)
<1>1. \A f : Windows!RequestMatches(f) <=> RequestMatches(f)
  BY DEF Windows!RequestMatches, RequestMatches
<1>2. \A f : Windows!Authorized(pinned, f.about) <=> Authorized(pinned, f.about)
  BY DEF Windows!Authorized, Authorized
<1>3. \A f : Windows!ConsentMatches(f.about) <=> ConsentMatches(f.about)
  BY DEF Windows!ConsentMatches, ConsentMatches
<1>4. Windows!Mutations = Mutations
  BY DEF Windows!Mutations, Mutations
<1> QED BY <1>1, <1>2, <1>3, <1>4 DEF Windows!TakeRequest, TakeRequest

LEMMA WindowsCheckpoint ==
  ASSUME NEW cancelled, Windows!Checkpoint(cancelled)
  PROVE  Checkpoint(cancelled)
BY DEF Windows!Checkpoint, Checkpoint

LEMMA WindowsWaitProcessGood ==
  ASSUME IInv, Windows!WaitProcess
  PROVE  Good
<1>1. PICK r : Windows!Reports(r) /\ TrueReport(r)
  <2>1. TrueReport("backend_timeout") /\ TrueReport("backend_unavailable")
    BY ErrorIsTrue DEF Errors
  <2>2. process # "running" => Ended
    BY DEF StartOK, Windows!WaitProcess, Ended
  <2> QED BY <2>1, <2>2, BrokerErrorIsTrue, LastIsTrue DEF Windows!WaitProcess
<1> QED BY <1>1, WindowsReports, ReportsGood DEF Windows!WaitProcess

LEMMA WindowsBrokenPipeGood ==
  ASSUME IInv, Windows!BrokenPipe
  PROVE  Good
<1>1. Kept
  BY DEF Kept, Helpers, Before, Working, Knowing, HelperPlaces, Over, Windows!BrokenPipe,
         Windows!Polling
<1>2. DownStep
  BY WindowsFrames, PlainMade
  DEF DownStep, AsksForReviewed, Kinds, Windows!BrokenPipe, Windows!Polling
<1>3. UpStep
  BY WindowsFrames, PlainMade
  DEF UpStep, Truthful, Kinds, Windows!BrokenPipe, Windows!Polling
<1>4. Scalars'
  <2>1. broker' \in Brokers
    BY DEF Brokers, BrokerPlaces, Errors, Abouts, Windows!BrokenPipe, Windows!Polling
  <2>2. helper' \in Helpers
    BY DEF HelperPlaces, Before, Working, Knowing, Over, Outcomes, Windows!BrokenPipe,
           Windows!Polling
  <2> QED BY <2>1, <2>2 DEF Errors, Outcomes, Windows!BrokenPipe, Windows!Polling
<1>5. StartOK'
  BY DEF StartOK, Brokers, Helpers, Windows!BrokenPipe, Windows!Polling
<1>6. HelperOK'
  BY DEF HelperOK, Permitted, Matches, ConsentMatches, Helpers, Before, Working, Knowing,
         Actions, Mutations, Windows!BrokenPipe, Windows!Polling
<1>7. BrokerOK'
  BY <1>1, ToldKept DEF BrokerOK, StartOK, Brokers, Windows!BrokenPipe, Windows!Polling
<1>8. ReportIsTrue'
  BY DEF ReportIsTrue, BrokerOK, StartOK, Ended, Windows!BrokenPipe, Windows!Polling
<1> QED BY <1>1, <1>2, <1>3, <1>4, <1>5, <1>6, <1>7, <1>8 DEF Good

LEMMA WindowsTerminateProcessGood ==
  ASSUME IInv, Windows!TerminateProcess
  PROVE  Good
<1>1. Kept
  BY DEF Kept, Helpers, Before, Working, Knowing, HelperPlaces, Over,
         Windows!TerminateProcess
<1>2. DownStep
  BY WindowsFrames, PlainMade DEF DownStep, AsksForReviewed, Kinds, Windows!TerminateProcess
<1>3. UpStep
  BY WindowsFrames, PlainMade DEF UpStep, Truthful, Kinds, Windows!TerminateProcess
<1>4. Scalars'
  <2>1. broker' \in Brokers
    BY DEF Brokers, BrokerPlaces, Errors, Abouts, Windows!TerminateProcess
  <2>2. helper' \in Helpers
    BY DEF Helpers, HelperPlaces, Before, Working, Knowing, Over, Outcomes,
           Windows!TerminateProcess
  <2> QED BY <2>1, <2>2 DEF Errors, Outcomes, Windows!TerminateProcess
<1>5. StartOK'
  BY DEF StartOK, Brokers, Helpers, Windows!TerminateProcess
<1>6. HelperOK'
  BY DEF HelperOK, Permitted, Matches, ConsentMatches, Helpers, Before, Working, Knowing,
         Actions, Mutations, Windows!TerminateProcess
<1>7. BrokerOK'
  BY <1>1, ToldKept DEF BrokerOK, StartOK, Brokers, Windows!TerminateProcess
<1>8. ReportIsTrue'
  BY DEF ReportIsTrue, BrokerOK, StartOK, Ended, Windows!TerminateProcess
<1> QED BY <1>1, <1>2, <1>3, <1>4, <1>5, <1>6, <1>7, <1>8 DEF Good

LEMMA WindowsHelperConnectsGood ==
  ASSUME IInv, Windows!HelperConnects
  PROVE  Good
<1>1. Kept
  BY DEF Kept, Helpers, Before, Working, Knowing, HelperPlaces, Over, Windows!HelperConnects
<1>2. DownStep
  BY WindowsFrames, PlainMade DEF DownStep, AsksForReviewed, Kinds, Windows!HelperConnects
<1>3. UpStep
  BY WindowsFrames, PlainMade DEF UpStep, Truthful, Kinds, Windows!HelperConnects
<1>4. Scalars'
  <2>1. broker' \in Brokers
    BY DEF BrokerPlaces, Errors, Abouts, Windows!HelperConnects
  <2>2. helper' \in Helpers
    BY DEF Helpers, HelperPlaces, Before, Working, Knowing, Over, Outcomes,
           Windows!HelperConnects
  <2> QED BY <2>1, <2>2 DEF Errors, Outcomes, Windows!HelperConnects
<1>5. StartOK'
  BY DEF StartOK, Brokers, Helpers, Windows!HelperConnects
<1>6. HelperOK'
  BY DEF HelperOK, Permitted, Matches, ConsentMatches, Helpers, Before, Working, Knowing,
         Actions, Mutations, Windows!HelperConnects
<1>7. BrokerOK'
  BY <1>1, ToldKept DEF BrokerOK, StartOK, Brokers, Windows!HelperConnects
<1>8. ReportIsTrue'
  BY DEF ReportIsTrue, BrokerOK, StartOK, Ended, Windows!HelperConnects
<1> QED BY <1>1, <1>2, <1>3, <1>4, <1>5, <1>6, <1>7, <1>8 DEF Good

LEMMA WindowsHelperReadyGood ==
  ASSUME IInv, Windows!HelperReady
  PROVE  Good
<1>1. Kept
  BY DEF Kept, Helpers, Before, Working, Knowing, HelperPlaces, Over, Windows!HelperReady,
         Windows!ChallengeMatches
<1>2. DownStep
  BY WindowsFrames, PlainMade
  DEF DownStep, AsksForReviewed, Kinds, Windows!HelperReady, Windows!ChallengeMatches
<1>3. UpStep
  <2>1. Plain("ready") \in Frames /\ Plain("ready").kind = "ready"
    BY PlainMade DEF Kinds
  <2>2. UNCHANGED up \/ up' = Append(up, Plain("ready"))
    BY WindowsFrames DEF Windows!HelperReady
  <2> QED BY <2>1, <2>2 DEF UpStep, Truthful
<1>4. Scalars'
  <2>1. broker' \in Brokers
    BY DEF BrokerPlaces, Errors, Abouts, Windows!HelperReady, Windows!ChallengeMatches
  <2>2. helper' \in Helpers
    BY DEF Helpers, HelperPlaces, Before, Working, Knowing, Over, Outcomes,
           Windows!HelperReady, Windows!ChallengeMatches
  <2> QED BY <2>1, <2>2 DEF Errors, Outcomes, Windows!HelperReady, Windows!ChallengeMatches
<1>5. StartOK'
  BY DEF StartOK, Brokers, Helpers, Windows!HelperReady, Windows!ChallengeMatches
<1>6. HelperOK'
  BY DEF HelperOK, Permitted, Matches, ConsentMatches, Helpers, Before, Working, Knowing,
         Actions, Mutations, Windows!HelperReady, Windows!ChallengeMatches
<1>7. BrokerOK'
  BY <1>1, ToldKept
  DEF BrokerOK, StartOK, Brokers, Windows!HelperReady, Windows!ChallengeMatches
<1>8. ReportIsTrue'
  BY DEF ReportIsTrue, BrokerOK, StartOK, Ended, Windows!HelperReady,
         Windows!ChallengeMatches
<1> QED BY <1>1, <1>2, <1>3, <1>4, <1>5, <1>6, <1>7, <1>8 DEF Good

LEMMA WindowsHelperAcceptedGood ==
  ASSUME IInv, Windows!HelperAccepted
  PROVE  Good
<1>1. Kept
  BY DEF Kept, Helpers, Before, Working, Knowing, HelperPlaces, Over, Windows!HelperAccepted
<1>2. DownStep
  BY WindowsFrames, PlainMade DEF DownStep, AsksForReviewed, Kinds, Windows!HelperAccepted
<1>3. UpStep
  BY WindowsFrames, PlainMade DEF UpStep, Truthful, Kinds, Windows!HelperAccepted
<1>4. Scalars'
  <2>1. broker' \in Brokers
    BY DEF BrokerPlaces, Errors, Abouts, Windows!HelperAccepted
  <2>2. helper' \in Helpers
    BY DEF Helpers, HelperPlaces, Before, Working, Knowing, Over, Outcomes,
           Windows!HelperAccepted
  <2> QED BY <2>1, <2>2 DEF Errors, Outcomes, Windows!HelperAccepted
<1>5. StartOK'
  BY DEF StartOK, Brokers, Helpers, Windows!HelperAccepted
<1>6. HelperOK'
  BY DEF HelperOK, Permitted, Matches, ConsentMatches, Helpers, Before, Working, Knowing,
         Actions, Mutations, Windows!HelperAccepted
<1>7. BrokerOK'
  BY <1>1, ToldKept DEF BrokerOK, StartOK, Brokers, Windows!HelperAccepted
<1>8. ReportIsTrue'
  BY DEF ReportIsTrue, BrokerOK, StartOK, Ended, Windows!HelperAccepted
<1> QED BY <1>1, <1>2, <1>3, <1>4, <1>5, <1>6, <1>7, <1>8 DEF Good

LEMMA WindowsAcceptHelperGood ==
  ASSUME IInv, Windows!AcceptHelper
  PROVE  Good
<1>1. Kept
  BY DEF Kept, Helpers, Before, Working, Knowing, HelperPlaces, Over, Windows!AcceptHelper
<1>2. DownStep
  BY WindowsFrames, PlainMade DEF DownStep, AsksForReviewed, Kinds, Windows!AcceptHelper
<1>3. UpStep
  BY WindowsFrames, PlainMade DEF UpStep, Truthful, Kinds, Windows!AcceptHelper
<1>4. Scalars'
  <2>1. broker' \in Brokers
    BY ZenonT(60) DEF Brokers, BrokerPlaces, Errors, Abouts, Windows!AcceptHelper
  <2>2. helper' \in Helpers
    BY DEF HelperPlaces, Before, Working, Knowing, Over, Outcomes, Windows!AcceptHelper
  <2> QED BY <2>1, <2>2 DEF Errors, Outcomes, Windows!AcceptHelper
<1>5. StartOK'
  BY DEF StartOK, Brokers, Helpers, Windows!AcceptHelper
<1>6. HelperOK'
  BY DEF HelperOK, Permitted, Matches, ConsentMatches, Helpers, Before, Working, Knowing,
         Actions, Mutations, Windows!AcceptHelper
<1>7. BrokerOK'
  BY <1>1, ToldKept DEF BrokerOK, StartOK, Brokers, Windows!AcceptHelper
<1>8. ReportIsTrue'
  BY DEF ReportIsTrue, BrokerOK, StartOK, Ended, Windows!AcceptHelper
<1> QED BY <1>1, <1>2, <1>3, <1>4, <1>5, <1>6, <1>7, <1>8 DEF Good

LEMMA WindowsAcceptGood ==
  ASSUME IInv, Windows!Accept
  PROVE  Good
<1>a. \/ broker' = [broker EXCEPT !.pc = "abort", !.error = "backend_unavailable"]
      \/ broker' = [broker EXCEPT !.pc = "request"]
      \/ \E f \in Frames : f.with = "verified" /\ broker' = [broker EXCEPT !.pc = "finish", !.last = f]
  <2>1. Windows!Frame("last", "probe", None, "verified") \in Frames
    BY DEF Windows!Frame, Frames, Kinds, Actions, Abouts, Answers
  <2>2. Windows!Frame("last", "probe", None, "verified").with = "verified"
    BY DEF Windows!Frame
  <2> QED BY <2>1, <2>2 DEF Windows!Accept, Windows!Verified
<1>b. broker' \in Brokers
  BY ZenonT(60), <1>a DEF Brokers, BrokerPlaces, Errors
<1>1. Kept
  BY DEF Kept, Helpers, Before, Working, Knowing, HelperPlaces, Over, Windows!Accept,
         Windows!ReadyMatches, Windows!Verified
<1>2. DownStep
  BY WindowsFrames, PlainMade
  DEF DownStep, AsksForReviewed, Kinds, Windows!Accept, Windows!ReadyMatches,
      Windows!Verified
<1>3. UpStep
  BY WindowsFrames, PlainMade
  DEF UpStep, Truthful, Kinds, Windows!Accept, Windows!ReadyMatches, Windows!Verified
<1>4. Scalars'
  <2>1. broker' \in Brokers
    BY <1>b
  <2>2. helper' \in Helpers
    BY DEF HelperPlaces, Before, Working, Knowing, Over, Outcomes, Windows!Accept,
           Windows!ReadyMatches, Windows!Verified
  <2> QED BY <2>1, <2>2
          DEF Errors, Outcomes, Windows!Accept, Windows!ReadyMatches, Windows!Verified
<1>5. StartOK'
  BY DEF StartOK, Brokers, Helpers, Windows!Accept, Windows!ReadyMatches, Windows!Verified
<1>6. HelperOK'
  BY DEF HelperOK, Permitted, Matches, ConsentMatches, Helpers, Before, Working, Knowing,
         Actions, Mutations, Windows!Accept, Windows!ReadyMatches, Windows!Verified
<1>7. BrokerOK'
  <2>1. /\ broker'.error \in {broker.error, "backend_unavailable"}
        /\ broker'.pc = "finish" => broker'.last.with = "verified"
    BY <1>a DEF Brokers
  <2> QED BY <2>1 DEF BrokerOK, Windows!Accept
<1>8. ReportIsTrue'
  BY DEF ReportIsTrue, BrokerOK, StartOK, Ended, Windows!Accept, Windows!ReadyMatches,
         Windows!Verified
<1> QED BY <1>1, <1>2, <1>3, <1>4, <1>5, <1>6, <1>7, <1>8 DEF Good

LEMMA WindowsLaunchElevatedGood ==
  ASSUME IInv, Windows!LaunchElevated
  PROVE  Good
<1>1. broker.pc = "start" /\ UNCHANGED <<platform, job, package, cancel, up, tree>>
  BY DEF Windows!LaunchElevated
<1>2. CASE Windows!Reports("backend_unavailable") /\ UNCHANGED <<process, helper>>
  BY <1>2, WindowsReports, ReportsGood, ErrorIsTrue DEF Errors, Windows!LaunchElevated
<1>3. CASE /\ process' = "running" /\ helper' = [helper EXCEPT !.pc = "connect"] /\ ends' = {"broker"}
           /\ \/ broker' = [broker EXCEPT !.pc = "connect"]
              \/ broker' = [broker EXCEPT !.pc = "abort", !.error = "backend_unavailable"]
           /\ UNCHANGED report
  BY <1>1, <1>3, StartsGood DEF DownStep, Windows!LaunchElevated
<1>4. CASE process' = "declined" /\ Windows!Reports("cancelled") /\ UNCHANGED helper
  <2>1. process = "none" /\ helper.pc = "none" /\ tree = "before" /\ UNCHANGED down
    BY <1>1 DEF StartOK, HelperOK, Before, Windows!LaunchElevated
  <2>2. broker' = [broker EXCEPT !.pc = "done", !.pinned = None] /\ report' = "cancelled"
        /\ ends' = ends \ {"broker"}
    BY <1>4, WindowsReports DEF Reports
  <2>3. broker' \in Brokers /\ broker'.pc = "done" /\ broker'.error = broker.error
    BY <2>2 DEF Brokers, BrokerPlaces, Abouts
  <2>4. Kept /\ DownStep /\ UpStep
    BY <1>1, <1>4, <2>1 DEF Kept, DownStep, UpStep
  <2>5. Scalars'
    BY <1>1, <1>4, <2>2, <2>3 DEF Answers, Outcomes
  <2>6. StartOK'
    BY <1>1, <1>4, <2>1, <2>3 DEF StartOK
  <2>7. HelperOK'
    BY <1>1, <1>4 DEF HelperOK, Permitted, ConsentMatches, Matches
  <2>8. BrokerOK'
    BY <1>4, <2>3 DEF BrokerOK
  <2>9. ReportIsTrue'
    BY <1>1, <1>4, <2>1, <2>2 DEF ReportIsTrue, Ended
  <2> QED BY <2>4, <2>5, <2>6, <2>7, <2>8, <2>9 DEF Good
<1> QED BY <1>2, <1>3, <1>4 DEF Windows!LaunchElevated

-----------------------------------------------------------------------------
(* Linux.                                                                   *)
USE DEF Linux!setup, Linux!transport, Linux!On, Linux!BrokerAt, Linux!BrokerGoes,
        Linux!BrokerFails, Linux!BrokerSends, Linux!HelperAt, Linux!HelperGoes,
        Linux!Exits, Linux!HelperEnds, Linux!HelperSends, Linux!WriteFails, Linux!Sends

LEMMA LinuxFrames ==
  /\ Linux!Ready = Plain("ready") /\ Linux!Challenge = Plain("challenge")
  /\ Linux!Plain("accepted") = Plain("accepted")
BY DEF Linux!Ready, Linux!Challenge, Linux!Plain, Linux!Frame, Plain, Frame

LEMMA LinuxReports ==
  ASSUME NEW r, Linux!Reports(r)
  PROVE  Reports(r)
BY DEF Linux!Reports, Reports

LEMMA LinuxTakeRequest ==
  ASSUME NEW pinned, NEW trusted, Linux!TakeRequest(pinned, trusted)
  PROVE  TakeRequest(pinned, trusted)
<1>1. \A f : Linux!RequestMatches(f) <=> RequestMatches(f)
  BY DEF Linux!RequestMatches, RequestMatches
<1>2. \A f : Linux!Authorized(pinned, f.about) <=> Authorized(pinned, f.about)
  BY DEF Linux!Authorized, Authorized
<1>3. \A f : Linux!ConsentMatches(f.about) <=> ConsentMatches(f.about)
  BY DEF Linux!ConsentMatches, ConsentMatches
<1>4. Linux!Mutations = Mutations
  BY DEF Linux!Mutations, Mutations
<1> QED BY <1>1, <1>2, <1>3, <1>4 DEF Linux!TakeRequest, TakeRequest

LEMMA LinuxCheckpoint ==
  ASSUME NEW cancelled, Linux!Checkpoint(cancelled)
  PROVE  Checkpoint(cancelled)
BY DEF Linux!Checkpoint, Checkpoint

LEMMA LinuxWaitGood ==
  ASSUME IInv, Linux!Wait
  PROVE  Good
<1>1. Linux!Reports(broker.error)
  BY DEF Linux!Wait
<1> QED BY <1>1, BrokerErrorIsTrue, LinuxReports, ReportsGood DEF Linux!Wait

LEMMA LinuxAuthenticateHelperGood ==
  ASSUME IInv, Linux!AuthenticateHelper
  PROVE  Good
<1>1. Kept
  BY DEF Kept, Helpers, Before, Working, Knowing, HelperPlaces, Over,
         Linux!AuthenticateHelper, Linux!ReadyMatches
<1>2. DownStep
  BY LinuxFrames, PlainMade
  DEF DownStep, AsksForReviewed, Kinds, Linux!AuthenticateHelper, Linux!ReadyMatches
<1>3. UpStep
  BY LinuxFrames, PlainMade
  DEF UpStep, Truthful, Kinds, Linux!AuthenticateHelper, Linux!ReadyMatches
<1>4. Scalars'
  <2>1. broker' \in Brokers
    BY ZenonT(60) DEF Brokers, BrokerPlaces, Errors, Abouts, Linux!AuthenticateHelper,
           Linux!ReadyMatches
  <2>2. helper' \in Helpers
    BY DEF HelperPlaces, Before, Working, Knowing, Over, Outcomes, Linux!AuthenticateHelper,
           Linux!ReadyMatches
  <2> QED BY <2>1, <2>2 DEF Errors, Outcomes, Linux!AuthenticateHelper, Linux!ReadyMatches
<1>5. StartOK'
  BY DEF StartOK, Brokers, Helpers, Linux!AuthenticateHelper, Linux!ReadyMatches
<1>6. HelperOK'
  BY DEF HelperOK, Permitted, Matches, ConsentMatches, Helpers, Before, Working, Knowing,
         Actions, Mutations, Linux!AuthenticateHelper, Linux!ReadyMatches
<1>7. BrokerOK'
  BY <1>1, ToldKept
  DEF BrokerOK, StartOK, Brokers, Linux!AuthenticateHelper, Linux!ReadyMatches
<1>8. ReportIsTrue'
  BY DEF ReportIsTrue, BrokerOK, StartOK, Ended, Linux!AuthenticateHelper,
         Linux!ReadyMatches
<1> QED BY <1>1, <1>2, <1>3, <1>4, <1>5, <1>6, <1>7, <1>8 DEF Good

LEMMA LinuxNoFrameGood ==
  ASSUME IInv, Linux!NoFrame
  PROVE  Good
<1>1. Kept
  BY DEF Kept, Helpers, Before, Working, Knowing, HelperPlaces, Over, Linux!NoFrame,
         Linux!Polling
<1>2. DownStep
  BY LinuxFrames, PlainMade
  DEF DownStep, AsksForReviewed, Kinds, Linux!NoFrame, Linux!Polling
<1>3. UpStep
  BY LinuxFrames, PlainMade DEF UpStep, Truthful, Kinds, Linux!NoFrame, Linux!Polling
<1>4. Scalars'
  <2>1. broker' \in Brokers
    BY DEF Brokers, BrokerPlaces, Errors, Abouts, Linux!NoFrame, Linux!Polling
  <2>2. helper' \in Helpers
    BY DEF HelperPlaces, Before, Working, Knowing, Over, Outcomes, Linux!NoFrame,
           Linux!Polling
  <2> QED BY <2>1, <2>2 DEF Errors, Outcomes, Linux!NoFrame, Linux!Polling
<1>5. StartOK'
  BY DEF StartOK, Brokers, Helpers, Linux!NoFrame, Linux!Polling
<1>6. HelperOK'
  BY DEF HelperOK, Permitted, Matches, ConsentMatches, Helpers, Before, Working, Knowing,
         Actions, Mutations, Linux!NoFrame, Linux!Polling
<1>7. BrokerOK'
  BY <1>1, ToldKept DEF BrokerOK, StartOK, Brokers, Linux!NoFrame, Linux!Polling
<1>8. ReportIsTrue'
  BY DEF ReportIsTrue, BrokerOK, StartOK, Ended, Linux!NoFrame, Linux!Polling
<1> QED BY <1>1, <1>2, <1>3, <1>4, <1>5, <1>6, <1>7, <1>8 DEF Good

LEMMA LinuxTryWaitGood ==
  ASSUME IInv, Linux!TryWait
  PROVE  Good
<1>1. Kept
  BY DEF Kept, Helpers, Before, Working, Knowing, HelperPlaces, Over, Linux!TryWait,
         Linux!Running, Linux!ExitError
<1>2. DownStep
  BY LinuxFrames, PlainMade
  DEF DownStep, AsksForReviewed, Kinds, Linux!TryWait, Linux!Running, Linux!ExitError
<1>3. UpStep
  BY LinuxFrames, PlainMade
  DEF UpStep, Truthful, Kinds, Linux!TryWait, Linux!Running, Linux!ExitError
<1>4. Scalars'
  <2>1. broker' \in Brokers
    BY ZenonT(60) DEF Brokers, BrokerPlaces, Errors, Abouts, Linux!TryWait, Linux!Running,
           Linux!ExitError
  <2>2. helper' \in Helpers
    BY DEF HelperPlaces, Before, Working, Knowing, Over, Outcomes, Linux!TryWait,
           Linux!Running, Linux!ExitError
  <2> QED BY <2>1, <2>2 DEF Errors, Outcomes, Linux!TryWait, Linux!Running, Linux!ExitError
<1>5. StartOK'
  BY DEF StartOK, Brokers, Helpers, Linux!TryWait, Linux!Running, Linux!ExitError
<1>6. HelperOK'
  BY DEF HelperOK, Permitted, Matches, ConsentMatches, Helpers, Before, Working, Knowing,
         Actions, Mutations, Linux!TryWait, Linux!Running, Linux!ExitError
<1>7. BrokerOK'
  BY <1>1, ToldKept
  DEF BrokerOK, StartOK, Brokers, Linux!TryWait, Linux!Running, Linux!ExitError
<1>8. ReportIsTrue'
  BY DEF ReportIsTrue, BrokerOK, StartOK, Ended, Linux!TryWait, Linux!Running,
         Linux!ExitError
<1> QED BY <1>1, <1>2, <1>3, <1>4, <1>5, <1>6, <1>7, <1>8 DEF Good

LEMMA LinuxKillGood ==
  ASSUME IInv, Linux!Kill
  PROVE  Good
<1>1. Kept
  BY DEF Kept, Helpers, Before, Working, Knowing, HelperPlaces, Over, Linux!Kill
<1>2. DownStep
  BY LinuxFrames, PlainMade DEF DownStep, AsksForReviewed, Kinds, Linux!Kill
<1>3. UpStep
  BY LinuxFrames, PlainMade DEF UpStep, Truthful, Kinds, Linux!Kill
<1>4. Scalars'
  <2>1. broker' \in Brokers
    BY DEF Brokers, BrokerPlaces, Errors, Abouts, Linux!Kill
  <2>2. helper' \in Helpers
    BY DEF Helpers, HelperPlaces, Before, Working, Knowing, Over, Outcomes, Linux!Kill
  <2> QED BY <2>1, <2>2 DEF Errors, Outcomes, Linux!Kill
<1>5. StartOK'
  BY DEF StartOK, Brokers, Helpers, Linux!Kill
<1>6. HelperOK'
  BY DEF HelperOK, Permitted, Matches, ConsentMatches, Helpers, Before, Working, Knowing,
         Actions, Mutations, Linux!Kill
<1>7. BrokerOK'
  BY <1>1, ToldKept DEF BrokerOK, StartOK, Brokers, Linux!Kill
<1>8. ReportIsTrue'
  BY DEF ReportIsTrue, BrokerOK, StartOK, Ended, Linux!Kill
<1> QED BY <1>1, <1>2, <1>3, <1>4, <1>5, <1>6, <1>7, <1>8 DEF Good

LEMMA LinuxHelperReadyGood ==
  ASSUME IInv, Linux!HelperReady
  PROVE  Good
<1>1. Kept
  BY DEF Kept, Helpers, Before, Working, Knowing, HelperPlaces, Over, Linux!HelperReady,
         Linux!ChallengeMatches
<1>2. DownStep
  BY LinuxFrames, PlainMade
  DEF DownStep, AsksForReviewed, Kinds, Linux!HelperReady, Linux!ChallengeMatches
<1>3. UpStep
  <2>1. Plain("ready") \in Frames /\ Plain("ready").kind = "ready"
    BY PlainMade DEF Kinds
  <2>2. UNCHANGED up \/ up' = Append(up, Plain("ready"))
    BY LinuxFrames DEF Linux!HelperReady
  <2> QED BY <2>1, <2>2 DEF UpStep, Truthful
<1>4. Scalars'
  <2>1. broker' \in Brokers
    BY DEF BrokerPlaces, Errors, Abouts, Linux!HelperReady, Linux!ChallengeMatches
  <2>2. helper' \in Helpers
    BY ZenonT(60) DEF Helpers, HelperPlaces, Before, Working, Knowing, Over, Outcomes,
           Linux!HelperReady, Linux!ChallengeMatches
  <2> QED BY <2>1, <2>2 DEF Errors, Outcomes, Linux!HelperReady, Linux!ChallengeMatches
<1>5. StartOK'
  BY DEF StartOK, Brokers, Helpers, Linux!HelperReady, Linux!ChallengeMatches
<1>6. HelperOK'
  BY DEF HelperOK, Permitted, Matches, ConsentMatches, Helpers, Before, Working, Knowing,
         Actions, Mutations, Linux!HelperReady, Linux!ChallengeMatches
<1>7. BrokerOK'
  BY <1>1, ToldKept
  DEF BrokerOK, StartOK, Brokers, Linux!HelperReady, Linux!ChallengeMatches
<1>8. ReportIsTrue'
  BY DEF ReportIsTrue, BrokerOK, StartOK, Ended, Linux!HelperReady, Linux!ChallengeMatches
<1> QED BY <1>1, <1>2, <1>3, <1>4, <1>5, <1>6, <1>7, <1>8 DEF Good

LEMMA LinuxCancelReaderGood ==
  ASSUME IInv, Linux!CancelReader
  PROVE  Good
<1>1. Kept
  BY DEF Kept, Helpers, Before, Working, Knowing, HelperPlaces, Over, Linux!CancelReader,
         Linux!CancelMatches
<1>2. DownStep
  BY LinuxFrames, PlainMade
  DEF DownStep, AsksForReviewed, Kinds, Linux!CancelReader, Linux!CancelMatches
<1>3. UpStep
  BY LinuxFrames, PlainMade
  DEF UpStep, Truthful, Kinds, Linux!CancelReader, Linux!CancelMatches
<1>4. Scalars'
  <2>1. broker' \in Brokers
    BY DEF BrokerPlaces, Errors, Abouts, Linux!CancelReader, Linux!CancelMatches
  <2>2. helper' \in Helpers
    BY DEF Helpers, HelperPlaces, Before, Working, Knowing, Over, Outcomes,
           Linux!CancelReader, Linux!CancelMatches
  <2> QED BY <2>1, <2>2 DEF Errors, Outcomes, Linux!CancelReader, Linux!CancelMatches
<1>5. StartOK'
  BY DEF StartOK, Brokers, Helpers, Linux!CancelReader, Linux!CancelMatches
<1>6. HelperOK'
  BY DEF HelperOK, Permitted, Matches, ConsentMatches, Helpers, Before, Working, Knowing,
         Actions, Mutations, Linux!CancelReader, Linux!CancelMatches
<1>7. BrokerOK'
  BY <1>1, ToldKept DEF BrokerOK, StartOK, Brokers, Linux!CancelReader, Linux!CancelMatches
<1>8. ReportIsTrue'
  BY DEF ReportIsTrue, BrokerOK, StartOK, Ended, Linux!CancelReader, Linux!CancelMatches
<1> QED BY <1>1, <1>2, <1>3, <1>4, <1>5, <1>6, <1>7, <1>8 DEF Good

LEMMA LinuxPolkitGood ==
  ASSUME IInv, Linux!Polkit
  PROVE  Good
<1>1. Kept
  BY DEF StartOK, Kept, Over, Linux!Polkit
<1>2. DownStep
  BY LinuxFrames, PlainMade DEF DownStep, AsksForReviewed, Kinds, Linux!Polkit
<1>3. UpStep
  BY LinuxFrames, PlainMade DEF UpStep, Truthful, Kinds, Linux!Polkit
<1>4. Scalars'
  <2>1. broker' \in Brokers
    BY DEF BrokerPlaces, Errors, Abouts, Linux!Polkit
  <2>2. helper' \in Helpers
    BY DEF Helpers, HelperPlaces, Before, Working, Knowing, Over, Outcomes, Linux!Polkit
  <2> QED BY <2>1, <2>2 DEF Errors, Outcomes, Linux!Polkit
<1>5. StartOK'
  BY DEF StartOK, HelperOK, Helpers, Before, Linux!Polkit
<1>6. HelperOK'
  BY DEF StartOK, HelperOK, Permitted, Matches, ConsentMatches, Helpers, Before, Working,
         Knowing, Actions, Linux!Polkit
<1>7. BrokerOK'
  BY <1>1, ToldKept DEF BrokerOK, StartOK, Brokers, Linux!Polkit
<1>8. ReportIsTrue'
  BY DEF ReportIsTrue, BrokerOK, StartOK, Ended, Linux!Polkit
<1> QED BY <1>1, <1>2, <1>3, <1>4, <1>5, <1>6, <1>7, <1>8 DEF Good

LEMMA LinuxLaunchHelperGood ==
  ASSUME IInv, Linux!LaunchHelper
  PROVE  Good
<1>1. broker.pc = "start" /\ UNCHANGED <<platform, job, package, cancel, up, tree>>
  BY DEF Linux!LaunchHelper
<1>2. CASE Linux!Reports("backend_unavailable") /\ UNCHANGED <<process, down>>
  BY <1>2, LinuxReports, ReportsGood, ErrorIsTrue DEF Errors, Linux!LaunchHelper
<1>3. CASE /\ process' = "prompt" /\ ends' = {"broker", "helper"} /\ down' = <<Linux!Challenge>>
           /\ broker' = [broker EXCEPT !.pc = "ready"] /\ UNCHANGED report
  <2>1. DownStep
    BY <1>3, PlainMade, LinuxFrames DEF DownStep, AsksForReviewed, Kinds
  <2> QED BY <1>1, <1>3, <2>1, StartsGood DEF Linux!LaunchHelper
<1> QED BY <1>2, <1>3 DEF Linux!LaunchHelper

LEMMA LinuxWaitChildGood ==
  ASSUME IInv, Linux!WaitChild
  PROVE  Good
<1>1. CASE Linux!Running
  <2>1. broker' = [broker EXCEPT !.pc = "abort", !.error = "backend_timeout"]
        /\ UNCHANGED <<report, ends>>
    BY <1>1 DEF Linux!WaitChild
  <2>2. broker' \in Brokers /\ broker'.pc = "abort" /\ broker'.error = "backend_timeout"
    BY <2>1 DEF Brokers, BrokerPlaces, Errors
  <2>3. UNCHANGED <<platform, job, package, cancel, process, helper, down, up, tree>>
        /\ broker.pc = "finish"
    BY DEF Linux!WaitChild
  <2>4. Kept /\ DownStep /\ UpStep /\ Scalars'
    BY <2>1, <2>2, <2>3 DEF Kept, DownStep, UpStep
  <2>5. StartOK' /\ HelperOK'
    BY <2>1, <2>2, <2>3 DEF StartOK, HelperOK, Permitted, ConsentMatches, Matches
  <2>6. BrokerOK' /\ ReportIsTrue'
    BY <2>1, <2>2, <2>3 DEF BrokerOK, ReportIsTrue, Ended
  <2> QED BY <2>4, <2>5, <2>6 DEF Good
<1>2. CASE ~Linux!Running
  <2>1. PICK r : Linux!Reports(r) /\ TrueReport(r)
    <3>1. Ended /\ broker.pc = "finish"
      BY <1>2 DEF Ended, Linux!Running, Linux!WaitChild
    <3>2. TrueReport(Linux!ExitError)
      BY ErrorIsTrue DEF Linux!ExitError, Errors
    <3> QED BY <1>2, <3>1, <3>2, LastIsTrue DEF Linux!WaitChild
  <2> QED BY <2>1, LinuxReports, ReportsGood DEF Linux!WaitChild
<1> QED BY <1>1, <1>2

-----------------------------------------------------------------------------
(* Macos.                                                                   *)
USE DEF Macos!setup, Macos!transport, Macos!On, Macos!BrokerAt, Macos!BrokerGoes,
        Macos!BrokerFails, Macos!BrokerSends, Macos!HelperAt, Macos!HelperGoes,
        Macos!Exits, Macos!HelperEnds, Macos!HelperSends, Macos!WriteFails, Macos!Sends

LEMMA MacosFrames ==
  /\ Macos!Ready = Plain("ready") /\ Macos!Challenge = Plain("challenge")
  /\ Macos!Plain("accepted") = Plain("accepted")
BY DEF Macos!Ready, Macos!Challenge, Macos!Plain, Macos!Frame, Plain, Frame

LEMMA MacosReports ==
  ASSUME NEW r, Macos!Reports(r)
  PROVE  Reports(r)
BY DEF Macos!Reports, Reports

LEMMA MacosTakeRequest ==
  ASSUME NEW pinned, NEW trusted, Macos!TakeRequest(pinned, trusted)
  PROVE  TakeRequest(pinned, trusted)
<1>1. \A f : Macos!RequestMatches(f) <=> RequestMatches(f)
  BY DEF Macos!RequestMatches, RequestMatches
<1>2. \A f : Macos!Authorized(pinned, f.about) <=> Authorized(pinned, f.about)
  BY DEF Macos!Authorized, Authorized
<1>3. \A f : Macos!ConsentMatches(f.about) <=> ConsentMatches(f.about)
  BY DEF Macos!ConsentMatches, ConsentMatches
<1>4. Macos!Mutations = Mutations
  BY DEF Macos!Mutations, Mutations
<1> QED BY <1>1, <1>2, <1>3, <1>4 DEF Macos!TakeRequest, TakeRequest

LEMMA MacosCheckpoint ==
  ASSUME NEW cancelled, Macos!Checkpoint(cancelled)
  PROVE  Checkpoint(cancelled)
BY DEF Macos!Checkpoint, Checkpoint

LEMMA MacosDropConnectionGood ==
  ASSUME IInv, Macos!DropConnection
  PROVE  Good
<1>1. Macos!Reports(broker.error)
  BY DEF Macos!DropConnection
<1> QED BY <1>1, BrokerErrorIsTrue, MacosReports, ReportsGood DEF Macos!DropConnection

LEMMA MacosFinishHelperGood ==
  ASSUME IInv, Macos!FinishHelper
  PROVE  Good
<1>1. PICK r : Macos!Reports(r) /\ TrueReport(r)
  <2>1. TrueReport("backend_unavailable")
    BY ErrorIsTrue DEF Errors
  <2>2. "helper" \notin ends => Ended
    BY DEF StartOK, Macos!FinishHelper, Ended
  <2> QED BY <2>1, <2>2, LastIsTrue DEF Macos!FinishHelper
<1> QED BY <1>1, MacosReports, ReportsGood DEF Macos!FinishHelper

LEMMA MacosVerifyHelperGood ==
  ASSUME IInv, Macos!VerifyHelper
  PROVE  Good
<1>1. Kept
  BY DEF Kept, Helpers, Before, Working, Knowing, HelperPlaces, Over, Macos!VerifyHelper,
         Macos!ReadyMatches
<1>2. DownStep
  BY MacosFrames, PlainMade
  DEF DownStep, AsksForReviewed, Kinds, Macos!VerifyHelper, Macos!ReadyMatches
<1>3. UpStep
  BY MacosFrames, PlainMade
  DEF UpStep, Truthful, Kinds, Macos!VerifyHelper, Macos!ReadyMatches
<1>4. Scalars'
  <2>1. broker' \in Brokers
    BY ZenonT(60) DEF Brokers, BrokerPlaces, Errors, Abouts, Macos!VerifyHelper, Macos!ReadyMatches
  <2>2. helper' \in Helpers
    BY DEF HelperPlaces, Before, Working, Knowing, Over, Outcomes, Macos!VerifyHelper,
           Macos!ReadyMatches
  <2> QED BY <2>1, <2>2 DEF Errors, Outcomes, Macos!VerifyHelper, Macos!ReadyMatches
<1>5. StartOK'
  BY DEF StartOK, Brokers, Helpers, Macos!VerifyHelper, Macos!ReadyMatches
<1>6. HelperOK'
  BY DEF HelperOK, Permitted, Matches, ConsentMatches, Helpers, Before, Working, Knowing,
         Actions, Mutations, Macos!VerifyHelper, Macos!ReadyMatches
<1>7. BrokerOK'
  BY <1>1, ToldKept DEF BrokerOK, StartOK, Brokers, Macos!VerifyHelper, Macos!ReadyMatches
<1>8. ReportIsTrue'
  BY DEF ReportIsTrue, BrokerOK, StartOK, Ended, Macos!VerifyHelper, Macos!ReadyMatches
<1> QED BY <1>1, <1>2, <1>3, <1>4, <1>5, <1>6, <1>7, <1>8 DEF Good

LEMMA MacosEndOfFileGood ==
  ASSUME IInv, Macos!EndOfFile
  PROVE  Good
<1>1. Kept
  BY DEF Kept, Helpers, Before, Working, Knowing, HelperPlaces, Over, Macos!EndOfFile,
         Macos!Polling
<1>2. DownStep
  BY MacosFrames, PlainMade
  DEF DownStep, AsksForReviewed, Kinds, Macos!EndOfFile, Macos!Polling
<1>3. UpStep
  BY MacosFrames, PlainMade DEF UpStep, Truthful, Kinds, Macos!EndOfFile, Macos!Polling
<1>4. Scalars'
  <2>1. broker' \in Brokers
    BY DEF Brokers, BrokerPlaces, Errors, Abouts, Macos!EndOfFile, Macos!Polling
  <2>2. helper' \in Helpers
    BY DEF HelperPlaces, Before, Working, Knowing, Over, Outcomes, Macos!EndOfFile,
           Macos!Polling
  <2> QED BY <2>1, <2>2 DEF Errors, Outcomes, Macos!EndOfFile, Macos!Polling
<1>5. StartOK'
  BY DEF StartOK, Brokers, Helpers, Macos!EndOfFile, Macos!Polling
<1>6. HelperOK'
  BY DEF HelperOK, Permitted, Matches, ConsentMatches, Helpers, Before, Working, Knowing,
         Actions, Mutations, Macos!EndOfFile, Macos!Polling
<1>7. BrokerOK'
  BY <1>1, ToldKept DEF BrokerOK, StartOK, Brokers, Macos!EndOfFile, Macos!Polling
<1>8. ReportIsTrue'
  BY DEF ReportIsTrue, BrokerOK, StartOK, Ended, Macos!EndOfFile, Macos!Polling
<1> QED BY <1>1, <1>2, <1>3, <1>4, <1>5, <1>6, <1>7, <1>8 DEF Good

LEMMA MacosHelperReadyGood ==
  ASSUME IInv, Macos!HelperReady
  PROVE  Good
<1>1. Kept
  BY DEF Kept, Helpers, Before, Working, Knowing, HelperPlaces, Over, Macos!HelperReady,
         Macos!ChallengeMatches
<1>2. DownStep
  BY MacosFrames, PlainMade
  DEF DownStep, AsksForReviewed, Kinds, Macos!HelperReady, Macos!ChallengeMatches
<1>3. UpStep
  <2>1. Plain("ready") \in Frames /\ Plain("ready").kind = "ready"
    BY PlainMade DEF Kinds
  <2>2. UNCHANGED up \/ up' = Append(up, Plain("ready"))
    BY MacosFrames DEF Macos!HelperReady
  <2> QED BY <2>1, <2>2 DEF UpStep, Truthful
<1>4. Scalars'
  <2>1. broker' \in Brokers
    BY DEF BrokerPlaces, Errors, Abouts, Macos!HelperReady, Macos!ChallengeMatches
  <2>2. helper' \in Helpers
    BY ZenonT(60) DEF Helpers, HelperPlaces, Before, Working, Knowing, Over, Outcomes,
           Macos!HelperReady, Macos!ChallengeMatches
  <2> QED BY <2>1, <2>2 DEF Errors, Outcomes, Macos!HelperReady, Macos!ChallengeMatches
<1>5. StartOK'
  BY DEF StartOK, Brokers, Helpers, Macos!HelperReady, Macos!ChallengeMatches
<1>6. HelperOK'
  BY DEF HelperOK, Permitted, Matches, ConsentMatches, Helpers, Before, Working, Knowing,
         Actions, Mutations, Macos!HelperReady, Macos!ChallengeMatches
<1>7. BrokerOK'
  BY <1>1, ToldKept
  DEF BrokerOK, StartOK, Brokers, Macos!HelperReady, Macos!ChallengeMatches
<1>8. ReportIsTrue'
  BY DEF ReportIsTrue, BrokerOK, StartOK, Ended, Macos!HelperReady, Macos!ChallengeMatches
<1> QED BY <1>1, <1>2, <1>3, <1>4, <1>5, <1>6, <1>7, <1>8 DEF Good

LEMMA MacosCancelReaderGood ==
  ASSUME IInv, Macos!CancelReader
  PROVE  Good
<1>1. Kept
  BY DEF Kept, Helpers, Before, Working, Knowing, HelperPlaces, Over, Macos!CancelReader,
         Macos!CancelMatches
<1>2. DownStep
  BY MacosFrames, PlainMade
  DEF DownStep, AsksForReviewed, Kinds, Macos!CancelReader, Macos!CancelMatches
<1>3. UpStep
  BY MacosFrames, PlainMade
  DEF UpStep, Truthful, Kinds, Macos!CancelReader, Macos!CancelMatches
<1>4. Scalars'
  <2>1. broker' \in Brokers
    BY DEF BrokerPlaces, Errors, Abouts, Macos!CancelReader, Macos!CancelMatches
  <2>2. helper' \in Helpers
    BY ZenonT(60) DEF Helpers, HelperPlaces, Before, Working, Knowing, Over, Outcomes,
           Macos!CancelReader, Macos!CancelMatches
  <2> QED BY <2>1, <2>2 DEF Errors, Outcomes, Macos!CancelReader, Macos!CancelMatches
<1>5. StartOK'
  BY DEF StartOK, Brokers, Helpers, Macos!CancelReader, Macos!CancelMatches
<1>6. HelperOK'
  BY ZenonT(60) DEF HelperOK, Permitted, Matches, ConsentMatches, Helpers, Before, Working, Knowing,
         Actions, Mutations, Macos!CancelReader, Macos!CancelMatches
<1>7. BrokerOK'
  BY <1>1, ToldKept DEF BrokerOK, StartOK, Brokers, Macos!CancelReader, Macos!CancelMatches
<1>8. ReportIsTrue'
  BY DEF ReportIsTrue, BrokerOK, StartOK, Ended, Macos!CancelReader, Macos!CancelMatches
<1> QED BY <1>1, <1>2, <1>3, <1>4, <1>5, <1>6, <1>7, <1>8 DEF Good

LEMMA MacosConnectHelperGood ==
  ASSUME IInv, Macos!ConnectHelper
  PROVE  Good
<1>1. broker.pc = "start" /\ UNCHANGED <<platform, job, package, cancel, up, tree>>
  BY DEF Macos!ConnectHelper
<1>2. CASE Macos!Reports("backend_unavailable") /\ UNCHANGED <<process, helper, down>>
  BY <1>2, MacosReports, ReportsGood, ErrorIsTrue DEF Errors, Macos!ConnectHelper
<1>3. CASE /\ process' = "running" /\ helper' = [helper EXCEPT !.pc = "challenge"]
           /\ ends' = {"broker", "helper"} /\ down' = <<Macos!Challenge>>
           /\ broker' = [broker EXCEPT !.pc = "ready"] /\ UNCHANGED report
  <2>1. DownStep
    BY <1>3, PlainMade, MacosFrames DEF DownStep, AsksForReviewed, Kinds
  <2> QED BY <1>1, <1>3, <2>1, StartsGood
<1> QED BY <1>2, <1>3 DEF Macos!ConnectHelper

-----------------------------------------------------------------------------
(* Every step is one of these.                                              *)
LEMMA HelperTakesRequest ==
  ASSUME IInv, Windows!DuplicatePackage \/ Linux!ReceivePackage \/ Macos!ReceiveResource
  PROVE  Good
<1>1. CASE Windows!DuplicatePackage
  BY <1>1, WindowsTakeRequest, TakeRequestGood DEF Windows!DuplicatePackage
<1>2. CASE Linux!ReceivePackage
  BY <1>2, LinuxTakeRequest, TakeRequestGood DEF Linux!ReceivePackage
<1>3. CASE Macos!ReceiveResource
  BY <1>3, MacosTakeRequest, TakeRequestGood DEF Macos!ReceiveResource
<1> QED BY <1>1, <1>2, <1>3

LEMMA UnixCheckpoints ==
  ASSUME IInv, Linux!LoadCancelled \/ Macos!LoadCancelled
  PROVE  Good
<1>1. CASE Linux!LoadCancelled
  BY <1>1, LinuxCheckpoint, CheckpointGood DEF Linux!LoadCancelled
<1>2. CASE Macos!LoadCancelled
  BY <1>2, MacosCheckpoint, CheckpointGood DEF Macos!LoadCancelled
<1> QED BY <1>1, <1>2

(* On Windows a broken pipe is a cancellation that nobody asked for.        *)
LEMMA WindowsPollCancelGood ==
  ASSUME IInv, Windows!PollCancel
  PROVE  Good
<1>1. CASE Windows!Checkpoint(helper.cancelled) /\ UNCHANGED down
  BY <1>1, WindowsCheckpoint, CheckpointGood
<1>2. CASE down # <<>> /\ down' = Tail(down) /\ Windows!Checkpoint(TRUE)
  BY <1>2, WindowsCheckpoint, CheckpointGood
<1>3. CASE /\ helper.pc = "checkpoint"
           /\ helper' = [helper EXCEPT !.failed = TRUE, !.cancelled = TRUE]
           /\ UNCHANGED <<platform, job, package, cancel, report, broker, process, ends, down, up, tree>>
  <2>1. /\ helper' \in Helpers /\ helper'.pc = helper.pc /\ helper'.package = helper.package
        /\ helper'.outcome = helper.outcome
    BY <1>3 DEF Helpers
  <2>2. Kept /\ DownStep /\ UpStep /\ Scalars'
    BY <1>3, <2>1 DEF Kept, DownStep, UpStep
  <2>3. StartOK' /\ HelperOK'
    BY <1>3, <2>1 DEF StartOK, HelperOK, Permitted, ConsentMatches, Matches
  <2>4. BrokerOK' /\ ReportIsTrue'
    BY <1>3, <2>2, ToldKept DEF BrokerOK, ReportIsTrue, Ended
  <2> QED BY <2>2, <2>3, <2>4 DEF Good
<1> QED BY <1>1, <1>2, <1>3 DEF Windows!PollCancel

LEMMA BrokerStepGood ==
  ASSUME IInv, BrokerStep
  PROVE  Good
<1>1. CASE Windows!WindowsBroker
  BY <1>1, WindowsLaunchElevatedGood, WindowsAcceptHelperGood, WindowsAcceptGood,
     WindowsBrokenPipeGood, WindowsTerminateProcessGood, WindowsWaitProcessGood
  DEF Windows!WindowsBroker
<1>2. CASE Linux!LinuxBroker
  BY <1>2, LinuxLaunchHelperGood, LinuxAuthenticateHelperGood, LinuxNoFrameGood,
     LinuxTryWaitGood, LinuxKillGood, LinuxWaitGood, LinuxWaitChildGood
  DEF Linux!LinuxBroker
<1>3. CASE Macos!MacosBroker
  BY <1>3, MacosConnectHelperGood, MacosVerifyHelperGood, MacosEndOfFileGood,
     MacosDropConnectionGood, MacosFinishHelperGood
  DEF Macos!MacosBroker
<1> QED BY <1>1, <1>2, <1>3, StartSystemOperationGood, SendCancelGood, TakeFrameGood,
           TakeAuthorizedGood, SendRequestGood
        DEF BrokerStep

LEMMA HelpingGood ==
  ASSUME IInv, Helping
  PROVE  Good
<1>1. CASE HelperStep
  BY <1>1, HelperGivesUpGood, AuthorizeGood, LaunchGood, ProgressGood, CommitGood,
     RollbackGood, LastPhaseGood, RequireTransportGood, LastFrameGood, ExitGood
  DEF HelperStep
<1>2. CASE Windows!WindowsHelper
  BY <1>2, WindowsHelperConnectsGood, WindowsHelperReadyGood, WindowsHelperAcceptedGood,
     HelperTakesRequest, WindowsPollCancelGood
  DEF Windows!WindowsHelper
<1>3. CASE Linux!LinuxHelper
  BY <1>3, LinuxHelperReadyGood, LinuxCancelReaderGood, HelperTakesRequest, UnixCheckpoints
  DEF Linux!LinuxHelper
<1>4. CASE Macos!MacosHelper
  BY <1>4, MacosHelperReadyGood, MacosCancelReaderGood, HelperTakesRequest, UnixCheckpoints
  DEF Macos!MacosHelper
<1> QED BY <1>1, <1>2, <1>3, <1>4 DEF Helping

LEMMA NextGood ==
  ASSUME IInv, Next
  PROVE  IInv'
<1>1. Good
  BY BrokerStepGood, DeadlineGood, HelpingGood, LinuxPolkitGood, RequestCancelGood,
     ReplacePackageGood, SetupDiesGood, HelperDiesGood
  DEF Next, User
<1> QED BY <1>1, GoodKeeps

LEMMA Stuttering ==
  ASSUME IInv, UNCHANGED vars
  PROVE  IInv'
<1>1. Kept /\ DownStep /\ UpStep
  BY DEF vars, Kept, DownStep, UpStep
<1>2. FramesOK' /\ Scalars'
  BY <1>1, FramesKept DEF vars
<1>3. StartOK' /\ HelperOK' /\ BrokerOK' /\ ReportIsTrue'
  BY <1>1, ToldKept
  DEF vars, StartOK, HelperOK, Permitted, ConsentMatches, Matches, BrokerOK, ReportIsTrue,
      Ended
<1> QED BY <1>2, <1>3 DEF vars

LEMMA InitIInv ==
  ASSUME SessionInit
  PROVE  IInv
<1>1. broker \in Brokers /\ broker.pc = "idle" /\ broker.error = "none"
  <2>1. Plain("none") \in Frames
    BY DEF SessionInit, Plain, Frame, Frames, Kinds, Abouts
  <2> QED BY <2>1 DEF SessionInit, Brokers, BrokerPlaces, Errors, Abouts
<1>2. /\ helper \in Helpers /\ helper.pc = "none" /\ helper.outcome = "failed"
  BY DEF SessionInit, Helpers, HelperPlaces, Before, Outcomes, Abouts
<1>3. TypeOK
  BY <1>1, <1>2, SessionAssumption DEF SessionInit, Errors
<1>4. FramesOK
  BY DEF SessionInit, FramesOK, InTransit
<1>5. StartOK /\ HelperOK /\ BrokerOK /\ ReportIsTrue
  BY <1>1, <1>2
  DEF SessionInit, StartOK, HelperOK, Before, Working, Knowing, Actions, BrokerOK,
      ReportIsTrue
<1> QED BY <1>3, <1>4, <1>5

HIDE DEF IInv, TypeOK, Scalars

(* The invariant of a session on any of the three platforms.                *)
THEOREM Invariance == Spec => []IInv
<1>1. SessionInit => IInv
  BY InitIInv
<1>2. IInv /\ [Next]_vars => IInv'
  BY NextGood, Stuttering
<1> QED BY <1>1, <1>2, PTL DEF Spec

(* The records, frames and sequences of a session are what they seem.       *)
THEOREM TypeCorrect == Spec => []TypeOK
<1>1. IInv => TypeOK
  BY DEF IInv
<1> QED BY <1>1, Invariance, PTL

(* Setup is told the truth about the end of its operation: a success is not *)
(* reported before the helper has ended and committed, a cancellation or a  *)
(* failure only when nothing changed and nothing will (privilege.rs).       *)
THEOREM TruthIsReported == Spec => []ReportIsTrue
<1>1. IInv => ReportIsTrue
  BY DEF IInv
<1> QED BY <1>1, Invariance, PTL

(* The helper changes the system with no package but the one the user       *)
(* reviewed, of system scope, and with the consents it needs.               *)
THEOREM ReviewedOnly == Spec => []OnlyTheReviewed
<1>1. IInv => OnlyTheReviewed
  BY DEF IInv, HelperOK, Permitted, OnlyTheReviewed
<1> QED BY <1>1, Invariance, PTL
=============================================================================
