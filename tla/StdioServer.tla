----------------------------- MODULE StdioServer -----------------------------
(***************************************************************************)
(* `luxury stdio` (luxury-cli stdio.rs): one thread reads requests, one    *)
(* loop serves them and alone writes to stdout, and every operation runs   *)
(* on a worker thread; a mutation has a ticker thread besides, which sends *)
(* its latest progress now and then.  All of them feed one bounded channel.*)
(***************************************************************************)
EXTENDS Integers, Sequences, FiniteSets

CONSTANTS
  Ids,          \* request identifiers; a client may use one again
  Kinds,        \* kinds of requests the client sends
  None,
  Capacity,     \* CHANNEL_CAPACITY
  MaxRequests,  \* bound: requests of the client
  MaxEvents,    \* bound: events of a mutation
  OutputBreaks  \* bound: whether a write to stdout may fail

(* The operations of Studio and inspection, install and uninstall, launch,  *)
(* and cancel.  `defaults`, unknown methods and malformed lines are answered *)
(* like a request whose parameters do not hold.                             *)
AllKinds == {"operation", "mutation", "launch", "cancel"}

ASSUME ServerAssumption ==
  /\ Kinds \subseteq AllKinds /\ Kinds # {}
  /\ Capacity \in Nat \ {0} /\ MaxRequests \in Nat /\ MaxEvents \in Nat
  /\ None \notin 1 .. MaxRequests
  /\ OutputBreaks \in BOOLEAN

Requests == 1 .. MaxRequests
Request  == [id : Ids, kind : Kinds, target : Ids]

VARIABLES
  sent,      \* the requests of the client that have been read, in order
  stdin,     \* whether the client has closed stdin, or reading it fails
  input,     \* the input thread is "reading", has "failed" or "ended"
  channel,   \* messages to the serving loop
  mutation, operation,  \* active_mutation, active_operation: a request or None
  shutting,  \* shutting_down
  outputFailed,
  serving,   \* the loop: "ready", "cancelling" or "exited"
  cancelling,\* the cancel request it answers, and the request that one means
  worker,    \* the worker of each request, with its progress and its ticker
  out        \* the lines on stdout

vars == <<sent, stdin, input, channel, mutation, operation, shutting, outputFailed,
          serving, cancelling, worker, out>>

active == <<mutation, operation>>
loop   == <<active, shutting, outputFailed, serving, cancelling, out>>

-----------------------------------------------------------------------------
(* read_input.  A request is chosen when it is read: until then nothing     *)
(* depends on it.  A send blocks while the channel is full, and nobody      *)
(* sends once the loop has exited: the process ends with it.                *)

CloseStdin ==
  /\ stdin = "open" /\ stdin' \in {"closed", "broken"}
  /\ UNCHANGED <<sent, input, channel, loop, worker>>

Posts(type, r, n) ==
  /\ serving # "exited" /\ Len(channel) < Capacity
  /\ channel' = Append(channel, [type |-> type, of |-> r, n |-> n])

ReadRequest ==
  /\ stdin = "open" /\ Len(sent) < MaxRequests
  /\ \E q \in Request :
       /\ q.kind # "cancel" => q.target = q.id
       /\ sent' = Append(sent, q)
  /\ Posts("request", Len(sent) + 1, 0)
  /\ UNCHANGED <<stdin, input, loop, worker>>

ReadError ==
  /\ input = "reading" /\ stdin = "broken"
  /\ Posts("inputError", None, 0) /\ input' = "failed"

ReadEnd ==
  /\ input = "failed" \/ (input = "reading" /\ stdin = "closed")
  /\ Posts("inputClosed", None, 0) /\ input' = "ended"

InputStep ==
  /\ ReadError \/ ReadEnd
  /\ UNCHANGED <<sent, stdin, loop, worker>>

-----------------------------------------------------------------------------
(* The serving loop: it takes one message, and stops when it is shutting    *)
(* down and nothing is active any more.                                     *)

Id(r)        == sent[r].id
ActiveSet    == {mutation, operation} \ {None}
IsActive(id) == \E r \in ActiveSet : Id(r) = id

Receive(type) ==
  /\ serving = "ready" /\ channel # <<>> /\ Head(channel).type = type
  /\ channel' = Tail(channel)

Message == Head(channel)

Idle == shutting' /\ mutation' = None /\ operation' = None

Continues ==
  /\ serving' = IF Idle THEN "exited" ELSE "ready"
  /\ UNCHANGED cancelling

(* request_shutdown: everything still active is cancelled.                  *)
Stopped(w) == [r \in Requests |-> [w[r] EXCEPT !.cancel = @ \/ r \in ActiveSet']]

Silent == UNCHANGED <<shutting, outputFailed, worker, out>>

Line(kind, r, n) == [kind |-> kind, of |-> r, n |-> n]

(* One line on stdout, while w are the workers.  When the write fails the   *)
(* server shuts down; a broken stdout stays broken.                         *)
WritesWith(line, w) ==
  \/ /\ ~outputFailed /\ out' = Append(out, line)
     /\ worker' = w
     /\ UNCHANGED <<shutting, outputFailed>>
  \/ /\ OutputBreaks \/ outputFailed
     /\ outputFailed' = TRUE /\ shutting' = TRUE /\ worker' = Stopped(w)
     /\ UNCHANGED out

Writes(line) == WritesWith(line, worker)

NewWorker(kind, ticker) ==
  [pc |-> IF kind = "mutation" THEN "run" ELSE "compute",
   cancel |-> FALSE, emitted |-> <<>>, pending |-> 0, hand |-> 0, after |-> "control",
   ticker |-> IF kind = "mutation" THEN ticker ELSE "ended", tick |-> 0]

(* The flag `finished` of a worker.                                         *)
Finished(r) == worker[r].pc \in {"done", "ended"}

(* faulty: only a mutation keeps others out. *)
BusyMutating == mutation # None

Busy == ActiveSet # {}

(* A request whose parameters hold gets a worker when nothing is active;    *)
(* the ticker is done without if its thread does not start.                 *)
Starts(r) ==
  /\ sent[r].kind # "cancel" /\ ~IsActive(Id(r)) /\ ~Busy
  /\ \E ticker \in {"waits", "ended"} :
       worker' = [worker EXCEPT ![r] = NewWorker(sent[r].kind, ticker)]
  /\ IF sent[r].kind = "operation" THEN operation' = r /\ UNCHANGED mutation
                                   ELSE mutation' = r /\ UNCHANGED operation
  /\ UNCHANGED <<shutting, outputFailed, out>>

(* faulty: whatever runs is cancelled. *)
HitAny(r) ==
  {t \in ActiveSet : sent[t].kind # "launch" /\ ~Finished(t)}

(* request_cancellation: the active request that a cancel means, unless     *)
(* that is a launch or its worker has finished.                             *)
Hit(r) ==
  {t \in ActiveSet :
     Id(t) = sent[r].target /\ sent[t].kind # "launch" /\ ~Finished(t)}

IsCancel(r) == sent[r].kind = "cancel" /\ ~IsActive(Id(r))

(* A result or an error at once: busy, a duplicate id, bad parameters, a    *)
(* thread that does not start, or no operation at all.                      *)
AnswersAtOnce(r) ==
  /\ ~IsCancel(r) /\ UNCHANGED active
  /\ Writes(Line("answer", r, 0))

RejectsCancel(r) ==
  /\ IsCancel(r) /\ Hit(r) = {} /\ UNCHANGED active
  /\ Writes(Line("rejected", r, 0))

HandleRequest ==
  /\ Receive("request") /\ ~shutting
  /\ LET r == Message.of IN Starts(r) \/ AnswersAtOnce(r) \/ RejectsCancel(r)
  /\ Continues

DropRequest ==
  /\ Receive("request") /\ shutting
  /\ Silent /\ UNCHANGED active /\ Continues

(* The worker may finish between the look at finished and the cancel.       *)
FindCancelled ==
  /\ Receive("request") /\ ~shutting /\ IsCancel(Message.of)
  /\ \E t \in Hit(Message.of) : cancelling' = [by |-> Message.of, hit |-> t]
  /\ serving' = "cancelling"
  /\ Silent /\ UNCHANGED active

Cancel ==
  /\ serving = "cancelling" /\ UNCHANGED <<channel, active>>
  /\ WritesWith(Line("accepted", cancelling.by, cancelling.hit),
                [worker EXCEPT ![cancelling.hit].cancel = TRUE])
  /\ Continues

InputErrorComes ==
  /\ Receive("inputError") /\ UNCHANGED active
  /\ shutting' = TRUE /\ worker' = Stopped(worker)
  /\ \/ ~outputFailed /\ out' = Append(out, Line("answer", None, 0)) /\ UNCHANGED outputFailed
     \/ (OutputBreaks \/ outputFailed) /\ outputFailed' = TRUE /\ UNCHANGED out
  /\ Continues

InputEnds ==
  /\ Receive("inputClosed") /\ UNCHANGED <<outputFailed, out, active>>
  /\ shutting' = TRUE /\ worker' = Stopped(worker)
  /\ Continues

EventComes ==
  /\ Receive("event") /\ UNCHANGED active
  /\ LET r == Message.of IN
     IF mutation # None /\ Id(mutation) = Id(r) /\ ~outputFailed
     THEN Writes(Line(worker[r].emitted[Message.n], r, Message.n))
     ELSE Silent
  /\ Continues

(* The result of a worker, with the worker joined.                          *)
Finishes(r) ==
  /\ IF outputFailed THEN Silent ELSE Writes(Line("answer", r, 0))
  /\ Continues

(* faulty: the loop does not look whether it was the last thing to wait for. *)
DoneAndOn ==
  /\ Receive("done")
  /\ LET r == Message.of IN
     /\ IF sent[r].kind = "operation" THEN operation' = None /\ UNCHANGED mutation
                                      ELSE mutation' = None /\ UNCHANGED operation
     /\ IF outputFailed THEN Silent ELSE Writes(Line("answer", r, 0))
     /\ UNCHANGED <<serving, cancelling>>

(* MutationDone and OperationDone: a slot is emptied even if what it held   *)
(* is not what is done.                                                     *)
Done ==
  /\ Receive("done")
  /\ LET r    == Message.of
         slot == IF sent[r].kind = "operation" THEN operation ELSE mutation
     IN
     /\ IF sent[r].kind = "operation" THEN operation' = None /\ UNCHANGED mutation
                                      ELSE mutation' = None /\ UNCHANGED operation
     /\ \/ slot # None /\ Id(slot) = Id(r) /\ Finishes(r)
        \/ ~(slot # None /\ Id(slot) = Id(r)) /\ Silent /\ UNCHANGED <<serving, cancelling>>

ServerStep ==
  /\ \/ HandleRequest \/ DropRequest \/ FindCancelled \/ Cancel
     \/ InputErrorComes \/ InputEnds \/ EventComes \/ Done
  /\ UNCHANGED <<sent, stdin, input>>

-----------------------------------------------------------------------------
(* A worker.  The events of a mutation are numbered in the order emitted.   *)
(* Progress only replaces what is pending; before anything else is sent,    *)
(* and at the end, the pending progress is flushed: taken and sent under    *)
(* the lock the ticker needs, too.                                          *)

Becomes(r, w) == worker' = [worker EXCEPT ![r] = w]
At(r, pc)     == worker[r].pc = pc

(* The lock is held from the taking of pending progress until it is sent.   *)
LockFree(r) == worker[r].hand = 0 /\ worker[r].tick = 0

EmitProgress(r) ==
  LET w == worker[r] IN
  /\ At(r, "run") /\ Len(w.emitted) < MaxEvents /\ LockFree(r)
  /\ Becomes(r, [w EXCEPT !.emitted = Append(@, "progress"), !.pending = Len(w.emitted) + 1])
  /\ UNCHANGED channel

EmitControl(r) ==
  LET w == worker[r] IN
  /\ At(r, "run") /\ Len(w.emitted) < MaxEvents
  /\ Becomes(r, [w EXCEPT !.emitted = Append(@, "control"), !.pc = "flush", !.after = "control"])
  /\ UNCHANGED channel

(* faulty: the events of the mutation are left to their ticker. *)
ReturnsUnflushed(r) ==
  /\ At(r, "run")
  /\ Becomes(r, [worker[r] EXCEPT !.pc = "compute"])
  /\ UNCHANGED channel

(* The mutation returns, fails or panics; MutationEvents is dropped: after  *)
(* the last flush the ticker is told to stop and joined.                    *)
Returns(r) ==
  /\ At(r, "run")
  /\ Becomes(r, [worker[r] EXCEPT !.pc = "flush", !.after = "join"])
  /\ UNCHANGED channel

FlushTakes(r) ==
  LET w == worker[r] IN
  /\ At(r, "flush") /\ LockFree(r)
  /\ \/ w.pending = 0 /\ Becomes(r, [w EXCEPT !.pc = w.after])
     \/ w.pending # 0
        /\ Becomes(r, [w EXCEPT !.pc = "flushing", !.hand = w.pending, !.pending = 0])
  /\ UNCHANGED channel

FlushSends(r) ==
  LET w == worker[r] IN
  /\ At(r, "flushing") /\ Posts("event", r, w.hand)
  /\ Becomes(r, [w EXCEPT !.pc = w.after, !.hand = 0])

ControlSends(r) ==
  /\ At(r, "control") /\ Posts("event", r, Len(worker[r].emitted))
  /\ Becomes(r, [worker[r] EXCEPT !.pc = "run"])

(* The result is there, of a mutation or of a request without events.       *)
Finish(r) ==
  /\ At(r, "compute") \/ (At(r, "join") /\ worker[r].ticker = "ended")
  /\ Becomes(r, [worker[r] EXCEPT !.pc = "done"])
  /\ UNCHANGED channel

(* faulty: a full channel loses the result. *)
TriesToReport(r) ==
  /\ At(r, "done")
  /\ \/ Posts("done", r, 0)
     \/ Len(channel) = Capacity /\ UNCHANGED channel
  /\ Becomes(r, [worker[r] EXCEPT !.pc = "ended"])

Reports(r) ==
  /\ At(r, "done") /\ Posts("done", r, 0)
  /\ Becomes(r, [worker[r] EXCEPT !.pc = "ended"])

WorkerStep(r) ==
  /\ \/ EmitProgress(r) \/ EmitControl(r) \/ Returns(r) \/ FlushTakes(r) \/ FlushSends(r)
     \/ ControlSends(r) \/ Finish(r) \/ Reports(r)
  /\ UNCHANGED <<sent, stdin, input, loop>>

(* The ticker flushes when its interval is over.                            *)
TickerTakes(r) ==
  LET w == worker[r] IN
  /\ w.ticker = "waits" /\ w.pending # 0 /\ LockFree(r)
  /\ Becomes(r, [w EXCEPT !.tick = w.pending, !.pending = 0])
  /\ UNCHANGED channel

TickerSends(r) ==
  /\ worker[r].tick # 0 /\ Posts("event", r, worker[r].tick)
  /\ Becomes(r, [worker[r] EXCEPT !.tick = 0])

TickerEnds(r) ==
  /\ worker[r].ticker = "waits" /\ worker[r].tick = 0 /\ At(r, "join")
  /\ Becomes(r, [worker[r] EXCEPT !.ticker = "ended"])
  /\ UNCHANGED channel

TickerStep(r) ==
  /\ TickerTakes(r) \/ TickerSends(r) \/ TickerEnds(r)
  /\ UNCHANGED <<sent, stdin, input, loop>>

-----------------------------------------------------------------------------
Init ==
  /\ sent = <<>> /\ stdin = "open"
  /\ input = "reading" /\ channel = <<>>
  /\ mutation = None /\ operation = None
  /\ shutting = FALSE /\ outputFailed = FALSE
  /\ serving = "ready" /\ cancelling = [by |-> None, hit |-> None]
  /\ worker = [r \in Requests |->
       [NewWorker("operation", "ended") EXCEPT !.pc = "none"]]
  /\ out = <<>>

(* serve has returned, and the process ends.                                *)
Exited == serving = "exited" /\ UNCHANGED vars

Next ==
  \/ CloseStdin \/ ReadRequest
  \/ InputStep \/ ServerStep
  \/ \E r \in Requests : WorkerStep(r) \/ TickerStep(r)
  \/ Exited

Spec == Init /\ [][Next]_vars

(* The threads of the server are scheduled, its engines end and stdout      *)
(* takes lines; of the client nothing is assumed.                           *)
Fairness ==
  /\ WF_vars(InputStep) /\ WF_vars(ServerStep)
  /\ \A r \in Requests : WF_vars(WorkerStep(r)) /\ WF_vars(TickerStep(r))

FairSpec == Spec /\ Fairness

-----------------------------------------------------------------------------
IsEvent(l)  == l.kind \in {"progress", "control"}
IsAnswer(l) == l.kind \in {"answer", "rejected", "accepted"}
Alive(r)    == worker[r].pc \notin {"none", "ended"}
Answered(r) == \E k \in DOMAIN out : out[k].of = r /\ IsAnswer(out[k])

(* Nothing of a request follows its answer on stdout, no second answer and  *)
(* no late event, even if the client uses its id again.                     *)
AnswerIsLast ==
  \A i, j \in DOMAIN out :
    i < j /\ out[i].of = out[j].of /\ out[i].of # None => IsEvent(out[i])

(* The events of a request appear in the order it emitted them, although    *)
(* two threads send them.                                                   *)
EventsInOrder ==
  \A i, j \in DOMAIN out :
    i < j /\ out[i].of = out[j].of /\ IsEvent(out[i]) /\ IsEvent(out[j]) =>
      out[i].n < out[j].n

(* What has to be on stdout before event n of a request: all but progress   *)
(* that newer progress has replaced.                                        *)
Due(r, n) ==
  {i \in 1 .. n - 1 :
     worker[r].emitted[i] = "control" \/ i = n - 1 \/ worker[r].emitted[i + 1] = "control"}

(* Before a phase or an action, and before the answer, the latest progress  *)
(* and every other event that came earlier has been written.                *)
LatestIsFlushed ==
  \A k \in DOMAIN out :
    LET l == out[k]
        n == IF l.kind = "control" THEN l.n ELSE Len(worker[l.of].emitted) + 1
    IN l.kind \in {"control", "answer"} /\ l.of # None =>
         \A i \in Due(l.of, n) :
           \E j \in 1 .. k - 1 : out[j].of = l.of /\ IsEvent(out[j]) /\ out[j].n = i

(* What a client reads of a request: its events in order, none of them held *)
(* back behind a later one that matters, then one answer and nothing more.  *)
OutputInOrder == EventsInOrder /\ LatestIsFlushed /\ AnswerIsLast

(* A request is cancelled by a shutdown or by an accepted cancel that names *)
(* it; what a cancel accepts to cancel is not a launch, has been told to    *)
(* stop and still owes its answer at that point.                            *)
CancelIsScoped ==
  /\ \A r \in Requests :
       worker[r].cancel => shutting \/ \E k \in DOMAIN out : out[k].kind = "accepted" /\ out[k].n = r
  /\ \A k \in DOMAIN out :
       LET t == out[k].n IN
       out[k].kind = "accepted" =>
         /\ Id(t) = sent[out[k].of].target /\ sent[t].kind # "launch"
         /\ worker[t].cancel
         /\ \A j \in 1 .. k : ~(out[j].of = t /\ IsAnswer(out[j]))

(* One operation at a time: a worker starts only after the one before it,   *)
(* and its ticker, have ended.                                              *)
OneWorker ==
  \A r, s \in Requests :
    Alive(r) /\ (Alive(s) \/ worker[s].ticker # "ended") => r = s

(* The process does not end while a worker runs, and every worker's result  *)
(* has been written unless stdout is broken.                                *)
ExitIsClean ==
  serving = "exited" =>
    \A r \in Requests :
      /\ ~Alive(r) /\ worker[r].ticker = "ended"
      /\ worker[r].pc = "ended" => Answered(r) \/ outputFailed

(* Workers never overlap, and the last of them is not cut off by the exit.  *)
WorkersAreJoined == OneWorker /\ ExitIsClean

(* Every request that was read is answered, unless the server shuts down.   *)
RequestsAnswered ==
  \A r \in Requests : Len(sent) >= r ~> Answered(r) \/ shutting

(* "Closing stdin requests shutdown/cancellation and the server drains      *)
(* terminal cleanup before exit": once stdin is at its end or stdout is     *)
(* broken the server exits.                                                 *)
ServerExits == stdin # "open" \/ outputFailed ~> serving = "exited"

=============================================================================
