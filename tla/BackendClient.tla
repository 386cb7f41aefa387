---------------------------- MODULE BackendClient ----------------------------
(***************************************************************************)
(* The desktop shell's client of `luxury stdio` (backend/client.rs): calls *)
(* on threads of their own, one stdout reader per child process and the    *)
(* thread that closes the client share a process slot and, per process, a  *)
(* table of pending requests, a stdin and a child.                         *)
(***************************************************************************)
EXTENDS Integers, Sequences, FiniteSets

CONSTANTS
  Calls,          \* calls made by the shell, each on a thread of its own
  Kinds,          \* which kinds of calls they may be
  None,
  PipeSize,       \* requests the stdin pipe holds before a write blocks
  MaxPending,     \* MAX_PENDING_REQUESTS
  ProgressBudget, \* MAX_QUEUED_PROGRESS
  ControlBudget,  \* MAX_QUEUED_CONTROL_EVENTS
  MaxSpawns,      \* bound: processes spawned; the next spawn fails
  MaxEvents,      \* bound: events the children emit
  MaxFaults,      \* bound: crashes and invalid lines of the children
  MaxLines,       \* bound: lines in the stdout pipe
  MayClose        \* bound: whether the shell closes the client

Processes == 1 .. MaxSpawns

(* request_short, request_operation, request without a timeout (launch),    *)
(* and start_operation with its stream of events.                           *)
AllKinds == {"short", "long", "launch", "operation"}

(* A request_operation that times out sends a cancel request of its own.    *)
Ids == Calls \X {"call", "cancel"}

ASSUME ClientAssumption ==
  /\ Kinds \subseteq AllKinds /\ Kinds # {}
  /\ None \notin Calls /\ None \notin Processes /\ None # "answer"
  /\ {"reader", "closer"} \cap Calls = {}
  /\ IsFiniteSet(Calls)
  /\ PipeSize \in Nat /\ MaxPending \in Nat /\ MaxSpawns \in Nat
  /\ ProgressBudget \in Nat /\ ControlBudget \in Nat
  /\ MaxEvents \in Nat /\ MaxFaults \in Nat /\ MaxLines \in Nat
  /\ MayClose \in BOOLEAN

VARIABLES
  closing,      \* ClientInner::closing
  slot,         \* ClientInner::process
  slotLock,     \* the call that holds the lock of the slot over several steps
  spawned,      \* processes spawned so far; they are 1 .. spawned
  proc,         \* BackendProcess, as the threads of the client see it
  child,        \* the child processes: state, pipes and requests in work
  call,         \* kind, step, stage and outcome of each call
  at,           \* the process a request was submitted to
  mail,         \* channel to the thread that waits for a request
  reader,       \* the stdout threads: what they do and the line they hold
  closer,       \* step of close, and the process it closes
  events, faults,
  sent, seen    \* control events of a call: emitted by the child, received

vars == <<closing, slot, slotLock, spawned, proc, child, call, at, mail, reader,
          closer, events, faults, sent, seen>>

client == <<closing, slot, slotLock, spawned>>
budget == <<events, faults, sent>>

-----------------------------------------------------------------------------
Id(c)      == <<c, call[c].stage>>
Waiting(c) == call[c].pc \in {"await", "grace"}
Count(s, S) == Cardinality({i \in DOMAIN s : s[i] \in S})
Queued(id, kind) == Count(mail[id], {kind})

(* BackendProcess::failed; only the thread that sets it runs fail.          *)
IsFailed(p) == proc[p].fail # "no"
Failing(p)  == proc[p].fail \in {"stdin", "drain", "kill"}
InFail(t)   == \E p \in Processes : proc[p].by = t /\ Failing(p)
ReaderFree(p) == ~(proc[p].by = "reader" /\ Failing(p))

FailedBy(p, t) ==
  IF IsFailed(p) THEN proc ELSE [proc EXCEPT ![p] = [@ EXCEPT !.fail = "stdin", !.by = t]]

(* A request dropped its receiver when its call, or its cancel, returned.   *)
ReceiverAlive(id) ==
  IF id[2] = "call" THEN call[id[1]].pc # "returned"
                    ELSE call[id[1]].stage = "cancel"

Killed(p) == [child EXCEPT ![p] = [@ EXCEPT !.state = "reaped", !.pipe = {}, !.inbox = {}]]

Goto(c, pc) == call' = [call EXCEPT ![c].pc = pc] /\ UNCHANGED mail

(* A call returns; the cancel of a request_operation returns to it.  The    *)
(* channel goes with the receiver.                                          *)
Return(c, outcome) ==
  /\ call' = IF call[c].stage = "call"
             THEN [call EXCEPT ![c] = [@ EXCEPT !.pc = "returned", !.outcome = outcome]]
             ELSE [call EXCEPT ![c] = [@ EXCEPT !.stage = "call",
                     !.pc = IF outcome = "failed" THEN "cancelFailed" ELSE "grace"]]
  /\ mail' = [mail EXCEPT ![Id(c)] = <<>>]

-----------------------------------------------------------------------------
(* fail: close stdin, drain the table, then kill the child; close itself    *)
(* does not kill.                                                           *)

(* faulty: stdin stays open while the table is drained. *)
FailKeepsStdin(p) ==
  /\ proc[p].fail = "stdin" /\ proc[p].lock = None
  /\ proc' = [proc EXCEPT ![p].fail = "drain"]
  /\ UNCHANGED <<child, mail>>

FailStdin(p) ==
  /\ proc[p].fail = "stdin" /\ proc[p].lock = None
  /\ proc' = [proc EXCEPT ![p] = [@ EXCEPT !.stdin = FALSE, !.fail = "drain"]]
  /\ UNCHANGED <<child, mail>>

FailDrain(p) ==
  /\ proc[p].fail = "drain"
  /\ mail' = [id \in Ids |-> IF id \in proc[p].pending /\ ReceiverAlive(id)
                             THEN Append(mail[id], "failed") ELSE mail[id]]
  /\ proc' = [proc EXCEPT ![p] = [@ EXCEPT !.pending = {},
                !.fail = IF proc[p].by = "closer" THEN "done" ELSE "kill"]]
  /\ UNCHANGED child

FailKill(p) ==
  /\ proc[p].fail = "kill"
  /\ proc' = [proc EXCEPT ![p].fail = "done"]
  /\ child' = Killed(p)
  /\ UNCHANGED mail

Fail(p) ==
  /\ FailStdin(p) \/ FailDrain(p) \/ FailKill(p)
  /\ UNCHANGED <<client, call, at, reader, closer, budget, seen>>

-----------------------------------------------------------------------------
(* ensure_process: the slot's process, or a new one in place of a failed    *)
(* one, which is terminated first.                                          *)

Start(c) ==
  /\ call[c].pc = "idle" /\ Goto(c, "ensure")
  /\ UNCHANGED <<client, proc, child, at>>

EnsureClosing(c) ==
  /\ call[c].pc = "ensure" /\ slotLock = None /\ closing
  /\ Return(c, "failed")
  /\ UNCHANGED <<client, proc, child, at>>

EnsureReuse(c) ==
  /\ call[c].pc = "ensure" /\ slotLock = None /\ ~closing
  /\ slot # None /\ ~IsFailed(slot)
  /\ at' = [at EXCEPT ![Id(c)] = slot]
  /\ Goto(c, "submit")
  /\ UNCHANGED <<client, proc, child>>

EnsureNew(c) ==
  /\ call[c].pc = "ensure" /\ slotLock = None /\ ~closing
  /\ slot = None
  /\ slotLock' = c
  /\ Goto(c, "spawn")
  /\ UNCHANGED <<closing, slot, spawned, proc, child, at>>

(* faulty: the failed process is left to the thread that fails it. *)
EnsureReplaceAtOnce(c) ==
  /\ call[c].pc = "ensure" /\ slotLock = None /\ ~closing
  /\ slot # None /\ IsFailed(slot)
  /\ slot' = None /\ slotLock' = c
  /\ Goto(c, "spawn")
  /\ UNCHANGED <<closing, spawned, proc, child, at>>

EnsureReplace(c) ==
  /\ call[c].pc = "ensure" /\ slotLock = None /\ ~closing
  /\ slot # None /\ IsFailed(slot)
  /\ slot' = None /\ slotLock' = c
  /\ proc' = [proc EXCEPT ![slot].closing = TRUE]
  /\ at' = [at EXCEPT ![Id(c)] = slot]
  /\ Goto(c, "terminateStdin")
  /\ UNCHANGED <<closing, spawned, child>>

TerminateStdin(c) ==
  LET p == at[Id(c)] IN
  /\ call[c].pc = "terminateStdin" /\ proc[p].lock = None
  /\ proc' = [proc EXCEPT ![p].stdin = FALSE]
  /\ Goto(c, "terminateChild")
  /\ UNCHANGED <<client, child, at>>

TerminateChild(c) ==
  /\ call[c].pc = "terminateChild"
  /\ child' = Killed(at[Id(c)])
  /\ Goto(c, "spawn")
  /\ UNCHANGED <<client, proc, at>>

Spawn(c) ==
  /\ call[c].pc = "spawn" /\ slotLock' = None
  /\ spawned < MaxSpawns
  /\ spawned' = spawned + 1 /\ slot' = spawned + 1
  /\ proc' = [proc EXCEPT ![spawned + 1].stdin = TRUE]
  /\ child' = [child EXCEPT ![spawned + 1].state = "running"]
  /\ at' = [at EXCEPT ![Id(c)] = spawned + 1]
  /\ Goto(c, "submit")
  /\ UNCHANGED closing

SpawnFails(c) ==
  /\ call[c].pc = "spawn" /\ slotLock' = None
  /\ spawned = MaxSpawns
  /\ Return(c, "failed")
  /\ UNCHANGED <<closing, slot, spawned, proc, child, at>>

-----------------------------------------------------------------------------
(* submit: registered first, so that an answer finds the request, then      *)
(* written while the lock of stdin is held.                                 *)

Submit(c) ==
  LET p == at[Id(c)] IN
  /\ call[c].pc = "submit"
  /\ IF IsFailed(p) \/ proc[p].closing THEN Return(c, "failed")
                                       ELSE Goto(c, "register")
  /\ UNCHANGED <<client, proc, child, at>>

Register(c) ==
  LET p == at[Id(c)] IN
  /\ call[c].pc = "register"
  /\ IF Cardinality(proc[p].pending) >= MaxPending
     THEN Return(c, "failed") /\ UNCHANGED proc
     ELSE /\ proc' = [proc EXCEPT ![p].pending = @ \cup {Id(c)}]
          /\ Goto(c, "write")
  /\ UNCHANGED <<client, child, at>>

LockStdin(c) ==
  LET p == at[Id(c)] IN
  /\ call[c].pc = "write" /\ proc[p].lock = None
  /\ IF proc[p].stdin
     THEN proc' = [proc EXCEPT ![p].lock = c] /\ Goto(c, "writing")
     ELSE proc' = FailedBy(p, c) /\ Return(c, "failed")
  /\ UNCHANGED <<client, child, at>>

WriteFails(c) ==
  LET p == at[Id(c)] IN
  /\ call[c].pc = "writing" /\ child[p].state # "running"
  /\ proc' = [FailedBy(p, c) EXCEPT ![p].lock = None]
  /\ Return(c, "failed")
  /\ UNCHANGED <<client, child, at>>

Write(c) ==
  LET p == at[Id(c)] IN
  /\ call[c].pc = "writing" /\ child[p].state = "running"
  /\ Cardinality(child[p].pipe) < PipeSize
  /\ child' = [child EXCEPT ![p].pipe = @ \cup {Id(c)}]
  /\ proc' = [proc EXCEPT ![p].lock = None]
  /\ Goto(c, "await")
  /\ UNCHANGED <<client, at, reader, closer, budget, seen>>

-----------------------------------------------------------------------------
(* Waiting for the result.  A timeout fails the whole process, except the   *)
(* first one of request_operation, which cancels and waits once more.  An   *)
(* answer that arrives after the timeout and before fail is lost.           *)

Receive(c) ==
  /\ Waiting(c) /\ mail[Id(c)] # <<>>
  /\ LET m == Head(mail[Id(c)]) IN
     IF m \in {"progress", "control"}
     THEN /\ seen' = [seen EXCEPT ![c] = @ + IF m = "control" THEN 1 ELSE 0]
          /\ mail' = [mail EXCEPT ![Id(c)] = Tail(@)]
          /\ UNCHANGED call
     ELSE Return(c, m) /\ UNCHANGED seen
  /\ UNCHANGED <<client, proc, child, at, reader, closer, budget>>

TimeoutFails(c) ==
  /\ \/ call[c].pc = "await" /\ (call[c].stage = "cancel" \/ call[c].kind = "short")
     \/ call[c].pc = "grace"
  /\ proc' = FailedBy(at[Id(c)], c)
  /\ Return(c, "failed")
  /\ UNCHANGED <<client, child, at>>

TimeoutCancels(c) ==
  /\ call[c].pc = "await" /\ call[c].kind = "long" /\ call[c].stage = "call"
  /\ mail[Id(c)] = <<>>
  /\ call' = [call EXCEPT ![c] = [@ EXCEPT !.pc = "ensure", !.stage = "cancel"]]
  /\ UNCHANGED <<client, proc, child, at, mail>>

CancelFailed(c) ==
  /\ call[c].pc = "cancelFailed"
  /\ proc' = FailedBy(at[Id(c)], c)
  /\ Return(c, "failed")
  /\ UNCHANGED <<client, child, at>>

CallStep(c) ==
  /\ ~InFail(c)
  /\ \/ /\ \/ EnsureClosing(c) \/ EnsureReuse(c) \/ EnsureNew(c) \/ EnsureReplace(c)
           \/ TerminateStdin(c) \/ TerminateChild(c) \/ Spawn(c) \/ SpawnFails(c)
           \/ Submit(c) \/ Register(c) \/ LockStdin(c) \/ WriteFails(c)
           \/ TimeoutFails(c) \/ TimeoutCancels(c) \/ CancelFailed(c)
        /\ UNCHANGED <<reader, closer, budget, seen>>
     \/ Write(c)
     \/ Receive(c)

-----------------------------------------------------------------------------
(* read_stdout and consume_line.  Taking a request out of the table and     *)
(* completing it are two steps, and so are finding the operation of an      *)
(* event and queueing the event.                                            *)

Reads(p, pc, held) == reader' = [reader EXCEPT ![p] = [pc |-> pc, held |-> held]]

NextLine(p) == Head(child[p].out)
Known(p) ==
  LET l == NextLine(p) IN
  /\ l.kind \in {"result", "progress", "control"} /\ l.id \in proc[p].pending
  /\ l.kind # "result" => call[l.id[1]].kind = "operation"

(* faulty: the request stays in the table until it is completed. *)
ReadKnownKept(p) ==
  /\ Known(p)
  /\ UNCHANGED proc
  /\ Reads(p, IF NextLine(p).kind = "result" THEN "deliver" ELSE "queue", NextLine(p))

ReadKnown(p) ==
  LET l == NextLine(p) IN
  /\ Known(p)
  /\ IF l.kind = "result"
     THEN proc' = [proc EXCEPT ![p].pending = @ \ {l.id}]
     ELSE UNCHANGED proc
  /\ Reads(p, IF l.kind = "result" THEN "deliver" ELSE "queue", l)

ReadOther(p) ==
  /\ ~Known(p)
  /\ proc' = FailedBy(p, "reader")
  /\ Reads(p, IF NextLine(p).kind = "fatal" THEN "read" ELSE "stopped", None)

ReadLine(p) ==
  /\ reader[p].pc = "read" /\ child[p].out # <<>>
  /\ ReadKnown(p) \/ ReadOther(p)
  /\ child' = [child EXCEPT ![p].out = Tail(@)]
  /\ UNCHANGED mail

ReaderFails(p) ==
  /\ proc' = FailedBy(p, "reader")
  /\ Reads(p, "stopped", None)
  /\ UNCHANGED mail

Send(p, m) ==
  /\ mail' = [mail EXCEPT ![reader[p].held.id] = Append(@, m)]
  /\ Reads(p, "read", None)
  /\ UNCHANGED proc

Deliver(p) ==
  /\ reader[p].pc = "deliver"
  /\ IF ReceiverAlive(reader[p].held.id) THEN Send(p, reader[p].held.what)
                                         ELSE ReaderFails(p)
  /\ UNCHANGED child

Full(id, kind) ==
  Queued(id, kind) >= IF kind = "progress" THEN ProgressBudget ELSE ControlBudget

(* faulty: control events beyond their budget are dropped, too. *)
QueueDrops(p) ==
  LET l == reader[p].held IN
  /\ reader[p].pc = "queue"
  /\ \/ Full(l.id, l.kind) /\ Reads(p, "read", None) /\ UNCHANGED <<proc, mail>>
     \/ ~Full(l.id, l.kind) /\ IF ReceiverAlive(l.id) THEN Send(p, l.kind)
                                                      ELSE ReaderFails(p)
  /\ UNCHANGED child

(* queue_event: progress beyond its budget is dropped, a control event      *)
(* beyond its own fails the process.                                        *)
Queue(p) ==
  LET l == reader[p].held IN
  /\ reader[p].pc = "queue"
  /\ \/ /\ Full(l.id, l.kind)
        /\ IF l.kind = "progress" THEN Reads(p, "read", None) /\ UNCHANGED <<proc, mail>>
                                  ELSE ReaderFails(p)
     \/ /\ ~Full(l.id, l.kind)
        /\ IF ReceiverAlive(l.id) THEN Send(p, l.kind) ELSE ReaderFails(p)
  /\ UNCHANGED child

(* faulty: the end of stdout is taken for an orderly shutdown. *)
ReadEndQuietly(p) ==
  /\ reader[p].pc = "read" /\ child[p].out = <<>>
  /\ child[p].state \in {"exited", "reaped"}
  /\ Reads(p, "stopped", None)
  /\ UNCHANGED <<proc, child, mail>>

ReadEnd(p) ==
  /\ reader[p].pc = "read" /\ child[p].out = <<>>
  /\ child[p].state \in {"exited", "reaped"}
  /\ IF proc[p].closing THEN UNCHANGED proc ELSE proc' = FailedBy(p, "reader")
  /\ Reads(p, "stopped", None)
  /\ UNCHANGED <<child, mail>>

ReaderStep(p) ==
  /\ ReaderFree(p)
  /\ ReadLine(p) \/ Deliver(p) \/ Queue(p) \/ ReadEnd(p)
  /\ UNCHANGED <<client, call, at, closer, budget, seen>>

-----------------------------------------------------------------------------
(* close: no new process from here on; stdin of the present one is closed   *)
(* and its child may finish until the deadline.                             *)

Closes(pc, p) == closer' = [pc |-> pc, of |-> p]

Close ==
  /\ MayClose /\ closer.pc = "idle" /\ Closes("take", None)
  /\ closing' = TRUE
  /\ UNCHANGED <<slot, slotLock, spawned, proc, child, call, at, mail, reader, budget, seen>>

TakeSlot ==
  /\ closer.pc = "take" /\ slotLock = None
  /\ slot' = None
  /\ IF slot = None THEN Closes("done", None) /\ UNCHANGED proc
     ELSE Closes("stdin", slot) /\ proc' = [proc EXCEPT ![slot].closing = TRUE]
  /\ UNCHANGED child

CloseStdin ==
  /\ closer.pc = "stdin" /\ proc[closer.of].lock = None
  /\ Closes("poll", closer.of)
  /\ proc' = [proc EXCEPT ![closer.of].stdin = FALSE]
  /\ UNCHANGED <<slot, child>>

Deadline ==
  /\ closer.pc = "poll" /\ Closes("expired", closer.of)
  /\ UNCHANGED <<slot, proc, child>>

(* faulty: what is still in the table is not drained. *)
CloseEndsQuietly ==
  /\ \/ closer.pc = "poll" /\ child[closer.of].state # "running"
     \/ closer.pc = "expired"
  /\ Closes("done", closer.of)
  /\ child' = Killed(closer.of)
  /\ UNCHANGED <<slot, proc>>

CloseEnds ==
  /\ \/ closer.pc = "poll" /\ child[closer.of].state # "running"
     \/ closer.pc = "expired"
  /\ Closes("done", closer.of)
  /\ proc' = FailedBy(closer.of, "closer")
  /\ child' = Killed(closer.of)
  /\ UNCHANGED slot

CloserStep ==
  /\ ~InFail("closer")
  /\ TakeSlot \/ CloseStdin \/ Deadline \/ CloseEnds
  /\ UNCHANGED <<closing, slotLock, spawned, call, at, mail, reader, budget, seen>>

-----------------------------------------------------------------------------
(* The child, `luxury stdio`: reads requests, emits events of an operation  *)
(* and one result for every request, and exits when stdin is closed and it  *)
(* has nothing left to do.  It may also stop, crash or print nonsense.      *)

ChildReads(p) ==
  \E id \in child[p].pipe :
    /\ child' = [child EXCEPT ![p] = [@ EXCEPT !.pipe = child[p].pipe \ {id},
                   !.inbox = child[p].inbox \cup {id}]]
    /\ UNCHANGED <<proc, budget>>

Prints(p, line) ==
  /\ Len(child[p].out) < MaxLines
  /\ child' = [child EXCEPT ![p] = [@ EXCEPT !.out = Append(child[p].out, line),
                 !.inbox = child[p].inbox \ (IF line.kind = "result" THEN {line.id} ELSE {})]]
  /\ UNCHANGED proc

ChildAnswers(p) ==
  /\ \E id \in child[p].inbox, what \in {"answer", "rejected"} :
       /\ what = "rejected" => id[2] = "cancel"
       /\ Prints(p, [kind |-> "result", id |-> id, what |-> what])
  /\ UNCHANGED budget

ChildReports(p) ==
  /\ events < MaxEvents /\ events' = events + 1
  /\ \E id \in child[p].inbox, kind \in {"progress", "control"} :
       /\ call[id[1]].kind = "operation"
       /\ Prints(p, [kind |-> kind, id |-> id])
       /\ sent' = [sent EXCEPT ![id[1]] = @ + IF kind = "control" THEN 1 ELSE 0]
  /\ UNCHANGED faults

ChildBabbles(p) ==
  /\ faults < MaxFaults /\ faults' = faults + 1
  /\ \E kind \in {"fatal", "bad"} : Prints(p, [kind |-> kind])
  /\ UNCHANGED <<events, sent>>

ChildExits(p) ==
  /\ \/ ~proc[p].stdin /\ child[p].pipe = {} /\ child[p].inbox = {} /\ UNCHANGED faults
     \/ faults < MaxFaults /\ faults' = faults + 1
  /\ child' = [child EXCEPT ![p] = [@ EXCEPT !.state = "exited", !.pipe = {}, !.inbox = {}]]
  /\ UNCHANGED <<proc, events, sent>>

ChildStep(p) ==
  /\ child[p].state = "running"
  /\ \/ ChildReads(p) \/ ChildAnswers(p) \/ ChildReports(p)
     \/ ChildBabbles(p) \/ ChildExits(p)
  /\ UNCHANGED <<client, call, at, mail, reader, closer, seen>>

-----------------------------------------------------------------------------
Init ==
  /\ closing = FALSE /\ slot = None /\ slotLock = None /\ spawned = 0
  /\ proc = [p \in Processes |->
       [stdin |-> FALSE, lock |-> None, pending |-> {}, fail |-> "no", by |-> None,
        closing |-> FALSE]]
  /\ child = [p \in Processes |-> [state |-> "none", pipe |-> {}, inbox |-> {}, out |-> <<>>]]
  /\ call \in [Calls -> [kind : Kinds, pc : {"idle"}, stage : {"call"}, outcome : {None}]]
  /\ at = [id \in Ids |-> None]
  /\ mail = [id \in Ids |-> <<>>]
  /\ reader = [p \in Processes |-> [pc |-> "read", held |-> None]]
  /\ closer = [pc |-> "idle", of |-> None]
  /\ events = 0 /\ faults = 0
  /\ sent = [c \in Calls |-> 0] /\ seen = [c \in Calls |-> 0]

Starts(c) ==
  /\ Start(c)
  /\ UNCHANGED <<reader, closer, budget, seen>>

Next ==
  \/ \E c \in Calls : Starts(c) \/ CallStep(c)
  \/ \E p \in Processes : Fail(p) \/ ReaderStep(p) \/ ChildStep(p)
  \/ Close \/ CloserStep

Spec == Init /\ [][Next]_vars

(* Every thread of the client is scheduled and its timers expire.  Of the   *)
(* child nothing is assumed.                                                *)
Fairness ==
  /\ \A c \in Calls : WF_vars(CallStep(c))
  /\ \A p \in Processes : WF_vars(Fail(p)) /\ WF_vars(ReaderStep(p))
  /\ WF_vars(CloserStep)

FairSpec == Spec /\ Fairness

-----------------------------------------------------------------------------
Completions(id) == Count(mail[id], {"answer", "rejected", "failed"})

Held(id) == \E p \in Processes : reader[p].pc = "deliver" /\ reader[p].held.id = id

(* The table of requests and every caller's queue keep their bounds, however *)
(* many events the child sends and whoever reads them.                       *)
QueuesBounded ==
  /\ \A p \in Processes : Cardinality(proc[p].pending) <= MaxPending
  /\ \A id \in Ids : /\ Queued(id, "progress") <= ProgressBudget
                     /\ Queued(id, "control") <= ControlBudget

(* A failed backend is replaced only after its child is gone: there is one  *)
(* child at most, so two servers never work for one shell.                  *)
OneChild ==
  \A p, q \in Processes :
    child[p].state = "running" /\ child[q].state = "running" => p = q

(* When close has returned every child has been reaped, and none is spawned *)
(* by a call that was on its way.                                           *)
ClosedIsClean ==
  closer.pc = "done" =>
    /\ slot = None
    /\ \A p \in Processes : child[p].state \in {"none", "reaped"}

(* No child outlives its use: it is gone before the next one starts, and    *)
(* before close returns.                                                    *)
ChildrenAreReaped == OneChild /\ ClosedIsClean

(* Whoever waits has its result in the channel, or the reader is about to   *)
(* send it, or the request is in the table and the table, if the process    *)
(* has failed, is still going to be drained.                                *)
NeverForgotten ==
  \A c \in Calls :
    Waiting(c) /\ Completions(Id(c)) = 0 /\ ~Held(Id(c)) =>
      LET p == at[Id(c)] IN
      Id(c) \in proc[p].pending /\ proc[p].fail \in {"no", "stdin", "drain"}

(* A request is completed once: what is still in the table, or held by the  *)
(* reader, has no completion in its channel yet.                            *)
CompletedOnce ==
  \A id \in Ids :
    /\ Completions(id) <= 1
    /\ Held(id) \/ (\E p \in Processes : id \in proc[p].pending) => Completions(id) = 0
    /\ ~(Held(id) /\ \E p \in Processes : id \in proc[p].pending)

(* Every request that is waited for is answered once: the caller, the       *)
(* reader and a thread that fails the process take it out of one table.     *)
AnsweredOnce == NeverForgotten /\ CompletedOnce

(* An operation that ends with an answer has received every event that is   *)
(* not progress; only progress is dropped when a queue is full.             *)
ControlEventsArrive ==
  \A c \in Calls : call[c].outcome = "answer" => seen[c] = sent[c]

Returned(c) == call[c].pc = "returned"

(* Calls with a timeout return although the child may hang.                 *)
TimedCallsReturn ==
  \A c \in Calls :
    call[c].pc # "idle" /\ call[c].kind \in {"short", "long"} ~> Returned(c)

(* Once the child is gone nobody keeps waiting for it, with a timeout or    *)
(* without.                                                                 *)
ExitEndsCalls ==
  \A c \in Calls :
    Waiting(c) /\ child[at[Id(c)]].state \in {"exited", "reaped"} ~> Returned(c)

(* No call is waited for in vain.                                           *)
CallsReturn == TimedCallsReturn /\ ExitEndsCalls

(* close ends: the child is gone and every call has returned.               *)
CloseReturns ==
  closing ~> /\ closer.pc = "done" /\ ClosedIsClean
             /\ \A c \in Calls : call[c].pc \in {"idle", "returned"}

=============================================================================
