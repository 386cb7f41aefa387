---------------------------- MODULE BackendProofs ----------------------------
(***************************************************************************)
(* Proofs about the client of `luxury stdio`: for any number of calls,     *)
(* processes, events and faults, whatever the child does and whenever the  *)
(* client is closed, at most one child runs and none outlives a close,     *)
(* every request is answered once, no queue exceeds its bound, and an      *)
(* operation that is answered has received its control events.             *)
(***************************************************************************)
EXTENDS BackendClient, FiniteSetTheorems, TLAPS

Results  == {"answer", "rejected", "failed"}
Messages == Results \cup {"progress", "control"}

Line ==
  [kind : {"result"}, id : Ids, what : {"answer", "rejected"}]
    \cup [kind : {"progress", "control"}, id : Ids]
    \cup [kind : {"fatal", "bad"}]

(* The thread of a call before its request is in the table, and while it    *)
(* holds the lock of the slot.                                              *)
Locking == {"terminateStdin", "terminateChild", "spawn"}
Early   == {"idle", "ensure", "submit", "register"} \cup Locking
Steps   == Early \cup {"write", "writing", "await", "grace", "cancelFailed", "returned"}

ProcState ==
  [stdin : BOOLEAN, lock : Calls \cup {None}, pending : SUBSET Ids,
   fail : {"no", "stdin", "drain", "kill", "done"},
   by : Calls \cup {"reader", "closer", None}, closing : BOOLEAN]

ChildState ==
  [state : {"none", "running", "exited", "reaped"}, pipe : SUBSET Ids, inbox : SUBSET Ids,
   out : Seq(Line)]

CallState ==
  [kind : Kinds, pc : Steps, stage : {"call", "cancel"}, outcome : Results \cup {None}]

ReaderState == [pc : {"read", "deliver", "queue", "stopped"}, held : Line \cup {None}]

CloserState ==
  [pc : {"idle", "take", "stdin", "poll", "expired", "done"}, of : Processes \cup {None}]

(* A thread that works on a process, or holds a line, has one.              *)
Unplaced == {"idle", "ensure", "spawn", "returned"}

Placed ==
  /\ slot # None => slot \in 1 .. spawned
  /\ \A c \in Calls : /\ call[c].pc \notin Unplaced => at[Id(c)] \in 1 .. spawned
                      /\ call[c].stage = "cancel" => at[<<c, "call">>] \in 1 .. spawned
  /\ closer.pc \in {"stdin", "poll", "expired"} => closer.of \in 1 .. spawned
  /\ \A p \in Processes :
       /\ reader[p].pc = "deliver" => reader[p].held \in Line /\ reader[p].held.kind = "result"
       /\ reader[p].pc = "queue" =>
            reader[p].held \in Line /\ reader[p].held.kind \in {"progress", "control"}

(* Every variable has its type.                                             *)
Typed ==
  /\ closing \in BOOLEAN /\ slot \in Processes \cup {None}
  /\ slotLock \in Calls \cup {None} /\ spawned \in 0 .. MaxSpawns
  /\ proc \in [Processes -> ProcState] /\ child \in [Processes -> ChildState]
  /\ call \in [Calls -> CallState] /\ at \in [Ids -> Processes \cup {None}]
  /\ mail \in [Ids -> Seq(Messages)] /\ reader \in [Processes -> ReaderState]
  /\ closer \in CloserState /\ events \in Nat /\ faults \in Nat
  /\ sent \in [Calls -> Nat] /\ seen \in [Calls -> Nat]

TypeInv == Typed /\ Placed

-----------------------------------------------------------------------------
(* A process that has not been spawned.                                     *)
Unborn ==
  \A p \in Processes : p > spawned =>
    /\ proc[p].fail = "no" /\ ~proc[p].stdin /\ proc[p].pending = {}
    /\ child[p].state = "none" /\ child[p].out = <<>> /\ reader[p].pc = "read"

(* The process a thread works on.  Only the last process can have a child   *)
(* that is not reaped; it is in the slot, or the thread that took it out    *)
(* reaps it before it lets go of the slot or ends.                          *)
Gone(p) == child[p].state \in {"none", "reaped"}

OneProcess ==
  /\ \A p \in Processes :
       /\ child[p].state = "none" <=> p > spawned
       /\ p < spawned => child[p].state = "reaped"
  /\ slot # None => slot = spawned
  /\ \A c \in Calls :
       /\ slotLock = c <=> call[c].pc \in Locking
       /\ call[c].pc \in {"terminateStdin", "terminateChild"} => at[Id(c)] = spawned
       /\ call[c].pc = "spawn" => \A p \in Processes : Gone(p)
  /\ slotLock # None => slot = None /\ closer.pc \in {"idle", "take"}
  /\ (slot = None /\ slotLock = None /\ closer.pc \in {"idle", "take", "done"}) =>
       \A p \in Processes : Gone(p)
  /\ closer.pc \in {"stdin", "poll", "expired"} => closer.of = spawned /\ spawned # 0
  /\ closer.pc \notin {"idle", "take"} => closing /\ slot = None /\ slotLock = None
  /\ closer.pc # "idle" => closing

-----------------------------------------------------------------------------
(* A request is fresh until it is in the table, and open from then on until *)
(* its receiver is gone.                                                    *)
Fresh(id) ==
  LET c == id[1] IN
  IF id[2] = "call" THEN call[c].stage = "call" /\ call[c].pc \in Early
  ELSE IF call[c].stage = "call" THEN call[c].pc \in Early \cup {"write", "writing", "await"}
  ELSE call[c].pc \in Early

Open(id) == ReceiverAlive(id) /\ ~Fresh(id)

Has(s)  == \E i \in DOMAIN s : s[i] \in Results
Once(s) == \A i, j \in DOMAIN s : s[i] \in Results /\ s[j] \in Results => i = j

Completed(id)  == Has(mail[id])
InTable(id, p) == id \in proc[p].pending
InHand(id, p)  == reader[p].pc = "deliver" /\ reader[p].held.id = id

(* Where the completion of a request is: in the table of its process, with  *)
(* the reader of that process, or in the channel, and only in one place.    *)
Tokens ==
  /\ \A id \in Ids, p \in Processes :
       /\ InTable(id, p) \/ InHand(id, p) => ~Fresh(id) /\ at[id] = p /\ ~Completed(id)
       /\ ~(InTable(id, p) /\ InHand(id, p))
  /\ \A id \in Ids : Once(mail[id]) /\ (Completed(id) => Open(id))

(* A thread writes to stdin while it holds its lock; fail closes stdin      *)
(* before it drains the table.                                              *)
StdinHeld ==
  /\ \A p \in Processes : proc[p].fail \in {"drain", "kill", "done"} => ~proc[p].stdin
  /\ \A c \in Calls : call[c].pc = "writing" =>
       proc[at[Id(c)]].lock = c /\ proc[at[Id(c)]].stdin

(* No request is forgotten.  A request that is registered after the table   *)
(* was drained finds stdin closed.                                          *)
Undrained(id, p) == InTable(id, p) /\ proc[p].fail \in {"no", "stdin", "drain"}
Kept(id) ==
  Completed(id) \/ \E p \in Processes : InHand(id, p) \/ (at[id] = p /\ Undrained(id, p))
Late(id) == call[id[1]].pc = "write" /\ Id(id[1]) = id /\ ~proc[at[id]].stdin

Remembered == \A id \in Ids : Open(id) => Kept(id) \/ Late(id)
-----------------------------------------------------------------------------
(* Types.                                                                   *)

(* A request is named by its call and stage.                                *)
LEMMA IdType ==
  ASSUME TypeInv, NEW c \in Calls
  PROVE  /\ Id(c) \in Ids /\ Id(c)[1] = c /\ Id(c)[2] = call[c].stage
         /\ call[c] \in CallState
         /\ call[c].pc \notin Unplaced => at[Id(c)] \in 1 .. spawned /\ at[Id(c)] \in Processes
         /\ call[c].stage = "cancel" => at[<<c, "call">>] \in 1 .. spawned
<1>1. /\ Id(c) \in Ids /\ Id(c)[1] = c /\ Id(c)[2] = call[c].stage
      /\ call[c] \in CallState /\ <<c, "call">> \in Ids
  BY DEF TypeInv, Typed, CallState, Id, Ids
<1>2. spawned \in 0 .. MaxSpawns /\ MaxSpawns \in Nat
  BY ClientAssumption DEF TypeInv, Typed
<1>3. 1 .. spawned \subseteq Processes
  BY <1>2 DEF Processes
<1>4. /\ call[c].pc \notin Unplaced => at[Id(c)] \in 1 .. spawned
      /\ call[c].stage = "cancel" => at[<<c, "call">>] \in 1 .. spawned
  BY DEF TypeInv, Placed
<1> QED BY <1>1, <1>3, <1>4

(* The parts of a thread's step keep the types.                             *)
LEMMA GotoType ==
  ASSUME TypeInv, NEW c \in Calls, NEW pc \in Steps, Goto(c, pc)
  PROVE  /\ call' \in [Calls -> CallState] /\ mail' \in [Ids -> Seq(Messages)]
         /\ \A d \in Calls : /\ call'[d].stage = call[d].stage
                             /\ call'[d].pc = IF d = c THEN pc ELSE call[d].pc
BY DEF TypeInv, Typed, CallState, Goto

(* A call that returns, and the cancel that returns to its call.           *)
LEMMA ReturnType ==
  ASSUME TypeInv, NEW c \in Calls, NEW outcome \in Results, Return(c, outcome)
  PROVE  /\ call' \in [Calls -> CallState]
         /\ mail' \in [Ids -> Seq(Messages)] /\ mail' = [mail EXCEPT ![Id(c)] = <<>>]
         /\ \A d \in Calls \ {c} : call'[d] = call[d]
         /\ call[c].stage = "call" =>
              /\ call'[c].pc = "returned" /\ call'[c].stage = "call"
              /\ call'[c].outcome = outcome
         /\ call[c].stage = "cancel" =>
              /\ call'[c].pc = IF outcome = "failed" THEN "cancelFailed" ELSE "grace"
              /\ call'[c].stage = "call" /\ call'[c].outcome = call[c].outcome
         /\ call'[c].kind = call[c].kind
<1> DEFINE pc == IF outcome = "failed" THEN "cancelFailed" ELSE "grace"
           over(w) == [w EXCEPT !.pc = "returned", !.outcome = outcome]
           back(w) == [w EXCEPT !.stage = "call", !.pc = pc]
<1>1. ASSUME NEW w \in CallState
      PROVE  /\ over(w) \in CallState /\ over(w).pc = "returned" /\ over(w).outcome = outcome
             /\ over(w).stage = w.stage /\ over(w).kind = w.kind
             /\ back(w) \in CallState /\ back(w).pc = pc /\ back(w).outcome = w.outcome
             /\ back(w).stage = "call" /\ back(w).kind = w.kind
  BY DEF CallState, Steps, Early
<1>2. /\ mail' = [mail EXCEPT ![Id(c)] = <<>>]
      /\ call' = IF call[c].stage = "call" THEN [call EXCEPT ![c] = over(call[c])]
                                           ELSE [call EXCEPT ![c] = back(call[c])]
  BY DEF Return
<1>3. <<>> \in Seq(Messages) /\ call \in [Calls -> CallState] /\ mail \in [Ids -> Seq(Messages)]
  BY DEF TypeInv, Typed
<1>4. call[c] \in CallState
  BY <1>3
<1> HIDE DEF over, back
<1>5. mail' \in [Ids -> Seq(Messages)]
  BY <1>2, <1>3
<1>6. CASE call[c].stage = "call"
  BY <1>1, <1>2, <1>3, <1>4, <1>5, <1>6
<1>7. CASE call[c].stage # "call"
  BY <1>1, <1>2, <1>3, <1>4, <1>5, <1>7
<1> QED BY <1>6, <1>7

(* A step changes the fields S of one process, or of one child, at most.    *)
ProcKeeps(p, S) ==
  /\ proc' \in [Processes -> ProcState] /\ \A q \in Processes \ {p} : proc'[q] = proc[q]
  /\ "stdin" \notin S => proc'[p].stdin = proc[p].stdin
  /\ "lock" \notin S => proc'[p].lock = proc[p].lock
  /\ "pending" \notin S => proc'[p].pending = proc[p].pending
  /\ "fail" \notin S => proc'[p].fail = proc[p].fail /\ proc'[p].by = proc[p].by
  /\ "closing" \notin S => proc'[p].closing = proc[p].closing

ChildKeeps(p, S) ==
  /\ child' \in [Processes -> ChildState] /\ \A q \in Processes \ {p} : child'[q] = child[q]
  /\ "state" \notin S => child'[p].state = child[p].state
  /\ "pipe" \notin S => child'[p].pipe = child[p].pipe
  /\ "inbox" \notin S => child'[p].inbox = child[p].inbox
  /\ "out" \notin S => child'[p].out = child[p].out

Failure(p, t) ==
  /\ proc'[p].fail = IF proc[p].fail = "no" THEN "stdin" ELSE proc[p].fail
  /\ proc'[p].by = IF proc[p].fail = "no" THEN t ELSE proc[p].by

(* One field of a process.                                                  *)
LEMMA SetsClosing ==
  ASSUME TypeInv, NEW p \in Processes, NEW b \in BOOLEAN,
         proc' = [proc EXCEPT ![p].closing = b]
  PROVE  ProcKeeps(p, {"closing"}) /\ proc'[p].closing = b
<1> DEFINE turns(v) == [v EXCEPT !.closing = b]
<1>1. ASSUME NEW v \in ProcState
      PROVE  /\ turns(v) \in ProcState
             /\ turns(v).stdin = v.stdin
             /\ turns(v).lock = v.lock
             /\ turns(v).pending = v.pending
             /\ turns(v).fail = v.fail
             /\ turns(v).by = v.by
             /\ turns(v).closing = b
  BY DEF ProcState
<1>2. proc' = [proc EXCEPT ![p] = turns(proc[p])]
  OBVIOUS
<1>3. proc \in [Processes -> ProcState] /\ proc[p] \in ProcState
  BY DEF TypeInv, Typed
<1> HIDE DEF turns
<1>4. /\ proc' \in [Processes -> ProcState] /\ \A q \in Processes \ {p} : proc'[q] = proc[q]
      /\ proc'[p] = turns(proc[p])
  BY <1>1, <1>2, <1>3
<1>5. turns(proc[p]) \in ProcState
  BY <1>1, <1>3
<1> QED BY <1>1, <1>3, <1>4 DEF ProcKeeps

(* A process with its stdin set.                                           *)
LEMMA SetsStdin ==
  ASSUME TypeInv, NEW p \in Processes, NEW b \in BOOLEAN,
         proc' = [proc EXCEPT ![p].stdin = b]
  PROVE  ProcKeeps(p, {"stdin"}) /\ proc'[p].stdin = b
<1> DEFINE turns(v) == [v EXCEPT !.stdin = b]
<1>1. ASSUME NEW v \in ProcState
      PROVE  /\ turns(v) \in ProcState
             /\ turns(v).stdin = b
             /\ turns(v).lock = v.lock
             /\ turns(v).pending = v.pending
             /\ turns(v).fail = v.fail
             /\ turns(v).by = v.by
             /\ turns(v).closing = v.closing
  BY DEF ProcState
<1>2. proc' = [proc EXCEPT ![p] = turns(proc[p])]
  OBVIOUS
<1>3. proc \in [Processes -> ProcState] /\ proc[p] \in ProcState
  BY DEF TypeInv, Typed
<1> HIDE DEF turns
<1>4. /\ proc' \in [Processes -> ProcState] /\ \A q \in Processes \ {p} : proc'[q] = proc[q]
      /\ proc'[p] = turns(proc[p])
  BY <1>1, <1>2, <1>3
<1>5. turns(proc[p]) \in ProcState
  BY <1>1, <1>3
<1> QED BY <1>1, <1>3, <1>4 DEF ProcKeeps

(* A process with the lock of its stdin set.                               *)
LEMMA SetsLock ==
  ASSUME TypeInv, NEW p \in Processes, NEW l \in Calls \cup {None},
         proc' = [proc EXCEPT ![p].lock = l]
  PROVE  ProcKeeps(p, {"lock"}) /\ proc'[p].lock = l
<1> DEFINE turns(v) == [v EXCEPT !.lock = l]
<1>1. ASSUME NEW v \in ProcState
      PROVE  /\ turns(v) \in ProcState
             /\ turns(v).stdin = v.stdin
             /\ turns(v).lock = l
             /\ turns(v).pending = v.pending
             /\ turns(v).fail = v.fail
             /\ turns(v).by = v.by
             /\ turns(v).closing = v.closing
  BY DEF ProcState
<1>2. proc' = [proc EXCEPT ![p] = turns(proc[p])]
  OBVIOUS
<1>3. proc \in [Processes -> ProcState] /\ proc[p] \in ProcState
  BY DEF TypeInv, Typed
<1> HIDE DEF turns
<1>4. /\ proc' \in [Processes -> ProcState] /\ \A q \in Processes \ {p} : proc'[q] = proc[q]
      /\ proc'[p] = turns(proc[p])
  BY <1>1, <1>2, <1>3
<1>5. turns(proc[p]) \in ProcState
  BY <1>1, <1>3
<1> QED BY <1>1, <1>3, <1>4 DEF ProcKeeps

(* A process with its table set.                                           *)
LEMMA SetsPending ==
  ASSUME TypeInv, NEW p \in Processes, NEW t \in SUBSET Ids,
         proc' = [proc EXCEPT ![p].pending = t]
  PROVE  ProcKeeps(p, {"pending"}) /\ proc'[p].pending = t
<1> DEFINE turns(v) == [v EXCEPT !.pending = t]
<1>1. ASSUME NEW v \in ProcState
      PROVE  /\ turns(v) \in ProcState
             /\ turns(v).stdin = v.stdin
             /\ turns(v).lock = v.lock
             /\ turns(v).pending = t
             /\ turns(v).fail = v.fail
             /\ turns(v).by = v.by
             /\ turns(v).closing = v.closing
  BY DEF ProcState
<1>2. proc' = [proc EXCEPT ![p] = turns(proc[p])]
  OBVIOUS
<1>3. proc \in [Processes -> ProcState] /\ proc[p] \in ProcState
  BY DEF TypeInv, Typed
<1> HIDE DEF turns
<1>4. /\ proc' \in [Processes -> ProcState] /\ \A q \in Processes \ {p} : proc'[q] = proc[q]
      /\ proc'[p] = turns(proc[p])
  BY <1>1, <1>2, <1>3
<1>5. turns(proc[p]) \in ProcState
  BY <1>1, <1>3
<1> QED BY <1>1, <1>3, <1>4 DEF ProcKeeps

(* A process with its failure set.                                         *)
LEMMA SetsFail ==
  ASSUME TypeInv, NEW p \in Processes, NEW f \in {"drain", "kill", "done"},
         proc' = [proc EXCEPT ![p].fail = f]
  PROVE  ProcKeeps(p, {"fail"}) /\ proc'[p].fail = f /\ proc'[p].by = proc[p].by
<1> DEFINE turns(v) == [v EXCEPT !.fail = f]
<1>1. ASSUME NEW v \in ProcState
      PROVE  /\ turns(v) \in ProcState
             /\ turns(v).stdin = v.stdin
             /\ turns(v).lock = v.lock
             /\ turns(v).pending = v.pending
             /\ turns(v).fail = f
             /\ turns(v).by = v.by
             /\ turns(v).closing = v.closing
  BY DEF ProcState
<1>2. proc' = [proc EXCEPT ![p] = turns(proc[p])]
  OBVIOUS
<1>3. proc \in [Processes -> ProcState] /\ proc[p] \in ProcState
  BY DEF TypeInv, Typed
<1> HIDE DEF turns
<1>4. /\ proc' \in [Processes -> ProcState] /\ \A q \in Processes \ {p} : proc'[q] = proc[q]
      /\ proc'[p] = turns(proc[p])
  BY <1>1, <1>2, <1>3
<1>5. turns(proc[p]) \in ProcState
  BY <1>1, <1>3
<1> QED BY <1>1, <1>3, <1>4 DEF ProcKeeps

(* Both fields a step of fail sets.                                         *)
LEMMA SetsStdinFail ==
  ASSUME TypeInv, NEW p \in Processes,
         proc' = [proc EXCEPT ![p] = [@ EXCEPT !.stdin = FALSE, !.fail = "drain"]]
  PROVE  ProcKeeps(p, {"stdin", "fail"}) /\ proc'[p].stdin = FALSE /\ proc'[p].fail = "drain"
         /\ proc'[p].by = proc[p].by
<1> DEFINE turns(v) == [v EXCEPT !.stdin = FALSE, !.fail = "drain"]
<1>1. ASSUME NEW v \in ProcState
      PROVE  /\ turns(v) \in ProcState
             /\ turns(v).stdin = FALSE
             /\ turns(v).lock = v.lock
             /\ turns(v).pending = v.pending
             /\ turns(v).fail = "drain"
             /\ turns(v).by = v.by
             /\ turns(v).closing = v.closing
  BY DEF ProcState
<1>2. proc' = [proc EXCEPT ![p] = turns(proc[p])]
  OBVIOUS
<1>3. proc \in [Processes -> ProcState] /\ proc[p] \in ProcState
  BY DEF TypeInv, Typed
<1> HIDE DEF turns
<1>4. /\ proc' \in [Processes -> ProcState] /\ \A q \in Processes \ {p} : proc'[q] = proc[q]
      /\ proc'[p] = turns(proc[p])
  BY <1>1, <1>2, <1>3
<1>5. turns(proc[p]) \in ProcState
  BY <1>1, <1>3
<1> QED BY <1>1, <1>3, <1>4 DEF ProcKeeps

(* A process with its table and its failure set.                           *)
LEMMA SetsPendingFail ==
  ASSUME TypeInv, NEW p \in Processes, NEW f \in {"kill", "done"},
         proc' = [proc EXCEPT ![p] = [@ EXCEPT !.pending = {}, !.fail = f]]
  PROVE  ProcKeeps(p, {"pending", "fail"}) /\ proc'[p].pending = {} /\ proc'[p].fail = f
         /\ proc'[p].by = proc[p].by
<1> DEFINE turns(v) == [v EXCEPT !.pending = {}, !.fail = f]
<1>1. ASSUME NEW v \in ProcState
      PROVE  /\ turns(v) \in ProcState
             /\ turns(v).stdin = v.stdin
             /\ turns(v).lock = v.lock
             /\ turns(v).pending = {}
             /\ turns(v).fail = f
             /\ turns(v).by = v.by
             /\ turns(v).closing = v.closing
  BY DEF ProcState
<1>2. proc' = [proc EXCEPT ![p] = turns(proc[p])]
  OBVIOUS
<1>3. proc \in [Processes -> ProcState] /\ proc[p] \in ProcState
  BY DEF TypeInv, Typed
<1> HIDE DEF turns
<1>4. /\ proc' \in [Processes -> ProcState] /\ \A q \in Processes \ {p} : proc'[q] = proc[q]
      /\ proc'[p] = turns(proc[p])
  BY <1>1, <1>2, <1>3
<1>5. turns(proc[p]) \in ProcState
  BY <1>1, <1>3
<1> QED BY <1>1, <1>3, <1>4 DEF ProcKeeps

(* One field of a child, or those that change when it dies or prints.       *)
LEMMA SetsState ==
  ASSUME TypeInv, NEW p \in Processes, NEW s \in {"running"},
         child' = [child EXCEPT ![p].state = s]
  PROVE  ChildKeeps(p, {"state"}) /\ child'[p].state = s
<1> DEFINE turns(v) == [v EXCEPT !.state = s]
<1>1. ASSUME NEW v \in ChildState
      PROVE  /\ turns(v) \in ChildState
             /\ turns(v).state = s
             /\ turns(v).pipe = v.pipe
             /\ turns(v).inbox = v.inbox
             /\ turns(v).out = v.out
  BY DEF ChildState
<1>2. child' = [child EXCEPT ![p] = turns(child[p])]
  OBVIOUS
<1>3. child \in [Processes -> ChildState] /\ child[p] \in ChildState
  BY DEF TypeInv, Typed
<1> HIDE DEF turns
<1>4. /\ child' \in [Processes -> ChildState] /\ \A q \in Processes \ {p} : child'[q] = child[q]
      /\ child'[p] = turns(child[p])
  BY <1>1, <1>2, <1>3
<1>5. turns(child[p]) \in ChildState
  BY <1>1, <1>3
<1> QED BY <1>1, <1>3, <1>4 DEF ChildKeeps

(* A child with its stdin pipe set.                                        *)
LEMMA SetsPipe ==
  ASSUME TypeInv, NEW p \in Processes, NEW t \in SUBSET Ids,
         child' = [child EXCEPT ![p].pipe = t]
  PROVE  ChildKeeps(p, {"pipe"}) /\ child'[p].pipe = t
<1> DEFINE turns(v) == [v EXCEPT !.pipe = t]
<1>1. ASSUME NEW v \in ChildState
      PROVE  /\ turns(v) \in ChildState
             /\ turns(v).state = v.state
             /\ turns(v).pipe = t
             /\ turns(v).inbox = v.inbox
             /\ turns(v).out = v.out
  BY DEF ChildState
<1>2. child' = [child EXCEPT ![p] = turns(child[p])]
  OBVIOUS
<1>3. child \in [Processes -> ChildState] /\ child[p] \in ChildState
  BY DEF TypeInv, Typed
<1> HIDE DEF turns
<1>4. /\ child' \in [Processes -> ChildState] /\ \A q \in Processes \ {p} : child'[q] = child[q]
      /\ child'[p] = turns(child[p])
  BY <1>1, <1>2, <1>3
<1>5. turns(child[p]) \in ChildState
  BY <1>1, <1>3
<1> QED BY <1>1, <1>3, <1>4 DEF ChildKeeps

(* A child with its stdout pipe set.                                       *)
LEMMA SetsOut ==
  ASSUME TypeInv, NEW p \in Processes, NEW o \in Seq(Line),
         child' = [child EXCEPT ![p].out = o]
  PROVE  ChildKeeps(p, {"out"}) /\ child'[p].out = o
<1> DEFINE turns(v) == [v EXCEPT !.out = o]
<1>1. ASSUME NEW v \in ChildState
      PROVE  /\ turns(v) \in ChildState
             /\ turns(v).state = v.state
             /\ turns(v).pipe = v.pipe
             /\ turns(v).inbox = v.inbox
             /\ turns(v).out = o
  BY DEF ChildState
<1>2. child' = [child EXCEPT ![p] = turns(child[p])]
  OBVIOUS
<1>3. child \in [Processes -> ChildState] /\ child[p] \in ChildState
  BY DEF TypeInv, Typed
<1> HIDE DEF turns
<1>4. /\ child' \in [Processes -> ChildState] /\ \A q \in Processes \ {p} : child'[q] = child[q]
      /\ child'[p] = turns(child[p])
  BY <1>1, <1>2, <1>3
<1>5. turns(child[p]) \in ChildState
  BY <1>1, <1>3
<1> QED BY <1>1, <1>3, <1>4 DEF ChildKeeps

(* A child that is reaped.                                                 *)
LEMMA SetsDead ==
  ASSUME TypeInv, NEW p \in Processes, NEW s \in {"exited", "reaped"},
         child' = [child EXCEPT ![p] = [@ EXCEPT !.state = s, !.pipe = {}, !.inbox = {}]]
  PROVE  ChildKeeps(p, {"state", "pipe", "inbox"}) /\ child'[p].state = s /\ child'[p].pipe = {} /\ child'[p].inbox = {}
<1> DEFINE turns(v) == [v EXCEPT !.state = s, !.pipe = {}, !.inbox = {}]
<1>1. ASSUME NEW v \in ChildState
      PROVE  /\ turns(v) \in ChildState
             /\ turns(v).state = s
             /\ turns(v).pipe = {}
             /\ turns(v).inbox = {}
             /\ turns(v).out = v.out
  BY DEF ChildState
<1>2. child' = [child EXCEPT ![p] = turns(child[p])]
  OBVIOUS
<1>3. child \in [Processes -> ChildState] /\ child[p] \in ChildState
  BY DEF TypeInv, Typed
<1> HIDE DEF turns
<1>4. /\ child' \in [Processes -> ChildState] /\ \A q \in Processes \ {p} : child'[q] = child[q]
      /\ child'[p] = turns(child[p])
  BY <1>1, <1>2, <1>3
<1>5. turns(child[p]) \in ChildState
  BY <1>1, <1>3
<1> QED BY <1>1, <1>3, <1>4 DEF ChildKeeps

(* A child that takes a request out of the pipe.                           *)
LEMMA SetsInbox ==
  ASSUME TypeInv, NEW p \in Processes, NEW t \in SUBSET Ids, NEW u \in SUBSET Ids,
         child' = [child EXCEPT ![p] = [@ EXCEPT !.pipe = t, !.inbox = u]]
  PROVE  ChildKeeps(p, {"pipe", "inbox"}) /\ child'[p].pipe = t /\ child'[p].inbox = u
<1> DEFINE turns(v) == [v EXCEPT !.pipe = t, !.inbox = u]
<1>1. ASSUME NEW v \in ChildState
      PROVE  /\ turns(v) \in ChildState
             /\ turns(v).state = v.state
             /\ turns(v).pipe = t
             /\ turns(v).inbox = u
             /\ turns(v).out = v.out
  BY DEF ChildState
<1>2. child' = [child EXCEPT ![p] = turns(child[p])]
  OBVIOUS
<1>3. child \in [Processes -> ChildState] /\ child[p] \in ChildState
  BY DEF TypeInv, Typed
<1> HIDE DEF turns
<1>4. /\ child' \in [Processes -> ChildState] /\ \A q \in Processes \ {p} : child'[q] = child[q]
      /\ child'[p] = turns(child[p])
  BY <1>1, <1>2, <1>3
<1>5. turns(child[p]) \in ChildState
  BY <1>1, <1>3
<1> QED BY <1>1, <1>3, <1>4 DEF ChildKeeps

(* A child that prints a line.                                             *)
LEMMA SetsPrinted ==
  ASSUME TypeInv, NEW p \in Processes, NEW o \in Seq(Line), NEW u \in SUBSET Ids,
         child' = [child EXCEPT ![p] = [@ EXCEPT !.out = o, !.inbox = u]]
  PROVE  ChildKeeps(p, {"out", "inbox"}) /\ child'[p].out = o /\ child'[p].inbox = u
<1> DEFINE turns(v) == [v EXCEPT !.out = o, !.inbox = u]
<1>1. ASSUME NEW v \in ChildState
      PROVE  /\ turns(v) \in ChildState
             /\ turns(v).state = v.state
             /\ turns(v).pipe = v.pipe
             /\ turns(v).inbox = u
             /\ turns(v).out = o
  BY DEF ChildState
<1>2. child' = [child EXCEPT ![p] = turns(child[p])]
  OBVIOUS
<1>3. child \in [Processes -> ChildState] /\ child[p] \in ChildState
  BY DEF TypeInv, Typed
<1> HIDE DEF turns
<1>4. /\ child' \in [Processes -> ChildState] /\ \A q \in Processes \ {p} : child'[q] = child[q]
      /\ child'[p] = turns(child[p])
  BY <1>1, <1>2, <1>3
<1>5. turns(child[p]) \in ChildState
  BY <1>1, <1>3
<1> QED BY <1>1, <1>3, <1>4 DEF ChildKeeps

(* A thread marks a process as failed.                                      *)
LEMMA SetsFailed ==
  ASSUME TypeInv, NEW p \in Processes, NEW t \in Calls \cup {"reader", "closer"},
         proc' = FailedBy(p, t)
  PROVE  ProcKeeps(p, {"fail"}) /\ Failure(p, t)
<1>1. CASE proc[p].fail # "no"
  BY <1>1 DEF FailedBy, IsFailed, ProcKeeps, Failure, TypeInv, Typed
<1>2. CASE proc[p].fail = "no"
  <2> DEFINE turns(v) == [v EXCEPT !.fail = "stdin", !.by = t]
  <2>1. ASSUME NEW v \in ProcState
        PROVE  /\ turns(v) \in ProcState /\ turns(v).fail = "stdin" /\ turns(v).by = t
               /\ turns(v).stdin = v.stdin /\ turns(v).lock = v.lock
               /\ turns(v).pending = v.pending /\ turns(v).closing = v.closing
    BY DEF ProcState
  <2>2. proc' = [proc EXCEPT ![p] = turns(proc[p])]
    BY <1>2 DEF FailedBy, IsFailed
  <2>3. proc \in [Processes -> ProcState] /\ proc[p] \in ProcState
    BY DEF TypeInv, Typed
  <2> HIDE DEF turns
  <2>4. /\ proc' \in [Processes -> ProcState] /\ \A q \in Processes \ {p} : proc'[q] = proc[q]
        /\ proc'[p] = turns(proc[p])
    BY <2>1, <2>2, <2>3
  <2> QED BY <1>2, <2>1, <2>3, <2>4 DEF ProcKeeps, Failure
<1> QED BY <1>1, <1>2

(* ... and lets go of its stdin.                                            *)
LEMMA SetsFailedLock ==
  ASSUME TypeInv, NEW p \in Processes, NEW t \in Calls \cup {"reader", "closer"},
         proc' = [FailedBy(p, t) EXCEPT ![p].lock = None]
  PROVE  ProcKeeps(p, {"fail", "lock"}) /\ Failure(p, t) /\ proc'[p].lock = None
<1> DEFINE drops(v) == [v EXCEPT !.lock = None]
           turns(v) == [v EXCEPT !.fail = "stdin", !.by = t]
           failed == FailedBy(p, t)
<1>1. ASSUME NEW v \in ProcState
      PROVE  /\ drops(v) \in ProcState /\ drops(v).lock = None /\ drops(v).by = v.by
             /\ drops(v).stdin = v.stdin /\ drops(v).fail = v.fail
             /\ drops(v).pending = v.pending /\ drops(v).closing = v.closing
  BY DEF ProcState
<1>2. ASSUME NEW v \in ProcState
      PROVE  /\ turns(v) \in ProcState /\ turns(v).fail = "stdin" /\ turns(v).by = t
             /\ turns(v).stdin = v.stdin /\ turns(v).lock = v.lock
             /\ turns(v).pending = v.pending /\ turns(v).closing = v.closing
  BY DEF ProcState
<1>3. proc' = [failed EXCEPT ![p] = drops(failed[p])]
  OBVIOUS
<1>4. failed = IF proc[p].fail # "no" THEN proc ELSE [proc EXCEPT ![p] = turns(proc[p])]
  BY DEF FailedBy, IsFailed
<1>5. proc \in [Processes -> ProcState] /\ proc[p] \in ProcState
  BY DEF TypeInv, Typed
<1> HIDE DEF drops, turns, failed
<1>6. /\ failed \in [Processes -> ProcState] /\ \A q \in Processes \ {p} : failed[q] = proc[q]
      /\ failed[p] = IF proc[p].fail # "no" THEN proc[p] ELSE turns(proc[p])
      /\ failed[p] \in ProcState
  BY <1>2, <1>4, <1>5
<1>7. /\ proc' \in [Processes -> ProcState] /\ \A q \in Processes \ {p} : proc'[q] = proc[q]
      /\ proc'[p] = drops(failed[p])
  BY <1>1, <1>3, <1>6
<1>8. /\ proc'[p].lock = None /\ proc'[p].stdin = failed[p].stdin
      /\ proc'[p].pending = failed[p].pending /\ proc'[p].closing = failed[p].closing
      /\ proc'[p].fail = failed[p].fail /\ proc'[p].by = failed[p].by
  <2> DEFINE r == failed[p]
  <2>1. r \in ProcState /\ proc'[p] = drops(r)
    BY <1>6, <1>7
  <2> HIDE DEF r
  <2>2. /\ proc'[p].lock = None /\ proc'[p].stdin = r.stdin /\ proc'[p].pending = r.pending
        /\ proc'[p].closing = r.closing /\ proc'[p].fail = r.fail /\ proc'[p].by = r.by
    BY <1>1, <2>1
  <2> QED BY <2>2 DEF r
<1>9. CASE proc[p].fail # "no"
  BY <1>6, <1>7, <1>8, <1>9 DEF ProcKeeps, Failure
<1>10. CASE proc[p].fail = "no"
  BY <1>2, <1>5, <1>6, <1>7, <1>8, <1>10 DEF ProcKeeps, Failure
<1> QED BY <1>9, <1>10

(* A call that goes on keeps its process or has one assigned; one that      *)
(* returns needs none, or that of its first request.                        *)
LEMMA GotoPlaced ==
  ASSUME TypeInv, NEW c \in Calls, NEW pc \in Steps, Goto(c, pc), UNCHANGED <<reader, closer>>,
         \/ UNCHANGED at /\ (pc \notin Unplaced => at[Id(c)] \in 1 .. spawned)
         \/ \E p \in 1 .. spawned' : at' = [at EXCEPT ![Id(c)] = p],
         spawned' \in Nat, spawned' >= spawned, slot' # None => slot' \in 1 .. spawned'
  PROVE  Placed'
<1>1. \A d \in Calls : /\ Id(d)' = Id(d) /\ call'[d].pc = IF d = c THEN pc ELSE call[d].pc
                       /\ call'[d].stage = call[d].stage
  BY GotoType DEF Id
<1>2. at \in [Ids -> Processes \cup {None}] /\ spawned \in Nat
  BY DEF TypeInv, Typed
<1>3. /\ \A id \in Ids : at[id] \in 1 .. spawned => at'[id] \in 1 .. spawned'
      /\ pc \notin Unplaced => at'[Id(c)] \in 1 .. spawned'
  <2>1. CASE UNCHANGED at /\ (pc \notin Unplaced => at[Id(c)] \in 1 .. spawned)
    BY <1>2, <2>1
  <2>2. ASSUME NEW p \in 1 .. spawned', at' = [at EXCEPT ![Id(c)] = p]
        PROVE  /\ \A id \in Ids : at[id] \in 1 .. spawned => at'[id] \in 1 .. spawned'
               /\ at'[Id(c)] \in 1 .. spawned'
    <3>1. Id(c) \in Ids
      BY IdType
    <3>2. \A id \in Ids : at'[id] = IF id = Id(c) THEN p ELSE at[id]
      BY <1>2, <2>2
    <3> QED BY <1>2, <3>1, <3>2
  <2> QED BY <2>1, <2>2
<1>5. \A d \in Calls : <<d, "call">> \in Ids /\ Id(d) \in Ids
  BY IdType DEF Ids
<1>6. \A d \in Calls : call'[d].pc \notin Unplaced => at'[Id(d)'] \in 1 .. spawned'
  BY <1>1, <1>3, <1>5 DEF TypeInv, Placed
<1>7. \A d \in Calls : call'[d].stage = "cancel" => at'[<<d, "call">>] \in 1 .. spawned'
  BY <1>1, <1>3, <1>5 DEF TypeInv, Placed
<1>8. closer.pc \in {"stdin", "poll", "expired"} => closer.of \in 1 .. spawned'
  BY <1>2 DEF TypeInv, Placed
<1> QED BY <1>6, <1>7, <1>8 DEF TypeInv, Placed

(* The other threads keep their processes when a call returns.             *)
LEMMA ReturnPlaced ==
  ASSUME TypeInv, NEW c \in Calls, NEW outcome \in Results, Return(c, outcome),
         UNCHANGED <<reader, closer, at, spawned>>, slot' # None => slot' \in 1 .. spawned'
  PROVE  Placed'
<1>1. \A d \in Calls \ {c} : Id(d)' = Id(d) /\ call'[d] = call[d]
  BY ReturnType DEF Id
<1>2. call[c].stage \in {"call", "cancel"} /\ call'[c].stage = "call" /\ Id(c)' = <<c, "call">>
  BY ReturnType, IdType DEF Id, CallState
<1>3. call'[c].pc \notin Unplaced => at[<<c, "call">>] \in 1 .. spawned
  BY <1>2, ReturnType, IdType DEF Unplaced
<1>4. \A d \in Calls : call'[d].pc \notin Unplaced => at[Id(d)'] \in 1 .. spawned
  BY <1>1, <1>2, <1>3 DEF TypeInv, Placed
<1>5. \A d \in Calls : call'[d].stage = "cancel" => at[<<d, "call">>] \in 1 .. spawned
  BY <1>1, <1>2 DEF TypeInv, Placed
<1> QED BY <1>4, <1>5 DEF TypeInv, Placed

-----------------------------------------------------------------------------
(* Every action keeps the types.                                            *)
LEMMA StepNames ==
  /\ {"idle", "ensure", "submit", "register", "terminateStdin", "terminateChild", "spawn",
      "write", "writing", "await", "grace", "cancelFailed", "returned"} = Steps
  /\ "failed" \in Results
BY DEF Steps, Early, Locking, Results

(* What the calls do before they submit a request.                          *)
LEMMA EnsureTypes ==
  ASSUME TypeInv, NEW c \in Calls,
         \/ Start(c) \/ EnsureClosing(c) \/ EnsureReuse(c) \/ EnsureNew(c) \/ EnsureReplace(c)
         \/ TerminateStdin(c) \/ TerminateChild(c) \/ Spawn(c) \/ SpawnFails(c),
         UNCHANGED <<reader, closer, budget, seen>>
  PROVE  TypeInv'
<1>0. /\ Typed /\ Placed /\ Id(c) \in Ids
      /\ call[c].pc \notin Unplaced => at[Id(c)] \in 1 .. spawned /\ at[Id(c)] \in Processes
  BY IdType DEF TypeInv
<1>1. /\ spawned \in 0 .. MaxSpawns /\ spawned \in Nat /\ MaxSpawns \in Nat
      /\ Processes = 1 .. MaxSpawns /\ None \notin Processes /\ (slot # None => slot \in 1 .. spawned)
  BY <1>0, ClientAssumption DEF Typed, Placed, Processes
<1> USE DEF budget, client
<1>2. CASE Start(c)
  <2>1. Goto(c, "ensure") /\ "ensure" \in Steps /\ "ensure" \in Unplaced /\ UNCHANGED <<client, proc, child, at>>
    BY <1>2, StepNames DEF Start, Unplaced
  <2>2. Typed'
    BY <1>0, <2>1, GotoType DEF Typed
  <2> QED BY <1>1, <2>1, <2>2, GotoPlaced DEF TypeInv
<1>3. CASE EnsureClosing(c) \/ SpawnFails(c)
  <2>1. /\ Return(c, "failed") /\ "failed" \in Results /\ UNCHANGED <<closing, slot, spawned, proc, child, at>>
        /\ slotLock' \in Calls \cup {None}
    BY <1>0, <1>3, StepNames DEF EnsureClosing, SpawnFails, Typed
  <2>2. Typed'
    BY <1>0, <2>1, ReturnType DEF Typed
  <2> QED BY <1>1, <2>1, <2>2, ReturnPlaced DEF TypeInv
<1>4. CASE EnsureReuse(c)
  <2>1. /\ Goto(c, "submit") /\ "submit" \in Steps /\ slot \in 1 .. spawned
        /\ at' = [at EXCEPT ![Id(c)] = slot] /\ UNCHANGED <<client, proc, child>>
    BY <1>1, <1>4, StepNames DEF EnsureReuse
  <2>2. Typed'
    BY <1>0, <2>1, GotoType DEF Typed
  <2>3. \E p \in 1 .. spawned' : at' = [at EXCEPT ![Id(c)] = p]
    BY <2>1
  <2>4. spawned' \in Nat /\ spawned' >= spawned /\ (slot' # None => slot' \in 1 .. spawned')
    BY <1>1, <2>1
  <2>5. Placed'
    BY <2>1, <2>3, <2>4, GotoPlaced, Zenon
  <2> QED BY <2>2, <2>5 DEF TypeInv
<1>5. CASE EnsureNew(c)
  <2>1. /\ Goto(c, "spawn") /\ "spawn" \in Steps /\ "spawn" \in Unplaced /\ slotLock' = c
        /\ UNCHANGED <<closing, slot, spawned, proc, child, at>>
    BY <1>5, StepNames DEF EnsureNew, Unplaced
  <2>2. Typed'
    BY <1>0, <2>1, GotoType DEF Typed
  <2> QED BY <1>1, <2>1, <2>2, GotoPlaced DEF TypeInv
<1>6. CASE EnsureReplace(c)
  <2>1. /\ Goto(c, "terminateStdin") /\ "terminateStdin" \in Steps /\ slot \in 1 .. spawned
        /\ slot \in Processes /\ slot' = None /\ slotLock' = c
        /\ at' = [at EXCEPT ![Id(c)] = slot] /\ UNCHANGED <<closing, spawned, child>>
    BY <1>1, <1>6, StepNames DEF EnsureReplace
  <2>2. proc' \in [Processes -> ProcState]
    BY <1>6, <2>1, SetsClosing DEF EnsureReplace, ProcKeeps
  <2>3. Typed'
    BY <1>0, <2>1, <2>2, GotoType DEF Typed
  <2>4. \E p \in 1 .. spawned' : at' = [at EXCEPT ![Id(c)] = p]
    BY <2>1
  <2>5. spawned' \in Nat /\ spawned' >= spawned /\ (slot' # None => slot' \in 1 .. spawned')
    BY <1>1, <2>1
  <2>6. Placed'
    BY <2>1, <2>4, <2>5, GotoPlaced, Zenon
  <2> QED BY <2>3, <2>6 DEF TypeInv
<1>7. CASE TerminateStdin(c)
  <2>1. /\ Goto(c, "terminateChild") /\ "terminateChild" \in Steps /\ at[Id(c)] \in 1 .. spawned
        /\ at[Id(c)] \in Processes /\ UNCHANGED <<client, child, at>>
    BY <1>0, <1>7, StepNames DEF TerminateStdin, Unplaced
  <2>2. proc' \in [Processes -> ProcState]
    BY <1>7, <2>1, SetsStdin DEF TerminateStdin, ProcKeeps
  <2>3. Typed'
    BY <1>0, <2>1, <2>2, GotoType DEF Typed
  <2> QED BY <1>1, <2>1, <2>3, GotoPlaced DEF TypeInv
<1>8. CASE TerminateChild(c)
  <2>1. /\ Goto(c, "spawn") /\ "spawn" \in Steps /\ "spawn" \in Unplaced /\ at[Id(c)] \in Processes
        /\ child' = Killed(at[Id(c)]) /\ UNCHANGED <<client, proc, at>>
    BY <1>0, <1>8, StepNames DEF TerminateChild, Unplaced
  <2>2. child' \in [Processes -> ChildState]
    BY <2>1, SetsDead DEF Killed, ChildKeeps
  <2>3. Typed'
    BY <1>0, <2>1, <2>2, GotoType DEF Typed
  <2> QED BY <1>1, <2>1, <2>3, GotoPlaced DEF TypeInv
<1>9. CASE Spawn(c)
  <2>1. /\ Goto(c, "submit") /\ "submit" \in Steps /\ spawned + 1 \in Processes
        /\ spawned' = spawned + 1 /\ slot' = spawned + 1 /\ slotLock' = None
        /\ at' = [at EXCEPT ![Id(c)] = spawned + 1] /\ UNCHANGED closing
    BY <1>1, <1>9, StepNames DEF Spawn
  <2>2. proc' \in [Processes -> ProcState] /\ child' \in [Processes -> ChildState]
    BY <1>9, <2>1, SetsStdin, SetsState DEF Spawn, ProcKeeps, ChildKeeps
  <2>3. Typed'
    <3>1. spawned' \in 0 .. MaxSpawns /\ slot' \in Processes
      BY <1>1, <2>1
    <3> QED BY <1>0, <2>1, <2>2, <3>1, GotoType DEF Typed
  <2>4. spawned + 1 \in 1 .. spawned' /\ at' = [at EXCEPT ![Id(c)] = spawned + 1]
    BY <1>1, <2>1
  <2>5. spawned' \in Nat /\ spawned' >= spawned /\ slot' \in 1 .. spawned'
    BY <1>1, <2>1
  <2> QED BY <2>1, <2>3, <2>4, <2>5, GotoPlaced DEF TypeInv
<1> QED BY <1>2, <1>3, <1>4, <1>5, <1>6, <1>7, <1>8, <1>9

(* Submitting a request and writing it.                                     *)
LEMMA SubmitTypes ==
  ASSUME TypeInv, NEW c \in Calls,
         Submit(c) \/ Register(c) \/ LockStdin(c) \/ WriteFails(c) \/ Write(c),
         UNCHANGED <<reader, closer, budget, seen>>
  PROVE  TypeInv'
<1>0. /\ Typed /\ Placed /\ Id(c) \in Ids
      /\ call[c].pc \notin Unplaced => at[Id(c)] \in 1 .. spawned /\ at[Id(c)] \in Processes
  BY IdType DEF TypeInv
<1>1. spawned \in Nat /\ (slot # None => slot \in 1 .. spawned)
  BY <1>0 DEF Typed, Placed
<1> DEFINE p == at[Id(c)]
<1>2. p \in 1 .. spawned /\ p \in Processes /\ UNCHANGED <<client, at>>
  BY <1>0 DEF Submit, Register, LockStdin, WriteFails, Write, Unplaced
<1>3. proc' \in [Processes -> ProcState] /\ child' \in [Processes -> ChildState]
  <2>1. proc[p].pending \cup {Id(c)} \in SUBSET Ids /\ child[p].pipe \cup {Id(c)} \in SUBSET Ids
    BY <1>0, <1>2 DEF Typed, ProcState, ChildState
  <2> HIDE DEF p
  <2>2. CASE Submit(c)
    BY <1>0, <2>2 DEF Submit, Typed
  <2>3. CASE Register(c)
    <3>1. UNCHANGED child /\ (UNCHANGED proc \/ proc' = [proc EXCEPT ![p].pending = proc[p].pending \cup {Id(c)}])
      BY <2>3 DEF Register, p
    <3>2. UNCHANGED proc \/ proc' \in [Processes -> ProcState]
      BY <1>2, <2>1, <3>1, SetsPending DEF ProcKeeps
    <3>3. UNCHANGED child
      BY <2>3 DEF Register
    <3> HIDE <3>1
    <3> QED BY <1>0, <3>2, <3>3 DEF Typed
  <2>4. CASE LockStdin(c)
    <3>1. UNCHANGED child
      BY <2>4 DEF LockStdin
    <3>2. proc' = [proc EXCEPT ![p].lock = c] \/ proc' = FailedBy(p, c)
      BY <2>4 DEF LockStdin, p
    <3>3. proc' \in [Processes -> ProcState]
      BY <1>2, <3>2, SetsLock, SetsFailed DEF ProcKeeps
    <3> HIDE <3>2
    <3> QED BY <1>0, <3>1, <3>3 DEF Typed
  <2>5. CASE WriteFails(c)
    <3>1. UNCHANGED child
      BY <2>5 DEF WriteFails
    <3>2. proc' = [FailedBy(p, c) EXCEPT ![p].lock = None]
      BY <2>5 DEF WriteFails, p
    <3>3. proc' \in [Processes -> ProcState]
      BY <1>2, <3>2, SetsFailedLock DEF ProcKeeps
    <3> HIDE <3>2
    <3> QED BY <1>0, <3>1, <3>3 DEF Typed
  <2>6. CASE Write(c)
    <3>1. /\ proc' = [proc EXCEPT ![p].lock = None]
          /\ child' = [child EXCEPT ![p].pipe = child[p].pipe \cup {Id(c)}]
      BY <2>6 DEF Write, p
    <3> QED BY <1>2, <2>1, <3>1, SetsLock, SetsPipe DEF ProcKeeps, ChildKeeps
  <2> QED BY <2>2, <2>3, <2>4, <2>5, <2>6
<1>4. \/ Return(c, "failed")
      \/ \E pc \in Steps \ Unplaced : Goto(c, pc)
  BY StepNames DEF Submit, Register, LockStdin, WriteFails, Write, Unplaced
<1>5. spawned' \in Nat /\ spawned' >= spawned /\ (slot' # None => slot' \in 1 .. spawned')
  BY <1>1, <1>2 DEF client
<1> USE DEF budget, client
<1>6. CASE Return(c, "failed")
  <2>1. "failed" \in Results
    BY StepNames
  <2>2. Typed'
    BY <1>0, <1>2, <1>3, <1>6, <2>1, ReturnType DEF Typed
  <2> QED BY <1>2, <1>5, <1>6, <2>1, <2>2, ReturnPlaced DEF TypeInv
<1>7. ASSUME NEW pc \in Steps \ Unplaced, Goto(c, pc) PROVE TypeInv'
  <2>1. Typed'
    BY <1>0, <1>2, <1>3, <1>7, GotoType DEF Typed
  <2> QED BY <1>2, <1>5, <1>7, <2>1, GotoPlaced DEF TypeInv
<1> QED BY <1>4, <1>6, <1>7

(* Waiting for the result.                                                  *)
LEMMA AwaitTypes ==
  ASSUME TypeInv, NEW c \in Calls,
         \/ /\ TimeoutFails(c) \/ TimeoutCancels(c) \/ CancelFailed(c)
            /\ UNCHANGED <<reader, closer, budget, seen>>
         \/ Receive(c)
  PROVE  TypeInv'
<1>0. /\ Typed /\ Placed /\ Id(c) \in Ids
      /\ call[c].pc \notin Unplaced => at[Id(c)] \in 1 .. spawned /\ at[Id(c)] \in Processes
      /\ call[c] \in CallState /\ <<c, "call">> \in Ids
  BY IdType DEF TypeInv, Ids
<1>1. spawned \in Nat /\ (slot # None => slot \in 1 .. spawned) /\ "failed" \in Results
  BY <1>0, StepNames DEF Typed, Placed
<1> USE DEF budget, client
<1>2. CASE (TimeoutFails(c) \/ CancelFailed(c)) /\ UNCHANGED <<reader, closer, budget, seen>>
  <2>1. /\ proc' = FailedBy(at[Id(c)], c) /\ Return(c, "failed") /\ UNCHANGED <<client, child, at>>
        /\ at[Id(c)] \in Processes
    BY <1>0, <1>2 DEF TimeoutFails, CancelFailed, Unplaced
  <2>2. proc' \in [Processes -> ProcState]
    BY <2>1, SetsFailed DEF ProcKeeps
  <2>3. Typed'
    BY <1>0, <1>1, <1>2, <2>1, <2>2, ReturnType DEF Typed
  <2> QED BY <1>1, <1>2, <2>1, <2>3, ReturnPlaced DEF TypeInv
<1>3. CASE TimeoutCancels(c) /\ UNCHANGED <<reader, closer, budget, seen>>
  <2> DEFINE turns(v) == [v EXCEPT !.pc = "ensure", !.stage = "cancel"]
  <2>1. ASSUME NEW v \in CallState
        PROVE  turns(v) \in CallState /\ turns(v).pc = "ensure" /\ turns(v).stage = "cancel"
    BY DEF CallState, Steps, Early
  <2>2. /\ UNCHANGED <<client, proc, child, at, mail>> /\ call' = [call EXCEPT ![c] = turns(call[c])]
        /\ call[c].pc = "await" /\ call[c].stage = "call"
    BY <1>3 DEF TimeoutCancels
  <2>3. at[<<c, "call">>] \in 1 .. spawned
    BY <1>0, <2>2 DEF Id, Unplaced
  <2> HIDE DEF turns
  <2>4. /\ call' \in [Calls -> CallState] /\ call'[c].pc = "ensure"
        /\ \A d \in Calls \ {c} : call'[d] = call[d] /\ Id(d)' = Id(d)
    BY <1>0, <2>1, <2>2 DEF Typed, Id
  <2>5. Typed'
    BY <1>0, <1>3, <2>2, <2>4 DEF Typed
  <2>6. Placed'
    <3>1. \A d \in Calls : call'[d].pc \notin Unplaced => at[Id(d)'] \in 1 .. spawned
      BY <1>0, <2>4 DEF Placed, Unplaced
    <3>2. \A d \in Calls : call'[d].stage = "cancel" => at[<<d, "call">>] \in 1 .. spawned
      BY <1>0, <2>3, <2>4 DEF Placed
    <3>3. UNCHANGED <<at, spawned, slot, closer, reader>>
      BY <1>3, <2>2
    <3> HIDE <2>2
    <3> QED BY <1>0, <3>1, <3>2, <3>3 DEF Placed
  <2> QED BY <2>5, <2>6 DEF TypeInv
<1>4. CASE Receive(c)
  <2> DEFINE m == Head(mail[Id(c)])
  <2>1. /\ mail[Id(c)] \in Seq(Messages) /\ mail[Id(c)] # <<>>
        /\ UNCHANGED <<client, proc, child, at, reader, closer, budget>>
    BY <1>0, <1>4 DEF Receive, Typed
  <2>2. m \in Messages /\ Tail(mail[Id(c)]) \in Seq(Messages)
    BY <2>1
  <2>3. CASE m \in {"progress", "control"}
    <3>1. /\ seen' = [seen EXCEPT ![c] = @ + IF m = "control" THEN 1 ELSE 0]
          /\ mail' = [mail EXCEPT ![Id(c)] = Tail(@)] /\ UNCHANGED call
      BY <1>4, <2>3 DEF Receive
    <3>2. seen' \in [Calls -> Nat] /\ mail' \in [Ids -> Seq(Messages)]
      BY <1>0, <2>2, <3>1 DEF Typed
    <3>3. Typed'
      BY <1>0, <2>1, <3>1, <3>2 DEF Typed
    <3>4. \A d \in Calls : Id(d)' = Id(d)
      BY <3>1 DEF Id
    <3>5. Placed'
      BY <1>0, <2>1, <3>1, <3>4 DEF Placed
    <3> QED BY <3>3, <3>5 DEF TypeInv
  <2>4. CASE m \notin {"progress", "control"}
    <3>1. Return(c, m) /\ UNCHANGED seen
      BY <1>4, <2>4 DEF Receive
    <3>2. m \in Results
      BY <2>2, <2>4 DEF Messages
    <3> HIDE DEF m
    <3>3. Typed'
      BY <1>0, <2>1, <3>1, <3>2, ReturnType DEF Typed
    <3> QED BY <1>1, <2>1, <3>1, <3>2, <3>3, ReturnPlaced DEF TypeInv
  <2> QED BY <2>3, <2>4
<1> QED BY <1>2, <1>3, <1>4

(* Threads that leave the calls alone.                                      *)
LEMMA SamePlaced ==
  ASSUME Placed, UNCHANGED <<call, at, spawned>>, slot' \in {slot, None},
         closer'.pc \in {"stdin", "poll", "expired"} => closer'.of \in 1 .. spawned,
         \A q \in Processes :
           /\ reader'[q].pc = "deliver" => reader'[q].held \in Line /\ reader'[q].held.kind = "result"
           /\ reader'[q].pc = "queue" =>
                reader'[q].held \in Line /\ reader'[q].held.kind \in {"progress", "control"}
  PROVE  Placed'
<1>1. \A c \in Calls : Id(c)' = Id(c)
  BY DEF Id
<1> QED BY <1>1 DEF Placed

(* fail.                                                                    *)
LEMMA FailTypes ==
  ASSUME TypeInv, NEW p \in Processes, Fail(p)
  PROVE  TypeInv'
<1>0. Typed /\ Placed
  BY DEF TypeInv
<1>1. UNCHANGED <<client, call, at, reader, closer, budget, seen>>
  BY DEF Fail
<1>2. proc' \in [Processes -> ProcState] /\ child' \in [Processes -> ChildState]
  <2>1. CASE FailStdin(p)
    <3>1. proc' \in [Processes -> ProcState] /\ UNCHANGED child
      BY <2>1, SetsStdinFail DEF FailStdin, ProcKeeps
    <3> QED BY <1>0, <3>1 DEF Typed
  <2>2. CASE FailDrain(p)
    <3> DEFINE f == IF proc[p].by = "closer" THEN "done" ELSE "kill"
    <3>1. proc' = [proc EXCEPT ![p] = [@ EXCEPT !.pending = {}, !.fail = f]] /\ f \in {"kill", "done"}
      BY <2>2 DEF FailDrain
    <3> HIDE DEF f
    <3>2. proc' \in [Processes -> ProcState]
      BY <3>1, SetsPendingFail DEF ProcKeeps
    <3>3. UNCHANGED child
      BY <2>2 DEF FailDrain
    <3> HIDE <3>1
    <3> QED BY <1>0, <3>2, <3>3 DEF Typed
  <2>3. CASE FailKill(p)
    BY <2>3, SetsFail, SetsDead DEF FailKill, Killed, ProcKeeps, ChildKeeps
  <2> QED BY <2>1, <2>2, <2>3 DEF Fail
<1>3. mail' \in [Ids -> Seq(Messages)]
  <2>1. CASE UNCHANGED mail
    BY <1>0, <2>1 DEF Typed
  <2>2. CASE FailDrain(p)
    <3>1. mail' = [id \in Ids |-> IF id \in proc[p].pending /\ ReceiverAlive(id)
                                  THEN Append(mail[id], "failed") ELSE mail[id]]
      BY <2>2 DEF FailDrain
    <3>2. \A id \in Ids : mail[id] \in Seq(Messages) /\ Append(mail[id], "failed") \in Seq(Messages)
      BY <1>0 DEF Typed, Messages, Results
    <3> QED BY <3>1, <3>2
  <2> QED BY <2>1, <2>2 DEF Fail, FailStdin, FailKill
<1>4. Typed'
  BY <1>0, <1>1, <1>2, <1>3 DEF Typed, client, budget
<1>5. Placed'
  BY <1>0, <1>1, SamePlaced DEF client, Placed
<1> QED BY <1>4, <1>5 DEF TypeInv

(* What the reader does to its own state.                                   *)
LEMMA ReadsType ==
  ASSUME TypeInv, NEW p \in Processes, NEW pc \in {"read", "deliver", "queue", "stopped"},
         NEW held \in Line \cup {None}, Reads(p, pc, held)
  PROVE  /\ reader' \in [Processes -> ReaderState]
         /\ \A q \in Processes \ {p} : reader'[q] = reader[q]
         /\ reader'[p].pc = pc /\ reader'[p].held = held
<1>1. [pc |-> pc, held |-> held] \in ReaderState
  BY DEF ReaderState
<1> QED BY <1>1 DEF TypeInv, Typed, Reads

(* A line that is printed next.                                             *)
LEMMA NextLineType ==
  ASSUME TypeInv, NEW p \in Processes, child[p].out # <<>>
  PROVE  NextLine(p) \in Line /\ Tail(child[p].out) \in Seq(Line) /\ child[p].out \in Seq(Line)
<1>1. child[p].out \in Seq(Line)
  BY DEF TypeInv, Typed, ChildState
<1> QED BY <1>1 DEF NextLine

(* A line of a request names it.                                            *)
LEMMA LineType ==
  ASSUME NEW l \in Line
  PROVE  /\ l.kind \in {"result", "progress", "control", "fatal", "bad"}
         /\ l.kind \in {"result", "progress", "control"} => l.id \in Ids
         /\ l.kind = "result" => l.what \in {"answer", "rejected"}
BY DEF Line

(* The ways in which the reader goes on: it takes up a line, is ready for   *)
(* the next one after it has sent a message or not, or stops.               *)
Takes(p) ==
  /\ reader[p].pc = "read" /\ child[p].out # <<>> /\ Known(p)
  /\ \/ /\ NextLine(p).kind = "result" /\ ProcKeeps(p, {"pending"})
        /\ proc'[p].pending = proc[p].pending \ {NextLine(p).id}
        /\ Reads(p, "deliver", NextLine(p))
     \/ NextLine(p).kind # "result" /\ UNCHANGED proc /\ Reads(p, "queue", NextLine(p))
  /\ ChildKeeps(p, {"out"}) /\ child'[p].out = Tail(child[p].out)
  /\ UNCHANGED mail

Sends(p, m) ==
  /\ \/ reader[p].pc = "deliver" /\ m = reader[p].held.what
     \/ reader[p].pc = "queue" /\ m = reader[p].held.kind /\ ~Full(reader[p].held.id, m)
  /\ ReceiverAlive(reader[p].held.id)
  /\ mail' = [mail EXCEPT ![reader[p].held.id] = Append(@, m)]
  /\ Reads(p, "read", None) /\ UNCHANGED <<proc, child>>

Drops(p) ==
  /\ reader[p].pc = "queue" /\ reader[p].held.kind = "progress" /\ Full(reader[p].held.id, "progress")
  /\ Reads(p, "read", None) /\ UNCHANGED <<proc, child, mail>>

GivesUp(p) ==
  /\ \/ reader[p].pc = "read" /\ child[p].out # <<>> /\ ~Known(p)
        /\ ChildKeeps(p, {"out"}) /\ child'[p].out = Tail(child[p].out)
        /\ ProcKeeps(p, {"fail"}) /\ Failure(p, "reader")
        /\ Reads(p, IF NextLine(p).kind = "fatal" THEN "read" ELSE "stopped", None)
     \/ reader[p].pc = "read" /\ child[p].out = <<>> /\ UNCHANGED child
        /\ child[p].state \in {"exited", "reaped"}
        /\ (UNCHANGED proc \/ (ProcKeeps(p, {"fail"}) /\ Failure(p, "reader")))
        /\ Reads(p, "stopped", None)
     \/ /\ \/ reader[p].pc = "deliver" /\ ~ReceiverAlive(reader[p].held.id)
           \/ reader[p].pc = "queue"
        /\ UNCHANGED child /\ ProcKeeps(p, {"fail"}) /\ Failure(p, "reader")
        /\ Reads(p, "stopped", None)
  /\ UNCHANGED mail

(* Every step of the reader is one of these.                               *)
LEMMA ReaderDoes ==
  ASSUME TypeInv, NEW p \in Processes, ReaderStep(p)
  PROVE  /\ UNCHANGED <<client, call, at, closer, budget, seen>>
         /\ Takes(p) \/ (\E m \in Messages : Sends(p, m)) \/ Drops(p) \/ GivesUp(p)
<1>0. Typed /\ Placed
  BY DEF TypeInv
<1>1. /\ UNCHANGED <<client, call, at, closer, budget, seen>>
      /\ ReadLine(p) \/ Deliver(p) \/ Queue(p) \/ ReadEnd(p)
  BY DEF ReaderStep
<1>2. CASE ReadLine(p)
  <2>1. /\ reader[p].pc = "read" /\ child[p].out # <<>> /\ UNCHANGED mail
        /\ ReadKnown(p) \/ ReadOther(p)
    BY <1>2 DEF ReadLine
  <2>2. child' = [child EXCEPT ![p].out = Tail(child[p].out)]
    BY <1>2 DEF ReadLine
  <2>3. Tail(child[p].out) \in Seq(Line) /\ NextLine(p) \in Line
    BY <2>1, NextLineType
  <2>4. ChildKeeps(p, {"out"}) /\ child'[p].out = Tail(child[p].out)
    BY <2>2, <2>3, SetsOut
  <2> HIDE <2>2
  <2>5. CASE ReadKnown(p)
    <3>1. Known(p)
      BY <2>5 DEF ReadKnown
    <3>2. CASE NextLine(p).kind = "result"
      <4> DEFINE left == proc[p].pending \ {NextLine(p).id}
      <4>1. proc' = [proc EXCEPT ![p].pending = left] /\ Reads(p, "deliver", NextLine(p))
        BY <2>5, <3>2 DEF ReadKnown
      <4>2. left \in SUBSET Ids
        BY <1>0 DEF Typed, ProcState
      <4> HIDE DEF left
      <4>3. ProcKeeps(p, {"pending"}) /\ proc'[p].pending = left
        BY <4>1, <4>2, SetsPending
      <4> QED BY <1>1, <2>1, <2>4, <3>1, <3>2, <4>1, <4>3, Zenon DEF Takes, left
    <3>3. CASE NextLine(p).kind # "result"
      <4>1. UNCHANGED proc /\ Reads(p, "queue", NextLine(p))
        BY <2>5, <3>3 DEF ReadKnown
      <4> QED BY <1>1, <2>1, <2>4, <3>1, <3>3, <4>1, Zenon DEF Takes
    <3> QED BY <3>2, <3>3
  <2>6. CASE ReadOther(p)
    <3>1. ~Known(p) /\ Reads(p, IF NextLine(p).kind = "fatal" THEN "read" ELSE "stopped", None)
      BY <2>6 DEF ReadOther
    <3>2. ProcKeeps(p, {"fail"}) /\ Failure(p, "reader")
      BY <2>6, SetsFailed DEF ReadOther
    <3> QED BY <1>1, <2>1, <2>4, <3>1, <3>2, Zenon DEF GivesUp
  <2> QED BY <2>1, <2>5, <2>6
<1>3. ASSUME ReaderFails(p)
      PROVE  ProcKeeps(p, {"fail"}) /\ Failure(p, "reader") /\ Reads(p, "stopped", None) /\ UNCHANGED mail
  BY <1>3, SetsFailed DEF ReaderFails
<1>4. CASE Deliver(p)
  <2>1. reader[p].pc = "deliver" /\ UNCHANGED child
    BY <1>4 DEF Deliver
  <2>2. reader[p].held.what \in Messages
    BY <1>0, <2>1, LineType DEF Placed, Messages, Results
  <2>3. CASE ReceiverAlive(reader[p].held.id)
    <3>1. Send(p, reader[p].held.what)
      BY <1>4, <2>3 DEF Deliver
    <3>2. Sends(p, reader[p].held.what)
      BY <2>1, <2>3, <3>1, Zenon DEF Send, Sends
    <3> QED BY <1>1, <2>2, <3>2, Zenon
  <2>4. CASE ~ReceiverAlive(reader[p].held.id)
    <3>1. ReaderFails(p)
      BY <1>4, <2>4 DEF Deliver
    <3> QED BY <1>1, <1>3, <2>1, <2>4, <3>1, Zenon DEF GivesUp
  <2> QED BY <2>3, <2>4
<1>5. CASE Queue(p)
  <2> DEFINE l == reader[p].held
  <2>1. reader[p].pc = "queue" /\ UNCHANGED child
    BY <1>5 DEF Queue
  <2>2. l.kind \in Messages
    BY <1>0, <2>1 DEF Placed, Messages
  <2>3. ASSUME ReaderFails(p) PROVE GivesUp(p)
    BY <1>3, <2>1, <2>3, Zenon DEF GivesUp
  <2>4. CASE Full(l.id, l.kind) /\ l.kind = "progress"
    BY <1>1, <1>5, <2>1, <2>4, Zenon DEF Queue, Drops
  <2>5. CASE Full(l.id, l.kind) /\ l.kind # "progress"
    BY <1>1, <1>5, <2>3, <2>5, Zenon DEF Queue
  <2>6. CASE ~Full(l.id, l.kind) /\ ReceiverAlive(l.id)
    <3>1. Send(p, l.kind)
      BY <1>5, <2>6, Zenon DEF Queue
    <3>2. Sends(p, l.kind)
      BY <2>1, <2>6, <3>1, Zenon DEF Send, Sends
    <3> QED BY <1>1, <2>2, <3>2, Zenon
  <2>7. CASE ~Full(l.id, l.kind) /\ ~ReceiverAlive(l.id)
    BY <1>1, <1>5, <2>3, <2>7, Zenon DEF Queue
  <2> QED BY <2>4, <2>5, <2>6, <2>7
<1>6. CASE ReadEnd(p)
  <2>1. /\ reader[p].pc = "read" /\ child[p].out = <<>> /\ UNCHANGED <<child, mail>>
        /\ child[p].state \in {"exited", "reaped"} /\ Reads(p, "stopped", None)
    BY <1>6 DEF ReadEnd
  <2>2. UNCHANGED proc \/ (ProcKeeps(p, {"fail"}) /\ Failure(p, "reader"))
    BY <1>6, SetsFailed DEF ReadEnd
  <2> QED BY <1>1, <2>1, <2>2, Zenon DEF GivesUp
<1> QED BY <1>1, <1>2, <1>4, <1>5, <1>6

(* The reader keeps the types.                                             *)
LEMMA ReaderTypes ==
  ASSUME TypeInv, NEW p \in Processes, ReaderStep(p)
  PROVE  TypeInv'
<1>0. Typed /\ Placed
  BY DEF TypeInv
<1>1. UNCHANGED <<client, call, at, closer, budget, seen>>
  BY ReaderDoes
<1>2. \E pc \in {"read", "deliver", "queue", "stopped"}, held \in Line \cup {None} :
        /\ Reads(p, pc, held)
        /\ pc = "deliver" => held \in Line /\ held.kind = "result"
        /\ pc = "queue" => held \in Line /\ held.kind \in {"progress", "control"}
  <2>1. CASE Takes(p)
    <3>1. NextLine(p) \in Line
      BY <2>1, NextLineType DEF Takes
    <3>2. NextLine(p).kind \in {"result", "progress", "control"}
      BY <2>1 DEF Takes, Known
    <3>3. CASE NextLine(p).kind = "result"
      BY <2>1, <3>1, <3>3 DEF Takes
    <3>4. CASE NextLine(p).kind # "result"
      <4>1. Reads(p, "queue", NextLine(p))
        BY <2>1, <3>4 DEF Takes
      <4> QED BY <3>1, <3>2, <3>4, <4>1
    <3> QED BY <3>3, <3>4
  <2>2. CASE Reads(p, "read", None) \/ Reads(p, "stopped", None)
    BY <2>2
  <2>3. CASE (\E m \in Messages : Sends(p, m)) \/ Drops(p) \/ GivesUp(p)
    BY <2>2, <2>3, Zenon DEF Sends, Drops, GivesUp
  <2> QED BY <2>1, <2>3, ReaderDoes
<1>3. /\ reader' \in [Processes -> ReaderState]
      /\ \A q \in Processes :
           /\ reader'[q].pc = "deliver" => reader'[q].held \in Line /\ reader'[q].held.kind = "result"
           /\ reader'[q].pc = "queue" =>
                reader'[q].held \in Line /\ reader'[q].held.kind \in {"progress", "control"}
  <2>1. PICK pc \in {"read", "deliver", "queue", "stopped"}, held \in Line \cup {None} :
          /\ Reads(p, pc, held)
          /\ pc = "deliver" => held \in Line /\ held.kind = "result"
          /\ pc = "queue" => held \in Line /\ held.kind \in {"progress", "control"}
    BY <1>2
  <2>2. /\ reader' \in [Processes -> ReaderState]
        /\ \A q \in Processes \ {p} : reader'[q] = reader[q]
        /\ reader'[p].pc = pc /\ reader'[p].held = held
    BY <2>1, ReadsType
  <2> QED BY <1>0, <2>1, <2>2 DEF Placed
<1>4. proc' \in [Processes -> ProcState] /\ child' \in [Processes -> ChildState]
  BY <1>0, ReaderDoes DEF Typed, Takes, Sends, Drops, GivesUp, ProcKeeps, ChildKeeps
<1>5. mail' \in [Ids -> Seq(Messages)]
  <2>1. CASE UNCHANGED mail
    BY <1>0, <2>1 DEF Typed
  <2>2. ASSUME NEW m \in Messages, Sends(p, m) PROVE mail' \in [Ids -> Seq(Messages)]
    <3>1. reader[p].held \in Line /\ reader[p].held.kind \in {"result", "progress", "control"}
      BY <1>0, <2>2 DEF Placed, Sends
    <3>2. reader[p].held.id \in Ids
      BY <3>1, LineType
    <3>3. mail' = [mail EXCEPT ![reader[p].held.id] = Append(@, m)]
      BY <2>2 DEF Sends
    <3> QED BY <1>0, <3>2, <3>3 DEF Typed
  <2> QED BY <2>1, <2>2, ReaderDoes DEF Takes, Drops, GivesUp
<1>6. Typed'
  BY <1>0, <1>1, <1>3, <1>4, <1>5 DEF Typed, client, budget
<1>7. Placed'
  BY <1>0, <1>1, <1>3, SamePlaced DEF client, Placed
<1> QED BY <1>6, <1>7 DEF TypeInv

(* The thread in close: it takes the process out of the slot, or finds      *)
(* none, closes its stdin, waits, and reaps its child.                      *)
LEMMA CloserTypes ==
  ASSUME TypeInv, Close \/ CloserStep
  PROVE  TypeInv'
<1>0. Typed /\ Placed /\ closer \in CloserState
  BY DEF TypeInv, Typed
<1>1. /\ UNCHANGED <<slotLock, spawned, call, at, mail, reader, budget, seen>> /\ closing' \in BOOLEAN
      /\ slot' \in {slot, None}
  BY <1>0 DEF Close, CloserStep, TakeSlot, CloseStdin, Deadline, CloseEnds, Typed
<1>2. /\ closer' \in CloserState
      /\ closer'.pc \in {"stdin", "poll", "expired"} => closer'.of \in 1 .. spawned
  <2>1. ASSUME NEW pc \in {"take", "stdin", "poll", "expired", "done"},
               NEW q \in Processes \cup {None}, Closes(pc, q),
               pc \in {"stdin", "poll", "expired"} => q \in 1 .. spawned
        PROVE  /\ closer' \in CloserState
               /\ closer'.pc \in {"stdin", "poll", "expired"} => closer'.of \in 1 .. spawned
    BY <2>1 DEF Closes, CloserState
  <2>2. slot # None => slot \in Processes /\ slot \in 1 .. spawned
    BY <1>0 DEF Typed, Placed
  <2>3. closer.of \in Processes \cup {None}
    BY <1>0 DEF CloserState
  <2>4. closer.pc \in {"stdin", "poll", "expired"} => closer.of \in 1 .. spawned
    BY <1>0 DEF Placed
  <2>5. \/ Closes("take", None) \/ Closes("done", None) \/ (slot # None /\ Closes("stdin", slot))
        \/ Closes("done", closer.of)
        \/ /\ closer.pc \in {"stdin", "poll", "expired"}
           /\ Closes("poll", closer.of) \/ Closes("expired", closer.of)
    BY DEF Close, CloserStep, TakeSlot, CloseStdin, Deadline, CloseEnds
  <2> QED BY <2>1, <2>2, <2>3, <2>4, <2>5
<1>3. proc' \in [Processes -> ProcState] /\ child' \in [Processes -> ChildState]
  <2>1. CASE UNCHANGED <<proc, child>>
    BY <1>0, <2>1 DEF Typed
  <2>2. CASE TakeSlot /\ slot # None
    <3>1. slot \in Processes
      BY <1>0, <2>2 DEF Typed
    <3>2. ProcKeeps(slot, {"closing"}) /\ UNCHANGED child
      BY <2>2, <3>1, SetsClosing DEF TakeSlot
    <3> QED BY <1>0, <3>2 DEF ProcKeeps, Typed
  <2>3. closer.pc \in {"stdin", "poll", "expired"} => closer.of \in Processes
    <3>1. spawned \in 0 .. MaxSpawns /\ MaxSpawns \in Nat
      BY <1>0, ClientAssumption DEF Typed
    <3> QED BY <1>0, <3>1 DEF Placed, Processes
  <2>4. CASE CloseStdin
    <3>1. closer.of \in Processes
      BY <2>3, <2>4 DEF CloseStdin
    <3>2. ProcKeeps(closer.of, {"stdin"}) /\ UNCHANGED child
      BY <2>4, <3>1, SetsStdin DEF CloseStdin
    <3> QED BY <1>0, <3>2 DEF ProcKeeps, Typed
  <2>5. CASE CloseEnds
    <3>1. closer.of \in Processes
      BY <2>3, <2>5 DEF CloseEnds
    <3>2. ProcKeeps(closer.of, {"fail"}) /\ ChildKeeps(closer.of, {"state", "pipe", "inbox"})
      BY <2>5, <3>1, SetsFailed, SetsDead DEF CloseEnds, Killed
    <3> QED BY <3>2 DEF ProcKeeps, ChildKeeps
  <2> QED BY <2>1, <2>2, <2>4, <2>5 DEF Close, CloserStep, TakeSlot, Deadline
<1>4. Typed'
  BY <1>0, <1>1, <1>2, <1>3 DEF Typed, budget
<1>5. Placed'
  BY <1>0, <1>1, <1>2, SamePlaced DEF Placed
<1> QED BY <1>4, <1>5 DEF TypeInv

(* The child: it reads a request, prints a line or exits.                   *)
TakesUp(p) ==
  \E id \in child[p].pipe :
    /\ ChildKeeps(p, {"pipe", "inbox"})
    /\ child'[p].pipe = child[p].pipe \ {id} /\ child'[p].inbox = child[p].inbox \cup {id}
    /\ UNCHANGED sent

Adds(p, l) ==
  /\ ChildKeeps(p, {"out", "inbox"}) /\ child'[p].out = Append(child[p].out, l)
  /\ \/ /\ l.kind = "result" /\ l.id \in child[p].inbox
        /\ child'[p].inbox = child[p].inbox \ {l.id} /\ UNCHANGED sent
     \/ /\ l.kind \in {"progress", "control"} /\ l.id \in child[p].inbox
        /\ call[l.id[1]].kind = "operation" /\ child'[p].inbox = child[p].inbox
        /\ sent' = [sent EXCEPT ![l.id[1]] = @ + IF l.kind = "control" THEN 1 ELSE 0]
     \/ l.kind \in {"fatal", "bad"} /\ child'[p].inbox = child[p].inbox /\ UNCHANGED sent

Exits(p) ==
  /\ ChildKeeps(p, {"state", "pipe", "inbox"})
  /\ child'[p].state = "exited" /\ child'[p].pipe = {} /\ child'[p].inbox = {}
  /\ UNCHANGED sent

(* Every step of a child is one of these.                                  *)
LEMMA ChildDoes ==
  ASSUME TypeInv, NEW p \in Processes, ChildStep(p)
  PROVE  /\ UNCHANGED <<client, proc, call, at, mail, reader, closer, seen>>
         /\ child[p].state = "running" /\ events' \in Nat /\ faults' \in Nat
         /\ TakesUp(p) \/ (\E l \in Line : Adds(p, l)) \/ Exits(p)
<1>0. Typed /\ child[p] \in ChildState /\ events \in Nat /\ faults \in Nat
  BY DEF TypeInv, Typed
<1>1. /\ UNCHANGED <<client, proc, call, at, mail, reader, closer, seen>> /\ child[p].state = "running"
      /\ events' \in Nat /\ faults' \in Nat
  <2>1. UNCHANGED <<client, call, at, mail, reader, closer, seen>> /\ child[p].state = "running"
    BY DEF ChildStep
  <2>2. UNCHANGED proc
    BY Zenon DEF ChildStep, ChildReads, ChildAnswers, ChildReports, ChildBabbles, ChildExits, Prints
  <2>3. events' \in {events, events + 1} /\ faults' \in {faults, faults + 1}
    BY Zenon DEF ChildStep, ChildReads, ChildAnswers, ChildReports, ChildBabbles, ChildExits, Prints,
                 budget
  <2> QED BY <1>0, <2>1, <2>2, <2>3
<1>2. ASSUME NEW l \in Line, Prints(p, l)
      PROVE  /\ ChildKeeps(p, {"out", "inbox"}) /\ child'[p].out = Append(child[p].out, l)
             /\ child'[p].inbox = IF l.kind = "result" THEN child[p].inbox \ {l.id} ELSE child[p].inbox
  <2> DEFINE more == Append(child[p].out, l)
             left == child[p].inbox \ (IF l.kind = "result" THEN {l.id} ELSE {})
  <2>1. child' = [child EXCEPT ![p] = [@ EXCEPT !.out = more, !.inbox = left]]
    BY <1>2, Zenon DEF Prints
  <2>2. more \in Seq(Line) /\ left \in SUBSET Ids
    BY <1>0 DEF ChildState
  <2> HIDE DEF more, left
  <2>3. /\ ChildKeeps(p, {"out", "inbox"}) /\ child'[p].out = more /\ child'[p].inbox = left
    BY <2>1, <2>2, SetsPrinted
  <2> QED BY <2>3 DEF more, left
<1>3. CASE ChildReads(p)
  <2>1. PICK id \in child[p].pipe :
          /\ child' = [child EXCEPT ![p] = [@ EXCEPT !.pipe = child[p].pipe \ {id},
                         !.inbox = child[p].inbox \cup {id}]]
          /\ UNCHANGED <<proc, budget>>
    BY <1>3, Zenon DEF ChildReads
  <2> DEFINE pipe == child[p].pipe \ {id}
             inbox == child[p].inbox \cup {id}
  <2>2. child' = [child EXCEPT ![p] = [@ EXCEPT !.pipe = pipe, !.inbox = inbox]]
    BY <2>1, Zenon
  <2>3. pipe \in SUBSET Ids /\ inbox \in SUBSET Ids
    BY <1>0 DEF ChildState
  <2>4. UNCHANGED sent
    BY <2>1, Zenon DEF budget
  <2> HIDE DEF pipe, inbox
  <2>5. ChildKeeps(p, {"pipe", "inbox"}) /\ child'[p].pipe = pipe /\ child'[p].inbox = inbox
    BY <2>2, <2>3, SetsInbox
  <2>6. TakesUp(p)
    BY <2>4, <2>5, Zenon DEF TakesUp, pipe, inbox
  <2> QED BY <1>1, <2>6, Zenon
<1>4. CASE ChildAnswers(p)
  <2>1. PICK id \in child[p].inbox, what \in {"answer", "rejected"} :
          Prints(p, [kind |-> "result", id |-> id, what |-> what])
    BY <1>4 DEF ChildAnswers
  <2> DEFINE l == [kind |-> "result", id |-> id, what |-> what]
  <2>2. l \in Line /\ l.kind = "result" /\ l.id \in child[p].inbox
    BY <1>0 DEF Line, ChildState
  <2>3. UNCHANGED sent /\ Prints(p, l)
    BY <1>4, <2>1 DEF ChildAnswers, budget
  <2> HIDE DEF l
  <2>4. Adds(p, l)
    BY <1>2, <2>2, <2>3 DEF Adds
  <2> QED BY <1>1, <2>2, <2>4, Zenon
<1>5. CASE ChildReports(p)
  <2>1. PICK id \in child[p].inbox, kind \in {"progress", "control"} :
          /\ call[id[1]].kind = "operation"
          /\ Prints(p, [kind |-> kind, id |-> id])
          /\ sent' = [sent EXCEPT ![id[1]] = @ + IF kind = "control" THEN 1 ELSE 0]
    BY <1>5 DEF ChildReports
  <2> DEFINE l == [kind |-> kind, id |-> id]
  <2>2. l \in Line /\ l.kind = kind /\ l.id = id
    BY <1>0 DEF Line, ChildState
  <2>3. Prints(p, l)
    BY <2>1
  <2> HIDE DEF l
  <2>4. Adds(p, l)
    BY <1>2, <2>1, <2>2, <2>3 DEF Adds
  <2> QED BY <1>1, <2>2, <2>4, Zenon
<1>6. CASE ChildBabbles(p)
  <2>1. PICK kind \in {"fatal", "bad"} : Prints(p, [kind |-> kind])
    BY <1>6 DEF ChildBabbles
  <2> DEFINE l == [kind |-> kind]
  <2>2. l \in Line /\ l.kind = kind
    BY DEF Line
  <2>3. UNCHANGED sent /\ Prints(p, l)
    BY <1>6, <2>1 DEF ChildBabbles
  <2> HIDE DEF l
  <2>4. Adds(p, l)
    BY <1>2, <2>2, <2>3 DEF Adds
  <2> QED BY <1>1, <2>2, <2>4, Zenon
<1>7. CASE ChildExits(p)
  <2>1. /\ child' = [child EXCEPT ![p] = [@ EXCEPT !.state = "exited", !.pipe = {}, !.inbox = {}]]
        /\ UNCHANGED sent
    BY <1>7 DEF ChildExits
  <2>2. Exits(p)
    BY <2>1, SetsDead DEF Exits
  <2> QED BY <1>1, <2>2, Zenon
<1> QED BY <1>3, <1>4, <1>5, <1>6, <1>7 DEF ChildStep

(* The child keeps the types.                                              *)
LEMMA ChildTypes ==
  ASSUME TypeInv, NEW p \in Processes, ChildStep(p)
  PROVE  TypeInv'
<1>0. Typed /\ Placed
  BY DEF TypeInv
<1>1. /\ UNCHANGED <<client, proc, call, at, mail, reader, closer, seen>>
      /\ events' \in Nat /\ faults' \in Nat
  BY ChildDoes
<1>2. child' \in [Processes -> ChildState]
  BY ChildDoes DEF TakesUp, Adds, Exits, ChildKeeps
<1>3. sent' \in [Calls -> Nat]
  <2>1. CASE UNCHANGED sent
    BY <1>0, <2>1 DEF Typed
  <2>2. ASSUME NEW l \in Line, l.kind \in {"progress", "control"},
               sent' = [sent EXCEPT ![l.id[1]] = @ + IF l.kind = "control" THEN 1 ELSE 0]
        PROVE  sent' \in [Calls -> Nat]
    <3>1. l.id \in Ids
      BY <2>2, LineType
    <3>2. l.id[1] \in Calls
      BY <3>1 DEF Ids
    <3> QED BY <1>0, <2>2, <3>2 DEF Typed
  <2> QED BY <2>1, <2>2, ChildDoes DEF TakesUp, Adds, Exits
<1>4. Typed'
  BY <1>0, <1>1, <1>2, <1>3 DEF Typed, client
<1>5. Placed'
  BY <1>0, <1>1, SamePlaced DEF client, Placed
<1> QED BY <1>4, <1>5 DEF TypeInv

(* The initial state is well typed.                                        *)
LEMMA TypeInit == Init => TypeInv
<1> SUFFICES ASSUME Init PROVE TypeInv
  OBVIOUS
<1>1. /\ closing \in BOOLEAN /\ slot \in Processes \cup {None}
      /\ slotLock \in Calls \cup {None} /\ spawned \in 0 .. MaxSpawns
      /\ events \in Nat /\ faults \in Nat /\ sent \in [Calls -> Nat] /\ seen \in [Calls -> Nat]
      /\ at \in [Ids -> Processes \cup {None}] /\ mail \in [Ids -> Seq(Messages)]
  <2>1. closing \in BOOLEAN /\ slot = None /\ slotLock = None /\ spawned = 0
    BY DEF Init
  <2>2. /\ events \in Nat /\ faults \in Nat /\ sent \in [Calls -> Nat] /\ seen \in [Calls -> Nat]
        /\ at \in [Ids -> Processes \cup {None}]
    BY DEF Init
  <2>3. mail = [id \in Ids |-> <<>>] /\ <<>> \in Seq(Messages)
    BY DEF Init
  <2>4. mail \in [Ids -> Seq(Messages)]
    BY <2>3
  <2> QED BY <2>1, <2>2, <2>4, ClientAssumption
<1>2. proc \in [Processes -> ProcState] /\ child \in [Processes -> ChildState]
  BY DEF Init, ProcState, ChildState
<1>3. reader \in [Processes -> ReaderState] /\ closer \in CloserState
  BY DEF Init, ReaderState, CloserState
<1>4. call \in [Calls -> CallState]
  BY DEF Init, CallState, Steps, Early
<1>5. Placed
  BY DEF Init, Placed, Unplaced
<1> QED BY <1>1, <1>2, <1>3, <1>4, <1>5 DEF TypeInv, Typed

(* Every step of every thread keeps the types.                             *)
LEMMA TypeStep == TypeInv /\ [Next]_vars => TypeInv'
<1> SUFFICES ASSUME TypeInv, [Next]_vars PROVE TypeInv'
  OBVIOUS
<1>1. CASE UNCHANGED vars
  <2>1. Typed'
    BY <1>1 DEF vars, TypeInv, Typed
  <2>2. Placed'
    BY <1>1, SamePlaced DEF vars, TypeInv, Placed
  <2> QED BY <2>1, <2>2 DEF TypeInv
<1>2. ASSUME NEW c \in Calls, Starts(c) \/ CallStep(c) PROVE TypeInv'
  <2>1. CASE Starts(c)
    BY <2>1, EnsureTypes DEF Starts
  <2>2. CASE CallStep(c)
    <3>1. \/ /\ \/ EnsureClosing(c) \/ EnsureReuse(c) \/ EnsureNew(c) \/ EnsureReplace(c)
                \/ TerminateStdin(c) \/ TerminateChild(c) \/ Spawn(c) \/ SpawnFails(c)
             /\ UNCHANGED <<reader, closer, budget, seen>>
          \/ /\ Submit(c) \/ Register(c) \/ LockStdin(c) \/ WriteFails(c)
             /\ UNCHANGED <<reader, closer, budget, seen>>
          \/ /\ TimeoutFails(c) \/ TimeoutCancels(c) \/ CancelFailed(c)
             /\ UNCHANGED <<reader, closer, budget, seen>>
          \/ Write(c) \/ Receive(c)
      BY <2>2, Zenon DEF CallStep
    <3>2. CASE Write(c)
      <4>1. UNCHANGED <<reader, closer, budget, seen>>
        BY <3>2 DEF Write
      <4> QED BY <3>2, <4>1, SubmitTypes
    <3> QED BY <3>1, <3>2, EnsureTypes, SubmitTypes, AwaitTypes
  <2> QED BY <1>2, <2>1, <2>2
<1>3. ASSUME NEW p \in Processes, Fail(p) \/ ReaderStep(p) \/ ChildStep(p) PROVE TypeInv'
  BY <1>3, FailTypes, ReaderTypes, ChildTypes
<1>4. CASE Close \/ CloserStep
  BY <1>4, CloserTypes
<1> QED BY <1>1, <1>2, <1>3, <1>4 DEF Next

-----------------------------------------------------------------------------
(* What the threads do, as later lemmas need it: which fields of which      *)
(* process and child change, and where a call goes.                         *)
Walks(c) ==
  /\ \/ call[c].pc = "idle" /\ Goto(c, "ensure") /\ UNCHANGED <<slotLock, at>>
     \/ /\ call[c].pc = "ensure" /\ slotLock = None /\ slot # None
        /\ at' = [at EXCEPT ![Id(c)] = slot] /\ Goto(c, "submit") /\ UNCHANGED slotLock
     \/ /\ call[c].pc = "ensure" /\ slotLock = None /\ slot = None /\ ~closing
        /\ slotLock' = c /\ Goto(c, "spawn") /\ UNCHANGED at
     \/ call[c].pc = "submit" /\ Goto(c, "register") /\ UNCHANGED <<slotLock, at>>
  /\ UNCHANGED <<closing, slot, spawned, proc, child, seen>>

Replaces(c) ==
  /\ call[c].pc = "ensure" /\ slotLock = None /\ ~closing /\ slot \in 1 .. spawned
  /\ slot \in Processes /\ slot' = None /\ slotLock' = c
  /\ ProcKeeps(slot, {"closing"}) /\ at' = [at EXCEPT ![Id(c)] = slot]
  /\ Goto(c, "terminateStdin") /\ UNCHANGED <<closing, spawned, child, seen>>

Terminates(c) ==
  LET p == at[Id(c)] IN
  /\ call[c].pc = "terminateStdin" /\ proc[p].lock = None
  /\ ProcKeeps(p, {"stdin"}) /\ proc'[p].stdin = FALSE
  /\ Goto(c, "terminateChild") /\ UNCHANGED <<client, child, at, seen>>

Reaps(c) ==
  LET p == at[Id(c)] IN
  /\ call[c].pc = "terminateChild"
  /\ ChildKeeps(p, {"state", "pipe", "inbox"}) /\ child'[p].state = "reaped"
  /\ child'[p].pipe = {} /\ child'[p].inbox = {}
  /\ Goto(c, "spawn") /\ UNCHANGED <<client, proc, at, seen>>

Spawns(c) ==
  /\ call[c].pc = "spawn" /\ spawned + 1 \in Processes /\ slotLock' = None
  /\ spawned' = spawned + 1 /\ slot' = spawned + 1
  /\ ProcKeeps(spawned + 1, {"stdin"}) /\ ChildKeeps(spawned + 1, {"state"})
  /\ child'[spawned + 1].state = "running"
  /\ at' = [at EXCEPT ![Id(c)] = spawned + 1] /\ Goto(c, "submit") /\ UNCHANGED <<closing, seen>>

Registers(c) ==
  LET p == at[Id(c)] IN
  /\ call[c].pc = "register" /\ Cardinality(proc[p].pending) < MaxPending
  /\ ProcKeeps(p, {"pending"}) /\ proc'[p].pending = proc[p].pending \cup {Id(c)}
  /\ Goto(c, "write") /\ UNCHANGED <<client, child, at, seen>>

Locks(c) ==
  LET p == at[Id(c)] IN
  /\ call[c].pc = "write" /\ proc[p].lock = None /\ proc[p].stdin
  /\ ProcKeeps(p, {"lock"}) /\ proc'[p].lock = c
  /\ Goto(c, "writing") /\ UNCHANGED <<client, child, at, seen>>

Writes(c) ==
  LET p == at[Id(c)] IN
  /\ call[c].pc = "writing" /\ ProcKeeps(p, {"lock"}) /\ proc'[p].lock = None
  /\ ChildKeeps(p, {"pipe"}) /\ child'[p].pipe = child[p].pipe \cup {Id(c)}
  /\ Goto(c, "await") /\ UNCHANGED <<client, at, seen>>

Abandons(c) ==
  LET p == at[Id(c)] IN
  /\ call[c].pc \in {"write", "writing", "await", "grace", "cancelFailed"}
  /\ ProcKeeps(p, {"fail", "lock"}) /\ Failure(p, c)
  /\ call[c].pc # "writing" => proc'[p].lock = proc[p].lock
  /\ call[c].pc = "writing" => proc'[p].lock = None
  /\ Return(c, "failed") /\ UNCHANGED <<client, child, at, seen>>

Cancels(c) ==
  /\ call[c].pc = "await" /\ call[c].stage = "call" /\ mail[Id(c)] = <<>>
  /\ call[c].kind = "long"
  /\ \A d \in Calls \ {c} : call'[d] = call[d]
  /\ call'[c].pc = "ensure" /\ call'[c].stage = "cancel"
  /\ call'[c].kind = call[c].kind /\ call'[c].outcome = call[c].outcome
  /\ UNCHANGED <<client, proc, child, at, mail, seen>>

Gets(c) ==
  /\ Waiting(c) /\ mail[Id(c)] # <<>> /\ Head(mail[Id(c)]) \in {"progress", "control"}
  /\ mail' = [mail EXCEPT ![Id(c)] = Tail(@)]
  /\ seen' = [seen EXCEPT ![c] = @ + IF Head(mail[Id(c)]) = "control" THEN 1 ELSE 0]
  /\ UNCHANGED <<client, proc, child, call, at>>

Leaves(c) ==
  /\ call[c].pc \in {"ensure", "spawn", "submit", "register", "await", "grace"}
  /\ \E outcome \in Results :
       /\ Return(c, outcome)
       /\ Waiting(c) => mail[Id(c)] # <<>> /\ outcome = Head(mail[Id(c)])
       /\ ~Waiting(c) => outcome = "failed"
  /\ slotLock' = IF call[c].pc = "spawn" THEN None ELSE slotLock
  /\ UNCHANGED <<closing, slot, spawned, proc, child, at, seen>>

(* There are finitely many requests.                                        *)
LEMMA IdsFinite == IsFiniteSet(Ids)
<1>1. IsFiniteSet({"call", "cancel"})
  <2>1. IsFiniteSet({"call"}) /\ {"call", "cancel"} = {"call"} \cup {"cancel"}
    BY FS_Singleton
  <2>2. IsFiniteSet({"call"} \cup {"cancel"})
    BY <2>1, FS_AddElement
  <2> QED BY <2>1, <2>2
<1> QED BY <1>1, FS_Product, ClientAssumption DEF Ids

(* Every step of a call is one of these.                                   *)
LEMMA CallDoes ==
  ASSUME TypeInv, NEW c \in Calls, Starts(c) \/ CallStep(c)
  PROVE  /\ UNCHANGED <<reader, closer, budget>>
         /\ \/ Walks(c) \/ Replaces(c) \/ Terminates(c) \/ Reaps(c) \/ Spawns(c) \/ Registers(c)
            \/ Locks(c) \/ Writes(c) \/ Abandons(c) \/ Cancels(c) \/ Gets(c) \/ Leaves(c)
<1> DEFINE p == at[Id(c)]
           done == \/ Walks(c) \/ Replaces(c) \/ Terminates(c) \/ Reaps(c) \/ Spawns(c)
                   \/ Registers(c) \/ Locks(c) \/ Writes(c) \/ Abandons(c) \/ Cancels(c)
                   \/ Gets(c) \/ Leaves(c)
<1>0. /\ Typed /\ Placed /\ Id(c) \in Ids /\ call[c] \in CallState
      /\ call[c].pc \notin Unplaced => p \in 1 .. spawned /\ p \in Processes
  BY IdType DEF TypeInv
<1>1. /\ spawned \in 0 .. MaxSpawns /\ MaxSpawns \in Nat /\ "failed" \in Results
      /\ Processes = 1 .. MaxSpawns /\ (slot # None => slot \in 1 .. spawned /\ slot \in Processes)
  BY <1>0, StepNames, ClientAssumption DEF Typed, Placed, Processes
<1>2. UNCHANGED <<reader, closer, budget>>
  BY Zenon DEF Starts, CallStep, Write, Receive
<1>3. ASSUME Start(c) \/ EnsureReuse(c) \/ EnsureNew(c), UNCHANGED seen PROVE done
  <2>1. Walks(c)
    BY <1>3 DEF Walks, Start, EnsureReuse, EnsureNew, client
  <2> QED BY <2>1
<1>4. ASSUME EnsureClosing(c) \/ SpawnFails(c), UNCHANGED seen PROVE done
  <2>1. Leaves(c)
    BY <1>1, <1>4 DEF Leaves, EnsureClosing, SpawnFails, client, Waiting
  <2> QED BY <2>1
<1>5. ASSUME Submit(c), UNCHANGED seen PROVE done
  <2>1. CASE Goto(c, "register")
    <3>1. Walks(c)
      BY <1>5, <2>1 DEF Submit, Walks, client
    <3> QED BY <3>1
  <2>2. CASE Return(c, "failed")
    <3>1. Leaves(c)
      BY <1>1, <1>5, <2>2 DEF Submit, Leaves, client, Waiting
    <3> QED BY <3>1
  <2> QED BY <1>5, <2>1, <2>2 DEF Submit
<1>6. ASSUME EnsureReplace(c), UNCHANGED seen PROVE done
  <2>1. /\ call[c].pc = "ensure" /\ slotLock = None /\ ~closing /\ slot # None
        /\ slot' = None /\ slotLock' = c
        /\ proc' = [proc EXCEPT ![slot].closing = TRUE]
        /\ at' = [at EXCEPT ![Id(c)] = slot]
        /\ Goto(c, "terminateStdin")
        /\ UNCHANGED <<closing, spawned, child>>
    BY <1>6, Zenon DEF EnsureReplace
  <2>2. ProcKeeps(slot, {"closing"})
    BY <1>1, <2>1, SetsClosing
  <2>3. Replaces(c)
    BY <1>1, <1>6, <2>1, <2>2, Zenon DEF Replaces
  <2> QED BY <2>3
<1>7. ASSUME TerminateStdin(c), UNCHANGED seen PROVE done
  <2>1. /\ call[c].pc = "terminateStdin" /\ proc[p].lock = None
        /\ proc' = [proc EXCEPT ![p].stdin = FALSE]
        /\ Goto(c, "terminateChild") /\ UNCHANGED <<client, child, at>>
    BY <1>7, Zenon DEF TerminateStdin
  <2>2. p \in Processes
    BY <1>0, <2>1 DEF Unplaced
  <2>3. ProcKeeps(p, {"stdin"}) /\ proc'[p].stdin = FALSE
    BY <2>1, <2>2, SetsStdin
  <2>4. Terminates(c)
    BY <1>7, <2>1, <2>3, Zenon DEF Terminates
  <2> QED BY <2>4
<1>8. ASSUME TerminateChild(c), UNCHANGED seen PROVE done
  <2>1. /\ call[c].pc = "terminateChild" /\ child' = Killed(p)
        /\ Goto(c, "spawn") /\ UNCHANGED <<client, proc, at>>
    BY <1>8, Zenon DEF TerminateChild
  <2>2. p \in Processes
    BY <1>0, <2>1 DEF Unplaced
  <2>3. /\ ChildKeeps(p, {"state", "pipe", "inbox"}) /\ child'[p].state = "reaped"
        /\ child'[p].pipe = {} /\ child'[p].inbox = {}
    BY <2>1, <2>2, SetsDead DEF Killed
  <2>4. Reaps(c)
    BY <1>8, <2>1, <2>3, Zenon DEF Reaps
  <2> QED BY <2>4
<1>9. ASSUME Spawn(c), UNCHANGED seen PROVE done
  <2> DEFINE n == spawned + 1
  <2>1. /\ call[c].pc = "spawn" /\ slotLock' = None /\ spawned < MaxSpawns
        /\ spawned' = n /\ slot' = n
        /\ proc' = [proc EXCEPT ![n].stdin = TRUE] /\ child' = [child EXCEPT ![n].state = "running"]
        /\ at' = [at EXCEPT ![Id(c)] = n] /\ Goto(c, "submit") /\ UNCHANGED closing
    BY <1>9, Zenon DEF Spawn
  <2>2. n \in Processes
    BY <1>1, <2>1
  <2> HIDE DEF n
  <2>3. ProcKeeps(n, {"stdin"}) /\ ChildKeeps(n, {"state"}) /\ child'[n].state = "running"
    BY <2>1, <2>2, SetsStdin, SetsState
  <2>4. Spawns(c)
    BY <1>9, <2>1, <2>2, <2>3, Zenon DEF Spawns, n
  <2> QED BY <2>4
<1>10. ASSUME Register(c), UNCHANGED seen PROVE done
  <2>1. call[c].pc = "register" /\ UNCHANGED <<client, child, at>>
    BY <1>10 DEF Register
  <2>2. p \in Processes
    BY <1>0, <2>1 DEF Unplaced
  <2>3. CASE Cardinality(proc[p].pending) >= MaxPending
    <3>1. Return(c, "failed") /\ UNCHANGED proc
      BY <1>10, <2>3 DEF Register
    <3>2. Leaves(c)
      BY <1>1, <1>10, <2>1, <3>1 DEF Leaves, client, Waiting
    <3> QED BY <3>2
  <2>4. CASE ~(Cardinality(proc[p].pending) >= MaxPending)
    <3> DEFINE t == proc[p].pending \cup {Id(c)}
    <3>1. proc' = [proc EXCEPT ![p].pending = t] /\ Goto(c, "write")
      BY <1>10, <2>4, Zenon DEF Register
    <3>2. t \in SUBSET Ids
      BY <1>0, <2>2 DEF Typed, ProcState
    <3> HIDE DEF t
    <3>3. ProcKeeps(p, {"pending"}) /\ proc'[p].pending = t
      BY <2>2, <3>1, <3>2, SetsPending
    <3>4. Cardinality(proc[p].pending) < MaxPending
      <4>1. IsFiniteSet(proc[p].pending)
        <5>1. proc[p].pending \in SUBSET Ids
          BY <1>0, <2>2 DEF Typed, ProcState
        <5> QED BY <5>1, IdsFinite, FS_Subset
      <4>2. Cardinality(proc[p].pending) \in Nat /\ MaxPending \in Nat
        BY <4>1, FS_CardinalityType, ClientAssumption
      <4> QED BY <2>4, <4>2
    <3>5. Registers(c)
      BY <1>10, <2>1, <3>1, <3>3, <3>4, Zenon DEF Registers, t
    <3> QED BY <3>5
  <2> QED BY <2>3, <2>4
<1>11. ASSUME LockStdin(c), UNCHANGED seen PROVE done
  <2>1. call[c].pc = "write" /\ proc[p].lock = None /\ UNCHANGED <<client, child, at>>
    BY <1>11, Zenon DEF LockStdin
  <2>2. p \in Processes
    BY <1>0, <2>1 DEF Unplaced
  <2>3. CASE proc[p].stdin
    <3>1. proc' = [proc EXCEPT ![p].lock = c] /\ Goto(c, "writing")
      BY <1>11, <2>3, Zenon DEF LockStdin
    <3>2. ProcKeeps(p, {"lock"}) /\ proc'[p].lock = c
      BY <2>2, <3>1, SetsLock
    <3>3. Locks(c)
      BY <1>11, <2>1, <2>3, <3>1, <3>2, Zenon DEF Locks
    <3> QED BY <3>3
  <2>4. CASE ~proc[p].stdin
    <3>1. proc' = FailedBy(p, c) /\ Return(c, "failed")
      BY <1>11, <2>4, Zenon DEF LockStdin
    <3>2. ProcKeeps(p, {"fail"}) /\ Failure(p, c)
      BY <2>2, <3>1, SetsFailed
    <3>3. ProcKeeps(p, {"fail", "lock"}) /\ proc'[p].lock = proc[p].lock
      BY <3>2 DEF ProcKeeps
    <3>4. Abandons(c)
      BY <1>11, <2>1, <3>1, <3>2, <3>3 DEF Abandons
    <3> QED BY <3>4
  <2> QED BY <2>3, <2>4
<1>12. ASSUME WriteFails(c), UNCHANGED seen PROVE done
  <2>1. /\ call[c].pc = "writing" /\ UNCHANGED <<client, child, at>>
        /\ proc' = [FailedBy(p, c) EXCEPT ![p].lock = None] /\ Return(c, "failed")
    BY <1>12, Zenon DEF WriteFails
  <2>2. p \in Processes
    BY <1>0, <2>1 DEF Unplaced
  <2>3. ProcKeeps(p, {"fail", "lock"}) /\ Failure(p, c) /\ proc'[p].lock = None
    BY <2>1, <2>2, SetsFailedLock
  <2>4. Abandons(c)
    BY <1>12, <2>1, <2>3, Zenon DEF Abandons
  <2> QED BY <2>4
<1>13. ASSUME TimeoutFails(c) \/ CancelFailed(c), UNCHANGED seen PROVE done
  <2>1. /\ call[c].pc \in {"await", "grace", "cancelFailed"} /\ UNCHANGED <<client, child, at>>
        /\ proc' = FailedBy(p, c) /\ Return(c, "failed")
    BY <1>13 DEF TimeoutFails, CancelFailed
  <2>2. p \in Processes
    BY <1>0, <2>1 DEF Unplaced
  <2>3. ProcKeeps(p, {"fail"}) /\ Failure(p, c)
    BY <2>1, <2>2, SetsFailed
  <2>4. ProcKeeps(p, {"fail", "lock"}) /\ proc'[p].lock = proc[p].lock
    BY <2>3 DEF ProcKeeps
  <2>5. Abandons(c)
    BY <1>13, <2>1, <2>3, <2>4 DEF Abandons
  <2> QED BY <2>5
<1>14. ASSUME Write(c) PROVE done
  <2> DEFINE t == child[p].pipe \cup {Id(c)}
  <2>1. /\ call[c].pc = "writing" /\ UNCHANGED <<client, at, seen>>
        /\ proc' = [proc EXCEPT ![p].lock = None] /\ child' = [child EXCEPT ![p].pipe = t]
        /\ Goto(c, "await")
    BY <1>14, Zenon DEF Write
  <2>2. p \in Processes
    BY <1>0, <2>1 DEF Unplaced
  <2>3. t \in SUBSET Ids
    BY <1>0, <2>2 DEF Typed, ChildState
  <2> HIDE DEF t
  <2>4. /\ ProcKeeps(p, {"lock"}) /\ proc'[p].lock = None
        /\ ChildKeeps(p, {"pipe"}) /\ child'[p].pipe = t
    BY <2>1, <2>2, <2>3, SetsLock, SetsPipe
  <2>5. Writes(c)
    BY <2>1, <2>4, Zenon DEF Writes, t
  <2> QED BY <2>5
<1>15. ASSUME TimeoutCancels(c), UNCHANGED seen PROVE done
  <2> DEFINE turns(v) == [v EXCEPT !.pc = "ensure", !.stage = "cancel"]
  <2>1. ASSUME NEW v \in CallState
        PROVE  /\ turns(v).pc = "ensure" /\ turns(v).stage = "cancel"
               /\ turns(v).kind = v.kind /\ turns(v).outcome = v.outcome
    BY DEF CallState
  <2>2. /\ call[c].pc = "await" /\ call[c].kind = "long" /\ call[c].stage = "call"
        /\ mail[Id(c)] = <<>> /\ UNCHANGED <<client, proc, child, at, mail>>
        /\ call' = [call EXCEPT ![c] = turns(call[c])]
    BY <1>15, Zenon DEF TimeoutCancels
  <2> HIDE DEF turns
  <2>3. (\A d \in Calls \ {c} : call'[d] = call[d]) /\ call'[c] = turns(call[c])
    BY <1>0, <2>2 DEF Typed
  <2>4. /\ call'[c].pc = "ensure" /\ call'[c].stage = "cancel"
        /\ call'[c].kind = call[c].kind /\ call'[c].outcome = call[c].outcome
    BY <1>0, <2>1, <2>3
  <2>5. Cancels(c)
    BY <1>15, <2>2, <2>3, <2>4, Zenon DEF Cancels
  <2> QED BY <2>5
<1>16. ASSUME Receive(c) PROVE done
  <2> DEFINE m == Head(mail[Id(c)])
  <2>1. /\ Waiting(c) /\ mail[Id(c)] # <<>> /\ UNCHANGED <<client, proc, child, at>>
    BY <1>16, Zenon DEF Receive
  <2>2. m \in Messages
    BY <1>0, <2>1 DEF Typed
  <2>3. CASE m \in {"progress", "control"}
    <3>1. /\ seen' = [seen EXCEPT ![c] = @ + IF m = "control" THEN 1 ELSE 0]
          /\ mail' = [mail EXCEPT ![Id(c)] = Tail(@)] /\ UNCHANGED call
      BY <1>16, <2>3, Zenon DEF Receive
    <3>2. Gets(c)
      BY <2>1, <2>3, <3>1, Zenon DEF Gets
    <3> QED BY <3>2
  <2>4. CASE m \notin {"progress", "control"}
    <3>1. Return(c, m) /\ UNCHANGED seen
      BY <1>16, <2>4, Zenon DEF Receive
    <3>2. m \in Results
      BY <2>2, <2>4 DEF Messages
    <3>3. call[c].pc \in {"await", "grace"}
      BY <2>1 DEF Waiting
    <3> HIDE DEF m
    <3>4. \E outcome \in Results :
            /\ Return(c, outcome)
            /\ Waiting(c) => mail[Id(c)] # <<>> /\ outcome = Head(mail[Id(c)])
            /\ ~Waiting(c) => outcome = "failed"
      <4>1. m = Head(mail[Id(c)])
        BY DEF m
      <4> QED BY <2>1, <3>1, <3>2, <4>1
    <3>5. Leaves(c)
      BY <2>1, <3>1, <3>3, <3>4 DEF Leaves, client
    <3> QED BY <3>5
  <2> QED BY <2>3, <2>4
<1>17. done
  <2> HIDE DEF done
  <2>1. CASE Starts(c)
    BY <1>3, <2>1 DEF Starts
  <2>2. CASE CallStep(c)
    BY <1>3, <1>4, <1>5, <1>6, <1>7, <1>8, <1>9, <1>10, <1>11, <1>12, <1>13, <1>14, <1>15, <1>16,
       <2>2, Zenon DEF CallStep
  <2> QED BY <2>1, <2>2
<1> QED BY <1>2, <1>17

(* fail.                                                                    *)
ClosesStdin(p) ==
  /\ proc[p].fail = "stdin" /\ proc[p].lock = None
  /\ ProcKeeps(p, {"stdin", "fail"}) /\ proc'[p].stdin = FALSE /\ proc'[p].fail = "drain"
  /\ UNCHANGED <<child, mail>>

Drains(p) ==
  /\ proc[p].fail = "drain"
  /\ mail' = [id \in Ids |-> IF id \in proc[p].pending /\ ReceiverAlive(id)
                             THEN Append(mail[id], "failed") ELSE mail[id]]
  /\ ProcKeeps(p, {"pending", "fail"}) /\ proc'[p].pending = {} /\ proc'[p].fail \in {"kill", "done"}
  /\ UNCHANGED child

Kills(p) ==
  /\ proc[p].fail = "kill" /\ ProcKeeps(p, {"fail"}) /\ proc'[p].fail = "done"
  /\ ChildKeeps(p, {"state", "pipe", "inbox"}) /\ child'[p].state = "reaped"
  /\ child'[p].pipe = {} /\ child'[p].inbox = {}
  /\ UNCHANGED mail

(* Every step of fail is one of these.                                     *)
LEMMA FailDoes ==
  ASSUME TypeInv, NEW p \in Processes, Fail(p)
  PROVE  /\ UNCHANGED <<client, call, at, reader, closer, budget, seen>>
         /\ ClosesStdin(p) \/ Drains(p) \/ Kills(p)
<1>1. UNCHANGED <<client, call, at, reader, closer, budget, seen>>
  BY DEF Fail
<1>2. CASE FailStdin(p)
  <2>1. /\ proc[p].fail = "stdin" /\ proc[p].lock = None /\ UNCHANGED <<child, mail>>
        /\ proc' = [proc EXCEPT ![p] = [@ EXCEPT !.stdin = FALSE, !.fail = "drain"]]
    BY <1>2, Zenon DEF FailStdin
  <2>2. ProcKeeps(p, {"stdin", "fail"}) /\ proc'[p].stdin = FALSE /\ proc'[p].fail = "drain"
    BY <2>1, SetsStdinFail, Zenon
  <2>3. ClosesStdin(p)
    BY <2>1, <2>2, Zenon DEF ClosesStdin
  <2> QED BY <1>1, <2>3, Zenon
<1>3. CASE FailDrain(p)
  <2> DEFINE f == IF proc[p].by = "closer" THEN "done" ELSE "kill"
  <2>1. /\ proc[p].fail = "drain" /\ UNCHANGED child
        /\ mail' = [id \in Ids |-> IF id \in proc[p].pending /\ ReceiverAlive(id)
                                   THEN Append(mail[id], "failed") ELSE mail[id]]
        /\ proc' = [proc EXCEPT ![p] = [@ EXCEPT !.pending = {}, !.fail = f]]
    BY <1>3, Zenon DEF FailDrain
  <2>2. f \in {"kill", "done"}
    OBVIOUS
  <2> HIDE DEF f
  <2>3. ProcKeeps(p, {"pending", "fail"}) /\ proc'[p].pending = {} /\ proc'[p].fail = f
    BY <2>1, <2>2, SetsPendingFail, Zenon
  <2>4. Drains(p)
    BY <2>1, <2>2, <2>3, Zenon DEF Drains
  <2> QED BY <1>1, <2>4, Zenon
<1>4. CASE FailKill(p)
  <2>1. /\ proc[p].fail = "kill" /\ UNCHANGED mail /\ proc' = [proc EXCEPT ![p].fail = "done"]
        /\ child' = Killed(p)
    BY <1>4, Zenon DEF FailKill
  <2>2. ProcKeeps(p, {"fail"}) /\ proc'[p].fail = "done"
    BY <2>1, SetsFail
  <2>3. /\ ChildKeeps(p, {"state", "pipe", "inbox"}) /\ child'[p].state = "reaped"
        /\ child'[p].pipe = {} /\ child'[p].inbox = {}
    BY <2>1, SetsDead DEF Killed
  <2>4. Kills(p)
    BY <2>1, <2>2, <2>3, Zenon DEF Kills
  <2> QED BY <1>1, <2>4, Zenon
<1> QED BY <1>2, <1>3, <1>4 DEF Fail

(* close.                                                                   *)
Begins ==
  /\ closer.pc = "idle" /\ closer'.pc = "take" /\ closing' = TRUE
  /\ UNCHANGED <<slot, proc, child>>

Empties ==
  /\ closer.pc = "take" /\ slotLock = None /\ slot' = None
  /\ \/ slot = None /\ closer'.pc = "done" /\ UNCHANGED proc
     \/ /\ slot \in 1 .. spawned /\ slot \in Processes /\ closer'.pc = "stdin" /\ closer'.of = slot
        /\ ProcKeeps(slot, {"closing"})
  /\ UNCHANGED <<closing, child>>

Waits ==
  LET p == closer.of IN
  /\ p \in 1 .. spawned /\ p \in Processes /\ closer'.of = p
  /\ \/ /\ closer.pc = "stdin" /\ closer'.pc = "poll"
        /\ ProcKeeps(p, {"stdin"}) /\ proc'[p].stdin = FALSE /\ proc[p].lock = None
     \/ closer.pc = "poll" /\ closer'.pc = "expired" /\ UNCHANGED proc
  /\ UNCHANGED <<closing, slot, child>>

Finishes ==
  LET p == closer.of IN
  /\ p \in 1 .. spawned /\ p \in Processes /\ closer.pc \in {"poll", "expired"} /\ closer'.pc = "done"
  /\ ProcKeeps(p, {"fail"}) /\ Failure(p, "closer")
  /\ ChildKeeps(p, {"state", "pipe", "inbox"}) /\ child'[p].state = "reaped"
  /\ child'[p].pipe = {} /\ child'[p].inbox = {}
  /\ UNCHANGED <<closing, slot>>

(* Every step of close is one of these.                                    *)
LEMMA CloserDoes ==
  ASSUME TypeInv, Close \/ CloserStep
  PROVE  /\ UNCHANGED <<slotLock, spawned, call, at, mail, reader, budget, seen>>
         /\ Begins \/ Empties \/ Waits \/ Finishes
<1>0. /\ Typed /\ Placed /\ closer \in CloserState
      /\ slot # None => slot \in 1 .. spawned /\ slot \in Processes
  BY DEF TypeInv, Typed, Placed
<1>1. closer.pc \in {"stdin", "poll", "expired"} => closer.of \in 1 .. spawned /\ closer.of \in Processes
  <2>1. spawned \in 0 .. MaxSpawns /\ MaxSpawns \in Nat
    BY <1>0, ClientAssumption DEF Typed
  <2> QED BY <1>0, <2>1 DEF Placed, Processes
<1>2. UNCHANGED <<slotLock, spawned, call, at, mail, reader, budget, seen>>
  BY Zenon DEF Close, CloserStep
<1>3. CASE Close
  <2>1. Begins
    BY <1>3 DEF Close, Closes, Begins
  <2> QED BY <1>2, <2>1, Zenon
<1>4. CASE CloserStep
  <2>1. UNCHANGED closing /\ (TakeSlot \/ CloseStdin \/ Deadline \/ CloseEnds)
    BY <1>4 DEF CloserStep
  <2>2. CASE TakeSlot
    <3>1. closer.pc = "take" /\ slotLock = None /\ slot' = None /\ UNCHANGED child
      BY <2>2 DEF TakeSlot
    <3>2. CASE slot = None
      <4>1. closer'.pc = "done" /\ UNCHANGED proc
        BY <2>2, <3>2 DEF TakeSlot, Closes
      <4>2. Empties
        BY <2>1, <3>1, <3>2, <4>1 DEF Empties
      <4> QED BY <1>2, <4>2, Zenon
    <3>3. CASE slot # None
      <4>1. Closes("stdin", slot) /\ proc' = [proc EXCEPT ![slot].closing = TRUE]
        BY <2>2, <3>3, Zenon DEF TakeSlot
      <4>2. closer'.pc = "stdin" /\ closer'.of = slot
        BY <4>1 DEF Closes
      <4>3. ProcKeeps(slot, {"closing"})
        BY <1>0, <3>3, <4>1, SetsClosing
      <4>4. Empties
        BY <1>0, <2>1, <3>1, <3>3, <4>2, <4>3, Zenon DEF Empties
      <4> QED BY <1>2, <4>4, Zenon
    <3> QED BY <3>2, <3>3
  <2>3. CASE CloseStdin
    <3>1. /\ closer.pc = "stdin" /\ proc[closer.of].lock = None /\ Closes("poll", closer.of)
          /\ proc' = [proc EXCEPT ![closer.of].stdin = FALSE] /\ UNCHANGED <<slot, child>>
      BY <2>3, Zenon DEF CloseStdin
    <3>2. closer'.pc = "poll" /\ closer'.of = closer.of
      BY <3>1 DEF Closes
    <3>3. closer.of \in 1 .. spawned /\ closer.of \in Processes
      BY <1>1, <3>1
    <3>4. ProcKeeps(closer.of, {"stdin"}) /\ proc'[closer.of].stdin = FALSE
      BY <3>1, <3>3, SetsStdin
    <3>5. Waits
      BY <2>1, <3>1, <3>2, <3>3, <3>4, Zenon DEF Waits
    <3> QED BY <1>2, <3>5, Zenon
  <2>4. CASE Deadline
    <3>1. Waits
      BY <1>1, <2>1, <2>4 DEF Deadline, Closes, Waits
    <3> QED BY <1>2, <3>1, Zenon
  <2>5. CASE CloseEnds
    <3>1. /\ closer.pc \in {"poll", "expired"} /\ Closes("done", closer.of) /\ UNCHANGED slot
          /\ proc' = FailedBy(closer.of, "closer") /\ child' = Killed(closer.of)
      BY <2>5 DEF CloseEnds
    <3>2. closer'.pc = "done"
      BY <3>1 DEF Closes
    <3>3. closer.of \in 1 .. spawned /\ closer.of \in Processes
      BY <1>1, <3>1
    <3>4. ProcKeeps(closer.of, {"fail"}) /\ Failure(closer.of, "closer")
      BY <3>1, <3>3, SetsFailed
    <3>5. /\ ChildKeeps(closer.of, {"state", "pipe", "inbox"}) /\ child'[closer.of].state = "reaped"
          /\ child'[closer.of].pipe = {} /\ child'[closer.of].inbox = {}
      BY <3>1, <3>3, SetsDead DEF Killed
    <3>6. Finishes
      BY <2>1, <3>1, <3>2, <3>3, <3>4, <3>5, Zenon DEF Finishes
    <3> QED BY <1>2, <3>6, Zenon
  <2> QED BY <2>1, <2>2, <2>3, <2>4, <2>5
<1> QED BY <1>3, <1>4

-----------------------------------------------------------------------------
(* Nothing happens to a process that has not been spawned.                  *)
Touches(p) ==
  /\ \A q \in Processes \ {p} : proc'[q] = proc[q] /\ child'[q] = child[q] /\ reader'[q] = reader[q]
  /\ spawned' \in Nat /\ spawned' >= spawned

(* A step works on processes that have been spawned, or spawns the next.   *)
LEMMA StepTouches ==
  ASSUME TypeInv, Unborn, Next
  PROVE  (\E p \in 1 .. spawned' : Touches(p)) \/ UNCHANGED <<proc, child, reader, spawned>>
<1>0. /\ spawned \in Nat /\ Placed /\ Typed
      /\ \A p \in Processes : p \in Nat /\ (~(p > spawned) => p \in 1 .. spawned)
  BY ClientAssumption DEF TypeInv, Typed, Processes
<1>1. ASSUME NEW c \in Calls, Starts(c) \/ CallStep(c)
      PROVE  (\E p \in 1 .. spawned' : Touches(p)) \/ UNCHANGED <<proc, child, reader, spawned>>
  <2>1. UNCHANGED reader
    BY <1>1, CallDoes
  <2>2. /\ call[c].pc \notin Unplaced => at[Id(c)] \in 1 .. spawned
    BY <1>1, IdType
  <2>3. CASE Walks(c) \/ Cancels(c) \/ Gets(c) \/ Leaves(c)
    BY <2>1, <2>3 DEF Walks, Cancels, Gets, Leaves, client
  <2>4. CASE Replaces(c)
    <3>1. slot \in 1 .. spawned /\ UNCHANGED <<spawned, child>> /\ ProcKeeps(slot, {"closing"})
      BY <2>4, Zenon DEF Replaces
    <3>2. Touches(slot)
      BY <1>0, <2>1, <3>1 DEF ProcKeeps, Touches
    <3> QED BY <3>1, <3>2
  <2>5. CASE Spawns(c)
    BY <1>0, <2>1, <2>5 DEF Spawns, ProcKeeps, ChildKeeps, Touches
  <2>6. CASE Terminates(c) \/ Registers(c) \/ Locks(c) \/ Abandons(c)
    <3>1. /\ ProcKeeps(at[Id(c)], {"stdin", "pending", "lock", "fail"}) /\ UNCHANGED <<child, spawned>>
          /\ call[c].pc \notin Unplaced
      BY <2>6 DEF Terminates, Registers, Locks, Abandons, client, ProcKeeps, Unplaced
    <3> QED BY <1>0, <2>1, <2>2, <3>1 DEF ProcKeeps, Touches
  <2>7. CASE Reaps(c)
    BY <1>0, <2>1, <2>2, <2>7 DEF Reaps, ChildKeeps, Touches, client, Unplaced
  <2>8. CASE Writes(c)
    BY <1>0, <2>1, <2>2, <2>8 DEF Writes, ProcKeeps, ChildKeeps, Touches, client, Unplaced
  <2> QED BY <1>1, <2>3, <2>4, <2>5, <2>6, <2>7, <2>8, CallDoes, Zenon
<1>2. ASSUME NEW p \in Processes, Fail(p) \/ ReaderStep(p) \/ ChildStep(p)
      PROVE  \E q \in 1 .. spawned' : Touches(q)
  <2>1. UNCHANGED spawned
    BY <1>2, FailDoes, ReaderDoes, ChildDoes DEF client
  <2>2. CASE Fail(p)
    <3>1. UNCHANGED reader /\ (ClosesStdin(p) \/ Drains(p) \/ Kills(p))
      BY <2>2, FailDoes
    <3>2. p \in 1 .. spawned
      BY <1>0, <3>1 DEF Unborn, ClosesStdin, Drains, Kills
    <3>3. Touches(p)
      BY <1>0, <2>1, <3>1 DEF Touches, ClosesStdin, Drains, Kills, ProcKeeps, ChildKeeps
    <3> QED BY <2>1, <3>2, <3>3
  <2>3. CASE ReaderStep(p)
    <3>1. Takes(p) \/ (\E m \in Messages : Sends(p, m)) \/ Drops(p) \/ GivesUp(p)
      BY <2>3, ReaderDoes
    <3>2. /\ reader[p].pc \in {"deliver", "queue"} \/ child[p].out # <<>> \/ child[p].state \in {"exited", "reaped"}
          /\ \E pc, held : Reads(p, pc, held)
      BY <3>1, Zenon DEF Takes, Sends, Drops, GivesUp
    <3>3. p \in 1 .. spawned
      BY <1>0, <3>2 DEF Unborn
    <3>4. \A q \in Processes \ {p} : reader'[q] = reader[q]
      BY <1>0, <3>2 DEF Reads, Typed
    <3>5. \A q \in Processes \ {p} : proc'[q] = proc[q] /\ child'[q] = child[q]
      BY <3>1 DEF Takes, Sends, Drops, GivesUp, ProcKeeps, ChildKeeps
    <3>6. Touches(p)
      BY <1>0, <2>1, <3>4, <3>5 DEF Touches
    <3> QED BY <2>1, <3>3, <3>6
  <2>4. CASE ChildStep(p)
    <3>1. /\ UNCHANGED <<proc, reader>> /\ child[p].state = "running"
          /\ TakesUp(p) \/ (\E l \in Line : Adds(p, l)) \/ Exits(p)
      BY <2>4, ChildDoes
    <3>2. p \in 1 .. spawned
      BY <1>0, <3>1 DEF Unborn
    <3>3. Touches(p)
      BY <1>0, <2>1, <3>1 DEF Touches, TakesUp, Adds, Exits, ChildKeeps
    <3> QED BY <2>1, <3>2, <3>3
  <2> QED BY <1>2, <2>2, <2>3, <2>4
<1>3. ASSUME Close \/ CloserStep
      PROVE  (\E p \in 1 .. spawned' : Touches(p)) \/ UNCHANGED <<proc, child, reader, spawned>>
  <2>1. UNCHANGED <<reader, spawned>> /\ (Begins \/ Empties \/ Waits \/ Finishes)
    BY <1>3, CloserDoes
  <2>2. CASE Begins
    BY <2>1, <2>2 DEF Begins
  <2>3. CASE Empties
    BY <1>0, <2>1, <2>3 DEF Empties, ProcKeeps, Touches
  <2>4. CASE Waits \/ Finishes
    <3>1. closer.of \in 1 .. spawned /\ Touches(closer.of)
      BY <1>0, <2>1, <2>4 DEF Waits, Finishes, ProcKeeps, ChildKeeps, Touches
    <3> QED BY <2>1, <3>1
  <2> QED BY <2>1, <2>2, <2>3, <2>4
<1> QED BY <1>1, <1>2, <1>3 DEF Next

(* A process that has not been spawned stays as it is.                     *)
LEMMA UnbornStep == TypeInv /\ Unborn /\ [Next]_vars => Unborn'
<1> SUFFICES ASSUME TypeInv, Unborn, [Next]_vars PROVE Unborn'
  OBVIOUS
<1>0. spawned \in Nat /\ \A p \in Processes : p \in Nat
  BY ClientAssumption DEF TypeInv, Typed, Processes
<1>1. (\E p \in 1 .. spawned' : Touches(p)) \/ UNCHANGED <<proc, child, reader, spawned>>
  BY StepTouches DEF vars
<1>2. CASE UNCHANGED <<proc, child, reader, spawned>>
  BY <1>2 DEF Unborn
<1>3. ASSUME NEW p \in 1 .. spawned', Touches(p) PROVE Unborn'
  <2>1. ASSUME NEW q \in Processes, q > spawned'
        PROVE  q # p /\ q > spawned /\ proc'[q] = proc[q] /\ child'[q] = child[q] /\ reader'[q] = reader[q]
    BY <1>0, <1>3, <2>1 DEF Touches
  <2> QED BY <2>1 DEF Unborn
<1> QED BY <1>1, <1>2, <1>3

-----------------------------------------------------------------------------
(* The children.                                                            *)
Dies(p) ==
  \/ child'[p].state = child[p].state
  \/ child[p].state = "running" /\ child'[p].state = "exited"
  \/ child[p].state # "none" /\ child'[p].state = "reaped"

(* Steps that leave the slot and the calls that hold it alone.              *)
LEMMA OneKept ==
  ASSUME TypeInv, OneProcess, UNCHANGED <<closing, spawned, slot, slotLock, closer>>,
         \A p \in Processes : Dies(p),
         \A c \in Calls : \/ call'[c].pc = call[c].pc /\ Id(c)' = Id(c) /\ at'[Id(c)] = at[Id(c)]
                          \/ call'[c].pc \notin Locking /\ call[c].pc \notin Locking
  PROVE  OneProcess'
<1>1. \A p \in Processes : /\ Gone(p) => Gone(p)'
                           /\ child'[p].state = "none" <=> child[p].state = "none"
                           /\ child[p].state = "reaped" => child'[p].state = "reaped"
  BY DEF Dies, Gone
<1>2. \A p \in Processes : /\ child'[p].state = "none" <=> p > spawned
                           /\ p < spawned => child'[p].state = "reaped"
  BY <1>1 DEF OneProcess
<1>3. \A c \in Calls :
        /\ slotLock = c <=> call'[c].pc \in Locking
        /\ call'[c].pc \in {"terminateStdin", "terminateChild"} => at'[Id(c)'] = spawned
        /\ call'[c].pc = "spawn" => \A p \in Processes : Gone(p)'
  BY <1>1 DEF OneProcess, Locking
<1>4. (slot = None /\ slotLock = None /\ closer.pc \in {"idle", "take", "done"}) =>
         \A p \in Processes : Gone(p)'
  BY <1>1 DEF OneProcess
<1> QED BY <1>2, <1>3, <1>4 DEF OneProcess, Gone

(* The steps of a call.                                                     *)
LEMMA OneCalls ==
  ASSUME TypeInv, Unborn, OneProcess, NEW c \in Calls, Starts(c) \/ CallStep(c)
  PROVE  OneProcess'
<1>0. /\ spawned \in Nat /\ c # None /\ Id(c) \in Ids /\ None \notin Processes /\ spawned + 1 \in Nat
      /\ \A p \in Processes : p \in Nat
      /\ \A d \in Calls : d # None /\ Id(d) \in Ids /\ (d # c => Id(d) # Id(c))
      /\ at \in [Ids -> Processes \cup {None}] /\ call[c] \in CallState
      /\ call[c].pc \notin Unplaced => at[Id(c)] \in Processes
  <2>1. /\ spawned \in Nat /\ at \in [Ids -> Processes \cup {None}] /\ \A p \in Processes : p \in Nat
        /\ None \notin Calls /\ None \notin Processes
    BY ClientAssumption DEF TypeInv, Typed, Processes
  <2>2. \A d \in Calls : Id(d) \in Ids /\ (d # c => Id(d) # Id(c))
    BY IdType DEF Id
  <2>3. Id(c) \in Ids /\ call[c] \in CallState /\ (call[c].pc \notin Unplaced => at[Id(c)] \in Processes)
    BY IdType
  <2>4. c # None /\ spawned + 1 \in Nat /\ \A d \in Calls : d # None
    BY <2>1
  <2> QED BY <2>1, <2>2, <2>3, <2>4, Zenon
<1>1. UNCHANGED closer
  BY CallDoes
<1>2. ASSUME NEW pc \in Steps, Goto(c, pc)
      PROVE  \A d \in Calls : Id(d)' = Id(d) /\ call'[d].pc = IF d = c THEN pc ELSE call[d].pc
  BY <1>2, GotoType DEF Id
<1>3. ASSUME NEW outcome \in Results, Return(c, outcome)
      PROVE  /\ \A d \in Calls \ {c} : call'[d] = call[d] /\ Id(d)' = Id(d)
             /\ call'[c].pc \in {"returned", "cancelFailed", "grace"}
  BY <1>0, <1>3, ReturnType DEF Id, CallState
<1>4. CASE Walks(c)
  <2>1. CASE slotLock' = slotLock
    <3>1. PICK pc \in {"ensure", "submit", "register"} :
            /\ Goto(c, pc) /\ call[c].pc \in {"idle", "ensure", "submit"}
            /\ UNCHANGED at \/ at' = [at EXCEPT ![Id(c)] = slot]
      BY <1>0, <1>4, <2>1 DEF Walks
    <3>2. pc \in Steps
      BY StepNames
    <3>3. \A d \in Calls : \/ call'[d].pc = call[d].pc /\ Id(d)' = Id(d) /\ at'[Id(d)] = at[Id(d)]
                           \/ call'[d].pc \notin Locking /\ call[d].pc \notin Locking
      BY <1>0, <1>2, <3>1, <3>2 DEF Locking
    <3>4. \A p \in Processes : Dies(p)
      BY <1>4 DEF Walks, Dies
    <3> QED BY <1>1, <1>4, <2>1, <3>3, <3>4, OneKept DEF Walks
  <2>2. CASE slotLock' # slotLock
    <3>1. /\ call[c].pc = "ensure" /\ slotLock = None /\ slot = None /\ ~closing /\ slotLock' = c
          /\ Goto(c, "spawn") /\ UNCHANGED <<at, closing, slot, spawned, child>>
      BY <1>4, <2>2 DEF Walks
    <3>2. \A d \in Calls : Id(d)' = Id(d) /\ call'[d].pc = IF d = c THEN "spawn" ELSE call[d].pc
      BY <1>2, <3>1, StepNames
    <3>3. \A p \in Processes : Gone(p) /\ Gone(p)'
      BY <3>1 DEF OneProcess, Gone
    <3>4. \A d \in Calls : call[d].pc \notin Locking
      BY <1>0, <3>1 DEF OneProcess
    <3>5. \A d \in Calls : /\ slotLock' = d <=> call'[d].pc \in Locking
                           /\ call'[d].pc \notin {"terminateStdin", "terminateChild"}
      BY <3>1, <3>2, <3>4 DEF Locking
    <3> QED BY <1>0, <1>1, <3>1, <3>3, <3>5 DEF OneProcess
  <2> QED BY <2>1, <2>2
<1>5. CASE Replaces(c)
  <2>1. /\ call[c].pc = "ensure" /\ slotLock = None /\ ~closing /\ slot # None
        /\ slot' = None /\ slotLock' = c /\ at' = [at EXCEPT ![Id(c)] = slot]
        /\ Goto(c, "terminateStdin") /\ UNCHANGED <<closing, spawned, child>>
    BY <1>0, <1>5, Zenon DEF Replaces
  <2>2. \A d \in Calls : Id(d)' = Id(d) /\ call'[d].pc = IF d = c THEN "terminateStdin" ELSE call[d].pc
    BY <1>2, <2>1, StepNames
  <2>3. slot = spawned /\ at'[Id(c)] = spawned
    BY <1>0, <2>1 DEF OneProcess
  <2>4. \A d \in Calls : call[d].pc \notin Locking
    BY <1>0, <2>1 DEF OneProcess
  <2>5. \A d \in Calls : /\ slotLock' = d <=> call'[d].pc \in Locking
                         /\ call'[d].pc \in {"terminateStdin", "terminateChild"} => d = c
                         /\ call'[d].pc # "spawn"
    BY <2>1, <2>2, <2>4 DEF Locking
  <2>6. closer.pc = "idle"
    BY <2>1 DEF OneProcess
  <2> QED BY <1>0, <1>1, <2>1, <2>2, <2>3, <2>5, <2>6 DEF OneProcess, Gone
<1>6. CASE Terminates(c)
  <2>1. /\ call[c].pc = "terminateStdin" /\ Goto(c, "terminateChild") /\ UNCHANGED <<client, child, at>>
    BY <1>6 DEF Terminates
  <2>2. \A d \in Calls : Id(d)' = Id(d) /\ call'[d].pc = IF d = c THEN "terminateChild" ELSE call[d].pc
    BY <1>2, <2>1, StepNames
  <2>3. \A d \in Calls : /\ call'[d].pc \in Locking <=> call[d].pc \in Locking
                         /\ call'[d].pc \in {"terminateStdin", "terminateChild"} <=>
                              call[d].pc \in {"terminateStdin", "terminateChild"}
                         /\ call'[d].pc = "spawn" <=> call[d].pc = "spawn"
    BY <2>1, <2>2 DEF Locking
  <2> QED BY <1>1, <2>1, <2>2, <2>3 DEF OneProcess, Gone, client
<1>7. CASE Reaps(c)
  <2>1. /\ call[c].pc = "terminateChild" /\ Goto(c, "spawn") /\ UNCHANGED <<client, at>>
        /\ at[Id(c)] = spawned /\ slotLock = c
    BY <1>7 DEF Reaps, OneProcess, Locking
  <2>2. \A d \in Calls : Id(d)' = Id(d) /\ call'[d].pc = IF d = c THEN "spawn" ELSE call[d].pc
    BY <1>2, <2>1, StepNames
  <2>3. /\ spawned \in Processes /\ child'[spawned].state = "reaped"
        /\ \A q \in Processes \ {spawned} : child'[q] = child[q]
    BY <1>0, <1>7, <2>1 DEF Reaps, ChildKeeps, Unplaced
  <2>4. \A p \in Processes : /\ child'[p].state = "none" <=> p > spawned
                             /\ p <= spawned => child'[p].state = "reaped"
    BY <1>0, <2>3 DEF OneProcess
  <2>5. \A p \in Processes : Gone(p)'
    BY <1>0, <2>4 DEF Gone
  <2>6. \A d \in Calls : /\ slotLock' = d <=> call'[d].pc \in Locking
                         /\ call'[d].pc \in {"terminateStdin", "terminateChild"} =>
                              d # c /\ call[d].pc \in {"terminateStdin", "terminateChild"}
    <3>1. UNCHANGED slotLock
      BY <2>1 DEF client
    <3> QED BY <2>1, <2>2, <3>1 DEF OneProcess, Locking
  <2> QED BY <1>0, <1>1, <2>1, <2>2, <2>4, <2>5, <2>6 DEF OneProcess, client
<1>8. CASE Spawns(c)
  <2> DEFINE n == spawned + 1
  <2>1. /\ call[c].pc = "spawn" /\ n \in Processes /\ slotLock' = None /\ spawned' = n /\ slot' = n
        /\ at' = [at EXCEPT ![Id(c)] = n] /\ Goto(c, "submit") /\ UNCHANGED closing
        /\ ChildKeeps(n, {"state"}) /\ child'[n].state = "running"
    BY <1>8, Zenon DEF Spawns
  <2>2. \A d \in Calls : Id(d)' = Id(d) /\ call'[d].pc = IF d = c THEN "submit" ELSE call[d].pc
    BY <1>2, <2>1, StepNames
  <2>3. slotLock = c /\ \A p \in Processes : Gone(p)
    BY <2>1 DEF OneProcess, Locking
  <2>4. \A d \in Calls : call'[d].pc \notin Locking
    BY <1>0, <2>2, <2>3 DEF OneProcess, Locking
  <2>5. \A p \in Processes : /\ child'[p].state = "none" <=> p > n
                             /\ p < n => child'[p].state = "reaped"
    <3>1. \A p \in Processes \ {n} : child'[p] = child[p]
      BY <2>1 DEF ChildKeeps
    <3>2. \A p \in Processes : p < n => ~(p > spawned) /\ p # n
      BY <1>0
    <3>3. \A p \in Processes : p < n => child'[p].state = "reaped"
      BY <2>3, <3>1, <3>2 DEF OneProcess, Gone
    <3>4. \A p \in Processes : p > n => child'[p].state = "none"
      BY <1>0, <3>1 DEF OneProcess
    <3>5. \A p \in Processes : p < n \/ p = n \/ p > n
      BY <1>0
    <3>6. \A p \in Processes : p > n => ~(p < n) /\ p # n
      BY <1>0
    <3> QED BY <2>1, <3>3, <3>4, <3>5, <3>6
  <2>6. closer.pc \in {"idle", "take"} /\ n # None
    <3>1. slotLock # None /\ n # None
      BY <1>0, <2>1, <2>3
    <3> QED BY <3>1 DEF OneProcess
  <2> HIDE DEF n
  <2>7. \A d \in Calls : slotLock' # d
    BY <1>0, <2>1
  <2>8. /\ (slotLock' # None => slot' = None /\ closer'.pc \in {"idle", "take"})
        /\ (slot' # None => slot' = spawned') /\ slot' # None
    BY <2>1, <2>6
  <2>9. /\ closer'.pc \in {"stdin", "poll", "expired"} => closer'.of = spawned' /\ spawned' # 0
        /\ closer'.pc \notin {"idle", "take"} => closing' /\ slot' = None /\ slotLock' = None
        /\ closer'.pc # "idle" => closing'
    BY <1>1, <2>1, <2>6 DEF OneProcess
  <2>10. \A d \in Calls : /\ slotLock' = d <=> call'[d].pc \in Locking
                          /\ call'[d].pc \notin {"terminateStdin", "terminateChild", "spawn"}
    BY <2>4, <2>7 DEF Locking
  <2> QED BY <2>1, <2>5, <2>8, <2>9, <2>10 DEF OneProcess
<1>9. CASE Registers(c) \/ Locks(c) \/ Writes(c)
  <2>1. PICK pc \in {"write", "writing", "await"} : Goto(c, pc)
    BY <1>9 DEF Registers, Locks, Writes
  <2>2. call[c].pc \in {"register", "write", "writing"} /\ UNCHANGED <<client, at>>
    BY <1>9 DEF Registers, Locks, Writes
  <2>3. \A d \in Calls : \/ call'[d].pc = call[d].pc /\ Id(d)' = Id(d) /\ at'[Id(d)] = at[Id(d)]
                         \/ call'[d].pc \notin Locking /\ call[d].pc \notin Locking
    BY <1>2, <2>1, <2>2, StepNames DEF Locking
  <2>4. \A p \in Processes : Dies(p)
    BY <1>9 DEF Registers, Locks, Writes, ChildKeeps, Dies
  <2> QED BY <1>1, <2>2, <2>3, <2>4, OneKept DEF client
<1>10. CASE Abandons(c) \/ Cancels(c) \/ Gets(c) \/ (Leaves(c) /\ call[c].pc # "spawn")
  <2>1. UNCHANGED <<client, child, at>>
    BY <1>10 DEF Abandons, Cancels, Gets, Leaves, client
  <2>2. \A d \in Calls \ {c} : call'[d] = call[d]
    BY <1>3, <1>10, StepNames DEF Abandons, Cancels, Gets, Leaves
  <2>3. \/ UNCHANGED call
        \/ call[c].pc \notin Locking /\ call'[c].pc \in {"returned", "cancelFailed", "grace", "ensure"}
    BY <1>3, <1>10, StepNames DEF Abandons, Cancels, Gets, Leaves, Locking
  <2>4. \A d \in Calls : \/ call'[d].pc = call[d].pc /\ Id(d)' = Id(d) /\ at'[Id(d)] = at[Id(d)]
                         \/ call'[d].pc \notin Locking /\ call[d].pc \notin Locking
    BY <2>1, <2>2, <2>3 DEF Id, Locking
  <2>5. \A p \in Processes : Dies(p)
    BY <2>1 DEF Dies
  <2> QED BY <1>1, <2>1, <2>4, <2>5, OneKept DEF client
<1>11. CASE Leaves(c) /\ call[c].pc = "spawn"
  <2>1. /\ slotLock' = None /\ UNCHANGED <<closing, slot, spawned, child, at>>
        /\ \E outcome \in Results : Return(c, outcome)
    BY <1>11 DEF Leaves
  <2>2. /\ \A d \in Calls \ {c} : call'[d] = call[d] /\ Id(d)' = Id(d)
        /\ call'[c].pc \in {"returned", "cancelFailed", "grace"}
    BY <1>3, <2>1
  <2>3. slotLock = c /\ (\A p \in Processes : Gone(p)') /\ slot = None
    BY <1>0, <1>11, <2>1 DEF OneProcess, Locking, Gone
  <2>4. \A d \in Calls : call'[d].pc \notin Locking
    BY <1>0, <2>2, <2>3 DEF OneProcess, Locking
  <2>5. \A d \in Calls : /\ slotLock' = d <=> call'[d].pc \in Locking
                         /\ call'[d].pc \notin {"terminateStdin", "terminateChild", "spawn"}
    BY <1>0, <2>1, <2>4 DEF Locking
  <2>6. closer.pc \in {"idle", "take"}
    BY <1>0, <2>3 DEF OneProcess
  <2> QED BY <1>1, <2>1, <2>3, <2>5, <2>6 DEF OneProcess
<1> QED BY <1>4, <1>5, <1>6, <1>7, <1>8, <1>9, <1>10, <1>11, CallDoes, Zenon

(* Close works on the last process only.                                   *)
LEMMA OneCloser ==
  ASSUME TypeInv, OneProcess, Close \/ CloserStep
  PROVE  OneProcess'
<1>0. spawned \in Nat /\ \A p \in Processes : p \in Nat
  BY ClientAssumption DEF TypeInv, Typed, Processes
<1>1. UNCHANGED <<slotLock, spawned, call, at>> /\ (Begins \/ Empties \/ Waits \/ Finishes)
  BY CloserDoes
<1>2. \A d \in Calls : Id(d)' = Id(d)
  BY <1>1 DEF Id
<1>3. CASE Begins
  BY <1>1, <1>2, <1>3 DEF Begins, OneProcess, Gone
<1>4. CASE Empties
  <2>1. CASE slot = None
    <3>1. /\ closer.pc = "take" /\ slotLock = None /\ slot' = None /\ UNCHANGED <<closing, child>>
          /\ closer'.pc = "done"
      BY <1>4, <2>1, ClientAssumption DEF Empties
    <3>2. closing /\ \A p \in Processes : Gone(p)
      BY <2>1, <3>1 DEF OneProcess
    <3> QED BY <1>1, <1>2, <2>1, <3>1, <3>2 DEF OneProcess, Gone
  <2>2. CASE slot # None
    <3>1. /\ closer.pc = "take" /\ slotLock = None /\ slot' = None /\ closer'.pc = "stdin"
          /\ closer'.of = slot /\ slot \in 1 .. spawned /\ UNCHANGED <<closing, child>>
      BY <1>4, <2>2 DEF Empties
    <3>2. closer'.of = spawned /\ spawned # 0 /\ closing
      BY <1>0, <2>2, <3>1 DEF OneProcess
    <3> QED BY <1>1, <1>2, <3>1, <3>2 DEF OneProcess, Gone
  <2> QED BY <2>1, <2>2
<1>5. CASE Waits
  <2>1. /\ closer.pc \in {"stdin", "poll", "expired"} /\ closer'.pc \in {"stdin", "poll", "expired"}
        /\ closer'.of = closer.of /\ UNCHANGED <<closing, slot, child>>
    BY <1>5 DEF Waits
  <2> QED BY <1>1, <1>2, <2>1 DEF OneProcess, Gone
<1>6. CASE Finishes
  <2>1. /\ closer.pc \in {"poll", "expired"} /\ closer'.pc = "done" /\ UNCHANGED <<closing, slot>>
        /\ closer.of = spawned /\ closing /\ slot = None /\ slotLock = None
        /\ child'[spawned].state = "reaped" /\ \A q \in Processes \ {spawned} : child'[q] = child[q]
    BY <1>6 DEF Finishes, ChildKeeps, OneProcess
  <2>2. \A p \in Processes : /\ child'[p].state = "none" <=> p > spawned
                             /\ p <= spawned => child'[p].state = "reaped"
    BY <1>0, <1>6, <2>1 DEF OneProcess, Finishes
  <2>3. \A p \in Processes : Gone(p)'
    BY <1>0, <2>2 DEF Gone
  <2> QED BY <1>0, <1>1, <1>2, <2>1, <2>2, <2>3 DEF OneProcess
<1> QED BY <1>1, <1>3, <1>4, <1>5, <1>6

(* The last process alone can have a child, whoever takes the step.        *)
LEMMA OneStep == TypeInv /\ Unborn /\ OneProcess /\ [Next]_vars => OneProcess'
<1> SUFFICES ASSUME TypeInv, Unborn, OneProcess, [Next]_vars PROVE OneProcess'
  OBVIOUS
<1>1. CASE UNCHANGED vars
  BY <1>1 DEF vars, OneProcess, Gone, Id
<1>2. ASSUME NEW c \in Calls, Starts(c) \/ CallStep(c) PROVE OneProcess'
  BY <1>2, OneCalls
<1>3. ASSUME NEW p \in Processes, Fail(p) \/ ReaderStep(p) \/ ChildStep(p) PROVE OneProcess'
  <2>1. UNCHANGED <<client, call, at, closer>>
    BY <1>3, FailDoes, ReaderDoes, ChildDoes
  <2>2. \A d \in Calls : call'[d].pc = call[d].pc /\ Id(d)' = Id(d) /\ at'[Id(d)] = at[Id(d)]
    BY <2>1 DEF Id
  <2>3. \A q \in Processes : Dies(q)
    <3>1. CASE Fail(p)
      <4>1. ClosesStdin(p) \/ Drains(p) \/ Kills(p)
        BY <3>1, FailDoes
      <4>2. CASE UNCHANGED child
        BY <4>2 DEF Dies
      <4>3. CASE Kills(p)
        <5>1. child[p].state # "none" /\ p \in Processes
          BY <4>3 DEF Kills, Unborn, OneProcess
        <5> QED BY <4>3, <5>1 DEF Kills, ChildKeeps, Dies
      <4> QED BY <4>1, <4>2, <4>3 DEF ClosesStdin, Drains
    <3>2. CASE ReaderStep(p)
      BY <3>2, ReaderDoes DEF Takes, Sends, Drops, GivesUp, ChildKeeps, Dies
    <3>3. CASE ChildStep(p)
      BY <3>3, ChildDoes DEF TakesUp, Adds, Exits, ChildKeeps, Dies
    <3> QED BY <1>3, <3>1, <3>2, <3>3
  <2> QED BY <2>1, <2>2, <2>3, OneKept DEF client
<1>4. CASE Close \/ CloserStep
  BY <1>4, OneCloser
<1> QED BY <1>1, <1>2, <1>3, <1>4 DEF Next

-----------------------------------------------------------------------------
(* Initially nothing has been spawned.                                     *)
LEMMA BackendInit == Init => TypeInv /\ Unborn /\ OneProcess
<1> SUFFICES ASSUME Init PROVE Unborn /\ OneProcess
  BY TypeInit
<1>1. Unborn
  BY DEF Init, Unborn
<1>2. \A p \in Processes : child[p].state = "none" /\ p > 0
  BY DEF Init, Processes
<1>3. \A c \in Calls : call[c].pc \notin Locking /\ slotLock # c
  BY ClientAssumption DEF Init, Locking
<1>4. \A p \in Processes : ~(p < 0)
  BY DEF Processes
<1>5. \A c \in Calls : call[c].pc \notin {"terminateStdin", "terminateChild", "spawn"}
  BY <1>3 DEF Locking
<1>6. slot = None /\ slotLock = None /\ closer.pc = "idle" /\ spawned = 0
  BY DEF Init
<1>7. OneProcess
  BY <1>2, <1>3, <1>4, <1>5, <1>6 DEF OneProcess, Gone
<1> QED BY <1>1, <1>7

(* Every variable has its type, and no thread works without a process.      *)
THEOREM BackendTypes == Spec => []TypeInv
<1>1. TypeInv /\ [Next]_vars => TypeInv'
  BY TypeStep
<1> QED BY <1>1, TypeInit, PTL DEF Spec

(* There is one child at most, however the calls that replace a failed      *)
(* process, the close of the client and the deaths of children interleave;  *)
(* when close has returned there is none, and none is spawned any more.     *)
THEOREM NoChildOutlives == Spec => []ChildrenAreReaped
<1>1. TypeInv /\ Unborn /\ OneProcess /\ [Next]_vars => (TypeInv /\ Unborn /\ OneProcess)'
  BY TypeStep, UnbornStep, OneStep
<1>2. TypeInv /\ OneProcess => ChildrenAreReaped
  <2> SUFFICES ASSUME TypeInv, OneProcess PROVE ChildrenAreReaped
    OBVIOUS
  <2>1. spawned \in Nat /\ \A p \in Processes : p \in Nat
    BY ClientAssumption DEF TypeInv, Typed, Processes
  <2>2. \A p \in Processes : child[p].state = "running" => p = spawned
    BY <2>1 DEF OneProcess
  <2> QED BY <2>2 DEF OneProcess, ChildrenAreReaped, OneChild, ClosedIsClean, Gone
<1> QED BY <1>1, <1>2, BackendInit, PTL DEF Spec

-----------------------------------------------------------------------------
(* Results in a channel.                                                    *)
LEMMA AppendHas ==
  ASSUME NEW s \in Seq(Messages), NEW m
  PROVE  /\ Has(Append(s, m)) <=> Has(s) \/ m \in Results
         /\ Once(s) /\ ~(Has(s) /\ m \in Results) => Once(Append(s, m))
<1>1. /\ Len(s) \in Nat /\ DOMAIN s = 1 .. Len(s) /\ DOMAIN Append(s, m) = 1 .. Len(s) + 1
      /\ Append(s, m)[Len(s) + 1] = m /\ \A i \in 1 .. Len(s) : Append(s, m)[i] = s[i]
  OBVIOUS
<1>2. \A i \in 1 .. Len(s) + 1 : i \in 1 .. Len(s) \/ i = Len(s) + 1
  BY <1>1
<1>3. 1 .. Len(s) \subseteq 1 .. Len(s) + 1 /\ Len(s) + 1 \in 1 .. Len(s) + 1
  BY <1>1
<1>4. Has(Append(s, m)) <=> Has(s) \/ m \in Results
  BY <1>1, <1>2, <1>3 DEF Has
<1>5. ASSUME Once(s), ~(Has(s) /\ m \in Results) PROVE Once(Append(s, m))
  BY <1>1, <1>2, <1>5 DEF Has, Once
<1> QED BY <1>4, <1>5

(* A message that is no result is taken out of the channel.                *)
LEMMA TailHas ==
  ASSUME NEW s \in Seq(Messages), s # <<>>, Head(s) \notin Results
  PROVE  (Has(Tail(s)) <=> Has(s)) /\ (Once(s) => Once(Tail(s)))
<1>1. /\ Len(s) \in Nat /\ DOMAIN s = 1 .. Len(s) /\ Len(s) > 0 /\ s[1] \notin Results
      /\ DOMAIN Tail(s) = 1 .. Len(s) - 1 /\ \A i \in 1 .. Len(s) - 1 : Tail(s)[i] = s[i + 1]
  OBVIOUS
<1>2. \A i \in 1 .. Len(s) - 1 : i + 1 \in 1 .. Len(s)
  BY <1>1
<1>3. \A i \in 1 .. Len(s) : i = 1 \/ (i - 1 \in 1 .. Len(s) - 1 /\ (i - 1) + 1 = i)
  BY <1>1
<1>4. Has(Tail(s)) => Has(s)
  BY <1>1, <1>2 DEF Has
<1>5. Has(s) => Has(Tail(s))
  <2> SUFFICES ASSUME NEW i \in 1 .. Len(s), s[i] \in Results PROVE Has(Tail(s))
    BY <1>1 DEF Has
  <2>1. i - 1 \in 1 .. Len(s) - 1 /\ (i - 1) + 1 = i
    BY <1>1, <1>3
  <2>2. Tail(s)[i - 1] \in Results
    BY <1>1, <2>1
  <2> QED BY <1>1, <2>1, <2>2 DEF Has
<1>6. ASSUME Once(s), NEW i \in 1 .. Len(s) - 1, NEW j \in 1 .. Len(s) - 1,
             Tail(s)[i] \in Results, Tail(s)[j] \in Results
      PROVE  i = j
  <2>1. s[i + 1] \in Results /\ s[j + 1] \in Results /\ i + 1 \in 1 .. Len(s) /\ j + 1 \in 1 .. Len(s)
    BY <1>1, <1>2, <1>6
  <2>2. i + 1 = j + 1
    BY <1>1, <1>6, <2>1 DEF Once
  <2> QED BY <2>2
<1> QED BY <1>1, <1>4, <1>5, <1>6 DEF Once

(* An empty channel has no result.                                         *)
LEMMA EmptyHas == ~Has(<<>>) /\ Once(<<>>)
BY DEF Has, Once

-----------------------------------------------------------------------------
(* The requests of other calls, and of a call that moves on.                *)
LEMMA OtherCalls ==
  ASSUME TypeInv, NEW c \in Calls, NEW id \in Ids, id[1] # c, call'[id[1]] = call[id[1]]
  PROVE  /\ Fresh(id)' = Fresh(id) /\ ReceiverAlive(id)' = ReceiverAlive(id)
         /\ Open(id)' = Open(id) /\ Id(id[1])' = Id(id[1])
BY DEF Fresh, ReceiverAlive, Open, Id

(* A request is that of a call or of its cancel.                           *)
LEMMA TwoIds ==
  ASSUME NEW id \in Ids
  PROVE  /\ id[1] \in Calls /\ id[2] \in {"call", "cancel"} /\ id = <<id[1], id[2]>>
BY DEF Ids

(* A call that moves on without returning.                                  *)
LEMMA GotoFresh ==
  ASSUME TypeInv, NEW c \in Calls, NEW pc \in Early \cup {"write", "writing", "await"}, Goto(c, pc),
         call[c].pc \in Early \cup {"write", "writing"}, NEW id \in Ids
  PROVE  /\ ReceiverAlive(id)' = ReceiverAlive(id) /\ Id(id[1])' = Id(id[1])
         /\ id # Id(c) => (Fresh(id)' <=> Fresh(id))
         /\ id = Id(c) => (Fresh(id) <=> call[c].pc \in Early) /\ (Fresh(id)' <=> pc \in Early)
<1>0. pc \in Steps /\ pc # "returned" /\ call[c].pc # "returned"
  BY DEF Steps, Early, Locking
<1>1. \A d \in Calls : /\ call'[d].stage = call[d].stage
                       /\ call'[d].pc = IF d = c THEN pc ELSE call[d].pc
  BY <1>0, GotoType
<1>2. id[1] \in Calls /\ id[2] \in {"call", "cancel"} /\ id = <<id[1], id[2]>>
  BY TwoIds
<1>3. call[c].stage \in {"call", "cancel"}
  BY DEF TypeInv, Typed, CallState
<1>4. ReceiverAlive(id)' = ReceiverAlive(id) /\ Id(id[1])' = Id(id[1])
  BY <1>0, <1>1, <1>2 DEF ReceiverAlive, Id
<1>5. CASE id[1] # c
  BY <1>1, <1>2, <1>4, <1>5 DEF Fresh, Id
<1>6. CASE id[1] = c /\ id[2] = call[c].stage
  <2>1. id = Id(c)
    BY <1>2, <1>6 DEF Id
  <2>2. Fresh(id) <=> call[c].pc \in Early
    BY <1>3, <1>6 DEF Fresh
  <2>3. Fresh(id)' <=> pc \in Early
    BY <1>1, <1>3, <1>6 DEF Fresh
  <2> QED BY <1>4, <2>1, <2>2, <2>3
<1>7. CASE id[1] = c /\ id[2] # call[c].stage
  <2>1. id # Id(c)
    BY <1>2, <1>7 DEF Id
  <2>2. CASE id[2] = "call"
    <3>1. ~Fresh(id) /\ ~Fresh(id)'
      BY <1>1, <1>7, <2>2 DEF Fresh
    <3> QED BY <1>4, <2>1, <3>1
  <2>3. CASE id[2] = "cancel"
    <3>1. call[c].stage = "call"
      BY <1>3, <1>7, <2>3
    <3>2. Fresh(id) /\ Fresh(id)'
      BY <1>1, <1>7, <2>3, <3>1 DEF Fresh
    <3> QED BY <1>4, <2>1, <3>2
  <2> QED BY <1>2, <2>2, <2>3
<1> QED BY <1>5, <1>6, <1>7

(* A call, or the cancel of one, that returns.                              *)
LEMMA ReturnFresh ==
  ASSUME TypeInv, NEW c \in Calls, NEW outcome \in Results, Return(c, outcome),
         call[c].pc # "returned", NEW id \in Ids
  PROVE  /\ Fresh(id)' => Fresh(id)
         /\ id = Id(c) => ~Open(id)'
         /\ id # Id(c) => (Open(id)' <=> Open(id)) /\ mail'[id] = mail[id]
         /\ id = Id(c) => mail'[id] = <<>>
         /\ id # Id(c) => (Id(id[1])' = id /\ call'[id[1]].pc = "write" <=>
                             Id(id[1]) = id /\ call[id[1]].pc = "write")
         /\ id = Id(c) => call'[id[1]].pc # "write"
<1>1. /\ \A d \in Calls \ {c} : call'[d] = call[d]
      /\ mail' = [mail EXCEPT ![Id(c)] = <<>>] /\ mail \in [Ids -> Seq(Messages)]
      /\ call[c].stage = "call" => call'[c].pc = "returned" /\ call'[c].stage = "call"
      /\ call[c].stage = "cancel" => call'[c].pc \in {"cancelFailed", "grace"} /\ call'[c].stage = "call"
      /\ call[c].stage \in {"call", "cancel"} /\ Id(c) \in Ids
  BY ReturnType, IdType DEF TypeInv, Typed, CallState
<1>2. id[1] \in Calls /\ id[2] \in {"call", "cancel"} /\ id = <<id[1], id[2]>>
  BY TwoIds
<1>3. mail'[id] = IF id = Id(c) THEN <<>> ELSE mail[id]
  BY <1>1
<1>4. CASE id[1] # c
  <2>1. id # Id(c) /\ call'[id[1]] = call[id[1]]
    BY <1>1, <1>2, <1>4 DEF Id
  <2> QED BY <1>3, <1>4, <2>1, OtherCalls
<1>5. CASE id[1] = c /\ id[2] = call[c].stage
  <2>1. id = Id(c)
    BY <1>2, <1>5 DEF Id
  <2>2. ~ReceiverAlive(id)' /\ ~Fresh(id)' /\ call'[id[1]].pc # "write"
    BY <1>1, <1>5 DEF ReceiverAlive, Fresh, Early, Locking
  <2> QED BY <1>3, <2>1, <2>2 DEF Open
<1>6. CASE id[1] = c /\ id[2] # call[c].stage
  <2>1. id # Id(c) /\ Id(id[1]) # id
    BY <1>2, <1>6 DEF Id
  <2>2. ~Fresh(id)' /\ call'[id[1]].pc # "write"
    BY <1>1, <1>2, <1>6 DEF Fresh, Early, Locking
  <2>3. CASE id[2] = "call"
    <3>1. ~Fresh(id) /\ (ReceiverAlive(id)' <=> ReceiverAlive(id))
      BY <1>1, <1>6, <2>3 DEF Fresh, ReceiverAlive
    <3> QED BY <1>3, <2>1, <2>2, <3>1 DEF Open
  <2>4. CASE id[2] = "cancel"
    <3>1. ~ReceiverAlive(id) /\ ~ReceiverAlive(id)'
      BY <1>1, <1>6, <2>4 DEF ReceiverAlive
    <3> QED BY <1>3, <2>1, <2>2, <3>1 DEF Open
  <2> QED BY <1>2, <2>3, <2>4
<1> QED BY <1>4, <1>5, <1>6

(* What a step of a call means for every request: it is fresh or open only  *)
(* if it was, but for the one that is registered, and stays open unless it  *)
(* is the one whose call returns.                                           *)
LEMMA CallScope ==
  ASSUME TypeInv, NEW c \in Calls, Starts(c) \/ CallStep(c), NEW id \in Ids
  PROVE  /\ Fresh(id)' => Fresh(id)
         /\ ~Fresh(id) => at'[id] = at[id]
         /\ Open(id)' => Open(id) \/ (Registers(c) /\ id = Id(c))
         /\ Open(id) => Open(id)' \/ ((Abandons(c) \/ Leaves(c)) /\ id = Id(c))
         /\ Registers(c) => Fresh(Id(c)) /\ at'[id] = at[id]
<1>0. at \in [Ids -> Processes \cup {None}] /\ Id(c) \in Ids
  BY IdType DEF TypeInv, Typed
<1>1. /\ \A pc \in {"ensure", "submit", "register", "terminateStdin", "terminateChild", "spawn"} : pc \in Early
      /\ {"write", "writing", "await"} \cap Early = {} /\ "idle" \in Early /\ "returned" \notin Early
  BY DEF Early, Locking
<1>2. ASSUME NEW pc \in Early, Goto(c, pc), call[c].pc \in Early,
             \A i \in Ids : i # Id(c) => at'[i] = at[i], ~Registers(c)
      PROVE  /\ Fresh(id)' <=> Fresh(id)
             /\ ~Fresh(id) => at'[id] = at[id]
             /\ Open(id)' <=> Open(id)
  <2>1. /\ ReceiverAlive(id)' = ReceiverAlive(id)
        /\ id # Id(c) => (Fresh(id)' <=> Fresh(id))
        /\ id = Id(c) => Fresh(id) /\ Fresh(id)'
    BY <1>2, GotoFresh
  <2> QED BY <1>2, <2>1 DEF Open
<1>11. Registers(c) => Fresh(Id(c))
  <2> SUFFICES ASSUME Registers(c) PROVE Fresh(Id(c))
    OBVIOUS
  <2>1. call[c].pc \in Early /\ Goto(c, "write")
    BY <1>1 DEF Registers
  <2> QED BY <1>0, <2>1, GotoFresh
<1>3. CASE Walks(c)
  <2>1. PICK pc \in Early : Goto(c, pc)
    BY <1>1, <1>3 DEF Walks
  <2>2. call[c].pc \in Early /\ ~Registers(c) /\ \A i \in Ids : i # Id(c) => at'[i] = at[i]
    BY <1>0, <1>1, <1>3 DEF Walks, Registers
  <2> QED BY <1>2, <2>1, <2>2
<1>4. CASE Replaces(c) \/ Spawns(c)
  <2>1. PICK pc \in Early : Goto(c, pc)
    BY <1>1, <1>4 DEF Replaces, Spawns
  <2>2. call[c].pc \in Early /\ ~Registers(c) /\ \A i \in Ids : i # Id(c) => at'[i] = at[i]
    BY <1>0, <1>1, <1>4 DEF Replaces, Spawns, Registers
  <2> QED BY <1>2, <2>1, <2>2
<1>5. CASE Terminates(c) \/ Reaps(c)
  <2>1. PICK pc \in Early : Goto(c, pc)
    BY <1>1, <1>5 DEF Terminates, Reaps
  <2>2. call[c].pc \in Early /\ ~Registers(c) /\ \A i \in Ids : i # Id(c) => at'[i] = at[i]
    BY <1>0, <1>1, <1>5 DEF Terminates, Reaps, Registers
  <2> QED BY <1>2, <2>1, <2>2
<1>6. CASE Registers(c)
  <2>1. call[c].pc \in Early /\ "write" \notin Early /\ Goto(c, "write") /\ UNCHANGED at
    BY <1>1, <1>6 DEF Registers
  <2>2. /\ ReceiverAlive(id)' = ReceiverAlive(id)
        /\ id # Id(c) => (Fresh(id)' <=> Fresh(id))
        /\ id = Id(c) => Fresh(id) /\ ~Fresh(id)'
    BY <2>1, GotoFresh
  <2>3. Fresh(Id(c))
    BY <1>0, <2>1, GotoFresh
  <2> QED BY <1>6, <2>1, <2>2, <2>3 DEF Open
<1>7. CASE Locks(c) \/ Writes(c)
  <2>1. PICK pc \in {"writing", "await"} : Goto(c, pc)
    BY <1>7 DEF Locks, Writes
  <2>2. call[c].pc \in {"write", "writing"} /\ UNCHANGED at /\ ~Registers(c)
    BY <1>7 DEF Locks, Writes, Registers
  <2>3. /\ ReceiverAlive(id)' = ReceiverAlive(id)
        /\ Fresh(id)' <=> Fresh(id)
    BY <1>1, <2>1, <2>2, GotoFresh
  <2> QED BY <2>2, <2>3 DEF Open
<1>8. CASE Abandons(c) \/ Leaves(c)
  <2>1. /\ call[c].pc # "returned" /\ UNCHANGED at
        /\ \E outcome \in Results : Return(c, outcome)
    BY <1>8, StepNames DEF Abandons, Leaves
  <2>2. /\ Fresh(id)' => Fresh(id)
        /\ id = Id(c) => ~Open(id)'
        /\ id # Id(c) => (Open(id)' <=> Open(id))
    BY <2>1, ReturnFresh
  <2> QED BY <1>8, <1>11, <2>1, <2>2
<1>9. CASE Cancels(c)
  <2>1. /\ call[c].pc = "await" /\ call[c].stage = "call" /\ call'[c].pc = "ensure"
        /\ call'[c].stage = "cancel" /\ UNCHANGED at /\ ~Registers(c)
        /\ \A d \in Calls \ {c} : call'[d] = call[d]
    BY <1>9 DEF Cancels, Registers
  <2>2. CASE id[1] # c
    <3>1. call'[id[1]] = call[id[1]]
      BY <2>1, <2>2, TwoIds
    <3> QED BY <2>1, <2>2, <3>1, OtherCalls
  <2>3. CASE id[1] = c
    <3>1. (Fresh(id)' <=> Fresh(id)) /\ (Open(id)' <=> Open(id))
      BY <1>1, <2>1, <2>3, TwoIds DEF Fresh, Open, ReceiverAlive
    <3> QED BY <2>1, <3>1
  <2> QED BY <2>2, <2>3
<1>10. CASE Gets(c)
  <2>1. UNCHANGED <<call, at>>
    BY <1>10 DEF Gets
  <2>2. (Fresh(id)' <=> Fresh(id)) /\ (Open(id)' <=> Open(id))
    BY <2>1 DEF Fresh, Open, ReceiverAlive
  <2>3. ~Registers(c)
    BY <1>10 DEF Gets, Registers, Waiting
  <2> QED BY <2>1, <2>2, <2>3
<1> QED BY <1>3, <1>4, <1>5, <1>6, <1>7, <1>8, <1>9, <1>10, CallDoes, Zenon

(* Steps after which no request is in a new place.                          *)
LEMMA TokensKept ==
  ASSUME Tokens,
         \A id \in Ids :
           /\ (Fresh(id)' => Fresh(id)) /\ (~Fresh(id) => at'[id] = at[id])
           /\ \A p \in Processes : /\ InTable(id, p)' => InTable(id, p)
                                   /\ InHand(id, p)' => InHand(id, p)
           /\ Completed(id)' => Completed(id) /\ (Open(id) => Open(id)')
           /\ Once(mail[id]) => Once(mail'[id])
  PROVE  Tokens'
<1>1. \A id \in Ids, p \in Processes :
        /\ InTable(id, p)' \/ InHand(id, p)' => ~Fresh(id)' /\ at'[id] = p /\ ~Completed(id)'
        /\ ~(InTable(id, p)' /\ InHand(id, p)')
  <2> SUFFICES ASSUME NEW id \in Ids, NEW p \in Processes
               PROVE  /\ InTable(id, p)' \/ InHand(id, p)' =>
                           ~Fresh(id)' /\ at'[id] = p /\ ~Completed(id)'
                      /\ ~(InTable(id, p)' /\ InHand(id, p)')
    OBVIOUS
  <2>1. /\ InTable(id, p) \/ InHand(id, p) => ~Fresh(id) /\ at[id] = p /\ ~Completed(id)
        /\ ~(InTable(id, p) /\ InHand(id, p))
    BY DEF Tokens
  <2> QED BY <2>1
<1>2. \A id \in Ids : Once(mail'[id]) /\ (Completed(id)' => Open(id)')
  <2> SUFFICES ASSUME NEW id \in Ids PROVE Once(mail'[id]) /\ (Completed(id)' => Open(id)')
    OBVIOUS
  <2>1. Once(mail[id]) /\ (Completed(id) => Open(id))
    BY DEF Tokens
  <2> QED BY <2>1
<1>3. \A id \in Ids : Once(mail[id])' = Once(mail'[id])
  OBVIOUS
<1> QED BY <1>1, <1>2, <1>3 DEF Tokens

(* Threads that leave the calls alone.                                      *)
LEMMA SameCalls ==
  ASSUME UNCHANGED <<call, at>>, NEW id \in Ids
  PROVE  /\ (Fresh(id)' <=> Fresh(id)) /\ (Open(id)' <=> Open(id)) /\ at'[id] = at[id]
         /\ (ReceiverAlive(id)' <=> ReceiverAlive(id)) /\ Id(id[1])' = Id(id[1])
BY DEF Fresh, Open, ReceiverAlive, Id

(* A request stays in its place while that place is left alone.            *)
LEMMA SamePlaces ==
  ASSUME NEW p \in Processes, NEW id \in Ids
  PROVE  /\ proc'[p].pending = proc[p].pending => (InTable(id, p)' <=> InTable(id, p))
         /\ reader'[p] = reader[p] => (InHand(id, p)' <=> InHand(id, p))
         /\ mail'[id] = mail[id] => (Completed(id)' <=> Completed(id))
BY DEF InTable, InHand, Completed

-----------------------------------------------------------------------------
(* Requests are completed once.                                             *)
LEMMA TokensCalls ==
  ASSUME TypeInv, Tokens, NEW c \in Calls, Starts(c) \/ CallStep(c)
  PROVE  Tokens'
<1>0. /\ Id(c) \in Ids /\ mail \in [Ids -> Seq(Messages)] /\ proc \in [Processes -> ProcState]
      /\ UNCHANGED reader
  BY IdType, CallDoes DEF TypeInv, Typed
<1>1. \A id \in Ids : /\ (Fresh(id)' => Fresh(id)) /\ (~Fresh(id) => at'[id] = at[id])
                      /\ Open(id)' => Open(id) \/ (Registers(c) /\ id = Id(c))
                      /\ Open(id) => Open(id)' \/ ((Abandons(c) \/ Leaves(c)) /\ id = Id(c))
                      /\ Registers(c) => Fresh(Id(c)) /\ at'[id] = at[id]
  BY CallScope
<1>2. \A id \in Ids, p \in Processes : InHand(id, p)' => InHand(id, p)
  BY <1>0 DEF InHand
<1>3. ASSUME ~Registers(c)
      PROVE  \A id \in Ids, p \in Processes : InTable(id, p)' => InTable(id, p)
  <2>1. UNCHANGED proc \/ \E q \in Processes : ProcKeeps(q, {"closing", "stdin", "lock", "fail"})
    <3>1. CASE Walks(c) \/ Reaps(c) \/ Cancels(c) \/ Gets(c) \/ Leaves(c)
      BY <3>1 DEF Walks, Reaps, Cancels, Gets, Leaves
    <3>2. CASE Replaces(c) \/ Spawns(c)
      BY <3>2 DEF Replaces, Spawns, ProcKeeps
    <3>3. CASE Terminates(c) \/ Locks(c) \/ Writes(c) \/ Abandons(c)
      <4>1. /\ ProcKeeps(at[Id(c)], {"closing", "stdin", "lock", "fail"})
            /\ call[c].pc \notin Unplaced
        BY <3>3 DEF Terminates, Locks, Writes, Abandons, ProcKeeps, Unplaced
      <4> QED BY <4>1, IdType
    <3> QED BY <1>3, <3>1, <3>2, <3>3, CallDoes, Zenon
  <2>2. \A p \in Processes : proc'[p].pending = proc[p].pending
    BY <2>1 DEF ProcKeeps
  <2> QED BY <2>2 DEF InTable
<1>4. CASE Registers(c)
  <2> DEFINE p == at[Id(c)]
  <2>1. /\ ProcKeeps(p, {"pending"}) /\ proc'[p].pending = proc[p].pending \cup {Id(c)}
        /\ UNCHANGED mail /\ p \in Processes /\ Fresh(Id(c))
    BY <1>0, <1>1, <1>4, IdType DEF Registers, Goto, Unplaced
  <2>2. /\ ~Completed(Id(c)) /\ \A id \in Ids : id = Id(c) => ~Fresh(id)'
        /\ \A q \in Processes : ~InTable(Id(c), q) /\ ~InHand(Id(c), q)
    <3>1. \A id \in Ids : id = Id(c) => ~Fresh(id)'
      BY <1>0, <1>4, GotoFresh DEF Registers, Early, Locking
    <3> QED BY <1>0, <2>1, <3>1 DEF Tokens, Open
  <2>3. \A id \in Ids, q \in Processes : InTable(id, q)' => InTable(id, q) \/ (id = Id(c) /\ q = p)
    BY <1>0, <2>1 DEF InTable, ProcKeeps
  <2>4. \A id \in Ids : Completed(id)' <=> Completed(id)
    BY <2>1 DEF Completed
  <2> HIDE DEF p
  <2>5. at'[Id(c)] = p
    BY <1>0, <1>1, <1>4 DEF p
  <2>6. ASSUME NEW id \in Ids, NEW q \in Processes
        PROVE  /\ InTable(id, q)' \/ InHand(id, q)' => ~Fresh(id)' /\ at'[id] = q /\ ~Completed(id)'
               /\ ~(InTable(id, q)' /\ InHand(id, q)')
    <3>1. CASE id = Id(c)
      BY <1>2, <2>2, <2>3, <2>4, <2>5, <3>1
    <3>2. CASE id # Id(c)
      <4>1. /\ InTable(id, q) \/ InHand(id, q) => ~Fresh(id) /\ at[id] = q /\ ~Completed(id)
            /\ ~(InTable(id, q) /\ InHand(id, q))
        BY DEF Tokens
      <4> QED BY <1>1, <1>2, <2>3, <2>4, <3>2, <4>1
    <3> QED BY <3>1, <3>2
  <2>7. ASSUME NEW id \in Ids PROVE Once(mail'[id]) /\ (Completed(id)' => Open(id)')
    <3>1. Once(mail[id]) /\ (Completed(id) => Open(id)) /\ mail'[id] = mail[id]
      BY <2>1 DEF Tokens
    <3>2. ~(Abandons(c) \/ Leaves(c)) \/ id # Id(c) \/ ~Completed(id)
      BY <2>2
    <3> QED BY <1>1, <2>4, <3>1, <3>2
  <2> QED BY <2>6, <2>7 DEF Tokens
<1>5. CASE ~Registers(c) /\ UNCHANGED mail /\ ~Abandons(c) /\ ~Leaves(c)
  <2>1. \A id \in Ids : /\ Completed(id)' => Completed(id) /\ (Open(id) => Open(id)')
                        /\ Once(mail[id]) => Once(mail'[id])
    BY <1>1, <1>5 DEF Completed
  <2> QED BY <1>1, <1>2, <1>3, <1>5, <2>1, TokensKept
<1>6. CASE Abandons(c) \/ Leaves(c)
  <2>1. PICK outcome \in Results : Return(c, outcome)
    BY <1>6, StepNames DEF Abandons, Leaves
  <2>3. mail' = [mail EXCEPT ![Id(c)] = <<>>]
    BY <2>1, ReturnType
  <2>4. \A id \in Ids : mail'[id] = IF id = Id(c) THEN <<>> ELSE mail[id]
    BY <1>0, <2>3
  <2>5. \A id \in Ids : /\ Completed(id)' => Completed(id) /\ (Open(id) => Open(id)')
                        /\ Once(mail[id]) => Once(mail'[id])
    BY <1>1, <2>4, EmptyHas DEF Completed
  <2> QED BY <1>1, <1>2, <1>3, <1>4, <2>5, TokensKept
<1>7. CASE Gets(c)
  <2>1. /\ mail[Id(c)] # <<>> /\ Head(mail[Id(c)]) \in {"progress", "control"}
        /\ mail' = [mail EXCEPT ![Id(c)] = Tail(@)] /\ UNCHANGED <<call, at, proc>>
    BY <1>7 DEF Gets
  <2>2. Head(mail[Id(c)]) \notin Results /\ mail[Id(c)] \in Seq(Messages)
    BY <1>0, <2>1 DEF Results
  <2>3. /\ Has(Tail(mail[Id(c)])) <=> Has(mail[Id(c)])
        /\ Once(mail[Id(c)]) => Once(Tail(mail[Id(c)]))
    BY <2>1, <2>2, TailHas
  <2>4. \A id \in Ids : mail'[id] = IF id = Id(c) THEN Tail(mail[Id(c)]) ELSE mail[id]
    BY <1>0, <2>1
  <2>5. \A id \in Ids : /\ Completed(id)' => Completed(id)
                        /\ Once(mail[id]) => Once(mail'[id])
    BY <2>3, <2>4 DEF Completed
  <2>6. \A id \in Ids : /\ (Fresh(id)' <=> Fresh(id)) /\ (Open(id)' <=> Open(id)) /\ at'[id] = at[id]
                        /\ \A p \in Processes : InTable(id, p)' => InTable(id, p)
    BY <2>1, SameCalls, SamePlaces
  <2> QED BY <1>2, <2>5, <2>6, TokensKept
<1>8. Registers(c) \/ Abandons(c) \/ Leaves(c) \/ Gets(c) \/ UNCHANGED mail
  BY CallDoes DEF Walks, Replaces, Terminates, Reaps, Spawns, Locks, Writes, Cancels, Goto
<1> QED BY <1>4, <1>5, <1>6, <1>7, <1>8

(* fail completes every request it takes out of the table, and no other.   *)
LEMMA TokensFail ==
  ASSUME TypeInv, Tokens, NEW p \in Processes, Fail(p)
  PROVE  Tokens'
<1>0. /\ UNCHANGED <<call, at, reader>> /\ (ClosesStdin(p) \/ Drains(p) \/ Kills(p))
  BY FailDoes
<1>1. \A id \in Ids : /\ (Fresh(id)' <=> Fresh(id)) /\ (Open(id)' <=> Open(id)) /\ at'[id] = at[id]
                      /\ \A q \in Processes : InHand(id, q)' <=> InHand(id, q)
  <2>1. UNCHANGED <<call, at>> /\ \A q \in Processes : reader'[q] = reader[q]
    BY <1>0
  <2> QED BY <2>1, SameCalls, SamePlaces
<1>2. CASE ClosesStdin(p) \/ Kills(p)
  <2>1. ProcKeeps(p, {"stdin", "fail"}) /\ UNCHANGED mail
    BY <1>2 DEF ClosesStdin, Kills, ProcKeeps
  <2>2. \A q \in Processes : proc'[q].pending = proc[q].pending
    BY <2>1 DEF ProcKeeps
  <2>3. \A id \in Ids : /\ \A q \in Processes : InTable(id, q)' <=> InTable(id, q)
                        /\ (Completed(id)' <=> Completed(id)) /\ mail'[id] = mail[id]
    BY <2>1, <2>2, SamePlaces
  <2> QED BY <1>1, <2>3, TokensKept
<1>3. CASE Drains(p)
  <2>1. /\ ProcKeeps(p, {"pending", "fail"}) /\ proc'[p].pending = {}
        /\ mail' = [id \in Ids |-> IF id \in proc[p].pending /\ ReceiverAlive(id)
                                   THEN Append(mail[id], "failed") ELSE mail[id]]
    BY <1>3 DEF Drains
  <2>2. \A id \in Ids, q \in Processes : InTable(id, q)' => InTable(id, q) /\ q # p
    BY <2>1 DEF InTable, ProcKeeps
  <2>3. ASSUME NEW id \in Ids, NEW q \in Processes
        PROVE  /\ InTable(id, q)' \/ InHand(id, q)' => ~Fresh(id)' /\ at'[id] = q /\ ~Completed(id)'
               /\ ~(InTable(id, q)' /\ InHand(id, q)')
    <3>1. /\ InTable(id, q) \/ InHand(id, q) => ~Fresh(id) /\ at[id] = q /\ ~Completed(id)
          /\ ~(InTable(id, q) /\ InHand(id, q))
          /\ InTable(id, p) => at[id] = p
      BY DEF Tokens
    <3>2. mail'[id] = mail[id] \/ InTable(id, p)
      BY <2>1 DEF InTable
    <3>3. CASE InTable(id, p)
      BY <1>1, <2>2, <3>1, <3>3
    <3>4. CASE ~InTable(id, p)
      BY <1>1, <2>2, <3>1, <3>2, <3>4, SamePlaces
    <3> QED BY <3>3, <3>4
  <2>4. ASSUME NEW id \in Ids PROVE Once(mail'[id]) /\ (Completed(id)' => Open(id)')
    <3>1. /\ Once(mail[id]) /\ (Completed(id) => Open(id)) /\ mail[id] \in Seq(Messages)
          /\ InTable(id, p) => ~Fresh(id) /\ ~Completed(id)
      BY DEF Tokens, TypeInv, Typed
    <3>2. CASE InTable(id, p) /\ ReceiverAlive(id)
      <4>1. mail'[id] = Append(mail[id], "failed") /\ Open(id) /\ ~Has(mail[id])
        BY <2>1, <3>1, <3>2 DEF InTable, Open, Completed
      <4> QED BY <1>1, <3>1, <4>1, AppendHas
    <3>3. CASE ~(InTable(id, p) /\ ReceiverAlive(id))
      <4>1. mail'[id] = mail[id]
        BY <2>1, <3>3 DEF InTable
      <4> QED BY <1>1, <3>1, <4>1 DEF Completed
    <3> QED BY <3>2, <3>3
  <2> QED BY <2>3, <2>4 DEF Tokens
<1> QED BY <1>0, <1>2, <1>3

(* The reader completes the request of the result it holds, and no other.  *)
LEMMA TokensReader ==
  ASSUME TypeInv, Tokens, NEW p \in Processes, ReaderStep(p)
  PROVE  Tokens'
<1>0. /\ UNCHANGED <<call, at>>
      /\ Takes(p) \/ (\E m \in Messages : Sends(p, m)) \/ Drops(p) \/ GivesUp(p)
  BY ReaderDoes
<1>1. \A id \in Ids : (Fresh(id)' <=> Fresh(id)) /\ (Open(id)' <=> Open(id)) /\ at'[id] = at[id]
  BY <1>0, SameCalls
<1>2. mail \in [Ids -> Seq(Messages)]
  BY DEF TypeInv, Typed
<1>3. CASE Takes(p)
  <2> DEFINE l == NextLine(p)
  <2>1. /\ UNCHANGED mail /\ reader[p].pc = "read" /\ l \in Line /\ l.id \in Ids /\ InTable(l.id, p)
    <3>1. /\ UNCHANGED mail /\ reader[p].pc = "read" /\ child[p].out # <<>> /\ Known(p)
      BY <1>3 DEF Takes
    <3>2. l \in Line
      BY <3>1, NextLineType
    <3> QED BY <3>1, <3>2, LineType DEF Known, InTable
  <2>2. CASE l.kind = "result"
    <3>1. /\ ProcKeeps(p, {"pending"}) /\ proc'[p].pending = proc[p].pending \ {l.id}
          /\ Reads(p, "deliver", l)
      BY <1>3, <2>2 DEF Takes
    <3>2. reader'[p].pc = "deliver" /\ reader'[p].held = l /\ \A q \in Processes \ {p} : reader'[q] = reader[q]
      BY <2>1, <3>1, ReadsType
    <3>3. \A id \in Ids, q \in Processes :
            /\ InTable(id, q)' => InTable(id, q) /\ ~(id = l.id /\ q = p)
            /\ InHand(id, q)' => (id = l.id /\ q = p) \/ (InHand(id, q) /\ q # p)
      BY <3>1, <3>2 DEF InTable, InHand, ProcKeeps
    <3> HIDE DEF l
    <3>4. ASSUME NEW id \in Ids, NEW q \in Processes
          PROVE  /\ InTable(id, q)' \/ InHand(id, q)' => ~Fresh(id)' /\ at'[id] = q /\ ~Completed(id)'
                 /\ ~(InTable(id, q)' /\ InHand(id, q)')
      <4>1. /\ InTable(id, q) \/ InHand(id, q) => ~Fresh(id) /\ at[id] = q /\ ~Completed(id)
            /\ ~(InTable(id, q) /\ InHand(id, q))
            /\ InTable(l.id, p) => ~Fresh(l.id) /\ at[l.id] = p /\ ~Completed(l.id)
        BY <2>1 DEF Tokens
      <4>2. Completed(id)' <=> Completed(id)
        BY <2>1 DEF Completed
      <4> QED BY <1>1, <2>1, <3>3, <4>1, <4>2
    <3>5. \A id \in Ids : Once(mail'[id]) /\ (Completed(id)' => Open(id)')
      BY <1>1, <2>1 DEF Tokens, Completed
    <3> QED BY <3>4, <3>5 DEF Tokens
  <2>3. CASE l.kind # "result"
    <3>1. UNCHANGED proc /\ Reads(p, "queue", l)
      BY <1>3, <2>3 DEF Takes
    <3>2. reader'[p].pc = "queue" /\ \A q \in Processes \ {p} : reader'[q] = reader[q]
      BY <2>1, <3>1, ReadsType
    <3>3. \A id \in Ids, q \in Processes : /\ InTable(id, q)' => InTable(id, q)
                                           /\ InHand(id, q)' => InHand(id, q)
      BY <3>1, <3>2 DEF InTable, InHand
    <3>4. \A id \in Ids : (Completed(id)' <=> Completed(id)) /\ mail'[id] = mail[id]
      BY <2>1 DEF Completed
    <3> QED BY <1>1, <3>3, <3>4, TokensKept
  <2> QED BY <2>2, <2>3
<1>4. CASE Drops(p) \/ GivesUp(p)
  <2>1. /\ UNCHANGED mail /\ (Reads(p, "read", None) \/ Reads(p, "stopped", None))
        /\ UNCHANGED proc \/ ProcKeeps(p, {"fail"})
    BY <1>4 DEF Drops, GivesUp
  <2>2. reader'[p].pc # "deliver" /\ \A q \in Processes \ {p} : reader'[q] = reader[q]
    BY <2>1, ReadsType
  <2>3. \A id \in Ids, q \in Processes : /\ InTable(id, q)' => InTable(id, q)
                                         /\ InHand(id, q)' => InHand(id, q)
    BY <2>1, <2>2 DEF InTable, InHand, ProcKeeps
  <2>4. \A id \in Ids : (Completed(id)' <=> Completed(id)) /\ mail'[id] = mail[id]
    BY <2>1 DEF Completed
  <2> QED BY <1>1, <2>3, <2>4, TokensKept
<1>5. ASSUME NEW m \in Messages, Sends(p, m) PROVE Tokens'
  <2> DEFINE h == reader[p].held.id
  <2>1. /\ reader[p].pc \in {"deliver", "queue"} /\ reader[p].held \in Line /\ h \in Ids
        /\ reader[p].pc = "deliver" => m \in Results
        /\ reader[p].pc = "queue" => m \notin Results
    <3>1. /\ reader[p].pc = "deliver" => reader[p].held \in Line /\ reader[p].held.kind = "result"
          /\ reader[p].pc = "queue" =>
               reader[p].held \in Line /\ reader[p].held.kind \in {"progress", "control"}
          /\ \/ reader[p].pc = "deliver" /\ m = reader[p].held.what
             \/ reader[p].pc = "queue" /\ m = reader[p].held.kind
      BY <1>5 DEF TypeInv, Placed, Sends
    <3> QED BY <3>1, LineType DEF Results
  <2>2. /\ mail' = [mail EXCEPT ![h] = Append(@, m)] /\ ReceiverAlive(h)
        /\ Reads(p, "read", None) /\ UNCHANGED proc
    BY <1>5 DEF Sends
  <2>3. reader'[p].pc = "read" /\ \A q \in Processes \ {p} : reader'[q] = reader[q]
    BY <2>2, ReadsType
  <2>4. \A id \in Ids : mail'[id] = IF id = h THEN Append(mail[h], m) ELSE mail[id]
    BY <1>2, <2>1, <2>2
  <2>5. \A id \in Ids, q \in Processes : /\ InTable(id, q)' => InTable(id, q)
                                         /\ InHand(id, q)' => InHand(id, q) /\ q # p
    BY <2>2, <2>3 DEF InTable, InHand
  <2>6. CASE reader[p].pc = "queue"
    <3>1. \A id \in Ids : /\ Completed(id)' => Completed(id)
                          /\ Once(mail[id]) => Once(mail'[id])
      BY <1>2, <2>1, <2>4, <2>6, AppendHas DEF Completed
    <3> QED BY <1>1, <2>5, <3>1, TokensKept
  <2>7. CASE reader[p].pc = "deliver"
    <3>1. InHand(h, p)
      BY <2>7 DEF InHand
    <3> HIDE DEF h
    <3>2. ~Fresh(h) /\ at[h] = p /\ ~Completed(h) /\ Open(h)
      BY <2>1, <2>2, <3>1 DEF Tokens, Open
    <3>3. ASSUME NEW id \in Ids, NEW q \in Processes
          PROVE  /\ InTable(id, q)' \/ InHand(id, q)' => ~Fresh(id)' /\ at'[id] = q /\ ~Completed(id)'
                 /\ ~(InTable(id, q)' /\ InHand(id, q)')
      <4>1. /\ InTable(id, q) \/ InHand(id, q) => ~Fresh(id) /\ at[id] = q /\ ~Completed(id)
            /\ ~(InTable(id, q) /\ InHand(id, q))
        BY DEF Tokens
      <4>2. CASE id = h
        BY <2>5, <3>1, <3>2, <4>1, <4>2
      <4>3. CASE id # h
        <5>1. Completed(id)' <=> Completed(id)
          BY <2>4, <4>3 DEF Completed
        <5> QED BY <1>1, <2>5, <4>1, <5>1
      <4> QED BY <4>2, <4>3
    <3>4. ASSUME NEW id \in Ids PROVE Once(mail'[id]) /\ (Completed(id)' => Open(id)')
      <4>1. Once(mail[id]) /\ (Completed(id) => Open(id)) /\ mail[id] \in Seq(Messages)
        BY <1>2 DEF Tokens
      <4>2. CASE id = h
        BY <1>1, <2>4, <3>2, <4>1, <4>2, AppendHas DEF Completed
      <4>3. CASE id # h
        BY <1>1, <2>4, <4>1, <4>3 DEF Completed
      <4> QED BY <4>2, <4>3
    <3> QED BY <3>3, <3>4 DEF Tokens
  <2> QED BY <2>1, <2>6, <2>7
<1> QED BY <1>0, <1>3, <1>4, <1>5

(* A request is completed once, whoever takes the step.                    *)
LEMMA TokensStep == TypeInv /\ Tokens /\ [Next]_vars => Tokens'
<1> SUFFICES ASSUME TypeInv, Tokens, [Next]_vars PROVE Tokens'
  OBVIOUS
<1>1. ASSUME UNCHANGED <<call, at, mail, reader>>,
             \A p \in Processes : proc'[p].pending = proc[p].pending
      PROVE  Tokens'
  <2>1. UNCHANGED <<call, at>> /\ \A q \in Processes : reader'[q] = reader[q]
    BY <1>1
  <2>2. \A id \in Ids : (Fresh(id)' <=> Fresh(id)) /\ (Open(id)' <=> Open(id)) /\ at'[id] = at[id]
    BY <2>1, SameCalls
  <2>3. \A id \in Ids : /\ mail'[id] = mail[id] /\ (Completed(id)' <=> Completed(id))
                        /\ \A q \in Processes : /\ InTable(id, q)' <=> InTable(id, q)
                                                /\ InHand(id, q)' <=> InHand(id, q)
    BY <1>1, <2>1 DEF InTable, InHand, Completed
  <2> QED BY <2>2, <2>3, TokensKept
<1>2. CASE UNCHANGED vars
  BY <1>1, <1>2 DEF vars
<1>3. ASSUME NEW c \in Calls, Starts(c) \/ CallStep(c) PROVE Tokens'
  BY <1>3, TokensCalls
<1>4. ASSUME NEW p \in Processes, Fail(p) \/ ReaderStep(p) \/ ChildStep(p) PROVE Tokens'
  <2>1. CASE ChildStep(p)
    BY <1>1, <2>1, ChildDoes
  <2> QED BY <1>4, <2>1, TokensFail, TokensReader
<1>5. CASE Close \/ CloserStep
  <2>1. /\ UNCHANGED <<call, at, mail, reader>> /\ (Begins \/ Empties \/ Waits \/ Finishes)
    BY <1>5, CloserDoes
  <2>2. \A p \in Processes : proc'[p].pending = proc[p].pending
    BY <2>1 DEF Begins, Empties, Waits, Finishes, ProcKeeps
  <2> QED BY <1>1, <2>1, <2>2
<1> QED BY <1>2, <1>3, <1>4, <1>5 DEF Next

-----------------------------------------------------------------------------
(* Who writes to stdin holds its lock.                                      *)
LEMMA StdinKept ==
  ASSUME StdinHeld, NEW q, \A p \in Processes \ {q} : proc'[p] = proc[p],
         q \in Processes => (proc'[q].fail \in {"drain", "kill", "done"} => ~proc'[q].stdin),
         \A d \in Calls : call'[d].pc = "writing" =>
           /\ call[d].pc = "writing" /\ Id(d)' = Id(d) /\ at'[Id(d)] = at[Id(d)]
           /\ at[Id(d)] \in Processes
           /\ \/ at[Id(d)] # q
              \/ proc'[q].lock = proc[q].lock /\ proc'[q].stdin = proc[q].stdin
  PROVE  StdinHeld'
<1>1. \A p \in Processes : proc'[p].fail \in {"drain", "kill", "done"} => ~proc'[p].stdin
  BY DEF StdinHeld
<1>2. ASSUME NEW d \in Calls, call'[d].pc = "writing"
      PROVE  proc'[at'[Id(d)']].lock = d /\ proc'[at'[Id(d)']].stdin
  <2>1. /\ call[d].pc = "writing" /\ Id(d)' = Id(d) /\ at'[Id(d)'] = at[Id(d)] /\ at[Id(d)] \in Processes
        /\ at[Id(d)] # q \/ (proc'[q].lock = proc[q].lock /\ proc'[q].stdin = proc[q].stdin)
    BY <1>2
  <2>2. proc[at[Id(d)]].lock = d /\ proc[at[Id(d)]].stdin
    BY <2>1 DEF StdinHeld
  <2>3. CASE at[Id(d)] # q
    BY <2>1, <2>2, <2>3
  <2>4. CASE at[Id(d)] = q
    BY <2>1, <2>2, <2>4
  <2> QED BY <2>3, <2>4
<1> QED BY <1>1, <1>2 DEF StdinHeld

(* The other calls stay where they are.                                     *)
LEMMA OthersStay ==
  ASSUME TypeInv, NEW c \in Calls, Starts(c) \/ CallStep(c), NEW d \in Calls, d # c
  PROVE  /\ call'[d].pc = call[d].pc /\ call'[d].stage = call[d].stage /\ Id(d)' = Id(d)
         /\ at'[Id(d)] = at[Id(d)]
<1>0. at \in [Ids -> Processes \cup {None}] /\ Id(c) \in Ids /\ Id(d) \in Ids /\ Id(d) # Id(c)
  <2>1. Id(c)[1] = c /\ Id(d)[1] = d
    BY DEF Id
  <2> QED BY <2>1, IdType DEF TypeInv, Typed
<1>1. \/ UNCHANGED at
      \/ \E q \in Processes : at' = [at EXCEPT ![Id(c)] = q]
  <2>1. slot # None => slot \in Processes
    BY DEF TypeInv, Typed
  <2> QED BY <2>1, CallDoes DEF Walks, Replaces, Terminates, Reaps, Spawns, Registers, Locks, Writes,
                                Abandons, Cancels, Gets, Leaves
<1>2. at'[Id(d)] = at[Id(d)]
  BY <1>0, <1>1
<1>3. \/ \E pc \in Steps : Goto(c, pc)
      \/ \E outcome \in Results : Return(c, outcome)
      \/ \A e \in Calls \ {c} : call'[e] = call[e]
  BY CallDoes, StepNames DEF Walks, Replaces, Terminates, Reaps, Spawns, Registers, Locks, Writes,
                             Abandons, Cancels, Gets, Leaves
<1>4. call'[d].pc = call[d].pc /\ call'[d].stage = call[d].stage
  <2>1. ASSUME NEW pc \in Steps, Goto(c, pc) PROVE call'[d].pc = call[d].pc /\ call'[d].stage = call[d].stage
    BY <2>1, GotoType
  <2>2. ASSUME NEW outcome \in Results, Return(c, outcome) PROVE call'[d] = call[d]
    BY <2>2, ReturnType
  <2> QED BY <1>3, <2>1, <2>2
<1> QED BY <1>2, <1>4 DEF Id

(* What the steps of calls and of the closing thread do to a process: they  *)
(* leave the table, or add to it, and its failure only begins.              *)
ProcGrows(p) ==
  /\ proc[p].pending \subseteq proc'[p].pending
  /\ proc'[p].fail = proc[p].fail \/ (proc[p].fail = "no" /\ proc'[p].fail = "stdin")
  /\ p \in 1 .. spawned => (proc'[p].stdin => proc[p].stdin)

(* Calls take nothing out of a table.                                      *)
LEMMA CallGrows ==
  ASSUME TypeInv, NEW c \in Calls, Starts(c) \/ CallStep(c), NEW p \in Processes
  PROVE  ProcGrows(p)
<1>0. spawned \in Nat /\ (call[c].pc \notin Unplaced => at[Id(c)] \in Processes)
  <2>1. spawned \in Nat
    BY ClientAssumption DEF TypeInv, Typed
  <2>2. call[c].pc \notin Unplaced => at[Id(c)] \in Processes
    BY IdType
  <2> QED BY <2>1, <2>2
<1>1. CASE UNCHANGED proc
  BY <1>1 DEF ProcGrows
<1>2. CASE Replaces(c)
  BY <1>2 DEF Replaces, ProcKeeps, ProcGrows
<1>3. CASE Spawns(c)
  <2>1. ProcKeeps(spawned + 1, {"stdin"})
    BY <1>3 DEF Spawns
  <2>2. p \in 1 .. spawned => p # spawned + 1
    BY <1>0
  <2> QED BY <2>1, <2>2 DEF ProcKeeps, ProcGrows
<1>4. CASE Terminates(c) \/ Registers(c) \/ Locks(c) \/ Writes(c)
  BY <1>0, <1>4 DEF Terminates, Registers, Locks, Writes, ProcKeeps, ProcGrows, Unplaced
<1>5. CASE Abandons(c)
  BY <1>0, <1>5 DEF Abandons, ProcKeeps, Failure, ProcGrows, Unplaced
<1> QED BY <1>1, <1>2, <1>3, <1>4, <1>5, CallDoes DEF Walks, Reaps, Cancels, Gets, Leaves

(* A call that writes took the lock while stdin was open.                  *)
LEMMA StdinCalls ==
  ASSUME TypeInv, Unborn, StdinHeld, NEW c \in Calls, Starts(c) \/ CallStep(c)
  PROVE  StdinHeld'
<1>0. /\ spawned \in Nat /\ (call[c].pc \notin Unplaced => at[Id(c)] \in Processes)
      /\ \A d \in Calls : /\ d # None
                          /\ call[d].pc = "writing" => at[Id(d)] \in Processes /\ at[Id(d)] \in 1 .. spawned
  <2>1. spawned \in Nat /\ \A d \in Calls : d # None
    BY ClientAssumption DEF TypeInv, Typed
  <2>2. \A d \in Calls : call[d].pc \notin Unplaced => at[Id(d)] \in Processes /\ at[Id(d)] \in 1 .. spawned
    BY IdType
  <2> QED BY <2>1, <2>2 DEF Unplaced
<1>1. \A d \in Calls \ {c} : call'[d].pc = call[d].pc /\ Id(d)' = Id(d) /\ at'[Id(d)] = at[Id(d)]
  BY OthersStay
<1>2. \A p \in Processes : ProcGrows(p)
  BY CallGrows
<1>3. ASSUME NEW pc \in Steps, Goto(c, pc)
      PROVE  call'[c].pc = pc /\ Id(c)' = Id(c)
  BY <1>3, GotoType DEF Id
<1>4. ASSUME NEW outcome \in Results, Return(c, outcome) PROVE call'[c].pc # "writing"
  BY <1>4, ReturnType, IdType DEF CallState
<1>5. ASSUME call'[c].pc # "writing", NEW q, \A p \in Processes \ {q} : proc'[p] = proc[p],
             q \in Processes => (proc'[q].fail \in {"drain", "kill", "done"} => ~proc'[q].stdin),
             \A d \in Calls \ {c} : call[d].pc = "writing" /\ at[Id(d)] = q =>
               proc'[q].lock = proc[q].lock /\ proc'[q].stdin = proc[q].stdin
      PROVE  StdinHeld'
  <2>1. \A d \in Calls : call'[d].pc = "writing" =>
           /\ call[d].pc = "writing" /\ Id(d)' = Id(d) /\ at'[Id(d)] = at[Id(d)]
           /\ at[Id(d)] \in Processes
           /\ at[Id(d)] # q \/ (proc'[q].lock = proc[q].lock /\ proc'[q].stdin = proc[q].stdin)
    BY <1>0, <1>1, <1>5
  <2> QED BY <1>5, <2>1, StdinKept
<1>6. \A q \in Processes :
        ProcGrows(q) /\ (q \in 1 .. spawned \/ proc'[q].fail = "no") =>
          (proc'[q].fail \in {"drain", "kill", "done"} => ~proc'[q].stdin)
  BY DEF ProcGrows, StdinHeld
<1>7. CASE Walks(c) \/ Reaps(c) \/ Cancels(c) \/ Gets(c) \/ Leaves(c)
  <2>1. call'[c].pc # "writing" /\ UNCHANGED proc
    BY <1>3, <1>4, <1>7, StepNames DEF Walks, Reaps, Cancels, Gets, Leaves, Waiting
  <2>2. None \notin Processes
    BY ClientAssumption
  <2>3. \A d \in Calls \ {c} : call[d].pc = "writing" /\ at[Id(d)] = None =>
               proc'[None].lock = proc[None].lock /\ proc'[None].stdin = proc[None].stdin
    BY <2>1
  <2>4. \A p \in Processes \ {None} : proc'[p] = proc[p]
    BY <2>1
  <2> QED BY <1>5, <2>1, <2>2, <2>3, <2>4
<1>8. CASE Replaces(c)
  <2>1. /\ slot \in Processes /\ slot \in 1 .. spawned /\ ProcKeeps(slot, {"closing"})
        /\ Goto(c, "terminateStdin")
    BY <1>8 DEF Replaces
  <2>2. call'[c].pc # "writing"
    BY <1>3, <2>1, StepNames
  <2>3. proc'[slot].lock = proc[slot].lock /\ proc'[slot].stdin = proc[slot].stdin
    BY <2>1 DEF ProcKeeps
  <2>4. \A p \in Processes \ {slot} : proc'[p] = proc[p]
    BY <2>1 DEF ProcKeeps
  <2> QED BY <1>2, <1>5, <1>6, <2>1, <2>2, <2>3, <2>4
<1>9. CASE Spawns(c)
  <2> DEFINE n == spawned + 1
  <2>1. /\ n \in Processes /\ ProcKeeps(n, {"stdin"}) /\ Goto(c, "submit")
    BY <1>9 DEF Spawns
  <2>2. call'[c].pc # "writing"
    BY <1>3, <2>1, StepNames
  <2>3. proc'[n].fail = "no"
    BY <1>0, <2>1 DEF ProcKeeps, Unborn
  <2>4. \A p \in Processes \ {n} : proc'[p] = proc[p]
    BY <2>1 DEF ProcKeeps
  <2>5. \A d \in Calls : call[d].pc = "writing" => at[Id(d)] # n
    BY <1>0
  <2> HIDE DEF n
  <2> QED BY <1>5, <2>2, <2>3, <2>4, <2>5
<1>10. CASE Terminates(c)
  <2>1. /\ at[Id(c)] \in Processes /\ proc[at[Id(c)]].lock = None /\ Goto(c, "terminateChild")
        /\ ProcKeeps(at[Id(c)], {"stdin"}) /\ proc'[at[Id(c)]].stdin = FALSE
    BY <1>0, <1>10 DEF Terminates, Unplaced
  <2>2. call'[c].pc # "writing"
    BY <1>3, <2>1, StepNames
  <2>3. \A d \in Calls : call[d].pc = "writing" => at[Id(d)] # at[Id(c)]
    BY <1>0, <2>1 DEF StdinHeld
  <2>4. \A p \in Processes \ {at[Id(c)]} : proc'[p] = proc[p]
    BY <2>1 DEF ProcKeeps
  <2> QED BY <1>5, <2>1, <2>2, <2>3, <2>4
<1>11. CASE Registers(c) \/ (Abandons(c) /\ call[c].pc # "writing")
  <2>1. /\ at[Id(c)] \in Processes /\ at[Id(c)] \in 1 .. spawned
        /\ ProcKeeps(at[Id(c)], {"pending", "fail", "lock"}) /\ proc'[at[Id(c)]].lock = proc[at[Id(c)]].lock
    <3>1. call[c].pc \notin Unplaced
      BY <1>11 DEF Registers, Abandons, Unplaced
    <3> QED BY <1>11, <3>1, IdType DEF Registers, Abandons, ProcKeeps
  <2>2. call'[c].pc # "writing"
    BY <1>3, <1>4, <1>11, StepNames DEF Registers, Abandons
  <2>3. proc'[at[Id(c)]].stdin = proc[at[Id(c)]].stdin
    BY <2>1 DEF ProcKeeps
  <2>4. \A p \in Processes \ {at[Id(c)]} : proc'[p] = proc[p]
    BY <2>1 DEF ProcKeeps
  <2> QED BY <1>2, <1>5, <1>6, <2>1, <2>2, <2>3, <2>4
<1>12. CASE Writes(c) \/ (Abandons(c) /\ call[c].pc = "writing")
  <2>1. /\ at[Id(c)] \in Processes /\ at[Id(c)] \in 1 .. spawned /\ call[c].pc = "writing"
        /\ ProcKeeps(at[Id(c)], {"fail", "lock"})
    <3>1. call[c].pc \notin Unplaced /\ call[c].pc = "writing"
      BY <1>12 DEF Writes, Abandons, Unplaced
    <3> QED BY <1>12, <3>1, IdType DEF Writes, Abandons, ProcKeeps
  <2>2. call'[c].pc # "writing"
    BY <1>3, <1>4, <1>12, StepNames DEF Writes, Abandons
  <2>3. \A d \in Calls \ {c} : call[d].pc = "writing" => at[Id(d)] # at[Id(c)]
    BY <2>1 DEF StdinHeld
  <2>4. \A p \in Processes \ {at[Id(c)]} : proc'[p] = proc[p]
    BY <2>1 DEF ProcKeeps
  <2> QED BY <1>2, <1>5, <1>6, <2>1, <2>2, <2>3, <2>4
<1>13. CASE Locks(c)
  <2> DEFINE q == at[Id(c)]
  <2>1. /\ q \in Processes /\ q \in 1 .. spawned /\ proc[q].lock = None /\ proc[q].stdin
        /\ ProcKeeps(q, {"lock"}) /\ proc'[q].lock = c /\ Goto(c, "writing") /\ UNCHANGED at
    <3>1. call[c].pc \notin Unplaced
      BY <1>13 DEF Locks, Unplaced
    <3> QED BY <1>13, <3>1, IdType DEF Locks
  <2>2. Id(c)' = Id(c)
    BY <1>3, <2>1, StepNames
  <2> HIDE DEF q
  <2>3. \A p \in Processes : proc'[p].fail \in {"drain", "kill", "done"} => ~proc'[p].stdin
    BY <2>1 DEF ProcKeeps, StdinHeld
  <2>4. ASSUME NEW d \in Calls, call'[d].pc = "writing"
        PROVE  proc'[at'[Id(d)']].lock = d /\ proc'[at'[Id(d)']].stdin
    <3>1. CASE d = c
      BY <2>1, <2>2, <3>1 DEF ProcKeeps, q
    <3>2. CASE d # c
      <4>1. /\ call[d].pc = "writing" /\ Id(d)' = Id(d) /\ at'[Id(d)'] = at[Id(d)]
            /\ at[Id(d)] \in Processes
        BY <1>0, <1>1, <2>4, <3>2
      <4>2. proc[at[Id(d)]].lock = d /\ proc[at[Id(d)]].stdin
        BY <4>1 DEF StdinHeld
      <4>3. at[Id(d)] # q
        BY <1>0, <2>1, <4>2
      <4> QED BY <2>1, <4>1, <4>2, <4>3 DEF ProcKeeps
    <3> QED BY <3>1, <3>2
  <2> QED BY <2>3, <2>4 DEF StdinHeld
<1> QED BY <1>7, <1>8, <1>9, <1>10, <1>11, <1>12, <1>13, CallDoes, Zenon

(* The other threads leave the calls alone: what they do to a process does  *)
(* not take stdin from who holds its lock.                                  *)
LEMMA StdinOther ==
  ASSUME TypeInv, StdinHeld, UNCHANGED <<call, at>>,
         NEW q, \A p \in Processes \ {q} : proc'[p] = proc[p],
         q \in Processes =>
           /\ proc'[q].fail \in {"drain", "kill", "done"} => ~proc'[q].stdin
           /\ proc[q].lock = None \/ (proc'[q].lock = proc[q].lock /\ proc'[q].stdin = proc[q].stdin)
  PROVE  StdinHeld'
<1>1. \A d \in Calls : call'[d].pc = "writing" =>
        /\ call[d].pc = "writing" /\ Id(d)' = Id(d) /\ at'[Id(d)] = at[Id(d)]
        /\ at[Id(d)] \in Processes
        /\ \/ at[Id(d)] # q
           \/ proc'[q].lock = proc[q].lock /\ proc'[q].stdin = proc[q].stdin
  <2> SUFFICES ASSUME NEW d \in Calls, call[d].pc = "writing"
               PROVE  /\ Id(d)' = Id(d) /\ at'[Id(d)] = at[Id(d)] /\ at[Id(d)] \in Processes
                      /\ \/ at[Id(d)] # q
                         \/ proc'[q].lock = proc[q].lock /\ proc'[q].stdin = proc[q].stdin
    OBVIOUS
  <2>1. at[Id(d)] \in Processes
    BY IdType DEF Unplaced
  <2>2. proc[at[Id(d)]].lock = d /\ d # None
    BY ClientAssumption DEF StdinHeld
  <2>3. Id(d)' = Id(d)
    BY DEF Id
  <2> QED BY <2>1, <2>2, <2>3
<1> QED BY <1>1, StdinKept

(* Who writes keeps the lock and stdin, whoever takes the step.            *)
LEMMA StdinStep == TypeInv /\ Unborn /\ StdinHeld /\ [Next]_vars => StdinHeld'
<1> SUFFICES ASSUME TypeInv, Unborn, StdinHeld, [Next]_vars PROVE StdinHeld'
  OBVIOUS
<1>1. ASSUME UNCHANGED <<call, at, proc>> PROVE StdinHeld'
  <2>1. \A d \in Calls : Id(d)' = Id(d)
    BY <1>1 DEF Id
  <2> QED BY <1>1, <2>1 DEF StdinHeld
<1>2. CASE UNCHANGED vars
  BY <1>1, <1>2 DEF vars
<1>3. ASSUME NEW c \in Calls, Starts(c) \/ CallStep(c) PROVE StdinHeld'
  BY <1>3, StdinCalls
<1>4. ASSUME NEW p \in Processes, Fail(p) \/ ReaderStep(p) \/ ChildStep(p) PROVE StdinHeld'
  <2>0. proc[p].fail \in {"drain", "kill", "done"} => ~proc[p].stdin
    BY DEF StdinHeld
  <2>1. CASE Fail(p)
    <3>1. UNCHANGED <<call, at>> /\ (ClosesStdin(p) \/ Drains(p) \/ Kills(p))
      BY <2>1, FailDoes
    <3>2. /\ \A q \in Processes \ {p} : proc'[q] = proc[q]
          /\ proc'[p].fail \in {"drain", "kill", "done"} => ~proc'[p].stdin
          /\ proc[p].lock = None \/ (proc'[p].lock = proc[p].lock /\ proc'[p].stdin = proc[p].stdin)
      BY <2>0, <3>1 DEF ClosesStdin, Drains, Kills, ProcKeeps
    <3> QED BY <3>1, <3>2, StdinOther
  <2>2. CASE ReaderStep(p)
    <3>1. /\ UNCHANGED <<call, at>>
          /\ Takes(p) \/ (\E m \in Messages : Sends(p, m)) \/ Drops(p) \/ GivesUp(p)
      BY <2>2, ReaderDoes
    <3>2. \/ UNCHANGED proc
          \/ ProcKeeps(p, {"pending"})
          \/ ProcKeeps(p, {"fail"}) /\ Failure(p, "reader")
      BY <3>1 DEF Takes, Sends, Drops, GivesUp
    <3>3. CASE UNCHANGED proc
      BY <1>1, <3>1, <3>3
    <3>4. CASE ProcKeeps(p, {"pending"}) \/ (ProcKeeps(p, {"fail"}) /\ Failure(p, "reader"))
      <4>1. /\ \A q \in Processes \ {p} : proc'[q] = proc[q]
            /\ proc'[p].fail \in {"drain", "kill", "done"} => ~proc'[p].stdin
            /\ proc'[p].lock = proc[p].lock /\ proc'[p].stdin = proc[p].stdin
        BY <2>0, <3>4 DEF ProcKeeps, Failure
      <4> QED BY <3>1, <4>1, StdinOther
    <3> QED BY <3>2, <3>3, <3>4
  <2>3. CASE ChildStep(p)
    BY <1>1, <2>3, ChildDoes
  <2> QED BY <1>4, <2>1, <2>2, <2>3
<1>5. CASE Close \/ CloserStep
  <2>1. UNCHANGED <<call, at>> /\ (Begins \/ Empties \/ Waits \/ Finishes)
    BY <1>5, CloserDoes
  <2>2. CASE UNCHANGED proc
    BY <1>1, <2>1, <2>2
  <2>3. CASE Empties /\ ~UNCHANGED proc
    <3>1. slot \in Processes /\ ProcKeeps(slot, {"closing"})
      BY <2>3 DEF Empties
    <3>2. /\ proc'[slot].fail = proc[slot].fail /\ proc'[slot].stdin = proc[slot].stdin
          /\ proc'[slot].lock = proc[slot].lock /\ \A q \in Processes \ {slot} : proc'[q] = proc[q]
      BY <3>1 DEF ProcKeeps
    <3>3. proc[slot].fail \in {"drain", "kill", "done"} => ~proc[slot].stdin
      BY <3>1 DEF StdinHeld
    <3> QED BY <2>1, <3>2, <3>3, StdinOther
  <2>4. CASE (Waits \/ Finishes) /\ ~UNCHANGED proc
    <3> DEFINE p == closer.of
    <3>1. /\ p \in Processes
          /\ \/ ProcKeeps(p, {"stdin"}) /\ proc'[p].stdin = FALSE /\ proc[p].lock = None
             \/ ProcKeeps(p, {"fail"}) /\ Failure(p, "closer")
      BY <2>4 DEF Waits, Finishes
    <3> HIDE DEF p
    <3>2. proc[p].fail \in {"drain", "kill", "done"} => ~proc[p].stdin
      BY <3>1 DEF StdinHeld
    <3>3. /\ \A q \in Processes \ {p} : proc'[q] = proc[q]
          /\ proc'[p].fail \in {"drain", "kill", "done"} => ~proc'[p].stdin
          /\ proc[p].lock = None \/ (proc'[p].lock = proc[p].lock /\ proc'[p].stdin = proc[p].stdin)
      BY <3>1, <3>2 DEF ProcKeeps, Failure
    <3> QED BY <2>1, <3>3, StdinOther
  <2> QED BY <2>1, <2>2, <2>3, <2>4 DEF Begins
<1> QED BY <1>2, <1>3, <1>4, <1>5 DEF Next

-----------------------------------------------------------------------------
(* What is in the channel of a request stays until its receiver is gone or  *)
(* takes it.                                                                *)
LEMMA CompletedStays ==
  ASSUME TypeInv, NEW c \in Calls, Starts(c) \/ CallStep(c), NEW id \in Ids, Open(id)', Completed(id)
  PROVE  Completed(id)'
<1>0. mail \in [Ids -> Seq(Messages)] /\ Id(c) \in Ids
  BY IdType DEF TypeInv, Typed
<1>1. CASE Abandons(c) \/ Leaves(c)
  <2>1. call[c].pc # "returned" /\ \E outcome \in Results : Return(c, outcome)
    BY <1>1, StepNames DEF Abandons, Leaves
  <2>2. id # Id(c) /\ mail'[id] = mail[id]
    BY <2>1, ReturnFresh
  <2> QED BY <2>2 DEF Completed
<1>2. CASE Gets(c)
  <2>1. /\ mail[Id(c)] # <<>> /\ Head(mail[Id(c)]) \notin Results /\ mail[Id(c)] \in Seq(Messages)
        /\ mail' = [mail EXCEPT ![Id(c)] = Tail(@)]
    BY <1>0, <1>2 DEF Gets, Results
  <2>2. Has(Tail(mail[Id(c)])) <=> Has(mail[Id(c)])
    BY <2>1, TailHas
  <2>3. mail'[id] = IF id = Id(c) THEN Tail(mail[Id(c)]) ELSE mail[id]
    BY <1>0, <2>1
  <2> QED BY <2>2, <2>3 DEF Completed
<1>3. CASE UNCHANGED mail
  BY <1>3 DEF Completed
<1> QED BY <1>1, <1>2, <1>3, CallDoes
        DEF Walks, Replaces, Terminates, Reaps, Spawns, Registers, Locks, Writes, Cancels, Goto

(* A call that found stdin closed finds it closed still.                    *)
LEMMA LateStays ==
  ASSUME TypeInv, NEW c \in Calls, Starts(c) \/ CallStep(c), NEW id \in Ids, Open(id)', ~Fresh(id),
         Late(id)
  PROVE  Late(id)'
<1> DEFINE d == id[1]
<1>0. /\ d \in Calls /\ call[d].pc = "write" /\ Id(d) = id /\ ~proc[at[id]].stdin
      /\ at[id] \in 1 .. spawned /\ at[id] \in Processes
  <2>1. d \in Calls /\ call[d].pc = "write" /\ Id(d) = id /\ ~proc[at[id]].stdin
    BY TwoIds DEF Late
  <2>2. call[d].pc \notin Unplaced
    BY <2>1 DEF Unplaced
  <2> HIDE DEF d
  <2> QED BY <2>1, <2>2, IdType
<1>1. at'[id] = at[id] /\ ~proc'[at[id]].stdin
  <2>1. at'[id] = at[id]
    BY CallScope
  <2>2. ProcGrows(at[id])
    BY <1>0, CallGrows
  <2> QED BY <1>0, <2>1, <2>2 DEF ProcGrows
<1>2. d # c
  <2> HIDE DEF d
  <2> SUFFICES ASSUME d = c PROVE FALSE
    OBVIOUS
  <2>1. /\ UNCHANGED <<reader, closer, budget>>
        /\ Locks(c) \/ Abandons(c)
    BY <1>0, CallDoes DEF Walks, Replaces, Terminates, Reaps, Spawns, Registers, Writes, Cancels,
                          Gets, Leaves, Waiting
  <2>2. ~Locks(c)
    BY <1>0 DEF Locks
  <2>3. Return(c, "failed") /\ call[c].pc # "returned" /\ "failed" \in Results /\ id = Id(c)
    BY <1>0, <2>1, <2>2, StepNames DEF Abandons
  <2>4. id = Id(c) => ~Open(id)'
    BY <2>3, ReturnFresh
  <2> QED BY <2>3, <2>4
<1>3. call'[d].pc = call[d].pc /\ Id(d)' = Id(d)
  <2> HIDE DEF d
  <2> QED BY <1>0, <1>2, OthersStay
<1> QED BY <1>0, <1>1, <1>3 DEF Late

(* No call forgets a request.                                               *)
LEMMA RememberedCalls ==
  ASSUME TypeInv, StdinHeld, Remembered, NEW c \in Calls, Starts(c) \/ CallStep(c)
  PROVE  Remembered'
<1> SUFFICES ASSUME NEW id \in Ids, Open(id)' PROVE Kept(id)' \/ Late(id)'
  BY DEF Remembered
<1>0. /\ Id(c) \in Ids /\ UNCHANGED reader /\ proc \in [Processes -> ProcState]
  BY IdType, CallDoes DEF TypeInv, Typed
<1>1. /\ Open(id) \/ (Registers(c) /\ id = Id(c))
      /\ ~Fresh(id) => at'[id] = at[id]
      /\ Registers(c) => at'[id] = at[id]
  BY CallScope
<1>2. CASE Registers(c) /\ id = Id(c)
  <2> DEFINE p == at[Id(c)]
  <2>1. /\ ProcKeeps(p, {"pending"}) /\ proc'[p].pending = proc[p].pending \cup {id}
        /\ Goto(c, "write") /\ call[c].pc = "register" /\ call[c].pc \notin Unplaced
    BY <1>2 DEF Registers, Unplaced
  <2>2. p \in Processes /\ p = at[id] /\ at'[id] = p
    BY <1>1, <1>2, <2>1, IdType
  <2> HIDE DEF p
  <2>3. call'[c].pc = "write" /\ Id(c)' = Id(c) /\ id[1] = c
    BY <1>2, <2>1, GotoType, StepNames, IdType DEF Id
  <2>4. /\ id \in proc'[p].pending /\ proc'[p].fail = proc[p].fail /\ proc'[p].stdin = proc[p].stdin
        /\ proc[p].fail \in {"no", "stdin", "drain", "kill", "done"}
    BY <1>0, <2>1, <2>2 DEF ProcKeeps, ProcState
  <2>5. CASE proc[p].fail \in {"no", "stdin", "drain"}
    BY <2>2, <2>4, <2>5 DEF Kept, Undrained, InTable
  <2>6. CASE proc[p].fail \in {"kill", "done"}
    <3>1. ~proc'[p].stdin
      BY <2>2, <2>4, <2>6 DEF StdinHeld
    <3> QED BY <1>2, <2>2, <2>3, <3>1 DEF Late
  <2> QED BY <2>4, <2>5, <2>6
<1>3. CASE Open(id)
  <2>1. ~Fresh(id) /\ at'[id] = at[id] /\ (Kept(id) \/ Late(id))
    BY <1>1, <1>3 DEF Open, Remembered
  <2>2. CASE Completed(id)
    BY <2>2, CompletedStays DEF Kept
  <2>3. ASSUME NEW p \in Processes, InHand(id, p) PROVE Kept(id)'
    <3>1. InHand(id, p)'
      BY <1>0, <2>3 DEF InHand
    <3> QED BY <3>1 DEF Kept
  <2>4. ASSUME NEW p \in Processes, at[id] = p, Undrained(id, p) PROVE Kept(id)'
    <3>1. Undrained(id, p)'
      BY <2>4, CallGrows DEF ProcGrows, Undrained, InTable
    <3> QED BY <2>1, <2>4, <3>1 DEF Kept
  <2>5. CASE Late(id)
    BY <2>1, <2>5, LateStays
  <2> QED BY <2>1, <2>2, <2>3, <2>4, <2>5 DEF Kept
<1> QED BY <1>1, <1>2, <1>3

(* What the other threads leave as it is: closed stdin stays closed, and a  *)
(* table that is going to be drained still is.                              *)
ProcStays(p) ==
  /\ proc'[p].stdin => proc[p].stdin
  /\ proc[p].fail \in {"no", "stdin", "drain"} => proc'[p].fail \in {"no", "stdin", "drain"}

(* Stdin that a call found closed is not opened by another thread.         *)
LEMMA LateOther ==
  ASSUME TypeInv, UNCHANGED <<call, at>>, \A p \in Processes : proc'[p].stdin => proc[p].stdin,
         NEW id \in Ids, Late(id)
  PROVE  Late(id)'
<1> DEFINE d == id[1]
<1>1. d \in Calls /\ call[d].pc = "write" /\ Id(d) = id /\ ~proc[at[id]].stdin
  BY TwoIds DEF Late
<1> HIDE DEF d
<1>2. at[id] \in Processes
  BY <1>1, IdType DEF Unplaced
<1>3. call'[d].pc = "write" /\ Id(d)' = id /\ ~proc'[at'[id]].stdin
  BY <1>1, <1>2 DEF Id
<1> QED BY <1>3 DEF Late, d

(* Steps that leave tables, channels and readers alone forget nothing.     *)
LEMMA RememberedSame ==
  ASSUME TypeInv, Remembered, UNCHANGED <<call, at, mail, reader>>,
         \A p \in Processes : ProcStays(p) /\ proc'[p].pending = proc[p].pending
  PROVE  Remembered'
<1> SUFFICES ASSUME NEW id \in Ids, Open(id)' PROVE Kept(id)' \/ Late(id)'
  BY DEF Remembered
<1>1. at'[id] = at[id] /\ (Kept(id) \/ Late(id))
  BY SameCalls DEF Remembered
<1>2. CASE Completed(id)
  BY <1>2 DEF Kept, Completed
<1>3. ASSUME NEW p \in Processes, InHand(id, p) \/ (at[id] = p /\ Undrained(id, p)) PROVE Kept(id)'
  BY <1>1, <1>3 DEF ProcStays, Kept, InHand, Undrained, InTable
<1>4. CASE Late(id)
  <2>1. Late(id)'
    BY <1>4, LateOther DEF ProcStays
  <2> QED BY <2>1
<1> QED BY <1>1, <1>2, <1>3, <1>4 DEF Kept

(* fail completes what it takes out of the table.                           *)
LEMMA RememberedFail ==
  ASSUME TypeInv, Remembered, NEW p \in Processes, Fail(p)
  PROVE  Remembered'
<1>0. /\ UNCHANGED <<call, at, reader>> /\ (ClosesStdin(p) \/ Drains(p) \/ Kills(p))
  BY FailDoes
<1>1. CASE ClosesStdin(p) \/ Kills(p)
  <2>1. \A q \in Processes : ProcStays(q) /\ proc'[q].pending = proc[q].pending
    BY <1>1 DEF ClosesStdin, Kills, ProcKeeps, ProcStays
  <2>2. UNCHANGED mail
    BY <1>1 DEF ClosesStdin, Kills
  <2> QED BY <1>0, <2>1, <2>2, RememberedSame
<1>2. CASE Drains(p)
  <2> SUFFICES ASSUME NEW id \in Ids, Open(id)' PROVE Kept(id)' \/ Late(id)'
    BY DEF Remembered
  <2>1. /\ ProcKeeps(p, {"pending", "fail"})
        /\ mail' = [i \in Ids |-> IF i \in proc[p].pending /\ ReceiverAlive(i)
                                  THEN Append(mail[i], "failed") ELSE mail[i]]
    BY <1>2 DEF Drains
  <2>2. mail'[id] = IF id \in proc[p].pending /\ ReceiverAlive(id)
                    THEN Append(mail[id], "failed") ELSE mail[id]
    BY <2>1
  <2>3. at'[id] = at[id] /\ (Kept(id) \/ Late(id)) /\ ReceiverAlive(id) /\ mail[id] \in Seq(Messages)
    BY <1>0, SameCalls DEF Remembered, Open, TypeInv, Typed
  <2>4. CASE Completed(id) \/ InTable(id, p)
    <3>1. Has(mail[id]) \/ id \in proc[p].pending
      BY <2>4 DEF Completed, InTable
    <3>2. Has(Append(mail[id], "failed")) <=> Has(mail[id]) \/ "failed" \in Results
      BY <2>3, AppendHas
    <3>3. Has(mail'[id])
      BY <2>2, <2>3, <3>1, <3>2, StepNames
    <3> QED BY <3>3 DEF Kept, Completed
  <2>5. ASSUME NEW q \in Processes, InHand(id, q) PROVE Kept(id)'
    BY <1>0, <2>5 DEF Kept, InHand
  <2>6. ASSUME NEW q \in Processes, q # p, at[id] = q, Undrained(id, q) PROVE Kept(id)'
    <3>1. proc'[q] = proc[q]
      BY <2>1, <2>6 DEF ProcKeeps
    <3> QED BY <2>3, <2>6, <3>1 DEF Kept, Undrained, InTable
  <2>7. CASE Late(id)
    <3>1. \A q \in Processes : proc'[q].stdin => proc[q].stdin
      BY <2>1 DEF ProcKeeps
    <3> QED BY <1>0, <2>7, <3>1, LateOther
  <2> QED BY <2>3, <2>4, <2>5, <2>6, <2>7 DEF Kept, Undrained
<1> QED BY <1>0, <1>1, <1>2

(* The reader completes what it takes out of the table, and gives up only   *)
(* what nobody waits for.                                                   *)
LEMMA RememberedReader ==
  ASSUME TypeInv, Remembered, NEW p \in Processes, ReaderStep(p)
  PROVE  Remembered'
<1> SUFFICES ASSUME NEW id \in Ids, Open(id)' PROVE Kept(id)' \/ Late(id)'
  BY DEF Remembered
<1>0. /\ UNCHANGED <<call, at>>
      /\ Takes(p) \/ (\E m \in Messages : Sends(p, m)) \/ Drops(p) \/ GivesUp(p)
  BY ReaderDoes
<1>1. /\ at'[id] = at[id] /\ (Kept(id) \/ Late(id)) /\ ReceiverAlive(id)
      /\ mail \in [Ids -> Seq(Messages)]
  BY <1>0, SameCalls DEF Remembered, Open, TypeInv, Typed
<1>2. \/ UNCHANGED proc
      \/ ProcKeeps(p, {"pending"})
      \/ ProcKeeps(p, {"fail"}) /\ Failure(p, "reader")
  BY <1>0 DEF Takes, Sends, Drops, GivesUp
<1>3. \A q \in Processes : ProcStays(q)
  BY <1>2 DEF ProcKeeps, Failure, ProcStays
<1>4. CASE Late(id)
  <2>1. Late(id)'
    BY <1>0, <1>3, <1>4, LateOther DEF ProcStays
  <2> QED BY <2>1
<1>5. CASE Completed(id)
  <2>1. mail'[id] = mail[id] \/ \E m \in Messages : mail'[id] = Append(mail[id], m)
    BY <1>0, <1>1 DEF Takes, Sends, Drops, GivesUp
  <2>2. \A m \in Messages : Has(mail[id]) => Has(Append(mail[id], m))
    BY <1>1, AppendHas
  <2> QED BY <1>5, <2>1, <2>2 DEF Kept, Completed
<1>6. ASSUME NEW q \in Processes, InHand(id, q) PROVE Kept(id)'
  <2>1. CASE q # p
    <3>1. \A pc \in {"read", "deliver", "queue", "stopped"}, held \in {None, NextLine(p)} :
            Reads(p, pc, held) => reader'[q] = reader[q]
      BY <2>1 DEF Reads, TypeInv, Typed
    <3>2. \E pc \in {"read", "deliver", "queue", "stopped"}, held \in {None, NextLine(p)} : Reads(p, pc, held)
      BY <1>0 DEF Takes, Sends, Drops, GivesUp
    <3>3. InHand(id, q)'
      BY <1>6, <3>1, <3>2 DEF InHand
    <3> QED BY <3>3 DEF Kept
  <2>2. CASE q = p
    <3>1. reader[p].pc = "deliver" /\ reader[p].held.id = id
      BY <1>6, <2>2 DEF InHand
    <3>2. PICK m \in Messages : Sends(p, m)
      BY <1>0, <1>1, <3>1 DEF Takes, Drops, GivesUp
    <3>3. mail' = [mail EXCEPT ![id] = Append(@, m)] /\ m = reader[p].held.what
      BY <3>1, <3>2 DEF Sends
    <3>4. m \in Results
      <4>1. reader[p].held \in Line /\ reader[p].held.kind = "result"
        BY <3>1 DEF TypeInv, Placed
      <4> QED BY <3>3, <4>1, LineType DEF Results
    <3>5. mail'[id] = Append(mail[id], m) /\ mail[id] \in Seq(Messages)
      BY <1>1, <3>3
    <3>6. Has(mail'[id])
      BY <3>4, <3>5, AppendHas
    <3> QED BY <3>6 DEF Kept, Completed
  <2> QED BY <2>1, <2>2
<1>7. ASSUME NEW q \in Processes, at[id] = q, Undrained(id, q) PROVE Kept(id)'
  <2>1. CASE InTable(id, q)'
    BY <1>1, <1>3, <1>7, <2>1 DEF Kept, Undrained, ProcStays
  <2>2. CASE ~InTable(id, q)'
    <3>1. q = p /\ Takes(p) /\ NextLine(p).kind = "result" /\ id = NextLine(p).id
      BY <1>0, <1>7, <2>2 DEF Takes, Sends, Drops, GivesUp, ProcKeeps, Undrained, InTable
    <3>2. Reads(p, "deliver", NextLine(p)) /\ child[p].out # <<>>
      BY <3>1 DEF Takes
    <3>3. NextLine(p) \in Line
      BY <3>2, NextLineType
    <3>4. reader'[p].pc = "deliver" /\ reader'[p].held = NextLine(p)
      BY <3>2, <3>3, ReadsType
    <3> QED BY <3>1, <3>4 DEF Kept, InHand
  <2> QED BY <2>1, <2>2
<1> QED BY <1>1, <1>4, <1>5, <1>6, <1>7 DEF Kept

(* No request is forgotten, whoever takes the step.                        *)
LEMMA RememberedStep == TypeInv /\ StdinHeld /\ Remembered /\ [Next]_vars => Remembered'
<1> SUFFICES ASSUME TypeInv, StdinHeld, Remembered, [Next]_vars PROVE Remembered'
  OBVIOUS
<1>1. CASE UNCHANGED vars
  <2>1. \A p \in Processes : ProcStays(p) /\ proc'[p].pending = proc[p].pending
    BY <1>1 DEF vars, ProcStays
  <2> QED BY <1>1, <2>1, RememberedSame DEF vars
<1>2. ASSUME NEW c \in Calls, Starts(c) \/ CallStep(c) PROVE Remembered'
  BY <1>2, RememberedCalls
<1>3. ASSUME NEW p \in Processes, Fail(p) \/ ReaderStep(p) \/ ChildStep(p) PROVE Remembered'
  <2>1. CASE ChildStep(p)
    <3>1. UNCHANGED <<call, at, mail, reader, proc>>
      BY <2>1, ChildDoes
    <3>2. \A q \in Processes : ProcStays(q) /\ proc'[q].pending = proc[q].pending
      BY <3>1 DEF ProcStays
    <3> QED BY <3>1, <3>2, RememberedSame
  <2> QED BY <1>3, <2>1, RememberedFail, RememberedReader
<1>4. CASE Close \/ CloserStep
  <2>1. /\ UNCHANGED <<call, at, mail, reader>> /\ (Begins \/ Empties \/ Waits \/ Finishes)
    BY <1>4, CloserDoes
  <2>2. \A q \in Processes : ProcStays(q) /\ proc'[q].pending = proc[q].pending
    BY <2>1 DEF Begins, Empties, Waits, Finishes, ProcKeeps, Failure, ProcStays
  <2> QED BY <2>1, <2>2, RememberedSame
<1> QED BY <1>1, <1>2, <1>3, <1>4 DEF Next

-----------------------------------------------------------------------------
(* How many messages of a kind a channel holds.                             *)
LEMMA CountNone ==
  ASSUME NEW T, NEW s \in Seq(T), NEW S
  PROVE  /\ IsFiniteSet({i \in DOMAIN s : s[i] \in S}) /\ Count(s, S) \in Nat
         /\ Count(s, S) = 0 <=> \A i \in DOMAIN s : s[i] \notin S
<1> DEFINE D == {i \in DOMAIN s : s[i] \in S}
<1>1. Len(s) \in Nat /\ DOMAIN s = 1 .. Len(s)
  OBVIOUS
<1>2. IsFiniteSet(1 .. Len(s)) /\ D \subseteq 1 .. Len(s)
  BY <1>1, FS_Interval
<1>3. IsFiniteSet(D)
  BY <1>2, FS_Subset
<1>4. Cardinality(D) \in Nat /\ (Cardinality(D) = 0 <=> D = {})
  BY <1>3, FS_CardinalityType, FS_EmptySet
<1> QED BY <1>3, <1>4 DEF Count

(* A channel with one completion at most.                                   *)
LEMMA OnceCount ==
  ASSUME NEW s \in Seq(Messages), Once(s)
  PROVE  Count(s, Results) <= 1 /\ (Has(s) <=> Count(s, Results) # 0)
<1> DEFINE D == {i \in DOMAIN s : s[i] \in Results}
<1>1. IsFiniteSet(D) /\ Cardinality(D) \in Nat /\ (Cardinality(D) = 0 <=> D = {})
  BY CountNone, FS_CardinalityType, FS_EmptySet DEF Count
<1>2. Has(s) <=> D # {}
  BY DEF Has
<1>3. CASE D = {}
  BY <1>1, <1>2, <1>3 DEF Count
<1>4. ASSUME NEW i \in D PROVE Cardinality(D) = 1
  <2>1. D = {i}
    BY DEF Once
  <2> QED BY <2>1, FS_Singleton
<1>5. CASE D # {}
  BY <1>1, <1>2, <1>4, <1>5 DEF Count
<1> QED BY <1>3, <1>5

(* Initially there is no request.                                          *)
LEMMA AnsweredInit == Init => Tokens /\ StdinHeld /\ Remembered
<1> SUFFICES ASSUME Init PROVE Tokens /\ StdinHeld /\ Remembered
  OBVIOUS
<1>1. /\ \A c \in Calls : call[c].pc = "idle" /\ call[c].stage = "call"
      /\ \A p \in Processes : /\ proc[p].pending = {} /\ reader[p].pc = "read"
                              /\ proc[p].fail = "no"
      /\ \A id \in Ids : mail[id] = <<>>
  BY DEF Init
<1>2. ASSUME NEW id \in Ids PROVE ~Open(id) /\ ~Completed(id) /\ Once(mail[id])
  <2>1. Fresh(id)
    BY <1>1, TwoIds DEF Fresh, Early
  <2> QED BY <1>1, <2>1, EmptyHas DEF Open, Completed
<1>3. Tokens
  BY <1>1, <1>2 DEF Tokens, InTable, InHand
<1>4. StdinHeld
  BY <1>1 DEF StdinHeld
<1>5. Remembered
  BY <1>2 DEF Remembered
<1> QED BY <1>3, <1>4, <1>5

(* Every request that is waited for is answered, and answered once: by the  *)
(* reader or by the thread that fails the process, whoever takes it out of  *)
(* the table, and by the caller itself when it cannot write it.             *)
THEOREM RequestsAreAnswered == Spec => []AnsweredOnce
<1> DEFINE I == TypeInv /\ Unborn /\ Tokens /\ StdinHeld /\ Remembered
<1>1. Init => I
  BY BackendInit, AnsweredInit
<1>2. I /\ [Next]_vars => I'
  BY TypeStep, UnbornStep, TokensStep, StdinStep, RememberedStep
<1>3. I => AnsweredOnce
  <2> SUFFICES ASSUME TypeInv, Tokens, Remembered PROVE NeverForgotten /\ CompletedOnce
    BY DEF AnsweredOnce
  <2>1. ASSUME NEW id \in Ids
        PROVE  /\ Completions(id) <= 1 /\ (Completed(id) <=> Completions(id) # 0)
               /\ Held(id) <=> \E p \in Processes : InHand(id, p)
    <3>1. mail[id] \in Seq(Messages) /\ Once(mail[id])
      BY DEF TypeInv, Typed, Tokens
    <3>2. Count(mail[id], Results) <= 1 /\ (Has(mail[id]) <=> Count(mail[id], Results) # 0)
      BY <3>1, OnceCount
    <3> QED BY <3>2 DEF Completions, Completed, Held, InHand, Results
  <2>2. ASSUME NEW c \in Calls, Waiting(c), Completions(Id(c)) = 0, ~Held(Id(c))
        PROVE  Id(c) \in proc[at[Id(c)]].pending /\ proc[at[Id(c)]].fail \in {"no", "stdin", "drain"}
    <3>1. Id(c) \in Ids /\ Id(c)[1] = c /\ Id(c)[2] = call[c].stage /\ call[c].stage \in {"call", "cancel"}
      BY IdType DEF CallState
    <3>2. Open(Id(c)) /\ ~Late(Id(c))
      BY <2>2, <3>1 DEF Waiting, Open, Fresh, ReceiverAlive, Late, Early, Locking
    <3>3. Kept(Id(c)) /\ ~Completed(Id(c)) /\ \A p \in Processes : ~InHand(Id(c), p)
      BY <2>1, <2>2, <3>1, <3>2 DEF Remembered
    <3> QED BY <3>3 DEF Kept, Undrained, InTable
  <2>3. CompletedOnce
    <3> SUFFICES ASSUME NEW id \in Ids
                 PROVE  /\ Completions(id) <= 1
                        /\ Held(id) \/ (\E p \in Processes : id \in proc[p].pending) =>
                             Completions(id) = 0
                        /\ ~(Held(id) /\ \E p \in Processes : id \in proc[p].pending)
      BY DEF CompletedOnce
    <3>1. \A p \in Processes : InTable(id, p) \/ InHand(id, p) => at[id] = p /\ ~Completed(id)
      BY DEF Tokens
    <3>2. \A p \in Processes : ~(InTable(id, p) /\ InHand(id, p))
      BY DEF Tokens
    <3>3. ~(Held(id) /\ \E p \in Processes : id \in proc[p].pending)
      BY <2>1, <3>1, <3>2 DEF InTable
    <3> QED BY <2>1, <3>1, <3>3 DEF InTable
  <2> QED BY <2>2, <2>3 DEF NeverForgotten
<1> HIDE DEF I
<1>4. Spec => []I
  BY <1>1, <1>2, PTL DEF Spec
<1> QED BY <1>3, <1>4, PTL

-----------------------------------------------------------------------------
(* Messages are counted one by one.                                         *)
LEMMA CountAppend ==
  ASSUME NEW T, NEW s \in Seq(T), NEW m, NEW S
  PROVE  Count(Append(s, m), S) = IF m \in S THEN Count(s, S) + 1 ELSE Count(s, S)
<1> DEFINE D == {i \in DOMAIN s : s[i] \in S}
           E == {i \in DOMAIN Append(s, m) : Append(s, m)[i] \in S}
           n == Len(s) + 1
<1>1. /\ Len(s) \in Nat /\ DOMAIN s = 1 .. Len(s) /\ DOMAIN Append(s, m) = 1 .. n
      /\ Append(s, m)[n] = m /\ \A i \in 1 .. Len(s) : Append(s, m)[i] = s[i]
  OBVIOUS
<1>2. /\ \A i \in 1 .. n : i \in 1 .. Len(s) \/ i = n
      /\ 1 .. Len(s) \subseteq 1 .. n /\ n \in 1 .. n /\ n \notin 1 .. Len(s)
  BY <1>1
<1>3. E = IF m \in S THEN D \cup {n} ELSE D
  BY <1>1, <1>2
<1>4. IsFiniteSet(D) /\ n \notin D
  BY <1>1, <1>2, CountNone
<1> HIDE DEF D, E, n
<1>5. Cardinality(D \cup {n}) = Cardinality(D) + 1
  BY <1>4, FS_AddElement
<1>6. Cardinality(E) = IF m \in S THEN Cardinality(D) + 1 ELSE Cardinality(D)
  BY <1>3, <1>5
<1> QED BY <1>6 DEF Count, D, E

(* Receiving a message takes one away.                                     *)
LEMMA CountTail ==
  ASSUME NEW T, NEW s \in Seq(T), s # <<>>, NEW S
  PROVE  Count(s, S) = IF Head(s) \in S THEN Count(Tail(s), S) + 1 ELSE Count(Tail(s), S)
<1> DEFINE D == {i \in DOMAIN s : s[i] \in S}
           E == {i \in DOMAIN Tail(s) : Tail(s)[i] \in S}
           f == [i \in E |-> i + 1]
<1>1. /\ Len(s) \in Nat /\ DOMAIN s = 1 .. Len(s) /\ Len(s) > 0 /\ s[1] = Head(s)
      /\ DOMAIN Tail(s) = 1 .. Len(s) - 1 /\ \A i \in 1 .. Len(s) - 1 : Tail(s)[i] = s[i + 1]
      /\ Tail(s) \in Seq(T)
  OBVIOUS
<1>2. /\ \A i \in 1 .. Len(s) - 1 : i + 1 \in 1 .. Len(s) /\ i + 1 # 1
      /\ \A i \in 1 .. Len(s) : i # 1 => i - 1 \in 1 .. Len(s) - 1 /\ (i - 1) + 1 = i
      /\ \A i, j \in 1 .. Len(s) - 1 : i + 1 = j + 1 => i = j
  BY <1>1
<1>3. IsFiniteSet(E) /\ IsFiniteSet(D) /\ Cardinality(E) \in Nat
  BY <1>1, CountNone, FS_CardinalityType
<1>4. f \in Bijection(E, D \ {1})
  <2>1. \A i \in E : i \in 1 .. Len(s) - 1 /\ i + 1 \in D \ {1}
    BY <1>1, <1>2
  <2>2. \A i \in D \ {1} : i - 1 \in E /\ (i - 1) + 1 = i
    BY <1>1, <1>2
  <2> HIDE DEF D, E
  <2>3. f \in [E -> D \ {1}]
    BY <2>1
  <2>4. \A i, j \in E : f[i] = f[j] => i = j
    BY <1>2, <2>1
  <2>5. \A i \in D \ {1} : \E j \in E : f[j] = i
    BY <2>2
  <2> HIDE DEF f
  <2>6. f \in Injection(E, D \ {1})
    BY <2>3, <2>4 DEF Injection, IsInjective
  <2>7. f \in Surjection(E, D \ {1})
    BY <2>3, <2>5 DEF Surjection
  <2> QED BY <2>6, <2>7 DEF Bijection
<1>5. 1 \in D <=> Head(s) \in S
  BY <1>1
<1> HIDE DEF D, E, f
<1>6. Cardinality(E) = Cardinality(D \ {1})
  BY <1>3, <1>4, FS_Bijection DEF ExistsBijection
<1>7. Cardinality(D) \in Nat
        /\ Cardinality(D \ {1}) = IF 1 \in D THEN Cardinality(D) - 1 ELSE Cardinality(D)
  BY <1>3, FS_RemoveElement, FS_CardinalityType
<1>8. Cardinality(D) = IF Head(s) \in S THEN Cardinality(E) + 1 ELSE Cardinality(E)
  BY <1>3, <1>5, <1>6, <1>7
<1> QED BY <1>8 DEF Count, D, E

(* An empty channel holds none.                                            *)
LEMMA CountEmpty == ASSUME NEW S PROVE Count(<<>>, S) = 0
<1>1. <<>> \in Seq(Messages) /\ DOMAIN <<>> = {}
  OBVIOUS
<1> QED BY <1>1, CountNone

-----------------------------------------------------------------------------
(* Steps that add nothing to a table or a queue.                            *)
Shorter(id) ==
  \A kind \in {"progress", "control"} : Count(mail'[id], {kind}) <= Count(mail[id], {kind})

(* An emptied channel, one a message was taken from and one that failed    *)
(* hold no more events.                                                    *)
LEMMA ShorterType ==
  ASSUME TypeInv, NEW id \in Ids
  PROVE  /\ mail[id] \in Seq(Messages) /\ \A S : Count(mail[id], S) \in Nat
         /\ mail'[id] = mail[id] \/ mail'[id] = <<>> \/ mail'[id] = Append(mail[id], "failed")
              \/ (mail[id] # <<>> /\ mail'[id] = Tail(mail[id])) => Shorter(id)
<1>1. mail[id] \in Seq(Messages)
  BY DEF TypeInv, Typed
<1>2. \A S : Count(mail[id], S) \in Nat
  BY <1>1, CountNone
<1>3. CASE mail'[id] = mail[id]
  BY <1>1, <1>2, <1>3 DEF Shorter
<1>4. CASE mail'[id] = <<>>
  BY <1>1, <1>2, <1>4, CountEmpty DEF Shorter
<1>5. CASE mail'[id] = Append(mail[id], "failed")
  <2>1. ASSUME NEW kind \in {"progress", "control"}
        PROVE  Count(Append(mail[id], "failed"), {kind}) = Count(mail[id], {kind})
    BY <1>1, CountAppend
  <2> QED BY <1>1, <1>2, <1>5, <2>1 DEF Shorter
<1>6. CASE mail[id] # <<>> /\ mail'[id] = Tail(mail[id])
  <2>1. ASSUME NEW kind \in {"progress", "control"}
        PROVE  Count(Tail(mail[id]), {kind}) <= Count(mail[id], {kind})
    <3>1. Tail(mail[id]) \in Seq(Messages)
      BY <1>1, <1>6
    <3>2. Count(Tail(mail[id]), {kind}) \in Nat
      BY <3>1, CountNone
    <3> QED BY <1>1, <1>6, <3>2, CountTail
  <2> QED BY <1>1, <1>2, <1>6, <2>1 DEF Shorter
<1> QED BY <1>1, <1>2, <1>3, <1>4, <1>5, <1>6

(* Steps that add nothing to a table or a queue keep the bounds.           *)
LEMMA BoundedKept ==
  ASSUME TypeInv, QueuesBounded,
         \A p \in Processes : proc'[p].pending \subseteq proc[p].pending,
         \A id \in Ids : Shorter(id) /\ \A S : Count(mail'[id], S) \in Nat
  PROVE  QueuesBounded'
<1>1. ASSUME NEW p \in Processes PROVE Cardinality(proc'[p].pending) <= MaxPending
  <2>1. IsFiniteSet(proc[p].pending) /\ Cardinality(proc[p].pending) \in Nat
    <3>1. proc[p].pending \subseteq Ids
      BY DEF TypeInv, Typed, ProcState
    <3>2. IsFiniteSet(proc[p].pending)
      BY <3>1, IdsFinite, FS_Subset
    <3> QED BY <3>2, FS_CardinalityType
  <2>2. IsFiniteSet(proc'[p].pending) /\ Cardinality(proc'[p].pending) <= Cardinality(proc[p].pending)
    BY <2>1, FS_Subset
  <2>3. Cardinality(proc'[p].pending) \in Nat
    BY <2>2, FS_CardinalityType
  <2>4. Cardinality(proc[p].pending) <= MaxPending /\ MaxPending \in Nat
    BY ClientAssumption DEF QueuesBounded
  <2> QED BY <2>1, <2>2, <2>3, <2>4
<1>2. ASSUME NEW id \in Ids
      PROVE  Queued(id, "progress")' <= ProgressBudget /\ Queued(id, "control")' <= ControlBudget
  <2>1. /\ Count(mail[id], {"progress"}) <= ProgressBudget /\ Count(mail[id], {"control"}) <= ControlBudget
        /\ ProgressBudget \in Nat /\ ControlBudget \in Nat
    BY ClientAssumption DEF QueuesBounded, Queued
  <2>2. \A kind \in {"progress", "control"} :
          /\ Count(mail[id], {kind}) \in Nat /\ Count(mail'[id], {kind}) \in Nat
          /\ Count(mail'[id], {kind}) <= Count(mail[id], {kind})
    BY ShorterType DEF Shorter
  <2> QED BY <2>1, <2>2 DEF Queued
<1> QED BY <1>1, <1>2 DEF QueuesBounded

(* A table grows by one entry at most.                                      *)
LEMMA OneMore ==
  ASSUME NEW S, NEW x, IsFiniteSet(S)
  PROVE  IsFiniteSet(S \cup {x}) /\ Cardinality(S \cup {x}) <= Cardinality(S) + 1
<1>1. /\ IsFiniteSet(S \cup {x})
      /\ Cardinality(S \cup {x}) = IF x \in S THEN Cardinality(S) ELSE Cardinality(S) + 1
  BY FS_AddElement
<1>2. Cardinality(S) \in Nat
  BY FS_CardinalityType
<1>3. CASE x \in S
  BY <1>1, <1>2, <1>3
<1>4. CASE x \notin S
  BY <1>1, <1>2, <1>4
<1> QED BY <1>3, <1>4

(* A request is registered while the table has room.                        *)
LEMMA BoundedCalls ==
  ASSUME TypeInv, QueuesBounded, NEW c \in Calls, Starts(c) \/ CallStep(c)
  PROVE  QueuesBounded'
<1>0. /\ Id(c) \in Ids /\ mail \in [Ids -> Seq(Messages)] /\ mail' \in [Ids -> Seq(Messages)]
      /\ call[c].pc \notin Unplaced => at[Id(c)] \in Processes
  <2>1. TypeInv'
    BY TypeStep DEF Next
  <2> QED BY <2>1, IdType DEF TypeInv, Typed
<1>1. \A id \in Ids : Shorter(id) /\ \A S : Count(mail'[id], S) \in Nat
  <2> SUFFICES ASSUME NEW id \in Ids PROVE Shorter(id)
    BY <1>0, CountNone
  <2>1. CASE Abandons(c) \/ Leaves(c)
    <3>1. \E outcome \in Results : Return(c, outcome)
      BY <2>1, StepNames DEF Abandons, Leaves
    <3>2. mail' = [mail EXCEPT ![Id(c)] = <<>>]
      BY <3>1, ReturnType
    <3>3. mail'[id] = mail[id] \/ mail'[id] = <<>>
      BY <1>0, <3>2
    <3> QED BY <3>3, ShorterType
  <2>2. CASE Gets(c)
    <3>1. mail[Id(c)] # <<>> /\ mail' = [mail EXCEPT ![Id(c)] = Tail(@)]
      BY <2>2 DEF Gets
    <3>2. mail'[id] = mail[id] \/ (mail[id] # <<>> /\ mail'[id] = Tail(mail[id]))
      BY <1>0, <3>1
    <3> QED BY <3>2, ShorterType
  <2>3. CASE UNCHANGED mail
    <3>1. mail'[id] = mail[id]
      BY <2>3
    <3> QED BY <3>1, ShorterType
  <2> QED BY <2>1, <2>2, <2>3, CallDoes
          DEF Walks, Replaces, Terminates, Reaps, Spawns, Registers, Locks, Writes, Cancels, Goto
<1>2. CASE Registers(c)
  <2> DEFINE p == at[Id(c)]
  <2>1. /\ ProcKeeps(p, {"pending"}) /\ proc'[p].pending = proc[p].pending \cup {Id(c)}
        /\ Cardinality(proc[p].pending) < MaxPending /\ call[c].pc \notin Unplaced
    BY <1>2 DEF Registers, Unplaced
  <2>2. p \in Processes
    BY <1>0, <2>1
  <2> HIDE DEF p
  <2>3. IsFiniteSet(proc[p].pending) /\ Cardinality(proc[p].pending) \in Nat
    <3>1. proc[p].pending \subseteq Ids
      BY <2>2 DEF TypeInv, Typed, ProcState
    <3>2. IsFiniteSet(proc[p].pending)
      BY <3>1, IdsFinite, FS_Subset
    <3> QED BY <3>2, FS_CardinalityType
  <2>4. Cardinality(proc'[p].pending) <= MaxPending
    <3>1. Cardinality(proc[p].pending \cup {Id(c)}) <= Cardinality(proc[p].pending) + 1
      BY <2>3, OneMore
    <3>2. IsFiniteSet(proc[p].pending \cup {Id(c)})
      BY <2>3, OneMore
    <3>3. Cardinality(proc[p].pending \cup {Id(c)}) \in Nat /\ MaxPending \in Nat
      BY <3>2, FS_CardinalityType, ClientAssumption
    <3> QED BY <2>1, <2>3, <3>1, <3>3
  <2>5. \A q \in Processes : Cardinality(proc'[q].pending) <= MaxPending
    BY <2>1, <2>4 DEF ProcKeeps, QueuesBounded
  <2>6. UNCHANGED mail
    BY <1>2 DEF Registers, Goto
  <2> QED BY <2>5, <2>6 DEF QueuesBounded, Queued
<1>3. CASE ~Registers(c)
  <2>1. UNCHANGED proc \/ \E q \in Processes : ProcKeeps(q, {"closing", "stdin", "lock", "fail"})
    <3>1. CASE Walks(c) \/ Reaps(c) \/ Cancels(c) \/ Gets(c) \/ Leaves(c)
      BY <3>1 DEF Walks, Reaps, Cancels, Gets, Leaves
    <3>2. CASE Replaces(c) \/ Spawns(c)
      BY <3>2 DEF Replaces, Spawns, ProcKeeps
    <3>3. CASE Terminates(c) \/ Locks(c) \/ Writes(c) \/ Abandons(c)
      <4>1. /\ ProcKeeps(at[Id(c)], {"closing", "stdin", "lock", "fail"})
            /\ call[c].pc \notin Unplaced
        BY <3>3 DEF Terminates, Locks, Writes, Abandons, ProcKeeps, Unplaced
      <4> QED BY <1>0, <4>1
    <3> QED BY <1>3, <3>1, <3>2, <3>3, CallDoes, Zenon
  <2>2. \A p \in Processes : proc'[p].pending \subseteq proc[p].pending
    BY <2>1 DEF ProcKeeps
  <2> QED BY <1>1, <2>2, BoundedKept
<1> QED BY <1>2, <1>3

(* An event is queued while its budget has room.                            *)
LEMMA BoundedReader ==
  ASSUME TypeInv, QueuesBounded, NEW p \in Processes, ReaderStep(p)
  PROVE  QueuesBounded'
<1>0. /\ Takes(p) \/ (\E m \in Messages : Sends(p, m)) \/ Drops(p) \/ GivesUp(p)
      /\ mail \in [Ids -> Seq(Messages)] /\ mail' \in [Ids -> Seq(Messages)]
  <2>1. TypeInv'
    BY TypeStep DEF Next
  <2> QED BY <2>1, ReaderDoes DEF TypeInv, Typed
<1>1. \A q \in Processes : proc'[q].pending \subseteq proc[q].pending
  BY <1>0 DEF Takes, Sends, Drops, GivesUp, ProcKeeps
<1>2. CASE UNCHANGED mail
  <2>1. \A id \in Ids : mail'[id] = mail[id]
    BY <1>2
  <2>2. \A id \in Ids : Shorter(id) /\ \A S : Count(mail'[id], S) \in Nat
    BY <1>0, <2>1, ShorterType, CountNone
  <2> QED BY <1>1, <2>2, BoundedKept
<1>3. ASSUME NEW m \in Messages, Sends(p, m) PROVE QueuesBounded'
  <2> DEFINE h == reader[p].held.id
  <2>1. /\ mail' = [mail EXCEPT ![h] = Append(@, m)] /\ UNCHANGED proc
        /\ reader[p].pc = "deliver" \/ (reader[p].pc = "queue" /\ ~Full(h, m))
    BY <1>3 DEF Sends
  <2>2. m \in {"progress", "control"} => ~Full(h, m)
    <3>1. reader[p].pc = "deliver" => m \in Results
      BY <1>3, LineType DEF Sends, TypeInv, Placed, Results
    <3> QED BY <2>1, <3>1 DEF Results
  <2>3. h \in Ids
    BY <1>3, LineType DEF Sends, TypeInv, Placed
  <2> HIDE DEF h
  <2>4. \A id \in Ids : mail'[id] = IF id = h THEN Append(mail[h], m) ELSE mail[id]
    BY <1>0, <2>1, <2>3
  <2>5. ASSUME NEW id \in Ids
        PROVE  Queued(id, "progress")' <= ProgressBudget /\ Queued(id, "control")' <= ControlBudget
    <3>1. /\ Queued(id, "progress") <= ProgressBudget /\ Queued(id, "control") <= ControlBudget
          /\ Queued(id, "progress") \in Nat /\ Queued(id, "control") \in Nat
          /\ ProgressBudget \in Nat /\ ControlBudget \in Nat
      BY <1>0, CountNone, ClientAssumption DEF QueuesBounded, Queued
    <3>2. CASE id # h
      BY <2>4, <3>1, <3>2 DEF Queued
    <3>3. CASE id = h
      <4>1. \A kind \in {"progress", "control"} :
              Queued(id, kind)' = IF m = kind THEN Queued(id, kind) + 1 ELSE Queued(id, kind)
        <5> SUFFICES ASSUME NEW kind \in {"progress", "control"}
                     PROVE Queued(id, kind)' = IF m = kind THEN Queued(id, kind) + 1 ELSE Queued(id, kind)
          OBVIOUS
        <5>1. Count(Append(mail[h], m), {kind})
                = IF m \in {kind} THEN Count(mail[h], {kind}) + 1 ELSE Count(mail[h], {kind})
          BY <1>0, <2>3, CountAppend
        <5>2. Count(mail'[id], {kind}) = IF m = kind THEN Count(mail[id], {kind}) + 1 ELSE Count(mail[id], {kind})
          BY <2>4, <3>3, <5>1
        <5> QED BY <5>2 DEF Queued
      <4>2. /\ m = "progress" => Queued(id, "progress") < ProgressBudget
            /\ m = "control" => Queued(id, "control") < ControlBudget
        BY <2>2, <3>1, <3>3 DEF Full
      <4> QED BY <3>1, <4>1, <4>2
    <3> QED BY <3>2, <3>3
  <2>6. \A q \in Processes : Cardinality(proc'[q].pending) <= MaxPending
    BY <2>1 DEF QueuesBounded
  <2> QED BY <2>5, <2>6 DEF QueuesBounded
<1> QED BY <1>0, <1>2, <1>3 DEF Takes, Drops, GivesUp

(* Tables and queues keep their bounds, whoever takes the step.            *)
LEMMA BoundedStep == TypeInv /\ QueuesBounded /\ [Next]_vars => QueuesBounded'
<1> SUFFICES ASSUME TypeInv, QueuesBounded, [Next]_vars PROVE QueuesBounded'
  OBVIOUS
<1>0. mail \in [Ids -> Seq(Messages)] /\ mail' \in [Ids -> Seq(Messages)]
  BY TypeStep DEF TypeInv, Typed
<1>1. ASSUME UNCHANGED mail, \A p \in Processes : proc'[p].pending = proc[p].pending
      PROVE  QueuesBounded'
  BY <1>1 DEF QueuesBounded, Queued
<1>2. ASSUME NEW c \in Calls, Starts(c) \/ CallStep(c) PROVE QueuesBounded'
  BY <1>2, BoundedCalls
<1>3. ASSUME NEW p \in Processes, Fail(p) \/ ReaderStep(p) \/ ChildStep(p) PROVE QueuesBounded'
  <2>1. CASE ChildStep(p)
    BY <1>1, <2>1, ChildDoes
  <2>2. CASE Fail(p)
    <3>1. ClosesStdin(p) \/ Drains(p) \/ Kills(p)
      BY <2>2, FailDoes
    <3>2. \A q \in Processes : proc'[q].pending \subseteq proc[q].pending
      BY <3>1 DEF ClosesStdin, Drains, Kills, ProcKeeps
    <3>3. \A id \in Ids : mail'[id] = mail[id] \/ mail'[id] = Append(mail[id], "failed")
      BY <3>1 DEF ClosesStdin, Drains, Kills
    <3>4. \A id \in Ids : Shorter(id) /\ \A S : Count(mail'[id], S) \in Nat
      BY <1>0, <3>3, ShorterType, CountNone
    <3> QED BY <3>2, <3>4, BoundedKept
  <2> QED BY <1>3, <2>1, <2>2, BoundedReader
<1>4. CASE Close \/ CloserStep
  <2>1. /\ UNCHANGED mail /\ (Begins \/ Empties \/ Waits \/ Finishes)
    BY <1>4, CloserDoes
  <2>2. \A p \in Processes : proc'[p].pending = proc[p].pending
    BY <2>1 DEF Begins, Empties, Waits, Finishes, ProcKeeps
  <2> QED BY <1>1, <2>1, <2>2
<1>5. CASE UNCHANGED vars
  BY <1>1, <1>5 DEF vars
<1> QED BY <1>2, <1>3, <1>4, <1>5 DEF Next

(* The table of requests and the queue of every caller keep their bounds,   *)
(* however many calls there are and events the child sends, and whoever     *)
(* stops reading.                                                           *)
THEOREM QueuesStayBounded == Spec => []QueuesBounded
<1>1. Init => QueuesBounded
  <2> SUFFICES ASSUME Init PROVE QueuesBounded
    OBVIOUS
  <2>1. \A p \in Processes : Cardinality(proc[p].pending) = 0
    BY FS_EmptySet DEF Init
  <2>2. \A id \in Ids : Queued(id, "progress") = 0 /\ Queued(id, "control") = 0
    BY CountEmpty DEF Init, Queued
  <2> QED BY <2>1, <2>2, ClientAssumption DEF QueuesBounded
<1>2. TypeInv /\ QueuesBounded /\ [Next]_vars => (TypeInv /\ QueuesBounded)'
  BY TypeStep, BoundedStep
<1> QED BY <1>1, <1>2, BackendInit, PTL DEF Spec
-----------------------------------------------------------------------------
(* Events.  What the child prints about a request: events, and one result.  *)
ControlLine(id) == [kind |-> "control", id |-> id]
ResultLines(id) == [kind : {"result"}, id : {id}, what : {"answer", "rejected"}]

(* Where the control events and the answer of a request are on their way.   *)
Request(c)     == <<c, "call">>
Wanted(id, p)  == id \in child[p].pipe \/ id \in child[p].inbox
Printed(id, p) == Count(child[p].out, {ControlLine(id)})
Ended(id, p)   == Count(child[p].out, ResultLines(id)) # 0
Carried(id, p) == IF reader[p].pc = "queue" /\ reader[p].held = ControlLine(id) THEN 1 ELSE 0
Given(id)      == Count(mail[id], {"answer"}) # 0

(* A request that the child cannot have; one of which nothing is to come.   *)
Unwritten(id) == Fresh(id) \/ (Id(id[1]) = id /\ call[id[1]].pc \in {"write", "writing"})
Told(id, p)   == ~Wanted(id, p) /\ Printed(id, p) = 0 /\ Carried(id, p) = 0

(* What is in B precedes, in s, what is in A.                               *)
Before(s, A, B) == \A i, j \in DOMAIN s : s[i] \in A /\ s[j] \in B => j < i

(* Only an operation has events, and it has no cancel of its own.           *)
OnlyOperations ==
  /\ \A c \in Calls : call[c].kind # "long" => call[c].stage = "call"
  /\ \A c \in Calls : call[c].kind # "operation" => sent[c] = 0 /\ seen[c] = 0
  /\ \A id \in Ids : call[id[1]].kind # "operation" => Queued(id, "control") = 0
  /\ \A p \in Processes : reader[p].pc = "queue" => call[reader[p].held.id[1]].kind = "operation"

(* A child has the requests that were written to it, in one place, and      *)
(* prints lines about these only, the result last.                          *)
HasAt(id, p) ==
  Wanted(id, p) =>
    /\ ~Unwritten(id) /\ at[id] = p
    /\ ~(id \in child[p].pipe /\ id \in child[p].inbox)
    /\ call[id[1]].kind = "operation" => id[2] = "call"

SaysAt(id, p) ==
  /\ Printed(id, p) # 0 \/ Carried(id, p) # 0 \/ Ended(id, p) => ~Unwritten(id) /\ at[id] = p
  /\ InHand(id, p) => ~Unwritten(id)
  /\ Ended(id, p) => ~Wanted(id, p)
  /\ Before(child[p].out, ResultLines(id), {ControlLine(id)})

(* The answer is the last a caller receives.                                *)
Latest(id) ==
  /\ Unwritten(id) => ~Given(id)
  /\ Before(mail[id], {"answer"}, {"control"})
  /\ Given(id) \/ (\E p \in Processes : InHand(id, p)) => \A p \in Processes : Told(id, p)

(* The control events of an operation: received, or in the channel, with    *)
(* the reader or printed, unless the reader stopped before the answer.      *)
Lost(id, p) == reader[p].pc = "stopped" /\ ~Given(id)
OnTheWay(id, p) == Queued(id, "control") + Carried(id, p) + Printed(id, p)
Tally(c) ==
  LET id == Request(c) IN
  /\ Unwritten(id) => sent[c] = seen[c] /\ Queued(id, "control") = 0
  /\ \A p \in Processes : at[id] = p /\ call[c].pc # "returned" =>
       Lost(id, p) \/ sent[c] = seen[c] + OnTheWay(id, p)
  /\ call[c].outcome = "answer" =>
       call[c].pc = "returned" /\ sent[c] = seen[c] /\ \A p \in Processes : ~Wanted(id, p)

Tallied ==
  /\ OnlyOperations
  /\ \A id \in Ids, p \in Processes : HasAt(id, p) /\ SaysAt(id, p)
  /\ \A id \in Ids : Latest(id)
  /\ \A c \in Calls : call[c].kind = "operation" => Tally(c)

-----------------------------------------------------------------------------
(* Order in a channel or a pipe.                                            *)
LEMMA BeforeAppend ==
  ASSUME NEW T, NEW s \in Seq(T), NEW m, NEW A, NEW B, A \cap B = {}, Before(s, A, B),
         m \in B => \A i \in DOMAIN s : s[i] \notin A
  PROVE  Before(Append(s, m), A, B)
<1>1. /\ Len(s) \in Nat /\ DOMAIN s = 1 .. Len(s) /\ DOMAIN Append(s, m) = 1 .. Len(s) + 1
      /\ Append(s, m)[Len(s) + 1] = m /\ \A i \in 1 .. Len(s) : Append(s, m)[i] = s[i]
  OBVIOUS
<1>2. \A i \in 1 .. Len(s) + 1 : i \in 1 .. Len(s) \/ i = Len(s) + 1
  BY <1>1
<1> SUFFICES ASSUME NEW i \in 1 .. Len(s) + 1, NEW j \in 1 .. Len(s) + 1,
                    Append(s, m)[i] \in A, Append(s, m)[j] \in B
             PROVE  j < i
  BY <1>1 DEF Before
<1>3. CASE i \in 1 .. Len(s) /\ j \in 1 .. Len(s)
  BY <1>1, <1>3 DEF Before
<1>4. CASE i = Len(s) + 1 /\ j \in 1 .. Len(s)
  BY <1>1, <1>4
<1>5. CASE j = Len(s) + 1
  BY <1>1, <1>2, <1>5
<1> QED BY <1>2, <1>3, <1>4, <1>5

(* It stays when the first is taken, and when that one is of A, no B is left. *)
LEMMA BeforeTail ==
  ASSUME NEW T, NEW s \in Seq(T), s # <<>>, NEW A, NEW B, Before(s, A, B)
  PROVE  /\ Before(Tail(s), A, B)
         /\ Head(s) \in A => \A j \in DOMAIN s : s[j] \notin B
<1>1. /\ Len(s) \in Nat /\ DOMAIN s = 1 .. Len(s) /\ Len(s) > 0 /\ s[1] = Head(s)
      /\ DOMAIN Tail(s) = 1 .. Len(s) - 1 /\ \A i \in 1 .. Len(s) - 1 : Tail(s)[i] = s[i + 1]
  OBVIOUS
<1>2. \A i \in 1 .. Len(s) - 1 : i + 1 \in 1 .. Len(s)
  BY <1>1
<1>3. ASSUME NEW i \in 1 .. Len(s) - 1, NEW j \in 1 .. Len(s) - 1,
             Tail(s)[i] \in A, Tail(s)[j] \in B
      PROVE  j < i
  <2>1. s[i + 1] \in A /\ s[j + 1] \in B /\ i + 1 \in 1 .. Len(s) /\ j + 1 \in 1 .. Len(s)
    BY <1>1, <1>2, <1>3
  <2>2. j + 1 < i + 1
    BY <1>1, <2>1 DEF Before
  <2> QED BY <2>2
<1>4. ASSUME Head(s) \in A, NEW j \in 1 .. Len(s), s[j] \in B PROVE FALSE
  <2>1. 1 \in 1 .. Len(s) /\ s[1] \in A
    BY <1>1, <1>4
  <2>2. j < 1
    BY <1>1, <1>4, <2>1 DEF Before
  <2> QED BY <2>2
<1> QED BY <1>1, <1>3, <1>4 DEF Before

(* Which lines are about a request.                                         *)
LEMMA LinesOf ==
  ASSUME NEW l \in Line, NEW id
  PROVE  /\ l = ControlLine(id) <=> l.kind = "control" /\ l.id = id
         /\ l \in ResultLines(id) <=> l.kind = "result" /\ l.id = id
         /\ ResultLines(id) \cap {ControlLine(id)} = {}
         /\ ControlLine(id).kind = "control" /\ ControlLine(id).id = id
<1>1. CASE l \in [kind : {"result"}, id : Ids, what : {"answer", "rejected"}]
  BY <1>1 DEF ControlLine, ResultLines
<1>2. CASE l \in [kind : {"progress", "control"}, id : Ids]
  BY <1>2 DEF ControlLine, ResultLines
<1>3. CASE l \in [kind : {"fatal", "bad"}]
  BY <1>3 DEF ControlLine, ResultLines
<1> QED BY <1>1, <1>2, <1>3 DEF Line

(* The lines in the pipe of a child.                                        *)
LEMMA OutType ==
  ASSUME TypeInv, NEW p \in Processes
  PROVE  /\ child[p].out \in Seq(Line) /\ \A S : Count(child[p].out, S) \in Nat
         /\ \A id : Printed(id, p) \in Nat /\ Carried(id, p) \in {0, 1}
         /\ \A id : ~Ended(id, p) => \A i \in DOMAIN child[p].out : child[p].out[i] \notin ResultLines(id)
<1>1. child[p].out \in Seq(Line)
  BY DEF TypeInv, Typed, ChildState
<1> QED BY <1>1, CountNone DEF Printed, Carried, Ended

LEMMA OutSame ==
  ASSUME NEW p \in Processes, NEW id, child'[p].out = child[p].out
  PROVE  /\ Printed(id, p)' = Printed(id, p) /\ (Ended(id, p)' <=> Ended(id, p))
         /\ Before(child'[p].out, ResultLines(id), {ControlLine(id)})
              <=> Before(child[p].out, ResultLines(id), {ControlLine(id)})
BY DEF Printed, Ended

(* A line is printed.                                                       *)
LEMMA OutAdded ==
  ASSUME TypeInv, NEW p \in Processes, NEW id, NEW l \in Line,
         child'[p].out = Append(child[p].out, l)
  PROVE  /\ Printed(id, p)' = IF l = ControlLine(id) THEN Printed(id, p) + 1 ELSE Printed(id, p)
         /\ Ended(id, p)' <=> Ended(id, p) \/ l \in ResultLines(id)
         /\ /\ Before(child[p].out, ResultLines(id), {ControlLine(id)})
            /\ l = ControlLine(id) => ~Ended(id, p)
            => Before(child'[p].out, ResultLines(id), {ControlLine(id)})
<1>1. /\ child[p].out \in Seq(Line) /\ Count(child[p].out, ResultLines(id)) \in Nat
      /\ ~Ended(id, p) => \A i \in DOMAIN child[p].out : child[p].out[i] \notin ResultLines(id)
  BY OutType
<1>2. \A S : Count(Append(child[p].out, l), S)
               = IF l \in S THEN Count(child[p].out, S) + 1 ELSE Count(child[p].out, S)
  BY <1>1, CountAppend
<1>3. Printed(id, p)' = IF l = ControlLine(id) THEN Printed(id, p) + 1 ELSE Printed(id, p)
  BY <1>2 DEF Printed
<1>4. Ended(id, p)' <=> Ended(id, p) \/ l \in ResultLines(id)
  BY <1>1, <1>2 DEF Ended
<1>5. ASSUME Before(child[p].out, ResultLines(id), {ControlLine(id)}),
             l = ControlLine(id) => ~Ended(id, p)
      PROVE  Before(child'[p].out, ResultLines(id), {ControlLine(id)})
  <2>1. ResultLines(id) \cap {ControlLine(id)} = {}
    BY LinesOf
  <2>2. l \in {ControlLine(id)} => \A i \in DOMAIN child[p].out : child[p].out[i] \notin ResultLines(id)
    BY <1>1, <1>5
  <2>3. Before(Append(child[p].out, l), ResultLines(id), {ControlLine(id)})
    BY <1>1, <1>5, <2>1, <2>2, BeforeAppend
  <2> QED BY <2>3
<1> QED BY <1>3, <1>4, <1>5

(* A line is read.                                                          *)
LEMMA OutTaken ==
  ASSUME TypeInv, NEW p \in Processes, NEW id, child[p].out # <<>>,
         child'[p].out = Tail(child[p].out)
  PROVE  /\ Printed(id, p)' \in Nat
         /\ Printed(id, p) = IF NextLine(p) = ControlLine(id) THEN Printed(id, p)' + 1
                                                              ELSE Printed(id, p)'
         /\ Ended(id, p)' => Ended(id, p)
         /\ NextLine(p) \in ResultLines(id) => Ended(id, p)
         /\ Before(child[p].out, ResultLines(id), {ControlLine(id)}) =>
              /\ Before(child'[p].out, ResultLines(id), {ControlLine(id)})
              /\ NextLine(p) \in ResultLines(id) => Printed(id, p) = 0
<1>1. /\ child[p].out \in Seq(Line) /\ Count(child[p].out, ResultLines(id)) \in Nat
      /\ Tail(child[p].out) \in Seq(Line)
  BY OutType, NextLineType
<1>2. \A S : /\ Count(Tail(child[p].out), S) \in Nat
             /\ Count(child[p].out, S) = IF NextLine(p) \in S THEN Count(Tail(child[p].out), S) + 1
                                                              ELSE Count(Tail(child[p].out), S)
  BY <1>1, CountTail, CountNone DEF NextLine
<1>3. /\ Printed(id, p)' \in Nat
      /\ Printed(id, p) = IF NextLine(p) = ControlLine(id) THEN Printed(id, p)' + 1 ELSE Printed(id, p)'
  BY <1>2 DEF Printed
<1>4. /\ Ended(id, p)' => Ended(id, p)
      /\ NextLine(p) \in ResultLines(id) => Ended(id, p)
  BY <1>1, <1>2 DEF Ended
<1>5. ASSUME Before(child[p].out, ResultLines(id), {ControlLine(id)})
      PROVE  /\ Before(child'[p].out, ResultLines(id), {ControlLine(id)})
             /\ NextLine(p) \in ResultLines(id) => Printed(id, p) = 0
  <2>1. /\ Before(Tail(child[p].out), ResultLines(id), {ControlLine(id)})
        /\ NextLine(p) \in ResultLines(id) =>
             \A j \in DOMAIN child[p].out : child[p].out[j] \notin {ControlLine(id)}
    BY <1>1, <1>5, BeforeTail DEF NextLine
  <2> QED BY <1>1, <2>1, CountNone DEF Printed
<1> QED BY <1>3, <1>4, <1>5

(* The messages in a channel.                                               *)
LEMMA MailType ==
  ASSUME TypeInv, NEW id \in Ids
  PROVE  /\ mail[id] \in Seq(Messages) /\ Queued(id, "control") \in Nat
         /\ Count(mail[id], {"answer"}) \in Nat
         /\ ~Given(id) => \A i \in DOMAIN mail[id] : mail[id][i] \notin {"answer"}
<1>1. mail[id] \in Seq(Messages)
  BY DEF TypeInv, Typed
<1> QED BY <1>1, CountNone DEF Queued, Given

(* Nothing, or a message that is sent.                                      *)
LEMMA MailSame ==
  ASSUME NEW id \in Ids, mail'[id] = mail[id]
  PROVE  /\ Queued(id, "control")' = Queued(id, "control") /\ (Given(id)' <=> Given(id))
         /\ Before(mail'[id], {"answer"}, {"control"}) <=> Before(mail[id], {"answer"}, {"control"})
BY DEF Queued, Given

LEMMA MailAdded ==
  ASSUME TypeInv, NEW id \in Ids, NEW m \in Messages, mail'[id] = Append(mail[id], m)
  PROVE  /\ Queued(id, "control")' = IF m = "control" THEN Queued(id, "control") + 1
                                                      ELSE Queued(id, "control")
         /\ Given(id)' <=> Given(id) \/ m = "answer"
         /\ Before(mail[id], {"answer"}, {"control"}) /\ (m = "control" => ~Given(id)) =>
              Before(mail'[id], {"answer"}, {"control"})
<1>1. /\ mail[id] \in Seq(Messages) /\ Count(mail[id], {"answer"}) \in Nat
      /\ ~Given(id) => \A i \in DOMAIN mail[id] : mail[id][i] \notin {"answer"}
  BY MailType
<1>2. \A S : Count(Append(mail[id], m), S) = IF m \in S THEN Count(mail[id], S) + 1 ELSE Count(mail[id], S)
  BY <1>1, CountAppend
<1>3. Queued(id, "control")' = IF m = "control" THEN Queued(id, "control") + 1 ELSE Queued(id, "control")
  BY <1>2 DEF Queued
<1>4. Given(id)' <=> Given(id) \/ m = "answer"
  BY <1>1, <1>2 DEF Given
<1>5. ASSUME Before(mail[id], {"answer"}, {"control"}), m = "control" => ~Given(id)
      PROVE  Before(mail'[id], {"answer"}, {"control"})
  <2>1. m \in {"control"} => \A i \in DOMAIN mail[id] : mail[id][i] \notin {"answer"}
    BY <1>1, <1>5
  <2>2. Before(Append(mail[id], m), {"answer"}, {"control"})
    BY <1>1, <1>5, <2>1, BeforeAppend
  <2> QED BY <2>2
<1> QED BY <1>3, <1>4, <1>5

(* A message is received.                                                   *)
LEMMA MailTaken ==
  ASSUME TypeInv, NEW id \in Ids, mail[id] # <<>>
  PROVE  /\ mail'[id] = Tail(mail[id]) =>
              /\ Queued(id, "control")' \in Nat
              /\ Queued(id, "control") = IF Head(mail[id]) = "control" THEN Queued(id, "control")' + 1
                                                                       ELSE Queued(id, "control")'
              /\ Given(id)' => Given(id)
              /\ Head(mail[id]) # "answer" /\ Given(id) => Given(id)'
              /\ Before(mail[id], {"answer"}, {"control"}) => Before(mail'[id], {"answer"}, {"control"})
         /\ Head(mail[id]) = "answer" =>
              /\ Given(id)
              /\ Before(mail[id], {"answer"}, {"control"}) => Queued(id, "control") = 0
<1>1. mail[id] \in Seq(Messages) /\ Count(mail[id], {"answer"}) \in Nat /\ Tail(mail[id]) \in Seq(Messages)
  BY MailType
<1>2. \A S : /\ Count(Tail(mail[id]), S) \in Nat
             /\ Count(mail[id], S) = IF Head(mail[id]) \in S THEN Count(Tail(mail[id]), S) + 1
                                                             ELSE Count(Tail(mail[id]), S)
  BY <1>1, CountTail, CountNone
<1>3. Before(mail[id], {"answer"}, {"control"}) =>
        /\ Before(Tail(mail[id]), {"answer"}, {"control"})
        /\ Head(mail[id]) = "answer" => Queued(id, "control") = 0
  <2>1. Before(mail[id], {"answer"}, {"control"}) =>
        /\ Before(Tail(mail[id]), {"answer"}, {"control"})
        /\ Head(mail[id]) \in {"answer"} => \A j \in DOMAIN mail[id] : mail[id][j] \notin {"control"}
    BY <1>1, BeforeTail
  <2> QED BY <1>1, <2>1, CountNone DEF Queued
<1>4. ASSUME mail'[id] = Tail(mail[id])
      PROVE  /\ Queued(id, "control")' \in Nat
             /\ Queued(id, "control") = IF Head(mail[id]) = "control" THEN Queued(id, "control")' + 1
                                                                      ELSE Queued(id, "control")'
             /\ Given(id)' => Given(id)
             /\ Head(mail[id]) # "answer" /\ Given(id) => Given(id)'
  BY <1>1, <1>2, <1>4 DEF Queued, Given
<1>5. Head(mail[id]) = "answer" => Given(id)
  BY <1>1, <1>2 DEF Given
<1> QED BY <1>3, <1>4, <1>5

(* An emptied channel.                                                      *)
LEMMA MailEmptied ==
  ASSUME NEW id \in Ids, mail'[id] = <<>>
  PROVE  /\ Queued(id, "control")' = 0 /\ ~Given(id)'
         /\ Before(mail'[id], {"answer"}, {"control"})
BY CountEmpty DEF Queued, Given, Before

-----------------------------------------------------------------------------
(* Steps of others than the calls, that print nothing: what each may do to  *)
(* the requests.                                                            *)
Moves(id, p) ==
  /\ Wanted(id, p)' => Wanted(id, p)
  /\ (id \in child'[p].pipe /\ id \in child'[p].inbox) => (id \in child[p].pipe /\ id \in child[p].inbox)
  /\ Printed(id, p)' # 0 \/ Carried(id, p)' # 0 =>
       Printed(id, p) # 0 \/ Carried(id, p) # 0
  /\ (Ended(id, p)' => Ended(id, p)) /\ (InHand(id, p)' => InHand(id, p) \/ Ended(id, p))
  /\ Before(child[p].out, ResultLines(id), {ControlLine(id)}) =>
       Before(child'[p].out, ResultLines(id), {ControlLine(id)})
  /\ at[id] = p => /\ Lost(id, p) => Lost(id, p)'
                   /\ OnTheWay(id, p)' = OnTheWay(id, p) \/ Lost(id, p)'

Delivers(id) ==
  /\ Given(id)' \/ (\E p \in Processes : InHand(id, p)') =>
       \/ Given(id) \/ \E p \in Processes : InHand(id, p)
       \/ \A p \in Processes : Told(id, p)'
  /\ Given(id)' => Given(id) \/ \E p \in Processes : InHand(id, p)
  /\ Before(mail'[id], {"answer"}, {"control"})
  /\ Queued(id, "control")' # 0 =>
       \/ Queued(id, "control") # 0
       \/ call[id[1]].kind = "operation" /\ \E p \in Processes : Carried(id, p) # 0

LEMMA ScopeSame ==
  ASSUME UNCHANGED <<call, at>>, NEW id
  PROVE  (Unwritten(id)' <=> Unwritten(id)) /\ at'[id] = at[id]
BY DEF Unwritten, Fresh, Id

LEMMA RequestType ==
  ASSUME NEW c \in Calls
  PROVE  Request(c) \in Ids /\ Request(c)[1] = c /\ Request(c)[2] = "call"
BY DEF Request, Ids

LEMMA TallyKept ==
  ASSUME Tallied, UNCHANGED <<call, at, sent, seen>>,
         \A id \in Ids, p \in Processes : Moves(id, p), \A id \in Ids : Delivers(id),
         \A p \in Processes : reader'[p].pc = "queue" => call[reader'[p].held.id[1]].kind = "operation"
  PROVE  Tallied'
<1>1. \A id \in Ids : (Unwritten(id)' <=> Unwritten(id)) /\ at'[id] = at[id]
  BY ScopeSame
<1>2. OnlyOperations'
  <2>1. \A id \in Ids : call[id[1]].kind # "operation" => Queued(id, "control")' = 0
    BY DEF Delivers, Tallied, OnlyOperations
  <2> QED BY <2>1 DEF Tallied, OnlyOperations
<1>3. ASSUME NEW id \in Ids, NEW p \in Processes PROVE HasAt(id, p)' /\ SaysAt(id, p)'
  <2>1. HasAt(id, p) /\ SaysAt(id, p) /\ Moves(id, p)
    BY DEF Tallied
  <2>2. HasAt(id, p)'
    BY <1>1, <2>1 DEF HasAt, Moves
  <2>3. SaysAt(id, p)'
    BY <1>1, <2>1 DEF SaysAt, Moves
  <2> QED BY <2>2, <2>3
<1>4. ASSUME NEW id \in Ids PROVE Latest(id)'
  <2>1. Latest(id) /\ Delivers(id) /\ \A p \in Processes : HasAt(id, p) /\ SaysAt(id, p) /\ Moves(id, p)
    BY DEF Tallied
  <2>2. Unwritten(id)' => ~Given(id)'
    BY <1>1, <2>1 DEF Latest, Delivers, SaysAt
  <2>3. ASSUME NEW p \in Processes, Told(id, p) PROVE Told(id, p)'
    <3>1. Moves(id, p) /\ Told(id, p)
      BY <2>1, <2>3
    <3> QED BY <3>1 DEF Moves, Told
  <2>4. Given(id)' \/ (\E p \in Processes : InHand(id, p)') => \A p \in Processes : Told(id, p)'
    BY <2>1, <2>3 DEF Latest, Delivers
  <2> QED BY <2>1, <2>2, <2>4 DEF Latest, Delivers
<1>5. ASSUME NEW c \in Calls, call'[c].kind = "operation" PROVE Tally(c)'
  <2> DEFINE id == Request(c)
  <2>0. id \in Ids /\ Tally(c)
    BY <1>5, RequestType DEF Tallied
  <2>1. Delivers(id) /\ \A p \in Processes : HasAt(id, p) /\ SaysAt(id, p) /\ Moves(id, p)
    BY <2>0 DEF Tallied
  <2>2. Unwritten(id)' => sent'[c] = seen'[c] /\ Queued(id, "control")' = 0
    <3>1. Unwritten(id) => \A p \in Processes : Carried(id, p) = 0
      BY <2>1 DEF SaysAt
    <3> QED BY <1>1, <2>0, <2>1, <3>1 DEF Tally, Delivers
  <2>3. ASSUME NEW p \in Processes, at'[id] = p, call'[c].pc # "returned"
        PROVE  Lost(id, p)' \/ sent'[c] = seen'[c] + OnTheWay(id, p)'
    <3>1. Lost(id, p) \/ sent[c] = seen[c] + OnTheWay(id, p)
      BY <1>1, <2>0, <2>3 DEF Tally
    <3>2. at[id] = p
      BY <1>1, <2>0, <2>3
    <3> QED BY <2>1, <3>1, <3>2 DEF Moves
  <2>4. call'[c].outcome = "answer" =>
          call'[c].pc = "returned" /\ sent'[c] = seen'[c] /\ \A p \in Processes : ~Wanted(id, p)'
    BY <2>0, <2>1 DEF Tally, Moves
  <2> HIDE DEF id
  <2> QED BY <2>2, <2>3, <2>4 DEF Tally, id
<1> QED BY <1>2, <1>3, <1>4, <1>5 DEF Tallied

(* What the reader leaves alone, it keeps.                                  *)
LEMMA SameSteps ==
  ASSUME TypeInv, NEW id \in Ids, NEW p \in Processes
  PROVE  /\ reader'[p] = reader[p] =>
              /\ Carried(id, p)' = Carried(id, p) /\ (InHand(id, p)' <=> InHand(id, p))
         /\ child'[p].pipe \subseteq child[p].pipe /\ child'[p].inbox \subseteq child[p].inbox =>
              /\ Wanted(id, p)' => Wanted(id, p)
              /\ (id \in child'[p].pipe /\ id \in child'[p].inbox) =>
                   (id \in child[p].pipe /\ id \in child[p].inbox)
BY DEF Carried, InHand, Wanted

(* Nothing moves, or a request is failed, or taken from a child that ends.  *)
LEMMA QuietTally ==
  ASSUME TypeInv, Tallied, UNCHANGED <<call, at, sent, seen, reader>>,
         \A p \in Processes : /\ child'[p].out = child[p].out /\ child'[p].pipe \subseteq child[p].pipe
                              /\ child'[p].inbox \subseteq child[p].inbox,
         \A id \in Ids : mail'[id] = mail[id] \/ mail'[id] = Append(mail[id], "failed")
  PROVE  Tallied'
<1>1. ASSUME NEW id \in Ids
      PROVE  /\ Queued(id, "control")' = Queued(id, "control") /\ (Given(id)' <=> Given(id))
             /\ Before(mail'[id], {"answer"}, {"control"})
  <2>1. Before(mail[id], {"answer"}, {"control"})
    BY DEF Tallied, Latest
  <2>2. CASE mail'[id] = mail[id]
    BY <2>1, <2>2, MailSame
  <2>3. CASE mail'[id] = Append(mail[id], "failed")
    <3>1. "failed" \in Messages
      BY DEF Messages, Results
    <3> QED BY <2>1, <2>3, <3>1, MailAdded
  <2> QED BY <2>2, <2>3
<1>2. ASSUME NEW id \in Ids, NEW p \in Processes
      PROVE  Moves(id, p) /\ (InHand(id, p)' <=> InHand(id, p))
  <2>1. /\ Carried(id, p)' = Carried(id, p) /\ (InHand(id, p)' <=> InHand(id, p))
        /\ Wanted(id, p)' => Wanted(id, p)
        /\ (id \in child'[p].pipe /\ id \in child'[p].inbox) =>
             (id \in child[p].pipe /\ id \in child[p].inbox)
    BY SameSteps
  <2>2. /\ Printed(id, p)' = Printed(id, p) /\ (Ended(id, p)' <=> Ended(id, p))
        /\ Before(child'[p].out, ResultLines(id), {ControlLine(id)})
              <=> Before(child[p].out, ResultLines(id), {ControlLine(id)})
    BY OutSame
  <2>3. OnTheWay(id, p)' = OnTheWay(id, p) /\ (Lost(id, p) => Lost(id, p)')
    BY <1>1, <2>1, <2>2 DEF OnTheWay, Lost
  <2> QED BY <2>1, <2>2, <2>3 DEF Moves
<1>3. \A id \in Ids : Delivers(id)
  BY <1>1, <1>2 DEF Delivers
<1>4. \A p \in Processes : reader'[p].pc = "queue" => call[reader'[p].held.id[1]].kind = "operation"
  BY DEF Tallied, OnlyOperations
<1> QED BY <1>2, <1>3, <1>4, TallyKept

(* The reader takes up a line, sends a message, drops progress or stops.    *)
LEMMA TakesTally ==
  ASSUME TypeInv, Tokens, Tallied, NEW p \in Processes, ReaderStep(p), Takes(p)
  PROVE  Tallied'
<1> DEFINE l == NextLine(p)
<1>1. /\ UNCHANGED <<call, at, sent, seen, mail>> /\ reader[p].pc = "read" /\ child[p].out # <<>>
      /\ ChildKeeps(p, {"out"}) /\ child'[p].out = Tail(child[p].out) /\ Known(p)
  BY ReaderDoes DEF Takes, budget
<1>2. /\ l \in Line /\ l.id \in Ids /\ l.kind \in {"result", "progress", "control"}
      /\ l.kind # "result" => call[l.id[1]].kind = "operation"
      /\ at[l.id] = p
  <2>1. l \in Line
    BY <1>1, NextLineType
  <2>2. l.kind \in {"result", "progress", "control"} /\ l.id \in proc[p].pending
        /\ (l.kind # "result" => call[l.id[1]].kind = "operation")
    BY <1>1 DEF Known
  <2>3. l.id \in Ids
    BY <2>1, <2>2, LineType
  <2> QED BY <2>1, <2>2, <2>3 DEF Tokens, InTable
<1>3. /\ reader'[p].pc = (IF l.kind = "result" THEN "deliver" ELSE "queue") /\ reader'[p].held = l
      /\ \A q \in Processes \ {p} : reader'[q] = reader[q]
  BY <1>1, <1>2, ReadsType DEF Takes
<1>4. \A q \in Processes \ {p} : child'[q] = child[q]
  BY <1>1 DEF ChildKeeps
<1>5. \A q \in Processes : child'[q].pipe = child[q].pipe /\ child'[q].inbox = child[q].inbox
  BY <1>1 DEF ChildKeeps
<1> HIDE DEF l
<1>6. \A id \in Ids : /\ Queued(id, "control")' = Queued(id, "control") /\ (Given(id)' <=> Given(id))
                      /\ Before(mail'[id], {"answer"}, {"control"})
  <2>1. \A id \in Ids : Before(mail[id], {"answer"}, {"control"}) /\ mail'[id] = mail[id]
    BY <1>1 DEF Tallied, Latest
  <2> QED BY <2>1, MailSame
<1>7. ASSUME NEW id \in Ids, NEW q \in Processes, q # p
      PROVE  /\ Moves(id, q) /\ (InHand(id, q)' <=> InHand(id, q))
             /\ Printed(id, q)' = Printed(id, q) /\ Carried(id, q)' = Carried(id, q)
             /\ Wanted(id, q)' = Wanted(id, q)
  <2>1. /\ Carried(id, q)' = Carried(id, q) /\ (InHand(id, q)' <=> InHand(id, q))
        /\ Printed(id, q)' = Printed(id, q) /\ (Ended(id, q)' <=> Ended(id, q))
        /\ Before(child'[q].out, ResultLines(id), {ControlLine(id)})
              <=> Before(child[q].out, ResultLines(id), {ControlLine(id)})
    BY <1>3, <1>4, <1>7, OutSame, SameSteps
  <2>2. OnTheWay(id, q)' = OnTheWay(id, q) /\ (Lost(id, q) => Lost(id, q)')
    BY <1>3, <1>6, <1>7, <2>1 DEF OnTheWay, Lost
  <2>3. Wanted(id, q)' = Wanted(id, q)
    BY <1>5 DEF Wanted
  <2> QED BY <1>5, <2>1, <2>2, <2>3 DEF Moves
<1>8. ASSUME NEW id \in Ids
      PROVE  /\ Moves(id, p) /\ Wanted(id, p)' = Wanted(id, p)
             /\ InHand(id, p)' => /\ id = l.id /\ Ended(id, p) /\ Printed(id, p)' = 0
                                  /\ Carried(id, p)' = 0
  <2>0. HasAt(id, p) /\ SaysAt(id, p)
    BY DEF Tallied
  <2>1. /\ l = ControlLine(id) <=> l.kind = "control" /\ l.id = id
        /\ l \in ResultLines(id) <=> l.kind = "result" /\ l.id = id
    BY <1>2, LinesOf
  <2>2. /\ Printed(id, p)' \in Nat
        /\ Printed(id, p) = IF l = ControlLine(id) THEN Printed(id, p)' + 1 ELSE Printed(id, p)'
        /\ Ended(id, p)' => Ended(id, p)
        /\ l \in ResultLines(id) => Ended(id, p) /\ Printed(id, p) = 0
        /\ Before(child'[p].out, ResultLines(id), {ControlLine(id)})
    BY <1>1, <2>0, OutTaken DEF l, SaysAt
  <2>3. /\ Carried(id, p) = 0
        /\ Carried(id, p)' = IF l = ControlLine(id) THEN 1 ELSE 0
        /\ InHand(id, p)' <=> l \in ResultLines(id)
    BY <1>1, <1>2, <1>3, <2>1 DEF Carried, InHand
  <2>4. OnTheWay(id, p)' = OnTheWay(id, p) /\ ~Lost(id, p)
    <3>1. Queued(id, "control") \in Nat
      BY MailType
    <3> QED BY <1>1, <1>6, <2>2, <2>3, <3>1 DEF OnTheWay, Lost
  <2>5. Wanted(id, p)' = Wanted(id, p)
    BY <1>5 DEF Wanted
  <2>6. Moves(id, p)
    BY <1>5, <2>2, <2>3, <2>4, <2>5 DEF Moves
  <2>7. InHand(id, p)' => /\ id = l.id /\ Ended(id, p) /\ Printed(id, p)' = 0 /\ Carried(id, p)' = 0
    BY <2>1, <2>2, <2>3
  <2> QED BY <2>5, <2>6, <2>7
<1>9. ASSUME NEW id \in Ids PROVE Delivers(id)
  <2>1. ASSUME InHand(id, p)' PROVE \A q \in Processes : Told(id, q)'
    <3>1. /\ id = l.id /\ at[id] = p /\ Ended(id, p) /\ Printed(id, p)' = 0 /\ Carried(id, p)' = 0
      BY <1>2, <1>8, <2>1
    <3>2. ~Wanted(id, p) /\ ~Wanted(id, p)'
      BY <1>8, <3>1 DEF Tallied, SaysAt
    <3>3. \A q \in Processes \ {p} : ~Wanted(id, q) /\ Printed(id, q) = 0 /\ Carried(id, q) = 0
      BY <3>1 DEF Tallied, SaysAt, HasAt
    <3> QED BY <1>7, <3>1, <3>2, <3>3 DEF Told
  <2> QED BY <1>6, <1>7, <2>1 DEF Delivers
<1>10. \A q \in Processes : reader'[q].pc = "queue" => call[reader'[q].held.id[1]].kind = "operation"
  BY <1>2, <1>3 DEF Tallied, OnlyOperations
<1> QED BY <1>1, <1>7, <1>8, <1>9, <1>10, TallyKept

LEMMA SendsTally ==
  ASSUME TypeInv, Tokens, Tallied, NEW p \in Processes, ReaderStep(p),
         NEW m \in Messages, Sends(p, m)
  PROVE  Tallied'
<1> DEFINE h == reader[p].held.id
<1>1. /\ UNCHANGED <<call, at, sent, seen, child>> /\ reader[p].pc \in {"deliver", "queue"}
      /\ reader[p].held \in Line /\ h \in Ids /\ mail' = [mail EXCEPT ![h] = Append(@, m)]
      /\ reader[p].pc = "deliver" => m \in {"answer", "rejected"}
      /\ reader[p].pc = "queue" =>
           m = reader[p].held.kind /\ m \in {"progress", "control"} /\ call[h[1]].kind = "operation"
  <2>1. UNCHANGED <<call, at, sent, seen>>
    BY ReaderDoes DEF budget
  <2>2. /\ reader[p].pc = "deliver" => reader[p].held \in Line /\ reader[p].held.kind = "result"
        /\ reader[p].pc = "queue" =>
             reader[p].held \in Line /\ reader[p].held.kind \in {"progress", "control"}
        /\ reader[p].pc = "queue" => call[h[1]].kind = "operation"
    BY DEF TypeInv, Placed, Tallied, OnlyOperations
  <2>3. /\ \/ reader[p].pc = "deliver" /\ m = reader[p].held.what
           \/ reader[p].pc = "queue" /\ m = reader[p].held.kind
        /\ mail' = [mail EXCEPT ![h] = Append(@, m)] /\ UNCHANGED child
    BY DEF Sends
  <2> QED BY <2>1, <2>2, <2>3, LineType
<1>2. reader'[p].pc = "read" /\ \A q \in Processes \ {p} : reader'[q] = reader[q]
  BY ReadsType DEF Sends
<1>3. \A id \in Ids : /\ InHand(id, p) <=> reader[p].pc = "deliver" /\ id = h
                      /\ Carried(id, p) = IF reader[p].pc = "queue" /\ m = "control" /\ id = h THEN 1 ELSE 0
                      /\ ~InHand(id, p)' /\ Carried(id, p)' = 0
  BY <1>1, <1>2, LinesOf DEF InHand, Carried
<1>4. mail'[h] = Append(mail[h], m) /\ \A id \in Ids \ {h} : mail'[id] = mail[id]
  BY <1>1 DEF TypeInv, Typed
<1> HIDE DEF h
<1>5. ASSUME NEW id \in Ids
      PROVE  /\ Queued(id, "control")' = IF id = h /\ m = "control" THEN Queued(id, "control") + 1
                                                                    ELSE Queued(id, "control")
             /\ Given(id)' <=> Given(id) \/ (id = h /\ m = "answer")
             /\ Before(mail'[id], {"answer"}, {"control"})
  <2>1. Before(mail[id], {"answer"}, {"control"})
    BY DEF Tallied, Latest
  <2>2. CASE id # h
    BY <1>4, <2>1, <2>2, MailSame
  <2>3. CASE id = h
    <3>1. m = "control" => ~Given(id)
      <4>1. SUFFICES ASSUME m = "control", Given(id) PROVE FALSE
        OBVIOUS
      <4>2. Carried(id, p) = 1
        BY <1>1, <1>3, <2>3, <4>1
      <4>3. Told(id, p)
        BY <4>1 DEF Tallied, Latest
      <4> QED BY <4>2, <4>3 DEF Told
    <3> QED BY <1>4, <2>1, <2>3, <3>1, MailAdded
  <2> QED BY <2>2, <2>3
<1>6. ASSUME NEW id \in Ids, NEW q \in Processes
      PROVE  Moves(id, q) /\ (InHand(id, q)' => InHand(id, q))
  <2>1. /\ Printed(id, q)' = Printed(id, q) /\ (Ended(id, q)' <=> Ended(id, q))
        /\ Before(child'[q].out, ResultLines(id), {ControlLine(id)})
              <=> Before(child[q].out, ResultLines(id), {ControlLine(id)})
        /\ Wanted(id, q)' <=> Wanted(id, q)
        /\ (id \in child'[q].pipe /\ id \in child'[q].inbox)
              => (id \in child[q].pipe /\ id \in child[q].inbox)
    BY <1>1, OutSame DEF Wanted
  <2>2. /\ q # p => Carried(id, q)' = Carried(id, q) /\ (InHand(id, q)' <=> InHand(id, q))
        /\ Printed(id, q) \in Nat /\ Queued(id, "control") \in Nat
    BY <1>2, SameSteps, OutType, MailType
  <2>3. (InHand(id, q)' => InHand(id, q)) /\ (Carried(id, q)' # 0 => Carried(id, q) # 0)
    BY <1>3, <2>2
  <2>4. ASSUME at[id] = q, q # p PROVE ~(InHand(id, p) \/ Carried(id, p) # 0)
    <3>1. SaysAt(id, p) /\ (InHand(id, p) => at[id] = p)
      BY DEF Tallied, Tokens
    <3> QED BY <2>4, <3>1 DEF SaysAt
  <2>5. ASSUME at[id] = q, Lost(id, q) PROVE Lost(id, q)'
    <3>1. q # p /\ reader[q].pc = "stopped" /\ ~Given(id)
      BY <1>1, <2>5 DEF Lost
    <3>2. ~(id = h /\ m = "answer")
      BY <1>1, <1>3, <2>4, <2>5, <3>1
    <3> QED BY <1>2, <1>5, <3>1, <3>2 DEF Lost
  <2>6. ASSUME at[id] = q PROVE OnTheWay(id, q)' = OnTheWay(id, q)
    <3>1. CASE q = p
      BY <1>1, <1>3, <1>5, <2>1, <2>2, <3>1 DEF OnTheWay
    <3>2. CASE q # p
      <4>1. ~(id = h /\ m = "control")
        BY <1>1, <1>3, <2>4, <2>6, <3>2
      <4> QED BY <1>5, <2>1, <2>2, <3>2, <4>1 DEF OnTheWay
    <3> QED BY <3>1, <3>2
  <2> QED BY <2>1, <2>3, <2>5, <2>6 DEF Moves
<1>7. ASSUME NEW id \in Ids PROVE Delivers(id)
  <2>1. Given(id)' => Given(id) \/ InHand(id, p)
    BY <1>1, <1>3, <1>5
  <2>2. Queued(id, "control")' # 0 =>
          Queued(id, "control") # 0 \/ (call[id[1]].kind = "operation" /\ Carried(id, p) # 0)
    BY <1>1, <1>3, <1>5
  <2> QED BY <1>5, <1>6, <2>1, <2>2 DEF Delivers
<1>8. \A q \in Processes : reader'[q].pc = "queue" => call[reader'[q].held.id[1]].kind = "operation"
  BY <1>2 DEF Tallied, OnlyOperations
<1> QED BY <1>1, <1>6, <1>7, <1>8, TallyKept

LEMMA StopsTally ==
  ASSUME TypeInv, Tallied, NEW p \in Processes, ReaderStep(p), Drops(p) \/ GivesUp(p)
  PROVE  Tallied'
<1>1. /\ UNCHANGED <<call, at, sent, seen, mail>>
      /\ Reads(p, "read", None) \/ Reads(p, "stopped", None)
      /\ \/ child' = child
         \/ /\ reader[p].pc = "read" /\ child[p].out # <<>> /\ ~Known(p)
            /\ ChildKeeps(p, {"out"}) /\ child'[p].out = Tail(child[p].out)
  BY ReaderDoes DEF budget, Drops, GivesUp
<1>2. /\ reader'[p].pc \in {"read", "stopped"}
      /\ \A q \in Processes \ {p} : reader'[q] = reader[q]
  BY <1>1, ReadsType
<1>3. reader'[p].pc = "stopped" \/
        /\ reader[p].pc = "queue" => reader[p].held.kind = "progress"
        /\ reader[p].pc \in {"read", "queue"}
        /\ child' # child => NextLine(p).kind = "fatal"
  <2>1. CASE Drops(p)
    BY <2>1 DEF Drops
  <2>2. CASE GivesUp(p)
    <3>1. \/ Reads(p, "stopped", None)
          \/ reader[p].pc = "read" /\ NextLine(p).kind = "fatal"
      BY <2>2 DEF GivesUp
    <3> QED BY <3>1, ReadsType
  <2> QED BY <2>1, <2>2
<1>4. \A id \in Ids : /\ Queued(id, "control")' = Queued(id, "control") /\ (Given(id)' <=> Given(id))
                      /\ Before(mail'[id], {"answer"}, {"control"})
  <2>1. \A id \in Ids : Before(mail[id], {"answer"}, {"control"}) /\ mail'[id] = mail[id]
    BY <1>1 DEF Tallied, Latest
  <2> QED BY <2>1, MailSame
<1>5. \A q \in Processes : child'[q].pipe = child[q].pipe /\ child'[q].inbox = child[q].inbox
  BY <1>1 DEF ChildKeeps
<1>6. ASSUME NEW id \in Ids, NEW q \in Processes
      PROVE  Moves(id, q) /\ (InHand(id, q)' => InHand(id, q))
  <2>0. Before(child[q].out, ResultLines(id), {ControlLine(id)}) /\ (Given(id) => Told(id, q))
    BY DEF Tallied, SaysAt, Latest
  <2>1. /\ Printed(id, q)' \in Nat /\ Printed(id, q)' <= Printed(id, q)
        /\ (Ended(id, q)' => Ended(id, q))
        /\ Before(child'[q].out, ResultLines(id), {ControlLine(id)})
        /\ q # p \/ child' = child \/ NextLine(p).kind = "fatal" => Printed(id, q)' = Printed(id, q)
    <3>1. CASE child'[q].out = child[q].out
      <4>1. Printed(id, q) \in Nat
        BY OutType
      <4> QED BY <2>0, <3>1, <4>1, OutSame
    <3>2. CASE child'[q].out # child[q].out
      <4>1. /\ q = p /\ child' # child /\ child[p].out # <<>> /\ child'[p].out = Tail(child[p].out)
        BY <1>1, <3>2 DEF ChildKeeps
      <4>2. NextLine(p) \in Line
        BY <4>1, NextLineType
      <4>3. NextLine(p).kind = "fatal" => NextLine(p) # ControlLine(id)
        BY <4>2, LinesOf
      <4>4. /\ Printed(id, p)' \in Nat
            /\ Printed(id, p) = IF NextLine(p) = ControlLine(id) THEN Printed(id, p)' + 1
                                                              ELSE Printed(id, p)'
            /\ Ended(id, p)' => Ended(id, p)
            /\ Before(child'[p].out, ResultLines(id), {ControlLine(id)})
        BY <2>0, <4>1, OutTaken
      <4> QED BY <4>1, <4>3, <4>4
    <3> QED BY <3>1, <3>2
  <2>2. /\ InHand(id, q)' => InHand(id, q)
        /\ Carried(id, q)' <= Carried(id, q) /\ Carried(id, q) \in {0, 1} /\ Carried(id, q)' \in {0, 1}
        /\ q # p => Carried(id, q)' = Carried(id, q)
        /\ q = p => Carried(id, q)' = 0
    BY <1>2 DEF InHand, Carried
  <2>3. Lost(id, q) => Lost(id, q)'
    <3>1. Lost(id, q) /\ q = p => reader'[p].pc = "stopped"
      BY <1>3 DEF Lost
    <3> QED BY <1>2, <1>4, <3>1 DEF Lost
  <2>4. OnTheWay(id, q)' = OnTheWay(id, q) \/ Lost(id, q)'
    <3>1. Queued(id, "control") \in Nat /\ Printed(id, q) \in Nat
      BY OutType, MailType
    <3>2. CASE q # p
      BY <1>4, <2>1, <2>2, <3>1, <3>2 DEF OnTheWay
    <3>3. CASE q = p /\ reader'[p].pc = "stopped" /\ ~Given(id)
      BY <1>4, <3>3 DEF Lost
    <3>4. CASE q = p /\ reader'[p].pc = "stopped" /\ Given(id)
      <4>1. Printed(id, q) = 0 /\ Carried(id, q) = 0
        BY <2>0, <3>4 DEF Told
      <4> QED BY <1>4, <2>1, <2>2, <3>1, <4>1 DEF OnTheWay
    <3>5. CASE q = p /\ reader'[p].pc # "stopped"
      <4>1. Carried(id, p) = 0
        BY <1>3, <3>5, LinesOf DEF Carried, ControlLine
      <4>2. Printed(id, q)' = Printed(id, q)
        BY <1>3, <2>1, <3>5
      <4> QED BY <1>4, <2>2, <3>1, <3>5, <4>1, <4>2 DEF OnTheWay
    <3> QED BY <3>2, <3>3, <3>4, <3>5
  <2>5. /\ Wanted(id, q)' <=> Wanted(id, q)
        /\ (id \in child'[q].pipe /\ id \in child'[q].inbox)
              => (id \in child[q].pipe /\ id \in child[q].inbox)
    BY <1>5 DEF Wanted
  <2>6. Printed(id, q)' # 0 \/ Carried(id, q)' # 0 => Printed(id, q) # 0 \/ Carried(id, q) # 0
    <3>1. Printed(id, q) \in Nat
      BY OutType
    <3> QED BY <2>1, <2>2, <3>1
  <2> QED BY <2>1, <2>2, <2>3, <2>4, <2>5, <2>6 DEF Moves
<1>7. \A id \in Ids : Delivers(id)
  BY <1>4, <1>6 DEF Delivers
<1>8. \A q \in Processes : reader'[q].pc = "queue" => call[reader'[q].held.id[1]].kind = "operation"
  BY <1>2 DEF Tallied, OnlyOperations
<1> QED BY <1>1, <1>6, <1>7, <1>8, TallyKept

LEMMA ReaderTally ==
  ASSUME TypeInv, Tokens, Tallied, NEW p \in Processes, ReaderStep(p)
  PROVE  Tallied'
BY ReaderDoes, TakesTally, SendsTally, StopsTally

(* The child reads a request, prints a line or exits.                       *)
LEMMA TakesUpTally ==
  ASSUME TypeInv, Tallied, NEW p \in Processes, ChildStep(p), TakesUp(p)
  PROVE  Tallied'
<1>1. UNCHANGED <<call, at, mail, reader, seen, sent>>
  BY ChildDoes DEF TakesUp
<1>2. PICK i \in child[p].pipe : /\ ChildKeeps(p, {"pipe", "inbox"})
                                 /\ child'[p].pipe = child[p].pipe \ {i}
                                 /\ child'[p].inbox = child[p].inbox \cup {i}
  BY DEF TakesUp
<1>3. \A q \in Processes \ {p} : child'[q] = child[q]
  BY <1>2 DEF ChildKeeps
<1>4. ASSUME NEW id \in Ids
      PROVE  /\ Queued(id, "control")' = Queued(id, "control") /\ (Given(id)' <=> Given(id))
             /\ Before(mail'[id], {"answer"}, {"control"})
  <2>1. mail'[id] = mail[id] /\ Before(mail[id], {"answer"}, {"control"})
    BY <1>1 DEF Tallied, Latest
  <2> QED BY <2>1, MailSame
<1>5. ASSUME NEW id \in Ids, NEW q \in Processes
      PROVE  Moves(id, q) /\ (InHand(id, q)' <=> InHand(id, q))
  <2>1. /\ Wanted(id, q)' => Wanted(id, q)
        /\ (id \in child'[q].pipe /\ id \in child'[q].inbox) => (id \in child[q].pipe /\ id \in child[q].inbox)
    BY <1>2, <1>3 DEF Wanted
  <2>2. reader'[q] = reader[q] /\ child'[q].out = child[q].out
    BY <1>1, <1>2, <1>3 DEF ChildKeeps
  <2>3. /\ Carried(id, q)' = Carried(id, q) /\ (InHand(id, q)' <=> InHand(id, q))
        /\ Printed(id, q)' = Printed(id, q) /\ (Ended(id, q)' <=> Ended(id, q))
        /\ Before(child'[q].out, ResultLines(id), {ControlLine(id)})
              <=> Before(child[q].out, ResultLines(id), {ControlLine(id)})
    BY <2>2, SameSteps, OutSame
  <2>4. OnTheWay(id, q)' = OnTheWay(id, q) /\ (Lost(id, q) => Lost(id, q)')
    BY <1>4, <2>2, <2>3 DEF OnTheWay, Lost
  <2> QED BY <2>1, <2>3, <2>4 DEF Moves
<1>6. \A id \in Ids : Delivers(id)
  BY <1>4, <1>5 DEF Delivers
<1>7. \A q \in Processes : reader'[q].pc = "queue" => call[reader'[q].held.id[1]].kind = "operation"
  BY <1>1 DEF Tallied, OnlyOperations
<1> QED BY <1>1, <1>5, <1>6, <1>7, TallyKept

LEMMA AddsTally ==
  ASSUME TypeInv, Tallied, NEW p \in Processes, ChildStep(p), NEW l \in Line, Adds(p, l)
  PROVE  Tallied'
<1>1. /\ UNCHANGED <<call, at, mail, reader, seen>> /\ ChildKeeps(p, {"out", "inbox"})
      /\ child'[p].out = Append(child[p].out, l) /\ child'[p].pipe = child[p].pipe
      /\ \A q \in Processes \ {p} : child'[q] = child[q]
  BY ChildDoes DEF Adds, ChildKeeps
<1>2. /\ l.kind \in {"result", "progress", "control", "fatal", "bad"}
      /\ l.kind \in {"result", "progress", "control"} => l.id \in Ids /\ l.id \in child[p].inbox
      /\ child'[p].inbox \subseteq child[p].inbox
      /\ l.kind = "result" => l.id \notin child'[p].inbox
      /\ l.kind = "control" => call[l.id[1]].kind = "operation"
      /\ \A d \in Calls : sent'[d] = IF l.kind = "control" /\ d = l.id[1] THEN sent[d] + 1 ELSE sent[d]
  <2>1. sent \in [Calls -> Nat] /\ (l.kind \in {"result", "progress", "control"} => l.id \in Ids)
    BY LineType DEF TypeInv, Typed
  <2>2. CASE l.kind = "result"
    BY <2>1, <2>2 DEF Adds
  <2>3. CASE l.kind \in {"progress", "control"}
    <3>1. /\ l.id \in child[p].inbox /\ child'[p].inbox = child[p].inbox
          /\ call[l.id[1]].kind = "operation"
          /\ sent' = [sent EXCEPT ![l.id[1]] = @ + IF l.kind = "control" THEN 1 ELSE 0]
      BY <2>3 DEF Adds
    <3>2. l.id[1] \in Calls
      BY <2>1, <2>3, TwoIds
    <3> QED BY <2>1, <2>3, <3>1, <3>2
  <2>4. CASE l.kind \in {"fatal", "bad"}
    BY <2>1, <2>4 DEF Adds
  <2> QED BY <2>2, <2>3, <2>4, LineType
<1>3. ASSUME NEW id \in Ids
      PROVE  /\ mail'[id] = mail[id] /\ Queued(id, "control")' = Queued(id, "control")
             /\ (Given(id)' <=> Given(id)) /\ Latest(id)
             /\ (Unwritten(id)' <=> Unwritten(id)) /\ at'[id] = at[id]
             /\ l = ControlLine(id) <=> l.kind = "control" /\ l.id = id
             /\ l \in ResultLines(id) <=> l.kind = "result" /\ l.id = id
  <2>1. mail'[id] = mail[id] /\ Latest(id)
    BY <1>1 DEF Tallied
  <2> QED BY <1>1, <2>1, MailSame, ScopeSame, LinesOf
<1>4. ASSUME NEW id \in Ids, NEW q \in Processes
      PROVE  /\ Wanted(id, q)' => Wanted(id, q)
             /\ Carried(id, q)' = Carried(id, q) /\ (InHand(id, q)' <=> InHand(id, q))
             /\ Printed(id, q)' = IF q = p /\ l = ControlLine(id) THEN Printed(id, q) + 1 ELSE Printed(id, q)
             /\ Printed(id, q) \in Nat
             /\ q = p /\ (l = ControlLine(id) \/ l \in ResultLines(id)) =>
                  Wanted(id, p) /\ ~Unwritten(id) /\ at[id] = p /\ ~Ended(id, p)
             /\ HasAt(id, q)' /\ SaysAt(id, q)'
  <2>0. HasAt(id, q) /\ SaysAt(id, q)
    BY DEF Tallied
  <2>1. reader'[q] = reader[q]
    BY <1>1
  <2>2. /\ Wanted(id, q)' => Wanted(id, q)
        /\ (id \in child'[q].pipe /\ id \in child'[q].inbox) => (id \in child[q].pipe /\ id \in child[q].inbox)
    BY <1>1, <1>2 DEF Wanted
  <2>3. /\ Carried(id, q)' = Carried(id, q) /\ (InHand(id, q)' <=> InHand(id, q))
        /\ Printed(id, q) \in Nat
    BY <2>1, SameSteps, OutType
  <2>4. HasAt(id, q)'
    BY <1>1, <1>3, <2>0, <2>2 DEF HasAt
  <2>5. CASE q # p
    <3>1. child'[q].out = child[q].out
      BY <1>1, <2>5
    <3>2. /\ Printed(id, q)' = Printed(id, q) /\ (Ended(id, q)' <=> Ended(id, q))
          /\ Before(child'[q].out, ResultLines(id), {ControlLine(id)})
               <=> Before(child[q].out, ResultLines(id), {ControlLine(id)})
      BY <3>1, OutSame
    <3>3. SaysAt(id, q)'
      BY <1>3, <2>0, <2>2, <2>3, <3>2 DEF SaysAt
    <3> QED BY <2>2, <2>3, <2>4, <2>5, <3>2, <3>3
  <2>6. CASE q = p
    <3>1. l = ControlLine(id) \/ l \in ResultLines(id) =>
            id \in child[p].inbox /\ Wanted(id, p) /\ ~Unwritten(id) /\ at[id] = p /\ ~Ended(id, p)
      BY <1>2, <1>3, <2>0, <2>6 DEF Wanted, HasAt, SaysAt
    <3>2. /\ Printed(id, p)' = IF l = ControlLine(id) THEN Printed(id, p) + 1 ELSE Printed(id, p)
          /\ Ended(id, p)' <=> Ended(id, p) \/ l \in ResultLines(id)
          /\ Before(child'[p].out, ResultLines(id), {ControlLine(id)})
      <4>1. Before(child[p].out, ResultLines(id), {ControlLine(id)})
        BY <2>0, <2>6 DEF SaysAt
      <4> QED BY <1>1, <3>1, <4>1, OutAdded
    <3>3. Ended(id, p)' => ~Wanted(id, p)'
      <4>1. CASE Ended(id, p)
        BY <2>0, <2>2, <2>6, <4>1 DEF SaysAt
      <4>2. CASE l \in ResultLines(id)
        BY <1>1, <1>2, <1>3, <2>0, <2>6, <3>1, <4>2 DEF HasAt, Wanted
      <4> QED BY <3>2, <4>1, <4>2
    <3>4. SaysAt(id, p)'
      BY <1>3, <2>0, <2>3, <2>6, <3>1, <3>2, <3>3 DEF SaysAt
    <3> QED BY <2>2, <2>3, <2>4, <2>6, <3>1, <3>2, <3>4
  <2> QED BY <2>5, <2>6
<1>5. ASSUME NEW id \in Ids PROVE Latest(id)'
  <2>1. ASSUME Given(id) \/ \E q \in Processes : InHand(id, q), NEW q \in Processes
        PROVE  Told(id, q)'
    <3>1. Told(id, q) /\ Told(id, p)
      BY <1>3, <2>1 DEF Latest
    <3> QED BY <1>4, <3>1 DEF Told
  <2> QED BY <1>3, <1>4, <2>1 DEF Latest
<1>6. OnlyOperations'
  <2>1. \A c \in Calls : call[c].kind # "operation" => sent'[c] = 0
    BY <1>2 DEF Tallied, OnlyOperations
  <2>2. \A id \in Ids : call[id[1]].kind # "operation" => Queued(id, "control")' = 0
    BY <1>3 DEF Tallied, OnlyOperations
  <2> QED BY <1>1, <2>1, <2>2 DEF Tallied, OnlyOperations
<1>7. ASSUME NEW c \in Calls, call'[c].kind = "operation" PROVE Tally(c)'
  <2> DEFINE id == Request(c)
  <2>0. id \in Ids /\ Tally(c) /\ call[c].kind = "operation" /\ id[1] = c
    BY <1>1, <1>7, RequestType DEF Tallied
  <2>1. (l.kind = "control" /\ c = l.id[1]) <=> l = ControlLine(id)
    <3>1. l.kind = "control" /\ c = l.id[1] => l.id = id
      <4>1. l.kind = "control" => l.id \in Ids /\ Wanted(l.id, p)
        BY <1>2 DEF Wanted
      <4>2. l.kind = "control" /\ c = l.id[1] => l.id[2] = "call"
        BY <2>0, <4>1 DEF Tallied, HasAt
      <4> QED BY <4>1, <4>2, TwoIds DEF Request
    <3> QED BY <1>3, <2>0, <3>1
  <2> HIDE DEF id
  <2>2. sent'[c] = IF l = ControlLine(id) THEN sent[c] + 1 ELSE sent[c]
    BY <1>2, <2>1
  <2>3. sent[c] \in Nat /\ seen[c] \in Nat /\ seen'[c] = seen[c] /\ call'[c] = call[c]
    BY <1>1 DEF TypeInv, Typed
  <2>4. l = ControlLine(id) => ~Unwritten(id) /\ at[id] = p /\ Wanted(id, p)
    BY <1>4, <2>0
  <2>5. Unwritten(id)' => sent'[c] = seen'[c] /\ Queued(id, "control")' = 0
    BY <1>3, <2>0, <2>2, <2>3, <2>4 DEF Tally, id
  <2>6. ASSUME NEW q \in Processes, at'[id] = q, call'[c].pc # "returned"
        PROVE  Lost(id, q)' \/ sent'[c] = seen'[c] + OnTheWay(id, q)'
    <3>1. at[id] = q /\ (Lost(id, q) \/ sent[c] = seen[c] + OnTheWay(id, q))
      BY <1>3, <2>0, <2>3, <2>6 DEF Tally, id
    <3>2. Lost(id, q) => Lost(id, q)'
      BY <1>1, <1>3, <2>0 DEF Lost
    <3>3. OnTheWay(id, q)' = IF l = ControlLine(id) THEN OnTheWay(id, q) + 1 ELSE OnTheWay(id, q)
      <4>1. /\ Printed(id, q)' = IF l = ControlLine(id) THEN Printed(id, q) + 1 ELSE Printed(id, q)
            /\ Carried(id, q)' = Carried(id, q) /\ Queued(id, "control")' = Queued(id, "control")
        BY <1>3, <1>4, <2>0, <2>4, <3>1
      <4>2. Printed(id, q) \in Nat /\ Carried(id, q) \in {0, 1} /\ Queued(id, "control") \in Nat
        BY <2>0, OutType, MailType
      <4> QED BY <4>1, <4>2 DEF OnTheWay
    <3>4. OnTheWay(id, q) \in Nat
      <4>1. Printed(id, q) \in Nat /\ Carried(id, q) \in {0, 1} /\ Queued(id, "control") \in Nat
        BY <2>0, OutType, MailType
      <4> QED BY <4>1 DEF OnTheWay
    <3> QED BY <2>2, <2>3, <3>1, <3>2, <3>3, <3>4
  <2>7. call'[c].outcome = "answer" =>
          call'[c].pc = "returned" /\ sent'[c] = seen'[c] /\ \A q \in Processes : ~Wanted(id, q)'
    BY <1>4, <2>0, <2>2, <2>3, <2>4 DEF Tally, id
  <2> QED BY <2>5, <2>6, <2>7 DEF Tally, id
<1> QED BY <1>4, <1>5, <1>6, <1>7 DEF Tallied

(* Whoever else takes a step.                                               *)
LEMMA OthersTally ==
  ASSUME TypeInv, Tokens, Tallied,
         \/ UNCHANGED vars \/ Close \/ CloserStep
         \/ \E p \in Processes : Fail(p) \/ ReaderStep(p) \/ ChildStep(p)
  PROVE  Tallied'
<1>1. CASE UNCHANGED vars
  BY <1>1, QuietTally DEF vars, budget
<1>2. CASE Close \/ CloserStep
  <2>1. /\ UNCHANGED <<call, at, mail, reader, seen, sent>> /\ (Begins \/ Empties \/ Waits \/ Finishes)
    BY <1>2, CloserDoes DEF budget
  <2>2. \A p \in Processes : /\ child'[p].out = child[p].out /\ child'[p].pipe \subseteq child[p].pipe
                             /\ child'[p].inbox \subseteq child[p].inbox
    BY <2>1 DEF Begins, Empties, Waits, Finishes, ChildKeeps
  <2> QED BY <2>1, <2>2, QuietTally
<1>3. ASSUME NEW p \in Processes, Fail(p) PROVE Tallied'
  <2>1. /\ UNCHANGED <<call, at, reader, seen, sent>> /\ (ClosesStdin(p) \/ Drains(p) \/ Kills(p))
    BY <1>3, FailDoes DEF budget
  <2>2. \A q \in Processes : /\ child'[q].out = child[q].out /\ child'[q].pipe \subseteq child[q].pipe
                             /\ child'[q].inbox \subseteq child[q].inbox
    BY <2>1 DEF ClosesStdin, Drains, Kills, ChildKeeps
  <2>3. \A id \in Ids : mail'[id] = mail[id] \/ mail'[id] = Append(mail[id], "failed")
    BY <2>1 DEF ClosesStdin, Drains, Kills
  <2> QED BY <2>1, <2>2, <2>3, QuietTally
<1>4. ASSUME NEW p \in Processes, ChildStep(p) PROVE Tallied'
  <2>1. CASE Exits(p)
    <3>1. UNCHANGED <<call, at, mail, reader, seen, sent>>
      BY <1>4, <2>1, ChildDoes DEF Exits
    <3>2. \A q \in Processes : /\ child'[q].out = child[q].out /\ child'[q].pipe \subseteq child[q].pipe
                               /\ child'[q].inbox \subseteq child[q].inbox
      BY <2>1 DEF Exits, ChildKeeps
    <3> QED BY <3>1, <3>2, QuietTally
  <2> QED BY <1>4, <2>1, ChildDoes, TakesUpTally, AddsTally
<1> QED BY <1>1, <1>2, <1>3, <1>4, ReaderTally

(* What a step of a call does to its requests, and to those of others.      *)
LEMMA CallTells ==
  ASSUME TypeInv, NEW c \in Calls, Starts(c) \/ CallStep(c)
  PROVE  /\ call[c].pc # "returned" /\ UNCHANGED <<reader, sent>>
         /\ \A d \in Calls : call'[d].kind = call[d].kind /\ (d # c => call'[d] = call[d])
         /\ call'[c].stage \in {call[c].stage, "call"} \/ call[c].kind = "long"
         /\ call'[c].outcome = "answer" =>
              \/ call[c].outcome = "answer"
              \/ /\ call[c].stage = "call" /\ call'[c].pc = "returned" /\ Waiting(c)
                 /\ mail[Id(c)] # <<>> /\ Head(mail[Id(c)]) = "answer" /\ ~Gets(c)
         /\ (Abandons(c) \/ Leaves(c)) /\ call[c].stage = "call" => call'[c].pc = "returned"
<1> DEFINE done == /\ call[c].pc # "returned"
                   /\ \A d \in Calls : call'[d].kind = call[d].kind /\ (d # c => call'[d] = call[d])
                   /\ call'[c].stage \in {call[c].stage, "call"} \/ call[c].kind = "long"
                   /\ call'[c].outcome = "answer" =>
                        \/ call[c].outcome = "answer"
                        \/ /\ call[c].stage = "call" /\ call'[c].pc = "returned" /\ Waiting(c)
                           /\ mail[Id(c)] # <<>> /\ Head(mail[Id(c)]) = "answer" /\ ~Gets(c)
                   /\ (Abandons(c) \/ Leaves(c)) /\ call[c].stage = "call" => call'[c].pc = "returned"
<1>1. UNCHANGED <<reader, sent>> /\ call \in [Calls -> CallState]
  BY CallDoes DEF budget, TypeInv, Typed
<1>2. ASSUME NEW pc \in Steps, Goto(c, pc), call[c].pc # "returned", pc # "returned",
             ~Abandons(c), ~Leaves(c)
      PROVE  done
  <2>1. /\ \A d \in Calls : call'[d].kind = call[d].kind /\ (d # c => call'[d] = call[d])
        /\ call'[c].stage = call[c].stage /\ call'[c].outcome = call[c].outcome
    BY <1>1, <1>2 DEF Goto, CallState
  <2> QED BY <1>2, <2>1
<1>3. CASE Walks(c) \/ Replaces(c) \/ Terminates(c) \/ Reaps(c) \/ Spawns(c) \/ Registers(c)
             \/ Locks(c) \/ Writes(c)
  <2>1. \E pc \in Steps \ {"returned"} : Goto(c, pc)
    BY <1>3, StepNames DEF Walks, Replaces, Terminates, Reaps, Spawns, Registers, Locks, Writes
  <2>2. call[c].pc # "returned"
    BY <1>3 DEF Walks, Replaces, Terminates, Reaps, Spawns, Registers, Locks, Writes
  <2>3. ASSUME Abandons(c) \/ Leaves(c) PROVE done
    <3>1. PICK outcome \in Results : Return(c, outcome)
      BY <2>3, StepNames DEF Abandons, Leaves
    <3>2. PICK pc \in Steps \ {"returned"} : Goto(c, pc)
      BY <2>1
    <3>3. call'[c].stage = call[c].stage /\ call'[c].pc = pc
      BY <3>2, GotoType
    <3>4. /\ call[c].stage = "call" => call'[c].pc = "returned"
          /\ call[c].stage = "cancel" => call'[c].stage = "call"
      BY <3>1, ReturnType
    <3> QED BY <1>1, <3>2, <3>3, <3>4 DEF CallState
  <2> QED BY <1>1, <1>2, <2>1, <2>2, <2>3
<1>4. CASE Abandons(c) \/ Leaves(c)
  <2>1. PICK outcome \in Results :
          /\ Return(c, outcome)
          /\ outcome = "answer" => /\ Waiting(c) /\ mail[Id(c)] # <<>> /\ Head(mail[Id(c)]) = "answer"
                                   /\ Leaves(c)
    <3>1. CASE Abandons(c)
      BY <3>1, StepNames DEF Abandons
    <3>2. CASE Leaves(c)
      BY <3>2 DEF Leaves
    <3> QED BY <1>4, <3>1, <3>2
  <2>2. /\ \A d \in Calls \ {c} : call'[d] = call[d]
        /\ call[c].stage = "call" =>
             call'[c].pc = "returned" /\ call'[c].stage = "call" /\ call'[c].outcome = outcome
        /\ call[c].stage = "cancel" => call'[c].stage = "call" /\ call'[c].outcome = call[c].outcome
        /\ call'[c].kind = call[c].kind
    BY <2>1, ReturnType
  <2>3. call[c].pc # "returned" /\ call[c].stage \in {"call", "cancel"}
    BY <1>1, <1>4 DEF Abandons, Leaves, CallState
  <2>4. outcome = "answer" => ~Gets(c)
    BY <2>1 DEF Gets
  <2> QED BY <1>1, <2>1, <2>2, <2>3, <2>4
<1>5. CASE Cancels(c)
  <2>1. /\ call[c].pc # "returned" /\ call[c].kind = "long" /\ call'[c].outcome = call[c].outcome
        /\ call'[c].kind = call[c].kind /\ \A d \in Calls \ {c} : call'[d] = call[d]
        /\ mail[Id(c)] = <<>> /\ call'[c].stage = "cancel" /\ call[c].stage = "call"
    BY <1>5 DEF Cancels
  <2>2. ~Abandons(c) /\ ~Leaves(c)
    <3>1. \A outcome \in Results : ~Return(c, outcome)
      <4>1. SUFFICES ASSUME NEW outcome \in Results, Return(c, outcome) PROVE FALSE
        OBVIOUS
      <4>2. call'[c].stage = "call"
        BY <2>1, <4>1, ReturnType
      <4> QED BY <2>1, <4>2
    <3> QED BY <3>1, StepNames DEF Abandons, Leaves
  <2> QED BY <1>1, <2>1, <2>2
<1>6. CASE Gets(c)
  <2>1. UNCHANGED call /\ call[c].pc \in {"await", "grace"}
    BY <1>6 DEF Gets, Waiting
  <2>2. ~Abandons(c) /\ ~Leaves(c)
    <3>1. \A outcome \in Results : ~Return(c, outcome)
      <4>1. SUFFICES ASSUME NEW outcome \in Results, Return(c, outcome) PROVE FALSE
        OBVIOUS
      <4>2. /\ call[c].stage = "call" => call'[c].pc = "returned"
            /\ call[c].stage = "cancel" => call'[c].stage = "call"
        BY <4>1, ReturnType
      <4> QED BY <1>1, <2>1, <4>2 DEF CallState
    <3> QED BY <3>1, StepNames DEF Abandons, Leaves
  <2> QED BY <1>1, <2>1, <2>2
<1>7. done
  BY <1>3, <1>4, <1>5, <1>6, CallDoes, Zenon
<1> QED BY <1>1, <1>7

(* A request is written once.                                               *)
LEMMA CallWrites ==
  ASSUME TypeInv, NEW c \in Calls, Starts(c) \/ CallStep(c), NEW id \in Ids
  PROVE  /\ Unwritten(id)' => Unwritten(id)
         /\ at'[id] = at[id] \/ Unwritten(id)'
         /\ Writes(c) => Unwritten(Id(c)) /\ ~Unwritten(Id(c))'
<1>1. /\ Fresh(id)' => Fresh(id)
      /\ ~Fresh(id) => at'[id] = at[id]
      /\ Registers(c) => at'[id] = at[id]
  BY CallScope
<1>2. /\ call[c] \in CallState /\ call[c].stage \in {"call", "cancel"} /\ Id(c) \in Ids
      /\ at \in [Ids -> Processes \cup {None}]
  BY IdType DEF TypeInv, Typed, CallState
<1> DEFINE done == /\ Unwritten(id)' => Unwritten(id)
                   /\ at'[id] = at[id] \/ Unwritten(id)'
                   /\ Writes(c) => Unwritten(Id(c)) /\ ~Unwritten(Id(c))'
<1>3. ASSUME NEW pc \in Early \cup {"write", "writing", "await"}, Goto(c, pc),
             call[c].pc \in Early \cup {"write", "writing"}
      PROVE  /\ id # Id(c) => (Unwritten(id)' <=> Unwritten(id))
             /\ Unwritten(Id(c)) /\ (Unwritten(Id(c))' <=> pc # "await")
  <2>1. /\ pc \in Steps /\ pc # "returned" /\ "await" \notin Early
    BY <1>3 DEF Steps, Early, Locking
  <2>2. /\ \A d \in Calls : /\ call'[d].stage = call[d].stage
                            /\ call'[d].pc = IF d = c THEN pc ELSE call[d].pc
    BY <1>3, <2>1, GotoType
  <2>3. \A i \in Ids : /\ Id(i[1])' = Id(i[1])
                       /\ i # Id(c) => (Fresh(i)' <=> Fresh(i))
                       /\ i = Id(c) => (Fresh(i) <=> call[c].pc \in Early) /\ (Fresh(i)' <=> pc \in Early)
    BY <1>3, GotoFresh
  <2>4. ASSUME id # Id(c) PROVE Unwritten(id)' <=> Unwritten(id)
    <3>1. id[1] \in Calls /\ (id[1] = c => Id(id[1]) # id)
      BY <2>4, TwoIds
    <3> QED BY <2>2, <2>3, <2>4, <3>1 DEF Unwritten
  <2>5. Unwritten(Id(c)) /\ (Unwritten(Id(c))' <=> pc # "await")
    <3>1. PICK i \in Ids : i = Id(c) /\ i[1] = c
      BY <1>2, IdType
    <3>2. Id(i[1]) = i /\ Id(i[1])' = i
      BY <2>3, <3>1
    <3>3. Unwritten(i) /\ (Unwritten(i)' <=> pc # "await")
      BY <1>3, <2>1, <2>2, <2>3, <3>1, <3>2 DEF Unwritten
    <3>4. Id(c)' = i
      BY <3>1, <3>2
    <3> QED BY <3>1, <3>3, <3>4
  <2> QED BY <2>4, <2>5
<1>4. CASE Walks(c) \/ Replaces(c) \/ Spawns(c)
  <2>1. /\ \E pc \in Early : Goto(c, pc)
        /\ call[c].pc \in Early /\ ~Writes(c) /\ (id # Id(c) => at'[id] = at[id])
    BY <1>2, <1>4 DEF Walks, Replaces, Spawns, Writes, Early, Locking
  <2>2. PICK pc \in Early : Goto(c, pc)
    BY <2>1
  <2>3. pc # "await"
    BY DEF Early, Locking
  <2>4. /\ id # Id(c) => (Unwritten(id)' <=> Unwritten(id))
        /\ id = Id(c) => Unwritten(id) /\ Unwritten(id)'
    <3>1. Unwritten(Id(c)) /\ Unwritten(Id(c))' /\ (id # Id(c) => (Unwritten(id)' <=> Unwritten(id)))
      BY <1>3, <2>1, <2>2, <2>3
    <3>2. Id(c)' = Id(c)
      <4>1. pc \in Steps
        BY DEF Steps
      <4> QED BY <2>2, <4>1, GotoType DEF Id
    <3> QED BY <3>1, <3>2
  <2> QED BY <2>1, <2>4
<1>5. CASE Terminates(c) \/ Reaps(c) \/ Registers(c) \/ Locks(c) \/ Writes(c)
  <2>1. /\ \E pc \in Early \cup {"write", "writing", "await"} :
             Goto(c, pc) /\ (pc = "await" <=> call[c].pc = "writing")
        /\ call[c].pc \in Early \cup {"write", "writing"} /\ UNCHANGED at
        /\ Writes(c) => call[c].pc = "writing"
    BY <1>5 DEF Terminates, Reaps, Registers, Locks, Writes, Early, Locking
  <2>2. PICK pc \in Early \cup {"write", "writing", "await"} :
          Goto(c, pc) /\ (pc = "await" <=> call[c].pc = "writing")
    BY <2>1
  <2>3. /\ id # Id(c) => (Unwritten(id)' <=> Unwritten(id))
        /\ Unwritten(Id(c)) /\ (Unwritten(Id(c))' <=> pc # "await")
    BY <1>3, <2>1, <2>2
  <2> QED BY <2>1, <2>2, <2>3
<1>6. CASE Abandons(c) \/ Leaves(c)
  <2>1. /\ call[c].pc # "returned" /\ UNCHANGED at
        /\ \E outcome \in Results : Return(c, outcome)
    BY <1>6, StepNames DEF Abandons, Leaves
  <2>2. /\ \A d \in Calls \ {c} : call'[d] = call[d]
        /\ call'[c].pc \in {"returned", "cancelFailed", "grace"}
    BY <1>2, <2>1, ReturnType
  <2>3. Unwritten(id)' => Unwritten(id)
    BY <1>1, <2>2, TwoIds DEF Unwritten, Id
  <2>4. ~Writes(c)
    <3>1. ~(\A d \in Calls : call'[d].pc = IF d = c THEN "await" ELSE call[d].pc)
      BY <2>2
    <3> QED BY <3>1, StepNames, GotoType DEF Writes
  <2> QED BY <2>1, <2>3, <2>4
<1>7. CASE Cancels(c) \/ Gets(c)
  <2>1. /\ UNCHANGED at /\ ~Writes(c) /\ \A d \in Calls \ {c} : call'[d] = call[d]
        /\ call'[c].pc \notin {"write", "writing"}
    BY <1>7 DEF Cancels, Gets, Writes, Waiting
  <2>2. Unwritten(id)' => Unwritten(id)
    BY <1>1, <2>1, TwoIds DEF Unwritten, Id
  <2> QED BY <2>1, <2>2
<1> HIDE DEF done
<1>8. done
  BY <1>4, <1>5, <1>6, <1>7, CallDoes, Zenon DEF done
<1> QED BY <1>8 DEF done

LEMMA CallTally ==
  ASSUME TypeInv, Tokens, Tallied, NEW c \in Calls, Starts(c) \/ CallStep(c)
  PROVE  Tallied'
<1>0. /\ UNCHANGED <<reader, sent>> /\ call[c].pc # "returned" /\ Id(c) \in Ids /\ Id(c)[1] = c
      /\ \A d \in Calls : call'[d].kind = call[d].kind /\ (d # c => call'[d] = call[d])
      /\ \A id \in Ids : call'[id[1]].kind = call[id[1]].kind
  BY CallTells, IdType, TwoIds
<1>1. ASSUME NEW id \in Ids
      PROVE  /\ Unwritten(id)' => Unwritten(id)
             /\ at'[id] = at[id] \/ Unwritten(id)'
             /\ Writes(c) /\ id = Id(c) => Unwritten(id) /\ ~Unwritten(id)'
             /\ ~Unwritten(id) => at'[id] = at[id]
  <2>1. /\ Unwritten(id)' => Unwritten(id)
        /\ at'[id] = at[id] \/ Unwritten(id)'
        /\ Writes(c) => Unwritten(Id(c)) /\ ~Unwritten(Id(c))'
    BY CallWrites
  <2>2. Writes(c) => Id(c)' = Id(c)
    BY StepNames, GotoType DEF Writes, Id
  <2> QED BY <2>1, <2>2
<1>2. ASSUME NEW id \in Ids, NEW q \in Processes
      PROVE  /\ Wanted(id, q)' => Wanted(id, q) \/ (Writes(c) /\ id = Id(c) /\ q = at[id])
             /\ (id \in child'[q].pipe /\ id \in child'[q].inbox) => Wanted(id, q)
             /\ (id \in child'[q].pipe /\ id \in child'[q].inbox) =>
                  (id \in child[q].pipe /\ id \in child[q].inbox) \/ (Writes(c) /\ id = Id(c))
             /\ child'[q].out = child[q].out
  <2>1. CASE Writes(c)
    <3>1. /\ ChildKeeps(at[Id(c)], {"pipe"})
          /\ child'[at[Id(c)]].pipe = child[at[Id(c)]].pipe \cup {Id(c)}
      BY <2>1 DEF Writes
    <3> QED BY <2>1, <3>1 DEF ChildKeeps, Wanted
  <2>2. CASE Reaps(c)
    BY <2>2 DEF Reaps, ChildKeeps, Wanted
  <2>3. CASE Spawns(c)
    BY <2>3 DEF Spawns, ChildKeeps, Wanted
  <2>4. CASE UNCHANGED child
    BY <2>4 DEF Wanted
  <2> QED BY <2>1, <2>2, <2>3, <2>4, CallDoes
          DEF Walks, Replaces, Terminates, Registers, Locks, Abandons, Cancels, Gets, Leaves
<1>3. ASSUME NEW id \in Ids, NEW q \in Processes
      PROVE  /\ Printed(id, q)' = Printed(id, q) /\ (Ended(id, q)' <=> Ended(id, q))
             /\ Before(child'[q].out, ResultLines(id), {ControlLine(id)})
             /\ Carried(id, q)' = Carried(id, q) /\ (InHand(id, q)' <=> InHand(id, q))
             /\ HasAt(id, q) /\ SaysAt(id, q)
  <2>1. HasAt(id, q) /\ SaysAt(id, q)
    BY DEF Tallied
  <2>2. Before(child[q].out, ResultLines(id), {ControlLine(id)}) /\ reader'[q] = reader[q]
    BY <1>0, <2>1 DEF SaysAt
  <2> QED BY <1>2, <2>1, <2>2, OutSame, SameSteps
<1>4. ASSUME NEW id \in Ids
      PROVE  /\ Given(id)' => Given(id)
             /\ Before(mail'[id], {"answer"}, {"control"})
             /\ Queued(id, "control")' \in Nat /\ Queued(id, "control") \in Nat
             /\ Queued(id, "control") = 0 => Queued(id, "control")' = 0
             /\ id # Id(c) => Queued(id, "control")' = Queued(id, "control")
             /\ ~Gets(c) /\ ~Abandons(c) /\ ~Leaves(c) => Queued(id, "control")' = Queued(id, "control")
             /\ Gets(c) /\ id = Id(c) =>
                  Queued(id, "control") = IF Head(mail[Id(c)]) = "control" THEN Queued(id, "control")' + 1
                                                                           ELSE Queued(id, "control")'
  <2>1. Before(mail[id], {"answer"}, {"control"}) /\ Queued(id, "control") \in Nat
    BY MailType DEF Tallied, Latest
  <2>2. CASE mail'[id] = mail[id] /\ ~(Gets(c) /\ id = Id(c))
    BY <2>1, <2>2, MailSame
  <2>3. CASE (Abandons(c) \/ Leaves(c)) /\ id = Id(c) /\ ~Gets(c)
    <3>1. \E outcome \in Results : Return(c, outcome)
      BY <2>3, StepNames DEF Abandons, Leaves
    <3>2. mail'[id] = <<>>
      BY <2>3, <3>1, ReturnType DEF TypeInv, Typed
    <3> QED BY <2>1, <2>3, <3>2, MailEmptied
  <2>4. CASE Gets(c) /\ id = Id(c)
    <3>1. mail[id] # <<>> /\ mail'[id] = Tail(mail[id])
      BY <2>4 DEF Gets, TypeInv, Typed
    <3> QED BY <2>1, <2>4, <3>1, MailTaken
  <2>5. CASE (Abandons(c) \/ Leaves(c)) /\ id # Id(c)
    <3>1. \E outcome \in Results : Return(c, outcome)
      BY <2>5, StepNames DEF Abandons, Leaves
    <3>2. mail'[id] = mail[id]
      BY <1>0, <2>5, <3>1, ReturnType DEF TypeInv, Typed
    <3> QED BY <2>2, <2>5, <3>2
  <2>6. CASE Gets(c) /\ id # Id(c)
    <3>1. mail'[id] = mail[id]
      BY <1>0, <2>6 DEF Gets, TypeInv, Typed
    <3> QED BY <2>2, <2>6, <3>1
  <2>7. CASE UNCHANGED mail /\ ~Gets(c)
    BY <2>2, <2>7
  <2>8. Abandons(c) \/ Leaves(c) => ~Gets(c)
    <3>1. SUFFICES ASSUME Gets(c), Abandons(c) \/ Leaves(c) PROVE FALSE
      OBVIOUS
    <3>2. PICK outcome \in Results : Return(c, outcome)
      BY <3>1, StepNames DEF Abandons, Leaves
    <3>3. UNCHANGED call /\ call[c].pc \in {"await", "grace"} /\ call[c].stage \in {"call", "cancel"}
      BY <3>1 DEF Gets, Waiting, TypeInv, Typed, CallState
    <3>4. /\ call[c].stage = "call" => call'[c].pc = "returned"
          /\ call[c].stage = "cancel" => call'[c].stage = "call"
      BY <3>2, ReturnType
    <3> QED BY <3>3, <3>4
  <2>9. Abandons(c) \/ Leaves(c) \/ Gets(c) \/ UNCHANGED mail
    BY CallDoes DEF Walks, Replaces, Terminates, Reaps, Spawns, Registers, Locks, Writes, Cancels, Goto
  <2> QED BY <2>3, <2>4, <2>5, <2>6, <2>7, <2>8, <2>9
<1>5. \A d \in Calls : seen'[d] = IF Gets(c) /\ d = c /\ Head(mail[Id(c)]) = "control"
                                  THEN seen[d] + 1 ELSE seen[d]
  <2>1. seen \in [Calls -> Nat]
    BY DEF TypeInv, Typed
  <2>2. CASE Gets(c)
    BY <2>1, <2>2 DEF Gets
  <2>3. CASE ~Gets(c)
    <3>1. UNCHANGED seen
      BY <2>3, CallDoes DEF Walks, Replaces, Terminates, Reaps, Spawns, Registers, Locks, Writes,
                            Abandons, Cancels, Leaves
    <3> QED BY <2>3, <3>1
  <2> QED BY <2>2, <2>3
<1>6. OnlyOperations'
  <2>1. /\ \A d \in Calls : call[d].kind # "long" => call[d].stage = "call"
        /\ \A d \in Calls : call[d].kind # "operation" => sent[d] = 0 /\ seen[d] = 0
        /\ \A id \in Ids : call[id[1]].kind # "operation" => Queued(id, "control") = 0
        /\ \A p \in Processes : reader[p].pc = "queue" => call[reader[p].held.id[1]].kind = "operation"
    BY DEF Tallied, OnlyOperations
  <2>2. \A d \in Calls : call'[d].kind # "long" => call'[d].stage = "call"
    BY <1>0, <2>1, CallTells
  <2>3. ASSUME NEW d \in Calls, call'[d].kind # "operation" PROVE sent'[d] = 0 /\ seen'[d] = 0
    <3>1. Gets(c) /\ d = c => Queued(Id(c), "control") = 0
      BY <1>0, <2>1, <2>3
    <3>2. Gets(c) /\ d = c => Head(mail[Id(c)]) # "control"
      BY <1>0, <1>4, <3>1
    <3> QED BY <1>0, <1>5, <2>1, <2>3, <3>2
  <2>4. \A id \in Ids : call'[id[1]].kind # "operation" => Queued(id, "control")' = 0
    BY <1>0, <1>4, <2>1
  <2>5. ASSUME NEW p \in Processes, reader'[p].pc = "queue"
        PROVE  call'[reader'[p].held.id[1]].kind = "operation"
    <3>1. reader[p].held.id \in Ids
      BY <1>0, <2>5, LineType DEF TypeInv, Placed
    <3> QED BY <1>0, <2>1, <2>5, <3>1
  <2> QED BY <2>2, <2>3, <2>4, <2>5 DEF OnlyOperations
<1>7. ASSUME NEW id \in Ids, NEW q \in Processes PROVE HasAt(id, q)' /\ SaysAt(id, q)'
  <2>1. HasAt(id, q) /\ SaysAt(id, q)
    BY <1>3
  <2>2. SaysAt(id, q)'
    <3>1. Ended(id, q) => ~Unwritten(id) /\ ~Wanted(id, q)
      BY <2>1 DEF SaysAt
    <3>2. Ended(id, q)' => ~Wanted(id, q)'
      BY <1>1, <1>2, <1>3, <3>1
    <3> QED BY <1>1, <1>3, <2>1, <3>2 DEF SaysAt
  <2>3. ASSUME Wanted(id, q)', Wanted(id, q) PROVE HasAt(id, q)'
    <3>1. /\ ~Unwritten(id) /\ at[id] = q /\ ~(id \in child[q].pipe /\ id \in child[q].inbox)
          /\ call[id[1]].kind = "operation" => id[2] = "call"
      BY <2>1, <2>3 DEF HasAt
    <3> QED BY <1>0, <1>1, <1>2, <3>1 DEF HasAt
  <2>4. ASSUME ~Wanted(id, q), Writes(c), id = Id(c), q = at[id] PROVE HasAt(id, q)'
    <3>1. call[id[1]].kind = "operation" => id[2] = "call"
      BY <1>0, <2>4, IdType DEF Tallied, OnlyOperations, Id
    <3>2. ~Unwritten(id)' /\ at'[id] = at[id]
      BY <1>1, <2>4
    <3> QED BY <1>0, <1>2, <2>4, <3>1, <3>2 DEF HasAt
  <2>5. HasAt(id, q)'
    BY <1>2, <2>3, <2>4 DEF HasAt
  <2> QED BY <2>2, <2>5
<1>8. ASSUME NEW id \in Ids PROVE Latest(id)'
  <2>1. Latest(id)
    BY DEF Tallied
  <2>2. ASSUME Given(id) \/ \E q \in Processes : InHand(id, q), NEW q \in Processes
        PROVE  Told(id, q)'
    <3>1. Told(id, q) /\ ~Unwritten(id)
      BY <1>3, <2>1, <2>2 DEF Latest, SaysAt
    <3> QED BY <1>1, <1>2, <1>3, <3>1 DEF Told
  <2> QED BY <1>1, <1>3, <1>4, <2>1, <2>2 DEF Latest
<1>9. ASSUME NEW d \in Calls, call'[d].kind = "operation" PROVE Tally(d)'
  <2> DEFINE id == Request(d)
  <2>0. /\ id \in Ids /\ id[1] = d /\ Tally(d) /\ call[d].kind = "operation" /\ call[d].stage = "call"
        /\ d = c => id = Id(c)
        /\ sent[d] \in Nat /\ seen[d] \in Nat /\ sent'[d] = sent[d]
    <3>1. call[d].stage = "call" /\ Tally(d) /\ call[d].kind = "operation"
      BY <1>0, <1>9 DEF Tallied, OnlyOperations
    <3> QED BY <1>0, <3>1, RequestType DEF Request, Id, TypeInv, Typed
  <2>1. Latest(id) /\ \A p \in Processes : HasAt(id, p) /\ SaysAt(id, p) /\ SaysAt(id, p)'
    BY <1>3, <1>7, <2>0 DEF Tallied
  <2>2. d # c => id # Id(c)
    BY <1>0, <2>0
  <2>3. /\ Unwritten(id) => sent[d] = seen[d] /\ Queued(id, "control") = 0
        /\ \A p \in Processes : at[id] = p /\ call[d].pc # "returned" =>
             Lost(id, p) \/ sent[d] = seen[d] + OnTheWay(id, p)
        /\ call[d].outcome = "answer" =>
             call[d].pc = "returned" /\ sent[d] = seen[d] /\ \A p \in Processes : ~Wanted(id, p)
    BY <2>0 DEF Tally
  <2> HIDE DEF id
  <2>4. Unwritten(id)' => sent'[d] = seen'[d] /\ Queued(id, "control")' = 0
    <3>1. SUFFICES ASSUME Unwritten(id)' PROVE sent'[d] = seen'[d] /\ Queued(id, "control")' = 0
      OBVIOUS
    <3>2. Unwritten(id) /\ Queued(id, "control") = 0 /\ Queued(id, "control")' = 0
      BY <1>1, <1>4, <2>0, <2>3, <3>1
    <3>3. ~(Gets(c) /\ d = c /\ Head(mail[Id(c)]) = "control")
      BY <1>4, <2>0, <3>2
    <3> QED BY <1>5, <2>0, <2>3, <3>2, <3>3
  <2>5. ASSUME NEW p \in Processes, at'[id] = p, call'[d].pc # "returned"
        PROVE  Lost(id, p)' \/ sent'[d] = seen'[d] + OnTheWay(id, p)'
    <3>1. /\ Printed(id, p) \in Nat /\ Carried(id, p) \in {0, 1}
          /\ Printed(id, p)' = Printed(id, p) /\ Carried(id, p)' = Carried(id, p)
          /\ Queued(id, "control") \in Nat /\ Queued(id, "control")' \in Nat
      BY <1>3, <1>4, <2>0, OutType
    <3>2. CASE Unwritten(id)'
      <4>1. Printed(id, p)' = 0 /\ Carried(id, p)' = 0
        BY <2>1, <3>2 DEF SaysAt
      <4> QED BY <2>0, <2>4, <3>1, <3>2, <4>1, <1>5 DEF OnTheWay
    <3>3. CASE ~Unwritten(id)'
      <4>1. at[id] = p /\ call[d].pc # "returned"
        BY <1>0, <1>1, <2>0, <2>5, <3>3
      <4>2. CASE Lost(id, p)
        <5>1. reader'[p] = reader[p] /\ ~Given(id)'
          BY <1>0, <1>4, <2>0, <4>2 DEF Lost
        <5> QED BY <4>2, <5>1 DEF Lost
      <4>3. CASE sent[d] = seen[d] + OnTheWay(id, p)
        <5>1. CASE Gets(c) /\ d = c
          <6>1. /\ seen'[d] = IF Head(mail[Id(c)]) = "control" THEN seen[d] + 1 ELSE seen[d]
                /\ Queued(id, "control") = IF Head(mail[Id(c)]) = "control"
                                           THEN Queued(id, "control")' + 1 ELSE Queued(id, "control")'
            BY <1>4, <1>5, <2>0, <5>1
          <6> QED BY <2>0, <3>1, <4>3, <6>1 DEF OnTheWay
        <5>2. CASE ~(Gets(c) /\ d = c)
          <6>1. Queued(id, "control")' = Queued(id, "control")
            <7>1. d = c => ~Abandons(c) /\ ~Leaves(c)
              BY <2>0, <2>5, CallTells
            <7> QED BY <1>4, <2>0, <2>2, <5>2, <7>1
          <6>2. seen'[d] = seen[d]
            BY <1>5, <5>2
          <6> QED BY <2>0, <3>1, <4>3, <6>1, <6>2 DEF OnTheWay
        <5> QED BY <5>1, <5>2
      <4> QED BY <2>3, <4>1, <4>2, <4>3
    <3> QED BY <3>2, <3>3
  <2>6. ASSUME call'[d].outcome = "answer"
        PROVE  call'[d].pc = "returned" /\ sent'[d] = seen'[d] /\ \A p \in Processes : ~Wanted(id, p)'
    <3>1. CASE call[d].outcome = "answer"
      <4>1. d # c /\ call'[d] = call[d] /\ id # Id(c)
        BY <1>0, <2>2, <2>3, <3>1
      <4> QED BY <1>2, <1>5, <2>0, <2>3, <3>1, <4>1
    <3>2. CASE call[d].outcome # "answer"
      <4>1. d = c
        BY <1>0, <2>6, <3>2
      <4>2. /\ call'[c].pc = "returned" /\ Waiting(c) /\ mail[id] # <<>> /\ Head(mail[id]) = "answer"
            /\ ~Gets(c)
        BY <2>0, <2>6, <3>2, <4>1, CallTells
      <4>3. Given(id) /\ Queued(id, "control") = 0 /\ \A p \in Processes : Told(id, p)
        BY <2>0, <2>1, <4>2, MailTaken DEF Latest
      <4>4. at[id] \in Processes
        BY <2>0, <4>1, <4>2, IdType DEF Waiting, Unplaced
      <4>5. sent[d] = seen[d]
        <5>1. PICK p \in Processes : p = at[id]
          BY <4>4
        <5>2. Lost(id, p) \/ sent[d] = seen[d] + OnTheWay(id, p)
          BY <1>0, <2>3, <4>1, <5>1
        <5>3. ~Lost(id, p) /\ OnTheWay(id, p) = 0
          BY <4>3 DEF Lost, Told, OnTheWay
        <5> QED BY <2>0, <5>2, <5>3
      <4>6. ~Writes(c)
        BY <4>2 DEF Writes, Waiting
      <4> QED BY <1>2, <1>5, <2>0, <4>1, <4>2, <4>3, <4>5, <4>6 DEF Told
    <3> QED BY <3>1, <3>2
  <2> QED BY <2>4, <2>5, <2>6 DEF Tally, id
<1> QED BY <1>6, <1>7, <1>8, <1>9 DEF Tallied

(* An operation that ends with an answer has received every control event   *)
(* the child sent: those the reader could not queue fail the process, and   *)
(* the answer comes last.                                                   *)
THEOREM EventsArrive == Spec => []ControlEventsArrive
<1> DEFINE I == TypeInv /\ Tokens /\ Tallied
<1>1. Init => I
  <2> SUFFICES ASSUME Init PROVE Tallied
    BY BackendInit, AnsweredInit
  <2>0. /\ \A c \in Calls : /\ call[c].pc = "idle" /\ call[c].stage = "call"
                            /\ call[c].outcome = None /\ sent[c] = 0 /\ seen[c] = 0
        /\ \A p \in Processes : /\ reader[p].pc = "read" /\ child[p].out = <<>>
                                /\ child[p].pipe = {} /\ child[p].inbox = {}
        /\ \A id \in Ids : mail[id] = <<>>
    BY DEF Init
  <2>1. ASSUME NEW id \in Ids, NEW p \in Processes
        PROVE  HasAt(id, p) /\ SaysAt(id, p) /\ ~Wanted(id, p) /\ ~InHand(id, p)
               /\ Printed(id, p) = 0 /\ Carried(id, p) = 0
    <3>1. Printed(id, p) = 0 /\ ~Ended(id, p) /\ Before(child[p].out, ResultLines(id), {ControlLine(id)})
      BY <2>0, CountEmpty DEF Printed, Ended, Before
    <3> QED BY <2>0, <3>1 DEF HasAt, SaysAt, Wanted, InHand, Carried
  <2>2. ASSUME NEW id \in Ids PROVE Latest(id) /\ Queued(id, "control") = 0
    <3>1. Queued(id, "control") = 0 /\ ~Given(id) /\ Before(mail[id], {"answer"}, {"control"})
      BY <2>0, CountEmpty DEF Queued, Given, Before
    <3> QED BY <2>1, <3>1 DEF Latest
  <2>3. ASSUME NEW c \in Calls PROVE Tally(c)
    <3>1. Request(c) \in Ids
      BY RequestType
    <3>2. call[c].outcome # "answer"
      BY <2>0, ClientAssumption
    <3> QED BY <2>0, <2>1, <2>2, <3>1, <3>2 DEF Tally, OnTheWay
  <2>4. OnlyOperations
    BY <2>0, <2>2 DEF OnlyOperations
  <2> QED BY <2>1, <2>2, <2>3, <2>4 DEF Tallied
<1>2. I /\ [Next]_vars => I'
  <2> SUFFICES ASSUME TypeInv, Tokens, Tallied, [Next]_vars PROVE Tallied'
    BY TypeStep, TokensStep
  <2> QED BY CallTally, OthersTally DEF Next
<1>3. I => ControlEventsArrive
  <2> SUFFICES ASSUME Tallied, NEW c \in Calls, call[c].outcome = "answer" PROVE seen[c] = sent[c]
    BY DEF ControlEventsArrive
  <2> QED BY DEF Tallied, OnlyOperations, Tally
<1> HIDE DEF I
<1>4. Spec => []I
  BY <1>1, <1>2, PTL DEF Spec
<1> QED BY <1>3, <1>4, PTL
=============================================================================
