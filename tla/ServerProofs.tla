---------------------------- MODULE ServerProofs ----------------------------
(***************************************************************************)
(* Proofs about the server of `luxury stdio`: whatever the requests, the   *)
(* capacity of the channel and the events of a mutation, its workers are   *)
(* joined, cancels hit what they name, and each request has its events in  *)
(* order, with none that matters missing, before its only answer.          *)
(***************************************************************************)
EXTENDS StdioServer, TLAPS

Pcs == {"none", "run", "compute", "flush", "flushing", "control", "join", "done", "ended"}

WorkerState ==
  [pc : Pcs, cancel : BOOLEAN, emitted : Seq({"progress", "control"}), pending : Nat, hand : Nat,
   after : {"control", "join"}, ticker : {"waits", "ended"}, tick : Nat]

MessageType ==
  [type : {"request", "event", "done"}, of : Requests, n : Nat]
    \cup [type : {"inputError", "inputClosed"}, of : {None}, n : {0}]

LineType ==
  [kind : {"answer", "rejected", "accepted"}, of : Requests \cup {None}, n : Nat]
    \cup [kind : {"progress", "control"}, of : Requests, n : Nat]

(* Every variable has its type.                                             *)
TypeInv ==
  /\ sent \in Seq(Request) /\ Len(sent) <= MaxRequests
  /\ stdin \in {"open", "closed", "broken"} /\ input \in {"reading", "failed", "ended"}
  /\ channel \in Seq(MessageType) /\ out \in Seq(LineType)
  /\ mutation \in Requests \cup {None} /\ operation \in Requests \cup {None}
  /\ shutting \in BOOLEAN /\ outputFailed \in BOOLEAN
  /\ serving \in {"ready", "cancelling", "exited"}
  /\ cancelling \in [by : Requests \cup {None}, hit : Requests \cup {None}]
  /\ worker \in [Requests -> WorkerState]

-----------------------------------------------------------------------------
(* The inductive invariant.  A worker, its lock and its ticker: at most one *)
(* of the pending progress, the flush and the ticker holds an event, and    *)
(* that is the latest progress before the control event that waits for the  *)
(* flush, if one does.                                                      *)
Held(w)  == {w.pending, w.hand, w.tick} \ {0}
Waits(w) == w.pc = "control" \/ (w.pc \in {"flush", "flushing"} /\ w.after = "control")
Base(w)  == IF Waits(w) THEN Len(w.emitted) - 1 ELSE Len(w.emitted)

WorkerOK(w) ==
  /\ w.pc \in {"none", "compute", "done", "ended"} => w.ticker = "ended"
  /\ w.pc \in {"none", "compute", "control", "join", "done", "ended"} => Held(w) = {}
  /\ w.pc = "flushing" <=> w.hand # 0
  /\ w.hand # 0 => w.pending = 0 /\ w.tick = 0
  /\ w.tick # 0 => w.pending = 0
  /\ Waits(w) => Len(w.emitted) # 0 /\ w.emitted[Len(w.emitted)] = "control"
  /\ Held(w) \subseteq {Base(w)}
  /\ \A h \in Held(w) : w.emitted[h] = "progress"
  /\ w.pc = "none" => w.emitted = <<>> /\ ~w.cancel

WorkersOK == \A r \in Requests : WorkerOK(worker[r])

HasEvents == {"run", "flush", "flushing", "control", "join"}

(* Requests are handled one by one; a worker has been asked for, and a      *)
(* cancel is answered for a request that is active.                         *)
Asked ==
  /\ \A r \in Requests : worker[r].pc # "none" => r <= Len(sent) /\ sent[r].kind # "cancel"
  /\ \A k \in DOMAIN out : out[k].of # None => out[k].of <= Len(sent)
  /\ \A r \in ActiveSet : worker[r].pc # "none"
  /\ \A p \in DOMAIN channel : channel[p].type = "request" =>
       LET r == channel[p].of IN
       /\ r <= Len(sent) /\ worker[r].pc = "none"
       /\ \A k \in DOMAIN out : out[k].of # r
       /\ \A q \in DOMAIN channel : channel[q].type = "request" /\ channel[q].of = r => q = p
  /\ serving = "cancelling" =>
       LET r == cancelling.by IN
       /\ r \in Requests /\ r <= Len(sent) /\ sent[r].kind = "cancel"
       /\ \A k \in DOMAIN out : out[k].of # r
       /\ \A q \in DOMAIN channel : channel[q].type = "request" => channel[q].of # r
       /\ cancelling.hit \in ActiveSet /\ sent[cancelling.hit].kind # "launch"
       /\ Id(cancelling.hit) = sent[r].target

(* At most one request is active, from the start of its worker until the    *)
(* result is handled, which comes after all its events.                     *)
Slots ==
  /\ mutation = None \/ operation = None
  /\ mutation # None => sent[mutation].kind \in {"mutation", "launch"}
  /\ operation # None => sent[operation].kind = "operation"
  /\ \A r \in Requests :
       /\ Alive(r) => r \in ActiveSet
       /\ worker[r].pc \in HasEvents => sent[r].kind = "mutation"
       /\ worker[r].pc = "ended" => r \in ActiveSet \/ Answered(r) \/ outputFailed
  /\ \A p \in DOMAIN channel :
       /\ channel[p].type = "done" =>
            /\ channel[p].of \in ActiveSet /\ worker[channel[p].of].pc = "ended"
            /\ \A q \in DOMAIN channel :
                 channel[q].of = channel[p].of /\ channel[q].type \in {"done", "event"} => q <= p
       /\ channel[p].type = "event" => channel[p].of = mutation
  /\ \A r \in ActiveSet : ~Answered(r)
  /\ serving = "exited" => ActiveSet = {}

(* Event n of r is on its way to the client.                                *)
Written(r, n) == \E k \in DOMAIN out : out[k].of = r /\ IsEvent(out[k]) /\ out[k].n = n
Queued(r, n)  ==
  \E p \in DOMAIN channel : channel[p].type = "event" /\ channel[p].of = r /\ channel[p].n = n

(* It was emitted before what the worker still holds.                       *)
Emitted(r, n) == n \in 1 .. Base(worker[r]) /\ n \notin Held(worker[r])

(* Events are queued and written in the order of their numbers.             *)
Flow ==
  /\ \A k \in DOMAIN out : IsEvent(out[k]) =>
       /\ Emitted(out[k].of, out[k].n) /\ out[k].kind = worker[out[k].of].emitted[out[k].n]
       /\ \A p \in DOMAIN channel :
            channel[p].type = "event" /\ channel[p].of = out[k].of => out[k].n < channel[p].n
  /\ \A p \in DOMAIN channel : channel[p].type = "event" =>
       /\ Emitted(channel[p].of, channel[p].n)
       /\ \A q \in DOMAIN channel :
            q < p /\ channel[q].type = "event" => channel[q].n < channel[p].n

Serves == TypeInv /\ WorkersOK /\ Asked /\ Slots /\ Flow

-----------------------------------------------------------------------------
(* Lemmas on sequences: one element more, or the first one less.            *)

Grown(s, t, e) ==
  /\ Len(s) \in Nat /\ Len(t) = Len(s) + 1
  /\ DOMAIN s = 1 .. Len(s) /\ DOMAIN t = 1 .. Len(s) + 1
  /\ \A i \in DOMAIN s : t[i] = s[i]
  /\ t[Len(s) + 1] = e
  /\ \A i \in DOMAIN t : (i \in DOMAIN s /\ t[i] = s[i]) \/ (i = Len(s) + 1 /\ t[i] = e)

Shrunk(s, t) ==
  /\ Len(s) \in Nat \ {0} /\ Len(t) = Len(s) - 1
  /\ DOMAIN s = 1 .. Len(s) /\ DOMAIN t = 1 .. Len(s) - 1
  /\ \A i \in DOMAIN t : t[i] = s[i + 1]
  /\ Head(s) = s[1]

(* Append adds one element at the end.                                      *)
LEMMA Grows ==
  ASSUME NEW S, NEW s \in Seq(S), NEW e \in S
  PROVE  Append(s, e) \in Seq(S) /\ Grown(s, Append(s, e), e)
BY DEF Grown

(* Tail drops the first element and moves the others up.                    *)
LEMMA Shrinks ==
  ASSUME NEW S, NEW s \in Seq(S), s # <<>>
  PROVE  Tail(s) \in Seq(S) /\ Shrunk(s, Tail(s))
BY DEF Shrunk

-----------------------------------------------------------------------------
(* What a step does, in the terms of the invariant.  A step of a worker or  *)
(* of its ticker: it changes that worker and may send one message.          *)

Mailed(type, r, n) == [type |-> type, of |-> r, n |-> n]

Mine(r) ==
  LET w == worker[r] v == worker'[r] IN
  /\ Alive(r) /\ v \in WorkerState /\ WorkerOK(v) /\ v.pc # "none"
  /\ v.cancel = w.cancel
  /\ Len(w.emitted) <= Len(v.emitted)
  /\ \A i \in 1 .. Len(w.emitted) : v.emitted[i] = w.emitted[i]
  /\ v.pc \in HasEvents => w.pc \in HasEvents

(* It keeps what it has to itself: an event emitted, taken or replaced.     *)
Keeps(r) ==
  /\ channel' = channel /\ worker'[r].pc # "ended"
  /\ \/ Base(worker'[r]) = Base(worker[r]) /\ Held(worker'[r]) = Held(worker[r])
     \/ /\ Base(worker'[r]) = Base(worker[r]) + 1 /\ Held(worker'[r]) = {Base(worker[r]) + 1}
        /\ worker'[r].emitted[Base(worker[r]) + 1] = "progress"

(* It sends progress that was held.                                         *)
SendsProgress(r) ==
  LET b == Base(worker[r]) IN
  /\ channel' = Append(channel, Mailed("event", r, b)) /\ worker'[r].pc # "ended"
  /\ Held(worker[r]) = {b} /\ worker[r].emitted[b] = "progress"
  /\ Held(worker'[r]) = {} /\ Base(worker'[r]) = b /\ worker[r].pc \in HasEvents

(* It sends the control event for which all progress has been flushed.      *)
SendsControl(r) ==
  LET b == Base(worker[r]) + 1 IN
  /\ channel' = Append(channel, Mailed("event", r, b)) /\ worker'[r].pc # "ended"
  /\ b = Len(worker[r].emitted) /\ worker[r].emitted[b] = "control"
  /\ Held(worker[r]) = {} /\ Held(worker'[r]) = {} /\ Base(worker'[r]) = b
  /\ worker[r].pc \in HasEvents

(* It sends the result.                                                     *)
SendsResult(r) ==
  /\ channel' = Append(channel, Mailed("done", r, 0))
  /\ worker[r].pc = "done" /\ worker'[r].pc = "ended"
  /\ Held(worker[r]) = {} /\ Held(worker'[r]) = {}
  /\ worker'[r].emitted = worker[r].emitted
  /\ Base(worker'[r]) = Base(worker[r])

Moves(r) ==
  /\ UNCHANGED <<sent, stdin, input, loop>>
  /\ worker' \in [Requests -> WorkerState]
  /\ \A s \in Requests : s # r => worker'[s] = worker[s]
  /\ Mine(r)
  /\ Keeps(r) \/ SendsProgress(r) \/ SendsControl(r) \/ SendsResult(r)

(* A worker after one of its fields has changed is a worker again.          *)
LEMMA Becoming ==
  ASSUME worker \in [Requests -> WorkerState], NEW r \in Requests, NEW w \in WorkerState,
         Becomes(r, w)
  PROVE  /\ worker' \in [Requests -> WorkerState] /\ worker'[r] = w
         /\ \A s \in Requests : s # r => worker'[s] = worker[s]
BY DEF Becomes

(* So is one that has emitted an event.                                     *)
LEMMA EmittedMore ==
  ASSUME NEW w \in WorkerState
  PROVE  /\ [w EXCEPT !.emitted = Append(@, "progress"), !.pending = Len(w.emitted) + 1]
              \in WorkerState
         /\ [w EXCEPT !.emitted = Append(@, "control"), !.pc = "flush", !.after = "control"]
              \in WorkerState
<1>1. \A e \in Seq({"progress", "control"}), n \in Nat :
           [w EXCEPT !.emitted = e, !.pending = n] \in WorkerState
  BY DEF WorkerState, Pcs
<1>2. \A e \in Seq({"progress", "control"}) :
         [w EXCEPT !.emitted = e, !.pc = "flush", !.after = "control"] \in WorkerState
  BY DEF WorkerState, Pcs
<1>3. /\ Append(w.emitted, "progress") \in Seq({"progress", "control"})
      /\ Append(w.emitted, "control") \in Seq({"progress", "control"})
      /\ Len(w.emitted) + 1 \in Nat
  BY DEF WorkerState
<1> QED BY <1>1, <1>2, <1>3, Zenon

(* Every step of a worker or its ticker is a move.                          *)
LEMMA WorkerMoves ==
  ASSUME TypeInv, WorkersOK, NEW r \in Requests, WorkerStep(r) \/ TickerStep(r)
  PROVE  Moves(r)
<1> DEFINE w == worker[r]
<1>0. w \in WorkerState /\ WorkerOK(w) /\ worker \in [Requests -> WorkerState]
  BY DEF TypeInv, WorkersOK
<1>1. UNCHANGED <<sent, stdin, input, loop>>
  BY DEF WorkerStep, TickerStep
<1>e. /\ w.emitted \in Seq({"progress", "control"}) /\ Len(w.emitted) \in Nat
      /\ w.pending \in Nat /\ w.hand \in Nat /\ w.tick \in Nat
  BY <1>0 DEF WorkerState
<1>2. CASE EmitProgress(r)
  <2> DEFINE v == [w EXCEPT !.emitted = Append(@, "progress"), !.pending = Len(w.emitted) + 1]
  <2>1. Becomes(r, v) /\ w.pc = "run" /\ w.hand = 0 /\ w.tick = 0 /\ channel' = channel
    BY <1>2 DEF EmitProgress, At, LockFree
  <2>2. Grown(w.emitted, v.emitted, "progress") /\ v.emitted \in Seq({"progress", "control"})
    BY <1>0, <1>e, Grows DEF WorkerState
  <2>3. v \in WorkerState
    BY <1>0, EmittedMore, Zenon
  <2>4. v.pc = "run" /\ v.hand = 0 /\ v.tick = 0 /\ v.pending = Len(w.emitted) + 1
    BY <1>0, <2>1 DEF WorkerState
  <2>5. Held(v) = {Len(w.emitted) + 1} /\ Base(v) = Len(w.emitted) + 1 /\ Base(w) = Len(w.emitted)
    BY <1>e, <2>1, <2>2, <2>4 DEF Held, Base, Waits, Grown
  <2>6. WorkerOK(v)
    BY <1>e, <2>2, <2>4, <2>5 DEF WorkerOK, Grown, Waits
  <2>7. worker'[r] = v /\ worker' \in [Requests -> WorkerState]
        /\ \A s \in Requests : s # r => worker'[s] = worker[s]
    BY <1>0, <2>1, <2>3, Becoming
  <2>8. v.cancel = w.cancel
    BY <1>0 DEF WorkerState
  <2>9. Mine(r)
    BY <2>1, <2>2, <2>3, <2>4, <2>6, <2>7, <2>8 DEF Mine, Alive, Grown, HasEvents
  <2>10. Keeps(r)
    BY <1>e, <2>1, <2>2, <2>4, <2>5, <2>7 DEF Keeps, Grown
  <2> QED BY <1>1, <2>7, <2>9, <2>10 DEF Moves
<1>3. CASE EmitControl(r)
  <2> DEFINE v == [w EXCEPT !.emitted = Append(@, "control"), !.pc = "flush", !.after = "control"]
  <2>1. Becomes(r, v) /\ w.pc = "run" /\ channel' = channel
    BY <1>3 DEF EmitControl, At
  <2>2. Grown(w.emitted, v.emitted, "control") /\ v.emitted \in Seq({"progress", "control"})
    BY <1>0, <1>e, Grows DEF WorkerState
  <2>3. v \in WorkerState
    BY <1>0, EmittedMore, Zenon
  <2>4. /\ v.pc = "flush" /\ v.hand = w.hand /\ v.tick = w.tick /\ v.pending = w.pending
        /\ v.after = "control" /\ v.ticker = w.ticker /\ v.cancel = w.cancel
    BY <1>0, <2>1 DEF WorkerState
  <2>5. Held(v) = Held(w) /\ Base(v) = Len(w.emitted) /\ Base(w) = Len(w.emitted)
    BY <1>e, <2>1, <2>2, <2>4 DEF Held, Base, Waits, Grown
  <2>6. WorkerOK(v)
    <3>1. w.hand = 0
      BY <1>0, <2>1 DEF WorkerOK
    <3>2. \A h \in Held(v) : v.emitted[h] = "progress"
      BY <1>0, <1>e, <2>2, <2>5 DEF WorkerOK, Grown, Held
    <3>3. v.tick # 0 => v.pending = 0
      BY <1>0, <2>4 DEF WorkerOK
    <3>4. Held(v) \subseteq {Base(v)}
      BY <1>0, <2>5 DEF WorkerOK
    <3>5. Len(v.emitted) # 0 /\ v.emitted[Len(v.emitted)] = "control"
      BY <1>e, <2>2 DEF Grown
    <3> HIDE DEF v
    <3> QED BY <2>4, <3>1, <3>2, <3>3, <3>4, <3>5 DEF WorkerOK
  <2>7. worker'[r] = v /\ worker' \in [Requests -> WorkerState]
        /\ \A s \in Requests : s # r => worker'[s] = worker[s]
    BY <1>0, <2>1, <2>3, Becoming
  <2>9. Mine(r)
    BY <2>1, <2>2, <2>3, <2>4, <2>6, <2>7 DEF Mine, Alive, Grown, HasEvents
  <2>10. Keeps(r)
    BY <1>e, <2>1, <2>2, <2>4, <2>5, <2>7 DEF Keeps, Grown
  <2> QED BY <1>1, <2>7, <2>9, <2>10 DEF Moves
<1>4. CASE Returns(r)
  <2> DEFINE v == [w EXCEPT !.pc = "flush", !.after = "join"]
  <2>1. Becomes(r, v) /\ w.pc = "run" /\ channel' = channel
    BY <1>4 DEF Returns, At
  <2>3. v \in WorkerState
    BY <1>0, <1>e DEF WorkerState, Pcs
  <2>4. /\ v.pc = "flush" /\ v.hand = w.hand /\ v.tick = w.tick /\ v.pending = w.pending
        /\ v.after = "join" /\ v.ticker = w.ticker /\ v.cancel = w.cancel /\ v.emitted = w.emitted
    BY <1>0, <2>1 DEF WorkerState
  <2>5. Held(v) = Held(w) /\ Base(v) = Base(w)
    BY <1>e, <2>1, <2>4 DEF Held, Base, Waits
  <2>6. WorkerOK(v)
    BY <1>0, <1>e, <2>1, <2>4, <2>5 DEF WorkerOK, Waits
  <2>7. worker'[r] = v /\ worker' \in [Requests -> WorkerState]
        /\ \A s \in Requests : s # r => worker'[s] = worker[s]
    BY <1>0, <2>1, <2>3, Becoming
  <2>9. Mine(r)
    BY <1>e, <2>1, <2>3, <2>4, <2>6, <2>7 DEF Mine, Alive, HasEvents
  <2>10. Keeps(r)
    BY <2>1, <2>4, <2>5, <2>7 DEF Keeps
  <2> QED BY <1>1, <2>7, <2>9, <2>10 DEF Moves
<1>5. CASE FlushTakes(r)
  <2>1. w.pc = "flush" /\ w.hand = 0 /\ w.tick = 0 /\ channel' = channel
    BY <1>5 DEF FlushTakes, At, LockFree
  <2>2. PICK v \in WorkerState :
          /\ Becomes(r, v) /\ v.cancel = w.cancel /\ v.emitted = w.emitted /\ v.tick = w.tick
          /\ v.after = w.after /\ v.ticker = w.ticker
          /\ \/ w.pending = 0 /\ v.pc = w.after /\ v.pending = 0 /\ v.hand = 0
             \/ w.pending # 0 /\ v.pc = "flushing" /\ v.hand = w.pending /\ v.pending = 0
    <3>1. CASE w.pending = 0
      <4> DEFINE v == [w EXCEPT !.pc = w.after]
      <4>1. Becomes(r, v)
        BY <1>5, <3>1 DEF FlushTakes
      <4>2. v \in WorkerState /\ v.pc = w.after /\ v.pending = 0 /\ v.hand = 0
            /\ v.cancel = w.cancel /\ v.emitted = w.emitted /\ v.tick = w.tick
            /\ v.after = w.after /\ v.ticker = w.ticker
        BY <1>0, <2>1, <3>1 DEF WorkerState, Pcs
      <4> QED BY <3>1, <4>1, <4>2
    <3>2. CASE w.pending # 0
      <4> DEFINE v == [w EXCEPT !.pc = "flushing", !.hand = w.pending, !.pending = 0]
      <4>1. Becomes(r, v)
        BY <1>5, <3>2 DEF FlushTakes
      <4>2. v \in WorkerState /\ v.pc = "flushing" /\ v.pending = 0 /\ v.hand = w.pending
            /\ v.cancel = w.cancel /\ v.emitted = w.emitted /\ v.tick = w.tick
            /\ v.after = w.after /\ v.ticker = w.ticker
        BY <1>0, <2>1, <3>2 DEF WorkerState, Pcs
      <4> QED BY <3>2, <4>1, <4>2
    <3> QED BY <3>1, <3>2
  <2>3. w.after \in {"control", "join"}
    BY <1>0 DEF WorkerState
  <2>4. Held(v) = Held(w)
    BY <2>1, <2>2 DEF Held
  <2>5. Base(v) = Base(w) /\ (Waits(v) <=> Waits(w))
    BY <1>e, <2>1, <2>2, <2>3 DEF Base, Waits
  <2>h. w.pending = 0 => Held(w) = {}
    BY <2>1 DEF Held
  <2>6. WorkerOK(v)
    BY <1>0, <1>e, <2>1, <2>2, <2>3, <2>4, <2>5, <2>h DEF WorkerOK
  <2>7. worker'[r] = v /\ worker' \in [Requests -> WorkerState]
        /\ \A s \in Requests : s # r => worker'[s] = worker[s]
    BY <1>0, <2>2, Becoming
  <2>9. Mine(r)
    BY <1>e, <2>1, <2>2, <2>3, <2>6, <2>7 DEF Mine, Alive, HasEvents
  <2>10. Keeps(r)
    BY <2>1, <2>2, <2>3, <2>4, <2>5, <2>7 DEF Keeps
  <2> QED BY <1>1, <2>7, <2>9, <2>10 DEF Moves
<1>6. CASE FlushSends(r)
  <2> DEFINE v == [w EXCEPT !.pc = w.after, !.hand = 0]
  <2>1. Becomes(r, v) /\ w.pc = "flushing" /\ channel' = Append(channel, Mailed("event", r, w.hand))
    BY <1>6 DEF FlushSends, At, Posts, Mailed
  <2>3. v \in WorkerState /\ w.after \in {"control", "join"}
    BY <1>0, <1>e DEF WorkerState, Pcs
  <2>4. /\ v.pc = w.after /\ v.hand = 0 /\ v.tick = w.tick /\ v.pending = w.pending
        /\ v.after = w.after /\ v.ticker = w.ticker /\ v.cancel = w.cancel /\ v.emitted = w.emitted
    BY <1>0, <2>1 DEF WorkerState
  <2>5. w.hand # 0 /\ w.pending = 0 /\ w.tick = 0
    BY <1>0, <2>1 DEF WorkerOK
  <2>6. Held(w) = {w.hand} /\ Held(v) = {}
    BY <2>4, <2>5 DEF Held
  <2>7. w.hand = Base(w) /\ w.emitted[w.hand] = "progress"
    BY <1>0, <2>6 DEF WorkerOK
  <2>8. Base(v) = Base(w) /\ (Waits(v) <=> Waits(w))
    BY <1>e, <2>1, <2>3, <2>4 DEF Base, Waits
  <2>9. WorkerOK(v)
    BY <1>0, <1>e, <2>1, <2>3, <2>4, <2>5, <2>6, <2>8 DEF WorkerOK
  <2>10. worker'[r] = v /\ worker' \in [Requests -> WorkerState]
        /\ \A s \in Requests : s # r => worker'[s] = worker[s]
    BY <1>0, <2>1, <2>3, Becoming
  <2>11. Mine(r)
    BY <1>e, <2>1, <2>3, <2>4, <2>9, <2>10 DEF Mine, Alive, HasEvents
  <2>12. SendsProgress(r)
    BY <2>1, <2>3, <2>4, <2>6, <2>7, <2>8, <2>10 DEF SendsProgress, HasEvents
  <2> QED BY <1>1, <2>10, <2>11, <2>12 DEF Moves
<1>7. CASE ControlSends(r)
  <2> DEFINE v == [w EXCEPT !.pc = "run"]
  <2>1. /\ Becomes(r, v) /\ w.pc = "control"
        /\ channel' = Append(channel, Mailed("event", r, Len(w.emitted)))
    BY <1>7 DEF ControlSends, At, Posts, Mailed
  <2>3. v \in WorkerState
    BY <1>0, <1>e DEF WorkerState, Pcs
  <2>4. /\ v.pc = "run" /\ v.hand = w.hand /\ v.tick = w.tick /\ v.pending = w.pending
        /\ v.ticker = w.ticker /\ v.cancel = w.cancel /\ v.emitted = w.emitted
    BY <1>0, <2>1 DEF WorkerState
  <2>5. Held(w) = {} /\ Waits(w) /\ ~Waits(v)
    BY <1>0, <2>1, <2>4 DEF WorkerOK, Waits
  <2>6. Held(v) = {}
    BY <2>4, <2>5 DEF Held
  <2>7. Base(w) + 1 = Len(w.emitted) /\ w.emitted[Len(w.emitted)] = "control"
        /\ Base(v) = Len(w.emitted)
    BY <1>0, <1>e, <2>4, <2>5 DEF WorkerOK, Base
  <2>8. w.hand = 0 /\ w.tick = 0 /\ w.pending = 0
    BY <2>5 DEF Held
  <2>9. WorkerOK(v)
    BY <1>e, <2>4, <2>5, <2>6, <2>8 DEF WorkerOK
  <2>10. worker'[r] = v /\ worker' \in [Requests -> WorkerState]
        /\ \A s \in Requests : s # r => worker'[s] = worker[s]
    BY <1>0, <2>1, <2>3, Becoming
  <2>11. Mine(r)
    BY <1>e, <2>1, <2>3, <2>4, <2>9, <2>10 DEF Mine, Alive, HasEvents
  <2>12. SendsControl(r)
    BY <2>1, <2>4, <2>5, <2>6, <2>7, <2>10 DEF SendsControl, HasEvents
  <2> QED BY <1>1, <2>10, <2>11, <2>12 DEF Moves
<1>8. CASE Finish(r)
  <2> DEFINE v == [w EXCEPT !.pc = "done"]
  <2>1. /\ Becomes(r, v) /\ channel' = channel
        /\ w.pc = "compute" \/ (w.pc = "join" /\ w.ticker = "ended")
    BY <1>8 DEF Finish, At
  <2>3. v \in WorkerState
    BY <1>0, <1>e DEF WorkerState, Pcs
  <2>4. /\ v.pc = "done" /\ v.hand = w.hand /\ v.tick = w.tick /\ v.pending = w.pending
        /\ v.ticker = w.ticker /\ v.cancel = w.cancel /\ v.emitted = w.emitted
    BY <1>0, <2>1 DEF WorkerState
  <2>5. Held(v) = Held(w) /\ Base(v) = Base(w) /\ Held(w) = {} /\ v.ticker = "ended"
        /\ ~Waits(v)
    <3>1. Held(w) = {} /\ v.ticker = "ended"
      BY <1>0, <2>1, <2>4 DEF WorkerOK
    <3>2. ~Waits(w) /\ ~Waits(v)
      BY <2>1, <2>4 DEF Waits
    <3>3. Held(v) = Held(w)
      BY <2>4 DEF Held
    <3> QED BY <2>4, <3>1, <3>2, <3>3 DEF Base
  <2>8. w.hand = 0 /\ w.tick = 0 /\ w.pending = 0
    BY <2>5 DEF Held
  <2>9. WorkerOK(v)
    BY <1>e, <2>4, <2>5, <2>8 DEF WorkerOK
  <2>10. worker'[r] = v /\ worker' \in [Requests -> WorkerState]
        /\ \A s \in Requests : s # r => worker'[s] = worker[s]
    BY <1>0, <2>1, <2>3, Becoming
  <2>11. Mine(r)
    BY <1>e, <2>1, <2>3, <2>4, <2>9, <2>10 DEF Mine, Alive, HasEvents
  <2>12. Keeps(r)
    BY <2>1, <2>4, <2>5, <2>10 DEF Keeps
  <2> QED BY <1>1, <2>10, <2>11, <2>12 DEF Moves
<1>9. CASE Reports(r)
  <2> DEFINE v == [w EXCEPT !.pc = "ended"]
  <2>1. /\ Becomes(r, v) /\ w.pc = "done"
        /\ channel' = Append(channel, Mailed("done", r, 0))
    BY <1>9 DEF Reports, At, Posts, Mailed
  <2>3. v \in WorkerState
    BY <1>0, <1>e DEF WorkerState, Pcs
  <2>4. /\ v.pc = "ended" /\ v.hand = w.hand /\ v.tick = w.tick /\ v.pending = w.pending
        /\ v.ticker = w.ticker /\ v.cancel = w.cancel /\ v.emitted = w.emitted
    BY <1>0, <2>1 DEF WorkerState
  <2>5. Held(v) = Held(w) /\ Base(v) = Base(w) /\ Held(w) = {} /\ v.ticker = "ended"
        /\ ~Waits(v)
    <3>1. Held(w) = {} /\ v.ticker = "ended"
      BY <1>0, <2>1, <2>4 DEF WorkerOK
    <3>2. ~Waits(w) /\ ~Waits(v)
      BY <2>1, <2>4 DEF Waits
    <3>3. Held(v) = Held(w)
      BY <2>4 DEF Held
    <3> QED BY <2>4, <3>1, <3>2, <3>3 DEF Base
  <2>8. w.hand = 0 /\ w.tick = 0 /\ w.pending = 0
    BY <2>5 DEF Held
  <2>9. WorkerOK(v)
    BY <1>e, <2>4, <2>5, <2>8 DEF WorkerOK
  <2>10. worker'[r] = v /\ worker' \in [Requests -> WorkerState]
        /\ \A s \in Requests : s # r => worker'[s] = worker[s]
    BY <1>0, <2>1, <2>3, Becoming
  <2>11. Mine(r)
    BY <1>e, <2>1, <2>3, <2>4, <2>9, <2>10 DEF Mine, Alive, HasEvents
  <2>12. SendsResult(r)
    BY <2>1, <2>4, <2>5, <2>10 DEF SendsResult
  <2> QED BY <1>1, <2>10, <2>11, <2>12 DEF Moves
<1>10. CASE TickerTakes(r)
  <2> DEFINE v == [w EXCEPT !.tick = w.pending, !.pending = 0]
  <2>1. /\ Becomes(r, v) /\ channel' = channel
        /\ w.ticker = "waits" /\ w.pending # 0 /\ w.hand = 0 /\ w.tick = 0
    BY <1>10 DEF TickerTakes, At, LockFree
  <2>3. v \in WorkerState
    BY <1>0, <1>e DEF WorkerState
  <2>4. /\ v.pc = w.pc /\ v.hand = w.hand /\ v.tick = w.pending /\ v.pending = 0
        /\ v.after = w.after
        /\ v.ticker = w.ticker /\ v.cancel = w.cancel /\ v.emitted = w.emitted
    BY <1>0, <2>1 DEF WorkerState
  <2>5. Held(v) = Held(w) /\ Base(v) = Base(w) /\ (Waits(v) <=> Waits(w))
    BY <2>1, <2>4 DEF Held, Base, Waits
  <2>6. Held(w) # {}
    BY <2>1 DEF Held
  <2>7. w.pc \in HasEvents
    BY <1>0, <2>1, <2>6 DEF WorkerOK, WorkerState, Pcs, HasEvents
  <2>9. WorkerOK(v)
    BY <1>0, <2>1, <2>4, <2>5 DEF WorkerOK
  <2>10. worker'[r] = v /\ worker' \in [Requests -> WorkerState]
        /\ \A s \in Requests : s # r => worker'[s] = worker[s]
    BY <1>0, <2>1, <2>3, Becoming
  <2>11. Mine(r)
    BY <1>e, <2>3, <2>4, <2>7, <2>9, <2>10 DEF Mine, Alive, HasEvents
  <2>12. Keeps(r)
    BY <2>1, <2>4, <2>5, <2>7, <2>10 DEF Keeps, HasEvents
  <2> QED BY <1>1, <2>10, <2>11, <2>12 DEF Moves
<1>11. CASE TickerSends(r)
  <2> DEFINE v == [w EXCEPT !.tick = 0]
  <2>1. Becomes(r, v) /\ w.tick # 0 /\ channel' = Append(channel, Mailed("event", r, w.tick))
    BY <1>11 DEF TickerSends, Posts, Mailed
  <2>3. v \in WorkerState
    BY <1>0, <1>e DEF WorkerState
  <2>4. /\ v.pc = w.pc /\ v.hand = w.hand /\ v.tick = 0 /\ v.pending = w.pending
        /\ v.after = w.after
        /\ v.ticker = w.ticker /\ v.cancel = w.cancel /\ v.emitted = w.emitted
    BY <1>0, <2>1 DEF WorkerState
  <2>5. w.hand = 0 /\ w.pending = 0
    BY <1>0, <2>1 DEF WorkerOK
  <2>6. Held(w) = {w.tick} /\ Held(v) = {}
    BY <2>1, <2>4, <2>5 DEF Held
  <2>7. w.tick = Base(w) /\ w.emitted[w.tick] = "progress"
    BY <1>0, <2>6 DEF WorkerOK
  <2>8. Base(v) = Base(w) /\ (Waits(v) <=> Waits(w))
    BY <2>4 DEF Base, Waits
  <2>p. w.pc \in HasEvents
    BY <1>0, <2>1, <2>6 DEF WorkerOK, WorkerState, Pcs, HasEvents
  <2>9. WorkerOK(v)
    BY <1>0, <1>e, <2>4, <2>5, <2>6, <2>8 DEF WorkerOK
  <2>10. worker'[r] = v /\ worker' \in [Requests -> WorkerState]
        /\ \A s \in Requests : s # r => worker'[s] = worker[s]
    BY <1>0, <2>1, <2>3, Becoming
  <2>11. Mine(r)
    BY <1>e, <2>3, <2>4, <2>p, <2>9, <2>10 DEF Mine, Alive, HasEvents
  <2>12. SendsProgress(r)
    BY <2>1, <2>4, <2>6, <2>7, <2>8, <2>p, <2>10 DEF SendsProgress, HasEvents
  <2> QED BY <1>1, <2>10, <2>11, <2>12 DEF Moves
<1>12. CASE TickerEnds(r)
  <2> DEFINE v == [w EXCEPT !.ticker = "ended"]
  <2>1. Becomes(r, v) /\ channel' = channel /\ w.pc = "join"
    BY <1>12 DEF TickerEnds, At
  <2>3. v \in WorkerState
    BY <1>0, <1>e DEF WorkerState
  <2>4. /\ v.pc = w.pc /\ v.hand = w.hand /\ v.tick = w.tick /\ v.pending = w.pending
        /\ v.after = w.after
        /\ v.ticker = "ended" /\ v.cancel = w.cancel /\ v.emitted = w.emitted
    BY <1>0, <2>1 DEF WorkerState
  <2>5. Held(v) = Held(w) /\ Base(v) = Base(w) /\ (Waits(v) <=> Waits(w))
    BY <2>4 DEF Held, Base, Waits
  <2>9. WorkerOK(v)
    BY <1>0, <2>1, <2>4, <2>5 DEF WorkerOK
  <2>10. worker'[r] = v /\ worker' \in [Requests -> WorkerState]
        /\ \A s \in Requests : s # r => worker'[s] = worker[s]
    BY <1>0, <2>1, <2>3, Becoming
  <2>11. Mine(r)
    BY <1>e, <2>1, <2>3, <2>4, <2>9, <2>10 DEF Mine, Alive, HasEvents
  <2>12. Keeps(r)
    BY <2>1, <2>4, <2>5, <2>10 DEF Keeps
  <2> QED BY <1>1, <2>10, <2>11, <2>12 DEF Moves
<1> QED
  BY <1>2, <1>3, <1>4, <1>5, <1>6, <1>7, <1>8, <1>9, <1>10, <1>11, <1>12
  DEF WorkerStep, TickerStep

-----------------------------------------------------------------------------
(* What a step of the input thread or of the serving loop does.             *)

(* Nothing that the invariant is about changes.                             *)
Quiet ==
  UNCHANGED <<sent, channel, active, shutting, outputFailed, serving, cancelling, worker, out>>

(* A request has been read, or the end of the input is announced.           *)
Asks ==
  /\ \E q \in Request : sent' = Append(sent, q)
  /\ Len(sent) < MaxRequests
  /\ channel' = Append(channel, Mailed("request", Len(sent) + 1, 0))
  /\ UNCHANGED <<loop, worker>>

Announces ==
  /\ \E type \in {"inputError", "inputClosed"} :
       channel' = Append(channel, Mailed(type, None, 0))
  /\ UNCHANGED <<sent, loop, worker>>

(* Of the workers, at most flags of cancellation change, and only those of  *)
(* workers that have started.                                               *)
SameWorker(v, w) ==
  /\ v \in WorkerState /\ v.pc = w.pc /\ v.emitted = w.emitted /\ v.ticker = w.ticker
  /\ Base(v) = Base(w) /\ Held(v) = Held(w)
  /\ w.cancel => v.cancel
  /\ WorkerOK(v)

Flags ==
  /\ worker' \in [Requests -> WorkerState]
  /\ \A r \in Requests : SameWorker(worker'[r], worker[r])

(* The loop writes a line unless stdout is broken, and stops everything     *)
(* when it breaks.                                                          *)
Says(line) ==
  /\ shutting' \in BOOLEAN /\ outputFailed' \in BOOLEAN /\ (shutting => shutting')
  /\ Flags
  /\ \/ ~outputFailed /\ ~outputFailed' /\ out' = Append(out, line)
     \/ outputFailed' /\ out' = out

Scoped == \A r \in Requests : worker'[r].cancel => worker[r].cancel \/ shutting'

Mutely ==
  /\ shutting' \in BOOLEAN /\ outputFailed' = outputFailed /\ (shutting => shutting')
  /\ Flags /\ out' = out

Goes ==
  /\ serving' \in {"ready", "exited"} /\ cancelling' = cancelling
  /\ serving' = "exited" => ActiveSet' = {}

Ignores ==
  Receive("request") /\ Mutely /\ Scoped /\ UNCHANGED active /\ Goes

Finds ==
  /\ Receive("request") /\ Mutely /\ Scoped /\ UNCHANGED active
  /\ sent[Message.of].kind = "cancel"
  /\ serving' = "cancelling"
  /\ \E t \in Hit(Message.of) : cancelling' = [by |-> Message.of, hit |-> t]

Answers ==
  /\ Receive("request") /\ UNCHANGED active /\ Scoped /\ Goes
  /\ \E kind \in {"answer", "rejected"} : Says(Line(kind, Message.of, 0))

Begins ==
  /\ Receive("request") /\ Starts(Message.of) /\ Goes

Cancels ==
  /\ serving = "cancelling" /\ UNCHANGED <<channel, active>> /\ Goes
  /\ Says(Line("accepted", cancelling.by, cancelling.hit))
  /\ worker'[cancelling.hit].cancel
  /\ shutting' \/ out' = Append(out, Line("accepted", cancelling.by, cancelling.hit))
  /\ \A r \in Requests : worker'[r].cancel => worker[r].cancel \/ shutting' \/ r = cancelling.hit

Closes ==
  /\ Receive("inputError") \/ Receive("inputClosed")
  /\ UNCHANGED active /\ Scoped /\ Goes
  /\ Mutely \/ Says(Line("answer", None, 0))

Passes ==
  /\ Receive("event") /\ UNCHANGED active /\ Scoped /\ Goes
  /\ Says(Line(worker[Message.of].emitted[Message.n], Message.of, Message.n))

Ends ==
  /\ Receive("done") /\ ActiveSet = {Message.of} /\ mutation' = None /\ operation' = None
  /\ Scoped /\ Goes
  /\ Says(Line("answer", Message.of, 0))

(* Whatever the loop does, it leaves the input alone.                       *)
Serving ==
  /\ Ignores \/ Finds \/ Answers \/ Begins \/ Cancels \/ Closes \/ Passes \/ Ends
  /\ UNCHANGED sent

Does ==
  \/ Quiet \/ Asks \/ Announces \/ Serving \/ \E r \in Requests : Moves(r)

(* A worker whose flag is raised is the same otherwise.                     *)
LEMMA Flagged ==
  ASSUME NEW w \in WorkerState, WorkerOK(w), NEW c \in BOOLEAN, w.cancel => c,
         c => w.pc # "none",
         NEW v, v = [w EXCEPT !.cancel = c]
  PROVE  SameWorker(v, w) /\ v.cancel = c
<1>1. /\ v \in WorkerState /\ v.pc = w.pc /\ v.emitted = w.emitted /\ v.ticker = w.ticker
      /\ v.pending = w.pending /\ v.hand = w.hand /\ v.tick = w.tick /\ v.after = w.after
      /\ v.cancel = c
  BY DEF WorkerState
<1>2. Base(v) = Base(w) /\ Held(v) = Held(w) /\ (Waits(v) <=> Waits(w))
  BY <1>1 DEF Base, Held, Waits
<1>3. WorkerOK(v)
  BY <1>1, <1>2 DEF WorkerOK
<1> QED BY <1>1, <1>2, <1>3 DEF SameWorker

(* Sameness is transitive: two flags in a row.                              *)
LEMMA FlaggedTwice ==
  ASSUME NEW u, NEW v, NEW w, SameWorker(v, u), SameWorker(w, v)
  PROVE  SameWorker(w, u)
BY DEF SameWorker

(* An unchanged worker is the same.                                         *)
LEMMA Unflagged ==
  ASSUME TypeInv, WorkersOK, UNCHANGED worker
  PROVE  Flags /\ Scoped
BY DEF TypeInv, WorkersOK, Flags, SameWorker, Scoped

(* request_shutdown cancels only workers that have started.                 *)
LEMMA Stopping ==
  ASSUME NEW w \in [Requests -> WorkerState], \A r \in Requests : WorkerOK(w[r]),
         \A r \in Requests : r \in ActiveSet' => w[r].pc # "none",
         worker' = Stopped(w)
  PROVE  /\ worker' \in [Requests -> WorkerState]
         /\ \A r \in Requests : SameWorker(worker'[r], w[r]) /\ (w[r].cancel => worker'[r].cancel)

<1>1. \A r \in Requests : SameWorker(worker'[r], w[r])
  <2> SUFFICES ASSUME NEW r \in Requests PROVE SameWorker(worker'[r], w[r])
    OBVIOUS
  <2> DEFINE c == w[r].cancel \/ r \in ActiveSet'
  <2>1. worker'[r] = [w[r] EXCEPT !.cancel = c]
    BY DEF Stopped
  <2>2. w[r] \in WorkerState /\ c \in BOOLEAN /\ WorkerOK(w[r]) /\ (w[r].cancel => c)
    OBVIOUS
  <2>3. c => w[r].pc # "none"
    BY <2>2 DEF WorkerOK
  <2> HIDE DEF c
  <2> QED BY <2>1, <2>2, <2>3, Flagged
<1>2. worker' \in [Requests -> WorkerState]
  <2>1. \A r \in Requests : worker'[r] \in WorkerState
    BY <1>1 DEF SameWorker
  <2>2. DOMAIN worker' = Requests
    BY DEF Stopped
  <2>3. worker' = [r \in Requests |-> worker'[r]]
    BY DEF Stopped
  <2> QED BY <2>1, <2>3
<1> QED BY <1>1, <1>2 DEF SameWorker

(* Writing a line, with the workers as they are.                            *)
LEMMA Writing ==
  ASSUME TypeInv, WorkersOK, Asked, UNCHANGED sent, NEW line, Writes(line),
         ActiveSet' \subseteq ActiveSet
  PROVE  Says(line) /\ Scoped
<1>0. worker \in [Requests -> WorkerState] /\ \A r \in Requests : WorkerOK(worker[r])
  BY DEF TypeInv, WorkersOK
<1>a. \A r \in Requests : r \in ActiveSet' => worker[r].pc # "none"
  BY DEF Asked
<1>1. CASE ~outputFailed /\ out' = Append(out, line) /\ UNCHANGED <<worker, shutting, outputFailed>>
  BY <1>1, Unflagged DEF Says, TypeInv
<1>2. CASE outputFailed' = TRUE /\ shutting' = TRUE /\ worker' = Stopped(worker) /\ UNCHANGED out
  <2>1. Flags
    BY <1>0, <1>a, <1>2, Stopping DEF Flags
  <2> QED BY <1>2, <2>1 DEF Says, Scoped
<1> QED BY <1>1, <1>2 DEF Writes, WritesWith

(* The channel keeps its type, and so does the message at its head.         *)
LEMMA Heads ==
  ASSUME TypeInv, channel # <<>>
  PROVE  /\ Message = channel[1] /\ 1 \in DOMAIN channel /\ Message \in MessageType
         /\ Message.type \in {"request", "event", "done"} =>
              Message.of \in Requests /\ Message.n \in Nat
<1>1. Shrunk(channel, Tail(channel)) /\ channel \in Seq(MessageType)
  BY Shrinks DEF TypeInv
<1>2. Message = channel[1] /\ 1 \in DOMAIN channel /\ channel[1] \in MessageType
  BY <1>1 DEF Shrunk, Message
<1> QED BY <1>2 DEF MessageType

-----------------------------------------------------------------------------
(* Every step of the loop does one of these things.                         *)

(* The loop goes on unless it is shutting down with nothing active.         *)
LEMMA Continuing ==
  ASSUME Continues
  PROVE  Goes
BY DEF Continues, Goes, Idle, ActiveSet

(* A line that is silent leaves the workers and stdout alone.               *)
LEMMA Silence ==
  ASSUME TypeInv, WorkersOK, Silent
  PROVE  Mutely /\ Scoped
<1>1. Flags /\ Scoped
  BY Unflagged DEF Silent
<1> QED BY <1>1 DEF Silent, Mutely, TypeInv

(* Every step of the loop is one of those listed.                           *)
LEMMA ServerServes ==
  ASSUME Serves, ServerStep
  PROVE  Serving
<1>0. /\ TypeInv /\ WorkersOK /\ Asked /\ Slots /\ Flow
      /\ UNCHANGED sent
  BY DEF Serves, ServerStep
<1>a. UNCHANGED active => ActiveSet' = ActiveSet
  BY DEF active, ActiveSet
<1>1. CASE HandleRequest
  <2>1. Receive("request") /\ Goes
    BY <1>1, Continuing DEF HandleRequest
  <2>2. CASE Starts(Message.of)
    BY <1>0, <2>1, <2>2 DEF Begins, Serving
  <2>3. CASE AnswersAtOnce(Message.of)
    <3>1. UNCHANGED active /\ Writes(Line("answer", Message.of, 0))
      BY <2>3 DEF AnswersAtOnce
    <3>2. Says(Line("answer", Message.of, 0)) /\ Scoped
      BY <1>0, <1>a, <3>1, Writing
    <3> QED BY <1>0, <2>1, <3>1, <3>2 DEF Answers, Serving
  <2>4. CASE RejectsCancel(Message.of)
    <3>1. UNCHANGED active /\ Writes(Line("rejected", Message.of, 0))
      BY <2>4 DEF RejectsCancel
    <3>2. Says(Line("rejected", Message.of, 0)) /\ Scoped
      BY <1>0, <1>a, <3>1, Writing
    <3> QED BY <1>0, <2>1, <3>1, <3>2 DEF Answers, Serving
  <2> QED BY <1>1, <2>2, <2>3, <2>4 DEF HandleRequest
<1>2. CASE DropRequest
  <2>1. Receive("request") /\ Goes /\ Silent /\ UNCHANGED active
    BY <1>2, Continuing DEF DropRequest
  <2> QED BY <1>0, <2>1, Silence DEF Ignores, Serving
<1>3. CASE FindCancelled
  <2>1. /\ Receive("request") /\ Silent /\ UNCHANGED active /\ serving' = "cancelling"
        /\ \E t \in Hit(Message.of) : cancelling' = [by |-> Message.of, hit |-> t]
        /\ sent[Message.of].kind = "cancel"
    BY <1>3 DEF FindCancelled, IsCancel
  <2> QED BY <1>0, <2>1, Silence DEF Finds, Serving
<1>4. CASE Cancel
  <2> DEFINE h == cancelling.hit
             w == [worker EXCEPT ![h].cancel = TRUE]
             line == Line("accepted", cancelling.by, h)
  <2>1. serving = "cancelling" /\ UNCHANGED <<channel, active>> /\ Goes /\ WritesWith(line, w)
    BY <1>4, Continuing DEF Cancel
  <2>2. h \in Requests /\ worker[h].pc # "none" /\ worker \in [Requests -> WorkerState]
        /\ \A r \in Requests : WorkerOK(worker[r]) /\ worker[r] \in WorkerState
    <3>1. h \in ActiveSet
      BY <1>0, <2>1 DEF Asked
    <3> QED BY <1>0, <3>1 DEF Asked, ActiveSet, TypeInv, WorkersOK
  <2>3. w[h] = [worker[h] EXCEPT !.cancel = TRUE]
    BY <2>2
  <2>4. SameWorker(w[h], worker[h]) /\ w[h].cancel
    <3>1. worker[h] \in WorkerState /\ WorkerOK(worker[h])
      BY <2>2
    <3> QED BY <2>2, <2>3, <3>1, Flagged
  <2>5. \A r \in Requests : r # h => w[r] = worker[r]
    BY <2>2
  <2>6. \A r \in Requests : SameWorker(w[r], worker[r])
    BY <2>2, <2>4, <2>5 DEF SameWorker
  <2>7. w \in [Requests -> WorkerState]
    BY <2>2, <2>4 DEF SameWorker
  <2>8. \A r \in Requests : WorkerOK(w[r]) /\ w[r].pc = worker[r].pc
    BY <2>6 DEF SameWorker
  <2>h. \A r \in Requests : w[r].cancel => worker[r].cancel \/ r = h
    BY <2>5
  <2> HIDE DEF w
  <2>9. CASE ~outputFailed /\ out' = Append(out, line) /\ worker' = w
             /\ UNCHANGED <<shutting, outputFailed>>
    <3>1. Flags
      BY <2>6, <2>7, <2>9 DEF Flags
    <3>2. Says(line)
      BY <1>0, <2>9, <3>1 DEF Says, TypeInv
    <3> QED BY <1>0, <2>1, <2>4, <2>9, <2>h, <3>2 DEF Cancels, Serving
  <2>10. CASE outputFailed' = TRUE /\ shutting' = TRUE /\ worker' = Stopped(w) /\ UNCHANGED out
    <3>1. \A r \in Requests : r \in ActiveSet' => w[r].pc # "none"
      BY <1>0, <1>a, <2>1, <2>8 DEF Asked
    <3>2. /\ worker' \in [Requests -> WorkerState]
          /\ \A r \in Requests : SameWorker(worker'[r], w[r]) /\ (w[r].cancel => worker'[r].cancel)
      BY <2>7, <2>8, <2>10, <3>1, Stopping
    <3>3. Flags
      BY <2>6, <3>2, FlaggedTwice DEF Flags
    <3>4. Says(line) /\ shutting'
      BY <1>0, <2>10, <3>3 DEF Says, TypeInv
    <3>5. worker'[h].cancel
      BY <2>2, <2>4, <3>2
    <3> QED BY <1>0, <2>1, <3>4, <3>5 DEF Cancels, Serving
  <2> QED BY <2>1, <2>9, <2>10 DEF WritesWith
<1>5. CASE InputErrorComes
  <2>1. Receive("inputError") /\ UNCHANGED active /\ Goes /\ shutting' = TRUE
        /\ worker' = Stopped(worker)
    BY <1>5, Continuing DEF InputErrorComes
  <2>2. \A r \in Requests : r \in ActiveSet' => worker[r].pc # "none"
    BY <1>0, <1>a, <2>1 DEF Asked
  <2>3. Flags
    BY <1>0, <2>1, <2>2, Stopping DEF Flags, TypeInv, WorkersOK
  <2>4. outputFailed \in BOOLEAN
    BY <1>0 DEF TypeInv
  <2>5. Says(Line("answer", None, 0))
    <3>1. CASE ~outputFailed /\ out' = Append(out, Line("answer", None, 0))
               /\ UNCHANGED outputFailed
      BY <2>1, <2>3, <2>4, <3>1 DEF Says
    <3>2. CASE outputFailed' = TRUE /\ UNCHANGED out
      BY <2>1, <2>3, <3>2 DEF Says
    <3> QED BY <1>5, <3>1, <3>2 DEF InputErrorComes
  <2> QED BY <1>0, <2>1, <2>5 DEF Closes, Scoped, Serving
<1>6. CASE InputEnds
  <2>1. Receive("inputClosed") /\ UNCHANGED active /\ Goes /\ shutting' = TRUE
        /\ worker' = Stopped(worker) /\ UNCHANGED <<outputFailed, out>>
    BY <1>6, Continuing DEF InputEnds
  <2>2. \A r \in Requests : r \in ActiveSet' => worker[r].pc # "none"
    BY <1>0, <1>a, <2>1 DEF Asked
  <2>3. Flags
    BY <1>0, <2>1, <2>2, Stopping DEF Flags, TypeInv, WorkersOK
  <2>4. Mutely
    BY <2>1, <2>3 DEF Mutely
  <2> QED BY <1>0, <2>1, <2>4 DEF Closes, Scoped, Serving
<1>7. CASE EventComes
  <2>1. Receive("event") /\ UNCHANGED active /\ Goes
    BY <1>7, Continuing DEF EventComes
  <2>2. Message.of = mutation /\ Message.of \in Requests
    BY <1>0, <2>1, Heads DEF Receive, Slots, Message
  <2>3. mutation # None
    BY <2>2, ServerAssumption DEF Requests
  <2> DEFINE line == Line(worker[Message.of].emitted[Message.n], Message.of, Message.n)
  <2>4. IF ~outputFailed THEN Writes(line) ELSE Silent
    BY <1>7, <2>2, <2>3 DEF EventComes
  <2>5. Says(line) /\ Scoped
    <3>1. CASE ~outputFailed
      BY <1>0, <1>a, <2>1, <2>4, <3>1, Writing
    <3>2. CASE outputFailed
      <4>1. Mutely /\ Scoped
        BY <1>0, <2>4, <3>2, Silence
      <4> QED BY <1>0, <3>2, <4>1 DEF Mutely, Says, TypeInv
    <3> QED BY <3>1, <3>2
  <2> QED BY <1>0, <2>1, <2>5 DEF Passes, Serving
<1>8. CASE Done
  <2> DEFINE r    == Message.of
             slot == IF sent[r].kind = "operation" THEN operation ELSE mutation
  <2>1. Receive("done")
    BY <1>8 DEF Done
  <2>2. r \in ActiveSet
    BY <1>0, <2>1, Heads DEF Receive, Slots, Message
  <2>3. r = slot /\ ActiveSet = {r} /\ slot # None
    BY <1>0, <2>2 DEF Slots, ActiveSet
  <2>4. mutation' = None /\ operation' = None
    BY <1>0, <1>8, <2>3 DEF Done, Slots
  <2>5. Finishes(r)
    BY <1>8, <2>3 DEF Done
  <2>6. Goes /\ (IF outputFailed THEN Silent ELSE Writes(Line("answer", r, 0)))
    BY <2>5, Continuing DEF Finishes
  <2>7. ActiveSet' \subseteq ActiveSet
    BY <2>4 DEF ActiveSet
  <2> HIDE DEF slot
  <2>8. Says(Line("answer", r, 0)) /\ Scoped
    <3>1. CASE ~outputFailed
      BY <1>0, <2>6, <2>7, <3>1, Writing
    <3>2. CASE outputFailed
      <4>1. Mutely /\ Scoped
        BY <1>0, <2>6, <3>2, Silence
      <4> QED BY <1>0, <3>2, <4>1 DEF Mutely, Says, TypeInv
    <3> QED BY <3>1, <3>2
  <2> QED BY <1>0, <2>1, <2>3, <2>4, <2>6, <2>8 DEF Ends, Serving
<1> QED BY <1>1, <1>2, <1>3, <1>4, <1>5, <1>6, <1>7, <1>8 DEF ServerStep

(* Every step of the server is one of those above.                          *)
LEMMA StepDoes ==
  ASSUME Serves, [Next]_vars
  PROVE  Does
<1>1. CASE UNCHANGED vars
  BY <1>1 DEF vars, Quiet, Does, active
<1>2. CASE CloseStdin \/ Exited
  BY <1>2 DEF CloseStdin, Exited, vars, Quiet, Does, loop, active
<1>3. CASE ReadRequest
  BY <1>3 DEF ReadRequest, Posts, Asks, Does, Mailed
<1>4. CASE InputStep
  <2>1. \E type \in {"inputError", "inputClosed"} :
          channel' = Append(channel, Mailed(type, None, 0))
    BY <1>4 DEF InputStep, ReadError, ReadEnd, Posts, Mailed
  <2> QED BY <1>4, <2>1 DEF InputStep, Announces, Does
<1>5. CASE ServerStep
  BY <1>5, ServerServes DEF Does
<1>6. ASSUME NEW r \in Requests, WorkerStep(r) \/ TickerStep(r) PROVE Does
  BY <1>6, WorkerMoves DEF Serves, Does
<1> QED BY <1>1, <1>2, <1>3, <1>4, <1>5, <1>6 DEF Next

-----------------------------------------------------------------------------
(* All but the start of a worker advance: the loop may take the head of the *)
(* channel, and may write a line.                                           *)

Advances(line) ==
  /\ UNCHANGED sent /\ Flags /\ line \in LineType
  /\ ActiveSet' \subseteq ActiveSet
  /\ mutation' \in {mutation, None} /\ operation' \in {operation, None}
  /\ shutting' \in BOOLEAN /\ outputFailed' \in BOOLEAN
  /\ shutting => shutting'
  /\ channel' = channel \/ (channel # <<>> /\ channel' = Tail(channel))
  /\ \/ outputFailed' = outputFailed /\ out' = out
     \/ outputFailed' /\ out' = out
     \/ ~outputFailed /\ ~outputFailed' /\ out' = Append(out, line)

(* The channel after a step holds nothing new, in the same order.           *)
Fewer ==
  /\ channel' \in Seq(MessageType)
  /\ \/ \A p \in DOMAIN channel' : p \in DOMAIN channel /\ channel'[p] = channel[p]
     \/ \A p \in DOMAIN channel' : p + 1 \in DOMAIN channel /\ channel'[p] = channel[p + 1]
  /\ DOMAIN channel \subseteq Nat /\ DOMAIN channel' \subseteq Nat

(* At most one line is new, and it comes last.                              *)
OneLine(line) ==
  /\ out' \in Seq(LineType)
  /\ DOMAIN out \subseteq DOMAIN out' /\ DOMAIN out' \subseteq Nat
  /\ \A k \in DOMAIN out : out'[k] = out[k]
  /\ \A k \in DOMAIN out' \ DOMAIN out :
       out'[k] = line /\ \A i \in DOMAIN out' : i <= k

(* What is new when the loop advances.                                      *)
LEMMA Advanced ==
  ASSUME TypeInv, NEW line, Advances(line)
  PROVE  Fewer /\ OneLine(line)
<1>1. Fewer
  <2>1. CASE channel' = channel
    <3>1. DOMAIN channel = 1 .. Len(channel) /\ Len(channel) \in Nat
      BY DEF TypeInv
    <3> QED BY <2>1, <3>1 DEF Fewer, TypeInv
  <2>2. CASE channel # <<>> /\ channel' = Tail(channel)
    <3>1. Shrunk(channel, channel') /\ channel' \in Seq(MessageType)
      BY <2>2, Shrinks DEF TypeInv
    <3>2. \A p \in DOMAIN channel' : p + 1 \in DOMAIN channel /\ channel'[p] = channel[p + 1]
      BY <3>1 DEF Shrunk
    <3>3. DOMAIN channel \subseteq Nat /\ DOMAIN channel' \subseteq Nat
      BY <3>1 DEF Shrunk
    <3> QED BY <3>1, <3>2, <3>3 DEF Fewer
  <2> QED BY <2>1, <2>2 DEF Advances
<1>2. CASE out' = out
  <2>1. DOMAIN out \subseteq Nat /\ out \in Seq(LineType)
    BY DEF TypeInv
  <2> QED BY <1>1, <1>2, <2>1 DEF OneLine
<1>3. CASE out' = Append(out, line)
  <2>1. Grown(out, out', line) /\ out' \in Seq(LineType)
    BY <1>3, Grows DEF TypeInv, Advances
  <2>2. OneLine(line)
    BY <2>1 DEF Grown, OneLine
  <2> QED BY <1>1, <2>2
<1> QED BY <1>2, <1>3 DEF Advances

(* The head of the channel is gone when the loop has received it.           *)
LEMMA Received ==
  ASSUME TypeInv, NEW type, Receive(type)
  PROVE  /\ Shrunk(channel, channel') /\ channel' \in Seq(MessageType)
         /\ channel # <<>> /\ channel' = Tail(channel)
         /\ Message = channel[1] /\ Message.type = type /\ 1 \in DOMAIN channel
         /\ type \in {"request", "event", "done"} => Message.of \in Requests /\ Message.n \in Nat
<1>1. channel # <<>> /\ channel' = Tail(channel) /\ Head(channel).type = type
  BY DEF Receive
<1>2. Shrunk(channel, channel') /\ channel' \in Seq(MessageType)
  BY <1>1, Shrinks DEF TypeInv
<1> QED BY <1>1, <1>2, Heads DEF Message

(* The line of an event has the type of a line.                             *)
LEMMA EventLine ==
  ASSUME Serves, Receive("event")
  PROVE  /\ worker[Message.of].emitted[Message.n] \in {"progress", "control"}
         /\ Line(worker[Message.of].emitted[Message.n], Message.of, Message.n) \in LineType
<1>1. Message = channel[1] /\ Message.type = "event" /\ 1 \in DOMAIN channel
      /\ Message.of \in Requests /\ Message.n \in Nat
  BY Received DEF Serves
<1> DEFINE r == Message.of
<1>2. Emitted(r, Message.n)
  BY <1>1 DEF Serves, Flow
<1>3. worker[r].emitted \in Seq({"progress", "control"})
  BY <1>1 DEF Serves, TypeInv, WorkerState
<1>4. Message.n \in 1 .. Len(worker[r].emitted)
  BY <1>2, <1>3 DEF Emitted, Base
<1>5. worker[r].emitted[Message.n] \in {"progress", "control"}
  BY <1>3, <1>4
<1> QED BY <1>1, <1>5 DEF Line, LineType

(* Which line the loop writes, and about whom.                              *)
Told(line) ==
  \/ Ignores /\ line = Line("answer", None, 0) /\ out' = out
  \/ Finds /\ line = Line("answer", None, 0) /\ out' = out
  \/ Answers /\ \E kind \in {"answer", "rejected"} :
       line = Line(kind, Message.of, 0) /\ Says(line)
  \/ Cancels /\ line = Line("accepted", cancelling.by, cancelling.hit)
  \/ Closes /\ line = Line("answer", None, 0)
  \/ Passes /\ line = Line(worker[Message.of].emitted[Message.n], Message.of, Message.n)
  \/ Ends /\ line = Line("answer", Message.of, 0)

(* The loop starts a worker or advances.                                    *)
LEMMA ServingAdvances ==
  ASSUME Serves, Serving
  PROVE  Begins \/ \E line \in LineType : Told(line) /\ Advances(line)
<1>0. TypeInv /\ WorkersOK /\ Asked /\ UNCHANGED sent /\ outputFailed \in BOOLEAN
  BY DEF Serves, Serving, TypeInv
<1>a. UNCHANGED active =>
        ActiveSet' \subseteq ActiveSet /\ mutation' = mutation /\ operation' = operation
  BY DEF active, ActiveSet
<1>b. Line("answer", None, 0) \in LineType
  BY DEF Line, LineType
<1>1. CASE Ignores \/ Finds
  <2>1. Receive("request") /\ Mutely /\ UNCHANGED active
    BY <1>1 DEF Ignores, Finds
  <2>2. channel # <<>> /\ channel' = Tail(channel)
    BY <2>1 DEF Receive
  <2>3. Advances(Line("answer", None, 0))
    BY <1>0, <1>a, <1>b, <2>1, <2>2 DEF Mutely, Advances
  <2> QED BY <1>1, <1>b, <2>1, <2>3 DEF Told, Mutely
<1>2. CASE Answers
  <2>1. PICK kind \in {"answer", "rejected"} : Says(Line(kind, Message.of, 0))
    BY <1>2 DEF Answers
  <2>2. Receive("request") /\ UNCHANGED active
    BY <1>2 DEF Answers
  <2>3. Message.of \in Requests /\ channel # <<>> /\ channel' = Tail(channel)
    BY <1>0, <2>2, Received
  <2>4. Line(kind, Message.of, 0) \in LineType
    BY <2>3 DEF Line, LineType
  <2>5. Advances(Line(kind, Message.of, 0))
    BY <1>0, <1>a, <2>1, <2>2, <2>3, <2>4 DEF Says, Advances
  <2>6. Told(Line(kind, Message.of, 0))
    BY <1>2, <2>1 DEF Told
  <2> QED BY <2>4, <2>5, <2>6
<1>3. CASE Cancels
  <2> DEFINE line == Line("accepted", cancelling.by, cancelling.hit)
  <2>1. Says(line) /\ UNCHANGED active /\ channel' = channel /\ serving = "cancelling"
    BY <1>3 DEF Cancels
  <2>2. cancelling.by \in Requests /\ cancelling.hit \in Nat
    <3>1. cancelling.by \in Requests /\ cancelling.hit \in ActiveSet
      BY <1>0, <2>1 DEF Asked
    <3> QED BY <1>0, <3>1, ServerAssumption DEF ActiveSet, TypeInv, Requests
  <2>3. line \in LineType
    BY <2>2 DEF Line, LineType
  <2> HIDE DEF line
  <2>4. Advances(line)
    BY <1>0, <1>a, <2>1, <2>3 DEF Says, Advances
  <2> QED BY <1>3, <2>3, <2>4 DEF Told, line
<1>4. CASE Closes
  <2>1. UNCHANGED active /\ (Mutely \/ Says(Line("answer", None, 0)))
        /\ channel # <<>> /\ channel' = Tail(channel)
    BY <1>4 DEF Closes, Receive
  <2>2. Advances(Line("answer", None, 0))
    BY <1>0, <1>a, <1>b, <2>1 DEF Mutely, Says, Advances
  <2> QED BY <1>4, <1>b, <2>2 DEF Told
<1>5. CASE Passes
  <2> DEFINE line == Line(worker[Message.of].emitted[Message.n], Message.of, Message.n)
  <2>1. Receive("event") /\ UNCHANGED active /\ Says(line)
    BY <1>5 DEF Passes
  <2>2. line \in LineType /\ channel # <<>> /\ channel' = Tail(channel)
    BY <2>1, EventLine DEF Receive
  <2> HIDE DEF line
  <2>3. Advances(line)
    BY <1>0, <1>a, <2>1, <2>2 DEF Says, Advances
  <2> QED BY <1>5, <2>2, <2>3 DEF Told, line
<1>6. CASE Ends
  <2> DEFINE line == Line("answer", Message.of, 0)
  <2>1. Receive("done") /\ mutation' = None /\ operation' = None /\ Says(line)
    BY <1>6 DEF Ends
  <2>2. Message.of \in Requests /\ channel # <<>> /\ channel' = Tail(channel)
    BY <1>0, <2>1, Received
  <2>3. line \in LineType
    BY <2>2 DEF Line, LineType
  <2>4. ActiveSet' \subseteq ActiveSet
    BY <2>1 DEF ActiveSet
  <2> HIDE DEF line
  <2>5. Advances(line)
    BY <1>0, <2>1, <2>2, <2>3, <2>4 DEF Says, Advances
  <2> QED BY <1>6, <2>3, <2>5 DEF Told, line
<1>7. CASE Begins
  BY <1>7
<1> QED BY <1>1, <1>2, <1>3, <1>4, <1>5, <1>6, <1>7 DEF Serving

(* A worker that starts is new, and alone.                                  *)
LEMMA Begun ==
  ASSUME Serves, Begins
  PROVE  LET r == Message.of v == worker'[Message.of] IN
         /\ r \in Requests /\ r <= Len(sent) /\ sent[r].kind # "cancel"
         /\ worker[r].pc = "none" /\ ActiveSet = {}
         /\ worker' \in [Requests -> WorkerState]
         /\ \A s \in Requests : s # r => worker'[s] = worker[s]
         /\ v \in WorkerState /\ WorkerOK(v) /\ ~v.cancel
         /\ v.emitted = <<>> /\ Base(v) = 0 /\ Held(v) = {}
         /\ v.pc \in {"run", "compute"} /\ (v.pc = "run" => sent[r].kind = "mutation")
         /\ \A k \in DOMAIN out : out[k].of # r
         /\ UNCHANGED <<shutting, outputFailed, out>>
         /\ \/ sent[r].kind = "operation" /\ operation' = r /\ mutation' = None
            \/ sent[r].kind \in {"mutation", "launch"} /\ mutation' = r /\ operation' = None
         /\ \A q \in DOMAIN channel' : channel'[q].type = "request" => channel'[q].of # r
<1> DEFINE r == Message.of
<1>0. TypeInv /\ Asked /\ Receive("request") /\ Starts(r)
  BY DEF Serves, Begins
<1>1. /\ Shrunk(channel, channel') /\ channel' \in Seq(MessageType)
      /\ Message = channel[1] /\ Message.type = "request" /\ 1 \in DOMAIN channel
      /\ r \in Requests
  BY <1>0, Received
<1>2. /\ r <= Len(sent) /\ worker[r].pc = "none"
      /\ \A k \in DOMAIN out : out[k].of # r
      /\ \A q \in DOMAIN channel : channel[q].type = "request" /\ channel[q].of = r => q = 1
  BY <1>0, <1>1 DEF Asked
<1>3. \A q \in DOMAIN channel' : channel'[q].type = "request" => channel'[q].of # r
  BY <1>1, <1>2 DEF Shrunk
<1>4. sent[r].kind # "cancel" /\ ActiveSet = {} /\ UNCHANGED <<shutting, outputFailed, out>>
  BY <1>0 DEF Starts, Busy
<1>5. sent[r] \in Request /\ sent[r].kind \in {"operation", "mutation", "launch"}
  <2>1. sent \in Seq(Request) /\ r \in 1 .. Len(sent)
    BY <1>0, <1>1, <1>2 DEF TypeInv, Requests
  <2>2. sent[r] \in Request
    BY <2>1
  <2>3. sent[r].kind \in AllKinds
    BY <2>2, ServerAssumption DEF Request
  <2> QED BY <1>4, <2>2, <2>3 DEF AllKinds
<1>6. mutation = None /\ operation = None
  BY <1>4 DEF ActiveSet
<1>7. PICK ticker \in {"waits", "ended"} :
        worker' = [worker EXCEPT ![r] = NewWorker(sent[r].kind, ticker)]
  BY <1>0 DEF Starts
<1> DEFINE v == NewWorker(sent[r].kind, ticker)
<1>8. /\ v \in WorkerState /\ v.emitted = <<>> /\ v.pending = 0 /\ v.hand = 0 /\ v.tick = 0
      /\ ~v.cancel /\ v.pc = (IF sent[r].kind = "mutation" THEN "run" ELSE "compute")
      /\ v.ticker = (IF sent[r].kind = "mutation" THEN ticker ELSE "ended")
  BY DEF NewWorker, WorkerState, Pcs
<1> HIDE DEF v
<1>9. worker' \in [Requests -> WorkerState] /\ worker'[r] = v
      /\ \A s \in Requests : s # r => worker'[s] = worker[s]
  BY <1>0, <1>1, <1>7, <1>8 DEF TypeInv, v
<1>10. Base(v) = 0 /\ Held(v) = {} /\ ~Waits(v)
  BY <1>8 DEF Base, Held, Waits
<1>11. WorkerOK(v)
  BY <1>8, <1>10 DEF WorkerOK
<1>12. \/ sent[r].kind = "operation" /\ operation' = r /\ mutation' = None
       \/ sent[r].kind \in {"mutation", "launch"} /\ mutation' = r /\ operation' = None
  BY <1>0, <1>5, <1>6 DEF Starts
<1> QED BY <1>1, <1>2, <1>3, <1>4, <1>8, <1>9, <1>10, <1>11, <1>12

-----------------------------------------------------------------------------
(* The types and the workers.                                               *)

(* Unless it has found what a cancel means, the loop is ready or exits.     *)
LEMMA GoesOrFinds ==
  ASSUME Serving
  PROVE  Goes \/ Finds
BY DEF Serving, Ignores, Answers, Begins, Cancels, Closes, Passes, Ends

(* A message of the server has the type of a message.                       *)
LEMMA Mail ==
  ASSUME NEW type \in {"request", "event", "done"}, NEW r \in Requests, NEW n \in Nat
  PROVE  Mailed(type, r, n) \in MessageType
BY DEF Mailed, MessageType

(* A worker sends at most one message, an event or its result.              *)
LEMMA MoveSends ==
  ASSUME TypeInv, NEW r \in Requests, Moves(r)
  PROVE  \/ channel' = channel
         \/ \E m \in MessageType :
              /\ m.type \in {"event", "done"} /\ m.type # "request" /\ m.of = r
              /\ channel' = Append(channel, m)
<1>1. CASE Keeps(r)
  BY <1>1 DEF Keeps
<1>2. CASE SendsProgress(r)
  <2> DEFINE b == Base(worker[r])
  <2>1. b \in Held(worker[r]) /\ worker[r] \in WorkerState
    BY <1>2 DEF SendsProgress, TypeInv
  <2>2. b \in Nat
    BY <2>1 DEF Held, WorkerState
  <2>3. Mailed("event", r, b) \in MessageType
    BY <2>2, Mail
  <2>4. channel' = Append(channel, Mailed("event", r, b))
    BY <1>2 DEF SendsProgress
  <2> HIDE DEF b
  <2> QED BY <2>3, <2>4 DEF Mailed
<1>3. CASE SendsControl(r)
  <2> DEFINE b == Base(worker[r]) + 1
  <2>1. b = Len(worker[r].emitted) /\ worker[r] \in WorkerState
    BY <1>3 DEF SendsControl, TypeInv
  <2>2. b \in Nat
    BY <2>1 DEF WorkerState
  <2>3. Mailed("event", r, b) \in MessageType
    BY <2>2, Mail
  <2>4. channel' = Append(channel, Mailed("event", r, b))
    BY <1>3 DEF SendsControl
  <2> HIDE DEF b
  <2> QED BY <2>3, <2>4 DEF Mailed
<1>4. CASE SendsResult(r)
  BY <1>4, Mail DEF SendsResult, Mailed
<1> QED BY <1>1, <1>2, <1>3, <1>4 DEF Moves

(* No step changes a type.                                                  *)
LEMMA TypesKept ==
  ASSUME Serves, Does, stdin' \in {"open", "closed", "broken"},
         input' \in {"reading", "failed", "ended"}
  PROVE  TypeInv'
<1>0. TypeInv
  BY DEF Serves
<1>1. CASE Quiet
  BY <1>0, <1>1 DEF Quiet, TypeInv, active
<1>2. CASE Asks
  <2>1. PICK q \in Request : sent' = Append(sent, q)
    BY <1>2 DEF Asks
  <2>2. sent' \in Seq(Request) /\ Grown(sent, sent', q)
    BY <1>0, <2>1, Grows DEF TypeInv
  <2>3. Len(sent) \in Nat /\ Len(sent) < MaxRequests /\ Len(sent') <= MaxRequests
    BY <1>2, <2>2, ServerAssumption DEF Asks, Grown
  <2>4. Mailed("request", Len(sent) + 1, 0) \in MessageType
    BY <2>3, Mail, ServerAssumption DEF Requests
  <2>5. channel' \in Seq(MessageType)
    BY <1>0, <1>2, <2>4, Grows DEF Asks, TypeInv
  <2> QED BY <1>0, <1>2, <2>2, <2>3, <2>5 DEF Asks, TypeInv, loop, active
<1>3. CASE Announces
  <2>1. PICK type \in {"inputError", "inputClosed"} :
          channel' = Append(channel, Mailed(type, None, 0))
    BY <1>3 DEF Announces
  <2>2. Mailed(type, None, 0) \in MessageType
    BY DEF Mailed, MessageType
  <2>3. channel' \in Seq(MessageType)
    BY <1>0, <2>1, <2>2, Grows DEF TypeInv
  <2> QED BY <1>0, <1>3, <2>3 DEF Announces, TypeInv, loop, active
<1>4. ASSUME NEW r \in Requests, Moves(r) PROVE TypeInv'
  <2>1. channel' \in Seq(MessageType)
    <3>1. channel \in Seq(MessageType)
      BY <1>0 DEF TypeInv
    <3>2. \A m \in MessageType : Append(channel, m) \in Seq(MessageType)
      BY <3>1, Grows
    <3> QED BY <1>0, <1>4, <3>1, <3>2, MoveSends
  <2> QED BY <1>0, <1>4, <2>1 DEF Moves, TypeInv, loop, active
<1>5. CASE Serving
  <2>1. serving' \in {"ready", "cancelling", "exited"}
        /\ cancelling' \in [by : Requests \cup {None}, hit : Requests \cup {None}]
    <3>1. CASE Goes
      BY <1>0, <3>1 DEF Goes, TypeInv
    <3>2. CASE Finds
      <4>1. PICK t \in Hit(Message.of) : cancelling' = [by |-> Message.of, hit |-> t]
        BY <3>2 DEF Finds
      <4>2. t \in Requests \cup {None} /\ Message.of \in Requests
        BY <1>0, <3>2, <4>1, Received DEF Finds, Hit, ActiveSet, TypeInv
      <4> QED BY <3>2, <4>1, <4>2 DEF Finds
    <3> QED BY <1>5, <3>1, <3>2, GoesOrFinds
  <2>2. UNCHANGED sent
    BY <1>5 DEF Serving
  <2>3. CASE Begins
    <3>1. channel' \in Seq(MessageType)
      BY <1>0, <2>3, Received DEF Begins
    <3>2. /\ Message.of \in Requests /\ worker' \in [Requests -> WorkerState]
          /\ UNCHANGED <<shutting, outputFailed, out>>
          /\ mutation' \in {Message.of, None} /\ operation' \in {Message.of, None}
      BY <2>3, Begun
    <3> QED BY <1>0, <2>1, <2>2, <3>1, <3>2 DEF TypeInv
  <2>4. ASSUME NEW line, Advances(line) PROVE TypeInv'
    <3>1. channel' \in Seq(MessageType) /\ out' \in Seq(LineType)
      BY <1>0, <2>4, Advanced DEF Fewer, OneLine
    <3>2. mutation' \in Requests \cup {None} /\ operation' \in Requests \cup {None}
      BY <1>0, <2>4 DEF TypeInv, Advances
    <3>3. shutting' \in BOOLEAN /\ outputFailed' \in BOOLEAN /\ worker' \in [Requests -> WorkerState]
      BY <2>4 DEF Advances, Flags
    <3> QED BY <1>0, <2>1, <2>2, <3>1, <3>2, <3>3 DEF TypeInv
  <2> QED BY <1>5, <2>3, <2>4, ServingAdvances
<1> QED BY <1>1, <1>2, <1>3, <1>4, <1>5 DEF Does

(* Every worker stays in order.                                             *)
LEMMA WorkersKept ==
  ASSUME Serves, Does
  PROVE  WorkersOK'
<1>0. WorkersOK
  BY DEF Serves
<1>1. CASE Quiet \/ Asks \/ Announces
  BY <1>0, <1>1 DEF Quiet, Asks, Announces, WorkersOK
<1>2. ASSUME NEW r \in Requests, Moves(r) PROVE WorkersOK'
  BY <1>0, <1>2 DEF Moves, Mine, WorkersOK
<1>3. CASE Serving
  <2>1. CASE Begins
    BY <1>0, <2>1, Begun DEF WorkersOK
  <2>2. ASSUME NEW line, Advances(line) PROVE WorkersOK'
    BY <2>2 DEF Advances, Flags, SameWorker, WorkersOK
  <2> QED BY <1>3, <2>1, <2>2, ServingAdvances
<1> QED BY <1>1, <1>2, <1>3 DEF Does

-----------------------------------------------------------------------------
(* What has been asked for.  The parts of Asked, each on its own.           *)

AskedFor == \A r \in Requests : worker[r].pc # "none" => r <= Len(sent) /\ sent[r].kind # "cancel"
Read     == \A k \in DOMAIN out : out[k].of # None => out[k].of <= Len(sent)
Started  == \A r \in ActiveSet : worker[r].pc # "none"

Fresh(r) == \A k \in DOMAIN out : out[k].of # r

Waiting ==
  \A p \in DOMAIN channel : channel[p].type = "request" =>
    /\ channel[p].of <= Len(sent) /\ worker[channel[p].of].pc = "none"
    /\ Fresh(channel[p].of)
    /\ \A q \in DOMAIN channel :
         channel[q].type = "request" /\ channel[q].of = channel[p].of => q = p

Cancelling ==
  serving = "cancelling" =>
    /\ cancelling.by \in Requests /\ cancelling.by <= Len(sent)
    /\ sent[cancelling.by].kind = "cancel" /\ Fresh(cancelling.by)
    /\ \A q \in DOMAIN channel : channel[q].type = "request" => channel[q].of # cancelling.by
    /\ cancelling.hit \in ActiveSet /\ sent[cancelling.hit].kind # "launch"
    /\ Id(cancelling.hit) = sent[cancelling.by].target

(* Asked is the conjunction of its parts.                                   *)
LEMMA AskedParts ==
  Asked <=> AskedFor /\ Read /\ Started /\ Waiting /\ Cancelling
BY DEF Asked, AskedFor, Read, Started, Waiting, Cancelling, Fresh

(* And so it is in the next state.                                          *)
LEMMA AskedPartsNext ==
  Asked' <=> (AskedFor /\ Read /\ Started /\ Waiting /\ Cancelling)'
BY DEF Asked, AskedFor, Read, Started, Waiting, Cancelling, Fresh

(* A message of a request concerns one of the requests.                     *)
LEMMA MailTypes ==
  ASSUME TypeInv
  PROVE  /\ \A p \in DOMAIN channel :
              /\ p \in Nat /\ channel[p].of \in Requests \cup {None}
              /\ channel[p].type \in {"request", "event", "done"} =>
                   channel[p].of \in Requests /\ channel[p].of \in Nat /\ channel[p].n \in Nat
         /\ \A k \in DOMAIN out :
              /\ k \in Nat /\ out[k].of \in Requests \cup {None} /\ out[k].n \in Nat
              /\ IsEvent(out[k]) => out[k].of \in Requests
         /\ Len(sent) \in Nat /\ Requests \subseteq Nat /\ None \notin Requests
         /\ MaxRequests \in Nat
<1>1. \A p \in DOMAIN channel : p \in Nat /\ channel[p] \in MessageType
  BY DEF TypeInv
<1>2. \A k \in DOMAIN out : k \in Nat /\ out[k] \in LineType
  BY DEF TypeInv
<1>3. Requests \subseteq Nat /\ None \notin Requests /\ MaxRequests \in Nat
  BY ServerAssumption DEF Requests
<1>4. \A m \in MessageType :
        /\ m.of \in Requests \cup {None}
        /\ m.type \in {"request", "event", "done"} => m.of \in Requests /\ m.n \in Nat
  BY DEF MessageType
<1>5. \A l \in LineType :
        /\ l.of \in Requests \cup {None} /\ l.n \in Nat
        /\ IsEvent(l) => l.of \in Requests
  BY DEF LineType, IsEvent
<1>6. Len(sent) \in Nat
  BY DEF TypeInv
<1> QED BY <1>1, <1>2, <1>3, <1>4, <1>5, <1>6

(* What has been asked for goes on being asked for while the client sends   *)
(* more.                                                                    *)
LEMMA AskedAsks ==
  ASSUME Serves, Asks
  PROVE  Asked'
<1>0. TypeInv /\ AskedFor /\ Read /\ Started /\ Waiting /\ Cancelling
  BY AskedParts DEF Serves
<1>1. PICK q \in Request : sent' = Append(sent, q)
  BY DEF Asks
<1>2. Grown(sent, sent', q)
  BY <1>0, <1>1, Grows DEF TypeInv
<1> DEFINE n == Len(sent) + 1
           m == Mailed("request", n, 0)
<1>3. n \in Requests /\ n \in Nat /\ n # None
  BY <1>0, MailTypes DEF Asks, Requests
<1>4. Grown(channel, channel', m) /\ m.type = "request" /\ m.of = n
  <2>1. m \in MessageType
    BY <1>3, Mail
  <2> QED BY <1>0, <2>1, Grows DEF TypeInv, Asks, Mailed
<1>5. /\ \A r \in Requests : r <= Len(sent) => sent'[r] = sent[r] /\ r <= Len(sent') /\ r # n
      /\ Len(sent') = n
  BY <1>0, <1>2, MailTypes DEF Grown, Requests
<1>6. UNCHANGED <<out, worker, serving, cancelling, mutation, operation>>
  BY DEF Asks, loop, active
<1>7. worker[n].pc = "none" /\ Fresh(n)
  BY <1>0, <1>3, MailTypes DEF AskedFor, Read, Fresh
<1>8. AskedFor'
  BY <1>0, <1>5, <1>6 DEF AskedFor
<1>9. Read'
  BY <1>0, <1>5, <1>6, MailTypes DEF Read
<1>10. Started'
  BY <1>0, <1>6 DEF Started, ActiveSet
<1>11. Waiting'
  <2>1. \A p \in DOMAIN channel : channel[p].type = "request" => channel[p].of # n
    BY <1>0, MailTypes DEF Waiting
  <2> HIDE DEF m, n
  <2>3. \A p \in DOMAIN channel' :
          (p \in DOMAIN channel /\ channel'[p] = channel[p]) \/ (p = Len(channel) + 1 /\ channel'[p] = m)
    BY <1>4, Zenon DEF Grown
  <2> SUFFICES ASSUME NEW p \in DOMAIN channel', channel'[p].type = "request"
               PROVE  /\ channel'[p].of <= Len(sent') /\ worker'[channel'[p].of].pc = "none"
                      /\ \A k \in DOMAIN out' : out'[k].of # channel'[p].of
                      /\ \A z \in DOMAIN channel' :
                           channel'[z].type = "request" /\ channel'[z].of = channel'[p].of => z = p
    BY DEF Waiting, Fresh
  <2>4. CASE p \in DOMAIN channel /\ channel'[p] = channel[p]
    <3>1. channel[p].of \in Requests
      BY <1>0, <2>4, MailTypes
    <3> QED BY <1>0, <1>4, <1>5, <1>6, <2>1, <2>3, <2>4, <3>1 DEF Waiting, Fresh
  <2>5. CASE p = Len(channel) + 1 /\ channel'[p] = m
    BY <1>3, <1>4, <1>5, <1>6, <1>7, <2>1, <2>3, <2>5 DEF Fresh
  <2> QED BY <2>3, <2>4, <2>5
<1>12. Cancelling'
  <2> SUFFICES ASSUME serving' = "cancelling" PROVE Cancelling'
    BY DEF Cancelling
  <2>1. /\ cancelling.by \in Requests /\ cancelling.by <= Len(sent)
        /\ sent[cancelling.by].kind = "cancel" /\ Fresh(cancelling.by)
        /\ \A p \in DOMAIN channel : channel[p].type = "request" => channel[p].of # cancelling.by
        /\ cancelling.hit \in ActiveSet /\ sent[cancelling.hit].kind # "launch"
        /\ Id(cancelling.hit) = sent[cancelling.by].target
    BY <1>0, <1>6 DEF Cancelling
  <2>2. cancelling.hit \in Requests /\ cancelling.hit <= Len(sent)
    BY <1>0, <2>1 DEF Started, AskedFor, ActiveSet, TypeInv
  <2>3. sent'[cancelling.hit] = sent[cancelling.hit] /\ sent'[cancelling.by] = sent[cancelling.by]
        /\ cancelling.by <= Len(sent') /\ cancelling.by # n
    BY <1>5, <2>1, <2>2
  <2>4. \A p \in DOMAIN channel' : channel'[p].type = "request" => channel'[p].of # cancelling.by
    BY <1>4, <2>1, <2>3 DEF Grown
  <2> QED BY <1>6, <2>1, <2>3, <2>4 DEF Cancelling, Fresh, ActiveSet, Id
<1> QED BY <1>8, <1>9, <1>10, <1>11, <1>12, AskedPartsNext

(* One more message that is no request does not matter to Asked.            *)
LEMMA AskedElse ==
  ASSUME Serves, UNCHANGED <<sent, out, mutation, operation, serving, cancelling>>,
         \A r \in Requests : worker'[r].pc = "none" <=> worker[r].pc = "none",
         \/ channel' = channel
         \/ \E m \in MessageType : m.type # "request" /\ channel' = Append(channel, m)
  PROVE  Asked'
<1>0. TypeInv /\ AskedFor /\ Read /\ Started /\ Waiting /\ Cancelling
  BY AskedParts DEF Serves
<1>1. \A p \in DOMAIN channel' : channel'[p].type = "request" =>
        p \in DOMAIN channel /\ channel'[p] = channel[p]
  <2>1. CASE channel' = channel
    BY <2>1
  <2>2. ASSUME NEW m \in MessageType, m.type # "request", channel' = Append(channel, m)
        PROVE  \A p \in DOMAIN channel' : channel'[p].type = "request" =>
                 p \in DOMAIN channel /\ channel'[p] = channel[p]
    <3>1. Grown(channel, channel', m)
      BY <1>0, <2>2, Grows DEF TypeInv
    <3> QED BY <2>2, <3>1 DEF Grown
  <2> QED BY <2>1, <2>2
<1>2. ActiveSet' = ActiveSet /\ ActiveSet \subseteq Requests
  BY <1>0 DEF ActiveSet, TypeInv
<1>3. AskedFor' /\ Read' /\ Started'
  BY <1>0, <1>2 DEF AskedFor, Read, Started
<1>4. \A r : Fresh(r)' <=> Fresh(r)
  BY DEF Fresh
<1>5. Waiting'
  BY <1>0, <1>1, <1>4, MailTypes DEF Waiting
<1>6. Cancelling'
  BY <1>0, <1>1, <1>2, <1>4 DEF Cancelling, Id
<1> QED BY <1>3, <1>5, <1>6, AskedPartsNext

(* A line is about nobody, or about a request that has been read and does   *)
(* not wait any more.                                                       *)
LEMMA Whose ==
  ASSUME Serves, NEW line, Told(line), Fewer
  PROVE  line.of # None =>
           /\ line.of <= Len(sent)
           /\ \A p \in DOMAIN channel' : channel'[p].type = "request" => channel'[p].of # line.of
<1>0. TypeInv /\ AskedFor /\ Read /\ Started /\ Waiting /\ Cancelling /\ Slots
  BY AskedParts DEF Serves
<1>a. \A p \in DOMAIN channel' : \E q \in DOMAIN channel : channel'[p] = channel[q]
  BY DEF Fewer
<1>1. CASE line = Line("answer", None, 0)
  BY <1>1 DEF Line
<1>2. CASE Answers /\ \E kind \in {"answer", "rejected"} : line = Line(kind, Message.of, 0)
  <2>1. Receive("request") /\ line.of = Message.of
    BY <1>2 DEF Answers, Line
  <2>2. Shrunk(channel, channel') /\ Message = channel[1] /\ Message.type = "request"
        /\ 1 \in DOMAIN channel
    BY <1>0, <2>1, Received
  <2>3. Message.of <= Len(sent)
        /\ \A q \in DOMAIN channel : channel[q].type = "request" /\ channel[q].of = Message.of => q = 1
    BY <1>0, <2>2 DEF Waiting
  <2> QED BY <2>1, <2>2, <2>3 DEF Shrunk
<1>3. CASE Cancels /\ line = Line("accepted", cancelling.by, cancelling.hit)
  BY <1>0, <1>3 DEF Cancels, Line, Cancelling
<1>4. ASSUME line.of \in ActiveSet, line.of \in Requests
      PROVE  /\ line.of <= Len(sent)
             /\ \A p \in DOMAIN channel' : channel'[p].type = "request" => channel'[p].of # line.of
  BY <1>0, <1>4, <1>a DEF Started, AskedFor, Waiting
<1>5. CASE Passes /\ line = Line(worker[Message.of].emitted[Message.n], Message.of, Message.n)
  <2>1. Message = channel[1] /\ Message.type = "event" /\ 1 \in DOMAIN channel
        /\ Message.of \in Requests
    BY <1>0, <1>5, Received DEF Passes
  <2>2. Message.of \in ActiveSet
    BY <1>0, <2>1, MailTypes DEF Slots, ActiveSet
  <2> QED BY <1>4, <1>5, <2>1, <2>2 DEF Line
<1>6. CASE Ends /\ line = Line("answer", Message.of, 0)
  <2>1. Message.of \in Requests /\ Message.of \in ActiveSet
    BY <1>0, <1>6, Received DEF Ends
  <2> QED BY <1>4, <1>6, <2>1 DEF Line
<1> QED BY <1>1, <1>2, <1>3, <1>5, <1>6 DEF Told

(* The loop keeps to what has been asked for.                               *)
LEMMA AskedServing ==
  ASSUME Serves, Serving
  PROVE  Asked'
<1>0. /\ TypeInv /\ AskedFor /\ Read /\ Started /\ Waiting /\ Cancelling /\ UNCHANGED sent
  BY AskedParts DEF Serves, Serving
<1>1. CASE Begins
  <2> DEFINE r == Message.of
  <2>1. /\ r \in Requests /\ r <= Len(sent) /\ sent[r].kind # "cancel"
        /\ \A s \in Requests : s # r => worker'[s] = worker[s]
        /\ worker'[r].pc # "none"
        /\ \A k \in DOMAIN out : out[k].of # r
        /\ UNCHANGED out /\ mutation' \in {r, None} /\ operation' \in {r, None}
        /\ \A q \in DOMAIN channel' : channel'[q].type = "request" => channel'[q].of # r
    BY <1>1, Begun
  <2>2. Shrunk(channel, channel')
    BY <1>0, <1>1, Received DEF Begins
  <2>3. serving' # "cancelling"
    BY <1>1 DEF Begins, Goes
  <2> HIDE DEF r
  <2>4. AskedFor' /\ Read' /\ Started'
    BY <1>0, <2>1 DEF AskedFor, Read, Started, ActiveSet
  <2>5. \A p \in DOMAIN channel' :
          p \in Nat /\ p + 1 \in DOMAIN channel /\ channel'[p] = channel[p + 1]
    BY <2>2 DEF Shrunk
  <2>6. Waiting'
    BY <1>0, <2>1, <2>5, MailTypes DEF Waiting, Fresh
  <2>7. Cancelling'
    BY <2>3 DEF Cancelling
  <2> QED BY <2>4, <2>6, <2>7, AskedPartsNext
<1>2. ASSUME NEW line, Told(line), Advances(line) PROVE Asked'
  <2>1. Fewer /\ OneLine(line)
    BY <1>0, <1>2, Advanced
  <2>2. line.of # None =>
           /\ line.of <= Len(sent)
           /\ \A p \in DOMAIN channel' : channel'[p].type = "request" => channel'[p].of # line.of
    BY <1>2, <2>1, Whose
  <2>3. \A r \in Requests : worker'[r].pc = worker[r].pc
    BY <1>2 DEF Advances, Flags, SameWorker
  <2>4. ActiveSet' \subseteq ActiveSet /\ ActiveSet \subseteq Requests
    BY <1>0, <1>2 DEF Advances, ActiveSet, TypeInv
  <2>5. AskedFor' /\ Started'
    BY <1>0, <2>3, <2>4 DEF AskedFor, Started
  <2>6. Read'
    BY <1>0, <2>1, <2>2 DEF Read, OneLine
  <2>7. \A r : r # line.of /\ Fresh(r) => Fresh(r)'
    BY <2>1 DEF Fresh, OneLine
  <2>8. \A p \in DOMAIN channel' : channel'[p].type = "request" =>
          channel'[p].of # line.of /\ channel'[p].of \in Requests
    <3>1. \A p \in DOMAIN channel' : \E q \in DOMAIN channel : channel'[p] = channel[q]
      BY <2>1 DEF Fewer
    <3> QED BY <1>0, <2>2, <3>1, MailTypes
  <2>9. Waiting'
    <3>1. CASE \A p \in DOMAIN channel' : p \in DOMAIN channel /\ channel'[p] = channel[p]
      BY <1>0, <2>3, <2>7, <2>8, <3>1 DEF Waiting
    <3>2. CASE \A p \in DOMAIN channel' : p + 1 \in DOMAIN channel /\ channel'[p] = channel[p + 1]
      <4>1. \A p, q \in DOMAIN channel' : p + 1 = q + 1 => p = q
        BY <2>1 DEF Fewer
      <4> QED BY <1>0, <2>3, <2>7, <2>8, <3>2, <4>1 DEF Waiting
    <3> QED BY <2>1, <3>1, <3>2 DEF Fewer
  <2>10. Cancelling'
    <3>1. CASE Goes
      BY <3>1 DEF Goes, Cancelling
    <3>2. CASE Finds
      <4>1. PICK t \in Hit(Message.of) : cancelling' = [by |-> Message.of, hit |-> t]
        BY <3>2 DEF Finds
      <4>2. /\ Receive("request") /\ UNCHANGED <<active, out>> /\ sent[Message.of].kind = "cancel"
        BY <3>2 DEF Finds, Mutely
      <4>3. Shrunk(channel, channel') /\ Message = channel[1] /\ Message.type = "request"
            /\ 1 \in DOMAIN channel /\ Message.of \in Requests
        BY <1>0, <4>2, Received
      <4>4. /\ Message.of <= Len(sent) /\ Fresh(Message.of)
            /\ \A q \in DOMAIN channel :
                 channel[q].type = "request" /\ channel[q].of = Message.of => q = 1
        BY <1>0, <4>3 DEF Waiting
      <4>5. \A q \in DOMAIN channel' : channel'[q].type = "request" => channel'[q].of # Message.of
        BY <4>3, <4>4 DEF Shrunk
      <4>6. /\ t \in ActiveSet /\ ActiveSet' = ActiveSet /\ Id(t) = sent[Message.of].target
            /\ sent[t].kind # "launch"
        BY <4>1, <4>2 DEF Hit, active, ActiveSet
      <4>7. cancelling'.by = Message.of /\ cancelling'.hit = t
        BY <4>1
      <4>8. \A k \in DOMAIN out' : out'[k].of # Message.of
        BY <4>2, <4>4 DEF Fresh
      <4> QED BY <1>0, <4>2, <4>3, <4>4, <4>5, <4>6, <4>7, <4>8 DEF Cancelling, Fresh, Id
    <3>3. Serving
      OBVIOUS
    <3> QED BY <3>1, <3>2, GoesOrFinds
  <2> QED BY <2>5, <2>6, <2>9, <2>10, AskedPartsNext
<1> QED BY <1>1, <1>2, ServingAdvances

(* Every step keeps Asked.                                                  *)
LEMMA AskedKept ==
  ASSUME Serves, Does
  PROVE  Asked'
<1>0. TypeInv
  BY DEF Serves
<1>1. CASE Quiet
  BY <1>1, AskedElse DEF Quiet, active
<1>2. CASE Asks
  BY <1>2, AskedAsks
<1>3. CASE Announces
  <2>1. PICK type \in {"inputError", "inputClosed"} :
          channel' = Append(channel, Mailed(type, None, 0))
    BY <1>3 DEF Announces
  <2>2. Mailed(type, None, 0) \in MessageType /\ Mailed(type, None, 0).type # "request"
    BY DEF Mailed, MessageType
  <2> QED BY <1>3, <2>1, <2>2, AskedElse DEF Announces, loop, active
<1>4. ASSUME NEW r \in Requests, Moves(r) PROVE Asked'
  <2>1. \A s \in Requests : worker'[s].pc = "none" <=> worker[s].pc = "none"
    BY <1>4 DEF Moves, Mine, Alive
  <2>2. \/ channel' = channel
        \/ \E m \in MessageType : m.type # "request" /\ channel' = Append(channel, m)
    BY <1>0, <1>4, MoveSends
  <2> QED BY <1>4, <2>1, <2>2, AskedElse DEF Moves, loop, active
<1>5. CASE Serving
  BY <1>5, AskedServing
<1> QED BY <1>1, <1>2, <1>3, <1>4, <1>5 DEF Does

-----------------------------------------------------------------------------
(* Who is active.  The parts of Slots, each on its own.                     *)

OneSlot ==
  /\ mutation = None \/ operation = None
  /\ mutation # None => sent[mutation].kind \in {"mutation", "launch"}
  /\ operation # None => sent[operation].kind = "operation"

Owners ==
  \A r \in Requests :
    /\ Alive(r) => r \in ActiveSet
    /\ worker[r].pc \in HasEvents => sent[r].kind = "mutation"
    /\ worker[r].pc = "ended" => r \in ActiveSet \/ Answered(r) \/ outputFailed

Results ==
  \A p \in DOMAIN channel :
    /\ channel[p].type = "done" =>
         /\ channel[p].of \in ActiveSet /\ worker[channel[p].of].pc = "ended"
         /\ \A q \in DOMAIN channel :
              channel[q].of = channel[p].of /\ channel[q].type \in {"done", "event"} => q <= p
    /\ channel[p].type = "event" => channel[p].of = mutation

Unanswered == \A r \in ActiveSet : ~Answered(r)

Over == serving = "exited" => ActiveSet = {}

(* Slots is the conjunction of its parts.                                   *)
LEMMA SlotsParts ==
  Slots <=> OneSlot /\ Owners /\ Results /\ Unanswered /\ Over
BY DEF Slots, OneSlot, Owners, Results, Unanswered, Over

(* And so it is in the next state.                                          *)
LEMMA SlotsPartsNext ==
  Slots' <=> (OneSlot /\ Owners /\ Results /\ Unanswered /\ Over)'
BY DEF Slots, OneSlot, Owners, Results, Unanswered, Over

(* At most one request is active.                                           *)
LEMMA Alone ==
  ASSUME TypeInv, OneSlot
  PROVE  /\ \A r, s \in ActiveSet : r = s
         /\ ActiveSet \subseteq Requests
         /\ \A r \in ActiveSet : sent[r].kind = "mutation" => r = mutation
BY DEF OneSlot, ActiveSet, TypeInv

(* Nothing about the slots changes while only requests or notices are       *)
(* added to the channel.                                                    *)
LEMMA SlotsElse ==
  ASSUME Serves, UNCHANGED <<out, mutation, operation, serving, outputFailed, worker>>,
         \A r \in Requests : r <= Len(sent) => sent'[r] = sent[r],
         \/ channel' = channel
         \/ \E m \in MessageType : m.type \notin {"done", "event"} /\ channel' = Append(channel, m)
  PROVE  Slots'
<1>0. TypeInv /\ OneSlot /\ Owners /\ Results /\ Unanswered /\ Over /\ AskedFor /\ Started
  BY SlotsParts, AskedParts DEF Serves
<1>1. \A p \in DOMAIN channel' : channel'[p].type \in {"done", "event"} =>
        p \in DOMAIN channel /\ channel'[p] = channel[p]
  <2>1. CASE channel' = channel
    BY <2>1
  <2>2. ASSUME NEW m \in MessageType, m.type \notin {"done", "event"}, channel' = Append(channel, m)
        PROVE  \A p \in DOMAIN channel' : channel'[p].type \in {"done", "event"} =>
                 p \in DOMAIN channel /\ channel'[p] = channel[p]
    <3>1. Grown(channel, channel', m)
      BY <1>0, <2>2, Grows DEF TypeInv
    <3> QED BY <2>2, <3>1 DEF Grown
  <2> QED BY <2>1, <2>2
<1>2. ActiveSet' = ActiveSet /\ ActiveSet \subseteq Requests
  BY <1>0 DEF ActiveSet, TypeInv
<1>3. \A r \in Requests : worker[r].pc # "none" => sent'[r] = sent[r]
  BY <1>0 DEF AskedFor
<1>4. OneSlot'
  BY <1>0, <1>3 DEF OneSlot, Started, ActiveSet, TypeInv
<1>5. \A r \in Requests : (Alive(r)' <=> Alive(r)) /\ (Answered(r)' <=> Answered(r))
  BY DEF Alive, Answered
<1>6. Owners'
  <2>1. \A r \in Requests : worker[r].pc \in HasEvents => worker[r].pc # "none"
    BY DEF HasEvents
  <2> QED BY <1>0, <1>2, <1>3, <1>5, <2>1 DEF Owners
<1>7. Results'
  BY <1>0, <1>1, <1>2 DEF Results
<1>8. Unanswered' /\ Over'
  BY <1>0, <1>2, <1>5 DEF Unanswered, Over
<1> QED BY <1>4, <1>6, <1>7, <1>8, SlotsPartsNext

(* A move of a worker is one of the active request.                         *)
LEMMA SlotsMoves ==
  ASSUME Serves, NEW r \in Requests, Moves(r)
  PROVE  Slots'
<1>0. /\ TypeInv /\ OneSlot /\ Owners /\ Results /\ Unanswered /\ Over
      /\ UNCHANGED <<sent, out, mutation, operation, serving, outputFailed>>
  BY SlotsParts DEF Serves, Moves, loop, active
<1>1. /\ \A s \in Requests : s # r => worker'[s] = worker[s]
      /\ Alive(r) /\ worker'[r].pc # "none"
      /\ worker'[r].pc \in HasEvents => worker[r].pc \in HasEvents
  BY DEF Moves, Mine
<1>2. ActiveSet = {r} /\ worker[r].pc # "ended"
  BY <1>0, <1>1, Alone DEF Owners, Alive
<1>3. ActiveSet' = ActiveSet
  BY <1>0 DEF ActiveSet
<1>4. OneSlot'
  BY <1>0 DEF OneSlot
<1>5. \A s \in Requests : Answered(s)' <=> Answered(s)
  BY <1>0 DEF Answered
<1>6. Owners'
  BY <1>0, <1>1, <1>2, <1>3, <1>5 DEF Owners, Alive
<1>7. \A p \in DOMAIN channel : channel[p].type # "done"
  BY <1>0, <1>2 DEF Results
<1>8. Results'
  <2>1. ASSUME NEW m \in MessageType, channel' = Append(channel, m), m.type = "event",
               m.of = mutation
        PROVE  Results'
    <3>1. Grown(channel, channel', m)
      BY <1>0, <2>1, Grows DEF TypeInv
    <3>2. \A p \in DOMAIN channel' : channel'[p].type # "done"
      BY <1>7, <2>1, <3>1 DEF Grown
    <3> QED BY <1>0, <2>1, <3>1, <3>2 DEF Results, Grown
  <2>2. CASE Keeps(r)
    BY <1>0, <1>7, <2>2 DEF Keeps, Results
  <2>3. CASE SendsProgress(r) \/ SendsControl(r)
    <3>1. worker[r].pc \in HasEvents
      BY <2>3 DEF SendsProgress, SendsControl
    <3>2. r = mutation
      BY <1>0, <1>2, <3>1, Alone DEF Owners
    <3>3. PICK n : channel' = Append(channel, Mailed("event", r, n))
      BY <2>3 DEF SendsProgress, SendsControl
    <3>4. channel' # channel
      <4>1. Len(Append(channel, Mailed("event", r, n))) = Len(channel) + 1
            /\ Len(channel) \in Nat
        BY <1>0 DEF TypeInv
      <4> QED BY <3>3, <4>1
    <3>5. PICK m \in MessageType : channel' = Append(channel, m)
      BY <1>0, <3>4, MoveSends
    <3>6. m = Mailed("event", r, n)
      <4>1. Append(channel, m)[Len(channel) + 1] = m
            /\ Append(channel, Mailed("event", r, n))[Len(channel) + 1] = Mailed("event", r, n)
        BY <1>0 DEF TypeInv
      <4> QED BY <3>3, <3>5, <4>1
    <3> QED BY <2>1, <3>2, <3>5, <3>6 DEF Mailed
  <2>4. CASE SendsResult(r)
    <3> DEFINE m == Mailed("done", r, 0)
    <3>1. m \in MessageType /\ m.type = "done" /\ m.of = r
      BY Mail DEF Mailed
    <3>2. Grown(channel, channel', m)
      BY <1>0, <2>4, <3>1, Grows DEF TypeInv, SendsResult
    <3>3. worker'[r].pc = "ended"
      BY <2>4 DEF SendsResult
    <3> HIDE DEF m
    <3>4. \A p \in DOMAIN channel' : channel'[p].type = "done" => p = Len(channel) + 1
      BY <1>7, <3>2 DEF Grown
    <3>5. \A q \in DOMAIN channel' : q <= Len(channel) + 1
      BY <3>2 DEF Grown
    <3>6. \A p \in DOMAIN channel' : channel'[p].type = "event" => channel'[p].of = mutation'
      BY <1>0, <3>1, <3>2 DEF Grown, Results
    <3> QED BY <1>2, <1>3, <3>1, <3>2, <3>3, <3>4, <3>5, <3>6 DEF Results, Grown
  <2> QED BY <2>2, <2>3, <2>4 DEF Moves
<1>9. Unanswered' /\ Over'
  BY <1>0, <1>2, <1>3, <1>5 DEF Unanswered, Over
<1> QED BY <1>4, <1>6, <1>8, <1>9, SlotsPartsNext

(* What is answered stays answered.                                         *)
LEMMA AnsweredStays ==
  ASSUME NEW line, OneLine(line), NEW r
  PROVE  /\ Answered(r) => Answered(r)'
         /\ Answered(r)' /\ (line.of # r \/ ~IsAnswer(line)) => Answered(r)
<1>1. ASSUME Answered(r) PROVE Answered(r)'
  BY <1>1 DEF Answered, OneLine
<1>2. ASSUME Answered(r)', line.of # r \/ ~IsAnswer(line) PROVE Answered(r)
  <2>1. PICK k \in DOMAIN out' : out'[k].of = r /\ IsAnswer(out'[k])
    BY <1>2 DEF Answered
  <2>2. k \in DOMAIN out
    BY <1>2, <2>1 DEF OneLine
  <2> QED BY <2>1, <2>2 DEF Answered, OneLine
<1> QED BY <1>1, <1>2

(* The loop answers what is not active any more, or what never was.         *)
LEMMA AnswersOthers ==
  ASSUME Serves, NEW line, Told(line), ~Ends
  PROVE  (line.of \notin ActiveSet \/ ~IsAnswer(line)) /\ UNCHANGED active
<1>0. TypeInv /\ AskedFor /\ Started /\ Waiting /\ Cancelling
  BY AskedParts DEF Serves
<1>1. CASE line = Line("answer", None, 0)
  BY <1>1 DEF Line, ActiveSet, Told, Ignores, Finds, Answers, Cancels, Closes, Passes
<1>2. CASE Answers /\ \E kind \in {"answer", "rejected"} : line = Line(kind, Message.of, 0)
  <2>1. Receive("request") /\ line.of = Message.of /\ UNCHANGED active
    BY <1>2 DEF Answers, Line
  <2>2. Message = channel[1] /\ Message.type = "request" /\ 1 \in DOMAIN channel
    BY <1>0, <2>1, Received
  <2> QED BY <1>0, <2>1, <2>2 DEF Waiting, Started
<1>3. CASE Cancels /\ line = Line("accepted", cancelling.by, cancelling.hit)
  <2>1. sent[line.of].kind = "cancel" /\ UNCHANGED active
    BY <1>0, <1>3 DEF Cancelling, Cancels, Line
  <2>2. \A r \in ActiveSet : sent[r].kind # "cancel"
    BY <1>0 DEF Started, AskedFor, ActiveSet, TypeInv
  <2> QED BY <2>1, <2>2
<1>4. CASE Passes /\ line = Line(worker[Message.of].emitted[Message.n], Message.of, Message.n)
  <2>1. Receive("event") /\ UNCHANGED active
    BY <1>4 DEF Passes
  <2>2. Message = channel[1] /\ Message.type = "event" /\ 1 \in DOMAIN channel
        /\ Message.of \in Requests /\ Message.n \in Nat
    BY <1>0, <2>1, Received
  <2>3. Emitted(Message.of, Message.n)
    BY <2>2 DEF Serves, Flow
  <2>4. worker[Message.of].emitted \in Seq({"progress", "control"})
    BY <1>0, <2>2 DEF TypeInv, WorkerState
  <2>5. worker[Message.of].emitted[Message.n] \in {"progress", "control"}
    BY <2>2, <2>3, <2>4 DEF Emitted, Base
  <2> QED BY <1>4, <2>1, <2>5 DEF Line, IsAnswer
<1> QED BY <1>1, <1>2, <1>3, <1>4 DEF Told

(* The loop fills and empties the slots one request at a time.              *)
LEMMA SlotsServing ==
  ASSUME Serves, Serving
  PROVE  Slots'
<1>0. /\ TypeInv /\ OneSlot /\ Owners /\ Results /\ Unanswered /\ Over /\ UNCHANGED sent
      /\ AskedFor /\ Started
  BY SlotsParts, AskedParts DEF Serves, Serving
<1>1. CASE Begins
  <2> DEFINE r == Message.of
  <2>1. /\ r \in Requests /\ ActiveSet = {} /\ worker[r].pc = "none"
        /\ \A s \in Requests : s # r => worker'[s] = worker[s]
        /\ worker'[r].pc \in {"run", "compute"}
        /\ worker'[r].pc = "run" => sent[r].kind = "mutation"
        /\ \A k \in DOMAIN out : out[k].of # r
        /\ UNCHANGED <<outputFailed, out>>
        /\ \/ sent[r].kind = "operation" /\ operation' = r /\ mutation' = None
           \/ sent[r].kind \in {"mutation", "launch"} /\ mutation' = r /\ operation' = None
    BY <1>1, Begun
  <2>2. Shrunk(channel, channel')
    BY <1>0, <1>1, Received DEF Begins
  <2>3. serving' = "exited" => ActiveSet' = {}
    BY <1>1 DEF Begins, Goes
  <2> HIDE DEF r
  <2>4. ActiveSet' = {r} /\ mutation = None
    BY <2>1, MailTypes, <1>0 DEF ActiveSet
  <2>5. OneSlot'
    BY <1>0, <2>1 DEF OneSlot
  <2>6. \A s \in Requests : Answered(s) => Answered(s)'
    BY <2>1 DEF Answered
  <2>7. Owners'
    BY <1>0, <2>1, <2>4, <2>6 DEF Owners, Alive, HasEvents
  <2>8. \A p \in DOMAIN channel' : channel'[p].type \notin {"done", "event"}
    <3>1. \A p \in DOMAIN channel : channel[p].type \notin {"done", "event"}
      BY <1>0, <2>1, <2>4, MailTypes DEF Results
    <3>2. \A p \in DOMAIN channel' : \E q \in DOMAIN channel : channel'[p] = channel[q]
      BY <2>2 DEF Shrunk
    <3> QED BY <3>1, <3>2
  <2>9. Results'
    BY <2>8 DEF Results
  <2>10. Unanswered'
    BY <2>1, <2>4 DEF Unanswered, Answered
  <2> QED BY <2>3, <2>5, <2>7, <2>9, <2>10, SlotsPartsNext DEF Over
<1>2. ASSUME NEW line, Told(line), Advances(line) PROVE Slots'
  <2>1. Fewer /\ OneLine(line)
    BY <1>0, <1>2, Advanced
  <2>2. \A r \in Requests :
          worker'[r].pc = worker[r].pc /\ (Alive(r)' <=> Alive(r)) /\ (Answered(r) => Answered(r)')
    BY <1>2, <2>1, AnsweredStays DEF Advances, Flags, SameWorker, Alive
  <2>3. outputFailed => outputFailed'
    BY <1>2 DEF Advances
  <2>4. Over'
    <3>1. Serving
      OBVIOUS
    <3> QED BY <3>1, GoesOrFinds DEF Over, Goes, Finds
  <2>5. ActiveSet \subseteq Requests /\ \A r, s \in ActiveSet : r = s
    BY <1>0, Alone
  <2>6. CASE Ends
    <3>0. PICK r \in Requests : r = Message.of
      BY <1>0, <2>6, Received DEF Ends
    <3>1. /\ Receive("done") /\ ActiveSet = {r} /\ mutation' = None /\ operation' = None
          /\ Says(Line("answer", r, 0))
      BY <2>6, <3>0 DEF Ends
    <3>2. /\ Shrunk(channel, channel') /\ r = channel[1].of /\ channel[1].type = "done"
          /\ 1 \in DOMAIN channel /\ r \in Requests
      BY <1>0, <3>0, <3>1, Received
    <3>3. /\ \A q \in DOMAIN channel :
               channel[q].of = r /\ channel[q].type \in {"done", "event"} => q <= 1
          /\ worker[r].pc = "ended"
      BY <1>0, <3>2 DEF Results
    <3>4. ActiveSet' = {}
      BY <3>1 DEF ActiveSet
    <3>5. Answered(r)' \/ outputFailed'
      <4>1. CASE out' = Append(out, Line("answer", r, 0))
        <5>1. Grown(out, out', Line("answer", r, 0))
          <6>1. Line("answer", r, 0) \in LineType
            BY <3>2 DEF Line, LineType
          <6> QED BY <1>0, <4>1, <6>1, Grows DEF TypeInv
        <5>2. Len(out) + 1 \in DOMAIN out' /\ out'[Len(out) + 1] = Line("answer", r, 0)
          BY <5>1 DEF Grown
        <5>3. \E k \in DOMAIN out' : out'[k].of = r /\ IsAnswer(out'[k])
          BY <5>2 DEF Line, IsAnswer
        <5> QED BY <5>3 DEF Answered
      <4> QED BY <3>1, <4>1 DEF Says
    <3>6. \A s \in Requests : ~Alive(s)
      BY <1>0, <3>1, <3>3 DEF Owners, Alive
    <3>7. Owners'
      BY <1>0, <2>2, <2>3, <3>1, <3>3, <3>5, <3>6 DEF Owners, Alive, HasEvents
    <3>8. \A q \in DOMAIN channel : channel[q].type \in {"done", "event"} => channel[q].of = r
      BY <1>0, <3>1, MailTypes DEF Results, ActiveSet
    <3>9. \A p \in DOMAIN channel' : channel'[p].type \notin {"done", "event"}
      <4>1. \A p \in DOMAIN channel' :
              p \in Nat /\ p # 0 /\ p + 1 \in DOMAIN channel /\ channel'[p] = channel[p + 1]
        BY <3>2 DEF Shrunk
      <4> QED BY <3>3, <3>8, <4>1
    <3>10. OneSlot' /\ Results' /\ Unanswered'
      BY <3>1, <3>4, <3>9 DEF OneSlot, Results, Unanswered
    <3> QED BY <2>4, <3>7, <3>10, SlotsPartsNext
  <2>7. CASE ~Ends
    <3>1. (line.of \notin ActiveSet \/ ~IsAnswer(line)) /\ UNCHANGED active
      BY <1>2, <2>7, AnswersOthers
    <3>2. ActiveSet' = ActiveSet /\ mutation' = mutation /\ operation' = operation
      BY <3>1 DEF active, ActiveSet
    <3>3. OneSlot'
      BY <1>0, <3>2 DEF OneSlot
    <3>4. Owners'
      BY <1>0, <2>2, <2>3, <3>2 DEF Owners
    <3>5. Unanswered'
      BY <1>0, <2>1, <3>1, <3>2, AnsweredStays DEF Unanswered
    <3>6. Results'
      <4>1. \A p \in DOMAIN channel' : channel'[p].type = "done" => channel'[p].of \in Requests
        <5>1. \A p \in DOMAIN channel' : \E q \in DOMAIN channel : channel'[p] = channel[q]
          BY <2>1 DEF Fewer
        <5> QED BY <1>0, <5>1, MailTypes
      <4>2. CASE \A p \in DOMAIN channel' : p \in DOMAIN channel /\ channel'[p] = channel[p]
        BY <1>0, <2>2, <3>2, <4>1, <4>2 DEF Results
      <4>3. CASE \A p \in DOMAIN channel' : p + 1 \in DOMAIN channel /\ channel'[p] = channel[p + 1]
        <5>1. \A p, q \in DOMAIN channel' : q + 1 <= p + 1 => q <= p
          BY <2>1 DEF Fewer
        <5> QED BY <1>0, <2>2, <3>2, <4>1, <4>3, <5>1 DEF Results
      <4> QED BY <2>1, <4>2, <4>3 DEF Fewer
    <3> QED BY <2>4, <3>3, <3>4, <3>5, <3>6, SlotsPartsNext
  <2> QED BY <2>6, <2>7
<1> QED BY <1>1, <1>2, ServingAdvances

(* Every step keeps Slots.                                                  *)
LEMMA SlotsKept ==
  ASSUME Serves, Does
  PROVE  Slots'
<1>0. TypeInv
  BY DEF Serves
<1>1. CASE Quiet
  BY <1>1, SlotsElse DEF Quiet, active
<1>2. CASE Asks
  <2>1. PICK q \in Request : sent' = Append(sent, q)
    BY <1>2 DEF Asks
  <2>2. \A r \in Requests : r <= Len(sent) => sent'[r] = sent[r]
    BY <1>0, <2>1, MailTypes DEF TypeInv, Requests
  <2>3. Mailed("request", Len(sent) + 1, 0) \in MessageType
        /\ Mailed("request", Len(sent) + 1, 0).type = "request"
    <3>1. Len(sent) + 1 \in Requests
      BY <1>0, <1>2, MailTypes DEF Asks, Requests
    <3> QED BY <3>1, Mail DEF Mailed
  <2> QED BY <1>2, <2>2, <2>3, SlotsElse DEF Asks, loop, active
<1>3. CASE Announces
  <2>1. PICK type \in {"inputError", "inputClosed"} :
          channel' = Append(channel, Mailed(type, None, 0))
    BY <1>3 DEF Announces
  <2>2. Mailed(type, None, 0) \in MessageType
        /\ Mailed(type, None, 0).type \notin {"done", "event"}
    BY DEF Mailed, MessageType
  <2> QED BY <1>3, <2>1, <2>2, SlotsElse DEF Announces, loop, active
<1>4. ASSUME NEW r \in Requests, Moves(r) PROVE Slots'
  BY <1>4, SlotsMoves
<1>5. CASE Serving
  BY <1>5, SlotsServing
<1> QED BY <1>1, <1>2, <1>3, <1>4, <1>5 DEF Does

-----------------------------------------------------------------------------
(* The order of the events.  The parts of Flow, each on its own.            *)

OutFlow ==
  \A k \in DOMAIN out : IsEvent(out[k]) =>
    /\ Emitted(out[k].of, out[k].n) /\ out[k].kind = worker[out[k].of].emitted[out[k].n]
    /\ \A p \in DOMAIN channel :
         channel[p].type = "event" /\ channel[p].of = out[k].of => out[k].n < channel[p].n

QueueFlow ==
  \A p \in DOMAIN channel : channel[p].type = "event" =>
    /\ Emitted(channel[p].of, channel[p].n)
    /\ \A q \in DOMAIN channel :
         q < p /\ channel[q].type = "event" => channel[q].n < channel[p].n

(* Flow is the conjunction of its parts, now and in the next state.         *)
LEMMA FlowParts ==
  (Flow <=> OutFlow /\ QueueFlow) /\ (Flow' <=> (OutFlow /\ QueueFlow)')
BY DEF Flow, OutFlow, QueueFlow

(* The worker at most forgets nothing: what it has emitted and does not     *)
(* hold stays so.                                                           *)
Lasting ==
  \A r \in Requests : \A n \in Nat :
    Emitted(r, n) => Emitted(r, n)' /\ worker'[r].emitted[n] = worker[r].emitted[n]

(* Flags do not matter to the events.                                       *)
LEMMA FlagsLast ==
  ASSUME TypeInv, Flags
  PROVE  Lasting /\ \A r \in Requests : \A n : Emitted(r, n)' <=> Emitted(r, n)
BY DEF Flags, SameWorker, Lasting, Emitted

(* The base of a worker is a number, and what it has emitted is within it.  *)
LEMMA Bases ==
  ASSUME NEW w \in WorkerState, WorkerOK(w)
  PROVE  Len(w.emitted) \in Nat /\ Base(w) \in Nat /\ Base(w) <= Len(w.emitted)
         /\ (Base(w) = Len(w.emitted) \/ Base(w) + 1 = Len(w.emitted))
<1>1. Len(w.emitted) \in Nat
  BY DEF WorkerState
<1>2. Waits(w) => Len(w.emitted) # 0
  BY DEF WorkerOK
<1> QED BY <1>1, <1>2 DEF Base

(* Neither does a move of a worker.                                         *)
LEMMA MovesLast ==
  ASSUME TypeInv, WorkersOK, NEW r \in Requests, Moves(r)
  PROVE  Lasting
<1> DEFINE w == worker[r]
           v == worker'[r]
<1>1. w \in WorkerState /\ WorkerOK(w)
  BY DEF TypeInv, WorkersOK
<1>2. Len(w.emitted) \in Nat /\ Base(w) \in Nat /\ Base(w) <= Len(w.emitted)
  BY <1>1, Bases
<1>3. \A i \in 1 .. Len(w.emitted) : v.emitted[i] = w.emitted[i]
  BY DEF Moves, Mine
<1>4. \/ Base(v) = Base(w) /\ Held(v) \subseteq Held(w)
      \/ Base(v) = Base(w) + 1 /\ Held(v) \subseteq {Base(w) + 1}
  BY DEF Moves, Keeps, SendsProgress, SendsControl, SendsResult
<1>5. \A s \in Requests : s # r => worker'[s] = worker[s]
  BY DEF Moves
<1> HIDE DEF w, v
<1>6. \A n \in Nat : n \in 1 .. Base(w) /\ n \notin Held(w) =>
        n \in 1 .. Base(v) /\ n \notin Held(v) /\ v.emitted[n] = w.emitted[n]
  BY <1>2, <1>3, <1>4
<1> QED BY <1>5, <1>6 DEF Lasting, Emitted, w, v

(* Events stay in order as long as what is in the channel was there and     *)
(* nothing is written.                                                      *)
LEMMA FlowElse ==
  ASSUME Serves, UNCHANGED out, Lasting,
         \/ channel' = channel
         \/ \E m \in MessageType : m.type # "event" /\ channel' = Append(channel, m)
  PROVE  Flow'
<1>0. TypeInv /\ OutFlow /\ QueueFlow
  BY FlowParts DEF Serves
<1>1. \A p \in DOMAIN channel' : channel'[p].type = "event" =>
        p \in DOMAIN channel /\ channel'[p] = channel[p]
  <2>1. CASE channel' = channel
    BY <2>1
  <2>2. ASSUME NEW m \in MessageType, m.type # "event", channel' = Append(channel, m)
        PROVE  \A p \in DOMAIN channel' : channel'[p].type = "event" =>
                 p \in DOMAIN channel /\ channel'[p] = channel[p]
    <3>1. Grown(channel, channel', m)
      BY <1>0, <2>2, Grows DEF TypeInv
    <3> QED BY <2>2, <3>1 DEF Grown
  <2> QED BY <2>1, <2>2
<1>2. \A k \in DOMAIN out : IsEvent(out[k]) => out[k].of \in Requests /\ out[k].n \in Nat
  BY <1>0, MailTypes
<1>3. \A p \in DOMAIN channel : channel[p].type = "event" =>
        channel[p].of \in Requests /\ channel[p].n \in Nat
  BY <1>0, MailTypes
<1>4. OutFlow'
  BY <1>0, <1>1, <1>2 DEF OutFlow, Lasting
<1>5. QueueFlow'
  BY <1>0, <1>1, <1>3 DEF QueueFlow, Lasting
<1> QED BY <1>4, <1>5, FlowParts

(* A worker sends its events in the order emitted.                          *)
LEMMA FlowSends ==
  ASSUME Serves, NEW r \in Requests, Moves(r), NEW n \in Nat,
         channel' = Append(channel, Mailed("event", r, n)),
         Emitted(r, n)', \A m \in Nat : Emitted(r, m) => m < n
  PROVE  Flow'
<1>0. /\ TypeInv /\ WorkersOK /\ OutFlow /\ QueueFlow /\ OneSlot /\ Owners /\ Results
      /\ UNCHANGED out
  BY FlowParts, SlotsParts DEF Serves, Moves, loop
<1> DEFINE m == Mailed("event", r, n)
<1>1. m \in MessageType /\ m.type = "event" /\ m.of = r /\ m.n = n
  BY Mail DEF Mailed
<1>2. Grown(channel, channel', m)
  BY <1>0, <1>1, Grows DEF TypeInv
<1> HIDE DEF m
<1>3. Lasting
  BY <1>0, MovesLast
<1>4. r \in ActiveSet
  BY <1>0 DEF Moves, Mine, Owners
<1>5. \A p \in DOMAIN channel : channel[p].type = "event" =>
        channel[p].of = r /\ channel[p].n \in Nat
  BY <1>0, <1>4, Alone, MailTypes DEF Results, ActiveSet
<1>6. \A p \in DOMAIN channel : channel[p].type = "event" => channel[p].n < n
  BY <1>0, <1>5 DEF QueueFlow
<1>7. \A k \in DOMAIN out : IsEvent(out[k]) => out[k].of \in Requests /\ out[k].n \in Nat
  BY <1>0, MailTypes
<1>8. \A k \in DOMAIN out : IsEvent(out[k]) /\ out[k].of = r => out[k].n < n
  BY <1>0, <1>7 DEF OutFlow
<1>9. OutFlow'
  BY <1>0, <1>1, <1>2, <1>3, <1>7, <1>8 DEF OutFlow, Lasting, Grown
<1>10. QueueFlow'
  <2>1. \A p \in DOMAIN channel' : channel'[p].type = "event" =>
          /\ channel'[p].n \in 1 .. Base(worker'[r]) /\ channel'[p].n \notin Held(worker'[r])
          /\ channel'[p].of = r
    <3>1. \A i \in Nat : Emitted(r, i)' => i \in 1 .. Base(worker'[r]) /\ i \notin Held(worker'[r])
      BY DEF Emitted
    <3>2. \A p \in DOMAIN channel : channel[p].type = "event" => Emitted(r, channel[p].n)
      BY <1>0, <1>5 DEF QueueFlow
    <3>3. \A i \in Nat : Emitted(r, i) => Emitted(r, i)'
      BY <1>3 DEF Lasting
    <3> QED BY <1>1, <1>2, <1>5, <3>1, <3>2, <3>3 DEF Grown
  <2>2. \A p, q \in DOMAIN channel' :
          q < p /\ channel'[p].type = "event" /\ channel'[q].type = "event" =>
            channel'[q].n < channel'[p].n
    <3>1. \A p, q \in DOMAIN channel' : q < p => q \in DOMAIN channel /\ channel'[q] = channel[q]
      BY <1>2 DEF Grown
    <3> QED BY <1>0, <1>1, <1>2, <1>6, <3>1 DEF QueueFlow, Grown
  <2> QED BY <2>1, <2>2 DEF QueueFlow, Emitted
<1> QED BY <1>9, <1>10, FlowParts

(* Every move of a worker keeps the order of the events.                    *)
LEMMA FlowMoves ==
  ASSUME Serves, NEW r \in Requests, Moves(r)
  PROVE  Flow'
<1>0. TypeInv /\ WorkersOK /\ UNCHANGED out
  BY DEF Serves, Moves, loop
<1>1. Lasting
  BY <1>0, MovesLast
<1>2. worker[r] \in WorkerState /\ WorkerOK(worker[r])
  BY <1>0 DEF TypeInv, WorkersOK
<1>3. Base(worker[r]) \in Nat
  BY <1>2, Bases
<1>4. CASE Keeps(r)
  BY <1>0, <1>1, <1>4, FlowElse DEF Keeps
<1>5. CASE SendsProgress(r)
  <2> DEFINE b == Base(worker[r])
  <2>1. /\ channel' = Append(channel, Mailed("event", r, b))
        /\ Held(worker[r]) = {b} /\ Held(worker'[r]) = {} /\ Base(worker'[r]) = b
    BY <1>5 DEF SendsProgress
  <2>2. b \in Nat \ {0}
    BY <1>3, <2>1 DEF Held
  <2>3. \A m \in Nat : Emitted(r, m) => m < b
    BY <1>3, <2>1 DEF Emitted
  <2>4. \A m \in Nat : m = b => Emitted(r, m)'
    BY <2>1, <2>2 DEF Emitted
  <2>5. PICK n \in Nat : n = b
    BY <2>2
  <2>6. Emitted(r, n)' /\ channel' = Append(channel, Mailed("event", r, n))
        /\ \A m \in Nat : Emitted(r, m) => m < n
    BY <2>1, <2>3, <2>4, <2>5
  <2> QED BY <2>6, FlowSends
<1>6. CASE SendsControl(r)
  <2> DEFINE b == Base(worker[r]) + 1
  <2>1. /\ channel' = Append(channel, Mailed("event", r, b))
        /\ Held(worker[r]) = {} /\ Held(worker'[r]) = {} /\ Base(worker'[r]) = b
    BY <1>6 DEF SendsControl
  <2>2. b \in Nat \ {0}
    BY <1>3
  <2>3. \A m \in Nat : Emitted(r, m) => m < b
    BY <1>3 DEF Emitted
  <2>4. \A m \in Nat : m = b => Emitted(r, m)'
    BY <2>1, <2>2 DEF Emitted
  <2>5. PICK n \in Nat : n = b
    BY <2>2
  <2>6. Emitted(r, n)' /\ channel' = Append(channel, Mailed("event", r, n))
        /\ \A m \in Nat : Emitted(r, m) => m < n
    BY <2>1, <2>3, <2>4, <2>5
  <2> QED BY <2>6, FlowSends
<1>7. CASE SendsResult(r)
  <2>1. Mailed("done", r, 0) \in MessageType /\ Mailed("done", r, 0).type # "event"
    BY Mail DEF Mailed
  <2> QED BY <1>0, <1>1, <1>7, <2>1, FlowElse DEF SendsResult
<1> QED BY <1>4, <1>5, <1>6, <1>7 DEF Moves

(* The loop takes events from the channel in order.                         *)
LEMMA FlowFewer ==
  ASSUME Serves, Lasting, Fewer
  PROVE  /\ QueueFlow'
         /\ \A k \in DOMAIN out : IsEvent(out[k]) =>
              /\ Emitted(out[k].of, out[k].n) /\ out[k].of \in Requests /\ out[k].n \in Nat
              /\ out[k].kind = worker[out[k].of].emitted[out[k].n]
              /\ \A p \in DOMAIN channel' :
                   channel'[p].type = "event" /\ channel'[p].of = out[k].of
                     => out[k].n < channel'[p].n
<1>0. TypeInv /\ OutFlow /\ QueueFlow
  BY FlowParts DEF Serves
<1>1. \A p \in DOMAIN channel' : \E q \in DOMAIN channel : channel'[p] = channel[q]
  BY DEF Fewer
<1>2. \A k \in DOMAIN out : IsEvent(out[k]) =>
              /\ Emitted(out[k].of, out[k].n) /\ out[k].of \in Requests /\ out[k].n \in Nat
              /\ out[k].kind = worker[out[k].of].emitted[out[k].n]
              /\ \A p \in DOMAIN channel' :
                   channel'[p].type = "event" /\ channel'[p].of = out[k].of
                     => out[k].n < channel'[p].n
  BY <1>0, <1>1, MailTypes DEF OutFlow
<1>3. \A p \in DOMAIN channel' : channel'[p].type = "event" =>
        /\ channel'[p].of \in Requests /\ channel'[p].n \in Nat
        /\ Emitted(channel'[p].of, channel'[p].n)
  <2>1. \A p \in DOMAIN channel : channel[p].type = "event" =>
          /\ channel[p].of \in Requests /\ channel[p].n \in Nat
          /\ Emitted(channel[p].of, channel[p].n)
    BY <1>0, MailTypes DEF QueueFlow
  <2> QED BY <1>1, <2>1
<1>4. \A r \in Requests : \A n \in Nat :
        Emitted(r, n) => n \in 1 .. Base(worker'[r]) /\ n \notin Held(worker'[r])
  BY DEF Lasting, Emitted
<1>5. \A p, q \in DOMAIN channel' :
        q < p /\ channel'[p].type = "event" /\ channel'[q].type = "event" =>
          channel'[q].n < channel'[p].n
  <2>1. CASE \A p \in DOMAIN channel' : p \in DOMAIN channel /\ channel'[p] = channel[p]
    BY <1>0, <2>1 DEF QueueFlow
  <2>2. CASE \A p \in DOMAIN channel' : p + 1 \in DOMAIN channel /\ channel'[p] = channel[p + 1]
    <3>1. \A p, q \in DOMAIN channel' : q < p => q + 1 < p + 1
      BY DEF Fewer
    <3> QED BY <1>0, <2>2, <3>1 DEF QueueFlow
  <2> QED BY <2>1, <2>2 DEF Fewer
<1>6. QueueFlow'
  BY <1>3, <1>4, <1>5 DEF QueueFlow, Emitted
<1> QED BY <1>2, <1>6

(* When a worker starts, there are no results and no events to come.        *)
LEMMA NoMail ==
  ASSUME Serves, Begins
  PROVE  /\ \A p \in DOMAIN channel : channel[p].type \notin {"done", "event"}
         /\ Lasting /\ Fewer
<1>0. TypeInv /\ WorkersOK /\ Results /\ Receive("request")
  BY SlotsParts DEF Serves, Begins
<1>1. ActiveSet = {}
  BY Begun
<1>2. mutation = None
  BY <1>1 DEF ActiveSet
<1>3. \A p \in DOMAIN channel : channel[p].type \notin {"done", "event"}
  BY <1>0, <1>1, <1>2, MailTypes DEF Results
<1>4. Shrunk(channel, channel') /\ channel' \in Seq(MessageType)
  BY <1>0, Received
<1>5. DOMAIN channel \subseteq Nat /\ DOMAIN channel' \subseteq Nat
      /\ \A p \in DOMAIN channel' : p + 1 \in DOMAIN channel /\ channel'[p] = channel[p + 1]
  BY <1>4 DEF Shrunk
<1>6. Fewer
  BY <1>4, <1>5 DEF Fewer
<1>7. PICK r \in Requests : worker[r].pc = "none" /\ \A s \in Requests : s # r => worker'[s] = worker[s]
  BY Begun
<1>8. worker[r].emitted = <<>> /\ Base(worker[r]) = 0
  BY <1>0, <1>7 DEF WorkersOK, WorkerOK, Base, Waits
<1>9. Lasting
  BY <1>7, <1>8 DEF Lasting, Emitted
<1> QED BY <1>3, <1>6, <1>9

(* The loop keeps the order of the events.                                  *)
LEMMA FlowServing ==
  ASSUME Serves, Serving
  PROVE  Flow'
<1>0. TypeInv /\ OutFlow /\ QueueFlow
  BY FlowParts DEF Serves
<1>1. CASE Begins
  <2>1. Lasting /\ Fewer
    BY <1>1, NoMail
  <2>2. out' = out
    BY <1>1, Begun
  <2>3. OutFlow'
    BY <2>1, <2>2, FlowFewer DEF OutFlow, Lasting
  <2> QED BY <2>1, <2>3, FlowFewer, FlowParts
<1>2. ASSUME NEW line, Told(line), Advances(line) PROVE Flow'
  <2>1. Fewer /\ OneLine(line)
    BY <1>0, <1>2, Advanced
  <2>2. Lasting
    BY <1>0, <1>2, FlagsLast DEF Advances
  <2>3. IsEvent(line) =>
          /\ line.of \in Requests /\ line.n \in Nat /\ Emitted(line.of, line.n)
          /\ line.kind = worker[line.of].emitted[line.n]
          /\ \A p \in DOMAIN channel' :
               channel'[p].type = "event" /\ channel'[p].of = line.of => line.n < channel'[p].n
    <3> SUFFICES ASSUME IsEvent(line)
                 PROVE  /\ line.of \in Requests /\ line.n \in Nat /\ Emitted(line.of, line.n)
                        /\ line.kind = worker[line.of].emitted[line.n]
                        /\ \A p \in DOMAIN channel' :
                             channel'[p].type = "event" /\ channel'[p].of = line.of
                               => line.n < channel'[p].n
      OBVIOUS
    <3>1. Passes /\ line = Line(worker[Message.of].emitted[Message.n], Message.of, Message.n)
      BY <1>2 DEF Told, IsEvent, Line
    <3>2. /\ Shrunk(channel, channel') /\ Message = channel[1] /\ Message.type = "event"
          /\ 1 \in DOMAIN channel /\ Message.of \in Requests /\ Message.n \in Nat
      BY <1>0, <3>1, Received DEF Passes
    <3>3. /\ line.of = Message.of /\ line.n = Message.n
          /\ line.kind = worker[Message.of].emitted[Message.n]
      BY <3>1 DEF Line
    <3>4. Emitted(Message.of, Message.n)
      BY <1>0, <3>2 DEF QueueFlow
    <3>5. \A p \in DOMAIN channel' : channel'[p].type = "event" => Message.n < channel'[p].n
      <4>1. \A p \in DOMAIN channel' :
              p + 1 \in DOMAIN channel /\ 1 < p + 1 /\ channel'[p] = channel[p + 1]
        BY <3>2 DEF Shrunk
      <4> QED BY <1>0, <3>2, <4>1 DEF QueueFlow
    <3> QED BY <3>2, <3>3, <3>4, <3>5
  <2>4. \A k \in DOMAIN out' : IsEvent(out'[k]) =>
              /\ Emitted(out'[k].of, out'[k].n) /\ out'[k].of \in Requests /\ out'[k].n \in Nat
              /\ out'[k].kind = worker[out'[k].of].emitted[out'[k].n]
              /\ \A p \in DOMAIN channel' :
                   channel'[p].type = "event" /\ channel'[p].of = out'[k].of
                     => out'[k].n < channel'[p].n
    <3>1. \A k \in DOMAIN out' : (k \in DOMAIN out /\ out'[k] = out[k]) \/ out'[k] = line
      BY <2>1 DEF OneLine
    <3> QED BY <2>1, <2>2, <2>3, <3>1, FlowFewer
  <2>5. \A r \in Requests : \A n \in Nat : Emitted(r, n) =>
          /\ n \in 1 .. Base(worker'[r]) /\ n \notin Held(worker'[r])
          /\ worker'[r].emitted[n] = worker[r].emitted[n]
    BY <2>2 DEF Lasting, Emitted
  <2>6. OutFlow'
    BY <2>4, <2>5 DEF OutFlow, Emitted
  <2> QED BY <2>1, <2>2, <2>6, FlowFewer, FlowParts
<1> QED BY <1>1, <1>2, ServingAdvances

(* Every step keeps Flow.                                                   *)
LEMMA FlowKept ==
  ASSUME Serves, Does
  PROVE  Flow'
<1>0. TypeInv
  BY DEF Serves
<1>a. UNCHANGED worker => Lasting
  BY DEF Lasting, Emitted
<1>1. CASE Quiet
  BY <1>1, <1>a, FlowElse DEF Quiet
<1>2. CASE Asks
  <2>1. Mailed("request", Len(sent) + 1, 0) \in MessageType
        /\ Mailed("request", Len(sent) + 1, 0).type = "request"
    <3>1. Len(sent) + 1 \in Requests
      BY <1>0, <1>2, MailTypes DEF Asks, Requests
    <3> QED BY <3>1, Mail DEF Mailed
  <2> QED BY <1>2, <1>a, <2>1, FlowElse DEF Asks, loop
<1>3. CASE Announces
  <2>1. PICK type \in {"inputError", "inputClosed"} :
          channel' = Append(channel, Mailed(type, None, 0))
    BY <1>3 DEF Announces
  <2>2. Mailed(type, None, 0) \in MessageType /\ Mailed(type, None, 0).type # "event"
    BY DEF Mailed, MessageType
  <2> QED BY <1>3, <1>a, <2>1, <2>2, FlowElse DEF Announces, loop
<1>4. ASSUME NEW r \in Requests, Moves(r) PROVE Flow'
  BY <1>4, FlowMoves
<1>5. CASE Serving
  BY <1>5, FlowServing
<1> QED BY <1>1, <1>2, <1>3, <1>4, <1>5 DEF Does

(* So the server is sound at every moment.                                  *)
LEMMA ServesInit ==
  ASSUME Init
  PROVE  Serves
<1> DEFINE w == [NewWorker("operation", "ended") EXCEPT !.pc = "none"]
<1>1. /\ w \in WorkerState /\ w.pc = "none" /\ w.ticker = "ended" /\ w.emitted = <<>>
      /\ w.pending = 0 /\ w.hand = 0 /\ w.tick = 0 /\ ~w.cancel
  <2>1. NewWorker("operation", "ended")
          = [pc |-> "compute", cancel |-> FALSE, emitted |-> <<>>, pending |-> 0, hand |-> 0,
             after |-> "control", ticker |-> "ended", tick |-> 0]
    BY DEF NewWorker
  <2>2. <<>> \in Seq({"progress", "control"})
    OBVIOUS
  <2>3. NewWorker("operation", "ended") \in WorkerState
    <3>1. \A e \in Seq({"progress", "control"}) :
            [pc |-> "compute", cancel |-> FALSE, emitted |-> e, pending |-> 0, hand |-> 0,
             after |-> "control", ticker |-> "ended", tick |-> 0] \in WorkerState
      BY DEF WorkerState, Pcs
    <3> QED BY <2>1, <2>2, <3>1
  <2>4. \A v \in WorkerState : [v EXCEPT !.pc = "none"] \in WorkerState
    BY DEF WorkerState, Pcs
  <2> QED BY <2>1, <2>3, <2>4
<1> HIDE DEF w
<1>2. Held(w) = {} /\ ~Waits(w) /\ Base(w) = 0
  BY <1>1 DEF Held, Waits, Base
<1>3. WorkerOK(w)
  BY <1>1, <1>2 DEF WorkerOK
<1>4. worker \in [Requests -> WorkerState] /\ \A r \in Requests : worker[r] = w
  BY <1>1 DEF Init, w
<1>5. DOMAIN channel = {} /\ DOMAIN out = {} /\ ActiveSet = {}
  BY DEF Init, ActiveSet
<1>6. TypeInv
  <2>1. sent \in Seq(Request) /\ Len(sent) <= MaxRequests
    BY ServerAssumption DEF Init
  <2>2. channel \in Seq(MessageType) /\ out \in Seq(LineType)
    BY DEF Init
  <2>3. cancelling \in [by : Requests \cup {None}, hit : Requests \cup {None}]
    BY DEF Init
  <2> QED BY <1>4, <2>1, <2>2, <2>3 DEF Init, TypeInv
<1>7. WorkersOK
  BY <1>3, <1>4 DEF WorkersOK
<1>8. Asked
  BY <1>1, <1>4, <1>5 DEF Asked, Init
<1>9. Slots
  BY <1>1, <1>4, <1>5 DEF Slots, Init, Alive, HasEvents
<1>10. Flow
  BY <1>5 DEF Flow
<1> QED BY <1>6, <1>7, <1>8, <1>9, <1>10 DEF Serves

(* Every step keeps the invariant.                                          *)
LEMMA ServesStep ==
  ASSUME Serves, [Next]_vars
  PROVE  Serves'
<1>1. Does
  BY StepDoes
<1>2. stdin' \in {"open", "closed", "broken"} /\ input' \in {"reading", "failed", "ended"}
  <2>0. stdin \in {"open", "closed", "broken"} /\ input \in {"reading", "failed", "ended"}
    BY DEF Serves, TypeInv
  <2> QED BY <2>0 DEF Next, vars, CloseStdin, ReadRequest, InputStep, ReadError, ReadEnd,
                      ServerStep, WorkerStep, TickerStep, Exited
<1> QED BY <1>1, <1>2, TypesKept, WorkersKept, AskedKept, SlotsKept, FlowKept DEF Serves

(* The invariant holds of every behaviour.                                  *)
LEMMA ServesAlways == Spec => []Serves
<1>1. Init => Serves
  BY ServesInit
<1>2. Serves /\ [Next]_vars => Serves'
  BY ServesStep
<1> QED BY <1>1, <1>2, PTL DEF Spec

(* Every variable of the server keeps its type.                             *)
THEOREM ServerTypes == Spec => []TypeInv
<1>1. Serves => TypeInv
  BY DEF Serves
<1> QED BY <1>1, ServesAlways, PTL

(* Workers never overlap, their tickers end with them, and the process ends *)
(* only when none runs, with the result of each on stdout unless that is    *)
(* broken.                                                                  *)
THEOREM WorkersJoin == Spec => []WorkersAreJoined
<1>1. Serves => WorkersAreJoined
  <2> SUFFICES ASSUME Serves PROVE WorkersAreJoined
    OBVIOUS
  <2>0. TypeInv /\ WorkersOK /\ OneSlot /\ Owners /\ Over
    BY SlotsParts DEF Serves
  <2>1. \A r \in Requests : worker[r].ticker # "ended" => Alive(r)
    BY <2>0 DEF WorkersOK, WorkerOK, Alive
  <2>2. \A r \in Requests : worker[r].ticker \in {"waits", "ended"}
    BY <2>0 DEF TypeInv, WorkerState
  <2>3. OneWorker
    BY <2>0, <2>1, Alone DEF OneWorker, Owners
  <2>4. ExitIsClean
    BY <2>0, <2>1 DEF ExitIsClean, Owners, Over
  <2> QED BY <2>3, <2>4 DEF WorkersAreJoined
<1> QED BY <1>1, ServesAlways, PTL

-----------------------------------------------------------------------------
(* Cancellation.                                                            *)

IsAccepted(r) == \E k \in DOMAIN out : out[k].kind = "accepted" /\ out[k].n = r

(* Who is told to stop is active, and told by somebody.                     *)
Reasons == \A r \in Requests : worker[r].cancel => shutting \/ IsAccepted(r)

(* An accepted cancel named what it hit, and that had not been answered.    *)
Acceptances ==
  \A k \in DOMAIN out :
    out[k].kind = "accepted" =>
      /\ out[k].of \in Requests /\ out[k].n \in Requests /\ out[k].n <= Len(sent)
      /\ out[k].of <= Len(sent)
      /\ sent[out[k].n].id = sent[out[k].of].target /\ sent[out[k].n].kind # "launch"
      /\ worker[out[k].n].cancel /\ worker[out[k].n].pc # "none"
      /\ \A j \in 1 .. k : ~(out[j].of = out[k].n /\ IsAnswer(out[j]))

Accepts == Reasons /\ Acceptances

(* Only the answer to a cancel is an acceptance.                            *)
LEMMA OnlyCancels ==
  ASSUME Serves, NEW line, Told(line), line.kind = "accepted"
  PROVE  Cancels /\ line = Line("accepted", cancelling.by, cancelling.hit)
BY EventLine DEF Told, Line, Passes

(* Flags are raised by a shutdown or by the cancel that is accepted.        *)
LEMMA ReasonsKept ==
  ASSUME Serves, Reasons, NEW line, Told(line), Advances(line), Serving
  PROVE  Reasons'
<1>0. TypeInv /\ OneLine(line) /\ (shutting => shutting')
  BY Advanced DEF Serves, Advances
<1>1. \A r \in Requests : IsAccepted(r) => IsAccepted(r)'
  BY <1>0 DEF IsAccepted, OneLine
<1>2. CASE Scoped
  BY <1>0, <1>1, <1>2 DEF Scoped, Reasons
<1>3. CASE Cancels
  <2> DEFINE acceptance == Line("accepted", cancelling.by, cancelling.hit)
  <2>1. \A r \in Requests : worker'[r].cancel => worker[r].cancel \/ shutting' \/ r = cancelling.hit
    BY <1>3 DEF Cancels
  <2>2. shutting' \/ out' = Append(out, acceptance)
    BY <1>3 DEF Cancels
  <2>3. CASE out' = Append(out, acceptance)
    <3>1. out \in Seq(LineType)
      BY <1>0 DEF TypeInv
    <3>2. Len(out) + 1 \in DOMAIN out' /\ out'[Len(out) + 1] = acceptance
      BY <2>3, <3>1
    <3>3. acceptance.kind = "accepted" /\ acceptance.n = cancelling.hit
      BY DEF Line
    <3> HIDE DEF acceptance
    <3>4. \A r \in Requests : r = cancelling.hit => IsAccepted(r)'
      BY <3>2, <3>3 DEF IsAccepted
    <3> QED BY <1>0, <1>1, <2>1, <3>4 DEF Reasons
  <2>4. CASE shutting'
    BY <2>4 DEF Reasons
  <2> QED BY <2>2, <2>3, <2>4
<1> QED BY <1>2, <1>3 DEF Told, Ignores, Finds, Answers, Closes, Passes, Ends

(* An acceptance is true when it is written, and stays so.                  *)
LEMMA AcceptancesKept ==
  ASSUME Serves, Acceptances, NEW line, Told(line), Advances(line)
  PROVE  Acceptances'
<1>0. /\ TypeInv /\ OneLine(line) /\ UNCHANGED sent /\ AskedFor /\ Started /\ Cancelling
      /\ Unanswered /\ OneSlot
  BY Advanced, AskedParts, SlotsParts DEF Serves, Advances
<1>1. \A r \in Requests : worker'[r].pc = worker[r].pc /\ (worker[r].cancel => worker'[r].cancel)
  BY DEF Advances, Flags, SameWorker
<1>2. DOMAIN out = 1 .. Len(out) /\ Len(out) \in Nat
  BY <1>0 DEF TypeInv
<1>3. ASSUME NEW k \in DOMAIN out, out[k].kind = "accepted"
      PROVE  /\ out'[k].of \in Requests /\ out'[k].n \in Requests /\ out'[k].n <= Len(sent)
             /\ out'[k].of <= Len(sent)
             /\ sent[out'[k].n].id = sent[out'[k].of].target /\ sent[out'[k].n].kind # "launch"
             /\ worker'[out'[k].n].cancel /\ worker'[out'[k].n].pc # "none"
             /\ \A j \in 1 .. k : ~(out'[j].of = out'[k].n /\ IsAnswer(out'[j]))
  <2>1. out'[k] = out[k] /\ \A j \in 1 .. k : out'[j] = out[j]
    BY <1>0, <1>2 DEF OneLine
  <2>2. out[k].n \in Requests
    BY <1>3 DEF Acceptances
  <2> QED BY <1>1, <1>3, <2>1, <2>2 DEF Acceptances
<1>4. ASSUME NEW k \in DOMAIN out', k \notin DOMAIN out, out'[k].kind = "accepted"
      PROVE  /\ out'[k].of \in Requests /\ out'[k].n \in Requests /\ out'[k].n <= Len(sent)
             /\ out'[k].of <= Len(sent)
             /\ sent[out'[k].n].id = sent[out'[k].of].target /\ sent[out'[k].n].kind # "launch"
             /\ worker'[out'[k].n].cancel /\ worker'[out'[k].n].pc # "none"
             /\ \A j \in 1 .. k : ~(out'[j].of = out'[k].n /\ IsAnswer(out'[j]))
  <2>1. out'[k] = line /\ line.kind = "accepted"
    BY <1>0, <1>4 DEF OneLine
  <2>2. Cancels /\ line.of = cancelling.by /\ line.n = cancelling.hit
    BY <2>1, OnlyCancels DEF Line
  <2>3. /\ line.of \in Requests /\ line.of <= Len(sent) /\ sent[line.of].kind = "cancel"
        /\ line.n \in ActiveSet /\ sent[line.n].kind # "launch"
        /\ sent[line.n].id = sent[line.of].target
    BY <1>0, <2>2 DEF Cancelling, Cancels, Id
  <2>4. line.n \in Requests /\ worker[line.n].pc # "none" /\ line.n <= Len(sent)
        /\ sent[line.n].kind # "cancel"
    BY <1>0, <2>3 DEF Started, AskedFor, ActiveSet, TypeInv
  <2>5. worker'[line.n].cancel /\ worker'[line.n].pc # "none"
    BY <1>1, <2>2, <2>4 DEF Cancels
  <2>6. ~Answered(line.n)
    BY <1>0, <2>3 DEF Unanswered
  <2>7. \A j \in DOMAIN out' : ~(out'[j].of = line.n /\ IsAnswer(out'[j]))
    <3>1. line.of # line.n
      BY <2>3, <2>4
    <3>2. \A j \in DOMAIN out' : (j \in DOMAIN out /\ out'[j] = out[j]) \/ out'[j] = line
      BY <1>0 DEF OneLine
    <3> QED BY <2>6, <3>1, <3>2 DEF Answered
  <2>8. \A j \in 1 .. k : j \in DOMAIN out'
    BY <1>0, <1>4 DEF OneLine
  <2> QED BY <2>1, <2>3, <2>4, <2>5, <2>7, <2>8
<1>5. \A k \in DOMAIN out : out'[k] = out[k]
  BY <1>0 DEF OneLine
<1> QED BY <1>0, <1>3, <1>4, <1>5 DEF Acceptances

(* Every step keeps Accepts.                                                *)
LEMMA AcceptsStep ==
  ASSUME Serves, Accepts, [Next]_vars
  PROVE  Accepts'
<1>0. TypeInv /\ AskedFor /\ Read /\ Does
  BY StepDoes, AskedParts DEF Serves
<1>1. CASE Quiet
  BY <1>1 DEF Quiet, Accepts, Reasons, Acceptances, IsAccepted
<1>2. CASE Asks
  <2>1. PICK q \in Request : sent' = Append(sent, q)
    BY <1>2 DEF Asks
  <2>2. Grown(sent, sent', q)
    BY <1>0, <2>1, Grows DEF TypeInv
  <2>3. \A r \in Requests : r <= Len(sent) => sent'[r] = sent[r] /\ r <= Len(sent')
    BY <1>0, <2>2, MailTypes DEF Grown, Requests
  <2>4. UNCHANGED <<out, worker, shutting>>
    BY <1>2 DEF Asks, loop
  <2> QED BY <2>3, <2>4 DEF Accepts, Reasons, Acceptances, IsAccepted
<1>3. CASE Announces
  BY <1>3 DEF Announces, loop, Accepts, Reasons, Acceptances, IsAccepted
<1>4. ASSUME NEW r \in Requests, Moves(r) PROVE Accepts'
  <2>1. /\ UNCHANGED <<sent, out, shutting>>
        /\ \A s \in Requests : worker'[s].cancel = worker[s].cancel
                               /\ (worker[s].pc # "none" => worker'[s].pc # "none")
    BY <1>4 DEF Moves, Mine, loop
  <2> QED BY <2>1 DEF Accepts, Reasons, Acceptances, IsAccepted
<1>5. CASE Serving
  <2>1. CASE Begins
    <3>1. PICK r \in Requests :
            /\ worker[r].pc = "none" /\ ~worker'[r].cancel
            /\ \A s \in Requests : s # r => worker'[s] = worker[s]
            /\ UNCHANGED <<shutting, out>>
      BY <2>1, Begun
    <3>2. UNCHANGED sent
      BY <1>5 DEF Serving
    <3> QED BY <3>1, <3>2 DEF Accepts, Reasons, Acceptances, IsAccepted
  <2>2. ASSUME NEW line, Told(line), Advances(line) PROVE Accepts'
    BY <1>5, <2>2, ReasonsKept, AcceptancesKept DEF Accepts
  <2> QED BY <1>5, <2>1, <2>2, ServingAdvances
<1> QED BY <1>0, <1>1, <1>2, <1>3, <1>4, <1>5 DEF Does

(* A worker is cancelled by a shutdown or by an accepted cancel that names  *)
(* its request; what is accepted is cancelled, no launch, and not answered. *)
THEOREM CancelsStayScoped == Spec => []CancelIsScoped
<1>1. Init => Accepts
  <2> SUFFICES ASSUME Init PROVE Accepts
    OBVIOUS
  <2>1. DOMAIN out = {} /\ \A r \in Requests : ~worker[r].cancel
    BY DEF Init, NewWorker
  <2> QED BY <2>1 DEF Accepts, Reasons, Acceptances
<1>2. Serves /\ Accepts /\ [Next]_vars => Accepts'
  BY AcceptsStep
<1>3. Accepts => CancelIsScoped
  BY DEF Accepts, Reasons, Acceptances, CancelIsScoped, IsAccepted, Id
<1> QED BY <1>1, <1>2, <1>3, ServesAlways, PTL DEF Spec

-----------------------------------------------------------------------------
(* Nothing that matters is held back.                                       *)

(* Event i of r is in the channel before place p.                           *)
Ahead(r, i, p) ==
  \E q \in DOMAIN channel :
    q < p /\ channel[q].type = "event" /\ channel[q].of = r /\ channel[q].n = i

(* All that is due of a worker has been sent, or is the progress it holds.  *)
AllSent ==
  \A r \in Requests : \A i \in Due(r, Base(worker[r]) + 1) :
    Written(r, i) \/ Queued(r, i) \/ i \in Held(worker[r])

(* What is due before a control event goes before it.                       *)
SentBefore ==
  \A p \in DOMAIN channel : \A r \in Requests : \A n \in Nat :
    channel[p].type = "event" /\ channel[p].of = r /\ channel[p].n = n
      /\ worker[r].emitted[n] = "control" =>
        \A i \in Due(r, n) : Written(r, i) \/ Ahead(r, i, p)

Flushed == ~outputFailed => AllSent /\ SentBefore

(* What is due before an event depends on the events before it.             *)
LEMMA DueStays ==
  ASSUME NEW r, NEW n \in Nat,
         \A i \in 1 .. n - 1 : worker'[r].emitted[i] = worker[r].emitted[i]
  PROVE  Due(r, n)' = Due(r, n)
<1>1. \A i \in 1 .. n - 1 : i = n - 1 \/ i + 1 \in 1 .. n - 1
  OBVIOUS
<1> QED BY <1>1 DEF Due

(* Flags change nothing of that.                                            *)
LEMMA FlagsDue ==
  ASSUME TypeInv, Flags
  PROVE  \A r \in Requests : \A n \in Nat : Due(r, n)' = Due(r, n)
<1> SUFFICES ASSUME NEW r \in Requests, NEW n \in Nat PROVE Due(r, n)' = Due(r, n)
  OBVIOUS
<1>1. worker'[r].emitted = worker[r].emitted
  BY DEF Flags, SameWorker
<1> QED BY <1>1, DueStays

(* Nothing changes while nothing is written and no event is sent or taken.  *)
LEMMA FlushedElse ==
  ASSUME Serves, Flushed, UNCHANGED <<worker, out>>, outputFailed' = outputFailed,
         \/ channel' = channel
         \/ \E m \in MessageType : m.type # "event" /\ channel' = Append(channel, m)
  PROVE  Flushed'
<1>0. TypeInv
  BY DEF Serves
<1>1. /\ \A p \in DOMAIN channel' : channel'[p].type = "event" =>
           p \in DOMAIN channel /\ channel'[p] = channel[p]
      /\ \A p \in DOMAIN channel : p \in DOMAIN channel' /\ channel'[p] = channel[p]
  <2>1. CASE channel' = channel
    BY <2>1
  <2>2. ASSUME NEW m \in MessageType, m.type # "event", channel' = Append(channel, m)
        PROVE  /\ \A p \in DOMAIN channel' : channel'[p].type = "event" =>
                    p \in DOMAIN channel /\ channel'[p] = channel[p]
               /\ \A p \in DOMAIN channel : p \in DOMAIN channel' /\ channel'[p] = channel[p]
    <3>1. Grown(channel, channel', m)
      BY <1>0, <2>2, Grows DEF TypeInv
    <3>2. \A p \in DOMAIN channel' : channel'[p].type = "event" =>
            p \in DOMAIN channel /\ channel'[p] = channel[p]
      BY <2>2, <3>1 DEF Grown
    <3>3. \A p \in DOMAIN channel : p \in DOMAIN channel' /\ channel'[p] = channel[p]
      BY <3>1 DEF Grown
    <3> QED BY <3>2, <3>3
  <2> QED BY <2>1, <2>2
<1>2. \A r, i : (Written(r, i) => Written(r, i)') /\ (Queued(r, i) => Queued(r, i)')
  BY <1>1 DEF Written, Queued
<1>3. \A r, i, p : Ahead(r, i, p) => Ahead(r, i, p)'
  BY <1>1 DEF Ahead
<1>4. \A r, n : Due(r, n)' = Due(r, n)
  BY DEF Due
<1>5. AllSent => AllSent'
  BY <1>2, <1>4 DEF AllSent
<1>6. SentBefore => SentBefore'
  BY <1>1, <1>2, <1>3, <1>4 DEF SentBefore
<1> QED BY <1>5, <1>6 DEF Flushed

(* A worker that moves may add a message for the channel.                   *)
LEMMA MovesAhead ==
  ASSUME TypeInv, NEW r \in Requests, Moves(r)
  PROVE  /\ \A p \in DOMAIN channel : p \in DOMAIN channel' /\ channel'[p] = channel[p]
         /\ \A s, i : (Written(s, i) => Written(s, i)') /\ (Queued(s, i) => Queued(s, i)')
         /\ \A s, i, p : Ahead(s, i, p) => Ahead(s, i, p)'
<1>1. \A p \in DOMAIN channel : p \in DOMAIN channel' /\ channel'[p] = channel[p]
  <2>1. CASE channel' = channel
    BY <2>1
  <2>2. ASSUME NEW m \in MessageType, channel' = Append(channel, m)
        PROVE  \A p \in DOMAIN channel : p \in DOMAIN channel' /\ channel'[p] = channel[p]
    <3>1. Grown(channel, channel', m)
      BY <2>2, Grows DEF TypeInv
    <3> QED BY <3>1 DEF Grown
  <2> QED BY <2>1, <2>2, MoveSends
<1>2. UNCHANGED out
  BY DEF Moves, loop
<1>3. \A s, i : (Written(s, i) => Written(s, i)') /\ (Queued(s, i) => Queued(s, i)')
  BY <1>1, <1>2 DEF Written, Queued
<1>4. \A s, i, p : Ahead(s, i, p) => Ahead(s, i, p)'
  BY <1>1 DEF Ahead
<1> QED BY <1>1, <1>3, <1>4

(* All that is due stays sent when a worker moves.                          *)
LEMMA AllSentMoves ==
  ASSUME Serves, AllSent, NEW r \in Requests, Moves(r)
  PROVE  AllSent'
<1> DEFINE w == worker[r]
           v == worker'[r]
<1>0. TypeInv /\ WorkersOK
  BY DEF Serves
<1>1. w \in WorkerState /\ WorkerOK(w) /\ v \in WorkerState /\ WorkerOK(v)
  BY <1>0 DEF TypeInv, WorkersOK, Moves, Mine
<1>2. Len(w.emitted) \in Nat /\ Base(w) \in Nat /\ Base(w) <= Len(w.emitted)
  BY <1>1, Bases
<1>3. /\ \A i \in 1 .. Len(w.emitted) : v.emitted[i] = w.emitted[i]
      /\ \A s \in Requests : s # r => worker'[s] = worker[s]
  BY DEF Moves, Mine
<1>4. /\ \A p \in DOMAIN channel : p \in DOMAIN channel' /\ channel'[p] = channel[p]
      /\ \A s, i : (Written(s, i) => Written(s, i)') /\ (Queued(s, i) => Queued(s, i)')
  BY <1>0, MovesAhead
<1>5. \A s \in Requests : s # r => \A n : Due(s, n)' = Due(s, n)
  BY <1>3 DEF Due
<1>6. Due(r, Base(w) + 1) = {i \in 1 .. Base(w) :
         w.emitted[i] = "control" \/ i = Base(w) \/ w.emitted[i + 1] = "control"}
  BY <1>2 DEF Due
<1>7. \A i \in Due(r, Base(w) + 1) : Written(r, i) \/ Queued(r, i) \/ i \in Held(w)
  BY DEF AllSent
<1>8. \A n \in Nat :
        n = Base(v) => Due(r, n + 1)' = {i \in 1 .. Base(v) :
         v.emitted[i] = "control" \/ i = Base(v) \/ v.emitted[i + 1] = "control"}
  BY DEF Due
<1>9. Base(v) \in Nat
  BY <1>1, Bases
<1>10. \A i \in 1 .. Base(v) :
         v.emitted[i] = "control" \/ i = Base(v) \/ v.emitted[i + 1] = "control" =>
           Written(r, i)' \/ Queued(r, i)' \/ i \in Held(v)
  <2> SUFFICES ASSUME NEW i \in 1 .. Base(v),
                      v.emitted[i] = "control" \/ i = Base(v) \/ v.emitted[i + 1] = "control"
               PROVE  Written(r, i)' \/ Queued(r, i)' \/ i \in Held(v)
    OBVIOUS
  <2>0. i \in Nat /\ (Written(r, i) \/ Queued(r, i) => Written(r, i)' \/ Queued(r, i)')
    BY <1>4
  <2>1. ASSUME Base(v) = Base(w), Held(v) = Held(w)
        PROVE  Written(r, i)' \/ Queued(r, i)' \/ i \in Held(v)
    <3>1. i \in Due(r, Base(w) + 1)
      <4>1. i \in 1 .. Base(w) /\ v.emitted[i] = w.emitted[i]
        BY <1>2, <1>3, <2>1
      <4>2. i = Base(w) \/ v.emitted[i + 1] = w.emitted[i + 1]
        BY <1>2, <1>3, <4>1
      <4> HIDE DEF w, v
      <4> QED BY <1>6, <2>1, <4>1, <4>2
    <3> QED BY <1>4, <1>7, <2>1, <3>1
  <2>2. CASE Keeps(r)
    <3>1. CASE Base(v) = Base(w) + 1 /\ Held(v) = {Base(w) + 1} /\ v.emitted[Base(w) + 1] = "progress"
      <4>1. CASE i = Base(w) + 1
        BY <3>1, <4>1
      <4>2. CASE i # Base(w) + 1
        <5>1. i \in 1 .. Base(w) /\ v.emitted[i] = w.emitted[i]
          BY <1>2, <1>3, <3>1, <4>2
        <5>2. i = Base(w) \/ v.emitted[i + 1] = w.emitted[i + 1]
          BY <1>2, <1>3, <5>1
        <5>3. i = Base(w) => v.emitted[i + 1] # "control"
          BY <3>1
        <5>4. i \in Due(r, Base(w) + 1) /\ (w.emitted[i] = "control" \/ i # Base(w))
          <6> HIDE DEF w, v
          <6> QED BY <1>6, <3>1, <4>2, <5>1, <5>2, <5>3
        <5>5. i \notin Held(w)
          BY <1>1, <5>4 DEF WorkerOK
        <5> QED BY <1>4, <1>7, <5>4, <5>5
      <4> QED BY <4>1, <4>2
    <3> QED BY <2>1, <2>2, <3>1 DEF Keeps
  <2>3. CASE SendsProgress(r)
    <3> DEFINE b == Base(w)
    <3>1. /\ channel' = Append(channel, Mailed("event", r, b))
          /\ Held(w) = {b} /\ Held(v) = {} /\ Base(v) = b
      BY <2>3 DEF SendsProgress
    <3>2. i \in Due(r, Base(w) + 1)
      <4>1. i \in 1 .. Base(w) /\ v.emitted[i] = w.emitted[i]
        BY <1>2, <1>3, <3>1
      <4>2. i = Base(w) \/ v.emitted[i + 1] = w.emitted[i + 1]
        BY <1>2, <1>3, <4>1
      <4>3. Base(v) = Base(w)
        BY <3>1
      <4> HIDE DEF w, v
      <4> QED BY <1>6, <4>1, <4>2, <4>3
    <3>3. i \in Held(w) => Queued(r, i)'
      <4> SUFFICES ASSUME i = b PROVE Queued(r, i)'
        BY <3>1
      <4>1. channel \in Seq(MessageType) /\ Mailed("event", r, i) \in MessageType
        BY <1>0, Mail DEF TypeInv
      <4>2. Len(channel) + 1 \in DOMAIN channel'
            /\ channel'[Len(channel) + 1] = Mailed("event", r, i)
        BY <3>1, <4>1
      <4> QED BY <4>2 DEF Queued, Mailed
    <3> QED BY <1>4, <1>7, <3>2, <3>3
  <2>4. CASE SendsControl(r)
    <3> DEFINE b == Base(w) + 1
    <3>1. /\ channel' = Append(channel, Mailed("event", r, b))
          /\ b = Len(w.emitted) /\ Held(w) = {} /\ Held(v) = {} /\ Base(v) = b
      BY <2>4 DEF SendsControl
    <3>2. CASE i = b
      <4>1. channel \in Seq(MessageType) /\ Mailed("event", r, i) \in MessageType
        BY <1>0, Mail DEF TypeInv
      <4>2. Len(channel) + 1 \in DOMAIN channel'
            /\ channel'[Len(channel) + 1] = Mailed("event", r, i)
        BY <3>1, <3>2, <4>1
      <4> QED BY <4>2 DEF Queued, Mailed
    <3>3. CASE i # b
      <4>1. i \in 1 .. Base(w) /\ i + 1 \in 1 .. Len(w.emitted)
        BY <1>2, <3>1, <3>3
      <4>2. v.emitted[i] = w.emitted[i] /\ v.emitted[i + 1] = w.emitted[i + 1]
        BY <1>2, <1>3, <4>1
      <4>3. i # Base(v)
        BY <3>1, <3>3
      <4>4. i \in Due(r, Base(w) + 1)
        <5> HIDE DEF w, v, b
        <5> QED BY <1>6, <4>1, <4>2, <4>3
      <4> QED BY <1>4, <1>7, <3>1, <4>4
    <3> QED BY <3>2, <3>3
  <2>5. CASE SendsResult(r)
    BY <2>1, <2>5 DEF SendsResult
  <2> QED BY <2>2, <2>3, <2>4, <2>5 DEF Moves
<1>11. \A s \in Requests : s # r =>
         Base(worker[s])' = Base(worker[s]) /\ Held(worker[s])' = Held(worker[s])
  BY <1>3
<1>12. ASSUME NEW s \in Requests, NEW i \in Due(s, Base(worker[s]) + 1)'
       PROVE  Written(s, i)' \/ Queued(s, i)' \/ i \in Held(worker'[s])
  <2>1. CASE s = r
    <3>1. PICK n \in Nat : n = Base(v)
      BY <1>9
    <3>2. i \in Due(r, n + 1)'
      BY <1>12, <2>1, <3>1
    <3> QED BY <1>8, <1>10, <2>1, <3>1, <3>2
  <2>2. CASE s # r
    <3>1. worker'[s] = worker[s]
      BY <1>3, <2>2
    <3>2. i \in Due(s, Base(worker[s]) + 1)
      BY <1>12, <3>1 DEF Due
    <3> QED BY <1>4, <3>1, <3>2 DEF AllSent
  <2> QED BY <2>1, <2>2
<1> QED BY <1>12 DEF AllSent

(* A control event is sent after all that is due before it.                 *)
LEMMA SentBeforeMoves ==
  ASSUME Serves, AllSent, SentBefore, NEW r \in Requests, Moves(r)
  PROVE  SentBefore'
<1> DEFINE w == worker[r]
           v == worker'[r]
<1>0. TypeInv /\ WorkersOK /\ QueueFlow
  BY FlowParts DEF Serves
<1>1. w \in WorkerState /\ WorkerOK(w)
  BY <1>0 DEF TypeInv, WorkersOK
<1>2. Len(w.emitted) \in Nat /\ Base(w) \in Nat /\ Base(w) <= Len(w.emitted)
  BY <1>1, Bases
<1>3. /\ \A i \in 1 .. Len(w.emitted) : v.emitted[i] = w.emitted[i]
      /\ \A s \in Requests : s # r => worker'[s] = worker[s]
  BY DEF Moves, Mine
<1>4. /\ \A p \in DOMAIN channel : p \in DOMAIN channel' /\ channel'[p] = channel[p]
      /\ \A s, i : (Written(s, i) => Written(s, i)') /\ (Queued(s, i) => Queued(s, i)')
      /\ \A s, i, p : Ahead(s, i, p) => Ahead(s, i, p)'
  BY <1>0, MovesAhead
<1>5. \A s \in Requests : \A n \in Nat : (s = r => n <= Len(w.emitted)) => Due(s, n)' = Due(s, n)
  <2> SUFFICES ASSUME NEW s \in Requests, NEW n \in Nat, s = r => n <= Len(w.emitted)
               PROVE  Due(s, n)' = Due(s, n)
    OBVIOUS
  <2>1. \A i \in 1 .. n - 1 : worker'[s].emitted[i] = worker[s].emitted[i]
    BY <1>2, <1>3
  <2> QED BY <2>1, DueStays
<1>6. ASSUME NEW p \in DOMAIN channel, NEW s \in Requests, NEW n \in Nat,
             channel'[p].type = "event", channel'[p].of = s, channel'[p].n = n,
             worker'[s].emitted[n] = "control"
      PROVE  \A i \in Due(s, n)' : Written(s, i)' \/ Ahead(s, i, p)'
  <2>1. channel[p].type = "event" /\ channel[p].of = s /\ channel[p].n = n
    BY <1>4, <1>6
  <2>2. n \in 1 .. Base(worker[s])
    BY <1>0, <2>1 DEF QueueFlow, Emitted
  <2>3. worker[s].emitted[n] = "control" /\ Due(s, n)' = Due(s, n)
    <3>1. CASE s = r
      <4>1. n \in 1 .. Len(w.emitted)
        BY <1>2, <2>2, <3>1
      <4> QED BY <1>3, <1>5, <1>6, <3>1, <4>1
    <3>2. CASE s # r
      BY <1>3, <1>5, <1>6, <3>2
    <3> QED BY <3>1, <3>2
  <2> QED BY <1>4, <2>1, <2>3 DEF SentBefore
<1>7. ASSUME NEW p \in DOMAIN channel' \ DOMAIN channel, NEW s \in Requests, NEW n \in Nat,
             channel'[p].type = "event", channel'[p].of = s, channel'[p].n = n,
             worker'[s].emitted[n] = "control"
      PROVE  \A i \in Due(s, n)' : Written(s, i)' \/ Ahead(s, i, p)'
  <2>1. channel \in Seq(MessageType)
    BY <1>0 DEF TypeInv
  <2>2. CASE Keeps(r)
    BY <1>7, <2>2 DEF Keeps
  <2>3. CASE SendsProgress(r)
    <3> DEFINE b == Base(w)
    <3>1. channel' = Append(channel, Mailed("event", r, b)) /\ w.emitted[b] = "progress"
          /\ Held(w) = {b}
      BY <2>3 DEF SendsProgress
    <3>2. b \in Nat
      BY <1>2
    <3>3. Mailed("event", r, b) \in MessageType
      BY <3>2, Mail
    <3>4. Grown(channel, channel', Mailed("event", r, b))
      BY <2>1, <3>1, <3>3, Grows
    <3>5. channel'[p] = Mailed("event", r, b)
      BY <1>7, <3>4 DEF Grown
    <3>6. s = r /\ n = b
      BY <1>7, <3>5 DEF Mailed
    <3>7. b # 0
      BY <3>1 DEF Held
    <3>8. v.emitted[b] = w.emitted[b]
      BY <1>2, <1>3, <3>7
    <3> QED BY <1>7, <3>1, <3>6, <3>8
  <2>4. CASE SendsControl(r)
    <3> DEFINE b == Base(w) + 1
    <3>1. channel' = Append(channel, Mailed("event", r, b)) /\ b = Len(w.emitted)
          /\ Held(w) = {}
      BY <2>4 DEF SendsControl
    <3>2. b \in Nat
      BY <1>2
    <3>3. Mailed("event", r, b) \in MessageType
      BY <3>2, Mail
    <3>4. Grown(channel, channel', Mailed("event", r, b))
      BY <2>1, <3>1, <3>3, Grows
    <3>5. channel'[p] = Mailed("event", r, b) /\ p = Len(channel) + 1
      BY <1>7, <3>4 DEF Grown
    <3>6. s = r /\ n = b
      BY <1>7, <3>5 DEF Mailed
    <3>7. Due(s, n)' = Due(r, Base(w) + 1)
      BY <1>5, <3>1, <3>2, <3>6
    <3>8. \A i \in Due(s, n)' : Written(r, i) \/ Queued(r, i)
      BY <3>1, <3>7 DEF AllSent
    <3>9. \A i : Queued(r, i) => Ahead(r, i, p)'
      <4>1. \A q \in DOMAIN channel : q < p
        BY <3>4, <3>5 DEF Grown
      <4> QED BY <1>4, <4>1 DEF Queued, Ahead
    <3> QED BY <1>4, <3>6, <3>8, <3>9
  <2>5. CASE SendsResult(r)
    <3>1. Mailed("done", r, 0) \in MessageType
      BY Mail
    <3>2. Grown(channel, channel', Mailed("done", r, 0))
      BY <2>1, <2>5, <3>1, Grows DEF SendsResult
    <3>3. channel'[p] = Mailed("done", r, 0)
      BY <1>7, <3>2 DEF Grown
    <3> QED BY <1>7, <3>3 DEF Mailed
  <2> QED BY <2>2, <2>3, <2>4, <2>5 DEF Moves
<1> HIDE DEF w, v
<1> QED BY <1>6, <1>7 DEF SentBefore

(* What has been sent stays so while the loop takes messages and writes.    *)
LEMMA SentStays ==
  ASSUME Serves, Fewer, NEW line, OneLine(line),
         \/ channel' = channel
         \/ channel # <<>> /\ channel' = Tail(channel),
         channel' # channel /\ Head(channel).type = "event" =>
           /\ out' = Append(out, line) /\ line.of = Head(channel).of
           /\ line.n = Head(channel).n /\ IsEvent(line)
  PROVE  \A r, i :
           /\ Written(r, i) => Written(r, i)'
           /\ Queued(r, i) => Written(r, i)' \/ Queued(r, i)'
           /\ \A p \in Nat : Ahead(r, i, p + 1) /\ channel' # channel =>
                Written(r, i)' \/ Ahead(r, i, p)'
<1>0. TypeInv
  BY DEF Serves
<1>1. \A r, i : Written(r, i) => Written(r, i)'
  BY DEF Written, OneLine
<1>2. CASE channel' = channel
  BY <1>1, <1>2 DEF Queued
<1>3. CASE channel # <<>> /\ channel' = Tail(channel)
  <2>1. Shrunk(channel, channel')
    BY <1>0, <1>3, Shrinks DEF TypeInv
  <2>2. channel' # channel
    BY <2>1 DEF Shrunk
  <2>3. \A r, i : channel[1].type = "event" /\ channel[1].of = r /\ channel[1].n = i =>
          Written(r, i)'
    <3> SUFFICES ASSUME NEW r, NEW i, channel[1].type = "event", channel[1].of = r,
                        channel[1].n = i
                 PROVE  Written(r, i)'
      OBVIOUS
    <3>1. out' = Append(out, line) /\ line.of = r /\ line.n = i /\ IsEvent(line)
      BY <2>1, <2>2 DEF Shrunk
    <3>2. Len(out) + 1 \in DOMAIN out' /\ out'[Len(out) + 1] = line
      BY <1>0, <3>1 DEF TypeInv
    <3> QED BY <3>1, <3>2 DEF Written
  <2>4. \A q \in DOMAIN channel : q = 1 \/ (q - 1 \in DOMAIN channel' /\ channel'[q - 1] = channel[q])
    BY <2>1 DEF Shrunk
  <2>5. \A r, i : Queued(r, i) => Written(r, i)' \/ Queued(r, i)'
    BY <2>3, <2>4 DEF Queued
  <2>6. \A r, i : \A p \in Nat : Ahead(r, i, p + 1) => Written(r, i)' \/ Ahead(r, i, p)'
    <3> SUFFICES ASSUME NEW r, NEW i, NEW p \in Nat, Ahead(r, i, p + 1)
                 PROVE  Written(r, i)' \/ Ahead(r, i, p)'
      OBVIOUS
    <3>1. PICK q \in DOMAIN channel :
            q < p + 1 /\ channel[q].type = "event" /\ channel[q].of = r /\ channel[q].n = i
      BY DEF Ahead
    <3>2. q \in Nat
      BY <2>1 DEF Shrunk
    <3>3. CASE q = 1
      BY <2>3, <3>1, <3>3
    <3>4. CASE q # 1
      <4>1. q - 1 \in DOMAIN channel' /\ channel'[q - 1] = channel[q] /\ q - 1 < p
        BY <2>4, <3>1, <3>2, <3>4
      <4> QED BY <3>1, <4>1 DEF Ahead
    <3> QED BY <3>3, <3>4
  <2> QED BY <1>1, <2>5, <2>6
<1> QED BY <1>2, <1>3

(* What the loop takes from the channel it writes, while stdout works.      *)
LEMMA FlushedServing ==
  ASSUME Serves, Flushed, Serving
  PROVE  Flushed'
<1>0. TypeInv /\ WorkersOK
  BY DEF Serves
<1>1. CASE Begins
  <2>1. /\ \A p \in DOMAIN channel : channel[p].type \notin {"done", "event"}
        /\ Fewer
    BY <1>1, NoMail
  <2>2. PICK r \in Requests :
          /\ worker'[r].emitted = <<>> /\ Base(worker'[r]) = 0
          /\ \A s \in Requests : s # r => worker'[s] = worker[s]
          /\ UNCHANGED <<outputFailed, out>>
    BY <1>1, Begun
  <2>3. \A p \in DOMAIN channel' : channel'[p].type # "event"
    BY <2>1 DEF Fewer
  <2>4. SentBefore'
    BY <2>3 DEF SentBefore
  <2>5. ASSUME ~outputFailed, NEW s \in Requests, NEW i \in Due(s, Base(worker[s]) + 1)'
        PROVE  Written(s, i)' \/ Queued(s, i)' \/ i \in Held(worker'[s])
    <3>1. CASE s = r
      <4>1. i \in 1 .. (Base(worker'[r]) + 1) - 1
        BY <2>5, <3>1 DEF Due
      <4> QED BY <2>2, <4>1
    <3>2. CASE s # r
      <4>1. worker'[s] = worker[s]
        BY <2>2, <3>2
      <4>2. i \in Due(s, Base(worker[s]) + 1)
        BY <2>5, <4>1 DEF Due
      <4>3. ~Queued(s, i)
        BY <2>1 DEF Queued
      <4>4. Written(s, i) => Written(s, i)'
        BY <2>2 DEF Written
      <4> QED BY <2>5, <4>1, <4>2, <4>3, <4>4 DEF Flushed, AllSent
    <3> QED BY <3>1, <3>2
  <2> QED BY <2>2, <2>4, <2>5 DEF Flushed, AllSent
<1>2. ASSUME NEW line, Told(line), Advances(line) PROVE Flushed'
  <2> SUFFICES ASSUME ~outputFailed' PROVE AllSent' /\ SentBefore'
    BY DEF Flushed
  <2>1. Fewer /\ OneLine(line) /\ Flags
    BY <1>0, <1>2, Advanced DEF Advances
  <2>2. AllSent /\ SentBefore
    BY <1>2 DEF Advances, Flushed
  <2>3. channel' = channel \/ (channel # <<>> /\ channel' = Tail(channel))
    BY <1>2 DEF Advances
  <2>4. channel' # channel /\ Head(channel).type = "event" =>
           /\ out' = Append(out, line) /\ line.of = Head(channel).of
           /\ line.n = Head(channel).n /\ IsEvent(line)
    <3> SUFFICES ASSUME channel' # channel, Head(channel).type = "event"
                 PROVE  /\ out' = Append(out, line) /\ line.of = Head(channel).of
                        /\ line.n = Head(channel).n /\ IsEvent(line)
      OBVIOUS
    <3>1. Passes /\ line = Line(worker[Message.of].emitted[Message.n], Message.of, Message.n)
      BY <1>2 DEF Told, Ignores, Finds, Answers, Cancels, Closes, Ends, Receive
    <3>2. out' = Append(out, line)
      BY <3>1 DEF Passes, Says
    <3>3. worker[Message.of].emitted[Message.n] \in {"progress", "control"}
      BY <3>1, EventLine DEF Passes
    <3> QED BY <3>1, <3>2, <3>3 DEF Line, IsEvent, Message
  <2>5. \A r, i :
           /\ Written(r, i) => Written(r, i)'
           /\ Queued(r, i) => Written(r, i)' \/ Queued(r, i)'
           /\ \A p \in Nat : Ahead(r, i, p + 1) /\ channel' # channel =>
                Written(r, i)' \/ Ahead(r, i, p)'
    BY <2>1, <2>3, <2>4, SentStays
  <2>6. \A r \in Requests : \A n \in Nat : Due(r, n)' = Due(r, n)
    BY <1>0, <2>1, FlagsDue
  <2>7. \A r \in Requests :
          /\ Base(worker'[r]) = Base(worker[r]) /\ Held(worker'[r]) = Held(worker[r])
          /\ worker'[r].emitted = worker[r].emitted
    BY <2>1 DEF Flags, SameWorker
  <2>8. AllSent'
    <3>1. ASSUME NEW r \in Requests, NEW i \in Due(r, Base(worker[r]) + 1)'
          PROVE  Written(r, i)' \/ Queued(r, i)' \/ i \in Held(worker'[r])
      <4>1. i \in Due(r, Base(worker[r]) + 1)
        BY <2>7, <3>1 DEF Due
      <4> QED BY <2>2, <2>5, <2>7, <4>1 DEF AllSent
    <3> QED BY <3>1 DEF AllSent
  <2>9. SentBefore'
    <3>1. ASSUME NEW p \in DOMAIN channel', NEW r \in Requests, NEW n \in Nat,
                 channel'[p].type = "event", channel'[p].of = r, channel'[p].n = n,
                 worker'[r].emitted[n] = "control"
          PROVE  \A i \in Due(r, n)' : Written(r, i)' \/ Ahead(r, i, p)'
      <4>1. worker[r].emitted[n] = "control" /\ Due(r, n)' = Due(r, n)
        BY <2>6, <2>7, <3>1
      <4>2. CASE channel' = channel
        <5>1. \A i : Ahead(r, i, p) => Ahead(r, i, p)'
          BY <4>2 DEF Ahead
        <5> QED BY <2>2, <2>5, <3>1, <4>1, <4>2, <5>1 DEF SentBefore
      <4>3. CASE channel # <<>> /\ channel' = Tail(channel)
        <5>1. Shrunk(channel, channel')
          BY <1>0, <4>3, Shrinks DEF TypeInv
        <5>2. /\ p \in Nat /\ p + 1 \in DOMAIN channel /\ channel'[p] = channel[p + 1]
              /\ channel' # channel
          BY <3>1, <5>1 DEF Shrunk
        <5>3. \A i \in Due(r, n) : Written(r, i) \/ Ahead(r, i, p + 1)
          BY <2>2, <3>1, <4>1, <5>2 DEF SentBefore
        <5> QED BY <2>5, <4>1, <5>2, <5>3
      <4> QED BY <2>3, <4>2, <4>3
    <3> QED BY <3>1 DEF SentBefore
  <2> QED BY <2>8, <2>9
<1> QED BY <1>1, <1>2, ServingAdvances

(* As long as stdout works, no event that matters is held back.             *)
LEMMA FlushedStep ==
  ASSUME Serves, Flushed, [Next]_vars
  PROVE  Flushed'
<1>0. TypeInv /\ Does
  BY StepDoes DEF Serves
<1>1. CASE Quiet
  BY <1>1, FlushedElse DEF Quiet
<1>2. CASE Asks
  <2>1. Mailed("request", Len(sent) + 1, 0) \in MessageType
        /\ Mailed("request", Len(sent) + 1, 0).type = "request"
    <3>1. Len(sent) + 1 \in Requests
      BY <1>0, <1>2, MailTypes DEF Asks, Requests
    <3> QED BY <3>1, Mail DEF Mailed
  <2> QED BY <1>2, <2>1, FlushedElse DEF Asks, loop
<1>3. CASE Announces
  <2>1. PICK type \in {"inputError", "inputClosed"} :
          channel' = Append(channel, Mailed(type, None, 0))
    BY <1>3 DEF Announces
  <2>2. Mailed(type, None, 0) \in MessageType /\ Mailed(type, None, 0).type # "event"
    BY DEF Mailed, MessageType
  <2> QED BY <1>3, <2>1, <2>2, FlushedElse DEF Announces, loop
<1>4. ASSUME NEW r \in Requests, Moves(r) PROVE Flushed'
  <2>1. outputFailed' = outputFailed
    BY <1>4 DEF Moves, loop
  <2> QED BY <1>4, <2>1, AllSentMoves, SentBeforeMoves DEF Flushed
<1>5. CASE Serving
  BY <1>5, FlushedServing
<1> QED BY <1>0, <1>1, <1>2, <1>3, <1>4, <1>5 DEF Does

(* The stronger invariant holds of every behaviour.                         *)
LEMMA FlushedAlways == Spec => [](Serves /\ Flushed)
<1>1. Init => Serves /\ Flushed
  <2> SUFFICES ASSUME Init PROVE Flushed
    BY ServesInit
  <2>1. DOMAIN channel = {} /\ \A r \in Requests : worker[r].emitted = <<>> /\ worker[r].pc = "none"
    BY DEF Init, NewWorker
  <2>2. \A r \in Requests : Base(worker[r]) = 0
    BY <2>1 DEF Base, Waits
  <2>3. \A r \in Requests : Due(r, Base(worker[r]) + 1) = {}
    BY <2>2 DEF Due
  <2> QED BY <2>1, <2>3 DEF Flushed, AllSent, SentBefore
<1>2. Serves /\ Flushed /\ [Next]_vars => (Serves /\ Flushed)'
  BY ServesStep, FlushedStep
<1> QED BY <1>1, <1>2, PTL DEF Spec

-----------------------------------------------------------------------------
(* What the client reads.                                                   *)

(* Event i of r has been written before line k.                             *)
Before(r, i, k) ==
  \E j \in DOMAIN out : j < k /\ out[j].of = r /\ IsEvent(out[j]) /\ out[j].n = i

(* What a line of r has to come after: what was due before event n.         *)
Closing(l, r, n) ==
  /\ l.of = r
  /\ \/ l.kind = "control" /\ n = l.n
     \/ l.kind = "answer" /\ n = Len(worker[r].emitted) + 1

Latest ==
  \A k \in DOMAIN out : \A r \in Requests : \A n \in Nat :
    Closing(out[k], r, n) => \A i \in Due(r, n) : Before(r, i, k)

Ordered == EventsInOrder /\ Latest /\ AnswerIsLast

(* Every line is an event or an answer.                                     *)
LEMMA Lines ==
  ASSUME TypeInv
  PROVE  \A k \in DOMAIN out : IsEvent(out[k]) <=> ~IsAnswer(out[k])
<1>1. \A k \in DOMAIN out : out[k] \in LineType
  BY DEF TypeInv
<1> QED BY <1>1 DEF LineType, IsEvent, IsAnswer

(* What was written is not undone by a step that does not write: the        *)
(* workers whose lines are on stdout have emitted what they had then.       *)
LEMMA LatestStays ==
  ASSUME Serves, Latest,
         DOMAIN out \subseteq DOMAIN out', \A k \in DOMAIN out : out'[k] = out[k],
         Lasting,
         \A r \in Requests : Answered(r) => worker'[r].emitted = worker[r].emitted
  PROVE  \A k \in DOMAIN out : \A r \in Requests : \A n \in Nat :
           Closing(out[k], r, n)' => \A i \in Due(r, n)' : Before(r, i, k)'
<1>0. TypeInv /\ WorkersOK /\ OutFlow
  BY FlowParts DEF Serves
<1> SUFFICES ASSUME NEW k \in DOMAIN out, NEW r \in Requests, NEW n \in Nat, Closing(out[k], r, n)'
             PROVE  \A i \in Due(r, n)' : Before(r, i, k)'
  OBVIOUS
<1>1. worker[r] \in WorkerState /\ WorkerOK(worker[r])
  BY <1>0 DEF TypeInv, WorkersOK
<1>2. out'[k] = out[k]
  OBVIOUS
<1>3. Closing(out[k], r, n) /\ Due(r, n)' = Due(r, n)
  <2>1. CASE out[k].kind = "control" /\ n = out[k].n /\ out[k].of = r
    <3>1. Emitted(r, n)
      BY <1>0, <2>1 DEF OutFlow, IsEvent
    <3>2. n \in 1 .. Base(worker[r])
      BY <3>1 DEF Emitted
    <3>3. \A i \in 1 .. n - 1 : worker'[r].emitted[i] = worker[r].emitted[i]
      <4>1. \A i \in 1 .. n - 1 : i \in 1 .. Base(worker[r]) /\ i # Base(worker[r])
        BY <1>1, <3>2, Bases
      <4>2. Held(worker[r]) \subseteq {Base(worker[r])}
        BY <1>1 DEF WorkerOK
      <4>3. \A i \in 1 .. n - 1 : Emitted(r, i)
        BY <4>1, <4>2 DEF Emitted
      <4> QED BY <4>3 DEF Lasting
    <3> QED BY <2>1, <3>3, DueStays DEF Closing
  <2>2. CASE out[k].kind = "answer" /\ n = Len(worker'[r].emitted) + 1 /\ out[k].of = r
    <3>1. worker'[r].emitted = worker[r].emitted
      BY <2>2 DEF Answered, IsAnswer
    <3>2. Due(r, n)' = Due(r, n)
      BY <3>1, DueStays
    <3> QED BY <2>2, <3>1, <3>2 DEF Closing
  <2> QED BY <1>2, <2>1, <2>2 DEF Closing
<1>4. \A i : Before(r, i, k) => Before(r, i, k)'
  BY DEF Before
<1> QED BY <1>3, <1>4 DEF Latest

(* A step that writes nothing.                                              *)
LEMMA OrderedElse ==
  ASSUME Serves, Ordered, UNCHANGED out, Lasting,
         \A r \in Requests : Answered(r) => worker'[r].emitted = worker[r].emitted
  PROVE  Ordered'
<1>1. Latest'
  <2>1. \A k \in DOMAIN out : \A r \in Requests : \A n \in Nat :
           Closing(out[k], r, n)' => \A i \in Due(r, n)' : Before(r, i, k)'
    BY LatestStays DEF Ordered
  <2> QED BY <2>1 DEF Latest
<1>2. EventsInOrder' /\ AnswerIsLast'
  BY DEF Ordered, EventsInOrder, AnswerIsLast
<1> QED BY <1>1, <1>2 DEF Ordered

(* An event that is written is newer than all of its request before it.     *)
LEMMA NewerEvent ==
  ASSUME Serves, Receive("event")
  PROVE  /\ \A k \in DOMAIN out : IsEvent(out[k]) /\ out[k].of = Message.of => out[k].n < Message.n
         /\ Message.of \in ActiveSet
<1>0. TypeInv /\ OutFlow /\ Results
  BY FlowParts, SlotsParts DEF Serves
<1>1. Message = channel[1] /\ Message.type = "event" /\ 1 \in DOMAIN channel
      /\ Message.of \in Requests
  BY <1>0, Received
<1>2. Message.of = mutation
  BY <1>0, <1>1 DEF Results
<1> QED BY <1>0, <1>1, <1>2, MailTypes DEF OutFlow, ActiveSet

(* A line about a request comes after no answer to it.                      *)
LEMMA Unspoken ==
  ASSUME Serves, NEW line, Told(line), out' # out, line.of # None
  PROVE  \A k \in DOMAIN out : out[k].of = line.of => IsEvent(out[k])
<1>0. TypeInv /\ Waiting /\ Cancelling /\ Unanswered
  BY AskedParts, SlotsParts DEF Serves
<1>1. CASE Fresh(line.of)
  BY <1>1 DEF Fresh
<1>2. CASE line.of \in ActiveSet
  BY <1>0, <1>2, Lines DEF Unanswered, Answered
<1>3. CASE Answers /\ \E kind \in {"answer", "rejected"} : line = Line(kind, Message.of, 0)
  <2>1. Message = channel[1] /\ Message.type = "request" /\ 1 \in DOMAIN channel
        /\ line.of = Message.of
    BY <1>0, <1>3, Received DEF Answers, Line
  <2> QED BY <1>0, <1>1, <2>1 DEF Waiting
<1>4. CASE Cancels /\ line = Line("accepted", cancelling.by, cancelling.hit)
  BY <1>0, <1>1, <1>4 DEF Cancelling, Cancels, Line
<1>5. CASE Passes /\ line = Line(worker[Message.of].emitted[Message.n], Message.of, Message.n)
  BY <1>2, <1>5, NewerEvent DEF Passes, Line
<1>6. CASE Ends /\ line = Line("answer", Message.of, 0)
  BY <1>2, <1>6 DEF Ends, Line
<1>7. line # Line("answer", None, 0)
  BY DEF Line
<1> QED BY <1>3, <1>4, <1>5, <1>6, <1>7 DEF Told

(* A line that closes something comes after all that is due before it.      *)
LEMMA NothingMissing ==
  ASSUME Serves, Flushed, NEW line, Told(line), out' # out, ~outputFailed,
         NEW r \in Requests, NEW n \in Nat, Closing(line, r, n)
  PROVE  \A i \in Due(r, n) : Written(r, i)
<1>0. TypeInv /\ WorkersOK /\ Waiting /\ Results /\ AllSent /\ SentBefore
  BY AskedParts, SlotsParts DEF Serves, Flushed
<1>n. r # None /\ line.of = r /\ line.kind \in {"control", "answer"}
  BY <1>0, MailTypes DEF Closing
<1>1. CASE Answers /\ \E kind \in {"answer", "rejected"} : line = Line(kind, Message.of, 0)
  <2>1. Message = channel[1] /\ Message.type = "request" /\ 1 \in DOMAIN channel
        /\ r = Message.of
    BY <1>0, <1>1, <1>n, Received DEF Answers, Line
  <2>2. worker[r].emitted = <<>>
    BY <1>0, <2>1 DEF Waiting, WorkersOK, WorkerOK
  <2>3. line.kind # "control"
    BY <1>1 DEF Line
  <2>4. n = 1
    BY <2>2, <2>3 DEF Closing
  <2> QED BY <2>4 DEF Due
<1>2. CASE Passes /\ line = Line(worker[Message.of].emitted[Message.n], Message.of, Message.n)
  <2>1. /\ Message = channel[1] /\ Message.type = "event" /\ 1 \in DOMAIN channel
        /\ r = Message.of /\ Message.n = line.n /\ line.kind = worker[r].emitted[line.n]
    BY <1>0, <1>2, <1>n, Received DEF Passes, Line
  <2>2. line.kind \in {"progress", "control"}
    BY <1>2, EventLine DEF Passes, Line
  <2>3. n = line.n /\ worker[r].emitted[n] = "control"
    BY <1>n, <2>1, <2>2 DEF Closing
  <2>4. \A i : ~Ahead(r, i, 1)
    <3>1. \A q \in DOMAIN channel : ~(q < 1)
      BY <1>0 DEF TypeInv
    <3> QED BY <3>1 DEF Ahead
  <2> QED BY <1>0, <2>1, <2>3, <2>4 DEF SentBefore
<1>3. CASE Ends /\ line = Line("answer", Message.of, 0)
  <2>1. /\ Message = channel[1] /\ Message.type = "done" /\ 1 \in DOMAIN channel
        /\ r = Message.of
    BY <1>0, <1>3, <1>n, Received DEF Ends, Line
  <2>2. /\ worker[r].pc = "ended"
        /\ \A q \in DOMAIN channel :
             channel[q].of = r /\ channel[q].type \in {"done", "event"} => q <= 1
    BY <1>0, <2>1 DEF Results
  <2>3. Held(worker[r]) = {} /\ Base(worker[r]) = Len(worker[r].emitted)
    BY <1>0, <2>2 DEF WorkersOK, WorkerOK, Base, Waits
  <2>4. n = Base(worker[r]) + 1
    BY <1>3, <2>3 DEF Closing, Line
  <2>5. \A i : ~Queued(r, i)
    <3>1. \A q \in DOMAIN channel : q <= 1 => q = 1
      BY <1>0 DEF TypeInv
    <3> QED BY <2>1, <2>2, <3>1 DEF Queued
  <2> QED BY <1>0, <2>3, <2>4, <2>5 DEF AllSent
<1>4. line # Line("answer", None, 0) /\ line.kind # "accepted"
  BY <1>n DEF Line
<1>5. ~(Cancels /\ line = Line("accepted", cancelling.by, cancelling.hit))
  BY <1>4 DEF Line
<1> QED BY <1>1, <1>2, <1>3, <1>4, <1>5 DEF Told

(* Every line that the loop writes is in its place.                         *)
LEMMA OrderedServing ==
  ASSUME Serves, Flushed, Ordered, Serving
  PROVE  Ordered'
<1>0. TypeInv /\ WorkersOK
  BY DEF Serves
<1>1. CASE Begins
  <2>1. Lasting /\ UNCHANGED out
    BY <1>1, NoMail, Begun
  <2>2. PICK r \in Requests :
          /\ \A s \in Requests : s # r => worker'[s] = worker[s]
          /\ \A k \in DOMAIN out : out[k].of # r
    BY <1>1, Begun
  <2>3. \A s \in Requests : Answered(s) => worker'[s].emitted = worker[s].emitted
    BY <2>2 DEF Answered
  <2> QED BY <2>1, <2>3, OrderedElse
<1>2. ASSUME NEW line, Told(line), Advances(line) PROVE Ordered'
  <2>1. OneLine(line) /\ Flags /\ Lasting
    BY <1>0, <1>2, Advanced, FlagsLast DEF Advances
  <2>2. \A r \in Requests : worker'[r].emitted = worker[r].emitted
    BY <2>1 DEF Flags, SameWorker
  <2>3. CASE out' = out
    BY <2>1, <2>2, <2>3, OrderedElse
  <2>4. CASE out' # out
    <3>1. ~outputFailed /\ out' = Append(out, line) /\ line \in LineType
      BY <1>2, <2>4 DEF Advances
    <3>2. /\ Grown(out, out', line) /\ DOMAIN out \subseteq DOMAIN out'
          /\ \A k \in DOMAIN out : out'[k] = out[k]
      BY <1>0, <2>1, <3>1, Grows DEF TypeInv, OneLine
    <3> DEFINE last == Len(out) + 1
    <3>3. /\ \A k \in DOMAIN out' : (k \in DOMAIN out /\ out'[k] = out[k]) \/ (k = last /\ out'[k] = line)
          /\ \A i, j \in DOMAIN out' : i < j => i \in DOMAIN out
          /\ \A j \in DOMAIN out : j < last
      <4>1. \A k \in DOMAIN out' : (k \in DOMAIN out /\ out'[k] = out[k]) \/ (k = last /\ out'[k] = line)
        BY <3>2, Zenon DEF Grown
      <4>2. \A i, j \in DOMAIN out' : i < j => i \in DOMAIN out
        BY <3>2 DEF Grown
      <4>3. \A j \in DOMAIN out : j < last
        BY <3>2 DEF Grown
      <4> QED BY <4>1, <4>2, <4>3
    <3> HIDE DEF last
    <3>4. AnswerIsLast'
      <4>1. line.of # None => \A k \in DOMAIN out : out[k].of = line.of => IsEvent(out[k])
        BY <1>2, <2>4, Unspoken
      <4>2. ASSUME NEW i \in DOMAIN out', NEW j \in DOMAIN out', i < j,
                   out'[i].of = out'[j].of, out'[i].of # None
            PROVE  IsEvent(out'[i])
        <5>1. i \in DOMAIN out /\ out'[i] = out[i]
          BY <3>2, <3>3, <4>2
        <5>2. CASE j \in DOMAIN out /\ out'[j] = out[j]
          BY <4>2, <5>1, <5>2 DEF Ordered, AnswerIsLast
        <5>3. CASE out'[j] = line
          BY <4>1, <4>2, <5>1, <5>3
        <5> QED BY <3>3, <5>2, <5>3
      <4> QED BY <4>2 DEF AnswerIsLast
    <3>5. EventsInOrder'
      <4>1. IsEvent(line) =>
              \A k \in DOMAIN out : IsEvent(out[k]) /\ out[k].of = line.of => out[k].n < line.n
        <5>1. IsEvent(line) =>
                Passes /\ line = Line(worker[Message.of].emitted[Message.n], Message.of, Message.n)
          BY <1>2 DEF Told, IsEvent, Line
        <5> QED BY <5>1, NewerEvent DEF Passes, Line
      <4>2. ASSUME NEW i \in DOMAIN out', NEW j \in DOMAIN out', i < j,
                   out'[i].of = out'[j].of, IsEvent(out'[i]), IsEvent(out'[j])
            PROVE  out'[i].n < out'[j].n
        <5>1. i \in DOMAIN out /\ out'[i] = out[i]
          BY <3>2, <3>3, <4>2
        <5>2. CASE j \in DOMAIN out /\ out'[j] = out[j]
          BY <4>2, <5>1, <5>2 DEF Ordered, EventsInOrder
        <5>3. CASE out'[j] = line
          BY <4>1, <4>2, <5>1, <5>3
        <5> QED BY <3>3, <5>2, <5>3
      <4> QED BY <4>2 DEF EventsInOrder
    <3>6. Latest'
      <4>1. \A k \in DOMAIN out : \A r \in Requests : \A n \in Nat :
              Closing(out[k], r, n)' => \A i \in Due(r, n)' : Before(r, i, k)'
        BY <2>1, <2>2, <3>2, LatestStays DEF Ordered
      <4>2. ASSUME NEW r \in Requests, NEW n \in Nat, Closing(line, r, n)'
            PROVE  \A i \in Due(r, n)' : \A k \in DOMAIN out' : k = last => Before(r, i, k)'
        <5>1. Closing(line, r, n) /\ Due(r, n)' = Due(r, n)
          BY <1>0, <2>1, <2>2, <4>2, FlagsDue DEF Closing
        <5>2. \A i \in Due(r, n) : Written(r, i)
          BY <1>2, <2>4, <3>1, <5>1, NothingMissing
        <5>3. \A i : Written(r, i) => \A k \in DOMAIN out' : k = last => Before(r, i, k)'
          BY <3>2, <3>3 DEF Written, Before
        <5> QED BY <5>1, <5>2, <5>3
      <4>3. ASSUME NEW k \in DOMAIN out', NEW r \in Requests, NEW n \in Nat, Closing(out[k], r, n)'
            PROVE  \A i \in Due(r, n)' : Before(r, i, k)'
        <5>1. CASE k \in DOMAIN out
          BY <4>1, <4>3, <5>1
        <5>2. CASE k = last /\ out'[k] = line
          <6>1. Closing(line, r, n)'
            BY <4>3, <5>2 DEF Closing
          <6> QED BY <4>2, <5>2, <6>1
        <5> QED BY <3>3, <5>1, <5>2
      <4> QED BY <4>3 DEF Latest
    <3> QED BY <3>4, <3>5, <3>6 DEF Ordered
  <2> QED BY <2>3, <2>4
<1> QED BY <1>1, <1>2, ServingAdvances

(* Every step keeps the order on stdout.                                    *)
LEMMA OrderedStep ==
  ASSUME Serves, Flushed, Ordered, [Next]_vars
  PROVE  Ordered'
<1>0. TypeInv /\ WorkersOK /\ Owners /\ Unanswered /\ Does
  BY StepDoes, SlotsParts DEF Serves
<1>1. CASE Quiet \/ Asks \/ Announces
  <2>1. UNCHANGED <<worker, out>>
    BY <1>1 DEF Quiet, Asks, Announces, loop
  <2>2. Lasting
    BY <2>1 DEF Lasting, Emitted
  <2> QED BY <2>1, <2>2, OrderedElse
<1>2. ASSUME NEW r \in Requests, Moves(r) PROVE Ordered'
  <2>1. UNCHANGED out /\ Alive(r) /\ \A s \in Requests : s # r => worker'[s] = worker[s]
    BY <1>2 DEF Moves, Mine, loop
  <2>2. ~Answered(r)
    BY <1>0, <2>1 DEF Owners, Unanswered
  <2> QED BY <1>0, <1>2, <2>1, <2>2, MovesLast, OrderedElse
<1>3. CASE Serving
  BY <1>3, OrderedServing
<1> QED BY <1>0, <1>1, <1>2, <1>3 DEF Does

(* For every request the client reads its events in the order emitted, no   *)
(* phase, action or answer before the progress and the events that are due, *)
(* and nothing after the answer.                                            *)
THEOREM OutputKeepsOrder == Spec => []OutputInOrder
<1>1. Init => Ordered
  <2> SUFFICES ASSUME Init PROVE Ordered
    OBVIOUS
  <2>1. DOMAIN out = {}
    BY DEF Init
  <2> QED BY <2>1 DEF Ordered, EventsInOrder, Latest, AnswerIsLast
<1>2. Serves /\ Flushed /\ Ordered /\ [Next]_vars => Ordered'
  BY OrderedStep
<1>3. Serves /\ Ordered => OutputInOrder
  <2> SUFFICES ASSUME Serves, Ordered PROVE LatestIsFlushed
    BY DEF Ordered, OutputInOrder
  <2>0. TypeInv
    BY DEF Serves
  <2>1. ASSUME NEW k \in DOMAIN out, NEW n,
               n = IF out[k].kind = "control" THEN out[k].n
                                              ELSE Len(worker[out[k].of].emitted) + 1,
               out[k].kind \in {"control", "answer"}, out[k].of # None
        PROVE  \A i \in Due(out[k].of, n) :
                 \E j \in 1 .. k - 1 : out[j].of = out[k].of /\ IsEvent(out[j]) /\ out[j].n = i
    <3>1. out[k].of \in Requests /\ out[k].n \in Nat /\ k \in Nat
      BY <2>0, <2>1, MailTypes
    <3>2. worker[out[k].of].emitted \in Seq({"progress", "control"})
      BY <2>0, <3>1 DEF TypeInv, WorkerState
    <3>3. n \in Nat
      BY <2>1, <3>1, <3>2
    <3>4. Closing(out[k], out[k].of, n)
      BY <2>1 DEF Closing
    <3>5. \A i \in Due(out[k].of, n) : Before(out[k].of, i, k)
      BY <3>1, <3>3, <3>4 DEF Ordered, Latest
    <3>6. \A j \in DOMAIN out : j < k => j \in 1 .. k - 1
      BY <2>0, <3>1 DEF TypeInv
    <3> QED BY <3>5, <3>6 DEF Before
  <2> QED BY <2>1 DEF LatestIsFlushed
<1> QED BY <1>1, <1>2, <1>3, FlushedAlways, PTL DEF Spec

=============================================================================
