----------------------------- MODULE SetupProofs -----------------------------
(***************************************************************************)
(* Proofs about the Setup window, renderer and shell: for any number of    *)
(* operations, requests to close and threads that cannot be created, the   *)
(* window shows what is installed, acts on what it shows, and loses no     *)
(* operation.                                                              *)
(***************************************************************************)
EXTENDS SetupApp, SequenceTheorems, TLAPS

(* Where a command may be.                                                  *)
Early == {"context", "gate", "closing", "idleness", "start"}
Late  == {"publish", "release", "spawn", "disown", "revoke"}
Gated == {"context", "gate", "closing", "idleness"}

Places(c) ==
  {"idle", "ok", "error"} \cup
  CASE c = "bootstrap" -> Gated \cup {"again", "load", "review", "prepare"}
    [] c = "choose" -> Gated \cup {"dialog", "prepare", "nothing"}
    [] c \in Starts -> Early \cup Late
    [] c = "cancel" -> {"context", "active", "send"}
    [] OTHER -> Gated \cup {"act"}

Reviews == [class : Trees, space : BOOLEAN, removable : BOOLEAN]
AllPlaces ==
  {"idle", "ok", "error", "nothing", "again", "load", "review", "prepare", "dialog", "active",
   "send", "act"} \cup Gated \cup Early \cup Late

Cmds == [pc : AllPlaces, consent : BOOLEAN, op : Ops \cup {None}, review : Reviews \cup {None}]

\* A completion thread that follows its operation, and one that has cleared it.
Following == {"receive", "cache", "refresh", "prepare", "clear"}
Telling   == {"flag", "emit"}
Threads   == Following \cup Telling \cup {"none", "ended"}
States    == {"new", "running", "ended"}

Operations ==
  [kind : Starts \cup {None}, state : States, code : Codes \cup {None},
   fresh : BOOLEAN, cancel : BOOLEAN, consent : BOOLEAN, sel : Selections \cup {None},
   told : BOOLEAN, completed : BOOLEAN, thread : Threads,
   review : Reviews \cup {None}]

Kinds  == {"progress", "complete", "uninstalled", "error"}
Events == [op : Ops, kind : Kinds, code : Codes \cup {None}, review : Reviews \cup {None}]

CommandTypes ==
  /\ cmd \in [Commands -> Cmds] /\ \A c \in Commands : cmd[c].pc \in Places(c)
  /\ cmd["cancel"].pc = "send" => cmd["cancel"].op \in Ops

Typed ==
  /\ tree \in Trees /\ context \in {"none", "ready"} /\ active \in Ops \cup {None}
  /\ selection \in Selections \cup {None} /\ installCompleted \in BOOLEAN
  /\ closer = "cancel" => doomed \in Ops
  /\ op \in [Ops -> Operations] /\ CommandTypes
  /\ events \in Seq(Events)
  /\ view \in Views /\ accepted \in BOOLEAN /\ review \in Reviews \cup {None}
  /\ opId \in Ops \cup {None} /\ opPending \in BOOLEAN

(* The view admits one activity of the user at a time.                      *)
Arranged ==
  /\ ~Idles("bootstrap") <=> view = "booting"
  /\ ~Idles("choose") => view = "review"
  /\ ~Idles("launch") \/ ~Idles("link") => view = "complete"
  /\ Idles("launch") \/ Idles("link")
  /\ opPending <=> view \in InProgress
  /\ context = "none" => view \in {"booting", "error"} /\ \A c \in Commands \ {"bootstrap"} : Idles(c)
  /\ cmd["bootstrap"].pc \in {"again", "load"} => context = "none"
  /\ cmd["bootstrap"].pc \notin {"idle", "context", "again", "load", "error"} => context = "ready"

Live(o) == op[o].thread \in Following \cup Telling
NoneRuns == \A o \in Ops : ~Running(o)

(* What is selected is what is installed.                                   *)
Judged == /\ context = "ready" /\ selection \in Selections /\ selection.class = tree
          /\ NoneRuns

(* What runs, runs alone, on the selection it was started with.             *)
RunsAlone ==
  \A o \in Ops : Running(o) =>
    /\ \A p \in Ops : Running(p) => p = o
    /\ op[o].sel \in Selections /\ op[o].sel.class = tree /\ op[o].kind \in Starts
    /\ view \in {"error", "booting"} \cup InProgress

Reviewing ==
  /\ cmd["bootstrap"].pc = "review" => Judged
  /\ cmd["bootstrap"].pc = "ok" => Judged /\ cmd["bootstrap"].review = Review(selection)
  /\ view = "review" =>
       /\ Judged /\ review \in Reviews
       /\ IF cmd["choose"].pc = "ok" THEN cmd["choose"].review = Review(selection)
                                     ELSE review = Review(selection)
  /\ accepted => review # None /\ review.class = "legacy"

(* What an operation has achieved is there.                                 *)
Achieved(o) ==
  op[o].state = "ended" /\ op[o].code = "ok" =>
    tree = IF op[o].kind = "install" THEN "current" ELSE "absent"

Quiet == events = <<>> /\ \A o \in Ops : ~Live(o)

\* Nothing is under way: the answer of an earlier start may be.
Resting ==
  /\ ~opPending /\ Quiet /\ active = None
  /\ \A c \in Starts : cmd[c].pc \in {"idle", "ok"}
  /\ \A o \in Ops : Running(o) => op[o].cancel

\* The command has not begun an operation, or has failed.
Asking ==
  /\ opPending /\ Quiet /\ active = None /\ opId = None
  /\ \A c \in Starts : c # view => Idles(c)
  /\ cmd[view].pc \in Early \cup {"error"}
  /\ cmd[view].pc \in Early => Judged
  /\ \A o \in Ops : Running(o) => op[o].cancel

Begun ==
  /\ opPending /\ Quiet /\ opId = None
  /\ \A c \in Starts : c # view => Idles(c)
  /\ cmd[view].pc \in Late
  /\ cmd[view].op \in Ops /\ op[cmd[view].op].kind = view
  /\ op[cmd[view].op].state \in {"running", "ended"} /\ Achieved(cmd[view].op)
  /\ op[cmd[view].op].thread = "none"
  /\ \A p \in Ops : Running(p) => p = cmd[view].op
  /\ active = IF cmd[view].pc \in {"release", "spawn", "disown"} THEN cmd[view].op ELSE None

\* The renderer knows the operation, or is going to.
Named(o) ==
  /\ opPending /\ opId \in {o, None}
  /\ \A c \in Starts : c # view => Idles(c)
  /\ cmd[view].pc \in {"idle", "ok"}
  /\ cmd[view].pc = "ok" => cmd[view].op = o
  /\ cmd[view].pc = "idle" => opId = o

\* A completion thread follows the operation.
Followed(o) ==
  /\ Named(o) /\ Live(o) /\ \A p \in Ops : Live(p) => p = o
  /\ op[o].state \in {"running", "ended"} /\ op[o].kind = view /\ Achieved(o)
  /\ \A p \in Ops : Running(p) => p = o
  /\ op[o].thread # "receive" => op[o].state = "ended"
  /\ op[o].thread = "cache" => op[o].code = "ok" /\ op[o].kind = "install"
  /\ op[o].thread = "flag" => op[o].code = "ok" /\ op[o].kind = "install"
  /\ op[o].thread = "emit" /\ op[o].code = "ok" /\ op[o].kind = "install" => installCompleted
  /\ active = IF op[o].thread \in Following THEN o ELSE None
  /\ \A i \in DOMAIN events : events[i].op = o /\ events[i].kind = "progress"

\* It has told the renderer how the operation ended.
True(e) ==
  /\ e.kind = "complete" => tree = "current" /\ installCompleted
  /\ e.kind = "uninstalled" => tree = "absent"

Told(o) ==
  /\ Named(o) /\ active = None /\ NoneRuns /\ \A p \in Ops : ~Live(p)
  /\ events # <<>> /\ True(events[Len(events)]) /\ events[Len(events)].kind # "progress"
  /\ \A i \in DOMAIN events : /\ events[i].op = o
                              /\ i # Len(events) => events[i].kind = "progress"

Flow == Resting \/ Asking \/ Begun \/ \E o \in Ops : Followed(o) \/ Told(o)

IInv ==
  Typed /\ Arranged /\ RunsAlone /\ Reviewing /\ SuccessIsReported /\ Flow /\ ViewTellsTruth

-----------------------------------------------------------------------------
(* What the steps do to a command.                                          *)

Others(c) == \A d \in Commands \ {c} : cmd'[d] = cmd[d]

LEMMA GoesIs ==
  ASSUME cmd \in [Commands -> Cmds], NEW c \in Commands, NEW pc \in AllPlaces, Goes(c, pc)
  PROVE  /\ cmd' \in [Commands -> Cmds] /\ Others(c) /\ cmd'[c].pc = pc
         /\ cmd'[c].op = cmd[c].op /\ cmd'[c].review = cmd[c].review
<1> DEFINE e == [cmd[c] EXCEPT !.pc = pc]
<1>1. e \in Cmds /\ e.pc = pc /\ e.op = cmd[c].op /\ e.review = cmd[c].review
  BY DEF Cmds
<1>2. cmd' = [cmd EXCEPT ![c] = e]
  BY DEF Goes
<1> HIDE DEF e
<1> QED BY <1>1, <1>2 DEF Others

LEMMA AnswersIs ==
  ASSUME cmd \in [Commands -> Cmds], NEW c \in Commands, NEW result \in {"ok", "error", "nothing"},
         NEW r \in Reviews \cup {None}, Answers(c, result, r)
  PROVE  /\ cmd' \in [Commands -> Cmds] /\ Others(c) /\ cmd'[c].pc = result
         /\ c \in Starts /\ result = "ok" => cmd'[c].op = cmd[c].op
         /\ cmd'[c].review = r
<1> DEFINE o == IF c \in Starts /\ result = "ok" THEN cmd[c].op ELSE None
           e == [cmd[c] EXCEPT !.pc = result, !.consent = FALSE, !.review = r, !.op = o]
<1>1. /\ e \in Cmds /\ e.pc = result /\ e.review = r
      /\ c \in Starts /\ result = "ok" => e.op = cmd[c].op
  BY DEF Cmds, AllPlaces
<1>2. cmd' = [cmd EXCEPT ![c] = e]
  BY Zenon DEF Answers
<1> HIDE DEF e
<1> QED BY <1>1, <1>2 DEF Others

LEMMA FailsIs ==
  ASSUME cmd \in [Commands -> Cmds], NEW c \in Commands, Fails(c)
  PROVE  cmd' \in [Commands -> Cmds] /\ Others(c) /\ cmd'[c].pc = "error"
BY AnswersIs DEF Fails

LEMMA TakesIs ==
  ASSUME cmd \in [Commands -> Cmds], NEW c \in Commands, NEW pc \in AllPlaces, NEW o \in Ops,
         cmd' = [cmd EXCEPT ![c].pc = pc, ![c].op = o]
  PROVE  cmd' \in [Commands -> Cmds] /\ Others(c) /\ cmd'[c].pc = pc /\ cmd'[c].op = o
<1> DEFINE e == [cmd[c] EXCEPT !.pc = pc, !.op = o]
<1>1. e \in Cmds /\ e.pc = pc /\ e.op = o
  BY DEF Cmds
<1>2. cmd' = [cmd EXCEPT ![c] = e]
  OBVIOUS
<1> HIDE DEF e
<1> QED BY <1>1, <1>2 DEF Others

LEMMA FreshCommands ==
  /\ IdleCommand \in Cmds /\ IdleCommand.pc = "idle"
  /\ \A c \in Commands, consent \in BOOLEAN :
       Issued(c, consent) \in Cmds /\ Issued(c, consent).pc = "context"
BY DEF IdleCommand, Issued, Cmds, AllPlaces, Gated

LEMMA CallsIs ==
  ASSUME cmd \in [Commands -> Cmds], NEW c \in Commands, NEW consent \in BOOLEAN, Calls(c, consent)
  PROVE  cmd' \in [Commands -> Cmds] /\ Others(c) /\ cmd'[c].pc = "context"
BY FreshCommands DEF Calls, Others

LEMMA HearsIs ==
  ASSUME cmd \in [Commands -> Cmds], NEW c \in Commands, Hears(c)
  PROVE  cmd' \in [Commands -> Cmds] /\ Others(c) /\ cmd'[c].pc = "idle"
BY FreshCommands DEF Hears, Others

-----------------------------------------------------------------------------
(* What the steps do to an operation.                                       *)

Keeps(o, S) ==
  /\ op' \in [Ops -> Operations] /\ \A p \in Ops \ {o} : op'[p] = op[p]
  /\ "kind" \notin S => op'[o].kind = op[o].kind
  /\ "state" \notin S => op'[o].state = op[o].state
  /\ "code" \notin S => op'[o].code = op[o].code
  /\ "fresh" \notin S => op'[o].fresh = op[o].fresh
  /\ "cancel" \notin S => op'[o].cancel = op[o].cancel
  /\ "sel" \notin S => op'[o].sel = op[o].sel
  /\ "thread" \notin S => op'[o].thread = op[o].thread

LEMMA Replaced ==
  ASSUME op \in [Ops -> Operations], NEW o \in Ops, NEW e \in Operations, op' = [op EXCEPT ![o] = e]
  PROVE  op' \in [Ops -> Operations] /\ op'[o] = e /\ \A p \in Ops \ {o} : op'[p] = op[p]
OBVIOUS

LEMMA ThreadMoves ==
  ASSUME op \in [Ops -> Operations], NEW o \in Ops, NEW t \in Threads,
         op' = [op EXCEPT ![o].thread = t]
  PROVE  Keeps(o, {"thread"}) /\ op'[o].thread = t
<1> DEFINE e == [op[o] EXCEPT !.thread = t]
<1>1. /\ e \in Operations /\ e.thread = t /\ e.kind = op[o].kind /\ e.state = op[o].state
      /\ e.code = op[o].code /\ e.fresh = op[o].fresh /\ e.cancel = op[o].cancel
      /\ e.sel = op[o].sel
  BY DEF Operations
<1>2. op' = [op EXCEPT ![o] = e]
  OBVIOUS
<1> HIDE DEF e
<1> QED BY <1>1, <1>2, Replaced DEF Keeps

LEMMA ReviewMoves ==
  ASSUME op \in [Ops -> Operations], NEW o \in Ops, NEW t \in Threads, NEW r \in Reviews,
         op' = [op EXCEPT ![o].thread = t, ![o].review = r]
  PROVE  Keeps(o, {"thread"}) /\ op'[o].thread = t
<1> DEFINE e == [op[o] EXCEPT !.thread = t, !.review = r]
<1>1. /\ e \in Operations /\ e.thread = t /\ e.kind = op[o].kind /\ e.state = op[o].state
      /\ e.code = op[o].code /\ e.fresh = op[o].fresh /\ e.cancel = op[o].cancel
      /\ e.sel = op[o].sel
  BY DEF Operations
<1>2. op' = [op EXCEPT ![o] = e]
  OBVIOUS
<1> HIDE DEF e
<1> QED BY <1>1, <1>2, Replaced DEF Keeps

LEMMA ClearMoves ==
  ASSUME op \in [Ops -> Operations], NEW o \in Ops, NEW t \in Threads, NEW done \in BOOLEAN,
         op' = [op EXCEPT ![o].completed = @ \/ done, ![o].thread = t]
  PROVE  Keeps(o, {"thread"}) /\ op'[o].thread = t
<1> DEFINE e == [op[o] EXCEPT !.completed = @ \/ done, !.thread = t]
<1>1. /\ e \in Operations /\ e.thread = t /\ e.kind = op[o].kind /\ e.state = op[o].state
      /\ e.code = op[o].code /\ e.fresh = op[o].fresh /\ e.cancel = op[o].cancel
      /\ e.sel = op[o].sel
  BY DEF Operations
<1>2. op' = [op EXCEPT ![o] = e]
  OBVIOUS
<1> HIDE DEF e
<1> QED BY <1>1, <1>2, Replaced DEF Keeps

LEMMA ResultMoves ==
  ASSUME op \in [Ops -> Operations], NEW o \in Ops, NEW t \in Threads, NEW code \in Codes \cup {None},
         op' = [op EXCEPT ![o].code = code, ![o].thread = t]
  PROVE  Keeps(o, {"thread", "code"}) /\ op'[o].thread = t /\ op'[o].code = code
<1> DEFINE e == [op[o] EXCEPT !.code = code, !.thread = t]
<1>1. /\ e \in Operations /\ e.thread = t /\ e.kind = op[o].kind /\ e.state = op[o].state
      /\ e.code = code /\ e.fresh = op[o].fresh /\ e.cancel = op[o].cancel
      /\ e.sel = op[o].sel
  BY DEF Operations
<1>2. op' = [op EXCEPT ![o] = e]
  OBVIOUS
<1> HIDE DEF e
<1> QED BY <1>1, <1>2, Replaced DEF Keeps

LEMMA EndMoves ==
  ASSUME op \in [Ops -> Operations], NEW o \in Ops, NEW fresh \in BOOLEAN, NEW code \in Codes,
         op' = [op EXCEPT ![o].state = "ended", ![o].code = code, ![o].fresh = fresh]
  PROVE  /\ Keeps(o, {"state", "code", "fresh"})
         /\ op'[o].state = "ended" /\ op'[o].code = code /\ op'[o].fresh = fresh
<1> DEFINE e == [op[o] EXCEPT !.state = "ended", !.code = code, !.fresh = fresh]
<1>1. /\ e \in Operations /\ e.thread = op[o].thread /\ e.kind = op[o].kind
      /\ e.state = "ended" /\ e.code = code /\ e.fresh = fresh /\ e.cancel = op[o].cancel
      /\ e.sel = op[o].sel
  <2>1. PICK ended \in States : ended = "ended"
    BY DEF States
  <2>2. code \in Codes \cup {None} /\ op[o] \in Operations
    OBVIOUS
  <2> DEFINE f == [op[o] EXCEPT !.state = ended, !.code = code, !.fresh = fresh]
  <2>3. f \in Operations
    BY <2>2, ZenonT(60) DEF Operations
  <2>4. /\ f.thread = op[o].thread /\ f.kind = op[o].kind /\ f.state = ended /\ f.code = code
        /\ f.fresh = fresh /\ f.cancel = op[o].cancel /\ f.sel = op[o].sel
    BY <2>2, ZenonT(60) DEF Operations
  <2> QED BY <2>1, <2>3, <2>4
<1>2. op' = [op EXCEPT ![o] = e]
  OBVIOUS
<1> HIDE DEF e
<1> QED BY <1>1, <1>2, Replaced DEF Keeps

LEMMA ToldMoves ==
  ASSUME op \in [Ops -> Operations], NEW o \in Ops, op' = [op EXCEPT ![o].told = TRUE]
  PROVE  Keeps(o, {})
<1> DEFINE e == [op[o] EXCEPT !.told = TRUE]
<1>1. /\ e \in Operations /\ e.thread = op[o].thread /\ e.kind = op[o].kind
      /\ e.state = op[o].state /\ e.code = op[o].code /\ e.fresh = op[o].fresh
      /\ e.cancel = op[o].cancel /\ e.sel = op[o].sel
  BY DEF Operations
<1>2. op' = [op EXCEPT ![o] = e]
  OBVIOUS
<1> HIDE DEF e
<1> QED BY <1>1, <1>2, Replaced DEF Keeps

LEMMA CompletedMoves ==
  ASSUME op \in [Ops -> Operations], NEW o \in Ops, NEW done \in BOOLEAN,
         op' = [op EXCEPT ![o].completed = @ \/ done]
  PROVE  Keeps(o, {})
<1> DEFINE e == [op[o] EXCEPT !.completed = @ \/ done]
<1>1. /\ e \in Operations /\ e.thread = op[o].thread /\ e.kind = op[o].kind
      /\ e.state = op[o].state /\ e.code = op[o].code /\ e.fresh = op[o].fresh
      /\ e.cancel = op[o].cancel /\ e.sel = op[o].sel
  BY DEF Operations
<1>2. op' = [op EXCEPT ![o] = e]
  OBVIOUS
<1> HIDE DEF e
<1> QED BY <1>1, <1>2, Replaced DEF Keeps

LEMMA CancelMoves ==
  ASSUME op \in [Ops -> Operations], NEW o \in Ops, CancelSent(o)
  PROVE  Keeps(o, {"cancel"}) /\ (op'[o].cancel <=> op[o].cancel \/ Running(o))
<1> DEFINE flag == op[o].cancel \/ Running(o)
<1> DEFINE e == [op[o] EXCEPT !.cancel = flag]
<1>1. flag \in BOOLEAN
  BY DEF Operations, Running
<1>2. op' = [op EXCEPT ![o] = e]
  BY DEF CancelSent
<1> HIDE DEF flag
<1>3. /\ e \in Operations /\ e.thread = op[o].thread /\ e.kind = op[o].kind
      /\ e.state = op[o].state /\ e.code = op[o].code /\ e.fresh = op[o].fresh
      /\ e.cancel = flag /\ e.sel = op[o].sel
  BY <1>1 DEF Operations
<1> HIDE DEF e
<1>4. Keeps(o, {"cancel"}) /\ op'[o].cancel = flag
  BY <1>2, <1>3, Replaced DEF Keeps
<1> QED BY <1>4 DEF flag

-----------------------------------------------------------------------------
(* Where the flow of an operation is.                                       *)

LEMMA StartIs ==
  ASSUME Flow, NEW c \in Starts
  PROVE  /\ cmd[c].pc \in Early => Asking /\ c = view
         /\ cmd[c].pc = "error" => Asking /\ c = view
         /\ cmd[c].pc \in Late => Begun /\ c = view
BY DEF Flow, Resting, Asking, Begun, Followed, Told, Named, Early, Late, Idles

LEMMA RestingIs == ASSUME Flow, ~opPending PROVE Resting
BY DEF Flow, Asking, Begun, Followed, Told, Named

LEMMA FollowedIs ==
  ASSUME Flow, NEW o \in Ops, Live(o)
  PROVE  Followed(o)
BY DEF Flow, Resting, Asking, Begun, Followed, Told, Quiet

LEMMA EventsAre ==
  ASSUME Flow, events # <<>>
  PROVE  \E o \in Ops : Followed(o) \/ Told(o)
BY DEF Flow, Resting, Asking, Begun, Quiet

\* The kinds of commands and places.
LEMMA KindsAre ==
  /\ Starts \subseteq Commands /\ InProgress = Starts /\ None \notin Ops
  /\ Commands = {"bootstrap", "choose", "launch", "link", "cancel"} \cup Starts
BY ShellAssumption DEF Starts, Commands, InProgress

-----------------------------------------------------------------------------
(* Steps that do nothing to operations but set a flag of cancellation.      *)

SameOps ==
  /\ op' \in [Ops -> Operations]
  /\ \A p \in Ops :
       /\ op'[p].kind = op[p].kind /\ op'[p].state = op[p].state /\ op'[p].code = op[p].code
       /\ op'[p].fresh = op[p].fresh /\ op'[p].sel = op[p].sel /\ op'[p].thread = op[p].thread
       /\ op[p].cancel => op'[p].cancel

LEMMA SameOpsIs ==
  ASSUME Typed,
         \/ op' = op
         \/ \E o \in Ops : Keeps(o, {})
         \/ \E o \in Ops : CancelSent(o)
  PROVE  SameOps
<1>1. CASE op' = op
  BY <1>1 DEF Typed, SameOps
<1>2. ASSUME NEW o \in Ops, Keeps(o, {}) PROVE SameOps
  BY <1>2 DEF Keeps, SameOps
<1>3. ASSUME NEW o \in Ops, CancelSent(o) PROVE SameOps
  BY <1>3, CancelMoves DEF Typed, Keeps, SameOps
<1> QED BY <1>1, <1>2, <1>3

LEMMA JudgedStays ==
  ASSUME Judged, SameOps, UNCHANGED <<tree, context, selection>>
  PROVE  Judged'
BY DEF Judged, NoneRuns, SameOps, Running

(* What ran runs on, and what has ended has ended as it did.                *)
SameRuns ==
  /\ op' \in [Ops -> Operations]
  /\ \A p \in Ops :
       /\ op'[p].kind = op[p].kind /\ op'[p].state = op[p].state /\ op'[p].code = op[p].code
       /\ op'[p].fresh = op[p].fresh /\ op'[p].sel = op[p].sel

LEMMA RunsGoOn ==
  ASSUME RunsAlone, SuccessIsReported, SameRuns, UNCHANGED tree,
         view' = view \/ view' \in {"error", "booting"} \cup InProgress
  PROVE  RunsAlone' /\ SuccessIsReported'
BY DEF RunsAlone, SuccessIsReported, SameRuns, Running, ActionMatches

LEMMA RunsStays ==
  ASSUME RunsAlone, SuccessIsReported, SameOps, UNCHANGED tree,
         view' = view \/ view' \in {"error", "booting"} \cup InProgress
  PROVE  RunsAlone' /\ SuccessIsReported'
BY RunsGoOn DEF SameOps, SameRuns

LEMMA NamedStays ==
  ASSUME NEW o \in Ops, Named(o), UNCHANGED <<opPending, opId, view>>,
         \A c \in Starts : cmd'[c].pc = cmd[c].pc /\ cmd'[c].op = cmd[c].op, view \in InProgress
  PROVE  Named(o)'
BY KindsAre DEF Named, Idles

LEMMA FlowStays ==
  ASSUME Arranged, Flow, SameOps, UNCHANGED <<tree, active, events, opPending, opId, view>>,
         \A c \in Starts : cmd'[c].pc = cmd[c].pc /\ cmd'[c].op = cmd[c].op,
         Judged => Judged' \/ ~opPending, installCompleted => installCompleted'
  PROVE  Flow'
<1>1. /\ \A p \in Ops : (Running(p)' <=> Running(p)) /\ (Live(p)' <=> Live(p))
      /\ \A p \in Ops : Achieved(p) => Achieved(p)'
      /\ Quiet => Quiet'
  BY DEF SameOps, Running, Live, Achieved, Quiet
<1>2. opPending => view \in Starts
  BY KindsAre DEF Arranged
<1>3. CASE Resting
  <2>1. Resting'
    BY <1>1, <1>3 DEF Resting, SameOps
  <2> QED BY <2>1 DEF Flow
<1>4. CASE Asking
  <2>1. opPending /\ view \in Starts
    BY <1>2, <1>4 DEF Asking
  <2>2. Asking'
    BY <1>1, <1>4, <2>1 DEF Asking, SameOps, Idles
  <2> QED BY <2>2 DEF Flow
<1>5. CASE Begun
  <2>1. view \in Starts /\ cmd[view].op \in Ops
    BY <1>2, <1>5 DEF Begun
  <2>2. Begun'
    BY <1>1, <1>5, <2>1 DEF Begun, SameOps, Idles
  <2> QED BY <2>2 DEF Flow
<1>6. ASSUME NEW o \in Ops, Followed(o) PROVE Flow'
  <2>1. Named(o)'
    BY <1>2, <1>6, NamedStays, KindsAre DEF Followed, Named
  <2>2. Followed(o)'
    BY <1>1, <1>6, <2>1 DEF Followed, SameOps
  <2> QED BY <2>2 DEF Flow
<1>7. ASSUME NEW o \in Ops, Told(o) PROVE Flow'
  <2>1. Named(o)'
    BY <1>2, <1>7, NamedStays, KindsAre DEF Told, Named
  <2>2. Told(o)'
    BY <1>1, <1>7, <2>1 DEF Told, NoneRuns, True
  <2> QED BY <2>2 DEF Flow
<1> QED BY <1>3, <1>4, <1>5, <1>6, <1>7 DEF Flow

-----------------------------------------------------------------------------
(* Commands other than a start, on their way through the shell.             *)

Window == UNCHANGED <<view, review, accepted, opId, opPending>>

LEMMA CommandMoves ==
  ASSUME IInv, NEW c \in Commands \ Starts, Others(c), cmd' \in [Commands -> Cmds],
         ~Idles(c), cmd'[c].pc \in Places(c) \ {"idle"}, SameOps, Window,
         UNCHANGED <<tree, context, selection, active, events, installCompleted, closer, doomed>>,
         c = "cancel" /\ cmd'[c].pc = "send" => cmd'[c].op \in Ops,
         c = "bootstrap" =>
           /\ cmd'[c].pc \in {"again", "load"} => context = "none"
           /\ cmd'[c].pc \notin {"context", "again", "load", "error"} => context = "ready"
           /\ cmd'[c].pc = "review" => Judged
           /\ cmd'[c].pc = "ok" => Judged /\ cmd'[c].review = Review(selection),
         c = "choose" => cmd[c].pc # "ok" /\ cmd'[c].pc # "ok"
  PROVE  IInv'
<1>1. \A d \in Commands : Idles(d)' <=> Idles(d)
  BY DEF Others, Idles
<1>2. \A d \in Commands \ {c} : cmd'[d] = cmd[d]
  BY DEF Others
<1>3. Judged => Judged'
  BY JudgedStays
<1>4. Typed'
  <2>1. CommandTypes'
    BY <1>2, KindsAre DEF IInv, Typed, CommandTypes, Starts
  <2> QED BY <2>1 DEF IInv, Typed, Window, SameOps
<1>5. Arranged'
  BY <1>1, <1>2, KindsAre DEF IInv, Arranged, Window
<1>6. RunsAlone' /\ SuccessIsReported'
  BY RunsStays DEF IInv, Window
<1>7. Reviewing'
  BY <1>2, <1>3, KindsAre DEF IInv, Reviewing, Window
<1>8. \A d \in Starts : cmd'[d] = cmd[d]
  BY <1>2, KindsAre
<1>9. Flow'
  BY <1>3, <1>8, FlowStays DEF IInv, Window
<1>10. ViewTellsTruth'
  BY DEF IInv, ViewTellsTruth, Window
<1> QED BY <1>4, <1>5, <1>6, <1>7, <1>9, <1>10 DEF IInv

(* A start that has not begun an operation.                                 *)
LEMMA StartMoves ==
  ASSUME IInv, NEW c \in Starts, Others(c), cmd' \in [Commands -> Cmds],
         cmd[c].pc \in Early, cmd'[c].pc \in Early \cup {"error"}, Window,
         UNCHANGED <<op, tree, context, selection, active, events, closer, doomed>>,
         installCompleted' \in BOOLEAN
  PROVE  IInv'
<1>1. Asking /\ c = view /\ c \in Commands
  BY StartIs, KindsAre DEF IInv
<1>2. \A d \in Commands : Idles(d)' <=> Idles(d)
  BY <1>1 DEF Others, Idles, Early, Gated
<1>3. \A d \in Commands \ {c} : cmd'[d] = cmd[d]
  BY DEF Others
<1>4. SameOps
  BY SameOpsIs DEF IInv
<1>5. Judged /\ Judged'
  BY <1>1, <1>4, JudgedStays DEF Asking
<1>6. cmd'[c].pc \in Places(c)
  BY KindsAre DEF Places, Starts, Early
<1>7. Typed'
  <2>1. CommandTypes'
    BY <1>1, <1>3, <1>6, KindsAre DEF IInv, Typed, CommandTypes, Starts
  <2> QED BY <2>1 DEF IInv, Typed, Window
<1>8. Arranged'
  BY <1>1, <1>2, <1>3, KindsAre DEF IInv, Arranged, Window, Starts
<1>9. RunsAlone' /\ SuccessIsReported'
  BY <1>4, RunsStays DEF IInv, Window
<1>10. Reviewing'
  BY <1>1, <1>3, <1>5, KindsAre DEF IInv, Reviewing, Window, Starts
<1>11. \A d \in Starts \ {c} : Idles(d)'
  BY <1>1, <1>2, KindsAre DEF Asking
<1>12. Asking'
  BY <1>1, <1>4, <1>5, <1>11 DEF Asking, Quiet, Live, Running, Window
<1>13. ViewTellsTruth'
  BY <1>1 DEF IInv, ViewTellsTruth, Window, Starts
<1> QED BY <1>7, <1>8, <1>9, <1>10, <1>12, <1>13 DEF IInv, Flow

-----------------------------------------------------------------------------
(* The commands in the shell.                                               *)

\* Who is at a place.
LEMMA WhoIs ==
  ASSUME CommandTypes, NEW c \in Commands
  PROVE  /\ cmd[c].pc \in {"again", "load", "review"} => c = "bootstrap"
         /\ cmd[c].pc = "prepare" => c \in {"bootstrap", "choose"}
         /\ cmd[c].pc = "dialog" => c = "choose"
         /\ cmd[c].pc = "act" => c \in {"launch", "link"}
         /\ cmd[c].pc \in {"active", "send"} => c = "cancel"
         /\ cmd[c].pc \in {"start"} \cup Late => c \in Starts
         /\ cmd[c].pc \in {"gate", "closing", "idleness"} => c # "cancel"
         /\ c \in Commands \ Starts \/ c \in Starts
         /\ c \in Starts => c \notin {"bootstrap", "choose", "launch", "link", "cancel"}
BY DEF CommandTypes, Places, Starts, Gated, Early, Late, Commands

\* What the window shows is left alone by the shell.
LEMMA WindowIs == ASSUME UNCHANGED ui PROVE Window
BY DEF ui, Window

\* With a context there is one for good.
LEMMA ContextIs ==
  ASSUME IInv, NEW c \in Commands, ~Idles(c), c # "bootstrap"
  PROVE  context = "ready"
BY DEF IInv, Typed, Arranged

LEMMA TakeContextKeeps ==
  ASSUME IInv, NEW c \in Commands, TakeContext(c), UNCHANGED ui
  PROVE  IInv'
<1>1. /\ cmd \in [Commands -> Cmds] /\ Window /\ SameOps
      /\ UNCHANGED <<op, tree, context, selection, active, events, installCompleted, closer, doomed>>
      /\ installCompleted \in BOOLEAN
  BY WindowIs, SameOpsIs DEF TakeContext, running, closing, IInv, Typed, CommandTypes
<1>2. cmd[c].pc \in {"context", "again"} /\ ~Idles(c)
  BY DEF TakeContext, At, Idles
<1> DEFINE Way(pc) ==
      \/ (context = "ready" /\ pc = IF c = "cancel" THEN "active" ELSE "gate")
      \/ (context = "none" /\ pc = IF c = "bootstrap" THEN "again" ELSE "load")
      \/ (context = "none" /\ pc = "load" /\ cmd[c].pc = "again")
      \/ (context = "ready" /\ pc = "review" /\ cmd[c].pc = "again")
<1>3. PICK pc \in {"gate", "active", "again", "load", "review"} : Goes(c, pc) /\ Way(pc)
  <2>1. CASE At(c, "context") /\ context = "ready" /\ Goes(c, IF c = "cancel" THEN "active" ELSE "gate")
    BY <2>1
  <2>2. CASE At(c, "context") /\ context = "none" /\ c = "bootstrap" /\ Goes(c, "again")
    BY <2>2
  <2>3. CASE At(c, "context") /\ context = "none" /\ c # "bootstrap" /\ Goes(c, "load")
    BY <2>3
  <2>4. CASE At(c, "again") /\ context = "none" /\ Goes(c, "load")
    BY <2>4 DEF At
  <2>5. CASE At(c, "again") /\ context = "ready" /\ Goes(c, "review")
    BY <2>5 DEF At
  <2> QED BY <2>1, <2>2, <2>3, <2>4, <2>5, Zenon DEF TakeContext
<1>4. cmd' \in [Commands -> Cmds] /\ Others(c) /\ cmd'[c].pc = pc
  BY <1>1, <1>3, GoesIs DEF AllPlaces, Gated
<1>5. CASE c \in Starts
  <2>1. pc = "gate" /\ cmd[c].pc = "context"
    BY <1>2, <1>3, <1>5, ContextIs, WhoIs DEF IInv, Typed
  <2> QED BY <1>1, <1>4, <1>5, <2>1, StartMoves DEF Early
<1>6. CASE c = "bootstrap"
  <2>1. /\ pc \in {"gate", "again", "load"} /\ (pc = "gate" => context = "ready")
        /\ (pc \in {"again", "load"} => context = "none")
    BY <1>2, <1>3, <1>6 DEF IInv, Arranged
  <2>2. pc \in Places(c) \ {"idle"} /\ c \in Commands \ Starts
    BY <1>6, <2>1 DEF Places, Gated, Starts
  <2> QED BY <1>1, <1>2, <1>4, <1>6, <2>1, <2>2, CommandMoves
<1>7. CASE c \notin Starts /\ c # "bootstrap"
  <2>1. pc = (IF c = "cancel" THEN "active" ELSE "gate") /\ cmd[c].pc = "context"
    BY <1>2, <1>3, <1>7, ContextIs, WhoIs DEF IInv, Typed
  <2>2. pc \in Places(c) \ {"idle"} /\ c \in Commands \ Starts
    BY <1>7, <2>1, KindsAre DEF Places, Gated, Starts
  <2> QED BY <1>1, <1>2, <1>4, <1>7, <2>1, <2>2, CommandMoves
<1> QED BY <1>5, <1>6, <1>7

LEMMA PreparedIs ==
  ASSUME IInv, CanPrepare, NEW s \in Prepared
  PROVE  /\ s \in Selections /\ s.class = tree /\ NoneRuns /\ s # None
         /\ Review(s) \in Reviews
<1>1. tree \in Trees
  BY DEF IInv, Typed
<1>2. PICK e \in BOOLEAN : s = [class |-> tree, space |-> e]
  BY DEF Prepared
<1>3. s \in Selections /\ s.class = tree
  BY <1>1, <1>2 DEF Selections
<1>4. Review(s) \in Reviews
  BY <1>3 DEF Selections, Review, Reviews
<1> QED BY <1>3, <1>4, NoneAssumption DEF CanPrepare, NoneRuns

LEMMA LoadKeeps ==
  ASSUME IInv, NEW c \in Commands, Load(c), UNCHANGED ui
  PROVE  IInv'
<1>1. /\ cmd \in [Commands -> Cmds] /\ Window /\ SameOps
      /\ UNCHANGED <<op, tree, active, events, installCompleted, closer, doomed>>
  BY WindowIs, SameOpsIs DEF Load, running, closing, IInv, Typed, CommandTypes
<1>2. c = "bootstrap" /\ ~Idles(c) /\ c \in Commands \ Starts
  BY WhoIs DEF Load, At, Idles, IInv, Typed, Starts
<1>3. CASE LoadFails(c)
  <2>1. cmd' \in [Commands -> Cmds] /\ Others(c) /\ cmd'[c].pc = "error" /\ UNCHANGED <<context, selection>>
    BY <1>1, <1>3, FailsIs DEF LoadFails
  <2>2. "error" \in Places(c) \ {"idle"}
    BY DEF Places
  <2> QED BY <1>1, <1>2, <2>1, <2>2, CommandMoves
<1>4. CASE Loaded(c)
  <2>1. PICK s \in Prepared : selection' = s
    BY <1>4 DEF Loaded
  <2>2. Goes(c, "review") /\ context' = "ready" /\ CanPrepare
    BY <1>2, <1>4 DEF Loaded
  <2>3. cmd' \in [Commands -> Cmds] /\ Others(c) /\ cmd'[c].pc = "review"
    BY <1>1, <2>2, GoesIs DEF AllPlaces
  <2>4. s \in Selections /\ s.class = tree /\ NoneRuns
    BY <2>2, PreparedIs
  <2>5. Judged'
    BY <1>1, <2>1, <2>2, <2>4 DEF Judged, NoneRuns, SameOps, Running
  <2>6. view = "booting" /\ ~opPending
    BY <1>2 DEF IInv, Arranged, InProgress
  <2>7. \A d \in Commands \ {c} : cmd'[d] = cmd[d]
    BY <2>3 DEF Others
  <2>8. "review" \in Places(c)
    BY <1>2 DEF Places
  <2>9. CommandTypes'
    <3>1. "cancel" \in Commands \ {c}
      BY <1>2 DEF Commands
    <3> QED BY <1>2, <2>3, <2>7, <2>8, <3>1 DEF IInv, Typed, CommandTypes
  <2>10. Typed'
    BY <1>1, <2>1, <2>2, <2>4, <2>9 DEF IInv, Typed, Window
  <2>11. \A d \in Commands : Idles(d)' <=> Idles(d)
    BY <1>2, <2>3, <2>7 DEF Idles
  <2>12. Arranged'
    BY <1>1, <1>2, <2>2, <2>3, <2>6, <2>11, KindsAre DEF IInv, Arranged, Window
  <2>13. RunsAlone' /\ SuccessIsReported'
    BY <1>1, RunsStays DEF IInv, Window
  <2>14. Reviewing'
    BY <1>1, <1>2, <2>3, <2>5, <2>6 DEF IInv, Reviewing, Window
  <2>15. Flow'
    BY <1>1, <1>2, <2>6, <2>7, FlowStays, KindsAre DEF IInv, Window
  <2>16. ViewTellsTruth'
    BY <1>1 DEF IInv, ViewTellsTruth, Window
  <2> QED BY <2>10, <2>12, <2>13, <2>14, <2>15, <2>16 DEF IInv
<1> QED BY <1>3, <1>4 DEF Load

LEMMA FirstReviewKeeps ==
  ASSUME IInv, NEW c \in Commands, FirstReview(c), UNCHANGED ui
  PROVE  IInv'
<1>1. /\ cmd \in [Commands -> Cmds] /\ Window /\ SameOps
      /\ UNCHANGED <<op, tree, context, selection, active, events, installCompleted, closer, doomed>>
  BY WindowIs, SameOpsIs DEF FirstReview, store, running, closing, IInv, Typed, CommandTypes
<1>2. c = "bootstrap" /\ ~Idles(c) /\ c \in Commands \ Starts /\ cmd[c].pc = "review"
  BY WhoIs DEF FirstReview, At, Idles, IInv, Typed, Starts
<1>3. Judged /\ selection # None /\ Review(selection) \in Reviews
  BY <1>2, NoneAssumption DEF IInv, Reviewing, Judged, Selections, Review, Reviews
<1>4. Answers(c, "ok", Review(selection))
  BY <1>3 DEF FirstReview
<1>5. cmd' \in [Commands -> Cmds] /\ Others(c) /\ cmd'[c].pc = "ok" /\ cmd'[c].review = Review(selection)
  BY <1>1, <1>3, <1>4, AnswersIs
<1>6. "ok" \in Places(c) \ {"idle"} /\ context = "ready"
  BY <1>3 DEF Places, Judged
<1> QED BY <1>1, <1>2, <1>3, <1>5, <1>6, CommandMoves

\* A command that goes on through the gate, or fails.
LEMMA GatedKeeps ==
  ASSUME IInv, NEW c \in Commands, cmd[c].pc \in {"gate", "closing", "idleness"}, Window,
         UNCHANGED <<op, tree, context, selection, active, events, closer, doomed>>,
         installCompleted' = installCompleted \/ (c = "install" /\ installCompleted' \in BOOLEAN),
         NEW pc \in AllPlaces, Goes(c, pc) \/ Fails(c),
         pc \in {"closing", "idleness"} \/
           pc = CASE c = "choose" -> "dialog" [] c = "bootstrap" -> "prepare"
                  [] c \in Starts -> "start" [] OTHER -> "act"
  PROVE  IInv'
<1>1. cmd \in [Commands -> Cmds] /\ SameOps /\ ~Idles(c) /\ c # "cancel" /\ installCompleted' \in BOOLEAN
  BY SameOpsIs, WhoIs DEF IInv, Typed, CommandTypes, Idles
<1>2. PICK to \in {"error", pc} : cmd' \in [Commands -> Cmds] /\ Others(c) /\ cmd'[c].pc = to
  BY <1>1, GoesIs, FailsIs
<1>3. CASE c \in Starts
  <2>1. to \in Early \cup {"error"} /\ cmd[c].pc \in Early
    BY <1>2, <1>3, WhoIs DEF Early, IInv, Typed
  <2> QED BY <1>1, <1>2, <1>3, <2>1, StartMoves
<1>4. CASE c \notin Starts
  <2>1. to \in Places(c) \ {"idle"} /\ to \notin {"ok", "again", "load", "review", "context", "send"}
    BY <1>1, <1>2, <1>4, KindsAre DEF Places, Gated
  <2>2. c = "bootstrap" => context = "ready"
    BY DEF IInv, Arranged
  <2>3. c = "choose" => cmd[c].pc # "ok"
    OBVIOUS
  <2>4. c # "install" /\ c \in Commands \ Starts
    BY <1>4 DEF Starts
  <2> QED BY <1>1, <1>2, <2>1, <2>2, <2>3, <2>4, CommandMoves
<1> QED BY <1>3, <1>4

LEMMA GateKeeps ==
  ASSUME IInv, NEW c \in Commands, EnterGate(c) \/ CheckClosing(c) \/ CheckIdle(c), UNCHANGED ui
  PROVE  IInv'
<1>1. /\ cmd[c].pc \in {"gate", "closing", "idleness"} /\ Window
      /\ UNCHANGED <<op, tree, context, selection, active, events, closer, doomed>>
  BY WindowIs DEF EnterGate, CheckClosing, CheckIdle, At, store, running, closing
<1>6. installCompleted' = installCompleted \/ (c = "install" /\ installCompleted' \in BOOLEAN)
  <2>1. installCompleted \in BOOLEAN
    BY DEF IInv, Typed
  <2>2. CASE EnterGate(c) \/ CheckClosing(c)
    BY <2>2 DEF EnterGate, CheckClosing
  <2>3. CASE CheckIdle(c)
    <3>1. \/ installCompleted' = (installCompleted /\ c # "install")
          \/ UNCHANGED installCompleted
      BY <2>3 DEF CheckIdle
    <3> QED BY <2>1, <3>1
  <2> QED BY <2>2, <2>3
<1> DEFINE next == CASE c = "choose" -> "dialog" [] c = "bootstrap" -> "prepare"
                     [] c \in Starts -> "start" [] OTHER -> "act"
<1>2. next \in AllPlaces /\ "closing" \in AllPlaces /\ "idleness" \in AllPlaces
  BY DEF AllPlaces, Early, Gated
<1>3. Goes(c, "closing") \/ Goes(c, "idleness") \/ Goes(c, next) \/ Fails(c)
  BY DEF EnterGate, CheckClosing, CheckIdle
<1> HIDE DEF next
<1>4. PICK pc \in {"closing", "idleness", next} : Goes(c, pc) \/ Fails(c)
  BY <1>3
<1>5. pc \in AllPlaces /\ (pc \in {"closing", "idleness"} \/ pc = next)
  BY <1>2, <1>4
<1> QED BY <1>1, <1>4, <1>5, <1>6, GatedKeeps DEF next

LEMMA DialogEndsKeeps ==
  ASSUME IInv, NEW c \in Commands, DialogEnds(c), UNCHANGED ui
  PROVE  IInv'
<1>1. /\ cmd \in [Commands -> Cmds] /\ Window /\ SameOps
      /\ UNCHANGED <<op, tree, context, selection, active, events, installCompleted, closer, doomed>>
  BY WindowIs, SameOpsIs DEF DialogEnds, store, running, closing, IInv, Typed, CommandTypes
<1>2. c = "choose" /\ ~Idles(c) /\ c \in Commands \ Starts /\ cmd[c].pc = "dialog"
  BY WhoIs DEF DialogEnds, At, Idles, IInv, Typed, Starts
<1>3. PICK pc \in {"prepare", "nothing"} :
        cmd' \in [Commands -> Cmds] /\ Others(c) /\ cmd'[c].pc = pc
  BY <1>1, GoesIs, AnswersIs DEF DialogEnds, AllPlaces
<1>4. pc \in Places(c) \ {"idle"}
  BY <1>2 DEF Places
<1> QED BY <1>1, <1>2, <1>3, <1>4, CommandMoves

LEMMA ActKeeps ==
  ASSUME IInv, NEW c \in Commands, Act(c), UNCHANGED ui
  PROVE  IInv'
<1>1. /\ cmd \in [Commands -> Cmds] /\ Window /\ SameOps
      /\ UNCHANGED <<op, tree, context, selection, active, events, installCompleted, closer, doomed>>
  BY WindowIs, SameOpsIs DEF Act, store, running, closing, IInv, Typed, CommandTypes
<1>2. c \in {"launch", "link"} /\ ~Idles(c) /\ c \in Commands \ Starts
  BY WhoIs DEF Act, At, Idles, IInv, Typed, Starts
<1>3. PICK pc \in {"ok", "error"} :
        cmd' \in [Commands -> Cmds] /\ Others(c) /\ cmd'[c].pc = pc
  BY <1>1, AnswersIs, FailsIs DEF Act
<1>4. pc \in Places(c) \ {"idle"}
  BY <1>2 DEF Places
<1> QED BY <1>1, <1>2, <1>3, <1>4, CommandMoves

LEMMA CancelKeeps ==
  ASSUME IInv, NEW c \in Commands, FindActive(c) \/ SendCancel(c), UNCHANGED ui
  PROVE  IInv'
<1>1. /\ cmd \in [Commands -> Cmds] /\ Window
      /\ UNCHANGED <<tree, context, selection, active, events, installCompleted, closer, doomed>>
  BY WindowIs DEF FindActive, SendCancel, store, running, closing, IInv, Typed, CommandTypes
<1>2. c = "cancel" /\ ~Idles(c) /\ c \in Commands \ Starts /\ cmd[c].pc \in {"active", "send"}
  BY WhoIs DEF FindActive, SendCancel, At, Idles, IInv, Typed, Starts
<1>3. cmd[c].pc = "send" => cmd[c].op \in Ops
  BY <1>2 DEF IInv, Typed, CommandTypes
<1>4. SameOps
  BY <1>2, <1>3, SameOpsIs DEF FindActive, SendCancel, At, running, IInv
<1>5. PICK pc \in {"ok", "error", "send"} :
        /\ cmd' \in [Commands -> Cmds] /\ Others(c) /\ cmd'[c].pc = pc
        /\ pc = "send" => cmd'[c].op \in Ops
  <2>1. CASE FindActive(c)
    <3>1. active = None \/ active \in Ops
      BY DEF IInv, Typed
    <3> QED BY <1>1, <2>1, <3>1, AnswersIs, TakesIs DEF FindActive, AllPlaces
  <2>2. CASE SendCancel(c)
    BY <1>1, <2>2, AnswersIs, FailsIs DEF SendCancel
  <2> QED BY <2>1, <2>2
<1>6. pc \in Places(c) \ {"idle"}
  BY <1>2 DEF Places, Starts
<1> QED BY <1>1, <1>2, <1>4, <1>5, <1>6, CommandMoves

LEMMA PrepareKeeps ==
  ASSUME IInv, NEW c \in Commands, Prepare(c), UNCHANGED ui
  PROVE  IInv'
<1>1. /\ cmd \in [Commands -> Cmds] /\ Window /\ SameOps
      /\ UNCHANGED <<op, tree, context, active, events, installCompleted, closer, doomed>>
  BY WindowIs, SameOpsIs DEF Prepare, running, closing, IInv, Typed, CommandTypes
<1>2. /\ c \in {"bootstrap", "choose"} /\ ~Idles(c) /\ c \in Commands \ Starts
      /\ cmd[c].pc = "prepare"
  BY WhoIs DEF Prepare, At, Idles, IInv, Typed, Starts
<1>3. context = "ready"
  BY <1>2, ContextIs DEF IInv, Arranged
<1>4. {"ok", "error"} \subseteq Places(c) \ {"idle"}
  BY DEF Places
<1>5. CASE Fails(c) /\ UNCHANGED selection
  <2>1. cmd' \in [Commands -> Cmds] /\ Others(c) /\ cmd'[c].pc = "error"
    BY <1>1, <1>5, FailsIs
  <2> QED BY <1>1, <1>2, <1>4, <1>5, <2>1, CommandMoves
<1>6. ASSUME CanPrepare, NEW s \in Prepared, selection' = s, Answers(c, "ok", Review(s))
      PROVE  IInv'
  <2>1. s \in Selections /\ s.class = tree /\ NoneRuns /\ Review(s) \in Reviews
    BY <1>6, PreparedIs
  <2>2. /\ cmd' \in [Commands -> Cmds] /\ Others(c) /\ cmd'[c].pc = "ok"
        /\ cmd'[c].review = Review(s)
    BY <1>1, <1>6, <2>1, AnswersIs
  <2>3. \A d \in Commands \ {c} : cmd'[d] = cmd[d]
    BY <2>2 DEF Others
  <2>4. Judged'
    BY <1>1, <1>3, <1>6, <2>1 DEF Judged, NoneRuns, SameOps, Running
  <2>5. view = (IF c = "bootstrap" THEN "booting" ELSE "review") /\ ~opPending
    BY <1>2 DEF IInv, Arranged, InProgress
  <2>6. CommandTypes'
    <3>1. "cancel" \in Commands \ {c}
      BY <1>2 DEF Commands
    <3> QED BY <1>2, <1>4, <2>2, <2>3, <3>1 DEF IInv, Typed, CommandTypes
  <2>7. Typed'
    BY <1>1, <1>6, <2>1, <2>6 DEF IInv, Typed, Window
  <2>8. \A d \in Commands : Idles(d)' <=> Idles(d)
    BY <1>2, <2>2, <2>3 DEF Idles
  <2>9. Arranged'
    <3>1. "bootstrap" # c => cmd'["bootstrap"] = cmd["bootstrap"]
      BY <2>3, KindsAre
    <3> QED BY <1>1, <1>3, <2>2, <2>8, <3>1, KindsAre DEF IInv, Arranged, Window
  <2>10. RunsAlone' /\ SuccessIsReported'
    BY <1>1, RunsStays DEF IInv, Window
  <2>11. Reviewing'
    <3>1. CASE c = "bootstrap"
      BY <1>1, <1>6, <2>2, <2>4, <2>5, <3>1 DEF IInv, Reviewing, Window
    <3>2. CASE c = "choose"
      <4>1. cmd'["bootstrap"].pc = "idle"
        BY <2>3, <2>5, <3>2, KindsAre DEF IInv, Arranged, Idles
      <4> QED BY <1>1, <1>6, <2>2, <2>4, <2>5, <3>2, <4>1 DEF IInv, Reviewing, Window
    <3> QED BY <1>2, <3>1, <3>2
  <2>12. Flow'
    BY <1>1, <1>2, <2>3, <2>5, FlowStays, KindsAre DEF IInv, Window
  <2>13. ViewTellsTruth'
    BY <1>1 DEF IInv, ViewTellsTruth, Window
  <2> QED BY <2>7, <2>9, <2>10, <2>11, <2>12, <2>13 DEF IInv
<1> QED BY <1>5, <1>6 DEF Prepare

-----------------------------------------------------------------------------
(* An operation starts and is published.                                    *)

LEMMA StartOperationKeeps ==
  ASSUME IInv, NEW c \in Commands, StartOperation(c), UNCHANGED ui
  PROVE  IInv'
<1>1. /\ cmd \in [Commands -> Cmds] /\ Window
      /\ UNCHANGED <<tree, context, selection, active, events, installCompleted, closer, doomed>>
  BY WindowIs DEF StartOperation, store, closing, IInv, Typed, CommandTypes
<1>2. c \in Starts /\ cmd[c].pc = "start"
  BY WhoIs DEF StartOperation, At, IInv, Typed
<1>3. Asking /\ c = view /\ Judged
  BY <1>2, StartIs DEF IInv, Asking, Early
<1>4. CASE Fails(c) /\ UNCHANGED op
  <2>1. cmd' \in [Commands -> Cmds] /\ Others(c) /\ cmd'[c].pc = "error"
    BY <1>1, <1>4, FailsIs
  <2> QED BY <1>1, <1>2, <1>4, <2>1, StartMoves DEF Early, IInv, Typed
<1> DEFINE entry == [NewOp EXCEPT
                  !.kind = c, !.sel = selection, !.consent = cmd[c].consent,
                  !.state = IF \E p \in Ops : Running(p) THEN "ended" ELSE "running",
                  !.code = IF \E p \in Ops : Running(p) THEN "other" ELSE None]
<1>5. ASSUME NEW o \in Ops, op[o].state = "new",
             cmd' = [cmd EXCEPT ![c].pc = "publish", ![c].op = o],
             op' = [op EXCEPT ![o] = entry]
      PROVE  IInv'
  <2>1. \A p \in Ops : ~Running(p)
    BY <1>3 DEF Judged, NoneRuns
  <2>2. /\ entry \in Operations /\ entry.kind = c /\ entry.sel = selection
        /\ entry.state = "running" /\ entry.code = None /\ entry.thread = "none"
    <3>1. cmd[c].consent \in BOOLEAN /\ selection \in Selections
      BY <1>1, <1>3 DEF Cmds, Judged
    <3> QED BY <1>2, <2>1, <3>1 DEF Operations, States, Threads, NewOp
  <2> HIDE DEF entry
  <2>3. op' \in [Ops -> Operations] /\ op'[o] = entry /\ \A p \in Ops \ {o} : op'[p] = op[p]
    BY <1>5, <2>2, Replaced DEF IInv, Typed
  <2>4. cmd' \in [Commands -> Cmds] /\ Others(c) /\ cmd'[c].pc = "publish" /\ cmd'[c].op = o
    BY <1>1, <1>5, TakesIs DEF AllPlaces, Late
  <2>5. \A d \in Commands \ {c} : cmd'[d] = cmd[d]
    BY <2>4 DEF Others
  <2>6. \A d \in Commands : Idles(d)' <=> Idles(d)
    BY <1>2, <2>4, <2>5 DEF Idles
  <2>7. /\ \A p \in Ops \ {o} : ~Running(p)'
        /\ Running(o)' /\ ~Live(o)' /\ \A p \in Ops \ {o} : Live(p)' <=> Live(p)
    BY <2>1, <2>2, <2>3 DEF Running, Live, Following, Telling
  <2>8. Typed'
    <3>1. "cancel" \in Commands \ {c} /\ "publish" \in Places(c)
      BY <1>2 DEF Commands, Starts, Places, Late
    <3>2. CommandTypes'
      BY <2>4, <2>5, <3>1 DEF IInv, Typed, CommandTypes
    <3> QED BY <1>1, <2>3, <3>2 DEF IInv, Typed, Window
  <2>9. Arranged'
    BY <1>1, <1>2, <2>5, <2>6, KindsAre DEF IInv, Arranged, Window, Starts
  <2>10. RunsAlone'
    BY <1>1, <1>2, <1>3, <2>2, <2>3, <2>7 DEF RunsAlone, Judged, Window, Starts, InProgress
  <2>11. SuccessIsReported'
    BY <2>2, <2>3 DEF IInv, SuccessIsReported, ActionMatches
  <2>12. Reviewing'
    <3>1. cmd'["bootstrap"] = cmd["bootstrap"] /\ cmd'["choose"] = cmd["choose"]
      BY <1>2, <2>5 DEF Commands, Starts
    <3>2. cmd["bootstrap"].pc = "idle" /\ view # "review"
      BY <1>2, <1>3, KindsAre DEF IInv, Arranged, Idles, Starts
    <3> QED BY <1>1, <3>1, <3>2 DEF IInv, Reviewing, Window
  <2>13. Begun'
    <3>2. Quiet'
      BY <1>1, <1>3, <2>7 DEF Asking, Quiet
    <3>3. \A d \in Starts : d # view => Idles(d)'
      BY <1>3, <2>6, KindsAre DEF Asking
    <3>4. Achieved(o)'
      BY <2>2, <2>3 DEF Achieved
    <3> QED BY <1>1, <1>3, <2>2, <2>3, <2>4, <2>7, <3>2, <3>3, <3>4 DEF Begun, Asking, Window, Late
  <2>14. ViewTellsTruth'
    BY <1>1 DEF IInv, ViewTellsTruth, Window
  <2> QED BY <2>8, <2>9, <2>10, <2>11, <2>12, <2>13, <2>14 DEF IInv, Flow
<1> QED BY <1>4, <1>5 DEF StartOperation

\* While an operation is on display nothing is reviewed and nothing reported.
LEMMA BusyIs ==
  ASSUME IInv, opPending
  PROVE  /\ view \in Starts /\ view \in Commands
         /\ cmd["bootstrap"].pc = "idle" /\ cmd["choose"].pc = "idle"
BY KindsAre DEF IInv, Arranged, Idles, Starts

LEMMA BusyReview ==
  ASSUME IInv, opPending, Window, cmd'["bootstrap"] = cmd["bootstrap"]
  PROVE  Reviewing' /\ ViewTellsTruth'
<1>1. view \in Starts /\ cmd["bootstrap"].pc = "idle"
  BY BusyIs
<1>2. Reviewing'
  BY <1>1 DEF IInv, Reviewing, Window, Starts
<1>3. ViewTellsTruth'
  BY <1>1 DEF ViewTellsTruth, Window, Starts
<1> QED BY <1>2, <1>3

LEMMA LateMoves ==
  ASSUME IInv, NEW c \in Starts, Others(c), cmd' \in [Commands -> Cmds],
         cmd[c].pc \in Late, cmd'[c].pc \in Late \cup {"error", "ok"}, Window,
         UNCHANGED <<tree, context, selection, events, installCompleted, closer, doomed>>,
         active' \in Ops \cup {None}, SameRuns
  PROVE  /\ Typed' /\ Arranged' /\ RunsAlone' /\ SuccessIsReported' /\ Reviewing' /\ ViewTellsTruth'
         /\ Begun /\ c = view /\ \A d \in Starts \ {c} : Idles(d) /\ Idles(d)'
<1>1. Begun /\ c = view /\ c \in Commands /\ opPending
  BY StartIs, KindsAre DEF IInv, Begun
<1>2. \A d \in Commands : Idles(d)' <=> Idles(d)
  BY <1>1 DEF Others, Idles, Late
<1>3. \A d \in Commands \ {c} : cmd'[d] = cmd[d]
  BY DEF Others
<1>4. cmd'[c].pc \in Places(c) /\ "cancel" \in Commands \ {c} /\ "bootstrap" \in Commands \ {c}
  BY DEF Places, Starts, Late, Commands
<1>5. Typed'
  <2>1. CommandTypes'
    BY <1>3, <1>4 DEF IInv, Typed, CommandTypes
  <2> QED BY <2>1 DEF IInv, Typed, Window, SameRuns
<1>6. Arranged'
  BY <1>1, <1>2, <1>3, <1>4, KindsAre DEF IInv, Arranged, Window, Starts
<1>7. RunsAlone' /\ SuccessIsReported'
  BY RunsGoOn DEF IInv, Window
<1>8. Reviewing' /\ ViewTellsTruth'
  BY <1>1, <1>3, <1>4, BusyReview
<1>9. \A d \in Starts \ {c} : Idles(d) /\ Idles(d)'
  BY <1>1, <1>2, KindsAre DEF Begun
<1> QED BY <1>1, <1>5, <1>6, <1>7, <1>8, <1>9

LEMMA StillBegun ==
  ASSUME Begun, SameOps, Window, UNCHANGED <<tree, events>>, view \in Starts,
         cmd'[view].op = cmd[view].op, cmd'[view].pc \in Late,
         \A d \in Starts \ {view} : Idles(d)',
         active' = IF cmd'[view].pc \in {"release", "spawn", "disown"} THEN cmd[view].op ELSE None
  PROVE  Begun'
<1>1. \A p \in Ops : (Running(p)' <=> Running(p)) /\ (Live(p)' <=> Live(p)) /\ (Achieved(p) => Achieved(p)')
  BY DEF SameOps, Running, Live, Achieved
<1>2. Quiet'
  BY <1>1 DEF Begun, Quiet
<1> QED BY <1>1, <1>2 DEF Begun, SameOps, Window

LEMMA PublishKeeps ==
  ASSUME IInv, NEW c \in Commands, Publish(c) \/ Release(c), UNCHANGED ui
  PROVE  IInv'
<1>1. /\ cmd \in [Commands -> Cmds] /\ Window /\ SameOps /\ SameRuns
      /\ UNCHANGED <<op, tree, context, selection, events, installCompleted, closer, doomed>>
  BY WindowIs, SameOpsIs DEF Publish, Release, store, running, closing, IInv, Typed, CommandTypes,
     SameOps, SameRuns
<1>2. c \in Starts /\ cmd[c].pc \in Late
  BY WhoIs DEF Publish, Release, At, IInv, Typed, Late
<1>3. Begun /\ c = view
  BY <1>2, StartIs DEF IInv
<1>4. PICK pc \in {"release", "spawn"} : Goes(c, pc)
  BY DEF Publish, Release
<1>5. active' = cmd[c].op /\ cmd[c].op \in Ops
  BY <1>3 DEF Publish, Release, At, Begun
<1>6. /\ cmd' \in [Commands -> Cmds] /\ Others(c) /\ cmd'[c].pc = pc /\ cmd'[c].op = cmd[c].op
      /\ pc \in Late \cup {"error", "ok"} /\ pc \in Late
  BY <1>1, <1>4, GoesIs DEF AllPlaces, Late
<1>7. /\ Typed' /\ Arranged' /\ RunsAlone' /\ SuccessIsReported' /\ Reviewing' /\ ViewTellsTruth'
      /\ \A d \in Starts \ {c} : Idles(d) /\ Idles(d)'
  BY <1>1, <1>2, <1>5, <1>6, LateMoves
<1>8. Begun'
  BY <1>1, <1>2, <1>3, <1>5, <1>6, <1>7, StillBegun
<1> QED BY <1>7, <1>8 DEF IInv, Flow

LEMMA SpawnKeeps ==
  ASSUME IInv, NEW c \in Commands, Spawn(c), UNCHANGED ui
  PROVE  IInv'
<1>1. /\ cmd \in [Commands -> Cmds] /\ op \in [Ops -> Operations] /\ Window
      /\ UNCHANGED <<active, tree, context, selection, events, installCompleted, closer, doomed>>
  BY WindowIs DEF Spawn, store, closing, IInv, Typed, CommandTypes
<1>2. c \in Starts /\ cmd[c].pc = "spawn" /\ cmd[c].pc \in Late
  BY WhoIs DEF Spawn, At, IInv, Typed, Late
<1>3. Begun /\ c = view
  BY <1>2, StartIs DEF IInv
<1>4. PICK o \in Ops : o = cmd[c].op /\ active = o /\ active \in Ops \cup {None}
  BY <1>2, <1>3 DEF Begun
<1>5. CASE Goes(c, "disown") /\ UNCHANGED op
  <2>1. SameOps /\ SameRuns
    BY <1>1, <1>5, SameOpsIs DEF IInv, SameOps, SameRuns
  <2>2. /\ cmd' \in [Commands -> Cmds] /\ Others(c) /\ cmd'[c].pc = "disown" /\ cmd'[c].op = o
        /\ "disown" \in Late
    BY <1>1, <1>4, <1>5, GoesIs DEF AllPlaces, Late
  <2>3. /\ Typed' /\ Arranged' /\ RunsAlone' /\ SuccessIsReported' /\ Reviewing' /\ ViewTellsTruth'
        /\ \A d \in Starts \ {c} : Idles(d) /\ Idles(d)'
    BY <1>1, <1>2, <1>4, <2>1, <2>2, LateMoves
  <2>4. Begun'
    BY <1>1, <1>2, <1>3, <1>4, <2>1, <2>2, <2>3, StillBegun
  <2> QED BY <2>3, <2>4 DEF IInv, Flow
<1>6. CASE op' = [op EXCEPT ![o].thread = "receive"] /\ Answers(c, "ok", None)
  <2>1. Keeps(o, {"thread"}) /\ op'[o].thread = "receive"
    BY <1>1, <1>6, ThreadMoves DEF Threads, Following
  <2>2. /\ op' \in [Ops -> Operations] /\ \A p \in Ops \ {o} : op'[p] = op[p]
        /\ op'[o].kind = op[o].kind /\ op'[o].state = op[o].state /\ op'[o].code = op[o].code
        /\ op'[o].fresh = op[o].fresh /\ op'[o].sel = op[o].sel
    BY <2>1 DEF Keeps
  <2>3. SameRuns
    BY <2>2 DEF SameRuns
  <2>4. cmd' \in [Commands -> Cmds] /\ Others(c) /\ cmd'[c].pc = "ok" /\ cmd'[c].op = o
    BY <1>1, <1>2, <1>4, <1>6, AnswersIs
  <2>5. /\ Typed' /\ Arranged' /\ RunsAlone' /\ SuccessIsReported' /\ Reviewing' /\ ViewTellsTruth'
        /\ \A d \in Starts \ {c} : Idles(d) /\ Idles(d)'
    BY <1>1, <1>2, <1>4, <2>3, <2>4, LateMoves
  <2>6. Named(o)'
    BY <1>1, <1>2, <1>3, <1>4, <2>4, <2>5 DEF Named, Begun, Window
  <2>7. \A p \in Ops : (Running(p)' <=> Running(p)) /\ (Live(p)' <=> p = o)
    BY <1>3, <2>1, <2>2 DEF Running, Live, Begun, Quiet, Following
  <2>8. Followed(o)'
    <3>1. events' = <<>>
      BY <1>1, <1>3 DEF Begun, Quiet
    <3>2. /\ op[o].kind = view /\ op[o].state \in {"running", "ended"} /\ Achieved(o)
          /\ \A p \in Ops : Running(p) => p = o
      BY <1>3, <1>4 DEF Begun
    <3>3. Achieved(o)'
      BY <1>1, <2>2, <3>2 DEF Achieved
    <3> QED BY <1>1, <1>4, <2>1, <2>2, <2>6, <2>7, <3>1, <3>2, <3>3 DEF Followed, Window, Following
  <2> QED BY <1>4, <2>5, <2>8 DEF IInv, Flow
<1> QED BY <1>4, <1>5, <1>6 DEF Spawn

LEMMA DisownKeeps ==
  ASSUME IInv, NEW c \in Commands, Disown(c), UNCHANGED ui
  PROVE  IInv'
<1>1. /\ cmd \in [Commands -> Cmds] /\ op \in [Ops -> Operations] /\ Window
      /\ UNCHANGED <<tree, context, selection, events, installCompleted, closer, doomed>>
  BY WindowIs DEF Disown, store, closing, IInv, Typed, CommandTypes
<1>2. c \in Starts /\ cmd[c].pc = "disown" /\ cmd[c].pc \in Late
  BY WhoIs DEF Disown, At, IInv, Typed, Late
<1>3. Begun /\ c = view
  BY <1>2, StartIs DEF IInv
<1> DEFINE o == cmd[c].op
<1>4. o \in Ops /\ active = o
  BY <1>2, <1>3 DEF Begun
<1>5. active' = None /\ Keeps(o, {})
  BY <1>1, <1>4, CompletedMoves DEF Disown, Cleared
<1>6. SameOps /\ SameRuns
  BY <1>4, <1>5, SameOpsIs DEF IInv, SameOps, SameRuns
<1>7. /\ cmd' \in [Commands -> Cmds] /\ Others(c) /\ cmd'[c].pc = "revoke" /\ cmd'[c].op = o
      /\ "revoke" \in Late
  BY <1>1, GoesIs DEF Disown, AllPlaces, Late
<1>8. /\ Typed' /\ Arranged' /\ RunsAlone' /\ SuccessIsReported' /\ Reviewing' /\ ViewTellsTruth'
      /\ \A d \in Starts \ {c} : Idles(d) /\ Idles(d)'
  BY <1>1, <1>2, <1>5, <1>6, <1>7, LateMoves
<1>9. Begun'
  BY <1>1, <1>2, <1>3, <1>5, <1>6, <1>7, <1>8, StillBegun
<1> QED BY <1>8, <1>9 DEF IInv, Flow

LEMMA RevokeKeeps ==
  ASSUME IInv, NEW c \in Commands, Revoke(c), UNCHANGED ui
  PROVE  IInv'
<1>1. /\ cmd \in [Commands -> Cmds] /\ op \in [Ops -> Operations] /\ Window
      /\ UNCHANGED <<active, tree, context, selection, events, installCompleted, closer, doomed>>
  BY WindowIs DEF Revoke, store, closing, IInv, Typed, CommandTypes
<1>2. c \in Starts /\ cmd[c].pc = "revoke" /\ cmd[c].pc \in Late
  BY WhoIs DEF Revoke, At, IInv, Typed, Late
<1>3. Begun /\ c = view
  BY <1>2, StartIs DEF IInv
<1> DEFINE o == cmd[c].op
<1>4. o \in Ops /\ active = None /\ active \in Ops \cup {None}
  BY <1>2, <1>3 DEF Begun
<1>5. CancelSent(o) /\ Keeps(o, {"cancel"}) /\ (op'[o].cancel <=> op[o].cancel \/ Running(o))
  BY <1>1, <1>4, CancelMoves DEF Revoke
<1>6. SameOps /\ SameRuns
  BY <1>4, <1>5, SameOpsIs DEF IInv, SameOps, SameRuns
<1>7. cmd' \in [Commands -> Cmds] /\ Others(c) /\ cmd'[c].pc = "error"
  BY <1>1, FailsIs DEF Revoke
<1>8. /\ Typed' /\ Arranged' /\ RunsAlone' /\ SuccessIsReported' /\ Reviewing' /\ ViewTellsTruth'
      /\ \A d \in Starts \ {c} : Idles(d) /\ Idles(d)'
  BY <1>1, <1>2, <1>4, <1>6, <1>7, LateMoves
<1>9. Asking'
  <2>1. \A p \in Ops : (Running(p)' <=> Running(p)) /\ (Live(p)' <=> Live(p))
    BY <1>6 DEF SameOps, Running, Live
  <2>2. Quiet'
    BY <1>1, <1>3, <2>1 DEF Begun, Quiet
  <2>3. \A p \in Ops : Running(p)' => op'[p].cancel
    BY <1>3, <1>5, <2>1 DEF Begun
  <2> QED BY <1>1, <1>2, <1>3, <1>4, <1>7, <1>8, <2>2, <2>3 DEF Asking, Begun, Window, Early, Gated
<1> QED BY <1>8, <1>9 DEF IInv, Flow

-----------------------------------------------------------------------------
(* The operation ends and its completion thread goes on.                    *)

\* What the end of an operation cannot disturb.
LEMMA EndsKeeps ==
  ASSUME IInv, NEW o \in Ops, Ends(o), UNCHANGED ui
  PROVE  IInv'
<1>1. /\ Window /\ op \in [Ops -> Operations] /\ tree \in Trees
      /\ UNCHANGED <<context, selection, active, installCompleted, cmd, events, closer, doomed>>
  BY WindowIs DEF Ends, store, closing, IInv, Typed
<1>2. Running(o) /\ op[o].state = "running"
  BY DEF Ends, Running
<1>3. /\ \A p \in Ops : Running(p) => p = o
      /\ op[o].sel \in Selections /\ op[o].sel.class = tree /\ op[o].kind \in Starts
      /\ view \in {"error", "booting"} \cup InProgress
  BY <1>2 DEF IInv, RunsAlone
<1>4. PICK r \in Resolved, code \in Codes :
        /\ op' = [op EXCEPT ![o].state = "ended", ![o].code = code, ![o].fresh = (r = "absent")]
        /\ code = "ok" => tree' = IF op[o].kind = "install" THEN "current" ELSE "absent"
        /\ code # "ok" => tree' \in {r, "recovery"}
  <2>1. PICK r \in Resolved, code \in Codes :
        /\ op' = [op EXCEPT ![o].state = "ended", ![o].code = code, ![o].fresh = (r = "absent")]
        /\ CASE code = "ok" -> /\ (op[o].kind = "install" /\ r = "legacy") => op[o].consent
                               /\ tree' = IF op[o].kind = "install" THEN "current" ELSE "absent"
             [] code = "cancelled" -> op[o].cancel /\ tree' = r
             [] code = "migration_required" ->
                  op[o].kind = "install" /\ r = "legacy" /\ ~op[o].consent /\ tree' = r
             [] code \in {"conflict", "other"} -> tree' \in {r, "recovery"}
    BY DEF Ends
  <2>2. code \in {"ok", "cancelled", "migration_required", "conflict", "other"}
    BY DEF Codes
  <2>3. /\ code = "ok" => tree' = IF op[o].kind = "install" THEN "current" ELSE "absent"
        /\ code # "ok" => tree' \in {r, "recovery"}
    BY <2>1, <2>2
  <2> QED BY <2>1, <2>3
<1>5. r \in Trees /\ (tree # "recovery" => r = tree) /\ tree' \in Trees
  BY <1>1, <1>4 DEF Resolved, Trees
<1>6. /\ op' \in [Ops -> Operations] /\ \A p \in Ops \ {o} : op'[p] = op[p]
      /\ op'[o].kind = op[o].kind /\ op'[o].cancel = op[o].cancel /\ op'[o].sel = op[o].sel
      /\ op'[o].thread = op[o].thread
      /\ op'[o].state = "ended" /\ op'[o].code = code /\ op'[o].fresh = (r = "absent")
  <2>1. (r = "absent") \in BOOLEAN
    OBVIOUS
  <2>2. /\ Keeps(o, {"state", "code", "fresh"})
        /\ op'[o].state = "ended" /\ op'[o].code = code /\ op'[o].fresh = (r = "absent")
    BY <1>1, <1>4, <2>1, EndMoves
  <2> QED BY <2>2 DEF Keeps
<1>7. /\ \A p \in Ops : ~Running(p)' /\ (Live(p)' <=> Live(p))
      /\ Quiet => Quiet'
  BY <1>1, <1>3, <1>6 DEF Running, Live, Quiet
<1>8. Typed'
  BY <1>1, <1>5, <1>6 DEF IInv, Typed, CommandTypes, Window
<1>9. Arranged'
  BY <1>1 DEF IInv, Arranged, Idles, Window
<1>10. RunsAlone'
  BY <1>7 DEF RunsAlone
<1>11. SuccessIsReported'
  <2>1. op'[o].kind = "install" /\ op'[o].code = "ok" => ActionMatches(o)'
    BY <1>3, <1>5, <1>6 DEF ActionMatches
  <2> QED BY <1>6, <2>1 DEF IInv, SuccessIsReported, ActionMatches
<1>12. ~Judged
  BY <1>2 DEF Judged, NoneRuns
<1>13. Reviewing'
  BY <1>1, <1>12 DEF IInv, Reviewing, Window
<1>14. ViewTellsTruth'
  BY <1>1, <1>3 DEF ViewTellsTruth, Window, InProgress
<1>15. Achieved(o)'
  BY <1>4, <1>6 DEF Achieved
<1>16. opPending => view \in Starts
  BY KindsAre DEF IInv, Arranged
<1>17. Flow'
  <2>1. CASE Resting
    <3>1. Resting'
      BY <1>1, <1>7, <2>1 DEF Resting, Window
    <3> QED BY <3>1 DEF Flow
  <2>2. CASE Asking
    <3>1. Asking'
      BY <1>1, <1>7, <1>12, <2>2 DEF Asking, Window, Idles
    <3> QED BY <3>1 DEF Flow
  <2>3. CASE Begun
    <3>1. o = cmd[view].op
      BY <1>2, <2>3 DEF Begun
    <3>2. Begun'
      BY <1>1, <1>6, <1>7, <1>15, <2>3, <3>1 DEF Begun, Window, Idles
    <3> QED BY <3>2 DEF Flow
  <2>4. ASSUME NEW q \in Ops, Followed(q) PROVE Flow'
    <3>1. q = o
      BY <1>2, <2>4 DEF Followed
    <3>2. Named(o)'
      BY <1>1, <2>4, <3>1 DEF Followed, Named, Window, Idles
    <3>3. op[o].thread = "receive"
      BY <1>2, <2>4, <3>1 DEF Followed
    <3>4. Followed(o)'
      BY <1>1, <1>6, <1>7, <1>15, <2>4, <3>1, <3>2, <3>3 DEF Followed, Window
    <3> QED BY <3>4 DEF Flow
  <2>5. ASSUME NEW q \in Ops, Told(q) PROVE Flow'
    BY <1>2, <2>5 DEF Told, NoneRuns
  <2> QED BY <2>1, <2>2, <2>3, <2>4, <2>5 DEF IInv, Flow
<1> QED BY <1>8, <1>9, <1>10, <1>11, <1>13, <1>14, <1>17 DEF IInv

\* What a completion thread leaves alone.
LEMMA Besides ==
  ASSUME IInv, NEW o \in Ops, Followed(o), Window, UNCHANGED <<tree, cmd, context, closer, doomed>>,
         active' \in Ops \cup {None}, selection' \in Selections \cup {None},
         installCompleted' \in BOOLEAN, op' \in [Ops -> Operations], events' \in Seq(Events)
  PROVE  Typed' /\ Arranged' /\ Reviewing' /\ ViewTellsTruth' /\ Named(o)'
<1>1. opPending /\ Named(o)
  BY DEF Followed, Named
<1>2. Typed'
  BY DEF IInv, Typed, CommandTypes, Window
<1>3. Arranged'
  BY DEF IInv, Arranged, Idles, Window
<1>4. Reviewing' /\ ViewTellsTruth'
  BY <1>1, BusyReview
<1>5. Named(o)'
  BY <1>1 DEF Named, Window, Idles
<1> QED BY <1>2, <1>3, <1>4, <1>5

\* The thread goes on to t.
LEMMA ThreadGoes ==
  ASSUME IInv, NEW o \in Ops, Followed(o), Window,
         UNCHANGED <<tree, cmd, context, events, closer, doomed>>,
         selection' \in Selections \cup {None}, installCompleted' \in BOOLEAN,
         Keeps(o, {"thread"}), op[o].state = "ended",
         NEW t \in (Following \cup Telling) \ {"receive"}, op'[o].thread = t,
         t \in {"cache", "flag"} => op[o].code = "ok" /\ op[o].kind = "install",
         t = "emit" /\ op[o].code = "ok" /\ op[o].kind = "install" => installCompleted',
         active' = IF t \in Following THEN o ELSE None
  PROVE  IInv'
<1>1. /\ op' \in [Ops -> Operations] /\ \A p \in Ops \ {o} : op'[p] = op[p]
      /\ op'[o].kind = op[o].kind /\ op'[o].state = op[o].state /\ op'[o].code = op[o].code
      /\ op'[o].fresh = op[o].fresh /\ op'[o].sel = op[o].sel
  BY DEF Keeps
<1>2. SameRuns
  BY <1>1 DEF SameRuns
<1>3. Typed' /\ Arranged' /\ Reviewing' /\ ViewTellsTruth' /\ Named(o)'
  BY <1>1, Besides DEF IInv, Typed
<1>4. RunsAlone' /\ SuccessIsReported'
  BY <1>2, RunsGoOn DEF IInv, Window
<1>5. \A p \in Ops : (Running(p)' <=> Running(p)) /\ (Live(p)' => p = o)
  BY <1>1 DEF Running, Live, Followed
<1>6. Followed(o)'
  <2>1. Live(o)'
    BY DEF Live
  <2>2. Achieved(o)'
    BY <1>1 DEF Followed, Achieved
  <2> QED BY <1>1, <1>3, <1>5, <2>1, <2>2 DEF Followed, Window, Telling, Following
<1> QED BY <1>3, <1>4, <1>6 DEF IInv, Flow

LEMMA PassEventKeeps ==
  ASSUME IInv, NEW o \in Ops, PassEvent(o), UNCHANGED ui
  PROVE  IInv'
<1>1. /\ Window /\ op \in [Ops -> Operations] /\ events \in Seq(Events)
      /\ UNCHANGED <<tree, context, selection, active, installCompleted, cmd, closer, doomed>>
      /\ op[o].thread = "receive"
  BY WindowIs DEF PassEvent, InThread, store, closing, IInv, Typed
<1>2. Followed(o)
  BY <1>1, FollowedIs DEF IInv, Live, Following
<1>3. Keeps(o, {})
  BY <1>1, ToldMoves DEF PassEvent
<1>4. /\ op' \in [Ops -> Operations] /\ \A p \in Ops \ {o} : op'[p] = op[p]
      /\ op'[o].kind = op[o].kind /\ op'[o].state = op[o].state /\ op'[o].code = op[o].code
      /\ op'[o].fresh = op[o].fresh /\ op'[o].sel = op[o].sel /\ op'[o].thread = op[o].thread
  BY <1>3 DEF Keeps
<1> DEFINE e == [op |-> o, kind |-> "progress", code |-> op[o].code, review |-> None]
<1>5. e \in Events /\ e.op = o /\ e.kind = "progress"
  BY <1>1 DEF Events, Operations, Kinds
<1>6. events' = Append(events, e)
  BY DEF PassEvent, Emits
<1> HIDE DEF e
<1>7. events' \in Seq(Events)
  BY <1>1, <1>5, <1>6
<1>8. \A i \in DOMAIN events' : events'[i].op = o /\ events'[i].kind = "progress"
  BY <1>1, <1>2, <1>5, <1>6 DEF Followed
<1>9. SameRuns
  BY <1>4 DEF SameRuns
<1>10. Typed' /\ Arranged' /\ Reviewing' /\ ViewTellsTruth' /\ Named(o)'
  BY <1>1, <1>2, <1>4, <1>7, Besides DEF IInv, Typed
<1>11. RunsAlone' /\ SuccessIsReported'
  BY <1>1, <1>9, RunsGoOn DEF IInv, Window
<1>12. \A p \in Ops : (Running(p)' <=> Running(p)) /\ (Live(p)' <=> Live(p))
  BY <1>4 DEF Running, Live
<1>13. Achieved(o)'
  BY <1>1, <1>2, <1>4 DEF Followed, Achieved
<1>14. Followed(o)'
  BY <1>1, <1>2, <1>4, <1>8, <1>10, <1>12, <1>13 DEF Followed, Window
<1> QED BY <1>10, <1>11, <1>14 DEF IInv, Flow

LEMMA TakeResultKeeps ==
  ASSUME IInv, NEW o \in Ops, TakeResult(o), UNCHANGED ui
  PROVE  IInv'
<1>1. /\ Window /\ op \in [Ops -> Operations] /\ events \in Seq(Events)
      /\ UNCHANGED <<tree, context, selection, active, cmd, events, closer, doomed>>
      /\ op[o].thread = "receive" /\ op[o].state = "ended"
      /\ selection \in Selections \cup {None} /\ installCompleted \in BOOLEAN
  BY WindowIs DEF TakeResult, InThread, store, closing, IInv, Typed
<1>2. Followed(o) /\ active = o
  BY <1>1, FollowedIs DEF IInv, Live, Following, Followed
<1> DEFINE install == op[o].kind = "install"
           ok == op[o].code = "ok" /\ (install => ActionMatches(o))
           code == IF op[o].code = "ok" /\ ~ok THEN "other" ELSE op[o].code
           to == IF active # o THEN "ended"
                 ELSE CASE ok /\ install -> "cache"
                        [] ok /\ ~install -> "prepare"
                        [] ~ok /\ install /\ ~closeStarted /\ op[o].code \in Refreshing -> "refresh"
                        [] OTHER -> "clear"
<1>3. /\ op' = [op EXCEPT ![o].code = code, ![o].thread = to]
      /\ installCompleted' = (installCompleted /\ ~(active = o /\ ok /\ ~install))
  BY DEF TakeResult
<1>4. op[o].code = "ok" => ok
  BY <1>1 DEF IInv, SuccessIsReported
<1>5. code = op[o].code /\ code \in Codes \cup {None}
  BY <1>1, <1>4 DEF Operations
<1>6. to \in {"cache", "prepare", "refresh", "clear"} /\ (to = "cache" => ok /\ install)
  BY <1>2
<1>7. installCompleted' \in BOOLEAN
  BY <1>1, <1>3
<1>8. to = "cache" => op[o].code = "ok" /\ op[o].kind = "install"
  BY <1>6
<1>9. PICK t \in {"cache", "prepare", "refresh", "clear"} : t = to
  BY <1>6
<1>10. PICK d \in Codes \cup {None} : d = code
  BY <1>5
<1> HIDE DEF to, code
<1>11. op' = [op EXCEPT ![o].code = d, ![o].thread = t]
  BY <1>3, <1>9, <1>10
<1>12. Keeps(o, {"thread", "code"}) /\ op'[o].thread = t /\ op'[o].code = d
  BY <1>1, <1>11, ResultMoves DEF Threads, Following
<1>13. Keeps(o, {"thread"})
  BY <1>5, <1>10, <1>12 DEF Keeps
<1>14. /\ t \in (Following \cup Telling) \ {"receive"} /\ t \in Following
       /\ t \in {"cache", "flag"} => op[o].code = "ok" /\ op[o].kind = "install"
  BY <1>8, <1>9 DEF Following
<1>15. t # "emit"
  OBVIOUS
<1> QED BY <1>1, <1>2, <1>7, <1>12, <1>13, <1>14, <1>15, ThreadGoes

LEMMA ReselectKeeps ==
  ASSUME IInv, NEW o \in Ops, Reselect(o), UNCHANGED ui
  PROVE  IInv'
<1>1. /\ Window /\ op \in [Ops -> Operations]
      /\ UNCHANGED <<tree, context, active, installCompleted, cmd, events, closer, doomed>>
      /\ installCompleted \in BOOLEAN
  BY WindowIs DEF Reselect, closing, IInv, Typed
<1>2. op[o].thread \in {"cache", "refresh", "prepare"}
  BY DEF Reselect, CacheSelection, RefreshSelection, PrepareAgain, InThread
<1>3. Followed(o) /\ active = o /\ op[o].state = "ended"
  BY <1>2, FollowedIs DEF IInv, Live, Following, Followed
<1>4. /\ Keeps(o, {"thread"}) /\ op'[o].thread = "clear"
      /\ selection' \in Selections \cup {None}
  <2>0. "clear" \in Threads /\ selection \in Selections \cup {None}
    BY DEF Threads, Following, IInv, Typed
  <2>1. CASE CacheSelection(o)
    <3> DEFINE s == [class |-> "current", space |-> TRUE]
    <3>1. s \in Selections /\ Review(s) \in Reviews
      BY DEF Selections, Trees, Review, Reviews
    <3>2. selection' = s /\ op' = [op EXCEPT ![o].thread = "clear", ![o].review = Review(s)]
      BY <2>1 DEF CacheSelection
    <3> HIDE DEF s
    <3> QED BY <1>1, <2>0, <3>1, <3>2, ReviewMoves
  <2>2. ASSUME CanPrepare, NEW s \in Prepared, selection' = s,
               op' = [op EXCEPT ![o].thread = "clear", ![o].review = Review(s)]
        PROVE  Keeps(o, {"thread"}) /\ op'[o].thread = "clear" /\ selection' \in Selections
    <3>1. s \in Selections /\ Review(s) \in Reviews
      BY <2>2, PreparedIs
    <3> QED BY <1>1, <2>0, <2>2, <3>1, ReviewMoves
  <2>3. CASE op' = [op EXCEPT ![o].thread = "clear"] /\ UNCHANGED selection
    BY <1>1, <2>0, <2>3, ThreadMoves
  <2>4. CASE PrepareAgain(o)
    <3>1. op' = [op EXCEPT ![o].thread = "clear"]
      BY <2>4 DEF PrepareAgain
    <3>2. ASSUME CanPrepare PROVE Prepared \subseteq Selections
      BY <3>2, PreparedIs
    <3>3. [class |-> "absent", space |-> TRUE] \in Selections
      BY DEF Selections, Trees
    <3>4. selection' \in Selections \cup {None}
      BY <2>4, <3>2, <3>3 DEF PrepareAgain
    <3> QED BY <1>1, <2>0, <3>1, <3>4, ThreadMoves
  <2> QED BY <2>1, <2>2, <2>3, <2>4 DEF Reselect, RefreshSelection
<1>5. "clear" \in (Following \cup Telling) \ {"receive"} /\ "clear" \in Following
  BY DEF Following
<1> QED BY <1>1, <1>3, <1>4, <1>5, ThreadGoes

LEMMA ClearKeeps ==
  ASSUME IInv, NEW o \in Ops, Clear(o), UNCHANGED ui
  PROVE  IInv'
<1>1. /\ Window /\ op \in [Ops -> Operations]
      /\ UNCHANGED <<tree, context, selection, installCompleted, cmd, events, closer, doomed>>
      /\ installCompleted \in BOOLEAN /\ selection \in Selections \cup {None}
      /\ op[o].thread = "clear"
  BY WindowIs DEF Clear, InThread, store, closing, IInv, Typed
<1>2. Followed(o) /\ active = o /\ op[o].state = "ended"
  BY <1>1, FollowedIs DEF IInv, Live, Following, Followed
<1>3. PICK t \in Telling : t = IF op[o].code = "ok" /\ op[o].kind = "install" THEN "flag" ELSE "emit"
  BY DEF Telling
<1>4. op' = [op EXCEPT ![o].completed = @ \/ active = o, ![o].thread = t]
  BY <1>3 DEF Clear
<1>5. PICK done \in BOOLEAN : done = (active = o)
  OBVIOUS
<1>6. op' = [op EXCEPT ![o].completed = @ \/ done, ![o].thread = t]
  BY <1>4, <1>5
<1>7. t \in Threads /\ t \in (Following \cup Telling) \ {"receive"} /\ t \notin Following
  BY DEF Threads, Following, Telling
<1>8. Keeps(o, {"thread"}) /\ op'[o].thread = t
  BY <1>1, <1>6, <1>7, ClearMoves
<1>9. active' = IF t \in Following THEN o ELSE None
  BY <1>2, <1>7 DEF Clear
<1>10. /\ t \in {"cache", "flag"} => op[o].code = "ok" /\ op[o].kind = "install"
       /\ ~(t = "emit" /\ op[o].code = "ok" /\ op[o].kind = "install")
  BY <1>3
<1> QED BY <1>1, <1>2, <1>7, <1>8, <1>9, <1>10, ThreadGoes

LEMMA SetFlagKeeps ==
  ASSUME IInv, NEW o \in Ops, SetFlag(o), UNCHANGED ui
  PROVE  IInv'
<1>1. /\ Window /\ op \in [Ops -> Operations]
      /\ UNCHANGED <<tree, context, selection, active, cmd, events, closer, doomed>>
      /\ selection \in Selections \cup {None} /\ installCompleted' = TRUE
      /\ op[o].thread = "flag"
  BY WindowIs DEF SetFlag, InThread, store, closing, IInv, Typed
<1>2. Followed(o) /\ active = None /\ op[o].state = "ended"
  BY <1>1, FollowedIs DEF IInv, Live, Following, Telling, Followed
<1>3. "emit" \in Threads /\ "emit" \in (Following \cup Telling) \ {"receive"} /\ "emit" \notin Following
  BY DEF Threads, Following, Telling
<1>4. Keeps(o, {"thread"}) /\ op'[o].thread = "emit"
  BY <1>1, <1>3, ThreadMoves DEF SetFlag
<1> QED BY <1>1, <1>2, <1>3, <1>4, ThreadGoes

LEMMA EmitTerminalKeeps ==
  ASSUME IInv, NEW o \in Ops, EmitTerminal(o), UNCHANGED ui
  PROVE  IInv'
<1>1. /\ Window /\ op \in [Ops -> Operations] /\ events \in Seq(Events)
      /\ UNCHANGED <<tree, context, selection, active, installCompleted, cmd, closer, doomed>>
      /\ selection \in Selections \cup {None} /\ installCompleted \in BOOLEAN
      /\ op[o].thread = "emit"
  BY WindowIs DEF EmitTerminal, InThread, store, closing, IInv, Typed
<1>2. Followed(o) /\ active = None /\ op[o].state = "ended"
  BY <1>1, FollowedIs DEF IInv, Live, Following, Telling, Followed
<1> DEFINE entry == [NewOp EXCEPT !.state = "ended", !.thread = "ended", !.completed = TRUE]
<1>3. /\ entry \in Operations /\ entry.state = "ended" /\ entry.thread = "ended"
      /\ entry.kind = None
  BY DEF NewOp, Operations, States, Threads
<1>4. op' = [op EXCEPT ![o] = entry]
  BY DEF EmitTerminal
<1> HIDE DEF entry
<1>5. op' \in [Ops -> Operations] /\ op'[o] = entry /\ \A p \in Ops \ {o} : op'[p] = op[p]
  BY <1>1, <1>3, <1>4, Replaced
<1>6. \A p \in Ops : ~Running(p)' /\ ~Live(p)'
  BY <1>2, <1>3, <1>5 DEF Running, Live, Followed, Following, Telling
<1>7. PICK kind \in Kinds \ {"progress"} :
        kind = IF op[o].code # "ok" THEN "error"
               ELSE IF op[o].kind = "install" THEN "complete" ELSE "uninstalled"
  BY DEF Kinds
<1>8. /\ kind = "complete" => tree = "current" /\ installCompleted
      /\ kind = "uninstalled" => tree = "absent"
  <2>1. Achieved(o) /\ (op[o].code = "ok" /\ op[o].kind = "install" => installCompleted)
    BY <1>1, <1>2 DEF Followed
  <2> QED BY <1>2, <1>7, <2>1 DEF Achieved
<1>9. [op |-> o, kind |-> kind, code |-> op[o].code, review |-> op[o].review] \in Events
  BY <1>1, <1>7 DEF Events, Operations
<1>10. PICK e \in Events : e.op = o /\ e.kind = kind /\ events' = Append(events, e)
  BY <1>7, <1>9 DEF EmitTerminal, Emits
<1>11. events' \in Seq(Events)
  BY <1>1, <1>10
<1>12. /\ events' # <<>> /\ events'[Len(events')] = e /\ DOMAIN events' = 1..Len(events')
       /\ \A i \in DOMAIN events' : /\ events'[i].op = o
                                    /\ i # Len(events') => events'[i].kind = "progress"
  <2>1. /\ Len(events') = Len(events) + 1 /\ DOMAIN events' = 1..Len(events')
        /\ events'[Len(events')] = e /\ \A i \in 1..Len(events) : events'[i] = events[i]
    BY <1>1, <1>10
  <2>2. \A i \in 1..Len(events) : events[i].op = o /\ events[i].kind = "progress"
    BY <1>1, <1>2 DEF Followed
  <2> QED BY <1>1, <1>10, <1>11, <2>1, <2>2
<1>13. Typed' /\ Arranged' /\ Reviewing' /\ ViewTellsTruth' /\ Named(o)'
  BY <1>1, <1>2, <1>5, <1>11, Besides DEF IInv, Typed
<1>14. RunsAlone'
  BY <1>6 DEF RunsAlone
<1>15. SuccessIsReported'
  BY <1>3, <1>5, KindsAre, ShellAssumption DEF IInv, SuccessIsReported, ActionMatches, Starts
<1>16. Told(o)'
  <2>1. True(e)'
    BY <1>1, <1>8, <1>10 DEF True
  <2> QED BY <1>1, <1>2, <1>6, <1>7, <1>10, <1>12, <1>13, <2>1 DEF Told, NoneRuns, True
<1> QED BY <1>13, <1>14, <1>15, <1>16 DEF IInv, Flow

LEMMA CompletionKeeps ==
  ASSUME IInv, NEW o \in Ops, CompletionStep(o), UNCHANGED ui
  PROVE  IInv'
BY TakeResultKeeps, ReselectKeeps, ClearKeeps, SetFlagKeeps, EmitTerminalKeeps DEF CompletionStep

LEMMA CommandStepKeeps ==
  ASSUME IInv, NEW c \in Commands, CommandStep(c), UNCHANGED ui
  PROVE  IInv'
BY TakeContextKeeps, LoadKeeps, FirstReviewKeeps, GateKeeps, DialogEndsKeeps, PrepareKeeps, ActKeeps,
   StartOperationKeeps, PublishKeeps, SpawnKeeps, DisownKeeps, RevokeKeeps, CancelKeeps
   DEF CommandStep

-----------------------------------------------------------------------------
(* Closing the window changes nothing that the window shows.                *)

LEMMA NothingMoves ==
  ASSUME IInv, SameOps, Window,
         UNCHANGED <<cmd, tree, context, selection, active, events, installCompleted>>,
         closer' = "cancel" => doomed' \in Ops
  PROVE  IInv'
<1>1. Typed'
  BY DEF IInv, Typed, CommandTypes, Window, SameOps
<1>2. Arranged'
  BY DEF IInv, Arranged, Idles, Window
<1>3. RunsAlone' /\ SuccessIsReported'
  BY RunsStays DEF IInv, Window
<1>4. Judged => Judged'
  BY JudgedStays
<1>5. Reviewing'
  BY <1>4 DEF IInv, Reviewing, Window
<1>6. Flow'
  BY <1>4, FlowStays DEF IInv, Window
<1>7. ViewTellsTruth'
  BY DEF IInv, ViewTellsTruth, Window
<1> QED BY <1>1, <1>2, <1>3, <1>5, <1>6, <1>7 DEF IInv

LEMMA ClosingKeeps ==
  ASSUME IInv, RequestClose \/ CloserStep \/ ShutdownFails, UNCHANGED ui
  PROVE  IInv'
<1>1. /\ Window /\ op \in [Ops -> Operations] /\ active \in Ops \cup {None}
      /\ closer = "cancel" => doomed \in Ops
  BY WindowIs DEF IInv, Typed
<1>2. UNCHANGED <<cmd, tree, context, selection, active, events, installCompleted>>
  BY DEF RequestClose, CloserStep, ShutdownFails, Shutdown, RequestCancel, WaitCompleted,
     CloseBackend, CloseWindow, others, store
<1>3. CASE RequestCancel
  <2>1. CancelSent(doomed) /\ doomed \in Ops /\ closer' = "wait"
    BY <1>1, <1>3 DEF RequestCancel, CloserAt
  <2>2. SameOps
    BY <2>1, SameOpsIs DEF IInv
  <2> QED BY <1>1, <1>2, <2>1, <2>2, NothingMoves
<1>4. ASSUME UNCHANGED op, closer' = "cancel" => doomed' \in Ops PROVE IInv'
  <2>1. SameOps
    BY <1>4, SameOpsIs DEF IInv
  <2> QED BY <1>1, <1>2, <1>4, <2>1, NothingMoves
<1>5. CASE RequestClose
  BY <1>1, <1>4, <1>5 DEF RequestClose
<1>6. CASE ShutdownFails
  BY <1>4, <1>6 DEF ShutdownFails
<1>7. CASE Shutdown
  <2>1. UNCHANGED op
    BY <1>7 DEF Shutdown
  <2>2. closer' = "cancel" => doomed' \in Ops
    BY <1>1, <1>7 DEF Shutdown, LockContext, LookForActive, LookForStart
  <2> QED BY <1>4, <2>1, <2>2
<1>8. CASE WaitCompleted \/ CloseBackend \/ CloseWindow
  <2>1. UNCHANGED op
    BY <1>8 DEF WaitCompleted, CloseBackend, CloseWindow
  <2>2. closer' = "cancel" => doomed' \in Ops
    BY <1>1, <1>8 DEF WaitCompleted, CloseBackend, CloseWindow, CloserAt
  <2> QED BY <1>4, <2>1, <2>2
<1> QED BY <1>3, <1>5, <1>6, <1>7, <1>8 DEF CloserStep

-----------------------------------------------------------------------------
(* The renderer.                                                            *)

\* What the renderer leaves alone in the shell.
Shell == UNCHANGED <<tree, context, selection, active, installCompleted, op, closer, doomed>>

LEMMA ShellIs ==
  ASSUME Typed, UNCHANGED backend
  PROVE  Shell /\ SameOps /\ cmd \in [Commands -> Cmds]
BY SameOpsIs DEF backend, running, store, closing, Shell, Typed, CommandTypes

\* With nothing under way the renderer may go to another view.
LEMMA RestingStays ==
  ASSUME Resting, SameOps, Shell, UNCHANGED events, ~opPending',
         \A s \in Starts : cmd'[s].pc \in {"idle", cmd[s].pc}
  PROVE  Resting'
<1>1. \A p \in Ops : (Running(p)' <=> Running(p)) /\ (Live(p)' <=> Live(p))
  BY DEF SameOps, Running, Live
<1>2. Quiet'
  BY <1>1 DEF Resting, Quiet
<1> QED BY <1>1, <1>2 DEF Resting, SameOps, Shell

\* A command is called or its answer is heard.
LEMMA CallTypes ==
  ASSUME CommandTypes, NEW c \in Commands, Others(c), cmd' \in [Commands -> Cmds],
         cmd'[c].pc \in {"idle", "context"}
  PROVE  CommandTypes'
<1>1. cmd'[c].pc \in Places(c)
  BY DEF Places, Early, Gated, Starts, Commands
<1>2. \A d \in Commands \ {c} : cmd'[d] = cmd[d]
  BY DEF Others
<1>3. "cancel" \in Commands /\ (c = "cancel" => cmd'[c].pc # "send")
  BY DEF Commands
<1> QED BY <1>1, <1>2, <1>3 DEF CommandTypes

LEMMA BootstrapAnswersKeeps == ASSUME IInv, BootstrapAnswers PROVE IInv'
<1> DEFINE c == "bootstrap"
<1>1. /\ Shell /\ SameOps /\ cmd \in [Commands -> Cmds] /\ c \in Commands \ Starts
      /\ UNCHANGED <<events, opId, opPending>>
  BY ShellIs DEF BootstrapAnswers, IInv, Commands, Starts
<1>2. cmd' \in [Commands -> Cmds] /\ Others(c) /\ cmd'[c].pc = "idle"
  BY <1>1, HearsIs DEF BootstrapAnswers
<1>3. \A d \in Commands \ {c} : cmd'[d] = cmd[d]
  BY <1>2 DEF Others
<1>4. cmd[c].pc \in {"ok", "error", "nothing"} /\ view = "booting" /\ ~opPending
  BY DEF BootstrapAnswers, Answered, IInv, Arranged, Idles, InProgress
<1>5. Resting'
  <2>1. \A s \in Starts : cmd'[s] = cmd[s]
    BY <1>1, <1>3, KindsAre
  <2> QED BY <1>1, <1>4, <2>1, RestingIs, RestingStays DEF IInv
<1>6. CommandTypes'
  BY <1>1, <1>2, CallTypes DEF IInv, Typed
<1>7. /\ Judged => Judged'
  BY <1>1, JudgedStays DEF Shell
<1>8. \A d \in Commands \ {c} : Idles(d)' <=> Idles(d)
  BY <1>3 DEF Idles
<1>9. CASE Succeeded(c)
  <2>1. /\ Judged /\ cmd[c].review = Review(selection) /\ context = "ready"
    BY <1>9 DEF IInv, Reviewing, Succeeded, Arranged
  <2>2. /\ review' = Review(selection) /\ accepted' = FALSE /\ view' = "review"
    BY <1>9, <2>1 DEF BootstrapAnswers
  <2>3. Review(selection) \in Reviews
    BY <2>1 DEF Judged, Selections, Review, Reviews
  <2>4. Typed'
    BY <1>1, <1>6, <2>2, <2>3 DEF IInv, Typed, Shell, Views
  <2>5. Arranged'
    BY <1>1, <1>2, <1>4, <1>8, <2>1, <2>2, KindsAre DEF IInv, Arranged, Shell, InProgress, Idles
  <2>6. RunsAlone' /\ SuccessIsReported'
    BY <1>1, <2>1 DEF IInv, RunsAlone, SuccessIsReported, SameOps, Running, ActionMatches, Judged, NoneRuns
  <2>7. Reviewing'
    <3>1. cmd'["choose"].pc # "ok"
      BY <1>3, <1>4, KindsAre DEF IInv, Arranged, Idles
    <3> QED BY <1>1, <1>2, <1>7, <2>1, <2>2, <2>3, <3>1 DEF Reviewing, Shell
  <2>8. ViewTellsTruth'
    BY <2>2 DEF ViewTellsTruth
  <2> QED BY <1>5, <2>4, <2>5, <2>6, <2>7, <2>8 DEF IInv, Flow
<1>10. CASE ~Succeeded(c)
  <2>1. view' = "error" /\ UNCHANGED <<review, accepted>>
    BY <1>10 DEF BootstrapAnswers, ShowsError
  <2>2. Typed'
    BY <1>1, <1>6, <2>1 DEF IInv, Typed, Shell, Views
  <2>3. Arranged'
    BY <1>1, <1>2, <1>4, <1>8, <2>1, KindsAre DEF IInv, Arranged, Shell, InProgress, Idles
  <2>4. RunsAlone' /\ SuccessIsReported'
    BY <1>1, <2>1, RunsStays DEF IInv, Shell
  <2>5. Reviewing'
    BY <1>2, <2>1 DEF IInv, Reviewing
  <2>6. ViewTellsTruth'
    BY <2>1 DEF ViewTellsTruth
  <2> QED BY <1>5, <2>2, <2>3, <2>4, <2>5, <2>6 DEF IInv, Flow
<1> QED BY <1>9, <1>10

LEMMA RetryKeeps == ASSUME IInv, Retry PROVE IInv'
<1> DEFINE c == "bootstrap"
<1>1. /\ Shell /\ SameOps /\ cmd \in [Commands -> Cmds] /\ c \in Commands \ Starts
      /\ UNCHANGED <<events, review, opId, opPending>>
      /\ view' = "booting" /\ accepted' = (accepted /\ view # "error") /\ accepted \in BOOLEAN
  BY ShellIs DEF Retry, IInv, Typed, Commands, Starts
<1>2. cmd' \in [Commands -> Cmds] /\ Others(c) /\ cmd'[c].pc = "context"
  BY <1>1, CallsIs DEF Retry
<1>3. \A d \in Commands \ {c} : cmd'[d] = cmd[d]
  BY <1>2 DEF Others
<1>4. view \in {"cancelled", "error"} /\ ~opPending
  BY DEF Retry, IInv, Arranged, InProgress
<1>5. Resting'
  <2>1. \A s \in Starts : cmd'[s] = cmd[s]
    BY <1>1, <1>3, KindsAre
  <2> QED BY <1>1, <1>4, <2>1, RestingIs, RestingStays DEF IInv
<1>6. Typed'
  <2>1. CommandTypes'
    BY <1>1, <1>2, CallTypes DEF IInv, Typed
  <2> QED BY <1>1, <2>1 DEF IInv, Typed, Shell, Views
<1>7. \A d \in Commands \ {c} : Idles(d)' <=> Idles(d)
  BY <1>3 DEF Idles
<1>8. Arranged'
  BY <1>1, <1>2, <1>4, <1>7, KindsAre DEF IInv, Arranged, Shell, InProgress, Idles
<1>9. RunsAlone' /\ SuccessIsReported'
  BY <1>1, RunsStays DEF IInv, Shell
<1>10. Reviewing'
  BY <1>1, <1>2 DEF IInv, Reviewing
<1>11. ViewTellsTruth'
  BY <1>1 DEF ViewTellsTruth
<1> QED BY <1>5, <1>6, <1>8, <1>9, <1>10, <1>11 DEF IInv, Flow

LEMMA AcceptMigrationKeeps == ASSUME IInv, AcceptMigration PROVE IInv'
<1>1. /\ Shell /\ SameOps /\ cmd \in [Commands -> Cmds]
      /\ UNCHANGED <<cmd, events, view, review, opId, opPending>>
      /\ view = "review" /\ review.class = "legacy" /\ accepted' \in BOOLEAN
  BY ShellIs DEF AcceptMigration, IInv, Typed
<1>2. ~opPending /\ review # None
  BY <1>1, NoneAssumption DEF IInv, Arranged, InProgress, Reviewing, Reviews
<1>3. Resting'
  BY <1>1, <1>2, RestingIs, RestingStays DEF IInv
<1>4. Typed'
  BY <1>1 DEF IInv, Typed, CommandTypes, Shell
<1>5. Arranged'
  BY <1>1 DEF IInv, Arranged, Idles, Shell
<1>6. RunsAlone' /\ SuccessIsReported'
  BY <1>1, RunsStays DEF IInv, Shell
<1>7. Judged => Judged'
  BY <1>1, JudgedStays DEF Shell
<1>8. Reviewing'
  BY <1>1, <1>2, <1>7 DEF IInv, Reviewing, Shell
<1>9. ViewTellsTruth'
  BY <1>1 DEF IInv, ViewTellsTruth, Shell
<1> QED BY <1>3, <1>4, <1>5, <1>6, <1>8, <1>9 DEF IInv, Flow

LEMMA SelectDestinationKeeps == ASSUME IInv, SelectDestination PROVE IInv'
<1> DEFINE c == "choose"
<1>1. /\ Shell /\ SameOps /\ cmd \in [Commands -> Cmds] /\ c \in Commands \ Starts
      /\ UNCHANGED <<events, view, review, accepted, opId, opPending>> /\ view = "review"
      /\ cmd[c].pc = "idle"
  BY ShellIs DEF SelectDestination, IInv, Commands, Starts, ui, Idles
<1>2. cmd' \in [Commands -> Cmds] /\ Others(c) /\ cmd'[c].pc = "context"
  BY <1>1, CallsIs DEF SelectDestination
<1>3. \A d \in Commands \ {c} : cmd'[d] = cmd[d]
  BY <1>2 DEF Others
<1>4. ~opPending /\ Judged /\ Judged' /\ context = "ready"
  BY <1>1, JudgedStays DEF IInv, Arranged, InProgress, Reviewing, Shell, Judged
<1>5. Resting'
  <2>1. \A s \in Starts : cmd'[s] = cmd[s]
    BY <1>1, <1>3, KindsAre
  <2> QED BY <1>1, <1>4, <2>1, RestingIs, RestingStays DEF IInv
<1>6. Typed'
  <2>1. CommandTypes'
    BY <1>1, <1>2, CallTypes DEF IInv, Typed
  <2> QED BY <1>1, <2>1 DEF IInv, Typed, Shell
<1>7. \A d \in Commands \ {c} : Idles(d)' <=> Idles(d)
  BY <1>3 DEF Idles
<1>8. cmd'["bootstrap"] = cmd["bootstrap"]
  BY <1>3 DEF Commands
<1>9. Arranged'
  BY <1>1, <1>2, <1>4, <1>7, <1>8, KindsAre DEF IInv, Arranged, Shell, Idles
<1>10. RunsAlone' /\ SuccessIsReported'
  BY <1>1, RunsStays DEF IInv, Shell
<1>11. Reviewing'
  BY <1>1, <1>2, <1>4, <1>8 DEF IInv, Reviewing, Shell
<1>12. ViewTellsTruth'
  BY <1>1 DEF ViewTellsTruth
<1> QED BY <1>5, <1>6, <1>9, <1>10, <1>11, <1>12 DEF IInv, Flow

LEMMA DestinationAnswersKeeps == ASSUME IInv, DestinationAnswers PROVE IInv'
<1> DEFINE c == "choose"
<1>1. /\ Shell /\ SameOps /\ cmd \in [Commands -> Cmds] /\ c \in Commands \ Starts
      /\ UNCHANGED <<events, view, opId, opPending>>
      /\ cmd[c].pc # "idle"
  BY ShellIs DEF DestinationAnswers, IInv, Commands, Starts, Answered
<1>2. cmd' \in [Commands -> Cmds] /\ Others(c) /\ cmd'[c].pc = "idle"
  BY <1>1, HearsIs DEF DestinationAnswers
<1>3. \A d \in Commands \ {c} : cmd'[d] = cmd[d]
  BY <1>2 DEF Others
<1>4. ~opPending /\ Judged /\ Judged' /\ context = "ready" /\ view = "review"
  BY <1>1, JudgedStays DEF IInv, Arranged, InProgress, Reviewing, Shell, Judged, Idles
<1>5. Review(selection) \in Reviews
  BY <1>4 DEF Judged, Selections, Review, Reviews
<1>6. /\ review' = Review(selection) /\ accepted' \in BOOLEAN
      /\ accepted' => accepted /\ review' = review
  BY <1>4 DEF DestinationAnswers, Succeeded, IInv, Reviewing, Typed
<1>7. Resting'
  <2>1. \A s \in Starts : cmd'[s] = cmd[s]
    BY <1>1, <1>3, KindsAre
  <2> QED BY <1>1, <1>4, <2>1, RestingIs, RestingStays DEF IInv
<1>8. Typed'
  <2>1. CommandTypes'
    BY <1>1, <1>2, CallTypes DEF IInv, Typed
  <2> QED BY <1>1, <1>5, <1>6, <2>1 DEF IInv, Typed, Shell
<1>9. \A d \in Commands \ {c} : Idles(d)' <=> Idles(d)
  BY <1>3 DEF Idles
<1>10. cmd'["bootstrap"] = cmd["bootstrap"]
  BY <1>3 DEF Commands
<1>11. Arranged'
  BY <1>1, <1>2, <1>4, <1>9, <1>10, KindsAre DEF IInv, Arranged, Shell, Idles
<1>12. RunsAlone' /\ SuccessIsReported'
  BY <1>1, RunsStays DEF IInv, Shell
<1>13. Reviewing'
  BY <1>1, <1>2, <1>4, <1>5, <1>6, <1>10 DEF IInv, Reviewing, Shell
<1>14. ViewTellsTruth'
  BY <1>1, <1>4 DEF ViewTellsTruth
<1> QED BY <1>7, <1>8, <1>11, <1>12, <1>13, <1>14 DEF IInv, Flow

LEMMA StartKeeps == ASSUME IInv, NEW c \in Starts, Start(c) PROVE IInv'
<1>1. /\ Shell /\ SameOps /\ cmd \in [Commands -> Cmds] /\ c \in Commands
      /\ UNCHANGED <<events, review, accepted>> /\ accepted \in BOOLEAN
      /\ view = "review" /\ view' = c /\ opId' = None /\ opPending' = TRUE
      /\ Idles("choose") /\ \A s \in Starts : Idles(s)
  BY ShellIs, KindsAre DEF Start, IInv, Typed
<1>2. PICK consent \in BOOLEAN : Calls(c, consent)
  <2>1. (c = "install" /\ review.class = "legacy" /\ accepted) \in BOOLEAN
    OBVIOUS
  <2> QED BY <2>1 DEF Start
<1>3. cmd' \in [Commands -> Cmds] /\ Others(c) /\ cmd'[c].pc = "context"
  BY <1>1, <1>2, CallsIs
<1>4. \A d \in Commands \ {c} : cmd'[d] = cmd[d]
  BY <1>3 DEF Others
<1>5. ~opPending /\ Judged /\ Judged' /\ context = "ready"
  BY <1>1, JudgedStays DEF IInv, Arranged, InProgress, Reviewing, Shell, Judged
<1>6. Resting
  BY <1>5, RestingIs DEF IInv
<1>7. \A d \in Commands \ {c} : Idles(d)' <=> Idles(d)
  BY <1>4 DEF Idles
<1>8. Typed'
  <2>1. CommandTypes'
    BY <1>1, <1>3, CallTypes DEF IInv, Typed
  <2> QED BY <1>1, <2>1, KindsAre DEF IInv, Typed, Shell, Views, Starts
<1>9. {"bootstrap", "choose", "launch", "link"} \subseteq Commands \ {c}
  BY DEF Commands, Starts
<1>10. cmd'["bootstrap"] = cmd["bootstrap"]
  BY <1>4, <1>9
<1>11. Arranged'
  BY <1>1, <1>5, <1>7, <1>9, <1>10, KindsAre DEF IInv, Arranged, Shell, Starts, Idles
<1>12. NoneRuns'
  BY <1>5 DEF Judged
<1>13. RunsAlone' /\ SuccessIsReported'
  <2>1. RunsAlone'
    BY <1>12 DEF RunsAlone, NoneRuns
  <2> QED BY <1>1, <2>1 DEF IInv, SuccessIsReported, SameOps, ActionMatches
<1>14. Reviewing'
  BY <1>1, <1>5, <1>10 DEF IInv, Reviewing, Shell, Starts
<1>15. Asking'
  <2>1. Quiet'
    BY <1>1, <1>6 DEF Resting, Quiet, SameOps, Live
  <2>2. \A d \in Starts : d # c => Idles(d)'
    BY <1>1, <1>7, KindsAre
  <2> QED BY <1>1, <1>3, <1>5, <1>6, <1>12, <2>1, <2>2 DEF Asking, Resting, Shell, Early, NoneRuns
<1>16. ViewTellsTruth'
  BY <1>1 DEF ViewTellsTruth, Starts
<1> QED BY <1>8, <1>11, <1>13, <1>14, <1>15, <1>16 DEF IInv, Flow

LEMMA StartAnswersKeeps == ASSUME IInv, NEW c \in Starts, StartAnswers(c) PROVE IInv'
<1>1. /\ Shell /\ SameOps /\ cmd \in [Commands -> Cmds] /\ c \in Commands /\ UNCHANGED events
      /\ cmd[c].pc \in {"ok", "error"}
  <2>1. cmd[c].pc \in {"ok", "error", "nothing"} /\ cmd[c].pc \in Places(c) /\ c \in Commands
    BY KindsAre DEF StartAnswers, Answered, IInv, Typed, CommandTypes
  <2>2. cmd[c].pc # "nothing"
    BY <2>1 DEF Places, Starts, Early, Late, Gated
  <2> QED BY <2>1, <2>2, ShellIs DEF StartAnswers, IInv
<1>2. \A d \in {"bootstrap", "choose", "launch", "link"} : d \in Commands \ {c, "cancel"}
  BY DEF Commands, Starts
<1>3. /\ Judged => Judged'
      /\ view' \in {view, "error"} => RunsAlone' /\ SuccessIsReported'
  BY <1>1, JudgedStays, RunsStays DEF Shell, IInv
<1>4. CASE ~opPending
  <2>1. Hears(c) /\ UNCHANGED ui
    BY <1>4 DEF StartAnswers
  <2>2. cmd' \in [Commands -> Cmds] /\ Others(c) /\ cmd'[c].pc = "idle" /\ Window
    BY <1>1, <2>1, HearsIs, WindowIs
  <2>3. \A d \in Commands \ {c} : cmd'[d] = cmd[d] /\ (Idles(d)' <=> Idles(d))
    BY <2>2 DEF Others, Idles
  <2>4. Resting'
    BY <1>1, <1>4, <2>2, <2>3, KindsAre, RestingIs, RestingStays DEF IInv, Window
  <2>5. Typed'
    <3>1. CommandTypes'
      BY <1>1, <2>2, CallTypes DEF IInv, Typed
    <3> QED BY <1>1, <2>2, <3>1 DEF IInv, Typed, Shell, Window
  <2>6. Arranged'
    BY <1>1, <1>2, <2>2, <2>3 DEF IInv, Arranged, Shell, Window, Idles
  <2>7. Reviewing' /\ ViewTellsTruth'
    BY <1>1, <1>2, <1>3, <2>2, <2>3 DEF IInv, Reviewing, ViewTellsTruth, Shell, Window
  <2> QED BY <1>1, <1>3, <2>2, <2>4, <2>5, <2>6, <2>7 DEF IInv, Flow, Window
<1>5. CASE opPending /\ cmd[c].pc = "ok"
  <2>1. /\ opId' = cmd[c].op
        /\ cmd' = [cmd EXCEPT ![c] = IdleCommand,
                     !["cancel"] = IF cancelPending THEN Issued("cancel", FALSE) ELSE cmd["cancel"]]
        /\ UNCHANGED <<view, retryable, review, accepted, opPending, cancelPending>>
    BY <1>5 DEF StartAnswers, Succeeded, Starts
  <2>2. "cancel" \in Commands /\ c # "cancel"
    BY DEF Commands, Starts
  <2>3. /\ cmd' \in [Commands -> Cmds] /\ cmd'[c].pc = "idle"
        /\ cmd'["cancel"] = cmd["cancel"] \/ cmd'["cancel"].pc = "context"
        /\ \A d \in Commands \ {c, "cancel"} : cmd'[d] = cmd[d]
    BY <1>1, <2>1, <2>2, FreshCommands
  <2>4. view \in Starts
    BY <1>5, BusyIs
  <2>5. PICK o \in Ops : (Followed(o) \/ Told(o)) /\ c = view /\ cmd[c].op = o
    BY <1>5, <2>4 DEF IInv, Flow, Resting, Asking, Begun, Followed, Told, Named, Early, Late, Gated, Idles
  <2>6. Named(o)
    BY <2>5 DEF Followed, Told
  <2>7. Named(o)'
    <3>1. \A d \in Starts : d # c => cmd'[d] = cmd[d]
      BY <2>2, <2>3 DEF Starts, Commands
    <3> QED BY <1>1, <2>1, <2>3, <2>4, <2>5, <2>6, <3>1 DEF Named, Idles
  <2>8. Flow'
    <3>1. \A p \in Ops : (Running(p)' <=> Running(p)) /\ (Live(p)' <=> Live(p)) /\ (Achieved(p) => Achieved(p)')
      BY <1>1 DEF SameOps, Running, Live, Achieved, Shell
    <3>2. CASE Followed(o)
      <4>1. Followed(o)'
        BY <1>1, <2>1, <2>7, <3>1, <3>2 DEF Followed, SameOps, Shell
      <4> QED BY <4>1 DEF Flow
    <3>3. CASE Told(o)
      <4>1. Told(o)'
        BY <1>1, <2>1, <2>7, <3>1, <3>3 DEF Told, NoneRuns, True, Shell
      <4> QED BY <4>1 DEF Flow
    <3> QED BY <2>5, <3>2, <3>3
  <2>9. Typed'
    <3>1. "context" \in Places("cancel") /\ "idle" \in Places(c)
      BY DEF Places, Gated, Starts
    <3>2. CommandTypes'
      BY <1>1, <2>2, <2>3, <3>1 DEF IInv, Typed, CommandTypes
    <3> QED BY <1>1, <2>1, <2>5, <3>2 DEF IInv, Typed, Shell
  <2>10. \A d \in {"bootstrap", "choose", "launch", "link"} : cmd'[d] = cmd[d] /\ (Idles(d)' <=> Idles(d))
    BY <1>2, <2>3 DEF Idles
  <2>11. context = "ready"
    BY <2>4 DEF IInv, Arranged, Typed, Starts
  <2>12. Arranged'
    BY <1>1, <2>1, <2>10, <2>11 DEF IInv, Arranged, Shell
  <2>13. Reviewing' /\ ViewTellsTruth'
    BY <1>1, <1>3, <2>1, <2>4, <2>10 DEF IInv, Reviewing, ViewTellsTruth, Shell, Starts
  <2> QED BY <1>1, <1>3, <2>1, <2>8, <2>9, <2>12, <2>13 DEF IInv
<1>6. CASE opPending /\ cmd[c].pc = "error"
  <2>1. Asking /\ c = view
    BY <1>6, StartIs DEF IInv
  <2>2. /\ Hears(c) /\ view' = "error" /\ opPending' = FALSE /\ opId' = None
        /\ accepted' = (accepted /\ c # "install") /\ UNCHANGED review
    BY <1>6 DEF StartAnswers, Succeeded, ShowsError
  <2>3. cmd' \in [Commands -> Cmds] /\ Others(c) /\ cmd'[c].pc = "idle"
    BY <1>1, <2>2, HearsIs
  <2>4. \A d \in Commands \ {c} : cmd'[d] = cmd[d] /\ (Idles(d)' <=> Idles(d))
    BY <2>3 DEF Others, Idles
  <2>5. Resting'
    <3>1. \A p \in Ops : (Running(p)' <=> Running(p)) /\ (Live(p)' <=> Live(p))
      BY <1>1 DEF SameOps, Running, Live
    <3>2. Quiet'
      BY <1>1, <2>1, <3>1 DEF Asking, Quiet
    <3>3. \A s \in Starts : cmd'[s].pc = "idle"
      BY <2>1, <2>3, <2>4, KindsAre DEF Asking, Idles
    <3> QED BY <1>1, <2>1, <2>2, <3>1, <3>2, <3>3 DEF Resting, Asking, Shell, SameOps
  <2>6. Typed'
    <3>1. CommandTypes'
      BY <1>1, <2>3, CallTypes DEF IInv, Typed
    <3> QED BY <1>1, <2>2, <3>1 DEF IInv, Typed, Shell, Views
  <2>7. view \in Starts
    BY <1>6, BusyIs
  <2>8. Arranged'
    BY <1>1, <1>2, <2>2, <2>3, <2>4, <2>7 DEF IInv, Arranged, Shell, Idles, InProgress, Starts
  <2>9. Reviewing' /\ ViewTellsTruth'
    BY <1>1, <1>2, <2>2, <2>4, <2>7 DEF IInv, Reviewing, ViewTellsTruth, Shell, Arranged, Idles, Starts
  <2> QED BY <1>1, <1>3, <2>2, <2>5, <2>6, <2>8, <2>9 DEF IInv, Flow
<1> QED BY <1>1, <1>4, <1>5, <1>6 DEF IInv, Typed

\* A command that the flow does not ask about, called or heard.
LEMMA CallMoves ==
  ASSUME IInv, NEW c \in {"cancel", "launch", "link"}, Others(c), cmd' \in [Commands -> Cmds],
         Shell, SameOps, Window, UNCHANGED events,
         cmd'[c].pc = "idle" \/ (cmd'[c].pc = "context" /\ context = "ready"),
         c \in {"launch", "link"} /\ cmd'[c].pc = "context" =>
           view = "complete" /\ Idles("launch") /\ Idles("link")
  PROVE  IInv'
<1>1. c \in Commands \ Starts
  BY DEF Commands, Starts
<1>2. \A d \in Commands \ {c} : cmd'[d] = cmd[d] /\ (Idles(d)' <=> Idles(d))
  BY DEF Others, Idles
<1>3. {"bootstrap", "choose"} \subseteq Commands \ {c}
  BY DEF Commands
<1>4. Judged => Judged'
  BY JudgedStays DEF Shell
<1>5. Typed'
  <2>1. CommandTypes'
    BY <1>1, CallTypes DEF IInv, Typed
  <2> QED BY <2>1 DEF IInv, Typed, Shell, Window
<1>6. "launch" \in Commands /\ "link" \in Commands
  BY DEF Commands
<1>7. Arranged'
  BY <1>1, <1>2, <1>3, <1>6 DEF IInv, Arranged, Shell, Window, Idles
<1>8. RunsAlone' /\ SuccessIsReported'
  BY RunsStays DEF IInv, Shell, Window
<1>9. Reviewing'
  BY <1>2, <1>3, <1>4 DEF IInv, Reviewing, Shell, Window
<1>10. ViewTellsTruth'
  BY DEF IInv, ViewTellsTruth, Shell, Window
<1>11. \A s \in Starts : cmd'[s] = cmd[s]
  BY <1>1, <1>2, KindsAre
<1>12. Flow'
  BY <1>4, <1>11, FlowStays DEF IInv, Shell, Window
<1> QED BY <1>5, <1>7, <1>8, <1>9, <1>10, <1>12 DEF IInv

LEMMA CancellingKeeps == ASSUME IInv, Cancel \/ CancelAnswers PROVE IInv'
<1> DEFINE c == "cancel"
<1>1. /\ Shell /\ SameOps /\ cmd \in [Commands -> Cmds] /\ c \in Commands
      /\ UNCHANGED events /\ Window
  BY ShellIs DEF Cancel, CancelAnswers, IInv, Commands, Window
<1>2. CASE Cancel /\ opId = None
  <2>1. UNCHANGED cmd /\ (closer' = "cancel" => doomed' \in Ops)
    BY <1>1, <1>2 DEF Cancel, IInv, Typed, Shell
  <2> QED BY <1>1, <2>1, NothingMoves DEF Shell
<1>3. CASE Cancel /\ opId # None
  <2>1. view \in InProgress /\ Calls(c, FALSE)
    BY <1>3 DEF Cancel
  <2>2. context = "ready"
    BY <2>1 DEF IInv, Arranged, Typed, InProgress
  <2>3. cmd' \in [Commands -> Cmds] /\ Others(c) /\ cmd'[c].pc = "context"
    BY <1>1, <2>1, CallsIs
  <2> QED BY <1>1, <2>2, <2>3, CallMoves
<1>4. CASE CancelAnswers
  <2>1. cmd' \in [Commands -> Cmds] /\ Others(c) /\ cmd'[c].pc = "idle"
    BY <1>1, <1>4, HearsIs DEF CancelAnswers
  <2> QED BY <1>1, <2>1, CallMoves
<1> QED BY <1>2, <1>3, <1>4

\* Another view that only the flow of an operation asks about.
LEMMA ViewMoves ==
  ASSUME IInv, UNCHANGED <<cmd, review, accepted, opId, opPending, events>>, Shell, SameOps,
         ~opPending, NoneRuns \/ view' = "error", view' \in Views \ {"booting", "review", "install", "uninstall"},
         \A c \in {"bootstrap", "choose", "launch", "link"} : Idles(c),
         context = "ready", ViewTellsTruth'
  PROVE  IInv'
<1>1. Typed'
  BY DEF IInv, Typed, CommandTypes, Shell
<1>2. Arranged'
  BY DEF IInv, Arranged, Shell, Idles, InProgress
<1>3. RunsAlone' /\ SuccessIsReported'
  <2>1. CASE NoneRuns
    BY <2>1 DEF IInv, RunsAlone, SuccessIsReported, SameOps, Running, NoneRuns, ActionMatches
  <2>2. CASE view' = "error"
    BY <2>2, RunsStays DEF IInv, Shell
  <2> QED BY <2>1, <2>2
<1>4. Reviewing'
  BY DEF IInv, Reviewing, Idles
<1>5. Resting'
  BY RestingIs, RestingStays DEF IInv
<1> QED BY <1>1, <1>2, <1>3, <1>4, <1>5 DEF IInv, Flow

\* Nothing is on its way in a view that reports an installation.
LEMMA DoneIs ==
  ASSUME IInv, view \in {"finished", "complete"}
  PROVE  /\ NoneRuns /\ ~opPending /\ context = "ready"
         /\ Idles("bootstrap") /\ Idles("choose") /\ (Idles("launch") \/ Idles("link"))
         /\ view = "finished" => Idles("launch") /\ Idles("link")
         /\ tree = "current" /\ installCompleted
BY DEF IInv, Arranged, RunsAlone, ViewTellsTruth, NoneRuns, InProgress, Typed

LEMMA ContinueKeeps == ASSUME IInv, Continue PROVE IInv'
<1>1. /\ Shell /\ SameOps /\ UNCHANGED <<cmd, review, accepted, opId, opPending, events>>
      /\ view = "finished" /\ view' = "complete"
  BY ShellIs DEF Continue, IInv
<1>2. /\ NoneRuns /\ ~opPending /\ context = "ready" /\ Idles("bootstrap") /\ Idles("choose")
      /\ Idles("launch") /\ Idles("link") /\ tree = "current" /\ installCompleted
  BY <1>1, DoneIs
<1>3. ViewTellsTruth'
  BY <1>1, <1>2 DEF ViewTellsTruth, Shell
<1>4. view' \in Views \ {"booting", "review", "install", "uninstall"}
  BY <1>1 DEF Views
<1> QED BY <1>1, <1>2, <1>3, <1>4, ViewMoves

LEMMA FinallyKeeps == ASSUME IInv, NEW c \in {"launch", "link"}, Finally(c) PROVE IInv'
<1>1. /\ Shell /\ SameOps /\ cmd \in [Commands -> Cmds] /\ c \in Commands /\ UNCHANGED events
      /\ Window /\ view = "complete" /\ Idles("launch") /\ Idles("link")
  BY ShellIs, WindowIs DEF Finally, IInv, Commands
<1>2. cmd' \in [Commands -> Cmds] /\ Others(c) /\ cmd'[c].pc = "context"
  BY <1>1, CallsIs DEF Finally
<1>3. context = "ready"
  BY <1>1, DoneIs
<1> QED BY <1>1, <1>2, <1>3, CallMoves

LEMMA FinallyAnswersKeeps == ASSUME IInv, NEW c \in {"launch", "link"}, FinallyAnswers(c) PROVE IInv'
<1>1. /\ Shell /\ SameOps /\ cmd \in [Commands -> Cmds] /\ c \in Commands
      /\ UNCHANGED <<events, review, accepted, opId, opPending>> /\ ~Idles(c)
  BY ShellIs DEF FinallyAnswers, IInv, Commands, Answered, Idles
<1>2. cmd' \in [Commands -> Cmds] /\ Others(c) /\ cmd'[c].pc = "idle"
  BY <1>1, HearsIs DEF FinallyAnswers
<1>3. CASE UNCHANGED view
  <2>1. Window
    BY <1>1, <1>3 DEF Window
  <2> QED BY <1>1, <1>2, <2>1, CallMoves
<1>4. CASE view' = "error"
  <2>1. view = "complete"
    BY <1>1 DEF IInv, Arranged
  <2>2. /\ NoneRuns /\ ~opPending /\ context = "ready" /\ Idles("bootstrap") /\ Idles("choose")
        /\ Idles("launch") \/ Idles("link")
    BY <2>1, DoneIs
  <2>3. \A d \in Commands \ {c} : cmd'[d] = cmd[d] /\ (Idles(d)' <=> Idles(d))
    BY <1>2 DEF Others, Idles
  <2>4. \A d \in {"bootstrap", "choose", "launch", "link"} : Idles(d)'
    BY <1>1, <1>2, <2>2, <2>3 DEF Commands, Idles
  <2>5. Typed'
    <3>1. CommandTypes'
      BY <1>1, <1>2, CallTypes DEF IInv, Typed
    <3> QED BY <1>1, <1>4, <3>1 DEF IInv, Typed, Shell, Views
  <2>6. Arranged'
    BY <1>1, <1>4, <2>2, <2>4 DEF IInv, Arranged, Shell, Idles, InProgress
  <2>7. RunsAlone' /\ SuccessIsReported'
    BY <1>1, <1>4, RunsStays DEF IInv, Shell
  <2>8. Reviewing'
    BY <1>1, <1>4, <2>4 DEF IInv, Reviewing, Idles
  <2>9. Resting'
    <3>1. \A s \in Starts : cmd'[s] = cmd[s]
      BY <1>1, <2>3, KindsAre DEF Starts
    <3> QED BY <1>1, <2>2, <3>1, RestingIs, RestingStays DEF IInv
  <2>10. ViewTellsTruth'
    BY <1>4 DEF ViewTellsTruth
  <2> QED BY <2>5, <2>6, <2>7, <2>8, <2>9, <2>10 DEF IInv, Flow
<1> QED BY <1>3, <1>4 DEF FinallyAnswers, ShowsError

\* Events on their way.
LEMMA TailIs ==
  ASSUME NEW S, NEW s \in Seq(S), s # <<>>
  PROVE  /\ Head(s) = s[1] /\ Head(s) \in S /\ 1 \in DOMAIN s /\ Tail(s) \in Seq(S)
         /\ Len(Tail(s)) = Len(s) - 1 /\ Len(s) \in Nat /\ Len(s) >= 1
         /\ DOMAIN Tail(s) = 1..(Len(s) - 1) /\ DOMAIN s = 1..Len(s)
         /\ \A i \in 1..(Len(s) - 1) : Tail(s)[i] = s[i + 1]
         /\ (Tail(s) = <<>>) <=> (Len(s) = 1)
<1>1. Len(s) \in Nat /\ DOMAIN s = 1..Len(s) /\ Len(s) # 0
  BY EmptySeq, LenProperties
<1>2. Head(s) = s[1] /\ s[1] \in S /\ 1 \in DOMAIN s /\ Len(s) >= 1
  BY <1>1, ElementOfSeq
<1>3. /\ Tail(s) \in Seq(S) /\ Len(Tail(s)) = Len(s) - 1
      /\ \A i \in 1..Len(Tail(s)) : Tail(s)[i] = s[i + 1]
  BY HeadTailProperties
<1>4. DOMAIN Tail(s) = 1..(Len(s) - 1) /\ ((Tail(s) = <<>>) <=> (Len(s) = 1))
  <2> DEFINE t == Tail(s)
  <2>1. t \in Seq(S) /\ Len(t) = Len(s) - 1
    BY <1>3
  <2> HIDE DEF t
  <2>2. DOMAIN t = 1..Len(t) /\ (t = <<>> <=> Len(t) = 0)
    BY <2>1, EmptySeq, LenProperties
  <2>3. DOMAIN t = 1..(Len(s) - 1) /\ (t = <<>> <=> Len(s) = 1)
    BY <1>1, <2>1, <2>2
  <2> QED BY <2>3 DEF t
<1> QED BY <1>1, <1>2, <1>3, <1>4

\* The operation ends in the window.
LEMMA EndComes ==
  ASSUME IInv, NEW o \in Ops, Told(o), UNCHANGED <<backend, cmd>>, Len(events) = 1,
         NEW e \in Events, e = events[1], events' = <<>>, Shows(e),
         review' = CASE e.kind \in {"complete", "error"} /\ e.review # None -> e.review
                     [] e.kind = "uninstalled" /\ review # None -> [review EXCEPT !.removable = FALSE]
                     [] OTHER -> review
  PROVE  IInv'
<1>1. /\ Shell /\ SameOps /\ accepted \in BOOLEAN /\ review \in Reviews \cup {None}
      /\ e.kind \in {"complete", "uninstalled", "error"} /\ e.review \in Reviews \cup {None}
      /\ True(e)
  BY ShellIs DEF IInv, Typed, Told, Kinds, Events
<1>2. opPending /\ Named(o) /\ NoneRuns /\ active = None /\ \A p \in Ops : ~Live(p)
  BY DEF Told, Named
<1>3. view \in Starts /\ cmd["bootstrap"].pc = "idle" /\ cmd["choose"].pc = "idle"
  BY <1>2, BusyIs
<1>4. /\ opPending' = FALSE /\ opId' = None
      /\ view' = CASE e.kind = "complete" -> "finished" [] e.kind = "uninstalled" -> "uninstalled"
                   [] OTHER -> IF e.code = "cancelled" THEN "cancelled" ELSE "error"
      /\ e.kind = "complete" => accepted' = FALSE
      /\ e.kind = "uninstalled" => UNCHANGED accepted
      /\ e.kind = "error" => accepted' \in BOOLEAN /\
           (accepted' => accepted /\ e.review # None /\ e.review.class = "legacy")
  <2>1. CASE e.kind = "complete"
    BY <1>1, <2>1 DEF Shows, OperationEnds
  <2>2. CASE e.kind = "uninstalled"
    BY <1>1, <2>2 DEF Shows, OperationEnds
  <2>3. CASE e.kind = "error" /\ e.code = "cancelled"
    BY <1>1, <2>3 DEF Shows, OperationEnds
  <2>4. CASE e.kind = "error" /\ e.code # "cancelled"
    <3> DEFINE migration == e.code = "migration_required" /\ e.review # None /\ e.review.class = "legacy"
    <3>1. OperationEnds("error") /\ accepted' = (accepted /\ migration)
      BY <1>1, <2>4 DEF Shows
    <3> QED BY <1>1, <2>4, <3>1 DEF OperationEnds
  <2> QED BY <1>1, <2>1, <2>2, <2>3, <2>4
<1>5. view' \in {"finished", "uninstalled", "cancelled", "error"}
  BY <1>1, <1>4
<1>6. /\ review' \in Reviews \cup {None}
      /\ e.kind = "uninstalled" /\ review # None => review' # None /\ review'.class = review.class
      /\ e.kind = "error" /\ e.review # None => review' = e.review
  <2>1. CASE e.kind = "uninstalled" /\ review # None
    <3>1. [review EXCEPT !.removable = FALSE] \in Reviews /\ [review EXCEPT !.removable = FALSE].class = review.class
      BY <1>1, <2>1 DEF Reviews
    <3>2. None \notin Reviews
      BY NoneAssumption DEF Reviews
    <3> QED BY <2>1, <3>1, <3>2
  <2>2. CASE ~(e.kind = "uninstalled" /\ review # None)
    BY <1>1, <2>2
  <2> QED BY <2>1, <2>2
<1>7. accepted' \in BOOLEAN /\ (accepted' => review' # None /\ review'.class = "legacy")
  <2>1. accepted => review # None /\ review.class = "legacy"
    BY DEF IInv, Reviewing
  <2>2. CASE e.kind = "complete"
    BY <1>4, <2>2
  <2>3. CASE e.kind = "uninstalled"
    BY <1>1, <1>4, <1>6, <2>1, <2>3
  <2>4. CASE e.kind = "error"
    <3>1. accepted' \in BOOLEAN /\ (accepted' => e.review # None /\ e.review.class = "legacy")
      BY <1>4, <2>4
    <3> QED BY <1>6, <2>4, <3>1
  <2> QED BY <1>1, <2>2, <2>3, <2>4
<1>8. Typed'
  <2>1. <<>> \in Seq(Events) /\ cmd' = cmd
    OBVIOUS
  <2> QED BY <1>1, <1>4, <1>5, <1>6, <1>7, <2>1 DEF IInv, Typed, CommandTypes, Shell, Views
<1>9. Arranged'
  BY <1>1, <1>3, <1>4, <1>5 DEF IInv, Arranged, Shell, Idles, InProgress, Starts
<1>10. RunsAlone' /\ SuccessIsReported'
  BY <1>1, <1>2 DEF IInv, RunsAlone, SuccessIsReported, SameOps, Running, NoneRuns, ActionMatches
<1>11. Reviewing'
  BY <1>3, <1>5, <1>7 DEF Reviewing
<1>12. Resting'
  <2>1. \A p \in Ops : ~Running(p)' /\ ~Live(p)'
    BY <1>1, <1>2 DEF SameOps, Running, Live, NoneRuns
  <2>2. \A s \in Starts : cmd[s].pc \in {"idle", "ok"}
    BY <1>2, <1>3 DEF Named, Idles
  <2> QED BY <1>1, <1>2, <1>4, <2>1, <2>2 DEF Resting, Quiet, Shell
<1>13. ViewTellsTruth'
  BY <1>1, <1>4 DEF ViewTellsTruth, True, Shell
<1> QED BY <1>8, <1>9, <1>10, <1>11, <1>12, <1>13 DEF IInv, Flow

LEMMA EventComesKeeps == ASSUME IInv, EventComes PROVE IInv'
<1>1. /\ Shell /\ SameOps /\ UNCHANGED <<backend, cmd>> /\ events \in Seq(Events)
      /\ events # <<>> /\ events' = Tail(events)
  BY ShellIs DEF EventComes, IInv, Typed
<1>2. PICK o \in Ops : Followed(o) \/ Told(o)
  BY <1>1, EventsAre DEF IInv
<1>3. PICK e \in Events : e = Head(events) /\ e = events[1]
  BY <1>1, TailIs
<1>4. /\ Len(events) \in Nat /\ Len(events) >= 1 /\ DOMAIN events = 1..Len(events)
      /\ events' \in Seq(Events) /\ Len(events') = Len(events) - 1
      /\ DOMAIN events' = 1..(Len(events) - 1)
      /\ \A i \in 1..(Len(events) - 1) : events'[i] = events[i + 1]
      /\ (events' = <<>>) <=> (Len(events) = 1)
  BY <1>1, TailIs
<1>5. opPending /\ opId \in {o, None} /\ e.op = o /\ Named(o)
  BY <1>2, <1>3, <1>4 DEF Followed, Told, Named
<1>6. /\ Shows(e)
      /\ review' = CASE e.kind \in {"complete", "error"} /\ e.review # None -> e.review
                     [] e.kind = "uninstalled" /\ review # None -> [review EXCEPT !.removable = FALSE]
                     [] OTHER -> review
  <2>1. Listens(e)
    BY <1>5 DEF Listens
  <2> QED BY <1>3, <2>1 DEF EventComes
<1>7. CASE e.kind = "progress"
  <2>1. opId' = o /\ UNCHANGED <<view, accepted, opPending, review>>
    BY <1>5, <1>6, <1>7 DEF Shows
  <2>2. view \in Starts /\ cmd["bootstrap"].pc = "idle" /\ cmd["choose"].pc = "idle"
    BY <1>5, BusyIs
  <2>3. Named(o)'
    BY <1>1, <1>5, <2>1 DEF Named, Idles
  <2>4. \A p \in Ops : (Running(p)' <=> Running(p)) /\ (Live(p)' <=> Live(p)) /\ (Achieved(p) => Achieved(p)')
    BY <1>1 DEF SameOps, Running, Live, Achieved, Shell
  <2>5. Flow'
    <3>1. CASE Followed(o)
      <4>1. \A i \in DOMAIN events' : events'[i].op = o /\ events'[i].kind = "progress"
        BY <1>4, <3>1 DEF Followed
      <4>2. Followed(o)'
        BY <1>1, <2>1, <2>3, <2>4, <3>1, <4>1 DEF Followed, SameOps, Shell
      <4> QED BY <4>2 DEF Flow
    <3>2. CASE Told(o)
      <4>1. Len(events) # 1
        BY <1>3, <1>7, <3>2 DEF Told
      <4>2. /\ events' # <<>> /\ Len(events') \in DOMAIN events' /\ events'[Len(events')] = events[Len(events)]
        BY <1>4, <4>1
      <4>3. \A i \in DOMAIN events' : /\ events'[i].op = o
                                      /\ i # Len(events') => events'[i].kind = "progress"
        <5>1. ASSUME NEW i \in DOMAIN events'
              PROVE  /\ i + 1 \in DOMAIN events /\ events'[i] = events[i + 1]
                     /\ i # Len(events') => i + 1 # Len(events)
          BY <1>4, <5>1
        <5> QED BY <3>2, <5>1 DEF Told
      <4>4. Told(o)'
        BY <1>1, <2>1, <2>3, <2>4, <3>2, <4>2, <4>3 DEF Told, NoneRuns, True, Shell
      <4> QED BY <4>4 DEF Flow
    <3> QED BY <1>2, <3>1, <3>2
  <2>6. Typed'
    BY <1>1, <1>4, <2>1 DEF IInv, Typed, CommandTypes, Shell
  <2>7. Arranged'
    BY <1>1, <2>1 DEF IInv, Arranged, Shell, Idles
  <2>8. RunsAlone' /\ SuccessIsReported'
    BY <1>1, <2>1, RunsStays DEF IInv, Shell
  <2>9. Reviewing' /\ ViewTellsTruth'
    BY <1>1, <2>1, <2>2 DEF IInv, Reviewing, ViewTellsTruth, Starts
  <2> QED BY <2>5, <2>6, <2>7, <2>8, <2>9 DEF IInv
<1>8. CASE e.kind # "progress"
  <2>1. Told(o) /\ Len(events) = 1
    BY <1>2, <1>3, <1>4, <1>8 DEF Followed, Told
  <2> QED BY <1>1, <1>3, <1>4, <1>6, <2>1, EndComes
<1> QED BY <1>7, <1>8

-----------------------------------------------------------------------------
(* The invariant.                                                           *)

LEMMA Begins == Init => IInv
<1> SUFFICES ASSUME Init PROVE IInv
  OBVIOUS
<1>1. /\ \A c \in Commands : cmd[c].pc = IF c = "bootstrap" THEN "context" ELSE "idle"
      /\ cmd \in [Commands -> Cmds]
  <2>1. \A c \in Commands : (IF c = "bootstrap" THEN Issued(c, FALSE) ELSE IdleCommand) \in Cmds
    BY FreshCommands
  <2> QED BY <2>1, FreshCommands DEF Init
<1>2. "bootstrap" \in Commands /\ "cancel" \in Commands /\ {"choose", "launch", "link"} \subseteq Commands
      /\ "bootstrap" \notin Starts
  BY DEF Commands, Starts
<1>3. NewOp \in Operations /\ NewOp.state = "new" /\ NewOp.thread = "none"
  BY DEF NewOp, Operations, States, Threads
<1>4. op \in [Ops -> Operations] /\ \A o \in Ops : op[o].state = "new" /\ op[o].thread = "none"
  BY <1>3 DEF Init, ShellInit
<1>5. \A o \in Ops : ~Running(o) /\ ~Live(o)
  BY <1>4 DEF Running, Live, Following, Telling
<1>6. CommandTypes
  BY <1>1, <1>2 DEF CommandTypes, Places, Gated
<1>7. Typed
  <2>1. <<>> \in Seq(Events) /\ tree \in Trees
    BY ShellAssumption DEF Init, ShellInit, Trees
  <2> QED BY <1>4, <1>6, <2>1 DEF Init, ShellInit, Typed, Views
<1>8. Arranged
  BY <1>1, <1>2 DEF Init, ShellInit, Arranged, Idles, InProgress
<1>9. RunsAlone /\ SuccessIsReported
  BY <1>4, <1>5 DEF RunsAlone, SuccessIsReported
<1>10. Reviewing /\ ViewTellsTruth
  BY <1>1, <1>2 DEF Init, Reviewing, ViewTellsTruth
<1>11. Resting
  BY <1>1, <1>2, <1>5, KindsAre DEF Resting, Quiet, Init, ShellInit
<1> QED BY <1>7, <1>8, <1>9, <1>10, <1>11 DEF IInv, Flow

LEMMA Stutters == ASSUME IInv, UNCHANGED vars PROVE IInv'
<1>1. /\ SameOps /\ Window
      /\ UNCHANGED <<cmd, tree, context, selection, active, events, installCompleted, closer, doomed>>
  BY SameOpsIs, WindowIs DEF vars, shell, ui, IInv
<1>2. closer' = "cancel" => doomed' \in Ops
  BY <1>1 DEF IInv, Typed
<1> QED BY <1>1, <1>2, NothingMoves

LEMMA StepKeeps == ASSUME IInv, [Next]_vars PROVE IInv'
<1>1. CASE \E c \in Commands : CommandStep(c) /\ UNCHANGED ui
  BY <1>1, CommandStepKeeps
<1>2. CASE \E o \in Ops : (Ends(o) \/ PassEvent(o) \/ CompletionStep(o)) /\ UNCHANGED ui
  BY <1>2, EndsKeeps, PassEventKeeps, CompletionKeeps
<1>3. CASE (RequestClose \/ CloserStep \/ ShutdownFails) /\ UNCHANGED ui
  BY <1>3, ClosingKeeps
<1>4. CASE UserStep
  BY <1>4, RetryKeeps, AcceptMigrationKeeps, SelectDestinationKeeps, CancellingKeeps, ContinueKeeps,
     StartKeeps, FinallyKeeps DEF UserStep
<1>5. CASE AnswerStep
  BY <1>5, BootstrapAnswersKeeps, DestinationAnswersKeeps, CancellingKeeps, StartAnswersKeeps,
     FinallyAnswersKeeps DEF AnswerStep
<1>6. CASE EventComes
  BY <1>6, EventComesKeeps
<1>7. CASE UNCHANGED vars
  BY <1>7, Stutters
<1> QED BY <1>1, <1>2, <1>3, <1>4, <1>5, <1>6, <1>7 DEF Next

(* IInv holds in every state of Setup.                                      *)
THEOREM Invariance == Spec => []IInv
<1>1. IInv /\ [Next]_vars => IInv'
  BY StepKeeps
<1> QED BY Begins, <1>1, PTL DEF Spec

(* The variables of the shell and of the renderer have their types; every   *)
(* command is at a place that its kind of command has.                      *)
THEOREM TypeCorrect == Spec => []Typed
<1>1. IInv => Typed
  BY DEF IInv
<1> QED BY Invariance, <1>1, PTL

(* The views "finished", "complete" and "uninstalled" tell what is installed,*)
(* and the links they offer can be opened: the completion thread sets       *)
(* install_completed before it emits (finish_install), and nothing is       *)
(* started from those views.                                                *)
THEOREM TruthIsShown == Spec => []ViewTellsTruth
<1>1. IInv => ViewTellsTruth
  BY DEF IInv
<1> QED BY Invariance, <1>1, PTL

(* validate_install_result refuses no success: the selection an operation   *)
(* was started with is what was installed when it was started, although it  *)
(* was prepared by another thread, earlier.                                 *)
THEOREM SuccessStands == Spec => []SuccessIsReported
<1>1. IInv => SuccessIsReported
  BY DEF IInv
<1> QED BY Invariance, <1>1, PTL

(* The review on display is the selection the shell will install, and a     *)
(* consent to migrate was given for the review on display, whatever answers *)
(* and events came in between (use-installer.ts and the setup context).     *)
THEOREM ActsOnWhatItShows == Spec => []ReviewIsCurrent
<1>1. IInv => ReviewIsCurrent
  <2>1. None \notin Selections
    BY NoneAssumption
  <2> QED BY <2>1 DEF IInv, Reviewing, ReviewIsCurrent, Judged, Idles
<1> QED BY Invariance, <1>1, PTL

(* start_install_sync and the completion thread lose no operation: one that *)
(* runs is active, about to be, or cancelled since nobody can follow it.    *)
THEOREM NoneIsLost == Spec => []OperationIsFollowed
<1>1. ASSUME IInv PROVE OperationIsFollowed
  <2>1. ASSUME NEW o \in Ops, Running(o)
        PROVE  \/ active = o \/ op[o].cancel
               \/ \E c \in Starts : cmd[c].op = o /\ cmd[c].pc \in {"publish", "revoke"}
    <3>1. CASE Resting \/ Asking
      BY <2>1, <3>1 DEF Resting, Asking
    <3>2. CASE Begun
      <4>1. view \in Starts
        BY <1>1, <3>2, BusyIs DEF Begun
      <4> QED BY <2>1, <3>2, <4>1 DEF Begun, Late
    <3>3. ASSUME NEW q \in Ops, Followed(q) PROVE active = o
      BY <2>1, <3>3 DEF Followed, Following, Running
    <3>4. ASSUME NEW q \in Ops, Told(q) PROVE FALSE
      BY <2>1, <3>4 DEF Told, NoneRuns
    <3> QED BY <1>1, <3>1, <3>2, <3>3, <3>4 DEF IInv, Flow
  <2>2. ASSUME NEW o \in Ops, op[o].thread \in Following
        PROVE  active = o
    BY <1>1, <2>2, FollowedIs DEF IInv, Live, Followed
  <2> QED BY <2>1, <2>2 DEF OperationIsFollowed, Following
<1> QED BY Invariance, <1>1, PTL

=============================================================================
