---------------------------- MODULE StudioProofs ----------------------------
(***************************************************************************)
(* Proofs about the Studio window and the project under it: for any        *)
(* payload, any settings and any number of edits and failures, an import   *)
(* is all or nothing, the user's work is kept, a bundle is whole and the   *)
(* window shows the project that is active.                                *)
(***************************************************************************)
EXTENDS Studio, SequenceTheorems, TLAPS

(* What the records hold.                                                   *)
Drafts    == [settings : Settings, entry : Files \cup {Nothing}]
Summaries == [path : {Here, Elsewhere}, settings : Settings, entry : Files \cup {Nothing},
              signed : BOOLEAN]
AnyConfig == Configs \cup {NoConfig, HalfConfig}
Payloads  == [Files -> Contents]
Bundles   == [config : Configs, valid : BOOLEAN, intact : BOOLEAN]
Snapshots == [payload : Payloads, folder : BOOLEAN, config : AnyConfig]

JobKinds == {"none", "init", "validate", "resolve", "update", "import", "build"}

\* The steps of an import: before anything is published, and from then on.
Looking  == {"read", "stage", "starter", "compare", "setAside"}
Placing  == {"publish", "write", "check", "swap", "rollback", "restore", "putBack"}
Outcomes == {"ok", "error", "stuck"}
Own      == {"stage", "starter", "compare", "setAside", "publish", "write", "rollback",
             "restore", "putBack"}
JobSteps == Looking \cup Placing \cup Outcomes
              \cup {"idle", "create", "sample", "fill", "config", "fillConfig", "snapshot", "replace"}

Jobs ==
  [kind : JobKinds, pc : JobSteps, arg : {Nothing} \cup Files \cup Drafts \cup SUBSET Entries,
   source : Configs \cup {Nothing}, candidate : Configs \cup {Nothing}, sole : BOOLEAN,
   aside : {"missing", "sample", "own"}, published : Seq(Entries), writing : Files \cup {Nothing},
   files : Payloads, objects : Payloads, failed : BOOLEAN,
   before : Snapshots \cup {Nothing}, touched : SUBSET (Entries \cup {"config"}),
   late : SUBSET {"config", Starter}]

Views == [kind : Commands \cup {"empty", "loading", "ready", "built", "error"},
          project : Summaries \cup {Nothing}]

Cmds ==
  [kind : Commands \cup {"none"}, pc : {"idle", "shell", "dialog", "backend", "ok", "null", "error"},
   path : {Here, Elsewhere, Nothing}, input : Drafts \cup {Nothing},
   result : Summaries \cup Files \cup {Nothing}, previous : Views \cup {Nothing},
   typed : BOOLEAN]

\* The operation a command asks the worker for.
Asks(kind) == CASE kind = "create" -> "init"
                [] kind \in {"open", "reload"} -> "validate"
                [] kind = "entrypoint" -> "resolve"
                [] OTHER -> kind

(* Every variable has its type, and a draft, an argument and a result       *)
(* the one their command calls for.                                         *)
Typed ==
  /\ payload \in Payloads /\ folder \in BOOLEAN /\ config \in AnyConfig
  /\ output \in Bundles \cup {Nothing} /\ job \in Jobs /\ edits \in Nat /\ faults \in Nat
  /\ active \in Summaries \cup {Nothing} /\ cmd \in Cmds /\ view \in Views
  /\ draft \in Drafts \cup {Nothing}

Fits ==
  /\ view.project # Nothing => draft \in Drafts
  /\ job.kind = "update" => job.arg \in Drafts
  /\ job.kind = "import" => job.arg \in ImportChoices /\ job.before \in Snapshots
  /\ job.kind = "resolve" => job.arg \in Files
  /\ Busy => cmd.previous \in Views
  /\ cmd.kind = "update" => cmd.input \in Drafts
  /\ cmd.kind = "entrypoint" => view.project # Nothing
  /\ cmd.pc = "ok" =>
       IF cmd.kind = "entrypoint" THEN cmd.result \in Files
       ELSE cmd.result \in Summaries \cup {Nothing}

TypeOK == Typed /\ Fits

(* luxury.toml is half written only under the hands of init.  Between the   *)
(* comparison and the rename, luxury.toml and the starter are what they were*)
(* found to be, or the edit is late.                                        *)
ComparedOK ==
  /\ At("fillConfig") => config = HalfConfig
  /\ At("swap") => config = job.source \/ "config" \in job.late
  /\ At("setAside") => /\ payload[Starter] \in {"missing", "sample", "own"}
                       /\ payload[Starter] = "sample" \/ Starter \in job.late \cap job.touched
  /\ At("putBack") => /\ job.aside # "missing"
                      /\ payload[Starter] = "missing" \/ Starter \in job.late
  /\ At("check") \/ At("swap") => job.kind \in {"update", "import"}
  /\ (At("check") \/ At("swap")) /\ job.kind = "update" => job.candidate \in Configs
  /\ At("ok") /\ job.kind \notin {"resolve", "import"} => job.candidate \in Configs

(* A build has hashed a payload that is valid, and its snapshot holds those *)
(* files and no others.                                                     *)
BuildOK ==
  /\ job.kind = "build" => job.pc \in {"read", "snapshot", "replace"} \cup Outcomes
  /\ job.kind = "build" /\ At("read") => job.objects = Missing
  /\ At("snapshot") \/ At("replace") =>
       /\ job.kind = "build" /\ job.candidate \in Configs /\ Valid(job.candidate, job.files)
       /\ \A f \in Files : job.objects[f] \in {"missing", job.files[f]}
  /\ At("replace") => job.objects = job.files
  /\ job.kind = "build" /\ At("ok") => output.config = job.candidate

-----------------------------------------------------------------------------
(* An import.  Of what the user leaves alone, everything is as it was before*)
(* but for what is published, being written or moved aside.                 *)

Untouched == Files \ job.touched

Listed(s, x) == \E i \in DOMAIN s : s[i] = x
Distinct(s)  == \A i, j \in DOMAIN s : s[i] = s[j] => i = j

\* Nothing of the user's was where an import puts f.
WasFree(f) == job.before.payload[f] = "missing" \/ (f = Starter /\ job.aside # "missing")

FileAccounted(f) ==
  IF Done(f) THEN payload[f] = "import" /\ WasFree(f)
  ELSE IF job.writing = f THEN payload[f] = "partial" /\ WasFree(f)
  ELSE payload[f] = IF f = Starter /\ job.aside # "missing" THEN "missing" ELSE job.before.payload[f]

FolderAccounted ==
  IF Done(Folder) THEN folder /\ ~job.before.folder ELSE folder = job.before.folder

NothingYet == job.published = <<>> /\ job.writing = Nothing /\ job.aside = "missing" /\ ~job.failed

Accounted ==
  /\ job.pc \in Looking => NothingYet
  /\ job.pc \in Looking \cup Placing \cup {"ok"} =>
       /\ \A f \in Untouched : FileAccounted(f)
       /\ Folder \notin job.touched => FolderAccounted
       /\ (job.aside # "missing") /\ Starter \notin job.touched =>
            job.aside = "sample" /\ job.before.payload[Starter] = "sample"
  /\ (At("restore") \/ At("putBack")) /\ ~job.failed => job.published = <<>>
  /\ At("error") => /\ \A f \in Untouched : payload[f] = job.before.payload[f]
                    /\ Folder \notin job.touched => folder = job.before.folder

\* What is published is in the list once, and what is written is not in it yet.
Listing ==
  /\ Distinct(job.published)
  /\ IF At("write") THEN job.writing \in Files /\ ~Done(job.writing) ELSE job.writing = Nothing

\* Only the file being written is half written, whatever the user does.
NoHalf ==
  \A f \in Files : payload[f] = "partial" /\ job.before.payload[f] # "partial" =>
    At("write") /\ job.writing = f

\* The configuration the import read, and the one it leaves.
Configured ==
  /\ job.pc \in {"stage", "starter", "compare", "setAside"} \cup Placing \cup {"ok"} =>
       job.source \in Configs /\ ("config" \notin job.touched => job.source = job.before.config)
  /\ job.pc \in {"starter", "compare", "setAside"} \cup Placing \cup {"ok"} =>
       /\ job.candidate \in Configs
       /\ job.candidate.exec = job.source.exec \cup (Brings(job.arg) \cap Programs)
  /\ "config" \notin job.touched => config = IF At("ok") THEN job.candidate ELSE job.before.config

\* All there is to publish is, and the project was valid with it.
Complete ==
  job.pc \in {"check", "swap", "ok"} =>
    /\ \A e \in Wanted : Done(e)
    /\ job.touched = {} => Valid(job.candidate, payload)

ImportOK ==
  /\ job.pc \in Own => job.kind = "import"
  /\ job.kind = "import" =>
       /\ job.pc \in Looking \cup Placing \cup Outcomes
       /\ Accounted /\ Listing /\ NoHalf /\ Configured /\ Complete

-----------------------------------------------------------------------------
(* The window.  A command works for the project that is shown, and until it *)
(* has succeeded that one stays active.                                     *)

Succeeded == cmd.pc = "ok" /\ cmd.kind \notin {"entrypoint", "reveal"}
Truthful(v) == v.kind = "built" => Summary(Here, output.config) = v.project
Agrees(v) == v.project # Nothing => active = v.project

CommandOK ==
  /\ Busy <=> cmd.pc # "idle"
  /\ cmd.pc # "backend" => job = NoJob
  /\ cmd.pc = "backend" => /\ job.kind \in {"none", Asks(cmd.kind)}
                           /\ job.kind = "none" <=> job.pc = "idle"
                           /\ cmd.path \in {Here, Elsewhere}
                           /\ cmd.path = Elsewhere => job.pc \in {"idle", "error"}
                           /\ cmd.kind # "reveal"
  /\ cmd.pc = "dialog" => cmd.kind \in {"create", "open"} \/ active # Nothing
  /\ active # Nothing => active.path = Here

WindowOK ==
  /\ ~Busy => Agrees(view) /\ Truthful(view)
  /\ Busy /\ Succeeded => active = cmd.result
  /\ Busy /\ ~Succeeded => Agrees(cmd.previous)
  /\ cmd.kind = "reveal" => /\ view.project = cmd.previous.project
                            /\ view.kind \in {cmd.previous.kind, "empty", "ready"}
  /\ cmd.kind = "entrypoint" => view.project = cmd.previous.project
  /\ Busy /\ (cmd.pc \in {"shell", "dialog", "null"} \/ cmd.kind = "reveal") =>
       Truthful(cmd.previous)
  /\ cmd.kind = "build" /\ cmd.pc = "ok" => Summary(Here, output.config) = cmd.result

-----------------------------------------------------------------------------
(* What a step does to the job.                                             *)

(* The fields of the job outside S stay as they are.                        *)
Proceeds(S) ==
  /\ job' \in Jobs
  /\ job'.kind = job.kind /\ job'.arg = job.arg /\ job'.before = job.before
  /\ "pc" \notin S => job'.pc = job.pc
  /\ "source" \notin S => job'.source = job.source
  /\ "candidate" \notin S => job'.candidate = job.candidate
  /\ "sole" \notin S => job'.sole = job.sole
  /\ "aside" \notin S => job'.aside = job.aside
  /\ "published" \notin S => job'.published = job.published
  /\ "writing" \notin S => job'.writing = job.writing
  /\ "files" \notin S => job'.files = job.files
  /\ "objects" \notin S => job'.objects = job.objects
  /\ "failed" \notin S => job'.failed = job.failed
  /\ "touched" \notin S => job'.touched = job.touched
  /\ "late" \notin S => job'.late = job.late

(* The constants.                                                           *)
LEMMA Constants ==
  /\ Starter \in Files /\ Inside \subseteq Files /\ Folder \notin Files /\ Files \subseteq Entries
  /\ Folder \in Entries /\ Missing \in Payloads /\ HalfConfig \notin Configs
  /\ ImportChoices \subseteq SUBSET Entries /\ Here # Elsewhere /\ Pickable \subseteq Files
  /\ SampleConfig \in Configs /\ Nothing \notin Files
BY AuthoringAssumption, ConfigAssumption, StudioAssumption
   DEF Files, Entries, Missing, Payloads, Contents, SampleConfig, Configs

(* The job goes on, or returns.                                             *)
LEMMA PcMoves ==
  ASSUME job \in Jobs, NEW pc \in JobSteps, job' = [job EXCEPT !.pc = pc]
  PROVE  Proceeds({"pc"}) /\ job'.pc = pc
BY DEF Jobs, Proceeds

(* A project that has been checked.                                         *)
LEMMA ValidMoves ==
  ASSUME job \in Jobs, NEW c \in Configs, job' = [Returned("ok") EXCEPT !.candidate = c]
  PROVE  Proceeds({"pc", "candidate"}) /\ job'.pc = "ok" /\ job'.candidate = c
<1>1. "ok" \in JobSteps
  BY DEF JobSteps, Outcomes
<1>2. job' = [job EXCEPT !.pc = "ok", !.candidate = c]
  BY DEF Returned, Jobs
<1> QED BY ZenonT(60), <1>1, <1>2 DEF Jobs, Proceeds

(* An update is about to replace the configuration.                         *)
LEMMA UpdateMoves ==
  ASSUME job \in Jobs, NEW s \in Configs, NEW c \in Configs,
         job' = [job EXCEPT !.pc = "check", !.source = s, !.candidate = c]
  PROVE  /\ Proceeds({"pc", "source", "candidate"})
         /\ job'.pc = "check" /\ job'.source = s /\ job'.candidate = c
BY DEF Jobs, Proceeds, JobSteps, Placing

(* An import has read the project.                                          *)
LEMMA ImportMoves ==
  ASSUME job \in Jobs, NEW s \in Configs, NEW b \in BOOLEAN,
         job' = [job EXCEPT !.pc = "stage", !.source = s, !.sole = b]
  PROVE  /\ Proceeds({"pc", "source", "sole"})
         /\ job'.pc = "stage" /\ job'.source = s /\ job'.sole = b
BY DEF Jobs, Proceeds, JobSteps, Looking

(* A build has hashed the payload.                                          *)
LEMMA BuildMoves ==
  ASSUME job \in Jobs, NEW c \in Configs, NEW p \in Payloads,
         job' = [job EXCEPT !.pc = "snapshot", !.candidate = c, !.files = p]
  PROVE  /\ Proceeds({"pc", "candidate", "files"})
         /\ job'.pc = "snapshot" /\ job'.candidate = c /\ job'.files = p
BY DEF Jobs, Proceeds, JobSteps

(* The sources are staged.                                                  *)
LEMMA StageMoves ==
  ASSUME job \in Jobs, NEW c \in Configs,
         job' = [job EXCEPT !.pc = "starter", !.candidate = c]
  PROVE  Proceeds({"pc", "candidate"}) /\ job'.pc = "starter" /\ job'.candidate = c
BY DEF Jobs, Proceeds, JobSteps, Looking

(* The starter is moved aside.                                              *)
LEMMA StarterMoves ==
  ASSUME job \in Jobs, NEW c \in {"missing", "sample", "own"}, NEW l \in SUBSET {"config", Starter},
         job' = [job EXCEPT !.pc = "publish", !.aside = c, !.late = l]
  PROVE  Proceeds({"pc", "aside", "late"}) /\ job'.pc = "publish" /\ job'.aside = c
BY DEF Jobs, Proceeds, JobSteps, Placing

(* The import is undone.                                                    *)
LEMMA UndoMoves ==
  ASSUME job \in Jobs, job' = Undo(job)
  PROVE  Proceeds({"pc", "writing"}) /\ job'.pc = "rollback" /\ job'.writing = Nothing
BY DEF Jobs, Proceeds, JobSteps, Placing, Undo

(* A file is opened.                                                        *)
LEMMA OpenMoves ==
  ASSUME job \in Jobs, NEW f \in Files, job' = [job EXCEPT !.pc = "write", !.writing = f]
  PROVE  Proceeds({"pc", "writing"}) /\ job'.pc = "write" /\ job'.writing = f
BY DEF Jobs, Proceeds, JobSteps, Placing

(* What is published changes.                                               *)
LEMMA ListMoves ==
  ASSUME job \in Jobs, NEW s \in Seq(Entries), job' = [job EXCEPT !.published = s]
  PROVE  Proceeds({"published"}) /\ job'.published = s
BY DEF Jobs, Proceeds

(* A file is written.                                                       *)
LEMMA WriteMoves ==
  ASSUME job \in Jobs, NEW s \in Seq(Entries),
         job' = [job EXCEPT !.pc = "publish", !.writing = Nothing, !.published = s]
  PROVE  /\ Proceeds({"pc", "writing", "published"})
         /\ job'.pc = "publish" /\ job'.writing = Nothing /\ job'.published = s
BY DEF Jobs, Proceeds, JobSteps, Placing

(* The rollback meets something it cannot remove.                           *)
LEMMA FailedMoves ==
  ASSUME job \in Jobs, job' = [job EXCEPT !.pc = "restore", !.failed = TRUE]
  PROVE  Proceeds({"pc", "failed"}) /\ job'.pc = "restore" /\ job'.failed
BY DEF Jobs, Proceeds, JobSteps, Placing

(* An object is copied.                                                     *)
LEMMA ObjectMoves ==
  ASSUME job \in Jobs, NEW o \in Payloads, job' = [job EXCEPT !.objects = o]
  PROVE  Proceeds({"objects"}) /\ job'.objects = o
BY DEF Jobs, Proceeds

(* The user changes something.                                              *)
LEMMA TouchMoves ==
  ASSUME job \in Jobs, job.pc # "idle", NEW t \in SUBSET (Entries \cup {"config"}),
         NEW l \in SUBSET {"config", Starter}, job' = [job EXCEPT !.touched = t, !.late = l]
  PROVE  Proceeds({"touched", "late"}) /\ job'.touched = t /\ job'.late = l
BY DEF Jobs, Proceeds

(* A job begins, and is over.                                               *)
LEMMA NewJobIs ==
  ASSUME Typed, NEW kind \in JobKinds, NEW arg \in {Nothing} \cup Files \cup Drafts \cup SUBSET Entries
  PROVE  /\ NewJob(kind, arg) \in Jobs
         /\ NewJob(kind, arg).kind = kind /\ NewJob(kind, arg).arg = arg
         /\ NewJob(kind, arg).pc = IF kind = "init" THEN "create" ELSE "read"
         /\ NewJob(kind, arg).published = <<>> /\ NewJob(kind, arg).writing = Nothing
         /\ NewJob(kind, arg).aside = "missing" /\ ~NewJob(kind, arg).failed
         /\ NewJob(kind, arg).touched = {} /\ NewJob(kind, arg).objects = Missing
         /\ kind = "import" =>
              /\ NewJob(kind, arg).before \in Snapshots
              /\ NewJob(kind, arg).before.payload = payload
              /\ NewJob(kind, arg).before.folder = folder
              /\ NewJob(kind, arg).before.config = config
<1> DEFINE b == IF kind # "import" THEN Nothing
                ELSE [payload |-> payload, folder |-> folder, config |-> config]
           pc == IF kind = "init" THEN "create" ELSE "read"
<1>1. /\ b \in Snapshots \cup {Nothing}
      /\ kind = "import" => /\ b \in Snapshots /\ b.payload = payload /\ b.folder = folder
                            /\ b.config = config
  BY DEF Typed, Snapshots
<1>2. pc \in JobSteps
  BY DEF JobSteps, Looking
<1>3. NewJob(kind, arg) = [NoJob EXCEPT !.kind = kind, !.arg = arg, !.pc = pc, !.before = b]
  BY DEF NewJob
<1> HIDE DEF b, pc
<1>4. NewJob(kind, arg) =
        [kind |-> kind, pc |-> pc, arg |-> arg, source |-> Nothing,
         candidate |-> Nothing, sole |-> FALSE, aside |-> "missing", published |-> <<>>,
         writing |-> Nothing, files |-> Missing, objects |-> Missing, failed |-> FALSE,
         before |-> b, touched |-> {}, late |-> {}]
  BY ZenonT(60), <1>3 DEF NoJob
<1>5. <<>> \in Seq(Entries) /\ Missing \in Payloads
  BY Constants
<1>6. /\ NewJob(kind, arg) \in Jobs
      /\ NewJob(kind, arg).kind = kind /\ NewJob(kind, arg).arg = arg
      /\ NewJob(kind, arg).pc = pc /\ NewJob(kind, arg).before = b
      /\ NewJob(kind, arg).published = <<>> /\ NewJob(kind, arg).writing = Nothing
      /\ NewJob(kind, arg).aside = "missing" /\ ~NewJob(kind, arg).failed
      /\ NewJob(kind, arg).touched = {} /\ NewJob(kind, arg).objects = Missing
  BY <1>1, <1>2, <1>4, <1>5 DEF Jobs
<1> QED BY <1>1, <1>6 DEF pc

LEMMA NoJobIs == NoJob \in Jobs /\ NoJob.kind = "none" /\ NoJob.pc = "idle"
<1>1. <<>> \in Seq(Entries) /\ Missing \in Payloads
  BY Constants
<1> QED BY <1>1 DEF NoJob, Jobs, JobKinds, JobSteps

-----------------------------------------------------------------------------
(* The list of what is published.                                           *)

(* One entry more at the end of a list.                                     *)
LEMMA AppendLists ==
  ASSUME NEW E, NEW s \in Seq(E), NEW e \in E
  PROVE  /\ Append(s, e) \in Seq(E)
         /\ \A x : Listed(Append(s, e), x) <=> Listed(s, x) \/ x = e
         /\ Distinct(s) /\ ~Listed(s, e) => Distinct(Append(s, e))
<1> DEFINE t == Append(s, e)
<1>1. /\ t \in Seq(E) /\ Len(t) = Len(s) + 1 /\ Len(s) \in Nat
      /\ DOMAIN s = 1 .. Len(s) /\ DOMAIN t = 1 .. Len(t)
      /\ t[Len(s) + 1] = e /\ \A i \in 1 .. Len(s) : t[i] = s[i]
  OBVIOUS
<1> HIDE DEF t
<1>2. ASSUME NEW x PROVE Listed(t, x) <=> Listed(s, x) \/ x = e
  <2>1. ASSUME NEW i \in 1 .. Len(s) + 1, t[i] = x PROVE Listed(s, x) \/ x = e
    BY <1>1, <2>1 DEF Listed
  <2>2. Listed(t, x) => Listed(s, x) \/ x = e
    BY <1>1, <2>1 DEF Listed
  <2>3. ASSUME NEW i \in 1 .. Len(s), s[i] = x PROVE i \in DOMAIN t /\ t[i] = x
    BY <1>1, <2>3
  <2>4. Len(s) + 1 \in DOMAIN t
    BY <1>1
  <2> QED BY <1>1, <2>2, <2>3, <2>4 DEF Listed
<1>3. ASSUME Distinct(s), ~Listed(s, e) PROVE Distinct(t)
  BY <1>1, <1>3 DEF Distinct, Listed
<1> QED BY <1>1, <1>2, <1>3 DEF t

(* A list without its last entry.                                           *)
LEMMA PopLists ==
  ASSUME NEW E, NEW s \in Seq(E), s # <<>>
  PROVE  LET t == SubSeq(s, 1, Len(s) - 1) IN
         /\ t \in Seq(E) /\ s[Len(s)] \in E /\ Listed(s, s[Len(s)])
         /\ Distinct(s) => /\ Distinct(t)
                           /\ \A x : Listed(t, x) <=> Listed(s, x) /\ x # s[Len(s)]
<1> DEFINE t == SubSeq(s, 1, Len(s) - 1)
<1>0. Len(s) \in Nat \ {0} /\ DOMAIN s = 1 .. Len(s)
  BY EmptySeq, LenProperties
<1>6. /\ t \in Seq(E) /\ Len(t) = IF 1 <= Len(s) - 1 THEN Len(s) - 1 - 1 + 1 ELSE 0
      /\ \A i \in 1 .. Len(s) - 1 - 1 + 1 : t[i] = s[1 + i - 1]
  BY <1>0, SubSeqProperties
<1>1. /\ t \in Seq(E) /\ Len(s) \in Nat \ {0} /\ Len(t) = Len(s) - 1
      /\ DOMAIN s = 1 .. Len(s) /\ DOMAIN t = 1 .. Len(s) - 1
      /\ \A i \in 1 .. Len(s) - 1 : t[i] = s[i]
  BY <1>0, <1>6, LenProperties
<1>2. Len(s) \in DOMAIN s /\ s[Len(s)] \in E
  BY <1>1
<1> HIDE DEF t
<1>3. Listed(s, s[Len(s)])
  BY <1>2 DEF Listed
<1>4. ASSUME Distinct(s) PROVE Distinct(t)
  BY <1>1, <1>4 DEF Distinct
<1>5. ASSUME Distinct(s), NEW x PROVE Listed(t, x) <=> Listed(s, x) /\ x # s[Len(s)]
  <2>1. ASSUME NEW i \in DOMAIN t, t[i] = x PROVE Listed(s, x) /\ x # s[Len(s)]
    <3>1. i \in DOMAIN s /\ s[i] = x /\ i # Len(s)
      BY <1>1, <2>1
    <3> QED BY <1>2, <1>5, <3>1 DEF Distinct, Listed
  <2>2. ASSUME NEW i \in DOMAIN s, s[i] = x, x # s[Len(s)] PROVE Listed(t, x)
    <3>1. i \in DOMAIN t /\ t[i] = x
      BY <1>1, <2>2
    <3> QED BY <3>1 DEF Listed
  <2>3. Listed(t, x) => Listed(s, x) /\ x # s[Len(s)]
    BY <2>1 DEF Listed
  <2>4. Listed(s, x) /\ x # s[Len(s)] => Listed(t, x)
    BY <2>2 DEF Listed
  <2> QED BY <2>3, <2>4
<1> QED BY <1>1, <1>2, <1>3, <1>4, <1>5 DEF t

(* What is done is what is listed.                                          *)
LEMMA DoneListed ==
  /\ \A e : Done(e) <=> Listed(job.published, e)
  /\ \A e : Done(e)' <=> Listed(job'.published, e)
BY DEF Done, Listed

LEMMA NoneDone == ASSUME job.published = <<>> PROVE \A e : ~Done(e)
BY DEF Done

(* Nothing is published and nothing moves.                                  *)
SameEntries ==
  /\ payload' = payload /\ folder' = folder /\ job'.published = job.published
  /\ job'.writing = job.writing /\ job'.aside = job.aside /\ job'.before = job.before

LEMMA EntriesSame ==
  ASSUME SameEntries
  PROVE  /\ \A e : Done(e)' <=> Done(e)
         /\ \A f \in Files : FileAccounted(f)' <=> FileAccounted(f)
         /\ FolderAccounted' <=> FolderAccounted
<1>1. \A e : Done(e)' <=> Done(e)
  BY DEF SameEntries, Done
<1> QED BY <1>1 DEF SameEntries, FileAccounted, WasFree, FolderAccounted

-----------------------------------------------------------------------------
(* What every step of the worker keeps.                                     *)

Project == Typed /\ Fits /\ ComparedOK /\ BuildOK /\ ImportOK

(* What the user wrote is changed only where the import has put something,  *)
(* luxury.toml only as it was read, and both where the edit is late.        *)
Spares ==
  /\ \A f \in Files : payload[f] = "own" /\ payload'[f] # "own" =>
       Done(f) \/ job.writing = f \/ (f = Starter /\ Starter \in job.late)
  /\ config' # config => config \in {job.source, NoConfig, HalfConfig} \/ "config" \in job.late

Running == job.pc \notin {"idle", "ok", "error", "stuck"}

(* A step of the worker: its job stays the same one, and only a build       *)
(* replaces the output.                                                     *)
Works ==
  /\ Project' /\ Spares /\ Running /\ job'.pc # "idle" /\ job'.kind = job.kind
  /\ output' = output \/ At("replace")

Alone == UNCHANGED <<edits, faults, studio>>

(* The types, when the window waits.                                        *)
LEMMA FitsWorks ==
  ASSUME Typed, Fits, UNCHANGED studio, job'.kind = job.kind, job'.arg = job.arg,
         job'.before = job.before
  PROVE  Fits'
BY DEF Fits, studio, Busy

(* Another operation than an import.                                        *)
LEMMA NoImport ==
  ASSUME job.kind # "import", job'.kind = job.kind, job'.pc \notin Own
  PROVE  ImportOK'
BY DEF ImportOK

(* Steps of luxury.toml and of a build that are not under way.              *)
LEMMA NoBuild ==
  ASSUME job'.pc \notin {"snapshot", "replace"},
         job'.kind # "build" \/ job'.pc = "error"
  PROVE  BuildOK'
BY DEF BuildOK, At, Outcomes

LEMMA NoComparison ==
  ASSUME job'.pc \notin {"fillConfig", "check", "swap", "ok", "setAside", "putBack"}
  PROVE  ComparedOK'
BY DEF ComparedOK, At

(* Where an import and a build may be.                                      *)
LEMMA Whose ==
  ASSUME BuildOK, ImportOK
  PROVE  /\ job.kind = "import" => job.pc \in Looking \cup Placing \cup Outcomes
         /\ job.pc \in Own => job.kind = "import"
         /\ job.kind = "build" => job.pc \in {"read", "snapshot", "replace"} \cup Outcomes
         /\ job.pc \in {"snapshot", "replace"} => job.kind = "build"
BY DEF BuildOK, ImportOK, At

(* Nothing is different before an import publishes anything.                *)
LEMMA AsBefore ==
  ASSUME ImportOK, job.kind = "import", job.pc \in Looking
  PROVE  /\ \A f \in Untouched : payload[f] = job.before.payload[f]
         /\ Folder \notin job.touched => folder = job.before.folder
<1>1. NothingYet /\ (\A f \in Untouched : FileAccounted(f))
      /\ (Folder \notin job.touched => FolderAccounted)
  BY DEF ImportOK, Accounted
<1>2. \A e : ~Done(e)
  BY <1>1, NoneDone DEF NothingYet
<1> QED BY <1>1, <1>2, Constants DEF NothingYet, FileAccounted, FolderAccounted, Untouched

(* An import that fails before that.                                        *)
LEMMA ImportErrs ==
  ASSUME Typed, ImportOK, job.kind = "import", job.pc \in Looking, Proceeds({"pc"}),
         job'.pc = "error", UNCHANGED <<payload, folder, config>>
  PROVE  ImportOK'
<1>1. /\ job'.kind = job.kind /\ job'.before = job.before /\ job'.touched = job.touched
      /\ job'.published = job.published /\ job'.writing = job.writing
  BY DEF Proceeds
<1>2. Accounted'
  BY <1>1, AsBefore DEF Accounted, At, Looking, Placing, Untouched
<1>3. Listing'
  BY <1>1 DEF ImportOK, Listing, Looking, At, Done
<1>4. NoHalf'
  BY <1>1 DEF ImportOK, NoHalf, Looking, At
<1>5. Configured'
  BY <1>1 DEF ImportOK, Configured, Looking, Placing, At
<1>6. Complete'
  BY DEF Complete
<1> QED BY <1>1, <1>2, <1>3, <1>4, <1>5, <1>6 DEF ImportOK, Outcomes

(* An import goes on, or back, while every entry stays where it is.         *)
LEMMA ImportGoes ==
  ASSUME Typed, ImportOK, job.kind = "import", job.pc \in Placing, SameEntries,
         Proceeds({"pc", "writing"}), job.pc # "write", job'.pc \in Placing \ {"write", "restore", "putBack"},
         config' = config,
         job'.pc \in {"check", "swap"} =>
            /\ \A e \in Wanted : Done(e)
            /\ job.touched = {} => Valid(job.candidate, payload)
  PROVE  ImportOK'
<1>1. /\ job'.kind = job.kind /\ job'.before = job.before /\ job'.touched = job.touched
      /\ job'.source = job.source /\ job'.candidate = job.candidate /\ job'.arg = job.arg
      /\ job'.published = job.published /\ job'.writing = job.writing
      /\ job'.aside = job.aside /\ payload' = payload /\ folder' = folder
  BY DEF Proceeds, SameEntries
<1>2. Accounted'
  BY <1>1, EntriesSame DEF ImportOK, Accounted, At, Looking, Placing, Untouched
<1>3. Listing'
  BY <1>1, EntriesSame DEF ImportOK, Listing, Placing, At
<1>4. NoHalf'
  BY <1>1 DEF ImportOK, NoHalf, Placing, At
<1>5. Configured'
  BY <1>1 DEF ImportOK, Configured, Looking, Placing, At, Brings
<1>6. Complete'
  BY <1>1, EntriesSame DEF Complete, Placing, Wanted, Brings, Valid, Present, WellFormed, EntryOwned
<1> QED BY <1>1, <1>2, <1>3, <1>4, <1>5, <1>6 DEF ImportOK

-----------------------------------------------------------------------------
(* init, validate, resolve, update and build.                               *)

(* A step of the job leaves the bounds and the window alone.                *)
LEMMA JobTypes ==
  ASSUME Typed, Fits, job' \in Jobs, job'.kind = job.kind, job'.arg = job.arg,
         job'.before = job.before, Alone, payload' \in Payloads, folder' \in BOOLEAN,
         config' \in AnyConfig, output' \in Bundles \cup {Nothing}
  PROVE  Typed' /\ Fits'
<1>1. Typed'
  BY DEF Typed, Alone, studio
<1>2. Fits'
  BY FitsWorks DEF Alone
<1> QED BY <1>1, <1>2

(* init looks at what is there.                                             *)
LEMMA InitLooksWorks == ASSUME Project, InitLooks, Alone PROVE Works
<1>1. PICK pc \in {"sample", "error"} : job' = [job EXCEPT !.pc = pc]
  BY DEF InitLooks, Goes, Returns, Returned
<1>2. Proceeds({"pc"}) /\ job'.pc = pc /\ job.pc = "create" /\ UNCHANGED project
  BY <1>1, PcMoves DEF Project, Typed, InitLooks, At, JobSteps, Outcomes
<1>3. Typed' /\ Fits'
  BY <1>2, JobTypes DEF Project, Typed, Proceeds, project
<1>4. job.kind \notin {"import", "build"}
  BY Whose, <1>2 DEF Project, Looking, Placing, Outcomes
<1>5. ImportOK'
  BY <1>2, <1>4, NoImport DEF Own, Proceeds
<1>6. BuildOK' /\ ComparedOK'
  BY <1>2, <1>4, NoBuild, NoComparison DEF Proceeds
<1> QED BY <1>2, <1>3, <1>5, <1>6 DEF Works, Project, Spares, Running, Proceeds, project

(* init creates the sample and writes it.                                   *)
LEMMA WriteSampleWorks == ASSUME Project, WriteSample, Alone PROVE Works
<1>1. PICK pc \in {"fill", "config", "error"} : job' = [job EXCEPT !.pc = pc]
  BY DEF WriteSample, Goes, Returns, Returned
<1>2. /\ Proceeds({"pc"}) /\ job'.pc = pc /\ job.pc \in {"sample", "fill"}
      /\ UNCHANGED <<folder, config, output>>
  BY <1>1, PcMoves DEF Project, Typed, WriteSample, At, JobSteps, Outcomes
<1>3. /\ payload' \in Payloads
      /\ \A f \in Files : payload'[f] # payload[f] => payload[f] # "own"
  BY Constants DEF Project, Typed, WriteSample, Payloads, Contents
<1>4. Typed' /\ Fits'
  BY <1>2, <1>3, JobTypes DEF Project, Typed, Proceeds
<1>5. ImportOK'
  BY <1>2, Whose, NoImport DEF Own, Project, Proceeds, Looking, Placing, Outcomes
<1>6. BuildOK' /\ ComparedOK'
  BY <1>2, Whose, NoBuild, NoComparison DEF Project, Proceeds, Outcomes
<1>7. Spares
  BY <1>2, <1>3 DEF Spares
<1> QED BY <1>2, <1>4, <1>5, <1>6, <1>7 DEF Works, Project, Running, Proceeds

(* init creates the configuration and writes it.                            *)
LEMMA WriteConfigWorks == ASSUME Project, WriteConfig, Alone PROVE Works
<1>1. PICK pc \in {"fillConfig", "read", "error"} : job' = [job EXCEPT !.pc = pc]
  BY DEF WriteConfig, Goes, Returns, Returned
<1>2. /\ Proceeds({"pc"}) /\ job'.pc = pc /\ job.pc \in {"config", "fillConfig"}
      /\ UNCHANGED <<payload, folder, output>>
  BY <1>1, PcMoves DEF Project, Typed, WriteConfig, At, JobSteps, Outcomes, Looking
<1>3. /\ config' \in AnyConfig
      /\ config' # config => config \in {NoConfig, HalfConfig}
      /\ job'.pc = "fillConfig" => config' = HalfConfig
  <2>1. CASE At("config") /\ config = NoConfig /\ config' = HalfConfig
    BY <2>1 DEF AnyConfig
  <2>2. CASE At("config") /\ config' = config /\ job'.pc # "fillConfig"
    BY <2>2 DEF Project, Typed
  <2>3. CASE At("fillConfig") /\ config' = SampleConfig /\ Goes("read")
    BY <1>2, <2>3, Constants DEF Project, ComparedOK, AnyConfig, Goes, Typed, Jobs
  <2>4. config' = config /\ (Goes("read") \/ Returns("error")) => job'.pc # "fillConfig"
    BY DEF Goes, Returns, Returned, Project, Typed, Jobs
  <2> QED BY <2>1, <2>2, <2>3, <2>4 DEF WriteConfig
<1>4. Typed' /\ Fits'
  BY <1>2, <1>3, JobTypes DEF Project, Typed, Proceeds
<1>5. ImportOK'
  BY <1>2, Whose, NoImport DEF Own, Project, Proceeds, Looking, Placing, Outcomes
<1>6. BuildOK'
  BY <1>2, Whose, NoBuild DEF Project, Proceeds, Outcomes
<1>7. ComparedOK'
  BY <1>2, <1>3 DEF ComparedOK, At
<1>8. Spares
  BY <1>2, <1>3 DEF Spares
<1> QED BY <1>2, <1>4, <1>5, <1>6, <1>7, <1>8 DEF Works, Project, Running, Proceeds

(* The check of a project, and of a payload file.                           *)
LEMMA ChecksWork ==
  ASSUME Project, At("read"), Validates \/ Resolves, UNCHANGED project, Alone
  PROVE  Works
<1>1. job.kind \in {"init", "validate", "resolve"}
  BY DEF Validates, Resolves
<1>2. /\ job' \in Jobs /\ job'.kind = job.kind /\ job'.arg = job.arg
      /\ job'.before = job.before /\ job'.pc \in {"ok", "error"}
      /\ job'.pc = "ok" => job'.candidate \in Configs \/ job.kind = "resolve"
  <2>1. CASE \E c \in Configs : job' = [Returned("ok") EXCEPT !.candidate = c]
    BY <2>1, ValidMoves DEF Project, Typed, Proceeds
  <2>2. CASE \E pc \in {"ok", "error"} : /\ job' = [job EXCEPT !.pc = pc]
                                         /\ pc = "ok" => job.kind = "resolve"
    BY <2>2, PcMoves DEF Project, Typed, Proceeds, JobSteps, Outcomes
  <2> QED BY <2>1, <2>2 DEF Validates, Resolves, Returns, Returned
<1>3. Typed' /\ Fits'
  BY <1>2, JobTypes DEF Project, Typed, project
<1>4. ImportOK' /\ BuildOK' /\ ComparedOK'
  BY <1>1, <1>2, NoImport, NoBuild DEF Own, ComparedOK, At
<1> QED BY <1>2, <1>3, <1>4 DEF Works, Project, Spares, Running, project, At

(* The configuration an update leaves is one.                               *)
LEMMA UpdatedIs ==
  ASSUME NEW c \in Configs, NEW d \in Drafts
  PROVE  Updated(c, d) \in Configs
<1> DEFINE gone == c.entry # d.entry /\ c.entry # Nothing /\ payload[c.entry] = "missing"
           kept == IF gone THEN c.exec \ {c.entry} ELSE c.exec
           all == kept \cup ({d.entry} \ {Nothing})
<1>1. all \in SUBSET Files /\ d.settings \in Settings /\ d.entry \in Files \cup {Nothing}
  BY DEF Configs, Drafts
<1>2. Updated(c, d) = [c EXCEPT !.settings = d.settings, !.entry = d.entry, !.exec = all]
  BY DEF Updated
<1> HIDE DEF all
<1> QED BY <1>1, <1>2 DEF Configs

(* What an update reads.                                                    *)
LEMMA UpdatesWork ==
  ASSUME Project, At("read"), Updates, UNCHANGED project, Alone
  PROVE  Works
<1>1. job.kind = "update" /\ job.arg \in Drafts
  BY DEF Updates, Project, Fits
<1>2. /\ job' \in Jobs /\ job'.kind = job.kind /\ job'.arg = job.arg
      /\ job'.before = job.before /\ job'.pc \in {"check", "error"}
      /\ job'.pc = "check" => job'.candidate \in Configs
  <2>1. CASE /\ Editable(config)
             /\ job' = [job EXCEPT !.pc = "check", !.source = config,
                                   !.candidate = Updated(config, job.arg)]
    <3>1. config \in Configs /\ Updated(config, job.arg) \in Configs
      BY <1>1, <2>1, UpdatedIs DEF Editable
    <3> QED BY <2>1, <3>1, UpdateMoves DEF Project, Typed, Proceeds
  <2>2. CASE job' = [job EXCEPT !.pc = "error"]
    BY <2>2, PcMoves DEF Project, Typed, Proceeds, JobSteps, Outcomes
  <2> QED BY <2>1, <2>2 DEF Updates, Returns, Returned
<1>3. Typed' /\ Fits'
  BY <1>2, JobTypes DEF Project, Typed, project
<1>4. ImportOK' /\ BuildOK'
  BY <1>1, <1>2, NoImport, NoBuild DEF Own
<1>5. ComparedOK'
  BY <1>1, <1>2 DEF ComparedOK, At
<1> QED BY <1>2, <1>3, <1>4, <1>5 DEF Works, Project, Spares, Running, project, At

(* A build hashes the payload.                                              *)
LEMMA BuildsWork ==
  ASSUME Project, At("read"), Builds, UNCHANGED project, Alone
  PROVE  Works
<1>1. job.kind = "build" /\ job.objects = Missing
  BY DEF Builds, Project, BuildOK
<1>2. CASE /\ config \in Configs /\ Valid(config, payload)
           /\ job' = [job EXCEPT !.pc = "snapshot", !.candidate = config, !.files = payload]
  <2>1. /\ Proceeds({"pc", "candidate", "files"})
        /\ job'.pc = "snapshot" /\ job'.candidate = config /\ job'.files = payload
    BY <1>2, BuildMoves DEF Project, Typed
  <2>2. Typed' /\ Fits'
    BY <2>1, JobTypes DEF Project, Typed, project, Proceeds
  <2>3. ImportOK' /\ ComparedOK'
    BY <1>1, <2>1, NoImport, NoComparison DEF Own, Proceeds
  <2>4. BuildOK'
    BY <1>1, <1>2, <2>1 DEF BuildOK, At, Proceeds, Outcomes, Missing, Valid, WellFormed, Present, EntryOwned
  <2> QED BY <2>1, <2>2, <2>3, <2>4 DEF Works, Project, Spares, Running, project, At, Proceeds
<1>3. CASE job' = [job EXCEPT !.pc = "error"]
  <2>1. Proceeds({"pc"}) /\ job'.pc = "error"
    BY <1>3, PcMoves DEF Project, Typed, JobSteps, Outcomes
  <2>2. Typed' /\ Fits'
    BY <2>1, JobTypes DEF Project, Typed, project, Proceeds
  <2>3. ImportOK' /\ ComparedOK' /\ BuildOK'
    BY <1>1, <2>1, NoImport, NoComparison, NoBuild DEF Own, Proceeds
  <2> QED BY <2>1, <2>2, <2>3 DEF Works, Project, Spares, Running, project, At, Proceeds
<1> QED BY <1>2, <1>3 DEF Builds, Editable, Returns, Returned

(* A file is copied to the snapshot, or differs from what was hashed.       *)
LEMMA SnapshotWorks == ASSUME Project, Snapshot, Alone PROVE Works
<1>1. job.pc = "snapshot" /\ job.kind = "build" /\ UNCHANGED project
  BY DEF Snapshot, At, Project, BuildOK
<1>2. PICK f \in Files :
        IF Unchanged(f) THEN job' = [job EXCEPT !.objects[f] = payload[f]]
                        ELSE job' = [job EXCEPT !.pc = "error"]
  BY DEF Snapshot, Present, Returned
<1>3. CASE Unchanged(f)
  <2> DEFINE o == [job.objects EXCEPT ![f] = payload[f]]
  <2>1. job.objects \in Payloads /\ payload[f] \in Contents
    BY DEF Project, Typed, Payloads, Jobs
  <2>2. /\ o \in Payloads
        /\ \A g \in Files : o[g] = IF g = f THEN payload[f] ELSE job.objects[g]
    BY <2>1 DEF Payloads
  <2>3. job' = [job EXCEPT !.objects = o]
    BY <1>2, <1>3
  <2> HIDE DEF o
  <2>4. Proceeds({"objects"}) /\ job'.objects = o
    BY <2>2, <2>3, ObjectMoves DEF Project, Typed
  <2>5. Typed' /\ Fits'
    BY <1>1, <2>4, JobTypes DEF Project, Typed, project, Proceeds
  <2>6. ImportOK' /\ ComparedOK'
    BY <1>1, <2>4, NoImport, NoComparison DEF Own, Proceeds
  <2>7. job'.pc = "snapshot" /\ job'.files = job.files /\ job'.candidate = job.candidate
    BY <1>1, <2>4 DEF Proceeds
  <2>8. \A g \in Files : job'.objects[g] \in {"missing", job'.files[g]}
    BY <1>1, <1>3, <2>2, <2>4, <2>7 DEF Unchanged, Project, BuildOK, At
  <2>9. BuildOK'
    BY <1>1, <2>4, <2>7, <2>8
       DEF Project, BuildOK, At, Proceeds, Outcomes, Valid, WellFormed, Present, EntryOwned
  <2> QED BY <1>1, <2>4, <2>5, <2>6, <2>9 DEF Works, Project, Spares, Running, project, Proceeds
<1>4. CASE ~Unchanged(f)
  <2>1. Proceeds({"pc"}) /\ job'.pc = "error"
    BY <1>2, <1>4, PcMoves DEF Project, Typed, JobSteps, Outcomes
  <2>2. Typed' /\ Fits'
    BY <1>1, <2>1, JobTypes DEF Project, Typed, project, Proceeds
  <2>3. ImportOK' /\ ComparedOK' /\ BuildOK'
    BY <1>1, <2>1, NoImport, NoComparison, NoBuild DEF Own, Proceeds
  <2> QED BY <1>1, <2>1, <2>2, <2>3 DEF Works, Project, Spares, Running, project, Proceeds
<1> QED BY <1>3, <1>4

(* The snapshot holds every file: the archive can be written.               *)
LEMMA ArchiveWorks == ASSUME Project, Archive, Alone PROVE Works
<1>1. job.pc = "snapshot" /\ job.kind = "build" /\ UNCHANGED project
  BY DEF Archive, At, Project, BuildOK
<1>2. Proceeds({"pc"}) /\ job'.pc = "replace"
  BY PcMoves DEF Archive, Goes, Project, Typed, JobSteps
<1>3. Typed' /\ Fits'
  BY <1>1, <1>2, JobTypes DEF Project, Typed, project, Proceeds
<1>4. ImportOK' /\ ComparedOK'
  BY <1>1, <1>2, NoImport, NoComparison DEF Own, Proceeds
<1>5. job.objects \in [Files -> Contents] /\ job.files \in [Files -> Contents]
  BY DEF Project, Typed, Jobs, Payloads
<1>6. \A f \in Files : job.objects[f] = job.files[f]
  BY <1>1 DEF Archive, Project, BuildOK, At, Present
<1>7. job.objects = job.files
  BY <1>5, <1>6
<1>8. BuildOK'
  BY <1>1, <1>2, <1>7
     DEF Project, BuildOK, At, Proceeds, Outcomes, Valid, WellFormed, Present, EntryOwned
<1> QED BY <1>1, <1>2, <1>3, <1>4, <1>8 DEF Works, Project, Spares, Running, project, Proceeds

(* The archive replaces the output, and is whole.                           *)
LEMMA ReplaceOutputWorks ==
  ASSUME Project, ReplaceOutput, Alone
  PROVE  Works /\ output'.valid /\ output'.intact
<1>1. /\ job.pc = "replace" /\ job.kind = "build" /\ UNCHANGED <<payload, folder, config>>
      /\ job.candidate \in Configs /\ Valid(job.candidate, job.files) /\ job.objects = job.files
  BY DEF ReplaceOutput, At, Project, BuildOK
<1>2. /\ output' = [config |-> job.candidate, valid |-> TRUE, intact |-> TRUE]
  BY <1>1 DEF ReplaceOutput
<1>3. output' \in Bundles /\ output'.valid /\ output'.intact /\ output'.config = job.candidate
  BY <1>1, <1>2 DEF Bundles
<1>4. Proceeds({"pc"}) /\ job'.pc = "ok"
  BY PcMoves DEF ReplaceOutput, Returns, Returned, Project, Typed, JobSteps, Outcomes
<1>5. Typed' /\ Fits'
  BY <1>1, <1>3, <1>4, JobTypes DEF Project, Typed, Proceeds
<1>6. ImportOK' /\ ComparedOK'
  BY <1>1, <1>4, NoImport DEF Own, ComparedOK, At, Proceeds
<1>7. BuildOK'
  BY <1>3, <1>4 DEF BuildOK, At, Proceeds, Outcomes
<1> QED BY <1>1, <1>3, <1>4, <1>5, <1>6, <1>7 DEF Works, Project, Spares, Running, Proceeds, At

-----------------------------------------------------------------------------
(* import.                                                                  *)

(* What there was before an import.                                         *)
LEMMA TypedBefore ==
  ASSUME Project, job.kind = "import"
  PROVE  job.before.folder \in BOOLEAN /\ job.before.payload \in Payloads
BY DEF Project, Fits, Snapshots

(* The parts of Project that are not about imports.                         *)
LEMMA ImportRest ==
  ASSUME Project, job.kind = "import", job' \in Jobs, job'.kind = job.kind, job'.arg = job.arg,
         job'.before = job.before, Alone, payload' \in Payloads, folder' \in BOOLEAN,
         config' = config, output' = output, job'.pc \in Looking \cup Placing \cup Outcomes,
         job'.pc = "swap" => config = job'.source,
         job'.pc = "setAside" => payload'[Starter] = "sample",
         job'.pc = "putBack" => job'.aside # "missing" /\ payload'[Starter] = "missing"
  PROVE  Typed' /\ Fits' /\ BuildOK' /\ ComparedOK'
<1>1. Typed' /\ Fits'
  BY JobTypes DEF Project, Typed
<1>2. BuildOK'
  BY NoBuild DEF Looking, Placing, Outcomes
<1>3. ComparedOK'
  BY DEF ComparedOK, At, Looking, Placing, Outcomes
<1> QED BY <1>1, <1>2, <1>3

(* The project is read.                                                     *)
LEMMA ImportsWork ==
  ASSUME Project, At("read"), Imports, UNCHANGED project, Alone
  PROVE  Works
<1>1. job.kind = "import" /\ job.pc = "read" /\ UNCHANGED project
  BY DEF Imports, At
<1>2. CASE job' = [job EXCEPT !.pc = "error"]
  <2>1. Proceeds({"pc"}) /\ job'.pc = "error"
    BY <1>2, PcMoves DEF Project, Typed, JobSteps, Outcomes
  <2>2. ImportOK'
    BY <1>1, <2>1, ImportErrs DEF Project, Looking, project
  <2>3. Typed' /\ Fits' /\ BuildOK' /\ ComparedOK'
    BY <1>1, <2>1, ImportRest DEF Project, Typed, project, Proceeds, Outcomes
  <2> QED BY <1>1, <2>1, <2>2, <2>3 DEF Works, Project, Spares, Running, project, Proceeds
<1>3. CASE \E b \in BOOLEAN :
             /\ config \in Configs
             /\ job' = [job EXCEPT !.pc = "stage", !.source = config, !.sole = b]
  <2>1. /\ Proceeds({"pc", "source", "sole"}) /\ job'.pc = "stage" /\ job'.source = config
        /\ config \in Configs
    BY <1>3, ImportMoves DEF Project, Typed
  <2>2. SameEntries
    BY <1>1, <2>1 DEF SameEntries, Proceeds, project
  <2>3. /\ job'.kind = job.kind /\ job'.before = job.before /\ job'.touched = job.touched
        /\ job'.arg = job.arg /\ job'.published = job.published /\ job'.writing = job.writing
        /\ job'.aside = job.aside /\ job'.failed = job.failed /\ job' \in Jobs
        /\ payload' = payload /\ folder' = folder /\ config' = config /\ output' = output
    BY <1>1, <2>1 DEF Proceeds, project
  <2>4. Accounted'
    BY <1>1, <2>1, <2>2, <2>3, EntriesSame
       DEF Project, ImportOK, Accounted, NothingYet, At, Looking, Untouched
  <2>5. Listing'
    BY <1>1, <2>1, <2>3 DEF Project, ImportOK, Listing, At
  <2>6. NoHalf'
    BY <1>1, <2>1, <2>3 DEF Project, ImportOK, NoHalf, At
  <2>7. Configured'
    BY <1>1, <2>1, <2>3 DEF Project, ImportOK, Configured, Looking, Placing, At
  <2>8. Complete'
    BY <2>1 DEF Complete
  <2>9. ImportOK'
    BY <1>1, <2>1, <2>3, <2>4, <2>5, <2>6, <2>7, <2>8 DEF ImportOK, Looking
  <2>10. Typed' /\ Fits' /\ BuildOK' /\ ComparedOK'
    BY <1>1, <2>1, <2>3, ImportRest DEF Project, Typed, Looking
  <2> QED BY <1>1, <2>1, <2>3, <2>9, <2>10 DEF Works, Project, Spares, Running
<1>4. (OnlyStarter(payload) /\ Starter \notin config.exec) \in BOOLEAN
  OBVIOUS
<1> QED BY <1>2, <1>3, <1>4 DEF Imports, Editable, Returns, Returned

(* The configuration with the programs of an import.                        *)
LEMMA WithPrograms ==
  ASSUME NEW c \in Configs, NEW S
  PROVE  LET d == [c EXCEPT !.exec = @ \cup (S \cap Programs)] IN
         d \in Configs /\ d.exec = c.exec \cup (S \cap Programs)
BY AuthoringAssumption DEF Configs

(* The sources are staged.                                                  *)
LEMMA StageWorks == ASSUME Project, Stage, Alone, job.kind = "import" PROVE Works
<1>1. job.pc = "stage" /\ UNCHANGED project
  BY DEF Stage, At
<1>2. CASE job' = [job EXCEPT !.pc = "error"]
  <2>1. Proceeds({"pc"}) /\ job'.pc = "error"
    BY <1>2, PcMoves DEF Project, Typed, JobSteps, Outcomes
  <2>2. ImportOK'
    BY <1>1, <2>1, ImportErrs DEF Project, Looking, project
  <2>3. Typed' /\ Fits' /\ BuildOK' /\ ComparedOK'
    BY <1>1, <2>1, ImportRest DEF Project, Typed, project, Proceeds, Outcomes
  <2> QED BY <1>1, <2>1, <2>2, <2>3 DEF Works, Project, Spares, Running, project, Proceeds
<1> DEFINE c == [job.source EXCEPT !.exec = @ \cup (Brings(job.arg) \cap Programs)]
<1>3. job.source \in Configs
  BY <1>1 DEF Project, ImportOK, Configured
<1>4. c \in Configs /\ c.exec = job.source.exec \cup (Brings(job.arg) \cap Programs)
  BY <1>3, WithPrograms
<1>5. job' = [job EXCEPT !.pc = "error"] \/ job' = [job EXCEPT !.pc = "starter", !.candidate = c]
  BY DEF Stage, Returns, Returned
<1> HIDE DEF c
<1>6. CASE job' = [job EXCEPT !.pc = "starter", !.candidate = c]
  <2>1. Proceeds({"pc", "candidate"}) /\ job'.pc = "starter" /\ job'.candidate = c
    BY <1>4, <1>6, StageMoves DEF Project, Typed
  <2>2. SameEntries
    BY <1>1, <2>1 DEF SameEntries, Proceeds, project
  <2>3. /\ job'.kind = job.kind /\ job'.before = job.before /\ job'.touched = job.touched
        /\ job'.arg = job.arg /\ job'.published = job.published /\ job'.writing = job.writing
        /\ job'.aside = job.aside /\ job'.failed = job.failed /\ job' \in Jobs
        /\ job'.source = job.source
        /\ payload' = payload /\ folder' = folder /\ config' = config /\ output' = output
    BY <1>1, <2>1 DEF Proceeds, project
  <2>4. Accounted'
    BY <1>1, <2>1, <2>2, <2>3, EntriesSame
       DEF Project, ImportOK, Accounted, NothingYet, At, Looking, Untouched
  <2>5. Listing'
    BY <1>1, <2>1, <2>3 DEF Project, ImportOK, Listing, At
  <2>6. NoHalf'
    BY <1>1, <2>1, <2>3 DEF Project, ImportOK, NoHalf, At
  <2>7. Configured'
    BY <1>1, <1>3, <1>4, <2>1, <2>3 DEF Project, ImportOK, Configured, Looking, Placing, At, Brings
  <2>8. Complete'
    BY <2>1 DEF Complete
  <2>9. ImportOK'
    BY <1>1, <2>1, <2>3, <2>4, <2>5, <2>6, <2>7, <2>8 DEF ImportOK, Looking
  <2>10. Typed' /\ Fits' /\ BuildOK' /\ ComparedOK'
    BY <1>1, <2>1, <2>3, ImportRest DEF Project, Typed, Looking
  <2> QED BY <1>1, <2>1, <2>3, <2>9, <2>10 DEF Works, Project, Spares, Running
<1> QED BY <1>2, <1>5, <1>6

(* The import looks at the starter, and compares it.                        *)
LEMMA LooksOn ==
  ASSUME Project, Alone, UNCHANGED project, job.kind = "import", job.pc \in {"starter", "compare"},
         NEW pc \in {"compare", "setAside", "publish", "error"}, job' = [job EXCEPT !.pc = pc],
         pc = "setAside" => payload[Starter] = "sample"
  PROVE  Works
<1>1. Proceeds({"pc"}) /\ job'.pc = pc
  BY PcMoves DEF Project, Typed, JobSteps, Looking, Placing, Outcomes
<1>2. /\ job'.kind = job.kind /\ job'.before = job.before /\ job'.touched = job.touched
      /\ job'.arg = job.arg /\ job'.published = job.published /\ job'.writing = job.writing
      /\ job'.source = job.source /\ job'.candidate = job.candidate /\ job' \in Jobs
      /\ job'.aside = job.aside /\ job'.failed = job.failed
      /\ payload' = payload /\ folder' = folder /\ config' = config /\ output' = output
  BY <1>1 DEF Proceeds, project
<1>3. ASSUME pc = "error" PROVE ImportOK'
  BY <1>1, <1>3, ImportErrs DEF Project, Looking, project
<1>4. ASSUME pc # "error" PROVE ImportOK'
  <2>1. SameEntries
    BY <1>2 DEF SameEntries
  <2>2. Accounted'
    BY <1>1, <1>2, <1>4, <2>1, EntriesSame
       DEF Project, ImportOK, Accounted, NothingYet, At, Looking, Placing, Untouched
  <2>3. Listing'
    BY <1>1, <1>2, <1>4 DEF Project, ImportOK, Listing, At
  <2>4. NoHalf'
    BY <1>1, <1>2 DEF Project, ImportOK, NoHalf, At
  <2>5. Configured'
    BY <1>1, <1>2, <1>4 DEF Project, ImportOK, Configured, Looking, Placing, At, Brings
  <2>6. Complete'
    BY <1>1 DEF Complete
  <2> QED BY <1>1, <1>2, <1>4, <2>2, <2>3, <2>4, <2>5, <2>6 DEF ImportOK, Looking, Placing
<1>5. Typed' /\ Fits' /\ BuildOK' /\ ComparedOK'
  BY <1>1, <1>2, ImportRest DEF Project, Typed, Looking, Placing, Outcomes
<1> QED BY <1>1, <1>2, <1>3, <1>4, <1>5 DEF Works, Project, Spares, Running

LEMMA LookForStarterWorks ==
  ASSUME Project, LookForStarter, Alone, job.kind = "import"
  PROVE  Works
<1>1. \E pc \in {"compare", "publish"} : job' = [job EXCEPT !.pc = pc]
  BY DEF LookForStarter, Goes
<1> QED BY <1>1, LooksOn DEF LookForStarter, At

LEMMA CompareStarterWorks ==
  ASSUME Project, CompareStarter, Alone, job.kind = "import"
  PROVE  Works
<1>1. \E pc \in {"error", "setAside", "publish"} :
        job' = [job EXCEPT !.pc = pc] /\ (pc = "setAside" => payload[Starter] = "sample")
  BY DEF CompareStarter, Goes, Returns, Returned
<1> QED BY <1>1, LooksOn DEF CompareStarter, At

(* The starter is moved aside, whatever it holds by then.                   *)
LEMMA SetAsideWorks == ASSUME Project, SetAside, Alone, job.kind = "import" PROVE Works
<1> DEFINE c == payload[Starter]
           l == job.late \ {Starter}
<1>1. /\ job.pc = "setAside" /\ UNCHANGED <<folder, config, output>>
      /\ c \in {"missing", "sample", "own"}
      /\ c = "sample" \/ Starter \in job.late \cap job.touched
  BY DEF SetAside, At, Project, ComparedOK
<1>2. CASE c = "missing"
  <2>1. job' = [job EXCEPT !.pc = "error"] /\ payload' = payload
    BY <1>2 DEF SetAside, Returns, Returned
  <2>2. Proceeds({"pc"}) /\ job'.pc = "error"
    BY <2>1, PcMoves DEF Project, Typed, JobSteps, Outcomes
  <2>3. ImportOK'
    BY <1>1, <2>1, <2>2, ImportErrs DEF Project, Looking
  <2>4. Typed' /\ Fits' /\ BuildOK' /\ ComparedOK'
    BY <1>1, <2>1, <2>2, ImportRest DEF Project, Typed, Proceeds, Outcomes
  <2> QED BY <1>1, <2>1, <2>2, <2>3, <2>4 DEF Works, Project, Spares, Running, Proceeds
<1>3. CASE c # "missing"
  <2>1. /\ job' = [job EXCEPT !.pc = "publish", !.aside = c, !.late = l]
        /\ payload' = [payload EXCEPT ![Starter] = "missing"]
    BY <1>3 DEF SetAside
  <2>2. l \in SUBSET {"config", Starter} /\ payload \in [Files -> Contents]
    BY DEF Project, Typed, Jobs, Payloads
  <2> HIDE DEF l
  <2>3. Proceeds({"pc", "aside", "late"}) /\ job'.pc = "publish" /\ job'.aside = c
    BY <1>1, <2>1, <2>2, StarterMoves DEF Project, Typed
  <2>4. /\ job'.kind = job.kind /\ job'.before = job.before /\ job'.touched = job.touched
        /\ job'.arg = job.arg /\ job'.published = job.published /\ job'.writing = job.writing
        /\ job'.source = job.source /\ job'.candidate = job.candidate /\ job' \in Jobs
        /\ folder' = folder /\ config' = config /\ output' = output
    BY <1>1, <2>3 DEF Proceeds
  <2>5. job.published = <<>> /\ job.writing = Nothing /\ job.aside = "missing"
    BY <1>1 DEF Project, ImportOK, Accounted, NothingYet, Looking
  <2>6. /\ payload' \in Payloads
        /\ \A f \in Files : payload'[f] = IF f = Starter THEN "missing" ELSE payload[f]
    BY <2>1, <2>2, Constants DEF Payloads, Contents
  <2>7. /\ \A f \in Untouched : payload[f] = job.before.payload[f]
        /\ Folder \notin job.touched => folder = job.before.folder
    BY <1>1, AsBefore DEF Project, Looking
  <2>8. \A e : ~Done(e)'
    BY <2>4, <2>5 DEF Done
  <2>9. Accounted'
    <3>1. Untouched' = Untouched /\ Untouched \subseteq Files
      BY <2>4 DEF Untouched
    <3>2. \A f \in Untouched : FileAccounted(f)'
      BY <1>3, <2>3, <2>4, <2>5, <2>6, <2>7, <2>8, <3>1, Constants DEF FileAccounted
    <3>3. Folder \notin job.touched => FolderAccounted'
      BY <2>4, <2>7, <2>8 DEF FolderAccounted
    <3>4. Starter \notin job.touched => c = "sample" /\ job.before.payload[Starter] = "sample"
      BY <1>1, <2>7, Constants DEF Untouched
    <3> QED BY <2>3, <2>4, <3>1, <3>2, <3>3, <3>4 DEF Accounted, At, Looking
  <2>10. Listing'
    BY <1>1, <2>3, <2>4, <2>5 DEF Project, ImportOK, Listing, At
  <2>11. NoHalf'
    BY <1>1, <2>3, <2>4, <2>6 DEF Project, ImportOK, NoHalf, At
  <2>12. Configured'
    BY <1>1, <2>3, <2>4 DEF Project, ImportOK, Configured, Looking, Placing, At, Brings
  <2>13. Complete'
    BY <2>3 DEF Complete
  <2>14. ImportOK'
    BY <2>3, <2>4, <2>9, <2>10, <2>11, <2>12, <2>13 DEF ImportOK, Placing
  <2>15. Typed' /\ Fits' /\ BuildOK' /\ ComparedOK'
    BY <2>3, <2>4, <2>6, ImportRest DEF Project, Typed, Placing
  <2>16. Spares
    BY <1>1, <2>4, <2>6 DEF Spares
  <2> QED BY <1>1, <2>3, <2>4, <2>14, <2>15, <2>16 DEF Works, Project, Running
<1> QED BY <1>2, <1>3

(* The import gives up: what is published is to be removed.                 *)
LEMMA UndoWorks ==
  ASSUME Project, job.kind = "import", job.pc \in {"publish", "check", "swap"}, job' = Undo(job),
         UNCHANGED <<project, studio>>
  PROVE  ImportOK' /\ Proceeds({"pc", "writing"}) /\ job'.pc = "rollback"
<1>1. Proceeds({"pc", "writing"}) /\ job'.pc = "rollback" /\ job'.writing = Nothing
  BY UndoMoves DEF Project, Typed
<1>2. job.writing = Nothing
  BY DEF Project, ImportOK, Listing, At
<1>3. SameEntries
  BY <1>1, <1>2 DEF SameEntries, Proceeds, project
<1> QED BY <1>1, <1>3, ImportGoes DEF Project, Placing, project

LEMMA UndoneWorks ==
  ASSUME Project, job.kind = "import", job.pc \in {"publish", "check", "swap"}, job' = Undo(job),
         UNCHANGED project, Alone
  PROVE  Works
<1>1. ImportOK' /\ Proceeds({"pc", "writing"}) /\ job'.pc = "rollback"
  BY UndoWorks DEF Alone
<1>2. Typed' /\ Fits' /\ BuildOK' /\ ComparedOK'
  BY <1>1, ImportRest DEF Project, Typed, Placing, Proceeds, project
<1> QED BY <1>1, <1>2 DEF Works, Project, Spares, Running, Proceeds, project

(* The directory is created.                                                *)
LEMMA PublishFolderWorks ==
  ASSUME Project, PublishFolder, Alone, job.kind = "import"
  PROVE  Works
<1>1. job.pc = "publish" /\ ~Done(Folder) /\ UNCHANGED <<payload, config, output>>
  BY DEF PublishFolder, At, NextEntry
<1>2. CASE folder
  BY <1>1, <1>2, UndoneWorks DEF PublishFolder, project
<1>3. CASE ~folder
  <2> DEFINE s == Append(job.published, Folder)
  <2>1. job.published \in Seq(Entries) /\ ~Listed(job.published, Folder)
    BY <1>1, DoneListed DEF Project, Typed, Jobs
  <2>2. /\ s \in Seq(Entries) /\ \A x : Listed(s, x) <=> Listed(job.published, x) \/ x = Folder
        /\ Distinct(job.published) => Distinct(s)
    BY <2>1, Constants, AppendLists
  <2>3. folder' = TRUE /\ job' = [job EXCEPT !.published = s]
    BY <1>3 DEF PublishFolder
  <2> HIDE DEF s
  <2>4. Proceeds({"published"}) /\ job'.published = s
    BY <2>2, <2>3, ListMoves DEF Project, Typed
  <2>5. \A e : Done(e)' <=> Done(e) \/ e = Folder
    BY <2>2, <2>4, DoneListed
  <2>6. /\ job'.kind = job.kind /\ job'.before = job.before /\ job'.touched = job.touched
        /\ job'.arg = job.arg /\ job'.writing = job.writing /\ job'.pc = job.pc
        /\ job'.source = job.source /\ job'.candidate = job.candidate /\ job' \in Jobs
        /\ job'.aside = job.aside
        /\ payload' = payload /\ config' = config /\ output' = output
    BY <1>1, <2>4 DEF Proceeds
  <2>7. Accounted'
    <3>1. Untouched' = Untouched /\ Untouched \subseteq Files
      BY <2>6 DEF Untouched
    <3>2. \A f \in Untouched : FileAccounted(f)
      BY <1>1 DEF Project, ImportOK, Accounted, Placing
    <3>3. \A f \in Untouched : FileAccounted(f)'
      BY <2>5, <2>6, <3>1, <3>2, Constants DEF FileAccounted, WasFree
    <3>4. Folder \notin job.touched => FolderAccounted'
      BY <1>1, <1>3, <2>3, <2>5, <2>6 DEF Project, ImportOK, Accounted, Placing, FolderAccounted
    <3> QED BY <1>1, <2>6, <3>1, <3>3, <3>4 DEF Project, ImportOK, Accounted, At, Looking, Placing
  <2>8. Listing'
    BY <1>1, <2>2, <2>4, <2>6 DEF Project, ImportOK, Listing, At
  <2>9. NoHalf'
    BY <1>1, <2>6 DEF Project, ImportOK, NoHalf, At
  <2>10. Configured'
    BY <1>1, <2>6 DEF Project, ImportOK, Configured, Looking, Placing, At, Brings
  <2>11. Complete'
    BY <1>1, <2>6 DEF Complete
  <2>12. ImportOK'
    BY <1>1, <2>6, <2>7, <2>8, <2>9, <2>10, <2>11 DEF ImportOK, Placing
  <2>13. Typed' /\ Fits' /\ BuildOK' /\ ComparedOK'
    BY <1>1, <2>3, <2>6, ImportRest DEF Project, Typed, Placing
  <2> QED BY <1>1, <2>6, <2>12, <2>13 DEF Works, Project, Spares, Running
<1> QED BY <1>2, <1>3

(* A file is created, still empty.                                          *)
LEMMA PublishOpenWorks ==
  ASSUME Project, PublishOpen, Alone, job.kind = "import"
  PROVE  Works
<1>1. job.pc = "publish" /\ job.writing = Nothing /\ UNCHANGED <<folder, config, output>>
  BY DEF PublishOpen, At
<1>2. PICK f \in Files :
        /\ ~Done(f)
        /\ IF Creatable(f)
             THEN /\ payload' = [payload EXCEPT ![f] = "partial"]
                  /\ job' = [job EXCEPT !.pc = "write", !.writing = f]
             ELSE job' = Undo(job) /\ UNCHANGED payload
  BY DEF PublishOpen, NextEntry
<1>3. CASE ~Creatable(f)
  BY <1>1, <1>2, <1>3, UndoneWorks DEF project
<1>4. CASE Creatable(f)
  <2>1. payload[f] = "missing" /\ payload \in [Files -> Contents]
    BY <1>4 DEF Creatable, Project, Typed, Payloads
  <2>2. /\ payload' \in Payloads
        /\ \A g \in Files : payload'[g] = IF g = f THEN "partial" ELSE payload[g]
    BY <1>2, <1>4, <2>1 DEF Payloads, Contents
  <2>3. Proceeds({"pc", "writing"}) /\ job'.pc = "write" /\ job'.writing = f
    BY <1>2, <1>4, OpenMoves DEF Project, Typed
  <2>4. /\ job'.kind = job.kind /\ job'.before = job.before /\ job'.touched = job.touched
        /\ job'.arg = job.arg /\ job'.published = job.published
        /\ job'.source = job.source /\ job'.candidate = job.candidate /\ job' \in Jobs
        /\ job'.aside = job.aside /\ folder' = folder /\ config' = config /\ output' = output
    BY <1>1, <2>3 DEF Proceeds
  <2>5. \A e : Done(e)' <=> Done(e)
    BY <2>4 DEF Done
  <2>6. Accounted'
    <3>1. Untouched' = Untouched /\ Untouched \subseteq Files
      BY <2>4 DEF Untouched
    <3>2. \A g \in Untouched : FileAccounted(g)
      BY <1>1 DEF Project, ImportOK, Accounted, Placing
    <3>3. \A g \in Untouched : FileAccounted(g)'
      BY <1>1, <1>2, <2>1, <2>2, <2>3, <2>4, <2>5, <3>1, <3>2, Constants DEF FileAccounted, WasFree
    <3>4. Folder \notin job.touched => FolderAccounted'
      BY <1>1, <2>4, <2>5 DEF Project, ImportOK, Accounted, Placing, FolderAccounted
    <3> QED BY <1>1, <2>3, <2>4, <3>1, <3>3, <3>4
            DEF Project, ImportOK, Accounted, At, Looking, Placing
  <2>7. Listing'
    BY <1>1, <1>2, <2>3, <2>4, <2>5 DEF Project, ImportOK, Listing, At
  <2>8. NoHalf'
    BY <1>1, <2>2, <2>3, <2>4 DEF Project, ImportOK, NoHalf, At
  <2>9. Configured'
    BY <1>1, <2>3, <2>4 DEF Project, ImportOK, Configured, Looking, Placing, At, Brings
  <2>10. Complete'
    BY <2>3 DEF Complete
  <2>11. ImportOK'
    BY <2>3, <2>4, <2>6, <2>7, <2>8, <2>9, <2>10 DEF ImportOK, Placing
  <2>12. Typed' /\ Fits' /\ BuildOK' /\ ComparedOK'
    BY <1>1, <2>2, <2>3, <2>4, ImportRest DEF Project, Typed, Placing
  <2>13. Spares
    BY <2>1, <2>2, <2>4 DEF Spares
  <2> QED BY <1>1, <2>3, <2>4, <2>11, <2>12, <2>13 DEF Works, Project, Running
<1> QED BY <1>3, <1>4

(* A file is written and is published.                                      *)
LEMMA PublishWriteWorks ==
  ASSUME Project, PublishWrite, Alone, job.kind = "import"
  PROVE  Works
<1> DEFINE w == job.writing
           s == Append(job.published, w)
<1>1. job.pc = "write" /\ w \in Files /\ ~Done(w) /\ UNCHANGED <<folder, config, output>>
  BY DEF PublishWrite, At, Project, ImportOK, Listing
<1>2. job.published \in Seq(Entries) /\ ~Listed(job.published, w)
  BY <1>1, DoneListed DEF Project, Typed, Jobs
<1>3. /\ s \in Seq(Entries) /\ \A x : Listed(s, x) <=> Listed(job.published, x) \/ x = w
      /\ Distinct(job.published) => Distinct(s)
  BY <1>1, <1>2, Constants, AppendLists
<1>4. /\ job' = [job EXCEPT !.pc = "publish", !.writing = Nothing, !.published = s]
      /\ payload' = IF payload[w] = "partial" THEN [payload EXCEPT ![w] = "import"] ELSE payload
  BY DEF PublishWrite
<1> HIDE DEF s
<1>5. /\ Proceeds({"pc", "writing", "published"})
      /\ job'.pc = "publish" /\ job'.writing = Nothing /\ job'.published = s
  BY <1>3, <1>4, WriteMoves DEF Project, Typed
<1>6. /\ payload' \in Payloads
      /\ \A g \in Files : payload'[g] = IF g = w /\ payload[g] = "partial" THEN "import"
                                        ELSE payload[g]
  BY <1>1, <1>4 DEF Payloads, Contents, Project, Typed
<1>7. \A e : Done(e)' <=> Done(e) \/ e = w
  BY <1>3, <1>5, DoneListed
<1>8. /\ job'.kind = job.kind /\ job'.before = job.before /\ job'.touched = job.touched
      /\ job'.arg = job.arg /\ job'.aside = job.aside
      /\ job'.source = job.source /\ job'.candidate = job.candidate /\ job' \in Jobs
      /\ folder' = folder /\ config' = config /\ output' = output
  BY <1>1, <1>5 DEF Proceeds
<1> HIDE DEF w
<1>9. Accounted'
  <2>1. Untouched' = Untouched /\ Untouched \subseteq Files
    BY <1>8 DEF Untouched
  <2>2. \A g \in Untouched : FileAccounted(g)
    BY <1>1 DEF Project, ImportOK, Accounted, Placing
  <2>3. \A g \in Untouched : FileAccounted(g)'
    BY <1>1, <1>5, <1>6, <1>7, <1>8, <2>1, <2>2, Constants DEF FileAccounted, WasFree, w
  <2>4. Folder \notin job.touched => FolderAccounted'
    BY <1>1, <1>7, <1>8, Constants DEF Project, ImportOK, Accounted, Placing, FolderAccounted
  <2> QED BY <1>1, <1>5, <1>8, <2>1, <2>3, <2>4
          DEF Project, ImportOK, Accounted, At, Looking, Placing
<1>10. Listing'
  BY <1>3, <1>5 DEF Project, ImportOK, Listing, At
<1>11. NoHalf'
  BY <1>1, <1>5, <1>6, <1>8 DEF Project, ImportOK, NoHalf, At, w
<1>12. Configured'
  BY <1>1, <1>5, <1>8 DEF Project, ImportOK, Configured, Looking, Placing, At, Brings
<1>13. Complete'
  BY <1>5 DEF Complete
<1>14. ImportOK'
  BY <1>5, <1>8, <1>9, <1>10, <1>11, <1>12, <1>13 DEF ImportOK, Placing
<1>15. Typed' /\ Fits' /\ BuildOK' /\ ComparedOK'
  BY <1>1, <1>5, <1>6, <1>8, ImportRest DEF Project, Typed, Placing
<1>16. Spares
  BY <1>6, <1>8 DEF Spares
<1> QED BY <1>1, <1>5, <1>8, <1>14, <1>15, <1>16 DEF Works, Project, Running

(* Everything is published, and the project is prepared again.              *)
LEMMA VerifyWorks == ASSUME Project, Verify, Alone, job.kind = "import" PROVE Works
<1>1. job.pc = "publish" /\ UNCHANGED project /\ \A e \in Wanted : Done(e)
  BY DEF Verify, At
<1>2. CASE ~Valid(job.candidate, payload)
  BY <1>1, <1>2, UndoneWorks DEF Verify
<1>3. CASE Valid(job.candidate, payload)
  <2>1. Proceeds({"pc"}) /\ job'.pc = "check"
    BY <1>3, PcMoves DEF Verify, Project, Typed, JobSteps, Placing
  <2>2. SameEntries /\ Proceeds({"pc", "writing"})
    BY <1>1, <2>1 DEF SameEntries, Proceeds, project
  <2>3. ImportOK'
    BY <1>1, <1>3, <2>1, <2>2, ImportGoes DEF Project, Placing, project
  <2>4. Typed' /\ Fits' /\ BuildOK' /\ ComparedOK'
    BY <1>1, <2>1, ImportRest DEF Project, Typed, Placing, Proceeds, project
  <2> QED BY <1>1, <2>1, <2>3, <2>4 DEF Works, Project, Spares, Running, Proceeds, project
<1> QED BY <1>2, <1>3

(* An import is done, with this configuration.                              *)
LEMMA ImportDone ==
  ASSUME Project, job.kind = "import", job.pc \in {"check", "swap"}, Proceeds({"pc"}),
         job'.pc = "ok", UNCHANGED <<payload, folder>>, config' = job.candidate
  PROVE  ImportOK'
<1>1. SameEntries
  BY DEF SameEntries, Proceeds
<1>2. /\ job'.kind = job.kind /\ job'.before = job.before /\ job'.touched = job.touched
      /\ job'.source = job.source /\ job'.candidate = job.candidate /\ job'.arg = job.arg
      /\ job'.published = job.published /\ job'.writing = job.writing
      /\ job'.aside = job.aside /\ payload' = payload /\ folder' = folder
  BY <1>1 DEF Proceeds
<1>3. Accounted'
  BY <1>1, <1>2, EntriesSame DEF Project, ImportOK, Accounted, At, Looking, Placing, Untouched
<1>4. Listing'
  BY <1>1, <1>2, EntriesSame DEF Project, ImportOK, Listing, At
<1>5. NoHalf'
  BY <1>2 DEF Project, ImportOK, NoHalf, At
<1>6. Configured'
  BY <1>2 DEF Project, ImportOK, Configured, Looking, Placing, At, Brings
<1>7. Complete'
  BY <1>1, <1>2, EntriesSame
     DEF Project, ImportOK, Complete, Wanted, Brings, Valid, Present, WellFormed, EntryOwned
<1> QED BY <1>2, <1>3, <1>4, <1>5, <1>6, <1>7 DEF ImportOK, Outcomes

(* The configuration is compared with what was read.                        *)
LEMMA CheckWorks == ASSUME Project, Check, Alone PROVE Works
<1>1. job.pc = "check" /\ UNCHANGED project /\ job.kind # "build"
  BY Whose DEF Check, At, Project, Outcomes
<1>2. CASE config # job.source /\ job.kind = "import"
  BY <1>1, <1>2, UndoneWorks DEF Check, Fail
<1>3. CASE config # job.source /\ job.kind # "import"
  <2>1. Proceeds({"pc"}) /\ job'.pc = "error"
    BY <1>3, PcMoves DEF Check, Fail, Project, Typed, JobSteps, Outcomes
  <2>2. Typed' /\ Fits'
    BY <1>1, <2>1, JobTypes DEF Project, Typed, Proceeds, project
  <2>3. ImportOK' /\ BuildOK' /\ ComparedOK'
    BY <1>3, <2>1, NoImport, NoBuild, NoComparison DEF Own, Proceeds
  <2> QED BY <1>1, <2>1, <2>2, <2>3 DEF Works, Project, Spares, Running, Proceeds, project
<1>4. CASE config = job.source /\ job.kind = "import" /\ job.candidate = job.source
  <2>1. Proceeds({"pc"}) /\ job'.pc = "ok"
    BY <1>4, PcMoves DEF Check, Returned, Project, Typed, JobSteps, Outcomes
  <2>2. ImportOK'
    BY <1>1, <1>4, <2>1, ImportDone DEF project
  <2>3. Typed' /\ Fits' /\ BuildOK' /\ ComparedOK'
    BY <1>1, <1>4, <2>1, ImportRest DEF Project, Typed, Outcomes, Proceeds, project
  <2> QED BY <1>1, <2>1, <2>2, <2>3 DEF Works, Project, Spares, Running, Proceeds, project
<1>5. CASE config = job.source /\ ~(job.kind = "import" /\ job.candidate = job.source)
  <2>1. Proceeds({"pc"}) /\ job'.pc = "swap"
    BY <1>5, PcMoves DEF Check, Project, Typed, JobSteps, Placing
  <2>2. SameEntries /\ Proceeds({"pc", "writing"})
    BY <1>1, <2>1 DEF SameEntries, Proceeds, project
  <2>3. ImportOK'
    <3>1. CASE job.kind = "import"
      <4>1. Complete
        BY <3>1 DEF Project, ImportOK
      <4> QED BY <1>1, <2>1, <2>2, <3>1, <4>1, ImportGoes DEF Project, Placing, project, Complete
    <3>2. CASE job.kind # "import"
      BY <2>1, <3>2, NoImport DEF Own, Proceeds
    <3> QED BY <3>1, <3>2
  <2>4. Typed' /\ Fits'
    BY <1>1, <2>1, JobTypes DEF Project, Typed, Proceeds, project
  <2>5. BuildOK' /\ ComparedOK'
    BY <1>1, <1>5, <2>1, NoBuild DEF Project, ComparedOK, At, Proceeds, project
  <2> QED BY <1>1, <2>1, <2>3, <2>4, <2>5 DEF Works, Project, Spares, Running, Proceeds, project
<1> QED BY <1>2, <1>3, <1>4, <1>5

(* The configuration is replaced.                                           *)
LEMMA SwapWorks == ASSUME Project, Swap, Alone PROVE Works
<1>1. /\ job.pc = "swap" /\ UNCHANGED <<payload, folder, output>> /\ config' = job.candidate
      /\ job.kind \in {"update", "import"} /\ (config = job.source \/ "config" \in job.late)
  BY DEF Swap, At, Project, ComparedOK
<1>2. Proceeds({"pc"}) /\ job'.pc = "ok"
  BY PcMoves DEF Swap, Returns, Returned, Project, Typed, JobSteps, Outcomes
<1>3. ImportOK'
  BY <1>1, <1>2, ImportDone, NoImport DEF Own, Proceeds
<1>4. job.candidate \in Configs
  BY <1>1 DEF Project, ComparedOK, ImportOK, Configured, At, Placing
<1>5. Typed' /\ Fits'
  BY <1>1, <1>2, <1>4, JobTypes DEF Project, Typed, Proceeds, AnyConfig
<1>6. BuildOK' /\ ComparedOK'
  BY <1>1, <1>2, <1>4, NoBuild DEF ComparedOK, At, Proceeds
<1>7. Spares
  BY <1>1 DEF Spares
<1> QED BY <1>1, <1>2, <1>3, <1>5, <1>6, <1>7 DEF Works, Project, Running, Proceeds

(* The rollback is over, or fails: the starter is next.                     *)
LEMMA RestoresNext ==
  ASSUME Typed, ImportOK, job.kind = "import", job.pc = "rollback",
         \/ Proceeds({"pc"}) /\ job.published = <<>>
         \/ Proceeds({"pc", "failed"}) /\ job'.failed,
         job'.pc = "restore", UNCHANGED <<payload, folder, config>>
  PROVE  ImportOK'
<1>1. SameEntries
  BY DEF SameEntries, Proceeds
<1>2. /\ job'.kind = job.kind /\ job'.before = job.before /\ job'.touched = job.touched
      /\ job'.source = job.source /\ job'.candidate = job.candidate /\ job'.arg = job.arg
      /\ job'.published = job.published /\ job'.writing = job.writing
      /\ job'.aside = job.aside /\ payload' = payload /\ folder' = folder
      /\ ~job'.failed => job'.published = <<>>
  BY <1>1 DEF Proceeds
<1>3. Accounted'
  BY <1>1, <1>2, EntriesSame DEF ImportOK, Accounted, At, Looking, Placing, Untouched
<1>4. Listing'
  BY <1>1, <1>2, EntriesSame DEF ImportOK, Listing, At
<1>5. NoHalf'
  BY <1>2 DEF ImportOK, NoHalf, At
<1>6. Configured'
  BY <1>2 DEF ImportOK, Configured, Looking, Placing, At, Brings
<1>7. Complete'
  BY <1>2 DEF Complete
<1> QED BY <1>2, <1>3, <1>4, <1>5, <1>6, <1>7 DEF ImportOK, Placing

(* A rollback takes back the last entry that was published.                 *)
LEMMA RollbackImportWorks ==
  ASSUME Project, RollbackImport, Alone, job.kind = "import"
  PROVE  Works
<1>1. /\ job.pc = "rollback" /\ UNCHANGED <<config, output>> /\ job.writing = Nothing
  BY DEF RollbackImport, At, Project, ImportOK, Listing
<1>2. CASE job.published = <<>>
  <2>1. Proceeds({"pc"}) /\ job'.pc = "restore" /\ UNCHANGED <<payload, folder>>
    BY <1>2, PcMoves DEF RollbackImport, Goes, Project, Typed, JobSteps, Placing
  <2>2. ImportOK'
    BY <1>1, <1>2, <2>1, RestoresNext DEF Project
  <2>3. Typed' /\ Fits' /\ BuildOK' /\ ComparedOK'
    BY <1>1, <2>1, ImportRest DEF Project, Typed, Placing, Proceeds
  <2> QED BY <1>1, <2>1, <2>2, <2>3 DEF Works, Project, Spares, Running, Proceeds
<1>3. CASE job.published # <<>> /\ Last = Folder /\ \E f \in Inside : payload[f] # "missing"
  <2>1. job' = [job EXCEPT !.pc = "restore", !.failed = TRUE] /\ UNCHANGED <<payload, folder>>
    BY <1>3 DEF RollbackImport
  <2>2. Proceeds({"pc", "failed"}) /\ job'.pc = "restore" /\ job'.failed
    BY <2>1, FailedMoves DEF Project, Typed
  <2>3. ImportOK'
    BY <1>1, <2>1, <2>2, RestoresNext DEF Project
  <2>4. Typed' /\ Fits' /\ BuildOK' /\ ComparedOK'
    BY <1>1, <2>1, <2>2, ImportRest DEF Project, Typed, Placing, Proceeds
  <2> QED BY <1>1, <2>1, <2>2, <2>3, <2>4 DEF Works, Project, Spares, Running, Proceeds
<1>4. CASE /\ job.published # <<>>
           /\ ~(Last = Folder /\ \E f \in Inside : payload[f] # "missing")
  <2> DEFINE s == SubSeq(job.published, 1, Len(job.published) - 1)
  <2>1. job.published \in Seq(Entries) /\ Distinct(job.published)
    BY DEF Project, Typed, Jobs, ImportOK, Listing
  <2>2. /\ s \in Seq(Entries) /\ Last \in Entries /\ Listed(job.published, Last) /\ Distinct(s)
        /\ \A x : Listed(s, x) <=> Listed(job.published, x) /\ x # Last
    BY <1>4, <2>1, PopLists DEF Last
  <2>3. job' = [job EXCEPT !.published = s]
    BY <1>4 DEF RollbackImport, Popped
  <2> HIDE DEF s
  <2>4. Proceeds({"published"}) /\ job'.published = s
    BY <2>2, <2>3, ListMoves DEF Project, Typed
  <2>5. Done(Last) /\ \A e : Done(e)' <=> Done(e) /\ e # Last
    BY <2>2, <2>4, DoneListed
  <2>6. /\ job'.kind = job.kind /\ job'.before = job.before /\ job'.touched = job.touched
        /\ job'.arg = job.arg /\ job'.aside = job.aside /\ job'.pc = job.pc
        /\ job'.source = job.source /\ job'.candidate = job.candidate /\ job' \in Jobs
        /\ job'.writing = job.writing /\ config' = config /\ output' = output
    BY <1>1, <2>4 DEF Proceeds
  <2>7. /\ payload' \in Payloads /\ folder' \in BOOLEAN
        /\ \A g \in Files : payload'[g] = IF g = Last THEN "missing" ELSE payload[g]
        /\ folder' = IF Last = Folder THEN FALSE ELSE folder
    <3>1. CASE Last # Folder
      <4>1. Last \in Files /\ payload \in [Files -> Contents]
        BY <2>2, <3>1 DEF Entries, Project, Typed, Payloads
      <4>2. payload' = [payload EXCEPT ![Last] = "missing"] /\ folder' = folder
        BY <1>4, <3>1 DEF RollbackImport
      <4> HIDE DEF Last
      <4> QED BY <3>1, <4>1, <4>2 DEF Project, Typed, Payloads, Contents
    <3>2. CASE Last = Folder
      BY <1>4, <3>2, Constants DEF RollbackImport, Project, Typed
    <3> QED BY <3>1, <3>2
  <2>8. Accounted'
    <3>1. Untouched' = Untouched /\ Untouched \subseteq Files
      BY <2>6 DEF Untouched
    <3>2. \A g \in Untouched : FileAccounted(g)
      BY <1>1 DEF Project, ImportOK, Accounted, Placing
    <3>3. \A g \in Untouched : FileAccounted(g)'
      BY <1>1, <2>5, <2>6, <2>7, <3>1, <3>2, Constants DEF FileAccounted, WasFree
    <3>4. Folder \notin job.touched => FolderAccounted
      BY <1>1 DEF Project, ImportOK, Accounted, Placing
    <3>5. Done(Folder)' <=> Done(Folder) /\ Folder # Last
      BY <2>5
    <3>6. Folder \notin job.touched => FolderAccounted'
      <4>1. CASE Last = Folder
        <5>1. Done(Folder) /\ ~Done(Folder)' /\ folder' = FALSE
          BY <2>5, <2>7, <3>5, <4>1
        <5>2. Folder \notin job.touched => ~job.before.folder
          BY <3>4, <5>1 DEF FolderAccounted
        <5> QED BY <2>6, <5>1, <5>2, TypedBefore DEF FolderAccounted
      <4>2. CASE Last # Folder
        BY <2>6, <2>7, <3>4, <3>5, <4>2 DEF FolderAccounted
      <4> QED BY <4>1, <4>2
    <3> QED BY <1>1, <2>6, <3>1, <3>3, <3>6 DEF Project, ImportOK, Accounted, At, Looking, Placing
  <2>9. Listing'
    BY <1>1, <2>2, <2>4, <2>6 DEF Listing, At
  <2>10. NoHalf'
    BY <1>1, <2>6, <2>7 DEF Project, ImportOK, NoHalf, At
  <2>11. Configured'
    BY <1>1, <2>6 DEF Project, ImportOK, Configured, Looking, Placing, At, Brings
  <2>12. Complete'
    BY <1>1, <2>6 DEF Complete
  <2>13. ImportOK'
    BY <1>1, <2>6, <2>8, <2>9, <2>10, <2>11, <2>12 DEF ImportOK, Placing
  <2>14. Typed' /\ Fits' /\ BuildOK' /\ ComparedOK'
    BY <1>1, <2>6, <2>7, ImportRest DEF Project, Typed, Placing
  <2>15. Spares
    BY <2>5, <2>6, <2>7 DEF Spares
  <2> QED BY <1>1, <2>6, <2>13, <2>14, <2>15 DEF Works, Project, Running
<1> QED BY <1>2, <1>3, <1>4

(* The rollback looks whether the starter is to be put back.                *)
LEMMA RestoreStarterWorks ==
  ASSUME Project, RestoreStarter, Alone, job.kind = "import"
  PROVE  Works
<1>1. /\ job.pc = "restore" /\ job.writing = Nothing /\ UNCHANGED project
      /\ ~job.failed => job.published = <<>>
  BY DEF RestoreStarter, At, Project, ImportOK, Listing, Accounted
<1>2. PICK pc \in {"stuck", "error", "putBack"} :
        /\ job' = [job EXCEPT !.pc = pc]
        /\ pc = "error" => ~job.failed /\ job.aside = "missing"
        /\ pc = "putBack" => job.aside # "missing" /\ payload[Starter] = "missing"
  BY DEF RestoreStarter, Goes, Returns, Returned
<1>3. Proceeds({"pc"}) /\ job'.pc = pc
  BY <1>2, PcMoves DEF Project, Typed, JobSteps, Placing, Outcomes
<1>4. /\ job'.kind = job.kind /\ job'.before = job.before /\ job'.touched = job.touched
      /\ job'.arg = job.arg /\ job'.published = job.published /\ job' \in Jobs
      /\ job'.source = job.source /\ job'.candidate = job.candidate
      /\ job'.writing = job.writing /\ job'.aside = job.aside /\ job'.failed = job.failed
      /\ payload' = payload /\ config' = config /\ output' = output /\ folder' = folder
  BY <1>1, <1>3 DEF Proceeds, project
<1>5. Accounted'
  <2>1. /\ \A g \in Untouched : FileAccounted(g)
        /\ Folder \notin job.touched => FolderAccounted
    BY <1>1 DEF Project, ImportOK, Accounted, Placing
  <2>2. CASE pc = "error"
    <3>1. \A e : ~Done(e)
      BY <1>1, <1>2, <2>2, NoneDone
    <3>2. \A g \in Untouched : payload[g] = job.before.payload[g]
      BY <1>1, <1>2, <2>1, <2>2, <3>1, Constants DEF FileAccounted, Untouched
    <3>3. Folder \notin job.touched => folder = job.before.folder
      BY <2>1, <3>1 DEF FolderAccounted
    <3> QED BY <1>3, <1>4, <2>2, <3>2, <3>3 DEF Accounted, At, Looking, Placing, Untouched
  <2>3. CASE pc = "stuck"
    BY <1>3, <2>3 DEF Accounted, At, Looking, Placing
  <2>4. CASE pc = "putBack"
    <3>1. SameEntries
      BY <1>4 DEF SameEntries
    <3> QED BY <1>1, <1>3, <1>4, <2>4, <3>1, EntriesSame
            DEF Project, ImportOK, Accounted, At, Looking, Placing, Untouched
  <2> QED BY <2>2, <2>3, <2>4
<1>6. Listing'
  BY <1>1, <1>3, <1>4 DEF Project, ImportOK, Listing, At
<1>7. NoHalf'
  BY <1>1, <1>4 DEF Project, ImportOK, NoHalf, At
<1>8. Configured'
  BY <1>1, <1>3, <1>4 DEF Project, ImportOK, Configured, Looking, Placing, At, Brings
<1>9. Complete'
  BY <1>3 DEF Complete
<1>10. ImportOK'
  BY <1>3, <1>4, <1>5, <1>6, <1>7, <1>8, <1>9 DEF ImportOK, Placing, Outcomes
<1>11. Typed' /\ Fits' /\ BuildOK' /\ ComparedOK'
  BY <1>2, <1>3, <1>4, ImportRest DEF Project, Typed, Placing, Outcomes
<1>12. Spares
  BY <1>4 DEF Spares
<1> QED BY <1>1, <1>3, <1>4, <1>10, <1>11, <1>12 DEF Works, Project, Running

(* What was set aside is put back, over what has come there since.          *)
LEMMA PutBackWorks == ASSUME Project, PutBack, Alone, job.kind = "import" PROVE Works
<1>1. /\ job.pc = "putBack" /\ UNCHANGED <<folder, config, output>> /\ job.writing = Nothing
      /\ ~job.failed => job.published = <<>>
      /\ job.aside # "missing" /\ (payload[Starter] = "missing" \/ Starter \in job.late)
  BY DEF PutBack, At, Project, ImportOK, Listing, Accounted, ComparedOK
<1>2. PICK pc \in {"stuck", "error"} : job' = [job EXCEPT !.pc = pc] /\ (pc = "error" => ~job.failed)
  BY DEF PutBack, Returns, Returned
<1>3. Proceeds({"pc"}) /\ job'.pc = pc
  BY <1>2, PcMoves DEF Project, Typed, JobSteps, Outcomes
<1>4. /\ payload' \in Payloads /\ job.aside \in {"missing", "sample", "own"}
      /\ \A g \in Files : payload'[g] = IF g = Starter THEN job.aside ELSE payload[g]
  BY DEF PutBack, Project, Typed, Jobs, Payloads, Contents
<1>5. /\ job'.kind = job.kind /\ job'.before = job.before /\ job'.touched = job.touched
      /\ job'.arg = job.arg /\ job'.published = job.published /\ job' \in Jobs
      /\ job'.writing = job.writing /\ config' = config /\ output' = output /\ folder' = folder
  BY <1>1, <1>3 DEF Proceeds
<1>6. Accounted'
  <2>1. Untouched' = Untouched /\ Untouched \subseteq Files
    BY <1>5 DEF Untouched
  <2>2. /\ \A g \in Untouched : FileAccounted(g)
        /\ Folder \notin job.touched => FolderAccounted
        /\ Starter \notin job.touched =>
             job.aside = "sample" /\ job.before.payload[Starter] = "sample"
    BY <1>1 DEF Project, ImportOK, Accounted, Placing
  <2>3. CASE pc = "error"
    <3>1. \A e : ~Done(e)
      BY <1>1, <1>2, <2>3, NoneDone
    <3>2. \A g \in Untouched : payload'[g] = job.before.payload[g]
      BY <1>1, <1>4, <2>1, <2>2, <3>1, Constants DEF FileAccounted, Untouched
    <3>3. Folder \notin job.touched => folder = job.before.folder
      BY <2>2, <3>1 DEF FolderAccounted
    <3> QED BY <1>3, <1>5, <2>1, <2>3, <3>2, <3>3 DEF Accounted, At, Looking, Placing
  <2>4. CASE pc # "error"
    BY <1>3, <2>4 DEF Accounted, At, Looking, Placing
  <2> QED BY <2>3, <2>4
<1>7. Listing'
  BY <1>1, <1>3, <1>5 DEF Project, ImportOK, Listing, At
<1>8. NoHalf'
  BY <1>1, <1>4, <1>5 DEF Project, ImportOK, NoHalf, At
<1>9. Configured'
  BY <1>1, <1>3, <1>5 DEF Project, ImportOK, Configured, Looking, Placing, At
<1>10. Complete'
  BY <1>3 DEF Complete
<1>11. ImportOK'
  BY <1>3, <1>5, <1>6, <1>7, <1>8, <1>9, <1>10 DEF ImportOK, Outcomes
<1>12. Typed' /\ Fits' /\ BuildOK' /\ ComparedOK'
  BY <1>1, <1>3, <1>4, <1>5, ImportRest DEF Project, Typed, Outcomes
<1>13. Spares
  BY <1>1, <1>4, <1>5 DEF Spares
<1> QED BY <1>1, <1>3, <1>5, <1>11, <1>12, <1>13 DEF Works, Project, Running

(* A step of the worker.                                                    *)
LEMMA JobStepWorks ==
  ASSUME Project, JobStep, UNCHANGED studio
  PROVE  Works /\ (output' # output => output'.valid /\ output'.intact)
<1>1. Alone
  BY DEF JobStep, Alone
<1>2. ASSUME Read PROVE Works /\ output' = output
  BY <1>1, <1>2, ChecksWork, UpdatesWork, ImportsWork, BuildsWork DEF Read, project
<1>3. ASSUME InitLooks \/ WriteSample \/ WriteConfig PROVE Works /\ output' = output
  BY <1>1, <1>3, InitLooksWorks, WriteSampleWorks, WriteConfigWorks
     DEF InitLooks, WriteSample, WriteConfig, project
<1>4. ASSUME \/ Stage \/ LookForStarter \/ CompareStarter \/ SetAside \/ PublishFolder
             \/ PublishOpen \/ PublishWrite \/ Verify \/ RollbackImport \/ RestoreStarter
             \/ PutBack
      PROVE  Works /\ output' = output
  <2>1. job.pc \in Own
    BY <1>4 DEF Stage, LookForStarter, CompareStarter, SetAside, PublishFolder, PublishOpen,
                PublishWrite, Verify, RollbackImport, RestoreStarter, PutBack, At, Own
  <2>2. job.kind = "import"
    BY <2>1 DEF Project, ImportOK
  <2>3. Works
    BY <1>1, <1>4, <2>2, StageWorks, LookForStarterWorks, CompareStarterWorks, SetAsideWorks,
       PublishFolderWorks, PublishOpenWorks, PublishWriteWorks, VerifyWorks, RollbackImportWorks,
       RestoreStarterWorks, PutBackWorks
  <2>4. output' = output
    BY <1>4 DEF Stage, LookForStarter, CompareStarter, SetAside, PublishFolder, PublishOpen,
                PublishWrite, Verify, RollbackImport, RestoreStarter, PutBack, project
  <2> QED BY <2>3, <2>4
<1>5. ASSUME Check \/ Swap \/ Snapshot \/ Archive PROVE Works /\ output' = output
  BY <1>1, <1>5, CheckWorks, SwapWorks, SnapshotWorks, ArchiveWorks
     DEF Check, Swap, Snapshot, Archive, project
<1>6. ASSUME ReplaceOutput PROVE Works /\ output'.valid /\ output'.intact
  BY <1>1, <1>6, ReplaceOutputWorks
<1> QED BY <1>2, <1>3, <1>4, <1>5, <1>6 DEF JobStep

-----------------------------------------------------------------------------
(* Failures, kills and the user.                                            *)

Around == UNCHANGED <<folder, config, output, edits, studio>> /\ faults' \in Nat

(* The step that writes a file fails, and the file is removed.              *)
LEMMA WriteFails ==
  ASSUME Project, job.pc = "write", job' = Undo(job), Around,
         payload' = [payload EXCEPT ![job.writing] = "missing"]
  PROVE  Works
<1> DEFINE w == job.writing
<1>1. job.kind = "import" /\ w \in Files /\ ~Done(w)
  BY DEF Project, ImportOK, Own, Listing, At
<1>2. Proceeds({"pc", "writing"}) /\ job'.pc = "rollback" /\ job'.writing = Nothing
  BY UndoMoves DEF Project, Typed
<1>3. /\ payload' \in Payloads
      /\ \A g \in Files : payload'[g] = IF g = w THEN "missing" ELSE payload[g]
  BY <1>1 DEF Payloads, Contents, Project, Typed
<1>4. /\ job'.kind = job.kind /\ job'.before = job.before /\ job'.touched = job.touched
      /\ job'.arg = job.arg /\ job'.aside = job.aside /\ job'.published = job.published
      /\ job'.source = job.source /\ job'.candidate = job.candidate /\ job' \in Jobs
      /\ folder' = folder /\ config' = config /\ output' = output
  BY <1>2 DEF Proceeds, Around
<1>5. \A e : Done(e)' <=> Done(e)
  BY <1>4 DEF Done
<1>6. Accounted'
  <2>1. Untouched' = Untouched /\ Untouched \subseteq Files
    BY <1>4 DEF Untouched
  <2>2. \A g \in Untouched : FileAccounted(g)
    BY DEF Project, ImportOK, Own, Accounted, Placing
  <2>3. \A g \in Untouched : FileAccounted(g)'
    BY <1>1, <1>2, <1>3, <1>4, <1>5, <2>1, <2>2, Constants DEF FileAccounted, WasFree
  <2>4. Folder \notin job.touched => FolderAccounted
    BY <1>1 DEF Project, ImportOK, Accounted, Placing
  <2>5. Folder \notin job.touched => FolderAccounted'
    BY <1>4, <1>5, <2>4 DEF FolderAccounted
  <2> QED BY <1>1, <1>2, <1>4, <2>1, <2>3, <2>5
          DEF Project, ImportOK, Accounted, At, Looking, Placing
<1>7. Listing'
  BY <1>1, <1>2, <1>4 DEF Project, ImportOK, Listing, At
<1>8. NoHalf'
  BY <1>1, <1>2, <1>3, <1>4 DEF Project, ImportOK, NoHalf, At
<1>9. Configured'
  BY <1>1, <1>2, <1>4 DEF Project, ImportOK, Configured, Looking, Placing, At, Brings
<1>10. Complete'
  BY <1>2 DEF Complete
<1>11. ImportOK'
  BY <1>1, <1>2, <1>4, <1>6, <1>7, <1>8, <1>9, <1>10 DEF ImportOK, Placing
<1>12. Typed'
  BY <1>3, <1>4 DEF Project, Typed, Around, studio
<1>13. Fits'
  BY <1>4, FitsWorks DEF Project, Around
<1>14. BuildOK' /\ ComparedOK'
  BY <1>1, <1>2, <1>4, NoBuild, NoComparison
<1>15. Spares
  BY <1>3, <1>4 DEF Spares
<1> QED BY <1>2, <1>4, <1>11, <1>12, <1>13, <1>14, <1>15 DEF Works, Project, Running

(* Another step fails.                                                      *)
LEMMA PlaceFails ==
  ASSUME Project, Running, Around, payload' = payload, job' \in Jobs, job'.kind = job.kind,
         job'.arg = job.arg, job'.before = job.before, ImportOK',
         job'.pc \in {"error", "rollback", "restore", "stuck"},
         job'.kind = "build" => job'.pc = "error"
  PROVE  Works
<1>1. Typed'
  BY DEF Project, Typed, Around, studio
<1>2. Fits'
  BY FitsWorks DEF Project, Around
<1>3. BuildOK' /\ ComparedOK'
  BY NoBuild, NoComparison
<1> QED BY <1>1, <1>2, <1>3 DEF Works, Project, Spares, Around

LEMMA StepFailsWorks == ASSUME Project, StepFails, UNCHANGED studio PROVE Works
<1>1. Around
  BY DEF StepFails, Around, Project, Typed
<1>2. CASE /\ job.pc \in {"create", "sample", "fill", "config", "fillConfig", "read", "stage",
                          "starter", "compare", "setAside", "snapshot", "replace"}
           /\ job' = [job EXCEPT !.pc = "error"] /\ payload' = payload
  <2>1. Proceeds({"pc"}) /\ job'.pc = "error"
    BY <1>2, PcMoves DEF Project, Typed, JobSteps, Outcomes
  <2>2. ImportOK'
    <3>1. CASE job.kind = "import"
      <4>1. job.pc \in Looking
        BY <1>2, <3>1, Whose DEF Project, Looking, Placing, Outcomes
      <4> QED BY <1>1, <1>2, <2>1, <3>1, <4>1, ImportErrs DEF Project, Around
    <3>2. CASE job.kind # "import"
      BY <2>1, <3>2, NoImport DEF Own, Proceeds
    <3> QED BY <3>1, <3>2
  <2> QED BY <1>1, <1>2, <2>1, <2>2, PlaceFails DEF Proceeds, Running
<1>3. CASE job.pc \in {"publish", "check", "swap"} /\ job.kind = "import" /\ job' = Undo(job)
           /\ payload' = payload
  <2>1. ImportOK' /\ Proceeds({"pc", "writing"}) /\ job'.pc = "rollback"
    BY <1>1, <1>3, UndoWorks DEF Around, project
  <2> QED BY <1>1, <1>3, <2>1, PlaceFails DEF Proceeds, Running
<1>4. CASE job.pc \in {"check", "swap"} /\ job.kind # "import"
           /\ job' = [job EXCEPT !.pc = "error"] /\ payload' = payload
  <2>1. Proceeds({"pc"}) /\ job'.pc = "error"
    BY <1>4, PcMoves DEF Project, Typed, JobSteps, Outcomes
  <2>2. ImportOK'
    BY <1>4, <2>1, NoImport DEF Own, Proceeds
  <2> QED BY <1>1, <1>4, <2>1, <2>2, PlaceFails DEF Proceeds, Running
<1>5. CASE /\ job.pc = "write" /\ job' = Undo(job)
           /\ payload' = [payload EXCEPT ![job.writing] = "missing"]
  BY <1>1, <1>5, WriteFails
<1>6. CASE /\ job.pc = "rollback" /\ job' = [job EXCEPT !.pc = "restore", !.failed = TRUE]
           /\ payload' = payload
  <2>1. Proceeds({"pc", "failed"}) /\ job'.pc = "restore" /\ job'.failed
    BY <1>6, FailedMoves DEF Project, Typed
  <2>2. job.kind = "import"
    BY <1>6 DEF Project, ImportOK, Own
  <2>3. ImportOK'
    BY <1>1, <1>6, <2>1, <2>2, RestoresNext DEF Project, Around
  <2> QED BY <1>1, <1>6, <2>1, <2>2, <2>3, PlaceFails DEF Proceeds, Running
<1>7. CASE /\ job.pc \in {"restore", "putBack"} /\ job' = [job EXCEPT !.pc = "stuck"]
           /\ payload' = payload
  <2>1. Proceeds({"pc"}) /\ job'.pc = "stuck"
    BY <1>7, PcMoves DEF Project, Typed, JobSteps, Outcomes
  <2>2. job.kind = "import"
    BY <1>7 DEF Project, ImportOK, Own
  <2>3. ImportOK'
    <3>1. /\ job'.kind = job.kind /\ job'.before = job.before /\ job'.touched = job.touched
          /\ job'.published = job.published /\ job'.writing = job.writing
          /\ config' = config
      BY <1>1, <2>1 DEF Proceeds, Around
    <3>2. Accounted'
      BY <2>1 DEF Accounted, At, Looking, Placing
    <3>3. Listing' /\ NoHalf'
      BY <1>7, <2>1, <2>2, <3>1 DEF Project, ImportOK, Listing, NoHalf, At
    <3>4. Configured'
      BY <1>7, <2>1, <2>2, <3>1 DEF Project, ImportOK, Configured, Looking, Placing, At
    <3>5. Complete'
      BY <2>1 DEF Complete
    <3> QED BY <2>1, <2>2, <3>1, <3>2, <3>3, <3>4, <3>5 DEF ImportOK, Outcomes
  <2> QED BY <1>1, <1>7, <2>1, <2>2, <2>3, PlaceFails DEF Proceeds, Running
<1>8. At("publish") => job.kind = "import"
  BY DEF At, Project, ImportOK, Own
<1> QED BY <1>2, <1>3, <1>4, <1>5, <1>6, <1>7, <1>8 DEF StepFails, At, Fail, Returns, Returned

(* What the user does leaves the job where it is.                           *)
Edited ==
  /\ Project' /\ job'.kind = job.kind /\ job'.pc = job.pc /\ output' = output
  /\ job' = NoJob <=> job = NoJob

OnlyProject == UNCHANGED <<output, faults, studio>> /\ edits' \in Nat

(* The job knows what the user has touched.                                 *)
Knows(what) ==
  \/ job.pc = "idle" /\ job' = job
  \/ /\ job.pc # "idle" /\ Proceeds({"touched", "late"})
     /\ job'.touched = job.touched \cup {what} /\ job.late \subseteq job'.late
     /\ <<job.pc, what>> \in Windows => what \in job'.late

(* The parts of Project that an edit of a file does not reach.              *)
LEMMA EditTypes ==
  ASSUME Project, OnlyProject, NEW what, Knows(what), payload' \in Payloads, folder' \in BOOLEAN,
         config' \in AnyConfig, config' = config \/ ~At("fillConfig"),
         config' # config => what = "config",
         payload'[Starter] # payload[Starter] =>
           what = Starter /\ payload'[Starter] \in {"missing", "own"}
  PROVE  Typed' /\ Fits' /\ BuildOK' /\ ComparedOK'
<1>1. /\ job' \in Jobs /\ job'.kind = job.kind /\ job'.arg = job.arg /\ job'.before = job.before
      /\ job'.pc = job.pc /\ job'.candidate = job.candidate /\ job'.files = job.files
      /\ job'.objects = job.objects /\ job'.source = job.source /\ job'.aside = job.aside
      /\ job.late \subseteq job'.late /\ job.touched \subseteq job'.touched
      /\ <<job.pc, what>> \in Windows => what \in job'.late /\ what \in job'.touched
  BY DEF Knows, Proceeds, Project, Typed, Windows
<1>2. output' = output
  BY DEF OnlyProject
<1>3. Typed'
  BY <1>1 DEF Project, Typed, OnlyProject, studio
<1>4. Fits'
  BY <1>1, FitsWorks DEF Project, OnlyProject
<1>5. BuildOK'
  BY <1>1, <1>2 DEF Project, BuildOK, At, Valid, WellFormed, Present, EntryOwned
<1>6. ComparedOK'
  BY <1>1 DEF Project, ComparedOK, At, Windows
<1> QED BY <1>3, <1>4, <1>5, <1>6

(* Without an import there is nothing more to show.                         *)
LEMMA EditElse ==
  ASSUME Project, NEW what, Knows(what), job.kind # "import"
  PROVE  ImportOK'
<1>1. job'.kind = job.kind /\ job'.pc = job.pc
  BY DEF Knows, Proceeds
<1> QED BY <1>1 DEF Project, ImportOK

(* A file or the directory changes under an import.                         *)
LEMMA EditEntry ==
  ASSUME Project, OnlyProject, NEW what \in Entries, Knows(what), job.kind = "import",
         payload' \in Payloads, config' = config,
         \A g \in Files : g # what => payload'[g] = payload[g],
         \A g \in Files : payload'[g] = "partial" => payload[g] = "partial",
         what # Folder => folder' = folder
  PROVE  ImportOK'
<1>1. job.pc # "idle"
  BY DEF Project, ImportOK, Looking, Placing, Outcomes
<1>2. /\ job'.kind = job.kind /\ job'.before = job.before /\ job'.pc = job.pc
      /\ job'.source = job.source /\ job'.candidate = job.candidate /\ job'.arg = job.arg
      /\ job'.published = job.published /\ job'.writing = job.writing
      /\ job'.aside = job.aside /\ job'.failed = job.failed
      /\ job'.touched = job.touched \cup {what}
  BY <1>1 DEF Knows, Proceeds
<1>3. \A e : Done(e)' <=> Done(e)
  BY <1>2 DEF Done
<1>4. Accounted'
  <2>1. Untouched' \subseteq Untouched /\ what \notin Untouched' /\ Untouched \subseteq Files
    BY <1>2 DEF Untouched
  <2>2. \A g \in Untouched' : payload'[g] = payload[g]
    BY <2>1
  <2>3. /\ job.pc \in Looking => NothingYet'
        /\ (At("restore") \/ At("putBack")) /\ ~job.failed => job'.published = <<>>
    BY <1>2 DEF Project, ImportOK, Accounted, NothingYet
  <2>4. Folder \notin job'.touched => Folder \notin job.touched /\ folder' = folder
    BY <1>2
  <2>5. ASSUME job.pc \in Looking \cup Placing \cup {"ok"}
        PROVE  /\ \A g \in Untouched' : FileAccounted(g)'
               /\ Folder \notin job'.touched => FolderAccounted'
               /\ (job'.aside # "missing") /\ Starter \notin job'.touched =>
                    job'.aside = "sample" /\ job'.before.payload[Starter] = "sample"
    <3>1. /\ \A g \in Untouched : FileAccounted(g)
          /\ Folder \notin job.touched => FolderAccounted
          /\ (job.aside # "missing") /\ Starter \notin job.touched =>
               job.aside = "sample" /\ job.before.payload[Starter] = "sample"
      BY <2>5 DEF Project, ImportOK, Accounted
    <3>2. \A g \in Untouched' : FileAccounted(g)'
      BY <1>2, <1>3, <2>1, <2>2, <3>1 DEF FileAccounted, WasFree
    <3>3. Folder \notin job'.touched => FolderAccounted'
      BY <1>2, <1>3, <2>4, <3>1 DEF FolderAccounted
    <3> QED BY <1>2, <3>1, <3>2, <3>3
  <2>6. ASSUME At("error")
        PROVE  /\ \A g \in Untouched' : payload'[g] = job'.before.payload[g]
               /\ Folder \notin job'.touched => folder' = job'.before.folder
    BY <1>2, <2>1, <2>2, <2>4, <2>6 DEF Project, ImportOK, Accounted
  <2> QED BY <1>2, <2>3, <2>5, <2>6 DEF Accounted, At
<1>5. Listing'
  BY <1>2, <1>3 DEF Project, ImportOK, Listing, At
<1>6. NoHalf'
  BY <1>2 DEF Project, ImportOK, NoHalf, At
<1>7. Configured'
  BY <1>2 DEF Project, ImportOK, Configured, At, Brings
<1>8. Complete'
  BY <1>2, <1>3 DEF Project, ImportOK, Complete, Wanted, Brings
<1> QED BY <1>2, <1>4, <1>5, <1>6, <1>7, <1>8 DEF Project, ImportOK

(* luxury.toml changes under an import.                                     *)
LEMMA EditConfig ==
  ASSUME Project, OnlyProject, Knows("config"), job.kind = "import", UNCHANGED <<payload, folder>>
  PROVE  ImportOK'
<1>1. job.pc # "idle"
  BY DEF Project, ImportOK, Looking, Placing, Outcomes
<1>2. /\ job'.kind = job.kind /\ job'.before = job.before /\ job'.pc = job.pc
      /\ job'.source = job.source /\ job'.candidate = job.candidate /\ job'.arg = job.arg
      /\ job'.published = job.published /\ job'.writing = job.writing
      /\ job'.aside = job.aside /\ job'.failed = job.failed
      /\ job'.touched = job.touched \cup {"config"}
  BY <1>1 DEF Knows, Proceeds
<1>3. SameEntries
  BY <1>2 DEF SameEntries
<1>4. Untouched' \subseteq Untouched /\ Untouched \subseteq Files
  BY <1>2 DEF Untouched
<1>5. Accounted'
  BY <1>2, <1>3, <1>4, EntriesSame DEF SameEntries, Project, ImportOK, Accounted, NothingYet, At
<1>6. Listing'
  BY <1>2, <1>3, EntriesSame DEF Project, ImportOK, Listing, At
<1>7. NoHalf'
  BY <1>2 DEF Project, ImportOK, NoHalf, At
<1>8. Configured'
  BY <1>2 DEF Project, ImportOK, Configured, At, Brings
<1>9. Complete'
  BY <1>2, <1>3, EntriesSame DEF Project, ImportOK, Complete, Wanted, Brings
<1> QED BY <1>2, <1>5, <1>6, <1>7, <1>8, <1>9 DEF Project, ImportOK

(* What has been touched is known.                                          *)
LEMMA TouchKnows ==
  ASSUME Typed, NEW what \in Entries \cup {"config"}, Touch(what)
  PROVE  Knows(what) /\ (job' = NoJob <=> job = NoJob)
<1>1. CASE job.pc = "idle"
  BY <1>1 DEF Touch, Knows
<1>2. CASE job.pc # "idle"
  <2> DEFINE t == job.touched \cup {what}
             l == IF <<job.pc, what>> \in Windows THEN job.late \cup {what} ELSE job.late
  <2>1. job' = [job EXCEPT !.touched = t, !.late = l]
    BY <1>2 DEF Touch
  <2>2. l \in SUBSET {"config", Starter} /\ t \in SUBSET (Entries \cup {"config"})
    BY DEF Typed, Jobs, Windows
  <2>3. job.late \subseteq l /\ (<<job.pc, what>> \in Windows => what \in l)
    OBVIOUS
  <2> HIDE DEF l, t
  <2>4. Proceeds({"touched", "late"}) /\ job'.touched = t /\ job'.late = l
    BY <1>2, <2>1, <2>2, TouchMoves DEF Typed
  <2> QED BY <1>2, <2>3, <2>4, NoJobIs DEF Knows, Proceeds, t
<1> QED BY <1>1, <1>2

LEMMA UserEditsFileKeeps ==
  ASSUME Project, UserEditsFile, UNCHANGED studio
  PROVE  Edited
<1>1. PICK f \in Files :
        /\ \/ payload' = [payload EXCEPT ![f] = "own"]
           \/ payload' = [payload EXCEPT ![f] = "missing"]
        /\ Touch(f)
  BY DEF UserEditsFile
<1>2. OnlyProject /\ UNCHANGED <<folder, config>>
  BY DEF UserEditsFile, OnlyProject, Project, Typed
<1>3. /\ payload' \in Payloads /\ \A g \in Files : g # f => payload'[g] = payload[g]
      /\ \A g \in Files : payload'[g] = "partial" => payload[g] = "partial"
      /\ payload'[f] \in {"missing", "own"}
  BY <1>1 DEF Project, Typed, Payloads, Contents
<1>4. f \in Entries /\ f # Folder /\ Knows(f) /\ (job' = NoJob <=> job = NoJob)
  BY <1>1, TouchKnows, Constants DEF Project
<1>5. Typed' /\ Fits' /\ BuildOK' /\ ComparedOK'
  BY <1>2, <1>3, <1>4, EditTypes, Constants DEF Project, Typed
<1>6. ImportOK'
  BY <1>2, <1>3, <1>4, EditEntry, EditElse
<1> QED BY <1>2, <1>4, <1>5, <1>6 DEF Edited, Project, Knows, Proceeds, OnlyProject

LEMMA UserEditsFolderKeeps ==
  ASSUME Project, UserEditsFolder, UNCHANGED studio
  PROVE  Edited
<1>1. Touch(Folder) /\ folder' \in BOOLEAN
  BY DEF UserEditsFolder, Project, Typed
<1>2. OnlyProject /\ UNCHANGED <<payload, config>>
  BY DEF UserEditsFolder, OnlyProject, Project, Typed
<1>3. Folder \in Entries /\ Knows(Folder) /\ (job' = NoJob <=> job = NoJob)
  BY <1>1, TouchKnows, Constants DEF Project
<1>4. Typed' /\ Fits' /\ BuildOK' /\ ComparedOK'
  BY <1>1, <1>2, <1>3, EditTypes DEF Project, Typed
<1>5. ImportOK'
  BY <1>2, <1>3, EditEntry, EditElse DEF Project, Typed
<1> QED BY <1>2, <1>3, <1>4, <1>5 DEF Edited, Project, Knows, Proceeds, OnlyProject

LEMMA UserEditsConfigKeeps ==
  ASSUME Project, UserEditsConfig, UNCHANGED studio
  PROVE  Edited
<1>1. OnlyProject /\ UNCHANGED <<payload, folder>> /\ config \in Configs
  BY DEF UserEditsConfig, OnlyProject, Project, Typed
<1>2. config' \in Configs
  BY <1>1 DEF UserEditsConfig, Configs
<1>3. Knows("config") /\ (job' = NoJob <=> job = NoJob)
  BY TouchKnows DEF UserEditsConfig, Project
<1>4. ~At("fillConfig")
  BY <1>1, Constants DEF Project, ComparedOK
<1>5. Typed' /\ Fits' /\ BuildOK' /\ ComparedOK'
  BY <1>1, <1>2, <1>3, <1>4, EditTypes DEF Project, Typed, AnyConfig
<1>6. ImportOK'
  BY <1>1, <1>3, EditConfig, EditElse
<1> QED BY <1>1, <1>3, <1>5, <1>6 DEF Edited, Project, Knows, Proceeds, OnlyProject

-----------------------------------------------------------------------------
(* The window, while the worker works or the user does.                     *)

Screen == CommandOK /\ WindowOK

(* Which command a build, and no other job, is for.                         *)
LEMMA BuildAsked ==
  ASSUME Typed, CommandOK, cmd.pc = "backend", job.kind = "build"
  PROVE  cmd.kind = "build"
<1>1. cmd.kind \in Commands
  BY DEF Typed, Cmds, CommandOK, Busy
<1> QED BY <1>1 DEF CommandOK, Asks, Commands

LEMMA ScreenWorks ==
  ASSUME Project, Screen, Works, UNCHANGED studio
  PROVE  Screen'
<1>1. cmd' = cmd /\ view' = view /\ active' = active
  BY DEF studio
<1>2. cmd.pc = "backend" /\ job.kind # "none" /\ cmd.path # Elsewhere
  BY NoJobIs DEF Works, Running, Screen, CommandOK
<1>3. CommandOK'
  BY <1>1, <1>2 DEF Screen, CommandOK, Works, Busy
<1>4. output' = output \/ cmd.kind = "build"
  BY <1>2, BuildAsked DEF Works, Project, BuildOK, Screen
<1>5. Busy /\ ~Succeeded
  BY <1>2 DEF Screen, CommandOK, Succeeded
<1>6. WindowOK'
  BY <1>1, <1>2, <1>4, <1>5 DEF Screen, WindowOK, Busy, Succeeded, Agrees, Truthful
<1> QED BY <1>3, <1>6 DEF Screen

LEMMA ScreenEdited ==
  ASSUME Screen, Edited, UNCHANGED studio
  PROVE  Screen'
<1>1. cmd' = cmd /\ view' = view /\ active' = active /\ output' = output
  BY DEF studio, Edited
<1>2. CommandOK'
  BY <1>1 DEF Screen, CommandOK, Edited, Busy
<1>3. WindowOK'
  BY <1>1 DEF Screen, WindowOK, Busy, Succeeded, Agrees, Truthful
<1> QED BY <1>2, <1>3 DEF Screen

(* Without a job there is nothing to say of the project.                    *)
LEMMA Idle ==
  ASSUME job' = NoJob
  PROVE  ComparedOK' /\ BuildOK' /\ ImportOK' /\ job'.kind = "none" /\ job'.pc = "idle"
         /\ job' \in Jobs
BY NoJobIs DEF ComparedOK, BuildOK, ImportOK, At, Own

LEMMA KillKeeps == ASSUME Project, Screen, Kill, UNCHANGED studio PROVE Project' /\ Screen'
<1>1. job' = NoJob /\ UNCHANGED <<project, edits>> /\ faults' \in Nat
  BY DEF Kill, Project, Typed
<1>2. cmd' = cmd /\ view' = view /\ active' = active /\ output' = output /\ draft' = draft
  BY <1>1 DEF studio, project
<1>3. Typed'
  BY <1>1, <1>2, Idle DEF Project, Typed, project
<1>4. Fits'
  BY <1>1, <1>2, Idle DEF Project, Fits, Busy
<1>5. CommandOK'
  BY <1>1, <1>2, Idle DEF Screen, CommandOK, Busy
<1>6. WindowOK'
  BY <1>2 DEF Screen, WindowOK, Busy, Succeeded, Agrees, Truthful
<1> QED BY <1>1, <1>3, <1>4, <1>5, <1>6, Idle DEF Project, Screen

-----------------------------------------------------------------------------
(* The renderer.                                                            *)

(* Only the window changes.                                                 *)
LEMMA SameProject ==
  ASSUME Project, UNCHANGED <<project, job>>
  PROVE  ComparedOK' /\ BuildOK' /\ ImportOK'
<1>1. SameEntries /\ config' = config /\ output' = output /\ job' = job
  BY DEF SameEntries, project
<1>2. ComparedOK'
  BY <1>1 DEF Project, ComparedOK, At, SameEntries
<1>3. BuildOK'
  BY <1>1 DEF Project, BuildOK, At, Valid, WellFormed, Present, EntryOwned
<1>4. Untouched' = Untouched /\ Untouched \subseteq Files
  BY <1>1 DEF Untouched
<1>5. ASSUME job.kind = "import" PROVE Accounted' /\ Listing' /\ NoHalf' /\ Configured' /\ Complete'
  <2>1. Accounted'
    BY <1>1, <1>4, <1>5, EntriesSame
       DEF SameEntries, Project, ImportOK, Accounted, NothingYet, At
  <2>2. Listing'
    BY <1>1, <1>5, EntriesSame DEF Project, ImportOK, Listing, At
  <2>3. NoHalf'
    BY <1>1, <1>5 DEF SameEntries, Project, ImportOK, NoHalf, At
  <2>4. Configured'
    BY <1>1, <1>5 DEF Project, ImportOK, Configured, At, Brings
  <2>5. Complete'
    BY <1>1, <1>5, EntriesSame
       DEF SameEntries, Project, ImportOK, Complete, Wanted, Brings, Valid, Present, WellFormed,
           EntryOwned
  <2> QED BY <2>1, <2>2, <2>3, <2>4, <2>5
<1>6. ImportOK'
  BY <1>1, <1>5 DEF Project, ImportOK
<1> QED BY <1>2, <1>3, <1>6

(* A command begins.                                                        *)
LEMMA ClickKeeps ==
  ASSUME Project, Screen, NEW kind \in Commands, Click(kind)
  PROVE  Project' /\ Screen'
<1> DEFINE input == IF kind = "update" THEN draft ELSE Nothing
<1>1. /\ ~Busy /\ UNCHANGED <<project, job, edits, faults, active>> /\ view' = Shown(kind)
      /\ cmd' = [NoCommand EXCEPT !.kind = kind, !.pc = "shell", !.previous = view,
                                  !.input = input]
      /\ draft' = IF kind \in {"create", "open"} THEN Nothing ELSE draft
      /\ kind = "update" => draft \in Drafts
      /\ kind = "entrypoint" => view.project # Nothing
  BY DEF Click, Offered, Project, Fits
<1>2. input \in Drafts \cup {Nothing} /\ (kind = "update" => input \in Drafts) /\ view \in Views
  BY <1>1 DEF Project, Typed
<1> HIDE DEF input
<1>3. /\ cmd' \in Cmds /\ cmd'.kind = kind /\ cmd'.pc = "shell" /\ cmd'.previous = view
      /\ cmd'.input = input /\ kind # "none"
  BY <1>1, <1>2 DEF NoCommand, Cmds, Commands
<1>4. /\ view' \in Views
      /\ view'.project # Nothing => kind \notin {"create", "open"} /\ view'.project = view.project
      /\ kind = "reveal" => view' = view
      /\ kind = "entrypoint" => view'.project = view.project
  BY <1>1, <1>2 DEF Shown, Views, Commands
<1>5. job = NoJob /\ cmd.pc = "idle" /\ Agrees(view) /\ Truthful(view) /\ job' = job
  BY <1>1 DEF Screen, CommandOK, WindowOK
<1>6. Typed'
  BY <1>1, <1>3, <1>4 DEF Project, Typed, project
<1>7. Fits'
  BY <1>1, <1>2, <1>3, <1>4, <1>5, NoJobIs DEF Project, Fits, Busy
<1>8. CommandOK'
  BY <1>1, <1>3, <1>5 DEF Screen, CommandOK, Busy
<1>9. WindowOK'
  BY <1>1, <1>3, <1>4, <1>5 DEF WindowOK, Busy, Succeeded, Agrees, Truthful, project
<1> QED BY <1>1, <1>6, <1>7, <1>8, <1>9, SameProject DEF Project, Screen

(* The user types.                                                          *)
LEMMA TypeKeeps == ASSUME Project, Screen, Type PROVE Project' /\ Screen'
<1>1. UNCHANGED <<project, job, edits, faults, active, view>> /\ draft \in Drafts
  BY DEF Type, Project, Fits
<1>2. draft' \in Drafts
  BY <1>1 DEF Type, Drafts
<1>3. /\ cmd' \in Cmds /\ cmd'.kind = cmd.kind /\ cmd'.pc = cmd.pc
      /\ cmd'.previous = cmd.previous /\ cmd'.input = cmd.input /\ cmd'.result = cmd.result
      /\ cmd'.path = cmd.path
  <2>1. CASE Busy
    BY <2>1 DEF Type, Project, Typed, Cmds
  <2>2. CASE ~Busy
    BY <2>2 DEF Type, Project, Typed
  <2> QED BY <2>1, <2>2
<1>4. Typed'
  BY <1>1, <1>2, <1>3 DEF Project, Typed, project
<1>5. Fits'
  BY <1>1, <1>2, <1>3 DEF Project, Fits, Busy
<1>6. CommandOK'
  BY <1>1, <1>3 DEF Screen, CommandOK, Busy
<1>7. WindowOK'
  BY <1>1, <1>3 DEF Screen, WindowOK, Busy, Succeeded, Agrees, Truthful, project
<1> QED BY <1>1, <1>4, <1>5, <1>6, <1>7, SameProject DEF Project, Screen

(* An error is dismissed.                                                   *)
LEMMA DismissKeeps == ASSUME Project, Screen, Dismiss PROVE Project' /\ Screen'
<1>1. UNCHANGED <<project, job, edits, faults, active, cmd, draft>>
  BY DEF Dismiss
<1>2. /\ view' \in Views /\ view'.project = view.project /\ view'.kind \in {"empty", "ready"}
  BY DEF Dismiss, Project, Typed, Views, Empty
<1>3. Typed'
  BY <1>1, <1>2 DEF Project, Typed, project
<1>4. Fits'
  BY <1>1, <1>2 DEF Project, Fits, Busy
<1>5. CommandOK'
  BY <1>1 DEF Screen, CommandOK, Busy
<1>6. WindowOK'
  BY <1>1, <1>2 DEF Screen, WindowOK, Busy, Succeeded, Agrees, Truthful, project
<1> QED BY <1>1, <1>3, <1>4, <1>5, <1>6, SameProject DEF Project, Screen

(* A command is answered.                                                   *)
LEMMA SettledScreen ==
  ASSUME Project, Screen, Settle, cmd.pc # "backend", view' \in Views, draft' \in Drafts \cup {Nothing},
         view'.project # Nothing => draft' \in Drafts,
         Agrees(view)', Truthful(view)', cmd' = NoCommand
  PROVE  Project' /\ Screen'
<1>1. UNCHANGED <<project, job, edits, faults, active>>
  BY DEF Settle
<1>2. NoCommand \in Cmds /\ NoCommand.kind = "none" /\ NoCommand.pc = "idle"
  BY DEF NoCommand, Cmds
<1>3. Typed'
  BY <1>1, <1>2 DEF Project, Typed, project
<1>4. Fits'
  BY <1>1, <1>2 DEF Project, Fits, Busy
<1>5. CommandOK'
  BY <1>1, <1>2 DEF Screen, CommandOK, Busy
<1>6. WindowOK'
  BY <1>1, <1>2 DEF WindowOK, Busy
<1> QED BY <1>1, <1>3, <1>4, <1>5, <1>6, SameProject DEF Project, Screen

(* The form of a project.                                                   *)
LEMMA FormIs ==
  /\ \A p \in Summaries : p # Nothing => Form(p) \in Drafts
  /\ Form(Nothing) = Nothing
BY DEF Form, Drafts, Summaries

(* What is shown again is shown with its draft.                             *)
LEMMA SettlesTypes ==
  ASSUME Typed, Fits, NEW v \in Views, Settles(v)
  PROVE  /\ view' = v /\ view' \in Views /\ draft' \in Drafts \cup {Nothing}
         /\ view'.project # Nothing => draft' \in Drafts
<1>1. v.project \in Summaries \cup {Nothing}
  BY DEF Views
<1> QED BY <1>1, FormIs DEF Settles, Typed, Fits

(* The project that was shown, with a kind of its own.                      *)
LEMMA OldIs ==
  ASSUME Project, Screen, cmd.kind \in Commands, NEW kind \in {"ready", "error"}
  PROVE  /\ cmd.previous \in Views
         /\ [kind |-> kind, project |-> Old] \in Views
         /\ [kind |-> kind, project |-> Old].kind = kind
         /\ [kind |-> kind, project |-> Old].project = cmd.previous.project
<1>1. cmd.previous \in Views
  BY DEF Commands, Project, Fits, Busy
<1> QED BY <1>1 DEF Views, Old

(* A result that is shown.                                                  *)
LEMMA BecomesKeeps ==
  ASSUME Project, Screen, Settle, cmd.pc = "ok", Succeeded, cmd' = NoCommand, cmd.kind \in Commands,
         NEW kind \in {"ready", "built"}, Becomes(kind), kind = "built" => cmd.kind = "build"
  PROVE  Project' /\ Screen'
<1>1. cmd.result \in Summaries \cup {Nothing} /\ active = cmd.result
  BY DEF Project, Fits, Succeeded, Screen, WindowOK, Busy, Commands
<1>2. /\ view' = [kind |-> kind, project |-> cmd.result] /\ draft' = Form(cmd.result)
      /\ view' \in Views /\ view'.kind = kind /\ view'.project = cmd.result
  BY <1>1 DEF Becomes, Views
<1>3. /\ draft' \in Drafts \cup {Nothing} /\ (cmd.result # Nothing => draft' \in Drafts)
  BY <1>1, <1>2, FormIs
<1>4. active' = active /\ output' = output
  BY DEF Settle, project
<1>5. Agrees(view)'
  BY <1>1, <1>2, <1>4 DEF Agrees
<1>6. Truthful(view)'
  BY <1>2, <1>4 DEF Truthful, Screen, WindowOK
<1> QED BY <1>2, <1>3, <1>5, <1>6, SettledScreen

(* What was shown is shown again as it was.                                 *)
LEMMA ShownAgain ==
  ASSUME Project, Screen, Settle, cmd' = NoCommand, cmd.kind \in Commands, ~Succeeded,
         cmd.pc # "backend", Settles(cmd.previous), Truthful(cmd.previous)
  PROVE  Project' /\ Screen'
<1>1. cmd.previous \in Views
  BY OldIs
<1>2. view' = cmd.previous /\ active' = active /\ output' = output
  BY DEF Settles, Settle, project
<1>3. Agrees(cmd.previous)
  BY DEF Screen, WindowOK, Busy, Commands
<1>4. Agrees(view)' /\ Truthful(view)'
  BY <1>2, <1>3 DEF Agrees, Truthful
<1> QED BY <1>1, <1>4, SettlesTypes, SettledScreen DEF Project

(* The project that was shown is shown again, ready or with an error.       *)
LEMMA OldAgain ==
  ASSUME Project, Screen, Settle, cmd' = NoCommand, cmd.kind \in Commands, ~Succeeded,
         cmd.pc # "backend", NEW kind \in {"ready", "error"},
         Settles([kind |-> kind, project |-> Old])
  PROVE  Project' /\ Screen'
<1> DEFINE v == [kind |-> kind, project |-> Old]
<1>1. v \in Views /\ v.kind = kind /\ v.project = cmd.previous.project /\ Settles(v)
  BY OldIs
<1> HIDE DEF v
<1>2. view' = v /\ active' = active /\ output' = output
  BY <1>1 DEF Settles, Settle, project
<1>3. Agrees(cmd.previous)
  BY DEF Screen, WindowOK, Busy, Commands
<1>4. Agrees(view)' /\ Truthful(view)'
  BY <1>1, <1>2, <1>3 DEF Agrees, Truthful
<1> QED BY <1>1, <1>4, SettlesTypes, SettledScreen DEF Project

LEMMA SettleKeeps == ASSUME Project, Screen, Settle PROVE Project' /\ Screen'
<1>1. ASSUME ErrorSettles PROVE Project' /\ Screen'
  <2>1. /\ cmd.kind \in Commands /\ cmd.pc = "error" /\ cmd' = NoCommand
        /\ Settles([kind |-> "error", project |-> Old])
    BY <1>1 DEF ErrorSettles, Answered
  <2>2. ~Succeeded /\ cmd.pc # "backend"
    BY <2>1 DEF Succeeded
  <2> QED BY <2>1, <2>2, OldAgain
<1>2. ASSUME LoadSettles PROVE Project' /\ Screen'
  <2>1. CASE Answered({"create", "open"}, "ok") /\ Becomes("ready")
    BY <2>1, BecomesKeeps DEF Answered, Succeeded, Commands
  <2>2. CASE Answered({"create", "open"}, "null") /\ Settles(cmd.previous)
    <3>1. /\ cmd.kind \in Commands /\ cmd.pc = "null" /\ cmd' = NoCommand /\ ~Succeeded
          /\ Busy
      BY <2>2 DEF Answered, Commands, Succeeded, Busy
    <3>2. cmd.previous \in Views /\ Truthful(cmd.previous)
      BY <3>1, OldIs DEF Screen, WindowOK
    <3> QED BY <2>2, <3>1, <3>2, ShownAgain
  <2> QED BY <1>2, <2>1, <2>2 DEF LoadSettles
<1>3. ASSUME ReloadSettles \/ UpdateSettles PROVE Project' /\ Screen'
  BY <1>3, BecomesKeeps DEF ReloadSettles, UpdateSettles, Answered, Succeeded, Commands
<1>4. ASSUME ImportSettles PROVE Project' /\ Screen'
  <2>1. CASE Answered({"import"}, "ok") /\ Becomes("ready")
    BY <2>1, BecomesKeeps DEF Answered, Succeeded, Commands
  <2>2. CASE Answered({"import"}, "null") /\ Settles([kind |-> "ready", project |-> Old])
    <3>1. cmd.kind \in Commands /\ cmd.pc = "null" /\ cmd' = NoCommand /\ ~Succeeded
      BY <2>2 DEF Answered, Commands, Succeeded
    <3> QED BY <2>2, <3>1, OldAgain
  <2> QED BY <1>4, <2>1, <2>2 DEF ImportSettles
<1>5. ASSUME BuildSettles PROVE Project' /\ Screen'
  <2>1. CASE Answered({"build"}, "ok") /\ Becomes("built")
    BY <2>1, BecomesKeeps DEF Answered, Succeeded, Commands
  <2>2. CASE Answered({"build"}, "null") /\ Settles(cmd.previous)
    <3>1. /\ cmd.kind \in Commands /\ cmd.pc = "null" /\ cmd' = NoCommand /\ ~Succeeded
          /\ Busy
      BY <2>2 DEF Answered, Commands, Succeeded, Busy
    <3>2. cmd.previous \in Views /\ Truthful(cmd.previous)
      BY <3>1, OldIs DEF Screen, WindowOK
    <3> QED BY <2>2, <3>1, <3>2, ShownAgain
  <2> QED BY <1>5, <2>1, <2>2 DEF BuildSettles
<1>6. ASSUME RevealSettles PROVE Project' /\ Screen'
  <2>1. /\ cmd.kind = "reveal" /\ cmd.pc = "ok" /\ cmd' = NoCommand /\ view' = view
        /\ draft' = draft /\ Busy /\ ~Succeeded
    BY <1>6 DEF RevealSettles, Answered, Busy, Succeeded
  <2>2. Agrees(view) /\ Truthful(view)
    BY <2>1 DEF Screen, WindowOK, Agrees, Truthful
  <2>3. active' = active /\ output' = output
    BY DEF Settle, project
  <2>4. Agrees(view)' /\ Truthful(view)'
    BY <2>1, <2>2, <2>3 DEF Agrees, Truthful
  <2>5. /\ view' \in Views /\ draft' \in Drafts \cup {Nothing}
        /\ view'.project # Nothing => draft' \in Drafts
    BY <2>1 DEF Project, Typed, Fits
  <2> QED BY <2>1, <2>4, <2>5, SettledScreen
<1>7. ASSUME EntrypointSettles PROVE Project' /\ Screen'
  <2>1. /\ cmd.kind = "entrypoint" /\ cmd.pc \in {"ok", "null"} /\ cmd' = NoCommand
        /\ view' = [kind |-> "ready", project |-> Old] /\ Busy /\ ~Succeeded
        /\ draft' = IF cmd.pc = "ok" THEN [draft EXCEPT !.entry = cmd.result] ELSE draft
    BY <1>7 DEF EntrypointSettles, Answered, Busy, Succeeded
  <2>2. view' \in Views /\ view'.kind = "ready" /\ view'.project = cmd.previous.project
    BY <2>1, OldIs DEF Commands
  <2>3. view.project = cmd.previous.project /\ Agrees(cmd.previous)
    BY <2>1 DEF Screen, WindowOK
  <2>4. cmd.pc = "ok" => cmd.result \in Files
    BY <2>1 DEF Project, Fits
  <2>5. draft \in Drafts
    BY <2>1 DEF Project, Fits
  <2>6. draft' \in Drafts
    BY <2>1, <2>4, <2>5 DEF Drafts
  <2>7. active' = active /\ output' = output
    BY DEF Settle, project
  <2>8. Agrees(view)' /\ Truthful(view)'
    BY <2>2, <2>3, <2>7 DEF Agrees, Truthful
  <2> QED BY <2>1, <2>2, <2>6, <2>8, SettledScreen
<1> QED BY <1>1, <1>2, <1>3, <1>4, <1>5, <1>6, <1>7 DEF Settle

-----------------------------------------------------------------------------
(* The shell.                                                               *)

(* The command moves on, with a result or without.                          *)
LEMMA AnswersIs ==
  ASSUME cmd \in Cmds, NEW pc \in {"ok", "null", "error"},
         NEW result \in Summaries \cup Files \cup {Nothing}, Answers(pc, result)
  PROVE  /\ cmd' \in Cmds /\ cmd'.kind = cmd.kind /\ cmd'.pc = pc /\ cmd'.path = cmd.path
         /\ cmd'.input = cmd.input /\ cmd'.result = result /\ cmd'.previous = cmd.previous
BY DEF Cmds, Answers

(* An answer that changes nothing that is active.                           *)
LEMMA AnswersKeeps ==
  ASSUME Project, Screen, Busy, NEW pc \in {"ok", "null", "error"}, NEW result \in Files \cup {Nothing},
         Answers(pc, result), UNCHANGED <<project, edits, faults, view, draft, active>>,
         job' = NoJob, ~Succeeded,
         pc = "ok" => \/ cmd.kind = "reveal" /\ result = Nothing
                      \/ cmd.kind = "entrypoint" /\ result \in Files,
         pc = "null" => cmd.pc = "dialog"
  PROVE  Project' /\ Screen'
<1>1. /\ cmd' \in Cmds /\ cmd'.kind = cmd.kind /\ cmd'.pc = pc /\ cmd'.path = cmd.path
      /\ cmd'.input = cmd.input /\ cmd'.result = result /\ cmd'.previous = cmd.previous
  BY AnswersIs DEF Project, Typed
<1>2. Typed'
  BY <1>1, Idle DEF Project, Typed, project
<1>3. Fits'
  BY <1>1, Idle DEF Project, Fits, Busy
<1>4. CommandOK'
  BY <1>1 DEF Screen, CommandOK, Busy
<1>5. WindowOK'
  BY <1>1 DEF Screen, WindowOK, Busy, Succeeded, Agrees, Truthful, project
<1> QED BY <1>2, <1>3, <1>4, <1>5, Idle DEF Project, Screen

(* A job begins, or is refused by the worker at once.                       *)
LEMMA SentIs ==
  ASSUME Typed, NEW path \in {Here, Elsewhere}, NEW kind \in JobKinds \ {"none"},
         NEW arg \in {Nothing} \cup Files \cup Drafts \cup SUBSET Entries, Sent(path, kind, arg)
  PROVE  /\ job' \in Jobs /\ job'.kind = kind /\ job'.arg = arg
         /\ job'.pc \in {"create", "read", "error"} /\ (job'.pc = "create" => kind = "init")
         /\ path = Elsewhere => job'.pc = "error"
         /\ job'.published = <<>> /\ job'.writing = Nothing /\ job'.aside = "missing" /\ ~job'.failed
         /\ job'.touched = {} /\ job'.objects = Missing
         /\ kind = "import" =>
              /\ job'.before \in Snapshots /\ job'.before.payload = payload
              /\ job'.before.folder = folder /\ job'.before.config = config
<1> DEFINE j == NewJob(kind, arg)
<1>1. /\ j \in Jobs /\ j.kind = kind /\ j.arg = arg
      /\ j.pc = IF kind = "init" THEN "create" ELSE "read"
      /\ j.published = <<>> /\ j.writing = Nothing /\ j.aside = "missing" /\ ~j.failed
      /\ j.touched = {} /\ j.objects = Missing
      /\ kind = "import" =>
           /\ j.before \in Snapshots /\ j.before.payload = payload
           /\ j.before.folder = folder /\ j.before.config = config
  BY NewJobIs
<1>2. job' = IF path = Elsewhere THEN [j EXCEPT !.pc = "error"] ELSE j
  BY DEF Sent
<1> HIDE DEF j
<1>3. CASE path = Elsewhere
  <2> DEFINE e == [j EXCEPT !.pc = "error"]
  <2>1. /\ e \in Jobs /\ e.pc = "error" /\ e.kind = j.kind /\ e.arg = j.arg
        /\ e.published = j.published /\ e.writing = j.writing /\ e.aside = j.aside
        /\ e.failed = j.failed /\ e.touched = j.touched /\ e.objects = j.objects
        /\ e.before = j.before
    BY <1>1 DEF Jobs, JobSteps, Outcomes
  <2>2. job' = e
    BY <1>2, <1>3
  <2> HIDE DEF e
  <2> QED BY <1>1, <2>1, <2>2
<1>4. CASE path # Elsewhere
  BY <1>1, <1>2, <1>4
<1> QED BY <1>3, <1>4

(* A new job knows the project as it is.                                    *)
LEMMA SentKeeps ==
  ASSUME Project, Screen, Busy, ~Succeeded, cmd.pc \in {"shell", "dialog"},
         NEW path \in {Here, Elsewhere}, NEW kind \in JobKinds \ {"none"},
         kind = Asks(cmd.kind), cmd.kind # "reveal",
         NEW arg \in {Nothing} \cup Files \cup Drafts \cup SUBSET Entries, Sent(path, kind, arg),
         kind = "update" => arg \in Drafts, kind = "import" => arg \in ImportChoices,
         kind = "resolve" => arg \in Files,
         UNCHANGED <<project, edits, faults, view, draft, active>>
  PROVE  Project' /\ Screen'
<1>1. /\ job' \in Jobs /\ job'.kind = kind /\ job'.arg = arg
      /\ job'.pc \in {"create", "read", "error"} /\ (job'.pc = "create" => kind = "init")
      /\ path = Elsewhere => job'.pc = "error"
      /\ job'.published = <<>> /\ job'.writing = Nothing /\ job'.aside = "missing" /\ ~job'.failed
      /\ job'.touched = {} /\ job'.objects = Missing
      /\ kind = "import" =>
           /\ job'.before \in Snapshots /\ job'.before.payload = payload
           /\ job'.before.folder = folder /\ job'.before.config = config
  BY SentIs DEF Project
<1>2. /\ cmd' \in Cmds /\ cmd'.kind = cmd.kind /\ cmd'.pc = "backend" /\ cmd'.path = path
      /\ cmd'.input = cmd.input /\ cmd'.result = cmd.result /\ cmd'.previous = cmd.previous
  BY DEF Sent, Project, Typed, Cmds
<1>3. /\ payload' = payload /\ folder' = folder /\ config' = config /\ output' = output
  BY DEF project
<1>4. Typed'
  BY <1>1, <1>2, <1>3 DEF Project, Typed
<1>5. Fits'
  BY <1>1, <1>2 DEF Project, Fits, Busy
<1>6. ComparedOK' /\ BuildOK'
  BY <1>1 DEF ComparedOK, BuildOK, At, Outcomes
<1>7. ASSUME kind = "import" PROVE ImportOK'
  <2>1. \A e : ~Done(e)'
    BY <1>1 DEF Done
  <2>2. Untouched' = Files
    BY <1>1 DEF Untouched
  <2>3. Accounted'
    BY <1>1, <1>3, <1>7, <2>1, <2>2, Constants
       DEF Accounted, NothingYet, FileAccounted, FolderAccounted, At, Looking, Placing
  <2>4. Distinct(<<>>)
    BY DEF Distinct
  <2>5. Listing' /\ NoHalf'
    BY <1>1, <1>3, <1>7, <2>4 DEF Listing, NoHalf, At
  <2>6. Configured' /\ Complete'
    BY <1>1, <1>3, <1>7 DEF Configured, Complete, At, Placing
  <2> QED BY <1>1, <1>7, <2>3, <2>5, <2>6 DEF ImportOK, Looking, Outcomes
<1>8. ImportOK'
  BY <1>1, <1>7 DEF ImportOK, Own
<1>9. CommandOK'
  BY <1>1, <1>2 DEF Screen, CommandOK, Busy
<1>10. WindowOK'
  BY <1>2, <1>3 DEF Screen, WindowOK, Busy, Succeeded, Agrees, Truthful
<1> QED BY <1>4, <1>5, <1>6, <1>8, <1>9, <1>10 DEF Project, Screen

(* A command that is not refused has a project to work on.                  *)
LEMMA AskedIs ==
  ASSUME Project, Screen, NEW kinds, Asked(kinds)
  PROVE  /\ cmd.pc = "shell" /\ cmd.kind \in kinds /\ Busy /\ ~Succeeded /\ job = NoJob
         /\ cmd.kind \notin {"create", "open"} => active \in Summaries /\ active.path = Here
                                                  /\ active # Nothing
BY DEF Asked, Accepted, HasProject, Project, Typed, Screen, CommandOK, Succeeded

(* A dialog was opened for one.                                             *)
LEMMA PicksIs ==
  ASSUME Project, Screen, NEW kind \in Commands, Picks(kind)
  PROVE  /\ cmd.pc = "dialog" /\ cmd.kind = kind /\ Busy /\ ~Succeeded /\ job = NoJob
         /\ kind \notin {"create", "open"} => active.path = Here
BY DEF Picks, Project, Typed, Screen, CommandOK, Succeeded

LEMMA OpenDialogKeeps ==
  ASSUME Project, Screen, OpenDialog, UNCHANGED <<project, edits, faults, view, draft>>
  PROVE  Project' /\ Screen'
<1>1. /\ cmd.pc = "shell" /\ Busy /\ ~Succeeded /\ job = NoJob /\ UNCHANGED <<job, active>>
      /\ cmd.kind \notin {"create", "open"} => active # Nothing
  BY AskedIs DEF OpenDialog
<1>2. /\ cmd' \in Cmds /\ cmd'.kind = cmd.kind /\ cmd'.pc = "dialog" /\ cmd'.path = cmd.path
      /\ cmd'.input = cmd.input /\ cmd'.result = cmd.result /\ cmd'.previous = cmd.previous
  BY DEF OpenDialog, Project, Typed, Cmds
<1>3. Typed'
  BY <1>1, <1>2 DEF Project, Typed, project
<1>4. Fits'
  BY <1>1, <1>2 DEF Project, Fits, Busy
<1>5. CommandOK'
  BY <1>1, <1>2 DEF Screen, CommandOK, Busy
<1>6. WindowOK'
  BY <1>1, <1>2 DEF Screen, WindowOK, Busy, Succeeded, Agrees, Truthful, project
<1> QED BY <1>1, <1>3, <1>4, <1>5, <1>6, SameProject DEF Project, Screen


(* Requests to the worker.                                                  *)
LEMMA RequestsKeep ==
  ASSUME Project, Screen, Reload \/ Update, UNCHANGED <<project, edits, faults, view, draft>>
  PROVE  Project' /\ Screen'
<1>1. CASE Reload
  <2>1. /\ cmd.pc = "shell" /\ cmd.kind = "reload" /\ Busy /\ ~Succeeded /\ active.path = Here
        /\ active' = active
    BY <1>1, AskedIs DEF Reload
  <2>2. Sent(Here, "validate", Nothing) /\ "validate" = Asks(cmd.kind)
    BY <1>1, <2>1 DEF Reload, Asks
  <2> QED BY <2>1, <2>2, SentKeeps DEF JobKinds
<1>2. CASE Update
  <2>1. /\ cmd.pc = "shell" /\ cmd.kind = "update" /\ Busy /\ ~Succeeded /\ active.path = Here
        /\ active' = active
    BY <1>2, AskedIs DEF Update
  <2>2. Sent(Here, "update", cmd.input) /\ "update" = Asks(cmd.kind) /\ cmd.input \in Drafts
    BY <1>2, <2>1 DEF Update, Asks, Project, Fits
  <2> QED BY <2>1, <2>2, SentKeeps DEF JobKinds
<1> QED BY <1>1, <1>2

(* What the user picks in a dialog.                                         *)
LEMMA PicksKeep ==
  ASSUME Project, Screen, PickNew \/ PickOld \/ PickImport \/ PickEntry \/ PickOutput,
         UNCHANGED <<project, edits, faults, view, draft>>
  PROVE  Project' /\ Screen'
<1>1. CASE PickNew
  <2>1. /\ cmd.pc = "dialog" /\ cmd.kind = "create" /\ Busy /\ ~Succeeded /\ active' = active
        /\ Sent(Here, "init", Nothing)
    BY <1>1, PicksIs DEF PickNew, Commands
  <2>2. "init" = Asks(cmd.kind)
    BY <2>1 DEF Asks
  <2> QED BY <2>1, <2>2, SentKeeps DEF JobKinds
<1>2. CASE PickOld
  <2>1. PICK path \in {Here, Elsewhere} :
          Picks("open") /\ Sent(path, "validate", Nothing) /\ active' = active
    BY <1>2 DEF PickOld, Chosen
  <2>2. cmd.pc = "dialog" /\ cmd.kind = "open" /\ Busy /\ ~Succeeded
    BY <2>1, PicksIs DEF Commands
  <2>3. "validate" = Asks(cmd.kind)
    BY <2>2 DEF Asks
  <2> QED BY <2>1, <2>2, <2>3, SentKeeps DEF JobKinds
<1>3. CASE PickImport
  <2>1. PICK s \in ImportChoices : Picks("import") /\ Sent(active.path, "import", s)
    BY <1>3 DEF PickImport
  <2>2. /\ cmd.pc = "dialog" /\ cmd.kind = "import" /\ Busy /\ ~Succeeded /\ active.path = Here
        /\ active' = active
    BY <1>3, <2>1, PicksIs DEF PickImport, Commands
  <2>3. "import" = Asks(cmd.kind) /\ Sent(Here, "import", s) /\ s \in SUBSET Entries
    BY <2>1, <2>2, Constants DEF Asks
  <2> QED BY <2>1, <2>2, <2>3, SentKeeps DEF JobKinds
<1>4. CASE PickEntry
  <2>1. PICK f \in Pickable : Picks("entrypoint") /\ Sent(active.path, "resolve", f)
    BY <1>4 DEF PickEntry
  <2>2. /\ cmd.pc = "dialog" /\ cmd.kind = "entrypoint" /\ Busy /\ ~Succeeded
        /\ active.path = Here /\ active' = active
    BY <1>4, <2>1, PicksIs DEF PickEntry, Commands
  <2>3. "resolve" = Asks(cmd.kind) /\ Sent(Here, "resolve", f) /\ f \in Files
    BY <2>1, <2>2, Constants DEF Asks
  <2> QED BY <2>1, <2>2, <2>3, SentKeeps DEF JobKinds
<1>5. CASE PickOutput
  <2>1. /\ cmd.pc = "dialog" /\ cmd.kind = "build" /\ Busy /\ ~Succeeded /\ active' = active
        /\ Sent(Here, "build", Nothing)
    BY <1>5, PicksIs DEF PickOutput, Commands
  <2>2. "build" = Asks(cmd.kind)
    BY <2>1 DEF Asks
  <2> QED BY <2>1, <2>2, SentKeeps DEF JobKinds
<1> QED BY <1>1, <1>2, <1>3, <1>4, <1>5

(* Commands that end in the shell.                                          *)
LEMMA EndsInShell ==
  ASSUME Project, Screen, Refused \/ Reveal \/ Cancelled,
         UNCHANGED <<project, edits, faults, view, draft>>
  PROVE  Project' /\ Screen'
<1>1. CASE Refused
  <2>1. /\ cmd.pc = "shell" /\ Answers("error", Nothing) /\ active' = active /\ Busy /\ ~Succeeded
        /\ job' = NoJob
    BY <1>1 DEF Refused, Screen, CommandOK, Succeeded
  <2> QED BY <2>1, AnswersKeeps
<1>2. CASE Reveal
  <2>1. /\ cmd.kind = "reveal" /\ active' = active /\ Busy /\ ~Succeeded /\ job' = NoJob
    BY <1>2, AskedIs DEF Reveal
  <2>2. PICK pc \in {"ok", "error"} : Answers(pc, Nothing)
    BY <1>2 DEF Reveal
  <2> QED BY <2>1, <2>2, AnswersKeeps
<1>3. CASE Cancelled
  <2>1. /\ cmd.pc = "dialog" /\ Answers("null", Nothing) /\ active' = active /\ Busy /\ ~Succeeded
        /\ job' = NoJob
    BY <1>3 DEF Cancelled, Screen, CommandOK, Succeeded
  <2> QED BY <2>1, AnswersKeeps
<1> QED BY <1>1, <1>2, <1>3

(* What the worker hands over with its success.                             *)
LEMMA HandedOver ==
  ASSUME Project, Screen, cmd.pc = "backend", job.pc = "ok", cmd.kind # "entrypoint"
  PROVE  /\ cmd.path = Here /\ job.candidate \in Configs
         /\ Summary(Here, job.candidate) \in Summaries
         /\ Summary(Here, job.candidate).path = Here
         /\ cmd.kind = "build" => output.config = job.candidate
<1>1. cmd.path = Here
  BY DEF Screen, CommandOK
<1>2. job.kind = Asks(cmd.kind) /\ cmd.kind \in Commands
  BY DEF Screen, CommandOK, Busy, Project, Typed, Cmds
<1>3. job.kind # "resolve"
  BY <1>2 DEF Asks, Commands
<1>4. job.candidate \in Configs
  BY <1>3 DEF Project, ComparedOK, ImportOK, Configured, At
<1>5. cmd.kind = "build" => job.kind = "build"
  BY <1>2 DEF Asks
<1>6. cmd.kind = "build" => output.config = job.candidate
  BY <1>5 DEF Project, BuildOK, At
<1>7. Summary(Here, job.candidate) \in Summaries /\ Summary(Here, job.candidate).path = Here
  BY <1>4 DEF Summary, Summaries, Configs
<1> QED BY <1>1, <1>4, <1>6, <1>7

LEMMA FinishKeeps ==
  ASSUME Project, Screen, Finish, UNCHANGED <<project, edits, faults, view, draft>>
  PROVE  Project' /\ Screen'
<1>1. /\ cmd.pc = "backend" /\ job' = NoJob /\ Busy /\ ~Succeeded /\ cmd.kind # "reveal"
  BY DEF Finish, Screen, CommandOK, Succeeded
<1>2. CASE job.pc # "ok"
  <2>1. Answers("error", Nothing) /\ active' = active
    BY <1>2 DEF Finish
  <2> QED BY <1>1, <2>1, AnswersKeeps
<1>3. CASE job.pc = "ok" /\ cmd.kind = "entrypoint"
  <2>1. Answers("ok", job.arg) /\ active' = active
    BY <1>3 DEF Finish
  <2>2. job.kind = "resolve"
    BY <1>1, <1>3, NoJobIs DEF Screen, CommandOK, Asks
  <2>3. job.arg \in Files
    BY <2>2 DEF Project, Fits
  <2> QED BY <1>1, <1>3, <2>1, <2>3, AnswersKeeps
<1>4. CASE job.pc = "ok" /\ cmd.kind # "entrypoint"
  <2> DEFINE s == Summary(Here, job.candidate)
  <2>1. cmd.path = Here /\ s \in Summaries /\ s.path = Here
        /\ (cmd.kind = "build" => s = Summary(Here, output.config))
    BY <1>1, <1>4, HandedOver
  <2>2. active' = s /\ Answers("ok", s)
    BY <1>4, <2>1 DEF Finish
  <2> HIDE DEF s
  <2>3. /\ cmd' \in Cmds /\ cmd'.kind = cmd.kind /\ cmd'.pc = "ok" /\ cmd'.path = cmd.path
        /\ cmd'.input = cmd.input /\ cmd'.result = s /\ cmd'.previous = cmd.previous
    BY <2>1, <2>2, AnswersIs DEF Project, Typed
  <2>4. Typed'
    BY <1>1, <2>1, <2>2, <2>3, Idle DEF Project, Typed, project
  <2>5. Fits'
    BY <1>1, <1>4, <2>1, <2>3, Idle DEF Project, Fits, Busy
  <2>6. CommandOK'
    BY <1>1, <2>1, <2>2, <2>3 DEF Screen, CommandOK, Busy
  <2>7. output' = output
    BY DEF project
  <2>8. WindowOK'
    BY <1>1, <1>4, <2>1, <2>2, <2>3, <2>7 DEF Screen, WindowOK, Busy, Succeeded, Agrees, Truthful
  <2> QED BY <1>1, <2>4, <2>5, <2>6, <2>8, Idle DEF Project, Screen
<1> QED BY <1>2, <1>3, <1>4

LEMMA ShellStepKeeps == ASSUME Project, Screen, ShellStep PROVE Project' /\ Screen'
BY EndsInShell, RequestsKeep, OpenDialogKeeps, PicksKeep, FinishKeeps DEF ShellStep

LEMMA ReopenKeeps == ASSUME Project, Screen, Reopen PROVE Project' /\ Screen'
<1>1. /\ job' = NoJob /\ active' = Nothing /\ cmd' = NoCommand /\ view' = Empty
      /\ draft' = Nothing /\ UNCHANGED <<project, edits>> /\ faults' \in Nat
  BY DEF Reopen, Project, Typed
<1>2. NoCommand \in Cmds /\ NoCommand.kind = "none" /\ NoCommand.pc = "idle"
  BY DEF NoCommand, Cmds
<1>3. Empty \in Views /\ Empty.project = Nothing /\ Empty.kind = "empty"
  BY DEF Empty, Views
<1>4. Typed'
  BY <1>1, <1>2, <1>3, Idle DEF Project, Typed, project
<1>5. Fits'
  BY <1>1, <1>2, <1>3, Idle DEF Project, Fits, Busy
<1>6. CommandOK'
  BY <1>1, <1>2 DEF Screen, CommandOK, Busy
<1>7. WindowOK'
  BY <1>1, <1>2, <1>3 DEF WindowOK, Busy, Agrees, Truthful
<1> QED BY <1>1, <1>4, <1>5, <1>6, <1>7, Idle DEF Project, Screen

-----------------------------------------------------------------------------
(* Together.                                                                *)

IInv == Project /\ Screen /\ BundleIsWhole

LEMMA InitHolds == ASSUME StudioInit PROVE IInv
<1>1. NoCommand \in Cmds /\ NoCommand.kind = "none" /\ NoCommand.pc = "idle"
  BY DEF NoCommand, Cmds
<1>2. Empty \in Views /\ Empty.project = Nothing /\ Empty.kind = "empty"
  BY DEF Empty, Views
<1>3. Typed
  BY <1>1, <1>2, NoJobIs, Constants DEF StudioInit, AuthoringInit, Typed, AnyConfig
<1>4. Fits
  BY <1>1, <1>2, NoJobIs DEF StudioInit, AuthoringInit, Fits, Busy
<1>5. ComparedOK /\ BuildOK /\ ImportOK
  BY NoJobIs DEF StudioInit, AuthoringInit, ComparedOK, BuildOK, ImportOK, At, Own
<1>6. CommandOK
  BY <1>1 DEF StudioInit, CommandOK, Busy, AuthoringInit
<1>7. WindowOK
  BY <1>1, <1>2 DEF StudioInit, WindowOK, Busy, Agrees, Truthful
<1>8. BundleIsWhole
  BY DEF StudioInit, AuthoringInit, BundleIsWhole
<1> QED BY <1>3, <1>4, <1>5, <1>6, <1>7, <1>8 DEF IInv, Project, Screen

(* The user edits the project.                                              *)
LEMMA EditsKeep ==
  ASSUME Project, Screen, UserEditsFile \/ UserEditsFolder \/ UserEditsConfig, UNCHANGED studio
  PROVE  Project' /\ Screen' /\ output' = output
<1>1. Edited
  BY UserEditsFileKeeps, UserEditsFolderKeeps, UserEditsConfigKeeps
<1> QED BY <1>1, ScreenEdited DEF Edited

LEMMA StepHolds == ASSUME IInv, Next PROVE IInv'
<1>1. Project /\ Screen /\ BundleIsWhole
  BY DEF IInv
<1>2. ASSUME UNCHANGED output PROVE BundleIsWhole'
  BY <1>1, <1>2 DEF BundleIsWhole
<1>3. ASSUME NEW kind \in Commands, Click(kind) PROVE IInv'
  BY <1>1, <1>2, <1>3, ClickKeeps DEF Click, project, IInv
<1>4. ASSUME Type \/ Dismiss \/ Settle PROVE IInv'
  BY <1>1, <1>2, <1>4, TypeKeeps, DismissKeeps, SettleKeeps
     DEF Type, Dismiss, Settle, project, IInv
<1>5. ASSUME ShellStep \/ Reopen PROVE IInv'
  BY <1>1, <1>2, <1>5, ShellStepKeeps, ReopenKeeps DEF ShellStep, Reopen, project, IInv
<1>6. ASSUME JobStep, UNCHANGED studio PROVE IInv'
  <2>1. Works /\ (output' # output => output'.valid /\ output'.intact)
    BY <1>1, <1>6, JobStepWorks
  <2>2. Screen'
    BY <1>1, <1>6, <2>1, ScreenWorks
  <2>3. BundleIsWhole'
    BY <1>1, <2>1 DEF BundleIsWhole
  <2> QED BY <2>1, <2>2, <2>3 DEF Works, IInv
<1>7. ASSUME StepFails, UNCHANGED studio PROVE IInv'
  <2>1. Works /\ UNCHANGED output
    BY <1>1, <1>7, StepFailsWorks DEF StepFails
  <2> QED BY <1>1, <1>2, <1>7, <2>1, ScreenWorks DEF Works, IInv
<1>8. ASSUME Kill, UNCHANGED studio PROVE IInv'
  BY <1>1, <1>2, <1>8, KillKeeps DEF Kill, project, IInv
<1>9. ASSUME UserEditsFile \/ UserEditsFolder \/ UserEditsConfig, UNCHANGED studio PROVE IInv'
  BY <1>1, <1>2, <1>9, EditsKeep DEF IInv
<1> QED BY <1>3, <1>4, <1>5, <1>6, <1>7, <1>8, <1>9 DEF Next

LEMMA StutterHolds == ASSUME IInv, UNCHANGED vars PROVE IInv'
<1>1. UNCHANGED <<project, job, edits, faults, active, cmd, view, draft>> /\ output' = output
  BY DEF vars, project
<1>2. Typed'
  BY <1>1 DEF IInv, Project, Typed, project
<1>3. Fits'
  BY <1>1 DEF IInv, Project, Fits, Busy
<1>4. CommandOK'
  BY <1>1 DEF IInv, Screen, CommandOK, Busy
<1>5. WindowOK'
  BY <1>1 DEF IInv, Screen, WindowOK, Busy, Succeeded, Agrees, Truthful
<1>6. BundleIsWhole'
  BY <1>1 DEF IInv, BundleIsWhole
<1> QED BY <1>1, <1>2, <1>3, <1>4, <1>5, <1>6, SameProject DEF IInv, Project, Screen

(* The invariant of the window, of the worker and of the user's files.      *)
THEOREM Invariance == Spec => []IInv
<1>1. StudioInit => IInv
  BY InitHolds
<1>2. IInv /\ [Next]_vars => IInv'
  BY StepHolds, StutterHolds
<1> QED BY <1>1, <1>2, PTL DEF Spec

-----------------------------------------------------------------------------
(* The results.                                                             *)

(* Every variable has its type: what the window shows, the argument and the *)
(* result of the command under way and the fields of the worker's job.      *)
THEOREM TypeCorrect == Spec => []TypeOK
<1>1. IInv => TypeOK
  BY DEF IInv, Project, TypeOK
<1> QED BY <1>1, Invariance, PTL

(* studio.rs, use-studio.ts: between commands the window shows the project  *)
(* that is active, and after a build the one that was built.                *)
THEOREM WindowAgrees == Spec => []ScreenAgrees
<1>1. IInv => ScreenAgrees
  BY DEF IInv, Screen, WindowOK, Agrees, Truthful, ScreenAgrees
<1> QED BY <1>1, Invariance, PTL

(* write_bundle: the bundle at the output path is complete, and every       *)
(* object in it is what its manifest says.                                  *)
THEOREM WholeBundle == Spec => []BundleIsWhole
<1>1. IInv => BundleIsWhole
  BY DEF IInv
<1> QED BY <1>1, Invariance, PTL

(* An import that has gone well has published all it brings.                *)
LEMMA ImportSucceeded ==
  ASSUME IInv, job.kind = "import", job.pc = "ok"
  PROVE  /\ \A f \in Brings(job.arg) \ job.touched : payload[f] = "import"
         /\ "config" \notin job.touched =>
              /\ job.before.config.exec \cup (Brings(job.arg) \cap Programs) = config.exec
              /\ job.touched = {} => Valid(config, payload)
<1>1. Accounted /\ Configured /\ Complete
  BY DEF IInv, Project, ImportOK
<1>2. Brings(job.arg) \subseteq Wanted /\ Brings(job.arg) \subseteq Files
  BY Constants DEF Brings, Wanted
<1>3. \A f \in Untouched : FileAccounted(f)
  BY <1>1 DEF Accounted
<1>4. \A e \in Wanted : Done(e)
  BY <1>1 DEF Complete
<1>5. \A f \in Brings(job.arg) \ job.touched : payload[f] = "import"
  BY <1>2, <1>3, <1>4 DEF Untouched, FileAccounted
<1>6. ASSUME "config" \notin job.touched
      PROVE  config = job.candidate /\ job.source = job.before.config
             /\ job.candidate.exec = job.source.exec \cup (Brings(job.arg) \cap Programs)
  BY <1>1, <1>6 DEF Configured, At
<1>7. job.touched = {} => Valid(job.candidate, payload)
  BY <1>1 DEF Complete
<1> QED BY <1>5, <1>6, <1>7

(* One that has failed, and whose rollback has not, has changed nothing.    *)
LEMMA ImportFailed ==
  ASSUME IInv, job.kind = "import", job.pc = "error"
  PROVE  /\ \A f \in Files \ job.touched : payload[f] = job.before.payload[f]
         /\ Folder \notin job.touched => folder = job.before.folder
         /\ "config" \notin job.touched => config = job.before.config
BY DEF IInv, Project, ImportOK, Accounted, Configured, At, Untouched

(* authoring.rs import_payload: an import that fails, and says nothing of   *)
(* its rollback, has changed nothing of what the user left alone; one that  *)
(* succeeds has published everything and lists its programs; and no file is *)
(* left half written.                                                       *)
THEOREM AllOrNothing == Spec => []ImportIsAllOrNothing
<1>1. ASSUME IInv PROVE ImportIsAllOrNothing
  <2>1. ASSUME job.kind = "import", Over
        PROVE  \A f \in Files : payload[f] # "partial" \/ job.before.payload[f] = "partial"
    <3>1. NoHalf /\ job.pc # "write"
      BY <1>1, <2>1 DEF IInv, Project, ImportOK, Over
    <3> QED BY <3>1 DEF NoHalf, At
  <2> QED BY <1>1, <2>1, ImportSucceeded, ImportFailed DEF ImportIsAllOrNothing, At
<1> QED BY <1>1, Invariance, PTL

(* authoring.rs: a file the user wrote is changed or removed only at a path *)
(* this very import has published, and an edit of luxury.toml is not        *)
(* overwritten, but for an edit that falls between a look and the rename it *)
(* decides: of luxury.toml (:666), of the starter moved aside (:599) and of *)
(* the starter put back (:628).                                             *)
THEOREM WorkIsKept == Spec => UsersWorkIsKept
<1> DEFINE Kept ==
      /\ \A f \in Files : payload[f] = "own" /\ payload'[f] # "own" =>
           Done(f) \/ job.writing = f \/ (f = Starter /\ Starter \in job.late)
      /\ config' # config => config \in {job.source, NoConfig, HalfConfig} \/ "config" \in job.late
<1>1. ASSUME IInv, [Next]_vars, job.pc # "idle", edits' = edits PROVE Kept
  <2>1. ASSUME Next PROVE Spares \/ UNCHANGED project
    <3>1. ASSUME UserEditsFile \/ UserEditsFolder \/ UserEditsConfig PROVE FALSE
      BY <1>1, <3>1 DEF UserEditsFile, UserEditsFolder, UserEditsConfig, IInv, Project, Typed
    <3>2. ASSUME JobStep \/ StepFails, UNCHANGED studio PROVE Spares
      BY <1>1, <3>2, JobStepWorks, StepFailsWorks DEF IInv, Works
    <3>3. ASSUME Kill PROVE UNCHANGED project
      BY <3>3 DEF Kill
    <3> QED BY <2>1, <3>1, <3>2, <3>3 DEF Next, Click, Type, Dismiss, Settle, ShellStep, Reopen
  <2>2. ASSUME UNCHANGED vars PROVE UNCHANGED project
    BY <2>2 DEF vars
  <2> QED BY <1>1, <2>1, <2>2 DEF Spares, project
<1>2. IInv /\ [Next]_vars
        => [job.pc # "idle" /\ edits' = edits => Kept]_<<project, job, edits>>
  BY <1>1
<1> QED BY <1>2, Invariance, PTL DEF Spec, UsersWorkIsKept

=============================================================================
