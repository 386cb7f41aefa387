--------------------------- MODULE ExchangeProofs ---------------------------
(***************************************************************************)
(* Proofs about a session of the desktop shell with its CLI: for every     *)
(* package, project and form the types allow, any number of requests, any  *)
(* failure and any changes of others, both ends of the pipe agree, only    *)
(* what was agreed to is installed, and failures are told.                 *)
(***************************************************************************)
EXTENDS Exchange, SequenceTheorems, TLAPS

-----------------------------------------------------------------------------
(* The inductive invariant.                                                 *)

SetupAsks   == {"defaults", "inspect", "prepareInstall", "install", "uninstall", "launch"}
ProjectAsks == {"initProject", "validateProject", "updateProject", "importPayload",
                "resolvePayloadPath", "buildProject"}
KindOf(method) == IF method \in Mutations THEN method ELSE "request"

\* The elements of a sequence are all that is known of them.
Lined(s) == s \in Seq({s[i] : i \in DOMAIN s})

ShellShape(s) ==
  s = [app |-> s.app, path |-> s.path, key |-> s.key, asks |-> s.asks, at |-> s.at, id |-> s.id,
       cancel |-> s.cancel, last |-> s.last, bound |-> s.bound, plan |-> s.plan, shown |-> s.shown,
       told |-> s.told, refused |-> s.refused, agreed |-> s.agreed]
JobShape(j) ==
  /\ j = [at |-> j.at, id |-> j.id, method |-> j.method, args |-> j.args, cancel |-> j.cancel,
          m |-> j.m, action |-> j.action, done |-> j.done, total |-> j.total]
  /\ j.at # "idle" /\ j.cancel \in BOOLEAN /\ j.done \in Nat /\ j.total \in Nat

Shaped ==
  /\ disk = NoProject => shell.app = "studio"
  /\ disk # NoProject => disk \in Manifests /\ ValidManifest(disk)
  /\ shell.app = "setup" => ValidBundle(disk)
  /\ installed \in Holdings /\ others \in Nat
  /\ ShellShape(shell) /\ shell.app \in {"setup", "studio"} /\ shell.path \in Nat \ {0}
  /\ shell.id \in Nat /\ shell.cancel \in Nat /\ shell.asks \in Nat
  /\ client = [up |-> client.up, next |-> client.next, pending |-> client.pending]
  /\ client.up \in BOOLEAN /\ client.next \in Nat \ {0}
  /\ job = NoJob \/ JobShape(job)
  /\ Lined(requests) /\ Lined(lines)

\* A server that could not load its key never took a request.
ServerFits ==
  /\ server \in {"down", "up", "exited"}
  /\ server = "down" => lines = <<>> /\ client.up
  /\ server = "up" => KeyLoads(shell.key) /\ client.up
  /\ server # "up" => job = NoJob /\ shell.at = "new" /\ tree = "before"
  /\ server = "exited" => /\ ~KeyLoads(shell.key)
                          /\ lines = IF client.up THEN <<ErrorLine(0, "trusted_publisher_key_invalid")>>
                                                  ELSE <<>>

\* One request at a time, and one cancellation.
Flow ==
  client.up =>
    /\ shell.id < client.next /\ shell.cancel < client.next
    /\ shell.id = 0 \/ shell.id # shell.cancel
    /\ \A i \in DOMAIN requests :
         /\ requests[i].id \in {shell.id, shell.cancel} \ {0}
         /\ requests[i].method = "cancel" <=> requests[i].id = shell.cancel
         /\ requests[i].id = shell.id => requests[i].method = shell.last
    /\ \A i, j \in DOMAIN requests : requests[i].id = requests[j].id => i = j
    /\ job # NoJob =>
         /\ job.id = shell.id /\ job.id # 0 /\ job.method = shell.last
         /\ \A i \in DOMAIN requests : requests[i].id # job.id
    /\ \A p \in client.pending : /\ p.id \in 1 .. client.next - 1
                                 /\ p.id = shell.id => p.kind = KindOf(shell.last)
    /\ \A id \in {shell.id, shell.cancel} \ {0} : \E p \in client.pending : p.id = id

\* Lines are of open requests, the one that ends a request is its last.
Settles(line) == line.type # "event"
Ordering ==
  server # "exited" =>
    /\ \A i \in DOMAIN lines : /\ lines[i].id \in {shell.id, shell.cancel} \ {0}
                               /\ ~Settles(lines[i]) => lines[i].id = shell.id
    /\ \A i, j \in DOMAIN lines : Settles(lines[i]) /\ lines[i].id = lines[j].id => j <= i
    /\ \A i \in DOMAIN lines, j \in DOMAIN requests : Settles(lines[i]) => lines[i].id # requests[j].id
    /\ job # NoJob => \A i \in DOMAIN lines : Settles(lines[i]) => lines[i].id # job.id

ParamsFit(method, p) ==
  /\ method = "defaults" => p = [none \in {} |-> None]
  /\ method = "inspect" => p = [packagePath |-> shell.path]
  /\ method = "prepareInstall" => p = PrepareParams
  /\ method = "install" => p = InstallParams(shell.agreed)
  /\ method \in {"uninstall", "launch"} => p = PackageParams
  /\ method \in {"initProject", "validateProject"} => p = ProjectParams
  /\ method = "updateProject" =>
       \E form \in Forms :
         p = With(ProjectParams, [package |-> form, target |-> form.target, install |-> form])
  /\ method \in DOMAIN AskWith => p = With(ProjectParams, AskWith[method])
  /\ method = "cancel" => DOMAIN p = {"requestId"}

Asks ==
  \A i \in DOMAIN requests :
    /\ requests[i].method \in SetupAsks \cup ProjectAsks \cup {"cancel"}
    /\ ParamsFit(requests[i].method, requests[i].params)

JobFits ==
  job # NoJob =>
    /\ job.method = "install" =>
         /\ job.args.expectedFingerprint = shell.bound.print
         /\ job.args.allowUnsigned => shell.agreed.unsigned
         /\ job.args.acceptLicense => shell.agreed.license
         /\ job.args.allowPublisherMigration => shell.agreed.migration
         /\ ~job.args.allowDowngrade
    /\ job.method \in {"uninstall", "launch"} => job.args.packageId = shell.bound.id
    /\ job.method = "updateProject" => job.args.package \in Manifests
    /\ job.method \in Mutations => shell.path <= MaxPath /\ tree = "before"

\* Where the shell is, and what it asks there.
AtFits ==
  /\ shell.app = "setup" => shell.at \in {"new", "ready", "bound", "planned", "refresh", "reselect", "lost"}
  /\ shell.app = "studio" => shell.at \in {"new", "open"}
  /\ shell.at = "open" => disk # NoProject
  /\ tree # "before" => shell.path <= MaxPath
  /\ shell.id # 0 =>
       /\ shell.last \in IF shell.app = "setup" THEN SetupAsks ELSE ProjectAsks
       /\ shell.last = "defaults" => shell.at = "new"
       /\ shell.last = "inspect" => shell.at = "ready"
       /\ shell.last = "prepareInstall" => shell.at \in {"bound", "planned", "refresh", "reselect"}
       /\ shell.last \in {"install", "uninstall", "launch"} => shell.at = "planned"
       /\ shell.last \in ProjectAsks \ {"initProject", "validateProject"} => shell.at = "open"
       /\ shell.last \in Mutations => shell.told = None

Alike(r, m) == r.id = m.id /\ r.directory = m.directory /\ r.files = m.files /\ r.size = m.size
Reading == shell.last \in ProjectAsks \ {"resolvePayloadPath"}

ErrorFits(code) ==
  shell.last \in Mutations =>
    /\ code = "rollback_failed" <=> tree = "torn"
    /\ tree # "after"
    /\ tree = "unknown" => code = "internal_error"

ResultFits(r) ==
  /\ shell.last = "defaults" => r.target = Host
  /\ shell.last = "inspect" =>
       /\ AcceptsPackage(r) \/ r.target # Host \/ r.directory > 255
       /\ others = 0 => Alike(r, disk)
  /\ shell.last = "prepareInstall" =>
       /\ AcceptsPlan(r) \/ r.version.bytes > MaxMessage
       /\ others = 0 => r.status = "recoveryRequired" \/ r.action = ActionOn(installed)
  /\ shell.last = "install" =>
       /\ others = 0 => AcceptsInstall(r, shell.plan, shell.bound)
       /\ others = 0 => installed.order = "same"
  /\ shell.last \in Mutations => tree = "after"
  /\ shell.last \in {"uninstall", "launch"} => r.id = shell.bound.id
  /\ Reading => disk # NoProject /\ (AcceptsProject(r) \/ r.directory > 255 \/ r.description.bytes > MaxMessage)

LineFits(line) ==
  /\ line.type \in {"event", "error", "result"}
  /\ line.type = "event" => ParsesEvent(KindOf(shell.last), line)
  /\ line.type = "error" => line.message = Bounded(SystemText)
  /\ line.type = "error" /\ line.id = shell.id => ErrorFits(line.code)
  /\ line.type = "result" /\ line.id = shell.id => ResultFits(line.result)

Answers == server # "exited" => \A i \in DOMAIN lines : LineFits(lines[i])

\* The package on display is the one at the path, and the plan is for what the
\* destination holds, until others change them.
Applied ==
  \E i \in DOMAIN lines :
    lines[i].type = "result" /\ lines[i].id = shell.id /\ shell.last \in Mutations
Reviewed ==
  others = 0 /\ shell.app = "setup" =>
    /\ shell.at \notin {"new", "ready"} => Alike(shell.bound, disk)
    /\ shell.at \in {"planned", "refresh"} =>
         Applied \/ shell.plan.status = "recoveryRequired" \/ shell.plan.action = ActionOn(installed)

Acting == {"preflight", "applying", "committing"}
Doing ==
  job # NoJob =>
    /\ job.method \in SetupAsks \cup ProjectAsks
    /\ job.method \notin Mutations => job.at = "open"
    /\ job.method = "install" =>
         /\ job.at \in {"open", "validating", "verifying", "recovering", "planning"} \cup Acting
         /\ job.at # "open" =>
              /\ job.m \in Manifests /\ ValidBundle(job.m)
              /\ job.m.print = job.args.expectedFingerprint
              /\ job.m.signer = None => job.args.allowUnsigned
              /\ others = 0 => job.m = disk
         /\ job.at \notin {"open", "validating"} /\ job.m.license # Absent => job.args.acceptLicense
         /\ job.at \in Acting =>
              /\ installed.migrate => job.args.allowPublisherMigration
              /\ installed.order \notin {"newer", "other"}
              /\ job.action = ActionOn(installed)
    /\ job.method = "uninstall" =>
         job.at \in {"open", "recovering", "loadingReceipt", "removing", "committing"}
    /\ job.done <= job.total
    /\ job.at \in {"removing"} \cup Acting => job.total > 0
    /\ job.at \notin {"removing"} \cup Acting => job.total = 0

IInv ==
  /\ Shaped /\ ServerFits /\ Flow /\ Ordering /\ Asks /\ JobFits /\ AtFits /\ Answers /\ Reviewed
  /\ Doing /\ AnswersAreAccepted /\ FailureIsTold

-----------------------------------------------------------------------------
(* Sequences whose elements are all that is known of them.                  *)

LEMMA LinedLen ==
  ASSUME NEW s, Lined(s)
  PROVE  Len(s) \in Nat /\ DOMAIN s = 1 .. Len(s)
BY LenProperties, Zenon DEF Lined

LEMMA IsLined ==
  ASSUME NEW S, NEW s \in Seq(S)
  PROVE  Lined(s)
<1> DEFINE T == {s[i] : i \in DOMAIN s}
<1>1. Len(s) \in Nat /\ s \in [1 .. Len(s) -> S] /\ DOMAIN s = 1 .. Len(s)
  BY LenProperties
<1>2. s \in [1 .. Len(s) -> T]
  BY <1>1
<1>3. s \in Seq(T)
  BY <1>1, <1>2, SeqDef
<1> QED BY <1>3 DEF Lined

LEMMA LinedConcat ==
  ASSUME NEW s, NEW t, Lined(s), Lined(t)
  PROVE  /\ Lined(s \o t) /\ Len(s \o t) = Len(s) + Len(t)
         /\ \A i \in 1 .. Len(s) + Len(t) : (s \o t)[i] = IF i <= Len(s) THEN s[i] ELSE t[i - Len(s)]
<1> DEFINE S == {s[i] : i \in DOMAIN s} \cup {t[i] : i \in DOMAIN t}
<1>1. s \in Seq({s[i] : i \in DOMAIN s}) /\ t \in Seq({t[i] : i \in DOMAIN t})
  BY DEF Lined
<1>2. s \in Seq(S) /\ t \in Seq(S)
  BY <1>1, SeqMonotonic
<1>3. s \o t \in Seq(S)
  BY <1>2, ConcatProperties
<1> HIDE DEF S
<1> QED BY <1>2, <1>3, ConcatProperties, IsLined

LEMMA LinedAppend ==
  ASSUME NEW s, NEW e, Lined(s)
  PROVE  /\ Lined(Append(s, e)) /\ Len(Append(s, e)) = Len(s) + 1
         /\ \A i \in 1 .. Len(s) : Append(s, e)[i] = s[i]
         /\ Append(s, e)[Len(s) + 1] = e
<1> DEFINE S == {s[i] : i \in DOMAIN s} \cup {e}
<1>1. s \in Seq({s[i] : i \in DOMAIN s})
  BY DEF Lined
<1>2. s \in Seq(S) /\ e \in S
  BY <1>1, SeqMonotonic
<1> HIDE DEF S
<1>3. /\ Append(s, e) \in Seq(S) /\ Len(Append(s, e)) = Len(s) + 1
      /\ \A i \in 1 .. Len(s) : Append(s, e)[i] = s[i]
      /\ Append(s, e)[Len(s) + 1] = e
  BY <1>2, AppendProperties
<1>4. Lined(Append(s, e))
  BY <1>3, IsLined
<1> QED BY <1>3, <1>4

LEMMA LinedTail ==
  ASSUME NEW s, Lined(s), s # <<>>
  PROVE  /\ Lined(Tail(s)) /\ Len(s) > 0 /\ Len(Tail(s)) = Len(s) - 1 /\ Head(s) = s[1]
         /\ \A i \in 1 .. Len(Tail(s)) : Tail(s)[i] = s[i + 1]
<1> DEFINE S == {s[i] : i \in DOMAIN s}
<1>1. s \in Seq(S)
  BY DEF Lined
<1> HIDE DEF S
<1>2. Len(s) > 0 /\ Len(s) \in Nat
  BY <1>1, EmptySeq, LenProperties
<1>3. Head(s) = s[1]
  BY <1>1, <1>2 
<1> QED BY <1>1, <1>2, <1>3, HeadTailProperties, IsLined

LEMMA LinedOne ==
  ASSUME NEW a
  PROVE  Lined(<<a>>) /\ Len(<<a>>) = 1 /\ <<a>>[1] = a
<1>1. <<a>> \in Seq({a})
  OBVIOUS
<1> QED BY <1>1, IsLined

LEMMA LinedTwo ==
  ASSUME NEW a, NEW b
  PROVE  Lined(<<a, b>>) /\ Len(<<a, b>>) = 2 /\ <<a, b>>[1] = a /\ <<a, b>>[2] = b
<1>1. <<a, b>> \in Seq({a, b})
  OBVIOUS
<1> QED BY <1>1, IsLined

LEMMA LinedNone == Lined(<<>>) /\ Len(<<>>) = 0
BY IsLined, EmptySeq

(* Writing keeps the lines there are and puts new ones behind them.         *)
LEMMA Written ==
  ASSUME Lined(lines), NEW more, Lined(more), Write(more)
  PROVE  /\ Lined(lines') /\ Len(lines') = Len(lines) + Len(more) /\ Len(lines) \in Nat /\ Len(more) \in Nat
         /\ \A i \in 1 .. Len(lines) : i \in DOMAIN lines /\ i \in DOMAIN lines' /\ lines'[i] = lines[i]
         /\ \A i \in DOMAIN lines' :
              \/ i \in DOMAIN lines /\ i <= Len(lines) /\ lines'[i] = lines[i]
              \/ i > Len(lines) /\ i - Len(lines) \in DOMAIN more /\ lines'[i] = more[i - Len(lines)]
<1>1. lines' = lines \o more
  BY DEF Write
<1>2. Lined(lines') /\ Len(lines') = Len(lines) + Len(more)
  BY <1>1, LinedConcat
<1>3. /\ DOMAIN lines' = 1 .. Len(lines') /\ Len(lines) \in Nat /\ Len(more) \in Nat
      /\ DOMAIN lines = 1 .. Len(lines) /\ DOMAIN more = 1 .. Len(more)
  BY <1>2, LinedLen
<1>4. \A i \in 1 .. Len(lines) + Len(more) :
        lines'[i] = IF i <= Len(lines) THEN lines[i] ELSE more[i - Len(lines)]
  BY <1>1, LinedConcat
<1> QED BY <1>2, <1>3, <1>4

-----------------------------------------------------------------------------
(* Fields of records that were put together.                                *)

LEMMA WithFields ==
  ASSUME NEW f, NEW g
  PROVE  /\ DOMAIN With(f, g) = DOMAIN f \cup DOMAIN g
         /\ \A x \in DOMAIN f : With(f, g)[x] = f[x]
         /\ \A x \in DOMAIN g \ DOMAIN f : With(f, g)[x] = g[x]
BY DEF With

LEMMA PrepareFields ==
  /\ DOMAIN PrepareParams = {"installBase", "stateRoot", "packagePath", "expectedFingerprint"}
  /\ PrepareParams["installBase"] = shell.path /\ PrepareParams["stateRoot"] = shell.path
  /\ PrepareParams["packagePath"] = shell.path
  /\ PrepareParams["expectedFingerprint"] = shell.bound.print
<1> DEFINE f == AtRoots
           g == [packagePath |-> shell.path, expectedFingerprint |-> shell.bound.print]
<1>1. /\ DOMAIN f = {"installBase", "stateRoot"} /\ f["installBase"] = shell.path
      /\ f["stateRoot"] = shell.path /\ DOMAIN g = {"packagePath", "expectedFingerprint"}
      /\ g["packagePath"] = shell.path /\ g["expectedFingerprint"] = shell.bound.print
  BY DEF AtRoots
<1>2. PrepareParams = With(f, g)
  BY DEF PrepareParams
<1> HIDE DEF f, g
<1>3. /\ DOMAIN With(f, g) = DOMAIN f \cup DOMAIN g
      /\ \A x \in DOMAIN f : With(f, g)[x] = f[x]
      /\ \A x \in DOMAIN g \ DOMAIN f : With(f, g)[x] = g[x]
  BY WithFields
<1> QED BY <1>1, <1>2, <1>3

LEMMA InstallFields ==
  ASSUME NEW c
  PROVE  /\ DOMAIN InstallParams(c) = {"installBase", "stateRoot", "packagePath", "expectedFingerprint",
                                      "allowUnsigned", "acceptLicense", "allowPublisherMigration"}
         /\ \A f \in {"installBase", "stateRoot", "packagePath"} : InstallParams(c)[f] = shell.path
         /\ InstallParams(c)["expectedFingerprint"] = shell.bound.print
         /\ InstallParams(c)["allowUnsigned"] = (shell.bound.signer = None /\ c.unsigned)
         /\ InstallParams(c)["acceptLicense"] = (shell.bound.license # Absent /\ c.license)
         /\ InstallParams(c)["allowPublisherMigration"] = c.migration
<1> DEFINE g == [allowUnsigned |-> shell.bound.signer = None /\ c.unsigned,
                 acceptLicense |-> shell.bound.license # Absent /\ c.license,
                 allowPublisherMigration |-> c.migration]
           p == PrepareParams
<1>1. InstallParams(c) = With(p, g)
  BY DEF InstallParams
<1>2. /\ DOMAIN g = {"allowUnsigned", "acceptLicense", "allowPublisherMigration"}
      /\ g["allowUnsigned"] = (shell.bound.signer = None /\ c.unsigned)
      /\ g["acceptLicense"] = (shell.bound.license # Absent /\ c.license)
      /\ g["allowPublisherMigration"] = c.migration
  OBVIOUS
<1>3. /\ DOMAIN p = {"installBase", "stateRoot", "packagePath", "expectedFingerprint"}
      /\ p["installBase"] = shell.path /\ p["stateRoot"] = shell.path
      /\ p["packagePath"] = shell.path /\ p["expectedFingerprint"] = shell.bound.print
  BY PrepareFields
<1> HIDE DEF g, p
<1>4. /\ DOMAIN With(p, g) = DOMAIN p \cup DOMAIN g
      /\ \A x \in DOMAIN p : With(p, g)[x] = p[x]
      /\ \A x \in DOMAIN g \ DOMAIN p : With(p, g)[x] = g[x]
  BY WithFields
<1> QED BY <1>1, <1>2, <1>3, <1>4

LEMMA PackageFields ==
  /\ DOMAIN PackageParams = {"installBase", "stateRoot", "packageId"}
  /\ PackageParams["installBase"] = shell.path /\ PackageParams["stateRoot"] = shell.path
  /\ PackageParams["packageId"] = shell.bound.id
<1> DEFINE f == AtRoots
           g == [packageId |-> shell.bound.id]
<1>1. /\ DOMAIN f = {"installBase", "stateRoot"} /\ f["installBase"] = shell.path
      /\ f["stateRoot"] = shell.path /\ DOMAIN g = {"packageId"} /\ g["packageId"] = shell.bound.id
  BY DEF AtRoots
<1>2. PackageParams = With(f, g)
  BY DEF PackageParams
<1> HIDE DEF f, g
<1>3. /\ DOMAIN With(f, g) = DOMAIN f \cup DOMAIN g
      /\ \A x \in DOMAIN f : With(f, g)[x] = f[x]
      /\ \A x \in DOMAIN g \ DOMAIN f : With(f, g)[x] = g[x]
  BY WithFields
<1> QED BY <1>1, <1>2, <1>3

LEMMA UpdateFields ==
  ASSUME NEW form,
         NEW p, p = With(ProjectParams, [package |-> form, target |-> form.target, install |-> form])
  PROVE  /\ DOMAIN p = {"projectPath", "package", "target", "install"}
         /\ p["projectPath"] = shell.path /\ p["package"] = form
<1> DEFINE f == ProjectParams
           g == [package |-> form, target |-> form.target, install |-> form]
<1>1. /\ DOMAIN f = {"projectPath"} /\ f["projectPath"] = shell.path
      /\ DOMAIN g = {"package", "target", "install"} /\ g["package"] = form
  BY DEF ProjectParams
<1>2. p = With(f, g)
  OBVIOUS
<1> HIDE DEF f, g
<1>3. /\ DOMAIN With(f, g) = DOMAIN f \cup DOMAIN g
      /\ \A x \in DOMAIN f : With(f, g)[x] = f[x]
      /\ \A x \in DOMAIN g \ DOMAIN f : With(f, g)[x] = g[x]
  BY WithFields
<1> QED BY <1>1, <1>2, <1>3

LEMMA AskFields ==
  ASSUME NEW method \in DOMAIN AskWith, NEW p, p = With(ProjectParams, AskWith[method])
  PROVE  /\ DOMAIN p = {"projectPath"} \cup DOMAIN AskWith[method]
         /\ \A x \in DOMAIN p : p[x] = shell.path
<1> DEFINE f == ProjectParams
           g == AskWith[method]
<1>1. /\ DOMAIN f = {"projectPath"} /\ f["projectPath"] = shell.path
  BY DEF ProjectParams
<1>2. \A x \in DOMAIN g : g[x] = shell.path
  <2>1. method \in {"importPayload", "resolvePayloadPath", "buildProject"}
    BY DEF AskWith
  <2>2. CASE method = "importPayload"
    <3>1. g = [sourcePaths |-> shell.path]
      BY <2>2 DEF AskWith
    <3> HIDE DEF g
    <3> QED BY <3>1
  <2>3. CASE method = "resolvePayloadPath"
    <3>1. g = [selectedPath |-> shell.path]
      BY <2>3 DEF AskWith
    <3> HIDE DEF g
    <3> QED BY <3>1
  <2>4. CASE method = "buildProject"
    <3>1. g = [outputPath |-> shell.path]
      BY <2>4 DEF AskWith
    <3> HIDE DEF g
    <3> QED BY <3>1
  <2> QED BY <2>1, <2>2, <2>3, <2>4
<1>3. p = With(f, g)
  OBVIOUS
<1> HIDE DEF f, g
<1>4. /\ DOMAIN With(f, g) = DOMAIN f \cup DOMAIN g
      /\ \A x \in DOMAIN f : With(f, g)[x] = f[x]
      /\ \A x \in DOMAIN g \ DOMAIN f : With(f, g)[x] = g[x]
  BY WithFields
<1>5. DOMAIN p = {"projectPath"} \cup DOMAIN g /\ \A x \in DOMAIN p : p[x] = shell.path
  BY <1>1, <1>2, <1>3, <1>4
<1> QED BY <1>5 DEF g

LEMMA AskWithFields ==
  /\ DOMAIN AskWith = {"importPayload", "resolvePayloadPath", "buildProject"}
  /\ DOMAIN AskWith["importPayload"] = {"sourcePaths"}
  /\ DOMAIN AskWith["resolvePayloadPath"] = {"selectedPath"}
  /\ DOMAIN AskWith["buildProject"] = {"outputPath"}
<1>1. DOMAIN AskWith = {"importPayload", "resolvePayloadPath", "buildProject"}
  BY DEF AskWith
<1>2. AskWith["importPayload"] = [sourcePaths |-> shell.path]
  BY DEF AskWith
<1>3. AskWith["resolvePayloadPath"] = [selectedPath |-> shell.path]
  BY DEF AskWith
<1>4. AskWith["buildProject"] = [outputPath |-> shell.path]
  BY DEF AskWith
<1>5. DOMAIN AskWith["importPayload"] = {"sourcePaths"}
  BY <1>2
<1>6. DOMAIN AskWith["resolvePayloadPath"] = {"selectedPath"}
  BY <1>3
<1>7. DOMAIN AskWith["buildProject"] = {"outputPath"}
  BY <1>4
<1> QED BY <1>1, <1>5, <1>6, <1>7

(* The server understands what the shell writes, if the path is not too     *)
(* long and the texts of a form are of their types.                         *)
LEMMA Understands ==
  ASSUME NEW q, q.method \in SetupAsks \cup ProjectAsks \cup {"cancel"}, ParamsFit(q.method, q.params),
         shell.path \in Nat \ {0}, shell.path <= MaxPath,
         q.method = "updateProject" => q.params.package.parses
  PROVE  Decodes(q)
<1>0. SUFFICES /\ Required[q.method] \subseteq DOMAIN q.params
               /\ DOMAIN q.params \subseteq Required[q.method] \cup DOMAIN Defaults(q.method)
               /\ \A f \in DOMAIN q.params \cap PathFields : q.params[f] = shell.path
               /\ "package" \in DOMAIN q.params => q.params["package"].parses
  <2>1. q.method \in DOMAIN Required
    BY DEF SetupAsks, ProjectAsks, Required
  <2>2. shell.path \in 1 .. MaxPath
    <3> DEFINE n == shell.path
    <3>1. n \in Nat \ {0} /\ n <= MaxPath /\ MaxPath \in Nat
      BY SMT DEF MaxPath
    <3> HIDE DEF n
    <3>2. n \in 1 .. MaxPath
      BY <3>1
    <3> QED BY <3>2 DEF n
  <2> QED BY <2>1, <2>2 DEF Decodes, AbsolutePath
<1>1. CASE q.method = "defaults"
  BY <1>1 DEF ParamsFit, Required, PathFields, Roots
<1>2. CASE q.method = "inspect"
  BY <1>2 DEF ParamsFit, Required, PathFields, Roots
<1>3. CASE q.method = "prepareInstall"
  <2>1. q.params = PrepareParams
    BY <1>3 DEF ParamsFit
  <2> QED BY <1>3, <2>1, PrepareFields DEF Required, PathFields, Roots
<1>4. CASE q.method = "install"
  <2>1. q.params = InstallParams(shell.agreed)
    BY <1>4 DEF ParamsFit
  <2>2. DOMAIN Defaults("install") = {"acceptLicense", "allowDowngrade", "allowPublisherMigration"}
    BY DEF Defaults
  <2> QED BY <1>4, <2>1, <2>2, InstallFields DEF Required, PathFields, Roots
<1>5. CASE q.method \in {"uninstall", "launch"}
  <2>1. q.params = PackageParams
    BY <1>5 DEF ParamsFit
  <2> QED BY <1>5, <2>1, PackageFields DEF Required, PathFields, Roots
<1>6. CASE q.method \in {"initProject", "validateProject"}
  BY <1>6 DEF ParamsFit, Required, PathFields, Roots, ProjectParams
<1>7. CASE q.method = "updateProject"
  <2>1. PICK form \in Forms :
          q.params = With(ProjectParams, [package |-> form, target |-> form.target, install |-> form])
    BY <1>7 DEF ParamsFit
  <2>2. /\ DOMAIN q.params = {"projectPath", "package", "target", "install"}
        /\ q.params["projectPath"] = shell.path
    BY <2>1, UpdateFields
  <2> QED BY <1>7, <2>2 DEF Required, PathFields, Roots
<1>8. CASE q.method \in {"importPayload", "resolvePayloadPath", "buildProject"}
  <2>1. q.method \in DOMAIN AskWith
    BY <1>8, AskWithFields
  <2>2. q.params = With(ProjectParams, AskWith[q.method])
    BY <2>1 DEF ParamsFit
  <2>3. /\ DOMAIN q.params = {"projectPath"} \cup DOMAIN AskWith[q.method]
        /\ \A x \in DOMAIN q.params : q.params[x] = shell.path
    BY <2>1, <2>2, AskFields
  <2> QED BY <1>8, <2>3, AskWithFields DEF Required
<1>9. CASE q.method = "cancel"
  BY <1>9 DEF ParamsFit, Required, PathFields, Roots
<1> QED BY <1>1, <1>2, <1>3, <1>4, <1>5, <1>6, <1>7, <1>8, <1>9 DEF SetupAsks, ProjectAsks

-----------------------------------------------------------------------------
(* Codes.                                                                   *)

LEMMA PortCodes ==
  ASSUME NEW other
  PROVE  /\ DOMAIN PortCode(other) =
              {"Integrity", "Collision", "Permission", "Capacity", "Busy", "Recovery", "State",
               "Unsupported", "Io", "Other"}
         /\ \A e \in DOMAIN PortCode(other) :
              PortCode(other)[e] \in {"integrity_failed", "collision", "permission_denied",
                 "insufficient_space", "busy", "recovery_required", "state_error", "unsupported",
                 "io_error", other}
BY DEF PortCode

(* Only a rollback that failed has the code that says so.                   *)
LEMMA InstallCodes ==
  \A e \in DOMAIN InstallCode : InstallCode[e] = "rollback_failed" <=> e = "Rollback"
<1> DEFINE f == [UnsupportedTarget |-> "unsupported_target", UnsupportedScope |-> "unsupported_scope",
        LicenseNotAccepted |-> "license_not_accepted", InvalidReceipt |-> "invalid_state",
        ReceiptMismatch |-> "state_conflict", PathAliasChanged |-> "state_conflict",
        PublisherMigrationDenied |-> "publisher_migration_required",
        PublisherMismatch |-> "publisher_mismatch",
        PublisherRotationDenied |-> "publisher_rotation_denied",
        DowngradeDenied |-> "downgrade_denied", ReinstallMismatch |-> "reinstall_mismatch",
        Cancelled |-> "cancelled", Rollback |-> "rollback_failed"]
           g == PortCode("install_failed")
<1>1. InstallCode = With(f, g)
  BY DEF InstallCode
<1>2. "Rollback" \in DOMAIN f /\ \A e \in DOMAIN f : f[e] = "rollback_failed" <=> e = "Rollback"
  OBVIOUS
<1>3. \A e \in DOMAIN g : g[e] # "rollback_failed" /\ e # "Rollback"
  BY PortCodes
<1> HIDE DEF f, g
<1>4. /\ DOMAIN With(f, g) = DOMAIN f \cup DOMAIN g
      /\ \A x \in DOMAIN f : With(f, g)[x] = f[x]
      /\ \A x \in DOMAIN g \ DOMAIN f : With(f, g)[x] = g[x]
  BY WithFields
<1> QED BY <1>1, <1>2, <1>3, <1>4

LEMMA UninstallCodes ==
  \A e \in DOMAIN UninstallCode : UninstallCode[e] = "rollback_failed" <=> e = "Rollback"
<1> DEFINE f == [InvalidReceipt |-> "invalid_state", UnsupportedScope |-> "unsupported_scope",
        ReceiptPackageMismatch |-> "state_conflict", Cancelled |-> "cancelled",
        Rollback |-> "rollback_failed"]
           g == PortCode("uninstall_failed")
<1>1. UninstallCode = With(f, g)
  BY DEF UninstallCode
<1>2. "Rollback" \in DOMAIN f /\ \A e \in DOMAIN f : f[e] = "rollback_failed" <=> e = "Rollback"
  OBVIOUS
<1>3. \A e \in DOMAIN g : g[e] # "rollback_failed" /\ e # "Rollback"
  BY PortCodes
<1> HIDE DEF f, g
<1>4. /\ DOMAIN With(f, g) = DOMAIN f \cup DOMAIN g
      /\ \A x \in DOMAIN f : With(f, g)[x] = f[x]
      /\ \A x \in DOMAIN g \ DOMAIN f : With(f, g)[x] = g[x]
  BY WithFields
<1> QED BY <1>1, <1>2, <1>3, <1>4

LEMMA MutationCodes ==
  ASSUME NEW method \in Mutations, NEW e \in DOMAIN Code[method]
  PROVE  Code[method][e] = "rollback_failed" <=> e = "Rollback"
<1>1. CASE method = "install"
  <2>1. Code[method] = InstallCode
    BY <1>1 DEF Code
  <2> QED BY <2>1, InstallCodes
<1>2. CASE method = "uninstall"
  <2>1. Code[method] = UninstallCode
    BY <1>2 DEF Code
  <2> QED BY <2>1, UninstallCodes
<1> QED BY <1>1, <1>2 DEF Mutations

(* Every error of an install or uninstall has a code.                       *)
LEMMA CodesOfPorts ==
  ASSUME NEW method \in Mutations
  PROVE  PortKinds \cup {"Cancelled", "Rollback", "InvalidReceipt", "UnsupportedScope"}
           \subseteq DOMAIN Code[method]
<1>0. PortKinds \subseteq DOMAIN PortCode("install_failed") /\ PortKinds \subseteq DOMAIN PortCode("uninstall_failed")
  BY SessionAssumption, PortCodes
<1>1. DOMAIN PortCode("install_failed") \cup {"Cancelled", "Rollback", "InvalidReceipt", "UnsupportedScope"}
        \subseteq DOMAIN InstallCode
  BY DEF InstallCode, With
<1>2. DOMAIN PortCode("uninstall_failed") \cup {"Cancelled", "Rollback", "InvalidReceipt", "UnsupportedScope"}
        \subseteq DOMAIN UninstallCode
  BY DEF UninstallCode, With
<1>3. Code["install"] = InstallCode /\ Code["uninstall"] = UninstallCode
  BY DEF Code
<1> QED BY <1>0, <1>1, <1>2, <1>3 DEF Mutations

LEMMA PublicCode ==
  ASSUME NEW code
  PROVE  /\ Public(code) = "rollback_failed" <=> code = "rollback_failed"
         /\ Public(code) # "done" /\ Public(code) # None
         /\ code = "internal_error" => Public(code) = "internal_error"
         /\ code = "invalid_backend_output" => Public(code) = "invalid_backend_output"
BY DEF Public, PublicCodes, None

LEMMA MessageFits == ValidMessage(Bounded(SystemText))
BY DEF ValidMessage, Bounded, SystemText, Least, MaxMessage

-----------------------------------------------------------------------------
(* Packages that the format allows and the shell takes.                     *)

LEMMA DescribedFields ==
  ASSUME NEW m \in Manifests
  PROVE  /\ \A x \in DOMAIN m : Described(m)[x] = m[x]
         /\ Described(m).shown = (IF m.log THEN Least(m.files, MaxLog) ELSE 0)
         /\ Described(m).omitted = (IF m.log THEN m.files - Described(m).shown ELSE 0)
         /\ DOMAIN m = {"id", "format", "schema", "signer", "next", "name", "publisher", "version",
              "description", "license", "directory", "target", "entry", "lower", "log", "links",
              "files", "size", "print", "parses"}
<1> DEFINE s == IF m.log THEN Least(m.files, MaxLog) ELSE 0
           g == [shown |-> s, omitted |-> IF m.log THEN m.files - s ELSE 0]
<1>1. Described(m) = With(m, g)
  BY DEF Described
<1>2. DOMAIN m = {"id", "format", "schema", "signer", "next", "name", "publisher", "version",
              "description", "license", "directory", "target", "entry", "lower", "log", "links",
              "files", "size", "print", "parses"}
  BY DEF Manifests
<1>3. /\ DOMAIN g = {"shown", "omitted"} /\ g["shown"] = s
      /\ g["omitted"] = IF m.log THEN m.files - s ELSE 0
  OBVIOUS
<1> HIDE DEF g
<1>4. /\ DOMAIN With(m, g) = DOMAIN m \cup DOMAIN g
      /\ \A x \in DOMAIN m : With(m, g)[x] = m[x]
      /\ \A x \in DOMAIN g \ DOMAIN m : With(m, g)[x] = g[x]
  BY WithFields
<1>5. Described(m)["shown"] = s /\ Described(m)["omitted"] = IF m.log THEN m.files - s ELSE 0
  BY <1>1, <1>2, <1>3, <1>4
<1> QED BY <1>1, <1>2, <1>4, <1>5

LEMMA TextTypes ==
  ASSUME NEW t \in Texts
  PROVE  /\ t.chars \in Nat /\ t.bytes \in Nat /\ t.chars <= t.bytes /\ t.bytes <= 4 * t.chars
         /\ t = [chars |-> t.chars, bytes |-> t.bytes]
BY DEF Texts

(* A text within a limit in characters is within one of four times as many  *)
(* bytes, and has bytes.                                                    *)
LEMMA ShortText ==
  ASSUME NEW t \in Texts, NEW max \in Nat, max <= 256, TextOf(t, max)
  PROVE  ShellText(t) /\ t.chars <= max
<1> DEFINE c == t.chars
           b == t.bytes
<1>1. c \in Nat /\ b \in Nat /\ c <= b /\ b <= 4 * c /\ c \in 1 .. max
  BY TextTypes DEF TextOf
<1> HIDE DEF c, b
<1>2. b \in 1 .. 1024 /\ c <= max
  BY <1>1
<1> QED BY <1>2 DEF b, c, ShellText, MaxMessage

LEMMA LicenseText ==
  ASSUME NEW t \in Texts, TextOf(t, MaxLicense)
  PROVE  ShellLicense(t)
<1> DEFINE c == t.chars
           b == t.bytes
<1>1. c \in Nat /\ b \in Nat /\ c <= b /\ b <= 4 * c /\ c \in 1 .. MaxLicense
  BY TextTypes DEF TextOf
<1> HIDE DEF c, b
<1>2. b <= 65536
  BY SMT, <1>1 DEF MaxLicense
<1> QED BY SMT, <1>1, <1>2 DEF b, c, ShellLicense

LEMMA NotAbsent ==
  ASSUME NEW t \in Texts, t # Absent
  PROVE  t.bytes \in Nat \ {0}
<1> DEFINE c == t.chars
           b == t.bytes
<1>1. c \in Nat /\ b \in Nat /\ c <= b /\ b <= 4 * c /\ t = [chars |-> c, bytes |-> b]
  BY TextTypes
<1>2. c # 0 \/ b # 0
  BY <1>1 DEF Absent
<1> HIDE DEF c, b
<1>3. b # 0
  BY <1>1, <1>2
<1> QED BY <1>1, <1>3 DEF b

LEMMA SomeText ==
  ASSUME NEW t \in Texts, t # Absent, t.bytes <= MaxMessage
  PROVE  ShellText(t)
<1> DEFINE b == t.bytes
<1>1. b \in Nat \ {0} /\ b <= MaxMessage
  BY NotAbsent
<1> HIDE DEF b
<1>2. b \in 1 .. MaxMessage
  BY <1>1 DEF MaxMessage
<1> QED BY <1>2 DEF b, ShellText

LEMMA ManifestTypes ==
  ASSUME NEW m \in Manifests
  PROVE  /\ m.format \in Nat /\ m.schema \in Nat /\ m.directory \in Nat /\ m.files \in Nat /\ m.size \in Nat
         /\ m.name \in Texts /\ m.publisher \in Texts /\ m.version \in Texts /\ m.version # Absent
         /\ m.description \in Texts /\ m.license \in Texts
         /\ m.entry \in BOOLEAN /\ m.log \in BOOLEAN
         /\ m.links \in Seq([label : Texts, url : Nat, https : BOOLEAN])
BY DEF Manifests, Versions

LEMMA IdentityIsAccepted ==
  ASSUME NEW m \in Manifests, ValidManifest(m), Describable(m), m.directory <= 255
  PROVE  AcceptsIdentity(Described(m))
<1> DEFINE r == Described(m)
<1>1. /\ r.format = m.format /\ r.schema = m.schema /\ r.license = m.license /\ r.name = m.name
      /\ r.publisher = m.publisher /\ r.version = m.version /\ r.directory = m.directory
      /\ r.size = m.size
  BY DescribedFields
<1>2. ShellText(m.name) /\ ShellText(m.publisher)
  <2>1. TextOf(m.name, 128) /\ TextOf(m.publisher, 128)
    BY DEF ValidManifest
  <2> QED BY <2>1, ShortText, ManifestTypes
<1>3. ShellText(m.version)
  <2>1. m.version.bytes <= MaxMessage
    BY DEF Describable
  <2> QED BY <2>1, SomeText, ManifestTypes
<1>4. m.license # Absent => m.schema = 3 /\ ShellLicense(m.license)
  <2>1. SUFFICES ASSUME m.license # Absent PROVE m.schema = 3 /\ ShellLicense(m.license)
    OBVIOUS
  <2>2. m.schema >= 3 /\ m.schema \in 1 .. 3 /\ TextOf(m.license, MaxLicense)
    BY <2>1 DEF ValidManifest
  <2>3. ShellLicense(m.license)
    BY <2>2, LicenseText, ManifestTypes
  <2> QED BY <2>2, <2>3
<1>5. ShellDirectory(m.directory) /\ m.size <= MaxSafe
  <2> DEFINE d == m.directory
             z == m.size
  <2>1. d \in 1 .. 512 /\ d <= 255 /\ z <= MaxPayload /\ z \in Nat
    BY ManifestTypes DEF ValidManifest, ValidDirectory
  <2> HIDE DEF d, z
  <2>2. d \in 1 .. 255 /\ z <= MaxSafe
    BY SMT, <2>1 DEF MaxPayload, MaxSafe
  <2> QED BY <2>2 DEF d, z, ShellDirectory
<1>6. m.format \in 1 .. 3 /\ m.schema \in 1 .. 3
  BY DEF ValidManifest
<1> HIDE DEF r
<1>8. AcceptsIdentity(r)
  BY <1>1, <1>2, <1>3, <1>4, <1>5, <1>6 DEF AcceptsIdentity
<1> QED BY <1>8 DEF r

(* Whatever project the format allows, Studio takes, but for a directory or *)
(* a description that only the format allows.                               *)
LEMMA ProjectIsAccepted ==
  ASSUME NEW m \in Manifests, ValidManifest(m), Describable(m)
  PROVE  LET r == Described(m)
         IN  AcceptsProject(r) \/ r.directory > 255 \/ r.description.bytes > MaxMessage
<1> DEFINE r == Described(m)
<1>1. r.directory = m.directory /\ r.description = m.description
  BY DescribedFields
<1>2. m.directory \in Nat /\ m.description \in Texts
  BY ManifestTypes
<1>3. CASE m.directory <= 255 /\ m.description.bytes <= MaxMessage
  <2>1. AcceptsIdentity(r)
    BY <1>3, IdentityIsAccepted
  <2>3. m.description # Absent => ShellText(m.description)
    BY <1>2, <1>3, SomeText
  <2> HIDE DEF r
  <2>4. AcceptsProject(r)
    BY <1>1, <2>1, <2>3 DEF AcceptsProject
  <2> QED BY <2>4 DEF r
<1>4. m.description.bytes \in Nat
  BY <1>2 DEF Texts
<1>5. m.directory > 255 \/ m.description.bytes > MaxMessage \/ (m.directory <= 255 /\ m.description.bytes <= MaxMessage)
  BY <1>2, <1>4 DEF MaxMessage
<1> QED BY <1>1, <1>3, <1>5

LEMMA PackageIsAccepted ==
  ASSUME NEW m \in Manifests, ValidBundle(m), Describable(m), m.directory <= 255
  PROVE  AcceptsPackage(Described(m))
<1> DEFINE r == Described(m)
<1>0. ValidManifest(m) /\ (m.format = 1 <=> m.signer = None) /\ (m.next # None => m.next # m.signer)
  BY DEF ValidBundle
<1>1. AcceptsIdentity(r)
  BY <1>0, IdentityIsAccepted
<1>2. /\ r.format = m.format /\ r.schema = m.schema /\ r.signer = m.signer /\ r.next = m.next
      /\ r.entry = m.entry /\ r.links = m.links /\ r.log = m.log /\ r.files = m.files
  BY DescribedFields
<1>3. /\ r.shown = (IF m.log THEN Least(m.files, MaxLog) ELSE 0)
      /\ r.omitted = (IF m.log THEN m.files - r.shown ELSE 0)
  BY DescribedFields
<1>4. ShellLinks(m.links) /\ \A i \in DOMAIN m.links : ValidUrl(m.links[i])
  <2>1. Len(m.links) <= MaxLinks /\ \A i \in DOMAIN m.links : TextOf(m.links[i].label, 48) /\ ValidUrl(m.links[i])
    BY <1>0 DEF ValidManifest
  <2>2. ASSUME NEW i \in DOMAIN m.links PROVE m.links[i].label.chars <= 48 /\ ShellText(m.links[i].label)
    <3> DEFINE L == m.links
               R == [label : Texts, url : Nat, https : BOOLEAN]
    <3>1. L \in Seq(R) /\ i \in DOMAIN L
      BY ManifestTypes
    <3>2. L[i] \in R
      <4> HIDE DEF L, R
      <4> QED BY <3>1, LenProperties, ElementOfSeq
    <3>3. m.links[i].label \in Texts
      BY <3>2
    <3>4. TextOf(m.links[i].label, 48)
      BY <2>1
    <3> QED BY <3>3, <3>4, ShortText
  <2> QED BY <2>1, <2>2 DEF ShellLinks
<1>5. ShellLog(r)
  <2>1. m.files \in Nat /\ m.log \in BOOLEAN
    BY ManifestTypes
  <2> HIDE DEF r
  <2> QED BY <1>2, <1>3, <2>1 DEF ShellLog, Least, MaxLog
<1>6. /\ m.format = 3 <=> m.next # None
      /\ m.entry => m.schema >= 2
  BY <1>0 DEF ValidManifest
<1>7. m.next # None => m.signer \notin {None, m.next}
  BY <1>0, <1>6
<1>8. m.entry => m.schema # 1
  BY <1>6
<1> HIDE DEF r
<1>9. AcceptsPackage(r)
  BY <1>0, <1>1, <1>2, <1>4, <1>5, <1>6, <1>7, <1>8 DEF AcceptsPackage
<1> QED BY <1>9 DEF r

-----------------------------------------------------------------------------
(* What the steps of the shell leave alone of what it knows.                *)

Asking(s, method, c) ==
  /\ ShellShape(s) /\ s.app = shell.app /\ s.path = shell.path /\ s.key = shell.key
  /\ s.asks = shell.asks /\ s.at = shell.at /\ s.id = client.next /\ s.cancel = shell.cancel
  /\ s.last = method /\ s.bound = shell.bound /\ s.plan = shell.plan
  /\ s.told = (IF method \in Mutations THEN None ELSE shell.told) /\ s.refused = {}
  /\ s.agreed = c

LEMMA AskedShape ==
  ASSUME ShellShape(shell), NEW method, NEW s, s = Asked(method)
  PROVE  Asking(s, method, shell.agreed)
BY DEF Asking, ShellShape, Asked, Mutations

LEMMA AgreedShape ==
  ASSUME ShellShape(shell), NEW c, NEW s, s = [Asked("install") EXCEPT !.agreed = c]
  PROVE  Asking(s, "install", c)
BY DEF Asking, ShellShape, Asked, Mutations

LEMMA CancelShape ==
  ASSUME ShellShape(shell), NEW n, NEW s, s = [shell EXCEPT !.cancel = n]
  PROVE  /\ ShellShape(s) /\ s.app = shell.app /\ s.path = shell.path /\ s.key = shell.key
         /\ s.asks = shell.asks /\ s.at = shell.at /\ s.id = shell.id /\ s.cancel = n
         /\ s.last = shell.last /\ s.bound = shell.bound /\ s.plan = shell.plan
         /\ s.told = shell.told /\ s.refused = shell.refused /\ s.agreed = shell.agreed
BY DEF ShellShape

LEMMA ShownShape ==
  ASSUME ShellShape(shell), NEW x, NEW s, s = [shell EXCEPT !.shown = x, !.refused = {}]
  PROVE  /\ ShellShape(s) /\ s.app = shell.app /\ s.path = shell.path /\ s.key = shell.key
         /\ s.asks = shell.asks /\ s.at = shell.at /\ s.id = shell.id /\ s.cancel = shell.cancel
         /\ s.last = shell.last /\ s.bound = shell.bound /\ s.plan = shell.plan
         /\ s.told = shell.told /\ s.refused = {} /\ s.agreed = shell.agreed
BY DEF ShellShape

LEMMA SettledShape ==
  ASSUME ShellShape(shell), NEW to, NEW shown, NEW told, NEW s, s = Settled(to, shown, told)
  PROVE  /\ ShellShape(s) /\ s.app = shell.app /\ s.path = shell.path /\ s.key = shell.key
         /\ s.asks = shell.asks /\ s.at = to /\ s.id = 0 /\ s.cancel = shell.cancel
         /\ s.last = shell.last /\ s.bound = shell.bound /\ s.plan = shell.plan
         /\ s.told = (IF shell.last \in Mutations THEN told ELSE shell.told)
         /\ s.refused = shell.refused /\ s.agreed = shell.agreed
BY DEF ShellShape, Settled, Mutations

LEMMA ExceptShape ==
  ASSUME NEW s, ShellShape(s), NEW x
  PROVE  /\ LET t == [s EXCEPT !.plan = x] IN
            /\ ShellShape(t) /\ t.app = s.app /\ t.path = s.path /\ t.key = s.key
            /\ t.asks = s.asks /\ t.at = s.at /\ t.id = s.id /\ t.cancel = s.cancel
            /\ t.last = s.last /\ t.bound = s.bound /\ t.plan = x
            /\ t.told = s.told /\ t.refused = s.refused /\ t.agreed = s.agreed
         /\ LET t == [s EXCEPT !.bound = x] IN
            /\ ShellShape(t) /\ t.app = s.app /\ t.path = s.path /\ t.key = s.key
            /\ t.asks = s.asks /\ t.at = s.at /\ t.id = s.id /\ t.cancel = s.cancel
            /\ t.last = s.last /\ t.bound = x /\ t.plan = s.plan
            /\ t.told = s.told /\ t.refused = s.refused /\ t.agreed = s.agreed
         /\ LET t == [s EXCEPT !.refused = x] IN
            /\ ShellShape(t) /\ t.app = s.app /\ t.path = s.path /\ t.key = s.key
            /\ t.asks = s.asks /\ t.at = s.at /\ t.id = s.id /\ t.cancel = s.cancel
            /\ t.last = s.last /\ t.bound = s.bound /\ t.plan = s.plan
            /\ t.told = s.told /\ t.refused = x /\ t.agreed = s.agreed
         /\ LET t == [s EXCEPT !.cancel = x] IN
            /\ ShellShape(t) /\ t.app = s.app /\ t.path = s.path /\ t.key = s.key
            /\ t.asks = s.asks /\ t.at = s.at /\ t.id = s.id /\ t.cancel = x
            /\ t.last = s.last /\ t.bound = s.bound /\ t.plan = s.plan
            /\ t.told = s.told /\ t.refused = s.refused /\ t.agreed = s.agreed
<1>1. LET t == [s EXCEPT !.plan = x] IN
            /\ ShellShape(t) /\ t.app = s.app /\ t.path = s.path /\ t.key = s.key
            /\ t.asks = s.asks /\ t.at = s.at /\ t.id = s.id /\ t.cancel = s.cancel
            /\ t.last = s.last /\ t.bound = s.bound /\ t.plan = x
            /\ t.told = s.told /\ t.refused = s.refused /\ t.agreed = s.agreed
  BY DEF ShellShape
<1>2. LET t == [s EXCEPT !.bound = x] IN
            /\ ShellShape(t) /\ t.app = s.app /\ t.path = s.path /\ t.key = s.key
            /\ t.asks = s.asks /\ t.at = s.at /\ t.id = s.id /\ t.cancel = s.cancel
            /\ t.last = s.last /\ t.bound = x /\ t.plan = s.plan
            /\ t.told = s.told /\ t.refused = s.refused /\ t.agreed = s.agreed
  BY DEF ShellShape
<1>3. LET t == [s EXCEPT !.refused = x] IN
            /\ ShellShape(t) /\ t.app = s.app /\ t.path = s.path /\ t.key = s.key
            /\ t.asks = s.asks /\ t.at = s.at /\ t.id = s.id /\ t.cancel = s.cancel
            /\ t.last = s.last /\ t.bound = s.bound /\ t.plan = s.plan
            /\ t.told = s.told /\ t.refused = x /\ t.agreed = s.agreed
  BY DEF ShellShape
<1>4. LET t == [s EXCEPT !.cancel = x] IN
            /\ ShellShape(t) /\ t.app = s.app /\ t.path = s.path /\ t.key = s.key
            /\ t.asks = s.asks /\ t.at = s.at /\ t.id = s.id /\ t.cancel = x
            /\ t.last = s.last /\ t.bound = s.bound /\ t.plan = s.plan
            /\ t.told = s.told /\ t.refused = s.refused /\ t.agreed = s.agreed
  BY DEF ShellShape
<1> QED BY <1>1, <1>2, <1>3, <1>4

LEMMA ParamsFrame ==
  ASSUME NEW method, NEW p, ParamsFit(method, p),
         shell'.path = shell.path, shell'.bound = shell.bound, shell'.agreed = shell.agreed
  PROVE  ParamsFit(method, p)'
BY DEF ParamsFit, InstallParams, PrepareParams, PackageParams, ProjectParams, AtRoots, AskWith

LEMMA NotAProject ==
  ASSUME NEW m \in Manifests
  PROVE  m # NoProject
<1>1. "id" \in DOMAIN m
  BY DEF Manifests
<1>2. "id" \notin DOMAIN NoProject
  BY DEF NoProject
<1> QED BY <1>1, <1>2

-----------------------------------------------------------------------------
(* The beginning.                                                           *)

LEMMA InitIInv == Init => IInv
<1> SUFFICES ASSUME Init PROVE IInv
  OBVIOUS
<1>1. PICK s \in Starts :
    /\ disk = s.disk /\ installed = s.installed /\ others = 0
    /\ shell = [app |-> s.app, path |-> s.path, key |-> s.key, asks |-> s.asks, at |-> "new", id |-> 0, cancel |-> 0,
                last |-> None, bound |-> NoProject, plan |-> NoPlan, shown |-> None, told |-> None,
                refused |-> {}, agreed |-> NoConsent]
    /\ client = [up |-> TRUE, next |-> 1, pending |-> {}]
    /\ requests = <<>> /\ server = "down" /\ job = NoJob /\ tree = "before" /\ lines = <<>>
  BY DEF Init
<1>2. /\ s.app \in {"setup", "studio"} /\ s.path \in Nat \ {0} /\ s.asks \in Nat
      /\ s.installed \in Holdings
      /\ s.disk = NoProject => s.app = "studio"
      /\ s.disk # NoProject => s.disk \in Manifests /\ ValidManifest(s.disk)
      /\ s.app = "setup" => ValidBundle(s.disk)
  BY SessionAssumption
<1>3. /\ shell.app = s.app /\ shell.path = s.path /\ shell.asks = s.asks /\ shell.at = "new" /\ shell.id = 0
      /\ shell.cancel = 0 /\ shell.told = None /\ shell.refused = {} /\ ShellShape(shell)
  BY <1>1 DEF ShellShape
<1>4. client.up /\ client.next = 1 /\ client.pending = {} /\ client.up \in BOOLEAN
  BY <1>1
<1>5. DOMAIN requests = {} /\ DOMAIN lines = {} /\ Lined(requests) /\ Lined(lines)
  BY <1>1, LinedNone
<1>6. Shaped
  BY <1>1, <1>2, <1>3, <1>4, <1>5 DEF Shaped
<1>7. ServerFits
  BY <1>1, <1>3, <1>4 DEF ServerFits
<1>8. Flow
  BY <1>1, <1>3, <1>4, <1>5 DEF Flow
<1>9. Ordering
  BY <1>1, <1>5 DEF Ordering
<1>10. Asks /\ Answers
  BY <1>5 DEF Asks, Answers
<1>11. JobFits /\ Doing
  BY <1>1 DEF JobFits, Doing
<1>12. AtFits
  BY <1>1, <1>3 DEF AtFits
<1>13. Reviewed
  BY <1>3 DEF Reviewed
<1>14. AnswersAreAccepted /\ FailureIsTold
  BY <1>3 DEF AnswersAreAccepted, FailureIsTold
<1> QED BY <1>6, <1>7, <1>8, <1>9, <1>10, <1>11, <1>12, <1>13, <1>14 DEF IInv

-----------------------------------------------------------------------------
(* The shell asks.                                                          *)

LEMMA Appended ==
  ASSUME Lined(requests), NEW q, requests' = Append(requests, q)
  PROVE  /\ Lined(requests')
         /\ Len(requests) + 1 \in DOMAIN requests' /\ requests'[Len(requests) + 1] = q
         /\ \A i \in DOMAIN requests' :
              \/ i \in DOMAIN requests /\ requests'[i] = requests[i]
              \/ i = Len(requests) + 1 /\ requests'[i] = q /\ i \notin DOMAIN requests
<1>1. Lined(requests') /\ Len(requests') = Len(requests) + 1
  BY LinedAppend
<1>2. /\ Len(requests) \in Nat /\ DOMAIN requests = 1 .. Len(requests)
      /\ DOMAIN requests' = 1 .. Len(requests')
  BY <1>1, LinedLen
<1> QED BY <1>1, <1>2, LinedAppend

LEMMA NoJobWithoutRequest ==
  ASSUME IInv, client.up, shell.id = 0
  PROVE  job = NoJob
BY DEF IInv, Flow

(* Nothing is in flight but a cancellation and its answer.                  *)
LEMMA OnlyCancels ==
  ASSUME IInv, client.up, shell.id = 0
  PROVE  /\ job = NoJob /\ \A p \in client.pending : p.id # 0
         /\ \A i \in DOMAIN requests :
              requests[i].id = shell.cancel /\ requests[i].method = "cancel" /\ shell.cancel # 0
         /\ server # "exited" => \A i \in DOMAIN lines :
              lines[i].id = shell.cancel /\ shell.cancel # 0 /\ Settles(lines[i])
<1>1. job = NoJob
  BY NoJobWithoutRequest
<1>2. \A p \in client.pending : p.id # 0
  BY DEF IInv, Flow, Shaped
<1>3. \A i \in DOMAIN requests :
        requests[i].id = shell.cancel /\ requests[i].method = "cancel" /\ shell.cancel # 0
  BY DEF IInv, Flow
<1>4. server # "exited" => \A i \in DOMAIN lines :
        lines[i].id = shell.cancel /\ shell.cancel # 0 /\ Settles(lines[i])
  BY DEF IInv, Ordering
<1> QED BY <1>1, <1>2, <1>3, <1>4

LEMMA AskKeeps ==
  ASSUME IInv, Idle, NEW method, NEW params, NEW c,
         method \in IF shell.app = "setup" THEN SetupAsks ELSE ProjectAsks,
         Submit(method, params, KindOf(method)), Asking(shell', method, c),
         method # "install" => c = shell.agreed /\ ParamsFit(method, params),
         method = "install" => params = InstallParams(c),
         method = "defaults" => shell.at = "new",
         method = "inspect" => shell.at = "ready",
         method = "prepareInstall" => shell.at \in {"bound", "planned", "refresh", "reselect"},
         method \in {"install", "uninstall", "launch"} => shell.at = "planned",
         method \in ProjectAsks \ {"initProject", "validateProject"} => shell.at = "open"
  PROVE  IInv'
<1> DEFINE n == client.next
           q == [id |-> n, method |-> method, params |-> params]
           k == [id |-> n, kind |-> KindOf(method)]
<1>1. /\ requests' = Append(requests, q) /\ client' = [client EXCEPT !.next = n + 1, !.pending = client.pending \cup {k}]
      /\ UNCHANGED <<disk, installed, others, server, job, tree, lines>>
  BY DEF Submit, world
<1>2. client.up /\ shell.id = 0 /\ client.next <= shell.asks
  BY DEF Idle
<1>3. ShellShape(shell) /\ Lined(requests) /\ Lined(lines)
      /\ client = [up |-> client.up, next |-> client.next, pending |-> client.pending]
      /\ n \in Nat \ {0}
  BY DEF IInv, Shaped
<1>4. /\ ShellShape(shell') /\ shell'.app = shell.app /\ shell'.path = shell.path /\ shell'.key = shell.key
      /\ shell'.asks = shell.asks /\ shell'.at = shell.at /\ shell'.id = n /\ shell'.cancel = shell.cancel
      /\ shell'.last = method /\ shell'.bound = shell.bound /\ shell'.plan = shell.plan
      /\ shell'.told = (IF method \in Mutations THEN None ELSE shell.told) /\ shell'.refused = {}
      /\ shell'.agreed = c
  BY DEF Asking
<1>5. /\ client'.up = client.up /\ client'.next = n + 1 /\ client'.pending = client.pending \cup {k}
      /\ client' = [up |-> client'.up, next |-> client'.next, pending |-> client'.pending]
  BY <1>1, <1>3
<1>6. /\ Lined(requests')
      /\ \A i \in DOMAIN requests' :
           \/ i \in DOMAIN requests /\ requests'[i] = requests[i]
           \/ i = Len(requests) + 1 /\ requests'[i] = q /\ i \notin DOMAIN requests
  BY <1>1, <1>3, Appended
<1>7. /\ job = NoJob /\ \A p \in client.pending : p.id # 0
      /\ \A i \in DOMAIN requests :
           requests[i].id = shell.cancel /\ requests[i].method = "cancel" /\ shell.cancel # 0
      /\ server # "exited" => \A i \in DOMAIN lines :
           lines[i].id = shell.cancel /\ shell.cancel # 0 /\ Settles(lines[i])
  BY <1>2, OnlyCancels
<1>8. shell.cancel < n /\ shell.cancel \in Nat
  BY <1>2 DEF IInv, Flow, Shaped
<1>9. method \in SetupAsks \cup ProjectAsks /\ method # "cancel" /\ q.id = n /\ q.method = method /\ q.params = params
      /\ k.id = n /\ k.kind = KindOf(method)
  BY DEF SetupAsks, ProjectAsks
<1>10. job' = NoJob
  BY <1>1, <1>7
<1>11. Shaped'
  BY <1>1, <1>3, <1>4, <1>5, <1>6, <1>10 DEF IInv, Shaped
<1>12. ServerFits'
  BY <1>1, <1>4, <1>5 DEF IInv, ServerFits
<1>13. Flow'
  <2>1. shell'.id < client'.next /\ shell'.cancel < client'.next /\ shell'.id # shell'.cancel
    BY <1>3, <1>4, <1>5, <1>8
  <2>2. ASSUME NEW i \in DOMAIN requests'
        PROVE  /\ requests'[i].id \in {shell'.id, shell'.cancel} \ {0}
               /\ requests'[i].method = "cancel" <=> requests'[i].id = shell'.cancel
               /\ requests'[i].id = shell'.id => requests'[i].method = shell'.last
    BY <1>3, <1>4, <1>6, <1>7, <1>8, <1>9
  <2>3. ASSUME NEW i \in DOMAIN requests', NEW j \in DOMAIN requests', requests'[i].id = requests'[j].id
        PROVE  i = j
    <3>1. \A a, b \in DOMAIN requests : requests[a].id = requests[b].id => a = b
      BY <1>2 DEF IInv, Flow
    <3> QED BY <2>3, <3>1, <1>6, <1>7, <1>8, <1>9
  <2>4. \A p \in client'.pending : p.id \in 1 .. client'.next - 1 /\ (p.id = shell'.id => p.kind = KindOf(method))
    <3>1. \A p \in client.pending : p.id \in 1 .. n - 1
      BY <1>2 DEF IInv, Flow
    <3> QED BY <3>1, <1>3, <1>4, <1>5, <1>9
  <2>5. \A id \in {shell'.id, shell'.cancel} \ {0} : \E p \in client'.pending : p.id = id
    <3>1. \A id \in {shell.id, shell.cancel} \ {0} : \E p \in client.pending : p.id = id
      BY <1>2 DEF IInv, Flow
    <3>2. ASSUME NEW id \in {shell'.id, shell'.cancel} \ {0} PROVE \E p \in client'.pending : p.id = id
      <4>1. CASE id = n
        <5>1. k \in client'.pending /\ k.id = id
          BY <4>1, <1>5, <1>9
        <5> HIDE DEF k
        <5> QED BY <5>1
      <4>2. CASE id # n
        <5>1. id \in {shell.id, shell.cancel} \ {0}
          BY <3>2, <4>2, <1>4
        <5>2. PICK p \in client.pending : p.id = id
          BY <3>1, <5>1
        <5>3. p \in client'.pending
          BY <1>5
        <5> QED BY <5>2, <5>3
      <4> QED BY <4>1, <4>2
    <3> QED BY <3>2
  <2>6. KindOf(shell.last)' = KindOf(method)
    BY <1>4 DEF KindOf, Mutations
  <2> QED BY <2>1, <2>2, <2>3, <2>4, <2>5, <2>6, <1>10 DEF Flow
<1>14. Ordering'
  <2>1. SUFFICES ASSUME server # "exited" PROVE Ordering'
    BY <1>1 DEF Ordering
  <2>2. \A i, j \in DOMAIN lines : Settles(lines[i]) /\ lines[i].id = lines[j].id => j <= i
    BY <2>1 DEF IInv, Ordering
  <2>3. \A i \in DOMAIN lines, j \in DOMAIN requests : Settles(lines[i]) => lines[i].id # requests[j].id
    BY <2>1 DEF IInv, Ordering
  <2>4. \A i \in DOMAIN lines, j \in DOMAIN requests' : Settles(lines[i]) => lines[i].id # requests'[j].id
    BY <2>1, <2>3, <1>6, <1>7, <1>8, <1>9
  <2> QED BY <2>1, <2>2, <2>4, <1>1, <1>4, <1>7, <1>10 DEF Ordering, Settles
<1>15. Asks'
  <2>1. ASSUME NEW i \in DOMAIN requests'
        PROVE  /\ requests'[i].method \in SetupAsks \cup ProjectAsks \cup {"cancel"}
               /\ ParamsFit(requests[i].method, requests[i].params)'
    <3>1. CASE i \in DOMAIN requests /\ requests'[i] = requests[i]
      <4>1. requests[i].method = "cancel" /\ DOMAIN requests[i].params = {"requestId"}
        BY <3>1, <1>7 DEF IInv, Asks, ParamsFit
      <4>2. "cancel" \notin DOMAIN AskWith'
        BY DEF AskWith
      <4> QED BY <3>1, <4>1, <4>2 DEF ParamsFit
    <3>2. CASE requests'[i] = q
      <4>1. requests'[i].method = method /\ requests'[i].params = params
        BY <3>2, <1>9
      <4>2. CASE method # "install"
        BY <4>1, <4>2, <1>4, <1>9, ParamsFrame
      <4>3. CASE method = "install"
        <5>1. params = InstallParams(shell.agreed)'
          BY <4>3, <1>4 DEF InstallParams, PrepareParams, AtRoots
        <5>2. "install" \notin DOMAIN AskWith'
          BY DEF AskWith
        <5> QED BY <4>1, <4>3, <5>1, <5>2, <1>9 DEF ParamsFit
      <4> QED BY <4>2, <4>3
    <3> QED BY <3>1, <3>2, <1>6
  <2> QED BY <2>1 DEF Asks
<1>16. JobFits' /\ Doing'
  BY <1>10 DEF JobFits, Doing
<1>17. AtFits'
  BY <1>1, <1>4 DEF IInv, AtFits
<1>18. Answers'
  <2>1. ASSUME server # "exited", NEW i \in DOMAIN lines PROVE LineFits(lines[i])'
    <3>1. lines[i].id # n /\ lines[i].type # "event" /\ LineFits(lines[i])
      BY <2>1, <1>3, <1>7, <1>8 DEF IInv, Answers, Settles
    <3> QED BY <3>1, <1>1, <1>4 DEF LineFits
  <2> QED BY <2>1, <1>1 DEF Answers
<1>19. Reviewed'
  <2>1. CASE server = "exited"
    BY <2>1, <1>1, <1>4 DEF IInv, ServerFits, Reviewed
  <2>2. CASE server # "exited"
    <3>1. ~Applied
      BY <2>2, <1>2, <1>7 DEF Applied
    <3> QED BY <3>1, <1>1, <1>4 DEF IInv, Reviewed, Alike, ActionOn
  <2> QED BY <2>1, <2>2
<1>20. AnswersAreAccepted' /\ FailureIsTold'
  <2>1. AnswersAreAccepted'
    BY <1>4 DEF AnswersAreAccepted
  <2>2. FailureIsTold'
    BY <1>1, <1>4 DEF IInv, FailureIsTold
  <2> QED BY <2>1, <2>2
<1> QED BY <1>11, <1>12, <1>13, <1>14, <1>15, <1>16, <1>17, <1>18, <1>19, <1>20 DEF IInv

LEMMA CancelKeeps ==
  ASSUME IInv, AskCancel
  PROVE  IInv'
<1> DEFINE n == client.next
           p0 == [requestId |-> shell.id]
           q == [id |-> n, method |-> "cancel", params |-> p0]
           k == [id |-> n, kind |-> "request"]
<1>1. /\ requests' = Append(requests, q) /\ client' = [client EXCEPT !.next = n + 1, !.pending = client.pending \cup {k}]
      /\ UNCHANGED <<disk, installed, others, server, job, tree, lines>>
      /\ client.up /\ shell.id # 0 /\ shell.cancel = 0 /\ shell' = [shell EXCEPT !.cancel = n]
  BY DEF AskCancel, Submit, world
<1>3. ShellShape(shell) /\ Lined(requests) /\ Lined(lines)
      /\ client = [up |-> client.up, next |-> client.next, pending |-> client.pending]
      /\ n \in Nat \ {0} /\ shell.id \in Nat
  BY DEF IInv, Shaped
<1>4. /\ ShellShape(shell') /\ shell'.app = shell.app /\ shell'.path = shell.path /\ shell'.key = shell.key
      /\ shell'.asks = shell.asks /\ shell'.at = shell.at /\ shell'.id = shell.id /\ shell'.cancel = n
      /\ shell'.last = shell.last /\ shell'.bound = shell.bound /\ shell'.plan = shell.plan
      /\ shell'.told = shell.told /\ shell'.refused = shell.refused /\ shell'.agreed = shell.agreed
  <2>1. PICK s : s = shell'
    OBVIOUS
  <2>2. s = [shell EXCEPT !.cancel = n]
    BY <1>1, <2>1
  <2>3. /\ ShellShape(s) /\ s.app = shell.app /\ s.path = shell.path /\ s.key = shell.key
        /\ s.asks = shell.asks /\ s.at = shell.at /\ s.id = shell.id /\ s.cancel = n
        /\ s.last = shell.last /\ s.bound = shell.bound /\ s.plan = shell.plan
        /\ s.told = shell.told /\ s.refused = shell.refused /\ s.agreed = shell.agreed
    BY <1>3, <2>2, CancelShape
  <2> QED BY <2>1, <2>3
<1>5. /\ client'.up = client.up /\ client'.next = n + 1 /\ client'.pending = client.pending \cup {k}
      /\ client' = [up |-> client'.up, next |-> client'.next, pending |-> client'.pending]
  BY <1>1, <1>3
<1>6. /\ Lined(requests')
      /\ \A i \in DOMAIN requests' :
           \/ i \in DOMAIN requests /\ requests'[i] = requests[i]
           \/ i = Len(requests) + 1 /\ requests'[i] = q /\ i \notin DOMAIN requests
  BY <1>1, <1>3, Appended
<1>7. /\ \A i \in DOMAIN requests : requests[i].id = shell.id /\ requests[i].method # "cancel"
      /\ server # "exited" => \A i \in DOMAIN lines : lines[i].id = shell.id
      /\ shell.id < n
  BY <1>1 DEF IInv, Flow, Ordering
<1>8. q.id = n /\ q.method = "cancel" /\ q.params = p0 /\ k.id = n /\ k.kind = "request" /\ DOMAIN p0 = {"requestId"}
  OBVIOUS
<1>9. job' = NoJob \/ JobShape(job')
  BY <1>1 DEF IInv, Shaped
<1>10. KindOf(shell.last)' = KindOf(shell.last)
  BY <1>4 DEF KindOf, Mutations
<1>11. Shaped'
  <2>1. /\ (disk = NoProject => shell.app = "studio")'
        /\ (disk # NoProject => disk \in Manifests /\ ValidManifest(disk))'
        /\ (shell.app = "setup" => ValidBundle(disk))' /\ (installed \in Holdings /\ others \in Nat)'
    BY <1>1, <1>4 DEF IInv, Shaped
  <2>2. shell'.app \in {"setup", "studio"} /\ shell'.path \in Nat \ {0} /\ shell'.asks \in Nat
    BY <1>4 DEF IInv, Shaped
  <2>3. Lined(lines') /\ client'.up \in BOOLEAN
    BY <1>1, <1>3, <1>5 DEF IInv, Shaped
  <2> HIDE DEF n, k
  <2>4. shell'.id \in Nat /\ shell'.cancel \in Nat /\ client'.next \in Nat \ {0}
    BY <1>3, <1>4, <1>5
  <2> QED BY <2>1, <2>2, <2>3, <2>4, <1>4, <1>5, <1>6, <1>9 DEF Shaped
<1>12. ServerFits'
  BY <1>1, <1>4, <1>5 DEF IInv, ServerFits
<1>13. Flow'
  <2>1. shell'.id < client'.next /\ shell'.cancel < client'.next /\ shell'.id # shell'.cancel
    BY <1>3, <1>4, <1>5, <1>7
  <2>2. ASSUME NEW i \in DOMAIN requests'
        PROVE  /\ requests'[i].id \in {shell'.id, shell'.cancel} \ {0}
               /\ requests'[i].method = "cancel" <=> requests'[i].id = shell'.cancel
               /\ requests'[i].id = shell'.id => requests'[i].method = shell'.last
    <3>1. \A a \in DOMAIN requests : requests[a].id = shell.id => requests[a].method = shell.last
      BY <1>1 DEF IInv, Flow
    <3> QED BY <3>1, <1>1, <1>3, <1>4, <1>6, <1>7, <1>8
  <2>3. ASSUME NEW i \in DOMAIN requests', NEW j \in DOMAIN requests', requests'[i].id = requests'[j].id
        PROVE  i = j
    <3>1. \A a, b \in DOMAIN requests : requests[a].id = requests[b].id => a = b
      BY <1>1 DEF IInv, Flow
    <3>2. \A a \in DOMAIN requests : requests[a].id # q.id
      BY <1>3, <1>7, <1>8
    <3> HIDE DEF q
    <3> QED BY <2>3, <3>1, <3>2, <1>6
  <2>4. \A p \in client'.pending : p.id \in 1 .. client'.next - 1 /\ (p.id = shell'.id => p.kind = KindOf(shell.last))
    <3>1. \A p \in client.pending : p.id \in 1 .. n - 1 /\ (p.id = shell.id => p.kind = KindOf(shell.last))
      BY <1>1 DEF IInv, Flow
    <3> QED BY <3>1, <1>3, <1>4, <1>5, <1>7, <1>8
  <2>5. \A id \in {shell'.id, shell'.cancel} \ {0} : \E p \in client'.pending : p.id = id
    <3>1. \A id \in {shell.id, shell.cancel} \ {0} : \E p \in client.pending : p.id = id
      BY <1>1 DEF IInv, Flow
    <3>2. ASSUME NEW id \in {shell'.id, shell'.cancel} \ {0} PROVE \E p \in client'.pending : p.id = id
      <4>1. CASE id = n
        <5>1. k \in client'.pending /\ k.id = id
          BY <4>1, <1>5, <1>8
        <5> HIDE DEF k
        <5> QED BY <5>1
      <4>2. CASE id # n
        <5>1. id \in {shell.id, shell.cancel} \ {0}
          BY <3>2, <4>2, <1>4
        <5>2. PICK p \in client.pending : p.id = id
          BY <3>1, <5>1
        <5>3. p \in client'.pending
          BY <1>5
        <5> QED BY <5>2, <5>3
      <4> QED BY <4>1, <4>2
    <3> QED BY <3>2
  <2>6. job' # NoJob => job'.id = shell'.id /\ job'.id # 0 /\ job'.method = shell'.last
                        /\ \A i \in DOMAIN requests' : requests'[i].id # job'.id
    <3>1. job # NoJob => job.id = shell.id /\ job.id # 0 /\ job.method = shell.last
                         /\ \A i \in DOMAIN requests : requests[i].id # job.id
      BY <1>1 DEF IInv, Flow
    <3> QED BY <3>1, <1>1, <1>3, <1>4, <1>6, <1>7, <1>8
  <2> QED BY <2>1, <2>2, <2>3, <2>4, <2>5, <2>6, <1>10 DEF Flow
<1>14. Ordering'
  <2>1. SUFFICES ASSUME server # "exited" PROVE Ordering'
    BY <1>1 DEF Ordering
  <2>2. /\ \A i \in DOMAIN lines : /\ lines[i].id \in {shell.id, shell.cancel} \ {0}
                                   /\ ~Settles(lines[i]) => lines[i].id = shell.id
        /\ \A i, j \in DOMAIN lines : Settles(lines[i]) /\ lines[i].id = lines[j].id => j <= i
        /\ \A i \in DOMAIN lines, j \in DOMAIN requests : Settles(lines[i]) => lines[i].id # requests[j].id
        /\ job # NoJob => \A i \in DOMAIN lines : Settles(lines[i]) => lines[i].id # job.id
    BY <2>1 DEF IInv, Ordering
  <2>3. \A i \in DOMAIN lines, j \in DOMAIN requests' : Settles(lines[i]) => lines[i].id # requests'[j].id
    BY <2>1, <2>2, <1>3, <1>6, <1>7, <1>8
  <2>4. \A i \in DOMAIN lines : lines[i].id \in {shell'.id, shell'.cancel} \ {0}
    BY <2>2, <1>1, <1>4
  <2> QED BY <2>1, <2>2, <2>3, <2>4, <1>1, <1>4 DEF Ordering, Settles
<1>15. Asks'
  <2>1. ASSUME NEW i \in DOMAIN requests'
        PROVE  /\ requests'[i].method \in SetupAsks \cup ProjectAsks \cup {"cancel"}
               /\ ParamsFit(requests[i].method, requests[i].params)'
    <3>1. CASE i \in DOMAIN requests /\ requests'[i] = requests[i]
      <4>1. PICK r : r = requests[i]
        OBVIOUS
      <4>2. r.method \in SetupAsks \cup ProjectAsks \cup {"cancel"} /\ ParamsFit(r.method, r.params)
        BY <3>1, <4>1 DEF IInv, Asks
      <4>3. ParamsFit(r.method, r.params)'
        BY <4>2, <1>4, ParamsFrame
      <4> QED BY <3>1, <4>1, <4>2, <4>3
    <3>2. CASE requests'[i] = q
      <4>1. requests'[i].method = "cancel" /\ requests'[i].params = p0
        BY <3>2, <1>8
      <4>2. "cancel" \notin DOMAIN AskWith'
        BY DEF AskWith
      <4> QED BY <4>1, <4>2, <1>8 DEF ParamsFit
    <3> QED BY <3>1, <3>2, <1>6
  <2> QED BY <2>1 DEF Asks
<1>16. JobFits'
  BY <1>1, <1>4 DEF IInv, JobFits
<1>17. AtFits'
  BY <1>1, <1>4 DEF IInv, AtFits
<1>18. Answers'
  <2>1. ASSUME server # "exited", NEW i \in DOMAIN lines PROVE LineFits(lines[i])'
    <3>1. LineFits(lines[i])
      BY <2>1 DEF IInv, Answers
    <3> QED BY <3>1, <1>1, <1>4, <1>10 DEF LineFits, ErrorFits, ResultFits, Reading, Alike, ActionOn
  <2> QED BY <2>1, <1>1 DEF Answers
<1>19. Reviewed'
  BY <1>1, <1>4 DEF IInv, Reviewed, Alike, ActionOn, Applied
<1>20. Doing'
  BY <1>1 DEF IInv, Doing, ActionOn
<1>21. AnswersAreAccepted' /\ FailureIsTold'
  <2>1. AnswersAreAccepted'
    BY <1>1, <1>4 DEF IInv, AnswersAreAccepted, Disagreement
  <2>2. FailureIsTold'
    BY <1>1, <1>4 DEF IInv, FailureIsTold
  <2> QED BY <2>1, <2>2
<1> QED BY <1>11, <1>12, <1>13, <1>14, <1>15, <1>16, <1>17, <1>18, <1>19, <1>20, <1>21 DEF IInv

LEMMA TooMuchKeeps ==
  ASSUME IInv, AskTooMuch
  PROVE  IInv'
<1>1. /\ shell' = [shell EXCEPT !.shown = Public("invalid_request"), !.refused = {}]
      /\ UNCHANGED <<disk, installed, others, client, requests, server, job, tree, lines>>
  BY DEF AskTooMuch, world
<1>3. ShellShape(shell)
  BY DEF IInv, Shaped
<1>4. /\ ShellShape(shell') /\ shell'.app = shell.app /\ shell'.path = shell.path /\ shell'.key = shell.key
      /\ shell'.asks = shell.asks /\ shell'.at = shell.at /\ shell'.id = shell.id /\ shell'.cancel = shell.cancel
      /\ shell'.last = shell.last /\ shell'.bound = shell.bound /\ shell'.plan = shell.plan
      /\ shell'.told = shell.told /\ shell'.refused = {} /\ shell'.agreed = shell.agreed
  <2>1. PICK s, x : s = shell' /\ x = Public("invalid_request")
    OBVIOUS
  <2>2. s = [shell EXCEPT !.shown = x, !.refused = {}]
    BY <1>1, <2>1
  <2>3. /\ ShellShape(s) /\ s.app = shell.app /\ s.path = shell.path /\ s.key = shell.key
        /\ s.asks = shell.asks /\ s.at = shell.at /\ s.id = shell.id /\ s.cancel = shell.cancel
        /\ s.last = shell.last /\ s.bound = shell.bound /\ s.plan = shell.plan
        /\ s.told = shell.told /\ s.refused = {} /\ s.agreed = shell.agreed
    BY <1>3, <2>2, ShownShape
  <2> QED BY <2>1, <2>3
<1>10. KindOf(shell.last)' = KindOf(shell.last)
  BY <1>4 DEF KindOf, Mutations
<1>11. Shaped' /\ ServerFits'
  BY <1>1, <1>4 DEF IInv, Shaped, ServerFits, JobShape
<1>13. Flow' /\ Ordering'
  BY <1>1, <1>4, <1>10 DEF IInv, Flow, Ordering, Settles
<1>15. Asks'
  <2>1. ASSUME NEW i \in DOMAIN requests'
        PROVE  /\ requests'[i].method \in SetupAsks \cup ProjectAsks \cup {"cancel"}
               /\ ParamsFit(requests[i].method, requests[i].params)'
      <4>1. PICK r : r = requests[i]
        OBVIOUS
      <4>2. r.method \in SetupAsks \cup ProjectAsks \cup {"cancel"} /\ ParamsFit(r.method, r.params)
        BY <1>1, <4>1 DEF IInv, Asks
      <4>3. ParamsFit(r.method, r.params)'
        BY <4>2, <1>4, ParamsFrame
      <4> QED BY <1>1, <4>1, <4>2, <4>3
  <2> QED BY <2>1 DEF Asks
<1>16. JobFits' /\ AtFits'
  BY <1>1, <1>4 DEF IInv, JobFits, AtFits
<1>18. Answers'
  <2>1. ASSUME server # "exited", NEW i \in DOMAIN lines PROVE LineFits(lines[i])'
    <3>1. LineFits(lines[i])
      BY <2>1 DEF IInv, Answers
    <3> QED BY <3>1, <1>1, <1>4, <1>10 DEF LineFits, ErrorFits, ResultFits, Reading, Alike, ActionOn
  <2> QED BY <2>1, <1>1 DEF Answers
<1>19. Reviewed'
  BY <1>1, <1>4 DEF IInv, Reviewed, Alike, ActionOn, Applied
<1>20. Doing'
  BY <1>1 DEF IInv, Doing, ActionOn
<1>21. AnswersAreAccepted' /\ FailureIsTold'
  BY <1>1, <1>4 DEF IInv, AnswersAreAccepted, FailureIsTold
<1> QED BY <1>11, <1>13, <1>15, <1>16, <1>18, <1>19, <1>20, <1>21 DEF IInv

-----------------------------------------------------------------------------
(* The worker writes.                                                       *)

LEMMA WorkerRuns ==
  ASSUME IInv, job # NoJob
  PROVE  /\ server = "up" /\ client.up /\ JobShape(job)
         /\ job.id = shell.id /\ job.id # 0 /\ job.id \in Nat /\ job.method = shell.last
         /\ \A i \in DOMAIN requests : requests[i].id # job.id
         /\ \A i \in DOMAIN lines : Settles(lines[i]) => lines[i].id # job.id
         /\ Lined(lines) /\ Lined(requests) /\ ShellShape(shell)
<1>1. server = "up" /\ client.up
  BY DEF IInv, ServerFits
<1>2. JobShape(job) /\ Lined(lines) /\ Lined(requests) /\ ShellShape(shell) /\ shell.id \in Nat
  BY DEF IInv, Shaped
<1>3. /\ job.id = shell.id /\ job.id # 0 /\ job.method = shell.last
      /\ \A i \in DOMAIN requests : requests[i].id # job.id
  BY <1>1 DEF IInv, Flow
<1>4. \A i \in DOMAIN lines : Settles(lines[i]) => lines[i].id # job.id
  BY <1>1 DEF IInv, Ordering
<1> QED BY <1>1, <1>2, <1>3, <1>4

(* What is in flight of other requests does not depend on the worker.       *)
LEMMA OldLines ==
  ASSUME IInv, server # "exited", UNCHANGED shell,
         \A i \in DOMAIN lines : Settles(lines[i]) => lines[i].id # shell.id,
         NEW i \in DOMAIN lines, NEW l, l = lines[i]
  PROVE  LineFits(l)'
<1>1. LineFits(l) /\ (l.type = "event" \/ l.id # shell.id)
  BY DEF IInv, Answers, Settles
<1>2. KindOf(shell'.last) = KindOf(shell.last) /\ shell'.id = shell.id
  BY DEF KindOf, Mutations
<1>3. l.type # "event" => l.id # shell'.id
  BY <1>1, <1>2
<1>4. /\ l.type \in {"event", "error", "result"}
      /\ l.type = "event" => ParsesEvent(KindOf(shell'.last), l)
      /\ l.type = "error" => l.message = Bounded(SystemText)
  BY <1>1, <1>2 DEF LineFits
<1>5. l.type = "error" /\ l.id = shell'.id => ErrorFits(l.code)'
  BY <1>3
<1>6. l.type = "result" /\ l.id = shell'.id => ResultFits(l.result)'
  BY <1>3
<1> HIDE DEF IInv
<1> QED BY <1>4, <1>5, <1>6 DEF LineFits

LEMMA LineFrame ==
  ASSUME NEW l, LineFits(l), UNCHANGED <<disk, installed, others, shell, tree>>
  PROVE  LineFits(l)'
<1>1. KindOf(shell.last)' = KindOf(shell.last)
  BY DEF KindOf, Mutations
<1> QED BY <1>1 DEF LineFits, ErrorFits, ResultFits, Reading, Alike, ActionOn

LEMMA LinesGrow ==
  ASSUME IInv, server # "exited", server' = server, UNCHANGED shell,
         NEW more, Lined(more), Write(more), NEW id \in {shell.id, shell.cancel} \ {0},
         \A k \in DOMAIN more : more[k].id = id,
         \A i \in DOMAIN lines : Settles(lines[i]) => lines[i].id # id,
         \A k \in DOMAIN more : Settles(more[k]) => k = Len(more),
         \A k \in DOMAIN more : ~Settles(more[k]) => id = shell.id,
         \A j \in DOMAIN requests' : \E i \in DOMAIN requests : requests'[j] = requests[i],
         \A k \in DOMAIN more : Settles(more[k]) =>
           (\A j \in DOMAIN requests' : requests'[j].id # id) /\ (job' # NoJob => job'.id # id),
         job' # NoJob => \A i \in DOMAIN lines : Settles(lines[i]) => lines[i].id # job'.id
  PROVE  Ordering'
<1>0. Lined(lines)
  BY DEF IInv, Shaped
<1>1. /\ Lined(lines') /\ Len(lines') = Len(lines) + Len(more) /\ Len(lines) \in Nat /\ Len(more) \in Nat
      /\ \A i \in DOMAIN lines' :
           \/ i \in DOMAIN lines /\ i <= Len(lines) /\ lines'[i] = lines[i]
           \/ i > Len(lines) /\ i - Len(lines) \in DOMAIN more /\ lines'[i] = more[i - Len(lines)]
  BY <1>0, Written
<1>2. DOMAIN lines' = 1 .. Len(lines') /\ DOMAIN lines = 1 .. Len(lines) /\ DOMAIN more = 1 .. Len(more)
  BY <1>0, <1>1, LinedLen
<1>3. /\ \A i \in DOMAIN lines : /\ lines[i].id \in {shell.id, shell.cancel} \ {0}
                                 /\ ~Settles(lines[i]) => lines[i].id = shell.id
      /\ \A i, j \in DOMAIN lines : Settles(lines[i]) /\ lines[i].id = lines[j].id => j <= i
      /\ \A i \in DOMAIN lines, j \in DOMAIN requests : Settles(lines[i]) => lines[i].id # requests[j].id
  BY DEF IInv, Ordering
<1>4. \A x : Settles(x)' <=> Settles(x)
  BY DEF Settles
<1>5. ASSUME NEW i \in DOMAIN lines'
      PROVE  /\ lines'[i].id \in {shell'.id, shell'.cancel} \ {0}
             /\ ~Settles(lines'[i]) => lines'[i].id = shell'.id
  BY <1>1, <1>3
<1>6. ASSUME NEW i \in DOMAIN lines', NEW j \in DOMAIN lines', Settles(lines'[i]), lines'[i].id = lines'[j].id
      PROVE  j <= i
  <2>1. i \in Int /\ j \in Int /\ j <= Len(lines) + Len(more)
    BY <1>1, <1>2
  <2>2. CASE i \in DOMAIN lines /\ lines'[i] = lines[i]
    <3>1. CASE j \in DOMAIN lines /\ lines'[j] = lines[j]
      BY <1>3, <1>6, <2>2, <3>1
    <3>2. CASE j - Len(lines) \in DOMAIN more /\ lines'[j] = more[j - Len(lines)]
      BY <1>6, <2>2, <3>2
    <3> QED BY <1>1, <3>1, <3>2
  <2>3. CASE i > Len(lines) /\ i - Len(lines) \in DOMAIN more /\ lines'[i] = more[i - Len(lines)]
    <3>1. i - Len(lines) = Len(more)
      BY <1>6, <2>3
    <3> QED BY <1>1, <2>1, <3>1
  <2> QED BY <1>1, <2>2, <2>3
<1>7. ASSUME NEW i \in DOMAIN lines', NEW j \in DOMAIN requests', Settles(lines'[i])
      PROVE  lines'[i].id # requests'[j].id
  <2>1. CASE i \in DOMAIN lines /\ lines'[i] = lines[i]
    <3>1. PICK k \in DOMAIN requests : requests'[j] = requests[k]
      OBVIOUS
    <3> QED BY <1>3, <1>7, <2>1, <3>1
  <2>2. CASE i - Len(lines) \in DOMAIN more /\ lines'[i] = more[i - Len(lines)]
    BY <1>7, <2>2
  <2> QED BY <1>1, <2>1, <2>2
<1>8. ASSUME job' # NoJob, NEW i \in DOMAIN lines', Settles(lines'[i]) PROVE lines'[i].id # job'.id
  <2>1. CASE i \in DOMAIN lines /\ lines'[i] = lines[i]
    BY <1>8, <2>1
  <2>2. CASE i - Len(lines) \in DOMAIN more /\ lines'[i] = more[i - Len(lines)]
    BY <1>8, <2>2
  <2> QED BY <1>1, <2>1, <2>2
<1>9. /\ \A i \in DOMAIN lines' : /\ lines'[i].id \in {shell'.id, shell'.cancel} \ {0}
                                  /\ ~Settles(lines'[i]) => lines'[i].id = shell'.id
      /\ \A i, j \in DOMAIN lines' : Settles(lines'[i]) /\ lines'[i].id = lines'[j].id => j <= i
      /\ \A i \in DOMAIN lines', j \in DOMAIN requests' : Settles(lines'[i]) => lines'[i].id # requests'[j].id
      /\ job' # NoJob => \A i \in DOMAIN lines' : Settles(lines'[i]) => lines'[i].id # job'.id
  BY <1>5, <1>6, <1>7, <1>8
<1> QED BY <1>9 DEF Ordering, Settles

(* A step of the worker that writes lines of its request, of which only     *)
(* the last may settle it, and then it is done.                             *)
LEMMA WorkerFrame ==
  ASSUME IInv, job # NoJob, UNCHANGED <<shell, client, requests, server, others>>,
         NEW more, Lined(more), Write(more),
         \A k \in DOMAIN more : more[k].id = job.id /\ LineFits(more[k])',
         \A k \in DOMAIN more : Settles(more[k]) => k = Len(more) /\ job' = NoJob,
         job' # NoJob => job'.id = job.id /\ job'.method = job.method
  PROVE  /\ ServerFits' /\ Flow' /\ Ordering' /\ Asks' /\ Answers' /\ AnswersAreAccepted'
         /\ Lined(lines') /\ (Applied => Applied')
         /\ \A k \in DOMAIN more : \E i \in DOMAIN lines' : lines'[i] = more[k]
<1>1. /\ server = "up" /\ client.up /\ JobShape(job)
      /\ job.id = shell.id /\ job.id # 0 /\ job.id \in Nat /\ job.method = shell.last
      /\ \A i \in DOMAIN requests : requests[i].id # job.id
      /\ \A i \in DOMAIN lines : Settles(lines[i]) => lines[i].id # job.id
      /\ Lined(lines) /\ Lined(requests) /\ ShellShape(shell)
  BY WorkerRuns
<1>2. /\ Lined(lines') /\ Len(lines') = Len(lines) + Len(more) /\ Len(lines) \in Nat /\ Len(more) \in Nat
      /\ \A i \in 1 .. Len(lines) : i \in DOMAIN lines /\ i \in DOMAIN lines' /\ lines'[i] = lines[i]
      /\ \A i \in DOMAIN lines' :
           \/ i \in DOMAIN lines /\ i <= Len(lines) /\ lines'[i] = lines[i]
           \/ i > Len(lines) /\ i - Len(lines) \in DOMAIN more /\ lines'[i] = more[i - Len(lines)]
  BY <1>1, Written
<1>3. ServerFits'
  BY <1>1 DEF IInv, ServerFits
<1>4. Flow'
  BY <1>1 DEF IInv, Flow, KindOf, Mutations
<1>5. Ordering'
  <2> DEFINE id == job.id
  <2>1. id \in {shell.id, shell.cancel} \ {0} /\ server # "exited" /\ server' = server
    BY <1>1
  <2>2. \A k \in DOMAIN more : Settles(more[k]) =>
           (\A j \in DOMAIN requests' : requests'[j].id # id) /\ (job' # NoJob => job'.id # id)
    BY <1>1
  <2>3. \A j \in DOMAIN requests' : \E i \in DOMAIN requests : requests'[j] = requests[i]
    OBVIOUS
  <2>4. job' # NoJob => \A i \in DOMAIN lines : Settles(lines[i]) => lines[i].id # job'.id
    BY <1>1
  <2>5. /\ \A k \in DOMAIN more : more[k].id = id
        /\ \A i \in DOMAIN lines : Settles(lines[i]) => lines[i].id # id
        /\ \A k \in DOMAIN more : Settles(more[k]) => k = Len(more)
        /\ \A k \in DOMAIN more : ~Settles(more[k]) => id = shell.id
    BY <1>1
  <2> HIDE DEF id
  <2> QED BY <2>1, <2>2, <2>3, <2>4, <2>5, LinesGrow
<1>6. Asks'
  <2>1. ASSUME NEW i \in DOMAIN requests'
        PROVE  /\ requests'[i].method \in SetupAsks \cup ProjectAsks \cup {"cancel"}
               /\ ParamsFit(requests[i].method, requests[i].params)'
    <3>1. PICK r : r = requests[i]
      OBVIOUS
    <3>2. r.method \in SetupAsks \cup ProjectAsks \cup {"cancel"} /\ ParamsFit(r.method, r.params)
      BY <3>1 DEF IInv, Asks
    <3>3. ParamsFit(r.method, r.params)'
      BY <3>2, ParamsFrame
    <3> QED BY <3>1, <3>2, <3>3
  <2> QED BY <2>1 DEF Asks
<1>7. Answers'
  <2>1. ASSUME NEW i \in DOMAIN lines' PROVE LineFits(lines[i])'
    <3>1. CASE i \in DOMAIN lines /\ lines'[i] = lines[i]
      <4>1. PICK l : l = lines[i]
        OBVIOUS
      <4>2. server # "exited" /\ \A j \in DOMAIN lines : Settles(lines[j]) => lines[j].id # shell.id
        BY <1>1
      <4>4. LineFits(l)'
        BY <3>1, <4>1, <4>2, OldLines
      <4> QED BY <3>1, <4>1, <4>4
    <3>2. CASE i - Len(lines) \in DOMAIN more /\ lines'[i] = more[i - Len(lines)]
      BY <3>2
    <3> QED BY <1>2, <3>1, <3>2
  <2> QED BY <2>1 DEF Answers
<1>8. AnswersAreAccepted'
  BY DEF IInv, AnswersAreAccepted, Disagreement
<1>9. Applied => Applied'
  <2>1. DOMAIN lines = 1 .. Len(lines)
    BY <1>1, LinedLen
  <2> QED BY <1>2, <2>1 DEF Applied
<1>10. \A k \in DOMAIN more : \E i \in DOMAIN lines' : lines'[i] = more[k]
  <2>1. ASSUME NEW k \in DOMAIN more PROVE Len(lines) + k \in DOMAIN lines' /\ lines'[Len(lines) + k] = more[k]
    <3>1. DOMAIN more = 1 .. Len(more) /\ DOMAIN lines' = 1 .. Len(lines')
      BY <1>2, LinedLen
    <3> QED BY <1>2, <3>1
  <2> QED BY <2>1
<1> QED BY <1>2, <1>3, <1>4, <1>5, <1>6, <1>7, <1>8, <1>9, <1>10

(* The worker is done: an error, a result, or what an operation ends with.  *)
LEMMA WorkerEnds ==
  ASSUME IInv, job # NoJob, UNCHANGED <<shell, client, requests, server, others>>, job' = NoJob,
         NEW more, Lined(more), Write(more),
         \A k \in DOMAIN more : more[k].id = job.id /\ LineFits(more[k])',
         \A k \in DOMAIN more : Settles(more[k]) => k = Len(more),
         disk' = disk \/ (shell.app = "studio" /\ disk' \in Manifests /\ ValidManifest(disk')),
         installed' \in Holdings,
         installed' = installed \/ (\E k \in DOMAIN more : more[k].type = "result" /\ shell.last \in Mutations),
         tree' = tree \/ job.method \in Mutations
  PROVE  IInv'
<1>1. /\ server = "up" /\ client.up /\ JobShape(job)
      /\ job.id = shell.id /\ job.id # 0 /\ job.id \in Nat /\ job.method = shell.last
      /\ Lined(lines) /\ Lined(requests) /\ ShellShape(shell)
  BY WorkerRuns
<1>2. /\ ServerFits' /\ Flow' /\ Ordering' /\ Asks' /\ Answers' /\ AnswersAreAccepted'
      /\ Lined(lines') /\ (Applied => Applied')
      /\ \A k \in DOMAIN more : \E i \in DOMAIN lines' : lines'[i] = more[k]
  BY WorkerFrame
<1>3. disk' \in Manifests => disk' # NoProject
  BY NotAProject
<1>4. Shaped'
  <2>1. /\ disk' = NoProject => shell'.app = "studio"
        /\ disk' # NoProject => disk' \in Manifests /\ ValidManifest(disk')
        /\ shell'.app = "setup" => ValidBundle(disk')
    BY <1>3 DEF IInv, Shaped
  <2> QED BY <2>1, <1>1, <1>2 DEF IInv, Shaped
<1>5. JobFits' /\ Doing'
  BY DEF JobFits, Doing
<1>6. AtFits'
  <2>1. tree' # "before" => shell.path <= MaxPath
    BY DEF IInv, AtFits, JobFits
  <2>2. shell.at = "open" => disk' # NoProject
    BY <1>3 DEF IInv, AtFits
  <2> QED BY <2>1, <2>2 DEF IInv, AtFits
<1>7. Reviewed'
  <2>1. CASE installed' = installed
    <3>1. shell.app = "setup" => disk' = disk
      OBVIOUS
    <3> QED BY <2>1, <3>1, <1>2 DEF IInv, Reviewed, Alike, ActionOn
  <2>2. CASE \E k \in DOMAIN more : more[k].type = "result" /\ shell.last \in Mutations
    <3>1. Applied'
      BY <1>1, <1>2, <2>2 DEF Applied, Mutations
    <3> QED BY <3>1 DEF IInv, Reviewed, Alike
  <2> QED BY <2>1, <2>2
<1>8. FailureIsTold'
  <2>1. CASE tree' = tree
    BY <2>1 DEF IInv, FailureIsTold
  <2>2. CASE job.method \in Mutations
    <3>1. shell.told = None
      BY <1>1, <2>2 DEF IInv, AtFits
    <3> QED BY <3>1 DEF FailureIsTold
  <2> QED BY <2>1, <2>2
<1> QED BY <1>2, <1>4, <1>5, <1>6, <1>7, <1>8 DEF IInv

(* It goes on: events, and the world stays as it is.                        *)
LEMMA WorkerGoes ==
  ASSUME IInv, job # NoJob, UNCHANGED <<shell, client, requests, server, others, disk, installed, tree>>,
         JobShape(job'), job'.id = job.id, job'.method = job.method, job'.args = job.args,
         NEW more, Lined(more), Write(more),
         \A k \in DOMAIN more : more[k].id = job.id /\ more[k].type = "event" /\ ParsesEvent(job.method, more[k]),
         job.method \in Mutations, Doing'
  PROVE  IInv'
<1>1. /\ server = "up" /\ client.up /\ JobShape(job)
      /\ job.id = shell.id /\ job.id # 0 /\ job.id \in Nat /\ job.method = shell.last
      /\ Lined(lines) /\ Lined(requests) /\ ShellShape(shell)
  BY WorkerRuns
<1>2. KindOf(shell'.last) = job.method
  BY <1>1 DEF KindOf
<1>3. \A k \in DOMAIN more : more[k].id = job.id /\ LineFits(more[k])' /\ ~Settles(more[k])
  BY <1>2 DEF LineFits, Settles
<1>4. /\ ServerFits' /\ Flow' /\ Ordering' /\ Asks' /\ Answers' /\ AnswersAreAccepted'
      /\ Lined(lines') /\ (Applied => Applied')
  BY <1>3, WorkerFrame
<1>5. Shaped'
  BY <1>1, <1>4 DEF IInv, Shaped
<1>6. JobFits'
  BY DEF IInv, JobFits
<1>7. AtFits' /\ FailureIsTold'
  BY DEF IInv, AtFits, FailureIsTold
<1>8. Reviewed'
  BY <1>4 DEF IInv, Reviewed, Alike, ActionOn
<1> QED BY <1>4, <1>5, <1>6, <1>7, <1>8 DEF IInv

(* An error, after events that the client takes.                            *)
LEMMA WorkerFails ==
  ASSUME IInv, job # NoJob, UNCHANGED <<shell, client, requests, server, others, installed>>, job' = NoJob,
         NEW before, Lined(before), NEW code, Write(before \o <<ErrorLine(job.id, code)>>),
         \A k \in DOMAIN before :
           before[k].id = job.id /\ before[k].type = "event" /\ ParsesEvent(KindOf(shell.last), before[k]),
         disk' = disk \/ (shell.app = "studio" /\ disk' \in Manifests /\ ValidManifest(disk')),
         tree' = tree \/ job.method \in Mutations,
         ErrorFits(code)'
  PROVE  IInv'
<1>0. PICK e, more : e = ErrorLine(job.id, code) /\ more = before \o <<e>>
  OBVIOUS
<1>1. e.type = "error" /\ e.id = job.id /\ e.code = code /\ e.message = Bounded(SystemText)
  BY <1>0 DEF ErrorLine
<1>2. /\ Lined(more) /\ Len(more) = Len(before) + 1 /\ Len(before) \in Nat
      /\ \A k \in DOMAIN more :
           \/ k \in DOMAIN before /\ more[k] = before[k]
           \/ k = Len(more) /\ more[k] = e
  <2>1. Lined(<<e>>) /\ Len(<<e>>) = 1 /\ <<e>>[1] = e
    BY LinedOne
  <2>2. DOMAIN before = 1 .. Len(before) /\ Len(before) \in Nat
    BY LinedLen
  <2>3. /\ Lined(more) /\ Len(more) = Len(before) + 1
        /\ \A i \in 1 .. Len(before) + 1 : more[i] = IF i <= Len(before) THEN before[i] ELSE <<e>>[i - Len(before)]
    BY <1>0, <2>1, LinedConcat
  <2>4. DOMAIN more = 1 .. Len(more)
    BY <2>3, LinedLen
  <2>5. ASSUME NEW k \in DOMAIN more
        PROVE  \/ k \in DOMAIN before /\ more[k] = before[k]
               \/ k = Len(more) /\ more[k] = e
    <3>1. k \in 1 .. Len(before) + 1
      BY <2>3, <2>4
    <3>2. CASE k <= Len(before)
      BY <2>2, <2>3, <3>1, <3>2
    <3>3. CASE k = Len(before) + 1
      <4>1. more[k] = <<e>>[1]
        BY <2>2, <2>3, <3>3
      <4> QED BY <2>1, <2>3, <3>3, <4>1
    <3> QED BY <2>2, <3>1, <3>2, <3>3
  <2> QED BY <2>2, <2>3, <2>5
<1>3. LineFits(e)'
  <2>1. e.type = "error" /\ e.id = job.id /\ e.code = code /\ e.message = Bounded(SystemText)
    BY <1>1
  <2>2. ErrorFits(e.code)'
    BY <2>1
  <2> QED BY <2>1, <2>2 DEF LineFits
<1>4. KindOf(shell'.last) = KindOf(shell.last)
  BY DEF KindOf, Mutations
<1>5. ASSUME NEW k \in DOMAIN before PROVE LineFits(before[k])'
  BY <1>4 DEF LineFits
<1>6. Write(more) /\ installed' \in Holdings
  BY <1>0 DEF IInv, Shaped
<1>7. \A k \in DOMAIN more : more[k].id = job.id /\ LineFits(more[k])'
  BY <1>1, <1>2, <1>3, <1>5
<1>8. \A k \in DOMAIN more : Settles(more[k]) => k = Len(more)
  BY <1>2 DEF Settles
<1> QED BY <1>2, <1>6, <1>7, <1>8, WorkerEnds

(* A result, after a phase or at once.                                      *)
LEMMA WorkerAnswers ==
  ASSUME IInv, job # NoJob, job' = NoJob, UNCHANGED <<shell, client, requests, server, others, installed, tree>>,
         NEW r, Write(<<ResultLine(job.id, r)>>), ResultFits(r)',
         disk' = disk \/ (shell.app = "studio" /\ disk' \in Manifests /\ ValidManifest(disk'))
  PROVE  IInv'
<1>1. PICK e : e = ResultLine(job.id, r)
  OBVIOUS
<1>0. e.type = "result" /\ e.id = job.id /\ e.result = r
  BY <1>1 DEF ResultLine
<1>2. LineFits(e)'
  <2>1. ResultFits(e.result)'
    BY <1>0
  <2> QED BY <1>0, <2>1 DEF LineFits
<1>3. installed' \in Holdings
  BY DEF IInv, Shaped
<1>4. PICK more : more = <<e>>
  OBVIOUS
<1>5. Lined(more) /\ Len(more) = 1 /\ more[1] = e
  BY <1>4, LinedOne
<1>6. DOMAIN more = 1 .. 1 /\ Write(more)
  BY <1>1, <1>4, <1>5, LinedLen
<1>7. \A k \in DOMAIN more : more[k].id = job.id /\ LineFits(more[k])' /\ k = Len(more)
  BY <1>0, <1>2, <1>5, <1>6
<1> QED BY <1>3, <1>5, <1>6, <1>7, WorkerEnds

LEMMA FailsAlone ==
  ASSUME IInv, job # NoJob, UNCHANGED <<shell, client, requests, server, others, installed>>,
         NEW code, Fails(code), ErrorFits(code)', tree' = tree \/ job.method \in Mutations,
         disk' = disk \/ (shell.app = "studio" /\ disk' \in Manifests /\ ValidManifest(disk'))
  PROVE  IInv'
<1>3. PICK e, before : e = ErrorLine(job.id, code) /\ before = <<>>
  OBVIOUS
<1>4. Write(<<e>>) /\ job' = NoJob
  BY <1>3 DEF Fails
<1>5. <<e>> = before \o <<e>> /\ Lined(before) /\ DOMAIN before = {}
  BY <1>3, LinedNone
<1>6. Write(before \o <<ErrorLine(job.id, code)>>)
  BY <1>3, <1>4, <1>5
<1> QED BY <1>4, <1>5, <1>6, WorkerFails

(* Only an install or uninstall has to say what became of the destination.  *)
LEMMA PlainFails ==
  ASSUME IInv, job # NoJob, UNCHANGED <<shell, client, requests, server, others, installed, tree>>,
         NEW code, Fails(code), job.method \in Mutations => code # "rollback_failed",
         disk' = disk \/ (shell.app = "studio" /\ disk' \in Manifests /\ ValidManifest(disk'))
  PROVE  IInv'
<1>1. job.method = shell.last
  BY WorkerRuns
<1>2. ErrorFits(code)'
  <2>1. shell.last \in Mutations => tree' = "before" /\ code # "rollback_failed"
    BY <1>1 DEF IInv, JobFits
  <2> QED BY <2>1 DEF ErrorFits
<1> QED BY <1>2, FailsAlone

(* Requests of Setup are about a package, those of Studio about a project.  *)
LEMMA JobOfApp ==
  ASSUME IInv, job # NoJob
  PROVE  /\ job.method \in SetupAsks => shell.app = "setup" /\ disk \in Manifests /\ ValidBundle(disk)
         /\ job.method \in ProjectAsks => shell.app = "studio"
         /\ job.method \in ProjectAsks \ {"initProject", "validateProject"} => disk # NoProject
         /\ disk # NoProject => disk \in Manifests /\ ValidManifest(disk)
<1>1. job.method = shell.last /\ shell.id # 0
  BY WorkerRuns
<1>2. shell.last \in SetupAsks => shell.last \notin ProjectAsks
  BY DEF SetupAsks, ProjectAsks
<1>3. shell.app \in {"setup", "studio"} /\ shell.last \in IF shell.app = "setup" THEN SetupAsks ELSE ProjectAsks
  BY <1>1 DEF IInv, Shaped, AtFits
<1>4. /\ disk # NoProject => disk \in Manifests /\ ValidManifest(disk)
      /\ shell.app = "setup" => ValidBundle(disk) /\ disk # NoProject
  BY DEF IInv, Shaped
<1>5. shell.last \in ProjectAsks \ {"initProject", "validateProject"} => disk # NoProject
  BY <1>1 DEF IInv, AtFits
<1> QED BY <1>1, <1>2, <1>3, <1>4, <1>5

LEMMA AnswersWith ==
  ASSUME NEW r, Answer(r)
  PROVE  job' = NoJob /\ Write(<<ResultLine(job.id, r)>>)
BY DEF Answer

LEMMA InspectKeeps ==
  ASSUME IInv, Inspect
  PROVE  IInv'
<1>1. /\ job # NoJob /\ job.method = "inspect"
      /\ UNCHANGED <<shell, client, requests, server, others, disk, installed, tree>>
  BY DEF Inspect, Job
<1>2. job.method \notin Mutations /\ job.method \in SetupAsks
  BY <1>1 DEF Mutations, SetupAsks
<1>3. ASSUME NEW code, Fails(code) PROVE IInv'
  BY <1>1, <1>2, <1>3, PlainFails
<1>4. CASE Stops \/ Panics \/ BundleFails
  <2>1. PICK code : Fails(code)
    BY <1>4 DEF Stops, Panics, BundleFails, FailsBy
  <2> QED BY <1>3, <2>1
<1>5. CASE ~Describable(disk) /\ Fails(Fallback.inspect)
  BY <1>3, <1>5
<1>6. CASE Describable(disk) /\ Answer(Described(disk))
  <2>1. PICK r : r = Described(disk)
    OBVIOUS
  <2>2. disk \in Manifests /\ ValidBundle(disk)
    BY <1>1, <1>2, JobOfApp
  <2>3. r.target = disk.target /\ r.directory = disk.directory /\ Alike(r, disk)
    BY <2>1, <2>2, DescribedFields DEF Alike
  <2>4. AcceptsPackage(r) \/ r.directory > 255
    <3>1. r.directory \in Nat
      BY <2>2, <2>3, ManifestTypes
    <3>2. r.directory <= 255 => AcceptsPackage(r)
      BY <1>6, <2>1, <2>2, <2>3, PackageIsAccepted
    <3> QED BY <3>1, <3>2
  <2>5. Alike(r, disk)'
    BY <1>1, <2>3 DEF Alike
  <2>6. shell'.last = "inspect"
    BY <1>1, WorkerRuns
  <2>7. ResultFits(r)'
    BY <2>4, <2>5, <2>6 DEF ResultFits, Mutations, Reading, ProjectAsks
  <2> QED BY <1>1, <1>6, <2>1, <2>7, AnswersWith, WorkerAnswers
<1> QED BY <1>4, <1>5, <1>6 DEF Inspect

LEMMA HoldingsFit ==
  ASSUME IInv
  PROVE  /\ installed = NothingInstalled \/ (/\ installed.order \in {"older", "same", "newer", "other"}
                                             /\ installed.version \in Texts /\ installed.version # Absent
                                             /\ installed.files \in Nat \ {0}
                                             /\ installed.migrate \in BOOLEAN)
         /\ NothingInstalled.order = None /\ NothingInstalled.version = Absent
         /\ NothingInstalled.migrate = FALSE /\ NothingInstalled.files = 0
<1>1. installed \in Holdings
  BY DEF IInv, Shaped
<1> QED BY <1>1 DEF Holdings, NothingInstalled, Versions

LEMMA PlanFits ==
  ASSUME IInv, NEW m, AssessErrors(m, installed, TRUE, FALSE) = {}, NEW status, NEW r, r = Plan(status)
  PROVE  (AcceptsPlan(r) \/ r.version.bytes > MaxMessage) /\ r.action = ActionOn(installed)
<1>1. r.status = status /\ r.action = ActionOn(installed) /\ r.version = installed.version
  BY DEF Plan
<1>2. installed.order \notin {"newer", "other"}
  BY DEF AssessErrors
<1>3. CASE installed = NothingInstalled
  <2>1. r.action = "install" /\ r.version = Absent
    BY <1>1, <1>3, HoldingsFit DEF ActionOn, None
  <2> QED BY <1>1, <2>1 DEF AcceptsPlan
<1>4. CASE installed # NothingInstalled
  <2>1. installed.order \in {"older", "same"} /\ installed.version \in Texts /\ installed.version # Absent
    BY <1>2, <1>4, HoldingsFit
  <2>2. r.action # "install" /\ r.version # Absent /\ r.version \in Texts
    BY <1>1, <2>1 DEF ActionOn
  <2>3. r.version.bytes \in Nat
    BY <2>2, TextTypes
  <2>4. r.version.bytes <= MaxMessage \/ r.version.bytes > MaxMessage
    BY <2>3 DEF MaxMessage
  <2>5. r.version.bytes <= MaxMessage => ShellText(r.version)
    BY <2>2, SomeText
  <2> QED BY <1>1, <2>2, <2>4, <2>5 DEF AcceptsPlan
<1> QED BY <1>3, <1>4

LEMMA PrepareKeeps ==
  ASSUME IInv, Prepare
  PROVE  IInv'
<1>1. /\ job # NoJob /\ job.method = "prepareInstall"
      /\ UNCHANGED <<shell, client, requests, server, others, disk, installed, tree>>
  BY DEF Prepare, Job
<1>2. job.method \notin Mutations /\ shell'.last = "prepareInstall"
  BY <1>1, WorkerRuns DEF Mutations
<1>3. ASSUME NEW code, Fails(code) PROVE IInv'
  BY <1>1, <1>2, <1>3, PlainFails
<1>4. ASSUME NEW r, Answer(r), AcceptsPlan(r) \/ r.version.bytes > MaxMessage,
             r.status = "recoveryRequired" \/ r.action = ActionOn(installed)
      PROVE  IInv'
  <2>1. ActionOn(installed)' = ActionOn(installed)
    BY <1>1 DEF ActionOn
  <2>2. ResultFits(r)'
    BY <1>2, <1>4, <2>1 DEF ResultFits, Mutations, Reading, ProjectAsks
  <2> QED BY <1>1, <1>4, <2>2, AnswersWith, WorkerAnswers
<1>5. CASE Stops \/ Panics \/ BundleFails
  <2>1. PICK code : Fails(code)
    BY <1>5 DEF Stops, Panics, BundleFails, FailsBy
  <2> QED BY <1>3, <2>1
<1>6. CASE ~(Stops \/ Panics \/ BundleFails)
  <2>1. CASE disk.print # job.args.expectedFingerprint /\ Fails("package_changed")
    BY <1>3, <2>1
  <2>2. CASE disk.print = job.args.expectedFingerprint /\ disk.target # Host /\ Fails(InstallCode.UnsupportedTarget)
    BY <1>3, <2>2
  <2>3. CASE /\ disk.print = job.args.expectedFingerprint /\ disk.target = Host
             /\ LET errors == AssessErrors(disk, installed, TRUE, FALSE) IN
                \/ FailsBy(InstallCode, PortKinds \cup StateErrors(disk, installed) \cup errors)
                \/ Answer([NoPlan EXCEPT !.status = "recoveryRequired"])
                \/ /\ errors = {}
                   /\ \E status \in {"ready", "insufficientSpace"} : Answer(Plan(status))
    <3> DEFINE errors == AssessErrors(disk, installed, TRUE, FALSE)
    <3>1. CASE FailsBy(InstallCode, PortKinds \cup StateErrors(disk, installed) \cup errors)
      <4>1. PICK code : Fails(code)
        BY <3>1 DEF FailsBy
      <4> QED BY <1>3, <4>1
    <3>2. CASE Answer([NoPlan EXCEPT !.status = "recoveryRequired"])
      <4>1. PICK r : r = [NoPlan EXCEPT !.status = "recoveryRequired"]
        OBVIOUS
      <4>2. r.status = "recoveryRequired"
        BY <4>1 DEF NoPlan
      <4> QED BY <1>4, <3>2, <4>1, <4>2 DEF AcceptsPlan
    <3>3. CASE /\ errors = {}
               /\ \E status \in {"ready", "insufficientSpace"} : Answer(Plan(status))
      <4>1. PICK status \in {"ready", "insufficientSpace"} : Answer(Plan(status))
        BY <3>3
      <4>2. PICK r : r = Plan(status)
        OBVIOUS
      <4>3. (AcceptsPlan(r) \/ r.version.bytes > MaxMessage) /\ r.action = ActionOn(installed)
        BY <3>3, <4>2, PlanFits
      <4> QED BY <1>4, <4>1, <4>2, <4>3
    <3> QED BY <2>3, <3>1, <3>2, <3>3
  <2> QED BY <1>6, <2>1, <2>2, <2>3 DEF Prepare
<1> QED BY <1>5, <1>6

LEMMA LaunchKeeps ==
  ASSUME IInv, Launch
  PROVE  IInv'
<1>1. /\ job # NoJob /\ job.method = "launch"
      /\ UNCHANGED <<shell, client, requests, server, others, disk, installed, tree>>
  BY DEF Launch, Job
<1>2. job.method \notin Mutations /\ shell'.last = "launch"
  BY <1>1, WorkerRuns DEF Mutations
<1>3. CASE Panics \/ FailsBy(LaunchCode, DOMAIN LaunchCode)
  <2>1. PICK code : Fails(code)
    BY <1>3 DEF Panics, FailsBy
  <2> QED BY <1>1, <1>2, <2>1, PlainFails
<1>4. CASE Answer([id |-> job.args.packageId])
  <2>1. PICK r : r = [id |-> job.args.packageId]
    OBVIOUS
  <2>2. r.id = shell'.bound.id
    BY <1>1, <2>1 DEF IInv, JobFits
  <2>3. ResultFits(r)'
    BY <1>2, <2>2 DEF ResultFits, Mutations, Reading, ProjectAsks
  <2> QED BY <1>1, <1>4, <2>1, <2>3, AnswersWith, WorkerAnswers
<1> QED BY <1>3, <1>4 DEF Launch

(* A form replaces the settings of a project, and a file is added to it.    *)
LEMMA UpdatedType ==
  ASSUME NEW m \in Manifests, NEW form \in Manifests
  PROVE  Updated(m, form) \in Manifests
<1>1. m.files \in Nat /\ m.size \in Nat
  BY ManifestTypes
<1>2. (IF form.license # Absent THEN 3 ELSE IF form.entry THEN 2 ELSE 1) \in Nat
  OBVIOUS
<1> QED BY <1>1, <1>2 DEF Updated, Manifests

LEMMA OneMore ==
  ASSUME NEW k \in Nat, k < MaxFiles
  PROVE  k + 1 \in 1 .. MaxFiles
<1>1. MaxFiles \in Nat
  BY SMT DEF MaxFiles
<1> QED BY SMT, <1>1

LEMMA ImportedType ==
  ASSUME NEW m \in Manifests, ValidManifest(m), m.files < MaxFiles, NEW n, n = [m EXCEPT !.files = @ + 1]
  PROVE  n \in Manifests /\ ValidManifest(n)
<1>1. m.files \in Nat
  BY ManifestTypes
<1>2. n \in Manifests
  <2>1. m.files + 1 \in Nat
    BY <1>1, SMT
  <2> QED BY <2>1, ZenonT(60) DEF Manifests
<1>3. /\ n.id = m.id /\ n.format = m.format /\ n.schema = m.schema /\ n.signer = m.signer /\ n.next = m.next
      /\ n.name = m.name /\ n.publisher = m.publisher /\ n.version = m.version
      /\ n.description = m.description /\ n.license = m.license /\ n.directory = m.directory
      /\ n.target = m.target /\ n.entry = m.entry /\ n.links = m.links /\ n.files = m.files + 1
      /\ n.size = m.size /\ n.parses = m.parses
  BY DEF Manifests
<1>4. n.files \in 1 .. MaxFiles
  <2> DEFINE k == m.files
  <2>1. k \in Nat /\ k < MaxFiles
    BY <1>1
  <2> HIDE DEF k
  <2>2. k + 1 \in 1 .. MaxFiles
    BY <2>1, OneMore
  <2> QED BY <1>3, <2>2 DEF k
<1>5. /\ n.parses /\ ValidDirectory(n.directory)
      /\ n.schema \in 1..3 /\ n.format \in 1..3
      /\ n.format = 3 <=> n.next # None
      /\ TextOf(n.name, 128) /\ TextOf(n.publisher, 128)
  BY SMT, <1>3 DEF ValidManifest
<1>6. /\ n.description # Absent => TextOf(n.description, 1024)
      /\ n.entry => n.schema >= 2
      /\ n.license # Absent => n.schema >= 3 /\ TextOf(n.license, MaxLicense)
      /\ n.size <= MaxPayload
  BY SMT, <1>3 DEF ValidManifest
<1>7. /\ Len(n.links) <= MaxLinks
      /\ \A i \in DOMAIN n.links : TextOf(n.links[i].label, 48) /\ ValidUrl(n.links[i])
  BY SMT, <1>3 DEF ValidManifest
<1> QED BY SMT, <1>2, <1>4, <1>5, <1>6, <1>7 DEF ValidManifest

LEMMA ProjectKeeps ==
  ASSUME IInv, Project
  PROVE  IInv'
<1>1. /\ job # NoJob /\ job.method \in ProjectAsks
      /\ UNCHANGED <<shell, client, requests, server, others, installed, tree>>
  BY DEF Project, Job, ProjectAsks
<1>2. job.method \notin Mutations /\ shell'.last = job.method /\ shell.app = "studio"
  BY <1>1, WorkerRuns, JobOfApp DEF Mutations, ProjectAsks
<1>3. /\ disk # NoProject => disk \in Manifests /\ ValidManifest(disk)
      /\ job.method \in ProjectAsks \ {"initProject", "validateProject"} => disk # NoProject
  BY <1>1, JobOfApp
<1>4. ASSUME NEW code, Fails(code), disk' = disk \/ (disk' \in Manifests /\ ValidManifest(disk')) PROVE IInv'
  BY <1>1, <1>2, <1>4, PlainFails
<1>5. ASSUME ProjectAnswer, disk' \in Manifests, ValidManifest(disk') PROVE IInv'
  <2>1. CASE ~Describable(disk') /\ Fails(Fallback[job.method])
    BY <1>4, <1>5, <2>1
  <2>2. CASE Describable(disk') /\ Answer(Described(disk'))
    <3>1. PICK m, r : m = disk' /\ r = Described(m)
      OBVIOUS
    <3>2. m \in Manifests /\ ValidManifest(m) /\ Describable(m)
      BY <1>5, <2>2, <3>1
    <3>3. AcceptsProject(r) \/ r.directory > 255 \/ r.description.bytes > MaxMessage
      BY <3>1, <3>2, ProjectIsAccepted
    <3>4. disk' # NoProject
      BY <1>5, NotAProject
    <3>5. shell'.last \notin {"defaults", "inspect", "prepareInstall", "install", "uninstall", "launch"}
      BY <1>1, <1>2 DEF ProjectAsks
    <3>6. ResultFits(r)'
      BY <3>3, <3>4, <3>5 DEF ResultFits, Mutations
    <3> QED BY <1>1, <1>2, <1>5, <2>2, <3>1, <3>6, AnswersWith, WorkerAnswers
  <2> QED BY <1>5, <2>1, <2>2 DEF ProjectAnswer
<1>6. Starter \in Manifests /\ ValidManifest(Starter)
  BY SessionAssumption
<1>7. CASE Creates /\ ProjectAnswer
  BY <1>5, <1>6, <1>7 DEF Creates
<1>8. CASE ProjectFails
  <2>1. PICK code : Fails(code)
    BY <1>8 DEF ProjectFails, Stops, Panics, FailsBy
  <2>2. disk' = disk \/ (disk' \in Manifests /\ ValidManifest(disk'))
    BY <1>6, <1>8 DEF ProjectFails, Creates
  <2> QED BY <1>4, <2>1, <2>2
<1>9. CASE ProjectRead
  BY <1>3, <1>5, <1>9 DEF ProjectRead
<1>10. CASE ProjectUpdated
  <2>1. job.method = "updateProject" /\ ProjectAnswer
        /\ disk' = Updated(disk, job.args.package) /\ ValidManifest(disk')
    BY <1>10 DEF ProjectUpdated
  <2>2. disk \in Manifests /\ job.args.package \in Manifests
    BY <1>1, <1>3, <2>1 DEF ProjectAsks, IInv, JobFits
  <2>3. disk' \in Manifests
    BY <2>1, <2>2, UpdatedType
  <2> QED BY <1>5, <2>1, <2>3
<1>11. CASE PayloadImported
  <2>1. /\ job.method = "importPayload" /\ ProjectAnswer
        /\ disk.files < MaxFiles /\ disk' = [disk EXCEPT !.files = @ + 1]
    BY <1>11 DEF PayloadImported
  <2>2. disk \in Manifests /\ ValidManifest(disk)
    BY <1>1, <1>3, <2>1
  <2>3. disk' \in Manifests /\ ValidManifest(disk')
    BY <2>1, <2>2, ImportedType
  <2> QED BY <1>5, <2>1, <2>3
<1>12. CASE PathResolved
  <2>1. job.method = "resolvePayloadPath" /\ disk' = disk /\ Answer([path |-> shell.path])
    BY <1>12 DEF PathResolved
  <2>2. PICK r : r = [path |-> shell.path]
    OBVIOUS
  <2>3. ResultFits(r)'
    BY <1>2, <2>1 DEF ResultFits, Mutations, Reading
  <2> QED BY <1>1, <2>1, <2>2, <2>3, AnswersWith, WorkerAnswers
<1> QED BY <1>7, <1>8, <1>9, <1>10, <1>11, <1>12 DEF Project

-----------------------------------------------------------------------------
(* Install and uninstall.                                                   *)

Mutating(methods) ==
  /\ job # NoJob /\ job.method \in methods
  /\ UNCHANGED <<shell, client, requests, server, others>>

LEMMA MutationRuns ==
  ASSUME IInv, Mutating(Mutations)
  PROVE  /\ job.method \in {"install", "uninstall"} /\ KindOf(shell.last) = job.method
         /\ shell'.last = job.method /\ shell.last = job.method /\ tree = "before" /\ JobShape(job)
         /\ disk \in Manifests /\ ValidBundle(disk) /\ shell.app = "setup" /\ shell.at = "planned"
         /\ ~Applied
<1>1. job # NoJob /\ job.method \in {"install", "uninstall"} /\ job.method \in SetupAsks /\ UNCHANGED shell
  BY DEF Mutating, Mutations, SetupAsks
<1>2. job.method = shell.last /\ JobShape(job) /\ job.id = shell.id /\ shell.id # 0
      /\ \A i \in DOMAIN lines : Settles(lines[i]) => lines[i].id # job.id
  BY <1>1, WorkerRuns
<1>3. disk \in Manifests /\ ValidBundle(disk) /\ shell.app = "setup"
  BY <1>1, JobOfApp
<1>4. tree = "before" /\ shell.at = "planned"
  BY <1>1, <1>2 DEF IInv, JobFits, AtFits, Mutations
<1>5. ~Applied
  BY <1>2 DEF Applied, Settles
<1> QED BY <1>1, <1>2, <1>3, <1>4, <1>5 DEF KindOf, Mutations

LEMMA PhaseParses ==
  ASSUME NEW method \in {"install", "uninstall"}, NEW phase \in Phases[method]
  PROVE  /\ ParsesEvent(method, PhaseLine(phase))
         /\ PhaseLine(phase).type = "event" /\ PhaseLine(phase).id = job.id
<1>1. PICK line : line = PhaseLine(phase)
  OBVIOUS
<1>2. line.type = "event" /\ line.id = job.id /\ line.event = "phase" /\ line.data.phase = phase
  BY <1>1 DEF PhaseLine, EventLine
<1>3. method \in DOMAIN Phases
  BY DEF Phases
<1>4. ParsesEvent(method, line)
  BY <1>2, <1>3 DEF ParsesEvent
<1> QED BY <1>1, <1>2, <1>4

LEMMA OneAndOne ==
  ASSUME NEW t, NEW x
  PROVE  <<t>> \o <<x>> = <<t, x>>
<1> DEFINE S == {t, x}
           a == <<t>>
           b == <<x>>
           c == <<t, x>>
<1>1. a \in Seq(S) /\ b \in Seq(S) /\ c \in Seq(S)
  OBVIOUS
<1>2. Len(a) = 1 /\ a[1] = t /\ Len(b) = 1 /\ b[1] = x /\ Len(c) = 2 /\ c[1] = t /\ c[2] = x
  OBVIOUS
<1> HIDE DEF S, a, b, c
<1>3. /\ a \o b \in Seq(S) /\ Len(a \o b) = Len(a) + Len(b)
      /\ \A i \in 1 .. Len(a) + Len(b) : (a \o b)[i] = IF i <= Len(a) THEN a[i] ELSE b[i - Len(a)]
  BY <1>1, ConcatProperties
<1>4. Len(a \o b) = 2 /\ (a \o b)[1] = t /\ (a \o b)[2] = x
  BY <1>2, <1>3
<1>5. \A i \in 1 .. 2 : (a \o b)[i] = c[i]
  BY <1>2, <1>4
<1>6. a \o b = c
  BY <1>1, <1>2, <1>3, <1>4, <1>5, SeqEqual
<1> QED BY <1>6 DEF a, b, c

LEMMA LastApart ==
  ASSUME NEW b, Lined(b), NEW t, NEW x
  PROVE  b \o <<t, x>> = (b \o <<t>>) \o <<x>>
<1> DEFINE S == {b[i] : i \in DOMAIN b} \cup {t, x}
<1>1. b \in Seq(S)
  <2>1. \A i \in DOMAIN b : b[i] \in S
    OBVIOUS
  <2>2. Len(b) \in Nat /\ b \in [1 .. Len(b) -> {b[i] : i \in DOMAIN b}]
    BY LenProperties DEF Lined
  <2> HIDE DEF S
  <2>3. b \in [1 .. Len(b) -> S]
    BY <2>1, <2>2
  <2> QED BY <2>2, <2>3, SeqDef
<1>2. t \in S /\ x \in S
  OBVIOUS
<1> HIDE DEF S
<1>3. <<t>> \in Seq(S) /\ <<x>> \in Seq(S)
  BY <1>2
<1>4. (b \o <<t>>) \o <<x>> = b \o (<<t>> \o <<x>>)
  BY <1>1, <1>3, ConcatAssociative
<1>5. <<t>> \o <<x>> = <<t, x>>
  BY OneAndOne
<1> QED BY <1>4, <1>5

(* emit_terminal_error, and the error.                                      *)
LEMMA OperationFails ==
  ASSUME IInv, Mutating(Mutations), UNCHANGED <<disk, installed>>,
         NEW e \in DOMAIN Code[job.method], NEW before, EndsWith(e, before),
         Lined(before), \A k \in DOMAIN before : before[k] = PhaseLine("rollingBack"),
         tree' \in {"before", "torn"}, e = "Rollback" <=> tree' = "torn"
  PROVE  IInv'
<1>1. /\ job.method \in {"install", "uninstall"} /\ KindOf(shell.last) = job.method
      /\ shell'.last = job.method /\ shell.last = job.method
  BY MutationRuns
<1>2. job # NoJob /\ UNCHANGED <<shell, client, requests, server, others, installed, disk>> /\ job.method \in Mutations
  BY DEF Mutating
<1>3. PICK t, x, code : t = Terminal(e) /\ code = Code[job.method][e] /\ x = ErrorLine(job.id, code)
  OBVIOUS
<1>4. job' = NoJob /\ Write(before \o <<t, x>>)
  BY <1>3 DEF EndsWith
<1>5. before \o <<t, x>> = (before \o <<t>>) \o <<x>>
  BY LastApart
<1>6. {"rollingBack", "cancelled", "failed"} \subseteq Phases[job.method]
  BY <1>1 DEF Phases
<1>7. t.type = "event" /\ t.id = job.id /\ ParsesEvent(job.method, t)
  <2>1. PICK phase \in {"cancelled", "failed"} : t = PhaseLine(phase)
    BY <1>3 DEF Terminal
  <2> QED BY <1>1, <1>6, <2>1, PhaseParses
<1>8. ASSUME NEW k \in DOMAIN before
      PROVE  before[k].type = "event" /\ before[k].id = job.id /\ ParsesEvent(job.method, before[k])
  BY <1>1, <1>6, PhaseParses
<1>9. PICK more : more = before \o <<t>>
  OBVIOUS
<1>10. /\ Lined(more)
       /\ \A k \in DOMAIN more : more[k].type = "event" /\ more[k].id = job.id /\ ParsesEvent(job.method, more[k])
  <2>1. Lined(<<t>>) /\ Len(<<t>>) = 1 /\ <<t>>[1] = t
    BY LinedOne
  <2>2. DOMAIN before = 1 .. Len(before) /\ Len(before) \in Nat
    BY LinedLen
  <2>3. /\ Lined(more) /\ Len(more) = Len(before) + 1
        /\ \A i \in 1 .. Len(before) + 1 : more[i] = IF i <= Len(before) THEN before[i] ELSE <<t>>[i - Len(before)]
    BY <1>9, <2>1, LinedConcat
  <2>4. DOMAIN more = 1 .. Len(more)
    BY <2>3, LinedLen
  <2>5. ASSUME NEW k \in DOMAIN more PROVE (k \in DOMAIN before /\ more[k] = before[k]) \/ more[k] = t
    <3>1. k \in 1 .. Len(before) + 1
      BY <2>3, <2>4
    <3>2. CASE k <= Len(before)
      BY <2>2, <2>3, <3>1, <3>2
    <3>3. CASE k = Len(before) + 1
      <4>1. more[k] = <<t>>[1]
        BY <2>2, <2>3, <3>3
      <4> QED BY <2>1, <4>1
    <3> QED BY <2>2, <3>1, <3>2, <3>3
  <2> QED BY <1>7, <1>8, <2>3, <2>5
<1>11. ErrorFits(code)'
  <2>1. code = "rollback_failed" <=> e = "Rollback"
    BY <1>2, <1>3, MutationCodes
  <2> QED BY <2>1 DEF ErrorFits
<1>12. Write(more \o <<ErrorLine(job.id, code)>>)
  BY <1>3, <1>4, <1>5, <1>9
<1> QED BY <1>1, <1>2, <1>4, <1>10, <1>11, <1>12, WorkerFails

LEMMA RefusesKeep ==
  ASSUME IInv, Mutating(Mutations), OpenRefuses, UNCHANGED <<disk, installed, tree>>
  PROVE  IInv'
<1>1. job # NoJob /\ UNCHANGED <<shell, client, requests, server, others, installed, disk, tree>>
  BY DEF Mutating
<1>2. job.method = "install"
  BY DEF OpenRefuses
<1>3. ASSUME NEW code, Fails(code), code # "rollback_failed" PROVE IInv'
  BY <1>1, <1>3, PlainFails
<1>4. CASE BundleFails
  <2>1. Fallback[job.method] = "package_open_failed"
    BY <1>2 DEF Fallback
  <2>2. PICK e \in DOMAIN BundleCode(Fallback[job.method]) : Fails(BundleCode(Fallback[job.method])[e])
    BY <1>4 DEF BundleFails, FailsBy
  <2>3. BundleCode(Fallback[job.method])[e] # "rollback_failed"
    BY <2>1, <2>2 DEF BundleCode
  <2> QED BY <1>3, <2>2, <2>3
<1> QED BY <1>3, <1>4 DEF OpenRefuses, Stops

LEMMA NoLines == Lined(<<>>) /\ DOMAIN <<>> = {}
BY LinedNone

LEMMA RefuseKeeps ==
  ASSUME IInv, Mutating(Mutations), Refuse
  PROVE  IInv'
<1>1. job.method \in {"install", "uninstall"} /\ tree = "before"
  BY MutationRuns
<1>2. PICK e \in Wrong \cup MayGoWrong : EndsWith(e, <<>>)
  BY DEF Refuse
<1>3. UNCHANGED <<disk, installed, tree>>
  BY DEF Refuse
<1>4. /\ job.method = "install" => job.at # "loadingReceipt"
      /\ job.method = "uninstall" => job.at \notin {"validating", "planning"}
  BY DEF IInv, Doing, Mutating, Acting
<1>5. /\ job.method = "install" => {"UnsupportedTarget", "LicenseNotAccepted", "PublisherRotationDenied",
           "PublisherMigrationDenied", "DowngradeDenied", "ReinstallMismatch", "InvalidReceipt",
           "ReceiptMismatch", "PathAliasChanged", "PublisherMismatch"} \subseteq DOMAIN Code[job.method]
      /\ job.method = "uninstall" => {"InvalidReceipt", "UnsupportedScope", "ReceiptPackageMismatch"}
           \subseteq DOMAIN Code[job.method]
      /\ PortKinds \subseteq DOMAIN Code[job.method] /\ "Rollback" \notin PortKinds
  <2>1. {"UnsupportedTarget", "LicenseNotAccepted", "PublisherRotationDenied",
           "PublisherMigrationDenied", "DowngradeDenied", "ReinstallMismatch", "InvalidReceipt",
           "ReceiptMismatch", "PathAliasChanged", "PublisherMismatch"} \subseteq DOMAIN InstallCode
    BY DEF InstallCode, With
  <2>2. {"InvalidReceipt", "UnsupportedScope", "ReceiptPackageMismatch"} \subseteq DOMAIN UninstallCode
    BY DEF UninstallCode, With
  <2>3. Code["install"] = InstallCode /\ Code["uninstall"] = UninstallCode
    BY DEF Code
  <2>4. PortKinds \subseteq DOMAIN Code[job.method]
    BY <1>1, CodesOfPorts DEF Mutations
  <2>5. "Rollback" \notin PortKinds
    BY SessionAssumption, PortCodes
  <2> QED BY <2>1, <2>2, <2>3, <2>4, <2>5
<1>6. e \in DOMAIN Code[job.method] /\ e # "Rollback"
  <2>1. CASE e \in Wrong
    <3>1. job.method = "install"
      BY <1>1, <1>4, <2>1 DEF Wrong
    <3>2. e \in {"UnsupportedTarget", "LicenseNotAccepted", "PublisherRotationDenied",
           "PublisherMigrationDenied", "DowngradeDenied", "ReinstallMismatch"}
      BY <2>1 DEF Wrong, AssessErrors
    <3> QED BY <1>5, <3>1, <3>2
  <2>2. CASE e \in MayGoWrong
    <3>1. CASE e \in PortKinds
      BY <1>5, <3>1
    <3>2. CASE e \notin PortKinds
      <4>1. CASE job.method = "install"
        <5>1. e \in {"InvalidReceipt", "ReceiptMismatch", "PathAliasChanged", "PublisherRotationDenied",
                     "PublisherMismatch"}
          BY <1>4, <2>2, <3>2, <4>1 DEF MayGoWrong, StateErrors
        <5> QED BY <1>5, <4>1, <5>1
      <4>2. CASE job.method = "uninstall"
        <5>1. e \in {"InvalidReceipt", "UnsupportedScope", "ReceiptPackageMismatch"}
          BY <1>4, <2>2, <3>2, <4>2 DEF MayGoWrong
        <5> QED BY <1>5, <4>2, <5>1
      <4> QED BY <1>1, <4>1, <4>2
    <3> QED BY <3>1, <3>2
  <2> QED BY <1>2, <2>1, <2>2
<1>7. PICK before : before = <<>>
  OBVIOUS
<1>8. Lined(before) /\ DOMAIN before = {} /\ EndsWith(e, before)
  BY <1>2, <1>7, NoLines
<1> QED BY <1>1, <1>3, <1>6, <1>8, OperationFails

LEMMA CancelEarlyKeeps ==
  ASSUME IInv, Mutating(Mutations), CancelEarly
  PROVE  IInv'
<1>1. job.method \in Mutations /\ tree = "before"
  BY MutationRuns DEF Mutations
<1>2. EndsWith("Cancelled", <<>>) /\ UNCHANGED <<disk, installed, tree>>
  BY DEF CancelEarly
<1>3. PICK before, e : before = <<>> /\ e = "Cancelled"
  OBVIOUS
<1>4. Lined(before) /\ DOMAIN before = {} /\ EndsWith(e, before)
  BY <1>2, <1>3, NoLines
<1>5. e \in DOMAIN Code[job.method] /\ e # "Rollback"
  BY <1>1, <1>3, CodesOfPorts
<1> QED BY <1>1, <1>2, <1>4, <1>5, OperationFails

LEMMA RollBackKeeps ==
  ASSUME IInv, Mutating(Mutations), RollBack
  PROVE  IInv'
<1>1. job.method \in Mutations /\ UNCHANGED <<disk, installed>>
  BY MutationRuns DEF Mutations, RollBack
<1>2. PICK before : before = <<PhaseLine("rollingBack")>>
  OBVIOUS
<1>3. Lined(before) /\ \A k \in DOMAIN before : before[k] = PhaseLine("rollingBack")
  <2>1. Lined(before) /\ Len(before) = 1 /\ before[1] = PhaseLine("rollingBack")
    BY <1>2, LinedOne
  <2>2. DOMAIN before = 1 .. 1
    BY <2>1, LinedLen
  <2> QED BY <2>1, <2>2
<1>4. "Rollback" \notin PortKinds /\ PortKinds \cup {"Cancelled", "Rollback"} \subseteq DOMAIN Code[job.method]
  BY <1>1, SessionAssumption, PortCodes, CodesOfPorts
<1>5. PICK e \in PortKinds \cup {"Cancelled"} :
        \/ EndsWith(e, before) /\ tree' = "before"
        \/ EndsWith("Rollback", before) /\ tree' = "torn"
  BY <1>2 DEF RollBack
<1>6. CASE EndsWith(e, before) /\ tree' = "before"
  BY <1>1, <1>3, <1>4, <1>6, OperationFails
<1>7. CASE EndsWith("Rollback", before) /\ tree' = "torn"
  BY <1>1, <1>3, <1>4, <1>7, OperationFails
<1> QED BY <1>5, <1>6, <1>7

LEMMA PanicKeeps ==
  ASSUME IInv, Mutating(Mutations), WorkerPanics
  PROVE  IInv'
<1>1. job # NoJob /\ job.method \in Mutations /\ UNCHANGED <<shell, client, requests, server, others, installed, disk>>
  BY DEF Mutating, WorkerPanics
<1>2. tree' \in {"before", "unknown"}
  BY MutationRuns DEF WorkerPanics
<1>3. PICK code : code = "internal_error" /\ Fails(code)
  BY DEF WorkerPanics, Panics
<1>4. ErrorFits(code)'
  BY <1>2, <1>3 DEF ErrorFits
<1> QED BY <1>1, <1>3, <1>4, FailsAlone

(* A result, after the phase that says so.                                  *)
LEMMA OperationCompletes ==
  ASSUME IInv, Mutating(Mutations), UNCHANGED disk, NEW r, Completes(r), ResultFits(r)',
         installed' \in Holdings, tree' = "after"
  PROVE  IInv'
<1>1. /\ job.method \in {"install", "uninstall"} /\ KindOf(shell.last) = job.method
      /\ shell'.last = job.method /\ shell.last = job.method
  BY MutationRuns
<1>2. job # NoJob /\ UNCHANGED <<shell, client, requests, server, others>> /\ job.method \in Mutations
  BY DEF Mutating
<1>3. PICK t, x, more : t = PhaseLine("completed") /\ x = ResultLine(job.id, r) /\ more = <<t, x>>
  OBVIOUS
<1>4. job' = NoJob /\ Write(more)
  BY <1>3 DEF Completes
<1>5. t.type = "event" /\ t.id = job.id /\ ParsesEvent(job.method, t)
  <2>1. "completed" \in Phases[job.method]
    BY <1>1 DEF Phases
  <2> QED BY <1>1, <1>3, <2>1, PhaseParses
<1>6. x.type = "result" /\ x.id = job.id /\ x.result = r
  BY <1>3 DEF ResultLine
<1>7. LineFits(t)'
  <2>1. KindOf(shell'.last) = job.method
    BY <1>1 DEF KindOf, Mutations
  <2> QED BY <1>5, <2>1 DEF LineFits
<1>8. LineFits(x)'
  <2>1. ResultFits(x.result)'
    BY <1>6
  <2> QED BY <1>6, <2>1 DEF LineFits
<1>9. Lined(more) /\ Len(more) = 2 /\ more[1] = t /\ more[2] = x /\ DOMAIN more = 1 .. 2
  <2>1. Lined(more) /\ Len(more) = 2 /\ more[1] = t /\ more[2] = x
    BY <1>3, LinedTwo
  <2> QED BY <2>1, LinedLen
<1>10. \A k \in DOMAIN more : more[k].id = job.id /\ LineFits(more[k])'
  BY <1>5, <1>6, <1>7, <1>8, <1>9
<1>11. \A k \in DOMAIN more : Settles(more[k]) => k = Len(more)
  BY <1>5, <1>9 DEF Settles
<1>12. \E k \in DOMAIN more : more[k].type = "result" /\ shell.last \in Mutations
  BY <1>1, <1>6, <1>9 DEF Mutations
<1> QED BY <1>2, <1>4, <1>9, <1>10, <1>11, <1>12, WorkerEnds

LEMMA MaxFilesType == MaxFiles \in Nat /\ \A k \in 1 .. MaxFiles : k # 0
<1>1. MaxFiles \in Nat
  BY SMT DEF MaxFiles
<1> QED BY SMT, <1>1

LEMMA FinishKeeps ==
  ASSUME IInv, Mutating(Mutations), Finish
  PROVE  IInv'
<1>0. /\ job.method \in {"install", "uninstall"} /\ shell'.last = job.method /\ shell.last = job.method
      /\ shell.app = "setup" /\ shell.at = "planned" /\ ~Applied
      /\ job # NoJob /\ UNCHANGED <<shell, others>>
  BY MutationRuns DEF Mutating
<1>1. job.at = "committing" /\ tree' = "after" /\ UNCHANGED disk
  BY DEF Finish
<1>2. CASE job.method = "install"
  <2>1. /\ installed' = [order |-> "same", version |-> job.m.version, migrate |-> FALSE, files |-> job.m.files]
        /\ Completes(InstallResult)
    BY <1>2 DEF Finish
  <2>2. /\ job.m \in Manifests /\ ValidBundle(job.m) /\ (others = 0 => job.m = disk)
        /\ job.action = ActionOn(installed)
    BY <1>0, <1>1, <1>2 DEF IInv, Doing, Acting
  <2>3. installed' \in Holdings /\ installed'.order = "same"
    <3>1. job.m.version \in Versions
      BY <2>2 DEF Manifests
    <3>2. job.m.files \in Nat \ {0}
      <4>1. job.m.files \in 1 .. MaxFiles /\ job.m.files \in Nat
        BY <2>2, ManifestTypes DEF ValidBundle, ValidManifest
      <4>2. \A k \in 1 .. MaxFiles : k # 0
        BY MaxFilesType
      <4> QED BY <4>1, <4>2
    <3> QED BY <2>1, <3>1, <3>2 DEF Holdings
  <2>4. PICK r : r = InstallResult
    OBVIOUS
  <2>5. /\ r.id = job.m.id /\ r.action = job.action /\ r.directory = job.m.directory
        /\ r.files = job.m.files /\ r.size = job.m.size
    BY <2>4 DEF InstallResult
  <2>6. others = 0 => AcceptsInstall(r, shell.plan, shell.bound)
    <3>1. SUFFICES ASSUME others = 0 PROVE AcceptsInstall(r, shell.plan, shell.bound)
      OBVIOUS
    <3>2. Alike(shell.bound, disk) /\ (shell.plan.status = "recoveryRequired" \/ shell.plan.action = ActionOn(installed))
      BY <1>0, <3>1 DEF IInv, Reviewed
    <3> QED BY <2>2, <2>5, <3>1, <3>2 DEF AcceptsInstall, Alike
  <2>7. ResultFits(r)'
    BY <1>0, <1>1, <1>2, <2>3, <2>6 DEF ResultFits, Reading, ProjectAsks
  <2> QED BY <1>1, <2>1, <2>3, <2>4, <2>7, OperationCompletes
<1>3. CASE job.method = "uninstall"
  <2>1. installed' = NothingInstalled /\ Completes([id |-> job.args.packageId])
    BY <1>3 DEF Finish
  <2>2. PICK r : r = [id |-> job.args.packageId]
    OBVIOUS
  <2>3. r.id = shell'.bound.id
    BY <1>0, <1>3, <2>2 DEF IInv, JobFits
  <2>4. ResultFits(r)'
    BY <1>0, <1>1, <1>3, <2>3 DEF ResultFits, Reading, ProjectAsks
  <2>5. installed' \in Holdings
    BY <2>1 DEF Holdings
  <2> QED BY <1>1, <2>1, <2>2, <2>4, <2>5, OperationCompletes
<1> QED BY <1>0, <1>2, <1>3

LEMMA NothingToRemoveKeeps ==
  ASSUME IInv, Mutating(Mutations), NothingToRemove
  PROVE  IInv'
<1>0. /\ job.method \in {"install", "uninstall"} /\ shell'.last = job.method
      /\ job # NoJob /\ UNCHANGED <<shell, others>>
  BY MutationRuns DEF Mutating
<1>1. /\ job.at = "loadingReceipt" /\ tree' = "after" /\ UNCHANGED <<disk, installed>>
      /\ Completes([id |-> job.args.packageId])
  BY DEF NothingToRemove
<1>2. job.method = "uninstall"
  BY <1>0, <1>1 DEF IInv, Doing, Acting
<1>3. PICK r : r = [id |-> job.args.packageId]
  OBVIOUS
<1>4. r.id = shell'.bound.id
  BY <1>0, <1>2, <1>3 DEF IInv, JobFits
<1>5. ResultFits(r)'
  BY <1>0, <1>1, <1>2, <1>4 DEF ResultFits, Reading, ProjectAsks
<1>6. installed' \in Holdings
  BY <1>1 DEF IInv, Shaped
<1> QED BY <1>1, <1>3, <1>5, <1>6, OperationCompletes

(* A count of what is done, of a package that is not larger than allowed.   *)
LEMMA ProgressParses ==
  ASSUME NEW done \in Nat, job'.total \in Nat, done <= job'.total, NEW method \in {"install", "uninstall"},
         job.method = "install" => job'.m.size \in Nat /\ job'.m.size <= MaxPayload,
         NEW line, line = Progress(done)
  PROVE  line.type = "event" /\ line.id = job.id /\ ParsesEvent(method, line)
<1>1. PICK size, total :
        /\ size = IF job.method = "install" /\ done = job'.total THEN job'.m.size ELSE 0
        /\ total = IF job.method = "install" THEN job'.m.size ELSE 0
  OBVIOUS
<1>2. /\ line.type = "event" /\ line.id = job.id /\ line.event = "progress"
      /\ line.data.files = done /\ line.data.totalFiles = job'.total
      /\ line.data.size = size /\ line.data.totalSize = total
  BY <1>1 DEF Progress, EventLine
<1>3. total \in Nat /\ total <= MaxPayload /\ (size = total \/ size = 0)
  BY SMT, <1>1 DEF MaxPayload
<1>4. size <= total /\ total <= MaxSafe
  BY SMT, <1>3 DEF MaxPayload, MaxSafe
<1>5. method \in DOMAIN Phases
  BY DEF Phases
<1> HIDE DEF Progress
<1> QED BY <1>2, <1>4, <1>5 DEF ParsesEvent

LEMMA JobCounts ==
  ASSUME JobShape(job), NEW d \in Nat, NEW j, j = [job EXCEPT !.done = d]
  PROVE  /\ JobShape(j) /\ j.at = job.at /\ j.id = job.id /\ j.method = job.method /\ j.args = job.args
         /\ j.cancel = job.cancel /\ j.m = job.m /\ j.action = job.action /\ j.done = d /\ j.total = job.total
BY DEF JobShape

(* The phase after each phase.                                              *)
LEMMA Phasing ==
  /\ DOMAIN After["install"] = {"open", "validating", "verifying", "recovering", "planning", "preflight", "applying"}
  /\ DOMAIN After["uninstall"] = {"open", "recovering", "loadingReceipt", "removing"}
  /\ After["install"]["open"] = "validating" /\ After["install"]["validating"] = "verifying"
  /\ After["install"]["verifying"] = "recovering" /\ After["install"]["recovering"] = "planning"
  /\ After["install"]["planning"] = "preflight" /\ After["install"]["preflight"] = "applying"
  /\ After["install"]["applying"] = "committing"
  /\ After["uninstall"]["open"] = "recovering" /\ After["uninstall"]["recovering"] = "loadingReceipt"
  /\ After["uninstall"]["loadingReceipt"] = "removing" /\ After["uninstall"]["removing"] = "committing"
BY DEF After

(* What a worker that goes on to the next phase does to its request.        *)
LEMMA ProceedChanges ==
  ASSUME IInv, Mutating(Mutations), Proceed
  PROVE  /\ JobShape(job') /\ job'.id = job.id /\ job'.method = job.method /\ job'.args = job.args
         /\ job'.done = job.done /\ job.at \in DOMAIN After[job.method]
         /\ job'.at = After[job.method][job.at]
         /\ job'.m = (IF job.at = "open" THEN disk ELSE job.m)
         /\ job'.action = (IF job.at = "planning" THEN ActionOn(installed) ELSE job.action)
         /\ job.at = "planning" =>
              /\ job.m \in Manifests /\ ValidBundle(job.m)
              /\ job'.total \in {job.m.files, job.m.files + 1}
         /\ job.at = "loadingReceipt" => job'.total = installed.files /\ installed # NothingInstalled
         /\ job.at \notin {"planning", "loadingReceipt"} => job'.total = job.total
<1>1. /\ job.method \in {"install", "uninstall"} /\ JobShape(job) /\ job # NoJob
  BY MutationRuns DEF Mutating
<1>2. PICK obsolete \in {0, 1} :
       job' = [job EXCEPT !.at = After[job.method][job.at],
                          !.m = IF job.at = "open" THEN disk ELSE @,
                          !.action = IF job.at = "planning" THEN ActionOn(installed) ELSE @,
                          !.total = CASE job.at = "planning" -> job.m.files + obsolete
                                      [] job.at = "loadingReceipt" -> installed.files
                                      [] OTHER -> @]
  BY DEF Proceed
<1>3. PICK a, m, c, t :
        /\ a = After[job.method][job.at]
        /\ m = IF job.at = "open" THEN disk ELSE job.m
        /\ c = IF job.at = "planning" THEN ActionOn(installed) ELSE job.action
        /\ t = CASE job.at = "planning" -> job.m.files + obsolete
                 [] job.at = "loadingReceipt" -> installed.files
                 [] OTHER -> job.total
  OBVIOUS
<1>4. PICK j : j = job'
  OBVIOUS
<1>5. j = [job EXCEPT !.at = a, !.m = m, !.action = c, !.total = t]
  BY Zenon, <1>2, <1>3, <1>4
<1>6. job.at \in DOMAIN After[job.method] /\ (job.at = "loadingReceipt" => installed # NothingInstalled)
  BY DEF Proceed
<1>7. a # "idle"
  BY <1>1, <1>3, <1>6, Phasing
<1>8. job.at = "planning" => job.method = "install" /\ job.m \in Manifests /\ ValidBundle(job.m)
  BY <1>1 DEF IInv, Doing, Acting
<1>9. /\ job.at = "planning" => t \in {job.m.files, job.m.files + 1} /\ job.m.files \in Nat
      /\ job.at = "loadingReceipt" => t = installed.files /\ installed.files \in Nat
      /\ job.at \notin {"planning", "loadingReceipt"} => t = job.total
  <2>1. job.at = "planning" => job.m.files \in Nat
    BY <1>8, ManifestTypes
  <2>2. job.at = "loadingReceipt" => installed.files \in Nat
    BY <1>6, HoldingsFit
  <2>3. job.at = "planning" => t = job.m.files + obsolete
    BY <1>3
  <2>4. job.at = "planning" => t \in {job.m.files, job.m.files + 1}
    BY <2>1, <2>3
  <2>5. job.at = "loadingReceipt" => t = installed.files
    BY <1>3
  <2>6. job.at \notin {"planning", "loadingReceipt"} => t = job.total
    BY <1>3
  <2> QED BY <2>1, <2>2, <2>4, <2>5, <2>6
<1>10. t \in Nat
  <2>1. job.total \in Nat
    BY <1>1 DEF JobShape
  <2> QED BY <1>9, <2>1
<1>11. /\ JobShape(j) /\ j.at = a /\ j.id = job.id /\ j.method = job.method /\ j.args = job.args
       /\ j.cancel = job.cancel /\ j.m = m /\ j.action = c /\ j.done = job.done /\ j.total = t
  <2>1. JobShape(job)
    BY <1>1
  <2>2. a # "idle" /\ t \in Nat
    BY <1>7, <1>10
  <2> QED BY <2>1, <2>2, <1>5 DEF JobShape
<1> QED BY <1>3, <1>4, <1>6, <1>8, <1>9, <1>11

(* What was accepted on the way to the phases that change the destination.  *)
LEMMA ProceedDoing ==
  ASSUME IInv, Mutating(Mutations), Proceed
  PROVE  Doing'
<1>1. /\ job.method \in {"install", "uninstall"} /\ JobShape(job) /\ job # NoJob /\ UNCHANGED others
      /\ disk \in Manifests /\ ValidBundle(disk)
  BY MutationRuns DEF Mutating
<1>2. /\ JobShape(job') /\ job'.id = job.id /\ job'.method = job.method /\ job'.args = job.args
      /\ job'.done = job.done /\ job.at \in DOMAIN After[job.method]
      /\ job'.at = After[job.method][job.at]
      /\ job'.m = (IF job.at = "open" THEN disk ELSE job.m)
      /\ job'.action = (IF job.at = "planning" THEN ActionOn(installed) ELSE job.action)
      /\ job.at = "planning" =>
           /\ job.m \in Manifests /\ ValidBundle(job.m)
           /\ job'.total \in {job.m.files, job.m.files + 1}
      /\ job.at = "loadingReceipt" => job'.total = installed.files /\ installed # NothingInstalled
      /\ job.at \notin {"planning", "loadingReceipt"} => job'.total = job.total
  BY ProceedChanges
<1>3. UNCHANGED <<disk, installed, tree>> /\ Opens /\ Wrong = {}
  BY DEF Proceed
<1>4. job.done \in Nat /\ job.total \in Nat /\ job.done <= job.total
      /\ (job.at \in {"removing"} \cup Acting => job.total > 0)
      /\ (job.at \notin {"removing"} \cup Acting => job.total = 0)
  BY <1>1 DEF IInv, Doing, JobShape
<1>5. job'.done <= job'.total /\ (job'.at \in {"removing"} \cup Acting => job'.total > 0)
      /\ (job'.at \notin {"removing"} \cup Acting => job'.total = 0)
  <2>1. CASE job.at = "planning"
    <3>1. job.method = "install" /\ job'.at = "preflight" /\ job.done = 0
      BY <1>1, <1>2, <1>4, <2>1, Phasing DEF Acting
    <3>2. job.m.files \in Nat /\ job.m.files # 0
      <4>1. job.m.files \in 1 .. MaxFiles /\ job.m.files \in Nat
        BY <1>2, <2>1, ManifestTypes DEF ValidBundle, ValidManifest
      <4> QED BY <4>1, MaxFilesType
    <3> QED BY <1>2, <2>1, <3>1, <3>2 DEF Acting
  <2>2. CASE job.at = "loadingReceipt"
    <3>1. job.method = "uninstall" /\ job'.at = "removing" /\ job.done = 0
      BY <1>1, <1>2, <1>4, <2>2, Phasing DEF Acting
    <3>2. installed.files \in Nat \ {0}
      BY <1>2, <2>2, HoldingsFit
    <3> QED BY <1>2, <2>2, <3>1, <3>2 DEF Acting
  <2>3. CASE job.at \notin {"planning", "loadingReceipt"}
    <3>1. job'.total = job.total
      BY <1>2, <2>3
    <3>2. job'.at \in {"removing"} \cup Acting <=> job.at \in {"removing"} \cup Acting
      BY <1>1, <1>2, <2>3, Phasing DEF Acting
    <3> QED BY <1>2, <1>4, <3>1, <3>2
  <2> QED BY <2>1, <2>2, <2>3
<1>6. CASE job.method = "uninstall"
  <2>1. job'.at \in {"recovering", "loadingReceipt", "removing", "committing"}
    BY <1>2, <1>6, Phasing
  <2> QED BY <1>2, <1>5, <1>6, <2>1 DEF Doing, Mutations, SetupAsks, Acting
<1>7. CASE job.method = "install"
  <2>1. job'.at \in {"validating", "verifying", "recovering", "planning"} \cup Acting
    BY <1>2, <1>7, Phasing DEF Acting
  <2>2. /\ job'.m \in Manifests /\ ValidBundle(job'.m)
        /\ job'.m.print = job'.args.expectedFingerprint
        /\ job'.m.signer = None => job'.args.allowUnsigned
        /\ others' = 0 => job'.m = disk'
    <3>1. CASE job.at = "open"
      BY <1>1, <1>2, <1>3, <1>7, <3>1 DEF Opens
    <3>2. CASE job.at # "open"
      BY <1>1, <1>2, <1>3, <1>7, <3>2 DEF IInv, Doing
    <3> QED BY <3>1, <3>2
  <2>3. job'.at \notin {"open", "validating"} /\ job'.m.license # Absent => job'.args.acceptLicense
    <3>1. CASE job.at = "open"
      BY <1>2, <1>7, <3>1, Phasing
    <3>2. CASE job.at = "validating"
      <4>1. job.m.license # Absent => job.args.acceptLicense
        BY <1>3, <3>2 DEF Wrong
      <4> QED BY <1>2, <3>2, <4>1
    <3>3. CASE job.at \notin {"open", "validating"}
      BY <1>1, <1>2, <1>7, <3>3 DEF IInv, Doing
    <3> QED BY <3>1, <3>2, <3>3
  <2>4. job'.at \in Acting => /\ installed'.migrate => job'.args.allowPublisherMigration
                              /\ installed'.order \notin {"newer", "other"}
                              /\ job'.action = ActionOn(installed')
    <3>1. CASE job.at \in {"open", "validating", "verifying", "recovering"}
      BY <1>2, <1>7, <3>1, Phasing DEF Acting
    <3>2. CASE job.at = "planning"
      <4>1. ~job.args.allowDowngrade
        BY <1>1, <1>7 DEF IInv, JobFits
      <4>2. AssessErrors(job.m, installed, job.args.allowPublisherMigration,
                         job.args.allowDowngrade /\ job.m.lower) = {}
        BY <1>3, <3>2 DEF Wrong
      <4>3. /\ installed.migrate => job.args.allowPublisherMigration
            /\ installed.order \notin {"newer", "other"}
        BY <4>1, <4>2 DEF AssessErrors
      <4> QED BY <1>2, <1>3, <3>2, <4>3
    <3>3. CASE job.at \in Acting
      <4>1. /\ installed.migrate => job.args.allowPublisherMigration
            /\ installed.order \notin {"newer", "other"}
            /\ job.action = ActionOn(installed)
        BY <1>1, <1>7, <3>3 DEF IInv, Doing
      <4> QED BY <1>2, <1>3, <3>3, <4>1 DEF Acting
    <3> QED BY <1>2, <1>7, <3>1, <3>2, <3>3, Phasing DEF Acting
  <2>5. job'.method = "install"
    BY <1>2, <1>7
  <2>6. ActionOn(installed)' = ActionOn(installed')
    BY DEF ActionOn
  <2>7. job'.method \in SetupAsks \cup ProjectAsks /\ job'.method \in Mutations
    BY <2>5 DEF SetupAsks, Mutations
  <2> HIDE DEF Mutating
  <2> QED BY <1>5, <2>1, <2>2, <2>3, <2>4, <2>5, <2>6, <2>7 DEF Doing
<1> QED BY <1>1, <1>6, <1>7

LEMMA ProceedKeeps ==
  ASSUME IInv, Mutating(Mutations), Proceed
  PROVE  IInv'
<1>1. /\ job.method \in {"install", "uninstall"} /\ JobShape(job) /\ job # NoJob /\ job.method \in Mutations
      /\ UNCHANGED <<shell, client, requests, server, others>>
  BY MutationRuns DEF Mutating, Mutations
<1>2. UNCHANGED <<disk, installed, tree>> /\ Wrong = {}
      /\ Write(CASE job.at = "planning" ->
                  <<EventLine(job.id, "action", [action |-> job'.action]), Progress(0)>>
             [] job.at = "loadingReceipt" -> <<Progress(0), PhaseLine("removing")>>
             [] OTHER -> <<PhaseLine(job'.at)>>)
  BY DEF Proceed
<1>3. /\ JobShape(job') /\ job'.id = job.id /\ job'.method = job.method /\ job'.args = job.args
      /\ job'.done = job.done /\ job.at \in DOMAIN After[job.method]
      /\ job'.at = After[job.method][job.at]
      /\ job'.m = (IF job.at = "open" THEN disk ELSE job.m)
      /\ job'.action = (IF job.at = "planning" THEN ActionOn(installed) ELSE job.action)
      /\ job.at = "planning" => job.m \in Manifests /\ ValidBundle(job.m)
  BY ProceedChanges
<1>4. Doing' /\ job'.total \in Nat
  BY <1>3, ProceedDoing DEF JobShape
<1>5. PICK a, b, p :
        /\ a = EventLine(job.id, "action", [action |-> job'.action])
        /\ b = Progress(0)
        /\ p = PhaseLine(IF job.at = "loadingReceipt" THEN "removing" ELSE job'.at)
  OBVIOUS
<1>6. job.method = "install" /\ job.at = "planning" => job'.m.size \in Nat /\ job'.m.size <= MaxPayload
  <2>1. ASSUME NEW m \in Manifests, ValidBundle(m) PROVE m.size \in Nat /\ m.size <= MaxPayload
    BY <2>1, ManifestTypes DEF ValidBundle, ValidManifest
  <2> QED BY <1>3, <2>1
<1>7. job.at \in {"planning", "loadingReceipt"} => b.type = "event" /\ b.id = job.id /\ ParsesEvent(job.method, b)
  <2>1. job.at = "loadingReceipt" => job.method = "uninstall"
    BY <1>1 DEF IInv, Doing, Acting
  <2>2. 0 \in Nat /\ 0 <= job'.total
    BY <1>4
  <2> QED BY <1>1, <1>4, <1>5, <1>6, <2>1, <2>2, ProgressParses
<1>8. job.at = "planning" => a.type = "event" /\ a.id = job.id /\ ParsesEvent(job.method, a)
  <2>1. SUFFICES ASSUME job.at = "planning" PROVE a.type = "event" /\ a.id = job.id /\ ParsesEvent(job.method, a)
    OBVIOUS
  <2>2. job.method = "install" /\ job'.at = "preflight"
    BY <1>1, <1>3, <2>1, Phasing
  <2>3. job'.action = ActionOn(installed) /\ installed.order \notin {"newer", "other"}
    <3>1. installed'.order \notin {"newer", "other"}
      <4>1. job' # NoJob
        BY <1>3 DEF JobShape, NoJob
      <4> QED BY <1>3, <1>4, <2>2, <4>1 DEF Doing, Acting
    <3> QED BY <1>2, <1>3, <2>1, <3>1
  <2>4. job'.action \in Actions
    BY <2>3 DEF ActionOn, Actions
  <2>5. a.type = "event" /\ a.id = job.id /\ a.event = "action" /\ a.data.action = job'.action
    BY <1>5 DEF EventLine
  <2> QED BY <2>2, <2>4, <2>5 DEF ParsesEvent
<1>9. job.at # "planning" => p.type = "event" /\ p.id = job.id /\ ParsesEvent(job.method, p)
  <2>1. ASSUME job.at # "planning"
        PROVE  (IF job.at = "loadingReceipt" THEN "removing" ELSE job'.at) \in Phases[job.method]
    <3>1. CASE job.method = "install"
      BY <1>3, <2>1, <3>1, Phasing DEF Phases
    <3>2. CASE job.method = "uninstall"
      BY <1>3, <2>1, <3>2, Phasing DEF Phases
    <3> QED BY <1>1, <3>1, <3>2
  <2> QED BY <1>1, <1>5, <2>1, PhaseParses
<1>10. PICK more : more = CASE job.at = "planning" -> <<a, b>>
                            [] job.at = "loadingReceipt" -> <<b, p>>
                            [] OTHER -> <<p>>
  OBVIOUS
<1>11. Write(more)
  <2>1. CASE job.at = "planning"
    BY <1>2, <1>5, <1>10, <2>1
  <2>2. CASE job.at = "loadingReceipt"
    BY <1>2, <1>5, <1>10, <2>2
  <2>3. CASE job.at \notin {"planning", "loadingReceipt"}
    BY <1>2, <1>5, <1>10, <2>3
  <2> QED BY <2>1, <2>2, <2>3
<1>12. Lined(more) /\ \A k \in DOMAIN more :
         more[k].id = job.id /\ more[k].type = "event" /\ ParsesEvent(job.method, more[k])
  <2>1. CASE job.at = "planning"
    <3>1. Lined(more) /\ Len(more) = 2 /\ more[1] = a /\ more[2] = b
      BY <1>10, <2>1, LinedTwo
    <3>2. DOMAIN more = 1 .. 2
      BY <3>1, LinedLen
    <3> QED BY <1>7, <1>8, <2>1, <3>1, <3>2
  <2>2. CASE job.at = "loadingReceipt"
    <3>1. Lined(more) /\ Len(more) = 2 /\ more[1] = b /\ more[2] = p
      BY <1>10, <2>2, LinedTwo
    <3>2. DOMAIN more = 1 .. 2
      BY <3>1, LinedLen
    <3> QED BY <1>7, <1>9, <2>2, <3>1, <3>2
  <2>3. CASE job.at \notin {"planning", "loadingReceipt"}
    <3>1. Lined(more) /\ Len(more) = 1 /\ more[1] = p
      BY <1>10, <2>3, LinedOne
    <3>2. DOMAIN more = 1 .. 1
      BY <3>1, LinedLen
    <3> QED BY <1>9, <2>3, <3>1, <3>2
  <2> QED BY <2>1, <2>2, <2>3
<1> HIDE DEF Mutating
<1> QED BY <1>1, <1>2, <1>3, <1>4, <1>11, <1>12, WorkerGoes

LEMMA WorkKeeps ==
  ASSUME IInv, Mutating(Mutations), Work
  PROVE  IInv'
<1>1. /\ job.method \in {"install", "uninstall"} /\ JobShape(job) /\ job # NoJob /\ job.method \in Mutations
      /\ UNCHANGED <<shell, client, requests, server, others>>
  BY MutationRuns DEF Mutating, Mutations
<1>2. /\ job.at \in {"applying", "removing"} /\ UNCHANGED <<disk, installed, tree>>
      /\ Write(<<Progress(job'.done)>>)
  BY DEF Work
<1>3. PICK d \in {1, job.total} : d > job.done /\ job' = [job EXCEPT !.done = d]
  BY DEF Work
<1>4. job.total \in Nat /\ job.total > 0 /\ d \in Nat /\ d <= job.total
  <2>1. job.total \in Nat /\ job.total > 0
    BY <1>1, <1>2 DEF IInv, Doing, Acting, JobShape
  <2> QED BY <1>3, <2>1
<1>5. PICK j : j = job'
  OBVIOUS
<1>6. j = [job EXCEPT !.done = d]
  BY Zenon, <1>3, <1>5
<1>7. /\ JobShape(j) /\ j.at = job.at /\ j.id = job.id /\ j.method = job.method /\ j.args = job.args
      /\ j.cancel = job.cancel /\ j.m = job.m /\ j.action = job.action /\ j.done = d /\ j.total = job.total
  <2>1. JobShape(job) /\ d \in Nat
    BY <1>1, <1>4
  <2> QED BY Zenon, <2>1, <1>6, JobCounts
<1>8. Doing'
  <2>1. j.done <= j.total
    BY <1>4, <1>7
  <2>2. ActionOn(installed)' = ActionOn(installed)
    BY <1>2 DEF ActionOn
  <2> QED BY <1>1, <1>2, <1>5, <1>7, <2>1, <2>2 DEF IInv, Doing
<1>9. PICK b : b = Progress(d)
  OBVIOUS
<1>10. b.type = "event" /\ b.id = job.id /\ ParsesEvent(job.method, b)
  <2>1. job.method = "install" => job'.m.size \in Nat /\ job'.m.size <= MaxPayload
    <3>1. ASSUME NEW m \in Manifests, ValidBundle(m) PROVE m.size \in Nat /\ m.size <= MaxPayload
      BY <3>1, ManifestTypes DEF ValidBundle, ValidManifest
    <3>2. job.method = "install" => job.m \in Manifests /\ ValidBundle(job.m)
      BY <1>1, <1>2 DEF IInv, Doing
    <3> QED BY <1>5, <1>7, <3>1, <3>2
  <2>2. job'.total \in Nat /\ d <= job'.total
    BY <1>4, <1>5, <1>7
  <2> QED BY <1>1, <1>4, <1>9, <2>1, <2>2, ProgressParses
<1>11. PICK more : more = <<b>>
  OBVIOUS
<1>12. Write(more)
  BY <1>2, <1>5, <1>7, <1>9, <1>11
<1>13. Lined(more) /\ \A k \in DOMAIN more :
         more[k].id = job.id /\ more[k].type = "event" /\ ParsesEvent(job.method, more[k])
  <2>1. Lined(more) /\ Len(more) = 1 /\ more[1] = b
    BY <1>11, LinedOne
  <2>2. DOMAIN more = 1 .. 1
    BY <2>1, LinedLen
  <2> QED BY <1>10, <2>1, <2>2
<1>14. JobShape(job') /\ job'.id = job.id /\ job'.method = job.method /\ job'.args = job.args
  BY <1>5, <1>7
<1> QED BY <1>1, <1>2, <1>8, <1>12, <1>13, <1>14, WorkerGoes

LEMMA WorkerKeeps ==
  ASSUME IInv, WorkerStep
  PROVE  IInv'
<1>1. CASE Inspect
  BY <1>1, InspectKeeps
<1>2. CASE Prepare
  BY <1>2, PrepareKeeps
<1>3. CASE Launch
  BY <1>3, LaunchKeeps
<1>4. CASE Project
  BY <1>4, ProjectKeeps
<1>5. CASE Mutate
  <2>1. Mutating(Mutations)
    BY <1>5 DEF Mutate, Job, Mutating
  <2> QED BY <1>5, <2>1, RefusesKeep, RefuseKeeps, CancelEarlyKeeps, ProceedKeeps, WorkKeeps, RollBackKeeps,
             FinishKeeps, NothingToRemoveKeeps, PanicKeeps DEF Mutate
<1> QED BY <1>1, <1>2, <1>3, <1>4, <1>5 DEF WorkerStep

-----------------------------------------------------------------------------
(* The server decodes.                                                      *)

LEMMA StartKeeps ==
  ASSUME IInv, ServerStarts
  PROVE  IInv'
<1>1. /\ server = "down" /\ UNCHANGED <<disk, installed, others, shell, client, requests, job, tree>>
      /\ IF KeyLoads(shell.key)
           THEN server' = "up" /\ UNCHANGED lines
           ELSE /\ server' = "exited"
                /\ Write(<<ErrorLine(0, "trusted_publisher_key_invalid")>>)
  BY DEF ServerStarts, world
<1>2. lines = <<>> /\ client.up /\ job = NoJob /\ shell.at = "new" /\ tree = "before"
  BY <1>1 DEF IInv, ServerFits
<1>3. PICK e : e = ErrorLine(0, "trusted_publisher_key_invalid")
  OBVIOUS
<1>4. ~KeyLoads(shell.key) => lines' = <<e>>
  BY <1>1, <1>2, <1>3 DEF Write
<1>5. Lined(lines')
  <2>1. Lined(<<e>>) /\ Lined(lines)
    BY LinedOne DEF IInv, Shaped
  <2> QED BY <1>1, <1>4, <2>1
<1>6. Shaped'
  BY <1>1, <1>2, <1>5 DEF IInv, Shaped
<1>7. ServerFits'
  BY <1>1, <1>2, <1>3, <1>4 DEF ServerFits
<1>8. Flow'
  BY <1>1, <1>2 DEF IInv, Flow, KindOf, Mutations
<1>9. Ordering' /\ Answers'
  <2>1. CASE KeyLoads(shell.key)
    <3>1. DOMAIN lines' = {}
      BY <1>1, <1>2, <2>1
    <3> QED BY <1>1, <1>2, <3>1 DEF Ordering, Answers
  <2>2. CASE ~KeyLoads(shell.key)
    BY <1>1, <2>2 DEF Ordering, Answers
  <2> QED BY <2>1, <2>2
<1>10. Asks'
  <2>1. ASSUME NEW i \in DOMAIN requests'
        PROVE  /\ requests'[i].method \in SetupAsks \cup ProjectAsks \cup {"cancel"}
               /\ ParamsFit(requests[i].method, requests[i].params)'
    <3>1. PICK r : r = requests[i]
      OBVIOUS
    <3>2. r.method \in SetupAsks \cup ProjectAsks \cup {"cancel"} /\ ParamsFit(r.method, r.params)
      BY <1>1, <3>1 DEF IInv, Asks
    <3>3. ParamsFit(r.method, r.params)'
      BY <1>1, <3>2, ParamsFrame
    <3> QED BY <1>1, <3>1, <3>2, <3>3
  <2> QED BY <2>1 DEF Asks
<1>11. JobFits' /\ Doing'
  BY <1>1, <1>2 DEF JobFits, Doing
<1>12. AtFits' /\ FailureIsTold'
  BY <1>1 DEF IInv, AtFits, FailureIsTold
<1>13. Reviewed'
  BY <1>1, <1>2 DEF Reviewed
<1>14. AnswersAreAccepted'
  BY <1>1 DEF IInv, AnswersAreAccepted, Disagreement
<1> QED BY <1>6, <1>7, <1>8, <1>9, <1>10, <1>11, <1>12, <1>13, <1>14 DEF IInv

(* The oldest request is taken, the others are of other ids.                *)
LEMMA Taken ==
  ASSUME IInv, NEW q, Takes(q)
  PROVE  /\ server = "up" /\ client.up /\ UNCHANGED <<disk, installed, others, shell, client, server>>
         /\ Lined(requests') /\ Lined(lines) /\ 1 \in DOMAIN requests /\ q = requests[1]
         /\ \A j \in DOMAIN requests' :
              j + 1 \in DOMAIN requests /\ requests'[j] = requests[j + 1] /\ requests'[j].id # q.id
         /\ q.id \in {shell.id, shell.cancel} \ {0} /\ shell.id # shell.cancel
         /\ q.method = "cancel" <=> q.id = shell.cancel
         /\ q.id = shell.id => q.method = shell.last
         /\ q.method \in SetupAsks \cup ProjectAsks \cup {"cancel"} /\ ParamsFit(q.method, q.params)
         /\ job # NoJob => q.id # shell.id
         /\ \A i \in DOMAIN lines : Settles(lines[i]) => lines[i].id # q.id
<1>1. /\ server = "up" /\ requests # <<>> /\ q = Head(requests) /\ requests' = Tail(requests)
      /\ UNCHANGED <<disk, installed, others, shell, client, server>>
  BY DEF Takes, world
<1>2. client.up /\ Lined(requests) /\ Lined(lines)
  BY <1>1 DEF IInv, ServerFits, Shaped
<1>3. /\ Lined(requests') /\ Len(requests) > 0 /\ Len(requests') = Len(requests) - 1 /\ q = requests[1]
      /\ \A i \in 1 .. Len(requests') : requests'[i] = requests[i + 1]
  BY <1>1, <1>2, LinedTail
<1>4. Len(requests) \in Nat /\ DOMAIN requests = 1 .. Len(requests) /\ DOMAIN requests' = 1 .. Len(requests')
  BY <1>2, <1>3, LinedLen
<1>5. 1 \in DOMAIN requests
  BY <1>3, <1>4
<1>6. \A j \in DOMAIN requests' : j + 1 \in DOMAIN requests /\ requests'[j] = requests[j + 1] /\ j + 1 # 1
  BY <1>3, <1>4
<1>7. /\ \A i, j \in DOMAIN requests : requests[i].id = requests[j].id => i = j
      /\ requests[1].id \in {shell.id, shell.cancel} \ {0}
      /\ requests[1].method = "cancel" <=> requests[1].id = shell.cancel
      /\ requests[1].id = shell.id => requests[1].method = shell.last
      /\ job # NoJob => requests[1].id # shell.id
      /\ shell.id = 0 \/ shell.id # shell.cancel
  BY <1>2, <1>5 DEF IInv, Flow
<1>8. \A j \in DOMAIN requests' : requests'[j].id # q.id
  BY <1>3, <1>5, <1>6, <1>7
<1>9. shell.id # shell.cancel
  <2>1. CASE shell.id = 0
    BY <1>7, <2>1
  <2> QED BY <1>7, <2>1
<1>10. q.method \in SetupAsks \cup ProjectAsks \cup {"cancel"} /\ ParamsFit(q.method, q.params)
  BY <1>3, <1>5 DEF IInv, Asks
<1>11. \A i \in DOMAIN lines : Settles(lines[i]) => lines[i].id # q.id
  BY <1>1, <1>3, <1>5 DEF IInv, Ordering
<1> QED BY <1>1, <1>2, <1>3, <1>5, <1>6, <1>7, <1>8, <1>9, <1>10, <1>11

LEMMA TakenFrame ==
  ASSUME IInv, NEW q, Takes(q),
         job' # NoJob => /\ job'.id = shell.id /\ job'.method = shell.last
                         /\ job # NoJob \/ q.id = shell.id
  PROVE  ServerFits' /\ Flow' /\ Asks' /\ AnswersAreAccepted'
<1>1. /\ server = "up" /\ client.up /\ UNCHANGED <<disk, installed, others, shell, client, server>>
      /\ 1 \in DOMAIN requests /\ q = requests[1]
      /\ \A j \in DOMAIN requests' :
           j + 1 \in DOMAIN requests /\ requests'[j] = requests[j + 1] /\ requests'[j].id # q.id
      /\ q.id # 0
      /\ Lined(requests')
  BY Taken
<1>2. ServerFits'
  BY <1>1 DEF IInv, ServerFits
<1>3. /\ \A i \in DOMAIN requests :
           /\ requests[i].id \in {shell.id, shell.cancel} \ {0}
           /\ requests[i].method = "cancel" <=> requests[i].id = shell.cancel
           /\ requests[i].id = shell.id => requests[i].method = shell.last
      /\ \A i, j \in DOMAIN requests : requests[i].id = requests[j].id => i = j
      /\ job # NoJob => job.id = shell.id /\ job.id # 0 /\ \A i \in DOMAIN requests : requests[i].id # job.id
  BY <1>1 DEF IInv, Flow
<1>4. /\ \A i \in DOMAIN requests' :
           /\ requests'[i].id \in {shell.id, shell.cancel} \ {0}
           /\ requests'[i].method = "cancel" <=> requests'[i].id = shell.cancel
           /\ requests'[i].id = shell.id => requests'[i].method = shell.last
  BY <1>1, <1>3
<1>5. ASSUME NEW i \in DOMAIN requests', NEW j \in DOMAIN requests', requests'[i].id = requests'[j].id
      PROVE  i = j
  <2>1. i \in Int /\ j \in Int
    BY <1>1, LinedLen
  <2>2. i + 1 = j + 1
    BY <1>1, <1>3, <1>5
  <2> QED BY <2>1, <2>2
<1>6. job' # NoJob => /\ job'.id = shell.id /\ job'.id # 0 /\ job'.method = shell.last
                      /\ \A i \in DOMAIN requests' : requests'[i].id # job'.id
  BY <1>1, <1>3
<1>7. KindOf(shell.last)' = KindOf(shell.last)
  BY <1>1 DEF KindOf, Mutations
<1>8. Flow'
  <2>1. /\ shell'.id < client'.next /\ shell'.cancel < client'.next
        /\ shell'.id = 0 \/ shell'.id # shell'.cancel
        /\ \A p \in client'.pending : /\ p.id \in 1 .. client'.next - 1
                                      /\ p.id = shell'.id => p.kind = KindOf(shell.last)
        /\ \A id \in {shell'.id, shell'.cancel} \ {0} : \E p \in client'.pending : p.id = id
    BY <1>1 DEF IInv, Flow
  <2>2. \A i, j \in DOMAIN requests' : requests'[i].id = requests'[j].id => i = j
    BY <1>5
  <2>3. /\ \A i \in DOMAIN requests' :
           /\ requests'[i].id \in {shell'.id, shell'.cancel} \ {0}
           /\ requests'[i].method = "cancel" <=> requests'[i].id = shell'.cancel
           /\ requests'[i].id = shell'.id => requests'[i].method = shell'.last
    BY <1>1, <1>4
  <2>4. job' # NoJob => /\ job'.id = shell'.id /\ job'.id # 0 /\ job'.method = shell'.last
                        /\ \A i \in DOMAIN requests' : requests'[i].id # job'.id
    BY <1>1, <1>6
  <2> QED BY <1>7, <2>1, <2>2, <2>3, <2>4 DEF Flow
<1>9. Asks'
  <2>1. ASSUME NEW i \in DOMAIN requests'
        PROVE  /\ requests'[i].method \in SetupAsks \cup ProjectAsks \cup {"cancel"}
               /\ ParamsFit(requests[i].method, requests[i].params)'
    <3>1. PICK r : r = requests[i + 1]
      OBVIOUS
    <3>2. r.method \in SetupAsks \cup ProjectAsks \cup {"cancel"} /\ ParamsFit(r.method, r.params)
      BY <1>1, <3>1 DEF IInv, Asks
    <3>3. ParamsFit(r.method, r.params)'
      BY <1>1, <3>2, ParamsFrame
    <3>4. requests'[i] = r
      BY <1>1, <3>1
    <3> QED BY <3>2, <3>3, <3>4
  <2> QED BY <2>1 DEF Asks
<1>10. AnswersAreAccepted'
  BY <1>1 DEF IInv, AnswersAreAccepted, Disagreement
<1> QED BY <1>2, <1>8, <1>9, <1>10

(* A request that is answered at once.                                      *)
LEMMA TakenAnswered ==
  ASSUME IInv, NEW q, Takes(q), NEW e, Write(<<e>>), e.id = q.id, Settles(e), LineFits(e)', UNCHANGED tree,
         job' = job \/ (/\ job # NoJob /\ JobShape(job') /\ job'.at = job.at /\ job'.id = job.id
                        /\ job'.method = job.method /\ job'.args = job.args /\ job'.m = job.m
                        /\ job'.action = job.action /\ job'.done = job.done /\ job'.total = job.total)
  PROVE  IInv'
<1>1. /\ server = "up" /\ client.up /\ UNCHANGED <<disk, installed, others, shell, client, server>>
      /\ 1 \in DOMAIN requests /\ q = requests[1]
      /\ \A j \in DOMAIN requests' :
           j + 1 \in DOMAIN requests /\ requests'[j] = requests[j + 1] /\ requests'[j].id # q.id
      /\ Lined(requests') /\ Lined(lines)
      /\ q.id \in {shell.id, shell.cancel} \ {0} /\ shell.id # shell.cancel
      /\ job # NoJob => q.id # shell.id
      /\ \A i \in DOMAIN lines : Settles(lines[i]) => lines[i].id # q.id
  BY Taken
<1>2. job # NoJob => /\ job.id = shell.id /\ job.method = shell.last /\ JobShape(job)
                     /\ \A i \in DOMAIN lines : Settles(lines[i]) => lines[i].id # job.id
  BY WorkerRuns
<1>3. /\ job' # NoJob => job # NoJob /\ job'.id = shell.id /\ job'.method = shell.last
      /\ job # NoJob => /\ job'.at = job.at /\ job'.id = job.id
                        /\ job'.method = job.method /\ job'.args = job.args /\ job'.m = job.m
                        /\ job'.action = job.action /\ job'.done = job.done /\ job'.total = job.total
      /\ job = NoJob => job' = NoJob
  BY <1>2
<1>4. ServerFits' /\ Flow' /\ Asks' /\ AnswersAreAccepted'
  BY <1>3, TakenFrame
<1>5. PICK more : more = <<e>>
  OBVIOUS
<1>6. /\ Lined(more) /\ Len(more) = 1 /\ more[1] = e /\ DOMAIN more = 1 .. 1 /\ Write(more)
  <2>1. Lined(more) /\ Len(more) = 1 /\ more[1] = e
    BY <1>5, LinedOne
  <2> QED BY <1>5, <2>1, LinedLen
<1>7. /\ Lined(lines') /\ Len(lines') = Len(lines) + 1 /\ Len(lines) \in Nat
      /\ \A i \in 1 .. Len(lines) : i \in DOMAIN lines /\ i \in DOMAIN lines' /\ lines'[i] = lines[i]
      /\ \A i \in DOMAIN lines' : (i \in DOMAIN lines /\ lines'[i] = lines[i]) \/ lines'[i] = e
  <2>1. /\ Lined(lines') /\ Len(lines') = Len(lines) + Len(more) /\ Len(lines) \in Nat
        /\ \A i \in 1 .. Len(lines) : i \in DOMAIN lines /\ i \in DOMAIN lines' /\ lines'[i] = lines[i]
        /\ \A i \in DOMAIN lines' :
             \/ i \in DOMAIN lines /\ i <= Len(lines) /\ lines'[i] = lines[i]
             \/ i > Len(lines) /\ i - Len(lines) \in DOMAIN more /\ lines'[i] = more[i - Len(lines)]
    BY <1>1, <1>6, Written
  <2>2. \A k \in DOMAIN more : more[k] = e
    BY <1>6
  <2> QED BY <1>6, <2>1, <2>2
<1>8. Ordering'
  <2>1. PICK id : id = q.id
    OBVIOUS
  <2>2. server # "exited" /\ server' = server /\ UNCHANGED shell /\ id \in {shell.id, shell.cancel} \ {0}
    BY <1>1, <2>1
  <2>3. /\ \A k \in DOMAIN more : more[k].id = id
        /\ \A i \in DOMAIN lines : Settles(lines[i]) => lines[i].id # id
        /\ \A k \in DOMAIN more : Settles(more[k]) => k = Len(more)
        /\ \A k \in DOMAIN more : ~Settles(more[k]) => id = shell.id
    BY <1>1, <1>6, <2>1
  <2>4. \A j \in DOMAIN requests' : \E i \in DOMAIN requests : requests'[j] = requests[i]
    BY <1>1
  <2>5. (\A j \in DOMAIN requests' : requests'[j].id # id) /\ (job' # NoJob => job'.id # id)
    BY <1>1, <1>3, <2>1
  <2>6. job' # NoJob => \A i \in DOMAIN lines : Settles(lines[i]) => lines[i].id # job'.id
    BY <1>2, <1>3
  <2> QED BY <1>6, <2>2, <2>3, <2>4, <2>5, <2>6, LinesGrow
<1>9. Shaped'
  <2>1. job' = NoJob \/ JobShape(job')
    BY <1>2
  <2> QED BY <1>1, <1>7, <2>1 DEF IInv, Shaped
<1>10. JobFits'
  <2>1. CASE job = NoJob
    BY <1>3, <2>1 DEF JobFits
  <2>2. CASE job # NoJob
    BY <1>1, <1>3, <2>2 DEF IInv, JobFits
  <2> QED BY <2>1, <2>2
<1>11. Doing'
  <2>1. CASE job = NoJob
    BY <1>3, <2>1 DEF Doing
  <2>2. CASE job # NoJob
    <3>1. ActionOn(installed)' = ActionOn(installed)
      BY <1>1 DEF ActionOn
    <3> QED BY <1>1, <1>3, <2>2, <3>1 DEF IInv, Doing
  <2> QED BY <2>1, <2>2
<1>12. AtFits' /\ FailureIsTold'
  BY <1>1 DEF IInv, AtFits, FailureIsTold
<1>13. Answers'
  <2>1. ASSUME NEW i \in DOMAIN lines' PROVE LineFits(lines[i])'
    <3>1. PICK l : l = lines'[i]
      OBVIOUS
    <3>2. CASE l = e
      BY <3>1, <3>2
    <3>3. CASE i \in DOMAIN lines /\ l = lines[i]
      <4>1. LineFits(l)
        BY <1>1, <3>3 DEF IInv, Answers
      <4>2. LineFits(l)'
        BY <1>1, <4>1, LineFrame
      <4> QED BY <3>1, <4>2
    <3> QED BY <1>7, <3>1, <3>2, <3>3
  <2> QED BY <2>1 DEF Answers
<1>14. Reviewed'
  <2>1. Applied => Applied'
    <3>1. DOMAIN lines = 1 .. Len(lines)
      BY <1>1, LinedLen
    <3> QED BY <1>1, <1>7, <3>1 DEF Applied
  <2> QED BY <1>1, <2>1 DEF IInv, Reviewed, Alike, ActionOn
<1> QED BY <1>4, <1>8, <1>9, <1>10, <1>11, <1>12, <1>13, <1>14 DEF IInv

LEMMA CancelHandled ==
  ASSUME IInv, HandleCancel
  PROVE  IInv'
<1>1. PICK q, hits : /\ q = Head(requests)
                     /\ hits = (job # NoJob /\ job.id = q.params.requestId /\ job.method # "launch")
  OBVIOUS
<1>2. /\ Takes(q) /\ q.method = "cancel"
      /\ IF ~Decodes(q)
           THEN RequestFails("invalid_params")
           ELSE /\ Write(<<ResultLine(q.id, [requestId |-> q.params.requestId, accepted |-> hits])>>)
                /\ job' = IF hits THEN [job EXCEPT !.cancel = TRUE] ELSE job
                /\ UNCHANGED tree
  BY <1>1 DEF HandleCancel
<1>3. q.id = shell.cancel /\ shell.id # shell.cancel /\ UNCHANGED shell
  BY <1>2, Taken
<1>4. ASSUME NEW e, e.id = q.id, e.type = "result" \/ (e.type = "error" /\ e.message = Bounded(SystemText))
      PROVE  LineFits(e)' /\ Settles(e)
  BY <1>3, <1>4 DEF LineFits, Settles
<1>5. CASE ~Decodes(q)
  <2>1. PICK e : e = ErrorLine(q.id, "invalid_params")
    OBVIOUS
  <2>2. Write(<<e>>) /\ UNCHANGED <<job, tree>>
    BY <1>1, <1>2, <1>5, <2>1 DEF RequestFails
  <2>3. e.id = q.id /\ e.type = "error" /\ e.message = Bounded(SystemText)
    BY <2>1 DEF ErrorLine
  <2> QED BY <1>2, <1>4, <2>2, <2>3, TakenAnswered
<1>6. CASE Decodes(q)
  <2>1. PICK e : e = ResultLine(q.id, [requestId |-> q.params.requestId, accepted |-> hits])
    OBVIOUS
  <2>2. Write(<<e>>) /\ UNCHANGED tree /\ job' = IF hits THEN [job EXCEPT !.cancel = TRUE] ELSE job
    BY <1>2, <1>6, <2>1
  <2>3. e.id = q.id /\ e.type = "result"
    BY <2>1 DEF ResultLine
  <2>4. CASE hits
    <3>1. job # NoJob /\ JobShape(job)
      BY <1>1, <2>4, WorkerRuns
    <3>2. PICK j : j = job'
      OBVIOUS
    <3>3. j = [job EXCEPT !.cancel = TRUE]
      BY <2>2, <2>4, <3>2
    <3>4. /\ JobShape(j) /\ j.at = job.at /\ j.id = job.id /\ j.method = job.method /\ j.args = job.args
          /\ j.m = job.m /\ j.action = job.action /\ j.done = job.done /\ j.total = job.total
      BY <3>1, <3>3 DEF JobShape
    <3>5. LineFits(e)' /\ Settles(e)
      BY <1>4, <2>3
    <3> QED BY <1>2, <2>2, <2>3, <3>1, <3>2, <3>4, <3>5, TakenAnswered
  <2>5. CASE ~hits
    <3>1. job' = job
      BY <2>2, <2>5
    <3>2. LineFits(e)' /\ Settles(e)
      BY <1>4, <2>3
    <3> QED BY <1>2, <2>2, <2>3, <3>1, <3>2, TakenAnswered
  <2> QED BY <2>4, <2>5
<1> QED BY <1>5, <1>6

(* What the engine is told is what the user agreed to.                      *)
LEMMA DecodedArgs ==
  ASSUME IInv, NEW q, q.method \in SetupAsks \cup ProjectAsks, ParamsFit(q.method, q.params), Decodes(q),
         NEW args, args = Decoded(q)
  PROVE  /\ q.method = "install" =>
              /\ args.expectedFingerprint = shell.bound.print
              /\ args.allowUnsigned => shell.agreed.unsigned
              /\ args.acceptLicense => shell.agreed.license
              /\ args.allowPublisherMigration => shell.agreed.migration
              /\ ~args.allowDowngrade
         /\ q.method \in {"uninstall", "launch"} => args.packageId = shell.bound.id
         /\ q.method = "updateProject" => args.package \in Manifests
         /\ q.method \in Mutations => shell.path <= MaxPath
<1>1. PICK p, d : p = q.params /\ d = Defaults(q.method)
  OBVIOUS
<1>2. args = With(p, d)
  BY <1>1 DEF Decoded
<1>3. /\ \A x \in DOMAIN p : With(p, d)[x] = p[x]
      /\ \A x \in DOMAIN d \ DOMAIN p : With(p, d)[x] = d[x]
  BY WithFields
<1>4. q.method = "install" =>
        /\ args.expectedFingerprint = shell.bound.print
        /\ args.allowUnsigned => shell.agreed.unsigned
        /\ args.acceptLicense => shell.agreed.license
        /\ args.allowPublisherMigration => shell.agreed.migration
        /\ ~args.allowDowngrade
  <2>1. SUFFICES ASSUME q.method = "install"
        PROVE  /\ args.expectedFingerprint = shell.bound.print
               /\ args.allowUnsigned => shell.agreed.unsigned
               /\ args.acceptLicense => shell.agreed.license
               /\ args.allowPublisherMigration => shell.agreed.migration
               /\ ~args.allowDowngrade
    OBVIOUS
  <2>2. p = InstallParams(shell.agreed)
    BY <1>1, <2>1 DEF ParamsFit
  <2>3. /\ DOMAIN p = {"installBase", "stateRoot", "packagePath", "expectedFingerprint",
                       "allowUnsigned", "acceptLicense", "allowPublisherMigration"}
        /\ p["expectedFingerprint"] = shell.bound.print
        /\ p["allowUnsigned"] = (shell.bound.signer = None /\ shell.agreed.unsigned)
        /\ p["acceptLicense"] = (shell.bound.license # Absent /\ shell.agreed.license)
        /\ p["allowPublisherMigration"] = shell.agreed.migration
    BY <2>2, InstallFields
  <2>4. "allowDowngrade" \in DOMAIN d /\ d["allowDowngrade"] = FALSE
    BY <1>1, <2>1 DEF Defaults
  <2>5. /\ args["expectedFingerprint"] = p["expectedFingerprint"] /\ args["allowUnsigned"] = p["allowUnsigned"]
        /\ args["acceptLicense"] = p["acceptLicense"]
        /\ args["allowPublisherMigration"] = p["allowPublisherMigration"]
        /\ args["allowDowngrade"] = d["allowDowngrade"]
    BY <1>2, <1>3, <2>3, <2>4
  <2> QED BY <2>3, <2>4, <2>5
<1>5. q.method \in {"uninstall", "launch"} => args.packageId = shell.bound.id
  <2>1. SUFFICES ASSUME q.method \in {"uninstall", "launch"} PROVE args.packageId = shell.bound.id
    OBVIOUS
  <2>2. p = PackageParams
    BY <1>1, <2>1 DEF ParamsFit
  <2>3. "packageId" \in DOMAIN p /\ p["packageId"] = shell.bound.id
    BY <2>2, PackageFields
  <2> QED BY <1>2, <1>3, <2>3
<1>6. q.method = "updateProject" => args.package \in Manifests
  <2>1. SUFFICES ASSUME q.method = "updateProject" PROVE args.package \in Manifests
    OBVIOUS
  <2>2. PICK form \in Forms : p = With(ProjectParams, [package |-> form, target |-> form.target, install |-> form])
    BY <1>1, <2>1 DEF ParamsFit
  <2>3. DOMAIN p = {"projectPath", "package", "target", "install"} /\ p["package"] = form
    BY <2>2, UpdateFields
  <2>4. form \in Manifests
    BY SessionAssumption
  <2> QED BY <1>2, <1>3, <2>3, <2>4
<1>7. q.method \in Mutations => shell.path <= MaxPath
  <2>1. SUFFICES ASSUME q.method \in Mutations PROVE shell.path <= MaxPath
    OBVIOUS
  <2>2. "installBase" \in DOMAIN p /\ p["installBase"] = shell.path
    <3>1. CASE q.method = "install"
      <4>1. p = InstallParams(shell.agreed)
        BY <1>1, <3>1 DEF ParamsFit
      <4> QED BY <4>1, InstallFields
    <3>2. CASE q.method = "uninstall"
      <4>1. p = PackageParams
        BY <1>1, <3>2 DEF ParamsFit
      <4> QED BY <4>1, PackageFields
    <3> QED BY <2>1, <3>1, <3>2 DEF Mutations
  <2>3. \A f \in DOMAIN p \cap PathFields : AbsolutePath(p[f])
    BY <1>1 DEF Decodes
  <2>4. "installBase" \in PathFields
    BY DEF PathFields, Roots
  <2>5. p["installBase"] \in 1 .. MaxPath
    BY <2>2, <2>3, <2>4 DEF AbsolutePath
  <2>6. MaxPath \in Nat
    BY SMT DEF MaxPath
  <2>7. shell.path \in Nat
    BY DEF IInv, Shaped
  <2> QED BY SMT, <2>2, <2>5, <2>6, <2>7
<1> QED BY <1>4, <1>5, <1>6, <1>7

(* A request whose parameters are not understood never follows a change.    *)
LEMMA NotUnderstood ==
  ASSUME IInv, NEW q, q.method \in Mutations, ParamsFit(q.method, q.params), ~Decodes(q)
  PROVE  tree = "before"
<1>1. q.method \in SetupAsks \cup ProjectAsks \cup {"cancel"} /\ q.method # "updateProject"
  BY DEF Mutations, SetupAsks
<1>2. shell.path \in Nat \ {0} /\ (tree # "before" => shell.path <= MaxPath)
  BY DEF IInv, Shaped, AtFits
<1> QED BY <1>1, <1>2, Understands

LEMMA RequestHandled ==
  ASSUME IInv, HandleRequest
  PROVE  IInv'
<1>1. PICK q : q = Head(requests)
  OBVIOUS
<1>2. /\ Takes(q) /\ q.method # "cancel"
      /\ IF q.method # "defaults" /\ job # NoJob THEN RequestFails("busy")
         ELSE IF ~Decodes(q) THEN RequestFails("invalid_params")
         ELSE IF q.method = "defaults"
           THEN \/ RequestFails("defaults_failed")
                \/ Write(<<ResultLine(q.id, [target |-> Host])>>) /\ UNCHANGED <<job, tree>>
         ELSE /\ job' = NewJob(q)
              /\ tree' = IF q.method \in Mutations THEN "before" ELSE tree
              /\ UNCHANGED lines
  BY <1>1 DEF HandleRequest
<1>3. /\ server = "up" /\ client.up /\ UNCHANGED <<disk, installed, others, shell, client, server>>
      /\ Lined(requests') /\ Lined(lines)
      /\ \A j \in DOMAIN requests' :
           j + 1 \in DOMAIN requests /\ requests'[j] = requests[j + 1] /\ requests'[j].id # q.id
      /\ q.id = shell.id /\ q.id # 0 /\ q.method = shell.last /\ job = NoJob
      /\ q.method \in SetupAsks \cup ProjectAsks /\ ParamsFit(q.method, q.params)
      /\ \A i \in DOMAIN lines : Settles(lines[i]) => lines[i].id # q.id
  BY <1>2, Taken
<1>4. ASSUME NEW code, RequestFails(code), code # "rollback_failed", q.method \in Mutations => tree = "before"
      PROVE  IInv'
  <2>1. PICK e : e = ErrorLine(q.id, code)
    OBVIOUS
  <2>2. Write(<<e>>) /\ UNCHANGED <<job, tree>>
    BY <1>1, <1>4, <2>1 DEF RequestFails
  <2>3. e.type = "error" /\ e.id = q.id /\ e.code = code /\ e.message = Bounded(SystemText)
    BY <2>1 DEF ErrorLine
  <2>4. ErrorFits(e.code)'
    BY <1>3, <1>4, <2>2, <2>3 DEF ErrorFits
  <2>5. LineFits(e)' /\ Settles(e)
    BY <2>3, <2>4 DEF LineFits, Settles
  <2> QED BY <1>2, <2>2, <2>3, <2>5, TakenAnswered
<1>5. CASE ~Decodes(q)
  BY <1>2, <1>3, <1>4, <1>5, NotUnderstood
<1>6. CASE Decodes(q) /\ q.method = "defaults"
  <2>1. q.method \notin Mutations
    BY <1>6 DEF Mutations
  <2>2. CASE RequestFails("defaults_failed")
    BY <1>4, <2>1, <2>2
  <2>3. CASE Write(<<ResultLine(q.id, [target |-> Host])>>) /\ UNCHANGED <<job, tree>>
    <3>1. PICK r, e : r = [target |-> Host] /\ e = ResultLine(q.id, r)
      OBVIOUS
    <3>2. e.type = "result" /\ e.id = q.id /\ e.result = r /\ r.target = Host
      BY <3>1 DEF ResultLine
    <3>3. ResultFits(e.result)'
      BY <1>3, <1>6, <3>2 DEF ResultFits, Mutations, Reading, ProjectAsks
    <3>4. LineFits(e)' /\ Settles(e)
      BY <3>2, <3>3 DEF LineFits, Settles
    <3> QED BY <1>2, <2>3, <3>1, <3>2, <3>4, TakenAnswered
  <2> QED BY <1>2, <1>3, <1>6, <2>2, <2>3
<1>7. CASE Decodes(q) /\ q.method # "defaults"
  <2>1. /\ job' = NewJob(q) /\ tree' = (IF q.method \in Mutations THEN "before" ELSE tree)
        /\ UNCHANGED lines
    BY <1>2, <1>3, <1>7
  <2>2. PICK args : args = Decoded(q)
    OBVIOUS
  <2>3. /\ JobShape(job') /\ job'.at = "open" /\ job'.id = q.id /\ job'.method = q.method /\ job'.args = args
        /\ job'.done = 0 /\ job'.total = 0 /\ job' # NoJob
    BY <2>1, <2>2 DEF NewJob, JobShape, NoJob
  <2>4. /\ q.method = "install" =>
             /\ args.expectedFingerprint = shell.bound.print
             /\ args.allowUnsigned => shell.agreed.unsigned
             /\ args.acceptLicense => shell.agreed.license
             /\ args.allowPublisherMigration => shell.agreed.migration
             /\ ~args.allowDowngrade
        /\ q.method \in {"uninstall", "launch"} => args.packageId = shell.bound.id
        /\ q.method = "updateProject" => args.package \in Manifests
        /\ q.method \in Mutations => shell.path <= MaxPath
    BY <1>3, <1>7, <2>2, DecodedArgs
  <2>5. ServerFits' /\ Flow' /\ Asks' /\ AnswersAreAccepted'
    BY <1>2, <1>3, <2>3, TakenFrame
  <2>6. Shaped'
    BY <1>3, <2>1, <2>3 DEF IInv, Shaped
  <2>7. Ordering'
    <3>1. /\ \A i \in DOMAIN lines : /\ lines[i].id \in {shell.id, shell.cancel} \ {0}
                                     /\ ~Settles(lines[i]) => lines[i].id = shell.id
          /\ \A i, j \in DOMAIN lines : Settles(lines[i]) /\ lines[i].id = lines[j].id => j <= i
          /\ \A i \in DOMAIN lines, j \in DOMAIN requests : Settles(lines[i]) => lines[i].id # requests[j].id
      BY <1>3 DEF IInv, Ordering
    <3>2. \A i \in DOMAIN lines, j \in DOMAIN requests' : Settles(lines[i]) => lines[i].id # requests'[j].id
      BY <1>3, <3>1
    <3> QED BY <1>3, <2>1, <2>3, <3>1, <3>2 DEF Ordering, Settles
  <2>8. JobFits'
    <3>1. /\ job'.method = "install" =>
             /\ job'.args.expectedFingerprint = shell'.bound.print
             /\ job'.args.allowUnsigned => shell'.agreed.unsigned
             /\ job'.args.acceptLicense => shell'.agreed.license
             /\ job'.args.allowPublisherMigration => shell'.agreed.migration
             /\ ~job'.args.allowDowngrade
          /\ job'.method \in {"uninstall", "launch"} => job'.args.packageId = shell'.bound.id
          /\ job'.method = "updateProject" => job'.args.package \in Manifests
          /\ job'.method \in Mutations => shell'.path <= MaxPath /\ tree' = "before"
      BY <1>3, <2>1, <2>3, <2>4
    <3> QED BY <3>1 DEF JobFits, Mutations
  <2>9. AtFits'
    <3>1. tree' # "before" => shell'.path <= MaxPath
      BY <1>3, <2>1 DEF IInv, AtFits
    <3> QED BY <1>3, <3>1 DEF IInv, AtFits
  <2>10. Answers'
    <3>1. ASSUME NEW i \in DOMAIN lines' PROVE LineFits(lines[i])'
      <4>1. PICK l : l = lines[i]
        OBVIOUS
      <4>2. LineFits(l)'
        BY <1>3, <2>1, <4>1, OldLines
      <4> QED BY <2>1, <4>1, <4>2
    <3> QED BY <3>1 DEF Answers
  <2>11. Reviewed'
    BY <1>3, <2>1 DEF IInv, Reviewed, Applied, Alike, ActionOn
  <2>12. Doing'
    <3>1. job'.method \in SetupAsks \cup ProjectAsks /\ job'.at = "open" /\ job'.done <= job'.total /\ job'.total = 0
      BY <1>3, <2>3
    <3> QED BY <3>1 DEF Doing, SetupAsks, ProjectAsks, Acting
  <2>13. FailureIsTold'
    <3>1. CASE q.method \in Mutations
      <4>1. shell'.told = None
        BY <1>3, <3>1 DEF IInv, AtFits
      <4> QED BY <4>1 DEF FailureIsTold
    <3>2. CASE q.method \notin Mutations
      BY <1>3, <2>1, <3>2 DEF IInv, FailureIsTold
    <3> QED BY <3>1, <3>2
  <2> QED BY <2>5, <2>6, <2>7, <2>8, <2>9, <2>10, <2>11, <2>12, <2>13 DEF IInv
<1> QED BY <1>5, <1>6, <1>7

-----------------------------------------------------------------------------
(* Others, and a CLI that could not start.                                  *)

LEMMA OthersKeep ==
  ASSUME IInv, OthersStep
  PROVE  IInv'
<1>1. /\ shell.app = "setup" /\ job = NoJob /\ others' = others + 1 /\ (OthersInstall \/ FileReplaced)
      /\ UNCHANGED <<shell, client, requests, server, job, tree, lines>>
  BY DEF OthersStep
<1>2. others \in Nat /\ others' \in Nat /\ others' > 0 /\ others' # 0
  BY <1>1 DEF IInv, Shaped
<1>3. /\ installed' \in Holdings /\ disk' \in Manifests /\ ValidBundle(disk') /\ disk' # NoProject
      /\ ValidManifest(disk')
  <2>1. disk \in Manifests /\ ValidBundle(disk) /\ installed \in Holdings
    BY <1>1 DEF IInv, Shaped
  <2>2. CASE OthersInstall
    BY <2>1, <2>2, NotAProject, SessionAssumption DEF OthersInstall, ValidBundle
  <2>3. CASE FileReplaced
    BY <2>1, <2>3, NotAProject, SessionAssumption DEF FileReplaced, ValidBundle
  <2> QED BY <1>1, <2>2, <2>3
<1>4. Shaped'
  BY <1>1, <1>2, <1>3 DEF IInv, Shaped
<1>5. ServerFits' /\ Flow' /\ Ordering'
  BY <1>1 DEF IInv, ServerFits, Flow, Ordering, Settles, KindOf, Mutations
<1>6. Asks'
  <2>1. ASSUME NEW i \in DOMAIN requests'
        PROVE  /\ requests'[i].method \in SetupAsks \cup ProjectAsks \cup {"cancel"}
               /\ ParamsFit(requests[i].method, requests[i].params)'
    <3>1. PICK r : r = requests[i]
      OBVIOUS
    <3>2. r.method \in SetupAsks \cup ProjectAsks \cup {"cancel"} /\ ParamsFit(r.method, r.params)
      BY <1>1, <3>1 DEF IInv, Asks
    <3>3. ParamsFit(r.method, r.params)'
      BY <1>1, <3>2, ParamsFrame
    <3> QED BY <1>1, <3>1, <3>2, <3>3
  <2> QED BY <2>1 DEF Asks
<1>7. JobFits' /\ Doing'
  BY <1>1 DEF JobFits, Doing
<1>8. AtFits' /\ FailureIsTold'
  BY <1>1, <1>3 DEF IInv, AtFits, FailureIsTold
<1>9. Answers'
  <2>1. ASSUME server # "exited", NEW i \in DOMAIN lines' PROVE LineFits(lines[i])'
    <3>1. PICK l : l = lines[i]
      OBVIOUS
    <3>2. LineFits(l)
      BY <1>1, <2>1, <3>1 DEF IInv, Answers
    <3>3. KindOf(shell.last)' = KindOf(shell.last)
      BY <1>1 DEF KindOf, Mutations
    <3>4. ASSUME NEW r, ResultFits(r) PROVE ResultFits(r)'
      BY <1>1, <1>2, <1>3, <3>4 DEF ResultFits, Reading
    <3>5. ASSUME NEW code, ErrorFits(code) PROVE ErrorFits(code)'
      BY <1>1, <3>5 DEF ErrorFits
    <3>6. LineFits(l)'
      BY <1>1, <3>2, <3>3, <3>4, <3>5 DEF LineFits
    <3> QED BY <1>1, <3>1, <3>6
  <2> QED BY <1>1, <2>1 DEF Answers
<1>10. Reviewed'
  BY <1>2 DEF Reviewed
<1>11. AnswersAreAccepted'
  BY <1>1, <1>2 DEF IInv, AnswersAreAccepted, Disagreement
<1> QED BY <1>4, <1>5, <1>6, <1>7, <1>8, <1>9, <1>10, <1>11 DEF IInv

(* The client takes every line of a server that takes requests.             *)
LEMMA Understandable ==
  ASSUME IInv, client.up, server # "exited", lines # <<>>
  PROVE  Understood(Head(lines))
<1>1. Lined(lines)
  BY DEF IInv, Shaped
<1>2. PICK l : l = Head(lines)
  OBVIOUS
<1>3. 1 \in DOMAIN lines /\ l = lines[1]
  <2>1. Len(lines) > 0 /\ Head(lines) = lines[1]
    BY <1>1, LinedTail
  <2> QED BY <1>1, <1>2, <2>1, LinedLen
<1>4. l.id \in {shell.id, shell.cancel} \ {0} /\ (~Settles(l) => l.id = shell.id)
  BY <1>3 DEF IInv, Ordering
<1>5. LineFits(l)
  BY <1>3 DEF IInv, Answers
<1>6. PendingOf(l.id) # {}
  <2>1. \E p \in client.pending : p.id = l.id
    BY <1>4 DEF IInv, Flow
  <2> QED BY <2>1 DEF PendingOf
<1>7. l.type = "error" => ValidMessage(l.message)
  BY <1>5, MessageFits DEF LineFits
<1>8. l.type = "event" => \A p \in PendingOf(l.id) : ParsesEvent(p.kind, l)
  <2>1. SUFFICES ASSUME l.type = "event", NEW p \in PendingOf(l.id) PROVE ParsesEvent(p.kind, l)
    OBVIOUS
  <2>2. p \in client.pending /\ p.id = shell.id
    BY <1>4, <2>1 DEF PendingOf, Settles
  <2>3. p.kind = KindOf(shell.last)
    BY <2>2 DEF IInv, Flow
  <2> QED BY <1>5, <2>1, <2>3 DEF LineFits
<1>9. Understood(l)
  BY <1>6, <1>7, <1>8 DEF Understood
<1> QED BY <1>2, <1>9

LEMMA FailsKeeps ==
  ASSUME IInv, ClientFails
  PROVE  IInv'
<1>1. /\ client.up /\ lines # <<>> /\ ~Understood(Head(lines)) /\ lines' = <<>>
      /\ client' = [client EXCEPT !.up = FALSE, !.pending = {}]
      /\ UNCHANGED <<disk, installed, others, requests, server, job, tree>>
  BY DEF ClientFails, world
<1>2. server = "exited"
  BY <1>1, Understandable
<1>3. /\ ~KeyLoads(shell.key) /\ lines = <<ErrorLine(0, "trusted_publisher_key_invalid")>>
      /\ job = NoJob /\ shell.at = "new" /\ tree = "before"
  BY <1>1, <1>2 DEF IInv, ServerFits
<1>4. PICK code : code = Public("trusted_publisher_key_invalid")
  OBVIOUS
<1>5. code = "internal_error"
  BY <1>4 DEF Public, PublicCodes
<1>6. shell' = [ErrorComes(code) EXCEPT !.cancel = 0]
  <2>1. PICK line : line = Head(lines)
    OBVIOUS
  <2>2. line = ErrorLine(0, "trusted_publisher_key_invalid")
    BY <1>3, <2>1
  <2>3. line.id = 0 /\ line.code = "trusted_publisher_key_invalid"
    BY <2>2 DEF ErrorLine
  <2>4. shell' = [ErrorComes(Public(line.code)) EXCEPT !.cancel = 0]
    BY Zenon, <2>1, <2>3 DEF ClientFails
  <2> QED BY Zenon, <1>4, <2>3, <2>4
<1>7. PICK to, shown : to = AfterError(code)
                       /\ shown = IF shell.at \in {"refresh", "reselect"} THEN shell.shown ELSE code
  OBVIOUS
<1>8. to = "new"
  BY <1>3, <1>5, <1>7 DEF AfterError, Refreshing
<1>9. PICK a, s : a = Settled(to, shown, code) /\ s = shell'
  OBVIOUS
<1>10. s = [a EXCEPT !.cancel = 0]
  BY Zenon, <1>6, <1>7, <1>9 DEF ErrorComes
<1>11. ShellShape(shell) /\ Lined(requests)
       /\ client = [up |-> client.up, next |-> client.next, pending |-> client.pending]
  BY DEF IInv, Shaped
<1>12. /\ ShellShape(a) /\ a.app = shell.app /\ a.path = shell.path /\ a.key = shell.key
       /\ a.asks = shell.asks /\ a.at = to /\ a.id = 0 /\ a.cancel = shell.cancel
       /\ a.last = shell.last /\ a.bound = shell.bound /\ a.plan = shell.plan
       /\ a.told = (IF shell.last \in Mutations THEN code ELSE shell.told)
       /\ a.refused = shell.refused /\ a.agreed = shell.agreed
  BY <1>9, <1>11, SettledShape
<1>13. /\ ShellShape(s) /\ s.app = a.app /\ s.path = a.path /\ s.key = a.key
       /\ s.asks = a.asks /\ s.at = a.at /\ s.id = a.id /\ s.cancel = 0
       /\ s.last = a.last /\ s.bound = a.bound /\ s.plan = a.plan
       /\ s.told = a.told /\ s.refused = a.refused /\ s.agreed = a.agreed
  BY <1>10, <1>12 DEF ShellShape
<1>14. /\ ShellShape(shell') /\ shell'.app = shell.app /\ shell'.path = shell.path /\ shell'.key = shell.key
       /\ shell'.asks = shell.asks /\ shell'.at = "new" /\ shell'.id = 0 /\ shell'.cancel = 0
       /\ shell'.last = shell.last /\ shell'.bound = shell.bound /\ shell'.plan = shell.plan
       /\ shell'.told = (IF shell.last \in Mutations THEN code ELSE shell.told)
       /\ shell'.refused = shell.refused /\ shell'.agreed = shell.agreed
  BY <1>8, <1>9, <1>12, <1>13
<1>15. /\ client'.up = FALSE /\ client'.next = client.next /\ client'.pending = {}
       /\ client' = [up |-> client'.up, next |-> client'.next, pending |-> client'.pending]
  BY <1>1, <1>11
<1>16. Shaped'
  <2>1. Lined(lines')
    BY <1>1, LinedNone
  <2> QED BY <1>1, <1>3, <1>14, <1>15, <2>1 DEF IInv, Shaped
<1>17. ServerFits' /\ Flow' /\ Ordering' /\ Answers'
  BY <1>1, <1>2, <1>3, <1>14, <1>15 DEF ServerFits, Flow, Ordering, Answers
<1>18. Asks'
  <2>1. ASSUME NEW i \in DOMAIN requests'
        PROVE  /\ requests'[i].method \in SetupAsks \cup ProjectAsks \cup {"cancel"}
               /\ ParamsFit(requests[i].method, requests[i].params)'
    <3>1. PICK r : r = requests[i]
      OBVIOUS
    <3>2. r.method \in SetupAsks \cup ProjectAsks \cup {"cancel"} /\ ParamsFit(r.method, r.params)
      BY <1>1, <3>1 DEF IInv, Asks
    <3>3. ParamsFit(r.method, r.params)'
      BY <1>14, <3>2, ParamsFrame
    <3> QED BY <1>1, <3>1, <3>2, <3>3
  <2> QED BY <2>1 DEF Asks
<1>19. JobFits' /\ Doing' /\ AtFits' /\ Reviewed'
  <2>1. shell'.app = "setup" \/ shell'.app = "studio"
    BY <1>14 DEF IInv, Shaped
  <2> QED BY <1>1, <1>3, <1>14, <2>1 DEF JobFits, Doing, AtFits, Reviewed
<1>20. AnswersAreAccepted'
  BY <1>1, <1>14 DEF IInv, AnswersAreAccepted, Disagreement
<1>21. FailureIsTold'
  BY <1>1, <1>3, <1>5, <1>14 DEF IInv, FailureIsTold
<1> QED BY <1>16, <1>17, <1>18, <1>19, <1>20, <1>21 DEF IInv

-----------------------------------------------------------------------------
(* The client reads.                                                        *)

LEMMA Read ==
  ASSUME IInv, ReadLine, NEW l, l = Head(lines)
  PROVE  /\ server = "up" /\ client.up /\ UNCHANGED <<disk, installed, others, requests, server, job, tree>>
         /\ Lined(lines') /\ 1 \in DOMAIN lines /\ l = lines[1] /\ LineFits(l)
         /\ l.id \in {shell.id, shell.cancel} \ {0} /\ shell.id # shell.cancel
         /\ ~Settles(l) => l.id = shell.id
         /\ \A j \in DOMAIN lines' :
              /\ j \in Nat /\ j + 1 \in DOMAIN lines /\ lines'[j] = lines[j + 1]
              /\ Settles(l) => lines'[j].id # l.id
         /\ \A i \in DOMAIN lines : i # 1 => i \in Nat /\ i - 1 \in DOMAIN lines' /\ lines'[i - 1] = lines[i]
         /\ \A i \in DOMAIN lines : Settles(l) /\ lines[i].id = l.id => i = 1
<1>1. /\ client.up /\ lines # <<>> /\ lines' = Tail(lines) /\ Understood(l)
      /\ UNCHANGED <<disk, installed, others, requests, server, job, tree>>
  BY DEF ReadLine, world
<1>2. Lined(lines) /\ Lined(lines') /\ Len(lines) > 0 /\ Len(lines') = Len(lines) - 1 /\ l = lines[1]
      /\ \A i \in 1 .. Len(lines') : lines'[i] = lines[i + 1]
  <2>1. Lined(lines)
    BY DEF IInv, Shaped
  <2> QED BY <1>1, <2>1, LinedTail
<1>3. DOMAIN lines = 1 .. Len(lines) /\ DOMAIN lines' = 1 .. Len(lines') /\ Len(lines) \in Nat /\ Len(lines') \in Nat
  BY <1>2, LinedLen
<1>4. 1 \in DOMAIN lines
  BY <1>2, <1>3
<1>5. server = "up"
  <2>1. CASE server = "exited"
    <3>1. lines = <<ErrorLine(0, "trusted_publisher_key_invalid")>>
      BY <1>1, <2>1 DEF IInv, ServerFits
    <3>2. l = ErrorLine(0, "trusted_publisher_key_invalid")
      BY <3>1, <1>2
    <3>3. l.id = 0
      BY <3>2 DEF ErrorLine
    <3>4. \E p \in client.pending : p.id = l.id
      BY <1>1 DEF Understood, PendingOf
    <3>5. \A p \in client.pending : p.id \in 1 .. client.next - 1 /\ client.next \in Nat
      BY <1>1 DEF IInv, Flow, Shaped
    <3> QED BY <3>3, <3>4, <3>5
  <2>2. CASE server = "down"
    BY <2>2, <1>1 DEF IInv, ServerFits
  <2> QED BY <2>1, <2>2 DEF IInv, ServerFits
<1>6. LineFits(l)
  BY <1>2, <1>4, <1>5 DEF IInv, Answers
<1>7. /\ l.id \in {shell.id, shell.cancel} \ {0} /\ (~Settles(l) => l.id = shell.id)
      /\ \A j \in DOMAIN lines : Settles(l) /\ l.id = lines[j].id => j <= 1
  BY <1>2, <1>4, <1>5 DEF IInv, Ordering
<1>8. shell.id # shell.cancel
  BY <1>1, <1>7 DEF IInv, Flow
<1>9. \A j \in DOMAIN lines' :
              /\ j \in Nat /\ j + 1 \in DOMAIN lines /\ lines'[j] = lines[j + 1]
              /\ Settles(l) => lines'[j].id # l.id
  <2>1. ASSUME NEW j \in DOMAIN lines'
        PROVE  /\ j \in Nat /\ j + 1 \in DOMAIN lines /\ lines'[j] = lines[j + 1]
               /\ Settles(l) => lines'[j].id # l.id
    <3>1. j \in Nat /\ j + 1 \in DOMAIN lines /\ lines'[j] = lines[j + 1] /\ ~(j + 1 <= 1)
      BY <1>2, <1>3, <2>1
    <3> QED BY <1>7, <3>1
  <2> QED BY <2>1
<1>10. \A i \in DOMAIN lines : i # 1 => i \in Nat /\ i - 1 \in DOMAIN lines' /\ lines'[i - 1] = lines[i]
  BY <1>2, <1>3
<1>11. \A i \in DOMAIN lines : Settles(l) /\ lines[i].id = l.id => i = 1
  BY <1>3, <1>7
<1> QED BY <1>1, <1>2, <1>4, <1>5, <1>6, <1>7, <1>8, <1>9, <1>10, <1>11

LEMMA OneAtATime ==
  ASSUME IInv, server = "up"
  PROVE  /\ \A i \in DOMAIN lines : /\ lines[i].id \in {shell.id, shell.cancel} \ {0}
                                    /\ ~Settles(lines[i]) => lines[i].id = shell.id
         /\ \A i, j \in DOMAIN lines : Settles(lines[i]) /\ lines[i].id = lines[j].id => j <= i
         /\ \A i \in DOMAIN lines, j \in DOMAIN requests : Settles(lines[i]) => lines[i].id # requests[j].id
         /\ job # NoJob => \A i \in DOMAIN lines : Settles(lines[i]) => lines[i].id # job.id
BY DEF IInv, Ordering

(* What a line leaves alone that ends a request or a cancellation.          *)
LEMMA ReadFrame ==
  ASSUME IInv, ReadLine, NEW l, l = Head(lines), Settles(l),
         ShellShape(shell'), shell'.app = shell.app, shell'.path = shell.path, shell'.key = shell.key,
         shell'.asks = shell.asks, shell'.last = shell.last, shell'.agreed = shell.agreed,
         shell'.id = IF l.id = shell.id THEN 0 ELSE shell.id,
         shell'.cancel = IF l.id = shell.id THEN shell.cancel ELSE 0,
         shell'.bound = shell.bound \/ l.id = shell.id
  PROVE  /\ Shaped' /\ ServerFits' /\ Flow' /\ Ordering' /\ Asks'
         /\ l.id = shell.id => job = NoJob
<1>1. /\ server = "up" /\ client.up /\ UNCHANGED <<disk, installed, others, requests, server, job, tree>>
      /\ Lined(lines') /\ 1 \in DOMAIN lines /\ l = lines[1] /\ LineFits(l)
      /\ l.id \in {shell.id, shell.cancel} \ {0} /\ shell.id # shell.cancel
      /\ \A j \in DOMAIN lines' :
              /\ j \in Nat /\ j + 1 \in DOMAIN lines /\ lines'[j] = lines[j + 1]
              /\ lines'[j].id # l.id
  BY Read
<1>2. client' = [client EXCEPT !.pending = client.pending \ PendingOf(l.id)]
  BY DEF ReadLine, Settles
<1>3. /\ client'.up = client.up /\ client'.next = client.next
      /\ client'.pending = client.pending \ PendingOf(l.id)
      /\ client' = [up |-> client'.up, next |-> client'.next, pending |-> client'.pending]
  BY <1>2 DEF IInv, Shaped
<1>4. /\ shell.id \in Nat /\ shell.cancel \in Nat /\ shell'.id \in Nat /\ shell'.cancel \in Nat
      /\ client.next \in Nat \ {0} /\ shell.id < client.next /\ shell.cancel < client.next
  BY <1>1 DEF IInv, Shaped, Flow
<1>5. /\ \A i \in DOMAIN lines : /\ lines[i].id \in {shell.id, shell.cancel} \ {0}
                                 /\ ~Settles(lines[i]) => lines[i].id = shell.id
      /\ \A i, j \in DOMAIN lines : Settles(lines[i]) /\ lines[i].id = lines[j].id => j <= i
      /\ \A i \in DOMAIN lines, j \in DOMAIN requests : Settles(lines[i]) => lines[i].id # requests[j].id
      /\ job # NoJob => \A i \in DOMAIN lines : Settles(lines[i]) => lines[i].id # job.id
  BY <1>1, OneAtATime
<1>6. /\ \A j \in DOMAIN requests : requests[j].id # l.id
      /\ job # NoJob => l.id # job.id
  BY <1>1, <1>5
<1>7. job # NoJob => job.id = shell.id /\ job.id # 0 /\ job.method = shell.last
                     /\ \A i \in DOMAIN requests : requests[i].id # job.id
  BY <1>1 DEF IInv, Flow
<1>8. Shaped'
  <2>1. /\ (disk = NoProject => shell.app = "studio")'
        /\ (disk # NoProject => disk \in Manifests /\ ValidManifest(disk))'
        /\ (shell.app = "setup" => ValidBundle(disk))' /\ (installed \in Holdings /\ others \in Nat)'
    BY <1>1 DEF IInv, Shaped
  <2>2. shell'.app \in {"setup", "studio"} /\ shell'.path \in Nat \ {0} /\ shell'.asks \in Nat
    BY DEF IInv, Shaped
  <2>3. /\ (client.up \in BOOLEAN)' /\ (job = NoJob \/ JobShape(job))' /\ Lined(requests')
    BY <1>1, <1>3 DEF IInv, Shaped, JobShape
  <2> QED BY <2>1, <2>2, <2>3, <1>1, <1>3, <1>4 DEF Shaped
<1>9. ServerFits'
  BY <1>1, <1>3 DEF IInv, ServerFits
<1>10. Flow'
  <2>1. /\ shell'.id < client'.next /\ shell'.cancel < client'.next
        /\ shell'.id = 0 \/ shell'.id # shell'.cancel
    BY <1>1, <1>3, <1>4
  <2>2. ASSUME NEW i \in DOMAIN requests
        PROVE  /\ requests[i].id \in {shell'.id, shell'.cancel} \ {0}
               /\ requests[i].method = "cancel" <=> requests[i].id = shell'.cancel
               /\ requests[i].id = shell'.id => requests[i].method = shell.last
    <3>1. /\ requests[i].id \in {shell.id, shell.cancel} \ {0}
          /\ requests[i].method = "cancel" <=> requests[i].id = shell.cancel
          /\ requests[i].id = shell.id => requests[i].method = shell.last
      BY <1>1 DEF IInv, Flow
    <3> QED BY <3>1, <1>1, <1>6
  <2>3. \A i, j \in DOMAIN requests : requests[i].id = requests[j].id => i = j
    BY <1>1 DEF IInv, Flow
  <2>4. job # NoJob =>
         /\ job.id = shell'.id /\ job.id # 0 /\ job.method = shell.last
         /\ \A i \in DOMAIN requests : requests[i].id # job.id
    BY <1>6, <1>7
  <2>5. ASSUME NEW p \in client'.pending
        PROVE  p.id \in 1 .. client.next - 1 /\ (p.id = shell'.id => p.kind = KindOf(shell.last))
    <3>1. p \in client.pending
      BY <1>3
    <3>2. p.id \in 1 .. client.next - 1 /\ (p.id = shell.id => p.kind = KindOf(shell.last))
      BY <1>1, <3>1 DEF IInv, Flow
    <3> QED BY <3>2, <1>4
  <2>6. ASSUME NEW id \in {shell'.id, shell'.cancel} \ {0}
        PROVE  \E p \in client'.pending : p.id = id
    <3>1. id \in {shell.id, shell.cancel} \ {0} /\ id # l.id
      BY <1>1, <1>4
    <3>2. PICK p \in client.pending : p.id = id
      BY <1>1, <3>1 DEF IInv, Flow
    <3>3. p \in client'.pending
      BY <1>3, <3>1, <3>2 DEF PendingOf
    <3> QED BY <3>2, <3>3
  <2>7. KindOf(shell.last)' = KindOf(shell.last)
    BY DEF KindOf, Mutations
  <2> QED BY <1>1, <1>3, <2>1, <2>2, <2>3, <2>4, <2>5, <2>6, <2>7 DEF Flow
<1>11. Ordering'
  <2>1. ASSUME NEW j \in DOMAIN lines'
        PROVE  /\ lines'[j].id \in {shell'.id, shell'.cancel} \ {0}
               /\ ~Settles(lines'[j]) => lines'[j].id = shell'.id
    <3>1. /\ lines'[j].id \in {shell.id, shell.cancel} \ {0} /\ lines'[j].id # l.id
          /\ ~Settles(lines'[j]) => lines'[j].id = shell.id
      BY <1>1, <1>5
    <3> QED BY <3>1, <1>1
  <2>2. ASSUME NEW i \in DOMAIN lines', NEW j \in DOMAIN lines', Settles(lines'[i]), lines'[i].id = lines'[j].id
        PROVE  j <= i
    <3>1. j + 1 <= i + 1 /\ i \in Nat /\ j \in Nat
      BY <1>1, <1>5, <2>2
    <3> QED BY <3>1
  <2>3. ASSUME NEW i \in DOMAIN lines', Settles(lines'[i])
        PROVE  /\ \A j \in DOMAIN requests : lines'[i].id # requests[j].id
               /\ job # NoJob => lines'[i].id # job.id
    BY <1>1, <1>5, <2>3
  <2> QED BY <1>1, <2>1, <2>2, <2>3 DEF Ordering, Settles
<1>12. Asks'
  <2>1. ASSUME NEW i \in DOMAIN requests
        PROVE  /\ requests[i].method \in SetupAsks \cup ProjectAsks \cup {"cancel"}
               /\ ParamsFit(requests[i].method, requests[i].params)'
      <4>1. PICK r : r = requests[i]
        OBVIOUS
      <4>2. r.method \in SetupAsks \cup ProjectAsks \cup {"cancel"} /\ ParamsFit(r.method, r.params)
        BY <4>1 DEF IInv, Asks
      <4>3. CASE shell'.bound = shell.bound
        <5>1. ParamsFit(r.method, r.params)'
          BY <4>2, <4>3, ParamsFrame
        <5> QED BY <1>1, <4>1, <4>2, <5>1
      <4>4. CASE l.id = shell.id
        <5>1. r.id \in {shell.id, shell.cancel} \ {0} /\ (r.method = "cancel" <=> r.id = shell.cancel)
          BY <1>1, <4>1 DEF IInv, Flow
        <5>2. r.method = "cancel"
          BY <5>1, <4>1, <4>4, <1>6
        <5>3. DOMAIN r.params = {"requestId"}
          BY <4>2, <5>2 DEF ParamsFit
        <5>4. "cancel" \notin DOMAIN AskWith'
          BY DEF AskWith
        <5>5. ParamsFit(r.method, r.params)'
          BY <5>2, <5>3, <5>4 DEF ParamsFit
        <5> QED BY <1>1, <4>1, <4>2, <5>5
      <4> QED BY <4>3, <4>4
  <2> QED BY <1>1, <2>1 DEF Asks
<1>13. l.id = shell.id => job = NoJob
  BY <1>6, <1>7
<1> QED BY <1>8, <1>9, <1>10, <1>11, <1>12, <1>13

LEMMA EventKeeps ==
  ASSUME IInv, ReadLine, NEW l, l = Head(lines), ~Settles(l)
  PROVE  IInv'
<1>1. /\ server = "up" /\ client.up /\ UNCHANGED <<disk, installed, others, requests, server, job, tree>>
      /\ Lined(lines') /\ 1 \in DOMAIN lines /\ l = lines[1]
      /\ \A j \in DOMAIN lines' :
              /\ j \in Nat /\ j + 1 \in DOMAIN lines /\ lines'[j] = lines[j + 1]
      /\ \A i \in DOMAIN lines : i # 1 => i \in Nat /\ i - 1 \in DOMAIN lines' /\ lines'[i - 1] = lines[i]
  BY Read
<1>2. UNCHANGED <<client, shell>>
  BY DEF ReadLine, Settles
<1>3. /\ \A i \in DOMAIN lines : /\ lines[i].id \in {shell.id, shell.cancel} \ {0}
                                 /\ ~Settles(lines[i]) => lines[i].id = shell.id
      /\ \A i, j \in DOMAIN lines : Settles(lines[i]) /\ lines[i].id = lines[j].id => j <= i
      /\ \A i \in DOMAIN lines, j \in DOMAIN requests : Settles(lines[i]) => lines[i].id # requests[j].id
      /\ job # NoJob => \A i \in DOMAIN lines : Settles(lines[i]) => lines[i].id # job.id
  BY <1>1, OneAtATime
<1>4. Shaped'
  BY <1>1, <1>2 DEF IInv, Shaped, ShellShape, JobShape
<1>5. ServerFits' /\ Flow'
  BY <1>1, <1>2 DEF IInv, ServerFits, Flow, KindOf, Mutations
<1>6. Ordering'
  <2>1. ASSUME NEW j \in DOMAIN lines'
        PROVE  /\ lines'[j].id \in {shell.id, shell.cancel} \ {0}
               /\ ~Settles(lines'[j]) => lines'[j].id = shell.id
    BY <1>1, <1>3
  <2>2. ASSUME NEW i \in DOMAIN lines', NEW j \in DOMAIN lines', Settles(lines'[i]), lines'[i].id = lines'[j].id
        PROVE  j <= i
    <3>1. j + 1 <= i + 1 /\ i \in Nat /\ j \in Nat
      BY <1>1, <1>3, <2>2
    <3> QED BY <3>1
  <2>3. ASSUME NEW i \in DOMAIN lines', Settles(lines'[i])
        PROVE  /\ \A j \in DOMAIN requests : lines'[i].id # requests[j].id
               /\ job # NoJob => lines'[i].id # job.id
    BY <1>1, <1>3, <2>3
  <2> QED BY <1>1, <1>2, <2>1, <2>2, <2>3 DEF Ordering, Settles
<1>7. Asks'
  <2>1. ASSUME NEW i \in DOMAIN requests
        PROVE  /\ requests[i].method \in SetupAsks \cup ProjectAsks \cup {"cancel"}
               /\ ParamsFit(requests[i].method, requests[i].params)'
    <3>1. PICK r : r = requests[i]
      OBVIOUS
    <3>2. r.method \in SetupAsks \cup ProjectAsks \cup {"cancel"} /\ ParamsFit(r.method, r.params)
      BY <3>1 DEF IInv, Asks
    <3>3. ParamsFit(r.method, r.params)'
      BY <1>2, <3>2, ParamsFrame
    <3> QED BY <1>1, <3>1, <3>2, <3>3
  <2> QED BY <1>1, <2>1 DEF Asks
<1>8. JobFits' /\ AtFits' /\ FailureIsTold'
  BY <1>1, <1>2 DEF IInv, JobFits, AtFits, FailureIsTold
<1>9. Doing'
  BY <1>1, <1>2 DEF IInv, Doing, ActionOn
<1>10. Answers'
  <2>1. ASSUME NEW j \in DOMAIN lines' PROVE LineFits(lines[j])'
    <3>1. PICK e : e = lines'[j]
      OBVIOUS
    <3>2. LineFits(e)
      BY <1>1, <3>1 DEF IInv, Answers
    <3>3. LineFits(e)'
      BY <1>1, <1>2, <3>2, LineFrame
    <3> QED BY <3>1, <3>3
  <2> QED BY <2>1 DEF Answers
<1>11. Applied => Applied'
  <2>1. SUFFICES ASSUME Applied PROVE Applied'
    OBVIOUS
  <2>2. PICK i \in DOMAIN lines :
          lines[i].type = "result" /\ lines[i].id = shell.id /\ shell.last \in Mutations
    BY <2>1 DEF Applied
  <2>3. i # 1
    BY <1>1, <2>2 DEF Settles
  <2>4. i - 1 \in DOMAIN lines' /\ lines'[i - 1] = lines[i]
    BY <1>1, <2>3
  <2>5. PICK j \in DOMAIN lines' : lines'[j] = lines[i]
    BY <2>4
  <2> QED BY <1>2, <2>2, <2>5 DEF Applied, Mutations
<1>12. Reviewed'
  BY <1>1, <1>2, <1>11 DEF IInv, Reviewed, Alike, ActionOn
<1>13. AnswersAreAccepted'
  BY <1>1, <1>2 DEF IInv, AnswersAreAccepted, Disagreement
<1> QED BY <1>4, <1>5, <1>6, <1>7, <1>8, <1>9, <1>10, <1>11, <1>12, <1>13 DEF IInv

(* The answer to a cancellation.                                            *)
LEMMA CancelAnswered ==
  ASSUME IInv, ReadLine, NEW l, l = Head(lines), Settles(l), l.id # shell.id
  PROVE  IInv'
<1>1. /\ server = "up" /\ client.up /\ UNCHANGED <<disk, installed, others, requests, server, job, tree>>
      /\ Lined(lines') /\ 1 \in DOMAIN lines /\ l = lines[1]
      /\ l.id \in {shell.id, shell.cancel} \ {0}
      /\ \A j \in DOMAIN lines' :
              /\ j \in Nat /\ j + 1 \in DOMAIN lines /\ lines'[j] = lines[j + 1]
      /\ \A i \in DOMAIN lines : i # 1 => i \in Nat /\ i - 1 \in DOMAIN lines' /\ lines'[i - 1] = lines[i]
  BY Read
<1>2. PICK s : s = shell'
  OBVIOUS
<1>3. s = [shell EXCEPT !.cancel = 0]
  BY <1>1, <1>2 DEF ReadLine, Settles
<1>4. ShellShape(shell)
  BY DEF IInv, Shaped
<1>5. /\ ShellShape(shell') /\ shell'.app = shell.app /\ shell'.path = shell.path /\ shell'.key = shell.key
      /\ shell'.asks = shell.asks /\ shell'.at = shell.at /\ shell'.id = shell.id /\ shell'.cancel = 0
      /\ shell'.last = shell.last /\ shell'.bound = shell.bound /\ shell'.plan = shell.plan
      /\ shell'.told = shell.told /\ shell'.refused = shell.refused /\ shell'.agreed = shell.agreed
  <2>1. /\ ShellShape(s) /\ s.app = shell.app /\ s.path = shell.path /\ s.key = shell.key
         /\ s.asks = shell.asks /\ s.at = shell.at /\ s.id = shell.id /\ s.cancel = 0
         /\ s.last = shell.last /\ s.bound = shell.bound /\ s.plan = shell.plan
         /\ s.told = shell.told /\ s.refused = shell.refused /\ s.agreed = shell.agreed
    BY <1>3, <1>4, CancelShape
  <2> QED BY <1>2, <2>1
<1>6. /\ Shaped' /\ ServerFits' /\ Flow' /\ Ordering' /\ Asks'
  BY <1>5, ReadFrame
<1>7. JobFits' /\ AtFits' /\ FailureIsTold'
  BY <1>1, <1>5 DEF IInv, JobFits, AtFits, FailureIsTold
<1>8. Doing'
  BY <1>1, <1>5 DEF IInv, Doing, ActionOn
<1>9. KindOf(shell.last)' = KindOf(shell.last)
  BY <1>5 DEF KindOf, Mutations
<1>10. Answers'
  <2>1. ASSUME NEW j \in DOMAIN lines' PROVE LineFits(lines[j])'
    <3>1. PICK e : e = lines'[j]
      OBVIOUS
    <3>2. LineFits(e)
      BY <1>1, <3>1 DEF IInv, Answers
    <3>3. LineFits(e)'
      BY <1>1, <1>5, <1>9, <3>2 DEF LineFits, ErrorFits, ResultFits, Reading, Alike, ActionOn
    <3> QED BY <3>1, <3>3
  <2> QED BY <2>1 DEF Answers
<1>11. Applied => Applied'
  <2>1. SUFFICES ASSUME Applied PROVE Applied'
    OBVIOUS
  <2>2. PICK i \in DOMAIN lines :
          lines[i].type = "result" /\ lines[i].id = shell.id /\ shell.last \in Mutations
    BY <2>1 DEF Applied
  <2>3. i # 1
    BY <1>1, <2>2
  <2>4. i - 1 \in DOMAIN lines' /\ lines'[i - 1] = lines[i]
    BY <1>1, <2>3
  <2>5. PICK j \in DOMAIN lines' : lines'[j] = lines[i]
    BY <2>4
  <2> QED BY <1>5, <2>2, <2>5 DEF Applied, Mutations
<1>12. Reviewed'
  BY <1>1, <1>5, <1>11 DEF IInv, Reviewed, Alike, ActionOn
<1>13. AnswersAreAccepted'
  BY <1>1, <1>5 DEF IInv, AnswersAreAccepted, Disagreement
<1> QED BY <1>6, <1>7, <1>8, <1>10, <1>11, <1>12, <1>13 DEF IInv

(* The end of a request.                                                    *)
LEMMA RequestEnds ==
  ASSUME IInv, ReadLine, NEW l, l = Head(lines), Settles(l), l.id = shell.id,
         ShellShape(shell'), shell'.app = shell.app, shell'.path = shell.path, shell'.key = shell.key,
         shell'.asks = shell.asks, shell'.last = shell.last, shell'.agreed = shell.agreed,
         shell'.id = 0, shell'.cancel = shell.cancel,
         shell.app = "setup" =>
           shell'.at \in {"new", "ready", "bound", "planned", "refresh", "reselect", "lost"},
         shell.app = "studio" => shell'.at \in {"new", "open"},
         shell'.at = "open" => disk # NoProject,
         Reviewed', AnswersAreAccepted', FailureIsTold'
  PROVE  IInv'
<1>1. /\ server = "up" /\ client.up /\ UNCHANGED <<disk, installed, others, requests, server, job, tree>>
      /\ l.id # 0
      /\ \A j \in DOMAIN lines' :
              /\ j \in Nat /\ j + 1 \in DOMAIN lines /\ lines'[j] = lines[j + 1] /\ lines'[j].id # l.id
  BY Read
<1>2. /\ Shaped' /\ ServerFits' /\ Flow' /\ Ordering' /\ Asks' /\ job = NoJob
  BY ReadFrame
<1>3. JobFits' /\ Doing'
  BY <1>1, <1>2 DEF JobFits, Doing
<1>4. AtFits'
  <2>1. tree # "before" => shell.path <= MaxPath
    BY DEF IInv, AtFits
  <2> QED BY <1>1, <2>1 DEF AtFits
<1>5. Answers'
  <2>1. ASSUME NEW j \in DOMAIN lines' PROVE LineFits(lines[j])'
    <3>1. PICK e : e = lines'[j]
      OBVIOUS
    <3>2. LineFits(e) /\ e.id # l.id /\ j + 1 \in DOMAIN lines /\ e = lines[j + 1]
      BY <1>1, <3>1 DEF IInv, Answers
    <3>3. e.id \in {shell.id, shell.cancel} \ {0} /\ (~Settles(e) => e.id = shell.id)
      BY <1>1, <3>2, OneAtATime
    <3>4. e.type # "event" /\ e.id # 0
      BY <3>2, <3>3 DEF Settles
    <3>5. LineFits(e)'
      BY <3>2, <3>4 DEF LineFits
    <3> QED BY <3>1, <3>5
  <2> QED BY <2>1 DEF Answers
<1> QED BY <1>2, <1>3, <1>4, <1>5 DEF IInv

\* What the shell becomes when a request ends.
Ended(s, to, told, bound, plan, refused) ==
  /\ ShellShape(s) /\ s.app = shell.app /\ s.path = shell.path /\ s.key = shell.key
  /\ s.asks = shell.asks /\ s.at = to /\ s.id = 0 /\ s.cancel = shell.cancel
  /\ s.last = shell.last /\ s.bound = bound /\ s.plan = plan
  /\ s.told = (IF shell.last \in Mutations THEN told ELSE shell.told)
  /\ s.refused = refused /\ s.agreed = shell.agreed

LEMMA EndedBy ==
  ASSUME ShellShape(shell), NEW to, NEW shown, NEW told, NEW x, NEW s
  PROVE  /\ s = Settled(to, shown, told) => Ended(s, to, told, shell.bound, shell.plan, shell.refused)
         /\ s = [Settled(to, shown, told) EXCEPT !.bound = x] =>
              Ended(s, to, told, x, shell.plan, shell.refused)
         /\ s = [Settled(to, shown, told) EXCEPT !.plan = x] =>
              Ended(s, to, told, shell.bound, x, shell.refused)
         /\ s = [Settled(to, shown, told) EXCEPT !.refused = x] =>
              Ended(s, to, told, shell.bound, shell.plan, x)
<1>1. PICK a : a = Settled(to, shown, told)
  OBVIOUS
<1>2. Ended(a, to, told, shell.bound, shell.plan, shell.refused)
  BY <1>1, SettledShape DEF Ended
<1>3. ASSUME s = [a EXCEPT !.bound = x] PROVE Ended(s, to, told, x, shell.plan, shell.refused)
  <2>1. ShellShape(a)
    BY <1>2 DEF Ended
  <2> QED BY <1>2, <2>1, <1>3 DEF Ended, ShellShape
<1>4. ASSUME s = [a EXCEPT !.plan = x] PROVE Ended(s, to, told, shell.bound, x, shell.refused)
  <2>1. ShellShape(a)
    BY <1>2 DEF Ended
  <2> QED BY <1>2, <2>1, <1>4 DEF Ended, ShellShape
<1>5. ASSUME s = [a EXCEPT !.refused = x] PROVE Ended(s, to, told, shell.bound, shell.plan, x)
  <2>1. ShellShape(a)
    BY <1>2 DEF Ended
  <2> QED BY <1>2, <2>1, <1>5 DEF Ended, ShellShape
<1> QED BY Zenon, <1>1, <1>2, <1>3, <1>4, <1>5

(* Where the shell is while it waits.                                       *)
LEMMA Waits ==
  ASSUME IInv, ReadLine, NEW l, l = Head(lines), l.id = shell.id
  PROVE  /\ shell.id # 0 /\ shell.app \in {"setup", "studio"}
         /\ shell.app = "setup" => shell.last \in SetupAsks
         /\ shell.app = "studio" => shell.last \in ProjectAsks
         /\ shell.app = "setup" => shell.at \in {"new", "ready", "bound", "planned", "refresh", "reselect", "lost"}
         /\ shell.app = "studio" => shell.at \in {"new", "open"}
         /\ shell.at = "open" => disk # NoProject
         /\ shell.last = "defaults" => shell.at = "new"
         /\ shell.last = "inspect" => shell.at = "ready"
         /\ shell.last = "prepareInstall" => shell.at \in {"bound", "planned", "refresh", "reselect"}
         /\ shell.last \in {"install", "uninstall", "launch"} => shell.at = "planned"
         /\ ShellShape(shell)
<1>1. shell.id # 0
  BY Read
<1>2. shell.app \in {"setup", "studio"} /\ ShellShape(shell)
  BY DEF IInv, Shaped
<1>3. AtFits
  BY DEF IInv
<1> QED BY <1>1, <1>2, <1>3 DEF AtFits

LEMMA NotApplied ==
  ASSUME IInv, ReadLine, NEW l, l = Head(lines), Settles(l), l.id = shell.id,
         l.type # "result" \/ shell.last \notin Mutations
  PROVE  ~Applied
<1>1. l = lines[1] /\ \A i \in DOMAIN lines : Settles(l) /\ lines[i].id = l.id => i = 1
  BY Read
<1>2. SUFFICES ASSUME Applied PROVE FALSE
  OBVIOUS
<1>3. PICK i \in DOMAIN lines :
        lines[i].type = "result" /\ lines[i].id = shell.id /\ shell.last \in Mutations
  BY <1>2 DEF Applied
<1> QED BY <1>1, <1>3

(* A request that fails, or whose result the shell refuses.                 *)
LEMMA RequestFailed ==
  ASSUME IInv, ReadLine, NEW l, l = Head(lines), Settles(l), l.id = shell.id,
         NEW code, NEW refused,
         Ended(shell', AfterError(code), code, shell.bound, shell.plan, refused),
         others = 0 => ~Applied,
         \A r \in refused : Disagreement(r),
         shell.last \in Mutations =>
           /\ code # "done" /\ (code = "rollback_failed" <=> tree = "torn")
           /\ tree = "after" => code = "invalid_backend_output"
           /\ tree = "unknown" => code = "internal_error"
  PROVE  IInv'
<1>1. UNCHANGED <<disk, installed, others, tree>>
  BY Read
<1>2. /\ shell.id # 0 /\ shell.app \in {"setup", "studio"}
      /\ shell.app = "setup" => shell.last \in SetupAsks
      /\ shell.app = "studio" => shell.last \in ProjectAsks
      /\ shell.app = "setup" => shell.at \in {"new", "ready", "bound", "planned", "refresh", "reselect", "lost"}
      /\ shell.app = "studio" => shell.at \in {"new", "open"}
      /\ shell.at = "open" => disk # NoProject
      /\ shell.last \in {"install", "uninstall", "launch"} => shell.at = "planned"
  BY Waits
<1>3. PICK to : to = AfterError(code)
  OBVIOUS
<1>4. /\ shell.at \in {"ready", "bound"} => to = "new"
      /\ shell.at = "refresh" => to = "planned"
      /\ shell.at = "reselect" => to = "lost"
      /\ shell.at = "planned" => to \in {"planned", "refresh"}
      /\ shell.at \in {"new", "lost"} => to = shell.at
      /\ shell.at = "open" => to = "open"
  BY <1>2, <1>3 DEF AfterError
<1>5. /\ ShellShape(shell') /\ shell'.app = shell.app /\ shell'.path = shell.path /\ shell'.key = shell.key
      /\ shell'.asks = shell.asks /\ shell'.at = to /\ shell'.id = 0 /\ shell'.cancel = shell.cancel
      /\ shell'.last = shell.last /\ shell'.bound = shell.bound /\ shell'.plan = shell.plan
      /\ shell'.told = (IF shell.last \in Mutations THEN code ELSE shell.told)
      /\ shell'.refused = refused /\ shell'.agreed = shell.agreed
  BY <1>3 DEF Ended
<1>6. Reviewed'
  <2>1. SUFFICES ASSUME others = 0, shell.app = "setup"
                 PROVE  /\ to \notin {"new", "ready"} => Alike(shell.bound, disk)
                        /\ to \in {"planned", "refresh"} =>
                             shell.plan.status = "recoveryRequired" \/ shell.plan.action = ActionOn(installed)
    BY <1>1, <1>5 DEF Reviewed, Alike, ActionOn
  <2>2. /\ shell.at \notin {"new", "ready"} => Alike(shell.bound, disk)
        /\ shell.at \in {"planned", "refresh"} =>
             shell.plan.status = "recoveryRequired" \/ shell.plan.action = ActionOn(installed)
    BY <2>1 DEF IInv, Reviewed
  <2> QED BY <1>2, <1>4, <2>1, <2>2
<1>7. AnswersAreAccepted'
  BY <1>1, <1>5 DEF AnswersAreAccepted, Disagreement
<1>8. FailureIsTold'
  BY <1>1, <1>5 DEF IInv, FailureIsTold
<1>9. to = "open" => disk # NoProject
  BY <1>2, <1>4
<1>10. /\ shell.app = "setup" => to \in {"new", "ready", "bound", "planned", "refresh", "reselect", "lost"}
       /\ shell.app = "studio" => to \in {"new", "open"}
  BY <1>2, <1>4
<1> QED BY <1>5, <1>6, <1>7, <1>8, <1>9, <1>10, RequestEnds

LEMMA ErrorKeeps ==
  ASSUME IInv, ReadLine, NEW l, l = Head(lines), Settles(l), l.id = shell.id, l.type = "error"
  PROVE  IInv'
<1>1. PICK code : code = Public(l.code)
  OBVIOUS
<1>2. shell' = ErrorComes(code)
  <2>1. l.id # shell.cancel
    BY Read
  <2>2. shell' = ErrorComes(Public(l.code))
    BY <2>1 DEF ReadLine, Settles
  <2> QED BY <1>1, <2>2
<1>3. PICK shown : shown = IF shell.at \in {"refresh", "reselect"} THEN shell.shown ELSE code
  OBVIOUS
<1>4. shell' = Settled(AfterError(code), shown, code)
  BY Zenon, <1>2, <1>3 DEF ErrorComes
<1>5. ShellShape(shell)
  BY Waits
<1>6. Ended(shell', AfterError(code), code, shell.bound, shell.plan, shell.refused)
  BY Zenon, <1>4, <1>5, EndedBy
<1>7. ~Applied
  BY NotApplied
<1>8. \A r \in shell.refused : Disagreement(r)
  BY DEF IInv, AnswersAreAccepted
<1>9. ASSUME shell.last \in Mutations
      PROVE  /\ code # "done" /\ (code = "rollback_failed" <=> tree = "torn")
             /\ tree = "after" => code = "invalid_backend_output"
             /\ tree = "unknown" => code = "internal_error"
  <2>1. ErrorFits(l.code)
    BY Read DEF LineFits
  <2>2. /\ code = "rollback_failed" <=> l.code = "rollback_failed"
        /\ code # "done" /\ (l.code = "internal_error" => code = "internal_error")
    BY <1>1, PublicCode
  <2> QED BY <1>9, <2>1, <2>2 DEF ErrorFits
<1> QED BY <1>6, <1>7, <1>8, <1>9, RequestFailed

LEMMA ReadResult ==
  ASSUME IInv, ReadLine, NEW l, l = Head(lines), l.id = shell.id, l.type = "result", NEW r, r = l.result
  PROVE  /\ shell' = ResultComes(r) /\ ResultFits(r) /\ Settles(l)
         /\ UNCHANGED <<disk, installed, others, tree>> /\ others \in Nat
<1>1. Settles(l)
  BY DEF Settles
<1>2. l.id # shell.cancel /\ LineFits(l) /\ UNCHANGED <<disk, installed, others, tree>>
  BY Read
<1>3. shell' = ResultComes(l.result)
  BY <1>1, <1>2 DEF ReadLine, Settles
<1>4. ResultFits(r)
  BY <1>2 DEF LineFits
<1>5. others \in Nat
  BY DEF IInv, Shaped
<1> QED BY <1>1, <1>2, <1>3, <1>4, <1>5

(* What the shell refuses, it is known to.                                  *)
LEMMA RefusedResult ==
  ASSUME NEW r, ResultFits(r), ~Accepts(r), others \in Nat, shell.last \in SetupAsks \cup ProjectAsks
  PROVE  Disagreement(r) /\ (shell.last \in Mutations => others # 0)
<1>1. CASE shell.last = "defaults"
  BY <1>1 DEF ResultFits, Accepts
<1>2. CASE shell.last = "inspect"
  BY <1>2 DEF ResultFits, Accepts, Disagreement, Mutations
<1>3. CASE shell.last = "prepareInstall"
  BY <1>3 DEF ResultFits, Accepts, Disagreement, Mutations
<1>4. CASE shell.last = "install"
  BY <1>4 DEF ResultFits, Accepts, Disagreement
<1>5. CASE shell.last \in {"uninstall", "launch"}
  BY <1>5 DEF ResultFits, Accepts, AcceptsId
<1>6. CASE shell.last = "resolvePayloadPath"
  BY <1>6 DEF Accepts
<1>7. CASE shell.last \in ProjectAsks \ {"resolvePayloadPath"}
  <2>1. AcceptsProject(r) \/ r.directory > 255 \/ r.description.bytes > MaxMessage
    BY <1>7 DEF ResultFits, Reading
  <2>2. ~AcceptsProject(r)
    BY <1>7 DEF Accepts, ProjectAsks
  <2>3. shell.last \notin {"prepareInstall", "install", "defaults", "uninstall", "launch", "inspect"}
    BY <1>7 DEF ProjectAsks
  <2> HIDE DEF AcceptsProject, MaxMessage
  <2> QED BY <2>1, <2>2, <2>3 DEF Disagreement, Mutations
<1> QED BY <1>1, <1>2, <1>3, <1>4, <1>5, <1>6, <1>7 DEF SetupAsks, ProjectAsks

LEMMA RejectedKeeps ==
  ASSUME IInv, ReadLine, NEW l, l = Head(lines), l.id = shell.id, l.type = "result",
         NEW r, r = l.result, ~Accepts(r)
  PROVE  IInv'
<1>1. shell' = ResultComes(r) /\ ResultFits(r) /\ Settles(l) /\ others \in Nat
  BY ReadResult
<1>2. PICK code, shown : /\ code = "invalid_backend_output"
                         /\ shown = IF shell.at \in {"refresh", "reselect"} THEN shell.shown ELSE code
  OBVIOUS
<1>3. shell' = [Settled(AfterError(code), shown, code) EXCEPT !.refused = {r}]
  BY Zenon, <1>1, <1>2 DEF ResultComes, ErrorComes
<1>4. ShellShape(shell) /\ shell.last \in SetupAsks \cup ProjectAsks
  BY Waits
<1>5. Ended(shell', AfterError(code), code, shell.bound, shell.plan, {r})
  BY Zenon, <1>3, <1>4, EndedBy
<1>6. Disagreement(r) /\ (shell.last \in Mutations => others # 0)
  BY <1>1, <1>4, RefusedResult
<1>7. others = 0 => ~Applied
  BY <1>1, <1>6, NotApplied
<1>8. \A x \in {r} : Disagreement(x)
  BY <1>6
<1>9. shell.last \in Mutations => tree = "after"
  BY <1>1 DEF ResultFits
<1> QED BY <1>1, <1>2, <1>5, <1>7, <1>8, <1>9, RequestFailed

(* What the shell takes.                                                    *)
LEMMA AcceptedKeeps ==
  ASSUME IInv, ReadLine, NEW l, l = Head(lines), l.id = shell.id, l.type = "result",
         NEW r, r = l.result, Accepts(r)
  PROVE  IInv'
<1>1. shell' = ResultComes(r) /\ ResultFits(r) /\ Settles(l) /\ UNCHANGED <<disk, installed, others, tree>>
  BY ReadResult
<1>2. /\ shell.id # 0 /\ shell.app \in {"setup", "studio"}
      /\ shell.app = "setup" => shell.last \in SetupAsks
      /\ shell.app = "studio" => shell.last \in ProjectAsks
      /\ shell.app = "setup" => shell.at \in {"new", "ready", "bound", "planned", "refresh", "reselect", "lost"}
      /\ shell.app = "studio" => shell.at \in {"new", "open"}
      /\ shell.at = "open" => disk # NoProject
      /\ shell.last = "prepareInstall" => shell.at \in {"bound", "planned", "refresh", "reselect"}
      /\ shell.last \in {"install", "uninstall", "launch"} => shell.at = "planned"
      /\ ShellShape(shell)
  BY Waits
<1>3. /\ others = 0 /\ shell.app = "setup" =>
           /\ shell.at \notin {"new", "ready"} => Alike(shell.bound, disk)
           /\ shell.at \in {"planned", "refresh"} =>
                Applied \/ shell.plan.status = "recoveryRequired" \/ shell.plan.action = ActionOn(installed)
      /\ shell.last \notin Mutations => ~Applied
  BY <1>1, NotApplied DEF IInv, Reviewed
<1>4. ASSUME NEW to, NEW told, NEW bound, NEW plan,
             Ended(shell', to, told, bound, plan, shell.refused),
             shell.app = "setup" => to \in {"new", "ready", "bound", "planned", "refresh", "reselect", "lost"},
             shell.app = "studio" => to \in {"new", "open"}, to = "open" => disk # NoProject,
             shell.last \in Mutations => told = "done" /\ tree = "after",
             others = 0 /\ shell.app = "setup" =>
               /\ to \notin {"new", "ready"} => Alike(bound, disk)
               /\ to \in {"planned", "refresh"} =>
                    plan.status = "recoveryRequired" \/ plan.action = ActionOn(installed)
      PROVE  IInv'
  <2>1. /\ ShellShape(shell') /\ shell'.app = shell.app /\ shell'.path = shell.path /\ shell'.key = shell.key
        /\ shell'.asks = shell.asks /\ shell'.at = to /\ shell'.id = 0 /\ shell'.cancel = shell.cancel
        /\ shell'.last = shell.last /\ shell'.bound = bound /\ shell'.plan = plan
        /\ shell'.told = (IF shell.last \in Mutations THEN told ELSE shell.told)
        /\ shell'.refused = shell.refused /\ shell'.agreed = shell.agreed
    BY <1>4 DEF Ended
  <2>2. Reviewed'
    BY <1>1, <1>4, <2>1 DEF Reviewed, Alike, ActionOn
  <2>3. AnswersAreAccepted'
    BY <1>1, <2>1 DEF IInv, AnswersAreAccepted, Disagreement
  <2>4. FailureIsTold'
    BY <1>1, <1>4, <2>1 DEF IInv, FailureIsTold
  <2> QED BY <1>1, <1>4, <2>1, <2>2, <2>3, <2>4, RequestEnds
<1>5. CASE shell.last = "defaults"
  <2>1. shell' = Settled("ready", None, None)
    BY Zenon, <1>1, <1>5 DEF ResultComes
  <2>2. Ended(shell', "ready", None, shell.bound, shell.plan, shell.refused)
    BY Zenon, <2>1, <1>2, EndedBy
  <2> QED BY <1>2, <1>4, <1>5, <2>2 DEF Mutations, ProjectAsks
<1>6. CASE shell.last = "inspect"
  <2>1. shell' = [Settled("bound", None, None) EXCEPT !.bound = r]
    BY Zenon, <1>1, <1>6 DEF ResultComes
  <2>2. Ended(shell', "bound", None, r, shell.plan, shell.refused)
    BY Zenon, <2>1, <1>2, EndedBy
  <2>3. others = 0 => Alike(r, disk)
    BY <1>1, <1>6 DEF ResultFits
  <2> QED BY <1>2, <1>4, <1>6, <2>2, <2>3 DEF Mutations, ProjectAsks
<1>7. CASE shell.last = "prepareInstall"
  <2>1. shell' = [Settled("planned", shell.shown, None) EXCEPT !.plan = r]
    BY Zenon, <1>1, <1>7 DEF ResultComes, Planned
  <2>2. Ended(shell', "planned", None, shell.bound, r, shell.refused)
    BY Zenon, <2>1, <1>2, EndedBy
  <2>3. others = 0 => r.status = "recoveryRequired" \/ r.action = ActionOn(installed)
    BY <1>1, <1>7 DEF ResultFits
  <2> QED BY <1>2, <1>3, <1>4, <1>7, <2>2, <2>3 DEF Mutations, ProjectAsks
<1>8. CASE shell.last = "install"
  <2>1. shell' = [Settled("planned", None, "done") EXCEPT !.plan = Repairs]
    BY Zenon, <1>1, <1>8 DEF ResultComes
  <2>2. Ended(shell', "planned", "done", shell.bound, Repairs, shell.refused)
    BY Zenon, <2>1, <1>2, EndedBy
  <2>3. tree = "after" /\ (others = 0 => installed.order = "same")
    BY <1>1, <1>8 DEF ResultFits, Mutations
  <2>4. others = 0 => Repairs.action = ActionOn(installed)
    BY <2>3 DEF Repairs, ActionOn
  <2> QED BY <1>2, <1>3, <1>4, <1>8, <2>2, <2>3, <2>4 DEF ProjectAsks
<1>9. CASE shell.last = "uninstall"
  <2>1. shell' = [Settled("reselect", None, "done") EXCEPT !.plan = NoPlan]
    BY Zenon, <1>1, <1>9 DEF ResultComes
  <2>2. Ended(shell', "reselect", "done", shell.bound, NoPlan, shell.refused)
    BY Zenon, <2>1, <1>2, EndedBy
  <2>3. tree = "after"
    BY <1>1, <1>9 DEF ResultFits, Mutations
  <2> QED BY <1>2, <1>3, <1>4, <1>9, <2>2, <2>3 DEF ProjectAsks
<1>10. CASE shell.last \in {"launch", "resolvePayloadPath"}
  <2>1. shell' = Settled(shell.at, None, None)
    BY Zenon, <1>1, <1>10 DEF ResultComes
  <2>2. Ended(shell', shell.at, None, shell.bound, shell.plan, shell.refused)
    BY Zenon, <2>1, <1>2, EndedBy
  <2>3. shell.last \notin Mutations
    BY <1>10 DEF Mutations
  <2> QED BY <1>2, <1>3, <1>4, <2>2, <2>3
<1>11. CASE shell.last \in ProjectAsks \ {"resolvePayloadPath"}
  <2>1. /\ shell.last # "defaults" /\ shell.last # "inspect" /\ shell.last # "prepareInstall"
        /\ shell.last # "install" /\ shell.last # "uninstall"
        /\ shell.last \notin {"launch", "resolvePayloadPath"} /\ shell.last \notin Mutations
        /\ shell.last \notin SetupAsks
    BY <1>11 DEF ProjectAsks, SetupAsks, Mutations
  <2>2. shell' = [Settled("open", None, None) EXCEPT !.bound = r]
    BY <1>1, <2>1 DEF ResultComes
  <2>3. Ended(shell', "open", None, r, shell.plan, shell.refused)
    BY Zenon, <2>2, <1>2, EndedBy
  <2>4. disk # NoProject
    BY <1>1, <1>11 DEF ResultFits, Reading
  <2> QED BY <1>2, <1>4, <2>1, <2>3, <2>4
<1> QED BY <1>2, <1>5, <1>6, <1>7, <1>8, <1>9, <1>10, <1>11 DEF SetupAsks, ProjectAsks

LEMMA ReadKeeps ==
  ASSUME IInv, ReadLine
  PROVE  IInv'
<1>1. PICK l : l = Head(lines)
  OBVIOUS
<1>2. LineFits(l) /\ l.id \in {shell.id, shell.cancel}
  BY <1>1, Read
<1>3. CASE ~Settles(l)
  BY <1>1, <1>3, EventKeeps
<1>4. CASE Settles(l) /\ l.id # shell.id
  BY <1>1, <1>4, CancelAnswered
<1>5. CASE l.id = shell.id /\ l.type = "error"
  BY <1>1, <1>5, ErrorKeeps DEF Settles
<1>6. CASE l.id = shell.id /\ l.type = "result"
  <2>1. PICK r : r = l.result
    OBVIOUS
  <2> QED BY <1>1, <1>6, <2>1, RejectedKeeps, AcceptedKeeps
<1>7. l.type \in {"event", "error", "result"}
  BY <1>2 DEF LineFits
<1> QED BY <1>3, <1>4, <1>5, <1>6, <1>7 DEF Settles

-----------------------------------------------------------------------------
(* Every request of the shell.                                              *)

LEMMA PlainAsk ==
  ASSUME IInv, NEW method, NEW params, Ask(method, params, KindOf(method)),
         method \in IF shell.app = "setup" THEN SetupAsks ELSE ProjectAsks,
         method # "install", ParamsFit(method, params),
         method = "defaults" => shell.at = "new",
         method = "inspect" => shell.at = "ready",
         method = "prepareInstall" => shell.at \in {"bound", "planned", "refresh", "reselect"},
         method \in {"uninstall", "launch"} => shell.at = "planned",
         method \in ProjectAsks \ {"initProject", "validateProject"} => shell.at = "open"
  PROVE  IInv'
<1>1. Idle /\ Submit(method, params, KindOf(method)) /\ shell' = Asked(method)
  BY DEF Ask
<1>2. ShellShape(shell)
  BY DEF IInv, Shaped
<1>3. PICK s : s = shell'
  OBVIOUS
<1>4. Asking(s, method, shell.agreed)
  BY Zenon, <1>1, <1>2, <1>3, AskedShape
<1>5. Asking(shell', method, shell.agreed)
  BY Zenon, <1>3, <1>4
<1>6. PICK c : c = shell.agreed
  OBVIOUS
<1>7. Asking(shell', method, c)
  BY Zenon, <1>5, <1>6
<1> QED BY <1>1, <1>6, <1>7, AskKeeps

(* Setup and Studio are each at places of their own.                        *)
LEMMA AppAt ==
  ASSUME IInv
  PROVE  /\ shell.app \in {"setup", "studio"}
         /\ shell.at \in {"ready", "bound", "planned", "refresh", "reselect"} => shell.app = "setup"
         /\ shell.at = "open" => shell.app = "studio"
<1>1. shell.app \in {"setup", "studio"}
  BY DEF IInv, Shaped
<1> QED BY <1>1 DEF IInv, AtFits

LEMMA SetupAsksKeep ==
  ASSUME IInv, AskDefaults \/ AskInspect \/ AskPrepare \/ AskUninstall \/ AskLaunch
  PROVE  IInv'
<1>1. "defaults" \notin DOMAIN AskWith
      /\ "inspect" \notin DOMAIN AskWith /\ "prepareInstall" \notin DOMAIN AskWith
      /\ "uninstall" \notin DOMAIN AskWith /\ "launch" \notin DOMAIN AskWith
  BY AskWithFields
<1>2. /\ KindOf("defaults") = "request" /\ KindOf("inspect") = "request" /\ KindOf("prepareInstall") = "request"
      /\ KindOf("uninstall") = "uninstall" /\ KindOf("launch") = "request"
  BY DEF KindOf, Mutations
<1>3. CASE AskDefaults
  <2>1. PICK p : p = [none \in {} |-> None]
    OBVIOUS
  <2>2. shell.app = "setup" /\ shell.at = "new" /\ Ask("defaults", p, KindOf("defaults"))
    BY <1>2, <1>3, <2>1 DEF AskDefaults
  <2>3. ParamsFit("defaults", p)
    BY <1>1, <2>1 DEF ParamsFit
  <2> QED BY <2>2, <2>3, PlainAsk DEF SetupAsks, ProjectAsks
<1>4. CASE AskInspect
  <2>1. PICK p : p = [packagePath |-> shell.path]
    OBVIOUS
  <2>2. shell.app = "setup" /\ shell.at = "ready" /\ Ask("inspect", p, KindOf("inspect"))
    BY <1>2, <1>4, <2>1, AppAt DEF AskInspect
  <2>3. ParamsFit("inspect", p)
    BY <1>1, <2>1 DEF ParamsFit
  <2> QED BY <2>2, <2>3, PlainAsk DEF SetupAsks, ProjectAsks
<1>5. CASE AskPrepare
  <2>1. PICK p : p = PrepareParams
    OBVIOUS
  <2>2. /\ shell.app = "setup" /\ shell.at \in {"bound", "planned", "refresh", "reselect"}
        /\ Ask("prepareInstall", p, KindOf("prepareInstall"))
    BY <1>2, <1>5, <2>1, AppAt DEF AskPrepare
  <2>3. ParamsFit("prepareInstall", p)
    BY <1>1, <2>1 DEF ParamsFit
  <2> QED BY <2>2, <2>3, PlainAsk DEF SetupAsks, ProjectAsks
<1>6. CASE AskUninstall
  <2>1. PICK p : p = PackageParams
    OBVIOUS
  <2>2. shell.app = "setup" /\ shell.at = "planned" /\ Ask("uninstall", p, KindOf("uninstall"))
    BY <1>2, <1>6, <2>1, AppAt DEF AskUninstall
  <2>3. ParamsFit("uninstall", p)
    BY <1>1, <2>1 DEF ParamsFit
  <2> QED BY <2>2, <2>3, PlainAsk DEF SetupAsks, ProjectAsks
<1>7. CASE AskLaunch
  <2>1. PICK p : p = PackageParams
    OBVIOUS
  <2>2. shell.app = "setup" /\ shell.at = "planned" /\ Ask("launch", p, KindOf("launch"))
    BY <1>2, <1>7, <2>1, AppAt DEF AskLaunch
  <2>3. ParamsFit("launch", p)
    BY <1>1, <2>1 DEF ParamsFit
  <2> QED BY <2>2, <2>3, PlainAsk DEF SetupAsks, ProjectAsks
<1> QED BY <1>3, <1>4, <1>5, <1>6, <1>7

LEMMA InstallAskKeeps ==
  ASSUME IInv, AskInstall
  PROVE  IInv'
<1>1. PICK c \in Consents : /\ Idle /\ Submit("install", InstallParams(c), "install")
                            /\ shell' = [Asked("install") EXCEPT !.agreed = c]
  BY Zenon DEF AskInstall
<1>2. shell.at = "planned" /\ shell.app = "setup"
  BY AppAt DEF AskInstall
<1>3. ShellShape(shell)
  BY DEF IInv, Shaped
<1>4. PICK s : s = shell'
  OBVIOUS
<1>5. Asking(s, "install", c)
  BY Zenon, <1>1, <1>3, <1>4, AgreedShape
<1>6. Asking(shell', "install", c)
  BY Zenon, <1>4, <1>5
<1>7. KindOf("install") = "install"
  BY DEF KindOf, Mutations
<1>8. PICK p : p = InstallParams(c)
  OBVIOUS
<1>9. Idle /\ Submit("install", p, KindOf("install"))
  BY Zenon, <1>1, <1>7, <1>8
<1> QED BY <1>2, <1>6, <1>8, <1>9, AskKeeps DEF SetupAsks, ProjectAsks

LEMMA ProjectAsksKeep ==
  ASSUME IInv, AskOpen \/ AskReload \/ AskUpdate \/ AskProject
  PROVE  IInv'
<1>1. /\ DOMAIN AskWith = {"importPayload", "resolvePayloadPath", "buildProject"}
      /\ \A method \in ProjectAsks : KindOf(method) = "request"
  BY AskWithFields DEF KindOf, Mutations, ProjectAsks
<1>2. PICK p : p = ProjectParams
  OBVIOUS
<1>3. /\ ParamsFit("initProject", p) /\ ParamsFit("validateProject", p)
  BY <1>1, <1>2 DEF ParamsFit
<1>4. CASE AskOpen
  <2>1. PICK method \in {"initProject", "validateProject"} : Ask(method, p, "request")
    BY <1>2, <1>4 DEF AskOpen
  <2>2. shell.app = "studio" /\ Ask(method, p, KindOf(method))
    BY <1>1, <1>4, <2>1 DEF AskOpen, ProjectAsks
  <2>3. ParamsFit(method, p)
    BY <1>3, <2>1
  <2> QED BY <2>1, <2>2, <2>3, PlainAsk DEF ProjectAsks
<1>5. CASE AskReload
  <2>1. shell.app = "studio" /\ Ask("validateProject", p, KindOf("validateProject"))
    BY <1>1, <1>2, <1>5, AppAt DEF AskReload, ProjectAsks
  <2> QED BY <1>3, <2>1, PlainAsk DEF ProjectAsks
<1>6. CASE AskUpdate
  <2>1. PICK form \in Forms :
          Ask("updateProject",
              With(ProjectParams, [package |-> form, target |-> form.target, install |-> form]), "request")
    BY <1>6 DEF AskUpdate
  <2>2. PICK w : w = With(ProjectParams, [package |-> form, target |-> form.target, install |-> form])
    OBVIOUS
  <2>3. shell.at = "open" /\ shell.app = "studio" /\ Ask("updateProject", w, KindOf("updateProject"))
    BY <1>1, <1>6, <2>1, <2>2, AppAt DEF AskUpdate, ProjectAsks
  <2>4. ParamsFit("updateProject", w)
    BY <1>1, <2>2 DEF ParamsFit
  <2> QED BY <2>3, <2>4, PlainAsk DEF ProjectAsks
<1>7. CASE AskProject
  <2>1. PICK method \in DOMAIN AskWith : Ask(method, With(ProjectParams, AskWith[method]), "request")
    BY <1>7 DEF AskProject
  <2>2. PICK w : w = With(ProjectParams, AskWith[method])
    OBVIOUS
  <2>3. shell.at = "open" /\ shell.app = "studio" /\ Ask(method, w, KindOf(method))
    BY <1>1, <1>7, <2>1, <2>2, AppAt DEF AskProject, ProjectAsks
  <2>4. ParamsFit(method, w)
    BY <1>1, <2>1, <2>2 DEF ParamsFit
  <2> QED BY <1>1, <2>1, <2>3, <2>4, PlainAsk DEF ProjectAsks
<1> QED BY <1>4, <1>5, <1>6, <1>7

LEMMA ShellKeeps ==
  ASSUME IInv, ShellStep
  PROVE  IInv'
BY SetupAsksKeep, InstallAskKeeps, ProjectAsksKeep, TooMuchKeeps, CancelKeeps DEF ShellStep

-----------------------------------------------------------------------------
(* Every step, and what it is for.                                          *)

LEMMA StutterKeeps ==
  ASSUME IInv, UNCHANGED vars
  PROVE  IInv'
<1>1. UNCHANGED <<disk, installed, others, shell, client, requests, server, job, tree, lines>>
  BY DEF vars
<1>2. Shaped' /\ ServerFits'
  BY <1>1 DEF IInv, Shaped, ServerFits, ShellShape, JobShape
<1>3. Flow' /\ Ordering'
  BY <1>1 DEF IInv, Flow, Ordering, KindOf, Mutations, Settles
<1>4. Asks'
  <2>1. ASSUME NEW i \in DOMAIN requests
        PROVE  /\ requests[i].method \in SetupAsks \cup ProjectAsks \cup {"cancel"}
               /\ ParamsFit(requests[i].method, requests[i].params)'
    <3>1. PICK r : r = requests[i]
      OBVIOUS
    <3>2. r.method \in SetupAsks \cup ProjectAsks \cup {"cancel"} /\ ParamsFit(r.method, r.params)
      BY <3>1 DEF IInv, Asks
    <3>3. ParamsFit(r.method, r.params)'
      BY <1>1, <3>2, ParamsFrame
    <3> QED BY <1>1, <3>1, <3>2, <3>3
  <2> QED BY <1>1, <2>1 DEF Asks
<1>5. JobFits' /\ AtFits' /\ FailureIsTold' /\ Reviewed' /\ Doing'
  BY <1>1 DEF IInv, JobFits, AtFits, FailureIsTold, Reviewed, Doing, Applied, Alike, ActionOn
<1>6. Answers'
  <2>1. ASSUME server # "exited", NEW i \in DOMAIN lines PROVE LineFits(lines[i])'
    <3>1. PICK l : l = lines[i]
      OBVIOUS
    <3>2. LineFits(l)'
      BY <1>1, <2>1, <3>1, LineFrame DEF IInv, Answers
    <3> QED BY <1>1, <3>1, <3>2
  <2> QED BY <1>1, <2>1 DEF Answers
<1>7. AnswersAreAccepted'
  BY <1>1 DEF IInv, AnswersAreAccepted, Disagreement
<1> QED BY <1>2, <1>3, <1>4, <1>5, <1>6, <1>7 DEF IInv

(* What every line, every request, every job and every screen is, whatever  *)
(* package, project and form and however many requests (the inductive       *)
(* invariant of the session).                                               *)
THEOREM Invariance == Spec => []IInv
<1>1. Init => IInv
  BY InitIInv
<1>2. IInv /\ [Next]_vars => IInv'
  <2>1. SUFFICES ASSUME IInv, [Next]_vars PROVE IInv'
    OBVIOUS
  <2>2. CASE UNCHANGED vars
    BY <2>1, <2>2, StutterKeeps
  <2>3. CASE Next
    BY <2>1, <2>3, ShellKeeps, StartKeeps, RequestHandled, CancelHandled, WorkerKeeps, ReadKeeps,
       FailsKeeps, OthersKeep DEF Next, ClientStep
  <2> QED BY <2>1, <2>2, <2>3
<1> QED BY <1>1, <1>2, PTL DEF Spec

(* The two ends of the pipe agree: the client never takes the CLI for       *)
(* something else, the CLI understands every request, and the shell takes   *)
(* every result, but for the disagreements the property names.              *)
THEOREM EndsAlwaysAgree == Spec => []EndsAgree
<1>1. IInv => EndsAgree
  <2>1. SUFFICES ASSUME IInv PROVE EndsAgree
    OBVIOUS
  <2>2. HealthyStaysUp
    <3>1. client.up \/ server = "exited"
      BY <2>1 DEF IInv, ServerFits
    <3> QED BY <2>1, <3>1 DEF HealthyStaysUp, IInv, ServerFits
  <2>3. RequestsAreUnderstood
    <3>1. SUFFICES ASSUME NEW i \in DOMAIN requests, ~(shell.path > MaxPath),
                          ~(requests[i].method = "updateProject" /\ ~requests[i].params.package.parses)
                   PROVE  Decodes(requests[i])
      BY DEF RequestsAreUnderstood
    <3>2. PICK q : q = requests[i]
      OBVIOUS
    <3>3. q.method \in SetupAsks \cup ProjectAsks \cup {"cancel"} /\ ParamsFit(q.method, q.params)
      BY <2>1, <3>2 DEF IInv, Asks
    <3>4. shell.path \in Nat \ {0}
      BY <2>1 DEF IInv, Shaped
    <3>5. MaxPath \in Nat
      BY SMT DEF MaxPath
    <3>6. shell.path <= MaxPath
      <4> HIDE DEF MaxPath
      <4> QED BY <3>1, <3>4, <3>5
    <3>7. q.method = "updateProject" => q.params.package.parses
      BY Zenon, <3>1, <3>2
    <3>8. Decodes(q)
      BY Zenon, <3>3, <3>4, <3>6, <3>7, Understands
    <3> QED BY Zenon, <3>2, <3>8
  <2> QED BY <2>1, <2>2, <2>3 DEF EndsAgree, IInv
<1> QED BY <1>1, Invariance, PTL

(* An install that changes the destination is of the package that was       *)
(* shown, with the consents it calls for, and is never a downgrade.         *)
THEOREM OnlyTheAgreed == Spec => []OnlyWhatWasAgreed
<1>1. IInv => OnlyWhatWasAgreed
  <2>1. SUFFICES ASSUME IInv, job # NoJob, job.method = "install", job.at \in {"applying", "committing"}
                 PROVE  /\ job.m.print = shell.bound.print
                        /\ job.m.signer = None => shell.agreed.unsigned
                        /\ job.m.license # Absent => shell.agreed.license
                        /\ installed.migrate => shell.agreed.migration
                        /\ installed.order # "newer"
    BY DEF OnlyWhatWasAgreed
  <2>2. /\ job.args.expectedFingerprint = shell.bound.print
        /\ job.args.allowUnsigned => shell.agreed.unsigned
        /\ job.args.acceptLicense => shell.agreed.license
        /\ job.args.allowPublisherMigration => shell.agreed.migration
    BY <2>1 DEF IInv, JobFits
  <2>3. /\ job.m.print = job.args.expectedFingerprint
        /\ job.m.signer = None => job.args.allowUnsigned
        /\ job.m.license # Absent => job.args.acceptLicense
        /\ installed.migrate => job.args.allowPublisherMigration
        /\ installed.order \notin {"newer", "other"}
    BY <2>1 DEF IInv, Doing, Acting
  <2> QED BY <2>2, <2>3
<1> QED BY <1>1, Invariance, PTL

(* What the user is told of an install or uninstall is what happened to     *)
(* the destination.                                                         *)
THEOREM FailuresAreTold == Spec => []FailureIsTold
<1>1. IInv => FailureIsTold
  BY DEF IInv
<1> QED BY <1>1, Invariance, PTL

=============================================================================
