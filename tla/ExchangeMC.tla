----------------------------- MODULE ExchangeMC -----------------------------
(* A package or a project for each limit that some end checks, a            *)
(* destination for each plan, and a key for each way one can be bad.        *)
EXTENDS Exchange

Text(c, b) == [chars |-> c, bytes |-> b]
Short == Text(10, 10)
Link  == [label |-> Short, url |-> 40, https |-> TRUE]

Basic ==
  [id |-> "app", format |-> 1, schema |-> 1, signer |-> None, next |-> None, name |-> Short,
   publisher |-> Short, version |-> Short, description |-> Absent, license |-> Absent,
   directory |-> 10, target |-> Host, entry |-> FALSE, lower |-> FALSE, log |-> FALSE,
   links |-> <<>>, files |-> 2, size |-> 1, print |-> "p", parses |-> TRUE]
Rich ==
  [Basic EXCEPT !.format = 2, !.schema = 3, !.signer = "k1", !.license = Short, !.entry = TRUE,
                !.lower = TRUE, !.links = <<Link>>]
Rotates == [Rich EXCEPT !.format = 3, !.next = "k2"]

(* One field of a package at its limit.                                     *)
AtLimit(m) ==
  {[m EXCEPT !.name = t] : t \in {Text(128, 512), Text(129, 129)}}
  \cup {[m EXCEPT !.version = t] : t \in {Text(1024, 1024), Text(1025, 1025)}}
  \cup {[m EXCEPT !.description = t] : t \in {Text(1024, 1024), Text(600, 1200)}}
  \cup {[m EXCEPT !.directory = b] : b \in {255, 256}}
  \cup {[m EXCEPT !.license = t] : t \in {Text(16384, 65536), Text(16385, 16385)}}
  \cup {[m EXCEPT !.files = n, !.log = TRUE] : n \in {128, 129}}
  \cup {[m EXCEPT !.files = MaxFiles], [m EXCEPT !.size = MaxPayload]}
  \cup {[m EXCEPT !.links = <<[Link EXCEPT !.label = Text(48, 192), !.url = 2048]>>]}

NoKey    == [given |-> FALSE, regular |-> TRUE, bytes |-> 0, pem |-> FALSE]
GoodKey  == [given |-> TRUE, regular |-> TRUE, bytes |-> MaxKeyBytes, pem |-> TRUE]
BadKeys  == {[GoodKey EXCEPT !.regular = FALSE], [GoodKey EXCEPT !.bytes = @ + 1], [GoodKey EXCEPT !.pem = FALSE]}

Holds(order) == [order |-> order, version |-> Short, migrate |-> FALSE, files |-> 2]
Destinations ==
  {NothingInstalled, [Holds("older") EXCEPT !.migrate = TRUE],
   [Holds("older") EXCEPT !.version = Text(1025, 1025)]}
  \cup {Holds(order) : order \in {"older", "same", "newer", "other"}}

Start(app, m, asks) ==
  [app |-> app, disk |-> m, installed |-> NothingInstalled, key |-> NoKey, path |-> 100, asks |-> asks]
Packages == {m \in {Rotates, [Rich EXCEPT !.target = "elsewhere"]} \cup AtLimit(Rich) : ValidBundle(m)}
Projects == {m \in {Basic, Rich} \cup AtLimit(Basic) \cup AtLimit(Rich) : ValidManifest(m)}

(* Limits need a session that gets to a plan, agreement one that installs,  *)
(* loses a file or a destination to others, plans again and removes.        *)
MCStarts ==
  {Start("setup", m, 3) : m \in Packages} \cup {Start("studio", m, 2) : m \in Projects}
  \cup {Start("setup", Basic, 6), Start("studio", Basic, 3), Start("studio", NoProject, 2),
        [Start("setup", Rotates, 4) EXCEPT !.installed = Holds("older")]}
  \cup {[Start("setup", Rich, 4) EXCEPT !.installed = i] : i \in Destinations}
  \cup {[Start("setup", Rich, 4) EXCEPT !.key = key] : key \in BadKeys \cup {GoodKey}}
  \cup {[Start(app, Basic, 2) EXCEPT !.path = path] :
           app \in {"setup", "studio"}, path \in {MaxPath, MaxPath + 1}}

MCForms ==
  {Basic, Rich, [Rich EXCEPT !.links = <<[Link EXCEPT !.https = FALSE]>>], [Basic EXCEPT !.parses = FALSE]}
  \cup AtLimit(Basic)
MCReplacements == {[Basic EXCEPT !.print = "q"], [Rich EXCEPT !.print = "q"]}
MCPorts == {"Integrity", "Capacity"}
=============================================================================
