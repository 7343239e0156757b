------------------------------- MODULE Inputs -------------------------------
(***************************************************************************)
(* The sequential parts of the program, each over any inputs of its own:   *)
(* an initial state is one input, x, of one of the pure functions; the     *)
(* lines that an adapter's parser reads one by one; or the entries of an   *)
(* image layer, applied one by one.                                        *)
(***************************************************************************)
EXTENDS Adapters, Layers, Redactor, DnsWire

CONSTANTS
  Networks,       \* pairs of the hashes of two Runs' ids
  Firewalls,      \* what iptables -S prints
  Environments,   \* what the variables of a Sandbox Run are made of
  Commands,       \* an agent's command, and what the User Script declares with it
  Images,         \* a tree and a layer for it
  Accounts, Passwd, Homes, Groups, GroupOf, Members,   \* of TargetUser
  Starts,         \* who starts the core, and with which directories
  Streams,        \* secrets, and the pieces a stream arrives in
  Queries         \* the questions of a DNS query, what follows them, and how much is cut off

VARIABLE x

net  == INSTANCE HostNet
spec == INSTANCE GuestSpec
user == INSTANCE TargetUser

\* Who is who: root has an account, and "none" is nobody's name.
UserAssumption ==
  /\ Accounts \subseteq STRING /\ "none" \notin Accounts
  /\ "root" \in Passwd /\ Passwd \subseteq Accounts /\ Homes \subseteq Passwd
  /\ "root" \in Groups /\ "none" \notin Groups
  /\ GroupOf \in [Passwd -> Groups] /\ Members \in [Passwd -> SUBSET Groups]

\* Each constant is a set of inputs of its kind.
ASSUME InputsAssumption ==
  /\ Networks \subseteq [of : {"networks"}, h : net!Hashes, k : net!Hashes]
  /\ Firewalls \subseteq [of : {"firewall"}, lines : Seq(net!Rules)]
  /\ \A e \in Environments : e.of = "environment" /\ e.proxy \in BOOLEAN
  /\ Commands \subseteq [of : {"command"}, adapter : spec!Adapters, options : Seq(spec!Options),
                         cmd : Seq(spec!CommandWords), at : Seq(Nat), endpoints : SUBSET STRING, image : STRING]
  /\ \A c \in Commands : spec!LaidOut(c.cmd, c.options, c.at)
  /\ UserAssumption
  /\ Starts \subseteq [of : {"start"}, inputs : user!Inputs, env : user!StartEnvironments]
  /\ Streams \subseteq [of : {"stream"}, secrets : SUBSET Secrets, chunks : Seq(Seq(Characters))]
  /\ \A s \in Streams : IsFiniteSet(s.secrets) /\ Apart(s.secrets)
  /\ Queries \subseteq [of : {"query"}, questions : Seq(Seq(Labels)), extra : Seq(0 .. 255), cut : Nat]

\* A layer's tree is one, and its entries are what an archive can have.
ASSUME ImagesAssumption ==
  \A m \in Images :
    /\ m.tree = [p \in DOMAIN m.tree |-> m.tree[p]] /\ DOMAIN m.tree \subseteq Seq(STRING)
    /\ Tree(m.tree)
    /\ m.layer \in Seq(Entries(Seq(STRING), STRING))

-----------------------------------------------------------------------------
(* What holds of every input; each is stated where the algorithm is. *)

\* sandbox_net.rs: no two Runs share an address unless their hashes do.
RunsHaveNetworks == x.of = "networks" => net!NetworksApart(x.h, x.k)

\* firewall_check.rs: a Run that is let start is not dropped but by what the check leaves out.
FirewallsJudged == x.of = "firewall" => net!FirewallJudged(x.lines)

\* sandbox.rs and run_spec.rs: the agent has the environment and the endpoints it is given.
SpecHonoured ==
  /\ x.of = "environment" => spec!AgentEnvironment(x)
  /\ x.of = "command" => spec!ServerDeclared(x.options, x)

\* target_user.rs: root becomes its user, with that user's groups, or stops.
RootDropped == x.of = "start" => user!DropIsSafe(x.inputs, x.env)

\* redactor.rs and encoder.rs: secrets do not come out.
SecretsRedacted == x.of = "stream" => RedactedWhole(x.chunks, x.secrets)

\* dns.rs: what is asked is what is judged and what is refused.
QuestionsKept == x.of = "query" => DnsRoundTrip(x.questions, x.extra, x.cut)

-----------------------------------------------------------------------------

Parser == [of |-> "parser"]
Layer  == [of |-> "layer"]

Init ==
  \/ /\ x \in Networks \cup Firewalls \cup Environments \cup Commands \cup Starts \cup Streams \cup Queries
     /\ AdapterInit({"aider"}) /\ LayerInit(<< >>, << >>)
  \/ x = Parser /\ AdapterInit({"aider", "claude", "codex", "pi"}) /\ LayerInit(<< >>, << >>)
  \/ x = Layer /\ AdapterInit({"aider"}) /\ \E m \in Images : LayerInit(m.tree, m.layer)

Next ==
  /\ \/ x = Parser /\ AdapterNext /\ UNCHANGED layerVars
     \/ x = Layer /\ apply_layer /\ UNCHANGED adapterVars
  /\ UNCHANGED x

vars == <<x, adapterVars, layerVars>>
Spec == Init /\ [][Next]_vars
=============================================================================
