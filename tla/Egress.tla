------------------------------- MODULE Egress -------------------------------
(***************************************************************************)
(* How a sandbox's attempts to reach the network are judged and reported:  *)
(* the policy (egress.rs), the proxy (egress_proxy.rs), the DNS listener   *)
(* (dns.rs) and the drop log of the nftables rules (sandbox_nft.rs), which *)
(* share one unbounded channel of denials.                                 *)
(*                                                                         *)
(* Each attempt is served by a task of its own, which outlives the abort   *)
(* of the listener that accepted it.  The proxy answers first and reports  *)
(* then; the DNS listener reports first.                                   *)
(***************************************************************************)
EXTENDS Naturals, FiniteSets

CONSTANTS
  Tries,       \* the attempts the agent makes
  Asks,        \* what an attempt may ask for
  Listeners,   \* what could be bound, of {"connect", "dns", "raw"}
  Declared,    \* endpoints the adapter declares
  Added        \* endpoints the User Script adds

VARIABLES
  try,         \* per attempt: what was asked, and how far it has got
  listening,   \* the proxy, the DNS listener and the drop log's pump are there
  denials,     \* the channel: attempts whose denial was sent and not yet taken
  denied       \* attempts shown as egress_denied

egressVars == <<try, listening, denials, denied>>

-----------------------------------------------------------------------------
(* The policy.  An endpoint is a name and how it was spelled: as upper, with *)
(* capitals or blanks around it, or as it is compared.                       *)

\* What trim and to_ascii_lowercase leave of a spelling.
Norm(host) == [name |-> host.name, upper |-> FALSE]

compose(declared, added) == {Norm(h) : h \in declared \cup added}

allows(host) == Norm(host) \in compose(Declared, Added)

\* A CONNECT, an absolute URI, a DNS query of some questions, or a packet to any
\* other place.  What does not parse has no destination.
Asked == [via : {"connect", "uri", "dns"}, hosts : {{}} \cup
            {{h} : h \in [name : {"model", "other"}, upper : BOOLEAN]} \cup
            {{[name |-> "model", upper |-> FALSE], [name |-> "other", upper |-> FALSE]}}]
         \cup [via : {"raw"}, hosts : {{}}]

Requests == {a \in Asked : a.via # "dns" => Cardinality(a.hosts) <= 1}

ASSUME EgressAssumption == Asks \subseteq Requests /\ Listeners \subseteq {"connect", "dns", "raw"}

Parses(a) == a.hosts # {}

evaluate(a) == \A h \in a.hosts : allows(h)

\* Mutant: one allowed question lets the others pass.
EvaluateAnyQuestion(a) == \E h \in a.hosts : allows(h)

\* A query is forwarded only when every question is allowed.
evaluate_dns_query(a) == \A h \in a.hosts : allows(h)

-----------------------------------------------------------------------------

Nothing == [via |-> "none", hosts |-> {}]

EgressInit ==
  /\ try = [t \in Tries |-> [asked |-> Nothing, st |-> "idle"]]
  /\ listening = Listeners
  /\ denials = {} /\ denied = {}

Step(t, from, to) == try[t].st = from /\ try' = [try EXCEPT ![t].st = to]
Send(t) == denials' = denials \cup {t}

\* The agent tries; the rules drop what is not for a listener, and log it.
Attempt(t) ==
  /\ try[t].st = "idle"
  /\ \E a \in Asks :
       LET service == IF a.via = "uri" THEN "connect" ELSE a.via
       IN  /\ service = "raw" \/ service \in listening
           /\ try' = [try EXCEPT ![t] = [asked |-> a,
                        st |-> IF service = "raw" THEN "dropped" ELSE "asked"]]
  /\ UNCHANGED <<listening, denials, denied>>

\* serve_connection: 400 for what does not parse and for an allowed URI, a tunnel or
\* 502 for an allowed CONNECT, and 403 for the rest.
ServeConnection(t) ==
  LET a == try[t].asked IN
  /\ a.via \in {"connect", "uri"}
  /\ \/ ~Parses(a) /\ Step(t, "asked", "bad")
     \/ Parses(a) /\ evaluate(a) /\ a.via = "uri" /\ Step(t, "asked", "bad")
     \/ Parses(a) /\ evaluate(a) /\ a.via = "connect"
        /\ (Step(t, "asked", "passed") \/ Step(t, "asked", "unreachable"))
     \/ Parses(a) /\ ~evaluate(a) /\ Step(t, "asked", "refused")
  /\ UNCHANGED <<listening, denials, denied>>

\* Only now is the denial sent.
ReportConnection(t) ==
  /\ try[t].asked.via \in {"connect", "uri"} /\ Step(t, "refused", "reported") /\ Send(t)
  /\ UNCHANGED <<listening, denied>>

\* Mutant: the answer goes out before the report, as in the proxy.
HandleDnsAnswerFirst(t) ==
  LET a == try[t].asked IN
  /\ a.via = "dns"
  /\ \/ Parses(a) /\ ~evaluate_dns_query(a) /\ Step(t, "asked", "refused") /\ UNCHANGED denials
     \/ Step(t, "refused", "late") /\ Send(t)
  /\ UNCHANGED <<listening, denied>>

\* handle_dns_query: no answer to what does not parse or when upstream has none; a
\* denial is sent and then answered.
HandleDnsQuery(t) ==
  LET a == try[t].asked IN
  /\ a.via = "dns"
  /\ \/ ~Parses(a) /\ Step(t, "asked", "silent") /\ UNCHANGED denials
     \/ Parses(a) /\ evaluate_dns_query(a) /\ UNCHANGED denials
        /\ (Step(t, "asked", "passed") \/ Step(t, "asked", "silent"))
     \/ Parses(a) /\ ~evaluate_dns_query(a) /\ Step(t, "asked", "reported") /\ Send(t)
  /\ UNCHANGED <<listening, denied>>

\* build_refused_response, sent by the task that served the query.
RefuseDnsQuery(t) ==
  /\ try[t].asked.via = "dns" /\ Step(t, "reported", "refused")
  /\ UNCHANGED <<listening, denials, denied>>

\* pump_drop_log_lines: the kernel's line comes back through journalctl.
PumpDropLog(t) ==
  /\ "raw" \in listening /\ Step(t, "dropped", "reported") /\ Send(t)
  /\ UNCHANGED <<listening, denied>>

\* emit_denial
TakeDenial(t) ==
  /\ t \in denials /\ denials' = denials \ {t} /\ denied' = denied \cup {t}
  /\ UNCHANGED <<try, listening>>

\* The listeners and the pump are aborted; the tasks they spawned are not.
AbortListeners == listening' = {} /\ UNCHANGED <<try, denials, denied>>

TaskStep(t) ==
  \/ ServeConnection(t) \/ ReportConnection(t) \/ HandleDnsQuery(t) \/ RefuseDnsQuery(t)
  \/ PumpDropLog(t)

-----------------------------------------------------------------------------
(* Properties *)

EgressTypeOK ==
  /\ \A t \in Tries :
       /\ try[t].asked \in Asks \cup {Nothing}
       /\ try[t].st \in {"idle", "asked", "dropped", "refused", "reported", "passed", "bad",
                         "unreachable", "silent", "late"}
  /\ listening \subseteq Listeners
  /\ denials \subseteq Tries /\ denied \subseteq Tries

\* Whatever the spelling, the way and the number of questions: what gets through asks
\* only for endpoints the adapter or the User Script named, and what is shown as denied
\* asks for one they did not name (compose, allows, evaluate, evaluate_dns_query).
PolicyKept ==
  \A t \in Tries :
    LET names == {h.name : h \in try[t].asked.hosts}
        listed == {h.name : h \in Declared \cup Added}
    IN  /\ try[t].st = "passed" => names \subseteq listed
        /\ t \in denied => try[t].asked.via = "raw" \/ ~ names \subseteq listed

=============================================================================
