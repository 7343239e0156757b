---------------------- MODULE SandboxSupervisorProofs ----------------------
(***************************************************************************)
(* What SandboxSupervisor.tla keeps for every set of attempts, endpoints   *)
(* and listeners, every number of lines and control lines, and every       *)
(* capacity of the channels.                                               *)
(***************************************************************************)
EXTENDS SandboxSupervisor, FiniteSets, SequenceTheorems, FiniteSetTheorems, TLAPS

-----------------------------------------------------------------------------
(* Channels: how often a message is in one, and what a send and a receive do to it *)

\* How often x is in the sequence q.
Count(q, x) == Cardinality({i \in DOMAIN q : q[i] = x})

\* The places of x are a finite set.
LEMMA CountType ==
  ASSUME NEW S, NEW q \in Seq(S), NEW x
  PROVE  /\ IsFiniteSet({i \in DOMAIN q : q[i] = x})
         /\ Count(q, x) \in Nat
         /\ Count(q, x) = 0 <=> \A i \in DOMAIN q : q[i] # x
<1> DEFINE P == {i \in DOMAIN q : q[i] = x}
<1>1. DOMAIN q = 1 .. Len(q) /\ Len(q) \in Nat
  BY LenProperties
<1>2. IsFiniteSet(1 .. Len(q))
  BY <1>1, FS_Interval
<1>3. IsFiniteSet(P)
  BY <1>1, <1>2, FS_Subset
<1>4. Cardinality(P) \in Nat /\ (Cardinality(P) = 0 <=> P = {})
  BY <1>3, FS_CardinalityType, FS_EmptySet
<1> QED BY <1>3, <1>4 DEF Count

\* A send adds the element sent.
LEMMA CountAppend ==
  ASSUME NEW S, NEW q \in Seq(S), NEW e \in S, NEW x
  PROVE  Count(Append(q, e), x) = Count(q, x) + (IF e = x THEN 1 ELSE 0)
<1> DEFINE P == {i \in DOMAIN q : q[i] = x}
           R == {i \in DOMAIN Append(q, e) : Append(q, e)[i] = x}
<1>0. Count(q, x) = Cardinality(P) /\ Count(Append(q, e), x) = Cardinality(R)
  BY DEF Count
<1>1. IsFiniteSet(P) /\ Count(q, x) \in Nat
  BY CountType
<1>2. DOMAIN q = 1 .. Len(q) /\ Len(q) \in Nat
  BY LenProperties
<1>3. /\ DOMAIN Append(q, e) = 1 .. Len(q) + 1
      /\ \A i \in 1 .. Len(q) : Append(q, e)[i] = q[i]
      /\ Append(q, e)[Len(q) + 1] = e
  BY <1>2
<1>4. CASE e = x
  <2>1. R = P \cup {Len(q) + 1} /\ Len(q) + 1 \notin P
    BY <1>2, <1>3, <1>4
  <2>2. Cardinality(P \cup {Len(q) + 1}) = Cardinality(P) + 1
    BY <1>1, <2>1, FS_AddElement
  <2> QED BY <1>0, <1>4, <2>1, <2>2
<1>5. CASE e # x
  <2>1. R = P
    BY <1>2, <1>3, <1>5
  <2> HIDE DEF P, R
  <2> QED BY <1>0, <1>1, <1>5, <2>1
<1> QED BY <1>4, <1>5

\* A receive takes the head away.
LEMMA CountTail ==
  ASSUME NEW S, NEW q \in Seq(S), q # << >>, NEW x
  PROVE  Count(Tail(q), x) = Count(q, x) - (IF Head(q) = x THEN 1 ELSE 0)
<1> DEFINE P == {i \in DOMAIN q : q[i] = x}
           R == {i \in DOMAIN Tail(q) : Tail(q)[i] = x}
           f == [i \in R |-> i + 1]
<1>0. Count(q, x) = Cardinality(P) /\ Count(Tail(q), x) = Cardinality(R)
  BY DEF Count
<1>1. IsFiniteSet(P) /\ Count(q, x) \in Nat
  BY CountType
<1>2. /\ DOMAIN q = 1 .. Len(q) /\ Len(q) \in Nat \ {0}
      /\ DOMAIN Tail(q) = 1 .. Len(q) - 1 /\ Tail(q) \in Seq(S)
      /\ \A i \in 1 .. Len(q) - 1 : Tail(q)[i] = q[i + 1]
      /\ Head(q) = q[1]
  BY LenProperties, EmptySeq, HeadTailProperties
<1>3. IsFiniteSet(R)
  <2>1. Tail(q) \in Seq(S)
    BY <1>2
  <2> QED BY <2>1, CountType, Zenon
<1>4. f \in Bijection(R, P \ {1})
  <2>1. f \in [R -> P \ {1}]
    BY <1>2
  <2>2. \A a, b \in R : f[a] = f[b] => a = b
    BY <1>2
  <2>3. \A t \in P \ {1} : \E s \in R : f[s] = t
    <3> TAKE t \in P \ {1}
    <3>1. t \in 2 .. Len(q) /\ q[t] = x
      BY <1>2
    <3>2. t - 1 \in R
      BY <1>2, <3>1
    <3> WITNESS t - 1 \in R
    <3> QED BY <3>1, <3>2
  <2> QED BY <2>1, <2>2, <2>3 DEF Bijection, Injection, Surjection, IsInjective
<1>5. Cardinality(P \ {1}) = Cardinality(R)
  BY <1>3, <1>4, FS_Bijection DEF ExistsBijection
<1>6. Cardinality(P \ {1}) = IF 1 \in P THEN Cardinality(P) - 1 ELSE Cardinality(P)
  BY <1>1, FS_RemoveElement
<1>7. 1 \in P <=> Head(q) = x
  BY <1>2
<1> HIDE DEF P, R
<1> QED BY <1>0, <1>1, <1>5, <1>6, <1>7

\* A receive leaves the last message last, or nothing.
LEMMA TailLast ==
  ASSUME NEW S, NEW q \in Seq(S), q # << >>
  PROVE  /\ Tail(q) \in Seq(S) /\ Head(q) \in S /\ Head(q) = q[1] /\ Len(q) \in Nat \ {0}
         /\ Tail(q) # << >> => Tail(q)[Len(Tail(q))] = q[Len(q)]
         /\ Tail(q) = << >> => Len(q) = 1
<1>1. /\ Tail(q) \in Seq(S) /\ Head(q) \in S /\ Head(q) = q[1] /\ Len(q) \in Nat \ {0}
      /\ Len(Tail(q)) = Len(q) - 1 /\ \A i \in 1 .. Len(q) - 1 : Tail(q)[i] = q[i + 1]
  BY LenProperties, EmptySeq, HeadTailProperties
<1>2. Tail(q) = << >> <=> Len(Tail(q)) = 0
  BY <1>1, EmptySeq
<1>3. ASSUME Tail(q) # << >> PROVE Tail(q)[Len(q) - 1] = q[Len(q)]
  <2>1. Len(q) - 1 \in 1 .. Len(q) - 1
    BY <1>1, <1>2, <1>3
  <2> QED BY <1>1, <2>1
<1> QED BY <1>1, <1>2, <1>3

-----------------------------------------------------------------------------
(* The policy *)

Names(a) == {h.name : h \in a.hosts}
Listed   == {h.name : h \in Declared \cup Added}

\* A spelling does not matter to the policy: a name is allowed when it is listed.
LEMMA AllowsListed ==
  ASSUME NEW h
  PROVE  allows(h) <=> h.name \in Listed
<1>1. \A x \in Declared \cup Added : Norm(h) = Norm(x) <=> h.name = x.name
  BY DEF Norm
<1>2. allows(h) <=> \E x \in Declared \cup Added : Norm(h) = Norm(x)
  BY DEF allows, compose
<1> QED BY <1>1, <1>2 DEF Listed

\* Both judgements are whether every name is listed.
LEMMA JudgedByName ==
  ASSUME NEW a
  PROVE  /\ evaluate(a) <=> Names(a) \subseteq Listed
         /\ evaluate_dns_query(a) <=> Names(a) \subseteq Listed
<1>1. \A h \in a.hosts : allows(h) <=> h.name \in Listed
  BY AllowsListed
<1> QED BY <1>1 DEF evaluate, evaluate_dns_query, Names

-----------------------------------------------------------------------------
(* An attempt, from the asking to its denial *)

Fates == {"idle", "asked", "dropped", "refused", "reported", "passed", "bad",
          "unreachable", "silent", "late"}

EgressTyped ==
  /\ try \in [Tries -> [asked : Asks \cup {Nothing}, st : Fates]]
  /\ listening \subseteq Listeners
  /\ denials \subseteq Tries /\ denied \subseteq Tries /\ heard \subseteq Tries

Told == denials \cup denied
Judged(t) == Names(try[t].asked) \subseteq Listed

\* What is refused or reported was judged, and a DNS refusal is in the channel or shown
\* before the guest hears of it.
TryInv(t) ==
  /\ try[t].st # "idle" => try[t].asked \in Asks
  /\ try[t].st = "dropped" => try[t].asked.via = "raw"
  /\ try[t].st = "passed" => Judged(t)
  /\ t \in Told \/ try[t].st \in {"refused", "reported"} =>
       try[t].st # "idle" /\ (try[t].asked.via = "raw" \/ ~Judged(t))
  /\ try[t].asked.via = "dns" /\ try[t].st \in {"refused", "reported"} => t \in Told
  /\ t \in heard => try[t].st # "idle" /\ (try[t].asked.via = "dns" => t \in Told)

EgressInv == EgressTyped /\ \A t \in Tries : TryInv(t)

\* A step of one attempt disturbs no other.
LEMMA OneTry ==
  ASSUME EgressInv, NEW t \in Tries, EgressTyped', TryInv(t)',
         \A u \in Tries \ {t} : try'[u] = try[u],
         Told \subseteq Told', Told' \subseteq Told \cup {t},
         heard' \subseteq heard \cup {t}
  PROVE  EgressInv'
<1> SUFFICES ASSUME NEW u \in Tries, u # t PROVE TryInv(u)'
  BY DEF EgressInv
<1>1. TryInv(u) /\ try'[u] = try[u]
  BY DEF EgressInv
<1> HIDE DEF Told
<1> QED BY <1>1 DEF TryInv, Judged

\* The agent asks.
LEMMA AttemptKeeps ==
  ASSUME EgressInv, NEW t \in Tries, Attempt(t), heard' = heard
  PROVE  EgressInv'
<1>1. PICK a \in Asks, st \in {"dropped", "asked"} :
        /\ try' = [try EXCEPT ![t] = [asked |-> a, st |-> st]]
        /\ st = "dropped" => a.via = "raw"
  BY DEF Attempt
<1>2. try[t].st = "idle" /\ UNCHANGED <<listening, denials, denied>> /\ TryInv(t)
  BY DEF Attempt, EgressInv
<1>3. EgressTyped'
  BY <1>1, <1>2 DEF EgressInv, EgressTyped, Fates
<1>4. TryInv(t)'
  BY <1>1, <1>2 DEF EgressInv, EgressTyped, TryInv, Told
<1> QED BY <1>1, <1>2, <1>3, <1>4, OneTry DEF EgressInv, EgressTyped, Told

\* The task that serves an attempt goes on, and the guest may hear of a refusal.
LEMMA TaskKeeps ==
  ASSUME EgressInv, NEW t \in Tries, TaskStep(t),
         heard' = heard \/ (heard' = heard \cup {t} /\ try'[t].st = "refused")
  PROVE  EgressInv'
<1> DEFINE Moves(from, to) == try[t].st = from /\ try' = [try EXCEPT ![t].st = to]
<1>0. EgressTyped /\ TryInv(t) /\ try[t] \in [asked : Asks \cup {Nothing}, st : Fates]
  BY DEF EgressInv, EgressTyped
<1>1. /\ listening' = listening /\ denied' = denied
      /\ denials' = denials \/ denials' = denials \cup {t}
      /\ \E to \in Fates \ {"idle", "dropped"} : try' = [try EXCEPT ![t].st = to]
      /\ try[t].st # "idle"
  <2>1. CASE ServeConnection(t)
    BY <2>1 DEF ServeConnection, Step, Fates
  <2>2. CASE ReportConnection(t)
    BY <2>2 DEF ReportConnection, Step, Send, Fates
  <2>3. CASE HandleDnsQuery(t)
    BY <2>3 DEF HandleDnsQuery, Step, Send, Fates
  <2>4. CASE RefuseDnsQuery(t)
    BY <2>4 DEF RefuseDnsQuery, Step, Fates
  <2>5. CASE PumpDropLog(t)
    BY <2>5 DEF PumpDropLog, Step, Send, Fates
  <2> QED BY <2>1, <2>2, <2>3, <2>4, <2>5 DEF TaskStep
<1>2. EgressTyped'
  BY <1>0, <1>1 DEF EgressTyped
<1>3. /\ try'[t].asked = try[t].asked /\ try[t].asked \in Asks
      /\ \A u \in Tries \ {t} : try'[u] = try[u]
      /\ try'[t].st \notin {"idle", "dropped"} /\ Judged(t)' = Judged(t)
  BY <1>0, <1>1 DEF EgressTyped, TryInv, Judged
<1>4. TryInv(t)'
  <2>1. CASE ServeConnection(t)
    <3>1. /\ try[t].st = "asked" /\ UNCHANGED <<denials, denied>>
          /\ try[t].asked.via \in {"connect", "uri"}
          /\ try'[t].st = "passed" => Judged(t)
          /\ try'[t].st = "refused" => ~Judged(t)
          /\ try'[t].st # "reported"
      BY <1>0, <2>1, JudgedByName DEF ServeConnection, Step, EgressTyped, Judged
    <3> QED BY <1>0, <1>3, <3>1 DEF TryInv, Told
  <2>2. CASE ReportConnection(t)
    <3>1. /\ try[t].st = "refused" /\ try'[t].st = "reported"
          /\ denials' = denials \cup {t} /\ denied' = denied
          /\ try[t].asked.via \in {"connect", "uri"}
      BY <1>0, <2>2 DEF ReportConnection, Step, Send, EgressTyped
    <3> QED BY <1>0, <1>3, <3>1 DEF TryInv, Told
  <2>3. CASE HandleDnsQuery(t)
    <3>1. /\ try[t].st = "asked" /\ try'[t].st # "refused" /\ denied' = denied
          /\ try'[t].st = "passed" => Judged(t)
          /\ IF try'[t].st = "reported" THEN ~Judged(t) /\ denials' = denials \cup {t}
             ELSE denials' = denials
      BY <1>0, <2>3, JudgedByName DEF HandleDnsQuery, Step, Send, EgressTyped, Judged
    <3> QED BY <1>0, <1>3, <3>1 DEF TryInv, Told
  <2>4. CASE RefuseDnsQuery(t)
    <3>1. /\ try[t].st = "reported" /\ try'[t].st = "refused"
          /\ UNCHANGED <<denials, denied>>
      BY <1>0, <2>4 DEF RefuseDnsQuery, Step, EgressTyped
    <3> QED BY <1>0, <1>3, <3>1 DEF TryInv, Told
  <2>5. CASE PumpDropLog(t)
    <3>1. /\ try[t].st = "dropped" /\ try'[t].st = "reported"
          /\ denials' = denials \cup {t} /\ denied' = denied
      BY <1>0, <2>5 DEF PumpDropLog, Step, Send, EgressTyped
    <3> QED BY <1>0, <1>3, <3>1 DEF TryInv, Told
  <2> QED BY <2>1, <2>2, <2>3, <2>4, <2>5 DEF TaskStep
<1> QED BY <1>1, <1>2, <1>3, <1>4, OneTry DEF Told

\* A denial is shown.
LEMMA TakingKeeps ==
  ASSUME EgressInv, NEW t \in Tries, TakeDenial(t), heard' = heard
  PROVE  EgressInv' /\ Told' = Told
<1>1. Told' = Told /\ try' = try
  BY DEF TakeDenial, Told
<1>2. EgressTyped'
  BY DEF EgressInv, EgressTyped, TakeDenial
<1> QED BY <1>1, <1>2 DEF EgressInv, TryInv, Judged

-----------------------------------------------------------------------------
(* Who changes what *)

USE DEF vars, hostVars, egressVars, guestVars, pid1Vars, hostEnds, agentVars, ioVars

\* The judging moves in three ways, and the host aborts the listeners.
LEMMA EgressMoves ==
  ASSUME Next
  PROVE  \/ UNCHANGED <<egressVars, heard>>
         \/ UNCHANGED <<host, pid1>> /\ Network
         \/ /\ UNCHANGED heard /\ host \in {"loop", "drain"} /\ host' = host
            /\ \E t \in Tries : TakeDenial(t)
         \/ UNCHANGED heard /\ host = "drain" /\ host' = "flush" /\ denials = {} /\ AbortListeners
<1>1. CASE Guest(GuestStep)
  BY <1>1 DEF Guest
<1>2. CASE Network
  BY <1>2 DEF Network
<1>3. CASE HostStart \/ StartFails
  BY <1>3 DEF HostStart, StartFails, SendSpec, AcceptStream, connect_host_to_guest,
    ControlMade, ControlRejected, ControlTaken, Abandon, StartUnchanged, AwaitUnchanged
<1>4. CASE HostTask \/ \E op \in Ops : ReadOp(op)
  BY <1>4 DEF HostTask, HostReads, ReadLine, ReadEnd, Timeout, HostGraceOver, ReadOp, TaskUnchanged
<1>5. CASE HostLoop \/ EncoderFails
  BY <1>5 DEF HostLoop, EncoderFails, Abandon, TakeLine, TakeDone, EmitDenial, TakeCmd, WaitVm, Drained,
              RunEnded, LoopUnchanged
<1> QED BY <1>1, <1>2, <1>3, <1>4, <1>5 DEF Next

\* The VM goes down for good, and the host gets past it only then.
LEMMA HostMoves ==
  ASSUME Next
  PROVE  /\ pid1 = "down" => pid1' = "down"
         /\ host' \in {"drain", "flush", "ended"} =>
              host \in {"drain", "flush", "ended"} \/ pid1 = "down"
         /\ host' = "flush" => host = "flush" \/ (host = "drain" /\ Drained)
         /\ host' = "ended" => host \in {"flush", "ended"}
<1>1. CASE Guest(GuestStep)
  <2>1. CASE Pid1Step
    BY <1>1, <2>1 DEF Guest, Pid1Step, mount_filesystems, read_spec_from_vsock, configure_eth0,
      vsock_connect, vsock_listen, vsock_accept, fork_exec, wait_for_agent, JoinRelays
  <2>2. CASE AgentStep
    BY <1>1, <2>2 DEF Guest, AgentStep, setsid, AgentSpawns, AgentCloses, AgentDies, AgentWrites
  <2>3. CASE ThreadStep
    BY <1>1, <2>3 DEF Guest, ThreadStep, control_loop, GraceOver, RelayLine, RelayEnds
  <2>4. CASE VmDies
    BY <1>1, <2>4 DEF Guest, VmDies
  <2> QED BY <1>1, <2>1, <2>2, <2>3, <2>4 DEF Guest, GuestStep
<1>2. CASE Network
  BY <1>2 DEF Network
<1>3. CASE HostStart \/ StartFails
  BY <1>3 DEF HostStart, StartFails, SendSpec, AcceptStream, connect_host_to_guest,
    ControlMade, ControlRejected, ControlTaken, Abandon, StartUnchanged, AwaitUnchanged
<1>4. CASE HostTask \/ \E op \in Ops : ReadOp(op)
  BY <1>4 DEF HostTask, HostReads, ReadLine, ReadEnd, Timeout, HostGraceOver, ReadOp, TaskUnchanged
<1>5. CASE HostLoop \/ EncoderFails
  BY <1>5 DEF HostLoop, EncoderFails, Abandon, TakeLine, TakeDone, EmitDenial, TakeCmd, WaitVm, Drained,
              RunEnded, LoopUnchanged
<1> QED BY <1>1, <1>2, <1>3, <1>4, <1>5 DEF Next

-----------------------------------------------------------------------------
(* The policy is kept, and refusals are shown *)

LEMMA EgressSteps == EgressInv /\ [Next]_vars => EgressInv'
<1> SUFFICES ASSUME EgressInv, [Next]_vars PROVE EgressInv'
  OBVIOUS
<1>1. CASE UNCHANGED <<egressVars, heard>>
  BY <1>1 DEF EgressInv, EgressTyped, TryInv, Told, Judged
<1>2. CASE Network
  <2>1. PICK t \in Tries :
          /\ Attempt(t) \/ TaskStep(t)
          /\ heard' = IF Up /\ try[t].st # "refused" /\ try'[t].st = "refused"
                        THEN heard \cup {t} ELSE heard
    BY <1>2 DEF Network
  <2>2. CASE Attempt(t)
    <3>1. try'[t].st # "refused"
      BY <2>2 DEF Attempt, EgressInv, EgressTyped
    <3> QED BY <2>1, <2>2, <3>1, AttemptKeeps
  <2>3. CASE TaskStep(t)
    BY <2>1, <2>3, TaskKeeps
  <2> QED BY <2>1, <2>2, <2>3
<1>3. ASSUME NEW t \in Tries, TakeDenial(t), heard' = heard PROVE EgressInv'
  BY <1>3, TakingKeeps
<1>4. CASE AbortListeners /\ heard' = heard
  BY <1>4 DEF AbortListeners, EgressInv, EgressTyped, TryInv, Told, Judged
<1> QED BY <1>1, <1>2, <1>3, <1>4, EgressMoves

LEMMA EgressStarts == Init => EgressInv
  BY DEF Init, EgressInit, EgressInv, EgressTyped, TryInv, Told, Judged, Nothing, Fates

\* Whatever the spelling, the way and the number of questions of any number of attempts:
\* only listed names get through, and none is shown as denied (compose, allows,
\* evaluate, evaluate_dns_query).
THEOREM PolicyStands == Spec => []PolicyKept
<1>1. EgressInv => PolicyKept
  BY DEF EgressInv, TryInv, Told, Judged, Names, Listed, PolicyKept
<1> QED BY <1>1, EgressStarts, EgressSteps, PTL DEF Spec

\* After the VM has ended nobody hears of a new refusal, and the channel was drained.
DrainInv ==
  /\ host \in {"drain", "flush", "ended"} => pid1 = "down"
  /\ host \in {"flush", "ended"} => \A t \in heard : try[t].asked.via = "dns" => t \in denied

LEMMA DrainSteps == EgressInv /\ DrainInv /\ [Next]_vars => DrainInv'
<1> SUFFICES ASSUME EgressInv, DrainInv, [Next]_vars PROVE DrainInv'
  OBVIOUS
<1>1. CASE UNCHANGED vars
  BY <1>1 DEF DrainInv
<1>2. CASE Next
  <2>1. (host \in {"drain", "flush", "ended"} => pid1 = "down")'
    BY <1>2, HostMoves DEF DrainInv
  <2>2. ASSUME host' \in {"flush", "ended"}, NEW t \in heard', try'[t].asked.via = "dns"
        PROVE  t \in denied'
    <3>1. host \in {"drain", "flush", "ended"} /\ pid1 = "down"
      BY <1>2, <2>2, HostMoves DEF DrainInv
    <3>2. CASE UNCHANGED <<egressVars, heard>>
      <4>1. host = "drain" => Drained
        BY <1>2, <2>2, HostMoves
      <4> QED BY <2>2, <3>1, <3>2, <4>1 DEF DrainInv, Drained, EgressInv, EgressTyped, TryInv, Told
    <3>3. CASE UNCHANGED <<host, pid1>> /\ Network
      <4>1. heard' = heard /\ denied' = denied
        BY <3>1, <3>3 DEF Network, Up, Attempt, TaskStep, ServeConnection, ReportConnection,
          HandleDnsQuery, RefuseDnsQuery, PumpDropLog
      <4>2. t \in Tries /\ try[t].st # "idle"
        BY <2>2, <4>1 DEF EgressInv, EgressTyped, TryInv
      <4>3. try'[t].asked = try[t].asked
        BY <3>3, <4>2 DEF Network, Attempt, TaskStep, ServeConnection, ReportConnection,
          HandleDnsQuery, RefuseDnsQuery, PumpDropLog, Step, EgressInv, EgressTyped
      <4> QED BY <2>2, <3>3, <4>1, <4>3 DEF DrainInv
    <3>4. ASSUME UNCHANGED heard, host' = host, NEW u \in Tries, TakeDenial(u) PROVE t \in denied'
      BY <2>2, <3>4 DEF DrainInv, TakeDenial
    <3>5. CASE UNCHANGED heard /\ denials = {} /\ AbortListeners
      BY <2>2, <3>5 DEF AbortListeners, EgressInv, EgressTyped, TryInv, Told
    <3> QED BY <1>2, <3>2, <3>3, <3>4, <3>5, EgressMoves
  <2> QED BY <2>1, <2>2 DEF DrainInv
<1> QED BY <1>1, <1>2

\* A DNS refusal the guest has heard of is in the events before run_ended, for any
\* number of attempts (handle_dns_query, the try_recv loop of run).
THEOREM DnsDenialsArrive == Spec => []DnsDenialsShown
<1>1. Init => DrainInv
  BY DEF Init, DrainInv
<1>2. EgressInv /\ DrainInv => DnsDenialsShown
  BY DEF DrainInv, DnsDenialsShown
<1> QED BY <1>1, <1>2, EgressStarts, EgressSteps, DrainSteps, PTL DEF Spec

-----------------------------------------------------------------------------
(* The agent is under the host's control *)

Booting  == {"boot", "spec", "net", "connect", "listen", "accept"}
Starting == {"spec", "stdout", "stderr", "control"}

\* The host asks for the control connection last, and the guest forks only when it has
\* been made: which is before the host knows.
ControlInv ==
  /\ host \in Starting => "control" \notin conn
  /\ pid1 \in Booting \ {"accept"} => "control" \notin conn
  /\ pid1 \in Booting => leader = "none"
  /\ pid1 = "fork" \/ leader # "none" => "control" \in conn

LEMMA ControlSteps == ControlInv /\ [Next]_vars => ControlInv'
<1> SUFFICES ASSUME ControlInv, [Next]_vars PROVE ControlInv'
  OBVIOUS
<1> USE DEF ControlInv, Booting, Starting
<1>1. CASE Guest(GuestStep)
  <2>1. CASE Pid1Step
    BY <1>1, <2>1 DEF Guest, Pid1Step, mount_filesystems, read_spec_from_vsock, configure_eth0,
      vsock_connect, vsock_listen, vsock_accept, fork_exec, wait_for_agent, JoinRelays
  <2>2. CASE AgentStep
    BY <1>1, <2>2 DEF Guest, AgentStep, setsid, AgentSpawns, AgentCloses, AgentDies, AgentWrites, Gone
  <2>3. CASE ThreadStep
    <3>1. leader' = leader \/ (leader = "on" /\ leader' = "zombie")
      BY <2>3 DEF ThreadStep, control_loop, dispatch_control, GraceOver, signal_pgid, Gone,
        RelayLine, RelayEnds
    <3>2. UNCHANGED <<pid1, conn, host>>
      BY <1>1, <2>3 DEF Guest, ThreadStep, control_loop, GraceOver, RelayLine, RelayEnds
    <3> QED BY <3>1, <3>2
  <2>4. CASE VmDies
    BY <1>1, <2>4 DEF Guest, VmDies
  <2> QED BY <1>1, <2>1, <2>2, <2>3, <2>4 DEF Guest, GuestStep
<1>2. CASE Network
  BY <1>2 DEF Network
<1>3. CASE SendSpec \/ AcceptStream \/ StartFails \/ connect_host_to_guest
  BY <1>3 DEF SendSpec, AcceptStream, StartFails, Abandon, connect_host_to_guest, StartUnchanged,
              AwaitUnchanged, Streams
<1>7. CASE ControlMade \/ ControlRejected \/ ControlTaken
  BY <1>7 DEF ControlMade, ControlRejected, ControlTaken, AwaitUnchanged
<1>4. CASE HostTask \/ \E op \in Ops : ReadOp(op)
  BY <1>4 DEF HostTask, HostReads, ReadLine, ReadEnd, Timeout, HostGraceOver, ReadOp, TaskUnchanged
<1>5. CASE HostLoop \/ EncoderFails
  BY <1>5 DEF HostLoop, EncoderFails, Abandon, TakeLine, TakeDone, EmitDenial, TakeCmd, WaitVm, Drained,
              RunEnded, LoopUnchanged
<1>6. CASE UNCHANGED vars
  BY <1>6
<1> QED BY <1>1, <1>2, <1>3, <1>4, <1>5, <1>6, <1>7 DEF Next, HostStart

\* No agent is started before the host has both streams and has asked for control, also
\* when it is turned away and asks again, and when the agent forks before the OK is read
\* (vsock_accept before fork_exec, connect_host_to_guest after both accepts).
THEOREM AgentIsUnderControl == Spec => []AgentUnderControl
<1>1. Init => ControlInv
  BY DEF Init, GuestStart, ControlInv, Booting, Starting
<1>2. ControlInv => AgentUnderControl
  BY DEF ControlInv, Starting, AgentUnderControl
<1> QED BY <1>1, <1>2, ControlSteps, PTL DEF Spec

-----------------------------------------------------------------------------
(* No line is lost *)

Message == Streams \cup {"done"}

LineTyped ==
  /\ wrote \in [Streams -> Nat] /\ piped \in [Streams -> Nat] /\ vsock \in [Streams -> Nat]
  /\ shown \in [Streams -> Nat] /\ relay \in [Streams -> {"none", "on", "over"}]
  /\ deaf \in [Streams -> BOOLEAN] /\ cut \in [Streams -> BOOLEAN]
  /\ reading \in [Streams -> BOOLEAN] /\ out \in Seq(Message)

\* Until the host fails every line written is in one place; who stopped had nothing left
\* to carry.
LineInv(s) == host # "failed" =>
  /\ ~cut[s] => wrote[s] = piped[s] + vsock[s] + Count(out, s) + shown[s]
  /\ ~cut[s] /\ Up /\ holders # {} => relay[s] = "on"
  /\ relay[s] = "over" => piped[s] = 0
  /\ ~cut[s] /\ deaf[s] => relay[s] = "over" \/ ~Up
  /\ ~cut[s] /\ ~reading[s] => vsock[s] = 0 /\ (relay[s] = "over" \/ ~Up)
  /\ ~Up /\ ~crashed => relay[s] = "over"
  /\ pid1 \in Booting \cup {"fork"} => relay[s] = "none" /\ holders = {}

LinesInv == LineTyped /\ \A s \in Streams : LineInv(s)

\* The guest: it ends for no relay that has lines left.
LEMMA GuestLines ==
  ASSUME LinesInv, GuestStep, UNCHANGED hostVars PROVE LinesInv'
<1> USE DEF LinesInv, LineTyped, LineInv, Booting, Up
<1>0. \A s \in Streams : /\ LineInv(s) /\ wrote[s] \in Nat /\ piped[s] \in Nat /\ vsock[s] \in Nat
                           /\ shown[s] \in Nat /\ Count(out, s) \in Nat
  BY CountType
<1>1. CASE pid1 \in Booting /\ Pid1Step
  <2>1. pid1' \in Booting \cup {"fork"} /\ UNCHANGED <<host, ioVars, holders, crashed, deaf>>
    BY <1>1 DEF Pid1Step, mount_filesystems, read_spec_from_vsock, configure_eth0,
      vsock_connect, vsock_listen, vsock_accept, fork_exec, wait_for_agent, JoinRelays
  <2> QED BY <1>1, <2>1
<1>2. CASE fork_exec
  BY <1>2 DEF fork_exec
<1>3. CASE wait_for_agent
  BY <1>3 DEF wait_for_agent
<1>4. CASE JoinRelays
  BY <1>4 DEF JoinRelays
<1>5. CASE VmDies
  BY <1>5 DEF VmDies
<1>6. ASSUME UNCHANGED <<pid1Vars, deaf, ioVars, host>>, holders = {} => holders' = {} PROVE LinesInv'
  BY <1>6
<1>7. ASSUME NEW k \in Kin, AgentSpawns(k) PROVE LinesInv'
  <2>1. UNCHANGED <<pid1Vars, deaf, ioVars, host>> /\ (holders = {} => holders' = {})
    BY <1>7 DEF AgentSpawns
  <2> QED BY <1>6, <2>1
<1>8. ASSUME NEW p \in Group \cup Kin, AgentCloses(p) \/ AgentDies(p) PROVE LinesInv'
  <2>1. UNCHANGED <<pid1Vars, deaf, ioVars, host>> /\ (holders = {} => holders' = {})
    BY <1>8 DEF AgentCloses, AgentDies, Gone
  <2> QED BY <1>6, <2>1
<1>9. ASSUME NEW p \in Group \cup Kin, NEW t \in Streams, AgentWrites(p, t) PROVE LinesInv'
  <2>1. /\ UNCHANGED <<host, pid1Vars, deaf, relay, vsock, holders>> /\ Up /\ holders # {}
        /\ wrote' = [wrote EXCEPT ![t] = @ + 1]
        /\ piped' = IF relay[t] = "on" THEN [piped EXCEPT ![t] = @ + 1] ELSE piped
    BY <1>9 DEF AgentWrites, Runs
  <2>2. LineTyped'
    BY <2>1
  <2>3. ASSUME NEW s \in Streams PROVE LineInv(s)'
    <3>1. /\ wrote'[s] = IF s = t THEN wrote[s] + 1 ELSE wrote[s]
          /\ piped'[s] = IF s = t /\ relay[s] = "on" THEN piped[s] + 1 ELSE piped[s]
      BY <2>1
    <3>2. UNCHANGED <<host, pid1, crashed, holders, relay, vsock, shown, deaf, cut, reading, out>>
      BY <2>1
    <3> HIDE DEF LinesInv, LineTyped
    <3> QED BY <1>0, <2>1, <3>1, <3>2
  <2> QED BY <2>2, <2>3
<1>10. CASE control_loop \/ GraceOver
  <2>1. UNCHANGED <<pid1Vars, deaf, ioVars, host>> /\ (holders = {} => holders' = {})
    BY <1>10 DEF control_loop, dispatch_control, GraceOver, signal_pgid, Gone
  <2> QED BY <1>6, <2>1
<1>11. ASSUME NEW t \in Streams, RelayLine(t) PROVE LinesInv'
  <2>1. /\ UNCHANGED <<host, pid1Vars, deaf, holders, wrote>> /\ relay[t] = "on" /\ piped[t] > 0 /\ Up
        /\ \/ /\ deaf[t] /\ relay' = [relay EXCEPT ![t] = "over"]
              /\ piped' = [piped EXCEPT ![t] = 0] /\ vsock' = vsock
           \/ /\ ~deaf[t] /\ relay' = relay /\ piped' = [piped EXCEPT ![t] = @ - 1]
              /\ vsock' = [vsock EXCEPT ![t] = @ + 1]
    BY <1>11 DEF RelayLine
  <2>2. LineTyped'
    <3> HIDE DEF LineInv
    <3>1. piped[t] - 1 \in Nat /\ vsock[t] + 1 \in Nat
      BY <1>0, <2>1
    <3>2. piped' = [piped EXCEPT ![t] = 0] \/ piped' = [piped EXCEPT ![t] = piped[t] - 1]
      BY <2>1
    <3>3. piped' \in [Streams -> Nat]
      BY <3>1, <3>2, SMTT(60)
    <3>4. vsock' = vsock \/ vsock' = [vsock EXCEPT ![t] = vsock[t] + 1]
      BY <2>1
    <3>5. vsock' \in [Streams -> Nat]
      BY <3>1, <3>4
    <3>6. relay' = relay \/ relay' = [relay EXCEPT ![t] = "over"]
      BY <2>1
    <3>7. relay' \in [Streams -> {"none", "on", "over"}]
      BY <3>6
    <3>8. UNCHANGED <<wrote, shown, deaf, cut, reading, out>>
      BY <2>1
    <3> QED BY <3>3, <3>5, <3>7, <3>8
  <2>3. ASSUME NEW s \in Streams PROVE LineInv(s)'
    <3>1. /\ relay'[s] = IF s = t /\ deaf[s] THEN "over" ELSE relay[s]
          /\ piped'[s] = IF s # t THEN piped[s] ELSE IF deaf[s] THEN 0 ELSE piped[s] - 1
          /\ vsock'[s] = IF s = t /\ ~deaf[s] THEN vsock[s] + 1 ELSE vsock[s]
      BY <2>1
    <3>2. UNCHANGED <<host, pid1, crashed, holders, wrote, shown, deaf, cut, reading, out>>
      BY <2>1
    <3>3. relay[t] = "on" /\ piped[t] > 0 /\ Up
      BY <2>1
    <3>0. /\ LineInv(s) /\ wrote[s] \in Nat /\ piped[s] \in Nat /\ vsock[s] \in Nat
          /\ shown[s] \in Nat /\ Count(out, s) \in Nat
      BY <1>0
    <3> HIDE DEF LinesInv, LineTyped
    <3> QED BY <3>0, <3>1, <3>2, <3>3
  <2> QED BY <2>2, <2>3
<1>12. ASSUME NEW t \in Streams, RelayEnds(t) PROVE LinesInv'
  BY <1>12 DEF RelayEnds
<1>13. CASE setsid
  BY <1>6, <1>13 DEF setsid
<1>14. CASE Pid1Step
  BY <1>1, <1>2, <1>3, <1>4, <1>14 DEF Pid1Step, mount_filesystems, read_spec_from_vsock,
    configure_eth0, vsock_connect, vsock_listen, vsock_accept
<1>15. CASE AgentStep
  BY <1>7, <1>8, <1>9, <1>13, <1>15 DEF AgentStep
<1>16. CASE ThreadStep
  BY <1>10, <1>11, <1>12, <1>16 DEF ThreadStep
<1> QED BY <1>5, <1>14, <1>15, <1>16 DEF GuestStep

\* The host: from the vsock into the channel, and from there into the events.
LEMMA HostLines ==
  ASSUME LinesInv, Next, ~ Guest(GuestStep) PROVE LinesInv'
<1> USE DEF LinesInv, LineTyped, LineInv, Up
<1>0. \A s \in Streams : /\ LineInv(s) /\ wrote[s] \in Nat /\ piped[s] \in Nat /\ vsock[s] \in Nat
                           /\ shown[s] \in Nat /\ Count(out, s) \in Nat
  BY CountType
<1>1. ASSUME UNCHANGED <<pid1, crashed, holders, ioVars, shown, deaf, cut, reading, out>>,
             host # "failed"
      PROVE  LinesInv'
  BY <1>1
<1>2. ASSUME NEW t \in Streams, ReadLine(t) PROVE LinesInv'
  <2>1. /\ UNCHANGED <<host, pid1, crashed, holders, wrote, piped, relay, shown, deaf, cut, reading>>
        /\ vsock[t] > 0 /\ vsock' = [vsock EXCEPT ![t] = @ - 1] /\ out' = Append(out, t)
        /\ reading[t]
    BY <1>2 DEF ReadLine, TaskUnchanged
  <2>2. ASSUME NEW s \in Streams
        PROVE  Count(out', s) = Count(out, s) + (IF t = s THEN 1 ELSE 0)
    <3>1. out \in Seq(Message) /\ t \in Message /\ out' = Append(out, t)
      BY <2>1 DEF Message
    <3>2. Count(Append(out, t), s) = Count(out, s) + (IF t = s THEN 1 ELSE 0)
      BY <3>1, CountAppend
    <3> QED BY <3>1, <3>2
  <2>3. LineTyped'
    <3> HIDE DEF LineInv
    <3>1. vsock[t] - 1 \in Nat
      BY <1>0, <2>1
    <3>2. vsock' \in [Streams -> Nat]
      BY <2>1, <3>1
    <3>3. out' \in Seq(Message)
      BY <2>1 DEF Message
    <3>4. UNCHANGED <<wrote, piped, relay, shown, deaf, cut, reading>>
      BY <2>1
    <3> QED BY <3>2, <3>3, <3>4
  <2>4. ASSUME NEW s \in Streams PROVE LineInv(s)'
    <3>1. vsock'[s] = IF s = t THEN vsock[s] - 1 ELSE vsock[s]
      BY <2>1
    <3>2. UNCHANGED <<host, pid1, crashed, holders, wrote, piped, relay, shown, deaf, cut, reading>>
      BY <2>1
    <3>3. reading[t] /\ vsock[t] > 0
      BY <2>1
    <3>4. Count(out', s) = Count(out, s) + (IF t = s THEN 1 ELSE 0)
      BY <2>2
    <3>0. /\ LineInv(s) /\ wrote[s] \in Nat /\ piped[s] \in Nat /\ vsock[s] \in Nat
          /\ shown[s] \in Nat /\ Count(out, s) \in Nat
      BY <1>0
    <3> HIDE DEF LinesInv, LineTyped
    <3> QED BY <3>0, <3>1, <3>2, <3>3, <3>4
  <2> QED BY <2>3, <2>4
<1>3. ASSUME NEW t \in Streams, ReadEnd(t) PROVE LinesInv'
  <2>1. /\ UNCHANGED <<host, pid1, crashed, holders, wrote, piped, relay, shown>>
        /\ reading[t] /\ reading' = [reading EXCEPT ![t] = FALSE]
        /\ deaf' = [deaf EXCEPT ![t] = TRUE] /\ out' = Append(out, "done")
        /\ \/ /\ vsock[t] = 0 /\ (relay[t] = "over" \/ ~Up) /\ UNCHANGED <<cut, vsock>>
           \/ /\ cut' = [cut EXCEPT ![t] = TRUE] /\ vsock' = [vsock EXCEPT ![t] = 0]
    BY <1>3 DEF ReadEnd, TaskUnchanged
  <2>2. \A s \in Streams : Count(out', s) = Count(out, s)
    <3> TAKE s \in Streams
    <3>1. Count(Append(out, "done"), s) = Count(out, s) + 0
      BY CountAppend DEF Message, Streams
    <3> QED BY <1>0, <2>1, <3>1
  <2>3. LineTyped'
    <3> HIDE DEF LineInv
    <3>1. out' \in Seq(Message)
      BY <2>1 DEF Message
    <3>2. reading' \in [Streams -> BOOLEAN] /\ deaf' \in [Streams -> BOOLEAN]
      BY <2>1
    <3>3. vsock' = vsock \/ vsock' = [vsock EXCEPT ![t] = 0]
      BY <2>1
    <3>4. cut' = cut \/ cut' = [cut EXCEPT ![t] = TRUE]
      BY <2>1
    <3>5. cut' \in [Streams -> BOOLEAN]
      BY <3>4
    <3>6. vsock' \in [Streams -> Nat]
      BY <3>3
    <3>7. UNCHANGED <<wrote, piped, relay, shown>>
      BY <2>1
    <3> QED BY <3>1, <3>2, <3>5, <3>6, <3>7
  <2>4. ASSUME NEW s \in Streams PROVE LineInv(s)'
    <3>1. /\ reading'[s] = (reading[s] /\ s # t) /\ deaf'[s] = (deaf[s] \/ s = t)
          /\ \/ /\ s = t => vsock[s] = 0 /\ (relay[s] = "over" \/ ~Up)
                /\ UNCHANGED <<cut, vsock>>
             \/ cut'[s] = (cut[s] \/ s = t) /\ vsock'[s] = IF s = t THEN 0 ELSE vsock[s]
      BY <2>1, ZenonT(60)
    <3>2. UNCHANGED <<host, pid1, crashed, holders, wrote, piped, relay, shown>>
      BY <2>1
    <3>3. Count(out', s) = Count(out, s)
      BY <2>2
    <3>0. /\ LineInv(s) /\ wrote[s] \in Nat /\ piped[s] \in Nat /\ vsock[s] \in Nat
          /\ shown[s] \in Nat /\ Count(out, s) \in Nat
      BY <1>0
    <3> HIDE DEF LinesInv, LineTyped
    <3> QED BY <3>0, <3>1, <3>2, <3>3
  <2> QED BY <2>3, <2>4
<1>4. CASE TakeLine
  <2>1. /\ UNCHANGED <<host, pid1, crashed, holders, ioVars, deaf, cut, reading>>
        /\ out # << >> /\ out' = Tail(out) /\ Head(out) # "done"
        /\ shown' = [shown EXCEPT ![Head(out)] = @ + 1]
    BY <1>4 DEF TakeLine, LoopUnchanged
  <2>2. Head(out) \in Streams /\ out' \in Seq(Message)
    BY <2>1, TailLast DEF Message
  <2>3. \A s \in Streams : Count(out', s) = Count(out, s) - (IF Head(out) = s THEN 1 ELSE 0)
    BY <2>1, CountTail
  <2>4. LineTyped'
    BY <2>1, <2>2
  <2>5. \A s \in Streams : Count(out', s) \in Nat
    BY <2>2, CountType
  <2>6. ASSUME NEW s \in Streams PROVE LineInv(s)'
    <3>1. shown'[s] = IF s = Head(out) THEN shown[s] + 1 ELSE shown[s]
      BY <2>1
    <3>2. UNCHANGED <<host, pid1, crashed, holders, wrote, piped, vsock, relay, deaf, cut, reading>>
      BY <2>1
    <3>3. /\ Count(out', s) = Count(out, s) - (IF Head(out) = s THEN 1 ELSE 0)
          /\ Count(out', s) \in Nat
      BY <2>3, <2>5
    <3>0. /\ LineInv(s) /\ wrote[s] \in Nat /\ piped[s] \in Nat /\ vsock[s] \in Nat
          /\ shown[s] \in Nat /\ Count(out, s) \in Nat
      BY <1>0
    <3> HIDE DEF LinesInv, LineTyped
    <3> QED BY <3>0, <3>1, <3>2, <3>3
  <2> QED BY <2>4, <2>6
<1>5. CASE TakeDone
  <2>1. /\ UNCHANGED <<pid1, crashed, holders, ioVars, deaf, cut, reading, shown>> /\ host # "failed"
        /\ out # << >> /\ out' = Tail(out) /\ Head(out) = "done"
    BY <1>5 DEF TakeDone, LoopUnchanged
  <2>2. \A s \in Streams : Count(out', s) = Count(out, s)
    <3> TAKE s \in Streams
    <3>1. Count(Tail(out), s) = Count(out, s) - 0
      BY <2>1, CountTail DEF Streams
    <3> QED BY <1>0, <2>1, <3>1
  <2>3. out' \in Seq(Message)
    BY <2>1, TailLast
  <2> QED BY <2>1, <2>2, <2>3
<1>6. CASE Network
  BY <1>1, <1>6 DEF Network, Over
<1>7. CASE HostStart
  BY <1>1, <1>7 DEF HostStart, SendSpec, AcceptStream, connect_host_to_guest,
    ControlMade, ControlRejected, ControlTaken, StartUnchanged, AwaitUnchanged, Streams
<1>8. CASE Timeout \/ HostGraceOver \/ \E op \in Ops : ReadOp(op)
  BY <1>1, <1>8 DEF Timeout, HostGraceOver, ReadOp, TaskUnchanged
<1>9. CASE EmitDenial \/ TakeCmd \/ WaitVm \/ Drained \/ RunEnded
  BY <1>1, <1>9 DEF EmitDenial, TakeCmd, WaitVm, Drained, RunEnded, LoopUnchanged
<1>10. CASE StartFails \/ EncoderFails
  <2>1. host' = "failed" /\ deaf' \in [Streams -> BOOLEAN]
        /\ UNCHANGED <<ioVars, shown, cut, reading, out>>
    BY <1>10 DEF StartFails, EncoderFails, Abandon
  <2> QED BY <2>1
<1> QED BY <1>2, <1>3, <1>4, <1>5, <1>6, <1>7, <1>8, <1>9, <1>10 DEF Next, HostTask, HostReads, HostLoop

\* Each reader that stopped has sent one Done, which is in the channel or counted, and
\* the last message is a Done once both have; the host leaves its loop at the second.
Stopped(s) == IF reading[s] THEN 0 ELSE 1

DoneInv ==
  /\ done \in Nat /\ done + Count(out, "done") = Stopped("stdout") + Stopped("stderr")
  /\ (\A s \in Streams : ~reading[s]) /\ out # << >> => out[Len(out)] = "done"
  /\ host \in {"wait", "drain", "flush", "ended"} => done = 2

LEMMA DoneSteps == LinesInv /\ DoneInv /\ [Next]_vars => DoneInv'
<1> SUFFICES ASSUME LinesInv, DoneInv, [Next]_vars PROVE DoneInv'
  OBVIOUS
<1>0. /\ out \in Seq(Message) /\ Count(out, "done") \in Nat /\ Len(out) \in Nat
      /\ reading \in [Streams -> BOOLEAN] /\ done \in Nat
  BY CountType, LenProperties DEF LinesInv, LineTyped, DoneInv
<1>1. ASSUME UNCHANGED <<reading, out, done>>,
             host' \in {"wait", "drain", "flush", "ended"} => host \in {"wait", "drain", "flush"}
      PROVE  DoneInv'
  BY <1>1 DEF DoneInv, Stopped
<1>2. ASSUME NEW t \in Streams, ReadLine(t) PROVE DoneInv'
  <2>1. /\ UNCHANGED <<reading, done, host>> /\ reading[t] /\ out' = Append(out, t)
    BY <1>2 DEF ReadLine, TaskUnchanged
  <2>2. Count(Append(out, t), "done") = Count(out, "done") + 0
    <3>1. t \in Message /\ t # "done"
      BY DEF Message, Streams
    <3> QED BY <1>0, <3>1, CountAppend
  <2> QED BY <1>0, <2>1, <2>2 DEF DoneInv, Stopped
<1>3. ASSUME NEW t \in Streams, ReadEnd(t) PROVE DoneInv'
  <2>1. /\ UNCHANGED <<done, host>> /\ reading[t] /\ reading' = [reading EXCEPT ![t] = FALSE]
        /\ out' = Append(out, "done")
    BY <1>3 DEF ReadEnd, TaskUnchanged
  <2>2. Count(Append(out, "done"), "done") = Count(out, "done") + 1
    <3>1. "done" \in Message
      BY DEF Message
    <3> QED BY <1>0, <3>1, CountAppend
  <2>3. out'[Len(out')] = "done"
    BY <1>0, <2>1
  <2>4. done' + Count(out', "done") = Stopped("stdout")' + Stopped("stderr")'
    BY <1>0, <2>1, <2>2 DEF DoneInv, Stopped, Streams
  <2> QED BY <2>1, <2>3, <2>4 DEF DoneInv
<1>4. ASSUME out # << >>, out' = Tail(out)
      PROVE  /\ Count(out', "done") = Count(out, "done") - (IF Head(out) = "done" THEN 1 ELSE 0)
             /\ Count(out', "done") \in Nat
             /\ out' # << >> => out'[Len(out')] = out[Len(out)]
  BY <1>0, <1>4, CountTail, CountType, TailLast
<1>5. CASE TakeLine
  <2>1. UNCHANGED <<reading, done, host>> /\ out # << >> /\ out' = Tail(out) /\ Head(out) # "done"
    BY <1>5 DEF TakeLine, LoopUnchanged
  <2> QED BY <1>0, <1>4, <2>1 DEF DoneInv, Stopped
<1>6. CASE TakeDone
  <2>1. /\ reading' = reading /\ out # << >> /\ out' = Tail(out) /\ Head(out) = "done"
        /\ done' = done + 1 /\ host' = IF done = 1 THEN "wait" ELSE "loop"
    BY <1>6 DEF TakeDone, LoopUnchanged
  <2> QED BY <1>0, <1>4, <2>1 DEF DoneInv, Stopped
<1>7. CASE Guest(GuestStep)
  BY <1>1, <1>7 DEF Guest, Over
<1>8. CASE Network
  BY <1>1, <1>8 DEF Network, Over
<1>9. CASE HostStart \/ StartFails
  BY <1>1, <1>9 DEF HostStart, StartFails, SendSpec, AcceptStream, connect_host_to_guest,
    ControlMade, ControlRejected, ControlTaken, Abandon, StartUnchanged, AwaitUnchanged
<1>10. CASE Timeout \/ HostGraceOver \/ \E op \in Ops : ReadOp(op)
  BY <1>1, <1>10 DEF Timeout, HostGraceOver, ReadOp, Queue, Started, TaskUnchanged
<1>11. CASE EncoderFails \/ EmitDenial \/ TakeCmd \/ WaitVm \/ Drained \/ RunEnded
  BY <1>1, <1>11 DEF EncoderFails, Abandon, EmitDenial, TakeCmd, WaitVm, Drained, RunEnded, LoopUnchanged
<1>12. CASE UNCHANGED vars
  BY <1>12 DEF DoneInv, Stopped
<1> QED BY <1>2, <1>3, <1>5, <1>6, <1>7, <1>8, <1>9, <1>10, <1>11, <1>12
        DEF Next, HostTask, HostReads, HostLoop

LEMMA LineSteps == LinesInv /\ [Next]_vars => LinesInv'
<1> SUFFICES ASSUME LinesInv, [Next]_vars PROVE LinesInv'
  OBVIOUS
<1>1. CASE Guest(GuestStep)
  BY <1>1, GuestLines DEF Guest
<1>2. CASE Next /\ ~ Guest(GuestStep)
  BY <1>2, HostLines
<1>3. CASE UNCHANGED vars
  BY <1>3 DEF LinesInv, LineTyped, LineInv, Up
<1> QED BY <1>1, <1>2, <1>3

LEMMA LineStarts == Init => LinesInv /\ DoneInv
<1> SUFFICES ASSUME Init PROVE LinesInv /\ DoneInv
  OBVIOUS
<1>1. out \in Seq(Message) /\ \A i \in DOMAIN out : FALSE
  BY DEF Init
<1>2. \A x : Count(out, x) = 0
  BY <1>1, CountType
<1>3. LineTyped
  BY <1>1 DEF Init, GuestStart, LineTyped
<1>4. \A s \in Streams : LineInv(s)
  BY <1>2 DEF Init, GuestStart, LineInv, Up
<1>5. DoneInv
  BY <1>2 DEF Init, DoneInv, Stopped, Streams
<1> QED BY <1>3, <1>4, <1>5 DEF LinesInv

\* With two Dones counted the channel is empty, and a VM that went down by itself had
\* relayed everything; so run_ended comes after every line, for any number of lines and
\* any capacities (join of the relays in PID 1, done_count in run).
THEOREM AllLinesArrive == Spec => []LinesArrive
<1>1. Init => DrainInv
  BY DEF Init, DrainInv
<1>2. LinesInv /\ DoneInv /\ DrainInv => LinesArrive
  <2> SUFFICES ASSUME LinesInv, DoneInv, DrainInv, host = "ended", ~crashed,
                      NEW s \in Streams, ~cut[s]
               PROVE  shown[s] = wrote[s]
    BY DEF LinesArrive
  <2>1. out \in Seq(Message) /\ Count(out, "done") \in Nat /\ Len(out) \in Nat
    BY CountType, LenProperties DEF LinesInv, LineTyped
  <2>2. (\A r \in Streams : ~reading[r]) /\ Count(out, "done") = 0
    BY <2>1 DEF DoneInv, Stopped, Streams
  <2>3. out = << >>
    <3>1. \A i \in DOMAIN out : out[i] # "done"
      BY <2>1, <2>2, CountType
    <3>2. out # << >> => Len(out) \in DOMAIN out
      BY <2>1, LenProperties, EmptySeq
    <3> QED BY <2>2, <3>1, <3>2 DEF DoneInv
  <2>4. Count(out, s) = 0
    <3>1. \A i \in DOMAIN out : FALSE
      BY <2>3
    <3> QED BY <2>1, <3>1, CountType
  <2>5. pid1 = "down"
    BY DEF DrainInv
  <2>6. shown[s] \in Nat /\ wrote[s] \in Nat /\ LineInv(s)
    BY DEF LinesInv, LineTyped
  <2> QED BY <2>2, <2>4, <2>5, <2>6 DEF LineInv, Up
<1> QED BY <1>1, <1>2, LineStarts, LineSteps, DoneSteps, EgressStarts, EgressSteps, DrainSteps, PTL DEF Spec

-----------------------------------------------------------------------------
(* Types *)

Cmds  == Ops \cup {"timeout"}
Hosts == Starting \cup {"ack", "loop", "wait", "drain", "flush", "ended", "failed"}

GuestRest ==
  /\ pid1 \in Booting \cup {"fork", "wait", "join", "down"}
  /\ crashed \in BOOLEAN /\ conn \subseteq {"spec", "stdout", "stderr", "control"}
  /\ leader \in {"none", "forked", "on", "zombie", "reaped"} /\ kin \subseteq Kin
  /\ holders \subseteq Group \cup Kin /\ frozen \in BOOLEAN /\ shot \in BOOLEAN

HostRest ==
  /\ host \in Hosts /\ cmds \in Seq(Cmds) /\ sent \in 0 .. MaxOps
  /\ timer \in {"armed", "fired"} /\ sleepers \in Nat

Between == specsent \in BOOLEAN /\ control \in Seq(Ops) /\ graces \in Nat /\ missed \in BOOLEAN

LEMMA SignalTyped ==
  ASSUME GuestRest, NEW sig, signal_pgid(sig), UNCHANGED pid1Vars PROVE GuestRest'
BY DEF GuestRest, signal_pgid, Gone

LEMMA GuestRestSteps ==
  ASSUME GuestRest, GuestStep PROVE GuestRest'
<1> USE DEF GuestRest, Booting
<1>1. CASE Pid1Step
  BY <1>1 DEF Pid1Step, mount_filesystems, read_spec_from_vsock, configure_eth0, vsock_connect,
    vsock_listen, vsock_accept, fork_exec, wait_for_agent, JoinRelays, Group
<1>2. CASE AgentStep
  BY <1>2 DEF AgentStep, setsid, AgentSpawns, AgentCloses, AgentDies, AgentWrites, Gone
<1>3. CASE control_loop \/ GraceOver
  BY <1>3, SignalTyped DEF control_loop, dispatch_control, GraceOver
<1>4. CASE \E s \in Streams : RelayLine(s) \/ RelayEnds(s)
  BY <1>4 DEF RelayLine, RelayEnds
<1>5. CASE VmDies
  BY <1>5 DEF VmDies
<1> QED BY <1>1, <1>2, <1>3, <1>4, <1>5 DEF GuestStep, ThreadStep

LEMMA BetweenGuest ==
  ASSUME Between, Guest(GuestStep) PROVE Between'
<1>1. missed' \in BOOLEAN
  BY DEF Between, Guest
<1>2. CASE control_loop
  <2>1. /\ control # << >> /\ control' = Tail(control) /\ specsent' = specsent
        /\ graces' = graces \/ graces' = graces + 1
    BY <1>2 DEF control_loop, dispatch_control
  <2>2. Tail(control) \in Seq(Ops)
    BY <2>1, TailLast DEF Between
  <2> QED BY <1>1, <2>1, <2>2 DEF Between
<1>3. CASE GraceOver
  BY <1>1, <1>3 DEF GraceOver, Between
<1>4. CASE ~control_loop /\ ~GraceOver
  <2>1. UNCHANGED <<specsent, control, graces>>
    BY <1>4 DEF Guest, GuestStep, Pid1Step, mount_filesystems, read_spec_from_vsock, configure_eth0,
      vsock_connect, vsock_listen, vsock_accept, fork_exec, wait_for_agent, JoinRelays,
      AgentStep, setsid, AgentSpawns, AgentCloses, AgentDies, AgentWrites,
      ThreadStep, RelayLine, RelayEnds, VmDies
  <2> QED BY <1>1, <2>1 DEF Between
<1> QED BY <1>2, <1>3, <1>4

\* The host's own steps leave the guest's processes alone.
LEMMA RestSteps ==
  GuestRest /\ HostRest /\ Between /\ [Next]_vars => GuestRest' /\ HostRest' /\ Between'
<1> SUFFICES ASSUME GuestRest, HostRest, Between, [Next]_vars
             PROVE  GuestRest' /\ HostRest' /\ Between'
  OBVIOUS
<1>a. UNCHANGED <<pid1, crashed, conn, agentVars>> => GuestRest'
  BY DEF GuestRest
<1>b. UNCHANGED <<control, graces, missed>> /\ specsent' \in BOOLEAN => Between'
  BY DEF Between
<1>c. UNCHANGED <<cmds, sent, timer, sleepers>> /\ host' \in Hosts => HostRest'
  BY DEF HostRest
<1>d. ASSUME NEW c \in Cmds, cmds' = Append(cmds, c) PROVE cmds' \in Seq(Cmds)
  BY <1>d DEF HostRest
<1>e. host \in Hosts /\ specsent \in BOOLEAN
  BY DEF HostRest, Between
<1>1. CASE Guest(GuestStep)
  BY <1>1, <1>c, <1>e, GuestRestSteps, BetweenGuest DEF Guest
<1>2. CASE Network
  BY <1>2, <1>a, <1>b, <1>c, <1>e DEF Network
<1>3. CASE HostStart \/ StartFails
  <2>1. /\ UNCHANGED <<pid1, crashed, agentVars, control, graces, missed, cmds, sent, timer, sleepers>>
        /\ conn' = conn \/ conn' = conn \cup {"control"}
        /\ specsent' = specsent \/ specsent' = TRUE
    BY <1>3 DEF HostStart, StartFails, SendSpec, AcceptStream, connect_host_to_guest,
    ControlMade, ControlRejected, ControlTaken, Abandon, StartUnchanged, AwaitUnchanged
  <2>2. host' \in {host, "stdout", "stderr", "control", "ack", "loop", "failed"}
    BY <1>3 DEF HostStart, StartFails, SendSpec, AcceptStream, connect_host_to_guest,
    ControlMade, ControlRejected, ControlTaken, Abandon
  <2>3. GuestRest'
    BY <2>1 DEF GuestRest
  <2> QED BY <2>1, <2>2, <2>3, <1>b, <1>c, <1>e DEF Hosts, Starting
<1>4. CASE TaskUnchanged /\ UNCHANGED <<cmds, sent, timer, sleepers>>
  BY <1>4, <1>a, <1>b, <1>c, <1>e DEF TaskUnchanged
<1>5. CASE HostReads
  BY <1>4, <1>5 DEF HostReads, ReadLine, ReadEnd
<1>6. ASSUME TaskUnchanged, NEW c \in Cmds, Queue(c), sent' \in 0 .. MaxOps,
             timer' \in {"armed", "fired"}, sleepers' \in Nat
      PROVE  GuestRest' /\ HostRest' /\ Between'
  <2>1. host' \in Hosts /\ cmds' \in Seq(Cmds)
    BY <1>6, <1>d, <1>e DEF Queue, TaskUnchanged
  <2> QED BY <1>6, <1>a, <1>b, <1>e, <2>1 DEF TaskUnchanged, HostRest
<1>7. CASE Timeout
  BY <1>6, <1>7 DEF Timeout, Cmds, HostRest
<1>8. CASE HostGraceOver
  <2>1. "kill" \in Cmds /\ sleepers' \in Nat /\ sent' \in 0 .. MaxOps /\ timer' \in {"armed", "fired"}
    BY <1>8 DEF HostGraceOver, Cmds, Ops, HostRest
  <2> QED BY <1>6, <1>8, <2>1 DEF HostGraceOver
<1>9. ASSUME NEW op \in Ops, ReadOp(op) PROVE GuestRest' /\ HostRest' /\ Between'
  <2>1. sent' \in 0 .. MaxOps
    BY <1>9, HostAssumption DEF ReadOp, HostRest
  <2> QED BY <1>6, <1>9, <2>1 DEF ReadOp, Cmds, HostRest
<1>10. CASE TakeCmd
  <2>1. cmds # << >> /\ cmds' = Tail(cmds) /\ Tail(cmds) \in Seq(Cmds) /\ Head(cmds) \in Cmds
    BY <1>10, TailLast DEF TakeCmd, HostRest
  <2>2. control' \in Seq(Ops)
    <3>1. (IF Head(cmds) = "timeout" THEN "kill" ELSE Head(cmds)) \in Ops
      BY <2>1 DEF Cmds, Ops
    <3> QED BY <1>10, <3>1 DEF TakeCmd, Between
  <2>3. sleepers' \in Nat
    BY <1>10 DEF TakeCmd, HostRest
  <2>4. UNCHANGED <<host, pid1, crashed, conn, agentVars, sent, timer, specsent, graces, missed>>
    BY <1>10 DEF TakeCmd, LoopUnchanged
  <2> QED BY <1>a, <2>1, <2>2, <2>3, <2>4 DEF HostRest, Between
<1>11. CASE TakeLine \/ TakeDone \/ EmitDenial \/ WaitVm \/ Drained \/ RunEnded \/ EncoderFails
  <2>1. /\ UNCHANGED <<pid1, crashed, conn, specsent, agentVars, graces, sent, timer, missed>>
        /\ UNCHANGED <<control, cmds, sleepers>>
        /\ host' \in {host, "wait", "loop", "drain", "flush", "ended", "failed"}
    BY <1>11 DEF TakeLine, TakeDone, EmitDenial, WaitVm, Drained, RunEnded, EncoderFails, Abandon,
      LoopUnchanged
  <2> QED BY <2>1, <1>a, <1>b, <1>c, <1>e DEF Hosts
<1>12. CASE UNCHANGED vars
  BY <1>12, <1>a, <1>b, <1>c, <1>e
<1> QED BY <1>1, <1>2, <1>3, <1>5, <1>7, <1>8, <1>9, <1>10, <1>11, <1>12
        DEF Next, HostTask, HostLoop

\* Guest, host and attempts are well typed; no more than two Dones are counted.
THEOREM SandboxTyping == Spec => []TypeOK
<1>1. Init => GuestRest /\ HostRest /\ Between
  <2> SUFFICES ASSUME Init PROVE GuestRest /\ HostRest /\ Between
    OBVIOUS
  <2>1. GuestRest
    BY DEF Init, GuestStart, GuestRest, Booting
  <2>2. HostRest
    BY HostAssumption DEF Init, HostRest, Hosts, Starting
  <2>3. Between
    <3>1. control = << >> /\ graces = 0 /\ specsent = FALSE /\ missed = FALSE
      BY DEF Init, GuestStart
    <3>2. control \in Seq(Ops) /\ graces \in Nat
      BY <3>1
    <3>3. specsent \in BOOLEAN /\ missed \in BOOLEAN
      BY <3>1, Zenon
    <3> QED BY <3>2, <3>3 DEF Between
  <2> QED BY <2>1, <2>2, <2>3
<1>2. GuestRest /\ HostRest /\ Between /\ LinesInv /\ DoneInv /\ EgressInv => TypeOK
  <2> SUFFICES ASSUME GuestRest, HostRest, Between, LinesInv, DoneInv, EgressInv PROVE TypeOK
    OBVIOUS
  <2>1. done \in 0 .. 2
    <3>1. Count(out, "done") \in Nat
      BY CountType DEF LinesInv, LineTyped
    <3>2. /\ Stopped("stdout") = 0 \/ Stopped("stdout") = 1
          /\ Stopped("stderr") = 0 \/ Stopped("stderr") = 1
      BY DEF Stopped
    <3>3. done \in Nat /\ done + Count(out, "done") = Stopped("stdout") + Stopped("stderr")
      BY DEF DoneInv
    <3> QED BY <3>1, <3>2, <3>3
  <2>2. GuestTypeOK
    BY DEF GuestTypeOK, GuestRest, Between, LinesInv, LineTyped, Booting
  <2>3. EgressTypeOK
    BY DEF EgressTypeOK, EgressInv, EgressTyped, Fates
  <2>4. /\ host \in {"spec", "stdout", "stderr", "control", "ack", "loop", "wait", "drain",
                     "flush", "ended", "failed"}
        /\ cmds \in Seq(Ops \cup {"timeout"})
    BY DEF HostRest, Hosts, Starting, Cmds
  <2>5. /\ reading \in [Streams -> BOOLEAN] /\ cut \in [Streams -> BOOLEAN]
        /\ out \in Seq(Streams \cup {"done"}) /\ shown \in [Streams -> Nat]
    BY DEF LinesInv, LineTyped, Message
  <2> QED BY <2>1, <2>2, <2>3, <2>4, <2>5 DEF TypeOK, HostRest, Between, EgressInv, EgressTyped
<1> QED BY <1>1, <1>2, RestSteps, LineStarts, LineSteps, DoneSteps, EgressStarts, EgressSteps, PTL DEF Spec
=============================================================================
