-------------------------- MODULE SupervisorProofs --------------------------
(***************************************************************************)
(* What Supervisor.tla keeps for every set of descendants, every number of *)
(* lines and control lines, and every capacity of the channels.            *)
(***************************************************************************)
EXTENDS Supervisor, FiniteSets, SequenceTheorems, FiniteSetTheorems, TLAPS

-----------------------------------------------------------------------------
(* Channels: how often a message is in one, and what a send and a receive do to it *)

\* How often x is in the sequence q.
Count(q, x) == Cardinality({i \in DOMAIN q : q[i] = x})

\* The places of x are a finite set.
LEMMA CountType ==
  ASSUME NEW S, NEW q \in Seq(S), NEW x
  PROVE  /\ IsFiniteSet({i \in DOMAIN q : q[i] = x})
         /\ Count(q, x) \in Nat
         /\ Count(q, x) = 0 <=> \A i \in DOMAIN q : q[i] # x
<1> DEFINE P == {i \in DOMAIN q : q[i] = x}
<1>1. DOMAIN q = 1 .. Len(q) /\ Len(q) \in Nat
  BY LenProperties
<1>2. IsFiniteSet(1 .. Len(q))
  BY <1>1, FS_Interval
<1>3. IsFiniteSet(P)
  BY <1>1, <1>2, FS_Subset
<1>4. Cardinality(P) \in Nat /\ (Cardinality(P) = 0 <=> P = {})
  BY <1>3, FS_CardinalityType, FS_EmptySet
<1> QED BY <1>3, <1>4 DEF Count

\* A send adds the element sent.
LEMMA CountAppend ==
  ASSUME NEW S, NEW q \in Seq(S), NEW e \in S, NEW x
  PROVE  Count(Append(q, e), x) = Count(q, x) + (IF e = x THEN 1 ELSE 0)
<1> DEFINE P == {i \in DOMAIN q : q[i] = x}
           R == {i \in DOMAIN Append(q, e) : Append(q, e)[i] = x}
<1>0. Count(q, x) = Cardinality(P) /\ Count(Append(q, e), x) = Cardinality(R)
  BY DEF Count
<1>1. IsFiniteSet(P) /\ Count(q, x) \in Nat
  BY CountType
<1>2. DOMAIN q = 1 .. Len(q) /\ Len(q) \in Nat
  BY LenProperties
<1>3. /\ DOMAIN Append(q, e) = 1 .. Len(q) + 1
      /\ \A i \in 1 .. Len(q) : Append(q, e)[i] = q[i]
      /\ Append(q, e)[Len(q) + 1] = e
  BY <1>2
<1>4. CASE e = x
  <2>1. R = P \cup {Len(q) + 1} /\ Len(q) + 1 \notin P
    BY <1>2, <1>3, <1>4
  <2>2. Cardinality(P \cup {Len(q) + 1}) = Cardinality(P) + 1
    BY <1>1, <2>1, FS_AddElement
  <2> QED BY <1>0, <1>4, <2>1, <2>2
<1>5. CASE e # x
  <2>1. R = P
    BY <1>2, <1>3, <1>5
  <2> HIDE DEF P, R
  <2> QED BY <1>0, <1>1, <1>5, <2>1
<1> QED BY <1>4, <1>5

\* A receive takes the head away.
LEMMA CountTail ==
  ASSUME NEW S, NEW q \in Seq(S), q # << >>, NEW x
  PROVE  Count(Tail(q), x) = Count(q, x) - (IF Head(q) = x THEN 1 ELSE 0)
<1> DEFINE P == {i \in DOMAIN q : q[i] = x}
           R == {i \in DOMAIN Tail(q) : Tail(q)[i] = x}
           f == [i \in R |-> i + 1]
<1>0. Count(q, x) = Cardinality(P) /\ Count(Tail(q), x) = Cardinality(R)
  BY DEF Count
<1>1. IsFiniteSet(P) /\ Count(q, x) \in Nat
  BY CountType
<1>2. /\ DOMAIN q = 1 .. Len(q) /\ Len(q) \in Nat \ {0}
      /\ DOMAIN Tail(q) = 1 .. Len(q) - 1 /\ Tail(q) \in Seq(S)
      /\ \A i \in 1 .. Len(q) - 1 : Tail(q)[i] = q[i + 1]
      /\ Head(q) = q[1]
  BY LenProperties, EmptySeq, HeadTailProperties
<1>3. IsFiniteSet(R)
  <2>1. Tail(q) \in Seq(S)
    BY <1>2
  <2> QED BY <2>1, CountType, Zenon
<1>4. f \in Bijection(R, P \ {1})
  <2>1. f \in [R -> P \ {1}]
    BY <1>2
  <2>2. \A a, b \in R : f[a] = f[b] => a = b
    BY <1>2
  <2>3. \A t \in P \ {1} : \E s \in R : f[s] = t
    <3> TAKE t \in P \ {1}
    <3>1. t \in 2 .. Len(q) /\ q[t] = x
      BY <1>2
    <3>2. t - 1 \in R
      BY <1>2, <3>1
    <3> WITNESS t - 1 \in R
    <3> QED BY <3>1, <3>2
  <2> QED BY <2>1, <2>2, <2>3 DEF Bijection, Injection, Surjection, IsInjective
<1>5. Cardinality(P \ {1}) = Cardinality(R)
  BY <1>3, <1>4, FS_Bijection, ZenonT(60) DEF ExistsBijection
<1>6. Cardinality(P \ {1}) = IF 1 \in P THEN Cardinality(P) - 1 ELSE Cardinality(P)
  BY <1>1, FS_RemoveElement
<1>7. 1 \in P <=> Head(q) = x
  BY <1>2
<1> HIDE DEF P, R
<1> QED BY <1>0, <1>1, <1>5, <1>6, <1>7

-----------------------------------------------------------------------------
(* Who changes what: what a step leaves alone is said once, here *)

USE DEF vars, agentVars, pipeVars, ctlVars, loopVars, logVars, ReaderUnchanged,
        CtlUnchanged, LoopUnchanged, ClientUnchanged, StopReading, Send, Obey,
        Shoot, Gone

\* The agent's processes.
LEMMA AgentFrame ==
  ASSUME [Next]_vars
  PROVE  \/ UNCHANGED agentVars
         \/ \E p \in Kin : Spawn(p)
         \/ \E p \in Agent : CloseOut(p)
         \/ \E p \in Agent, how \in {"code", "signal"} : Die(p, how)
         \/ TakeCmd
BY DEF Next, AgentStep, TaskStep, ClientStep,
       Write, Relay, RelayEnd, RelayInvalid, SendOp, StdinRead, TimerFire,
       TimerSend, GraceSend, TakeLine, TakeDone, Wait, EmitShow, EmitLog,
       EmitLogFails, Consume, HangUp

\* The pipes.
LEMMA PipeFrame ==
  ASSUME [Next]_vars
  PROVE  \/ UNCHANGED pipeVars
         \/ \E p \in Agent, s \in Streams : Write(p, s)
         \/ \E s \in Streams : Relay(s)
         \/ \E s \in Streams : RelayEnd(s)
         \/ \E s \in Streams : RelayInvalid(s)
BY DEF Next, AgentStep, TaskStep, ClientStep,
       Spawn, CloseOut, Die, SendOp, StdinRead, TimerFire, TimerSend, GraceSend,
       TakeLine, TakeDone, TakeCmd, Wait, EmitShow, EmitLog, EmitLogFails,
       Consume, HangUp

\* The channel of lines.
LEMMA OutFrame ==
  ASSUME [Next]_vars
  PROVE  \/ UNCHANGED <<out, reading, done>>
         \/ \E s \in Streams : Relay(s)
         \/ \E s \in Streams : RelayEnd(s)
         \/ \E s \in Streams : RelayInvalid(s)
         \/ TakeLine
         \/ TakeDone
BY DEF Next, AgentStep, TaskStep, ClientStep,
       Write, Spawn, CloseOut, Die, SendOp, StdinRead, TimerFire, TimerSend,
       GraceSend, TakeCmd, Wait, EmitShow, EmitLog, EmitLogFails, Consume, HangUp

\* The channel of commands and the grace timers.
LEMMA CmdFrame ==
  ASSUME [Next]_vars
  PROVE  \/ UNCHANGED <<cmds, grace>>
         \/ StdinRead
         \/ TimerSend
         \/ GraceSend
         \/ TakeCmd
BY DEF Next, AgentStep, TaskStep, ClientStep,
       Write, Spawn, CloseOut, Die, Relay, RelayEnd, RelayInvalid, SendOp,
       TimerFire, TakeLine, TakeDone, Wait, EmitShow, EmitLog, EmitLogFails,
       Consume, HangUp

\* Stdin and the wall clock.
LEMMA CtlFrame ==
  ASSUME [Next]_vars
  PROVE  \/ UNCHANGED ctlVars
         \/ \E op \in Ops : SendOp(op)
         \/ StdinRead
         \/ TimerFire
         \/ TimerSend
BY DEF Next, AgentStep, TaskStep, ClientStep,
       Write, Spawn, CloseOut, Die, Relay, RelayEnd, RelayInvalid, GraceSend,
       TakeLine, TakeDone, TakeCmd, Wait, EmitShow, EmitLog, EmitLogFails,
       Consume, HangUp

\* The loop's place.
LEMMA LoopFrame ==
  ASSUME [Next]_vars
  PROVE  \/ UNCHANGED <<sup, event, done, report>>
         \/ TakeLine
         \/ TakeDone
         \/ Wait
         \/ EmitShow
         \/ EmitLog
         \/ EmitLogFails
BY DEF Next, AgentStep, TaskStep, ClientStep,
       Write, Spawn, CloseOut, Die, Relay, RelayEnd, RelayInvalid, SendOp,
       StdinRead, TimerFire, TimerSend, GraceSend, TakeCmd, Consume, HangUp

\* Stdout and the transcript.
LEMMA LogFrame ==
  ASSUME [Next]_vars
  PROVE  \/ UNCHANGED <<logVars, unread, client>>
         \/ EmitShow
         \/ EmitLog
         \/ Consume
         \/ HangUp
BY DEF Next, AgentStep, TaskStep, ClientStep,
       Write, Spawn, CloseOut, Die, Relay, RelayEnd, RelayInvalid, SendOp,
       StdinRead, TimerFire, TimerSend, GraceSend, TakeLine, TakeDone, TakeCmd,
       Wait, EmitLogFails

-----------------------------------------------------------------------------
(* Typing *)

\* TypeOK, a group of variables at a time.
AgentTyped ==
  /\ alive \subseteq Agent /\ open \subseteq alive /\ frozen \in BOOLEAN
  /\ status \in {"none", "code", "signal"} /\ (status = "none" <=> "leader" \in alive)
PipeTyped ==
  /\ wrote \in [Streams -> 0 .. MaxLines] /\ pipe \in [Streams -> 0 .. MaxLines]
  /\ reading \in [Streams -> BOOLEAN] /\ cut \in [Streams -> BOOLEAN]
OutTyped == out \in Seq(Streams \cup {"done"}) /\ Len(out) <= OutCap
CtlTyped ==
  /\ cmds \in Seq(Cmds) /\ Len(cmds) <= CmdCap
  /\ input \in Seq(Ops) /\ asked \subseteq Ops /\ sent \in 0 .. MaxOps
  /\ timer \in {"armed", "due", "sent"} /\ grace \in Nat
LoopTyped ==
  /\ sup \in {"loop", "emit", "log", "wait", "ok", "err"}
  /\ event \in Events \cup {"none"}
  /\ done \in 0 .. 2 /\ reason \in (Reasons \ {"agent_exit"}) \cup {"none"}
  /\ report \in Reasons \cup {"none"}
LogTyped ==
  /\ shown \in [Events -> Nat] /\ logged \in [Events -> Nat]
  /\ unread \in 0 .. StreamCap /\ client \in BOOLEAN

\* A reader is behind its writers.
PipeBehind == \A s \in Streams : pipe[s] <= wrote[s]

\* Each reader that stopped has sent one Done, which is in the channel or counted.
Ended(s)   == IF reading[s] THEN 0 ELSE 1
DoneInLine == done + Count(out, "done") = Ended("stdout") + Ended("stderr")

TypeInv == TypeOK /\ PipeBehind /\ DoneInLine

\* TypeOK is its groups.
LEMMA TypeParts ==
  TypeOK <=> /\ AgentTyped /\ PipeTyped /\ OutTyped
             /\ CtlTyped /\ LoopTyped /\ LogTyped
BY DEF TypeOK, AgentTyped, PipeTyped, OutTyped, CtlTyped, LoopTyped, LogTyped

\* The first state is typed.
LEMMA TypeInit ==
  ASSUME Init PROVE TypeInv
<1>1. AgentTyped
  BY DEF Init, AgentTyped, Agent
<1>2. PipeTyped
  BY SupervisorAssumption DEF Init, PipeTyped
<1>3. OutTyped /\ CtlTyped
  <2>1. << >> \in Seq(Streams \cup {"done"}) /\ << >> \in Seq(Cmds) /\ << >> \in Seq(Ops)
    OBVIOUS
  <2>2. Len(<< >>) = 0 /\ 0 <= OutCap /\ 0 <= CmdCap /\ 0 \in 0 .. MaxOps
    BY SupervisorAssumption
  <2> QED BY <2>1, <2>2 DEF Init, OutTyped, CtlTyped
<1>4. LoopTyped /\ LogTyped
  BY SupervisorAssumption DEF Init, LoopTyped, LogTyped
<1>5. PipeBehind
  BY DEF Init, PipeBehind
<1>6. DoneInLine
  <2>1. out \in Seq(Streams \cup {"done"}) /\ \A i \in DOMAIN out : FALSE
    BY DEF Init
  <2>2. Count(out, "done") = 0
    BY <2>1, CountType
  <2> QED BY <2>2 DEF Init, DoneInLine, Ended, Streams
<1> QED BY <1>1, <1>2, <1>3, <1>4, <1>5, <1>6, TypeParts DEF TypeInv

\* Every step keeps the processes typed.
LEMMA AgentTypedStep ==
  ASSUME AgentTyped, [Next]_vars PROVE AgentTyped'
<1> USE DEF AgentTyped
<1>1. CASE UNCHANGED agentVars
  BY <1>1
<1>2. ASSUME NEW p \in Kin, Spawn(p) PROVE AgentTyped'
  BY <1>2, SupervisorAssumption DEF Spawn, Agent
<1>3. ASSUME NEW p \in Agent, CloseOut(p) PROVE AgentTyped'
  BY <1>3 DEF CloseOut
<1>4. ASSUME NEW p \in Agent, NEW how \in {"code", "signal"}, Die(p, how)
      PROVE  AgentTyped'
  BY <1>4 DEF Die
<1>5. CASE TakeCmd
  BY <1>5 DEF TakeCmd
<1> QED BY <1>1, <1>2, <1>3, <1>4, <1>5, AgentFrame

\* Every step keeps the pipes typed.
LEMMA PipeTypedStep ==
  ASSUME PipeTyped, PipeBehind, [Next]_vars PROVE PipeTyped' /\ PipeBehind'
<1> USE SupervisorAssumption DEF PipeTyped, PipeBehind, Streams
<1>1. CASE UNCHANGED pipeVars
  BY <1>1
<1>2. ASSUME NEW p \in Agent, NEW s \in Streams, Write(p, s)
      PROVE  PipeTyped' /\ PipeBehind'
  BY <1>2 DEF Write
<1>3. ASSUME NEW s \in Streams, Relay(s) PROVE PipeTyped' /\ PipeBehind'
  BY <1>3 DEF Relay
<1>4. ASSUME NEW s \in Streams, RelayEnd(s) PROVE PipeTyped' /\ PipeBehind'
  BY <1>4 DEF RelayEnd
<1>5. ASSUME NEW s \in Streams, RelayInvalid(s) PROVE PipeTyped' /\ PipeBehind'
  BY <1>5 DEF RelayInvalid
<1> QED BY <1>1, <1>2, <1>3, <1>4, <1>5, PipeFrame

\* Every step keeps the channel of lines typed, and accounts for each Done.
LEMMA OutTypedStep ==
  ASSUME OutTyped, PipeTyped, LoopTyped, DoneInLine, [Next]_vars
  PROVE  OutTyped' /\ DoneInLine' /\ done' \in 0 .. 2
<1> DEFINE Message == Streams \cup {"done"}
<1> USE SupervisorAssumption
<1>a. /\ out \in Seq(Message) /\ Len(out) \in Nat /\ Len(out) <= OutCap
      /\ Count(out, "done") \in Nat /\ done \in 0 .. 2 /\ OutCap \in Nat
  BY CountType, LenProperties DEF OutTyped, LoopTyped
<1>b. ASSUME NEW e \in Message, Len(out) < OutCap, out' = Append(out, e)
      PROVE  OutTyped' /\ Count(out', "done") = Count(out, "done") + (IF e = "done" THEN 1 ELSE 0)
  BY <1>a, <1>b, CountAppend DEF OutTyped
<1>c. ASSUME out # << >>, out' = Tail(out)
      PROVE  /\ OutTyped' /\ Count(out', "done") \in Nat
             /\ Count(out', "done") = Count(out, "done") - (IF Head(out) = "done" THEN 1 ELSE 0)
  <2>1. Tail(out) \in Seq(Message) /\ Len(Tail(out)) = Len(out) - 1
    BY <1>a, <1>c, HeadTailProperties
  <2>2. Len(Tail(out)) <= OutCap
    BY <1>a, <2>1
  <2>3. Count(Tail(out), "done") \in Nat
    BY <2>1, CountType
  <2>4. Count(out', "done") = Count(out, "done") - (IF Head(out) = "done" THEN 1 ELSE 0)
    BY <1>a, <1>c, CountTail
  <2> QED BY <1>c, <2>1, <2>2, <2>3, <2>4, Zenon DEF OutTyped
<1>1. CASE UNCHANGED <<out, reading, done>>
  BY <1>1 DEF OutTyped, LoopTyped, DoneInLine, Ended
<1>2. ASSUME NEW s \in Streams, Relay(s) PROVE OutTyped' /\ DoneInLine' /\ done' \in 0 .. 2
  BY <1>2, <1>a, <1>b DEF Relay, Room, DoneInLine, Ended, Streams
<1>3. ASSUME NEW s \in Streams, reading[s], StopReading(s), UNCHANGED done
      PROVE  OutTyped' /\ DoneInLine' /\ done' \in 0 .. 2
  BY <1>3, <1>a, <1>b, SMTT(60) DEF Room, DoneInLine, Ended, Streams, PipeTyped
<1>4. ASSUME NEW s \in Streams, RelayEnd(s) \/ RelayInvalid(s)
      PROVE  OutTyped' /\ DoneInLine' /\ done' \in 0 .. 2
  BY <1>3, <1>4 DEF RelayEnd, RelayInvalid
<1>5. CASE TakeLine
  BY <1>5, <1>a, <1>c DEF TakeLine, DoneInLine, Ended, Streams
<1>6. CASE TakeDone
  BY <1>6, <1>a, <1>c DEF TakeDone, DoneInLine, Ended
<1> QED BY <1>1, <1>2, <1>4, <1>5, <1>6, OutFrame

\* Every step keeps the commands typed.
LEMMA CtlTypedStep ==
  ASSUME CtlTyped, [Next]_vars PROVE CtlTyped'
<1> USE SupervisorAssumption DEF CtlTyped
<1>a. ASSUME NEW c \in Cmds, Send(c) PROVE cmds' \in Seq(Cmds) /\ Len(cmds') <= CmdCap
  BY <1>a
<1>1. CASE UNCHANGED <<cmds, grace>> /\ UNCHANGED ctlVars
  BY <1>1
<1>2. ASSUME NEW op \in Ops, SendOp(op) PROVE CtlTyped'
  BY <1>2 DEF SendOp
<1>3. CASE StdinRead
  <2>1. Head(input) \in Ops /\ input' \in Seq(Ops)
    BY <1>3, HeadTailProperties DEF StdinRead
  <2> QED BY <1>3, <1>a, <2>1 DEF StdinRead, Cmds
<1>4. CASE TimerFire
  BY <1>4 DEF TimerFire
<1>5. CASE TimerSend
  BY <1>5, <1>a DEF TimerSend, Cmds
<1>6. CASE GraceSend
  BY <1>6, <1>a DEF GraceSend, Cmds, Ops
<1>7. CASE TakeCmd
  <2>1. cmds' \in Seq(Cmds) /\ Len(cmds') = Len(cmds) - 1 /\ Len(cmds) \in Nat
    BY <1>7, HeadTailProperties, LenProperties DEF TakeCmd
  <2>2. grace' \in Nat
    BY <1>7 DEF TakeCmd
  <2>3. CmdCap \in Nat
    OBVIOUS
  <2>4. UNCHANGED ctlVars
    BY <1>7 DEF TakeCmd
  <2> QED BY <2>1, <2>2, <2>3, <2>4
<1> QED BY <1>1, <1>2, <1>3, <1>4, <1>5, <1>6, <1>7, CmdFrame, CtlFrame

\* Every step keeps the loop typed, done apart.
LEMMA LoopTypedStep ==
  ASSUME LoopTyped, [Next]_vars, done' \in 0 .. 2 PROVE LoopTyped'
<1> USE DEF LoopTyped
<1>1. reason' \in (Reasons \ {"agent_exit"}) \cup {"none"}
  <2>1. \/ reason' = reason
        \/ TakeCmd
    BY DEF Next, AgentStep, TaskStep, ClientStep, Write, Spawn, CloseOut, Die, Relay,
           RelayEnd, RelayInvalid, SendOp, StdinRead, TimerFire, TimerSend,
           GraceSend, TakeLine, TakeDone, Wait, EmitShow, EmitLog, EmitLogFails,
           Consume, HangUp
  <2>2. TakeCmd => reason' \in {reason, "killed", "timeout", "stopped"}
    BY DEF TakeCmd
  <2> QED BY <2>1, <2>2 DEF Reasons
<1>2. CASE UNCHANGED <<sup, event, done, report>>
  BY <1>1, <1>2
<1>3. CASE TakeLine
  BY <1>1, <1>3 DEF TakeLine, Events
<1>4. CASE TakeDone
  BY <1>1, <1>4 DEF TakeDone
<1>5. CASE Wait
  BY <1>1, <1>5 DEF Wait, Events, Reasons
<1>6. CASE EmitShow
  BY <1>1, <1>6 DEF EmitShow
<1>7. CASE EmitLog \/ EmitLogFails
  BY <1>1, <1>7 DEF EmitLog, EmitLogFails
<1> QED BY <1>2, <1>3, <1>4, <1>5, <1>6, <1>7, LoopFrame

\* Every step keeps the logs typed.
LEMMA LogTypedStep ==
  ASSUME LogTyped, [Next]_vars PROVE LogTyped'
<1>1. shown' \in [Events -> Nat] /\ logged' \in [Events -> Nat]
  <2>1. \/ UNCHANGED logVars
        \/ shown' = [shown EXCEPT ![event] = @ + 1] /\ logged' = logged
        \/ logged' = [logged EXCEPT ![event] = @ + 1] /\ shown' = shown
    BY LogFrame DEF EmitShow, EmitLog, Consume, HangUp
  <2> QED BY <2>1 DEF LogTyped
<1>2. unread' \in 0 .. StreamCap
  <2>1. \/ unread' = unread
        \/ unread < StreamCap /\ unread' = unread + 1
        \/ unread > 0 /\ unread' = unread - 1
        \/ unread' = 0
    BY LogFrame DEF EmitShow, EmitLog, Consume, HangUp
  <2> QED BY <2>1, SupervisorAssumption DEF LogTyped
<1>3. client' \in BOOLEAN
  <2>1. client' = client \/ client' = FALSE
    BY LogFrame DEF EmitShow, EmitLog, Consume, HangUp
  <2> QED BY <2>1 DEF LogTyped
<1> QED BY <1>1, <1>2, <1>3 DEF LogTyped

\* Every step keeps the typing.
LEMMA TypeStep ==
  ASSUME TypeInv, [Next]_vars PROVE TypeInv'
<1>1. AgentTyped' /\ PipeTyped' /\ PipeBehind'
  BY AgentTypedStep, PipeTypedStep, TypeParts DEF TypeInv
<1>2. OutTyped' /\ DoneInLine' /\ done' \in 0 .. 2
  BY OutTypedStep, TypeParts DEF TypeInv
<1>3. CtlTyped' /\ LoopTyped' /\ LogTyped'
  BY <1>2, CtlTypedStep, LoopTypedStep, LogTypedStep, TypeParts DEF TypeInv
<1>4. TypeOK'
  BY <1>1, <1>2, <1>3
     DEF TypeOK, AgentTyped, PipeTyped, OutTyped, CtlTyped, LoopTyped, LogTyped
<1> QED BY <1>1, <1>2, <1>4 DEF TypeInv

\* Supervisor state is well typed, and no channel holds more than its capacity.
THEOREM SupervisorTyping == Spec => []TypeOK
<1>1. Init => TypeInv
  BY TypeInit
<1>2. TypeInv /\ [Next]_vars => TypeInv'
  BY TypeStep
<1>3. TypeInv => TypeOK
  BY DEF TypeInv
<1> QED BY <1>1, <1>2, <1>3, PTL DEF Spec

-----------------------------------------------------------------------------
(* The process group *)

\* Only a member that lives adds to the group.
LEMMA GroupStep ==
  ASSUME GroupIsShot, [Next]_vars PROVE GroupIsShot'
<1> USE DEF GroupIsShot
<1>1. CASE TakeCmd
  BY <1>1 DEF TakeCmd
<1>2. CASE ~TakeCmd
  <2>1. UNCHANGED reason
    BY <1>2 DEF Next, AgentStep, TaskStep, ClientStep, Write, Spawn, CloseOut, Die,
                Relay, RelayEnd, RelayInvalid, SendOp, StdinRead, TimerFire,
                TimerSend, GraceSend, TakeLine, TakeDone, Wait, EmitShow, EmitLog,
                EmitLogFails, Consume, HangUp
  <2>2. alive' \subseteq alive \/ alive \cap Group # {}
    BY <1>2, AgentFrame DEF Spawn, CloseOut, Die, Runs, Group, Agent
  <2> QED BY <2>1, <2>2
<1> QED BY <1>1, <1>2

\* Once the loop has noted killed or timeout, the agent's process group is empty,
\* whatever its descendants do.
THEOREM GroupShot == Spec => []GroupIsShot
<1>1. Init => GroupIsShot
  BY DEF Init, GroupIsShot
<1>2. GroupIsShot /\ [Next]_vars => GroupIsShot'
  BY GroupStep
<1> QED BY <1>1, <1>2, PTL DEF Spec

-----------------------------------------------------------------------------
(* Stdout and the transcript *)

\* What the loop has in hand, and when run_ended goes out.
EventInHand == sup \in {"emit", "log"} => event \in Events
EndedOnce ==
  /\ sup \in {"loop", "wait", "emit"} => shown["run_ended"] = 0
  /\ sup = "log" => shown["run_ended"] = (IF event = "run_ended" THEN 1 ELSE 0)
  /\ sup = "ok" => shown["run_ended"] = 1

LogInv == EventInHand /\ EndedOnce /\ TranscriptFollows

\* The first state satisfies it.
LEMMA LogInit ==
  ASSUME Init PROVE LogInv
BY DEF Init, LogInv, EventInHand, EndedOnce, TranscriptFollows, Events

\* And every step keeps it.
LEMMA LogStep ==
  ASSUME TypeOK, LogInv, [Next]_vars PROVE LogInv'
<1> USE DEF LogInv, EventInHand, EndedOnce, TranscriptFollows
<1>a. /\ shown \in [Events -> Nat] /\ logged \in [Events -> Nat]
      /\ "run_ended" \in Events
  BY DEF TypeOK, Events
<1>1. CASE UNCHANGED <<sup, event>> /\ UNCHANGED logVars
  BY <1>1
<1>2. CASE TakeLine
  BY <1>2 DEF TakeLine, Events
<1>3. CASE TakeDone
  BY <1>3 DEF TakeDone
<1>4. CASE Wait
  BY <1>4 DEF Wait, Events
<1>5. CASE EmitShow
  <2>1. /\ sup = "emit" /\ event \in Events /\ event' = event /\ logged' = logged
        /\ shown["run_ended"] = 0
        /\ \/ sup' = "log" /\ shown' = [shown EXCEPT ![event] = @ + 1]
           \/ sup' = "err" /\ shown' = shown
    BY <1>5 DEF EmitShow
  <2>2. \A e \in Events : shown[e] = logged[e] /\ shown[e] \in Nat
    BY <1>a, <2>1
  <2> HIDE DEF LogInv, EventInHand, EndedOnce, TranscriptFollows
  <2>3. EndedOnce' /\ EventInHand'
    BY <1>a, <2>1, <2>2 DEF EndedOnce, EventInHand
  <2>4. TranscriptFollows'
    BY <1>a, <2>1, <2>2 DEF TranscriptFollows
  <2> QED BY <2>3, <2>4 DEF LogInv
<1>6. CASE EmitLog
  <2>1. /\ sup = "log" /\ event \in Events /\ event' = event /\ shown' = shown
        /\ sup' = (IF event = "run_ended" THEN "ok" ELSE "loop")
        /\ logged' = [logged EXCEPT ![event] = @ + 1]
    BY <1>6 DEF EmitLog
  <2>2. /\ \A e \in Events : shown[e] = logged[e] + (IF event = e THEN 1 ELSE 0)
        /\ shown["run_ended"] = (IF event = "run_ended" THEN 1 ELSE 0)
    BY <2>1
  <2> HIDE DEF LogInv, EventInHand, EndedOnce, TranscriptFollows
  <2>3. EndedOnce' /\ EventInHand'
    BY <2>1, <2>2 DEF EndedOnce, EventInHand
  <2>4. \A e \in Events : shown'[e] = logged'[e] /\ shown'[e] \in Nat
    BY <1>a, <2>1, <2>2
  <2>5. TranscriptFollows'
    BY <2>1, <2>2, <2>4, <1>a DEF TranscriptFollows
  <2> QED BY <2>3, <2>5 DEF LogInv
<1>7. CASE EmitLogFails
  BY <1>a, <1>7 DEF EmitLogFails
<1>8. CASE Consume \/ HangUp
  BY <1>8 DEF Consume, HangUp
<1> QED BY <1>1, <1>2, <1>3, <1>4, <1>5, <1>6, <1>7, <1>8, LoopFrame, LogFrame

\* The transcript is what the client was sent, and a Run that ended well has one
\* run_ended in both.
THEOREM TranscriptAgrees == Spec => []TranscriptFollows
<1>1. Init => TypeInv /\ LogInv
  BY TypeInit, LogInit
<1>2. TypeInv /\ LogInv /\ [Next]_vars => TypeInv' /\ LogInv'
  BY TypeStep, LogStep DEF TypeInv
<1>3. LogInv => TranscriptFollows
  BY DEF LogInv
<1> QED BY <1>1, <1>2, <1>3, PTL DEF Spec

-----------------------------------------------------------------------------
(* The lines *)

\* A line the loop has taken and not yet shown.
InHand(s) == IF sup = "emit" /\ event = s THEN 1 ELSE 0

\* Every line of a pipe whose reader did not give up is somewhere.
LinesKept ==
  sup # "err" =>
    \A s \in Streams :
      ~cut[s] => wrote[s] = pipe[s] + Count(out, s) + InHand(s) + shown[s]

\* A reader that reached the end of its pipe left nothing, and nobody to write.
ReaderEnded ==
  \A s \in Streams : ~reading[s] /\ ~cut[s] => open = {} /\ pipe[s] = 0

\* The last message is a Done: behind it the channel is empty.
LastIsDone ==
  (\A s \in Streams : ~reading[s]) =>
    IF done = 2 THEN out = << >> ELSE out # << >> /\ out[Len(out)] = "done"

\* The loop leaves for run_ended when it has counted both.
EndedLast ==
  \/ sup \in {"wait", "ok"} \/ (sup \in {"emit", "log"} /\ event = "run_ended")
  \/ shown["run_ended"] > 0
  => done = 2

LineInv == LinesKept /\ ReaderEnded /\ LastIsDone /\ EndedLast /\ NothingLost

\* The first state satisfies it.
LEMMA LineInit ==
  ASSUME Init PROVE LineInv
<1>1. \A s \in Streams : Count(out, s) = 0
  <2>1. out \in Seq(Streams \cup {"done"}) /\ \A i \in DOMAIN out : FALSE
    BY DEF Init
  <2> QED BY <2>1, CountType
<1>2. LinesKept
  BY <1>1 DEF Init, LinesKept, InHand, Streams, Events
<1>3. ReaderEnded /\ LastIsDone /\ EndedLast /\ NothingLost
  BY DEF Init, ReaderEnded, LastIsDone, EndedLast, NothingLost, Streams, Events
<1> QED BY <1>2, <1>3 DEF LineInv

\* A message sent or taken moves a line, if it is one, by one place.
LEMMA LinesMoved ==
  ASSUME OutTyped, NEW s \in Streams
  PROVE  /\ Count(out, s) \in Nat
         /\ \A e \in Streams \cup {"done"} :
              Count(Append(out, e), s) = Count(out, s) + (IF e = s THEN 1 ELSE 0)
         /\ out # << >> =>
              Count(Tail(out), s) = Count(out, s) - (IF Head(out) = s THEN 1 ELSE 0)
<1> DEFINE Message == Streams \cup {"done"}
<1>1. out \in Seq(Message)
  BY DEF OutTyped
<1>2. Count(out, s) \in Nat
  BY <1>1, CountType
<1>3. ASSUME NEW e \in Message
      PROVE  Count(Append(out, e), s) = Count(out, s) + (IF e = s THEN 1 ELSE 0)
  BY <1>1, CountAppend
<1>4. ASSUME out # << >>
      PROVE  Count(Tail(out), s) = Count(out, s) - (IF Head(out) = s THEN 1 ELSE 0)
  BY <1>1, <1>4, CountTail
<1> QED BY <1>2, <1>3, <1>4

\* No step loses a line.
LEMMA LinesKeptStep ==
  ASSUME TypeInv, LogInv, LinesKept, ReaderEnded, [Next]_vars PROVE LinesKept'
<1>a. /\ wrote \in [Streams -> Nat] /\ pipe \in [Streams -> Nat] /\ shown \in [Events -> Nat]
      /\ reading \in [Streams -> BOOLEAN] /\ cut \in [Streams -> BOOLEAN]
      /\ OutTyped
  BY TypeParts, SupervisorAssumption DEF TypeInv, TypeOK
<1>b. Streams \subseteq Events /\ "done" \notin Streams /\ "run_ended" \notin Streams
  BY DEF Streams, Events
<1>c. \A s \in Streams : Count(out, s) \in Nat
  BY <1>a, LinesMoved
<1>1. CASE UNCHANGED <<wrote, pipe, cut, out, sup, event, shown>>
  BY <1>1 DEF LinesKept, InHand
<1>2. ASSUME NEW p \in Agent, NEW t \in Streams, Write(p, t) PROVE LinesKept'
  <2>1. /\ p \in open /\ wrote' = [wrote EXCEPT ![t] = @ + 1]
        /\ pipe' = IF reading[t] THEN [pipe EXCEPT ![t] = @ + 1] ELSE pipe
        /\ UNCHANGED <<reading, cut, out, sup, event, shown>>
    BY <1>2 DEF Write
  <2>2. reading[t] \/ cut[t]
    BY <2>1 DEF ReaderEnded
  <2>3. \A s \in Streams :
          /\ wrote'[s] = wrote[s] + (IF s = t THEN 1 ELSE 0)
          /\ ~cut[s] => pipe'[s] = pipe[s] + (IF s = t THEN 1 ELSE 0)
    BY <1>a, <2>1, <2>2
  <2> QED BY <1>a, <1>b, <1>c, <2>1, <2>3 DEF LinesKept, InHand
<1>3. ASSUME NEW t \in Streams, Relay(t) PROVE LinesKept'
  <2>1. /\ pipe[t] > 0 /\ pipe' = [pipe EXCEPT ![t] = @ - 1] /\ out' = Append(out, t)
        /\ UNCHANGED <<wrote, cut, sup, event, shown>>
    BY <1>3 DEF Relay
  <2>2. \A s \in Streams : Count(out', s) = Count(out, s) + (IF t = s THEN 1 ELSE 0)
    BY <1>a, <2>1, LinesMoved
  <2>3. /\ sup' = sup /\ event' = event
        /\ \A s \in Streams :
             /\ pipe'[s] = pipe[s] - (IF t = s THEN 1 ELSE 0)
             /\ wrote'[s] = wrote[s] /\ cut'[s] = cut[s] /\ shown'[s] = shown[s]
    BY <1>a, <2>1
  <2>4. ASSUME sup # "err", NEW s \in Streams, ~cut[s]
        PROVE  wrote[s] = pipe'[s] + Count(out', s) + InHand(s) + shown[s]
    <3>1. InHand(s) \in Nat
      BY DEF InHand
    <3>2. wrote[s] = pipe[s] + Count(out, s) + InHand(s) + shown[s]
      BY <2>4 DEF LinesKept
    <3>3. pipe[s] \in Nat /\ Count(out, s) \in Nat /\ shown[s] \in Nat
      BY <1>a, <1>b, <1>c
    <3> QED BY <2>2, <2>3, <3>1, <3>2, <3>3
  <2> QED BY <2>3, <2>4 DEF LinesKept, InHand
<1>4. ASSUME NEW t \in Streams, RelayEnd(t) \/ RelayInvalid(t) PROVE LinesKept'
  <2>1. /\ out' = Append(out, "done") /\ UNCHANGED <<wrote, sup, event, shown>>
        /\ \/ UNCHANGED <<pipe, cut>>
           \/ /\ cut' = [cut EXCEPT ![t] = TRUE]
              /\ pipe' = [pipe EXCEPT ![t] = 0]
    BY <1>4 DEF RelayEnd, RelayInvalid
  <2>2. \A s \in Streams : Count(out', s) = Count(out, s)
    <3> TAKE s \in Streams
    <3>1. Count(Append(out, "done"), s) = Count(out, s) + 0
      BY <1>a, <1>b, LinesMoved
    <3> QED BY <1>c, <2>1, <3>1
  <2> QED BY <1>a, <1>c, <2>1, <2>2 DEF LinesKept, InHand
<1>5. CASE TakeLine
  <2>1. /\ sup = "loop" /\ out # << >> /\ out' = Tail(out)
        /\ sup' = "emit" /\ event' = Head(out)
        /\ UNCHANGED <<wrote, pipe, cut, shown>>
    BY <1>5 DEF TakeLine
  <2>2. \A s \in Streams :
          Count(out', s) = Count(out, s) - (IF Head(out) = s THEN 1 ELSE 0)
    BY <1>a, <2>1, LinesMoved
  <2> QED BY <1>a, <1>b, <1>c, <2>1, <2>2 DEF LinesKept, InHand
<1>6. CASE TakeDone
  <2>1. /\ sup = "loop" /\ out # << >> /\ out' = Tail(out) /\ Head(out) = "done"
        /\ sup' \in {"wait", "loop"} /\ UNCHANGED <<wrote, pipe, cut, shown>>
    BY <1>6 DEF TakeDone
  <2>2. \A s \in Streams : Count(out', s) = Count(out, s)
    <3> TAKE s \in Streams
    <3>1. Count(Tail(out), s) = Count(out, s) - 0
      BY <1>a, <1>b, <2>1, LinesMoved
    <3> QED BY <1>c, <2>1, <3>1
  <2> QED BY <1>a, <1>b, <1>c, <2>1, <2>2 DEF LinesKept, InHand
<1>7. CASE Wait \/ EmitLog \/ EmitLogFails
  <2>1. /\ sup \in {"wait", "log"} /\ UNCHANGED <<wrote, pipe, cut, out, shown>>
        /\ sup' = "emit" => event' = "run_ended"
    BY <1>7 DEF Wait, EmitLog, EmitLogFails
  <2> QED BY <1>b, <2>1 DEF LinesKept, InHand
<1>8. CASE EmitShow
  <2>1. /\ sup = "emit" /\ event \in Events /\ UNCHANGED <<wrote, pipe, cut, out, event>>
        /\ \/ sup' = "log" /\ shown' = [shown EXCEPT ![event] = @ + 1]
           \/ sup' = "err"
    BY <1>8 DEF EmitShow, LogInv, EventInHand
  <2> QED BY <1>a, <1>b, <1>c, <2>1 DEF LinesKept, InHand
<1>9. CASE Consume \/ HangUp
  BY <1>1, <1>9 DEF Consume, HangUp
<1> QED
  BY <1>1, <1>2, <1>3, <1>4, <1>5, <1>6, <1>7, <1>8, <1>9,
     PipeFrame, OutFrame, LoopFrame, LogFrame

\* A reader that ended stays ended.
LEMMA ReaderEndedStep ==
  ASSUME TypeInv, ReaderEnded, [Next]_vars PROVE ReaderEnded'
<1> USE DEF ReaderEnded
<1>a. /\ reading \in [Streams -> BOOLEAN] /\ cut \in [Streams -> BOOLEAN]
      /\ pipe \in [Streams -> 0 .. MaxLines]
  BY DEF TypeInv, TypeOK
<1>b. open = {} => open' = {}
  BY AgentFrame DEF Spawn, CloseOut, Die, TakeCmd
<1>1. CASE UNCHANGED pipeVars
  BY <1>b, <1>1
<1>2. ASSUME NEW p \in Agent, NEW s \in Streams, Write(p, s) PROVE ReaderEnded'
  BY <1>2, <1>a DEF Write
<1>3. ASSUME NEW s \in Streams, Relay(s) PROVE ReaderEnded'
  BY <1>3, <1>a DEF Relay
<1>4. ASSUME NEW s \in Streams, RelayEnd(s) PROVE ReaderEnded'
  BY <1>4, <1>a DEF RelayEnd
<1>5. ASSUME NEW s \in Streams, RelayInvalid(s) PROVE ReaderEnded'
  BY <1>5, <1>a DEF RelayInvalid
<1> QED BY <1>1, <1>2, <1>3, <1>4, <1>5, PipeFrame

\* The last message stays a Done, and the second Done leaves the channel empty.
LEMMA LastIsDoneStep ==
  ASSUME TypeInv, LastIsDone, [Next]_vars PROVE LastIsDone'
<1> DEFINE Message == Streams \cup {"done"}
<1>a. /\ out \in Seq(Message) /\ Len(out) \in Nat /\ DOMAIN out = 1 .. Len(out)
      /\ reading \in [Streams -> BOOLEAN] /\ done \in 0 .. 2
      /\ Count(out, "done") \in Nat
  <2>1. out \in Seq(Message)
    BY DEF TypeInv, TypeOK
  <2> QED BY <2>1, CountType, LenProperties DEF TypeInv, TypeOK
<1>b. DoneInLine /\ DoneInLine' /\ done' \in 0 .. 2
  BY TypeStep DEF TypeInv, TypeOK
<1>c. ASSUME out # << >>
      PROVE  /\ Len(out) > 0 /\ Tail(out) \in Seq(Message) /\ Head(out) = out[1]
             /\ Len(Tail(out)) = Len(out) - 1
             /\ Tail(out) # << >> => Len(out) > 1 /\ Tail(out)[Len(Tail(out))] = out[Len(out)]
             /\ Tail(out) = << >> => Len(out) = 1
  <2>1. /\ Tail(out) \in Seq(Message) /\ Len(Tail(out)) = Len(out) - 1
        /\ \A i \in 1 .. Len(Tail(out)) : Tail(out)[i] = out[i + 1]
    BY <1>a, <1>c, HeadTailProperties
  <2>2. Len(out) > 0 /\ Head(out) = out[1]
    BY <1>a, <1>c, EmptySeq
  <2>3. Tail(out) # << >> => Len(Tail(out)) \in Nat \ {0}
    BY <2>1, EmptySeq
  <2>4. Tail(out) = << >> => Len(Tail(out)) = 0
    BY EmptySeq
  <2>5. ASSUME Tail(out) # << >>
        PROVE  Len(out) > 1 /\ Tail(out)[Len(Tail(out))] = out[Len(out)]
    <3>1. Len(Tail(out)) \in 1 .. Len(Tail(out)) /\ Len(Tail(out)) + 1 = Len(out)
      BY <1>a, <2>1, <2>3, <2>5
    <3> QED BY <1>a, <2>1, <3>1
  <2> QED BY <1>a, <2>1, <2>2, <2>4, <2>5
<1>1. CASE UNCHANGED <<out, reading, done>>
  BY <1>1 DEF LastIsDone
<1>2. ASSUME NEW t \in Streams, Relay(t) PROVE LastIsDone'
  BY <1>2 DEF Relay, LastIsDone
<1>3. ASSUME NEW t \in Streams, RelayEnd(t) \/ RelayInvalid(t) PROVE LastIsDone'
  <2>1. reading[t] /\ out' = Append(out, "done") /\ done' = done
    BY <1>3 DEF RelayEnd, RelayInvalid
  <2>2. done < 2
    <3>1. Ended("stdout") + Ended("stderr") < 2
      BY <2>1 DEF Ended, Streams
    <3> QED BY <1>a, <1>b, <3>1 DEF DoneInLine
  <2>3. out' # << >> /\ out'[Len(out')] = "done"
    <3>1. Append(out, "done") # << >> /\ Len(Append(out, "done")) = Len(out) + 1
      BY <1>a
    <3>2. Append(out, "done")[Len(out) + 1] = "done"
      BY <1>a
    <3> QED BY <2>1, <3>1, <3>2
  <2> QED BY <2>1, <2>2, <2>3 DEF LastIsDone
<1>4. CASE TakeLine
  <2>1. /\ out # << >> /\ Head(out) \in Streams /\ out' = Tail(out)
        /\ UNCHANGED <<reading, done>>
    BY <1>4 DEF TakeLine
  <2>2. Head(out) # "done"
    BY <2>1 DEF Streams
  <2>3. ASSUME \A s \in Streams : ~reading[s]
        PROVE  done # 2 /\ Tail(out) # << >> /\ Tail(out)[Len(Tail(out))] = "done"
    BY <1>c, <2>1, <2>2, <2>3 DEF LastIsDone
  <2> QED BY <2>1, <2>3 DEF LastIsDone
<1>5. CASE TakeDone
  <2>1. /\ out # << >> /\ Head(out) = "done" /\ out' = Tail(out)
        /\ done' = done + 1 /\ UNCHANGED reading
    BY <1>5 DEF TakeDone
  <2>2. SUFFICES ASSUME \A s \in Streams : ~reading[s]
                 PROVE  IF done' = 2 THEN out' = << >>
                                     ELSE out' # << >> /\ out'[Len(out')] = "done"
    BY <2>1 DEF LastIsDone
  <2>3. out[Len(out)] = "done"
    BY <2>1, <2>2 DEF LastIsDone
  <2>4. done' + Count(Tail(out), "done") = 2
    BY <1>b, <2>1, <2>2 DEF DoneInLine, Ended, Streams
  <2>5. /\ Count(Tail(out), "done") \in Nat
        /\ Count(Tail(out), "done") = 0 <=> \A i \in DOMAIN Tail(out) : Tail(out)[i] # "done"
    BY <1>c, <2>1, CountType
  <2>6. CASE Tail(out) = << >>
    <3>1. Count(Tail(out), "done") = 0
      BY <2>5, <2>6
    <3>2. done' = 2
      BY <1>b, <2>4, <3>1
    <3> QED BY <2>1, <2>6, <3>2
  <2>7. CASE Tail(out) # << >>
    <3>1. Tail(out)[Len(Tail(out))] = "done" /\ Len(Tail(out)) \in DOMAIN Tail(out)
      <4>1. Tail(out)[Len(Tail(out))] = "done"
        BY <1>c, <2>1, <2>3, <2>7
      <4>2. Tail(out) \in Seq(Message)
        BY <1>c, <2>1
      <4>3. Len(Tail(out)) \in Nat \ {0}
        BY <2>7, <4>2, EmptySeq
      <4>4. DOMAIN Tail(out) = 1 .. Len(Tail(out))
        BY <4>2, LenProperties, Zenon
      <4>5. \A n \in Nat \ {0} : n \in 1 .. n
        OBVIOUS
      <4> QED BY <4>1, <4>3, <4>4, <4>5, Zenon
    <3>2. Count(Tail(out), "done") # 0
      BY <2>5, <3>1
    <3>3. done' # 2
      BY <1>b, <2>4, <2>5, <3>2
    <3> QED BY <2>1, <2>7, <3>1, <3>3
  <2> QED BY <2>6, <2>7
<1> QED BY <1>1, <1>2, <1>3, <1>4, <1>5, OutFrame

\* run_ended waits for the second Done.
LEMMA EndedLastStep ==
  ASSUME TypeInv, LogInv, EndedLast, [Next]_vars PROVE EndedLast'
<1> USE DEF EndedLast
<1>a. /\ shown \in [Events -> Nat] /\ done' \in 0 .. 2
      /\ sup = "loop" => shown["run_ended"] = 0
  BY TypeStep DEF TypeInv, TypeOK, LogInv, EndedOnce
<1>1. CASE UNCHANGED <<sup, event, done, shown>>
  BY <1>1
<1>2. CASE TakeLine
  BY <1>2, <1>a DEF TakeLine, Streams
<1>3. CASE TakeDone
  BY <1>3, <1>a DEF TakeDone
<1>4. CASE Wait
  BY <1>4 DEF Wait
<1>5. CASE EmitShow
  <2>1. /\ sup = "emit" /\ sup' \in {"log", "err"} /\ UNCHANGED <<event, done>>
        /\ shown' \in {shown, [shown EXCEPT ![event] = @ + 1]}
    BY <1>5 DEF EmitShow
  <2>2. event # "run_ended" => shown'["run_ended"] = shown["run_ended"]
    BY <1>a, <2>1 DEF Events
  <2> QED BY <2>1, <2>2
<1>6. CASE EmitLog \/ EmitLogFails
  BY <1>6 DEF EmitLog, EmitLogFails
<1>7. CASE Consume \/ HangUp
  BY <1>1, <1>7 DEF Consume, HangUp
<1> QED BY <1>1, <1>2, <1>3, <1>4, <1>5, <1>6, <1>7, LoopFrame, LogFrame

\* When run_ended is out the channel and the pipes are empty, so that the count of
\* the lines leaves no place for them but stdout.
LEMMA NothingLeft ==
  TypeInv /\ LogInv /\ LinesKept /\ ReaderEnded /\ LastIsDone /\ EndedLast
    /\ sup # "err" => NothingLost
<1> SUFFICES ASSUME TypeInv, LogInv, LinesKept, ReaderEnded, LastIsDone, EndedLast,
                    sup # "err", shown["run_ended"] > 0, NEW s \in Streams,
                    ~cut[s]
             PROVE  shown[s] = wrote[s] /\ pipe[s] = 0
  BY DEF NothingLost
<1>1. done = 2 /\ sup # "emit"
  BY DEF EndedLast, LogInv, EndedOnce
<1>2. Count(out, "done") \in Nat /\ out \in Seq(Streams \cup {"done"})
  BY CountType DEF TypeInv, TypeOK
<1>3. \A t \in Streams : ~reading[t]
  BY <1>1, <1>2 DEF TypeInv, DoneInLine, Ended, Streams
<1>4. out = << >> /\ pipe[s] = 0
  BY <1>1, <1>3 DEF LastIsDone, ReaderEnded
<1>5. Count(out, s) = 0
  <2>1. \A i \in DOMAIN out : FALSE
    BY <1>4
  <2> QED BY <1>2, <2>1, CountType
<1>6. wrote[s] = pipe[s] + Count(out, s) + InHand(s) + shown[s] /\ InHand(s) = 0
  BY <1>1 DEF LinesKept, InHand
<1>7. shown[s] \in Nat
  BY DEF TypeInv, TypeOK, Streams, Events
<1> QED BY <1>4, <1>5, <1>6, <1>7

\* Every step keeps the accounts.
LEMMA LineStep ==
  ASSUME TypeInv, LogInv, LineInv, [Next]_vars PROVE LineInv'
<1>1. TypeInv' /\ LogInv'
  BY TypeStep, LogStep DEF TypeInv
<1>2. LinesKept' /\ ReaderEnded' /\ LastIsDone' /\ EndedLast'
  BY LinesKeptStep, ReaderEndedStep, LastIsDoneStep, EndedLastStep DEF LineInv
<1>3. CASE sup' # "err"
  <2>1. (sup # "err")'
    BY <1>3
  <2>2. NothingLost'
    BY <1>1, <1>2, <2>1, NothingLeft, PTL
  <2> QED BY <1>2, <2>2 DEF LineInv
<1>4. CASE sup' = "err"
  <2>1. UNCHANGED <<wrote, pipe, cut, shown>>
    BY <1>4 DEF Next, AgentStep, TaskStep, ClientStep, Write, Runs, Over, Room, Spawn,
            CloseOut, Die, Relay, RelayEnd, RelayInvalid, SendOp, StdinRead,
            TimerFire, TimerSend, GraceSend, TakeLine, TakeDone, TakeCmd, Wait,
            EmitShow, EmitLog, EmitLogFails, Consume, HangUp
  <2> QED BY <1>2, <2>1 DEF LineInv, NothingLost
<1> QED BY <1>3, <1>4

\* When run_ended is out, every line of every pipe whose reader did not give up
\* has gone out before it.
THEOREM NoLineLost == Spec => []NothingLost
<1>1. Init => TypeInv /\ LogInv /\ LineInv
  BY TypeInit, LogInit, LineInit
<1>2. TypeInv /\ LogInv /\ LineInv /\ [Next]_vars => TypeInv' /\ LogInv' /\ LineInv'
  BY TypeStep, LogStep, LineStep DEF TypeInv
<1>3. LineInv => NothingLost
  BY DEF LineInv
<1> QED BY <1>1, <1>2, <1>3, PTL DEF Spec

-----------------------------------------------------------------------------
(* The commands *)

\* Contains, for a send and for a receive.
LEMMA ContainsAppend ==
  ASSUME NEW S, NEW q \in Seq(S), NEW e \in S, NEW x
  PROVE  Contains(Append(q, e), x) <=> Contains(q, x) \/ e = x
<1>1. Len(q) \in Nat /\ Len(Append(q, e)) = Len(q) + 1
  BY LenProperties
<1>2. /\ \A i \in 1 .. Len(q) : Append(q, e)[i] = q[i]
      /\ Append(q, e)[Len(q) + 1] = e
  BY <1>1
<1>3. 1 .. Len(q) + 1 = (1 .. Len(q)) \cup {Len(q) + 1}
  BY <1>1
<1>4. Contains(Append(q, e), x) <=> \E i \in 1 .. Len(q) + 1 : Append(q, e)[i] = x
  BY <1>1, Zenon DEF Contains
<1>5. ASSUME NEW i \in (1 .. Len(q)) \cup {Len(q) + 1}, Append(q, e)[i] = x
      PROVE  Contains(q, x) \/ e = x
  BY <1>2, <1>5, Zenon DEF Contains
<1>6. Contains(q, x) => \E i \in 1 .. Len(q) : Append(q, e)[i] = x
  BY <1>2 DEF Contains
<1>7. Len(q) + 1 \in 1 .. Len(q) + 1
  BY <1>1
<1> QED BY <1>2, <1>3, <1>4, <1>5, <1>6, <1>7, Zenon

LEMMA ContainsTail ==
  ASSUME NEW S, NEW q \in Seq(S), q # << >>, NEW x
  PROVE  Contains(q, x) <=> Contains(Tail(q), x) \/ Head(q) = x
<1>1. /\ Len(q) \in Nat \ {0} /\ Len(Tail(q)) = Len(q) - 1 /\ Head(q) = q[1]
      /\ \A i \in 1 .. Len(q) - 1 : Tail(q)[i] = q[i + 1]
  BY EmptySeq, HeadTailProperties
<1>2. ASSUME Contains(q, x), Head(q) # x PROVE Contains(Tail(q), x)
  <2>1. PICK i \in 1 .. Len(q) : q[i] = x
    BY <1>2 DEF Contains
  <2>2. i - 1 \in 1 .. Len(q) - 1 /\ q[(i - 1) + 1] = x
    BY <1>1, <1>2, <2>1
  <2>3. Tail(q)[i - 1] = x
    BY <1>1, <2>2
  <2>4. 1 .. Len(Tail(q)) = 1 .. Len(q) - 1
    BY <1>1
  <2> QED BY <2>2, <2>3, <2>4, Zenon DEF Contains
<1>3. ASSUME Contains(Tail(q), x) PROVE Contains(q, x)
  <2>1. PICK i \in 1 .. Len(Tail(q)) : Tail(q)[i] = x
    BY <1>3, Zenon DEF Contains
  <2>2. i \in 1 .. Len(q) - 1 /\ i + 1 \in 1 .. Len(q)
    BY <1>1, <2>1
  <2>3. q[i + 1] = x
    BY <1>1, <2>1, <2>2
  <2> QED BY <2>2, <2>3 DEF Contains
<1>4. Head(q) = x => Contains(q, x)
  BY <1>1 DEF Contains
<1> QED BY <1>2, <1>3, <1>4

\* Nobody joins a group that is empty, and err and the second Done are for good.
LEMMA KillDone ==
  ASSUME TypeOK, [Next]_vars
  PROVE  /\ alive \cap Group = {} => alive' \cap Group = {}
         /\ sup = "err" => sup' = "err"
         /\ done' < 2 => done < 2
<1>1. alive' \subseteq alive \/ alive \cap Group # {}
  BY AgentFrame DEF Spawn, CloseOut, Die, TakeCmd, Runs, Group, Agent
<1>2. sup = "err" => sup' = "err"
  BY LoopFrame DEF TakeLine, TakeDone, Wait, EmitShow, EmitLog, EmitLogFails
<1>3. done' = done \/ done' = done + 1
  BY LoopFrame DEF TakeLine, TakeDone, Wait, EmitShow, EmitLog, EmitLogFails
<1> QED BY <1>1, <1>2, <1>3 DEF TypeOK

\* A kill moves from stdin to the channel and from there to the group.
LEMMA KillStep ==
  ASSUME TypeOK, KillArrives, [Next]_vars PROVE KillArrives'
<1> DEFINE K == \/ Contains(input, "kill") \/ Contains(cmds, "kill")
                \/ alive \cap Group = {} \/ sup = "err"
<1>a. input \in Seq(Ops) /\ cmds \in Seq(Cmds)
  BY DEF TypeOK
<1>b. SUFFICES ASSUME "kill" \in asked', done' < 2 PROVE K'
  BY DEF KillArrives
<1>c. ASSUME "kill" \in asked PROVE K
  BY <1>b, <1>c, KillDone DEF KillArrives
<1>1. CASE UNCHANGED <<cmds, grace>> /\ UNCHANGED ctlVars
  BY <1>1, <1>b, <1>c, KillDone
<1>2. ASSUME NEW op \in Ops, SendOp(op) PROVE K'
  <2>1. /\ input' = Append(input, op) /\ asked' = asked \cup {op}
        /\ UNCHANGED <<cmds, alive, sup>>
    BY <1>2 DEF SendOp
  <2>2. Contains(input', "kill") <=> Contains(input, "kill") \/ op = "kill"
    BY <1>a, <2>1, ContainsAppend
  <2> QED BY <1>b, <1>c, <2>1, <2>2
<1>3. CASE StdinRead
  <2>1. /\ input # << >> /\ input' = Tail(input) /\ cmds' = Append(cmds, Head(input))
        /\ UNCHANGED <<asked, alive, sup>> /\ Head(input) \in Cmds
    BY <1>3, <1>a, HeadTailProperties DEF StdinRead, Cmds
  <2>2. Contains(input, "kill") <=> Contains(input', "kill") \/ Head(input) = "kill"
    BY <1>a, <2>1, ContainsTail
  <2>3. Contains(cmds', "kill") <=> Contains(cmds, "kill") \/ Head(input) = "kill"
    BY <1>a, <2>1, ContainsAppend
  <2> QED BY <1>b, <1>c, <2>1, <2>2, <2>3
<1>4. CASE TimerFire
  BY <1>4, <1>b, <1>c DEF TimerFire
<1>5. ASSUME NEW c \in Cmds, Send(c), UNCHANGED <<input, asked, alive, sup>> PROVE K'
  <2>1. Contains(cmds', "kill") <=> Contains(cmds, "kill") \/ c = "kill"
    BY <1>5, <1>a, ContainsAppend
  <2> QED BY <1>5, <1>b, <1>c, <2>1
<1>6. CASE TimerSend \/ GraceSend
  BY <1>5, <1>6 DEF TimerSend, GraceSend, Cmds, Ops
<1>7. CASE TakeCmd
  <2>1. /\ cmds # << >> /\ cmds' = Tail(cmds) /\ UNCHANGED <<input, asked, sup>>
        /\ Head(cmds) = "kill" => alive' \cap Group = {}
    BY <1>7 DEF TakeCmd
  <2>2. Contains(cmds, "kill") <=> Contains(cmds', "kill") \/ Head(cmds) = "kill"
    BY <1>a, <2>1, ContainsTail
  <2> QED BY <1>b, <1>c, <2>1, <2>2, KillDone
<1> QED BY <1>1, <1>2, <1>3, <1>4, <1>6, <1>7, CmdFrame, CtlFrame

\* A kill the client sent is on its way, or has emptied the process group, or came
\* after the loop.
THEOREM KillOnItsWay == Spec => []KillArrives
<1>1. Init => TypeInv /\ KillArrives
  BY TypeInit DEF Init, KillArrives
<1>2. TypeInv /\ KillArrives /\ [Next]_vars => TypeInv' /\ KillArrives'
  BY TypeStep, KillStep DEF TypeInv
<1> QED BY <1>1, <1>2, PTL DEF Spec

-----------------------------------------------------------------------------
(* The reason *)

\* A command came from somewhere.
Justified(c) ==
  /\ c = "timeout" => timer # "armed"
  /\ c = "stop" => "stop" \in asked
  /\ c = "kill" => "kill" \in asked \/ "stop" \in asked

OpsAsked      == \A i \in 1 .. Len(input) : input[i] \in asked
CmdsJustified == \A i \in 1 .. Len(cmds) : Justified(cmds[i])
GraceAsked    == grace > 0 => "stop" \in asked

\* The reason was a command's.
ReasonJustified ==
  /\ reason = "timeout" => timer # "armed"
  /\ reason = "stopped" => "stop" \in asked
  /\ reason = "killed" => "kill" \in asked \/ "stop" \in asked

\* What run_ended reports is final.
ReportFinal ==
  report # "none" => /\ "leader" \notin alive
                     /\ sup \in {"ok", "err"} \/ (sup \in {"emit", "log"} /\ event = "run_ended")
                     /\ report = IF reason # "none" THEN reason
                                 ELSE IF status = "code" THEN "agent_exit" ELSE "killed"

ReasonInv == OpsAsked /\ CmdsJustified /\ GraceAsked /\ ReasonJustified /\ ReportFinal

\* The invariant says what is to be shown.
LEMMA ReasonShown == TypeOK /\ ReasonInv => ReasonTrue
BY DEF TypeOK, ReasonInv, ReasonJustified, ReportFinal, ReasonTrue, Reasons

\* The first state satisfies it.
LEMMA ReasonInit ==
  ASSUME Init PROVE ReasonInv
<1>1. OpsAsked /\ CmdsJustified
  <2>1. Len(input) = 0 /\ Len(cmds) = 0
    BY DEF Init
  <2> QED BY <2>1 DEF OpsAsked, CmdsJustified
<1>2. GraceAsked /\ ReasonJustified /\ ReportFinal
  BY DEF Init, GraceAsked, ReasonJustified, ReportFinal
<1> QED BY <1>1, <1>2 DEF ReasonInv

\* What was asked stays asked, and a clock that fired has fired.
LEMMA AskedGrows ==
  ASSUME TypeOK, [Next]_vars
  PROVE  asked \subseteq asked' /\ (timer # "armed" => timer' # "armed")
BY CtlFrame DEF SendOp, StdinRead, TimerFire, TimerSend

\* Every step keeps the commands justified.
LEMMA CmdsStep ==
  ASSUME TypeOK, OpsAsked, CmdsJustified, GraceAsked, [Next]_vars
  PROVE  OpsAsked' /\ CmdsJustified' /\ GraceAsked'
<1> DEFINE Goal == OpsAsked' /\ CmdsJustified' /\ GraceAsked'
<1>a. /\ input \in Seq(Ops) /\ cmds \in Seq(Cmds) /\ grace \in Nat
      /\ asked \subseteq asked'
  BY AskedGrows DEF TypeOK
<1>b. \A c \in Cmds : Justified(c) => Justified(c)'
  BY AskedGrows DEF Justified
<1>c. input' = input => OpsAsked'
  BY <1>a DEF OpsAsked
<1>d. cmds' = cmds => CmdsJustified'
  BY <1>a, <1>b DEF CmdsJustified
<1>e. grace' \in {grace, grace - 1} => GraceAsked'
  BY <1>a DEF GraceAsked
<1>f. ASSUME NEW c \in Cmds, Send(c), Justified(c) PROVE CmdsJustified'
  <2>1. /\ Len(cmds') = Len(cmds) + 1 /\ Len(cmds) \in Nat /\ cmds'[Len(cmds) + 1] = c
        /\ \A i \in 1 .. Len(cmds) : cmds'[i] = cmds[i] /\ cmds[i] \in Cmds
    BY <1>a, <1>f
  <2> QED BY <1>b, <1>f, <2>1 DEF CmdsJustified
<1>1. CASE UNCHANGED <<cmds, grace>> /\ UNCHANGED ctlVars
  BY <1>1, <1>c, <1>d, <1>e
<1>2. ASSUME NEW op \in Ops, SendOp(op) PROVE Goal
  <2>1. input' = Append(input, op) /\ op \in asked' /\ UNCHANGED <<cmds, grace>>
    BY <1>2 DEF SendOp
  <2>2. /\ Len(input') = Len(input) + 1 /\ Len(input) \in Nat /\ input'[Len(input) + 1] = op
        /\ \A i \in 1 .. Len(input) : input'[i] = input[i]
    BY <1>a, <2>1
  <2>3. OpsAsked'
    BY <1>a, <2>1, <2>2 DEF OpsAsked
  <2> QED BY <1>d, <1>e, <2>1, <2>3
<1>3. CASE StdinRead
  <2>1. /\ input # << >> /\ input' = Tail(input) /\ Send(Head(input)) /\ grace' = grace
    BY <1>3 DEF StdinRead
  <2>2. /\ Len(input) \in Nat \ {0} /\ Head(input) = input[1] /\ Head(input) \in Ops
        /\ Len(input') = Len(input) - 1
        /\ \A i \in 1 .. Len(input) - 1 : input'[i] = input[i + 1]
    BY <1>a, <2>1, HeadTailProperties, EmptySeq
  <2>3. OpsAsked'
    BY <1>a, <2>2 DEF OpsAsked
  <2>4. Head(input) \in asked
    BY <2>2 DEF OpsAsked
  <2>5. Justified(Head(input)) /\ Head(input) \in Cmds
    BY <2>2, <2>4 DEF Justified, Ops, Cmds
  <2> QED BY <1>e, <1>f, <2>1, <2>3, <2>5
<1>4. CASE TimerFire
  BY <1>4, <1>c, <1>d, <1>e DEF TimerFire
<1>5. CASE TimerSend
  <2>1. Send("timeout") /\ UNCHANGED <<input, grace>> /\ Justified("timeout")
    BY <1>5 DEF TimerSend, Justified
  <2> QED BY <1>c, <1>e, <1>f, <2>1 DEF Cmds
<1>6. CASE GraceSend
  <2>1. /\ Send("kill") /\ input' = input /\ grace' = grace - 1
        /\ Justified("kill") /\ "kill" \in Cmds
    BY <1>6 DEF GraceSend, GraceAsked, Justified, Cmds, Ops
  <2> QED BY <1>c, <1>e, <1>f, <2>1
<1>7. CASE TakeCmd
  <2>1. /\ cmds # << >> /\ cmds' = Tail(cmds) /\ UNCHANGED <<input, asked>>
        /\ grace' \in {grace, grace + 1} /\ (Head(cmds) # "stop" => grace' = grace)
    BY <1>7 DEF TakeCmd
  <2>2. /\ Len(cmds) \in Nat \ {0} /\ Head(cmds) = cmds[1]
        /\ Len(cmds') = Len(cmds) - 1
        /\ \A i \in 1 .. Len(cmds) - 1 : cmds'[i] = cmds[i + 1] /\ cmds[i + 1] \in Cmds
    BY <1>a, <2>1, HeadTailProperties, EmptySeq
  <2>3. CmdsJustified'
    BY <1>b, <2>2 DEF CmdsJustified
  <2>4. Justified(Head(cmds))
    <3>1. 1 \in 1 .. Len(cmds)
      BY <2>2
    <3> QED BY <2>2, <3>1 DEF CmdsJustified
  <2>5. GraceAsked'
    BY <2>1, <2>4 DEF GraceAsked, Justified
  <2> QED BY <1>c, <2>1, <2>3, <2>5
<1> QED BY <1>1, <1>2, <1>3, <1>4, <1>5, <1>6, <1>7, CmdFrame, CtlFrame

\* Every step keeps the reason and the report justified.
LEMMA ReasonStep ==
  ASSUME TypeOK, ReasonInv, [Next]_vars PROVE ReasonInv'
<1>1. OpsAsked' /\ CmdsJustified' /\ GraceAsked'
  BY CmdsStep DEF ReasonInv
<1>2. CASE TakeCmd
  <2>1. Justified(Head(cmds))
    <3>1. cmds \in Seq(Cmds) /\ cmds # << >>
      BY <1>2 DEF TakeCmd, TypeOK
    <3>2. Head(cmds) = cmds[1] /\ 1 \in 1 .. Len(cmds)
      BY <3>1, EmptySeq
    <3> QED BY <3>2 DEF ReasonInv, CmdsJustified
  <2>2. ReasonJustified'
    BY <1>2, <2>1 DEF TakeCmd, Justified, ReasonInv, ReasonJustified
  <2>3. ReportFinal'
    BY <1>2 DEF TakeCmd, ReasonInv, ReportFinal
  <2> QED BY <1>1, <2>2, <2>3 DEF ReasonInv
<1>3. CASE ~TakeCmd
  <2>1. UNCHANGED reason
    BY <1>3 DEF Next, AgentStep, TaskStep, ClientStep, Write, Spawn, CloseOut, Die,
                Relay, RelayEnd, RelayInvalid, SendOp, StdinRead, TimerFire,
                TimerSend, GraceSend, TakeLine, TakeDone, Wait, EmitShow, EmitLog,
                EmitLogFails, Consume, HangUp
  <2>2. ReasonJustified'
    BY <2>1, AskedGrows DEF ReasonInv, ReasonJustified
  <2>3. "leader" \notin alive => "leader" \notin alive' /\ status' = status
    BY <1>3, AgentFrame, SupervisorAssumption DEF Spawn, CloseOut, Die
  <2>4. ReportFinal'
    <3> USE DEF ReasonInv, ReportFinal
    <3>1. CASE UNCHANGED <<sup, event, done, report>>
      BY <2>1, <2>3, <3>1
    <3>2. CASE TakeLine \/ TakeDone
      BY <3>2 DEF TakeLine, TakeDone
    <3>3. CASE Wait
      BY <3>3 DEF Wait
    <3>4. CASE EmitShow \/ EmitLog \/ EmitLogFails
      BY <2>1, <2>3, <3>4 DEF EmitShow, EmitLog, EmitLogFails
    <3> QED BY <3>1, <3>2, <3>3, <3>4, LoopFrame
  <2> QED BY <1>1, <2>2, <2>4 DEF ReasonInv
<1> QED BY <1>2, <1>3

\* The reason run_ended gives is something that happened.
THEOREM ReasonIsTrue == Spec => []ReasonTrue
<1>1. Init => TypeInv /\ ReasonInv
  BY TypeInit, ReasonInit
<1>2. TypeInv /\ ReasonInv /\ [Next]_vars => TypeInv' /\ ReasonInv'
  BY TypeStep, ReasonStep DEF TypeInv
<1>3. TypeInv /\ ReasonInv => ReasonTrue
  BY ReasonShown DEF TypeInv
<1> QED BY <1>1, <1>2, <1>3, PTL DEF Spec

\* stdout and the transcript have all there is.
THEOREM AllEventsThere == Spec => []EventsComplete
  BY NoLineLost, TranscriptAgrees, PTL DEF EventsComplete
=============================================================================
