------------------------- MODULE SandboxSupervisor -------------------------
(***************************************************************************)
(* A Sandbox Run from the VM's start to run_ended: the host side, which is *)
(* the second half of start_firecracker (firecracker.rs) and run of        *)
(* sandbox_supervisor.rs, composed with the guest (GuestInit) and with the *)
(* judging of what the agent tries to reach (Egress).                      *)
(*                                                                         *)
(* When the host has ended the guest is not followed further; when it has  *)
(* failed, the VM goes on without it.                                      *)
(***************************************************************************)
EXTENDS GuestInit, Egress

CONSTANTS
  MaxOps,          \* bound: control lines the client sends
  OutCap, CmdCap   \* capacities of the two channels (256 and 16 in the code)

ASSUME HostAssumption ==
  /\ MaxOps \in Nat /\ OutCap \in Nat \ {0} /\ CmdCap \in Nat \ {0}

VARIABLES
  host,       \* where the host is
  reading,    \* per stream: its reader task runs
  cut,        \* per stream: the reader gave up at a line that is not UTF-8
  out, cmds,  \* the channels to the loop
  sent,       \* control lines the client has sent
  timer,      \* the wall clock: "armed" or "fired"
  sleepers,   \* grace tasks asleep
  done,       \* done_count
  shown,      \* per stream: lines emitted
  heard,      \* history: attempts whose refusal went out while the VM was up
  missed      \* history: a kill found no process group

hostVars == <<host, reading, cut, out, cmds, sent, timer, sleepers, done, shown>>
vars == <<guestVars, egressVars, hostVars, heard, missed>>

Init ==
  /\ GuestStart /\ EgressInit
  /\ host = "spec" /\ reading = [s \in Streams |-> TRUE] /\ cut = [s \in Streams |-> FALSE]
  /\ out = << >> /\ cmds = << >> /\ sent = 0 /\ timer = "armed" /\ sleepers = 0
  /\ done = 0 /\ shown = [s \in Streams |-> 0]
  /\ heard = {} /\ missed = FALSE

Over == host \in {"ended", "failed"}

-----------------------------------------------------------------------------
(* Starting *)

StartUnchanged ==
  UNCHANGED <<pid1Vars, deaf, control, agentVars, ioVars, graces, egressVars, reading, cut,
              out, cmds, sent, timer, sleepers, done, shown, heard, missed>>

SendSpec ==
  /\ host = "spec" /\ "spec" \in conn /\ host' = "stdout" /\ specsent' = TRUE
  /\ StartUnchanged

\* The guest's connections wait in the listeners' queues.
AcceptStream ==
  /\ \E s \in Streams : host = s /\ s \in conn
  /\ host' = IF host = "stdout" THEN "stderr" ELSE "control"
  /\ UNCHANGED specsent /\ StartUnchanged

AwaitUnchanged ==
  UNCHANGED <<pid1, crashed, hostEnds, agentVars, ioVars, graces, egressVars, reading, cut,
              out, cmds, sent, timer, sleepers, done, shown, heard, missed>>

\* CONNECT is written to firecracker's socket, and its answer awaited.
connect_host_to_guest ==
  /\ host = "control" /\ Up /\ host' = "ack" /\ UNCHANGED conn /\ AwaitUnchanged

\* The guest listens: its kernel has the connection, and the OK is on its way.
ControlMade ==
  /\ host = "ack" /\ pid1 = "accept" /\ conn' = conn \cup {"control"} /\ UNCHANGED host
  /\ AwaitUnchanged

\* It does not listen yet: the host tries again, for two seconds.
ControlRejected ==
  /\ host = "ack" /\ pid1 = "listen" /\ host' = "control" /\ UNCHANGED conn /\ AwaitUnchanged

ControlTaken ==
  /\ host = "ack" /\ "control" \in conn /\ host' = "loop" /\ UNCHANGED conn /\ AwaitUnchanged

\* The process ends and its sockets with it; the VM is not told.
Abandon == host' = "failed" /\ deaf' = [s \in Streams |-> TRUE]

\* A connection that does not come in time is an error, and so is an answer that cannot
\* be read.
StartFails ==
  /\ host \in {"spec", "stdout", "stderr", "control", "ack"} /\ Abandon
  /\ UNCHANGED <<pid1Vars, specsent, control, agentVars, ioVars, graces, egressVars, reading, cut,
                 out, cmds, sent, timer, sleepers, done, shown, heard, missed>>

-----------------------------------------------------------------------------
(* The tasks *)

Started == host \in {"loop", "wait", "drain", "flush"}

TaskUnchanged ==
  UNCHANGED <<pid1Vars, specsent, control, agentVars, wrote, piped, relay, graces,
              egressVars, host, done, shown, heard, missed>>

ReadLine(s) ==
  /\ Started /\ reading[s] /\ vsock[s] > 0 /\ Len(out) < OutCap
  /\ vsock' = [vsock EXCEPT ![s] = @ - 1] /\ out' = Append(out, s)
  /\ UNCHANGED <<deaf, reading, cut, cmds, sent, timer, sleepers>> /\ TaskUnchanged

\* The end of the stream, or a line that is not UTF-8: the task sends Done and drops
\* the socket.
ReadEnd(s) ==
  /\ Started /\ reading[s] /\ Len(out) < OutCap
  /\ \/ /\ vsock[s] = 0 /\ (relay[s] = "over" \/ pid1 = "down") /\ UNCHANGED <<cut, vsock>>
     \/ /\ vsock[s] > 0 /\ cut' = [cut EXCEPT ![s] = TRUE] /\ vsock' = [vsock EXCEPT ![s] = 0]
  /\ reading' = [reading EXCEPT ![s] = FALSE] /\ deaf' = [deaf EXCEPT ![s] = TRUE]
  /\ out' = Append(out, "done")
  /\ UNCHANGED <<cmds, sent, timer, sleepers>> /\ TaskUnchanged

Queue(c) == Started /\ Len(cmds) < CmdCap /\ cmds' = Append(cmds, c)

ReadOp(op) ==
  /\ sent < MaxOps /\ Queue(op) /\ sent' = sent + 1
  /\ UNCHANGED <<vsock, deaf, reading, cut, out, timer, sleepers>> /\ TaskUnchanged

Timeout ==
  /\ timer = "armed" /\ Queue("timeout") /\ timer' = "fired"
  /\ UNCHANGED <<vsock, deaf, reading, cut, out, sent, sleepers>> /\ TaskUnchanged

HostGraceOver ==
  /\ sleepers > 0 /\ Queue("kill") /\ sleepers' = sleepers - 1
  /\ UNCHANGED <<vsock, deaf, reading, cut, out, sent, timer>> /\ TaskUnchanged

-----------------------------------------------------------------------------
(* The loop and what follows it *)

LoopUnchanged ==
  UNCHANGED <<pid1Vars, specsent, deaf, agentVars, ioVars, graces, reading, cut, sent, timer,
              heard, missed>>

\* An event that cannot be written ends run with an error.
EncoderFails ==
  /\ \/ host = "loop" /\ (denials # {} \/ (out # << >> /\ Head(out) # "done"))
     \/ host = "drain" /\ denials # {}
     \/ host = "flush"
  /\ Abandon
  /\ UNCHANGED <<pid1Vars, specsent, control, agentVars, ioVars, graces, egressVars, reading, cut,
                 out, cmds, sent, timer, sleepers, done, shown, heard, missed>>

TakeLine ==
  /\ host = "loop" /\ out # << >> /\ Head(out) # "done"
  /\ out' = Tail(out) /\ shown' = [shown EXCEPT ![Head(out)] = @ + 1]
  /\ UNCHANGED <<host, control, cmds, sleepers, done, egressVars>>
  /\ LoopUnchanged

TakeDone ==
  /\ host = "loop" /\ out # << >> /\ Head(out) = "done"
  /\ out' = Tail(out) /\ done' = done + 1 /\ host' = IF done = 1 THEN "wait" ELSE "loop"
  /\ UNCHANGED <<control, cmds, sleepers, shown, egressVars>>
  /\ LoopUnchanged

EmitDenial ==
  /\ host \in {"loop", "drain"} /\ \E t \in Tries : TakeDenial(t)
  /\ UNCHANGED <<host, control, out, cmds, sleepers, done, shown>>
  /\ LoopUnchanged

\* A control line that cannot be written is not missed.
TakeCmd ==
  /\ host = "loop" /\ cmds # << >> /\ cmds' = Tail(cmds)
  /\ LET c == Head(cmds)
         op == IF c = "timeout" THEN "kill" ELSE c
     IN  /\ sleepers' = IF c = "stop" THEN sleepers + 1 ELSE sleepers
         /\ control' = IF Up THEN Append(control, op) ELSE control
  /\ UNCHANGED <<host, out, done, shown, egressVars>>
  /\ LoopUnchanged

WaitVm ==
  /\ host = "wait" /\ pid1 = "down" /\ host' = "drain"
  /\ UNCHANGED <<control, out, cmds, sleepers, done, shown, egressVars>>
  /\ LoopUnchanged

\* try_recv until there is none; then the listeners are aborted.
Drained ==
  /\ host = "drain" /\ denials = {} /\ host' = "flush" /\ AbortListeners
  /\ UNCHANGED <<control, out, cmds, sleepers, done, shown>>
  /\ LoopUnchanged

\* What the parser still holds, then run_ended.
RunEnded ==
  /\ host = "flush" /\ host' = "ended"
  /\ UNCHANGED <<control, out, cmds, sleepers, done, shown, egressVars>>
  /\ LoopUnchanged

-----------------------------------------------------------------------------

\* A kill line that finds a forked agent without its group.
MissedNow == Up /\ leader = "forked" /\ control # << >> /\ Head(control) = "kill"

Guest(step) ==
  /\ host # "ended" /\ step /\ UNCHANGED <<egressVars, hostVars, heard>>
  /\ missed' = (missed \/ (MissedNow /\ control' # control))

\* The agent tries to reach something, and hears what it is told while it can.
Network ==
  /\ ~Over /\ UNCHANGED <<guestVars, hostVars, missed>>
  /\ \E t \in Tries :
       /\ \/ Attempt(t) /\ \E p \in Alive : Runs(p)
          \/ TaskStep(t)
       /\ heard' = IF Up /\ try[t].st # "refused" /\ try'[t].st = "refused"
                     THEN heard \cup {t} ELSE heard

HostStart ==
  \/ SendSpec \/ AcceptStream
  \/ connect_host_to_guest \/ ControlMade \/ ControlRejected \/ ControlTaken
HostReads == \E s \in Streams : ReadLine(s) \/ ReadEnd(s)
HostTask == HostReads \/ Timeout \/ HostGraceOver
HostLoop == TakeLine \/ TakeDone \/ EmitDenial \/ TakeCmd \/ WaitVm \/ Drained \/ RunEnded

Next ==
  \/ Guest(GuestStep) \/ Network \/ HostStart \/ StartFails \/ HostTask
  \/ (\E op \in Ops : ReadOp(op)) \/ HostLoop \/ EncoderFails

Spec == Init /\ [][Next]_vars

\* PID 1 and its threads go on, and so do the host's readers and its loop; a start that
\* cannot go on fails; the wall clock gets its turn at a channel that has room again and
\* again.  The agent, the client, the network and whatever fails need not act.
Fairness ==
  /\ WF_vars(Guest(Pid1Step \/ setsid \/ ThreadStep))
  /\ WF_vars(HostStart \/ StartFails) /\ WF_vars(HostReads) /\ WF_vars(HostLoop)
  /\ SF_vars(Timeout)

FairSpec == Spec /\ Fairness

-----------------------------------------------------------------------------
(* Properties *)

TypeOK ==
  /\ GuestTypeOK /\ EgressTypeOK
  /\ host \in {"spec", "stdout", "stderr", "control", "ack", "loop", "wait", "drain", "flush",
               "ended", "failed"}
  /\ reading \in [Streams -> BOOLEAN] /\ cut \in [Streams -> BOOLEAN]
  /\ out \in Seq(Streams \cup {"done"}) /\ cmds \in Seq(Ops \cup {"timeout"})
  /\ sent \in 0..MaxOps /\ timer \in {"armed", "fired"} /\ sleepers \in Nat
  /\ done \in 0..2 /\ shown \in [Streams -> Nat] /\ heard \subseteq Tries /\ missed \in BOOLEAN

\* An agent runs only when the host has both streams and has made the control
\* connection: the host may still have to read the OK, and the agent may be at work by
\* then, but none is started for a host that failed before it asked, or was turned away
\* and asks again (vsock_accept before fork_exec in the guest, CONNECT after the two
\* accepts on the host).
AgentUnderControl ==
  leader # "none" => "control" \in conn /\ host \notin {"spec", "stdout", "stderr", "control"}

\* run_ended closes the events: of a VM that went down by itself every line of both
\* streams was shown before it, through the pipe, the relay, the vsock and the channel,
\* whatever outlived the agent; a stream cut at a line that is no UTF-8 is excepted.
LinesArrive ==
  host = "ended" /\ ~crashed => \A s \in Streams : ~cut[s] => shown[s] = wrote[s]

\* A name the DNS listener refused to the guest is in the events before run_ended: it is
\* reported before it is answered, and the channel is drained after the VM has ended.
DnsDenialsShown ==
  host = "ended" => \A t \in heard : try[t].asked.via = "dns" => t \in denied

\* Out of the host's reach: a descendant that left the group and holds a stream, or
\* whatever lives on when both streams have ended and commands are no longer taken.
Escaped ==
  \/ "stray" \in holders
  \/ host = "wait" /\ Alive # {}

\* The wall clock ends every Run, through channels that are full, a stopped group and an
\* agent that ignores everything: unless what it must reach has escaped, or the kill came
\* between fork and setsid.
SandboxRunEnds == <>(Over \/ missed) \/ <>[]Escaped
=============================================================================
