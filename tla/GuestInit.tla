----------------------------- MODULE GuestInit -----------------------------
(***************************************************************************)
(* PID 1 of the guest: bunsen-init/src/init_linux.rs.  It reads its spec   *)
(* from the host, brings the network up, connects the two output streams,  *)
(* waits for the host on the control port, starts the agent and leaves     *)
(* when the agent has left and both streams have been relayed; the kernel  *)
(* then reboots, which ends the VM.  Control lines and grace timers are    *)
(* handled by threads of their own.                                        *)
(***************************************************************************)
EXTENDS Naturals, Sequences

CONSTANTS MaxWritten    \* bound: lines the agent and its descendants write

ASSUME GuestAssumption == MaxWritten \in Nat

Streams == {"stdout", "stderr"}
Ops     == {"stop", "kill", "pause", "resume"}
Group   == {"leader", "child"}      \* the session setsid(2) made
Kin     == {"child", "stray"}       \* a stray made a session of its own

VARIABLES
  pid1,       \* where run() is; "down" once the VM is over
  crashed,    \* history: the VM ended some other way than by run() returning
  conn,       \* vsock connections the guest has made or, for control, takes
  specsent,   \* the host has written the spec and closed its half
  leader,     \* the agent: "none", "forked", "on", "zombie", "reaped"
  kin,        \* its descendants that are alive
  holders,    \* the processes that hold the pipes (both, or neither)
  frozen,     \* the group was sent SIGSTOP
  wrote,      \* per stream: lines written
  piped,      \* per stream: lines in the pipe
  relay,      \* per stream: its thread is "none", "on" or "over"
  vsock,      \* per stream: lines on their way to the host
  deaf,       \* per stream: the host has dropped its end
  control,    \* control lines on their way to the guest
  graces,     \* grace threads asleep
  shot        \* history: a SIGKILL reached the group

agentVars == <<leader, kin, holders, frozen, shot>>
ioVars    == <<wrote, piped, relay, vsock>>
pid1Vars  == <<pid1, crashed, conn>>
hostEnds  == <<specsent, deaf, control>>
guestVars == <<pid1Vars, hostEnds, agentVars, ioVars, graces>>

GuestStart ==
  /\ pid1 = "boot" /\ crashed = FALSE /\ conn = {} /\ specsent = FALSE
  /\ leader = "none" /\ kin = {} /\ holders = {}
  /\ frozen = FALSE /\ shot = FALSE
  /\ wrote = [s \in Streams |-> 0] /\ piped = wrote /\ vsock = wrote
  /\ relay = [s \in Streams |-> "none"] /\ deaf = [s \in Streams |-> FALSE]
  /\ control = << >> /\ graces = 0

Up == pid1 # "down"

-----------------------------------------------------------------------------
(* Up to the agent.  What PID 1 expects and does not get panics it (VmDies). *)

\* A file system that cannot be mounted is only printed; without /proc PID 1 panics.
mount_filesystems ==
  /\ pid1 = "boot" /\ pid1' = "spec" /\ conn' = conn \cup {"spec"}
  /\ UNCHANGED <<crashed, hostEnds, agentVars, ioVars, graces>>

\* The whole spec, up to the end of the stream; then the Workspace is mounted.
read_spec_from_vsock ==
  /\ pid1 = "spec" /\ specsent /\ pid1' = "net"
  /\ UNCHANGED <<crashed, conn, hostEnds, agentVars, ioVars, graces>>

\* eth0 and resolv.conf, when the spec names a network: neither is needed to go on.
configure_eth0 ==
  /\ pid1 = "net" /\ pid1' = "connect"
  /\ UNCHANGED <<crashed, conn, hostEnds, agentVars, ioVars, graces>>

\* stdout first, then stderr; then the control port is listened on.
vsock_connect ==
  /\ pid1 = "connect"
  /\ IF "stdout" \notin conn THEN conn' = conn \cup {"stdout"} /\ UNCHANGED pid1
     ELSE conn' = conn \cup {"stderr"} /\ pid1' = "listen"
  /\ UNCHANGED <<crashed, hostEnds, agentVars, ioVars, graces>>

vsock_listen ==
  /\ pid1 = "listen" /\ pid1' = "accept"
  /\ UNCHANGED <<crashed, conn, hostEnds, agentVars, ioVars, graces>>

\* Mutant: the agent is started while the control port still waits.
AcceptNever ==
  /\ pid1 = "accept" /\ pid1' = "fork"
  /\ UNCHANGED <<crashed, conn, hostEnds, agentVars, ioVars, graces>>

\* The kernel completes the host's connection while PID 1 is still on its way.
vsock_accept ==
  /\ pid1 = "accept" /\ "control" \in conn /\ pid1' = "fork"
  /\ UNCHANGED <<crashed, conn, hostEnds, agentVars, ioVars, graces>>

fork_exec ==
  /\ pid1 = "fork" /\ pid1' = "wait" /\ leader' = "forked"
  /\ holders' = {"leader"} /\ relay' = [s \in Streams |-> "on"]
  /\ UNCHANGED <<crashed, conn, hostEnds, kin, frozen, shot, wrote, piped,
                 vsock, graces>>

\* The child makes its session before it executes the agent.
setsid ==
  /\ Up /\ leader = "forked" /\ leader' = "on"
  /\ UNCHANGED <<pid1Vars, hostEnds, kin, holders, frozen, shot, ioVars, graces>>

-----------------------------------------------------------------------------
(* The agent and its descendants *)

Alive == (IF leader = "on" THEN {"leader"} ELSE {}) \cup kin
Runs(p) == Up /\ p \in Alive /\ (frozen => p \notin Group)

\* A line goes into the pipe; into one that nobody reads it is lost.
AgentWrites(p, s) ==
  /\ Runs(p) /\ p \in holders
  /\ wrote["stdout"] + wrote["stderr"] < MaxWritten
  /\ wrote' = [wrote EXCEPT ![s] = @ + 1]
  /\ piped' = IF relay[s] = "on" THEN [piped EXCEPT ![s] = @ + 1] ELSE piped
  /\ UNCHANGED <<pid1Vars, hostEnds, agentVars, relay, vsock, graces>>

AgentSpawns(k) ==
  /\ k \in Kin \ kin /\ kin' = kin \cup {k}
  /\ \E p \in Group :
       Runs(p) /\ holders' = IF p \in holders THEN holders \cup {k} ELSE holders
  /\ UNCHANGED <<pid1Vars, hostEnds, leader, frozen, shot, ioVars, graces>>

AgentCloses(p) ==
  /\ Runs(p) /\ p \in holders /\ holders' = holders \ {p}
  /\ UNCHANGED <<pid1Vars, hostEnds, leader, kin, frozen, shot, ioVars, graces>>

\* The leader becomes a zombie; a descendant is reaped by whoever is its parent.
Gone(ps) ==
  /\ leader' = IF "leader" \in ps /\ leader = "on" THEN "zombie" ELSE leader
  /\ kin' = kin \ ps /\ holders' = holders \ ps

\* It exits, or dies of a signal: of SIGTERM too, which it may also ignore.
AgentDies(p) ==
  /\ Runs(p) /\ Gone({p})
  /\ UNCHANGED <<pid1Vars, hostEnds, frozen, shot, ioVars, graces>>

-----------------------------------------------------------------------------
(* Control *)

\* killpg: the group is there from setsid until its last member has been reaped.
Grouped == leader \in {"on", "zombie"} \/ "child" \in kin

\* Mutant: only the agent itself is signalled.
SignalLeader(sig) ==
  IF Grouped /\ sig = "KILL" THEN Gone({"leader"}) /\ shot' = TRUE /\ frozen' = FALSE
  ELSE UNCHANGED agentVars

signal_pgid(sig) ==
  IF ~Grouped THEN UNCHANGED agentVars
  ELSE CASE sig = "KILL" -> Gone(Group) /\ shot' = TRUE /\ frozen' = FALSE
         [] sig = "STOP" -> frozen' = TRUE /\ UNCHANGED <<leader, kin, holders, shot>>
         [] sig = "CONT" -> frozen' = FALSE /\ UNCHANGED <<leader, kin, holders, shot>>
         [] OTHER        -> UNCHANGED agentVars

\* SIGTERM has no effect that AgentDies does not have.
dispatch_control(op) ==
  /\ signal_pgid(CASE op = "kill" -> "KILL" [] op = "pause" -> "STOP"
                   [] op = "resume" -> "CONT" [] OTHER -> "TERM")
  /\ graces' = IF op = "stop" THEN graces + 1 ELSE graces

\* The thread is there once the agent has been forked.
control_loop ==
  /\ pid1 \in {"wait", "join"} /\ control # << >>
  /\ dispatch_control(Head(control)) /\ control' = Tail(control)
  /\ UNCHANGED <<pid1Vars, specsent, deaf, ioVars>>

GraceOver ==
  /\ Up /\ graces > 0 /\ graces' = graces - 1 /\ signal_pgid("KILL")
  /\ UNCHANGED <<pid1Vars, hostEnds, ioVars>>

-----------------------------------------------------------------------------
(* The relays, and the end *)

\* io::copy; writing to a host that has dropped its end is an error, which ends it.
RelayLine(s) ==
  /\ Up /\ relay[s] = "on" /\ piped[s] > 0
  /\ IF deaf[s]
     THEN relay' = [relay EXCEPT ![s] = "over"] /\ piped' = [piped EXCEPT ![s] = 0]
          /\ UNCHANGED vsock
     ELSE piped' = [piped EXCEPT ![s] = @ - 1] /\ vsock' = [vsock EXCEPT ![s] = @ + 1]
          /\ UNCHANGED relay
  /\ UNCHANGED <<pid1Vars, hostEnds, agentVars, wrote, graces>>

RelayEnds(s) ==
  /\ Up /\ relay[s] = "on" /\ piped[s] = 0 /\ holders = {}
  /\ relay' = [relay EXCEPT ![s] = "over"]
  /\ UNCHANGED <<pid1Vars, hostEnds, agentVars, wrote, piped, vsock, graces>>

wait_for_agent ==
  /\ pid1 = "wait" /\ leader = "zombie" /\ leader' = "reaped" /\ pid1' = "join"
  /\ UNCHANGED <<crashed, conn, hostEnds, kin, holders, frozen, shot, ioVars, graces>>

\* Mutant: the VM goes down with the agent.
ExitAtOnce ==
  /\ pid1 = "join" /\ pid1' = "down"
  /\ UNCHANGED <<crashed, conn, hostEnds, agentVars, ioVars, graces>>

\* Both threads are joined, the disk is synced, and PID 1 exits.
JoinRelays ==
  /\ pid1 = "join" /\ \A s \in Streams : relay[s] = "over"
  /\ pid1' = "down"
  /\ UNCHANGED <<crashed, conn, hostEnds, agentVars, ioVars, graces>>

\* PID 1 panics at an expect, or the VM process dies.
VmDies ==
  /\ Up /\ pid1' = "down" /\ crashed' = TRUE
  /\ UNCHANGED <<conn, hostEnds, agentVars, ioVars, graces>>

Pid1Step ==
  \/ mount_filesystems \/ read_spec_from_vsock \/ configure_eth0 \/ vsock_connect \/ vsock_listen
  \/ vsock_accept \/ fork_exec \/ wait_for_agent \/ JoinRelays

AgentStep ==
  \/ setsid \/ \E k \in Kin : AgentSpawns(k)
  \/ \E p \in Group \cup Kin :
       AgentCloses(p) \/ AgentDies(p) \/ \E s \in Streams : AgentWrites(p, s)

ThreadStep == control_loop \/ GraceOver \/ \E s \in Streams : RelayLine(s) \/ RelayEnds(s)

GuestStep == Pid1Step \/ AgentStep \/ ThreadStep \/ VmDies

GuestTypeOK ==
  /\ pid1 \in {"boot", "spec", "net", "connect", "listen", "accept", "fork", "wait", "join", "down"}
  /\ crashed \in BOOLEAN /\ specsent \in BOOLEAN
  /\ conn \subseteq {"spec", "stdout", "stderr", "control"}
  /\ leader \in {"none", "forked", "on", "zombie", "reaped"} /\ kin \subseteq Kin
  /\ holders \subseteq Group \cup Kin
  /\ frozen \in BOOLEAN /\ shot \in BOOLEAN
  /\ wrote \in [Streams -> Nat] /\ piped \in [Streams -> Nat] /\ vsock \in [Streams -> Nat]
  /\ relay \in [Streams -> {"none", "on", "over"}] /\ deaf \in [Streams -> BOOLEAN]
  /\ control \in Seq(Ops) /\ graces \in Nat
=============================================================================
