----------------------------- MODULE Supervisor -----------------------------
(***************************************************************************)
(* The host-subprocess supervisor of one Run: bunsen-core/src/supervisor.rs*)
(* with Encoder::emit of encoder.rs.                                       *)
(*                                                                         *)
(* Seven tasks share two bounded channels: a reader per pipe of the agent, *)
(* the reader of bunsen-core's own stdin, the wall-clock timer, one grace  *)
(* timer per stop, and the loop that takes lines and commands, signals the *)
(* agent's process group and writes events.  The black-box adapter is the  *)
(* one modelled: a line is an event.                                       *)
(***************************************************************************)
EXTENDS Naturals, Sequences, SequencesExt

CONSTANTS
  Kin,       \* the agent's descendants: "child" stays in its process group,
             \* "stray" left it (setsid)
  MaxLines,  \* bound: lines the agent and its kin write
  MaxOps,    \* bound: control lines the client sends
  OutCap, CmdCap,  \* capacities of the two channels (256 and 16 in the code)
  StreamCap, \* events that fit in bunsen-core's stdout pipe
  Binary     \* whether a line may be invalid UTF-8

ASSUME SupervisorAssumption ==
  /\ Kin \subseteq {"child", "stray"}
  /\ MaxLines \in Nat /\ MaxOps \in Nat
  /\ OutCap \in Nat \ {0} /\ CmdCap \in Nat \ {0} /\ StreamCap \in Nat \ {0}
  /\ Binary \in BOOLEAN

Streams == {"stdout", "stderr"}
Ops     == {"stop", "kill", "pause", "resume"}
Cmds    == Ops \cup {"timeout"}
Events  == Streams \cup {"run_ended"}
Reasons == {"stopped", "killed", "timeout", "agent_exit"}
Agent   == {"leader"} \cup Kin
Group   == Agent \ {"stray"}

VARIABLES
  alive, open,    \* the agent's processes, and those that hold its pipes
  frozen,         \* the process group is stopped (SIGSTOP)
  status,         \* how the leader ended: "none", "code" or "signal"
  wrote, pipe,    \* per pipe: lines written, and lines not read yet
  reading, cut,   \* per pipe: its reader runs; it gave up at an invalid line
  out, cmds,      \* the channels to the loop
  input,          \* control lines in stdin
  asked, sent,    \* history: the ops the client sent, and how many lines
  timer, grace,   \* the wall clock, and how many grace timers run
  sup, event,     \* where the loop is, and the event it is emitting
  done, reason,   \* done_count and initiated_reason ("none" is None)
  report,         \* the reason run_ended gives
  shown, logged,  \* events written to stdout, and to the transcript
  unread, client  \* what the client has not read, and whether it is there

agentVars == <<alive, open, frozen, status>>
pipeVars  == <<wrote, pipe, reading, cut>>
ctlVars   == <<input, asked, sent, timer>>
loopVars  == <<sup, event, done, reason, report>>
logVars   == <<shown, logged>>
vars == <<agentVars, pipeVars, out, cmds, ctlVars, grace, loopVars, logVars,
          unread, client>>

\* The supervisor has returned.  Its ends of the channels are dropped, every send
\* of the tasks fails, and what the agent's processes do is not followed further.
Over == sup \in {"ok", "err"}

Init ==
  /\ alive = {"leader"} /\ open = alive /\ frozen = FALSE /\ status = "none"
  /\ wrote = [s \in Streams |-> 0] /\ pipe = wrote
  /\ reading = [s \in Streams |-> TRUE] /\ cut = [s \in Streams |-> FALSE]
  /\ out = << >> /\ cmds = << >>
  /\ input = << >> /\ asked = {} /\ sent = 0 /\ timer = "armed" /\ grace = 0
  /\ sup = "loop" /\ event = "none" /\ done = 0 /\ reason = "none" /\ report = "none"
  /\ shown = [e \in Events |-> 0] /\ logged = shown
  /\ unread = 0 /\ client = TRUE

-----------------------------------------------------------------------------
(* The agent and its descendants *)

Runs(p) == ~Over /\ p \in alive /\ (frozen => p \notin Group)

\* A line goes down a pipe; after its reader gave up there is nobody to read it.
Write(p, s) ==
  /\ Runs(p) /\ p \in open /\ wrote["stdout"] + wrote["stderr"] < MaxLines
  /\ wrote' = [wrote EXCEPT ![s] = @ + 1]
  /\ pipe' = IF reading[s] THEN [pipe EXCEPT ![s] = @ + 1] ELSE pipe
  /\ UNCHANGED <<agentVars, reading, cut, out, cmds, ctlVars, grace, loopVars,
                 logVars, unread, client>>

\* A descendant inherits the pipes, and may outlive the leader.
Spawn(p) ==
  /\ p \in Kin \ alive /\ \E q \in Group \cap open : Runs(q)
  /\ alive' = alive \cup {p} /\ open' = open \cup {p}
  /\ UNCHANGED <<frozen, status, pipeVars, out, cmds, ctlVars, grace, loopVars,
                 logVars, unread, client>>

\* A process may close its stdout and stderr and go on.
CloseOut(p) ==
  /\ Runs(p) /\ p \in open /\ open' = open \ {p}
  /\ UNCHANGED <<alive, frozen, status, pipeVars, out, cmds, ctlVars, grace,
                 loopVars, logVars, unread, client>>

\* Some processes are gone; how is the leader's wait status if it is one of them.
Gone(ps, how) ==
  /\ alive' = alive \ ps /\ open' = open \ ps
  /\ status' = IF "leader" \in ps \cap alive THEN how ELSE status

\* A process exits, or dies of a signal (SIGTERM, SIGPIPE, the OOM killer): an
\* agent may also ignore SIGTERM, so `stop` has no other effect on it.
Die(p, how) ==
  /\ Runs(p) /\ Gone({p}, how) /\ UNCHANGED frozen
  /\ UNCHANGED <<pipeVars, out, cmds, ctlVars, grace, loopVars, logVars, unread,
                 client>>

-----------------------------------------------------------------------------
(* The reader tasks *)

ReaderUnchanged == UNCHANGED <<agentVars, wrote, cmds, ctlVars, grace, loopVars,
                               logVars, unread, client>>

Room == ~Over /\ Len(out) < OutCap

\* next_line gives a line, and send waits for room in the channel.
Relay(s) ==
  /\ reading[s] /\ pipe[s] > 0 /\ Room
  /\ pipe' = [pipe EXCEPT ![s] = @ - 1] /\ out' = Append(out, s)
  /\ UNCHANGED <<reading, cut>> /\ ReaderUnchanged

\* The reader drops its pipe and sends Done.
StopReading(s) ==
  /\ Room /\ out' = Append(out, "done")
  /\ reading' = [reading EXCEPT ![s] = FALSE]

\* End of file: nobody holds the write end.
RelayEnd(s) ==
  /\ reading[s] /\ pipe[s] = 0 /\ open = {} /\ StopReading(s)
  /\ UNCHANGED <<pipe, cut>> /\ ReaderUnchanged

\* next_line fails on invalid UTF-8, which ends `while let Ok(Some(line))` too:
\* that line and all that follow are lost.
RelayInvalid(s) ==
  /\ Binary /\ reading[s] /\ pipe[s] > 0 /\ StopReading(s)
  /\ cut' = [cut EXCEPT ![s] = TRUE] /\ pipe' = [pipe EXCEPT ![s] = 0]
  /\ ReaderUnchanged

-----------------------------------------------------------------------------
(* The command tasks.  Lines parse_cmd does not know are skipped: left out. *)

CtlUnchanged == UNCHANGED <<agentVars, pipeVars, out, loopVars, logVars, unread,
                            client>>

SendOp(op) ==
  /\ ~Over /\ client /\ sent < MaxOps /\ sent' = sent + 1
  /\ input' = Append(input, op) /\ asked' = asked \cup {op}
  /\ UNCHANGED <<cmds, timer, grace>> /\ CtlUnchanged

\* The channel's send waits for room.
Send(c) == ~Over /\ Len(cmds) < CmdCap /\ cmds' = Append(cmds, c)

\* Mutant: try_send, which drops a command when the channel is full.
StdinReadTry ==
  /\ input # << >> /\ input' = Tail(input)
  /\ IF Len(cmds) < CmdCap THEN Send(Head(input)) ELSE UNCHANGED cmds
  /\ UNCHANGED <<asked, sent, timer, grace>> /\ CtlUnchanged

StdinRead ==
  /\ input # << >> /\ input' = Tail(input) /\ Send(Head(input))
  /\ UNCHANGED <<asked, sent, timer, grace>> /\ CtlUnchanged

TimerFire ==
  /\ ~Over /\ timer = "armed" /\ timer' = "due"
  /\ UNCHANGED <<input, asked, sent, cmds, grace>> /\ CtlUnchanged

\* Mutant: the same for the timer.
TimerSendTry ==
  /\ timer = "due" /\ timer' = "sent"
  /\ IF Len(cmds) < CmdCap THEN Send("timeout") ELSE UNCHANGED cmds
  /\ UNCHANGED <<input, asked, sent, grace>> /\ CtlUnchanged

TimerSend ==
  /\ timer = "due" /\ timer' = "sent" /\ Send("timeout")
  /\ UNCHANGED <<input, asked, sent, grace>> /\ CtlUnchanged

\* A grace period is over: escalate.
GraceSend ==
  /\ grace > 0 /\ grace' = grace - 1 /\ Send("kill")
  /\ UNCHANGED ctlVars /\ CtlUnchanged

-----------------------------------------------------------------------------
(* The loop *)

LoopUnchanged == UNCHANGED <<wrote, pipe, reading, cut, ctlVars, unread, client>>

TakeLine ==
  /\ sup = "loop" /\ out # << >> /\ Head(out) \in Streams
  /\ out' = Tail(out) /\ sup' = "emit" /\ event' = Head(out)
  /\ UNCHANGED <<agentVars, cmds, grace, done, reason, report, logVars>> /\ LoopUnchanged

\* Mutant: the first Done breaks the loop.
TakeDoneFirst ==
  /\ sup = "loop" /\ out # << >> /\ Head(out) = "done"
  /\ out' = Tail(out) /\ done' = done + 1 /\ sup' = "wait"
  /\ UNCHANGED <<agentVars, cmds, grace, event, reason, report, logVars>> /\ LoopUnchanged

\* The second Done breaks the loop.
TakeDone ==
  /\ sup = "loop" /\ out # << >> /\ Head(out) = "done"
  /\ out' = Tail(out) /\ done' = done + 1
  /\ sup' = IF done' >= 2 THEN "wait" ELSE "loop"
  /\ UNCHANGED <<agentVars, cmds, grace, event, reason, report, logVars>> /\ LoopUnchanged

\* Mutant: kill(pid) instead of killpg.
ShootLeader == Gone({"leader"}, "signal") /\ frozen' = FALSE

\* killpg(SIGKILL) reaches every member of the group, stopped or not.
Shoot == Gone(Group, "signal") /\ frozen' = FALSE

\* What the loop does with a command: signals sent, reason noted, timer spawned.
Obey(c) ==
  CASE c = "kill"    -> reason' = "killed" /\ Shoot /\ UNCHANGED grace
    [] c = "timeout" -> reason' = "timeout" /\ Shoot /\ UNCHANGED grace
    [] c = "stop"    -> reason' = "stopped" /\ grace' = grace + 1 /\ UNCHANGED agentVars
    [] OTHER         -> /\ frozen' = (c = "pause" /\ alive \cap Group # {})
                        /\ UNCHANGED <<alive, open, status, reason, grace>>

TakeCmd ==
  /\ sup = "loop" /\ cmds # << >>
  /\ Obey(Head(cmds)) /\ cmds' = Tail(cmds)
  /\ UNCHANGED <<out, sup, event, done, report, logVars>> /\ LoopUnchanged

\* Mutant: the wait status is not looked at.
WaitAnyStatus ==
  /\ sup = "wait" /\ "leader" \notin alive
  /\ sup' = "emit" /\ event' = "run_ended"
  /\ report' = IF reason # "none" THEN reason ELSE "agent_exit"
  /\ UNCHANGED <<agentVars, out, cmds, grace, done, reason, logVars>> /\ LoopUnchanged

\* child.wait(): the commands are no longer looked at.
Wait ==
  /\ sup = "wait" /\ "leader" \notin alive
  /\ sup' = "emit" /\ event' = "run_ended"
  /\ report' = IF reason # "none" THEN reason
               ELSE IF status = "code" THEN "agent_exit" ELSE "killed"
  /\ UNCHANGED <<agentVars, out, cmds, grace, done, reason, logVars>> /\ LoopUnchanged

\* Encoder::emit writes to stdout first, and blocks the loop while the pipe is
\* full; with no reader the write fails and `?` leaves the supervisor.
EmitShow ==
  /\ sup = "emit"
  /\ IF client
       THEN /\ unread < StreamCap /\ unread' = unread + 1
            /\ shown' = [shown EXCEPT ![event] = @ + 1] /\ sup' = "log"
       ELSE sup' = "err" /\ UNCHANGED <<unread, shown>>
  /\ UNCHANGED <<agentVars, pipeVars, out, cmds, ctlVars, grace, event, done,
                 reason, report, logged, client>>

\* Then the transcript, where the write may fail too.
EmitLog ==
  /\ sup = "log" /\ logged' = [logged EXCEPT ![event] = @ + 1]
  /\ sup' = IF event = "run_ended" THEN "ok" ELSE "loop"
  /\ UNCHANGED <<agentVars, pipeVars, out, cmds, ctlVars, grace, event, done,
                 reason, report, shown, unread, client>>

EmitLogFails ==
  /\ sup = "log" /\ sup' = "err"
  /\ UNCHANGED <<agentVars, pipeVars, out, cmds, ctlVars, grace, event, done,
                 reason, report, logVars, unread, client>>

-----------------------------------------------------------------------------
(* The client at the other end of stdin and stdout *)

ClientUnchanged == UNCHANGED <<agentVars, pipeVars, out, cmds, ctlVars, grace,
                               loopVars, logVars>>

Consume == ~Over /\ client /\ unread > 0 /\ unread' = unread - 1
           /\ UNCHANGED client /\ ClientUnchanged

HangUp == ~Over /\ client /\ client' = FALSE /\ unread' = 0 /\ ClientUnchanged

-----------------------------------------------------------------------------
AgentStep ==
  \/ \E p \in Agent, s \in Streams : Write(p, s)
  \/ \E p \in Kin : Spawn(p)
  \/ \E p \in Agent : CloseOut(p) \/ Die(p, "code") \/ Die(p, "signal")

TaskStep ==
  \/ \E s \in Streams : Relay(s) \/ RelayEnd(s) \/ RelayInvalid(s)
  \/ StdinRead \/ TimerFire \/ TimerSend \/ GraceSend
  \/ TakeLine \/ TakeDone \/ TakeCmd \/ Wait
  \/ EmitShow \/ EmitLog \/ EmitLogFails

ClientStep == (\E op \in Ops : SendOp(op)) \/ Consume \/ HangUp

Next == AgentStep \/ TaskStep \/ ClientStep

Spec == Init /\ [][Next]_vars

\* The tasks run, time passes and the client keeps reading; nothing is asked of
\* the agent.  A command is not starved by an agent that writes without end:
\* tokio's select! picks at random among the ready branches, hence the strong
\* fairness of TakeCmd.
Fairness ==
  /\ \A s \in Streams : WF_vars(Relay(s) \/ RelayInvalid(s) \/ RelayEnd(s))
  /\ WF_vars(StdinRead) /\ WF_vars(TimerFire) /\ WF_vars(TimerSend)
  /\ WF_vars(GraceSend) /\ WF_vars(TakeLine \/ TakeDone) /\ SF_vars(TakeCmd)
  /\ WF_vars(Wait) /\ WF_vars(EmitShow) /\ WF_vars(EmitLog) /\ WF_vars(Consume)

FairSpec == Spec /\ Fairness
-----------------------------------------------------------------------------
(* Properties *)

\* Type invariant, with the capacities of the channels and of the stdout pipe.
TypeOK ==
  /\ alive \subseteq Agent /\ open \subseteq alive /\ frozen \in BOOLEAN
  /\ status \in {"none", "code", "signal"} /\ (status = "none" <=> "leader" \in alive)
  /\ wrote \in [Streams -> 0 .. MaxLines] /\ pipe \in [Streams -> 0 .. MaxLines]
  /\ reading \in [Streams -> BOOLEAN] /\ cut \in [Streams -> BOOLEAN]
  /\ out \in Seq(Streams \cup {"done"}) /\ Len(out) <= OutCap
  /\ cmds \in Seq(Cmds) /\ Len(cmds) <= CmdCap
  /\ input \in Seq(Ops) /\ asked \subseteq Ops /\ sent \in 0 .. MaxOps
  /\ timer \in {"armed", "due", "sent"} /\ grace \in Nat
  /\ sup \in {"loop", "emit", "log", "wait", "ok", "err"}
  /\ event \in Events \cup {"none"}
  /\ done \in 0 .. 2 /\ reason \in (Reasons \ {"agent_exit"}) \cup {"none"}
  /\ report \in Reasons \cup {"none"}
  /\ shown \in [Events -> Nat] /\ logged \in [Events -> Nat]
  /\ unread \in 0 .. StreamCap /\ client \in BOOLEAN

\* run_ended closes the events: when it goes out, every line the agent and its
\* descendants ever wrote has gone out before it, on each pipe whose reader did
\* not give up.  (Both Dones are awaited, and each follows its pipe's lines.)
NothingLost ==
  shown["run_ended"] > 0 =>
    \A s \in Streams : ~cut[s] => shown[s] = wrote[s] /\ pipe[s] = 0

\* The reason in run_ended is something that happened: a timeout had fired, a
\* stop was asked for, a kill is a client's, a grace timer's or a foreign
\* signal's, and agent_exit is said only of an agent that left with a code.
ReasonTrue ==
  CASE report = "timeout"    -> timer # "armed"
    [] report = "stopped"    -> "stop" \in asked
    [] report = "killed"     -> IF reason = "killed"
                                  THEN "kill" \in asked \/ "stop" \in asked
                                  ELSE status = "signal"
    [] report = "agent_exit" -> status = "code"
    [] OTHER                 -> TRUE

\* Once the loop has noted killed or timeout, nobody of the agent's process group
\* is left: not the leader, not a child that outlived it, not a stopped one.
GroupIsShot == reason \in {"killed", "timeout"} => alive \cap Group = {}

\* The transcript is what the client was sent: never ahead of it, behind by no
\* more than the event being emitted, and the same when the Run ended well, with
\* one run_ended.
TranscriptFollows ==
  /\ \A e \in Events : logged[e] <= shown[e]
  /\ sup # "err" => \A e \in Events :
       shown[e] = logged[e] + (IF sup = "log" /\ event = e THEN 1 ELSE 0)
  /\ sup = "ok" => shown["run_ended"] = 1

\* The events are all there, on stdout and in the transcript.
EventsComplete == NothingLost /\ TranscriptFollows

\* A process out of the supervisor's reach: a descendant that left the group and
\* holds a pipe, or an agent that closed its pipes and lives on.
Escaped == "stray" \in open \/ (sup = "wait" /\ "leader" \in alive)

\* Every Run ends, whatever the agent does and the client sends, as long as the
\* client reads: the wall clock gets through full channels and reaches a stopped
\* agent.  Only a process that escaped can hold it up.
RunEnds == <>Over \/ <>[]Escaped

\* A kill is never lost on its way through stdin and the channel: one that was
\* sent is in one of them, or has emptied the process group, or came after the
\* loop.
KillArrives ==
  "kill" \in asked /\ done < 2 =>
    \/ Contains(input, "kill") \/ Contains(cmds, "kill")
    \/ alive \cap Group = {} \/ sup = "err"
=============================================================================
