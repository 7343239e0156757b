----------------------------- MODULE RunHandle -----------------------------
(***************************************************************************)
(* A Run as a User Script sees it: python/bunsen/_run.py.                  *)
(*                                                                         *)
(* Inside `async with session.run(spec)` two coroutines meet at a bounded  *)
(* queue: the drain task, which decodes what bunsen-core prints, and the   *)
(* body, which iterates over .events and may leave at any time.  Leaving   *)
(* asks the core to kill the agent, cancels the drain and waits for it.    *)
(***************************************************************************)
EXTENDS Naturals, Sequences

CONSTANTS
  Kinds,     \* what an event's line may be: "event", "long" (over the 64 KiB of
             \* a StreamReader), "newer" (of a later schema version)
  MaxEvents, \* bound: events the core prints
  PipeCap,   \* lines that fit between the core's stdout and the drain
  QueueCap   \* maxsize of the queue (1024 in the code)

ASSUME RunHandleAssumption ==
  /\ Kinds \subseteq {"event", "long", "newer"}
  /\ MaxEvents \in Nat /\ PipeCap \in Nat \ {0} /\ QueueCap \in Nat \ {0}

Lines == Kinds \cup {"run_ended", "summary"}
Items == {"event", "run_ended", "error", "none"}

VARIABLES
  core,     \* "run", "ended", "closing", and its exits "ok" and "fail"
  kill,     \* a kill command waits in the core's stdin
  stdin,    \* "open" or "closed"
  stdout,   \* lines printed and not read
  queue,    \* _queue; "none" is the end marker
  drain,    \* the drain task: "read", "put", "last", "finally", "done"
  hand,     \* the item it is putting
  terminal, summary,  \* saw_terminal, and the summary fields are set
  broken,   \* an exception left the drain
  body,     \* "loop", "wait" (wait_for_summary), "exit", "join", "left"
  outcome,  \* how the body left its loop
  wrote, got, printed  \* history: events printed and received; a summary printed

coreVars  == <<core, wrote, printed>>
drainVars == <<drain, hand, terminal, summary, broken>>
bodyVars  == <<body, outcome, got>>
vars == <<coreVars, kill, stdin, stdout, queue, drainVars, bodyVars>>

Exited == core \in {"ok", "fail"}

Init ==
  /\ core = "run" /\ kill = FALSE /\ stdin = "open" /\ stdout = << >>
  /\ queue = << >> /\ drain = "read" /\ hand = "none"
  /\ terminal = FALSE /\ summary = FALSE /\ broken = FALSE
  /\ body = "loop" /\ outcome = "none" /\ wrote = 0 /\ got = 0 /\ printed = FALSE

-----------------------------------------------------------------------------
(* bunsen-core --session: main.rs, over what the supervisor promises *)

CoreUnchanged == UNCHANGED <<stdin, queue, drainVars, bodyVars>>

\* A print blocks while the pipe is full.
PrintLine(line) == Len(stdout) < PipeCap /\ stdout' = Append(stdout, line)

CoreEvent(kind) ==
  /\ core = "run" /\ wrote < MaxEvents /\ PrintLine(kind) /\ wrote' = wrote + 1
  /\ UNCHANGED <<core, printed, kill>> /\ CoreUnchanged

\* The Run ends by itself, or because it was told to.
CoreEnd ==
  /\ core = "run" /\ PrintLine("run_ended") /\ core' = "ended" /\ wrote' = wrote + 1
  /\ UNCHANGED <<printed, kill>> /\ CoreUnchanged

CoreKilled == kill /\ CoreEnd

\* The Run's output is in the Pool; main prints the summary and returns.
CoreSummary ==
  /\ core = "ended" /\ PrintLine("summary") /\ core' = "closing" /\ printed' = TRUE
  /\ UNCHANGED <<wrote, kill>> /\ CoreUnchanged

\* The runtime waits for its blocking read of stdin.
CoreExit ==
  /\ core = "closing" /\ stdin = "closed" /\ core' = "ok"
  /\ UNCHANGED <<wrote, printed, kill, stdout>> /\ CoreUnchanged

\* exit(1): a bad spec, a supervisor error, a failed extraction.
CoreFail ==
  /\ core \in {"run", "ended"} /\ core' = "fail"
  /\ UNCHANGED <<wrote, printed, kill, stdout>> /\ CoreUnchanged

-----------------------------------------------------------------------------
(* The drain task.  Where a put finds room the code does not suspend between   *)
(* reading and putting; a cancel that comes between the two in the model loses *)
(* an event that nobody is there to read.                                      *)

DrainUnchanged == UNCHANGED <<coreVars, kill, bodyVars>>

\* The next line of stdout is of this kind.
Take(kind) == /\ drain = "read" /\ stdout # << >> /\ Head(stdout) = kind
              /\ stdout' = Tail(stdout)

ReadEvent ==
  /\ Take("event") /\ hand' = "event" /\ drain' = "put"
  /\ UNCHANGED <<stdin, queue, terminal, summary, broken>> /\ DrainUnchanged

\* Mutant: stdin is left open.
ReadEndedOpen ==
  /\ Take("run_ended") /\ terminal' = TRUE /\ hand' = "run_ended" /\ drain' = "put"
  /\ UNCHANGED <<stdin, queue, summary, broken>> /\ DrainUnchanged

\* stdin is closed at run_ended, so that the core's runtime can shut down.
ReadEnded ==
  /\ Take("run_ended") /\ terminal' = TRUE /\ hand' = "run_ended" /\ drain' = "put"
  /\ stdin' = "closed"
  /\ UNCHANGED <<queue, summary, broken>> /\ DrainUnchanged

\* The summary is kept, not queued, and reading goes on.
ReadSummary ==
  /\ Take("summary") /\ summary' = TRUE /\ terminal' = TRUE
  /\ UNCHANGED <<stdin, queue, drain, hand, broken>> /\ DrainUnchanged

\* A schema version this library does not know: the error is put, and the drain
\* returns.
ReadNewer ==
  /\ Take("newer") /\ hand' = "error" /\ drain' = "last"
  /\ UNCHANGED <<stdin, queue, terminal, summary, broken>> /\ DrainUnchanged

\* readline raises ValueError beyond its limit, which nothing in the drain catches.
ReadLong ==
  /\ Take("long") /\ broken' = TRUE /\ drain' = "finally"
  /\ UNCHANGED <<stdin, queue, hand, terminal, summary>> /\ DrainUnchanged

AtEof == drain = "read" /\ stdout = << >> /\ Exited

\* End of file, which the core's exit alone brings; its status follows well within
\* the five seconds it is waited for.  Without a terminal signal a failure is put.
ReadEof ==
  /\ AtEof
  /\ IF ~terminal /\ core = "fail" THEN hand' = "error" /\ drain' = "last"
                                   ELSE drain' = "finally" /\ UNCHANGED hand
  /\ UNCHANGED <<stdin, stdout, queue, terminal, summary, broken>> /\ DrainUnchanged

Enqueue(item) == Len(queue) < QueueCap /\ queue' = Append(queue, item)

\* Mutant: put_nowait, with QueueFull swallowed.
PutNowait ==
  /\ drain \in {"put", "last"}
  /\ IF Len(queue) < QueueCap THEN Enqueue(hand) ELSE UNCHANGED queue
  /\ drain' = IF drain = "put" THEN "read" ELSE "finally"
  /\ UNCHANGED <<stdin, stdout, hand, terminal, summary, broken>> /\ DrainUnchanged

\* put waits while the queue is full.
Put ==
  /\ drain \in {"put", "last"} /\ Enqueue(hand)
  /\ drain' = IF drain = "put" THEN "read" ELSE "finally"
  /\ UNCHANGED <<stdin, stdout, hand, terminal, summary, broken>> /\ DrainUnchanged

\* The finally block puts the end marker, and waits for room like any put.
Finally ==
  /\ drain = "finally" /\ Enqueue("none") /\ drain' = "done"
  /\ UNCHANGED <<stdin, stdout, hand, terminal, summary, broken>> /\ DrainUnchanged

-----------------------------------------------------------------------------
(* The body, and the exit of its context *)

BodyUnchanged == UNCHANGED <<coreVars, stdin, stdout, terminal, summary, broken, hand>>

\* run.kill() and run.stop() inside the body: a line into the core's stdin, dropped
\* when stdin is closed.
Command ==
  /\ body = "loop" /\ ~Exited /\ stdin = "open" /\ kill' = TRUE
  /\ UNCHANGED <<queue, drain, bodyVars>> /\ BodyUnchanged

\* __aexit__ begins with _terminate: the same line, for a core still alive.
LeaveBy(how) ==
  /\ body' = "exit" /\ outcome' = how
  /\ kill' = (kill \/ (~Exited /\ stdin = "open"))

GetEvent ==
  /\ body = "loop" /\ queue # << >> /\ Head(queue) \in {"event", "run_ended"}
  /\ queue' = Tail(queue) /\ got' = got + 1
  /\ \/ UNCHANGED <<body, outcome, kill>>
     \/ Head(queue) = "run_ended" /\ body' = "wait" /\ UNCHANGED <<outcome, kill>>
  /\ UNCHANGED drain /\ BodyUnchanged

\* The end marker ends the iteration, an error is raised from it.
GetLast ==
  /\ body = "loop" /\ queue # << >> /\ Head(queue) \in {"none", "error"}
  /\ queue' = Tail(queue)
  /\ LeaveBy(IF Head(queue) = "none" THEN "exhausted" ELSE "raised")
  /\ UNCHANGED <<drain, got>> /\ BodyUnchanged

\* break, an exception or a cancellation in the body.
LeaveEarly ==
  /\ body = "loop" /\ LeaveBy("early")
  /\ UNCHANGED <<queue, drain, got>> /\ BodyUnchanged

\* wait_for_summary, as run_spec of the harness uses it: until the drain is done
\* (and raises what the drain raised), or 120 seconds.
Waited ==
  /\ body = "wait" /\ drain = "done" /\ LeaveBy(IF broken THEN "raised" ELSE "waited")
  /\ UNCHANGED <<queue, drain, got>> /\ BodyUnchanged

WaitTimeout ==
  /\ body = "wait" /\ drain # "done" /\ LeaveBy("early")
  /\ UNCHANGED <<queue, drain, got>> /\ BodyUnchanged

\* Mutant: the drain is awaited without being cancelled.
CancelNot ==
  /\ body = "exit" /\ body' = "join"
  /\ UNCHANGED <<queue, kill, drain, outcome, got>> /\ BodyUnchanged

\* The core is waited for, at most five seconds; then the drain is cancelled.  The
\* CancelledError is raised from its await, and finally runs; a drain that already
\* is in finally ends there, whatever exception it was about to raise.
Cancel ==
  /\ body = "exit" /\ body' = "join"
  /\ drain' = IF drain \in {"finally", "done"} THEN "done" ELSE "finally"
  /\ broken' = (broken /\ drain # "finally")
  /\ UNCHANGED <<coreVars, kill, stdin, stdout, queue, hand, terminal, summary, outcome, got>>

\* `await task` returns, or raises what the drain raised.
Join ==
  /\ body = "join" /\ drain = "done" /\ body' = "left"
  /\ outcome' = IF broken THEN "raised" ELSE outcome
  /\ UNCHANGED <<queue, kill, drain, got>> /\ BodyUnchanged

-----------------------------------------------------------------------------
CoreStep  == (\E kind \in Kinds : CoreEvent(kind)) \/ CoreEnd \/ CoreSummary
             \/ CoreExit \/ CoreFail
DrainStep == ReadEvent \/ ReadEnded \/ ReadSummary \/ ReadNewer \/ ReadLong
             \/ ReadEof \/ Put \/ Finally
BodyStep  == Command \/ GetEvent \/ GetLast \/ LeaveEarly \/ Waited \/ WaitTimeout
             \/ Cancel \/ Join

Next == CoreStep \/ DrainStep \/ BodyStep

Spec == Init /\ [][Next]_vars

\* The event loop runs both coroutines, the body takes what is there, and the core
\* obeys a kill, publishes and exits.  Nothing makes the body leave, or an agent end.
Fairness ==
  /\ WF_vars(DrainStep) /\ WF_vars(GetEvent \/ GetLast) /\ WF_vars(Waited)
  /\ WF_vars(Cancel) /\ WF_vars(Join)
  /\ WF_vars(CoreKilled) /\ WF_vars(CoreSummary) /\ WF_vars(CoreExit)

FairSpec == Spec /\ Fairness

-----------------------------------------------------------------------------
(* Properties *)

TypeOK ==
  /\ core \in {"run", "ended", "closing", "ok", "fail"} /\ kill \in BOOLEAN
  /\ stdin \in {"open", "closed"}
  /\ stdout \in Seq(Lines) /\ Len(stdout) <= PipeCap
  /\ queue \in Seq(Items) /\ Len(queue) <= QueueCap
  /\ drain \in {"read", "put", "last", "finally", "done"} /\ hand \in Items
  /\ terminal \in BOOLEAN /\ summary \in BOOLEAN /\ broken \in BOOLEAN
  /\ body \in {"loop", "wait", "exit", "join", "left"}
  /\ outcome \in {"none", "exhausted", "raised", "waited", "early"}
  /\ wrote \in 0 .. MaxEvents + 1 /\ got \in 0 .. MaxEvents + 1 /\ printed \in BOOLEAN

\* A loop that ran to its end, on a stream of lines the reader can hold, has been
\* given every event the core printed, in a queue of any size.
EveryEventArrives ==
  outcome \in {"exhausted", "waited"} /\ ~broken => got = wrote

\* And the core has exited, with the Pool summary, if one was printed, in the
\* handle: after the loop just as after wait_for_summary.
SummaryAfterLoop ==
  outcome \in {"exhausted", "waited"} /\ ~broken => Exited /\ summary = printed

\* A core that failed before run_ended is never taken for one that printed nothing.
FailureSurfaces ==
  outcome = "exhausted" /\ core = "fail" /\ ~broken => terminal

\* A loop that ran to its end has got all there is to get.
LoopComplete == EveryEventArrives /\ SummaryAfterLoop /\ FailureSurfaces

\* The context is left by every body that leaves its loop, unless the cancelled
\* drain stands before a full queue.
Jammed == drain = "finally" /\ Len(queue) = QueueCap
LeavesUnlessFull == (body = "exit") ~> (body = "left" \/ Jammed)

\* A body that iterates gets to the end of the Run, unless the agent never ends or
\* the body is held up by its own leaving.
RunReturns == <>(body # "loop") \/ <>[](core = "run")

\* What test_cancel_kills_subprocess says: "Cancelling the context manager kills
\* the subprocess cleanly" (python/tests/test_session_run_stream.py).
ContextExits == (body = "exit") ~> (body = "left")
=============================================================================
