-------------------------- MODULE RunHandleProofs --------------------------
(***************************************************************************)
(* The safety properties of RunHandle, for any kinds of lines, any number  *)
(* of events and any capacities.                                           *)
(***************************************************************************)
EXTENDS RunHandle, SequenceTheorems, TLAPS

Event == {"event", "run_ended"}

\* The first n items of the queue are events.
EventsTo(n) == \A i \in 1 .. n : queue[i] \in Event

\* A summary is on its way, and counts for nothing.
Summaries == IF printed /\ ~summary THEN 1 ELSE 0
InHand    == IF drain = "put" THEN 1 ELSE 0

\* Lines and items come in the order in which the core printed them: events,
\* run_ended, the summary.
OrderInv ==
  /\ core = "run" => /\ wrote <= MaxEvents /\ ~printed /\ ~terminal
                     /\ \A i \in 1 .. Len(stdout) : stdout[i] # "run_ended"
  /\ printed => core \in {"closing", "ok"}
  /\ summary => printed /\ terminal
  /\ terminal => \A i \in 1 .. Len(stdout) : stdout[i] = "summary"
  /\ \A i \in 1 .. Len(stdout) :
       stdout[i] = "run_ended" => \A j \in i + 1 .. Len(stdout) : stdout[j] = "summary"
  /\ \A i \in 1 .. Len(stdout) :
       stdout[i] = "summary" => i = Len(stdout) /\ printed /\ ~summary
  /\ printed /\ ~summary => \E i \in 1 .. Len(stdout) : stdout[i] = "summary"

HandInv ==
  /\ drain = "put"  => hand \in Event /\ (terminal <=> hand = "run_ended")
  /\ drain = "last" => hand = "error" /\ ~terminal
  /\ \A i \in 1 .. Len(queue) : queue[i] = "run_ended" =>
       terminal /\ drain # "put" /\ \A j \in i + 1 .. Len(queue) : queue[j] = "none"
  /\ body = "wait" => /\ terminal /\ drain # "put"
                      /\ \A i \in 1 .. Len(queue) : queue[i] = "none"

\* The drain ended behind the first n items of the queue: by an exception, with an
\* error as the last of them, or because the core had exited and all was read.
Clean == stdout = << >> /\ Exited /\ summary = printed /\ (core = "fail" => terminal)
EndsAt(n) ==
  \/ broken /\ EventsTo(n) /\ got + n <= wrote
  \/ /\ ~terminal /\ n >= 1 /\ queue[n] = "error"
     /\ EventsTo(n - 1) /\ got + n - 1 <= wrote
  \/ Clean /\ EventsTo(n) /\ got + n = wrote

\* While the body is in its loop, every event is received, queued, in hand or in the
\* pipe.
StreamInv ==
  body \in {"loop", "wait"} =>
    /\ drain \in {"read", "put"} =>
         /\ ~broken /\ EventsTo(Len(queue))
         /\ wrote + Summaries = got + Len(queue) + InHand + Len(stdout)
    /\ drain = "last" => ~broken /\ EventsTo(Len(queue)) /\ got + Len(queue) <= wrote
    /\ drain = "finally" => EndsAt(Len(queue))
    /\ drain = "done" => /\ Len(queue) >= 1 /\ queue[Len(queue)] = "none"
                         /\ EndsAt(Len(queue) - 1)

OutcomeInv ==
  /\ body \in {"loop", "wait"} <=> outcome = "none"
  /\ outcome \in {"exhausted", "waited"} =>
       /\ drain = "done"
       /\ ~broken => got = wrote /\ Exited /\ summary = printed /\ (core = "fail" => terminal)

IInv == TypeOK /\ OrderInv /\ HandInv /\ StreamInv /\ OutcomeInv /\ got <= wrote

USE DEF vars, coreVars, drainVars, bodyVars, CoreUnchanged, DrainUnchanged, BodyUnchanged

-----------------------------------------------------------------------------
(* The pipe and the queue after one step *)

\* A print adds the line.
LEMMA AfterPrint ==
  ASSUME TypeOK, NEW line \in Lines, PrintLine(line)
  PROVE  /\ stdout' \in Seq(Lines) /\ Len(stdout') = Len(stdout) + 1
         /\ Len(stdout') <= PipeCap
         /\ stdout'[Len(stdout')] = line
         /\ \A i \in 1 .. Len(stdout) : stdout'[i] = stdout[i]
BY RunHandleAssumption, AppendProperties DEF TypeOK, PrintLine

\* A read takes the first line.
LEMMA AfterTake ==
  ASSUME TypeOK, NEW kind, Take(kind)
  PROVE  /\ stdout' \in Seq(Lines) /\ Len(stdout) >= 1
         /\ Len(stdout') = Len(stdout) - 1 /\ Len(stdout') <= PipeCap
         /\ stdout[1] = kind
         /\ \A i \in 1 .. Len(stdout') : stdout'[i] = stdout[i + 1]
BY RunHandleAssumption, HeadTailProperties, EmptySeq, LenProperties DEF TypeOK, Take

\* A put adds the item.
LEMMA AfterEnqueue ==
  ASSUME TypeOK, NEW item \in Items, Enqueue(item)
  PROVE  /\ queue' \in Seq(Items) /\ Len(queue') = Len(queue) + 1
         /\ Len(queue') <= QueueCap
         /\ queue'[Len(queue')] = item
         /\ \A i \in 1 .. Len(queue) : queue'[i] = queue[i]
BY RunHandleAssumption, AppendProperties DEF TypeOK, Enqueue

\* A get takes the first item.
LEMMA AfterGet ==
  ASSUME TypeOK, queue # << >>, queue' = Tail(queue)
  PROVE  /\ queue' \in Seq(Items) /\ Len(queue) >= 1
         /\ Len(queue') = Len(queue) - 1 /\ Len(queue') <= QueueCap
         /\ Head(queue) = queue[1]
         /\ \A i \in 1 .. Len(queue') : queue'[i] = queue[i + 1]
BY RunHandleAssumption, HeadTailProperties, EmptySeq, LenProperties DEF TypeOK

-----------------------------------------------------------------------------
(* Who changes what *)

\* The core, and what it prints.
LEMMA CoreFrame ==
  ASSUME [Next]_vars
  PROVE  \/ UNCHANGED coreVars
         \/ CoreStep
BY DEF Next, DrainStep, BodyStep, ReadEvent, ReadEnded, ReadSummary, ReadNewer, ReadLong,
       ReadEof, Put, Finally, Command, GetEvent, GetLast, LeaveEarly, Waited, WaitTimeout,
       Cancel, Join

\* The pipe.
LEMMA PipeFrame ==
  ASSUME [Next]_vars
  PROVE  \/ UNCHANGED stdout
         \/ \E kind \in Kinds : CoreEvent(kind)
         \/ CoreEnd
         \/ CoreSummary
         \/ ReadEvent \/ ReadEnded \/ ReadSummary \/ ReadNewer \/ ReadLong
BY DEF Next, CoreStep, DrainStep, BodyStep, CoreExit, CoreFail,
       ReadEof, Put, Finally, Command, GetEvent, GetLast, LeaveEarly, Waited, WaitTimeout,
       Cancel, Join

\* The queue.
LEMMA QueueFrame ==
  ASSUME [Next]_vars
  PROVE  \/ UNCHANGED queue
         \/ Put \/ Finally \/ GetEvent \/ GetLast
BY DEF Next, CoreStep, DrainStep, BodyStep, CoreEvent, CoreEnd, CoreSummary, CoreExit,
       CoreFail, ReadEvent, ReadEnded, ReadSummary, ReadNewer, ReadLong, ReadEof,
       Command, LeaveEarly, Waited, WaitTimeout, Cancel, Join

\* The drain task's own variables.
LEMMA DrainFrame ==
  ASSUME [Next]_vars
  PROVE  \/ UNCHANGED drainVars
         \/ DrainStep
         \/ Cancel
BY DEF Next, CoreStep, BodyStep, CoreEvent, CoreEnd, CoreSummary, CoreExit,
       CoreFail, Command, GetEvent, GetLast, LeaveEarly, Waited, WaitTimeout, Join

\* The body.
LEMMA BodyFrame ==
  ASSUME [Next]_vars
  PROVE  \/ UNCHANGED bodyVars
         \/ GetEvent \/ GetLast \/ LeaveEarly \/ Waited \/ WaitTimeout \/ Cancel \/ Join
BY DEF Next, CoreStep, DrainStep, BodyStep, CoreEvent, CoreEnd, CoreSummary, CoreExit,
       CoreFail, ReadEvent, ReadEnded, ReadSummary, ReadNewer, ReadLong, ReadEof,
       Put, Finally, Command

-----------------------------------------------------------------------------
(* The invariant holds at the start *)

\* Nothing is printed, read or received yet.
LEMMA InitInv == Init => IInv
<1> SUFFICES ASSUME Init PROVE IInv
  OBVIOUS
<1>0. stdout = << >> /\ Len(stdout) = 0 /\ stdout \in Seq(Lines)
      /\ queue = << >> /\ Len(queue) = 0 /\ queue \in Seq(Items)
  BY EmptySeq DEF Init
<1>1. TypeOK
  <2>1. /\ Len(stdout) <= PipeCap /\ Len(queue) <= QueueCap
        /\ wrote \in 0 .. MaxEvents + 1 /\ got \in 0 .. MaxEvents + 1
    BY <1>0, RunHandleAssumption DEF Init
  <2>2. /\ kill \in BOOLEAN /\ terminal \in BOOLEAN /\ summary \in BOOLEAN
        /\ broken \in BOOLEAN /\ printed \in BOOLEAN
    BY DEF Init
  <2> QED BY <1>0, <2>1, <2>2 DEF Init, TypeOK, Items
<1>2. OrderInv
  BY <1>0, RunHandleAssumption DEF Init, OrderInv
<1>3. HandInv
  BY <1>0 DEF Init, HandInv
<1>4. StreamInv
  BY <1>0 DEF Init, StreamInv, EventsTo, Summaries, InHand
<1>5. OutcomeInv /\ got <= wrote
  BY DEF Init, OutcomeInv
<1> QED BY <1>1, <1>2, <1>3, <1>4, <1>5 DEF IInv

-----------------------------------------------------------------------------
(* And every step keeps it *)

\* Typing, and that no event is received before it was printed: GetEvent needs StreamInv.
LEMMA TypeStep ==
  ASSUME IInv, [Next]_vars
  PROVE  TypeOK' /\ got' <= wrote'
<1> USE DEF IInv
<1>1. core' \in {"run", "ended", "closing", "ok", "fail"} /\ printed' \in BOOLEAN
  BY CoreFrame DEF TypeOK, CoreStep, CoreEvent, CoreEnd, CoreSummary, CoreExit, CoreFail
<1>2. wrote' \in 0 .. MaxEvents + 1 /\ wrote' >= wrote
  <2>1. wrote \in 0 .. MaxEvents + 1 /\ MaxEvents \in Nat
        /\ (core = "run" => wrote <= MaxEvents)
    BY RunHandleAssumption DEF TypeOK, OrderInv
  <2>2. \/ UNCHANGED wrote
        \/ core = "run" /\ wrote' = wrote + 1
    BY CoreFrame DEF CoreStep, CoreEvent, CoreEnd, CoreSummary, CoreExit, CoreFail
  <2> QED BY <2>1, <2>2
<1>3. stdout' \in Seq(Lines) /\ Len(stdout') <= PipeCap
  <2>1. Kinds \subseteq Lines /\ "run_ended" \in Lines /\ "summary" \in Lines
    BY DEF Lines
  <2> QED BY <2>1, PipeFrame, AfterPrint, AfterTake
          DEF TypeOK, CoreEvent, CoreEnd, CoreSummary,
              ReadEvent, ReadEnded, ReadSummary, ReadNewer, ReadLong
<1>4. queue' \in Seq(Items) /\ Len(queue') <= QueueCap
  <2>1. "none" \in Items /\ hand \in Items
    BY DEF Items, TypeOK
  <2> QED BY <2>1, QueueFrame, AfterEnqueue, AfterGet
          DEF TypeOK, Put, Finally, GetEvent, GetLast
<1>5. drain' \in {"read", "put", "last", "finally", "done"} /\ hand' \in Items
  BY DrainFrame DEF TypeOK, Items, DrainStep, ReadEvent, ReadEnded, ReadSummary, ReadNewer,
       ReadLong, ReadEof, Put, Finally, Cancel
<1>6. terminal' \in BOOLEAN /\ summary' \in BOOLEAN /\ broken' \in BOOLEAN
  BY DrainFrame DEF TypeOK, DrainStep, ReadEvent, ReadEnded, ReadSummary, ReadNewer,
       ReadLong, ReadEof, Put, Finally, Cancel
<1>7. /\ body' \in {"loop", "wait", "exit", "join", "left"}
      /\ outcome' \in {"none", "exhausted", "raised", "waited", "early"}
  BY BodyFrame DEF TypeOK, GetEvent, GetLast, LeaveEarly, Waited, WaitTimeout, Cancel, Join,
       LeaveBy
<1>8. kill' \in BOOLEAN /\ stdin' \in {"open", "closed"}
  BY DEF TypeOK, Next, CoreStep, DrainStep, BodyStep, CoreEvent, CoreEnd, CoreSummary,
       CoreExit, CoreFail, ReadEvent, ReadEnded, ReadSummary, ReadNewer, ReadLong, ReadEof,
       Put, Finally, Command, GetEvent, GetLast, LeaveEarly, Waited, WaitTimeout, Cancel,
       Join, LeaveBy
<1>9. got' \in Nat /\ got' <= wrote
  <2>1. CASE UNCHANGED got
    BY <2>1 DEF TypeOK
  <2>2. CASE GetEvent
    <3>1. Len(queue) >= 1 /\ queue[1] \in Event
      BY <2>2, AfterGet, Zenon DEF GetEvent, Event
    <3>2. body \in {"loop", "wait"} /\ got' = got + 1
      BY <2>2 DEF GetEvent
    <3>3. got \in Nat /\ wrote \in Nat /\ Len(queue) \in Nat /\ Len(stdout) \in Nat
      BY LenProperties DEF TypeOK
    <3>4. ASSUME NEW n \in Nat, EndsAt(n), n >= 1
          PROVE  got + 1 <= wrote
      BY <3>1, <3>3, <3>4 DEF EndsAt, Event
    <3>5. CASE drain \in {"read", "put"}
      <4>1. printed /\ ~summary => Len(stdout) >= 1
        BY <3>3 DEF OrderInv
      <4> QED BY <3>1, <3>2, <3>3, <3>5, <4>1 DEF StreamInv, Summaries, InHand
    <3>6. CASE drain = "last"
      BY <3>1, <3>2, <3>3, <3>6 DEF StreamInv
    <3>7. CASE drain = "finally"
      BY <3>1, <3>2, <3>3, <3>4, <3>7 DEF StreamInv
    <3>8. CASE drain = "done"
      BY <3>1, <3>2, <3>3, <3>4, <3>8 DEF StreamInv, Event
    <3> QED BY <3>2, <3>3, <3>5, <3>6, <3>7, <3>8 DEF TypeOK
  <2> QED BY <2>1, <2>2, BodyFrame DEF GetLast, LeaveEarly, Waited, WaitTimeout, Cancel, Join
<1> QED BY <1>1, <1>2, <1>3, <1>4, <1>5, <1>6, <1>7, <1>8, <1>9, RunHandleAssumption
        DEF TypeOK

\* The core prints in its order, and the drain takes lines from the front.
LEMMA OrderStep ==
  ASSUME IInv, [Next]_vars
  PROVE  OrderInv'
<1> USE DEF IInv
<1>0. /\ wrote \in 0 .. MaxEvents + 1 /\ Len(stdout) \in Nat /\ MaxEvents \in Nat
      /\ Len(stdout') \in Nat
  BY TypeStep, LenProperties, RunHandleAssumption DEF TypeOK
<1>1. CASE UNCHANGED <<coreVars, stdout, terminal, summary>>
  BY <1>1 DEF OrderInv
<1>2. CASE CoreStep
  <2>1. ASSUME NEW kind \in Kinds, CoreEvent(kind)
        PROVE  OrderInv'
    <3>1. kind \in Lines /\ kind # "run_ended" /\ kind # "summary"
      BY RunHandleAssumption DEF Lines
    <3>2. /\ Len(stdout') = Len(stdout) + 1 /\ stdout'[Len(stdout')] = kind
          /\ \A i \in 1 .. Len(stdout) : stdout'[i] = stdout[i]
      BY <2>1, <3>1, AfterPrint DEF CoreEvent
    <3>3. /\ core = "run" /\ wrote < MaxEvents /\ wrote' = wrote + 1
          /\ UNCHANGED <<core, printed, terminal, summary>>
      BY <2>1 DEF CoreEvent
    <3>4. ~terminal /\ ~printed /\ ~summary
      BY <3>3 DEF OrderInv
    <3>5. \A i \in 1 .. Len(stdout) : stdout[i] \notin {"run_ended", "summary"}
      BY <3>3, <3>4 DEF OrderInv
    <3>6. \A i \in 1 .. Len(stdout') : stdout'[i] \notin {"run_ended", "summary"}
      BY <1>0, <3>1, <3>2, <3>5
    <3> QED BY <1>0, <3>3, <3>4, <3>6 DEF OrderInv
  <2>2. CASE CoreEnd
    <3>2. /\ Len(stdout') = Len(stdout) + 1 /\ stdout'[Len(stdout')] = "run_ended"
          /\ \A i \in 1 .. Len(stdout) : stdout'[i] = stdout[i]
      BY <2>2, AfterPrint DEF CoreEnd, Lines
    <3>3. core = "run" /\ core' = "ended" /\ UNCHANGED <<printed, terminal, summary>>
      BY <2>2 DEF CoreEnd
    <3>4. ~terminal /\ ~printed /\ ~summary
      BY <3>3 DEF OrderInv
    <3>5. \A i \in 1 .. Len(stdout) : stdout[i] \notin {"run_ended", "summary"}
      BY <3>3, <3>4 DEF OrderInv
    <3>6. /\ \A i \in 1 .. Len(stdout') : stdout'[i] # "summary"
          /\ \A i \in 1 .. Len(stdout') : stdout'[i] = "run_ended" => i = Len(stdout')
      BY <1>0, <3>2, <3>5
    <3> QED BY <1>0, <3>3, <3>4, <3>6 DEF OrderInv
  <2>3. CASE CoreSummary
    <3>2. /\ Len(stdout') = Len(stdout) + 1 /\ stdout'[Len(stdout')] = "summary"
          /\ \A i \in 1 .. Len(stdout) : stdout'[i] = stdout[i]
      BY <2>3, AfterPrint DEF CoreSummary, Lines
    <3>3. core = "ended" /\ core' = "closing" /\ printed' /\ UNCHANGED <<terminal, summary>>
      BY <2>3 DEF CoreSummary
    <3>4. ~printed /\ ~summary
      BY <3>3 DEF OrderInv
    <3>5. \A i \in 1 .. Len(stdout) : stdout[i] # "summary"
      BY <3>4 DEF OrderInv
    <3>6. /\ terminal => \A i \in 1 .. Len(stdout') : stdout'[i] = "summary"
          /\ \A i \in 1 .. Len(stdout') : stdout'[i] = "run_ended" =>
               \A j \in i + 1 .. Len(stdout') : stdout'[j] = "summary"
          /\ \A i \in 1 .. Len(stdout') : stdout'[i] = "summary" => i = Len(stdout')
          /\ \E i \in 1 .. Len(stdout') : stdout'[i] = "summary"
      BY <1>0, <3>2, <3>5 DEF OrderInv
    <3> QED BY <1>0, <3>3, <3>4, <3>6 DEF OrderInv
  <2>4. CASE CoreExit \/ CoreFail
    BY <2>4 DEF CoreExit, CoreFail, OrderInv
  <2> QED BY <1>2, <2>1, <2>2, <2>3, <2>4 DEF CoreStep
<1>3. CASE DrainStep
  <2> DEFINE Gone(kind) ==
        /\ Len(stdout) >= 1 /\ Len(stdout') = Len(stdout) - 1 /\ stdout[1] = kind
        /\ \A i \in 1 .. Len(stdout') : stdout'[i] = stdout[i + 1]
  <2>1. CASE ReadEvent \/ ReadNewer \/ ReadLong
    <3>1. PICK kind \in {"event", "newer", "long"} : Gone(kind)
      BY <2>1, AfterTake DEF ReadEvent, ReadNewer, ReadLong
    <3>2. UNCHANGED <<coreVars, terminal, summary>>
      BY <2>1 DEF ReadEvent, ReadNewer, ReadLong
    <3>3. ~terminal
      BY <1>0, <3>1 DEF OrderInv
    <3>4. printed /\ ~summary => \E i \in 1 .. Len(stdout') : stdout'[i] = "summary"
      <4> SUFFICES ASSUME printed, ~summary
                   PROVE  \E i \in 1 .. Len(stdout') : stdout'[i] = "summary"
        OBVIOUS
      <4>1. PICK i \in 1 .. Len(stdout) : stdout[i] = "summary"
        BY DEF OrderInv
      <4>2. i - 1 \in 1 .. Len(stdout') /\ stdout'[i - 1] = stdout[i]
        BY <1>0, <3>1, <4>1
      <4> QED BY <4>1, <4>2
    <3> QED BY <1>0, <3>1, <3>2, <3>3, <3>4 DEF OrderInv
  <2>2. CASE ReadEnded
    <3>1. Gone("run_ended")
      BY <2>2, AfterTake DEF ReadEnded
    <3>2. UNCHANGED <<coreVars, summary>> /\ terminal'
      BY <2>2 DEF ReadEnded
    <3>3. core # "run"
      BY <1>0, <3>1 DEF OrderInv
    <3>4. \A i \in 1 .. Len(stdout') : stdout'[i] = "summary"
      BY <1>0, <3>1 DEF OrderInv
    <3>5. printed /\ ~summary => Len(stdout') >= 1
      <4> SUFFICES ASSUME printed, ~summary PROVE Len(stdout') >= 1
        OBVIOUS
      <4>1. PICK i \in 1 .. Len(stdout) : stdout[i] = "summary"
        BY DEF OrderInv
      <4> QED BY <1>0, <3>1, <4>1
    <3> QED BY <1>0, <3>1, <3>2, <3>3, <3>4, <3>5 DEF OrderInv
  <2>3. CASE ReadSummary
    <3>1. Gone("summary")
      BY <2>3, AfterTake DEF ReadSummary
    <3>2. UNCHANGED coreVars /\ terminal' /\ summary'
      BY <2>3 DEF ReadSummary
    <3>3. Len(stdout) = 1 /\ printed
      BY <1>0, <3>1 DEF OrderInv
    <3> QED BY <1>0, <3>1, <3>2, <3>3 DEF OrderInv
  <2>4. CASE ReadEof \/ Put \/ Finally
    BY <1>1, <2>4 DEF ReadEof, Put, Finally
  <2> QED BY <1>3, <2>1, <2>2, <2>3, <2>4 DEF DrainStep
<1>4. CASE BodyStep
  BY <1>1, <1>4 DEF BodyStep, Command, GetEvent, GetLast, LeaveEarly, Waited, WaitTimeout,
       Cancel, Join
<1> QED BY <1>1, <1>2, <1>3, <1>4 DEF Next

\* What the drain holds and queues: no event follows run_ended, no error either.
LEMMA HandStep ==
  ASSUME IInv, [Next]_vars
  PROVE  HandInv'
<1> USE DEF IInv
<1>0. Len(stdout) \in Nat /\ Len(queue) \in Nat /\ Len(queue') \in Nat
  BY TypeStep, LenProperties DEF TypeOK
<1>1. CASE UNCHANGED <<drain, hand, terminal, queue, body>>
  BY <1>1 DEF HandInv
<1>2. CASE CoreStep
  BY <1>1, <1>2 DEF CoreStep, CoreEvent, CoreEnd, CoreSummary, CoreExit, CoreFail
<1>3. CASE DrainStep
  <2>1. CASE ReadEvent \/ ReadNewer
    <3>1. Len(stdout) >= 1 /\ stdout[1] # "summary"
      BY <2>1, AfterTake DEF ReadEvent, ReadNewer
    <3>2. ~terminal
      BY <1>0, <3>1 DEF OrderInv
    <3> QED BY <2>1, <3>2 DEF HandInv, ReadEvent, ReadNewer, Event
  <2>2. CASE ReadEnded
    <3>1. Len(stdout) >= 1 /\ stdout[1] # "summary"
      BY <2>2, AfterTake DEF ReadEnded
    <3>2. ~terminal
      BY <1>0, <3>1 DEF OrderInv
    <3> QED BY <2>2, <3>2 DEF HandInv, ReadEnded, Event
  <2>3. CASE ReadSummary
    BY <2>3 DEF HandInv, ReadSummary, Take
  <2>4. CASE ReadLong \/ ReadEof
    BY <2>4 DEF HandInv, ReadLong, ReadEof, AtEof
  <2>5. CASE Put
    <3>1. /\ drain \in {"put", "last"} /\ drain' \in {"read", "finally"}
          /\ UNCHANGED <<terminal, hand, body>>
      BY <2>5 DEF Put
    <3>2. /\ Len(queue') = Len(queue) + 1 /\ queue'[Len(queue')] = hand
          /\ \A i \in 1 .. Len(queue) : queue'[i] = queue[i]
      BY <2>5, AfterEnqueue DEF Put, TypeOK
    <3>3. \A i \in 1 .. Len(queue) : queue[i] # "run_ended"
      BY <3>1 DEF HandInv
    <3>4. body # "wait" /\ (hand = "run_ended" => terminal)
      BY <3>1 DEF HandInv
    <3>5. \A i \in 1 .. Len(queue') : queue'[i] = "run_ended" => i = Len(queue') /\ terminal
      BY <1>0, <3>2, <3>3, <3>4
    <3>6. \A i \in 1 .. Len(queue') : queue'[i] = "run_ended" =>
            terminal' /\ drain' # "put" /\ \A j \in i + 1 .. Len(queue') : queue'[j] = "none"
      BY <1>0, <3>1, <3>5
    <3>7. drain' # "put" /\ drain' # "last" /\ body' # "wait"
      BY <3>1, <3>4
    <3> QED BY <3>6, <3>7 DEF HandInv
  <2>6. CASE Finally
    <3>1. drain' = "done" /\ UNCHANGED <<terminal, hand, body>>
      BY <2>6 DEF Finally
    <3>2. /\ Len(queue') = Len(queue) + 1 /\ queue'[Len(queue')] = "none"
          /\ \A i \in 1 .. Len(queue) : queue'[i] = queue[i]
      BY <2>6, AfterEnqueue DEF Finally, Items
    <3>3. \A i \in 1 .. Len(queue') : queue'[i] = "run_ended" =>
            terminal /\ \A j \in i + 1 .. Len(queue') : queue'[j] = "none"
      BY <1>0, <3>2 DEF HandInv
    <3>4. body = "wait" => terminal /\ \A i \in 1 .. Len(queue') : queue'[i] = "none"
      BY <1>0, <3>2 DEF HandInv
    <3> QED BY <3>1, <3>3, <3>4 DEF HandInv
  <2> QED BY <1>3, <2>1, <2>2, <2>3, <2>4, <2>5, <2>6 DEF DrainStep
<1>4. CASE BodyStep
  <2>1. CASE GetEvent
    <3>1. /\ Len(queue) >= 1 /\ Len(queue') = Len(queue) - 1 /\ Head(queue) = queue[1]
          /\ \A i \in 1 .. Len(queue') : queue'[i] = queue[i + 1]
      BY <2>1, AfterGet, ZenonT(30) DEF GetEvent
    <3>2. /\ body = "loop" /\ UNCHANGED <<drain, hand, terminal>>
          /\ body' = "loop" \/ (queue[1] = "run_ended" /\ body' = "wait")
      BY <2>1, <3>1, Zenon DEF GetEvent
    <3>3. \A i \in 1 .. Len(queue') : queue'[i] = "run_ended" =>
            terminal /\ drain # "put" /\ \A j \in i + 1 .. Len(queue') : queue'[j] = "none"
      BY <1>0, <3>1, SMTT(60) DEF HandInv
    <3>4. queue[1] = "run_ended" =>
            terminal /\ drain # "put" /\ \A i \in 1 .. Len(queue') : queue'[i] = "none"
      BY <1>0, <3>1 DEF HandInv
    <3> QED BY <3>2, <3>3, <3>4, SMTT(60) DEF HandInv
  <2>2. CASE GetLast
    <3>1. /\ Len(queue) >= 1 /\ Len(queue') = Len(queue) - 1
          /\ \A i \in 1 .. Len(queue') : queue'[i] = queue[i + 1]
      BY <2>2, AfterGet, Zenon DEF GetLast
    <3>2. body' = "exit" /\ UNCHANGED <<drain, hand, terminal>>
      BY <2>2 DEF GetLast, LeaveBy
    <3>3. \A i \in 1 .. Len(queue') : queue'[i] = "run_ended" =>
            terminal /\ drain # "put" /\ \A j \in i + 1 .. Len(queue') : queue'[j] = "none"
      BY <1>0, <3>1 DEF HandInv
    <3> QED BY <3>2, <3>3 DEF HandInv
  <2>3. CASE Cancel
    BY <2>3 DEF Cancel, HandInv
  <2>4. CASE Command \/ LeaveEarly \/ Waited \/ WaitTimeout \/ Join
    BY <2>4 DEF Command, LeaveEarly, Waited, WaitTimeout, Join, LeaveBy, HandInv
  <2> QED BY <1>4, <2>1, <2>2, <2>3, <2>4 DEF BodyStep
<1> QED BY <1>1, <1>2, <1>3, <1>4 DEF Next

\* No event is lost between the pipe and the body.
LEMMA StreamStep ==
  ASSUME IInv, [Next]_vars
  PROVE  StreamInv'
<1> USE DEF IInv
<1>0. /\ Len(stdout) \in Nat /\ Len(stdout') \in Nat /\ Len(queue) \in Nat
      /\ Len(queue') \in Nat /\ wrote \in Nat /\ wrote' \in Nat /\ got \in Nat
      /\ got' \in Nat
  BY TypeStep, LenProperties DEF TypeOK
<1>1. CASE UNCHANGED vars
  BY <1>1 DEF StreamInv, EventsTo, Summaries, InHand, EndsAt, Clean, Exited
<1>2. CASE CoreStep
  <2>1. UNCHANGED <<queue, drainVars, bodyVars>>
    BY <1>2 DEF CoreStep, CoreEvent, CoreEnd, CoreSummary, CoreExit, CoreFail
  <2>2. wrote' >= wrote /\ ~Exited
    BY <1>0, <1>2 DEF CoreStep, CoreEvent, CoreEnd, CoreSummary, CoreExit, CoreFail, Exited
  <2>3. wrote' + Summaries' - Len(stdout') = wrote + Summaries - Len(stdout)
    <3>1. ASSUME NEW kind \in Kinds, CoreEvent(kind)
          PROVE  Len(stdout') = Len(stdout) + 1 /\ wrote' = wrote + 1 /\ Summaries' = Summaries
      BY <3>1, AfterPrint DEF CoreEvent, Lines, Summaries
    <3>2. CASE CoreEnd
      <4>1. Len(stdout') = Len(stdout) + 1 /\ wrote' = wrote + 1 /\ Summaries' = Summaries
        BY <3>2, AfterPrint DEF CoreEnd, Lines, Summaries
      <4> QED BY <1>0, <4>1 DEF Summaries
    <3>3. CASE CoreSummary
      <4>1. Len(stdout') = Len(stdout) + 1 /\ wrote' = wrote
        BY <3>3, AfterPrint DEF CoreSummary, Lines
      <4>2. core = "ended" /\ printed' /\ summary' = summary
        BY <3>3 DEF CoreSummary
      <4>3. ~printed /\ ~summary
        BY <4>2 DEF OrderInv
      <4>4. Summaries = 0 /\ Summaries' = 1
        BY <4>2, <4>3 DEF Summaries
      <4> QED BY <1>0, <4>1, <4>4
    <3>4. CASE CoreExit \/ CoreFail
      BY <3>4 DEF CoreExit, CoreFail, Summaries
    <3> QED BY <1>0, <1>2, <3>1, <3>2, <3>3, <3>4 DEF CoreStep, Summaries
  <2>4. ASSUME NEW n \in Int
        PROVE  /\ EventsTo(n)' <=> EventsTo(n)
               /\ EndsAt(n) => EndsAt(n)'
    BY <1>0, <2>1, <2>2 DEF EndsAt, EventsTo, Clean
  <2> HIDE DEF IInv
  <2>5. StreamInv
    BY DEF IInv
  <2>6. InHand' = InHand /\ InHand \in {0, 1} /\ Summaries \in {0, 1} /\ Summaries' \in {0, 1}
    BY <2>1 DEF InHand, Summaries
  <2> QED BY <1>0, <2>1, <2>2, <2>3, <2>4, <2>5, <2>6, SMTT(60) DEF StreamInv
<1>3. CASE DrainStep
  <2> SUFFICES ASSUME body \in {"loop", "wait"}
               PROVE  StreamInv'
    BY <1>3 DEF DrainStep, ReadEvent, ReadEnded, ReadSummary, ReadNewer, ReadLong, ReadEof,
         Put, Finally, StreamInv
  <2>0. Summaries \in {0, 1} /\ Summaries' \in {0, 1}
    BY DEF Summaries
  <2>1. CASE ReadEvent \/ ReadEnded
    <3>1. Len(stdout') = Len(stdout) - 1
      BY <2>1, AfterTake DEF ReadEvent, ReadEnded
    <3>2. /\ drain = "read" /\ drain' = "put"
          /\ UNCHANGED <<queue, coreVars, bodyVars, broken, summary>>
      BY <2>1 DEF ReadEvent, ReadEnded, Take
    <3>3. InHand = 0 /\ InHand' = 1 /\ Summaries' = Summaries /\ EventsTo(Len(queue))'
      BY <3>2 DEF InHand, Summaries, StreamInv, EventsTo
    <3> QED BY <1>0, <2>0, <3>1, <3>2, <3>3 DEF StreamInv
  <2>2. CASE ReadSummary
    <3>1. Len(stdout) >= 1 /\ Len(stdout') = Len(stdout) - 1 /\ stdout[1] = "summary"
      BY <2>2, AfterTake DEF ReadSummary
    <3>2. drain = "read" /\ UNCHANGED <<drain, queue, coreVars, bodyVars, broken>> /\ summary'
      BY <2>2 DEF ReadSummary, Take
    <3>3. printed /\ ~summary
      BY <1>0, <3>1 DEF OrderInv
    <3>4. Summaries = 1 /\ Summaries' = 0 /\ InHand' = InHand /\ InHand = 0
      BY <3>2, <3>3 DEF Summaries, InHand
    <3>5. EventsTo(Len(queue))'
      BY <3>2 DEF StreamInv, EventsTo
    <3> QED BY <1>0, <3>1, <3>2, <3>4, <3>5 DEF StreamInv
  <2>3. CASE ReadNewer \/ ReadLong
    <3>1. Len(stdout) >= 1 /\ stdout[1] # "summary"
      BY <2>3, AfterTake DEF ReadNewer, ReadLong
    <3>2. /\ drain = "read" /\ UNCHANGED <<queue, coreVars, bodyVars>>
          /\ \/ drain' = "last" /\ UNCHANGED broken
             \/ drain' = "finally" /\ broken'
      BY <2>3 DEF ReadNewer, ReadLong, Take
    <3>3. got + Len(queue) <= wrote
      BY <1>0, <2>0, <3>1, <3>2 DEF StreamInv, InHand
    <3>4. ~broken /\ EventsTo(Len(queue))'
      BY <3>2 DEF StreamInv, EventsTo
    <3> QED BY <3>2, <3>3, <3>4 DEF StreamInv, EndsAt
  <2>4. CASE ReadEof
    <3>1. /\ drain = "read" /\ stdout = << >> /\ Len(stdout) = 0 /\ Exited
          /\ UNCHANGED <<stdout, queue, terminal, summary, broken, coreVars, bodyVars>>
      BY <2>4, EmptySeq DEF ReadEof, AtEof
    <3>2. ~(printed /\ ~summary) /\ Summaries = 0
      BY <3>1 DEF OrderInv, Summaries
    <3>3. summary = printed
      <4>1. summary \in BOOLEAN /\ printed \in BOOLEAN
        BY DEF TypeOK
      <4>2. summary => printed
        BY DEF OrderInv
      <4> HIDE DEF IInv
      <4> QED BY <3>2, <4>1, <4>2
    <3>4. ~broken /\ EventsTo(Len(queue)) /\ got + Len(queue) = wrote
      BY <1>0, <3>1, <3>2 DEF StreamInv, InHand
    <3>5. ~broken' /\ EventsTo(Len(queue))' /\ (got + Len(queue) = wrote)'
      BY <3>1, <3>4 DEF EventsTo
    <3>6. CASE drain' = "last"
      BY <1>0, <3>5, <3>6 DEF StreamInv
    <3>7. CASE drain' = "finally" /\ (core = "fail" => terminal)
      <4>1. Clean'
        BY <3>1, <3>3, <3>7 DEF Clean, Exited
      <4> QED BY <3>5, <3>7, <4>1 DEF StreamInv, EndsAt
    <3> QED BY <2>4, <3>6, <3>7 DEF ReadEof
  <2>5. CASE Put
    <3>1. /\ Len(queue') = Len(queue) + 1 /\ queue'[Len(queue')] = hand
          /\ \A i \in 1 .. Len(queue) : queue'[i] = queue[i]
      BY <2>5, AfterEnqueue DEF Put, TypeOK
    <3>2. UNCHANGED <<stdout, terminal, summary, broken, coreVars, bodyVars>>
      BY <2>5 DEF Put
    <3>4. CASE drain = "put"
      <4>1. drain' = "read" /\ InHand = 1 /\ InHand' = 0 /\ Summaries' = Summaries
        BY <2>5, <3>2, <3>4 DEF Put, InHand, Summaries
      <4>2. EventsTo(Len(queue))'
        BY <1>0, <3>1, <3>4 DEF StreamInv, HandInv, EventsTo
      <4> QED BY <1>0, <2>0, <3>1, <3>2, <3>4, <4>1, <4>2 DEF StreamInv
    <3>5. CASE drain = "last"
      <4>1. drain' = "finally" /\ hand = "error" /\ ~terminal
        BY <2>5, <3>5 DEF Put, HandInv
      <4>2. EventsTo(Len(queue) - 1)'
        BY <1>0, <3>1, <3>5 DEF StreamInv, EventsTo
      <4>3. (got + Len(queue) - 1 <= wrote)'
        BY <1>0, <3>1, <3>2, <3>5 DEF StreamInv
      <4>4. EndsAt(Len(queue))'
        BY <1>0, <3>1, <3>2, <4>1, <4>2, <4>3 DEF EndsAt
      <4> QED BY <4>1, <4>4 DEF StreamInv
    <3> QED BY <2>5, <3>4, <3>5 DEF Put
  <2>6. CASE Finally
    <3>1. /\ Len(queue') = Len(queue) + 1 /\ queue'[Len(queue')] = "none"
          /\ \A i \in 1 .. Len(queue) : queue'[i] = queue[i]
      BY <2>6, AfterEnqueue DEF Finally, Items
    <3>2. /\ drain = "finally" /\ drain' = "done"
          /\ UNCHANGED <<stdout, terminal, summary, broken, coreVars, bodyVars>>
      BY <2>6 DEF Finally
    <3>3. EndsAt(Len(queue))
      BY <3>2 DEF StreamInv
    <3>4. \A n \in Int : n <= Len(queue) /\ EventsTo(n) => EventsTo(n)'
      BY <1>0, <3>1 DEF EventsTo
    <3>5. Clean => Clean'
      BY <3>2 DEF Clean, Exited
    <3>6. PICK n \in Nat : n = Len(queue)
      BY <1>0
    <3>7. EndsAt(n)'
      BY <1>0, <3>1, <3>2, <3>3, <3>4, <3>5, <3>6 DEF EndsAt
    <3>8. EndsAt(Len(queue) - 1)'
      BY <1>0, <3>1, <3>6, <3>7
    <3> QED BY <1>0, <3>1, <3>2, <3>8 DEF StreamInv
  <2> QED BY <1>3, <2>1, <2>2, <2>3, <2>4, <2>5, <2>6 DEF DrainStep
<1>4. CASE BodyStep
  <2>1. CASE GetEvent
    <3>1. /\ Len(queue) >= 1 /\ Len(queue') = Len(queue) - 1 /\ queue[1] \in Event
          /\ \A i \in 1 .. Len(queue') : queue'[i] = queue[i + 1]
      BY <2>1, AfterGet, Zenon DEF GetEvent, Event
    <3>2. /\ body = "loop" /\ got' = got + 1
          /\ UNCHANGED <<drain, stdout, terminal, summary, broken, hand, coreVars>>
      BY <2>1 DEF GetEvent
    <3>3. \A n \in Nat : n >= 1 /\ EventsTo(n) /\ n <= Len(queue) => EventsTo(n - 1)'
      BY <1>0, <3>1, SMTT(60) DEF EventsTo
    <3>4. Clean => Clean'
      BY <3>2 DEF Clean, Exited
    <3>5. ASSUME NEW n \in Nat, n >= 1, n <= Len(queue), EndsAt(n)
          PROVE  EndsAt(n - 1)'
      <4>1. CASE broken /\ EventsTo(n) /\ got + n <= wrote
        BY <1>0, <3>2, <3>3, <3>5, <4>1 DEF EndsAt
      <4>2. CASE /\ ~terminal /\ n >= 1 /\ queue[n] = "error"
                 /\ EventsTo(n - 1) /\ got + n - 1 <= wrote
        <5>1. n >= 2 /\ queue'[n - 1] = "error"
          BY <1>0, <3>1, <3>5, <4>2 DEF Event
        <5>2. EventsTo(n - 2)'
          BY <1>0, <3>3, <3>5, <4>2, <5>1
        <5> QED BY <1>0, <3>2, <3>5, <4>2, <5>1, <5>2 DEF EndsAt
      <4>3. CASE Clean /\ EventsTo(n) /\ got + n = wrote
        BY <1>0, <3>2, <3>3, <3>4, <3>5, <4>3 DEF EndsAt
      <4> QED BY <3>5, <4>1, <4>2, <4>3 DEF EndsAt
    <3>6. Summaries' = Summaries /\ InHand' = InHand /\ InHand \in {0, 1} /\ Summaries \in {0, 1}
      BY <3>2 DEF Summaries, InHand
    <3>7. CASE drain \in {"read", "put"}
      BY <1>0, <3>1, <3>2, <3>3, <3>6, <3>7 DEF StreamInv
    <3>8. CASE drain = "last"
      BY <1>0, <3>1, <3>2, <3>3, <3>8 DEF StreamInv
    <3>9. CASE drain = "finally"
      BY <1>0, <3>1, <3>2, <3>5, <3>9 DEF StreamInv
    <3>10. CASE drain = "done"
      <4>1. Len(queue) >= 2 /\ queue[Len(queue)] = "none"
        BY <1>0, <3>1, <3>2, <3>10 DEF StreamInv, Event
      <4>2. PICK n \in Nat : n = Len(queue) - 1
        BY <1>0, <4>1
      <4>3. EndsAt(n - 1)'
        BY <1>0, <3>2, <3>5, <3>10, <4>1, <4>2 DEF StreamInv
      <4>4. Len(queue') >= 1 /\ queue'[Len(queue')] = "none" /\ Len(queue') - 1 = n - 1
        BY <1>0, <3>1, <4>1, <4>2
      <4>5. EndsAt(Len(queue) - 1)'
        BY <4>3, <4>4
      <4> QED BY <3>2, <3>10, <4>4, <4>5 DEF StreamInv
    <3> QED BY <3>7, <3>8, <3>9, <3>10, SMTT(60) DEF TypeOK
  <2>2. CASE GetLast \/ LeaveEarly \/ Waited \/ WaitTimeout \/ Cancel \/ Join
    BY <2>2 DEF GetLast, LeaveEarly, Waited, WaitTimeout, Cancel, Join, LeaveBy, StreamInv
  <2>3. CASE Command
    BY <2>3 DEF Command, StreamInv, EventsTo, Summaries, InHand, EndsAt, Clean, Exited
  <2> QED BY <1>4, <2>1, <2>2, <2>3 DEF BodyStep
<1> QED BY <1>1, <1>2, <1>3, <1>4 DEF Next

\* What holds when the body leaves its loop stays true: the core has exited.
LEMMA OutcomeStep ==
  ASSUME IInv, [Next]_vars
  PROVE  OutcomeInv'
<1> USE DEF IInv
<1>0. Len(queue) \in Nat /\ wrote \in Nat /\ got \in Nat
  BY LenProperties DEF TypeOK
<1> DEFINE Told == got = wrote /\ Exited /\ summary = printed /\ (core = "fail" => terminal)
\* When the body has taken all there was to take before the end marker.
<1>1. ASSUME body \in {"loop", "wait"}, queue # << >>,
             queue[1] = "none" \/ (body = "wait" /\ drain = "done")
      PROVE  drain = "done" /\ (~broken => Told)
  <2>1. Len(queue) >= 1
    BY <1>0, <1>1, EmptySeq DEF TypeOK
  <2>2. queue[1] = "none"
    BY <1>0, <1>1, <2>1 DEF HandInv
  <2>3. ASSUME NEW n \in Nat, EndsAt(n)
        PROVE  n = 0 /\ (~broken => Clean /\ got = wrote)
    <3>1. n >= 1 => ~EventsTo(n)
      BY <2>2 DEF EventsTo, Event
    <3>2. ~(n >= 1 /\ queue[n] = "error" /\ EventsTo(n - 1))
      BY <2>2 DEF EventsTo, Event
    <3> QED BY <1>0, <2>3, <3>1, <3>2 DEF EndsAt
  <2>4. drain = "done"
    <3>1. ~EventsTo(Len(queue))
      BY <1>0, <2>1, <2>2 DEF EventsTo, Event
    <3> QED BY <1>0, <1>1, <2>1, <2>3, <3>1 DEF StreamInv, TypeOK
  <2>5. PICK n \in Nat : n = Len(queue) - 1
    BY <1>0, <2>1, SMTT(60)
  <2>6. EndsAt(n)
    BY <1>1, <2>4, <2>5 DEF StreamInv
  <2> QED BY <2>3, <2>4, <2>6 DEF Clean
<1>2. CASE UNCHANGED <<coreVars, drain, terminal, summary, broken, bodyVars>>
  BY <1>2 DEF OutcomeInv, Exited
<1>3. CASE CoreStep
  BY <1>3 DEF OutcomeInv, Exited, CoreStep, CoreEvent, CoreEnd, CoreSummary, CoreExit, CoreFail
<1>4. CASE DrainStep
  <2>1. drain # "done" /\ UNCHANGED <<coreVars, bodyVars>>
    BY <1>4 DEF DrainStep, ReadEvent, ReadEnded, ReadSummary, ReadNewer, ReadLong, ReadEof,
         Take, AtEof, Put, Finally
  <2> QED BY <2>1 DEF OutcomeInv
<1>5. CASE BodyStep
  <2>1. CASE Command
    BY <1>2, <2>1 DEF Command
  <2>2. CASE GetEvent
    BY <2>2 DEF GetEvent, OutcomeInv
  <2>3. CASE GetLast
    <3>1. /\ body = "loop" /\ body' = "exit" /\ queue # << >>
          /\ outcome' = IF queue[1] = "none" THEN "exhausted" ELSE "raised"
          /\ UNCHANGED <<coreVars, drain, terminal, summary, broken, got>>
      BY <2>3, AfterGet DEF GetLast, LeaveBy
    <3>2. CASE queue[1] # "none"
      BY <3>1, <3>2 DEF OutcomeInv
    <3>3. CASE queue[1] = "none"
      <4>1. drain = "done" /\ (~broken => Told)
        BY <1>1, <3>1, <3>3
      <4> QED BY <3>1, <3>3, <4>1 DEF OutcomeInv, Exited
    <3> QED BY <3>2, <3>3
  <2>4. CASE Waited
    <3>1. /\ body = "wait" /\ drain = "done" /\ body' = "exit"
          /\ outcome' = IF broken THEN "raised" ELSE "waited"
          /\ UNCHANGED <<coreVars, drain, terminal, summary, broken, got>>
      BY <2>4 DEF Waited, LeaveBy
    <3>2. queue # << >>
      BY <3>1, EmptySeq DEF StreamInv
    <3> QED BY <1>1, <3>1, <3>2 DEF OutcomeInv, Exited
  <2>5. CASE LeaveEarly \/ WaitTimeout
    BY <2>5 DEF LeaveEarly, WaitTimeout, LeaveBy, OutcomeInv
  <2>6. CASE Cancel
    BY <2>6 DEF Cancel, OutcomeInv, Exited
  <2>7. CASE Join
    BY <2>7 DEF Join, OutcomeInv, Exited
  <2> QED BY <1>5, <2>1, <2>2, <2>3, <2>4, <2>5, <2>6, <2>7 DEF BodyStep
<1> QED BY <1>2, <1>3, <1>4, <1>5 DEF Next

\* The inductive invariant.
LEMMA Invariance == Spec => []IInv
<1>1. IInv /\ [Next]_vars => IInv'
  BY TypeStep, OrderStep, HandStep, StreamStep, OutcomeStep DEF IInv
<1> QED BY InitInv, <1>1, PTL DEF Spec

-----------------------------------------------------------------------------
(* The theorems *)

\* The pipe and the queue keep to their capacities, for all of them.
THEOREM HandleTyping == Spec => []TypeOK
<1>1. IInv => TypeOK
  BY DEF IInv
<1> QED BY Invariance, <1>1, PTL

\* A loop that ran to its end was given every event the core printed, unless a line
\* was too long to be read.
THEOREM EventsArrive == Spec => []EveryEventArrives
<1>1. IInv => EveryEventArrives
  BY DEF IInv, OutcomeInv, EveryEventArrives
<1> QED BY Invariance, <1>1, PTL

\* And its core has exited, with the summary it printed in the handle.
THEOREM SummaryIsThere == Spec => []SummaryAfterLoop
<1>1. IInv => SummaryAfterLoop
  BY DEF IInv, OutcomeInv, SummaryAfterLoop
<1> QED BY Invariance, <1>1, PTL

\* A core that failed before run_ended is never taken for an empty Run.
THEOREM FailuresAreSeen == Spec => []FailureSurfaces
<1>1. IInv => FailureSurfaces
  BY DEF IInv, OutcomeInv, FailureSurfaces
<1> QED BY Invariance, <1>1, PTL

\* A loop that ran to its end has got all there is to get.
THEOREM LoopsAreComplete == Spec => []LoopComplete
  BY EventsArrive, SummaryIsThere, FailuresAreSeen, PTL DEF LoopComplete
=============================================================================
