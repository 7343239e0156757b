------------------------------ MODULE Adapters ------------------------------
(***************************************************************************)
(* The adapters: what the parsers of aider_adapter.rs,                     *)
(* claude_code_adapter.rs, codex_adapter.rs and pi_adapter.rs make of the  *)
(* lines an agent prints, and what each declares for the egress policy and *)
(* the image (run_spec.rs).                                                *)
(*                                                                         *)
(* A line is what its parser tells apart: its kind, the ids it names, and  *)
(* whether the part an event needs is there.  Text is left out.            *)
(***************************************************************************)
EXTENDS Naturals, Sequences

CONSTANTS
  Tools,     \* ids of tool calls
  MaxLines   \* bound: lines the agent prints

ASSUME AdapterAssumption == MaxLines \in Nat

VARIABLES
  adapter,   \* whose parser it is
  parser,    \* its fields: [turn, open, pending, called, total]
  events,    \* history: what it has emitted
  fed,       \* history: lines parsed
  usages,    \* history: what the usage lines and messages read so far counted
  ended      \* flush has been called

adapterVars == <<adapter, parser, events, fed, usages, ended>>

\* turn_counter; in_turn; pending_usage (0 for None); tool_call_emitted; accumulator.
NewParser == [turn |-> 0, open |-> FALSE, pending |-> 0, called |-> {}, total |-> 0]

AdapterInit(names) ==
  /\ adapter \in names /\ parser = NewParser /\ events = << >> /\ fed = 0 /\ usages = << >>
  /\ ended = FALSE

Ev(name, id) == [name |-> name, id |-> id]
Output == Ev("output", 0)
Res(p, evs) == [parser |-> p, events |-> evs]

-----------------------------------------------------------------------------
(* aider: plain text.  A Tokens: line waits for the Cost: line after it. *)

turn_end_event(p) == IF p.open THEN <<Ev("turn_end", p.turn)>> ELSE << >>

\* Pending usage is emitted without a cost, and closes the turn.
flush_pending_usage(p) ==
  IF p.pending = 0 THEN Res(p, << >>)
  ELSE Res([p EXCEPT !.pending = 0, !.open = FALSE],
           turn_end_event(p) \o <<Ev("model_usage", p.pending)>>)

\* A Cost: line whose amount does not parse still takes the pending usage.
AiderLine(p, l) ==
  LET f == flush_pending_usage(p)
      q == f.parser
  IN  CASE l.kind = "cost" /\ l.ok /\ p.pending # 0 -> f
        [] l.kind = "cost" /\ ~(l.ok /\ p.pending # 0) ->
             Res([p EXCEPT !.pending = 0], <<Output>>)
        [] l.kind = "prompt" ->
             Res([q EXCEPT !.turn = @ + 1, !.open = TRUE],
                 f.events \o turn_end_event(q) \o <<Ev("turn_start", q.turn + 1), Output>>)
        [] l.kind = "tokens" -> Res([q EXCEPT !.pending = l.n], f.events)
        [] OTHER -> Res(q, f.events \o <<Output>>)

\* At the end of the stream.
AiderFlush(p) ==
  LET f == flush_pending_usage(p)
  IN  Res([f.parser EXCEPT !.open = FALSE], f.events \o turn_end_event(f.parser))

-----------------------------------------------------------------------------
(* claude-code: an assistant message is a turn, a user message tool results *)

parse_assistant(p, l) ==
  LET turn  == p.turn + 1
      calls == IF l.ok THEN <<Output, Ev("tool_call", l.id)>> ELSE << >>
  IN  Res([p EXCEPT !.turn = turn],
          <<Ev("turn_start", turn)>> \o calls \o <<Ev("turn_end", turn)>>)

parse_user(p, l) == Res(p, IF l.ok THEN <<Ev("tool_result", l.id)>> ELSE << >>)

parse_result(p, l) ==
  Res(p, (IF l.ok THEN << >> ELSE <<Output>>)
         \o (IF l.n > 0 THEN <<Ev("model_usage", l.n)>> ELSE << >>))

ClaudeLine(p, l) ==
  CASE l.kind = "assistant" -> parse_assistant(p, l)
    [] l.kind = "user"      -> parse_user(p, l)
    [] l.kind = "result"    -> parse_result(p, l)
    [] l.kind = "text"      -> Res(p, <<Output>>)
    [] OTHER                -> Res(p, << >>)

-----------------------------------------------------------------------------
(* codex: items; what is neither a message nor reasoning, and has an id,   *)
(* is a tool.  The item.completed of a message is a kind of its own.       *)

Call(p, id) ==
  IF id \in p.called THEN Res(p, << >>)
  ELSE Res([p EXCEPT !.called = @ \cup {id}], <<Ev("tool_call", id)>>)

handle_item_started(p, l) == IF l.ok THEN Call(p, l.id) ELSE Res(p, << >>)

\* Mutant: the call is not made up when its start was not seen.
CompletedNoCall(p, l) == Res(p, <<Ev("tool_result", l.id)>>)

handle_item_completed(p, l) ==
  LET c == Call(p, l.id)
  IN  IF l.ok THEN Res(c.parser, c.events \o <<Ev("tool_result", l.id)>>) ELSE Res(p, << >>)

handle_turn_completed(p, l) ==
  Res(p, <<Ev("turn_end", p.turn)>>
         \o (IF l.n > 0 THEN <<Ev("model_usage", l.n)>> ELSE << >>))

CodexLine(p, l) ==
  CASE l.kind = "turn.started" -> Res([p EXCEPT !.turn = @ + 1], <<Ev("turn_start", p.turn + 1)>>)
    [] l.kind = "item.started"   -> handle_item_started(p, l)
    [] l.kind = "item.completed" -> handle_item_completed(p, l)
    [] l.kind = "turn.completed" -> handle_turn_completed(p, l)
    [] OTHER                     -> Res(p, <<Output>>)

-----------------------------------------------------------------------------
(* pi: usage per turn, and the sum of it at the end *)

parse_tool_execution(p, l) ==
  Res(p, IF l.ok THEN <<Ev(IF l.kind = "tool_execution_start" THEN "tool_call"
                           ELSE "tool_result", l.id)>> ELSE << >>)

parse_turn_end(p, l) ==
  Res([p EXCEPT !.total = @ + l.n],
      <<Ev("turn_end", p.turn)>> \o (IF l.n > 0 THEN <<Ev("model_usage", l.n)>> ELSE << >>))

\* A model_usage too; it is named apart to tell the sum from what is summed.
emit_session_usage(p) == Res(p, <<Ev("session_usage", p.total)>>)

PiLine(p, l) ==
  CASE l.kind = "turn_start" -> Res([p EXCEPT !.turn = @ + 1], <<Ev("turn_start", p.turn + 1)>>)
    [] l.kind \in {"tool_execution_start", "tool_execution_end"} -> parse_tool_execution(p, l)
    [] l.kind = "turn_end"  -> parse_turn_end(p, l)
    [] l.kind = "agent_end" -> emit_session_usage(p)
    [] l.kind \in {"text", "compaction_start"} -> Res(p, <<Output>>)
    [] OTHER -> Res(p, << >>)

-----------------------------------------------------------------------------

\* The kinds a parser knows, and one it does not.  n counts tokens, 0 for no usage.
LineKinds ==
  [aider |-> {"model", "prompt", "tokens", "cost", "text"},
   claude |-> {"assistant", "user", "result", "system", "text"},
   codex |-> {"turn.started", "item.started", "item.completed", "agent_message", "turn.completed", "text"},
   pi |-> {"turn_start", "tool_execution_start", "tool_execution_end", "turn_end",
           "agent_end", "session", "compaction_start", "text"}]

\* The lines that count tokens are told apart by what they count.
Lines(a) ==
  {l \in [kind : LineKinds[a], ok : BOOLEAN, id : Tools, n : {0, Len(usages) + 1}] :
     l.kind = "tokens" => l.n > 0}

parse_line(p, l) ==
  CASE adapter = "aider"  -> AiderLine(p, l)
    [] adapter = "claude" -> ClaudeLine(p, l)
    [] adapter = "codex"  -> CodexLine(p, l)
    [] OTHER              -> PiLine(p, l)

Counts(l) == l.n > 0 /\ l.kind \in {"tokens", "result", "turn.completed", "turn_end"}

Feed(l) ==
  /\ ~ended /\ fed < MaxLines
  /\ LET r == parse_line(parser, l)
     IN  /\ parser' = r.parser /\ events' = events \o r.events
         /\ usages' = CASE Counts(l) -> Append(usages, TRUE)
                        [] adapter = "aider" /\ l.kind = "cost" /\ ~l.ok /\ parser.pending # 0 ->
                             [usages EXCEPT ![parser.pending] = FALSE]
                        [] OTHER -> usages
  /\ fed' = fed + 1 /\ UNCHANGED <<adapter, ended>>

\* Only aider's parser holds anything.
Flush ==
  /\ ~ended /\ ended' = TRUE
  /\ LET r == IF adapter = "aider" THEN AiderFlush(parser) ELSE Res(parser, << >>)
     IN  parser' = r.parser /\ events' = events \o r.events
  /\ UNCHANGED <<adapter, fed, usages>>

AdapterNext == Flush \/ \E l \in Lines(adapter) : Feed(l)

-----------------------------------------------------------------------------
(* Properties *)

IsTurn(e) == e.name \in {"turn_start", "turn_end"}

\* Whether e is the last turn event before place i, and whether there is none.
LastTurn(evs, i, e) == \E j \in 1 .. i - 1 : evs[j] = e /\ \A k \in j + 1 .. i - 1 : ~IsTurn(evs[k])
NoTurn(evs, i) == \A k \in 1 .. i - 1 : ~IsTurn(evs[k])

\* adapter-contract.md: a turn that starts ends, before the next one and under its own
\* number, though aider marks no end and may print no cost (AiderParser, parse_assistant).
TurnsPaired ==
  adapter \in {"aider", "claude"} =>
    /\ \A i \in DOMAIN events :
         /\ events[i].name = "turn_end" => LastTurn(events, i, Ev("turn_start", events[i].id))
         /\ events[i].name = "turn_start" =>
              \/ events[i].id = 1 /\ NoTurn(events, i)
              \/ LastTurn(events, i, Ev("turn_end", events[i].id - 1))
    /\ ended => \A i \in DOMAIN events : events[i].name = "turn_start" =>
                  \E j \in i + 1 .. Len(events) : events[j] = Ev("turn_end", events[i].id)

\* A tool's result comes after its one call, whichever of codex's two lines about an item
\* is missing or repeated (tool_call_emitted).
ResultsFollowCalls ==
  adapter = "codex" =>
    /\ \A i, j \in DOMAIN events : events[i].name = "tool_call" /\ events[j] = events[i] => i = j
    /\ \A i \in DOMAIN events : events[i].name = "tool_result" =>
         \E j \in 1 .. i - 1 : events[j] = Ev("tool_call", events[i].id)

\* The counts in the model_usage events before place i.
Emitted(evs, i) == {evs[j].id : j \in {k \in 1 .. i - 1 : evs[k].name = "model_usage"}}

\* Every count an agent prints is in one model_usage, in the order printed: at once, or
\* for aider by the end, and pi's session total is the sum of those before it.  Only a
\* Cost: line that does not parse loses the Tokens: line before it.
UsageCounted ==
  /\ Emitted(events, Len(events) + 1) = {n \in DOMAIN usages : usages[n]} \ {parser.pending}
  /\ \A i \in DOMAIN events : events[i].name = "model_usage" =>
       \A n \in Emitted(events, i) : n < events[i].id
  /\ parser.pending # 0 => parser.pending = Len(usages) /\ usages[parser.pending]
  /\ ended => parser.pending = 0
  /\ adapter = "pi" => \A i \in DOMAIN events : events[i].name = "session_usage" =>
       \E n \in 0 .. Len(usages) : Emitted(events, i) = 1 .. n /\ 2 * events[i].id = n * (n + 1)

\* Turns, tools and usage as the contract has them.
ContractKept == TurnsPaired /\ ResultsFollowCalls /\ UsageCounted
=============================================================================
