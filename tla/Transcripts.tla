---------------------------- MODULE Transcripts ----------------------------
(***************************************************************************)
(* The line parsers: what events the lines of a session file become, for   *)
(* every provider, as functions of the lines and of the state that goes    *)
(* from one batch of lines to the next.                                    *)
(*                                                                         *)
(* A line is what the parser tells apart in it.  Of the texts and times it *)
(* copies only whether they are there is left; the model and the effort    *)
(* are one value, the turn.                                                *)
(***************************************************************************)
EXTENDS Integers, Sequences, SequencesExt

CONSTANT None           \* of a field that is not there

NoUsage == [input |-> 0, cached |-> 0, output |-> 0]
NoState == [session |-> None, turn |-> None, cwd |-> None, previous |-> NoUsage]

(* ParseCtx::event: of is the line, or the state, that says where the event*)
(* belongs.                                                                *)
Event(of, type, actor, usage) ==
  [type |-> type, actor |-> actor, session |-> of.session, turn |-> of.turn, cwd |-> of.cwd,
   usage |-> usage]

Given(value, otherwise) == IF value = None THEN otherwise ELSE value
When(condition, event) == IF condition THEN <<event>> ELSE <<>>

-----------------------------------------------------------------------------
(* Codex: the session_meta and turn_context lines change what the lines    *)
(* after them mean, and the usage of a token_count line is the difference  *)
(* to the total of the line before when the line does not state it.        *)
Minus(a, b) == IF a > b THEN a - b ELSE 0

Subtract(total, previous) == [k \in DOMAIN total |-> Minus(total[k], previous[k])]

(* A session that is opened starts with nothing of the one before.         *)
OpenSession(state, line) ==
  LET opened == IF line.session \in {None, state.session} THEN state
                ELSE [NoState EXCEPT !.session = line.session]
  IN [opened EXCEPT !.cwd = Given(line.cwd, @)]

TurnContext(state, line) ==
  [state EXCEPT !.turn = Given(line.turn, @), !.cwd = Given(line.cwd, @)]

(* codex_usage_delta: what the line says of the last turn goes before the  *)
(* difference of the totals.                                               *)
Delta(state, line) ==
  IF line.last # None THEN line.last
  ELSE IF line.total # None THEN Subtract(line.total, state.previous) ELSE NoUsage

Counted_OnlyWhenUsed(state, line) ==
  IF line.total # None /\ line.last = None THEN [state EXCEPT !.previous = line.total] ELSE state

(* The total is remembered also when the line states its own usage.        *)
Counted(state, line) ==
  IF line.total # None THEN [state EXCEPT !.previous = line.total] ELSE state

(* Cached input is counted apart, and never beyond the input it is part of.*)
Tokens(delta) ==
  LET cached == IF delta.cached < delta.input THEN delta.cached ELSE delta.input
  IN [input |-> delta.input - cached, cached |-> cached, output |-> delta.output]

CodexEvents(state, line) ==
  CASE line.type = "response_item" ->
         When(line.item # None, Event(state, line.item, line.actor, NoUsage))
    [] line.type = "token_count" ->
         When(Delta(state, line) # NoUsage,
              Event(state, "usage", "assistant", Tokens(Delta(state, line))))
    [] OTHER -> <<>>

CodexState(state, line) ==
  CASE line.type = "session_meta" -> OpenSession(state, line)
    [] line.type = "turn_context" -> TurnContext(state, line)
    [] line.type = "token_count" -> Counted(state, line)
    [] OTHER -> state

-----------------------------------------------------------------------------
(* Claude and the generic format: every line says for itself what session  *)
(* and directory it belongs to, and the file's name is the session of one  *)
(* that does not.                                                          *)
Own(line) == [line EXCEPT !.session = Given(@, "file")]

(* claude_message: what tools answer comes in messages of the user.        *)
ClaudeActor(line) ==
  IF line.actor = "user" /\ line.item = "tool_results" THEN "tool" ELSE line.actor

(* One line gives its thinking, then its message, then its usage; a line   *)
(* about the session itself gives neither of the first two.                *)
ClaudeEvents(line) ==
     When(~line.meta /\ line.thinks,
          [Event(Own(line), "thinking", "assistant", NoUsage) EXCEPT !.turn = None])
  \o When(~line.meta /\ line.item # None, Event(Own(line), "message", ClaudeActor(line), NoUsage))
  \o When(line.type = "assistant" /\ line.last # None,
          Event(Own(line), "usage", "assistant", line.last))

(* A line of a role that is not known, or without text, is no message.     *)
JsonlActors == {"user", "assistant", "system", "tool"}
JsonlEvents(line) ==
  When(line.actor \in JsonlActors /\ line.item # None,
       [Event(Own(line), "message", line.actor, NoUsage) EXCEPT !.turn = None])

ParseLine(provider, acc, line) ==
  CASE provider = "codex" ->
         [state |-> CodexState(acc.state, line), events |-> acc.events \o CodexEvents(acc.state, line)]
    [] provider = "claude" -> [acc EXCEPT !.events = @ \o ClaudeEvents(line)]
    [] provider = "jsonl" -> [acc EXCEPT !.events = @ \o JsonlEvents(line)]

(* The events of a batch are numbered on from those of the batches before. *)
Numbered(events, next) == [i \in DOMAIN events |-> [seq |-> next + i - 1, event |-> events[i]]]

(* parse_lines.  Codex starts from the state that was kept, if any, with   *)
(* the name of the file as its session until a line says another.          *)
ParseLines(provider, lines, next, state) ==
  LET start == IF state = NoState THEN [NoState EXCEPT !.session = "file"] ELSE state
      out == FoldLeft(LAMBDA acc, line : ParseLine(provider, acc, line),
                      [state |-> start, events |-> <<>>], lines)
  IN [events |-> Numbered(out.events, next),
      state |-> IF provider = "codex" THEN out.state ELSE NoState]

-----------------------------------------------------------------------------
(* A reference for the usage: the tokens of the events, all together.      *)
Sum(a, b) == [k \in DOMAIN a |-> a[k] + b[k]]
Spent(events) ==
  FoldLeft(LAMBDA acc, e : Sum(acc, [input |-> e.event.usage.input + e.event.usage.cached,
                                     cached |-> e.event.usage.cached,
                                     output |-> e.event.usage.output]), NoUsage, events)
=============================================================================
