------------------------------ MODULE MCSources ------------------------------
(***************************************************************************)
(* Instances of Sources for TLC.  The sessions are the words over a few    *)
(* lines of a Codex session, the totals of which start anew with every     *)
(* session that is opened, or go on from a session resumed from elsewhere, *)
(* and one session each of Claude and of the generic format.               *)
(***************************************************************************)
EXTENDS Sources

CONSTANTS host, distro

One == [input |-> 2, cached |-> 1, output |-> 1]
Two == Sum(One, One)
Three == Sum(One, Two)

Line(type) ==
  [type |-> type, session |-> None, turn |-> None, cwd |-> None, actor |-> "assistant",
   item |-> None, thinks |-> FALSE, meta |-> FALSE, last |-> None, total |-> None,
   used |-> NoUsage]
Meta(id) == [Line("session_meta") EXCEPT !.session = id, !.cwd = id]
Turn == [Line("turn_context") EXCEPT !.turn = "high"]
Item == [Line("response_item") EXCEPT !.item = "message"]
Count(last, total) == [Line("token_count") EXCEPT !.last = last, !.total = total, !.used = One]
Idling == [Line("token_count") EXCEPT !.total = Three]

Codex(form, n, lines) ==
  [provider |-> "codex", form |-> form, moves |-> n, lines |-> lines]
Claude(n) ==
  [provider |-> "claude", form |-> "plain", moves |-> n, lines |->
    <<[Line("assistant") EXCEPT !.session = "c", !.thinks = TRUE, !.item = "text", !.last = One],
      [Line("user") EXCEPT !.actor = "user", !.item = "tool_results", !.last = One]>>]
Jsonl(n) ==
  [provider |-> "jsonl", form |-> "plain", moves |-> n, lines |->
    <<[Line("") EXCEPT !.actor = "heartbeat", !.item = "text"],
      [Line("") EXCEPT !.session = "d", !.item = "text"]>>]

Sessions(local, wsl) == [s \in Source |-> IF s = host THEN local ELSE wsl]

(* Much happens to one source or a little to both.                         *)
MCScripts ==
  { Sessions(Codex("plain", 3, <<Count(None, One), Meta("a"), Count(None, One)>>), Claude(0)),
    Sessions(Jsonl(0), Codex("zst", 5, <<Count(One, Two), Count(None, Three), Idling>>)),
    Sessions(Codex("zst", 2, <<Turn, Item, Count(One, One)>>),
             Codex("plain", 2, <<Meta("a"), Count(None, One), Meta("a")>>)),
    Sessions(Claude(1), Codex("plain", 2, <<Meta("a"), Meta("b"), Count(None, One)>>)) }

(* They keep account as Codex does.                                        *)
ASSUME MCHonest ==
  \A c \in MCScripts, s \in Source : c[s].provider = "codex" =>
    \E own \in [0..Len(c[s].lines) -> {"file", "a", "b"}],
       total \in [0..Len(c[s].lines) -> {NoUsage, One, Two, Three}] :
      Path(c[s].lines, own, total)
=============================================================================
