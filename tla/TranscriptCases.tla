---------------------------- MODULE TranscriptCases ----------------------------
(***************************************************************************)
(* The lines that Computations feeds to the readers of Transcripts, and    *)
(* what each reader is to make of them.                                    *)
(***************************************************************************)
EXTENDS Transcripts

\* Texts of up to three characters of one or three bytes, around a limit of three.
SomeTexts == BoundedSeq({1, 3}, 3)
Item(type, text, tool, id) == [type |-> type, text |-> text, tool |-> tool, id |-> id]

SomeLines ==
  LET types == {"raw", "unknown", "message_update", "tool_execution_start", "tool_execution_end", "bashExecution",
                "compaction", "custom_message", "unknown_event", "content_block_delta", "agent_end"}
      items == {Item(type, text, tool, NoId) : type \in {"text", "thinking", "toolCall", "tool_use", "tool_result"},
                                               text \in SomeTexts, tool \in {"Bash", "Write", "Task", "other"}}
  IN {Line(type, role, <<>>, text, tool, NoId, flag) :
        type \in types, role \in {"text_delta", "tool_call_delta"}, text \in SomeTexts,
        tool \in {"Bash", "Write"}, flag \in BOOLEAN}
     \cup {Line(type, role, <<item>>, <<>>, "", NoId, FALSE) :
        type \in {"message_start", "assistant", "user"}, role \in {"user", "assistant", "toolResult"}, item \in items}

\* The tool calls of an agent: a line starts or ends some of them, Read being no command.
ToolOf(id) == IF id = "read" THEN "Read" ELSE "Bash"
StartLine(agent, ids) ==
  LET Items(type) == [i \in DOMAIN ids |-> Item(type, <<1>>, ToolOf(ids[i]), ids[i])] IN
  IF agent = "claude" THEN Line("assistant", "assistant", Items("tool_use"), <<>>, "", NoId, FALSE)
  ELSE Line("message", "assistant", Items("toolCall"), <<>>, "", NoId, FALSE)
ResultLine(agent, ids) ==
  LET Items(type) == [i \in DOMAIN ids |-> Item(type, <<1>>, "", ids[i])] IN
  IF agent = "claude" THEN Line("user", "user", Items("tool_result"), <<>>, "", NoId, FALSE)
  ELSE Line("message", "assistant", Items("toolResult"), <<>>, "", NoId, FALSE)

ResultOf(id) == Line("message", "toolResult", <<>>, <<1>>, "", id, FALSE)
Executes(type, id) == Line(type, "", <<>>, <<1>>, ToolOf(id), id, FALSE)

\* How an agent tells of its calls: in the content of messages, with ids or results
\* without; pi also by a message for each result, by events, whose end names no call
\* that a reader looks at, or by an event and a message.
Forms(agent) == {"content", "anonymous"} \cup (IF agent = "pi" THEN {"message", "events", "both"} ELSE {})

Told(agent, form, what, ids) ==
  CASE what = "start" /\ form = "events" -> <<Executes("tool_execution_start", ids[1])>>
    [] what = "start" /\ form # "events" -> <<StartLine(agent, ids)>>
    [] what = "end" /\ form = "content" -> <<ResultLine(agent, ids)>>
    [] what = "end" /\ form = "anonymous" -> <<ResultLine(agent, [i \in DOMAIN ids |-> NoId])>>
    [] what = "end" /\ form = "message" -> <<ResultOf(ids[1])>>
    [] what = "end" /\ form = "events" -> <<Executes("tool_execution_end", ids[1])>>
    [] what = "end" /\ form = "both" -> <<Executes("tool_execution_end", ids[1]), ResultOf(ids[1])>>

\* Runs: sequences of <<what, ids>> in which every call is started once and then ends once.
Printed == {"start", "end"} \X {<<"b1">>, <<"b2">>, <<"read">>, <<"b1", "b2">>, <<"read", "b1">>}
At(run, what, id) == {i \in DOMAIN run : run[i][1] = what /\ Contains(run[i][2], id)}
Orderly(run) ==
  \A id \in {"b1", "b2", "read"} :
    /\ Cardinality(At(run, "start", id)) <= 1 /\ Cardinality(At(run, "end", id)) <= 1
    /\ \A j \in At(run, "end", id) : \E i \in At(run, "start", id) : i < j

Single(run) == \A i \in DOMAIN run : Len(run[i][2]) = 1
Tellable(form, run) == Single(run) \/ form \in {"content", "anonymous"}

\* The calls that run after i steps; no two at once; commands that end in their order.
Ongoing(run, i) ==
  {id \in {"b1", "b2", "read"} : /\ At(SubSeq(run, 1, i), "start", id) # {}
                                 /\ At(SubSeq(run, 1, i), "end", id) = {}}
Apart(run) == \A i \in DOMAIN run : Cardinality(Ongoing(run, i)) <= 1
Precedes(run, what, a, b) ==
  \E i \in At(run, what, a) : \A j \in At(run, what, b) : i < j
InTurn(run) ==
  \A a, b \in {"b1", "b2"} :
    Precedes(run, "start", a, b) /\ At(run, "end", b) # {} => Precedes(run, "end", a, b)

-----------------------------------------------------------------------------

\* What a line is shown as is its text, or as much of it as fits the limit in whole
\* characters; the assistant's own words are never cut.  Only the four places of
\* print_tool_args, print_tool_result and handle_bash_execution that slice by bytes
\* can panic, and only inside a character (safe_truncate, process).
ShownWell(agent, line) ==
  LET sent == ToSet(IF agent = "pi" THEN PiSent(line) ELSE ClaudeSent(line))
      sources == {line.text} \cup {item.text : item \in ToSet(line.items)}
      Most(text) == CHOOSE p \in Prefixes(text) :
        Bytes(p) <= Limit /\ \A q \in Prefixes(text) : Bytes(q) <= Limit => Len(q) <= Len(p)
  IN /\ \A text \in sent \ {Panic} : text \in sources \/ \E t \in sources : Bytes(t) > Limit /\ text = Most(t)
     /\ Panic \in sent => agent = "pi" /\ \E t \in sources : Bytes(t) > Limit /\ Bytes(Most(t)) < Limit
     /\ \A item \in ToSet(line.items) :
          item.type = "text" /\ <<agent, line.type>> \in {<<"claude", "assistant">>, <<"pi", "message_start">>}
            => item.text \in sent

\* A streamed message is shown whole and in order: pi's once, by its deltas; claude's
\* by its deltas, and again by the message that follows them.
StreamedWell(pieces) ==
  LET text == FlattenSeq(pieces)
      Flat(lines, Sent(_)) == FlattenSeq(Texts(lines, Sent))
      pi == <<Line("message_start", "assistant", <<>>, <<>>, "", NoId, FALSE)>>
            \o [i \in DOMAIN pieces |-> Line("message_update", "text_delta", <<>>, pieces[i], "", NoId, FALSE)]
      claude == [i \in DOMAIN pieces |-> Line("content_block_delta", "text_delta", <<>>, pieces[i], "", NoId, FALSE)]
                \o <<Line("assistant", "assistant", <<Item("text", text, "", NoId)>>, <<>>, "", NoId, FALSE)>>
  IN Flat(pi, PiSent) = text /\ Flat(claude, ClaudeSent) = text \o text

\* The timers left are those of the commands that have not ended, for both readers,
\* when results name their calls, and in any form when no two calls overlap.  A result
\* without an id costs the oldest timer: there are never more timers than commands,
\* those of a run told by events are the latest commands', and StreamParser, which
\* looks at the tool, keeps the right number of them, and the right ones when the
\* commands end in their order.  forward_line sees one call of a line, so for it the
\* calls must come one by one (accept, forward_line, cancel_oldest_timer).
TimedWell(agent, form, run) ==
  LET lines == FlattenSeq([i \in DOMAIN run |-> Told(agent, form, run[i][1], run[i][2])])
      started == SelectSeq(FlattenSeq([i \in DOMAIN run |-> IF run[i][1] = "start" THEN run[i][2] ELSE <<>>]),
                           LAMBDA id : id # "read")
      pending == Ongoing(run, Len(run)) \ {"read"}
      parsed == Timers([i \in DOMAIN lines |-> ParserOps(lines[i])])
      forwarded == Timers([i \in DOMAIN lines |-> ForwardOps(lines[i])])
      Exact(timers) == ToSet(timers) = pending /\ Len(timers) = Cardinality(pending)
      Bounded(timers) ==
        /\ Len(timers) <= Cardinality(pending) /\ IsInjective(timers) /\ ToSet(timers) \subseteq ToSet(started)
        /\ form = "events" => IsSuffix(timers, started)
        /\ form \in {"content", "message"} \/ Apart(run) => Exact(timers)
  IN /\ Bounded(parsed) /\ (Single(run) => Bounded(forwarded))
     /\ form = "events" => Len(parsed) = Cardinality(pending) /\ (InTurn(run) => Exact(parsed))
=============================================================================
