------------------------------ MODULE Transcripts ------------------------------
(***************************************************************************)
(* What becomes of a line an agent prints: pi_message_processor.rs and     *)
(* claude_message_processor.rs turn it into text for the session, and      *)
(* watchdog.rs (forward_line) and stream_parser.rs (StreamParser) find the *)
(* shell commands in it.  A text is the sequence of the byte widths of its *)
(* characters.  Labels, file names and line breaks are left out: a line    *)
(* sends a sequence of texts, and a line whose texts are all of the        *)
(* program's making sends none.                                            *)
(***************************************************************************)
EXTENDS Integers, FiniteSetsExt, SequencesExt

CONSTANT Limit   \* 100, 200, 300, 500 or 1000 bytes, after which a text is cut

Bytes(text) == FoldSeq(+, 0, text)
CharBoundary(text, n) == \E i \in 0..Len(text) : Bytes(SubSeq(text, 1, i)) = n
Prefix(text, n) == CHOOSE p \in {SubSeq(text, 1, i) : i \in 0..Len(text)} : Bytes(p) = n

SafeTruncate(text, max) ==
  IF Bytes(text) <= max THEN text
  ELSE Prefix(text, Max({n \in 0..max : CharBoundary(text, n)}))

\* &text[..max] panics inside a character.
Panic == <<0>>
Slice(text, max) ==
  IF Bytes(text) <= max THEN text
  ELSE IF CharBoundary(text, max) THEN Prefix(text, max) ELSE Panic

-----------------------------------------------------------------------------
(* A line: raw is one that is no JSON object with a type.  items are what  *)
(* the content of its message holds, [type, text, tool, id]; text is what  *)
(* the line itself holds.                                                  *)

Line(type, role, items, text, tool, id, flag) ==
  [type |-> type, role |-> role, items |-> items, text |-> text, tool |-> tool, id |-> id, flag |-> flag]

Texts(items, Shown(_)) == FoldLeft(LAMBDA sent, item : sent \o Shown(item), <<>>, items)

\* print_tool_args.
PiArgs(tool, text) ==
  IF tool \in {"Read", "Bash", "Glob", "Grep"} THEN <<text>> ELSE <<Slice(text, Limit)>>

PiItem(role, item) ==
  CASE item.type = "text" -> <<item.text>>
    [] item.type = "thinking" /\ role = "assistant" -> <<item.text>>
    [] item.type = "toolCall" /\ role = "assistant" -> PiArgs(item.tool, item.text)
    [] OTHER -> <<>>

\* The pieces of a message that is being streamed, and the tools while they run.
PiUpdates(line) ==
  CASE line.type = "message_update" /\ line.role \in {"text_delta", "thinking_delta"} -> <<line.text>>
    [] line.type = "tool_execution_start" -> PiArgs(line.tool, line.text)
    [] line.type = "tool_execution_end" -> <<Slice(line.text, Limit)>>
    [] OTHER -> <<>>

\* The entries of a session that are no messages.
PiEvents(line) ==
  CASE line.type = "bashExecution" -> <<Slice(line.text, Limit)>>
    [] line.type \in {"compaction", "branch_summary"} -> <<SafeTruncate(line.text, Limit)>>
    [] line.type = "custom_message" /\ line.flag -> <<line.text>>
    [] OTHER -> <<>>

\* PiMessageProcessor::process.
PiSent(line) ==
  CASE line.type \in {"raw", "unknown"} -> <<line.text>>
    [] line.type = "message_start" ->
         IF line.role \in {"user", "assistant", "toolResult"}
         THEN Texts(line.items, LAMBDA item : PiItem(line.role, item)) ELSE <<>>
    [] OTHER -> PiUpdates(line) \o PiEvents(line)

\* render_tool_use: an unknown tool is named without its input.
ClaudeTool(item) ==
  CASE item.tool = "Task" -> <<SafeTruncate(item.text, Limit)>>
    [] item.tool \in {"Edit", "Glob", "Grep", "Read", "Write", "Bash", "TodoWrite"} -> <<item.text>>
    [] OTHER -> <<>>

ClaudeItem(type, item) ==
  CASE type \in {"assistant", "message_start"} /\ item.type \in {"thinking", "text"} -> <<item.text>>
    [] type = "assistant" /\ item.type = "tool_use" -> ClaudeTool(item)
    [] type = "user" /\ item.type \in {"text", "tool_result"} -> <<item.text>>
    [] OTHER -> <<>>

\* ClaudeMessageProcessor::process; a stream event is a line of the event's type.
ClaudeSent(line) ==
  CASE line.type \in {"raw", "unknown", "unknown_event"} -> <<line.text>>
    [] line.type \in {"assistant", "user", "message_start"} ->
         Texts(line.items, LAMBDA item : ClaudeItem(line.type, item))
    [] line.type = "content_block_delta" /\ line.role \in {"thinking_delta", "text_delta"} -> <<line.text>>
    [] OTHER -> <<>>

-----------------------------------------------------------------------------
(* The timers of shell commands: what a line does to them, as a sequence   *)
(* of <<"start", id>>, <<"cancel", id>> and <<"oldest">>.                  *)

NoId == "none"
Start(id) == <<"start", id>>
Cancel(id) == IF id = NoId THEN <<"oldest">> ELSE <<"cancel", id>>

ToolUse(item) == item.type = "tool_use" /\ item.tool = "Bash"
ToolCall(line, item) == line.type = "message" /\ item.type = "toolCall" /\ item.tool \in {"Bash", "bash"}

ResultItem(line, item) ==
  \/ line.type = "user" /\ item.type = "tool_result"
  \/ line.type = "message" /\ item.type = "toolResult"

BashRuns(line) == line.type = "tool_execution_start" /\ line.tool \in {"Bash", "bash"}
ResultMessage(line) == line.type = "message" /\ line.role = "toolResult"

\* StreamParser::accept: every item in turn.
ParserOps(line) ==
  LET Op(item) ==
        IF ToolCall(line, item) \/ (line.type = "assistant" /\ ToolUse(item)) THEN <<Start(item.id)>>
        ELSE IF ResultItem(line, item) THEN <<Cancel(item.id)>> ELSE <<>>
  IN Texts(line.items, Op)
     \o (IF ResultMessage(line) THEN <<Cancel(line.id)>> ELSE <<>>)
     \o (IF BashRuns(line) THEN <<Start(line.id)>> ELSE <<>>)
     \o (IF line.type = "tool_execution_end" /\ line.tool \in {"Bash", "bash"} THEN <<Cancel(NoId)>> ELSE <<>>)

\* extract_tool_result_id: the message's own, whatever its role, or the first of its items.
ResultId(line) ==
  LET results == SelectSeq(line.items, LAMBDA item : ResultItem(line, item) /\ item.id # NoId) IN
  IF line.type = "message" /\ line.id # NoId THEN line.id
  ELSE IF results # <<>> THEN results[1].id ELSE NoId

\* is_tool_result: any tool's tool_execution_end is one.
IsToolResult(line) ==
  \/ \E i \in DOMAIN line.items : ResultItem(line, line.items[i])
  \/ ResultMessage(line) \/ line.type = "tool_execution_end"

\* forward_line: the first command, or else the first result that has an id, or else
\* any result.
ForwardOps(line) ==
  LET commands ==
        SelectSeq(line.items, ToolUse) \o SelectSeq(line.items, LAMBDA item : ToolCall(line, item))
  IN IF commands # <<>> THEN <<Start(commands[1].id)>>
     ELSE IF BashRuns(line) THEN <<Start(line.id)>>
     ELSE IF ResultId(line) # NoId \/ IsToolResult(line) THEN <<Cancel(ResultId(line))>> ELSE <<>>

\* mutant: a result cancels the oldest timer, whatever its id
AfterOpByAge(timers, op) ==
  IF op[1] = "start" THEN Append(timers, op[2]) ELSE IF timers = <<>> THEN timers ELSE Tail(timers)

\* CommandWatchdog's timers after an operation.
AfterOp(timers, op) ==
  CASE op[1] = "start" -> Append(timers, op[2])
    [] op[1] = "oldest" -> IF timers = <<>> THEN timers ELSE Tail(timers)
    [] OTHER -> IF Contains(timers, op[2]) THEN RemoveAt(timers, SelectInSeq(timers, LAMBDA t : t = op[2])) ELSE timers

\* ops: what each line in turn does to them.
Timers(ops) == FoldLeft(AfterOp, <<>>, FlattenSeq(ops))
=============================================================================
