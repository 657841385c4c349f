----------------------------- MODULE SessionStream -----------------------------
(***************************************************************************)
(* The output of one session (models/session.rs): the accumulated log that *)
(* a page is rendered from, the broadcast channel that the SSE handlers    *)
(* (routes/benchmark.rs, stream_output) read, and the browsers behind them.*)
(*                                                                         *)
(* A line is the number of its push onto the log; whatever one step emits  *)
(* at once is one line.  The log is trimmed from its head only, so it is   *)
(* the lines dropped+1..pushed.                                            *)
(***************************************************************************)
EXTENDS SessionManager, Sequences

CONSTANTS
  Viewers,   \* browsers that look at the session
  MaxLog,    \* MAX_LINES of emit_output
  Capacity   \* of the broadcast channel

ASSUME StreamAssumption ==
  IsFiniteSet(Viewers) /\ MaxLog \in Nat \ {0} /\ Capacity \in Nat \ {0}

the == 1   \* the session that is looked at

\* The executor with the reader tasks of its containers, and the handler that cancels.
Writers == {"run", "user"}
Nothing == 0

VARIABLES
  pushed, dropped,  \* the log
  unsent,           \* Writers -> the line it has pushed and not broadcast yet
  vpc,              \* Viewers -> where its page and its stream are
  queue,            \* Viewers -> its receiver of the broadcast channel
  lagging,          \* Viewers -> has the receiver been overrun?
  told,             \* Viewers -> the status of its "complete" event
  flag,             \* shutdown_flag
  local             \* does the executor still hold a sender?

logVars == <<pushed, dropped, unsent>>
viewerVars == <<vpc, lagging, told>>
streamVars == <<logVars, viewerVars, queue>>

StreamTypeOK(maxLines) ==
  /\ pushed \in Nat /\ dropped \in 0..pushed /\ pushed - dropped <= maxLines
  /\ unsent \in [Writers -> 0..pushed]
  /\ vpc \in [Viewers -> {"away", "page", "found", "open", "complete", "failed"}]
  /\ queue \in [Viewers -> Seq(1..pushed)] /\ \A v \in Viewers : Len(queue[v]) <= Capacity
  /\ lagging \in [Viewers -> BOOLEAN]
  /\ told \in [Viewers -> RunStatus \cup {Absent}]
  /\ flag \in BOOLEAN /\ local \in BOOLEAN

StreamInit ==
  /\ pushed = 0 /\ dropped = 0 /\ unsent = [w \in Writers |-> Nothing]
  /\ vpc = [v \in Viewers |-> "away"]
  /\ queue = [v \in Viewers |-> <<>>] /\ lagging = [v \in Viewers |-> FALSE]
  /\ told = [v \in Viewers |-> Absent]
  /\ flag = FALSE /\ local = TRUE

-----------------------------------------------------------------------------
(* Writing a line: onto the log under its lock, then, the lock released,   *)
(* to the channel.                                                         *)

Push(w) ==
  /\ unsent[w] = Nothing
  /\ pushed' = pushed + 1
  /\ unsent' = [unsent EXCEPT ![w] = pushed + 1]

EmitUncapped(w) ==  \* mutated: the ring buffer is a list
  Push(w) /\ UNCHANGED dropped

\* emit_output keeps at most MaxLog lines ...
Emit(w) ==
  /\ Push(w)
  /\ dropped' = IF pushed - dropped >= MaxLog THEN dropped + 1 ELSE dropped

\* ... and the closure of make_output_consumer any number.
Consume(w) == Push(w) /\ UNCHANGED dropped

\* A receiver that is full loses its oldest message and is told so.
Send(w) ==
  /\ unsent[w] # Nothing
  /\ unsent' = [unsent EXCEPT ![w] = Nothing]
  /\ queue' = [v \in Viewers |->
       IF vpc[v] # "open" THEN queue[v]
       ELSE Append(IF Len(queue[v]) < Capacity THEN queue[v] ELSE Tail(queue[v]), unsent[w])]
  /\ lagging' = [v \in Viewers |->
       lagging[v] \/ (vpc[v] = "open" /\ Len(queue[v]) = Capacity)]
  /\ UNCHANGED <<pushed, dropped, vpc, told>>

-----------------------------------------------------------------------------
(* A viewer loads the page, and the page opens the stream. *)

Move(v, from, to) == vpc[v] = from /\ vpc' = [vpc EXCEPT ![v] = to]

RenderPage(v) ==
  /\ Move(v, "away", "page")
  /\ sessions[the] # Absent
  /\ UNCHANGED <<logVars, queue, lagging, told>>

\* get_session, and then take_session_receiver: two looks at the map, under its
\* read lock, which a cancel holds for writing until its line has been sent.
FindSession(v) ==
  /\ IF sessions[the] = Absent THEN Move(v, "page", "failed") ELSE Move(v, "page", "found")
  /\ unsent["user"] = Nothing
  /\ UNCHANGED <<logVars, queue, lagging, told>>

\* expect("session exists") panics when the session went in between.
Subscribe(v) ==
  /\ vpc[v] = "found" /\ unsent["user"] = Nothing
  /\ vpc' = [vpc EXCEPT ![v] = IF sessions[the] = Absent THEN "failed" ELSE "open"]
  /\ queue' = [queue EXCEPT ![v] = <<>>]
  /\ lagging' = [lagging EXCEPT ![v] = FALSE]
  /\ UNCHANGED <<logVars, told>>

\* Lagged only says that lines were skipped.
Receive(v) ==
  /\ vpc[v] = "open" /\ queue[v] # <<>>
  /\ IF lagging[v]
       THEN /\ lagging' = [lagging EXCEPT ![v] = FALSE]
            /\ UNCHANGED queue
       ELSE /\ queue' = [queue EXCEPT ![v] = Tail(@)]
            /\ UNCHANGED lagging
  /\ UNCHANGED <<logVars, vpc, told>>

\* The map and the executor hold the senders of the channel.
Closed == sessions[the] = Absent /\ ~local

ClosedOnly == Closed  \* mutated: the flag is never looked at
StreamOver == Closed \/ flag

FinalStatus == IF sessions[the] = Absent THEN "COMPLETED" ELSE sessions[the]

\* recv() is closed, or has had nothing for 100 ms and the flag is set.
CompleteStream(v) ==
  /\ queue[v] = <<>> /\ StreamOver
  /\ Move(v, "open", "complete")
  /\ told' = [told EXCEPT ![v] = FinalStatus]
  /\ UNCHANGED <<logVars, queue, lagging>>

\* The connection breaks, and the EventSource of the page opens another one.
LoseConnection(v) ==
  /\ Move(v, "open", "page")
  /\ queue' = [queue EXCEPT ![v] = <<>>]
  /\ UNCHANGED <<logVars, lagging, told>>

Handler(v) == FindSession(v) \/ Subscribe(v) \/ Receive(v) \/ CompleteStream(v)

ViewerNext ==
  /\ \E v \in Viewers : RenderPage(v) \/ Handler(v) \/ LoseConnection(v)
  /\ UNCHANGED <<flag, local, sessions, tokens>>
=============================================================================
