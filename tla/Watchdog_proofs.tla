---------------------------- MODULE Watchdog_proofs ----------------------------
(***************************************************************************)
(* The tool watchdog, for any calls, commands and timeout, whatever order  *)
(* the tasks of forward_line run in: its types, that a running command is  *)
(* watched, and that only overdue ones are killed.                         *)
(***************************************************************************)
EXTENDS WatchdogProperties, WellFoundedInduction, TLAPS

\* The list holds a first entry whenever it holds any.
LEMMA FirstEntry ==
  ASSUME NEW S, S \subseteq Nat, S # {}
  PROVE  Min(S) \in S /\ \A n \in S : Min(S) <= n
<1>1. PICK x \in S : \A y \in S : ~(<<y, x>> \in OpToRel(<, Nat))
  BY NatLessThanWellFounded, WFMin
<1>2. \A y \in S : ~(y < x)
  BY <1>1 DEF OpToRel
<1>3. \A y \in S : x <= y
  BY <1>2
<1> QED BY <1>3 DEF Min

\* Timers and victims are numbered by their pushes.
LEMMA Numbered ==
  ASSUME TypeOK
  PROVE  /\ pushed \in Nat /\ pushed + 1 \notin DOMAIN timers
         /\ DOMAIN timers \subseteq Nat /\ DOMAIN victims \subseteq Nat
         /\ \A n \in DOMAIN timers : timers[n] \in Timer /\ timers[n].call \in Bash
BY DEF TypeOK, Timer

\* What removing an entry leaves is what was there.
LEMMA RemovedFirst ==
  ASSUME NEW vec, DOMAIN vec \subseteq Nat, NEW entries, entries \subseteq DOMAIN vec
  PROVE  /\ DOMAIN RemoveFirst(vec, entries) \subseteq DOMAIN vec
         /\ \A n \in DOMAIN RemoveFirst(vec, entries) : RemoveFirst(vec, entries)[n] = vec[n]
         /\ \A n \in DOMAIN vec \ entries : n \in DOMAIN RemoveFirst(vec, entries)
<1>1. CASE entries = {}
  BY <1>1 DEF RemoveFirst
<1>2. CASE entries # {}
  <2>1. Min(entries) \in entries
    BY <1>2, FirstEntry
  <2>2. RemoveFirst(vec, entries) = [n \in DOMAIN vec \ {Min(entries)} |-> vec[n]]
    BY <1>2 DEF RemoveFirst, Restrict
  <2> QED BY <2>1, <2>2
<1> QED BY <1>1, <1>2

-----------------------------------------------------------------------------
(* The invariant. *)

\* A call whose start or timer is known has begun, one whose result is has ended.
LinesTell ==
  \A c \in Calls :
    /\ <<"start", c>> \in tasks => c \in Bash /\ call[c] # "idle"
    /\ <<"result", c>> \in tasks => call[c] = "ended"

TimersTell ==
  /\ \A n \in DOMAIN timers : call[timers[n].call] # "idle"
  /\ \A n \in DOMAIN victims : call[victims[n]] # "idle"

\* A timer is started after its call, so that it is never ahead of it.
TimersLag ==
  /\ \A n \in DOMAIN timers :
       call[timers[n].call] = "running" => timers[n].age <= elapsed[timers[n].call]
  /\ \A n \in DOMAIN victims : call[victims[n]] = "running" => elapsed[victims[n]] > Timeout

\* The ticker kills as long as there is somebody to kill.
TickerBusy == ticker \in {"term", "kill"} <=> DOMAIN victims # {}

\* A call that the ticker was to kill is one that was due.
Overdue(c) == call[c] # "idle" /\ (call[c] = "running" => elapsed[c] > Timeout)

SignalsTell == \A given \in givenUp : given[2] \in Bash /\ Overdue(given[2])

WatchInv == TypeOK /\ LinesTell /\ TimersTell /\ TimersLag /\ TickerBusy /\ SignalsTell

LEMMA WatchInitially == Init => WatchInv
<1> SUFFICES ASSUME Init PROVE WatchInv
  OBVIOUS
<1>1. 0 \in Ages /\ pushed = 0
  BY WatchdogAssumption DEF Ages, Init
<1>2. TypeOK
  <2>1. elapsed \in [Calls -> Ages] /\ call \in [Calls -> {"idle", "running", "killed", "ended"}]
    BY <1>1 DEF Init
  <2>2. DOMAIN timers = {} /\ DOMAIN victims = {}
    BY DEF Init
  <2>3. timers \in [DOMAIN timers -> Timer] /\ victims \in [DOMAIN victims -> Bash]
    BY <2>2 DEF Init
  <2> QED BY <1>1, <2>1, <2>2, <2>3 DEF Init, TypeOK
<1> QED BY <1>2 DEF Init, WatchInv, LinesTell, TimersTell, TimersLag, TickerBusy, SignalsTell

\* The clock stops mattering past the timeout.
LEMMA OlderAge ==
  /\ \A age \in Ages : Older(age) \in Ages
  /\ \A a, b \in Ages : a <= b => Older(a) <= Older(b)
  /\ \A age \in Ages : age > Timeout => Older(age) > Timeout
BY WatchdogAssumption DEF Older, Ages

-----------------------------------------------------------------------------
(* The agent and the clock. *)

LEMMA StartKeeps ==
  ASSUME WatchInv, NEW c \in Calls, StartCall(c)
  PROVE  WatchInv'
<1>1. /\ call[c] = "idle" /\ call' = [call EXCEPT ![c] = "running"]
      /\ UNCHANGED <<elapsed, pushed, timers, ticker, victims, givenUp>>
      /\ \A line \in tasks' : line \in tasks \/ (line = <<"start", c>> /\ c \in Bash)
  BY DEF StartCall
<1>2. tasks' \subseteq Lines
  BY <1>1 DEF WatchInv, TypeOK, Lines
<1>3. TypeOK'
  BY <1>1, <1>2 DEF WatchInv, TypeOK
<1>4. LinesTell'
  <2> SUFFICES ASSUME NEW d \in Calls
               PROVE  /\ <<"start", d>> \in tasks' => d \in Bash /\ call'[d] # "idle"
                      /\ <<"result", d>> \in tasks' => call'[d] = "ended"
    BY DEF LinesTell
  <2>1. <<"result", d>> \in tasks' => <<"result", d>> \in tasks
    BY <1>1
  <2>2. <<"start", d>> \in tasks' => <<"start", d>> \in tasks \/ (d = c /\ c \in Bash)
    BY <1>1
  <2> QED BY <1>1, <2>1, <2>2 DEF WatchInv, TypeOK, LinesTell
<1>5. TimersTell' /\ TimersLag'
  BY <1>1 DEF WatchInv, TypeOK, TimersTell, TimersLag
<1>6. SignalsTell'
  BY <1>1, WatchdogAssumption DEF WatchInv, TypeOK, SignalsTell, Overdue
<1> QED BY <1>1, <1>3, <1>4, <1>5, <1>6 DEF WatchInv, TickerBusy

LEMMA EndKeeps ==
  ASSUME WatchInv, NEW c \in Calls, EndCall(c)
  PROVE  WatchInv'
<1>1. /\ call[c] # "idle" /\ call' = [call EXCEPT ![c] = "ended"]
      /\ UNCHANGED <<elapsed, pushed, timers, ticker, victims, givenUp>>
      /\ tasks' = tasks \cup {<<"result", c>>}
  BY DEF EndCall
<1>2. TypeOK'
  BY <1>1 DEF WatchInv, TypeOK, Lines
<1>3. LinesTell'
  <2> SUFFICES ASSUME NEW d \in Calls
               PROVE  /\ <<"start", d>> \in tasks' => d \in Bash /\ call'[d] # "idle"
                      /\ <<"result", d>> \in tasks' => call'[d] = "ended"
    BY DEF LinesTell
  <2>1. <<"start", d>> \in tasks' => <<"start", d>> \in tasks
    BY <1>1
  <2>2. <<"result", d>> \in tasks' => <<"result", d>> \in tasks \/ d = c
    BY <1>1
  <2> QED BY <1>1, <2>1, <2>2 DEF WatchInv, TypeOK, LinesTell
<1>4. TimersTell' /\ TimersLag'
  BY <1>1, Numbered DEF WatchInv, TypeOK, TimersTell, TimersLag
<1>5. SignalsTell'
  BY <1>1, WatchdogAssumption DEF WatchInv, TypeOK, SignalsTell, Overdue
<1> QED BY <1>1, <1>2, <1>3, <1>4, <1>5 DEF WatchInv, TickerBusy

LEMMA TimePassesKeeps == ASSUME WatchInv, PassTime PROVE WatchInv'
<1>1. /\ UNCHANGED <<call, tasks, pushed, ticker, victims, givenUp>>
      /\ \A c \in Calls : elapsed'[c] = IF call[c] = "running" THEN Older(elapsed[c]) ELSE elapsed[c]
      /\ elapsed' = [c \in Calls |-> elapsed'[c]]
  BY DEF PassTime
<1>2. DOMAIN timers' = DOMAIN timers /\ timers' = [n \in DOMAIN timers |-> timers'[n]]
  BY DEF PassTime
<1>3. \A n \in DOMAIN timers : /\ timers'[n] \in Timer /\ timers'[n].call = timers[n].call
                               /\ timers'[n].age = Older(timers[n].age) /\ timers[n].age \in Ages
                               /\ timers[n].call \in Calls
  BY Numbered, OlderAge, WatchdogAssumption DEF PassTime, WatchInv, Timer
<1>4. TypeOK'
  <2>1. elapsed' \in [Calls -> Ages]
    BY <1>1, OlderAge DEF WatchInv, TypeOK
  <2>2. timers' \in [DOMAIN timers' -> Timer]
    BY <1>2, <1>3
  <2> QED BY <1>1, <1>2, <2>1, <2>2 DEF WatchInv, TypeOK
<1>5. LinesTell' /\ TimersTell' /\ TickerBusy'
  BY <1>1, <1>2, <1>3 DEF WatchInv, LinesTell, TimersTell, TickerBusy
<1>6. TimersLag'
  <2>1. ASSUME NEW n \in DOMAIN timers', call'[timers'[n].call] = "running"
        PROVE  timers'[n].age <= elapsed'[timers'[n].call]
    <3>1. timers[n].age <= elapsed[timers[n].call] /\ elapsed[timers[n].call] \in Ages
      BY <1>1, <1>2, <1>3, <2>1 DEF WatchInv, TypeOK, TimersLag
    <3>2. elapsed'[timers[n].call] = Older(elapsed[timers[n].call])
      BY <1>1, <1>2, <1>3, <2>1
    <3> QED BY <1>2, <1>3, <3>1, <3>2, OlderAge
  <2>2. ASSUME NEW n \in DOMAIN victims', call'[victims'[n]] = "running"
        PROVE  elapsed'[victims'[n]] > Timeout
    <3>1. victims[n] \in Calls /\ elapsed[victims[n]] > Timeout /\ elapsed[victims[n]] \in Ages
      BY <1>1, <2>2, WatchdogAssumption DEF WatchInv, TypeOK, TimersLag
    <3> QED BY <1>1, <2>2, <3>1, OlderAge
  <2> QED BY <2>1, <2>2 DEF TimersLag
<1>7. SignalsTell'
  <2> SUFFICES ASSUME NEW given \in givenUp PROVE given[2] \in Bash /\ Overdue(given[2])'
    BY <1>1 DEF SignalsTell
  <2>1. given[2] \in Bash /\ given[2] \in Calls /\ Overdue(given[2]) /\ elapsed[given[2]] \in Ages
    BY WatchdogAssumption DEF WatchInv, TypeOK, SignalsTell
  <2> QED BY <1>1, <2>1, OlderAge DEF Overdue
<1> QED BY <1>4, <1>5, <1>6, <1>7 DEF WatchInv

-----------------------------------------------------------------------------
(* The tasks. *)

LEMMA HandleKeeps ==
  ASSUME WatchInv, NEW line, Handle(line)
  PROVE  /\ UNCHANGED <<call, elapsed, ticker, victims, givenUp>> /\ tasks' \subseteq tasks
         /\ LinesTell' /\ SignalsTell'
BY DEF WatchInv, Handle, LinesTell, SignalsTell, Overdue

LEMMA TimerStartsKeeps ==
  ASSUME WatchInv, NEW c \in Calls, OnToolCallStarted(c)
  PROVE  WatchInv'
<1>1. /\ UNCHANGED <<call, elapsed, ticker, victims, givenUp>> /\ tasks' \subseteq tasks
      /\ LinesTell' /\ SignalsTell'
  BY HandleKeeps DEF OnToolCallStarted
<1>2. c \in Bash /\ call[c] # "idle"
  BY DEF OnToolCallStarted, Handle, WatchInv, LinesTell
<1>3. /\ pushed \in Nat /\ pushed' = pushed + 1 /\ DOMAIN timers \subseteq 1..pushed
      /\ DOMAIN timers' = DOMAIN timers \cup {pushed + 1}
      /\ \A n \in DOMAIN timers : timers'[n] = timers[n] /\ timers[n] \in Timer
      /\ timers'[pushed + 1] = [call |-> c, age |-> 0]
      /\ timers' = [n \in DOMAIN timers \cup {pushed + 1} |-> timers'[n]]
  BY Numbered DEF OnToolCallStarted, WatchInv, TypeOK
<1>4. [call |-> c, age |-> 0] \in Timer
  BY <1>2, WatchdogAssumption DEF Timer, Ages
<1>5. TypeOK'
  <2>1. pushed' \in Nat /\ DOMAIN timers' \subseteq 1..pushed' /\ 1..pushed \subseteq 1..pushed'
    BY <1>3
  <2>2. timers' \in [DOMAIN timers' -> Timer]
    BY <1>3, <1>4
  <2> QED BY <1>1, <2>1, <2>2 DEF WatchInv, TypeOK
<1>6. TimersTell'
  BY <1>1, <1>2, <1>3 DEF WatchInv, TimersTell
<1>7. TimersLag'
  <2>1. 0 <= elapsed[c]
    BY DEF WatchInv, TypeOK, Ages
  <2> QED BY <1>1, <1>3, <2>1 DEF WatchInv, TimersLag
<1> QED BY <1>1, <1>5, <1>6, <1>7 DEF WatchInv, TickerBusy

LEMMA TimerCancelledKeeps ==
  ASSUME WatchInv, NEW c \in Calls, OnToolCallFinished(c)
  PROVE  WatchInv'
<1>1. /\ UNCHANGED <<call, elapsed, ticker, victims, givenUp>> /\ tasks' \subseteq tasks
      /\ LinesTell' /\ SignalsTell' /\ UNCHANGED pushed
  BY HandleKeeps DEF OnToolCallFinished
<1>2. /\ DOMAIN timers' \subseteq DOMAIN timers
      /\ \A n \in DOMAIN timers' : timers'[n] = timers[n]
  BY RemovedFirst, Numbered DEF OnToolCallFinished, CancelTimer, CancelOldestTimer, WatchInv
<1>3. timers' = [n \in DOMAIN timers' |-> timers'[n]]
  BY DEF OnToolCallFinished, CancelTimer, CancelOldestTimer, RemoveFirst, Restrict, WatchInv, TypeOK
<1>4. TypeOK'
  <2>1. timers' \in [DOMAIN timers' -> Timer]
    BY <1>2, <1>3, Numbered DEF WatchInv
  <2> QED BY <1>1, <1>2, <2>1 DEF WatchInv, TypeOK
<1>5. TimersTell' /\ TimersLag'
  BY <1>1, <1>2 DEF WatchInv, TimersTell, TimersLag
<1> QED BY <1>1, <1>4, <1>5 DEF WatchInv, TickerBusy

-----------------------------------------------------------------------------
(* The ticker. *)

LEMMA CheckKeeps == ASSUME WatchInv, CheckTimeouts PROVE WatchInv'
<1>1. /\ UNCHANGED <<call, elapsed, tasks, pushed, givenUp>> /\ ticker' = "term"
      /\ TimedOut # {} /\ TimedOut \subseteq DOMAIN timers
      /\ timers' = [n \in DOMAIN timers \ TimedOut |-> timers[n]]
      /\ victims' = [n \in TimedOut |-> timers[n].call]
  BY DEF CheckTimeouts, TimedOut, Restrict
<1>2. \A n \in TimedOut : timers[n].age > Timeout /\ timers[n] \in Timer /\ timers[n].call \in Bash
  BY Numbered DEF TimedOut, Due, WatchInv
<1>3. TypeOK'
  <2>1. /\ DOMAIN timers' = DOMAIN timers \ TimedOut /\ timers' \in [DOMAIN timers' -> Timer]
    BY <1>1, Numbered DEF WatchInv
  <2>2. DOMAIN victims' = TimedOut /\ victims' \in [DOMAIN victims' -> Bash]
    BY <1>1, <1>2
  <2> QED BY <1>1, <2>1, <2>2 DEF WatchInv, TypeOK
<1>4. LinesTell' /\ TimersTell' /\ TickerBusy' /\ SignalsTell'
  BY <1>1 DEF WatchInv, LinesTell, TimersTell, TickerBusy, SignalsTell, Overdue
<1>5. TimersLag'
  <2>1. ASSUME NEW n \in DOMAIN victims', call'[victims'[n]] = "running"
        PROVE  elapsed'[victims'[n]] > Timeout
    <3>1. n \in TimedOut /\ victims'[n] = timers[n].call
      BY <1>1, <2>1
    <3>2. timers[n].age <= elapsed[timers[n].call]
      BY <1>1, <2>1, <3>1 DEF WatchInv, TimersLag
    <3>3. elapsed[timers[n].call] \in Ages /\ timers[n].age \in Ages
      BY <1>2, <3>1, WatchdogAssumption DEF WatchInv, TypeOK, Timer
    <3>4. elapsed[timers[n].call] > Timeout
      BY <1>2, <3>1, <3>2, <3>3, WatchdogAssumption DEF Ages
    <3> QED BY <1>1, <3>1, <3>4
  <2> QED BY <1>1, <2>1 DEF WatchInv, TimersLag
<1> QED BY <1>3, <1>4, <1>5 DEF WatchInv

\* A signal for a call that was due ends running calls and nothing else.
Killing == \E c \in Bash : Overdue(c) /\ \E hit \in SUBSET Running(c) : Kill(hit)

LEMMA KillingMoves ==
  ASSUME WatchInv, Killing
  PROVE  /\ call' \in [Calls -> {"idle", "running", "killed", "ended"}]
         /\ \A c \in Calls : call'[c] = call[c] \/ (call'[c] = "killed" /\ call[c] = "running")
<1>0. PICK c \in Bash : \E hit \in SUBSET Running(c) : Kill(hit)
  BY DEF Killing
<1>1. PICK hit \in SUBSET Running(c) : Kill(hit)
  BY <1>0
<1>2. \A d \in hit : call[d] = "running"
  BY <1>1 DEF Running
<1> QED BY <1>1, <1>2 DEF Kill, WatchInv, TypeOK

LEMMA KillingKeeps ==
  ASSUME WatchInv, Killing, UNCHANGED <<elapsed, tasks, pushed, timers>>,
         ticker' \in {"sleep", "term", "kill", "aborted"}, TickerBusy',
         victims' \in [DOMAIN victims' -> Bash], DOMAIN victims' \subseteq DOMAIN victims,
         \A n \in DOMAIN victims' : victims'[n] = victims[n],
         \A given \in givenUp' : given \in givenUp \/
           \E signal \in {"term", "kill"}, n \in DOMAIN victims : given = <<signal, victims[n]>>
  PROVE  WatchInv'
<1>1. \A n \in DOMAIN timers : timers[n].call \in Calls
  BY Numbered, WatchdogAssumption DEF WatchInv
<1>2. \A n \in DOMAIN victims : victims[n] \in Bash /\ victims[n] \in Calls /\ Overdue(victims[n])
  BY WatchdogAssumption DEF WatchInv, TypeOK, TimersTell, TimersLag, Overdue
<1>3. givenUp' \subseteq Signals
  BY <1>2 DEF Signals, WatchInv, TypeOK
<1>4. TypeOK'
  BY <1>3, KillingMoves DEF WatchInv, TypeOK
<1>5. LinesTell' /\ TimersTell' /\ TimersLag'
  BY <1>1, <1>2, KillingMoves DEF WatchInv, LinesTell, TimersTell, TimersLag
<1>6. \A given \in givenUp' : given[2] \in Bash /\ given[2] \in Calls /\ Overdue(given[2])
  BY <1>2, WatchdogAssumption DEF WatchInv, SignalsTell
<1>7. SignalsTell'
  BY <1>6, KillingMoves DEF SignalsTell, Overdue
<1> QED BY <1>4, <1>5, <1>7 DEF WatchInv

\* The ticker sends its signals for the command of a victim.
LEMMA VictimIsDue ==
  ASSUME WatchInv, ticker \in {"term", "kill"}
  PROVE  victim \in DOMAIN victims /\ victims[victim] \in Bash /\ Overdue(victims[victim])
<1>1. victim \in DOMAIN victims
  BY FirstEntry, Numbered DEF WatchInv, TickerBusy, victim
<1> QED BY <1>1 DEF WatchInv, TypeOK, TimersTell, TimersLag, Overdue

LEMMA TermKeeps == ASSUME WatchInv, SendTerm PROVE Killing /\ WatchInv'
<1>1. Killing
  BY VictimIsDue DEF SendTerm, Killing, Matching
<1>2. ticker' = "kill" /\ UNCHANGED <<elapsed, tasks, pushed, timers, victims>> /\ DOMAIN victims # {}
  BY VictimIsDue DEF SendTerm
<1>3. \A given \in givenUp' : given \in givenUp \/ given = <<"term", victims[victim]>>
  BY DEF SendTerm, GiveUp
<1>4. victims' \in [DOMAIN victims' -> Bash] /\ TickerBusy'
  BY <1>2 DEF WatchInv, TypeOK, TickerBusy
<1>5. victim \in DOMAIN victims
  BY VictimIsDue DEF SendTerm
<1> QED BY <1>1, <1>2, <1>3, <1>4, <1>5, KillingKeeps

LEMMA KillKeeps == ASSUME WatchInv, SendKill PROVE Killing /\ WatchInv'
<1>1. victim \in DOMAIN victims /\ victims[victim] \in Bash /\ Overdue(victims[victim])
  BY VictimIsDue DEF SendKill
<1>2. \E hit \in SUBSET Matching : Kill(hit)
  BY DEF SendKill
<1>3. Killing
  BY <1>1, <1>2 DEF Killing, Matching
<1>4. /\ UNCHANGED <<elapsed, tasks, pushed, timers>>
      /\ victims' = [n \in DOMAIN victims \ {victim} |-> victims[n]]
      /\ ticker' = IF DOMAIN victims' = {} THEN "sleep" ELSE "term"
  BY DEF SendKill, NextVictim, Restrict
<1>5. TickerBusy' /\ victims' \in [DOMAIN victims' -> Bash]
  BY <1>4 DEF TickerBusy, WatchInv, TypeOK
<1>6. \A given \in givenUp' : given \in givenUp \/ given = <<"kill", victims[victim]>>
  BY DEF SendKill, GiveUp
<1> QED BY <1>1, <1>3, <1>4, <1>5, <1>6, KillingKeeps

LEMMA LateKeeps == ASSUME WatchInv, LateSignal PROVE Killing /\ WatchInv'
<1>1. Killing
  BY DEF LateSignal, Killing, WatchInv, SignalsTell
<1>2. UNCHANGED <<elapsed, tasks, pushed, timers, ticker, victims, givenUp>>
  BY DEF LateSignal
<1>3. TickerBusy' /\ victims' \in [DOMAIN victims' -> Bash]
  BY <1>2 DEF TickerBusy, WatchInv, TypeOK
<1>4. ticker' \in {"sleep", "term", "kill", "aborted"}
  BY <1>2 DEF WatchInv, TypeOK
<1> QED BY <1>1, <1>2, <1>3, <1>4, KillingKeeps

LEMMA CloseKeeps == ASSUME WatchInv, Close PROVE WatchInv'
<1>1. /\ DOMAIN timers' = {} /\ DOMAIN victims' = {} /\ ticker' = "aborted"
      /\ UNCHANGED <<call, elapsed, tasks, pushed, givenUp>>
  BY DEF Close
<1>2. timers' \in [DOMAIN timers' -> Timer] /\ victims' \in [DOMAIN victims' -> Bash]
  BY <1>1 DEF Close
<1>3. SignalsTell'
  BY <1>1 DEF WatchInv, SignalsTell, Overdue
<1> QED BY <1>1, <1>2, <1>3 DEF WatchInv, TypeOK, LinesTell, TimersTell, TimersLag, TickerBusy

LEMMA WatchNext == WatchInv /\ [Next]_vars => WatchInv'
<1> SUFFICES ASSUME WatchInv, [Next]_vars PROVE WatchInv'
  OBVIOUS
<1>1. CASE \E c \in Calls : StartCall(c) \/ EndCall(c)
  BY <1>1, StartKeeps, EndKeeps
<1>2. CASE \E c \in Calls : OnToolCallStarted(c) \/ OnToolCallFinished(c)
  BY <1>2, TimerStartsKeeps, TimerCancelledKeeps
<1>3. CASE PassTime \/ CheckTimeouts \/ Close
  BY <1>3, TimePassesKeeps, CheckKeeps, CloseKeeps
<1>4. CASE SendTerm \/ SendKill \/ LateSignal
  BY <1>4, TermKeeps, KillKeeps, LateKeeps
<1>5. CASE UNCHANGED vars
  BY <1>5 DEF vars, WatchInv, TypeOK, LinesTell, TimersTell, TimersLag, TickerBusy,
              SignalsTell, Overdue
<1> QED BY <1>1, <1>2, <1>3, <1>4, <1>5 DEF Next

THEOREM WatchInvariant == Spec => []WatchInv
BY WatchInitially, WatchNext, PTL DEF Spec

\* Every variable of the watchdog keeps its type, for any number of calls.
THEOREM WatchTypeCorrect == Spec => []TypeOK
<1>1. WatchInv => TypeOK
  BY DEF WatchInv
<1> QED BY <1>1, WatchInvariant, PTL

-----------------------------------------------------------------------------
(* Who is killed. *)

\* pkill -f finds nothing but the processes of the command it is given.
FindsNoOther == \A c \in Calls : Found[c] \subseteq {c}

\* Only a kill of the ticker makes a call killed.
LEMMA OnlyKillingKills ==
  ASSUME WatchInv, [Next]_vars, NEW c \in Calls, call[c] = "running", call'[c] = "killed"
  PROVE  Killing
<1>1. CASE \E d \in Calls : StartCall(d) \/ EndCall(d)
  BY <1>1 DEF StartCall, EndCall, WatchInv, TypeOK
<1>2. CASE \E d \in Calls : OnToolCallStarted(d) \/ OnToolCallFinished(d)
  BY <1>2 DEF OnToolCallStarted, OnToolCallFinished, Handle
<1>3. CASE PassTime \/ CheckTimeouts \/ Close \/ UNCHANGED vars
  BY <1>3 DEF PassTime, CheckTimeouts, Close, vars
<1>4. CASE SendTerm \/ SendKill \/ LateSignal
  BY <1>4, TermKeeps, KillKeeps, LateKeeps
<1> QED BY <1>1, <1>2, <1>3, <1>4 DEF Next

\* A call that the watchdog kills has run for longer than the timeout, in whatever
\* order start and result lines were handled: its timer started after it did, and
\* the kill was decided for it (check_timeouts, kill_process_by_command).
THEOREM KillsAreOverdue == ASSUME FindsNoOther PROVE Spec => KillsOnlyOverdue
<1>1. WatchInv /\ [Next]_vars =>
        [\A c \in Calls : call[c] = "running" /\ call'[c] = "killed" => elapsed[c] > Timeout]_vars
  <2> SUFFICES ASSUME WatchInv, [Next]_vars, NEW c \in Calls, call[c] = "running", call'[c] = "killed"
               PROVE  elapsed[c] > Timeout
    OBVIOUS
  <2>1. Killing
    BY OnlyKillingKills
  <2>2. PICK d \in Bash : Overdue(d) /\ \E hit \in SUBSET Running(d) : Kill(hit)
    BY <2>1 DEF Killing
  <2>3. c \in Running(d) /\ d \in Calls
    BY <2>2, WatchdogAssumption DEF Kill
  <2>4. d = c
    BY <2>3 DEF Running, FindsNoOther
  <2> QED BY <2>2, <2>4 DEF Overdue
<1> QED BY <1>1, WatchInvariant, PTL DEF Spec, KillsOnlyOverdue

-----------------------------------------------------------------------------
(* Who is watched. *)

\* pkill -f finds the process of the command it is given.
FindsItsOwn == \A c \in Calls : c \in Found[c]

LEMMA WatchedNext ==
  ASSUME ResultIds, FindsItsOwn, WatchInv, RunningCallIsWatched, [Next]_vars
  PROVE  RunningCallIsWatched'
<1> SUFFICES ASSUME open', NEW c \in Bash, call'[c] = "running", <<"start", c>> \notin tasks'
             PROVE  \/ \E n \in DOMAIN timers' : timers'[n].call = c
                    \/ \E n \in DOMAIN victims' : victims'[n] = c
                    \/ <<"kill", c>> \in givenUp'
  BY DEF RunningCallIsWatched
<1>0. c \in Calls /\ DOMAIN timers \subseteq Nat
  BY WatchdogAssumption, Numbered DEF WatchInv
<1>1. CASE \E d \in Calls : StartCall(d)
  <2>1. PICK d \in Calls : StartCall(d)
    BY <1>1
  <2>2. d # c
    BY <2>1 DEF StartCall
  <2>3. call[c] = "running" /\ <<"start", c>> \notin tasks /\ open /\ UNCHANGED <<timers, victims, givenUp>>
    BY <1>0, <2>1, <2>2 DEF StartCall, WatchInv, TypeOK
  <2> QED BY <2>3 DEF RunningCallIsWatched
<1>2. CASE \E d \in Calls : EndCall(d)
  <2>1. PICK d \in Calls : EndCall(d)
    BY <1>2
  <2>2. call[c] = "running" /\ <<"start", c>> \notin tasks /\ open /\ UNCHANGED <<timers, victims, givenUp>>
    BY <1>0, <2>1 DEF EndCall, WatchInv, TypeOK
  <2> QED BY <2>2 DEF RunningCallIsWatched
<1>3. CASE PassTime \/ UNCHANGED vars
  <2>1. /\ call[c] = "running" /\ <<"start", c>> \notin tasks /\ open /\ UNCHANGED <<victims, givenUp>>
        /\ DOMAIN timers' = DOMAIN timers
        /\ \A n \in DOMAIN timers : timers'[n].call = timers[n].call
    BY <1>3, Numbered DEF PassTime, vars, open, WatchInv, Timer
  <2> QED BY <2>1 DEF RunningCallIsWatched
<1>4. CASE \E d \in Calls : OnToolCallStarted(d)
  <2>1. PICK d \in Calls : OnToolCallStarted(d)
    BY <1>4
  <2>2. /\ call[c] = "running" /\ open /\ UNCHANGED <<victims, givenUp>>
        /\ tasks' = tasks \ {<<"start", d>>}
    BY <2>1 DEF OnToolCallStarted, Handle, open
  <2>3. /\ DOMAIN timers' = DOMAIN timers \cup {pushed + 1}
        /\ \A n \in DOMAIN timers : timers'[n] = timers[n]
        /\ timers'[pushed + 1].call = d
    BY <2>1, Numbered DEF OnToolCallStarted, WatchInv
  <2>4. CASE d = c
    BY <2>3, <2>4
  <2>5. CASE d # c
    <3>1. <<"start", c>> \notin tasks
      BY <2>2, <2>5
    <3> QED BY <2>2, <2>3, <3>1 DEF RunningCallIsWatched
  <2> QED BY <2>4, <2>5
<1>5. CASE \E d \in Calls : OnToolCallFinished(d)
  <2>1. PICK d \in Calls : OnToolCallFinished(d)
    BY <1>5
  <2>2. /\ call[c] = "running" /\ open /\ UNCHANGED <<victims, givenUp>> /\ call[d] = "ended"
        /\ <<"start", c>> \notin tasks
    BY <2>1 DEF OnToolCallFinished, Handle, open, WatchInv, LinesTell
  <2> DEFINE its == {n \in DOMAIN timers : timers[n].call = d}
  <2>3. timers' = RemoveFirst(timers, its)
    BY <2>1 DEF OnToolCallFinished, CancelTimer
  <2>4. \A n \in DOMAIN timers : timers[n].call = c => n \in DOMAIN timers' /\ timers'[n] = timers[n]
    BY <1>0, <2>2, <2>3, RemovedFirst
  <2> QED BY <2>2, <2>4 DEF RunningCallIsWatched
<1>6. CASE CheckTimeouts
  <2>1. /\ call[c] = "running" /\ open /\ <<"start", c>> \notin tasks /\ DOMAIN victims = {}
        /\ givenUp' = givenUp
        /\ timers' = [n \in DOMAIN timers \ TimedOut |-> timers[n]]
        /\ victims' = [n \in TimedOut |-> timers[n].call]
    BY <1>6 DEF CheckTimeouts, Restrict, open, WatchInv, TickerBusy
  <2>2. (\E n \in DOMAIN timers : timers[n].call = c) \/ <<"kill", c>> \in givenUp
    BY <2>1 DEF RunningCallIsWatched
  <2> QED BY <2>1, <2>2
<1>7. CASE SendTerm \/ LateSignal
  <2>1. /\ call[c] = "running" /\ open /\ <<"start", c>> \notin tasks
        /\ UNCHANGED <<timers, victims>> /\ givenUp \subseteq givenUp'
    BY <1>0, <1>7 DEF SendTerm, LateSignal, Kill, GiveUp, open
  <2> QED BY <2>1 DEF RunningCallIsWatched
<1>8. CASE SendKill
  <2>1. /\ call[c] = "running" /\ open /\ <<"start", c>> \notin tasks /\ UNCHANGED timers
        /\ givenUp \subseteq givenUp'
        /\ victims' = [n \in DOMAIN victims \ {victim} |-> victims[n]]
    BY <1>0, <1>8 DEF SendKill, Kill, GiveUp, NextVictim, Restrict, open
  <2>2. victims[victim] = c => <<"kill", c>> \in givenUp'
    <3>1. CASE GiveUp("kill")
      BY <3>1 DEF GiveUp
    <3>2. CASE Kill(Matching)
      BY <1>0, <2>1, <3>2 DEF Kill, Matching, Running, FindsItsOwn
    <3> QED BY <1>8, <3>1, <3>2 DEF SendKill
  <2> QED BY <2>1, <2>2 DEF RunningCallIsWatched
<1>9. CASE Close
  BY <1>9 DEF Close, open
<1> QED BY <1>1, <1>2, <1>3, <1>4, <1>5, <1>6, <1>7, <1>8, <1>9 DEF Next

\* Where results carry ids and pkill finds a command by its first line: as soon as
\* its start was seen, a running shell command has a timer or is being killed,
\* whatever other calls start and end meanwhile (cancel_timer, check_timeouts), or
\* the docker exec of its SIGKILL failed (kill_process_by_command).
THEOREM RunningCallsAreWatched ==
  ASSUME ResultIds, FindsItsOwn PROVE Spec => []RunningCallIsWatched
<1>1. Init => RunningCallIsWatched
  BY WatchdogAssumption DEF Init, RunningCallIsWatched
<1>2. WatchInv /\ RunningCallIsWatched /\ [Next]_vars => RunningCallIsWatched'
  BY WatchedNext
<1> QED BY <1>1, <1>2, WatchInvariant, PTL DEF Spec
=============================================================================
