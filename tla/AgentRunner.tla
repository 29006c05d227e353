---------------------------- MODULE AgentRunner ----------------------------
(***************************************************************************)
(* AgentRunner: one process that runs tick after tick in one artifact      *)
(* directory, is asked to stop by a signal or by stop(), cools down after  *)
(* failures, and after a crash takes up the tick count again from the      *)
(* replay files it left behind.  The ticks are run()'s, or those of a host *)
(* (a web server, a queue consumer, the facade) that calls tick() itself.  *)
(*                                                                         *)
(* Other threads (signal handlers, stop()) act between any two steps; the  *)
(* session of a tick is what RuntimeSession describes and is one step here.*)
(***************************************************************************)
EXTENDS Integers, Sequences, SequencesExt

CONSTANTS
  MaxTicks,    \* max_ticks of run(), 0 for no limit
  Threshold,   \* circuit_breaker_threshold, 0 for no breaker
  HistorySize, \* maxlen of _tick_history
  KeepsGoing,  \* does a host call tick() again after one that raised?
  LastTick,    \* bound: ticks that leave a replay
  MaxCrashes   \* bound: deaths of the process

ASSUME RunnerAssumption ==
  /\ MaxTicks \in Nat /\ Threshold \in Nat /\ HistorySize \in Nat \ {0}
  /\ KeepsGoing \in BOOLEAN
  /\ LastTick \in Nat /\ MaxCrashes \in Nat

VARIABLES
  phase,        \* where the process is
  hosted,       \* does a host call tick(), instead of run()?
  running,      \* _running
  tickCount,    \* _tick_count, the number of the current tick
  ticksThisRun, \* _ticks_this_run
  history,      \* _tick_history: the session statuses of the last ticks
  replays,      \* the replay files: "none", "torn" or "whole" by tick number
  stop,         \* ghost: was run() asked to stop, and before its first tick?
  failures,     \* ghost: failed ticks in a row
  crashes       \* crashes so far (bounded by MaxCrashes)

rest == <<hosted, tickCount, ticksThisRun, history, replays, stop, failures, crashes>>
vars == <<phase, running, rest>>

\* "starting": run() is called, the tick generator not yet asked for a tick.
\* InTick: inside tick().  "reported": tick() returned.
InTick == {"session", "replay", "writing", "written"}
Up == InTick \union {"starting", "loop", "reported", "cooldown", "sleep"}
Phases == Up \union {"down", "constructed", "stopped"}
Numbers == 1 .. LastTick

TypeOK ==
  /\ phase \in Phases
  /\ running \in BOOLEAN /\ hosted \in BOOLEAN
  /\ tickCount \in 0 .. LastTick
  /\ ticksThisRun \in 0 .. LastTick
  /\ history \in Seq({"complete", "failed"}) /\ Len(history) <= HistorySize
  /\ replays \in [Numbers -> {"none", "torn", "whole"}]
  /\ stop \in {"no", "early", "late"}
  /\ failures \in 0 .. LastTick
  /\ crashes \in 0 .. MaxCrashes

Init ==
  /\ phase = "down"
  /\ hosted = FALSE
  /\ running = FALSE
  /\ tickCount = 0 /\ ticksThisRun = 0
  /\ history = <<>>
  /\ replays = [n \in Numbers |-> "none"]
  /\ stop = "no"
  /\ failures = 0
  /\ crashes = 0

-----------------------------------------------------------------------------

Files == {n \in Numbers : replays[n] # "none"}

\* Mutant: crash recovery leaves out a replay that was cut short.
RecoveredFromWhole == Cardinality({n \in Numbers : replays[n] = "whole"})

\* Mutant: the last file's index, from 0, for its number.
RecoveredIndex == IF Files = {} THEN 0 ELSE Cardinality(Files) - 1

\* Crash recovery counts the replay files, whole or not.
Recovered == Cardinality(Files)

\* __init__.
Boot ==
  /\ phase = "down"
  /\ phase' = "constructed"
  /\ hosted' \in BOOLEAN
  /\ running' = FALSE
  /\ tickCount' = Recovered
  /\ ticksThisRun' = 0
  /\ history' = <<>>
  /\ stop' = "no"
  /\ failures' = 0
  /\ UNCHANGED <<replays, crashes>>

\* run() up to its for loop: the signal handlers are in place.
Start ==
  /\ phase = "constructed" /\ ~hosted
  /\ phase' = "starting"
  /\ running' = TRUE
  /\ UNCHANGED rest

\* The generator's first statement sets _running again, whatever came before.
EnterGenerator ==
  /\ phase = "starting"
  /\ phase' = "loop"
  /\ running' = TRUE
  /\ UNCHANGED rest

\* Mutant: one tick more than max_ticks.
TicksLeftLate == MaxTicks = 0 \/ ticksThisRun <= MaxTicks

TicksLeft == MaxTicks = 0 \/ ticksThisRun < MaxTicks

\* tick() numbers the tick before anything else.
EnterTick ==
  /\ tickCount < LastTick /\ ticksThisRun < LastTick
  /\ phase' = "session"
  /\ tickCount' = tickCount + 1
  /\ ticksThisRun' = ticksThisRun + 1
  /\ UNCHANGED <<hosted, running, history, replays, stop, failures, crashes>>

BeginTick ==
  /\ phase = "loop"
  /\ running /\ TicksLeft
  /\ EnterTick

\* A host calls tick(), which looks at neither _running nor max_ticks.
HostTick ==
  /\ phase = "constructed" /\ hosted
  /\ EnterTick

\* The generator ends, or the for loop breaks after a tick: the finally of run().
EndRun ==
  /\ \/ phase = "loop" /\ ~(running /\ TicksLeft)
     \/ phase = "reported" /\ ~running
  /\ phase' = "stopped"
  /\ UNCHANGED <<running, rest>>

\* The session was run and the tick's memory written.
RunSession ==
  /\ phase = "session"
  /\ phase' = "replay"
  /\ UNCHANGED <<running, rest>>

\* write_text empties the file of this tick's number ...
OpenReplay ==
  /\ phase = "replay"
  /\ phase' = "writing"
  /\ replays' = [replays EXCEPT ![tickCount] = "torn"]
  /\ UNCHANGED <<hosted, running, tickCount, ticksThisRun, history, stop, failures, crashes>>

\* ... and fills it.
FillReplay ==
  /\ phase = "writing"
  /\ phase' = "written"
  /\ replays' = [replays EXCEPT ![tickCount] = "whole"]
  /\ UNCHANGED <<hosted, running, tickCount, ticksThisRun, history, stop, failures, crashes>>

\* A planner, a router, a disk or the self-evaluation raises: so does run(),
\* while a host may answer the error and keep the runner.
TickRaises ==
  /\ phase \in InTick
  /\ phase' = IF hosted /\ KeepsGoing THEN "constructed" ELSE "stopped"
  /\ UNCHANGED <<running, rest>>

\* Mutant: a list for the deque.
RememberAll(status) == history' = Append(history, status)

\* A deque drops its oldest element.
Remember(status) ==
  LET all == Append(history, status)
  IN  history' = IF Len(all) > HistorySize THEN Tail(all) ELSE all

\* The result is entered in the history and yielded, or returned to the host.
ReportTick(status) ==
  /\ phase = "written"
  /\ phase' = IF hosted THEN "constructed" ELSE "reported"
  /\ Remember(status)
  /\ failures' = IF status = "failed" THEN failures + 1 ELSE 0
  /\ UNCHANGED <<hosted, running, tickCount, ticksThisRun, replays, stop, crashes>>

\* Mutant: the last tick alone decides.
TrippedByLast == Threshold > 0 /\ history # <<>> /\ Last(history) = "failed"

\* _check_circuit_breaker.
Tripped ==
  /\ Threshold > 0
  /\ Len(history) >= Threshold
  /\ \A i \in Len(history) - Threshold + 1 .. Len(history) : history[i] = "failed"

CoolDown ==
  /\ phase = "reported"
  /\ running
  /\ Tripped
  /\ phase' = "cooldown"
  /\ UNCHANGED <<running, rest>>

\* Between ticks: the interval is slept only if another tick may follow.
Interval ==
  /\ \/ phase = "reported" /\ running /\ ~Tripped
     \/ phase = "cooldown"
  /\ phase' = IF running /\ TicksLeft THEN "sleep" ELSE "loop"
  /\ UNCHANGED <<running, rest>>

\* Mutant: a stopped runner sleeps on.
WakeUpIfRunning ==
  /\ phase = "sleep"
  /\ running
  /\ phase' = "loop"
  /\ UNCHANGED <<running, rest>>

\* The interval is over, or the runner was asked to stop.
WakeUp ==
  /\ phase = "sleep"
  /\ phase' = "loop"
  /\ UNCHANGED <<running, rest>>

-----------------------------------------------------------------------------
(* Signals, stop() and crashes *)

\* Mutant: the request is noticed only while a tick runs.
AskToStopInTick ==
  /\ phase \in Up /\ ~hosted
  /\ running' = IF phase \in InTick THEN FALSE ELSE running
  /\ stop' = IF phase = "starting" THEN "early" ELSE "late"
  /\ UNCHANGED <<phase, hosted, tickCount, ticksThisRun, history, replays, failures, crashes>>

\* SIGINT, SIGTERM or stop().  No tick() of a host would notice.
AskToStop ==
  /\ phase \in Up /\ ~hosted
  /\ running' = FALSE
  /\ stop' = IF phase = "starting" THEN "early" ELSE "late"
  /\ UNCHANGED <<phase, hosted, tickCount, ticksThisRun, history, replays, failures, crashes>>

\* A crash, or the end of a stopped process: what is left is the directory.
Die ==
  /\ phase # "down"
  /\ crashes < MaxCrashes
  /\ phase' = "down"
  /\ crashes' = crashes + 1
  /\ UNCHANGED <<hosted, running, tickCount, ticksThisRun, history, replays, stop, failures>>

RunnerStep ==
  \/ EnterGenerator
  \/ BeginTick
  \/ EndRun
  \/ RunSession
  \/ OpenReplay
  \/ FillReplay
  \/ TickRaises
  \/ \E status \in {"complete", "failed"} : ReportTick(status)
  \/ CoolDown
  \/ Interval
  \/ WakeUp

Next == Boot \/ Start \/ HostTick \/ RunnerStep \/ AskToStop \/ Die

\* The thread in run() keeps going: every sleep has an end, and so has a session.
Spec == Init /\ [][Next]_vars /\ WF_vars(RunnerStep)

-----------------------------------------------------------------------------
(* Properties *)

\* The replay files are numbered 1, 2, ... without a gap, torn ones included,
\* through any crashes, if a runner whose tick raised is not used again: only so
\* is counting them the number of the last tick (AgentRunner.__init__, crash
\* recovery).
ReplaysContiguous ==
  /\ Files = 1 .. Cardinality(Files)
  /\ phase \in Up => tickCount \in {Cardinality(Files), Cardinality(Files) + 1}

\* A replay that was written whole is never written again, not by a later
\* process either: layer 1 of the memory is kept "Forever" (ARCHITECTURE.md).
\* It takes a host that drops a runner whose tick raised.
NoReplayOverwritten ==
  [][\A n \in Numbers : replays[n] = "whole" => replays'[n] = "whole"]_vars

\* run() makes at most max_ticks ticks, through cool-downs and early wake-ups.
TicksBounded == MaxTicks > 0 /\ ~hosted => ticksThisRun <= MaxTicks

\* The cool-down comes when, and only when, the last Threshold ticks of this
\* process failed, though only a bounded history of them is kept.
BreakerExact ==
  [][phase = "reported" /\ running /\ phase' \notin {"reported", "down"} =>
       (phase' = "cooldown" <=> Threshold > 0 /\ failures >= Threshold)]_vars

\* Once its ticks have begun, a runner that is asked to stop begins no other
\* tick ("stopping after current tick").
LateStopObeyed == [][stop = "late" => ticksThisRun' <= ticksThisRun]_vars

\* ... and stops.
LateStopEnds == stop = "late" ~> phase \notin Up

\* A runner that is asked to stop begins no other tick, whenever it was asked
\* ("Signal the runner to stop after the current tick", stop()).
NoTickAfterStop == [][stop # "no" => ticksThisRun' <= ticksThisRun]_vars
=============================================================================
