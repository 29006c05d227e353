------------------------- MODULE AgentRunner_proofs -------------------------
(***************************************************************************)
(* Theorems about AgentRunner: its types; that a late request to stop is   *)
(* obeyed, and how soon; that counting the replay files recovers the       *)
(* number of the last tick, so that no process writes over a replay of     *)
(* another, as long as a runner whose tick raised is not used again; that  *)
(* run() keeps to max_ticks; and that the bounded history decides the      *)
(* cool-down as the whole one would.                                       *)
(***************************************************************************)
EXTENDS AgentRunner, FiniteSetTheorems, TLAPS

LEMMA IntervalCardinality ==
  ASSUME NEW n \in Nat
  PROVE  IsFiniteSet(1 .. n) /\ Cardinality(1 .. n) = n
<1>1. IsFiniteSet(1 .. n) /\ Cardinality(1 .. n) = IF 1 > n THEN 0 ELSE n - 1 + 1
  BY FS_Interval
<1> QED BY <1>1

-----------------------------------------------------------------------------
(* Types *)

\* A tick that failed was begun: the failures in a row are bounded by the ticks.
TypeInv ==
  /\ TypeOK
  /\ failures <= ticksThisRun
  /\ phase \in InTick => failures < ticksThisRun

LEMMA RememberType ==
  ASSUME NEW status \in {"complete", "failed"}, Remember(status),
         history \in Seq({"complete", "failed"}), Len(history) <= HistorySize
  PROVE  history' \in Seq({"complete", "failed"}) /\ Len(history') <= HistorySize
<1> DEFINE all == Append(history, status)
<1>1. all \in Seq({"complete", "failed"}) /\ Len(all) = Len(history) + 1 /\ all # <<>>
  OBVIOUS
<1>2. Tail(all) \in Seq({"complete", "failed"}) /\ Len(Tail(all)) = Len(history)
  BY <1>1
<1>3. history' = IF Len(all) > HistorySize THEN Tail(all) ELSE all
  BY DEF Remember
<1> HIDE DEF all
<1> QED BY <1>1, <1>2, <1>3, RunnerAssumption

LEMMA TypeInit == Init => TypeInv
<1> SUFFICES ASSUME Init PROVE TypeInv
  OBVIOUS
<1>1. history \in Seq({"complete", "failed"}) /\ Len(history) <= HistorySize
  BY RunnerAssumption DEF Init
<1>2. /\ 0 \in 0 .. LastTick /\ 0 \in 0 .. MaxCrashes
      /\ replays \in [Numbers -> {"none", "torn", "whole"}]
  BY RunnerAssumption DEF Init
<1>3. phase \in Phases /\ phase \notin InTick
  BY DEF Init, Phases, InTick
<1>4. TypeOK
  BY <1>1, <1>2, <1>3 DEF Init, TypeOK
<1>5. failures <= ticksThisRun
  BY DEF Init
<1> QED BY <1>3, <1>4, <1>5 DEF TypeInv

LEMMA FilesNumber ==
  ASSUME TypeOK
  PROVE  Recovered \in 0 .. LastTick
<1>1. IsFiniteSet(Numbers) /\ Cardinality(Numbers) = LastTick
  BY IntervalCardinality, RunnerAssumption DEF Numbers
<1>2. Files \subseteq Numbers
  BY DEF Files
<1>3. /\ IsFiniteSet(Files)
      /\ Cardinality(Files) \in Nat /\ Cardinality(Files) <= Cardinality(Numbers)
  BY <1>1, <1>2, FS_Subset, FS_CardinalityType
<1> QED BY <1>1, <1>3, RunnerAssumption DEF Recovered

LEMMA TypeStep == TypeInv /\ [Next]_vars => TypeInv'
<1> SUFFICES ASSUME TypeInv, [Next]_vars PROVE TypeInv'
  OBVIOUS
<1> USE RunnerAssumption DEF TypeInv, TypeOK, Phases, Up, InTick, rest
<1>1. CASE Boot
  <2>1. tickCount' \in 0 .. LastTick
    <3>1. TypeOK
      OBVIOUS
    <3> HIDE DEF TypeInv, TypeOK
    <3> QED BY <1>1, <3>1, FilesNumber DEF Boot
  <2>2. history' \in Seq({"complete", "failed"}) /\ Len(history') <= HistorySize
    BY <1>1 DEF Boot
  <2>3. /\ phase' \in Phases /\ phase' \notin InTick /\ hosted' \in BOOLEAN /\ running' \in BOOLEAN
        /\ UNCHANGED <<replays, crashes>> /\ stop' = "no"
    BY <1>1 DEF Boot
  <2>4. /\ ticksThisRun' \in 0 .. LastTick /\ failures' \in 0 .. LastTick
        /\ failures' <= ticksThisRun'
    BY <1>1 DEF Boot
  <2> QED BY <2>1, <2>2, <2>3, <2>4
<1>2. CASE Start
  BY <1>2 DEF Start
<1>3. ASSUME EnterTick PROVE TypeInv'
  BY <1>3 DEF EnterTick
<1>4. CASE EnterGenerator
  BY <1>4 DEF EnterGenerator
<1>5. CASE EndRun
  BY <1>5 DEF EndRun
<1>6. CASE RunSession
  BY <1>6 DEF RunSession
<1>7. CASE OpenReplay
  BY <1>7 DEF OpenReplay
<1>8. CASE FillReplay
  BY <1>8 DEF FillReplay
<1>9. CASE TickRaises
  BY <1>9 DEF TickRaises
<1>10. ASSUME NEW status \in {"complete", "failed"}, ReportTick(status) PROVE TypeInv'
  <2>1. history' \in Seq({"complete", "failed"}) /\ Len(history') <= HistorySize
    BY <1>10, RememberType DEF ReportTick
  <2>2. failures' \in 0 .. LastTick /\ failures' <= ticksThisRun
    BY <1>10 DEF ReportTick
  <2> QED BY <1>10, <2>1, <2>2 DEF ReportTick
<1>11. CASE CoolDown
  BY <1>11 DEF CoolDown
<1>12. CASE Interval
  BY <1>12 DEF Interval
<1>13. CASE WakeUp
  BY <1>13 DEF WakeUp
<1>14. CASE AskToStop
  BY <1>14 DEF AskToStop
<1>15. CASE Die
  BY <1>15 DEF Die
<1>16. CASE UNCHANGED vars
  BY <1>16 DEF vars
<1> QED
  BY <1>1, <1>2, <1>3, <1>4, <1>5, <1>6, <1>7, <1>8, <1>9, <1>10, <1>11, <1>12, <1>13, <1>14,
     <1>15, <1>16 DEF Next, RunnerStep, BeginTick, HostTick

\* Every variable of the runner keeps its type.
THEOREM RunnerTypeCorrect == Spec => []TypeOK
<1>1. TypeInv => TypeOK
  BY DEF TypeInv
<1> QED
  BY <1>1, TypeInit, TypeStep, PTL DEF Spec

-----------------------------------------------------------------------------
(* Stopping *)

\* A late request to stop clears _running for good: only run() and the first
\* statement of its generator set it, and both are behind this process.
StopInv ==
  /\ hosted => stop = "no"
  /\ phase \in {"constructed", "starting"} => stop # "late"
  /\ stop = "late" => ~running

LEMMA StopStep ==
  ASSUME StopInv, [Next]_vars
  PROVE  StopInv'
<1> USE DEF StopInv, rest, InTick
<1>1. CASE Boot \/ Start \/ HostTick
  BY <1>1 DEF Boot, Start, HostTick, EnterTick
<1>2. CASE RunnerStep
  <2>1. CASE EnterGenerator
    BY <2>1 DEF EnterGenerator
  <2>2. CASE TickRaises
    BY <2>2 DEF TickRaises
  <2>3. ASSUME NEW status \in {"complete", "failed"}, ReportTick(status) PROVE StopInv'
    BY <2>3 DEF ReportTick
  <2>4. CASE BeginTick \/ EndRun \/ RunSession \/ OpenReplay \/ FillReplay
    BY <2>4 DEF BeginTick, EnterTick, EndRun, RunSession, OpenReplay, FillReplay
  <2>5. CASE CoolDown \/ Interval \/ WakeUp
    BY <2>5 DEF CoolDown, Interval, WakeUp
  <2> QED BY <1>2, <2>1, <2>2, <2>3, <2>4, <2>5 DEF RunnerStep
<1>3. CASE AskToStop
  BY <1>3 DEF AskToStop, Up
<1>4. CASE Die
  BY <1>4 DEF Die
<1>5. CASE UNCHANGED vars
  BY <1>5 DEF vars
<1> QED BY <1>1, <1>2, <1>3, <1>4, <1>5 DEF Next

\* Whoever asks run() to stop after its first tick was asked for, sees no other
\* tick begin.
THEOREM LateStopIsObeyed == Spec => LateStopObeyed
<1>1. Init => StopInv
  BY DEF Init, StopInv
<1>2. StopInv /\ [Next]_vars => StopInv'
  BY StopStep
<1>3. ASSUME TypeOK, StopInv, [Next]_vars
      PROVE  [stop = "late" => ticksThisRun' <= ticksThisRun]_vars
  <2>1. ticksThisRun \in Nat
    BY <1>3 DEF TypeOK
  <2>2. SUFFICES ASSUME stop = "late" PROVE ticksThisRun' <= ticksThisRun
    OBVIOUS
  <2>3. CASE Boot
    BY <2>1, <2>3 DEF Boot
  <2>4. ~BeginTick /\ ~HostTick
    BY <1>3, <2>2 DEF StopInv, BeginTick, HostTick
  <2>5. CASE UNCHANGED ticksThisRun
    BY <2>1, <2>5
  <2>6. Boot \/ UNCHANGED ticksThisRun
    BY <1>3, <2>4 DEF Next, Start, RunnerStep, EnterGenerator, EndRun, RunSession, OpenReplay,
       FillReplay, TickRaises, ReportTick, CoolDown, Interval, WakeUp, AskToStop, Die, vars, rest
  <2> QED BY <2>3, <2>5, <2>6
<1> QED
  BY <1>1, <1>2, <1>3, RunnerTypeCorrect, PTL DEF Spec, LateStopObeyed

-----------------------------------------------------------------------------
(* The replay files *)

\* The files are numbered from 1 to n, and the tick count is n, except inside a
\* tick that has not yet opened its own file.  A process that is not going to
\* run any more may have any count.
FilesEnd(n) ==
  /\ n \in 0 .. LastTick
  /\ \A k \in Numbers : replays[k] # "none" <=> k <= n
  /\ phase \in {"session", "replay"} => tickCount = n + 1
  /\ phase \in (Up \ {"session", "replay"}) \union {"constructed"} => tickCount = n

FilesInv ==
  /\ replays \in [Numbers -> {"none", "torn", "whole"}]
  /\ tickCount \in 0 .. LastTick
  /\ \E n \in Nat : FilesEnd(n)

LEMMA FilesEndCount ==
  ASSUME NEW n \in Nat, FilesEnd(n)
  PROVE  Files = 1 .. n /\ Recovered = n
<1>1. Files = 1 .. n
  BY RunnerAssumption DEF Files, FilesEnd, Numbers
<1> QED BY <1>1, IntervalCardinality DEF Recovered

\* A step that leaves the files and the count alone, and does not enter or leave
\* the part of a tick before its file is opened.
LEMMA FilesUntouched ==
  ASSUME FilesInv, UNCHANGED <<replays, tickCount>>,
         \/ phase' \in {"stopped", "down"}
         \/ phase = phase'
         \/ phase = "session" /\ phase' = "replay"
         \/ /\ phase \in (Up \ {"session", "replay"}) \union {"constructed"}
            /\ phase' \in (Up \ {"session", "replay"}) \union {"constructed"}
  PROVE  FilesInv'
<1>1. PICK n \in Nat : FilesEnd(n)
  BY DEF FilesInv
<1>2. FilesEnd(n)'
  BY <1>1 DEF FilesEnd, Up, InTick
<1> QED BY <1>2 DEF FilesInv

LEMMA FilesStep ==
  ASSUME KeepsGoing = FALSE, FilesInv, [Next]_vars
  PROVE  FilesInv'
<1> USE DEF rest
<1>1. PICK n \in Nat : FilesEnd(n)
  BY DEF FilesInv
<1>2. CASE Boot
  <2>1. tickCount' = n /\ UNCHANGED replays /\ phase' = "constructed"
    BY <1>1, <1>2, FilesEndCount DEF Boot
  <2>2. FilesEnd(n)'
    BY <1>1, <2>1 DEF FilesEnd, Up, InTick
  <2> QED BY <1>1, <2>1, <2>2 DEF FilesInv, FilesEnd
<1>3. ASSUME phase \in {"loop", "constructed"}, EnterTick PROVE FilesInv'
  <2>1. /\ tickCount = n /\ tickCount < LastTick
        /\ tickCount' = n + 1 /\ UNCHANGED replays /\ phase' = "session"
    BY <1>1, <1>3 DEF EnterTick, FilesEnd, Up
  <2>2. FilesEnd(n)'
    BY <1>1, <2>1 DEF FilesEnd, Up, InTick
  <2> QED BY <2>1, <2>2, RunnerAssumption DEF FilesInv
<1>4. CASE OpenReplay
  <2>1. /\ tickCount = n + 1 /\ n + 1 \in Numbers /\ UNCHANGED tickCount
        /\ replays' = [replays EXCEPT ![n + 1] = "torn"] /\ phase' = "writing"
    <3>1. tickCount = n + 1 /\ tickCount \in 0 .. LastTick
      BY <1>1, <1>4 DEF OpenReplay, FilesEnd, FilesInv
    <3>2. n + 1 \in Numbers
      BY <3>1, RunnerAssumption DEF Numbers
    <3> QED BY <1>4, <3>1, <3>2 DEF OpenReplay
  <2>2. FilesEnd(n + 1)'
    BY <1>1, <2>1, RunnerAssumption DEF FilesEnd, FilesInv, Up, InTick, Numbers
  <2> QED BY <2>1, <2>2 DEF FilesInv
<1>5. CASE FillReplay
  <2>1. /\ tickCount = n /\ UNCHANGED tickCount
        /\ replays' = [replays EXCEPT ![n] = "whole"] /\ phase' = "written"
    BY <1>1, <1>5 DEF FillReplay, FilesEnd, Up, InTick
  <2>2. \A k \in Numbers : replays'[k] # "none" <=> k <= n
    BY <1>1, <2>1 DEF FilesEnd, FilesInv, Numbers
  <2>3. FilesEnd(n)'
    BY <1>1, <2>1, <2>2 DEF FilesEnd, Up, InTick
  <2>4. replays' \in [Numbers -> {"none", "torn", "whole"}]
    BY <2>1 DEF FilesInv
  <2> QED BY <2>1, <2>3, <2>4 DEF FilesInv
<1>6. CASE Start
  BY <1>6, FilesUntouched DEF Start, Up
<1>7. CASE HostTick
  BY <1>3, <1>7 DEF HostTick
<1>8. CASE RunnerStep
  <2>1. CASE BeginTick
    BY <1>3, <2>1 DEF BeginTick
  <2>2. CASE EnterGenerator
    BY <2>2, FilesUntouched DEF EnterGenerator, Up
  <2>3. CASE EndRun
    BY <2>3, FilesUntouched DEF EndRun
  <2>4. CASE RunSession
    BY <2>4, FilesUntouched DEF RunSession
  <2>5. CASE TickRaises
    BY <2>5, FilesUntouched DEF TickRaises
  <2>6. ASSUME NEW status \in {"complete", "failed"}, ReportTick(status) PROVE FilesInv'
    <3>1. phase' \in {"constructed", "reported"} /\ phase = "written"
      BY <2>6 DEF ReportTick
    <3> QED BY <2>6, <3>1, FilesUntouched DEF ReportTick, Up, InTick
  <2>7. CASE CoolDown
    BY <2>7, FilesUntouched DEF CoolDown, Up
  <2>8. CASE Interval
    <3>1. phase \in {"reported", "cooldown"} /\ phase' \in {"sleep", "loop"}
      BY <2>8 DEF Interval
    <3> QED BY <2>8, <3>1, FilesUntouched DEF Interval, Up
  <2>9. CASE WakeUp
    BY <2>9, FilesUntouched DEF WakeUp, Up
  <2> QED BY <1>4, <1>5, <1>8, <2>1, <2>2, <2>3, <2>4, <2>5, <2>6, <2>7, <2>8, <2>9 DEF RunnerStep
<1>9. CASE AskToStop
  BY <1>9, FilesUntouched DEF AskToStop
<1>10. CASE Die
  BY <1>10, FilesUntouched DEF Die
<1>11. CASE UNCHANGED vars
  BY <1>11, FilesUntouched DEF vars
<1> QED
  BY <1>2, <1>4, <1>5, <1>6, <1>7, <1>8, <1>9, <1>10, <1>11 DEF Next

LEMMA FilesInit == Init => FilesInv
<1> SUFFICES ASSUME Init PROVE FilesInv
  OBVIOUS
<1>1. FilesEnd(0)
  BY RunnerAssumption DEF Init, FilesEnd, Up, InTick, Numbers
<1> QED BY <1>1, RunnerAssumption DEF Init, FilesInv

\* Counting the replay files always gives the number of the last tick that left
\* one: crash recovery is right, through any crashes and torn files, if no host
\* goes on with a runner whose tick raised.
THEOREM FilesContiguous ==
  ASSUME KeepsGoing = FALSE
  PROVE  Spec => []ReplaysContiguous
<1>1. FilesInv /\ [Next]_vars => FilesInv'
  BY FilesStep
<1>2. FilesInv => ReplaysContiguous
  <2> SUFFICES ASSUME FilesInv PROVE ReplaysContiguous
    OBVIOUS
  <2>1. PICK n \in Nat : FilesEnd(n)
    BY DEF FilesInv
  <2>2. Files = 1 .. n /\ Cardinality(Files) = n
    BY <2>1, FilesEndCount, IntervalCardinality
  <2>3. phase \in Up => tickCount \in {n, n + 1}
    BY <2>1 DEF FilesEnd
  <2> QED BY <2>2, <2>3 DEF ReplaysContiguous
<1> QED
  BY <1>1, <1>2, FilesInit, PTL DEF Spec

\* So no process ever writes over a replay that was written whole.
THEOREM FilesKept ==
  ASSUME KeepsGoing = FALSE
  PROVE  Spec => NoReplayOverwritten
<1>1. FilesInv /\ [Next]_vars => FilesInv'
  BY FilesStep
<1>2. ASSUME FilesInv, [Next]_vars
      PROVE  [\A n \in Numbers : replays[n] = "whole" => replays'[n] = "whole"]_vars
  <2> USE DEF rest
  <2>1. PICK n \in Nat : FilesEnd(n)
    BY <1>2 DEF FilesInv
  <2>2. CASE OpenReplay
    <3>1. /\ tickCount = n + 1
          /\ replays' = [replays EXCEPT ![n + 1] = "torn"]
      BY <2>1, <2>2 DEF OpenReplay, FilesEnd
    <3> QED BY <1>2, <2>1, <3>1 DEF FilesEnd, FilesInv, Numbers
  <2>3. CASE FillReplay
    BY <1>2, <2>3 DEF FillReplay, FilesInv
  <2>4. CASE UNCHANGED replays
    BY <2>4
  <2>5. OpenReplay \/ FillReplay \/ UNCHANGED replays
    BY <1>2 DEF Next, Boot, Start, HostTick, EnterTick, RunnerStep, EnterGenerator, BeginTick,
       EndRun, RunSession, TickRaises, ReportTick, CoolDown, Interval, WakeUp, AskToStop, Die, vars
  <2> QED BY <2>2, <2>3, <2>4, <2>5
<1> QED
  BY <1>1, <1>2, FilesInit, PTL DEF Spec, NoReplayOverwritten

-----------------------------------------------------------------------------
(* How many ticks *)

LEMMA TicksInit == Init => TicksBounded
  BY RunnerAssumption DEF Init, TicksBounded

LEMMA TicksStep == ASSUME TypeOK, TicksBounded, [Next]_vars PROVE TicksBounded'
<1> USE RunnerAssumption DEF TicksBounded, rest
<1>1. ticksThisRun \in Nat
  BY DEF TypeOK
<1>2. CASE Boot
  BY <1>2 DEF Boot
<1>3. CASE BeginTick
  BY <1>1, <1>3 DEF BeginTick, TicksLeft, EnterTick
<1>4. CASE HostTick
  BY <1>4 DEF HostTick, EnterTick
<1>5. CASE UNCHANGED <<hosted, ticksThisRun>>
  BY <1>5
<1>6. Boot \/ BeginTick \/ HostTick \/ UNCHANGED <<hosted, ticksThisRun>>
  BY DEF Next, Start, RunnerStep, EnterGenerator, EndRun, RunSession, OpenReplay, FillReplay, TickRaises,
         ReportTick, CoolDown, Interval, WakeUp, AskToStop, Die, vars
<1> QED
  BY <1>2, <1>3, <1>4, <1>5, <1>6

\* run() makes at most max_ticks ticks, however it is interrupted on the way; only a host's
\* ticks are not counted against them (_tick_loop).
THEOREM TicksStayBounded == Spec => []TicksBounded
  BY TicksInit, TicksStep, RunnerTypeCorrect, PTL DEF Spec

-----------------------------------------------------------------------------
(* The circuit breaker *)

\* The history ends with the failures in a row, as many of them as it can hold, and before
\* them with a tick that did not fail.
HistoryInv ==
  /\ \A i \in 1 .. Len(history) : i > Len(history) - failures => history[i] = "failed"
  /\ failures < Len(history) => history[Len(history) - failures] # "failed"
  /\ Len(history) < HistorySize => failures <= Len(history)

LEMMA RememberKeeps ==
  ASSUME TypeOK, HistoryInv, NEW status \in {"complete", "failed"}, Remember(status),
         failures' = IF status = "failed" THEN failures + 1 ELSE 0
  PROVE  HistoryInv'
<1> DEFINE all == Append(history, status)
           n == Len(history)
<1>1. n \in Nat /\ n <= HistorySize /\ failures \in Nat /\ HistorySize \in Nat \ {0}
  BY RunnerAssumption DEF TypeOK
<1>2. /\ all \in Seq({"complete", "failed"}) /\ Len(all) = n + 1
      /\ all[n + 1] = status /\ \A i \in 1 .. n : all[i] = history[i]
  BY DEF TypeOK
<1>3. CASE n = HistorySize
  <2>1. history' = Tail(all)
    BY <1>1, <1>2, <1>3 DEF Remember
  <2> HIDE DEF all
  <2>2. Len(history') = n /\ \A i \in 1 .. n : history'[i] = all[i + 1]
    BY <1>1, <1>2, <2>1
  <2>3. /\ history'[n] = status
        /\ \A i \in 1 .. n - 1 : history'[i] = history[i + 1]
    BY <1>1, <1>2, <1>3, <2>2
  <2> HIDE DEF n
  <2>4. CASE status = "failed"
    <3>1. ASSUME NEW i \in 1 .. n, i > n - (failures + 1) PROVE history'[i] = "failed"
      <4>1. CASE i = n
        BY <2>3, <2>4, <4>1
      <4>2. CASE i < n
        BY <1>1, <2>3, <3>1, <4>2 DEF HistoryInv, n
      <4> QED
        BY <1>1, <4>1, <4>2
    <3>2. ASSUME failures + 1 < n PROVE history'[n - (failures + 1)] # "failed"
      <4>1. n - (failures + 1) \in 1 .. n - 1 /\ n - (failures + 1) + 1 = n - failures /\ failures < n
        BY <1>1, <3>2
      <4> QED
        BY <2>3, <4>1 DEF HistoryInv, n
    <3> QED
      BY <1>1, <1>3, <2>2, <2>4, <3>1, <3>2 DEF HistoryInv
  <2>5. CASE status # "failed"
    BY <1>1, <1>3, <2>2, <2>3, <2>5 DEF HistoryInv
  <2> QED
    BY <2>4, <2>5
<1>4. CASE n < HistorySize
  <2>1. history' = all
    BY <1>1, <1>2, <1>4 DEF Remember
  <2> HIDE DEF all, n
  <2>2. CASE status = "failed"
    <3>1. ASSUME NEW i \in 1 .. n + 1, i > n - failures PROVE all[i] = "failed"
      <4>1. CASE i = n + 1
        BY <1>2, <2>2, <4>1
      <4>2. CASE i \in 1 .. n
        BY <1>1, <1>2, <3>1, <4>2 DEF HistoryInv, n
      <4> QED
        BY <1>1, <4>1, <4>2
    <3>2. ASSUME failures < n PROVE all[n - failures] # "failed"
      <4>1. n - failures \in 1 .. n
        BY <1>1, <3>2
      <4> QED
        BY <1>2, <3>2, <4>1 DEF HistoryInv, n
    <3>3. failures <= n
      BY <1>4 DEF HistoryInv, n
    <3> QED
      BY <1>1, <1>2, <2>1, <2>2, <3>1, <3>2, <3>3 DEF HistoryInv
  <2>3. CASE status # "failed"
    BY <1>1, <1>2, <2>1, <2>3 DEF HistoryInv
  <2> QED
    BY <2>2, <2>3
<1> QED
  BY <1>1, <1>3, <1>4

LEMMA HistoryStep == ASSUME TypeOK, HistoryInv, [Next]_vars PROVE HistoryInv'
<1>1. CASE Boot
  <2>1. history' = <<>> /\ failures' = 0
    BY <1>1 DEF Boot
  <2> QED
    BY <2>1 DEF HistoryInv
<1>2. ASSUME NEW status \in {"complete", "failed"}, ReportTick(status) PROVE HistoryInv'
  BY <1>2, RememberKeeps DEF ReportTick
<1>3. CASE UNCHANGED <<history, failures>>
  BY <1>3 DEF HistoryInv
<1> QED
  BY <1>1, <1>2, <1>3
     DEF Next, Start, HostTick, EnterTick, BeginTick, RunnerStep, EnterGenerator, EndRun, RunSession, OpenReplay,
         FillReplay, TickRaises, CoolDown, Interval, WakeUp, AskToStop, Die, vars, rest

\* The bounded history answers for any number of ticks: where the threshold is not above
\* what the deque holds, the cool-down comes after exactly threshold failures in a row, and
\* no other time (_check_circuit_breaker).
THEOREM BreakerIsExact ==
  ASSUME Threshold <= HistorySize
  PROVE  Spec => BreakerExact
<1>1. Init => HistoryInv
  BY DEF Init, HistoryInv
<1>2. TypeOK /\ HistoryInv /\ [Next]_vars => HistoryInv'
  BY HistoryStep
<1>3. ASSUME TypeOK, HistoryInv
      PROVE  Tripped <=> Threshold > 0 /\ failures >= Threshold
  <2>1. /\ Len(history) \in Nat /\ Len(history) <= HistorySize /\ failures \in Nat
        /\ Threshold \in Nat /\ HistorySize \in Nat
    BY <1>3, RunnerAssumption DEF TypeOK
  <2>2. ASSUME Tripped, failures < Threshold PROVE FALSE
    <3>1. failures < Len(history) /\ Len(history) - failures \in Len(history) - Threshold + 1 .. Len(history)
      BY <2>1, <2>2 DEF Tripped
    <3> QED
      BY <1>3, <2>2, <3>1 DEF Tripped, HistoryInv
  <2>3. ASSUME Threshold > 0, failures >= Threshold PROVE Tripped
    <3>1. Len(history) >= Threshold
      BY <1>3, <2>1, <2>3 DEF HistoryInv
    <3>2. ASSUME NEW i \in Len(history) - Threshold + 1 .. Len(history) PROVE history[i] = "failed"
      <4>1. i \in 1 .. Len(history) /\ i > Len(history) - failures
        BY <2>1, <2>3, <3>1
      <4> QED
        BY <1>3, <4>1 DEF HistoryInv
    <3> QED
      BY <2>3, <3>1, <3>2 DEF Tripped
  <2>4. Tripped => Threshold > 0
    BY DEF Tripped
  <2> QED
    BY <2>1, <2>2, <2>3, <2>4
<1>4. ASSUME TypeOK, HistoryInv, [Next]_vars
      PROVE  [phase = "reported" /\ running /\ phase' \notin {"reported", "down"} =>
                (phase' = "cooldown" <=> Threshold > 0 /\ failures >= Threshold)]_vars
  <2>1. SUFFICES ASSUME Next, phase = "reported", running, phase' \notin {"reported", "down"}
                 PROVE  phase' = "cooldown" <=> Tripped
    BY <1>3, <1>4 DEF vars
  <2>2. CoolDown \/ Interval
    BY <2>1 DEF Next, Boot, Start, HostTick, EnterTick, RunnerStep, EnterGenerator, BeginTick, EndRun, RunSession,
                OpenReplay, FillReplay, TickRaises, ReportTick, WakeUp, AskToStop, Die, InTick
  <2> QED
    BY <2>1, <2>2 DEF CoolDown, Interval
<1> QED
  BY <1>1, <1>2, <1>4, RunnerTypeCorrect, PTL DEF Spec, BreakerExact
-----------------------------------------------------------------------------
(* How soon a runner stops *)

\* The steps of the thread in run() between a request to stop and its end.
StepsToStop ==
  CASE phase = "session"                          -> 5
    [] phase = "replay"                           -> 4
    [] phase = "writing"                          -> 3
    [] phase \in {"written", "sleep", "cooldown"} -> 2
    [] phase \in {"loop", "reported"}             -> 1
    [] OTHER                                      -> 0

\* Once it is asked to stop, each step of the thread brings it nearer to its end, and
\* nothing else takes it away from there.
StopAdvances ==
  [][stop = "late" => /\ phase \in Up => StepsToStop > 0
                      /\ RunnerStep => StepsToStop' < StepsToStop
                      /\ ~RunnerStep => StepsToStop' <= StepsToStop]_vars

LEMMA RunnerStepAdvances ==
  ASSUME StopInv, stop = "late", RunnerStep PROVE StepsToStop' < StepsToStop
<1>1. ~running /\ ~hosted /\ phase # "starting" /\ phase # "constructed"
  BY DEF StopInv
<1>2. ~EnterGenerator /\ ~BeginTick /\ ~CoolDown
  BY <1>1 DEF EnterGenerator, BeginTick, CoolDown
<1>3. ASSUME NEW status \in {"complete", "failed"}, ReportTick(status)
      PROVE  StepsToStop' < StepsToStop
  BY <1>1, <1>3 DEF ReportTick, StepsToStop
<1>4. CASE EndRun \/ Interval \/ WakeUp
  BY <1>1, <1>4 DEF EndRun, Interval, WakeUp, StepsToStop
<1>5. CASE RunSession \/ OpenReplay \/ FillReplay
  BY <1>5 DEF RunSession, OpenReplay, FillReplay, StepsToStop
<1>6. CASE TickRaises
  <2>1. phase' \in {"constructed", "stopped"} /\ phase \in InTick
    BY <1>6 DEF TickRaises
  <2>2. StepsToStop' = 0 /\ StepsToStop \in {5, 4, 3, 2}
    BY <2>1 DEF StepsToStop, InTick
  <2> QED
    BY <2>2
<1> QED
  BY <1>2, <1>3, <1>4, <1>5, <1>6 DEF RunnerStep

\* A runner asked to stop once its ticks have begun stops within five steps of its own:
\* the tick it is in, if any, and no interval or cool-down after it (AgentRunner.stop, run).
THEOREM LateStopIsNear == Spec => StopAdvances
<1> DEFINE Advances ==
      stop = "late" => /\ phase \in Up => StepsToStop > 0
                       /\ RunnerStep => StepsToStop' < StepsToStop
                       /\ ~RunnerStep => StepsToStop' <= StepsToStop
<1>1. Init => StopInv
  BY DEF Init, StopInv
<1>2. StopInv /\ [Next]_vars => StopInv'
  BY StopStep
<1>3. ASSUME StopInv, [Next]_vars PROVE Advances
  <2> SUFFICES ASSUME stop = "late" PROVE Advances
    OBVIOUS
  <2>1. phase \notin {"starting", "constructed"} /\ ~hosted
    BY <1>3 DEF StopInv
  <2>2. phase \in Up => StepsToStop > 0
    BY <2>1 DEF Up, InTick, StepsToStop
  <2>3. RunnerStep => StepsToStop' < StepsToStop
    BY <1>3, RunnerStepAdvances
  <2>4. ~Start /\ ~HostTick
    BY <2>1 DEF Start, HostTick
  <2>5. ASSUME ~RunnerStep PROVE phase' \in {phase, "constructed", "down"}
    BY <1>3, <2>4, <2>5 DEF Next, Boot, AskToStop, Die, vars
  <2>6. ~RunnerStep => StepsToStop' <= StepsToStop
    <3>1. StepsToStop \in 0 .. 5
      BY DEF StepsToStop
    <3>2. phase' \in {"constructed", "down"} => StepsToStop' = 0
      BY DEF StepsToStop
    <3>3. phase' = phase => StepsToStop' = StepsToStop
      BY DEF StepsToStop
    <3> QED
      BY <2>5, <3>1, <3>2, <3>3
  <2> QED
    BY <2>2, <2>3, <2>6
<1>4. StopInv /\ [Next]_vars => [Advances]_vars
  BY <1>3
<1> QED
  BY <1>1, <1>2, <1>4, PTL DEF Spec, StopAdvances
=============================================================================
