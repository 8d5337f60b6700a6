------------------------- MODULE ScriptTimersProofs -------------------------
(***************************************************************************)
(* Proofs about ScriptTimers, for every number of timers, times, repeats   *)
(* and every set of delays.  TypeInv, TablesInv and KeptInv are inductive, *)
(* each with those before it.  TablesInv says, for each stage of a batch,  *)
(* where an undisturbed timer is; for that it has to say of the disturbed  *)
(* ones when they end a batch (Orderly, Again).                            *)
(***************************************************************************)
EXTENDS ScriptTimers, TLAPS

InBatch == main \in {"between", "handler"}

\* The timers of the batch whose handler is over.
HasRun(i) == IF main = "handler" THEN i < current ELSE i <= current

Repeated == {p[2] : p \in timers_new}

-----------------------------------------------------------------------------
(* Types *)

TypeInv == TypeOK /\ (main = "handler" => current \in Timers)

LEMMA NumberProperties ==
    /\ MaxTimers \in Nat /\ MaxTime \in Nat /\ MaxRepeats \in Nat
    /\ None \in Nat /\ None \notin Times
    /\ \A t \in Times : t \in Nat
    /\ \A i \in Timers : i \in Nat /\ i # 0
    /\ \A ms \in Delays : ms \in Nat
BY BoundsAssumption, DelaysAssumption DEF None, Times, Timers

LEMMA NoTimers ==
    /\ [t \in Times |-> {}] \in [Times -> SUBSET Timers]
    /\ [i \in Timers |-> None] \in [Timers -> Times \cup {None}]
OBVIOUS

LEMMA InitTypes == Init => TypeInv
<1> SUFFICES ASSUME Init
             PROVE  TypeInv
    OBVIOUS
<1>1. timers \in [Times -> SUBSET Timers] /\ timers_ms \in [Timers -> Times \cup {None}]
    BY NoTimers DEF Init
<1>2. status \in [Timers -> {"unknown", "pending", "running", "done", "stopped"}]
    BY DEF Init
<1>3. 0 \in Times /\ 0 \in 0..MaxTimers /\ 0 \in 0..MaxRepeats
    BY BoundsAssumption DEF Times
<1> QED BY <1>1, <1>2, <1>3 DEF Init, TypeInv, TypeOK

LEMMA ScriptTypes ==
    ASSUME TypeInv, Script
    PROVE  TypeInv'
<1>1. ASSUME NEW ms \in Delays, StartTimer(ms)
      PROVE  TypeInv'
    <2>1. last_id + 1 \in Timers /\ now + ms \in Times
        BY <1>1, NumberProperties DEF StartTimer, TypeInv, TypeOK, Timers, Times
    <2>2. timers' \in [Times -> SUBSET Timers] /\ timers_ms' \in [Timers -> Times \cup {None}]
        BY <1>1, <2>1 DEF StartTimer, TypeInv, TypeOK
    <2>3. last_id' \in 0..MaxTimers
        BY <1>1, <2>1 DEF StartTimer, TypeInv, TypeOK, Timers
    <2>4. status' \in [Timers -> {"unknown", "pending", "running", "done", "stopped"}]
        BY <1>1, <2>1 DEF StartTimer, TypeInv, TypeOK
    <2>5. disturbed' \in SUBSET Timers
        BY <1>1, <2>1 DEF StartTimer, TypeInv, TypeOK
    <2> QED
        BY <1>1, <2>2, <2>3, <2>4, <2>5
        DEF StartTimer, TypeInv, TypeOK, batchVars, gcVars, Times, Timers
<1>2. ASSUME NEW id \in Timers, StopTimer(id)
      PROVE  TypeInv'
    <2>1. timers' \in [Times -> SUBSET Timers] /\ timers_ms' \in [Timers -> Times \cup {None}]
        BY <1>2 DEF StopTimer, TypeInv, TypeOK, tableVars, TimersStopped, MsStopped
    <2>2. status' \in [Timers -> {"unknown", "pending", "running", "done", "stopped"}]
        BY <1>2 DEF StopTimer, TypeInv, TypeOK
    <2>3. disturbed' \in SUBSET Timers
        BY <1>2 DEF StopTimer, TypeInv, TypeOK, Disturbs
    <2>4. main' \in {main, "crashed"}
        BY <1>2 DEF StopTimer
    <2> QED
        BY <1>2, <2>1, <2>2, <2>3, <2>4
        DEF StopTimer, TypeInv, TypeOK, batchVars, gcVars, Times, Timers
<1> QED BY <1>1, <1>2 DEF Script

LEMMA EndOfRunTypes ==
    ASSUME TypeInv, NEW again \in SUBSET (Times \X {current}), EndOfRun(again),
           repeats' \in [Timers -> Nat]
    PROVE  TypeInv'
<1>1. status' \in [Timers -> {"unknown", "pending", "running", "done", "stopped"}]
    BY DEF EndOfRun, Outcome, TypeInv, TypeOK
<1>2. CASE LeavesBatch
    BY <1>1, <1>2, BoundsAssumption
    DEF EndOfRun, NoBatch, TypeInv, TypeOK, gcVars, Times, Timers
<1>3. CASE ~LeavesBatch
    <2>1. timers_new' \in SUBSET (Times \X Timers)
        BY <1>3 DEF EndOfRun, TypeInv, TypeOK
    <2>2. timers_ms' \in [Timers -> Times \cup {None}]
        BY <1>3 DEF EndOfRun, MsAfterRun, TypeInv, TypeOK
    <2> QED
        BY <1>1, <1>3, <2>1, <2>2 DEF EndOfRun, TypeInv, TypeOK, gcVars, Times, Timers
<1> QED BY <1>2, <1>3

LEMMA RepeatIsTime ==
    ASSUME TypeInv, NEW ms \in Delays, now + ms <= MaxTime
    PROVE  RepeatTime(ms) \in Times /\ now <= RepeatTime(ms)
BY NumberProperties DEF RepeatTime, TypeInv, TypeOK, Times

LEMMA StepTypes == TypeInv /\ [Next]_vars => TypeInv'
<1> SUFFICES ASSUME TypeInv, [Next]_vars
             PROVE  TypeInv'
    OBVIOUS
<1> USE NumberProperties
<1>1. CASE Tick
    BY <1>1 DEF Tick, TypeInv, TypeOK, tableVars, batchVars, gcVars, Times
<1>2. CASE Script
    BY <1>2, ScriptTypes
<1>3. CASE BeginScript
    BY <1>3 DEF BeginScript, TypeInv, TypeOK, tableVars, batchVars, gcVars
<1>4. CASE EndScript
    BY <1>4 DEF EndScript, TypeInv, TypeOK, tableVars, batchVars, gcVars
<1>5. CASE StopTimers
    <2>1. timers' \in [Times -> SUBSET Timers] /\ timers_ms' \in [Timers -> Times \cup {None}]
        BY <1>5, NoTimers DEF StopTimers
    <2>2. status' \in [Timers -> {"unknown", "pending", "running", "done", "stopped"}]
        BY <1>5 DEF StopTimers, TypeInv, TypeOK
    <2> QED BY <1>5, <2>1, <2>2 DEF StopTimers, TypeInv, TypeOK, batchVars, gcVars
<1>6. CASE ProcessAndExit
    BY <1>6 DEF ProcessAndExit, TypeInv, TypeOK, tableVars, batchVars, gcVars
<1>7. ASSUME NEW t \in Times, BeginBatch(t)
      PROVE  TypeInv'
    BY <1>7 DEF BeginBatch, TypeInv, TypeOK, tableVars, gcVars
<1>8. CASE EraseBatch
    BY <1>8 DEF EraseBatch, TypeInv, TypeOK, batchVars, gcVars
<1>9. ASSUME NEW time \in Times, NEW id \in Timers, InsertRepeated(time, id)
      PROVE  TypeInv'
    BY <1>9 DEF InsertRepeated, MsInserted, TypeInv, TypeOK, gcVars
<1>10. CASE EndBatch
    BY <1>10 DEF EndBatch, NoBatch, TypeInv, TypeOK, tableVars, gcVars, Times
<1>11. ASSUME NEW id \in Timers, BeginHandler(id)
       PROVE  TypeInv'
    BY <1>11 DEF BeginHandler, TypeInv, TypeOK, tableVars, gcVars, Timers
<1>12. CASE HandlerEnds
    BY <1>12, EndOfRunTypes DEF HandlerEnds, TypeInv, TypeOK
<1>13. ASSUME NEW ms \in Delays, HandlerRepeats(ms)
       PROVE  TypeInv'
    <2>1. {<<RepeatTime(ms), current>>} \in SUBSET (Times \X {current})
        BY <1>13, RepeatIsTime DEF HandlerRepeats
    <2>2. repeats' \in [Timers -> Nat]
        BY <1>13 DEF HandlerRepeats, TypeInv, TypeOK
    <2> QED BY <1>13, <2>1, <2>2, EndOfRunTypes DEF HandlerRepeats
<1>14. CASE EndIterate
    BY <1>14 DEF EndIterate, TypeInv, TypeOK, tableVars, batchVars, gcVars
<1>15. CASE Mark
    BY <1>15 DEF Mark, Reachable, TypeInv, TypeOK, tableVars, batchVars
<1>16. CASE Sweep
    <2>1. (1..last_id) \ marked \subseteq Timers
        BY DEF TypeInv, TypeOK, Timers
    <2>2. collected' \in SUBSET Timers
        BY <1>16, <2>1 DEF Sweep, TypeInv, TypeOK
    <2> QED BY <1>16, <2>2 DEF Sweep, TypeInv, TypeOK, tableVars, batchVars
<1>17. CASE UNCHANGED vars
    BY <1>17 DEF vars, TypeInv, TypeOK, tableVars, batchVars, gcVars
<1> QED
    BY <1>1, <1>2, <1>3, <1>4, <1>5, <1>6, <1>7, <1>8, <1>9, <1>10, <1>11, <1>12, <1>13,
       <1>14, <1>15, <1>16, <1>17
    DEF Next, Batch, BeginRun, EndRun

\* Every variable keeps its type, and no time or timer is outside its bounds.
THEOREM TypeCorrect == Spec => []TypeOK
<1>1. TypeInv => TypeOK
    BY DEF TypeInv
<1> QED BY <1>1, InitTypes, StepTypes, PTL DEF Spec

-----------------------------------------------------------------------------
(* The tables in the course of a batch *)

\* An id is given out once.
Given ==
    /\ \A t \in Times : timers[t] \subseteq 1..last_id
    /\ \A i \in Timers : i > last_id => timers_ms[i] = None /\ status[i] = "unknown"
    /\ copy \subseteq 1..last_id

\* An entry of m_timers that m_timers_ms knows is the only one of its timer.
OneEntry == \A t \in Times : \A i \in timers[t] : timers_ms[i] \in {t, None}

\* What a batch that was left early leaves in m_timers is due before all else,
\* and its ids are the smallest of their entry.
LeftFirst ==
    Settled =>
        \A t \in Times : \A k \in timers[t] :
            timers_ms[k] = None =>
                /\ t <= now
                /\ \A u \in Times : timers[u] # {} => t <= u
                /\ \A j \in timers[t] : timers_ms[j] # None => k < j

BatchFirst ==
    InBatch =>
        /\ due <= now
        /\ \A u \in Times : timers[u] # {} => due <= u
        /\ \A t \in Times : t # due => \A k \in timers[t] : timers_ms[k] # None
        /\ \A k \in timers[due] : k \notin copy => timers_ms[k] = due /\ \A j \in copy : j < k
        /\ \A k \in copy : HasRun(k) => timers_ms[k] = None
        /\ main = "handler" => current \in copy

RepeatedOnce ==
    InBatch \/ main = "inserting" =>
        /\ \A p, q \in timers_new : p[2] = q[2] => p = q
        /\ \A p \in timers_new : p[2] \in copy /\ (InBatch => HasRun(p[2]))
        /\ \A p \in timers_new : \A t \in Times :
              p[2] \in timers[t] => InBatch /\ t = due

\* A timer that has yet to run is where it was, or a handler has stopped it:
\* then the batch ends with its own, and what was before it is disturbed.
Orderly ==
    \A k \in copy : ~HasRun(k) =>
        \/ timers_ms[k] = due /\ k \in timers[due]
        \/ /\ timers_ms[k] = None
           /\ k \notin timers[due]
           /\ \A j \in copy : j < k => j \in disturbed

\* A batch with a timer left by an earlier one ends with its first handler.
Again ==
    /\ timers_new = {}
    /\ \A k \in timers[due], j \in timers[due] :
          timers_ms[k] = None /\ timers_ms[j] # None => k < j
    /\ main = "between" =>
          /\ current = 0
          /\ copy = timers[due]
          /\ \E k \in copy : timers_ms[k] = None
    /\ main = "handler" => timers_ms[current] = None /\ \A j \in copy : current <= j

Course == InBatch => Orderly \/ Again

NoneLeft == main = "inserting" => \A t \in Times : \A k \in timers[t] : timers_ms[k] # None

SameEntry(i) == \A t \in Times : i \in timers[t] <=> timers_ms[i] = t

Regular(i) == SameEntry(i) /\ (status[i] = "pending" <=> timers_ms[i] # None)

InCourse(i) ==
    /\ i \notin copy => Regular(i) /\ timers_ms[i] # due
    /\ i \in copy /\ HasRun(i) =>
          /\ \A t \in Times : i \in timers[t] => t = due
          /\ status[i] # "running"
          /\ status[i] = "pending" <=> i \in Repeated
    /\ i \in copy /\ ~HasRun(i) /\ ~(main = "handler" /\ i = current) =>
          Regular(i) /\ timers_ms[i] = due
    /\ i \in copy /\ main = "handler" /\ i = current =>
          /\ SameEntry(i)
          /\ \/ status[i] = "running" /\ timers_ms[i] = due
             \/ status[i] = "stopped" /\ timers_ms[i] = None

Undisturbed ==
    \A i \in Timers \ disturbed :
        /\ Settled => Regular(i)
        /\ InBatch => InCourse(i)
        /\ main = "inserting" =>
              /\ i \in Repeated => status[i] = "pending"
              /\ i \notin Repeated => Regular(i)

TablesInv ==
    /\ Given
    /\ OneEntry
    /\ LeftFirst
    /\ BatchFirst
    /\ RepeatedOnce
    /\ Course
    /\ NoneLeft
    /\ Undisturbed

LEMMA InitTables == Init => TablesInv
<1> SUFFICES ASSUME Init
             PROVE  TablesInv
    OBVIOUS
<1>1. /\ \A t \in Times : timers[t] = {}
      /\ \A i \in Timers : timers_ms[i] = None /\ status[i] = "unknown"
      /\ main = "frame" /\ copy = {}
    BY DEF Init
<1>2. \A i \in Timers : Regular(i)
    BY <1>1, NumberProperties DEF Regular, SameEntry
<1> QED
    BY <1>1, <1>2
    DEF TablesInv, Given, OneEntry, LeftFirst, BatchFirst, RepeatedOnce, Course, NoneLeft,
        Undisturbed, InBatch, Settled

\* A step that changes neither the tables nor the batch, but maybe what MAIN
\* does between batches, or the time.
LEMMA QuietStep ==
    ASSUME TypeInv, TablesInv, now' \in Nat, now <= now',
           UNCHANGED <<tableVars, last_id, batchVars, status, disturbed>>,
           main' = main \/ (Settled /\ main' \in {"frame", "script", "iterate", "exited"})
    PROVE  TablesInv'
<1> USE NumberProperties DEF tableVars, batchVars
<1>1. Settled' = Settled /\ InBatch' = InBatch /\ (main' = "inserting") = (main = "inserting")
      /\ (InBatch => main' = main)
    BY DEF Settled, InBatch
<1>2. Given' /\ OneEntry'
    BY DEF TablesInv, Given, OneEntry
<1>3. LeftFirst'
    BY <1>1 DEF TablesInv, LeftFirst, TypeInv, TypeOK
<1>4. BatchFirst'
    BY <1>1 DEF TablesInv, BatchFirst, HasRun, InBatch, TypeInv, TypeOK
<1>5. RepeatedOnce' /\ NoneLeft'
    BY <1>1 DEF TablesInv, RepeatedOnce, NoneLeft, HasRun
<1>6. Course'
    BY <1>1 DEF TablesInv, Course, Orderly, Again, HasRun
<1>7. Undisturbed'
    BY <1>1 DEF TablesInv, Undisturbed, InCourse, Regular, SameEntry, HasRun, Repeated
<1> QED BY <1>2, <1>3, <1>4, <1>5, <1>6, <1>7 DEF TablesInv

LEMMA StopTimersTables ==
    ASSUME TypeInv, TablesInv, StopTimers
    PROVE  TablesInv'
<1>1. /\ \A t \in Times : timers'[t] = {}
      /\ \A i \in Timers : timers_ms'[i] = None
      /\ main' = "frame" /\ copy' = copy /\ last_id' = last_id /\ disturbed' = disturbed
    BY DEF StopTimers, batchVars
<1>2. \A i \in Timers : status'[i] # "pending" /\ (status[i] = "unknown" => status'[i] = "unknown")
    BY DEF StopTimers, Expected, TypeInv, TypeOK
<1>3. \A i \in Timers : Regular(i)'
    BY <1>1, <1>2, NumberProperties DEF Regular, SameEntry
<1>4. Given'
    BY <1>1, <1>2 DEF TablesInv, Given
<1> QED
    BY <1>1, <1>3, <1>4
    DEF TablesInv, OneEntry, LeftFirst, BatchFirst, RepeatedOnce, Course, NoneLeft,
        Undisturbed, InBatch, Settled

LEMMA StartTimerTables ==
    ASSUME TypeInv, TablesInv, NEW ms \in Delays, StartTimer(ms),
           NEW id, id = last_id + 1, NEW time, time = now + ms
    PROVE  TablesInv'
<1> USE NumberProperties
<1>1. /\ id \in Timers /\ time \in Times /\ now <= time
      /\ last_id \in Nat /\ last_id < id /\ id \notin 1..last_id
    BY DEF StartTimer, TypeInv, TypeOK, Timers, Times
<1>2. \A t \in Times : \A k : k \in timers'[t] <=> k \in timers[t] \/ (t = time /\ k = id)
    BY <1>1 DEF StartTimer, TypeInv, TypeOK
<1>3. timers_ms'[id] = time /\ \A i \in Timers : i # id => timers_ms'[i] = timers_ms[i]
    BY <1>1 DEF StartTimer, TypeInv, TypeOK
<1>4. status'[id] = "pending" /\ \A i \in Timers : i # id => status'[i] = status[i]
    BY <1>1 DEF StartTimer, TypeInv, TypeOK
<1>5. /\ disturbed \subseteq disturbed'
      /\ main = "handler" /\ time = due => id \in disturbed'
    BY DEF StartTimer
<1>6. /\ last_id' = id /\ now' = now /\ main' = main
      /\ due' = due /\ copy' = copy /\ current' = current /\ timers_new' = timers_new
      /\ main = "script" \/ main = "handler"
    BY DEF StartTimer, InScript, batchVars
<1>7. /\ \A t \in Times : \A k \in timers[t] : k \in Timers /\ k < id
      /\ copy \subseteq Timers /\ \A k \in copy : k < id
      /\ timers_ms[id] = None /\ status[id] = "unknown"
    BY <1>1 DEF TablesInv, Given, TypeInv, TypeOK
<1>8. due \in Times /\ current \in Nat /\ (main = "handler" => current \in copy)
    BY <1>6 DEF TablesInv, BatchFirst, InBatch, TypeInv, TypeOK
<1>9. InBatch' = InBatch /\ (InBatch <=> main = "handler") /\ (Settled' <=> main = "script")
      /\ main' # "inserting" /\ Repeated' = Repeated
    BY <1>6 DEF InBatch, Settled, Repeated
<1>10. \A k : HasRun(k)' = HasRun(k)
    BY <1>6 DEF HasRun
<1>11. Given'
    <2>1. ASSUME NEW t \in Times, NEW k \in timers'[t]
          PROVE  k \in 1..id
        <3>1. k \in timers[t] \/ k = id
            BY <1>2
        <3>2. CASE k \in timers[t]
            <4>1. k \in Timers /\ k < id
                BY <3>2, <1>7
            <4> QED BY <4>1, <1>1
        <3>3. CASE k = id
            BY <3>3, <1>1
        <3> QED BY <3>1, <3>2, <3>3
    <2> QED BY <1>1, <1>3, <1>4, <1>6, <1>7, <2>1 DEF TablesInv, Given
<1>12. OneEntry'
    <2> SUFFICES ASSUME NEW t \in Times, NEW k \in timers'[t]
                 PROVE  timers_ms'[k] \in {t, None}
        BY DEF OneEntry
    <2>1. CASE k = id
        BY <2>1, <1>2, <1>3, <1>7
    <2>2. CASE k # id
        <3>1. k \in timers[t] /\ k \in Timers
            BY <2>2, <1>2, <1>7
        <3> QED BY <2>2, <3>1, <1>3 DEF TablesInv, OneEntry
    <2> QED BY <2>1, <2>2
<1>13. LeftFirst'
    <2> SUFFICES ASSUME Settled, NEW t \in Times, NEW k \in timers'[t], timers_ms'[k] = None
                 PROVE  /\ t <= now
                        /\ \A u \in Times : timers'[u] # {} => t <= u
                        /\ \A j \in timers'[t] : timers_ms'[j] # None => k < j
        BY <1>6, <1>9 DEF LeftFirst, Settled
    <2>1. k # id /\ k \in timers[t] /\ timers_ms[k] = None
        BY <1>1, <1>2, <1>3, <1>7
    <2>2. /\ t <= now
          /\ \A u \in Times : timers[u] # {} => t <= u
          /\ \A j \in timers[t] : timers_ms[j] # None => k < j
        BY <2>1 DEF TablesInv, LeftFirst
    <2>3. ASSUME NEW u \in Times, timers'[u] # {}
          PROVE  t <= u
        <3>1. timers[u] # {} \/ u = time
            BY <2>3, <1>2
        <3> QED BY <2>2, <3>1, <1>1 DEF TypeInv, TypeOK
    <2>4. ASSUME NEW j \in timers'[t], timers_ms'[j] # None
          PROVE  k < j
        BY <2>1, <2>2, <2>4, <1>2, <1>3, <1>7
    <2> QED BY <2>2, <2>3, <2>4
<1>14. BatchFirst'
    <2> SUFFICES ASSUME InBatch
                 PROVE  BatchFirst'
        BY <1>9 DEF BatchFirst
    <2>1. /\ due <= now
          /\ \A u \in Times : timers[u] # {} => due <= u
          /\ \A t \in Times : t # due => \A k \in timers[t] : timers_ms[k] # None
          /\ \A k \in timers[due] : k \notin copy => timers_ms[k] = due /\ \A j \in copy : j < k
          /\ \A k \in copy : HasRun(k) => timers_ms[k] = None
          /\ main = "handler" => current \in copy
        BY DEF TablesInv, BatchFirst
    <2>2. ASSUME NEW u \in Times, timers'[u] # {}
          PROVE  due <= u
        <3>1. timers[u] # {} \/ u = time
            BY <2>2, <1>2
        <3> QED BY <2>1, <3>1, <1>1, <1>8 DEF TypeInv, TypeOK
    <2>3. ASSUME NEW t \in Times, t # due, NEW k \in timers'[t]
          PROVE  timers_ms'[k] # None
        <3>1. CASE k = id
            BY <3>1, <1>1, <1>3
        <3>2. CASE k # id
            <4>1. k \in timers[t] /\ k \in Timers
                BY <2>3, <3>2, <1>2, <1>7
            <4> QED BY <2>1, <2>3, <3>2, <4>1, <1>3
        <3> QED BY <3>1, <3>2
    <2>4. ASSUME NEW k \in timers'[due], k \notin copy
          PROVE  timers_ms'[k] = due /\ \A j \in copy : j < k
        BY <2>1, <2>4, <1>2, <1>3, <1>7, <1>8
    <2>5. \A k \in copy : HasRun(k) => timers_ms'[k] = None
        BY <2>1, <1>1, <1>3, <1>7
    <2> QED BY <2>1, <2>2, <2>3, <2>4, <2>5, <1>6, <1>9, <1>10 DEF BatchFirst
<1>15. RepeatedOnce' /\ NoneLeft'
    BY <1>1, <1>2, <1>6, <1>7, <1>9, <1>10 DEF TablesInv, RepeatedOnce, NoneLeft
<1>16. Course'
    <2>1. CASE Orderly /\ InBatch
        BY <2>1, <1>1, <1>2, <1>3, <1>5, <1>6, <1>7, <1>8, <1>9, <1>10 DEF Course, Orderly
    <2>2. CASE Again /\ InBatch
        <3>1. \A k \in Timers : k < id => timers_ms'[k] = timers_ms[k]
            BY <1>1, <1>3
        <3>2. ASSUME NEW k \in timers'[due], NEW j \in timers'[due],
                     timers_ms'[k] = None, timers_ms'[j] # None
              PROVE  k < j
            <4>1. k # id /\ k \in timers[due] /\ timers_ms[k] = None
                BY <3>2, <1>1, <1>2, <1>3, <1>7, <1>8
            <4>2. CASE j = id
                BY <4>1, <4>2, <1>7, <1>8
            <4>3. CASE j # id
                BY <2>2, <3>2, <4>1, <4>3, <1>2, <1>3, <1>7, <1>8 DEF Again
            <4> QED BY <4>2, <4>3
        <3>3. timers_ms'[current] = timers_ms[current]
            BY <3>1, <1>7, <1>8, <1>9, <2>2
        <3> QED BY <2>2, <3>2, <3>3, <1>6, <1>9 DEF Course, Again
    <2> QED BY <1>9, <2>1, <2>2 DEF TablesInv, Course
<1>17. ASSUME NEW i \in Timers, i # id
       PROVE  SameEntry(i)' = SameEntry(i) /\ Regular(i)' = Regular(i)
    BY <1>2, <1>3, <1>4, <1>17 DEF Regular, SameEntry
<1>18. Regular(id)'
    BY <1>1, <1>2, <1>3, <1>4, <1>7 DEF Regular, SameEntry
<1>19. Undisturbed'
    <2> SUFFICES ASSUME NEW i \in Timers, i \notin disturbed'
                 PROVE  (Settled' => Regular(i)') /\ (InBatch' => InCourse(i)')
        BY <1>9 DEF Undisturbed
    <2>1. CASE i = id
        <3>1. InBatch => time # due
            BY <2>1, <1>5, <1>9
        <3> QED BY <2>1, <3>1, <1>1, <1>3, <1>6, <1>7, <1>9, <1>18 DEF InCourse
    <2>2. CASE i # id
        <3>1. Settled => Regular(i)
            BY <1>5 DEF TablesInv, Undisturbed
        <3>2. InBatch => InCourse(i)
            BY <1>5 DEF TablesInv, Undisturbed
        <3>3. Settled' = Settled
            BY <1>6 DEF Settled
        <3>4. InCourse(i) => InCourse(i)'
            BY <2>2, <1>2, <1>3, <1>4, <1>6, <1>9, <1>10, <1>17 DEF InCourse
        <3> QED BY <2>2, <3>1, <3>2, <3>3, <3>4, <1>9, <1>17
    <2> QED BY <2>1, <2>2
<1> QED BY <1>11, <1>12, <1>13, <1>14, <1>15, <1>16, <1>19 DEF TablesInv

LEMMA StopTimerTables ==
    ASSUME TypeInv, TablesInv, NEW id \in Timers, StopTimer(id)
    PROVE  TablesInv'
<1> USE NumberProperties
<1>1. /\ last_id' = last_id /\ now' = now
      /\ due' = due /\ copy' = copy /\ current' = current /\ timers_new' = timers_new
      /\ main = "script" \/ main = "handler"
      /\ main' = main \/ main' = "crashed"
      /\ status[id] = "pending" \/ status[id] = "running"
    BY DEF StopTimer, InScript, Expected, batchVars
<1>2. \A i \in Timers : status'[i] = IF i = id THEN "stopped" ELSE status[i]
    BY DEF StopTimer, TypeInv, TypeOK
<1>3. /\ disturbed \subseteq disturbed'
      /\ main = "handler" /\ id \in copy /\ id # current => id \in disturbed'
      /\ main = "handler" /\ id \in copy /\ id >= current =>
            \A j \in copy : j < id => j \in disturbed'
    BY DEF StopTimer, Disturbs, TypeInv, TypeOK
<1>4. /\ due \in Times /\ current \in Nat /\ (main = "handler" => current \in copy)
      /\ copy \subseteq Timers /\ \A t \in Times : timers[t] \subseteq Timers
    BY DEF TablesInv, BatchFirst, InBatch, TypeInv, TypeOK
<1>5. \A t \in Times : timers'[t] = IF t = timers_ms[id] /\ main' # "crashed" THEN timers[t] \ {id} ELSE timers[t]
    <2>1. CASE timers_ms[id] = None
        BY <2>1 DEF StopTimer, tableVars
    <2>2. CASE timers_ms[id] # None
        BY <2>2, <1>1 DEF StopTimer, tableVars, TimersStopped, TypeInv, TypeOK
    <2> QED BY <2>1, <2>2
<1>6. \A i \in Timers : timers_ms'[i] = IF i = id /\ main' # "crashed" THEN None ELSE timers_ms[i]
    BY <1>1 DEF StopTimer, tableVars, MsStopped, TypeInv, TypeOK
<1>7. \A t \in Times : timers'[t] \subseteq timers[t]
    BY <1>5
<1>8. status[id] # "unknown" /\ (main = "handler" \/ main = "script")
    BY <1>1
<1>9. Given'
    BY <1>1, <1>2, <1>6, <1>7 DEF TablesInv, Given
<1>10. OneEntry'
    BY <1>4, <1>6, <1>7 DEF TablesInv, OneEntry
<1>11. CASE main' = "crashed"
    BY <1>9, <1>10, <1>11
    DEF TablesInv, LeftFirst, BatchFirst, RepeatedOnce, Course, NoneLeft, Undisturbed,
        Settled, InBatch
<1>12. CASE main' # "crashed"
    <2>1. main' = main /\ InBatch' = InBatch /\ (InBatch <=> main = "handler")
          /\ (Settled <=> main = "script")
          /\ Settled' = Settled /\ main' # "inserting" /\ Repeated' = Repeated
        BY <1>1, <1>12 DEF InBatch, Settled, Repeated
    <2>2. \A k : HasRun(k)' = HasRun(k)
        BY <1>1, <2>1 DEF HasRun
    <2>3. \A t \in Times : id \in timers'[t] => timers_ms[id] = None
        BY <1>5, <1>12 DEF TablesInv, OneEntry
    <2>4. \A i \in Timers : timers_ms'[i] = IF i = id THEN None ELSE timers_ms[i]
        BY <1>6, <1>12
    <2>5. \A t \in Times : \A i \in Timers : i # id => (i \in timers'[t] <=> i \in timers[t])
        BY <1>5
    <2>6. LeftFirst'
        BY <1>1, <1>4, <1>7, <2>1, <2>3, <2>4 DEF TablesInv, LeftFirst
    <2>7. BatchFirst'
        BY <1>1, <1>4, <1>7, <2>1, <2>2, <2>3, <2>4 DEF TablesInv, BatchFirst
    <2>8. RepeatedOnce' /\ NoneLeft'
        BY <1>1, <1>7, <2>1, <2>2 DEF TablesInv, RepeatedOnce, NoneLeft
    <2>9. Course'
        <3>1. CASE Orderly /\ InBatch
            <4> SUFFICES ASSUME NEW k \in copy, ~HasRun(k)
                         PROVE  \/ timers_ms'[k] = due /\ k \in timers'[due]
                                \/ /\ timers_ms'[k] = None
                                   /\ k \notin timers'[due]
                                   /\ \A j \in copy : j < k => j \in disturbed'
                BY <1>1, <2>1, <2>2 DEF Course, Orderly
            <4>1. \/ timers_ms[k] = due /\ k \in timers[due]
                  \/ /\ timers_ms[k] = None
                     /\ k \notin timers[due]
                     /\ \A j \in copy : j < k => j \in disturbed
                BY <3>1 DEF Orderly
            <4>2. k \in Timers /\ due # None
                BY <1>4
            <4>3. CASE k # id
                BY <4>1, <4>2, <4>3, <1>3, <1>4, <2>4, <2>5
            <4>4. CASE k = id
                <5>1. k >= current
                    BY <1>4, <2>1, <3>1, <4>2 DEF HasRun
                <5>2. \A j \in copy : j < k => j \in disturbed'
                    BY <5>1, <1>3, <2>1, <3>1, <4>4
                <5>3. k \notin timers'[due]
                    BY <1>4, <2>3, <1>7, <4>1, <4>2, <4>4
                <5> QED BY <2>4, <4>2, <4>4, <5>2, <5>3
            <4> QED BY <4>3, <4>4
        <3>2. CASE Again /\ InBatch
            BY <3>2, <1>1, <1>4, <1>7, <2>1, <2>3, <2>4 DEF Course, Again
        <3> QED BY <2>1, <3>1, <3>2 DEF TablesInv, Course
    <2>10. ASSUME NEW i \in Timers, i # id
           PROVE  SameEntry(i)' = SameEntry(i) /\ Regular(i)' = Regular(i)
        BY <1>2, <2>4, <2>5, <2>10 DEF Regular, SameEntry
    <2>11. SameEntry(id) => Regular(id)'
        <3> SUFFICES ASSUME SameEntry(id)
                     PROVE  Regular(id)'
            OBVIOUS
        <3>1. \A t \in Times : id \notin timers'[t]
            BY <1>7, <2>3 DEF SameEntry
        <3>2. timers_ms'[id] = None /\ status'[id] = "stopped"
            BY <1>2, <2>4
        <3> QED BY <3>1, <3>2 DEF Regular, SameEntry
    <2>12. Undisturbed'
        <3> SUFFICES ASSUME NEW i \in Timers, i \notin disturbed'
                     PROVE  (Settled' => Regular(i)') /\ (InBatch' => InCourse(i)')
            BY <2>1 DEF Undisturbed
        <3>1. (Settled => Regular(i)) /\ (InBatch => InCourse(i))
            BY <1>3 DEF TablesInv, Undisturbed
        <3>2. CASE i = id
            <4>1. CASE main = "script"
                BY <3>1, <3>2, <4>1, <2>1, <2>11 DEF Regular
            <4>2. CASE main = "handler" /\ i \notin copy
                BY <3>1, <3>2, <4>2, <1>1, <1>4, <2>1, <2>4, <2>11 DEF Regular, InCourse
            <4>3. CASE main = "handler" /\ i \in copy
                <5>1. i = current
                    BY <3>2, <4>3, <1>3
                <5>2. Regular(i)' /\ timers_ms'[i] = None /\ status'[i] = "stopped"
                    BY <3>1, <3>2, <4>3, <5>1, <1>2, <2>1, <2>4, <2>11 DEF InCourse
                <5>3. ~HasRun(i)
                    BY <4>3, <5>1, <1>4 DEF HasRun
                <5> QED BY <4>3, <5>1, <5>2, <5>3, <1>1, <2>1, <2>2 DEF InCourse, Regular
            <4> QED BY <1>1, <4>1, <4>2, <4>3
        <3>3. CASE i # id
            <4>1. InCourse(i) => InCourse(i)'
                BY <3>3, <1>1, <1>2, <2>1, <2>2, <2>4, <2>5, <2>10 DEF InCourse
            <4> QED BY <3>1, <3>3, <4>1, <2>1, <2>10
        <3> QED BY <3>2, <3>3
    <2> QED BY <1>9, <1>10, <2>6, <2>7, <2>8, <2>9, <2>12 DEF TablesInv
<1> QED BY <1>11, <1>12

LEMMA BatchTypes ==
    ASSUME TypeInv
    PROVE  /\ due \in Times /\ current \in Nat
           /\ \A i \in copy : i \in Timers
           /\ \A t \in Times : \A i \in timers[t] : i \in Timers
           /\ None \notin Times
           /\ \A i \in Timers : i \in Nat /\ i # 0
           /\ \A t \in Times : t \in Nat
BY NumberProperties DEF TypeInv, TypeOK

LEMMA BeginBatchTables ==
    ASSUME TypeInv, TablesInv, NEW t \in Times, BeginBatch(t)
    PROVE  TablesInv'
<1>1. /\ main = "iterate" /\ main' = "between"
      /\ due' = t /\ copy' = timers[t] /\ current' = 0 /\ timers_new' = {}
      /\ timers' = timers /\ timers_ms' = timers_ms /\ last_id' = last_id
      /\ now' = now /\ status' = status /\ disturbed' = disturbed
      /\ t <= now /\ timers[t] # {} /\ \A u \in Times : timers[u] # {} => t <= u
    BY DEF BeginBatch, IsFirst, DueTimes, tableVars, TypeInv, TypeOK
<1>2. Settled /\ ~Settled' /\ InBatch'
    BY <1>1 DEF Settled, InBatch
<1>3. \A k \in copy' : ~HasRun(k)'
    BY <1>1, BatchTypes DEF HasRun
<1>4. Given' /\ OneEntry' /\ LeftFirst' /\ NoneLeft'
    BY <1>1, <1>2 DEF TablesInv, Given, OneEntry, LeftFirst, NoneLeft
<1>5. BatchFirst'
    <2>1. ASSUME NEW u \in Times, u # t, NEW k \in timers[u]
          PROVE  timers_ms[k] # None
        <3>1. t <= u /\ (timers_ms[k] = None => u <= t)
            BY <1>1, <1>2, <2>1 DEF TablesInv, LeftFirst
        <3> QED BY <2>1, <3>1, BatchTypes
    <2> QED BY <1>1, <1>2, <1>3, <2>1 DEF BatchFirst
<1>6. RepeatedOnce'
    BY <1>1 DEF RepeatedOnce
<1>7. Course'
    <2>1. CASE \E k \in timers[t] : timers_ms[k] = None
        <3>1. \A k \in timers[t], j \in timers[t] :
                  timers_ms[k] = None /\ timers_ms[j] # None => k < j
            BY <1>2 DEF TablesInv, LeftFirst
        <3> QED BY <1>1, <2>1, <3>1 DEF Course, Again
    <2>2. CASE \A k \in timers[t] : timers_ms[k] # None
        BY <1>1, <2>2 DEF Course, Orderly, TablesInv, OneEntry
    <2> QED BY <2>1, <2>2
<1>8. Undisturbed'
    <2> SUFFICES ASSUME NEW i \in Timers, i \notin disturbed
                 PROVE  InCourse(i)'
        BY <1>1, <1>2 DEF Undisturbed
    <2>1. Regular(i) /\ (Regular(i)' <=> Regular(i))
        BY <1>1, <1>2 DEF TablesInv, Undisturbed, Regular, SameEntry
    <2>2. i \in copy' <=> timers_ms'[i] = due'
        BY <1>1, <2>1 DEF Regular, SameEntry
    <2> QED BY <1>1, <1>3, <2>1, <2>2 DEF InCourse
<1> QED BY <1>4, <1>5, <1>6, <1>7, <1>8 DEF TablesInv

LEMMA BeginHandlerTables ==
    ASSUME TypeInv, TablesInv, NEW id \in Timers, BeginHandler(id)
    PROVE  TablesInv'
<1>1. /\ main = "between" /\ main' = "handler"
      /\ due' = due /\ copy' = copy /\ current' = id /\ timers_new' = timers_new
      /\ timers' = timers /\ timers_ms' = timers_ms /\ last_id' = last_id
      /\ now' = now /\ disturbed' = disturbed
      /\ id \in copy /\ current < id /\ \A k \in copy : k > current => id <= k
    BY DEF BeginHandler, Left, tableVars
<1>2. status'[id] = "running" /\ \A i \in Timers : i # id => status'[i] = status[i]
    BY DEF BeginHandler, TypeInv, TypeOK
<1>3. ~Settled' /\ InBatch' /\ InBatch
    BY <1>1 DEF Settled, InBatch
<1>4. \A k \in copy : HasRun(k)' = HasRun(k)
    BY <1>1, BatchTypes DEF HasRun
<1>5. ~HasRun(id) /\ ~HasRun(id)'
    BY <1>1, BatchTypes DEF HasRun
<1>6. Given'
    BY <1>1, <1>2, BatchTypes DEF TablesInv, Given, TypeInv, TypeOK
<1>7. OneEntry' /\ LeftFirst' /\ NoneLeft'
    BY <1>1, <1>3 DEF TablesInv, OneEntry, LeftFirst, NoneLeft
<1>8. BatchFirst'
    BY <1>1, <1>3, <1>4 DEF TablesInv, BatchFirst
<1>9. RepeatedOnce'
    BY <1>1, <1>3, <1>4 DEF TablesInv, RepeatedOnce
<1>10. Course'
    <2>1. CASE Orderly
        BY <2>1, <1>1, <1>4 DEF Course, Orderly
    <2>2. CASE Again
        <3>1. PICK f \in copy : timers_ms[f] = None
            BY <2>2, <1>1 DEF Again
        <3>2. \A j \in copy : id <= j
            BY <2>2, <1>1, BatchTypes DEF Again
        <3>3. timers_ms[id] = None
            <4>1. timers_ms[id] # None => f < id
                BY <2>2, <3>1, <1>1 DEF Again
            <4> QED BY <4>1, <3>2, BatchTypes
        <3> QED BY <2>2, <3>2, <3>3, <1>1 DEF Course, Again
    <2> QED BY <2>1, <2>2, <1>3 DEF TablesInv, Course
<1>11. Undisturbed'
    <2> SUFFICES ASSUME NEW i \in Timers, i \notin disturbed
                 PROVE  InCourse(i)'
        BY <1>1, <1>3 DEF Undisturbed
    <2>1. InCourse(i)
        BY <1>3 DEF TablesInv, Undisturbed
    <2>2. SameEntry(i)' = SameEntry(i) /\ Repeated' = Repeated
        BY <1>1 DEF SameEntry, Repeated
    <2>3. CASE i = id
        BY <2>1, <2>2, <2>3, <1>1, <1>2, <1>5 DEF InCourse, Regular
    <2>4. CASE i # id
        BY <2>1, <2>2, <2>4, <1>1, <1>2, <1>4 DEF InCourse, Regular
    <2> QED BY <2>3, <2>4
<1> QED BY <1>6, <1>7, <1>8, <1>9, <1>10, <1>11 DEF TablesInv

\* A handler that ends and leaves the batch.
LEMMA LeaveTables ==
    ASSUME TypeInv, TablesInv, NEW again, EndOfRun(again), LeavesBatch
    PROVE  TablesInv'
<1>1. /\ main = "handler" /\ main' = "iterate" /\ timers_ms[current] = None
      /\ timers' = timers /\ timers_ms' = timers_ms /\ last_id' = last_id
      /\ now' = now /\ disturbed' = disturbed
      /\ copy' = {} /\ timers_new' = {}
    BY DEF EndOfRun, LeavesBatch, NoBatch
<1>2. InBatch /\ ~InBatch' /\ Settled'
    BY <1>1 DEF InBatch, Settled
<1>3. /\ current \in copy
      /\ \A u \in Times : timers[u] # {} => due <= u
      /\ \A t \in Times : t # due => \A k \in timers[t] : timers_ms[k] # None
      /\ \A k \in timers[due] : k \notin copy => timers_ms[k] = due /\ \A j \in copy : j < k
      /\ \A k \in copy : HasRun(k) => timers_ms[k] = None
      /\ due <= now
    BY <1>1, <1>2 DEF TablesInv, BatchFirst
<1>4. /\ status'[current] = Outcome(again # {})
      /\ \A i \in Timers : i # current => status'[i] = status[i]
    BY <1>3, BatchTypes DEF EndOfRun, TypeInv, TypeOK
<1>5. \A k : HasRun(k) <=> k < current
    BY <1>1 DEF HasRun
<1>6. Given' /\ OneEntry'
    BY <1>1, <1>3, <1>4, BatchTypes DEF TablesInv, Given, OneEntry, TypeInv, TypeOK
<1>7. \A j \in copy : j < current => j \in disturbed
    <2>1. CASE Orderly
        BY <2>1, <1>1, <1>3, <1>5, BatchTypes DEF Orderly
    <2>2. CASE Again
        BY <2>2, <1>1, BatchTypes DEF Again
    <2> QED BY <2>1, <2>2, <1>2 DEF TablesInv, Course
<1>8. LeftFirst'
    <2> SUFFICES ASSUME NEW t \in Times, NEW k \in timers[t], timers_ms[k] = None
                 PROVE  /\ t <= now
                        /\ \A u \in Times : timers[u] # {} => t <= u
                        /\ \A j \in timers[t] : timers_ms[j] # None => k < j
        BY <1>1 DEF LeftFirst
    <2>1. t = due /\ k \in copy
        BY <1>3, BatchTypes
    <2>2. ASSUME NEW j \in timers[t], timers_ms[j] # None
          PROVE  k < j
        <3>1. CASE Orderly
            <4>1. k < current
                BY <3>1, <2>1, <1>5, BatchTypes DEF Orderly
            <4>2. CASE j \in copy
                <5>1. ~(j < current)
                    BY <2>2, <4>2, <1>3, <1>5
                <5> QED BY <4>1, <4>2, <5>1, <2>1, BatchTypes
            <4>3. CASE j \notin copy
                BY <4>3, <2>1, <1>3
            <4> QED BY <4>2, <4>3
        <3>2. CASE Again
            BY <3>2, <2>1, <2>2 DEF Again
        <3> QED BY <3>1, <3>2, <1>2 DEF TablesInv, Course
    <2> QED BY <2>1, <2>2, <1>3
<1>9. BatchFirst' /\ RepeatedOnce' /\ Course' /\ NoneLeft'
    BY <1>1, <1>2 DEF BatchFirst, RepeatedOnce, Course, NoneLeft
<1>10. Undisturbed'
    <2> SUFFICES ASSUME NEW i \in Timers, i \notin disturbed
                 PROVE  Regular(i)'
        BY <1>1, <1>2 DEF Undisturbed
    <2>1. InCourse(i)
        BY <1>2 DEF TablesInv, Undisturbed
    <2>2. SameEntry(i)' = SameEntry(i)
        BY <1>1 DEF SameEntry
    <2>3. CASE i = current
        <3>1. SameEntry(i) /\ status[i] = "stopped"
            BY <2>1, <2>3, <1>1, <1>3, BatchTypes DEF InCourse
        <3>2. status'[i] = "stopped"
            BY <3>1, <2>3, <1>4 DEF Outcome
        <3> QED BY <3>1, <3>2, <2>2, <2>3, <1>1 DEF Regular
    <2>4. CASE i # current
        <3>1. Regular(i)
            BY <2>1, <2>4, <1>1, <1>5, <1>7 DEF InCourse
        <3> QED BY <3>1, <2>2, <2>4, <1>1, <1>4 DEF Regular
    <2> QED BY <2>3, <2>4
<1> QED BY <1>6, <1>8, <1>9, <1>10 DEF TablesInv

\* A handler that ends and is followed by the next one of the batch.
LEMMA StayTables ==
    ASSUME TypeInv, TablesInv, NEW again \in SUBSET (Times \X {current}),
           \A p, q \in again : p = q, EndOfRun(again), ~LeavesBatch
    PROVE  TablesInv'
<1>1. /\ main = "handler" /\ main' = "between" /\ timers_ms[current] # None
      /\ timers' = timers /\ last_id' = last_id
      /\ now' = now /\ disturbed' = disturbed
      /\ due' = due /\ copy' = copy /\ current' = current
      /\ timers_new' = timers_new \cup again
    BY DEF EndOfRun, LeavesBatch
<1>2. InBatch /\ InBatch' /\ ~Settled'
    BY <1>1 DEF InBatch, Settled
<1>3. /\ current \in copy /\ current \in Timers
      /\ \A t \in Times : t # due => \A k \in timers[t] : timers_ms[k] # None
      /\ \A k \in timers[due] : k \notin copy => timers_ms[k] = due /\ \A j \in copy : j < k
      /\ \A k \in copy : HasRun(k) => timers_ms[k] = None
    BY <1>1, <1>2, BatchTypes DEF TablesInv, BatchFirst
<1>4. /\ status'[current] = Outcome(again # {})
      /\ \A i \in Timers : i # current => status'[i] = status[i]
    BY <1>3 DEF EndOfRun, TypeInv, TypeOK
<1>5. timers_ms'[current] = None /\ \A i \in Timers : i # current => timers_ms'[i] = timers_ms[i]
    BY <1>3 DEF EndOfRun, MsAfterRun, TypeInv, TypeOK
<1>6. ASSUME NEW k \in copy
      PROVE  /\ HasRun(k) <=> k < current
             /\ HasRun(k)' <=> (k = current \/ HasRun(k))
    <2>1. HasRun(k) <=> k < current
        BY <1>1 DEF HasRun
    <2>2. HasRun(k)' <=> k <= current
        BY <1>1 DEF HasRun
    <2>3. k \in Nat
        BY BatchTypes
    <2> QED BY <2>1, <2>2, <2>3, BatchTypes
<1>7. Orderly
    BY <1>1, <1>2 DEF TablesInv, Course, Again
<1>8. timers_ms[current] = due /\ \A t \in Times : current \in timers[t] => t = due
    <2>1. timers_ms[current] = due
        BY <1>1, <1>3, <1>6, <1>7, BatchTypes DEF Orderly
    <2> QED BY <2>1, BatchTypes DEF TablesInv, OneEntry
<1>9. \A p \in again : p[2] = current
    OBVIOUS
<1>10. Given' /\ OneEntry'
    BY <1>1, <1>3, <1>4, <1>5, BatchTypes DEF TablesInv, Given, OneEntry, TypeInv, TypeOK
<1>11. LeftFirst' /\ NoneLeft'
    BY <1>1, <1>2 DEF LeftFirst, NoneLeft
<1>12. BatchFirst'
    <2>1. ASSUME NEW t \in Times, t # due, NEW k \in timers[t]
          PROVE  timers_ms'[k] # None
        BY <2>1, <1>3, <1>5, <1>8, BatchTypes
    <2>2. ASSUME NEW k \in timers[due], k \notin copy
          PROVE  timers_ms'[k] = due /\ \A j \in copy : j < k
        BY <2>2, <1>3, <1>5, BatchTypes
    <2>3. ASSUME NEW k \in copy, HasRun(k)'
          PROVE  timers_ms'[k] = None
        BY <2>3, <1>3, <1>5, <1>6, BatchTypes
    <2>4. due <= now /\ \A u \in Times : timers[u] # {} => due <= u
        BY <1>2 DEF TablesInv, BatchFirst
    <2> QED BY <2>1, <2>2, <2>3, <2>4, <1>1 DEF BatchFirst
<1>13. \A p \in timers_new : p[2] \in copy /\ HasRun(p[2]) /\ p[2] # current
    BY <1>2, <1>6, BatchTypes DEF TablesInv, RepeatedOnce
<1>14. RepeatedOnce'
    <2>1. \A p, q \in timers_new' : p[2] = q[2] => p = q
        BY <1>1, <1>2, <1>9, <1>13 DEF TablesInv, RepeatedOnce
    <2>2. \A p \in timers_new' : p[2] \in copy /\ HasRun(p[2])'
        BY <1>1, <1>3, <1>6, <1>9, <1>13
    <2>3. \A p \in timers_new' : \A t \in Times : p[2] \in timers[t] => t = due
        BY <1>1, <1>2, <1>8, <1>9 DEF TablesInv, RepeatedOnce
    <2> QED BY <2>1, <2>2, <2>3, <1>1, <1>2 DEF RepeatedOnce
<1>15. Course'
    <2>1. Orderly'
        BY <1>1, <1>5, <1>6, <1>7, BatchTypes DEF Orderly
    <2> QED BY <2>1 DEF Course
<1>16. ASSUME NEW i \in Timers
       PROVE  /\ i # current => (i \in Repeated' <=> i \in Repeated)
              /\ current \in Repeated' <=> again # {}
    BY <1>1, <1>9, <1>13 DEF Repeated
<1>17. Undisturbed'
    <2> SUFFICES ASSUME NEW i \in Timers, i \notin disturbed
                 PROVE  InCourse(i)'
        BY <1>1, <1>2 DEF Undisturbed
    <2>1. InCourse(i)
        BY <1>2 DEF TablesInv, Undisturbed
    <2>2. CASE i = current
        <3>1. status[i] = "running"
            BY <2>1, <2>2, <1>1, <1>3 DEF InCourse
        <3>2. status'[i] # "running" /\ (status'[i] = "pending" <=> again # {})
            BY <3>1, <2>2, <1>4 DEF Outcome
        <3> QED BY <3>2, <2>2, <1>1, <1>3, <1>6, <1>8, <1>16 DEF InCourse
    <2>3. CASE i # current
        <3>1. SameEntry(i)' = SameEntry(i) /\ Regular(i)' = Regular(i)
            BY <2>3, <1>1, <1>4, <1>5 DEF Regular, SameEntry
        <3>2. i \in copy => (HasRun(i)' <=> HasRun(i))
            BY <2>3, <1>6
        <3> QED BY <2>1, <2>3, <3>1, <3>2, <1>1, <1>4, <1>5, <1>16 DEF InCourse
    <2> QED BY <2>2, <2>3
<1> QED BY <1>10, <1>11, <1>12, <1>14, <1>15, <1>17 DEF TablesInv

LEMMA EraseBatchTables ==
    ASSUME TypeInv, TablesInv, EraseBatch
    PROVE  TablesInv'
<1>1. /\ main = "between" /\ main' = "inserting"
      /\ timers_ms' = timers_ms /\ last_id' = last_id
      /\ now' = now /\ status' = status /\ disturbed' = disturbed
      /\ due' = due /\ copy' = copy /\ current' = current /\ timers_new' = timers_new
    BY DEF EraseBatch, batchVars
<1>2. timers'[due] = {} /\ \A t \in Times : t # due => timers'[t] = timers[t]
    BY BatchTypes DEF EraseBatch, TypeInv, TypeOK
<1>3. InBatch /\ ~InBatch' /\ ~Settled'
    BY <1>1 DEF InBatch, Settled
<1>4. \A k \in copy : HasRun(k)
    BY <1>1, BatchTypes DEF EraseBatch, Left, HasRun
<1>5. /\ \A t \in Times : t # due => \A k \in timers[t] : timers_ms[k] # None
      /\ \A k \in copy : timers_ms[k] = None
    BY <1>3, <1>4 DEF TablesInv, BatchFirst
<1>6. Given' /\ OneEntry'
    BY <1>1, <1>2 DEF TablesInv, Given, OneEntry
<1>7. LeftFirst' /\ BatchFirst' /\ Course'
    BY <1>3 DEF LeftFirst, BatchFirst, Course
<1>8. NoneLeft'
    BY <1>1, <1>2, <1>5 DEF NoneLeft
<1>9. RepeatedOnce'
    BY <1>1, <1>2, <1>3 DEF TablesInv, RepeatedOnce
<1>10. Undisturbed'
    <2> SUFFICES ASSUME NEW i \in Timers, i \notin disturbed
                 PROVE  /\ i \in Repeated => status[i] = "pending"
                        /\ i \notin Repeated => Regular(i)'
        BY <1>1, <1>3 DEF Undisturbed, Repeated
    <2>1. InCourse(i)
        BY <1>3 DEF TablesInv, Undisturbed
    <2>2. i \in Repeated => i \in copy
        BY <1>3 DEF TablesInv, RepeatedOnce, Repeated
    <2>3. CASE i \in copy
        <3>1. status[i] = "pending" <=> i \in Repeated
            BY <2>1, <2>3, <1>4 DEF InCourse
        <3>2. \A t \in Times : i \notin timers'[t]
            BY <2>1, <2>3, <1>2, <1>4 DEF InCourse
        <3> QED BY <2>3, <3>1, <3>2, <1>1, <1>5, BatchTypes DEF Regular, SameEntry
    <2>4. CASE i \notin copy
        BY <2>1, <2>2, <2>4, <1>1, <1>2 DEF InCourse, Regular, SameEntry
    <2> QED BY <2>3, <2>4
<1> QED BY <1>6, <1>7, <1>8, <1>9, <1>10 DEF TablesInv

LEMMA InsertRepeatedTables ==
    ASSUME TypeInv, TablesInv, NEW time \in Times, NEW id \in Timers,
           InsertRepeated(time, id)
    PROVE  TablesInv'
<1>1. /\ main = "inserting" /\ main' = "inserting" /\ <<time, id>> \in timers_new
      /\ last_id' = last_id /\ now' = now /\ status' = status /\ disturbed' = disturbed
      /\ due' = due /\ copy' = copy /\ current' = current
      /\ timers_new' = timers_new \ {<<time, id>>}
    BY DEF InsertRepeated
<1>2. \A t \in Times : \A k : k \in timers'[t] <=> k \in timers[t] \/ (t = time /\ k = id)
    BY DEF InsertRepeated, TypeInv, TypeOK
<1>3. timers_ms'[id] = time /\ \A i \in Timers : i # id => timers_ms'[i] = timers_ms[i]
    BY DEF InsertRepeated, MsInserted, TypeInv, TypeOK
<1>4. ~InBatch /\ ~InBatch' /\ ~Settled'
    BY <1>1 DEF InBatch, Settled
<1>5. /\ \A p, q \in timers_new : p[2] = q[2] => p = q
      /\ \A p \in timers_new : p[2] \in copy
      /\ \A p \in timers_new : \A t \in Times : p[2] \notin timers[t]
    BY <1>1, <1>4 DEF TablesInv, RepeatedOnce
<1>6. id \in copy /\ \A t \in Times : id \notin timers[t]
    BY <1>1, <1>5
<1>7. \A p \in timers_new' : p[2] # id
    BY <1>1, <1>5
<1>8. Given'
    <2>1. id \in 1..last_id
        BY <1>6 DEF TablesInv, Given
    <2>2. \A t \in Times : \A k \in timers'[t] : k \in 1..last_id
        BY <2>1, <1>2 DEF TablesInv, Given
    <2>3. \A i \in Timers : i > last_id => i # id
        BY <2>1, BatchTypes DEF TypeInv, TypeOK
    <2> QED BY <2>2, <2>3, <1>1, <1>3 DEF TablesInv, Given
<1>9. OneEntry'
    BY <1>2, <1>3, <1>6, BatchTypes DEF TablesInv, OneEntry
<1>10. LeftFirst' /\ BatchFirst' /\ Course'
    BY <1>4 DEF LeftFirst, BatchFirst, Course
<1>11. NoneLeft'
    BY <1>1, <1>2, <1>3, BatchTypes DEF TablesInv, NoneLeft
<1>12. RepeatedOnce'
    BY <1>1, <1>2, <1>4, <1>5, <1>7 DEF RepeatedOnce
<1>13. Undisturbed'
    <2> SUFFICES ASSUME NEW i \in Timers, i \notin disturbed
                 PROVE  /\ i \in Repeated' => status[i] = "pending"
                        /\ i \notin Repeated' => Regular(i)'
        BY <1>1, <1>4 DEF Undisturbed
    <2>1. /\ i \in Repeated => status[i] = "pending"
          /\ i \notin Repeated => Regular(i)
        BY <1>1 DEF TablesInv, Undisturbed
    <2>2. CASE i = id
        <3>1. status[i] = "pending"
            BY <2>1, <2>2, <1>1 DEF Repeated
        <3>2. SameEntry(i)'
            BY <2>2, <1>2, <1>3, <1>6 DEF SameEntry
        <3> QED BY <2>2, <3>1, <3>2, <1>1, <1>3, BatchTypes DEF Regular
    <2>3. CASE i # id
        <3>1. i \in Repeated' <=> i \in Repeated
            BY <2>3, <1>1 DEF Repeated
        <3>2. Regular(i)' <=> Regular(i)
            BY <2>3, <1>1, <1>2, <1>3 DEF Regular, SameEntry
        <3> QED BY <2>1, <3>1, <3>2
    <2> QED BY <2>2, <2>3
<1> QED BY <1>8, <1>9, <1>10, <1>11, <1>12, <1>13 DEF TablesInv

LEMMA EndBatchTables ==
    ASSUME TypeInv, TablesInv, EndBatch
    PROVE  TablesInv'
<1>1. /\ main = "inserting" /\ main' = "iterate" /\ timers_new = {}
      /\ timers' = timers /\ timers_ms' = timers_ms /\ last_id' = last_id
      /\ status' = status /\ disturbed' = disturbed /\ copy' = {} /\ timers_new' = {}
    BY DEF EndBatch, NoBatch, tableVars
<1>2. ~InBatch' /\ Settled'
    BY <1>1 DEF InBatch, Settled
<1>3. \A t \in Times : \A k \in timers[t] : timers_ms[k] # None
    BY <1>1 DEF TablesInv, NoneLeft
<1>4. Given' /\ OneEntry'
    BY <1>1 DEF TablesInv, Given, OneEntry
<1>5. LeftFirst' /\ BatchFirst' /\ RepeatedOnce' /\ Course' /\ NoneLeft'
    BY <1>1, <1>2, <1>3 DEF LeftFirst, BatchFirst, RepeatedOnce, Course, NoneLeft
<1>6. Undisturbed'
    <2>1. Repeated = {}
        BY <1>1 DEF Repeated
    <2> QED BY <2>1, <1>1, <1>2 DEF TablesInv, Undisturbed, Regular, SameEntry
<1> QED BY <1>4, <1>5, <1>6 DEF TablesInv

LEMMA StepTables == TypeInv /\ TablesInv /\ [Next]_vars => TablesInv'
<1> SUFFICES ASSUME TypeInv, TablesInv, [Next]_vars
             PROVE  TablesInv'
    OBVIOUS
<1>1. ASSUME Tick \/ BeginScript \/ EndScript \/ ProcessAndExit \/ EndIterate \/ Mark \/ Sweep
             \/ UNCHANGED vars
      PROVE  TablesInv'
    <2>1. now' \in Nat /\ now <= now'
        BY <1>1, NumberProperties
        DEF Tick, BeginScript, EndScript, ProcessAndExit, EndIterate, Mark, Sweep, vars,
            TypeInv, TypeOK
    <2>2. UNCHANGED <<tableVars, last_id, batchVars, status, disturbed>>
        BY <1>1
        DEF Tick, BeginScript, EndScript, ProcessAndExit, EndIterate, Mark, Sweep, vars
    <2>3. main' = main \/ (Settled /\ main' \in {"frame", "script", "iterate", "exited"})
        BY <1>1
        DEF Tick, BeginScript, EndScript, ProcessAndExit, EndIterate, Mark, Sweep, vars, Settled
    <2> QED BY <2>1, <2>2, <2>3, QuietStep
<1>2. CASE Script
    BY <1>2, StartTimerTables, StopTimerTables DEF Script
<1>3. CASE StopTimers
    BY <1>3, StopTimersTables
<1>4. CASE Batch
    BY <1>4, BeginBatchTables, EraseBatchTables, InsertRepeatedTables, EndBatchTables DEF Batch
<1>5. CASE BeginRun
    BY <1>5, BeginHandlerTables DEF BeginRun
<1>6. CASE HandlerEnds
    <2>1. EndOfRun({}) /\ {} \in SUBSET (Times \X {current})
        BY <1>6 DEF HandlerEnds
    <2> QED BY <2>1, LeaveTables, StayTables
<1>7. ASSUME NEW ms \in Delays, HandlerRepeats(ms)
      PROVE  TablesInv'
    <2> DEFINE again == {<<RepeatTime(ms), current>>}
    <2>1. EndOfRun(again) /\ again \in SUBSET (Times \X {current}) /\ \A p, q \in again : p = q
        BY <1>7, RepeatIsTime DEF HandlerRepeats
    <2> HIDE DEF again
    <2> QED BY <2>1, LeaveTables, StayTables
<1> QED BY <1>1, <1>2, <1>3, <1>4, <1>5, <1>6, <1>7 DEF Next, EndRun

\* Between batches m_timers and m_timers_ms hold the timers that scripts expect
\* to run, but for those that a handler of their own batch interfered with.
THEOREM TablesCorrect == Spec => []TablesMatchScripts
<1>1. TypeInv /\ TablesInv => TablesMatchScripts
    <2> SUFFICES ASSUME TypeInv, TablesInv, Settled, NEW i \in Timers, i \notin disturbed
                 PROVE  /\ (status[i] = "pending") = (timers_ms[i] # None)
                        /\ (status[i] = "pending") = (\E t \in Times : i \in timers[t])
        BY DEF TablesMatchScripts
    <2>1. Regular(i)
        BY DEF TablesInv, Undisturbed
    <2>2. timers_ms[i] # None => timers_ms[i] \in Times
        BY DEF TypeInv, TypeOK
    <2> QED BY <2>1, <2>2, NumberProperties DEF Regular, SameEntry
<1> QED BY <1>1, InitTypes, InitTables, StepTypes, StepTables, PTL DEF Spec

\* A handler runs only when the scripts expect it.
THEOREM HandlersExpected == Spec => RunsAsExpected
<1> DEFINE Expectation == \A i \in Timers \ disturbed :
                status[i] # status'[i] /\ status'[i] = "running" => status[i] = "pending"
<1>1. ASSUME TypeInv, TablesInv, Next
      PROVE  Expectation
    <2> SUFFICES ASSUME NEW i \in Timers, i \notin disturbed,
                        status[i] # status'[i], status'[i] = "running"
                 PROVE  status[i] = "pending"
        OBVIOUS
    <2>1. BeginHandler(i)
        <3>1. ASSUME NEW id \in Timers, BeginHandler(id)
              PROVE  id = i
            BY <3>1 DEF BeginHandler, TypeInv, TypeOK
        <3>2. ~StopTimers
            BY DEF StopTimers, Expected, TypeInv, TypeOK
        <3>3. ~Script
            <4>1. ASSUME NEW ms \in Delays, StartTimer(ms)
                  PROVE  FALSE
                BY <4>1 DEF StartTimer, TypeInv, TypeOK
            <4>2. ASSUME NEW id \in Timers, StopTimer(id)
                  PROVE  FALSE
                BY <4>2 DEF StopTimer, TypeInv, TypeOK
            <4> QED BY <4>1, <4>2 DEF Script
        <3>4. ASSUME NEW again, EndOfRun(again)
              PROVE  FALSE
            <4>1. status' = [status EXCEPT ![current] = Outcome(again # {})]
                BY <3>4 DEF EndOfRun
            <4>2. Outcome(again # {}) # "running"
                BY DEF Outcome
            <4> QED BY <4>1, <4>2 DEF TypeInv, TypeOK
        <3>5. ~(Tick \/ BeginScript \/ EndScript \/ ProcessAndExit \/ Batch \/ EndIterate \/ Mark \/ Sweep)
            BY DEF Tick, BeginScript, EndScript, ProcessAndExit, Batch, BeginBatch, EraseBatch,
                   InsertRepeated, EndBatch, EndIterate, Mark, Sweep
        <3> QED
            BY <1>1, <3>1, <3>2, <3>3, <3>4, <3>5
            DEF Next, BeginRun, EndRun, HandlerEnds, HandlerRepeats
    <2>2. InBatch /\ main = "between" /\ i \in copy /\ ~HasRun(i)
        BY <2>1, BatchTypes, <1>1 DEF BeginHandler, Left, InBatch, HasRun
    <2>3. Regular(i) /\ timers_ms[i] = due
        BY <2>2, <1>1 DEF TablesInv, Undisturbed, InCourse
    <2> QED BY <2>3, <1>1, BatchTypes DEF Regular
<1>2. TypeInv /\ TablesInv /\ [Next]_vars => [Expectation]_vars
    BY <1>1
<1> QED BY <1>2, InitTypes, InitTables, StepTypes, StepTables, PTL DEF Spec, RunsAsExpected

-----------------------------------------------------------------------------
(* The collector *)

KeptInv ==
    /\ \A i \in collected : i <= last_id
    /\ collecting => ~is_stopping /\ ~InScript /\ main # "crashed"
    /\ \A p \in timers_new : repeats[p[2]] # 0
    /\ \A i \in Timers \ disturbed :
          status[i] = "pending" /\ repeats[i] = 0 =>
              i \notin collected /\ (collecting => i \in marked)

LEMMA InitKept == Init => KeptInv
BY DEF Init, KeptInv

\* Whatever is to run for the first time is in m_timers, at every stage of a batch.
LEMMA PendingIsReachable ==
    ASSUME TypeInv, TablesInv, KeptInv, main # "crashed",
           NEW i \in Timers, i \notin disturbed, status[i] = "pending", repeats[i] = 0
    PROVE  i \in Reachable /\ i \in 1..last_id
<1>1. i \notin Repeated
    BY DEF KeptInv, Repeated
<1>2. Regular(i)
    <2>1. CASE InBatch
        <3>1. InCourse(i)
            BY <2>1 DEF TablesInv, Undisturbed
        <3> QED BY <1>1, <3>1 DEF InCourse
    <2>2. CASE ~InBatch
        BY <1>1, <2>2 DEF TablesInv, Undisturbed, InBatch, Settled, TypeInv, TypeOK
    <2> QED BY <2>1, <2>2
<1>3. timers_ms[i] \in Times
    BY <1>2 DEF Regular, TypeInv, TypeOK
<1>4. i \in timers[timers_ms[i]]
    BY <1>2, <1>3 DEF Regular, SameEntry
<1>5. i \in 1..last_id
    BY <1>3, <1>4 DEF TablesInv, Given
<1> QED BY <1>3, <1>4, <1>5 DEF Reachable

LEMMA StepKept == TypeInv /\ TablesInv /\ KeptInv /\ [Next]_vars => KeptInv'
<1> SUFFICES ASSUME TypeInv, TablesInv, KeptInv, [Next]_vars
             PROVE  KeptInv'
    OBVIOUS
<1> USE NumberProperties
<1>1. CASE UNCHANGED vars \/ Tick
    BY <1>1 DEF vars, Tick, tableVars, batchVars, gcVars, KeptInv, InScript
<1>2. ASSUME NEW ms \in Delays, StartTimer(ms)
      PROVE  KeptInv'
    <2>1. /\ \A i \in collected : i # last_id + 1 /\ i <= last_id + 1
          /\ last_id + 1 \in Timers
          /\ ~collecting
        BY <1>2 DEF StartTimer, KeptInv, TypeInv, TypeOK, Timers
    <2>2. \A i \in Timers : i # last_id + 1 => status'[i] = status[i]
        BY <1>2 DEF StartTimer, TypeInv, TypeOK
    <2>3. /\ disturbed \subseteq disturbed' /\ repeats' = repeats /\ timers_new' = timers_new
          /\ collected' = collected /\ collecting' = collecting /\ last_id' = last_id + 1
        BY <1>2 DEF StartTimer, batchVars, gcVars
    <2> QED BY <2>1, <2>2, <2>3 DEF KeptInv
<1>3. ASSUME NEW id \in Timers, StopTimer(id)
      PROVE  KeptInv'
    <2>1. ~collecting
        BY <1>3 DEF StopTimer, KeptInv
    <2>2. \A i \in Timers : status'[i] = "pending" => status[i] = "pending"
        BY <1>3 DEF StopTimer, TypeInv, TypeOK
    <2>3. /\ disturbed \subseteq disturbed' /\ repeats' = repeats /\ timers_new' = timers_new
          /\ collected' = collected /\ collecting' = collecting /\ last_id' = last_id
        BY <1>3 DEF StopTimer, batchVars, gcVars
    <2> QED BY <2>1, <2>2, <2>3 DEF KeptInv
<1>4. CASE BeginScript \/ EndScript \/ ProcessAndExit \/ EndIterate
    BY <1>4
    DEF BeginScript, EndScript, ProcessAndExit, EndIterate, CanAccumulate, tableVars,
        batchVars, gcVars, KeptInv, InScript
<1>5. CASE StopTimers
    <2>1. \A i \in Timers : status'[i] = "pending" => status[i] = "pending"
        BY <1>5 DEF StopTimers, Expected, TypeInv, TypeOK
    <2> QED BY <1>5, <2>1 DEF StopTimers, batchVars, gcVars, KeptInv, InScript
<1>6. CASE Batch
    <2>1. /\ main' \in {"between", "inserting", "iterate"}
          /\ repeats' = repeats /\ last_id' = last_id /\ is_stopping' = is_stopping
          /\ status' = status /\ disturbed' = disturbed
          /\ UNCHANGED gcVars
        BY <1>6 DEF Batch, BeginBatch, EraseBatch, InsertRepeated, EndBatch
    <2>2. timers_new' \subseteq timers_new
        BY <1>6 DEF Batch, BeginBatch, EraseBatch, InsertRepeated, EndBatch, NoBatch, batchVars
    <2> QED BY <2>1, <2>2 DEF gcVars, KeptInv, InScript
<1>7. ASSUME NEW id \in Timers, BeginHandler(id)
      PROVE  KeptInv'
    <2>1. \A i \in Timers : status'[i] = "pending" => status[i] = "pending"
        BY <1>7 DEF BeginHandler, TypeInv, TypeOK
    <2>2. ~collecting
        BY <1>7 DEF BeginHandler, CanAccumulate, KeptInv
    <2> QED BY <1>7, <2>1, <2>2 DEF BeginHandler, gcVars, KeptInv
<1>8. CASE HandlerEnds
    <2>1. status' = [status EXCEPT ![current] = Outcome(FALSE)] /\ Outcome(FALSE) # "pending"
        BY <1>8 DEF HandlerEnds, EndOfRun, Outcome
    <2>2. \A i \in Timers : status'[i] = "pending" => status[i] = "pending"
        BY <2>1 DEF TypeInv, TypeOK
    <2>3. ~collecting /\ collecting' = collecting
        BY <1>8 DEF HandlerEnds, EndOfRun, KeptInv, InScript, gcVars
    <2>4. timers_new' \subseteq timers_new
        BY <1>8 DEF HandlerEnds, EndOfRun, NoBatch
    <2> QED BY <1>8, <2>2, <2>3, <2>4 DEF HandlerEnds, EndOfRun, gcVars, KeptInv
<1>9. ASSUME NEW ms \in Delays, HandlerRepeats(ms)
      PROVE  KeptInv'
    <2>1. /\ repeats'[current] # 0
          /\ \A i \in Timers : i # current => repeats'[i] = repeats[i]
        BY <1>9 DEF HandlerRepeats, TypeInv, TypeOK
    <2>2. /\ ~collecting /\ collecting' = collecting /\ collected' = collected
          /\ last_id' = last_id /\ disturbed' = disturbed
        BY <1>9 DEF HandlerRepeats, EndOfRun, KeptInv, InScript, gcVars
    <2>3. \A i \in Timers : i # current => status'[i] = status[i]
        BY <1>9 DEF HandlerRepeats, EndOfRun, TypeInv, TypeOK
    <2>4. \A p \in timers_new' : p[2] \in Timers /\ (p \in timers_new \/ p[2] = current)
        <3>1. timers_new' \subseteq timers_new \cup {<<RepeatTime(ms), current>>}
            BY <1>9 DEF HandlerRepeats, EndOfRun, NoBatch
        <3> QED BY <1>9, <3>1 DEF HandlerRepeats, TypeInv, TypeOK
    <2>5. \A p \in timers_new' : repeats'[p[2]] # 0
        BY <2>1, <2>4 DEF KeptInv
    <2>6. \A i \in Timers \ disturbed' : status'[i] = "pending" /\ repeats'[i] = 0 => i \notin collected'
        BY <2>1, <2>2, <2>3 DEF KeptInv
    <2> QED BY <2>2, <2>5, <2>6 DEF KeptInv
<1>10. CASE Mark
    <2>1. ASSUME NEW i \in Timers, i \notin disturbed, status[i] = "pending", repeats[i] = 0
          PROVE  i \in marked'
        BY <1>10, <2>1, PendingIsReachable DEF Mark
    <2> QED BY <1>10, <2>1 DEF Mark, Accumulating, InScript, batchVars, KeptInv
<1>11. CASE Sweep
    <2>1. \A i \in collected' : i <= last_id
        BY <1>11 DEF Sweep, KeptInv, TypeInv, TypeOK
    <2>2. ASSUME NEW i \in Timers, i \notin disturbed, status[i] = "pending", repeats[i] = 0
          PROVE  i \notin collected'
        BY <1>11, <2>2 DEF Sweep, KeptInv
    <2> QED BY <1>11, <2>1, <2>2 DEF Sweep, batchVars, KeptInv
<1> QED
    BY <1>1, <1>2, <1>3, <1>4, <1>5, <1>6, <1>7, <1>8, <1>9, <1>10, <1>11
    DEF Next, Script, BeginRun, EndRun

\* The collector keeps a timer's callable until the timer has run, whenever it
\* collects and whichever other timers are run again.
THEOREM CallablesKept == Spec => []FirstRunKept
<1>1. KeptInv => FirstRunKept
    BY DEF KeptInv, FirstRunKept
<1> QED
    BY <1>1, InitTypes, InitTables, InitKept, StepTypes, StepTables, StepKept, PTL DEF Spec
=============================================================================
