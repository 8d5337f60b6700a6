---------------------------- MODULE ScriptTimers ----------------------------
(***************************************************************************)
(* The timers of GLSMAC's scripts (gse::Async) and the garbage collector   *)
(* that decides what of them is reachable (gc::Space).  MAIN runs scripts  *)
(* and the handlers of the timers that are due, each inside an Accumulate  *)
(* that excludes a collection; the GC thread collects in between.          *)
(*                                                                         *)
(* What a script does is any sequence of starts and stops.  A timer stands *)
(* for its callable too: an anonymous function that nothing but the timer  *)
(* refers to, as the scripts pass it.  Abstracted: the number that a timer *)
(* is run again after (its own if the handler returns true, the returned   *)
(* one if it returns a number) is any of Delays.  Not modelled: an error   *)
(* raised by a handler, which ends the program, and ids that wrap around.  *)
(***************************************************************************)
EXTENDS Naturals, FiniteSets
LOCAL INSTANCE Functions

CONSTANTS
    MaxTimers,    \* bound: timers the scripts start
    MaxTime,      \* bound: the last millisecond at which a timer may be due
    MaxRepeats,   \* bound: how often, in all, handlers ask to be run again
    Delays        \* milliseconds that scripts wait for

ASSUME BoundsAssumption == MaxTimers \in Nat /\ MaxTime \in Nat /\ MaxRepeats \in Nat
ASSUME DelaysAssumption == Delays \subseteq Nat

Timers == 1..MaxTimers
Times == 0..MaxTime
None == MaxTime + 1   \* no entry in m_timers_ms

VARIABLES
    now,         \* util::Time::Now()
    timers,      \* m_timers: the ids due at a time, {} where there is no entry
    timers_ms,   \* m_timers_ms
    last_id,     \* s_next_id
    repeats,     \* how often a timer's handler asked to be run again
    is_stopping, \* ProcessAndExit runs: MAIN holds m_collect_mutex until it exits
    main,        \* what MAIN does
    due,         \* the time of the batch that ProcessTimers works on
    copy,        \* the ids of its copy of that batch
    current,     \* the last of them whose handler was called
    timers_new,  \* timers_new: <<time, id>> of those that asked to be run again
    marked,      \* m_reachable_objects_tmp of a collection under way
    collecting,  \* the GC thread holds m_collect_mutex
    collected,   \* timers whose callable was deleted
    status,      \* history: what the scripts expect of a timer
    disturbed    \* history: timers of a batch that a handler of it interfered with

tableVars == <<timers, timers_ms>>
batchVars == <<due, copy, current, timers_new>>
gcVars == <<marked, collecting, collected>>
vars == <<now, tableVars, last_id, repeats, is_stopping, main, batchVars, gcVars,
          status, disturbed>>

TypeOK ==
    /\ now \in Times
    /\ timers \in [Times -> SUBSET Timers]
    /\ timers_ms \in [Timers -> Times \cup {None}]
    /\ last_id \in 0..MaxTimers
    /\ repeats \in [Timers -> Nat]
    /\ is_stopping \in BOOLEAN
    /\ main \in {"frame", "script", "iterate", "between", "handler", "inserting",
                 "exited", "crashed"}
    /\ due \in Times
    /\ copy \in SUBSET Timers
    /\ current \in 0..MaxTimers
    /\ timers_new \in SUBSET (Times \X Timers)
    /\ marked \in SUBSET Timers
    /\ collecting \in BOOLEAN
    /\ collected \in SUBSET Timers
    /\ status \in [Timers -> {"unknown", "pending", "running", "done", "stopped"}]
    /\ disturbed \in SUBSET Timers

Init ==
    /\ now = 0
    /\ timers = [t \in Times |-> {}]
    /\ timers_ms = [i \in Timers |-> None]
    /\ last_id = 0
    /\ repeats = [i \in Timers |-> 0]
    /\ is_stopping = FALSE
    /\ main = "frame"
    /\ due = 0
    /\ copy = {}
    /\ current = 0
    /\ timers_new = {}
    /\ marked = {}
    /\ collecting = FALSE
    /\ collected = {}
    /\ status = [i \in Timers |-> "unknown"]
    /\ disturbed = {}

Tick ==
    /\ now < MaxTime
    /\ now' = now + 1
    /\ UNCHANGED <<tableVars, last_id, repeats, is_stopping, main, batchVars, gcVars,
                   status, disturbed>>

-----------------------------------------------------------------------------
(* What scripts do, in a handler of a timer or in any other script *)

InScript == main \in {"script", "handler"}

\* A timer started at the very time of the batch joins the entry that the end
\* of the batch erases.
StartTimer(ms) ==
    /\ InScript
    /\ last_id < MaxTimers
    /\ now + ms <= MaxTime
    /\ LET id == last_id + 1
           time == now + ms IN
        /\ last_id' = id
        /\ timers' = [timers EXCEPT ![time] = @ \cup {id}]
        /\ timers_ms' = [timers_ms EXCEPT ![id] = time]
        /\ status' = [status EXCEPT ![id] = "pending"]
        /\ disturbed' = IF main = "handler" /\ time = due THEN disturbed \cup {id} ELSE disturbed
    /\ UNCHANGED <<now, repeats, is_stopping, main, batchVars, gcVars>>

\* The timers whose runs are not what their scripts expect once a handler has
\* stopped id: those that ran before the batch is left early stay in m_timers,
\* those of the copy run although they were stopped.
Disturbs(id) ==
    IF main # "handler" \/ id \notin copy THEN {}
    ELSE IF id = current THEN {i \in copy : i < id}
    ELSE IF id > current THEN {i \in copy : i <= id}
    ELSE {id}

MsStopped(id) == [timers_ms EXCEPT ![id] = None]

\* Fault: the timer is not taken out of its entry.
TimersStoppedKept(id) == timers

\* Fault: the timers of the same time go with it.
TimersStoppedAll(id) == [timers EXCEPT ![timers_ms[id]] = {}]

TimersStopped(id) == [timers EXCEPT ![timers_ms[id]] = @ \ {id}]

Expected(id) == status[id] \in {"pending", "running"}

StopTimer(id) ==
    /\ InScript
    /\ Expected(id)
    /\ IF timers_ms[id] = None
       THEN UNCHANGED <<tableVars, main>>
       ELSE IF timers[timers_ms[id]] = {}
       THEN main' = "crashed" /\ UNCHANGED tableVars   \* m_timers.at throws
       ELSE /\ timers' = TimersStopped(id)
            /\ timers_ms' = MsStopped(id)
            /\ UNCHANGED main
    /\ status' = [status EXCEPT ![id] = "stopped"]
    /\ disturbed' = disturbed \cup Disturbs(id)
    /\ UNCHANGED <<now, last_id, repeats, is_stopping, batchVars, gcVars>>

-----------------------------------------------------------------------------
(* A frame of MAIN: scripts, then the timers *)

\* Fault: scripts do not wait for the collector.
CanAccumulateAlways == TRUE

CanAccumulate == is_stopping \/ ~collecting

BeginScript ==
    /\ main = "frame"
    /\ CanAccumulate
    /\ main' = "script"
    /\ UNCHANGED <<now, tableVars, last_id, repeats, is_stopping, batchVars, gcVars,
                   status, disturbed>>

EndScript ==
    /\ main = "script"
    /\ main' = "iterate"
    /\ UNCHANGED <<now, tableVars, last_id, repeats, is_stopping, batchVars, gcVars,
                   status, disturbed>>

\* ~GLSMAC drops every timer.
StopTimers ==
    /\ main = "frame"
    /\ timers' = [t \in Times |-> {}]
    /\ timers_ms' = [i \in Timers |-> None]
    /\ status' = [i \in Timers |-> IF Expected(i) THEN "stopped" ELSE status[i]]
    /\ UNCHANGED <<now, last_id, repeats, is_stopping, main, batchVars, gcVars, disturbed>>

\* ~GSE runs what is left inside one Accumulate.
ProcessAndExit ==
    /\ main = "frame"
    /\ ~collecting
    /\ is_stopping' = TRUE
    /\ main' = "iterate"
    /\ UNCHANGED <<now, tableVars, last_id, repeats, batchVars, gcVars, status, disturbed>>

DueTimes == {t \in Times : timers[t] # {}}
IsFirst(t) == t \in DueTimes /\ \A u \in DueTimes : t <= u

\* Iterate takes what is due; ProcessAndExit sleeps until it is.
BeginBatch(t) ==
    /\ main = "iterate"
    /\ IsFirst(t)
    /\ now >= t
    /\ main' = "between"
    /\ due' = t
    /\ copy' = timers[t]
    /\ current' = 0
    /\ timers_new' = {}
    /\ UNCHANGED <<now, tableVars, last_id, repeats, is_stopping, gcVars, status, disturbed>>

EndIterate ==
    /\ main = "iterate"
    /\ IF is_stopping
       THEN DueTimes = {} /\ main' = "exited"
       ELSE (\A t \in DueTimes : now < t) /\ main' = "frame"
    /\ UNCHANGED <<now, tableVars, last_id, repeats, is_stopping, batchVars, gcVars,
                   status, disturbed>>

Left == {i \in copy : i > current}

BeginHandler(id) ==
    /\ main = "between"
    /\ CanAccumulate
    /\ id \in Left
    /\ \A i \in Left : id <= i
    /\ main' = "handler"
    /\ current' = id
    /\ status' = [status EXCEPT ![id] = "running"]
    /\ UNCHANGED <<now, tableVars, last_id, repeats, is_stopping, due, copy, timers_new,
                   gcVars, disturbed>>

\* Fault: the test is the wrong way round.
LeavesBatchInverted == timers_ms[current] # None

\* "timer was deleted in its own handler, should restart the whole cycle"
LeavesBatch == timers_ms[current] = None

MsAfterRun == [timers_ms EXCEPT ![current] = None]

Outcome(repeat) ==
    IF status[current] = "stopped" THEN "stopped" ELSE IF repeat THEN "pending" ELSE "done"

\* The local variables of ProcessTimers end with it.
NoBatch == due' = 0 /\ copy' = {} /\ current' = 0 /\ timers_new' = {}

EndOfRun(again) ==
    /\ main = "handler"
    /\ status' = [status EXCEPT ![current] = Outcome(again # {})]
    /\ IF LeavesBatch
       THEN main' = "iterate" /\ NoBatch /\ UNCHANGED timers_ms
       ELSE /\ main' = "between"
            /\ timers_new' = timers_new \cup again
            /\ timers_ms' = MsAfterRun
            /\ UNCHANGED <<due, copy, current>>
    /\ UNCHANGED <<now, timers, last_id, is_stopping, gcVars, disturbed>>

HandlerEnds == EndOfRun({}) /\ UNCHANGED repeats

\* Fault: the delay is one too long.
RepeatTimeLate(ms) == now + ms + 1

RepeatTime(ms) == now + ms

HandlerRepeats(ms) ==
    /\ main = "handler"
    /\ SumFunction(repeats) < MaxRepeats
    /\ now + ms <= MaxTime
    /\ repeats' = [repeats EXCEPT ![current] = @ + 1]
    /\ EndOfRun({<<RepeatTime(ms), current>>})

\* From here on to the end of the batch m_timers changes outside any Accumulate.
EraseBatch ==
    /\ main = "between"
    /\ Left = {}
    /\ main' = "inserting"
    /\ timers' = [timers EXCEPT ![due] = {}]
    /\ UNCHANGED <<now, timers_ms, last_id, repeats, is_stopping, batchVars, gcVars,
                   status, disturbed>>

MsInserted(time, id) == [timers_ms EXCEPT ![id] = time]

InsertRepeated(time, id) ==
    /\ main = "inserting"
    /\ <<time, id>> \in timers_new
    /\ \A p \in timers_new : time < p[1] \/ (time = p[1] /\ id <= p[2])
    /\ timers' = [timers EXCEPT ![time] = @ \cup {id}]
    /\ timers_ms' = MsInserted(time, id)
    /\ timers_new' = timers_new \ {<<time, id>>}
    /\ UNCHANGED <<now, last_id, repeats, is_stopping, main, due, copy, current, gcVars,
                   status, disturbed>>

EndBatch ==
    /\ main = "inserting"
    /\ timers_new = {}
    /\ main' = "iterate"
    /\ NoBatch
    /\ UNCHANGED <<now, tableVars, last_id, repeats, is_stopping, gcVars, status, disturbed>>

-----------------------------------------------------------------------------
(* The GC thread *)

Accumulating == is_stopping \/ InScript

Reachable == UNION {timers[t] : t \in Times}

Mark ==
    /\ ~collecting
    /\ ~Accumulating
    /\ main # "crashed"
    /\ collecting' = TRUE
    /\ marked' = Reachable
    /\ UNCHANGED <<now, tableVars, last_id, repeats, is_stopping, main, batchVars, collected,
                   status, disturbed>>

Sweep ==
    /\ collecting
    /\ collecting' = FALSE
    /\ collected' = collected \cup ((1..last_id) \ marked)
    /\ marked' = {}
    /\ UNCHANGED <<now, tableVars, last_id, repeats, is_stopping, main, batchVars,
                   status, disturbed>>

-----------------------------------------------------------------------------

Script == (\E ms \in Delays : StartTimer(ms)) \/ (\E id \in Timers : StopTimer(id))

BeginRun == \E id \in Timers : BeginHandler(id)
EndRun == HandlerEnds \/ \E ms \in Delays : HandlerRepeats(ms)

Batch ==
    \/ \E t \in Times : BeginBatch(t)
    \/ EraseBatch
    \/ \E time \in Times, id \in Timers : InsertRepeated(time, id)
    \/ EndBatch

Next ==
    \/ Tick
    \/ Script
    \/ BeginScript \/ EndScript \/ StopTimers \/ ProcessAndExit
    \/ Batch \/ BeginRun \/ EndRun \/ EndIterate
    \/ Mark \/ Sweep

Spec == Init /\ [][Next]_vars

\* The clock advances, scripts return, MAIN goes on with its frame, and a
\* collection ends.  The GC thread sleeps between collections, so that MAIN,
\* waiting for m_collect_mutex, gets it in the end: strong fairness.
Fairness ==
    /\ WF_vars(Tick)
    /\ WF_vars(EndScript)
    /\ WF_vars(Batch)
    /\ WF_vars(EndIterate)
    /\ WF_vars(EndRun)
    /\ SF_vars(BeginScript)
    /\ SF_vars(BeginRun)
    /\ WF_vars(Sweep)

FairSpec == Spec /\ Fairness
-----------------------------------------------------------------------------
(* Properties *)

Settled == main \in {"frame", "script", "iterate", "exited"}

\* Between batches the tables hold exactly the timers that scripts expect to
\* run, for every timer that no handler of its own batch interfered with:
\* none is lost, and none that was stopped or ran is left over.
TablesMatchScripts ==
    Settled =>
        \A i \in Timers \ disturbed :
            /\ (status[i] = "pending") = (timers_ms[i] # None)
            /\ (status[i] = "pending") = (\E t \in Times : i \in timers[t])

\* The callable of a timer that has to run is not collected before its first run
\* (Async.cpp:137, "timer callables are reachable"), wherever collections fall in
\* the frames, the runs and the repeats of the other timers.  One that asked to be
\* run again may lose it: from the erasure of its batch until it is inserted
\* again it is in no table, and nothing keeps the collector out.
FirstRunKept ==
    \A i \in Timers \ disturbed :
        status[i] = "pending" /\ repeats[i] = 0 => i \notin collected

\* A handler runs only if the scripts expect it: not after its timer was
\* stopped, and not again after a run that did not ask for another.
RunsAsExpected ==
    [][\A i \in Timers \ disturbed :
        status[i] # status'[i] /\ status'[i] = "running" => status[i] = "pending"]_vars

\* A timer runs, or is stopped, whatever else the scripts do.
TimersRun ==
    \A i \in Timers :
        (status[i] = "pending") ~> (status[i] # "pending" \/ disturbed # {})

\* ProcessAndExit comes to an end, once handlers stop asking for more.
ExitEnds == is_stopping ~> (main = "exited" \/ disturbed # {})
=============================================================================
