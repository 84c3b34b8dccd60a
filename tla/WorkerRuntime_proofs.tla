------------------------ MODULE WorkerRuntime_proofs ------------------------
(* Proofs about WorkerRuntime, for any tasks, runs, configurations and limit. *)
EXTENDS WorkerRuntime, FiniteSetTheorems, FunctionTheorems, TLAPS

USE RuntimeAssumption

LEMMA Initially == Init => RuntimeInv
<1> SUFFICES ASSUME Init PROVE RuntimeInv
  OBVIOUS
<1> USE DEF Init, Maybe, Active, Launching, Continuing
<1>1. TypeOK /\ RunsKnowTheirTask
  BY DEF TypeOK, RunsKnowTheirTask
<1>2. OneGeneration /\ RunsAreRegistered /\ NotYetWaited
  BY DEF OneGeneration, RunsAreRegistered, NotYetWaited
<1>3. Running = {}
  BY DEF Running
<1>4. SlotsBounded
  BY <1>3, FS_EmptySet DEF SlotsBounded
<1>5. LaunchesSerialised /\ BoundToChild /\ SourceMatches
  BY DEF LaunchesSerialised, Deciding, BoundToChild, Before, ServerIsChild, SourceMatches
<1> QED
  BY <1>1, <1>2, <1>4, <1>5 DEF RuntimeInv, ServersTracked

-----------------------------------------------------------------------------
(* Every step preserves each part of the invariant.                          *)

\* Types, and what an active run knows.
LEMMA Types ==
  ASSUME TypeOK, RunsKnowTheirTask, [Next]_vars
  PROVE  TypeOK' /\ RunsKnowTheirTask'
<1> USE DEF TypeOK, RunsKnowTheirTask, Maybe, schedulerVars, runtimeVars, Active, Launching, Continuing
<1>1. ASSUME NEW r \in Runs, NEW t \in Tasks, NEW c \in Configs, Accept(r, t, c)
      PROVE  TypeOK' /\ RunsKnowTheirTask'
  BY <1>1 DEF Accept
<1>2. ASSUME NEW r \in Runs, Configure(r) PROVE TypeOK' /\ RunsKnowTheirTask'
  BY <1>2 DEF Configure, Matches
<1>3. ASSUME NEW r \in Runs, Resume(r) PROVE TypeOK' /\ RunsKnowTheirTask'
  BY <1>3 DEF Resume, Matches
<1>4. ASSUME NEW r \in Runs, Generate(r) PROVE TypeOK' /\ RunsKnowTheirTask'
  <2> USE <1>4 DEF Generate, MayGenerate, Busy, Ends, Unregistered
  <2>1. source' \in [Runs -> Maybe(Runs)]
    BY DEF Answering, Serving
  <2> QED BY <2>1
<1>5. ASSUME NEW r \in Runs, Unprepared(r) PROVE TypeOK' /\ RunsKnowTheirTask'
  BY <1>5 DEF Unprepared, Ends, Unregistered, Trouble
<1>6. ASSUME NEW r \in Runs, StreamEnds(r) PROVE TypeOK' /\ RunsKnowTheirTask'
  BY <1>6 DEF StreamEnds, Ends, Unregistered
<1>7. ASSUME NEW r \in Runs, Fetched(r) PROVE TypeOK' /\ RunsKnowTheirTask'
  BY <1>7 DEF Fetched, Spawn, Terminated
<1>8. ASSUME NEW r \in Runs, Waited(r) PROVE TypeOK' /\ RunsKnowTheirTask'
  BY <1>8 DEF Waited, Spawn
<1>9. ASSUME NEW r \in Runs, Asked(r) PROVE TypeOK' /\ RunsKnowTheirTask'
  BY <1>9 DEF Asked
<1>10. ASSUME NEW r \in Runs, Healthy(r) PROVE TypeOK' /\ RunsKnowTheirTask'
  BY <1>10 DEF Healthy, Resumed, Waits
<1>11. ASSUME NEW r \in Runs, Stopped(r) PROVE TypeOK' /\ RunsKnowTheirTask'
  BY <1>11 DEF Stopped, ShutdownChild, Terminated, LaunchFails, Resumed, Waits, Unregistered
<1>12. ASSUME NEW r \in Runs, Failed(r) PROVE TypeOK' /\ RunsKnowTheirTask'
  BY <1>12 DEF Failed, LaunchFails, Resumed, Waits, Unregistered
<1>13. ASSUME NEW r \in Runs, FetchFails(r) PROVE TypeOK' /\ RunsKnowTheirTask'
  BY <1>13 DEF FetchFails, LaunchFails, Resumed, Waits, Unregistered, Trouble
<1>14. ASSUME NEW r \in Runs, Overdue(r) PROVE TypeOK' /\ RunsKnowTheirTask'
  BY <1>14 DEF Overdue, ShutdownChild, Terminated, Trouble
<1>15. ASSUME NEW r \in Runs, Listen(r) PROVE TypeOK' /\ RunsKnowTheirTask'
  BY <1>15 DEF Listen, Exited, PortTaken
<1>16. ASSUME NEW r \in Runs, Crash(r) PROVE TypeOK' /\ RunsKnowTheirTask'
  <2> USE <1>16 DEF Crash, Exited, Trouble
  <2>1. troubles' \in Nat /\ process' \in [Runs -> {"unused", "starting", "serving", "terminating", "gone"}]
    OBVIOUS
  <2>2. child' \in Maybe(Runs) /\ current' \in Maybe(Configs) /\ available' \in BOOLEAN
    OBVIOUS
  <2> QED BY <2>1, <2>2
<1>17. ASSUME NEW r \in Runs, Terminate(r) PROVE TypeOK' /\ RunsKnowTheirTask'
  BY <1>17 DEF Terminate, Exited
<1>18. ASSUME NEW t \in Tasks, Cancel(t) PROVE TypeOK' /\ RunsKnowTheirTask'
  BY <1>18 DEF Cancel, Trouble
<1>19. ASSUME Pause PROVE TypeOK' /\ RunsKnowTheirTask'
  BY <1>19 DEF Pause, Trouble, ShutdownChild, Terminated, Cut, Running
<1>20. CASE Unpause
  BY <1>20 DEF Unpause
<1>21. CASE UNCHANGED vars
  BY <1>21 DEF vars
<1> QED
  BY <1>1, <1>2, <1>3, <1>4, <1>5, <1>6, <1>7, <1>8, <1>9, <1>10, <1>11, <1>12, <1>13, <1>14, <1>15, <1>16, <1>17, <1>18, <1>19, <1>20, <1>21
  DEF Next, Continues, Launches

\* The flag generating is set exactly while one run generates.
LEMMA Generations ==
  ASSUME TypeOK, OneGeneration, [Next]_vars
  PROVE  OneGeneration'
<1> USE DEF TypeOK, OneGeneration, Maybe, schedulerVars, runtimeVars
<1>1. ASSUME NEW r \in Runs, NEW t \in Tasks, NEW c \in Configs, Accept(r, t, c)
      PROVE  OneGeneration'
  BY <1>1 DEF Accept
<1>2. ASSUME NEW r \in Runs, Configure(r) PROVE OneGeneration'
  BY <1>2 DEF Configure, Matches
<1>3. ASSUME NEW r \in Runs, Resume(r) PROVE OneGeneration'
  BY <1>3 DEF Resume, Matches
<1>4. ASSUME NEW r \in Runs, Generate(r) PROVE OneGeneration'
  BY <1>4 DEF Generate, MayGenerate, Busy, Answering, Serving, Ends, Unregistered
<1>5. ASSUME NEW r \in Runs, Unprepared(r) PROVE OneGeneration'
  BY <1>5 DEF Unprepared, Ends, Unregistered, Trouble
<1>6. ASSUME NEW r \in Runs, StreamEnds(r) PROVE OneGeneration'
  BY <1>6 DEF StreamEnds, Ends, Unregistered
<1>7. ASSUME NEW r \in Runs, Fetched(r) PROVE OneGeneration'
  BY <1>7 DEF Fetched, Spawn, Terminated
<1>8. ASSUME NEW r \in Runs, Waited(r) PROVE OneGeneration'
  BY <1>8 DEF Waited, Spawn
<1>9. ASSUME NEW r \in Runs, Asked(r) PROVE OneGeneration'
  BY <1>9 DEF Asked
<1>10. ASSUME NEW r \in Runs, Healthy(r) PROVE OneGeneration'
  BY <1>10 DEF Healthy, Resumed, Waits
<1>11. ASSUME NEW r \in Runs, Stopped(r) PROVE OneGeneration'
  BY <1>11 DEF Stopped, ShutdownChild, Terminated, LaunchFails, Resumed, Waits, Unregistered
<1>12. ASSUME NEW r \in Runs, Failed(r) PROVE OneGeneration'
  BY <1>12 DEF Failed, LaunchFails, Resumed, Waits, Unregistered
<1>13. ASSUME NEW r \in Runs, FetchFails(r) PROVE OneGeneration'
  BY <1>13 DEF FetchFails, LaunchFails, Resumed, Waits, Unregistered, Trouble
<1>14. ASSUME NEW r \in Runs, Overdue(r) PROVE OneGeneration'
  BY <1>14 DEF Overdue, ShutdownChild, Terminated, Trouble
<1>15. ASSUME NEW r \in Runs, Listen(r) PROVE OneGeneration'
  BY <1>15 DEF Listen, Exited, PortTaken
<1>16. ASSUME NEW r \in Runs, Crash(r) PROVE OneGeneration'
  BY <1>16 DEF Crash, Exited, Trouble
<1>17. ASSUME NEW r \in Runs, Terminate(r) PROVE OneGeneration'
  BY <1>17 DEF Terminate, Exited
<1>18. ASSUME NEW t \in Tasks, Cancel(t) PROVE OneGeneration'
  BY <1>18 DEF Cancel, Trouble
<1>19. ASSUME Pause PROVE OneGeneration'
  BY <1>19 DEF Pause, Trouble, ShutdownChild, Terminated, Cut, Running
<1>20. CASE Unpause
  BY <1>20 DEF Unpause
<1>21. CASE UNCHANGED vars
  BY <1>21 DEF vars
<1> QED
  BY <1>1, <1>2, <1>3, <1>4, <1>5, <1>6, <1>7, <1>8, <1>9, <1>10, <1>11, <1>12, <1>13, <1>14, <1>15, <1>16, <1>17, <1>18, <1>19, <1>20, <1>21
  DEF Next, Continues, Launches

\* A run that was not aborted stays registered: only the run's own end, or an abort,
\* removes the entry of a task that was given once.
LEMMA Registrations ==
  ASSUME TypeOK, RunsKnowTheirTask, RunsAreRegistered, [Next]_vars
  PROVE  RunsAreRegistered'
<1> USE DEF TypeOK, RunsKnowTheirTask, RunsAreRegistered, GivenOnce, Maybe, schedulerVars, runtimeVars, Active, Launching, Continuing
<1>1. ASSUME NEW r \in Runs, NEW t \in Tasks, NEW c \in Configs, Accept(r, t, c)
      PROVE  RunsAreRegistered'
  <2> SUFFICES ASSUME NEW q \in Runs, pc'[q] \in Active, q \notin aborted', GivenOnce(q)'
               PROVE  entry'[task'[q]] = q
    OBVIOUS
  <2> USE <1>1 DEF Accept
  <2>1. CASE q = r
    BY <2>1
  <2>2. CASE q # r
    <3>1. task[q] # t /\ GivenOnce(q) /\ pc[q] \in Active
      BY <2>2
    <3> QED BY <2>2, <3>1
  <2> QED BY <2>1, <2>2
<1>2. ASSUME NEW r \in Runs, Configure(r) PROVE RunsAreRegistered'
  BY <1>2 DEF Configure, Matches
<1>3. ASSUME NEW r \in Runs, Resume(r) PROVE RunsAreRegistered'
  BY <1>3 DEF Resume, Matches
<1>4. ASSUME NEW r \in Runs, Generate(r) PROVE RunsAreRegistered'
  BY <1>4 DEF Generate, MayGenerate, Busy, Answering, Serving, Ends, Unregistered
<1>5. ASSUME NEW r \in Runs, Unprepared(r) PROVE RunsAreRegistered'
  BY <1>5 DEF Unprepared, Ends, Unregistered, Trouble
<1>6. ASSUME NEW r \in Runs, StreamEnds(r) PROVE RunsAreRegistered'
  BY <1>6 DEF StreamEnds, Ends, Unregistered
<1>7. ASSUME NEW r \in Runs, Fetched(r) PROVE RunsAreRegistered'
  BY <1>7 DEF Fetched, Spawn, Terminated
<1>8. ASSUME NEW r \in Runs, Waited(r) PROVE RunsAreRegistered'
  BY <1>8 DEF Waited, Spawn
<1>9. ASSUME NEW r \in Runs, Asked(r) PROVE RunsAreRegistered'
  BY <1>9 DEF Asked
<1>10. ASSUME NEW r \in Runs, Healthy(r) PROVE RunsAreRegistered'
  BY <1>10 DEF Healthy, Resumed, Waits
<1>11. ASSUME NEW r \in Runs, Stopped(r) PROVE RunsAreRegistered'
  BY <1>11 DEF Stopped, ShutdownChild, Terminated, LaunchFails, Resumed, Waits, Unregistered
<1>12. ASSUME NEW r \in Runs, Failed(r) PROVE RunsAreRegistered'
  BY <1>12 DEF Failed, LaunchFails, Resumed, Waits, Unregistered
<1>13. ASSUME NEW r \in Runs, FetchFails(r) PROVE RunsAreRegistered'
  BY <1>13 DEF FetchFails, LaunchFails, Resumed, Waits, Unregistered, Trouble
<1>14. ASSUME NEW r \in Runs, Overdue(r) PROVE RunsAreRegistered'
  BY <1>14 DEF Overdue, ShutdownChild, Terminated, Trouble
<1>15. ASSUME NEW r \in Runs, Listen(r) PROVE RunsAreRegistered'
  BY <1>15 DEF Listen, Exited, PortTaken
<1>16. ASSUME NEW r \in Runs, Crash(r) PROVE RunsAreRegistered'
  BY <1>16 DEF Crash, Exited, Trouble
<1>17. ASSUME NEW r \in Runs, Terminate(r) PROVE RunsAreRegistered'
  BY <1>17 DEF Terminate, Exited
<1>18. ASSUME NEW t \in Tasks, Cancel(t) PROVE RunsAreRegistered'
  BY <1>18 DEF Cancel, Trouble
<1>19. ASSUME Pause PROVE RunsAreRegistered'
  BY <1>19 DEF Pause, Trouble, ShutdownChild, Terminated, Cut, Running
<1>20. CASE Unpause
  BY <1>20 DEF Unpause
<1>21. CASE UNCHANGED vars
  BY <1>21 DEF vars
<1> QED
  BY <1>1, <1>2, <1>3, <1>4, <1>5, <1>6, <1>7, <1>8, <1>9, <1>10, <1>11, <1>12, <1>13, <1>14, <1>15, <1>16, <1>17, <1>18, <1>19, <1>20, <1>21
  DEF Next, Continues, Launches

\* Only accept adds to the running tasks, one at a time and below the limit.
LEMMA Admissions ==
  ASSUME TypeOK, SlotsBounded, NEW r \in Runs, NEW t \in Tasks, NEW c \in Configs, Accept(r, t, c)
  PROVE  SlotsBounded'
<1>1. Running' = Running \cup {t}
  BY DEF Accept, Running, TypeOK, Maybe
<1>2. IsFiniteSet(Running) /\ Cardinality(Running) < MaxConcurrent
  BY DEF Accept, Admits, SlotsBounded
<1>3. Cardinality(Running) \in Nat
  BY <1>2, FS_CardinalityType
<1>4. IsFiniteSet(Running \cup {t}) /\ Cardinality(Running \cup {t}) \in Nat
  BY <1>2, FS_AddElement, FS_CardinalityType
<1>5. Cardinality(Running \cup {t}) <= Cardinality(Running) + 1
  <2>1. Cardinality(Running \cup {t}) \in {Cardinality(Running), Cardinality(Running) + 1}
    BY <1>2, FS_AddElement
  <2> QED BY <1>3, <2>1
<1>6. MaxConcurrent \in Nat
  OBVIOUS
<1> QED
  BY <1>1, <1>2, <1>3, <1>4, <1>5, <1>6 DEF SlotsBounded

LEMMA Removals ==
  ASSUME SlotsBounded, Running' \subseteq Running
  PROVE  SlotsBounded'
<1>1. IsFiniteSet(Running) /\ Cardinality(Running) \in Nat
  BY FS_CardinalityType DEF SlotsBounded
<1>2. IsFiniteSet(Running') /\ Cardinality(Running') <= Cardinality(Running)
  BY <1>1, FS_Subset
<1>3. Cardinality(Running') \in Nat
  BY <1>2, FS_CardinalityType
<1> QED
  BY <1>1, <1>2, <1>3 DEF SlotsBounded

LEMMA Slots ==
  ASSUME TypeOK, SlotsBounded, [Next]_vars
  PROVE  SlotsBounded'
<1>1. ASSUME NEW r \in Runs, NEW t \in Tasks, NEW c \in Configs, Accept(r, t, c)
      PROVE  SlotsBounded'
  BY <1>1, Admissions
<1>2. ASSUME NEW r \in Runs,
             \/ Unprepared(r) \/ StreamEnds(r) \/ Stopped(r) \/ Failed(r) \/ FetchFails(r)
             \/ Generate(r)
      PROVE  SlotsBounded'
  <2>1. entry' = entry \/ entry' = [entry EXCEPT ![task[r]] = None]
    BY <1>2 DEF Unprepared, StreamEnds, Stopped, Failed, FetchFails, Generate, Ends, LaunchFails,
       Unregistered, schedulerVars
  <2>2. Running' \subseteq Running
    BY <2>1 DEF Running, TypeOK, Maybe
  <2> QED BY <2>2, Removals
<1>3. ASSUME NEW r \in Runs,
             \/ Configure(r) \/ Resume(r) \/ Fetched(r) \/ Waited(r) \/ Asked(r) \/ Healthy(r)
             \/ Overdue(r) \/ Listen(r) \/ Crash(r) \/ Terminate(r)
      PROVE  SlotsBounded'
  <2>1. entry' = entry
    BY <1>3 DEF Configure, Resume, Fetched, Waited, Asked, Healthy, Overdue, Listen, Crash,
       Terminate, Exited, schedulerVars
  <2> QED BY <2>1, Removals DEF Running
<1>4. ASSUME NEW t \in Tasks, Cancel(t) PROVE SlotsBounded'
  <2>1. Running' \subseteq Running
    BY <1>4 DEF Cancel, Running, TypeOK, Maybe
  <2> QED BY <2>1, Removals
<1>5. CASE Pause
  <2>1. Running' \subseteq Running
    BY <1>5 DEF Pause, Running
  <2> QED BY <2>1, Removals
<1>6. CASE Unpause \/ UNCHANGED vars
  <2>1. Running' \subseteq Running
    BY <1>6 DEF Unpause, vars, schedulerVars, Running
  <2> QED BY <2>1, Removals
<1> QED
  BY <1>1, <1>2, <1>3, <1>4, <1>5, <1>6 DEF Next, Continues, Launches

\* A run waits at most once, so two that have waited for one launch remain two.
LEMMA WaitsOnce ==
  ASSUME TypeOK, NotYetWaited, [Next]_vars
  PROVE  NotYetWaited' /\ (NeverTwoWaiters' => NeverTwoWaiters)
<1> USE DEF TypeOK, NotYetWaited, NeverTwoWaiters, Maybe, schedulerVars, runtimeVars
<1>1. ASSUME NEW r \in Runs, NEW t \in Tasks, NEW c \in Configs, Accept(r, t, c)
      PROVE  NotYetWaited' /\ (NeverTwoWaiters' => NeverTwoWaiters)
  BY <1>1 DEF Accept
<1>2. ASSUME NEW r \in Runs, Configure(r) PROVE NotYetWaited' /\ (NeverTwoWaiters' => NeverTwoWaiters)
  BY <1>2 DEF Configure, Matches
<1>3. ASSUME NEW r \in Runs, Resume(r) PROVE NotYetWaited' /\ (NeverTwoWaiters' => NeverTwoWaiters)
  BY <1>3 DEF Resume, Matches
<1>4. ASSUME NEW r \in Runs, Generate(r) PROVE NotYetWaited' /\ (NeverTwoWaiters' => NeverTwoWaiters)
  BY <1>4 DEF Generate, MayGenerate, Busy, Answering, Serving, Ends, Unregistered
<1>5. ASSUME NEW r \in Runs, Unprepared(r) PROVE NotYetWaited' /\ (NeverTwoWaiters' => NeverTwoWaiters)
  BY <1>5 DEF Unprepared, Ends, Unregistered, Trouble
<1>6. ASSUME NEW r \in Runs, StreamEnds(r) PROVE NotYetWaited' /\ (NeverTwoWaiters' => NeverTwoWaiters)
  BY <1>6 DEF StreamEnds, Ends, Unregistered
<1>7. ASSUME NEW r \in Runs, Fetched(r) PROVE NotYetWaited' /\ (NeverTwoWaiters' => NeverTwoWaiters)
  BY <1>7 DEF Fetched, Spawn, Terminated
<1>8. ASSUME NEW r \in Runs, Waited(r) PROVE NotYetWaited' /\ (NeverTwoWaiters' => NeverTwoWaiters)
  BY <1>8 DEF Waited, Spawn
<1>9. ASSUME NEW r \in Runs, Asked(r) PROVE NotYetWaited' /\ (NeverTwoWaiters' => NeverTwoWaiters)
  BY <1>9 DEF Asked
<1>10. ASSUME NEW r \in Runs, Healthy(r) PROVE NotYetWaited' /\ (NeverTwoWaiters' => NeverTwoWaiters)
  BY <1>10 DEF Healthy, Resumed, Waits
<1>11. ASSUME NEW r \in Runs, Stopped(r) PROVE NotYetWaited' /\ (NeverTwoWaiters' => NeverTwoWaiters)
  BY <1>11 DEF Stopped, ShutdownChild, Terminated, LaunchFails, Resumed, Waits, Unregistered
<1>12. ASSUME NEW r \in Runs, Failed(r) PROVE NotYetWaited' /\ (NeverTwoWaiters' => NeverTwoWaiters)
  BY <1>12 DEF Failed, LaunchFails, Resumed, Waits, Unregistered
<1>13. ASSUME NEW r \in Runs, FetchFails(r) PROVE NotYetWaited' /\ (NeverTwoWaiters' => NeverTwoWaiters)
  BY <1>13 DEF FetchFails, LaunchFails, Resumed, Waits, Unregistered, Trouble
<1>14. ASSUME NEW r \in Runs, Overdue(r) PROVE NotYetWaited' /\ (NeverTwoWaiters' => NeverTwoWaiters)
  BY <1>14 DEF Overdue, ShutdownChild, Terminated, Trouble
<1>15. ASSUME NEW r \in Runs, Listen(r) PROVE NotYetWaited' /\ (NeverTwoWaiters' => NeverTwoWaiters)
  BY <1>15 DEF Listen, Exited, PortTaken
<1>16. ASSUME NEW r \in Runs, Crash(r) PROVE NotYetWaited' /\ (NeverTwoWaiters' => NeverTwoWaiters)
  BY <1>16 DEF Crash, Exited, Trouble
<1>17. ASSUME NEW r \in Runs, Terminate(r) PROVE NotYetWaited' /\ (NeverTwoWaiters' => NeverTwoWaiters)
  BY <1>17 DEF Terminate, Exited
<1>18. ASSUME NEW t \in Tasks, Cancel(t) PROVE NotYetWaited' /\ (NeverTwoWaiters' => NeverTwoWaiters)
  BY <1>18 DEF Cancel, Trouble
<1>19. ASSUME Pause PROVE NotYetWaited' /\ (NeverTwoWaiters' => NeverTwoWaiters)
  BY <1>19 DEF Pause, Trouble, ShutdownChild, Terminated, Cut, Running
<1>20. CASE Unpause
  BY <1>20 DEF Unpause
<1>21. CASE UNCHANGED vars
  BY <1>21 DEF vars
<1> QED
  BY <1>1, <1>2, <1>3, <1>4, <1>5, <1>6, <1>7, <1>8, <1>9, <1>10, <1>11, <1>12, <1>13, <1>14, <1>15, <1>16, <1>17, <1>18, <1>19, <1>20, <1>21
  DEF Next, Continues, Launches

\* As long as no two runs have waited for one launch, there is one launch at a time, and
\* the runtime keeps track of the server it started.
LEMMA Tracked ==
  ASSUME TypeOK, RunsKnowTheirTask, NotYetWaited, NeverTwoWaiters,
         LaunchesSerialised, BoundToChild, SourceMatches, [Next]_vars
  PROVE  LaunchesSerialised' /\ BoundToChild' /\ SourceMatches'
<1> USE DEF TypeOK, RunsKnowTheirTask, NotYetWaited, NeverTwoWaiters, LaunchesSerialised, Deciding,
       BoundToChild, Before, ServerIsChild, SourceMatches, Maybe, Quiet, schedulerVars, runtimeVars,
       Active, Launching, Continuing
<1>1. ASSUME NEW r \in Runs, NEW t \in Tasks, NEW c \in Configs, Accept(r, t, c)
      PROVE  LaunchesSerialised' /\ BoundToChild' /\ SourceMatches'
  BY <1>1 DEF Accept
<1>2. ASSUME NEW r \in Runs, Configure(r) PROVE LaunchesSerialised' /\ BoundToChild' /\ SourceMatches'
  BY <1>2 DEF Configure, Matches
<1>3. ASSUME NEW r \in Runs, Resume(r) PROVE LaunchesSerialised' /\ BoundToChild' /\ SourceMatches'
  BY <1>3 DEF Resume, Matches
<1>4. ASSUME NEW r \in Runs, Generate(r) PROVE LaunchesSerialised' /\ BoundToChild' /\ SourceMatches'
  BY <1>4 DEF Generate, MayGenerate, Busy, Answering, Serving, Ends, Unregistered
<1>5. ASSUME NEW r \in Runs, Unprepared(r) PROVE LaunchesSerialised' /\ BoundToChild' /\ SourceMatches'
  BY <1>5 DEF Unprepared, Ends, Unregistered, Trouble
<1>6. ASSUME NEW r \in Runs, StreamEnds(r) PROVE LaunchesSerialised' /\ BoundToChild' /\ SourceMatches'
  BY <1>6 DEF StreamEnds, Ends, Unregistered
<1>7. ASSUME NEW r \in Runs, Fetched(r) PROVE LaunchesSerialised' /\ BoundToChild' /\ SourceMatches'
  BY <1>7 DEF Fetched, Spawn, Terminated
<1>8. ASSUME NEW r \in Runs, Waited(r) PROVE LaunchesSerialised' /\ BoundToChild' /\ SourceMatches'
  BY <1>8 DEF Waited, Spawn
<1>9. ASSUME NEW r \in Runs, Asked(r) PROVE LaunchesSerialised' /\ BoundToChild' /\ SourceMatches'
  BY <1>9 DEF Asked
<1>10. ASSUME NEW r \in Runs, Healthy(r) PROVE LaunchesSerialised' /\ BoundToChild' /\ SourceMatches'
  BY <1>10 DEF Healthy, Resumed, Waits
<1>11. ASSUME NEW r \in Runs, Stopped(r) PROVE LaunchesSerialised' /\ BoundToChild' /\ SourceMatches'
  BY <1>11 DEF Stopped, ShutdownChild, Terminated, LaunchFails, Resumed, Waits, Unregistered
<1>12. ASSUME NEW r \in Runs, Failed(r) PROVE LaunchesSerialised' /\ BoundToChild' /\ SourceMatches'
  BY <1>12 DEF Failed, LaunchFails, Resumed, Waits, Unregistered
<1>13. ASSUME NEW r \in Runs, FetchFails(r) PROVE LaunchesSerialised' /\ BoundToChild' /\ SourceMatches'
  BY <1>13 DEF FetchFails, LaunchFails, Resumed, Waits, Unregistered, Trouble
<1>14. ASSUME NEW r \in Runs, Overdue(r) PROVE LaunchesSerialised' /\ BoundToChild' /\ SourceMatches'
  BY <1>14 DEF Overdue, ShutdownChild, Terminated, Trouble
<1>15. ASSUME NEW r \in Runs, Listen(r) PROVE LaunchesSerialised' /\ BoundToChild' /\ SourceMatches'
  BY <1>15 DEF Listen, Exited, PortTaken
<1>16. ASSUME NEW r \in Runs, Crash(r) PROVE LaunchesSerialised' /\ BoundToChild' /\ SourceMatches'
  BY <1>16 DEF Crash, Exited, Trouble
<1>17. ASSUME NEW r \in Runs, Terminate(r) PROVE LaunchesSerialised' /\ BoundToChild' /\ SourceMatches'
  BY <1>17 DEF Terminate, Exited
<1>18. ASSUME NEW t \in Tasks, Cancel(t) PROVE LaunchesSerialised' /\ BoundToChild' /\ SourceMatches'
  BY <1>18 DEF Cancel, Trouble
<1>19. ASSUME Pause PROVE LaunchesSerialised' /\ BoundToChild' /\ SourceMatches'
  BY <1>19 DEF Pause, Trouble, ShutdownChild, Terminated, Cut, Running
<1>20. CASE Unpause
  BY <1>20 DEF Unpause
<1>21. CASE UNCHANGED vars
  BY <1>21 DEF vars
<1> QED
  BY <1>1, <1>2, <1>3, <1>4, <1>5, <1>6, <1>7, <1>8, <1>9, <1>10, <1>11, <1>12, <1>13, <1>14, <1>15, <1>16, <1>17, <1>18, <1>19, <1>20, <1>21
  DEF Next, Continues, Launches

-----------------------------------------------------------------------------
(* The theorems.                                                             *)

\* Scheduler and runtime agree in every reachable state: RuntimeInv is inductive.
THEOREM Invariance == Spec => []RuntimeInv
<1>1. RuntimeInv /\ [Next]_vars => RuntimeInv'
  <2> SUFFICES ASSUME RuntimeInv, [Next]_vars PROVE RuntimeInv'
    OBVIOUS
  <2> USE DEF RuntimeInv
  <2>1. TypeOK' /\ RunsKnowTheirTask'
    BY Types
  <2>2. OneGeneration' /\ RunsAreRegistered' /\ SlotsBounded'
    BY Generations, Registrations, Slots
  <2>3. NotYetWaited' /\ (NeverTwoWaiters' => NeverTwoWaiters)
    BY WaitsOnce
  <2>4. ServersTracked'
    BY <2>3, Tracked DEF ServersTracked
  <2> QED BY <2>1, <2>2, <2>3, <2>4
<1> QED
  BY Initially, <1>1, PTL DEF Spec

\* A run that nobody aborted keeps the entry of its task, by which it is cancelled and
\* counted, until it ends (accept, cancel and cancelAll of the worker's scheduler).
THEOREM Registered == Spec => []RunsAreRegistered
<1>1. RuntimeInv => RunsAreRegistered
  BY DEF RuntimeInv
<1> QED
  BY Invariance, <1>1, PTL

\* The owner's limit on concurrent tasks holds for runs that nobody aborted
\* (admissionError of the worker's scheduler).
THEOREM OwnersLimit == Spec => []LimitHeld
<1>1. RuntimeInv => LimitHeld
  <2> SUFFICES ASSUME RuntimeInv, \A r \in Unaborted : GivenOnce(r)
               PROVE  Cardinality(Unaborted) <= MaxConcurrent
    BY DEF LimitHeld
  <2> DEFINE f == [r \in Unaborted |-> task[r]]
  <2>1. \A r \in Unaborted : r \in Runs /\ task[r] \in Tasks /\ entry[task[r]] = r
    BY DEF RuntimeInv, RunsKnowTheirTask, RunsAreRegistered, Unaborted
  <2>2. \A r \in Unaborted : task[r] \in Running
    BY <2>1 DEF Running
  <2>3. f \in [Unaborted -> Running] /\ \A q, r \in Unaborted : f[q] = f[r] => q = r
    BY <2>1, <2>2
  <2>4. f \in Injection(Unaborted, Running)
    BY <2>3, Fun_IsInj
  <2>5. IsFiniteSet(Running) /\ Cardinality(Running) <= MaxConcurrent
    BY DEF RuntimeInv, SlotsBounded
  <2>6. IsFiniteSet(Unaborted) /\ Cardinality(Unaborted) <= Cardinality(Running)
    BY <2>4, <2>5, FS_Injection
  <2>7. Cardinality(Unaborted) \in Nat /\ Cardinality(Running) \in Nat
    BY <2>5, <2>6, FS_CardinalityType
  <2> QED BY <2>5, <2>6, <2>7
<1> QED
  BY Invariance, <1>1, PTL

\* One pipeline serves one request at a time (generate of the pipeline runtime).
THEOREM OneRequestAtATime == Spec => []OneGeneration
<1>1. RuntimeInv => OneGeneration
  BY DEF RuntimeInv
<1> QED
  BY Invariance, <1>1, PTL

\* Unless two runs have waited for one launch, no llama-server runs that the runtime has
\* lost track of (configure, launch and shutdownChild of the pipeline runtime).
THEOREM NothingStray == Spec => []NoStrayServer
<1>1. RuntimeInv => NoStrayServer
  BY DEF RuntimeInv, ServersTracked, NoStrayServer, BoundToChild
<1> QED
  BY Invariance, <1>1, PTL

\* Under the same condition a generation streams from a server of its own configuration,
\* unless one that was told to terminate still answers.
THEOREM PeersServe == Spec => []ServedByItsPeers
<1>1. RuntimeInv => ServedByItsPeers
  BY DEF RuntimeInv, ServersTracked, ServedByItsPeers
<1> QED
  BY Invariance, <1>1, PTL

=============================================================================
