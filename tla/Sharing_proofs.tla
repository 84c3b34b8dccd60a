---------------------------- MODULE Sharing_proofs ----------------------------
(***************************************************************************)
(* What owners share, and how the coordinator shares work out.  On the     *)
(* worker's side: capacity comes back step by step, for any readings,      *)
(* ceilings and ramps, and a pause or a shutdown reaches every server that *)
(* is left, for any agents, processes and keys, whatever the owner and the *)
(* processes do.  On the coordinator's side, for any nodes, whatever they  *)
(* report, and any requests: a model is split over the fewest nodes that   *)
(* can hold it, none is asked for more than its owner offers, and a batch  *)
(* hands out every item once.                                              *)
(*                                                                         *)
(* The second half is arithmetic over finite sets: sums (of memory, scores *)
(* and items) are folds, and what they add up to is shown part by part;    *)
(* a sorted list gives every node the number of nodes before it as a place. *)
(***************************************************************************)
EXTENDS Lending, JobPlanning, FiniteSetTheorems, WellFoundedInduction, TLAPS

-----------------------------------------------------------------------------
(* Capacity, and the servers behind it.                                      *)

HasLeast(S) == S \subseteq Nat /\ \E x \in S : \A y \in S : x <= y

\* A set with a least element still has one with a further ceiling, or none, added.
LEMMA OneMoreCeiling ==
  ASSUME NEW S, HasLeast(S), NEW c \in Nat, NEW A, A = {} \/ A = {c}
  PROVE  HasLeast(S \cup A)
<1>1. PICK x \in S : \A y \in S : x <= y
  BY DEF HasLeast
<1>2. CASE A = {}
  BY <1>2
<1>3. CASE A = {c} /\ x <= c
  BY <1>1, <1>3 DEF HasLeast
<1>4. CASE A = {c} /\ ~(x <= c)
  <2>1. \A y \in S \cup A : c <= y
    BY <1>1, <1>4 DEF HasLeast
  <2> QED BY <2>1, <1>4 DEF HasLeast
<1> QED BY <1>2, <1>3, <1>4

LEMMA LeastIsMin ==
  ASSUME NEW S, HasLeast(S)
  PROVE  Min(S) \in S /\ \A y \in S : Min(S) <= y
BY DEF HasLeast, Min

\* The target of a tick is within the owner's ceiling, whatever the machine and its
\* owner are like.
LEMMA TargetInRange == ASSUME NEW s PROVE Target(s) \in 0..MaxCapacity
<1> DEFINE A1 == IF s.ready THEN {} ELSE {0}
           A2 == CASE s.owner = "gaming" -> {0} [] s.owner = "working" -> {Throttled} [] OTHER -> {}
           A3 == CASE s.memory = "short" -> {0} [] s.memory = "tight" -> {Tight} [] OTHER -> {}
           A4 == CASE s.heat = "critical" -> {0} [] s.heat = "hot" -> {Hot}
                   [] s.heat = "warm" -> {Warm} [] OTHER -> {}
           A5 == CASE s.power = "low" -> {0} [] s.power = "battery" -> {Battery} [] OTHER -> {}
<1>1. {MaxCapacity, 0, Throttled, Tight, Hot, Warm, Battery} \subseteq Nat
  BY GovernorAssumption DEF Ceilings
<1>2. /\ A1 = {} \/ A1 = {0}
      /\ A2 = {} \/ A2 = {0} \/ A2 = {Throttled}
      /\ A3 = {} \/ A3 = {0} \/ A3 = {Tight}
      /\ A4 = {} \/ A4 = {0} \/ A4 = {Hot} \/ A4 = {Warm}
      /\ A5 = {} \/ A5 = {0} \/ A5 = {Battery}
  OBVIOUS
<1>3. Limit(s) = {MaxCapacity} \cup A1 \cup A2 \cup A3 \cup A4 \cup A5
  BY DEF Limit
<1> HIDE DEF A1, A2, A3, A4, A5
<1>4. HasLeast({MaxCapacity})
  BY <1>1 DEF HasLeast
<1>5. HasLeast({MaxCapacity} \cup A1)
  BY <1>1, <1>2, <1>4, OneMoreCeiling
<1>6. HasLeast({MaxCapacity} \cup A1 \cup A2)
  BY <1>1, <1>2, <1>5, OneMoreCeiling
<1>7. HasLeast({MaxCapacity} \cup A1 \cup A2 \cup A3)
  BY <1>1, <1>2, <1>6, OneMoreCeiling
<1>8. HasLeast({MaxCapacity} \cup A1 \cup A2 \cup A3 \cup A4)
  BY <1>1, <1>2, <1>7, OneMoreCeiling
<1>9. HasLeast(Limit(s))
  BY <1>1, <1>2, <1>3, <1>8, OneMoreCeiling
<1>10. Target(s) \in Limit(s) /\ \A y \in Limit(s) : Target(s) <= y
  BY <1>9, LeastIsMin DEF Target
<1>11. MaxCapacity \in Limit(s)
  BY <1>3
<1> QED BY <1>1, <1>9, <1>10, <1>11 DEF HasLeast

\* A tick from a capacity that is a number leads to one that is at most one
\* step above it.
LEMMA RampIsGradual ==
  ASSUME NEW target \in 0..MaxCapacity, capacity \in 0..MaxCapacity
  PROVE  Ramped(target) \in 0..MaxCapacity /\ Ramped(target) <= capacity + RampUp
<1>1. RampUp \in Nat \ {0} /\ RampDown \in Nat \ {0} /\ MaxCapacity \in Nat
  BY GovernorAssumption
<1>2. CASE target > capacity
  <2>1. HasLeast({target, capacity + RampUp})
    BY <1>1 DEF HasLeast
  <2>2. /\ Min({target, capacity + RampUp}) \in {target, capacity + RampUp}
        /\ Min({target, capacity + RampUp}) <= capacity + RampUp
        /\ Min({target, capacity + RampUp}) <= target
    BY <2>1, LeastIsMin
  <2> QED BY <1>1, <1>2, <2>2 DEF Ramped
<1>3. CASE ~(target > capacity)
  <2> DEFINE S == {target, capacity - RampDown}
  <2>1. \E x \in S : \A y \in S : x >= y
    BY <1>1
  <2>2. Max(S) \in S /\ \A y \in S : Max(S) >= y
    <3> HIDE DEF S
    <3> QED BY <2>1 DEF Max
  <2>3. Max(S) \in 0..MaxCapacity /\ Max(S) <= capacity + RampUp
    BY <1>1, <1>3, <2>2
  <2> QED BY <1>3, <2>3 DEF Ramped
<1> QED BY <1>2, <1>3

\* The steps that reach the governor are a tick and the pause key.
LEMMA CapacityStep ==
  ASSUME capacity \in 0..MaxCapacity, [Next]_vars
  PROVE  capacity' \in 0..MaxCapacity /\ capacity' <= capacity + RampUp
<1>1. RampUp \in Nat /\ MaxCapacity \in Nat
  BY GovernorAssumption
<1>2. ASSUME capacity' \in {0, capacity} PROVE capacity' \in 0..MaxCapacity /\ capacity' <= capacity + RampUp
  BY <1>1, <1>2
<1>3. CASE Tick
  <2>1. CASE manualPause
    BY <1>1, <1>3, <2>1 DEF Tick, Update
  <2>2. CASE ~manualPause
    BY <1>3, <2>2, TargetInRange, RampIsGradual DEF Tick, Update
  <2> QED BY <2>1, <2>2
<1>4. CASE Pause \/ Resume
  BY <1>2, <1>4 DEF Pause, Resume, SetManualPause
<1>5. CASE FetchEnds \/ FetchFails \/ Shutdown \/ Leave \/ Rebinds \/ Reprobe \/ Owner
  BY <1>2, <1>5 DEF FetchEnds, FetchFails, Shutdown, Leave, Rebinds, Reprobe, Owner, Changes, governorVars
<1>6. ASSUME NEW p \in Procs, ProcStep(p) \/ Crash(p) \/ PortStaysShut(p)
      PROVE  capacity' = capacity
  BY <1>6 DEF ProcStep, Listen, Terminate, PortTaken, PortOpen, ProbeEnds, Crash, PortStaysShut,
              Exited, governorVars
<1>7. ASSUME NEW a \in Agents, TimerFires(a) PROVE capacity' = capacity
  BY <1>7 DEF TimerFires, governorVars
<1>8. CASE UNCHANGED vars
  BY <1>2, <1>8 DEF vars, governorVars
<1> QED BY <1>2, <1>3, <1>4, <1>5, <1>6, <1>7, <1>8 DEF Next

\* Capacity is at most what the owner's settings allow, at any time.
LEMMA CapacityInRange == Spec => [](capacity \in 0..MaxCapacity)
<1>1. Init => capacity \in 0..MaxCapacity
  BY GovernorAssumption DEF Init, GovernorInit
<1>2. capacity \in 0..MaxCapacity /\ [Next]_vars => (capacity \in 0..MaxCapacity)'
  BY CapacityStep
<1> QED BY <1>1, <1>2, PTL DEF Spec

\* What the owner gets back is given up at once, what the network gets back
\* comes back step by step (agents/governor.ts update, setManualPause).
THEOREM NoJump == Spec => NeverInOneJump
<1>1. capacity \in 0..MaxCapacity /\ [Next]_vars => [capacity' <= capacity + RampUp]_vars
  BY CapacityStep
<1> QED BY <1>1, CapacityInRange, PTL DEF Spec, NeverInOneJump

-----------------------------------------------------------------------------
(* The servers a pause or a shutdown can reach. *)

ProcStates == {"none", "starting", "serving", "dying", "doomed"}
On == ~manualPause /\ worker # "leaving"
Stopping(p) == proc[p] \in {"dying", "doomed"}
\* A process and a timer belong to an agent that was made.
AgentTypes ==
  /\ rpc \in 0..MaxAgents /\ made = rpc /\ fetching \in Nat
  /\ child \in [Agents -> 0..MaxProcs] /\ restarts \in [Agents -> 0..MaxRestarts]
  /\ timer \in [Agents -> Nat] /\ stopping \in [Agents -> BOOLEAN]
  /\ proc \in [Procs -> ProcStates] /\ agent \in [Procs -> 0..MaxAgents]
  /\ \A p \in Procs : proc[p] # "none" => agent[p] \in 1..rpc
  /\ \A a \in Agents : timer[a] > 0 => a \in 1..rpc
\* While somebody listens to exits, a child is a process of its agent, still to run:
\* without it a stop could send its signal to a process that is gone.
ChildIsLive ==
  Awake => \A a \in Agents : child[a] # 0 => child[a] \in Live /\ agent[child[a]] = a
\* Until a key meets a restart or a launch under way there is one thing at a time:
\* a server of the latest agent, a download, or the restart timer of that agent.  An
\* agent whose process is being terminated is stopped, so that the exit sets no timer.
Within ==
  /\ \A p \in Live : agent[p] = rpc /\ child[rpc] = p /\ On /\ ~stopping[rpc]
  /\ fetching > 0 => fetching = 1 /\ Live = {} /\ On /\ \A a \in Agents : timer[a] = 0
  /\ \A a \in Agents : timer[a] > 0 => timer[a] = 1 /\ a = rpc /\ ~stopping[a] /\ Live = {} /\ On
  /\ \A p \in Procs : Stopping(p) => stopping[agent[p]]
ReachInv == AgentTypes /\ ChildIsLive /\ (late \/ Within)

LEMMA Numbers ==
  /\ MaxAgents \in Nat /\ MaxProcs \in Nat /\ MaxRestarts \in Nat /\ MaxTroubles \in Nat
BY LendingAssumption

LEMMA ReachInit == Init => ReachInv
<1> SUFFICES ASSUME Init PROVE ReachInv
  OBVIOUS
<1>1. AgentTypes
  BY Numbers DEF Init, AgentTypes, ProcStates
<1>2. Live = {} /\ \A a \in Agents : child[a] = 0 /\ timer[a] = 0
  BY DEF Init, Live
<1>3. ChildIsLive
  BY <1>2 DEF ChildIsLive
<1>4. Within
  BY <1>2 DEF Init, Within, On, GovernorInit, Stopping
<1> QED BY <1>1, <1>3, <1>4 DEF ReachInv

\* A process is started for an agent that has none and nothing else under way.
LEMMA Started ==
  ASSUME ReachInv, NEW a \in Agents, NEW from, Start(a, from, child, stopping),
         a \in 1..rpc', rpc' \in 0..MaxAgents, rpc <= rpc', made' = rpc', fetching' \in Nat,
         timer' \in [Agents -> Nat], \A b \in Agents : timer'[b] > 0 => b \in 1..rpc',
         UNCHANGED <<manualPause, worker, restarts, late>>, Awake,
         late \/ (/\ Live = {} /\ On /\ fetching' = 0 /\ rpc' = a
                  /\ \A b \in Agents : timer'[b] = 0
                  /\ \A p \in Procs : Stopping(p) => agent[p] # a)
  PROVE  ReachInv'
<1>1. CASE child[a] # 0 /\ UNCHANGED <<child, stopping, proc, agent>>
  <2>1. AgentTypes'
    BY <1>1 DEF ReachInv, AgentTypes
  <2>2. ChildIsLive' /\ Live' = Live
    BY <1>1 DEF ReachInv, ChildIsLive, Live, Awake
  <2>3. late \/ Within'
    BY <1>1, <2>2 DEF ReachInv, Within, Stopping
  <2> QED BY <2>1, <2>2, <2>3 DEF ReachInv
<1>2. ASSUME NEW p \in Procs, Free(p), child' = [child EXCEPT ![a] = p],
             stopping' = [stopping EXCEPT ![a] = FALSE],
             proc' = [proc EXCEPT ![p] = "starting"], agent' = [agent EXCEPT ![p] = a]
      PROVE  ReachInv'
  <2>1. AgentTypes'
    BY <1>2 DEF ReachInv, AgentTypes, ProcStates, Procs, Agents
  <2>2. Live' = Live \cup {p} /\ p \notin Live /\ p # 0
    BY <1>2 DEF ReachInv, AgentTypes, Live, Free, Procs
  <2>3. ChildIsLive'
    BY <1>2, <2>2 DEF ReachInv, AgentTypes, ChildIsLive, Awake
  <2>4. late \/ Within'
    BY <1>2, <2>2 DEF ReachInv, AgentTypes, Within, Stopping, On
  <2> QED BY <2>1, <2>3, <2>4 DEF ReachInv
<1> QED BY <1>1, <1>2 DEF Start, procVars

\* The child of the latest agent is told to terminate.
LEMMA Stopped ==
  ASSUME ReachInv, Awake, Stop, UNCHANGED <<rpc, made, fetching, restarts, timer, agent>>,
         Awake', late' = (late \/ UnderWay)
  PROVE  ReachInv'
<1>0. ~late' => ~late /\ ~UnderWay
  BY Zenon
<1>1. CASE rpc = 0
  <2>1. UNCHANGED <<child, stopping, proc>>
    BY <1>1 DEF Stop
  <2>2. AgentTypes'
    BY <2>1 DEF ReachInv, AgentTypes
  <2>3. ChildIsLive' /\ Live' = Live
    BY <2>1 DEF ReachInv, ChildIsLive, Live
  <2>4. Live = {} /\ \A p \in Procs : ~Stopping(p)
    BY <1>1 DEF ReachInv, AgentTypes, Live, Stopping
  <2>5. ~late' => fetching = 0 /\ \A a \in Agents : timer[a] = 0
    BY <1>0 DEF UnderWay, ReachInv, AgentTypes
  <2>6. late' \/ Within'
    BY <2>1, <2>3, <2>4, <2>5 DEF Within, Stopping
  <2> QED BY <2>2, <2>3, <2>6 DEF ReachInv
<1>2. CASE rpc # 0
  <2>1. rpc \in Agents
    BY <1>2, Numbers DEF ReachInv, AgentTypes, Agents
  <2>2. /\ stopping' = [stopping EXCEPT ![rpc] = TRUE] /\ child' = [child EXCEPT ![rpc] = 0]
        /\ proc' = Told(rpc)
    BY <1>2 DEF Stop
  <2>3. child[rpc] = 0 \/ (child[rpc] \in Procs /\ proc[child[rpc]] \in {"starting", "serving"}
                           /\ agent[child[rpc]] = rpc)
    BY <2>1 DEF ReachInv, ChildIsLive, Live
  <2>4. \A p \in Procs : proc'[p] = proc[p] \/ (p = child[rpc] /\ Stopping(p)')
    BY <2>2, <2>3 DEF Told, ReachInv, AgentTypes, Stopping
  <2>5. \A p \in Procs : p = child[rpc] => Stopping(p)' /\ p # 0
    BY <2>2, <2>3 DEF Told, ReachInv, AgentTypes, Stopping, Procs
  <2>6. AgentTypes'
    <3>1. proc' \in [Procs -> ProcStates]
      BY <2>2, <2>3 DEF Told, ReachInv, AgentTypes, ProcStates
    <3>2. child' \in [Agents -> 0..MaxProcs] /\ stopping' \in [Agents -> BOOLEAN]
      BY <2>1, <2>2, Numbers DEF ReachInv, AgentTypes
    <3>3. \A p \in Procs : proc'[p] # "none" => agent'[p] \in 1..rpc
      BY <2>3, <2>4, <2>5 DEF ReachInv, AgentTypes
    <3> QED BY <3>1, <3>2, <3>3 DEF ReachInv, AgentTypes
  <2>7. Live' = Live \ {child[rpc]}
    BY <2>4, <2>5 DEF Live, Stopping
  <2>8. ChildIsLive'
    BY <2>1, <2>2, <2>7 DEF ReachInv, AgentTypes, ChildIsLive
  <2>9. ~late' => fetching = 0 /\ \A a \in Agents : timer[a] = 0
    BY <1>0 DEF UnderWay, ReachInv, AgentTypes
  <2>10. ~late' => Live' = {}
    BY <1>0, <2>7 DEF ReachInv, Within
  <2>11. ~late' => \A p \in Procs : Stopping(p)' => stopping'[agent[p]]
    BY <1>0, <2>1, <2>2, <2>3, <2>4, <2>5 DEF ReachInv, AgentTypes, Within, Stopping
  <2>12. late' \/ Within'
    BY <2>9, <2>10, <2>11 DEF Within
  <2> QED BY <2>6, <2>8, <2>12 DEF ReachInv
<1> QED BY <1>1, <1>2

\* A process exits: its agent forgets its child, and sets a timer unless it was stopped.
LEMMA ExitKeeps ==
  ASSUME ReachInv, NEW p \in Procs, proc[p] # "none", Exited(p)
  PROVE  ReachInv'
<1>1. /\ UNCHANGED <<manualPause, worker, fetching, rpc, made, late, agent>>
      /\ proc' = [proc EXCEPT ![p] = "none"]
  BY DEF Exited, governorVars
<1>2. Live' = Live \ {p} /\ \A q \in Procs : Stopping(q)' => Stopping(q)
  BY <1>1 DEF Live, Stopping, ReachInv, AgentTypes
<1>3. CASE ~Awake
  <2>1. UNCHANGED <<child, stopping, restarts, timer>>
    BY <1>3 DEF Exited, agentVars
  <2>2. AgentTypes'
    BY <1>1, <2>1 DEF ReachInv, AgentTypes, ProcStates
  <2>3. ChildIsLive'
    BY <1>1, <1>3 DEF ChildIsLive, Awake
  <2>4. late' \/ Within'
    BY <1>1, <1>2, <2>1 DEF ReachInv, Within, On
  <2> QED BY <2>2, <2>3, <2>4 DEF ReachInv
<1>4. CASE Awake
  <2>1. PICK a \in Agents : a = agent[p] /\ a \in 1..rpc
    BY Numbers DEF ReachInv, AgentTypes, Agents
  <2>2. /\ child' = [child EXCEPT ![a] = 0] /\ stopping' = stopping
        /\ restarts' = [restarts EXCEPT ![a] = IF Restarts(a) THEN @ + 1 ELSE @]
        /\ timer' = [timer EXCEPT ![a] = IF Restarts(a) THEN @ + 1 ELSE @]
    BY <1>4, <2>1 DEF Exited
  <2>3. restarts' \in [Agents -> 0..MaxRestarts]
    BY <2>2, Numbers DEF ReachInv, AgentTypes, Restarts
  <2>4. timer' \in [Agents -> Nat] /\ child' \in [Agents -> 0..MaxProcs]
        /\ \A b \in Agents : timer'[b] > 0 => b \in 1..rpc
    BY <2>1, <2>2, Numbers DEF ReachInv, AgentTypes
  <2>5. AgentTypes'
    BY <1>1, <2>2, <2>3, <2>4 DEF ReachInv, AgentTypes, ProcStates
  <2>6. ChildIsLive'
    BY <1>1, <1>2, <2>1, <2>2 DEF ReachInv, AgentTypes, ChildIsLive, Awake
  <2>7. ~late => \A q \in Live' : agent[q] = rpc /\ child'[rpc] = q /\ On' /\ ~stopping'[rpc]
    BY <1>1, <1>2, <2>1, <2>2 DEF ReachInv, AgentTypes, Within, On, Live, Stopping, ProcStates
  <2>8. ~late => \A q \in Procs : Stopping(q)' => stopping'[agent[q]]
    BY <1>2, <2>2 DEF ReachInv, Within
  <2>9. ASSUME ~late, Restarts(a), p \in Live
        PROVE  a = rpc /\ fetching = 0 /\ On /\ Live = {p} /\ \A b \in Agents : timer[b] = 0
    BY <2>1, <2>9 DEF ReachInv, AgentTypes, Within
  <2>10. ~late /\ Restarts(a) => p \in Live
    BY <2>1 DEF ReachInv, AgentTypes, Within, Stopping, Restarts, Live, ProcStates
  <2>11. CASE ~late /\ Restarts(a)
    <3>1. Live' = {} /\ \A b \in Agents : timer'[b] = IF b = a THEN 1 ELSE 0
      BY <1>2, <2>2, <2>9, <2>10, <2>11 DEF ReachInv, AgentTypes
    <3>2. ~stopping'[a]
      BY <2>2, <2>11 DEF Restarts
    <3>3. Within'
      BY <1>1, <2>8, <2>9, <2>10, <2>11, <3>1, <3>2 DEF Within, On
    <3> QED BY <2>5, <2>6, <3>3 DEF ReachInv
  <2>12. CASE ~late /\ ~Restarts(a)
    <3>1. timer' = timer
      BY <2>2, <2>12 DEF ReachInv, AgentTypes
    <3>2. Within'
      BY <1>1, <1>2, <2>2, <2>7, <2>8, <2>12, <3>1 DEF ReachInv, Within, On
    <3> QED BY <2>5, <2>6, <3>2 DEF ReachInv
  <2>13. CASE late
    BY <1>1, <2>5, <2>6, <2>13 DEF ReachInv
  <2> QED BY <2>11, <2>12, <2>13
<1> QED BY <1>3, <1>4

\* Nothing that the agents, their processes or the owner's pause hold changes.
LEMMA ReachStutter ==
  ASSUME ReachInv, UNCHANGED <<manualPause, worker, fetching, rpc, made, late, child, stopping,
                               restarts, timer, proc, agent>>
  PROVE  ReachInv'
<1>1. AgentTypes' /\ ChildIsLive' /\ Live' = Live
  BY DEF ReachInv, AgentTypes, ChildIsLive, Live, Awake
<1>2. late \/ Within'
  BY <1>1 DEF ReachInv, Within, On, Stopping
<1> QED BY <1>1, <1>2 DEF ReachInv

LEMMA ReachNext == ReachInv /\ [Next]_vars => ReachInv'
<1> SUFFICES ASSUME ReachInv, [Next]_vars PROVE ReachInv'
  OBVIOUS
<1>1. CASE FetchEnds
  <2> DEFINE a == made + 1
  <2>1. /\ fetching' = fetching - 1 /\ fetching > 0 /\ made' = a /\ rpc' = a /\ made < MaxAgents
        /\ Start(a, "stack", child, stopping) /\ Awake
        /\ UNCHANGED <<manualPause, worker, restarts, late, timer>>
    BY <1>1 DEF FetchEnds, governorVars
  <2>2. a \in Agents /\ a \in 1..rpc' /\ rpc <= rpc' /\ rpc' \in 0..MaxAgents /\ fetching' \in Nat
        /\ timer' \in [Agents -> Nat] /\ \A b \in Agents : timer'[b] > 0 => b \in 1..rpc'
    BY <2>1, Numbers DEF ReachInv, AgentTypes, Agents
  <2>3. late \/ (/\ Live = {} /\ On /\ fetching' = 0 /\ \A b \in Agents : timer'[b] = 0)
    BY <2>1 DEF ReachInv, AgentTypes, Within
  <2>4. \A p \in Procs : Stopping(p) => agent[p] # a
    BY <2>1 DEF ReachInv, AgentTypes, Stopping
  <2> HIDE DEF a
  <2> QED BY <2>1, <2>2, <2>3, <2>4, Started
<1>2. CASE FetchFails
  <2>1. /\ fetching' = fetching - 1 /\ fetching > 0
        /\ UNCHANGED <<manualPause, worker, rpc, made, late, child, stopping, restarts, timer, proc, agent>>
    BY <1>2 DEF FetchFails, governorVars, agentVars, procVars
  <2>2. AgentTypes' /\ ChildIsLive' /\ Live' = Live
    BY <2>1 DEF ReachInv, AgentTypes, ChildIsLive, Live, Awake
  <2>3. late \/ Within'
    BY <2>1, <2>2 DEF ReachInv, AgentTypes, Within, On, Stopping
  <2> QED BY <2>1, <2>2, <2>3 DEF ReachInv
<1>3. CASE Pause
  BY <1>3, Stopped DEF Pause, Awake
<1>4. CASE Resume
  <2>1. /\ fetching' = fetching + 1 /\ manualPause /\ manualPause' = FALSE /\ worker = "up"
        /\ late' = (late \/ UnderWay)
        /\ UNCHANGED <<worker, rpc, made, child, stopping, restarts, timer, proc, agent>>
    BY <1>4 DEF Resume, SetManualPause, agentVars, procVars
  <2>2. ~late' => ~late /\ ~UnderWay
    BY <2>1, Zenon
  <2>3. AgentTypes' /\ ChildIsLive' /\ Live' = Live
    BY <2>1 DEF ReachInv, AgentTypes, ChildIsLive, Live, Awake
  <2>4. ~late' => fetching' = 1 /\ Live' = {} /\ On' /\ \A a \in Agents : timer'[a] = 0
    BY <2>1, <2>2, <2>3 DEF ReachInv, AgentTypes, Within, UnderWay, On
  <2>5. ~late' => Within'
    BY <2>1, <2>2, <2>3, <2>4 DEF ReachInv, Within, Stopping
  <2> QED BY <2>3, <2>5 DEF ReachInv
<1>5. CASE Shutdown
  BY <1>5, Stopped DEF Shutdown, Awake
<1>6. CASE Leave
  <2>1. /\ worker = "leaving" /\ worker' = "gone"
        /\ UNCHANGED <<manualPause, fetching, rpc, made, late, child, stopping, restarts, timer, proc, agent>>
    BY <1>6 DEF Leave, governorVars, agentVars, procVars
  <2>2. AgentTypes' /\ ChildIsLive' /\ Live' = Live
    BY <2>1 DEF ReachInv, AgentTypes, ChildIsLive, Live, Awake
  <2>3. late \/ Within'
    BY <2>1, <2>2 DEF ReachInv, Within, On, Stopping
  <2> QED BY <2>1, <2>2, <2>3 DEF ReachInv
<1>7. ASSUME NEW p \in Procs, Listen(p) PROVE ReachInv'
  <2>1. /\ proc[p] = "starting" /\ proc' = [proc EXCEPT ![p] = "serving"]
        /\ UNCHANGED <<manualPause, worker, fetching, rpc, made, late, child, stopping, restarts, timer, agent>>
    BY <1>7 DEF Listen, governorVars, mainVars, agentVars
  <2>2. Live' = Live /\ \A q \in Procs : Stopping(q)' <=> Stopping(q)
    BY <2>1 DEF ReachInv, AgentTypes, Live, Stopping
  <2>3. AgentTypes' /\ ChildIsLive'
    BY <2>1, <2>2 DEF ReachInv, AgentTypes, ProcStates, ChildIsLive, Awake
  <2>4. late \/ Within'
    BY <2>1, <2>2 DEF ReachInv, Within, On
  <2> QED BY <2>1, <2>3, <2>4 DEF ReachInv
<1>8. ASSUME NEW p \in Procs, Terminate(p) \/ PortTaken(p) \/ Crash(p) PROVE ReachInv'
  BY <1>8, ExitKeeps DEF Terminate, PortTaken, Crash, Live
<1>9. ASSUME NEW p \in Procs, PortOpen(p) PROVE ReachInv'
  <2>1. /\ restarts' = [restarts EXCEPT ![agent[p]] = 0]
        /\ UNCHANGED <<manualPause, worker, fetching, rpc, made, late, child, stopping, timer, proc, agent>>
    BY <1>9 DEF PortOpen, governorVars, mainVars
  <2>2. restarts' \in [Agents -> 0..MaxRestarts]
    <3>1. restarts \in [Agents -> 0..MaxRestarts] /\ 0 \in 0..MaxRestarts
      BY Numbers DEF ReachInv, AgentTypes
    <3> QED BY <2>1, <3>1, Zenon
  <2>3. AgentTypes'
    BY <2>1, <2>2 DEF ReachInv, AgentTypes
  <2>4. ChildIsLive' /\ Live' = Live
    BY <2>1 DEF ReachInv, ChildIsLive, Live, Awake
  <2>5. late \/ Within'
    BY <2>1, <2>4 DEF ReachInv, Within, On, Stopping
  <2> QED BY <2>1, <2>4, <2>5, <2>3 DEF ReachInv
<1>10. ASSUME NEW p \in Procs, ProbeEnds(p) PROVE ReachInv'
  BY <1>10, ReachStutter DEF ProbeEnds, governorVars, mainVars
<1>11. ASSUME NEW p \in Procs, PortStaysShut(p) PROVE ReachInv'
  <2>1. /\ worker' = IF waits[p] = "timer" THEN "crashed" ELSE worker
        /\ UNCHANGED <<manualPause, fetching, rpc, made, late, child, stopping, restarts, timer, proc, agent>>
        /\ Awake
    BY <1>11 DEF PortStaysShut, governorVars, agentVars
  <2>2. AgentTypes' /\ ChildIsLive' /\ Live' = Live
    BY <2>1 DEF ReachInv, AgentTypes, ChildIsLive, Live, Awake
  <2>3. late \/ Within'
    BY <2>1, <2>2 DEF ReachInv, Within, On, Stopping
  <2> QED BY <2>1, <2>2, <2>3 DEF ReachInv
<1>12. ASSUME NEW a \in Agents, TimerFires(a) PROVE ReachInv'
  <2>1. /\ timer[a] > 0 /\ timer' = [timer EXCEPT ![a] = @ - 1] /\ Awake
        /\ Start(a, "timer", child, stopping)
        /\ UNCHANGED <<manualPause, worker, restarts, late, fetching, rpc, made>>
    BY <1>12 DEF TimerFires, governorVars, mainVars
  <2>2. a \in 1..rpc' /\ rpc <= rpc' /\ rpc' \in 0..MaxAgents /\ fetching' \in Nat /\ made' = rpc'
        /\ timer' \in [Agents -> Nat] /\ \A b \in Agents : timer'[b] > 0 => b \in 1..rpc'
    BY <2>1, Numbers DEF ReachInv, AgentTypes, Agents
  <2>3. late \/ (/\ Live = {} /\ On /\ fetching' = 0 /\ rpc' = a /\ ~stopping[a]
                 /\ \A b \in Agents : timer'[b] = 0)
    BY <2>1 DEF ReachInv, AgentTypes, Within
  <2>4. late \/ \A p \in Procs : Stopping(p) => agent[p] # a
    BY <2>3 DEF ReachInv, Within
  <2> QED BY <2>1, <2>2, <2>3, <2>4, Started
<1>13. CASE Rebinds \/ Reprobe \/ Tick \/ Owner
  BY <1>13, ReachStutter
  DEF Rebinds, Reprobe, Tick, Owner, Update, Changes, governorVars, mainVars, agentVars, procVars
<1>14. CASE UNCHANGED vars
  BY <1>14, ReachStutter DEF vars, governorVars, mainVars, agentVars, procVars
<1> QED BY <1>1, <1>2, <1>3, <1>4, <1>5, <1>6, <1>7, <1>8, <1>9, <1>10, <1>11, <1>12, <1>13, <1>14
        DEF Next, ProcStep

LEMMA PauseIsBoolean == Spec => [](manualPause \in BOOLEAN)
<1>1. Init => manualPause \in BOOLEAN
  BY Zenon DEF Init, GovernorInit
<1>2. manualPause \in BOOLEAN /\ [Next]_vars => (manualPause \in BOOLEAN)'
  <2> SUFFICES ASSUME manualPause \in BOOLEAN, [Next]_vars PROVE manualPause' \in {TRUE, FALSE, manualPause}
    BY Zenon
  <2>1. CASE FetchEnds \/ FetchFails \/ Shutdown \/ Leave \/ Rebinds \/ Reprobe \/ Owner \/ Tick
    BY <2>1 DEF FetchEnds, FetchFails, Shutdown, Leave, Rebinds, Reprobe, Owner, Changes, Tick, Update, governorVars
  <2>2. CASE Pause \/ Resume
    BY <2>2, Zenon DEF Pause, Resume, SetManualPause
  <2>3. ASSUME NEW p \in Procs, ProcStep(p) \/ Crash(p) \/ PortStaysShut(p)
        PROVE  manualPause' = manualPause
    BY <2>3 DEF ProcStep, Listen, Terminate, PortTaken, PortOpen, ProbeEnds, Crash, PortStaysShut,
                Exited, governorVars
  <2>4. ASSUME NEW a \in Agents, TimerFires(a) PROVE manualPause' = manualPause
    BY <2>4 DEF TimerFires, governorVars
  <2>5. CASE UNCHANGED vars
    BY <2>5 DEF vars, governorVars
  <2> QED BY <2>1, <2>2, <2>3, <2>4, <2>5 DEF Next
<1> QED BY <1>1, <1>2, PTL DEF Spec

LEMMA ReachSuffices ==
  capacity \in 0..MaxCapacity /\ manualPause \in BOOLEAN /\ ReachInv => ServersWithinReach
<1> SUFFICES ASSUME capacity \in 0..MaxCapacity, manualPause \in BOOLEAN, ReachInv
             PROVE  ServersWithinReach
  OBVIOUS
<1>1. TypeOK
  <2>1. rpc \in 0..MaxAgents /\ child \in [Agents -> 0..MaxProcs]
        /\ restarts \in [Agents -> 0..MaxRestarts]
    BY DEF ReachInv, AgentTypes
  <2> QED BY <2>1, Zenon DEF TypeOK
<1> QED BY <1>1 DEF ReachInv, Within, On, ServersWithinReach

\* Every server still to run is the child of the latest agent, and none is left once
\* the owner has paused or the worker has left, for any number of agents, processes,
\* restarts and keys, unless a restart or a launch was under way when a key was
\* pressed (rpc.ts start, stop; index.ts pause, shutdown).
THEOREM WithinReach == Spec => []ServersWithinReach
BY CapacityInRange, PauseIsBoolean, ReachInit, ReachNext, ReachSuffices, PTL DEF Spec

-----------------------------------------------------------------------------
(* Finite sets and sums.                                                     *)

\* A nonempty set of numbers has a least element.
LEMMA NatMin ==
  ASSUME NEW T \in SUBSET Nat, T # {}
  PROVE  \E m \in T : \A k \in T : m <= k
<1>1. PICK x \in T : \A y \in T : ~ (<<y, x>> \in OpToRel(<, Nat))
  BY WFMin, NatLessThanWellFounded
<1>2. \A y \in T : ~ (y < x)
  BY <1>1 DEF OpToRel
<1> QED BY <1>2

\* What holds before a loop, and after a turn if before it, holds after m turns.
LEMMA LoopInduction ==
  ASSUME NEW m \in Nat, NEW I, 0 \in I, \A k \in 1..m : k - 1 \in I => k \in I
  PROVE  m \in I
<1> DEFINE T == {k \in 0..m : k \notin I}
<1> SUFFICES ASSUME T # {} PROVE FALSE
  OBVIOUS
<1>0. T \in SUBSET Nat
  OBVIOUS
<1> HIDE DEF T
<1>1. PICK k \in T : \A i \in T : k <= i
  BY <1>0, NatMin
<1> USE DEF T
<1>2. k \in 1..m /\ k \notin I
  <2>1. k \in 0..m /\ k \notin I
    BY <1>1
  <2> QED BY <2>1
<1>3. k - 1 \in 0..m /\ k - 1 \notin T
  BY <1>1, <1>2
<1>4. k - 1 \in I
  BY <1>3
<1> QED BY <1>2, <1>4

\* The parts of a finite set, and what is left of one without an element.
LEMMA FiniteParts ==
  ASSUME NEW S, IsFiniteSet(S)
  PROVE  /\ Cardinality(S) \in Nat
         /\ \A s \in SUBSET S : IsFiniteSet(s) /\ Cardinality(s) \in 0..Cardinality(S)
         /\ \A s \in SUBSET S : \A x \in s : Cardinality(s \ {x}) = Cardinality(s) - 1
         /\ \A s \in SUBSET S : Cardinality(s) = 0 <=> s = {}
<1>1. Cardinality(S) \in Nat /\ \A s \in SUBSET S : IsFiniteSet(s) /\ Cardinality(s) \in 0..Cardinality(S)
  BY FS_CardinalityType, FS_Subset
<1> QED BY <1>1, FS_RemoveElement, FS_EmptySet

\* Induction over the parts of a finite set, for a set G of parts.
LEMMA PartsInduction ==
  ASSUME NEW S, IsFiniteSet(S), NEW G, {} \in G,
         \A s \in SUBSET S : s # {} /\ (\A x \in s : s \ {x} \in G) => s \in G
  PROVE  SUBSET S \subseteq G
<1> DEFINE T == {k \in Nat : \E s \in SUBSET S : Cardinality(s) = k /\ s \notin G}
<1> SUFFICES ASSUME T # {} PROVE FALSE
  BY FiniteParts
<1>1. PICK k \in T : \A i \in T : k <= i
  <2> HIDE DEF T
  <2>1. T \in SUBSET Nat
    BY DEF T
  <2> QED BY <2>1, NatMin
<1>2. PICK s \in SUBSET S : Cardinality(s) = k /\ s \notin G
  BY <1>1
<1>3. ASSUME NEW x \in s PROVE s \ {x} \in G
  <2>1. Cardinality(s \ {x}) = k - 1 /\ s \ {x} \in SUBSET S /\ Cardinality(s \ {x}) \in Nat
    BY <1>2, FiniteParts
  <2>2. k - 1 \notin T
    BY <1>1, <2>1
  <2> QED BY <2>1, <2>2
<1> QED BY <1>2, <1>3

-----------------------------------------------------------------------------
(* Sums over a finite set, as MapThenSumSet computes them.                   *)

Pick(s) == CHOOSE x \in s : TRUE
SumOf(f, S) == MapThenSumSet(LAMBDA n : f[n], S)
Adds(g, f, S) ==
  \A s \in SUBSET S : g[s] = IF s = {} THEN 0 ELSE f[Pick(s)] + g[s \ {Pick(s)}]

\* The element that a fold over a set takes next.
LEMMA PickIn == ASSUME NEW s, s # {} PROVE Pick(s) \in s
BY DEF Pick

\* A fold over the parts of a finite set is defined: each part by one less.
Foldable(S, X, base, top, add) ==
  /\ IsFiniteSet(S) /\ base \in X /\ \A s \in SUBSET S : s # {} => top[s] \in s
  /\ \A n \in S, x \in X : add[<<n, x>>] \in X

Folds(g, S, base, top, add) ==
  \A s \in SUBSET S : g[s] = IF s = {} THEN base ELSE add[<<top[s], g[s \ {top[s]}]>>]

LEMMA FoldExists ==
  ASSUME NEW S, NEW X, NEW base, NEW top, NEW add, Foldable(S, X, base, top, add)
  PROVE  \E g \in [SUBSET S -> X] : Folds(g, S, base, top, add)
<1> DEFINE one(g, s) == IF s = {} THEN base ELSE add[<<top[s], g[s \ {top[s]}]>>]
           I == {k \in Nat : \E g \in [SUBSET S -> X] : \A s \in SUBSET S : Cardinality(s) <= k => g[s] = one(g, s)}
           m == Cardinality(S)
<1> USE DEF Foldable
<1>0. m \in Nat /\ \A s \in SUBSET S : Cardinality(s) \in 0..m
  BY FiniteParts
<1>1. 0 \in I
  <2> DEFINE g == [s \in SUBSET S |-> base]
  <2>1. \A s \in SUBSET S : Cardinality(s) <= 0 => s = {}
    BY <1>0, FiniteParts
  <2>2. g \in [SUBSET S -> X] /\ \A s \in SUBSET S : Cardinality(s) <= 0 => g[s] = one(g, s)
    BY <2>1
  <2> HIDE DEF g, one
  <2> QED BY <2>2
<1>2. ASSUME NEW k \in 1..m, k - 1 \in I PROVE k \in I
  <2>1. PICK g \in [SUBSET S -> X] : \A s \in SUBSET S : Cardinality(s) <= k - 1 => g[s] = one(g, s)
    BY <1>2
  <2> DEFINE h == [s \in SUBSET S |-> one(g, s)]
  <2>2. h \in [SUBSET S -> X]
    <3>1. ASSUME NEW s \in SUBSET S, s # {} PROVE add[<<top[s], g[s \ {top[s]}]>>] \in X
      <4>1. top[s] \in S /\ g[s \ {top[s]}] \in X
        BY <3>1
      <4> QED BY <4>1
    <3> QED BY <3>1
  <2>3. ASSUME NEW s \in SUBSET S, Cardinality(s) <= k PROVE h[s] = one(h, s)
    <3>1. CASE s = {}
      BY <3>1
    <3>2. CASE s # {}
      <4> DEFINE r == s \ {top[s]}
      <4>1. top[s] \in s /\ r \in SUBSET S /\ Cardinality(r) = Cardinality(s) - 1
        BY <3>2, FiniteParts
      <4>2. Cardinality(r) <= k - 1
        BY <1>0, <2>3, <4>1
      <4>3. h[r] = g[r]
        BY <2>1, <4>1, <4>2
      <4> QED BY <3>2, <4>3
    <3> QED BY <3>1, <3>2
  <2> HIDE DEF h, one
  <2> QED BY <2>2, <2>3
<1>3. m \in I
  <2> HIDE DEF I, m
  <2> QED BY <1>0, <1>1, <1>2, LoopInduction
<1>4. PICK g \in [SUBSET S -> X] : \A s \in SUBSET S : Cardinality(s) <= m => g[s] = one(g, s)
  BY <1>3
<1>5. \A s \in SUBSET S : Cardinality(s) <= m
  BY <1>0
<1> QED BY <1>4, <1>5 DEF Folds

\* A sum is a fold.
LEMMA SumExists ==
  ASSUME NEW S, IsFiniteSet(S), NEW f, \A n \in S : f[n] \in Int
  PROVE  \E g \in [SUBSET S -> Int] : Adds(g, f, S)
<1> DEFINE top == [s \in SUBSET S |-> Pick(s)]
           add == [p \in S \X Int |-> f[p[1]] + p[2]]
<1>1. \A s \in SUBSET S : s # {} => top[s] \in s
  BY PickIn
<1>2. \A n \in S, x \in Int : add[<<n, x>>] \in Int
  OBVIOUS
<1> HIDE DEF top, add
<1>3. PICK g \in [SUBSET S -> Int] : Folds(g, S, 0, top, add)
  <2>1. 0 \in Int
    OBVIOUS
  <2>2. Foldable(S, Int, 0, top, add)
    BY <1>1, <1>2, <2>1 DEF Foldable
  <2> QED BY <2>2, FoldExists
<1>4. ASSUME NEW s \in SUBSET S, s # {} PROVE add[<<top[s], g[s \ {top[s]}]>>] = f[Pick(s)] + g[s \ {Pick(s)}]
  <2>1. Pick(s) \in S /\ g[s \ {Pick(s)}] \in Int
    BY <1>4, PickIn
  <2> QED BY <2>1 DEF top, add
<1>5. \A s \in SUBSET S : g[s] = IF s = {} THEN 0 ELSE f[Pick(s)] + g[s \ {Pick(s)}]
  BY <1>3, <1>4 DEF Folds
<1> QED BY <1>5 DEF Adds

\* There is one sum only.
LEMMA SumUnique ==
  ASSUME NEW S, IsFiniteSet(S), NEW f, NEW g, NEW h, Adds(g, f, S), Adds(h, f, S)
  PROVE  g[S] = h[S]
<1> DEFINE G == {s \in SUBSET S : g[s] = h[s]}
<1>1. {} \in G
  BY DEF Adds
<1>2. \A s \in SUBSET S : s # {} /\ (\A x \in s : s \ {x} \in G) => s \in G
  BY PickIn DEF Adds
<1>3. SUBSET S \subseteq G
  <2> HIDE DEF G
  <2> QED BY <1>1, <1>2, PartsInduction
<1> QED BY <1>3

\* The sum of the community modules is that sum.
LEMMA SumAdds ==
  ASSUME NEW S, IsFiniteSet(S), NEW f, \A n \in S : f[n] \in Int
  PROVE  \E g : Adds(g, f, S) /\ g[S] = SumOf(f, S)
<1> DEFINE P(g) == g = [s \in SUBSET S |-> IF s = {} THEN 0 ELSE f[CHOOSE x \in s : TRUE] + g[s \ {CHOOSE x \in s : TRUE}]]
<1>1. SumOf(f, S) = (CHOOSE g : P(g))[S]
  BY Zenon DEF SumOf, MapThenSumSet, MapThenFoldSet
<1>2. PICK h \in [SUBSET S -> Int] : Adds(h, f, S)
  BY SumExists
<1>3. P(h)
  BY <1>2 DEF Adds, Pick
<1>4. \A g : P(g) => Adds(g, f, S)
  BY DEF Adds, Pick
<1> HIDE DEF P
<1>5. P(CHOOSE g : P(g))
  BY <1>3
<1> QED BY <1>1, <1>4, <1>5

\* The sum of a part is what any sum of the whole says of it.
LEMMA SumOfPart ==
  ASSUME NEW S, IsFiniteSet(S), NEW f, \A n \in S : f[n] \in Int, NEW g, Adds(g, f, S), NEW T \in SUBSET S
  PROVE  g[T] = SumOf(f, T)
<1>1. IsFiniteSet(T) /\ \A n \in T : f[n] \in Int
  BY FS_Subset
<1>2. PICK h : Adds(h, f, T) /\ h[T] = SumOf(f, T)
  BY <1>1, SumAdds
<1>3. Adds(g, f, T)
  BY DEF Adds
<1> QED BY <1>1, <1>2, <1>3, SumUnique

\* A sum is its next element, and the sum of the others.
LEMMA SumSteps ==
  ASSUME NEW S, IsFiniteSet(S), NEW f, \A n \in S : f[n] \in Int
  PROVE  /\ SumOf(f, {}) = 0 /\ SumOf(f, S) \in Int
         /\ S # {} => SumOf(f, S) = f[Pick(S)] + SumOf(f, S \ {Pick(S)})
<1>1. PICK g \in [SUBSET S -> Int] : Adds(g, f, S)
  BY SumExists
<1>2. \A T \in SUBSET S : g[T] = SumOf(f, T)
  BY <1>1, SumOfPart
<1>3. {} \in SUBSET S /\ S \in SUBSET S /\ S \ {Pick(S)} \in SUBSET S
  OBVIOUS
<1>4. g[{}] = 0 /\ g[S] \in Int /\ (S # {} => g[S] = f[Pick(S)] + g[S \ {Pick(S)}])
  BY <1>1, <1>3 DEF Adds
<1>5. g[{}] = SumOf(f, {}) /\ g[S] = SumOf(f, S) /\ g[S \ {Pick(S)}] = SumOf(f, S \ {Pick(S)})
  BY <1>2, <1>3
<1> QED BY <1>4, <1>5

\* A sum is a number, and it does not matter which element is added last.
LEMMA SumAny ==
  ASSUME NEW S, IsFiniteSet(S), NEW f, \A n \in S : f[n] \in Int
  PROVE  /\ SumOf(f, {}) = 0 /\ SumOf(f, S) \in Int
         /\ \A x \in S : SumOf(f, S) = f[x] + SumOf(f, S \ {x})
<1> DEFINE G == {s \in SUBSET S : \A x \in s : SumOf(f, s) = f[x] + SumOf(f, s \ {x})}
<1>1. {} \in G
  OBVIOUS
<1>2. ASSUME NEW s \in SUBSET S, s # {}, \A x \in s : s \ {x} \in G, NEW x \in s
      PROVE  SumOf(f, s) = f[x] + SumOf(f, s \ {x})
  <2> DEFINE p == Pick(s)
             r == (s \ {p}) \ {x}
  <2>1. p \in s /\ f[p] \in Int /\ f[x] \in Int
    BY <1>2, PickIn
  <2>2. SumOf(f, s) = f[p] + SumOf(f, s \ {p})
    <3>1. IsFiniteSet(s) /\ \A n \in s : f[n] \in Int
      BY FS_Subset
    <3> QED BY <1>2, <3>1, SumSteps
  <2>3. CASE x = p
    BY <2>2, <2>3
  <2>4. CASE x # p
    <3>1. SumOf(f, s \ {p}) = f[x] + SumOf(f, r)
      BY <1>2, <2>1, <2>4
    <3>2. r = (s \ {x}) \ {p}
      OBVIOUS
    <3>3. SumOf(f, s \ {x}) = f[p] + SumOf(f, r)
      BY <1>2, <2>1, <2>4, <3>2
    <3>4. SumOf(f, r) \in Int
      <4>1. r \in SUBSET S
        OBVIOUS
      <4>2. IsFiniteSet(r) /\ \A n \in r : f[n] \in Int
        BY <4>1, FS_Subset
      <4> HIDE DEF r
      <4> QED BY <4>2, SumSteps
    <3> HIDE DEF p, r
    <3> QED BY <2>1, <2>2, <3>1, <3>3, <3>4
  <2> QED BY <2>3, <2>4
<1>3. SUBSET S \subseteq G
  <2>1. \A s \in SUBSET S : s # {} /\ (\A x \in s : s \ {x} \in G) => s \in G
    BY <1>2
  <2> HIDE DEF G
  <2> QED BY <1>1, <2>1, PartsInduction
<1>4. S \in SUBSET S
  OBVIOUS
<1> QED BY <1>3, <1>4, SumSteps

\* The sum over two disjoint sets.
LEMMA SumUnion ==
  ASSUME NEW A, IsFiniteSet(A), NEW B, IsFiniteSet(B), A \cap B = {},
         NEW f, \A n \in A \cup B : f[n] \in Int
  PROVE  SumOf(f, A \cup B) = SumOf(f, A) + SumOf(f, B)
<1> DEFINE G == {s \in SUBSET B : SumOf(f, A \cup s) = SumOf(f, A) + SumOf(f, s)}
<1>0. SumOf(f, A) \in Int
  BY SumAny
<1>1. {} \in G
  <2>1. SumOf(f, {}) = 0 /\ A \cup {} = A
    BY SumAny
  <2> QED BY <1>0, <2>1
<1>2. ASSUME NEW s \in SUBSET B, s # {}, \A x \in s : s \ {x} \in G
      PROVE  s \in G
  <2>1. PICK x \in s : TRUE
    BY <1>2
  <2>2. SumOf(f, A \cup (s \ {x})) = SumOf(f, A) + SumOf(f, s \ {x})
    BY <1>2
  <2>3. (A \cup s) \ {x} = A \cup (s \ {x}) /\ x \in A \cup s /\ f[x] \in Int
    BY <2>1
  <2>4. SumOf(f, s) = f[x] + SumOf(f, s \ {x})
    <3>1. IsFiniteSet(s) /\ \A n \in s : f[n] \in Int
      BY FS_Subset
    <3> QED BY <3>1, SumAny
  <2>5. SumOf(f, A \cup s) = f[x] + SumOf(f, (A \cup s) \ {x})
    <3>1. IsFiniteSet(A \cup s) /\ \A n \in A \cup s : f[n] \in Int
      BY FS_Subset, FS_Union
    <3> QED BY <2>3, <3>1, SumAny
  <2>6. SumOf(f, s \ {x}) \in Int
    <3> DEFINE r == s \ {x}
    <3>1. IsFiniteSet(r) /\ \A n \in r : f[n] \in Int
      BY FS_Subset
    <3> HIDE DEF r
    <3>2. SumOf(f, r) \in Int
      BY <3>1, SumAny
    <3> QED BY <3>2 DEF r
  <2>7. SumOf(f, A \cup s) = f[x] + SumOf(f, A \cup (s \ {x}))
    BY <2>3, <2>5
  <2>8. \A u, v, w \in Int : u + (v + w) = v + (u + w)
    OBVIOUS
  <2>9. SumOf(f, A \cup s) = SumOf(f, A) + SumOf(f, s)
    BY <1>0, <2>2, <2>3, <2>4, <2>6, <2>7, <2>8
  <2> QED BY <2>9
<1>3. SUBSET B \subseteq G
  <2>1. \A s \in SUBSET B : s # {} /\ (\A x \in s : s \ {x} \in G) => s \in G
    BY <1>2
  <2> HIDE DEF G
  <2> QED BY <1>1, <2>1, PartsInduction
<1> QED BY <1>3

\* Sums are linear.
LEMMA SumLinear ==
  ASSUME NEW S, IsFiniteSet(S), NEW a \in Int, NEW f, NEW g, NEW h,
         \A n \in S : f[n] \in Int /\ g[n] \in Int /\ h[n] = a * f[n] + g[n]
  PROVE  SumOf(h, S) = a * SumOf(f, S) + SumOf(g, S)
<1> DEFINE G == {s \in SUBSET S : SumOf(h, s) = a * SumOf(f, s) + SumOf(g, s)}
<1>0. \A n \in S : h[n] \in Int
  OBVIOUS
<1>1. {} \in G
  BY <1>0, SumAny
<1>2. ASSUME NEW s \in SUBSET S, s # {}, \A x \in s : s \ {x} \in G
      PROVE  s \in G
  <2>1. PICK x \in s : TRUE
    BY <1>2
  <2> DEFINE r == s \ {x}
  <2>2. IsFiniteSet(s) /\ IsFiniteSet(r)
    BY FS_Subset
  <2>3. SumOf(h, r) = a * SumOf(f, r) + SumOf(g, r)
    BY <1>2
  <2>4. SumOf(f, s) = f[x] + SumOf(f, r) /\ SumOf(g, s) = g[x] + SumOf(g, r) /\ SumOf(h, s) = h[x] + SumOf(h, r)
    BY <1>0, <2>1, <2>2, SumAny
  <2>5. SumOf(f, r) \in Int /\ SumOf(g, r) \in Int
    <3>1. \A n \in r : f[n] \in Int /\ g[n] \in Int
      OBVIOUS
    <3> HIDE DEF r
    <3> QED BY <2>2, <3>1, SumAny
  <2>6. f[x] \in Int /\ g[x] \in Int /\ h[x] = a * f[x] + g[x]
    BY <2>1
  <2> DEFINE F == SumOf(f, r)
             K == SumOf(g, r)
             u == f[x]
             v == g[x]
  <2>7. a * (u + F) + (v + K) = (a * u + v) + (a * F + K)
    <3>1. F \in Int /\ K \in Int /\ u \in Int /\ v \in Int
      BY <2>5, <2>6
    <3> HIDE DEF F, K, u, v
    <3> QED BY <3>1
  <2> HIDE DEF r
  <2> QED BY <2>3, <2>4, <2>6, <2>7
<1>3. SUBSET S \subseteq G
  <2>1. \A s \in SUBSET S : s # {} /\ (\A x \in s : s \ {x} \in G) => s \in G
    BY <1>2
  <2> HIDE DEF G
  <2> QED BY <1>1, <2>1, PartsInduction
<1> QED BY <1>3

\* Sums grow with what is added.
LEMMA SumLeq ==
  ASSUME NEW S, IsFiniteSet(S), NEW f, NEW g,
         \A n \in S : f[n] \in Int /\ g[n] \in Int /\ f[n] <= g[n]
  PROVE  /\ SumOf(f, S) <= SumOf(g, S)
         /\ (\E n \in S : f[n] < g[n]) => SumOf(f, S) < SumOf(g, S)
<1> DEFINE G == {s \in SUBSET S : SumOf(f, s) <= SumOf(g, s)}
<1>1. {} \in G
  BY SumAny
<1>2. ASSUME NEW s \in SUBSET S, NEW x \in s
      PROVE  /\ SumOf(f, s) = f[x] + SumOf(f, s \ {x}) /\ SumOf(g, s) = g[x] + SumOf(g, s \ {x})
             /\ SumOf(f, s \ {x}) \in Int /\ SumOf(g, s \ {x}) \in Int
  <2> DEFINE r == s \ {x}
  <2>1. IsFiniteSet(s) /\ IsFiniteSet(r)
    BY FS_Subset
  <2>2. \A n \in r : f[n] \in Int /\ g[n] \in Int
    OBVIOUS
  <2>3. SumOf(f, s) = f[x] + SumOf(f, r) /\ SumOf(g, s) = g[x] + SumOf(g, r)
    BY <2>1, SumAny
  <2>4. SumOf(f, r) \in Int /\ SumOf(g, r) \in Int
    <3> HIDE DEF r
    <3> QED BY <2>1, <2>2, SumAny
  <2> QED BY <2>3, <2>4
<1>3. ASSUME NEW s \in SUBSET S, s # {}, \A x \in s : s \ {x} \in G
      PROVE  s \in G
  <2>1. PICK x \in s : TRUE
    BY <1>3
  <2>2. SumOf(f, s \ {x}) <= SumOf(g, s \ {x}) /\ f[x] \in Int /\ g[x] \in Int /\ f[x] <= g[x]
    BY <1>3, <2>1
  <2>3. SumOf(f, s) <= SumOf(g, s)
    BY <1>2, <2>2
  <2> QED BY <2>3
<1>4. SUBSET S \subseteq G
  <2>1. \A s \in SUBSET S : s # {} /\ (\A x \in s : s \ {x} \in G) => s \in G
    BY <1>3
  <2> HIDE DEF G
  <2> QED BY <1>1, <2>1, PartsInduction
<1>5. ASSUME NEW n \in S, f[n] < g[n] PROVE SumOf(f, S) < SumOf(g, S)
  <2>1. S \in SUBSET S /\ S \ {n} \in SUBSET S
    OBVIOUS
  <2>2. SumOf(f, S \ {n}) <= SumOf(g, S \ {n})
    BY <1>4, <2>1
  <2> QED BY <1>2, <1>5, <2>1, <2>2
<1> QED BY <1>4, <1>5

\* The sum of a constant.
LEMMA SumConstant ==
  ASSUME NEW S, IsFiniteSet(S), NEW c \in Int, NEW f, \A n \in S : f[n] = c
  PROVE  SumOf(f, S) = c * Cardinality(S)
<1> DEFINE G == {s \in SUBSET S : SumOf(f, s) = c * Cardinality(s)}
<1>0. \A n \in S : f[n] \in Int
  OBVIOUS
<1>1. {} \in G
  BY <1>0, SumAny, FS_EmptySet
<1>2. ASSUME NEW s \in SUBSET S, s # {}, \A x \in s : s \ {x} \in G
      PROVE  s \in G
  <2>1. PICK x \in s : TRUE
    BY <1>2
  <2>2. SumOf(f, s \ {x}) = c * Cardinality(s \ {x}) /\ f[x] = c
    BY <1>2, <2>1
  <2>3. IsFiniteSet(s) /\ \A n \in s : f[n] \in Int
    BY <1>0, FS_Subset
  <2>4. SumOf(f, s) = f[x] + SumOf(f, s \ {x})
    BY <2>1, <2>3, SumAny
  <2>5. Cardinality(s \ {x}) = Cardinality(s) - 1 /\ Cardinality(s) \in Nat
    BY <2>1, FiniteParts
  <2> DEFINE k == Cardinality(s)
  <2>6. c + c * (k - 1) = c * k
    <3>1. k \in Int
      BY <2>5
    <3> HIDE DEF k
    <3> QED BY <3>1
  <2> QED BY <2>2, <2>4, <2>5, <2>6
<1>3. SUBSET S \subseteq G
  <2>1. \A s \in SUBSET S : s # {} /\ (\A x \in s : s \ {x} \in G) => s \in G
    BY <1>2
  <2> HIDE DEF G
  <2> QED BY <1>1, <2>1, PartsInduction
<1> QED BY <1>3

-----------------------------------------------------------------------------
(* Sorting: the place of a node is the number of nodes before it.            *)

\* R orders S strictly.
Orders(R, S) ==
  /\ \A a \in S : <<a, a>> \notin R
  /\ \A a, b, c \in S : <<a, b>> \in R /\ <<b, c>> \in R => <<a, c>> \in R
  /\ \A a, b \in S : a # b => <<a, b>> \in R \/ <<b, a>> \in R
Ahead(R, S, n) == {m \in S : <<m, n>> \in R}
\* s lists S in the order R.
Sorted(s, S, R) ==
  /\ Cardinality(S) \in Nat /\ s \in [1..Cardinality(S) -> S]
  /\ \A i, j \in 1..Cardinality(S) : i < j => <<s[i], s[j]>> \in R
  /\ \A i, j \in 1..Cardinality(S) : i # j => s[i] # s[j]
  /\ \A n \in S : \E i \in 1..Cardinality(S) : s[i] = n

\* In an order, who is before whom shows in the number of elements before each.
LEMMA PlacesGrow ==
  ASSUME NEW S, IsFiniteSet(S), NEW R, Orders(R, S), NEW m \in S, NEW n \in S
  PROVE  /\ Cardinality(Ahead(R, S, n)) \in 0..(Cardinality(S) - 1)
         /\ <<m, n>> \in R <=> Cardinality(Ahead(R, S, m)) < Cardinality(Ahead(R, S, n))
<1>1. ASSUME NEW a \in S
      PROVE  /\ Cardinality(Ahead(R, S, a)) \in 0..(Cardinality(S) - 1)
             /\ IsFiniteSet(Ahead(R, S, a))
  <2>1. Ahead(R, S, a) \in SUBSET (S \ {a})
    BY DEF Ahead, Orders
  <2>2. IsFiniteSet(S \ {a}) /\ Cardinality(S \ {a}) = Cardinality(S) - 1
    BY FS_RemoveElement
  <2>3. IsFiniteSet(Ahead(R, S, a)) /\ Cardinality(Ahead(R, S, a)) <= Cardinality(S \ {a})
    BY <2>1, <2>2, FS_Subset
  <2> QED BY <2>2, <2>3, FS_CardinalityType
<1>2. ASSUME NEW a \in S, NEW b \in S, <<a, b>> \in R
      PROVE  Cardinality(Ahead(R, S, a)) < Cardinality(Ahead(R, S, b))
  <2>1. Ahead(R, S, a) \cup {a} \in SUBSET Ahead(R, S, b) /\ a \notin Ahead(R, S, a)
    BY <1>2 DEF Ahead, Orders
  <2>2. Cardinality(Ahead(R, S, a) \cup {a}) = Cardinality(Ahead(R, S, a)) + 1
    BY <1>1, <2>1, FS_AddElement
  <2>3. Cardinality(Ahead(R, S, a) \cup {a}) <= Cardinality(Ahead(R, S, b))
    BY <1>1, <2>1, FS_Subset
  <2>4. Cardinality(Ahead(R, S, a)) \in Nat /\ Cardinality(Ahead(R, S, b)) \in Nat
    BY <1>1
  <2> QED BY <2>2, <2>3, <2>4
<1>3. Cardinality(Ahead(R, S, m)) \in Nat /\ Cardinality(Ahead(R, S, n)) \in Nat
  BY <1>1
<1>4. CASE <<m, n>> \in R
  BY <1>1, <1>2, <1>4
<1>5. CASE <<n, m>> \in R /\ <<m, n>> \notin R
  <2>1. Cardinality(Ahead(R, S, n)) < Cardinality(Ahead(R, S, m))
    BY <1>2, <1>5
  <2> QED BY <1>1, <1>3, <1>5, <2>1
<1>6. CASE m = n
  <2>1. <<m, n>> \notin R
    BY <1>6 DEF Orders
  <2> QED BY <1>1, <1>3, <1>6, <2>1
<1> QED BY <1>4, <1>5, <1>6 DEF Orders

\* Every place is taken by an element: as many elements as places, and no two share one.
LEMMA EveryPlaceTaken ==
  ASSUME NEW S, IsFiniteSet(S), NEW R, Orders(R, S), NEW i \in 1..Cardinality(S)
  PROVE  \E n \in S : Cardinality(Ahead(R, S, n)) = i - 1
<1> DEFINE k == Cardinality(S)
           T == 0..(k - 1)
           place == [n \in S |-> Cardinality(Ahead(R, S, n))]
<1>1. k \in Nat
  BY FS_CardinalityType
<1>2. IsFiniteSet(T) /\ Cardinality(T) = k
  <2> HIDE DEF k
  <2> QED BY <1>1, FS_Interval
<1>3. place \in [S -> T]
  BY PlacesGrow
<1>4. ASSUME NEW m \in S, NEW n \in S, m # n PROVE place[m] # place[n]
  <2>1. place[m] \in Nat /\ place[n] \in Nat
    BY <1>3
  <2>2. place[m] < place[n] \/ place[n] < place[m]
    BY <1>4, PlacesGrow DEF Orders
  <2> QED BY <2>1, <2>2
<1> HIDE DEF place, T
<1>5. place \in Injection(S, T)
  <2>1. \A m, n \in S : place[m] = place[n] => m = n
    BY <1>4
  <2> QED BY <1>3, <2>1 DEF Injection, IsInjective
<1>6. place \in Surjection(S, T)
  BY <1>2, <1>5, FS_Injection
<1>7. i - 1 \in T
  BY <1>1 DEF T
<1>8. \E n \in S : place[n] = i - 1
  BY <1>6, <1>7 DEF Surjection
<1> QED BY <1>8 DEF place

\* Listing the elements by their place sorts them.
LEMMA PlacesSort ==
  ASSUME NEW S, IsFiniteSet(S), NEW R, Orders(R, S),
         NEW s, s = [i \in 1..Cardinality(S) |-> CHOOSE n \in S : Cardinality(Ahead(R, S, n)) = i - 1]
  PROVE  Sorted(s, S, R)
<1> DEFINE k == Cardinality(S)
           place(n) == Cardinality(Ahead(R, S, n))
<1>1. k \in Nat
  BY FS_CardinalityType
<1>2. \A i \in 1..k : s[i] \in S /\ place(s[i]) = i - 1
  BY EveryPlaceTaken
<1>3. \A m, n \in S : <<m, n>> \in R <=> place(m) < place(n)
  BY PlacesGrow
<1>4. \A n \in S : place(n) \in 0..(k - 1)
  BY PlacesGrow
<1>5. \A m, n \in S : place(m) = place(n) => m = n
  <2> SUFFICES ASSUME NEW m \in S, NEW n \in S, m # n PROVE place(m) # place(n)
    OBVIOUS
  <2>1. <<m, n>> \in R \/ <<n, m>> \in R
    BY DEF Orders
  <2>2. place(m) < place(n) \/ place(n) < place(m)
    BY <1>3, <2>1
  <2>3. place(m) \in Nat /\ place(n) \in Nat
    BY <1>4
  <2> HIDE DEF place
  <2> QED BY <2>2, <2>3
<1> HIDE DEF k, place
<1>6. s \in [1..k -> S]
  BY <1>2 DEF k
<1>7. \A i, j \in 1..k : i < j => <<s[i], s[j]>> \in R
  <2>1. \A i, j \in 1..k : i < j => i - 1 < j - 1
    BY <1>1
  <2> QED BY <1>2, <1>3, <2>1
<1>8. \A i, j \in 1..k : i # j => s[i] # s[j]
  <2> SUFFICES ASSUME NEW i \in 1..k, NEW j \in 1..k, i # j, s[i] = s[j] PROVE FALSE
    OBVIOUS
  <2>1. place(s[i]) = i - 1 /\ place(s[j]) = j - 1
    BY <1>2
  <2>2. place(s[i]) = place(s[j])
    OBVIOUS
  <2> QED BY <1>1, <2>1, <2>2
<1>9. \A n \in S : \E i \in 1..k : s[i] = n
  <2> SUFFICES ASSUME NEW n \in S PROVE \E i \in 1..k : s[i] = n
    OBVIOUS
  <2>1. place(n) + 1 \in 1..k /\ (place(n) + 1) - 1 = place(n)
    BY <1>1, <1>4
  <2>2. place(s[place(n) + 1]) = place(n) /\ s[place(n) + 1] \in S
    BY <1>2, <2>1
  <2>3. s[place(n) + 1] = n
    BY <1>5, <2>2
  <2> QED BY <2>1, <2>3
<1> QED BY <1>1, <1>6, <1>7, <1>8, <1>9 DEF Sorted, k

\* The first k of a sorted list are k.
LEMMA PrefixSize ==
  ASSUME NEW S, IsFiniteSet(S), NEW R, NEW s, Sorted(s, S, R), NEW k \in 0..Cardinality(S)
  PROVE  /\ Prefix(s, k) \subseteq S /\ IsFiniteSet(Prefix(s, k)) /\ Cardinality(Prefix(s, k)) = k
         /\ \A n \in S : n \in Prefix(s, k) <=> \E i \in 1..Cardinality(S) : i <= k /\ s[i] = n
<1> DEFINE f == [i \in 1..k |-> s[i]]
           P == Prefix(s, k)
           c == Cardinality(S)
<1>1. c \in Nat /\ k \in Nat /\ k <= c /\ \A i \in 1..k : i \in 1..c /\ s[i] \in S
  BY FS_CardinalityType DEF Sorted
<1>2. P = {s[i] : i \in 1..k}
  BY DEF Prefix
<1>3. f \in [1..k -> P] /\ \A x \in P : \E i \in 1..k : f[i] = x
  BY <1>2
<1>4. \A i, j \in 1..k : i # j => f[i] # f[j]
  BY <1>1 DEF Sorted
<1>5. IsFiniteSet(1..k) /\ Cardinality(1..k) = k
  BY <1>1, FS_Interval
<1> HIDE DEF f, P
<1>6. f \in Surjection(1..k, P) /\ f \in Injection(1..k, P)
  <2>1. \A i, j \in 1..k : f[i] = f[j] => i = j
    BY <1>4
  <2> QED BY <1>3, <2>1 DEF Surjection, Injection, IsInjective
<1>7. IsFiniteSet(P) /\ Cardinality(P) = k
  BY <1>5, <1>6, FS_Surjection
<1>8. P \subseteq S
  BY <1>1, <1>2
<1>9. \A n : n \in P <=> \E i \in 1..k : s[i] = n
  BY <1>2
<1>10. \A i : i \in 1..k <=> i \in 1..c /\ i <= k
  BY <1>1
<1>11. \A n \in S : n \in P <=> \E i \in 1..c : i <= k /\ s[i] = n
  BY <1>9, <1>10
<1> QED BY <1>7, <1>8, <1>11 DEF P

-----------------------------------------------------------------------------
(* The planner.                                                              *)

\* V is what the registry knows of finitely many nodes.
Known(V) == DOMAIN V \subseteq Nat /\ IsFiniteSet(DOMAIN V) /\ V \in [DOMAIN V -> View]
Offers(V) == [n \in DOMAIN V |-> V[n].offered]
Ranked(V) == InOrder(Candidates(V), LAMBDA a, b : MemoryFirst(V, a, b))
MostMemory(V) == {p \in (DOMAIN V) \X (DOMAIN V) : MemoryFirst(V, p[1], p[2])}

\* The numbers of a report.
LEMMA ViewFields ==
  ASSUME NEW V, Known(V), NEW n \in DOMAIN V
  PROVE  V[n].offered \in Nat /\ V[n].latency \in Nat /\ V[n].throughput \in Nat /\ n \in Nat
BY DEF Known, View

\* The pool of a set of nodes is the sum of their offers.
LEMMA PooledIs ==
  ASSUME NEW V, Known(V), NEW S \in SUBSET DOMAIN V
  PROVE  /\ IsFiniteSet(S) /\ Pooled(V, S) = SumOf(Offers(V), S) /\ Pooled(V, S) \in Nat
         /\ \A n \in S : Offers(V)[n] \in Nat /\ Offers(V)[n] = V[n].offered
<1> DEFINE f == Offers(V)
           P(i) == i = [s \in SUBSET S |-> IF s = {} THEN 0 ELSE V[CHOOSE x \in s : TRUE].offered + i[s \ {CHOOSE x \in s : TRUE}]]
           Q(i) == i = [s \in SUBSET S |-> IF s = {} THEN 0 ELSE f[CHOOSE x \in s : TRUE] + i[s \ {CHOOSE x \in s : TRUE}]]
<1>1. Pooled(V, S) = (CHOOSE i : P(i))[S]
  BY Zenon DEF Pooled, MapThenSumSet, MapThenFoldSet
<1>2. SumOf(f, S) = (CHOOSE i : Q(i))[S]
  BY Zenon DEF SumOf, MapThenSumSet, MapThenFoldSet
<1>3. \A n \in S : f[n] \in Nat /\ f[n] = V[n].offered
  BY ViewFields DEF Offers
<1>4. \A i : P(i) <=> Q(i)
  <2>1. \A s \in SUBSET S : s # {} => f[CHOOSE x \in s : TRUE] = V[CHOOSE x \in s : TRUE].offered
    <3>1. \A s \in SUBSET S : s # {} => (CHOOSE x \in s : TRUE) \in S
      OBVIOUS
    <3> HIDE DEF f
    <3> QED BY <1>3, <3>1
  <2> HIDE DEF f
  <2> QED BY <2>1
<1> HIDE DEF P, Q
<1>5. (CHOOSE i : P(i)) = (CHOOSE i : Q(i))
  BY <1>4, Zenon
<1>6. IsFiniteSet(S)
  BY FS_Subset DEF Known
<1> HIDE DEF f
<1>7. SumOf(f, S) \in Nat
  <2> DEFINE z == [n \in S |-> 0]
  <2>1. \A n \in S : z[n] = 0 /\ z[n] \in Int /\ f[n] \in Int /\ z[n] <= f[n]
    BY <1>3
  <2> HIDE DEF z
  <2>2. SumOf(z, S) = 0 * Cardinality(S) /\ SumOf(z, S) <= SumOf(f, S) /\ SumOf(f, S) \in Int
    BY <1>6, <2>1, SumConstant, SumLeq, SumAny
  <2>3. Cardinality(S) \in Nat
    BY <1>6, FS_CardinalityType
  <2> QED BY <2>2, <2>3
<1> QED BY <1>1, <1>2, <1>3, <1>5, <1>6, <1>7 DEF f

\* The planner's ranking is an order: it leaves nothing undecided.
LEMMA MemoryOrders ==
  ASSUME NEW V, Known(V), NEW S \in SUBSET DOMAIN V
  PROVE  Orders(MostMemory(V), S)
<1>1. ASSUME NEW a \in DOMAIN V, NEW b \in DOMAIN V
      PROVE  <<a, b>> \in MostMemory(V) <=> MemoryFirst(V, a, b)
  BY DEF MostMemory
<1>2. \A a \in S : ~MemoryFirst(V, a, a)
  BY ViewFields DEF MemoryFirst, Listed
<1>3. ASSUME NEW a \in S, NEW b \in S, a # b PROVE MemoryFirst(V, a, b) \/ MemoryFirst(V, b, a)
  BY <1>3, ViewFields DEF MemoryFirst, Listed
<1>4. ASSUME NEW a \in S, NEW b \in S, NEW c \in S, MemoryFirst(V, a, b), MemoryFirst(V, b, c)
      PROVE  MemoryFirst(V, a, c)
  BY <1>4, ViewFields DEF MemoryFirst, Listed
<1> QED BY <1>1, <1>2, <1>3, <1>4 DEF Orders

\* The ranking lists every candidate.
LEMMA RankedSorted ==
  ASSUME NEW V, Known(V)
  PROVE  /\ Candidates(V) \in SUBSET DOMAIN V /\ IsFiniteSet(Candidates(V))
         /\ Sorted(Ranked(V), Candidates(V), MostMemory(V)) /\ Len(Ranked(V)) = Cardinality(Candidates(V))
<1> DEFINE C == Candidates(V)
           R == MostMemory(V)
<1>1. C \in SUBSET DOMAIN V /\ IsFiniteSet(C)
  <2>1. C \in SUBSET DOMAIN V
    BY DEF Candidates
  <2> QED BY <2>1, FS_Subset DEF Known
<1>2. \A n \in C : Ahead(R, C, n) = {m \in C : MemoryFirst(V, m, n)}
  BY <1>1 DEF Ahead, MostMemory
<1>3. Ranked(V) = [i \in 1..Cardinality(C) |-> CHOOSE n \in C : Cardinality({m \in C : MemoryFirst(V, m, n)}) = i - 1]
  BY DEF Ranked, InOrder
<1> HIDE DEF C, R
<1>4. ASSUME NEW i \in 1..Cardinality(C)
      PROVE  (CHOOSE n \in C : Cardinality({m \in C : MemoryFirst(V, m, n)}) = i - 1)
               = CHOOSE n \in C : Cardinality(Ahead(R, C, n)) = i - 1
  <2> DEFINE P(n) == n \in C /\ Cardinality({m \in C : MemoryFirst(V, m, n)}) = i - 1
             Q(n) == n \in C /\ Cardinality(Ahead(R, C, n)) = i - 1
  <2>1. \A n : P(n) <=> Q(n)
    BY <1>2
  <2> HIDE DEF P, Q
  <2>2. (CHOOSE n : P(n)) = (CHOOSE n : Q(n))
    BY <2>1, Zenon
  <2> QED BY <2>2 DEF P, Q
<1>5. Ranked(V) = [i \in 1..Cardinality(C) |-> CHOOSE n \in C : Cardinality(Ahead(R, C, n)) = i - 1]
  BY <1>3, <1>4
<1>6. Orders(R, C)
  BY <1>1, MemoryOrders DEF R
<1>7. Sorted(Ranked(V), C, R)
  BY <1>1, <1>5, <1>6, PlacesSort
<1>8. Len(Ranked(V)) = Cardinality(C)
  BY <1>7 DEF Sorted
<1> QED BY <1>1, <1>7, <1>8 DEF C, R

\* No set of candidates offers more than as many candidates that offer most.
LEMMA MostFirst ==
  ASSUME NEW V, Known(V), NEW T \in SUBSET Candidates(V)
  PROVE  Pooled(V, T) <= Pooled(V, Prefix(Ranked(V), Cardinality(T)))
<1> DEFINE C == Candidates(V)
           s == Ranked(V)
           k == Cardinality(T)
           P == Prefix(s, k)
           f == Offers(V)
           c == Cardinality(C)
<1>1. C \in SUBSET DOMAIN V /\ IsFiniteSet(C) /\ Sorted(s, C, MostMemory(V))
  BY RankedSorted
<1>2. IsFiniteSet(T) /\ k \in 0..c /\ c \in Nat
  BY <1>1, FS_Subset, FS_CardinalityType
<1>3. /\ P \subseteq C /\ IsFiniteSet(P) /\ Cardinality(P) = k
      /\ \A n \in C : n \in P <=> \E i \in 1..c : i <= k /\ s[i] = n
  BY <1>1, <1>2, PrefixSize
<1>4. /\ Pooled(V, T) = SumOf(f, T) /\ Pooled(V, P) = SumOf(f, P) /\ Pooled(V, T) \in Nat
      /\ \A n \in C : f[n] \in Nat /\ f[n] = V[n].offered
  <2>1. T \in SUBSET DOMAIN V /\ P \in SUBSET DOMAIN V
    BY <1>1, <1>3
  <2> HIDE DEF P
  <2> QED BY <1>1, <2>1, PooledIs
<1>5. ASSUME NEW i \in 1..c, NEW j \in 1..c, i <= j PROVE f[s[i]] >= f[s[j]]
  <2>1. s[i] \in C /\ s[j] \in C /\ f[s[i]] \in Nat /\ f[s[j]] \in Nat
    BY <1>1, <1>4 DEF Sorted
  <2>2. CASE i = j
    BY <2>1, <2>2
  <2>3. CASE i < j
    <3>1. MemoryFirst(V, s[i], s[j])
      BY <1>1, <2>3 DEF Sorted, MostMemory
    <3>2. V[s[i]].offered = f[s[i]] /\ V[s[j]].offered = f[s[j]]
      BY <1>4, <2>1
    <3>3. V[s[i]].offered > V[s[j]].offered \/ V[s[i]].offered = V[s[j]].offered
      BY <3>1 DEF MemoryFirst
    <3> HIDE DEF f, s
    <3> QED BY <2>1, <3>2, <3>3
  <2> QED BY <1>5, <2>2, <2>3
<1> HIDE DEF C, s, f, P, c, k
<1> USE DEF k
<1>6. CASE k = 0
  <2>1. T = {} /\ P = {}
    BY <1>2, <1>3, <1>6, FS_EmptySet
  <2>2. Pooled(V, T) <= Pooled(V, P)
    BY <1>4, <2>1
  <2> QED BY <2>2 DEF P, s, k
<1>7. CASE k # 0
  <2> DEFINE m == f[s[k]]
             A == P \cap T
             X == T \ P
             Y == P \ T
  <2>1. k \in 1..c /\ m \in Nat
    BY <1>1, <1>2, <1>4, <1>7 DEF Sorted, c
  <2>2. \A n \in P : f[n] >= m
    <3> SUFFICES ASSUME NEW n \in P PROVE f[n] >= m
      OBVIOUS
    <3>1. PICK i \in 1..c : i <= k /\ s[i] = n
      BY <1>3
    <3> QED BY <1>5, <2>1, <3>1
  <2>3. \A n \in X : f[n] <= m
    <3> SUFFICES ASSUME NEW n \in X PROVE f[n] <= m
      OBVIOUS
    <3>1. n \in C
      BY DEF C
    <3>2. PICK i \in 1..c : s[i] = n
      BY <1>1, <3>1 DEF Sorted, c
    <3>3. k <= i
      BY <1>2, <1>3, <3>1, <3>2
    <3> QED BY <1>5, <2>1, <3>2, <3>3
  <2>4. /\ IsFiniteSet(A) /\ IsFiniteSet(X) /\ IsFiniteSet(Y)
        /\ Cardinality(X) = k - Cardinality(A) /\ Cardinality(Y) = k - Cardinality(A) /\ Cardinality(A) \in Nat
    <3>1. IsFiniteSet(A) /\ T \cap P = A /\ P \cap T = A
      BY <1>2, <1>3, FS_Intersection
    <3>2. IsFiniteSet(X) /\ Cardinality(X) = k - Cardinality(T \cap P)
      BY <1>2, FS_Difference
    <3>3. IsFiniteSet(Y) /\ Cardinality(Y) = k - Cardinality(P \cap T)
      BY <1>3, FS_Difference
    <3>4. Cardinality(A) \in Nat
      BY <3>1, FS_CardinalityType
    <3> QED BY <3>1, <3>2, <3>3, <3>4
  <2>5. \A n \in T \cup P : f[n] \in Int
    BY <1>3, <1>4 DEF C
  <2>6. SumOf(f, T) = SumOf(f, A) + SumOf(f, X) /\ SumOf(f, P) = SumOf(f, A) + SumOf(f, Y)
    <3>1. A \cup X = T /\ A \cap X = {} /\ A \cup Y = P /\ A \cap Y = {}
      OBVIOUS
    <3>2. \A n \in A \cup X : f[n] \in Int
      BY <2>5
    <3>3. \A n \in A \cup Y : f[n] \in Int
      BY <2>5
    <3> HIDE DEF A, X, Y
    <3>4. SumOf(f, A \cup X) = SumOf(f, A) + SumOf(f, X) /\ SumOf(f, A \cup Y) = SumOf(f, A) + SumOf(f, Y)
      BY <2>4, <3>1, <3>2, <3>3, SumUnion
    <3> QED BY <3>1, <3>4
  <2> DEFINE g == [n \in T \cup P |-> m]
  <2>7. /\ \A n \in X : g[n] = m /\ f[n] \in Int /\ g[n] \in Int /\ f[n] <= g[n]
        /\ \A n \in Y : g[n] = m /\ f[n] \in Int /\ g[n] \in Int /\ g[n] <= f[n]
        /\ \A n \in A : f[n] \in Int
    <3> HIDE DEF m
    <3>1. \A n \in T \cup P : g[n] = m
      OBVIOUS
    <3>2. \A n \in Y : m <= f[n]
      BY <2>1, <2>2, <2>5
    <3> QED BY <2>1, <2>3, <2>5, <3>1, <3>2
  <2> HIDE DEF g, m, A, X, Y
  <2>8. SumOf(f, X) <= SumOf(g, X) /\ SumOf(g, Y) <= SumOf(f, Y)
    BY <2>4, <2>7, SumLeq
  <2>9. SumOf(g, X) = m * Cardinality(X) /\ SumOf(g, Y) = m * Cardinality(Y) /\ m \in Int
    BY <2>1, <2>4, <2>7, SumConstant
  <2>10. SumOf(f, X) \in Int /\ SumOf(f, Y) \in Int /\ SumOf(f, A) \in Int /\ SumOf(g, X) \in Int
    BY <2>4, <2>7, SumAny
  <2>11. SumOf(g, X) = SumOf(g, Y)
    BY <2>4, <2>9
  <2>12. SumOf(f, T) <= SumOf(f, P)
    BY <2>6, <2>8, <2>10, <2>11
  <2> QED BY <1>4, <2>12 DEF P, s, k
<1> QED BY <1>6, <1>7

\* The members chosen: the candidates that offer most, no more of them than needed.
LEMMA ChosenIs ==
  ASSUME NEW V, Known(V)
  PROVE  \E k \in 0..Cardinality(Candidates(V)) :
           /\ Chosen(V) = Prefix(Ranked(V), k) /\ Cardinality(Chosen(V)) = k
           /\ Chosen(V) \in SUBSET Candidates(V) /\ k <= MaxMembers
           /\ \/ k \in {Cardinality(Candidates(V)), MaxMembers}
              \/ Pooled(V, Prefix(Ranked(V), k)) >= Needed
           /\ \A e \in 0..Cardinality(Candidates(V)) :
                Pooled(V, Prefix(Ranked(V), e)) >= Needed => k <= e
<1> DEFINE s == Ranked(V)
           c == Cardinality(Candidates(V))
           enough == {k \in 0..c : Pooled(V, Prefix(s, k)) >= Needed}
           E == enough \cup {c, MaxMembers}
           k == Min(E)
<1>1. c \in Nat /\ Len(s) = c /\ MaxMembers \in Nat /\ Sorted(s, Candidates(V), MostMemory(V)) /\ IsFiniteSet(Candidates(V))
  BY RankedSorted, PlannerAssumption, FS_CardinalityType
<1>2. Chosen(V) = Prefix(s, Min({i \in 0..Len(s) : Pooled(V, Prefix(s, i)) >= Needed} \cup {Len(s), MaxMembers}))
  BY Zenon DEF Chosen, Ranked
<1>3. Chosen(V) = Prefix(s, k)
  BY <1>1, <1>2
<1>4. E \in SUBSET Nat /\ E # {}
  BY <1>1
<1> HIDE DEF s, c, enough
<1>5. k \in E /\ \A e \in E : k <= e
  <2> HIDE DEF E
  <2>1. \E e \in E : \A x \in E : e <= x
    BY <1>4, NatMin
  <2> QED BY <2>1 DEF Min
<1>6. k \in 0..c /\ k <= MaxMembers
  <2>1. c \in E /\ MaxMembers \in E
    OBVIOUS
  <2>2. k \in Nat /\ k <= c /\ k <= MaxMembers
    BY <1>4, <1>5, <2>1
  <2> QED BY <1>1, <2>2
<1>7. Prefix(s, k) \subseteq Candidates(V) /\ Cardinality(Prefix(s, k)) = k
  <2> HIDE DEF k
  <2> QED BY <1>1, <1>6, PrefixSize DEF c
<1>8. \A e \in enough : k <= e
  BY <1>5
<1>9. k \in {c, MaxMembers} \/ k \in enough
  BY <1>5
<1> HIDE DEF k, E
<1> QED BY <1>3, <1>6, <1>7, <1>8, <1>9 DEF s, c, enough

\* If some candidates can hold the model, and are few enough, then the chosen can
\* and are not more.
LEMMA FewestChosen ==
  ASSUME NEW V, Known(V), NEW T \in SUBSET Candidates(V),
         Cardinality(T) <= MaxMembers, Pooled(V, T) >= Needed
  PROVE  Pooled(V, Chosen(V)) >= Needed /\ Cardinality(Chosen(V)) <= Cardinality(T)
<1> DEFINE s == Ranked(V)
           c == Cardinality(Candidates(V))
           e == Cardinality(T)
<1>1. PICK k \in 0..c :
           /\ Chosen(V) = Prefix(s, k) /\ Cardinality(Chosen(V)) = k
           /\ Chosen(V) \in SUBSET Candidates(V) /\ k <= MaxMembers
           /\ k \in {c, MaxMembers} \/ Pooled(V, Prefix(s, k)) >= Needed
           /\ \A i \in 0..c : Pooled(V, Prefix(s, i)) >= Needed => k <= i
  BY ChosenIs
<1>2. IsFiniteSet(Candidates(V)) /\ Candidates(V) \in SUBSET DOMAIN V
  BY RankedSorted
<1>3. e \in 0..c /\ c \in Nat
  BY <1>2, FS_Subset, FS_CardinalityType
<1>4. Pooled(V, T) <= Pooled(V, Prefix(s, e))
  BY MostFirst
<1>5. Pooled(V, T) \in Nat /\ Pooled(V, Prefix(s, e)) \in Nat
  <2>1. T \in SUBSET DOMAIN V
    BY <1>2
  <2>2. Prefix(s, e) \in SUBSET DOMAIN V
    <3> HIDE DEF e
    <3>1. Prefix(s, e) \subseteq Candidates(V)
      BY <1>2, <1>3, RankedSorted, PrefixSize
    <3> QED BY <1>2, <3>1
  <2> QED BY <2>1, <2>2, PooledIs
<1>6. Needed \in Nat /\ MaxMembers \in Nat
  BY PlannerAssumption
<1>7. Pooled(V, Prefix(s, e)) >= Needed
  BY <1>4, <1>5, <1>6
<1>8. k <= e
  BY <1>1, <1>3, <1>7
<1>9. k = e \/ Pooled(V, Prefix(s, k)) >= Needed
  BY <1>1, <1>3, <1>6, <1>8
<1> QED BY <1>1, <1>7, <1>8, <1>9

-----------------------------------------------------------------------------
(* Plans.                                                                    *)

\* Math.round((free / capacityMB) * needed) is at most free, if the members'
\* pool covers what the model needs.
LEMMA RoundFits ==
  ASSUME NEW free \in Nat, NEW needed \in Nat \ {0}, NEW pool \in Int, pool >= needed
  PROVE  Round(free * needed, pool) <= free
<1>1. free * needed <= free * pool
  OBVIOUS
<1>2. free * needed \in Nat /\ free * pool \in Nat /\ pool \in Nat \ {0}
  BY SMT
<1> DEFINE x == free * needed
           y == free * pool
<1>3. x \in Nat /\ y \in Nat /\ x <= y
  BY <1>1, <1>2
<1>4. 2 * pool * (free + 1) = 2 * y + 2 * pool
  OBVIOUS
<1>5. 2 * x + pool < 2 * pool * (free + 1)
  <2> HIDE DEF x, y
  <2> QED BY <1>2, <1>3, <1>4
<1>6. (2 * x + pool) \div (2 * pool) < free + 1
  <2> DEFINE c == 2 * pool
             q == (2 * x + pool) \div c
  <2>1. c \in Nat \ {0} /\ 2 * x + pool \in Nat
    <3> HIDE DEF x
    <3> QED BY <1>2, <1>3
  <2>2. q \in Nat /\ c * q <= 2 * x + pool
    <3> HIDE DEF c, x
    <3> QED BY <2>1, <1>2, <1>3, SMTT(30)
  <2>3. c * q < c * (free + 1)
    <3> HIDE DEF q, x
    <3> QED BY <2>1, <2>2, <1>5, <1>2, <1>3
  <2>4. q < free + 1
    <3> HIDE DEF q, c
    <3> QED BY <2>1, <2>2, <2>3, SMTT(30)
  <2> QED BY <2>4
<1> QED BY <1>2, <1>3, <1>6 DEF Round

\* The model lacks the rounding of a share: Round is the nearest number.
LEMMA RoundNear ==
  ASSUME NEW x \in Nat, NEW y \in Nat \ {0}
  PROVE  /\ Round(x, y) \in Nat
         /\ (2 * y) * Round(x, y) <= 2 * x + y /\ 2 * x - y <= (2 * y) * Round(x, y)
<1> DEFINE a == 2 * x + y
           b == 2 * y
           q == a \div b
<1>1. a \in Nat /\ b \in Nat \ {0}
  OBVIOUS
<1>2. q \in Nat /\ b * q <= a /\ a < b * (q + 1)
  <2> HIDE DEF a, b
  <2> QED BY <1>1, SMTT(30)
<1>3. b * (q + 1) = b * q + b
  <2> HIDE DEF b, q
  <2> QED BY <1>1, <1>2
<1>4. b * q \in Nat
  <2> HIDE DEF b, q
  <2> QED BY <1>1, <1>2
<1> DEFINE z == b * q
<1>5. z <= a /\ a < z + b /\ z \in Nat
  BY <1>2, <1>3, <1>4
<1>6. 2 * x - y <= z
  <2> HIDE DEF z
  <2> QED BY <1>5
<1> QED BY <1>2, <1>6 DEF Round

\* The parts of a plan add up to the model, up to the rounding of each.
LEMMA AssignedFits ==
  ASSUME NEW V, Known(V), NEW S \in SUBSET DOMAIN V, Pooled(V, S) >= Needed, NEW a, a = Assigned(V, S)
  PROVE  /\ DOMAIN a = S /\ \A n \in S : a[n] \in Nat /\ a[n] <= V[n].offered
         /\ 2 * SumOf(a, S) \in (2 * Needed - Cardinality(S))..(2 * Needed + Cardinality(S))
<1> DEFINE f == Offers(V)
           P == Pooled(V, S)
           k == Cardinality(S)
           hi == [n \in S |-> (2 * Needed) * f[n] + P]
           lo == [n \in S |-> (2 * Needed) * f[n] + (0 - P)]
           am == [n \in S |-> (2 * P) * a[n] + 0]
           cp == [n \in S |-> P]
           cm == [n \in S |-> 0 - P]
           cz == [n \in S |-> 0]
           b == 2 * Needed
           d == 2 * P
<1>1. /\ IsFiniteSet(S) /\ P = SumOf(f, S) /\ P \in Nat \ {0} /\ Needed \in Nat \ {0} /\ P >= Needed
      /\ \A n \in S : f[n] \in Nat /\ f[n] = V[n].offered
  BY PooledIs, PlannerAssumption
<1>2. k \in Nat
  BY <1>1, FS_CardinalityType
<1>3. DOMAIN a = S /\ \A n \in S : a[n] = Round(f[n] * Needed, P)
  BY <1>1 DEF Assigned
<1> HIDE DEF f, P, k
<1>4. ASSUME NEW n \in S
      PROVE  a[n] \in Nat /\ a[n] <= f[n] /\ am[n] <= hi[n] /\ lo[n] <= am[n]
  <2> DEFINE x == f[n]
             y == x * Needed
             r == Round(y, P)
  <2>1. x \in Nat /\ a[n] = r
    BY <1>1, <1>3
  <2>2. y \in Nat
    <3> HIDE DEF x
    <3> QED BY <1>1, <2>1
  <2>3. 2 * y = (2 * Needed) * x
    <3> HIDE DEF x
    <3> QED BY <1>1, <2>1
  <2>4. r \in Nat /\ (2 * P) * r <= 2 * y + P /\ 2 * y - P <= (2 * P) * r
    <3> HIDE DEF y
    <3> QED BY <1>1, <2>2, RoundNear
  <2>5. r <= x
    <3> HIDE DEF x
    <3>1. P \in Int /\ P >= Needed /\ Needed \in Nat \ {0}
      BY <1>1
    <3> QED BY <2>1, <3>1, RoundFits, Zenon
  <2>6. (2 * P) * r \in Nat
    <3> HIDE DEF r
    <3> QED BY <1>1, <2>4
  <2>7. am[n] = (2 * P) * r /\ hi[n] = 2 * y + P /\ lo[n] = 2 * y - P
    <3>1. am[n] = (2 * P) * r + 0 /\ hi[n] = 2 * y + P /\ lo[n] = 2 * y + (0 - P)
      BY <2>1, <2>3
    <3> HIDE DEF am, hi, lo, r, y
    <3> QED BY <1>1, <2>2, <2>6, <3>1
  <2> QED BY <2>1, <2>4, <2>5, <2>7
<1>5. \A n \in S : /\ a[n] \in Int /\ f[n] \in Int /\ am[n] \in Int /\ hi[n] \in Int /\ lo[n] \in Int
                   /\ cp[n] = P /\ cm[n] = 0 - P /\ cz[n] = 0
  BY <1>1, <1>4
<1>6. \A n \in S : /\ hi[n] = (2 * Needed) * f[n] + cp[n]
                   /\ lo[n] = (2 * Needed) * f[n] + cm[n]
                   /\ am[n] = (2 * P) * a[n] + cz[n]
  OBVIOUS
<1> HIDE DEF hi, lo, am, cp, cm, cz
<1>7. 2 * Needed \in Int /\ 2 * P \in Int /\ P \in Int /\ 0 - P \in Int /\ 0 \in Int
  BY <1>1
<1>8. /\ SumOf(cp, S) = P * k /\ SumOf(cm, S) = (0 - P) * k /\ SumOf(cz, S) = 0 * k
  BY <1>1, <1>5, <1>7, SumConstant DEF k
<1>9. /\ SumOf(hi, S) = (2 * Needed) * SumOf(f, S) + SumOf(cp, S)
      /\ SumOf(lo, S) = (2 * Needed) * SumOf(f, S) + SumOf(cm, S)
      /\ SumOf(am, S) = (2 * P) * SumOf(a, S) + SumOf(cz, S)
  <2>1. \A n \in S : f[n] \in Int /\ cp[n] \in Int /\ hi[n] = b * f[n] + cp[n]
    BY <1>5, <1>6, <1>7
  <2>2. \A n \in S : f[n] \in Int /\ cm[n] \in Int /\ lo[n] = b * f[n] + cm[n]
    BY <1>5, <1>6, <1>7
  <2>3. \A n \in S : a[n] \in Int /\ cz[n] \in Int /\ am[n] = d * a[n] + cz[n]
    BY <1>5, <1>6, <1>7
  <2>4. b \in Int /\ d \in Int
    BY <1>7
  <2> HIDE DEF b, d
  <2>5. SumOf(hi, S) = b * SumOf(f, S) + SumOf(cp, S)
    BY <1>1, <2>1, <2>4, SumLinear
  <2>6. SumOf(lo, S) = b * SumOf(f, S) + SumOf(cm, S)
    BY <1>1, <2>2, <2>4, SumLinear
  <2>7. ASSUME NEW q, \A n \in S : q[n] \in Int /\ cz[n] \in Int /\ am[n] = d * q[n] + cz[n]
        PROVE  SumOf(am, S) = d * SumOf(q, S) + SumOf(cz, S)
    BY <1>1, <2>7, <2>4, SumLinear
  <2>8. SumOf(am, S) = d * SumOf(a, S) + SumOf(cz, S)
    BY <2>3, <2>7
  <2> QED BY <2>5, <2>6, <2>8 DEF b, d
<1>10. SumOf(lo, S) <= SumOf(am, S) /\ SumOf(am, S) <= SumOf(hi, S)
  BY <1>1, <1>4, <1>5, SumLeq
<1> DEFINE A == SumOf(a, S)
<1>11. A \in Int
  BY <1>1, <1>5, SumAny
<1> HIDE DEF A
<1>12. (2 * Needed) * P - P * k <= (2 * P) * A /\ (2 * P) * A <= (2 * Needed) * P + P * k
  <2>1. (0 - P) * k = 0 - P * k /\ 0 * k = 0 /\ P * k \in Int /\ (2 * P) * A \in Int /\ (2 * Needed) * P \in Int
    BY <1>1, <1>2, <1>11
  <2> QED BY <1>1, <1>8, <1>9, <1>10, <2>1 DEF A
<1>13. 2 * Needed - k <= 2 * A /\ 2 * A <= 2 * Needed + k
  <2>1. /\ P * (2 * Needed - k) = (2 * Needed) * P - P * k /\ P * (2 * Needed + k) = (2 * Needed) * P + P * k
        /\ P * (2 * A) = (2 * P) * A
    BY <1>1, <1>2, <1>11
  <2>2. P * (2 * Needed - k) <= P * (2 * A) /\ P * (2 * A) <= P * (2 * Needed + k)
    BY <1>12, <2>1
  <2>3. \A u, v \in Int : P * u <= P * v => u <= v
    BY <1>1, SMTT(30)
  <2>4. 2 * Needed - k \in Int /\ 2 * A \in Int /\ 2 * Needed + k \in Int
    BY <1>1, <1>2, <1>11
  <2> QED BY <2>2, <2>3, <2>4
<1> QED BY <1>1, <1>2, <1>3, <1>4, <1>11, <1>13 DEF A, k

-----------------------------------------------------------------------------
(* Clusters.                                                                 *)

\* Math.max and Math.min of two.
LEMMA MaxMin ==
  ASSUME NEW x \in Int, NEW y \in Int
  PROVE  /\ Max({x, y}) \in {x, y} /\ Max({x, y}) >= x /\ Max({x, y}) >= y
         /\ Min({x, y}) \in {x, y} /\ Min({x, y}) <= x /\ Min({x, y}) <= y
BY DEF Max, Min

\* Every score is positive.
LEMMA ScoreOk ==
  ASSUME NEW V, Known(V), NEW n \in DOMAIN V, NEW w \in Nat
  PROVE  Score(V, n, w) \in Nat \ {0}
<1> DEFINE a == V[n].throughput * (IF V[n].loaded THEN 100 ELSE 75)
           b == IF V[n].kind = "desktop-worker" THEN 10 ELSE 6
           d == 1000 + w * V[n].latency
           x == (a * b * 1000) \div d
<1>1. a \in Nat /\ b \in Nat /\ d \in Nat \ {0}
  <2>1. V[n].throughput \in Nat /\ V[n].latency \in Nat
    BY ViewFields
  <2>2. w * V[n].latency \in Nat
    BY <2>1
  <2>3. V[n].throughput * 100 \in Nat /\ V[n].throughput * 75 \in Nat
    BY <2>1
  <2> QED BY <2>2, <2>3
<1>2. x \in Int
  <2>1. a * b \in Nat
    <3> HIDE DEF a, b
    <3> QED BY <1>1
  <2> HIDE DEF a, b, d
  <2> QED BY <1>1, <2>1, SMTT(30)
<1>3. Score(V, n, w) = Max({1, x})
  BY DEF Score
<1> HIDE DEF x
<1>4. Max({1, x}) \in {1, x} /\ Max({1, x}) >= 1
  BY <1>2, MaxMin
<1> QED BY <1>2, <1>3, <1>4

\* s lists members of S, each at most once.
Distinct(s, S) == s \in Seq(S) /\ \A i, j \in 1..Len(s) : i # j => s[i] # s[j]

\* A sorted list has every element once.
LEMMA SortedDistinct ==
  ASSUME NEW s, NEW S, NEW R, IsFiniteSet(S), Sorted(s, S, R)
  PROVE  Distinct(s, S) /\ Len(s) = Cardinality(S) /\ (S # {} => s # <<>>)
<1>1. Cardinality(S) \in Nat /\ s \in [1..Cardinality(S) -> S]
  BY DEF Sorted
<1>2. s \in Seq(S) /\ Len(s) = Cardinality(S)
  BY <1>1
<1>3. S # {} => Cardinality(S) # 0
  BY FS_EmptySet
<1> QED BY <1>2, <1>3 DEF Distinct, Sorted

\* The nodes by one key: the order that Best sorts by.
ByKey(V, key) ==
  {p \in (DOMAIN key) \X (DOMAIN key) :
     key[p[1]] > key[p[2]] \/ (key[p[1]] = key[p[2]] /\ Listed(V, p[1], p[2]))}

\* A ranking by any key lists every node once.
LEMMA BestDistinct ==
  ASSUME NEW V, Known(V), NEW key, DOMAIN key \in SUBSET DOMAIN V, \A n \in DOMAIN key : key[n] \in Int
  PROVE  Distinct(Best(V, key), DOMAIN key) /\ (DOMAIN key # {} => Best(V, key) # <<>>)
<1> DEFINE C == DOMAIN key
           R == ByKey(V, key)
           first(m, n) == key[m] > key[n] \/ (key[m] = key[n] /\ Listed(V, m, n))
<1>1. IsFiniteSet(C)
  BY FS_Subset DEF Known
<1>2. \A m, n \in C : <<m, n>> \in R <=> first(m, n)
  BY DEF ByKey
<1>3. \A n \in C : Ahead(R, C, n) = {m \in C : first(m, n)}
  BY <1>2 DEF Ahead
<1>4. Best(V, key) = [i \in 1..Cardinality(C) |-> CHOOSE n \in C : Cardinality({m \in C : first(m, n)}) = i - 1]
  BY DEF Best, InOrder
<1>5. Orders(R, C)
  <2>1. \A n \in C : V[n].throughput \in Nat /\ n \in Nat /\ key[n] \in Int
    BY ViewFields
  <2>2. \A a \in C : ~first(a, a)
    BY <2>1 DEF Listed
  <2>3. ASSUME NEW a \in C, NEW b \in C, a # b PROVE first(a, b) \/ first(b, a)
    BY <2>1, <2>3 DEF Listed
  <2>4. ASSUME NEW a \in C, NEW b \in C, NEW c \in C, first(a, b), first(b, c) PROVE first(a, c)
    BY <2>1, <2>4 DEF Listed
  <2> HIDE DEF first, R
  <2> QED BY <1>2, <2>2, <2>3, <2>4 DEF Orders
<1> HIDE DEF C, R, first
<1>6. ASSUME NEW i \in 1..Cardinality(C)
      PROVE  (CHOOSE n \in C : Cardinality({m \in C : first(m, n)}) = i - 1)
               = CHOOSE n \in C : Cardinality(Ahead(R, C, n)) = i - 1
  <2> DEFINE P(n) == n \in C /\ Cardinality({m \in C : first(m, n)}) = i - 1
             Q(n) == n \in C /\ Cardinality(Ahead(R, C, n)) = i - 1
  <2>1. \A n : P(n) <=> Q(n)
    BY <1>3
  <2> HIDE DEF P, Q
  <2>2. (CHOOSE n : P(n)) = (CHOOSE n : Q(n))
    BY <2>1, Zenon
  <2> QED BY <2>2 DEF P, Q
<1>7. Best(V, key) = [i \in 1..Cardinality(C) |-> CHOOSE n \in C : Cardinality(Ahead(R, C, n)) = i - 1]
  BY <1>4, <1>6
<1>8. Sorted(Best(V, key), C, R)
  BY <1>1, <1>5, <1>7, PlacesSort
<1>9. Distinct(Best(V, key), C) /\ (C # {} => Best(V, key) # <<>>)
  BY <1>1, <1>8, SortedDistinct
<1> QED BY <1>9 DEF C

\* The nodes by number: the order in which round-robin takes them.
Turns(S) == InOrder(S, LAMBDA a, b : a < b)

\* And so does the list that round-robin takes turns in.
LEMMA TurnDistinct ==
  ASSUME NEW S, S \subseteq Nat, IsFiniteSet(S), NEW s, s = Turns(S)
  PROVE  Distinct(s, S) /\ (S # {} => s # <<>>)
<1> DEFINE R == {p \in S \X S : p[1] < p[2]}
           less(m, n) == m < n
<1>1. \A n \in S : n \in Nat
  OBVIOUS
<1>2. \A m, n \in S : <<m, n>> \in R <=> less(m, n)
  OBVIOUS
<1>3. \A n \in S : Ahead(R, S, n) = {m \in S : less(m, n)}
  BY <1>2 DEF Ahead
<1>4. s = [i \in 1..Cardinality(S) |-> CHOOSE n \in S : Cardinality({m \in S : less(m, n)}) = i - 1]
  BY DEF Turns, InOrder
<1>5. Orders(R, S)
  <2>1. \A m, n \in S : <<m, n>> \in R <=> m < n
    BY <1>2
  <2> HIDE DEF R
  <2>2. \A a, b, c \in S : a < b /\ b < c => a < c
    BY <1>1
  <2>3. \A a, b \in S : a # b => a < b \/ b < a
    BY <1>1
  <2>4. \A a \in S : ~(a < a)
    BY <1>1
  <2> QED BY <2>1, <2>2, <2>3, <2>4 DEF Orders
<1> HIDE DEF R, less
<1>6. ASSUME NEW i \in 1..Cardinality(S)
      PROVE  (CHOOSE n \in S : Cardinality({m \in S : less(m, n)}) = i - 1)
               = CHOOSE n \in S : Cardinality(Ahead(R, S, n)) = i - 1
  <2> DEFINE P(n) == n \in S /\ Cardinality({m \in S : less(m, n)}) = i - 1
             Q(n) == n \in S /\ Cardinality(Ahead(R, S, n)) = i - 1
  <2>1. \A n : P(n) <=> Q(n)
    BY <1>3
  <2> HIDE DEF P, Q
  <2>2. (CHOOSE n : P(n)) = (CHOOSE n : Q(n))
    BY <2>1, Zenon
  <2> QED BY <2>2 DEF P, Q
<1>7. s = [i \in 1..Cardinality(S) |-> CHOOSE n \in S : Cardinality(Ahead(R, S, n)) = i - 1]
  BY <1>4, <1>6
<1>8. Sorted(s, S, R)
  BY <1>5, <1>7, PlacesSort
<1> QED BY <1>8, SortedDistinct

\* The first nodes of a list.
LEMMA FirstDistinct ==
  ASSUME NEW S, NEW s, Distinct(s, S), NEW k \in Nat \ {0}
  PROVE  Distinct(FirstOf(s, k), S) /\ (s # <<>> => FirstOf(s, k) # <<>>)
<1> DEFINE l == Len(s)
           m == Min({k, l})
<1>1. l \in Nat
  BY DEF Distinct
<1>2. m \in Nat /\ m <= Len(s) /\ (s # <<>> => m # 0)
  <2>1. s # <<>> => l # 0
    BY DEF Distinct
  <2>2. k \in Int /\ l \in Int
    BY <1>1
  <2>3. m \in {k, l} /\ m <= l
    <3> HIDE DEF l
    <3> QED BY <2>2, MaxMin
  <2> QED BY <1>1, <2>1, <2>3
<1>3. FirstOf(s, k) = SubSeq(s, 1, m)
  BY DEF FirstOf
<1> HIDE DEF m
<1>4. SubSeq(s, 1, m) \in Seq(S) /\ Len(SubSeq(s, 1, m)) = m /\ \A i \in 1..m : SubSeq(s, 1, m)[i] = s[i]
  BY <1>1, <1>2 DEF Distinct
<1>5. \A i, j \in 1..m : i # j => s[i] # s[j]
  BY <1>1, <1>2 DEF Distinct
<1> QED BY <1>2, <1>3, <1>4, <1>5 DEF Distinct

Slow(V, picked, n) ==
  100 * Score(V, n, 15) < 8 * MapThenSumSet(LAMBDA m : Score(V, m, 15), ToSet(picked))
TrimStep(V, units, picked, n) ==
  IF Len(picked) >= units \/ (picked # <<>> /\ Slow(V, picked, n)) THEN picked ELSE Append(picked, n)

\* A nonempty set of positions has a largest element.
LEMMA LargestIn ==
  ASSUME NEW l \in Nat, NEW q \in SUBSET (1..l), q # {}
  PROVE  Max(q) \in q /\ \A x \in q : Max(q) >= x
<1> DEFINE T == {l - x : x \in q}
<1>1. T \in SUBSET Nat /\ T # {}
  <2>1. \A x \in q : l - x \in Nat
    OBVIOUS
  <2> QED BY <2>1
<1>2. PICK m \in T : \A k \in T : m <= k
  <2> HIDE DEF T
  <2> QED BY <1>1, NatMin
<1>3. PICK y \in q : m = l - y
  BY <1>2
<1>4. \A x \in q : y >= x
  <2> SUFFICES ASSUME NEW x \in q PROVE y >= x
    OBVIOUS
  <2>1. m <= l - x
    BY <1>2
  <2> QED BY <1>3, <2>1
<1> QED BY <1>4 DEF Max

\* What the adaptive policy keeps of a ranking are some of its nodes, the first one at least.
LEMMA TrimmedDistinct ==
  ASSUME NEW V, NEW S, NEW s, Distinct(s, S), s # <<>>, NEW u \in Nat \ {0}
  PROVE  Distinct(Trimmed(V, s, u), S) /\ Trimmed(V, s, u) # <<>>
<1> DEFINE l == Len(s)
           D == 1..l
           P(g) == g = [q \in SUBSET DOMAIN s |->
                          IF q = {} THEN <<>> ELSE TrimStep(V, u, g[q \ {Max(q)}], s[Max(q)])]
           top == [q \in SUBSET D |-> Max(q)]
           add == [p \in D \X Seq(S) |-> TrimStep(V, u, p[2], s[p[1]])]
<1>1. /\ l \in Nat \ {0} /\ DOMAIN s = D /\ IsFiniteSet(D)
      /\ \A i \in D : s[i] \in S
      /\ \A i, j \in D : i # j => s[i] # s[j]
  BY FS_Interval DEF Distinct
<1>2. Trimmed(V, s, u) = (CHOOSE g : P(g))[DOMAIN s]
  BY Zenon DEF Trimmed, FoldLeft, MapThenFoldSet, TrimStep, Slow
<1>3. \A q \in SUBSET D : q # {} => Max(q) \in q
  BY <1>1, LargestIn
<1>4. PICK h \in [SUBSET D -> Seq(S)] : Folds(h, D, <<>>, top, add)
  <2>1. \A q \in SUBSET D : q # {} => top[q] \in q
    BY <1>3
  <2>2. ASSUME NEW n \in D, NEW y \in Seq(S) PROVE add[<<n, y>>] \in Seq(S)
    <3>1. s[n] \in S
      BY <1>1
    <3>2. TrimStep(V, u, y, s[n]) \in {y, Append(y, s[n])}
      BY DEF TrimStep
    <3>3. Append(y, s[n]) \in Seq(S)
      BY <3>1
    <3>4. add[<<n, y>>] = TrimStep(V, u, y, s[n])
      OBVIOUS
    <3> QED BY <3>2, <3>3, <3>4
  <2>3. <<>> \in Seq(S)
    OBVIOUS
  <2>4. Foldable(D, Seq(S), <<>>, top, add)
    BY <1>1, <2>1, <2>2, <2>3, Zenon DEF Foldable
  <2> HIDE DEF top, add, D
  <2> QED BY <2>4, FoldExists
<1>5. P(h)
  <2>1. ASSUME NEW q \in SUBSET D, q # {}
        PROVE  add[<<top[q], h[q \ {top[q]}]>>] = TrimStep(V, u, h[q \ {Max(q)}], s[Max(q)])
    <3>1. Max(q) \in D /\ h[q \ {Max(q)}] \in Seq(S) /\ top[q] = Max(q)
      BY <1>3, <2>1
    <3> QED BY <3>1
  <2> HIDE DEF top, add
  <2>2. \A q \in SUBSET D : h[q] = IF q = {} THEN <<>> ELSE TrimStep(V, u, h[q \ {Max(q)}], s[Max(q)])
    BY <1>4, <2>1 DEF Folds
  <2> HIDE DEF D
  <2> QED BY <1>1, <2>2
<1> DEFINE g == CHOOSE x : P(x)
<1>6. P(g)
  <2> HIDE DEF P
  <2> QED BY <1>5
<1> HIDE DEF g
<1>7. \A q \in SUBSET D : g[q] = IF q = {} THEN <<>> ELSE TrimStep(V, u, g[q \ {Max(q)}], s[Max(q)])
  BY <1>1, <1>6
<1> DEFINE I == {k \in 0..l : /\ Distinct(g[1..k], S) /\ (k # 0 => g[1..k] # <<>>)
                              /\ \A j \in 1..Len(g[1..k]) : \E i \in 1..k : g[1..k][j] = s[i]}
<1>8. 0 \in I
  <2>1. 1..0 = {} /\ g[1..0] = <<>>
    <3>1. 1..0 = {} /\ {} \in SUBSET D
      OBVIOUS
    <3>2. g[{}] = <<>>
      BY <1>7, <3>1
    <3> QED BY <3>1, <3>2
  <2>2. Distinct(<<>>, S) /\ Len(<<>>) = 0
    BY DEF Distinct
  <2> QED BY <1>1, <2>1, <2>2
<1>9. ASSUME NEW k \in 1..l, k - 1 \in I PROVE k \in I
  <2> DEFINE y == g[1..(k - 1)]
             z == g[1..k]
  <2>0. k \in Nat \ {0} /\ k \in D
    BY <1>1
  <2>1. Max(1..k) = k
    <3>1. (1..k) \in SUBSET (1..l) /\ (1..k) # {} /\ k \in 1..k
      <4>1. k \in Nat \ {0} /\ l \in Nat /\ k <= l
        BY <1>1
      <4>2. \A x \in 1..k : x \in 1..l
        BY <4>1
      <4>3. k \in 1..k
        BY <4>1
      <4> QED BY <4>2, <4>3
    <3>2. Max(1..k) \in 1..k /\ Max(1..k) >= k
      BY <1>1, <3>1, LargestIn
    <3> QED BY <2>0, <3>2
  <2>2. (1..k) \ {k} = 1..(k - 1) /\ (1..k) \in SUBSET D /\ (1..k) # {}
    <3>1. k \in Nat \ {0} /\ l \in Nat /\ k <= l
      BY <1>1
    <3>2. \A x : x \in (1..k) \ {k} <=> x \in 1..(k - 1)
      BY <3>1
    <3>3. k \in 1..k /\ (1..k) \in SUBSET D
      BY <3>1
    <3> QED BY <3>2, <3>3
  <2>3. z = TrimStep(V, u, y, s[k])
    BY <1>7, <2>1, <2>2
  <2>4. /\ Distinct(y, S) /\ (k - 1 # 0 => y # <<>>)
        /\ \A j \in 1..Len(y) : \E i \in 1..(k - 1) : y[j] = s[i]
    BY <1>9
  <2> HIDE DEF y, z
  <2>5. k - 1 = 0 => y = <<>>
    <3>1. Len(y) \in Nat /\ (Len(y) = 0 => y = <<>>)
      BY <2>4 DEF Distinct
    <3>2. k - 1 = 0 => Len(y) = 0
      BY <2>4, <3>1
    <3> QED BY <3>1, <3>2
  <2>6. Len(<<>>) >= u <=> FALSE
    OBVIOUS
  <2>7. CASE z = y
    <3>1. y # <<>>
      <4> SUFFICES ASSUME y = <<>> PROVE FALSE
        OBVIOUS
      <4>1. z = Append(y, s[k])
        BY <2>3, <2>6 DEF TrimStep
      <4> QED BY <2>7, <4>1
    <3>2. \A j \in 1..Len(z) : \E i \in 1..k : z[j] = s[i]
      <4>1. \A i \in 1..(k - 1) : i \in 1..k
        BY <2>0
      <4> QED BY <2>4, <2>7, <4>1
    <3>3. Distinct(z, S) /\ z # <<>>
      BY <2>4, <2>7, <3>1
    <3> QED BY <3>3, <3>2 DEF z
  <2>8. CASE z = Append(y, s[k])
    <3>1. y \in Seq(S) /\ s[k] \in S /\ Len(y) \in Nat
      BY <1>1, <2>0, <2>4 DEF Distinct
    <3>2. /\ z \in Seq(S) /\ Len(z) = Len(y) + 1 /\ z[Len(y) + 1] = s[k]
          /\ \A j \in 1..Len(y) : z[j] = y[j]
      BY <2>8, <3>1
    <3>3. \A j \in 1..Len(y) : y[j] # s[k]
      <4> SUFFICES ASSUME NEW j \in 1..Len(y), y[j] = s[k] PROVE FALSE
        OBVIOUS
      <4>1. PICK i \in 1..(k - 1) : y[j] = s[i]
        BY <2>4
      <4>2. i \in D /\ i # k
        BY <1>1, <2>0
      <4> QED BY <1>1, <2>0, <4>1, <4>2
    <3>4. \A j \in 1..Len(z) : j \in 1..Len(y) \/ j = Len(y) + 1
      BY <3>1, <3>2
    <3>5. Distinct(z, S) /\ z # <<>>
      <4>1. \A i, j \in 1..Len(z) : i # j => z[i] # z[j]
        <5> SUFFICES ASSUME NEW i \in 1..Len(z), NEW j \in 1..Len(z), i # j PROVE z[i] # z[j]
          OBVIOUS
        <5>1. \A a, b \in 1..Len(y) : a # b => y[a] # y[b]
          BY <2>4 DEF Distinct
        <5> QED BY <3>2, <3>3, <3>4, <5>1
      <4> QED BY <3>1, <3>2, <4>1 DEF Distinct
    <3>6. \A j \in 1..Len(z) : \E i \in 1..k : z[j] = s[i]
      <4>1. \A i \in 1..(k - 1) : i \in 1..k
        BY <2>0
      <4>2. k \in 1..k
        BY <2>0
      <4> QED BY <2>4, <3>2, <3>4, <4>1, <4>2
    <3> QED BY <3>5, <3>6 DEF z
  <2>9. z = y \/ z = Append(y, s[k])
    BY <2>3 DEF TrimStep
  <2> QED BY <2>7, <2>8, <2>9
<1>10. l \in I
  <2>1. l \in Nat
    BY <1>1
  <2>2. \A k \in 1..l : k - 1 \in I => k \in I
    BY <1>9
  <2> HIDE DEF I
  <2> QED BY <1>8, <2>1, <2>2, LoopInduction
<1>11. Trimmed(V, s, u) = g[1..l]
  BY <1>1, <1>2 DEF g
<1> QED BY <1>1, <1>10, <1>11

\* A list of nodes that can start, none twice, each with a weight.
Fine(V, s, weight) ==
  Distinct(s, Ready(V)) /\ s # <<>> /\ \A n \in ToSet(s) : weight[n] \in Nat \ {0}

\* The weights of listed nodes are positive.
LEMMA ListFine ==
  ASSUME NEW V, Known(V), NEW s, Distinct(s, Ready(V)), s # <<>>, NEW w \in Nat
  PROVE  Fine(V, s, Weights(V, s, w)) /\ Fine(V, s, Even(s))
<1>1. \A n \in ToSet(s) : n \in DOMAIN V
  <2>1. \A n \in ToSet(s) : n \in Ready(V)
    BY DEF ToSet, Distinct
  <2> QED BY <2>1 DEF Ready, Eligible
<1>2. \A n \in ToSet(s) : Score(V, n, w) \in Nat \ {0}
  BY <1>1, ScoreOk
<1>3. \A n \in ToSet(s) : Weights(V, s, w)[n] = Score(V, n, w) /\ Even(s)[n] = 1
  BY DEF Weights, Even
<1> QED BY <1>2, <1>3 DEF Fine

\* The first nodes of a ranking make a cluster.
LEMMA KeyFine ==
  ASSUME NEW V, Known(V), Ready(V) # {}, NEW key, DOMAIN key = Ready(V), \A n \in DOMAIN key : key[n] \in Int,
         NEW k \in Nat \ {0}, NEW w \in Nat, NEW s, s = FirstOf(Best(V, key), k)
  PROVE  Fine(V, s, Weights(V, s, w)) /\ Fine(V, s, Even(s))
<1>1. DOMAIN key \in SUBSET DOMAIN V
  BY DEF Ready, Eligible
<1>2. Distinct(Best(V, key), Ready(V)) /\ Best(V, key) # <<>>
  BY <1>1, BestDistinct
<1>3. Distinct(s, Ready(V)) /\ s # <<>>
  BY <1>2, FirstDistinct
<1> QED BY <1>3, ListFine

Divides(x, l, q, m) == q = x \div l /\ m = x % l

\* What is divided is the quotient times the divisor, and the remainder.
LEMMA DivMod ==
  ASSUME NEW x \in Nat, NEW l \in Nat \ {0}, NEW q, NEW m, Divides(x, l, q, m)
  PROVE  q \in Nat /\ m \in 0..(l - 1) /\ x = l * q + m
<1>0. q = x \div l /\ m = x % l
  BY DEF Divides
<1>1. q \in Nat /\ m \in 0..(l - 1)
  BY <1>0, SMTT(30)
<1>2. x = l * q + m
  BY <1>0, SMTT(30)
<1> QED BY <1>1, <1>2

\* Numbers less than l apart have different remainders.
LEMMA RemaindersDiffer ==
  ASSUME NEW x \in Nat, NEW y \in Nat, NEW l \in Nat \ {0}, x < y, y < x + l
  PROVE  x % l # y % l
<1> SUFFICES ASSUME x % l = y % l PROVE FALSE
  OBVIOUS
<1> DEFINE p == x \div l
           q == y \div l
           z == x % l
           u == l * q
           v == l * p
<1>1. p \in Nat /\ q \in Nat /\ z \in Nat /\ x = v + z /\ y = u + z
  <2>1. Divides(x, l, p, z) /\ Divides(y, l, q, z)
    BY DEF Divides
  <2> HIDE DEF p, q, z
  <2>2. p \in Nat /\ z \in 0..(l - 1) /\ x = l * p + z
    BY <2>1, DivMod
  <2>3. q \in Nat /\ y = l * q + z
    BY <2>1, DivMod
  <2> QED BY <2>2, <2>3
<1> HIDE DEF p, q, z
<1>2. u \in Nat /\ v \in Nat /\ l * (q - p) = u - v
  BY <1>1
<1> HIDE DEF u, v
<1>3. u - v = y - x
  BY <1>1, <1>2
<1> DEFINE d == q - p
           e == y - x
<1>4. d \in Int /\ l * d = e /\ 0 < e /\ e < l
  BY <1>1, <1>2, <1>3
<1> HIDE DEF d, e
<1>5. d <= 0 => l * d <= 0
  BY <1>4, SMTT(30)
<1>6. d >= 1 => l * d >= l
  BY <1>4, SMTT(30)
<1>7. e \in Int
  BY DEF e
<1> QED BY <1>4, <1>5, <1>6, <1>7

\* Round-robin picks no node twice, wherever it starts.
LEMMA TurnFine ==
  ASSUME NEW V, Known(V), Ready(V) # {}, NEW count \in Nat \ {0}, NEW from \in Nat, NEW all, all = Turns(Ready(V)),
         NEW s, s = [i \in 1..Min({count, Len(all)}) |-> all[((from + i - 1) % Len(all)) + 1]]
  PROVE  Fine(V, s, Even(s))
<1> DEFINE l == Len(all)
           m == Min({count, l})
           at(i) == ((from + i - 1) % l) + 1
<1>1. Ready(V) \subseteq Nat /\ IsFiniteSet(Ready(V))
  <2>1. Ready(V) \in SUBSET DOMAIN V
    BY DEF Ready, Eligible
  <2> QED BY <2>1, FS_Subset DEF Known
<1>2. Distinct(all, Ready(V)) /\ all # <<>>
  BY <1>1, TurnDistinct
<1>3. l \in Nat \ {0} /\ all \in [1..l -> Ready(V)] /\ \A i, j \in 1..l : i # j => all[i] # all[j]
  BY <1>2 DEF Distinct
<1>4. m \in Nat \ {0} /\ m <= l
  <2> HIDE DEF l
  <2>1. l \in Int /\ count \in Int
    BY <1>3
  <2>2. m \in {count, l} /\ m <= l
    BY <2>1, MaxMin
  <2> QED BY <1>3, <2>2
<1>5. \A i \in 1..m : at(i) \in 1..l
  <2> SUFFICES ASSUME NEW i \in 1..m PROVE at(i) \in 1..l
    OBVIOUS
  <2>1. from + i - 1 \in Nat
    BY <1>4
  <2> DEFINE x == from + i - 1
  <2>2. x % l \in 0..(l - 1)
    <3> HIDE DEF x, l
    <3> QED BY <1>3, <2>1 DEF x
  <2> HIDE DEF l
  <2> QED BY <1>3, <2>2
<1>6. ASSUME NEW i \in 1..m, NEW j \in 1..m, i < j PROVE at(i) # at(j)
  <2> DEFINE x == from + i - 1
             y == from + j - 1
  <2>1. x \in Nat /\ y \in Nat /\ x < y /\ y < x + l /\ i \in Nat /\ j \in Nat
    <3> HIDE DEF l, m
    <3> QED BY <1>3, <1>4, <1>6
  <2>2. x % l # y % l
    <3> HIDE DEF x, y, l
    <3> QED BY <1>3, <2>1, RemaindersDiffer
  <2>3. x % l \in Nat /\ y % l \in Nat
    <3> HIDE DEF x, y, l
    <3> QED BY <1>3, <2>1
  <2> DEFINE z == x % l
             w == y % l
  <2>4. z # w /\ z \in Nat /\ w \in Nat
    BY <2>2, <2>3
  <2>5. z + 1 # w + 1
    <3> HIDE DEF z, w
    <3> QED BY <2>4
  <2> QED BY <2>5
<1>7. s = [i \in 1..m |-> all[at(i)]]
  OBVIOUS
<1> HIDE DEF at
<1> HIDE DEF l
<1> HIDE DEF m
<1>8. \A i, j \in 1..m : i # j => at(i) # at(j)
  <2>1. \A i, j \in 1..m : i # j => i < j \/ j < i
    BY <1>4
  <2> QED BY <1>6, <2>1
<1>9. s \in Seq(Ready(V)) /\ Len(s) = m /\ \A i \in 1..m : s[i] = all[at(i)]
  <2>1. \A i \in 1..m : s[i] = all[at(i)] /\ all[at(i)] \in Ready(V)
    BY <1>3, <1>5, <1>7
  <2>2. s \in [1..m -> Ready(V)]
    BY <1>7, <2>1
  <2>3. \A T, n \in Nat : \A q \in [1..n -> T] : q \in Seq(T) /\ Len(q) = n
    OBVIOUS
  <2>4. m \in Nat
    BY <1>4
  <2> HIDE DEF at
  <2>5. s \in Seq(Ready(V)) /\ Len(s) = m
    <3>1. ASSUME NEW q \in [1..m -> Ready(V)] PROVE q \in Seq(Ready(V)) /\ Len(q) = m
      BY <2>4
    <3> QED BY <2>2, <3>1, Zenon
  <2> QED BY <2>1, <2>5, Zenon
<1>10. Distinct(s, Ready(V)) /\ s # <<>>
  <2>1. \A i, j \in 1..m : i # j => s[i] # s[j]
    <3> SUFFICES ASSUME NEW i \in 1..m, NEW j \in 1..m, i # j PROVE s[i] # s[j]
      BY Zenon
    <3> DEFINE a == at(i)
               b == at(j)
    <3>1. s[i] = all[a] /\ s[j] = all[b] /\ a \in 1..l /\ b \in 1..l /\ a # b
      BY <1>5, <1>8, <1>9, Zenon
    <3> HIDE DEF a, b
    <3> QED BY <1>3, <3>1, Zenon
  <2>2. \A i, j \in 1..Len(s) : i # j => s[i] # s[j]
    <3>1. 1..Len(s) = 1..m
      BY <1>9, Zenon
    <3>2. \A i, j \in 1..Len(s) : i \in 1..m /\ j \in 1..m
      BY <3>1, Zenon
    <3> SUFFICES ASSUME NEW i \in 1..Len(s), NEW j \in 1..Len(s), i # j PROVE s[i] # s[j]
      BY Zenon
    <3>3. i \in 1..m /\ j \in 1..m
      BY <3>2, Zenon
    <3> QED BY <2>1, <3>3, Zenon
  <2>3. Distinct(s, Ready(V))
    BY <1>9, <2>2, Zenon DEF Distinct
  <2>4. Len(<<>>) = 0 /\ m # 0
    BY <1>4
  <2> QED BY <1>9, <2>3, <2>4, Zenon
<1>11. 0 \in Nat
  OBVIOUS
<1> QED BY <1>10, <1>11, ListFine

\* Every policy picks nodes that can start, none twice, and at least one if there is one.
LEMMA ClusterFine ==
  ASSUME NEW V, Known(V), Ready(V) # {}, NEW r \in Request, NEW from \in Nat, NEW c, c = FormCluster(V, r, from)
  PROVE  Fine(V, c.nodes, c.weight)
<1> DEFINE S == Ready(V)
           fan == Strategy(V, r) = "task-parallel"
           count == IF fan THEN Units(r) ELSE 1
           score(w) == [n \in S |-> Score(V, n, w)]
           speed == [n \in S |-> V[n].throughput]
           spare == [n \in S |-> V[n].spare]
           first(key, k) == FirstOf(Best(V, key), k)
           all == Turns(S)
           turn == [i \in 1..Min({count, Len(all)}) |-> all[((from + i - 1) % Len(all)) + 1]]
           fit == Trimmed(V, Best(V, score(15)), Units(r))
           even(s) == [nodes |-> s, weight |-> Even(s)]
           shared(s, w) == [nodes |-> s, weight |-> Weights(V, s, w)]
<1>1. r.items \in Nat /\ r.policy \in Policies
  BY DEF Request
<1>2. Units(r) \in Nat \ {0}
  <2>1. Max({1, r.items}) \in {1, r.items} /\ Max({1, r.items}) >= 1
    <3> DEFINE x == r.items
    <3>1. x \in Int /\ 1 \in Int
      BY <1>1
    <3> HIDE DEF x
    <3>2. Max({1, x}) \in {1, x} /\ Max({1, x}) >= 1
      BY <3>1, MaxMin
    <3> QED BY <3>2 DEF x
  <2> QED BY <1>1, <2>1 DEF Units
<1>3. count \in Nat \ {0} /\ 1 \in Nat \ {0}
  BY <1>2
<1>4. S \in SUBSET DOMAIN V
  BY DEF Ready, Eligible
<1>5. \A n \in S : /\ V[n].throughput \in Nat /\ V[n].spare \in Nat
                   /\ \A w \in Nat : Score(V, n, w) \in Nat \ {0}
  BY <1>4, ScoreOk DEF Known, View
<1> DEFINE Key(key) == DOMAIN key = S /\ \A n \in DOMAIN key : key[n] \in Int
<1>6. Key(speed) /\ Key(spare) /\ \A w \in Nat : Key(score(w))
  BY <1>5
<1>7. ASSUME NEW key, Key(key), NEW k \in Nat \ {0}, NEW w \in Nat
      PROVE  Fine(V, first(key, k), Weights(V, first(key, k), w)) /\ Fine(V, first(key, k), Even(first(key, k)))
  BY <1>7, KeyFine
<1>8. /\ r.policy = "best-node" => c = even(first(score(10), 1))
      /\ r.policy = "compute-only" => c = shared(first(speed, count), 0)
      /\ r.policy = "network-aware" => c = shared(first(score(25), count), 25)
      /\ r.policy = "resource-aware" => c = shared(first(spare, count), 10)
      /\ r.policy = "round-robin" => c = even(turn)
      /\ r.policy = "adaptive" => c = IF fan THEN shared(fit, 15) ELSE even(first(score(15), 1))
  BY Zenon DEF FormCluster, Fastest, Turns
<1>9. ASSUME NEW s, NEW w, c = shared(s, w), Fine(V, s, Weights(V, s, w)) PROVE Fine(V, c.nodes, c.weight)
  BY <1>9
<1>10. ASSUME NEW s, c = even(s), Fine(V, s, Even(s)) PROVE Fine(V, c.nodes, c.weight)
  BY <1>10
<1>11. Fine(V, turn, Even(turn))
  <2> HIDE DEF count
  <2> QED BY <1>3, TurnFine
<1>12. Fine(V, fit, Weights(V, fit, 15))
  <2> DEFINE b == Best(V, score(15))
  <2>1. DOMAIN score(15) = S /\ \A n \in DOMAIN score(15) : score(15)[n] \in Int
    BY <1>5
  <2>2. Distinct(b, S) /\ b # <<>>
    <3> HIDE DEF score
    <3> QED BY <1>4, <2>1, BestDistinct
  <2> HIDE DEF b
  <2>3. Distinct(Trimmed(V, b, Units(r)), S) /\ Trimmed(V, b, Units(r)) # <<>>
    BY <1>2, <2>2, TrimmedDistinct
  <2>4. 15 \in Nat
    OBVIOUS
  <2> QED BY <2>3, <2>4, ListFine DEF b
<1> HIDE DEF count, fan, score, speed, spare, first, turn, fit, even, shared, Key
<1>13. 10 \in Nat /\ 15 \in Nat /\ 25 \in Nat /\ 0 \in Nat
  OBVIOUS
<1>14. CASE r.policy = "best-node"
  BY <1>3, <1>6, <1>7, <1>8, <1>10, <1>13, <1>14
<1>15. CASE r.policy = "compute-only"
  BY <1>3, <1>6, <1>7, <1>8, <1>9, <1>13, <1>15
<1>16. CASE r.policy = "network-aware"
  BY <1>3, <1>6, <1>7, <1>8, <1>9, <1>13, <1>16
<1>17. CASE r.policy = "resource-aware"
  BY <1>3, <1>6, <1>7, <1>8, <1>9, <1>13, <1>17
<1>18. CASE r.policy = "round-robin"
  BY <1>8, <1>10, <1>11, <1>18
<1>19. CASE r.policy = "adaptive"
  <2>1. CASE fan
    BY <1>8, <1>9, <1>12, <1>19, <2>1
  <2>2. CASE ~fan
    BY <1>3, <1>6, <1>7, <1>8, <1>10, <1>13, <1>19, <2>2
  <2> QED BY <2>1, <2>2
<1> QED BY <1>1, <1>14, <1>15, <1>16, <1>17, <1>18, <1>19 DEF Policies

-----------------------------------------------------------------------------
(* Shares.                                                                   *)

\* A list without repetition has as many elements as its set, each in one position.
LEMMA ListSize ==
  ASSUME NEW S, NEW s, Distinct(s, S)
  PROVE  /\ Len(s) \in Nat /\ ToSet(s) \subseteq S /\ IsFiniteSet(ToSet(s)) /\ Cardinality(ToSet(s)) = Len(s)
         /\ \A i \in 1..Len(s) : s[i] \in ToSet(s) /\ Position(s, s[i]) = i
         /\ \A n \in ToSet(s) : Position(s, n) \in 1..Len(s) /\ s[Position(s, n)] = n
<1> DEFINE k == Len(s)
           N == ToSet(s)
<1>1. k \in Nat /\ DOMAIN s = 1..k /\ s \in [1..k -> S] /\ \A i, j \in 1..k : i # j => s[i] # s[j]
  BY DEF Distinct
<1>2. N = {s[i] : i \in 1..k}
  BY <1>1 DEF ToSet
<1>3. s \in [1..k -> N] /\ \A x \in N : \E i \in 1..k : s[i] = x
  BY <1>1, <1>2
<1> HIDE DEF k, N
<1>4. s \in Surjection(1..k, N) /\ s \in Injection(1..k, N)
  <2>1. \A i, j \in 1..k : s[i] = s[j] => i = j
    BY <1>1
  <2> QED BY <1>3, <2>1 DEF Surjection, Injection, IsInjective
<1>5. IsFiniteSet(1..k) /\ Cardinality(1..k) = k
  BY <1>1, FS_Interval
<1>6. IsFiniteSet(N) /\ Cardinality(N) = k
  BY <1>4, <1>5, FS_Surjection
<1>7. \A n \in N : Position(s, n) \in 1..k /\ s[Position(s, n)] = n
  BY <1>1, <1>3 DEF Position
<1>8. \A i \in 1..k : s[i] \in N /\ Position(s, s[i]) = i
  BY <1>1, <1>3, <1>7
<1>9. N \subseteq S
  BY <1>1, <1>2
<1> QED BY <1>1, <1>6, <1>7, <1>8, <1>9 DEF k, N

\* Sums over the same parts of equal values are equal, however they are written.
LEMMA TotalIs ==
  ASSUME NEW c, NEW items, NEW N, N = ToSet(c.nodes)
  PROVE  /\ Total(c) = SumOf(c.weight, N)
         /\ MapThenSumSet(LAMBDA m : Whole(c, items, m), N) = SumOf([n \in N |-> Whole(c, items, n)], N)
<1>1. Total(c) = SumOf(c.weight, N)
  BY Zenon DEF Total, SumOf
<1> DEFINE f == [n \in N |-> Whole(c, items, n)]
           P(g) == g = [s \in SUBSET N |-> IF s = {} THEN 0 ELSE Whole(c, items, CHOOSE x \in s : TRUE) + g[s \ {CHOOSE x \in s : TRUE}]]
           Q(g) == g = [s \in SUBSET N |-> IF s = {} THEN 0 ELSE f[CHOOSE x \in s : TRUE] + g[s \ {CHOOSE x \in s : TRUE}]]
<1>2. MapThenSumSet(LAMBDA m : Whole(c, items, m), N) = (CHOOSE g : P(g))[N]
  BY Zenon DEF MapThenSumSet, MapThenFoldSet
<1>3. SumOf(f, N) = (CHOOSE g : Q(g))[N]
  BY Zenon DEF SumOf, MapThenSumSet, MapThenFoldSet
<1>4. \A g : P(g) <=> Q(g)
  <2>1. \A s \in SUBSET N : s # {} => f[CHOOSE x \in s : TRUE] = Whole(c, items, CHOOSE x \in s : TRUE)
    OBVIOUS
  <2> HIDE DEF f
  <2> QED BY <2>1
<1>5. (CHOOSE g : P(g)) = (CHOOSE g : Q(g))
  <2> HIDE DEF P, Q
  <2> QED BY <1>4, Zenon
<1> QED BY <1>1, <1>2, <1>3, <1>5

\* As many elements as j have a place before j.
LEMMA FirstPlaces ==
  ASSUME NEW S, IsFiniteSet(S), NEW R, Orders(R, S), NEW j \in 0..Cardinality(S)
  PROVE  Cardinality({n \in S : Cardinality(Ahead(R, S, n)) < j}) = j
<1> DEFINE k == Cardinality(S)
           place(n) == Cardinality(Ahead(R, S, n))
           q == [i \in 1..k |-> CHOOSE n \in S : place(n) = i - 1]
           L == {n \in S : place(n) < j}
<1>1. k \in Nat /\ j \in Nat /\ j <= k
  BY FS_CardinalityType
<1>2. Sorted(q, S, R)
  BY PlacesSort
<1>3. \A i \in 1..k : q[i] \in S /\ place(q[i]) = i - 1
  BY EveryPlaceTaken
<1> HIDE DEF q, place
<1>4. \A n \in S : \E i \in 1..k : q[i] = n
  BY <1>2 DEF Sorted
<1>5. /\ Prefix(q, j) \subseteq S /\ Cardinality(Prefix(q, j)) = j
      /\ \A n \in S : n \in Prefix(q, j) <=> \E i \in 1..k : i <= j /\ q[i] = n
  BY <1>2, PrefixSize
<1>6. ASSUME NEW n \in S PROVE n \in Prefix(q, j) <=> place(n) < j
  <2>1. PICK i \in 1..k : q[i] = n
    BY <1>4
  <2>2. place(n) = i - 1
    BY <1>3, <2>1
  <2>3. place(n) < j <=> i <= j
    BY <1>1, <2>2
  <2>4. \A m \in 1..k : q[m] = n => m = i
    BY <1>1, <1>3, <2>1, <2>2
  <2> QED BY <1>5, <2>1, <2>3, <2>4
<1>7. L = Prefix(q, j)
  BY <1>5, <1>6
<1> QED BY <1>5, <1>7 DEF place

\* What is left after the whole parts is less than one item for each node.
Rem(c, items, n) == (c.weight[n] * items) % Total(c)
\* The whole parts of the items leave less than one item for each node.
LEMMA WholeParts ==
  ASSUME NEW c, NEW items \in Nat, NEW S, Distinct(c.nodes, S), c.nodes # <<>>,
         \A n \in ToSet(c.nodes) : c.weight[n] \in Nat \ {0}
  PROVE  LET N == ToSet(c.nodes)
             left == items - SumOf([n \in N |-> Whole(c, items, n)], N)
         IN /\ \A n \in N : Whole(c, items, n) \in Nat /\ Rem(c, items, n) \in Nat
            /\ left \in 0..Cardinality(N)
<1> DEFINE N == ToSet(c.nodes)
           w == c.weight
           T == Total(c)
           k == Cardinality(N)
           W == [n \in N |-> Whole(c, items, n)]
           rem == [n \in N |-> Rem(c, items, n)]
           wi == [n \in N |-> w[n] * items]
           zero == [n \in N |-> 0]
           one == [n \in N |-> 1]
           top == [n \in N |-> T]
<1>1. IsFiniteSet(N) /\ k = Len(c.nodes) /\ k \in Nat \ {0} /\ N # {}
  <2>1. Len(c.nodes) \in Nat \ {0} /\ IsFiniteSet(N) /\ k = Len(c.nodes)
    BY ListSize DEF Distinct
  <2> HIDE DEF N
  <2> QED BY <2>1, FS_EmptySet DEF k
<1>2. T = SumOf(w, N)
  BY TotalIs
<1>3. \A n \in N : w[n] \in Nat \ {0} /\ w[n] \in Int
  OBVIOUS
<1> HIDE DEF N, w, T, k
<1>4. T \in Nat \ {0}
  <2>1. \A n \in N : one[n] = 1 /\ one[n] \in Int /\ w[n] \in Int /\ one[n] <= w[n]
    BY <1>3
  <2> HIDE DEF one
  <2>2. 1 \in Int
    OBVIOUS
  <2>3. SumOf(one, N) = 1 * k
    BY <1>1, <2>1, <2>2, SumConstant DEF k
  <2>4. SumOf(one, N) <= SumOf(w, N)
    BY <1>1, <2>1, SumLeq
  <2>5. SumOf(w, N) \in Int
    BY <1>1, <1>3, SumAny
  <2> QED BY <1>1, <1>2, <2>3, <2>4, <2>5
<1>5. ASSUME NEW n \in N
      PROVE  /\ W[n] \in Nat /\ rem[n] \in 0..(T - 1) /\ wi[n] = T * W[n] + rem[n] /\ wi[n] \in Nat
             /\ wi[n] = items * w[n] + zero[n] /\ W[n] = Whole(c, items, n) /\ rem[n] = Rem(c, items, n)
  <2> DEFINE x == w[n] * items
             p == W[n]
             m == rem[n]
  <2>1. p = Whole(c, items, n) /\ m = Rem(c, items, n) /\ wi[n] = x /\ zero[n] = 0
    OBVIOUS
  <2>2. Divides(x, T, p, m)
    BY <2>1 DEF Divides, Whole, Rem, T, w
  <2>3. x \in Nat /\ x = items * w[n]
    BY <1>3
  <2> HIDE DEF x, p, m
  <2>4. p \in Nat /\ m \in 0..(T - 1) /\ x = T * p + m
    BY <1>4, <2>2, <2>3, DivMod
  <2>5. items * w[n] \in Int
    BY <1>3
  <2>6. items * w[n] = items * w[n] + 0
    BY <2>5
  <2> QED BY <2>1, <2>3, <2>4, <2>6 DEF p, m
<1>6. \A n \in N : /\ zero[n] = 0 /\ zero[n] \in Int /\ W[n] \in Int /\ rem[n] \in Int /\ wi[n] \in Int
                   /\ top[n] = T /\ top[n] \in Int /\ zero[n] <= rem[n] /\ rem[n] < top[n] /\ rem[n] <= top[n]
  BY <1>4, <1>5
<1> HIDE DEF W, rem, wi, zero, top
<1>7. SumOf(wi, N) = T * SumOf(W, N) + SumOf(rem, N)
  <2>1. \A n \in N : W[n] \in Int /\ rem[n] \in Int /\ wi[n] = T * W[n] + rem[n]
    BY <1>5, <1>6
  <2>2. T \in Int
    BY <1>4
  <2> QED BY <1>1, <2>1, <2>2, SumLinear
<1>8. SumOf(wi, N) = items * SumOf(w, N) + SumOf(zero, N)
  <2>1. \A n \in N : w[n] \in Int /\ zero[n] \in Int /\ wi[n] = items * w[n] + zero[n]
    BY <1>3, <1>5, <1>6
  <2>2. items \in Int
    OBVIOUS
  <2> QED BY <1>1, <2>1, <2>2, SumLinear
<1>9. SumOf(zero, N) = 0 * k /\ SumOf(top, N) = T * k
  <2>1. 0 \in Int /\ T \in Int
    BY <1>4
  <2> QED BY <1>1, <1>6, <2>1, SumConstant DEF k
<1>10. SumOf(zero, N) <= SumOf(rem, N) /\ SumOf(rem, N) < SumOf(top, N)
  <2>1. \E n \in N : rem[n] < top[n]
    BY <1>1, <1>6
  <2> QED BY <1>1, <1>6, <2>1, SumLeq
<1> DEFINE A == SumOf(W, N)
           B == SumOf(rem, N)
<1>11. A \in Int /\ B \in Int
  BY <1>1, <1>6, SumAny
<1> HIDE DEF A, B
<1>12. items * T = T * A + B /\ 0 <= B /\ B < T * k
  <2>1. 0 * k = 0 /\ items * T \in Int
    BY <1>1, <1>4
  <2>2. T * A \in Int
    BY <1>4, <1>11
  <2> QED BY <1>2, <1>7, <1>8, <1>9, <1>10, <1>11, <2>1, <2>2 DEF A, B
<1> DEFINE left == items - A
<1>13. T * left = B /\ left \in Int
  <2>1. T * left = items * T - T * A
    BY <1>4, <1>11
  <2>2. T * A \in Int /\ items * T \in Int
    BY <1>4, <1>11
  <2> QED BY <1>11, <1>12, <2>1, <2>2
<1> HIDE DEF left
<1>14. left >= 0
  <2>1. left < 0 => T * left < 0
    BY <1>4, <1>13, SMTT(30)
  <2> QED BY <1>11, <1>12, <1>13, <2>1
<1>15. left <= k
  <2>1. left > k => T * left > T * k
    BY <1>1, <1>4, <1>13, SMTT(30)
  <2>2. T * k \in Int
    BY <1>1, <1>4
  <2> QED BY <1>1, <1>11, <1>12, <1>13, <2>1, <2>2
<1>16. \A n \in N : Whole(c, items, n) \in Nat /\ Rem(c, items, n) \in Nat
  BY <1>4, <1>5
<1>17. left \in 0..k
  BY <1>1, <1>13, <1>14, <1>15
<1> QED BY <1>16, <1>17 DEF left, A, W, k, N

\* The order in which nodes get what is left: largest remainder, then first in the cluster.
ByRemainder(c, items) ==
  {p \in ToSet(c.nodes) \X ToSet(c.nodes) :
     \/ Rem(c, items, p[1]) > Rem(c, items, p[2])
     \/ Rem(c, items, p[1]) = Rem(c, items, p[2]) /\ Position(c.nodes, p[1]) < Position(c.nodes, p[2])}

\* Every node gets its whole part or one more, and all of them together every item.
LEMMA QuotasAdd ==
  ASSUME NEW c, NEW items \in Nat, NEW S, Distinct(c.nodes, S), c.nodes # <<>>,
         \A n \in ToSet(c.nodes) : c.weight[n] \in Nat \ {0}
  PROVE  /\ \A n \in ToSet(c.nodes) : /\ Quota(c, items, n) \in Nat /\ Whole(c, items, n) \in Nat
                                      /\ Quota(c, items, n) - Whole(c, items, n) \in {0, 1}
         /\ SumOf([n \in ToSet(c.nodes) |-> Quota(c, items, n)], ToSet(c.nodes)) = items
<1> DEFINE N == ToSet(c.nodes)
           R == ByRemainder(c, items)
           W == [n \in N |-> Whole(c, items, n)]
           A == SumOf(W, N)
           left == items - A
           rem(n) == Rem(c, items, n)
           pos(n) == Position(c.nodes, n)
           before(m, n) == rem(m) > rem(n) \/ (rem(m) = rem(n) /\ pos(m) < pos(n))
           place(n) == Cardinality(Ahead(R, N, n))
           e == [n \in N |-> IF place(n) < left THEN 1 ELSE 0]
           Q == [n \in N |-> Quota(c, items, n)]
           L == {n \in N : place(n) < left}
<1>1. /\ IsFiniteSet(N) /\ \A n \in N : pos(n) \in Nat
      /\ \A m, n \in N : m # n => pos(m) # pos(n)
  BY ListSize
<1>2. (\A n \in N : Whole(c, items, n) \in Nat /\ rem(n) \in Nat) /\ left \in 0..Cardinality(N)
  BY WholeParts
<1>3. \A m, n \in N : <<m, n>> \in R <=> before(m, n)
  BY DEF ByRemainder
<1>4. Orders(R, N)
  <2>1. \A a \in N : ~before(a, a)
    BY <1>1, <1>2
  <2>2. ASSUME NEW a \in N, NEW b \in N, a # b PROVE before(a, b) \/ before(b, a)
    BY <1>1, <1>2, <2>2
  <2>3. ASSUME NEW a \in N, NEW b \in N, NEW d \in N, before(a, b), before(b, d) PROVE before(a, d)
    BY <1>1, <1>2, <2>3
  <2> HIDE DEF before, R
  <2> QED BY <1>3, <2>1, <2>2, <2>3 DEF Orders
<1>5. \A n \in N : Ahead(R, N, n) = {m \in N : before(m, n)}
  BY <1>3 DEF Ahead
<1>6. A = MapThenSumSet(LAMBDA m : Whole(c, items, m), N)
  BY TotalIs
<1>7. \A n : Quota(c, items, n) = Whole(c, items, n) + (IF Cardinality({m \in N : before(m, n)}) < left THEN 1 ELSE 0)
  BY <1>6, Zenon DEF Quota, Rem
<1>8. ASSUME NEW n \in N
      PROVE  /\ Q[n] = Whole(c, items, n) + e[n] /\ Q[n] = 1 * W[n] + e[n] /\ e[n] \in {0, 1}
             /\ W[n] = Whole(c, items, n) /\ Q[n] = Quota(c, items, n)
             /\ (n \in L => e[n] = 1) /\ (n \in N \ L => e[n] = 0)
  <2>1. e[n] = (IF Cardinality({m \in N : before(m, n)}) < left THEN 1 ELSE 0) /\ e[n] \in {0, 1}
    BY <1>5
  <2>2. Q[n] = Whole(c, items, n) + e[n] /\ W[n] = Whole(c, items, n) /\ Q[n] = Quota(c, items, n)
    BY <1>7, <2>1, Zenon
  <2>3. Whole(c, items, n) \in Nat
    BY <1>2
  <2>4. (n \in L => e[n] = 1) /\ (n \in N \ L => e[n] = 0)
    OBVIOUS
  <2> HIDE DEF Q, e, W, L
  <2> QED BY <2>1, <2>2, <2>3, <2>4
<1>9. Cardinality(L) = left /\ L \in SUBSET N /\ IsFiniteSet(L) /\ IsFiniteSet(N \ L)
  <2>1. Cardinality(L) = left
    <3> HIDE DEF N, R, left
    <3> QED BY <1>1, <1>2, <1>4, FirstPlaces
  <2> QED BY <1>1, <2>1, FS_Subset, FS_Difference
<1> HIDE DEF e, Q, L, W, N, R, place
<1>10. SumOf(e, L) = 1 * left /\ SumOf(e, N \ L) = 0 * Cardinality(N \ L)
  <2>1. 1 \in Int /\ 0 \in Int
    OBVIOUS
  <2>2. SumOf(e, L) = 1 * Cardinality(L)
    BY <1>8, <1>9, <2>1, SumConstant
  <2> DEFINE M == N \ L
  <2>3. IsFiniteSet(M) /\ \A n \in M : e[n] = 0
    BY <1>8, <1>9
  <2> HIDE DEF M
  <2>4. SumOf(e, M) = 0 * Cardinality(M)
    BY <2>1, <2>3, SumConstant
  <2> QED BY <1>9, <2>2, <2>4 DEF M
<1>11. SumOf(e, N) = left
  <2> DEFINE M == N \ L
  <2>1. IsFiniteSet(M) /\ L \cap M = {} /\ L \cup M = N /\ \A n \in L \cup M : e[n] \in Int
    BY <1>8, <1>9
  <2>2. Cardinality(M) \in Nat /\ left \in Nat
    BY <1>2, <2>1, FS_CardinalityType
  <2>3. SumOf(e, L \cup M) = SumOf(e, L) + SumOf(e, M)
    <3> HIDE DEF M
    <3> QED BY <1>9, <2>1, SumUnion
  <2>4. SumOf(e, L) = left
    <3> HIDE DEF left
    <3> QED BY <1>10, <2>2
  <2>5. SumOf(e, M) = 0
    BY <1>10, <2>2
  <2>6. SumOf(e, N) = SumOf(e, L) + SumOf(e, M)
    BY <2>1, <2>3
  <2> HIDE DEF left, M
  <2> QED BY <2>2, <2>4, <2>5, <2>6
<1>12. SumOf(Q, N) = 1 * A + left
  <2>1. \A n \in N : W[n] \in Int /\ e[n] \in Int /\ Q[n] = 1 * W[n] + e[n]
    BY <1>2, <1>8
  <2>2. 1 \in Int
    OBVIOUS
  <2>3. SumOf(Q, N) = 1 * SumOf(W, N) + SumOf(e, N)
    BY <1>1, <2>1, <2>2, SumLinear
  <2> HIDE DEF left
  <2> QED BY <1>11, <2>3 DEF A
<1>13. A \in Int
  BY <1>1, <1>2, <1>8, SumAny
<1>14. SumOf(Q, N) = items
  <2> HIDE DEF A
  <2> QED BY <1>12, <1>13 DEF left
<1>15. \A n \in N : Quota(c, items, n) \in Nat /\ Whole(c, items, n) \in Nat /\ Quota(c, items, n) - Whole(c, items, n) \in {0, 1}
  BY <1>2, <1>8
<1> QED BY <1>14, <1>15 DEF Q, N

\* The sum of a list, from its first element on.
Along(b, s, f) == (\A n \in ToSet(s) : f[n] \in Nat) /\ b = [i \in 1..Len(s) |-> f[s[i]]]

LEMMA ListSum ==
  ASSUME NEW S, NEW s, Distinct(s, S), NEW f, NEW b, Along(b, s, f)
  PROVE  /\ SumOf(b, 1..0) = 0
         /\ \A j \in 1..Len(s) : /\ SumOf(b, 1..(j - 1)) \in Nat /\ SumOf(b, 1..j) \in Nat
                                 /\ SumOf(b, 1..j) = SumOf(b, 1..(j - 1)) + f[s[j]]
         /\ SumOf(b, 1..Len(s)) = SumOf(f, ToSet(s))
         /\ \A i, j \in 0..Len(s) : i <= j => SumOf(b, 1..i) <= SumOf(b, 1..j)
<1> DEFINE k == Len(s)
           U(j) == SumOf(b, 1..j)
           P(j) == SumOf(f, Prefix(s, j))
<1>1. /\ k \in Nat /\ DOMAIN s = 1..k /\ ToSet(s) = Prefix(s, k) /\ IsFiniteSet(ToSet(s))
      /\ \A i, j \in 1..k : i # j => s[i] # s[j]
      /\ \A i \in 1..k : s[i] \in ToSet(s)
  BY ListSize DEF Distinct, ToSet, Prefix
<1>2. (\A i \in 1..k : b[i] = f[s[i]] /\ b[i] \in Nat) /\ \A n \in ToSet(s) : f[n] \in Nat
  BY <1>1 DEF Along
<1> HIDE DEF k
<1>3. ASSUME NEW j \in 0..k
      PROVE  /\ IsFiniteSet(1..j) /\ \A i \in 1..j : b[i] \in Int
             /\ Prefix(s, j) \subseteq ToSet(s) /\ IsFiniteSet(Prefix(s, j))
  <2>1. \A i \in 1..j : i \in 1..k
    BY <1>1
  <2>2. \A i \in 1..j : b[i] \in Int
    BY <1>2, <2>1
  <2>3. IsFiniteSet(1..j)
    BY <1>1, FS_Interval
  <2>4. Prefix(s, j) \subseteq ToSet(s)
    BY <1>1, <2>1 DEF Prefix
  <2> QED BY <1>1, <2>2, <2>3, <2>4, FS_Subset
<1>4. ASSUME NEW j \in 1..k
      PROVE  U(j) = U(j - 1) + f[s[j]] /\ P(j) = P(j - 1) + f[s[j]]
  <2>0. j \in Nat \ {0} /\ j \in 0..k /\ j - 1 \in 0..k /\ j \in 1..j
    BY <1>1
  <2>1. (1..j) \ {j} = 1..(j - 1)
    <3>1. \A x : x \in (1..j) \ {j} <=> x \in 1..(j - 1)
      BY <2>0
    <3> QED BY <3>1
  <2>2. SumOf(b, 1..j) = b[j] + SumOf(b, (1..j) \ {j})
    <3> DEFINE D == 1..j
    <3>1. IsFiniteSet(D) /\ (\A i \in D : b[i] \in Int) /\ j \in D
      BY <1>2, <1>3, <2>0
    <3>2. ASSUME NEW g, \A i \in D : g[i] \in Int PROVE SumOf(g, D) = g[j] + SumOf(g, D \ {j})
      <4> HIDE DEF D
      <4> QED BY <3>1, <3>2, SumAny
    <3> QED BY <3>1, <3>2
  <2>3. U(j - 1) \in Int
    BY <1>3, <2>0, SumAny
  <2>4. U(j) = U(j - 1) + f[s[j]]
    <3>1. U(j) = b[j] + U(j - 1)
      BY <2>1, <2>2, Zenon
    <3>2. b[j] = f[s[j]] /\ b[j] \in Nat
      BY <1>2, Zenon
    <3> HIDE DEF U
    <3> DEFINE x == b[j]
    <3>3. U(j) = x + U(j - 1) /\ x = f[s[j]] /\ x \in Nat
      BY <3>1, <3>2, Zenon
    <3> HIDE DEF x
    <3> QED BY <2>3, <3>3
  <2>5. Prefix(s, j) \ {s[j]} = Prefix(s, j - 1) /\ s[j] \in Prefix(s, j)
    <3>1. \A i : i \in 1..j <=> i \in 1..(j - 1) \/ i = j
      BY <2>0
    <3>2. \A i \in 1..(j - 1) : i \in 1..k /\ i # j
      BY <1>1
    <3> QED BY <1>1, <3>1, <3>2 DEF Prefix
  <2>6. \A n \in Prefix(s, j) : f[n] \in Int
    BY <1>2, <1>3, <2>0
  <2>7. SumOf(f, Prefix(s, j)) = f[s[j]] + SumOf(f, Prefix(s, j) \ {s[j]})
    BY <1>3, <2>0, <2>5, <2>6, SumAny
  <2>8. P(j - 1) \in Int
    <3>1. \A n \in Prefix(s, j - 1) : f[n] \in Int
      BY <1>2, <1>3, <2>0
    <3> QED BY <1>3, <2>0, <3>1, SumAny
  <2>9. f[s[j]] \in Int
    BY <1>1, <1>2
  <2>10. P(j) = P(j - 1) + f[s[j]]
    <3>1. P(j) = f[s[j]] + P(j - 1)
      BY <2>5, <2>7
    <3> HIDE DEF P
    <3> QED BY <2>8, <2>9, <3>1
  <2> QED BY <2>4, <2>10
<1>5. U(0) = 0 /\ P(0) = 0
  <2>1. 1..0 = {} /\ Prefix(s, 0) = {} /\ 0 \in 0..k
    BY <1>1 DEF Prefix
  <2>2. SumOf(b, {}) = 0 /\ SumOf(f, {}) = 0
    <3>1. IsFiniteSet({})
      BY FS_EmptySet
    <3> QED BY <3>1, SumAny
  <2> QED BY <2>1, <2>2
<1> HIDE DEF U, P
<1>6. \A j \in 1..k : f[s[j]] \in Nat
  BY <1>1, <1>2
<1> DEFINE I == {j \in 0..k : U(j) = P(j) /\ U(j) \in Nat}
           M(j) == {i \in 0..k : i >= j => U(j) <= U(i)}
<1>7. k \in I
  <2>1. 0 \in I
    BY <1>1, <1>5
  <2>2. ASSUME NEW j \in 1..k, j - 1 \in I PROVE j \in I
    <3>1. U(j - 1) = P(j - 1) /\ U(j - 1) \in Nat /\ f[s[j]] \in Nat /\ j \in 0..k
      BY <1>1, <1>6, <2>2
    <3> DEFINE x == f[s[j]]
    <3>2. U(j) = U(j - 1) + x /\ P(j) = P(j - 1) + x /\ x \in Nat
      BY <1>4, <3>1
    <3> HIDE DEF x
    <3> QED BY <3>1, <3>2
  <2>3. \A j \in 1..k : j - 1 \in I => j \in I
    BY <2>2
  <2> HIDE DEF I
  <2> QED BY <1>1, <2>1, <2>3, LoopInduction
<1>8. \A j \in 0..k : U(j) \in Nat
  <2> SUFFICES ASSUME NEW j \in 0..k PROVE U(j) \in Nat
    OBVIOUS
  <2> DEFINE J == {i \in 0..k : U(i) \in Nat}
  <2>1. 0 \in J
    BY <1>1, <1>5
  <2>2. \A i \in 1..j : i - 1 \in J => i \in J
    <3> SUFFICES ASSUME NEW i \in 1..j, i - 1 \in J PROVE i \in J
      OBVIOUS
    <3>1. i \in 1..k
      BY <1>1
    <3> DEFINE x == f[s[i]]
    <3>2. U(i) = U(i - 1) + x /\ x \in Nat /\ U(i - 1) \in Nat
      BY <1>4, <1>6, <3>1
    <3> HIDE DEF x
    <3>3. i \in 0..k
      BY <1>1, <3>1
    <3> QED BY <3>2, <3>3
  <2>3. j \in Nat
    BY <1>1
  <2>4. j \in J
    <3> HIDE DEF J
    <3> QED BY <2>1, <2>2, <2>3, LoopInduction
  <2> QED BY <2>4
<1>9. ASSUME NEW i \in 0..k, NEW j \in 0..k, i <= j PROVE U(i) <= U(j)
  <2> DEFINE J == {m \in 0..k : i <= m => U(i) <= U(m)}
  <2>1. 0 \in J
    BY <1>1, <1>8
  <2>2. \A m \in 1..j : m - 1 \in J => m \in J
    <3> SUFFICES ASSUME NEW m \in 1..j, m - 1 \in J, i <= m PROVE m \in J
      <4>1. \A m \in 1..j : m \in 0..k
        BY <1>1
      <4> QED BY <4>1
    <3>1. m \in 1..k /\ m - 1 \in 0..k
      BY <1>1
    <3>2. CASE i = m
      BY <1>1, <1>8, <3>1, <3>2
    <3>3. CASE i # m
      <4>1. i <= m - 1
        BY <1>1, <3>1, <3>3
      <4>2. U(i) <= U(m - 1) /\ U(m) = U(m - 1) + f[s[m]]
        BY <1>4, <3>1, <4>1
      <4>3. U(i) \in Nat /\ U(m - 1) \in Nat /\ f[s[m]] \in Nat
        BY <1>6, <1>8, <3>1
      <4>4. U(i) <= U(m)
        BY <4>2, <4>3
      <4> QED BY <1>1, <3>1, <4>4
    <3> QED BY <3>2, <3>3
  <2>3. j \in Nat
    BY <1>1
  <2>4. j \in J
    <3> HIDE DEF J
    <3> QED BY <2>1, <2>2, <2>3, LoopInduction
  <2> QED BY <1>9, <2>4
<1>10. \A j \in 1..k : j \in 0..k /\ j - 1 \in 0..k
  BY <1>1
<1>11. U(k) = SumOf(f, ToSet(s))
  BY <1>1, <1>7 DEF P
<1> QED BY <1>4, <1>5, <1>8, <1>9, <1>10, <1>11 DEF U, k

\* The items of each node, as buildTasks deals them out: every item once.
Deals(q, c, items, S) ==
  /\ items \in Nat /\ Distinct(c.nodes, S) /\ c.nodes # <<>>
  /\ \A n \in ToSet(c.nodes) : c.weight[n] \in Nat \ {0}
  /\ q = Queues(c, items)

LEMMA QueuesCover ==
  ASSUME NEW c, NEW items, NEW S, NEW q, Deals(q, c, items, S)
  PROVE  /\ DOMAIN q = ToSet(c.nodes) /\ DOMAIN q \subseteq S /\ Cardinality(DOMAIN q) = Len(c.nodes)
         /\ UNION {q[n] : n \in DOMAIN q} = 1..items
         /\ \A m, n \in DOMAIN q : m # n => q[m] \cap q[n] = {}
         /\ \A n \in DOMAIN q : Cardinality(q[n]) - Whole(c, items, n) \in {0, 1}
<1> DEFINE s == c.nodes
           N == ToSet(s)
           k == Len(s)
           Q == [n \in N |-> Quota(c, items, n)]
           b == [i \in 1..k |-> Q[s[i]]]
           U(j) == SumOf(b, 1..j)
           pos(n) == Position(s, n)
           slice(j) == (U(j - 1) + 1)..U(j)
<1> USE DEF Deals
<1>1. /\ k \in Nat /\ N \subseteq S /\ Cardinality(N) = k
      /\ \A i \in 1..k : s[i] \in N /\ pos(s[i]) = i
      /\ \A n \in N : pos(n) \in 1..k /\ s[pos(n)] = n
  BY ListSize
<1>2. \A n \in N : /\ Q[n] = Quota(c, items, n) /\ Q[n] \in Nat /\ Whole(c, items, n) \in Nat
                   /\ Q[n] - Whole(c, items, n) \in {0, 1}
  BY QuotasAdd
<1>3. SumOf(Q, N) = items
  BY QuotasAdd
<1>4. k # 0
  BY DEF Distinct
<1>5. /\ U(0) = 0
      /\ \A j \in 1..k : U(j - 1) \in Nat /\ U(j) \in Nat /\ U(j) = U(j - 1) + Q[s[j]]
      /\ U(k) = items
      /\ \A i, j \in 0..k : i <= j => U(i) <= U(j)
  <2>1. Along(b, s, Q)
    BY <1>2 DEF Along
  <2> HIDE DEF b, Q
  <2> QED BY <1>3, <2>1, ListSum
<1> DEFINE up(j) == MapThenSumSet(LAMBDA i : Quota(c, items, s[i]), 1..j)
<1>6. ASSUME NEW j \in 0..k PROVE up(j) = U(j)
  <2> DEFINE D == 1..j
             F(g) == g = [a \in SUBSET D |-> IF a = {} THEN 0 ELSE Quota(c, items, s[CHOOSE x \in a : TRUE]) + g[a \ {CHOOSE x \in a : TRUE}]]
             G(g) == g = [a \in SUBSET D |-> IF a = {} THEN 0 ELSE b[CHOOSE x \in a : TRUE] + g[a \ {CHOOSE x \in a : TRUE}]]
  <2>1. up(j) = (CHOOSE g : F(g))[D]
    BY Zenon DEF MapThenSumSet, MapThenFoldSet
  <2>2. U(j) = (CHOOSE g : G(g))[D]
    BY Zenon DEF SumOf, MapThenSumSet, MapThenFoldSet
  <2>3. \A g : F(g) <=> G(g)
    <3>1. \A i \in D : b[i] = Quota(c, items, s[i])
      <4>1. \A i \in D : i \in 1..k
        BY <1>1
      <4> QED BY <1>1, <1>2, <4>1
    <3>2. \A a \in SUBSET D : a # {} => (CHOOSE x \in a : TRUE) \in D
      OBVIOUS
    <3> HIDE DEF b, D
    <3>3. \A a \in SUBSET D : a # {} => b[CHOOSE x \in a : TRUE] = Quota(c, items, s[CHOOSE x \in a : TRUE])
      BY <3>1, <3>2
    <3> QED BY <3>3
  <2>4. (CHOOSE g : F(g)) = (CHOOSE g : G(g))
    <3> HIDE DEF F, G
    <3> QED BY <2>3, Zenon
  <2> QED BY <2>1, <2>2, <2>4
<1>7. q = [n \in N |-> ((up(pos(n) - 1) + 1)..Min({up(pos(n)), items}))
                         \cup (IF pos(n) = 1 THEN (up(k) + 1)..items ELSE {})]
  BY Zenon DEF Queues
<1> HIDE DEF up, U, b
<1>8. \A j \in 0..k : U(j) \in Nat /\ U(j) <= items
  <2>1. \A j \in 0..k : j = 0 \/ j \in 1..k
    BY <1>1
  <2>2. k \in 0..k /\ \A j \in 0..k : j <= k
    BY <1>1
  <2> SUFFICES ASSUME NEW j \in 0..k PROVE U(j) \in Nat /\ U(j) <= items
    OBVIOUS
  <2>3. j <= k /\ k \in 0..k
    BY <2>2
  <2>4. U(j) <= items
    BY <1>5, <2>3
  <2>5. U(j) \in Nat
    <3>1. CASE j = 0
      BY <1>5, <3>1
    <3>2. CASE j \in 1..k
      BY <1>5, <3>2
    <3> QED BY <2>1, <3>1, <3>2
  <2> QED BY <2>4, <2>5
<1>9. ASSUME NEW n \in N PROVE q[n] = slice(pos(n))
  <2> DEFINE j == pos(n)
             u == U(j)
  <2>1. j \in 1..k /\ j \in 0..k /\ j - 1 \in 0..k /\ k \in 0..k
    BY <1>1
  <2> HIDE DEF j
  <2>2. up(j) = u /\ up(j - 1) = U(j - 1) /\ up(k) = items
    BY <1>5, <1>6, <2>1
  <2>3. u \in Nat /\ u <= items
    BY <1>8, <2>1
  <2>4. Min({u, items}) = u
    <3> HIDE DEF u
    <3>1. u \in Int /\ items \in Int
      BY <2>3
    <3>2. Min({u, items}) \in {u, items} /\ Min({u, items}) <= u /\ Min({u, items}) <= items
      BY <3>1, MaxMin
    <3> QED BY <2>3, <3>1, <3>2
  <2>5. (items + 1)..items = {}
    OBVIOUS
  <2>6. q[n] = ((up(j - 1) + 1)..Min({up(j), items})) \cup (IF j = 1 THEN (up(k) + 1)..items ELSE {})
    BY <1>7, Zenon DEF j
  <2>7. q[n] = ((U(j - 1) + 1)..u) \cup (IF j = 1 THEN {} ELSE {})
    BY <2>2, <2>4, <2>5, <2>6
  <2> QED BY <2>7 DEF j
<1>10. DOMAIN q = N
  BY <1>7
<1> HIDE DEF N, k
<1>11. ASSUME NEW i \in 1..k, NEW j \in 1..k, i < j PROVE slice(i) \cap slice(j) = {}
  <2>1. i \in 0..k /\ j - 1 \in 0..k /\ i <= j - 1
    BY <1>1, <1>11
  <2>2. U(i) <= U(j - 1) /\ U(i) \in Nat /\ U(j - 1) \in Nat
    BY <1>5, <1>8, <2>1
  <2>3. \A x \in slice(i), y \in slice(j) : x # y
    BY <1>5, <2>2
  <2> QED BY <2>3
<1>12. ASSUME NEW m \in N, NEW n \in N, m # n PROVE q[m] \cap q[n] = {}
  <2>1. pos(m) \in 1..k /\ pos(n) \in 1..k /\ pos(m) # pos(n)
    BY <1>1, <1>12
  <2>2. pos(m) < pos(n) \/ pos(n) < pos(m)
    BY <1>1, <2>1
  <2> HIDE DEF pos, slice
  <2>3. slice(pos(m)) \cap slice(pos(n)) = {}
    BY <1>11, <2>1, <2>2
  <2> QED BY <1>9, <2>3
<1> DEFINE I == {j \in 0..k : \A x \in 1..U(j) : \E i \in 1..j : x \in slice(i)}
<1>13. k \in I
  <2>1. 0 \in I
    BY <1>1, <1>5
  <2>2. ASSUME NEW j \in 1..k, j - 1 \in I, NEW x \in 1..U(j) PROVE \E i \in 1..j : x \in slice(i)
    <3>1. j \in Nat \ {0} /\ U(j) \in Nat /\ U(j - 1) \in Nat
      <4>1. j \in Nat \ {0}
        BY <1>1
      <4> QED BY <1>5, <4>1
    <3>2. CASE x <= U(j - 1)
      <4>1. x \in 1..U(j - 1)
        BY <3>1, <3>2
      <4>2. PICK i \in 1..(j - 1) : x \in slice(i)
        BY <2>2, <4>1
      <4>3. i \in 1..j
        BY <3>1
      <4> QED BY <4>2, <4>3
    <3>3. CASE ~(x <= U(j - 1))
      <4>1. x \in slice(j)
        BY <3>1, <3>3
      <4>2. j \in 1..j
        BY <3>1
      <4> QED BY <4>1, <4>2
    <3> QED BY <3>2, <3>3
  <2>3. \A j \in 1..k : j - 1 \in I => j \in I
    BY <1>1, <2>2
  <2> HIDE DEF I
  <2> QED BY <1>1, <2>1, <2>3, LoopInduction
<1>14. UNION {q[n] : n \in DOMAIN q} = 1..items
  <2>1. ASSUME NEW n \in N, NEW x \in q[n] PROVE x \in 1..items
    <3>1. x \in slice(pos(n)) /\ pos(n) \in 1..k
      BY <1>1, <1>9
    <3> DEFINE j == pos(n)
    <3> HIDE DEF j
    <3>2. U(j - 1) \in Nat /\ U(j) \in Nat /\ U(j) <= items
      <4>1. j \in 1..k /\ j \in 0..k
        BY <1>1, <3>1 DEF j
      <4> QED BY <1>5, <1>8, <4>1
    <3>3. x \in slice(j)
      BY <3>1 DEF j
    <3> QED BY <3>2, <3>3
  <2>2. ASSUME NEW x \in 1..items PROVE \E n \in N : x \in q[n]
    <3>1. PICK i \in 1..k : x \in slice(i)
      BY <1>5, <1>13
    <3>2. s[i] \in N /\ pos(s[i]) = i
      BY <1>1
    <3> HIDE DEF slice
    <3>3. x \in q[s[i]]
      BY <1>9, <3>1, <3>2
    <3> QED BY <3>2, <3>3
  <2> QED BY <1>10, <2>1, <2>2
<1>15. ASSUME NEW n \in N PROVE Cardinality(q[n]) - Whole(c, items, n) \in {0, 1}
  <2> DEFINE j == pos(n)
             u == U(j - 1)
             v == U(j)
  <2>1. j \in 1..k /\ s[j] = n
    BY <1>1
  <2>2. u \in Nat /\ v \in Nat /\ v = u + Q[n] /\ Q[n] \in Nat
    <3> HIDE DEF j
    <3> QED BY <1>2, <1>5, <2>1
  <2>3. q[n] = (u + 1)..v
    BY <1>9
  <2> DEFINE z == Q[n]
  <2> HIDE DEF u, v, z
  <2>4. Cardinality((u + 1)..v) = z
    <3>1. u + 1 \in Int /\ v \in Int
      BY <2>2
    <3>2. Cardinality((u + 1)..v) = IF u + 1 > v THEN 0 ELSE v - (u + 1) + 1
      BY <3>1, FS_Interval
    <3>3. v = u + z /\ z \in Nat
      BY <2>2 DEF z
    <3> QED BY <2>2, <3>2, <3>3
  <2>5. z - Whole(c, items, n) \in {0, 1}
    BY <1>2 DEF z
  <2> QED BY <2>3, <2>4, <2>5
<1> QED BY <1>1, <1>10, <1>12, <1>14, <1>15 DEF N, k

-----------------------------------------------------------------------------
(* Outcomes.                                                                 *)

\* What the properties say of an outcome o, planned over what V says of the nodes.
Fewest(o, V) ==
  o.strategy \in {"model-parallel", "failed"} =>
    (o.request.kind = "chat" /\ ModelParallel =>
       \A S \in SUBSET Candidates(V) :
         Cardinality(S) <= MaxMembers /\ Pooled(V, S) >= Needed =>
           o.strategy = "model-parallel" /\ Len(o.plan.members) <= Cardinality(S))
Fits(o, V) ==
  o.strategy = "model-parallel" =>
    LET a == o.plan.assigned
        sum == SumOf(a, DOMAIN a)
    IN /\ \A n \in DOMAIN a : a[n] <= V[n].offered
       /\ 2 * sum \in (2 * Needed - Cardinality(DOMAIN a))..(2 * Needed + Cardinality(DOMAIN a))
Once(o, V) ==
  o.strategy = "task-parallel" =>
    LET c == o.cluster  q == o.queues  items == o.request.items
    IN /\ UNION {q[n] : n \in DOMAIN q} = 1..items
       /\ \A m, n \in DOMAIN q : m # n => q[m] \cap q[n] = {}
       /\ DOMAIN q \subseteq Ready(V) /\ Cardinality(DOMAIN q) = Len(c.nodes)
       /\ \A n \in DOMAIN q : Cardinality(q[n]) - Whole(c, items, n) \in {0, 1}

\* The properties, as statements of an outcome and of what was known.
LEMMA OutcomeIs ==
  /\ FewestMembers <=> Fewest(outcome, views)
  /\ AssignmentFits <=> Fits(outcome, views)
  /\ EveryItemOnce <=> Once(outcome, views)
<1>1. FewestMembers <=> Fewest(outcome, views)
  BY Zenon DEF FewestMembers, Fewest
<1>2. AssignmentFits <=> Fits(outcome, views)
  BY Zenon DEF AssignmentFits, Fits, SumOf
<1>3. EveryItemOnce <=> Once(outcome, views)
  BY Zenon DEF EveryItemOnce, Once
<1> QED BY <1>1, <1>2, <1>3

Members(V) == InOrder(Chosen(V), LAMBDA a, b : Nearest(V, a, b))

\* A plan has the members that were chosen, if they can hold the model.
LEMMA PlanIs ==
  ASSUME NEW V, Known(V), Pooled(V, Chosen(V)) >= Needed
  PROVE  /\ Chosen(V) \in SUBSET DOMAIN V /\ Chosen(V) # {} /\ Len(Members(V)) = Cardinality(Chosen(V))
         /\ PlanPipeline(V) = [members |-> Members(V), head |-> PickHead(V, Chosen(V)), assigned |-> Assigned(V, Chosen(V))]
         /\ PlanPipeline(V) # NoPlan
<1>1. Chosen(V) \in SUBSET DOMAIN V
  BY ChosenIs, RankedSorted
<1>2. IsFiniteSet(Chosen(V)) /\ Pooled(V, Chosen(V)) \in Nat /\ Pooled(V, Chosen(V)) = SumOf(Offers(V), Chosen(V))
  BY <1>1, PooledIs
<1>3. Chosen(V) # {}
  <2> SUFFICES ASSUME Chosen(V) = {} PROVE FALSE
    OBVIOUS
  <2>1. SumOf(Offers(V), {}) = 0
    BY FS_EmptySet, SumAny
  <2>2. Pooled(V, Chosen(V)) = 0
    BY <1>2, <2>1, Zenon
  <2> QED BY <2>2, PlannerAssumption
<1>4. Cardinality(Chosen(V)) \in Nat /\ Cardinality(Chosen(V)) # 0
  BY <1>2, <1>3, FS_CardinalityType, FS_EmptySet
<1>5. Len(Members(V)) = Cardinality(Chosen(V))
  <2>1. Members(V) = [i \in 1..Cardinality(Chosen(V)) |->
                        CHOOSE n \in Chosen(V) : Cardinality({m \in Chosen(V) : Nearest(V, m, n)}) = i - 1]
    BY DEF Members, InOrder
  <2> QED BY <1>4, <2>1
<1>6. ~(Pooled(V, Chosen(V)) < Needed)
  BY <1>2, PlannerAssumption
<1>7. PlanPipeline(V) = [members |-> Members(V), head |-> PickHead(V, Chosen(V)), assigned |-> Assigned(V, Chosen(V))]
  BY <1>6, Zenon DEF PlanPipeline, Members
<1>8. Members(V) # <<>>
  <2>1. Len(<<>>) = 0
    OBVIOUS
  <2> QED BY <1>4, <1>5, <2>1, Zenon
<1>9. PlanPipeline(V) # NoPlan
  <2>1. PlanPipeline(V).members = Members(V)
    BY <1>7
  <2>2. NoPlan.members = <<>>
    BY DEF NoPlan
  <2> QED BY <1>8, <2>1, <2>2
<1> QED BY <1>1, <1>3, <1>5, <1>7, <1>9

\* A chat that is split.
LEMMA SplitPlanned ==
  ASSUME NEW V, Known(V), NEW r \in Request, Strategy(V, r) = "model-parallel",
         NEW q, NEW o, o = [strategy |-> "model-parallel", request |-> r, plan |-> PlanPipeline(V), queues |-> q]
  PROVE  Fewest(o, V) /\ Fits(o, V) /\ Once(o, V)
<1> DEFINE C == Chosen(V)
           a == Assigned(V, C)
<1>1. PlanPipeline(V) # NoPlan
  BY DEF Strategy, Request
<1>2. Pooled(V, C) >= Needed
  <2>1. ~(Pooled(V, C) < Needed)
    BY <1>1, Zenon DEF PlanPipeline
  <2>2. Pooled(V, C) \in Nat
    BY ChosenIs, RankedSorted, PooledIs
  <2> QED BY <2>1, <2>2, PlannerAssumption
<1>3. /\ C \in SUBSET DOMAIN V /\ C # {} /\ Len(o.plan.members) = Cardinality(C)
      /\ o.plan.assigned = a /\ o.strategy = "model-parallel"
  BY <1>2, PlanIs
<1>4. Fewest(o, V)
  <2>1. \A S \in SUBSET Candidates(V) :
           Cardinality(S) <= MaxMembers /\ Pooled(V, S) >= Needed => Cardinality(C) <= Cardinality(S)
    BY FewestChosen
  <2> QED BY <1>3, <2>1, Zenon DEF Fewest
<1>5. Fits(o, V)
  <2>1. /\ DOMAIN a = C /\ \A n \in C : a[n] \in Nat /\ a[n] <= V[n].offered
        /\ 2 * SumOf(a, C) \in (2 * Needed - Cardinality(C))..(2 * Needed + Cardinality(C))
    BY <1>2, <1>3, AssignedFits
  <2> HIDE DEF a, C
  <2> QED BY <1>3, <2>1 DEF Fits
<1>6. Once(o, V)
  BY <1>3 DEF Once
<1> QED BY <1>4, <1>5, <1>6

\* A job that is given to a cluster, or fails for want of one.
LEMMA ClusterPlanned ==
  ASSUME NEW V, Known(V), NEW r \in Request, Strategy(V, r) # "model-parallel", NEW from \in Nat,
         NEW o, NEW c, c = FormCluster(V, r, from),
         o = IF c.nodes = <<>> THEN [strategy |-> "failed", request |-> r, warming |-> Warmable(V)]
             ELSE [strategy |-> Strategy(V, r), request |-> r, cluster |-> c,
                   queues |-> IF Strategy(V, r) = "task-parallel" THEN Queues(c, r.items)
                              ELSE [n \in {c.nodes[1]} |-> {1}]]
  PROVE  Fewest(o, V) /\ Fits(o, V) /\ Once(o, V)
<1>1. Strategy(V, r) \in {"single-node", "task-parallel"}
  BY DEF Strategy, Request
<1>2. CASE c.nodes = <<>>
  <2>1. o = [strategy |-> "failed", request |-> r, warming |-> Warmable(V)]
    BY <1>2, Zenon
  <2>2. Ready(V) = {}
    BY <1>2, ClusterFine DEF Fine
  <2>3. ASSUME r.kind = "chat", ModelParallel, NEW S \in SUBSET Candidates(V),
               Cardinality(S) <= MaxMembers, Pooled(V, S) >= Needed
        PROVE  FALSE
    <3>1. Pooled(V, Chosen(V)) >= Needed
      BY <2>3, FewestChosen
    <3>2. PlanPipeline(V) # NoPlan
      BY <3>1, PlanIs
    <3> QED BY <2>2, <2>3, <3>2 DEF Strategy
  <2>4. o.strategy = "failed" /\ o.request = r
    BY <2>1
  <2>5. Fewest(o, V)
    BY <2>3, <2>4, Zenon DEF Fewest
  <2>6. Fits(o, V) /\ Once(o, V)
    BY <2>4 DEF Fits, Once
  <2> QED BY <2>5, <2>6
<1>3. CASE c.nodes # <<>>
  <2>1. o = [strategy |-> Strategy(V, r), request |-> r, cluster |-> c,
             queues |-> IF Strategy(V, r) = "task-parallel" THEN Queues(c, r.items)
                        ELSE [n \in {c.nodes[1]} |-> {1}]]
    BY <1>3, Zenon
  <2>2. o.strategy = Strategy(V, r) /\ o.request = r /\ o.cluster = c
        /\ (Strategy(V, r) = "task-parallel" => o.queues = Queues(c, r.items))
    BY <2>1
  <2>3. Fewest(o, V) /\ Fits(o, V)
    BY <1>1, <2>2 DEF Fewest, Fits
  <2>4. ASSUME Strategy(V, r) = "task-parallel" PROVE Once(o, V)
    <3>1. Ready(V) # {}
      <4>1. r.kind = "batch" /\ ~(Cardinality(Ready(V)) < 2)
        BY <2>4 DEF Strategy, Request
      <4> SUFFICES ASSUME Ready(V) = {} PROVE FALSE
        OBVIOUS
      <4>2. Cardinality({}) = 0
        BY FS_EmptySet
      <4> QED BY <4>1, <4>2
    <3>2. Distinct(c.nodes, Ready(V)) /\ \A n \in ToSet(c.nodes) : c.weight[n] \in Nat \ {0}
      BY <3>1, ClusterFine DEF Fine
    <3> DEFINE q == Queues(c, r.items)
    <3>3. r.items \in Nat
      BY DEF Request
    <3>4. /\ DOMAIN q \subseteq Ready(V) /\ Cardinality(DOMAIN q) = Len(c.nodes)
          /\ UNION {q[n] : n \in DOMAIN q} = 1..r.items
          /\ \A m, n \in DOMAIN q : m # n => q[m] \cap q[n] = {}
          /\ \A n \in DOMAIN q : Cardinality(q[n]) - Whole(c, r.items, n) \in {0, 1}
      <4>1. Deals(q, c, r.items, Ready(V))
        BY <1>3, <3>2, <3>3, Zenon DEF Deals
      <4> HIDE DEF q
      <4> QED BY <4>1, QueuesCover
    <3> HIDE DEF q
    <3>5. o.queues = q /\ o.cluster = c /\ o.request.items = r.items
      BY <2>2, <2>4 DEF q
    <3> QED BY <3>4, <3>5 DEF Once
  <2>5. Strategy(V, r) # "task-parallel" => Once(o, V)
    BY <2>2 DEF Once
  <2> QED BY <2>3, <2>4, <2>5
<1> QED BY <1>2, <1>3

-----------------------------------------------------------------------------
(* The specification.                                                        *)

Reported == views \in [Nodes -> Readings] /\ cursor \in Nat

\* What the nodes report is known of finitely many.
LEMMA ViewsKnown == ASSUME Reported PROVE Known(views)
<1>1. DOMAIN views = Nodes /\ views \in [DOMAIN views -> View]
  BY PlanningAssumption DEF Reported
<1> QED BY <1>1, PlanningAssumption DEF Known

Planned == Reported /\ FewestMembers /\ AssignmentFits /\ EveryItemOnce

\* Each outcome is right when it is made, and a report forgets it.
LEMMA PlannedHolds == PlanningSpec => []Planned
<1>1. PlanningInit => Planned
  <2> SUFFICES ASSUME PlanningInit PROVE Planned
    OBVIOUS
  <2>1. outcome.strategy = "none" /\ Reported
    BY DEF PlanningInit, Reported
  <2>2. Fewest(outcome, views) /\ Fits(outcome, views) /\ Once(outcome, views)
    BY <2>1 DEF Fewest, Fits, Once
  <2> QED BY <2>1, <2>2, OutcomeIs DEF Planned
<1>2. Planned /\ [PlanningNext]_planningVars => Planned'
  <2> SUFFICES ASSUME Planned, [PlanningNext]_planningVars PROVE Planned'
    OBVIOUS
  <2>0. (Fewest(outcome, views) /\ Fits(outcome, views) /\ Once(outcome, views))' /\ Reported' => Planned'
    <3>1. /\ FewestMembers' <=> Fewest(outcome, views)'
          /\ AssignmentFits' <=> Fits(outcome, views)'
          /\ EveryItemOnce' <=> Once(outcome, views)'
      BY OutcomeIs, PTL
    <3> QED BY <3>1 DEF Planned
  <2>1. Reported /\ Known(views)
    BY ViewsKnown DEF Planned
  <2>2. ASSUME NEW n \in Nodes, NEW v \in Readings, views' = [views EXCEPT ![n] = v],
               outcome' = [strategy |-> "none"], cursor' = cursor
        PROVE  Planned'
    <3>1. outcome'.strategy = "none" /\ Reported'
      BY <2>1, <2>2 DEF Reported
    <3>2. (Fewest(outcome, views) /\ Fits(outcome, views) /\ Once(outcome, views))'
      BY <3>1 DEF Fewest, Fits, Once
    <3> QED BY <2>0, <3>1, <3>2
  <2>3. ASSUME NEW r \in Requests, SubmitSplit(r) PROVE Planned'
    <3>1. /\ Strategy(views, r) = "model-parallel" /\ views' = views /\ cursor' = cursor
          /\ outcome' = [strategy |-> "model-parallel", request |-> r, plan |-> PlanPipeline(views),
                         queues |-> [n \in {PlanPipeline(views).head} |-> {1}]]
      BY <2>3 DEF SubmitSplit
    <3>2. r \in Request /\ Reported'
      BY <2>1, <3>1, PlanningAssumption DEF Reported
    <3>3. Fewest(outcome', views) /\ Fits(outcome', views) /\ Once(outcome', views)
      BY <2>1, <3>1, <3>2, SplitPlanned
    <3>4. (Fewest(outcome, views) /\ Fits(outcome, views) /\ Once(outcome, views))'
      BY <3>1, <3>3
    <3> QED BY <2>0, <3>2, <3>4
  <2>4. ASSUME NEW r \in Requests, SubmitCluster(r) PROVE Planned'
    <3> DEFINE c == FormCluster(views, r, cursor)
    <3>1. /\ Strategy(views, r) # "model-parallel" /\ views' = views /\ cursor' = (cursor + 1) % Period
          /\ outcome' = IF c.nodes = <<>> THEN [strategy |-> "failed", request |-> r, warming |-> Warmable(views)]
                        ELSE [strategy |-> Strategy(views, r), request |-> r, cluster |-> c,
                              queues |-> IF Strategy(views, r) = "task-parallel" THEN Queues(c, r.items)
                                         ELSE [n \in {c.nodes[1]} |-> {1}]]
      BY <2>4, Zenon DEF SubmitCluster
    <3>2. cursor \in Nat /\ (cursor + 1) % Period \in Nat
      BY <2>1, PlanningAssumption, SMTT(30) DEF Reported
    <3>3. r \in Request /\ Reported'
      BY <2>1, <3>1, <3>2, PlanningAssumption DEF Reported
    <3>4. Fewest(outcome', views) /\ Fits(outcome', views) /\ Once(outcome', views)
      BY <2>1, <3>1, <3>2, <3>3, ClusterPlanned
    <3>5. (Fewest(outcome, views) /\ Fits(outcome, views) /\ Once(outcome, views))'
      BY <3>1, <3>4
    <3> QED BY <2>0, <3>3, <3>5
  <2>5. CASE UNCHANGED planningVars
    <3>1. outcome' = outcome /\ views' = views /\ cursor' = cursor
      BY <2>5 DEF planningVars
    <3>2. (Fewest(outcome, views) /\ Fits(outcome, views) /\ Once(outcome, views))'
      BY <3>1, OutcomeIs DEF Planned
    <3>3. Reported'
      BY <2>1, <3>1 DEF Reported
    <3> QED BY <2>0, <3>2, <3>3
  <2> QED BY <2>2, <2>3, <2>4, <2>5 DEF PlanningNext, Report
<1> QED BY <1>1, <1>2, PTL DEF PlanningSpec

\* A chat that no node can take alone is split whenever few enough nodes can hold the
\* model, and over the fewest that can, for any nodes and whatever they report: the
\* greedy choice of pipeline.ts planPipeline is an optimal one.
THEOREM SplitsOverTheFewest == PlanningSpec => []FewestMembers
BY PlannedHolds, PTL DEF Planned

\* No member of a pipeline is assigned more than its owner offers, and the assignments
\* add up to the model up to half a megabyte for each member: Math.round of a share,
\* for any nodes, offers and model (pipeline.ts assignedMB).
THEOREM AssignsWhatIsOffered == PlanningSpec => []AssignmentFits
BY PlannedHolds, PTL DEF Planned

\* A batch that is spread hands out every item exactly once, to nodes that can start,
\* each within one item of its share, under every policy, for any nodes, scores and
\* number of items (scheduler.ts formCluster; jobs.ts allocateByShare, buildTasks).
THEOREM DealsEveryItemOnce == PlanningSpec => []EveryItemOnce
BY PlannedHolds, PTL DEF Planned
=============================================================================
