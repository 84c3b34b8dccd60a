------------------------- MODULE TaskHandoff_proofs -------------------------
(* Proofs about TaskHandoff, for any nodes, tasks and number of attempts. *)
EXTENDS TaskHandoff, TLAPS

USE HandoffAssumption

\* Only the assign channels of chosen nodes grow, by the tasks chosen for them.
LEMMA SentChannel ==
  ASSUME NEW channel \in [Nodes -> SUBSET Tasks], NEW D \in SUBSET Tasks,
         NEW g \in [D -> Nodes]
  PROVE  /\ Sent(channel, D, g) \in [Nodes -> SUBSET Tasks]
         /\ \A n \in Nodes, t \in Tasks :
              t \in Sent(channel, D, g)[n] <=> t \in channel[n] \/ (t \in D /\ g[t] = n)
  BY DEF Sent

\* requeue leaves phases, and only released tasks change theirs.
LEMMA ReleasePhases ==
  ASSUME TypeOK, NEW ts \in SUBSET Tasks, NEW F \in SUBSET Tasks, GivesUp(ts, F)
  PROVE  /\ Release(ts, F) \in [Tasks -> Phases]
         /\ \A t \in Tasks \ ts : Release(ts, F)[t] = phase[t]
         /\ \A t \in ts : /\ Release(ts, F)[t] \in {"waiting", "failed"}
                          /\ Release(ts, F)[t] = "waiting" => attempts[t] < MaxTaskAttempts
  BY DEF TypeOK, Release, GivesUp, Phases

LEMMA Initially == Init => IInv
  BY DEF Init, IInv, TypeOK, Phases, LedgerRight, OnePlace, NoneStranded, InHands,
         WorksOn, WaitingMayRetry, AttemptsCapped, InPhase

-----------------------------------------------------------------------------
(* A handler first changes phases and channels, then hands tasks out.        *)
(* Consistent is what the first half owes the second: the invariant, of the  *)
(* phases p, the assign channel a and the registry reg in between.           *)

Between(a, n) == a[n] \cup working'[n] \cup done'[n] \cup returned'[n]
Consistent(p, a, reg) ==
  /\ \A n \in Nodes : \A t \in Between(a, n) : p[t] = "held" /\ holder[t] = n
  /\ \A t \in Tasks : p[t] = "held" => holder[t] \in reg /\ t \in Between(a, holder[t])
  /\ \A t \in Tasks : p[t] = "waiting" => attempts[t] < MaxTaskAttempts
  /\ \A n \in Nodes :
       /\ a[n] \cap working'[n] = {} /\ a[n] \cap done'[n] = {}
       /\ a[n] \cap returned'[n] = {} /\ working'[n] \cap done'[n] = {}
       /\ working'[n] \cap returned'[n] = {} /\ done'[n] \cap returned'[n] = {}

LEMMA HandOutPreserves ==
  ASSUME IInv, NEW p \in [Tasks -> Phases], NEW a \in [Nodes -> SUBSET Tasks],
         registered' \in SUBSET Nodes,
         working' \in [Nodes -> SUBSET Tasks], done' \in [Nodes -> SUBSET Tasks],
         returned' \in [Nodes -> SUBSET Tasks],
         NEW D \in SUBSET Tasks, NEW g \in [D -> Nodes],
         \A t \in D : g[t] \in registered',
         Consistent(p, a, registered'), HandOut(p, D, g), assigned' = Sent(a, D, g)
  PROVE  IInv'
<1>1. /\ phase' \in [Tasks -> Phases]
      /\ holder' \in [Tasks -> Nodes \cup {None}]
      /\ attempts' \in [Tasks -> Nat]
      /\ \A t \in D : /\ p[t] = "waiting" /\ phase'[t] = "held"
                      /\ holder'[t] = g[t] /\ attempts'[t] = attempts[t] + 1
      /\ \A t \in Tasks \ D : /\ phase'[t] = p[t] /\ attempts'[t] = attempts[t]
                              /\ p[t] = "held" => holder'[t] = holder[t]
  <2>1. TypeOK
    BY DEF IInv
  <2> QED BY <2>1 DEF TypeOK, HandOut, Phases
<1>2. /\ assigned' \in [Nodes -> SUBSET Tasks]
      /\ \A n \in Nodes, t \in Tasks : t \in assigned'[n] <=> t \in a[n] \/ (t \in D /\ g[t] = n)
  BY SentChannel
<1>3. TypeOK'
  BY <1>1, <1>2 DEF TypeOK
\* What is in someone's hands was there before the hand-out, or is of D.
<1>4. \A n \in Nodes, t \in Tasks :
        InHands(n, t)' <=> t \in Between(a, n) \/ (t \in D /\ g[t] = n)
  BY <1>2 DEF InHands, WorksOn, Between
<1>5. LedgerRight'
  <2> SUFFICES ASSUME NEW n \in Nodes, NEW t \in Tasks, InHands(n, t)'
               PROVE  phase'[t] = "held" /\ holder'[t] = n
    BY DEF LedgerRight
  <2>1. CASE t \in D /\ g[t] = n
    BY <1>1, <2>1
  <2>2. CASE t \in Between(a, n)
    <3>1. p[t] = "held" /\ holder[t] = n
      BY <2>2 DEF Consistent
    <3> QED BY <3>1, <1>1
  <2> QED BY <1>4, <2>1, <2>2
<1>6. NoneStranded'
  <2> SUFFICES ASSUME NEW t \in Tasks, phase'[t] = "held"
               PROVE  (holder[t] \in registered /\ InHands(holder[t], t))'
    BY DEF NoneStranded, InPhase
  <2>1. CASE t \in D
    <3>1. holder'[t] = g[t] /\ g[t] \in registered' /\ g[t] \in Nodes
      BY <1>1, <2>1
    <3>2. InHands(g[t], t)'
      BY <3>1, <1>4, <2>1
    <3> QED BY <3>1, <3>2
  <2>2. CASE t \notin D
    <3>1. p[t] = "held" /\ holder'[t] = holder[t]
      BY <1>1, <2>2
    <3>2. holder[t] \in registered' /\ t \in Between(a, holder[t])
      BY <3>1 DEF Consistent
    <3> QED BY <3>1, <3>2, <1>4
  <2> QED BY <2>1, <2>2
<1>7. OnePlace'
  <2> SUFFICES ASSUME NEW n \in Nodes, NEW t \in Tasks, t \in assigned'[n]
               PROVE  t \notin working'[n] \cup done'[n] \cup returned'[n]
    BY <1>3 DEF OnePlace, Consistent, TypeOK
  <2>1. CASE t \in a[n]
    BY <2>1 DEF Consistent
  <2>2. CASE t \in D
    \* A task of D was waiting, so nobody had it.
    BY <2>2, <1>1 DEF Consistent, Between
  <2> QED BY <1>2, <2>1, <2>2
<1>8. WaitingMayRetry'
  BY <1>1 DEF WaitingMayRetry, InPhase, Consistent
<1>9. AttemptsCapped'
  <2> SUFFICES ASSUME NEW t \in Tasks PROVE attempts'[t] <= MaxTaskAttempts
    BY DEF AttemptsCapped
  <2>1. attempts[t] \in Nat /\ attempts[t] <= MaxTaskAttempts
    BY DEF IInv, TypeOK, AttemptsCapped
  <2>2. CASE t \in D
    <3>1. attempts[t] < MaxTaskAttempts
      BY <2>2, <1>1 DEF Consistent
    <3> QED BY <3>1, <2>1, <2>2, <1>1
  <2>3. CASE t \notin D
    BY <2>3, <2>1, <1>1
  <2> QED BY <2>2, <2>3
<1> QED BY <1>3, <1>5, <1>6, <1>7, <1>8, <1>9 DEF IInv

-----------------------------------------------------------------------------
(* Every step preserves the invariant: first the handlers of the             *)
(* coordinator, then the workers.                                            *)

LEMMA CoordinatorSteps ==
  ASSUME IInv, NEW D \in SUBSET Tasks, NEW g \in [D -> registered],
         CoordinatorStep(D, g)
  PROVE  IInv'
<1>1. TypeOK /\ LedgerRight /\ OnePlace /\ NoneStranded /\ WaitingMayRetry
  BY DEF IInv
<1>2. g \in [D -> Nodes] /\ \A x \in D : g[x] \in registered
  BY <1>1 DEF TypeOK
<1>3. CASE Dispatch(D, g)
  <2>1. Consistent(phase, assigned, registered')
    BY <1>1, <1>3 DEF Consistent, Between, Dispatch, TypeOK, LedgerRight, OnePlace,
       NoneStranded, WaitingMayRetry, InHands, WorksOn, InPhase
  <2> QED
    BY <1>1, <1>2, <1>3, <2>1, HandOutPreserves DEF Dispatch, TypeOK
<1>4. ASSUME NEW n \in Nodes, NEW t \in Tasks, OnTaskCompleted(n, t, D, g) PROVE IInv'
  <2> DEFINE p == [phase EXCEPT ![t] = "answered"]
  <2>1. p \in [Tasks -> Phases]
    BY <1>1 DEF TypeOK, Phases
  \* The answer is read from done[n], so n held t and it is nowhere else.
  <2>2. Consistent(p, assigned, registered')
    BY <1>1, <1>4 DEF Consistent, Between, OnTaskCompleted, TypeOK, LedgerRight, OnePlace,
       NoneStranded, WaitingMayRetry, InHands, WorksOn, InPhase
  <2> QED
    BY <1>1, <1>2, <1>4, <2>1, <2>2, HandOutPreserves DEF OnTaskCompleted, TypeOK
<1>5. ASSUME NEW n \in Nodes, NEW t \in Tasks, NEW F \in SUBSET Tasks,
             OnTaskReturned(n, t, F, D, g)
      PROVE  IInv'
  <2> DEFINE p == Release({t}, F)
  <2>1. /\ p \in [Tasks -> Phases]
        /\ \A x \in Tasks \ {t} : p[x] = phase[x]
        /\ p[t] \in {"waiting", "failed"}
        /\ p[t] = "waiting" => attempts[t] < MaxTaskAttempts
    BY <1>1, <1>5, ReleasePhases DEF OnTaskReturned
  <2> HIDE DEF p
  <2>2. Consistent(p, assigned, registered')
    BY <1>1, <1>5, <2>1 DEF Consistent, Between, OnTaskReturned, TypeOK, LedgerRight,
       OnePlace, NoneStranded, WaitingMayRetry, InHands, WorksOn, InPhase
  <2> QED
    BY <1>1, <1>2, <1>5, <2>1, <2>2, HandOutPreserves DEF OnTaskReturned, TypeOK, p
<1>6. ASSUME NEW n \in Nodes, NEW F \in SUBSET Tasks, OnNodeLost(n, F, D, g) PROVE IInv'
  <2> DEFINE back == HeldBy(n) \cup InPhase("waiting")
             p == Release(back, F)
             a == [assigned EXCEPT ![n] = {}]
  <2>1. /\ p \in [Tasks -> Phases]
        /\ \A x \in Tasks \ back : p[x] = phase[x]
        /\ \A x \in back : /\ p[x] \in {"waiting", "failed"}
                           /\ p[x] = "waiting" => attempts[x] < MaxTaskAttempts
    <3>1. back \in SUBSET Tasks /\ GivesUp(back, F)
      BY <1>6 DEF OnNodeLost, HeldBy, InPhase
    <3> QED BY <1>1, <3>1, ReleasePhases
  <2> HIDE DEF p
  <2>2. /\ a \in [Nodes -> SUBSET Tasks]
        /\ \A m \in Nodes \ {n} : Between(a, m) = assigned[m] \cup working[m] \cup done[m] \cup returned[m]
        /\ Between(a, n) = {}
    BY <1>1, <1>6 DEF OnNodeLost, TypeOK, Between
  <2> HIDE DEF a
  <2>3. \A m \in Nodes \ {n} : \A x \in Between(a, m) : x \notin back /\ holder[x] = m
    BY <1>1, <2>2 DEF LedgerRight, InHands, WorksOn, HeldBy, InPhase, TypeOK
  <2>4. Consistent(p, a, registered')
    <3>1. \A m \in Nodes : \A x \in Between(a, m) : p[x] = "held" /\ holder[x] = m
      <4> SUFFICES ASSUME NEW m \in Nodes \ {n}, NEW x \in Between(a, m)
                   PROVE  p[x] = "held" /\ holder[x] = m
        BY <2>2
      <4>1. x \in Tasks \ back /\ holder[x] = m
        BY <1>1, <2>2, <2>3 DEF TypeOK
      <4>2. phase[x] = "held"
        BY <1>1, <2>2, <4>1 DEF LedgerRight, InHands, WorksOn
      <4> QED BY <2>1, <4>1, <4>2
    <3>2. \A x \in Tasks : p[x] = "held" => holder[x] \in registered' /\ x \in Between(a, holder[x])
      <4> SUFFICES ASSUME NEW x \in Tasks, p[x] = "held"
                   PROVE  holder[x] \in registered' /\ x \in Between(a, holder[x])
        OBVIOUS
      <4>1. x \notin back /\ phase[x] = "held"
        <5>1. x \notin back
          BY <2>1
        <5> QED BY <2>1, <5>1
      <4>2. holder[x] # n /\ holder[x] \in registered /\ InHands(holder[x], x)
        BY <1>1, <4>1 DEF NoneStranded, InPhase, HeldBy
      <4> QED BY <1>1, <1>6, <2>2, <4>2 DEF OnNodeLost, InHands, WorksOn, TypeOK
    <3>3. \A x \in Tasks : p[x] = "waiting" => attempts[x] < MaxTaskAttempts
      BY <1>1, <2>1 DEF WaitingMayRetry, InPhase
    <3>4. \A m \in Nodes :
            /\ a[m] \cap working'[m] = {} /\ a[m] \cap done'[m] = {}
            /\ a[m] \cap returned'[m] = {} /\ working'[m] \cap done'[m] = {}
            /\ working'[m] \cap returned'[m] = {} /\ done'[m] \cap returned'[m] = {}
      BY <1>1, <1>6 DEF OnNodeLost, OnePlace, TypeOK, a
    <3> QED BY <3>1, <3>2, <3>3, <3>4 DEF Consistent
  <2>5. \A x \in D : g[x] \in registered'
    BY <1>2, <1>6 DEF OnNodeLost
  <2> QED
    BY <1>1, <1>2, <1>6, <2>1, <2>2, <2>4, <2>5, HandOutPreserves DEF OnNodeLost, TypeOK, p, a
<1> QED BY <1>3, <1>4, <1>5, <1>6 DEF CoordinatorStep

LEMMA WorkerSteps ==
  ASSUME IInv, NEW n \in Nodes, NEW t \in Tasks,
         Accept(n, t) \/ Reject(n, t) \/ Complete(n, t) \/ FailTask(n, t)
  PROVE  IInv'
<1> USE DEF IInv, TypeOK, LedgerRight, OnePlace, NoneStranded, WaitingMayRetry,
            AttemptsCapped, InHands, WorksOn, InPhase, ledger
<1>1. CASE Accept(n, t)
  BY <1>1 DEF Accept
<1>2. CASE Reject(n, t)
  BY <1>2 DEF Reject
<1>3. CASE Complete(n, t)
  BY <1>3 DEF Complete
<1>4. CASE FailTask(n, t)
  BY <1>4 DEF FailTask
<1> QED BY <1>1, <1>2, <1>3, <1>4

LEMMA Inductive == IInv /\ [Next]_vars => IInv'
<1> SUFFICES ASSUME IInv, [Next]_vars PROVE IInv'
  OBVIOUS
<1>1. CASE Coordinate
  BY <1>1, CoordinatorSteps DEF Coordinate
<1>2. CASE Work
  BY <1>2, WorkerSteps DEF Work
<1>3. CASE \E n \in Nodes : Register(n)
  BY <1>3 DEF Register, ledger, IInv, TypeOK, LedgerRight, OnePlace, NoneStranded,
     WaitingMayRetry, AttemptsCapped, InHands, WorksOn, InPhase
<1>4. CASE UNCHANGED vars
  BY <1>4 DEF vars, IInv, TypeOK, LedgerRight, OnePlace, NoneStranded,
     WaitingMayRetry, AttemptsCapped, InHands, WorksOn, InPhase
<1> QED BY <1>1, <1>2, <1>3, <1>4 DEF Next

\* The ledger, the sockets and the workers always agree.
THEOREM Invariance == Spec => []IInv
BY Initially, Inductive, PTL DEF Spec

-----------------------------------------------------------------------------
(* What the invariant gives.                                                 *)

\* Every variable keeps its type, whatever the coordinator decides.
THEOREM TypeCorrect == Spec => []TypeOK
<1>1. IInv => TypeOK
  BY DEF IInv
<1> QED BY Invariance, <1>1, PTL

\* A task is never with two workers, in any order of refusals, failures, node
\* losses and hand-outs: what someone has, the ledger knows that one to hold.
THEOREM OneWorker == Spec => []HandedToOneNode
<1>1. IInv => HandedToOneNode
  BY DEF IInv, LedgerRight, HandedToOneNode, InHands
<1> QED BY Invariance, <1>1, PTL

\* A task that is handed out is with its holder, or the verdict is on its way.
THEOREM NothingStranded == Spec => []NoneStranded
<1>1. IInv => NoneStranded
  BY DEF IInv
<1> QED BY Invariance, <1>1, PTL

\* No task is handed out more often than config.maxTaskAttempts allows.
THEOREM RetriesCapped == Spec => []AttemptsCapped
<1>1. IInv => AttemptsCapped
  BY DEF IInv
<1> QED BY Invariance, <1>1, PTL

\* An answer is never taken back: whoever could fail the task, or be lost with
\* it, no longer has it when its answer is read.
THEOREM AnswersKept == Spec => AnswersFinal
<1>1. IInv /\ [Next]_vars => [InPhase("answered") \subseteq InPhase("answered")']_vars
  <2> SUFFICES ASSUME IInv, Next, NEW x \in InPhase("answered")
               PROVE  x \in InPhase("answered")'
    BY DEF vars
  <2>1. x \in Tasks /\ phase[x] = "answered"
    BY DEF InPhase
  <2>2. \A n \in Nodes : ~InHands(n, x)
    BY <2>1 DEF IInv, LedgerRight
  <2>3. CASE Work \/ \E n \in Nodes : Register(n)
    BY <2>1, <2>3 DEF Work, Accept, Reject, Complete, FailTask, Register, ledger, InPhase
  <2>4. CASE Coordinate
    <3>1. PICK D \in SUBSET Tasks : \E g \in [D -> registered] : CoordinatorStep(D, g)
      BY <2>4 DEF Coordinate
    <3>2. PICK g \in [D -> registered] : CoordinatorStep(D, g)
      BY <3>1
    <3>3. ASSUME NEW p \in [Tasks -> Phases], p[x] = "answered", HandOut(p, D, g)
          PROVE  phase'[x] = "answered"
      BY <2>1, <3>3 DEF HandOut
    <3>4. CASE Dispatch(D, g)
      BY <2>1, <3>3, <3>4 DEF Dispatch, IInv, TypeOK, InPhase
    <3>5. CASE \E n \in Nodes, t \in Tasks : OnTaskCompleted(n, t, D, g)
      <4>1. PICK n \in Nodes, t \in Tasks : OnTaskCompleted(n, t, D, g)
        BY <3>5
      <4>2. [phase EXCEPT ![t] = "answered"] \in [Tasks -> Phases]
        BY DEF IInv, TypeOK, Phases
      <4> QED BY <2>1, <3>3, <4>1, <4>2 DEF OnTaskCompleted, IInv, TypeOK, InPhase
    <3>6. CASE \E n \in Nodes, t \in Tasks, F \in SUBSET Tasks : OnTaskReturned(n, t, F, D, g)
      <4>1. PICK n \in Nodes, t \in Tasks, F \in SUBSET Tasks : OnTaskReturned(n, t, F, D, g)
        BY <3>6
      <4>2. x # t
        BY <2>2, <4>1 DEF OnTaskReturned, InHands
      <4>3. /\ Release({t}, F) \in [Tasks -> Phases]
            /\ Release({t}, F)[x] = "answered"
        BY <2>1, <4>1, <4>2, ReleasePhases DEF OnTaskReturned, IInv
      <4> QED BY <2>1, <3>3, <4>1, <4>3 DEF OnTaskReturned, InPhase
    <3>7. CASE \E n \in Nodes, F \in SUBSET Tasks : OnNodeLost(n, F, D, g)
      <4>1. PICK n \in Nodes, F \in SUBSET Tasks : OnNodeLost(n, F, D, g)
        BY <3>7
      <4> DEFINE back == HeldBy(n) \cup InPhase("waiting")
      <4>2. back \in SUBSET Tasks /\ x \notin back /\ GivesUp(back, F)
        BY <2>1, <4>1 DEF OnNodeLost, HeldBy, InPhase
      <4>3. /\ Release(back, F) \in [Tasks -> Phases]
            /\ Release(back, F)[x] = "answered"
        BY <2>1, <4>2, ReleasePhases DEF IInv
      <4> QED BY <2>1, <3>3, <4>1, <4>3 DEF OnNodeLost, InPhase
    <3> QED BY <3>2, <3>4, <3>5, <3>6, <3>7 DEF CoordinatorStep
  <2> QED BY <2>3, <2>4 DEF Next
<1> QED BY Invariance, <1>1, PTL DEF Spec, AnswersFinal

=============================================================================
