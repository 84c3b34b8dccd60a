----------------------------- MODULE TaskHandoff -----------------------------
(***************************************************************************)
(* What the coordinator promises about a task once it leaves a queue: the  *)
(* hand-out of tasks to workers over their sockets, and what the ledger of *)
(* the coordinator says about it.  Which tasks are handed out, to whom and *)
(* when is left open; the job manager's queues, pumps and plans decide it  *)
(* (module JobManager, which implements this specification).               *)
(*                                                                         *)
(* A worker that is lost is lost with its socket: what it had received,    *)
(* worked on or answered but not delivered is gone.                        *)
(***************************************************************************)
EXTENDS Integers, FiniteSets

CONSTANTS Nodes, Tasks, MaxTaskAttempts, None

ASSUME HandoffAssumption ==
  /\ MaxTaskAttempts \in Nat \ {0}
  /\ None \notin Nodes

VARIABLES
  phase, holder, attempts,   \* the ledger: ManagedTask status, nodeId, attempts
  registered,                \* nodes of the registry
  assigned,                  \* task:assign messages a worker has not read
  working,                   \* WorkerScheduler.running
  done,                      \* task:completed messages not read by the coordinator
  returned                   \* task:rejected and task:failed messages not read

ledger == <<phase, holder, attempts>>
vars == <<phase, holder, attempts, registered, assigned, working, done, returned>>

Phases == {"waiting", "held", "answered", "failed"}
InPhase(p) == {t \in Tasks : phase[t] = p}
HeldBy_AnyNode(n) == InPhase("held")
HeldBy_None(n) == {}
HeldBy(n) == {t \in InPhase("held") : holder[t] = n}

\* requeue: every task of ts is back in the pool, except the set F given up on.
\* A task whose attempts are used up is always given up.
GivesUp_Never(ts, F) == F \subseteq ts
GivesUp(ts, F) == F \subseteq ts /\ \A t \in ts \ F : attempts[t] < MaxTaskAttempts
Release(ts, F) ==
  [t \in Tasks |-> IF t \in F THEN "failed" ELSE IF t \in ts THEN "waiting" ELSE phase[t]]

\* pump and dispatch, when the phases are p: the waiting tasks D go to nodes g.
HandOut(p, D, g) ==
  /\ D \subseteq {t \in Tasks : p[t] = "waiting"}
  /\ phase' = [t \in Tasks |-> IF t \in D THEN "held" ELSE p[t]]
  /\ holder' = [t \in Tasks |-> IF t \in D THEN g[t]
                                ELSE IF p[t] = "held" THEN holder[t] ELSE None]
  /\ attempts' = [t \in Tasks |-> IF t \in D THEN attempts[t] + 1 ELSE attempts[t]]
Sent(channel, D, g) == [n \in Nodes |-> channel[n] \cup {t \in D : g[t] = n}]

-----------------------------------------------------------------------------
(* The coordinator.  g ranges over the choices of a registered node for      *)
(* each task handed out.                                                     *)

Dispatch(D, g) ==
  /\ HandOut(phase, D, g)
  /\ assigned' = Sent(assigned, D, g)
  /\ UNCHANGED <<registered, working, done, returned>>

OnTaskCompleted(n, t, D, g) ==
  /\ t \in done[n]
  /\ HandOut([phase EXCEPT ![t] = "answered"], D, g)
  /\ assigned' = Sent(assigned, D, g)
  /\ done' = [done EXCEPT ![n] = @ \ {t}]
  /\ UNCHANGED <<registered, working, returned>>

\* onTaskRejected and onTaskFailed.
OnTaskReturned(n, t, F, D, g) ==
  /\ t \in returned[n] /\ GivesUp({t}, F)
  /\ HandOut(Release({t}, F), D, g)
  /\ assigned' = Sent(assigned, D, g)
  /\ returned' = [returned EXCEPT ![n] = @ \ {t}]
  /\ UNCHANGED <<registered, working, done>>

\* onNodeLost reclaims what n held and re-plans what waited in its queue.
OnNodeLost(n, F, D, g) ==
  /\ n \in registered /\ \A t \in D : g[t] # n
  /\ GivesUp(HeldBy(n) \cup InPhase("waiting"), F)
  /\ HandOut(Release(HeldBy(n) \cup InPhase("waiting"), F), D, g)
  /\ registered' = registered \ {n}
  /\ assigned' = Sent([assigned EXCEPT ![n] = {}], D, g)
  /\ working' = [working EXCEPT ![n] = {}]
  /\ done' = [done EXCEPT ![n] = {}]
  /\ returned' = [returned EXCEPT ![n] = {}]

Register(n) ==
  /\ registered' = registered \cup {n}
  /\ UNCHANGED <<ledger, assigned, working, done, returned>>

-----------------------------------------------------------------------------
(* The workers.                                                            *)

Accept(n, t) ==
  /\ t \in assigned[n]
  /\ assigned' = [assigned EXCEPT ![n] = @ \ {t}]
  /\ working' = [working EXCEPT ![n] = @ \cup {t}]
  /\ UNCHANGED <<ledger, registered, done, returned>>

Reject(n, t) ==
  /\ t \in assigned[n]
  /\ assigned' = [assigned EXCEPT ![n] = @ \ {t}]
  /\ returned' = [returned EXCEPT ![n] = @ \cup {t}]
  /\ UNCHANGED <<ledger, registered, working, done>>

Complete(n, t) ==
  /\ t \in working[n]
  /\ working' = [working EXCEPT ![n] = @ \ {t}]
  /\ done' = [done EXCEPT ![n] = @ \cup {t}]
  /\ UNCHANGED <<ledger, registered, assigned, returned>>

FailTask(n, t) ==
  /\ t \in working[n]
  /\ working' = [working EXCEPT ![n] = @ \ {t}]
  /\ returned' = [returned EXCEPT ![n] = @ \cup {t}]
  /\ UNCHANGED <<ledger, registered, assigned, done>>

-----------------------------------------------------------------------------
Init ==
  /\ phase = [t \in Tasks |-> "waiting"]
  /\ holder = [t \in Tasks |-> None]
  /\ attempts = [t \in Tasks |-> 0]
  /\ registered = {}
  /\ assigned = [n \in Nodes |-> {}] /\ working = [n \in Nodes |-> {}]
  /\ done = [n \in Nodes |-> {}] /\ returned = [n \in Nodes |-> {}]

CoordinatorStep(D, g) ==
  \/ Dispatch(D, g)
  \/ \E n \in Nodes, t \in Tasks : OnTaskCompleted(n, t, D, g)
  \/ \E n \in Nodes, t \in Tasks, F \in SUBSET Tasks : OnTaskReturned(n, t, F, D, g)
  \/ \E n \in Nodes, F \in SUBSET Tasks : OnNodeLost(n, F, D, g)

Coordinate == \E D \in SUBSET Tasks : \E g \in [D -> registered] : CoordinatorStep(D, g)

Work ==
  \E n \in Nodes, t \in Tasks :
    Accept(n, t) \/ Reject(n, t) \/ Complete(n, t) \/ FailTask(n, t)

Next == Coordinate \/ Work \/ \E n \in Nodes : Register(n)

Spec == Init /\ [][Next]_vars

-----------------------------------------------------------------------------
(* Properties *)

TypeOK ==
  /\ phase \in [Tasks -> Phases]
  /\ holder \in [Tasks -> Nodes \cup {None}]
  /\ attempts \in [Tasks -> Nat]
  /\ registered \subseteq Nodes
  /\ assigned \in [Nodes -> SUBSET Tasks] /\ working \in [Nodes -> SUBSET Tasks]
  /\ done \in [Nodes -> SUBSET Tasks] /\ returned \in [Nodes -> SUBSET Tasks]

WorksOn(n, t) == t \in assigned[n] \cup working[n]
InHands(n, t) == WorksOn(n, t) \/ t \in done[n] \cup returned[n]

\* A task is never with two workers: no order of rejections, failures, node
\* losses and hand-outs gives it to a second while a first has it.
HandedToOneNode ==
  \A t \in Tasks : \A m, n \in Nodes : WorksOn(m, t) /\ WorksOn(n, t) => m = n

\* A task the ledger believes handed out is with its holder, or the holder's
\* verdict is on its way: no task waits for an answer that nobody will give.
NoneStranded == \A t \in InPhase("held") : holder[t] \in registered /\ InHands(holder[t], t)

\* Retries are capped.
AttemptsCapped == \A t \in Tasks : attempts[t] <= MaxTaskAttempts

\* An answered task stays answered: it is never handed out again, and no late
\* failure or node loss takes the answer back.
AnswersFinal == [][InPhase("answered") \subseteq InPhase("answered")']_vars

-----------------------------------------------------------------------------
(* The inductive invariant.  The hand-out is safe because the ledger is      *)
(* right about every task in someone's hands, and because a task is in one   *)
(* place there: a verdict read for it is the last that worker gives.         *)

LedgerRight ==
  \A n \in Nodes, t \in Tasks : InHands(n, t) => phase[t] = "held" /\ holder[t] = n
OnePlace ==
  \A n \in Nodes :
    /\ assigned[n] \cap working[n] = {} /\ assigned[n] \cap done[n] = {}
    /\ assigned[n] \cap returned[n] = {} /\ working[n] \cap done[n] = {}
    /\ working[n] \cap returned[n] = {} /\ done[n] \cap returned[n] = {}
WaitingMayRetry == \A t \in InPhase("waiting") : attempts[t] < MaxTaskAttempts

IInv ==
  /\ TypeOK /\ LedgerRight /\ OnePlace /\ NoneStranded
  /\ WaitingMayRetry /\ AttemptsCapped

=============================================================================
