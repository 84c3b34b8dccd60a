--------------------------- MODULE ClientView_proofs ---------------------------
(***************************************************************************)
(* The page has exactly one line to the coordinator, for any number of     *)
(* sockets, prompts, hosts, settings and troubles.                         *)
(***************************************************************************)
EXTENDS ClientView, TLAPS

\* What the sockets and the timer of the page are, and how the sockets of the
\* current effect run differ from those of earlier ones.
LineInv ==
  /\ sock \in [Sockets -> {"none", "connecting", "open", "lost", "closing"}]
  /\ active \in [Sockets -> BOOLEAN] /\ reconnect \in BOOLEAN
  /\ \A s \in Sockets : active[s] => sock[s] \in {"connecting", "open", "lost"}
  /\ OneLine

\* The page dials: the socket found is the only one of its effect run.
LEMMA DialGivesOneLine ==
  ASSUME NEW states, NEW mine,
         states \in [Sockets -> {"none", "connecting", "open", "lost", "closing"}],
         mine = [s \in Sockets |-> FALSE],
         \A s \in Sockets : states[s] \notin {"connecting", "open"},
         Dial(states, mine), reconnect' = FALSE
  PROVE  LineInv'
<1>1. PICK s \in Sockets : /\ sock' = [states EXCEPT ![s] = "connecting"]
                           /\ active' = [mine EXCEPT ![s] = TRUE]
  BY DEF Dial
<1>2. \A r \in Sockets : active'[r] = (r = s)
  BY <1>1
<1>3. Current' = {s}
  BY <1>2 DEF Current
<1>4. \A r \in Sockets : r # s => sock'[r] = states[r]
  BY <1>1
<1> QED BY <1>1, <1>2, <1>3, <1>4 DEF LineInv, OneLine

LEMMA LineInit == Init => LineInv
<1> SUFFICES ASSUME Init PROVE LineInv
  OBVIOUS
<1>1. 1 \in Sockets
  BY ClientAssumption DEF Sockets
<1>2. Current = {1}
  BY <1>1 DEF Init, Current
<1> QED BY <1>1, <1>2 DEF Init, LineInv, OneLine

LEMMA LineStep == LineInv /\ [Next]_vars => LineInv'
<1> SUFFICES ASSUME LineInv, [Next]_vars PROVE LineInv'
  OBVIOUS
<1> DEFINE Same == UNCHANGED <<sock, active, reconnect>>
<1>1. Same => LineInv'
  BY DEF LineInv, OneLine, Current
<1>2. ASSUME NEW s \in Sockets, Open(s) PROVE LineInv'
  BY <1>2 DEF Open, LineInv, OneLine, Current
<1>3. ASSUME NEW s \in Sockets, Break(s) PROVE LineInv'
  BY <1>3 DEF Break, LineInv, OneLine, Current
<1>4. Restart => LineInv'
  BY DEF Restart, LineInv, OneLine, Current
<1>5. ASSUME NEW s \in Sockets, CloseEvent(s) PROVE LineInv'
  <2>1. /\ sock[s] \in {"lost", "closing"} /\ sock' = [sock EXCEPT ![s] = "none"]
        /\ active' = [active EXCEPT ![s] = FALSE] /\ reconnect' = (reconnect \/ active[s])
    BY <1>5 DEF CloseEvent
  <2>2. CASE active[s]
    <3>1. Current = {s} /\ ~reconnect
      BY <2>2 DEF LineInv, OneLine, Current
    <3>2. Current' = {}
      BY <2>1, <3>1 DEF LineInv, Current
    <3> QED BY <2>1, <2>2, <3>1, <3>2 DEF LineInv, OneLine
  <2>3. CASE ~active[s]
    <3>1. active' = active /\ reconnect' = reconnect
      BY <2>1, <2>3 DEF LineInv
    <3>2. Current' = Current
      BY <3>1 DEF Current
    <3> QED BY <2>1, <2>3, <3>1, <3>2 DEF LineInv, OneLine
  <2> QED BY <2>2, <2>3 DEF LineInv
<1>6. Reconnect => LineInv'
  <2> SUFFICES ASSUME Reconnect PROVE LineInv'
    OBVIOUS
  <2>1. Dial(sock, active) /\ reconnect' = FALSE /\ Current = {}
    BY DEF Reconnect, LineInv, OneLine
  <2>2. active = [s \in Sockets |-> FALSE]
    BY <2>1 DEF LineInv, Current
  <2>3. \A s \in Sockets : sock[s] \notin {"connecting", "open"}
    BY <2>2 DEF LineInv, OneLine
  <2> QED BY <2>1, <2>2, <2>3, DialGivesOneLine DEF LineInv
<1>7. Discover => LineInv'
  <2> SUFFICES ASSUME Discover PROVE LineInv'
    OBVIOUS
  <2>1. Dial(Abandoned, [s \in Sockets |-> FALSE]) /\ reconnect' = FALSE
    BY DEF Discover
  <2>2. /\ Abandoned \in [Sockets -> {"none", "connecting", "open", "lost", "closing"}]
        /\ \A s \in Sockets : Abandoned[s] \notin {"connecting", "open"}
    BY DEF Abandoned, LineInv
  <2> QED BY <2>1, <2>2, DialGivesOneLine
<1>8. ASSUME NEW s \in Sockets, OnMessage(s) \/ Receive(s) \/ Dropped(s) PROVE LineInv'
  BY <1>1, <1>8 DEF OnMessage, Receive, Dropped, pageVars
<1>9. ASSUME NEW j \in Jobs, StreamStarts(j) \/ StreamEnds(j) \/ JobEnds(j) PROVE LineInv'
  BY <1>1, <1>9 DEF StreamStarts, StreamEnds, JobEnds, pageVars
<1>10. Submit \/ Cancel \/ Choose \/ BroadcastTimer \/ HostGone => LineInv'
  BY <1>1 DEF Submit, Cancel, Choose, BroadcastTimer, HostGone, pageVars
<1>11. UNCHANGED vars => LineInv'
  BY <1>1 DEF vars, pageVars
<1> QED
  BY <1>2, <1>3, <1>4, <1>5, <1>6, <1>7, <1>8, <1>9, <1>10, <1>11 DEF Next, PageStep, CoordStep

\* At every moment the page has one socket that will report its close, or a
\* reconnect timer, and never two, whatever breaks, restarts or is discovered.
THEOREM LineKept == Spec => []OneLine
<1>1. LineInv => OneLine
  BY DEF LineInv
<1> QED BY <1>1, LineInit, LineStep, PTL DEF Spec
=============================================================================
