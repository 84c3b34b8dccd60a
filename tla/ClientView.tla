------------------------------ MODULE ClientView ------------------------------
(***************************************************************************)
(* The dashboard's view of the network: the hook useCoordinator with the   *)
(* chat that drives it, the coordinator's handlers for client sockets, and *)
(* the messages between them.  The hook shows, next to what the coordinator *)
(* reports of a job, an answer that the page makes up on timers; the two   *)
(* write the same fields.                                                  *)
(*                                                                         *)
(* Plans, tokens and stages are left out: of the job on display the page   *)
(* keeps its status and whether it has an error.  Policy and model are one *)
(* setting.  How jobs come to an end is the job manager's: here they end,  *)
(* or not, at any time.                                                    *)
(***************************************************************************)
EXTENDS Integers, Sequences

CONSTANTS
  MaxJobs,             \* bound: prompts; newId is modelled by counting
  Hosts,               \* addresses the page tries, activeUrl among them
  Settings,            \* policies and models to choose from
  Default,             \* what a coordinator starts with
  None,                \* no job
  MaxSockets,          \* bound: sockets of the page that exist at a time
  MaxQueue,            \* bound: messages on their way to the page
  MaxSent,             \* bound: messages on their way from the page, when it sends one
  MaxPicks,            \* bound: choices of a setting
  MaxTroubles          \* bound: broken sockets, restarts, hosts that go or are slow

ASSUME ClientAssumption ==
  /\ Default \in Settings /\ None \notin 1..MaxJobs
  /\ MaxSockets \in Nat \ {0} /\ {MaxJobs, MaxQueue, MaxSent, MaxPicks, MaxTroubles} \subseteq Nat

VARIABLES
  url,                 \* activeUrl
  reach,               \* hosts under which the coordinator answers
  sock,                \* state of each socket, as the page's side of it stands
  active,              \* the effect run that opened the socket is the current one
  reconnect,           \* the reconnect timer of the current effect run is set
  connection,          \* state.connection
  list,                \* state.jobs: status of each job the page lists
  setting,             \* state.policy and state.modelId
  live,                \* state.live: the job on display, its view and its error
  stream,              \* where the page's own answer to each job is
  conn,                \* the coordinator's end of each socket
  chosen,              \* the coordinator's policy and modelId
  job,                 \* the coordinator's status of each job
  up, down,            \* messages under way on each socket
  picks, troubles

pageVars == <<url, sock, active, reconnect, connection, list, setting, live, stream>>
coordVars == <<conn, chosen, job>>
wires == <<up, down>>
vars == <<pageVars, reach, coordVars, wires, picks, troubles>>

Sockets == 1..MaxSockets
Jobs == 1..MaxJobs
Trouble == troubles < MaxTroubles /\ troubles' = troubles + 1
Free(s) == sock[s] = "none" /\ conn[s] = "none"
Current == {s \in Sockets : active[s]}

-----------------------------------------------------------------------------
(* The page's sockets.                                                       *)

\* connect: a new socket of the current effect run.
Dial(states, mine) ==
  \E s \in Sockets :
    /\ Free(s) /\ \A r \in 1..(s - 1) : ~Free(r)
    /\ sock' = [states EXCEPT ![s] = "connecting"]
    /\ active' = [mine EXCEPT ![s] = TRUE]

Open(s) ==
  /\ sock[s] = "connecting" /\ url \in reach
  /\ sock' = [sock EXCEPT ![s] = "open"] /\ conn' = [conn EXCEPT ![s] = "open"]
  /\ up' = [up EXCEPT ![s] = <<[type |-> "subscribe"]>>] /\ connection' = "connected"
  /\ UNCHANGED <<url, active, reconnect, list, setting, live, stream>>
  /\ UNCHANGED <<reach, chosen, job, down, picks, troubles>>

\* The network: an attempt fails, a socket breaks.
Break(s) ==
  /\ sock[s] \in {"connecting", "open"} /\ sock' = [sock EXCEPT ![s] = "lost"]
  /\ IF url \in reach THEN Trouble ELSE UNCHANGED troubles
  /\ UNCHANGED <<url, active, reconnect, connection, list, setting, live, stream>>
  /\ down' = [down EXCEPT ![s] = <<>>]
  /\ UNCHANGED <<reach, coordVars, up, picks>>

\* The close event; one of an earlier effect run is ignored.
CloseEvent_Any(s) ==
  /\ sock[s] \in {"lost", "closing"} /\ sock' = [sock EXCEPT ![s] = "none"]
  /\ active' = [active EXCEPT ![s] = FALSE]
  /\ reconnect' = TRUE /\ connection' = "p2p-mesh-active"
  /\ UNCHANGED <<url, list, setting, live, stream, reach, coordVars, wires, picks, troubles>>
CloseEvent(s) ==
  /\ sock[s] \in {"lost", "closing"} /\ sock' = [sock EXCEPT ![s] = "none"]
  /\ active' = [active EXCEPT ![s] = FALSE]
  /\ reconnect' = (reconnect \/ active[s])
  /\ connection' = IF active[s] THEN "p2p-mesh-active" ELSE connection
  /\ UNCHANGED <<url, list, setting, live, stream, reach, coordVars, wires, picks, troubles>>

Reconnect ==
  /\ reconnect /\ reconnect' = FALSE /\ Dial(sock, active)
  /\ UNCHANGED <<url, connection, list, setting, live, stream>>
  /\ UNCHANGED <<reach, coordVars, wires, picks, troubles>>

\* autoDiscover finds another host, the one in use being gone or, which is a trouble,
\* slower than the probe waits; the effect is cleaned up and run again.
Abandoned == [s \in Sockets |-> IF sock[s] \in {"connecting", "open"} THEN "closing" ELSE sock[s]]
Discover ==
  /\ url' \in reach \ {url} /\ IF url \in reach THEN Trouble ELSE UNCHANGED troubles
  /\ Dial(Abandoned, [s \in Sockets |-> FALSE]) /\ reconnect' = FALSE
  /\ down' = [s \in Sockets |-> <<>>]
  /\ UNCHANGED <<connection, list, setting, live, stream>>
  /\ UNCHANGED <<reach, coordVars, up, picks>>

-----------------------------------------------------------------------------
(* The job on display.                                                       *)

Sent(m) ==
  /\ \A s \in Sockets : Len(up[s]) < MaxSent
  /\ up' = [s \in Sockets |-> IF active[s] /\ sock[s] = "open" THEN Append(up[s], m) ELSE up[s]]

\* ChatPanel: the prompt is barred while an answer is being generated.
IsGenerating == live.job # None /\ ~live.error /\ live.view = "running"

\* clearTimeout reaches an answer until its interval is set up.
Cleared == [j \in Jobs |-> IF stream[j] = "staged" THEN "none" ELSE stream[j]]

Submit_ClearsLast ==
  /\ ~IsGenerating
  /\ \E j \in Jobs :
       /\ stream[j] = "unused" /\ \A i \in 1..(j - 1) : stream[i] # "unused"
       /\ live' = [job |-> j, view |-> "running", error |-> FALSE]
       /\ stream' = [Cleared EXCEPT ![j] = "none"]
       /\ Sent([type |-> "submit", job |-> j])
  /\ UNCHANGED <<url, sock, active, reconnect, connection, list, setting>>
  /\ UNCHANGED <<reach, coordVars, down, picks, troubles>>
Submit ==
  /\ ~IsGenerating
  /\ \E j \in Jobs :
       /\ stream[j] = "unused" /\ \A i \in 1..(j - 1) : stream[i] # "unused"
       /\ live' = [job |-> j, view |-> "running", error |-> FALSE]
       /\ stream' = [Cleared EXCEPT ![j] = "staged"]
       /\ Sent([type |-> "submit", job |-> j])
  /\ UNCHANGED <<url, sock, active, reconnect, connection, list, setting>>
  /\ UNCHANGED <<reach, coordVars, down, picks, troubles>>

Cancel ==
  /\ IsGenerating /\ stream' = Cleared /\ live' = [live EXCEPT !.error = TRUE]
  /\ Sent([type |-> "cancel", job |-> live.job])
  /\ UNCHANGED <<url, sock, active, reconnect, connection, list, setting>>
  /\ UNCHANGED <<reach, coordVars, down, picks, troubles>>

\* The second timer sets up the interval that types the page's own answer.
StreamStarts(j) ==
  /\ stream[j] = "staged" /\ stream' = [stream EXCEPT ![j] = "streaming"]
  /\ UNCHANGED <<url, sock, active, reconnect, connection, list, setting, live>>
  /\ UNCHANGED <<reach, coordVars, wires, picks, troubles>>

\* The last word: whatever job is on display is completed.
StreamEnds(j) ==
  /\ stream[j] = "streaming" /\ stream' = [stream EXCEPT ![j] = "ended"]
  /\ live' = [live EXCEPT !.view = "completed"]
  /\ UNCHANGED <<url, sock, active, reconnect, connection, list, setting>>
  /\ UNCHANGED <<reach, coordVars, wires, picks, troubles>>

\* setPolicy and setModel: shown at once, sent if the socket is open.
Choose ==
  /\ \E p \in Settings \ {setting} : setting' = p /\ Sent([type |-> "settings", setting |-> p])
  /\ picks < MaxPicks /\ picks' = picks + 1
  /\ UNCHANGED <<url, sock, active, reconnect, connection, list, live, stream>>
  /\ UNCHANGED <<reach, coordVars, down, troubles>>

-----------------------------------------------------------------------------
(* Messages from the coordinator.                                            *)

Shown(m) ==
  CASE m.type = "snapshot" ->
         /\ list' = m.jobs /\ setting' = m.setting /\ connection' = "connected"
         /\ UNCHANGED <<live>>
    [] m.type = "completed" ->
         /\ list' = [list EXCEPT ![m.job] = m.status]
         /\ live' = IF live.job = m.job THEN [live EXCEPT !.view = m.status] ELSE live
         /\ UNCHANGED <<setting, connection>>
    [] m.type = "failed" ->
         /\ live' = IF live.job = m.job THEN [live EXCEPT !.error = TRUE] ELSE live
         /\ UNCHANGED <<list, setting, connection>>

OnMessage(s) ==
  /\ sock[s] = "open" /\ down[s] # <<>>
  /\ down' = [down EXCEPT ![s] = Tail(@)] /\ Shown(Head(down[s]))
  /\ UNCHANGED <<url, sock, active, reconnect, stream, reach, coordVars, up, picks, troubles>>

-----------------------------------------------------------------------------
(* The coordinator: clients and what is broadcast to them.                   *)

\* What goes to a socket that the page has lost or abandoned makes no difference.
Reached == {s \in Sockets : conn[s] = "subscribed" /\ sock[s] = "open"}
Snapshot_Initial(jobs, p) == [type |-> "snapshot", jobs |-> jobs, setting |-> Default]
Snapshot(jobs, p) == [type |-> "snapshot", jobs |-> jobs, setting |-> p]
Room(n) == \A s \in Reached : Len(down[s]) + n <= MaxQueue
Broadcast(messages) ==
  /\ Room(Len(messages))
  /\ down' = [s \in Sockets |-> IF s \in Reached THEN down[s] \o messages ELSE down[s]]

\* jobs.cancel: an ended job stays as it is, any other is reported once more.
CancelJob(j) ==
  IF job[j] \in {"none", "completed", "failed"} THEN UNCHANGED <<job, down>>
  ELSE /\ job' = [job EXCEPT ![j] = "cancelled"]
       /\ Broadcast(<<[type |-> "completed", job |-> j, status |-> "cancelled"],
                      Snapshot(job', chosen)>>)

Handled(s, m) ==
  CASE m.type = "subscribe" ->
         /\ conn' = [conn EXCEPT ![s] = "subscribed"]
         /\ down' = [down EXCEPT ![s] = IF sock[s] = "open" THEN <<Snapshot(job, chosen)>> ELSE <<>>]
         /\ UNCHANGED <<chosen, job>>
    [] m.type = "settings" ->
         /\ chosen' = m.setting /\ Broadcast(<<Snapshot(job, m.setting)>>)
         /\ UNCHANGED <<conn, job>>
    [] m.type = "submit" ->
         /\ job' = [job EXCEPT ![m.job] = "running"] /\ UNCHANGED <<conn, chosen, down>>
    [] m.type = "cancel" -> CancelJob(m.job) /\ UNCHANGED <<conn, chosen>>

Receive(s) ==
  /\ conn[s] # "none" /\ up[s] # <<>>
  /\ up' = [up EXCEPT ![s] = Tail(@)] /\ Handled(s, Head(up[s]))
  /\ UNCHANGED <<pageVars, reach, picks, troubles>>

Dropped(s) ==
  /\ conn[s] # "none" /\ sock[s] \in {"none", "lost", "closing"}
  /\ conn' = [conn EXCEPT ![s] = "none"]
  /\ up' = [up EXCEPT ![s] = <<>>]
  /\ UNCHANGED <<pageVars, reach, chosen, job, down, picks, troubles>>

JobEnds(j) ==
  /\ job[j] = "running"
  /\ \/ job' = [job EXCEPT ![j] = "completed"]
        /\ Broadcast(<<[type |-> "completed", job |-> j, status |-> "completed"],
                       Snapshot(job', chosen)>>)
     \/ job' = [job EXCEPT ![j] = "failed"] /\ Broadcast(<<[type |-> "failed", job |-> j]>>)
  /\ UNCHANGED <<pageVars, reach, conn, chosen, up, picks, troubles>>

\* Every two seconds; with nothing else under way, to keep the queues short.
BroadcastTimer ==
  /\ Reached # {}
  /\ down = [s \in Sockets |-> <<>>] /\ Broadcast(<<Snapshot(job, chosen)>>)
  /\ UNCHANGED <<pageVars, reach, coordVars, up, picks, troubles>>

\* A restart: jobs, settings and clients are gone, and every socket breaks.
Restart ==
  /\ Trouble /\ job' = [j \in Jobs |-> "none"] /\ chosen' = Default
  /\ conn' = [s \in Sockets |-> "none"]
  /\ sock' = [s \in Sockets |-> IF sock[s] = "open" THEN "lost" ELSE sock[s]]
  /\ up' = [s \in Sockets |-> <<>>] /\ down' = [s \in Sockets |-> <<>>]
  /\ UNCHANGED <<url, active, reconnect, connection, list, setting, live, stream>>
  /\ UNCHANGED <<reach, picks>>

\* The machine is no longer found under one of its addresses.
HostGone ==
  /\ Trouble /\ \E h \in reach : reach' = reach \ {h}
  /\ UNCHANGED <<pageVars, coordVars, wires, picks>>

-----------------------------------------------------------------------------
Init ==
  /\ url = (CHOOSE h \in Hosts : TRUE) /\ reach = Hosts
  /\ sock = [s \in Sockets |-> IF s = 1 THEN "connecting" ELSE "none"]
  /\ active = [s \in Sockets |-> s = 1] /\ reconnect = FALSE /\ connection = "connecting"
  /\ list = [j \in Jobs |-> "none"] /\ setting = Default
  /\ live = [job |-> None, view |-> "none", error |-> FALSE]
  /\ stream = [j \in Jobs |-> "unused"]
  /\ conn = [s \in Sockets |-> "none"] /\ chosen = Default /\ job = [j \in Jobs |-> "none"]
  /\ up = [s \in Sockets |-> <<>>] /\ down = [s \in Sockets |-> <<>>]
  /\ picks = 0 /\ troubles = 0

PageStep(s) == Open(s) \/ CloseEvent(s) \/ OnMessage(s)
CoordStep(s) == Receive(s) \/ Dropped(s)

Next ==
  \/ \E s \in Sockets : PageStep(s) \/ CoordStep(s) \/ Break(s)
  \/ \E j \in Jobs : StreamStarts(j) \/ StreamEnds(j) \/ JobEnds(j)
  \/ Reconnect \/ Discover \/ Submit \/ Cancel \/ Choose
  \/ BroadcastTimer \/ Restart \/ HostGone

Spec == Init /\ [][Next]_vars

\* Sockets, messages and timers make progress, and an attempt to reach a host
\* that does not answer ends; what users, jobs and the network do is free.
FairSpec ==
  /\ Spec
  /\ \A s \in Sockets : /\ WF_vars(PageStep(s)) /\ WF_vars(CoordStep(s))
                         /\ WF_vars(sock[s] = "connecting" /\ Break(s))
  /\ \A j \in Jobs : WF_vars(StreamStarts(j) \/ StreamEnds(j))
  /\ WF_vars(Reconnect) /\ WF_vars(url \notin reach /\ Discover) /\ WF_vars(BroadcastTimer)

-----------------------------------------------------------------------------
(* Properties.                                                               *)

\* The page has one line to the coordinator: a socket whose close event will
\* set the reconnect timer, or that timer, and sockets of an earlier effect run
\* are on their way out (useCoordinator.ts connect and the effect's cleanup).
OneLine ==
  /\ IF reconnect THEN Current = {} ELSE \E s \in Sockets : Current = {s}
  /\ \A s \in Sockets : sock[s] \in {"connecting", "open"} => active[s]

\* The prompt is never barred for good, whatever becomes of the coordinator,
\* of the job and of the timers that submit and cancel clear
\* (useCoordinator.ts submit, cancel; ChatPanel.tsx isGenerating).
PromptComesBack == []<>~IsGenerating

\* Once hosts and settings stay as they are, the page is connected and shows
\* the settings and jobs that the coordinator has, after lost sockets, restarts
\* and a setting chosen while the socket was down (server.ts snapshot, broadcast).
AgreesInTheEnd ==
  <>[](reach # {}) =>
    <>[](connection = "connected" /\ setting = chosen /\ (list = job \/ \E s \in Sockets : down[s] # <<>>))
=============================================================================
