------------------------------ MODULE FrameJob ------------------------------
(***************************************************************************)
(* The client's main thread, its worker thread and the integrated server   *)
(* from the menu to the end: run and render of client/Client.cpp, util/Job *)
(* and the polling of NetworkManagerClient.                                *)
(*                                                                         *)
(* A frame hands the worker one job, manageChunks and receivePackets, then *)
(* draws what was queued for drawing, raises abortNetworkProcessing, waits *)
(* for the job and lowers the flag again.  Nothing else keeps the two      *)
(* threads apart: world, expectedChunks and the ENet host are not locked,  *)
(* and the job reads the player's chunk through a reference into the frame *)
(* that started it.  The flag is a plain bool; calls the compiler cannot   *)
(* see into lie between its reads, so each of them happens, at any time.   *)
(*                                                                         *)
(* The menu starts an integrated server or connects to a remote one; a     *)
(* connection that fails is only reported, and the game goes on without.   *)
(* A packet is its number: 1, 2, ... in the order the server sends them.   *)
(***************************************************************************)
EXTENDS Integers, Sequences

CONSTANTS
  Place,        \* chunks the player can be in
  MaxPackets    \* bound: packets the server sends

ASSUME FrameAssumption == Place # {} /\ MaxPackets \in Nat

VARIABLES
  main,        \* where the main thread is, see MainState
  server,      \* where the server is, see ServerState
  running,     \* the flag the integrated server tests
  connected,   \* the connection succeeded
  position,    \* playerChunkPosition of the frame, captured by reference
  jobs,        \* length of the Job's queue
  returns,     \* length of its returnQueue
  abort,       \* abortNetworkProcessing
  worker,      \* where the worker thread is, see WorkerState
  managed,     \* history: what manageChunks was last called with
  late,        \* history: packets handled since the flag was raised
  sent,        \* packets the server has sent
  wire,        \* those that ENet has not yet delivered
  buffer,      \* packetBuffer
  handled      \* history: packets receivePackets has handled

vars == <<main, server, running, connected, position, jobs, returns, abort,
          worker, managed, late, sent, wire, buffer, handled>>

\* "update" lasts from the return of waitForJob to the next startJob.
MainState   == {"menu", "connecting", "update", "drawing", "waiting", "closing", "ended"}
ServerState == {"none", "remote", "starting", "serving", "saving", "done"}
WorkerState == {"idle", "manage", "poll", "test", "handle", "return"}

packets == <<sent, wire, buffer, handled>>

Init ==
  /\ main = "menu" /\ server = "none"
  /\ running = TRUE /\ connected = FALSE
  /\ position \in Place /\ managed = position
  /\ jobs = 0 /\ returns = 0
  /\ abort = FALSE
  /\ worker = "idle"
  /\ late = 0 /\ sent = 0
  /\ wire = <<>> /\ buffer = <<>> /\ handled = <<>>

-----------------------------------------------------------------------------
(* The main thread.                                                        *)

\* connectToServer, from connectToIntegratedServer or with an address.
Connect(kind) ==
  /\ main = "menu"
  /\ main' = "connecting"
  /\ server' = kind
  /\ UNCHANGED <<running, connected, position, jobs, returns, abort, worker, managed, late, packets>>

\* network.init returns with or without a connection, the player is put at the spawn
\* and manageChunks is called once here.
EnterGame ==
  /\ main = "connecting"
  /\ \/ connected' = FALSE
     \/ connected' = TRUE /\ server \in {"remote", "serving"}
  /\ main' = "update"
  /\ managed' = position
  /\ UNCHANGED <<server, running, position, jobs, returns, abort, worker, late, packets>>

\* The rest of the frame up to startJob; the player may have moved.
StartJob ==
  /\ main = "update"
  /\ position' \in Place
  /\ jobs' = jobs + 1
  /\ main' = "drawing"
  /\ UNCHANGED <<server, running, connected, returns, abort, worker, managed, late, packets>>

\* flush has drawn the frame.
RaiseAbort ==
  /\ main = "drawing"
  /\ abort' = TRUE
  /\ late' = 0
  /\ main' = "waiting"
  /\ UNCHANGED <<server, running, connected, position, jobs, returns, worker, managed, packets>>

EndFramePeeks ==                 \* mutant: the wait leaves its token in the queue
  /\ main = "waiting" /\ returns > 0
  /\ abort' = FALSE
  /\ main' = "update"
  /\ UNCHANGED <<server, running, connected, position, jobs, returns, worker, managed, late, packets>>

EndFrameNoWait ==                \* mutant: no waitForJob
  /\ main = "waiting"
  /\ returns' = 0
  /\ abort' = FALSE
  /\ main' = "update"
  /\ UNCHANGED <<server, running, connected, position, jobs, worker, managed, late, packets>>

EndFrameKeepsAbort ==            \* mutant: the flag is not lowered
  /\ main = "waiting" /\ returns > 0
  /\ returns' = returns - 1
  /\ main' = "update"
  /\ UNCHANGED <<server, running, connected, position, jobs, abort, worker, managed, late, packets>>

\* waitForJob returns, the flag is lowered, the GUI is drawn.
EndFrame ==
  /\ main = "waiting" /\ returns > 0
  /\ returns' = returns - 1
  /\ abort' = FALSE
  /\ main' = "update"
  /\ UNCHANGED <<server, running, connected, position, jobs, worker, managed, late, packets>>

CloseLeavesRunning ==            \* mutant: running is not reset
  /\ main \in {"menu", "update"}
  /\ main' = "closing"
  /\ UNCHANGED <<server, running, connected, position, jobs, returns, abort, worker, managed, late, packets>>

\* Window::isOpen is false.
CloseWindow ==
  /\ main \in {"menu", "update"}
  /\ main' = "closing"
  /\ running' = FALSE
  /\ UNCHANGED <<server, connected, position, jobs, returns, abort, worker, managed, late, packets>>

\* An integrated server is joined before anything is destroyed.
JoinServer ==
  /\ main = "closing"
  /\ server \in {"none", "remote", "done"}
  /\ main' = "ended"
  /\ UNCHANGED <<server, running, connected, position, jobs, returns, abort, worker, managed, late, packets>>

-----------------------------------------------------------------------------
(* The worker thread.  Between a test of the loop of receivePackets and    *)
(* the end of the packet it let through, the flag may be raised.           *)

worked == <<main, server, running, connected, position, abort, sent>>

\* threadLoop dequeues the job.
TakeJob ==
  /\ worker = "idle" /\ jobs > 0
  /\ jobs' = jobs - 1
  /\ worker' = "manage"
  /\ UNCHANGED <<worked, returns, managed, late, wire, buffer, handled>>

ManageUnlessAborted ==           \* mutant: a frame that is already drawn skips manageChunks
  /\ worker = "manage"
  /\ managed' = IF abort THEN managed ELSE position
  /\ worker' = "poll"
  /\ UNCHANGED <<worked, jobs, returns, late, wire, buffer, handled>>

Manage ==
  /\ worker = "manage"
  /\ managed' = position
  /\ worker' = "poll"
  /\ UNCHANGED <<worked, jobs, returns, late, wire, buffer, handled>>

PollClears ==                    \* mutant: packetBuffer.clear(), as in the server's manager
  /\ worker = "poll" /\ wire # <<>>
  /\ buffer' = <<Head(wire)>>
  /\ wire' = Tail(wire)
  /\ UNCHANGED <<worked, worker, jobs, returns, managed, late, handled>>

\* processEvents, for one event.
Poll ==
  /\ worker = "poll" /\ wire # <<>>
  /\ buffer' = Append(buffer, Head(wire))
  /\ wire' = Tail(wire)
  /\ UNCHANGED <<worked, worker, jobs, returns, managed, late, handled>>

PollDone ==
  /\ worker = "poll" /\ wire = <<>>
  /\ worker' = "test"
  /\ UNCHANGED <<worked, jobs, returns, managed, late, wire, buffer, handled>>

TestIgnoresAbort ==              \* mutant: the loop does not look at the flag
  /\ worker = "test"
  /\ worker' = IF buffer # <<>> THEN "handle" ELSE "return"
  /\ UNCHANGED <<worked, jobs, returns, managed, late, wire, buffer, handled>>

\* The condition of receivePackets' loop.
Test ==
  /\ worker = "test"
  /\ worker' = IF buffer # <<>> /\ ~abort THEN "handle" ELSE "return"
  /\ UNCHANGED <<worked, jobs, returns, managed, late, wire, buffer, handled>>

\* Its body: getPacket, then what the packet says.
Handle ==
  /\ worker = "handle"
  /\ handled' = Append(handled, Head(buffer))
  /\ buffer' = Tail(buffer)
  /\ late' = IF abort THEN late + 1 ELSE late
  /\ worker' = "test"
  /\ UNCHANGED <<worked, jobs, returns, managed, wire>>

ReturnUnlessAborted ==           \* mutant: an aborted job says nothing
  /\ worker = "return"
  /\ returns' = IF abort THEN returns ELSE returns + 1
  /\ worker' = "idle"
  /\ UNCHANGED <<worked, jobs, managed, late, wire, buffer, handled>>

\* returnQueue.enqueue.
Return ==
  /\ worker = "return"
  /\ returns' = returns + 1
  /\ worker' = "idle"
  /\ UNCHANGED <<worked, jobs, managed, late, wire, buffer, handled>>

-----------------------------------------------------------------------------
(* The server.                                                             *)

served == <<main, running, connected, position, jobs, returns, abort, worker, managed, late, buffer, handled>>

\* Server::init ends: from now on it polls.
ServerReady ==
  /\ server = "starting"
  /\ server' = "serving"
  /\ UNCHANGED <<served, sent, wire>>

\* A reply or a broadcast.
ServerSend ==
  /\ server \in {"remote", "serving"}
  /\ connected
  /\ sent < MaxPackets
  /\ sent' = sent + 1
  /\ wire' = Append(wire, sent')
  /\ UNCHANGED <<served, server>>

\* The loop of Server::run ends.
ServerStop ==
  /\ server = "serving" /\ ~running
  /\ server' = "saving"
  /\ UNCHANGED <<served, sent, wire>>

\* deleteAllChunks has saved the world and run returns.
ServerSaved ==
  /\ server = "saving"
  /\ server' = "done"
  /\ UNCHANGED <<served, sent, wire>>

-----------------------------------------------------------------------------
MainStep   == EnterGame \/ StartJob \/ RaiseAbort \/ EndFrame \/ JoinServer
WorkerStep == TakeJob \/ Manage \/ Poll \/ PollDone \/ Test \/ Handle \/ Return
ServerStep == ServerReady \/ ServerStop \/ ServerSaved

Next ==
  \/ \E kind \in {"starting", "remote"} : Connect(kind)
  \/ EnterGame \/ StartJob \/ RaiseAbort \/ EndFrame \/ CloseWindow \/ JoinServer
  \/ TakeJob \/ Manage \/ Poll \/ PollDone \/ Test \/ Handle \/ Return
  \/ ServerReady \/ ServerSend \/ ServerStop \/ ServerSaved

Spec == Init /\ [][Next]_vars

(* The threads run; the user need not close the window and the server need *)
(* not send.  A job that gets to its packets only after the frame has been *)
(* drawn handles none of them, so progress of packets needs more: in frame *)
(* after frame the worker must sometimes be that fast.                     *)
FairSpec ==
  /\ Spec
  /\ WF_vars(MainStep) /\ WF_vars(WorkerStep) /\ WF_vars(ServerStep)
  /\ SF_vars(~abort /\ TakeJob) /\ SF_vars(~abort /\ Manage) /\ SF_vars(~abort /\ Poll)
  /\ SF_vars(~abort /\ PollDone) /\ SF_vars(~abort /\ Test)

-----------------------------------------------------------------------------
(* Properties.                                                             *)

(* The shapes of the state; neither queue of the Job ever holds more than  *)
(* one element.                                                            *)
TypeOK ==
  /\ main \in MainState /\ server \in ServerState /\ worker \in WorkerState
  /\ running \in BOOLEAN /\ connected \in BOOLEAN /\ abort \in BOOLEAN
  /\ position \in Place /\ managed \in Place
  /\ jobs \in 0..1 /\ returns \in 0..1
  /\ sent \in 0..MaxPackets /\ late \in Nat
  /\ wire \in Seq(1..MaxPackets) /\ buffer \in Seq(1..MaxPackets)
  /\ handled \in Seq(1..MaxPackets)

(* A job lives within the frame that started it.  While the main thread    *)
(* updates the world, sends packets or destroys the client the worker is   *)
(* idle and nothing waits for it: no two threads are in the world or in    *)
(* the ENet host, and the reference to the player's chunk never dangles.   *)
JobWithinFrame ==
  worker # "idle" \/ jobs > 0 => main \in {"drawing", "waiting"}

(* Every frame manages the chunks around its own player position, however  *)
(* early the flag was raised: the next update finds it done.               *)
FrameManaged == main \in {"update", "closing"} => managed = position

(* Packets are handled in the order they were sent and none is lost: what  *)
(* an aborted job leaves in packetBuffer comes before what the next polls. *)
InOrder == handled \o buffer \o wire = [n \in 1..sent |-> n]

(* Once the frame is drawn it waits for at most one more packet.           *)
AbortBounds == main = "waiting" => late <= 1

(* A frame that waits for its job goes on.                                 *)
FramesGoOn == main = "waiting" ~> main = "update"

(* What the server has sent is eventually handled, unless the client ends. *)
EveryPacketHandled ==
  \A n \in 1..MaxPackets :
    sent >= n ~> Len(handled) >= n \/ main \in {"closing", "ended"}

(* Closing the window ends the program, and an integrated server has saved *)
(* its world by then.                                                      *)
ShutdownEnds == main = "closing" ~> main = "ended" /\ server \in {"none", "remote", "done"}
=============================================================================
