--------------------------- MODULE FrameJobProofs ---------------------------
(***************************************************************************)
(* Proofs about FrameJob, for any number of packets and places.            *)
(*                                                                         *)
(* What keeps the two threads apart is that there is one token between     *)
(* them: while a frame draws or waits it is in the job queue, with the     *)
(* worker or in the return queue, and otherwise there is none.  That the   *)
(* packets stay in order needs nothing but the order of the two queues.    *)
(***************************************************************************)
EXTENDS FrameJob, SequenceTheorems, TLAPS

InFrame == main \in {"drawing", "waiting"}

\* The one token of a frame, and none outside it.
OneToken ==
  /\ InFrame => \/ jobs = 1 /\ worker = "idle" /\ returns = 0
                \/ jobs = 0 /\ worker # "idle" /\ returns = 0
                \/ jobs = 0 /\ worker = "idle" /\ returns = 1
  /\ ~InFrame => jobs = 0 /\ worker = "idle" /\ returns = 0

\* manageChunks has been called for the frame's place once the job is past it.
ManagedInTime ==
  /\ InFrame /\ jobs = 0 /\ worker # "manage" => managed = position
  /\ ~InFrame => managed = position

\* After the flag is up the packet being handled is the last.
AbortInTime ==
  /\ abort <=> main = "waiting"
  /\ main = "waiting" => late <= 1 /\ (worker = "handle" => late = 0)

Packet == 1..MaxPackets
InFlight == handled \o (buffer \o wire)

PacketsInOrder ==
  /\ worker = "handle" => buffer # <<>>
  /\ InFlight = [n \in 1..sent |-> n]

FrameInv == TypeOK /\ OneToken /\ ManagedInTime /\ AbortInTime /\ PacketsInOrder

-----------------------------------------------------------------------------
(* Two queues one behind the other: an element that goes from the head of  *)
(* the second to the end of the first leaves their concatenation as it is. *)
LEMMA HeadMoves ==
  ASSUME NEW S, NEW s \in Seq(S), NEW t \in Seq(S), t # <<>>
  PROVE  /\ Append(s, Head(t)) \in Seq(S)
         /\ Tail(t) \in Seq(S)
         /\ Append(s, Head(t)) \o Tail(t) = s \o t
<1>1. Head(t) \in S /\ Tail(t) \in Seq(S)
  BY HeadTailProperties
<1>2. Append(s, Head(t)) \in Seq(S)
  BY <1>1, AppendProperties
<1>3. <<Head(t)>> \in Seq(S)
  BY <1>1
<1>4. <<Head(t)>> \o Tail(t) = t
  <2>1. Len(t) \in Nat /\ Len(t) # 0
    BY EmptySeq, LenProperties
  <2>2. Head(t) = t[1]
    OBVIOUS
  <2>3. Tail(t) = SubSeq(t, 2, Len(t))
    BY TailIsSubSeq
  <2>4. 1 \in 1..Len(t) /\ Len(t) \in 1..Len(t)
    BY <2>1
  <2>5. SubSeq(t, 1, Len(t)) = <<t[1]>> \o SubSeq(t, 1 + 1, Len(t))
    BY <2>4, SubSeqRecursiveFirst
  <2>6. SubSeq(t, 1, Len(t)) = t
    BY SubSeqFull
  <2>7. QED BY <2>2, <2>3, <2>5, <2>6
<1>5. Append(s, Head(t)) \o Tail(t) = (s \o <<Head(t)>>) \o Tail(t)
  BY <1>1, AppendIsConcat
<1>6. (s \o <<Head(t)>>) \o Tail(t) = s \o (<<Head(t)>> \o Tail(t))
  BY <1>1, <1>3, ConcatAssociative
<1>7. QED BY <1>1, <1>2, <1>4, <1>5, <1>6

\* The same with a third queue behind them.
LEMMA HeadMovesOn ==
  ASSUME NEW S, NEW h \in Seq(S), NEW b \in Seq(S), NEW w \in Seq(S), b # <<>>
  PROVE  Append(h, Head(b)) \o (Tail(b) \o w) = h \o (b \o w)
<1> DEFINE a == Append(h, Head(b))
           t == Tail(b)
<1>0. a \o t = h \o b
  BY HeadMoves
<1>1. a \in Seq(S) /\ t \in Seq(S)
  BY HeadMoves
<1> HIDE DEF a, t
<1>2. (a \o t) \o w = a \o (t \o w)
  BY <1>1, ConcatAssociative
<1>3. (h \o b) \o w = h \o (b \o w)
  BY ConcatAssociative
<1>4. a \o (t \o w) = h \o (b \o w)
  BY <1>0, <1>2, <1>3, Zenon
<1>5. QED BY <1>4 DEF a, t

\* What is put at the end of the last of three queues is at the end of them all.
LEMMA EndOfThree ==
  ASSUME NEW S, NEW h \in Seq(S), NEW b \in Seq(S), NEW w \in Seq(S), NEW x \in S
  PROVE  /\ Append(w, x) \in Seq(S)
         /\ h \o (b \o w) \in Seq(S)
         /\ h \o (b \o Append(w, x)) = Append(h \o (b \o w), x)
<1> DEFINE bw == b \o w
           e  == <<x>>
           q  == h \o bw
<1>1. Append(w, x) \in Seq(S) /\ Append(w, x) = w \o e /\ e \in Seq(S)
  BY AppendProperties, AppendIsConcat
<1>2. bw \in Seq(S)
  BY ConcatProperties
<1>3. bw \o e = b \o (w \o e)
  BY <1>1, ConcatAssociative
<1> HIDE DEF bw
<1>4. q \in Seq(S)
  BY <1>2, ConcatProperties
<1>5. q \o e = Append(q, x)
  BY <1>4, AppendIsConcat
<1> HIDE DEF e
<1>6. (h \o bw) \o e = h \o (bw \o e)
  BY <1>1, <1>2, ConcatAssociative
<1>7. h \o (b \o Append(w, x)) = Append(q, x)
  BY <1>1, <1>3, <1>5, <1>6, Zenon
<1>8. QED BY <1>1, <1>4, <1>7 DEF bw

\* The numbers up to k and the next one.
LEMMA NextNumber ==
  ASSUME NEW S, NEW k \in Nat, k + 1 \in S, [n \in 1..k |-> n] \in Seq(S)
  PROVE  Append([n \in 1..k |-> n], k + 1) = [n \in 1..(k + 1) |-> n]
<1> DEFINE q == [n \in 1..k |-> n]
           r == [n \in 1..(k + 1) |-> n]
           a == Append(q, k + 1)
<1>1. Len(q) = k
  <2>1. Len(q) \in Nat /\ DOMAIN q = 1..Len(q)
    BY LenProperties
  <2>2. DOMAIN q = 1..k
    OBVIOUS
  <2>3. \A m \in Nat : 1..m = 1..k => m = k
    BY SMT
  <2>4. QED BY <2>1, <2>2, <2>3
<1>2. /\ a \in Seq(S) /\ Len(a) = k + 1
      /\ \A n \in 1..k : a[n] = q[n]
      /\ a[k + 1] = k + 1
  BY <1>1, AppendProperties
<1>3. a \in [1..(k + 1) -> S]
  BY <1>2, LenProperties
<1>4. \A n \in 1..k : q[n] = n
  OBVIOUS
<1> HIDE DEF a, q
<1>5. \A n \in 1..(k + 1) : a[n] = r[n]
  BY <1>2, <1>4
<1>6. a = r
  BY <1>3, <1>5
<1>7. QED BY <1>6 DEF a, q

-----------------------------------------------------------------------------
\* The parts of TypeOK.
ControlOK ==
  /\ main \in MainState /\ server \in ServerState /\ worker \in WorkerState
  /\ running \in BOOLEAN /\ connected \in BOOLEAN /\ abort \in BOOLEAN
  /\ position \in Place /\ managed \in Place
  /\ jobs \in 0..1 /\ returns \in 0..1
  /\ late \in Nat

QueuesOK ==
  /\ sent \in 0..MaxPackets
  /\ wire \in Seq(Packet) /\ buffer \in Seq(Packet) /\ handled \in Seq(Packet)

LEMMA TypeParts == TypeOK <=> ControlOK /\ QueuesOK
  BY DEF TypeOK, ControlOK, QueuesOK, Packet

ControlInv == ControlOK /\ OneToken /\ ManagedInTime /\ AbortInTime

-----------------------------------------------------------------------------
LEMMA InitFrame == Init => FrameInv
<1> SUFFICES ASSUME Init PROVE FrameInv
  OBVIOUS
<1>1. ControlOK
  <2>1. running \in BOOLEAN /\ connected \in BOOLEAN /\ abort \in BOOLEAN
    BY Zenon DEF Init
  <2>2. /\ main \in MainState /\ server \in ServerState /\ worker \in WorkerState
        /\ position \in Place /\ managed \in Place
        /\ jobs \in 0..1 /\ returns \in 0..1 /\ late \in Nat
    BY DEF Init, MainState, ServerState, WorkerState
  <2>3. QED BY <2>1, <2>2, Zenon DEF ControlOK
<1>2. OneToken /\ ManagedInTime
  BY DEF Init, OneToken, ManagedInTime, InFrame
<1>3. AbortInTime
  BY DEF Init, AbortInTime
<1>4. QueuesOK
  BY FrameAssumption DEF Init, QueuesOK
<1>5. PacketsInOrder
  <2>1. InFlight = <<>>
    BY DEF Init, InFlight
  <2>2. [n \in 1..0 |-> n] = <<>>
    OBVIOUS
  <2>3. QED BY <2>1, <2>2 DEF Init, PacketsInOrder
<1>6. QED BY <1>1, <1>2, <1>3, <1>4, <1>5, TypeParts DEF FrameInv

\* The two threads and the flag: what the packets are does not matter to them.
LEMMA ControlStep == FrameInv /\ [Next]_vars => ControlInv'
<1> SUFFICES ASSUME FrameInv, [Next]_vars PROVE ControlInv'
  OBVIOUS
<1> USE DEF ControlInv, ControlOK, OneToken, ManagedInTime, AbortInTime, InFrame,
            MainState, ServerState, WorkerState
<1>0. ControlInv
  BY TypeParts DEF FrameInv
<1>1. ASSUME NEW kind \in {"starting", "remote"}, Connect(kind) PROVE ControlInv'
  BY <1>0, <1>1 DEF Connect
<1>2. CASE EnterGame
  BY <1>0, <1>2 DEF EnterGame
<1>3. CASE StartJob
  BY <1>0, <1>3 DEF StartJob
<1>4. CASE RaiseAbort
  BY <1>0, <1>4 DEF RaiseAbort
<1>5. CASE EndFrame
  <2>1. ControlOK'
    <3>1. abort' \in BOOLEAN
      BY <1>5, Zenon DEF EndFrame
    <3>2. QED BY <1>0, <1>5, <3>1 DEF EndFrame
  <2>2. OneToken' /\ ManagedInTime'
    BY <1>0, <1>5 DEF EndFrame
  <2>3. AbortInTime'
    BY <1>0, <1>5 DEF EndFrame
  <2>4. QED BY <2>1, <2>2, <2>3
<1>6. CASE CloseWindow
  BY <1>0, <1>6 DEF CloseWindow
<1>7. CASE JoinServer
  BY <1>0, <1>7 DEF JoinServer
<1>8. CASE TakeJob
  BY <1>0, <1>8 DEF TakeJob, worked
<1>9. CASE Manage
  BY <1>0, <1>9 DEF Manage, worked
<1>10. CASE Poll
  BY <1>0, <1>10 DEF Poll, worked
<1>11. CASE PollDone
  BY <1>0, <1>11 DEF PollDone, worked
<1>12. CASE Test
  BY <1>0, <1>12 DEF Test, worked
<1>13. CASE Handle
  BY <1>0, <1>13 DEF Handle, worked
<1>14. CASE Return
  BY <1>0, <1>14 DEF Return, worked
<1>15. CASE ServerReady
  BY <1>0, <1>15 DEF ServerReady, served
<1>16. CASE ServerSend
  BY <1>0, <1>16 DEF ServerSend, served
<1>17. CASE ServerStop
  BY <1>0, <1>17 DEF ServerStop, served
<1>18. CASE ServerSaved
  BY <1>0, <1>18 DEF ServerSaved, served
<1>19. CASE UNCHANGED vars
  BY <1>0, <1>19 DEF vars
<1>20. QED
  BY <1>1, <1>2, <1>3, <1>4, <1>5, <1>6, <1>7, <1>8, <1>9, <1>10, <1>11, <1>12, <1>13, <1>14,
     <1>15, <1>16, <1>17, <1>18, <1>19 DEF Next

\* The packets: each action that touches them moves one to the next queue.
LEMMA PacketStep == FrameInv /\ [Next]_vars => (QueuesOK /\ PacketsInOrder)'
<1> SUFFICES ASSUME FrameInv, [Next]_vars PROVE (QueuesOK /\ PacketsInOrder)'
  OBVIOUS
<1>0. QueuesOK /\ PacketsInOrder
  BY TypeParts DEF FrameInv
<1>1. ASSUME UNCHANGED packets, worker' = "handle" => worker = "handle"
      PROVE  (QueuesOK /\ PacketsInOrder)'
  <2>1. sent' = sent /\ wire' = wire /\ buffer' = buffer /\ handled' = handled
    BY <1>1 DEF packets
  <2>2. InFlight' = InFlight
    BY <2>1, Zenon DEF InFlight
  <2>3. QueuesOK'
    BY <1>0, <2>1, Zenon DEF QueuesOK
  <2>4. PacketsInOrder'
    BY <1>0, <1>1, <2>1, <2>2, Zenon DEF PacketsInOrder
  <2>5. QED BY <2>3, <2>4
<1>2. CASE Poll
  <2>1. /\ wire # <<>> /\ wire \in Seq(Packet) /\ buffer \in Seq(Packet) /\ handled \in Seq(Packet)
        /\ wire' = Tail(wire) /\ buffer' = Append(buffer, Head(wire))
        /\ handled' = handled /\ sent' = sent /\ worker' = "poll"
    BY <1>0, <1>2 DEF Poll, worked, QueuesOK
  <2>2. /\ Append(buffer, Head(wire)) \in Seq(Packet)
        /\ Tail(wire) \in Seq(Packet)
        /\ Append(buffer, Head(wire)) \o Tail(wire) = buffer \o wire
    BY <2>1, HeadMoves
  <2>3. InFlight' = InFlight
    BY <2>1, <2>2, Zenon DEF InFlight
  <2>4. QueuesOK'
    BY <1>0, <2>1, <2>2, Zenon DEF QueuesOK
  <2>5. PacketsInOrder'
    <3>1. worker' # "handle"
      BY <2>1
    <3>2. QED BY <1>0, <2>1, <2>3, <3>1, Zenon DEF PacketsInOrder
  <2>6. QED BY <2>4, <2>5
<1>3. CASE Handle
  <2>0. buffer # <<>> /\ wire \in Seq(Packet) /\ buffer \in Seq(Packet) /\ handled \in Seq(Packet)
    BY <1>0, <1>3 DEF Handle, QueuesOK, PacketsInOrder
  <2>1. /\ handled' = Append(handled, Head(buffer)) /\ buffer' = Tail(buffer)
        /\ wire' = wire /\ sent' = sent /\ worker' = "test"
    BY <1>3 DEF Handle, worked
  <2>2. /\ Append(handled, Head(buffer)) \in Seq(Packet)
        /\ Tail(buffer) \in Seq(Packet)
        /\ Append(handled, Head(buffer)) \o Tail(buffer) = handled \o buffer
    BY <2>0, HeadMoves
  <2>3. InFlight' = InFlight
    <3>1. Append(handled, Head(buffer)) \o (Tail(buffer) \o wire) = handled \o (buffer \o wire)
      BY <2>0, HeadMovesOn
    <3>2. QED BY <2>1, <3>1, Zenon DEF InFlight
  <2>4. QueuesOK'
    BY <1>0, <2>1, <2>2, Zenon DEF QueuesOK
  <2>5. PacketsInOrder'
    <3>1. worker' # "handle"
      BY <2>1
    <3>2. QED BY <1>0, <2>1, <2>3, <3>1, Zenon DEF PacketsInOrder
  <2>6. QED BY <2>4, <2>5
<1>4. CASE ServerSend
  <2>0. /\ wire \in Seq(Packet) /\ buffer \in Seq(Packet) /\ handled \in Seq(Packet)
        /\ sent \in Nat /\ sent + 1 \in Packet
    BY <1>0, <1>4, FrameAssumption DEF ServerSend, QueuesOK, Packet
  <2>1. /\ sent' = sent + 1 /\ wire' = Append(wire, sent + 1)
        /\ buffer' = buffer /\ handled' = handled /\ worker' = worker
    BY <1>4 DEF ServerSend, served
  <2>2. /\ Append(wire, sent + 1) \in Seq(Packet)
        /\ handled \o (buffer \o wire) \in Seq(Packet)
        /\ handled \o (buffer \o Append(wire, sent + 1)) = Append(handled \o (buffer \o wire), sent + 1)
    <3> DEFINE x == sent + 1
    <3>1. wire \in Seq(Packet) /\ buffer \in Seq(Packet) /\ handled \in Seq(Packet) /\ x \in Packet
      BY <2>0
    <3> HIDE DEF x
    <3>2. Append(wire, x) \in Seq(Packet)
      BY <3>1, EndOfThree
    <3>3. handled \o (buffer \o wire) \in Seq(Packet)
      BY <3>1, EndOfThree
    <3>4. \A h, b, w \in Seq(Packet), y \in Packet :
             h \o (b \o Append(w, y)) = Append(h \o (b \o w), y)
      BY EndOfThree
    <3>5. handled \o (buffer \o Append(wire, x)) = Append(handled \o (buffer \o wire), x)
      BY <3>1, <3>4, Zenon
    <3>6. QED BY <3>2, <3>3, <3>5, Zenon DEF x
  <2>3. InFlight \in Seq(Packet) /\ InFlight' = Append(InFlight, sent + 1)
    BY <2>1, <2>2, Zenon DEF InFlight
  <2>4. InFlight = [n \in 1..sent |-> n]
    BY <1>0, Zenon DEF PacketsInOrder
  <2>5. InFlight' = [n \in 1..(sent + 1) |-> n]
    <3>1. [n \in 1..sent |-> n] \in Seq(Packet)
      BY <2>3, <2>4, Zenon
    <3>2. Append([n \in 1..sent |-> n], sent + 1) = [n \in 1..(sent + 1) |-> n]
      BY <2>0, <3>1, NextNumber, Zenon
    <3>3. QED BY <2>3, <2>4, <3>2, Zenon
  <2>6. QueuesOK'
    <3>1. sent' \in 0..MaxPackets
      BY <2>0, <2>1, FrameAssumption DEF Packet
    <3>2. QED BY <2>0, <2>1, <2>2, <3>1, Zenon DEF QueuesOK
  <2>7. PacketsInOrder'
    BY <1>0, <2>1, <2>5, Zenon DEF PacketsInOrder
  <2>8. QED BY <2>6, <2>7
<1>5. CASE Test
  <2>1. /\ UNCHANGED packets
        /\ worker' = "handle" => buffer # <<>>
    BY <1>5 DEF Test, worked, packets
  <2>2. sent' = sent /\ wire' = wire /\ buffer' = buffer /\ handled' = handled
    BY <2>1 DEF packets
  <2>3. QueuesOK'
    BY <1>0, <2>2, Zenon DEF QueuesOK
  <2>4. InFlight' = InFlight
    BY <2>2, Zenon DEF InFlight
  <2>5. PacketsInOrder'
    BY <1>0, <2>1, <2>2, <2>4, Zenon DEF PacketsInOrder
  <2>6. QED BY <2>3, <2>5
<1>6. ASSUME NEW kind \in {"starting", "remote"}, Connect(kind) PROVE (QueuesOK /\ PacketsInOrder)'
  BY <1>1, <1>6 DEF Connect, packets
<1>7. CASE EnterGame \/ StartJob \/ RaiseAbort \/ EndFrame \/ CloseWindow \/ JoinServer
  BY <1>1, <1>7 DEF EnterGame, StartJob, RaiseAbort, EndFrame, CloseWindow, JoinServer, packets
<1>8. CASE TakeJob \/ Manage \/ PollDone \/ Return
  BY <1>1, <1>8 DEF TakeJob, Manage, PollDone, Return, worked, packets
<1>9. CASE ServerReady \/ ServerStop \/ ServerSaved
  BY <1>1, <1>9 DEF ServerReady, ServerStop, ServerSaved, served, packets
<1>10. CASE UNCHANGED vars
  BY <1>1, <1>10 DEF vars, packets
<1>11. QED
  BY <1>2, <1>3, <1>4, <1>5, <1>6, <1>7, <1>8, <1>9, <1>10 DEF Next

LEMMA FrameAlways == Spec => []FrameInv
<1>1. FrameInv /\ [Next]_vars => FrameInv'
  <2> SUFFICES ASSUME FrameInv, [Next]_vars PROVE FrameInv'
    OBVIOUS
  <2>1. ControlInv' /\ (QueuesOK /\ PacketsInOrder)'
    BY ControlStep, PacketStep
  <2>2. TypeOK'
    BY <2>1 DEF TypeOK, ControlInv, ControlOK, QueuesOK, Packet
  <2>3. QED BY <2>1, <2>2 DEF FrameInv, ControlInv
<1>2. QED BY <1>1, InitFrame, PTL DEF Spec

-----------------------------------------------------------------------------
(* The state of the frame has its type; neither queue of the Job ever      *)
(* holds more than one token (util/Job).                                   *)
THEOREM FrameTypeCorrect == Spec => []TypeOK
<1>1. FrameInv => TypeOK
  BY DEF FrameInv
<1>2. QED BY <1>1, FrameAlways, PTL

(* Whenever the worker runs or has a job, the main thread is drawing or    *)
(* waiting: Client::render's startJob and waitForJob exclude the two from  *)
(* each other in the world and the ENet host, without a lock.              *)
THEOREM JobAlwaysWithinFrame == Spec => []JobWithinFrame
<1>1. FrameInv => JobWithinFrame
  BY DEF FrameInv, OneToken, InFrame, JobWithinFrame, TypeOK
<1>2. QED BY <1>1, FrameAlways, PTL

(* Every frame ends with the chunks around its own player position managed *)
(* (Client::manageChunks), whenever the abort flag went up.                *)
THEOREM FrameAlwaysManaged == Spec => []FrameManaged
<1>1. FrameInv => FrameManaged
  BY DEF FrameInv, ManagedInTime, InFrame, FrameManaged
<1>2. QED BY <1>1, FrameAlways, PTL

(* receivePackets handles the packets in the order they were sent, and an  *)
(* abort loses none, for any number of packets and of frames.              *)
THEOREM AlwaysInOrder == Spec => []InOrder
<1>1. FrameInv => InOrder
  <2> SUFFICES ASSUME FrameInv PROVE InOrder
    OBVIOUS
  <2>1. QueuesOK /\ PacketsInOrder
    BY TypeParts DEF FrameInv
  <2>2. (handled \o buffer) \o wire = handled \o (buffer \o wire)
    BY <2>1, ConcatAssociative DEF QueuesOK
  <2>3. QED BY <2>1, <2>2, Zenon DEF InOrder, PacketsInOrder, InFlight
<1>2. QED BY <1>1, FrameAlways, PTL

(* After the frame has been drawn the job handles at most the packet it    *)
(* had already begun (the loop's test of abortNetworkProcessing).          *)
THEOREM AbortAlwaysBounds == Spec => []AbortBounds
<1>1. FrameInv => AbortBounds
  BY DEF FrameInv, AbortInTime, AbortBounds
<1>2. QED BY <1>1, FrameAlways, PTL
=============================================================================
