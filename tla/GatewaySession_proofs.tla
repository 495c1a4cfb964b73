------------------------ MODULE GatewaySession_proofs ------------------------
(***************************************************************************)
(* Proofs about GatewaySession, for every number of events, sockets, cuts  *)
(* and sign-in ends and every size of ring, bus and queue: its type        *)
(* invariant, that the app's copy of the feed never has a hole (NoGap),    *)
(* and that the gateway implements the abstract Feed.  Then, of resuming:  *)
(* what is on its way to the app runs on from what it has (WholeReplay),   *)
(* only the socket attached right now detaches its session                 *)
(* (OnlyCurrentDetaches), and an ended sign-in's sessions are all told to  *)
(* close (SignedOutStaysOut).                                              *)
(***************************************************************************)
EXTENDS GatewaySession, SequenceTheorems, TLAPS

\* Stages of a socket in which nobody but its own handler can reach it.
Early == {"free", "hello", "spawned", "checked", "verified"}

\* A socket another part of the server may hold: only after it asked to be attached.
Late == {"attaching", "open", "gone"}
Handed(s, k) == stage[k] \in Late /\ SessionOf(k) = s

EarlyOK == \A k \in Sockets : stage[k] \in Early => queue[k] = <<>>

\* How far a handler has come, and what that says of its socket.
StagesOK ==
  \A k \in Sockets :
    /\ k > dials => stage[k] = "free"
    /\ stage[k] \in {"free", "hello"} => task[k] = "none"
    /\ stage[k] \in {"spawned", "checked"} => task[k] # "none" /\ opener[k].op = "identify"
    /\ stage[k] = "verified" => opener[k].op = "resume"
    /\ opener[k].op = "resume" => opener[k].sess # 0

SocketsOK == EarlyOK /\ StagesOK

SinkOK == \A s \in Sockets : sink[s] # 0 => Handed(s, sink[s])

TodoOK == \A s \in Sockets : todo[s].k # 0 => Handed(s, todo[s].k)

CtlOK == \A s \in Sockets : \A i \in DOMAIN ctl[s] :
  ctl[s][i].op = "attach" => ctl[s][i].k # 0 /\ Handed(s, ctl[s][i].k)

UnbornOK == \A s \in Sockets : task[s] = "none" => log[s] = <<>>

\* A session's log is exactly the visible events it took from the bus, in order.
LogOK ==
  \A s \in Sockets :
    /\ born[s] <= pos[s] /\ pos[s] <= bus
    /\ \A n \in DOMAIN log[s] : log[s][n] \in Visible(pos[s]) /\ log[s][n] > born[s]
    /\ \A e \in Visible(pos[s]) : e > born[s] => \E n \in DOMAIN log[s] : log[s][n] = e
    /\ \A m, n \in DOMAIN log[s] : m < n => log[s][m] < log[s][n]

\* What a frame on its way over socket k says is true of the session it came from.
FrameOK(k, f) ==
  /\ f.op = "event" => /\ f.sess = SessionOf(k)
                       /\ f.n \in DOMAIN log[f.sess] /\ f.e = log[f.sess][f.n]
  /\ f.op = "ready" => /\ opener[k].op = "identify" /\ f.sess = k /\ task[k] # "none"
                       /\ born[k] <= f.snap /\ f.snap <= bus

FramesOK == \A k \in Sockets : \A i \in DOMAIN queue[k] : FrameOK(k, queue[k][i])

\* The app's session is the one its socket was opened for; `ready` comes first.
AppOK ==
  /\ conn # 0 =>
       /\ stage[conn] # "free"
       /\ session \in {0, SessionOf(conn)}
       /\ opener[conn].op = "identify" /\ stage[conn] \in Early => session = 0
       /\ \A i \in DOMAIN queue[conn] :
            queue[conn][i].op = "ready" =>
              i = 1 /\ session = 0 /\ knows \subseteq Visible(queue[conn][i].snap)
  /\ session # 0 => task[session] # "none"

\* What the app has: all from before its session, and all its session sent up to
\* the last number taken.
KnowsOK ==
  session # 0 =>
    /\ Visible(born[session]) \subseteq knows
    /\ last <= Len(log[session])
    /\ \A n \in 1..last : log[session][n] \in knows

IInv ==
  /\ TypeOK /\ SocketsOK /\ SinkOK /\ TodoOK /\ CtlOK /\ UnbornOK
  /\ LogOK /\ FramesOK /\ AppOK /\ KnowsOK /\ NoGap
-----------------------------------------------------------------------------
(* The type invariant                                                      *)

\* Socket numbers are positive: 0 is free to stand for None.
LEMMA SocketFacts == 0 \notin Sockets /\ Sockets \subseteq Nat
  BY GatewayAssumption DEF Sockets

\* The frames and control messages the actions build.
LEMMA Built ==
  /\ \A s \in Sockets, n, e \in Nat : EventFrame(s, n, e) \in Frames
  /\ \A s \in Sockets, c \in Nat : ReadyFrame(s, c) \in Frames
  /\ \A s \in Sockets : ResumedFrame(s) \in Frames
  /\ \A s \in Sockets \union {0} :
       InvalidFrame(s, "unauthenticated") \in Frames /\ InvalidFrame(s, "expired") \in Frames
  /\ \A o \in {"attach", "detach", "close"}, k \in Sockets \union {0}, n \in Nat :
       Ctl(o, k, n) \in Controls
  BY DEF Frames, Controls, EventFrame, ReadyFrame, ResumedFrame, InvalidFrame, Ctl

\* Adding one frame or one control message keeps the queues well typed.
LEMMA QueueTyped ==
  ASSUME NEW q \in [Sockets -> Seq(Frames)], NEW k, NEW f \in Frames
  PROVE  [q EXCEPT ![k] = Append(q[k], f)] \in [Sockets -> Seq(Frames)]
<1>1. CASE k \in Sockets
  BY <1>1
<1>2. CASE k \notin Sockets
  BY <1>2
<1> QED
  BY <1>1, <1>2

\* The same for the control channels.
LEMMA CtlTyped ==
  ASSUME NEW q \in [Sockets -> Seq(Controls)], NEW k, NEW c \in Controls
  PROVE  [q EXCEPT ![k] = Append(q[k], c)] \in [Sockets -> Seq(Controls)]
<1>1. CASE k \in Sockets
  BY <1>1
<1>2. CASE k \notin Sockets
  BY <1>2
<1> QED
  BY <1>1, <1>2

\* Gateway::new, and an app that has not dialled, have the right shape.
LEMMA InitType == Init => TypeOK
  BY GatewayAssumption DEF Init, TypeOK, TypeServer, TypeTasks, TypeWires, TypeClient,
     Sockets, None, NoOpener

\* Every step keeps the shape of the bus and the sign-in generations.
LEMMA ServerStep == TypeServer /\ [Next]_vars => TypeServer'
<1> SUFFICES ASSUME TypeServer, [Next]_vars PROVE TypeServer'
  OBVIOUS
<1> USE DEF TypeServer
<1>1. CASE CloseSessions
  BY <1>1 DEF CloseSessions
<1>2. CASE Publish
  BY <1>2 DEF Publish
<1>3. CASE EndSignIns
  BY <1>3 DEF EndSignIns
<1>4. ASSUME NEW s \in Sockets,
           ReadBus(s) \/ Lag(s) \/ TakeAttach(s) \/ RefuseAttach(s) \/ ReplayOne(s) \/
           ReplayFails(s) \/ ReplayDone(s) \/ TakeDetach(s) \/ TakeClose(s) \/
           WindowCloses(s) \/ HandshakeTimesOut(s) \/ Identify(s) \/ CheckIdentify(s) \/
           SendReady(s) \/ ReadyUnsent(s) \/ CheckResume(s) \/ LookUpResume(s) \/
           AttachRefused(s) \/ SocketEnds(s)
     PROVE  TypeServer'
  BY <1>4 DEF ReadBus, Lag, TakeAttach, RefuseAttach, ReplayOne, ReplayFails,
     ReplayDone, TakeDetach, TakeClose, WindowCloses, HandshakeTimesOut, Identify,
     CheckIdentify, SendReady, ReadyUnsent, CheckResume, LookUpResume, AttachRefused,
     SocketEnds, EndTask, Refused, TrySend, server
<1>5. CASE Dial \/ Receive \/ Dropped \/ Cut \/ Shutdown \/ SetToken \/ UNCHANGED vars
  BY <1>5 DEF Dial, Receive, Dropped, Cut, Shutdown, SetToken, ApplyEvent, ApplyInvalid,
     ApplyReady, ApplyResumed, Reauth, Restart, vars, server
<1> QED
  BY <1>1, <1>2, <1>3, <1>4, <1>5 DEF Next, Progress, Environment, Task, Socket

\* Every step keeps the shape of what a session task has.
LEMMA TasksStep == TypeServer /\ TypeTasks /\ TypeWires /\ [Next]_vars => TypeTasks'
<1> SUFFICES ASSUME TypeServer /\ TypeTasks /\ TypeWires, [Next]_vars PROVE TypeTasks'
  OBVIOUS
<1> USE DEF TypeTasks
<1>1. ASSUME NEW s \in Sockets, ReadBus(s) PROVE TypeTasks'
  <2>1. CASE pos[s] + 1 \in Hidden
    BY <1>1, <2>1 DEF ReadBus
  <2>2. CASE pos[s] + 1 \notin Hidden
    <3>1. pos' = [pos EXCEPT ![s] = pos[s] + 1] /\ UNCHANGED <<task, born, todo, ctl>>
      BY <1>1 DEF ReadBus
    <3>2. log' = [log EXCEPT ![s] = Append(log[s], pos[s] + 1)]
      BY <1>1, <2>2 DEF ReadBus
    <3>3. log' \in [Sockets -> Seq(Nat)]
      BY <3>2
    <3>4. PICK g \in 0..(Len(log[s]) + 1) : letGo' = [letGo EXCEPT ![s] = g]
      BY <1>1, <2>2 DEF ReadBus
    <3>5. letGo' \in [Sockets -> Nat]
      BY <3>4
    <3>6. sink' \in [Sockets -> Sockets \union {0}]
      BY <1>1, <2>2 DEF ReadBus, TrySend
    <3>7. pos' \in [Sockets -> Nat]
      BY <3>1
    <3> QED
      BY <3>1, <3>3, <3>5, <3>6, <3>7
  <2> QED
    BY <2>1, <2>2
<1>2. ASSUME NEW s \in Sockets, Lag(s) PROVE TypeTasks'
  BY <1>2 DEF Lag, EndTask, None
<1>3. ASSUME NEW s \in Sockets, TakeAttach(s) PROVE TypeTasks'
  <2> DEFINE c == Head(ctl[s])
  <2>1. c \in Controls /\ Tail(ctl[s]) \in Seq(Controls)
    BY <1>3 DEF TakeAttach
  <2>2. c.k \in Sockets \union {0} /\ c.from \in Nat
    BY <2>1 DEF Controls
  <2>3. After(s, c.from) \in Nat \ {0}
    <3>1. letGo[s] \in Nat
      OBVIOUS
    <3> HIDE DEF c, TypeTasks
    <3> QED
      BY <2>2, <3>1 DEF After
  <2>4. /\ task' = [task EXCEPT ![s] = "replaying"]
        /\ todo' = [todo EXCEPT ![s] = [k |-> c.k, next |-> After(s, c.from)]]
        /\ ctl' = [ctl EXCEPT ![s] = Tail(ctl[s])]
        /\ UNCHANGED <<born, pos, log, letGo, sink>>
    BY <1>3 DEF TakeAttach
  <2>5. ctl' \in [Sockets -> Seq(Controls)]
    BY <2>1, <2>4
  <2>6. todo' \in [Sockets -> [k : Sockets \union {0}, next : Nat \ {0}]]
    BY <2>2, <2>3, <2>4
  <2> QED
    BY <2>4, <2>5, <2>6
<1>4. ASSUME NEW s \in Sockets, RefuseAttach(s) PROVE TypeTasks'
  BY <1>4 DEF RefuseAttach, EndTask, None
<1>5. ASSUME NEW s \in Sockets, ReplayOne(s) PROVE TypeTasks'
  BY <1>5 DEF ReplayOne
<1>6. ASSUME NEW s \in Sockets, ReplayFails(s) PROVE TypeTasks'
  BY <1>6 DEF ReplayFails, None
<1>7. ASSUME NEW s \in Sockets, ReplayDone(s) PROVE TypeTasks'
  BY <1>7 DEF ReplayDone, None
<1>8. ASSUME NEW s \in Sockets, TakeDetach(s) PROVE TypeTasks'
  <2>1. Tail(ctl[s]) \in Seq(Controls)
    BY <1>8 DEF TakeDetach
  <2>2. /\ sink' = [sink EXCEPT ![s] = Detached(s, Head(ctl[s]).k)]
        /\ ctl' = [ctl EXCEPT ![s] = Tail(ctl[s])]
        /\ UNCHANGED <<task, born, pos, log, letGo, todo>>
    BY <1>8 DEF TakeDetach
  <2>3. Detached(s, Head(ctl[s]).k) \in Sockets \union {0}
    BY DEF Detached
  <2> QED
    BY <2>1, <2>2, <2>3
<1>9. ASSUME NEW s \in Sockets, TakeClose(s) PROVE TypeTasks'
  BY <1>9 DEF TakeClose, EndTask, None
<1>10. ASSUME NEW s \in Sockets, WindowCloses(s) PROVE TypeTasks'
  BY <1>10 DEF WindowCloses, EndTask, None
<1>11. ASSUME NEW s \in Sockets, Identify(s) PROVE TypeTasks'
  BY <1>11 DEF Identify, TypeServer
<1>12. ASSUME NEW s \in Sockets, CheckIdentify(s) PROVE TypeTasks'
  <2>1. CASE UNCHANGED tasks
    BY <2>1 DEF tasks
  <2>2. CASE EndTask(s)
    BY <2>2 DEF EndTask, None
  <2> QED
    BY <1>12, <2>1, <2>2 DEF CheckIdentify
<1>13. ASSUME NEW s \in Sockets, SendReady(s) PROVE TypeTasks'
  <2>1. Ctl("attach", s, 0) \in Controls
    BY Built
  <2>2. ctl' \in [Sockets -> Seq(Controls)]
    BY <1>13, <2>1, CtlTyped DEF SendReady, Attach
  <2> QED
    BY <1>13, <2>2 DEF SendReady
<1>14. ASSUME NEW s \in Sockets, LookUpResume(s) PROVE TypeTasks'
  <2>1. opener[s].from \in Nat
    BY DEF TypeWires
  <2>2. Ctl("attach", s, opener[s].from) \in Controls
    BY <2>1, Built
  <2>3. Attach(opener[s].sess, s, opener[s].from) \in [Sockets -> Seq(Controls)]
    BY <2>2, CtlTyped DEF Attach
  <2>4. ctl' = ctl \/ ctl' = Attach(opener[s].sess, s, opener[s].from)
    BY <1>14 DEF LookUpResume
  <2> QED
    BY <1>14, <2>3, <2>4 DEF LookUpResume
<1>15. ASSUME NEW s \in Sockets, SocketEnds(s) PROVE TypeTasks'
  <2>1. Ctl("detach", s, 0) \in Controls
    BY Built
  <2>2. ctl' \in [Sockets -> Seq(Controls)]
    BY <1>15, <2>1, CtlTyped DEF SocketEnds
  <2> QED
    BY <1>15, <2>2 DEF SocketEnds
<1>16. CASE CloseSessions
  <2>1. Ctl("close", 0, 0) \in Controls
    BY Built
  <2>2. ctl' \in [Sockets -> Seq(Controls)]
    BY <1>16, <2>1 DEF CloseSessions
  <2> QED
    BY <1>16, <2>2 DEF CloseSessions
<1>17. ASSUME NEW s \in Sockets,
           HandshakeTimesOut(s) \/ ReadyUnsent(s) \/ CheckResume(s) \/ AttachRefused(s)
     PROVE  TypeTasks'
  BY <1>17 DEF HandshakeTimesOut, ReadyUnsent, CheckResume, AttachRefused, Refused,
     tasks
<1>18. CASE Dial \/ Receive \/ Dropped \/ Publish \/ EndSignIns \/ Cut \/ Shutdown \/ SetToken \/ UNCHANGED vars
  BY <1>18 DEF Dial, Receive, Dropped, Publish, EndSignIns, Cut, Shutdown, SetToken,
     ApplyEvent, ApplyInvalid, ApplyReady, ApplyResumed, Reauth, Restart, vars, tasks
<1> QED
  BY <1>1, <1>2, <1>3, <1>4, <1>5, <1>6, <1>7, <1>8, <1>9, <1>10, <1>11, <1>12, <1>13,
     <1>14, <1>15, <1>16, <1>17, <1>18 DEF Next, Progress, Environment, Task, Socket

\* Every step keeps the shape of the sockets and what is queued on them.
LEMMA WiresStep == TypeServer /\ TypeTasks /\ TypeWires /\ TypeClient /\ [Next]_vars => TypeWires'
<1> SUFFICES ASSUME TypeServer /\ TypeTasks /\ TypeWires /\ TypeClient, [Next]_vars PROVE TypeWires'
  OBVIOUS
<1> USE DEF TypeWires
<1>1. ASSUME NEW s \in Sockets, ReadBus(s) PROVE TypeWires'
  <2>1. EventFrame(s, Len(log[s]) + 1, pos[s] + 1) \in Frames
    BY Built DEF TypeTasks
  <2>2. \/ UNCHANGED queue
        \/ queue' = [queue EXCEPT ![sink[s]] =
             Append(queue[sink[s]], EventFrame(s, Len(log[s]) + 1, pos[s] + 1))]
    BY <1>1 DEF ReadBus, TrySend
  <2>3. [queue EXCEPT ![sink[s]] = Append(queue[sink[s]],
           EventFrame(s, Len(log[s]) + 1, pos[s] + 1))] \in [Sockets -> Seq(Frames)]
    BY <2>1, QueueTyped
  <2>4. queue' \in [Sockets -> Seq(Frames)]
    BY <2>2, <2>3
  <2> QED
    BY <1>1, <2>4 DEF ReadBus
<1>2. ASSUME NEW s \in Sockets, TakeAttach(s) PROVE TypeWires'
  <2> DEFINE k == Head(ctl[s]).k
  <2>1. ResumedFrame(s) \in Frames
    BY Built
  <2>2. queue' = queue \/ queue' = [queue EXCEPT ![k] = Append(queue[k], ResumedFrame(s))]
    BY <1>2 DEF TakeAttach
  <2>3. [queue EXCEPT ![k] = Append(queue[k], ResumedFrame(s))] \in [Sockets -> Seq(Frames)]
    BY <2>1, QueueTyped
  <2>4. queue' \in [Sockets -> Seq(Frames)]
    BY <2>2, <2>3
  <2>5. stage' = [stage EXCEPT ![k] = "open"] /\ UNCHANGED <<opener, cut>>
    BY <1>2 DEF TakeAttach
  <2> QED
    BY <2>4, <2>5
<1>3. ASSUME NEW s \in Sockets, ReplayOne(s) PROVE TypeWires'
  <2>1. log[s][todo[s].next] \in Nat /\ todo[s].next \in Nat
    BY <1>3 DEF ReplayOne, TypeTasks
  <2>2. EventFrame(s, todo[s].next, log[s][todo[s].next]) \in Frames
    BY <2>1, Built
  <2>3. queue' \in [Sockets -> Seq(Frames)]
    BY <1>3, <2>2, QueueTyped DEF ReplayOne
  <2> QED
    BY <1>3, <2>3 DEF ReplayOne
<1>4. ASSUME NEW s \in Sockets, TakeClose(s) PROVE TypeWires'
  <2>1. InvalidFrame(s, "unauthenticated") \in Frames
    BY Built
  <2>2. [queue EXCEPT ![sink[s]] = Append(queue[sink[s]], InvalidFrame(s, "unauthenticated"))]
          \in [Sockets -> Seq(Frames)]
    BY <2>1, QueueTyped
  <2>3. queue' \in [Sockets -> Seq(Frames)]
    BY <1>4, <2>2 DEF TakeClose
  <2> QED
    BY <1>4, <2>3 DEF TakeClose
<1>5. ASSUME NEW s \in Sockets, HandshakeTimesOut(s) PROVE TypeWires'
  BY <1>5 DEF HandshakeTimesOut
<1>6. ASSUME NEW s \in Sockets, Identify(s) PROVE TypeWires'
  BY <1>6 DEF Identify
<1>7. ASSUME NEW s \in Sockets, CheckIdentify(s) PROVE TypeWires'
  <2>1. InvalidFrame(0, "unauthenticated") \in Frames
    BY Built
  <2>2. queue' = queue \/ queue' = [queue EXCEPT ![s] = Append(queue[s], InvalidFrame(0, "unauthenticated"))]
    BY <1>7 DEF CheckIdentify, Refused
  <2>3. [queue EXCEPT ![s] = Append(queue[s], InvalidFrame(0, "unauthenticated"))] \in [Sockets -> Seq(Frames)]
    BY <2>1, QueueTyped
  <2>4. queue' \in [Sockets -> Seq(Frames)]
    BY <2>2, <2>3
  <2>5. stage' \in [Sockets -> {"free", "hello", "spawned", "checked", "verified",
                               "attaching", "open", "gone"}]
    BY <1>7 DEF CheckIdentify
  <2> QED
    BY <1>7, <2>4, <2>5 DEF CheckIdentify
<1>8. ASSUME NEW s \in Sockets, SendReady(s) PROVE TypeWires'
  <2>1. ReadyFrame(s, bus) \in Frames
    BY Built DEF TypeServer
  <2>2. queue' \in [Sockets -> Seq(Frames)]
    BY <1>8, <2>1, QueueTyped DEF SendReady
  <2> QED
    BY <1>8, <2>2 DEF SendReady
<1>9. ASSUME NEW s \in Sockets, ReadyUnsent(s) PROVE TypeWires'
  BY <1>9 DEF ReadyUnsent
<1>10. ASSUME NEW s \in Sockets, CheckResume(s) PROVE TypeWires'
  <2>1. InvalidFrame(0, "unauthenticated") \in Frames
    BY Built
  <2>2. queue' = queue \/ queue' = [queue EXCEPT ![s] = Append(queue[s], InvalidFrame(0, "unauthenticated"))]
    BY <1>10 DEF CheckResume, Refused
  <2>3. [queue EXCEPT ![s] = Append(queue[s], InvalidFrame(0, "unauthenticated"))] \in [Sockets -> Seq(Frames)]
    BY <2>1, QueueTyped
  <2>4. queue' \in [Sockets -> Seq(Frames)]
    BY <2>2, <2>3
  <2>5. stage' \in [Sockets -> {"free", "hello", "spawned", "checked", "verified",
                               "attaching", "open", "gone"}]
    BY <1>10 DEF CheckResume
  <2> QED
    BY <1>10, <2>4, <2>5 DEF CheckResume
<1>11. ASSUME NEW s \in Sockets, LookUpResume(s) PROVE TypeWires'
  <2>1. InvalidFrame(0, "expired") \in Frames
    BY Built
  <2>2. queue' = queue \/ queue' = [queue EXCEPT ![s] = Append(queue[s], InvalidFrame(0, "expired"))]
    BY <1>11 DEF LookUpResume, Refused
  <2>3. [queue EXCEPT ![s] = Append(queue[s], InvalidFrame(0, "expired"))] \in [Sockets -> Seq(Frames)]
    BY <2>1, QueueTyped
  <2>4. queue' \in [Sockets -> Seq(Frames)]
    BY <2>2, <2>3
  <2>5. stage' \in [Sockets -> {"free", "hello", "spawned", "checked", "verified",
                               "attaching", "open", "gone"}]
    BY <1>11 DEF LookUpResume
  <2> QED
    BY <1>11, <2>4, <2>5 DEF LookUpResume
<1>12. ASSUME NEW s \in Sockets, AttachRefused(s) PROVE TypeWires'
  <2>1. InvalidFrame(0, "expired") \in Frames
    BY Built
  <2>2. queue' = queue \/ queue' = [queue EXCEPT ![s] = Append(queue[s], InvalidFrame(0, "expired"))]
    BY <1>12 DEF AttachRefused, Refused
  <2>3. [queue EXCEPT ![s] = Append(queue[s], InvalidFrame(0, "expired"))] \in [Sockets -> Seq(Frames)]
    BY <2>1, QueueTyped
  <2>4. queue' \in [Sockets -> Seq(Frames)]
    BY <2>2, <2>3
  <2>5. stage' \in [Sockets -> {"free", "hello", "spawned", "checked", "verified",
                               "attaching", "open", "gone"}]
    BY <1>12 DEF AttachRefused
  <2> QED
    BY <1>12, <2>4, <2>5 DEF AttachRefused
<1>13. ASSUME NEW s \in Sockets, SocketEnds(s) PROVE TypeWires'
  BY <1>13 DEF SocketEnds
<1>14. CASE Dial
  BY <1>14 DEF Dial, ResumeFrom, TypeClient
<1>15. CASE Receive
  BY <1>15 DEF Receive, TypeClient
<1>16. CASE Cut
  BY <1>16 DEF Cut, TypeClient
<1>17. ASSUME NEW s \in Sockets,
           Lag(s) \/ RefuseAttach(s) \/ ReplayFails(s) \/ ReplayDone(s) \/ TakeDetach(s) \/
           WindowCloses(s)
     PROVE  TypeWires'
  BY <1>17 DEF Lag, RefuseAttach, ReplayFails, ReplayDone, TakeDetach, WindowCloses,
     EndTask, wires
<1>18. CASE CloseSessions \/ Dropped \/ Publish \/ EndSignIns \/ Shutdown \/ SetToken \/ UNCHANGED vars
  BY <1>18 DEF CloseSessions, Dropped, Publish, EndSignIns, Shutdown, SetToken, vars,
     wires
<1> QED
  BY <1>1, <1>2, <1>3, <1>4, <1>5, <1>6, <1>7, <1>8, <1>9, <1>10, <1>11, <1>12, <1>13,
     <1>14, <1>15, <1>16, <1>17, <1>18 DEF Next, Progress, Environment, Task, Socket

\* Every step keeps the shape of the app's Runner.
LEMMA ClientStep == TypeServer /\ TypeWires /\ TypeClient /\ [Next]_vars => TypeClient'
<1> SUFFICES ASSUME TypeServer /\ TypeWires /\ TypeClient, [Next]_vars PROVE TypeClient'
  OBVIOUS
<1> USE SocketFacts, GatewayAssumption DEF TypeClient
<1>1. CASE Dial
  BY <1>1 DEF Dial
<1>2. CASE Receive
  <2> DEFINE f == Head(queue[conn])
  <2>1. f \in Frames
    BY <1>2 DEF Receive, TypeWires
  <2>2. f.sess \in Sockets \union {0}
    BY <2>1 DEF Frames
  <2>3. f.op = "event" => f.n \in Nat /\ f.e \in Nat
    BY <2>1 DEF Frames
  <2>4. UNCHANGED <<runner, dials>>
        /\ (ApplyReady(f) \/ ApplyInvalid(f) \/ ApplyEvent(f) \/ ApplyResumed(f))
    BY <1>2 DEF Receive
  <2> HIDE DEF f
  <2>5. CASE ApplyReady(f)
    BY <2>2, <2>4, <2>5 DEF ApplyReady, Visible
  <2>6. CASE ApplyInvalid(f)
    BY <2>4, <2>6 DEF ApplyInvalid, Restart, Reauth, NoToken
  <2>7. CASE ApplyEvent(f)
    <3>1. last' \in Nat /\ conn' \in Sockets \union {0} /\ session' \in Sockets \union {0}
      BY <2>3, <2>7 DEF ApplyEvent, Restart
    <3>2. knows' \subseteq Nat /\ UNCHANGED token
      BY <2>3, <2>7 DEF ApplyEvent, Restart
    <3> QED
      BY <2>4, <3>1, <3>2
  <2>8. CASE ApplyResumed(f)
    BY <2>4, <2>8 DEF ApplyResumed
  <2> QED
    BY <2>4, <2>5, <2>6, <2>7, <2>8
<1>3. CASE Dropped
  BY <1>3 DEF Dropped
<1>4. CASE Shutdown
  BY <1>4 DEF Shutdown
<1>5. CASE SetToken
  BY <1>5 DEF SetToken, TypeServer
<1>6. ASSUME NEW s \in Sockets,
           ReadBus(s) \/ Lag(s) \/ TakeAttach(s) \/ RefuseAttach(s) \/ ReplayOne(s) \/
           ReplayFails(s) \/ ReplayDone(s) \/ TakeDetach(s) \/ TakeClose(s) \/
           WindowCloses(s) \/ HandshakeTimesOut(s) \/ Identify(s) \/ CheckIdentify(s) \/
           SendReady(s) \/ ReadyUnsent(s) \/ CheckResume(s) \/ LookUpResume(s) \/
           AttachRefused(s) \/ SocketEnds(s)
     PROVE  TypeClient'
  BY <1>6 DEF ReadBus, Lag, TakeAttach, RefuseAttach, ReplayOne, ReplayFails,
     ReplayDone, TakeDetach, TakeClose, WindowCloses, HandshakeTimesOut, Identify,
     CheckIdentify, SendReady, ReadyUnsent, CheckResume, LookUpResume, AttachRefused,
     SocketEnds, EndTask, Refused, TrySend, client
<1>7. CASE CloseSessions \/ Publish \/ EndSignIns \/ Cut \/ UNCHANGED vars
  BY <1>7 DEF CloseSessions, Publish, EndSignIns, Cut, vars, client
<1> QED
  BY <1>1, <1>2, <1>3, <1>4, <1>5, <1>6, <1>7 DEF Next, Progress, Environment, Task,
     Socket

\* The shape of the state, in every reachable state of every instance.
THEOREM TypeCorrect == Spec => []TypeOK
<1>1. TypeOK /\ [Next]_vars => TypeOK'
  BY ServerStep, TasksStep, WiresStep, ClientStep DEF TypeOK
<1> QED
  BY InitType, <1>1, PTL DEF Spec

-----------------------------------------------------------------------------
(* What no step takes back                                                 *)

OpenersKept == \A k \in Sockets :
  stage[k] # "free" => stage'[k] # "free" /\ opener'[k] = opener[k]
LateKept == \A k \in Sockets : stage[k] \in Late => stage'[k] \in Late
SessionsKept == \A t \in Sockets :
  task[t] # "none" => task'[t] # "none" /\ born'[t] = born[t]
LogsKept == \A t \in Sockets : \A n \in DOMAIN log[t] :
  n \in DOMAIN log'[t] /\ log'[t][n] = log[t][n]

\* A socket that was dialled stays dialled, and keeps the opener its app sent on it.
LEMMA OpenersStep == SocketsOK /\ TypeWires /\ TypeClient /\ [Next]_vars => OpenersKept
<1> SUFFICES ASSUME SocketsOK /\ TypeWires /\ TypeClient, [Next]_vars PROVE OpenersKept
  OBVIOUS
<1> USE DEF OpenersKept, TypeWires
<1>1. ASSUME NEW s \in Sockets, TakeAttach(s) PROVE OpenersKept
  BY <1>1 DEF TakeAttach
<1>2. ASSUME NEW s \in Sockets, HandshakeTimesOut(s) PROVE OpenersKept
  BY <1>2 DEF HandshakeTimesOut
<1>3. ASSUME NEW s \in Sockets, Identify(s) PROVE OpenersKept
  BY <1>3 DEF Identify
<1>4. ASSUME NEW s \in Sockets, CheckIdentify(s) PROVE OpenersKept
  BY <1>4 DEF CheckIdentify
<1>5. ASSUME NEW s \in Sockets, SendReady(s) PROVE OpenersKept
  BY <1>5 DEF SendReady
<1>6. ASSUME NEW s \in Sockets, ReadyUnsent(s) PROVE OpenersKept
  BY <1>6 DEF ReadyUnsent
<1>7. ASSUME NEW s \in Sockets, CheckResume(s) PROVE OpenersKept
  BY <1>7 DEF CheckResume
<1>8. ASSUME NEW s \in Sockets, LookUpResume(s) PROVE OpenersKept
  BY <1>8 DEF LookUpResume
<1>9. ASSUME NEW s \in Sockets, AttachRefused(s) PROVE OpenersKept
  BY <1>9 DEF AttachRefused
<1>10. ASSUME NEW s \in Sockets, SocketEnds(s) PROVE OpenersKept
  BY <1>10 DEF SocketEnds
<1>11. CASE Dial
  <2>1. dials + 1 \in Sockets /\ stage[dials + 1] = "free"
    BY <1>11, SocketFacts DEF Dial, SocketsOK, EarlyOK, StagesOK, TypeClient
  <2> QED
    BY <1>11, <2>1 DEF Dial
<1>12. ASSUME NEW s \in Sockets,
           ReadBus(s) \/ Lag(s) \/ RefuseAttach(s) \/ ReplayOne(s) \/ ReplayFails(s) \/
           ReplayDone(s) \/ TakeDetach(s) \/ TakeClose(s) \/ WindowCloses(s)
     PROVE  OpenersKept
  BY <1>12 DEF ReadBus, Lag, RefuseAttach, ReplayOne, ReplayFails, ReplayDone,
     TakeDetach, TakeClose, WindowCloses, EndTask, TrySend, wires
<1>13. CASE CloseSessions \/ Receive \/ Dropped \/ Publish \/ EndSignIns \/ Cut \/ Shutdown \/ SetToken \/ UNCHANGED vars
  BY <1>13 DEF CloseSessions, Receive, Dropped, Publish, EndSignIns, Cut, Shutdown,
     SetToken, ApplyEvent, ApplyInvalid, ApplyReady, ApplyResumed, Reauth, Restart,
     vars, wires
<1> QED
  BY <1>1, <1>2, <1>3, <1>4, <1>5, <1>6, <1>7, <1>8, <1>9, <1>10, <1>11, <1>12, <1>13
     DEF Next, Progress, Environment, Task, Socket

\* A socket that asked to be attached stays past its handshake.
LEMMA LateStep == SocketsOK /\ TypeWires /\ TypeClient /\ [Next]_vars => LateKept
<1> SUFFICES ASSUME SocketsOK /\ TypeWires /\ TypeClient, [Next]_vars PROVE LateKept
  OBVIOUS
<1> USE DEF LateKept, Late, TypeWires
<1>1. ASSUME NEW s \in Sockets, TakeAttach(s) PROVE LateKept
  BY <1>1 DEF TakeAttach
<1>2. ASSUME NEW s \in Sockets, HandshakeTimesOut(s) PROVE LateKept
  BY <1>2 DEF HandshakeTimesOut
<1>3. ASSUME NEW s \in Sockets, Identify(s) PROVE LateKept
  BY <1>3 DEF Identify
<1>4. ASSUME NEW s \in Sockets, CheckIdentify(s) PROVE LateKept
  BY <1>4 DEF CheckIdentify
<1>5. ASSUME NEW s \in Sockets, SendReady(s) PROVE LateKept
  BY <1>5 DEF SendReady
<1>6. ASSUME NEW s \in Sockets, ReadyUnsent(s) PROVE LateKept
  BY <1>6 DEF ReadyUnsent
<1>7. ASSUME NEW s \in Sockets, CheckResume(s) PROVE LateKept
  BY <1>7 DEF CheckResume
<1>8. ASSUME NEW s \in Sockets, LookUpResume(s) PROVE LateKept
  BY <1>8 DEF LookUpResume
<1>9. ASSUME NEW s \in Sockets, AttachRefused(s) PROVE LateKept
  BY <1>9 DEF AttachRefused
<1>10. ASSUME NEW s \in Sockets, SocketEnds(s) PROVE LateKept
  BY <1>10 DEF SocketEnds
<1>11. CASE Dial
  <2>1. dials + 1 \in Sockets /\ stage[dials + 1] = "free"
    BY <1>11, SocketFacts DEF Dial, SocketsOK, EarlyOK, StagesOK, TypeClient
  <2> QED
    BY <1>11, <2>1 DEF Dial
<1>12. ASSUME NEW s \in Sockets,
           ReadBus(s) \/ Lag(s) \/ RefuseAttach(s) \/ ReplayOne(s) \/ ReplayFails(s) \/
           ReplayDone(s) \/ TakeDetach(s) \/ TakeClose(s) \/ WindowCloses(s)
     PROVE  LateKept
  BY <1>12 DEF ReadBus, Lag, RefuseAttach, ReplayOne, ReplayFails, ReplayDone,
     TakeDetach, TakeClose, WindowCloses, EndTask, TrySend, wires
<1>13. CASE CloseSessions \/ Receive \/ Dropped \/ Publish \/ EndSignIns \/ Cut \/ Shutdown \/ SetToken \/ UNCHANGED vars
  BY <1>13 DEF CloseSessions, Receive, Dropped, Publish, EndSignIns, Cut, Shutdown,
     SetToken, ApplyEvent, ApplyInvalid, ApplyReady, ApplyResumed, Reauth, Restart,
     vars, wires
<1> QED
  BY <1>1, <1>2, <1>3, <1>4, <1>5, <1>6, <1>7, <1>8, <1>9, <1>10, <1>11, <1>12, <1>13
     DEF Next, Progress, Environment, Task, Socket

\* A session, once spawned, is never spawned again, and keeps where it subscribed.
LEMMA SessionsStep == SocketsOK /\ TypeTasks /\ [Next]_vars => SessionsKept
<1> SUFFICES ASSUME SocketsOK /\ TypeTasks, [Next]_vars PROVE SessionsKept
  OBVIOUS
<1> USE DEF SessionsKept, TypeTasks
<1>1. ASSUME NEW s \in Sockets, ReadBus(s) PROVE SessionsKept
  BY <1>1 DEF ReadBus
<1>2. ASSUME NEW s \in Sockets, Lag(s) PROVE SessionsKept
  BY <1>2 DEF Lag, EndTask
<1>3. ASSUME NEW s \in Sockets, TakeAttach(s) PROVE SessionsKept
  BY <1>3 DEF TakeAttach
<1>4. ASSUME NEW s \in Sockets, RefuseAttach(s) PROVE SessionsKept
  BY <1>4 DEF RefuseAttach, EndTask
<1>5. ASSUME NEW s \in Sockets, ReplayOne(s) PROVE SessionsKept
  BY <1>5 DEF ReplayOne
<1>6. ASSUME NEW s \in Sockets, ReplayFails(s) PROVE SessionsKept
  BY <1>6 DEF ReplayFails
<1>7. ASSUME NEW s \in Sockets, ReplayDone(s) PROVE SessionsKept
  BY <1>7 DEF ReplayDone
<1>8. ASSUME NEW s \in Sockets, TakeDetach(s) PROVE SessionsKept
  BY <1>8 DEF TakeDetach
<1>9. ASSUME NEW s \in Sockets, TakeClose(s) PROVE SessionsKept
  BY <1>9 DEF TakeClose, EndTask
<1>10. ASSUME NEW s \in Sockets, WindowCloses(s) PROVE SessionsKept
  BY <1>10 DEF WindowCloses, EndTask
<1>11. ASSUME NEW s \in Sockets, Identify(s) PROVE SessionsKept
  BY <1>11 DEF Identify, SocketsOK, StagesOK
<1>12. ASSUME NEW s \in Sockets, CheckIdentify(s) PROVE SessionsKept
  <2>1. UNCHANGED <<task, born>> \/ (task' = [task EXCEPT ![s] = "ended"] /\ UNCHANGED born)
    BY <1>12 DEF CheckIdentify, EndTask, tasks
  <2> QED
    BY <2>1
<1>13. ASSUME NEW s \in Sockets, SendReady(s) PROVE SessionsKept
  BY <1>13 DEF SendReady
<1>14. ASSUME NEW s \in Sockets, LookUpResume(s) PROVE SessionsKept
  BY <1>14 DEF LookUpResume
<1>15. ASSUME NEW s \in Sockets, SocketEnds(s) PROVE SessionsKept
  BY <1>15 DEF SocketEnds
<1>16. CASE CloseSessions
  BY <1>16 DEF CloseSessions
<1>17. ASSUME NEW s \in Sockets,
           HandshakeTimesOut(s) \/ ReadyUnsent(s) \/ CheckResume(s) \/ AttachRefused(s)
     PROVE  SessionsKept
  BY <1>17 DEF HandshakeTimesOut, ReadyUnsent, CheckResume, AttachRefused, Refused,
     tasks
<1>18. CASE Dial \/ Receive \/ Dropped \/ Publish \/ EndSignIns \/ Cut \/ Shutdown \/ SetToken \/ UNCHANGED vars
  BY <1>18 DEF Dial, Receive, Dropped, Publish, EndSignIns, Cut, Shutdown, SetToken,
     ApplyEvent, ApplyInvalid, ApplyReady, ApplyResumed, Reauth, Restart, vars, tasks
<1> QED
  BY <1>1, <1>2, <1>3, <1>4, <1>5, <1>6, <1>7, <1>8, <1>9, <1>10, <1>11, <1>12, <1>13,
     <1>14, <1>15, <1>16, <1>17, <1>18 DEF Next, Progress, Environment, Task, Socket

\* A session renumbers nothing: its log only grows.
LEMMA LogsStep == TypeTasks /\ [Next]_vars => LogsKept
<1> SUFFICES ASSUME TypeTasks, [Next]_vars PROVE LogsKept
  OBVIOUS
<1> USE DEF LogsKept, TypeTasks
<1>1. ASSUME NEW s \in Sockets, ReadBus(s) PROVE LogsKept
  <2>1. UNCHANGED log \/ log' = [log EXCEPT ![s] = Append(log[s], pos[s] + 1)]
    BY <1>1 DEF ReadBus
  <2>2. CASE UNCHANGED log
    BY <2>2
  <2>3. CASE log' = [log EXCEPT ![s] = Append(log[s], pos[s] + 1)]
    <3>1. log'[s] = Append(log[s], pos[s] + 1) /\ \A t \in Sockets \ {s} : log'[t] = log[t]
      BY <2>3
    <3>2. log[s] \in Seq(Nat) /\ pos[s] + 1 \in Nat
      OBVIOUS
    <3>3. \A n \in DOMAIN log[s] : n \in DOMAIN log'[s] /\ log'[s][n] = log[s][n]
      BY <3>1, <3>2
    <3> QED
      BY <3>1, <3>3
  <2> QED
    BY <2>1, <2>2, <2>3
<1>2. ASSUME NEW s \in Sockets, CheckIdentify(s) PROVE LogsKept
  <2>1. UNCHANGED log
    BY <1>2 DEF CheckIdentify, EndTask, tasks
  <2> QED
    BY <2>1
<1>3. ASSUME NEW s \in Sockets,
           Lag(s) \/ TakeAttach(s) \/ RefuseAttach(s) \/ ReplayOne(s) \/ ReplayFails(s) \/
           ReplayDone(s) \/ TakeDetach(s) \/ TakeClose(s) \/ WindowCloses(s) \/
           HandshakeTimesOut(s) \/ Identify(s) \/ SendReady(s) \/ ReadyUnsent(s) \/
           CheckResume(s) \/ LookUpResume(s) \/ AttachRefused(s) \/ SocketEnds(s)
     PROVE  LogsKept
  BY <1>3 DEF Lag, TakeAttach, RefuseAttach, ReplayOne, ReplayFails, ReplayDone,
     TakeDetach, TakeClose, WindowCloses, HandshakeTimesOut, Identify, SendReady,
     ReadyUnsent, CheckResume, LookUpResume, AttachRefused, SocketEnds, EndTask,
     Refused, tasks
<1>4. CASE CloseSessions \/ Dial \/ Receive \/ Dropped \/ Publish \/ EndSignIns \/ Cut \/ Shutdown \/ SetToken \/ UNCHANGED vars
  BY <1>4 DEF CloseSessions, Dial, Receive, Dropped, Publish, EndSignIns, Cut, Shutdown,
     SetToken, ApplyEvent, ApplyInvalid, ApplyReady, ApplyResumed, Reauth, Restart,
     vars, tasks
<1> QED
  BY <1>1, <1>2, <1>3, <1>4 DEF Next, Progress, Environment, Task, Socket

\* A socket handed to a session stays that session's.
LEMMA HandedKept ==
  ASSUME OpenersKept, LateKept, NEW k \in Sockets, NEW t, Handed(t, k)
  PROVE  Handed(t, k)'
  BY DEF OpenersKept, LateKept, Handed, Late, SessionOf

\* A frame that was right when it was queued stays right.
LEMMA FrameKept ==
  ASSUME OpenersKept, SessionsKept, LogsKept, TypeServer, TypeTasks, TypeWires,
         bus' \in Nat, bus <= bus', NEW k \in Sockets, stage[k] # "free",
         NEW f \in Frames, FrameOK(k, f)
  PROVE  FrameOK(k, f)'
<1>1. opener'[k] = opener[k] /\ SessionOf(k)' = SessionOf(k)
  BY DEF OpenersKept, SessionOf
<1>2. CASE f.op = "event"
  BY <1>1, <1>2 DEF FrameOK, LogsKept, Frames
<1>3. CASE f.op = "ready"
  BY <1>1, <1>3 DEF FrameOK, SessionsKept, TypeServer, TypeTasks, Frames
<1> QED
  BY <1>2, <1>3 DEF FrameOK

-----------------------------------------------------------------------------
(* The inductive invariant, part by part                                   *)

\* The inductive invariant holds at the start.
LEMMA InitInv == Init => IInv
<1> SUFFICES ASSUME Init PROVE IInv
  OBVIOUS
<1>1. TypeOK
  BY InitType
<1>2. SocketsOK /\ SinkOK /\ TodoOK /\ UnbornOK
  BY DEF Init, SocketsOK, EarlyOK, StagesOK, SinkOK, TodoOK, UnbornOK, None, NoOpener
<1>3. CtlOK /\ FramesOK
  BY DEF Init, CtlOK, FramesOK
<1>4. LogOK
  BY GatewayAssumption DEF Init, LogOK, Visible
<1>5. AppOK /\ KnowsOK /\ NoGap
  BY DEF Init, AppOK, KnowsOK, NoGap
<1> QED
  BY <1>1, <1>2, <1>3, <1>4, <1>5 DEF IInv

\* Reading the bus, and nothing else, adds to a log, and adds the next visible event.
LEMMA LogOKStep == TypeServer /\ TypeTasks /\ SocketsOK /\ UnbornOK /\ LogOK /\ [Next]_vars => LogOK'
<1> SUFFICES ASSUME TypeServer /\ TypeTasks /\ SocketsOK /\ UnbornOK /\ LogOK, [Next]_vars PROVE LogOK'
  OBVIOUS
<1> USE DEF LogOK
<1>1. ASSUME NEW s \in Sockets, ReadBus(s) PROVE LogOK'
  <2> DEFINE e == pos[s] + 1
  <2>1. /\ pos' = [pos EXCEPT ![s] = e] /\ e <= bus
        /\ UNCHANGED <<born, bus>>
        /\ e \in Hidden => UNCHANGED log
        /\ e \notin Hidden => log' = [log EXCEPT ![s] = Append(log[s], e)]
    BY <1>1 DEF ReadBus, server
  <2>2. \A t \in Sockets \ {s} : pos'[t] = pos[t] /\ log'[t] = log[t] /\ born'[t] = born[t]
    BY <2>1 DEF TypeTasks
  <2>3. pos'[s] = e /\ pos[s] \in Nat /\ born[s] \in Nat /\ born'[s] = born[s] /\ log[s] \in Seq(Nat)
    BY <2>1 DEF TypeTasks
  <2>4. Visible(e) = Visible(pos[s]) \union ({e} \ Hidden)
    BY <2>3 DEF Visible
  <2>5. born[s] <= e /\ e <= bus'
    BY <2>1, <2>3
  <2>6. CASE e \in Hidden
    <3>1. Visible(e) = Visible(pos[s]) /\ log'[s] = log[s]
      BY <2>1, <2>4, <2>6
    <3> QED
      BY <2>1, <2>2, <2>3, <2>5, <3>1
  <2>7. CASE e \notin Hidden
    <3>1. log'[s] = Append(log[s], e) /\ Visible(e) = Visible(pos[s]) \union {e}
      BY <2>1, <2>4, <2>7 DEF TypeTasks
    <3>2. /\ DOMAIN log'[s] = DOMAIN log[s] \union {Len(log[s]) + 1}
          /\ log'[s][Len(log[s]) + 1] = e
          /\ \A n \in DOMAIN log[s] : log'[s][n] = log[s][n] /\ n < Len(log[s]) + 1
      BY <2>3, <3>1
    <3>3. \A n \in DOMAIN log[s] : log[s][n] <= pos[s] /\ log[s][n] > born[s]
      BY <2>3 DEF Visible
    <3>4. \A n \in DOMAIN log'[s] : log'[s][n] \in Visible(e) /\ log'[s][n] > born[s]
      BY <2>3, <3>1, <3>2, <3>3
    <3>5. \A x \in Visible(e) : x > born[s] => \E n \in DOMAIN log'[s] : log'[s][n] = x
      BY <3>1, <3>2
    <3>6. \A m, n \in DOMAIN log'[s] : m < n => log'[s][m] < log'[s][n]
      <4>1. Len(log[s]) \in Nat /\ DOMAIN log[s] = 1..Len(log[s])
        BY <2>3
      <4> SUFFICES ASSUME NEW m \in DOMAIN log'[s], NEW n \in DOMAIN log'[s], m < n
                   PROVE  log'[s][m] < log'[s][n]
        OBVIOUS
      <4>2. m \in DOMAIN log[s] /\ log'[s][m] = log[s][m] /\ log[s][m] \in Nat
        BY <2>3, <3>2, <4>1
      <4>3. CASE n \in DOMAIN log[s]
        BY <3>2, <4>2, <4>3
      <4>4. CASE n = Len(log[s]) + 1
        BY <2>3, <3>2, <3>3, <4>2, <4>4
      <4> QED
        BY <3>2, <4>3, <4>4
    <3> QED
      BY <2>1, <2>2, <2>3, <2>5, <3>4, <3>5, <3>6
  <2> QED
    BY <2>6, <2>7
<1>2. ASSUME NEW s \in Sockets, Identify(s) PROVE LogOK'
  <2>1. /\ born' = [born EXCEPT ![s] = bus] /\ pos' = [pos EXCEPT ![s] = bus]
        /\ UNCHANGED <<bus, log>> /\ log[s] = <<>> /\ bus \in Nat
    BY <1>2 DEF Identify, server, SocketsOK, EarlyOK, StagesOK, UnbornOK, TypeServer
  <2>2. \A e \in Visible(bus) : ~ (e > bus)
    BY <2>1 DEF Visible
  <2>3. born'[s] = bus /\ pos'[s] = bus /\ log'[s] = <<>>
    BY <2>1 DEF TypeTasks
  <2>4. \A t \in Sockets \ {s} : pos'[t] = pos[t] /\ log'[t] = log[t] /\ born'[t] = born[t]
    BY <2>1 DEF TypeTasks
  <2> QED
    BY <2>1, <2>2, <2>3, <2>4
<1>3. ASSUME NEW s \in Sockets, CheckIdentify(s) PROVE LogOK'
  <2>1. UNCHANGED <<bus, born, pos, log>>
    BY <1>3 DEF CheckIdentify, EndTask, tasks, server
  <2> QED
    BY <2>1
<1>4. CASE Publish
  BY <1>4 DEF Publish, TypeServer, TypeTasks, tasks
<1>5. ASSUME NEW s \in Sockets,
           Lag(s) \/ TakeAttach(s) \/ RefuseAttach(s) \/ ReplayOne(s) \/ ReplayFails(s) \/
           ReplayDone(s) \/ TakeDetach(s) \/ TakeClose(s) \/ WindowCloses(s) \/
           HandshakeTimesOut(s) \/ SendReady(s) \/ ReadyUnsent(s) \/ CheckResume(s) \/
           LookUpResume(s) \/ AttachRefused(s) \/ SocketEnds(s)
     PROVE  LogOK'
  <2>1. UNCHANGED <<bus, born, pos, log>>
    BY <1>5 DEF Lag, TakeAttach, RefuseAttach, ReplayOne, ReplayFails, ReplayDone,
       TakeDetach, TakeClose, WindowCloses, HandshakeTimesOut, SendReady, ReadyUnsent,
       CheckResume, LookUpResume, AttachRefused, SocketEnds, EndTask, Refused, tasks,
       server
  <2> QED
    BY <2>1
<1>6. CASE CloseSessions \/ Dial \/ Receive \/ Dropped \/ EndSignIns \/ Cut \/ Shutdown \/ SetToken \/ UNCHANGED vars
  <2>1. UNCHANGED <<bus, born, pos, log>>
    BY <1>6 DEF CloseSessions, Dial, Receive, Dropped, EndSignIns, Cut, Shutdown,
       SetToken, ApplyEvent, ApplyInvalid, ApplyReady, ApplyResumed, Reauth, Restart,
       vars, tasks, server
  <2> QED
    BY <2>1
<1> QED
  BY <1>1, <1>2, <1>3, <1>4, <1>5, <1>6 DEF Next, Progress, Environment, Task, Socket

\* A session that has not been spawned has numbered nothing.
LEMMA UnbornStep == TypeTasks /\ SocketsOK /\ UnbornOK /\ [Next]_vars => UnbornOK'
<1> SUFFICES ASSUME TypeTasks /\ SocketsOK /\ UnbornOK, [Next]_vars PROVE UnbornOK'
  OBVIOUS
<1> USE DEF UnbornOK, TypeTasks
<1>1. ASSUME NEW s \in Sockets, ReadBus(s) PROVE UnbornOK'
  <2>1. task[s] # "none" /\ UNCHANGED task /\ \A t \in Sockets \ {s} : log'[t] = log[t]
    BY <1>1 DEF ReadBus
  <2> QED
    BY <2>1
<1>2. ASSUME NEW s \in Sockets, Lag(s) PROVE UnbornOK'
  BY <1>2 DEF Lag, EndTask
<1>3. ASSUME NEW s \in Sockets, TakeAttach(s) PROVE UnbornOK'
  BY <1>3 DEF TakeAttach
<1>4. ASSUME NEW s \in Sockets, RefuseAttach(s) PROVE UnbornOK'
  BY <1>4 DEF RefuseAttach, EndTask
<1>5. ASSUME NEW s \in Sockets, ReplayOne(s) PROVE UnbornOK'
  BY <1>5 DEF ReplayOne
<1>6. ASSUME NEW s \in Sockets, ReplayFails(s) PROVE UnbornOK'
  BY <1>6 DEF ReplayFails
<1>7. ASSUME NEW s \in Sockets, ReplayDone(s) PROVE UnbornOK'
  BY <1>7 DEF ReplayDone
<1>8. ASSUME NEW s \in Sockets, TakeDetach(s) PROVE UnbornOK'
  BY <1>8 DEF TakeDetach
<1>9. ASSUME NEW s \in Sockets, TakeClose(s) PROVE UnbornOK'
  BY <1>9 DEF TakeClose, EndTask
<1>10. ASSUME NEW s \in Sockets, WindowCloses(s) PROVE UnbornOK'
  BY <1>10 DEF WindowCloses, EndTask
<1>11. ASSUME NEW s \in Sockets, Identify(s) PROVE UnbornOK'
  BY <1>11 DEF Identify
<1>12. ASSUME NEW s \in Sockets, CheckIdentify(s) PROVE UnbornOK'
  <2>1. UNCHANGED <<task, log>> \/ (task' = [task EXCEPT ![s] = "ended"] /\ UNCHANGED log)
    BY <1>12 DEF CheckIdentify, EndTask, tasks
  <2> QED
    BY <2>1
<1>13. ASSUME NEW s \in Sockets, SendReady(s) PROVE UnbornOK'
  BY <1>13 DEF SendReady
<1>14. ASSUME NEW s \in Sockets, LookUpResume(s) PROVE UnbornOK'
  BY <1>14 DEF LookUpResume
<1>15. ASSUME NEW s \in Sockets, SocketEnds(s) PROVE UnbornOK'
  BY <1>15 DEF SocketEnds
<1>16. CASE CloseSessions
  BY <1>16 DEF CloseSessions
<1>17. ASSUME NEW s \in Sockets,
           HandshakeTimesOut(s) \/ ReadyUnsent(s) \/ CheckResume(s) \/ AttachRefused(s)
     PROVE  UnbornOK'
  BY <1>17 DEF HandshakeTimesOut, ReadyUnsent, CheckResume, AttachRefused, Refused,
     tasks
<1>18. CASE Dial \/ Receive \/ Dropped \/ Publish \/ EndSignIns \/ Cut \/ Shutdown \/ SetToken \/ UNCHANGED vars
  BY <1>18 DEF Dial, Receive, Dropped, Publish, EndSignIns, Cut, Shutdown, SetToken,
     ApplyEvent, ApplyInvalid, ApplyReady, ApplyResumed, Reauth, Restart, vars, tasks
<1> QED
  BY <1>1, <1>2, <1>3, <1>4, <1>5, <1>6, <1>7, <1>8, <1>9, <1>10, <1>11, <1>12, <1>13,
     <1>14, <1>15, <1>16, <1>17, <1>18 DEF Next, Progress, Environment, Task, Socket

\* What is in a queue after one is taken from it, or one added.
LEMMA AfterTail ==
  ASSUME NEW S, NEW q \in Seq(S), q # <<>>, NEW i \in DOMAIN Tail(q)
  PROVE  i + 1 \in DOMAIN q /\ Tail(q)[i] = q[i + 1]
  OBVIOUS

\* ... and one added.
LEMMA AfterAppend ==
  ASSUME NEW S, NEW q \in Seq(S), NEW c \in S, NEW i \in DOMAIN Append(q, c)
  PROVE  (i \in DOMAIN q /\ Append(q, c)[i] = q[i]) \/ (i = Len(q) + 1 /\ Append(q, c)[i] = c)
  OBVIOUS

SinkMoves == \A t \in Sockets : sink'[t] \in {sink[t], 0, todo[t].k}

\* A session changes its sink by letting go or by finishing a replay.
LEMMA SinkMovesStep == TypeTasks /\ [Next]_vars => SinkMoves
<1> SUFFICES ASSUME TypeTasks, [Next]_vars PROVE SinkMoves
  OBVIOUS
<1> USE DEF SinkMoves, TypeTasks
<1>1. ASSUME NEW s \in Sockets, ReadBus(s) PROVE SinkMoves
  BY <1>1 DEF ReadBus, TrySend
<1>2. ASSUME NEW s \in Sockets, Lag(s) PROVE SinkMoves
  BY <1>2 DEF Lag, EndTask
<1>3. ASSUME NEW s \in Sockets, RefuseAttach(s) PROVE SinkMoves
  BY <1>3 DEF RefuseAttach, EndTask
<1>4. ASSUME NEW s \in Sockets, ReplayDone(s) PROVE SinkMoves
  BY <1>4 DEF ReplayDone
<1>5. ASSUME NEW s \in Sockets, TakeDetach(s) PROVE SinkMoves
  BY <1>5 DEF TakeDetach, Detached
<1>6. ASSUME NEW s \in Sockets, TakeClose(s) PROVE SinkMoves
  BY <1>6 DEF TakeClose, EndTask
<1>7. ASSUME NEW s \in Sockets, WindowCloses(s) PROVE SinkMoves
  BY <1>7 DEF WindowCloses, EndTask
<1>8. ASSUME NEW s \in Sockets, CheckIdentify(s) PROVE SinkMoves
  <2>1. UNCHANGED sink \/ sink' = [sink EXCEPT ![s] = 0]
    BY <1>8 DEF CheckIdentify, EndTask, tasks
  <2> QED
    BY <2>1
<1>9. ASSUME NEW s \in Sockets,
           TakeAttach(s) \/ ReplayOne(s) \/ ReplayFails(s) \/ HandshakeTimesOut(s) \/ Identify(s)
           \/ SendReady(s) \/ ReadyUnsent(s) \/ CheckResume(s) \/ LookUpResume(s) \/
           AttachRefused(s) \/ SocketEnds(s)
     PROVE  SinkMoves
  <2>1. UNCHANGED <<sink>>
    BY <1>9 DEF TakeAttach, ReplayOne, ReplayFails, HandshakeTimesOut, Identify,
       SendReady, ReadyUnsent, CheckResume, LookUpResume, AttachRefused, SocketEnds,
       Refused, tasks
  <2> QED
    BY <2>1
<1>10. CASE CloseSessions \/ Dial \/ Receive \/ Dropped \/ Publish \/ EndSignIns \/ Cut \/ Shutdown \/ SetToken \/ UNCHANGED vars
  <2>1. UNCHANGED <<sink>>
    BY <1>10 DEF CloseSessions, Dial, Receive, Dropped, Publish, EndSignIns, Cut,
       Shutdown, SetToken, ApplyEvent, ApplyInvalid, ApplyReady, ApplyResumed, Reauth,
       Restart, vars, tasks
  <2> QED
    BY <2>1
<1> QED
  BY <1>1, <1>2, <1>3, <1>4, <1>5, <1>6, <1>7, <1>8, <1>9, <1>10 DEF Next, Progress,
     Environment, Task, Socket

\* A session forwards only to a socket that was handed to it.
LEMMA SinkOKStep ==
  ASSUME TypeTasks, SinkOK, TodoOK, OpenersKept, LateKept, SinkMoves
  PROVE  SinkOK'
<1> SUFFICES ASSUME NEW t \in Sockets, sink'[t] # 0 PROVE Handed(t, sink[t])'
  BY DEF SinkOK
<1>1. PICK k \in Sockets : sink'[t] = k /\ Handed(t, k)
  BY DEF SinkMoves, SinkOK, TodoOK, TypeTasks
<1>2. Handed(t, k)'
  BY <1>1, HandedKept
<1> QED
  BY <1>1, <1>2 DEF Handed, SessionOf

TodoMoves == \A t \in Sockets :
  \/ todo'[t].k \in {todo[t].k, 0}
  \/ ctl[t] # <<>> /\ Head(ctl[t]).op = "attach" /\ todo'[t].k = Head(ctl[t]).k

\* A replay starts from the attach at the head of the control channel.
LEMMA TodoMovesStep == TypeTasks /\ [Next]_vars => TodoMoves
<1> SUFFICES ASSUME TypeTasks, [Next]_vars PROVE TodoMoves
  OBVIOUS
<1> USE DEF TodoMoves, TypeTasks
<1>1. ASSUME NEW s \in Sockets, Lag(s) PROVE TodoMoves
  BY <1>1 DEF Lag, EndTask, None
<1>2. ASSUME NEW s \in Sockets, TakeAttach(s) PROVE TodoMoves
  BY <1>2 DEF TakeAttach
<1>3. ASSUME NEW s \in Sockets, RefuseAttach(s) PROVE TodoMoves
  BY <1>3 DEF RefuseAttach, EndTask, None
<1>4. ASSUME NEW s \in Sockets, ReplayOne(s) PROVE TodoMoves
  BY <1>4 DEF ReplayOne
<1>5. ASSUME NEW s \in Sockets, ReplayFails(s) PROVE TodoMoves
  BY <1>5 DEF ReplayFails, None
<1>6. ASSUME NEW s \in Sockets, ReplayDone(s) PROVE TodoMoves
  BY <1>6 DEF ReplayDone, None
<1>7. ASSUME NEW s \in Sockets, TakeClose(s) PROVE TodoMoves
  BY <1>7 DEF TakeClose, EndTask, None
<1>8. ASSUME NEW s \in Sockets, WindowCloses(s) PROVE TodoMoves
  BY <1>8 DEF WindowCloses, EndTask, None
<1>9. ASSUME NEW s \in Sockets, CheckIdentify(s) PROVE TodoMoves
  <2>1. UNCHANGED todo \/ todo' = [todo EXCEPT ![s] = None]
    BY <1>9 DEF CheckIdentify, EndTask, tasks
  <2>2. CASE UNCHANGED todo
    BY <2>2
  <2>3. CASE todo' = [todo EXCEPT ![s] = None]
    BY <2>3 DEF None
  <2> QED
    BY <2>1, <2>2, <2>3
<1>10. ASSUME NEW s \in Sockets,
           ReadBus(s) \/ TakeDetach(s) \/ HandshakeTimesOut(s) \/ Identify(s) \/ SendReady(s) \/
           ReadyUnsent(s) \/ CheckResume(s) \/ LookUpResume(s) \/ AttachRefused(s) \/
           SocketEnds(s)
     PROVE  TodoMoves
  <2>1. UNCHANGED <<todo>>
    BY <1>10 DEF ReadBus, TakeDetach, HandshakeTimesOut, Identify, SendReady, ReadyUnsent,
       CheckResume, LookUpResume, AttachRefused, SocketEnds, Refused, TrySend, tasks
  <2> QED
    BY <2>1
<1>11. CASE CloseSessions \/ Dial \/ Receive \/ Dropped \/ Publish \/ EndSignIns \/ Cut \/ Shutdown \/ SetToken \/ UNCHANGED vars
  <2>1. UNCHANGED <<todo>>
    BY <1>11 DEF CloseSessions, Dial, Receive, Dropped, Publish, EndSignIns, Cut,
       Shutdown, SetToken, ApplyEvent, ApplyInvalid, ApplyReady, ApplyResumed, Reauth,
       Restart, vars, tasks
  <2> QED
    BY <2>1
<1> QED
  BY <1>1, <1>2, <1>3, <1>4, <1>5, <1>6, <1>7, <1>8, <1>9, <1>10, <1>11 DEF Next,
     Progress, Environment, Task, Socket

\* A session replays only to a socket that was handed to it.
LEMMA TodoOKStep ==
  ASSUME TypeTasks, TodoOK, CtlOK, OpenersKept, LateKept, TodoMoves
  PROVE  TodoOK'
<1> SUFFICES ASSUME NEW t \in Sockets, todo'[t].k # 0 PROVE Handed(t, todo[t].k)'
  BY DEF TodoOK
<1>1. CASE todo'[t].k = todo[t].k
  <2>1. todo[t].k \in Sockets /\ Handed(t, todo[t].k)
    BY <1>1 DEF TodoOK, TypeTasks
  <2>2. PICK k \in Sockets : todo'[t].k = k /\ Handed(t, k)
    BY <1>1, <2>1
  <2>3. Handed(t, k)'
    BY <2>2, HandedKept
  <2> QED
    BY <2>2, <2>3 DEF Handed, SessionOf
<1>2. CASE ctl[t] # <<>> /\ Head(ctl[t]).op = "attach" /\ todo'[t].k = Head(ctl[t]).k
  <2>1. ctl[t] \in Seq(Controls)
    BY DEF TypeTasks
  <2>2. 1 \in DOMAIN ctl[t] /\ ctl[t][1] = Head(ctl[t]) /\ Head(ctl[t]) \in Controls
    BY <1>2, <2>1
  <2>3. Head(ctl[t]).k \in Sockets /\ Handed(t, Head(ctl[t]).k)
    BY <1>2, <2>2 DEF CtlOK, Controls
  <2>4. PICK k \in Sockets : todo'[t].k = k /\ Handed(t, k)
    BY <1>2, <2>3
  <2>5. Handed(t, k)'
    BY <2>4, HandedKept
  <2> QED
    BY <2>4, <2>5 DEF Handed, SessionOf
<1> QED
  BY <1>1, <1>2 DEF TodoMoves

\* An entry added to a control channel asks for nothing, or hands over a socket that
\* has asked to be attached.
AddedCtl(t, c) == c \in Controls /\ (c.op = "attach" => c.k # 0 /\ Handed(t, c.k))

CtlMoves == \A t \in Sockets :
  \/ ctl'[t] \in {ctl[t], <<>>}
  \/ ctl[t] # <<>> /\ ctl'[t] = Tail(ctl[t])
  \/ \E c \in Controls : AddedCtl(t, c)' /\ ctl'[t] = Append(ctl[t], c)

\* A control channel loses its head, or gains one message from a socket or close_sessions_for.
LEMMA CtlMovesStep == TypeOK /\ SocketsOK /\ [Next]_vars => CtlMoves
<1> SUFFICES ASSUME TypeOK /\ SocketsOK, [Next]_vars PROVE CtlMoves
  OBVIOUS
<1> USE DEF CtlMoves, TypeOK, TypeTasks
<1>1. ASSUME NEW s \in Sockets, Lag(s) PROVE CtlMoves
  BY <1>1 DEF Lag, EndTask
<1>2. ASSUME NEW s \in Sockets, TakeAttach(s) PROVE CtlMoves
  BY <1>2 DEF TakeAttach
<1>3. ASSUME NEW s \in Sockets, RefuseAttach(s) PROVE CtlMoves
  BY <1>3 DEF RefuseAttach, EndTask
<1>4. ASSUME NEW s \in Sockets, TakeDetach(s) PROVE CtlMoves
  BY <1>4 DEF TakeDetach
<1>5. ASSUME NEW s \in Sockets, TakeClose(s) PROVE CtlMoves
  BY <1>5 DEF TakeClose, EndTask
<1>6. ASSUME NEW s \in Sockets, WindowCloses(s) PROVE CtlMoves
  BY <1>6 DEF WindowCloses, EndTask
<1>7. ASSUME NEW s \in Sockets, CheckIdentify(s) PROVE CtlMoves
  <2>1. UNCHANGED ctl \/ ctl' = [ctl EXCEPT ![s] = <<>>]
    BY <1>7 DEF CheckIdentify, EndTask, tasks
  <2> QED
    BY <2>1
<1>8. ASSUME NEW s \in Sockets, SendReady(s) PROVE CtlMoves
  <2> DEFINE c == Ctl("attach", s, 0)
  <2>1. opener[s].op = "identify"
    BY <1>8 DEF SendReady, SocketsOK, EarlyOK, StagesOK
  <2>2. stage'[s] = "attaching" /\ UNCHANGED opener
    BY <1>8 DEF SendReady, TypeWires
  <2>3. Handed(s, s)'
    BY <2>1, <2>2 DEF Handed, Late, SessionOf
  <2>4. c \in Controls /\ c.k = s
    BY Built DEF Ctl
  <2>5. AddedCtl(s, c)'
    BY <2>3, <2>4, SocketFacts DEF AddedCtl
  <2>6. UNCHANGED ctl \/ ctl' = [ctl EXCEPT ![s] = Append(ctl[s], c)]
    BY <1>8 DEF SendReady, Attach
  <2> QED
    BY <2>4, <2>5, <2>6
<1>9. ASSUME NEW s \in Sockets, LookUpResume(s) PROVE CtlMoves
  <2>1. opener[s].op = "resume" /\ opener[s].sess \in Sockets /\ opener[s].from \in Nat
    BY <1>9 DEF LookUpResume, SocketsOK, EarlyOK, StagesOK, TypeWires
  <2>2. PICK t \in Sockets, c \in Controls :
             t = opener[s].sess /\ c = Ctl("attach", s, opener[s].from)
    BY <2>1, Built
  <2>3. \/ UNCHANGED ctl
        \/ stage'[s] = "attaching" /\ ctl' = [ctl EXCEPT ![t] = Append(ctl[t], c)]
    BY <1>9, <2>2 DEF LookUpResume, Attach, TypeWires
  <2>4. c.k = s /\ UNCHANGED opener
    BY <1>9, <2>2 DEF LookUpResume, Ctl
  <2>5. CASE UNCHANGED ctl
    BY <2>5
  <2>6. CASE stage'[s] = "attaching" /\ ctl' = [ctl EXCEPT ![t] = Append(ctl[t], c)]
    <3>1. Handed(t, s)'
      BY <2>1, <2>2, <2>4, <2>6 DEF Handed, Late, SessionOf
    <3>2. AddedCtl(t, c)'
      BY <2>4, <3>1, SocketFacts DEF AddedCtl
    <3>3. ctl'[t] = Append(ctl[t], c) /\ \A u \in Sockets \ {t} : ctl'[u] = ctl[u]
      BY <2>6
    <3> QED
      BY <3>2, <3>3
  <2> QED
    BY <2>3, <2>5, <2>6
<1>10. ASSUME NEW s \in Sockets, SocketEnds(s) PROVE CtlMoves
  <2> DEFINE c == Ctl("detach", s, 0)
  <2>1. c \in Controls /\ \A t : AddedCtl(t, c)'
    BY Built DEF Ctl, AddedCtl
  <2>2. UNCHANGED ctl \/ ctl' = [ctl EXCEPT ![SessionOf(s)] = Append(ctl[SessionOf(s)], c)]
    BY <1>10 DEF SocketEnds
  <2> HIDE DEF c
  <2> QED
    BY <2>1, <2>2
<1>11. CASE CloseSessions
  <2> DEFINE c == Ctl("close", 0, 0)
  <2>1. c \in Controls /\ \A t : AddedCtl(t, c)'
    BY Built DEF Ctl, AddedCtl
  <2>2. \A t \in Sockets : ctl'[t] = ctl[t] \/ ctl'[t] = Append(ctl[t], c)
    BY <1>11 DEF CloseSessions
  <2> HIDE DEF c
  <2> QED
    BY <2>1, <2>2
<1>12. ASSUME NEW s \in Sockets,
           ReadBus(s) \/ ReplayOne(s) \/ ReplayFails(s) \/ ReplayDone(s) \/ HandshakeTimesOut(s)
           \/ Identify(s) \/ ReadyUnsent(s) \/ CheckResume(s) \/ AttachRefused(s)
     PROVE  CtlMoves
  <2>1. UNCHANGED <<ctl>>
    BY <1>12 DEF ReadBus, ReplayOne, ReplayFails, ReplayDone, HandshakeTimesOut, Identify,
       ReadyUnsent, CheckResume, AttachRefused, Refused, TrySend, tasks
  <2> QED
    BY <2>1
<1>13. CASE Dial \/ Receive \/ Dropped \/ Publish \/ EndSignIns \/ Cut \/ Shutdown \/ SetToken \/ UNCHANGED vars
  <2>1. UNCHANGED <<ctl>>
    BY <1>13 DEF Dial, Receive, Dropped, Publish, EndSignIns, Cut, Shutdown, SetToken,
       ApplyEvent, ApplyInvalid, ApplyReady, ApplyResumed, Reauth, Restart, vars, tasks
  <2> QED
    BY <2>1
<1> QED
  BY <1>1, <1>2, <1>3, <1>4, <1>5, <1>6, <1>7, <1>8, <1>9, <1>10, <1>11, <1>12, <1>13
     DEF Next, Progress, Environment, Task, Socket

\* An attach waiting in a control channel is from a socket of that session.
LEMMA CtlOKStep ==
  ASSUME TypeTasks, CtlOK, OpenersKept, LateKept, CtlMoves
  PROVE  CtlOK'
<1> SUFFICES ASSUME NEW t \in Sockets, NEW i \in DOMAIN ctl'[t], ctl'[t][i].op = "attach"
             PROVE  ctl'[t][i].k # 0 /\ Handed(t, ctl[t][i].k)'
  BY DEF CtlOK
<1> DEFINE d == ctl'[t][i]
<1>1. ctl[t] \in Seq(Controls)
  BY DEF TypeTasks
<1>2. CASE \E j \in DOMAIN ctl[t] : d = ctl[t][j]
  <2>1. PICK j \in DOMAIN ctl[t] : d = ctl[t][j]
    BY <1>2
  <2>2. ctl[t][j] \in Controls
    BY <1>1
  <2>3. ctl[t][j].k \in Sockets /\ Handed(t, ctl[t][j].k)
    BY <2>1, <2>2 DEF CtlOK, Controls
  <2>4. PICK k \in Sockets : k = ctl[t][j].k /\ Handed(t, k)
    BY <2>3
  <2>5. Handed(t, k)' /\ k # 0
    BY <2>4, HandedKept, SocketFacts
  <2> QED
    BY <2>1, <2>4, <2>5 DEF Handed, SessionOf
<1>3. CASE \E c \in Controls : AddedCtl(t, c)' /\ ctl'[t] = Append(ctl[t], c)
  <2>1. PICK c \in Controls : AddedCtl(t, c)' /\ ctl'[t] = Append(ctl[t], c)
    BY <1>3
  <2>2. (i \in DOMAIN ctl[t] /\ d = ctl[t][i]) \/ d = c
    BY <1>1, <2>1, AfterAppend
  <2>3. CASE d = c
    BY <2>1, <2>3 DEF AddedCtl, Handed, SessionOf
  <2> QED
    BY <1>2, <2>2, <2>3
<1>4. CASE ctl[t] # <<>> /\ ctl'[t] = Tail(ctl[t])
  BY <1>1, <1>2, <1>4, AfterTail
<1> QED
  BY <1>2, <1>3, <1>4 DEF CtlMoves

\* Nobody but its own handler sends on a socket that has not asked to be attached.
QueueMoves == \A k \in Sockets : stage[k] \in Early /\ stage'[k] \in Early => queue'[k] = queue[k]

\* Nothing is queued on a socket still in its handshake.
LEMMA QueueMovesStep == TypeWires /\ SinkOK /\ TodoOK /\ SocketsOK /\ [Next]_vars => QueueMoves
<1> SUFFICES ASSUME TypeWires /\ SinkOK /\ TodoOK /\ SocketsOK, [Next]_vars PROVE QueueMoves
  OBVIOUS
<1> USE DEF QueueMoves, TypeWires
<1>1. ASSUME NEW s \in Sockets, ReadBus(s) PROVE QueueMoves
  <2>1. UNCHANGED stage
    BY <1>1 DEF ReadBus
  <2>2. sink[s] # 0 => stage[sink[s]] \notin Early
    BY DEF SinkOK, Handed, Late, Early
  <2>3. \/ UNCHANGED queue
        \/ sink[s] # 0 /\ \E f : queue' = [queue EXCEPT ![sink[s]] = f]
    BY <1>1 DEF ReadBus, TrySend
  <2> QED
    BY <2>1, <2>2, <2>3
<1>2. ASSUME NEW s \in Sockets, TakeAttach(s) PROVE QueueMoves
  <2> DEFINE k == Head(ctl[s]).k
  <2>1. stage' = [stage EXCEPT ![k] = "open"]
    BY <1>2 DEF TakeAttach
  <2>2. UNCHANGED queue \/ \E f : queue' = [queue EXCEPT ![k] = f]
    BY <1>2 DEF TakeAttach
  <2> HIDE DEF k
  <2> QED
    BY <2>1, <2>2 DEF Early
<1>3. ASSUME NEW s \in Sockets, ReplayOne(s) PROVE QueueMoves
  <2>1. UNCHANGED stage
    BY <1>3 DEF ReplayOne
  <2>2. todo[s].k # 0 => stage[todo[s].k] \notin Early
    BY DEF TodoOK, Handed, Late, Early
  <2>3. \E f : queue' = [queue EXCEPT ![todo[s].k] = f]
    BY <1>3 DEF ReplayOne
  <2> QED
    BY <2>1, <2>2, <2>3, SocketFacts
<1>4. ASSUME NEW s \in Sockets, TakeClose(s) PROVE QueueMoves
  <2>1. UNCHANGED stage
    BY <1>4 DEF TakeClose
  <2>2. sink[s] # 0 => stage[sink[s]] \notin Early
    BY DEF SinkOK, Handed, Late, Early
  <2>3. \/ UNCHANGED queue
        \/ sink[s] # 0 /\ \E f : queue' = [queue EXCEPT ![sink[s]] = f]
    BY <1>4 DEF TakeClose
  <2> QED
    BY <2>1, <2>2, <2>3
<1>5. ASSUME NEW s \in Sockets, CheckIdentify(s) PROVE QueueMoves
  <2>1. \A k \in Sockets \ {s} : queue'[k] = queue[k]
    BY <1>5 DEF CheckIdentify, Refused
  <2>2. UNCHANGED queue \/ stage'[s] \in {"gone", "attaching"}
    BY <1>5 DEF CheckIdentify
  <2> QED
    BY <2>1, <2>2 DEF Early
<1>6. ASSUME NEW s \in Sockets, SendReady(s) PROVE QueueMoves
  <2>1. \A k \in Sockets \ {s} : queue'[k] = queue[k]
    BY <1>6 DEF SendReady
  <2>2. UNCHANGED queue \/ stage'[s] \in {"gone", "attaching"}
    BY <1>6 DEF SendReady
  <2> QED
    BY <2>1, <2>2 DEF Early
<1>7. ASSUME NEW s \in Sockets, CheckResume(s) PROVE QueueMoves
  <2>1. \A k \in Sockets \ {s} : queue'[k] = queue[k]
    BY <1>7 DEF CheckResume, Refused
  <2>2. UNCHANGED queue \/ stage'[s] \in {"gone", "attaching"}
    BY <1>7 DEF CheckResume
  <2> QED
    BY <2>1, <2>2 DEF Early
<1>8. ASSUME NEW s \in Sockets, LookUpResume(s) PROVE QueueMoves
  <2>1. \A k \in Sockets \ {s} : queue'[k] = queue[k]
    BY <1>8 DEF LookUpResume, Refused
  <2>2. UNCHANGED queue \/ stage'[s] \in {"gone", "attaching"}
    BY <1>8 DEF LookUpResume
  <2> QED
    BY <2>1, <2>2 DEF Early
<1>9. ASSUME NEW s \in Sockets, AttachRefused(s) PROVE QueueMoves
  <2>1. \A k \in Sockets \ {s} : queue'[k] = queue[k]
    BY <1>9 DEF AttachRefused, Refused
  <2>2. UNCHANGED queue \/ stage'[s] \in {"gone", "attaching"}
    BY <1>9 DEF AttachRefused
  <2> QED
    BY <2>1, <2>2 DEF Early
<1>10. CASE Receive
  <2>1. UNCHANGED stage /\ \E f : queue' = [queue EXCEPT ![conn] = f]
    BY <1>10 DEF Receive
  <2>2. queue[conn] # <<>>
    BY <1>10 DEF Receive
  <2> QED
    BY <2>1, <2>2 DEF SocketsOK, EarlyOK, StagesOK
<1>11. ASSUME NEW s \in Sockets,
           Lag(s) \/ RefuseAttach(s) \/ ReplayFails(s) \/ ReplayDone(s) \/ TakeDetach(s) \/
           WindowCloses(s) \/ HandshakeTimesOut(s) \/ Identify(s) \/ ReadyUnsent(s) \/
           SocketEnds(s)
     PROVE  QueueMoves
  <2>1. UNCHANGED <<queue>>
    BY <1>11 DEF Lag, RefuseAttach, ReplayFails, ReplayDone, TakeDetach, WindowCloses,
       HandshakeTimesOut, Identify, ReadyUnsent, SocketEnds, EndTask, wires
  <2> QED
    BY <2>1
<1>12. CASE CloseSessions \/ Dial \/ Dropped \/ Publish \/ EndSignIns \/ Cut \/ Shutdown \/ SetToken \/ UNCHANGED vars
  <2>1. UNCHANGED <<queue>>
    BY <1>12 DEF CloseSessions, Dial, Dropped, Publish, EndSignIns, Cut, Shutdown,
       SetToken, vars, wires
  <2> QED
    BY <2>1
<1> QED
  BY <1>1, <1>2, <1>3, <1>4, <1>5, <1>6, <1>7, <1>8, <1>9, <1>10, <1>11, <1>12 DEF Next,
     Progress, Environment, Task, Socket

\* A socket still in its handshake has an empty queue.
LEMMA EarlyOKStep ==
  ASSUME TypeWires, TypeWires', EarlyOK, LateKept, QueueMoves
  PROVE  EarlyOK'
<1> SUFFICES ASSUME NEW k \in Sockets, stage'[k] \in Early PROVE queue'[k] = <<>>
  BY DEF EarlyOK
<1>1. stage[k] \in Early
  BY DEF LateKept, Late, Early, TypeWires
<1> QED
  BY <1>1 DEF EarlyOK, QueueMoves

\* How far a handler has come agrees with the session it spawned or resumes.
LEMMA StagesOKStep == TypeOK /\ StagesOK /\ CtlOK /\ [Next]_vars => StagesOK'
<1> SUFFICES ASSUME TypeOK /\ StagesOK /\ CtlOK, [Next]_vars PROVE StagesOK'
  OBVIOUS
<1> USE DEF StagesOK, TypeOK, TypeTasks, TypeWires
<1>1. ASSUME NEW s \in Sockets, ReadBus(s) PROVE StagesOK'
  BY <1>1 DEF ReadBus, client
<1>2. ASSUME NEW s \in Sockets, Lag(s) PROVE StagesOK'
  BY <1>2 DEF Lag, EndTask, wires, client
<1>3. ASSUME NEW s \in Sockets, TakeAttach(s) PROVE StagesOK'
  <2> DEFINE k == Head(ctl[s]).k
  <2>1. stage' = [stage EXCEPT ![k] = "open"] /\ task' = [task EXCEPT ![s] = "replaying"]
        /\ UNCHANGED <<opener, dials>> /\ task[s] # "none"
    BY <1>3 DEF TakeAttach, client
  <2>2. ctl[s] \in Seq(Controls) /\ ctl[s] # <<>> /\ Head(ctl[s]).op = "attach"
    BY <1>3 DEF TakeAttach, TypeTasks
  <2>3. 1 \in DOMAIN ctl[s] /\ ctl[s][1] = Head(ctl[s]) /\ Head(ctl[s]) \in Controls
    BY <2>2
  <2>4. stage[k] \in Late /\ k \in Sockets
    BY <2>2, <2>3 DEF CtlOK, Handed, Controls
  <2> HIDE DEF k
  <2>5. \A x \in Sockets : stage'[x] = stage[x] \/ (stage[x] \in Late /\ stage'[x] = "open")
    BY <2>1, <2>4
  <2>6. \A x \in Sockets : task'[x] = "none" <=> task[x] = "none"
    BY <2>1
  <2> QED
    BY <2>1, <2>5, <2>6 DEF Late
<1>4. ASSUME NEW s \in Sockets, RefuseAttach(s) PROVE StagesOK'
  BY <1>4 DEF RefuseAttach, EndTask, wires, client
<1>5. ASSUME NEW s \in Sockets, ReplayFails(s) PROVE StagesOK'
  <2>1. UNCHANGED <<opener, dials, stage>> /\ task' = [task EXCEPT ![s] = "running"]
        /\ task[s] # "none"
    BY <1>5 DEF ReplayFails, wires, client
  <2> QED
    BY <2>1
<1>6. ASSUME NEW s \in Sockets, ReplayDone(s) PROVE StagesOK'
  BY <1>6 DEF ReplayDone, wires, client
<1>7. ASSUME NEW s \in Sockets, TakeClose(s) PROVE StagesOK'
  BY <1>7 DEF TakeClose, EndTask, client
<1>8. ASSUME NEW s \in Sockets, WindowCloses(s) PROVE StagesOK'
  BY <1>8 DEF WindowCloses, EndTask, wires, client
<1>9. ASSUME NEW s \in Sockets, HandshakeTimesOut(s) PROVE StagesOK'
  BY <1>9 DEF HandshakeTimesOut, tasks, client
<1>10. ASSUME NEW s \in Sockets, Identify(s) PROVE StagesOK'
  BY <1>10 DEF Identify, client
<1>11. ASSUME NEW s \in Sockets, CheckIdentify(s) PROVE StagesOK'
  <2>1. UNCHANGED <<opener, dials>> /\ stage[s] = "spawned"
    BY <1>11 DEF CheckIdentify, client
  <2>2. \/ UNCHANGED task /\ stage' = [stage EXCEPT ![s] = "checked"]
        \/ task' = [task EXCEPT ![s] = "ended"] /\ stage' = [stage EXCEPT ![s] = "gone"]
    BY <1>11 DEF CheckIdentify, EndTask, tasks
  <2> QED
    BY <2>1, <2>2
<1>12. ASSUME NEW s \in Sockets, SendReady(s) PROVE StagesOK'
  BY <1>12 DEF SendReady, client
<1>13. ASSUME NEW s \in Sockets, ReadyUnsent(s) PROVE StagesOK'
  BY <1>13 DEF ReadyUnsent, tasks, client
<1>14. ASSUME NEW s \in Sockets, CheckResume(s) PROVE StagesOK'
  <2>1. UNCHANGED <<opener, dials, task>> /\ stage[s] \notin {"free"} /\ opener[s].op = "resume"
    BY <1>14 DEF CheckResume, tasks, client
  <2>2. \E x \in {"verified", "gone"} : stage' = [stage EXCEPT ![s] = x]
    BY <1>14 DEF CheckResume
  <2>3. stage'[s] \in {"verified", "gone"} /\ \A k \in Sockets \ {s} : stage'[k] = stage[k]
    BY <2>2
  <2> QED
    BY <2>1, <2>3
<1>15. ASSUME NEW s \in Sockets, LookUpResume(s) PROVE StagesOK'
  <2>1. UNCHANGED <<opener, dials, task>> /\ stage[s] \notin {"free"}
    BY <1>15 DEF LookUpResume, tasks, client
  <2>2. \E x \in {"attaching", "gone"} : stage' = [stage EXCEPT ![s] = x]
    BY <1>15 DEF LookUpResume
  <2>3. stage'[s] \in {"attaching", "gone"} /\ \A k \in Sockets \ {s} : stage'[k] = stage[k]
    BY <2>2
  <2> QED
    BY <2>1, <2>3
<1>16. ASSUME NEW s \in Sockets, AttachRefused(s) PROVE StagesOK'
  <2>1. UNCHANGED <<opener, dials, task>> /\ stage[s] \notin {"free"}
    BY <1>16 DEF AttachRefused, tasks, client
  <2>2. \E x \in {"gone"} : stage' = [stage EXCEPT ![s] = x]
    BY <1>16 DEF AttachRefused
  <2>3. stage'[s] \in {"gone"} /\ \A k \in Sockets \ {s} : stage'[k] = stage[k]
    BY <2>2
  <2> QED
    BY <2>1, <2>3
<1>17. ASSUME NEW s \in Sockets, SocketEnds(s) PROVE StagesOK'
  <2>1. UNCHANGED <<opener, dials, task>> /\ stage[s] \notin {"free"}
    BY <1>17 DEF SocketEnds, tasks, client
  <2>2. \E x \in {"gone"} : stage' = [stage EXCEPT ![s] = x]
    BY <1>17 DEF SocketEnds
  <2>3. stage'[s] \in {"gone"} /\ \A k \in Sockets \ {s} : stage'[k] = stage[k]
    BY <2>2
  <2> QED
    BY <2>1, <2>3
<1>18. CASE Dial
  <2>1. dials + 1 \in Sockets /\ stage[dials + 1] = "free" /\ task[dials + 1] = "none"
    BY <1>18, SocketFacts DEF Dial, TypeClient
  <2>2. /\ dials' = dials + 1 /\ stage' = [stage EXCEPT ![dials + 1] = "hello"] /\ UNCHANGED task
        /\ \A k \in Sockets \ {dials + 1} : opener'[k] = opener[k]
    BY <1>18 DEF Dial, tasks
  <2>3. opener'[dials + 1].op = "resume" => opener'[dials + 1].sess # 0
    BY <1>18, <2>1 DEF Dial
  <2>4. dials \in Nat
    BY SocketFacts DEF TypeClient
  <2>5. \A k \in Sockets : k > dials + 1 => k > dials
    BY <2>4, SocketFacts
  <2>6. stage'[dials + 1] = "hello" /\ \A k \in Sockets \ {dials + 1} : stage'[k] = stage[k]
    BY <2>1, <2>2
  <2> SUFFICES ASSUME NEW k \in Sockets
               PROVE  /\ k > dials' => stage'[k] = "free"
                      /\ stage'[k] \in {"free", "hello"} => task'[k] = "none"
                      /\ stage'[k] \in {"spawned", "checked"} =>
                           task'[k] # "none" /\ opener'[k].op = "identify"
                      /\ stage'[k] = "verified" => opener'[k].op = "resume"
                      /\ opener'[k].op = "resume" => opener'[k].sess # 0
    OBVIOUS
  <2>7. CASE k = dials + 1
    BY <2>1, <2>2, <2>3, <2>4, <2>6, <2>7
  <2>8. CASE k # dials + 1
    <3>1. stage'[k] = stage[k] /\ opener'[k] = opener[k] /\ task'[k] = task[k]
          /\ (k > dials' => k > dials)
      BY <2>2, <2>5, <2>6, <2>8
    <3> QED
      BY <3>1
  <2> QED
    BY <2>7, <2>8
<1>19. ASSUME NEW s \in Sockets,
           ReplayOne(s) \/ TakeDetach(s)
     PROVE  StagesOK'
  <2>1. UNCHANGED <<dials, stage, task, opener>>
    BY <1>19 DEF ReplayOne, TakeDetach, wires, tasks, client
  <2> QED
    BY <2>1
<1>20. CASE CloseSessions \/ Receive \/ Dropped \/ Publish \/ EndSignIns \/ Cut \/ Shutdown \/ SetToken \/ UNCHANGED vars
  <2>1. UNCHANGED <<dials, stage, task, opener>>
    BY <1>20 DEF CloseSessions, Receive, Dropped, Publish, EndSignIns, Cut, Shutdown,
       SetToken, ApplyEvent, ApplyInvalid, ApplyReady, ApplyResumed, Reauth, Restart,
       vars, wires, tasks, client
  <2> QED
    BY <2>1
<1> QED
  BY <1>1, <1>2, <1>3, <1>4, <1>5, <1>6, <1>7, <1>8, <1>9, <1>10, <1>11, <1>12, <1>13,
     <1>14, <1>15, <1>16, <1>17, <1>18, <1>19, <1>20 DEF Next, Progress, Environment,
     Task, Socket

\* A frame that may be added to socket k's queue: it is right, and if it is `ready`
\* then it is the first and carries the state of this moment.
AddedFrame(k, f) ==
  /\ f \in Frames /\ FrameOK(k, f)'
  /\ f.op = "ready" => stage[k] = "checked" /\ queue[k] = <<>> /\ f.snap = bus

FrameMoves == \A k \in Sockets :
  \/ queue'[k] = queue[k]
  \/ queue[k] # <<>> /\ k = conn /\ queue'[k] = Tail(queue[k])
  \/ \E f \in Frames : AddedFrame(k, f) /\ queue'[k] = Append(queue[k], f)

\* One added frame is all an action needs to answer for.
LEMMA OneFrame ==
  ASSUME TypeWires, NEW k, NEW f, k \in Sockets => AddedFrame(k, f),
         queue' = [queue EXCEPT ![k] = Append(queue[k], f)]
  PROVE  FrameMoves
<1>1. CASE k \in Sockets
  <2>1. queue'[k] = Append(queue[k], f) /\ \A j \in Sockets \ {k} : queue'[j] = queue[j]
    BY <1>1 DEF TypeWires
  <2>2. f \in Frames
    BY <1>1 DEF AddedFrame
  <2> QED
    BY <1>1, <2>1, <2>2 DEF FrameMoves
<1>2. CASE k \notin Sockets
  BY <1>2 DEF FrameMoves, TypeWires
<1> QED
  BY <1>1, <1>2

\* `resumed` and `invalid_session` say nothing that could be wrong.
LEMMA PlainFrames ==
  /\ \A k \in Sockets : \A s \in Sockets : AddedFrame(k, ResumedFrame(s))
  /\ \A k \in Sockets : \A s \in Sockets \union {0} :
       /\ AddedFrame(k, InvalidFrame(s, "unauthenticated"))
       /\ AddedFrame(k, InvalidFrame(s, "expired"))
  BY Built DEF AddedFrame, FrameOK, ResumedFrame, InvalidFrame

\* Every queue stays as it is, loses its head to the app, or gains a frame that is right.
LEMMA FrameMovesStep == TypeOK /\ SocketsOK /\ SinkOK /\ TodoOK /\ LogOK /\ [Next]_vars => FrameMoves
<1> SUFFICES ASSUME TypeOK /\ SocketsOK /\ SinkOK /\ TodoOK /\ LogOK, [Next]_vars PROVE FrameMoves
  OBVIOUS
<1> USE DEF TypeOK
<1>1. ASSUME NEW s \in Sockets, ReadBus(s) PROVE FrameMoves
  <2> DEFINE n == Len(log[s]) + 1
             e == pos[s] + 1
             f == EventFrame(s, n, e)
  <2>1. \/ UNCHANGED queue
        \/ /\ sink[s] # 0 /\ queue' = [queue EXCEPT ![sink[s]] = Append(queue[sink[s]], f)]
           /\ log' = [log EXCEPT ![s] = Append(log[s], e)]
    BY <1>1 DEF ReadBus, TrySend
  <2>2. CASE UNCHANGED queue
    BY <2>2 DEF FrameMoves
  <2>3. CASE /\ sink[s] # 0 /\ queue' = [queue EXCEPT ![sink[s]] = Append(queue[sink[s]], f)]
             /\ log' = [log EXCEPT ![s] = Append(log[s], e)]
    <3>1. sink[s] \in Sockets /\ SessionOf(sink[s]) = s /\ UNCHANGED opener
      BY <1>1, <2>3 DEF TypeTasks, SinkOK, Handed, ReadBus
    <3>2. PICK k \in Sockets : k = sink[s] /\ SessionOf(k)' = s
      BY <3>1 DEF SessionOf
    <3>3. log[s] \in Seq(Nat) /\ e \in Nat /\ n \in Nat
      BY DEF TypeTasks
    <3>4. log'[s] = Append(log[s], e)
      BY <2>3 DEF TypeTasks
    <3>5. n \in DOMAIN log'[s] /\ log'[s][n] = e
      BY <3>3, <3>4
    <3>6. PICK m \in Nat, x \in Nat : m = n /\ x = e
      BY <3>3
    <3>7. f = EventFrame(s, m, x) /\ EventFrame(s, m, x) \in Frames
      BY <3>6, Built
    <3>8. FrameOK(k, EventFrame(s, m, x))'
      BY <3>2, <3>5, <3>6 DEF FrameOK, EventFrame
    <3>9. AddedFrame(k, EventFrame(s, m, x))
      BY <3>7, <3>8 DEF AddedFrame, EventFrame
    <3>10. queue' = [queue EXCEPT ![k] = Append(queue[k], EventFrame(s, m, x))]
      BY <2>3, <3>2, <3>7
    <3> HIDE DEF f
    <3> QED
      BY <3>9, <3>10, OneFrame
  <2> QED
    BY <2>1, <2>2, <2>3
<1>2. ASSUME NEW s \in Sockets, TakeAttach(s) PROVE FrameMoves
  <2> DEFINE k == Head(ctl[s]).k
  <2>1. queue' = queue \/ queue' = [queue EXCEPT ![k] = Append(queue[k], ResumedFrame(s))]
    BY <1>2 DEF TakeAttach
  <2> HIDE DEF k
  <2>2. CASE queue' = queue
    BY <2>2 DEF FrameMoves
  <2>3. CASE queue' = [queue EXCEPT ![k] = Append(queue[k], ResumedFrame(s))]
    BY <2>3, PlainFrames, OneFrame
  <2> QED
    BY <2>1, <2>2, <2>3
<1>3. ASSUME NEW s \in Sockets, ReplayOne(s) PROVE FrameMoves
  <2> DEFINE n == todo[s].next
             f == EventFrame(s, n, log[s][n])
  <2>1. /\ n <= Len(log[s]) /\ UNCHANGED <<opener, log>>
        /\ queue' = [queue EXCEPT ![todo[s].k] = Append(queue[todo[s].k], f)]
    BY <1>3 DEF ReplayOne
  <2>2. log[s] \in Seq(Nat) /\ n \in Nat \ {0} /\ todo[s].k \in Sockets \union {0}
    BY DEF TypeTasks
  <2>3. n \in DOMAIN log[s] /\ log[s][n] \in Nat
    BY <2>1, <2>2
  <2>4. CASE todo[s].k \in Sockets
    <3>1. PICK k \in Sockets, m \in Nat, x \in Nat : k = todo[s].k /\ m = n /\ x = log[s][n]
      BY <2>2, <2>3, <2>4
    <3>2. SessionOf(k)' = s
      BY <2>1, <3>1, SocketFacts DEF TodoOK, Handed, SessionOf
    <3>3. f = EventFrame(s, m, x) /\ EventFrame(s, m, x) \in Frames
      BY <3>1, Built
    <3>4. m \in DOMAIN log'[s] /\ log'[s][m] = x
      BY <2>1, <2>3, <3>1
    <3>5. FrameOK(k, EventFrame(s, m, x))'
      BY <3>2, <3>4 DEF FrameOK, EventFrame
    <3>6. AddedFrame(k, EventFrame(s, m, x))
      BY <3>3, <3>5 DEF AddedFrame, EventFrame
    <3>7. queue' = [queue EXCEPT ![k] = Append(queue[k], EventFrame(s, m, x))]
      BY <2>1, <3>1, <3>3
    <3> QED
      BY <3>6, <3>7, OneFrame
  <2>5. CASE todo[s].k \notin Sockets
    BY <2>1, <2>5 DEF FrameMoves, TypeWires
  <2> QED
    BY <2>4, <2>5
<1>4. ASSUME NEW s \in Sockets, TakeClose(s) PROVE FrameMoves
  <2> DEFINE f == InvalidFrame(s, "unauthenticated")
  <2>1. queue' = queue \/ queue' = [queue EXCEPT ![sink[s]] = Append(queue[sink[s]], f)]
    BY <1>4 DEF TakeClose
  <2>2. CASE queue' = queue
    BY <2>2 DEF FrameMoves
  <2>3. CASE queue' = [queue EXCEPT ![sink[s]] = Append(queue[sink[s]], f)]
    <3>1. sink[s] \in Sockets => AddedFrame(sink[s], f)
      BY PlainFrames
    <3> HIDE DEF f
    <3> QED
      BY <2>3, <3>1, OneFrame
  <2> QED
    BY <2>1, <2>2, <2>3
<1>5. ASSUME NEW s \in Sockets, CheckIdentify(s) PROVE FrameMoves
  <2> DEFINE f == InvalidFrame(0, "unauthenticated")
  <2>1. queue' = queue \/ queue' = [queue EXCEPT ![s] = Append(queue[s], f)]
    BY <1>5 DEF CheckIdentify, Refused
  <2>2. AddedFrame(s, f)
    BY PlainFrames
  <2>3. CASE queue' = queue
    BY <2>3 DEF FrameMoves
  <2> HIDE DEF f
  <2>4. CASE queue' = [queue EXCEPT ![s] = Append(queue[s], f)]
    BY <2>2, <2>4, OneFrame
  <2> QED
    BY <2>1, <2>3, <2>4
<1>6. ASSUME NEW s \in Sockets, SendReady(s) PROVE FrameMoves
  <2>1. /\ stage[s] = "checked" /\ UNCHANGED <<bus, opener, task, born>>
        /\ queue' = [queue EXCEPT ![s] = Append(queue[s], ReadyFrame(s, bus))]
    BY <1>6 DEF SendReady, server
  <2>2. opener[s].op = "identify" /\ task[s] # "none" /\ queue[s] = <<>>
    BY <2>1 DEF SocketsOK, EarlyOK, StagesOK, Early
  <2>3. bus \in Nat /\ born[s] <= bus
    BY DEF TypeServer, TypeTasks, LogOK
  <2>4. PICK c \in Nat : c = bus
    BY <2>3
  <2>5. FrameOK(s, ReadyFrame(s, c))'
    BY <2>1, <2>2, <2>3, <2>4 DEF FrameOK, ReadyFrame
  <2>6. AddedFrame(s, ReadyFrame(s, bus))
    BY <2>1, <2>2, <2>4, <2>5, Built DEF AddedFrame, ReadyFrame
  <2> QED
    BY <2>1, <2>6, OneFrame
<1>7. ASSUME NEW s \in Sockets, CheckResume(s) PROVE FrameMoves
  <2> DEFINE f == InvalidFrame(0, "unauthenticated")
  <2>1. queue' = queue \/ queue' = [queue EXCEPT ![s] = Append(queue[s], f)]
    BY <1>7 DEF CheckResume, Refused
  <2>2. AddedFrame(s, f)
    BY PlainFrames
  <2>3. CASE queue' = queue
    BY <2>3 DEF FrameMoves
  <2> HIDE DEF f
  <2>4. CASE queue' = [queue EXCEPT ![s] = Append(queue[s], f)]
    BY <2>2, <2>4, OneFrame
  <2> QED
    BY <2>1, <2>3, <2>4
<1>8. ASSUME NEW s \in Sockets, LookUpResume(s) PROVE FrameMoves
  <2> DEFINE f == InvalidFrame(0, "expired")
  <2>1. queue' = queue \/ queue' = [queue EXCEPT ![s] = Append(queue[s], f)]
    BY <1>8 DEF LookUpResume, Refused
  <2>2. AddedFrame(s, f)
    BY PlainFrames
  <2>3. CASE queue' = queue
    BY <2>3 DEF FrameMoves
  <2> HIDE DEF f
  <2>4. CASE queue' = [queue EXCEPT ![s] = Append(queue[s], f)]
    BY <2>2, <2>4, OneFrame
  <2> QED
    BY <2>1, <2>3, <2>4
<1>9. ASSUME NEW s \in Sockets, AttachRefused(s) PROVE FrameMoves
  <2> DEFINE f == InvalidFrame(0, "expired")
  <2>1. queue' = queue \/ queue' = [queue EXCEPT ![s] = Append(queue[s], f)]
    BY <1>9 DEF AttachRefused, Refused
  <2>2. AddedFrame(s, f)
    BY PlainFrames
  <2>3. CASE queue' = queue
    BY <2>3 DEF FrameMoves
  <2> HIDE DEF f
  <2>4. CASE queue' = [queue EXCEPT ![s] = Append(queue[s], f)]
    BY <2>2, <2>4, OneFrame
  <2> QED
    BY <2>1, <2>3, <2>4
<1>10. CASE Receive
  <2>1. conn \in Sockets /\ queue[conn] # <<>> /\ queue' = [queue EXCEPT ![conn] = Tail(queue[conn])]
    BY <1>10 DEF Receive, TypeClient
  <2> QED
    BY <2>1 DEF FrameMoves, TypeWires
<1>11. ASSUME NEW s \in Sockets,
           Lag(s) \/ RefuseAttach(s) \/ ReplayFails(s) \/ ReplayDone(s) \/ TakeDetach(s) \/
           WindowCloses(s) \/ HandshakeTimesOut(s) \/ Identify(s) \/ ReadyUnsent(s) \/
           SocketEnds(s)
     PROVE  FrameMoves
  <2>1. UNCHANGED <<queue>>
    BY <1>11 DEF Lag, RefuseAttach, ReplayFails, ReplayDone, TakeDetach, WindowCloses,
       HandshakeTimesOut, Identify, ReadyUnsent, SocketEnds, EndTask, wires
  <2> QED
    BY <2>1 DEF FrameMoves
<1>12. CASE CloseSessions \/ Dial \/ Dropped \/ Publish \/ EndSignIns \/ Cut \/ Shutdown \/ SetToken \/ UNCHANGED vars
  <2>1. UNCHANGED <<queue>>
    BY <1>12 DEF CloseSessions, Dial, Dropped, Publish, EndSignIns, Cut, Shutdown,
       SetToken, vars, wires
  <2> QED
    BY <2>1 DEF FrameMoves
<1> QED
  BY <1>1, <1>2, <1>3, <1>4, <1>5, <1>6, <1>7, <1>8, <1>9, <1>10, <1>11, <1>12 DEF Next,
     Progress, Environment, Task, Socket

\* Every frame on its way is right about the session it came from.
LEMMA FramesOKStep ==
  ASSUME TypeServer, TypeTasks, TypeWires, EarlyOK, FramesOK, bus' \in Nat, bus <= bus',
         OpenersKept, SessionsKept, LogsKept, FrameMoves
  PROVE  FramesOK'
<1> SUFFICES ASSUME NEW k \in Sockets, NEW i \in DOMAIN queue'[k]
             PROVE  FrameOK(k, queue[k][i])'
  BY DEF FramesOK
<1>1. queue[k] \in Seq(Frames)
  BY DEF TypeWires
<1>2. CASE \E j \in DOMAIN queue[k] : queue'[k][i] = queue[k][j]
  <2>1. PICK j \in DOMAIN queue[k] : queue'[k][i] = queue[k][j]
    BY <1>2
  <2>2. stage[k] # "free"
    BY <1>1, <2>1 DEF EarlyOK, Early
  <2>3. PICK f \in Frames : f = queue[k][j]
    BY <1>1, <2>1
  <2>4. FrameOK(k, f)'
    BY <2>2, <2>3, FrameKept DEF FramesOK
  <2> QED
    BY <2>1, <2>3, <2>4
<1>3. CASE \E f \in Frames : AddedFrame(k, f) /\ queue'[k] = Append(queue[k], f)
  <2>1. PICK f \in Frames : AddedFrame(k, f) /\ queue'[k] = Append(queue[k], f)
    BY <1>3
  <2>2. (i \in DOMAIN queue[k] /\ queue'[k][i] = queue[k][i]) \/ queue'[k][i] = f
    BY <1>1, <2>1, AfterAppend
  <2>3. CASE queue'[k][i] = f
    BY <2>1, <2>3 DEF AddedFrame
  <2> QED
    BY <1>2, <2>2, <2>3
<1>4. CASE queue[k] # <<>> /\ queue'[k] = Tail(queue[k])
  BY <1>1, <1>2, <1>4, AfterTail
<1> QED
  BY <1>2, <1>3, <1>4 DEF FrameMoves

-----------------------------------------------------------------------------
(* The app                                                                 *)

\* What taking frame f off its socket does to what the app has.
Applied(f) ==
  \/ conn' = 0 /\ session' \in {0, session} /\ last' \in {0, last}
     /\ (session' # 0 => last' = last) /\ UNCHANGED knows
  \/ UNCHANGED <<conn, session, last, knows>>
  \/ f.op = "ready" /\ UNCHANGED conn /\ session' = f.sess /\ last' = 0
     /\ knows' = Visible(f.snap)
  \/ f.op = "event" /\ session # 0 /\ f.n = last + 1 /\ last' = f.n
     /\ knows' = knows \union {f.e} /\ UNCHANGED <<conn, session>>

Received ==
  /\ conn \in Sockets /\ queue[conn] # <<>>
  /\ queue' = [queue EXCEPT ![conn] = Tail(queue[conn])]
  /\ Applied(Head(queue[conn]))
  /\ UNCHANGED <<bus, opener, stage, task, born, log>>

Idle == UNCHANGED <<conn, session, last, knows>>
HungUp == conn' = 0 /\ UNCHANGED <<session, last, knows>>

\* What a step may do to the app: leave it alone, dial, hang up, or take one frame.
LEMMA AppMoves ==
  ASSUME TypeClient, [Next]_vars
  PROVE  Idle \/ HungUp \/ Dial \/ Received
<1>1. CASE Receive
  <2>1. conn \in Sockets
    BY <1>1 DEF Receive, TypeClient
  <2>2. Applied(Head(queue[conn]))
    <3> DEFINE f == Head(queue[conn])
    <3>1. ApplyReady(f) \/ ApplyInvalid(f) \/ ApplyEvent(f) \/ ApplyResumed(f)
      BY <1>1 DEF Receive
    <3> HIDE DEF f
    <3>2. ApplyReady(f) => Applied(f)
      BY DEF ApplyReady, Applied
    <3>3. ApplyInvalid(f) => Applied(f)
      BY DEF ApplyInvalid, Applied, Restart, Reauth
    <3>4. ApplyEvent(f) => Applied(f)
      BY DEF ApplyEvent, Applied, Restart
    <3>5. ApplyResumed(f) => Applied(f)
      BY DEF ApplyResumed, Applied
    <3> QED
      BY <3>1, <3>2, <3>3, <3>4, <3>5 DEF f
  <2>3. /\ queue[conn] # <<>> /\ queue' = [queue EXCEPT ![conn] = Tail(queue[conn])]
        /\ UNCHANGED <<bus, opener, stage, task, born, log>>
    BY <1>1 DEF Receive, server, tasks
  <2> QED
    BY <2>1, <2>2, <2>3 DEF Received
<1>2. CASE Dropped \/ Shutdown
  BY <1>2 DEF Dropped, Shutdown, HungUp
<1>3. ASSUME NEW s \in Sockets,
           ReadBus(s) \/ Lag(s) \/ TakeAttach(s) \/ RefuseAttach(s) \/ ReplayOne(s) \/
           ReplayFails(s) \/ ReplayDone(s) \/ TakeDetach(s) \/ TakeClose(s) \/
           WindowCloses(s) \/ HandshakeTimesOut(s) \/ Identify(s) \/ CheckIdentify(s) \/
           SendReady(s) \/ ReadyUnsent(s) \/ CheckResume(s) \/ LookUpResume(s) \/
           AttachRefused(s) \/ SocketEnds(s)
     PROVE  Idle
  BY <1>3 DEF ReadBus, Lag, TakeAttach, RefuseAttach, ReplayOne, ReplayFails,
     ReplayDone, TakeDetach, TakeClose, WindowCloses, HandshakeTimesOut, Identify,
     CheckIdentify, SendReady, ReadyUnsent, CheckResume, LookUpResume, AttachRefused,
     SocketEnds, client, Idle
<1>4. CASE CloseSessions \/ Publish \/ EndSignIns \/ Cut \/ SetToken \/ UNCHANGED vars
  BY <1>4 DEF CloseSessions, Publish, EndSignIns, Cut, SetToken, vars, client, Idle
<1> QED
  BY <1>1, <1>2, <1>3, <1>4 DEF Next, Progress, Environment, Task, Socket

\* Only Publish moves the bus.
LEMMA BusMoves ==
  ASSUME [Next]_vars, bus' # bus
  PROVE  Publish
<1>1. CASE CloseSessions \/ EndSignIns
  BY <1>1 DEF CloseSessions, EndSignIns
<1>2. ASSUME NEW s \in Sockets,
           ReadBus(s) \/ Lag(s) \/ TakeAttach(s) \/ RefuseAttach(s) \/ ReplayOne(s) \/
           ReplayFails(s) \/ ReplayDone(s) \/ TakeDetach(s) \/ TakeClose(s) \/
           WindowCloses(s) \/ HandshakeTimesOut(s) \/ Identify(s) \/ CheckIdentify(s) \/
           SendReady(s) \/ ReadyUnsent(s) \/ CheckResume(s) \/ LookUpResume(s) \/
           AttachRefused(s) \/ SocketEnds(s)
     PROVE  UNCHANGED bus
  BY <1>2 DEF ReadBus, Lag, TakeAttach, RefuseAttach, ReplayOne, ReplayFails,
     ReplayDone, TakeDetach, TakeClose, WindowCloses, HandshakeTimesOut, Identify,
     CheckIdentify, SendReady, ReadyUnsent, CheckResume, LookUpResume, AttachRefused,
     SocketEnds, server
<1>3. CASE Dial \/ Receive \/ Dropped \/ Cut \/ Shutdown \/ SetToken \/ UNCHANGED vars
  BY <1>3 DEF Dial, Receive, Dropped, Cut, Shutdown, SetToken, vars, server
<1> QED
  BY <1>1, <1>2, <1>3 DEF Next, Progress, Environment, Task, Socket

\* The bus only moves forward.
LEMMA BusStep == TypeServer /\ [Next]_vars => bus <= bus'
<1> SUFFICES ASSUME TypeServer, [Next]_vars PROVE bus <= bus'
  OBVIOUS
<1>1. CASE bus' = bus
  BY <1>1 DEF TypeServer
<1>2. CASE bus' # bus
  BY <1>2, BusMoves DEF Publish, TypeServer
<1> QED
  BY <1>1, <1>2

\* Behind the frame the app takes there is no `ready`.
LEMMA NoReadyBehind ==
  ASSUME TypeWires, AppOK, Received
  PROVE  \A i \in DOMAIN queue'[conn] : queue'[conn][i].op # "ready"
<1> SUFFICES ASSUME NEW i \in DOMAIN queue'[conn] PROVE queue'[conn][i].op # "ready"
  OBVIOUS
<1>1. queue[conn] \in Seq(Frames) /\ queue[conn] # <<>> /\ conn \in Sockets
  BY DEF TypeWires, Received
<1>2. queue'[conn] = Tail(queue[conn])
  BY <1>1 DEF TypeWires, Received
<1>3. i + 1 \in DOMAIN queue[conn] /\ queue'[conn][i] = queue[conn][i + 1] /\ i \in Nat \ {0}
  BY <1>1, <1>2, AfterTail
<1>4. i + 1 # 1 /\ conn # 0
  BY <1>1, <1>3, SocketFacts
<1> QED
  BY <1>3, <1>4 DEF AppOK

\* The app's session stays the one its socket was opened for.
LEMMA AppOKStep ==
  ASSUME TypeOK, TypeClient', TypeWires', SocketsOK, FramesOK, AppOK, NoGap, [Next]_vars,
         OpenersKept, LateKept, SessionsKept, FrameMoves
  PROVE  AppOK'
<1> USE DEF TypeOK
<1>1. CASE Idle
  <2>1. UNCHANGED <<conn, session, knows>>
    BY <1>1 DEF Idle
  <2>2. session # 0 => task'[session] # "none"
    BY DEF AppOK, SessionsKept, TypeClient
  <2>3. ASSUME NEW k \in Sockets, k = conn
        PROVE  /\ stage'[k] # "free"
               /\ session \in {0, SessionOf(k)'}
               /\ opener'[k].op = "identify" /\ stage'[k] \in Early => session = 0
               /\ \A i \in DOMAIN queue'[k] :
                    queue'[k][i].op = "ready" =>
                      i = 1 /\ session = 0 /\ knows \subseteq Visible(queue'[k][i].snap)
    <3>1. conn # 0
      BY <2>3, SocketFacts
    <3>2. stage[k] # "free" /\ stage'[k] # "free" /\ opener'[k] = opener[k]
      BY <2>3, <3>1 DEF AppOK, OpenersKept
    <3>3. stage'[k] \in Early => stage[k] \in Early
      BY DEF LateKept, Late, Early, TypeWires
    <3>4. opener[k].op = "identify" /\ stage[k] \in Early => session = 0
      BY <2>3, <3>1 DEF AppOK
    <3>5. session \in {0, SessionOf(k)}
      BY <2>3, <3>1 DEF AppOK
    <3>6. SessionOf(k)' = SessionOf(k)
      BY <3>2 DEF SessionOf
    <3>7. \A i \in DOMAIN queue[k] : queue[k][i].op = "ready" =>
            i = 1 /\ session = 0 /\ knows \subseteq Visible(queue[k][i].snap)
      BY <2>3, <3>1 DEF AppOK
    <3>8. ASSUME NEW i \in DOMAIN queue'[k], queue'[k][i].op = "ready"
          PROVE  i = 1 /\ session = 0 /\ knows \subseteq Visible(queue'[k][i].snap)
      <4>1. queue[k] \in Seq(Frames)
        BY DEF TypeWires
      <4>2. CASE queue'[k] = queue[k]
        BY <3>7, <3>8, <4>2
      <4>3. CASE queue[k] # <<>> /\ queue'[k] = Tail(queue[k])
        <5>1. i + 1 \in DOMAIN queue[k] /\ queue'[k][i] = queue[k][i + 1] /\ i \in Nat \ {0}
          BY <3>8, <4>1, <4>3, AfterTail
        <5>2. i + 1 # 1
          BY <5>1
        <5> QED
          BY <3>7, <3>8, <5>1, <5>2
      <4>4. CASE \E f \in Frames : AddedFrame(k, f) /\ queue'[k] = Append(queue[k], f)
        <5>1. PICK f \in Frames : AddedFrame(k, f) /\ queue'[k] = Append(queue[k], f)
          BY <4>4
        <5>2. \/ i \in DOMAIN queue[k] /\ queue'[k][i] = queue[k][i]
              \/ i = Len(queue[k]) + 1 /\ queue'[k][i] = f
          BY <3>8, <4>1, <5>1, AfterAppend
        <5>3. CASE i \in DOMAIN queue[k] /\ queue'[k][i] = queue[k][i]
          BY <3>7, <3>8, <5>3
        <5>4. CASE i = Len(queue[k]) + 1 /\ queue'[k][i] = f
          <6>1. stage[k] = "checked" /\ queue[k] = <<>> /\ f.snap = bus
            BY <3>8, <5>1, <5>4 DEF AddedFrame
          <6>2. session = 0
            BY <3>4, <6>1 DEF SocketsOK, StagesOK, Early
          <6>3. knows \subseteq Visible(f.snap)
            BY <6>1 DEF NoGap
          <6>4. i = 1
            BY <5>4, <6>1
          <6> QED
            BY <5>4, <6>2, <6>3, <6>4
        <5> QED
          BY <5>2, <5>3, <5>4
      <4> QED
        BY <4>2, <4>3, <4>4 DEF FrameMoves
    <3> QED
      BY <3>2, <3>3, <3>4, <3>5, <3>6, <3>8
  <2>4. CASE conn = 0
    BY <2>1, <2>2, <2>4 DEF AppOK
  <2>5. CASE conn # 0
    <3>1. PICK k \in Sockets : k = conn /\ conn' = k
      BY <2>1, <2>5 DEF TypeClient
    <3>2. (session \in {0, SessionOf(conn)})'
      BY <2>1, <2>3, <3>1 DEF SessionOf
    <3> QED
      BY <2>1, <2>2, <2>3, <3>1, <3>2 DEF AppOK, Visible
  <2> QED
    BY <2>4, <2>5
<1>2. CASE HungUp
  <2>1. conn' = 0 /\ session' = session
    BY <1>2 DEF HungUp
  <2>2. session # 0 => task'[session] # "none"
    BY DEF AppOK, SessionsKept, TypeClient
  <2> QED
    BY <2>1, <2>2 DEF AppOK
<1>3. CASE Dial
  <2>1. PICK k \in Sockets : k = dials + 1
    BY <1>3 DEF Dial
  <2>2. /\ conn' = k /\ UNCHANGED <<session, knows, queue, task>>
        /\ stage' = [stage EXCEPT ![k] = "hello"]
        /\ opener' = [opener EXCEPT ![k] =
             [op |-> IF session # 0 THEN "resume" ELSE "identify",
              sess |-> session, from |-> ResumeFrom, gen |-> token]]
    BY <1>3, <2>1 DEF Dial, tasks
  <2>3. k > dials
    BY <2>1, SocketFacts DEF TypeClient
  <2>4. stage[k] = "free" /\ queue[k] = <<>>
    BY <2>1, <2>3 DEF SocketsOK, StagesOK, EarlyOK, Early
  <2>5. /\ stage'[k] = "hello" /\ opener'[k].sess = session
        /\ opener'[k].op = IF session # 0 THEN "resume" ELSE "identify"
    BY <2>2 DEF TypeWires
  <2>6. session # 0 => SessionOf(k)' = session
    BY <2>5 DEF SessionOf
  <2>7. session # 0 => task'[session] # "none"
    BY <2>2 DEF AppOK
  <2>8. DOMAIN queue'[k] = {}
    BY <2>2, <2>4
  <2>9. (session \in {0, SessionOf(conn)})'
    BY <2>2, <2>6 DEF SessionOf
  <2> QED
    BY <2>2, <2>5, <2>7, <2>8, <2>9 DEF AppOK
<1>4. CASE Received
  <2>1. PICK k \in Sockets, f \in Frames : k = conn /\ f = Head(queue[k])
    BY <1>4 DEF Received, TypeWires
  <2>2. /\ queue[k] # <<>> /\ UNCHANGED <<bus, opener, stage, task>> /\ Applied(f)
    BY <1>4, <2>1 DEF Received
  <2>3. k # 0 /\ stage[k] # "free" /\ stage[k] \notin Early
    BY <2>1, <2>2, SocketFacts DEF SocketsOK, EarlyOK, Early
  <2>4. \A i \in DOMAIN queue'[k] : queue'[k][i].op # "ready"
    BY <1>4, <2>1, NoReadyBehind
  <2>5. FrameOK(k, f)
    <3>1. queue[k] \in Seq(Frames) /\ 1 \in DOMAIN queue[k] /\ f = queue[k][1]
      BY <2>1, <2>2 DEF TypeWires
    <3> QED
      BY <3>1 DEF FramesOK
  <2>6. session \in {0, SessionOf(k)} /\ (session # 0 => task[session] # "none")
    BY <2>1, <2>3 DEF AppOK
  <2>7. SessionOf(k)' = SessionOf(k)
    BY <2>2 DEF SessionOf
  <2>8. /\ conn' \in {0, k}
        /\ \/ session' \in {0, session}
           \/ f.op = "ready" /\ session' = f.sess
    BY <2>1, <2>2 DEF Applied
  <2>9. f.op = "ready" => f.sess = SessionOf(k) /\ task[f.sess] # "none"
    BY <2>5 DEF FrameOK, SessionOf
  <2>10. session' \in {0, SessionOf(k)} /\ (session' # 0 => task[session'] # "none")
    BY <2>6, <2>8, <2>9
  <2>11. CASE conn' = 0
    BY <2>2, <2>10, <2>11 DEF AppOK
  <2>12. CASE conn' = k
    <3>1. (session \in {0, SessionOf(conn)})'
      BY <2>7, <2>10, <2>12 DEF SessionOf
    <3> QED
      BY <2>2, <2>3, <2>4, <2>10, <2>12, <3>1 DEF AppOK
  <2> QED
    BY <2>8, <2>11, <2>12
<1> QED
  BY <1>1, <1>2, <1>3, <1>4, AppMoves

\* The next number a session sends fills the next place in what the app has: every
\* visible event before it is from before the session, or has a smaller number.
LEMMA NextEvent ==
  ASSUME TypeOK, LogOK, AppOK, KnowsOK, session # 0, last + 1 \in DOMAIN log[session]
  PROVE  \A x \in Visible(log[session][last + 1]) :
           x \in knows \/ x = log[session][last + 1]
<1> DEFINE e == log[session][last + 1]
<1>1. PICK s \in Sockets : s = session
  BY DEF TypeOK, TypeClient
<1>2. log[s] \in Seq(Nat) /\ pos[s] \in Nat /\ born[s] \in Nat /\ last \in Nat
  BY DEF TypeOK, TypeTasks, TypeClient
<1>3. e \in Visible(pos[s]) /\ e \in Nat
  BY <1>1, <1>2 DEF LogOK
<1> SUFFICES ASSUME NEW x \in Visible(e), x # e PROVE x \in knows
  OBVIOUS
<1>4. x \in Visible(pos[s]) /\ x < e /\ x \in Nat
  BY <1>2, <1>3 DEF Visible
<1>5. CASE x <= born[s]
  BY <1>1, <1>2, <1>4, <1>5 DEF KnowsOK, Visible
<1>6. CASE x > born[s]
  <2>1. PICK n \in DOMAIN log[s] : log[s][n] = x
    BY <1>4, <1>6 DEF LogOK
  <2>2. n < last + 1
    <3>1. CASE n = last + 1
      BY <1>1, <1>4, <2>1, <3>1
    <3>2. CASE n > last + 1
      <4>1. log[s][last + 1] < log[s][n]
        BY <1>1, <2>1, <3>2 DEF LogOK
      <4> QED
        BY <1>1, <1>3, <1>4, <2>1, <4>1
    <3> QED
      BY <1>2, <2>1, <3>1, <3>2
  <2>3. n \in 1..last
    BY <1>2, <2>1, <2>2
  <2> QED
    BY <1>1, <2>1, <2>3 DEF KnowsOK
<1> QED
  BY <1>2, <1>4, <1>5, <1>6

\* Taking a frame keeps the app's count in step with what it has.
LEMMA KnowsOKStep ==
  ASSUME TypeOK, TypeTasks', SocketsOK, FramesOK, AppOK, KnowsOK, [Next]_vars,
         SessionsKept, LogsKept
  PROVE  KnowsOK'
<1> USE DEF TypeOK
<1>1. ASSUME session' = session, last' = last, knows' = knows PROVE KnowsOK'
  <2> SUFFICES ASSUME session # 0
               PROVE  /\ Visible(born'[session]) \subseteq knows
                      /\ last <= Len(log'[session])
                      /\ \A n \in 1..last : log'[session][n] \in knows
    BY <1>1 DEF KnowsOK, Visible
  <2>1. PICK s \in Sockets : s = session
    BY DEF TypeClient
  <2>2. log[s] \in Seq(Nat) /\ log'[s] \in Seq(Nat) /\ last \in Nat
    BY DEF TypeTasks, TypeClient
  <2>3. born'[s] = born[s]
    BY <2>1 DEF AppOK, SessionsKept
  <2>4. last <= Len(log[s]) /\ \A n \in 1..last : log[s][n] \in knows
    BY <2>1 DEF KnowsOK
  <2>5. \A n \in 1..last : n \in DOMAIN log'[s] /\ log'[s][n] = log[s][n]
    BY <2>2, <2>4 DEF LogsKept
  <2>6. last <= Len(log'[s])
    BY <2>2, <2>5
  <2>7. Visible(born'[s]) \subseteq knows
    BY <2>1, <2>3 DEF KnowsOK
  <2> QED
    BY <2>1, <2>4, <2>5, <2>6, <2>7
<1>2. CASE Idle \/ HungUp
  BY <1>1, <1>2 DEF Idle, HungUp
<1>3. CASE Dial
  BY <1>1, <1>3 DEF Dial
<1>4. CASE Received
  <2>1. PICK k \in Sockets, f \in Frames : k = conn /\ f = Head(queue[k])
    BY <1>4 DEF Received, TypeWires
  <2>2. /\ queue[k] # <<>> /\ UNCHANGED <<born, log>> /\ Applied(f)
    BY <1>4, <2>1 DEF Received
  <2>3. FrameOK(k, f)
    <3>1. queue[k] \in Seq(Frames) /\ 1 \in DOMAIN queue[k] /\ f = queue[k][1]
      BY <2>1, <2>2 DEF TypeWires
    <3> QED
      BY <3>1 DEF FramesOK
  <2>4. CASE session' = 0
    BY <2>4 DEF KnowsOK
  <2>5. CASE session' = session /\ last' = last /\ knows' = knows
    BY <1>1, <2>5
  <2>6. CASE f.op = "ready" /\ session' = f.sess /\ last' = 0 /\ knows' = Visible(f.snap)
    <3>1. f.sess = k /\ born[k] <= f.snap
      BY <2>3, <2>6 DEF FrameOK
    <3>2. born[k] \in Nat /\ f.snap \in Nat /\ log[k] \in Seq(Nat)
      BY <2>6 DEF TypeTasks, Frames
    <3>3. Visible(born[k]) \subseteq Visible(f.snap)
      BY <3>1, <3>2 DEF Visible
    <3>4. session' = k /\ last' = 0 /\ knows' = Visible(f.snap) /\ born' = born /\ log' = log
      BY <2>2, <2>6, <3>1
    <3>5. 0 <= Len(log[k])
      BY <3>2
    <3>6. Visible(born'[k]) \subseteq knows'
      BY <3>3, <3>4
    <3>7. last' <= Len(log'[k]) /\ \A n \in 1..last' : log'[k][n] \in knows'
      BY <3>4, <3>5
    <3> QED
      BY <3>4, <3>6, <3>7 DEF KnowsOK, Visible
  <2>7. CASE /\ f.op = "event" /\ session # 0 /\ f.n = last + 1 /\ last' = f.n
             /\ knows' = knows \union {f.e} /\ UNCHANGED <<conn, session>>
    <3>1. PICK s \in Sockets : s = session
      BY <2>7 DEF TypeClient
    <3>2. f.sess = s /\ last + 1 \in DOMAIN log[s] /\ f.e = log[s][last + 1]
      <4>1. session = SessionOf(k)
        BY <2>1, <2>7, SocketFacts DEF AppOK
      <4> QED
        BY <2>3, <2>7, <3>1, <4>1 DEF FrameOK
    <3>3. log[s] \in Seq(Nat) /\ last \in Nat
      BY DEF TypeTasks, TypeClient
    <3>4. last + 1 <= Len(log[s])
      BY <3>2, <3>3
    <3>5. Visible(born[s]) \subseteq knows /\ \A n \in 1..last : log[s][n] \in knows
      BY <3>1, <2>7 DEF KnowsOK
    <3>6. \A n \in 1..(last + 1) : log[s][n] \in knows \union {f.e}
      BY <3>2, <3>3, <3>5
    <3>7. session' = s /\ last' = last + 1 /\ knows' = knows \union {f.e} /\ born' = born /\ log' = log
      BY <2>2, <2>7, <3>1
    <3>8. Visible(born'[s]) \subseteq knows'
      BY <3>5, <3>7
    <3>9. last' <= Len(log'[s]) /\ \A n \in 1..last' : log'[s][n] \in knows'
      BY <3>4, <3>6, <3>7
    <3> QED
      BY <3>7, <3>8, <3>9 DEF KnowsOK, Visible
  <2> QED
    BY <2>2, <2>4, <2>5, <2>6, <2>7 DEF Applied
<1> QED
  BY <1>2, <1>3, <1>4, AppMoves

\* Taking a frame leaves no hole behind: ready is a whole prefix, an event the next.
LEMMA NoGapStep ==
  ASSUME TypeOK, TypeServer', SocketsOK, LogOK, FramesOK, AppOK, KnowsOK, NoGap, [Next]_vars
  PROVE  NoGap'
<1> USE DEF TypeOK
<1>1. bus \in Nat /\ bus' \in Nat /\ bus <= bus'
  BY BusStep DEF TypeServer
<1>2. Visible(bus) \subseteq Visible(bus')
  BY <1>1 DEF Visible
<1>3. ASSUME knows' = knows PROVE NoGap'
  <2>1. knows \subseteq Visible(bus') /\ \A e \in knows : Visible(e) \subseteq knows
    BY <1>2 DEF NoGap
  <2> QED
    BY <1>3, <2>1 DEF NoGap, Visible
<1>4. CASE Idle \/ HungUp
  BY <1>3, <1>4 DEF Idle, HungUp
<1>5. CASE Dial
  BY <1>3, <1>5 DEF Dial
<1>6. CASE Received
  <2>1. PICK k \in Sockets, f \in Frames : k = conn /\ f = Head(queue[k])
    BY <1>6 DEF Received, TypeWires
  <2>2. /\ queue[k] # <<>> /\ Applied(f)
    BY <1>6, <2>1 DEF Received
  <2>3. FrameOK(k, f)
    <3>1. queue[k] \in Seq(Frames) /\ 1 \in DOMAIN queue[k] /\ f = queue[k][1]
      BY <2>1, <2>2 DEF TypeWires
    <3> QED
      BY <3>1 DEF FramesOK
  <2>4. CASE f.op = "ready" /\ knows' = Visible(f.snap)
    <3>1. f.snap \in Nat /\ f.snap <= bus
      BY <2>3, <2>4 DEF FrameOK, Frames
    <3>2. /\ Visible(f.snap) \subseteq Visible(bus)
          /\ \A e \in Visible(f.snap) : Visible(e) \subseteq Visible(f.snap)
      BY <1>1, <3>1 DEF Visible
    <3>3. knows' \subseteq Visible(bus') /\ \A e \in knows' : Visible(e) \subseteq knows'
      BY <1>2, <2>4, <3>2
    <3> QED
      BY <3>3 DEF NoGap, Visible
  <2>5. CASE f.op = "event" /\ session # 0 /\ f.n = last + 1 /\ knows' = knows \union {f.e}
    <3>1. f.e = log[session][last + 1] /\ last + 1 \in DOMAIN log[session] /\ session \in Sockets
      <4>1. session = SessionOf(k) /\ session \in Sockets
        BY <2>1, <2>5, SocketFacts DEF AppOK, TypeClient
      <4> QED
        BY <2>3, <2>5, <4>1 DEF FrameOK
    <3>2. \A x \in Visible(f.e) : x \in knows \/ x = f.e
      BY <2>5, <3>1, NextEvent
    <3>3. f.e \in Visible(bus)
      <4>1. f.e \in Visible(pos[session]) /\ pos[session] <= bus /\ pos[session] \in Nat
        BY <3>1 DEF LogOK, TypeTasks
      <4> QED
        BY <1>1, <4>1 DEF Visible
    <3>4. PICK e : e = f.e
      OBVIOUS
    <3>5. knows' = knows \union {e} /\ e \in Visible(bus) /\ \A x \in Visible(e) : x \in knows \/ x = e
      BY <2>5, <3>2, <3>3, <3>4
    <3>6. \A x \in knows' : x \in Visible(bus')
      BY <1>2, <3>5 DEF NoGap
    <3>7. \A x \in knows' : Visible(x) \subseteq knows'
      BY <3>5 DEF NoGap
    <3> QED
      BY <3>6, <3>7 DEF NoGap, Visible
  <2> QED
    BY <1>3, <2>2, <2>4, <2>5 DEF Applied
<1> QED
  BY <1>4, <1>5, <1>6, AppMoves

\* The invariant is inductive.
LEMMA InvStep == IInv /\ [Next]_vars => IInv'
<1> SUFFICES ASSUME IInv, [Next]_vars PROVE IInv'
  OBVIOUS
<1>1. TypeOK /\ TypeServer /\ TypeTasks /\ TypeWires /\ TypeClient
  BY DEF IInv, TypeOK
<1>2. TypeOK' /\ TypeServer' /\ TypeTasks' /\ TypeWires' /\ TypeClient'
  BY <1>1, ServerStep, TasksStep, WiresStep, ClientStep DEF TypeOK
<1>3. SocketsOK /\ EarlyOK /\ StagesOK /\ SinkOK /\ TodoOK /\ CtlOK /\ UnbornOK
  BY DEF IInv, SocketsOK
<1>4. LogOK /\ FramesOK /\ AppOK /\ KnowsOK /\ NoGap
  BY DEF IInv
<1>5. OpenersKept /\ LateKept /\ SessionsKept /\ LogsKept
  BY <1>1, <1>3, OpenersStep, LateStep, SessionsStep, LogsStep
<1>6. SinkOK' /\ TodoOK' /\ CtlOK'
  BY <1>1, <1>3, <1>5, SinkMovesStep, SinkOKStep, TodoMovesStep, TodoOKStep,
     CtlMovesStep, CtlOKStep
<1>7. SocketsOK' /\ UnbornOK'
  BY <1>1, <1>2, <1>3, <1>5, QueueMovesStep, EarlyOKStep, StagesOKStep, UnbornStep
     DEF SocketsOK
<1>8. LogOK'
  BY <1>1, <1>3, <1>4, LogOKStep
<1>9. FrameMoves /\ bus' \in Nat /\ bus <= bus'
  BY <1>1, <1>2, <1>3, <1>4, FrameMovesStep, BusStep DEF TypeServer
<1>10. FramesOK'
  BY <1>1, <1>3, <1>4, <1>5, <1>9, FramesOKStep
<1>11. AppOK' /\ KnowsOK' /\ NoGap'
  BY <1>1, <1>2, <1>3, <1>4, <1>5, <1>9, AppOKStep, KnowsOKStep, NoGapStep
<1> QED
  BY <1>2, <1>6, <1>7, <1>8, <1>10, <1>11 DEF IInv

-----------------------------------------------------------------------------
(* The theorems                                                            *)

\* The inductive invariant holds in every reachable state.
LEMMA Invariant == Spec => []IInv
  BY InitInv, InvStep, PTL DEF Spec

\* The app's copy of the feed never has a hole: through cuts, resumes, laps of the
\* bus, replaced sockets and fresh snapshots, having an event means having every
\* visible one before it.
THEOREM FeedNeverGaps == Spec => []NoGap
<1>1. IInv => NoGap
  BY DEF IInv
<1> QED
  BY Invariant, <1>1, PTL

\* Each step of the gateway is a step of the feed or leaves it alone.
LEMMA FeedStep == IInv /\ [Next]_vars => [Promise!Next]_<<bus, knows>>
<1> SUFFICES ASSUME IInv, [Next]_vars, ~UNCHANGED <<bus, knows>>
             PROVE  Promise!Next
  OBVIOUS
<1>1. TypeOK /\ TypeServer /\ TypeClient /\ LogOK /\ FramesOK /\ AppOK /\ KnowsOK /\ NoGap
  BY DEF IInv, TypeOK
<1>2. bus \in Nat
  BY <1>1 DEF TypeServer
<1>3. CASE Received
  <2>1. PICK k \in Sockets, f \in Frames : k = conn /\ f = Head(queue[k])
    BY <1>1, <1>3 DEF Received, TypeOK, TypeWires
  <2>2. queue[k] # <<>> /\ Applied(f) /\ UNCHANGED bus
    BY <1>3, <2>1 DEF Received
  <2>3. FrameOK(k, f) /\ queue[k] \in Seq(Frames) /\ 1 \in DOMAIN queue[k] /\ f = queue[k][1]
    <3>1. queue[k] \in Seq(Frames) /\ 1 \in DOMAIN queue[k] /\ f = queue[k][1]
      BY <1>1, <2>1, <2>2 DEF TypeOK, TypeWires
    <3> QED
      BY <1>1, <3>1 DEF FramesOK
  <2>4. CASE f.op = "ready" /\ knows' = Visible(f.snap)
    <3>1. f.snap \in 0..bus
      BY <1>2, <2>3, <2>4 DEF FrameOK, Frames
    <3>2. knows \subseteq Visible(f.snap)
      BY <1>1, <2>1, <2>3, <2>4, SocketFacts DEF AppOK
    <3>3. \E c \in 0..bus : knows \subseteq Visible(c) /\ knows' = Visible(c) /\ UNCHANGED bus
      BY <2>2, <2>4, <3>1, <3>2
    <3> QED
      BY <3>3 DEF Promise!Next, Promise!Learn, Promise!Visible, Visible
  <2>5. CASE f.op = "event" /\ session # 0 /\ f.n = last + 1 /\ knows' = knows \union {f.e}
    <3>1. f.e = log[session][last + 1] /\ last + 1 \in DOMAIN log[session] /\ session \in Sockets
      <4>1. session = SessionOf(k) /\ session \in Sockets
        BY <1>1, <2>1, <2>5, SocketFacts DEF AppOK, TypeClient
      <4> QED
        BY <2>3, <2>5, <4>1 DEF FrameOK
    <3>2. \A x \in Visible(f.e) : x \in knows \/ x = f.e
      BY <1>1, <2>5, <3>1, NextEvent
    <3>3. f.e \in Visible(bus) /\ f.e \in 0..bus /\ f.e \notin knows
      <4>1. f.e \in Visible(pos[session]) /\ pos[session] <= bus /\ pos[session] \in Nat
        BY <1>1, <3>1 DEF LogOK, TypeOK, TypeTasks
      <4>2. knows' # knows
        BY <2>2
      <4> QED
        BY <1>2, <2>5, <4>1, <4>2 DEF Visible
    <3>4. \A x \in knows : x \in Visible(f.e)
      <4> SUFFICES ASSUME NEW x \in knows PROVE x \in Visible(f.e)
        OBVIOUS
      <4>1. x \in Visible(bus) /\ Visible(x) \subseteq knows
        BY <1>1 DEF NoGap
      <4>2. f.e \notin Visible(x)
        BY <3>3, <4>1
      <4> QED
        BY <1>2, <3>3, <4>1, <4>2 DEF Visible
    <3>5. f.e \in Visible(f.e)
      BY <1>2, <3>3 DEF Visible
    <3>6. knows' = Visible(f.e)
      BY <2>5, <3>2, <3>4, <3>5
    <3>7. \E c \in 0..bus : knows \subseteq Visible(c) /\ knows' = Visible(c) /\ UNCHANGED bus
      BY <2>2, <3>3, <3>4, <3>6
    <3> QED
      BY <3>7 DEF Promise!Next, Promise!Learn, Promise!Visible, Visible
  <2> QED
    BY <2>2, <2>4, <2>5 DEF Applied
<1>4. CASE knows' = knows
  <2>1. bus' # bus
    BY <1>4
  <2>2. Publish
    BY <2>1, BusMoves
  <2> QED
    BY <2>2, <1>4 DEF Publish, Promise!Next, Promise!Publish
<1> QED
  BY <1>1, <1>3, <1>4, AppMoves DEF Idle, HungUp, Dial

\* The gateway implements the feed it promises: the app only ever moves forward, to
\* whole prefixes of what was published for its person.
THEOREM GatewayImplementsFeed == Spec => ImplementsFeed
<1>1. Init => Promise!Init
  BY DEF Init, Promise!Init
<1>2. IInv /\ [Next]_vars => [Promise!Next]_<<bus, knows>>
  BY FeedStep
<1> QED
  BY Invariant, <1>1, <1>2, PTL DEF Spec, ImplementsFeed, Promise!Spec

-----------------------------------------------------------------------------
(* Queues of numbered frames                                               *)

\* A frame with number n fits behind queue q, whose reader has taken number l.
NextFits(q, l, n) ==
  /\ l < n
  /\ \A i \in DOMAIN q : q[i].op = "event" => q[i].n < n
  /\ \A m \in (l + 1)..(n - 1) : \E i \in DOMAIN q : q[i].op = "event" /\ q[i].n = m

Plain(q) == \A i \in DOMAIN q : q[i].op # "event"
ReadyFirst(q) == q # <<>> /\ q[1].op = "ready"

\* The number of an event frame is one.
LEMMA EventNumber == \A f \in Frames : f.op = "event" => f.n \in Nat
  BY DEF Frames

\* The places of a queue one frame was added to.
LEMMA Places ==
  ASSUME NEW q \in Seq(Frames), NEW f \in Frames
  PROVE  /\ DOMAIN Append(q, f) = DOMAIN q \union {Len(q) + 1}
         /\ Append(q, f)[Len(q) + 1] = f
         /\ \A i \in DOMAIN q : Append(q, f)[i] = q[i] /\ i < Len(q) + 1 /\ i \in Nat
         /\ DOMAIN q = 1..Len(q) /\ Len(q) \in Nat
         /\ \A i \in DOMAIN q : q[i] \in Frames
  OBVIOUS

\* A frame without a number changes nothing about the numbers.
LEMMA PlainAdded ==
  ASSUME NEW q \in Seq(Frames), NEW f \in Frames, f.op # "event", NEW l \in Nat
  PROVE  /\ RunsOn(q, l) => RunsOn(Append(q, f), l)
         /\ \A n \in Nat : NextFits(q, l, n) => NextFits(Append(q, f), l, n)
         /\ Plain(q) => Plain(Append(q, f))
         /\ Plain(Append(q, f)) => Plain(q)
         /\ ReadyFirst(q) => ReadyFirst(Append(q, f))
<1> DEFINE p == Append(q, f)
<1>1. /\ DOMAIN p = DOMAIN q \union {Len(q) + 1} /\ p[Len(q) + 1] = f
      /\ \A i \in DOMAIN q : p[i] = q[i] /\ i < Len(q) + 1 /\ i \in Nat
      /\ DOMAIN q = 1..Len(q) /\ Len(q) \in Nat
  BY Places
<1>2. ASSUME RunsOn(q, l) PROVE RunsOn(p, l)
  <2> SUFFICES ASSUME NEW i \in DOMAIN p, p[i].op = "event"
               PROVE  /\ l < p[i].n
                      /\ \A j \in 1..(i - 1) : p[j].op = "event" => p[j].n < p[i].n
                      /\ \A m \in (l + 1)..(p[i].n - 1) :
                           \E j \in 1..(i - 1) : p[j].op = "event" /\ p[j].n = m
    BY DEF RunsOn
  <2>1. i \in DOMAIN q /\ \A j \in 1..(i - 1) : j \in DOMAIN q /\ p[j] = q[j]
    BY <1>1
  <2>2. p[i] = q[i]
    BY <1>1, <2>1
  <2> HIDE DEF p
  <2> QED
    BY <1>2, <2>1, <2>2 DEF RunsOn
<1>3. ASSUME NEW n \in Nat, NextFits(q, l, n) PROVE NextFits(p, l, n)
  <2> HIDE DEF p
  <2> QED
    BY <1>1, <1>3 DEF NextFits
<1>4. (Plain(q) => Plain(p)) /\ (Plain(p) => Plain(q))
  <2> HIDE DEF p
  <2> QED
    BY <1>1 DEF Plain
<1>5. ReadyFirst(q) => ReadyFirst(p)
  BY <1>1 DEF ReadyFirst
<1> QED
  BY <1>2, <1>3, <1>4, <1>5

\* A frame with the number that fits keeps the run, and the next one fits behind it.
LEMMA NextAdded ==
  ASSUME NEW q \in Seq(Frames), NEW f \in Frames, NEW l \in Nat, NEW n \in Nat,
         f.op = "event", f.n = n, RunsOn(q, l), NextFits(q, l, n)
  PROVE  /\ RunsOn(Append(q, f), l) /\ NextFits(Append(q, f), l, n + 1)
         /\ ReadyFirst(q) => ReadyFirst(Append(q, f))
<1> DEFINE p == Append(q, f)
<1>1. /\ DOMAIN p = DOMAIN q \union {Len(q) + 1} /\ p[Len(q) + 1] = f
      /\ \A i \in DOMAIN q : p[i] = q[i] /\ i < Len(q) + 1 /\ i \in Nat
      /\ DOMAIN q = 1..Len(q) /\ Len(q) \in Nat
      /\ \A i \in DOMAIN q : q[i] \in Frames
  BY Places
<1> HIDE DEF p
<1>2. RunsOn(p, l)
  <2> SUFFICES ASSUME NEW i \in DOMAIN p, p[i].op = "event"
               PROVE  /\ l < p[i].n
                      /\ \A j \in 1..(i - 1) : p[j].op = "event" => p[j].n < p[i].n
                      /\ \A m \in (l + 1)..(p[i].n - 1) :
                           \E j \in 1..(i - 1) : p[j].op = "event" /\ p[j].n = m
    BY DEF RunsOn
  <2>1. \A j \in 1..(i - 1) : j \in DOMAIN q /\ p[j] = q[j]
    BY <1>1
  <2>2. CASE i \in DOMAIN q
    <3>1. p[i] = q[i]
      BY <1>1, <2>2
    <3> QED
      BY <2>1, <2>2, <3>1 DEF RunsOn
  <2>3. CASE i = Len(q) + 1
    <3>1. p[i] = f /\ 1..(i - 1) = DOMAIN q
      BY <1>1, <2>3
    <3> QED
      BY <2>1, <3>1 DEF NextFits
  <2> QED
    BY <1>1, <2>2, <2>3
<1>3. NextFits(p, l, n + 1)
  <2>1. l < n + 1
    BY DEF NextFits
  <2>2. \A i \in DOMAIN p : p[i].op = "event" => p[i].n < n + 1
    BY <1>1, EventNumber DEF NextFits
  <2>3. ASSUME NEW m \in (l + 1)..n PROVE \E i \in DOMAIN p : p[i].op = "event" /\ p[i].n = m
    <3>1. CASE m = n
      BY <1>1, <3>1
    <3>2. CASE m # n
      <4>1. PICK i \in DOMAIN q : q[i].op = "event" /\ q[i].n = m
        BY <3>2 DEF NextFits
      <4> QED
        BY <1>1, <4>1
    <3> QED
      BY <3>1, <3>2
  <2> QED
    BY <2>1, <2>2, <2>3 DEF NextFits
<1>4. ReadyFirst(q) => ReadyFirst(p)
  BY <1>1 DEF ReadyFirst, p
<1> QED
  BY <1>2, <1>3, <1>4 DEF p

\* The frame at the head of a run is the next one, and what is left runs on from it.
LEMMA HeadTaken ==
  ASSUME NEW q \in Seq(Frames), q # <<>>, NEW l \in Nat, RunsOn(q, l)
  PROVE  /\ Head(q).op = "event" =>
              /\ Head(q).n = l + 1
              /\ RunsOn(Tail(q), l + 1)
              /\ \A n \in Nat : NextFits(q, l, n) => NextFits(Tail(q), l + 1, n)
         /\ Head(q).op # "event" =>
              /\ RunsOn(Tail(q), l)
              /\ \A n \in Nat : NextFits(q, l, n) => NextFits(Tail(q), l, n)
         /\ Plain(q) => Plain(Tail(q))
<1> DEFINE p == Tail(q)
<1>1. /\ DOMAIN q = 1..Len(q) /\ Len(q) \in Nat \ {0} /\ DOMAIN p = 1..(Len(q) - 1)
      /\ \A i \in DOMAIN p : p[i] = q[i + 1]
      /\ \A i \in DOMAIN q : q[i] \in Frames
      /\ Head(q) = q[1]
  OBVIOUS
<1> HIDE DEF p
<1>2. \A i \in DOMAIN q : i = 1 \/ (i - 1 \in DOMAIN p /\ p[i - 1] = q[i])
  BY <1>1
<1>3. Plain(q) => Plain(p)
  BY <1>1 DEF Plain
<1>4. ASSUME q[1].op = "event"
      PROVE  /\ q[1].n = l + 1
             /\ RunsOn(p, l + 1)
             /\ \A n \in Nat : NextFits(q, l, n) => NextFits(p, l + 1, n)
  <2>1. q[1].n = l + 1
    <3>1. q[1].n \in Nat /\ l < q[1].n
      BY <1>1, <1>4, EventNumber DEF RunsOn
    <3>2. \A m \in (l + 1)..(q[1].n - 1) : \E j \in 1..0 : q[j].op = "event" /\ q[j].n = m
      BY <1>1, <1>4 DEF RunsOn
    <3> QED
      BY <3>1, <3>2
  <2>2. ASSUME NEW i \in DOMAIN p, p[i].op = "event"
        PROVE  /\ l + 1 < p[i].n
               /\ \A j \in 1..(i - 1) : p[j].op = "event" => p[j].n < p[i].n
               /\ \A m \in (l + 2)..(p[i].n - 1) :
                    \E j \in 1..(i - 1) : p[j].op = "event" /\ p[j].n = m
    <3>1. p[i] = q[i + 1] /\ i + 1 \in DOMAIN q /\ i \in Nat /\ i >= 1
      BY <1>1
    <3>2. /\ \A j \in 1..i : q[j].op = "event" => q[j].n < q[i + 1].n
          /\ \A m \in (l + 1)..(q[i + 1].n - 1) :
               \E j \in 1..i : q[j].op = "event" /\ q[j].n = m
      BY <2>2, <3>1 DEF RunsOn
    <3>3. l + 1 < p[i].n
      BY <1>4, <2>1, <3>1, <3>2
    <3>4. ASSUME NEW j \in 1..(i - 1), p[j].op = "event" PROVE p[j].n < p[i].n
      <4>1. p[j] = q[j + 1] /\ j + 1 \in 1..i
        BY <1>1, <3>1
      <4> QED
        BY <3>1, <3>2, <3>4, <4>1
    <3>5. ASSUME NEW m \in (l + 2)..(p[i].n - 1)
          PROVE  \E j \in 1..(i - 1) : p[j].op = "event" /\ p[j].n = m
      <4>1. p[i].n \in Nat
        BY <1>1, <2>2, <3>1, EventNumber
      <4>2. PICK j \in 1..i : q[j].op = "event" /\ q[j].n = m
        BY <3>1, <3>2, <4>1
      <4>3. j # 1
        BY <2>1, <4>2
      <4>4. j - 1 \in 1..(i - 1) /\ p[j - 1] = q[j]
        BY <1>1, <3>1, <4>2, <4>3
      <4> QED
        BY <4>2, <4>4
    <3> QED
      BY <3>3, <3>4, <3>5
  <2>3. RunsOn(p, l + 1)
    BY <2>2 DEF RunsOn
  <2>4. ASSUME NEW n \in Nat, NextFits(q, l, n) PROVE NextFits(p, l + 1, n)
    <3>1. \A i \in DOMAIN p : p[i].op = "event" => p[i].n < n
      BY <1>1, <2>4 DEF NextFits
    <3>2. l + 1 < n
      BY <1>1, <1>4, <2>1, <2>4 DEF NextFits
    <3>3. ASSUME NEW m \in (l + 2)..(n - 1) PROVE \E i \in DOMAIN p : p[i].op = "event" /\ p[i].n = m
      <4>1. PICK i \in DOMAIN q : q[i].op = "event" /\ q[i].n = m
        BY <2>4 DEF NextFits
      <4>2. i # 1
        BY <2>1, <4>1
      <4> QED
        BY <1>2, <4>1, <4>2
    <3> QED
      BY <3>1, <3>2, <3>3 DEF NextFits
  <2> QED
    BY <2>1, <2>3, <2>4
<1>5. ASSUME q[1].op # "event"
      PROVE  /\ RunsOn(p, l)
             /\ \A n \in Nat : NextFits(q, l, n) => NextFits(p, l, n)
  <2>1. ASSUME NEW i \in DOMAIN p, p[i].op = "event"
        PROVE  /\ l < p[i].n
               /\ \A j \in 1..(i - 1) : p[j].op = "event" => p[j].n < p[i].n
               /\ \A m \in (l + 1)..(p[i].n - 1) :
                    \E j \in 1..(i - 1) : p[j].op = "event" /\ p[j].n = m
    <3>1. p[i] = q[i + 1] /\ i + 1 \in DOMAIN q /\ i \in Nat /\ i >= 1
      BY <1>1
    <3>2. /\ l < q[i + 1].n
          /\ \A j \in 1..i : q[j].op = "event" => q[j].n < q[i + 1].n
          /\ \A m \in (l + 1)..(q[i + 1].n - 1) :
               \E j \in 1..i : q[j].op = "event" /\ q[j].n = m
      BY <2>1, <3>1 DEF RunsOn
    <3>3. ASSUME NEW j \in 1..(i - 1), p[j].op = "event" PROVE p[j].n < p[i].n
      <4>1. p[j] = q[j + 1] /\ j + 1 \in 1..i
        BY <1>1, <3>1
      <4> QED
        BY <3>1, <3>2, <3>3, <4>1
    <3>4. ASSUME NEW m \in (l + 1)..(p[i].n - 1)
          PROVE  \E j \in 1..(i - 1) : p[j].op = "event" /\ p[j].n = m
      <4>1. PICK j \in 1..i : q[j].op = "event" /\ q[j].n = m
        BY <3>1, <3>2
      <4>2. j # 1
        BY <1>5, <4>1
      <4>3. j - 1 \in 1..(i - 1) /\ p[j - 1] = q[j]
        BY <1>1, <3>1, <4>1, <4>2
      <4> QED
        BY <4>1, <4>3
    <3> QED
      BY <3>1, <3>2, <3>3, <3>4
  <2>2. RunsOn(p, l)
    BY <2>1 DEF RunsOn
  <2>3. ASSUME NEW n \in Nat, NextFits(q, l, n) PROVE NextFits(p, l, n)
    <3>1. \A i \in DOMAIN p : p[i].op = "event" => p[i].n < n
      BY <1>1, <2>3 DEF NextFits
    <3>2. ASSUME NEW m \in (l + 1)..(n - 1) PROVE \E i \in DOMAIN p : p[i].op = "event" /\ p[i].n = m
      <4>1. PICK i \in DOMAIN q : q[i].op = "event" /\ q[i].n = m
        BY <2>3 DEF NextFits
      <4>2. i # 1
        BY <1>5, <4>1
      <4> QED
        BY <1>2, <4>1, <4>2
    <3> QED
      BY <2>3, <3>1, <3>2 DEF NextFits
  <2> QED
    BY <2>2, <2>3
<1> QED
  BY <1>1, <1>3, <1>4, <1>5 DEF p

-----------------------------------------------------------------------------
(* What waits for a session, and which sockets it holds                    *)

\* Sockets a session has held, or holds.
Attached == {"open", "gone"}

\* A session holds each socket once: an attach waits in its control channel, or the
\* socket is replayed to, or it is the sink; and a detach is from a socket that ended.
OnceOK ==
  \A s \in Sockets :
    /\ ~Running(s) => ctl[s] = <<>>
    /\ task[s] = "replaying" <=> todo[s].k # 0
    /\ sink[s] # 0 => stage[sink[s]] \in Attached
    /\ todo[s].k # 0 => stage[todo[s].k] \in Attached /\ todo[s].k # sink[s]
    /\ \A i \in DOMAIN ctl[s] :
         /\ ctl[s][i].op = "attach" => stage[ctl[s][i].k] = "attaching"
         /\ ctl[s][i].op = "detach" => ctl[s][i].k # 0 /\ stage[ctl[s][i].k] = "gone"
    /\ \A i, j \in DOMAIN ctl[s] :
         ctl[s][i].op = "attach" /\ ctl[s][j].op = "attach" /\ ctl[s][i].k = ctl[s][j].k => i = j

\* The attach at the head of a control channel is from a socket that waits for it.
LEMMA AttachHead ==
  ASSUME TypeOK, CtlOK, OnceOK, NEW s \in Sockets, TakeAttach(s)
  PROVE  /\ Head(ctl[s]).k \in Sockets /\ stage[Head(ctl[s]).k] = "attaching"
         /\ SessionOf(Head(ctl[s]).k) = s
         /\ Head(ctl[s]) = ctl[s][1] /\ 1 \in DOMAIN ctl[s] /\ ctl[s][1] \in Controls
<1>1. ctl[s] \in Seq(Controls) /\ ctl[s] # <<>> /\ Head(ctl[s]).op = "attach"
  BY DEF TakeAttach, TypeOK, TypeTasks
<1>2. 1 \in DOMAIN ctl[s] /\ ctl[s][1] = Head(ctl[s]) /\ Head(ctl[s]) \in Controls
  BY <1>1
<1> QED
  BY <1>1, <1>2 DEF CtlOK, Handed, OnceOK, Controls

\* How a socket is dialled, and how one that asked to be attached goes on.
StageMoves == \A k \in Sockets :
  /\ stage[k] = "free" /\ stage'[k] # "free" => Dial /\ k = dials + 1
  /\ stage[k] = "gone" => stage'[k] = "gone"
  /\ stage[k] = "open" => stage'[k] \in Attached
  /\ stage[k] = "attaching" /\ stage'[k] # "attaching" =>
       \/ ~Running(SessionOf(k))
       \/ TakeAttach(SessionOf(k)) /\ Head(ctl[SessionOf(k)]).k = k /\ SessionOf(k) \in Sockets

\* A socket that ended stays so; one that is attached only ends; one that waits to be
\* attached waits until its session takes its attach, or is gone.
LEMMA StageMovesStep == TypeOK /\ SocketsOK /\ CtlOK /\ OnceOK /\ [Next]_vars => StageMoves
<1> SUFFICES ASSUME TypeOK /\ SocketsOK /\ CtlOK /\ OnceOK, [Next]_vars PROVE StageMoves
  OBVIOUS
<1> USE DEF StageMoves, Attached, TypeWires, TypeOK
<1>1. ASSUME NEW s \in Sockets, TakeAttach(s) PROVE StageMoves
  <2> DEFINE k == Head(ctl[s]).k
  <2>1. k \in Sockets /\ stage[k] = "attaching" /\ SessionOf(k) = s
    BY <1>1, AttachHead
  <2>2. stage' = [stage EXCEPT ![k] = "open"]
    BY <1>1 DEF TakeAttach
  <2> HIDE DEF k
  <2>3. \A x \in Sockets \ {k} : stage'[x] = stage[x]
    BY <2>2
  <2> QED
    BY <1>1, <2>1, <2>3 DEF k
<1>2. ASSUME NEW s \in Sockets, HandshakeTimesOut(s) PROVE StageMoves
  BY <1>2 DEF HandshakeTimesOut
<1>3. ASSUME NEW s \in Sockets, Identify(s) PROVE StageMoves
  BY <1>3 DEF Identify
<1>4. ASSUME NEW s \in Sockets, CheckIdentify(s) PROVE StageMoves
  BY <1>4 DEF CheckIdentify
<1>5. ASSUME NEW s \in Sockets, SendReady(s) PROVE StageMoves
  BY <1>5 DEF SendReady
<1>6. ASSUME NEW s \in Sockets, ReadyUnsent(s) PROVE StageMoves
  BY <1>6 DEF ReadyUnsent
<1>7. ASSUME NEW s \in Sockets, CheckResume(s) PROVE StageMoves
  BY <1>7 DEF CheckResume
<1>8. ASSUME NEW s \in Sockets, LookUpResume(s) PROVE StageMoves
  BY <1>8 DEF LookUpResume
<1>9. ASSUME NEW s \in Sockets, AttachRefused(s) PROVE StageMoves
  BY <1>9 DEF AttachRefused
<1>10. ASSUME NEW s \in Sockets, SocketEnds(s) PROVE StageMoves
  BY <1>10 DEF SocketEnds
<1>11. CASE Dial
  <2>1. dials + 1 \in Sockets /\ stage[dials + 1] = "free"
    BY <1>11, SocketFacts DEF Dial, SocketsOK, EarlyOK, StagesOK, TypeClient
  <2> QED
    BY <1>11, <2>1 DEF Dial
<1>12. ASSUME NEW s \in Sockets,
           ReadBus(s) \/ Lag(s) \/ RefuseAttach(s) \/ ReplayOne(s) \/ ReplayFails(s) \/
           ReplayDone(s) \/ TakeDetach(s) \/ TakeClose(s) \/ WindowCloses(s)
     PROVE  StageMoves
  <2>1. UNCHANGED stage
    BY <1>12 DEF ReadBus, Lag, RefuseAttach, ReplayOne, ReplayFails, ReplayDone,
       TakeDetach, TakeClose, WindowCloses, wires
  <2> QED
    BY <2>1
<1>13. CASE CloseSessions \/ Receive \/ Dropped \/ Publish \/ EndSignIns \/ Cut \/ Shutdown \/ SetToken \/ UNCHANGED vars
  <2>1. UNCHANGED stage
    BY <1>13 DEF CloseSessions, Receive, Dropped, Publish, EndSignIns, Cut, Shutdown,
       SetToken, vars, wires
  <2> QED
    BY <2>1
<1> QED
  BY <1>1, <1>2, <1>3, <1>4, <1>5, <1>6, <1>7, <1>8, <1>9, <1>10, <1>11, <1>12, <1>13
     DEF Next, Progress, Environment, Task, Socket

\* What a handler may add to session t's control channel: an attach of its own socket,
\* as it leaves its handshake, or a detach of its own socket, as it ends.
Posted(t, c) ==
  /\ c \in Controls
  /\ c.op = "attach" =>
       /\ c.k \in Sockets /\ stage'[c.k] = "attaching"
       /\ \/ /\ stage[c.k] = "checked" /\ c.from = 0
             /\ queue'[c.k] = Append(queue[c.k], ReadyFrame(c.k, bus))
          \/ /\ stage[c.k] = "verified" /\ c.from = opener[c.k].from
             /\ queue'[c.k] = queue[c.k]
  /\ c.op = "detach" => c.k \in Sockets /\ stage'[c.k] = "gone"

CtlChanges == \A t \in Sockets :
  \/ ctl'[t] = ctl[t]
  \/ ctl'[t] = <<>> /\ task'[t] = "ended"
  \/ /\ ctl[t] # <<>> /\ ctl'[t] = Tail(ctl[t]) /\ Head(ctl[t]).op # "close"
     /\ Running(t) /\ Running(t)'
  \/ \E c \in Controls : Posted(t, c) /\ ctl'[t] = Append(ctl[t], c) /\ Running(t) /\ Running(t)'

\* A control channel loses its head to its session, gains one message while its session
\* runs, or is dropped as the session ends.
LEMMA CtlChangesStep == TypeOK /\ SocketsOK /\ [Next]_vars => CtlChanges
<1> SUFFICES ASSUME TypeOK /\ SocketsOK, [Next]_vars PROVE CtlChanges
  OBVIOUS
<1> USE DEF CtlChanges, TypeOK, TypeTasks, Running
<1>1. ASSUME NEW s \in Sockets, Lag(s) \/ RefuseAttach(s) \/ TakeClose(s) \/ WindowCloses(s)
      PROVE  CtlChanges
  BY <1>1 DEF Lag, RefuseAttach, TakeClose, WindowCloses, EndTask
<1>2. ASSUME NEW s \in Sockets, TakeAttach(s) PROVE CtlChanges
  BY <1>2 DEF TakeAttach
<1>4. ASSUME NEW s \in Sockets, TakeDetach(s) PROVE CtlChanges
  BY <1>4 DEF TakeDetach
<1>7. ASSUME NEW s \in Sockets, CheckIdentify(s) PROVE CtlChanges
  <2>1. \/ UNCHANGED ctl
        \/ ctl' = [ctl EXCEPT ![s] = <<>>] /\ task' = [task EXCEPT ![s] = "ended"]
    BY <1>7 DEF CheckIdentify, EndTask, tasks
  <2> QED
    BY <2>1
<1>8. ASSUME NEW s \in Sockets, SendReady(s) PROVE CtlChanges
  <2> DEFINE c == Ctl("attach", s, 0)
  <2>1. /\ stage[s] = "checked" /\ stage'[s] = "attaching" /\ UNCHANGED task
        /\ queue'[s] = Append(queue[s], ReadyFrame(s, bus))
    BY <1>8 DEF SendReady, TypeWires
  <2>2. c \in Controls /\ c.k = s /\ c.op = "attach" /\ c.from = 0
    BY Built DEF Ctl
  <2>3. UNCHANGED ctl \/ (Running(s) /\ ctl' = [ctl EXCEPT ![s] = Append(ctl[s], c)])
    BY <1>8 DEF SendReady, Attach
  <2> HIDE DEF c
  <2>4. Posted(s, c)
    BY <2>1, <2>2 DEF Posted
  <2> QED
    BY <2>1, <2>2, <2>3, <2>4
<1>9. ASSUME NEW s \in Sockets, LookUpResume(s) PROVE CtlChanges
  <2>1. opener[s].op = "resume" /\ opener[s].sess \in Sockets /\ opener[s].from \in Nat
    BY <1>9 DEF LookUpResume, SocketsOK, EarlyOK, StagesOK, TypeWires
  <2>2. PICK t \in Sockets, c \in Controls :
             t = opener[s].sess /\ c = Ctl("attach", s, opener[s].from)
    BY <2>1, Built
  <2>3. \/ UNCHANGED ctl
        \/ /\ stage'[s] = "attaching" /\ Running(t) /\ UNCHANGED queue
           /\ ctl' = [ctl EXCEPT ![t] = Append(ctl[t], c)]
    BY <1>9, <2>2 DEF LookUpResume, Attach, TypeWires
  <2>4. c.k = s /\ c.op = "attach" /\ c.from = opener[s].from /\ UNCHANGED task
        /\ stage[s] = "verified"
    BY <1>9, <2>2 DEF LookUpResume, Ctl
  <2>5. CASE UNCHANGED ctl
    BY <2>5
  <2>6. CASE /\ stage'[s] = "attaching" /\ Running(t) /\ UNCHANGED queue
             /\ ctl' = [ctl EXCEPT ![t] = Append(ctl[t], c)]
    <3>1. Posted(t, c)
      BY <2>4, <2>6 DEF Posted
    <3>2. ctl'[t] = Append(ctl[t], c) /\ \A u \in Sockets \ {t} : ctl'[u] = ctl[u]
      BY <2>6
    <3> QED
      BY <2>4, <2>6, <3>1, <3>2
  <2> QED
    BY <2>3, <2>5, <2>6
<1>10. ASSUME NEW s \in Sockets, SocketEnds(s) PROVE CtlChanges
  <2> DEFINE c == Ctl("detach", s, 0)
  <2>1. c \in Controls /\ c.op = "detach" /\ c.k = s
    BY Built DEF Ctl
  <2>2. stage'[s] = "gone" /\ UNCHANGED task
    BY <1>10 DEF SocketEnds, TypeWires
  <2>3. \/ UNCHANGED ctl
        \/ /\ Running(SessionOf(s))
           /\ ctl' = [ctl EXCEPT ![SessionOf(s)] = Append(ctl[SessionOf(s)], c)]
    BY <1>10 DEF SocketEnds
  <2> HIDE DEF c
  <2>4. \A t : Posted(t, c)
    BY <2>1, <2>2 DEF Posted
  <2> QED
    BY <2>1, <2>2, <2>3, <2>4
<1>11. CASE CloseSessions
  <2> DEFINE c == Ctl("close", 0, 0)
  <2>1. c \in Controls /\ \A t : Posted(t, c)
    BY Built DEF Ctl, Posted
  <2>2. \A t \in Sockets : ctl'[t] = ctl[t] \/ (Running(t) /\ ctl'[t] = Append(ctl[t], c))
    BY <1>11 DEF CloseSessions
  <2>3. UNCHANGED task
    BY <1>11 DEF CloseSessions
  <2> HIDE DEF c
  <2> QED
    BY <2>1, <2>2, <2>3
<1>12. ASSUME NEW s \in Sockets,
           ReadBus(s) \/ ReplayOne(s) \/ ReplayFails(s) \/ ReplayDone(s) \/ HandshakeTimesOut(s)
           \/ Identify(s) \/ ReadyUnsent(s) \/ CheckResume(s) \/ AttachRefused(s)
     PROVE  CtlChanges
  <2>1. UNCHANGED <<ctl>>
    BY <1>12 DEF ReadBus, ReplayOne, ReplayFails, ReplayDone, HandshakeTimesOut, Identify,
       ReadyUnsent, CheckResume, AttachRefused, Refused, TrySend, tasks
  <2> QED
    BY <2>1
<1>13. CASE Dial \/ Receive \/ Dropped \/ Publish \/ EndSignIns \/ Cut \/ Shutdown \/ SetToken \/ UNCHANGED vars
  <2>1. UNCHANGED <<ctl>>
    BY <1>13 DEF Dial, Receive, Dropped, Publish, EndSignIns, Cut, Shutdown, SetToken,
       vars, tasks
  <2> QED
    BY <2>1
<1> QED
  BY <1>1, <1>2, <1>4, <1>7, <1>8, <1>9, <1>10, <1>11, <1>12, <1>13
     DEF Next, Progress, Environment, Task, Socket

TaskMoves == \A t \in Sockets :
  \/ task'[t] = task[t] /\ todo'[t].k = todo[t].k /\ sink'[t] \in {sink[t], 0}
  \/ task'[t] = "ended" /\ todo'[t].k = 0 /\ ctl'[t] = <<>> /\ sink'[t] = 0
  \/ /\ task[t] = "replaying" /\ task'[t] = "running" /\ todo'[t].k = 0
     /\ sink'[t] \in {sink[t], todo[t].k}
  \/ /\ task[t] = "none" /\ task'[t] = "running" /\ todo'[t].k = todo[t].k
     /\ sink'[t] = sink[t]
  \/ /\ TakeAttach(t) /\ task'[t] = "replaying" /\ todo'[t].k = Head(ctl[t]).k
     /\ sink'[t] = sink[t]

\* A session is spawned, goes on, replays to the socket that asked, comes back from its
\* replay with that socket or without, or ends and drops everything.
LEMMA TaskMovesStep == TypeOK /\ SocketsOK /\ [Next]_vars => TaskMoves
<1> SUFFICES ASSUME TypeOK /\ SocketsOK, [Next]_vars PROVE TaskMoves
  OBVIOUS
<1> USE DEF TaskMoves, TypeOK, TypeTasks
<1>1. ASSUME NEW s \in Sockets, Lag(s) \/ RefuseAttach(s) \/ TakeClose(s) \/ WindowCloses(s)
      PROVE  TaskMoves
  <2>1. EndTask(s)
    BY <1>1 DEF Lag, RefuseAttach, TakeClose, WindowCloses
  <2> QED
    BY <2>1 DEF EndTask, None
<1>2. ASSUME NEW s \in Sockets, TakeAttach(s) PROVE TaskMoves
  <2>1. /\ task' = [task EXCEPT ![s] = "replaying"] /\ UNCHANGED sink
        /\ \E n : todo' = [todo EXCEPT ![s] = [k |-> Head(ctl[s]).k, next |-> n]]
    BY <1>2 DEF TakeAttach
  <2> QED
    BY <1>2, <2>1
<1>3. ASSUME NEW s \in Sockets, ReadBus(s) PROVE TaskMoves
  <2>1. UNCHANGED <<task, todo>> /\ (UNCHANGED sink \/ sink' = [sink EXCEPT ![s] = 0])
    BY <1>3 DEF ReadBus, TrySend
  <2> QED
    BY <2>1
<1>4. ASSUME NEW s \in Sockets, TakeDetach(s) PROVE TaskMoves
  BY <1>4 DEF TakeDetach, Detached
<1>5. ASSUME NEW s \in Sockets, ReplayOne(s) PROVE TaskMoves
  BY <1>5 DEF ReplayOne
<1>6. ASSUME NEW s \in Sockets, ReplayFails(s) PROVE TaskMoves
  BY <1>6 DEF ReplayFails, None
<1>7. ASSUME NEW s \in Sockets, ReplayDone(s) PROVE TaskMoves
  BY <1>7 DEF ReplayDone, None
<1>8. ASSUME NEW s \in Sockets, Identify(s) PROVE TaskMoves
  BY <1>8 DEF Identify, SocketsOK, StagesOK
<1>9. ASSUME NEW s \in Sockets, CheckIdentify(s) PROVE TaskMoves
  <2>1. UNCHANGED tasks \/ EndTask(s)
    BY <1>9 DEF CheckIdentify
  <2>2. CASE UNCHANGED tasks
    BY <2>2 DEF tasks
  <2>3. CASE EndTask(s)
    BY <2>3 DEF EndTask, None
  <2> QED
    BY <2>1, <2>2, <2>3
<1>10. ASSUME NEW s \in Sockets,
           HandshakeTimesOut(s) \/ SendReady(s) \/ ReadyUnsent(s) \/ CheckResume(s)
           \/ LookUpResume(s) \/ AttachRefused(s) \/ SocketEnds(s)
     PROVE  TaskMoves
  <2>1. UNCHANGED <<task, todo, sink>>
    BY <1>10 DEF HandshakeTimesOut, SendReady, ReadyUnsent, CheckResume, LookUpResume,
       AttachRefused, SocketEnds, tasks
  <2> QED
    BY <2>1
<1>11. CASE CloseSessions \/ Dial \/ Receive \/ Dropped \/ Publish \/ EndSignIns \/ Cut \/ Shutdown \/ SetToken \/ UNCHANGED vars
  <2>1. UNCHANGED <<task, todo, sink>>
    BY <1>11 DEF CloseSessions, Dial, Receive, Dropped, Publish, EndSignIns, Cut, Shutdown,
       SetToken, vars, tasks
  <2> QED
    BY <2>1
<1> QED
  BY <1>1, <1>2, <1>3, <1>4, <1>5, <1>6, <1>7, <1>8, <1>9, <1>10, <1>11
     DEF Next, Progress, Environment, Task, Socket

\* A socket handed to a session is held once, from its attach to its end.
LEMMA OnceOKStep ==
  ASSUME TypeOK, TypeOK', SocketsOK, CtlOK, OnceOK, StageMoves, CtlChanges, TaskMoves
  PROVE  OnceOK'
<1> SUFFICES ASSUME NEW t \in Sockets
    PROVE  /\ ~Running(t)' => ctl'[t] = <<>>
           /\ task'[t] = "replaying" <=> todo'[t].k # 0
           /\ sink'[t] # 0 => stage'[sink'[t]] \in Attached
           /\ todo'[t].k # 0 => stage'[todo'[t].k] \in Attached /\ todo'[t].k # sink'[t]
           /\ \A i \in DOMAIN ctl'[t] :
                /\ ctl'[t][i].op = "attach" => stage'[ctl'[t][i].k] = "attaching"
                /\ ctl'[t][i].op = "detach" =>
                     ctl'[t][i].k # 0 /\ stage'[ctl'[t][i].k] = "gone"
           /\ \A i, j \in DOMAIN ctl'[t] :
                ctl'[t][i].op = "attach" /\ ctl'[t][j].op = "attach"
                  /\ ctl'[t][i].k = ctl'[t][j].k => i = j
  BY DEF OnceOK, Running
<1>1. /\ ~Running(t) => ctl[t] = <<>>
      /\ task[t] = "replaying" <=> todo[t].k # 0
      /\ sink[t] # 0 => stage[sink[t]] \in Attached
      /\ todo[t].k # 0 => stage[todo[t].k] \in Attached /\ todo[t].k # sink[t]
      /\ \A i \in DOMAIN ctl[t] :
           /\ ctl[t][i].op = "attach" => stage[ctl[t][i].k] = "attaching"
           /\ ctl[t][i].op = "detach" => ctl[t][i].k # 0 /\ stage[ctl[t][i].k] = "gone"
      /\ \A i, j \in DOMAIN ctl[t] :
           ctl[t][i].op = "attach" /\ ctl[t][j].op = "attach" /\ ctl[t][i].k = ctl[t][j].k => i = j
  BY DEF OnceOK
<1>2. /\ ctl[t] \in Seq(Controls) /\ ctl'[t] \in Seq(Controls)
      /\ sink[t] \in Sockets \union {0} /\ todo[t].k \in Sockets \union {0}
  BY DEF TypeOK, TypeTasks
<1>3. ASSUME TakeAttach(t)
      PROVE  /\ Head(ctl[t]).k \in Sockets /\ stage[Head(ctl[t]).k] = "attaching"
             /\ Head(ctl[t]) = ctl[t][1] /\ 1 \in DOMAIN ctl[t] /\ Head(ctl[t]).op = "attach"
             /\ stage'[Head(ctl[t]).k] = "open" /\ ctl'[t] = Tail(ctl[t])
  <2>1. Head(ctl[t]).k \in Sockets /\ stage[Head(ctl[t]).k] = "attaching"
        /\ Head(ctl[t]) = ctl[t][1] /\ 1 \in DOMAIN ctl[t]
    BY <1>3, AttachHead
  <2>2. /\ Head(ctl[t]).op = "attach" /\ ctl' = [ctl EXCEPT ![t] = Tail(ctl[t])]
        /\ stage' = [stage EXCEPT ![Head(ctl[t]).k] = "open"]
    BY <1>3 DEF TakeAttach
  <2>3. ctl'[t] = Tail(ctl[t])
    BY <2>2 DEF TypeOK, TypeTasks
  <2>4. stage'[Head(ctl[t]).k] = "open"
    BY <2>1, <2>2 DEF TypeOK, TypeWires
  <2> QED
    BY <2>1, <2>2, <2>3, <2>4
<1>4. ~Running(t)' => ctl'[t] = <<>>
  BY <1>1 DEF TaskMoves, CtlChanges, Running
<1>5. /\ task'[t] = "replaying" <=> todo'[t].k # 0
      /\ todo'[t].k # 0 => todo'[t].k # sink'[t]
      /\ todo'[t].k # 0 => todo'[t].k = todo[t].k \/ (TakeAttach(t) /\ todo'[t].k = Head(ctl[t]).k)
      /\ sink'[t] # 0 => sink'[t] \in {sink[t], todo[t].k}
  <2>1. CASE TakeAttach(t) /\ task'[t] = "replaying" /\ todo'[t].k = Head(ctl[t]).k
             /\ sink'[t] = sink[t]
    <3>1. Head(ctl[t]).k # 0 /\ Head(ctl[t]).k # sink[t]
      BY <1>1, <1>3, <2>1, SocketFacts DEF Attached
    <3> QED
      BY <2>1, <3>1
  <2> QED
    BY <1>1, <2>1 DEF TaskMoves
<1>6. \A k \in Sockets : stage[k] \in Attached => stage'[k] \in Attached
  BY DEF StageMoves, Attached
<1>7. sink'[t] # 0 => stage'[sink'[t]] \in Attached
  <2> SUFFICES ASSUME sink'[t] # 0 PROVE stage'[sink'[t]] \in Attached
    OBVIOUS
  <2>1. PICK k \in Sockets : k = sink'[t] /\ stage[k] \in Attached
    BY <1>1, <1>2, <1>5
  <2> QED
    BY <1>6, <2>1
<1>8. todo'[t].k # 0 => stage'[todo'[t].k] \in Attached
  <2> SUFFICES ASSUME todo'[t].k # 0 PROVE stage'[todo'[t].k] \in Attached
    OBVIOUS
  <2>1. CASE todo'[t].k = todo[t].k
    <3>1. PICK k \in Sockets : k = todo'[t].k /\ stage[k] \in Attached
      BY <1>1, <1>2, <2>1
    <3> QED
      BY <1>6, <3>1
  <2>2. CASE TakeAttach(t) /\ todo'[t].k = Head(ctl[t]).k
    BY <1>3, <2>2 DEF Attached
  <2> QED
    BY <1>5, <2>1, <2>2
<1>9. \A i \in DOMAIN ctl[t] : ctl[t][i].k \in Sockets \union {0}
  <2>1. \A i \in DOMAIN ctl[t] : ctl[t][i] \in Controls
    BY <1>2
  <2> QED
    BY <2>1 DEF Controls
<1>10. ASSUME NEW i \in DOMAIN ctl[t], ctl[t][i].op = "attach",
              Len(ctl'[t]) = Len(ctl[t]) - 1 => i # 1
       PROVE  stage'[ctl[t][i].k] = "attaching"
  <2>1. PICK k \in Sockets : k = ctl[t][i].k /\ stage[k] = "attaching" /\ SessionOf(k) = t
    BY <1>1, <1>9, <1>10 DEF CtlOK, Handed
  <2>2. Running(t)
    BY <1>1
  <2>3. ASSUME TakeAttach(t), Head(ctl[t]).k = k PROVE FALSE
    <3>1. 1 \in DOMAIN ctl[t] /\ ctl[t][1].op = "attach" /\ ctl[t][1].k = ctl[t][i].k
          /\ ctl'[t] = Tail(ctl[t])
      BY <1>3, <2>1, <2>3
    <3>2. i = 1
      BY <1>1, <1>10, <3>1
    <3>3. Len(ctl'[t]) = Len(ctl[t]) - 1
      BY <1>2, <3>1
    <3> QED
      BY <1>10, <3>2, <3>3
  <2> QED
    BY <2>1, <2>2, <2>3 DEF StageMoves
<1>11. ASSUME NEW i \in DOMAIN ctl[t], ctl[t][i].op = "detach"
       PROVE  ctl[t][i].k # 0 /\ stage'[ctl[t][i].k] = "gone"
  BY <1>1, <1>9, <1>11 DEF StageMoves
<1> DEFINE Rest == \A i \in DOMAIN ctl'[t] :
       /\ ctl'[t][i].op = "attach" => stage'[ctl'[t][i].k] = "attaching"
       /\ ctl'[t][i].op = "detach" => ctl'[t][i].k # 0 /\ stage'[ctl'[t][i].k] = "gone"
             Once == \A i, j \in DOMAIN ctl'[t] :
       ctl'[t][i].op = "attach" /\ ctl'[t][j].op = "attach" /\ ctl'[t][i].k = ctl'[t][j].k => i = j
<1>12. CASE ctl'[t] = ctl[t]
  <2>1. Len(ctl'[t]) # Len(ctl[t]) - 1
    BY <1>2, <1>12
  <2>2. Rest
    BY <1>10, <1>11, <1>12, <2>1
  <2>3. Once
    BY <1>1, <1>12
  <2> QED
    BY <1>4, <1>5, <1>7, <1>8, <2>2, <2>3
<1>13. CASE ctl'[t] = <<>>
  <2>1. DOMAIN ctl'[t] = {}
    BY <1>13
  <2>2. Rest /\ Once
    BY <2>1
  <2> QED
    BY <1>4, <1>5, <1>7, <1>8, <2>2
<1>14. CASE ctl[t] # <<>> /\ ctl'[t] = Tail(ctl[t])
  <2>1. \A i \in DOMAIN ctl'[t] : i + 1 \in DOMAIN ctl[t] /\ ctl'[t][i] = ctl[t][i + 1] /\ i + 1 # 1
                                  /\ i \in Nat
    BY <1>2, <1>14
  <2>2. Rest
    <3> SUFFICES ASSUME NEW i \in DOMAIN ctl'[t]
                 PROVE  /\ ctl'[t][i].op = "attach" => stage'[ctl'[t][i].k] = "attaching"
                        /\ ctl'[t][i].op = "detach" =>
                             ctl'[t][i].k # 0 /\ stage'[ctl'[t][i].k] = "gone"
      OBVIOUS
    <3>1. PICK j \in DOMAIN ctl[t] : ctl'[t][i] = ctl[t][j] /\ j # 1
      BY <2>1
    <3> QED
      BY <1>10, <1>11, <3>1
  <2>3. Once
    <3> SUFFICES ASSUME NEW i \in DOMAIN ctl'[t], NEW j \in DOMAIN ctl'[t],
                        ctl'[t][i].op = "attach", ctl'[t][j].op = "attach",
                        ctl'[t][i].k = ctl'[t][j].k
                 PROVE  i = j
      OBVIOUS
    <3>1. i + 1 = j + 1
      BY <1>1, <2>1
    <3> QED
      BY <2>1, <3>1
  <2> QED
    BY <1>4, <1>5, <1>7, <1>8, <2>2, <2>3
<1>15. CASE \E c \in Controls : Posted(t, c) /\ ctl'[t] = Append(ctl[t], c)
  <2>1. PICK c \in Controls : Posted(t, c) /\ ctl'[t] = Append(ctl[t], c)
    BY <1>15
  <2>2. \A i \in DOMAIN ctl'[t] : \/ i \in DOMAIN ctl[t] /\ ctl'[t][i] = ctl[t][i]
                                  \/ i = Len(ctl[t]) + 1 /\ ctl'[t][i] = c
    BY <1>2, <2>1, AfterAppend
  <2>3. Len(ctl'[t]) # Len(ctl[t]) - 1
    BY <1>2, <2>1
  <2>4. /\ c.op = "attach" => stage'[c.k] = "attaching" /\ stage[c.k] # "attaching"
        /\ c.op = "detach" => c.k # 0 /\ stage'[c.k] = "gone"
    BY <2>1, SocketFacts DEF Posted
  <2>5. Rest
    <3> SUFFICES ASSUME NEW i \in DOMAIN ctl'[t]
                 PROVE  /\ ctl'[t][i].op = "attach" => stage'[ctl'[t][i].k] = "attaching"
                        /\ ctl'[t][i].op = "detach" =>
                             ctl'[t][i].k # 0 /\ stage'[ctl'[t][i].k] = "gone"
      OBVIOUS
    <3>1. CASE i \in DOMAIN ctl[t] /\ ctl'[t][i] = ctl[t][i]
      BY <1>10, <1>11, <2>3, <3>1
    <3>2. CASE ctl'[t][i] = c
      BY <2>4, <3>2
    <3> QED
      BY <2>2, <3>1, <3>2
  <2>6. Once
    <3>1. \A i \in DOMAIN ctl[t] : ctl[t][i].op = "attach" => stage[ctl[t][i].k] = "attaching"
      BY <1>1
    <3> SUFFICES ASSUME NEW i \in DOMAIN ctl'[t], NEW j \in DOMAIN ctl'[t],
                        ctl'[t][i].op = "attach", ctl'[t][j].op = "attach",
                        ctl'[t][i].k = ctl'[t][j].k
                 PROVE  i = j
      OBVIOUS
    <3>2. CASE ctl'[t][i] = c \/ ctl'[t][j] = c
      BY <2>2, <2>4, <3>1, <3>2
    <3>3. CASE ctl'[t][i] # c /\ ctl'[t][j] # c
      BY <1>1, <2>2, <3>3
    <3> QED
      BY <3>2, <3>3
  <2> QED
    BY <1>4, <1>5, <1>7, <1>8, <2>5, <2>6
<1> QED
  BY <1>12, <1>13, <1>14, <1>15 DEF CtlChanges

-----------------------------------------------------------------------------
(* Letting go of a socket, and closing an ended sign-in's sessions         *)

\* A session that goes on lets its socket go for one of four reasons.
LEMMA DetachStep ==
  ASSUME TypeOK, CtlOK, OnceOK, [Next]_vars, NEW s \in Sockets,
         sink[s] # 0, sink'[s] # sink[s], Running(s)'
  PROVE  \/ stage[sink[s]] = "gone" \/ sink[s] \in cut \/ Len(queue[sink[s]]) >= QueueFrames
         \/ sink'[s] # 0 /\ sink'[s] = todo[s].k
<1> DEFINE Why == \/ stage[sink[s]] = "gone" \/ sink[s] \in cut
                  \/ Len(queue[sink[s]]) >= QueueFrames
                  \/ sink'[s] # 0 /\ sink'[s] = todo[s].k
<1> USE DEF TypeOK, TypeTasks
<1>1. ASSUME NEW t \in Sockets, ReadBus(t) PROVE Why
  <2>1. \/ UNCHANGED sink
        \/ /\ Len(queue[sink[t]]) >= QueueFrames \/ sink[t] \in cut
           /\ sink' = [sink EXCEPT ![t] = 0]
    BY <1>1 DEF ReadBus, TrySend
  <2> QED
    BY <2>1
<1>2. ASSUME NEW t \in Sockets, TakeDetach(t) PROVE Why
  <2>1. sink' = [sink EXCEPT ![t] = Detached(t, Head(ctl[t]).k)]
    BY <1>2 DEF TakeDetach
  <2>2. t = s /\ sink[s] = Head(ctl[s]).k
    BY <2>1 DEF Detached
  <2>3. ctl[s] \in Seq(Controls) /\ ctl[s] # <<>> /\ Head(ctl[s]).op = "detach"
    BY <1>2, <2>2 DEF TakeDetach
  <2>4. 1 \in DOMAIN ctl[s] /\ ctl[s][1] = Head(ctl[s])
    BY <2>3
  <2> QED
    BY <2>2, <2>3, <2>4 DEF OnceOK
<1>3. ASSUME NEW t \in Sockets, ReplayDone(t) PROVE Why
  <2>1. sink' = [sink EXCEPT ![t] = todo[t].k] /\ task[t] = "replaying"
    BY <1>3 DEF ReplayDone
  <2>2. t = s
    BY <2>1
  <2> QED
    BY <2>1, <2>2 DEF OnceOK
<1>4. ASSUME NEW t \in Sockets, EndTask(t) PROVE FALSE
  BY <1>4 DEF EndTask, Running
<1>5. ASSUME NEW t \in Sockets, Lag(t) \/ RefuseAttach(t) \/ TakeClose(t) \/ WindowCloses(t)
      PROVE  FALSE
  BY <1>4, <1>5 DEF Lag, RefuseAttach, TakeClose, WindowCloses
<1>6. ASSUME NEW t \in Sockets, CheckIdentify(t) PROVE FALSE
  <2>1. UNCHANGED tasks
    BY <1>4, <1>6 DEF CheckIdentify
  <2> QED
    BY <2>1 DEF tasks
<1>7. ASSUME NEW t \in Sockets,
           TakeAttach(t) \/ ReplayOne(t) \/ ReplayFails(t) \/ HandshakeTimesOut(t) \/
           Identify(t) \/ SendReady(t) \/ ReadyUnsent(t) \/ CheckResume(t) \/
           LookUpResume(t) \/ AttachRefused(t) \/ SocketEnds(t)
      PROVE FALSE
  BY <1>7 DEF TakeAttach, ReplayOne, ReplayFails, HandshakeTimesOut, Identify, SendReady,
     ReadyUnsent, CheckResume, LookUpResume, AttachRefused, SocketEnds, tasks
<1>8. CASE CloseSessions \/ Dial \/ Receive \/ Dropped \/ Publish \/ EndSignIns \/ Cut \/ Shutdown \/ SetToken \/ UNCHANGED vars
  BY <1>8 DEF CloseSessions, Dial, Receive, Dropped, Publish, EndSignIns, Cut, Shutdown,
     SetToken, vars, tasks
<1> QED
  BY <1>1, <1>2, <1>3, <1>5, <1>6, <1>7, <1>8 DEF Next, Progress, Environment, Task, Socket

\* Stages in which a handler has passed the check of its token and still serves.
Serving == {"checked", "verified", "attaching", "open"}

\* Every session that serves a socket of an ended sign-in is told to close before the
\* end counts as done; and a session somebody may be handed to has been spawned.
SignedInOK ==
  /\ closed <= gen
  /\ \A k \in Sockets :
     /\ opener[k].op = "none" => stage[k] = "free"
     /\ opener[k].op = "resume" => task[opener[k].sess] # "none"
     /\ stage[k] \in Serving => task[SessionOf(k)] # "none"
     /\ stage[k] \in Serving /\ opener[k].gen < gen =>
          closed < gen \/ ~Running(SessionOf(k)) \/ CloseComing(SessionOf(k))

\* How a handler comes to serve: by the check of its token against the generation now.
ServesStep == \A k \in Sockets :
  stage'[k] \in Serving =>
    /\ stage[k] # "free"
    /\ stage[k] \notin Serving =>
         /\ opener[k].gen = gen
         /\ \/ stage[k] = "spawned"
            \/ stage[k] = "hello" /\ opener[k].op = "resume"

\* Only CheckIdentify and CheckResume let a handler serve; the rest goes on from there.
LEMMA ServesStepStep == TypeOK /\ SocketsOK /\ CtlOK /\ OnceOK /\ [Next]_vars => ServesStep
<1> SUFFICES ASSUME TypeOK /\ SocketsOK /\ CtlOK /\ OnceOK, [Next]_vars PROVE ServesStep
  OBVIOUS
<1> USE DEF ServesStep, Serving, TypeWires, TypeOK
<1>1. ASSUME NEW s \in Sockets, TakeAttach(s) PROVE ServesStep
  <2> DEFINE k == Head(ctl[s]).k
  <2>1. k \in Sockets /\ stage[k] = "attaching"
    BY <1>1, AttachHead
  <2>2. stage' = [stage EXCEPT ![k] = "open"]
    BY <1>1 DEF TakeAttach
  <2> HIDE DEF k
  <2>3. \A x \in Sockets \ {k} : stage'[x] = stage[x]
    BY <2>2
  <2> QED
    BY <2>1, <2>3
<1>2. ASSUME NEW s \in Sockets, HandshakeTimesOut(s) PROVE ServesStep
  BY <1>2 DEF HandshakeTimesOut
<1>3. ASSUME NEW s \in Sockets, Identify(s) PROVE ServesStep
  BY <1>3 DEF Identify
<1>4. ASSUME NEW s \in Sockets, CheckIdentify(s) PROVE ServesStep
  BY <1>4 DEF CheckIdentify, StillSignedIn
<1>5. ASSUME NEW s \in Sockets, SendReady(s) PROVE ServesStep
  BY <1>5 DEF SendReady
<1>6. ASSUME NEW s \in Sockets, ReadyUnsent(s) PROVE ServesStep
  BY <1>6 DEF ReadyUnsent
<1>7. ASSUME NEW s \in Sockets, CheckResume(s) PROVE ServesStep
  BY <1>7 DEF CheckResume, StillSignedIn
<1>8. ASSUME NEW s \in Sockets, LookUpResume(s) PROVE ServesStep
  BY <1>8 DEF LookUpResume
<1>9. ASSUME NEW s \in Sockets, AttachRefused(s) PROVE ServesStep
  BY <1>9 DEF AttachRefused
<1>10. ASSUME NEW s \in Sockets, SocketEnds(s) PROVE ServesStep
  BY <1>10 DEF SocketEnds
<1>11. CASE Dial
  BY <1>11 DEF Dial
<1>12. ASSUME NEW s \in Sockets,
           ReadBus(s) \/ Lag(s) \/ RefuseAttach(s) \/ ReplayOne(s) \/ ReplayFails(s) \/
           ReplayDone(s) \/ TakeDetach(s) \/ TakeClose(s) \/ WindowCloses(s)
     PROVE  ServesStep
  <2>1. UNCHANGED stage
    BY <1>12 DEF ReadBus, Lag, RefuseAttach, ReplayOne, ReplayFails, ReplayDone,
       TakeDetach, TakeClose, WindowCloses, wires
  <2> QED
    BY <2>1
<1>13. CASE CloseSessions \/ Receive \/ Dropped \/ Publish \/ EndSignIns \/ Cut \/ Shutdown \/ SetToken \/ UNCHANGED vars
  <2>1. UNCHANGED stage
    BY <1>13 DEF CloseSessions, Receive, Dropped, Publish, EndSignIns, Cut, Shutdown,
       SetToken, vars, wires
  <2> QED
    BY <2>1
<1> QED
  BY <1>1, <1>2, <1>3, <1>4, <1>5, <1>6, <1>7, <1>8, <1>9, <1>10, <1>11, <1>12, <1>13
     DEF Next, Progress, Environment, Task, Socket

\* The generation and what has been closed change only as the sign-ins end.
LEMMA GenMoves == [Next]_vars => UNCHANGED <<gen, closed>> \/ EndSignIns \/ CloseSessions
<1> SUFFICES ASSUME [Next]_vars PROVE UNCHANGED <<gen, closed>> \/ EndSignIns \/ CloseSessions
  OBVIOUS
<1>1. ASSUME NEW s \in Sockets,
           ReadBus(s) \/ Lag(s) \/ TakeAttach(s) \/ RefuseAttach(s) \/ ReplayOne(s) \/
           ReplayFails(s) \/ ReplayDone(s) \/ TakeDetach(s) \/ TakeClose(s) \/
           WindowCloses(s) \/ HandshakeTimesOut(s) \/ Identify(s) \/ CheckIdentify(s) \/
           SendReady(s) \/ ReadyUnsent(s) \/ CheckResume(s) \/ LookUpResume(s) \/
           AttachRefused(s) \/ SocketEnds(s)
     PROVE  UNCHANGED <<gen, closed>>
  BY <1>1 DEF ReadBus, Lag, TakeAttach, RefuseAttach, ReplayOne, ReplayFails,
     ReplayDone, TakeDetach, TakeClose, WindowCloses, HandshakeTimesOut, Identify,
     CheckIdentify, SendReady, ReadyUnsent, CheckResume, LookUpResume, AttachRefused,
     SocketEnds, server
<1>2. CASE Publish \/ Dial \/ Receive \/ Dropped \/ Cut \/ Shutdown \/ SetToken \/ UNCHANGED vars
  BY <1>2 DEF Publish, Dial, Receive, Dropped, Cut, Shutdown, SetToken, vars, server
<1> QED
  BY <1>1, <1>2 DEF Next, Progress, Environment, Task, Socket

\* Openers are written by Dial alone.
LEMMA OpenerMoves == [Next]_vars => UNCHANGED opener \/ Dial
<1> SUFFICES ASSUME [Next]_vars PROVE UNCHANGED opener \/ Dial
  OBVIOUS
<1>1. ASSUME NEW s \in Sockets,
           ReadBus(s) \/ Lag(s) \/ TakeAttach(s) \/ RefuseAttach(s) \/ ReplayOne(s) \/
           ReplayFails(s) \/ ReplayDone(s) \/ TakeDetach(s) \/ TakeClose(s) \/
           WindowCloses(s) \/ HandshakeTimesOut(s) \/ Identify(s) \/ CheckIdentify(s) \/
           SendReady(s) \/ ReadyUnsent(s) \/ CheckResume(s) \/ LookUpResume(s) \/
           AttachRefused(s) \/ SocketEnds(s)
     PROVE  UNCHANGED opener
  BY <1>1 DEF ReadBus, Lag, TakeAttach, RefuseAttach, ReplayOne, ReplayFails,
     ReplayDone, TakeDetach, TakeClose, WindowCloses, HandshakeTimesOut, Identify,
     CheckIdentify, SendReady, ReadyUnsent, CheckResume, LookUpResume, AttachRefused,
     SocketEnds, wires
<1>2. CASE CloseSessions \/ Publish \/ EndSignIns \/ Receive \/ Dropped \/ Cut \/ Shutdown \/ SetToken
           \/ UNCHANGED vars
  BY <1>2 DEF CloseSessions, Publish, EndSignIns, Receive, Dropped, Cut, Shutdown, SetToken,
     vars, wires
<1> QED
  BY <1>1, <1>2 DEF Next, Progress, Environment, Task, Socket

\* An ended sign-in's sessions are closed: no step lets one go on unasked.
LEMMA SignedInOKStep ==
  ASSUME TypeOK, TypeOK', SocketsOK, AppOK, SignedInOK, OpenersKept, SessionsKept,
         StageMoves, CtlChanges, TaskMoves, ServesStep, [Next]_vars
  PROVE  SignedInOK'
<1>1. gen \in Nat /\ closed \in Nat /\ closed <= gen
  BY DEF TypeOK, TypeServer, SignedInOK
<1>2. closed' <= gen'
  BY <1>1, GenMoves DEF EndSignIns, CloseSessions
<1>3. ASSUME NEW k \in Sockets PROVE opener'[k].op = "none" => stage'[k] = "free"
  <2>1. CASE stage[k] # "free"
    BY <2>1 DEF OpenersKept, SignedInOK
  <2>2. CASE stage[k] = "free" /\ stage'[k] # "free"
    <3>1. Dial /\ k = dials + 1
      BY <2>2 DEF StageMoves
    <3> QED
      BY <3>1 DEF Dial, TypeOK, TypeWires
  <2> QED
    BY <2>1, <2>2
<1>4. ASSUME NEW k \in Sockets PROVE opener'[k].op = "resume" => task'[opener'[k].sess] # "none"
  <2> SUFFICES ASSUME opener'[k].op = "resume" PROVE task'[opener'[k].sess] # "none"
    OBVIOUS
  <2>1. CASE opener'[k] = opener[k]
    <3>1. opener[k].sess \in Sockets /\ task[opener[k].sess] # "none"
      BY <2>1 DEF SignedInOK, SocketsOK, StagesOK, TypeOK, TypeWires
    <3> QED
      BY <2>1, <3>1 DEF SessionsKept
  <2>2. CASE Dial /\ opener'[k] # opener[k]
    <3>1. /\ opener' = [opener EXCEPT ![dials + 1] =
               [op |-> IF session # 0 THEN "resume" ELSE "identify",
                sess |-> session, from |-> ResumeFrom, gen |-> token]]
          /\ UNCHANGED tasks
      BY <2>2 DEF Dial
    <3>2. session # 0 /\ opener'[k].sess = session
      BY <2>2, <3>1 DEF TypeOK, TypeWires
    <3> QED
      BY <3>1, <3>2 DEF AppOK, tasks
  <2> QED
    BY <2>1, <2>2, OpenerMoves
<1>5. ASSUME NEW k \in Sockets, stage'[k] \in Serving
      PROVE  /\ opener'[k] = opener[k] /\ SessionOf(k)' = SessionOf(k)
             /\ SessionOf(k) \in Sockets /\ task[SessionOf(k)] # "none"
  <2>1. stage[k] # "free"
    BY <1>5 DEF ServesStep
  <2>2. opener'[k] = opener[k] /\ SessionOf(k)' = SessionOf(k)
    BY <2>1 DEF OpenersKept, SessionOf
  <2>3. opener[k].op \in {"identify", "resume"}
    BY <2>1 DEF SignedInOK, TypeOK, TypeWires
  <2>4. SessionOf(k) \in Sockets
    BY <2>3 DEF SessionOf, SocketsOK, StagesOK, TypeOK, TypeWires
  <2>5. CASE stage[k] \in Serving
    BY <2>2, <2>4, <2>5 DEF SignedInOK
  <2>6. CASE stage[k] = "spawned"
    BY <2>2, <2>4, <2>6 DEF SocketsOK, StagesOK, SessionOf
  <2>7. CASE opener[k].op = "resume"
    BY <2>2, <2>4, <2>7 DEF SignedInOK, SessionOf
  <2> QED
    BY <1>5, <2>5, <2>6, <2>7 DEF ServesStep
<1>6. ASSUME NEW k \in Sockets, stage'[k] \in Serving PROVE task'[SessionOf(k)'] # "none"
  BY <1>5, <1>6 DEF SessionsKept
<1>7. ASSUME NEW k \in Sockets, stage'[k] \in Serving, opener'[k].gen < gen'
      PROVE  closed' < gen' \/ ~Running(SessionOf(k))' \/ CloseComing(SessionOf(k))'
  <2>1. PICK s \in Sockets : s = SessionOf(k) /\ s = SessionOf(k)' /\ task[s] # "none"
    BY <1>5, <1>7
  <2>2. ctl[s] \in Seq(Controls) /\ ctl'[s] \in Seq(Controls)
    BY DEF TypeOK, TypeTasks
  <2>3. CASE EndSignIns
    BY <1>1, <2>3 DEF EndSignIns
  <2>4. CASE CloseSessions
    <3>1. /\ task' = task
          /\ Running(s) => ctl'[s] = Append(ctl[s], Ctl("close", 0, 0))
      BY <2>4 DEF CloseSessions
    <3>2. Running(s) => Len(ctl[s]) + 1 \in DOMAIN ctl'[s]
                        /\ ctl'[s][Len(ctl[s]) + 1].op = "close"
      BY <2>2, <3>1 DEF Ctl
    <3>3. Running(s) => CloseComing(s)'
      BY <3>2 DEF CloseComing
    <3> QED
      BY <2>1, <3>1, <3>3 DEF Running, CloseComing
  <2>5. CASE UNCHANGED <<gen, closed>>
    <3>1. stage[k] \in Serving /\ opener[k].gen < gen
      BY <1>1, <1>5, <1>7, <2>5 DEF ServesStep
    <3>2. CASE closed < gen
      BY <2>5, <3>2
    <3>3. CASE ~Running(s)
      BY <2>1, <3>3 DEF TaskMoves, TakeAttach, Running
    <3>4. CASE CloseComing(s) /\ Running(s)'
      <4>1. PICK i \in DOMAIN ctl[s] : ctl[s][i].op = "close"
        BY <3>4 DEF CloseComing
      <4>2. \E j \in DOMAIN ctl'[s] : ctl'[s][j].op = "close"
        <5>1. CASE ctl'[s] = ctl[s]
          BY <4>1, <5>1
        <5>2. CASE ctl[s] # <<>> /\ ctl'[s] = Tail(ctl[s]) /\ Head(ctl[s]).op # "close"
          <6>1. i # 1
            BY <2>2, <4>1, <5>2
          <6>2. i - 1 \in DOMAIN ctl'[s] /\ ctl'[s][i - 1] = ctl[s][i]
            BY <2>2, <4>1, <5>2, <6>1
          <6> QED
            BY <4>1, <6>2
        <5>3. CASE \E c \in Controls : ctl'[s] = Append(ctl[s], c)
          <6>1. i \in DOMAIN ctl'[s] /\ ctl'[s][i] = ctl[s][i]
            BY <2>2, <4>1, <5>3
          <6> QED
            BY <4>1, <6>1
        <5>4. ~(task'[s] = "ended")
          BY <3>4 DEF Running
        <5> QED
          BY <5>1, <5>2, <5>3, <5>4 DEF CtlChanges
      <4> QED
        BY <2>1, <4>2 DEF CloseComing
    <3> QED
      BY <2>1, <3>1, <3>2, <3>3, <3>4 DEF SignedInOK, Running
  <2> QED
    BY <2>3, <2>4, <2>5, GenMoves
<1> QED
  BY <1>2, <1>3, <1>4, <1>6, <1>7 DEF SignedInOK

-----------------------------------------------------------------------------
(* What is on its way to the app                                           *)

\* The queue of the app's socket runs on from the last number the app took, and
\* whatever its session sends on it next fits behind: the next event it numbers, the
\* next it replays, or the first after the number an attach that waits asks for.
StreamOK ==
  /\ session = 0 => last = 0
  /\ conn # 0 =>
       /\ RunsOn(queue[conn], last)
       /\ opener[conn].op = "resume" =>
            session # 0 /\ (stage[conn] \in Early => last = opener[conn].from)
       /\ session = 0 /\ ~Plain(queue[conn]) => ReadyFirst(queue[conn])
       /\ \A s \in Sockets :
            /\ sink[s] = conn =>
                 /\ NextFits(queue[conn], last, Len(log[s]) + 1)
                 /\ session = 0 => ReadyFirst(queue[conn])
            /\ todo[s].k = conn =>
                 /\ NextFits(queue[conn], last, todo[s].next)
                 /\ todo[s].next <= Len(log[s]) + 1
                 /\ session = 0 => ReadyFirst(queue[conn])
            /\ \A i \in DOMAIN ctl[s] : ctl[s][i].op = "attach" /\ ctl[s][i].k = conn =>
                 /\ Plain(queue[conn]) /\ last = ctl[s][i].from
                 /\ session = 0 => ReadyFirst(queue[conn])

\* A step that sends the app no event.
Quiet ==
  /\ \/ queue'[conn] = queue[conn]
     \/ \E f \in Frames : f.op # "event" /\ queue'[conn] = Append(queue[conn], f)
  /\ \A s \in Sockets :
       /\ sink'[s] = conn =>
            /\ log'[s] = log[s]
            /\ sink[s] = conn \/ (todo[s].k = conn /\ todo[s].next > Len(log[s]))
       /\ todo'[s].k = conn =>
            /\ Len(log[s]) <= Len(log'[s])
            /\ \/ todo'[s] = todo[s]
               \/ \E i \in DOMAIN ctl[s] :
                    /\ ctl[s][i].op = "attach" /\ ctl[s][i].k = conn
                    /\ todo'[s].next = ctl[s][i].from + 1

\* The app's session forwards it the event it has just numbered ...
Forwards(s) ==
  /\ task[s] = "running" /\ sink[s] = conn /\ UNCHANGED <<sink, todo, ctl>>
  /\ \A t \in Sockets \ {s} : log'[t] = log[t]
  /\ \E f \in Frames, e \in Nat : 
       /\ f.op = "event" /\ f.n = Len(log[s]) + 1
       /\ queue'[conn] = Append(queue[conn], f) /\ log'[s] = Append(log[s], e)

\* ... or replays it the next.
Replays(s) ==
  /\ todo[s].k = conn /\ todo[s].next <= Len(log[s]) /\ UNCHANGED <<sink, log, ctl>>
  /\ todo' = [todo EXCEPT ![s] = [k |-> conn, next |-> todo[s].next + 1]]
  /\ \E f \in Frames : /\ f.op = "event" /\ f.n = todo[s].next
                       /\ queue'[conn] = Append(queue[conn], f)

\* The frames that carry no number.
LEMMA PlainBuilt ==
  /\ \A s \in Sockets : ResumedFrame(s) \in Frames /\ ResumedFrame(s).op # "event"
  /\ \A s \in Sockets, c \in Nat : ReadyFrame(s, c) \in Frames /\ ReadyFrame(s, c).op = "ready"
  /\ \A s \in Sockets \union {0} :
       /\ InvalidFrame(s, "unauthenticated") \in Frames /\ InvalidFrame(s, "expired") \in Frames
       /\ InvalidFrame(s, "unauthenticated").op # "event" /\ InvalidFrame(s, "expired").op # "event"
<1>1. \A s : ResumedFrame(s).op # "event"
  BY DEF ResumedFrame
<1>2. \A s, c : ReadyFrame(s, c).op = "ready"
  BY DEF ReadyFrame
<1>3. \A s, r : InvalidFrame(s, r).op # "event"
  BY DEF InvalidFrame
<1> QED
  BY <1>1, <1>2, <1>3, Built

\* What any step but the app's own does to the app's stream.
LEMMA StreamMoves ==
  ASSUME TypeOK, SocketsOK, CtlOK, OnceOK, conn \in Sockets, Idle, [Next]_vars
  PROVE  Quiet \/ (\E s \in Sockets : Forwards(s) \/ Replays(s)) \/ Receive
<1>4. /\ \A t \in Sockets : log[t] \in Seq(Nat) /\ Len(log[t]) \in Nat
      /\ sink \in [Sockets -> Sockets \union {0}]
      /\ todo \in [Sockets -> [k : Sockets \union {0}, next : Nat \ {0}]]
      /\ queue \in [Sockets -> Seq(Frames)] /\ pos \in [Sockets -> Nat]
      /\ log \in [Sockets -> Seq(Nat)] /\ bus \in Nat
  <2>1. /\ sink \in [Sockets -> Sockets \union {0}]
        /\ todo \in [Sockets -> [k : Sockets \union {0}, next : Nat \ {0}]]
        /\ queue \in [Sockets -> Seq(Frames)] /\ pos \in [Sockets -> Nat]
        /\ log \in [Sockets -> Seq(Nat)] /\ bus \in Nat
    BY DEF TypeOK, TypeServer, TypeTasks, TypeWires
  <2>2. \A t \in Sockets : log[t] \in Seq(Nat)
    BY <2>1
  <2>3. \A t \in Sockets : Len(log[t]) \in Nat
    BY <2>2
  <2> QED
    BY <2>1, <2>2, <2>3
<1>1. ASSUME NEW s \in Sockets, ReadBus(s) PROVE Quiet \/ Forwards(s)
  <2> DEFINE e == pos[s] + 1
             n == Len(log[s]) + 1
  <2>1. UNCHANGED <<todo, ctl>> /\ task[s] = "running"
    BY <1>1 DEF ReadBus
  <2>2. CASE e \in Hidden
    <3>1. UNCHANGED <<log, sink, queue>>
      BY <1>1, <2>2 DEF ReadBus
    <3> QED
      BY <1>4, <2>1, <3>1 DEF Quiet
  <2>3. CASE e \notin Hidden
    <3>1. log' = [log EXCEPT ![s] = Append(log[s], e)] /\ TrySend(s, EventFrame(s, n, e))
      BY <1>1, <2>3 DEF ReadBus
    <3>2. /\ log'[s] = Append(log[s], e) /\ \A t \in Sockets \ {s} : log'[t] = log[t]
          /\ \A t \in Sockets : Len(log[t]) <= Len(log'[t])
      <4>1. log'[s] = Append(log[s], e) /\ \A t \in Sockets \ {s} : log'[t] = log[t]
        BY <1>4, <3>1
      <4>2. Len(Append(log[s], e)) = Len(log[s]) + 1
        BY <1>4
      <4>3. Len(log[s]) <= Len(log'[s])
        BY <1>4, <4>1, <4>2
      <4>4. \A t \in Sockets \ {s} : Len(log[t]) <= Len(log'[t])
        BY <1>4, <4>1
      <4> QED
        BY <4>1, <4>3, <4>4
    <3>3. PICK m \in Nat, x \in Nat : m = n /\ x = e
      BY <1>4
    <3>4. PICK f \in Frames : f = EventFrame(s, m, x)
      BY Built
    <3>5. f.op = "event" /\ f.n = n
      BY <3>3, <3>4 DEF EventFrame
    <3>6. \/ /\ sink[s] # 0 /\ UNCHANGED sink
             /\ queue' = [queue EXCEPT ![sink[s]] = Append(queue[sink[s]], f)]
          \/ sink' = [sink EXCEPT ![s] = 0] /\ UNCHANGED queue
          \/ sink[s] = 0 /\ UNCHANGED <<queue, sink>>
      BY <3>1, <3>3, <3>4 DEF TrySend
    <3>7. CASE sink[s] = conn /\ UNCHANGED sink
               /\ queue' = [queue EXCEPT ![sink[s]] = Append(queue[sink[s]], f)]
      <4>1. queue'[conn] = Append(queue[conn], f)
        BY <1>4, <3>7
      <4>2. log'[s] = Append(log[s], x)
        BY <3>2, <3>3
      <4> QED
        BY <2>1, <3>2, <3>5, <3>7, <4>1, <4>2 DEF Forwards
    <3>8. CASE queue'[conn] = queue[conn] /\ sink'[s] # conn
               /\ \A t \in Sockets \ {s} : sink'[t] = sink[t]
      BY <1>4, <2>1, <3>2, <3>8 DEF Quiet
    <3>9. CASE sink' = [sink EXCEPT ![s] = 0] /\ UNCHANGED queue
      BY <1>4, <3>8, <3>9, SocketFacts
    <3>10. CASE sink[s] = 0 /\ UNCHANGED <<queue, sink>>
      BY <3>8, <3>10, SocketFacts
    <3>11. CASE sink[s] # conn /\ UNCHANGED sink
                /\ queue' = [queue EXCEPT ![sink[s]] = Append(queue[sink[s]], f)]
      <4>1. queue'[conn] = queue[conn]
        BY <1>4, <3>11
      <4> QED
        BY <3>8, <3>11, <4>1
    <3> QED
      BY <3>6, <3>7, <3>9, <3>10, <3>11
  <2> QED
    BY <2>2, <2>3
<1>2. ASSUME NEW s \in Sockets, EndTask(s),
             \/ queue'[conn] = queue[conn]
             \/ \E f \in Frames : f.op # "event" /\ queue'[conn] = Append(queue[conn], f)
      PROVE  Quiet
  <2>1. /\ sink' = [sink EXCEPT ![s] = 0] /\ todo' = [todo EXCEPT ![s] = None] /\ UNCHANGED log
    BY <1>2 DEF EndTask
  <2>2. \A t \in Sockets : sink'[t] = conn => sink[t] = conn
    BY <1>4, <2>1, SocketFacts
  <2>3. \A t \in Sockets : todo'[t].k = conn => todo'[t] = todo[t]
    BY <1>4, <2>1, SocketFacts DEF None
  <2>4. \A t \in Sockets : Len(log[t]) <= Len(log[t])
    BY <1>4
  <2> QED
    BY <1>2, <2>1, <2>2, <2>3, <2>4 DEF Quiet
<1>3. ASSUME NEW s \in Sockets, Lag(s) \/ RefuseAttach(s) \/ WindowCloses(s) PROVE Quiet
  <2>1. EndTask(s) /\ UNCHANGED queue
    BY <1>3 DEF Lag, RefuseAttach, WindowCloses, wires
  <2> QED
    BY <1>2, <2>1
<1>5. ASSUME NEW k \in Sockets \union {0}, NEW f \in Frames, f.op # "event",
             queue' = queue \/ queue' = [queue EXCEPT ![k] = Append(queue[k], f)]
      PROVE  \/ queue'[conn] = queue[conn]
             \/ \E g \in Frames : g.op # "event" /\ queue'[conn] = Append(queue[conn], g)
  BY <1>4, <1>5
<1>6. ASSUME NEW s \in Sockets, TakeAttach(s) PROVE Quiet
  <2> DEFINE c == Head(ctl[s])
  <2>1. c \in Controls /\ c = ctl[s][1] /\ 1 \in DOMAIN ctl[s] /\ c.k \in Sockets
        /\ c.op = "attach"
    BY <1>6, AttachHead DEF TakeAttach
  <2>2. /\ todo' = [todo EXCEPT ![s] = [k |-> c.k, next |-> c.from + 1]]
        /\ UNCHANGED <<sink, log>>
        /\ queue' = queue \/ queue' = [queue EXCEPT ![c.k] = Append(queue[c.k], ResumedFrame(s))]
    BY <1>6 DEF TakeAttach, After, CanReplay
  <2>3. ResumedFrame(s) \in Frames /\ ResumedFrame(s).op # "event"
    BY PlainBuilt
  <2>4. \/ queue'[conn] = queue[conn]
        \/ \E g \in Frames : g.op # "event" /\ queue'[conn] = Append(queue[conn], g)
    BY <1>5, <2>1, <2>2, <2>3
  <2>5. todo'[s].k = c.k /\ todo'[s].next = c.from + 1
        /\ \A t \in Sockets \ {s} : todo'[t] = todo[t]
    BY <1>4, <2>2
  <2>6. ASSUME NEW t \in Sockets, todo'[t].k = conn
        PROVE  \/ todo'[t] = todo[t]
               \/ \E i \in DOMAIN ctl[t] : /\ ctl[t][i].op = "attach" /\ ctl[t][i].k = conn
                                           /\ todo'[t].next = ctl[t][i].from + 1
    <3>1. CASE t = s
      <4>1. ctl[t][1].op = "attach" /\ ctl[t][1].k = conn /\ 1 \in DOMAIN ctl[t]
            /\ todo'[t].next = ctl[t][1].from + 1
        BY <2>1, <2>5, <2>6, <3>1
      <4> QED
        BY <4>1
    <3> QED
      BY <2>5, <3>1
  <2> HIDE DEF c
  <2> QED
    BY <1>4, <2>2, <2>4, <2>6 DEF Quiet
<1>7. ASSUME NEW s \in Sockets, ReplayOne(s) PROVE Quiet \/ Replays(s)
  <2> DEFINE n == todo[s].next
             k == todo[s].k
  <2>1. /\ n <= Len(log[s]) /\ UNCHANGED <<log, sink, ctl>>
        /\ todo' = [todo EXCEPT ![s] = [k |-> k, next |-> n + 1]]
        /\ queue' = [queue EXCEPT ![k] = Append(queue[k], EventFrame(s, n, log[s][n]))]
    BY <1>7 DEF ReplayOne
  <2>2. n \in Nat /\ log[s][n] \in Nat
    BY <1>4, <2>1
  <2>3. PICK f \in Frames : f = EventFrame(s, n, log[s][n])
    BY <2>2, Built
  <2>4. f.op = "event" /\ f.n = n
    BY <2>3 DEF EventFrame
  <2>5. CASE k = conn
    <3>1. queue'[conn] = Append(queue[conn], f)
      BY <1>4, <2>1, <2>3, <2>5
    <3> QED
      BY <2>1, <2>4, <2>5, <3>1 DEF Replays
  <2>6. CASE k # conn
    <3>1. queue'[conn] = queue[conn]
      BY <1>4, <2>1, <2>6
    <3>2. todo'[s].k # conn /\ \A t \in Sockets \ {s} : todo'[t] = todo[t]
      BY <1>4, <2>1, <2>6
    <3> QED
      BY <1>4, <2>1, <3>1, <3>2 DEF Quiet
  <2> QED
    BY <2>5, <2>6
<1>8. ASSUME NEW s \in Sockets, ReplayFails(s) PROVE Quiet
  <2>1. todo' = [todo EXCEPT ![s] = None] /\ UNCHANGED <<log, sink, queue>>
    BY <1>8 DEF ReplayFails, wires
  <2>2. \A t \in Sockets : todo'[t].k = conn => todo'[t] = todo[t]
    BY <1>4, <2>1, SocketFacts DEF None
  <2> QED
    BY <1>4, <2>1, <2>2 DEF Quiet
<1>9. ASSUME NEW s \in Sockets, ReplayDone(s) PROVE Quiet
  <2>1. /\ todo' = [todo EXCEPT ![s] = None] /\ UNCHANGED <<log, queue>>
        /\ sink' = [sink EXCEPT ![s] = todo[s].k] /\ todo[s].next > Len(log[s])
    BY <1>9 DEF ReplayDone, wires
  <2>2. \A t \in Sockets : todo'[t].k = conn => todo'[t] = todo[t]
    BY <1>4, <2>1, SocketFacts DEF None
  <2>3. \A t \in Sockets : sink'[t] = conn =>
          sink[t] = conn \/ (todo[t].k = conn /\ todo[t].next > Len(log[t]))
    BY <1>4, <2>1
  <2> QED
    BY <1>4, <2>1, <2>2, <2>3 DEF Quiet
<1>10. ASSUME NEW s \in Sockets, TakeDetach(s) PROVE Quiet
  <2>1. UNCHANGED <<todo, log, queue>> /\ sink' = [sink EXCEPT ![s] = Detached(s, Head(ctl[s]).k)]
    BY <1>10 DEF TakeDetach, wires
  <2>2. \A t \in Sockets : sink'[t] = conn => sink[t] = conn
    BY <1>4, <2>1, SocketFacts DEF Detached
  <2> QED
    BY <1>4, <2>1, <2>2 DEF Quiet
<1>11. ASSUME NEW s \in Sockets, TakeClose(s) PROVE Quiet
  <2>1. PICK f \in Frames : f = InvalidFrame(s, "unauthenticated") /\ f.op # "event"
    BY PlainBuilt
  <2>2. EndTask(s) /\ (queue' = queue \/ queue' = [queue EXCEPT ![sink[s]] = Append(queue[sink[s]], f)])
    BY <1>11, <2>1 DEF TakeClose
  <2>3. sink[s] \in Sockets \union {0}
    BY <1>4
  <2> QED
    BY <1>2, <1>5, <2>1, <2>2, <2>3
<1>12. ASSUME NEW s \in Sockets, CheckIdentify(s) PROVE Quiet
  <2>1. PICK f \in Frames : f = InvalidFrame(0, "unauthenticated") /\ f.op # "event"
    BY PlainBuilt
  <2>2. \/ UNCHANGED tasks /\ queue' = queue
        \/ EndTask(s) /\ queue' = [queue EXCEPT ![s] = Append(queue[s], f)]
    BY <1>12, <2>1 DEF CheckIdentify, Refused
  <2>3. CASE UNCHANGED tasks /\ queue' = queue
    BY <1>4, <2>3 DEF Quiet, tasks
  <2> QED
    BY <1>2, <1>5, <2>1, <2>2, <2>3
<1>13. ASSUME NEW s \in Sockets, SendReady(s) \/ CheckResume(s) \/ LookUpResume(s) \/ AttachRefused(s)
       PROVE  Quiet
  <2>1. UNCHANGED <<sink, todo, log>>
    BY <1>13 DEF SendReady, CheckResume, LookUpResume, AttachRefused, tasks
  <2>2. \E f \in Frames : /\ f.op # "event"
                          /\ queue' = queue \/ queue' = [queue EXCEPT ![s] = Append(queue[s], f)]
    <3>1. CASE SendReady(s)
      <4>1. PICK f \in Frames : f = ReadyFrame(s, bus) /\ f.op # "event"
        BY <1>4, PlainBuilt
      <4> QED
        BY <3>1, <4>1 DEF SendReady
    <3>2. CASE CheckResume(s)
      <4>1. PICK f \in Frames : f = InvalidFrame(0, "unauthenticated") /\ f.op # "event"
        BY PlainBuilt
      <4> QED
        BY <3>2, <4>1 DEF CheckResume, Refused
    <3>3. CASE LookUpResume(s) \/ AttachRefused(s)
      <4>1. PICK f \in Frames : f = InvalidFrame(0, "expired") /\ f.op # "event"
        BY PlainBuilt
      <4> QED
        BY <3>3, <4>1 DEF LookUpResume, AttachRefused, Refused
    <3> QED
      BY <1>13, <3>1, <3>2, <3>3
  <2> QED
    <3>1. \/ queue'[conn] = queue[conn]
          \/ \E g \in Frames : g.op # "event" /\ queue'[conn] = Append(queue[conn], g)
      BY <1>5, <2>2
    <3> QED
      BY <1>4, <2>1, <3>1 DEF Quiet
<1>14. ASSUME NEW s \in Sockets,
              HandshakeTimesOut(s) \/ Identify(s) \/ ReadyUnsent(s) \/ SocketEnds(s)
       PROVE  Quiet
  <2>1. UNCHANGED <<sink, todo, log, queue>>
    BY <1>14 DEF HandshakeTimesOut, Identify, ReadyUnsent, SocketEnds, tasks
  <2> QED
    BY <1>4, <2>1 DEF Quiet
<1>15. CASE CloseSessions \/ Dropped \/ Publish \/ EndSignIns \/ Cut \/ Shutdown \/ SetToken \/ UNCHANGED vars
  <2>1. UNCHANGED <<sink, todo, log, queue>>
    BY <1>15 DEF CloseSessions, Dropped, Publish, EndSignIns, Cut, Shutdown, SetToken, vars,
       tasks, wires
  <2> QED
    BY <1>4, <2>1 DEF Quiet
<1>16. CASE Dial
  BY <1>16, SocketFacts DEF Dial
<1> QED
  BY <1>1, <1>3, <1>6, <1>7, <1>8, <1>9, <1>10, <1>11, <1>12, <1>13, <1>14, <1>15, <1>16
     DEF Next, Progress, Environment, Task, Socket

\* A step that sends the app no event leaves its stream in order.
LEMMA QuietStep ==
  ASSUME TypeOK, TypeOK', SocketsOK, CtlOK, AppOK, KnowsOK, StreamOK,
         OpenersKept, LateKept, CtlChanges, conn \in Sockets, Idle, Quiet
  PROVE  StreamOK'
<1> DEFINE q == queue[conn]
<1>1. /\ conn' = conn /\ session' = session /\ last' = last /\ conn # 0
      /\ opener'[conn] = opener[conn]
      /\ stage'[conn] \in Early => stage[conn] \in Early
  <2>1. conn # 0 /\ stage[conn] # "free" /\ stage[conn] \in Late \union Early
    BY SocketFacts DEF AppOK, TypeOK, TypeWires, Late, Early
  <2>2. stage'[conn] \in Early => stage[conn] \in Early
    BY <2>1 DEF LateKept, Late, Early
  <2> QED
    BY <2>1, <2>2 DEF Idle, OpenersKept
<1>2. /\ q \in Seq(Frames) /\ last \in Nat
      /\ \A s \in Sockets :
           ctl[s] \in Seq(Controls) /\ Len(log[s]) \in Nat /\ todo[s].next \in Nat
  <2>1. \A s \in Sockets : log[s] \in Seq(Nat) /\ todo[s].next \in Nat /\ ctl[s] \in Seq(Controls)
    BY DEF TypeOK, TypeTasks
  <2>2. \A s \in Sockets : Len(log[s]) \in Nat
    BY <2>1
  <2> QED
    BY <2>1, <2>2 DEF TypeOK, TypeWires, TypeClient
<1>3. /\ session = 0 => last = 0
      /\ RunsOn(q, last)
      /\ opener[conn].op = "resume" =>
           session # 0 /\ (stage[conn] \in Early => last = opener[conn].from)
      /\ session = 0 /\ ~Plain(q) => ReadyFirst(q)
      /\ \A s \in Sockets :
           /\ sink[s] = conn =>
                NextFits(q, last, Len(log[s]) + 1) /\ (session = 0 => ReadyFirst(q))
           /\ todo[s].k = conn =>
                /\ NextFits(q, last, todo[s].next) /\ todo[s].next <= Len(log[s]) + 1
                /\ session = 0 => ReadyFirst(q)
           /\ \A i \in DOMAIN ctl[s] : ctl[s][i].op = "attach" /\ ctl[s][i].k = conn =>
                /\ Plain(q) /\ last = ctl[s][i].from /\ (session = 0 => ReadyFirst(q))
  BY <1>1 DEF StreamOK
<1>4. /\ RunsOn(q, last) => RunsOn(queue'[conn], last)
      /\ \A n \in Nat : NextFits(q, last, n) => NextFits(queue'[conn], last, n)
      /\ Plain(q) <=> Plain(queue'[conn])
      /\ ReadyFirst(q) => ReadyFirst(queue'[conn])
  <2>1. CASE queue'[conn] = q
    BY <2>1
  <2>2. CASE \E f \in Frames : f.op # "event" /\ queue'[conn] = Append(q, f)
    <3>1. PICK f \in Frames : f.op # "event" /\ queue'[conn] = Append(q, f)
      BY <2>2
    <3> HIDE DEF q
    <3> QED
      BY <1>2, <3>1, PlainAdded
  <2> QED
    BY <2>1, <2>2 DEF Quiet
<1>5. \A s \in Sockets : \A i \in DOMAIN ctl[s] :
        ctl[s][i].op = "attach" /\ ctl[s][i].k = conn =>
          /\ NextFits(q, last, ctl[s][i].from + 1) /\ last <= Len(log[s])
          /\ last = ctl[s][i].from
  <2> SUFFICES ASSUME NEW s \in Sockets, NEW i \in DOMAIN ctl[s],
                      ctl[s][i].op = "attach", ctl[s][i].k = conn
               PROVE  /\ NextFits(q, last, ctl[s][i].from + 1) /\ last <= Len(log[s])
                      /\ last = ctl[s][i].from
    OBVIOUS
  <2>1. Plain(q) /\ last = ctl[s][i].from
    BY <1>3
  <2>2. NextFits(q, last, last + 1)
    <3> HIDE DEF q
    <3> QED
      BY <1>2, <2>1 DEF NextFits, Plain
  <2>3. last <= Len(log[s])
    <3>1. CASE session = 0
      BY <1>2, <1>3, <3>1
    <3>2. CASE session # 0
      <4>1. session = s
        BY <1>1, <3>2 DEF CtlOK, Handed, AppOK
      <4> QED
        BY <3>2, <4>1 DEF KnowsOK
    <3> QED
      BY <3>1, <3>2
  <2> QED
    BY <2>1, <2>2, <2>3
<1>6. ASSUME NEW s \in Sockets, sink'[s] = conn
      PROVE  /\ NextFits(queue'[conn], last, Len(log'[s]) + 1)
             /\ session = 0 => ReadyFirst(queue'[conn])
  <2>1. log'[s] = log[s] /\ (sink[s] = conn \/ (todo[s].k = conn /\ todo[s].next > Len(log[s])))
    BY <1>6 DEF Quiet
  <2>2. CASE sink[s] = conn
    BY <1>2, <1>3, <1>4, <2>1, <2>2
  <2>3. CASE todo[s].k = conn /\ todo[s].next > Len(log[s])
    <3>1. todo[s].next = Len(log[s]) + 1
      BY <1>2, <1>3, <2>3
    <3> QED
      BY <1>2, <1>3, <1>4, <2>1, <2>3, <3>1
  <2> QED
    BY <2>1, <2>2, <2>3
<1>7. ASSUME NEW s \in Sockets, todo'[s].k = conn
      PROVE  /\ NextFits(queue'[conn], last, todo'[s].next)
             /\ todo'[s].next <= Len(log'[s]) + 1
             /\ session = 0 => ReadyFirst(queue'[conn])
  <2>1. Len(log[s]) <= Len(log'[s]) /\ Len(log'[s]) \in Nat
    <3>1. log'[s] \in Seq(Nat)
      BY DEF TypeOK, TypeTasks
    <3> QED
      BY <1>7, <3>1 DEF Quiet
  <2>2. CASE todo'[s] = todo[s]
    BY <1>2, <1>3, <1>4, <1>7, <2>1, <2>2
  <2>3. CASE \E i \in DOMAIN ctl[s] : /\ ctl[s][i].op = "attach" /\ ctl[s][i].k = conn
                                      /\ todo'[s].next = ctl[s][i].from + 1
    <3>1. PICK i \in DOMAIN ctl[s] : /\ ctl[s][i].op = "attach" /\ ctl[s][i].k = conn
                                     /\ todo'[s].next = ctl[s][i].from + 1
      BY <2>3
    <3>2. NextFits(q, last, last + 1) /\ last <= Len(log[s]) /\ todo'[s].next = last + 1
      BY <1>5, <3>1
    <3>3. session = 0 => ReadyFirst(q)
      BY <1>3, <3>1
    <3> QED
      BY <1>2, <1>4, <2>1, <3>2, <3>3
  <2> QED
    BY <1>7, <2>2, <2>3 DEF Quiet
<1>8. ASSUME NEW s \in Sockets, NEW i \in DOMAIN ctl'[s],
             ctl'[s][i].op = "attach", ctl'[s][i].k = conn
      PROVE  /\ Plain(queue'[conn]) /\ last = ctl'[s][i].from
             /\ session = 0 => ReadyFirst(queue'[conn])
  <2>1. CASE \E j \in DOMAIN ctl[s] : ctl'[s][i] = ctl[s][j]
    BY <1>3, <1>4, <1>8, <2>1
  <2>2. CASE Posted(s, ctl'[s][i])
    <3>1. /\ \/ /\ stage[conn] = "checked" /\ ctl'[s][i].from = 0
                /\ queue'[conn] = Append(q, ReadyFrame(conn, bus))
             \/ /\ stage[conn] = "verified" /\ ctl'[s][i].from = opener[conn].from
                /\ queue'[conn] = q
      BY <1>8, <2>2 DEF Posted
    <3>2. q = <<>> /\ stage[conn] \in Early
      BY <3>1 DEF SocketsOK, EarlyOK, Early
    <3>3. Plain(queue'[conn])
      BY <1>4, <3>2 DEF Plain
    <3>4. CASE /\ stage[conn] = "checked" /\ ctl'[s][i].from = 0
               /\ queue'[conn] = Append(q, ReadyFrame(conn, bus))
      <4>1. session = 0
        BY <1>1, <3>2, <3>4 DEF AppOK, SocketsOK, StagesOK
      <4>2. ReadyFirst(queue'[conn])
        BY <3>2, <3>4 DEF ReadyFirst, ReadyFrame
      <4> QED
        BY <1>3, <3>3, <3>4, <4>1, <4>2
    <3>5. CASE stage[conn] = "verified" /\ ctl'[s][i].from = opener[conn].from
      <4>1. opener[conn].op = "resume"
        BY <3>5 DEF SocketsOK, StagesOK
      <4> QED
        BY <1>3, <3>2, <3>3, <3>5, <4>1
    <3> QED
      BY <3>1, <3>4, <3>5
  <2>3. (\E j \in DOMAIN ctl[s] : ctl'[s][i] = ctl[s][j]) \/ Posted(s, ctl'[s][i])
    <3>1. ctl[s] \in Seq(Controls)
      BY <1>2
    <3>2. CASE ctl[s] # <<>> /\ ctl'[s] = Tail(ctl[s])
      <4>1. i + 1 \in DOMAIN ctl[s] /\ ctl'[s][i] = ctl[s][i + 1]
        BY <1>8, <3>1, <3>2, AfterTail
      <4> QED
        BY <4>1
    <3>3. CASE \E c \in Controls : Posted(s, c) /\ ctl'[s] = Append(ctl[s], c)
      <4>1. PICK c \in Controls : Posted(s, c) /\ ctl'[s] = Append(ctl[s], c)
        BY <3>3
      <4>2. (i \in DOMAIN ctl[s] /\ ctl'[s][i] = ctl[s][i]) \/ ctl'[s][i] = c
        BY <1>8, <3>1, <4>1, AfterAppend
      <4> QED
        BY <4>1, <4>2
    <3> QED
      BY <1>8, <3>2, <3>3 DEF CtlChanges
  <2> QED
    BY <2>1, <2>2, <2>3
<1> HIDE DEF q
<1>9. /\ RunsOn(queue'[conn], last)
      /\ session = 0 /\ ~Plain(queue'[conn]) => ReadyFirst(queue'[conn])
      /\ opener'[conn].op = "resume" =>
           session # 0 /\ (stage'[conn] \in Early => last = opener'[conn].from)
  BY <1>1, <1>3, <1>4
<1> QED
  BY <1>1, <1>3, <1>6, <1>7, <1>8, <1>9 DEF StreamOK, RunsOn, Plain, ReadyFirst, NextFits

\* A socket is held by one session, in one way.
LEMMA HeldOnce ==
  ASSUME TypeOK, SinkOK, TodoOK, CtlOK, OnceOK, NEW s \in Sockets, NEW k \in Sockets
  PROVE  /\ sink[s] = k \/ todo[s].k = k =>
              /\ \A t \in Sockets \ {s} : sink[t] # k /\ todo[t].k # k
              /\ \A t \in Sockets : \A i \in DOMAIN ctl[t] : ctl[t][i].op = "attach" => ctl[t][i].k # k
         /\ ~(sink[s] = k /\ todo[s].k = k)
<1>1. k # 0
  BY SocketFacts
<1>2. \A t \in Sockets : sink[t] = k \/ todo[t].k = k => SessionOf(k) = t /\ stage[k] \in Attached
  BY <1>1 DEF SinkOK, TodoOK, Handed, OnceOK
<1>3. \A t \in Sockets : \A i \in DOMAIN ctl[t] :
        ctl[t][i].op = "attach" /\ ctl[t][i].k = k => stage[k] = "attaching"
  BY DEF OnceOK
<1>4. ~(sink[s] = k /\ todo[s].k = k)
  BY <1>1 DEF OnceOK
<1>5. ASSUME sink[s] = k \/ todo[s].k = k
      PROVE  /\ \A t \in Sockets \ {s} : sink[t] # k /\ todo[t].k # k
             /\ \A t \in Sockets : \A i \in DOMAIN ctl[t] :
                  ctl[t][i].op = "attach" => ctl[t][i].k # k
  <2>1. SessionOf(k) = s /\ stage[k] # "attaching"
    BY <1>2, <1>5 DEF Attached
  <2> QED
    BY <1>2, <1>3, <2>1
<1> QED
  BY <1>4, <1>5

\* An event the app's session sends it, numbered just now or replayed, is the next.
LEMMA SentStep ==
  ASSUME TypeOK, SocketsOK, SinkOK, TodoOK, CtlOK, OnceOK, AppOK, StreamOK,
         OpenersKept, LateKept, conn \in Sockets, Idle, NEW s \in Sockets, 
         Forwards(s) \/ Replays(s)
  PROVE  StreamOK'
<1> DEFINE q == queue[conn]
<1>1. /\ conn' = conn /\ session' = session /\ last' = last /\ conn # 0
      /\ opener'[conn] = opener[conn]
      /\ stage'[conn] \in Early => stage[conn] \in Early
  <2>1. conn # 0 /\ stage[conn] # "free" /\ stage[conn] \in Late \union Early
    BY SocketFacts DEF AppOK, TypeOK, TypeWires, Late, Early
  <2>2. stage'[conn] \in Early => stage[conn] \in Early
    BY <2>1 DEF LateKept, Late, Early
  <2> QED
    BY <2>1, <2>2 DEF Idle, OpenersKept
<1>2. /\ q \in Seq(Frames) /\ last \in Nat /\ todo \in [Sockets -> [k : Sockets \union {0}, next : Nat \ {0}]]
      /\ log[s] \in Seq(Nat) /\ Len(log[s]) \in Nat
  <2>1. log[s] \in Seq(Nat)
    BY DEF TypeOK, TypeTasks
  <2>2. Len(log[s]) \in Nat
    BY <2>1
  <2>3. q \in Seq(Frames) /\ last \in Nat
    BY DEF TypeOK, TypeWires, TypeClient
  <2>4. todo \in [Sockets -> [k : Sockets \union {0}, next : Nat \ {0}]]
    BY DEF TypeOK, TypeTasks
  <2> QED
    BY <2>1, <2>2, <2>3, <2>4
<1>3. /\ session = 0 => last = 0
      /\ RunsOn(q, last)
      /\ opener[conn].op = "resume" =>
           session # 0 /\ (stage[conn] \in Early => last = opener[conn].from)
      /\ sink[s] = conn =>
           NextFits(q, last, Len(log[s]) + 1) /\ (session = 0 => ReadyFirst(q))
      /\ todo[s].k = conn =>
           /\ NextFits(q, last, todo[s].next) /\ todo[s].next <= Len(log[s]) + 1
           /\ session = 0 => ReadyFirst(q)
  BY <1>1 DEF StreamOK
<1>4. /\ sink[s] = conn \/ todo[s].k = conn
      /\ UNCHANGED <<sink, ctl>>
  BY DEF Forwards, Replays
<1>5. /\ \A t \in Sockets \ {s} : sink'[t] # conn
      /\ \A t \in Sockets : \A i \in DOMAIN ctl'[t] : ctl'[t][i].op = "attach" => ctl'[t][i].k # conn
  BY <1>4, HeldOnce
<1>6. \A t \in Sockets \ {s} : todo'[t].k # conn
  <2>1. \A t \in Sockets \ {s} : todo'[t] = todo[t]
    BY <1>2 DEF Forwards, Replays
  <2> QED
    BY <1>4, <2>1, HeldOnce
<1>7. /\ RunsOn(queue'[conn], last)
      /\ session = 0 => ReadyFirst(queue'[conn])
      /\ sink'[s] = conn => NextFits(queue'[conn], last, Len(log'[s]) + 1)
      /\ todo'[s].k = conn => NextFits(queue'[conn], last, todo'[s].next)
                              /\ todo'[s].next <= Len(log'[s]) + 1
  <2>1. CASE Forwards(s)
    <3>1. PICK f \in Frames, e \in Nat :
            /\ f.op = "event" /\ f.n = Len(log[s]) + 1
            /\ queue'[conn] = Append(q, f) /\ log'[s] = Append(log[s], e)
      BY <2>1 DEF Forwards
    <3>2. sink[s] = conn /\ todo' = todo /\ todo[s].k # conn
      BY <2>1, HeldOnce DEF Forwards
    <3>3. Len(log'[s]) = Len(log[s]) + 1
      BY <1>2, <3>1
    <3> HIDE DEF q
    <3>4. /\ RunsOn(Append(q, f), last) /\ NextFits(Append(q, f), last, Len(log[s]) + 1 + 1)
          /\ ReadyFirst(q) => ReadyFirst(Append(q, f))
      BY <1>2, <1>3, <3>1, <3>2, NextAdded
    <3> QED
      BY <1>3, <3>1, <3>2, <3>3, <3>4
  <2>2. CASE Replays(s)
    <3>1. PICK f \in Frames : f.op = "event" /\ f.n = todo[s].next /\ queue'[conn] = Append(q, f)
      BY <2>2 DEF Replays
    <3>2. /\ todo[s].k = conn /\ sink'[s] # conn /\ log' = log /\ todo[s].next <= Len(log[s])
          /\ todo'[s].next = todo[s].next + 1
      BY <1>2, <1>4, <2>2, HeldOnce DEF Replays
    <3>3. todo[s].next \in Nat
      BY <1>2
    <3> HIDE DEF q
    <3>4. /\ RunsOn(Append(q, f), last) /\ NextFits(Append(q, f), last, todo[s].next + 1)
          /\ ReadyFirst(q) => ReadyFirst(Append(q, f))
      BY <1>2, <1>3, <3>1, <3>2, <3>3, NextAdded
    <3>5. todo'[s].next <= Len(log'[s]) + 1
      BY <1>2, <3>2, <3>3
    <3> QED
      BY <1>3, <3>1, <3>2, <3>4, <3>5
  <2> QED
    BY <2>1, <2>2
<1> HIDE DEF q
<1>8. opener'[conn].op = "resume" =>
        session # 0 /\ (stage'[conn] \in Early => last = opener'[conn].from)
  BY <1>1, <1>3
<1> QED
  BY <1>1, <1>3, <1>5, <1>6, <1>7, <1>8 DEF StreamOK, RunsOn, Plain, ReadyFirst, NextFits

\* The app takes the frame at the head of its queue: an event is always the next.
LEMMA ReceiveStep ==
  ASSUME TypeOK, SocketsOK, FramesOK, AppOK, StreamOK, Receive
  PROVE  StreamOK'
<1> DEFINE q == queue[conn]
           f == Head(q)
<1>1. /\ conn \in Sockets /\ conn # 0 /\ q # <<>> /\ q \in Seq(Frames) /\ last \in Nat
      /\ UNCHANGED <<stage, opener, log, sink, todo, ctl>>
      /\ queue'[conn] = Tail(q)
      /\ ApplyReady(f) \/ ApplyInvalid(f) \/ ApplyEvent(f) \/ ApplyResumed(f)
  BY DEF Receive, tasks, TypeOK, TypeWires, TypeClient
<1>2. f = q[1] /\ 1 \in DOMAIN q /\ f \in Frames
  BY <1>1
<1>3. FrameOK(conn, f) /\ stage[conn] \notin Early
  BY <1>1, <1>2 DEF FramesOK, SocketsOK, EarlyOK
<1>4. /\ session = 0 => last = 0
      /\ RunsOn(q, last)
      /\ opener[conn].op = "resume" => session # 0
      /\ session = 0 /\ ~Plain(q) => ReadyFirst(q)
      /\ \A s \in Sockets :
           /\ sink[s] = conn =>
                NextFits(q, last, Len(log[s]) + 1) /\ (session = 0 => ReadyFirst(q))
           /\ todo[s].k = conn =>
                /\ NextFits(q, last, todo[s].next) /\ todo[s].next <= Len(log[s]) + 1
                /\ session = 0 => ReadyFirst(q)
           /\ \A i \in DOMAIN ctl[s] : ctl[s][i].op = "attach" /\ ctl[s][i].k = conn =>
                /\ Plain(q) /\ last = ctl[s][i].from /\ (session = 0 => ReadyFirst(q))
  BY <1>1 DEF StreamOK
<1>5. /\ f.op = "event" =>
           /\ f.n = last + 1 /\ RunsOn(Tail(q), last + 1)
           /\ \A n \in Nat : NextFits(q, last, n) => NextFits(Tail(q), last + 1, n)
      /\ f.op # "event" =>
           /\ RunsOn(Tail(q), last)
           /\ \A n \in Nat : NextFits(q, last, n) => NextFits(Tail(q), last, n)
      /\ Plain(q) => Plain(Tail(q))
  <2> HIDE DEF q
  <2> QED
    BY <1>1, <1>4, HeadTaken
<1>6. \A s \in Sockets : Len(log[s]) + 1 \in Nat /\ todo[s].next \in Nat
  <2>1. \A s \in Sockets : log[s] \in Seq(Nat) /\ todo[s].next \in Nat
    BY DEF TypeOK, TypeTasks
  <2> QED
    BY <2>1
<1>7. f.op # "ready" => ~ReadyFirst(q)
  BY <1>2 DEF ReadyFirst
<1>8. CASE conn' = 0 /\ (session' = 0 => last' = 0)
  BY <1>8 DEF StreamOK
<1>9. CASE conn' = conn /\ f.op # "event" /\ f.op # "ready" /\ session' = session /\ last' = last
  <2>1. session = 0 =>
          /\ Plain(q)
          /\ \A s \in Sockets :
               /\ sink[s] # conn /\ todo[s].k # conn
               /\ \A i \in DOMAIN ctl[s] : ctl[s][i].op = "attach" => ctl[s][i].k # conn
    BY <1>4, <1>7, <1>9
  <2> HIDE DEF q, f
  <2>2. RunsOn(queue'[conn], last) /\ (session = 0 => Plain(queue'[conn]))
        /\ (Plain(q) => Plain(queue'[conn]))
    BY <1>1, <1>5, <1>9, <2>1
  <2>3. \A s \in Sockets :
          /\ sink[s] = conn => session # 0 /\ NextFits(queue'[conn], last, Len(log[s]) + 1)
          /\ todo[s].k = conn => session # 0 /\ NextFits(queue'[conn], last, todo[s].next)
                                 /\ todo[s].next <= Len(log[s]) + 1
          /\ \A i \in DOMAIN ctl[s] : ctl[s][i].op = "attach" /\ ctl[s][i].k = conn =>
               session # 0 /\ Plain(queue'[conn]) /\ last = ctl[s][i].from
    BY <1>1, <1>4, <1>5, <1>6, <1>9, <2>1, <2>2
  <2>4. /\ conn' = conn /\ session' = session /\ last' = last
        /\ session = 0 => last = 0
        /\ UNCHANGED <<stage, opener, log, sink, todo, ctl>> /\ stage[conn] \notin Early
        /\ opener[conn].op = "resume" => session # 0
    BY <1>1, <1>3, <1>4, <1>9
  <2> QED
    BY <2>2, <2>3, <2>4 DEF StreamOK, RunsOn, Plain, ReadyFirst, NextFits
<1>10. CASE f.op = "ready" /\ conn' = conn /\ session' = f.sess /\ last' = 0
  <2>1. session = 0 /\ last = 0
    BY <1>1, <1>2, <1>4, <1>10 DEF AppOK
  <2>2. session' # 0 /\ last' = last /\ opener[conn].op # "resume"
    BY <1>1, <1>3, <1>10, <2>1 DEF FrameOK
  <2> HIDE DEF q, f
  <2>3. RunsOn(queue'[conn], last) /\ (Plain(q) => Plain(queue'[conn]))
    BY <1>1, <1>5, <1>10
  <2>4. \A s \in Sockets :
          /\ sink[s] = conn => NextFits(queue'[conn], last, Len(log[s]) + 1)
          /\ todo[s].k = conn => NextFits(queue'[conn], last, todo[s].next)
                                 /\ todo[s].next <= Len(log[s]) + 1
          /\ \A i \in DOMAIN ctl[s] : ctl[s][i].op = "attach" /\ ctl[s][i].k = conn =>
               Plain(queue'[conn]) /\ last = ctl[s][i].from
    BY <1>1, <1>4, <1>5, <1>6, <1>10, <2>3
  <2>5. /\ conn' = conn /\ session' # 0 /\ last' = last
        /\ UNCHANGED <<stage, opener, log, sink, todo, ctl>>
        /\ opener[conn].op # "resume"
    BY <1>1, <1>10, <2>2
  <2> QED
    BY <2>3, <2>4, <2>5 DEF StreamOK, RunsOn, Plain, ReadyFirst, NextFits
<1>11. CASE /\ f.op = "event" /\ session # 0 /\ f.n = last + 1 /\ last' = f.n
            /\ conn' = conn /\ session' = session
  <2>1. ~Plain(q)
    BY <1>2, <1>11 DEF Plain
  <2> HIDE DEF q, f
  <2>2. RunsOn(queue'[conn], last + 1)
    BY <1>1, <1>5, <1>11
  <2>3. \A s \in Sockets :
          /\ sink[s] = conn => NextFits(queue'[conn], last + 1, Len(log[s]) + 1)
          /\ todo[s].k = conn => NextFits(queue'[conn], last + 1, todo[s].next)
                                 /\ todo[s].next <= Len(log[s]) + 1
          /\ \A i \in DOMAIN ctl[s] : ctl[s][i].op = "attach" => ctl[s][i].k # conn
    BY <1>1, <1>4, <1>5, <1>6, <1>11, <2>1
  <2>4. /\ conn' = conn /\ session' = session /\ last' = last + 1 /\ session # 0
        /\ UNCHANGED <<stage, opener, log, sink, todo, ctl>> /\ stage[conn] \notin Early
    BY <1>1, <1>3, <1>11
  <2> QED
    BY <2>2, <2>3, <2>4 DEF StreamOK, RunsOn, Plain, ReadyFirst, NextFits
<1>12. CASE ApplyReady(f)
  BY <1>10, <1>12 DEF ApplyReady
<1>13. CASE ApplyInvalid(f)
  BY <1>4, <1>8, <1>13 DEF ApplyInvalid, Restart, Reauth
<1>14. CASE ApplyResumed(f)
  BY <1>9, <1>14 DEF ApplyResumed
<1>15. CASE ApplyEvent(f)
  <2>1. f.op = "event"
    BY <1>15 DEF ApplyEvent
  <2>2. ~Plain(q) /\ f.n = last + 1
    BY <1>2, <1>5, <2>1 DEF Plain
  <2>3. session # 0
    BY <1>4, <1>7, <2>1, <2>2
  <2> HIDE DEF f, q
  <2>4. last' = f.n /\ conn' = conn /\ session' = session
    BY <1>1, <1>15, <2>2, <2>3 DEF ApplyEvent
  <2> QED
    BY <1>11, <2>1, <2>2, <2>3, <2>4
<1> QED
  BY <1>1, <1>12, <1>13, <1>14, <1>15

\* A socket just dialled has nothing on it, and its opener asks for what comes next.
LEMMA DialStreamStep ==
  ASSUME TypeOK, SocketsOK, SinkOK, TodoOK, CtlOK, StreamOK, Dial
  PROVE  StreamOK'
<1> DEFINE k == dials + 1
<1>1. /\ k \in Sockets /\ conn' = k /\ UNCHANGED <<session, last, queue, sink, todo, ctl, log>>
      /\ opener' = [opener EXCEPT ![k] =
           [op |-> IF session # 0 THEN "resume" ELSE "identify",
            sess |-> session, from |-> last, gen |-> token]]
  BY DEF Dial, tasks, ResumeFrom
<1>2. stage[k] = "free" /\ queue[k] = <<>>
  <2>1. dials \in Nat
    BY SocketFacts DEF TypeOK, TypeClient
  <2>2. k > dials
    BY <2>1
  <2> QED
    BY <1>1, <2>2 DEF SocketsOK, EarlyOK, StagesOK, Early
<1> HIDE DEF k
<1>3. opener'[k].op = "resume" => session # 0 /\ opener'[k].from = last
  BY <1>1 DEF TypeOK, TypeWires
<1>4. ~Handed(1, k) /\ \A s : ~Handed(s, k)
  BY <1>2 DEF Handed, Late
<1>5. \A s \in Sockets : /\ sink[s] # k /\ todo[s].k # k
                         /\ \A i \in DOMAIN ctl[s] : ctl[s][i].op = "attach" => ctl[s][i].k # k
  BY <1>1, <1>4, SocketFacts DEF SinkOK, TodoOK, CtlOK
<1>6. RunsOn(queue[k], last) /\ Plain(queue[k])
  BY <1>2 DEF RunsOn, Plain
<1>7. session = 0 => last = 0
  BY DEF StreamOK
<1> QED
  BY <1>1, <1>3, <1>5, <1>6, <1>7 DEF StreamOK, RunsOn, Plain, ReadyFirst, NextFits

\* Whatever the step, the app's stream stays in order.
LEMMA StreamOKStep ==
  ASSUME TypeOK, TypeOK', SocketsOK, SinkOK, TodoOK, CtlOK, FramesOK, AppOK, KnowsOK,
         OnceOK, StreamOK, OpenersKept, LateKept, CtlChanges, [Next]_vars
  PROVE  StreamOK'
<1>1. CASE Receive
  BY <1>1, ReceiveStep
<1>2. CASE Dial
  BY <1>2, DialStreamStep
<1>3. CASE HungUp
  <2>1. conn' = 0 /\ session' = session /\ last' = last
    BY <1>3 DEF HungUp
  <2>2. session = 0 => last = 0
    BY DEF StreamOK
  <2> QED
    BY <2>1, <2>2 DEF StreamOK
<1>4. CASE Idle /\ conn \in Sockets
  <2>1. CASE Quiet
    BY <1>4, <2>1, QuietStep
  <2>2. CASE \E s \in Sockets : Forwards(s) \/ Replays(s)
    BY <1>4, <2>2, SentStep
  <2> QED
    BY <1>1, <1>4, <2>1, <2>2, StreamMoves
<1>5. CASE Idle /\ conn \notin Sockets
  <2>1. conn = 0 /\ conn' = conn /\ session' = session /\ last' = last
    BY <1>5 DEF Idle, TypeOK, TypeClient
  <2>2. session = 0 => last = 0
    BY DEF StreamOK
  <2> QED
    BY <2>1, <2>2 DEF StreamOK
<1>6. Receive \/ Idle \/ HungUp \/ Dial
  <2>1. ASSUME NEW s \in Sockets, Task(s) \/ Socket(s) \/ WindowCloses(s) PROVE Idle
    BY <2>1 DEF Task, Socket, Idle, client, wires, ReadBus, Lag, TakeAttach, RefuseAttach,
       ReplayOne, ReplayFails, ReplayDone, TakeDetach, TakeClose, WindowCloses,
       HandshakeTimesOut, Identify, CheckIdentify, SendReady, ReadyUnsent, CheckResume,
       LookUpResume, AttachRefused, SocketEnds
  <2>2. CASE Dropped \/ Shutdown
    BY <2>2 DEF Dropped, Shutdown, HungUp
  <2>3. CASE CloseSessions \/ Publish \/ EndSignIns \/ Cut \/ SetToken \/ UNCHANGED vars
    BY <2>3 DEF CloseSessions, Publish, EndSignIns, Cut, SetToken, vars, client, Idle
  <2> QED
    BY <2>1, <2>2, <2>3 DEF Next, Progress, Environment
<1> QED
  BY <1>1, <1>2, <1>3, <1>4, <1>5, <1>6
-----------------------------------------------------------------------------
(* The invariant, and what follows from it                                 *)

\* GatewaySession_proofs' invariant, with what a socket, a sign-in and the app's
\* stream are held by.
RInv == IInv /\ OnceOK /\ SignedInOK /\ StreamOK

\* It holds of a server just started and an app that has dialled nothing.
LEMMA InitRInv == Init => RInv
<1> SUFFICES ASSUME Init PROVE RInv
  OBVIOUS
<1>1. OnceOK
  BY SocketFacts DEF Init, OnceOK, Running, None, Attached
<1>2. SignedInOK
  BY SocketFacts DEF Init, SignedInOK, NoOpener, Serving
<1>3. StreamOK
  BY SocketFacts DEF Init, StreamOK
<1> QED
  BY <1>1, <1>2, <1>3, InitInv DEF RInv

\* Every step keeps it.
LEMMA RInvStep == RInv /\ [Next]_vars => RInv'
<1> SUFFICES ASSUME RInv, [Next]_vars PROVE RInv'
  OBVIOUS
<1>1. /\ TypeOK /\ SocketsOK /\ SinkOK /\ TodoOK /\ CtlOK /\ FramesOK /\ AppOK /\ KnowsOK
      /\ OnceOK /\ SignedInOK /\ StreamOK
  BY DEF RInv, IInv
<1>2. TypeServer /\ TypeTasks /\ TypeWires /\ TypeClient
  BY <1>1 DEF TypeOK
<1>3. IInv' /\ TypeOK'
  BY InvStep DEF RInv, IInv
<1>4. OpenersKept /\ LateKept /\ SessionsKept
  BY <1>1, <1>2, OpenersStep, LateStep, SessionsStep
<1>5. StageMoves /\ CtlChanges /\ TaskMoves /\ ServesStep
  BY <1>1, StageMovesStep, CtlChangesStep, TaskMovesStep, ServesStepStep
<1>6. OnceOK'
  BY <1>1, <1>3, <1>5, OnceOKStep
<1>7. SignedInOK'
  BY <1>1, <1>3, <1>4, <1>5, SignedInOKStep
<1>8. StreamOK'
  BY <1>1, <1>3, <1>4, <1>5, StreamOKStep
<1> QED
  BY <1>3, <1>6, <1>7, <1>8 DEF RInv

\* So it holds of every state the gateway reaches.
LEMMA ResumeInvariant == Spec => []RInv
  BY InitRInv, RInvStep, PTL DEF Spec

\* The numbers on their way to the app run on from the last it took, with no hole and
\* no duplicate, for any queue, bus and window sizes: replay.rs never replays around a
\* hole, and the app's `sequence gap` branch never fires.
THEOREM ReplayIsWhole == Spec => []WholeReplay
<1>1. RInv => WholeReplay
  BY DEF RInv, StreamOK, WholeReplay
<1> QED
  BY ResumeInvariant, <1>1, PTL

\* Once close_sessions_for has closed an ended sign-in's sessions, none goes on serving
\* a socket opened with a token from before it, however the handshake, the resume and
\* the close interleave (#496).
THEOREM SignedOutIsOut == Spec => []SignedOutStaysOut
<1>1. RInv => SignedOutStaysOut
  <2> SUFFICES ASSUME RInv PROVE SignedOutStaysOut
    OBVIOUS
  <2>1. SignedInOK
    BY DEF RInv
  <2> QED
    BY <2>1 DEF SignedInOK, SignedOutStaysOut, Serving, CloseComing
<1> QED
  BY ResumeInvariant, <1>1, PTL

\* A session that goes on running never lets go of a socket a late Detach is not about
\* (#451): it ended, was cut, was too slow, or a newer socket replaced it.
THEOREM CurrentDetaches == Spec => OnlyCurrentDetaches
<1> DEFINE Kept == \A s \in Sockets :
                     LET k == sink[s] IN
                     k # 0 /\ sink'[s] # k /\ Running(s) /\ Running(s)' =>
                       \/ stage[k] = "gone" \/ k \in cut \/ Len(queue[k]) >= QueueFrames
                       \/ sink'[s] # 0 /\ sink'[s] = todo[s].k
<1>1. RInv /\ [Next]_vars => [Kept]_vars
  <2> SUFFICES ASSUME RInv, [Next]_vars PROVE Kept
    OBVIOUS
  <2>1. TypeOK /\ CtlOK /\ OnceOK
    BY DEF RInv, IInv
  <2> QED
    BY <2>1, DetachStep
<1> QED
  BY ResumeInvariant, <1>1, PTL DEF Spec, OnlyCurrentDetaches

==============================================================================
