--------------------------- MODULE GatewaySession ---------------------------
(***************************************************************************)
(* How one app receives its person's events, end to end: the broadcast bus *)
(* and the session tasks of the server (gateway/mod.rs), what a session    *)
(* keeps for a resume (gateway/replay.rs), the socket handlers and their   *)
(* handshake (gateway/socket.rs), the network, and the gateway client in   *)
(* the app's shell (client/src-tauri/src/gateway.rs).                      *)
(*                                                                         *)
(* A session is named by the socket that identified it.  An event is its   *)
(* position on the bus.  Time is nondeterministic: a timer may fire at any *)
(* moment its condition allows.                                            *)
(***************************************************************************)
EXTENDS Integers, Sequences, FiniteSets

CONSTANTS MaxFrames,     \* bound: events published
          MaxSockets,    \* bound: sockets the app dials
          MaxCuts,       \* bound: connections the network cuts
          MaxEnds,       \* bound: times every sign-in is ended
          Hidden,        \* events visible_to keeps from this person
          Most,          \* Config::resume_frames
          BusFrames,     \* BUS_FRAMES
          QueueFrames    \* SOCKET_QUEUE_FRAMES

ASSUME GatewayAssumption ==
  /\ MaxFrames \in Nat /\ MaxSockets \in Nat /\ MaxCuts \in Nat /\ MaxEnds \in Nat
  /\ Most \in Nat \ {0} /\ BusFrames \in Nat \ {0} /\ QueueFrames \in Nat \ {0}
  /\ Hidden \subseteq Nat

Sockets == 1..MaxSockets

VARIABLES
  \* the server
  bus,      \* how many events have been published
  gen,      \* users.token_generation: +1 ends every sign-in
  closed,   \* the generation before which close_sessions_for has closed them all
  task,     \* the session tasks: none, running, replaying or ended
  born,     \* the bus position a task subscribed at
  pos,      \* the last event a task took from the bus
  log,      \* the events a task numbered: log[s][n] went out as number n
  letGo,    \* Replay::let_go; Replay::frames holds the numbers after it
  sink,     \* the socket a task forwards to, 0 for None
  todo,     \* while replaying: the socket and the next number to send
  ctl,      \* a task's control channel
  \* the sockets
  stage,    \* where the handler of a socket is
  opener,   \* the first frame the app sent on it
  queue,    \* frames on their way to the app: the writer's queue and the wire
  cut,      \* the sockets whose connection the network has cut
  \* the app
  runner,   \* the Runner: running, or shut down
  conn,     \* the socket it is on, 0 for none
  session,  \* Runner::session: the session it may resume, 0 for None
  last,     \* Session::last_seq
  token,    \* the generation its token is of, NoToken for None
  dials,    \* how many sockets it has dialled
  knows     \* the visible events whose effect the frontend has

server == <<bus, gen, closed>>
tasks == <<task, born, pos, log, letGo, sink, todo, ctl>>
wires == <<stage, opener, queue, cut>>
client == <<runner, conn, session, last, token, dials, knows>>
vars == <<server, tasks, wires, client>>

Visible(c) == (1..c) \ Hidden
None == [k |-> 0, next |-> 1]
NoToken == MaxEnds + 1
NoOpener == [op |-> "none", sess |-> 0, from |-> 0, gen |-> 0]

\* What the server sends on a socket, each with the session it is about ...
EventFrame(s, n, e) == [op |-> "event", sess |-> s, n |-> n, e |-> e]
ReadyFrame(s, c) == [op |-> "ready", sess |-> s, snap |-> c]
ResumedFrame(s) == [op |-> "resumed", sess |-> s]
InvalidFrame(s, reason) == [op |-> "invalid", sess |-> s, reason |-> reason]
\* ... and what a session task is told.
Ctl(op, k, from) == [op |-> op, k |-> k, from |-> from]

Running(s) == task[s] \in {"running", "replaying"}

Init ==
  /\ bus = 0 /\ gen = 0 /\ closed = 0
  /\ task = [s \in Sockets |-> "none"]
  /\ born = [s \in Sockets |-> 0] /\ pos = [s \in Sockets |-> 0]
  /\ log = [s \in Sockets |-> <<>>]
  /\ letGo = [s \in Sockets |-> 0]
  /\ sink = [s \in Sockets |-> 0] /\ todo = [s \in Sockets |-> None]
  /\ ctl = [s \in Sockets |-> <<>>]
  /\ stage = [k \in Sockets |-> "free"]
  /\ opener = [k \in Sockets |-> NoOpener]
  /\ queue = [k \in Sockets |-> <<>>]
  /\ cut = {}
  /\ runner = "on" /\ conn = 0 /\ session = 0 /\ last = 0 /\ token = 0
  /\ dials = 0 /\ knows = {}
-----------------------------------------------------------------------------
(* The bus and the session task (gateway/mod.rs, gateway/replay.rs)        *)

Publish ==
  /\ bus < MaxFrames
  /\ bus' = bus + 1
  /\ UNCHANGED <<gen, closed, tasks, wires, client>>

\* Replay::keep: what number g and before it is let go of when number n is kept.
\* Past the most it holds the oldest go; while a socket is attached so do those
\* older than the window, which may be any of the earlier ones.
Keeps(s, n, attached, g) ==
  /\ letGo[s] <= g /\ g < n /\ n <= g + Most
  /\ g = letGo[s] \/ n = g + Most \/ attached

\* Whether the bus has lapped a task: recv answers Lagged.
Lapped(s) == pos[s] + BusFrames < bus

\* Mutant: a frame that does not fit is dropped and the socket kept.
TrySendDrops(s, frame) ==
  LET k == sink[s] IN
  /\ queue' = IF k # 0 /\ Len(queue[k]) < QueueFrames
              THEN [queue EXCEPT ![k] = Append(@, frame)]
              ELSE queue
  /\ UNCHANGED sink

\* try_send puts the frame in the socket's queue, or fails: the queue is full, or
\* its writer has stopped because the connection is gone.
TrySend(s, frame) ==
  LET k == sink[s] IN
  \/ /\ k # 0 /\ Len(queue[k]) < QueueFrames
     /\ queue' = [queue EXCEPT ![k] = Append(@, frame)]
     /\ UNCHANGED sink
  \/ /\ k # 0 /\ (Len(queue[k]) >= QueueFrames \/ k \in cut)
     /\ sink' = [sink EXCEPT ![s] = 0]
     /\ UNCHANGED queue
  \/ k = 0 /\ UNCHANGED <<queue, sink>>

\* A task takes the next event: unseen by this person it is skipped, otherwise
\* numbered, kept and forwarded.
ReadBus(s) ==
  LET e == pos[s] + 1
      n == Len(log[s]) + 1
  IN
  /\ task[s] = "running" /\ e <= bus /\ ~Lapped(s)
  /\ pos' = [pos EXCEPT ![s] = e]
  /\ IF e \in Hidden
     THEN UNCHANGED <<log, letGo, sink, queue>>
     ELSE /\ log' = [log EXCEPT ![s] = Append(@, e)]
          /\ \E g \in 0..n : /\ Keeps(s, n, sink[s] # 0, g)
                           /\ letGo' = [letGo EXCEPT ![s] = g]
          /\ TrySend(s, EventFrame(s, n, e))
  /\ UNCHANGED <<server, task, born, todo, ctl, stage, opener, cut, client>>

\* What every way out of the task's loop does to the task.
EndTask(s) ==
  /\ task' = [task EXCEPT ![s] = "ended"]
  /\ sink' = [sink EXCEPT ![s] = 0]
  /\ todo' = [todo EXCEPT ![s] = None]
  /\ ctl' = [ctl EXCEPT ![s] = <<>>]
  /\ letGo' = [letGo EXCEPT ![s] = 0]
  /\ UNCHANGED <<born, pos, log>>

\* Mutant: the task goes on from the oldest event the bus still holds.
LagSkips(s) ==
  /\ task[s] = "running" /\ Lapped(s)
  /\ pos' = [pos EXCEPT ![s] = bus - BusFrames]
  /\ UNCHANGED <<server, task, born, log, letGo, sink, todo, ctl, wires, client>>

\* The bus dropped events this task had not read: it ends rather than skip them.
Lag(s) ==
  /\ task[s] = "running" /\ Lapped(s)
  /\ EndTask(s)
  /\ UNCHANGED <<server, wires, client>>

\* resume_window_closes: only while no socket is attached.
WindowCloses(s) ==
  /\ task[s] = "running" /\ sink[s] = 0
  /\ EndTask(s)
  /\ UNCHANGED <<server, wires, client>>

\* Mutant: whatever is still kept is replayed, whole or not (before #678).
CanReplayAlways(s, from) == TRUE

\* Replay::after: refused unless every number after `from` is still kept.
CanReplay(s, from) == letGo[s] <= from

\* The first kept number after `from`.
After(s, from) == IF letGo[s] <= from THEN from + 1 ELSE letGo[s] + 1

\* Ctl::Attach is answered yes, and the replay begins with `resumed`.
TakeAttach(s) ==
  LET c == Head(ctl[s]) IN
  /\ task[s] = "running" /\ ctl[s] # <<>> /\ c.op = "attach"
  /\ CanReplay(s, c.from)
  /\ task' = [task EXCEPT ![s] = "replaying"]
  /\ todo' = [todo EXCEPT ![s] = [k |-> c.k, next |-> After(s, c.from)]]
  /\ ctl' = [ctl EXCEPT ![s] = Tail(@)]
  /\ stage' = [stage EXCEPT ![c.k] = "open"]
  /\ queue' = IF opener[c.k].op = "resume"
              THEN [queue EXCEPT ![c.k] = Append(@, ResumedFrame(s))]
              ELSE queue
  /\ UNCHANGED <<server, born, pos, log, letGo, sink, opener, cut, client>>

\* Ctl::Attach is answered no: what the app missed is gone, and so is the session.
RefuseAttach(s) ==
  LET c == Head(ctl[s]) IN
  /\ task[s] = "running" /\ ctl[s] # <<>> /\ c.op = "attach"
  /\ ~CanReplay(s, c.from)
  /\ EndTask(s)
  /\ UNCHANGED <<server, wires, client>>

\* One frame of the replay; a full queue makes the task wait.
ReplayOne(s) ==
  LET k == todo[s].k
      n == todo[s].next
  IN
  /\ task[s] = "replaying" /\ n <= Len(log[s])
  /\ Len(queue[k]) < QueueFrames
  /\ queue' = [queue EXCEPT ![k] = Append(@, EventFrame(s, n, log[s][n]))]
  /\ todo' = [todo EXCEPT ![s] = [k |-> k, next |-> n + 1]]
  /\ UNCHANGED <<server, task, born, pos, log, letGo, sink, ctl, stage, opener, cut, client>>

\* The replay fails: the new socket's writer has stopped.  The task keeps
\* whatever socket it had.
ReplayFails(s) ==
  /\ task[s] = "replaying" /\ todo[s].next <= Len(log[s]) /\ todo[s].k \in cut
  /\ task' = [task EXCEPT ![s] = "running"]
  /\ todo' = [todo EXCEPT ![s] = None]
  /\ UNCHANGED <<server, born, pos, log, letGo, sink, ctl, wires, client>>

ReplayDone(s) ==
  /\ task[s] = "replaying" /\ todo[s].next > Len(log[s])
  /\ task' = [task EXCEPT ![s] = "running"]
  /\ sink' = [sink EXCEPT ![s] = todo[s].k]
  /\ todo' = [todo EXCEPT ![s] = None]
  /\ UNCHANGED <<server, born, pos, log, letGo, ctl, wires, client>>

\* Mutant: any socket of the session detaches it (before #451).
DetachedByAny(s, k) == 0

\* Ctl::Detach: only the socket attached right now detaches the session (#451).
Detached(s, k) == IF sink[s] = k THEN 0 ELSE sink[s]

TakeDetach(s) ==
  LET c == Head(ctl[s]) IN
  /\ task[s] = "running" /\ ctl[s] # <<>> /\ c.op = "detach"
  /\ sink' = [sink EXCEPT ![s] = Detached(s, c.k)]
  /\ ctl' = [ctl EXCEPT ![s] = Tail(@)]
  /\ UNCHANGED <<server, task, born, pos, log, letGo, todo, wires, client>>

\* Ctl::Close: say unauthenticated on the attached socket, hang up, stop.
TakeClose(s) ==
  LET k == sink[s] IN
  /\ task[s] = "running" /\ ctl[s] # <<>> /\ Head(ctl[s]).op = "close"
  /\ \/ /\ k # 0 /\ Len(queue[k]) < QueueFrames
        /\ queue' = [queue EXCEPT ![k] =
             Append(@, InvalidFrame(s, "unauthenticated"))]
     \/ (k = 0 \/ k \in cut) /\ UNCHANGED queue
  /\ EndTask(s)
  /\ UNCHANGED <<server, stage, opener, cut, client>>

Task(s) ==
  \/ ReadBus(s) \/ Lag(s) \/ TakeAttach(s) \/ RefuseAttach(s) \/ ReplayOne(s)
  \/ ReplayFails(s) \/ ReplayDone(s) \/ TakeDetach(s) \/ TakeClose(s)
-----------------------------------------------------------------------------
(* The socket handlers (gateway/socket.rs)                                 *)

Refused(k, reason) ==
  queue' = [queue EXCEPT ![k] = Append(@, InvalidFrame(0, reason))]

\* The connection went before identify or resume came: the handshake times out.
HandshakeTimesOut(k) ==
  /\ stage[k] = "hello" /\ (k \in cut \/ conn # k)
  /\ stage' = [stage EXCEPT ![k] = "gone"]
  /\ UNCHANGED <<server, tasks, opener, queue, cut, client>>

\* Identify: the session is spawned, subscribed to the bus, and put in the map.
Identify(k) ==
  /\ stage[k] = "hello" /\ opener[k].op = "identify"
  /\ stage' = [stage EXCEPT ![k] = "spawned"]
  /\ task' = [task EXCEPT ![k] = "running"]
  /\ born' = [born EXCEPT ![k] = bus]
  /\ pos' = [pos EXCEPT ![k] = bus]
  /\ UNCHANGED <<server, log, letGo, sink, todo, ctl, opener, queue, cut, client>>

\* Mutant: the token's generation is never asked about (before #496).
StillSignedInAlways(k) == TRUE

\* Asked once the session is in the map: is the token from before a sign-in end?
StillSignedIn(k) == opener[k].gen = gen

CheckIdentify(k) ==
  /\ stage[k] = "spawned"
  /\ \/ /\ StillSignedIn(k)
        /\ stage' = [stage EXCEPT ![k] = "checked"]
        /\ UNCHANGED <<tasks, queue>>
     \/ /\ ~StillSignedIn(k)
        /\ stage' = [stage EXCEPT ![k] = "gone"]
        /\ EndTask(k)
        /\ Refused(k, "unauthenticated")
  /\ UNCHANGED <<server, opener, cut, client>>

Attach(s, k, from) == IF Running(s)
                      THEN [ctl EXCEPT ![s] = Append(@, Ctl("attach", k, from))]
                      ELSE ctl

\* Mutant: the snapshot is read before the session subscribes.
SnapshotFirst(k) ==
  /\ stage[k] = "checked"
  /\ stage' = [stage EXCEPT ![k] = "attaching"]
  /\ \E c \in 0..born[k] :
       queue' = [queue EXCEPT ![k] = Append(@, ReadyFrame(k, c))]
  /\ ctl' = Attach(k, k, 0)
  /\ UNCHANGED <<server, task, born, pos, log, letGo, sink, todo, opener, cut, client>>

\* The snapshot is read after the session subscribed; `ready` carries it, and the
\* socket is handed to its session.
SendReady(k) ==
  /\ stage[k] = "checked"
  /\ stage' = [stage EXCEPT ![k] = "attaching"]
  /\ queue' = [queue EXCEPT ![k] = Append(@, ReadyFrame(k, bus))]
  /\ ctl' = Attach(k, k, 0)
  /\ UNCHANGED <<server, task, born, pos, log, letGo, sink, todo, opener, cut, client>>

\* The connection is gone before `ready`: the handler gives up and leaves the
\* session behind, attached to nothing.
ReadyUnsent(k) ==
  /\ stage[k] = "checked" /\ (k \in cut \/ conn # k)
  /\ stage' = [stage EXCEPT ![k] = "gone"]
  /\ UNCHANGED <<server, tasks, opener, queue, cut, client>>

\* Resume: the token is checked first, then the session is looked up.
CheckResume(k) ==
  /\ stage[k] = "hello" /\ opener[k].op = "resume"
  /\ \/ /\ StillSignedIn(k)
        /\ stage' = [stage EXCEPT ![k] = "verified"]
        /\ UNCHANGED queue
     \/ /\ ~StillSignedIn(k)
        /\ stage' = [stage EXCEPT ![k] = "gone"]
        /\ Refused(k, "unauthenticated")
  /\ UNCHANGED <<server, tasks, opener, cut, client>>

LookUpResume(k) ==
  LET s == opener[k].sess IN
  /\ stage[k] = "verified"
  /\ \/ /\ Running(s)
        /\ stage' = [stage EXCEPT ![k] = "attaching"]
        /\ ctl' = Attach(s, k, opener[k].from)
        /\ UNCHANGED queue
     \/ /\ ~Running(s)
        /\ stage' = [stage EXCEPT ![k] = "gone"]
        /\ Refused(k, "expired")
        /\ UNCHANGED ctl
  /\ UNCHANGED <<server, task, born, pos, log, letGo, sink, todo, opener, cut, client>>

\* The session a socket is handed to: its own after identify.
SessionOf(k) == IF opener[k].op = "identify" THEN k ELSE opener[k].sess

\* The session said no, or ended with the request unanswered.
AttachRefused(k) ==
  /\ stage[k] = "attaching" /\ ~Running(SessionOf(k))
  /\ stage' = [stage EXCEPT ![k] = "gone"]
  /\ IF opener[k].op = "resume" THEN Refused(k, "expired") ELSE UNCHANGED queue
  /\ UNCHANGED <<server, tasks, opener, cut, client>>

\* The task no longer holds this socket: its closer fired or was dropped.
LetGoOf(k) == LET s == SessionOf(k) IN
  ~(Running(s) /\ (sink[s] = k \/ todo[s].k = k))

\* The reader loop ends: the session let the socket go, the connection died, or
\* the app closed it.  The session is told by Ctl::Detach.
SocketEnds(k) ==
  LET s == SessionOf(k) IN
  /\ stage[k] = "open"
  /\ LetGoOf(k) \/ k \in cut \/ conn # k
  /\ stage' = [stage EXCEPT ![k] = "gone"]
  /\ ctl' = IF Running(s) THEN [ctl EXCEPT ![s] = Append(@, Ctl("detach", k, 0))]
            ELSE ctl
  /\ UNCHANGED <<server, task, born, pos, log, letGo, sink, todo,
                 opener, queue, cut, client>>

\* A password change or a removal commits (auth.rs end_sign_ins) ...
EndSignIns ==
  /\ gen < MaxEnds /\ closed = gen
  /\ gen' = gen + 1
  /\ UNCHANGED <<bus, closed, tasks, wires, client>>

\* Mutant: the handler that ends the sign-ins leaves the sessions alone.
CloseSessionsForgotten ==
  /\ closed < gen /\ closed' = gen
  /\ UNCHANGED <<bus, gen, tasks, wires, client>>

\* ... and then closes every session in the map (close_sessions_for).
CloseSessions ==
  /\ closed < gen
  /\ closed' = gen
  /\ ctl' = [s \in Sockets |-> IF Running(s)
                               THEN Append(ctl[s], Ctl("close", 0, 0))
                               ELSE ctl[s]]
  /\ UNCHANGED <<bus, gen, task, born, pos, log, letGo, sink, todo, wires, client>>

Socket(k) ==
  \/ HandshakeTimesOut(k) \/ Identify(k) \/ CheckIdentify(k) \/ SendReady(k) \/ ReadyUnsent(k)
  \/ CheckResume(k) \/ LookUpResume(k) \/ AttachRefused(k) \/ SocketEnds(k)
-----------------------------------------------------------------------------
(* The app's gateway client (client/src-tauri/src/gateway.rs)              *)

\* Mutant: asks for the last frame again, and underflows before the first.
ResumeFromLast == last - 1

\* The last number the app has, which a resume starts after.
ResumeFrom == last

\* Runner::run connects, and Runner::session opens with resume if it holds a session.
Dial ==
  LET k == dials + 1 IN
  /\ runner = "on" /\ conn = 0 /\ token # NoToken /\ k \in Sockets
  /\ dials' = k /\ conn' = k
  /\ stage' = [stage EXCEPT ![k] = "hello"]
  /\ opener' = [opener EXCEPT ![k] =
       [op |-> IF session # 0 THEN "resume" ELSE "identify",
        sess |-> session, from |-> ResumeFrom, gen |-> token]]
  /\ UNCHANGED <<server, tasks, queue, cut, runner, session, last, token, knows>>

\* Outcome::Restart: the session is forgotten.
Restart == conn' = 0 /\ session' = 0 /\ last' = 0 /\ UNCHANGED token

\* Outcome::Reauth: the token is forgotten.
Reauth == conn' = 0 /\ token' = NoToken /\ UNCHANGED <<session, last>>

ApplyReady(f) ==
  /\ f.op = "ready"
  /\ session' = f.sess /\ last' = 0
  /\ knows' = Visible(f.snap)
  /\ UNCHANGED <<conn, token>>

\* A connection opened to resume starts over whatever the reason.
ApplyInvalid(f) ==
  /\ f.op = "invalid"
  /\ \/ opener[conn].op # "resume" /\ f.reason = "unauthenticated" /\ Reauth
     \/ (opener[conn].op = "resume" \/ f.reason # "unauthenticated") /\ Restart
  /\ UNCHANGED knows

\* Before ready a numbered frame is dropped; after it, one already had is ignored,
\* one past the next number means a hole, and only the next is taken.
ApplyEvent(f) ==
  /\ f.op = "event"
  /\ \/ /\ session = 0 \/ f.n <= last
        /\ UNCHANGED <<conn, session, last, token, knows>>
     \/ /\ session # 0 /\ f.n > last + 1
        /\ Restart /\ UNCHANGED knows
     \/ /\ session # 0 /\ f.n = last + 1
        /\ last' = f.n /\ knows' = knows \union {f.e}
        /\ UNCHANGED <<conn, session, token>>

ApplyResumed(f) == f.op = "resumed" /\ UNCHANGED <<conn, session, last, token, knows>>

\* apply: fold one incoming frame into the session.
Receive ==
  /\ conn # 0 /\ conn \notin cut /\ queue[conn] # <<>>
  /\ queue' = [queue EXCEPT ![conn] = Tail(@)]
  /\ LET f == Head(queue[conn])
     IN ApplyReady(f) \/ ApplyInvalid(f) \/ ApplyEvent(f) \/ ApplyResumed(f)
  /\ UNCHANGED <<server, tasks, stage, opener, cut, runner, dials>>

\* Outcome::Dropped: the socket died, or the server closed it behind its last frame.
Dropped ==
  /\ conn # 0 /\ (conn \in cut \/ (stage[conn] = "gone" /\ queue[conn] = <<>>))
  /\ conn' = 0
  /\ UNCHANGED <<server, tasks, wires, runner, session, last, token, dials, knows>>

\* The frontend hands over a token from a fresh sign-in or refresh.
SetToken ==
  /\ runner = "on" /\ token # gen
  /\ token' = gen
  /\ UNCHANGED <<server, tasks, wires, runner, conn, session, last, dials, knows>>

\* Cmd::Shutdown: the app says goodbye and stops.
Shutdown ==
  /\ runner = "on"
  /\ runner' = "off" /\ conn' = 0
  /\ UNCHANGED <<server, tasks, wires, session, last, token, dials, knows>>

\* The network cuts a connection: nothing more crosses it, and each end finds out
\* in its own time.
Cut ==
  /\ Cardinality(cut) < MaxCuts /\ conn # 0
  /\ cut' = cut \union {conn}
  /\ UNCHANGED <<server, tasks, stage, opener, queue, client>>
-----------------------------------------------------------------------------
\* What keeps going by itself: the server's tasks and handlers and the app's loop.
Progress ==
  \/ \E s \in Sockets : Task(s) \/ Socket(s)
  \/ CloseSessions \/ Dial \/ Receive \/ Dropped

Environment ==
  \/ Publish \/ EndSignIns \/ Cut \/ Shutdown \/ SetToken
  \/ \E s \in Sockets : WindowCloses(s)

Next == Progress \/ Environment

Spec == Init /\ [][Next]_vars

FairSpec == Spec /\ WF_vars(Progress)
-----------------------------------------------------------------------------
(* Properties                                                              *)

Frames == [op : {"event"}, sess : Sockets, n : Nat, e : Nat]
          \union [op : {"ready"}, sess : Sockets, snap : Nat]
          \union [op : {"resumed"}, sess : Sockets]
          \union [op : {"invalid"}, sess : Sockets \union {0},
                  reason : {"unauthenticated", "expired"}]
Controls == [op : {"attach", "detach", "close"}, k : Sockets \union {0}, from : Nat]

TypeServer == bus \in Nat /\ gen \in Nat /\ closed \in Nat

TypeTasks ==
  /\ task \in [Sockets -> {"none", "running", "replaying", "ended"}]
  /\ born \in [Sockets -> Nat] /\ pos \in [Sockets -> Nat]
  /\ log \in [Sockets -> Seq(Nat)]
  /\ letGo \in [Sockets -> Nat]
  /\ sink \in [Sockets -> Sockets \union {0}]
  /\ todo \in [Sockets -> [k : Sockets \union {0}, next : Nat \ {0}]]
  /\ ctl \in [Sockets -> Seq(Controls)]

TypeWires ==
  /\ stage \in [Sockets -> {"free", "hello", "spawned", "checked", "verified",
                            "attaching", "open", "gone"}]
  /\ opener \in [Sockets -> [op : {"none", "identify", "resume"},
                             sess : Sockets \union {0}, from : Nat, gen : Nat]]
  /\ queue \in [Sockets -> Seq(Frames)]
  /\ cut \subseteq Sockets

TypeClient ==
  /\ runner \in {"on", "off"}
  /\ conn \in Sockets \union {0} /\ session \in Sockets \union {0}
  /\ last \in Nat /\ token \in Nat
  /\ dials \in Sockets \union {0}
  /\ knows \subseteq Nat

\* The shape of the state: what the server keeps per session and per socket, and
\* what the app's Runner keeps.
TypeOK == TypeServer /\ TypeTasks /\ TypeWires /\ TypeClient

\* What the app has of its person's feed is whole: whatever was cut, resumed,
\* lapped or replayed, having an event means having every visible one before it.
NoGap ==
  /\ knows \subseteq Visible(bus)
  /\ \A e \in knows : Visible(e) \subseteq knows

\* The numbered frames of q run on from number l: each carries the number after that
\* of the numbered frame before it, and the first of them carries l + 1.
RunsOn(q, l) ==
  \A i \in DOMAIN q : q[i].op = "event" =>
    /\ l < q[i].n
    /\ \A j \in 1..(i - 1) : q[j].op = "event" => q[j].n < q[i].n
    /\ \A m \in (l + 1)..(q[i].n - 1) :
         \E j \in 1..(i - 1) : q[j].op = "event" /\ q[j].n = m

\* PROTOCOL's promise of a resume, as the app's apply() needs it: the numbers on
\* their way to it run on from the last it took, with no hole and no duplicate, so
\* its `sequence gap` branch never fires.
WholeReplay == conn # 0 => RunsOn(queue[conn], last)

\* The session has been told to close, and not got to it yet.
CloseComing(s) == \E i \in DOMAIN ctl[s] : ctl[s][i].op = "close"

\* Once the sessions of an ended sign-in have been closed, no session goes on
\* serving a socket that was opened with a token from before it (#496): its Close
\* is in its control channel, or it has ended.
SignedOutStaysOut ==
  \A k \in Sockets :
    stage[k] \in {"checked", "attaching", "open"} /\ opener[k].gen < gen =>
      \/ closed < gen
      \/ ~Running(SessionOf(k))
      \/ CloseComing(SessionOf(k))

\* Only the socket attached right now detaches its session (#451): a session that
\* goes on running lets a socket go because that socket ended, was cut or was too
\* slow, or because a newer socket of the same session replaced it.
OnlyCurrentDetaches ==
  [][\A s \in Sockets :
       LET k == sink[s] IN
       k # 0 /\ sink'[s] # k /\ Running(s) /\ Running(s)' =>
         \/ stage[k] = "gone" \/ k \in cut \/ Len(queue[k]) >= QueueFrames
         \/ sink'[s] # 0 /\ sink'[s] = todo[s].k]_vars

\* The feed as this app has it: what was published, and what it knows of it.
Promise == INSTANCE Feed WITH MaxFrames <- MaxFrames, Hidden <- Hidden, bus <- bus, knows <- knows

\* The gateway, end to end, implements the feed: the app only moves forward, to
\* whole prefixes of what was published for its person.
ImplementsFeed == Promise!Spec

\* The bound on sockets is used up: nothing is left for the app to dial.
OutOfSockets == dials = MaxSockets /\ conn = 0

\* When events stop and the network holds, the app ends up with everything, or is
\* told it is signed out and waits for a token: it never sits behind silently.
CatchesUp ==
  <>[](\/ runner = "off" \/ token = NoToken \/ OutOfSockets
       \/ conn # 0 /\ knows = Visible(bus))

\* An app left with a token from before a sign-in end is told: it never goes on as
\* if signed in, nor reconnects into a locked door forever.  It asks for a token
\* (or has been given one).
SignOutReaches ==
  runner = "on" /\ token < gen ~> runner = "off" \/ token >= gen \/ OutOfSockets
=============================================================================
