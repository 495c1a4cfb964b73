----------------------------- MODULE PageVoice -----------------------------
(***************************************************************************)
(* Being in voice, on a phone and one server: the seat as the page's store *)
(* has it (myVoice in lib/gateway.ts), the phone's voice engine, which     *)
(* holds the microphone (lib/pageVoice.ts), and the seat as the server has *)
(* it.  Joining takes several awaits, during which the seat may be left,   *)
(* taken away or lost with its session, and mute and deafen pressed.       *)
(*                                                                         *)
(* A frame the page sends reaches the server at once, or not at all; what  *)
(* the server sends is folded in order, later.  What the connection of a   *)
(* call does is PhoneCall's.  Several servers, push-to-talk (a phone has   *)
(* none), volumes and sounds are left out.                                 *)
(***************************************************************************)
EXTENDS Integers, Sequences

CONSTANTS VoiceRooms,   \* rooms with voice
          MaxJoins,     \* bound: joins begun
          MaxPresses,   \* bound: presses of Mute and Deafen
          MaxLists,     \* bound: lists sent because somebody else came or went
          MaxDrops,     \* bound: times the socket drops, or the server is left
          Crossing      \* bound: whether a join may begin while another is on its way

NoVoice == "no room"
Unmuted == [muted |-> FALSE, deafened |-> FALSE]

ASSUME PageVoiceAssumption ==
  /\ {MaxJoins, MaxPresses, MaxLists, MaxDrops} \subseteq Nat
  /\ Crossing \in BOOLEAN /\ NoVoice \notin VoiceRooms

VARIABLES
  \* the server
  taken,      \* the room this session has a seat in
  told,       \* the controls the room was told
  inbox,      \* its frames on their way, kept over a drop
  socket,     \* whether frames get through
  lost,       \* history: a frame of this session did not get through, or was refused
  \* the page
  linked, known,  \* whether it follows the server, and knows its session (sessionId)
  seat,       \* myVoice
  joins,      \* calls of joinVoice on their way
  leaves,     \* calls of leaveVoice on their way: how many changes each waits for
  changes,    \* controlQueues: the changes queued, the first under way
  applying,   \* what the change under way makes of the seat, once the engine has it
  \* the engine's Call
  callRoom, callControls, callMic,
  mics,       \* the microphone's streams open
  begun, presses, lists, drops

serverSide == <<taken, told, inbox, socket, lost>>
store == <<linked, known, seat, joins, leaves, changes, applying>>
engine == <<callRoom, callControls, callMic, mics>>
bounds == <<begun, presses, lists, drops>>
voiceVars == <<serverSide, store, engine, bounds>>

NoSeat == [room |-> NoVoice, muted |-> FALSE, deafened |-> FALSE, before |-> FALSE]
Controls(s) == [muted |-> s.muted, deafened |-> s.deafened]

Init ==
  /\ taken = NoVoice /\ told = Unmuted /\ inbox = <<>> /\ socket = TRUE /\ lost = FALSE
  /\ linked = TRUE /\ known = TRUE /\ seat = NoSeat /\ joins = {} /\ leaves = <<>>
  /\ changes = <<>> /\ applying = NoSeat
  /\ callRoom = NoVoice /\ callControls = Unmuted /\ callMic = 0 /\ mics = {}
  /\ begun = 0 /\ presses = 0 /\ lists = 0 /\ drops = 0
-----------------------------------------------------------------------------
(* The server                                                              *)

\* voice.state of a room, with us in it or not, as it is when it is sent.
State(r, seated) == [op |-> "state", room |-> r, us |-> seated]
Removed(r) == [op |-> "removed", room |-> r, us |-> FALSE]
ReadyFrame == [op |-> "ready", room |-> NoVoice, us |-> FALSE]

\* voice.join taken: moving leaves the old room; both rooms are told.  Or it is refused
\* (a full room, a rate limit), which gets no answer; or there is no socket.
SendJoin(r, controls) ==
  \/ /\ socket
     /\ taken' = r /\ told' = controls
     /\ inbox' = inbox \o (IF taken \in {r, NoVoice} THEN <<>> ELSE <<State(taken, FALSE)>>)
                       \o <<State(r, TRUE)>>
     /\ UNCHANGED <<socket, lost>>
  \/ lost' = TRUE /\ UNCHANGED <<taken, told, inbox, socket>>

\* voice.leave, with the frames `in` on their way.
SendLeave(in) ==
  IF socket
  THEN /\ taken' = NoVoice
       /\ inbox' = IF taken = NoVoice THEN in ELSE Append(in, State(taken, FALSE))
       /\ UNCHANGED <<told, socket, lost>>
  ELSE inbox' = in /\ lost' = (lost \/ taken # NoVoice) /\ UNCHANGED <<taken, told, socket>>

SomebodyElse(r) ==
  /\ linked /\ lists < MaxLists /\ lists' = lists + 1
  /\ inbox' = Append(inbox, State(r, taken = r))
  /\ UNCHANGED <<taken, told, socket, lost, store, engine, begun, presses, drops>>

\* The host takes this session out of voice.
TakeOut ==
  /\ taken # NoVoice /\ lists < MaxLists /\ lists' = lists + 1
  /\ inbox' = inbox \o <<Removed(taken), State(taken, FALSE)>>
  /\ taken' = NoVoice
  /\ UNCHANGED <<told, socket, lost, store, engine, begun, presses, drops>>

Drop ==
  /\ linked /\ socket /\ drops < MaxDrops /\ drops' = drops + 1 /\ socket' = FALSE
  /\ UNCHANGED <<taken, told, inbox, lost, store, engine, begun, presses, lists>>

\* The session is resumed, and what it missed replayed.
Resume ==
  /\ linked /\ ~socket /\ socket' = TRUE
  /\ UNCHANGED <<taken, told, inbox, lost, store, engine, bounds>>

\* A new session: the old one's seat is gone.
Fresh == taken' = NoVoice /\ inbox' = <<ReadyFrame>> /\ socket' = TRUE /\ lost' = FALSE

StartOver ==
  /\ linked /\ ~socket /\ Fresh
  /\ UNCHANGED <<told, store, engine, bounds>>
-----------------------------------------------------------------------------
(* The engine                                                              *)

\* hangUp: the microphone off.
HangUp == mics' = mics \ {callMic} /\ callMic' = 0 /\ callRoom' = NoVoice

\* leave: everything closed, whether or not the server answers.
EngineLeave(in) == SendLeave(in) /\ HangUp /\ UNCHANGED callControls

\* Mutant: the controls reach only a call that is under way.
SetInCall(c) ==
  /\ IF callRoom # NoVoice THEN callControls' = c /\ SendJoin(callRoom, c)
     ELSE UNCHANGED <<callControls, serverSide>>
  /\ UNCHANGED <<callRoom, callMic, mics>>

\* setControls: applied here, and told to the room if they changed and there is one.
SetControls(c) ==
  LET next == [muted |-> c.muted \/ c.deafened, deafened |-> c.deafened] IN
  /\ callControls' = next
  /\ IF next # callControls /\ callRoom # NoVoice THEN SendJoin(callRoom, next)
     ELSE UNCHANGED serverSide
  /\ UNCHANGED <<callRoom, callMic, mics>>
-----------------------------------------------------------------------------
(* Joining                                                                 *)

\* joinVoice: it waits for the changes queued now.
JoinVoice(r) ==
  /\ linked /\ begun < MaxJoins /\ begun' = begun + 1
  /\ Crossing \/ joins = {}
  /\ joins' = joins \union {[id |-> begun', pc |-> "queue", room |-> r, left |-> Len(changes), previous |-> NoSeat]}
  /\ UNCHANGED <<serverSide, linked, known, seat, leaves, changes, applying, engine, presses, lists, drops>>

Goes(j, pc, left) == joins' = (joins \ {j}) \union {[j EXCEPT !.pc = pc, !.left = left]}
Ends(j) == joins' = joins \ {j}

\* The seat is taken in the store, with the mute and deafen of the one before, which
\* the engine is given first.
TakeSeat(j, previous) ==
  LET muted == previous.deafened \/ previous.muted IN
  /\ seat' = [previous EXCEPT !.room = j.room, !.muted = muted]
  /\ SetControls([muted |-> muted, deafened |-> previous.deafened])
  /\ Goes(j, "ice", 0)
  /\ UNCHANGED leaves

\* A seat elsewhere is given up first, by leaveVoice.
JoinBegins(j) ==
  /\ j \in joins /\ j.pc = "queue" /\ j.left = 0
  /\ \/ /\ ~known \/ seat.room = j.room
        /\ Ends(j) /\ UNCHANGED <<seat, leaves, serverSide, engine>>
     \/ /\ known /\ seat.room \notin {j.room, NoVoice}
        /\ seat' = NoSeat
        /\ joins' = (joins \ {j}) \union
                    {[j EXCEPT !.pc = "leaving", !.left = Len(changes), !.previous = seat]}
        /\ UNCHANGED <<leaves, serverSide, engine>>
     \/ known /\ seat = NoSeat /\ TakeSeat(j, NoSeat)
  /\ UNCHANGED <<linked, known, changes, applying, bounds>>

JoinLeaves(j) ==
  /\ j \in joins /\ j.pc = "leaving" /\ j.left = 0
  /\ EngineLeave(inbox) /\ Goes(j, "left", 0)
  /\ UNCHANGED <<linked, known, seat, leaves, changes, applying, bounds>>

JoinGoesOn(j) ==
  /\ j \in joins /\ j.pc = "left"
  /\ TakeSeat(j, j.previous)
  /\ UNCHANGED <<linked, known, changes, applying, bounds>>

\* The relay's addresses are here, or not: the engine joins, hanging up what it has.
IceAnswers(j) ==
  /\ j \in joins /\ j.pc = "ice"
  /\ IF callRoom # NoVoice THEN HangUp ELSE UNCHANGED <<callRoom, callMic, mics>>
  /\ Goes(j, "mic", 0)
  /\ UNCHANGED <<serverSide, linked, known, seat, leaves, changes, applying, callControls, bounds>>

\* The microphone is open, and the join is sent.  Streams are named by the join.
MicrophoneOpens(j) ==
  /\ j \in joins /\ j.pc = "mic"
  /\ callMic' = j.id /\ mics' = mics \union {j.id} /\ callRoom' = j.room
  /\ SendJoin(j.room, callControls)
  /\ Goes(j, "sent", 0)
  /\ UNCHANGED <<linked, known, seat, leaves, changes, applying, callControls, bounds>>

MicrophoneRefused(j) ==
  /\ j \in joins /\ j.pc = "mic"
  /\ seat' = NoSeat /\ Ends(j)
  /\ UNCHANGED <<serverSide, linked, known, leaves, changes, applying, engine, bounds>>

\* Mutant: a join doesn't look whether its seat is still there.
KeepsSeat == TRUE

\* Whether there is a seat to keep once the engine has joined.
StillSeated == seat # NoSeat

\* The engine has joined: with the seat ended meanwhile, it lets go.
JoinEnds(j) ==
  /\ j \in joins /\ j.pc = "sent" /\ Ends(j)
  /\ IF StillSeated THEN UNCHANGED <<serverSide, engine>> ELSE EngineLeave(inbox)
  /\ UNCHANGED <<linked, known, seat, leaves, changes, applying, bounds>>
-----------------------------------------------------------------------------
(* Leaving, and the controls                                               *)

\* leaveVoice, by Leave: the seat goes at once, the engine after the changes queued.
LeaveVoice ==
  /\ seat # NoSeat /\ seat' = NoSeat
  /\ leaves' = Append(leaves, Len(changes))
  /\ UNCHANGED <<serverSide, linked, known, joins, changes, applying, engine, bounds>>

LeaveGoes ==
  /\ leaves # <<>> /\ Head(leaves) = 0 /\ leaves' = Tail(leaves)
  /\ EngineLeave(inbox)
  /\ UNCHANGED <<linked, known, seat, joins, changes, applying, bounds>>

\* setVoiceMuted and setVoiceDeafened: what each makes of the seat.
Changed(s, c) ==
  CASE c.control = "mute" -> IF s.deafened THEN s ELSE [s EXCEPT !.muted = c.on]
    [] c.control = "deafen" /\ s.deafened = c.on -> s
    [] OTHER -> [s EXCEPT !.deafened = c.on, !.before = IF c.on THEN s.muted ELSE s.before,
                          !.muted = c.on \/ s.before]

Press(c) ==
  /\ seat # NoSeat /\ presses < MaxPresses /\ presses' = presses + 1
  /\ changes' = Append(changes, c)
  /\ UNCHANGED <<serverSide, linked, known, seat, joins, leaves, applying, engine, begun, lists, drops>>

\* Mutant: a change that ends is taken off the queue for every one who waits for it.
ChangeEndsTwice ==
  /\ changes' = Tail(changes) /\ applying' = NoSeat
  /\ joins' = {[j EXCEPT !.left = @ - 1] : j \in joins}
  /\ leaves' = [i \in DOMAIN leaves |-> leaves[i] - 1]

\* The change under way is over: what waited for it waits for one fewer.
ChangeEnds ==
  LET Fewer(n) == IF n > 0 THEN n - 1 ELSE 0 IN
  /\ changes' = Tail(changes) /\ applying' = NoSeat
  /\ joins' = {[j EXCEPT !.left = Fewer(@)] : j \in joins}
  /\ leaves' = [i \in DOMAIN leaves |-> Fewer(leaves[i])]

\* changeVoiceControls: the next change starts, and the engine is given it.
ChangeStarts ==
  LET next == Changed(seat, Head(changes)) IN
  /\ changes # <<>> /\ applying = NoSeat
  /\ IF seat = NoSeat \/ next = seat
     THEN ChangeEnds /\ UNCHANGED <<seat, serverSide, engine>>
     ELSE /\ applying' = next /\ SetControls(Controls(next))
          /\ UNCHANGED <<seat, changes, joins, leaves>>
  /\ UNCHANGED <<linked, known, bounds>>

\* The engine has it: shown, if there is a seat.
ChangeApplied ==
  /\ applying # NoSeat /\ ChangeEnds
  /\ seat' = IF seat = NoSeat THEN seat ELSE [applying EXCEPT !.room = seat.room]
  /\ UNCHANGED <<serverSide, linked, known, engine, bounds>>

\* The call failed: voice is left, rather than guessing whether it was muted.
ChangeFails ==
  /\ applying # NoSeat /\ ChangeEnds
  /\ seat' = NoSeat /\ EngineLeave(inbox)
  /\ UNCHANGED <<linked, known, bounds>>
-----------------------------------------------------------------------------
(* Following the server                                                    *)

\* apply: whether a frame ends the seat.
EndsSeat(f) ==
  f.op = "ready" \/ (f.room = seat.room /\ ~f.us)

\* Mutant: the engine isn't told of a seat that a frame ended.
LetGoUntold(in) == inbox' = in /\ UNCHANGED <<taken, told, socket, lost, engine>>

\* letGoOfVoice, with the frames `in` still to come.
LetGo(in) == EngineLeave(in)

\* The listener: the frame is folded, and the engine lets go of a seat it ended.
Hear ==
  LET f == Head(inbox) rest == Tail(inbox) IN
  /\ linked /\ socket /\ inbox # <<>>
  /\ known' = (known \/ f.op = "ready")
  /\ IF seat # NoSeat /\ EndsSeat(f)
     THEN seat' = NoSeat /\ LetGo(rest)
     ELSE inbox' = rest /\ UNCHANGED <<taken, told, socket, lost, seat, engine>>
  /\ UNCHANGED <<linked, joins, leaves, changes, applying, bounds>>

\* close: the seat is let go of before the connection ends, and the session with it.
Close ==
  /\ linked /\ drops < MaxDrops /\ drops' = drops + 1
  /\ linked' = FALSE /\ known' = FALSE /\ seat' = NoSeat
  /\ IF seat # NoSeat THEN HangUp ELSE UNCHANGED <<callRoom, callMic, mics>>
  /\ taken' = NoVoice /\ inbox' = <<>> /\ socket' = FALSE /\ lost' = FALSE
  /\ UNCHANGED <<told, joins, leaves, changes, applying, callControls, begun, presses, lists>>

\* open: following the server again.
Connect ==
  /\ ~linked /\ linked' = TRUE /\ Fresh
  /\ UNCHANGED <<told, known, seat, joins, leaves, changes, applying, engine, bounds>>
-----------------------------------------------------------------------------
\* What runs before the page looks at anything else: the code after an await that is over.
Continues ==
  \/ ChangeStarts \/ LeaveGoes
  \/ \E j \in joins : JoinBegins(j) \/ JoinLeaves(j)

Waiting ==
  /\ changes # <<>> => applying # NoSeat
  /\ leaves # <<>> => Head(leaves) # 0
  /\ \A j \in joins : j.pc \in {"queue", "leaving"} => j.left # 0

\* What the person, the engine and the network do while the page waits.
Happens ==
  /\ Waiting
  /\ \/ \E r \in VoiceRooms : JoinVoice(r) \/ SomebodyElse(r)
     \/ \E j \in joins : \/ JoinGoesOn(j) \/ IceAnswers(j) \/ MicrophoneOpens(j)
                         \/ MicrophoneRefused(j) \/ JoinEnds(j)
     \/ \E c \in [control : {"mute", "deafen"}, on : BOOLEAN] : Press(c)
     \/ LeaveVoice \/ ChangeApplied \/ ChangeFails
     \/ TakeOut \/ Drop \/ Resume \/ StartOver \/ Hear \/ Close \/ Connect

Next == Continues \/ Happens

Spec == Init /\ [][Next]_voiceVars
-----------------------------------------------------------------------------
(* Properties                                                              *)

Seats == [room : VoiceRooms \union {NoVoice}, muted : BOOLEAN, deafened : BOOLEAN, before : BOOLEAN]

TypeOK ==
  /\ {taken, callRoom} \subseteq VoiceRooms \union {NoVoice}
  /\ {told, callControls} \subseteq [muted : BOOLEAN, deafened : BOOLEAN]
  /\ inbox \in Seq([op : {"state", "removed", "ready"}, room : VoiceRooms \union {NoVoice}, us : BOOLEAN])
  /\ {socket, lost, linked, known} \subseteq BOOLEAN
  /\ {seat, applying} \subseteq Seats
  /\ joins \subseteq [id : 1..MaxJoins, pc : {"queue", "leaving", "left", "ice", "mic", "sent"},
                     room : VoiceRooms, left : Nat, previous : Seats]
  /\ leaves \in Seq(Nat) /\ changes \in Seq([control : {"mute", "deafen"}, on : BOOLEAN])
  /\ callMic \in 0..MaxJoins /\ mics \subseteq 1..MaxJoins
  /\ {begun, presses, lists, drops} \subseteq Nat

\* No call of the page's is on its way.
Idle == joins = {} /\ leaves = <<>> /\ changes = <<>>

\* "A microphone left open after the server has said you are gone": however a seat ended,
\* by Leave, by a frame, by signing out or half-way through a join, nothing the engine
\* opened stays open.
MicrophoneEnds ==
  Idle => mics \subseteq {callMic} /\ (seat = NoSeat => mics = {})

\* Once everything has arrived, the page, the engine and the server agree on the room and
\* on what the room is told of the microphone, unless a frame did not get through.
SeatsAgree ==
  Idle /\ linked /\ socket /\ inbox = <<>> /\ ~lost =>
    /\ taken = seat.room /\ callRoom = seat.room
    /\ seat # NoSeat => told = Controls(seat) /\ callMic # 0

\* A seat that shows muted sends silence, unless it is just being unmuted: also one taken
\* over from another room, and one muted while it was still opening.
MutedIsSilent == seat.muted /\ applying = NoSeat => callControls.muted
=============================================================================
