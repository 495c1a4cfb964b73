-------------------------- MODULE PageVoice_proofs --------------------------
(***************************************************************************)
(* What is proved of PageVoice, for any rooms and any bounds: its type     *)
(* invariant, and, of a page on which one join is under way at a time,     *)
(* that a microphone never outlives its seat, that a muted seat is silent, *)
(* and that page, engine and server agree once everything has arrived.     *)
(***************************************************************************)
EXTENDS PageVoice, Functions, TLAPS

Rooms == VoiceRooms \union {NoVoice}
ControlValues == [muted : BOOLEAN, deafened : BOOLEAN]
InFrames == [op : {"state", "removed", "ready"}, room : Rooms, us : BOOLEAN]
Presses == [control : {"mute", "deafen"}, on : BOOLEAN]
Joins == [id : 1..MaxJoins, pc : {"queue", "leaving", "left", "ice", "mic", "sent"},
          room : VoiceRooms, left : Nat, previous : Seats]
-----------------------------------------------------------------------------
(* Sequences, and what the page's values are                               *)

\* What a queue holds once a frame has been put behind it ...
LEMMA HeldMore ==
  ASSUME NEW q \in Seq(InFrames), NEW x \in InFrames
  PROVE  /\ Append(q, x) \in Seq(InFrames) /\ Range(Append(q, x)) = Range(q) \union {x}
         /\ q \o <<x>> \in Seq(InFrames) /\ Range(q \o <<x>>) = Range(q) \union {x}
<1>1. /\ Append(q, x) \in Seq(InFrames) /\ Len(Append(q, x)) = Len(q) + 1
      /\ Append(q, x)[Len(q) + 1] = x
      /\ \A i \in 1..Len(q) : Append(q, x)[i] = q[i]
  OBVIOUS
<1>2. DOMAIN Append(q, x) = DOMAIN q \union {Len(q) + 1} /\ DOMAIN q = 1..Len(q)
  BY <1>1
<1>3. Range(Append(q, x)) = Range(q) \union {x}
  BY <1>1, <1>2 DEF Range
<1>4. q \o <<x>> = Append(q, x)
  OBVIOUS
<1> QED
  BY <1>1, <1>3, <1>4

\* ... and once its first is gone.
LEMMA HeldLess ==
  ASSUME NEW q \in Seq(InFrames), q # <<>>
  PROVE  /\ Head(q) \in InFrames /\ Tail(q) \in Seq(InFrames)
         /\ Range(q) = Range(Tail(q)) \union {Head(q)}
<1>1. /\ Head(q) = q[1] /\ Head(q) \in InFrames /\ Tail(q) \in Seq(InFrames)
      /\ Len(Tail(q)) = Len(q) - 1 /\ Len(q) \in Nat /\ 1 <= Len(q)
      /\ \A i \in 1..(Len(q) - 1) : Tail(q)[i] = q[i + 1]
  OBVIOUS
<1>2. DOMAIN Tail(q) = 1..(Len(q) - 1) /\ DOMAIN q = 1..Len(q)
  BY <1>1
<1>3. \A i \in DOMAIN q : i = 1 \/ (i - 1 \in DOMAIN Tail(q) /\ q[i] = Tail(q)[i - 1])
  BY <1>1, <1>2
<1>4. \A i \in DOMAIN Tail(q) : i + 1 \in DOMAIN q /\ Tail(q)[i] = q[i + 1]
  BY <1>1, <1>2
<1>5. 1 \in DOMAIN q
  BY <1>1, <1>2
<1> QED
  BY <1>1, <1>3, <1>4, <1>5 DEF Range

\* The values the page and the server deal in are of their types, and a press keeps the
\* room, and a deafened seat muted.
LEMMA Values ==
  /\ Unmuted \in ControlValues /\ NoSeat \in Seats /\ NoVoice \notin VoiceRooms
  /\ \A s \in Seats : Controls(s) \in ControlValues
  /\ \A r \in Rooms, us \in BOOLEAN : State(r, us) \in InFrames
  /\ \A r \in Rooms : Removed(r) \in InFrames
  /\ ReadyFrame \in InFrames
<1> USE DEF Rooms, Seats, InFrames, ControlValues
<1>1. \A r \in Rooms, us \in BOOLEAN : State(r, us) \in InFrames
  BY DEF State
<1>2. \A r \in Rooms : Removed(r) \in InFrames
  BY DEF Removed
<1>3. ReadyFrame \in InFrames
  BY DEF ReadyFrame
<1> QED
  BY <1>1, <1>2, <1>3, PageVoiceAssumption DEF Unmuted, NoSeat, Controls

\* What a press makes of a seat: it stays in its room, and a deafened one stays muted.
LEMMA Pressed ==
  ASSUME NEW s \in Seats, NEW c \in Presses
  PROVE  /\ Changed(s, c) \in Seats /\ Changed(s, c).room = s.room
         /\ (s.deafened => s.muted) => (Changed(s, c).deafened => Changed(s, c).muted)
<1>1. CASE c.control = "mute"
  <2>1. Changed(s, c) = IF s.deafened THEN s ELSE [s EXCEPT !.muted = c.on]
    BY <1>1 DEF Changed
  <2> QED
    BY <2>1 DEF Seats, Presses
<1>2. CASE c.control = "deafen" /\ s.deafened = c.on
  <2>1. Changed(s, c) = s
    BY <1>2 DEF Changed
  <2> QED
    BY <2>1
<1>3. CASE c.control = "deafen" /\ s.deafened # c.on
  <2>1. Changed(s, c) = [s EXCEPT !.deafened = c.on, !.before = IF c.on THEN s.muted ELSE s.before,
                                  !.muted = c.on \/ s.before]
    BY <1>3 DEF Changed
  <2> QED
    BY <1>3, <2>1 DEF Seats, Presses
<1> QED
  BY <1>1, <1>2, <1>3 DEF Presses

\* The server's side of the type invariant.
TypeSide ==
  /\ taken \in Rooms /\ told \in ControlValues /\ inbox \in Seq(InFrames)
  /\ socket \in BOOLEAN /\ lost \in BOOLEAN

\* A join sent: taken, with every frame of before still coming and the room left told,
\* or lost.
LEMMA JoinSent ==
  ASSUME TypeSide, NEW r \in VoiceRooms, NEW c \in ControlValues, SendJoin(r, c)
  PROVE  /\ TypeSide' /\ socket' = socket
         /\ Range(inbox) \subseteq Range(inbox')
         /\ \/ /\ taken' = r /\ told' = c /\ lost' = lost
               /\ taken \notin {r, NoVoice} => State(taken, FALSE) \in Range(inbox')
            \/ lost' = TRUE /\ taken' = taken /\ told' = told
<1>1. CASE lost' = TRUE /\ UNCHANGED <<taken, told, inbox, socket>>
  BY <1>1 DEF TypeSide
<1>2. CASE /\ taken' = r /\ told' = c /\ UNCHANGED <<socket, lost>>
           /\ inbox' = inbox \o (IF taken \in {r, NoVoice} THEN <<>> ELSE <<State(taken, FALSE)>>)
                             \o <<State(r, TRUE)>>
  <2>1. State(r, TRUE) \in InFrames /\ State(taken, FALSE) \in InFrames /\ r \in Rooms
    BY Values DEF Rooms, TypeSide
  <2>2. inbox \in Seq(InFrames)
    BY DEF TypeSide
  <2>3. CASE taken \in {r, NoVoice}
    <3>1. inbox' = inbox \o <<State(r, TRUE)>>
      BY <1>2, <2>2, <2>3
    <3>2. inbox' \in Seq(InFrames) /\ Range(inbox') = Range(inbox) \union {State(r, TRUE)}
      BY <2>1, <2>2, <3>1, HeldMore
    <3> QED
      BY <1>2, <2>1, <2>3, <3>2 DEF TypeSide
  <2>4. CASE taken \notin {r, NoVoice}
    <3> DEFINE p == inbox \o <<State(taken, FALSE)>>
    <3>1. inbox' = p \o <<State(r, TRUE)>>
      BY <1>2, <2>4
    <3>2. p \in Seq(InFrames) /\ Range(p) = Range(inbox) \union {State(taken, FALSE)}
      BY <2>1, <2>2, HeldMore
    <3> HIDE DEF p
    <3>3. inbox' \in Seq(InFrames) /\ Range(inbox') = Range(p) \union {State(r, TRUE)}
      BY <2>1, <3>1, <3>2, HeldMore
    <3> QED
      BY <1>2, <2>1, <3>2, <3>3 DEF TypeSide
  <2> QED
    BY <2>3, <2>4
<1> QED
  BY <1>1, <1>2 DEF SendJoin

\* A leave sent: the seat is gone, and its room told, or the leave is lost.
LEMMA LeaveSent ==
  ASSUME TypeSide, NEW in \in Seq(InFrames), SendLeave(in)
  PROVE  /\ TypeSide' /\ socket' = socket /\ told' = told
         /\ Range(in) \subseteq Range(inbox')
         /\ taken' = NoVoice \/ (lost' /\ taken' = taken)
         /\ lost => lost'
         /\ taken # NoVoice => lost' \/ State(taken, FALSE) \in Range(inbox')
<1>1. State(taken, FALSE) \in InFrames /\ NoVoice \in Rooms
  BY Values DEF TypeSide, Rooms
<1>2. Append(in, State(taken, FALSE)) \in Seq(InFrames)
      /\ Range(Append(in, State(taken, FALSE))) = Range(in) \union {State(taken, FALSE)}
  BY <1>1, HeldMore
<1>3. CASE socket
  <2>1. /\ taken' = NoVoice /\ UNCHANGED <<told, socket, lost>>
        /\ inbox' = IF taken = NoVoice THEN in ELSE Append(in, State(taken, FALSE))
    BY <1>3 DEF SendLeave
  <2> QED
    BY <1>1, <1>2, <2>1 DEF TypeSide
<1>4. CASE ~socket
  <2>1. inbox' = in /\ lost' = (lost \/ taken # NoVoice) /\ UNCHANGED <<taken, told, socket>>
    BY <1>4 DEF SendLeave
  <2> QED
    BY <2>1 DEF TypeSide
<1> QED
  BY <1>3, <1>4

\* The rest of it: the engine's, the page's, and the bounds.
TypeEngine ==
  /\ callRoom \in Rooms /\ callControls \in ControlValues
  /\ callMic \in 0..MaxJoins /\ mics \subseteq 1..MaxJoins

TypeStore ==
  /\ linked \in BOOLEAN /\ known \in BOOLEAN /\ seat \in Seats /\ applying \in Seats
  /\ joins \subseteq Joins /\ leaves \in Seq(Nat) /\ changes \in Seq(Presses)

TypeBounds == begun \in Nat /\ presses \in Nat /\ lists \in Nat /\ drops \in Nat

LEMMA TypeParts == TypeOK <=> TypeSide /\ TypeEngine /\ TypeStore /\ TypeBounds
  BY DEF TypeOK, TypeSide, TypeEngine, TypeStore, TypeBounds, Rooms, ControlValues, InFrames,
     Presses, Joins

\* The controls set: in the engine always, and the room told if there is one and they
\* changed.
LEMMA ControlsSet ==
  ASSUME TypeSide, TypeEngine, NEW c \in ControlValues, SetControls(c)
  PROVE  /\ TypeSide' /\ TypeEngine' /\ socket' = socket /\ UNCHANGED <<callRoom, callMic, mics>>
         /\ callControls' = [muted |-> c.muted \/ c.deafened, deafened |-> c.deafened]
         /\ Range(inbox) \subseteq Range(inbox')
         /\ \/ /\ callRoom # NoVoice /\ taken' = callRoom /\ told' = callControls' /\ lost' = lost
               /\ taken \notin {callRoom, NoVoice} => State(taken, FALSE) \in Range(inbox')
            \/ lost' = TRUE /\ taken' = taken /\ told' = told
            \/ /\ UNCHANGED <<taken, told, lost>>
               /\ callControls' = callControls \/ callRoom = NoVoice
<1> DEFINE next == [muted |-> c.muted \/ c.deafened, deafened |-> c.deafened]
<1>1. /\ callControls' = next /\ UNCHANGED <<callRoom, callMic, mics>>
      /\ IF next # callControls /\ callRoom # NoVoice THEN SendJoin(callRoom, next)
         ELSE UNCHANGED serverSide
  BY DEF SetControls
<1>2. next \in ControlValues
  BY DEF ControlValues
<1> HIDE DEF next
<1>3. TypeEngine'
  BY <1>1, <1>2 DEF TypeEngine
<1>4. CASE next # callControls /\ callRoom # NoVoice
  <2>1. SendJoin(callRoom, next) /\ callRoom \in VoiceRooms
    BY <1>1, <1>4 DEF TypeEngine, Rooms
  <2>2. /\ TypeSide' /\ socket' = socket
        /\ Range(inbox) \subseteq Range(inbox')
        /\ \/ /\ taken' = callRoom /\ told' = next /\ lost' = lost
              /\ taken \notin {callRoom, NoVoice} => State(taken, FALSE) \in Range(inbox')
           \/ lost' = TRUE /\ taken' = taken /\ told' = told
    BY <1>2, <2>1, JoinSent
  <2> QED
    BY <1>1, <1>3, <1>4, <2>2 DEF next
<1>5. CASE ~(next # callControls /\ callRoom # NoVoice)
  <2>1. UNCHANGED serverSide
    BY <1>1, <1>5
  <2> QED
    BY <1>1, <1>3, <1>5, <2>1 DEF serverSide, TypeSide, next
<1> QED
  BY <1>4, <1>5

\* The engine has left: the call is hung up, and the leave sent or lost.
LEMMA EngineLeft ==
  ASSUME TypeSide, TypeEngine, NEW in \in Seq(InFrames), EngineLeave(in)
  PROVE  /\ TypeSide' /\ TypeEngine' /\ socket' = socket /\ told' = told
         /\ callControls' = callControls
         /\ callRoom' = NoVoice /\ callMic' = 0 /\ mics' = mics \ {callMic}
         /\ Range(in) \subseteq Range(inbox')
         /\ taken' = NoVoice \/ (lost' /\ taken' = taken)
         /\ lost => lost'
         /\ taken # NoVoice => lost' \/ State(taken, FALSE) \in Range(inbox')
<1>1. SendLeave(in) /\ HangUp /\ callControls' = callControls
  BY DEF EngineLeave
<1>2. callRoom' = NoVoice /\ callMic' = 0 /\ mics' = mics \ {callMic}
  BY <1>1 DEF HangUp
<1>3. TypeEngine'
  BY <1>1, <1>2, PageVoiceAssumption DEF TypeEngine, Rooms
<1> QED
  BY <1>1, <1>2, <1>3, LeaveSent

\* A change that is over takes its place in what waited for it.
LEMMA ChangeEnded ==
  ASSUME TypeStore, changes # <<>>, ChangeEnds
  PROVE  /\ applying' = NoSeat /\ changes' = Tail(changes)
         /\ changes' \in Seq(Presses) /\ Len(changes') = Len(changes) - 1
         /\ leaves' \in Seq(Nat) /\ Len(leaves') = Len(leaves)
         /\ \A k \in joins' : \E j \in joins :
              k = [j EXCEPT !.left = IF j.left > 0 THEN j.left - 1 ELSE 0]
         /\ \A j \in joins : [j EXCEPT !.left = IF j.left > 0 THEN j.left - 1 ELSE 0] \in joins'
         /\ joins' \subseteq Joins
<1> DEFINE Fewer(n) == IF n > 0 THEN n - 1 ELSE 0
<1>1. /\ changes' = Tail(changes) /\ applying' = NoSeat
      /\ joins' = {[j EXCEPT !.left = Fewer(j.left)] : j \in joins}
      /\ leaves' = [i \in DOMAIN leaves |-> Fewer(leaves[i])]
  BY DEF ChangeEnds
<1>2. changes \in Seq(Presses) /\ leaves \in Seq(Nat) /\ joins \subseteq Joins
  BY DEF TypeStore
<1>3. Tail(changes) \in Seq(Presses) /\ Len(Tail(changes)) = Len(changes) - 1
  BY <1>2
<1>4. leaves' \in Seq(Nat) /\ Len(leaves') = Len(leaves)
  <2>1. Len(leaves) \in Nat /\ DOMAIN leaves = 1..Len(leaves)
        /\ \A i \in 1..Len(leaves) : leaves[i] \in Nat
    BY <1>2
  <2>2. \A i \in 1..Len(leaves) : Fewer(leaves[i]) \in Nat
    BY <2>1
  <2>3. leaves' = [i \in 1..Len(leaves) |-> Fewer(leaves[i])]
    BY <1>1, <2>1
  <2> HIDE DEF Fewer
  <2> QED
    BY <2>1, <2>2, <2>3
<1>5. \A j \in joins : [j EXCEPT !.left = Fewer(j.left)] \in Joins
  <2> SUFFICES ASSUME NEW j \in joins PROVE [j EXCEPT !.left = Fewer(j.left)] \in Joins
    OBVIOUS
  <2>1. j \in Joins /\ j.left \in Nat
    BY <1>2 DEF Joins
  <2>2. Fewer(j.left) \in Nat
    BY <2>1
  <2> HIDE DEF Fewer
  <2> QED
    BY <2>1, <2>2 DEF Joins
<1> QED
  BY <1>1, <1>3, <1>4, <1>5

-----------------------------------------------------------------------------
(* The type invariant                                                      *)

\* While a change is under way it is the first of those queued.
UnderWay == applying # NoSeat => changes # <<>>

LEMMA InitTypes == Init => TypeOK /\ UnderWay
<1> SUFFICES ASSUME Init PROVE TypeOK /\ UnderWay
  OBVIOUS
<1>1. TypeSide
  <2>1. inbox = <<>> /\ <<>> \in Seq(InFrames)
    BY DEF Init
  <2> QED
    BY <2>1, Values DEF Init, TypeSide, Rooms
<1>2. TypeEngine
  BY Values, PageVoiceAssumption DEF Init, TypeEngine, Rooms
<1>3. TypeStore
  BY Values DEF Init, TypeStore
<1>4. TypeBounds
  BY DEF Init, TypeBounds
<1>5. UnderWay
  BY DEF Init, UnderWay
<1> QED
  BY <1>1, <1>2, <1>3, <1>4, <1>5, TypeParts

\* A seat taken, with what the engine is told of it.
LEMMA SeatTaken ==
  ASSUME TypeSide, TypeEngine, TypeStore, NEW j \in joins, NEW previous \in Seats,
         TakeSeat(j, previous)
  PROVE  /\ seat' \in Seats /\ seat'.room = j.room /\ j.room \in VoiceRooms
         /\ seat'.deafened => seat'.muted
         /\ Controls(seat') \in ControlValues /\ SetControls(Controls(seat'))
         /\ joins' = (joins \ {j}) \union {[j EXCEPT !.pc = "ice", !.left = 0]}
         /\ joins' \subseteq Joins /\ leaves' = leaves
<1> DEFINE muted == previous.deafened \/ previous.muted
<1>1. /\ seat' = [previous EXCEPT !.room = j.room, !.muted = muted]
      /\ SetControls([muted |-> muted, deafened |-> previous.deafened])
      /\ joins' = (joins \ {j}) \union {[j EXCEPT !.pc = "ice", !.left = 0]}
      /\ leaves' = leaves
  BY DEF TakeSeat, Goes
<1>2. j \in Joins /\ joins \subseteq Joins
  BY DEF TypeStore
<1>3. j.room \in VoiceRooms /\ [j EXCEPT !.pc = "ice", !.left = 0] \in Joins
  BY <1>2 DEF Joins
<1>4. /\ seat' \in Seats /\ seat'.room = j.room /\ seat'.muted = muted
      /\ seat'.deafened = previous.deafened
  BY <1>1, <1>3 DEF Seats
<1>5. Controls(seat') = [muted |-> muted, deafened |-> previous.deafened]
  BY <1>4 DEF Controls
<1> QED
  BY <1>1, <1>2, <1>3, <1>4, <1>5, Values

\* A join that goes on to its next await stays a join.
LEMMA JoinGone ==
  ASSUME TypeStore, NEW j \in joins,
         NEW pc \in {"queue", "leaving", "left", "ice", "mic", "sent"}, NEW n \in Nat
  PROVE  /\ Goes(j, pc, n) => joins' \subseteq Joins
         /\ Ends(j) => joins' \subseteq Joins
         /\ [j EXCEPT !.pc = pc, !.left = n, !.previous = seat] \in Joins
         /\ j.room \in VoiceRooms /\ j.previous \in Seats /\ j.id \in 1..MaxJoins
<1>1. j \in Joins /\ joins \subseteq Joins /\ seat \in Seats
  BY DEF TypeStore
<1>2. /\ [j EXCEPT !.pc = pc, !.left = n] \in Joins
      /\ [j EXCEPT !.pc = pc, !.left = n, !.previous = seat] \in Joins
      /\ j.room \in VoiceRooms /\ j.previous \in Seats /\ j.id \in 1..MaxJoins
  BY <1>1 DEF Joins
<1> QED
  BY <1>1, <1>2 DEF Goes, Ends

\* Every step keeps the types.
LEMMA TypeStep == TypeOK /\ UnderWay /\ [Next]_voiceVars => TypeOK'
<1> SUFFICES ASSUME TypeOK, UnderWay, [Next]_voiceVars
             PROVE  TypeSide' /\ TypeEngine' /\ TypeStore' /\ TypeBounds'
  BY DEF TypeOK, TypeSide, TypeEngine, TypeStore, TypeBounds, Rooms, ControlValues, InFrames,
     Presses, Joins
<1>1. TypeSide /\ TypeEngine /\ TypeStore /\ TypeBounds
  BY TypeParts
<1>2. inbox \in Seq(InFrames) /\ Len(changes) \in Nat /\ NoVoice \in Rooms /\ 0 \in 0..MaxJoins
      /\ <<>> \in Seq(InFrames) /\ <<ReadyFrame>> \in Seq(InFrames) /\ MaxJoins \in Nat
  <2>1. inbox \in Seq(InFrames) /\ NoVoice \in Rooms /\ 0 \in 0..MaxJoins /\ MaxJoins \in Nat
    BY <1>1, PageVoiceAssumption DEF TypeSide, Rooms
  <2>2. changes \in Seq(Presses)
    BY <1>1 DEF TypeStore
  <2>3. Len(changes) \in Nat
    BY <2>2
  <2>4. <<>> \in Seq(InFrames) /\ <<ReadyFrame>> \in Seq(InFrames)
    BY Values
  <2> QED
    BY <2>1, <2>3, <2>4
<1>3. ASSUME HangUp PROVE callRoom' \in Rooms /\ callMic' \in 0..MaxJoins /\ mics' \subseteq 1..MaxJoins
  BY <1>1, <1>2, <1>3 DEF HangUp, TypeEngine
<1>4. ASSUME NEW r \in VoiceRooms, SomebodyElse(r) PROVE TypeSide' /\ TypeEngine' /\ TypeStore' /\ TypeBounds'
  <2>1. State(r, taken = r) \in InFrames
    BY Values DEF Rooms
  <2>2. inbox' \in Seq(InFrames)
    BY <1>2, <1>4, <2>1, HeldMore DEF SomebodyElse
  <2> QED
    BY <1>1, <1>4, <2>2 DEF SomebodyElse, TypeSide, TypeEngine, TypeStore, TypeBounds, store, engine
<1>5. CASE TakeOut
  <2>1. taken \in Rooms
    BY <1>1 DEF TypeSide
  <2>2. Removed(taken) \in InFrames /\ State(taken, FALSE) \in InFrames
    BY <2>1, Values
  <2>3. inbox' = Append(Append(inbox, Removed(taken)), State(taken, FALSE))
    <3>1. \A a, b \in InFrames : inbox \o <<a, b>> = Append(Append(inbox, a), b)
      BY <1>2
    <3> QED
      BY <1>5, <2>2, <3>1 DEF TakeOut
  <2>4. inbox' \in Seq(InFrames)
    BY <1>2, <2>2, <2>3, HeldMore
  <2>5. TypeSide'
    BY <1>1, <1>2, <1>5, <2>4 DEF TakeOut, TypeSide
  <2>6. TypeEngine' /\ TypeStore'
    BY <1>1, <1>5 DEF TakeOut, TypeEngine, TypeStore, store, engine
  <2>7. TypeBounds'
    BY <1>1, <1>5 DEF TakeOut, TypeBounds
  <2> QED
    BY <2>5, <2>6, <2>7
<1>6. ASSUME Fresh PROVE taken' \in Rooms /\ inbox' \in Seq(InFrames) /\ socket' \in BOOLEAN /\ lost' \in BOOLEAN
  BY <1>2, <1>6 DEF Fresh
<1>7. CASE Drop \/ Resume
  <2>1. TypeSide'
    BY <1>1, <1>7 DEF Drop, Resume, TypeSide
  <2>2. TypeEngine' /\ TypeStore'
    BY <1>1, <1>7 DEF Drop, Resume, TypeEngine, TypeStore, store, engine
  <2>3. TypeBounds'
    BY <1>1, <1>7 DEF Drop, Resume, TypeBounds, bounds
  <2> QED
    BY <2>1, <2>2, <2>3
<1>8. CASE StartOver \/ Connect
  BY <1>1, <1>6, <1>8 DEF StartOver, Connect, TypeSide, TypeEngine, TypeStore, TypeBounds,
     store, engine, bounds
<1>9. ASSUME NEW r \in VoiceRooms, JoinVoice(r) PROVE TypeSide' /\ TypeEngine' /\ TypeStore' /\ TypeBounds'
  <2>1. begun' \in 1..MaxJoins /\ begun' \in Nat
    BY <1>1, <1>9, PageVoiceAssumption DEF JoinVoice, TypeBounds
  <2>2. [id |-> begun', pc |-> "queue", room |-> r, left |-> Len(changes), previous |-> NoSeat] \in Joins
    BY <1>2, <2>1, Values DEF Joins
  <2> QED
    BY <1>1, <1>9, <2>1, <2>2 DEF JoinVoice, TypeSide, TypeEngine, TypeStore, TypeBounds,
       serverSide, engine
<1>10. ASSUME NEW j \in joins, JoinBegins(j) PROVE TypeSide' /\ TypeEngine' /\ TypeStore' /\ TypeBounds'
  <2>1. UNCHANGED <<linked, known, changes, applying, bounds>>
    BY <1>10 DEF JoinBegins
  <2>2. CASE Ends(j) /\ UNCHANGED <<seat, leaves, serverSide, engine>>
    <3>1. joins' \subseteq Joins
      BY <1>1, <2>2 DEF Ends, TypeStore
    <3> QED
      BY <1>1, <2>1, <2>2, <3>1 DEF TypeSide, TypeEngine, TypeStore, TypeBounds, serverSide, engine, bounds
  <2>3. CASE /\ seat' = NoSeat /\ UNCHANGED <<leaves, serverSide, engine>>
             /\ joins' = (joins \ {j}) \union
                    {[j EXCEPT !.pc = "leaving", !.left = Len(changes), !.previous = seat]}
    <3>1. [j EXCEPT !.pc = "leaving", !.left = Len(changes), !.previous = seat] \in Joins
      BY <1>1, <1>2, JoinGone
    <3>2. joins' \subseteq Joins
      BY <1>1, <2>3, <3>1 DEF TypeStore
    <3> QED
      BY <1>1, <2>1, <2>3, <3>2, Values DEF TypeSide, TypeEngine, TypeStore, TypeBounds,
         serverSide, engine, bounds
  <2>4. CASE TakeSeat(j, NoSeat)
    <3>1. /\ seat' \in Seats /\ Controls(seat') \in ControlValues /\ SetControls(Controls(seat'))
          /\ joins' \subseteq Joins /\ leaves' = leaves
      BY <1>1, <2>4, SeatTaken, Values
    <3>2. TypeSide' /\ TypeEngine'
      BY <1>1, <3>1, ControlsSet
    <3> QED
      BY <1>1, <2>1, <3>1, <3>2 DEF TypeStore, TypeBounds, bounds
  <2> QED
    BY <1>10, <2>2, <2>3, <2>4 DEF JoinBegins
<1>11. ASSUME NEW j \in joins, JoinLeaves(j) PROVE TypeSide' /\ TypeEngine' /\ TypeStore' /\ TypeBounds'
  <2>1. EngineLeave(inbox) /\ Goes(j, "left", 0) /\ UNCHANGED <<linked, known, seat, leaves, changes, applying, bounds>>
    BY <1>11 DEF JoinLeaves
  <2>2. TypeSide' /\ TypeEngine'
    BY <1>1, <1>2, <2>1, EngineLeft
  <2>3. joins' \subseteq Joins
    BY <1>1, <2>1, JoinGone
  <2> QED
    BY <1>1, <2>1, <2>2, <2>3 DEF TypeStore, TypeBounds, bounds
<1>12. ASSUME NEW j \in joins, JoinGoesOn(j) PROVE TypeSide' /\ TypeEngine' /\ TypeStore' /\ TypeBounds'
  <2>1. TakeSeat(j, j.previous) /\ UNCHANGED <<linked, known, changes, applying, bounds>>
    BY <1>12 DEF JoinGoesOn
  <2>2. j.previous \in Seats
    BY <1>1, <1>12 DEF TypeStore, Joins
  <2>3. /\ seat' \in Seats /\ Controls(seat') \in ControlValues /\ SetControls(Controls(seat'))
        /\ joins' \subseteq Joins /\ leaves' = leaves
    BY <1>1, <2>1, <2>2, SeatTaken
  <2>4. TypeSide' /\ TypeEngine'
    BY <1>1, <2>3, ControlsSet
  <2> QED
    BY <1>1, <2>1, <2>3, <2>4 DEF TypeStore, TypeBounds, bounds
<1>13. ASSUME NEW j \in joins, IceAnswers(j) PROVE TypeSide' /\ TypeEngine' /\ TypeStore' /\ TypeBounds'
  <2>1. HangUp \/ UNCHANGED <<callRoom, callMic, mics>>
    BY <1>13 DEF IceAnswers
  <2>2. callRoom' \in Rooms /\ callMic' \in 0..MaxJoins /\ mics' \subseteq 1..MaxJoins
    BY <1>1, <1>3, <2>1 DEF TypeEngine
  <2>3. joins' \subseteq Joins
    BY <1>1, <1>13, JoinGone DEF IceAnswers
  <2> QED
    BY <1>1, <1>13, <2>2, <2>3 DEF IceAnswers, TypeSide, TypeEngine, TypeStore, TypeBounds, serverSide, bounds
<1>14. ASSUME NEW j \in joins, MicrophoneOpens(j) PROVE TypeSide' /\ TypeEngine' /\ TypeStore' /\ TypeBounds'
  <2>1. j.room \in VoiceRooms /\ j.id \in 1..MaxJoins /\ callControls \in ControlValues
    BY <1>1 DEF TypeStore, Joins, TypeEngine
  <2>2. TypeSide'
    BY <1>1, <1>14, <2>1, JoinSent DEF MicrophoneOpens
  <2>3. joins' \subseteq Joins
    BY <1>1, <1>14, JoinGone DEF MicrophoneOpens
  <2>4. TypeEngine'
    <3>1. callMic' = j.id /\ mics' = mics \union {j.id} /\ callRoom' = j.room /\ callControls' = callControls
      BY <1>14 DEF MicrophoneOpens
    <3>2. j.id \in 0..MaxJoins
      BY <2>1, <1>2
    <3> QED
      BY <1>1, <2>1, <3>1, <3>2 DEF TypeEngine, Rooms
  <2> QED
    BY <1>1, <1>14, <2>2, <2>3, <2>4 DEF MicrophoneOpens, TypeStore, TypeBounds, bounds
<1>15. ASSUME NEW j \in joins, MicrophoneRefused(j) PROVE TypeSide' /\ TypeEngine' /\ TypeStore' /\ TypeBounds'
  <2>1. joins' \subseteq Joins
    BY <1>1, <1>15 DEF MicrophoneRefused, Ends, TypeStore
  <2> QED
    BY <1>1, <1>15, <2>1, Values DEF MicrophoneRefused, TypeSide, TypeEngine, TypeStore, TypeBounds,
       serverSide, engine, bounds
<1>16. ASSUME NEW j \in joins, JoinEnds(j) PROVE TypeSide' /\ TypeEngine' /\ TypeStore' /\ TypeBounds'
  <2>1. joins' \subseteq Joins
    BY <1>1, <1>16 DEF JoinEnds, Ends, TypeStore
  <2>2. TypeSide' /\ TypeEngine'
    <3>1. CASE UNCHANGED <<serverSide, engine>>
      BY <1>1, <3>1 DEF TypeSide, TypeEngine, serverSide, engine
    <3>2. CASE EngineLeave(inbox)
      BY <1>1, <1>2, <3>2, EngineLeft
    <3> QED
      BY <1>16, <3>1, <3>2 DEF JoinEnds
  <2> QED
    BY <1>1, <1>16, <2>1, <2>2 DEF JoinEnds, TypeStore, TypeBounds, bounds
<1>17. CASE LeaveVoice
  <2>1. leaves' \in Seq(Nat)
    BY <1>1, <1>2, <1>17 DEF LeaveVoice, TypeStore
  <2> QED
    BY <1>1, <1>17, <2>1, Values DEF LeaveVoice, TypeSide, TypeEngine, TypeStore, TypeBounds,
       serverSide, engine, bounds
<1>18. CASE LeaveGoes
  <2>1. leaves' \in Seq(Nat)
    BY <1>1, <1>18 DEF LeaveGoes, TypeStore
  <2>2. TypeSide' /\ TypeEngine'
    BY <1>1, <1>2, <1>18, EngineLeft DEF LeaveGoes
  <2> QED
    BY <1>1, <1>18, <2>1, <2>2 DEF LeaveGoes, TypeStore, TypeBounds, bounds
<1>19. ASSUME NEW c \in Presses, Press(c) PROVE TypeSide' /\ TypeEngine' /\ TypeStore' /\ TypeBounds'
  <2>1. changes' \in Seq(Presses)
    BY <1>1, <1>19 DEF Press, TypeStore
  <2> QED
    BY <1>1, <1>19, <2>1 DEF Press, TypeSide, TypeEngine, TypeStore, TypeBounds, serverSide, engine
<1>20. CASE ChangeStarts
  <2> DEFINE next == Changed(seat, Head(changes))
  <2>1. changes # <<>> /\ seat \in Seats /\ Head(changes) \in Presses
    BY <1>1, <1>20 DEF ChangeStarts, TypeStore
  <2>2. next \in Seats /\ Controls(next) \in ControlValues
    BY <2>1, Pressed, Values
  <2> HIDE DEF next
  <2>3. CASE ChangeEnds /\ UNCHANGED <<seat, serverSide, engine>>
    BY <1>1, <1>20, <2>1, <2>3, ChangeEnded, Values DEF ChangeStarts, TypeSide, TypeEngine,
       TypeStore, TypeBounds, serverSide, engine, bounds
  <2>4. CASE applying' = next /\ SetControls(Controls(next)) /\ UNCHANGED <<seat, changes, joins, leaves>>
    <3>1. TypeSide' /\ TypeEngine'
      BY <1>1, <2>2, <2>4, ControlsSet
    <3> QED
      BY <1>1, <1>20, <2>2, <2>4, <3>1 DEF ChangeStarts, TypeStore, TypeBounds, bounds
  <2> QED
    BY <1>20, <2>3, <2>4 DEF ChangeStarts, next
<1>21. ASSUME applying # NoSeat, ChangeEnds, UNCHANGED <<linked, known>>, seat' \in Seats
       PROVE  TypeStore'
  <2>1. changes # <<>>
    BY <1>21 DEF UnderWay
  <2> QED
    BY <1>1, <1>21, <2>1, ChangeEnded, Values DEF TypeStore
<1>22. CASE ChangeApplied
  <2>1. seat' \in Seats
    BY <1>1, <1>22 DEF ChangeApplied, TypeStore, Seats, NoSeat
  <2> QED
    BY <1>1, <1>21, <1>22, <2>1 DEF ChangeApplied, TypeSide, TypeEngine, TypeBounds,
       serverSide, engine, bounds
<1>23. CASE ChangeFails
  <2>1. TypeSide' /\ TypeEngine'
    BY <1>1, <1>2, <1>23, EngineLeft DEF ChangeFails
  <2> QED
    BY <1>1, <1>21, <1>23, <2>1, Values DEF ChangeFails, TypeBounds, bounds
<1>24. CASE Hear
  <2>1. Tail(inbox) \in Seq(InFrames)
    BY <1>2, <1>24, HeldLess DEF Hear
  <2>2. UNCHANGED <<linked, joins, leaves, changes, applying, bounds>> /\ known' \in BOOLEAN
    BY <1>1, <1>24 DEF Hear, TypeStore
  <2>3. CASE seat' = NoSeat /\ LetGo(Tail(inbox))
    <3>1. TypeSide' /\ TypeEngine'
      BY <1>1, <2>1, <2>3, EngineLeft DEF LetGo
    <3> QED
      BY <1>1, <2>2, <2>3, <3>1, Values DEF TypeStore, TypeBounds, bounds
  <2>4. CASE inbox' = Tail(inbox) /\ UNCHANGED <<taken, told, socket, lost, seat, engine>>
    BY <1>1, <2>1, <2>2, <2>4 DEF TypeSide, TypeEngine, TypeStore, TypeBounds, engine, bounds
  <2> QED
    BY <1>24, <2>3, <2>4 DEF Hear
<1>25. CASE Close
  <2>1. HangUp \/ UNCHANGED <<callRoom, callMic, mics>>
    BY <1>25 DEF Close
  <2>2. callRoom' \in Rooms /\ callMic' \in 0..MaxJoins /\ mics' \subseteq 1..MaxJoins
    BY <1>1, <1>3, <2>1 DEF TypeEngine
  <2>3. TypeSide' /\ TypeBounds'
    <3>1. TypeSide'
      BY <1>1, <1>2, <1>25 DEF Close, TypeSide
    <3>2. TypeBounds'
      BY <1>1, <1>25 DEF Close, TypeBounds
    <3> QED
      BY <3>1, <3>2
  <2>4. TypeEngine' /\ TypeStore'
    BY <1>1, <1>25, <2>2, Values DEF Close, TypeEngine, TypeStore
  <2> QED
    BY <2>3, <2>4
<1>26. CASE UNCHANGED voiceVars
  BY <1>1, <1>26 DEF voiceVars, TypeSide, TypeEngine, TypeStore, TypeBounds, serverSide, store,
     engine, bounds
<1> QED
  BY <1>4, <1>5, <1>7, <1>8, <1>9, <1>10, <1>11, <1>12, <1>13, <1>14, <1>15, <1>16, <1>17, <1>18,
     <1>19, <1>20, <1>22, <1>23, <1>24, <1>25, <1>26 DEF Next, Continues, Happens, Presses

-----------------------------------------------------------------------------
(* The invariant of a page on which one join is under way at a time        *)

OneJoin == \A i, j \in joins : i = j
At(pcs) == \E j \in joins : j.pc \in pcs

\* What ends the seat is on its way: any frame that does, or the one of a new session.
EndsComing == \E f \in Range(inbox) : EndsSeat(f)
ReadyComing == \E f \in Range(inbox) : f.op = "ready"

SeatOK == (seat # NoSeat => seat.room \in VoiceRooms) /\ (seat.deafened => seat.muted)

\* The engine has the controls of the change under way, and otherwise those of the seat.
ControlsOK ==
  /\ applying # NoSeat =>
       callControls = Controls(applying) /\ (applying.deafened => applying.muted)
  /\ applying = NoSeat /\ seat # NoSeat => callControls = Controls(seat)

\* How far a join has come says what it may still find: a seat given up has no change
\* left to come, and what is left of an older call is only there to be left.
JoinsOK == \A j \in joins :
  /\ j.pc = "leaving" => seat = NoSeat /\ j.left = Len(changes)
  /\ j.pc = "left" => seat = NoSeat /\ changes = <<>>
  /\ j.pc = "queue" /\ seat = NoSeat /\ applying # NoSeat => j.left # 0
  /\ j.pc \in {"ice", "mic", "sent"} /\ seat # NoSeat => seat.room = j.room
  /\ j.pc = "mic" => callRoom = NoVoice
  /\ j.pc \in {"ice", "mic"} => /\ taken # NoVoice => leaves # <<>> \/ lost
                                /\ callRoom # NoVoice => leaves # <<>>

\* The engine has one stream, its call's; a call, or a seat at the server, that outlives
\* the page's seat is about to be left.
MicsOK ==
  /\ mics = {callMic} \ {0}
  /\ callMic = 0 <=> callRoom = NoVoice
  /\ seat = NoSeat /\ callRoom # NoVoice => leaves # <<>> \/ At({"leaving", "sent"})
  /\ seat = NoSeat /\ taken # NoVoice => lost \/ leaves # <<>> \/ At({"leaving", "sent"})

\* A seat is where the server and the engine have it, or a frame that ends it is coming.
AgreeOK ==
  /\ seat # NoSeat /\ ~lost /\ ~At({"ice", "mic"}) =>
       EndsComing \/ (taken = seat.room /\ callRoom = seat.room)
  /\ callRoom # NoVoice /\ ~lost /\ told # callControls =>
       ReadyComing \/ seat = NoSeat \/ At({"ice"})

Parts == OneJoin /\ SeatOK /\ ControlsOK /\ JoinsOK /\ MicsOK /\ AgreeOK

PInv == ~Crossing /\ TypeOK /\ UnderWay /\ Parts

LEMMA InitPInv == Init /\ ~Crossing => PInv
<1> SUFFICES ASSUME Init, ~Crossing PROVE Parts
  BY InitTypes DEF PInv
<1>1. OneJoin /\ JoinsOK
  BY DEF Init, OneJoin, JoinsOK
<1>2. SeatOK /\ ControlsOK
  BY DEF Init, SeatOK, ControlsOK, NoSeat
<1>3. MicsOK /\ AgreeOK
  BY DEF Init, MicsOK, AgreeOK
<1> QED
  BY <1>1, <1>2, <1>3 DEF Parts

\* The one join under way.
LEMMA TheJoin ==
  ASSUME TypeStore, OneJoin, NEW j \in joins
  PROVE  /\ joins = {j} /\ j \in Joins
         /\ Ends(j) => joins' = {}
         /\ \A pc, n : Goes(j, pc, n) =>
              \E k : joins' = {k} /\ k.pc = pc /\ k.left = n /\ k.room = j.room
<1>1. j \in Joins /\ joins = {j}
  BY DEF TypeStore, OneJoin
<1>2. ASSUME NEW pc, NEW n, Goes(j, pc, n)
      PROVE  \E k : joins' = {k} /\ k.pc = pc /\ k.left = n /\ k.room = j.room
  <2> DEFINE k == [j EXCEPT !.pc = pc, !.left = n]
  <2>1. joins' = {k}
    BY <1>1, <1>2 DEF Goes
  <2>2. k.pc = pc /\ k.left = n /\ k.room = j.room
    BY <1>1 DEF Joins
  <2> QED
    BY <2>1, <2>2
<1> QED
  BY <1>1, <1>2 DEF Ends

\* What a seat, a frame and a room have to do with each other.
LEMMA Endings ==
  /\ \A r : EndsSeat(State(r, FALSE)) <=> r = seat.room
  /\ \A r : EndsSeat(Removed(r)) <=> r = seat.room
  /\ EndsSeat(ReadyFrame) /\ ReadyFrame.op = "ready"
  /\ \A r \in VoiceRooms : r # NoVoice
  /\ NoSeat.room = NoVoice /\ ~NoSeat.muted /\ ~NoSeat.deafened
<1>1. \A r : EndsSeat(State(r, FALSE)) <=> r = seat.room
  BY DEF EndsSeat, State
<1>2. \A r : EndsSeat(Removed(r)) <=> r = seat.room
  BY DEF EndsSeat, Removed
<1>3. EndsSeat(ReadyFrame) /\ ReadyFrame.op = "ready"
  BY DEF EndsSeat, ReadyFrame
<1> QED
  BY <1>1, <1>2, <1>3, PageVoiceAssumption DEF NoSeat

\* Where only the server's side changes, with no frame of the session lost in it.
LEMMA ServerMoves ==
  ASSUME PInv, UNCHANGED <<seat, joins, leaves, changes, applying, engine>>,
         \/ /\ UNCHANGED <<taken, told, lost>> /\ Range(inbox) \subseteq Range(inbox')
         \/ /\ taken # NoVoice /\ taken' = NoVoice /\ UNCHANGED <<told, lost>>
            /\ Range(inbox) \subseteq Range(inbox') /\ Removed(taken) \in Range(inbox')
         \/ /\ taken' = NoVoice /\ lost' = FALSE /\ ReadyFrame \in Range(inbox')
  PROVE  Parts'
<1>1. /\ OneJoin /\ SeatOK /\ ControlsOK /\ JoinsOK /\ MicsOK /\ AgreeOK
      /\ UNCHANGED <<seat, joins, leaves, changes, applying>>
      /\ UNCHANGED <<callRoom, callControls, callMic, mics>>
  BY DEF PInv, Parts, engine
<1>2. OneJoin' /\ SeatOK' /\ ControlsOK'
  BY <1>1 DEF OneJoin, SeatOK, ControlsOK
<1>3. JoinsOK'
  BY <1>1 DEF JoinsOK
<1>4. MicsOK'
  BY <1>1 DEF MicsOK, At
<1>5. AgreeOK'
  <2>1. CASE UNCHANGED <<taken, told, lost>> /\ Range(inbox) \subseteq Range(inbox')
    BY <1>1, <2>1 DEF AgreeOK, At, EndsComing, ReadyComing, EndsSeat
  <2>2. CASE /\ taken # NoVoice /\ taken' = NoVoice /\ UNCHANGED <<told, lost>>
             /\ Range(inbox) \subseteq Range(inbox') /\ Removed(taken) \in Range(inbox')
    <3>1. taken = seat.room => EndsSeat(Removed(taken))
      BY Endings
    <3> QED
      BY <1>1, <2>2, <3>1 DEF AgreeOK, At, EndsComing, ReadyComing, EndsSeat
  <2>3. CASE taken' = NoVoice /\ lost' = FALSE /\ ReadyFrame \in Range(inbox')
    BY <2>3, Endings DEF AgreeOK, EndsComing, ReadyComing, EndsSeat
  <2> QED
    BY <2>1, <2>2, <2>3
<1> QED
  BY <1>2, <1>3, <1>4, <1>5 DEF Parts

\* A seat is taken: with nothing of an older one still to be applied.
LEMMA SeatTakenStep ==
  ASSUME PInv, NEW j \in joins, j.pc \in {"queue", "left"}, seat = NoSeat, applying = NoSeat,
         NEW previous \in Seats, TakeSeat(j, previous), UNCHANGED <<changes, applying>>
  PROVE  Parts'
<1>1. /\ OneJoin /\ SeatOK /\ ControlsOK /\ JoinsOK /\ MicsOK /\ AgreeOK
      /\ TypeSide /\ TypeEngine /\ TypeStore
  BY TypeParts DEF PInv, Parts
<1>2. /\ seat' \in Seats /\ seat'.room = j.room /\ j.room \in VoiceRooms
      /\ seat'.deafened => seat'.muted
      /\ Controls(seat') \in ControlValues /\ SetControls(Controls(seat'))
      /\ leaves' = leaves /\ Goes(j, "ice", 0)
  BY <1>1, SeatTaken DEF TakeSeat
<1>3. /\ UNCHANGED <<callRoom, callMic, mics>>
      /\ callControls' = [muted |-> seat'.muted \/ seat'.deafened, deafened |-> seat'.deafened]
      /\ \/ callRoom # NoVoice
         \/ lost' = TRUE
         \/ UNCHANGED <<taken, lost>>
  BY <1>1, <1>2, ControlsSet DEF Controls
<1>4. callControls' = Controls(seat')
  <2>1. (seat'.muted \/ seat'.deafened) = seat'.muted
    BY <1>2 DEF Seats
  <2> QED
    BY <1>3, <2>1 DEF Controls
<1>5. PICK k : joins' = {k} /\ k.pc = "ice" /\ k.left = 0 /\ k.room = j.room
  BY <1>1, <1>2, TheJoin
<1>6. joins = {j} /\ seat' # NoSeat /\ At({"ice"})' /\ At({"ice", "mic"})'
  BY <1>1, <1>2, <1>5, TheJoin, Endings DEF At
<1>7. OneJoin' /\ SeatOK' /\ ControlsOK'
  BY <1>2, <1>4, <1>5, <1>6 DEF OneJoin, SeatOK, ControlsOK
<1>8. /\ callRoom # NoVoice => leaves # <<>>
      /\ taken # NoVoice => lost \/ leaves # <<>>
  BY <1>1, <1>6 DEF MicsOK, At
<1>9. JoinsOK'
  BY <1>2, <1>3, <1>5, <1>8 DEF JoinsOK
<1>10. MicsOK'
  BY <1>1, <1>3, <1>6 DEF MicsOK
<1>11. AgreeOK'
  BY <1>6 DEF AgreeOK
<1> QED
  BY <1>7, <1>9, <1>10, <1>11 DEF Parts

\* A call of joinVoice begins, and goes on.
LEMMA JoinStep ==
  ASSUME PInv,
         \/ \E r \in VoiceRooms : JoinVoice(r)
         \/ \E j \in joins : \/ JoinBegins(j) \/ JoinLeaves(j) \/ JoinGoesOn(j) \/ IceAnswers(j)
                             \/ MicrophoneOpens(j) \/ MicrophoneRefused(j) \/ JoinEnds(j)
  PROVE  Parts'
<1>1. /\ OneJoin /\ SeatOK /\ ControlsOK /\ JoinsOK /\ MicsOK /\ AgreeOK
      /\ TypeSide /\ TypeEngine /\ TypeStore /\ TypeBounds
  BY TypeParts DEF PInv, Parts
<1>2. /\ changes \in Seq(Presses) /\ Len(changes) \in Nat /\ (changes = <<>> <=> Len(changes) = 0)
      /\ inbox \in Seq(InFrames)
  BY <1>1 DEF TypeStore, TypeSide
<1>3. ASSUME NEW r \in VoiceRooms, JoinVoice(r) PROVE Parts'
  <2>1. /\ joins = {} /\ UNCHANGED <<serverSide, seat, leaves, changes, applying, engine>>
        /\ joins' = {[id |-> begun', pc |-> "queue", room |-> r, left |-> Len(changes), previous |-> NoSeat]}
    BY <1>3 DEF JoinVoice, PInv
  <2> DEFINE k == [id |-> begun', pc |-> "queue", room |-> r, left |-> Len(changes), previous |-> NoSeat]
  <2>2. joins' = {k} /\ k.pc = "queue" /\ k.left = Len(changes)
    BY <2>1
  <2> HIDE DEF k
  <2>3. OneJoin' /\ SeatOK' /\ ControlsOK'
    BY <1>1, <2>1, <2>2 DEF OneJoin, SeatOK, ControlsOK, engine
  <2>4. JoinsOK'
    BY <1>2, <2>1, <2>2 DEF JoinsOK, PInv, UnderWay
  <2>5. MicsOK'
    BY <1>1, <2>1, <2>2 DEF MicsOK, At, serverSide, engine
  <2>6. AgreeOK'
    BY <1>1, <2>1, <2>2 DEF AgreeOK, At, EndsComing, ReadyComing, EndsSeat, serverSide, engine
  <2> QED
    BY <2>3, <2>4, <2>5, <2>6 DEF Parts
<1>4. ASSUME NEW j \in joins, JoinBegins(j) PROVE Parts'
  <2>1. joins = {j} /\ j.pc = "queue" /\ j.left = 0 /\ UNCHANGED <<changes, applying>>
    BY <1>1, <1>4, TheJoin DEF JoinBegins
  <2>2. CASE Ends(j) /\ UNCHANGED <<seat, leaves, serverSide, engine>>
    <3>1. joins' = {}
      BY <1>1, <2>2, TheJoin
    <3>2. OneJoin' /\ SeatOK' /\ ControlsOK' /\ JoinsOK'
      BY <1>1, <2>1, <2>2, <3>1 DEF OneJoin, SeatOK, ControlsOK, JoinsOK, engine
    <3>3. MicsOK'
      BY <1>1, <2>1, <2>2, <3>1 DEF MicsOK, At, serverSide, engine
    <3>4. AgreeOK'
      BY <1>1, <2>1, <2>2, <3>1 DEF AgreeOK, At, EndsComing, ReadyComing, EndsSeat, serverSide, engine
    <3> QED
      BY <3>2, <3>3, <3>4 DEF Parts
  <2>3. CASE /\ seat' = NoSeat /\ UNCHANGED <<leaves, serverSide, engine>>
             /\ joins' = (joins \ {j}) \union
                    {[j EXCEPT !.pc = "leaving", !.left = Len(changes), !.previous = seat]}
    <3> DEFINE k == [j EXCEPT !.pc = "leaving", !.left = Len(changes), !.previous = seat]
    <3>1. joins' = {k} /\ k.pc = "leaving" /\ k.left = Len(changes)
      <4>1. j \in Joins
        BY <1>1 DEF TypeStore
      <4>2. k.pc = "leaving" /\ k.left = Len(changes)
        BY <4>1 DEF Joins
      <4> QED
        BY <2>1, <2>3, <4>2
    <3> HIDE DEF k
    <3>2. OneJoin' /\ SeatOK' /\ ControlsOK'
      BY <1>1, <2>1, <2>3, <3>1, Endings DEF OneJoin, SeatOK, ControlsOK, engine
    <3>3. JoinsOK'
      BY <2>1, <2>3, <3>1 DEF JoinsOK
    <3>4. MicsOK'
      BY <1>1, <2>3, <3>1 DEF MicsOK, At, engine
    <3>5. AgreeOK'
      BY <2>3 DEF AgreeOK
    <3> QED
      BY <3>2, <3>3, <3>4, <3>5 DEF Parts
  <2>4. CASE seat = NoSeat /\ TakeSeat(j, NoSeat)
    <3>1. applying = NoSeat
      BY <1>1, <2>1, <2>4 DEF JoinsOK
    <3> QED
      BY <2>1, <2>4, <3>1, SeatTakenStep, Values
  <2> QED
    BY <1>4, <2>2, <2>3, <2>4 DEF JoinBegins
<1>5. ASSUME NEW j \in joins, JoinLeaves(j) PROVE Parts'
  <2>1. /\ j.pc = "leaving" /\ j.left = 0 /\ EngineLeave(inbox) /\ Goes(j, "left", 0)
        /\ UNCHANGED <<seat, leaves, changes, applying>>
    BY <1>5 DEF JoinLeaves
  <2>2. PICK k : joins' = {k} /\ k.pc = "left"
    BY <1>1, <2>1, TheJoin
  <2>3. /\ callControls' = callControls /\ callRoom' = NoVoice /\ callMic' = 0 /\ mics' = mics \ {callMic}
        /\ taken' = NoVoice \/ lost'
    BY <1>1, <1>2, <2>1, EngineLeft
  <2>4. seat = NoSeat /\ changes = <<>>
    BY <1>1, <1>2, <2>1 DEF JoinsOK
  <2>5. OneJoin' /\ SeatOK' /\ ControlsOK'
    BY <1>1, <2>1, <2>2, <2>3 DEF OneJoin, SeatOK, ControlsOK
  <2>6. JoinsOK' /\ MicsOK' /\ AgreeOK'
    BY <1>1, <2>1, <2>2, <2>3, <2>4 DEF JoinsOK, MicsOK, AgreeOK
  <2> QED
    BY <2>5, <2>6 DEF Parts
<1>6. ASSUME NEW j \in joins, JoinGoesOn(j) PROVE Parts'
  <2>1. j.pc = "left" /\ TakeSeat(j, j.previous) /\ UNCHANGED <<changes, applying>>
    BY <1>6 DEF JoinGoesOn
  <2>2. seat = NoSeat /\ applying = NoSeat
    BY <1>1, <2>1 DEF JoinsOK, PInv, UnderWay
  <2>3. j.previous \in Seats
    BY <1>1 DEF TypeStore, Joins
  <2> QED
    BY <2>1, <2>2, <2>3, SeatTakenStep
<1>7. ASSUME NEW j \in joins, IceAnswers(j) PROVE Parts'
  <2>1. /\ j.pc = "ice" /\ Goes(j, "mic", 0) /\ UNCHANGED <<serverSide, seat, leaves, changes, applying, callControls>>
        /\ IF callRoom # NoVoice THEN HangUp ELSE UNCHANGED <<callRoom, callMic, mics>>
    BY <1>7 DEF IceAnswers
  <2>2. PICK k : joins' = {k} /\ k.pc = "mic" /\ k.room = j.room
    BY <1>1, <2>1, TheJoin
  <2>3. callRoom' = NoVoice /\ callMic' = 0 /\ mics' = {}
    BY <1>1, <2>1 DEF HangUp, MicsOK
  <2>4. OneJoin' /\ SeatOK' /\ ControlsOK'
    BY <1>1, <2>1, <2>2 DEF OneJoin, SeatOK, ControlsOK
  <2>5. JoinsOK'
    BY <1>1, <2>1, <2>2, <2>3 DEF JoinsOK, serverSide
  <2>6. MicsOK' /\ AgreeOK'
    BY <1>1, <2>1, <2>2, <2>3 DEF JoinsOK, MicsOK, AgreeOK, At, serverSide
  <2> QED
    BY <2>4, <2>5, <2>6 DEF Parts
<1>8. ASSUME NEW j \in joins, MicrophoneOpens(j) PROVE Parts'
  <2>1. /\ j.pc = "mic" /\ callMic' = j.id /\ mics' = mics \union {j.id} /\ callRoom' = j.room
        /\ SendJoin(j.room, callControls) /\ Goes(j, "sent", 0)
        /\ UNCHANGED <<seat, leaves, changes, applying, callControls>>
    BY <1>8 DEF MicrophoneOpens
  <2>2. PICK k : joins' = {k} /\ k.pc = "sent" /\ k.room = j.room
    BY <1>1, <2>1, TheJoin
  <2>3. j.room \in VoiceRooms /\ j.id \in 1..MaxJoins /\ callControls \in ControlValues
    BY <1>1 DEF TypeStore, Joins, TypeEngine
  <2>4. (taken' = j.room /\ told' = callControls) \/ lost' = TRUE
    BY <1>1, <2>1, <2>3, JoinSent
  <2>5. callMic = 0 /\ mics = {} /\ j.id # 0 /\ j.room # NoVoice
    <3>1. j.id # 0
      BY <2>3, PageVoiceAssumption
    <3>2. callRoom = NoVoice
      BY <1>1, <2>1 DEF JoinsOK
    <3> QED
      BY <1>1, <2>3, <3>1, <3>2, Endings DEF MicsOK
  <2>6. OneJoin' /\ SeatOK' /\ ControlsOK'
    BY <1>1, <2>1, <2>2 DEF OneJoin, SeatOK, ControlsOK
  <2>7. JoinsOK'
    BY <1>1, <2>1, <2>2 DEF JoinsOK
  <2>8. MicsOK'
    BY <2>1, <2>2, <2>5 DEF MicsOK, At
  <2>9. AgreeOK'
    BY <1>1, <2>1, <2>2, <2>4 DEF AgreeOK, JoinsOK
  <2> QED
    BY <2>6, <2>7, <2>8, <2>9 DEF Parts
<1>9. ASSUME NEW j \in joins, MicrophoneRefused(j) PROVE Parts'
  <2>1. /\ j.pc = "mic" /\ seat' = NoSeat /\ Ends(j)
        /\ UNCHANGED <<serverSide, leaves, changes, applying, engine>>
    BY <1>9 DEF MicrophoneRefused
  <2>2. joins' = {}
    BY <1>1, <2>1, TheJoin
  <2>3. OneJoin' /\ SeatOK' /\ ControlsOK' /\ JoinsOK'
    BY <1>1, <2>1, <2>2, Endings DEF OneJoin, SeatOK, ControlsOK, JoinsOK, engine
  <2>4. MicsOK' /\ AgreeOK'
    BY <1>1, <2>1, <2>2 DEF JoinsOK, MicsOK, AgreeOK, At, serverSide, engine
  <2> QED
    BY <2>3, <2>4 DEF Parts
<1>10. ASSUME NEW j \in joins, JoinEnds(j) PROVE Parts'
  <2>1. /\ j.pc = "sent" /\ Ends(j) /\ UNCHANGED <<seat, leaves, changes, applying>> /\ joins = {j}
    BY <1>1, <1>10, TheJoin DEF JoinEnds
  <2>2. joins' = {}
    BY <1>1, <2>1, TheJoin
  <2>3. CASE seat # NoSeat /\ UNCHANGED <<serverSide, engine>>
    <3>1. OneJoin' /\ SeatOK' /\ ControlsOK' /\ JoinsOK'
      BY <1>1, <2>1, <2>2, <2>3 DEF OneJoin, SeatOK, ControlsOK, JoinsOK, engine
    <3>2. MicsOK'
      BY <1>1, <2>1, <2>2, <2>3 DEF MicsOK, engine
    <3>3. AgreeOK'
      BY <1>1, <2>1, <2>2, <2>3 DEF AgreeOK, At, EndsComing, ReadyComing, EndsSeat, serverSide, engine
    <3> QED
      BY <3>1, <3>2, <3>3 DEF Parts
  <2>4. CASE seat = NoSeat /\ EngineLeave(inbox)
    <3>1. /\ callControls' = callControls /\ callRoom' = NoVoice /\ callMic' = 0 /\ mics' = mics \ {callMic}
          /\ taken' = NoVoice \/ lost'
      BY <1>1, <1>2, <2>4, EngineLeft
    <3>2. OneJoin' /\ SeatOK' /\ ControlsOK' /\ JoinsOK'
      BY <1>1, <2>1, <2>2, <3>1 DEF OneJoin, SeatOK, ControlsOK, JoinsOK
    <3>3. MicsOK' /\ AgreeOK'
      BY <1>1, <2>1, <2>2, <2>4, <3>1 DEF MicsOK, AgreeOK
    <3> QED
      BY <3>2, <3>3 DEF Parts
  <2> QED
    BY <1>10, <2>3, <2>4 DEF JoinEnds, StillSeated
<1> QED
  BY <1>3, <1>4, <1>5, <1>6, <1>7, <1>8, <1>9, <1>10

\* What waited for a change waits for one fewer, and is otherwise as it was.
LEMMA EndedParts ==
  ASSUME TypeStore, OneJoin, changes # <<>>, ChangeEnds
  PROVE  /\ OneJoin' /\ applying' = NoSeat /\ changes' \in Seq(Presses)
         /\ Len(changes') = Len(changes) - 1 /\ (changes' = <<>> <=> Len(changes') = 0)
         /\ leaves' = <<>> <=> leaves = <<>>
         /\ \A pcs : At(pcs)' <=> At(pcs)
         /\ \A k \in joins' : \E j \in joins :
              /\ k.pc = j.pc /\ k.room = j.room
              /\ k.left = IF j.left > 0 THEN j.left - 1 ELSE 0
<1> DEFINE Fewer(j) == [j EXCEPT !.left = IF j.left > 0 THEN j.left - 1 ELSE 0]
<1>1. /\ applying' = NoSeat /\ changes' \in Seq(Presses) /\ Len(changes') = Len(changes) - 1
      /\ leaves' \in Seq(Nat) /\ Len(leaves') = Len(leaves)
      /\ \A k \in joins' : \E j \in joins : k = Fewer(j)
      /\ \A j \in joins : Fewer(j) \in joins'
  BY ChangeEnded
<1>2. ASSUME NEW j \in joins
      PROVE  /\ Fewer(j).pc = j.pc /\ Fewer(j).room = j.room
             /\ Fewer(j).left = IF j.left > 0 THEN j.left - 1 ELSE 0
  <2>1. j \in Joins
    BY DEF TypeStore
  <2> QED
    BY <2>1 DEF Joins
<1> HIDE DEF Fewer
<1>3. ASSUME NEW k \in joins'
      PROVE  \E j \in joins : /\ k.pc = j.pc /\ k.room = j.room
                              /\ k.left = IF j.left > 0 THEN j.left - 1 ELSE 0
  <2>1. PICK j \in joins : k = Fewer(j)
    BY <1>1, <1>3
  <2>2. /\ k.pc = j.pc /\ k.room = j.room
        /\ k.left = IF j.left > 0 THEN j.left - 1 ELSE 0
    BY <1>2, <2>1
  <2> QED
    BY <2>2
<1>4. OneJoin'
  BY <1>1 DEF OneJoin
<1>5. ASSUME NEW pcs PROVE At(pcs)' <=> At(pcs)
  <2>1. At(pcs) => At(pcs)'
    BY <1>1, <1>2 DEF At
  <2>2. At(pcs)' => At(pcs)
    BY <1>1, <1>2 DEF At
  <2> QED
    BY <2>1, <2>2
<1>6. leaves' = <<>> <=> leaves = <<>>
  <2>1. leaves \in Seq(Nat)
    BY DEF TypeStore
  <2> QED
    BY <1>1, <2>1
<1>7. changes' = <<>> <=> Len(changes') = 0
  <2>1. changes' \in Seq(Presses)
    BY <1>1
  <2> QED
    BY <2>1
<1> QED
  BY <1>1, <1>3, <1>4, <1>5, <1>6, <1>7

\* Leaving, and pressing.
LEMMA LeaveStep ==
  ASSUME PInv, \/ LeaveVoice /\ Waiting
               \/ LeaveGoes
               \/ \E c \in Presses : Press(c)
  PROVE  Parts'
<1>1. /\ OneJoin /\ SeatOK /\ ControlsOK /\ JoinsOK /\ MicsOK /\ AgreeOK
      /\ TypeSide /\ TypeEngine /\ TypeStore /\ inbox \in Seq(InFrames)
  BY TypeParts DEF PInv, Parts, TypeSide
<1>2. CASE LeaveVoice /\ Waiting
  <2>1. /\ seat # NoSeat /\ seat' = NoSeat /\ leaves' = Append(leaves, Len(changes))
        /\ UNCHANGED <<serverSide, joins, changes, applying, engine>>
    BY <1>2 DEF LeaveVoice
  <2>2. leaves' # <<>>
    BY <1>1, <2>1 DEF TypeStore
  <2>3. OneJoin' /\ SeatOK' /\ ControlsOK'
    BY <1>1, <2>1, Endings DEF OneJoin, SeatOK, ControlsOK, engine
  <2>4. JoinsOK'
    BY <1>1, <1>2, <2>1, <2>2 DEF JoinsOK, Waiting, engine
  <2>5. MicsOK' /\ AgreeOK'
    BY <1>1, <2>1, <2>2 DEF MicsOK, AgreeOK, engine
  <2> QED
    BY <2>3, <2>4, <2>5 DEF Parts
<1>3. CASE LeaveGoes
  <2>1. EngineLeave(inbox) /\ UNCHANGED <<seat, joins, changes, applying>>
    BY <1>3 DEF LeaveGoes
  <2>2. /\ callControls' = callControls /\ callRoom' = NoVoice /\ callMic' = 0 /\ mics' = mics \ {callMic}
        /\ taken' = NoVoice \/ lost'
        /\ lost => lost'
        /\ Range(inbox) \subseteq Range(inbox')
        /\ taken # NoVoice => lost' \/ State(taken, FALSE) \in Range(inbox')
    BY <1>1, <2>1, EngineLeft
  <2>3. OneJoin' /\ SeatOK' /\ ControlsOK'
    BY <1>1, <2>1, <2>2 DEF OneJoin, SeatOK, ControlsOK
  <2>4. JoinsOK'
    BY <1>1, <2>1, <2>2 DEF JoinsOK
  <2>5. MicsOK'
    BY <1>1, <2>1, <2>2 DEF MicsOK
  <2>6. ASSUME seat # NoSeat, ~lost', ~At({"ice", "mic"})'
        PROVE  EndsComing'
    <3>1. EndsComing \/ taken = seat.room
      BY <1>1, <2>1, <2>2, <2>6 DEF AgreeOK, At
    <3>2. CASE EndsComing
      BY <2>1, <2>2, <3>2 DEF EndsComing, EndsSeat
    <3>3. CASE taken = seat.room
      <4>1. taken # NoVoice
        BY <1>1, <2>6, <3>3, Endings DEF SeatOK
      <4>2. EndsSeat(State(taken, FALSE)) /\ State(taken, FALSE) \in Range(inbox')
        BY <2>2, <2>6, <3>3, <4>1, Endings
      <4> QED
        BY <2>1, <4>2 DEF EndsComing, EndsSeat
    <3> QED
      BY <3>1, <3>2, <3>3
  <2>7. AgreeOK'
    BY <2>1, <2>2, <2>6 DEF AgreeOK
  <2> QED
    BY <2>3, <2>4, <2>5, <2>7 DEF Parts
<1>4. ASSUME NEW c \in Presses, Press(c) PROVE Parts'
  <2>1. /\ seat # NoSeat
        /\ UNCHANGED <<serverSide, seat, joins, leaves, applying, engine>>
    BY <1>4 DEF Press
  <2>2. OneJoin' /\ SeatOK' /\ ControlsOK'
    BY <1>1, <2>1 DEF OneJoin, SeatOK, ControlsOK, engine
  <2>3. JoinsOK'
    BY <1>1, <2>1 DEF JoinsOK, engine, serverSide
  <2>4. MicsOK' /\ AgreeOK'
    BY <1>1, <2>1 DEF MicsOK, AgreeOK, At, EndsComing, ReadyComing, EndsSeat, serverSide, engine
  <2> QED
    BY <2>2, <2>3, <2>4 DEF Parts
<1> QED
  BY <1>2, <1>3, <1>4

\* A queued change starts, is applied, or fails.
LEMMA ChangeStep ==
  ASSUME PInv, ChangeStarts \/ ChangeApplied \/ ChangeFails
  PROVE  Parts'
<1>1. /\ OneJoin /\ SeatOK /\ ControlsOK /\ JoinsOK /\ MicsOK /\ AgreeOK
      /\ TypeSide /\ TypeEngine /\ TypeStore /\ inbox \in Seq(InFrames)
      /\ changes \in Seq(Presses) /\ seat \in Seats /\ applying \in Seats
  BY TypeParts DEF PInv, Parts, TypeSide, TypeStore
<1>2. changes # <<>> /\ Len(changes) \in Nat /\ Len(changes) > 0
  <2>1. changes # <<>>
    BY DEF ChangeStarts, ChangeApplied, ChangeFails, PInv, UnderWay
  <2> QED
    BY <1>1, <2>1
<1>3. ASSUME ChangeEnds
      PROVE  /\ OneJoin' /\ applying' = NoSeat /\ Len(changes') = Len(changes) - 1
             /\ (changes' = <<>> <=> Len(changes') = 0)
             /\ leaves' = <<>> <=> leaves = <<>>
             /\ \A pcs : At(pcs)' <=> At(pcs)
             /\ \A k \in joins' : \E j \in joins :
                  /\ k.pc = j.pc /\ k.room = j.room
                  /\ k.left = IF j.left > 0 THEN j.left - 1 ELSE 0
  BY <1>1, <1>2, <1>3, EndedParts
<1>4. ASSUME ChangeEnds, callRoom' \in {callRoom, NoVoice},
             seat' = NoSeat \/ (seat' # NoSeat /\ seat # NoSeat /\ seat'.room = seat.room),
             lost => lost', taken' = NoVoice \/ (taken' = taken), seat = NoSeat => seat' = NoSeat
      PROVE  JoinsOK'
  <2> SUFFICES ASSUME NEW k \in joins'
        PROVE  /\ k.pc = "leaving" => seat' = NoSeat /\ k.left = Len(changes')
               /\ k.pc = "left" => seat' = NoSeat /\ changes' = <<>>
               /\ k.pc = "queue" /\ seat' = NoSeat /\ applying' # NoSeat => k.left # 0
               /\ k.pc \in {"ice", "mic", "sent"} /\ seat' # NoSeat => seat'.room = k.room
               /\ k.pc = "mic" => callRoom' = NoVoice
               /\ k.pc \in {"ice", "mic"} => /\ taken' # NoVoice => leaves' # <<>> \/ lost'
                                             /\ callRoom' # NoVoice => leaves' # <<>>
    BY DEF JoinsOK
  <2>1. PICK j \in joins : /\ k.pc = j.pc /\ k.room = j.room
                           /\ k.left = IF j.left > 0 THEN j.left - 1 ELSE 0
    BY <1>3, <1>4
  <2>2. /\ j.pc = "leaving" => seat = NoSeat /\ j.left = Len(changes)
        /\ j.pc # "left"
        /\ j.pc \in {"ice", "mic", "sent"} /\ seat # NoSeat => seat.room = j.room
        /\ j.pc = "mic" => callRoom = NoVoice
        /\ j.pc \in {"ice", "mic"} => /\ taken # NoVoice => leaves # <<>> \/ lost
                                      /\ callRoom # NoVoice => leaves # <<>>
    BY <1>1, <1>2 DEF JoinsOK
  <2>3. j.pc = "leaving" => k.left = Len(changes')
    BY <1>2, <1>3, <1>4, <2>1, <2>2
  <2> QED
    BY <1>3, <1>4, <2>1, <2>2, <2>3
<1>5. CASE ChangeStarts
  <2> DEFINE next == Changed(seat, Head(changes))
  <2>1. applying = NoSeat /\ Head(changes) \in Presses
    BY <1>1, <1>2, <1>5 DEF ChangeStarts
  <2>2. /\ next \in Seats /\ Controls(next) \in ControlValues /\ next.room = seat.room
        /\ next.deafened => next.muted
    BY <1>1, <2>1, Pressed, Values DEF SeatOK
  <2>3. \/ ChangeEnds /\ UNCHANGED <<seat, serverSide, engine>>
        \/ /\ seat # NoSeat /\ applying' = next /\ SetControls(Controls(next))
           /\ UNCHANGED <<seat, changes, joins, leaves>>
    BY <1>5 DEF ChangeStarts
  <2> HIDE DEF next
  <2>4. CASE ChangeEnds /\ UNCHANGED <<seat, serverSide, engine>>
    <3>1. SeatOK' /\ ControlsOK'
      BY <1>1, <1>3, <2>1, <2>4 DEF SeatOK, ControlsOK, engine
    <3>2. JoinsOK'
      BY <1>4, <2>4 DEF serverSide, engine
    <3>3. MicsOK'
      BY <1>1, <1>3, <2>4 DEF MicsOK, serverSide, engine
    <3>4. AgreeOK'
      BY <1>1, <1>3, <2>4 DEF AgreeOK, EndsComing, ReadyComing, EndsSeat, serverSide, engine
    <3> QED
      BY <1>3, <2>4, <3>1, <3>2, <3>3, <3>4 DEF Parts
  <2>5. CASE /\ seat # NoSeat /\ applying' = next /\ SetControls(Controls(next))
             /\ UNCHANGED <<seat, changes, joins, leaves>>
    <3>1. /\ UNCHANGED <<callRoom, callMic, mics>>
          /\ callControls' = [muted |-> next.muted \/ next.deafened, deafened |-> next.deafened]
          /\ Range(inbox) \subseteq Range(inbox')
          /\ \/ callRoom # NoVoice /\ taken' = callRoom /\ told' = callControls' /\ lost' = lost
             \/ lost' = TRUE /\ taken' = taken /\ told' = told
             \/ /\ UNCHANGED <<taken, told, lost>>
                /\ callControls' = callControls \/ callRoom = NoVoice
      BY <1>1, <2>2, <2>5, ControlsSet DEF Controls
    <3>2. callControls' = Controls(next)
      <4>1. (next.muted \/ next.deafened) = next.muted
        BY <2>2 DEF Seats
      <4> QED
        BY <3>1, <4>1 DEF Controls
    <3>3. OneJoin' /\ SeatOK' /\ ControlsOK'
      BY <1>1, <2>2, <2>5, <3>2, Endings DEF OneJoin, SeatOK, ControlsOK
    <3>4. JoinsOK'
      BY <1>1, <2>5, <3>1 DEF JoinsOK
    <3>5. MicsOK'
      BY <1>1, <2>5, <3>1 DEF MicsOK
    <3>6. EndsComing => EndsComing'
      BY <2>5, <3>1 DEF EndsComing, EndsSeat
    <3>7. ReadyComing => ReadyComing'
      BY <3>1 DEF ReadyComing
    <3>8. AgreeOK'
      BY <1>1, <2>5, <3>1, <3>6, <3>7 DEF AgreeOK, At
    <3> QED
      BY <3>3, <3>4, <3>5, <3>8 DEF Parts
  <2> QED
    BY <2>3, <2>4, <2>5
<1>6. CASE ChangeApplied
  <2>1. /\ applying # NoSeat /\ ChangeEnds /\ UNCHANGED <<serverSide, engine>>
        /\ seat' = IF seat = NoSeat THEN seat ELSE [applying EXCEPT !.room = seat.room]
    BY <1>6 DEF ChangeApplied
  <2>2. CASE seat = NoSeat
    <3>1. SeatOK' /\ ControlsOK'
      BY <1>1, <1>3, <2>1, <2>2 DEF SeatOK, ControlsOK
    <3>2. JoinsOK'
      BY <1>4, <2>1, <2>2 DEF serverSide, engine
    <3>3. MicsOK' /\ AgreeOK'
      BY <1>1, <1>3, <2>1, <2>2 DEF MicsOK, AgreeOK, serverSide, engine
    <3> QED
      BY <1>3, <2>1, <3>1, <3>2, <3>3 DEF Parts
  <2>3. CASE seat # NoSeat
    <3>1. seat' = [applying EXCEPT !.room = seat.room]
      BY <2>1, <2>3
    <3>2. /\ seat'.room = seat.room /\ seat'.muted = applying.muted
          /\ seat'.deafened = applying.deafened
      BY <1>1, <3>1 DEF Seats
    <3>3. seat' # NoSeat /\ Controls(seat') = Controls(applying)
      BY <1>1, <2>3, <3>2, Endings DEF Controls, SeatOK
    <3>4. SeatOK' /\ ControlsOK'
      BY <1>1, <1>3, <2>1, <2>3, <3>2, <3>3 DEF SeatOK, ControlsOK, engine
    <3>5. JoinsOK'
      BY <1>4, <2>1, <2>3, <3>2, <3>3 DEF serverSide, engine
    <3>6. MicsOK' /\ AgreeOK'
      BY <1>1, <1>3, <2>1, <2>3, <3>2, <3>3 DEF MicsOK, AgreeOK, EndsComing, ReadyComing, EndsSeat,
         serverSide, engine
    <3> QED
      BY <1>3, <2>1, <3>4, <3>5, <3>6 DEF Parts
  <2> QED
    BY <2>2, <2>3
<1>7. CASE ChangeFails
  <2>1. seat' = NoSeat /\ ChangeEnds /\ EngineLeave(inbox)
    BY <1>7 DEF ChangeFails
  <2>2. /\ callControls' = callControls /\ callRoom' = NoVoice /\ callMic' = 0 /\ mics' = mics \ {callMic}
        /\ taken' = NoVoice \/ (lost' /\ taken' = taken)
        /\ lost => lost'
    BY <1>1, <2>1, EngineLeft
  <2>3. SeatOK' /\ ControlsOK'
    BY <1>3, <2>1, Endings DEF SeatOK, ControlsOK
  <2>4. JoinsOK'
    BY <1>4, <2>1, <2>2
  <2>5. MicsOK' /\ AgreeOK'
    BY <1>1, <2>1, <2>2 DEF MicsOK, AgreeOK
  <2> QED
    BY <1>3, <2>1, <2>3, <2>4, <2>5 DEF Parts
<1> QED
  BY <1>5, <1>6, <1>7

\* The page hears a frame, or leaves the server.
LEMMA HearStep ==
  ASSUME PInv, Waiting, Hear \/ Close
  PROVE  Parts'
<1>1. /\ OneJoin /\ SeatOK /\ ControlsOK /\ JoinsOK /\ MicsOK /\ AgreeOK
      /\ TypeSide /\ TypeEngine /\ TypeStore /\ inbox \in Seq(InFrames)
  BY TypeParts DEF PInv, Parts, TypeSide
<1>2. CASE Hear
  <2> DEFINE f == Head(inbox)
             rest == Tail(inbox)
  <2>1. /\ inbox # <<>> /\ UNCHANGED <<joins, leaves, changes, applying>>
        /\ \/ seat # NoSeat /\ seat' = NoSeat /\ LetGo(rest)
           \/ /\ seat = NoSeat \/ ~EndsSeat(f)
              /\ inbox' = rest /\ UNCHANGED <<taken, told, socket, lost, seat, engine>>
    BY <1>2 DEF Hear
  <2>2. rest \in Seq(InFrames) /\ Range(inbox) = Range(rest) \union {f}
    BY <1>1, <2>1, HeldLess
  <2> HIDE DEF f, rest
  <2>3. CASE seat # NoSeat /\ seat' = NoSeat /\ LetGo(rest)
    <3>1. /\ callControls' = callControls /\ callRoom' = NoVoice /\ callMic' = 0 /\ mics' = mics \ {callMic}
          /\ taken' = NoVoice \/ lost'
      BY <1>1, <2>2, <2>3, EngineLeft DEF LetGo
    <3>2. OneJoin' /\ SeatOK' /\ ControlsOK'
      BY <1>1, <2>1, <2>3, <3>1, Endings DEF OneJoin, SeatOK, ControlsOK
    <3>3. JoinsOK'
      BY <1>1, <2>1, <2>3, <3>1 DEF JoinsOK, Waiting
    <3>4. MicsOK' /\ AgreeOK'
      BY <1>1, <2>1, <2>3, <3>1 DEF MicsOK, AgreeOK
    <3> QED
      BY <3>2, <3>3, <3>4 DEF Parts
  <2>4. CASE /\ seat = NoSeat \/ ~EndsSeat(f)
             /\ inbox' = rest /\ UNCHANGED <<taken, told, socket, lost, seat, engine>>
    <3>1. OneJoin' /\ SeatOK' /\ ControlsOK'
      BY <1>1, <2>1, <2>4 DEF OneJoin, SeatOK, ControlsOK, engine
    <3>2. JoinsOK' /\ MicsOK'
      BY <1>1, <2>1, <2>4 DEF JoinsOK, MicsOK, At, engine
    <3>3. seat # NoSeat => (EndsComing => EndsComing') /\ (ReadyComing => ReadyComing')
      BY <2>2, <2>4 DEF EndsComing, ReadyComing, EndsSeat
    <3>4. AgreeOK'
      BY <1>1, <2>1, <2>4, <3>3 DEF AgreeOK, At, engine
    <3> QED
      BY <3>1, <3>2, <3>4 DEF Parts
  <2> QED
    BY <2>1, <2>3, <2>4
<1>3. CASE Close
  <2>1. /\ seat' = NoSeat /\ taken' = NoVoice /\ UNCHANGED <<joins, leaves, changes, applying, callControls>>
        /\ IF seat # NoSeat THEN HangUp ELSE UNCHANGED <<callRoom, callMic, mics>>
    BY <1>3 DEF Close
  <2>2. \/ seat # NoSeat /\ callRoom' = NoVoice /\ callMic' = 0 /\ mics' = mics \ {callMic}
        \/ seat = NoSeat /\ UNCHANGED <<callRoom, callMic, mics>>
    BY <2>1 DEF HangUp
  <2>3. OneJoin' /\ SeatOK' /\ ControlsOK'
    BY <1>1, <2>1, Endings DEF OneJoin, SeatOK, ControlsOK
  <2>4. JoinsOK'
    BY <1>1, <2>1, <2>2 DEF JoinsOK, Waiting
  <2>5. MicsOK' /\ AgreeOK'
    BY <1>1, <2>1, <2>2 DEF MicsOK, AgreeOK, At
  <2> QED
    BY <2>3, <2>4, <2>5 DEF Parts
<1> QED
  BY <1>2, <1>3

\* While a change is under way it stays queued.
LEMMA UnderWayStep == TypeOK /\ UnderWay /\ [Next]_voiceVars => UnderWay'
<1> SUFFICES ASSUME TypeOK, UnderWay, [Next]_voiceVars PROVE UnderWay'
  OBVIOUS
<1>1. changes \in Seq(Presses)
  BY TypeParts DEF TypeStore
<1>2. CASE UNCHANGED <<changes, applying>>
  BY <1>2 DEF UnderWay
<1>3. ASSUME NEW c \in Presses, Press(c) PROVE UnderWay'
  BY <1>1, <1>3 DEF Press, UnderWay
<1>4. CASE ChangeEnds
  BY <1>4 DEF ChangeEnds, UnderWay
<1>5. CASE ChangeStarts
  <2>1. ChangeEnds \/ (changes # <<>> /\ changes' = changes)
    BY <1>5 DEF ChangeStarts
  <2> QED
    BY <1>4, <2>1 DEF UnderWay
<1>6. CASE ChangeApplied \/ ChangeFails
  BY <1>4, <1>6 DEF ChangeApplied, ChangeFails
<1>7. ASSUME NEW j \in joins, \/ JoinBegins(j) \/ JoinLeaves(j) \/ JoinGoesOn(j) \/ IceAnswers(j)
                              \/ MicrophoneOpens(j) \/ MicrophoneRefused(j) \/ JoinEnds(j)
      PROVE  UNCHANGED <<changes, applying>>
  BY <1>7 DEF JoinBegins, JoinLeaves, JoinGoesOn, IceAnswers, MicrophoneOpens,
     MicrophoneRefused, JoinEnds
<1>8. ASSUME NEW r \in VoiceRooms, JoinVoice(r) \/ SomebodyElse(r)
      PROVE  UNCHANGED <<changes, applying>>
  BY <1>8 DEF JoinVoice, SomebodyElse, store
<1>9. CASE LeaveVoice \/ LeaveGoes \/ Hear \/ Close
  BY <1>2, <1>9 DEF LeaveVoice, LeaveGoes, Hear, Close
<1>10. CASE TakeOut \/ Drop \/ Resume \/ StartOver \/ Connect \/ UNCHANGED voiceVars
  BY <1>2, <1>10 DEF TakeOut, Drop, Resume, StartOver, Connect, voiceVars, store
<1> QED
  BY <1>2, <1>3, <1>5, <1>6, <1>7, <1>8, <1>9, <1>10 DEF Next, Continues, Happens, Presses

\* What the server does by itself, and the socket's coming and going.
LEMMA ServerStep ==
  ASSUME PInv, \/ \E r \in VoiceRooms : SomebodyElse(r)
               \/ TakeOut \/ Drop \/ Resume \/ StartOver \/ Connect
  PROVE  Parts'
<1>1. inbox \in Seq(InFrames) /\ taken \in Rooms
  BY TypeParts DEF PInv, TypeSide
<1>2. UNCHANGED <<seat, joins, leaves, changes, applying, engine>>
  BY DEF SomebodyElse, TakeOut, Drop, Resume, StartOver, Connect, store
<1>3. ASSUME NEW r \in VoiceRooms, SomebodyElse(r) PROVE Parts'
  <2>1. State(r, taken = r) \in InFrames
    BY Values DEF Rooms
  <2>2. Range(inbox') = Range(inbox) \union {State(r, taken = r)} /\ UNCHANGED <<taken, told, lost>>
    BY <1>1, <1>3, <2>1, HeldMore DEF SomebodyElse
  <2> QED
    BY <1>2, <2>2, ServerMoves
<1>4. CASE TakeOut
  <2>1. Removed(taken) \in InFrames /\ State(taken, FALSE) \in InFrames
    BY <1>1, Values
  <2>2. inbox' = Append(Append(inbox, Removed(taken)), State(taken, FALSE))
    <3>1. \A a, b \in InFrames : inbox \o <<a, b>> = Append(Append(inbox, a), b)
      BY <1>1
    <3> QED
      BY <1>4, <2>1, <3>1 DEF TakeOut
  <2>3. /\ Append(inbox, Removed(taken)) \in Seq(InFrames)
        /\ Range(Append(inbox, Removed(taken))) = Range(inbox) \union {Removed(taken)}
    BY <1>1, <2>1, HeldMore
  <2>4. Range(inbox') = (Range(inbox) \union {Removed(taken)}) \union {State(taken, FALSE)}
    BY <2>1, <2>2, <2>3, HeldMore
  <2>5. taken # NoVoice /\ taken' = NoVoice /\ UNCHANGED <<told, lost>>
    BY <1>4 DEF TakeOut
  <2> QED
    BY <1>2, <2>4, <2>5, ServerMoves
<1>5. CASE Drop \/ Resume
  BY <1>2, <1>5, ServerMoves DEF Drop, Resume
<1>6. CASE StartOver \/ Connect
  <2>1. Fresh
    BY <1>6 DEF StartOver, Connect
  <2>2. inbox'[1] = ReadyFrame /\ 1 \in DOMAIN inbox'
    BY <2>1 DEF Fresh
  <2>3. ReadyFrame \in Range(inbox')
    BY <2>2 DEF Range
  <2> QED
    BY <1>2, <2>1, <2>3, ServerMoves DEF Fresh
<1> QED
  BY <1>3, <1>4, <1>5, <1>6

\* Every step keeps the invariant.
LEMMA PInvStep == PInv /\ [Next]_voiceVars => PInv'
<1> SUFFICES ASSUME PInv, [Next]_voiceVars PROVE PInv'
  OBVIOUS
<1>1. ~Crossing /\ TypeOK' /\ UnderWay'
  BY TypeStep, UnderWayStep DEF PInv
<1>2. CASE UNCHANGED voiceVars
  <2>1. UNCHANGED <<seat, joins, leaves, changes, applying, engine>> /\ UNCHANGED <<taken, told, lost, inbox>>
    BY <1>2 DEF voiceVars, store, serverSide
  <2> QED
    BY <1>1, <2>1, ServerMoves DEF PInv
<1>3. CASE \/ \E r \in VoiceRooms : JoinVoice(r)
           \/ \E j \in joins : \/ JoinBegins(j) \/ JoinLeaves(j) \/ JoinGoesOn(j) \/ IceAnswers(j)
                               \/ MicrophoneOpens(j) \/ MicrophoneRefused(j) \/ JoinEnds(j)
  BY <1>1, <1>3, JoinStep DEF PInv
<1>4. CASE (LeaveVoice /\ Waiting) \/ LeaveGoes \/ \E c \in Presses : Press(c)
  BY <1>1, <1>4, LeaveStep DEF PInv
<1>5. CASE ChangeStarts \/ ChangeApplied \/ ChangeFails
  BY <1>1, <1>5, ChangeStep DEF PInv
<1>6. CASE Waiting /\ (Hear \/ Close)
  BY <1>1, <1>6, HearStep DEF PInv
<1>7. CASE \/ \E r \in VoiceRooms : SomebodyElse(r)
           \/ TakeOut \/ Drop \/ Resume \/ StartOver \/ Connect
  BY <1>1, <1>7, ServerStep DEF PInv
<1> QED
  BY <1>2, <1>3, <1>4, <1>5, <1>6, <1>7 DEF Next, Continues, Happens, Presses
-----------------------------------------------------------------------------
(* What is proved                                                          *)

\* Every variable keeps its type, whatever joins, presses, frames and drops come, also
\* where joins cross.
THEOREM TypesHold == Spec => []TypeOK
<1>1. TypeOK /\ UnderWay /\ [Next]_voiceVars => (TypeOK /\ UnderWay)'
  BY TypeStep, UnderWayStep
<1> QED
  BY InitTypes, <1>1, PTL DEF Spec

\* The invariant holds of a page on which one join is under way at a time.
LEMMA PageInvariant == ~Crossing /\ Spec => []PInv
  BY InitPInv, PInvStep, PTL DEF Spec

\* However a seat ended, by Leave, by a frame, by signing out, by a call that failed or
\* half-way through a join, no stream the engine opened stays open once the page is idle.
THEOREM MicrophoneIsClosed == ~Crossing /\ Spec => []MicrophoneEnds
<1>1. PInv => MicrophoneEnds
  <2> SUFFICES ASSUME PInv, Idle
               PROVE  mics \subseteq {callMic} /\ (seat = NoSeat => mics = {})
    BY DEF MicrophoneEnds
  <2>1. MicsOK /\ ~At({"leaving", "sent"}) /\ leaves = <<>>
    BY DEF PInv, Parts, Idle, At
  <2> QED
    BY <2>1 DEF MicsOK
<1> QED
  BY PageInvariant, <1>1, PTL

\* A seat that shows muted sends silence, unless the change to unmute it is under way.
THEOREM MutedStaysSilent == ~Crossing /\ Spec => []MutedIsSilent
<1>1. PInv => MutedIsSilent
  <2> SUFFICES ASSUME PInv, seat.muted, applying = NoSeat PROVE callControls.muted
    BY DEF MutedIsSilent
  <2>1. seat # NoSeat
    BY Endings
  <2>2. callControls = Controls(seat)
    BY <2>1 DEF PInv, Parts, ControlsOK
  <2> QED
    BY <2>2 DEF Controls
<1> QED
  BY PageInvariant, <1>1, PTL

\* Once everything has arrived and no frame was lost, the page, the engine and the server
\* agree on the room, and the room has been told the controls the page shows.
THEOREM SeatsWillAgree == ~Crossing /\ Spec => []SeatsAgree
<1>1. PInv => SeatsAgree
  <2> SUFFICES ASSUME PInv, Idle, linked, socket, inbox = <<>>, ~lost
               PROVE  /\ taken = seat.room /\ callRoom = seat.room
                      /\ seat # NoSeat => told = Controls(seat) /\ callMic # 0
    BY DEF SeatsAgree
  <2>1. SeatOK /\ ControlsOK /\ MicsOK /\ AgreeOK
    BY DEF PInv, Parts
  <2>2. \A pcs : ~At(pcs)
    BY DEF At, Idle
  <2>3. leaves = <<>> /\ applying = NoSeat
    BY DEF Idle, PInv, UnderWay
  <2>4. ~EndsComing /\ ~ReadyComing
    BY DEF EndsComing, ReadyComing, Range
  <2>5. CASE seat = NoSeat
    BY <2>1, <2>2, <2>3, <2>5, Endings DEF MicsOK
  <2>6. CASE seat # NoSeat
    <3>1. taken = seat.room /\ callRoom = seat.room /\ seat.room \in VoiceRooms
      BY <2>1, <2>2, <2>4, <2>6 DEF AgreeOK, SeatOK
    <3>2. callRoom # NoVoice
      BY <3>1, Endings
    <3>3. told = callControls
      BY <2>1, <2>2, <2>4, <2>6, <3>2 DEF AgreeOK
    <3>4. callControls = Controls(seat) /\ callMic # 0
      BY <2>1, <2>3, <2>6, <3>2 DEF ControlsOK, MicsOK
    <3> QED
      BY <3>1, <3>3, <3>4
  <2> QED
    BY <2>5, <2>6
<1> QED
  BY PageInvariant, <1>1, PTL

=============================================================================
