-------------------------- MODULE Presence_proofs --------------------------
(***************************************************************************)
(* What is proved of Presence for any number of sessions, rooms, sockets   *)
(* and frames.  The invariant has two halves.  What the sessions say, and  *)
(* what each app believes it said, is kept by the map operations alone     *)
(* (RecInv): a session's sockets are counted, a drop's grace period is its *)
(* own, and moves are numbered once.  Who has still to be told what is     *)
(* kept by those and by the tellers (TellInv): the locks, what a teller    *)
(* has read, and that something is on its way whenever everybody's picture *)
(* is not yet the right one.                                               *)
(***************************************************************************)
EXTENDS Presence, WellFoundedInduction, NaturalsInduction, TLAPS

Places == Rooms \union {NoRoom}

TypeRec ==
  /\ rec \in [Sessions -> Records \union {NoRecord}]
  /\ order \in Nat /\ drops \in Nat /\ timers \subseteq Sessions \X Nat
  /\ up \subseteq Sessions /\ stale \in [Sessions -> Nat]
  /\ said \in [Sessions -> [room : Places, state : States]]

(* A session's sockets are its app's, and those its app has given up. *)
Sockets(s) == rec[s].sockets = stale[s] + (IF s \in up THEN 1 ELSE 0)

(* A drop is numbered once, and a waiting session waits for its last one. *)
Grace(s) ==
  /\ rec[s].dropped <= drops
  /\ rec[s] # NoRecord /\ rec[s].sockets = 0 =>
       /\ <<s, rec[s].dropped>> \in timers
       /\ \A p \in timers : p[1] = s => p[2] <= rec[s].dropped

(* The server has what the app believes it said, unless the session is held over, in  *)
(* which case its app has said nothing yet. *)
Believed(s) ==
  s \in up \ replaced =>
    /\ stale[s] = 0
    /\ rec[s].over => said[s] = Fresh
    /\ ~rec[s].over => /\ rec[s].room = said[s].room
                       /\ s \notin cameBack => rec[s].state = said[s].state

SessionInv(s) == Sockets(s) /\ Grace(s) /\ Believed(s)

(* No two sessions moved at once. *)
Numbered(R, n) ==
  /\ \A s \in Sessions : R[s].moved <= n
  /\ \A s, t \in Sessions :
       R[s].room # NoRoom /\ R[t].room # NoRoom /\ R[s].moved = R[t].moved => s = t

RecInv ==
  /\ TypeRec /\ Numbered(rec, order)
  /\ \A p \in timers : p[2] \in 1..drops
  /\ \A s \in Sessions : SessionInv(s)

-----------------------------------------------------------------------------
(* The records, and what they come to *)

\* A record, field by field.
LEMMA RecordIs ==
  ASSUME NEW q \in Records \union {NoRecord}
  PROVE  /\ q.room \in Places /\ q.moved \in Nat /\ q.sockets \in Nat /\ q.dropped \in Nat
         /\ q.over \in BOOLEAN
         /\ q = NoRecord <=> q.state = "none"
         /\ q # NoRecord => q \in Records /\ q.state \in States
         /\ q = NoRecord => q.room = NoRoom /\ q.moved = 0 /\ q.sockets = 0 /\ q.dropped = 0 /\ ~q.over
  <1>1. /\ NoRecord.room = NoRoom /\ NoRecord.moved = 0 /\ NoRecord.sockets = 0 /\ NoRecord.dropped = 0
        /\ NoRecord.over = FALSE /\ NoRecord.state = "none"
    BY DEF NoRecord, Arrived
  <1>2. CASE q = NoRecord
    <2>1. NoRecord.over \in BOOLEAN /\ ~NoRecord.over  BY DEF NoRecord, Arrived
    <2>2. q.over \in BOOLEAN /\ ~q.over  BY <1>2, <2>1
    <2>3. q.room = NoRoom /\ q.moved = 0 /\ q.sockets = 0 /\ q.dropped = 0 /\ q.state = "none"
      BY <1>1, <1>2
    <2>4. q.room \in Places  BY <2>3 DEF Places
    <2>. QED  BY <1>2, <2>2, <2>3, <2>4
  <1>3. CASE q \in Records
    <2>1. /\ q.room \in Places /\ q.moved \in Nat /\ q.sockets \in Nat /\ q.dropped \in Nat
          /\ q.over \in BOOLEAN /\ q.state \in States
      BY <1>3 DEF Records, Places
    <2>2. q.state # "none"  BY <2>1 DEF States
    <2>. QED  BY <1>1, <1>3, <2>1, <2>2
  <1>. QED  BY <1>2, <1>3

LEMMA ArrivedIs == Arrived \in Records /\ Arrived # NoRecord
  <1>1. Arrived \in Records  BY DEF Arrived, Records, States
  <1>2. Arrived.state # NoRecord.state  BY DEF Arrived, NoRecord
  <1>. QED  BY <1>1, <1>2

\* The session that moved last, of those in a room.
LEMMA NewestExists ==
  ASSUME NEW R \in [Sessions -> Records \union {NoRecord}], NEW n \in Nat, Numbered(R, n),
         NEW S \in SUBSET Sessions, S # {}
  PROVE  \E s \in S : \A t \in S : R[t].moved <= R[s].moved
  <1>1. \A s \in Sessions : R[s].moved \in 0..n  BY RecordIs DEF Numbered
  <1>. DEFINE U == {n - R[s].moved : s \in S}
  <1>2. U \in SUBSET Nat /\ U # {}
    <2>1. \A s \in S : n - R[s].moved \in Nat  BY <1>1
    <2>. QED  BY <2>1
  <1>3. IsWellFoundedOn(OpToRel(<,Nat), Nat)  BY NatLessThanWellFounded
  <1>4. PICK u \in U : \A v \in U : ~ (<<v, u>> \in OpToRel(<,Nat))  BY <1>2, <1>3, WFMin
  <1>5. \A v \in U : ~ (v < u)  BY <1>2, <1>4 DEF OpToRel
  <1>6. PICK s \in S : u = n - R[s].moved  BY <1>4
  <1>7. ASSUME NEW t \in S
        PROVE  R[t].moved <= R[s].moved
    <2>1. n - R[t].moved \in U  OBVIOUS
    <2>2. ~ (n - R[t].moved < n - R[s].moved)  BY <1>5, <1>6, <2>1
    <2>3. R[t].moved \in 0..n /\ R[s].moved \in 0..n  BY <1>1
    <2>. QED  BY <2>2, <2>3
  <1>. QED  BY <1>7

Here(R) == {s \in Sessions : R[s] # NoRecord}
Placed(R) == {s \in Here(R) : R[s].room # NoRoom}

\* What merge makes of the records.
LEMMA MergeIs ==
  ASSUME NEW R
  PROVE  /\ Here(R) = {} => Merge(R) = Offline
         /\ Here(R) # {} /\ (\E s \in Here(R) : R[s].state = "away") => Merge(R) = Entry("away", NoRoom)
         /\ Here(R) # {} /\ ~(\E s \in Here(R) : R[s].state = "away") /\ Placed(R) # {} =>
              Merge(R) = Entry("in_room", R[CHOOSE s \in Placed(R) : \A t \in Placed(R) : R[t].moved <= R[s].moved].room)
         /\ Here(R) # {} /\ ~(\E s \in Here(R) : R[s].state = "away") /\ Placed(R) = {} =>
              Merge(R) = Entry(IF \E s \in Here(R) : R[s].state = "around" THEN "around" ELSE "idle", NoRoom)
  BY DEF Merge, Here, Placed

\* ... in the room of the one that moved last.
LEMMA MergeInRoom ==
  ASSUME NEW R \in [Sessions -> Records \union {NoRecord}], NEW n \in Nat, Numbered(R, n),
         ~(\E s \in Here(R) : R[s].state = "away"), NEW x \in Placed(R),
         \A t \in Placed(R) : R[t].moved <= R[x].moved
  PROVE  Merge(R) = Entry("in_room", R[x].room)
  <1>. DEFINE y == CHOOSE s \in Placed(R) : \A t \in Placed(R) : R[t].moved <= R[s].moved
  <1>1. y \in Placed(R) /\ \A t \in Placed(R) : R[t].moved <= R[y].moved  OBVIOUS
  <1>2. x \in Sessions /\ y \in Sessions /\ R[x].room # NoRoom /\ R[y].room # NoRoom
    BY <1>1 DEF Placed, Here
  <1>3. R[x].moved \in Nat /\ R[y].moved \in Nat  BY <1>2, RecordIs
  <1>4. R[x].moved = R[y].moved  BY <1>1, <1>3
  <1>5. x = y  BY <1>2, <1>4 DEF Numbered
  <1>6. Here(R) # {}  BY DEF Placed
  <1>. QED  BY <1>5, <1>6, MergeIs

LEMMA MergeTypes ==
  ASSUME NEW R \in [Sessions -> Records \union {NoRecord}], NEW n \in Nat, Numbered(R, n)
  PROVE  /\ Merge(R) \in Entries /\ Merge(R).room \in Places
         /\ Merge(R) = Offline <=> \A s \in Sessions : R[s] = NoRecord
  <1>0. Offline \in Entries /\ Offline.state = "offline" /\ Offline.room \in Places
    BY DEF Offline, Entries, Places
  <1>1. ASSUME NEW state \in {"away", "around", "idle", "in_room"}, NEW r \in Places
        PROVE  Entry(state, r) \in Entries /\ Entry(state, r).room \in Places /\ Entry(state, r) # Offline
    <2>1. Entry(state, r).state = state /\ Entry(state, r).room = r  BY DEF Entry
    <2>2. Entry(state, r) \in Entries  BY DEF Entry, Entries, States, Places
    <2>. QED  BY <1>0, <2>1, <2>2
  <1>2. CASE Here(R) = {}
    <2>1. \A s \in Sessions : R[s] = NoRecord  BY <1>2 DEF Here
    <2>. QED  BY <1>0, <1>2, <2>1, MergeIs
  <1>3. CASE Here(R) # {}
    <2>0. ~ \A s \in Sessions : R[s] = NoRecord  BY <1>3 DEF Here
    <2>1. CASE \E s \in Here(R) : R[s].state = "away"
      <3>1. Merge(R) = Entry("away", NoRoom) /\ NoRoom \in Places  BY <1>3, <2>1, MergeIs DEF Places
      <3>. QED  BY <1>1, <2>0, <3>1
    <2>2. CASE ~(\E s \in Here(R) : R[s].state = "away") /\ Placed(R) # {}
      <3>1. Placed(R) \in SUBSET Sessions  BY DEF Placed, Here
      <3>2. PICK x \in Placed(R) : \A t \in Placed(R) : R[t].moved <= R[x].moved
        BY <2>2, <3>1, NewestExists
      <3>3. Merge(R) = Entry("in_room", R[x].room)  BY <2>2, <3>2, MergeInRoom
      <3>4. R[x].room \in Places  BY <3>1, RecordIs
      <3>. QED  BY <1>1, <2>0, <3>3, <3>4
    <2>3. CASE ~(\E s \in Here(R) : R[s].state = "away") /\ Placed(R) = {}
      <3>. DEFINE state == IF \E s \in Here(R) : R[s].state = "around" THEN "around" ELSE "idle"
      <3>1. Merge(R) = Entry(state, NoRoom) /\ NoRoom \in Places  BY <1>3, <2>3, MergeIs DEF Places
      <3>2. state \in {"away", "around", "idle", "in_room"}  OBVIOUS
      <3>. HIDE DEF state
      <3>. QED  BY <1>1, <2>0, <3>1, <3>2
    <2>. QED  BY <2>1, <2>2, <2>3
  <1>. QED  BY <1>2, <1>3

\* Records that differ only in how many sockets hold them, and in which drop they wait for.
LEMMA MergeSame ==
  ASSUME NEW R \in [Sessions -> Records \union {NoRecord}], NEW n \in Nat, Numbered(R, n),
         NEW Q \in [Sessions -> Records \union {NoRecord}], Numbered(Q, n),
         \A s \in Sessions : Q[s].room = R[s].room /\ Q[s].state = R[s].state /\ Q[s].moved = R[s].moved
  PROVE  Merge(Q) = Merge(R)
  <1>1. \A s \in Sessions : Q[s] = NoRecord <=> R[s] = NoRecord  BY RecordIs
  <1>2. Here(Q) = Here(R)  BY <1>1 DEF Here
  <1>3. Placed(Q) = Placed(R)  BY <1>2 DEF Placed, Here
  <1>3a. Here(R) \in SUBSET Sessions /\ Placed(R) \in SUBSET Here(R)  BY DEF Here, Placed
  <1>4. (\E s \in Here(Q) : Q[s].state = "away") <=> (\E s \in Here(R) : R[s].state = "away")
    BY <1>2, <1>3a
  <1>5. (\E s \in Here(Q) : Q[s].state = "around") <=> (\E s \in Here(R) : R[s].state = "around")
    BY <1>2, <1>3a
  <1>6. CASE Here(R) = {}  BY <1>2, <1>6, MergeIs
  <1>7. CASE Here(R) # {} /\ \E s \in Here(R) : R[s].state = "away"  BY <1>2, <1>4, <1>7, MergeIs
  <1>8. CASE Here(R) # {} /\ ~(\E s \in Here(R) : R[s].state = "away") /\ Placed(R) # {}
    <2>1. PICK x \in Placed(R) : \A t \in Placed(R) : R[t].moved <= R[x].moved
      BY <1>3a, <1>8, NewestExists
    <2>2. Merge(R) = Entry("in_room", R[x].room)  BY <1>8, <2>1, MergeInRoom
    <2>3. \A t \in Placed(Q) : Q[t].moved <= Q[x].moved  BY <1>3, <1>3a, <2>1
    <2>4. Merge(Q) = Entry("in_room", Q[x].room)  BY <1>3, <1>4, <1>8, <2>1, <2>3, MergeInRoom
    <2>. QED  BY <1>3a, <2>2, <2>4
  <1>9. CASE Here(R) # {} /\ ~(\E s \in Here(R) : R[s].state = "away") /\ Placed(R) = {}
    BY <1>2, <1>3, <1>4, <1>5, <1>9, MergeIs
  <1>. QED  BY <1>6, <1>7, <1>8, <1>9

\* A session that arrives changes nobody's room.
LEMMA MergeArrival ==
  ASSUME NEW R \in [Sessions -> Records \union {NoRecord}], NEW n \in Nat, Numbered(R, n),
         NEW Q \in [Sessions -> Records \union {NoRecord}], Numbered(Q, n),
         \A s \in Sessions : /\ Q[s].room = R[s].room /\ Q[s].moved = R[s].moved
                             /\ R[s] # NoRecord => Q[s] # NoRecord /\ Q[s].state = R[s].state
                             /\ R[s] = NoRecord => Q[s].state # "away"
  PROVE  Merge(Q).room = Merge(R).room
  <1>1. \A state, r : Entry(state, r).room = r  BY DEF Entry
  <1>2. Offline.room = NoRoom  BY DEF Offline
  <1>3. Here(R) \in SUBSET Here(Q) /\ Here(Q) \in SUBSET Sessions /\ Placed(R) \in SUBSET Here(R)
    BY DEF Here, Placed
  <1>4. Placed(Q) = Placed(R)
    <2>1. \A s \in Sessions : R[s] = NoRecord => R[s].room = NoRoom  BY RecordIs
    <2>. QED  BY <2>1 DEF Placed, Here
  <1>5. (\E s \in Here(Q) : Q[s].state = "away") <=> (\E s \in Here(R) : R[s].state = "away")
    BY <1>3 DEF Here
  <1>6. CASE \E s \in Here(R) : R[s].state = "away"
    <2>1. Here(R) # {} /\ Here(Q) # {}  BY <1>3, <1>6
    <2>. QED  BY <1>1, <1>5, <1>6, <2>1, MergeIs
  <1>7. CASE ~(\E s \in Here(R) : R[s].state = "away") /\ Placed(R) # {}
    <2>1. PICK x \in Placed(R) : \A t \in Placed(R) : R[t].moved <= R[x].moved
      BY <1>3, <1>7, NewestExists
    <2>2. Merge(R) = Entry("in_room", R[x].room)  BY <1>7, <2>1, MergeInRoom
    <2>3. \A t \in Placed(Q) : Q[t].moved <= Q[x].moved  BY <1>3, <1>4, <2>1
    <2>4. Merge(Q) = Entry("in_room", Q[x].room)  BY <1>4, <1>5, <1>7, <2>1, <2>3, MergeInRoom
    <2>. QED  BY <1>3, <2>2, <2>4
  <1>8. CASE ~(\E s \in Here(R) : R[s].state = "away") /\ Placed(R) = {}
    <2>1. Merge(R).room = NoRoom
      BY <1>1, <1>2, <1>8, MergeIs
    <2>2. Merge(Q).room = NoRoom
      BY <1>1, <1>2, <1>4, <1>5, <1>8, MergeIs
    <2>. QED  BY <2>1, <2>2
  <1>. QED  BY <1>6, <1>7, <1>8

LEMMA SpeaksAgainIs ==
  ASSUME NEW own \in Records
  PROVE  /\ SpeaksAgain(own) \in Records /\ ~SpeaksAgain(own).over
         /\ SpeaksAgain(own).sockets = own.sockets /\ SpeaksAgain(own).dropped = own.dropped
         /\ ~own.over => SpeaksAgain(own) = own
         /\ own.over => /\ SpeaksAgain(own).room = NoRoom /\ SpeaksAgain(own).state = "around"
                        /\ SpeaksAgain(own).moved = 0
  <1>. DEFINE q == [Arrived EXCEPT !.sockets = own.sockets, !.dropped = own.dropped]
  <1>1. own.sockets \in Nat /\ own.dropped \in Nat  BY DEF Records
  <1>2. q \in Records  BY <1>1, ArrivedIs DEF Records
  <1>3. /\ q.sockets = own.sockets /\ q.dropped = own.dropped
        /\ q.room = NoRoom /\ q.state = "around" /\ q.moved = 0
    BY DEF Arrived
  <1>4. ~q.over  BY DEF Arrived
  <1>5. CASE own.over
    <2>1. SpeaksAgain(own) = q  BY <1>5 DEF SpeaksAgain
    <2>. HIDE DEF q
    <2>. QED  BY <1>2, <1>3, <1>4, <1>5, <2>1
  <1>6. CASE ~own.over
    <2>1. SpeaksAgain(own) = own  BY <1>6 DEF SpeaksAgain
    <2>. QED  BY <1>6, <2>1
  <1>. QED  BY <1>5, <1>6

LEMMA OpenedIs ==
  ASSUME NEW own \in Records
  PROVE  /\ Opened(own) \in Records
         /\ Opened(own).room = own.room /\ Opened(own).state = own.state /\ Opened(own).moved = own.moved
         /\ Opened(own).sockets = own.sockets + 1 /\ Opened(own).dropped = own.dropped
         /\ own.sockets = 0 /\ own.dropped # 0 => Opened(own).over
         /\ own.dropped = 0 => (Opened(own).over <=> own.over)
  <1>1. own.sockets \in Nat /\ own.over \in BOOLEAN  BY DEF Records
  <1>. DEFINE over == own.over \/ (own.sockets = 0 /\ own.dropped # 0)
  <1>2. over \in BOOLEAN  OBVIOUS
  <1>3. /\ own.sockets = 0 /\ own.dropped # 0 => over
        /\ own.dropped = 0 => (over <=> own.over)
    OBVIOUS
  <1>4. Opened(own) = [own EXCEPT !.over = over, !.sockets = own.sockets + 1]  BY DEF Opened
  <1>. HIDE DEF over
  <1>. DEFINE q == [own EXCEPT !.over = over, !.sockets = own.sockets + 1]
  <1>5. q \in Records
    <2>1. own.sockets + 1 \in Nat  BY <1>1
    <2>. QED  BY <1>2, <2>1 DEF Records
  <1>6. q.room = own.room /\ q.state = own.state /\ q.moved = own.moved /\ q.dropped = own.dropped
    BY DEF Records
  <1>7. q.sockets = own.sockets + 1  BY DEF Records
  <1>8. q.over = over  BY DEF Records
  <1>. HIDE DEF q
  <1>9. Opened(own) = q  BY <1>4 DEF q
  <1>. QED  BY <1>3, <1>5, <1>6, <1>7, <1>8, <1>9

LEMMA NumberedKept ==
  ASSUME NEW R, NEW Q, NEW n \in Nat, Numbered(R, n),
         \A s \in Sessions : \/ Q[s].room = R[s].room /\ Q[s].moved = R[s].moved
                             \/ Q[s].room = NoRoom /\ Q[s].moved = 0
  PROVE  Numbered(Q, n)
  BY DEF Numbered

LEMMA NumberedMoved ==
  ASSUME NEW R \in [Sessions -> Records \union {NoRecord}], NEW Q, NEW n \in Nat, Numbered(R, n),
         NEW s \in Sessions, Q[s].moved = n + 1, \A t \in Sessions : t # s => Q[t] = R[t]
  PROVE  Numbered(Q, n + 1)
  <1>1. \A t \in Sessions : R[t].moved \in Nat /\ R[t].moved <= n  BY RecordIs DEF Numbered
  <1>2. \A t \in Sessions : Q[t].moved <= n + 1  BY <1>1
  <1>3. \A t \in Sessions : t # s => Q[t].moved # n + 1  BY <1>1
  <1>. QED  BY <1>2, <1>3 DEF Numbered

-----------------------------------------------------------------------------
(* Every step keeps the records *)

\* A session a step is not about.
LEMMA OtherSession ==
  ASSUME NEW t \in Sessions, TypeRec, SessionInv(t), drops' \in Nat, drops <= drops',
         rec'[t] = rec[t], stale'[t] = stale[t], said'[t] = said[t],
         t \in up' <=> t \in up, t \in replaced' <=> t \in replaced, t \in cameBack' <=> t \in cameBack,
         \A n \in Nat : <<t, n>> \in timers' <=> <<t, n>> \in timers, timers' \subseteq Sessions \X Nat
  PROVE  SessionInv(t)'
  <1>1. Sockets(t)'  BY DEF SessionInv, Sockets
  <1>2. Believed(t)'  BY DEF SessionInv, Believed
  <1>3. Grace(t)'
    <2>1. rec[t].dropped \in Nat /\ drops \in Nat /\ rec[t].dropped <= drops
      BY RecordIs DEF TypeRec, SessionInv, Grace
    <2>2. rec'[t].dropped <= drops'  BY <2>1
    <2>3. ASSUME rec[t] # NoRecord, rec[t].sockets = 0, NEW p \in timers', p[1] = t
          PROVE  p[2] <= rec[t].dropped
      <3>1. p = <<t, p[2]>> /\ p[2] \in Nat  BY <2>3
      <3>2. p \in timers  BY <3>1
      <3>. QED  BY <2>3, <3>2 DEF SessionInv, Grace
    <2>4. rec[t] # NoRecord /\ rec[t].sockets = 0 => <<t, rec[t].dropped>> \in timers'
      BY <2>1 DEF SessionInv, Grace
    <2>. QED  BY <2>2, <2>3, <2>4 DEF Grace
  <1>. QED  BY <1>1, <1>2, <1>3 DEF SessionInv

\* An app with a live socket has a record.
LEMMA UpHasRecord ==
  ASSUME RecInv, NEW s \in Sessions
  PROVE  /\ s \in up \/ stale[s] > 0 => rec[s] # NoRecord /\ rec[s] \in Records
         /\ rec[s] \in Records \union {NoRecord} /\ stale[s] \in Nat /\ rec[s].sockets \in Nat
  <1>1. rec[s] \in Records \union {NoRecord} /\ stale[s] \in Nat  BY DEF RecInv, TypeRec
  <1>2. rec[s].sockets \in Nat  BY <1>1, RecordIs
  <1>3. s \in up \/ stale[s] > 0 => rec[s].sockets # 0  BY <1>1, <1>2 DEF RecInv, SessionInv, Sockets
  <1>. QED  BY <1>1, <1>2, <1>3, RecordIs

LEMMA RecOpened ==
  ASSUME RecInv, NEW s \in Sessions, ConnectionOpened(s)
  PROVE  /\ RecInv' /\ order' = order /\ rec'[s] # NoRecord
         /\ \A t \in Sessions :
              /\ rec'[t].room = rec[t].room /\ rec'[t].moved = rec[t].moved
              /\ rec[t] # NoRecord => rec'[t] # NoRecord /\ rec'[t].state = rec[t].state
              /\ rec[t] = NoRecord => rec'[t].state # "away"
  <1>. DEFINE own == IF rec[s] = NoRecord THEN Arrived ELSE rec[s]
              q == Opened(own)
  <1>0. TypeRec /\ rec[s] \in Records \union {NoRecord} /\ rec[s].sockets \in Nat
    BY UpHasRecord DEF RecInv
  <1>1. /\ s \notin up /\ rec' = [rec EXCEPT ![s] = q]
        /\ up' = up \union {s} /\ said' = [said EXCEPT ![s] = Fresh]
        /\ replaced' = IF rec[s].sockets > 0 THEN replaced \union {s} ELSE replaced \ {s}
        /\ cameBack' = cameBack \ {s}
        /\ order' = order /\ drops' = drops /\ timers' = timers /\ stale' = stale
    BY DEF ConnectionOpened, Remerge, numbers
  <1>2. own \in Records /\ own.sockets = rec[s].sockets
    <2>1. rec[s] = NoRecord => rec[s].sockets = 0  BY RecordIs
    <2>2. Arrived.sockets = 0  BY DEF Arrived
    <2>. QED  BY <1>0, <2>1, <2>2, ArrivedIs
  <1>3. /\ q \in Records /\ q # NoRecord
        /\ q.room = own.room /\ q.state = own.state /\ q.moved = own.moved
        /\ q.sockets = own.sockets + 1 /\ q.dropped = own.dropped
        /\ own.sockets = 0 /\ own.dropped # 0 => q.over
        /\ own.dropped = 0 => (q.over <=> own.over)
    BY <1>2, OpenedIs, RecordIs
  <1>4. /\ rec[s] = NoRecord => own.room = NoRoom /\ own.moved = 0 /\ own.state = "around"
                                /\ own.dropped = 0 /\ ~own.over
        /\ rec[s] # NoRecord => own = rec[s]
    BY DEF Arrived
  <1>. HIDE DEF own, q
  <1>5. rec'[s] = q /\ \A t \in Sessions : t # s => rec'[t] = rec[t]  BY <1>0, <1>1 DEF TypeRec
  <1>6. TypeRec'
    <2>1. Fresh \in [room : Places, state : States]  BY DEF Fresh, Places, States
    <2>. QED  BY <1>0, <1>1, <1>3, <2>1 DEF TypeRec
  <1>7. \A t \in Sessions :
              /\ rec'[t].room = rec[t].room /\ rec'[t].moved = rec[t].moved
              /\ rec[t] # NoRecord => rec'[t] # NoRecord /\ rec'[t].state = rec[t].state
              /\ rec[t] = NoRecord => rec'[t].state # "away"
    <2>1. NoRecord.room = NoRoom /\ NoRecord.moved = 0 /\ NoRecord.state # "away"
      BY DEF NoRecord, Arrived
    <2>2. q.room = rec[s].room /\ q.moved = rec[s].moved  BY <1>3, <1>4, <2>1
    <2>3. rec[s] = NoRecord => q.state # "away"  BY <1>3, <1>4
    <2>4. rec[s] # NoRecord => q.state = rec[s].state  BY <1>3, <1>4
    <2>5. ASSUME NEW t \in Sessions
          PROVE  /\ rec'[t].room = rec[t].room /\ rec'[t].moved = rec[t].moved
                 /\ rec[t] # NoRecord => rec'[t] # NoRecord /\ rec'[t].state = rec[t].state
                 /\ rec[t] = NoRecord => rec'[t].state # "away"
      <3>1. CASE t = s  BY <1>3, <1>5, <2>2, <2>3, <2>4, <3>1
      <3>2. CASE t # s
        <4>1. rec'[t] = rec[t]  BY <1>5, <3>2
        <4>. QED  BY <2>1, <4>1
      <3>. QED  BY <3>1, <3>2
    <2>. QED  BY <2>5
  <1>8. Numbered(rec', order')
    <2>1. order \in Nat /\ Numbered(rec, order)  BY DEF RecInv, TypeRec
    <2>2. Numbered(rec', order)  BY <1>7, <2>1, NumberedKept
    <2>. QED  BY <1>1, <2>2
  <1>9. ASSUME NEW t \in Sessions PROVE SessionInv(t)'
    <2>1. CASE t # s
      BY <1>0, <1>1, <1>5, <1>6, <2>1, OtherSession DEF RecInv, TypeRec
    <2>2. CASE t = s
      <3>1. SessionInv(s) /\ stale[s] \in Nat  BY UpHasRecord DEF RecInv
      <3>2. Sockets(s)'  BY <1>1, <1>2, <1>3, <1>5, <3>1 DEF Sockets, SessionInv
      <3>3. q.dropped <= drops
        BY <1>0, <1>3, <1>4, <3>1 DEF SessionInv, Grace, TypeRec
      <3>4. q.sockets # 0  BY <1>0, <1>2, <1>3
      <3>5. Grace(s)'  BY <1>1, <1>5, <3>3, <3>4 DEF Grace
      <3>6. Believed(s)'
        <4>. SUFFICES ASSUME s \in up' \ replaced'
                      PROVE  /\ stale'[s] = 0
                             /\ rec'[s].over => said'[s] = Fresh
                             /\ ~rec'[s].over => /\ rec'[s].room = said'[s].room
                                                 /\ s \notin cameBack' => rec'[s].state = said'[s].state
          BY DEF Believed
        <4>1. rec[s].sockets = 0  BY <1>0, <1>1
        <4>2. stale[s] = 0  BY <1>1, <3>1, <4>1 DEF SessionInv, Sockets
        <4>3. said'[s] = Fresh  BY <1>0, <1>1 DEF TypeRec
        <4>4. CASE rec[s] = NoRecord
          <5>1. Fresh.room = NoRoom /\ Fresh.state = "around"  BY DEF Fresh
          <5>. QED  BY <1>1, <1>3, <1>4, <1>5, <4>2, <4>3, <4>4, <5>1
        <4>5. CASE rec[s] # NoRecord
          <5>1. <<s, rec[s].dropped>> \in timers  BY <3>1, <4>1, <4>5 DEF SessionInv, Grace
          <5>2. rec[s].dropped \in 1..drops  BY <5>1 DEF RecInv
          <5>3. q.over  BY <1>2, <1>3, <1>4, <4>1, <4>5, <5>2
          <5>. QED  BY <1>1, <1>5, <4>2, <4>3, <5>3
        <4>. QED  BY <4>4, <4>5
      <3>. QED  BY <2>2, <3>2, <3>5, <3>6 DEF SessionInv
    <2>. QED  BY <2>1, <2>2
  <1>. QED  BY <1>1, <1>3, <1>5, <1>6, <1>7, <1>8, <1>9 DEF RecInv

\* A step about one session: it is enough to look at that one.
LEMMA OneSession ==
  ASSUME RecInv, NEW s \in Sessions, TypeRec', Numbered(rec', order'),
         \A p \in timers' : p[2] \in 1..drops', drops <= drops',
         \A t \in Sessions : t # s =>
           /\ rec'[t] = rec[t] /\ stale'[t] = stale[t] /\ said'[t] = said[t]
           /\ t \in up' <=> t \in up
           /\ t \in replaced' <=> t \in replaced
           /\ t \in cameBack' <=> t \in cameBack
           /\ \A n \in Nat : <<t, n>> \in timers' <=> <<t, n>> \in timers,
         SessionInv(s)'
  PROVE  RecInv'
  <1>1. ASSUME NEW t \in Sessions, t # s
        PROVE  SessionInv(t)'
    <2>1. TypeRec /\ SessionInv(t)  BY DEF RecInv
    <2>2. drops' \in Nat /\ timers' \subseteq Sessions \X Nat  BY DEF TypeRec
    <2>. QED  BY <1>1, <2>1, <2>2, OtherSession
  <1>. QED  BY <1>1 DEF RecInv

\* A record with its sockets counted anew, and the drop it waits for.
Counted(own, n, d) == [own EXCEPT !.sockets = n, !.dropped = d]

LEMMA RecVanish ==
  ASSUME RecInv, NEW s \in Sessions, Vanish(s)
  PROVE  RecInv'
  <1>1. /\ s \in up /\ up' = up \ {s} /\ stale' = [stale EXCEPT ![s] = @ + 1]
        /\ rec' = rec /\ order' = order /\ drops' = drops /\ timers' = timers /\ said' = said
        /\ replaced' = replaced /\ cameBack' = cameBack
    BY DEF Vanish, maps, numbers
  <1>2. TypeRec /\ SessionInv(s) /\ stale[s] \in Nat  BY DEF RecInv, TypeRec
  <1>3. stale'[s] = stale[s] + 1  BY <1>1, <1>2 DEF TypeRec
  <1>4. TypeRec'  BY <1>1, <1>2 DEF TypeRec
  <1>5. SessionInv(s)'
    <2>1. Sockets(s)'  BY <1>1, <1>2, <1>3 DEF SessionInv, Sockets
    <2>2. Grace(s)'  BY <1>1, <1>2 DEF SessionInv, Grace
    <2>3. Believed(s)'  BY <1>1 DEF Believed
    <2>. QED  BY <2>1, <2>2, <2>3 DEF SessionInv
  <1>6. \A t \in Sessions : t # s =>
           /\ rec'[t] = rec[t] /\ stale'[t] = stale[t] /\ said'[t] = said[t]
           /\ t \in up' <=> t \in up
    BY <1>1, <1>2 DEF TypeRec
  <1>7. Numbered(rec', order') /\ (\A p \in timers' : p[2] \in 1..drops') /\ drops <= drops'
    BY <1>1, <1>2 DEF RecInv, TypeRec
  <1>. QED  BY <1>1, <1>4, <1>5, <1>6, <1>7, OneSession

\* The server finds a socket gone.
LEMMA RecDropped ==
  ASSUME RecInv, NEW s \in Sessions, ConnectionDropped(s)
  PROVE  /\ RecInv'
         /\ \A t \in Sessions : rec'[t].room = rec[t].room /\ rec'[t].state = rec[t].state
                                /\ rec'[t].moved = rec[t].moved
  <1>. DEFINE left == rec[s].sockets - 1
  <1>1. /\ stale[s] > 0 /\ stale' = [stale EXCEPT ![s] = @ - 1]
        /\ order' = order /\ up' = up /\ said' = said
        /\ replaced' = replaced /\ cameBack' = cameBack
    BY DEF ConnectionDropped
  <1>2. /\ TypeRec /\ SessionInv(s) /\ stale[s] \in Nat /\ rec[s] \in Records /\ rec[s] # NoRecord
        /\ rec[s].sockets \in Nat /\ rec[s].dropped \in Nat
    BY <1>1, UpHasRecord DEF RecInv, Records
  <1>3. \/ /\ left > 0 /\ rec' = [rec EXCEPT ![s].sockets = left]
           /\ drops' = drops /\ timers' = timers
        \/ /\ left = 0 /\ rec' = [rec EXCEPT ![s].sockets = 0, ![s].dropped = drops + 1]
           /\ drops' = drops + 1 /\ timers' = timers \union {<<s, drops + 1>>}
    BY <1>2 DEF ConnectionDropped, DropNumber
  <1>4. stale'[s] = stale[s] - 1 /\ stale'[s] \in Nat /\ \A t \in Sessions : t # s => stale'[t] = stale[t]
    BY <1>1, <1>2 DEF TypeRec
  <1>5. /\ left \in Nat /\ drops \in Nat /\ rec[s].dropped <= drops
        /\ left = stale'[s] + (IF s \in up THEN 1 ELSE 0)
    BY <1>1, <1>2, <1>4 DEF TypeRec, SessionInv, Sockets, Grace
  <1>. HIDE DEF left
  <1>. DEFINE With(d) ==
          /\ d <= drops' /\ drops' \in Nat /\ drops <= drops'
          /\ rec' = [rec EXCEPT ![s] = Counted(rec[s], left, d)]
          /\ \/ left > 0 /\ timers' = timers
             \/ left = 0 /\ d = drops + 1 /\ drops' = d /\ timers' = timers \union {<<s, d>>}
  <1>6. \E d \in Nat : With(d)
    <2>1. CASE /\ left > 0 /\ rec' = [rec EXCEPT ![s].sockets = left]
               /\ drops' = drops /\ timers' = timers
      <3>1. [rec[s] EXCEPT !.sockets = left] = Counted(rec[s], left, rec[s].dropped)
        BY <1>2 DEF Records, Counted
      <3>2. rec' = [rec EXCEPT ![s] = Counted(rec[s], left, rec[s].dropped)]
        BY <2>1, <3>1
      <3>3. rec[s].dropped <= drops' /\ drops' \in Nat /\ drops <= drops'  BY <1>5, <2>1
      <3>4. With(rec[s].dropped)  BY <2>1, <3>2, <3>3
      <3>. HIDE DEF With
      <3>. QED  BY <1>2, <3>4
    <2>2. CASE /\ left = 0 /\ rec' = [rec EXCEPT ![s].sockets = 0, ![s].dropped = drops + 1]
               /\ drops' = drops + 1 /\ timers' = timers \union {<<s, drops + 1>>}
      <3>1. rec' = [rec EXCEPT ![s] = Counted(rec[s], left, drops + 1)]
        BY <1>2, <2>2 DEF TypeRec, Counted
      <3>2. drops + 1 \in Nat /\ drops <= drops + 1  BY <1>5
      <3>3. drops + 1 <= drops' /\ drops' \in Nat /\ drops <= drops'  BY <1>5, <2>2
      <3>4. With(drops + 1)  BY <2>2, <3>1, <3>3
      <3>. HIDE DEF With
      <3>. QED  BY <3>2, <3>4
    <2>. QED  BY <1>3, <2>1, <2>2 DEF left
  <1>7. PICK d \in Nat : With(d)  BY <1>6
  <1>. DEFINE q == Counted(rec[s], left, d)
  <1>8. /\ d <= drops' /\ drops' \in Nat /\ drops <= drops'
        /\ \/ left > 0 /\ timers' = timers
           \/ left = 0 /\ d = drops + 1 /\ drops' = d /\ timers' = timers \union {<<s, d>>}
        /\ rec' = [rec EXCEPT ![s] = q]
    BY <1>7
  <1>8a. /\ q \in Records /\ q.room = rec[s].room /\ q.state = rec[s].state /\ q.moved = rec[s].moved
         /\ q.sockets = left /\ q.dropped = d /\ q.over = rec[s].over
    <2>1. rec[s] \in Records /\ left \in Nat /\ d \in Nat  BY <1>2, <1>5
    <2>2. q \in Records  BY <2>1 DEF Counted, Records
    <2>3. q.room = rec[s].room /\ q.state = rec[s].state /\ q.moved = rec[s].moved
      BY <2>1 DEF Counted, Records
    <2>4. q.sockets = left /\ q.dropped = d  BY <2>1 DEF Counted, Records
    <2>5. q.over = rec[s].over  BY <2>1 DEF Counted, Records
    <2>. HIDE DEF q
    <2>. QED  BY ONLY <2>2, <2>3, <2>4, <2>5
  <1>. HIDE DEF q, With
  <1>9. rec'[s] = q /\ \A t \in Sessions : t # s => rec'[t] = rec[t]  BY <1>2, <1>8 DEF TypeRec
  <1>10. \A t \in Sessions : rec'[t].room = rec[t].room /\ rec'[t].state = rec[t].state
                             /\ rec'[t].moved = rec[t].moved
    BY <1>8a, <1>9
  <1>11. TypeRec'
    <2>1. timers' \subseteq Sessions \X Nat  BY <1>2, <1>8 DEF TypeRec
    <2>2. rec' \in [Sessions -> Records \union {NoRecord}]  BY <1>2, <1>8, <1>8a DEF TypeRec
    <2>3. stale' \in [Sessions -> Nat]  BY <1>1, <1>2, <1>4 DEF TypeRec
    <2>. QED  BY <1>1, <1>2, <1>8, <2>1, <2>2, <2>3 DEF TypeRec
  <1>12. Numbered(rec', order')
    <2>1. order \in Nat /\ Numbered(rec, order)  BY DEF RecInv, TypeRec
    <2>2. Numbered(rec', order)  BY <1>10, <2>1, NumberedKept
    <2>. QED  BY <1>1, <2>2
  <1>13. \A p \in timers : p[2] \in 1..drops  BY DEF RecInv
  <1>14. \A p \in timers' : p[2] \in 1..drops'
    <2>1. \A p \in timers : p[2] \in 1..drops'  BY <1>5, <1>8, <1>13
    <2>2. CASE timers' = timers  BY <2>1, <2>2
    <2>3. CASE d = drops + 1 /\ drops' = d /\ timers' = timers \union {<<s, d>>}
      <3>1. d \in 1..drops' /\ <<s, d>>[2] = d  BY <1>5, <2>3
      <3>. QED  BY <2>1, <2>3, <3>1
    <2>. QED  BY <1>8, <2>2, <2>3
  <1>15. SessionInv(s)'
    <2>1. Sockets(s)'  BY <1>1, <1>5, <1>8a, <1>9 DEF Sockets
    <2>2. Grace(s)'
      <3>1. rec'[s].dropped <= drops'  BY <1>8, <1>8a, <1>9
      <3>2. CASE left = 0 /\ d = drops + 1 /\ timers' = timers \union {<<s, d>>}
        <4>1. <<s, rec'[s].dropped>> \in timers'  BY <1>8, <1>8a, <1>9, <3>2
        <4>2. \A p \in timers : p[2] <= d  BY <1>5, <1>13, <3>2
        <4>3. <<s, d>>[2] <= d  BY <1>8
        <4>4. \A p \in timers' : p[2] <= rec'[s].dropped  BY <1>8, <1>8a, <1>9, <3>2, <4>2, <4>3
        <4>. QED  BY <3>1, <4>1, <4>4 DEF Grace
      <3>3. CASE left > 0
        <4>1. rec'[s].sockets # 0  BY <1>5, <1>8a, <1>9, <3>3
        <4>. QED  BY <3>1, <4>1 DEF Grace
      <3>. QED  BY <1>8, <3>2, <3>3
    <2>3. s \notin up' \ replaced'  BY <1>1, <1>2 DEF SessionInv, Believed
    <2>4. Believed(s)'  BY <2>3 DEF Believed
    <2>. QED  BY <2>1, <2>2, <2>4 DEF SessionInv
  <1>16. \A t \in Sessions : t # s =>
           \A n \in Nat : <<t, n>> \in timers' <=> <<t, n>> \in timers
    BY <1>8
  <1>17. RecInv'  BY <1>1, <1>4, <1>8, <1>9, <1>11, <1>12, <1>14, <1>15, <1>16, OneSession
  <1>. QED  BY <1>10, <1>17

LEMMA NoRecordIs ==
  /\ NoRecord.room = NoRoom /\ NoRecord.moved = 0 /\ NoRecord.sockets = 0 /\ NoRecord.dropped = 0
  /\ NoRecord.state = "none" /\ ~NoRecord.over
  BY DEF NoRecord, Arrived

\* A session whose record ends.
LEMMA RecGone ==
  ASSUME RecInv, NEW s \in Sessions, NEW a, SessionGone(a, s)
  PROVE  /\ rec' = [rec EXCEPT ![s] = NoRecord]
         /\ rec' \in [Sessions -> Records \union {NoRecord}]
         /\ rec'[s] = NoRecord /\ \A t \in Sessions : t # s => rec'[t] = rec[t]
         /\ Numbered(rec', order)
  <1>1. rec' = [rec EXCEPT ![s] = NoRecord]  BY DEF SessionGone, Remerge
  <1>2. TypeRec /\ order \in Nat /\ Numbered(rec, order)  BY DEF RecInv, TypeRec
  <1>3. rec' \in [Sessions -> Records \union {NoRecord}]  BY <1>1, <1>2 DEF TypeRec
  <1>4. rec'[s] = NoRecord /\ \A t \in Sessions : t # s => rec'[t] = rec[t]
    BY <1>1, <1>2 DEF TypeRec
  <1>5. \A t \in Sessions : \/ rec'[t].room = rec[t].room /\ rec'[t].moved = rec[t].moved
                            \/ rec'[t].room = NoRoom /\ rec'[t].moved = 0
    BY <1>4, NoRecordIs
  <1>6. Numbered(rec', order)  BY <1>2, <1>5, NumberedKept
  <1>. QED  BY <1>1, <1>3, <1>4, <1>6

LEMMA RecClosed ==
  ASSUME RecInv, NEW s \in Sessions, ConnectionClosed(s)
  PROVE  /\ RecInv'
         /\ rec[s].sockets > 1 =>
              \A t \in Sessions : rec'[t].room = rec[t].room /\ rec'[t].state = rec[t].state
                                  /\ rec'[t].moved = rec[t].moved
  <1>1. /\ s \in up /\ up' = up \ {s} /\ stale' = stale /\ order' = order /\ drops' = drops
        /\ timers' = timers /\ said' = said /\ replaced' = replaced /\ cameBack' = cameBack
    BY DEF ConnectionClosed, numbers
  <1>2. /\ TypeRec /\ SessionInv(s) /\ stale[s] \in Nat /\ rec[s] \in Records /\ rec[s] # NoRecord
        /\ rec[s].sockets \in Nat /\ rec[s].dropped \in Nat /\ order \in Nat /\ Numbered(rec, order)
    BY <1>1, UpHasRecord DEF RecInv, Records, TypeRec
  <1>3. /\ rec[s].dropped <= drops /\ drops \in Nat
        /\ rec[s].sockets = stale[s] + 1
    BY <1>1, <1>2 DEF TypeRec, SessionInv, Sockets, Grace
  <1>4. Believed(s)'  BY <1>1 DEF Believed
  <1>5. /\ \A p \in timers' : p[2] \in 1..drops'
        /\ drops <= drops'
    BY <1>1, <1>3 DEF RecInv
  <1>6. CASE rec[s].sockets > 1
    <2>. DEFINE left == rec[s].sockets - 1
                q == Counted(rec[s], left, rec[s].dropped)
    <2>1. rec' = [rec EXCEPT ![s].sockets = left]
      BY <1>6 DEF ConnectionClosed
    <2>2. [rec[s] EXCEPT !.sockets = left] = q  BY <1>2 DEF Records, Counted
    <2>3. rec' = [rec EXCEPT ![s] = q]  BY <2>1, <2>2
    <2>4. rec[s] \in Records /\ left \in Nat /\ rec[s].dropped \in Nat /\ left = stale[s] /\ left > 0
      BY <1>2, <1>3, <1>6
    <2>. HIDE DEF left
    <2>5. /\ q \in Records /\ q.room = rec[s].room /\ q.state = rec[s].state /\ q.moved = rec[s].moved
          /\ q.sockets = left /\ q.dropped = rec[s].dropped
      <3>1. rec[s] \in Records /\ left \in Nat /\ rec[s].dropped \in Nat  BY <2>4
      <3>2. q \in Records  BY <3>1 DEF Counted, Records
      <3>3. q.room = rec[s].room /\ q.state = rec[s].state /\ q.moved = rec[s].moved
        BY <3>1 DEF Counted, Records
      <3>4. q.sockets = left /\ q.dropped = rec[s].dropped  BY <3>1 DEF Counted, Records
      <3>. HIDE DEF q
      <3>. QED  BY ONLY <3>2, <3>3, <3>4
    <2>. HIDE DEF q
    <2>6. rec'[s] = q /\ \A t \in Sessions : t # s => rec'[t] = rec[t]  BY <1>2, <2>3 DEF TypeRec
    <2>7. \A t \in Sessions : rec'[t].room = rec[t].room /\ rec'[t].state = rec[t].state
                              /\ rec'[t].moved = rec[t].moved
      BY <2>5, <2>6
    <2>8. TypeRec'  BY <1>1, <1>2, <2>3, <2>5 DEF TypeRec
    <2>9. Numbered(rec', order')
      <3>1. Numbered(rec', order)  BY <1>2, <2>7, NumberedKept
      <3>. QED  BY <1>1, <3>1
    <2>10. SessionInv(s)'
      <3>1. Sockets(s)'  BY <1>1, <2>4, <2>5, <2>6 DEF Sockets
      <3>2. rec'[s].sockets # 0 /\ rec'[s].dropped <= drops'  BY <1>1, <1>3, <2>4, <2>5, <2>6
      <3>3. Grace(s)'  BY <3>2 DEF Grace
      <3>. QED  BY <1>4, <3>1, <3>3 DEF SessionInv
    <2>11. RecInv'  BY <1>1, <1>5, <2>6, <2>8, <2>9, <2>10, OneSession
    <2>. QED  BY <2>7, <2>11
  <1>7. CASE ~(rec[s].sockets > 1)
    <2>1. SessionGone(Handler(s), s)  BY <1>7 DEF ConnectionClosed
    <2>2. /\ rec' \in [Sessions -> Records \union {NoRecord}]
          /\ rec'[s] = NoRecord /\ \A t \in Sessions : t # s => rec'[t] = rec[t]
          /\ Numbered(rec', order)
      BY <2>1, RecGone
    <2>3. TypeRec'  BY <1>1, <1>2, <2>2 DEF TypeRec
    <2>4. stale[s] = 0  BY <1>2, <1>3, <1>7
    <2>5. Sockets(s)'  BY <1>1, <2>2, <2>4, NoRecordIs DEF Sockets
    <2>6. Grace(s)'  BY <1>1, <1>3, <2>2, NoRecordIs DEF Grace
    <2>7. SessionInv(s)'  BY <1>4, <2>5, <2>6 DEF SessionInv
    <2>8. Numbered(rec', order')  BY <1>1, <2>2
    <2>9. RecInv'  BY <1>1, <1>5, <2>2, <2>3, <2>7, <2>8, OneSession
    <2>. QED  BY <1>7, <2>9
  <1>. QED  BY <1>6, <1>7

LEMMA RecGraceOver ==
  ASSUME RecInv, NEW s \in Sessions, NEW n \in Nat, GraceOver(s, n)
  PROVE  RecInv'
  <1>1. /\ <<s, n>> \in timers /\ timers' = timers \ {<<s, n>>}
        /\ up' = up /\ stale' = stale /\ order' = order /\ drops' = drops
        /\ said' = said /\ replaced' = replaced /\ cameBack' = cameBack
    BY DEF GraceOver, apps
  <1>2. /\ TypeRec /\ SessionInv(s) /\ stale[s] \in Nat /\ rec[s] \in Records \union {NoRecord}
        /\ rec[s].sockets \in Nat /\ order \in Nat /\ Numbered(rec, order)
        /\ drops \in Nat /\ rec[s].dropped <= drops
    BY UpHasRecord DEF RecInv, TypeRec, SessionInv, Grace
  <1>3. /\ timers' \subseteq Sessions \X Nat
        /\ \A p \in timers' : p[2] \in 1..drops'
        /\ drops <= drops'
        /\ \A t \in Sessions : t # s => \A k \in Nat : <<t, k>> \in timers' <=> <<t, k>> \in timers
    BY <1>1, <1>2 DEF RecInv, TypeRec
  <1>4. CASE rec[s] = NoRecord \/ rec[s].dropped # n
    <2>1. rec' = rec  BY <1>4 DEF GraceOver
    <2>2. TypeRec' /\ Numbered(rec', order')  BY <1>1, <1>2, <1>3, <2>1 DEF TypeRec
    <2>3. Sockets(s)' /\ Believed(s)'  BY <1>1, <1>2, <2>1 DEF SessionInv, Sockets, Believed
    <2>4. Grace(s)'
      <3>1. rec[s] # NoRecord /\ rec[s].sockets = 0 =>
              /\ <<s, rec[s].dropped>> \in timers /\ rec[s].dropped # n
              /\ \A p \in timers : p[1] = s => p[2] <= rec[s].dropped
        BY <1>2, <1>4 DEF SessionInv, Grace
      <3>. QED  BY <1>1, <1>2, <2>1, <3>1 DEF Grace
    <2>5. SessionInv(s)'  BY <2>3, <2>4 DEF SessionInv
    <2>. QED  BY <1>1, <1>3, <2>1, <2>2, <2>5, OneSession
  <1>. DEFINE own == [rec[s] EXCEPT !.dropped = 0]
  <1>5. ASSUME rec[s] # NoRecord
        PROVE  /\ own \in Records /\ own.room = rec[s].room /\ own.state = rec[s].state
               /\ own.moved = rec[s].moved /\ own.sockets = rec[s].sockets /\ own.dropped = 0
               /\ own.over = rec[s].over
    <2>1. rec[s] \in Records /\ rec[s].sockets \in Nat /\ 0 \in Nat  BY <1>2, <1>5
    <2>2. own = Counted(rec[s], rec[s].sockets, 0)  BY <2>1 DEF Counted, Records
    <2>. HIDE DEF own
    <2>. DEFINE q == Counted(rec[s], rec[s].sockets, 0)
    <2>3. /\ q \in Records /\ q.room = rec[s].room /\ q.state = rec[s].state /\ q.moved = rec[s].moved
          /\ q.sockets = rec[s].sockets /\ q.dropped = 0 /\ q.over = rec[s].over
      <3>1. q \in Records  BY <2>1 DEF Counted, Records
      <3>2. q.room = rec[s].room  BY <2>1 DEF Counted, Records
      <3>3. q.state = rec[s].state  BY <2>1 DEF Counted, Records
      <3>4. q.moved = rec[s].moved  BY <2>1 DEF Counted, Records
      <3>5. q.sockets = rec[s].sockets  BY <2>1 DEF Counted, Records
      <3>6. q.dropped = 0  BY <2>1 DEF Counted, Records
      <3>7. q.over = rec[s].over  BY <2>1 DEF Counted, Records
      <3>. HIDE DEF q
      <3>. QED  BY ONLY <3>1, <3>2, <3>3, <3>4, <3>5, <3>6, <3>7
    <2>. QED  BY ONLY <2>2, <2>3
  <1>6. CASE rec[s] # NoRecord /\ rec[s].dropped = n /\ own.sockets = 0
    <2>1. SessionGone(Timer(s), s)  BY <1>5, <1>6 DEF GraceOver
    <2>. HIDE DEF own
    <2>2. /\ rec' \in [Sessions -> Records \union {NoRecord}]
          /\ rec'[s] = NoRecord /\ \A t \in Sessions : t # s => rec'[t] = rec[t]
          /\ Numbered(rec', order)
      BY <2>1, RecGone
    <2>3. TypeRec'  BY <1>1, <1>2, <1>3, <2>2 DEF TypeRec
    <2>4. s \notin up /\ stale[s] = 0  BY <1>2, <1>5, <1>6 DEF SessionInv, Sockets
    <2>5. Sockets(s)'  BY <1>1, <2>2, <2>4, NoRecordIs DEF Sockets
    <2>6. Grace(s)'  BY <1>1, <1>2, <2>2, NoRecordIs DEF Grace
    <2>7. Believed(s)'  BY <1>1, <2>4 DEF Believed
    <2>8. SessionInv(s)'  BY <2>5, <2>6, <2>7 DEF SessionInv
    <2>9. Numbered(rec', order')  BY <1>1, <2>2
    <2>. QED  BY <1>1, <1>3, <2>2, <2>3, <2>8, <2>9, OneSession
  <1>7. CASE rec[s] # NoRecord /\ rec[s].dropped = n /\ own.sockets > 0
    <2>. DEFINE q == SpeaksAgain(own)
    <2>1. rec' = [rec EXCEPT ![s] = q]  BY <1>5, <1>7 DEF GraceOver, Remerge
    <2>. HIDE DEF own
    <2>2. /\ q \in Records /\ ~q.over /\ q.sockets = rec[s].sockets /\ q.dropped = 0
          /\ ~rec[s].over => q.room = rec[s].room /\ q.state = rec[s].state /\ q.moved = rec[s].moved
          /\ rec[s].over => q.room = NoRoom /\ q.state = "around" /\ q.moved = 0
      BY <1>5, <1>7, SpeaksAgainIs
    <2>. HIDE DEF q
    <2>3. rec'[s] = q /\ \A t \in Sessions : t # s => rec'[t] = rec[t]  BY <1>2, <2>1 DEF TypeRec
    <2>4. TypeRec'  BY <1>1, <1>2, <1>3, <2>1, <2>2 DEF TypeRec
    <2>5. Numbered(rec', order')
      <3>1. \A t \in Sessions : \/ rec'[t].room = rec[t].room /\ rec'[t].moved = rec[t].moved
                                \/ rec'[t].room = NoRoom /\ rec'[t].moved = 0
        BY <2>2, <2>3
      <3>2. Numbered(rec', order)  BY <1>2, <3>1, NumberedKept
      <3>. QED  BY <1>1, <3>2
    <2>6. Sockets(s)'  BY <1>1, <1>2, <2>2, <2>3 DEF Sockets, SessionInv
    <2>7. rec[s].sockets > 0  BY <1>5, <1>7
    <2>8. Grace(s)'  BY <1>1, <1>2, <2>2, <2>3, <2>7 DEF Grace
    <2>9. Believed(s)'
      <3>1. Fresh.room = NoRoom /\ Fresh.state = "around"  BY DEF Fresh
      <3>. QED  BY <1>1, <1>2, <2>2, <2>3, <3>1 DEF SessionInv, Believed
    <2>10. SessionInv(s)'  BY <2>6, <2>8, <2>9 DEF SessionInv
    <2>. QED  BY <1>1, <1>3, <2>3, <2>4, <2>5, <2>10, OneSession
  <1>8. CASE rec[s] # NoRecord /\ rec[s].dropped = n
    <2>1. own.sockets \in Nat  BY <1>2, <1>5, <1>8
    <2>. HIDE DEF own
    <2>2. own.sockets = 0 \/ own.sockets > 0  BY <2>1
    <2>. QED  BY <1>6, <1>7, <1>8, <2>2
  <1>. QED  BY <1>4, <1>8

LEMMA RecFocus ==
  ASSUME RecInv, NEW s \in Sessions, NEW r \in Places, RoomFocus(s, r)
  PROVE  RecInv'
  <1>. DEFINE own == SpeaksAgain(rec[s])
  <1>1. /\ s \in up /\ DecidesRoom(s, r) /\ said' = [said EXCEPT ![s] = SentRoom(r)]
        /\ up' = up /\ stale' = stale /\ drops' = drops
        /\ timers' = timers /\ replaced' = replaced /\ cameBack' = cameBack
    BY DEF RoomFocus
  <1>2. /\ TypeRec /\ SessionInv(s) /\ stale[s] \in Nat /\ rec[s] \in Records /\ rec[s] # NoRecord
        /\ order \in Nat /\ Numbered(rec, order) /\ drops \in Nat /\ rec[s].dropped <= drops
    BY <1>1, UpHasRecord DEF RecInv, TypeRec, SessionInv, Grace
  <1>3. /\ own \in Records /\ ~own.over
        /\ own.sockets = rec[s].sockets /\ own.dropped = rec[s].dropped
        /\ ~rec[s].over => own = rec[s]
        /\ rec[s].over => own.room = NoRoom /\ own.state = "around" /\ own.moved = 0
    BY <1>2, SpeaksAgainIs
  <1>4. /\ SentRoom(r).room = r /\ SentRoom(r).state = "around"
        /\ SentRoom(r) \in [room : Places, state : States]
    BY DEF SentRoom, States
  <1>5. /\ said' \in [Sessions -> [room : Places, state : States]]
        /\ said'[s].room = r /\ said'[s].state = "around"
        /\ \A t \in Sessions : t # s => said'[t] = said[t]
        /\ said[s].state \in States
    BY <1>1, <1>2, <1>4 DEF TypeRec
  <1>6. drops <= drops' /\ \A p \in timers' : p[2] \in 1..drops'  BY <1>1, <1>2 DEF RecInv
  <1>7. r # said[s].room /\ said[s].state # "away"  BY <1>1 DEF DecidesRoom
  <1>8. CASE ~rec[s].over /\ own.room = r
    <2>1. rec' = rec /\ order' = order  BY <1>8 DEF RoomFocus
    <2>2. TypeRec'  BY <1>1, <1>2, <1>5, <2>1 DEF TypeRec
    <2>3. Sockets(s)' /\ Grace(s)'  BY <1>1, <1>2, <2>1 DEF SessionInv, Sockets, Grace
    <2>4. s \in replaced  BY <1>1, <1>2, <1>3, <1>7, <1>8 DEF SessionInv, Believed
    <2>5. Believed(s)'  BY <1>1, <2>4 DEF Believed
    <2>6. SessionInv(s)'  BY <2>3, <2>5 DEF SessionInv
    <2>7. Numbered(rec', order')  BY <1>2, <2>1
    <2>. QED  BY <1>1, <1>5, <1>6, <2>1, <2>2, <2>6, <2>7, OneSession
  <1>9. CASE ~(~rec[s].over /\ own.room = r)
    <2>. DEFINE q == [own EXCEPT !.room = r, !.moved = order + 1,
                                 !.state = IF @ = "idle" THEN "around" ELSE @]
    <2>1. rec' = [rec EXCEPT ![s] = q] /\ order' = order + 1
      BY <1>9 DEF RoomFocus, Remerge
    <2>2. order + 1 \in Nat  BY <1>2
    <2>3. /\ q \in Records /\ q.room = r /\ q.moved = order + 1
          /\ q.sockets = own.sockets /\ q.dropped = own.dropped
          /\ q.state = IF own.state = "idle" THEN "around" ELSE own.state
          /\ ~q.over
      <3>1. own \in Records /\ own.state \in States /\ "around" \in States /\ r \in Rooms \union {NoRoom}
        BY <1>3 DEF Records, States, Places
      <3>. HIDE DEF own
      <3>2. q \in Records  BY <2>2, <3>1 DEF Records
      <3>3. q.room = r /\ q.moved = order + 1  BY <3>1 DEF Records
      <3>4. q.sockets = own.sockets /\ q.dropped = own.dropped  BY <3>1 DEF Records
      <3>5. q.state = IF own.state = "idle" THEN "around" ELSE own.state  BY <3>1 DEF Records
      <3>6. q.over = own.over  BY <3>1 DEF Records
      <3>7. ~q.over  BY ONLY <1>3, <3>6
      <3>. HIDE DEF q
      <3>. QED  BY ONLY <3>2, <3>3, <3>4, <3>5, <3>7
    <2>. HIDE DEF q, own
    <2>4. rec'[s] = q /\ \A t \in Sessions : t # s => rec'[t] = rec[t]  BY <1>2, <2>1 DEF TypeRec
    <2>5. TypeRec'
      <3>1. rec' \in [Sessions -> Records \union {NoRecord}]  BY <1>2, <2>1, <2>3 DEF TypeRec
      <3>. QED  BY <1>1, <1>2, <1>5, <2>1, <2>2, <3>1 DEF TypeRec
    <2>6. Numbered(rec', order')
      <3>1. rec'[s].moved = order + 1  BY <2>3, <2>4
      <3>2. rec \in [Sessions -> Records \union {NoRecord}]  BY <1>2 DEF TypeRec
      <3>3. Numbered(rec', order + 1)  BY <1>2, <2>4, <3>1, <3>2, NumberedMoved
      <3>. QED  BY <2>1, <3>3
    <2>7. Sockets(s)'  BY <1>1, <1>2, <1>3, <2>3, <2>4 DEF Sockets, SessionInv
    <2>8. Grace(s)'
      <3>1. q.sockets = rec[s].sockets /\ q.dropped = rec[s].dropped  BY <1>3, <2>3
      <3>. QED  BY <1>1, <1>2, <2>4, <3>1 DEF Grace, SessionInv
    <2>9. Believed(s)'
      <3>. SUFFICES ASSUME s \in up \ replaced
                    PROVE  /\ stale[s] = 0 /\ q.room = said'[s].room
                           /\ s \notin cameBack => q.state = said'[s].state
        BY <1>1, <2>3, <2>4 DEF Believed
      <3>1. stale[s] = 0  BY <1>2 DEF SessionInv, Believed
      <3>2. s \notin cameBack => q.state = "around"
        <4>1. CASE rec[s].over  BY <1>3, <2>3, <4>1
        <4>2. CASE ~rec[s].over
          <5>1. s \notin cameBack => own.state = said[s].state
            BY <1>2, <1>3, <4>2 DEF SessionInv, Believed
          <5>2. said[s].state = "around" \/ said[s].state = "idle"  BY <1>5, <1>7 DEF States
          <5>. QED  BY <2>3, <5>1, <5>2
        <4>. QED  BY <4>1, <4>2
      <3>. QED  BY <1>5, <2>3, <3>1, <3>2
    <2>10. SessionInv(s)'  BY <2>7, <2>8, <2>9 DEF SessionInv
    <2>. QED  BY <1>1, <1>5, <1>6, <2>4, <2>5, <2>6, <2>10, OneSession
  <1>. QED  BY <1>8, <1>9

\* A record whose state alone changes.
LEMMA StateIs ==
  ASSUME NEW own \in Records, NEW state \in States, NEW q, q = [own EXCEPT !.state = state]
  PROVE  /\ q \in Records /\ q.room = own.room /\ q.moved = own.moved
         /\ q.sockets = own.sockets /\ q.dropped = own.dropped /\ q.state = state
         /\ q.over = own.over
  <1>1. q \in Records  BY DEF Records
  <1>2. q.room = own.room /\ q.moved = own.moved  BY DEF Records
  <1>3. q.sockets = own.sockets /\ q.dropped = own.dropped /\ q.state = state  BY DEF Records
  <1>4. q.over = own.over  BY DEF Records
  <1>. QED  BY ONLY <1>1, <1>2, <1>3, <1>4

LEMMA RecUpdate ==
  ASSUME RecInv, NEW s \in Sessions, NEW state \in States, PresenceUpdate(s, state)
  PROVE  RecInv'
  <1>. DEFINE own == SpeaksAgain(rec[s])
  <1>1. /\ s \in up /\ said' = [said EXCEPT ![s].state = state]
        /\ up' = up /\ stale' = stale /\ drops' = drops /\ order' = order
        /\ timers' = timers /\ replaced' = replaced /\ cameBack' = cameBack \ {s}
    BY DEF PresenceUpdate, numbers
  <1>2. /\ TypeRec /\ SessionInv(s) /\ stale[s] \in Nat /\ rec[s] \in Records /\ rec[s] # NoRecord
        /\ order \in Nat /\ Numbered(rec, order) /\ drops \in Nat /\ rec[s].dropped <= drops
    BY <1>1, UpHasRecord DEF RecInv, TypeRec, SessionInv, Grace
  <1>3. /\ own \in Records /\ ~own.over
        /\ own.sockets = rec[s].sockets /\ own.dropped = rec[s].dropped
        /\ ~rec[s].over => own = rec[s]
        /\ rec[s].over => own.room = NoRoom /\ own.state = "around" /\ own.moved = 0
    BY <1>2, SpeaksAgainIs
  <1>4. /\ said' \in [Sessions -> [room : Places, state : States]]
        /\ said'[s].room = said[s].room /\ said'[s].state = state
        /\ \A t \in Sessions : t # s => said'[t] = said[t]
    BY <1>1, <1>2 DEF TypeRec
  <1>5. drops <= drops' /\ \A p \in timers' : p[2] \in 1..drops'  BY <1>1, <1>2 DEF RecInv
  <1>6. CASE ~rec[s].over /\ own.state = state
    <2>1. rec' = rec  BY <1>6 DEF PresenceUpdate
    <2>2. TypeRec'  BY <1>1, <1>2, <1>4, <2>1 DEF TypeRec
    <2>3. Sockets(s)' /\ Grace(s)'  BY <1>1, <1>2, <2>1 DEF SessionInv, Sockets, Grace
    <2>4. rec[s].state = state  BY <1>3, <1>6
    <2>5. Believed(s)'
      BY <1>1, <1>2, <1>4, <1>6, <2>1, <2>4 DEF SessionInv, Believed
    <2>6. SessionInv(s)'  BY <2>3, <2>5 DEF SessionInv
    <2>7. Numbered(rec', order')  BY <1>1, <1>2, <2>1
    <2>. QED  BY <1>1, <1>4, <1>5, <2>1, <2>2, <2>6, <2>7, OneSession
  <1>7. CASE ~(~rec[s].over /\ own.state = state)
    <2>. DEFINE q == [own EXCEPT !.state = state]
    <2>1. rec' = [rec EXCEPT ![s] = q]  BY <1>7 DEF PresenceUpdate, Remerge
    <2>2. /\ q \in Records /\ q.room = own.room /\ q.moved = own.moved
          /\ q.sockets = own.sockets /\ q.dropped = own.dropped /\ q.state = state
          /\ q.over = own.over
      <3>1. own \in Records  BY <1>3
      <3>. HIDE DEF own
      <3>. QED  BY <3>1, StateIs
    <2>. HIDE DEF q, own
    <2>3. rec'[s] = q /\ \A t \in Sessions : t # s => rec'[t] = rec[t]  BY <1>2, <2>1 DEF TypeRec
    <2>4. TypeRec'
      <3>1. rec' \in [Sessions -> Records \union {NoRecord}]  BY <1>2, <2>1, <2>2 DEF TypeRec
      <3>. QED  BY <1>1, <1>2, <1>4, <3>1 DEF TypeRec
    <2>5. Numbered(rec', order')
      <3>1. \A t \in Sessions : \/ rec'[t].room = rec[t].room /\ rec'[t].moved = rec[t].moved
                                \/ rec'[t].room = NoRoom /\ rec'[t].moved = 0
        BY <1>3, <2>2, <2>3
      <3>2. Numbered(rec', order)  BY <1>2, <3>1, NumberedKept
      <3>. QED  BY <1>1, <3>2
    <2>6. q.sockets = rec[s].sockets /\ q.dropped = rec[s].dropped /\ ~q.over  BY <1>3, <2>2
    <2>7. Sockets(s)'  BY <1>1, <1>2, <2>3, <2>6 DEF Sockets, SessionInv
    <2>8. Grace(s)'  BY <1>1, <1>2, <2>3, <2>6 DEF Grace, SessionInv
    <2>9. Believed(s)'
      <3>. SUFFICES ASSUME s \in up \ replaced
                    PROVE  /\ stale[s] = 0 /\ q.room = said'[s].room
                           /\ q.state = said'[s].state
        BY <1>1, <2>3, <2>6 DEF Believed
      <3>1. stale[s] = 0  BY <1>2 DEF SessionInv, Believed
      <3>2. q.room = said[s].room
        <4>1. CASE rec[s].over
          <5>1. said[s] = Fresh /\ Fresh.room = NoRoom  BY <1>2, <4>1 DEF SessionInv, Believed, Fresh
          <5>. QED  BY <1>3, <2>2, <4>1, <5>1
        <4>2. CASE ~rec[s].over
          BY <1>2, <1>3, <2>2, <4>2 DEF SessionInv, Believed
        <4>. QED  BY <4>1, <4>2
      <3>. QED  BY <1>4, <2>2, <3>1, <3>2
    <2>10. SessionInv(s)'  BY <2>7, <2>8, <2>9 DEF SessionInv
    <2>. QED  BY <1>1, <1>4, <1>5, <2>3, <2>4, <2>5, <2>10, OneSession
  <1>. QED  BY <1>6, <1>7

\* Away ends on every session.
LEMMA RecBack ==
  ASSUME RecInv, BackEverywhere
  PROVE  RecInv'
  <1>. DEFINE away == {s \in Sessions : rec[s].state = "away"}
  <1>1. /\ rec' = [s \in Sessions |-> IF s \in away THEN [rec[s] EXCEPT !.state = "around"] ELSE rec[s]]
        /\ up' = up /\ stale' = stale /\ drops' = drops /\ order' = order /\ said' = said
        /\ timers' = timers /\ replaced' = replaced /\ cameBack' = cameBack \union away
    BY DEF BackEverywhere, Remerge, numbers
  <1>2. TypeRec /\ order \in Nat /\ Numbered(rec, order)  BY DEF RecInv, TypeRec
  <1>3. ASSUME NEW s \in Sessions
        PROVE  /\ rec'[s] \in Records \union {NoRecord}
               /\ rec'[s].room = rec[s].room /\ rec'[s].moved = rec[s].moved
               /\ rec'[s].sockets = rec[s].sockets /\ rec'[s].dropped = rec[s].dropped
               /\ rec'[s].over = rec[s].over
               /\ rec'[s] = NoRecord <=> rec[s] = NoRecord
               /\ s \notin away => rec'[s].state = rec[s].state
    <2>1. CASE s \notin away
      <3>1. rec'[s] = rec[s]  BY <1>1, <2>1
      <3>2. rec[s] \in Records \union {NoRecord}  BY <1>2 DEF TypeRec
      <3>. QED  BY <3>1, <3>2
    <2>2. CASE s \in away
      <3>. DEFINE q == [rec[s] EXCEPT !.state = "around"]
      <3>1. rec'[s] = q  BY <1>1, <2>2
      <3>2. rec[s] # NoRecord /\ rec[s] \in Records
        <4>1. rec[s] \in Records \union {NoRecord}  BY <1>2 DEF TypeRec
        <4>2. rec[s].state = "away"  BY <2>2
        <4>. QED  BY <4>1, <4>2, NoRecordIs
      <3>3. "around" \in States  BY DEF States
      <3>4. /\ q \in Records /\ q.room = rec[s].room /\ q.moved = rec[s].moved
            /\ q.sockets = rec[s].sockets /\ q.dropped = rec[s].dropped /\ q.state = "around"
            /\ q.over = rec[s].over
        BY ONLY <3>2, <3>3, StateIs
      <3>. HIDE DEF q
      <3>5. q # NoRecord  BY <3>4, NoRecordIs
      <3>. QED  BY <2>2, <3>1, <3>2, <3>4, <3>5
    <2>. QED  BY <2>1, <2>2
  <1>4. DOMAIN rec' = Sessions /\ rec' = [s \in Sessions |-> rec'[s]]  BY <1>1
  <1>. HIDE DEF away
  <1>5. TypeRec'
    <2>1. rec' \in [Sessions -> Records \union {NoRecord}]  BY <1>3, <1>4
    <2>. QED  BY <1>1, <1>2, <2>1 DEF TypeRec
  <1>6. Numbered(rec', order')
    <2>1. Numbered(rec', order)  BY <1>2, <1>3, NumberedKept
    <2>. QED  BY <1>1, <2>1
  <1>7. ASSUME NEW s \in Sessions
        PROVE  SessionInv(s)'
    <2>1. SessionInv(s)  BY DEF RecInv
    <2>2. Sockets(s)'  BY <1>1, <1>3, <2>1 DEF SessionInv, Sockets
    <2>3. Grace(s)'  BY <1>1, <1>3, <2>1 DEF SessionInv, Grace
    <2>4. Believed(s)'  BY <1>1, <1>3, <2>1 DEF SessionInv, Believed
    <2>. QED  BY <2>2, <2>3, <2>4 DEF SessionInv
  <1>8. \A p \in timers' : p[2] \in 1..drops'  BY <1>1 DEF RecInv
  <1>. QED  BY <1>5, <1>6, <1>7, <1>8 DEF RecInv

\* What a thread does that tells of a change already made.
Tells(a) ==
  \/ HeldAlready(a) \/ Limit(a) \/ TellFocus(a) \/ Forget(a) \/ TellRooms(a)
  \/ ReadPresence(a) \/ Publish(a) \/ GoneLeaves(a) \/ GoneForgets(a) \/ GoneOffline(a)

LEMMA StepIs ==
  ASSUME Next, TypeRec
  PROVE  \/ \E s \in Sessions :
              \/ ConnectionDropped(s) \/ ConnectionOpened(s) \/ Vanish(s) \/ ConnectionClosed(s)
              \/ \E n \in Nat : GraceOver(s, n)
              \/ \E r \in Places : RoomFocus(s, r)
              \/ \E state \in States : PresenceUpdate(s, state)
         \/ BackEverywhere
         \/ \E a \in Threads : Tells(a)
         \/ PresenceTurnComes \/ FocusTurnComes
  <1>1. CASE \E p \in timers : GraceOver(p[1], p[2])
    <2>1. PICK p \in timers : GraceOver(p[1], p[2])  BY <1>1
    <2>2. p[1] \in Sessions /\ p[2] \in Nat  BY <2>1 DEF TypeRec
    <2>. QED  BY <2>1, <2>2
  <1>2. CASE Progress /\ ~ \E p \in timers : GraceOver(p[1], p[2])
    <2>1. CASE \E s \in Sessions : ConnectionDropped(s)  BY <2>1
    <2>2. CASE PresenceTurnComes \/ FocusTurnComes  BY <2>2
    <2>3. CASE \E a \in Threads : Tells(a)  BY <2>3
    <2>. QED  BY <1>2, <2>1, <2>2, <2>3 DEF Progress, Tells
  <1>3. CASE Environment  BY <1>3 DEF Environment, Places
  <1>. QED  BY <1>1, <1>2, <1>3 DEF Next

LEMMA RecSame ==
  ASSUME RecInv, UNCHANGED <<rec, numbers, apps>>
  PROVE  RecInv'
  <1>1. /\ rec' = rec /\ order' = order /\ drops' = drops /\ timers' = timers
        /\ up' = up /\ stale' = stale /\ said' = said /\ replaced' = replaced /\ cameBack' = cameBack
    BY DEF numbers, apps
  <1>2. TypeRec' /\ Numbered(rec', order')  BY <1>1 DEF RecInv, TypeRec
  <1>3. \A p \in timers' : p[2] \in 1..drops'  BY <1>1 DEF RecInv
  <1>4. \A s \in Sessions : SessionInv(s)'  BY <1>1 DEF RecInv, SessionInv, Sockets, Grace, Believed
  <1>. QED  BY <1>2, <1>3, <1>4 DEF RecInv

LEMMA RecInit == Init => RecInv
  <1>. SUFFICES ASSUME Init PROVE RecInv  OBVIOUS
  <1>1. /\ rec = [s \in Sessions |-> NoRecord] /\ order = 0 /\ drops = 0 /\ timers = {}
        /\ up = {} /\ stale = [s \in Sessions |-> 0] /\ said = [s \in Sessions |-> Fresh]
    BY DEF Init
  <1>2. Fresh \in [room : Places, state : States]  BY DEF Fresh, Places, States
  <1>3. TypeRec  BY <1>1, <1>2 DEF TypeRec
  <1>4. Numbered(rec, order)  BY <1>1, NoRecordIs DEF Numbered
  <1>5. ASSUME NEW s \in Sessions PROVE SessionInv(s)
    BY <1>1, NoRecordIs DEF SessionInv, Sockets, Grace, Believed
  <1>. QED  BY <1>1, <1>3, <1>4, <1>5 DEF RecInv

LEMMA RecStep == RecInv /\ [Next]_vars => RecInv'
  <1>. SUFFICES ASSUME RecInv, [Next]_vars PROVE RecInv'  OBVIOUS
  <1>1. CASE UNCHANGED vars  BY <1>1, RecSame DEF vars, maps
  <1>2. CASE Next
    <2>1. ASSUME NEW a \in Threads, Tells(a)
          PROVE  RecInv'
      BY <2>1, RecSame DEF Tells, HeldAlready, Limit, TellFocus, Forget, TellRooms, ReadPresence,
                           Publish, GoneLeaves, GoneForgets, GoneOffline, maps
    <2>2. CASE PresenceTurnComes \/ FocusTurnComes
      BY <2>2, RecSame DEF PresenceTurnComes, FocusTurnComes, maps
    <2>3. CASE BackEverywhere  BY <2>3, RecBack
    <2>4. ASSUME NEW s \in Sessions,
                 \/ ConnectionDropped(s) \/ ConnectionOpened(s) \/ Vanish(s) \/ ConnectionClosed(s)
                 \/ \E n \in Nat : GraceOver(s, n)
                 \/ \E r \in Places : RoomFocus(s, r)
                 \/ \E state \in States : PresenceUpdate(s, state)
          PROVE  RecInv'
      BY <2>4, RecDropped, RecOpened, RecVanish, RecClosed, RecGraceOver, RecFocus, RecUpdate
    <2>5. TypeRec  BY DEF RecInv
    <2>. QED  BY <1>2, <2>1, <2>2, <2>3, <2>4, <2>5, StepIs
  <1>. QED  BY <1>1, <1>2

\* Whatever is told or held, the records stay in order.
LEMMA RecHolds == Spec => []RecInv
  BY RecInit, RecStep, PTL DEF Spec

\* A session whose app vanished keeps its part for a whole grace period after its last
\* drop (Gateway::connection_dropped, grace_over).
THEOREM NoGraceCutShort == Spec => []WholeGrace
  <1>1. RecInv => WholeGrace
    <2>. SUFFICES ASSUME RecInv PROVE WholeGrace  OBVIOUS
    <2>1. \A s \in Sessions : Grace(s)  BY DEF RecInv, SessionInv
    <2>. QED  BY <2>1 DEF WholeGrace, Grace
  <1>. QED  BY <1>1, RecHolds, PTL

\* An app with a live socket is never taken for gone, and the server has it where the
\* app believes it is (connection_opened, move_to, update_presence).
THEOREM ServerHasWhatWasSaid == Spec => []AppsAreBelieved
  <1>1. RecInv => AppsAreBelieved
    <2>. SUFFICES ASSUME RecInv PROVE AppsAreBelieved  OBVIOUS
    <2>1. \A s \in up : rec[s] # NoRecord
      <3>1. up \subseteq Sessions  BY DEF RecInv, TypeRec
      <3>. QED  BY <3>1, UpHasRecord
    <2>2. \A s \in Sessions : Believed(s)  BY DEF RecInv, SessionInv
    <2>3. \A s \in Sessions \ replaced : AppIsBelieved(s)  BY <2>2 DEF Believed, AppIsBelieved
    <2>. QED  BY <2>1, <2>3 DEF AppsAreBelieved
  <1>. QED  BY <1>1, RecHolds, PTL

-----------------------------------------------------------------------------
(* Who has still to be told what *)

Bys == {"presence", "focus", "gone", "none"}
Pcs == {"held", "limit", "sound", "forget", "rooms", "tell", "publish", "leave", "told", "offline", "rest"}

\* What a thread of each kind can be at.
Phase(by, pc) ==
  \/ by = "presence" /\ pc \in {"held", "limit", "tell", "publish"}
  \/ by = "focus" /\ pc \in {"held", "limit", "sound", "forget", "rooms", "tell", "publish"}
  \/ by = "gone" /\ pc \in {"leave", "rooms", "tell", "publish", "told", "offline"}
  \/ by = "none" /\ pc = "rest"

Jobs == [pc : Pcs, by : Bys, now : Places, copy : Entries]

TypeTell ==
  /\ presence \in Entries /\ told \in Places
  /\ presenceHeld \in BOOLEAN /\ focusHeld \in BOOLEAN
  /\ heard \in Entries /\ standing \subseteq Rooms \ DMs
  /\ job \in [Threads -> Jobs]

JobOK ==
  \A a \in Threads : /\ Phase(job[a].by, job[a].pc)
                     /\ job[a].by = "gone" /\ job[a].pc = "rooms" => job[a].now = NoRoom

(* The locks: one thread has the entry of focus_told, and one the records. *)
Gone(j) == j.by = "gone"
Entering(j) == j.by \in {"focus", "gone"} /\ j.pc \in {"rooms", "tell", "publish"}
LockOK ==
  \A a, b \in Threads : \/ Entering(job[a]) /\ Entering(job[b])
                        \/ Gone(job[a]) /\ Gone(job[b])
                        => a = b

(* What is being published is the presence as it is. *)
PublishOK ==
  \A a \in Threads : job[a].pc = "publish" => job[a].copy = presence /\ presence # Offline

(* Whoever is about to enter a room enters none but r. *)
EntersOnly(r) == \A a \in Threads : job[a].pc = "rooms" => job[a].now = r

(* While somebody goes offline they have no records and are in no room, and once they  *)
(* have left it nobody is about to enter them into one. *)
Late == {"tell", "publish", "told", "offline"}
GoneOK ==
  \A a \in Threads : Gone(job[a]) =>
    /\ \A s \in Sessions : rec[s] = NoRecord
    /\ presence.room = NoRoom /\ presence # Offline
    /\ job[a].pc \in Late => told = NoRoom /\ EntersOnly(NoRoom)

(* Until then their presence is what their sessions say. *)
MergedOK == RecordsFree => presence = Merge(rec)

(* Who is offline was told to be, and nobody is about to say anything else. *)
OfflineOK == presence = Offline => heard = Offline /\ told = NoRoom /\ EntersOnly(NoRoom)

(* Everybody has the presence as it is, or somebody is going to tell them. *)
HeardOK ==
  \/ heard = presence \/ presenceHeld \/ focusHeld
  \/ \E a \in Threads : job[a].pc \notin {"rest", "forget"}

(* Everybody was told of the room they are in, or somebody is going to tell of it. *)
Moves(j) ==
  \/ j.by = "focus" /\ j.pc \in {"held", "limit", "sound"}
  \/ j.pc = "leave"
RoomPending ==
  \/ focusHeld
  \/ \E a \in Threads : Moves(job[a]) \/ (job[a].pc = "rooms" /\ job[a].now = presence.room)
RoomOK == forgot \/ RoomPending \/ (told = presence.room /\ EntersOnly(presence.room))

(* What everybody saw of the rooms is what was last told. *)
StandOK == forgot \/ standing = {told} \ (DMs \union {NoRoom})

TellInv ==
  /\ TypeTell /\ JobOK /\ LockOK
  /\ PublishOK /\ GoneOK /\ MergedOK /\ OfflineOK
  /\ HeardOK /\ RoomOK /\ StandOK

\* The records of a thread that tells.
LEMMA RestIs ==
  /\ Rest \in Jobs /\ Rest.pc = "rest" /\ Rest.by = "none" /\ Rest.now = NoRoom
  /\ Phase(Rest.by, Rest.pc) /\ ~Gone(Rest) /\ ~Entering(Rest) /\ ~Moves(Rest)
  <1>1. Offline \in Entries  BY DEF Offline, Entries
  <1>2. Rest \in Jobs  BY <1>1 DEF Rest, Jobs, Pcs, Bys, Places
  <1>3. Rest.pc = "rest" /\ Rest.by = "none" /\ Rest.now = NoRoom  BY DEF Rest
  <1>. QED  BY <1>2, <1>3 DEF Phase, Gone, Entering, Moves

LEMMA TellingIs ==
  ASSUME NEW by \in Bys, NEW pc \in Pcs
  PROVE  /\ Telling(by, pc) \in Jobs /\ Telling(by, pc).by = by /\ Telling(by, pc).pc = pc
         /\ Telling(by, pc).now = NoRoom
  <1>1. Telling(by, pc) = [Rest EXCEPT !.by = by, !.pc = pc]  BY DEF Telling
  <1>2. Telling(by, pc) \in Jobs  BY <1>1, RestIs DEF Jobs
  <1>3. Telling(by, pc).by = by /\ Telling(by, pc).pc = pc  BY <1>1, RestIs DEF Jobs
  <1>4. Telling(by, pc).now = Rest.now  BY <1>1, RestIs DEF Jobs
  <1>. QED  BY <1>2, <1>3, <1>4, RestIs

\* A thread's job is of its kind, and one thread moves at a time.
LEMMA JobKept ==
  ASSUME JobOK, NEW a \in Threads, \A b \in Threads : b # a => job'[b] = job[b],
         Phase(job'[a].by, job'[a].pc),
         job'[a].by = "gone" /\ job'[a].pc = "rooms" => job'[a].now = NoRoom
  PROVE  JobOK'
  BY DEF JobOK

LEMMA LockKept ==
  ASSUME LockOK, NEW a \in Threads, \A b \in Threads : b # a => job'[b] = job[b],
         Entering(job'[a]) => Entering(job[a]) \/ FocusFree,
         Gone(job'[a]) => Gone(job[a]) \/ RecordsFree
  PROVE  LockOK'
  <1>1. FocusFree => \A b \in Threads : ~Entering(job[b])  BY DEF FocusFree, Entering
  <1>2. RecordsFree => \A b \in Threads : ~Gone(job[b])  BY DEF RecordsFree, Gone
  <1>3. ASSUME NEW b \in Threads, NEW c \in Threads, Entering(job'[b]), Entering(job'[c])
        PROVE  b = c
    BY <1>1, <1>3 DEF LockOK
  <1>4. ASSUME NEW b \in Threads, NEW c \in Threads, Gone(job'[b]), Gone(job'[c])
        PROVE  b = c
    BY <1>2, <1>4 DEF LockOK
  <1>5. \A b, c \in Threads : \/ Entering(job'[b]) /\ Entering(job'[c])
                              \/ Gone(job'[b]) /\ Gone(job'[c])
                              => b = c
    BY <1>3, <1>4
  <1>. QED  BY <1>5 DEF LockOK, Entering, Gone

LEMMA PublishKept ==
  ASSUME PublishOK, NEW a \in Threads, \A b \in Threads : b # a => job'[b] = job[b],
         presence' # presence => PresenceFree,
         job'[a].pc = "publish" => job'[a].copy = presence' /\ presence' # Offline
  PROVE  PublishOK'
  BY DEF PublishOK, PresenceFree

LEMMA StandKept ==
  ASSUME StandOK, UNCHANGED <<told, standing, forgot>>
  PROVE  StandOK'
  BY DEF StandOK

-----------------------------------------------------------------------------
(* What a change to the records leaves to tell *)

\* A change that thread a is going to tell of.
LEMMA TellChanged ==
  ASSUME TellInv, NEW a \in Threads, job[a] = Rest, RecordsFree,
         presence' = Merge(rec'), presence' \in Entries, presence' # Offline,
         presence' # presence => PresenceFree,
         job' = [job EXCEPT ![a] = TellMerged],
         UNCHANGED <<told, held, everybody, forgot>>
  PROVE  TellInv'
  <1>. DEFINE k == TellMerged
  <1>0. TypeTell /\ JobOK /\ LockOK /\ PublishOK /\ RoomOK /\ StandOK /\ HeardOK  BY DEF TellInv
  <1>1. /\ told' = told /\ presenceHeld' = presenceHeld /\ focusHeld' = focusHeld
        /\ heard' = heard /\ standing' = standing /\ forgot' = forgot
    BY DEF held, everybody
  <1>2. /\ k \in Jobs /\ Phase(k.by, k.pc) /\ ~Gone(k) /\ ~Entering(k)
        /\ k.pc \in {"rest", "held"}
        /\ presence' # presence => k.pc = "held"
        /\ presence'.room # presence.room => Moves(k)
    <2>1. CASE presence' = presence
      <3>1. k = Rest  BY <2>1 DEF TellMerged
      <3>. QED  BY <2>1, <3>1, RestIs
    <2>2. CASE presence' # presence /\ presence'.room # presence.room
      <3>1. k = Telling("focus", "held") /\ "focus" \in Bys /\ "held" \in Pcs
        BY <2>2 DEF TellMerged, Bys, Pcs
      <3>2. k \in Jobs /\ k.by = "focus" /\ k.pc = "held"  BY <3>1, TellingIs
      <3>. HIDE DEF k
      <3>. QED  BY <3>2 DEF Phase, Gone, Entering, Moves
    <2>3. CASE presence' # presence /\ presence'.room = presence.room
      <3>1. k = Telling("presence", "held") /\ "presence" \in Bys /\ "held" \in Pcs
        BY <2>3 DEF TellMerged, Bys, Pcs
      <3>2. k \in Jobs /\ k.by = "presence" /\ k.pc = "held"  BY <3>1, TellingIs
      <3>. HIDE DEF k
      <3>. QED  BY <2>3, <3>2 DEF Phase, Gone, Entering
    <2>. QED  BY <2>1, <2>2, <2>3
  <1>. HIDE DEF k
  <1>3. job'[a] = k /\ \A b \in Threads : b # a => job'[b] = job[b]  BY <1>0 DEF TypeTell, k
  <1>4. TypeTell'
    <2>1. job' \in [Threads -> Jobs]  BY <1>0, <1>2 DEF TypeTell, k
    <2>. QED  BY <1>0, <1>1, <2>1 DEF TypeTell
  <1>5. JobOK'
    <2>1. ~(job'[a].by = "gone")  BY <1>2, <1>3 DEF Gone
    <2>. QED  BY <1>0, <1>2, <1>3, <2>1, JobKept
  <1>6. LockOK'  BY <1>0, <1>2, <1>3, LockKept
  <1>7. PublishOK'
    <2>1. job'[a].pc # "publish"  BY <1>2, <1>3
    <2>. QED  BY <1>0, <1>3, <2>1, PublishKept
  <1>8. GoneOK'
    <2>1. \A b \in Threads : ~Gone(job'[b])  BY <1>2, <1>3 DEF RecordsFree, Gone
    <2>. QED  BY <2>1 DEF GoneOK, Gone
  <1>9. MergedOK'  BY DEF MergedOK
  <1>10. OfflineOK'  BY DEF OfflineOK
  <1>11. Rest.pc = "rest"  BY RestIs
  <1>12. HeardOK'
    <2>1. CASE presence' # presence  BY <1>2, <1>3, <2>1 DEF HeardOK
    <2>2. CASE presence' = presence
      <3>1. CASE \E b \in Threads : job[b].pc \notin {"rest", "forget"}
        <4>1. PICK b \in Threads : job[b].pc \notin {"rest", "forget"}  BY <3>1
        <4>2. job'[b] = job[b]  BY <1>3, <1>11, <4>1
        <4>. QED  BY <4>1, <4>2 DEF HeardOK
      <3>2. CASE heard = presence \/ presenceHeld \/ focusHeld  BY <1>1, <2>2, <3>2 DEF HeardOK
      <3>. QED  BY <1>0, <3>1, <3>2 DEF HeardOK
    <2>. QED  BY <2>1, <2>2
  <1>13. RoomOK'
    <2>1. CASE presence'.room # presence.room  BY <1>2, <1>3, <2>1 DEF RoomOK, RoomPending, Moves
    <2>2. CASE presence'.room = presence.room
      <3>1. CASE forgot \/ focusHeld  BY <1>1, <3>1 DEF RoomOK, RoomPending
      <3>2. CASE \E b \in Threads : Moves(job[b]) \/ (job[b].pc = "rooms" /\ job[b].now = presence.room)
        <4>1. PICK b \in Threads : Moves(job[b]) \/ (job[b].pc = "rooms" /\ job[b].now = presence.room)
          BY <3>2
        <4>2. job'[b] = job[b]  BY <1>3, <1>11, <4>1, RestIs
        <4>3. Moves(job'[b]) \/ (job'[b].pc = "rooms" /\ job'[b].now = presence'.room)
          BY <2>2, <4>1, <4>2
        <4>. QED  BY <4>3 DEF RoomOK, RoomPending, Moves
      <3>3. CASE told = presence.room /\ EntersOnly(presence.room)
        <4>1. told' = presence'.room  BY <1>1, <2>2, <3>3
        <4>2. EntersOnly(presence.room)'
          <5>1. job'[a].pc # "rooms"  BY <1>2, <1>3
          <5>. QED  BY <1>3, <2>2, <3>3, <5>1 DEF EntersOnly
        <4>. QED  BY <4>1, <4>2 DEF RoomOK
      <3>. QED  BY <1>0, <3>1, <3>2, <3>3 DEF RoomOK, RoomPending
    <2>. QED  BY <2>1, <2>2
  <1>14. StandOK'  BY <1>0, <1>1, StandKept
  <1>. QED  BY <1>4, <1>5, <1>6, <1>7, <1>8, <1>9, <1>10, <1>12, <1>13, <1>14 DEF TellInv

\* The end of the last session, which thread a is going to tell of.
LEMMA TellLast ==
  ASSUME TellInv, NEW a \in Threads, job[a] = Rest, RecordsFree, PresenceFree,
         \A s \in Sessions : rec'[s] = NoRecord,
         presence # Offline,
         presence' = IF presence.room = NoRoom THEN presence ELSE Entry("around", NoRoom),
         job' = [job EXCEPT ![a] = [Telling("gone", "leave") EXCEPT !.now = presence.room]],
         UNCHANGED <<told, held, everybody, forgot>>
  PROVE  TellInv'
  <1>. DEFINE k == [Telling("gone", "leave") EXCEPT !.now = presence.room]
  <1>0. TypeTell /\ JobOK /\ LockOK /\ PublishOK /\ StandOK  BY DEF TellInv
  <1>1. /\ told' = told /\ presenceHeld' = presenceHeld /\ focusHeld' = focusHeld
        /\ heard' = heard /\ standing' = standing /\ forgot' = forgot
    BY DEF held, everybody
  <1>2. presence.room \in Places  BY <1>0 DEF TypeTell, Entries, Places
  <1>3. k \in Jobs /\ k.by = "gone" /\ k.pc = "leave"
    <2>1. "gone" \in Bys /\ "leave" \in Pcs  BY DEF Bys, Pcs
    <2>2. /\ Telling("gone", "leave") \in Jobs
          /\ Telling("gone", "leave").by = "gone" /\ Telling("gone", "leave").pc = "leave"
      BY <2>1, TellingIs
    <2>3. k \in Jobs  BY <1>2, <2>2 DEF Jobs
    <2>4. k.by = "gone" /\ k.pc = "leave"  BY <2>2 DEF Jobs
    <2>. QED  BY <2>3, <2>4
  <1>4. /\ presence' \in Entries /\ presence'.room = NoRoom /\ presence' # Offline
    <2>1. /\ Entry("around", NoRoom).room = NoRoom
          /\ Entry("around", NoRoom).state = "around" /\ Offline.state = "offline"
          /\ Entry("around", NoRoom) \in Entries
      BY DEF Entry, Offline, Entries, States
    <2>. QED  BY <1>0, <2>1 DEF TypeTell
  <1>. HIDE DEF k
  <1>5. job'[a] = k /\ \A b \in Threads : b # a => job'[b] = job[b]  BY <1>0 DEF TypeTell, k
  <1>6. TypeTell'
    <2>1. job' \in [Threads -> Jobs]  BY <1>0, <1>3 DEF TypeTell, k
    <2>. QED  BY <1>0, <1>1, <1>4, <2>1 DEF TypeTell
  <1>7. JobOK'
    <2>1. Phase(job'[a].by, job'[a].pc) /\ job'[a].pc # "rooms"  BY <1>3, <1>5 DEF Phase
    <2>. QED  BY <1>0, <1>5, <2>1, JobKept
  <1>8. LockOK'
    <2>1. ~Entering(job'[a])  BY <1>3, <1>5 DEF Entering
    <2>. QED  BY <1>0, <1>5, <2>1, LockKept
  <1>9. PublishOK'
    <2>1. job'[a].pc # "publish"  BY <1>3, <1>5
    <2>. QED  BY <1>0, <1>5, <2>1, PublishKept
  <1>10. GoneOK'
    <2>1. \A b \in Threads : Gone(job'[b]) => b = a  BY <1>5 DEF RecordsFree, Gone
    <2>2. job'[a].pc \notin Late  BY <1>3, <1>5 DEF Late
    <2>. QED  BY <1>4, <2>1, <2>2 DEF GoneOK, Gone
  <1>11. MergedOK'
    <2>1. ~RecordsFree'  BY <1>3, <1>5 DEF RecordsFree
    <2>. QED  BY <2>1 DEF MergedOK
  <1>12. OfflineOK'  BY <1>4 DEF OfflineOK
  <1>13. HeardOK'  BY <1>3, <1>5 DEF HeardOK
  <1>14. RoomOK'  BY <1>3, <1>5 DEF RoomOK, RoomPending, Moves
  <1>15. StandOK'  BY <1>0, <1>1, StandKept
  <1>. QED  BY <1>6, <1>7, <1>8, <1>9, <1>10, <1>11, <1>12, <1>13, <1>14, <1>15 DEF TellInv

\* A change nobody is told of by a thread: none, or one that everybody has at once.
LEMMA TellAtOnce ==
  ASSUME TellInv, RecordsFree,
         presence' = Merge(rec'), presence' \in Entries, presence'.room = presence.room,
         presence' # presence => PresenceFree /\ presence' # Offline /\ heard' = presence',
         presence' = presence => heard' = heard,
         UNCHANGED <<told, held, standing, forgot, job>>
  PROVE  TellInv'
  <1>0. /\ TypeTell /\ JobOK /\ LockOK /\ PublishOK /\ RoomOK /\ StandOK /\ HeardOK /\ OfflineOK
    BY DEF TellInv
  <1>1. /\ told' = told /\ presenceHeld' = presenceHeld /\ focusHeld' = focusHeld
        /\ standing' = standing /\ forgot' = forgot /\ job' = job
    BY DEF held
  <1>2. TypeTell'  BY <1>0, <1>1 DEF TypeTell
  <1>3. JobOK'  BY <1>0, <1>1 DEF JobOK
  <1>4. LockOK'  BY <1>0, <1>1 DEF LockOK, Entering, Gone
  <1>5. PublishOK'  BY <1>0, <1>1 DEF PublishOK, PresenceFree
  <1>6. GoneOK'  BY <1>1 DEF GoneOK, Gone, RecordsFree
  <1>7. MergedOK'  BY DEF MergedOK
  <1>8. OfflineOK'  BY <1>0, <1>1 DEF OfflineOK, EntersOnly
  <1>9. HeardOK'  BY <1>0, <1>1 DEF HeardOK
  <1>10. RoomOK'  BY <1>0, <1>1 DEF RoomOK, RoomPending, Moves, EntersOnly
  <1>11. StandOK'  BY <1>0, <1>1, StandKept
  <1>. QED  BY <1>2, <1>3, <1>4, <1>5, <1>6, <1>7, <1>8, <1>9, <1>10, <1>11 DEF TellInv

LEMMA TellSame ==
  ASSUME TellInv, UNCHANGED <<maps, held, everybody, forgot, job>>
  PROVE  TellInv'
  <1>1. /\ rec' = rec /\ presence' = presence /\ told' = told /\ presenceHeld' = presenceHeld
        /\ focusHeld' = focusHeld /\ heard' = heard /\ standing' = standing /\ forgot' = forgot
        /\ job' = job
    BY DEF maps, held, everybody
  <1>2. TypeTell' /\ JobOK'  BY <1>1 DEF TellInv, TypeTell, JobOK
  <1>3. LockOK' /\ PublishOK'  BY <1>1 DEF TellInv, LockOK, Entering, Gone, PublishOK
  <1>4. GoneOK'  BY <1>1 DEF TellInv, GoneOK, Gone, EntersOnly
  <1>5. MergedOK' /\ OfflineOK'  BY <1>1 DEF TellInv, MergedOK, RecordsFree, OfflineOK, EntersOnly
  <1>6. HeardOK' /\ StandOK'  BY <1>1 DEF TellInv, HeardOK, StandOK
  <1>7. RoomOK'  BY <1>1 DEF TellInv, RoomOK, RoomPending, Moves, EntersOnly
  <1>. QED  BY <1>2, <1>3, <1>4, <1>5, <1>6, <1>7 DEF TellInv

\* Whoever has a session is not offline.
LEMMA HereIsNotOffline ==
  ASSUME RecInv
  PROVE  /\ Merge(rec) \in Entries
         /\ (\E s \in Sessions : rec[s] # NoRecord) => Merge(rec) # Offline
  <1>1. rec \in [Sessions -> Records \union {NoRecord}] /\ order \in Nat /\ Numbered(rec, order)
    BY DEF RecInv, TypeRec
  <1>. QED  BY <1>1, MergeTypes

LEMMA HereIsNotOfflineNext ==
  ASSUME RecInv'
  PROVE  /\ Merge(rec') \in Entries
         /\ (\E s \in Sessions : rec'[s] # NoRecord) => Merge(rec') # Offline
  <1>1. rec' \in [Sessions -> Records \union {NoRecord}] /\ order' \in Nat /\ Numbered(rec', order')
    BY DEF RecInv, TypeRec
  <1>. QED  BY <1>1, MergeTypes

LEMMA TellRemerged ==
  ASSUME RecInv', TellInv, NEW a \in Threads, job[a] = Rest, RecordsFree, Remerge(rec'),
         \E s \in Sessions : rec'[s] # NoRecord,
         job' = [job EXCEPT ![a] = TellMerged], UNCHANGED <<told, held, everybody, forgot>>
  PROVE  TellInv'
  <1>1. presence' = Merge(rec') /\ (presence' # presence => PresenceFree)  BY DEF Remerge
  <1>2. presence' \in Entries /\ presence' # Offline  BY <1>1, HereIsNotOfflineNext
  <1>. QED  BY <1>1, <1>2, TellChanged

\* A change to what nobody is told: sockets counted, a drop numbered.
LEMMA TellNothing ==
  ASSUME RecInv, RecInv', order' = order, TellInv, RecordsFree,
         \A s \in Sessions : rec'[s].room = rec[s].room /\ rec'[s].state = rec[s].state
                             /\ rec'[s].moved = rec[s].moved,
         presence' = presence, UNCHANGED <<told, held, everybody, forgot, job>>
  PROVE  TellInv'
  <1>1. /\ rec \in [Sessions -> Records \union {NoRecord}] /\ order \in Nat /\ Numbered(rec, order)
        /\ rec' \in [Sessions -> Records \union {NoRecord}] /\ Numbered(rec', order)
    BY DEF RecInv, TypeRec
  <1>2. Merge(rec') = Merge(rec)  BY <1>1, MergeSame
  <1>3. presence = Merge(rec)  BY DEF TellInv, MergedOK
  <1>4. presence \in Entries  BY DEF TellInv, TypeTell
  <1>5. heard' = heard /\ standing' = standing  BY DEF everybody
  <1>. QED  BY <1>2, <1>3, <1>4, <1>5, TellAtOnce

LEMMA TellSessionGone ==
  ASSUME RecInv, RecInv', TellInv, NEW a \in Threads, job[a] = Rest, RecordsFree,
         NEW s \in Sessions, rec[s] # NoRecord, SessionGone(a, s),
         UNCHANGED <<told, held, everybody, forgot>>
  PROVE  TellInv'
  <1>. DEFINE R == [rec EXCEPT ![s] = NoRecord]
  <1>1. \/ /\ \E t \in Sessions : R[t] # NoRecord
           /\ Remerge(R)
           /\ job' = [job EXCEPT ![a] = TellMerged]
        \/ /\ \A t \in Sessions : R[t] = NoRecord
           /\ rec' = R
           /\ PresenceFree
           /\ presence' = IF presence.room = NoRoom THEN presence ELSE Entry("around", NoRoom)
           /\ job' = [job EXCEPT ![a] = [Telling("gone", "leave") EXCEPT !.now = presence.room]]
    BY DEF SessionGone
  <1>2. rec' = R  BY RecGone
  <1>. HIDE DEF R
  <1>3. CASE /\ \E t \in Sessions : R[t] # NoRecord
             /\ Remerge(R)
             /\ job' = [job EXCEPT ![a] = TellMerged]
    <2>1. Remerge(rec')  BY <1>2, <1>3 DEF Remerge
    <2>2. \E t \in Sessions : rec'[t] # NoRecord  BY <1>2, <1>3
    <2>. QED  BY <1>3, <2>1, <2>2, TellRemerged
  <1>4. CASE /\ \A t \in Sessions : R[t] = NoRecord
             /\ PresenceFree
             /\ presence' = IF presence.room = NoRoom THEN presence ELSE Entry("around", NoRoom)
             /\ job' = [job EXCEPT ![a] = [Telling("gone", "leave") EXCEPT !.now = presence.room]]
    <2>1. presence = Merge(rec)  BY DEF TellInv, MergedOK
    <2>2. presence # Offline  BY <2>1, HereIsNotOffline
    <2>3. \A t \in Sessions : rec'[t] = NoRecord  BY <1>2, <1>4
    <2>. QED  BY <1>4, <2>2, <2>3, TellLast
  <1>. QED  BY <1>1, <1>3, <1>4

LEMMA ThreadsAre ==
  /\ \A s \in Sessions : Handler(s) \in Threads /\ Timer(s) \in Threads
  /\ PresenceTurn \in Threads /\ FocusTurn \in Threads /\ Patch \in Threads
  BY DEF Threads, Handler, Timer, PresenceTurn, FocusTurn, Patch

\* Every operation on what a session said, and what it leaves to tell.
LEMMA TellRecordStep ==
  ASSUME RecInv, RecInv', TellInv, NEW s \in Sessions,
         \/ ConnectionDropped(s) \/ ConnectionOpened(s) \/ Vanish(s) \/ ConnectionClosed(s)
         \/ \E n \in Nat : GraceOver(s, n)
         \/ \E r \in Places : RoomFocus(s, r)
         \/ \E state \in States : PresenceUpdate(s, state)
  PROVE  TellInv'
  <1>0. Handler(s) \in Threads /\ Timer(s) \in Threads  BY ThreadsAre
  <1>1. CASE Vanish(s)  BY <1>1, TellSame DEF Vanish
  <1>2. CASE ConnectionDropped(s)
    <2>1. /\ RecordsFree /\ presence' = presence /\ order' = order
          /\ UNCHANGED <<told, held, everybody, forgot, job>>
      BY <1>2 DEF ConnectionDropped
    <2>. QED  BY <1>2, <2>1, RecDropped, TellNothing
  <1>3. CASE ConnectionOpened(s)
    <2>1. /\ RecordsFree /\ Remerge(rec')
          /\ heard' = IF presence' = presence THEN heard ELSE presence'
          /\ UNCHANGED <<told, held, standing, forgot, job>>
      BY <1>3 DEF ConnectionOpened, Remerge
    <2>2. presence' = Merge(rec') /\ (presence' # presence => PresenceFree)  BY <2>1 DEF Remerge
    <2>3. /\ order' = order /\ rec'[s] # NoRecord
          /\ \A t \in Sessions :
               /\ rec'[t].room = rec[t].room /\ rec'[t].moved = rec[t].moved
               /\ rec[t] # NoRecord => rec'[t] # NoRecord /\ rec'[t].state = rec[t].state
               /\ rec[t] = NoRecord => rec'[t].state # "away"
      BY <1>3, RecOpened
    <2>4. /\ rec \in [Sessions -> Records \union {NoRecord}] /\ order \in Nat /\ Numbered(rec, order)
          /\ rec' \in [Sessions -> Records \union {NoRecord}] /\ Numbered(rec', order)
      BY <2>3 DEF RecInv, TypeRec
    <2>5. Merge(rec').room = Merge(rec).room  BY <2>3, <2>4, MergeArrival
    <2>6. presence = Merge(rec)  BY <2>1 DEF TellInv, MergedOK
    <2>7. presence' \in Entries /\ presence' # Offline  BY <2>2, <2>3, HereIsNotOfflineNext
    <2>. QED  BY <2>1, <2>2, <2>5, <2>6, <2>7, TellAtOnce
  <1>4. CASE ConnectionClosed(s)
    <2>1. /\ s \in up /\ job[Handler(s)] = Rest /\ RecordsFree /\ order' = order
          /\ UNCHANGED <<told, held, everybody, forgot>>
          /\ \/ rec[s].sockets > 1 /\ presence' = presence /\ job' = job
             \/ rec[s].sockets = 1 /\ SessionGone(Handler(s), s)
      BY <1>4 DEF ConnectionClosed, numbers
    <2>2. CASE rec[s].sockets > 1 /\ presence' = presence /\ job' = job
      <3>1. \A t \in Sessions : rec'[t].room = rec[t].room /\ rec'[t].state = rec[t].state
                                /\ rec'[t].moved = rec[t].moved
        BY <1>4, <2>2, RecClosed
      <3>. QED  BY <2>1, <2>2, <3>1, TellNothing
    <2>3. CASE SessionGone(Handler(s), s)
      <3>1. rec[s] # NoRecord  BY <2>1, UpHasRecord
      <3>. QED  BY <1>0, <2>1, <2>3, <3>1, TellSessionGone
    <2>. QED  BY <2>1, <2>2, <2>3
  <1>5. ASSUME NEW n \in Nat, GraceOver(s, n)
        PROVE  TellInv'
    <2>. DEFINE own == [rec[s] EXCEPT !.dropped = 0]
    <2>1. /\ job[Timer(s)] = Rest /\ RecordsFree /\ order' = order
          /\ UNCHANGED <<told, held, everybody, forgot>>
          /\ \/ UNCHANGED <<rec, presence, job>>
             \/ rec[s] # NoRecord /\ SessionGone(Timer(s), s)
             \/ /\ rec[s] # NoRecord
                /\ Remerge([rec EXCEPT ![s] = SpeaksAgain(own)])
                /\ job' = [job EXCEPT ![Timer(s)] = TellMerged]
      BY <1>5 DEF GraceOver
    <2>2. CASE UNCHANGED <<rec, presence, job>>  BY <2>1, <2>2, TellSame DEF maps
    <2>3. CASE rec[s] # NoRecord /\ SessionGone(Timer(s), s)
      BY <1>0, <2>1, <2>3, TellSessionGone
    <2>4. CASE /\ rec[s] # NoRecord
               /\ Remerge([rec EXCEPT ![s] = SpeaksAgain(own)])
               /\ job' = [job EXCEPT ![Timer(s)] = TellMerged]
      <3>1. rec[s] \in Records /\ rec \in [Sessions -> Records \union {NoRecord}]
        BY <2>4 DEF RecInv, TypeRec
      <3>2. own \in Records  BY <3>1 DEF Records
      <3>. HIDE DEF own
      <3>3. SpeaksAgain(own) # NoRecord
        <4>1. SpeaksAgain(own) \in Records  BY <3>2, SpeaksAgainIs
        <4>2. SpeaksAgain(own).state \in States  BY <4>1 DEF Records
        <4>. QED  BY <4>2, NoRecordIs DEF States
      <3>4. rec' = [rec EXCEPT ![s] = SpeaksAgain(own)]  BY <2>4 DEF Remerge
      <3>5. rec'[s] # NoRecord  BY <3>1, <3>3, <3>4
      <3>6. Remerge(rec')  BY <2>4, <3>4 DEF Remerge
      <3>. QED  BY <1>0, <2>1, <2>4, <3>5, <3>6, TellRemerged
    <2>. QED  BY <2>1, <2>2, <2>3, <2>4
  <1>6. ASSUME s \in up, job[Handler(s)] = Rest, RecordsFree,
               UNCHANGED <<told, held, everybody, forgot>>,
               \/ UNCHANGED <<rec, presence, job>>
               \/ Remerge(rec') /\ job' = [job EXCEPT ![Handler(s)] = TellMerged],
               up' = up
        PROVE  TellInv'
    <2>1. CASE UNCHANGED <<rec, presence, job>>  BY <1>6, <2>1, TellSame DEF maps
    <2>2. CASE Remerge(rec') /\ job' = [job EXCEPT ![Handler(s)] = TellMerged]
      <3>1. rec'[s] # NoRecord
        <4>1. Sockets(s)' /\ stale'[s] \in Nat  BY DEF RecInv, SessionInv, TypeRec
        <4>2. rec'[s].sockets # 0  BY <1>6, <4>1 DEF Sockets
        <4>. QED  BY <4>2, NoRecordIs
      <3>. QED  BY <1>0, <1>6, <2>2, <3>1, TellRemerged
    <2>. QED  BY <1>6, <2>1, <2>2
  <1>7. ASSUME NEW r \in Places, RoomFocus(s, r)
        PROVE  TellInv'
    <2>1. /\ s \in up /\ job[Handler(s)] = Rest /\ RecordsFree /\ up' = up
          /\ UNCHANGED <<told, held, everybody, forgot>>
          /\ \/ UNCHANGED <<rec, presence, job>>
             \/ Remerge(rec') /\ job' = [job EXCEPT ![Handler(s)] = TellMerged]
      BY <1>7 DEF RoomFocus, Remerge
    <2>. QED  BY <1>6, <2>1
  <1>8. ASSUME NEW state \in States, PresenceUpdate(s, state)
        PROVE  TellInv'
    <2>1. /\ s \in up /\ job[Handler(s)] = Rest /\ RecordsFree /\ up' = up
          /\ UNCHANGED <<told, held, everybody, forgot>>
          /\ \/ UNCHANGED <<rec, presence, job>>
             \/ Remerge(rec') /\ job' = [job EXCEPT ![Handler(s)] = TellMerged]
      BY <1>8 DEF PresenceUpdate, Remerge
    <2>. QED  BY <1>6, <2>1
  <1>. QED  BY <1>1, <1>2, <1>3, <1>4, <1>5, <1>7, <1>8

LEMMA TellBack ==
  ASSUME RecInv, RecInv', TellInv, BackEverywhere
  PROVE  TellInv'
  <1>. DEFINE away == {s \in Sessions : rec[s].state = "away"}
  <1>1. /\ away # {} /\ job[Patch] = Rest /\ RecordsFree
        /\ rec' = [s \in Sessions |-> IF s \in away THEN [rec[s] EXCEPT !.state = "around"] ELSE rec[s]]
        /\ Remerge(rec')
        /\ job' = [job EXCEPT ![Patch] = TellMerged]
        /\ UNCHANGED <<told, held, everybody, forgot>>
    BY DEF BackEverywhere, Remerge
  <1>2. PICK s \in Sessions : s \in away  BY <1>1
  <1>3. rec'[s] # NoRecord
    <2>1. rec'[s] = [rec[s] EXCEPT !.state = "around"]  BY <1>1, <1>2
    <2>2. rec[s] \in Records
      <3>1. rec[s] \in Records \union {NoRecord}  BY UpHasRecord
      <3>2. rec[s].state = "away"  BY <1>2
      <3>. QED  BY <3>1, <3>2, NoRecordIs
    <2>3. rec'[s].state = "around"  BY <2>1, <2>2 DEF Records
    <2>. QED  BY <2>3, NoRecordIs
  <1>. QED  BY <1>1, <1>3, ThreadsAre, TellRemerged

-----------------------------------------------------------------------------
(* One step of telling *)

\* The thread that moves, and the others.
LEMMA MovesTo ==
  ASSUME TypeTell, NEW a \in Threads, NEW k \in Jobs, job' = [job EXCEPT ![a] = k]
  PROVE  job' \in [Threads -> Jobs] /\ job'[a] = k /\ \A b \in Threads : b # a => job'[b] = job[b]
  BY DEF TypeTell

LEMMA MovesPc ==
  ASSUME TypeTell, NEW a \in Threads, NEW pc \in Pcs,
         job' = [job EXCEPT ![a] = [job[a] EXCEPT !.pc = pc]]
  PROVE  /\ job' \in [Threads -> Jobs] /\ \A b \in Threads : b # a => job'[b] = job[b]
         /\ job'[a].pc = pc /\ job'[a].by = job[a].by /\ job'[a].now = job[a].now
         /\ job'[a].copy = job[a].copy
  <1>. DEFINE k == [job[a] EXCEPT !.pc = pc]
  <1>1. job[a] \in Jobs  BY DEF TypeTell
  <1>2. k \in Jobs /\ k.pc = pc /\ k.by = job[a].by /\ k.now = job[a].now /\ k.copy = job[a].copy
    BY <1>1 DEF Jobs
  <1>3. job' = [job EXCEPT ![a] = k]  OBVIOUS
  <1>. HIDE DEF k
  <1>. QED  BY <1>2, <1>3, MovesTo

LEMMA MovesToRest ==
  ASSUME TypeTell, NEW a \in Threads, job' = [job EXCEPT ![a] = Rest]
  PROVE  /\ job' \in [Threads -> Jobs] /\ \A b \in Threads : b # a => job'[b] = job[b]
         /\ job'[a] = Rest
  BY MovesTo, RestIs

\* What the one that moves may do to the room told.
ToldOnly(a) == told' = told \/ told' = NoRoom \/ (job[a].pc = "rooms" /\ told' = job[a].now)

LEMMA GoneKept ==
  ASSUME GoneOK, JobOK, NEW a \in Threads, \A b \in Threads : b # a => job'[b] = job[b],
         rec' = rec, presence' = presence, ToldOnly(a),
         Gone(job'[a]) => Gone(job[a]),
         job'[a].pc = "rooms" => job'[a].now = presence.room \/ job'[a].now = NoRoom,
         Gone(job'[a]) /\ job'[a].pc \in Late /\ job[a].pc \notin Late =>
           told' = NoRoom /\ \A b \in Threads : b # a => job[b].pc # "rooms"
  PROVE  GoneOK'
  <1>. SUFFICES ASSUME NEW b \in Threads, Gone(job'[b])
                PROVE  /\ \A s \in Sessions : rec'[s] = NoRecord
                       /\ presence'.room = NoRoom /\ presence' # Offline
                       /\ job'[b].pc \in Late => told' = NoRoom /\ EntersOnly(NoRoom)'
    BY DEF GoneOK, Gone
  <1>1. Gone(job[b])  OBVIOUS
  <1>2. /\ \A s \in Sessions : rec'[s] = NoRecord
        /\ presence'.room = NoRoom /\ presence' # Offline
    BY <1>1 DEF GoneOK
  <1>3. ASSUME job[b].pc \in Late
        PROVE  told' = NoRoom /\ EntersOnly(NoRoom)'
    <2>1. told = NoRoom /\ EntersOnly(NoRoom) /\ presence.room = NoRoom  BY <1>1, <1>3 DEF GoneOK
    <2>2. told' = NoRoom  BY <2>1 DEF ToldOnly, EntersOnly
    <2>3. job'[a].pc = "rooms" => job'[a].now = NoRoom  BY <2>1
    <2>4. EntersOnly(NoRoom)'  BY <2>1, <2>3 DEF EntersOnly
    <2>. QED  BY <2>2, <2>4
  <1>4. ASSUME job'[b].pc \in Late, job[b].pc \notin Late
        PROVE  told' = NoRoom /\ EntersOnly(NoRoom)'
    <2>1. b = a  BY <1>4
    <2>2. told' = NoRoom /\ \A c \in Threads : c # a => job[c].pc # "rooms"  BY <1>4, <2>1
    <2>3. job'[a].pc # "rooms"  BY <1>4, <2>1 DEF Late
    <2>4. EntersOnly(NoRoom)'  BY <2>2, <2>3 DEF EntersOnly
    <2>. QED  BY <2>2, <2>4
  <1>. QED  BY <1>2, <1>3, <1>4

LEMMA MergedKept ==
  ASSUME MergedOK, NEW a \in Threads, \A b \in Threads : b # a => job'[b] = job[b],
         rec' = rec, presence' = presence, Gone(job[a]) => Gone(job'[a])
  PROVE  MergedOK'
  BY DEF MergedOK, RecordsFree, Gone

LEMMA OfflineKept ==
  ASSUME OfflineOK, NEW a \in Threads, \A b \in Threads : b # a => job'[b] = job[b],
         presence' = presence, presence = Offline => heard' = heard, ToldOnly(a),
         job'[a].pc = "rooms" => job'[a].now = NoRoom \/ presence # Offline
  PROVE  OfflineOK'
  <1>. SUFFICES ASSUME presence = Offline
                PROVE  heard' = Offline /\ told' = NoRoom /\ EntersOnly(NoRoom)'
    BY DEF OfflineOK
  <1>1. heard = Offline /\ told = NoRoom /\ EntersOnly(NoRoom)  BY DEF OfflineOK
  <1>2. told' = NoRoom  BY <1>1 DEF ToldOnly, EntersOnly
  <1>3. EntersOnly(NoRoom)'  BY <1>1 DEF EntersOnly
  <1>. QED  BY <1>1, <1>2, <1>3

LEMMA HeardKept ==
  ASSUME HeardOK, NEW a \in Threads, \A b \in Threads : b # a => job'[b] = job[b],
         \/ job'[a].pc \notin {"rest", "forget"}
         \/ presenceHeld' \/ focusHeld' \/ heard' = presence'
         \/ /\ job[a].pc \in {"rest", "forget"}
            /\ presence' = presence /\ heard' = heard
            /\ presenceHeld' = presenceHeld /\ focusHeld' = focusHeld
  PROVE  HeardOK'
  <1>1. CASE \/ job'[a].pc \notin {"rest", "forget"}
             \/ presenceHeld' \/ focusHeld' \/ heard' = presence'
    BY <1>1 DEF HeardOK
  <1>2. CASE /\ job[a].pc \in {"rest", "forget"}
             /\ presence' = presence /\ heard' = heard
             /\ presenceHeld' = presenceHeld /\ focusHeld' = focusHeld
    <2>1. CASE \E b \in Threads : job[b].pc \notin {"rest", "forget"}
      <3>1. PICK b \in Threads : job[b].pc \notin {"rest", "forget"}  BY <2>1
      <3>2. job'[b].pc \notin {"rest", "forget"}  BY <1>2, <3>1
      <3>. QED  BY <3>2 DEF HeardOK
    <2>2. CASE heard = presence \/ presenceHeld \/ focusHeld  BY <1>2, <2>2 DEF HeardOK
    <2>. QED  BY <2>1, <2>2 DEF HeardOK
  <1>. QED  BY <1>1, <1>2

\* A step by a thread that owes nothing of a move.
LEMMA RoomKept ==
  ASSUME RoomOK, NEW a \in Threads, \A b \in Threads : b # a => job'[b] = job[b],
         presence'.room = presence.room, told' = told, forgot' = forgot, focusHeld => focusHeld',
         ~Moves(job[a]), job[a].pc # "rooms", job'[a].pc # "rooms"
  PROVE  RoomOK'
  <1>1. CASE forgot \/ focusHeld  BY <1>1 DEF RoomOK, RoomPending
  <1>2. CASE \E b \in Threads : Moves(job[b]) \/ (job[b].pc = "rooms" /\ job[b].now = presence.room)
    <2>1. PICK b \in Threads : Moves(job[b]) \/ (job[b].pc = "rooms" /\ job[b].now = presence.room)
      BY <1>2
    <2>2. b # a  BY <2>1
    <2>3. job'[b] = job[b]  BY <2>2
    <2>4. Moves(job'[b]) \/ (job'[b].pc = "rooms" /\ job'[b].now = presence'.room)  BY <2>1, <2>3
    <2>. QED  BY <2>4 DEF RoomOK, RoomPending, Moves
  <1>3. CASE told = presence.room /\ EntersOnly(presence.room)
    <2>1. EntersOnly(presence.room)'  BY <1>3 DEF EntersOnly
    <2>. QED  BY <1>3, <2>1 DEF RoomOK
  <1>. QED  BY <1>1, <1>2, <1>3 DEF RoomOK, RoomPending

\* What a step by one thread has to show, when it leaves the records, the presence and
\* the rooms told alone.
LEMMA TellMoves ==
  ASSUME TellInv, NEW a \in Threads, \A b \in Threads : b # a => job'[b] = job[b],
         job' \in [Threads -> Jobs], Phase(job'[a].by, job'[a].pc),
         job'[a].pc # "rooms", job'[a].pc \in Late => job[a].pc \in Late \/ ~Gone(job'[a]),
         Entering(job'[a]) => Entering(job[a]) \/ FocusFree,
         Gone(job'[a]) <=> Gone(job[a]),
         job'[a].pc = "publish" => job'[a].copy = presence /\ presence # Offline,
         rec' = rec, presence' = presence, told' = told, standing' = standing, forgot' = forgot,
         heard' \in Entries, presenceHeld' \in BOOLEAN, focusHeld' \in BOOLEAN,
         presence = Offline => heard' = heard,
         \/ job'[a].pc \notin {"rest", "forget"}
         \/ presenceHeld' \/ focusHeld' \/ heard' = presence,
         RoomOK'
  PROVE  TellInv'
  <1>0. /\ TypeTell /\ JobOK /\ LockOK /\ PublishOK /\ GoneOK /\ MergedOK /\ OfflineOK
        /\ HeardOK /\ StandOK
    BY DEF TellInv
  <1>1. TypeTell'  BY <1>0 DEF TypeTell
  <1>2. JobOK'  BY <1>0, JobKept
  <1>3. LockOK'  BY <1>0, LockKept
  <1>4. PublishOK'  BY <1>0, PublishKept
  <1>5. ToldOnly(a)  BY DEF ToldOnly
  <1>6. GoneOK'  BY <1>0, <1>5, GoneKept
  <1>7. MergedOK'  BY <1>0, MergedKept
  <1>8. OfflineOK'  BY <1>0, <1>5, OfflineKept
  <1>9. HeardOK'  BY <1>0, HeardKept
  <1>10. StandOK'  BY <1>0, StandKept
  <1>. QED  BY <1>1, <1>2, <1>3, <1>4, <1>6, <1>7, <1>8, <1>9, <1>10 DEF TellInv

LEMMA TellHeldAlready ==
  ASSUME TellInv, NEW a \in Threads, HeldAlready(a)
  PROVE  TellInv'
  <1>0. /\ job[a].pc = "held" /\ rec' = rec /\ presence' = presence /\ told' = told
        /\ presenceHeld' = presenceHeld /\ focusHeld' = focusHeld
        /\ heard' = heard /\ standing' = standing /\ forgot' = forgot
    BY DEF HeldAlready, maps, held, everybody
  <1>1. TypeTell /\ JobOK /\ RoomOK /\ job[a] \in Jobs  BY DEF TellInv, TypeTell
  <1>2. Phase(job[a].by, "held")  BY <1>0, <1>1 DEF JobOK
  <1>3. job[a].by = "presence" \/ job[a].by = "focus"  BY <1>2 DEF Phase
  <1>4. heard' \in Entries /\ presenceHeld' \in BOOLEAN /\ focusHeld' \in BOOLEAN
    BY <1>0, <1>1 DEF TypeTell
  <1>5. ~Gone(job[a])  BY <1>3 DEF Gone
  <1>6. CASE (job[a].by = "presence" /\ presenceHeld) \/ (job[a].by = "focus" /\ focusHeld)
    <2>1. job' = [job EXCEPT ![a] = Rest]  BY <1>6 DEF HeldAlready
    <2>2. /\ job' \in [Threads -> Jobs] /\ \A b \in Threads : b # a => job'[b] = job[b]
          /\ job'[a] = Rest
      BY <1>1, <2>1, MovesToRest
    <2>3. RoomOK'
      <3>1. CASE focusHeld  BY <1>0, <3>1 DEF RoomOK, RoomPending
      <3>2. CASE job[a].by = "presence"
        <4>1. ~Moves(job[a])  BY <1>0, <3>2 DEF Moves
        <4>. QED  BY <1>0, <1>1, <2>2, <4>1, RoomKept, RestIs
      <3>. QED  BY <1>6, <3>1, <3>2
    <2>4. presenceHeld' \/ focusHeld'  BY <1>0, <1>6
    <2>5. /\ job'[a].pc = "rest" /\ Phase(job'[a].by, job'[a].pc)
          /\ ~Gone(job'[a]) /\ ~Entering(job'[a])
      BY <2>2, RestIs
    <2>. QED  BY <1>0, <1>4, <1>5, <2>2, <2>3, <2>4, <2>5, TellMoves
  <1>7. CASE ~((job[a].by = "presence" /\ presenceHeld) \/ (job[a].by = "focus" /\ focusHeld))
    <2>1. job' = [job EXCEPT ![a] = [job[a] EXCEPT !.pc = "limit"]] /\ "limit" \in Pcs
      BY <1>7 DEF HeldAlready, Pcs
    <2>2. /\ job' \in [Threads -> Jobs] /\ \A b \in Threads : b # a => job'[b] = job[b]
          /\ job'[a].pc = "limit" /\ job'[a].by = job[a].by
      BY <1>1, <2>1, MovesPc
    <2>3. RoomOK'
      <3>1. CASE job[a].by = "focus"
        BY <2>2, <3>1 DEF RoomOK, RoomPending, Moves
      <3>2. CASE job[a].by = "presence"
        <4>1. ~Moves(job[a])  BY <1>0, <3>2 DEF Moves
        <4>. QED  BY <1>0, <1>1, <2>2, <4>1, RoomKept
      <3>. QED  BY <1>3, <3>1, <3>2
    <2>4. Phase(job'[a].by, job'[a].pc) /\ ~Gone(job'[a]) /\ ~Entering(job'[a])
      BY <1>3, <2>2 DEF Phase, Gone, Entering
    <2>. QED  BY <1>0, <1>4, <1>5, <2>2, <2>3, <2>4, TellMoves
  <1>. QED  BY <1>6, <1>7

LEMMA TellLimit ==
  ASSUME TellInv, NEW a \in Threads, Limit(a)
  PROVE  TellInv'
  <1>0. /\ job[a].pc = "limit" /\ rec' = rec /\ presence' = presence /\ told' = told
        /\ heard' = heard /\ standing' = standing /\ forgot' = forgot
    BY DEF Limit, maps, everybody
  <1>1. TypeTell /\ JobOK /\ RoomOK /\ job[a] \in Jobs  BY DEF TellInv, TypeTell
  <1>2. Phase(job[a].by, "limit")  BY <1>0, <1>1 DEF JobOK
  <1>3. job[a].by = "presence" \/ job[a].by = "focus"  BY <1>2 DEF Phase
  <1>4. heard' \in Entries  BY <1>0, <1>1 DEF TypeTell
  <1>5. ~Gone(job[a])  BY <1>3 DEF Gone
  <1>. DEFINE pc == IF job[a].by = "focus" THEN "sound" ELSE "tell"
  <1>6. \/ job' = [job EXCEPT ![a].pc = pc] /\ UNCHANGED held
        \/ /\ job' = [job EXCEPT ![a] = Rest]
           /\ presenceHeld' = IF job[a].by = "presence" THEN TRUE ELSE presenceHeld
           /\ focusHeld' = IF job[a].by = "focus" THEN TRUE ELSE focusHeld
    BY DEF Limit, PresenceHold
  <1>7. CASE job' = [job EXCEPT ![a].pc = pc] /\ UNCHANGED held
    <2>0. presenceHeld' = presenceHeld /\ focusHeld' = focusHeld  BY <1>7 DEF held
    <2>1. job' = [job EXCEPT ![a] = [job[a] EXCEPT !.pc = pc]] /\ pc \in Pcs
      BY <1>7 DEF Pcs
    <2>. HIDE DEF pc
    <2>2. /\ job' \in [Threads -> Jobs] /\ \A b \in Threads : b # a => job'[b] = job[b]
          /\ job'[a].pc = pc /\ job'[a].by = job[a].by
      BY <1>1, <2>1, MovesPc
    <2>3. \/ job[a].by = "focus" /\ pc = "sound"
          \/ job[a].by = "presence" /\ pc = "tell"
      BY <1>3 DEF pc
    <2>4. RoomOK'
      <3>1. CASE job[a].by = "focus" /\ pc = "sound"
        BY <2>2, <3>1 DEF RoomOK, RoomPending, Moves
      <3>2. CASE job[a].by = "presence" /\ pc = "tell"
        <4>1. ~Moves(job[a])  BY <1>0, <3>2 DEF Moves
        <4>2. job'[a].pc # "rooms"  BY <2>2, <3>2
        <4>. QED  BY <1>0, <1>1, <2>0, <2>2, <4>1, <4>2, RoomKept
      <3>. QED  BY <2>3, <3>1, <3>2
    <2>5. /\ Phase(job'[a].by, job'[a].pc) /\ ~Gone(job'[a]) /\ ~Entering(job'[a])
          /\ job'[a].pc \notin {"rest", "forget", "publish", "rooms"}
      BY <2>2, <2>3 DEF Phase, Gone, Entering
    <2>6. presenceHeld' \in BOOLEAN /\ focusHeld' \in BOOLEAN  BY <1>1, <2>0 DEF TypeTell
    <2>. QED  BY <1>0, <1>4, <1>5, <2>2, <2>4, <2>5, <2>6, TellMoves
  <1>8. CASE /\ job' = [job EXCEPT ![a] = Rest]
             /\ presenceHeld' = IF job[a].by = "presence" THEN TRUE ELSE presenceHeld
             /\ focusHeld' = IF job[a].by = "focus" THEN TRUE ELSE focusHeld
    <2>2. /\ job' \in [Threads -> Jobs] /\ \A b \in Threads : b # a => job'[b] = job[b]
          /\ job'[a] = Rest
      BY <1>1, <1>8, MovesToRest
    <2>3. RoomOK'
      <3>1. CASE job[a].by = "focus"  BY <1>8, <3>1 DEF RoomOK, RoomPending
      <3>2. CASE job[a].by = "presence"
        <4>1. ~Moves(job[a])  BY <1>0, <3>2 DEF Moves
        <4>2. focusHeld => focusHeld'  BY <1>8, <3>2
        <4>. QED  BY <1>0, <1>1, <2>2, <4>1, <4>2, RoomKept, RestIs
      <3>. QED  BY <1>3, <3>1, <3>2
    <2>4. presenceHeld' \/ focusHeld'  BY <1>3, <1>8
    <2>5. /\ job'[a].pc = "rest" /\ Phase(job'[a].by, job'[a].pc)
          /\ ~Gone(job'[a]) /\ ~Entering(job'[a])
      BY <2>2, RestIs
    <2>6. presenceHeld' \in BOOLEAN /\ focusHeld' \in BOOLEAN  BY <1>1, <1>8 DEF TypeTell
    <2>. QED  BY <1>0, <1>4, <1>5, <2>2, <2>3, <2>4, <2>5, <2>6, TellMoves
  <1>. QED  BY <1>6, <1>7, <1>8

\* A turn that comes.
LEMMA TellTurn ==
  ASSUME TellInv, PresenceTurnComes \/ FocusTurnComes
  PROVE  TellInv'
  <1>0. /\ rec' = rec /\ presence' = presence /\ told' = told
        /\ heard' = heard /\ standing' = standing /\ forgot' = forgot
    BY DEF PresenceTurnComes, FocusTurnComes, maps, everybody
  <1>1. TypeTell /\ RoomOK  BY DEF TellInv
  <1>2. heard' \in Entries  BY <1>0, <1>1 DEF TypeTell
  <1>3. CASE PresenceTurnComes
    <2>. DEFINE k == Telling("presence", "tell")
    <2>1. /\ job[PresenceTurn] = Rest /\ job' = [job EXCEPT ![PresenceTurn] = k]
          /\ presenceHeld' = FALSE /\ focusHeld' = focusHeld
      BY <1>3 DEF PresenceTurnComes
    <2>2. "presence" \in Bys /\ "tell" \in Pcs  BY DEF Bys, Pcs
    <2>3. k \in Jobs /\ k.by = "presence" /\ k.pc = "tell"  BY <2>2, TellingIs
    <2>. HIDE DEF k
    <2>4. /\ job' \in [Threads -> Jobs] /\ job'[PresenceTurn] = k
          /\ \A b \in Threads : b # PresenceTurn => job'[b] = job[b]
      BY <1>1, <2>1, <2>3, MovesTo, ThreadsAre
    <2>5. /\ Phase(k.by, k.pc) /\ ~Gone(k) /\ ~Entering(k) /\ k.pc # "rooms"
          /\ k.pc # "publish" /\ k.pc \notin {"rest", "forget"}
      BY <2>3 DEF Phase, Gone, Entering
    <2>6. ~Moves(job[PresenceTurn]) /\ ~Gone(job[PresenceTurn]) /\ job[PresenceTurn].pc # "rooms"
      BY <2>1, RestIs
    <2>7. RoomOK'  BY <1>0, <1>1, <2>1, <2>4, <2>5, <2>6, RoomKept, ThreadsAre
    <2>8. presenceHeld' \in BOOLEAN /\ focusHeld' \in BOOLEAN  BY <1>1, <2>1 DEF TypeTell
    <2>. QED  BY <1>0, <1>2, <2>4, <2>5, <2>6, <2>7, <2>8, TellMoves, ThreadsAre
  <1>4. CASE FocusTurnComes
    <2>. DEFINE k == Telling("focus", "sound")
    <2>1. /\ job[FocusTurn] = Rest /\ job' = [job EXCEPT ![FocusTurn] = k]
          /\ focusHeld' = FALSE /\ presenceHeld' = presenceHeld
      BY <1>4 DEF FocusTurnComes
    <2>2. "focus" \in Bys /\ "sound" \in Pcs  BY DEF Bys, Pcs
    <2>3. k \in Jobs /\ k.by = "focus" /\ k.pc = "sound"  BY <2>2, TellingIs
    <2>. HIDE DEF k
    <2>4. /\ job' \in [Threads -> Jobs] /\ job'[FocusTurn] = k
          /\ \A b \in Threads : b # FocusTurn => job'[b] = job[b]
      BY <1>1, <2>1, <2>3, MovesTo, ThreadsAre
    <2>5. /\ Phase(k.by, k.pc) /\ ~Gone(k) /\ ~Entering(k) /\ k.pc # "rooms" /\ Moves(k)
          /\ k.pc # "publish" /\ k.pc \notin {"rest", "forget"}
      BY <2>3 DEF Phase, Gone, Entering, Moves
    <2>6. ~Gone(job[FocusTurn])  BY <2>1, RestIs
    <2>7. RoomOK'  BY <2>4, <2>5, ThreadsAre DEF RoomOK, RoomPending, Moves
    <2>8. presenceHeld' \in BOOLEAN /\ focusHeld' \in BOOLEAN  BY <1>1, <2>1 DEF TypeTell
    <2>. QED  BY <1>0, <1>2, <2>4, <2>5, <2>6, <2>7, <2>8, TellMoves, ThreadsAre
  <1>. QED  BY <1>3, <1>4

\* Whoever is about to enter a room holds the entry of focus_told.
LEMMA FreeMeansNobodyEnters ==
  ASSUME JobOK, FocusFree
  PROVE  \A b \in Threads : ~Entering(job[b]) /\ job[b].pc # "rooms"
  <1>1. \A b \in Threads : ~Entering(job[b])  BY DEF FocusFree, Entering
  <1>2. \A b \in Threads : job[b].pc = "rooms" => Entering(job[b])
    BY DEF JobOK, Phase, Entering
  <1>. QED  BY <1>1, <1>2

LEMMA TellTellFocus ==
  ASSUME TellInv, NEW a \in Threads, TellFocus(a)
  PROVE  TellInv'
  <1>0. /\ job[a].pc = "sound" /\ FocusFree /\ rec' = rec /\ presence' = presence /\ told' = told
        /\ presenceHeld' = presenceHeld /\ focusHeld' = focusHeld
        /\ heard' = heard /\ standing' = standing /\ forgot' = forgot
    BY DEF TellFocus, maps, held, everybody
  <1>1. /\ TypeTell /\ JobOK /\ LockOK /\ PublishOK /\ GoneOK /\ MergedOK /\ OfflineOK
        /\ HeardOK /\ RoomOK /\ StandOK /\ job[a] \in Jobs
    BY DEF TellInv, TypeTell
  <1>2. Phase(job[a].by, "sound")  BY <1>0, <1>1 DEF JobOK
  <1>3. job[a].by = "focus" /\ ~Gone(job[a])  BY <1>2 DEF Phase, Gone
  <1>4. heard' \in Entries /\ presenceHeld' \in BOOLEAN /\ focusHeld' \in BOOLEAN
    BY <1>0, <1>1 DEF TypeTell
  <1>5. CASE presence = Offline
    <2>1. job' = [job EXCEPT ![a] = [job[a] EXCEPT !.pc = "forget"]] /\ "forget" \in Pcs
      BY <1>5 DEF TellFocus, Pcs
    <2>2. /\ job' \in [Threads -> Jobs] /\ \A b \in Threads : b # a => job'[b] = job[b]
          /\ job'[a].pc = "forget" /\ job'[a].by = job[a].by
      BY <1>1, <2>1, MovesPc
    <2>3. heard = Offline /\ told = NoRoom /\ presence.room = NoRoom
      BY <1>1, <1>5 DEF OfflineOK, Offline
    <2>4. RoomOK'
      <3>1. EntersOnly(presence.room)'
        BY <1>0, <1>1, <2>2, FreeMeansNobodyEnters DEF EntersOnly
      <3>2. told' = presence'.room  BY <1>0, <2>3
      <3>. QED  BY <3>1, <3>2 DEF RoomOK
    <2>5. Phase(job'[a].by, job'[a].pc) /\ ~Gone(job'[a]) /\ ~Entering(job'[a])
      BY <1>3, <2>2 DEF Phase, Gone, Entering
    <2>6. heard' = presence  BY <1>0, <1>5, <2>3
    <2>. QED  BY <1>0, <1>3, <1>4, <2>2, <2>4, <2>5, <2>6, TellMoves
  <1>6. CASE presence # Offline
    <2>. DEFINE k == [job[a] EXCEPT !.pc = "rooms", !.now = presence.room]
    <2>0. job' = [job EXCEPT ![a] = k]  BY <1>6 DEF TellFocus
    <2>1. presence.room \in Places /\ "rooms" \in Pcs  BY <1>1 DEF TypeTell, Entries, Places, Pcs
    <2>2. k \in Jobs  BY <1>1, <2>1 DEF Jobs
    <2>3. k.pc = "rooms" /\ k.now = presence.room /\ k.by = job[a].by  BY <1>1 DEF Jobs
    <2>. HIDE DEF k
    <2>4. /\ job' \in [Threads -> Jobs] /\ job'[a] = k
          /\ \A b \in Threads : b # a => job'[b] = job[b]
      BY <1>1, <2>0, <2>2, MovesTo
    <2>5. Phase(k.by, k.pc) /\ ~Gone(k) /\ ~(k.by = "gone")  BY <1>3, <2>3 DEF Phase, Gone
    <2>6. TypeTell'  BY <1>0, <1>1, <2>4 DEF TypeTell
    <2>7. JobOK'  BY <1>1, <2>4, <2>5, JobKept
    <2>8. LockOK'  BY <1>0, <1>1, <2>4, <2>5, LockKept
    <2>9. PublishOK'  BY <1>0, <1>1, <2>3, <2>4, PublishKept
    <2>10. ToldOnly(a)  BY <1>0 DEF ToldOnly
    <2>11. GoneOK'  BY <1>0, <1>1, <2>3, <2>4, <2>5, <2>10, GoneKept
    <2>12. MergedOK'  BY <1>0, <1>1, <1>3, <2>4, MergedKept
    <2>13. OfflineOK'  BY <1>0, <1>1, <1>6, <2>4, <2>10, OfflineKept
    <2>14. HeardOK'  BY <2>3, <2>4 DEF HeardOK
    <2>15. RoomOK'  BY <1>0, <2>3, <2>4 DEF RoomOK, RoomPending
    <2>16. StandOK'  BY <1>0, <1>1, StandKept
    <2>. QED  BY <2>6, <2>7, <2>8, <2>9, <2>11, <2>12, <2>13, <2>14, <2>15, <2>16 DEF TellInv
  <1>. QED  BY <1>5, <1>6

LEMMA TellForget ==
  ASSUME TellInv, NEW a \in Threads, Forget(a)
  PROVE  TellInv'
  <1>0. /\ job[a].pc = "forget" /\ FocusFree /\ rec' = rec /\ presence' = presence
        /\ told' = NoRoom /\ (forgot' <=> (forgot \/ told # NoRoom))
        /\ job' = [job EXCEPT ![a] = Rest]
        /\ presenceHeld' = presenceHeld /\ focusHeld' = focusHeld
        /\ heard' = heard /\ standing' = standing
    BY DEF Forget, held, everybody
  <1>1. /\ TypeTell /\ JobOK /\ LockOK /\ PublishOK /\ GoneOK /\ MergedOK /\ OfflineOK
        /\ HeardOK /\ RoomOK /\ StandOK /\ job[a] \in Jobs
    BY DEF TellInv, TypeTell
  <1>2. Phase(job[a].by, "forget")  BY <1>0, <1>1 DEF JobOK
  <1>3. job[a].by = "focus" /\ ~Gone(job[a]) /\ ~Moves(job[a])
    BY <1>0, <1>2 DEF Phase, Gone, Moves
  <1>4. /\ job' \in [Threads -> Jobs] /\ \A b \in Threads : b # a => job'[b] = job[b]
        /\ job'[a] = Rest
    BY <1>0, <1>1, MovesToRest
  <1>5. TypeTell'  BY <1>0, <1>1, <1>4 DEF TypeTell, Places
  <1>6. JobOK'  BY <1>1, <1>4, JobKept, RestIs
  <1>7. LockOK'  BY <1>1, <1>4, LockKept, RestIs
  <1>8. PublishOK'  BY <1>0, <1>1, <1>4, PublishKept, RestIs
  <1>9. ToldOnly(a)  BY <1>0 DEF ToldOnly
  <1>10. GoneOK'  BY <1>0, <1>1, <1>4, <1>9, GoneKept, RestIs
  <1>11. MergedOK'  BY <1>0, <1>1, <1>3, <1>4, MergedKept
  <1>12. OfflineOK'  BY <1>0, <1>1, <1>4, <1>9, OfflineKept, RestIs
  <1>13. HeardOK'  BY <1>0, <1>1, <1>4, HeardKept
  <1>14. CASE told # NoRoom
    <2>1. forgot'  BY <1>0, <1>14
    <2>2. RoomOK' /\ StandOK'  BY <2>1 DEF RoomOK, StandOK
    <2>. QED  BY <1>5, <1>6, <1>7, <1>8, <1>10, <1>11, <1>12, <1>13, <2>2 DEF TellInv
  <1>15. CASE told = NoRoom
    <2>1. told' = told /\ (forgot' <=> forgot)  BY <1>0, <1>15
    <2>2. StandOK'  BY <1>0, <1>1, <2>1 DEF StandOK
    <2>3. RoomOK'
      <3>1. CASE forgot  BY <2>1, <3>1 DEF RoomOK
      <3>2. CASE ~forgot
        <4>1. RoomPending \/ (told = presence.room /\ EntersOnly(presence.room))
          BY <1>1, <3>2 DEF RoomOK
        <4>2. CASE focusHeld  BY <1>0, <4>2 DEF RoomOK, RoomPending
        <4>3. CASE \E b \in Threads : Moves(job[b])
          <5>1. PICK b \in Threads : Moves(job[b])  BY <4>3
          <5>2. b # a  BY <1>3, <5>1
          <5>3. job'[b] = job[b]  BY <1>4, <5>2
          <5>4. Moves(job'[b])  BY <5>1, <5>3
          <5>. QED  BY <5>4 DEF RoomOK, RoomPending, Moves
        <4>4. CASE told = presence.room /\ EntersOnly(presence.room)
          <5>1. EntersOnly(presence.room)'  BY <1>0, <1>4, <4>4, RestIs DEF EntersOnly
          <5>. QED  BY <1>0, <2>1, <4>4, <5>1 DEF RoomOK
        <4>5. \A b \in Threads : job[b].pc # "rooms"  BY <1>0, <1>1, FreeMeansNobodyEnters
        <4>. QED  BY <4>1, <4>2, <4>3, <4>4, <4>5 DEF RoomPending
      <3>. QED  BY <3>1, <3>2
    <2>. QED  BY <1>5, <1>6, <1>7, <1>8, <1>10, <1>11, <1>12, <1>13, <2>2, <2>3 DEF TellInv
  <1>. QED  BY <1>14, <1>15

\* The rooms left and entered.
LEMMA TellTellRooms ==
  ASSUME TellInv, NEW a \in Threads, TellRooms(a)
  PROVE  TellInv'
  <1>. DEFINE now == job[a].now
  <1>0. /\ job[a].pc = "rooms" /\ rec' = rec /\ presence' = presence /\ told' = now
        /\ standing' = IF told = now THEN standing
                       ELSE (standing \ ({told} \ DMs)) \union ({now} \ (DMs \union {NoRoom}))
        /\ job' = [job EXCEPT ![a] = [job[a] EXCEPT !.pc = "tell"]]
        /\ presenceHeld' = presenceHeld /\ focusHeld' = focusHeld
        /\ heard' = heard /\ forgot' = forgot
    BY DEF TellRooms, held, Leaves, Enters
  <1>1. /\ TypeTell /\ JobOK /\ LockOK /\ PublishOK /\ GoneOK /\ MergedOK /\ OfflineOK
        /\ HeardOK /\ RoomOK /\ StandOK /\ job[a] \in Jobs
    BY DEF TellInv, TypeTell
  <1>2. Phase(job[a].by, "rooms")  BY <1>0, <1>1 DEF JobOK
  <1>3. job[a].by \in {"focus", "gone"} /\ Entering(job[a]) /\ ~Moves(job[a])
    BY <1>0, <1>2 DEF Phase, Entering, Moves
  <1>4. now \in Places  BY <1>1 DEF Jobs
  <1>5. "tell" \in Pcs  BY DEF Pcs
  <1>6. /\ job' \in [Threads -> Jobs] /\ \A b \in Threads : b # a => job'[b] = job[b]
        /\ job'[a].pc = "tell" /\ job'[a].by = job[a].by
    BY <1>0, <1>1, <1>5, MovesPc
  <1>7. \A b \in Threads : b # a => job[b].pc # "rooms"
    <2>1. \A b \in Threads : job[b].pc = "rooms" => Entering(job[b])
      BY <1>1 DEF JobOK, Phase, Entering
    <2>. QED  BY <1>1, <1>3, <2>1 DEF LockOK
  <1>8. TypeTell'
    <2>1. standing' \subseteq Rooms \ DMs  BY <1>0, <1>1, <1>4 DEF TypeTell, Places
    <2>. QED  BY <1>0, <1>1, <1>4, <1>6, <2>1 DEF TypeTell
  <1>9. JobOK'
    <2>1. Phase(job'[a].by, job'[a].pc)  BY <1>3, <1>6 DEF Phase
    <2>. QED  BY <1>1, <1>6, <2>1, JobKept
  <1>10. (Gone(job'[a]) <=> Gone(job[a])) /\ job'[a].pc # "rooms" /\ job'[a].pc # "publish"
    BY <1>6 DEF Gone
  <1>11. LockOK'  BY <1>1, <1>3, <1>6, <1>10, LockKept
  <1>12. PublishOK'  BY <1>0, <1>1, <1>6, <1>10, PublishKept
  <1>13. ToldOnly(a)  BY <1>0 DEF ToldOnly
  <1>14. GoneOK'
    <2>1. Gone(job[a]) => now = NoRoom  BY <1>0, <1>1 DEF JobOK, Gone
    <2>2. Gone(job'[a]) => told' = NoRoom  BY <1>0, <1>10, <2>1
    <2>. QED  BY <1>0, <1>1, <1>6, <1>7, <1>10, <1>13, <2>2, GoneKept
  <1>15. MergedOK'  BY <1>0, <1>1, <1>6, <1>10, MergedKept
  <1>16. OfflineOK'  BY <1>0, <1>1, <1>6, <1>10, <1>13, OfflineKept
  <1>17. HeardOK'  BY <1>6 DEF HeardOK
  <1>18. RoomOK'
    <2>1. CASE now = presence.room
      <3>1. EntersOnly(presence.room)'  BY <1>6, <1>7 DEF EntersOnly
      <3>. QED  BY <1>0, <2>1, <3>1 DEF RoomOK
    <2>2. CASE now # presence.room
      <3>1. ~EntersOnly(presence.room)  BY <1>0, <2>2 DEF EntersOnly
      <3>2. forgot \/ focusHeld \/ \E b \in Threads : Moves(job[b])
        BY <1>0, <1>1, <1>7, <2>2, <3>1 DEF RoomOK, RoomPending
      <3>3. CASE forgot \/ focusHeld  BY <1>0, <3>3 DEF RoomOK, RoomPending
      <3>4. CASE \E b \in Threads : Moves(job[b])
        <4>1. PICK b \in Threads : Moves(job[b])  BY <3>4
        <4>2. b # a  BY <1>3, <4>1
        <4>3. job'[b] = job[b]  BY <1>6, <4>2
        <4>4. Moves(job'[b])  BY <4>1, <4>3
        <4>. QED  BY <4>4 DEF RoomOK, RoomPending, Moves
      <3>. QED  BY <3>2, <3>3, <3>4
    <2>. QED  BY <2>1, <2>2
  <1>19. StandOK'
    <2>1. CASE forgot  BY <1>0, <2>1 DEF StandOK
    <2>2. CASE ~forgot
      <3>1. standing = {told} \ (DMs \union {NoRoom})  BY <1>1, <2>2 DEF StandOK
      <3>2. standing' = {now} \ (DMs \union {NoRoom})
        <4>1. CASE told = now  BY <1>0, <3>1, <4>1
        <4>2. CASE told # now
          <5>1. standing \ ({told} \ DMs) = {}  BY <3>1
          <5>. QED  BY <1>0, <4>2, <5>1
        <4>. QED  BY <4>1, <4>2
      <3>. QED  BY <1>0, <3>2 DEF StandOK
    <2>. QED  BY <2>1, <2>2
  <1>. QED  BY <1>8, <1>9, <1>11, <1>12, <1>14, <1>15, <1>16, <1>17, <1>18, <1>19 DEF TellInv

LEMMA TellReadPresence ==
  ASSUME TellInv, NEW a \in Threads, ReadPresence(a)
  PROVE  TellInv'
  <1>0. /\ job[a].pc = "tell" /\ rec' = rec /\ presence' = presence /\ told' = told
        /\ presenceHeld' = presenceHeld /\ focusHeld' = focusHeld
        /\ heard' = heard /\ standing' = standing /\ forgot' = forgot
    BY DEF ReadPresence, maps, held, everybody
  <1>1. /\ TypeTell /\ JobOK /\ GoneOK /\ OfflineOK /\ RoomOK /\ job[a] \in Jobs
    BY DEF TellInv, TypeTell
  <1>2. Phase(job[a].by, "tell")  BY <1>0, <1>1 DEF JobOK
  <1>3. job[a].pc \in Late /\ ~Moves(job[a]) /\ job[a].pc # "rooms"  BY <1>0 DEF Late, Moves
  <1>4. heard' \in Entries /\ presenceHeld' \in BOOLEAN /\ focusHeld' \in BOOLEAN
    BY <1>0, <1>1 DEF TypeTell
  <1>5. CASE presence = Offline
    <2>1. job' = [job EXCEPT ![a] = Rest]  BY <1>5 DEF ReadPresence
    <2>2. /\ job' \in [Threads -> Jobs] /\ \A b \in Threads : b # a => job'[b] = job[b]
          /\ job'[a] = Rest
      BY <1>1, <2>1, MovesToRest
    <2>3. ~Gone(job[a])  BY <1>1, <1>5 DEF GoneOK
    <2>4. RoomOK'  BY <1>0, <1>1, <1>3, <2>2, RoomKept, RestIs
    <2>5. heard' = presence  BY <1>0, <1>1, <1>5 DEF OfflineOK
    <2>. QED  BY <1>0, <1>3, <1>4, <2>2, <2>3, <2>4, <2>5, TellMoves, RestIs
  <1>6. CASE presence # Offline
    <2>. DEFINE k == [job[a] EXCEPT !.pc = "publish", !.copy = presence]
    <2>1. job' = [job EXCEPT ![a] = k]  BY <1>6 DEF ReadPresence
    <2>2. "publish" \in Pcs /\ presence \in Entries  BY <1>1 DEF Pcs, TypeTell
    <2>3. k \in Jobs  BY <1>1, <2>2 DEF Jobs
    <2>4. k.pc = "publish" /\ k.copy = presence /\ k.by = job[a].by  BY <1>1 DEF Jobs
    <2>. HIDE DEF k
    <2>5. /\ job' \in [Threads -> Jobs] /\ job'[a] = k
          /\ \A b \in Threads : b # a => job'[b] = job[b]
      BY <1>1, <2>1, <2>3, MovesTo
    <2>6. /\ Phase(k.by, k.pc) /\ (Gone(k) <=> Gone(job[a]))
          /\ (Entering(k) <=> Entering(job[a])) /\ k.pc # "rooms"
          /\ k.pc \notin {"rest", "forget"}
      BY <1>0, <1>2, <2>4 DEF Phase, Gone, Entering
    <2>7. RoomOK'  BY <1>0, <1>1, <1>3, <2>5, <2>6, RoomKept
    <2>. QED  BY <1>0, <1>3, <1>4, <1>6, <2>4, <2>5, <2>6, <2>7, TellMoves
  <1>. QED  BY <1>5, <1>6

LEMMA TellPublish ==
  ASSUME TellInv, NEW a \in Threads, Publish(a)
  PROVE  TellInv'
  <1>0. /\ job[a].pc = "publish" /\ rec' = rec /\ presence' = presence /\ told' = told
        /\ presenceHeld' = presenceHeld /\ focusHeld' = focusHeld
        /\ heard' = job[a].copy /\ standing' = standing /\ forgot' = forgot
    BY DEF Publish, maps, held
  <1>1. /\ TypeTell /\ JobOK /\ PublishOK /\ RoomOK /\ job[a] \in Jobs
    BY DEF TellInv, TypeTell
  <1>2. heard' = presence /\ presence # Offline  BY <1>0, <1>1 DEF PublishOK
  <1>3. job[a].pc \in Late /\ ~Moves(job[a]) /\ job[a].pc # "rooms"  BY <1>0 DEF Late, Moves
  <1>4. heard' \in Entries /\ presenceHeld' \in BOOLEAN /\ focusHeld' \in BOOLEAN
    BY <1>0, <1>1, <1>2 DEF TypeTell
  <1>. DEFINE k == IF job[a].by = "gone" THEN Telling("gone", "told") ELSE Rest
  <1>5. job' = [job EXCEPT ![a] = k]  BY DEF Publish
  <1>6. /\ k \in Jobs /\ Phase(k.by, k.pc) /\ (Gone(k) <=> Gone(job[a])) /\ ~Entering(k)
        /\ k.pc # "rooms" /\ k.pc # "publish"
    <2>1. CASE job[a].by = "gone"
      <3>1. "gone" \in Bys /\ "told" \in Pcs  BY DEF Bys, Pcs
      <3>2. k \in Jobs /\ k.by = "gone" /\ k.pc = "told"  BY <2>1, <3>1, TellingIs
      <3>. HIDE DEF k
      <3>. QED  BY <2>1, <3>2 DEF Phase, Gone, Entering
    <2>2. CASE job[a].by # "gone"
      <3>1. k = Rest  BY <2>2
      <3>2. ~Gone(job[a])  BY <2>2 DEF Gone
      <3>. HIDE DEF k
      <3>. QED  BY <3>1, <3>2, RestIs
    <2>. QED  BY <2>1, <2>2
  <1>. HIDE DEF k
  <1>7. /\ job' \in [Threads -> Jobs] /\ job'[a] = k
        /\ \A b \in Threads : b # a => job'[b] = job[b]
    BY <1>1, <1>5, <1>6, MovesTo
  <1>8. RoomOK'  BY <1>0, <1>1, <1>3, <1>6, <1>7, RoomKept
  <1>. QED  BY <1>0, <1>2, <1>3, <1>4, <1>6, <1>7, <1>8, TellMoves

\* Whoever has gone leaves their room first, and everybody is told.
LEMMA TellGoneLeaves ==
  ASSUME TellInv, NEW a \in Threads, GoneLeaves(a)
  PROVE  TellInv'
  <1>. DEFINE pc == IF job[a].now # NoRoom \/ told # NoRoom THEN "rooms" ELSE "told"
              k == Telling("gone", pc)
  <1>0. /\ job[a].pc = "leave" /\ FocusFree /\ rec' = rec /\ presence' = presence /\ told' = told
        /\ presenceHeld' = presenceHeld /\ focusHeld' = focusHeld
        /\ heard' = heard /\ standing' = standing /\ forgot' = forgot
        /\ job' = [job EXCEPT ![a] = k]
    BY DEF GoneLeaves, maps, held, everybody
  <1>1. /\ TypeTell /\ JobOK /\ LockOK /\ PublishOK /\ GoneOK /\ MergedOK /\ OfflineOK
        /\ HeardOK /\ RoomOK /\ StandOK /\ job[a] \in Jobs
    BY DEF TellInv, TypeTell
  <1>2. Phase(job[a].by, "leave")  BY <1>0, <1>1 DEF JobOK
  <1>3. job[a].by = "gone" /\ Gone(job[a])  BY <1>2 DEF Phase, Gone
  <1>4. presence.room = NoRoom /\ presence # Offline  BY <1>1, <1>3 DEF GoneOK
  <1>5. "gone" \in Bys /\ pc \in Pcs  BY DEF Bys, Pcs
  <1>6. k \in Jobs /\ k.by = "gone" /\ k.pc = pc /\ k.now = NoRoom  BY <1>5, TellingIs
  <1>7. pc \in {"rooms", "told"} /\ (pc = "told" => told = NoRoom)  OBVIOUS
  <1>. HIDE DEF pc, k
  <1>8. /\ job' \in [Threads -> Jobs] /\ job'[a] = k
        /\ \A b \in Threads : b # a => job'[b] = job[b]
    BY <1>0, <1>1, <1>6, MovesTo
  <1>9. \A b \in Threads : job[b].pc # "rooms"  BY <1>0, <1>1, FreeMeansNobodyEnters
  <1>10. Phase(k.by, k.pc) /\ Gone(k) /\ k.pc # "publish" /\ k.pc \notin {"rest", "forget"}
    BY <1>6, <1>7 DEF Phase, Gone
  <1>11. TypeTell'  BY <1>0, <1>1, <1>8 DEF TypeTell
  <1>12. JobOK'  BY <1>1, <1>6, <1>8, <1>10, JobKept
  <1>13. LockOK'  BY <1>0, <1>1, <1>3, <1>8, LockKept
  <1>14. PublishOK'  BY <1>0, <1>1, <1>8, <1>10, PublishKept
  <1>15. ToldOnly(a)  BY <1>0 DEF ToldOnly
  <1>16. GoneOK'
    <2>1. k.pc \in Late => told' = NoRoom  BY <1>0, <1>6, <1>7 DEF Late
    <2>2. job'[a].now = NoRoom  BY <1>6, <1>8
    <2>. QED  BY <1>0, <1>1, <1>3, <1>8, <1>9, <1>15, <2>1, <2>2, GoneKept
  <1>17. MergedOK'  BY <1>0, <1>1, <1>8, <1>10, MergedKept
  <1>18. OfflineOK'  BY <1>0, <1>1, <1>4, <1>8, <1>15, OfflineKept
  <1>19. HeardOK'  BY <1>8, <1>10 DEF HeardOK
  <1>20. RoomOK'
    <2>1. CASE pc = "rooms"  BY <1>0, <1>4, <1>6, <1>8, <2>1 DEF RoomOK, RoomPending
    <2>2. CASE pc = "told"
      <3>1. told' = presence'.room  BY <1>0, <1>4, <1>7, <2>2
      <3>2. EntersOnly(presence.room)'  BY <1>6, <1>8, <1>9, <2>2 DEF EntersOnly
      <3>. QED  BY <3>1, <3>2 DEF RoomOK
    <2>. QED  BY <1>7, <2>1, <2>2
  <1>21. StandOK'  BY <1>0, <1>1, StandKept
  <1>. QED  BY <1>11, <1>12, <1>13, <1>14, <1>16, <1>17, <1>18, <1>19, <1>20, <1>21 DEF TellInv

LEMMA TellGoneForgets ==
  ASSUME TellInv, NEW a \in Threads, GoneForgets(a)
  PROVE  TellInv'
  <1>0. /\ job[a].pc = "told" /\ rec' = rec /\ presence' = presence /\ told' = NoRoom
        /\ presenceHeld' = presenceHeld /\ focusHeld' = focusHeld
        /\ heard' = heard /\ standing' = standing /\ forgot' = forgot
        /\ job' = [job EXCEPT ![a] = [job[a] EXCEPT !.pc = "offline"]]
    BY DEF GoneForgets, held, everybody
  <1>1. TypeTell /\ JobOK /\ GoneOK /\ RoomOK  BY DEF TellInv
  <1>2. Phase(job[a].by, "told")  BY <1>0, <1>1 DEF JobOK
  <1>3. Gone(job[a]) /\ job[a].by = "gone"  BY <1>2 DEF Phase, Gone
  <1>4. job[a].pc \in Late /\ ~Moves(job[a]) /\ job[a].pc # "rooms"  BY <1>0 DEF Late, Moves
  <1>5. told' = told  BY <1>0, <1>1, <1>3, <1>4 DEF GoneOK
  <1>6. heard' \in Entries /\ presenceHeld' \in BOOLEAN /\ focusHeld' \in BOOLEAN
    BY <1>0, <1>1 DEF TypeTell
  <1>7. "offline" \in Pcs  BY DEF Pcs
  <1>8. /\ job' \in [Threads -> Jobs] /\ \A b \in Threads : b # a => job'[b] = job[b]
        /\ job'[a].pc = "offline" /\ job'[a].by = job[a].by
    BY <1>0, <1>1, <1>7, MovesPc
  <1>9. /\ Phase(job'[a].by, job'[a].pc) /\ Gone(job'[a]) /\ ~Entering(job'[a])
        /\ job'[a].pc # "rooms" /\ job'[a].pc # "publish" /\ job'[a].pc \notin {"rest", "forget"}
    BY <1>3, <1>8 DEF Phase, Gone, Entering
  <1>10. RoomOK'  BY <1>0, <1>1, <1>4, <1>5, <1>8, <1>9, RoomKept
  <1>. QED  BY <1>0, <1>3, <1>4, <1>5, <1>6, <1>8, <1>9, <1>10, TellMoves

\* ... and are offline.
LEMMA TellGoneOffline ==
  ASSUME RecInv, TellInv, NEW a \in Threads, GoneOffline(a)
  PROVE  TellInv'
  <1>0. /\ job[a].pc = "offline" /\ PresenceFree /\ rec' = rec /\ presence' = Offline
        /\ heard' = Offline /\ told' = told
        /\ presenceHeld' = presenceHeld /\ focusHeld' = focusHeld
        /\ standing' = standing /\ forgot' = forgot
        /\ job' = [job EXCEPT ![a] = Rest]
    BY DEF GoneOffline, held
  <1>1. /\ TypeTell /\ JobOK /\ LockOK /\ PublishOK /\ GoneOK /\ HeardOK /\ RoomOK /\ StandOK
    BY DEF TellInv
  <1>2. Phase(job[a].by, "offline")  BY <1>0, <1>1 DEF JobOK
  <1>3. Gone(job[a])  BY <1>2 DEF Phase, Gone
  <1>4. job[a].pc \in Late /\ ~Moves(job[a]) /\ job[a].pc # "rooms"  BY <1>0 DEF Late, Moves
  <1>5. /\ \A s \in Sessions : rec[s] = NoRecord
        /\ presence.room = NoRoom /\ told = NoRoom /\ EntersOnly(NoRoom)
    BY <1>1, <1>3, <1>4 DEF GoneOK
  <1>6. /\ job' \in [Threads -> Jobs] /\ \A b \in Threads : b # a => job'[b] = job[b]
        /\ job'[a] = Rest
    BY <1>0, <1>1, MovesToRest
  <1>7. Offline \in Entries /\ Offline.room = NoRoom  BY DEF Offline, Entries
  <1>8. TypeTell'  BY <1>0, <1>1, <1>6, <1>7 DEF TypeTell
  <1>9. JobOK'  BY <1>1, <1>6, JobKept, RestIs
  <1>10. LockOK'  BY <1>1, <1>6, LockKept, RestIs
  <1>11. PublishOK'  BY <1>0, <1>1, <1>6, PublishKept, RestIs
  <1>12. GoneOK'
    <2>1. \A b \in Threads : ~Gone(job'[b])  BY <1>1, <1>3, <1>6, RestIs DEF LockOK
    <2>. QED  BY <2>1 DEF GoneOK, Gone
  <1>13. MergedOK'
    <2>1. Merge(rec) = Offline
      <3>1. Here(rec) = {}  BY <1>5 DEF Here
      <3>. QED  BY <3>1, MergeIs
    <2>. QED  BY <1>0, <2>1 DEF MergedOK
  <1>14. EntersOnly(NoRoom)'  BY <1>5, <1>6, RestIs DEF EntersOnly
  <1>15. OfflineOK'  BY <1>0, <1>5, <1>14 DEF OfflineOK
  <1>16. HeardOK'  BY <1>0 DEF HeardOK
  <1>17. RoomOK'
    <2>1. presence'.room = NoRoom /\ told' = NoRoom  BY <1>0, <1>5, <1>7
    <2>2. EntersOnly(presence.room)'  BY <1>14, <2>1 DEF EntersOnly
    <2>. QED  BY <2>1, <2>2 DEF RoomOK
  <1>18. StandOK'  BY <1>0, <1>1, StandKept
  <1>. QED  BY <1>8, <1>9, <1>10, <1>11, <1>12, <1>13, <1>15, <1>16, <1>17, <1>18 DEF TellInv

-----------------------------------------------------------------------------
(* Both halves, in every state *)

LEMMA TellInit == Init => TellInv
  <1>. SUFFICES ASSUME Init PROVE TellInv  OBVIOUS
  <1>1. /\ rec = [s \in Sessions |-> NoRecord] /\ presence = Offline /\ told = NoRoom
        /\ presenceHeld = FALSE /\ focusHeld = FALSE
        /\ job = [a \in Threads |-> Rest] /\ heard = Offline /\ standing = {}
    BY DEF Init
  <1>2. \A a \in Threads : job[a] = Rest  BY <1>1
  <1>3. Offline \in Entries /\ Offline.room = NoRoom  BY DEF Offline, Entries
  <1>4. TypeTell  BY <1>1, <1>3, RestIs DEF TypeTell, Places
  <1>5. JobOK /\ LockOK  BY <1>2, RestIs DEF JobOK, LockOK
  <1>6. PublishOK /\ GoneOK  BY <1>2, RestIs DEF PublishOK, GoneOK
  <1>7. Merge(rec) = Offline
    <2>1. Here(rec) = {}  BY <1>1 DEF Here
    <2>. QED  BY <2>1, MergeIs
  <1>8. \A r : EntersOnly(r)  BY <1>2, RestIs DEF EntersOnly
  <1>9. MergedOK /\ OfflineOK  BY <1>1, <1>7, <1>8 DEF MergedOK, OfflineOK
  <1>10. HeardOK /\ RoomOK /\ StandOK
    BY <1>1, <1>3, <1>8 DEF HeardOK, RoomOK, StandOK
  <1>. QED  BY <1>4, <1>5, <1>6, <1>9, <1>10 DEF TellInv

LEMMA TellStep == RecInv /\ RecInv' /\ TellInv /\ [Next]_vars => TellInv'
  <1>. SUFFICES ASSUME RecInv, RecInv', TellInv, [Next]_vars PROVE TellInv'  OBVIOUS
  <1>1. CASE UNCHANGED vars  BY <1>1, TellSame DEF vars
  <1>2. CASE Next
    <2>1. ASSUME NEW a \in Threads, Tells(a)
          PROVE  TellInv'
      BY <2>1, TellHeldAlready, TellLimit, TellTellFocus, TellForget, TellTellRooms,
         TellReadPresence, TellPublish, TellGoneLeaves, TellGoneForgets, TellGoneOffline DEF Tells
    <2>2. CASE PresenceTurnComes \/ FocusTurnComes  BY <2>2, TellTurn
    <2>3. CASE BackEverywhere  BY <2>3, TellBack
    <2>4. TypeRec  BY DEF RecInv
    <2>. QED  BY <1>2, <2>1, <2>2, <2>3, <2>4, StepIs, TellRecordStep
  <1>. QED  BY <1>1, <1>2

LEMMA TellHolds == Spec => [](RecInv /\ TellInv)
  BY RecInit, RecStep, TellInit, TellStep, PTL DEF Spec

\* The shape of the maps and the threads (gateway/mod.rs).
THEOREM PresenceTypes == Spec => []TypeOK
  <1>1. RecInv /\ TellInv => TypeOK
    BY DEF RecInv, TypeRec, TellInv, TypeTell, TypeOK, Places
  <1>. QED  BY <1>1, TellHolds, PTL

\* Once everything has been told, everybody's last word on a person is what their
\* sessions say, however the tellers, the turns and the limits came between each other
\* (publish_presence, publish_focus, tell_presence, session_gone).
THEOREM LastWordIsRight == Spec => []HeardIsRight
  <1>1. TellInv => HeardIsRight
    <2>. SUFFICES ASSUME TellInv, Quiet PROVE heard = Merge(rec)  BY DEF HeardIsRight
    <2>1. RecordsFree /\ \A a \in Threads : job[a].pc = "rest"
      BY RestIs DEF Quiet, RecordsFree
    <2>2. heard = presence  BY <2>1 DEF TellInv, HeardOK, Quiet
    <2>3. presence = Merge(rec)  BY <2>1 DEF TellInv, MergedOK
    <2>. QED  BY <2>2, <2>3
  <1>. QED  BY <1>1, TellHolds, PTL

\* Nobody who left is made to look online again by a teller that was under way
\* (session_gone, publish_presence).
THEOREM OfflineIsLast == Spec => []OfflineStays
  <1>1. TellInv => OfflineStays  BY DEF TellInv, OfflineOK, OfflineStays
  <1>. QED  BY <1>1, TellHolds, PTL

\* Once everything has been told, everybody has seen the person leave every room but the
\* one they are in, and enter that one (tell_focus, session_gone).
THEOREM RoomsAreAsTold == Spec => []RoomsAreRight
  <1>1. TellInv => RoomsAreRight
    <2>. SUFFICES ASSUME TellInv, Quiet, ~forgot
                  PROVE  told = presence.room /\ standing = {presence.room} \ (DMs \union {NoRoom})
      BY DEF RoomsAreRight
    <2>1. \A a \in Threads : ~Moves(job[a]) /\ job[a].pc # "rooms"  BY RestIs DEF Quiet
    <2>2. told = presence.room  BY <2>1 DEF TellInv, RoomOK, RoomPending, Quiet
    <2>3. standing = {told} \ (DMs \union {NoRoom})  BY DEF TellInv, StandOK
    <2>. QED  BY <2>2, <2>3
  <1>. QED  BY <1>1, TellHolds, PTL

=============================================================================
