------------------------ MODULE RoomHistory_proofs ------------------------
(***************************************************************************)
(* What is proved of RoomHistory for any number of messages, sends, tries, *)
(* openings and page sizes: the types, with it that a room loads exactly   *)
(* while one request for this opening of it is out; that stand-ins end;    *)
(* that a send is one message; and that the stretch a room holds has no    *)
(* gap it does not show (NoInvisibleGap).  The server's half of the        *)
(* invariant (ServerOK) needs nothing of the page's.                       *)
(***************************************************************************)
EXTENDS RoomHistory, FiniteSetTheorems, SequenceTheorems, WellFoundedInduction, TLAPS

(* The types, in groups that the same actions write. *)
TypeServer ==
  /\ minted \in 0..MaxMsgs
  /\ by \in [Ids -> Sends \cup {Other}]
  /\ posting \subseteq [id : 1..minted, try : 0..MaxTries]
  /\ saved \subseteq 1..minted
  /\ keyed \in [Sends -> 0..minted]
  /\ edited \subseteq saved
  /\ untold \subseteq Change
  /\ feed \in Seq(Frame)
  /\ late \subseteq saved

TypeSends ==
  /\ sends \in [Sends -> [st : {"unsent", "waiting", "failed", "sent"}, try : 0..MaxTries]]
  /\ wire \subseteq Sends \X (1..MaxTries)
  /\ answers \subseteq [send : Sends \cup {Other}, id : Ids, new : BOOLEAN]

TypePage ==
  /\ newest \in 0..minted
  /\ room \in Stream
  /\ openings \in Nat
  /\ asks \subseteq Ask

(* A post has an id of its own, and what a send was saved as is what its key says. *)
KeyOK ==
  /\ \A p, q \in posting : p.id = q.id => p = q
  /\ \A p \in posting : p.id \notin saved
  /\ \A m \in saved : by[m] # Other => keyed[by[m]] = m

(* Only what is committed is told. *)
ToldOK ==
  /\ \A c \in untold : c.id \in saved
  /\ \A i \in DOMAIN feed : feed[i].id \in saved

ServerOK == TypeServer /\ KeyOK /\ ToldOK

(* A request knows an opening there was; a room that is open has the number of one. *)
OpenOK ==
  /\ \A a \in asks : a.opened \in 1..openings
  /\ room = NoRoom \/ room.opened \in 1..openings

(* A room loads while one request is for this opening of it. *)
AskOK ==
  room # NoRoom =>
    IF room.loading THEN \E a \in asks : {b \in asks : StillOpen(b)} = {a}
    ELSE {b \in asks : StillOpen(b)} = {}

PageOK == TypePage /\ OpenOK /\ AskOK

HInv == ServerOK /\ TypeSends /\ PageOK /\ StandInsEnd

-----------------------------------------------------------------------------
(* Least and greatest members *)

\* A set of naturals has a least member.
LEMMA LeastExists ==
  ASSUME NEW T \in SUBSET Nat, T # {}
  PROVE  \E x \in T : \A y \in T : x <= y
  <1>1. IsWellFoundedOn(OpToRel(<,Nat), Nat)  BY NatLessThanWellFounded
  <1>2. PICK x \in T : \A y \in T : ~ (<<y, x>> \in OpToRel(<,Nat))  BY <1>1, WFMin
  <1>3. \A y \in T : ~ (y < x)  BY <1>2 DEF OpToRel
  <1>. QED  BY <1>3

\* Min of a set of ids is one of them.
LEMMA MinIn ==
  ASSUME NEW T \in SUBSET Nat, T # {}
  PROVE  Min(T) \in T /\ \A y \in T : Min(T) <= y
  BY LeastExists DEF Min

\* Max of a bounded set of naturals is one of them.
LEMMA MaxIn ==
  ASSUME NEW T \in SUBSET Nat, T # {}, NEW b \in Nat, \A x \in T : x <= b
  PROVE  Max(T) \in T /\ \A y \in T : Max(T) >= y
  <1>. DEFINE U == {n \in Nat : \A x \in T : x <= n}
  <1>1. PICK n \in U : \A y \in U : n <= y  BY LeastExists
  <1>2. n \in T
    <2>. SUFFICES ASSUME n \notin T PROVE FALSE  OBVIOUS
    <2>1. \A x \in T : x < n  BY <1>1
    <2>2. n # 0
      <3>1. PICK x \in T : TRUE  OBVIOUS
      <3>2. x \in Nat /\ x < n  BY <2>1
      <3>. QED  BY <3>2
    <2>3. n - 1 \in Nat  BY <2>2
    <2>4. \A x \in T : x <= n - 1  BY <2>1, <1>1
    <2>5. n <= n - 1  BY <2>3, <2>4, <1>1
    <2>. QED  BY <2>5
  <1>3. \E x \in T : \A y \in T : x >= y  BY <1>1, <1>2
  <1>. QED  BY <1>3 DEF Max

\* The oldest message of a stretch, or none.
LEMMA OldestIn ==
  ASSUME NEW T \in SUBSET Ids
  PROVE  Oldest(T) \in 0..MaxMsgs
  <1>1. MaxMsgs \in Nat  BY SizesAssumption
  <1>2. T \in SUBSET Nat  BY <1>1 DEF Ids
  <1>3. T # {} => Min(T) \in T  BY <1>2, MinIn
  <1>4. CASE T = {}  BY <1>1, <1>4 DEF Oldest
  <1>5. CASE T # {}
    <2>1. Min(T) \in Ids  BY <1>3, <1>5
    <2>2. Min(T) \in 0..MaxMsgs  BY <2>1, <1>1 DEF Ids
    <2>3. Oldest(T) = Min(T)  BY <1>5 DEF Oldest
    <2>. QED  BY <2>2, <2>3
  <1>. QED  BY <1>4, <1>5

\* The newest message of a stretch that has one.
LEMMA NewestIn ==
  ASSUME NEW n \in Nat, NEW T \in SUBSET (0..n), T # {}
  PROVE  Max(T) \in T
  BY MaxIn

-----------------------------------------------------------------------------
(* The server *)

LEMMA ServerInit == Init => ServerOK
  <1>. SUFFICES ASSUME Init PROVE ServerOK  OBVIOUS
  <1>. USE SizesAssumption DEF Init
  <1>1. TypeServer  BY DEF TypeServer
  <1>2. KeyOK /\ ToldOK  BY DEF KeyOK, ToldOK
  <1>. QED  BY <1>1, <1>2 DEF ServerOK

\* A post begins: its id is new.
LEMMA MintKeeps ==
  ASSUME ServerOK, NEW who \in Sends \cup {Other}, NEW n \in 0..MaxTries, Mint(who, n),
         UNCHANGED <<saved, keyed, edited, untold, feed, late>>
  PROVE  ServerOK'
  <1>. USE SizesAssumption DEF ServerOK, Mint
  <1>1. minted + 1 \in Ids /\ minted \in Nat /\ minted' = minted + 1
    BY DEF TypeServer, Ids
  <1>2. TypeServer'
    <2>1. minted' \in 0..MaxMsgs  BY <1>1 DEF Ids
    <2>2. by' \in [Ids -> Sends \cup {Other}]  BY <1>1 DEF TypeServer
    <2>3. posting' \subseteq [id : 1..minted', try : 0..MaxTries]
      BY <1>1 DEF TypeServer
    <2>4. saved' \subseteq 1..minted' /\ keyed' \in [Sends -> 0..minted']  BY <1>1 DEF TypeServer
    <2>. QED  BY <2>1, <2>2, <2>3, <2>4 DEF TypeServer
  <1>3. \A p \in posting : p.id < minted + 1  BY <1>1 DEF TypeServer
  <1>4. minted + 1 \notin saved  BY <1>1 DEF TypeServer
  <1>5. KeyOK'
    <2>1. \A p, q \in posting' : p.id = q.id => p = q  BY <1>3, <1>1 DEF KeyOK
    <2>2. \A p \in posting' : p.id \notin saved'  BY <1>4 DEF KeyOK
    <2>3. \A m \in saved : by'[m] = by[m]  BY <1>4, <1>1 DEF TypeServer, Ids
    <2>. QED  BY <2>1, <2>2, <2>3 DEF KeyOK
  <1>6. ToldOK'  BY DEF ToldOK
  <1>. QED  BY <1>2, <1>5, <1>6

\* A post is committed: its message is the send's one.
LEMMA CommitKeeps ==
  ASSUME ServerOK, NEW p \in posting, Commit(p)
  PROVE  ServerOK'
  <1>. USE SizesAssumption DEF ServerOK
  <1>0. p.id \in 1..minted /\ p.try \in 0..MaxTries /\ p.id \in Ids /\ by[p.id] \in Sends \cup {Other}
    BY DEF TypeServer, Ids
  <1>1. CASE AlreadyPosted(p)
    <2>1. TypeServer'  BY <1>1 DEF Commit, TypeServer
    <2>2. KeyOK'  BY <1>1 DEF Commit, KeyOK
    <2>3. ToldOK'  BY <1>1 DEF Commit, ToldOK
    <2>. QED  BY <2>1, <2>2, <2>3
  <1>2. CASE ~AlreadyPosted(p)
    <2>0. /\ posting' = posting \ {p}
          /\ saved' = saved \cup {p.id}
          /\ keyed' = IF by[p.id] = Other THEN keyed ELSE [keyed EXCEPT ![by[p.id]] = p.id]
          /\ untold' = untold \cup {[op |-> "create", id |-> p.id, try |-> p.try]}
          /\ late' \subseteq late \cup saved \cup {p.id}
          /\ UNCHANGED <<minted, by, edited, feed>>
      BY <1>2 DEF Commit
    <2>1. TypeServer'
      <3>1. posting' \subseteq [id : 1..minted', try : 0..MaxTries]  BY <2>0 DEF TypeServer
      <3>2. saved' \subseteq 1..minted' /\ edited' \subseteq saved'  BY <2>0, <1>0 DEF TypeServer
      <3>3. keyed' \in [Sends -> 0..minted']  BY <2>0, <1>0 DEF TypeServer
      <3>4. untold' \subseteq Change  BY <2>0, <1>0 DEF TypeServer, Change
      <3>5. late' \subseteq saved'  BY <2>0 DEF TypeServer
      <3>. QED  BY <2>0, <3>1, <3>2, <3>3, <3>4, <3>5 DEF TypeServer
    <2>2. KeyOK'
      <3>1. \A a, b \in posting' : a.id = b.id => a = b  BY <2>0 DEF KeyOK
      <3>2. \A a \in posting' : a.id \notin saved'  BY <2>0 DEF KeyOK
      <3>3. ASSUME NEW m \in saved', by'[m] # Other PROVE keyed'[by'[m]] = m
        <4>1. CASE m = p.id  BY <4>1, <3>3, <2>0, <1>0 DEF TypeServer
        <4>2. CASE m # p.id
          <5>1. m \in saved /\ m \in Ids /\ by[m] \in Sends /\ keyed[by[m]] = m
            BY <4>2, <3>3, <2>0 DEF KeyOK, TypeServer, Ids
          <5>2. m \in 1..minted  BY <5>1 DEF TypeServer
          <5>3. keyed[by[m]] # 0  BY <5>1, <5>2 DEF TypeServer
          <5>4. by[p.id] = Other \/ by[p.id] # by[m]  BY <1>2, <5>3 DEF AlreadyPosted
          <5>. QED  BY <5>1, <5>4, <2>0, <1>0 DEF TypeServer
        <4>. QED  BY <4>1, <4>2
      <3>. QED  BY <3>1, <3>2, <3>3 DEF KeyOK
    <2>3. ToldOK'  BY <2>0 DEF ToldOK
    <2>. QED  BY <2>1, <2>2, <2>3
  <1>. QED  BY <1>1, <1>2

\* A frame goes out.
LEMMA PublishKeeps ==
  ASSUME ServerOK, NEW c \in untold, Publish(c)
  PROVE  ServerOK'
  <1>. USE SizesAssumption DEF ServerOK
  <1>. DEFINE f == [op |-> IF c.op = "create" THEN "create" ELSE "update", id |-> c.id, new |-> c.id \in edited]
  <1>0. /\ untold' = untold \ {c} /\ feed' = Append(feed, f)
        /\ late' \subseteq late \cup saved \cup {c.id}
        /\ UNCHANGED <<minted, by, posting, saved, keyed, edited>>
    BY DEF Publish
  <1>1. c \in Change /\ c.id \in saved  BY DEF TypeServer, ToldOK
  <1>2. f \in Frame /\ f.id = c.id  BY <1>1 DEF Change, Frame
  <1>. HIDE DEF f
  <1>3. feed \in Seq(Frame)  BY DEF TypeServer
  <1>4. feed' \in Seq(Frame)  BY <1>0, <1>2, <1>3
  <1>5. late' \subseteq saved'  BY <1>0, <1>1 DEF TypeServer
  <1>6. TypeServer'  BY <1>0, <1>4, <1>5 DEF TypeServer
  <1>7. KeyOK'  BY <1>0 DEF KeyOK
  <1>8. \A i \in DOMAIN feed' : feed'[i].id \in saved'
    <2>1. Len(feed) \in Nat  BY <1>3
    <2>2. DOMAIN feed' = 1..Len(feed) + 1 /\ DOMAIN feed = 1..Len(feed)  BY <1>0, <1>3, <1>4, <2>1
    <2>3. \A i \in DOMAIN feed' : feed'[i] = IF i = Len(feed) + 1 THEN f ELSE feed[i]
      BY <1>0, <1>2, <1>3, <2>1, <2>2
    <2>. QED  BY <2>1, <2>2, <2>3, <1>0, <1>1, <1>2 DEF ToldOK
  <1>9. ToldOK'  BY <1>8, <1>0 DEF ToldOK
  <1>. QED  BY <1>6, <1>7, <1>9

\* The page reads a frame, or a fresh `ready` drops what there is.
LEMMA FeedRead ==
  ASSUME ServerOK, UNCHANGED serverOnly, feed' = <<>> \/ (feed # <<>> /\ feed' = Tail(feed))
  PROVE  ServerOK'
  <1>. USE DEF ServerOK, serverOnly
  <1>1. feed \in Seq(Frame)  BY DEF TypeServer
  <1>2. feed' \in Seq(Frame)
    <2>1. feed' = <<>> => feed' \in Seq(Frame)  OBVIOUS
    <2>2. feed # <<>> => Tail(feed) \in Seq(Frame)  BY <1>1
    <2>. QED  BY <2>1, <2>2
  <1>3. TypeServer'  BY <1>2 DEF TypeServer
  <1>4. KeyOK'  BY DEF KeyOK
  <1>5. \A i \in DOMAIN feed' : feed'[i].id \in saved'
    <2>1. CASE feed' = <<>>  BY <2>1
    <2>2. CASE feed # <<>> /\ feed' = Tail(feed)
      <3>1. Len(feed) \in Nat /\ DOMAIN feed = 1..Len(feed)  BY <1>1
      <3>2. \A i \in DOMAIN feed' : i + 1 \in DOMAIN feed /\ feed'[i] = feed[i + 1]
        BY <2>2, <1>1, <3>1
      <3>. QED  BY <3>2 DEF ToldOK
    <2>. QED  BY <2>1, <2>2
  <1>6. ToldOK'  BY <1>5 DEF ToldOK
  <1>. QED  BY <1>3, <1>4, <1>6

\* The server's half of the invariant stands in every step.
LEMMA ServerStep == ServerOK /\ [Next]_vars => ServerOK'
  <1>. SUFFICES ASSUME ServerOK, [Next]_vars PROVE ServerOK'  OBVIOUS
  <1>0. SUFFICES ASSUME ~UNCHANGED server PROVE ServerOK'
    BY DEF ServerOK, TypeServer, KeyOK, ToldOK, server, serverOnly
  <1>. USE SizesAssumption
  <1>1. CASE OtherPosts
    <2>1. Mint(Other, 0) /\ UNCHANGED <<saved, keyed, edited, untold, feed, late>>
      BY <1>1 DEF OtherPosts
    <2>. QED  BY <2>1, MintKeeps
  <1>2. ASSUME NEW s \in Sends, NEW n \in 1..MaxTries, TryArrives(s, n) PROVE ServerOK'
    <2>1. Mint(s, n) /\ UNCHANGED <<saved, keyed, edited, untold, feed, late>>
      BY <1>2, <1>0 DEF TryArrives, server, serverOnly
    <2>. QED  BY <2>1, MintKeeps
  <1>3. ASSUME NEW p \in posting, Commit(p) PROVE ServerOK'
    BY <1>3, CommitKeeps
  <1>4. ASSUME NEW m \in Ids, NEW op \in {"update", "edit"}, Edit(m, op) PROVE ServerOK'
    <2>1. /\ m \in saved /\ edited' = edited \cup {m}
          /\ untold' = untold \cup {[op |-> op, id |-> m, try |-> 0]}
          /\ UNCHANGED <<minted, by, posting, saved, keyed, feed, late>>
      BY <1>4 DEF Edit
    <2>2. [op |-> op, id |-> m, try |-> 0] \in Change  BY <1>4 DEF Change
    <2>3. TypeServer'  BY <2>1, <2>2 DEF ServerOK, TypeServer
    <2>4. KeyOK' /\ ToldOK'  BY <2>1 DEF ServerOK, KeyOK, ToldOK
    <2>. QED  BY <2>3, <2>4 DEF ServerOK
  <1>5. ASSUME NEW c \in untold, Publish(c) PROVE ServerOK'
    BY <1>5, PublishKeeps
  <1>6. CASE Hear \/ Ready
    BY <1>6, FeedRead DEF Hear, Ready
  <1>7. ASSUME \/ \E a \in answers : AnswerArrives(a) \/ EditAnswered(a)
               \/ \E first, last \in Ids : TrimHistory(first, last)
        PROVE  ServerOK'
    <2>1. late' \subseteq late \cup saved /\ UNCHANGED <<minted, by, posting, saved, keyed, edited, untold, feed>>
      BY <1>7 DEF AnswerArrives, EditAnswered, TrimHistory
    <2>2. TypeServer'  BY <2>1 DEF ServerOK, TypeServer
    <2>3. KeyOK' /\ ToldOK'  BY <2>1 DEF ServerOK, KeyOK, ToldOK
    <2>. QED  BY <2>2, <2>3 DEF ServerOK
  <1>8. \A a \in asks : ~ReadPage(a)  BY <1>0 DEF ReadPage
  <1>9. ~Person \/ \E first, last \in Ids : TrimHistory(first, last)
    BY <1>0 DEF Person, OpenRoom, LeaveWindow, LoadOlder, LoadNewer, ReleaseRoom, OpenAround,
                SendMessage, server, serverOnly
  <1>10. \A a \in asks : ~Settle(a)
    BY <1>0 DEF Settle, PageArrives, PageFails, WaitEnds, WindowArrives, WindowFails
  <1>11. \A s \in Sends : ~SendFails(s)  BY <1>0 DEF SendFails
  <1>12. Next  BY <1>0 DEF vars
  <1>. QED
    BY <1>1, <1>2, <1>3, <1>4, <1>5, <1>6, <1>7, <1>8, <1>9, <1>10, <1>11, <1>12
    DEF Next, Server, Network

-----------------------------------------------------------------------------
(* The sends *)

\* An answer to a post names a message.
LEMMA AnswerKeeps ==
  ASSUME TypeSends, NEW s \in Sends \cup {Other}, NEW n \in 0..MaxTries, NEW id \in Ids,
         AnswerTo(s, n, id) \/ answers' = answers \cup {Answer(s, id)}
  PROVE  answers' \subseteq [send : Sends \cup {Other}, id : Ids, new : BOOLEAN]
  <1>1. Answer(s, id) \in [send : Sends \cup {Other}, id : Ids, new : BOOLEAN]  BY DEF Answer
  <1>. QED  BY <1>1 DEF TypeSends, AnswerTo

LEMMA SendsStep == ServerOK /\ TypeSends /\ [Next]_vars => TypeSends'
  <1>. SUFFICES ASSUME ServerOK, TypeSends, [Next]_vars PROVE TypeSends'  OBVIOUS
  <1>0. SUFFICES ASSUME ~UNCHANGED sending PROVE TypeSends'
    BY DEF TypeSends, sending
  <1>. USE SizesAssumption
  <1>. DEFINE Answers == [send : Sends \cup {Other}, id : Ids, new : BOOLEAN]
  <1>a. minted \in 0..MaxMsgs /\ \A m \in 1..minted : m \in Ids
    BY DEF ServerOK, TypeServer, Ids
  <1>b. \A s \in Sends : keyed[s] # 0 => keyed[s] \in Ids
    BY <1>a DEF ServerOK, TypeServer
  <1>1. ASSUME NEW s \in Sends, NEW n \in 1..MaxTries, TryArrives(s, n) PROVE TypeSends'
    <2>1. wire' = wire \ {<<s, n>>} /\ sends' = sends  BY <1>1 DEF TryArrives
    <2>2. answers' \subseteq Answers
      <3>1. CASE keyed[s] # 0
        <4>1. AnswerTo(s, n, keyed[s]) /\ keyed[s] \in Ids  BY <1>1, <1>b, <3>1 DEF TryArrives
        <4>. QED  BY <4>1, AnswerKeeps
      <3>2. CASE keyed[s] = 0  BY <1>1, <3>2 DEF TryArrives, TypeSends
      <3>. QED  BY <3>1, <3>2
    <2>. QED  BY <2>1, <2>2 DEF TypeSends
  <1>2. ASSUME NEW p \in posting, Commit(p) PROVE TypeSends'
    <2>0. p.id \in Ids /\ p.try \in 0..MaxTries /\ by[p.id] \in Sends \cup {Other}
      BY <1>a DEF ServerOK, TypeServer
    <2>1. wire' = wire /\ sends' = sends  BY <1>2 DEF Commit
    <2>2. answers' \subseteq Answers
      <3>1. CASE AlreadyPosted(p)
        <4>1. AnswerTo(by[p.id], p.try, keyed[by[p.id]]) /\ by[p.id] \in Sends /\ keyed[by[p.id]] \in Ids
          BY <1>2, <1>b, <2>0, <3>1 DEF Commit, AlreadyPosted
        <4>. QED  BY <4>1, <2>0, AnswerKeeps
      <3>2. CASE ~AlreadyPosted(p)  BY <1>2, <3>2 DEF Commit, TypeSends
      <3>. QED  BY <3>1, <3>2
    <2>. QED  BY <2>1, <2>2 DEF TypeSends
  <1>3. ASSUME NEW c \in untold, Publish(c) PROVE TypeSends'
    <2>0. c.id \in Ids /\ c.try \in 0..MaxTries /\ by[c.id] \in Sends \cup {Other}
      BY DEF ServerOK, TypeServer, Change
    <2>1. wire' = wire /\ sends' = sends  BY <1>3 DEF Publish
    <2>2. answers' \subseteq Answers
      <3>1. CASE c.op = "create" /\ by[c.id] # Other
        <4>1. AnswerTo(by[c.id], c.try, c.id) /\ by[c.id] \in Sends  BY <1>3, <2>0, <3>1 DEF Publish
        <4>. QED  BY <4>1, <2>0, AnswerKeeps
      <3>2. CASE ~(c.op = "create" /\ by[c.id] # Other) /\ c.op = "edit"
        <4>1. answers' = answers \cup {Answer(Other, c.id)} /\ Other \in Sends \cup {Other}
          BY <1>3, <3>2 DEF Publish
        <4>. QED  BY <4>1, <2>0, AnswerKeeps
      <3>3. CASE ~(c.op = "create" /\ by[c.id] # Other) /\ c.op # "edit"
        BY <1>3, <3>3 DEF Publish, TypeSends
      <3>. QED  BY <3>1, <3>2, <3>3
    <2>. QED  BY <2>1, <2>2 DEF TypeSends
  <1>4. ASSUME NEW s \in Sends, SendMessage(s) PROVE TypeSends'
    <2>1. sends[s].try \in 0..MaxTries /\ sends[s].try < MaxTries  BY <1>4 DEF SendMessage, TypeSends
    <2>2. sends[s].try + 1 \in 1..MaxTries  BY <2>1
    <2>3. sends' = [sends EXCEPT ![s] = [st |-> "waiting", try |-> sends[s].try + 1]]
      BY <1>4 DEF SendMessage
    <2>4. wire' = wire \cup {<<s, sends[s].try + 1>>} /\ answers' = answers
      BY <1>4 DEF SendMessage
    <2>. QED  BY <2>2, <2>3, <2>4 DEF TypeSends
  <1>5. ASSUME NEW s \in Sends, SendFails(s) PROVE TypeSends'
    <2>1. wire' \subseteq wire /\ answers' \subseteq answers /\ sends' = [sends EXCEPT ![s].st = "failed"]
      BY <1>5 DEF SendFails
    <2>. QED  BY <2>1 DEF TypeSends
  <1>6. ASSUME NEW a \in answers, AnswerArrives(a) PROVE TypeSends'
    <2>1. wire' = wire /\ answers' \subseteq answers /\ sends' = [sends EXCEPT ![a.send].st = "sent"]
      BY <1>6 DEF AnswerArrives
    <2>. QED  BY <2>1 DEF TypeSends
  <1>6a. ASSUME NEW a \in answers, EditAnswered(a) PROVE TypeSends'
    BY <1>6a DEF EditAnswered, TypeSends
  <1>7. ~OtherPosts /\ (\A m \in Ids, op \in {"update", "edit"} : ~Edit(m, op)) /\ \A a \in asks : ~ReadPage(a)
    BY <1>0 DEF OtherPosts, Edit, ReadPage
  <1>8. \/ \E s \in Sends : SendMessage(s)
        \/ ~Person
    BY <1>0 DEF Person, OpenRoom, LeaveWindow, LoadOlder, LoadNewer, ReleaseRoom, OpenAround, TrimHistory
  <1>9. ~Hear /\ ~Ready /\ \A a \in asks : ~Settle(a)
    BY <1>0 DEF Hear, Ready, Settle, PageArrives, PageFails, WaitEnds, WindowArrives, WindowFails
  <1>10. Next  BY <1>0 DEF vars
  <1>. QED
    BY <1>1, <1>2, <1>3, <1>4, <1>5, <1>6, <1>6a, <1>7, <1>8, <1>9, <1>10
    DEF Next, Server, Network

-----------------------------------------------------------------------------
(* The page: what its steps do to a room, and to the requests for it *)

\* NoRoom is of no opening.
LEMMA NoRoomIs == NoRoom \in Stream /\ NoRoom.opened = 0 /\ NoRoom.loading = FALSE /\ NoRoom.pending = <<>>
  <1>1. <<>> \in Seq(Sends)  OBVIOUS
  <1>. QED  BY <1>1 DEF NoRoom, Stream

\* A message merged into a room.
LEMMA MergeKeeps ==
  ASSUME NEW r \in Stream, NEW m \in Ids, NEW new \in BOOLEAN
  PROVE  LET q == Merge(r, m, new)
         IN q \in Stream /\ q.opened = r.opened /\ q.loading = r.loading /\ q.pending = r.pending
  BY DEF Merge, Stream

\* A frame folded into a room.
LEMMA FoldKeeps ==
  ASSUME NEW r \in Stream, NEW f \in Frame
  PROVE  LET q == Fold(r, f)
         IN /\ q \in Stream /\ q.opened = r.opened /\ q.loading = r.loading
            /\ q.pending = r.pending \/ (r.pending # <<>> /\ q.pending = Tail(r.pending))
  <1>. DEFINE q == IF f.id \in r.held \/ (f.op = "create" /\ r.atEnd) THEN Merge(r, f.id, f.new) ELSE r
  <1>1. f.id \in Ids /\ f.new \in BOOLEAN  BY DEF Frame
  <1>2. q \in Stream /\ q.opened = r.opened /\ q.loading = r.loading /\ q.pending = r.pending
    BY <1>1, MergeKeeps
  <1>3. Fold(r, f) = IF f.op = "create" /\ by[f.id] # Other /\ q.pending # <<>>
                     THEN [q EXCEPT !.pending = Tail(q.pending)] ELSE q
    BY DEF Fold
  <1>. HIDE DEF q
  <1>4. r.pending \in Seq(Sends)  BY DEF Stream
  <1>5. q.pending # <<>> => Tail(q.pending) \in Seq(Sends)  BY <1>2, <1>4
  <1>. QED  BY <1>2, <1>3, <1>5 DEF Stream

\* The page's page put into a room.
LEMMA MergePageKeeps ==
  ASSUME NEW r \in Stream, NEW got \in [ids : SUBSET Ids, fresh : SUBSET Ids, read : BOOLEAN]
  PROVE  LET q == MergePage(r, got)
         IN /\ q \in Stream /\ q.opened = r.opened /\ q.loading = r.loading /\ q.pending = r.pending
            /\ q.held = r.held \cup got.ids
  BY DEF MergePage, Stream

\* What a window makes of the room.
LEMMA LandedKeeps ==
  ASSUME PageOK, NEW a \in asks
  PROVE  LET q == Landed(a)
         IN /\ q \in Stream /\ q.opened = room.opened /\ q.loading = FALSE /\ q.pending = room.pending
            /\ q.held = (IF a.kind = "around" THEN {} ELSE room.held) \cup a.got.ids
  <1>. DEFINE base == IF a.kind = "around" THEN [room EXCEPT !.held = {}, !.fresh = {}] ELSE room
              merged == MergePage(base, a.got)
              start == Cardinality({m \in a.got.ids : m <= a.from}) < WindowOlder
              end == Cardinality({m \in a.got.ids : m > a.from}) < WindowNewer /\ ~MissedOne(merged.held)
  <1>1. base \in Stream /\ base.opened = room.opened /\ base.pending = room.pending
    BY DEF PageOK, TypePage, Stream
  <1>1a. base.held = IF a.kind = "around" THEN {} ELSE room.held
    BY DEF PageOK, TypePage, Stream
  <1>2. a.got \in [ids : SUBSET Ids, fresh : SUBSET Ids, read : BOOLEAN]
    BY DEF PageOK, TypePage, Ask
  <1>. HIDE DEF base
  <1>3. /\ merged \in Stream /\ merged.opened = room.opened /\ merged.pending = room.pending
        /\ merged.held = base.held \cup a.got.ids
    BY <1>1, <1>2, MergePageKeeps
  <1>4. Landed(a) = [merged EXCEPT !.atStart = start \/ (a.kind = "window" /\ merged.atStart),
                                   !.atEnd = end, !.loading = FALSE, !.loaded = TRUE]
    BY DEF Landed, base
  <1>5. start \in BOOLEAN /\ end \in BOOLEAN  OBVIOUS
  <1>. HIDE DEF merged, start, end
  <1>. QED  BY <1>1a, <1>3, <1>4, <1>5 DEF Stream

\* The room and its requests stay in step: nothing of either is asked or settled.
LEMMA RoomKeeps ==
  ASSUME PageOK, UNCHANGED <<asks, openings>>, newest' \in 0..minted',
         \/ room' = NoRoom
         \/ /\ room # NoRoom /\ room' \in Stream
            /\ room'.opened = room.opened /\ room'.loading = room.loading
  PROVE  PageOK'
  <1>. USE DEF PageOK
  <1>1. TypePage'  BY NoRoomIs DEF TypePage
  <1>2. OpenOK'  BY DEF OpenOK
  <1>3. AskOK'  BY DEF AskOK, StillOpen
  <1>. QED  BY <1>1, <1>2, <1>3

\* An opening: the one request for it is its own.
LEMMA OpenKeeps ==
  ASSUME PageOK, newest' \in 0..minted', NEW others \in SUBSET asks, NEW k \in Ask,
         openings' = openings + 1, k.opened = openings + 1, asks' = others \cup {k},
         room' \in Stream, room'.opened = openings + 1, room'.loading = TRUE
  PROVE  PageOK'
  <1>. USE DEF PageOK
  <1>1. TypePage'  BY DEF TypePage
  <1>2. openings \in Nat  BY DEF TypePage
  <1>3. OpenOK'  BY <1>2 DEF OpenOK
  <1>4. \A a \in others : a.opened # openings + 1  BY <1>2 DEF OpenOK
  <1>5. room' # NoRoom  BY <1>2, NoRoomIs
  <1>6. {b \in asks' : StillOpen(b)'} = {k}  BY <1>4, <1>5 DEF StillOpen
  <1>7. AskOK'  BY <1>6 DEF AskOK
  <1>. QED  BY <1>1, <1>3, <1>7

\* A request by a room that had none out.
LEMMA AskKeeps ==
  ASSUME PageOK, newest' \in 0..minted', NEW k \in Ask, UNCHANGED openings,
         room # NoRoom, ~room.loading, k.opened = room.opened, asks' = asks \cup {k},
         room' = [room EXCEPT !.loading = TRUE]
  PROVE  PageOK'
  <1>. USE DEF PageOK
  <1>0. room' \in Stream /\ room'.opened = room.opened /\ room'.loading = TRUE
    BY DEF TypePage, Stream
  <1>1. TypePage'  BY <1>0 DEF TypePage
  <1>2. OpenOK'  BY <1>0 DEF OpenOK
  <1>3. room' # NoRoom  BY <1>0, NoRoomIs
  <1>4. {b \in asks : StillOpen(b)} = {}  BY DEF AskOK
  <1>5. {b \in asks' : StillOpen(b)'} = {k}  BY <1>0, <1>3, <1>4 DEF StillOpen
  <1>6. AskOK'  BY <1>5 DEF AskOK
  <1>. QED  BY <1>1, <1>2, <1>6

\* A request for this opening of a room that loads is the only one.
LEMMA OnlyAsk ==
  ASSUME PageOK, NEW a \in asks, StillOpen(a)
  PROVE  room # NoRoom /\ room.loading /\ \A b \in asks : StillOpen(b) => b = a
  <1>1. room # NoRoom  BY DEF StillOpen
  <1>2. a \in {b \in asks : StillOpen(b)}  OBVIOUS
  <1>3. room.loading  BY <1>1, <1>2 DEF PageOK, AskOK
  <1>4. PICK c \in asks : {b \in asks : StillOpen(b)} = {c}  BY <1>1, <1>3 DEF PageOK, AskOK
  <1>. QED  BY <1>1, <1>2, <1>3, <1>4

\* A request settled: if it was for this opening, the room loads no more.
LEMMA DropKeeps ==
  ASSUME PageOK, newest' \in 0..minted', NEW a \in asks, UNCHANGED openings, asks' = asks \ {a},
         ~StillOpen(a) => room' = room,
         StillOpen(a) => room' \in Stream /\ room'.opened = room.opened /\ room'.loading = FALSE
  PROVE  PageOK'
  <1>. USE DEF PageOK
  <1>1. room' \in Stream  BY DEF TypePage
  <1>1a. TypePage'  BY <1>1 DEF TypePage
  <1>2. OpenOK'
    <2>1. CASE ~StillOpen(a)  BY <2>1 DEF OpenOK
    <2>2. CASE StillOpen(a)  BY <2>2, OnlyAsk DEF OpenOK
    <2>. QED  BY <2>1, <2>2
  <1>3. AskOK'
    <2>1. CASE ~StillOpen(a)
      <3>1. {b \in asks' : StillOpen(b)'} = {b \in asks : StillOpen(b)}
        BY <2>1 DEF StillOpen
      <3>2. \A c \in asks : {b \in asks : StillOpen(b)} = {c} => c \in asks'
        BY <2>1
      <3>. QED  BY <2>1, <3>1, <3>2 DEF AskOK
    <2>2. CASE StillOpen(a)
      <3>1. \A b \in asks' : b.opened # room.opened  BY <2>2, OnlyAsk DEF StillOpen
      <3>2. {b \in asks' : StillOpen(b)'} = {}  BY <2>2, <3>1 DEF StillOpen
      <3>. QED  BY <2>2, <3>2 DEF AskOK
    <2>. QED  BY <2>1, <2>2
  <1>. QED  BY <1>1a, <1>2, <1>3

\* A request answered, waiting, or followed by the next, for the same opening.
LEMMA ReplaceKeeps ==
  ASSUME PageOK, newest' \in 0..minted', NEW a \in asks, NEW k \in Ask, UNCHANGED openings,
         k.opened = a.opened, asks' = (asks \ {a}) \cup {k},
         \/ room' = room
         \/ StillOpen(a) /\ room' \in Stream /\ room'.opened = room.opened /\ room'.loading = TRUE
  PROVE  PageOK'
  <1>. USE DEF PageOK
  <1>0. room' \in Stream /\ room'.opened = room.opened  BY DEF TypePage
  <1>1. TypePage'  BY <1>0 DEF TypePage
  <1>2. a.opened \in 1..openings  BY DEF OpenOK
  <1>2a. room' = NoRoom <=> room = NoRoom
    BY NoRoomIs, <1>0, <1>2 DEF StillOpen
  <1>2b. OpenOK'  BY <1>0, <1>2, <1>2a DEF OpenOK
  <1>3. \A b : StillOpen(b)' <=> StillOpen(b)  BY <1>0, <1>2a DEF StillOpen
  <1>4. AskOK'
    <2>1. CASE ~StillOpen(a)
      <3>1. {b \in asks' : StillOpen(b)'} = {b \in asks : StillOpen(b)}
        BY <2>1, <1>3 DEF StillOpen
      <3>2. \A c \in asks : {b \in asks : StillOpen(b)} = {c} => c \in asks'
        BY <2>1
      <3>. QED  BY <2>1, <3>1, <3>2 DEF AskOK
    <2>2. CASE StillOpen(a)
      <3>1. \A b \in asks : StillOpen(b) => b = a  BY <2>2, OnlyAsk
      <3>1a. StillOpen(k)  BY <2>2 DEF StillOpen
      <3>2. {b \in asks' : StillOpen(b)'} = {k}  BY <3>1, <3>1a, <1>3
      <3>3. room'.loading  BY <2>2, OnlyAsk
      <3>. QED  BY <3>2, <3>3 DEF AskOK
    <2>. QED  BY <2>1, <2>2
  <1>. QED  BY <1>1, <1>2b, <1>4

\* A request as it is made.
LEMMA NewAskIs ==
  ASSUME NEW kind \in {"page", "window", "around"}, NEW from \in 0..MaxMsgs, NEW opened \in Nat, NEW left \in Nat
  PROVE  LET k == NewAsk(kind, from, opened, left) IN k \in Ask /\ k.opened = opened
  BY DEF NewAsk, Ask, NoPage

\* The rest of openRoom.
LEMMA OpenDoes ==
  ASSUME PageOK, newest' \in 0..minted', NEW others \in SUBSET asks, NEW pending \in Seq(Sends), Open(others, pending)
  PROVE  PageOK' /\ room'.pending = pending
  <1>. USE SizesAssumption
  <1>1. openings \in Nat  BY DEF PageOK, TypePage
  <1>. DEFINE k == NewAsk("page", 0, openings + 1, Waits)
  <1>1b. MaxMsgs \in Nat /\ Waits \in Nat  OBVIOUS
  <1>1a. 0 \in 0..MaxMsgs /\ Waits \in Nat /\ openings + 1 \in Nat  BY <1>1, <1>1b
  <1>1c. "page" \in {"page", "window", "around"}  OBVIOUS
  <1>2. k \in Ask /\ k.opened = openings + 1
    BY ONLY <1>1a, <1>1c, NewAskIs
  <1>. HIDE DEF k
  <1>3. openings' = openings + 1 /\ asks' = others \cup {k}  BY DEF Open, k
  <1>4. room' = [NoRoom EXCEPT !.atEnd = TRUE, !.loading = TRUE, !.pending = pending, !.opened = openings + 1]
    BY DEF Open
  <1>5. /\ room' \in Stream /\ room'.opened = openings + 1 /\ room'.loading = TRUE
        /\ room'.pending = pending
    BY <1>1a, <1>4 DEF NoRoom, Stream
  <1>. QED  BY <1>2, <1>3, <1>5, OpenKeeps

-----------------------------------------------------------------------------
(* Stand-ins *)

\* A stand-in taken from the rest: none of that send's is left, none is new.
LEMMA WithoutIs ==
  ASSUME NEW p \in Seq(Sends), NEW s, \A i, j \in DOMAIN p : p[i] = p[j] => i = j
  PROVE  LET q == WithoutStandIn(p, s)
         IN /\ q \in Seq(Sends)
            /\ \A i \in DOMAIN q : q[i] # s /\ \E j \in DOMAIN p : q[i] = p[j]
            /\ \A i, j \in DOMAIN q : q[i] = q[j] => i = j
  <1>0. Len(p) \in Nat /\ DOMAIN p = 1..Len(p)  OBVIOUS
  <1>1. CASE \E i \in DOMAIN p : p[i] = s
    <2>. DEFINE n == CHOOSE i \in DOMAIN p : p[i] = s
                left == SubSeq(p, 1, n - 1)
                right == SubSeq(p, n + 1, Len(p))
                q == left \o right
    <2>1. n \in 1..Len(p) /\ p[n] = s  BY <1>0, <1>1
    <2>2. WithoutStandIn(p, s) = q  BY <1>1 DEF WithoutStandIn
    <2>. HIDE DEF n
    <2>3. left \in Seq(Sends) /\ Len(left) = n - 1 /\ \A i \in 1..n - 1 : left[i] = p[i]
      <3>1. \A i \in 1..n - 1 : p[i] \in Sends  BY <1>0, <2>1
      <3>2. /\ left \in Seq(Sends)
            /\ Len(left) = IF 1 <= n - 1 THEN n - 1 - 1 + 1 ELSE 0
            /\ \A i \in 1..n - 1 - 1 + 1 : left[i] = p[1 + i - 1]
        BY <3>1, <2>1, <1>0, SubSeqProperties
      <3>. QED  BY <3>2, <2>1, <1>0
    <2>4. right \in Seq(Sends) /\ Len(right) = Len(p) - n /\ \A i \in 1..Len(p) - n : right[i] = p[n + i]
      <3>1. \A i \in n + 1..Len(p) : p[i] \in Sends  BY <1>0, <2>1
      <3>2. /\ right \in Seq(Sends)
            /\ Len(right) = IF n + 1 <= Len(p) THEN Len(p) - (n + 1) + 1 ELSE 0
            /\ \A i \in 1..Len(p) - (n + 1) + 1 : right[i] = p[(n + 1) + i - 1]
        BY <3>1, <2>1, <1>0, SubSeqProperties
      <3>3. \A i \in 1..Len(p) - n : i \in 1..Len(p) - (n + 1) + 1 /\ (n + 1) + i - 1 = n + i  BY <2>1, <1>0
      <3>4. \A i \in 1..Len(p) - n : right[i] = p[n + i]  BY <3>2, <3>3
      <3>5. Len(right) = Len(p) - n
        <4>0. n \in Nat /\ n <= Len(p) /\ Len(p) \in Nat  BY <2>1, <1>0
        <4>1. CASE n + 1 <= Len(p)
          <5>1. Len(right) = Len(p) - (n + 1) + 1  BY <3>2, <4>1
          <5>2. Len(p) - (n + 1) + 1 = Len(p) - n  BY <4>0, <1>0
          <5>. QED  BY <5>1, <5>2
        <4>2. CASE ~(n + 1 <= Len(p))
          <5>1. Len(right) = 0  BY <3>2, <4>2
          <5>2. Len(p) < n + 1  BY <4>0, <4>2
          <5>3. Len(p) - n = 0  BY <4>0, <5>2
          <5>. QED  BY <5>1, <5>3
        <4>. QED  BY <4>1, <4>2
      <3>. QED  BY <3>2, <3>4, <3>5
    <2>. HIDE DEF left, right
    <2>5. /\ q \in Seq(Sends) /\ Len(q) = Len(left) + Len(right)
          /\ \A i \in 1..Len(left) + Len(right) : q[i] = IF i <= Len(left) THEN left[i] ELSE right[i - Len(left)]
      BY <2>3, <2>4, ConcatProperties
    <2>. HIDE DEF q
    <2>6. DOMAIN q = 1..Len(p) - 1  BY <2>1, <2>3, <2>4, <2>5, <1>0
    <2>7. \A i \in DOMAIN q : q[i] = IF i < n THEN p[i] ELSE p[i + 1]
      <3>. SUFFICES ASSUME NEW i \in DOMAIN q PROVE q[i] = IF i < n THEN p[i] ELSE p[i + 1]  OBVIOUS
      <3>0. i \in 1..Len(p) - 1 /\ i \in 1..Len(left) + Len(right)  BY <2>1, <2>3, <2>4, <2>6, <1>0
      <3>1. CASE i < n
        <4>1. i <= Len(left) /\ i \in 1..n - 1  BY <3>0, <3>1, <2>1, <2>3
        <4>. QED  BY <3>0, <3>1, <4>1, <2>3, <2>5
      <3>2. CASE ~(i < n)
        <4>1. ~(i <= Len(left)) /\ i - Len(left) = i - (n - 1)  BY <3>0, <3>2, <2>1, <2>3
        <4>2. q[i] = right[i - (n - 1)]  BY <3>0, <4>1, <2>5
        <4>3. i - (n - 1) \in 1..Len(p) - n /\ n + (i - (n - 1)) = i + 1  BY <3>2, <3>0, <2>1, <1>0
        <4>4. right[i - (n - 1)] = p[i + 1]  BY <4>3, <2>4
        <4>. QED  BY <4>2, <4>4, <3>2
      <3>. QED  BY <3>1, <3>2
    <2>8. \A i \in DOMAIN q : \E j \in DOMAIN p : j # n /\ j = (IF i < n THEN i ELSE i + 1) /\ q[i] = p[j]
      BY <2>6, <2>7, <2>1, <1>0
    <2>9. \A i \in DOMAIN q : q[i] # s  BY <2>8, <2>1, <1>0
    <2>10. \A i, j \in DOMAIN q : q[i] = q[j] => i = j  BY <2>8, <2>6, <2>1, <1>0
    <2>. QED  BY <2>2, <2>5, <2>8, <2>9, <2>10
  <1>2. CASE ~ \E i \in DOMAIN p : p[i] = s  BY <1>2 DEF WithoutStandIn
  <1>. QED  BY <1>1, <1>2

\* Dropped, begun again, or with the first folded away: what is left stands for what it did.
LEMMA StandInsKeep ==
  ASSUME StandInsEnd, room.pending \in Seq(Sends), sends' = sends,
         \/ room'.pending = room.pending
         \/ room'.pending = <<>>
         \/ room.pending # <<>> /\ room'.pending = Tail(room.pending)
  PROVE  StandInsEnd'
  <1>1. CASE room'.pending = room.pending  BY <1>1 DEF StandInsEnd
  <1>2. CASE room'.pending = <<>>  BY <1>2 DEF StandInsEnd
  <1>3. CASE room.pending # <<>> /\ room'.pending = Tail(room.pending)
    <2>. DEFINE p == room.pending  q == room'.pending
    <2>1. Len(p) \in Nat /\ DOMAIN p = 1..Len(p)  OBVIOUS
    <2>2. \A i \in DOMAIN q : i \in Nat /\ i + 1 \in DOMAIN p /\ q[i] = p[i + 1]  BY <1>3, <2>1
    <2>. HIDE DEF p, q
    <2>3. \A i \in DOMAIN q : sends[q[i]].st = "waiting"  BY <2>2 DEF StandInsEnd, p
    <2>4. \A i, j \in DOMAIN p : p[i] = p[j] => i = j  BY DEF StandInsEnd, p
    <2>5. \A i, j \in DOMAIN q : q[i] = q[j] => i = j
      <3>. SUFFICES ASSUME NEW i \in DOMAIN q, NEW j \in DOMAIN q, q[i] = q[j] PROVE i = j  OBVIOUS
      <3>1. i + 1 = j + 1  BY <2>2, <2>4
      <3>. QED  BY <3>1, <2>2
    <2>. QED  BY <2>3, <2>5 DEF StandInsEnd, q
  <1>. QED  BY <1>1, <1>2, <1>3

\* A send that is settled leaves no stand-in.
LEMMA StandInsSettle ==
  ASSUME StandInsEnd, TypeSends, room.pending \in Seq(Sends), NEW s \in Sends, NEW st,
         sends' = [sends EXCEPT ![s].st = st], room'.pending \in {<<>>, WithoutStandIn(room.pending, s)}
  PROVE  StandInsEnd'
  <1>1. CASE room'.pending = <<>>  BY <1>1 DEF StandInsEnd
  <1>2. CASE room'.pending = WithoutStandIn(room.pending, s)
    <2>. DEFINE p == room.pending  q == room'.pending
    <2>1. \A i, j \in DOMAIN p : p[i] = p[j] => i = j  BY DEF StandInsEnd
    <2>2. \A i \in DOMAIN q : q[i] # s /\ \E j \in DOMAIN p : q[i] = p[j]  BY <1>2, <2>1, WithoutIs
    <2>3. \A i, j \in DOMAIN q : q[i] = q[j] => i = j  BY <1>2, <2>1, WithoutIs
    <2>4. \A i \in DOMAIN q : sends'[q[i]].st = "waiting"
      <3>. SUFFICES ASSUME NEW i \in DOMAIN q PROVE sends'[q[i]].st = "waiting"  OBVIOUS
      <3>1. PICK j \in DOMAIN p : q[i] = p[j]  BY <2>2
      <3>2. q[i] # s /\ sends[q[i]].st = "waiting"  BY <2>2, <3>1 DEF StandInsEnd
      <3>3. q[i] \in Sends  BY <3>1
      <3>. QED  BY <3>2, <3>3 DEF TypeSends
    <2>. QED  BY <2>3, <2>4 DEF StandInsEnd
  <1>. QED  BY <1>1, <1>2

-----------------------------------------------------------------------------
(* The page's steps *)

\* No step of the server's or the page's takes the newest message heard of
\* past the ids there are.
LEMMA NewestStep == ServerOK /\ TypePage /\ [Next]_vars => newest' \in 0..minted'
  <1>. SUFFICES ASSUME ServerOK, TypePage, [Next]_vars PROVE newest' \in 0..minted'  OBVIOUS
  <1>a. minted \in 0..MaxMsgs /\ newest \in 0..minted /\ MaxMsgs \in Nat
    BY SizesAssumption DEF ServerOK, TypeServer, TypePage
  <1>b. \A m \in saved : m \in 0..minted  BY DEF ServerOK, TypeServer
  <1>1. CASE newest' = newest
    <2>1. minted' = minted \/ minted' = minted + 1
      BY DEF Next, Server, Person, Network, Settle, OtherPosts, TryArrives, Mint, Commit, Edit, Publish,
             ReadPage, OpenRoom, LeaveWindow, LoadOlder, LoadNewer, ReleaseRoom, OpenAround, TrimHistory,
             SendMessage, Hear, Ready, PageArrives, PageFails, WaitEnds, WindowArrives, WindowFails,
             SendFails, AnswerArrives, EditAnswered, vars, server, serverOnly, page
    <2>. QED  BY <1>1, <2>1, <1>a
  <1>2. CASE Hear
    <2>1. feed \in Seq(Frame) /\ feed # <<>>  BY <1>2 DEF Hear, ServerOK, TypeServer
    <2>2. 1 \in DOMAIN feed /\ Head(feed) = feed[1]  BY <2>1
    <2>3. Head(feed).id \in saved  BY <2>2 DEF ServerOK, ToldOK
    <2>4. newest' \in {newest, Head(feed).id} /\ minted' = minted  BY <1>2 DEF Hear, serverOnly
    <2>. QED  BY <2>3, <2>4, <1>a, <1>b
  <1>3. CASE Ready
    <2>. DEFINE T == {0} \cup {m \in saved : ~QuietLine(m)}
    <2>1. newest' = Max(T) /\ minted' = minted  BY <1>3 DEF Ready, serverOnly
    <2>2. T \in SUBSET (0..minted) /\ T # {} /\ minted \in Nat  BY <1>a, <1>b
    <2>. HIDE DEF T
    <2>3. Max(T) \in T  BY <2>2, NewestIn
    <2>. QED  BY <2>1, <2>2, <2>3
  <1>4. newest' = newest \/ Hear \/ Ready
    BY DEF Next, Server, Person, Network, Settle, OtherPosts, TryArrives, Commit, Edit, Publish,
           ReadPage, OpenRoom, LeaveWindow, LoadOlder, LoadNewer, ReleaseRoom, OpenAround, TrimHistory,
           SendMessage, PageArrives, PageFails, WaitEnds, WindowArrives, WindowFails,
           SendFails, AnswerArrives, EditAnswered, vars, page
  <1>. QED  BY <1>1, <1>2, <1>3, <1>4

\* What the person does with a room.
LEMMA PersonKeeps ==
  ASSUME ServerOK, TypeSends, PageOK, StandInsEnd, newest' \in 0..minted', Person
  PROVE  PageOK' /\ StandInsEnd'
  <1>. USE SizesAssumption
  <1>0. /\ room \in Stream /\ room.pending \in Seq(Sends) /\ openings \in Nat /\ room.opened \in Nat
        /\ room.held \in SUBSET Ids
    BY DEF PageOK, TypePage, Stream
  <1>0a. MaxMsgs \in Nat /\ Waits \in Nat  OBVIOUS
  <1>0b. <<>> \in Seq(Sends) /\ asks \in SUBSET asks  OBVIOUS
  <1>1. CASE OpenRoom
    <2>1. Open(asks, room.pending) /\ sends' = sends  BY <1>1 DEF OpenRoom, sending
    <2>2. PageOK' /\ room'.pending = room.pending  BY <2>1, <1>0, <1>0b, OpenDoes
    <2>. QED  BY <2>1, <2>2, <1>0, StandInsKeep
  <1>2. CASE LeaveWindow
    <2>1. Open(asks, <<>>) /\ sends' = sends  BY <1>2 DEF LeaveWindow, sending
    <2>2. PageOK' /\ room'.pending = <<>>  BY <2>1, <1>0b, OpenDoes
    <2>. QED  BY <2>1, <2>2, <1>0, StandInsKeep
  <1>3. ASSUME NEW m \in Ids, OpenAround(m) PROVE PageOK' /\ StandInsEnd'
    <2>. DEFINE k == NewAsk("around", m, openings + 1, 0)
    <2>1. "around" \in {"page", "window", "around"} /\ m \in 0..MaxMsgs /\ openings + 1 \in Nat /\ 0 \in Nat
      BY <1>0, <1>0a DEF Ids
    <2>2. k \in Ask /\ k.opened = openings + 1  BY ONLY <2>1, NewAskIs
    <2>3. asks' = asks \cup {k} /\ openings' = openings + 1 /\ sends' = sends
      BY <1>3 DEF OpenAround, sending
    <2>4. room' = [NoRoom EXCEPT !.loading = TRUE, !.opened = openings + 1]  BY <1>3 DEF OpenAround
    <2>5. room' \in Stream /\ room'.opened = openings + 1 /\ room'.loading = TRUE /\ room'.pending = <<>>
      BY <2>1, <2>4, <1>0b DEF NoRoom, Stream
    <2>. HIDE DEF k
    <2>6. PageOK'  BY <2>2, <2>3, <2>5, <1>0b, OpenKeeps
    <2>. QED  BY <2>3, <2>5, <2>6, <1>0, StandInsKeep
  <1>4. CASE LoadOlder
    <2>. DEFINE k == NewAsk("page", Oldest(room.held), room.opened, 0)
    <2>1. "page" \in {"page", "window", "around"} /\ Oldest(room.held) \in 0..MaxMsgs /\ 0 \in Nat
      BY <1>0, OldestIn
    <2>2. k \in Ask /\ k.opened = room.opened  BY ONLY <2>1, <1>0, NewAskIs
    <2>3. /\ asks' = asks \cup {k} /\ openings' = openings /\ sends' = sends
          /\ room # NoRoom /\ ~room.loading /\ room' = [room EXCEPT !.loading = TRUE]
      BY <1>4 DEF LoadOlder, sending
    <2>. HIDE DEF k
    <2>4. PageOK'  BY <2>2, <2>3, AskKeeps
    <2>5. room'.pending = room.pending  BY <2>3, <1>0 DEF Stream
    <2>. QED  BY <2>3, <2>4, <2>5, <1>0, StandInsKeep
  <1>5. CASE LoadNewer
    <2>. DEFINE k == NewAsk("window", Max(room.held), room.opened, 1)
    <2>0. room.held \in SUBSET (0..MaxMsgs) /\ room.held # {}  BY <1>0, <1>0a, <1>5 DEF LoadNewer, Ids
    <2>0a. Max(room.held) \in room.held  BY <2>0, <1>0a, NewestIn
    <2>1. "window" \in {"page", "window", "around"} /\ Max(room.held) \in 0..MaxMsgs /\ 1 \in Nat
      BY <2>0, <2>0a
    <2>2. k \in Ask /\ k.opened = room.opened  BY ONLY <2>1, <1>0, NewAskIs
    <2>3. /\ asks' = asks \cup {k} /\ openings' = openings /\ sends' = sends
          /\ room # NoRoom /\ ~room.loading /\ room' = [room EXCEPT !.loading = TRUE]
      BY <1>5 DEF LoadNewer, sending
    <2>. HIDE DEF k
    <2>4. PageOK'  BY <2>2, <2>3, AskKeeps
    <2>5. room'.pending = room.pending  BY <2>3, <1>0 DEF Stream
    <2>. QED  BY <2>3, <2>4, <2>5, <1>0, StandInsKeep
  <1>6. CASE ReleaseRoom
    <2>. DEFINE kept == Largest(PageSize, room.held)
    <2>1. /\ room # NoRoom /\ UNCHANGED <<asks, openings>> /\ sends' = sends
          /\ \/ room' = NoRoom
             \/ room' = [room EXCEPT !.held = kept, !.fresh = @ \cap kept, !.atStart = FALSE]
      BY <1>6 DEF ReleaseRoom, sending
    <2>2. kept \in SUBSET Ids  BY <1>0 DEF Largest
    <2>. HIDE DEF kept
    <2>3. \/ room' = NoRoom
          \/ /\ room' \in Stream /\ room'.opened = room.opened /\ room'.loading = room.loading
             /\ room'.pending = room.pending
      BY <2>1, <2>2, <1>0 DEF Stream
    <2>4. PageOK'  BY <2>1, <2>3, RoomKeeps
    <2>5. room'.pending = room.pending \/ room'.pending = <<>>  BY <2>3, NoRoomIs
    <2>. QED  BY <2>1, <2>4, <2>5, <1>0, StandInsKeep
  <1>7. ASSUME NEW first \in Ids, NEW last \in Ids, TrimHistory(first, last) PROVE PageOK' /\ StandInsEnd'
    <2>. DEFINE near == Near(first, last)
                start == room.atStart /\ Min(near) = Min(room.held)
                end == room.atEnd /\ Max(near) = Max(room.held)
    <2>1. /\ room # NoRoom /\ UNCHANGED <<asks, openings>> /\ sends' = sends
          /\ room' = [room EXCEPT !.held = near, !.fresh = @ \cap near, !.atStart = start, !.atEnd = end]
      BY <1>7 DEF TrimHistory, sending
    <2>2. near \in SUBSET Ids  BY <1>0 DEF Near
    <2>2a. start \in BOOLEAN /\ end \in BOOLEAN  BY <1>0 DEF Stream
    <2>. HIDE DEF near, start, end
    <2>3. /\ room' \in Stream /\ room'.opened = room.opened /\ room'.loading = room.loading
          /\ room'.pending = room.pending
      BY <2>1, <2>2, <2>2a, <1>0 DEF Stream
    <2>4. PageOK'  BY <2>1, <2>3, RoomKeeps
    <2>. QED  BY <2>1, <2>3, <2>4, <1>0, StandInsKeep
  <1>8. ASSUME NEW s \in Sends, SendMessage(s) PROVE PageOK' /\ StandInsEnd'
    <2>0. UNCHANGED <<asks, openings>>  BY <1>8 DEF SendMessage
    <2>1. /\ sends[s].st # "waiting"
          /\ sends' = [sends EXCEPT ![s] = [st |-> "waiting", try |-> sends[s].try + 1]]
      BY <1>8 DEF SendMessage
    <2>1a. sends'[s].st = "waiting" /\ \A o \in Sends : o # s => sends'[o] = sends[o]
      BY <2>1 DEF TypeSends
    <2>2. CASE ~room.atEnd
      <3>1. room' = room  BY <1>8, <2>2 DEF SendMessage
      <3>2. PageOK'  BY <2>0, <3>1, <1>0, RoomKeeps
      <3>2a. \A i \in DOMAIN room.pending : room.pending[i] \in Sends  BY <1>0
      <3>3. \A i \in DOMAIN room.pending : sends'[room.pending[i]].st = "waiting"
        BY <3>2a, <2>1a DEF StandInsEnd
      <3>. QED  BY <3>1, <3>2, <3>3 DEF StandInsEnd
    <2>3. CASE room.atEnd
      <3>1. room' = [room EXCEPT !.pending = Append(@, s)]  BY <1>8, <2>3 DEF SendMessage
      <3>2. Append(room.pending, s) \in Seq(Sends)  BY <1>0
      <3>3. room # NoRoom  BY <2>3 DEF NoRoom
      <3>4. /\ room' \in Stream /\ room'.opened = room.opened /\ room'.loading = room.loading
            /\ room'.pending = Append(room.pending, s)
        BY <3>1, <3>2, <1>0 DEF Stream
      <3>5. PageOK'  BY <2>0, <3>3, <3>4, RoomKeeps
      <3>. DEFINE p == room.pending  q == room'.pending
      <3>6. Len(p) \in Nat /\ DOMAIN p = 1..Len(p)  BY <1>0
      <3>6a. /\ q \in Seq(Sends) /\ Len(q) = Len(p) + 1 /\ q[Len(p) + 1] = s
             /\ \A i \in 1..Len(p) : q[i] = p[i]
        BY <1>0, <3>4, AppendProperties
      <3>6b. DOMAIN q = 1..Len(p) + 1  BY <3>6a
      <3>7. \A i \in DOMAIN q : IF i = Len(p) + 1 THEN q[i] = s ELSE i \in DOMAIN p /\ q[i] = p[i]
        <4>1. Len(p) \in Nat  BY <3>6
        <4>2. \A i \in 1..Len(p) + 1 : i # Len(p) + 1 => i \in 1..Len(p)  BY <4>1
        <4>3. \A i \in 1..Len(p) : i \in DOMAIN p /\ q[i] = p[i]  BY <3>6, <3>6a
        <4>. HIDE DEF p, q
        <4>. QED  BY <3>6a, <3>6b, <4>2, <4>3
      <3>8. \A i \in DOMAIN p : p[i] # s /\ p[i] \in Sends  BY <1>0, <2>1 DEF StandInsEnd
      <3>9. \A i, j \in DOMAIN p : p[i] = p[j] => i = j  BY DEF StandInsEnd
      <3>10. \A i \in DOMAIN p : sends[p[i]].st = "waiting"  BY DEF StandInsEnd
      <3>. HIDE DEF p
      <3>11. \A i \in DOMAIN q : sends'[q[i]].st = "waiting"  BY <3>7, <3>8, <3>10, <2>1a
      <3>12. \A i, j \in DOMAIN q : q[i] = q[j] => i = j  BY <3>7, <3>8, <3>9
      <3>. QED  BY <3>5, <3>11, <3>12 DEF StandInsEnd
    <2>. QED  BY <2>2, <2>3
  <1>. QED  BY <1>1, <1>2, <1>3, <1>4, <1>5, <1>6, <1>7, <1>8 DEF Person

\* What becomes of a request.
LEMMA SettleKeeps ==
  ASSUME PageOK, StandInsEnd, newest' \in 0..minted', NEW a \in asks, Settle(a)
  PROVE  PageOK' /\ StandInsEnd'
  <1>. USE SizesAssumption
  <1>0. /\ room \in Stream /\ room.pending \in Seq(Sends) /\ openings \in Nat /\ room.opened \in Nat
        /\ a \in Ask
    BY DEF PageOK, TypePage, Stream
  <1>0a. /\ a.got \in [ids : SUBSET Ids, fresh : SUBSET Ids, read : BOOLEAN]
         /\ a.got.ids \in SUBSET Ids /\ a.left \in Nat
    BY <1>0 DEF Ask
  <1>0b. sends' = sends
    BY DEF Settle, PageArrives, PageFails, WaitEnds, WindowArrives, WindowFails, sending
  <1>0c. NotLoading(room) \in Stream /\ NotLoading(room).opened = room.opened
         /\ NotLoading(room).loading = FALSE /\ NotLoading(room).pending = room.pending
    BY <1>0 DEF NotLoading, Stream
  <1>1. CASE PageArrives(a)
    <2>. DEFINE q == MergePage(room, a.got)
                r == [q EXCEPT !.atStart = Cardinality(a.got.ids) < PageSize, !.loading = FALSE, !.loaded = TRUE]
    <2>1. /\ asks' = asks \ {a} /\ openings' = openings
          /\ ~StillOpen(a) => room' = room
          /\ StillOpen(a) => room' \in {NotLoading(room), r}
      BY <1>1 DEF PageArrives
    <2>2. q \in Stream /\ q.opened = room.opened /\ q.pending = room.pending
      BY <1>0, <1>0a, MergePageKeeps
    <2>3. (Cardinality(a.got.ids) < PageSize) \in BOOLEAN  OBVIOUS
    <2>. HIDE DEF q
    <2>4. r \in Stream /\ r.opened = room.opened /\ r.loading = FALSE /\ r.pending = room.pending
      BY <2>2, <2>3 DEF Stream
    <2>. HIDE DEF r
    <2>5. PageOK'  BY <2>1, <2>4, <1>0c, DropKeeps
    <2>6. room'.pending = room.pending  BY <2>1, <2>4, <1>0c
    <2>. QED  BY <2>5, <2>6, <1>0, <1>0b, StandInsKeep
  <1>2. CASE PageFails(a)
    <2>1. CASE StillOpen(a) /\ a.left > 0
      <3>. DEFINE k == [a EXCEPT !.st = "waiting", !.left = @ - 1, !.got = NoPage]
      <3>1. asks' = (asks \ {a}) \cup {k} /\ openings' = openings /\ room' = room
        BY <1>2, <2>1 DEF PageFails
      <3>2. a.left - 1 \in Nat  BY <2>1, <1>0a
      <3>3. k \in Ask /\ k.opened = a.opened  BY <1>0, <3>2 DEF Ask, NoPage
      <3>. HIDE DEF k
      <3>4. PageOK'  BY <3>1, <3>3, ReplaceKeeps
      <3>. QED  BY <3>1, <3>4, <1>0, <1>0b, StandInsKeep
    <2>2. CASE ~(StillOpen(a) /\ a.left > 0)
      <3>1. /\ asks' = asks \ {a} /\ openings' = openings
            /\ room' = IF StillOpen(a) THEN NotLoading(room) ELSE room
        BY <1>2, <2>2 DEF PageFails
      <3>2. PageOK'  BY <3>1, <1>0c, DropKeeps
      <3>. QED  BY <3>1, <3>2, <1>0, <1>0b, <1>0c, StandInsKeep
    <2>. QED  BY <2>1, <2>2
  <1>3. CASE WaitEnds(a)
    <2>0. openings' = openings /\ room' = room  BY <1>3 DEF WaitEnds
    <2>1. PageOK'
      <3>1. CASE StillOpen(a)
        <4>. DEFINE k == [a EXCEPT !.st = "asked"]
        <4>1. asks' = (asks \ {a}) \cup {k}  BY <1>3, <3>1 DEF WaitEnds
        <4>2. k \in Ask /\ k.opened = a.opened  BY <1>0 DEF Ask
        <4>. HIDE DEF k
        <4>. QED  BY <2>0, <4>1, <4>2, ReplaceKeeps
      <3>2. CASE ~StillOpen(a)
        <4>1. asks' = asks \ {a}  BY <1>3, <3>2 DEF WaitEnds
        <4>. QED  BY <2>0, <3>2, <4>1, DropKeeps
      <3>. QED  BY <3>1, <3>2
    <2>. QED  BY <2>0, <2>1, <1>0, <1>0b, StandInsKeep
  <1>4. CASE WindowArrives(a)
    <2>. DEFINE r == Landed(a)
    <2>0. openings' = openings /\ a.kind # "page"  BY <1>4 DEF WindowArrives
    <2>1. /\ r \in Stream /\ r.opened = room.opened /\ r.loading = FALSE /\ r.pending = room.pending
          /\ r.held = (IF a.kind = "around" THEN {} ELSE room.held) \cup a.got.ids
      BY LandedKeeps
    <2>2. CASE ~StillOpen(a)
      <3>1. asks' = asks \ {a} /\ room' = room  BY <1>4, <2>2 DEF WindowArrives
      <3>2. PageOK'  BY <2>0, <2>2, <3>1, DropKeeps
      <3>. QED  BY <3>1, <3>2, <1>0, <1>0b, StandInsKeep
    <2>3. CASE StillOpen(a) /\ a.kind = "window" /\ a.from \notin room.held
      <3>1. asks' = asks \ {a} /\ room' = NotLoading(room)  BY <1>4, <2>3 DEF WindowArrives
      <3>2. PageOK'  BY <2>0, <2>3, <3>1, <1>0c, DropKeeps
      <3>. QED  BY <3>1, <3>2, <1>0, <1>0b, <1>0c, StandInsKeep
    <2>4. CASE StillOpen(a) /\ ~(a.kind = "window" /\ a.from \notin room.held) /\ ReadsOn(a)
      <3>. DEFINE k == NewAsk("window", Max(r.held), r.opened, a.left - 1)
                  w == [r EXCEPT !.loading = TRUE]
      <3>1. asks' = (asks \ {a}) \cup {k} /\ room' = w  BY <1>4, <2>4 DEF WindowArrives
      <3>2. a.kind = "window" /\ a.from \in room.held /\ a.left - 1 \in Nat
        BY <2>4, <1>0a DEF ReadsOn
      <3>3. r.held \in SUBSET (0..MaxMsgs) /\ r.held # {} /\ MaxMsgs \in Nat
        BY <2>1, <3>2, <1>0, <1>0a DEF Stream, Ids
      <3>4. Max(r.held) \in 0..MaxMsgs  BY <3>3, NewestIn
      <3>5. "window" \in {"page", "window", "around"} /\ r.opened \in Nat  BY <2>1, <1>0
      <3>. HIDE DEF r
      <3>6. k \in Ask /\ k.opened = r.opened  BY ONLY <3>2, <3>4, <3>5, NewAskIs
      <3>7. a.opened = room.opened  BY <2>4 DEF StillOpen
      <3>8. w \in Stream /\ w.opened = room.opened /\ w.loading = TRUE /\ w.pending = room.pending
        BY <2>1 DEF Stream
      <3>. HIDE DEF k, w
      <3>9. PageOK'  BY <2>0, <2>1, <2>4, <3>1, <3>6, <3>7, <3>8, ReplaceKeeps
      <3>. QED  BY <3>1, <3>8, <3>9, <1>0, <1>0b, StandInsKeep
    <2>5. CASE StillOpen(a) /\ ~(a.kind = "window" /\ a.from \notin room.held) /\ ~ReadsOn(a)
      <3>1. asks' = asks \ {a} /\ room' = r  BY <1>4, <2>5 DEF WindowArrives
      <3>. HIDE DEF r
      <3>2. PageOK'  BY <2>0, <2>1, <2>5, <3>1, DropKeeps
      <3>. QED  BY <2>1, <3>1, <3>2, <1>0, <1>0b, StandInsKeep
    <2>. QED  BY <2>2, <2>3, <2>4, <2>5
  <1>5. CASE WindowFails(a)
    <2>1. CASE StillOpen(a) /\ a.kind = "around"
      <3>0. Open(asks \ {a}, <<>>)  BY <1>5, <2>1 DEF WindowFails
      <3>1. asks \ {a} \in SUBSET asks /\ <<>> \in Seq(Sends)  OBVIOUS
      <3>2. PageOK' /\ room'.pending = <<>>  BY <3>0, <3>1, OpenDoes
      <3>. QED  BY <3>2, <1>0, <1>0b, StandInsKeep
    <2>2. CASE ~(StillOpen(a) /\ a.kind = "around")
      <3>1. /\ asks' = asks \ {a} /\ openings' = openings
            /\ room' = IF StillOpen(a) THEN NotLoading(room) ELSE room
        BY <1>5, <2>2 DEF WindowFails
      <3>2. PageOK'  BY <3>1, <1>0c, DropKeeps
      <3>. QED  BY <3>1, <3>2, <1>0, <1>0b, <1>0c, StandInsKeep
    <2>. QED  BY <2>1, <2>2
  <1>. QED  BY <1>1, <1>2, <1>3, <1>4, <1>5 DEF Settle

-----------------------------------------------------------------------------
(* The theorems *)

LEMMA HInvInit == Init => HInv
  <1>. SUFFICES ASSUME Init PROVE HInv  OBVIOUS
  <1>. USE SizesAssumption DEF Init
  <1>1. ServerOK  BY ServerInit
  <1>2. TypeSends  BY DEF TypeSends
  <1>3. TypePage  BY NoRoomIs DEF TypePage
  <1>4. OpenOK /\ AskOK  BY DEF OpenOK, AskOK
  <1>5. StandInsEnd  BY NoRoomIs DEF StandInsEnd
  <1>. QED  BY <1>1, <1>2, <1>3, <1>4, <1>5 DEF HInv, PageOK

\* The rest of the page's steps: frames, and the ends of its sends.
LEMMA PageStep == HInv /\ [Next]_vars => PageOK' /\ StandInsEnd'
  <1>. SUFFICES ASSUME HInv, [Next]_vars PROVE PageOK' /\ StandInsEnd'  OBVIOUS
  <1>. USE DEF HInv
  <1>0. newest' \in 0..minted'  BY NewestStep DEF PageOK
  <1>a. /\ room \in Stream /\ room.pending \in Seq(Sends)
    BY DEF PageOK, TypePage, Stream
  <1>b. room = NoRoom => room.pending = <<>>  BY NoRoomIs
  <1>1. CASE UNCHANGED <<room, asks, openings, sends>>
    <2>1. PageOK'  BY <1>0, <1>1, <1>a, RoomKeeps
    <2>. QED  BY <2>1, <1>1 DEF StandInsEnd
  <1>2. ASSUME NEW a \in asks, ReadPage(a) PROVE PageOK' /\ StandInsEnd'
    <2>1. PICK ids \in SUBSET Ids :
            asks' = (asks \ {a}) \cup
                    {[a EXCEPT !.got = [ids |-> ids, fresh |-> ids \cap edited, read |-> TRUE]]}
      <3>1. \A m \in saved : m \in Ids
        BY SizesAssumption DEF ServerOK, TypeServer, Ids
      <3>2. PageOf(a.from) \in SUBSET Ids /\ WindowOf(a.from) \in SUBSET Ids
        BY <3>1 DEF PageOf, WindowOf, Largest, Smallest
      <3>. QED  BY <1>2, <3>2 DEF ReadPage
    <2>. DEFINE k == [a EXCEPT !.got = [ids |-> ids, fresh |-> ids \cap edited, read |-> TRUE]]
    <2>2. a \in Ask  BY DEF PageOK, TypePage
    <2>3. k \in Ask /\ k.opened = a.opened  BY <2>2 DEF Ask
    <2>4. UNCHANGED <<room, openings, sends>>  BY <1>2 DEF ReadPage, sending
    <2>. HIDE DEF k
    <2>5. PageOK'  BY <1>0, <2>1, <2>3, <2>4, ReplaceKeeps DEF k
    <2>. QED  BY <2>4, <2>5 DEF StandInsEnd
  <1>3. CASE Person
    BY <1>0, <1>3, PersonKeeps
  <1>4. CASE Hear
    <2>1. feed \in Seq(Frame) /\ feed # <<>>  BY <1>4 DEF Hear, ServerOK, TypeServer
    <2>2. Head(feed) \in Frame  BY <2>1
    <2>3. UNCHANGED <<asks, openings, sends>>  BY <1>4 DEF Hear, sending
    <2>4. CASE room = NoRoom
      <3>1. room' = room  BY <1>4, <2>4 DEF Hear
      <3>2. PageOK'  BY <1>0, <2>3, <2>4, <3>1, RoomKeeps
      <3>. QED  BY <2>3, <3>1, <3>2 DEF StandInsEnd
    <2>5. CASE room # NoRoom
      <3>1. room' = Fold(room, Head(feed))  BY <1>4, <2>5 DEF Hear
      <3>2. /\ room' \in Stream /\ room'.opened = room.opened /\ room'.loading = room.loading
            /\ room'.pending = room.pending \/ (room.pending # <<>> /\ room'.pending = Tail(room.pending))
        BY <3>1, <2>2, <1>a, FoldKeeps
      <3>3. PageOK'  BY <1>0, <2>3, <2>5, <3>2, RoomKeeps
      <3>4. StandInsEnd'  BY <1>a, <2>3, <3>2, StandInsKeep
      <3>. QED  BY <3>3, <3>4
    <2>. QED  BY <2>4, <2>5
  <1>5. CASE Ready
    <2>1. UNCHANGED <<asks, openings, sends>> /\ room' = NoRoom  BY <1>5 DEF Ready, sending
    <2>2. PageOK'  BY <1>0, <2>1, RoomKeeps
    <2>3. room'.pending = <<>>  BY <2>1, NoRoomIs
    <2>. QED  BY <1>a, <2>1, <2>2, <2>3, StandInsKeep
  <1>6. ASSUME NEW a \in asks, Settle(a) PROVE PageOK' /\ StandInsEnd'
    BY <1>0, <1>6, SettleKeeps
  <1>7. ASSUME NEW s \in Sends, SendFails(s) PROVE PageOK' /\ StandInsEnd'
    <2>. DEFINE left == WithoutStandIn(room.pending, s)
    <2>1. /\ sends' = [sends EXCEPT ![s].st = "failed"] /\ UNCHANGED <<asks, openings>>
          /\ room' = [room EXCEPT !.pending = left]
      BY <1>7 DEF SendFails
    <2>2. left \in Seq(Sends)  BY <1>a, WithoutIs DEF StandInsEnd
    <2>3. room = NoRoom => left = <<>>
      <3>1. ~ \E i \in DOMAIN <<>> : <<>>[i] = s  OBVIOUS
      <3>. QED  BY <1>b, <3>1 DEF WithoutStandIn
    <2>. HIDE DEF left
    <2>4. /\ room' \in Stream /\ room'.opened = room.opened /\ room'.loading = room.loading
          /\ room'.pending = left
      BY <1>a, <2>1, <2>2 DEF Stream
    <2>5. room = NoRoom => room' = NoRoom
      BY <2>1, <2>3, NoRoomIs DEF NoRoom
    <2>6. PageOK'  BY <1>0, <2>1, <2>4, <2>5, RoomKeeps
    <2>7. StandInsEnd'  BY <1>a, <2>1, <2>4, StandInsSettle DEF left
    <2>. QED  BY <2>6, <2>7
  <1>8. ASSUME NEW a \in answers, AnswerArrives(a) PROVE PageOK' /\ StandInsEnd'
    <2>0. sends' = [sends EXCEPT ![a.send].st = "sent"]  BY <1>8 DEF AnswerArrives
    <2>0a. a.send \in Sends /\ a.id \in Ids /\ a.new \in BOOLEAN  BY <1>8 DEF TypeSends, AnswerArrives
    <2>1. CASE room = NoRoom
      <3>1. UNCHANGED <<room, asks, openings>>  BY <1>8, <2>1 DEF AnswerArrives
      <3>2. PageOK'  BY <1>0, <2>1, <3>1, RoomKeeps
      <3>3. StandInsEnd'  BY <1>a, <1>b, <2>0, <2>0a, <2>1, <3>1, StandInsSettle
      <3>. QED  BY <3>2, <3>3
    <2>2. CASE room # NoRoom /\ ~room.atEnd
      <3>0. Open(asks, <<>>)  BY <1>8, <2>2 DEF AnswerArrives
      <3>1. asks \in SUBSET asks /\ <<>> \in Seq(Sends)  OBVIOUS
      <3>2. PageOK' /\ room'.pending = <<>>  BY <1>0, <3>0, <3>1, OpenDoes
      <3>3. StandInsEnd'  BY <1>a, <2>0, <2>0a, <3>2, StandInsSettle
      <3>. QED  BY <3>2, <3>3
    <2>3. CASE room # NoRoom /\ room.atEnd
      <3>. DEFINE q == Merge(room, a.id, a.new)
                  left == WithoutStandIn(room.pending, a.send)
      <3>1. q \in Stream /\ q.opened = room.opened /\ q.loading = room.loading /\ q.pending = room.pending
        BY <1>a, <2>0a, MergeKeeps
      <3>2. UNCHANGED <<asks, openings>> /\ room' = [q EXCEPT !.pending = WithoutStandIn(q.pending, a.send)]
        BY <1>8, <2>3 DEF AnswerArrives
      <3>3. left \in Seq(Sends)  BY <1>a, WithoutIs DEF StandInsEnd
      <3>. HIDE DEF q, left
      <3>4. room' = [q EXCEPT !.pending = left]  BY <3>1, <3>2 DEF left
      <3>5. /\ room' \in Stream /\ room'.opened = room.opened /\ room'.loading = room.loading
            /\ room'.pending = left
        BY <3>1, <3>3, <3>4 DEF Stream
      <3>6. PageOK'  BY <1>0, <2>3, <3>2, <3>5, RoomKeeps
      <3>7. StandInsEnd'  BY <1>a, <2>0, <2>0a, <3>5, StandInsSettle DEF left
      <3>. QED  BY <3>6, <3>7
    <2>. QED  BY <2>1, <2>2, <2>3
  <1>8a. ASSUME NEW a \in answers, EditAnswered(a) PROVE PageOK' /\ StandInsEnd'
    <2>0. a.id \in Ids /\ a.new \in BOOLEAN  BY DEF TypeSends
    <2>1. UNCHANGED <<asks, openings, sends>>  BY <1>8a DEF EditAnswered
    <2>2. room' = room \/ (room # NoRoom /\ room' = Merge(room, a.id, a.new))  BY <1>8a DEF EditAnswered
    <2>3. /\ room' \in Stream /\ room'.opened = room.opened /\ room'.loading = room.loading
          /\ room'.pending = room.pending /\ (room = NoRoom => room' = NoRoom)
      BY <1>a, <2>0, <2>2, MergeKeeps
    <2>4. PageOK'  BY <1>0, <2>1, <2>3, RoomKeeps
    <2>. QED  BY <1>a, <2>1, <2>3, <2>4, StandInsKeep
  <1>9. ASSUME NEW s \in Sends, NEW n \in 1..MaxTries, TryArrives(s, n) PROVE PageOK' /\ StandInsEnd'
    BY <1>1, <1>9 DEF TryArrives, page
  <1>10. CASE OtherPosts
    BY <1>1, <1>10 DEF OtherPosts, page, sending
  <1>11. ASSUME NEW p \in posting, Commit(p) PROVE PageOK' /\ StandInsEnd'
    BY <1>1, <1>11 DEF Commit, page
  <1>12. ASSUME NEW m \in Ids, NEW op \in {"update", "edit"}, Edit(m, op) PROVE PageOK' /\ StandInsEnd'
    BY <1>1, <1>12 DEF Edit, page, sending
  <1>13. ASSUME NEW c \in untold, Publish(c) PROVE PageOK' /\ StandInsEnd'
    BY <1>1, <1>13 DEF Publish, page
  <1>14. CASE UNCHANGED vars
    BY <1>1, <1>14 DEF vars, page, sending
  <1>. QED
    BY <1>2, <1>3, <1>4, <1>5, <1>6, <1>7, <1>8, <1>8a, <1>9, <1>10, <1>11, <1>12, <1>13, <1>14
    DEF Next, Server, Network

LEMMA HInvStep == HInv /\ [Next]_vars => HInv'
  BY ServerStep, SendsStep, PageStep DEF HInv

\* A room's requests for this opening are counted as they are.
LEMMA TypesFollow == HInv => TypeOK
  <1>. SUFFICES ASSUME HInv PROVE TypeOK  OBVIOUS
  <1>1. ASSUME room # NoRoom
        PROVE  Cardinality({a \in asks : StillOpen(a)}) = IF room.loading THEN 1 ELSE 0
    <2>1. CASE room.loading
      <3>1. \E a \in asks : {b \in asks : StillOpen(b)} = {a}
        BY <1>1, <2>1 DEF HInv, PageOK, AskOK
      <3>. QED  BY <2>1, <3>1, FS_Singleton
    <2>2. CASE ~room.loading
      <3>1. {b \in asks : StillOpen(b)} = {}
        BY <1>1, <2>2 DEF HInv, PageOK, AskOK
      <3>. QED  BY <2>2, <3>1, FS_EmptySet
    <2>. QED  BY <2>1, <2>2
  <1>. QED  BY <1>1 DEF HInv, ServerOK, TypeServer, TypeSends, PageOK, TypePage, TypeOK

\* The types hold, and a room loads exactly while one request for this opening
\* of it is out: for any sizes, of fetchPage, fetchWindow, loadOlder, loadNewer
\* and every way to open a room again.
THEOREM RoomTypes == Spec => []TypeOK
  <1>1. Spec => []HInv  BY HInvInit, HInvStep, PTL DEF Spec
  <1>. QED  BY <1>1, TypesFollow, PTL

\* Every stand-in ends with its send (sendMessage, clearStandIn, apply).
THEOREM EveryStandInEnds == Spec => []StandInsEnd
  <1>1. Spec => []HInv  BY HInvInit, HInvStep, PTL DEF Spec
  <1>2. HInv => StandInsEnd  BY DEF HInv
  <1>. QED  BY <1>1, <1>2, PTL

\* However often a send is tried, one message is saved for it: the key is looked
\* for again inside the transaction (check_in of repo/nonces.rs).
THEOREM OneMessage == Spec => []PostedOnce
  <1>1. Spec => []HInv  BY HInvInit, HInvStep, PTL DEF Spec
  <1>2. HInv => PostedOnce
    <2>. SUFFICES ASSUME HInv, NEW s \in Sends
                  PROVE  Cardinality({m \in saved : by[m] = s}) <= 1
      BY DEF PostedOnce
    <2>1. \A m \in saved : by[m] = s => m = keyed[s]
      BY SizesAssumption DEF HInv, ServerOK, KeyOK
    <2>2. {m \in saved : by[m] = s} \in SUBSET {keyed[s]}  BY <2>1
    <2>3. IsFiniteSet({keyed[s]}) /\ Cardinality({keyed[s]}) = 1  BY FS_Singleton
    <2>. QED  BY <2>2, <2>3, FS_Subset
  <1>. QED  BY <1>1, <1>2, PTL

-----------------------------------------------------------------------------
(* The gaps.  What a room holds is a stretch: a message that counts and is  *)
(* not in it lies outside, or its frame is still to come.  So does what its *)
(* one open request was answered with, of the part it was asked for.        *)

(* Committed, counted by `newest`, and lost sight of by nothing. *)
Counted == {m \in saved \ late : ~QuietLine(m)}

Create(i, m) == feed[i].op = "create" /\ feed[i].id = m

(* The page knows of what is committed. *)
KnownOK ==
  /\ room.held \subseteq saved
  /\ \A a \in asks : a.got.ids \subseteq saved
  /\ \A a \in answers : a.id \in saved
  /\ \A s \in Sends : keyed[s] # 0 => keyed[s] \in saved

(* Of two posts, the later is not published, and its frame not folded, first. *)
OrderOK ==
  /\ \A m \in saved, x \in Counted : m < x /\ Unpublished(m) => Unpublished(x)
  /\ \A i \in DOMAIN feed, x \in Counted :
       feed[i].op = "create" /\ feed[i].id < x =>
         Unpublished(x) \/ \E j \in DOMAIN feed : j > i /\ Create(j, x)

(* The newest message heard of is past everything whose frame is gone. *)
HeardOK == \A m \in saved : ~QuietLine(m) /\ ~Coming(m) => m <= newest

(* What a room does not hold of what it says it holds. *)
Sees(r) ==
  \A x \in Counted \ r.held :
    r.atStart \/ (\E o \in r.held : o < x) =>
      IF r.atEnd THEN Coming(x) ELSE \A o \in r.held : o < x

(* The answer to each kind of request: what it leaves out. *)
NewestAsk(a) ==
  /\ room.atEnd
  /\ a.got.read =>
       \A x \in Counted \ (a.got.ids \cup room.held) :
         Cardinality(a.got.ids) < PageSize \/ (\E o \in a.got.ids : o < x) => Coming(x)

OlderAsk(a) ==
  /\ a.from \in saved
  /\ a.got.read =>
       /\ \A o \in a.got.ids : o < a.from
       /\ \A x \in Counted \ a.got.ids :
            x < a.from => ~(Cardinality(a.got.ids) < PageSize) /\ \A o \in a.got.ids : x < o

WindowAsk(a) ==
  /\ ~room.atEnd
  /\ a.from \in saved
  /\ a.got.read =>
       /\ a.from \in a.got.ids
       /\ \A x \in Counted \ a.got.ids :
            /\ x < a.from => /\ ~(Cardinality({m \in a.got.ids : m <= a.from}) < WindowOlder)
                             /\ \A o \in a.got.ids : x < o
            /\ x > a.from => \A o \in a.got.ids : o < x

Sight(a) ==
  IF a.kind # "page" THEN WindowAsk(a) ELSE IF a.from = 0 THEN NewestAsk(a) ELSE OlderAsk(a)

AsksOK == \A a \in asks : StillOpen(a) => Sight(a)

(* A room that holds nothing holds all there is, or is on its way. *)
SomethingOK ==
  /\ room.loaded => room.held # {} \/ room.atStart
  /\ room.opened # 0 /\ room.held = {} /\ ~room.atStart /\ ~room.atEnd =>
       \E a \in asks : StillOpen(a) /\ a.kind = "around"

GapInv == KnownOK /\ OrderOK /\ HeardOK /\ Sees(room) /\ AsksOK /\ SomethingOK

(* What a step leaves to the page: a message that counts did so before, and  *)
(* if its frame was to come it still is, or it was folded; or it is newer    *)
(* than all there was, and its frame is to come.                             *)
Later ==
  /\ saved \subseteq saved'
  /\ \A x \in Counted' :
       \/ x \in Counted /\ (room.atEnd /\ Coming(x) => Coming(x)' \/ x \in room'.held)
       \/ Coming(x)' /\ \A m \in saved : m < x

-----------------------------------------------------------------------------
(* The ends of a set of ids *)

\* What the n largest leave out is below them, and they are n at least.
LEMMA LargestIs ==
  ASSUME NEW n \in Nat, NEW b \in Nat, NEW S \in SUBSET (0..b), NEW x \in S, x \notin Largest(n, S)
  PROVE  /\ \A o \in Largest(n, S) : x < o
         /\ ~(Cardinality(Largest(n, S)) < n)
  <1>. DEFINE Above(m) == {o \in S : o > m}
  <1>0. IsFiniteSet(S) /\ S \subseteq Nat
    <2>1. IsFiniteSet(0..b)  BY FS_Interval, b \in Int, 0 \in Int
    <2>2. S \subseteq Nat  OBVIOUS
    <2>. QED  BY <2>1, <2>2, FS_Subset
  <1>1. \A m : IsFiniteSet(Above(m)) /\ Cardinality(Above(m)) \in Nat
    <2>. SUFFICES ASSUME NEW m PROVE IsFiniteSet(Above(m)) /\ Cardinality(Above(m)) \in Nat  OBVIOUS
    <2>1. IsFiniteSet(Above(m))  BY <1>0, FS_Subset
    <2>. QED  BY <2>1, FS_CardinalityType
  <1>2. \A m \in S : m \in Largest(n, S) <=> Cardinality(Above(m)) < n  BY DEF Largest
  <1>3. ASSUME NEW o \in Largest(n, S) PROVE x < o
    <2>. SUFFICES ASSUME ~(x < o) PROVE FALSE  OBVIOUS
    <2>1. o \in S  BY DEF Largest
    <2>2. o <= x /\ o \in Nat /\ x \in Nat  BY <1>0, <2>1
    <2>3. Above(x) \subseteq Above(o)
      <3>1. \A p \in S : p > x => p > o  BY <1>0, <2>2
      <3>. QED  BY <3>1
    <2>4. Cardinality(Above(x)) <= Cardinality(Above(o))  BY <1>1, <2>3, FS_Subset
    <2>5. Cardinality(Above(o)) < n /\ ~(Cardinality(Above(x)) < n)  BY <1>2, <2>1
    <2>. HIDE DEF Above
    <2>. QED  BY <1>1, <2>4, <2>5
  <1>4. ~(Cardinality(Largest(n, S)) < n)
    <2>. DEFINE T == S \ Largest(n, S)
    <2>1. T \in SUBSET Nat /\ T # {} /\ \A y \in T : y <= b
      <3>1. \A y \in S : y \in Nat /\ y <= b  OBVIOUS
      <3>. QED  BY <3>1
    <2>2. PICK y \in T : \A z \in T : y >= z  BY <2>1, MaxIn
    <2>3. Above(y) \subseteq Largest(n, S)
      <3>. SUFFICES ASSUME NEW o \in Above(y), o \in T PROVE FALSE  OBVIOUS
      <3>1. y >= o /\ o > y /\ o \in Nat /\ y \in Nat  BY <2>1, <2>2
      <3>. QED  BY <3>1
    <2>4. IsFiniteSet(Largest(n, S))  BY <1>0, FS_Subset DEF Largest
    <2>5. Cardinality(Above(y)) <= Cardinality(Largest(n, S))  BY <2>3, <2>4, FS_Subset
    <2>6. ~(Cardinality(Above(y)) < n)  BY <1>2
    <2>7. Cardinality(Largest(n, S)) \in Nat  BY <2>4, FS_CardinalityType
    <2>. HIDE DEF Above
    <2>. QED  BY <1>1, <2>5, <2>6, <2>7
  <1>. QED  BY <1>3, <1>4

\* What the n smallest leave out is above them.
LEMMA SmallestIs ==
  ASSUME NEW n \in Nat, NEW b \in Nat, NEW S \in SUBSET (0..b), NEW x \in S, x \notin Smallest(n, S),
         NEW o \in Smallest(n, S)
  PROVE  o < x
  <1>. DEFINE Below(m) == {p \in S : p < m}
  <1>. SUFFICES ASSUME ~(o < x) PROVE FALSE  OBVIOUS
  <1>0. IsFiniteSet(S) /\ S \subseteq Nat
    <2>1. IsFiniteSet(0..b)  BY FS_Interval, b \in Int, 0 \in Int
    <2>2. S \subseteq Nat  OBVIOUS
    <2>. QED  BY <2>1, <2>2, FS_Subset
  <1>1. o \in S /\ Cardinality(Below(o)) < n /\ ~(Cardinality(Below(x)) < n)  BY DEF Smallest
  <1>2. Below(x) \subseteq Below(o) /\ IsFiniteSet(Below(o)) /\ IsFiniteSet(Below(x))
    <2>1. x <= o /\ o \in Nat /\ x \in Nat  BY <1>0, <1>1
    <2>2. Below(x) \subseteq Below(o)
      <3>1. \A p \in S : p < x => p < o  BY <1>0, <2>1
      <3>. QED  BY <3>1
    <2>. QED  BY <1>0, <2>2, FS_Subset
  <1>3. Cardinality(Below(x)) <= Cardinality(Below(o))  BY <1>2, FS_Subset
  <1>4. Cardinality(Below(x)) \in Nat /\ Cardinality(Below(o)) \in Nat  BY <1>2, FS_CardinalityType
  <1>. HIDE DEF Below
  <1>. QED  BY <1>1, <1>3, <1>4

\* The largest is among the n largest.
LEMMA LargestHas ==
  ASSUME NEW n \in Nat \ {0}, NEW S, NEW x \in S, \A o \in S : ~(o > x)
  PROVE  x \in Largest(n, S)
  <1>1. {o \in S : o > x} = {}  OBVIOUS
  <1>. QED  BY <1>1, FS_EmptySet DEF Largest

-----------------------------------------------------------------------------
(* What the server's steps leave to the page *)

\* The ids committed are numbers, and ids.
LEMMA SavedIs ==
  ASSUME ServerOK
  PROVE  /\ saved \subseteq Nat /\ saved \subseteq Ids /\ saved \subseteq 1..minted
         /\ minted \in Nat /\ MaxMsgs \in Nat /\ feed \in Seq(Frame)
  BY SizesAssumption DEF ServerOK, TypeServer, Ids

\* Nothing is committed or told: what counts, and what is to come, are as they were.
LEMMA SavedStays ==
  ASSUME ServerOK, UNCHANGED <<saved, feed>>, late \subseteq late', \A m \in saved : by'[m] = by[m],
         \A m : Unpublished(m)' <=> Unpublished(m)
  PROVE  /\ Counted' \subseteq Counted
         /\ \A m : Coming(m)' <=> Coming(m)
         /\ OrderOK => OrderOK'
         /\ HeardOK /\ newest' = newest => HeardOK'
         /\ Later
  <1>1. \A m \in saved : QuietLine(m)' <=> QuietLine(m)  BY DEF QuietLine
  <1>2. Counted' \subseteq Counted  BY <1>1 DEF Counted
  <1>3. \A m : Coming(m)' <=> Coming(m)  BY DEF Coming
  <1>4. OrderOK => OrderOK'  BY <1>2 DEF OrderOK, Create
  <1>5. HeardOK /\ newest' = newest => HeardOK'  BY <1>1, <1>3 DEF HeardOK
  <1>6. Later  BY <1>2, <1>3 DEF Later
  <1>. QED  BY <1>2, <1>3, <1>4, <1>5, <1>6

\* A post begun changes nothing of those committed.
LEMMA MintLater ==
  ASSUME ServerOK, NEW who, NEW n, Mint(who, n), UNCHANGED <<saved, untold, feed, late>>
  PROVE  (\A m \in saved : by'[m] = by[m]) /\ (\A m : Unpublished(m)' <=> Unpublished(m))
  <1>1. minted + 1 \notin saved /\ by' = [by EXCEPT ![minted + 1] = who]  BY SavedIs DEF Mint
  <1>2. by \in [Ids -> Sends \cup {Other}] /\ saved \subseteq Ids  BY SavedIs DEF ServerOK, TypeServer
  <1>. QED  BY <1>1, <1>2 DEF Unpublished

\* A message committed: it is newer than all there was, or it is late.
LEMMA CommitLater ==
  ASSUME ServerOK, KnownOK, OrderOK, HeardOK, NEW p \in posting, Commit(p), UNCHANGED <<newest, room, asks>>
  PROVE  OrderOK' /\ HeardOK' /\ Later /\ KnownOK'
  <1>0. p.id \in Ids /\ p.id \in Nat /\ p.id \notin saved /\ by[p.id] \in Sends \cup {Other}
        /\ p.try \in 0..MaxTries
    BY SizesAssumption DEF ServerOK, TypeServer, KeyOK, Ids
  <1>a. UNCHANGED <<by, feed>>  BY DEF Commit
  <1>1. CASE AlreadyPosted(p)
    <2>1. UNCHANGED <<saved, keyed, untold, late>> /\ AnswerTo(by[p.id], p.try, keyed[by[p.id]])
      BY <1>1 DEF Commit
    <2>2. OrderOK' /\ HeardOK' /\ Later  BY <2>1, <1>a, SavedStays DEF Unpublished
    <2>3. by[p.id] \in Sends /\ keyed[by[p.id]] \in saved  BY <1>0, <1>1 DEF AlreadyPosted, KnownOK
    <2>4. \A a \in answers' : a.id \in saved  BY <2>1, <2>3 DEF AnswerTo, Answer, KnownOK
    <2>. QED  BY <2>1, <2>2, <2>4 DEF KnownOK
  <1>2. CASE ~AlreadyPosted(p)
    <2>. DEFINE c == [op |-> "create", id |-> p.id, try |-> p.try]
                passed == {m \in saved : m > p.id}
    <2>1. /\ saved' = saved \cup {p.id} /\ untold' = untold \cup {c} /\ answers' = answers
          /\ keyed' = IF by[p.id] = Other THEN keyed ELSE [keyed EXCEPT ![by[p.id]] = p.id]
          /\ late' = IF passed # {} THEN late \cup passed \cup {p.id} ELSE late
      BY <1>2 DEF Commit
    <2>2. \A m : Unpublished(m)' <=> Unpublished(m) \/ m = p.id
      <3>1. c.op = "create" /\ c.id = p.id  OBVIOUS
      <3>2. \A d : d \in untold' <=> d \in untold \/ d = c  BY <2>1
      <3>. HIDE DEF c
      <3>. QED  BY <3>1, <3>2 DEF Unpublished
    <2>3. \A m : Coming(m)' <=> Coming(m) \/ m = p.id  BY <2>2, <1>a DEF Coming
    <2>4. \A m \in saved' : QuietLine(m)' <=> QuietLine(m)  BY <1>a DEF QuietLine
    <2>5. \A x \in Counted' : x \in Counted \/ (x = p.id /\ \A m \in saved : m < x)
      <3>. SUFFICES ASSUME NEW x \in Counted', x \notin Counted
                    PROVE  x = p.id /\ \A m \in saved : m < x
        OBVIOUS
      <3>1. x = p.id /\ x \notin late'  BY <2>1, <2>4 DEF Counted
      <3>2. passed = {}  BY <2>1, <3>1
      <3>3. \A m \in saved : m < p.id  BY <3>2, <1>0, SavedIs
      <3>. QED  BY <3>1, <3>3
    <2>6. \A x \in Counted' \cap Counted : x < p.id
      <3>. SUFFICES ASSUME NEW x \in Counted', x \in Counted, ~(x < p.id) PROVE FALSE  OBVIOUS
      <3>1. x \in saved /\ x > p.id  BY <1>0, SavedIs DEF Counted
      <3>2. x \in late'  BY <2>1, <3>1
      <3>. QED  BY <3>2 DEF Counted
    <2>7. OrderOK'
      <3>1. ASSUME NEW m \in saved', NEW x \in Counted', m < x, Unpublished(m)' PROVE Unpublished(x)'
        <4>1. CASE x = p.id  BY <4>1, <2>2
        <4>2. CASE x # p.id
          <5>1. x \in Counted /\ x < p.id  BY <4>2, <2>5, <2>6
          <5>2. x \in Nat /\ m # p.id  BY <5>1, <3>1, <1>0, SavedIs DEF Counted
          <5>3. m \in saved /\ Unpublished(m)  BY <5>2, <3>1, <2>1, <2>2
          <5>. QED  BY <5>1, <5>3, <3>1, <2>2 DEF OrderOK
        <4>. QED  BY <4>1, <4>2
      <3>2. ASSUME NEW i \in DOMAIN feed, NEW x \in Counted', feed[i].op = "create", feed[i].id < x
            PROVE  Unpublished(x)' \/ \E j \in DOMAIN feed : j > i /\ Create(j, x)
        <4>1. CASE x = p.id  BY <4>1, <2>2
        <4>2. CASE x # p.id  BY <4>2, <2>2, <2>5, <3>2 DEF OrderOK
        <4>. QED  BY <4>1, <4>2
      <3>. QED  BY <3>1, <3>2, <1>a DEF OrderOK, Create
    <2>8. HeardOK'  BY <2>1, <2>3, <2>4 DEF HeardOK
    <2>9. Later  BY <2>1, <2>3, <2>5 DEF Later
    <2>10. KnownOK'
      <3>1. \A s \in Sends : keyed'[s] # 0 => keyed'[s] \in saved'
        BY <2>1 DEF KnownOK, ServerOK, TypeServer
      <3>. QED  BY <2>1, <3>1 DEF KnownOK
    <2>. QED  BY <2>7, <2>8, <2>9, <2>10
  <1>. QED  BY <1>1, <1>2

\* A frame published: those before it are, or it is late.
LEMMA PublishLater ==
  ASSUME ServerOK, KnownOK, OrderOK, HeardOK, NEW c \in untold, Publish(c), UNCHANGED <<newest, room, asks>>
  PROVE  OrderOK' /\ HeardOK' /\ Later /\ KnownOK'
  <1>. DEFINE f == [op |-> IF c.op = "create" THEN "create" ELSE "update", id |-> c.id, new |-> c.id \in edited]
              passed == {m \in saved : m < c.id /\ Unpublished(m)}
              n == Len(feed)
  <1>0. /\ untold' = untold \ {c} /\ feed' = Append(feed, f) /\ UNCHANGED <<by, saved, keyed>>
        /\ late' = IF c.op = "create" /\ passed # {} THEN late \cup passed \cup {c.id} ELSE late
        /\ \A a \in answers' : a \in answers \/ a.id = c.id
    BY DEF Publish, AnswerTo, Answer
  <1>1. c.id \in saved /\ c \in Change  BY DEF ServerOK, ToldOK, TypeServer
  <1>2. f \in Frame /\ f.id = c.id /\ (f.op = "create" <=> c.op = "create")
    BY <1>1, SavedIs DEF Frame
  <1>. HIDE DEF f
  <1>3. /\ n \in Nat /\ DOMAIN feed = 1..n /\ DOMAIN feed' = 1..n + 1
        /\ feed'[n + 1] = f /\ \A i \in 1..n : feed'[i] = feed[i]
    BY <1>0, <1>2, SavedIs
  <1>. HIDE DEF n
  <1>4. \A i \in DOMAIN feed : i \in DOMAIN feed' /\ feed'[i] = feed[i] /\ i < n + 1
    BY <1>3
  <1>4a. n + 1 \in DOMAIN feed'  BY <1>3
  <1>5. \A m : Unpublished(m)' => Unpublished(m)  BY <1>0 DEF Unpublished
  <1>6. \A m : Unpublished(m) => Unpublished(m)' \/ (c.op = "create" /\ m = c.id)
    BY <1>0 DEF Unpublished
  <1>7. \A m : Coming(m) => Coming(m)'
    <2>. SUFFICES ASSUME NEW m, Coming(m) PROVE Coming(m)'  OBVIOUS
    <2>1. CASE Unpublished(m)'  BY <2>1 DEF Coming
    <2>2. CASE c.op = "create" /\ m = c.id  BY <2>2, <1>2, <1>3, <1>4a DEF Coming
    <2>3. CASE \E i \in DOMAIN feed : feed[i].op = "create" /\ feed[i].id = m
      BY <2>3, <1>4 DEF Coming
    <2>. QED  BY <2>1, <2>2, <2>3, <1>6 DEF Coming
  <1>8. \A m \in saved : QuietLine(m)' <=> QuietLine(m)  BY <1>0 DEF QuietLine
  <1>9. Counted' \subseteq Counted  BY <1>0, <1>8 DEF Counted
  <1>10. Counted' \subseteq saved  BY <1>0 DEF Counted
  <1>11. OrderOK'
    <2>1. ASSUME NEW m \in saved, NEW x \in Counted', m < x, Unpublished(m)' PROVE Unpublished(x)'
      <3>1. Unpublished(m) /\ Unpublished(x)  BY <2>1, <1>5, <1>9 DEF OrderOK
      <3>2. ASSUME c.op = "create", x = c.id PROVE FALSE
        <4>1. m \in passed  BY <2>1, <3>1, <3>2
        <4>2. x \in late'  BY <4>1, <3>2, <1>0
        <4>. QED  BY <4>2 DEF Counted
      <3>. QED  BY <3>1, <3>2, <1>6
    <2>2. ASSUME NEW i \in DOMAIN feed', NEW x \in Counted', feed'[i].op = "create", feed'[i].id < x
          PROVE  Unpublished(x)' \/ \E j \in DOMAIN feed' : j > i /\ feed'[j].op = "create" /\ feed'[j].id = x
      <3>1. CASE i \in DOMAIN feed
        <4>1. Unpublished(x) \/ \E j \in DOMAIN feed : j > i /\ Create(j, x)
          BY <2>2, <3>1, <1>4, <1>9 DEF OrderOK
        <4>2. CASE Unpublished(x)
          <5>1. CASE Unpublished(x)'  BY <5>1
          <5>2. CASE c.op = "create" /\ x = c.id  BY <5>2, <3>1, <1>2, <1>3, <1>4, <1>4a
          <5>. QED  BY <4>2, <5>1, <5>2, <1>6
        <4>3. CASE \E j \in DOMAIN feed : j > i /\ Create(j, x)  BY <4>3, <1>4 DEF Create
        <4>. QED  BY <4>1, <4>2, <4>3
      <3>2. CASE i = n + 1
        <4>1. c.op = "create" /\ c.id < x  BY <2>2, <3>2, <1>2, <1>3
        <4>2. Unpublished(c.id)  BY <4>1 DEF Unpublished
        <4>3. Unpublished(x)  BY <4>1, <4>2, <1>1, <1>9 DEF OrderOK
        <4>4. x # c.id  BY <4>1, <1>1, <1>10, SavedIs
        <4>. QED  BY <4>3, <4>4, <1>6
      <3>. QED  BY <3>1, <3>2, <1>3
    <2>. QED  BY <2>1, <2>2, <1>0 DEF OrderOK, Create
  <1>12. HeardOK'  BY <1>0, <1>7, <1>8 DEF HeardOK
  <1>13. Later  BY <1>0, <1>7, <1>9 DEF Later
  <1>14. KnownOK'  BY <1>0, <1>1 DEF KnownOK
  <1>. QED  BY <1>11, <1>12, <1>13, <1>14

\* A post begun, committed or told, or an edit: the page has nothing of it yet.
LEMMA ServerLater ==
  ASSUME ServerOK, KnownOK, OrderOK, HeardOK, Server, ~ \E a \in asks : ReadPage(a)
  PROVE  OrderOK' /\ HeardOK' /\ Later /\ KnownOK' /\ UNCHANGED <<newest, room, openings, asks>>
  <1>1. CASE OtherPosts
    <2>1. Mint(Other, 0) /\ UNCHANGED <<saved, keyed, untold, feed, late, newest, room, openings, asks, answers>>
      BY <1>1 DEF OtherPosts, page, sending
    <2>2. (\A m \in saved : by'[m] = by[m]) /\ (\A m : Unpublished(m)' <=> Unpublished(m))
      BY <2>1, MintLater
    <2>3. OrderOK' /\ HeardOK' /\ Later  BY <2>1, <2>2, SavedStays
    <2>. QED  BY <2>1, <2>3 DEF KnownOK
  <1>2. ASSUME NEW s \in Sends, NEW n \in 1..MaxTries, TryArrives(s, n)
        PROVE  OrderOK' /\ HeardOK' /\ Later /\ KnownOK' /\ UNCHANGED <<newest, room, openings, asks>>
    <2>1. UNCHANGED <<saved, keyed, untold, feed, late, newest, room, openings, asks>>
      BY <1>2 DEF TryArrives, page
    <2>2. (\A m \in saved : by'[m] = by[m]) /\ (\A m : Unpublished(m)' <=> Unpublished(m))
      BY <1>2, <2>1, MintLater DEF TryArrives, Unpublished
    <2>3. OrderOK' /\ HeardOK' /\ Later  BY <2>1, <2>2, SavedStays
    <2>4. \A a \in answers' : a.id \in saved
      BY <1>2 DEF TryArrives, AnswerTo, Answer, KnownOK
    <2>. QED  BY <2>1, <2>3, <2>4 DEF KnownOK
  <1>3. ASSUME NEW p \in posting, Commit(p)
        PROVE  OrderOK' /\ HeardOK' /\ Later /\ KnownOK' /\ UNCHANGED <<newest, room, openings, asks>>
    <2>1. UNCHANGED <<newest, room, openings, asks>>  BY <1>3 DEF Commit, page
    <2>. QED  BY <1>3, <2>1, CommitLater
  <1>4. ASSUME NEW m \in Ids, NEW op \in {"update", "edit"}, Edit(m, op)
        PROVE  OrderOK' /\ HeardOK' /\ Later /\ KnownOK' /\ UNCHANGED <<newest, room, openings, asks>>
    <2>1. /\ untold' = untold \cup {[op |-> op, id |-> m, try |-> 0]}
          /\ UNCHANGED <<by, saved, keyed, feed, late, newest, room, openings, asks, answers>>
      BY <1>4 DEF Edit, page, sending
    <2>2. \A o : Unpublished(o)' <=> Unpublished(o)  BY <2>1 DEF Unpublished
    <2>3. OrderOK' /\ HeardOK' /\ Later  BY <2>1, <2>2, SavedStays
    <2>. QED  BY <2>1, <2>3 DEF KnownOK
  <1>5. ASSUME NEW c \in untold, Publish(c)
        PROVE  OrderOK' /\ HeardOK' /\ Later /\ KnownOK' /\ UNCHANGED <<newest, room, openings, asks>>
    <2>1. UNCHANGED <<newest, room, openings, asks>>  BY <1>5 DEF Publish, page
    <2>. QED  BY <1>5, <2>1, PublishLater
  <1>. QED  BY <1>1, <1>2, <1>3, <1>4, <1>5 DEF Server

-----------------------------------------------------------------------------
(* What keeps a room's stretch whole *)

\* Those committed by a step are numbers too.
LEMMA SavedLaterIs ==
  ASSUME ServerOK'
  PROVE  Counted' \subseteq Nat
  <1>1. saved' \subseteq Nat  BY DEF ServerOK, TypeServer
  <1>. QED  BY <1>1 DEF Counted

\* What a request was answered with leaves out no more than it did.
LEMMA SightStays ==
  ASSUME ServerOK, ServerOK', KnownOK, Later, NEW b \in asks, Sight(b),
         room.held \subseteq room'.held, room'.atEnd = room.atEnd
  PROVE  Sight(b)'
  <1>0. b.got.ids \subseteq saved /\ saved \subseteq Nat /\ saved \subseteq saved'
    BY SavedIs DEF KnownOK, Later
  <1>1. \A x \in Counted' : x \in Counted \/ (Coming(x)' /\ \A m \in saved : m < x)  BY DEF Later
  <1>2. CASE b.kind # "page"
    <2>1. WindowAsk(b)  BY <1>2 DEF Sight
    <2>2. ASSUME b.got.read, NEW x \in Counted' \ b.got.ids
          PROVE  /\ x < b.from => /\ ~(Cardinality({m \in b.got.ids : m <= b.from}) < WindowOlder)
                                  /\ \A o \in b.got.ids : x < o
                 /\ x > b.from => \A o \in b.got.ids : o < x
      <3>1. CASE x \in Counted  BY <2>1, <2>2, <3>1 DEF WindowAsk
      <3>2. CASE \A m \in saved : m < x
        <4>1. x \in Nat /\ b.from \in saved  BY <2>1, <2>2, SavedLaterIs DEF WindowAsk
        <4>2. b.from \in Nat /\ b.from < x  BY <1>0, <3>2, <4>1
        <4>3. ~(x < b.from)  BY ONLY <4>1, <4>2
        <4>4. \A o \in b.got.ids : o < x  BY <1>0, <3>2
        <4>. QED  BY <4>3, <4>4
      <3>. QED  BY <1>1, <3>1, <3>2
    <2>3. WindowAsk(b)'  BY <1>0, <2>1, <2>2 DEF WindowAsk
    <2>. QED  BY <1>2, <2>3 DEF Sight
  <1>3. CASE b.kind = "page" /\ b.from = 0
    <2>1. NewestAsk(b)  BY <1>3 DEF Sight
    <2>2. ASSUME b.got.read, NEW x \in Counted' \ (b.got.ids \cup room'.held),
                 Cardinality(b.got.ids) < PageSize \/ \E o \in b.got.ids : o < x
          PROVE  Coming(x)'
      <3>1. CASE x \in Counted /\ (room.atEnd /\ Coming(x) => Coming(x)' \/ x \in room'.held)
        <4>1. x \notin b.got.ids \cup room.held  BY <2>2
        <4>. QED  BY <2>1, <2>2, <3>1, <4>1 DEF NewestAsk
      <3>. QED  BY <2>2, <3>1 DEF Later
    <2>3. NewestAsk(b)'  BY <2>1, <2>2 DEF NewestAsk
    <2>. QED  BY <1>3, <2>3 DEF Sight
  <1>4. CASE b.kind = "page" /\ b.from # 0
    <2>1. OlderAsk(b)  BY <1>4 DEF Sight
    <2>2. ASSUME b.got.read, NEW x \in Counted' \ b.got.ids, x < b.from
          PROVE  ~(Cardinality(b.got.ids) < PageSize) /\ \A o \in b.got.ids : x < o
      <3>1. CASE x \in Counted  BY <2>1, <2>2, <3>1 DEF OlderAsk
      <3>2. CASE \A m \in saved : m < x
        <4>1. x \in Nat /\ b.from \in saved  BY <2>1, <2>2, SavedLaterIs DEF OlderAsk
        <4>2. b.from \in Nat /\ b.from < x  BY <1>0, <3>2, <4>1
        <4>3. ~(x < b.from)  BY ONLY <4>1, <4>2
        <4>. QED  BY <2>2, <4>3
      <3>. QED  BY <1>1, <3>1, <3>2
    <2>3. OlderAsk(b)'  BY <1>0, <2>1, <2>2 DEF OlderAsk
    <2>. QED  BY <1>4, <2>3 DEF Sight
  <1>. QED  BY <1>2, <1>3, <1>4

\* A request that is open was open, and its room is one.
LEMMA OpenStays ==
  ASSUME PageOK, NEW b \in asks, room' = NoRoom \/ room'.opened = room.opened, StillOpen(b)'
  PROVE  StillOpen(b) /\ room # NoRoom /\ room'.opened = room.opened
  <1>1. b.opened \in 1..openings /\ openings \in Nat  BY DEF PageOK, OpenOK, TypePage
  <1>2. room' # NoRoom /\ room'.opened = b.opened  BY DEF StillOpen
  <1>3. room # NoRoom  BY <1>1, <1>2, NoRoomIs
  <1>. QED  BY <1>2, <1>3 DEF StillOpen

\* The same requests, answered as they were.
LEMMA AsksStay ==
  ASSUME ServerOK, ServerOK', PageOK, KnownOK, AsksOK, Later, asks' \subseteq asks,
         \/ room' = NoRoom
         \/ room'.opened = room.opened /\ room.held \subseteq room'.held /\ room'.atEnd = room.atEnd
  PROVE  AsksOK'
  <1>. SUFFICES ASSUME NEW b \in asks', StillOpen(b)' PROVE Sight(b)'  BY DEF AsksOK
  <1>1. b \in asks /\ StillOpen(b) /\ room' # NoRoom  BY OpenStays DEF StillOpen
  <1>2. Sight(b)  BY <1>1 DEF AsksOK
  <1>. QED  BY <1>1, <1>2, SightStays

\* A room let go of.
LEMMA RoomGone ==
  ASSUME ServerOK, ServerOK', PageOK, KnownOK, AsksOK, Later, UNCHANGED asks, room' = NoRoom
  PROVE  Sees(room)' /\ AsksOK' /\ SomethingOK'
  <1>1. AsksOK'  BY AsksStay
  <1>2. Sees(room)'  BY DEF Sees, NoRoom
  <1>3. SomethingOK'  BY DEF SomethingOK, NoRoom
  <1>. QED  BY <1>1, <1>2, <1>3

\* A room that changes nothing of its stretch, or takes in messages that
\* everything missing above is still to follow.
LEMMA RoomGrows ==
  ASSUME ServerOK, ServerOK', PageOK, KnownOK, Sees(room), AsksOK, SomethingOK, Later, UNCHANGED asks,
         room'.opened = room.opened, room.held \subseteq room'.held, room'.atStart = room.atStart,
         room'.atEnd = room.atEnd, room'.loaded = room.loaded,
         \A o \in room'.held \ room.held, x \in Counted' \ room'.held : room.atEnd /\ (o < x => Coming(x)')
  PROVE  Sees(room)' /\ AsksOK' /\ SomethingOK'
  <1>1. AsksOK'  BY AsksStay
  <1>2. Sees(room)'
    <2>. SUFFICES ASSUME NEW x \in Counted' \ room'.held, room'.atStart \/ \E o \in room'.held : o < x
                  PROVE  IF room'.atEnd THEN Coming(x)' ELSE \A o \in room'.held : o < x
      BY DEF Sees
    <2>1. CASE \E o \in room'.held \ room.held : o < x  BY <2>1
    <2>2. CASE x \in Counted /\ (room.atStart \/ \E o \in room.held : o < x)
      <3>1. IF room.atEnd THEN Coming(x) ELSE \A o \in room.held : o < x  BY <2>2 DEF Sees
      <3>2. CASE room.atEnd
        <4>1. \/ Coming(x)' \/ x \in room'.held
              \/ \A m \in saved : m < x
          BY <3>1, <3>2 DEF Later
        <4>2. (\A m \in saved : m < x) => x \notin saved  BY SavedIs
        <4>3. x \in saved  BY <2>2 DEF Counted
        <4>. QED  BY <3>2, <4>1, <4>2, <4>3
      <3>3. CASE ~room.atEnd  BY <3>1, <3>3
      <3>. QED  BY <3>2, <3>3
    <2>3. CASE x \notin Counted
      <3>1. Coming(x)' /\ \A m \in saved : m < x  BY <2>3 DEF Later
      <3>2. \A o \in room.held : o < x  BY <3>1 DEF KnownOK
      <3>. QED  BY <3>1, <3>2
    <2>. QED  BY <2>1, <2>2, <2>3
  <1>3. SomethingOK'
    <2>1. room'.loaded => room'.held # {} \/ room'.atStart  BY DEF SomethingOK
    <2>2. ASSUME room'.opened # 0, room'.held = {}, ~room'.atStart, ~room'.atEnd
          PROVE  \E a \in asks' : StillOpen(a)' /\ a.kind = "around"
      <3>1. PICK a \in asks : StillOpen(a) /\ a.kind = "around"  BY <2>2 DEF SomethingOK
      <3>2. room' # NoRoom  BY <2>2, NoRoomIs
      <3>. QED  BY <3>1, <3>2 DEF StillOpen
    <2>. QED  BY <2>1, <2>2 DEF SomethingOK
  <1>. QED  BY <1>1, <1>2, <1>3

\* An opening: nothing held, and a request of its own, not answered yet.
LEMMA RoomOpens ==
  ASSUME PageOK, NEW others \in SUBSET asks, NEW k, asks' = others \cup {k}, ~k.got.read,
         k.opened = openings + 1, room'.opened = openings + 1,
         room'.held = {}, ~room'.atStart, ~room'.loaded,
         \/ k.kind = "page" /\ k.from = 0 /\ room'.atEnd
         \/ k.kind = "around" /\ k.from \in saved' /\ ~room'.atEnd
  PROVE  Sees(room)' /\ AsksOK' /\ SomethingOK'
  <1>0. openings \in Nat /\ \A a \in others : a.opened # openings + 1  BY DEF PageOK, TypePage, OpenOK
  <1>1. Sees(room)'  BY DEF Sees
  <1>2. Sight(k)'  BY DEF Sight, NewestAsk, WindowAsk
  <1>3. \A b \in asks' : StillOpen(b)' => b = k  BY <1>0 DEF StillOpen
  <1>4. room' # NoRoom  BY <1>0, NoRoomIs
  <1>5. SomethingOK'  BY <1>4 DEF SomethingOK, StillOpen
  <1>. QED  BY <1>1, <1>2, <1>3, <1>5 DEF AsksOK

\* A request made: not answered yet.
LEMMA RoomAsks ==
  ASSUME ServerOK, ServerOK', PageOK, KnownOK, Sees(room), SomethingOK, Later, NEW k, asks' = asks \cup {k}, ~k.got.read,
         room # NoRoom, ~room.loading, room' = [room EXCEPT !.loading = TRUE], Sight(k)'
  PROVE  Sees(room)' /\ AsksOK' /\ SomethingOK'
  <1>0. /\ room'.opened = room.opened /\ room'.held = room.held /\ room'.atStart = room.atStart
        /\ room'.atEnd = room.atEnd /\ room'.loaded = room.loaded
    BY DEF PageOK, TypePage, Stream
  <1>1. {b \in asks : StillOpen(b)} = {}  BY DEF PageOK, AskOK
  <1>2. \A b \in asks : ~StillOpen(b)  BY <1>1
  <1>3. \A b \in asks : ~StillOpen(b)'  BY <1>0, <1>2, OpenStays
  <1>4. AsksOK'  BY <1>3 DEF AsksOK
  <1>5. SomethingOK'  BY <1>0, <1>2 DEF SomethingOK
  <1>6. Sees(room)'
    <2>. SUFFICES ASSUME NEW x \in Counted' \ room.held, room.atStart \/ \E o \in room.held : o < x
                  PROVE  IF room.atEnd THEN Coming(x)' ELSE \A o \in room.held : o < x
      BY <1>0 DEF Sees
    <2>1. CASE x \in Counted
      <3>1. x \in saved  BY <2>1 DEF Counted
      <3>2. ~ \A m \in saved : m < x  BY <3>1, SavedIs
      <3>. QED  BY <1>0, <2>1, <3>2 DEF Sees, Later
    <2>2. CASE x \notin Counted  BY <2>2 DEF Later, KnownOK
    <2>. QED  BY <2>1, <2>2
  <1>. QED  BY <1>4, <1>5, <1>6

-----------------------------------------------------------------------------
(* Pages read, and frames *)

\* A page read leaves out what its kind may leave out.
LEMMA ReadSees ==
  ASSUME ServerOK, NEW a \in asks, Sight(a), NEW k, k.kind = a.kind, k.from = a.from, a.from \in Nat,
         k.got.ids = IF a.kind = "page" THEN PageOf(a.from) ELSE WindowOf(a.from)
  PROVE  Sight(k)
  <1>. DEFINE ids == k.got.ids
  <1>0. /\ saved \subseteq Nat /\ minted \in Nat /\ saved \subseteq 0..minted
        /\ PageSize \in Nat /\ WindowNewer \in Nat /\ WindowOlder \in Nat \ {0}
    <2>1. PageSize \in Nat \ {0}  BY SizesAssumption
    <2>2. WindowNewer \in Nat /\ WindowOlder \in Nat \ {0}  BY <2>1 DEF WindowNewer, WindowOlder
    <2>. QED  BY <2>1, <2>2, SavedIs
  <1>a. Counted \subseteq saved  BY DEF Counted
  <1>1. CASE a.kind = "page" /\ a.from = 0
    <2>1. ids = Largest(PageSize, saved)  BY <1>1 DEF PageOf
    <2>2. ASSUME NEW x \in Counted \ ids, Cardinality(ids) < PageSize \/ \E o \in ids : o < x PROVE FALSE
      <3>0. saved \in SUBSET (0..minted) /\ x \in saved /\ x \in Nat /\ x \notin Largest(PageSize, saved)
        BY <2>1, <1>0, <1>a
      <3>1. ~(Cardinality(Largest(PageSize, saved)) < PageSize) /\ \A o \in Largest(PageSize, saved) : x < o
        BY ONLY <3>0, <1>0, LargestIs
      <3>2. \A o \in ids : o \in Nat /\ x < o  BY <2>1, <3>1, <1>0 DEF Largest
      <3>3. \A o \in ids : ~(o < x)  BY <3>0, <3>2
      <3>. HIDE DEF ids
      <3>. QED  BY <2>1, <2>2, <3>1, <3>3
    <2>. QED  BY <1>1, <2>2 DEF Sight, NewestAsk
  <1>2. CASE a.kind = "page" /\ a.from # 0
    <2>. DEFINE S == {m \in saved : m < a.from}
    <2>1. ids = Largest(PageSize, S) /\ S \in SUBSET (0..minted)  BY <1>0, <1>2 DEF PageOf
    <2>2. \A o \in ids : o < a.from  BY <2>1 DEF Largest
    <2>3. ASSUME NEW x \in S, x \notin ids PROVE ~(Cardinality(ids) < PageSize) /\ \A o \in ids : x < o
      <3>. HIDE DEF S, ids
      <3>. QED  BY <2>1, <2>3, <1>0, LargestIs
    <2>. QED  BY <1>2, <1>a, <2>2, <2>3 DEF Sight, OlderAsk
  <1>3. CASE a.kind # "page"
    <2>. DEFINE S == {m \in saved : m <= a.from}
                T == {m \in saved : m > a.from}
                older == Largest(WindowOlder, S)
                newer == Smallest(WindowNewer, T)
    <2>0. ids = older \cup newer /\ S \in SUBSET (0..minted) /\ T \in SUBSET (0..minted)
      BY <1>0, <1>3 DEF WindowOf
    <2>0a. older \subseteq S /\ newer \subseteq T  BY DEF Largest, Smallest
    <2>0b. a.from \in saved /\ ~room.atEnd  BY <1>3 DEF Sight, WindowAsk
    <2>1. a.from \in ids
      <3>1. a.from \in S /\ \A o \in S : ~(o > a.from)  BY <2>0b, <1>0
      <3>2. a.from \in older  BY <3>1, <1>0, LargestHas
      <3>. QED  BY <2>0, <3>2
    <2>2. {m \in ids : m <= a.from} = older
      <3>1. \A m \in T : ~(m <= a.from)  BY <1>0
      <3>2. \A m \in S : m <= a.from  OBVIOUS
      <3>. HIDE DEF S, T, older, newer
      <3>. QED  BY <2>0, <2>0a, <3>1, <3>2
    <2>3. ASSUME NEW x \in Counted \ ids, x < a.from
          PROVE  ~(Cardinality(older) < WindowOlder) /\ \A o \in ids : x < o
      <3>0. x \in saved /\ x \in Nat /\ x <= a.from
        <4>1. x \in saved  BY <1>a
        <4>2. x \in Nat  BY <4>1, <1>0
        <4>. HIDE DEF ids
        <4>. QED  BY <2>3, <4>1, <4>2
      <3>1. x \in S /\ x \notin older
        <4>. HIDE DEF older, newer
        <4>. QED  BY <2>0, <2>3, <3>0
      <3>2. ~(Cardinality(older) < WindowOlder) /\ \A o \in older : x < o
        BY <2>0, <3>1, <1>0, LargestIs
      <3>3. \A o \in T : x < o
        <4>1. x \in Nat /\ a.from \in Nat /\ x < a.from  BY <2>3, <1>0, <1>a
        <4>2. \A o \in T : o \in Nat /\ a.from < o  BY <1>0
        <4>. HIDE DEF T
        <4>. QED  BY <4>1, <4>2
      <3>. QED  BY <2>0, <2>0a, <3>2, <3>3
    <2>4. ASSUME NEW x \in Counted \ ids, x > a.from PROVE \A o \in ids : o < x
      <3>1. x \in T /\ x \notin newer  BY <2>0, <2>4, <1>0, <1>a
      <3>2. \A o \in newer : o < x  BY <2>0, <3>1, <1>0, SmallestIs
      <3>3. \A o \in S : o < x
        <4>1. x \in Nat /\ a.from \in Nat /\ a.from < x  BY <2>4, <1>0, <1>a
        <4>2. \A o \in S : o \in Nat /\ o <= a.from  BY <1>0
        <4>. HIDE DEF S
        <4>. QED  BY <4>1, <4>2
      <3>. QED  BY <2>0, <2>0a, <3>2, <3>3
    <2>. HIDE DEF older, newer, S, T
    <2>5. WindowAsk(k)  BY <2>0b, <2>1, <2>2, <2>3, <2>4 DEF WindowAsk
    <2>. QED  BY <1>3, <2>5 DEF Sight
  <1>. QED  BY <1>1, <1>2, <1>3

LEMMA ReadKeeps ==
  ASSUME ServerOK, ServerOK', PageOK, GapInv, NEW a \in asks, ReadPage(a)
  PROVE  GapInv'
  <1>. USE DEF GapInv
  <1>. DEFINE ids == IF a.kind = "page" THEN PageOf(a.from) ELSE WindowOf(a.from)
  <1>. PICK k : k = [a EXCEPT !.got = [ids |-> ids, fresh |-> ids \cap edited, read |-> TRUE]]  OBVIOUS
  <1>0. asks' = (asks \ {a}) \cup {k} /\ UNCHANGED <<server, newest, room, openings, sending>>
    BY DEF ReadPage
  <1>1. /\ k.kind = a.kind /\ k.from = a.from /\ k.opened = a.opened /\ k.got.ids = ids /\ a.from \in Nat
    BY DEF PageOK, TypePage, Ask
  <1>2. ids \subseteq saved  BY DEF PageOf, WindowOf, Largest, Smallest
  <1>. HIDE DEF ids
  <1>3. UNCHANGED <<by, saved, feed, untold, late, keyed, answers>>  BY <1>0 DEF server, serverOnly, sending
  <1>4. OrderOK' /\ HeardOK' /\ Later  BY <1>0, <1>3, SavedStays DEF Unpublished
  <1>5. KnownOK'  BY <1>0, <1>1, <1>2, <1>3 DEF KnownOK
  <1>6. Sees(room)'  BY <1>0, <1>3 DEF Sees, Counted, QuietLine, Coming, Unpublished
  <1>7. SomethingOK'  BY <1>0, <1>1 DEF SomethingOK, StillOpen
  <1>8. AsksOK'
    <2>1. ASSUME NEW b \in asks, StillOpen(b)' PROVE Sight(b)'
      <3>1. Sight(b)  BY <1>0, <2>1 DEF AsksOK, StillOpen
      <3>. QED  BY <1>0, <1>4, <3>1, SightStays
    <2>2. ASSUME StillOpen(k)' PROVE Sight(k)'
      <3>1. Sight(a)  BY <1>0, <1>1, <2>2 DEF AsksOK, StillOpen
      <3>2. Sight(k)  BY <1>1, <3>1, ReadSees DEF ids
      <3>. QED  BY <1>0, <1>3, <3>2
           DEF Sight, NewestAsk, OlderAsk, WindowAsk, Counted, QuietLine, Coming, Unpublished
    <2>. QED  BY <1>0, <2>1, <2>2 DEF AsksOK
  <1>. QED  BY <1>4, <1>5, <1>6, <1>7, <1>8

\* A frame folded: in a room at its end its message is held, and those newer are to come.
LEMMA HearKeeps ==
  ASSUME ServerOK, ServerOK', PageOK, GapInv, Hear
  PROVE  GapInv'
  <1>. USE DEF GapInv
  <1>. DEFINE f == feed[1]
              n == Len(feed)
  <1>0. /\ n \in Nat /\ n # 0 /\ DOMAIN feed = 1..n /\ DOMAIN feed' = 1..n - 1 /\ Head(feed) = f
        /\ \A i \in 1..n - 1 : feed'[i] = feed[i + 1]
    BY SavedIs DEF Hear
  <1>1. /\ room' = IF room = NoRoom THEN room ELSE Fold(room, f)
        /\ newest' = IF Tracks(f) THEN f.id ELSE newest
        /\ UNCHANGED <<serverOnly, openings, asks, sending>>
    BY <1>0 DEF Hear
  <1>1a. UNCHANGED <<by, saved, keyed, untold, late, answers>>  BY <1>1 DEF serverOnly, sending
  <1>2. 1 \in DOMAIN feed /\ f \in Frame /\ f.id \in saved  BY <1>0, SavedIs DEF ServerOK, ToldOK
  <1>3. \A i \in DOMAIN feed : i = 1 \/ (i - 1 \in DOMAIN feed' /\ feed'[i - 1] = feed[i])
    <2>1. \A i \in 1..n : i = 1 \/ (i - 1 \in 1..n - 1 /\ (i - 1) + 1 = i)  BY <1>0
    <2>. HIDE DEF n
    <2>. QED  BY <1>0, <2>1
  <1>4. \A i \in DOMAIN feed' : i \in Nat /\ i + 1 \in DOMAIN feed /\ feed'[i] = feed[i + 1]
    <2>1. \A i \in 1..n - 1 : i \in Nat /\ i + 1 \in 1..n  BY <1>0
    <2>. HIDE DEF n
    <2>. QED  BY <1>0, <2>1
  <1>4a. DOMAIN feed \subseteq Nat  BY <1>0
  <1>. HIDE DEF f, n
  <1>5. \A m : Unpublished(m)' <=> Unpublished(m)  BY <1>1a DEF Unpublished
  <1>6. Counted' = Counted  BY <1>1a DEF Counted, QuietLine
  <1>7. \A m : Coming(m) => Coming(m)' \/ (f.op = "create" /\ m = f.id)
    BY <1>3, <1>5 DEF Coming, f
  <1>8. OrderOK'
    <2>1. ASSUME NEW i \in DOMAIN feed', NEW x \in Counted, feed'[i].op = "create", feed'[i].id < x
          PROVE  Unpublished(x) \/ \E j \in DOMAIN feed' : j > i /\ feed'[j].op = "create" /\ feed'[j].id = x
      <3>1. Unpublished(x) \/ \E j \in DOMAIN feed : j > i + 1 /\ Create(j, x)
        BY <2>1, <1>4 DEF OrderOK
      <3>2. ASSUME NEW j \in DOMAIN feed, j > i + 1, Create(j, x)
            PROVE  \E l \in DOMAIN feed' : l > i /\ feed'[l].op = "create" /\ feed'[l].id = x
        <4>1. i \in Nat /\ j \in Nat  BY <1>4, <1>4a
        <4>2. j # 1 /\ j - 1 > i  BY <4>1, <3>2
        <4>. QED  BY <4>2, <3>2, <1>3 DEF Create
      <3>. QED  BY <3>1, <3>2
    <2>. QED  BY <2>1, <1>1a, <1>5, <1>6 DEF OrderOK, Create
  <1>9. HeardOK'
    <2>. SUFFICES ASSUME NEW m \in saved, ~QuietLine(m), ~Coming(m)' PROVE m <= newest'
      BY <1>1a DEF HeardOK, QuietLine
    <2>0. newest \in Nat /\ newest <= newest' /\ newest' \in Nat /\ m \in Nat /\ f.id \in Nat
      BY <1>1, <1>2, SavedIs DEF PageOK, TypePage, Tracks
    <2>1. CASE ~Coming(m)
      <3>1. m <= newest  BY <2>1 DEF HeardOK
      <3>. QED  BY <2>0, <3>1
    <2>2. CASE f.op = "create" /\ m = f.id
      <3>1. Tracks(f) \/ ~(newest < m)  BY <2>2 DEF Tracks
      <3>. QED  BY <1>1, <2>0, <2>2, <3>1
    <2>. QED  BY <2>1, <2>2, <1>7
  <1>10. /\ room'.opened = room.opened /\ room'.atStart = room.atStart /\ room'.atEnd = room.atEnd
         /\ room'.loaded = room.loaded
         /\ room'.held = IF room # NoRoom /\ (f.id \in room.held \/ (f.op = "create" /\ room.atEnd))
                         THEN room.held \cup {f.id} ELSE room.held
    <2>. room \in Stream  BY DEF PageOK, TypePage
    <2>. QED  BY <1>1 DEF Fold, Merge, Stream
  <1>10a. room.atEnd => room # NoRoom  BY DEF NoRoom
  <1>11. Later  BY <1>1a, <1>6, <1>7, <1>10, <1>10a DEF Later
  <1>12. ASSUME NEW o \in room'.held \ room.held, NEW x \in Counted' \ room'.held
         PROVE  room.atEnd /\ (o < x => Coming(x)')
    <2>1. o = f.id /\ f.op = "create" /\ room.atEnd  BY <1>10, <1>12
    <2>2. ASSUME o < x PROVE Coming(x)'
      <3>1. Unpublished(x) \/ \E j \in DOMAIN feed : j > 1 /\ Create(j, x)
        BY <1>2, <1>6, <2>1, <2>2 DEF OrderOK, f
      <3>2. CASE Unpublished(x)  BY <3>2, <1>5 DEF Coming
      <3>3. ASSUME NEW j \in DOMAIN feed, j > 1, Create(j, x) PROVE Coming(x)'
        BY <3>3, <1>3, <1>4a DEF Coming, Create
      <3>. QED  BY <3>1, <3>2, <3>3
    <2>. QED  BY <2>1, <2>2
  <1>13. Sees(room)' /\ AsksOK' /\ SomethingOK'  BY <1>1, <1>10, <1>11, <1>12, RoomGrows
  <1>14. KnownOK'  BY <1>1, <1>1a, <1>2, <1>10 DEF KnownOK
  <1>. QED  BY <1>8, <1>9, <1>13, <1>14

\* A fresh `ready`: the newest message it counts is past all there are.
LEMMA ReadyKeeps ==
  ASSUME ServerOK, ServerOK', PageOK, GapInv, Ready
  PROVE  GapInv'
  <1>. USE DEF GapInv
  <1>. DEFINE T == {0} \cup {m \in saved : ~QuietLine(m)}
  <1>0. /\ feed' = <<>> /\ room' = NoRoom /\ newest' = Max(T)
        /\ UNCHANGED <<by, saved, keyed, untold, late, answers, openings, asks>>
    BY DEF Ready, serverOnly, sending
  <1>1. DOMAIN feed' = {}  BY <1>0
  <1>2. Counted' = Counted /\ \A m : Unpublished(m)' <=> Unpublished(m)
    BY <1>0 DEF Counted, QuietLine, Unpublished
  <1>3. OrderOK'  BY <1>0, <1>1, <1>2 DEF OrderOK
  <1>4. \A m \in T : m <= newest'
    <2>1. T \in SUBSET Nat /\ T # {} /\ minted \in Nat /\ \A m \in T : m <= minted  BY SavedIs
    <2>2. \A m \in T : Max(T) >= m /\ m \in Nat  BY <2>1, MaxIn
    <2>3. Max(T) \in Nat  BY <2>1, MaxIn
    <2>. HIDE DEF T
    <2>. QED  BY <1>0, <2>2, <2>3
  <1>5. HeardOK'  BY <1>0, <1>4 DEF HeardOK, QuietLine
  <1>6. room'.held = {} /\ ~room'.atEnd  BY <1>0 DEF NoRoom
  <1>7. KnownOK'  BY <1>0, <1>6 DEF KnownOK
  <1>8. AsksOK'  BY <1>0 DEF AsksOK, StillOpen
  <1>9. Sees(room)' /\ SomethingOK'  BY <1>0 DEF Sees, SomethingOK, NoRoom
  <1>. QED  BY <1>3, <1>5, <1>7, <1>8, <1>9

-----------------------------------------------------------------------------
(* Sends, and what the person does *)

\* A step of the page's alone.
LEMMA PageAlone ==
  ASSUME ServerOK, KnownOK, OrderOK, HeardOK, UNCHANGED <<by, saved, keyed, untold, feed, newest>>,
         late \subseteq late', answers' \subseteq answers
  PROVE  /\ OrderOK' /\ HeardOK' /\ Later
         /\ Counted' \subseteq Counted
         /\ \A m : Coming(m)' <=> Coming(m)
         /\ room'.held \subseteq saved /\ (\A a \in asks' : a.got.ids \subseteq saved) => KnownOK'
  <1>1. \A m : Unpublished(m)' <=> Unpublished(m)  BY DEF Unpublished
  <1>2. \A m \in saved : by'[m] = by[m]  OBVIOUS
  <1>3. room'.held \subseteq saved /\ (\A a \in asks' : a.got.ids \subseteq saved) => KnownOK'
    BY DEF KnownOK
  <1>. QED  BY <1>1, <1>2, <1>3, SavedStays

\* A request as it is made is not answered.
LEMMA NewAskOpen ==
  ASSUME NEW kind, NEW from, NEW opened, NEW left
  PROVE  LET k == NewAsk(kind, from, opened, left)
         IN ~k.got.read /\ k.got.ids = {} /\ k.kind = kind /\ k.from = from /\ k.opened = opened
  BY DEF NewAsk, NoPage

\* The rest of openRoom.
LEMMA OpenSees ==
  ASSUME PageOK, KnownOK, NEW others \in SUBSET asks, NEW pending, Open(others, pending)
  PROVE  Sees(room)' /\ AsksOK' /\ SomethingOK' /\ room'.held = {} /\ \A a \in asks' : a.got.ids \subseteq saved
  <1>. PICK k : k = NewAsk("page", 0, openings + 1, Waits)  OBVIOUS
  <1>1. ~k.got.read /\ k.got.ids = {} /\ k.kind = "page" /\ k.from = 0 /\ k.opened = openings + 1
    BY NewAskOpen
  <1>2. asks' = others \cup {k}  BY DEF Open
  <1>3. /\ room'.opened = openings + 1 /\ room'.held = {} /\ ~room'.atStart /\ ~room'.loaded /\ room'.atEnd
    BY DEF Open, NoRoom
  <1>4. Sees(room)' /\ AsksOK' /\ SomethingOK'  BY <1>1, <1>2, <1>3, RoomOpens
  <1>. QED  BY <1>1, <1>2, <1>3, <1>4 DEF KnownOK

\* A room one message was merged into.
LEMMA MergeIs ==
  ASSUME NEW r \in Stream, NEW m \in Ids, NEW new \in BOOLEAN
  PROVE  LET q == Merge(r, m, new)
         IN /\ q \in Stream /\ q.held = r.held \cup {m} /\ q.opened = r.opened
            /\ q.atStart = r.atStart /\ q.atEnd = r.atEnd /\ q.loaded = r.loaded
  BY DEF Merge, Stream

\* A post on its way or lost, or an answer merged: what it leaves out is late.
LEMMA SendsKeep ==
  ASSUME ServerOK, ServerOK', TypeSends, PageOK, GapInv,
         \/ \E s \in Sends : SendMessage(s) \/ SendFails(s)
         \/ \E a \in answers : AnswerArrives(a) \/ EditAnswered(a)
  PROVE  GapInv'
  <1>. USE DEF GapInv
  <1>0. UNCHANGED <<by, saved, keyed, untold, feed, newest>> /\ late \subseteq late' /\ answers' \subseteq answers
    BY DEF SendMessage, SendFails, AnswerArrives, EditAnswered, server, serverOnly
  <1>1. OrderOK' /\ HeardOK' /\ Later /\ Counted' \subseteq Counted /\ \A m : Coming(m)' <=> Coming(m)
    BY <1>0, PageAlone
  <1>2. SUFFICES /\ Sees(room)' /\ AsksOK' /\ SomethingOK' /\ room'.held \subseteq saved
                 /\ \A a \in asks' : a.got.ids \subseteq saved
    BY <1>0, <1>1, PageAlone
  <1>a. room \in Stream  BY DEF PageOK, TypePage
  <1>b. Counted' \subseteq saved \ late'  BY <1>0 DEF Counted
  <1>3. ASSUME NEW s \in Sends, SendMessage(s) \/ SendFails(s)
        PROVE  /\ Sees(room)' /\ AsksOK' /\ SomethingOK' /\ room'.held \subseteq saved
               /\ \A a \in asks' : a.got.ids \subseteq saved
    <2>1. /\ asks' = asks /\ room'.opened = room.opened /\ room'.held = room.held
          /\ room'.atStart = room.atStart /\ room'.atEnd = room.atEnd /\ room'.loaded = room.loaded
      BY <1>3, <1>a DEF SendMessage, SendFails, Stream
    <2>2. Sees(room)' /\ AsksOK' /\ SomethingOK'  BY <1>1, <2>1, RoomGrows
    <2>. QED  BY <2>1, <2>2 DEF KnownOK
  <1>4. ASSUME NEW a \in answers, AnswerArrives(a)
        PROVE  /\ Sees(room)' /\ AsksOK' /\ SomethingOK' /\ room'.held \subseteq saved
               /\ \A b \in asks' : b.got.ids \subseteq saved
    <2>0. a.id \in saved /\ a.id \in Ids /\ a.new \in BOOLEAN  BY DEF KnownOK, TypeSends
    <2>1. CASE room # NoRoom /\ ~room.atEnd
      <3>1. Open(asks, <<>>)  BY <1>4, <2>1 DEF AnswerArrives
      <3>. QED  BY <3>1, OpenSees
    <2>2. CASE room = NoRoom
      <3>1. room' = room /\ asks' = asks  BY <1>4, <2>2 DEF AnswerArrives
      <3>2. Sees(room)' /\ AsksOK' /\ SomethingOK'  BY <1>1, <3>1, RoomGrows
      <3>. QED  BY <3>1, <3>2 DEF KnownOK
    <2>3. CASE room # NoRoom /\ room.atEnd
      <3>1. /\ asks' = asks /\ room'.opened = room.opened /\ room'.held = room.held \cup {a.id}
            /\ room'.atStart = room.atStart /\ room'.atEnd = room.atEnd /\ room'.loaded = room.loaded
            /\ late' = late \cup {m \in saved \ room.held : m > a.id /\ ~Coming(m)}
        <4>. PICK q : q = Merge(room, a.id, a.new)  OBVIOUS
        <4>1. /\ q \in Stream /\ q.held = room.held \cup {a.id} /\ q.opened = room.opened
              /\ q.atStart = room.atStart /\ q.atEnd = room.atEnd /\ q.loaded = room.loaded
          BY <1>a, <2>0, MergeIs
        <4>2. /\ asks' = asks /\ room' = [q EXCEPT !.pending = WithoutStandIn(@, a.send)]
              /\ late' = late \cup {m \in saved \ room.held : m > a.id /\ ~Coming(m)}
          BY <1>4, <2>3 DEF AnswerArrives
        <4>. QED  BY <4>1, <4>2 DEF Stream
      <3>2. ASSUME NEW o \in room'.held \ room.held, NEW x \in Counted' \ room'.held, o < x PROVE Coming(x)'
        <4>1. o = a.id /\ x \in saved \ room.held /\ x \notin late'  BY <1>b, <3>1, <3>2
        <4>2. x > a.id  BY <2>0, <3>2, <4>1, SavedIs
        <4>3. Coming(x)  BY <3>1, <4>1, <4>2
        <4>. QED  BY <1>1, <4>3
      <3>3. Sees(room)' /\ AsksOK' /\ SomethingOK'  BY <1>1, <2>3, <3>1, <3>2, RoomGrows
      <3>. QED  BY <2>0, <3>1, <3>3 DEF KnownOK
    <2>. QED  BY <2>1, <2>2, <2>3
  <1>5. ASSUME NEW a \in answers, EditAnswered(a)
        PROVE  /\ Sees(room)' /\ AsksOK' /\ SomethingOK' /\ room'.held \subseteq saved
               /\ \A b \in asks' : b.got.ids \subseteq saved
    <2>0. a.id \in saved /\ a.id \in Ids /\ a.new \in BOOLEAN  BY DEF KnownOK, TypeSends
    <2>1. CASE room = NoRoom
      <3>1. room' = room /\ asks' = asks  BY <1>5, <2>1 DEF EditAnswered
      <3>2. Sees(room)' /\ AsksOK' /\ SomethingOK'  BY <1>1, <3>1, RoomGrows
      <3>. QED  BY <3>1, <3>2 DEF KnownOK
    <2>2. CASE room # NoRoom
      <3>1. /\ asks' = asks /\ room'.opened = room.opened /\ room'.held = room.held \cup {a.id}
            /\ room'.atStart = room.atStart /\ room'.atEnd = room.atEnd /\ room'.loaded = room.loaded
        <4>1. asks' = asks /\ room' = Merge(room, a.id, a.new)  BY <1>5, <2>2 DEF EditAnswered
        <4>. QED  BY <4>1, <1>a, <2>0, MergeIs
      <3>2. ASSUME NEW o \in room'.held \ room.held, NEW x \in Counted' \ room'.held
            PROVE  room.atEnd /\ (o < x => Coming(x)')
        <4>1. o = a.id /\ a.id \in room'.held \ room.held /\ x \in saved \ room.held /\ x \notin late'
          BY <1>b, <3>1, <3>2
        <4>2. late' = late \cup {m \in saved \ room.held : ~(room.atEnd /\ (m < a.id \/ Coming(m)))}
          BY <1>5, <4>1 DEF EditAnswered
        <4>3. room.atEnd /\ (x < a.id \/ Coming(x))  BY <4>1, <4>2
        <4>4. x < a.id => ~(a.id < x)  BY <2>0, <4>1, SavedIs
        <4>. QED  BY <1>1, <4>1, <4>3, <4>4
      <3>3. Sees(room)' /\ AsksOK' /\ SomethingOK'  BY <1>1, <3>1, <3>2, RoomGrows
      <3>. QED  BY <2>0, <3>1, <3>3 DEF KnownOK
    <2>. QED  BY <2>1, <2>2
  <1>. QED  BY <1>3, <1>4, <1>5

\* What a trim keeps is a stretch of what was held, and of it something.
LEMMA NearIs ==
  ASSUME NEW b \in Nat, room.held \in SUBSET (0..b), NEW first \in room.held, NEW last \in room.held, first <= last
  PROVE  /\ first \in Near(first, last) /\ Near(first, last) \subseteq room.held
         /\ \A x \in room.held \ Near(first, last) :
              (\A o \in Near(first, last) : x < o) \/ (\A o \in Near(first, last) : o < x)
  <1>. DEFINE H == room.held
              Up(m) == {o \in H : m <= o /\ o < first}
              Down(m) == {o \in H : last < o /\ o <= m}
  <1>0. H \subseteq Nat /\ IsFiniteSet(H) /\ Kept \in Nat
    <2>1. IsFiniteSet(0..b)  BY FS_Interval, b \in Int, 0 \in Int
    <2>2. H \subseteq Nat  OBVIOUS
    <2>. QED  BY <2>1, <2>2, FS_Subset, SizesAssumption
  <1>1. \A m : /\ IsFiniteSet(Up(m)) /\ Cardinality(Up(m)) \in Nat
               /\ IsFiniteSet(Down(m)) /\ Cardinality(Down(m)) \in Nat
    <2>. SUFFICES ASSUME NEW m PROVE /\ IsFiniteSet(Up(m)) /\ Cardinality(Up(m)) \in Nat
                                     /\ IsFiniteSet(Down(m)) /\ Cardinality(Down(m)) \in Nat
      OBVIOUS
    <2>1. IsFiniteSet(Up(m)) /\ IsFiniteSet(Down(m))  BY <1>0, FS_Subset
    <2>. QED  BY <2>1, FS_CardinalityType
  <1>2. \A m \in H : m \in Near(first, last) <=> Cardinality(Up(m)) <= Kept /\ Cardinality(Down(m)) <= Kept
    BY DEF Near
  <1>3. Near(first, last) \subseteq H  BY DEF Near
  <1>4. first \in Near(first, last)
    <2>1. \A o \in H : ~(first <= o /\ o < first) /\ ~(last < o /\ o <= first)  BY <1>0
    <2>2. Up(first) = {} /\ Down(first) = {}  BY <2>1
    <2>3. Cardinality(Up(first)) = 0 /\ Cardinality(Down(first)) = 0  BY <2>2, FS_EmptySet
    <2>. HIDE DEF H, Up, Down
    <2>. QED  BY <1>0, <1>2, <2>3 DEF H
  <1>5. ASSUME NEW x \in H, NEW o \in H, x <= o
        PROVE  Cardinality(Up(o)) <= Cardinality(Up(x)) /\ Cardinality(Down(x)) <= Cardinality(Down(o))
    <2>1. \A p \in H : (o <= p => x <= p) /\ (p <= x => p <= o)  BY <1>0, <1>5
    <2>2. Up(o) \subseteq Up(x) /\ Down(x) \subseteq Down(o)  BY <2>1
    <2>. QED  BY <1>1, <2>2, FS_Subset
  <1>6. ASSUME NEW x \in H, x \notin Near(first, last)
        PROVE  (\A o \in Near(first, last) : x < o) \/ (\A o \in Near(first, last) : o < x)
    <2>0. \A o \in Near(first, last) : o \in Nat /\ x \in Nat /\ o \in H  BY <1>0, <1>3
    <2>1. CASE ~(Cardinality(Up(x)) <= Kept)
      <3>1. ASSUME NEW o \in Near(first, last), ~(x < o) PROVE FALSE
        <4>1. o <= x  BY <2>0, <3>1
        <4>2. Cardinality(Up(x)) <= Cardinality(Up(o)) /\ Cardinality(Up(o)) <= Kept  BY <4>1, <2>0, <1>2, <1>5
        <4>3. Cardinality(Up(x)) \in Nat /\ Cardinality(Up(o)) \in Nat  BY <1>1
        <4>. HIDE DEF Up
        <4>. QED  BY ONLY <4>2, <4>3, <2>1, <1>0
      <3>. QED  BY <3>1
    <2>2. CASE ~(Cardinality(Down(x)) <= Kept)
      <3>1. ASSUME NEW o \in Near(first, last), ~(o < x) PROVE FALSE
        <4>1. x <= o  BY <2>0, <3>1
        <4>2. Cardinality(Down(x)) <= Cardinality(Down(o)) /\ Cardinality(Down(o)) <= Kept
          BY <4>1, <2>0, <1>2, <1>5
        <4>3. Cardinality(Down(x)) \in Nat /\ Cardinality(Down(o)) \in Nat  BY <1>1
        <4>. HIDE DEF Down
        <4>. QED  BY ONLY <4>2, <4>3, <2>2, <1>0
      <3>. QED  BY <3>1
    <2>. QED  BY <1>2, <1>6, <2>1, <2>2
  <1>. QED  BY <1>3, <1>4, <1>6

\* Messages let go of by a room nothing is on its way to: what is left is a
\* stretch, and what is gone lies outside it, past an end given up.
LEMMA RoomCut ==
  ASSUME ServerOK, PageOK, KnownOK, Sees(room), UNCHANGED asks, Counted' \subseteq Counted,
         \A m : Coming(m)' <=> Coming(m), room # NoRoom, ~room.loading,
         room'.opened = room.opened, room'.held \subseteq room.held, room'.held # {},
         room'.atStart => room.atStart, room'.atEnd => room.atEnd,
         \A x \in room.held \ room'.held : \/ ~room'.atStart /\ \A o \in room'.held : x < o
                                           \/ ~room'.atEnd /\ \A o \in room'.held : o < x,
         room.atEnd /\ ~room'.atEnd =>
           \A x \in Counted' \ room.held : Coming(x) => \A o \in room'.held : o <= x
  PROVE  Sees(room)' /\ AsksOK' /\ SomethingOK'
  <1>1. {b \in asks : StillOpen(b)} = {}  BY DEF PageOK, AskOK
  <1>2. \A b \in asks : ~StillOpen(b)'  BY <1>1, OpenStays
  <1>3. AsksOK'  BY <1>2 DEF AsksOK
  <1>4. SomethingOK'  BY DEF SomethingOK
  <1>0. room'.held \subseteq Nat /\ Counted \subseteq Nat /\ room'.held \subseteq room.held
    BY SavedIs DEF KnownOK, Counted
  <1>5. Sees(room)'
    <2>. SUFFICES ASSUME NEW x \in Counted' \ room'.held, room'.atStart \/ \E o \in room'.held : o < x
                  PROVE  IF room'.atEnd THEN Coming(x)' ELSE \A o \in room'.held : o < x
      BY DEF Sees
    <2>1. CASE x \in room.held
      <3>1. ~ (~room'.atStart /\ \A o \in room'.held : x < o)
        <4>1. \A o \in room'.held : o < x => ~(x < o)  BY <1>0
        <4>. QED  BY <4>1
      <3>. QED  BY <2>1, <3>1
    <2>2. CASE x \notin room.held
      <3>1. IF room.atEnd THEN Coming(x) ELSE \A o \in room.held : o < x  BY <2>2 DEF Sees
      <3>2. CASE room.atEnd /\ ~room'.atEnd
        <4>1. \A o \in room'.held : o <= x /\ o # x  BY <2>2, <3>1, <3>2
        <4>2. \A o \in room'.held : o < x  BY <4>1, <1>0
        <4>. QED  BY <3>2, <4>2
      <3>. QED  BY <3>1, <3>2
    <2>. QED  BY <2>1, <2>2
  <1>. QED  BY <1>3, <1>4, <1>5

LEMMA TrimKeeps ==
  ASSUME ServerOK, ServerOK', PageOK, GapInv, NEW first \in Ids, NEW last \in Ids, TrimHistory(first, last)
  PROVE  GapInv'
  <1>. USE DEF GapInv
  <1>. PICK near : near = Near(first, last)  OBVIOUS
  <1>0. /\ UNCHANGED <<by, saved, keyed, untold, feed, newest, answers, asks>> /\ late \subseteq late'
        /\ room # NoRoom /\ ~room.loading /\ first \in room.held /\ last \in room.held /\ first <= last
    BY DEF TrimHistory, sending
  <1>1. OrderOK' /\ HeardOK' /\ Later /\ Counted' \subseteq Counted /\ \A m : Coming(m)' <=> Coming(m)
    BY <1>0, PageAlone
  <1>2. /\ room'.opened = room.opened /\ room'.held = near
        /\ room'.atStart = (room.atStart /\ Min(near) = Min(room.held))
        /\ room'.atEnd = (room.atEnd /\ Max(near) = Max(room.held))
        /\ room.atEnd /\ ~room'.atEnd =>
             late' = late \cup {m \in saved \ room.held : Coming(m) /\ m < Max(near)}
    BY DEF TrimHistory, PageOK, TypePage, Stream
  <1>3. room.held \subseteq saved /\ room.held \subseteq Nat /\ minted \in Nat /\ room.held \in SUBSET (0..minted)
    BY SavedIs DEF KnownOK
  <1>4. /\ first \in near /\ near \subseteq room.held
        /\ \A x \in room.held \ near : (\A o \in near : x < o) \/ (\A o \in near : o < x)
    BY <1>0, <1>3, NearIs
  <1>5. /\ Min(room.held) \in room.held /\ Min(near) \in near /\ Max(room.held) \in room.held /\ Max(near) \in near
        /\ (\A o \in near : Max(near) >= o) /\ (\A o \in room.held : Max(room.held) >= o)
        /\ \A o \in room.held : Min(room.held) <= o
    <2>1. near \in SUBSET Nat /\ near # {} /\ room.held \in SUBSET Nat /\ room.held # {}  BY <1>3, <1>4
    <2>2. \A o \in room.held : o <= minted  BY <1>3
    <2>. QED  BY <1>3, <1>4, <2>1, <2>2, MinIn, MaxIn
  <1>6. ASSUME NEW x \in room.held \ near
        PROVE  \/ ~room'.atStart /\ \A o \in near : x < o
               \/ ~room'.atEnd /\ \A o \in near : o < x
    <2>1. CASE \A o \in near : x < o
      <3>1. x < Min(near) /\ Min(room.held) <= x  BY <1>5, <2>1
      <3>2. Min(room.held) \in Nat /\ Min(near) \in Nat /\ x \in Nat  BY <1>3, <1>4, <1>5
      <3>3. Min(near) # Min(room.held)  BY ONLY <3>1, <3>2
      <3>. QED  BY <1>2, <2>1, <3>3
    <2>2. CASE \A o \in near : o < x
      <3>1. Max(near) < x /\ Max(room.held) >= x  BY <1>5, <2>2
      <3>2. Max(room.held) \in Nat /\ Max(near) \in Nat /\ x \in Nat  BY <1>3, <1>4, <1>5
      <3>3. Max(near) # Max(room.held)  BY ONLY <3>1, <3>2
      <3>. QED  BY <1>2, <2>2, <3>3
    <2>. QED  BY <1>4, <2>1, <2>2
  <1>7. ASSUME room.atEnd, ~room'.atEnd, NEW x \in Counted' \ room.held, Coming(x), NEW o \in near PROVE o <= x
    <2>1. x \in saved /\ x \notin late'  BY <1>0 DEF Counted
    <2>2. ~(x < Max(near))  BY <1>2, <1>7, <2>1
    <2>3. x \in Nat /\ o \in Nat /\ Max(near) \in Nat /\ Max(near) >= o  BY <1>3, <1>4, <1>5, <2>1, SavedIs
    <2>. QED  BY ONLY <2>2, <2>3
  <1>8. Sees(room)' /\ AsksOK' /\ SomethingOK'
    <2>1. room'.held # {} /\ room'.held \subseteq room.held  BY <1>2, <1>4
    <2>2. (room'.atStart => room.atStart) /\ (room'.atEnd => room.atEnd)  BY <1>2
    <2>3. \A x \in room.held \ room'.held : \/ ~room'.atStart /\ \A o \in room'.held : x < o
                                            \/ ~room'.atEnd /\ \A o \in room'.held : o < x
      BY <1>2, <1>6
    <2>4. room.atEnd /\ ~room'.atEnd => \A x \in Counted' \ room.held : Coming(x) => \A o \in room'.held : o <= x
      BY <1>2, <1>7
    <2>. QED  BY <1>0, <1>1, <1>2, <2>1, <2>2, <2>3, <2>4, RoomCut
  <1>9. room'.held \subseteq saved /\ \A a \in asks' : a.got.ids \subseteq saved
    BY <1>0, <1>2, <1>3, <1>4 DEF KnownOK
  <1>. QED  BY <1>0, <1>1, <1>8, <1>9, PageAlone

\* The rest of what the person does.
LEMMA PersonSees ==
  ASSUME ServerOK, ServerOK', TypeSends, PageOK, GapInv, Person
  PROVE  GapInv'
  <1>. USE DEF GapInv
  <1>a. room \in Stream /\ openings \in Nat /\ PageSize \in Nat \ {0}
    BY SizesAssumption DEF PageOK, TypePage
  <1>b. room.held \subseteq saved /\ room.held \in SUBSET (0..minted) /\ minted \in Nat /\ room.held \subseteq Nat
        /\ 0 \notin saved
    BY SavedIs DEF KnownOK
  <1>1. CASE \E first, last \in Ids : TrimHistory(first, last)
    BY <1>1, TrimKeeps
  <1>2. CASE \E s \in Sends : SendMessage(s)
    BY <1>2, SendsKeep
  <1>3. CASE \/ OpenRoom \/ LeaveWindow \/ LoadOlder \/ LoadNewer \/ ReleaseRoom
             \/ \E m \in Ids : OpenAround(m)
    <2>0. UNCHANGED <<by, saved, keyed, untold, feed, newest, answers, late>>
      BY <1>3 DEF OpenRoom, LeaveWindow, LoadOlder, LoadNewer, ReleaseRoom, OpenAround,
                  server, serverOnly, sending
    <2>1. OrderOK' /\ HeardOK' /\ Later /\ Counted' \subseteq Counted /\ \A m : Coming(m)' <=> Coming(m)
      BY <2>0, PageAlone
    <2>2. SUFFICES /\ Sees(room)' /\ AsksOK' /\ SomethingOK' /\ room'.held \subseteq saved
                   /\ \A a \in asks' : a.got.ids \subseteq saved
      BY <2>0, <2>1, PageAlone
    <2>3. CASE OpenRoom \/ LeaveWindow
      <3>1. asks \in SUBSET asks /\ \E p : Open(asks, p)  BY <2>3 DEF OpenRoom, LeaveWindow
      <3>. QED  BY <3>1, OpenSees
    <2>4. ASSUME NEW m \in Ids, OpenAround(m)
          PROVE  /\ Sees(room)' /\ AsksOK' /\ SomethingOK' /\ room'.held \subseteq saved
                 /\ \A a \in asks' : a.got.ids \subseteq saved
      <3>. PICK k : k = NewAsk("around", m, openings + 1, 0)  OBVIOUS
      <3>1. ~k.got.read /\ k.got.ids = {} /\ k.kind = "around" /\ k.from = m /\ k.opened = openings + 1
        BY NewAskOpen
      <3>2. asks' = asks \cup {k} /\ m \in saved'  BY <2>0, <2>4 DEF OpenAround
      <3>3. /\ room'.opened = openings + 1 /\ room'.held = {} /\ ~room'.atStart /\ ~room'.loaded /\ ~room'.atEnd
        BY <2>4 DEF OpenAround, NoRoom
      <3>4. Sees(room)' /\ AsksOK' /\ SomethingOK'  BY <3>1, <3>2, <3>3, RoomOpens
      <3>. QED  BY <3>1, <3>2, <3>3, <3>4 DEF KnownOK
    <2>5. CASE LoadOlder
      <3>. PICK k : k = NewAsk("page", Oldest(room.held), room.opened, 0)  OBVIOUS
      <3>1. ~k.got.read /\ k.got.ids = {} /\ k.kind = "page" /\ k.from = Oldest(room.held)
        BY NewAskOpen
      <3>2. /\ asks' = asks \cup {k} /\ room' = [room EXCEPT !.loading = TRUE]
            /\ room # NoRoom /\ ~room.loading /\ ~room.atStart
        BY <2>5 DEF LoadOlder
      <3>3. room'.held = room.held /\ room'.atEnd = room.atEnd  BY <1>a, <3>2 DEF Stream
      <3>4. Sight(k)'
        <4>1. CASE room.held = {}
          <5>1. k.from = 0  BY <3>1, <4>1 DEF Oldest
          <5>2. {b \in asks : StillOpen(b)} = {} /\ room.opened # 0  BY <3>2 DEF PageOK, AskOK, OpenOK
          <5>3. room.atEnd  BY <3>2, <4>1, <5>2 DEF SomethingOK
          <5>. QED  BY <3>1, <3>3, <5>1, <5>3 DEF Sight, NewestAsk
        <4>2. CASE room.held # {}
          <5>1. k.from \in room.held  BY <3>1, <4>2, <1>b, MinIn DEF Oldest
          <5>2. k.from \in saved' /\ k.from # 0  BY <5>1, <1>b, <2>0
          <5>. QED  BY <3>1, <5>2 DEF Sight, OlderAsk
        <4>. QED  BY <4>1, <4>2
      <3>5. Sees(room)' /\ AsksOK' /\ SomethingOK'  BY <2>1, <3>1, <3>2, <3>4, RoomAsks
      <3>. QED  BY <1>b, <3>1, <3>2, <3>3, <3>5 DEF KnownOK
    <2>6. CASE LoadNewer
      <3>. PICK k : k = NewAsk("window", Max(room.held), room.opened, 1)  OBVIOUS
      <3>1. ~k.got.read /\ k.got.ids = {} /\ k.kind = "window" /\ k.from = Max(room.held)
        BY NewAskOpen
      <3>2. /\ asks' = asks \cup {k} /\ room' = [room EXCEPT !.loading = TRUE]
            /\ room # NoRoom /\ ~room.loading /\ ~room.atEnd /\ room.held # {}
        BY <2>6 DEF LoadNewer
      <3>3. room'.held = room.held /\ room'.atEnd = room.atEnd  BY <1>a, <3>2 DEF Stream
      <3>4. k.from \in saved'  BY <1>b, <2>0, <3>1, <3>2, NewestIn
      <3>5. Sight(k)'  BY <3>1, <3>2, <3>3, <3>4 DEF Sight, WindowAsk
      <3>6. Sees(room)' /\ AsksOK' /\ SomethingOK'  BY <2>1, <3>1, <3>2, <3>5, RoomAsks
      <3>. QED  BY <1>b, <3>1, <3>2, <3>3, <3>6 DEF KnownOK
    <2>7. CASE ReleaseRoom
      <3>0. asks' = asks /\ room # NoRoom /\ ~room.loading  BY <2>7 DEF ReleaseRoom
      <3>1. CASE ~room.atEnd
        <4>1. room' = NoRoom  BY <2>7, <3>1 DEF ReleaseRoom
        <4>2. room'.held = {}  BY <4>1 DEF NoRoom
        <4>3. Sees(room)' /\ AsksOK' /\ SomethingOK'  BY <2>1, <3>0, <4>1, RoomGone
        <4>. QED  BY <3>0, <4>2, <4>3 DEF KnownOK
      <3>2. CASE room.atEnd
        <4>. PICK kept : kept = Largest(PageSize, room.held)  OBVIOUS
        <4>1. /\ room' = [room EXCEPT !.held = kept, !.fresh = @ \cap kept, !.atStart = FALSE]
              /\ Cardinality(room.held) > PageSize
          BY <2>7, <3>2 DEF ReleaseRoom
        <4>2. /\ room'.held = kept /\ room'.opened = room.opened /\ ~room'.atStart /\ room'.atEnd
          BY <1>a, <3>2, <4>1 DEF Stream
        <4>3. kept \subseteq room.held  BY DEF Largest
        <4>4. room.held # {}
          <5>1. Cardinality({}) = 0  BY FS_EmptySet
          <5>. QED  BY <1>a, <4>1, <5>1
        <4>5. kept # {}
          <5>1. /\ Max(room.held) \in room.held /\ \A o \in room.held : Max(room.held) >= o
            <6>1. room.held \in SUBSET Nat /\ minted \in Nat /\ \A o \in room.held : o <= minted  BY <1>b
            <6>. QED  BY <4>4, <6>1, MaxIn
          <5>2. \A o \in room.held : ~(o > Max(room.held))  BY <1>b, <5>1
          <5>3. Max(room.held) \in kept  BY <1>a, <5>1, <5>2, LargestHas
          <5>. QED  BY <5>3
        <4>6. ASSUME NEW x \in room.held \ kept PROVE \A o \in kept : x < o
          <5>1. x \in room.held /\ x \notin Largest(PageSize, room.held) /\ PageSize \in Nat  BY <1>a
          <5>. QED  BY ONLY <5>1, <1>b, LargestIs, kept = Largest(PageSize, room.held)
        <4>7. Sees(room)' /\ AsksOK' /\ SomethingOK'
          <5>1. \A x \in room.held \ room'.held : \/ ~room'.atStart /\ \A o \in room'.held : x < o
                                                  \/ ~room'.atEnd /\ \A o \in room'.held : o < x
            BY <4>2, <4>6
          <5>. QED  BY <2>1, <3>0, <3>2, <4>2, <4>3, <4>5, <5>1, RoomCut
        <4>. QED  BY <1>b, <3>0, <4>2, <4>3, <4>7 DEF KnownOK
      <3>. QED  BY <3>1, <3>2
    <2>. QED  BY <1>3, <2>3, <2>4, <2>5, <2>6, <2>7
  <1>. QED  BY <1>1, <1>2, <1>3 DEF Person

-----------------------------------------------------------------------------
(* Requests settled *)

\* A request that came to nothing, or whose answer is stale.
LEMMA DropSees ==
  ASSUME ServerOK, ServerOK', PageOK, KnownOK, Sees(room), AsksOK, SomethingOK, Later,
         Counted' \subseteq Counted, \A m : Coming(m)' <=> Coming(m),
         NEW a \in asks, asks' = asks \ {a}, room' \in {room, NotLoading(room)},
         StillOpen(a) => a.kind # "around"
  PROVE  Sees(room)' /\ AsksOK' /\ SomethingOK' /\ room'.held \subseteq saved
         /\ \A b \in asks' : b.got.ids \subseteq saved
  <1>0. /\ room'.held = room.held /\ room'.opened = room.opened /\ room'.atStart = room.atStart
        /\ room'.atEnd = room.atEnd /\ room'.loaded = room.loaded
    BY DEF NotLoading, PageOK, TypePage, Stream
  <1>1. AsksOK'  BY <1>0, AsksStay
  <1>2. Sees(room)'  BY <1>0 DEF Sees
  <1>3. SomethingOK'
    <2>1. ASSUME room.opened # 0, room.held = {}, ~room.atStart, ~room.atEnd
          PROVE  \E b \in asks' : StillOpen(b)' /\ b.kind = "around"
      <3>1. PICK b \in asks : StillOpen(b) /\ b.kind = "around"  BY <2>1 DEF SomethingOK
      <3>2. room' # NoRoom  BY <1>0, <2>1, NoRoomIs
      <3>. QED  BY <1>0, <3>1, <3>2 DEF StillOpen
    <2>. QED  BY <1>0, <2>1 DEF SomethingOK
  <1>. QED  BY <1>0, <1>1, <1>2, <1>3 DEF KnownOK

\* A request that waits, or is asked again: answered as it was, or not at all.
LEMMA ReplaceSees ==
  ASSUME ServerOK, ServerOK', PageOK, KnownOK, Sees(room), AsksOK, SomethingOK, Later,
         Counted' \subseteq Counted, \A m : Coming(m)' <=> Coming(m),
         NEW a \in asks, NEW k, asks' = (asks \ {a}) \cup {k}, room' = room,
         k.opened = a.opened, k.kind = a.kind, k.from = a.from,
         k.got = a.got \/ (~k.got.read /\ k.got.ids = {})
  PROVE  Sees(room)' /\ AsksOK' /\ SomethingOK' /\ room'.held \subseteq saved
         /\ \A b \in asks' : b.got.ids \subseteq saved
  <1>1. Sees(room)'  BY DEF Sees
  <1>2. SomethingOK'  BY DEF SomethingOK, StillOpen
  <1>3. ASSUME NEW b \in asks, StillOpen(b)' PROVE Sight(b)'
    <2>1. Sight(b)  BY <1>3 DEF AsksOK, StillOpen
    <2>. QED  BY <2>1, SightStays
  <1>4. ASSUME StillOpen(k)' PROVE Sight(k)'
    <2>1. Sight(a)'  BY <1>3, <1>4 DEF StillOpen
    <2>. QED  BY <2>1 DEF Sight, WindowAsk, OlderAsk, NewestAsk
  <1>5. AsksOK'  BY <1>3, <1>4 DEF AsksOK
  <1>. QED  BY <1>1, <1>2, <1>5 DEF KnownOK

\* A page merged: what it leaves out of the stretch is still to come, or is above it.
LEMMA PageMerged ==
  ASSUME ServerOK, PageOK, KnownOK, Sees(room), AsksOK, SomethingOK,
         Counted' \subseteq Counted, \A m : Coming(m)' <=> Coming(m),
         NEW a \in asks, StillOpen(a), a.kind = "page", a.got.read, asks' = asks \ {a},
         ~(a.from # 0 /\ Oldest(room.held) # a.from),
         room'.opened = room.opened, room'.held = room.held \cup a.got.ids, room'.atEnd = room.atEnd,
         room'.atStart = (Cardinality(a.got.ids) < PageSize)
  PROVE  Sees(room)' /\ AsksOK' /\ SomethingOK'
  <1>. DEFINE ids == a.got.ids
  <1>0. /\ saved \subseteq Nat /\ room.held \subseteq saved /\ ids \subseteq saved /\ Counted \subseteq saved
        /\ PageSize \in Nat \ {0}
    BY SavedIs, SizesAssumption DEF KnownOK, Counted
  <1>1. Sight(a)  BY DEF AsksOK
  <1>2. AsksOK'
    <2>. SUFFICES ASSUME NEW b \in asks', StillOpen(b)' PROVE FALSE  BY DEF AsksOK
    <2>1. b \in asks /\ b # a /\ StillOpen(b)  BY OpenStays
    <2>. QED  BY <2>1, OnlyAsk
  <1>3. room'.held # {} \/ room'.atStart
    <2>. SUFFICES ASSUME ids = {} PROVE room'.atStart  OBVIOUS
    <2>1. Cardinality(ids) = 0  BY FS_EmptySet
    <2>2. Cardinality(ids) < PageSize  BY <1>0, <2>1
    <2>. QED  BY <2>2
  <1>4. SomethingOK'  BY <1>3 DEF SomethingOK
  <1>5. ASSUME NEW x \in Counted, x \notin room.held, x \notin ids,
               Cardinality(ids) < PageSize \/ \E o \in room.held \cup ids : o < x
        PROVE  IF room.atEnd THEN Coming(x) ELSE \A o \in room.held \cup ids : o < x
    <2>1. CASE a.from = 0
      <3>1. NewestAsk(a)  BY <1>1, <2>1 DEF Sight
      <3>2. CASE \E o \in room.held : o < x  BY <1>5, <3>1, <3>2 DEF Sees, NewestAsk
      <3>3. CASE Cardinality(ids) < PageSize \/ \E o \in ids : o < x
        BY <1>5, <3>1, <3>3 DEF NewestAsk
      <3>. QED  BY <1>5, <3>2, <3>3
    <2>2. CASE a.from # 0
      <3>1. OlderAsk(a) /\ Oldest(room.held) = a.from  BY <1>1, <2>2 DEF Sight
      <3>2. room.held # {}  BY <2>2, <3>1 DEF Oldest
      <3>3. a.from \in room.held /\ \A o \in room.held : a.from <= o
        <4>1. room.held \in SUBSET Nat  BY <1>0
        <4>2. a.from = Min(room.held)  BY <3>1, <3>2 DEF Oldest
        <4>. QED  BY <3>2, <4>1, <4>2, MinIn
      <3>4. x \in Nat /\ a.from \in Nat /\ x # a.from  BY <1>0, <1>5, <3>3
      <3>5. ASSUME x < a.from PROVE FALSE
        <4>1. ~(Cardinality(ids) < PageSize) /\ \A o \in ids : x < o  BY <1>5, <3>1, <3>5 DEF OlderAsk
        <4>2. \A o \in room.held \cup ids : o \in Nat /\ x < o  BY <1>0, <3>3, <3>4, <3>5, <4>1
        <4>3. \A o \in room.held \cup ids : ~(o < x)  BY <3>4, <4>2
        <4>. HIDE DEF ids
        <4>. QED  BY <1>5, <4>1, <4>3
      <3>6. a.from < x  BY <3>4, <3>5
      <3>7. IF room.atEnd THEN Coming(x) ELSE \A o \in room.held : o < x
        BY <1>5, <3>3, <3>6 DEF Sees
      <3>8. \A o \in ids : o < x
        <4>1. \A o \in ids : o \in Nat /\ o < a.from  BY <1>0, <3>1 DEF OlderAsk
        <4>. QED  BY <3>4, <3>6, <4>1
      <3>. QED  BY <3>7, <3>8
    <2>. QED  BY <2>1, <2>2
  <1>6. Sees(room)'  BY <1>5 DEF Sees
  <1>. QED  BY <1>2, <1>4, <1>6

\* The fields of what a window makes of the room.
LEMMA LandedIs ==
  ASSUME PageOK, NEW a \in asks
  PROVE  LET q == Landed(a)
             held == (IF a.kind = "around" THEN {} ELSE room.held) \cup a.got.ids
         IN /\ q.held = held /\ q.opened = room.opened /\ q.loaded = TRUE /\ q.pending = room.pending
            /\ q.atStart = (Cardinality({m \in a.got.ids : m <= a.from}) < WindowOlder
                            \/ (a.kind = "window" /\ room.atStart))
            /\ q.atEnd = (Cardinality({m \in a.got.ids : m > a.from}) < WindowNewer /\ ~MissedOne(held))
  <1>. DEFINE held == (IF a.kind = "around" THEN {} ELSE room.held) \cup a.got.ids
              base == IF a.kind = "around" THEN [room EXCEPT !.held = {}, !.fresh = {}] ELSE room
              merged == MergePage(base, a.got)
              start == (Cardinality({m \in a.got.ids : m <= a.from}) < WindowOlder
                        \/ (a.kind = "window" /\ merged.atStart))
              end == (Cardinality({m \in a.got.ids : m > a.from}) < WindowNewer /\ ~MissedOne(merged.held))
  <1>0. room \in Stream /\ a.got \in [ids : SUBSET Ids, fresh : SUBSET Ids, read : BOOLEAN]
    BY DEF PageOK, TypePage, Stream, Ask
  <1>1. /\ base \in Stream /\ base.opened = room.opened /\ base.pending = room.pending
        /\ base.held = (IF a.kind = "around" THEN {} ELSE room.held) /\ base.atStart = room.atStart
    BY <1>0 DEF Stream
  <1>. HIDE DEF base
  <1>2. /\ merged \in Stream /\ merged.opened = room.opened /\ merged.pending = room.pending
        /\ merged.held = held
    BY <1>0, <1>1, MergePageKeeps
  <1>2a. merged.atStart = room.atStart  BY <1>0, <1>1 DEF MergePage, Stream
  <1>3. Landed(a) = [merged EXCEPT !.atStart = start, !.atEnd = end, !.loading = FALSE, !.loaded = TRUE]
    BY DEF Landed, base
  <1>4. start \in BOOLEAN /\ end \in BOOLEAN  OBVIOUS
  <1>. HIDE DEF merged, start, end, held
  <1>5. LET q == Landed(a)
        IN /\ q.held = held /\ q.opened = room.opened /\ q.loaded = TRUE /\ q.pending = room.pending
           /\ q.atStart = start /\ q.atEnd = end
    BY <1>2, <1>3, <1>4 DEF Stream
  <1>. QED  BY <1>2, <1>2a, <1>5 DEF start, end, held

\* A window merged: it is around a message the room holds, or is all of it, and
\* a room it brings to its end has missed nothing that was not heard of.
LEMMA WindowMerged ==
  ASSUME ServerOK, PageOK, KnownOK, HeardOK, Sees(room), AsksOK,
         NEW a \in asks, StillOpen(a), a.kind # "page", a.got.read, ~(a.kind = "window" /\ a.from \notin room.held)
  PROVE  Sees(Landed(a)) /\ Landed(a).held # {} /\ Landed(a).held \subseteq saved
  <1>. DEFINE ids == a.got.ids
              base == IF a.kind = "around" THEN {} ELSE room.held
              held == base \cup ids
              short == Cardinality({m \in ids : m <= a.from}) < WindowOlder
  <1>0. room \in Stream /\ a.kind \in {"window", "around"}  BY DEF PageOK, TypePage, Ask
  <1>1. /\ Landed(a).held = held
        /\ Landed(a).atStart = (short \/ (a.kind = "window" /\ room.atStart))
        /\ Landed(a).atEnd => ~MissedOne(held)
    BY <1>0, LandedIs
  <1>2. /\ saved \subseteq Nat /\ room.held \subseteq saved /\ ids \subseteq saved /\ Counted \subseteq saved
        /\ newest \in Nat /\ minted \in Nat /\ saved \subseteq 0..minted
    BY SavedIs DEF KnownOK, Counted, PageOK, TypePage
  <1>3. WindowAsk(a)  BY DEF AsksOK, Sight
  <1>4. a.from \in ids /\ a.from \in Nat /\ ~room.atEnd  BY <1>2, <1>3 DEF WindowAsk
  <1>5. held # {} /\ held \subseteq saved  BY <1>2, <1>4
  <1>6. ASSUME NEW x \in Counted, x \notin held, Landed(a).atStart \/ \E o \in held : o < x
        PROVE  IF Landed(a).atEnd THEN Coming(x) ELSE \A o \in held : o < x
    <2>0. x \in Nat /\ x # a.from /\ x \notin ids  BY <1>2, <1>4, <1>6
    <2>1. ASSUME x < a.from PROVE FALSE
      <3>1. ~short /\ \A o \in ids : x < o  BY <1>3, <2>0, <2>1 DEF WindowAsk
      <3>2. \A o \in ids : ~(o < x)
        <4>1. \A o \in ids : o \in Nat  BY <1>2
        <4>. HIDE DEF ids
        <4>. QED  BY <2>0, <3>1, <4>1
      <3>3. CASE a.kind = "around"
        <4>1. base = {} /\ ~Landed(a).atStart  BY <1>1, <3>1, <3>3
        <4>. HIDE DEF ids, base
        <4>. QED  BY <1>6, <3>2, <4>1
      <3>4. CASE a.kind = "window"
        <4>1. base = room.held /\ (Landed(a).atStart => room.atStart)  BY <1>1, <3>1, <3>4
        <4>2. x \notin room.held /\ (room.atStart \/ \E o \in room.held : o < x)
          <5>. HIDE DEF ids, base
          <5>. QED  BY <1>6, <3>2, <4>1
        <4>3. \A o \in room.held : o < x  BY <1>4, <4>2 DEF Sees
        <4>4. a.from < x  BY <3>4, <4>3
        <4>. QED  BY ONLY <1>4, <2>0, <2>1, <4>4
      <3>. QED  BY <1>0, <3>3, <3>4
    <2>2. a.from < x  BY <1>4, <2>0, <2>1
    <2>3. \A o \in ids : o < x
      <3>1. x > a.from  BY <1>4, <2>0, <2>2
      <3>. QED  BY <1>3, <2>0, <3>1 DEF WindowAsk
    <2>4. \A o \in base : o < x
      <3>1. CASE a.kind = "around"  BY <3>1
      <3>2. CASE a.kind = "window"
        <4>1. a.from \in room.held /\ x \notin room.held  BY <1>6, <3>2
        <4>. QED  BY <1>4, <2>2, <3>2, <4>1 DEF Sees
      <3>. QED  BY <1>0, <3>1, <3>2
    <2>5. \A o \in held : o < x  BY <2>3, <2>4
    <2>6. ASSUME Landed(a).atEnd, ~Coming(x) PROVE FALSE
      <3>1. x <= newest  BY <2>6 DEF HeardOK, Counted
      <3>2. Max(held) \in held
        <4>1. held \in SUBSET (0..minted)  BY <1>2, <1>5
        <4>. HIDE DEF held
        <4>. QED  BY <1>2, <1>5, <4>1, NewestIn
      <3>3. Max(held) < x /\ Max(held) \in Nat  BY <1>2, <1>5, <2>5, <3>2
      <3>4. newest > Max(held)  BY <1>2, <2>0, <3>1, <3>3
      <3>. QED  BY <1>1, <1>5, <2>6, <3>4 DEF MissedOne
    <2>. QED  BY <2>5, <2>6
  <1>. HIDE DEF held
  <1>. QED  BY <1>1, <1>5, <1>6 DEF Sees

LEMMA SettleSees ==
  ASSUME ServerOK, ServerOK', PageOK, GapInv, NEW a \in asks, Settle(a)
  PROVE  GapInv'
  <1>. USE DEF GapInv
  <1>a. room \in Stream /\ a \in Ask /\ a.kind \in {"page", "window", "around"}
    BY DEF PageOK, TypePage, Ask
  <1>0. UNCHANGED <<by, saved, keyed, untold, feed, newest, answers, late>>
    BY DEF Settle, PageArrives, PageFails, WaitEnds, WindowArrives, WindowFails, server, serverOnly, sending
  <1>1. OrderOK' /\ HeardOK' /\ Later /\ Counted' \subseteq Counted /\ \A m : Coming(m)' <=> Coming(m)
    BY <1>0, PageAlone
  <1>2. SUFFICES /\ Sees(room)' /\ AsksOK' /\ SomethingOK' /\ room'.held \subseteq saved
                 /\ \A b \in asks' : b.got.ids \subseteq saved
    BY <1>0, <1>1, PageAlone
  <1>3. CASE asks' = asks \ {a} /\ room' \in {room, NotLoading(room)} /\ (StillOpen(a) => a.kind # "around")
    BY <1>1, <1>3, DropSees
  <1>4. CASE PageArrives(a)
    <2>1. asks' = asks \ {a} /\ a.kind = "page" /\ a.got.read  BY <1>4 DEF PageArrives
    <2>2. CASE StillOpen(a) /\ ~(a.from # 0 /\ Oldest(room.held) # a.from)
      <3>. PICK q : q = MergePage(room, a.got)  OBVIOUS
      <3>1. room' = [q EXCEPT !.atStart = Cardinality(a.got.ids) < PageSize, !.loading = FALSE, !.loaded = TRUE]
        BY <1>4, <2>2 DEF PageArrives
      <3>2. /\ q.held = room.held \cup a.got.ids /\ q.opened = room.opened /\ q.atEnd = room.atEnd
            /\ DOMAIN q = {"held", "fresh", "atStart", "atEnd", "loading", "loaded", "pending", "opened"}
            /\ q = [q EXCEPT !.loaded = q.loaded]
        BY <1>a DEF MergePage, Stream
      <3>3. /\ room'.held = room.held \cup a.got.ids /\ room'.opened = room.opened /\ room'.atEnd = room.atEnd
            /\ room'.atStart = (Cardinality(a.got.ids) < PageSize)
        BY <3>1, <3>2
      <3>4. Sees(room)' /\ AsksOK' /\ SomethingOK'  BY <1>1, <2>1, <2>2, <3>3, PageMerged
      <3>. QED  BY <2>1, <3>3, <3>4 DEF KnownOK
    <2>3. CASE ~(StillOpen(a) /\ ~(a.from # 0 /\ Oldest(room.held) # a.from))
      <3>1. room' \in {room, NotLoading(room)}  BY <1>4, <2>3 DEF PageArrives
      <3>. QED  BY <1>3, <2>1, <3>1
    <2>. QED  BY <2>2, <2>3
  <1>5. CASE PageFails(a)
    <2>0. a.kind = "page"  BY <1>5 DEF PageFails
    <2>1. CASE StillOpen(a) /\ a.left > 0
      <3>. PICK k : k = [a EXCEPT !.st = "waiting", !.left = @ - 1, !.got = NoPage]  OBVIOUS
      <3>1. asks' = (asks \ {a}) \cup {k} /\ room' = room  BY <1>5, <2>1 DEF PageFails
      <3>2. k.opened = a.opened /\ k.kind = a.kind /\ k.from = a.from /\ ~k.got.read /\ k.got.ids = {}
        BY <1>a DEF Ask, NoPage
      <3>. QED  BY <1>1, <3>1, <3>2, ReplaceSees
    <2>2. CASE ~(StillOpen(a) /\ a.left > 0)
      <3>1. asks' = asks \ {a} /\ room' \in {room, NotLoading(room)}  BY <1>5, <2>2 DEF PageFails
      <3>. QED  BY <1>3, <2>0, <3>1
    <2>. QED  BY <2>1, <2>2
  <1>6. CASE WaitEnds(a)
    <2>1. CASE StillOpen(a)
      <3>. PICK k : k = [a EXCEPT !.st = "asked"]  OBVIOUS
      <3>1. asks' = (asks \ {a}) \cup {k} /\ room' = room  BY <1>6, <2>1 DEF WaitEnds
      <3>2. k.opened = a.opened /\ k.kind = a.kind /\ k.from = a.from /\ k.got = a.got
        BY <1>a DEF Ask
      <3>. QED  BY <1>1, <3>1, <3>2, ReplaceSees
    <2>2. CASE ~StillOpen(a)
      <3>1. asks' = asks \ {a} /\ room' = room  BY <1>6, <2>2 DEF WaitEnds
      <3>. QED  BY <1>3, <2>2, <3>1
    <2>. QED  BY <2>1, <2>2
  <1>7. CASE WindowArrives(a)
    <2>0. a.kind # "page" /\ a.got.read  BY <1>7 DEF WindowArrives
    <2>1. CASE ~StillOpen(a) \/ (a.kind = "window" /\ a.from \notin room.held)
      <3>1. asks' = asks \ {a} /\ room' \in {room, NotLoading(room)}  BY <1>7, <2>1 DEF WindowArrives
      <3>. QED  BY <1>3, <2>1, <3>1
    <2>2. CASE StillOpen(a) /\ ~(a.kind = "window" /\ a.from \notin room.held)
      <3>. PICK r : r = Landed(a)  OBVIOUS
      <3>1. /\ Sees(r) /\ r.held # {} /\ r.held \subseteq saved  BY <2>0, <2>2, WindowMerged
      <3>1a. r \in Stream /\ r.opened = room.opened  BY LandedKeeps
      <3>2. \A b \in asks : b # a => ~StillOpen(b)  BY <2>2, OnlyAsk
      <3>3. ASSUME room'.held = r.held, room'.atStart = r.atStart, room'.atEnd = r.atEnd
            PROVE  Sees(room)' /\ SomethingOK'
        <4>1. Sees(room)'  BY <1>1, <3>1, <3>3 DEF Sees
        <4>2. SomethingOK'  BY <3>1, <3>3 DEF SomethingOK
        <4>. QED  BY <4>1, <4>2
      <3>4. CASE ReadsOn(a)
        <4>. PICK k : k = NewAsk("window", Max(r.held), r.opened, a.left - 1)  OBVIOUS
        <4>1. room' = [r EXCEPT !.loading = TRUE] /\ asks' = (asks \ {a}) \cup {k} /\ ~r.atEnd
          BY <1>7, <2>2, <3>4 DEF WindowArrives, ReadsOn
        <4>2. /\ room'.held = r.held /\ room'.opened = room.opened /\ room'.atStart = r.atStart
              /\ room'.atEnd = r.atEnd
          BY <3>1a, <4>1 DEF Stream
        <4>3. ~k.got.read /\ k.got.ids = {} /\ k.kind = "window" /\ k.from = Max(r.held)  BY NewAskOpen
        <4>4. k.from \in saved'
          <5>1. r.held \in SUBSET (0..minted) /\ minted \in Nat  BY <3>1, SavedIs
          <5>. QED  BY <1>0, <3>1, <4>3, <5>1, NewestIn
        <4>5. Sight(k)'  BY <4>1, <4>2, <4>3, <4>4 DEF Sight, WindowAsk
        <4>6. \A b \in asks : b # a => ~StillOpen(b)'  BY <3>2, <4>2, OpenStays
        <4>7. AsksOK'  BY <4>1, <4>5, <4>6 DEF AsksOK
        <4>. QED  BY <3>1, <3>3, <4>1, <4>2, <4>3, <4>7 DEF KnownOK
      <3>5. CASE ~ReadsOn(a)
        <4>1. room' = r /\ asks' = asks \ {a}  BY <1>7, <2>2, <3>5 DEF WindowArrives
        <4>2. \A b \in asks : b # a => ~StillOpen(b)'  BY <3>1a, <3>2, <4>1, OpenStays
        <4>3. AsksOK'  BY <4>1, <4>2 DEF AsksOK
        <4>. QED  BY <3>1, <3>3, <4>1, <4>3 DEF KnownOK
      <3>. QED  BY <3>4, <3>5
    <2>. QED  BY <2>1, <2>2
  <1>8. CASE WindowFails(a)
    <2>1. CASE StillOpen(a) /\ a.kind = "around"
      <3>1. Open(asks \ {a}, <<>>) /\ asks \ {a} \in SUBSET asks  BY <1>8, <2>1 DEF WindowFails
      <3>. QED  BY <3>1, OpenSees
    <2>2. CASE ~(StillOpen(a) /\ a.kind = "around")
      <3>1. asks' = asks \ {a} /\ room' \in {room, NotLoading(room)}  BY <1>8, <2>2 DEF WindowFails
      <3>. QED  BY <1>3, <2>2, <3>1
    <2>. QED  BY <2>1, <2>2
  <1>. QED  BY <1>4, <1>5, <1>6, <1>7, <1>8 DEF Settle

-----------------------------------------------------------------------------
LEMMA GapInit == Init => GapInv
  <1>. SUFFICES ASSUME Init PROVE GapInv  OBVIOUS
  <1>. USE DEF Init
  <1>1. room.held = {} /\ ~room.atStart /\ ~room.atEnd /\ ~room.loaded /\ room.opened = 0  BY DEF NoRoom
  <1>2. DOMAIN feed = {}  OBVIOUS
  <1>3. Counted = {}  BY DEF Counted
  <1>4. KnownOK  BY <1>1 DEF KnownOK
  <1>5. OrderOK /\ HeardOK  BY <1>2, <1>3 DEF OrderOK, HeardOK
  <1>6. Sees(room) /\ AsksOK /\ SomethingOK  BY <1>1, <1>3 DEF Sees, AsksOK, SomethingOK
  <1>. QED  BY <1>4, <1>5, <1>6 DEF GapInv

LEMMA GapStep == HInv /\ GapInv /\ [Next]_vars => GapInv'
  <1>. SUFFICES ASSUME HInv, GapInv, [Next]_vars PROVE GapInv'  OBVIOUS
  <1>0. ServerOK /\ ServerOK' /\ TypeSends /\ PageOK  BY HInvStep DEF HInv
  <1>1. CASE Server /\ ~ \E a \in asks : ReadPage(a)
    <2>1. OrderOK' /\ HeardOK' /\ Later /\ KnownOK' /\ UNCHANGED <<newest, room, openings, asks>>
      BY <1>0, <1>1, ServerLater DEF GapInv
    <2>2. Sees(room)' /\ AsksOK' /\ SomethingOK'  BY <1>0, <2>1, RoomGrows DEF GapInv
    <2>. QED  BY <2>1, <2>2 DEF GapInv
  <1>2. CASE \E a \in asks : ReadPage(a)  BY <1>0, <1>2, ReadKeeps
  <1>3. CASE Person  BY <1>0, <1>3, PersonSees
  <1>4. CASE Hear  BY <1>0, <1>4, HearKeeps
  <1>5. CASE Ready  BY <1>0, <1>5, ReadyKeeps
  <1>6. CASE \E a \in asks : Settle(a)  BY <1>0, <1>6, SettleSees
  <1>7. CASE (\E s \in Sends : SendFails(s)) \/ \E a \in answers : AnswerArrives(a) \/ EditAnswered(a)
    BY <1>0, <1>7, SendsKeep
  <1>8. CASE UNCHANGED vars
    <2>1. UNCHANGED <<by, saved, keyed, untold, feed, newest, late, room, openings, asks, answers>>
      BY <1>8 DEF vars, server, serverOnly, page, sending
    <2>2. OrderOK' /\ HeardOK' /\ Later  BY <1>0, <2>1, PageAlone DEF GapInv
    <2>3. KnownOK'  BY <2>1 DEF GapInv, KnownOK
    <2>4. Sees(room)' /\ AsksOK' /\ SomethingOK'  BY <1>0, <2>1, <2>2, RoomGrows DEF GapInv
    <2>. QED  BY <2>2, <2>3, <2>4 DEF GapInv
  <1>. QED  BY <1>1, <1>2, <1>3, <1>4, <1>5, <1>6, <1>7, <1>8 DEF Next, Network

\* The stretch a room holds has no gap it does not show: what is missing from it
\* is late, a quiet line, or on its way to a room that will fold it.  For any
\* sizes of pages, trims and posts, in whatever order pages, windows, frames,
\* answers and trims overtake each other (fetchPage, fetchWindow, apply,
\* trimHistory, releaseOtherRooms, sendMessage, editMessage).
THEOREM NoGapUnseen == Spec => []NoInvisibleGap
  <1>1. Init => HInv /\ GapInv  BY HInvInit, GapInit
  <1>2. HInv /\ GapInv /\ [Next]_vars => (HInv /\ GapInv)'  BY HInvStep, GapStep
  <1>3. HInv /\ GapInv => NoInvisibleGap
    <2>. SUFFICES ASSUME HInv, GapInv, NEW m \in saved \ late, Missing(m), ~QuietLine(m)
                  PROVE  room.atEnd /\ Coming(m)
      BY DEF NoInvisibleGap
    <2>1. m \in Counted \ room.held  BY DEF Counted, Missing
    <2>2. saved \subseteq Nat /\ room.held \subseteq saved /\ m \in Nat
      BY SavedIs DEF HInv, GapInv, KnownOK
    <2>3. room.atStart \/ \E o \in room.held : o < m
      <3>1. CASE room.held = {}  BY <3>1 DEF GapInv, SomethingOK, Missing
      <3>2. CASE room.held # {}
        <4>1. Oldest(room.held) \in room.held  BY <2>2, <3>2, MinIn DEF Oldest
        <4>2. room.atStart \/ m > Oldest(room.held)  BY DEF Missing
        <4>3. m > Oldest(room.held) => Oldest(room.held) < m  BY <2>2, <4>1
        <4>. QED  BY <4>1, <4>2, <4>3
      <3>. QED  BY <3>1, <3>2
    <2>4. IF room.atEnd THEN Coming(m) ELSE \A o \in room.held : o < m
      BY <2>1, <2>3 DEF GapInv, Sees
    <2>5. CASE ~room.atEnd
      <3>1. PICK o \in room.held : o > m  BY <2>5 DEF Missing
      <3>2. o < m /\ o \in Nat  BY <2>2, <2>4, <2>5
      <3>. QED  BY <2>2, <3>1, <3>2
    <2>. QED  BY <2>4, <2>5
  <1>. QED  BY <1>1, <1>2, <1>3, PTL DEF Spec

=============================================================================
