---------------------------- MODULE RoomHistory ----------------------------
(***************************************************************************)
(* One room as the page holds it (RoomStream in client/src/lib/gateway.ts):*)
(* a stretch of the room's messages, put together from pages asked for     *)
(* over HTTP, live frames, and the answers to this person's own posts,     *)
(* which overtake each other freely.  The server's side is what posting    *)
(* does (routes/messages.rs, repo/nonces.rs): an id is minted, the post is *)
(* committed by the one writer, and only then published.                   *)
(*                                                                         *)
(* A message is its id.  What it says is one bit, edited or not, and every *)
(* message this person sends says the same thing, the worst case for       *)
(* matchesPending.  Page sizes are constants.                              *)
(***************************************************************************)
EXTENDS Naturals, Sequences, FiniteSets, FiniteSetsExt

CONSTANTS
  MaxMsgs,      \* ids ever minted
  MaxPosting,   \* posts between minting and commit at one time
  MaxOpenings,  \* openings after which the person opens the room no more
  MaxEdits,     \* messages edited
  Sends,        \* this person's sends, by their nonce
  MaxTries,     \* times one send is tried
  Lag,          \* messages committed and not yet folded from the feed
  Quiet,        \* ids that, posted by others, are quiet lines (message of the day, join line)
  PageSize,     \* PAGE_SIZE
  Kept,         \* KEPT_BEYOND_VIEW
  TrimOver,     \* TRIM_OVER
  Waits,        \* Len(FIRST_PAGE_RETRY_MS)
  Other         \* whoever else posts

Ids == 1..MaxMsgs

ASSUME SizesAssumption ==
  /\ {MaxMsgs, MaxPosting, MaxOpenings, MaxEdits, MaxTries, Waits, Lag} \subseteq Nat
  /\ {PageSize, Kept, TrimOver} \subseteq Nat \ {0}
  /\ Quiet \subseteq Ids
  /\ Other \notin Sends

VARIABLES
  \* the server
  minted,     \* ids handed out so far: 1..minted
  by,         \* who posts each id: Other, or a send
  posting,    \* posts past their first check, not committed: [id, try]
  saved,      \* the messages committed
  keyed,      \* message_nonces: the message each send was saved as, 0 if none
  edited,     \* the messages whose edit is committed
  untold,     \* committed changes not yet published
  feed,       \* the frames published that the page has yet to fold
  late,       \* history: posts that crossed (ids, commits and frames not in one order), and
              \* those the page loses sight of (AnswerArrives, EditAnswered, TrimHistory)
  \* the page
  newest,     \* newest[room]: the newest message it knows of
  room,       \* its RoomStream, or NoRoom
  openings,   \* the counter behind RoomStream.opened
  asks,       \* its requests for pages, on the way or answered
  sends,      \* its sends: [st, try]
  wire,       \* its tries on the way to the server: <<send, try>>
  answers     \* answers on the way back, to its posts and (send = Other) its edits: [send, id, new]

serverOnly == <<minted, by, posting, saved, keyed, edited, untold, late>>
server == <<serverOnly, feed>>
page == <<newest, room, openings, asks>>
sending == <<sends, wire, answers>>
vars == <<server, page, sending>>

NoRoom == [held |-> {}, fresh |-> {}, atStart |-> FALSE, atEnd |-> FALSE,
           loading |-> FALSE, loaded |-> FALSE, pending |-> <<>>, opened |-> 0]
NoPage == [ids |-> {}, fresh |-> {}, read |-> FALSE]

\* How the halves of a window are split, mirroring the server.
WindowOlder == PageSize - PageSize \div 2
WindowNewer == PageSize \div 2

Change == [op : {"create", "update", "edit"}, id : Ids, try : 0..MaxTries]
Frame == [op : {"create", "update"}, id : Ids, new : BOOLEAN]
Stream == [held : SUBSET Ids, fresh : SUBSET Ids, atStart : BOOLEAN, atEnd : BOOLEAN,
           loading : BOOLEAN, loaded : BOOLEAN, pending : Seq(Sends), opened : Nat]
Ask == [kind : {"page", "window", "around"}, from : 0..MaxMsgs, opened : Nat,
        left : Nat, st : {"asked", "waiting"}, got : [ids : SUBSET Ids, fresh : SUBSET Ids, read : BOOLEAN]]

Init ==
  /\ minted = 0 /\ by = [i \in Ids |-> Other] /\ posting = {} /\ saved = {}
  /\ keyed = [s \in Sends |-> 0] /\ edited = {} /\ untold = {} /\ feed = <<>> /\ late = {}
  /\ newest = 0 /\ room = NoRoom /\ openings = 0 /\ asks = {}
  /\ sends = [s \in Sends |-> [st |-> "unsent", try |-> 0]] /\ wire = {} /\ answers = {}

\* The n largest, and the n smallest, of a set of ids.
Largest(n, S) == {m \in S : Cardinality({o \in S : o > m}) < n}
Smallest(n, S) == {m \in S : Cardinality({o \in S : o < m}) < n}
Oldest(S) == IF S = {} THEN 0 ELSE Min(S)

-----------------------------------------------------------------------------
(* The server *)

\* isQuietLine: a line the server wrote.
QuietLine(m) == m \in Quiet /\ by[m] = Other

\* An id is minted before the transaction begins and waits for the writer.
Mint(who, n) ==
  /\ minted < MaxMsgs
  /\ minted' = minted + 1
  /\ by' = [by EXCEPT ![minted + 1] = who]
  /\ posting' = posting \cup {[id |-> minted + 1, try |-> n]}

Answer(s, id) == [send |-> s, id |-> id, new |-> id \in edited]

\* The answer to a try reaches the page only while that try is the one awaited.
AnswerTo(s, n, id) ==
  answers' = IF sends[s] = [st |-> "waiting", try |-> n]
             THEN answers \cup {Answer(s, id)} ELSE answers

\* Somebody else posts here.
OtherPosts ==
  /\ Cardinality(posting) < MaxPosting
  /\ Mint(Other, 0)
  /\ UNCHANGED <<saved, keyed, edited, untold, feed, late, page, sending>>

\* create: a retry of a saved post is answered with that message, or goes on to post.
TryArrives(s, n) ==
  /\ <<s, n>> \in wire
  /\ wire' = wire \ {<<s, n>>}
  /\ IF keyed[s] # 0
     THEN /\ AnswerTo(s, n, keyed[s])
          /\ UNCHANGED <<minted, by, posting>>
     ELSE Cardinality(posting) < MaxPosting /\ Mint(s, n) /\ UNCHANGED answers
  /\ UNCHANGED <<saved, keyed, edited, untold, feed, late, page, sends>>

\* Mutant: the key is looked for only before the transaction.
AlreadyPostedUnseen(p) == FALSE

\* check_in, inside the transaction: this post's key was saved meanwhile.
AlreadyPosted(p) == by[p.id] # Other /\ keyed[by[p.id]] # 0

Unpublished(m) == \E c \in untold : c.op = "create" /\ c.id = m

\* A message's create frame is still to come.
Coming(m) ==
  Unpublished(m) \/ \E i \in DOMAIN feed : feed[i].op = "create" /\ feed[i].id = m

Commit(p) ==
  /\ p \in posting
  /\ Cardinality({m \in saved : Coming(m)}) < Lag
  /\ posting' = posting \ {p}
  /\ IF AlreadyPosted(p)
     THEN /\ AnswerTo(by[p.id], p.try, keyed[by[p.id]])
          /\ UNCHANGED <<saved, keyed, untold, late>>
     ELSE /\ saved' = saved \cup {p.id}
          /\ keyed' = IF by[p.id] = Other THEN keyed ELSE [keyed EXCEPT ![by[p.id]] = p.id]
          /\ untold' = untold \cup {[op |-> "create", id |-> p.id, try |-> p.try]}
          /\ late' = LET passed == {m \in saved : m > p.id}
                     IN IF passed # {} THEN late \cup passed \cup {p.id} ELSE late
          /\ UNCHANGED answers
  /\ UNCHANGED <<minted, by, edited, feed, page, sends, wire>>

\* An edit, a pin or a vote: somebody's ("update"), or this person's ("edit"),
\* of a message on screen.
Edit(m, op) ==
  /\ m \in saved \ edited /\ ~QuietLine(m)
  /\ Cardinality(edited) < MaxEdits
  /\ op = "edit" => m \in room.held
  /\ edited' = edited \cup {m}
  /\ untold' = untold \cup {[op |-> op, id |-> m, try |-> 0]}
  /\ UNCHANGED <<minted, by, posting, saved, keyed, feed, late, page, sending>>

\* The message is read back and published; a post or an edit is then answered.
Publish(c) ==
  /\ c \in untold
  /\ untold' = untold \ {c}
  /\ feed' = Append(feed, [op |-> IF c.op = "create" THEN "create" ELSE "update",
                           id |-> c.id, new |-> c.id \in edited])
  /\ IF c.op = "create" /\ by[c.id] # Other
     THEN AnswerTo(by[c.id], c.try, c.id)
     ELSE answers' = IF c.op = "edit" THEN answers \cup {Answer(Other, c.id)} ELSE answers
  /\ late' = LET passed == {m \in saved : m < c.id /\ Unpublished(m)}
             IN IF c.op = "create" /\ passed # {} THEN late \cup passed \cup {c.id} ELSE late
  /\ UNCHANGED <<minted, by, posting, saved, keyed, edited, page, sends, wire>>

\* The newest page, or the page before an id.
PageOf(before) == Largest(PageSize, IF before = 0 THEN saved ELSE {m \in saved : m < before})

\* The window around an id: each half capped on its own.
WindowOf(around) ==
  Largest(WindowOlder, {m \in saved : m <= around})
    \cup Smallest(WindowNewer, {m \in saved : m > around})

ReadPage(a) ==
  /\ a \in asks /\ a.st = "asked" /\ ~a.got.read
  /\ LET ids == IF a.kind = "page" THEN PageOf(a.from) ELSE WindowOf(a.from)
     IN asks' = (asks \ {a}) \cup
                {[a EXCEPT !.got = [ids |-> ids, fresh |-> ids \cap edited, read |-> TRUE]]}
  /\ UNCHANGED <<server, newest, room, openings, sending>>

-----------------------------------------------------------------------------
(* The page: frames *)

\* mergeMessage: one message put in, or its newer form put over it.
Merge(r, m, new) ==
  [r EXCEPT !.held = @ \cup {m}, !.fresh = IF new THEN @ \cup {m} ELSE @ \ {m}]

\* apply, message.create and message.update.
Fold(r, f) ==
  LET merged == IF f.id \in r.held \/ (f.op = "create" /\ r.atEnd)
                THEN Merge(r, f.id, f.new) ELSE r
  IN IF f.op = "create" /\ by[f.id] # Other /\ merged.pending # <<>>
     THEN [merged EXCEPT !.pending = Tail(@)] ELSE merged

Tracks(f) == f.op = "create" /\ ~QuietLine(f.id) /\ newest < f.id

Hear ==
  /\ feed # <<>>
  /\ LET f == Head(feed)
     IN /\ room' = IF room = NoRoom THEN room ELSE Fold(room, f)
        /\ newest' = IF Tracks(f) THEN f.id ELSE newest
  /\ feed' = Tail(feed)
  /\ UNCHANGED <<serverOnly, openings, asks, sending>>

\* A fresh `ready`: loaded history goes, and the feed starts over from here.
Ready ==
  /\ room # NoRoom
  /\ feed' = <<>>
  /\ room' = NoRoom
  /\ newest' = Max({0} \cup {m \in saved : ~QuietLine(m)})
  /\ UNCHANGED <<serverOnly, openings, asks, sending>>

-----------------------------------------------------------------------------
(* The page: pages *)

StillOpen(a) == room # NoRoom /\ room.opened = a.opened

NewAsk(kind, from, opened, left) ==
  [kind |-> kind, from |-> from, opened |-> opened, left |-> left, st |-> "asked", got |-> NoPage]

\* The rest of openRoom, once it is known that the room has to be opened.
\* `others` are the requests that stay in flight, `pending` the stand-ins kept.
Open(others, pending) ==
  /\ openings' = openings + 1
  /\ room' = [NoRoom EXCEPT !.atEnd = TRUE, !.loading = TRUE, !.pending = pending, !.opened = openings + 1]
  /\ asks' = others \cup {NewAsk("page", 0, openings + 1, Waits)}

\* openRoom of a room already loaded, or on its way, does nothing.
OpenRoom ==
  /\ openings < MaxOpenings
  /\ ~room.loaded /\ ~room.loading
  /\ Open(asks, room.pending)
  /\ UNCHANGED <<server, newest, sending>>

OpenAround(m) ==
  /\ openings < MaxOpenings
  /\ m \in saved
  /\ openings' = openings + 1
  /\ room' = [NoRoom EXCEPT !.loading = TRUE, !.opened = openings + 1]
  /\ asks' = asks \cup {NewAsk("around", m, openings + 1, 0)}
  /\ UNCHANGED <<server, newest, sending>>

LeaveWindow ==
  /\ openings < MaxOpenings
  /\ room # NoRoom
  /\ Open(asks, <<>>)
  /\ UNCHANGED <<server, newest, sending>>

LoadOlder ==
  /\ room # NoRoom /\ ~room.loading /\ ~room.atStart
  /\ room' = [room EXCEPT !.loading = TRUE]
  /\ asks' = asks \cup {NewAsk("page", Oldest(room.held), room.opened, 0)}
  /\ UNCHANGED <<server, newest, openings, sending>>

\* `left` counts the reads loadNewer may still make: two at most.
LoadNewer ==
  /\ room # NoRoom /\ ~room.loading /\ ~room.atEnd /\ room.held # {}
  /\ room' = [room EXCEPT !.loading = TRUE]
  /\ asks' = asks \cup {NewAsk("window", Max(room.held), room.opened, 1)}
  /\ UNCHANGED <<server, newest, openings, sending>>

\* mergePage: the page's form of a message is put over the one held.
MergePage(r, got) ==
  [r EXCEPT !.held = @ \cup got.ids, !.fresh = (@ \ got.ids) \cup got.fresh]

\* Mutant: a page dropped or failed leaves the room loading.
StillLoading(r) == r

NotLoading(r) == [r EXCEPT !.loading = FALSE]

\* fetchPage, once its page has come.
PageArrives(a) ==
  /\ a \in asks /\ a.kind = "page" /\ a.got.read
  /\ asks' = asks \ {a}
  /\ room' = IF ~StillOpen(a) THEN room
             ELSE IF a.from # 0 /\ Oldest(room.held) # a.from THEN NotLoading(room)
             ELSE [MergePage(room, a.got) EXCEPT
                     !.atStart = Cardinality(a.got.ids) < PageSize, !.loading = FALSE, !.loaded = TRUE]
  /\ UNCHANGED <<server, newest, openings, sending>>

\* It did not come.  An opening with tries left waits, still loading.
PageFails(a) ==
  /\ a \in asks /\ a.kind = "page" /\ a.st = "asked"
  /\ IF StillOpen(a) /\ a.left > 0
     THEN /\ asks' = (asks \ {a}) \cup {[a EXCEPT !.st = "waiting", !.left = @ - 1, !.got = NoPage]}
          /\ UNCHANGED room
     ELSE /\ asks' = asks \ {a}
          /\ room' = IF StillOpen(a) THEN NotLoading(room) ELSE room
  /\ UNCHANGED <<server, newest, openings, sending>>

WaitEnds(a) ==
  /\ a \in asks /\ a.st = "waiting"
  /\ asks' = (asks \ {a}) \cup (IF StillOpen(a) THEN {[a EXCEPT !.st = "asked"]} ELSE {})
  /\ UNCHANGED <<server, newest, room, openings, sending>>

\* Mutant: nothing is compared with the newest message heard of.
MissedNone(held) == FALSE

\* A message posted while the window was on the wire, and dropped.
MissedOne(held) == held # {} /\ newest > Max(held)

\* fetchWindow's last write: what the window makes of the room.
Landed(a) ==
  LET base == IF a.kind = "around" THEN [room EXCEPT !.held = {}, !.fresh = {}] ELSE room
      merged == MergePage(base, a.got)
      short == Cardinality({m \in a.got.ids : m <= a.from}) < WindowOlder
      ends == Cardinality({m \in a.got.ids : m > a.from}) < WindowNewer
  IN [merged EXCEPT !.atStart = short \/ (a.kind = "window" /\ @),
                    !.atEnd = ends /\ ~MissedOne(merged.held),
                    !.loading = FALSE, !.loaded = TRUE]

\* loadNewer reads once more when the page ended the room and a message was missed.
ReadsOn(a) ==
  /\ a.kind = "window" /\ a.left > 0
  /\ Cardinality({m \in a.got.ids : m > a.from}) < WindowNewer
  /\ ~Landed(a).atEnd

WindowArrives(a) ==
  /\ a \in asks /\ a.kind # "page" /\ a.got.read
  /\ IF ~StillOpen(a) THEN asks' = asks \ {a} /\ UNCHANGED room
     ELSE IF a.kind = "window" /\ a.from \notin room.held
     THEN asks' = asks \ {a} /\ room' = NotLoading(room)
     ELSE LET r == Landed(a)
          IN IF ReadsOn(a)
             THEN /\ room' = [r EXCEPT !.loading = TRUE]
                  /\ asks' = (asks \ {a}) \cup {NewAsk("window", Max(r.held), r.opened, a.left - 1)}
             ELSE room' = r /\ asks' = asks \ {a}
  /\ UNCHANGED <<server, newest, openings, sending>>

\* It did not come: reading on stops, and a landing goes back to the newest.
WindowFails(a) ==
  /\ a \in asks /\ a.kind # "page"
  /\ IF StillOpen(a) /\ a.kind = "around" THEN Open(asks \ {a}, <<>>)
     ELSE /\ asks' = asks \ {a}
          /\ room' = IF StillOpen(a) THEN NotLoading(room) ELSE room
          /\ UNCHANGED openings
  /\ UNCHANGED <<server, newest, sending>>

\* What is kept of a room: the view, and Kept messages either side of it.
Near(first, last) ==
  {m \in room.held : /\ Cardinality({o \in room.held : m <= o /\ o < first}) <= Kept
                     /\ Cardinality({o \in room.held : last < o /\ o <= m}) <= Kept}

TrimHistory(first, last) ==
  /\ room # NoRoom /\ ~room.loading /\ Cardinality(room.held) > TrimOver
  /\ {first, last} \subseteq room.held /\ first <= last
  /\ LET near == Near(first, last)
     IN /\ near # room.held
        /\ room' = [room EXCEPT !.held = near, !.fresh = @ \cap near,
                                !.atStart = @ /\ Min(near) = Min(room.held),
                                !.atEnd = @ /\ Max(near) = Max(room.held)]
        /\ late' = IF room.atEnd /\ ~room'.atEnd
                   THEN late \cup {m \in saved \ room.held : Coming(m) /\ m < Max(near)} ELSE late
  /\ UNCHANGED <<minted, by, posting, saved, keyed, edited, untold, feed, newest, openings, asks, sending>>

\* releaseOtherRooms, from another room: a window is dropped whole, a long
\* history is cut to its newest page.
ReleaseRoom ==
  /\ room # NoRoom /\ ~room.loading /\ room.pending = <<>>
  /\ ~room.atEnd \/ Cardinality(room.held) > PageSize
  /\ room' = IF ~room.atEnd THEN NoRoom
             ELSE LET kept == Largest(PageSize, room.held)
                  IN [room EXCEPT !.held = kept, !.fresh = @ \cap kept, !.atStart = FALSE]
  /\ UNCHANGED <<server, newest, openings, asks, sending>>

-----------------------------------------------------------------------------
(* The page: sending *)

\* Mutant: the stand-in stays.
WithStandIn(pending, s) == pending

\* The filter on a key, and a send has one stand-in at most (StandInsEnd).
WithoutStandIn(pending, s) ==
  IF \E i \in DOMAIN pending : pending[i] = s
  THEN LET i == CHOOSE i \in DOMAIN pending : pending[i] = s
       IN SubSeq(pending, 1, i - 1) \o SubSeq(pending, i + 1, Len(pending))
  ELSE pending

\* sendMessage, and a retry of one that failed, with the same nonce.
SendMessage(s) ==
  /\ sends[s].st \in {"unsent", "failed"} /\ sends[s].try < MaxTries
  /\ sends' = [sends EXCEPT ![s] = [st |-> "waiting", try |-> @.try + 1]]
  /\ wire' = wire \cup {<<s, sends[s].try + 1>>}
  /\ room' = IF room.atEnd THEN [room EXCEPT !.pending = Append(@, s)] ELSE room
  /\ UNCHANGED <<server, newest, openings, asks, answers>>

\* The request or its answer is lost; the server may have the request all the same.
SendFails(s) ==
  /\ sends[s].st = "waiting"
  /\ sends' = [sends EXCEPT ![s].st = "failed"]
  /\ wire' \in {wire, wire \ {<<s, sends[s].try>>}}
  /\ answers' = {a \in answers : a.send # s}
  /\ room' = [room EXCEPT !.pending = WithoutStandIn(@, s)]
  /\ UNCHANGED <<server, newest, openings, asks>>

AnswerArrives(a) ==
  /\ a \in answers /\ a.send \in Sends
  /\ answers' = answers \ {a}
  /\ sends' = [sends EXCEPT ![a.send].st = "sent"]
  /\ IF room = NoRoom THEN UNCHANGED <<room, openings, asks>>
     ELSE IF ~room.atEnd THEN Open(asks, <<>>)
     ELSE /\ room' = [Merge(room, a.id, a.new) EXCEPT !.pending = WithoutStandIn(@, a.send)]
          /\ UNCHANGED <<openings, asks>>
  /\ late' = IF room.atEnd THEN late \cup {m \in saved \ room.held : m > a.id /\ ~Coming(m)} ELSE late
  /\ UNCHANGED <<minted, by, posting, saved, keyed, edited, untold, feed, newest, wire>>

\* editMessage, pinMessage and putChanged: the answer is merged, held or not.
EditAnswered(a) ==
  /\ a \in answers /\ a.send = Other
  /\ answers' = answers \ {a}
  /\ room' = IF room = NoRoom THEN room ELSE Merge(room, a.id, a.new)
  /\ late' = IF a.id \in room'.held \ room.held
             THEN late \cup {m \in saved \ room.held : ~(room.atEnd /\ (m < a.id \/ Coming(m)))} ELSE late
  /\ UNCHANGED <<minted, by, posting, saved, keyed, edited, untold, feed, newest, openings, asks, sends, wire>>

-----------------------------------------------------------------------------
Settle(a) == PageArrives(a) \/ PageFails(a) \/ WaitEnds(a) \/ WindowArrives(a) \/ WindowFails(a)

Server ==
  \/ OtherPosts
  \/ \E s \in Sends, n \in 1..MaxTries : TryArrives(s, n)
  \/ \E p \in posting : Commit(p)
  \/ \E m \in Ids, op \in {"update", "edit"} : Edit(m, op)
  \/ \E c \in untold : Publish(c)
  \/ \E a \in asks : ReadPage(a)

Person ==
  \/ OpenRoom \/ LeaveWindow \/ LoadOlder \/ LoadNewer \/ ReleaseRoom
  \/ \E m \in Ids : OpenAround(m)
  \/ \E first, last \in Ids : TrimHistory(first, last)
  \/ \E s \in Sends : SendMessage(s)

Network ==
  \/ Hear \/ Ready
  \/ \E a \in asks : Settle(a)
  \/ \E s \in Sends : SendFails(s)
  \/ \E a \in answers : AnswerArrives(a) \/ EditAnswered(a)

Next == Server \/ Person \/ Network

Spec == Init /\ [][Next]_vars

-----------------------------------------------------------------------------
\* The shape of the state, and: a room says a page is on its way exactly while one request
\* for this opening of it is.  No reply dropped as stale, failed or overtaken by another
\* opening leaves it saying so for good, or lets a second request read on from the same
\* place (fetchPage, fetchWindow, loadOlder, loadNewer).
TypeOK ==
  /\ minted \in 0..MaxMsgs
  /\ by \in [Ids -> Sends \cup {Other}]
  /\ posting \subseteq [id : 1..minted, try : 0..MaxTries]
  /\ saved \subseteq 1..minted
  /\ keyed \in [Sends -> 0..minted]
  /\ edited \subseteq saved
  /\ untold \subseteq Change
  /\ feed \in Seq(Frame)
  /\ late \subseteq saved
  /\ newest \in 0..minted
  /\ room \in Stream
  /\ openings \in Nat
  /\ asks \subseteq Ask
  /\ sends \in [Sends -> [st : {"unsent", "waiting", "failed", "sent"}, try : 0..MaxTries]]
  /\ wire \subseteq Sends \X (1..MaxTries)
  /\ answers \subseteq [send : Sends \cup {Other}, id : Ids, new : BOOLEAN]
  /\ room # NoRoom => Cardinality({a \in asks : StillOpen(a)}) = IF room.loading THEN 1 ELSE 0

\* A message the room says it holds, by what it holds around it, and does not.
Missing(m) ==
  /\ m \in saved \ room.held
  /\ room.atStart \/ m > Oldest(room.held)
  /\ room.loaded
  /\ room.atEnd \/ \E o \in room.held : o > m

\* The gaps are invisible, so there are none: a message missing from the
\* stretch a room holds is one whose frame is on its way, to a room that will
\* fold it.  However pages, windows, frames, trims and answers overtake each
\* other.  The exceptions: a message that crossed another of the server's, or
\* that the answer to an older post or to an edit was merged without, or whose
\* frame a trim of what overtook it leaves unread (`late`); and a quiet line,
\* which `newest` doesn't count and a window can miss.
NoInvisibleGap ==
  \A m \in saved \ late : Missing(m) => QuietLine(m) \/ (room.atEnd /\ Coming(m))

\* A stand-in is shown only while its send waits: the frame, the answer, the
\* failure and every way a room is dropped or opened again clear it.  A send
\* tried again has one still, not one for each try.
StandInsEnd ==
  /\ \A i \in DOMAIN room.pending : sends[room.pending[i]].st = "waiting"
  /\ \A i, j \in DOMAIN room.pending : room.pending[i] = room.pending[j] => i = j

\* However a send is retried, also while its first try is still being saved,
\* it is one message.
PostedOnce ==
  \A s \in Sends : Cardinality({m \in saved : by[m] = s}) <= 1
=============================================================================
