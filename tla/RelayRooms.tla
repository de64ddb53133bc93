----------------------------- MODULE RelayRooms -----------------------------
\* The relay server's table of rooms and the two programs that meet through it.
\* A creator's handler draws a code, tells it, and enters a one-shot sender under it;
\* a joiner's handler takes the sender out and passes its stream through.
EXTENDS FiniteSets

CONSTANTS Creators, Joiners, Codes

NoClient == "nobody"
NoCode == "nocode"

ASSUME RoomAssumption ==
  NoClient \notin Creators \cup Joiners /\ NoCode \notin Codes

VARIABLES
  room,     \* the table: whose sender is entered under each code
  creator,  \* where the handler of each creator is
  code,     \* the code it drew
  hand,     \* the stream its receiver has been passed
  joiner,   \* where the handler of each joiner is
  asked,    \* the code it asked for
  taken,    \* the creator whose sender it holds
  app       \* what each creator's program makes of the session

roomVars == <<room, creator, code, hand, joiner, asked, taken, app>>

CreatorSteps == {"new", "coded", "waiting", "expired", "paired", "gone"}
JoinerSteps  == {"new", "holding", "answered", "passed", "paired", "refused", "gone"}

\* Every variable has a value the code can give it (relay-server main.rs:13).
RoomTypeOK ==
  /\ room \in [Codes -> Creators \cup {NoClient}]
  /\ creator \in [Creators -> CreatorSteps] /\ code \in [Creators -> Codes \cup {NoCode}]
  /\ hand \in [Creators -> Joiners \cup {NoClient}]
  /\ joiner \in [Joiners -> JoinerSteps] /\ asked \in [Joiners -> Codes \cup {NoCode}]
  /\ taken \in [Joiners -> Creators \cup {NoClient}]
  /\ app \in [Creators -> {"waiting", "serving", "failed"}]
  /\ \A s \in Creators : creator[s] = "new" <=> code[s] = NoCode

RoomInit ==
  /\ room = [k \in Codes |-> NoClient]
  /\ creator = [s \in Creators |-> "new"] /\ code = [s \in Creators |-> NoCode]
  /\ hand = [s \in Creators |-> NoClient]
  /\ joiner = [j \in Joiners |-> "new"] /\ asked = [j \in Joiners |-> NoCode]
  /\ taken = [j \in Joiners |-> NoClient]
  /\ app = [s \in Creators |-> "waiting"]

CreatorTo(s, step) == creator' = [creator EXCEPT ![s] = step]
JoinerTo(j, step)  == joiner' = [joiner EXCEPT ![j] = step]

\* A one-shot sender lives in the table or in the hands of a joiner.
SenderLives(s) == (\E k \in Codes : room[k] = s) \/ \E j \in Joiners : taken[j] = s

\* CREATE: the code is drawn at random and told before the room is entered.
Create(s) ==
  /\ creator[s] = "new"
  /\ \E k \in Codes : code' = [code EXCEPT ![s] = k]
  /\ (CreatorTo(s, "coded") \/ CreatorTo(s, "gone"))
  /\ UNCHANGED <<room, hand, joiner, asked, taken, app>>

\* A code that is already in the table has its sender replaced.
EnterRoom(s) ==
  /\ creator[s] = "coded" /\ CreatorTo(s, "waiting")
  /\ room' = [room EXCEPT ![code[s]] = s]
  /\ UNCHANGED <<code, hand, joiner, asked, taken, app>>

\* Mutation: the wait has no time limit.
ExpireOrphansOnly(s) ==
  /\ creator[s] = "waiting" /\ hand[s] = NoClient /\ CreatorTo(s, "expired")
  /\ ~SenderLives(s)
  /\ UNCHANGED <<room, code, hand, joiner, asked, taken, app>>

\* After 300 s, or when its sender is dropped; a stream that has arrived comes first.
Expire(s) ==
  /\ creator[s] = "waiting" /\ hand[s] = NoClient /\ CreatorTo(s, "expired")
  /\ UNCHANGED <<room, code, hand, joiner, asked, taken, app>>

\* Mutation: the room stays in the table.
CloseRoomKeepsEntry(s) ==
  /\ creator[s] = "expired" /\ CreatorTo(s, "gone")
  /\ UNCHANGED <<room, code, hand, joiner, asked, taken, app>>

\* Mutation: closing a room sweeps the table.
CloseRoomSweeps(s) ==
  /\ creator[s] = "expired" /\ CreatorTo(s, "gone")
  /\ room' = [k \in Codes |-> NoClient]
  /\ UNCHANGED <<code, hand, joiner, asked, taken, app>>

\* The entry of the code is removed, whoever's sender it is.
CloseRoom(s) ==
  /\ creator[s] = "expired" /\ CreatorTo(s, "gone")
  /\ room' = [room EXCEPT ![code[s]] = NoClient]
  /\ UNCHANGED <<code, hand, joiner, asked, taken, app>>

\* The stream has arrived: READY, or the creator has hung up.
Pair(s) ==
  /\ creator[s] = "waiting" /\ hand[s] # NoClient
  /\ \/ CreatorTo(s, "paired") /\ JoinerTo(hand[s], "paired")
     \/ CreatorTo(s, "gone") /\ JoinerTo(hand[s], "gone")
  /\ UNCHANGED <<room, code, hand, asked, taken, app>>

\* JOIN: the sender is taken out of the table, or the answer is NOT_FOUND.
Join(j) ==
  /\ joiner[j] = "new"
  /\ \E k \in Codes :
       /\ asked' = [asked EXCEPT ![j] = k]
       /\ taken' = [taken EXCEPT ![j] = room[k]]
       /\ room' = [room EXCEPT ![k] = NoClient]
       /\ JoinerTo(j, IF room[k] = NoClient THEN "refused" ELSE "holding")
  /\ UNCHANGED <<creator, code, hand, app>>

\* OK is written; if that fails the sender is dropped.
AnswerJoiner(j) ==
  /\ joiner[j] = "holding"
  /\ \/ JoinerTo(j, "answered") /\ UNCHANGED taken
     \/ JoinerTo(j, "gone") /\ taken' = [taken EXCEPT ![j] = NoClient]
  /\ UNCHANGED <<room, creator, code, hand, asked, app>>

\* The stream is passed on, or dropped when the creator no longer waits.
PassStream(j) ==
  /\ joiner[j] = "answered" /\ taken' = [taken EXCEPT ![j] = NoClient]
  /\ IF creator[taken[j]] = "waiting"
     THEN JoinerTo(j, "passed") /\ hand' = [hand EXCEPT ![taken[j]] = j]
     ELSE JoinerTo(j, "gone") /\ UNCHANGED hand
  /\ UNCHANGED <<room, creator, code, asked, app>>

\* The creator's program: READY starts the session, TIMEOUT or the end of the
\* stream is reported.
ReadReply(s) ==
  /\ app[s] = "waiting" /\ creator[s] \in {"paired", "gone"}
  /\ app' = [app EXCEPT ![s] = IF creator[s] = "paired" THEN "serving" ELSE "failed"]
  /\ UNCHANGED <<room, creator, code, hand, joiner, asked, taken>>

CreatorStep(s) ==
  EnterRoom(s) \/ Expire(s) \/ CloseRoom(s) \/ Pair(s) \/ ReadReply(s)
JoinerStep(j) == AnswerJoiner(j) \/ PassStream(j)

RoomNext ==
  \/ \E s \in Creators : Create(s) \/ CreatorStep(s)
  \/ \E j \in Joiners : Join(j) \/ JoinerStep(j)

\* A handler that can go on does so, and the timer of a room runs.
RoomFairness ==
  /\ \A s \in Creators : WF_roomVars(CreatorStep(s))
  /\ \A j \in Joiners : WF_roomVars(JoinerStep(j))

RoomSpec == RoomInit /\ [][RoomNext]_roomVars

-----------------------------------------------------------------------------
\* No entry of the table outlives its creator's wait: whoever is entered still waits
\* or is about to remove the entry (main.rs:68).
NoOrphanRoom ==
  \A k \in Codes : room[k] # NoClient =>
    code[room[k]] = k /\ creator[room[k]] \in {"waiting", "expired"}

\* A stream is passed to one creator only, who drew the code the joiner asked for, and
\* to a creator no second one is (main.rs:1, "pairs two clients via a 6-character
\* room code").
PairsShareCode ==
  /\ \A s \in Creators : hand[s] # NoClient =>
       code[s] = asked[hand[s]] /\ joiner[hand[s]] \in {"passed", "paired", "gone"}
  /\ \A s, u \in Creators : hand[s] # NoClient /\ hand[s] = hand[u] => s = u
  /\ \A j \in Joiners : taken[j] # NoClient =>
       hand[taken[j]] = NoClient /\ \A i \in Joiners \ {j} : taken[i] # taken[j]

\* A waiting creator's room disappears only because a joiner takes it, the creator itself
\* gives up, or the same code was drawn twice (main.rs:68 and 77).
EvictionNeedsCollision ==
  [][ \A k \in Codes : LET s == room[k] IN
        s # NoClient /\ room'[k] # s =>
          \/ \E j \in Joiners : taken'[j] = s
          \/ creator[s] = "expired"
          \/ \E u \in Creators \ {s} : code[u] = k ]_roomVars

\* Everybody who was told a code learns what becomes of the room: a session or
\* a failure (main.rs:59, relay.rs:57).
EveryRoomAnswered ==
  \A s \in Creators : creator[s] = "coded" ~> app[s] # "waiting"

=============================================================================
