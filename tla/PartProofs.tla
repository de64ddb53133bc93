------------------------------ MODULE PartProofs ------------------------------
(***************************************************************************)
(* Proofs about the four exchanges that ask somebody else: the rooms of    *)
(* the relay server, the pairing prompt, the file transfer and the log     *)
(* pull.  Each keeps a one-shot sender in a slot that others may take or   *)
(* replace, and the invariants say who holds it and what its answer has    *)
(* been made from.  At the end, the parts that MCParts checks together.    *)
(***************************************************************************)
EXTENDS MCParts, ReturnEdgeProofs, RelayGuardProofs, CounterProofs

-----------------------------------------------------------------------------
(* The relay server's rooms.                                                 *)

Unheard == {"new", "coded"}

\* A one-shot sender is in one place: in the table under its creator's code, in the hands of one
\* joiner that asked for that code, or used.
SenderHeld ==
  /\ \A j \in Joiners : taken[j] # NoClient =>
       /\ joiner[j] \in {"holding", "answered"} /\ asked[j] = code[taken[j]]
       /\ creator[taken[j]] \notin Unheard /\ \A k \in Codes : room[k] # taken[j]
  /\ \A j \in Joiners : joiner[j] \in {"holding", "answered"} => taken[j] # NoClient
  /\ \A s \in Creators : hand[s] # NoClient => creator[s] \notin Unheard /\ \A k \in Codes : room[k] # s

RoomInv == RoomTypeOK /\ NoOrphanRoom /\ SenderHeld /\ PairsShareCode

LEMMA RoomStart == RoomInit => RoomInv
<1> SUFFICES ASSUME RoomInit PROVE RoomInv
  OBVIOUS
<1>1. RoomTypeOK
  BY RoomAssumption DEF RoomInit, RoomTypeOK, CreatorSteps, JoinerSteps
<1>2. NoOrphanRoom /\ SenderHeld /\ PairsShareCode
  BY DEF RoomInit, NoOrphanRoom, SenderHeld, PairsShareCode
<1> QED
  BY <1>1, <1>2 DEF RoomInv

\* The types are kept by every step.
LEMMA RoomTyped == RoomInv /\ [RoomNext]_roomVars => RoomTypeOK'
<1> SUFFICES ASSUME RoomInv, [RoomNext]_roomVars PROVE RoomTypeOK'
  OBVIOUS
<1> USE RoomAssumption DEF RoomInv, RoomTypeOK, CreatorSteps, JoinerSteps, CreatorTo, JoinerTo
<1>1. ASSUME NEW s \in Creators, Create(s) \/ EnterRoom(s) \/ Expire(s) \/ CloseRoom(s) PROVE RoomTypeOK'
  BY <1>1 DEF Create, EnterRoom, Expire, CloseRoom
<1>2. ASSUME NEW s \in Creators, Pair(s) \/ ReadReply(s) PROVE RoomTypeOK'
  BY <1>2 DEF Pair, ReadReply
<1>3. ASSUME NEW j \in Joiners, Join(j) \/ AnswerJoiner(j) PROVE RoomTypeOK'
  BY <1>3 DEF Join, AnswerJoiner
<1>4. ASSUME NEW j \in Joiners, PassStream(j) PROVE RoomTypeOK'
  BY <1>4 DEF PassStream, SenderHeld
<1>5. CASE UNCHANGED roomVars
  BY <1>5 DEF roomVars
<1> QED
  BY <1>1, <1>2, <1>3, <1>4, <1>5 DEF RoomNext, CreatorStep, JoinerStep

\* A step moves a sender from one place to the next.
LEMMA StepKeepsRooms == RoomInv /\ [RoomNext]_roomVars => RoomInv'
<1> SUFFICES ASSUME RoomInv, [RoomNext]_roomVars PROVE NoOrphanRoom' /\ SenderHeld' /\ PairsShareCode'
  BY RoomTyped DEF RoomInv
<1> USE RoomAssumption DEF RoomInv, RoomTypeOK, NoOrphanRoom, SenderHeld, PairsShareCode, Unheard, CreatorTo, JoinerTo
<1>1. ASSUME NEW s \in Creators, Create(s) PROVE NoOrphanRoom' /\ SenderHeld' /\ PairsShareCode'
  BY <1>1 DEF Create
<1>2. ASSUME NEW s \in Creators, EnterRoom(s) PROVE NoOrphanRoom' /\ SenderHeld' /\ PairsShareCode'
  BY <1>2 DEF EnterRoom
<1>3. ASSUME NEW s \in Creators, Expire(s) \/ CloseRoom(s) PROVE NoOrphanRoom' /\ SenderHeld' /\ PairsShareCode'
  BY <1>3 DEF Expire, CloseRoom
<1>4. ASSUME NEW s \in Creators, Pair(s) PROVE NoOrphanRoom' /\ SenderHeld' /\ PairsShareCode'
  BY <1>4 DEF Pair
<1>5. ASSUME NEW s \in Creators, ReadReply(s) PROVE NoOrphanRoom' /\ SenderHeld' /\ PairsShareCode'
  BY <1>5 DEF ReadReply
<1>6. ASSUME NEW j \in Joiners, Join(j) PROVE NoOrphanRoom' /\ SenderHeld' /\ PairsShareCode'
  <2>1. PICK k \in Codes : /\ joiner[j] = "new" /\ asked' = [asked EXCEPT ![j] = k]
                         /\ taken' = [taken EXCEPT ![j] = room[k]] /\ room' = [room EXCEPT ![k] = NoClient]
                         /\ joiner' = [joiner EXCEPT ![j] = IF room[k] = NoClient THEN "refused" ELSE "holding"]
                         /\ UNCHANGED <<creator, code, hand>>
    BY <1>6 DEF Join
  <2>2. NoOrphanRoom'
    BY <2>1
  <2>3. SenderHeld'
    BY <2>1
  <2>4. PairsShareCode'
    BY <2>1
  <2> QED
    BY <2>2, <2>3, <2>4
<1>7. ASSUME NEW j \in Joiners, AnswerJoiner(j) PROVE NoOrphanRoom' /\ SenderHeld' /\ PairsShareCode'
  <2>1. joiner[j] = "holding" /\ UNCHANGED <<room, creator, code, hand, asked>>
    BY <1>7 DEF AnswerJoiner
  <2>2. CASE joiner' = [joiner EXCEPT ![j] = "answered"] /\ UNCHANGED taken
    <3>1. taken[j] # NoClient
      BY <2>1
    <3> QED
      BY <2>1, <2>2, <3>1
  <2>3. CASE joiner' = [joiner EXCEPT ![j] = "gone"] /\ taken' = [taken EXCEPT ![j] = NoClient]
    BY <2>1, <2>3
  <2> QED
    BY <1>7, <2>2, <2>3 DEF AnswerJoiner
<1>8. ASSUME NEW j \in Joiners, PassStream(j) PROVE NoOrphanRoom' /\ SenderHeld' /\ PairsShareCode'
  <2>1. taken[j] \in Creators /\ joiner[j] = "answered" /\ taken' = [taken EXCEPT ![j] = NoClient] /\ UNCHANGED <<room, creator, code, asked>>
    BY <1>8 DEF PassStream
  <2>2. CASE creator[taken[j]] = "waiting"
    <3>1. joiner' = [joiner EXCEPT ![j] = "passed"] /\ hand' = [hand EXCEPT ![taken[j]] = j]
      BY <1>8, <2>2 DEF PassStream
    <3>2. NoOrphanRoom' /\ SenderHeld'
      BY <2>1, <2>2, <3>1
    <3>3. PairsShareCode'
      BY <2>1, <2>2, <3>1
    <3> QED
      BY <3>2, <3>3
  <2>3. CASE creator[taken[j]] # "waiting"
    <3>1. joiner' = [joiner EXCEPT ![j] = "gone"] /\ UNCHANGED hand
      BY <1>8, <2>3 DEF PassStream
    <3> QED
      BY <2>1, <3>1
  <2> QED
    BY <2>2, <2>3
<1>9. CASE UNCHANGED roomVars
  BY <1>9 DEF roomVars
<1> QED
  BY <1>1, <1>2, <1>3, <1>4, <1>5, <1>6, <1>7, <1>8, <1>9 DEF RoomNext, CreatorStep, JoinerStep

\* For any number of clients and codes, no entry outlives its creator's wait (main.rs:68).
THEOREM RoomsOwned == RoomSpec => []NoOrphanRoom
BY RoomStart, StepKeepsRooms, PTL DEF RoomSpec, RoomInv

\* A stream is passed to one creator only, who drew the code the joiner asked for, and to no
\* creator two, however often a code is drawn again (main.rs:1).
THEOREM RoomsPair == RoomSpec => []PairsShareCode
BY RoomStart, StepKeepsRooms, PTL DEF RoomSpec, RoomInv

\* A waiting creator's entry goes to a joiner, or with the creator, or to one who drew the same
\* code (main.rs:68 and 77).
THEOREM RoomsEvict == RoomSpec => EvictionNeedsCollision
<1>1. RoomInv /\ [RoomNext]_roomVars =>
        \A k \in Codes : LET s == room[k] IN
          s # NoClient /\ room'[k] # s =>
            \/ \E j \in Joiners : taken'[j] = s
            \/ creator[s] = "expired"
            \/ \E u \in Creators \ {s} : code[u] = k
  <2> SUFFICES ASSUME RoomInv, [RoomNext]_roomVars, NEW k \in Codes, room[k] # NoClient, room'[k] # room[k]
               PROVE  \/ \E j \in Joiners : taken'[j] = room[k]
                      \/ creator[room[k]] = "expired"
                      \/ \E u \in Creators \ {room[k]} : code[u] = k
    OBVIOUS
  <2> USE DEF RoomInv, RoomTypeOK, NoOrphanRoom
  <2>1. ASSUME NEW s \in Creators, EnterRoom(s) \/ CloseRoom(s)
        PROVE  creator[room[k]] = "expired" \/ \E u \in Creators \ {room[k]} : code[u] = k
    BY <2>1 DEF EnterRoom, CloseRoom
  <2>2. ASSUME NEW j \in Joiners, Join(j) PROVE taken'[j] = room[k]
    BY <2>2 DEF Join
  <2>3. ASSUME NEW s \in Creators, Create(s) \/ Expire(s) \/ Pair(s) \/ ReadReply(s) PROVE FALSE
    BY <2>3 DEF Create, Expire, Pair, ReadReply
  <2>4. ASSUME NEW j \in Joiners, AnswerJoiner(j) \/ PassStream(j) PROVE FALSE
    BY <2>4 DEF AnswerJoiner, PassStream
  <2>5. CASE UNCHANGED roomVars
    BY <2>5 DEF roomVars
  <2> QED
    BY <2>1, <2>2, <2>3, <2>4, <2>5 DEF RoomNext, CreatorStep, JoinerStep
<1> QED
  BY <1>1, RoomStart, StepKeepsRooms, PTL DEF RoomSpec, EvictionNeedsCollision

-----------------------------------------------------------------------------
(* The pairing prompt.                                                       *)

Waiting(h)     == ask[h] \in {"asking", "elapsed"}
Finished(h)    == ask[h] \in {"leaving", "forgetting", "over"}
AnsweredBy(h, d) == \E c \in Clicks : about[c] = h /\ said[c] = d

\* One handshake is past the check, and while it waits the prompt on the screen, if there is one,
\* is its own.
OnePrompt ==
  /\ \A g, h \in Prompts : ask[g] \notin {"new", "over"} /\ ask[h] \notin {"new", "over"} => g = h
  /\ \A h \in Prompts : Waiting(h) => shown \in {h, NoPrompt}
  /\ \A c \in Clicks : click[c] = "new" => about[c] = NoPrompt
  /\ \A c \in Clicks : click[c] = "recorded" => about[c] \in Prompts /\ said[c] # "none"

\* What a handshake may hear, or find recorded, is what a click has said to it.
HeardFromUser ==
  /\ \A h \in Prompts : heard[h] # "none" /\ ~crossed => AnsweredBy(h, heard[h])
  /\ \A h \in Prompts : Waiting(h) /\ last # "none" => AnsweredBy(h, last)
  /\ \A h \in recorded : Waiting(h) \/ Finished(h)
  /\ \A h \in recorded : Waiting(h) => last # "none"
  /\ \A h \in Prompts : accepted[h] => Finished(h)

PairInv == PairingTypeOK /\ OnePrompt /\ HeardFromUser /\ PairedOnYes /\ DecisionHonoured

LEMMA PairStart == PairingInit => PairInv
<1> SUFFICES ASSUME PairingInit PROVE PairInv
  OBVIOUS
<1>1. PairingTypeOK
  BY DEF PairingInit, PairingTypeOK, Decisions
<1>2. OnePrompt /\ HeardFromUser /\ PairedOnYes /\ DecisionHonoured
  BY DEF PairingInit, OnePrompt, HeardFromUser, PairedOnYes, DecisionHonoured, Waiting, Finished
<1> QED
  BY <1>1, <1>2 DEF PairInv

\* The types are kept by every step.
LEMMA PairTyped == PairInv /\ [PairingNext]_pairingVars => PairingTypeOK'
<1> SUFFICES ASSUME PairInv, [PairingNext]_pairingVars PROVE PairingTypeOK'
  OBVIOUS
<1> USE PairingAssumption DEF PairInv, PairingTypeOK, Decisions, AskTo, askVars, promptVars, clickVars
<1>1. ASSUME NEW h \in Prompts, Check(h) PROVE PairingTypeOK'
  BY <1>1 DEF Check
<1>2. ASSUME NEW h \in Prompts, EnterSender(h) \/ ShowPrompt(h) \/ Elapse(h) \/ Leave(h) \/ Forget(h) PROVE PairingTypeOK'
  BY <1>2 DEF EnterSender, ShowPrompt, Elapse, Leave, Forget
<1>3. ASSUME NEW h \in Prompts, Hear(h) \/ FallBack(h) PROVE PairingTypeOK'
  <2>1. \E b \in BOOLEAN : accepted' = [accepted EXCEPT ![h] = b]
    BY <1>3 DEF Hear, FallBack
  <2>2. accepted' \in [Prompts -> BOOLEAN]
    BY <2>1
  <2> QED
    BY <1>3, <2>2 DEF Hear, FallBack
<1>4. ASSUME NEW c \in Clicks, Record(c) PROVE PairingTypeOK'
  BY <1>4 DEF Record
<1>5. ASSUME NEW c \in Clicks, Send(c) PROVE PairingTypeOK'
  <2>1. crossed' \in BOOLEAN
    BY <1>5 DEF Send
  <2> QED
    BY <1>5, <2>1 DEF Send
<1>6. CASE UNCHANGED pairingVars
  BY <1>6 DEF pairingVars
<1> QED
  BY <1>1, <1>2, <1>3, <1>4, <1>5, <1>6 DEF PairingNext, Asking

Heeded == OnePrompt /\ HeardFromUser /\ PairedOnYes /\ DecisionHonoured

\* A step of a handshake before it listens, or after it has made up its mind.
LEMMA HandshakeKeeps ==
  ASSUME PairInv, NEW h \in Prompts,
         Check(h) \/ EnterSender(h) \/ ShowPrompt(h) \/ Elapse(h) \/ Leave(h) \/ Forget(h)
  PROVE  Heeded'
<1> USE PairingAssumption DEF PairInv, Heeded, PairingTypeOK, AskTo, clickVars, promptVars, Waiting, Finished, AnsweredBy
<1>1. OnePrompt'
  BY DEF OnePrompt, Check, EnterSender, ShowPrompt, Elapse, Leave, Forget
<1>2. HeardFromUser'
  BY DEF OnePrompt, HeardFromUser, Check, EnterSender, ShowPrompt, Elapse, Leave, Forget
<1>3. UNCHANGED <<accepted, about, said, recorded, crossed>>
  BY DEF Check, EnterSender, ShowPrompt, Elapse, Leave, Forget
<1>4. \A g \in recorded : Finished(g)' => Finished(g)
  BY DEF HeardFromUser, Check, EnterSender, ShowPrompt, Elapse, Leave, Forget
<1>5. PairedOnYes' /\ DecisionHonoured'
  BY <1>3, <1>4 DEF PairedOnYes, DecisionHonoured
<1> QED
  BY <1>1, <1>2, <1>5

\* A handshake makes up its mind, from what it has heard or what is recorded by now.
LEMMA MindKeeps ==
  ASSUME PairInv, NEW h \in Prompts, Hear(h) \/ FallBack(h) PROVE Heeded'
<1> USE PairingAssumption DEF PairInv, Heeded, PairingTypeOK, AskTo, clickVars, promptVars, Waiting, Finished
<1>1. PICK d \in Decisions :
        /\ accepted' = [accepted EXCEPT ![h] = d = "yes"] /\ Waiting(h)
        /\ d # "none" /\ ~crossed => AnsweredBy(h, d)
        /\ h \in recorded /\ d = "none" => FALSE
  <2>1. CASE Hear(h)
    <3>1. heard[h] \in Decisions /\ heard[h] # "none" /\ accepted' = [accepted EXCEPT ![h] = heard[h] = "yes"] /\ Waiting(h)
      BY <2>1 DEF Hear
    <3> QED
      BY <3>1 DEF HeardFromUser
  <2>2. CASE FallBack(h)
    <3>1. last \in Decisions /\ accepted' = [accepted EXCEPT ![h] = last = "yes"] /\ Waiting(h)
      BY <2>2 DEF FallBack
    <3> QED
      BY <3>1 DEF HeardFromUser
  <2> QED
    BY <2>1, <2>2
<1>2. /\ ask' = [ask EXCEPT ![h] = "leaving"] /\ UNCHANGED <<heard, pending, shown, clickVars, recorded, crossed>>
      /\ last' \in {last, "none"}
  BY DEF Hear, FallBack
<1>3. OnePrompt'
  BY <1>1, <1>2 DEF OnePrompt
<1>4. \A g \in Prompts \ {h} : ~Waiting(g) /\ ask'[g] = ask[g] /\ accepted'[g] = accepted[g]
  BY <1>1, <1>2 DEF OnePrompt
<1>5. HeardFromUser'
  BY <1>2, <1>4 DEF HeardFromUser, AnsweredBy
<1>6. accepted'[h] = (d = "yes")
  BY <1>1
<1>7. PairedOnYes'
  BY <1>1, <1>2, <1>4, <1>6 DEF PairedOnYes, AnsweredBy
<1>8. DecisionHonoured'
  <2> SUFFICES ASSUME NEW g \in recorded', Finished(g)', ~crossed'
               PROVE  \E c \in Clicks : about'[c] = g /\ (said'[c] = "yes" <=> accepted'[g])
    BY DEF DecisionHonoured
  <2>1. CASE g = h
    <3>1. AnsweredBy(h, d)
      BY <1>1, <1>2, <2>1
    <3> QED
      BY <1>2, <1>6, <2>1, <3>1 DEF AnsweredBy
  <2>2. CASE g # h
    <3>1. g \in recorded /\ g \in Prompts /\ Finished(g) /\ ~crossed /\ accepted'[g] = accepted[g]
      BY <1>2, <1>4, <2>2
    <3> QED
      BY <1>2, <3>1 DEF DecisionHonoured
  <2> QED
    BY <2>1, <2>2
<1> QED
  BY <1>3, <1>5, <1>7, <1>8

\* A click is recorded for the prompt on the screen.
LEMMA RecordKeeps ==
  ASSUME PairInv, NEW c \in Clicks, Record(c) PROVE Heeded'
<1> USE PairingAssumption DEF PairInv, Heeded, PairingTypeOK, askVars, Waiting, Finished
<1>1. PICK d \in {"yes", "no"} :
        /\ last' = d /\ said' = [said EXCEPT ![c] = d] /\ about' = [about EXCEPT ![c] = shown]
        /\ shown \in Prompts /\ shown' = NoPrompt /\ click[c] = "new"
        /\ click' = [click EXCEPT ![c] = "recorded"]
        /\ UNCHANGED <<ask, heard, accepted, pending, crossed>>
  BY DEF Record
<1>2. recorded' = IF Waiting(shown) THEN recorded \cup {shown} ELSE recorded
  BY DEF Record, Gone
<1>3. about[c] = NoPrompt /\ \A e \in Clicks \ {c} : about'[e] = about[e] /\ said'[e] = said[e]
  BY <1>1 DEF OnePrompt
<1>4. OnePrompt'
  BY <1>1 DEF OnePrompt
<1>5. ASSUME NEW h \in Prompts, NEW a, AnsweredBy(h, a) PROVE AnsweredBy(h, a)'
  BY <1>3, <1>5 DEF AnsweredBy
<1>6. ASSUME NEW h \in Prompts, h = shown PROVE AnsweredBy(h, d)'
  BY <1>1, <1>6 DEF AnsweredBy
<1>7. HeardFromUser'
  BY <1>1, <1>2, <1>5, <1>6 DEF HeardFromUser, OnePrompt
<1>8. PairedOnYes'
  BY <1>1, <1>3 DEF PairedOnYes
<1>9. DecisionHonoured'
  <2> SUFFICES ASSUME NEW g \in recorded', Finished(g)', ~crossed'
               PROVE  \E e \in Clicks : about'[e] = g /\ (said'[e] = "yes" <=> accepted'[g])
    BY DEF DecisionHonoured
  <2>1. g \in recorded /\ Finished(g) /\ ~crossed /\ g \in Prompts
    BY <1>1, <1>2
  <2>2. PICK e \in Clicks : about[e] = g /\ (said[e] = "yes" <=> accepted[g])
    BY <2>1 DEF DecisionHonoured
  <2>3. e # c
    BY <1>3, <2>1, <2>2
  <2> QED
    BY <1>1, <1>3, <2>2, <2>3
<1> QED
  BY <1>4, <1>7, <1>8, <1>9

\* A recorded click is sent to whoever is asking: to its own prompt, or it crosses.
LEMMA SendKeeps ==
  ASSUME PairInv, NEW c \in Clicks, Send(c) PROVE Heeded'
<1> USE PairingAssumption DEF PairInv, Heeded, PairingTypeOK, Waiting, Finished
<1>1. /\ click[c] = "recorded" /\ click' = [click EXCEPT ![c] = "sent"]
      /\ heard' = IF pending = NoPrompt THEN heard ELSE [heard EXCEPT ![pending] = said[c]]
      /\ UNCHANGED <<ask, accepted, last, shown, said, about, recorded>>
  BY DEF Send
<1>2. ~crossed' => ~crossed /\ pending \in {about[c], NoPrompt}
  BY DEF Send
<1>3. OnePrompt'
  BY <1>1 DEF OnePrompt
<1>4. ASSUME NEW h \in Prompts, heard'[h] # "none", ~crossed' PROVE AnsweredBy(h, heard'[h])
  <2>1. CASE h = pending
    BY <1>1, <1>2, <2>1, <1>4 DEF AnsweredBy
  <2>2. CASE h # pending
    BY <1>1, <1>2, <2>2, <1>4 DEF HeardFromUser
  <2> QED
    BY <2>1, <2>2
<1>5. HeardFromUser'
  BY <1>1, <1>4 DEF HeardFromUser, AnsweredBy
<1>6. PairedOnYes' /\ DecisionHonoured'
  BY <1>1, <1>2 DEF PairedOnYes, DecisionHonoured
<1> QED
  BY <1>3, <1>5, <1>6

LEMMA StepKeepsPairing == PairInv /\ [PairingNext]_pairingVars => PairInv'
<1> SUFFICES ASSUME PairInv, [PairingNext]_pairingVars PROVE Heeded'
  BY PairTyped DEF PairInv, Heeded
<1>1. CASE UNCHANGED pairingVars
  BY <1>1 DEF pairingVars, askVars, promptVars, clickVars, PairInv, Heeded, OnePrompt, HeardFromUser,
              PairedOnYes, DecisionHonoured, Waiting, Finished, AnsweredBy
<1> QED
  BY <1>1, HandshakeKeeps, MindKeeps, RecordKeeps, SendKeeps DEF PairingNext, Asking

\* However many handshakes ask and however often the user clicks, a device is paired only if the user said yes
\* to its prompt, unless a click made for another one has answered it (server.rs:266).
THEOREM PairedByUser == PairingSpec => []PairedOnYes
BY PairStart, StepKeepsPairing, PTL DEF PairingSpec, PairInv

\* A decision recorded before the handshake gave up counts (server.rs:292).
THEOREM DecisionCounts == PairingSpec => []DecisionHonoured
BY PairStart, StepKeepsPairing, PTL DEF PairingSpec, PairInv

\* A sender in pending_pairing belongs to a handshake that waits or will take it out (server.rs:258).
THEOREM PendingOwned == PairingSpec => []PendingHasPrompt
<1>1. PairingInit => PendingHasPrompt
  BY DEF PairingInit, PendingHasPrompt
<1>2. PairingTypeOK /\ PendingHasPrompt /\ [PairingNext]_pairingVars => PendingHasPrompt'
  <2> SUFFICES ASSUME PairingTypeOK, PendingHasPrompt, [PairingNext]_pairingVars PROVE PendingHasPrompt'
    OBVIOUS
  <2> USE PairingAssumption DEF PairingTypeOK, PendingHasPrompt, AskTo, askVars, promptVars
  <2>1. ASSUME NEW h \in Prompts, Asking(h) PROVE PendingHasPrompt'
    BY <2>1 DEF Asking, Check, EnterSender, ShowPrompt, Hear, Elapse, FallBack, Leave, Forget
  <2>2. ASSUME NEW c \in Clicks, Record(c) \/ Send(c) PROVE PendingHasPrompt'
    BY <2>2 DEF Record, Send
  <2>3. CASE UNCHANGED pairingVars
    BY <2>3 DEF pairingVars
  <2> QED
    BY <2>1, <2>2, <2>3 DEF PairingNext
<1> QED
  BY <1>1, <1>2, PairStart, StepKeepsPairing, PTL DEF PairingSpec, PairInv

-----------------------------------------------------------------------------
(* The log pull.                                                             *)

\* A call that has its reply is not in the slot any more, nor is a prompt up that was answered, and what a
\* loop was answered is what the user accepted.
Answering ==
  /\ \A p \in Pulls : got[p] # NoShare => pullSlot # p
  /\ \A p \in Pulls : pull[p] \in {"new", "checked"} => got[p] = NoShare
  /\ \A s \in Sessions : choice[s] # "none" => prompt # s
  /\ \A s \in Sessions : loop[s] = "asking" /\ choice[s] = "yes" => asks[s] \in consent

LogInv == LogTypeOK /\ Answering /\ SlotsHaveOwners /\ SharedWithConsent

LEMMA LogStart == LogInit => LogInv
<1> SUFFICES ASSUME LogInit PROVE LogInv
  OBVIOUS
<1>1. LogTypeOK
  <2>1. current \in Sessions /\ requests \in Seq(Pulls) /\ replies \in Seq(Share) /\ link = "up"
    BY LogAssumption DEF LogInit, Sessions
  <2>2. pull \in [Pulls -> {"new", "checked", "waiting", "late", "over"}] /\ got \in [Pulls -> Share \cup {NoShare}]
        /\ loop \in [Sessions -> {"reading", "checking", "asking", "expired", "over"}]
        /\ asks \in [Sessions -> Pulls \cup {NoPull}] /\ choice \in [Sessions -> {"none", "yes", "no"}]
    BY DEF LogInit
  <2>3. pullSlot = NoPull /\ prompt = NoLoop /\ recent = FALSE /\ consent = {}
        /\ \A s \in Sessions : asks[s] # NoPull <=> loop[s] \in {"checking", "asking", "expired"}
    BY DEF LogInit
  <2> QED
    BY <2>1, <2>2, <2>3 DEF LogTypeOK
<1>2. Answering /\ SlotsHaveOwners /\ SharedWithConsent
  BY LogAssumption DEF LogInit, Answering, SlotsHaveOwners, SharedWithConsent, NoShare, Sessions, NoLoop
<1> QED
  BY <1>1, <1>2 DEF LogInv

LEMMA NoLoopApart == NoLoop \notin Sessions
BY LogAssumption DEF NoLoop, Sessions

\* The reply of a loop, with the log only if that may be given.
LEMMA Replies ==
  ASSUME LogInv, NEW s \in Sessions, NEW text \in {"log", "empty"}, Reply(s, text), asks[s] \in Pulls,
         text = "log" => asks[s] \in consent, UNCHANGED consent
  PROVE  /\ replies' \in Seq(Share) /\ loop' = [loop EXCEPT ![s] = "reading"] /\ asks' = [asks EXCEPT ![s] = NoPull]
         /\ \A i \in 1..Len(replies') : replies'[i].text = "log" => replies'[i].of \in consent
<1> DEFINE share == [of |-> asks[s], text |-> text]
<1>1. share \in Share /\ share.text = text /\ share.of = asks[s] /\ replies \in Seq(Share)
  BY DEF Share, LogInv, LogTypeOK
<1>2. replies' = replies \/ replies' = Append(replies, share)
  BY DEF Reply
<1> HIDE DEF share
<1>3. CASE replies' = Append(replies, share)
  <2>1. Len(replies') = Len(replies) + 1 /\ replies'[Len(replies')] = share /\ replies' \in Seq(Share)
        /\ \A i \in 1..Len(replies) : replies'[i] = replies[i]
    BY <1>1, <1>3
  <2> QED
    BY <1>1, <2>1 DEF Reply, LoopTo, LogInv, SharedWithConsent
<1> QED
  BY <1>1, <1>2, <1>3 DEF Reply, LoopTo, LogInv, SharedWithConsent

\* A call goes on.
LEMMA CallKeeps == ASSUME LogInv, NEW p \in Pulls, Calling(p) PROVE LogInv'
<1> USE LogAssumption DEF LogInv, LogTypeOK, Answering, SlotsHaveOwners, SharedWithConsent, PullTo, wireVars, ownerVars
<1>1. CASE Ask(p)
  BY <1>1 DEF Ask
<1>2. CASE EnterSlot(p)
  BY <1>2 DEF EnterSlot
<1>3. CASE Answered(p) \/ TimesOut(p)
  BY <1>3 DEF Answered, TimesOut
<1>4. CASE Closed(p) \/ GiveUp(p)
  BY <1>4 DEF Closed, GiveUp
<1> QED
  BY <1>1, <1>2, <1>3, <1>4 DEF Calling

\* A read loop goes on.
LEMMA LoopKeeps == ASSUME LogInv, NEW s \in Sessions, Resolving(s) PROVE LogInv'
<1> USE LogAssumption DEF LogInv, callVars, wireVars, LoopTo
<1>1. CASE ReadRequest(s)
  <2>1. Head(requests) \in Pulls /\ Tail(requests) \in Seq(Pulls)
    BY <1>1 DEF ReadRequest, LogTypeOK
  <2>2. CASE recent
    <3>1. [of |-> Head(requests), text |-> "empty"] \in Share
      BY <2>1 DEF Share
    <3>2. replies' = Append(replies, [of |-> Head(requests), text |-> "empty"])
      BY <1>1, <2>2 DEF ReadRequest
    <3>3. replies' \in Seq(Share) /\ \A i \in 1..Len(replies') : replies'[i].text = "log" => replies'[i].of \in consent
      BY <3>1, <3>2 DEF LogTypeOK, SharedWithConsent
    <3> QED
      BY <1>1, <2>1, <2>2, <3>3 DEF ReadRequest, LogTypeOK, Answering, SlotsHaveOwners, SharedWithConsent
  <2>3. CASE ~recent
    BY <1>1, <2>1, <2>3 DEF ReadRequest, LogTypeOK, Answering, SlotsHaveOwners, SharedWithConsent
  <2> QED
    BY <2>2, <2>3
<1>2. CASE Prompt(s)
  BY <1>2 DEF Prompt, LogTypeOK, Answering, SlotsHaveOwners, SharedWithConsent, NoLoop
<1>3. CASE AlreadyPending(s)
  <2>1. Reply(s, "empty") /\ asks[s] \in Pulls /\ loop[s] = "checking"
    BY <1>3 DEF AlreadyPending, LogTypeOK
  <2> QED
    BY <1>3, <2>1, Replies DEF AlreadyPending, LogTypeOK, Answering, SlotsHaveOwners, SharedWithConsent
<1>4. CASE Decided(s)
  <2>1. PICK text \in {"log", "empty"} : Reply(s, text) /\ (text = "log" => choice[s] = "yes")
    BY <1>4 DEF Decided
  <2>2. loop[s] = "asking" /\ choice[s] # "none" /\ asks[s] \in Pulls
    BY <1>4 DEF Decided, LogTypeOK
  <2>3. text = "log" => asks[s] \in consent
    BY <2>1, <2>2 DEF Answering
  <2> QED
    BY <1>4, <2>1, <2>2, <2>3, Replies DEF Decided, LogTypeOK, Answering, SlotsHaveOwners, SharedWithConsent
<1>5. CASE Expires(s)
  BY <1>5 DEF Expires, LogTypeOK, Answering, SlotsHaveOwners, SharedWithConsent
<1>6. CASE RefusePull(s)
  <2>1. Reply(s, "empty") /\ asks[s] \in Pulls /\ loop[s] = "expired"
    BY <1>6 DEF RefusePull, LogTypeOK
  <2> QED
    BY <1>6, <2>1, Replies, NoLoopApart DEF RefusePull, LogTypeOK, Answering, SlotsHaveOwners, SharedWithConsent
<1>7. CASE ReaderEnds(s)
  BY <1>7 DEF ReaderEnds, LogTypeOK, Answering, SlotsHaveOwners, SharedWithConsent, NoLoop, Sessions
<1> QED
  BY <1>1, <1>2, <1>3, <1>4, <1>5, <1>6, <1>7 DEF Resolving

\* The sessions, the user, and the replies that arrive.
LEMMA StepKeepsLog == LogInv /\ [LogNext]_logVars => LogInv'
<1> SUFFICES ASSUME LogInv, [LogNext]_logVars PROVE LogInv'
  OBVIOUS
<1> USE LogAssumption DEF LogInv, callVars, wireVars, ownerVars
<1>1. CASE ReceiveShare
  <2>1. Head(replies) \in Share /\ Tail(replies) \in Seq(Share) /\ Len(replies) > 0
    BY <1>1 DEF ReceiveShare, LogTypeOK
  <2>2. Head(replies).text = "log" => Head(replies).of \in consent
    BY <2>1 DEF SharedWithConsent, LogTypeOK
  <2>3. \A i \in 1..Len(replies') : replies'[i].text = "log" => replies'[i].of \in consent
    <3>1. replies' = Tail(replies) /\ replies \in Seq(Share)
      BY <1>1 DEF ReceiveShare, LogTypeOK
    <3>2. \A i \in 1..Len(replies') : i + 1 \in 1..Len(replies) /\ replies'[i] = replies[i + 1]
      BY <2>1, <3>1
    <3>3. consent' = consent /\ \A i \in 1..Len(replies) : replies[i].text = "log" => replies[i].of \in consent
      BY <1>1 DEF ReceiveShare, SharedWithConsent
    <3> QED
      BY <3>2, <3>3
  <2>4. CASE pullSlot = NoPull
    BY <1>1, <2>1, <2>3, <2>4 DEF ReceiveShare, LogTypeOK, Answering, SlotsHaveOwners, SharedWithConsent
  <2>5. CASE pullSlot # NoPull
    <3>1. got' = [got EXCEPT ![pullSlot] = Head(replies)] /\ pullSlot \in Pulls /\ pull[pullSlot] \in {"waiting", "late"}
      BY <1>1, <2>5 DEF ReceiveShare, LogTypeOK, SlotsHaveOwners
    <3> QED
      BY <1>1, <2>1, <2>2, <2>3, <3>1 DEF ReceiveShare, LogTypeOK, Answering, SlotsHaveOwners, SharedWithConsent
  <2> QED
    BY <2>4, <2>5
<1>2. CASE UserDecides
  <2>1. prompt \in Sessions /\ consent \subseteq consent'
    BY <1>2 DEF UserDecides, LogTypeOK
  <2>2. consent' \subseteq Pulls
    BY <1>2, <2>1 DEF UserDecides, LogTypeOK
  <2>3. loop[prompt] = "asking" /\ choice'[prompt] = "yes" => asks[prompt] \in consent'
    BY <1>2, <2>1 DEF UserDecides, LogTypeOK
  <2>4. /\ \A s \in Sessions \ {prompt} : choice'[s] = choice[s]
        /\ choice' \in [Sessions -> {"none", "yes", "no"}] /\ prompt' = NoLoop
        /\ UNCHANGED <<callVars, wireVars, loop, asks, recent>>
    BY <1>2, <2>1 DEF UserDecides, LogTypeOK
  <2> QED
    BY <2>1, <2>2, <2>3, <2>4 DEF LogTypeOK, Answering, SlotsHaveOwners, SharedWithConsent, NoLoop, Sessions
<1>3. ASSUME UNCHANGED <<pull, got, loop, asks, prompt, choice, consent>>, recent' \in BOOLEAN, current' \in Sessions,
             link' \in {"up", "cleaning", "down"}, pullSlot' \in {pullSlot, NoPull},
             requests' \in Seq(Pulls), replies' \in Seq(Share), replies' = replies \/ replies' = <<>>
      PROVE  LogInv'
  <2>1. LogTypeOK'
    BY <1>3 DEF LogTypeOK
  <2>2. Answering' /\ SlotsHaveOwners'
    BY <1>3 DEF LogTypeOK, Answering, SlotsHaveOwners
  <2>3. \A i \in 1..Len(replies') : replies'[i].text = "log" => replies'[i].of \in consent
    BY <1>3 DEF SharedWithConsent
  <2>4. SharedWithConsent'
    BY <1>3, <2>3 DEF SharedWithConsent
  <2> QED
    BY <2>1, <2>2, <2>4
<1>4. CASE MinutePasses \/ NewSession \/ EndSession \/ CleanSlot
  <2>1. UNCHANGED <<pull, got, loop, asks, prompt, choice, consent>>
    BY <1>4 DEF MinutePasses, NewSession, EndSession, CleanSlot
  <2>2. link' \in {"up", "cleaning", "down"} /\ pullSlot' \in {pullSlot, NoPull} /\ recent' \in BOOLEAN
    BY <1>4 DEF MinutePasses, NewSession, EndSession, CleanSlot, LogTypeOK
  <2>3. requests' \in Seq(Pulls) /\ replies' \in Seq(Share) /\ (replies' = replies \/ replies' = <<>>)
    <3>1. UNCHANGED <<requests, replies>> \/ (requests' = <<>> /\ replies' = <<>>)
      BY <1>4 DEF MinutePasses, NewSession, EndSession, CleanSlot
    <3>2. requests \in Seq(Pulls) /\ replies \in Seq(Share) /\ <<>> \in Seq(Pulls) /\ <<>> \in Seq(Share)
      BY DEF LogTypeOK
    <3> QED
      BY <3>1, <3>2
  <2>4. current' \in Sessions
    BY <1>4 DEF MinutePasses, NewSession, EndSession, CleanSlot, LogTypeOK, Sessions
  <2> QED
    BY <1>3, <2>1, <2>2, <2>3, <2>4
<1>5. CASE UNCHANGED logVars
  BY <1>5 DEF logVars, LogTypeOK, Answering, SlotsHaveOwners, SharedWithConsent
<1> QED
  BY <1>1, <1>2, <1>4, <1>5, CallKeeps, LoopKeeps DEF LogNext

\* However many calls and sessions overlap, whoever is in one of the two slots still waits or is about to
\* leave it (commands.rs:780, server.rs:897).
THEOREM SlotsOwned == LogSpec => []SlotsHaveOwners
BY LogStart, StepKeepsLog, PTL DEF LogSpec, LogInv

\* No log leaves the machine without its user's consent to that very request
\* (protocol.rs:107).
THEOREM LogsWithConsent == LogSpec => []SharedWithConsent
BY LogStart, StepKeepsLog, PTL DEF LogSpec, LogInv

-----------------------------------------------------------------------------
(* The file transfer.                                                        *)

Has(queue, m) == \E i \in 1..Len(queue) : queue[i] = m

\* The user's answer, and everything that follows from a yes.
Consented ==
  /\ offer => receiver = "asking" /\ answer = "none"
  /\ receiver \in {"auth", "offer"} => answer = "none"
  /\ receiver \in {"accepting", "creating", "writing"} => answer = "yes"
  /\ Has(wire.back, "FileAccept") => answer = "yes" /\ receiver \in {"creating", "writing", "over"}
  /\ sender \in {"opening", "sending", "completing", "failing"} => answer = "yes"
  /\ sendStatus = "active" \/ read > 0 \/ disk # "none" => answer = "yes"
  /\ recvStatus = "rejected" => answer # "yes" /\ ~offer /\ receiver = "over"

\* How far the two tasks can be apart before the first chunk.
InStep ==
  /\ receiver = "auth" =>
       /\ Len(wire.out) = 0 \/ (Len(wire.out) = 1 /\ wire.out[1] = "Auth")
       /\ sender \in {"auth", "over"} /\ Len(wire.back) = 0
  /\ receiver = "offer" =>
       /\ Len(wire.out) = 0 \/ (Len(wire.out) = 1 /\ wire.out[1] = "FileOffer" /\ sender # "auth")
       /\ sender \in {"auth", "offered", "over"}
  /\ receiver \in {"asking", "accepting"} => Len(wire.out) = 0 /\ sender \in {"offered", "over"}
  /\ receiver \in {"auth", "offer", "asking", "accepting"} => read = 0 /\ received = 0
  /\ sender = "auth" => received = 0 /\ receiver \in {"auth", "offer", "over"}
  /\ sender \in {"auth", "offered", "opening"} => read = 0
  /\ sender \in {"offered", "opening"} /\ receiver \in {"creating", "writing"} =>
       received = 0 /\ Len(wire.out) = 0

\* What is under way while the receiver takes the file: chunks it lacks, and FileComplete only
\* behind all of them.
Flow ==
  receiver \in {"creating", "writing"} =>
    /\ \A i \in 1..Len(wire.out) : wire.out[i] = "FileComplete" =>
         /\ i = Len(wire.out) /\ received + i = read + 1 /\ left = 0
         /\ sender \in {"completing", "over"} /\ sendStatus # "error"
    /\ sender = "sending" /\ wire.up =>
         received + Len(wire.out) = read /\ \A i \in 1..Len(wire.out) : wire.out[i] = "FileChunk"

Ended ==
  /\ receiver = "writing" => disk \in {"file", "short"}
  /\ disk = "short" => received > 0
  /\ sender \in {"opening", "sending", "completing"} => sendStatus = "active"
  /\ recvStatus = "done" =>
       /\ received = read /\ left = 0 /\ sendStatus # "error"
       /\ sender \in {"completing", "over"} /\ receiver = "over" /\ disk \in {"file", "short"}

Senders == {"auth", "offered", "opening", "sending", "completing", "failing", "over"}
Receivers == {"auth", "offer", "asking", "accepting", "creating", "writing", "over"}

Wires == [up : BOOLEAN, out : Seq(Requests), back : Seq(Answers)]

TransferTyped ==
  /\ sender \in Senders /\ receiver \in Receivers
  /\ sendStatus \in Statuses /\ recvStatus \in Statuses
  /\ size \in Nat /\ left \in Nat /\ read \in Nat /\ received \in Nat
  /\ disk \in {"none", "file", "short", "removed"} /\ answer \in {"none", "yes", "no"}
  /\ offer \in BOOLEAN
  /\ wire \in Wires

TransferInv == TransferTyped /\ Consented /\ InStep /\ Flow /\ Ended /\ received <= size

\* What becomes of a queue that is read, written or cut off.
ReadFrom(queue, rest) ==
  /\ Len(queue) > 0 /\ Len(rest) = Len(queue) - 1
  /\ \A i \in 1..Len(rest) : rest[i] = queue[i + 1]
WrittenTo(queue, more, m) ==
  /\ Len(more) = Len(queue) + 1 /\ more[Len(more)] = m
  /\ \A i \in 1..Len(queue) : more[i] = queue[i]
CutFrom(queue, rest) ==
  /\ Len(rest) <= Len(queue)
  /\ \A i \in 1..Len(rest) : rest[i] = queue[i]

LEMMA TailRead ==
  ASSUME NEW M, NEW q \in Seq(M), q # <<>>
  PROVE  ReadFrom(q, Tail(q)) /\ Tail(q) \in Seq(M) /\ Head(q) = q[1]
  BY DEF ReadFrom

LEMMA AppendWritten ==
  ASSUME NEW M, NEW q \in Seq(M), NEW m \in M
  PROVE  WrittenTo(q, Append(q, m), m) /\ Append(q, m) \in Seq(M)
  BY DEF WrittenTo

LEMMA SubSeqCut ==
  ASSUME NEW M, NEW q \in Seq(M), NEW n \in 0..Len(q)
  PROVE  CutFrom(q, SubSeq(q, 1, n)) /\ SubSeq(q, 1, n) \in Seq(M)
  BY DEF CutFrom

\* A FileAccept that is under way was written.
LEMMA HasKept ==
  ASSUME NEW q \in Seq(Answers), NEW p \in Seq(Answers)
  PROVE  /\ ReadFrom(q, p) \/ CutFrom(q, p) => (Has(p, "FileAccept") => Has(q, "FileAccept"))
         /\ \A k \in Answers : WrittenTo(q, p, k) /\ k # "FileAccept" =>
              (Has(p, "FileAccept") => Has(q, "FileAccept"))
<1>1. ASSUME ReadFrom(q, p), NEW i \in 1..Len(p), p[i] = "FileAccept" PROVE Has(q, "FileAccept")
  <2>1. i + 1 \in 1..Len(q) /\ q[i + 1] = "FileAccept"
    BY <1>1 DEF ReadFrom
  <2> QED
    BY <2>1 DEF Has
<1>2. ASSUME CutFrom(q, p), NEW i \in 1..Len(p), p[i] = "FileAccept" PROVE Has(q, "FileAccept")
  <2>1. i \in 1..Len(q) /\ q[i] = "FileAccept"
    BY <1>2 DEF CutFrom
  <2> QED
    BY <2>1 DEF Has
<1>3. ASSUME NEW k \in Answers, WrittenTo(q, p, k), k # "FileAccept",
             NEW i \in 1..Len(p), p[i] = "FileAccept"
      PROVE  Has(q, "FileAccept")
  <2>1. i \in 1..Len(q) /\ q[i] = "FileAccept"
    BY <1>3 DEF WrittenTo
  <2> QED
    BY <2>1 DEF Has
<1> QED
  BY <1>1, <1>2, <1>3 DEF Has

LEMMA TransferStart == TransferInit => TransferInv
<1> SUFFICES ASSUME TransferInit PROVE TransferInv
  OBVIOUS
<1>1. wire.out = <<"Auth">> /\ wire.back = <<>> /\ wire.up = TRUE
  BY DEF TransferInit
<1>a. <<"Auth">> \in Seq(Requests) /\ <<>> \in Seq(Answers)
  BY DEF Requests
<1>b. wire \in Wires
  BY <1>a DEF TransferInit, Wires
<1>2. TransferTyped
  BY <1>b DEF TransferInit, TransferTyped, Senders, Receivers, Statuses
<1>3. Len(wire.out) = 1 /\ wire.out[1] = "Auth" /\ Len(wire.back) = 0
  BY <1>1
<1>4. ~Has(wire.back, "FileAccept")
  BY <1>3 DEF Has
<1> QED
  BY <1>2, <1>3, <1>4 DEF TransferInit, TransferInv, Consented, InStep, Flow, Ended

\* What one reading or writing does to the two directions.
LEMMA BackRead ==
  ASSUME wire \in Wires, NEW m, SenderReads(m), wire' = [wire EXCEPT !.back = Tail(@)]
  PROVE  /\ wire' \in Wires /\ wire'.up = wire.up /\ wire'.out = wire.out
         /\ ReadFrom(wire.back, wire'.back) /\ Has(wire.back, m)
         /\ Has(wire'.back, "FileAccept") => Has(wire.back, "FileAccept")
<1>1. wire.back \in Seq(Answers) /\ wire.back # <<>> /\ Head(wire.back) = m
  BY DEF Wires, SenderReads
<1>2. wire'.back = Tail(wire.back) /\ wire'.up = wire.up /\ wire'.out = wire.out
  BY DEF Wires
<1>3. ReadFrom(wire.back, Tail(wire.back)) /\ Tail(wire.back) \in Seq(Answers) /\ wire.back[1] = m
  BY <1>1, TailRead
<1>4. wire' \in Wires
  BY <1>3 DEF Wires
<1>5. Has(wire.back, m)
  <2>1. 1 \in 1..Len(wire.back)
    BY <1>1, <1>3 DEF ReadFrom
  <2> QED
    BY <2>1, <1>3 DEF Has
<1> QED
  BY <1>1, <1>2, <1>3, <1>4, <1>5, HasKept

LEMMA OutRead ==
  ASSUME wire \in Wires, NEW m, ReceiverReads(m), wire' = [wire EXCEPT !.out = Tail(@)]
  PROVE  /\ wire' \in Wires /\ wire'.up = wire.up /\ wire'.back = wire.back
         /\ ReadFrom(wire.out, wire'.out) /\ wire.out[1] = m
<1>1. wire.out \in Seq(Requests) /\ wire.out # <<>> /\ Head(wire.out) = m
  BY DEF Wires, ReceiverReads
<1>2. wire'.out = Tail(wire.out) /\ wire'.up = wire.up /\ wire'.back = wire.back
  BY DEF Wires
<1>3. ReadFrom(wire.out, Tail(wire.out)) /\ Tail(wire.out) \in Seq(Requests) /\ wire.out[1] = m
  BY <1>1, TailRead
<1>4. wire' \in Wires
  BY <1>3 DEF Wires
<1> QED
  BY <1>2, <1>3, <1>4

LEMMA OutWritten ==
  ASSUME wire \in Wires, NEW m \in Requests, wire' = [wire EXCEPT !.out = Sent(@, m)]
  PROVE  /\ wire' \in Wires /\ wire'.up = wire.up /\ wire'.back = wire.back
         /\ wire.up => WrittenTo(wire.out, wire'.out, m)
         /\ ~wire.up => wire'.out = wire.out
<1>1. wire.out \in Seq(Requests)
  BY DEF Wires
<1>2. wire'.out = Sent(wire.out, m) /\ wire'.up = wire.up /\ wire'.back = wire.back
  BY DEF Wires
<1>3. WrittenTo(wire.out, Append(wire.out, m), m) /\ Append(wire.out, m) \in Seq(Requests)
  BY <1>1, AppendWritten
<1>4. wire' \in Wires
  BY <1>1, <1>3 DEF Wires, Sent
<1> QED
  BY <1>2, <1>3, <1>4 DEF Sent

LEMMA BackWritten ==
  ASSUME wire \in Wires, NEW m \in Answers, wire' = [wire EXCEPT !.back = Sent(@, m)]
  PROVE  /\ wire' \in Wires /\ wire'.up = wire.up /\ wire'.out = wire.out
         /\ m # "FileAccept" => (Has(wire'.back, "FileAccept") => Has(wire.back, "FileAccept"))
<1>1. wire.back \in Seq(Answers)
  BY DEF Wires
<1>2. wire'.back = Sent(wire.back, m) /\ wire'.up = wire.up /\ wire'.out = wire.out
  BY DEF Wires
<1>3. WrittenTo(wire.back, Append(wire.back, m), m) /\ Append(wire.back, m) \in Seq(Answers)
  BY <1>1, AppendWritten
<1>4. wire' \in Wires
  BY <1>1, <1>3 DEF Wires, Sent
<1>5. m # "FileAccept" => (Has(Append(wire.back, m), "FileAccept") => Has(wire.back, "FileAccept"))
  BY <1>1, <1>3, HasKept
<1> QED
  BY <1>2, <1>4, <1>5 DEF Sent

\* The two that read one direction and write the other.
LEMMA OfferSent ==
  ASSUME wire \in Wires, SenderReads("AuthOk"),
         wire' = [wire EXCEPT !.back = Tail(@), !.out = Sent(@, "FileOffer")]
  PROVE  /\ wire' \in Wires /\ wire'.up = wire.up
         /\ Has(wire'.back, "FileAccept") => Has(wire.back, "FileAccept")
         /\ Len(wire.back) > 0
         /\ wire.up => WrittenTo(wire.out, wire'.out, "FileOffer")
         /\ ~wire.up => wire'.out = wire.out
<1>1. /\ wire.back \in Seq(Answers) /\ wire.back # <<>> /\ wire.out \in Seq(Requests)
      /\ "FileOffer" \in Requests
  BY DEF Wires, SenderReads, Requests
<1>2. wire'.back = Tail(wire.back) /\ wire'.up = wire.up /\ wire'.out = Sent(wire.out, "FileOffer")
  BY DEF Wires
<1>3. ReadFrom(wire.back, Tail(wire.back)) /\ Tail(wire.back) \in Seq(Answers)
  BY <1>1, TailRead
<1>4. /\ WrittenTo(wire.out, Append(wire.out, "FileOffer"), "FileOffer")
      /\ Append(wire.out, "FileOffer") \in Seq(Requests)
  BY <1>1, AppendWritten
<1>5. wire' \in Wires
  BY <1>1, <1>3, <1>4 DEF Wires, Sent
<1>6. Has(Tail(wire.back), "FileAccept") => Has(wire.back, "FileAccept")
  BY <1>1, <1>3, HasKept
<1> QED
  BY <1>2, <1>3, <1>4, <1>5, <1>6 DEF Sent, ReadFrom

LEMMA AuthAnswered ==
  ASSUME wire \in Wires, ReceiverReads("Auth"), NEW m \in {"AuthOk", "AuthFail"},
         wire' = [wire EXCEPT !.out = Tail(@), !.back = Sent(@, m)]
  PROVE  /\ wire' \in Wires /\ wire'.up = wire.up /\ ReadFrom(wire.out, wire'.out)
         /\ Has(wire'.back, "FileAccept") => Has(wire.back, "FileAccept")
<1>1. /\ wire.out \in Seq(Requests) /\ wire.out # <<>> /\ wire.back \in Seq(Answers)
      /\ m \in Answers /\ m # "FileAccept"
  BY DEF Wires, ReceiverReads, Answers
<1>2. wire'.out = Tail(wire.out) /\ wire'.up = wire.up /\ wire'.back = Sent(wire.back, m)
  BY DEF Wires
<1>3. ReadFrom(wire.out, Tail(wire.out)) /\ Tail(wire.out) \in Seq(Requests)
  BY <1>1, TailRead
<1>4. WrittenTo(wire.back, Append(wire.back, m), m) /\ Append(wire.back, m) \in Seq(Answers)
  BY <1>1, AppendWritten
<1>5. wire' \in Wires
  BY <1>1, <1>3, <1>4 DEF Wires, Sent
<1>6. Has(Append(wire.back, m), "FileAccept") => Has(wire.back, "FileAccept")
  BY <1>1, <1>4, HasKept
<1> QED
  BY <1>2, <1>3, <1>5, <1>6 DEF Sent

LEMMA StreamCut ==
  ASSUME wire \in Wires, Break
  PROVE  /\ wire' \in Wires /\ wire'.up = FALSE /\ CutFrom(wire.out, wire'.out)
         /\ CutFrom(wire.back, wire'.back)
         /\ Has(wire'.back, "FileAccept") => Has(wire.back, "FileAccept")
<1>1. PICK m \in 0..Len(wire.out), n \in 0..Len(wire.back) :
         wire' = [up |-> FALSE, out |-> SubSeq(wire.out, 1, m), back |-> SubSeq(wire.back, 1, n)]
  BY DEF Break
<1>2. wire.out \in Seq(Requests) /\ wire.back \in Seq(Answers)
  BY DEF Wires
<1>3. CutFrom(wire.out, SubSeq(wire.out, 1, m)) /\ SubSeq(wire.out, 1, m) \in Seq(Requests)
  BY <1>2, SubSeqCut
<1>4. CutFrom(wire.back, SubSeq(wire.back, 1, n)) /\ SubSeq(wire.back, 1, n) \in Seq(Answers)
  BY <1>2, SubSeqCut
<1>5. Has(SubSeq(wire.back, 1, n), "FileAccept") => Has(wire.back, "FileAccept")
  BY <1>2, <1>4, HasKept
<1>6. wire' \in Wires
  BY <1>1, <1>3, <1>4 DEF Wires
<1> QED
  BY <1>1, <1>3, <1>4, <1>5, <1>6

\* Each step keeps the invariant: those of the sender, of the receiver, and the rest.
LEMMA SenderKeepsTransfer == TransferInv /\ SenderStep => TransferInv'
<1> SUFFICES ASSUME TransferInv, SenderStep PROVE TransferInv'
  OBVIOUS
<1> USE DEF TransferInv, TransferTyped, Senders, Receivers, Statuses, Consented, InStep, Flow, Ended
<1>0. wire \in Wires /\ wire.up \in BOOLEAN /\ Len(wire.out) \in Nat /\ Len(wire.back) \in Nat
  BY DEF Wires
<1>1. CASE SendOffer
  <2>1. /\ wire' \in Wires /\ wire'.up = wire.up /\ (Has(wire'.back, "FileAccept") => Has(wire.back, "FileAccept"))
        /\ Len(wire.back) > 0 /\ (~wire.up => wire'.out = wire.out)
        /\ sender' = "offered" /\ wire.up => WrittenTo(wire.out, wire'.out, "FileOffer")
        /\ sender' = "over" => wire'.out = wire.out
    <3>1. ASSUME wire' = [wire EXCEPT !.back = Tail(@)], SenderReads("AuthOk")
          PROVE  /\ wire' \in Wires /\ wire'.up = wire.up /\ wire'.out = wire.out
                 /\ Has(wire'.back, "FileAccept") => Has(wire.back, "FileAccept")
      BY <3>1, BackRead
    <3>2. ASSUME wire' = [wire EXCEPT !.back = Tail(@), !.out = Sent(@, "FileOffer")], SenderReads("AuthOk")
          PROVE  /\ wire' \in Wires /\ wire'.up = wire.up
                 /\ Has(wire'.back, "FileAccept") => Has(wire.back, "FileAccept")
                 /\ wire.up => WrittenTo(wire.out, wire'.out, "FileOffer")
                 /\ ~wire.up => wire'.out = wire.out
      BY <3>2, OfferSent
    <3>3. SenderReads("AuthOk") => Len(wire.back) > 0
      BY DEF SenderReads, Wires
    <3> QED
      BY <1>0, <1>1, <3>1, <3>2, <3>3 DEF SendOffer
  <2>2. TransferTyped'
    BY <1>0, <1>1, <2>1 DEF SendOffer, senderVars, receiverVars, WrittenTo
  <2>3. Consented'
    BY <1>0, <1>1, <2>1 DEF SendOffer, senderVars, receiverVars, WrittenTo
  <2>4. InStep'
    <3>1. /\ receiver \in {"offer", "over"} /\ (receiver = "offer" => Len(wire.out) = 0)
          /\ sender' \in {"offered", "over"} /\ read' = 0 /\ received' = 0
          /\ receiver' = receiver
      BY <1>0, <1>1, <2>1 DEF SendOffer, receiverVars
    <3>2. receiver = "offer" => \/ Len(wire'.out) = 0
                                \/ /\ Len(wire'.out) = 1 /\ wire'.out[1] = "FileOffer"
      <4>1. wire'.out = wire.out \/ WrittenTo(wire.out, wire'.out, "FileOffer")
        BY <2>1, <3>1
      <4>2. ASSUME receiver = "offer", WrittenTo(wire.out, wire'.out, "FileOffer")
            PROVE  Len(wire'.out) = 1 /\ wire'.out[1] = "FileOffer"
        <5>1. Len(wire'.out) = 1
          BY <3>1, <4>2 DEF WrittenTo
        <5> QED
          BY <4>2, <5>1 DEF WrittenTo
      <4> QED
        BY <3>1, <4>1, <4>2
    <3> QED
      BY <3>1, <3>2 DEF InStep
  <2>5. Flow'
    BY <1>0, <1>1, <2>1 DEF SendOffer, senderVars, receiverVars, WrittenTo
  <2>6. (Ended /\ received <= size)'
    BY <1>0, <1>1, <2>1 DEF SendOffer, senderVars, receiverVars, WrittenTo
  <2> QED
    BY <2>2, <2>3, <2>4, <2>5, <2>6 DEF TransferInv
<1>2. CASE SenderNotAllowed
  <2>1. /\ wire' \in Wires /\ wire'.up = wire.up /\ wire'.out = wire.out
        /\ Has(wire'.back, "FileAccept") => Has(wire.back, "FileAccept")
    BY <1>0, <1>2, BackRead DEF SenderNotAllowed
  <2>2. TransferTyped'
    BY <1>0, <1>2, <2>1 DEF SenderNotAllowed, senderVars, receiverVars
  <2>3. Consented'
    BY <1>0, <1>2, <2>1 DEF SenderNotAllowed, senderVars, receiverVars
  <2>4. InStep'
    <3>1. wire' = wire \/ Len(wire.back) > 0
      BY <1>0, <1>2 DEF SenderNotAllowed, SenderReads
    <3> QED
      BY <1>0, <1>2, <2>1, <3>1 DEF SenderNotAllowed, senderVars, receiverVars
  <2>5. Flow'
    BY <1>0, <1>2, <2>1 DEF SenderNotAllowed, senderVars, receiverVars
  <2>6. (Ended /\ received <= size)'
    BY <1>0, <1>2, <2>1 DEF SenderNotAllowed, senderVars, receiverVars
  <2> QED
    BY <2>2, <2>3, <2>4, <2>5, <2>6 DEF TransferInv
<1>3. CASE SenderAccepted
  <2>1. /\ wire' \in Wires /\ wire'.up = wire.up /\ wire'.out = wire.out
        /\ Has(wire'.back, "FileAccept") => Has(wire.back, "FileAccept")
        /\ Has(wire.back, "FileAccept")
    BY <1>0, <1>3, BackRead DEF SenderAccepted
  <2>2. TransferTyped'
    BY <1>0, <1>3, <2>1 DEF SenderAccepted, senderVars, receiverVars
  <2>3. Consented'
    BY <1>0, <1>3, <2>1 DEF SenderAccepted, senderVars, receiverVars
  <2>4. InStep'
    BY <1>0, <1>3, <2>1 DEF SenderAccepted, senderVars, receiverVars
  <2>5. Flow'
    BY <1>0, <1>3, <2>1 DEF SenderAccepted, senderVars, receiverVars
  <2>6. (Ended /\ received <= size)'
    BY <1>0, <1>3, <2>1 DEF SenderAccepted, senderVars, receiverVars
  <2> QED
    BY <2>2, <2>3, <2>4, <2>5, <2>6 DEF TransferInv
<1>4. CASE SenderRejected
  <2>1. /\ wire' \in Wires /\ wire'.up = wire.up /\ wire'.out = wire.out
        /\ Has(wire'.back, "FileAccept") => Has(wire.back, "FileAccept")
    BY <1>0, <1>4, BackRead DEF SenderRejected
  <2>2. TransferTyped'
    BY <1>0, <1>4, <2>1 DEF SenderRejected, senderVars, receiverVars
  <2>3. Consented'
    BY <1>0, <1>4, <2>1 DEF SenderRejected, senderVars, receiverVars
  <2>4. InStep'
    BY <1>0, <1>4, <2>1 DEF SenderRejected, senderVars, receiverVars
  <2>5. Flow'
    BY <1>0, <1>4, <2>1 DEF SenderRejected, senderVars, receiverVars
  <2>6. (Ended /\ received <= size)'
    BY <1>0, <1>4, <2>1 DEF SenderRejected, senderVars, receiverVars
  <2> QED
    BY <2>2, <2>3, <2>4, <2>5, <2>6 DEF TransferInv
<1>5. CASE OpenFile
  <2>1. TransferTyped'
    BY <1>0, <1>5 DEF OpenFile, senderVars, receiverVars
  <2>2. Consented'
    BY <1>0, <1>5 DEF OpenFile, senderVars, receiverVars
  <2>3. InStep'
    BY <1>0, <1>5 DEF OpenFile, senderVars, receiverVars
  <2>4. Flow'
    BY <1>0, <1>5 DEF OpenFile, senderVars, receiverVars
  <2>5. (Ended /\ received <= size)'
    BY <1>0, <1>5 DEF OpenFile, senderVars, receiverVars
  <2> QED
    BY <2>1, <2>2, <2>3, <2>4, <2>5 DEF TransferInv
<1>6. CASE SendChunk
  <2>1. /\ wire' \in Wires /\ wire'.up = wire.up /\ wire'.back = wire.back
        /\ wire.up => WrittenTo(wire.out, wire'.out, "FileChunk")
        /\ ~wire.up => wire'.out = wire.out
    <3>1. "FileChunk" \in Requests
      BY DEF Requests
    <3> QED
      BY <1>0, <1>6, <3>1, OutWritten DEF SendChunk
  <2>2. TransferTyped'
    BY <1>0, <1>6, <2>1 DEF SendChunk, senderVars, receiverVars, WrittenTo
  <2>3. Consented'
    BY <1>0, <1>6, <2>1 DEF SendChunk, senderVars, receiverVars, WrittenTo
  <2>4. InStep'
    BY <1>0, <1>6, <2>1 DEF SendChunk, senderVars, receiverVars, WrittenTo
  <2>5. Flow'
    <3>1. /\ sender = "sending" /\ sender' = sender /\ left > 0 /\ receiver' = receiver
          /\ received' = received /\ read' = read + 1
      BY <1>6 DEF SendChunk, receiverVars
    <3>2. CASE receiver \in {"creating", "writing"}
      <4>1. \A i \in 1..Len(wire.out) : wire.out[i] # "FileComplete"
        BY <3>1, <3>2
      <4>2. \A i \in 1..Len(wire'.out) : wire'.out[i] # "FileComplete"
        BY <1>0, <2>1, <4>1 DEF WrittenTo
      <4>3. wire'.up => /\ received' + Len(wire'.out) = read'
                       /\ \A i \in 1..Len(wire'.out) : wire'.out[i] = "FileChunk"
        <5>1. wire.up => /\ received + Len(wire.out) = read
                         /\ \A i \in 1..Len(wire.out) : wire.out[i] = "FileChunk"
          BY <3>1, <3>2
        <5>2. wire'.up => WrittenTo(wire.out, wire'.out, "FileChunk")
          BY <2>1
        <5>3. received \in Nat /\ read \in Nat
          OBVIOUS
        <5> HIDE DEF TransferInv, TransferTyped, Consented, InStep, Flow, Ended
        <5>4. wire'.up => received' + Len(wire'.out) = read'
          <6>1. Len(wire.out) \in Nat
            BY <1>0
          <6>2. wire'.up => Len(wire'.out) = Len(wire.out) + 1
            BY <5>2 DEF WrittenTo
          <6> QED
            BY <2>1, <3>1, <5>1, <5>3, <6>1, <6>2
        <5>5. wire'.up => \A i \in 1..Len(wire'.out) : wire'.out[i] = "FileChunk"
          BY <1>0, <2>1, <5>1, <5>2 DEF WrittenTo
        <5> QED
          BY <5>4, <5>5
      <4> QED
        BY <4>2, <4>3
    <3> QED
      BY <3>1, <3>2
  <2>6. (Ended /\ received <= size)'
    BY <1>0, <1>6, <2>1 DEF SendChunk, senderVars, receiverVars, WrittenTo
  <2> QED
    BY <2>2, <2>3, <2>4, <2>5, <2>6 DEF TransferInv
<1>7. CASE ReadFails
  <2>1. /\ wire' \in Wires /\ wire'.up = wire.up /\ wire'.back = wire.back
        /\ wire.up => WrittenTo(wire.out, wire'.out, "FileError")
        /\ ~wire.up => wire'.out = wire.out
    <3>1. "FileError" \in Requests
      BY DEF Requests
    <3> QED
      BY <1>0, <1>7, <3>1, OutWritten DEF ReadFails
  <2>2. TransferTyped'
    BY <1>0, <1>7, <2>1 DEF ReadFails, senderVars, receiverVars, WrittenTo
  <2>3. Consented'
    BY <1>0, <1>7, <2>1 DEF ReadFails, senderVars, receiverVars, WrittenTo
  <2>4. InStep'
    BY <1>0, <1>7, <2>1 DEF ReadFails, senderVars, receiverVars, WrittenTo
  <2>5. Flow'
    BY <1>0, <1>7, <2>1 DEF ReadFails, senderVars, receiverVars, WrittenTo
  <2>6. (Ended /\ received <= size)'
    BY <1>0, <1>7, <2>1 DEF ReadFails, senderVars, receiverVars, WrittenTo
  <2> QED
    BY <2>2, <2>3, <2>4, <2>5, <2>6 DEF TransferInv
<1>8. CASE Complete
  <2>1. /\ wire' \in Wires /\ wire'.up = wire.up /\ wire'.back = wire.back
        /\ wire.up => WrittenTo(wire.out, wire'.out, "FileComplete")
        /\ ~wire.up => wire'.out = wire.out
    <3>1. "FileComplete" \in Requests
      BY DEF Requests
    <3> QED
      BY <1>0, <1>8, <3>1, OutWritten DEF Complete
  <2>2. TransferTyped'
    BY <1>0, <1>8, <2>1 DEF Complete, senderVars, receiverVars, WrittenTo
  <2>3. Consented'
    BY <1>0, <1>8, <2>1 DEF Complete, senderVars, receiverVars, WrittenTo
  <2>4. InStep'
    BY <1>0, <1>8, <2>1 DEF Complete, senderVars, receiverVars, WrittenTo
  <2>5. Flow'
    <3>1. /\ sender = "sending" /\ sender' = "completing" /\ left = 0 /\ left' = left /\ receiver' = receiver
          /\ received' = received /\ read' = read /\ sendStatus = "active" /\ sendStatus' = sendStatus
      BY <1>8 DEF Complete, receiverVars
    <3>2. CASE receiver \in {"creating", "writing"}
      <4>1. \A i \in 1..Len(wire.out) : wire.out[i] # "FileComplete"
        BY <3>1, <3>2
      <4>2. wire.up => received + Len(wire.out) = read
        BY <3>1, <3>2
      <4>3. received \in Nat /\ read \in Nat
        OBVIOUS
      <4> HIDE DEF TransferInv, TransferTyped, Consented, InStep, Ended
      <4>4. ASSUME wire.up, NEW i \in 1..Len(wire'.out), wire'.out[i] = "FileComplete"
            PROVE  i = Len(wire'.out) /\ received + i = read + 1
        <5>1. Len(wire.out) \in Nat
          BY <1>0
        <5>2. Len(wire'.out) = Len(wire.out) + 1 /\ \A j \in 1..Len(wire.out) : wire'.out[j] = wire.out[j]
          BY <2>1, <4>4 DEF WrittenTo
        <5>3. i = Len(wire.out) + 1
          BY <4>1, <4>4, <5>1, <5>2
        <5> QED
          BY <4>2, <4>3, <4>4, <5>1, <5>2, <5>3
      <4>5. ~wire.up => \A i \in 1..Len(wire'.out) : wire'.out[i] # "FileComplete"
        BY <2>1, <4>1
      <4> QED
        BY <3>1, <4>4, <4>5
    <3> QED
      BY <3>1, <3>2
  <2>6. (Ended /\ received <= size)'
    BY <1>0, <1>8, <2>1 DEF Complete, senderVars, receiverVars, WrittenTo
  <2> QED
    BY <2>2, <2>3, <2>4, <2>5, <2>6 DEF TransferInv
<1>9. CASE ListEnd
  <2>1. TransferTyped'
    BY <1>0, <1>9 DEF ListEnd, senderVars, receiverVars
  <2>2. Consented'
    BY <1>0, <1>9 DEF ListEnd, senderVars, receiverVars
  <2>3. InStep'
    BY <1>0, <1>9 DEF ListEnd, senderVars, receiverVars
  <2>4. Flow'
    BY <1>0, <1>9 DEF ListEnd, senderVars, receiverVars
  <2>5. (Ended /\ received <= size)'
    BY <1>0, <1>9 DEF ListEnd, senderVars, receiverVars
  <2> QED
    BY <2>1, <2>2, <2>3, <2>4, <2>5 DEF TransferInv
<1> QED
  BY <1>1, <1>2, <1>3, <1>4, <1>5, <1>6, <1>7, <1>8, <1>9 DEF SenderStep

LEMMA ReceiverKeepsTransfer == TransferInv /\ ReceiverStep => TransferInv'
<1> SUFFICES ASSUME TransferInv, ReceiverStep PROVE TransferInv'
  OBVIOUS
<1> USE DEF TransferInv, TransferTyped, Senders, Receivers, Statuses, Consented, InStep, Flow, Ended
<1>0. wire \in Wires /\ wire.up \in BOOLEAN /\ Len(wire.out) \in Nat /\ Len(wire.back) \in Nat
  BY DEF Wires
<1>1. CASE CheckAuth
  <2>1. /\ wire' \in Wires /\ wire'.up = wire.up /\ ReadFrom(wire.out, wire'.out)
        /\ Has(wire'.back, "FileAccept") => Has(wire.back, "FileAccept")
    BY <1>0, <1>1, AuthAnswered DEF CheckAuth
  <2>2. TransferTyped'
    BY <1>0, <1>1, <2>1 DEF CheckAuth, senderVars, receiverVars, ReadFrom
  <2>3. Consented'
    BY <1>0, <1>1, <2>1 DEF CheckAuth, senderVars, receiverVars, ReadFrom
  <2>4. InStep'
    BY <1>0, <1>1, <2>1 DEF CheckAuth, senderVars, receiverVars, ReadFrom
  <2>5. Flow'
    BY <1>0, <1>1, <2>1 DEF CheckAuth, senderVars, receiverVars, ReadFrom
  <2>6. (Ended /\ received <= size)'
    BY <1>0, <1>1, <2>1 DEF CheckAuth, senderVars, receiverVars, ReadFrom
  <2> QED
    BY <2>2, <2>3, <2>4, <2>5, <2>6 DEF TransferInv
<1>2. CASE AskUser
  <2>1. /\ wire' \in Wires /\ wire'.up = wire.up /\ wire'.back = wire.back
        /\ ReadFrom(wire.out, wire'.out) /\ wire.out[1] = "FileOffer"
    BY <1>0, <1>2, OutRead DEF AskUser
  <2>2. TransferTyped'
    BY <1>0, <1>2, <2>1 DEF AskUser, senderVars, receiverVars, ReadFrom
  <2>3. Consented'
    BY <1>0, <1>2, <2>1 DEF AskUser, senderVars, receiverVars, ReadFrom
  <2>4. InStep'
    BY <1>0, <1>2, <2>1 DEF AskUser, senderVars, receiverVars, ReadFrom
  <2>5. Flow'
    BY <1>0, <1>2, <2>1 DEF AskUser, senderVars, receiverVars, ReadFrom
  <2>6. (Ended /\ received <= size)'
    BY <1>0, <1>2, <2>1 DEF AskUser, senderVars, receiverVars, ReadFrom
  <2> QED
    BY <2>2, <2>3, <2>4, <2>5, <2>6 DEF TransferInv
<1>3. CASE OfferOver
  <2>1. /\ wire' \in Wires /\ wire'.up = wire.up /\ wire'.out = wire.out
        /\ Has(wire'.back, "FileAccept") => Has(wire.back, "FileAccept")
    <3>1. "FileReject" \in Answers /\ "FileReject" # "FileAccept"
      BY DEF Answers
    <3> QED
      BY <1>0, <1>3, <3>1, BackWritten DEF OfferOver
  <2>2. TransferTyped'
    BY <1>0, <1>3, <2>1 DEF OfferOver, senderVars, receiverVars
  <2>3. Consented'
    BY <1>0, <1>3, <2>1 DEF OfferOver, senderVars, receiverVars
  <2>4. InStep'
    BY <1>0, <1>3, <2>1 DEF OfferOver, senderVars, receiverVars
  <2>5. Flow'
    BY <1>0, <1>3, <2>1 DEF OfferOver, senderVars, receiverVars
  <2>6. (Ended /\ received <= size)'
    BY <1>0, <1>3, <2>1 DEF OfferOver, senderVars, receiverVars
  <2> QED
    BY <2>2, <2>3, <2>4, <2>5, <2>6 DEF TransferInv
<1>4. CASE AcceptOffer
  <2>1. wire' \in Wires /\ wire'.up = wire.up /\ wire'.out = wire.out
    <3>1. "FileAccept" \in Answers
      BY DEF Answers
    <3> QED
      BY <1>0, <1>4, <3>1, BackWritten DEF AcceptOffer
  <2>2. receiver' = "over" => wire' = wire
    BY <1>0, <1>4 DEF AcceptOffer
  <2>3. TransferTyped'
    BY <1>0, <1>4, <2>1, <2>2 DEF AcceptOffer, senderVars, receiverVars
  <2>4. Consented'
    BY <1>0, <1>4, <2>1, <2>2 DEF AcceptOffer, senderVars, receiverVars
  <2>5. InStep'
    BY <1>0, <1>4, <2>1, <2>2 DEF AcceptOffer, senderVars, receiverVars
  <2>6. Flow'
    BY <1>0, <1>4, <2>1, <2>2 DEF AcceptOffer, senderVars, receiverVars
  <2>7. (Ended /\ received <= size)'
    BY <1>0, <1>4, <2>1, <2>2 DEF AcceptOffer, senderVars, receiverVars
  <2> QED
    BY <2>3, <2>4, <2>5, <2>6, <2>7 DEF TransferInv
<1>5. CASE CreateFile
  <2>1. TransferTyped'
    BY <1>0, <1>5 DEF CreateFile, senderVars, receiverVars
  <2>2. Consented'
    BY <1>0, <1>5 DEF CreateFile, senderVars, receiverVars
  <2>3. InStep'
    BY <1>0, <1>5 DEF CreateFile, senderVars, receiverVars
  <2>4. Flow'
    BY <1>0, <1>5 DEF CreateFile, senderVars, receiverVars
  <2>5. (Ended /\ received <= size)'
    BY <1>0, <1>5 DEF CreateFile, senderVars, receiverVars
  <2> QED
    BY <2>1, <2>2, <2>3, <2>4, <2>5 DEF TransferInv
<1>6. CASE WriteChunk
  <2>1. /\ wire' \in Wires /\ wire'.up = wire.up /\ wire'.back = wire.back
        /\ ReadFrom(wire.out, wire'.out) /\ wire.out[1] = "FileChunk"
    BY <1>0, <1>6, OutRead DEF WriteChunk
  <2>2. TransferTyped'
    BY <1>0, <1>6, <2>1 DEF WriteChunk, senderVars, receiverVars, ReadFrom
  <2>3. Consented'
    BY <1>0, <1>6, <2>1 DEF WriteChunk, senderVars, receiverVars, ReadFrom
  <2>4. InStep'
    BY <1>0, <1>6, <2>1 DEF WriteChunk, senderVars, receiverVars, ReadFrom
  <2>5. Flow'
    <3>1. /\ receiver = "writing" /\ sender' = sender /\ left' = left /\ read' = read
          /\ sendStatus' = sendStatus
          /\ receiver' = "over" \/ (receiver' = "writing" /\ received' = received + 1)
      BY <1>6 DEF WriteChunk, senderVars
    <3>2. CASE receiver' = "writing"
      <4>1. \A i \in 1..Len(wire'.out) : i + 1 \in 1..Len(wire.out) /\ wire'.out[i] = wire.out[i + 1]
        BY <1>0, <2>1 DEF ReadFrom
      <4>2. Len(wire'.out) = Len(wire.out) - 1
        BY <2>1 DEF ReadFrom
      <4>3. ASSUME NEW i \in 1..Len(wire'.out), wire'.out[i] = "FileComplete"
            PROVE  /\ i = Len(wire'.out) /\ received' + i = read' + 1 /\ left' = 0
                   /\ sender' \in {"completing", "over"} /\ sendStatus' # "error"
        <5>1. i + 1 \in 1..Len(wire.out) /\ wire.out[i + 1] = "FileComplete"
          BY <4>1, <4>3
        <5>2. /\ i + 1 = Len(wire.out) /\ received + (i + 1) = read + 1 /\ left = 0
              /\ sender \in {"completing", "over"} /\ sendStatus # "error"
          BY <3>1, <5>1
        <5> QED
          BY <1>0, <3>1, <3>2, <4>2, <5>2
      <4>4. sender' = "sending" /\ wire'.up =>
              /\ received' + Len(wire'.out) = read'
              /\ \A i \in 1..Len(wire'.out) : wire'.out[i] = "FileChunk"
        <5>1. sender = "sending" /\ wire.up =>
                /\ received + Len(wire.out) = read
                /\ \A i \in 1..Len(wire.out) : wire.out[i] = "FileChunk"
          BY <3>1
        <5>2. received \in Nat /\ received' = received + 1
          BY <3>1, <3>2
        <5>3. received' + Len(wire'.out) = received + Len(wire.out)
          <6>1. \A r, n \in Nat : (r + 1) + (n - 1) = r + n
            OBVIOUS
          <6>2. received' + Len(wire'.out) = (received + 1) + (Len(wire.out) - 1)
            BY <4>2, <5>2
          <6> QED
            BY <1>0, <5>2, <6>1, <6>2
        <5> QED
          BY <2>1, <3>1, <4>1, <5>1, <5>3
      <4> QED
        BY <4>3, <4>4
    <3> QED
      BY <3>1, <3>2
  <2>6. (Ended /\ received <= size)'
    BY <1>0, <1>6, <2>1 DEF WriteChunk, senderVars, receiverVars, ReadFrom
  <2> QED
    BY <2>2, <2>3, <2>4, <2>5, <2>6 DEF TransferInv
<1>7. CASE FinishFile
  <2>1. /\ wire' \in Wires /\ wire'.up = wire.up /\ wire'.back = wire.back
        /\ ReadFrom(wire.out, wire'.out) /\ wire.out[1] = "FileComplete"
    BY <1>0, <1>7, OutRead DEF FinishFile
  <2>2. TransferTyped'
    BY <1>0, <1>7, <2>1 DEF FinishFile, senderVars, receiverVars, ReadFrom
  <2>3. Consented'
    BY <1>0, <1>7, <2>1 DEF FinishFile, senderVars, receiverVars, ReadFrom
  <2>4. InStep'
    BY <1>0, <1>7, <2>1 DEF FinishFile, senderVars, receiverVars, ReadFrom
  <2>5. Flow'
    BY <1>0, <1>7, <2>1 DEF FinishFile, senderVars, receiverVars, ReadFrom
  <2>6. (Ended /\ received <= size)'
    BY <1>0, <1>7, <2>1 DEF FinishFile, senderVars, receiverVars, ReadFrom
  <2> QED
    BY <2>2, <2>3, <2>4, <2>5, <2>6 DEF TransferInv
<1>8. CASE DiscardFile
  <2>1. /\ wire' \in Wires /\ wire'.up = wire.up /\ wire'.back = wire.back
        /\ ReadFrom(wire.out, wire'.out) /\ wire.out[1] = "FileError"
    BY <1>0, <1>8, OutRead DEF DiscardFile
  <2>2. TransferTyped'
    BY <1>0, <1>8, <2>1 DEF DiscardFile, senderVars, receiverVars, ReadFrom
  <2>3. Consented'
    BY <1>0, <1>8, <2>1 DEF DiscardFile, senderVars, receiverVars, ReadFrom
  <2>4. InStep'
    BY <1>0, <1>8, <2>1 DEF DiscardFile, senderVars, receiverVars, ReadFrom
  <2>5. Flow'
    BY <1>0, <1>8, <2>1 DEF DiscardFile, senderVars, receiverVars, ReadFrom
  <2>6. (Ended /\ received <= size)'
    BY <1>0, <1>8, <2>1 DEF DiscardFile, senderVars, receiverVars, ReadFrom
  <2> QED
    BY <2>2, <2>3, <2>4, <2>5, <2>6 DEF TransferInv
<1>9. CASE ReceiverStops
  <2>1. Len(wire.out) = 0
    BY <1>0, <1>9 DEF ReceiverStops, ReceiverHearsEnd
  <2>2. TransferTyped'
    BY <1>0, <1>9, <2>1 DEF ReceiverStops, senderVars, receiverVars
  <2>3. Consented'
    BY <1>0, <1>9, <2>1 DEF ReceiverStops, senderVars, receiverVars
  <2>4. InStep'
    BY <1>0, <1>9, <2>1 DEF ReceiverStops, senderVars, receiverVars
  <2>5. Flow'
    BY <1>0, <1>9, <2>1 DEF ReceiverStops, senderVars, receiverVars
  <2>6. (Ended /\ received <= size)'
    BY <1>0, <1>9, <2>1 DEF ReceiverStops, senderVars, receiverVars
  <2> QED
    BY <2>2, <2>3, <2>4, <2>5, <2>6 DEF TransferInv
<1> QED
  BY <1>1, <1>2, <1>3, <1>4, <1>5, <1>6, <1>7, <1>8, <1>9 DEF ReceiverStep

LEMMA OtherKeepsTransfer ==
  TransferInv /\ (UserAnswers \/ Break \/ SessionChanges \/ UNCHANGED transferVars) => TransferInv'
<1> SUFFICES ASSUME TransferInv, UserAnswers \/ Break \/ SessionChanges \/ UNCHANGED transferVars PROVE TransferInv'
  OBVIOUS
<1> USE DEF TransferInv, TransferTyped, Senders, Receivers, Statuses, Consented, InStep, Flow, Ended
<1>0. wire \in Wires /\ wire.up \in BOOLEAN /\ Len(wire.out) \in Nat /\ Len(wire.back) \in Nat
  BY DEF Wires
<1>1. CASE UserAnswers
  <2>1. TransferTyped'
    BY <1>0, <1>1 DEF UserAnswers, senderVars, receiverVars
  <2>2. Consented'
    BY <1>0, <1>1 DEF UserAnswers, senderVars, receiverVars
  <2>3. InStep'
    BY <1>0, <1>1 DEF UserAnswers, senderVars, receiverVars
  <2>4. Flow'
    BY <1>0, <1>1 DEF UserAnswers, senderVars, receiverVars
  <2>5. (Ended /\ received <= size)'
    BY <1>0, <1>1 DEF UserAnswers, senderVars, receiverVars
  <2> QED
    BY <2>1, <2>2, <2>3, <2>4, <2>5 DEF TransferInv
<1>2. CASE Break
  <2>1. /\ wire' \in Wires /\ ~wire'.up /\ CutFrom(wire.out, wire'.out) /\ CutFrom(wire.back, wire'.back)
        /\ Has(wire'.back, "FileAccept") => Has(wire.back, "FileAccept")
    BY <1>0, <1>2, StreamCut
  <2>2. TransferTyped'
    BY <1>0, <1>2, <2>1 DEF Break, senderVars, receiverVars, CutFrom
  <2>3. Consented'
    BY <1>0, <1>2, <2>1 DEF Break, senderVars, receiverVars, CutFrom
  <2>4. InStep'
    BY <1>0, <1>2, <2>1 DEF Break, senderVars, receiverVars, CutFrom
  <2>5. Flow'
    BY <1>0, <1>2, <2>1 DEF Break, senderVars, receiverVars, CutFrom
  <2>6. (Ended /\ received <= size)'
    BY <1>0, <1>2, <2>1 DEF Break, senderVars, receiverVars, CutFrom
  <2> QED
    BY <2>2, <2>3, <2>4, <2>5, <2>6 DEF TransferInv
<1>3. CASE SessionChanges
  <2>1. TransferTyped'
    BY <1>0, <1>3 DEF SessionChanges, senderVars, receiverVars
  <2>2. Consented'
    BY <1>0, <1>3 DEF SessionChanges, senderVars, receiverVars
  <2>3. InStep'
    BY <1>0, <1>3 DEF SessionChanges, senderVars, receiverVars
  <2>4. Flow'
    BY <1>0, <1>3 DEF SessionChanges, senderVars, receiverVars
  <2>5. (Ended /\ received <= size)'
    BY <1>0, <1>3 DEF SessionChanges, senderVars, receiverVars
  <2> QED
    BY <2>1, <2>2, <2>3, <2>4, <2>5 DEF TransferInv
<1>4. CASE UNCHANGED transferVars
  BY <1>4 DEF transferVars, senderVars, receiverVars
<1> QED
  BY <1>1, <1>2, <1>3, <1>4

\* The offer is asked for before anything is on the disk or sent, and no more is written than
\* was offered (transfer.rs:121, 182), for files of any size.
THEOREM FileWithConsent == TransferSpec => []ConsentFirst
<1>1. TransferInv => ConsentFirst
  BY DEF TransferInv, TransferTyped, Senders, Consented, ConsentFirst
<1>2. TransferInv /\ [TransferNext]_transferVars => TransferInv'
  BY SenderKeepsTransfer, ReceiverKeepsTransfer, OtherKeepsTransfer DEF TransferNext
<1> QED
  BY <1>1, <1>2, TransferStart, PTL DEF TransferSpec

\* A file that is reported done has been handed every chunk the sender read, and has them on its disk but for
\* a last one whose write failed (transfer.rs:196-197), for files of any size.
THEOREM FileWhole == TransferSpec => []DoneIsWhole
<1>1. TransferInv => DoneIsWhole
  BY DEF TransferInv, Ended, DoneIsWhole
<1>2. TransferInv /\ [TransferNext]_transferVars => TransferInv'
  BY SenderKeepsTransfer, ReceiverKeepsTransfer, OtherKeepsTransfer DEF TransferNext
<1> QED
  BY <1>1, <1>2, TransferStart, PTL DEF TransferSpec

\* Besides: nothing is read of a file before it is opened, and never more than there is of it.
TransferBounds == session \in BOOLEAN /\ size <= MaxChunks /\ left + read <= MaxChunks

LEMMA StepKeepsBounds == TransferInv /\ TransferBounds /\ [TransferNext]_transferVars => TransferBounds'
<1> SUFFICES ASSUME TransferInv, TransferBounds, [TransferNext]_transferVars PROVE TransferBounds'
  OBVIOUS
<1>0. /\ MaxChunks \in Nat /\ size \in Nat /\ left \in Nat /\ read \in Nat
      /\ sender = "opening" => read = 0
      /\ sender = "auth" => read = 0
  BY TransferAssumption DEF TransferInv, TransferTyped, InStep
<1> USE <1>0 DEF TransferBounds
<1>1. CASE SenderStep
  <2>1. CASE SendOffer
    BY <2>1 DEF SendOffer
  <2>2. CASE OpenFile
    BY <2>2 DEF OpenFile
  <2>3. CASE SendChunk
    BY <2>3 DEF SendChunk
  <2>4. CASE SenderNotAllowed \/ SenderAccepted \/ SenderRejected \/ ReadFails \/ Complete \/ ListEnd
    BY <2>4 DEF SenderNotAllowed, SenderAccepted, SenderRejected, ReadFails, Complete, ListEnd
  <2> QED
    BY <1>1, <2>1, <2>2, <2>3, <2>4 DEF SenderStep
<1>2. CASE ReceiverStep
  BY <1>2 DEF ReceiverStep, CheckAuth, AskUser, OfferOver, AcceptOffer, CreateFile,
              WriteChunk, FinishFile, DiscardFile, ReceiverStops, senderVars
<1>3. CASE UserAnswers \/ Break
  BY <1>3 DEF UserAnswers, Break, senderVars
<1>4. CASE SessionChanges
  <2>1. session' \in BOOLEAN
    BY <1>4 DEF SessionChanges
  <2> QED
    BY <1>4, <2>1 DEF SessionChanges, senderVars
<1>5. CASE UNCHANGED transferVars
  BY <1>5 DEF transferVars, senderVars
<1> QED
  BY <1>1, <1>2, <1>3, <1>4, <1>5 DEF TransferNext

\* No file is read or written beyond its size, for files of any size.
THEOREM TransferTypeCorrect == TransferSpec => []TransferTypeOK
<1>1. TransferInit => TransferBounds
  BY TransferAssumption DEF TransferInit, TransferBounds
<1>2. TransferInv /\ [TransferNext]_transferVars => TransferInv'
  BY SenderKeepsTransfer, ReceiverKeepsTransfer, OtherKeepsTransfer DEF TransferNext
<1>3. TransferInv /\ TransferBounds => TransferTypeOK
  <2> SUFFICES ASSUME TransferInv, TransferBounds PROVE TransferTypeOK
    OBVIOUS
  <2>1. size \in 0 .. MaxChunks /\ left \in 0 .. MaxChunks /\ read \in 0 .. MaxChunks /\ received \in 0 .. MaxChunks
    BY TransferAssumption DEF TransferInv, TransferTyped, TransferBounds
  <2>2. wire.up \in BOOLEAN /\ wire.out \in Seq(Requests) /\ wire.back \in Seq(Answers)
    BY DEF TransferInv, TransferTyped, Wires
  <2>3. /\ sender \in Senders /\ receiver \in Receivers /\ sendStatus \in Statuses /\ recvStatus \in Statuses
        /\ disk \in {"none", "file", "short", "removed"} /\ answer \in {"none", "yes", "no"}
        /\ offer \in BOOLEAN /\ session \in BOOLEAN
    BY DEF TransferInv, TransferTyped, TransferBounds
  <2> QED
    BY <2>1, <2>2, <2>3 DEF TransferTypeOK, Senders, Receivers
<1> QED
  BY <1>1, <1>2, <1>3, TransferStart, StepKeepsBounds, PTL DEF TransferSpec

-----------------------------------------------------------------------------
(* The parts side by side.                                                   *)

\* Checked side by side, every part still takes only its own steps: what is proved of a part holds of
\* the run that checks them together.
THEOREM SideBySide ==
  Spec => /\ GuardSpec /\ EdgeSpec /\ ScreenSpec
          /\ RoomSpec /\ TransferSpec /\ PadSpec
          /\ PairingSpec /\ ChannelSpec /\ LogSpec
<1> DEFINE Own == /\ [GuardNext]_guardVars /\ [EdgeNext]_edgeVars /\ [ScreenNext]_screenVars
                  /\ [RoomNext]_roomVars /\ [TransferNext]_transferVars /\ [PadNext]_padVars
                  /\ [PairingNext]_pairingVars /\ [ChannelNext]_channelVars /\ [LogNext]_logVars
<1>1. Init => /\ GuardInit /\ EdgeInit /\ ScreenInit /\ RoomInit /\ TransferInit /\ PadInit
              /\ PairingInit /\ ChannelInit /\ LogInit
  BY DEF Init
<1>2. [Next]_partVars => Own
  <2> SUFFICES ASSUME [Next]_partVars PROVE Own
    OBVIOUS
  <2>1. CASE DeskNext /\ UNCHANGED <<smallVars, taskVars>>
    BY <2>1 DEF DeskNext, smallVars, taskVars
  <2>2. CASE SmallNext /\ UNCHANGED <<deskVars, taskVars>>
    BY <2>2 DEF SmallNext, deskVars, taskVars
  <2>3. CASE TaskNext /\ UNCHANGED <<deskVars, smallVars>>
    BY <2>3 DEF TaskNext, deskVars, smallVars
  <2>4. CASE UNCHANGED partVars
    BY <2>4 DEF partVars, deskVars, smallVars, taskVars
  <2> QED
    BY <2>1, <2>2, <2>3, <2>4 DEF Next
<1> QED
  BY <1>1, <1>2, PTL DEF Spec, GuardSpec, EdgeSpec, ScreenSpec,
              RoomSpec, TransferSpec, PadSpec, PairingSpec, ChannelSpec, LogSpec

\* The state of every part stays within its types, whichever runs, for every value of their constants
\* (state.rs:230-317).
THEOREM PartsTypeCorrect == Spec => []PartsTypeOK
<1>1. RoomSpec => []RoomTypeOK
  <2>1. RoomInv => RoomTypeOK
    BY DEF RoomInv
  <2> QED
    BY <2>1, RoomStart, StepKeepsRooms, PTL DEF RoomSpec
<1>2. PairingSpec => []PairingTypeOK
  <2>1. PairInv => PairingTypeOK
    BY DEF PairInv
  <2> QED
    BY <2>1, PairStart, StepKeepsPairing, PTL DEF PairingSpec
<1>3. LogSpec => []LogTypeOK
  <2>1. LogInv => LogTypeOK
    BY DEF LogInv
  <2> QED
    BY <2>1, LogStart, StepKeepsLog, PTL DEF LogSpec
<1>4. /\ GuardTypeOK /\ EdgeTypeOK /\ RoomTypeOK /\ TransferTypeOK /\ PadTypeOK
      /\ PairingTypeOK /\ ChannelTypeOK /\ LogTypeOK
      => PartsTypeOK
  BY DEF PartsTypeOK
<1> QED
  BY <1>1, <1>2, <1>3, <1>4, SideBySide, GuardTypeCorrect, EdgeTypeCorrect, TransferTypeCorrect, PadTypeCorrect,
     ChannelTypeCorrect, PTL

=============================================================================
