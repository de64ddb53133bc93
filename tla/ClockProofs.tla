----------------------------- MODULE ClockProofs -----------------------------
\* Theorems about the clocks of a session, for any periods and any latency, about the clipboard, for
\* any number of copies and any capacities of its queues, and about the tasks side by side.
EXTENDS MCTasks, SessionSlotProofs, TaskProofs, SequenceTheorems

-----------------------------------------------------------------------------
(* The clocks of a session.                                                  *)

\* While both sides are there, the network works and the frame read last was no request for the log,
\* the receiver has heard a frame within the part of the ping period that is gone, or a frame is
\* under way that was sent within one.
Heard ==
  running["receiver"] /\ Working /\ ~asked =>
    IF mail = NoMail THEN since["receiver"] + pingIn <= PingEvery
                     ELSE since["receiver"] <= PingEvery + mail

\* The next sample comes before the silence is one period past the limit.
Sampled == running["receiver"] => since["receiver"] + watchIn < WatchLimit + WatchEvery

\* The loop waits for its user only after a request for the log.
WaitsAsked == busy # NoWait => asked

IdleInv == IdleTypeOK /\ WaitsAsked /\ Heard /\ Sampled /\ ~cutLive

LEMMA Periods ==
  /\ PingEvery \in Nat /\ WatchEvery \in Nat /\ WatchLimit \in Nat /\ LockEvery \in Nat
  /\ LockAfter \in Nat /\ AskLimit \in Nat /\ Latency \in Nat /\ MaxAge \in Nat
  /\ PingEvery > 0 /\ WatchEvery > 0 /\ WatchLimit > 0 /\ LockEvery > 0
  /\ PingEvery + Latency < WatchLimit
  /\ WatchLimit + WatchEvery <= MaxAge /\ Latency < MaxAge
BY IdleAssumption DEF MaxAge

\* The clocks stay within their periods: time stands still while a timer is due.
LEMMA StepKeepsIdleType == IdleTypeOK /\ [IdleNext]_idleVars => IdleTypeOK'
<1> SUFFICES ASSUME IdleTypeOK, [IdleNext]_idleVars PROVE IdleTypeOK'
  OBVIOUS
<1>0. "controller" \in Sides /\ "receiver" \in Sides
  BY DEF Sides
<1> USE <1>0, Periods DEF IdleTypeOK
<1>d. NoWait \in 0 .. AskLimit \cup {NoWait} /\ 0 \in 0 .. AskLimit
  OBVIOUS
<1>a. ASSUME NEW s \in Sides, Ends(s)
      PROVE running' \in [Sides -> BOOLEAN] /\ busy' \in 0 .. AskLimit \cup {NoWait}
  BY <1>a, <1>d DEF Ends
<1>b. ASSUME PostMail PROVE mail' \in 0 .. Latency \cup {NoMail}
  <2>1. mail' = 0 \/ mail' = mail
    BY <1>b DEF PostMail
  <2>2. 0 \in 0 .. Latency
    BY Periods
  <2> QED BY <2>1, <2>2
<1>1. CASE StartBoth
  <2>1. running' \in [Sides -> BOOLEAN] /\ since' \in [Sides -> 0 .. MaxAge]
    BY <1>1 DEF StartBoth
  <2>2. pingIn' \in 0 .. PingEvery /\ watchIn' \in 0 .. WatchEvery
    BY <1>1 DEF StartBoth
  <2>3. mail' = NoMail /\ broken' = FALSE /\ UNCHANGED <<lockOn, lockIn, cutLive>>
    BY <1>1 DEF StartBoth
  <2>4. busy' = NoWait /\ asked' = FALSE /\ unused' = 0
    BY <1>1 DEF StartBoth
  <2>5. unused' \in 0 .. MaxAge /\ lockOn' \in [Sides -> BOOLEAN] /\ lockIn' \in [Sides -> 0 .. LockEvery]
    BY <2>3, <2>4
  <2>6. asked' \in BOOLEAN /\ broken' \in BOOLEAN /\ cutLive' \in BOOLEAN
    BY <2>3, <2>4
  <2>7. mail' \in 0 .. Latency \cup {NoMail} /\ busy' \in 0 .. AskLimit \cup {NoWait}
    BY <2>3, <2>4
  <2> QED BY <2>1, <2>2, <2>5, <2>6, <2>7
<1>2. CASE Drive \/ Ping
  BY <1>b, <1>2 DEF Drive, Ping
<1>6. CASE Arrive
  <2>1. since' \in [Sides -> 0 .. MaxAge]
    BY <1>6 DEF Arrive
  <2> QED BY <1>6, <2>1 DEF Arrive
<1>9. CASE AskForLog
  <2>1. since' \in [Sides -> 0 .. MaxAge]
    BY <1>9 DEF AskForLog
  <2>2. mail' \in 0 .. Latency \cup {NoMail}
    BY <1>9 DEF AskForLog
  <2> QED BY <1>9, <1>d, <2>1, <2>2 DEF AskForLog
<1>10. CASE AskOver
  BY <1>10, <1>d DEF AskOver
<1>7. CASE LinkBreaks
  BY <1>7 DEF LinkBreaks
<1>c. Working \in BOOLEAN
  BY DEF Working
<1>8. CASE Sample
  <2>1. running' \in [Sides -> BOOLEAN] /\ busy' \in 0 .. AskLimit \cup {NoWait}
    BY <1>a, <1>8 DEF Sample
  <2>2. cutLive' \in BOOLEAN
    BY <1>c, <1>8 DEF Sample
  <2> QED BY <1>8, <2>1, <2>2 DEF Sample
<1>3. ASSUME NEW s \in Sides, HearEnd(s) \/ LockCheck(s) PROVE IdleTypeOK'
  <2>1. CASE HearEnd(s)
    BY <1>a, <2>1 DEF HearEnd
  <2>2. CASE LockCheck(s)
    <3>1. lockIn' \in [Sides -> 0 .. LockEvery]
      BY <2>2 DEF LockCheck
    <3>2. running' \in [Sides -> BOOLEAN] /\ busy' \in 0 .. AskLimit \cup {NoWait}
      BY <1>a, <2>2 DEF LockCheck
    <3> QED BY <2>2, <3>1, <3>2 DEF LockCheck
  <2> QED BY <1>3, <2>1, <2>2
<1>4. CASE Pass
  <2>1. since' \in [Sides -> 0 .. MaxAge]
    BY <1>4 DEF Pass, Older
  <2>2. pingIn' \in 0 .. PingEvery /\ watchIn' \in 0 .. WatchEvery
    BY <1>4 DEF Pass, Sooner
  <2>3. lockIn' \in [Sides -> 0 .. LockEvery]
    BY <1>4 DEF Pass, Sooner
  <2>4. mail' \in 0 .. Latency \cup {NoMail}
    BY <1>4 DEF Pass
  <2>5. busy' \in 0 .. AskLimit \cup {NoWait}
    BY <1>4 DEF Pass, Due
  <2>6. unused' \in 0 .. MaxAge
    BY <1>4 DEF Pass, Older
  <2> QED BY <1>4, <2>1, <2>2, <2>3, <2>4, <2>5, <2>6 DEF Pass
<1>5. CASE UNCHANGED idleVars
  BY <1>5 DEF idleVars
<1> QED
  BY <1>1, <1>2, <1>3, <1>4, <1>5, <1>6, <1>7, <1>8, <1>9, <1>10 DEF IdleNext

LEMMA StepKeepsWaits == WaitsAsked /\ [IdleNext]_idleVars => WaitsAsked'
<1> SUFFICES ASSUME WaitsAsked, [IdleNext]_idleVars PROVE WaitsAsked'
  OBVIOUS
<1> USE DEF WaitsAsked
<1>1. CASE StartBoth \/ Arrive \/ AskForLog \/ AskOver
  BY <1>1 DEF StartBoth, Arrive, AskForLog, AskOver
<1>2. CASE Drive \/ Ping \/ LinkBreaks
  BY <1>2 DEF Drive, Ping, LinkBreaks
<1>3. CASE Pass
  BY <1>3 DEF Pass
<1>4. CASE Sample
  BY <1>4 DEF Sample, Ends
<1>5. ASSUME NEW s \in Sides, HearEnd(s) \/ LockCheck(s) PROVE WaitsAsked'
  BY <1>5 DEF HearEnd, LockCheck, Ends
<1>6. CASE UNCHANGED idleVars
  BY <1>6 DEF idleVars
<1> QED
  BY <1>1, <1>2, <1>3, <1>4, <1>5, <1>6 DEF IdleNext

\* A frame under way grows old with the receiver's silence, and the next ping comes
\* nearer with it.
LEMMA StepKeepsHeard == IdleTypeOK /\ WaitsAsked /\ Heard /\ [IdleNext]_idleVars => Heard'
<1> SUFFICES ASSUME IdleTypeOK, WaitsAsked, Heard, [IdleNext]_idleVars,
                    running'["receiver"], Working', ~asked'
             PROVE IF mail' = NoMail THEN since'["receiver"] + pingIn' <= PingEvery
                                     ELSE since'["receiver"] <= PingEvery + mail'
  BY DEF Heard
<1>0. /\ "controller" \in Sides /\ "receiver" \in Sides
      /\ since["receiver"] \in Nat /\ pingIn \in Nat /\ pingIn <= PingEvery
      /\ mail # NoMail => mail \in Nat
      /\ NoMail \in Nat /\ NoMail # 0 /\ NoMail > Latency
  BY Periods DEF Sides, IdleTypeOK, NoMail
<1> USE <1>0, Periods DEF Working
<1>1. CASE StartBoth
  BY <1>1 DEF StartBoth
<1>2. CASE Drive
  BY <1>2 DEF Drive, PostMail, Heard
<1>3. CASE Ping
  BY <1>3 DEF Ping, PostMail, Heard
<1>4. CASE Arrive
  BY <1>4 DEF Arrive, IdleTypeOK
<1>5. CASE LinkBreaks \/ AskForLog
  BY <1>5 DEF LinkBreaks, AskForLog
<1>11. CASE AskOver
  BY <1>11 DEF AskOver, WaitsAsked
<1>6. CASE Pass
  <2>0. ~asked /\ busy = NoWait
    BY <1>6 DEF Pass, WaitsAsked
  <2>1. pingIn # 0 /\ running["receiver"] /\ Working /\ mail # Latency
    BY <1>6, <2>0 DEF Pass, Due
  <2>2. since'["receiver"] <= since["receiver"] + 1 /\ pingIn' = pingIn - 1
    BY <1>6, <2>1 DEF Pass, Older, Sooner, IdleTypeOK
  <2>3. since'["receiver"] \in Nat
    BY <1>6 DEF Pass, Older, IdleTypeOK
  <2>4. CASE mail = NoMail
    BY <1>6, <2>0, <2>1, <2>2, <2>3, <2>4 DEF Pass, Heard
  <2>5. CASE mail # NoMail
    <3>1. mail' = mail + 1 /\ mail' # NoMail
      BY <1>6, <2>1, <2>5 DEF Pass, IdleTypeOK
    <3> QED BY <2>0, <2>1, <2>2, <2>3, <2>5, <3>1 DEF Heard
  <2> QED BY <2>4, <2>5
<1>7. ASSUME UNCHANGED <<since, pingIn, mail, asked, broken>>,
             running' = running \/ \E s \in Sides : Ends(s)
      PROVE IF mail' = NoMail THEN since'["receiver"] + pingIn' <= PingEvery
                              ELSE since'["receiver"] <= PingEvery + mail'
  <2>1. running["receiver"] /\ Working
    BY <1>7 DEF Ends, IdleTypeOK
  <2> QED BY <1>7, <2>1 DEF Heard
<1>8. CASE Sample
  BY <1>7, <1>8 DEF Sample
<1>9. ASSUME NEW s \in Sides, HearEnd(s) \/ LockCheck(s)
      PROVE UNCHANGED <<since, pingIn, mail, asked, broken>> /\ (running' = running \/ Ends(s))
  BY <1>9 DEF HearEnd, LockCheck
<1>10. CASE UNCHANGED idleVars
  BY <1>7, <1>10 DEF idleVars
<1> QED
  BY <1>1, <1>2, <1>3, <1>4, <1>5, <1>6, <1>7, <1>8, <1>9, <1>10, <1>11 DEF IdleNext

\* A sample either ends the session or finds it below the limit.
LEMMA StepKeepsSampled == IdleTypeOK /\ Sampled /\ [IdleNext]_idleVars => Sampled'
<1> SUFFICES ASSUME IdleTypeOK, Sampled, [IdleNext]_idleVars, running'["receiver"]
             PROVE since'["receiver"] + watchIn' < WatchLimit + WatchEvery
  BY DEF Sampled
<1>0. /\ "controller" \in Sides /\ "receiver" \in Sides
      /\ since["receiver"] \in Nat /\ watchIn \in Nat /\ watchIn <= WatchEvery
  BY Periods DEF Sides, IdleTypeOK
<1> USE <1>0, Periods
<1>1. CASE StartBoth
  BY <1>1 DEF StartBoth
<1>2. ASSUME running["receiver"], UNCHANGED <<since, watchIn>>
      PROVE since'["receiver"] + watchIn' < WatchLimit + WatchEvery
  BY <1>2 DEF Sampled
<1>3. CASE Drive \/ Ping \/ AskOver \/ LinkBreaks
  BY <1>2, <1>3 DEF Drive, Ping, AskOver, LinkBreaks
<1>4. CASE Arrive \/ AskForLog
  BY <1>4 DEF Arrive, AskForLog, IdleTypeOK
<1>5. CASE Sample
  <2>1. running["receiver"] /\ UNCHANGED since /\ watchIn' = WatchEvery
    BY <1>5 DEF Sample
  <2>2. ~(since["receiver"] >= WatchLimit)
    BY <1>5 DEF Sample, Ends, IdleTypeOK
  <2> QED BY <2>1, <2>2
<1>6. CASE Pass
  <2>1. running["receiver"] /\ watchIn # 0
    BY <1>6 DEF Pass, Due
  <2>2. since'["receiver"] \in Nat /\ since'["receiver"] <= since["receiver"] + 1
    BY <1>6 DEF Pass, Older, IdleTypeOK
  <2>3. watchIn' = watchIn - 1
    BY <1>6, <2>1 DEF Pass, Sooner
  <2> QED BY <2>1, <2>2, <2>3 DEF Sampled
<1>7. ASSUME NEW s \in Sides, HearEnd(s) \/ LockCheck(s)
      PROVE running["receiver"] /\ UNCHANGED <<since, watchIn>>
  BY <1>7 DEF HearEnd, LockCheck, Ends, IdleTypeOK
<1>8. CASE UNCHANGED idleVars
  BY <1>2, <1>8 DEF idleVars
<1> QED
  BY <1>1, <1>2, <1>3, <1>4, <1>5, <1>6, <1>7, <1>8 DEF IdleNext

\* The watchdog does not find a session silent that has been heard.
LEMMA StepKeepsLive == IdleTypeOK /\ Heard /\ ~cutLive /\ [IdleNext]_idleVars => ~cutLive'
<1> SUFFICES ASSUME IdleTypeOK, Heard, ~cutLive, [IdleNext]_idleVars PROVE ~cutLive'
  OBVIOUS
<1>0. running["receiver"] /\ Working /\ ~asked => since["receiver"] < WatchLimit
  <2>1. /\ since["receiver"] \in Nat /\ pingIn \in Nat
        /\ mail # NoMail => mail \in Nat /\ mail <= Latency
    BY Periods DEF IdleTypeOK, Sides
  <2> QED BY <2>1, Periods DEF Heard
<1>1. CASE Sample
  <2>1. since["receiver"] \in Nat
    BY Periods DEF IdleTypeOK, Sides
  <2>2. CASE since["receiver"] >= WatchLimit
    <3>1. ~(Working /\ ~asked)
      BY <1>0, <1>1, <2>1, <2>2, Periods DEF Sample
    <3>2. cutLive' = (cutLive \/ (Working /\ ~asked))
      BY <1>1, <2>2 DEF Sample
    <3> QED BY <3>1, <3>2
  <2>3. CASE ~(since["receiver"] >= WatchLimit)
    BY <1>1, <2>3 DEF Sample
  <2> QED BY <2>2, <2>3
<1>3. CASE StartBoth \/ Drive \/ Ping \/ Arrive \/ AskForLog \/ AskOver \/ LinkBreaks \/ Pass
  BY <1>3 DEF StartBoth, Drive, Ping, Arrive, AskForLog, AskOver, LinkBreaks, Pass
<1>4. ASSUME NEW s \in Sides, HearEnd(s) \/ LockCheck(s) PROVE ~cutLive'
  BY <1>4 DEF HearEnd, LockCheck
<1>5. CASE UNCHANGED idleVars
  BY <1>5 DEF idleVars
<1> QED
  BY <1>1, <1>3, <1>4, <1>5 DEF IdleNext

\* The invariant of the clocks holds initially and is kept by every step.
THEOREM IdleInvariance == IdleSpec => []IdleInv
<1>1. ASSUME IdleInit PROVE IdleInv
  <2>1. IdleTypeOK
    <3>1. since \in [Sides -> 0 .. MaxAge] /\ running \in [Sides -> BOOLEAN]
      BY <1>1, Periods DEF IdleInit
    <3>2. lockIn \in [Sides -> 0 .. LockEvery] /\ pingIn \in 0 .. PingEvery
          /\ watchIn \in 0 .. WatchEvery
      BY <1>1, Periods DEF IdleInit
    <3>3. mail \in 0 .. Latency \cup {NoMail} /\ busy \in 0 .. AskLimit \cup {NoWait}
      BY <1>1 DEF IdleInit
    <3>4. unused \in 0 .. MaxAge
      BY <1>1, Periods DEF IdleInit
    <3>5. asked \in BOOLEAN /\ broken \in BOOLEAN /\ cutLive \in BOOLEAN
      BY <1>1 DEF IdleInit
    <3>6. lockOn \in [Sides -> BOOLEAN]
      BY <1>1 DEF IdleInit
    <3> QED BY <3>1, <3>2, <3>3, <3>4, <3>5, <3>6 DEF IdleTypeOK
  <2> QED
    BY <1>1, <2>1, Periods DEF IdleInit, IdleInv, WaitsAsked, Heard, Sampled, Sides
<1>2. IdleInv /\ [IdleNext]_idleVars => IdleInv'
  BY StepKeepsIdleType, StepKeepsWaits, StepKeepsHeard, StepKeepsSampled, StepKeepsLive DEF IdleInv
<1> QED
  BY <1>1, <1>2, PTL DEF IdleSpec

\* For any periods with PingEvery + Latency below its limit, the watchdog never takes an idle user for
\* a silent network unless the frame read last was a request for the log, and it notices a silent
\* network within one sample of the limit (server.rs:504).
THEOREM IdleIsNotSilence == IdleSpec => []SilenceIsNotIdleness
<1>1. ASSUME IdleInv PROVE SilenceIsNotIdleness
  <2>1. since["receiver"] \in Nat /\ watchIn \in Nat
    BY <1>1, Periods DEF IdleInv, IdleTypeOK, Sides
  <2> QED BY <1>1, <2>1, Periods DEF IdleInv, Sampled, SilenceIsNotIdleness
<1> QED
  BY <1>1, IdleInvariance, PTL

-----------------------------------------------------------------------------
(* The clipboard.                                                            *)

Numbers == 0 .. MaxCopy

\* The pipeline holds sequences of contents, then of numbers, and each thread one content at most.
PipesTyped ==
  /\ lane \in Seq(Contents) /\ pend \in Seq(Numbers) /\ draining \in Seq(Numbers)
  /\ sync \in [Syncs -> {<<>>} \cup {<<c>> : c \in Contents}]

\* The number that is last to reach the receiver's clipboard, as things are.
LastOnItsWay ==
  IF lane # <<>> THEN lane[Len(lane)].no
  ELSE IF pend # <<>> THEN pend[Len(pend)]
  ELSE IF draining # <<>> THEN draining[1] ELSE clipped

\* The newest content that was read is still with its thread, or comes last.
NewestComesLast ==
  \/ missed
  \/ \E s \in syncing : sync[s] # <<>> /\ sync[s][1].no = newest
  \/ LastOnItsWay = newest

\* What the types say besides: the bounds of the queues and of the numbers.
ClipBounds ==
  /\ copied \in Contents /\ syncing \subseteq Syncs
  /\ Len(lane) <= WireCap /\ Len(pend) <= PendCap /\ Len(draining) <= 1
  /\ clipped \in Numbers /\ newest \in Numbers
  /\ {linked, oversize, missed} \subseteq BOOLEAN

ClipInv == PipesTyped /\ ClipBounds /\ NewestComesLast

\* What is left of a queue whose first entry is taken still ends as the queue did.
LEMMA Popped ==
  ASSUME NEW S, NEW q \in Seq(S), q # <<>>
  PROVE  /\ Head(q) \in S /\ Tail(q) \in Seq(S) /\ Len(q) \in Nat /\ Len(Tail(q)) = Len(q) - 1
         /\ Tail(q) = <<>> => q[Len(q)] = Head(q)
         /\ Tail(q) # <<>> => Tail(q)[Len(Tail(q))] = q[Len(q)]
<1>1. /\ Head(q) \in S /\ Tail(q) \in Seq(S) /\ Len(Tail(q)) = Len(q) - 1
      /\ \A i \in 1 .. Len(Tail(q)) : Tail(q)[i] = q[i + 1]
  BY HeadTailProperties
<1>2. Len(q) \in Nat /\ Head(q) = q[1]
  BY LenProperties
<1>3. Tail(q) = <<>> => Len(q) = 1
  BY <1>1, <1>2, EmptySeq
<1>4. ASSUME Tail(q) # <<>> PROVE Tail(q)[Len(Tail(q))] = q[Len(q)]
  <2>1. Len(Tail(q)) \in Nat \ {0}
    BY <1>1, <1>4, EmptySeq
  <2> QED BY <1>1, <1>2, <2>1
<1> QED
  BY <1>1, <1>2, <1>3, <1>4

LEMMA Pushed ==
  ASSUME NEW S, NEW q \in Seq(S), NEW e \in S
  PROVE  /\ Append(q, e) \in Seq(S) /\ Append(q, e) # <<>> /\ Len(q) \in Nat
         /\ Len(Append(q, e)) = Len(q) + 1 /\ Append(q, e)[Len(Append(q, e))] = e
BY AppendProperties, LenProperties

LEMMA SyncHolds ==
  ASSUME PipesTyped, NEW s \in Syncs, sync[s] # <<>>
  PROVE  sync[s][1] \in Contents /\ sync[s][1].no \in Numbers
BY DEF PipesTyped, Contents, Numbers

\* Each step of a thread, of the connection or of the writer keeps the pipeline's types.
LEMMA StepKeepsPipes == ClipBounds /\ PipesTyped /\ [ClipNext]_clipVars => PipesTyped'
<1> SUFFICES ASSUME ClipBounds, PipesTyped, [ClipNext]_clipVars PROVE PipesTyped'
  OBVIOUS
<1>0. copied \in Contents
  BY DEF ClipBounds
<1>e. <<>> \in Seq(Contents) /\ <<>> \in Seq(Numbers)
  BY EmptySeq
<1> USE DEF PipesTyped
<1>1. CASE CopyNew \/ (\E s \in Syncs : SyncClipboard(s) \/ NothingToSync(s)) \/ Relink
  BY <1>1 DEF CopyNew, SyncClipboard, NothingToSync, Relink, clipSender, clipReceiver
<1>2. ASSUME NEW s \in Syncs, ReadClipboard(s) PROVE PipesTyped'
  BY <1>0, <1>2 DEF ReadClipboard, clipReceiver
<1>3. ASSUME NEW s \in Syncs, SendClipboard(s) PROVE PipesTyped'
  <2>1. sync[s][1] \in Contents
    BY <1>3, SyncHolds DEF SendClipboard
  <2>2. lane' \in Seq(Contents)
    <3>1. lane' = lane \/ lane' = Append(lane, sync[s][1])
      BY <1>3 DEF SendClipboard
    <3>2. Append(lane, sync[s][1]) \in Seq(Contents)
      BY <2>1, Pushed
    <3> QED BY <3>1, <3>2
  <2>3. sync' \in [Syncs -> {<<>>} \cup {<<c>> : c \in Contents}]
    BY <1>3 DEF SendClipboard
  <2> QED BY <1>3, <2>2, <2>3 DEF SendClipboard, clipReceiver
<1>4. CASE Receive
  <2>1. Head(lane) \in Contents /\ Tail(lane) \in Seq(Contents)
    BY <1>4, Popped DEF Receive
  <2>2. Head(lane).no \in Numbers
    BY <2>1 DEF Contents, Numbers
  <2>3. pend' \in Seq(Numbers)
    BY <1>4, <2>2, Pushed DEF Receive
  <2> QED BY <1>4, <2>1, <2>3 DEF Receive, clipSender
<1>5. ASSUME NEW large \in BOOLEAN, SessionBreaks(large) PROVE PipesTyped'
  BY <1>e, <1>5 DEF SessionBreaks, clipReceiver
<1>6. CASE TakePending \/ Drain
  <2>1. Head(pend) \in Numbers /\ Tail(pend) \in Seq(Numbers)
    BY <1>6, Popped DEF TakePending, Drain
  <2>2. <<Head(pend)>> \in Seq(Numbers)
    BY <2>1
  <2> QED BY <1>6, <2>1, <2>2 DEF TakePending, Drain, clipSender
<1>7. CASE WriteClipboard \/ ClipboardFails
  BY <1>e, <1>7 DEF WriteClipboard, ClipboardFails, clipSender
<1>8. CASE UNCHANGED clipVars
  BY <1>8 DEF clipVars, clipSender, clipReceiver
<1> QED
  BY <1>1, <1>2, <1>3, <1>4, <1>5, <1>6, <1>7, <1>8 DEF ClipNext

LEMMA TypedByBounds == PipesTyped => (ClipTypeOK <=> ClipBounds)
<1> SUFFICES ASSUME PipesTyped PROVE ClipTypeOK <=> ClipBounds
  OBVIOUS
<1>1. DOMAIN sync = Syncs /\ \A s \in Syncs : sync[s] = <<>> \/ sync[s][1] \in Contents
  BY DEF PipesTyped
<1>2. \A i \in 1 .. Len(lane) : lane[i] \in Contents
  BY ElementOfSeq DEF PipesTyped
<1> QED
  BY <1>1, <1>2 DEF ClipTypeOK, ClipBounds, Numbers

\* No queue holds more than its channel, and no number is newer than what was copied.
LEMMA StepKeepsBounds == ClipBounds /\ PipesTyped /\ [ClipNext]_clipVars => ClipBounds'
<1> SUFFICES ASSUME ClipBounds, PipesTyped, [ClipNext]_clipVars PROVE ClipBounds'
  OBVIOUS
<1>0. /\ WireCap \in Nat \ {0} /\ PendCap \in Nat \ {0} /\ MaxCopy \in Nat
      /\ Len(<<>>) = 0
  BY ClipAssumption, EmptySeq
<1>a. lane \in Seq(Contents) /\ pend \in Seq(Numbers) /\ draining \in Seq(Numbers)
  BY DEF PipesTyped
<1>b. /\ Len(lane) \in Nat /\ Len(pend) \in Nat /\ Len(draining) \in Nat
      /\ draining # <<>> => draining[1] \in Numbers
  <2>1. Len(lane) \in Nat /\ Len(pend) \in Nat /\ Len(draining) \in Nat
    BY <1>a, LenProperties
  <2>2. draining # <<>> => 1 \in 1 .. Len(draining)
    BY <1>a, <2>1, EmptySeq
  <2> QED BY <1>a, <2>1, <2>2, ElementOfSeq
<1> USE DEF ClipBounds
<1>1. CASE CopyNew
  <2>1. copied' \in Contents
    <3>1. copied.no \in Nat /\ copied.no < MaxCopy
      BY <1>0, <1>1 DEF CopyNew, Contents
    <3> QED BY <1>0, <1>1, <3>1 DEF CopyNew, Contents
  <2> QED BY <1>1, <2>1 DEF CopyNew, clipReceiver
<1>2. ASSUME NEW s \in Syncs, SyncClipboard(s) \/ NothingToSync(s) PROVE ClipBounds'
  BY <1>2 DEF SyncClipboard, NothingToSync, clipReceiver
<1>3. ASSUME NEW s \in Syncs, ReadClipboard(s) PROVE ClipBounds'
  <2>1. newest' \in Numbers /\ missed' \in BOOLEAN
    BY <1>3 DEF ReadClipboard, Contents, Numbers
  <2> QED BY <1>3, <2>1 DEF ReadClipboard, clipReceiver
<1>4. ASSUME NEW s \in Syncs, SendClipboard(s) PROVE ClipBounds'
  <2>1. sync[s][1] \in Contents
    BY <1>4, SyncHolds DEF SendClipboard
  <2>2. Len(lane') <= WireCap
    BY <1>0, <1>a, <1>b, <1>4, <2>1, Pushed DEF SendClipboard
  <2>3. missed' \in BOOLEAN
    BY <1>4 DEF SendClipboard
  <2> QED BY <1>4, <2>2, <2>3 DEF SendClipboard, clipReceiver
<1>5. CASE Receive
  <2>1. Head(lane).no \in Numbers /\ Len(Tail(lane)) = Len(lane) - 1
    <3>1. Head(lane) \in Contents /\ Len(Tail(lane)) = Len(lane) - 1
      BY <1>5, <1>a, Popped DEF Receive
    <3> QED BY <3>1 DEF Contents, Numbers
  <2>2. Len(pend') <= PendCap /\ missed' \in BOOLEAN
    <3>1. CASE Len(pend) < PendCap /\ pend' = Append(pend, Head(lane).no) /\ UNCHANGED missed
      <4>1. Len(pend') = Len(pend) + 1
        BY <1>a, <2>1, <3>1, Pushed
      <4> QED BY <1>0, <1>b, <3>1, <4>1
    <3>2. CASE UNCHANGED pend /\ missed' = (missed \/ Head(lane).no = newest)
      BY <3>2
    <3> QED BY <1>5, <3>1, <3>2 DEF Receive
  <2>3. Len(lane') <= WireCap
    BY <1>0, <1>b, <1>5, <2>1 DEF Receive
  <2> QED BY <1>5, <2>2, <2>3 DEF Receive, clipSender
<1>6. ASSUME NEW large \in BOOLEAN, SessionBreaks(large) PROVE ClipBounds'
  <2>1. oversize' \in BOOLEAN /\ missed' \in BOOLEAN /\ linked' = FALSE
    BY <1>6 DEF SessionBreaks
  <2>2. Len(lane') <= WireCap /\ syncing' = {}
    BY <1>0, <1>6 DEF SessionBreaks
  <2>3. UNCHANGED <<copied, pend, draining, clipped, newest>>
    BY <1>6 DEF SessionBreaks, clipReceiver
  <2> QED BY <2>1, <2>2, <2>3
<1>7. CASE Relink
  BY <1>7 DEF Relink, clipSender, clipReceiver
<1>8. CASE TakePending \/ Drain
  <2>1. Head(pend) \in Numbers /\ Len(Tail(pend)) = Len(pend) - 1
    BY <1>8, <1>a, Popped DEF TakePending, Drain
  <2>2. Len(pend') <= PendCap
    BY <1>0, <1>b, <1>8, <2>1 DEF TakePending, Drain
  <2>3. Len(draining') <= 1
    <3>1. draining' = <<Head(pend)>>
      BY <1>8 DEF TakePending, Drain
    <3> QED BY <3>1
  <2> QED BY <1>8, <2>2, <2>3 DEF TakePending, Drain, clipSender
<1>9. CASE WriteClipboard \/ ClipboardFails
  <2>1. clipped' \in Numbers /\ missed' \in BOOLEAN
    BY <1>b, <1>9 DEF WriteClipboard, ClipboardFails
  <2> QED BY <1>0, <1>9, <2>1 DEF WriteClipboard, ClipboardFails, clipSender
<1>10. CASE UNCHANGED clipVars
  BY <1>10 DEF clipVars, clipSender, clipReceiver
<1> QED
  BY <1>1, <1>2, <1>3, <1>4, <1>5, <1>6, <1>7, <1>8, <1>9, <1>10 DEF ClipNext

\* What passes the newest content over is noted as missed.
LEMMA StepKeepsNewest ==
  ClipBounds /\ PipesTyped /\ NewestComesLast /\ [ClipNext]_clipVars => NewestComesLast'
<1> SUFFICES ASSUME ClipBounds, PipesTyped, NewestComesLast, [ClipNext]_clipVars, ~missed'
             PROVE \/ \E s \in syncing' : sync'[s] # <<>> /\ sync'[s][1].no = newest'
                   \/ LastOnItsWay' = newest'
  BY DEF NewestComesLast
<1>a. lane \in Seq(Contents) /\ pend \in Seq(Numbers) /\ draining \in Seq(Numbers)
      /\ sync \in [Syncs -> {<<>>} \cup {<<c>> : c \in Contents}]
  BY DEF PipesTyped
<1>b. syncing \subseteq Syncs /\ copied \in Contents
  BY DEF ClipBounds
<1> DEFINE Unsent == \E s \in syncing : sync[s] # <<>> /\ sync[s][1].no = newest
<1>u. ~missed => Unsent \/ LastOnItsWay = newest
  BY DEF NewestComesLast
<1>1. ASSUME ~missed, UNCHANGED <<lane, pend, draining, clipped, newest>>,
             \A s \in syncing : sync[s] # <<>> => s \in syncing' /\ sync'[s] = sync[s]
      PROVE Unsent' \/ LastOnItsWay' = newest'
  BY <1>1, <1>u DEF LastOnItsWay
<1>2. CASE CopyNew \/ Relink \/ UNCHANGED clipVars
  BY <1>1, <1>2 DEF CopyNew, Relink, clipVars, clipSender, clipReceiver
<1>3. ASSUME NEW s \in Syncs, SyncClipboard(s) \/ NothingToSync(s)
      PROVE Unsent' \/ LastOnItsWay' = newest'
  BY <1>1, <1>3 DEF SyncClipboard, NothingToSync, clipReceiver
<1>4. ASSUME NEW s \in Syncs, ReadClipboard(s) PROVE Unsent'
  BY <1>4, <1>a DEF ReadClipboard
<1>5. ASSUME NEW s \in Syncs, SendClipboard(s) PROVE Unsent' \/ LastOnItsWay' = newest'
  <2>1. sync[s][1] \in Contents
    BY <1>5, SyncHolds DEF SendClipboard
  <2>2. CASE sync[s][1].raw < RawMax /\ Len(lane) < WireCap
    <3>1. lane' = Append(lane, sync[s][1]) /\ missed' = (sync[s][1].no # newest) /\ newest' = newest
      BY <1>5, <2>2 DEF SendClipboard
    <3>2. lane' # <<>> /\ lane'[Len(lane')] = sync[s][1]
      BY <1>a, <2>1, <3>1, Pushed
    <3> QED BY <3>1, <3>2 DEF LastOnItsWay
  <2>3. CASE ~(sync[s][1].raw < RawMax /\ Len(lane) < WireCap)
    <3>1. UNCHANGED <<lane, pend, draining, clipped, newest>>
          /\ missed' = (missed \/ sync[s][1].no = newest)
      BY <1>5, <2>3 DEF SendClipboard, clipReceiver
    <3>2. ~missed /\ sync[s][1].no # newest
      BY <3>1
    <3>3. \A u \in syncing \ {s} : u \in syncing' /\ sync'[u] = sync[u]
      BY <1>5, <1>a, <1>b DEF SendClipboard
    <3> QED BY <1>u, <3>1, <3>2, <3>3 DEF LastOnItsWay
  <2> QED BY <2>2, <2>3
<1>6. CASE Receive
  <2>1. lane # <<>> /\ lane' = Tail(lane) /\ UNCHANGED <<sync, syncing, draining, clipped, newest>>
    BY <1>6 DEF Receive, clipSender
  <2>2. /\ Head(lane) \in Contents
        /\ Tail(lane) = <<>> => lane[Len(lane)] = Head(lane)
        /\ Tail(lane) # <<>> => Tail(lane)[Len(Tail(lane))] = lane[Len(lane)]
    BY <1>a, <2>1, Popped
  <2>3. Head(lane).no \in Numbers
    BY <2>2 DEF Contents, Numbers
  <2>4. LastOnItsWay = lane[Len(lane)].no
    BY <2>1 DEF LastOnItsWay
  <2>5. CASE pend' = Append(pend, Head(lane).no) /\ UNCHANGED missed
    <3>1. pend' # <<>> /\ pend'[Len(pend')] = Head(lane).no
      BY <1>a, <2>3, <2>5, Pushed
    <3>2. LastOnItsWay' = LastOnItsWay
      BY <2>1, <2>2, <2>4, <3>1 DEF LastOnItsWay
    <3> QED BY <1>u, <2>1, <2>5, <3>2
  <2>6. CASE UNCHANGED pend /\ missed' = (missed \/ Head(lane).no = newest)
    <3>1. ~missed /\ Head(lane).no # newest
      BY <2>6
    <3>2. CASE Tail(lane) = <<>>
      BY <1>u, <2>1, <2>2, <2>4, <3>1, <3>2
    <3>3. CASE Tail(lane) # <<>>
      BY <1>u, <2>1, <2>2, <2>4, <2>6, <3>1, <3>3 DEF LastOnItsWay
    <3> QED BY <3>2, <3>3
  <2> QED BY <1>6, <2>5, <2>6 DEF Receive
<1>7. ASSUME NEW large \in BOOLEAN, SessionBreaks(large) PROVE Unsent' \/ LastOnItsWay' = newest'
  <2>1. missed' = (missed \/ lane # <<>> \/ syncing # {})
    BY <1>7 DEF SessionBreaks
  <2>2. ~missed /\ lane = <<>> /\ syncing = {}
    BY <2>1
  <2>3. lane' = lane /\ UNCHANGED <<pend, draining, clipped, newest>>
    BY <1>7, <2>2 DEF SessionBreaks, clipReceiver
  <2> QED BY <1>1, <2>2, <2>3
<1>8. CASE TakePending \/ Drain
  <2>1. /\ pend # <<>> /\ pend' = Tail(pend) /\ draining' = <<Head(pend)>>
        /\ UNCHANGED <<sync, syncing, lane, clipped, newest, missed>>
    BY <1>8 DEF TakePending, Drain, clipSender
  <2>2. /\ Tail(pend) = <<>> => pend[Len(pend)] = Head(pend)
        /\ Tail(pend) # <<>> => Tail(pend)[Len(Tail(pend))] = pend[Len(pend)]
    BY <1>a, <2>1, Popped
  <2>3. draining' # <<>> /\ draining'[1] = Head(pend)
    BY <2>1
  <2>4. LastOnItsWay' = LastOnItsWay
    BY <2>1, <2>2, <2>3 DEF LastOnItsWay
  <2> QED BY <1>u, <2>1, <2>4
<1>9. CASE WriteClipboard
  <2>1. draining # <<>> /\ pend = <<>> /\ clipped' = draining[1] /\ draining' = <<>>
        /\ UNCHANGED <<sync, syncing, pend, lane, newest, missed>>
    BY <1>9 DEF WriteClipboard, clipSender
  <2>2. LastOnItsWay' = LastOnItsWay
    BY <2>1 DEF LastOnItsWay
  <2> QED BY <1>u, <2>1, <2>2
<1>10. CASE ClipboardFails
  <2>1. draining # <<>> /\ pend = <<>> /\ draining' = <<>>
        /\ missed' = (missed \/ draining[1] = newest)
        /\ UNCHANGED <<sync, syncing, pend, lane, clipped, newest>>
    BY <1>10 DEF ClipboardFails, clipSender
  <2>2. ~missed /\ draining[1] # newest
    BY <2>1
  <2>3. CASE lane = <<>>
    BY <1>u, <2>1, <2>2, <2>3 DEF LastOnItsWay
  <2>4. CASE lane # <<>>
    BY <1>u, <2>1, <2>2, <2>4 DEF LastOnItsWay
  <2> QED BY <2>3, <2>4
<1> QED
  BY <1>2, <1>3, <1>4, <1>5, <1>6, <1>7, <1>8, <1>9, <1>10 DEF ClipNext

\* The clipboard's invariant holds initially and is kept by every step.
THEOREM ClipInvariance == ClipSpec => []ClipInv
<1>1. ASSUME ClipInit PROVE ClipInv
  <2>1. PipesTyped
    BY <1>1, EmptySeq DEF ClipInit, PipesTyped
  <2>2. ClipBounds
    <3>1. Len(<<>>) = 0 /\ WireCap \in Nat /\ PendCap \in Nat /\ MaxCopy \in Nat /\ RawMax \in Nat
      BY ClipAssumption, EmptySeq
    <3>2. copied \in Contents
      BY <1>1, <3>1 DEF ClipInit, Contents
    <3>3. lane = <<>> /\ pend = <<>> /\ draining = <<>> /\ syncing = {}
          /\ clipped = 0 /\ newest = 0
      BY <1>1 DEF ClipInit
    <3>4. linked = TRUE /\ oversize = FALSE /\ missed = FALSE
      BY <1>1 DEF ClipInit
    <3>5. clipped \in Numbers /\ newest \in Numbers
      BY <3>1, <3>3 DEF Numbers
    <3>6. Len(lane) <= WireCap /\ Len(pend) <= PendCap /\ Len(draining) <= 1
      BY <3>1, <3>3
    <3> QED BY <3>2, <3>3, <3>4, <3>5, <3>6 DEF ClipBounds
  <2>3. NewestComesLast
    BY <1>1 DEF ClipInit, NewestComesLast, LastOnItsWay
  <2> QED BY <2>1, <2>2, <2>3 DEF ClipInv
<1>2. ClipInv /\ [ClipNext]_clipVars => ClipInv'
  BY StepKeepsPipes, StepKeepsBounds, StepKeepsNewest DEF ClipInv
<1> QED
  BY <1>1, <1>2, PTL DEF ClipSpec

\* Whatever the channels hold, once nothing is under way the receiver shows the newest content that
\* was read, unless that one was dropped or passed over (lib.rs:375).
THEOREM ClipboardSettles == ClipSpec => []ClipSettles
<1>1. ClipInv => ClipSettles
  BY DEF ClipInv, ClipSettles, NewestComesLast, LastOnItsWay
<1> QED
  BY <1>1, ClipInvariance, PTL

\* An image that fits the frame of the receiver whatever its bytes are.
FitsAnyhow(c) == 4 * c.raw <= FrameMax

\* Only such images are on their way, and the session has not ended over one.
PastesFit ==
  /\ \A s \in Syncs : sync[s] # <<>> => FitsAnyhow(sync[s][1])
  /\ \A i \in 1 .. Len(lane) : FitsAnyhow(lane[i])
  /\ ~oversize

LEMMA StepKeepsPastes ==
  ClipInv /\ FitsAnyhow(copied) /\ PastesFit /\ [ClipNext]_clipVars => PastesFit'
<1> SUFFICES ASSUME ClipInv, FitsAnyhow(copied), PastesFit, [ClipNext]_clipVars PROVE PastesFit'
  OBVIOUS
<1>a. /\ lane \in Seq(Contents) /\ Len(lane) \in Nat
      /\ lane # <<>> => 1 \in 1 .. Len(lane) /\ Head(lane) = lane[1] /\ Head(lane) \in Contents
      /\ sync \in [Syncs -> {<<>>} \cup {<<c>> : c \in Contents}]
  <2>1. lane \in Seq(Contents) /\ sync \in [Syncs -> {<<>>} \cup {<<c>> : c \in Contents}]
    BY DEF ClipInv, PipesTyped
  <2> QED
    BY <2>1
<1>b. FrameMax \in Nat
  BY ClipAssumption
<1>c. Len(<<>>) = 0
  OBVIOUS
<1> USE DEF PastesFit, clipSender, clipReceiver
<1>1. ASSUME UNCHANGED <<sync, lane, oversize>> PROVE PastesFit'
  BY <1>1 DEF FitsAnyhow
<1>2. CASE CopyNew \/ (\E s \in Syncs : SyncClipboard(s) \/ NothingToSync(s)) \/ Relink \/ TakePending \/ Drain
           \/ WriteClipboard \/ ClipboardFails \/ UNCHANGED clipVars
  BY <1>1, <1>2 DEF CopyNew, SyncClipboard, NothingToSync, Relink, TakePending, Drain, WriteClipboard,
     ClipboardFails, clipVars
<1>3. ASSUME NEW s \in Syncs, ReadClipboard(s) PROVE PastesFit'
  <2>1. sync' = [sync EXCEPT ![s] = <<copied>>] /\ UNCHANGED <<lane, oversize>>
    BY <1>3 DEF ReadClipboard
  <2>2. sync'[s][1] = copied /\ \A t \in Syncs : t # s => sync'[t] = sync[t]
    BY <1>a, <2>1
  <2> QED
    BY <2>1, <2>2 DEF FitsAnyhow
<1>4. ASSUME NEW s \in Syncs, SendClipboard(s) PROVE PastesFit'
  <2>1. /\ sync' = [sync EXCEPT ![s] = <<>>] /\ sync[s] # <<>> /\ oversize' = oversize
        /\ lane' = lane \/ lane' = Append(lane, sync[s][1])
    BY <1>4 DEF SendClipboard
  <2>2. \A t \in Syncs : sync'[t] # <<>> => sync'[t] = sync[t]
    BY <1>a, <2>1
  <2>3. FitsAnyhow(sync[s][1])
    BY <2>1
  <2>4. \A i \in 1 .. Len(lane') : lane'[i] = sync[s][1] \/ (i \in 1 .. Len(lane) /\ lane'[i] = lane[i])
    BY <1>a, <2>1
  <2> QED
    BY <2>1, <2>2, <2>3, <2>4 DEF FitsAnyhow
<1>5. CASE Receive
  <2>1. lane # <<>> /\ lane' = Tail(lane) /\ UNCHANGED <<sync, oversize>>
    BY <1>5 DEF Receive
  <2>2. \A i \in 1 .. Len(lane') : i + 1 \in 1 .. Len(lane) /\ lane'[i] = lane[i + 1]
    BY <1>a, <2>1
  <2> QED
    BY <2>1, <2>2 DEF FitsAnyhow
<1>6. ASSUME NEW large \in BOOLEAN, SessionBreaks(large) PROVE PastesFit'
  <2>1. /\ lane' = <<>> /\ sync' = [t \in Syncs |-> <<>>] /\ oversize' = (oversize \/ large)
        /\ large => lane # <<>> /\ MayOverflow(Head(lane))
    BY <1>6 DEF SessionBreaks
  <2>2. ASSUME lane # <<>> PROVE ~MayOverflow(Head(lane))
    <3>1. FitsAnyhow(Head(lane)) /\ Head(lane).raw \in Nat
      BY <1>a, <2>2 DEF Contents
    <3>2. ASSUME NEW digits \in 1 .. 3 PROVE Head(lane).raw * (digits + 1) <= FrameMax
      <4>1. digits = 1 \/ digits = 2 \/ digits = 3
        BY <3>2
      <4> QED
        BY <1>b, <3>1, <4>1 DEF FitsAnyhow
    <3> QED
      BY <1>b, <3>1, <3>2 DEF MayOverflow
  <2>3. ~large
    BY <2>1, <2>2
  <2> QED
    BY <1>c, <2>1, <2>3
<1> QED
  BY <1>2, <1>3, <1>4, <1>5, <1>6 DEF ClipNext

\* A paste ends no session as long as four characters for each byte of what the user copies fit a frame: the
\* limit that protocol.rs:245 promises, met by images of up to a quarter of the frame.
THEOREM SmallPastesKeepSession == ClipSpec /\ []FitsAnyhow(copied) => []LargePasteKeepsSession
<1>1. ClipInit => PastesFit
  <2>1. Len(<<>>) = 0
    OBVIOUS
  <2> QED
    BY <2>1 DEF ClipInit, PastesFit
<1>2. PastesFit => LargePasteKeepsSession
  BY DEF PastesFit, LargePasteKeepsSession
<1> QED
  BY <1>1, <1>2, StepKeepsPastes, ClipInvariance, PTL DEF ClipSpec

-----------------------------------------------------------------------------
(* The tasks side by side.                                                   *)

\* Checked side by side, every area still takes only its own steps: what is proved of an area holds of
\* the run that checks them together.
THEOREM AreasSideBySide ==
  Spec => /\ SlotSpec /\ ReSpec /\ IdleSpec
          /\ MacSpec /\ ConfigSpec /\ ClipSpec
<1> DEFINE Own == /\ [SlotNext]_slotVars /\ [ReNext]_reVars /\ [IdleNext]_idleVars
                  /\ [MacNext]_macVars /\ [ConfigNext]_configVars /\ [ClipNext]_clipVars
<1>1. Init => SlotInit /\ ReInit /\ IdleInit /\ MacInit /\ ConfigInit /\ ClipInit
  BY DEF Init
<1>2. [Next]_areaVars => Own
  <2> SUFFICES ASSUME [Next]_areaVars PROVE Own
    OBVIOUS
  <2>1. CASE SessionNext /\ UNCHANGED hostVars
    BY <2>1 DEF SessionNext, hostVars
  <2>2. CASE HostNext /\ UNCHANGED sessionVars
    BY <2>2 DEF HostNext, sessionVars
  <2>3. CASE UNCHANGED areaVars
    BY <2>3 DEF areaVars, sessionVars, hostVars
  <2> QED
    BY <2>1, <2>2, <2>3 DEF Next
<1> QED
  BY <1>1, <1>2, PTL DEF Spec, SlotSpec, ReSpec, IdleSpec, MacSpec, ConfigSpec, ClipSpec

\* The state of every area stays within its types, whichever runs, for every value of their constants
\* (state.rs:436-458, raw_mouse_mac.rs:92-121, server.rs:509).
THEOREM TasksTypeCorrect == Spec => []TasksTypeOK
<1>1. IdleInv => IdleTypeOK
  BY DEF IdleInv
<1>2. MacInv => MacTypeOK
  BY DEF MacInv
<1>3. ClipInv => ClipTypeOK
  BY TypedByBounds DEF ClipInv
<1>4. SlotTypeOK /\ ReTypeOK /\ IdleTypeOK /\ MacTypeOK /\ ConfigTypeOK /\ ClipTypeOK => TasksTypeOK
  BY DEF TasksTypeOK
<1> QED
  BY <1>1, <1>2, <1>3, <1>4, AreasSideBySide, SlotTypeCorrect, ReTypeCorrect, IdleInvariance, MacInvariance,
     ConfigTypeCorrect, ClipInvariance, PTL

=============================================================================
