----------------------------- MODULE SessionIdle -----------------------------
\* The clocks that may end a session nobody asked to end: the controller's pings, the
\* receiver's watchdog and the idle lock of either side, all about last_activity.
\* Time passes in units, and only when no timer is due and no frame overdue.  The receiver's loop
\* reads nothing while it waits for its user to answer a request for the log.
EXTENDS Naturals

CONSTANTS
  PingEvery,  \* period of the pings (5 s in the code)
  WatchEvery, \* period of the watchdog's samples (5 s)
  WatchLimit, \* silence after which it ends the session (60 s)
  LockEvery,  \* period of the idle lock's checks (30 s)
  LockAfter,  \* idle_lock_minutes, when the user has set them
  AskLimit,   \* time the receiver's user has to answer a request for the log (60 s)
  Latency     \* bound on the time a frame is under way

MaxAge == WatchLimit + WatchEvery + LockAfter + LockEvery

ASSUME IdleAssumption ==
  /\ {PingEvery, WatchEvery, WatchLimit, LockEvery, LockAfter, AskLimit, Latency} \subseteq Nat \ {0}
  /\ PingEvery + Latency < WatchLimit

Sides == {"controller", "receiver"}
NoMail == MaxAge + 1
NoWait == AskLimit + 1

VARIABLES
  since,    \* time since last_activity of each side
  running,  \* the side has a session: connected_peer is Some
  lockOn,   \* idle_lock_minutes of the side is not 0; the user leaves it as it is
  pingIn, watchIn, lockIn, \* time to the next tick of each loop
  mail,     \* age of the oldest frame under way or unread, Latency from then on, or NoMail
  busy,     \* time the receiver's loop has waited in handle_log_request, or NoWait
  asked,    \* the frame it has read last was a request for the log
  broken,   \* the network carries nothing any more, and nobody has been told
  unused,   \* history: time since the controller's user drove, or since the start
  cutLive   \* history: the watchdog has ended a session whose network worked

idleVars == <<since, running, lockOn, pingIn, watchIn, lockIn, mail, busy, asked, broken, unused, cutLive>>

\* Every clock stays within its period (client.rs:347, server.rs:509, lib.rs:268).
IdleTypeOK ==
  /\ since \in [Sides -> 0 .. MaxAge] /\ running \in [Sides -> BOOLEAN] /\ lockOn \in [Sides -> BOOLEAN]
  /\ pingIn \in 0 .. PingEvery /\ watchIn \in 0 .. WatchEvery /\ lockIn \in [Sides -> 0 .. LockEvery]
  /\ mail \in 0 .. Latency \cup {NoMail} /\ busy \in 0 .. AskLimit \cup {NoWait}
  /\ unused \in 0 .. MaxAge /\ {asked, broken, cutLive} \subseteq BOOLEAN

IdleInit ==
  /\ since = [s \in Sides |-> 0] /\ running = [s \in Sides |-> FALSE]
  /\ lockOn \in [Sides -> BOOLEAN]
  /\ pingIn = PingEvery /\ watchIn = 0 /\ lockIn = [s \in Sides |-> LockEvery]
  /\ mail = NoMail /\ busy = NoWait /\ asked = FALSE /\ broken = FALSE
  /\ unused = 0 /\ cutLive = FALSE

\* A session begins on both sides, and both note it as activity.
StartBoth ==
  /\ ~running["controller"] /\ ~running["receiver"]
  /\ running' = [s \in Sides |-> TRUE] /\ since' = [s \in Sides |-> 0]
  /\ pingIn' = PingEvery /\ watchIn' = 0 /\ mail' = NoMail /\ broken' = FALSE
  /\ busy' = NoWait /\ asked' = FALSE /\ unused' = 0
  /\ UNCHANGED <<lockOn, lockIn, cutLive>>

\* A frame is sent; the one that is under way already stays the oldest.
PostMail == mail' = IF mail = NoMail /\ ~broken THEN 0 ELSE mail

\* The user of the controller drives the receiver: no clock of this side notes it.
Drive ==
  /\ running["controller"] /\ PostMail /\ unused' = 0
  /\ UNCHANGED <<since, running, lockOn, pingIn, watchIn, lockIn, busy, asked, broken, cutLive>>

Ping ==
  /\ running["controller"] /\ pingIn = 0 /\ pingIn' = PingEvery /\ PostMail
  /\ UNCHANGED <<since, running, lockOn, watchIn, lockIn, busy, asked, broken, unused, cutLive>>

\* Mutation: a ping is answered and not noted.
ArriveUnnoted ==
  /\ mail # NoMail /\ busy = NoWait /\ mail' = NoMail /\ asked' = FALSE
  /\ UNCHANGED <<since, running, lockOn, pingIn, watchIn, lockIn, busy, broken, unused, cutLive>>

\* "Any valid message resets the idle watchdog": the frames under way are read, the last too.
Arrive ==
  /\ mail # NoMail /\ busy = NoWait /\ mail' = NoMail /\ asked' = FALSE
  /\ since' = IF running["receiver"] THEN [since EXCEPT !["receiver"] = 0] ELSE since
  /\ UNCHANGED <<running, lockOn, pingIn, watchIn, lockIn, busy, broken, unused, cutLive>>

\* One of them is a request for the log: the loop asks its user, and leaves what follows unread.
AskForLog ==
  /\ mail # NoMail /\ busy = NoWait /\ running["receiver"] /\ mail' \in 0 .. mail \cup {NoMail}
  /\ since' = [since EXCEPT !["receiver"] = 0] /\ busy' = 0 /\ asked' = TRUE
  /\ UNCHANGED <<running, lockOn, pingIn, watchIn, lockIn, broken, unused, cutLive>>

\* The user answers, the minute is over, or the request was refused unasked.
AskOver ==
  /\ busy # NoWait /\ busy' = NoWait
  /\ UNCHANGED <<since, running, lockOn, pingIn, watchIn, lockIn, mail, asked, broken, unused, cutLive>>

\* What has arrived can still be read.
LinkBreaks ==
  /\ ~broken /\ broken' = TRUE /\ mail' \in {mail, NoMail}
  /\ UNCHANGED <<since, running, lockOn, pingIn, watchIn, lockIn, busy, asked, unused, cutLive>>

\* The session of s is told to end, and over on the other side as soon as that can tell.
Ends(s) ==
  /\ running' = [running EXCEPT ![s] = FALSE]
  /\ busy' = IF s = "receiver" THEN NoWait ELSE busy

\* The network works, and the other side is there.
Working == running["controller"] /\ ~broken

Sample ==
  /\ running["receiver"] /\ watchIn = 0 /\ watchIn' = WatchEvery
  /\ IF since["receiver"] >= WatchLimit
     THEN Ends("receiver") /\ cutLive' = (cutLive \/ (Working /\ ~asked))
     ELSE UNCHANGED <<running, busy, cutLive>>
  /\ UNCHANGED <<since, lockOn, pingIn, lockIn, mail, asked, broken, unused>>

\* The end of the stream, or the operating system gives the connection up: seen by who reads.
HearEnd(s) ==
  /\ running[s] /\ (broken \/ \E t \in Sides \ {s} : ~running[t]) /\ Ends(s)
  /\ s = "receiver" => busy = NoWait
  /\ UNCHANGED <<since, lockOn, pingIn, watchIn, lockIn, mail, asked, broken, unused, cutLive>>

\* The idle lock's check: it asks last_activity, which the controller notes once, when its session
\* starts, and the receiver with every frame, be it a ping.
LockCheck(s) ==
  /\ lockIn[s] = 0 /\ lockIn' = [lockIn EXCEPT ![s] = LockEvery]
  /\ IF lockOn[s] /\ since[s] >= LockAfter /\ running[s] THEN Ends(s) ELSE UNCHANGED <<running, busy>>
  /\ UNCHANGED <<since, lockOn, pingIn, watchIn, mail, asked, broken, unused, cutLive>>

Due ==
  \/ running["controller"] /\ pingIn = 0
  \/ running["receiver"] /\ watchIn = 0
  \/ \E s \in Sides : lockIn[s] = 0
  \/ mail = Latency /\ busy = NoWait
  \/ busy = AskLimit

Older(a)  == IF a < MaxAge THEN a + 1 ELSE a
Sooner(n) == IF n > 0 THEN n - 1 ELSE 0

Pass ==
  /\ ~Due
  /\ since' = [s \in Sides |-> Older(since[s])]
  /\ pingIn' = Sooner(pingIn) /\ watchIn' = Sooner(watchIn)
  /\ lockIn' = [s \in Sides |-> Sooner(lockIn[s])]
  /\ mail' = IF mail \in {NoMail, Latency} THEN mail ELSE mail + 1
  /\ busy' = IF busy = NoWait THEN NoWait ELSE busy + 1
  /\ unused' = Older(unused)
  /\ UNCHANGED <<running, lockOn, asked, broken, cutLive>>

IdleNext ==
  \/ StartBoth \/ Drive \/ Ping \/ Arrive \/ AskForLog \/ AskOver \/ LinkBreaks \/ Sample \/ Pass
  \/ \E s \in Sides : HearEnd(s) \/ LockCheck(s)

IdleSpec == IdleInit /\ [][IdleNext]_idleVars

-----------------------------------------------------------------------------
\* The watchdog tells a silent network from an idle user.  It ends no session whose controller runs
\* and whose network delivers within Latency, however idle the user is and whatever the phases of the
\* loops (server.rs:504), unless the frame read last was a request for the log, whose minute it may
\* take for silence; and no session outlives its silence by more than one sample beyond the limit
\* ("signals disconnect once no activity has been observed for 60s").
SilenceIsNotIdleness ==
  /\ ~cutLive
  /\ running["receiver"] => since["receiver"] < WatchLimit + WatchEvery

\* What the settings promise of the idle auto-lock: "Drop remote control after a period of
\* inactivity".  A session nobody has driven for that long is over within one check of the lock
\* of the receiver (lib.rs:263).
IdleLockDrops == lockOn["receiver"] /\ running["receiver"] => unused <= LockAfter + LockEvery

=============================================================================
