------------------------------ MODULE Reconnect ------------------------------
\* Outbound sessions with one device over time: the user connects, disconnects and
\* dials by force, sessions end, and each unclean end starts a loop that dials
\* again.  A session that a loop opens runs inside that loop's task, so aborting
\* the loop kills the session, without its cleanup: where the loop waits, at once, and where it is
\* being run, at its next await.  A task runs from one await to the next in one step, except where it
\* gives a lock back that others take.
EXTENDS Naturals, FiniteSets

CONSTANTS
  Calls,  \* tasks spawned by connect_to_device and force_dial_peer
  Loops,  \* tasks running reconnect_with_backoff
  Rounds  \* attempts a loop makes (5 in the code)

Dialers == Calls \cup Loops
NoTask   == "notask"

ASSUME ReconnectAssumption ==
  Calls \cap Loops = {} /\ NoTask \notin Dialers /\ Rounds \in Nat \ {0}

VARIABLES
  listing,   \* the device in AppState.peers: its status, or "gone"
  seat,      \* connected_peer: the session that filled it
  netLink,   \* net_tx: the session it belongs to
  intent,    \* intentional_disconnect
  handle,    \* reconnect_handle
  at,        \* where each task is
  tries,     \* attempts each loop has used up
  child,     \* the loop a task has spawned and not yet stored the handle of
  doomed,    \* loops aborted between two awaits
  command,   \* where connect_to_device is
  flushing,  \* disconnect_gracefully waits for its Bye
  killed,    \* history: a session has been aborted
  slipped,   \* history: an abort or a store met a loop whose handle was not in its place
  told,      \* history: the user, or the idle lock, has disconnected and nobody has dialled since
  lost       \* history: a session was lost and nothing has settled that yet

linkVars  == <<seat, netLink>>
loopVars  == <<handle, at, tries, child, doomed, killed, slipped>>
userVars  == <<command, flushing, told>>
reVars    == <<listing, linkVars, loopVars, userVars, intent, lost>>

Awaiting == {"sleeping", "dialing", "live"}

ReTypeOK ==
  /\ listing \in {"gone", "available", "pairing", "connected"} /\ handle \in Loops \cup {NoTask}
  /\ seat \in Dialers \cup {NoTask} /\ netLink \in Dialers \cup {NoTask}
  /\ at \in [Dialers -> {"free", "seating", "linking", "cleaning", "deciding", "storing", "leaving"}
                        \cup Awaiting]
  /\ tries \in [Loops -> 0 .. Rounds] /\ child \in [Dialers -> Loops \cup {NoTask}]
  /\ doomed \subseteq Loops /\ command \in {"idle", "marking"}
  /\ {intent, flushing, killed, slipped, told, lost} \subseteq BOOLEAN

ReInit ==
  /\ listing = "gone" /\ seat = NoTask /\ netLink = NoTask
  /\ intent = FALSE /\ handle = NoTask
  /\ at = [t \in Dialers |-> "free"] /\ tries = [r \in Loops |-> 0]
  /\ child = [t \in Dialers |-> NoTask] /\ doomed = {}
  /\ command = "idle" /\ flushing = FALSE
  /\ killed = FALSE /\ slipped = FALSE /\ told = FALSE /\ lost = FALSE

Goto(t, p) == at' = [at EXCEPT ![t] = p]

\* The status of the device, if it is in the table.
SetStatus(s) == listing' = IF listing = "gone" THEN "gone" ELSE s

\* abort_reconnect: the loop in the handle dies where it waits, and where it runs, at its next await.
\* The loop of a task that has not stored its handle yet is missed.
AbortLoop(others) ==
  /\ handle' = NoTask
  /\ slipped' = (slipped \/ \E t \in Dialers : at[t] = "storing")
  /\ IF handle # NoTask /\ at[handle] \in Awaiting
     THEN /\ at' = [others EXCEPT ![handle] = "free"]
          /\ killed' = (killed \/ at[handle] = "live") /\ UNCHANGED doomed
     ELSE /\ at' = others /\ UNCHANGED killed
          /\ doomed' = doomed \cup {r \in {handle} \cap Loops : at[r] # "free"}

-----------------------------------------------------------------------------
(* The user: connect_to_device, force_dial_peer and the three disconnects.   *)

ConnectDevice ==
  /\ command = "idle" /\ seat = NoTask /\ command' = "marking"
  /\ intent' = FALSE /\ AbortLoop(at) /\ told' = FALSE /\ lost' = FALSE
  /\ UNCHANGED <<listing, linkVars, tries, child, flushing>>

\* "Already connecting or connected to this device", or it is dialled.
MarkAndDial ==
  /\ command = "marking" /\ command' = "idle"
  /\ \/ listing # "available" /\ UNCHANGED <<listing, at>>
     \/ /\ listing = "available" /\ listing' = "pairing"
        /\ \E d \in Calls : at[d] = "free" /\ Goto(d, "dialing")
  /\ UNCHANGED <<linkVars, handle, tries, child, doomed, killed, slipped, flushing, told, intent, lost>>

ForceDial ==
  /\ netLink = NoTask /\ \E d \in Calls : at[d] = "free" /\ Goto(d, "dialing")
  /\ told' = FALSE
  /\ UNCHANGED <<listing, linkVars, handle, tries, child, doomed, killed, slipped, command, flushing, intent, lost>>

\* Mutation: the loop is left to find the flag by itself.
DisconnectLeavesLoop ==
  /\ ~flushing /\ flushing' = TRUE /\ intent' = TRUE /\ told' = TRUE /\ lost' = FALSE
  /\ UNCHANGED <<listing, seat, netLink, loopVars, command>>

\* The command, and the idle lock.
DisconnectNow ==
  /\ ~flushing /\ flushing' = TRUE /\ intent' = TRUE /\ told' = TRUE /\ lost' = FALSE
  /\ AbortLoop(at)
  /\ UNCHANGED <<listing, seat, netLink, tries, child, command>>

\* The tray (and the shutdown) abort nothing.
TrayDisconnect ==
  /\ ~flushing /\ flushing' = TRUE /\ intent' = TRUE /\ lost' = FALSE
  /\ UNCHANGED <<listing, seat, netLink, loopVars, command, told>>

Flushed ==
  /\ flushing /\ flushing' = FALSE /\ seat' = NoTask /\ netLink' = NoTask
  /\ UNCHANGED <<listing, loopVars, command, told, intent, lost>>

-----------------------------------------------------------------------------
(* Discovery.                                                                *)

Resolve ==
  /\ listing = "gone" /\ listing' = "available"
  /\ UNCHANGED <<linkVars, loopVars, userVars, intent, lost>>

\* ServiceRemoved, whatever the status.
Withdraw ==
  /\ listing # "gone" /\ listing' = "gone"
  /\ UNCHANGED <<linkVars, loopVars, userVars, intent, lost>>

-----------------------------------------------------------------------------
(* Dialling, and the session: connect and connect_stream.                    *)

\* A loop goes on to its next attempt, or gives up.
NextRound(r) ==
  IF tries[r] + 1 < Rounds
  THEN Goto(r, "sleeping") /\ tries' = [tries EXCEPT ![r] = @ + 1] /\ UNCHANGED lost
  ELSE Goto(r, "free") /\ tries' = [tries EXCEPT ![r] = 0] /\ lost' = FALSE

\* No stream: connect resets the status, the loop does not; the address may be dropped, see Wake.
NoStream(t) ==
  /\ at[t] = "dialing"
  /\ IF t \in Loops
     THEN NextRound(t) /\ UNCHANGED listing
     ELSE Goto(t, "free") /\ SetStatus("available") /\ UNCHANGED <<tries, lost>>
  /\ UNCHANGED <<linkVars, handle, child, doomed, killed, slipped, userVars, intent>>

\* The stream is there and the device refuses: connect_stream returns.
Refused(t) ==
  /\ at[t] = "dialing" /\ SetStatus("available") /\ Goto(t, "leaving")
  /\ UNCHANGED <<linkVars, handle, tries, child, doomed, killed, slipped, userVars, intent, lost>>

\* The handshake is over: the session is entered in the table, in connected_peer and, with the tasks
\* that write and ping, in net_tx, and nothing is awaited until its first read (client.rs:366).
EnterStatus(t) ==
  /\ at[t] = "dialing" /\ Goto(t, "seating") /\ SetStatus("connected")
  /\ UNCHANGED <<linkVars, handle, tries, child, doomed, killed, slipped, userVars, intent, lost>>

EnterSeat(t) ==
  /\ at[t] = "seating" /\ Goto(t, "linking") /\ seat' = t
  /\ UNCHANGED <<listing, netLink, handle, tries, child, doomed, killed, slipped, userVars, intent, lost>>

\* Mutation: a loop that was aborted on its way here goes on.
OpenLinkLives(t) ==
  /\ at[t] = "linking" /\ netLink' = t /\ Goto(t, "live") /\ lost' = FALSE
  /\ UNCHANGED <<listing, seat, handle, tries, child, doomed, killed, slipped, userVars, intent>>

\* A loop that was aborted on its way here dies at that read, and leaves all it has entered.
OpenLink(t) ==
  /\ at[t] = "linking" /\ netLink' = t
  /\ IF t \in doomed
     THEN /\ Goto(t, "free") /\ doomed' = doomed \ {t} /\ killed' = TRUE
          /\ tries' = [tries EXCEPT ![t] = 0] /\ UNCHANGED lost
     ELSE Goto(t, "live") /\ lost' = FALSE /\ UNCHANGED <<doomed, killed, tries>>
  /\ UNCHANGED <<listing, seat, handle, child, slipped, userVars, intent>>

\* Bye, a lost stream, or EndedByPeer, which counts as intended.
SessionEnds(t) ==
  /\ at[t] = "live" /\ Goto(t, "cleaning") /\ intent' \in {intent, TRUE}
  /\ UNCHANGED <<listing, linkVars, handle, tries, child, doomed, killed, slipped, userVars, lost>>

\* The cleanup ends with a look at the flag; the stored key is read next.
\* Mutation: the table is forgotten.
CleanUpKeepsStatus(t) ==
  /\ at[t] = "cleaning" /\ Goto(t, IF intent THEN "leaving" ELSE "deciding")
  /\ seat' = NoTask /\ netLink' = NoTask
  /\ UNCHANGED <<listing, handle, tries, child, doomed, killed, slipped, userVars, intent, lost>>

CleanUp(t) ==
  /\ at[t] = "cleaning" /\ Goto(t, IF intent THEN "leaving" ELSE "deciding")
  /\ SetStatus("available")
  /\ seat' = NoTask /\ netLink' = NoTask
  /\ UNCHANGED <<handle, tries, child, doomed, killed, slipped, userVars, intent, lost>>

\* A name for a new task: nobody holds a handle of an older one with it.
Fresh(r) == at[r] = "free" /\ r # handle /\ \A t \in Dialers : child[t] # r

\* Mutation: the loop in the handle is left running.
RespawnBeside(t) ==
  /\ at[t] = "deciding"
  /\ \E r \in Loops : Fresh(r) /\ at' = [at EXCEPT ![t] = "storing", ![r] = "sleeping"]
                      /\ child' = [child EXCEPT ![t] = r] /\ tries' = [tries EXCEPT ![r] = 0]
  /\ lost' = TRUE
  /\ UNCHANGED <<listing, linkVars, handle, doomed, killed, slipped, userVars, intent>>

\* An unclean end of a session with a known device, whatever has come in the meantime: the old loop is aborted, which may
\* be the task this runs in, and a new one spawned.
Respawn(t) ==
  /\ at[t] = "deciding"
  /\ \E r \in Loops :
       /\ Fresh(r)
       /\ AbortLoop([at EXCEPT ![t] = "storing", ![r] = "sleeping"])
       /\ child' = [child EXCEPT ![t] = r] /\ tries' = [tries EXCEPT ![r] = 0]
  /\ lost' = TRUE
  /\ UNCHANGED <<listing, linkVars, userVars, intent>>

\* No stored key, or a device reached through the relay.
NoRespawn(t) ==
  /\ at[t] = "deciding" /\ Goto(t, "leaving")
  /\ UNCHANGED <<listing, linkVars, handle, tries, child, doomed, killed, slipped, userVars, intent, lost>>

\* Mutation: the old loop is aborted after the new one has been stored.
StoreThenAbort(t) ==
  /\ at[t] = "storing" /\ child' = [child EXCEPT ![t] = NoTask]
  /\ handle' = NoTask /\ at' = [at EXCEPT ![t] = "leaving", ![child[t]] = "free"]
  /\ UNCHANGED <<listing, linkVars, tries, doomed, killed, slipped, userVars, intent, lost>>

StoreHandleOf(t) ==
  /\ at[t] = "storing" /\ handle' = child[t]
  /\ slipped' = (slipped \/ (handle # NoTask /\ at[handle] # "free"))
  /\ child' = [child EXCEPT ![t] = NoTask] /\ Goto(t, "leaving")
  /\ UNCHANGED <<listing, linkVars, tries, doomed, killed, userVars, intent, lost>>

\* connect_stream returns: to nobody, or into the loop, which looks at the flag, goes
\* on to its next attempt, and there dies if it has been aborted.
Return(t) ==
  /\ at[t] = "leaving"
  /\ IF t \in Calls
     THEN Goto(t, "free") /\ UNCHANGED <<tries, doomed, lost>>
     ELSE /\ doomed' = doomed \ {t}
          /\ IF intent \/ t \in doomed
             THEN Goto(t, "free") /\ tries' = [tries EXCEPT ![t] = 0] /\ lost' = (lost /\ ~intent)
             ELSE NextRound(t)
  /\ UNCHANGED <<listing, linkVars, handle, child, killed, slipped, userVars, intent>>

\* The end of a loop's sleep: the flag, the slot, the table, and the address, which an
\* earlier failure may have dropped and Discovery put back.
Wake(r) ==
  /\ at[r] = "sleeping"
  /\ IF intent \/ seat # NoTask \/ listing = "gone"
     THEN Goto(r, "free") /\ tries' = [tries EXCEPT ![r] = 0] /\ lost' = FALSE
     ELSE NextRound(r) \/ (Goto(r, "dialing") /\ UNCHANGED <<tries, lost>>)
  /\ UNCHANGED <<listing, linkVars, handle, child, doomed, killed, slipped, userVars, intent>>

User == ConnectDevice \/ MarkAndDial \/ ForceDial \/ DisconnectNow \/ TrayDisconnect \/ Flushed
Session(t) ==
  \/ NoStream(t) \/ Refused(t) \/ EnterStatus(t) \/ EnterSeat(t) \/ OpenLink(t) \/ SessionEnds(t) \/ CleanUp(t)
  \/ Respawn(t) \/ NoRespawn(t) \/ StoreHandleOf(t) \/ Return(t)

ReNext ==
  \/ User \/ Resolve \/ Withdraw
  \/ \E t \in Dialers : Session(t)
  \/ \E r \in Loops : Wake(r)

ReSpec == ReInit /\ [][ReNext]_reVars

-----------------------------------------------------------------------------
Alive(r) == at[r] # "free" /\ r \notin doomed

\* There is one loop at a time, and abort_reconnect finds it, "so a stale loop can't race with the fresh connect
\* attempt" (state.rs:453), as long as no abort has come between the spawn of a
\* loop and the store of its handle (client.rs:535).
OneLoopHeld ==
  ~slipped => /\ \A r, q \in Loops : Alive(r) /\ Alive(q) => r = q
              /\ \A r \in Loops : Alive(r) => handle = r \/ \E t \in Dialers : child[t] = r

\* A disconnect holds: once the user (not through the tray) or the idle lock has disconnected, and before
\* somebody dials again, no loop begins to enter a session and none serves one: a session that was
\* being entered at that moment dies at its first read (commands.rs:99, lib.rs:278, client.rs:366).
DisconnectSticks ==
  [][\A r \in Loops : at[r] # at'[r] /\ at'[r] \in {"seating", "live"} => ~told \/ slipped]_reVars

\* A lost session is dialled again until it is back, the attempts are used up, the device is gone or the
\* user does something else: however many sessions end at once, and in whichever task the loss
\* was noticed, a loop is left that no abort has reached (client.rs:529).
LossIsRetried ==
  lost => \E r \in Loops : Alive(r)

\* The table says connected only while a session with the device is entered, runs or is being cleaned up:
\* otherwise it could never be dialled again.  Not so once a session was aborted, be it the one that a loop
\* had begun to enter (commands.rs:81, client.rs:266, 503).
ConnectedHasSession ==
  listing = "connected" /\ ~killed =>
     \E t \in Dialers : at[t] \in {"seating", "linking", "live", "cleaning"}

=============================================================================
