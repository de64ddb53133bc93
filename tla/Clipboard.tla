------------------------------- MODULE Clipboard -------------------------------
\* The clipboard follows the cursor: whenever control is taken a thread reads the
\* controller's clipboard and queues it for the network; the receiver hands it to
\* one writer thread, through a bounded queue of which only the newest entry counts.
\* A content is known by its number, the later the newer, and by its size as a raw image, 0 for a text.
EXTENDS Naturals, Sequences

CONSTANTS
  Syncs,    \* threads of sync_clipboard_async
  MaxCopy,  \* contents the user copies
  WireCap,  \* entries net_tx holds (512 in the code)
  PendCap,  \* entries clipboard_tx holds (4)
  RawMax,   \* images of this size are not sent (4 000 000 bytes)
  FrameMax  \* larger frames end the session (2 MiB)

VARIABLES
  copied,   \* what is on the controller's clipboard
  sync,     \* what each thread has read: a sequence of at most one content
  syncing,  \* threads that run
  lane,     \* contents on their way
  pend,     \* numbers in clipboard_tx
  draining, \* what the writer thread holds: a sequence of at most one number
  clipped,  \* the number on the receiver's clipboard
  linked,   \* the session stands
  oversize, \* history: a frame has ended a session
  newest,   \* history: the newest number a thread has read
  missed    \* history: the newest one was dropped, or an older one has come after it

clipSender   == <<copied, sync, syncing>>
clipReceiver == <<pend, draining, clipped>>
clipVars     == <<clipSender, clipReceiver, lane, linked, oversize, newest, missed>>

ASSUME ClipAssumption == {MaxCopy, WireCap, PendCap, RawMax, FrameMax} \subseteq Nat \ {0}

Contents == [no : 0 .. MaxCopy, raw : 0 .. RawMax]

ClipTypeOK ==
  /\ copied \in Contents /\ syncing \subseteq Syncs /\ DOMAIN sync = Syncs
  /\ \A s \in Syncs : sync[s] = <<>> \/ sync[s][1] \in Contents
  /\ Len(lane) <= WireCap /\ \A i \in 1 .. Len(lane) : lane[i] \in Contents
  /\ Len(pend) <= PendCap /\ Len(draining) <= 1
  /\ {clipped, newest} \subseteq 0 .. MaxCopy /\ {linked, oversize, missed} \subseteq BOOLEAN

ClipInit ==
  /\ copied = [no |-> 0, raw |-> 0] /\ sync = [s \in Syncs |-> <<>>] /\ syncing = {}
  /\ lane = <<>> /\ pend = <<>> /\ draining = <<>> /\ clipped = 0
  /\ linked = TRUE /\ oversize = FALSE /\ newest = 0 /\ missed = FALSE

-----------------------------------------------------------------------------
(* The controller.                                                           *)

CopyNew ==
  /\ copied.no < MaxCopy
  /\ \E r \in 0 .. RawMax : copied' = [no |-> copied.no + 1, raw |-> r]
  /\ UNCHANGED <<sync, syncing, clipReceiver, lane, linked, oversize, newest, missed>>

\* Control is taken, by whatever way.
SyncClipboard(s) ==
  /\ linked /\ s \notin syncing /\ syncing' = syncing \cup {s}
  /\ UNCHANGED <<copied, sync, clipReceiver, lane, linked, oversize, newest, missed>>

ReadClipboard(s) ==
  /\ s \in syncing /\ sync[s] = <<>>
  /\ sync' = [sync EXCEPT ![s] = <<copied>>] /\ newest' = copied.no
  /\ missed' = (missed /\ newest' = newest)
  /\ UNCHANGED <<copied, syncing, clipReceiver, lane, linked, oversize>>

\* The clipboard does not open, or holds neither text nor image.
NothingToSync(s) ==
  /\ s \in syncing /\ sync[s] = <<>> /\ syncing' = syncing \ {s}
  /\ UNCHANGED <<copied, sync, clipReceiver, lane, linked, oversize, newest, missed>>

\* A text is cut to its limit; a large image is not sent; a full queue drops the content.
SendClipboard(s) ==
  /\ s \in syncing /\ sync[s] # <<>>
  /\ syncing' = syncing \ {s} /\ sync' = [sync EXCEPT ![s] = <<>>]
  /\ LET c == sync[s][1] IN
       IF c.raw < RawMax /\ Len(lane) < WireCap
       THEN lane' = Append(lane, c) /\ missed' = (c.no # newest)
       ELSE UNCHANGED lane /\ missed' = (missed \/ c.no = newest)
  /\ UNCHANGED <<copied, clipReceiver, linked, oversize, newest>>

-----------------------------------------------------------------------------
(* The receiver.                                                             *)

\* A frame holds its bytes as decimal numbers with commas: 2 to 4 characters for each.
FitsFrame(c) == \E digits \in 1 .. 3 : c.raw * (digits + 1) <= FrameMax
MayOverflow(c) == \E digits \in 1 .. 3 : c.raw * (digits + 1) > FrameMax

\* set_clipboard: a full queue drops the one that comes, and so does a size that is not accepted.
Receive ==
  /\ lane # <<>> /\ FitsFrame(Head(lane)) /\ lane' = Tail(lane)
  /\ \/ Len(pend) < PendCap /\ pend' = Append(pend, Head(lane).no) /\ UNCHANGED missed
     \/ /\ Len(pend) = PendCap \/ Head(lane).raw > 0
        /\ UNCHANGED pend /\ missed' = (missed \/ Head(lane).no = newest)
  /\ UNCHANGED <<clipSender, draining, clipped, linked, oversize, newest>>

\* read_enc_message returns None and the session ends, as it may for other reasons.  A thread keeps
\* the sender of its session, so what it has still to send goes nowhere.
SessionBreaks(large) ==
  /\ linked /\ linked' = FALSE /\ lane' = <<>>
  /\ sync' = [s \in Syncs |-> <<>>] /\ syncing' = {}
  /\ large => lane # <<>> /\ MayOverflow(Head(lane))
  /\ oversize' = (oversize \/ large)
  /\ missed' = (missed \/ lane # <<>> \/ syncing # {})
  /\ UNCHANGED <<copied, clipReceiver, newest>>

Relink ==
  /\ ~linked /\ linked' = TRUE
  /\ UNCHANGED <<clipSender, clipReceiver, lane, oversize, newest, missed>>

\* The writer thread: recv, then try_recv until the queue is empty, then the clipboard.
TakePending ==
  /\ draining = <<>> /\ pend # <<>> /\ draining' = <<Head(pend)>> /\ pend' = Tail(pend)
  /\ UNCHANGED <<clipSender, clipped, lane, linked, oversize, newest, missed>>

\* Mutation: the entry already taken stays.
DrainKeepsFirst ==
  /\ draining # <<>> /\ pend # <<>> /\ pend' = Tail(pend)
  /\ UNCHANGED <<clipSender, draining, clipped, lane, linked, oversize, newest, missed>>

Drain ==
  /\ draining # <<>> /\ pend # <<>> /\ draining' = <<Head(pend)>> /\ pend' = Tail(pend)
  /\ UNCHANGED <<clipSender, clipped, lane, linked, oversize, newest, missed>>

WriteClipboard ==
  /\ draining # <<>> /\ pend = <<>> /\ clipped' = draining[1] /\ draining' = <<>>
  /\ UNCHANGED <<clipSender, pend, lane, linked, oversize, newest, missed>>

\* The receiver's clipboard does not open.
ClipboardFails ==
  /\ draining # <<>> /\ pend = <<>> /\ draining' = <<>>
  /\ missed' = (missed \/ draining[1] = newest)
  /\ UNCHANGED <<clipSender, pend, clipped, lane, linked, oversize, newest>>

ClipNext ==
  \/ CopyNew
  \/ \E s \in Syncs : SyncClipboard(s) \/ ReadClipboard(s) \/ NothingToSync(s) \/ SendClipboard(s)
  \/ Receive \/ (\E large \in BOOLEAN : SessionBreaks(large)) \/ Relink
  \/ TakePending \/ Drain \/ WriteClipboard \/ ClipboardFails

ClipSpec == ClipInit /\ [][ClipNext]_clipVars

-----------------------------------------------------------------------------
\* When nothing is under way any more the receiver shows the newest content that was sent, unless that
\* one was dropped or an older one sent after it (lib.rs:375, "only the newest clipboard state matters").
ClipSettles ==
  syncing = {} /\ lane = <<>> /\ pend = <<>> /\ draining = <<>> /\ ~missed => clipped = newest

\* Sizes are limited where a content is sent, "so a large paste never closes the
\* session on the receiver" (protocol.rs:245).
LargePasteKeepsSession == ~oversize

=============================================================================
