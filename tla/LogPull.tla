------------------------------ MODULE LogPull ------------------------------
\* Pulling the log of the peer: request_peer_logs on the machine that opened the session,
\* resolve_log_request in the read loop of the other one, and the user who is
\* asked there.  Sessions come and go; a read loop that is asking its user does not
\* notice before the user answers or the time is up.
EXTENDS Naturals, Sequences

CONSTANTS
  Pulls,       \* calls of request_peer_logs
  MaxSession   \* bound on the number of sessions

NoPull == "nopull"
NoLoop == 0

ASSUME LogAssumption == MaxSession \in Nat \ {0} /\ NoPull \notin Pulls

VARIABLES
  pull,       \* where each call is
  pullSlot,       \* pending_log_pull: whose sender it holds
  got,        \* the reply each call's channel carries
  current,    \* the latest session
  link,       \* net_tx is there, or the session's clean-up is under way
  requests,   \* LogRequests of the session under way
  replies,    \* its LogShares under way
  loop,       \* where the read loop of each session is at the other machine
  asks,       \* the request it has read
  prompt,     \* pending_log_request: the loop whose sender it holds
  choice,     \* what that loop's channel carries
  recent,     \* last_log_request is less than a minute old
  consent     \* history: the requests the user accepted in time

callVars  == <<pull, pullSlot, got>>
wireVars  == <<current, link, requests, replies>>
ownerVars == <<loop, asks, prompt, choice, recent, consent>>
logVars   == <<callVars, wireVars, ownerVars>>

Sessions == 1..MaxSession
Share    == [of : Pulls, text : {"log", "empty"}]
NoShare  == [of |-> NoPull, text |-> "empty"]

\* Every variable has a value the code can give it (state.rs:311).
LogTypeOK ==
  /\ pull \in [Pulls -> {"new", "checked", "waiting", "late", "over"}]
  /\ pullSlot \in Pulls \cup {NoPull} /\ got \in [Pulls -> Share \cup {NoShare}]
  /\ current \in Sessions /\ link \in {"up", "cleaning", "down"}
  /\ requests \in Seq(Pulls) /\ replies \in Seq(Share)
  /\ loop \in [Sessions -> {"reading", "checking", "asking", "expired", "over"}]
  /\ asks \in [Sessions -> Pulls \cup {NoPull}] /\ prompt \in Sessions \cup {NoLoop}
  /\ choice \in [Sessions -> {"none", "yes", "no"}]
  /\ recent \in BOOLEAN /\ consent \subseteq Pulls
  /\ \A s \in Sessions :
       asks[s] # NoPull <=> loop[s] \in {"checking", "asking", "expired"}

LogInit ==
  /\ pull = [p \in Pulls |-> "new"] /\ pullSlot = NoPull /\ got = [p \in Pulls |-> NoShare]
  /\ current = 1 /\ link = "up" /\ requests = <<>> /\ replies = <<>>
  /\ loop = [s \in Sessions |-> "reading"] /\ asks = [s \in Sessions |-> NoPull]
  /\ prompt = NoLoop /\ choice = [s \in Sessions |-> "none"]
  /\ recent = FALSE /\ consent = {}

PullTo(p, step) == pull' = [pull EXCEPT ![p] = step]
LoopTo(s, step) == loop' = [loop EXCEPT ![s] = step]
Up      == link = "up"
Live(s) == Up /\ s = current

\* request_peer_logs: refused without a session, or while the slot is taken.
Ask(p) ==
  /\ pull[p] = "new" /\ PullTo(p, IF Up /\ pullSlot = NoPull THEN "checked" ELSE "over")
  /\ UNCHANGED <<pullSlot, got, wireVars, ownerVars>>

\* The sender is put into the slot, replacing one put there since, and the request
\* is sent if there is still a session.
EnterSlot(p) ==
  /\ pull[p] = "checked" /\ PullTo(p, "waiting") /\ pullSlot' = p
  /\ requests' = IF Up THEN Append(requests, p) ELSE requests
  /\ UNCHANGED <<got, current, link, replies, ownerVars>>

\* LogShare goes to whoever is in the slot, or is discarded.
ReceiveShare ==
  /\ replies # <<>> /\ replies' = Tail(replies) /\ pullSlot' = NoPull
  /\ got' = IF pullSlot = NoPull THEN got ELSE [got EXCEPT ![pullSlot] = Head(replies)]
  /\ UNCHANGED <<pull, current, link, requests, ownerVars>>

Answered(p) ==
  /\ pull[p] = "waiting" /\ got[p] # NoShare /\ PullTo(p, "over")
  /\ UNCHANGED <<pullSlot, got, wireVars, ownerVars>>

\* The sender was dropped: the slot is emptied, whoever is in it by now.
Closed(p) ==
  /\ pull[p] = "waiting" /\ got[p] = NoShare /\ pullSlot # p
  /\ PullTo(p, "over") /\ pullSlot' = NoPull
  /\ UNCHANGED <<got, wireVars, ownerVars>>

\* 65 s are over; the slot is emptied in a step of its own.
TimesOut(p) ==
  /\ pull[p] = "waiting" /\ got[p] = NoShare /\ PullTo(p, "late")
  /\ UNCHANGED <<pullSlot, got, wireVars, ownerVars>>

\* Mutation: a call that times out leaves its sender in the slot.
GiveUpKeepsSlot(p) ==
  /\ pull[p] = "late" /\ PullTo(p, "over")
  /\ UNCHANGED <<pullSlot, got, wireVars, ownerVars>>

GiveUp(p) ==
  /\ pull[p] = "late" /\ PullTo(p, "over") /\ pullSlot' = NoPull
  /\ UNCHANGED <<got, wireVars, ownerVars>>

\* The session ends: net_tx is dropped, then the slot is emptied.
EndSession ==
  /\ Up /\ link' = "cleaning" /\ requests' = <<>> /\ replies' = <<>>
  /\ UNCHANGED <<callVars, current, ownerVars>>

CleanSlot ==
  /\ link = "cleaning" /\ link' = "down" /\ pullSlot' = NoPull
  /\ UNCHANGED <<pull, got, current, requests, replies, ownerVars>>

NewSession ==
  /\ link = "down" /\ current < MaxSession /\ link' = "up" /\ current' = current + 1
  /\ UNCHANGED <<callVars, requests, replies, ownerVars>>

\* The read loop of a session that is over ends; its clean-up empties
\* pending_log_request, whoever is in it.
ReaderEnds(s) ==
  /\ loop[s] = "reading" /\ s <= current /\ ~Live(s)
  /\ LoopTo(s, "over") /\ prompt' = NoLoop
  /\ UNCHANGED <<callVars, wireVars, asks, choice, recent, consent>>

\* The reply of a read loop whose session has ended reaches nobody.
Reply(s, text) ==
  /\ LoopTo(s, "reading") /\ asks' = [asks EXCEPT ![s] = NoPull]
  /\ replies' = IF Live(s) THEN Append(replies, [of |-> asks[s], text |-> text])
                ELSE replies

\* resolve_log_request: at most one request a minute gets further.
ReadRequest(s) ==
  /\ Live(s) /\ loop[s] = "reading" /\ requests # <<>>
  /\ requests' = Tail(requests) /\ recent' = TRUE
  /\ IF recent
     THEN replies' = Append(replies, [of |-> Head(requests), text |-> "empty"])
          /\ UNCHANGED <<loop, asks>>
     ELSE LoopTo(s, "checking") /\ asks' = [asks EXCEPT ![s] = Head(requests)]
          /\ UNCHANGED replies
  /\ UNCHANGED <<callVars, current, link, prompt, choice, consent>>

\* Nothing may be pending; then the user is asked.
Prompt(s) ==
  /\ loop[s] = "checking" /\ prompt = NoLoop /\ prompt' = s /\ LoopTo(s, "asking")
  /\ choice' = [choice EXCEPT ![s] = "none"]
  /\ UNCHANGED <<callVars, wireVars, asks, recent, consent>>

AlreadyPending(s) ==
  /\ loop[s] = "checking" /\ prompt # NoLoop /\ Reply(s, "empty")
  /\ UNCHANGED <<callVars, current, link, requests, prompt, choice, recent, consent>>

\* accept_log_request and reject_log_request answer whoever is asking.
UserDecides ==
  /\ prompt # NoLoop /\ prompt' = NoLoop
  /\ \/ /\ choice' = [choice EXCEPT ![prompt] = "yes"]
        /\ consent' = consent \cup {asks[s] : s \in {t \in {prompt} : loop[t] = "asking"}}
     \/ choice' = [choice EXCEPT ![prompt] = "no"] /\ UNCHANGED consent
  /\ UNCHANGED <<callVars, wireVars, loop, asks, recent>>

Decided(s) ==
  /\ loop[s] = "asking" /\ choice[s] # "none"
  /\ Reply(s, IF choice[s] = "yes" THEN "log" ELSE "empty")
  /\ UNCHANGED <<callVars, current, link, requests, prompt, choice, recent, consent>>

\* 60 s without an answer, or the sender was dropped; then the slot is emptied.
Expires(s) ==
  /\ loop[s] = "asking" /\ choice[s] = "none" /\ LoopTo(s, "expired")
  /\ UNCHANGED <<callVars, wireVars, asks, prompt, choice, recent, consent>>

\* Mutation: what came too late still counts, or nothing counts as consent.
RefuseDefaultsYes(s) ==
  /\ loop[s] = "expired" /\ prompt' = NoLoop /\ Reply(s, "log")
  /\ UNCHANGED <<callVars, current, link, requests, choice, recent, consent>>

RefusePull(s) ==
  /\ loop[s] = "expired" /\ prompt' = NoLoop /\ Reply(s, "empty")
  /\ UNCHANGED <<callVars, current, link, requests, choice, recent, consent>>

MinutePasses ==
  /\ recent /\ recent' = FALSE
  /\ UNCHANGED <<callVars, wireVars, loop, asks, prompt, choice, consent>>

Calling(p) == Ask(p) \/ EnterSlot(p) \/ Answered(p) \/ Closed(p) \/ TimesOut(p) \/ GiveUp(p)
Resolving(s) ==
  ReadRequest(s) \/ Prompt(s) \/ AlreadyPending(s) \/ Decided(s) \/ Expires(s) \/ RefusePull(s)
  \/ ReaderEnds(s)

LogNext ==
  \/ \E p \in Pulls : Calling(p)
  \/ \E s \in Sessions : Resolving(s)
  \/ ReceiveShare \/ UserDecides \/ MinutePasses \/ EndSession \/ CleanSlot
  \/ NewSession

LogSpec == LogInit /\ [][LogNext]_logVars

-----------------------------------------------------------------------------
\* No log leaves the machine unless its user accepted that very request before the time was
\* up, whatever sessions came and went (protocol.rs:107, "NEVER exfiltrates logs without
\* explicit per-request user consent").
SharedWithConsent ==
  /\ \A i \in 1..Len(replies) : replies[i].text = "log" => replies[i].of \in consent
  /\ \A p \in Pulls : got[p].text = "log" => got[p].of \in consent

\* Whoever is in pending_log_pull still waits or is about to leave it, and so is the read loop whose prompt is up:
\* otherwise every later call would be told that one is in progress (commands.rs:780), every
\* later request refused (server.rs:897).
SlotsHaveOwners ==
  /\ pullSlot # NoPull => pull[pullSlot] \in {"waiting", "late"}
  /\ prompt # NoLoop => loop[prompt] \in {"asking", "expired"}

\* A reply that comes after the call that asked has given up "is discarded cleanly"
\* (commands.rs:757) and not taken for the answer to a later call.
LateSharesDiscarded ==
  [][ \A p \in Pulls : got'[p] # got[p] => pull[got'[p].of] # "over" ]_logVars

=============================================================================
