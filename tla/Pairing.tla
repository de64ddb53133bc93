------------------------------ MODULE Pairing ------------------------------
\* The pairing prompt: one handshake after another (the slot of the controller admits
\* one at a time) asks the user and waits 60 s; accept_pairing and
\* reject_pairing record the decision and then send it to whoever is asking.
CONSTANTS
  Prompts,  \* handshakes that come to ask, each shows its own prompt
  Clicks    \* answers the user gives

NoPrompt == "noprompt"

ASSUME PairingAssumption == NoPrompt \notin Prompts

VARIABLES
  ask,       \* where each handshake is
  pending,   \* pending_pairing: whose sender it holds
  last,      \* last_pairing_response
  heard,    \* what the channel of each handshake carries
  accepted,  \* the outcome of each
  shown,     \* the prompt on the screen
  click,     \* where the command of each click is
  said, about,  \* what each click says, and to which prompt
  recorded,  \* history: prompts whose click was recorded before they gave up on the user
  crossed    \* history: a click answered a prompt it was not made for

askVars     == <<ask, heard, accepted>>
promptVars  == <<pending, last, shown>>
clickVars   == <<click, said, about>>
pairingVars == <<askVars, promptVars, clickVars, recorded, crossed>>

Decisions == {"none", "yes", "no"}

\* Every variable has a value the code can give it (state.rs:254, 258).
PairingTypeOK ==
  /\ ask \in [Prompts -> {"new", "entering", "clearing", "asking", "elapsed", "leaving",
                          "forgetting", "over"}]
  /\ {pending, shown} \subseteq Prompts \cup {NoPrompt} /\ last \in Decisions
  /\ heard \in [Prompts -> Decisions] /\ accepted \in [Prompts -> BOOLEAN]
  /\ click \in [Clicks -> {"new", "recorded", "sent"}] /\ said \in [Clicks -> Decisions]
  /\ about \in [Clicks -> Prompts \cup {NoPrompt}]
  /\ recorded \subseteq Prompts /\ crossed \in BOOLEAN
  /\ shown # NoPrompt => ask[shown] \notin {"new", "entering", "clearing"}

PairingInit ==
  /\ ask = [h \in Prompts |-> "new"] /\ pending = NoPrompt /\ last = "none"
  /\ heard = [h \in Prompts |-> "none"] /\ accepted = [h \in Prompts |-> FALSE]
  /\ shown = NoPrompt /\ click = [c \in Clicks |-> "new"]
  /\ said = [c \in Clicks |-> "none"] /\ about = [c \in Clicks |-> NoPrompt]
  /\ recorded = {} /\ crossed = FALSE

AskTo(h, step) == ask' = [ask EXCEPT ![h] = step]

\* One handshake at a time; refused while a pairing is pending.
Check(h) ==
  /\ ask[h] = "new" /\ \A g \in Prompts : ask[g] \in {"new", "over"}
  /\ AskTo(h, IF pending = NoPrompt THEN "entering" ELSE "over")
  /\ UNCHANGED <<heard, accepted, promptVars, clickVars, recorded, crossed>>

EnterSender(h) ==
  /\ ask[h] = "entering" /\ AskTo(h, "clearing") /\ pending' = h
  /\ UNCHANGED <<heard, accepted, last, shown, clickVars, recorded, crossed>>

\* A stale decision is cleared, then the prompt is shown.
ShowPrompt(h) ==
  /\ ask[h] = "clearing" /\ AskTo(h, "asking") /\ last' = "none" /\ shown' = h
  /\ UNCHANGED <<heard, accepted, pending, clickVars, recorded, crossed>>

\* The answer arrives in time.
Hear(h) ==
  /\ ask[h] = "asking" /\ heard[h] # "none" /\ AskTo(h, "leaving")
  /\ accepted' = [accepted EXCEPT ![h] = heard[h] = "yes"]
  /\ UNCHANGED <<heard, promptVars, clickVars, recorded, crossed>>

\* 60 s without one.
Elapse(h) ==
  /\ ask[h] = "asking" /\ heard[h] = "none" /\ AskTo(h, "elapsed")
  /\ UNCHANGED <<heard, accepted, promptVars, clickVars, recorded, crossed>>

\* Mutation: a timeout is a refusal, whatever was recorded.
FallBackRefuses(h) ==
  /\ ask[h] = "elapsed" /\ AskTo(h, "leaving") /\ last' = "none"
  /\ UNCHANGED <<heard, accepted, pending, shown, clickVars, recorded, crossed>>

\* Mutation: no decision counts as one.
FallBackDefaultsYes(h) ==
  /\ ask[h] = "elapsed" /\ AskTo(h, "leaving") /\ last' = "none"
  /\ accepted' = [accepted EXCEPT ![h] = last # "no"]
  /\ UNCHANGED <<heard, pending, shown, clickVars, recorded, crossed>>

\* A decision recorded by now is honoured.
FallBack(h) ==
  /\ ask[h] = "elapsed" /\ AskTo(h, "leaving") /\ last' = "none"
  /\ accepted' = [accepted EXCEPT ![h] = last = "yes"]
  /\ UNCHANGED <<heard, pending, shown, clickVars, recorded, crossed>>

\* Mutation: the sender stays in pending_pairing.
LeaveKeepsPending(h) ==
  /\ ask[h] = "leaving" /\ AskTo(h, "forgetting")
  /\ UNCHANGED <<heard, accepted, promptVars, clickVars, recorded, crossed>>

Leave(h) ==
  /\ ask[h] = "leaving" /\ AskTo(h, "forgetting") /\ pending' = NoPrompt
  /\ UNCHANGED <<heard, accepted, last, shown, clickVars, recorded, crossed>>

Forget(h) ==
  /\ ask[h] = "forgetting" /\ AskTo(h, "over") /\ last' = "none"
  /\ UNCHANGED <<heard, accepted, pending, shown, clickVars, recorded, crossed>>

\* The user answers the prompt on the screen, which goes away.  That of a handshake that has
\* failed is closed by an event, until which it can be clicked.
Gone(h) == ask[h] \notin {"asking", "elapsed"}

Record(c) ==
  /\ click[c] = "new" /\ shown # NoPrompt /\ shown' = NoPrompt
  /\ \E d \in {"yes", "no"} : last' = d /\ said' = [said EXCEPT ![c] = d]
  /\ click' = [click EXCEPT ![c] = "recorded"] /\ about' = [about EXCEPT ![c] = shown]
  /\ recorded' = IF Gone(shown) THEN recorded ELSE recorded \cup {shown}
  /\ UNCHANGED <<askVars, pending, crossed>>

Send(c) ==
  /\ click[c] = "recorded" /\ click' = [click EXCEPT ![c] = "sent"]
  /\ pending' = NoPrompt
  /\ heard' = IF pending = NoPrompt THEN heard ELSE [heard EXCEPT ![pending] = said[c]]
  /\ crossed' = (crossed \/ pending \notin {about[c], NoPrompt})
  /\ UNCHANGED <<ask, accepted, last, shown, said, about, recorded>>

Asking(h) ==
  \/ Check(h) \/ EnterSender(h) \/ ShowPrompt(h) \/ Hear(h) \/ Elapse(h) \/ FallBack(h)
  \/ Leave(h) \/ Forget(h)

PairingNext ==
  \/ \E h \in Prompts : Asking(h)
  \/ \E c \in Clicks : Record(c) \/ Send(c)

PairingSpec == PairingInit /\ [][PairingNext]_pairingVars

-----------------------------------------------------------------------------
\* A device is paired only if the user said yes to its prompt, unless a click
\* made for an earlier prompt has answered it (server.rs:266 and 295).
PairedOnYes ==
  \A h \in Prompts : accepted[h] /\ ~crossed =>
    \E c \in Clicks : about[c] = h /\ said[c] = "yes"

\* A decision recorded before the handshake gave up counts, however the sending of it and
\* the timeout interleave (commands.rs:321, server.rs:292).
DecisionHonoured ==
  \A h \in recorded : ask[h] \in {"leaving", "forgetting", "over"} /\ ~crossed =>
    \E c \in Clicks : about[c] = h /\ (said[c] = "yes" <=> accepted[h])

\* A sender in pending_pairing belongs to a handshake that still waits or is
\* about to take it out: nobody else would, and every later pairing would be refused
\* (server.rs:258).
PendingHasPrompt ==
  pending # NoPrompt => ask[pending] \in {"clearing", "asking", "elapsed", "leaving"}

=============================================================================
