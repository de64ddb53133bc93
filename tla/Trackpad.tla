------------------------------ MODULE Trackpad ------------------------------
\* The phone trackpad: a web server started and stopped from the user interface,
\* and the phones connected to it.  start and stop are sequences of stores to
\* separate fields, and may run at the same time as each other and as the
\* connections of any server started so far.
EXTENDS Naturals, FiniteSets

CONSTANTS
  Servers,   \* calls of start, each with a port and a token of its own
  Phones,
  Wrap       \* trackpad_clients counts modulo this (2^32 in the code)

NoServer == "noserver"

\* Fewer phones than the counter can count.
ASSUME PadAssumption ==
  /\ NoServer \notin Servers /\ IsFiniteSet(Phones)
  /\ Wrap \in Nat /\ Cardinality(Phones) < Wrap

VARIABLES
  port,      \* trackpad_port: whose port, or none
  token,     \* trackpad_token
  shutdown,  \* trackpad_shutdown: whose sender it holds
  clients,   \* trackpad_clients
  server,    \* where each start, and then its accept loop, is
  stopped,   \* accept loops whose sender has fired or been dropped
  stopper,   \* where stop is
  phone,     \* where the connection of each phone is
  cutOff     \* history: the count was reset while a phone was connected

sharedVars == <<port, token, shutdown, clients>>
padVars    == <<sharedVars, server, stopped, stopper, phone, cutOff>>

StartSteps == {"new", "binding", "token", "port", "count", "sender", "running", "over"}

\* Every variable has a value the code can give it (state.rs:281).
PadTypeOK ==
  /\ {port, token, shutdown} \subseteq Servers \cup {NoServer}
  /\ clients \in 0..(Wrap - 1) /\ server \in [Servers -> StartSteps]
  /\ stopped \subseteq Servers /\ stopper \in {"idle", "port", "count", "token"} /\ cutOff \in BOOLEAN
  /\ phone \in [Phones -> {"away", "request", "upgrading", "open"}]

PadInit ==
  /\ port = NoServer /\ token = NoServer /\ shutdown = NoServer /\ clients = 0
  /\ server = [s \in Servers |-> "new"] /\ stopped = {} /\ stopper = "idle"
  /\ phone = [p \in Phones |-> "away"] /\ cutOff = FALSE

ServerTo(s, step) == server' = [server EXCEPT ![s] = step]
PhoneTo(p, step)  == phone' = [phone EXCEPT ![p] = step]
Open == {p \in Phones : phone[p] = "open"}

\* Mutation: only a sender that fires stops the loop.
PutShutdownFiresOnly(new) ==
  /\ shutdown' = new
  /\ stopped' = IF new = NoServer THEN stopped \cup ({shutdown} \ {NoServer}) ELSE stopped

\* The sender in trackpad_shutdown is replaced; dropping it stops its loop as
\* firing it does.
PutShutdown(new) ==
  /\ shutdown' = new
  /\ stopped' = stopped \cup ({shutdown} \ {NoServer})

\* start: refused while a port is set; binding is an await.
Start(s) ==
  /\ server[s] = "new" /\ port = NoServer /\ ServerTo(s, "binding")
  /\ UNCHANGED <<sharedVars, stopped, stopper, phone, cutOff>>

Bound(s) ==
  /\ server[s] = "binding" /\ (ServerTo(s, "token") \/ ServerTo(s, "over"))
  /\ UNCHANGED <<sharedVars, stopped, stopper, phone, cutOff>>

SetToken(s) ==
  /\ server[s] = "token" /\ token' = s /\ ServerTo(s, "port")
  /\ UNCHANGED <<port, shutdown, clients, stopped, stopper, phone, cutOff>>

SetPort(s) ==
  /\ server[s] = "port" /\ port' = s /\ ServerTo(s, "count")
  /\ UNCHANGED <<token, shutdown, clients, stopped, stopper, phone, cutOff>>

\* The count of phones starts again, connected or not.
ResetCount == clients' = 0 /\ cutOff' = (cutOff \/ Open # {})

CountFromZero(s) ==
  /\ server[s] = "count" /\ ResetCount /\ ServerTo(s, "sender")
  /\ UNCHANGED <<port, token, shutdown, stopped, stopper, phone>>

Serve(s) ==
  /\ server[s] = "sender" /\ PutShutdown(s) /\ ServerTo(s, "running")
  /\ UNCHANGED <<port, token, clients, stopper, phone, cutOff>>

\* stop: the sender fires, then port, count and token are cleared.
Stop ==
  /\ stopper = "idle" /\ stopper' = "port" /\ PutShutdown(NoServer)
  /\ UNCHANGED <<port, token, clients, server, phone, cutOff>>

ClearPort ==
  /\ stopper = "port" /\ stopper' = "count" /\ port' = NoServer
  /\ UNCHANGED <<token, shutdown, clients, server, stopped, phone, cutOff>>

ClearCount ==
  /\ stopper = "count" /\ stopper' = "token" /\ ResetCount
  /\ UNCHANGED <<port, token, shutdown, server, stopped, phone>>

ClearToken ==
  /\ stopper = "token" /\ stopper' = "idle" /\ token' = NoServer
  /\ UNCHANGED <<port, shutdown, clients, server, stopped, phone, cutOff>>

\* The accept loop ends at the shutdown, or when accepting fails; connections
\* it has accepted go on.
LoopEnds(s) ==
  /\ server[s] = "running" /\ ServerTo(s, "over")
  /\ UNCHANGED <<sharedVars, stopped, stopper, phone, cutOff>>

Accept(p) ==
  /\ phone[p] = "away" /\ \E s \in Servers : server[s] = "running"
  /\ PhoneTo(p, "request")
  /\ UNCHANGED <<sharedVars, server, stopped, stopper, cutOff>>

\* The request shows the token of some server; it is compared with the current one.
CheckToken(p) ==
  /\ phone[p] = "request"
  /\ \/ token # NoServer /\ PhoneTo(p, "upgrading")
     \/ PhoneTo(p, "away")
  /\ UNCHANGED <<sharedVars, server, stopped, stopper, cutOff>>

\* fetch_add and fetch_sub wrap around.
CountUp   == clients' = IF clients = Wrap - 1 THEN 0 ELSE clients + 1
CountDown == clients' = IF clients = 0 THEN Wrap - 1 ELSE clients - 1

\* handle_ws counts the phone; the upgrade may fail before that.
Connect(p) ==
  /\ phone[p] = "upgrading"
  /\ \/ PhoneTo(p, "open") /\ CountUp
     \/ PhoneTo(p, "away") /\ UNCHANGED clients
  /\ UNCHANGED <<port, token, shutdown, server, stopped, stopper, cutOff>>

HangUp(p) ==
  /\ phone[p] = "open" /\ PhoneTo(p, "away") /\ CountDown
  /\ UNCHANGED <<port, token, shutdown, server, stopped, stopper, cutOff>>

Starting(s) ==
  Start(s) \/ Bound(s) \/ SetToken(s) \/ SetPort(s) \/ CountFromZero(s) \/ Serve(s)
Stopping == Stop \/ ClearPort \/ ClearCount \/ ClearToken

PadNext ==
  \/ \E s \in Servers : Starting(s) \/ LoopEnds(s)
  \/ Stopping
  \/ \E p \in Phones : Accept(p) \/ CheckToken(p) \/ Connect(p) \/ HangUp(p)

PadSpec == PadInit /\ [][PadNext]_padVars

-----------------------------------------------------------------------------
\* At most one accept loop runs that has not been told to stop, although two
\* starts may both find no port set; and that one can still be stopped, its
\* sender being the one in trackpad_shutdown (trackpad.rs:53 and 71).
OneServer ==
  \A s \in Servers : server[s] = "running" /\ s \notin stopped => shutdown = s

\* The count is the number of phones connected, unless it was reset
\* under a connected phone (state.rs:284).
CountsPhones == ~cutOff => clients = Cardinality(Open)

=============================================================================
