---------------------------- MODULE CounterProofs ----------------------------
\* Theorems about two counters of a fixed width: the phones that are connected to the trackpad
\* server, and the nonces of the encrypted channel.  For any calls of start, any phones and any width.
EXTENDS Trackpad, SecureChannel, FiniteSetTheorems, TLAPS

-----------------------------------------------------------------------------
(* The phone trackpad.                                                       *)

PadInv == PadTypeOK /\ OneServer /\ CountsPhones

\* The phones connected can be counted without wrapping around.
LEMMA OpenFinite ==
  /\ IsFiniteSet(Open) /\ Cardinality(Open) \in Nat
  /\ Cardinality(Open) < Wrap
<1>1. IsFiniteSet(Open) /\ Cardinality(Open) <= Cardinality(Phones)
  BY PadAssumption, FS_Subset DEF Open
<1>2. Cardinality(Open) \in Nat /\ Cardinality(Phones) \in Nat
  BY <1>1, PadAssumption, FS_CardinalityType
<1> QED
  BY <1>1, <1>2, PadAssumption

\* Wherever start, stop and the phones are, each store keeps the types.
LEMMA PadTypeStep == PadTypeOK /\ [PadNext]_padVars => PadTypeOK'
<1> SUFFICES ASSUME PadTypeOK, [PadNext]_padVars PROVE PadTypeOK'
  OBVIOUS
<1>0. Wrap \in Nat /\ Wrap > 0
  BY OpenFinite, PadAssumption
<1> USE <1>0 DEF PadTypeOK, ServerTo, PhoneTo, StartSteps, PutShutdown, ResetCount, sharedVars
<1>1. ASSUME NEW s \in Servers, Starting(s) \/ LoopEnds(s) PROVE PadTypeOK'
  <2>1. CASE Start(s) \/ Bound(s) \/ LoopEnds(s)
    BY <2>1 DEF Start, Bound, LoopEnds
  <2>2. CASE SetToken(s) \/ SetPort(s)
    BY <2>2 DEF SetToken, SetPort
  <2>3. CASE CountFromZero(s)
    <3>1. cutOff' \in BOOLEAN /\ clients' \in 0..(Wrap - 1)
      BY <2>3 DEF CountFromZero
    <3> QED BY <2>3, <3>1 DEF CountFromZero
  <2>4. CASE Serve(s)
    BY <2>4 DEF Serve
  <2> QED BY <1>1, <2>1, <2>2, <2>3, <2>4 DEF Starting
<1>2. CASE Stopping
  <2>1. CASE Stop
    BY <2>1 DEF Stop
  <2>2. CASE ClearCount
    <3>1. cutOff' \in BOOLEAN /\ clients' \in 0..(Wrap - 1)
      BY <2>2 DEF ClearCount
    <3> QED BY <2>2, <3>1 DEF ClearCount
  <2>3. CASE ClearPort \/ ClearToken
    BY <2>3 DEF ClearPort, ClearToken
  <2> QED BY <1>2, <2>1, <2>2, <2>3 DEF Stopping
<1>3. ASSUME NEW p \in Phones, Accept(p) \/ CheckToken(p) PROVE PadTypeOK'
  BY <1>3 DEF Accept, CheckToken
<1>4. ASSUME NEW p \in Phones, Connect(p) \/ HangUp(p) PROVE PadTypeOK'
  <2>1. clients' \in 0..(Wrap - 1)
    BY <1>4 DEF Connect, HangUp, CountUp, CountDown
  <2> QED BY <1>4, <2>1 DEF Connect, HangUp
<1>5. CASE UNCHANGED padVars
  BY <1>5 DEF padVars
<1> QED
  BY <1>1, <1>2, <1>3, <1>4, <1>5 DEF PadNext

\* The sender that is replaced stops its loop, so the loop whose sender is in
\* trackpad_shutdown is the only one left.
LEMMA ServerStep == PadTypeOK /\ OneServer /\ [PadNext]_padVars => OneServer'
<1> SUFFICES ASSUME PadTypeOK, OneServer, [PadNext]_padVars PROVE OneServer'
  OBVIOUS
<1> USE PadAssumption DEF PadTypeOK, OneServer, ServerTo, PutShutdown, sharedVars
<1>1. ASSUME NEW s \in Servers, Starting(s) \/ LoopEnds(s) PROVE OneServer'
  BY <1>1 DEF Starting, Start, Bound, SetToken, SetPort, CountFromZero, Serve, LoopEnds
<1>2. CASE Stopping
  BY <1>2 DEF Stopping, Stop, ClearPort, ClearCount, ClearToken
<1>3. ASSUME NEW p \in Phones, Accept(p) \/ CheckToken(p) \/ Connect(p) \/ HangUp(p)
      PROVE OneServer'
  BY <1>3 DEF Accept, CheckToken, Connect, HangUp
<1>4. CASE UNCHANGED padVars
  BY <1>4 DEF padVars
<1> QED
  BY <1>1, <1>2, <1>3, <1>4 DEF PadNext

\* A phone is counted as it enters Open and counted off as it leaves; a reset
\* under a connected phone is remembered.
LEMMA CountStep == PadTypeOK /\ CountsPhones /\ [PadNext]_padVars => CountsPhones'
<1> SUFFICES ASSUME PadTypeOK, CountsPhones, [PadNext]_padVars PROVE CountsPhones'
  OBVIOUS
<1> USE DEF PhoneTo
<1>1. ASSUME Open' = Open, UNCHANGED <<clients, cutOff>> PROVE CountsPhones'
  BY <1>1 DEF CountsPhones
<1>2. ASSUME Open' = Open, ResetCount PROVE CountsPhones'
  BY <1>2, FS_EmptySet DEF CountsPhones, ResetCount, PadTypeOK
<1>3. ASSUME NEW p \in Phones, Connect(p) PROVE CountsPhones'
  <2>1. CASE PhoneTo(p, "open") /\ CountUp
    <3>1. Open' = Open \cup {p} /\ p \notin Open
      BY <1>3, <2>1 DEF Connect, Open, PadTypeOK
    <3>2. Cardinality(Open') = Cardinality(Open) + 1
      BY <3>1, OpenFinite, FS_AddElement
    <3>3. Cardinality(Open') < Wrap
      BY <3>1, PadAssumption, FS_Subset, FS_CardinalityType DEF Open
    <3>4. cutOff' = cutOff
      BY <1>3 DEF Connect
    <3> QED
      BY <2>1, <3>2, <3>3, <3>4, OpenFinite, PadAssumption DEF CountsPhones, CountUp
  <2>2. CASE PhoneTo(p, "away") /\ UNCHANGED clients
    <3>1. Open' = Open
      BY <1>3, <2>2 DEF Connect, Open, PadTypeOK
    <3> QED BY <1>1, <1>3, <2>2, <3>1 DEF Connect
  <2> QED BY <1>3, <2>1, <2>2 DEF Connect
<1>4. ASSUME NEW p \in Phones, HangUp(p) PROVE CountsPhones'
  <2>1. Open' = Open \ {p} /\ p \in Open
    BY <1>4 DEF HangUp, Open, PadTypeOK
  <2>2. Cardinality(Open') = Cardinality(Open) - 1 /\ Cardinality(Open) # 0
    BY <2>1, OpenFinite, FS_RemoveElement, FS_EmptySet
  <2> QED
    BY <1>4, <2>2, OpenFinite DEF HangUp, CountDown, CountsPhones
<1>5. ASSUME NEW p \in Phones, Accept(p) \/ CheckToken(p) PROVE CountsPhones'
  <2>1. Open' = Open
    BY <1>5 DEF Accept, CheckToken, Open, PadTypeOK
  <2> QED BY <1>1, <1>5, <2>1 DEF Accept, CheckToken, sharedVars
<1>6. ASSUME NEW s \in Servers, Starting(s) \/ LoopEnds(s) PROVE CountsPhones'
  <2>1. Open' = Open
    BY <1>6 DEF Starting, Start, Bound, SetToken, SetPort, CountFromZero, Serve,
       LoopEnds, Open
  <2>2. CASE CountFromZero(s)  BY <1>2, <2>1, <2>2 DEF CountFromZero
  <2>3. CASE ~CountFromZero(s)
    BY <1>1, <1>6, <2>1, <2>3
    DEF Starting, Start, Bound, SetToken, SetPort, Serve, LoopEnds, sharedVars
  <2> QED BY <2>2, <2>3
<1>7. CASE Stopping
  <2>1. Open' = Open
    BY <1>7 DEF Stopping, Stop, ClearPort, ClearCount, ClearToken, Open
  <2>2. CASE ClearCount  BY <1>2, <2>1, <2>2 DEF ClearCount
  <2>3. CASE Stop \/ ClearPort \/ ClearToken
    BY <1>1, <2>1, <2>3 DEF Stop, ClearPort, ClearToken
  <2> QED BY <1>7, <2>2, <2>3 DEF Stopping
<1>8. CASE UNCHANGED padVars
  BY <1>1, <1>8 DEF padVars, sharedVars, Open
<1> QED
  BY <1>3, <1>4, <1>5, <1>6, <1>7, <1>8 DEF PadNext

\* The invariant holds initially and is kept by every step.
THEOREM PadInvariance == PadSpec => []PadInv
<1>1. PadInit => PadInv
  <2> SUFFICES ASSUME PadInit PROVE PadInv
    OBVIOUS
  <2>1. Open = {}
    BY DEF PadInit, Open
  <2>2. Wrap \in Nat /\ Wrap > 0
    BY OpenFinite, PadAssumption
  <2>3. /\ server \in [Servers -> StartSteps]
        /\ phone \in [Phones -> {"away", "request", "upgrading", "open"}]
    BY DEF PadInit, StartSteps
  <2>4. clients \in 0..(Wrap - 1)
    BY <2>2 DEF PadInit
  <2>5. PadTypeOK
    BY <2>3, <2>4 DEF PadInit, PadTypeOK
  <2> QED
    BY <2>1, <2>5, FS_EmptySet DEF PadInit, PadInv, OneServer, CountsPhones
<1>2. PadInv /\ [PadNext]_padVars => PadInv'
  BY PadTypeStep, ServerStep, CountStep DEF PadInv
<1> QED
  BY <1>1, <1>2, PTL DEF PadSpec

-----------------------------------------------------------------------------
\* Type correctness, for any number of servers and phones (state.rs:281).
THEOREM PadTypeCorrect == PadSpec => []PadTypeOK
BY PadInvariance, PTL DEF PadInv

\* However many starts overlap, with each other or with stop, at most one loop has not
\* been told to stop, and stop reaches it (trackpad.rs:53).
THEOREM SingleServer == PadSpec => []OneServer
BY PadInvariance, PTL DEF PadInv

\* The count is right until it is reset under a connected phone (state.rs:284).
THEOREM CountCorrect == PadSpec => []CountsPhones
BY PadInvariance, PTL DEF PadInv

-----------------------------------------------------------------------------
(* The encrypted channel.                                                    *)

\* What was sealed carries the numbers below the counter, in the order of the calls.
Numbered ==
  /\ \A f \in sealed : f.ctr < nonceCtr /\ f.msg <= calls
  /\ \A f, g \in sealed : f.ctr < g.ctr => f.msg < g.msg

\* What was opened was sealed, with rising numbers up to the last one received.
Rising ==
  /\ \A i \in 1..Len(opened) : opened[i] \in sealed /\ opened[i].ctr < lastRecv
  /\ \A i, j \in 1..Len(opened) : i < j => opened[i].ctr < opened[j].ctr

ChannelInv == ChannelTypeOK /\ NonceOnce /\ Numbered /\ Rising

USE ChannelAssumption

-----------------------------------------------------------------------------
LEMMA ChannelStart == ChannelInit => ChannelInv
BY DEF ChannelInit, ChannelInv, ChannelTypeOK, NonceOnce, Numbered, Rising, NoFrame, Frame

\* seal adds a message with a new number, higher than all before.
LEMMA SealKeeps == ChannelInv /\ Seal => ChannelInv'
<1> SUFFICES ASSUME ChannelInv, Seal PROVE ChannelInv'
  OBVIOUS
<1> USE DEF ChannelInv
<1>1. CASE UNCHANGED <<nonceCtr, sealed>>
  <2>1. ChannelTypeOK' /\ NonceOnce' /\ Rising'
    BY <1>1 DEF Seal, ChannelTypeOK, NonceOnce, Rising
  <2>2. \A f \in sealed : f.msg \in Nat
    BY DEF ChannelTypeOK, Frame
  <2>3. Numbered'
    BY <1>1, <2>2 DEF Seal, Numbered, ChannelTypeOK
  <2> QED BY <2>1, <2>3
<1>2. CASE /\ nonceCtr < CtrMax /\ nonceCtr' = nonceCtr + 1
           /\ sealed' = sealed \cup {[ctr |-> nonceCtr, msg |-> calls + 1]}
  <2> DEFINE new == [ctr |-> nonceCtr, msg |-> calls + 1]
  <2>1. new \in Frame /\ calls' = calls + 1 /\ UNCHANGED <<lastRecv, opened>>
    BY <1>2 DEF Seal, ChannelTypeOK, Frame
  <2>2. \A f \in sealed : f.ctr < new.ctr /\ f.msg < new.msg /\ f.ctr \in Nat /\ f.msg \in Nat
    BY DEF Numbered, ChannelTypeOK, Frame
  <2>3. ChannelTypeOK'
    <3>1. nonceCtr' \in 0..CtrMax /\ calls' \in 0..MaxSends
      BY <1>2 DEF Seal, ChannelTypeOK
    <3>2. sealed' \subseteq Frame
      BY <1>2, <2>1 DEF ChannelTypeOK
    <3> QED BY <2>1, <3>1, <3>2 DEF ChannelTypeOK
  <2>4. NonceOnce'
    BY <1>2, <2>2 DEF NonceOnce
  <2>5. Numbered'
    BY <1>2, <2>1, <2>2 DEF Numbered, ChannelTypeOK
  <2>6. Rising'
    BY <1>2, <2>1 DEF Rising
  <2> QED BY <2>3, <2>4, <2>5, <2>6
<1> QED BY <1>1, <1>2 DEF Seal

\* open appends a message whose number is higher than all before.
LEMMA OpenKeeps == ChannelInv /\ OpenFrame => ChannelInv'
<1> SUFFICES ASSUME ChannelInv, NEW f \in sealed,
                    lastRecv = NoFrame \/ f.ctr + 1 > lastRecv,
                    lastRecv' = f.ctr + 1, opened' = Append(opened, f),
                    UNCHANGED <<nonceCtr, calls, sealed>>
             PROVE  ChannelInv'
  BY DEF OpenFrame
<1> USE DEF ChannelInv
<1>1. f \in Frame /\ opened \in Seq(Frame) /\ lastRecv \in Nat /\ f.ctr \in 0..(CtrMax - 1)
  BY DEF ChannelTypeOK, Frame
<1>2. ChannelTypeOK'
  BY <1>1 DEF ChannelTypeOK
<1>3. NonceOnce' /\ Numbered'
  BY DEF NonceOnce, Numbered
<1>4. Len(opened') = Len(opened) + 1 /\ opened'[Len(opened) + 1] = f
      /\ \A i \in 1..Len(opened) : opened'[i] = opened[i]
  BY <1>1
<1>5. \A i \in 1..Len(opened) : opened[i].ctr \in Nat /\ opened[i].ctr < f.ctr
  <2> SUFFICES ASSUME NEW i \in 1..Len(opened)
               PROVE  opened[i].ctr \in Nat /\ opened[i].ctr < f.ctr
    OBVIOUS
  <2>1. opened[i] \in Frame /\ opened[i].ctr < lastRecv
    BY <1>1 DEF Rising
  <2> QED BY <1>1, <2>1 DEF Frame, NoFrame
<1>6. Rising'
  <2>1. \A i \in 1..Len(opened') : opened'[i] \in sealed' /\ opened'[i].ctr < lastRecv'
    BY <1>1, <1>4, <1>5 DEF Rising
  <2>2. ASSUME NEW i \in 1..Len(opened'), NEW j \in 1..Len(opened'), i < j
        PROVE  opened'[i].ctr < opened'[j].ctr
    <3>1. i \in 1..Len(opened)
      BY <1>1, <1>4, <2>2
    <3>2. CASE j = Len(opened) + 1
      BY <1>4, <1>5, <3>1, <3>2
    <3>3. CASE j # Len(opened) + 1
      <4>1. j \in 1..Len(opened)
        BY <1>1, <1>4, <3>3
      <4> QED BY <1>4, <2>2, <3>1, <4>1 DEF Rising
    <3> QED BY <3>2, <3>3
  <2> QED BY <2>1, <2>2 DEF Rising
<1> QED BY <1>2, <1>3, <1>6

LEMMA ChannelInvariance == ChannelSpec => []ChannelInv
<1>1. ChannelInv /\ [ChannelNext]_channelVars => ChannelInv'
  <2>1. ChannelInv /\ UNCHANGED channelVars => ChannelInv'
    BY DEF ChannelInv, ChannelTypeOK, NonceOnce, Numbered, Rising, channelVars
  <2> QED BY <2>1, SealKeeps, OpenKeeps DEF ChannelNext
<1> QED BY <1>1, ChannelStart, PTL DEF ChannelSpec

-----------------------------------------------------------------------------
\* Type correctness for every width of the counter: it never passes its last
\* value (encryption.rs:42).
THEOREM ChannelTypeCorrect == ChannelSpec => []ChannelTypeOK
BY ChannelInvariance, PTL DEF ChannelInv

\* No nonce is used twice, however many messages seal is asked for
\* (encryption.rs:35).
THEOREM NoncesFresh == ChannelSpec => []NonceOnce
BY ChannelInvariance, PTL DEF ChannelInv

\* Whatever is lost, repeated or reordered under way, open returns messages in the order
\* they were sealed, none twice (encryption.rs:76).
THEOREM InOrder == ChannelSpec => []OpensInOrder
<1>1. ChannelInv => OpensInOrder
  BY DEF ChannelInv, Numbered, Rising, OpensInOrder
<1> QED BY <1>1, ChannelInvariance, PTL

=============================================================================
