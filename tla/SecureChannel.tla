--------------------------- MODULE SecureChannel ---------------------------
\* One direction of the encrypted channel: seal numbers each message with a counter that
\* is its nonce, open accepts a message only if its number is higher than that
\* of the last one.  The ciphers are a library; what is under way may be lost, repeated or
\* come out of order.  A message is named by its place in what the sender was asked to send.
EXTENDS Naturals, Sequences

CONSTANTS
  CtrMax,    \* the last value of nonce_ctr (u64::MAX in the code)
  MaxSends   \* bound on the calls of seal

ASSUME ChannelAssumption == CtrMax \in Nat \ {0} /\ MaxSends \in Nat \ {0}

NoFrame == 0

VARIABLES
  nonceCtr,  \* nonce_ctr
  lastRecv,  \* last_recv_ctr, plus one; 0 before anything was accepted
  calls,     \* calls of seal so far
  sealed,    \* history: the messages sealed, as records of number and content
  opened     \* history: what open has returned, in order

channelVars == <<nonceCtr, lastRecv, calls, sealed, opened>>

Frame == [ctr : 0..(CtrMax - 1), msg : 1..MaxSends]

\* Every variable has a value the code can give it (encryption.rs:15).
ChannelTypeOK ==
  /\ nonceCtr \in 0..CtrMax /\ lastRecv \in 0..CtrMax /\ calls \in 0..MaxSends
  /\ sealed \subseteq Frame /\ opened \in Seq(Frame)

ChannelInit ==
  nonceCtr = 0 /\ lastRecv = NoFrame /\ calls = 0 /\ sealed = {} /\ opened = <<>>

\* Mutation: the counter goes on past its last value.
SealWraps ==
  /\ calls < MaxSends /\ calls' = calls + 1
  /\ sealed' = sealed \cup {[ctr |-> nonceCtr % CtrMax, msg |-> calls + 1]}
  /\ nonceCtr' = (nonceCtr + 1) % CtrMax
  /\ UNCHANGED <<lastRecv, opened>>

\* seal: refused once the counter is used up; the counter only moves when
\* encrypting has worked.
Seal ==
  /\ calls < MaxSends /\ calls' = calls + 1
  /\ \/ /\ nonceCtr < CtrMax /\ nonceCtr' = nonceCtr + 1
        /\ sealed' = sealed \cup {[ctr |-> nonceCtr, msg |-> calls + 1]}
     \/ UNCHANGED <<nonceCtr, sealed>>
  /\ UNCHANGED <<lastRecv, opened>>

\* Mutation: a message may repeat the number of the last one.
OpenAgain ==
  \E f \in sealed :
    /\ lastRecv = NoFrame \/ f.ctr + 1 >= lastRecv
    /\ lastRecv' = f.ctr + 1 /\ opened' = Append(opened, f)
    /\ UNCHANGED <<nonceCtr, calls, sealed>>

\* open: any sealed message may arrive, and more than once.
OpenFrame ==
  \E f \in sealed :
    /\ lastRecv = NoFrame \/ f.ctr + 1 > lastRecv
    /\ lastRecv' = f.ctr + 1 /\ opened' = Append(opened, f)
    /\ UNCHANGED <<nonceCtr, calls, sealed>>

ChannelNext == Seal \/ OpenFrame

ChannelSpec == ChannelInit /\ [][ChannelNext]_channelVars

-----------------------------------------------------------------------------
\* No nonce is used for two messages, at the limit of the counter neither
\* (encryption.rs:35, "reusing a nonce with the same key is catastrophic").
NonceOnce == \A f, g \in sealed : f.ctr = g.ctr => f = g

\* What open returns is what was sealed, in the order it was sealed, nothing twice
\* (encryption.rs:16).
OpensInOrder ==
  \A i, j \in 1..Len(opened) : i < j => opened[i].msg < opened[j].msg

=============================================================================
