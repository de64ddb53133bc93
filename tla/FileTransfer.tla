---------------------------- MODULE FileTransfer ----------------------------
\* One file sent over the transfer port: send_files on one machine, handle_incoming
\* on the other, the user who answers the offer and the control session the
\* offer is tied to.  Sizes are counted in chunks.
EXTENDS Naturals, Sequences

CONSTANTS MaxChunks  \* bound on the size of a file

ASSUME TransferAssumption == MaxChunks \in Nat \ {0}

VARIABLES
  sender,      \* where send_files is
  sendStatus,  \* its entry in active_transfers
  size,        \* the size the sender has offered
  left,        \* what is left to read of the file it has opened
  read,        \* chunks read and sent
  receiver,    \* where handle_incoming is
  recvStatus,  \* its entry in active_transfers
  received,    \* chunks handed to the file
  disk,        \* the receiver's file; short: the last of them could not be written
  offer,       \* the entry of pending_offers
  answer,      \* what the user's answer channel carries
  session,     \* the sender is the connected_peer
  wire         \* the two directions of the stream, and whether it still carries

senderVars   == <<sender, sendStatus, size, left, read>>
receiverVars == <<receiver, recvStatus, received, disk, offer, answer>>
transferVars == <<senderVars, receiverVars, session, wire>>

Statuses == {"none", "pending", "active", "done", "error", "rejected"}
Requests == {"Auth", "FileOffer", "FileChunk", "FileComplete", "FileError"}
Answers  == {"AuthOk", "AuthFail", "FileAccept", "FileReject"}

\* Every variable has a value the code can give it (state.rs:250).
TransferTypeOK ==
  /\ sender \in {"auth", "offered", "opening", "sending",
                "completing", "failing", "over"}
  /\ receiver \in {"auth", "offer", "asking", "accepting", "creating", "writing", "over"}
  /\ {sendStatus, recvStatus} \subseteq Statuses
  /\ {size, left, read, received} \subseteq 0..MaxChunks
  /\ disk \in {"none", "file", "short", "removed"} /\ answer \in {"none", "yes", "no"}
  /\ {offer, session, wire.up} \subseteq BOOLEAN
  /\ wire.out \in Seq(Requests) /\ wire.back \in Seq(Answers)

TransferInit ==
  /\ sender = "auth" /\ sendStatus = "none" /\ size = 0 /\ left = 0 /\ read = 0
  /\ receiver = "auth" /\ recvStatus = "none" /\ received = 0 /\ disk = "none"
  /\ offer = FALSE /\ answer = "none" /\ session = TRUE
  /\ wire = [up |-> TRUE, out |-> <<"Auth">>, back |-> <<>>]

\* A task reads a message, or the end of a stream that is broken or that the
\* other task has closed; the latter after everything sent before.
SenderReads(m) == wire.back # <<>> /\ Head(wire.back) = m
SenderHearsEnd == wire.back = <<>> /\ (~wire.up \/ receiver = "over")
ReceiverReads(m) == wire.out # <<>> /\ Head(wire.out) = m
ReceiverHearsEnd == wire.out = <<>> /\ (~wire.up \/ sender = "over")

\* A message sent on a stream that has broken reaches nobody; the sender of a
\* message need not notice.
Sent(queue, m) == IF wire.up THEN Append(queue, m) ELSE queue

\* AuthOk: the size is read, the transfer is listed and offered.
SendOffer ==
  /\ sender = "auth" /\ SenderReads("AuthOk")
  /\ \E n \in 0..MaxChunks : size' = n
  /\ \/ /\ sender' = "offered" /\ sendStatus' = "pending"
        /\ wire' = [wire EXCEPT !.back = Tail(@), !.out = Sent(@, "FileOffer")]
     \/ /\ ~wire.up /\ sender' = "over" /\ sendStatus' = "error"
        /\ wire' = [wire EXCEPT !.back = Tail(@)]
  /\ UNCHANGED <<left, read, receiverVars, session>>

\* Not authenticated: nothing is listed.
SenderNotAllowed ==
  /\ sender = "auth" /\ sender' = "over"
  /\ \/ SenderReads("AuthFail") /\ wire' = [wire EXCEPT !.back = Tail(@)]
     \/ SenderHearsEnd /\ UNCHANGED wire
  /\ UNCHANGED <<sendStatus, size, left, read, receiverVars, session>>

SenderAccepted ==
  /\ sender = "offered" /\ SenderReads("FileAccept")
  /\ sender' = "opening" /\ sendStatus' = "active"
  /\ wire' = [wire EXCEPT !.back = Tail(@)]
  /\ UNCHANGED <<size, left, read, receiverVars, session>>

SenderRejected ==
  /\ sender = "offered" /\ sender' = "over" /\ sendStatus' = "rejected"
  /\ \/ SenderReads("FileReject") /\ wire' = [wire EXCEPT !.back = Tail(@)]
     \/ SenderHearsEnd /\ UNCHANGED wire
  /\ UNCHANGED <<size, left, read, receiverVars, session>>

\* The file may have changed since its size was read.
OpenFile ==
  /\ sender = "opening"
  /\ \/ sender' = "sending" /\ left' \in 0..MaxChunks /\ UNCHANGED sendStatus
     \/ sender' = "over" /\ sendStatus' = "error" /\ UNCHANGED left
  /\ UNCHANGED <<size, read, receiverVars, session, wire>>

\* Mutation: the end of the file is not looked for.
SendChunkPastEnd ==
  /\ sender = "sending"
  /\ left' = left - 1 /\ read' = read + 1
  /\ wire' = [wire EXCEPT !.out = Sent(@, "FileChunk")]
  /\ UNCHANGED <<sender, sendStatus, size, receiverVars, session>>

SendChunk ==
  /\ sender = "sending" /\ left > 0
  /\ left' = left - 1 /\ read' = read + 1
  /\ wire' = [wire EXCEPT !.out = Sent(@, "FileChunk")]
  /\ UNCHANGED <<sender, sendStatus, size, receiverVars, session>>

\* Mutation: an error while reading is taken for the end of the file.
ReadFailsUnnoticed ==
  /\ sender = "sending" /\ sender' = "completing"
  /\ wire' = [wire EXCEPT !.out = Sent(@, "FileComplete")]
  /\ UNCHANGED <<sendStatus, size, left, read, receiverVars, session>>

\* Reading fails, at the end of the file too, or the stream has broken: FileError.
ReadFails ==
  /\ sender = "sending" /\ sender' = "failing"
  /\ wire' = [wire EXCEPT !.out = Sent(@, "FileError")]
  /\ UNCHANGED <<sendStatus, size, left, read, receiverVars, session>>

\* The end of the file; whether FileComplete could be sent is not looked at.
Complete ==
  /\ sender = "sending" /\ left = 0 /\ sender' = "completing"
  /\ wire' = [wire EXCEPT !.out = Sent(@, "FileComplete")]
  /\ UNCHANGED <<sendStatus, size, left, read, receiverVars, session>>

\* The sender's own entry follows the message.
ListEnd ==
  /\ sender \in {"completing", "failing"} /\ sender' = "over"
  /\ sendStatus' = IF sender = "completing" THEN "done" ELSE "error"
  /\ UNCHANGED <<size, left, read, receiverVars, session, wire>>

\* Auth: a known key, and the control session must be with this device.
CheckAuth ==
  /\ receiver = "auth" /\ ReceiverReads("Auth")
  /\ \/ /\ session /\ receiver' = "offer"
        /\ wire' = [wire EXCEPT !.out = Tail(@), !.back = Sent(@, "AuthOk")]
     \/ /\ receiver' = "over"
        /\ wire' = [wire EXCEPT !.out = Tail(@), !.back = Sent(@, "AuthFail")]
  /\ UNCHANGED <<senderVars, recvStatus, received, disk, offer, answer, session>>

\* FileOffer: the transfer is listed and the user asked.
AskUser ==
  /\ receiver = "offer" /\ ReceiverReads("FileOffer")
  /\ receiver' = "asking" /\ recvStatus' = "pending" /\ offer' = TRUE
  /\ wire' = [wire EXCEPT !.out = Tail(@)]
  /\ UNCHANGED <<senderVars, received, disk, answer, session>>

\* accept_transfer and reject_transfer take the offer out.
UserAnswers ==
  /\ offer /\ offer' = FALSE
  /\ answer' \in {"yes", "no"}
  /\ UNCHANGED <<senderVars, receiver, recvStatus, received, disk, session, wire>>

\* Mutation: no answer within the time counts as one.
OfferOverDefaultsYes ==
  /\ receiver = "asking" /\ answer \in {"yes", "none"}
  /\ receiver' = "accepting" /\ UNCHANGED <<recvStatus, wire>>
  /\ offer' = FALSE
  /\ UNCHANGED <<senderVars, received, disk, answer, session>>

\* The answer, or 60 s without one; then the offer is removed.
OfferOver ==
  /\ receiver = "asking"
  /\ \/ answer = "yes" /\ receiver' = "accepting" /\ UNCHANGED <<recvStatus, wire>>
     \/ /\ answer # "yes" /\ receiver' = "over" /\ recvStatus' = "rejected"
        /\ wire' = [wire EXCEPT !.back = Sent(@, "FileReject")]
  /\ offer' = FALSE
  /\ UNCHANGED <<senderVars, received, disk, answer, session>>

\* A FileAccept that cannot be sent leaves the entry pending.
AcceptOffer ==
  /\ receiver = "accepting"
  /\ \/ /\ receiver' = "creating" /\ recvStatus' = "active"
        /\ wire' = [wire EXCEPT !.back = Sent(@, "FileAccept")]
     \/ ~wire.up /\ receiver' = "over" /\ UNCHANGED <<recvStatus, wire>>
  /\ UNCHANGED <<senderVars, received, disk, offer, answer, session>>

CreateFile ==
  /\ receiver = "creating"
  /\ \/ receiver' = "writing" /\ disk' = "file" /\ UNCHANGED recvStatus
     \/ receiver' = "over" /\ recvStatus' = "error" /\ UNCHANGED disk
  /\ UNCHANGED <<senderVars, received, offer, answer, session, wire>>

\* write_all only hands a chunk to the file: that it could not be written comes out at the next
\* chunk, or at the flush.  That, like a chunk beyond the size offered, ends the transfer.
WriteChunk ==
  /\ receiver = "writing" /\ ReceiverReads("FileChunk")
  /\ wire' = [wire EXCEPT !.out = Tail(@)]
  /\ \/ /\ received < size /\ disk = "file" /\ received' = received + 1
        /\ disk' \in {"file", "short"} /\ UNCHANGED <<receiver, recvStatus>>
     \/ receiver' = "over" /\ recvStatus' = "error" /\ UNCHANGED <<received, disk>>
  /\ UNCHANGED <<senderVars, offer, answer, session>>

\* Whether the flush succeeds is not looked at.
FinishFile ==
  /\ receiver = "writing" /\ ReceiverReads("FileComplete")
  /\ receiver' = "over" /\ recvStatus' = "done" /\ wire' = [wire EXCEPT !.out = Tail(@)]
  /\ UNCHANGED <<senderVars, received, disk, offer, answer, session>>

DiscardFile ==
  /\ receiver = "writing" /\ ReceiverReads("FileError")
  /\ receiver' = "over" /\ recvStatus' = "error" /\ disk' = "removed"
  /\ wire' = [wire EXCEPT !.out = Tail(@)]
  /\ UNCHANGED <<senderVars, received, offer, answer, session>>

\* Anything else ends the task and leaves its entry and its file as they are.
ReceiverStops ==
  /\ receiver \in {"auth", "offer", "writing"} /\ ReceiverHearsEnd /\ receiver' = "over"
  /\ UNCHANGED <<senderVars, recvStatus, received, disk, offer, answer, session, wire>>

\* The stream breaks; what is under way in each direction is cut off somewhere.
Break ==
  /\ wire.up
  /\ \E m \in 0..Len(wire.out), n \in 0..Len(wire.back) :
       wire' = [up |-> FALSE, out |-> SubSeq(wire.out, 1, m),
                back |-> SubSeq(wire.back, 1, n)]
  /\ UNCHANGED <<senderVars, receiverVars, session>>

\* The control session comes and goes meanwhile.
SessionChanges ==
  /\ session' = ~session /\ UNCHANGED <<senderVars, receiverVars, wire>>

SenderStep ==
  \/ SendOffer \/ SenderNotAllowed \/ SenderAccepted \/ SenderRejected
  \/ OpenFile \/ SendChunk \/ ReadFails \/ Complete
  \/ ListEnd
ReceiverStep ==
  \/ CheckAuth \/ AskUser \/ OfferOver \/ AcceptOffer \/ CreateFile
  \/ WriteChunk \/ FinishFile \/ DiscardFile \/ ReceiverStops

TransferNext == SenderStep \/ ReceiverStep \/ UserAnswers \/ Break \/ SessionChanges

TransferSpec == TransferInit /\ [][TransferNext]_transferVars

-----------------------------------------------------------------------------
\* A file that is reported done has been taken to its end by both sides: every chunk the
\* sender read was handed to it, however the stream broke and whichever side failed on
\* the way, and all of them are on the disk but the last, if it is the one whose write
\* failed: that error is the flush's, which is discarded (transfer.rs:196-197).
DoneIsWhole ==
  recvStatus = "done" =>
    /\ received = read /\ left = 0 /\ sendStatus # "error"
    /\ disk = "file" \/ (disk = "short" /\ read > 0)

\* Nothing is on the disk unless the user said yes while the offer stood, a file whose offer was turned down
\* is never sent (transfer.rs:121), and no more is written than the user accepted, even if
\* the file grew while the user was asked (transfer.rs:182).
ConsentFirst ==
  /\ disk # "none" \/ sendStatus = "active" \/ read > 0 => answer = "yes"
  /\ recvStatus = "rejected" => sender # "sending" /\ disk = "none"
  /\ received <= size

=============================================================================
