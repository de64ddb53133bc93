------------------------------- MODULE MCParts -------------------------------
\* Components that share no state, checked side by side: the first state says which
\* of them runs and the others stay as they start, so the states to visit are
\* the sum of theirs and not the product.
EXTENDS MCReturnEdge, MCScreenCrossing, RelayGuard, RelayRooms, FileTransfer, Trackpad,
        Pairing, SecureChannel, LogPull

VARIABLE part

\* What stays as it is while one part runs.
smallVars == <<roomVars, transferVars, padVars>>
taskVars  == <<pairingVars, channelVars, logVars>>
deskVars  == <<guardVars, edgeVars, screenVars>>
partVars  == <<part, deskVars, smallVars, taskVars>>

\* One of the initial choices stands for all while the screens are not looked at.
FirstScreens ==
  part = "screen" \/ (border = "left" /\ {ours, theirs} = {CHOOSE d \in Desktops : TRUE} /\ sized)

Init ==
  /\ part \in {"guard", "edge", "screen", "rooms", "transfer", "trackpad", "pairing", "channel", "log"}
  /\ GuardInit /\ EdgeInit /\ ScreenInit /\ FirstScreens
  /\ RoomInit /\ TransferInit /\ PadInit
  /\ PairingInit /\ ChannelInit /\ LogInit

SmallNext ==
  \/ part = "rooms" /\ RoomNext /\ UNCHANGED <<transferVars, padVars>>
  \/ part = "transfer" /\ TransferNext /\ UNCHANGED <<roomVars, padVars>>
  \/ part = "trackpad" /\ PadNext /\ UNCHANGED <<roomVars, transferVars>>

TaskNext ==
  \/ part = "pairing" /\ PairingNext /\ UNCHANGED <<channelVars, logVars>>
  \/ part = "channel" /\ ChannelNext /\ UNCHANGED <<pairingVars, logVars>>
  \/ part = "log" /\ LogNext /\ UNCHANGED <<pairingVars, channelVars>>

DeskNext ==
  \/ part = "guard" /\ GuardNext /\ UNCHANGED <<edgeVars, screenVars>>
  \/ part = "edge" /\ EdgeNext /\ UNCHANGED <<guardVars, screenVars>>
  \/ part = "screen" /\ ScreenNext /\ UNCHANGED <<guardVars, edgeVars>>

Next ==
  /\ part' = part
  /\ \/ DeskNext /\ UNCHANGED <<smallVars, taskVars>>
     \/ SmallNext /\ UNCHANGED <<deskVars, taskVars>>
     \/ TaskNext /\ UNCHANGED <<deskVars, smallVars>>

Spec == Init /\ [][Next]_partVars /\ RoomFairness

-----------------------------------------------------------------------------
\* The state of every component stays within its types, whichever runs: each counter in its
\* width, each slot with a known owner, no file ahead of its stream (state.rs:230-317).
PartsTypeOK ==
  /\ GuardTypeOK /\ EdgeTypeOK /\ RoomTypeOK /\ TransferTypeOK /\ PadTypeOK
  /\ PairingTypeOK /\ ChannelTypeOK /\ LogTypeOK

=============================================================================
