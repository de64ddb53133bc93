------------------------------- MODULE MCTasks -------------------------------
\* The components made of tasks and clocks that share no state, side by side as in
\* MCParts and for the same reason.
EXTENDS SessionSlot, MacGuard, Reconnect, ConfigStore, Clipboard, SessionIdle

VARIABLE area

\* What stays as it is while one area runs.
sessionVars == <<slotVars, reVars, idleVars>>
hostVars    == <<macVars, configVars, clipVars>>
areaVars    == <<area, sessionVars, hostVars>>

Init ==
  /\ area \in {"slot", "reconnect", "idle", "mac", "config", "clipboard"}
  /\ SlotInit /\ ReInit /\ IdleInit /\ MacInit /\ ConfigInit /\ ClipInit
  /\ area = "idle" \/ \A s \in Sides : ~lockOn[s]

SessionNext ==
  \/ area = "slot" /\ SlotNext /\ UNCHANGED <<reVars, idleVars>>
  \/ area = "reconnect" /\ ReNext /\ UNCHANGED <<slotVars, idleVars>>
  \/ area = "idle" /\ IdleNext /\ UNCHANGED <<slotVars, reVars>>

HostNext ==
  \/ area = "mac" /\ MacNext /\ UNCHANGED <<configVars, clipVars>>
  \/ area = "config" /\ ConfigNext /\ UNCHANGED <<macVars, clipVars>>
  \/ area = "clipboard" /\ ClipNext /\ UNCHANGED <<macVars, configVars>>

Next ==
  /\ area' = area
  /\ \/ SessionNext /\ UNCHANGED hostVars
     \/ HostNext /\ UNCHANGED sessionVars

Spec == Init /\ [][Next]_areaVars

\* The loops differ by their names only, and every property is about one step.
Exchange(a, b, S) == [x \in S |-> IF x = a THEN b ELSE IF x = b THEN a ELSE x]
LoopSymmetry == {Exchange(a, b, Loops) : a, b \in Loops}

-----------------------------------------------------------------------------
\* The state of every component stays within its types: every task where its code can be,
\* every handle, slot and static with a known owner, every clock within its period
\* (state.rs:436-458, raw_mouse_mac.rs:92-121, server.rs:509).
TasksTypeOK ==
  /\ SlotTypeOK /\ ReTypeOK /\ IdleTypeOK
  /\ MacTypeOK /\ ConfigTypeOK /\ ClipTypeOK

=============================================================================
