----------------------------- MODULE AtomicConfig -----------------------------
\* What the configuration file promises: its content is what the mutations made of it,
\* one after the other and each as a whole.  One that cannot be read counts as
\* blank, so the next mutation starts afresh.
CONSTANTS
  Devices, \* known devices
  Ids,     \* device ids that may be drawn
  AuditCap \* entries the audit log keeps (100 in the code)

LOCAL INSTANCE Naturals

VARIABLE config

SettingsSet == [gaming : BOOLEAN, auto : BOOLEAN]

\* What may be absent is a set of at most one element.
Blank == [settings |-> {}, known |-> {}, id |-> {}, audit |-> 0]

Ops == [kind : {"settings"}, value : SettingsSet]
       \cup [kind : {"save", "forget"}, value : Devices]
       \cup [kind : {"identify"}, value : Ids]
       \cup [kind : {"audit", "clear"}, value : {"none"}]

\* The closures handed to with_config_mut.
Apply(op, c) ==
  CASE op.kind = "settings" -> [c EXCEPT !.settings = {op.value}]
    [] op.kind = "save"     -> [c EXCEPT !.known = @ \cup {op.value}]
    [] op.kind = "forget"   -> [c EXCEPT !.known = @ \ {op.value}]
    [] op.kind = "identify" -> [c EXCEPT !.id = IF @ = {} THEN {op.value} ELSE @]
    [] op.kind = "audit"    -> [c EXCEPT !.audit = IF @ < AuditCap THEN @ + 1 ELSE @]
    [] op.kind = "clear"    -> [c EXCEPT !.audit = 0]

Mutate(op) == config' = Apply(op, config) \/ config' = Apply(op, Blank)

\* A mutation that changes nothing cannot be told from no step.
Next == config' # config /\ \E op \in Ops : Mutate(op)

Spec == config = Blank /\ [][Next]_config

=============================================================================
