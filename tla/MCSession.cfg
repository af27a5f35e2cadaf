CONSTANTS
    Value = {"a", "b"}
    MaxId = 3
    MaxCommands = 2
SPECIFICATION Spec
INVARIANTS TypeOK ConfigstringsCurrent
PROPERTIES PlaysChecked EntersWorld
CHECK_DEADLOCK FALSE
