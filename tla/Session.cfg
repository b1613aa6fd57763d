SPECIFICATION Spec
CONSTANTS
    Background = {"health"}
INVARIANTS
    TypeOK
PROPERTIES
    AskedOnce
    StopSparesClient
    GuardHeals
