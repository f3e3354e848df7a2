SPECIFICATION Spec
CONSTANTS
    Sources = {s1, s2}
    CachedMode = TRUE
INVARIANTS
    TypeOK
    LineExact
    NoForgottenIrq
PROPERTY
    InterruptHappens
