\* Safety: two online attempts and one cash-on-delivery attempt, two
\* concurrent callbacks that may die, one staff member.
CONSTANTS
    NoAttempt = NoAttempt
    Attempts = {a1, a2, cod}
    CodAttempts = {cod}
    Callbacks = {c1, c2}
    Staff = {m1}
    MayCrash = TRUE
SPECIFICATION Spec
SYMMETRY Symmetry
INVARIANTS
    IInv
    CreditedOnce
    PaidAgainstCapture
    SucceededWasCaptured
    PaidIsProcessed
PROPERTY ImplementsLedger
