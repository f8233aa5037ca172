\* Liveness: nobody crashes and no staff member interferes.
CONSTANTS
    NoAttempt = NoAttempt
    Attempts = {a1, a2}
    CodAttempts = {}
    Callbacks = {c1, c2}
    Staff = {}
    MayCrash = FALSE
SPECIFICATION FairSpec
PROPERTY CaptureIsSettled
CHECK_DEADLOCK FALSE
