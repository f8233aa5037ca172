\* One callback and one staff member who cancels the unpaid order.
CONSTANTS
    NoAttempt = NoAttempt
    Attempts = {a1}
    CodAttempts = {}
    Callbacks = {c1}
    Staff = {m1}
    MayCrash = FALSE
SPECIFICATION Spec
PROPERTY SuccessMarksPaid
