\* Every part of the platform with the smallest instance that shows its hazards.
CONSTANTS
    Users = {u1, u2, u3, u4}
    Founder = u1
    Roles = {"administrator"}
    Demoted = "administrator"
    Requests = {a1, a2}
    SeatLimit = 2
    MaxTransfers = 1
    Nobody = Nobody
    Retention = 1
    MaxDay = 2
    MaxActs = 2
    NoDay = NoDay
    NoRequest = NoRequest
    Trial = trial
    Labels = {a1, a2}
    Customs = {b1, b2}
    MaxAge = 0
    MaxClock = 1
    MaxTokens = 1
    MaxChecks = 2
    NoRow = NoRow
    Development = dev
    Alone = TRUE
    Debug = FALSE
    NoVisit = NoVisit
    Versions = {"free", "basic"}
    Default = "free"
    Price <- Prices
    Interval <- Intervals
    GraceDays <- Graces
    TrialDays = 1
    ExtraDays = {1}
    TrialEnds = {0}
    MaxNow = 2
    MaxEnd = 3
    MaxControls = 1
    MaxInFlight = 1
    NoTime = NoTime
    Nothing = Nothing
    MaxInvoices = 3
    MaxUpgrades = 1
    MaxAttempts = 3
    MaxEfforts = 3
    Lead = 1
    Schedule <- TwoStages
    Texts = {m1, o1}
    Codes = {o1}
    UnitsOf <- EachUnits
    Senders = {s1, s2}
    Purchases = {p1}
    PackageUnits = 2
    OtpOverdraft = 1
    OpeningCredits = 2
    Corrections <- Deltas
    MaxCorrections = 1
    MaxTries = 1
    Idle = Idle
SPECIFICATION Spec
SYMMETRY Alike
CHECK_DEADLOCK FALSE
INVARIANTS
    TeamSound
    LifeSound
    DomainsSound
    
    BillingSound
    SmsSound

    
