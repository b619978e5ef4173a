SPECIFICATION FairSpec
CONSTANTS
    First = First
    Second = Second
    None = None
    AdmissionAttempts = 3
    EventAttempts = 2
    FinishAttempts = 2
INVARIANTS
    TypeOK
    WorkloadIsAdmitted
    AttributionHolds
    ConfirmedIsCommitted
    SignedFinishSurvives
    NeverForeclosed
PROPERTIES
    EndsOnce
    RetainedIsCommitted
CHECK_DEADLOCK FALSE
