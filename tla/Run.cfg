SPECIFICATION Spec
CONSTANTS
    Readers = {waiter, other}
    Waiter = waiter
    Contracts = {c1, c2}
    Checked = {c1}
    Metrics = {m1}
    Absent = Absent
    Invalid = Invalid
    Measured = {"bracket"}
    None = None
    MaxEdits = 1
    MaxFailures = 1
CHECK_DEADLOCK FALSE
INVARIANT TypeOK
INVARIANT OutcomeIsTrue
INVARIANT JudgedFairly
INVARIANT CheckMatchesDiff
PROPERTY HistoryKept
PROPERTY EventuallySealed
