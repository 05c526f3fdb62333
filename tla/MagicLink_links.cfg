SPECIFICATION FairLinkSpec
CONSTANTS
    e1 = e1
    t1 = t1
    t2 = t2
    NoEmail = NoEmail
    Emails = {e1}
    AutoCreate = TRUE
    Requests = {t1, t2}
    MaxSends = 1
    Window = 1
    MaxToken = 3
    MaxAborted = 1
INVARIANT LinkTypeOK
INVARIANT SendBudget
PROPERTY SpentStaysSpent
PROPERTY BudgetReturns
CHECK_DEADLOCK FALSE
