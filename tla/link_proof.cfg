SPECIFICATION Spec
CONSTANTS
    Subs = {s1}
    Locals = {l1}
    Emails = {e1}
    Tabs = {t1}
    MaxEpoch = 1
    MaxTickets = 1
    MaxAttempts = 1
    MaxTrouble = 1
CHECK_DEADLOCK FALSE
PROPERTIES LinkedByItsPassword
