CONSTANTS
    Creds = {c1}
    Refreshers = {j1}
    Operators = {e1}
    Edits = {"disable", "enable"}
    Slots = 1
    PendingWait = 1
    FailureWait = 2
    MaxToken = 1
    Results = {}
    Watching = FALSE
    Restarts = FALSE
    SavesFail = FALSE
    Prompt = TRUE
    Apart = FALSE
    None = None
SPECIFICATION Spec
PROPERTIES DisabledStays
