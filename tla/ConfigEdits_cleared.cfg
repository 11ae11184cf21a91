SPECIFICATION Spec
CONSTANTS
    Editors = {"e1"}
    MaxEdits = 2
    Sections = {"upstream-api-keys"}
    Names = {"k1", "k2"}
    Bases = {"b"}
    Headers = {"h1", "h2"}
    Assume = {"edits_apart", "saves_whole", "headers_whole", "limit_listed"}
    None = None
INVARIANTS ClearedStays
CHECK_DEADLOCK FALSE
