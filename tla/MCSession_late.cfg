SPECIFICATION Spec
CONSTANTS
    Kinds = {"optional", "required"}
    MaxOps = 2
    MaxEvents = 0
    Junk = {}
CHECK_DEADLOCK FALSE
INVARIANT ErrorsStayWithTheirRequest
