SPECIFICATION ReplySpec
CONSTANTS
    r1 = r1
    r2 = r2
    o1 = o1
    Nobody = Nobody
    Workers = {r1, o1}
    Runtimes = {r1}
    Operators = {o1}
    MaxMessages = 2
    MaxReadings = 2
    Decisions = {"ELIGIBLE"}
    Budget = 2
    Incidents = {"crash", "raise", "close"}
INVARIANTS ReplyTypeOK TraceBearsOutPlan
PROPERTIES ReplyKeepsItsPromise ClosedStaysClosed AnswersTheLastMessage
CHECK_DEADLOCK FALSE
