SPECIFICATION FairReplySpec
CONSTANTS
    r1 = r1
    r2 = r2
    o1 = o1
    Nobody = Nobody
    Workers = {r1, o1}
    Runtimes = {r1}
    Operators = {o1}
    MaxMessages = 2
    MaxReadings = 1
    Decisions = {"ELIGIBLE"}
    Budget = 1
    Incidents = {"crash", "retire", "revoke"}
PROPERTIES EveryPlanIsLetGo
CHECK_DEADLOCK FALSE
