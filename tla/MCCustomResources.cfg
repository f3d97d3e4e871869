SPECIFICATION Spec
CONSTANTS
    p1 = p1
    p2 = p2
    p3 = p3
    p4 = p4
    orders = orders
    bills = bills
    tmpl = tmpl
    Requests = {p1, p2, p3, p4}
    Names <- MCNames
    Loads <- Both
    NoTemplate = NoTemplate
    Absent = Absent
    NoRow = NoRow
    NoCall = NoCall
CHECK_DEADLOCK FALSE
INVARIANT TypeOK
PROPERTY ProdCompletedIsRegistered
PROPERTY ProdAcceptedIsNotForgotten
PROPERTY TerminatedStaysTerminated
PROPERTY WaitingTopicIsRun
