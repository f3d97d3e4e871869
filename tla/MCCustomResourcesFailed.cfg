SPECIFICATION Spec
CONSTANTS
    p1 = p1
    p2 = p2
    p3 = p3
    p4 = p4
    orders = orders
    bills = bills
    tmpl = tmpl
    Requests = {p1, p2, p3, p4}
    Names <- MCNames
    Loads <- Serial
    NoTemplate = NoTemplate
    Absent = Absent
    NoRow = NoRow
    NoCall = NoCall
CHECK_DEADLOCK FALSE
PROPERTY FailedIsNotCompleted
