CONSTANTS
    p1 = p1
    p2 = p2
    p3 = p3
    p4 = p4
    a = a
    b = b
    c = c
    NoIndex = NoIndex
    NoCall = NoCall
    Requests = {p1, p2, p3, p4}
    Namespaces = {a, b, c}
    MaxIndex = 2
    Domain = {b, c}
    Origin = b
    Calls <- MCCalls
SPECIFICATION Spec
INVARIANTS
    TypeOK
    NamespaceInOneComposite
    WholeRegistration
PROPERTIES
    ImplementsRegistry
    CleanedNamespaceLeaves
CHECK_DEADLOCK FALSE
