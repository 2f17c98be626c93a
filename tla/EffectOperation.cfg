SPECIFICATION Spec
CONSTANTS
    e1 = e1
    q1 = q1
    q2 = q2
    c1 = c1
    c2 = c2
    c3 = c3
    Ids <- TheId
    Requests <- TwoRequests
    Callers <- ThreeCallers
    MaxHost = 2
    MaxFaults = 1
SYMMETRY Symmetry
INVARIANTS AtMostOneCall RecordsAreTrue
PROPERTIES CompletedByItsHost ImplementsTruth
