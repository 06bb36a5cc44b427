CONSTANTS
    q1 = q1
    q2 = q2
    k1 = k1
    Readers = {q1, q2}
    Commands = {k1}
    MaxEvents <- Events
SPECIFICATION Spec
CHECK_DEADLOCK FALSE
SYMMETRY ReaderSymmetry
INVARIANTS TypeOK PaymentsAreRight StageCanBeTrusted
PROPERTIES PaidSpec
