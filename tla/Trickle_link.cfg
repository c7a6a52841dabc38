SPECIFICATION Spec
CONSTANT
    Plans <- Both
CHECK_DEADLOCK FALSE
INVARIANTS TypeOK CandidatesGetThere LinesAreHeard
