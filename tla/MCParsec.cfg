CONSTANTS
    Rule <- MCRule
    Jobs <- MCJobs
    Unbounded <- MCUnbounded
SPECIFICATION Spec
INVARIANTS ConsumesAMatch FailsWithoutMatch
PROPERTY Terminates
