CONSTANTS
    Rule <- PL0Rule
    Jobs <- PrefixCallJobs
    Unbounded <- MCUnbounded
SPECIFICATION PL0Spec
INVARIANT TakesWholePhrases
