CONSTANTS
    Rule <- PL0Rule
    Jobs <- MCJobs
    Unbounded <- MCUnbounded
SPECIFICATION PL0Spec
INVARIANTS BuildsAPhrase TakesWholePhrases NoLeftRecursion
PROPERTY ParserReturns
