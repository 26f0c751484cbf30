SPECIFICATION LookupSpec
CONSTANTS
    Refs <- MCRefs
    Registries <- MCRegistries
    Answers <- MCAnswers
\* A call ends.
CHECK_DEADLOCK FALSE
INVARIANTS
    ClientBelieves
    WholeMapping
    NoForeignCredential
