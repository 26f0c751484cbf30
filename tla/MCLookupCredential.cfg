SPECIFICATION LookupSpec
CONSTANTS
    Refs <- MCCustomRefs
    Registries <- MCRegistries
    Answers <- MCAnswers
CHECK_DEADLOCK FALSE
INVARIANT EverySourceNamesCredential
