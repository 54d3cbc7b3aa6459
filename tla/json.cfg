SPECIFICATION Spec
CONSTANTS
    LabelLists <- SomeLists
    Samples <- SomeSamples
    NodeName <- Host
INVARIANTS
    JsonTypeOK
    WellFormed
    CommandsHidden
    MembersAsAsked
    TasksOnce
PROPERTY Prints
