CONSTANT N = 3
SPECIFICATION Spec
INVARIANTS ActsOnKnownPage RecordsAreTrue FirstFailureDecides
PROPERTIES KeepsPromise
