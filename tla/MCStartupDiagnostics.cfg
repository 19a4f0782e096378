SPECIFICATION Spec
INVARIANTS NothingReplaced IdentifiedOnce
