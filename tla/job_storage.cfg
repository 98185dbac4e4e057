\* Job tables that name the local storage, each in its own way.
SPECIFICATION Spec
CONSTANTS
  Invocations <- AllInvocations
  None = None
INVARIANT
  LocalJobsInheritPath
CHECK_DEADLOCK FALSE
