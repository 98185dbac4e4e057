\* The exit code of a restore that lacks a binary or a bucket.
SPECIFICATION Spec
CONSTANTS
  Invocations <- AllInvocations
  None = None
INVARIANT
  RestoreCodesDocumented
CHECK_DEADLOCK FALSE
