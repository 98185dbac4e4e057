\* Two concurrent calls on one key or on two, with and without force, and a
\* restore that runs beside them, on every kind of volume.
SPECIFICATION FirstKeySpec
CONSTANTS
  Uploaders = {u1, u2}
  Restores = {r1}
  Keys = {k1, k2}
  Flags = {TRUE, FALSE}
  Filesystems = {"hardlink", "exdev", "nolink"}
  None = None
INVARIANTS
  TypeOK
  OnlyCopyExposesPartial
  SuccessIsDurable
  RejectionHasRival
  SidecarNamesArtifact
  ExactlyOneWinner
  VerifiedRestoreIsWhole
  AcknowledgedIsRestorable
  RestoreIsWholeUnlessCopied
PROPERTIES
  NoClobber
  EveryCallReturns
  ImplementsStore
\* Every call may have returned.
CHECK_DEADLOCK FALSE
