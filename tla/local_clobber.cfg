\* Two unforced calls on a volume without hard links.
SPECIFICATION Spec
CONSTANTS
  Uploaders = {u1, u2}
  Keys = {k1}
  Flags = {FALSE}
  Filesystems = {"nolink"}
  None = None
SYMMETRY UploaderSymmetry
PROPERTY
  NeverClobbers
CHECK_DEADLOCK FALSE
