SPECIFICATION Spec
CONSTANTS
  BlockSize = 3
  InlineSize = 2
  NumExtents = 2
  WordSize = 2
  Width = 16
  DirEntries = 3
  InodesPerBlock = 3
  BitmapBits = 16
  Names = {a, b}
  Absent = Absent
  Formats <- FormatsMC
  Sizes <- SizesMC
  Accesses <- AccessesMC
VIEW View
SYMMETRY Symmetry
INVARIANTS
  TypeOK
  SpaceAccounted
  DirectoryMatchesInodes
  ChecksumCurrent
PROPERTIES
  FailedCallChangesNothing
  FailsOnlyForSpace
  MtimeFollowsChange
  ImplementsFiles
