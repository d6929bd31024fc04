\* A pinned engine, an unpinned tool and an unpinned script over three versions.
SPECIFICATION Spec
CONSTANTS
  engine = engine
  tool = tool
  script = script
  Deps = {engine, tool, script}
  Files = {script}
  Pinned = {engine}
  List <- MCList
  Pin <- MCPin
  Releases <- MCReleases
  Supported = {1, 2, 3}
  MaxVersion = 3
  MaxAttempts = 2
  MaxFaults = 3
INVARIANTS
  SkipSound
  KnownComplete
PROPERTIES
  ReinstallHeals
