\* As MCModuleInstall, for what Fetch promises of a failed update.
SPECIFICATION Spec
CONSTANTS
  engine = engine
  tool = tool
  script = script
  Deps = {engine, tool, script}
  Files = {script}
  Pinned = {engine}
  List <- MCList
  Pin <- MCPin
  Releases <- MCReleases
  Supported = {1, 2, 3}
  MaxVersion = 3
  MaxAttempts = 2
  MaxFaults = 1
INVARIANTS
  KnownUsable
