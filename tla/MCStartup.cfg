CONSTANTS
  Running <- RunningVersion
  Component <- Components
  Url <- Urls
  Versions <- AllVersions
  BadVersions = {""}
  BadAliases = {"a.b"}
  Content = {"good", "other"}
  Absent = Absent
  PkgConcurrency = 2
  Pending = {"p"}
  Unescapable = {"x/1"}
  Order <- Paths
  Name = {"lint", "fmt", "vet"}
  EntryPoint = "s"
  Setups <- AllSetups
SPECIFICATION FairSpec
INVARIANTS TypeOK  ShownFilesRight RightChecksRun ErrorsExplained
PROPERTIES StartupEnds
