\* Lock: three processes and a child of the first.
\* Process: two streams of up to 3 bytes, 2 of each are kept and 3 of both.
\* Run: a diagnostic; 4 lines fit the limits.  Protocol: two findings and two failures.
\* Engine: a check of each kind and two on syntax.  Scope: three files, one in a directory; an edit.
\* Journal: two processes append three lines; a file holds 2 bytes, all files 3.
CONSTANTS
  p1 = p1
  c1 = c1
  Procs = {p1, p2, p3, c1}
  NoProc = NoProc
  Absent = Absent
  Ownerless = Ownerless
  Parent <- MC_Parent
  Streams = {"stdout", "stderr"}
  Limit <- MC_Limit
  CombinedLimit = 3
  Chunks = {1, 2}
  MaxWritten = 3
  MaxDiagnostics = 1
  MaxLines = 4
  Timeouts = {0, 2, 9}
  MaxTimeout = 5
  MaxFindings = 2
  MaxFailures = 2
  MaxMessage = 2
  MaxRelated = 1
  MaxResult = 5
  Findings <- MC_Findings
  Failures <- MC_Failures
  MaxProduced = 3
  Checks = {"duplicates", "testDuplicates", "types", "eslint", "bundle"}
  Capability <- MC_Capability
  Source <- MC_Source
  Minimum <- MC_Minimum
  Eslint = "eslint"
  Bundle = "bundle"
  Budgets = {1, 2, 3, 5, 8}
  MaxTotal = 2
  MaxFound = 2
  MaxBatches = 2
  MaxBenchmarks = 1
  Paths <- MC_Paths
  Dir = "d"
  InDir = {"b", "t"}
  Unanalyzable = {}
  Skipped = {"b"}
  Tests = {"t"}
  FileSizes = {0, 2, 3}
  MaxFiles = 2
  MaxEntries = 1
  MaxFileBytes = 2
  MaxTotalBytes = 3
  MaxEdits = 1
  Writers = {w1, w2}
  JournalFileBytes = 2
  JournalTotalBytes = 3
  JournalFiles = 3
  LineBytes = {1, 2}
  MaxAppends = 3
SPECIFICATION MC_Spec
INVARIANTS ExclusionUntilExit NothingLeftBehind RunIsWhole ReportIsComplete JournalIsBounded
PROPERTIES RunsEnd
\* Every process may have left.
CHECK_DEADLOCK FALSE
