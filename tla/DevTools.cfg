\* Daemon: two daemons on one path; one connection sends a request and a shutdown.
\* Backend: two files in two projects, one document kept open, two calls.
\* Client: two callers, one fault.
\* Requests: two at a time; of three paths two are opened at once; two places are read.
\* Edit: two files, one with a document version.  Texts: two edits of two characters.
\* Closeout: two of one pull request.  Cleanup: a branch and a protected one.
CONSTANTS
  k1 = k1
  r1 = r1
  stop1 = stop1
  Daemons = {d1, d2}
  NoDaemon = NoDaemon
  Conns = {k1}
  Requests = {r1, stop1}
  ConnOf <- MC_ConnOf
  Shutdowns = {stop1}
  Files = {"a", "b"}
  Root <- MC_Root
  Calls = {c1, c2}
  MaxOpen = 1
  MaxGen = 4
  Volatile = {"a"}
  Callers = {c1, c2}
  Polls = 1
  MaxFaults = 1
  Handled = {q1, q2}
  Sources = {"a", "b", "link"}
  Real <- MC_Real
  BULK_OPEN_CONCURRENCY = 2
  MaxPaths = 3
  MaxPlaces = 2
  Targets <- MC_Targets
  Versioned = {"f"}
  Content <- MC_Content
  MaxEdits = 2
  Closeouts = {x1, x2}
  NoCloseout = NoCloseout
  Remotes = {"origin"}
  Repositories = {"ours", "theirs"}
  PullRequestRepository = "ours"
  Branches = {"topic", "main"}
  ProtectedBranches = {"main"}
SPECIFICATION MC_Spec
INVARIANTS
  DrainsAcceptedWork LeavesNothing
  ServerKnowsDocuments AnswersReachTheirCallers
  RequestsDoNotMix  EditsAreWhole EditsAreSimultaneous
PROPERTIES WaitsEnd
\* Every daemon and every call may have ended.
CHECK_DEADLOCK FALSE
