\* Catalog: three processes, one update each, and locks that may be lost.
\* Note: two agents and other programs.  Items: three lines of the owner's, one item.
\* Collections: three notes, pages of two items, two notes or two bytes; one change.
CONSTANTS
  Procs = {p1, p2, p3}
  NoProc = NoProc
  MaxUpdates = 1
  Agents = {1, 2}
  MaxLines = 3
  MaxRecords = 1
  Paths = {1, 2, 3}
  ItemSizes <- MC_ItemSizes
  FirstItems <- MC_FirstItems
  PROVIDER_PAGE = 2
  MAX_COLLECTION_DOCUMENTS_PER_READ = 2
  MAX_COLLECTION_RESULT_BYTES = 2
  MaxChanges = 1
SPECIFICATION MC_Spec
SYMMETRY Interchangeable
INVARIANTS NothingLostUnread
PROPERTIES ImplementsAtomicCatalog RecordedIsRead
\* Every process may have crashed or made its updates.
CHECK_DEADLOCK FALSE
