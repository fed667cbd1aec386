CONSTANTS
  NumDbs = 4
  KindOf <- MCKinds
  StemOf <- MCStems
  TablesOf <- MCTables
  Requests <- MCRequests
  Alias <- MCAlias
SPECIFICATION Spec
INVARIANTS
  TypeOK
  DumpedStaysThere
  AllAccountedFor
CHECK_DEADLOCK FALSE
