SPECIFICATION FilterSpec
CONSTANTS
  NUM_USER_CAN_FILTERS = 2
  StdBits = {0, 1}
  StdField = {0, 1, 15}
  StdHigh = {1}
  ExtBits = {0, 1}
  ExtField = {0, 1, 31}
  ExtHigh = {1}
  Filters <- MCFilters
  Lists <- MCLists
INVARIANTS ReportedAsSet
