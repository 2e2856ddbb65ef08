SPECIFICATION FairSpec
CONSTANTS
  RowCount = 0
  ColumnCount = 0
  CharLimit = 1
  Actions = 1
  Asked = {"CHILD", "ACTION_DO"}
  Clicked = {"close", "open"}
  MaxStreams = 2
PROPERTIES
  FewAreAbandoned
  RequestsEnd
CHECK_DEADLOCK FALSE
