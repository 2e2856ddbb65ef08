SPECIFICATION Spec
CONSTANTS
  RowCount = 3
  ColumnCount = 1
  CharLimit = 2
  Actions = 1
  Asked = {"DESKTOP0", "CAPTURE_SCREEN", "NAME", "X", "WIDTH", "CHILDREN", "CHILD", "ACTIONS", "ACTION_NAME", "ACTION_DO"}
  Clicked = {}
  MaxStreams = 1
INVARIANTS
  TypeOK
  ChildrenAreFound
PROPERTIES
  FewAreAbandoned
CHECK_DEADLOCK FALSE
