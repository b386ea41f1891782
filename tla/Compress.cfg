SPECIFICATION Spec
CONSTANTS
  Sessions <- MCSessions
  MaxRoom = 2
  LinesPerCall = {1, 3, 40}
INVARIANTS BlocksInPlace Decodable RowsAccounted FilesComplete
