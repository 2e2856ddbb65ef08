SPECIFICATION MCSpec
CONSTANTS
  Size = 3
  Byte = {b1, b2}
  NoByte = NoByte
  \* The parser.
  BufferSize = 6
  MaxParameters = 1
  MaxLine = 7
  Alphabet = {"S", "C", "D", "U", "val", "space", "newline"}
  \* The client.
  IntMax = 31
  MaxValue = 7
  Numbers <- MCNumbers
  Hundredths <- MCHundredths
  Letters <- MCLetters
  MaxString = 2
  ByteArrays <- MCByteArrays
  MaxUpdates = 1
INVARIANTS
  TypesOK
  SessionTypeOK
  AnswersAreOwn
  ValuesAgree
PROPERTIES
  RequestsAreExact
  Answered
  RefinesQueue
