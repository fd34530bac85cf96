\* Two connections, with up to two lines and one line, crashes, restarts and shutdowns.
SPECIFICATION FairSpec
CONSTANTS
  c1 = c1
  c2 = c2
  Install = Install
  Garbage = Garbage
  Blank = Blank
  Binary = Binary
  NoLine = NoLine
  Conns = {c1, c2}
  Lines <- MCLines
  Kind <- MCKind
  MaxLines <- MCMaxLines
INVARIANTS
  TypeOK
  RepliesInOrder
  CommandsOnce
PROPERTIES
  NeverCutOff
  SocketFollowsServer
  HandlersEnd
