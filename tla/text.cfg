SPECIFICATION Spec
CONSTANTS
  ULLONG_MAX = 17
  HeadersCompleteRet = {0, 1}
  Types = {"both"}
  Alphabet <- Printable
  MaxPort = 10
  UrlMax = 4
  Conns = {c1, c2, c3}
  Fds = {f1, f2}
  RecvMax = 1
  None = None
  MaxText = 2
  MaxFuzz = 4
  MaxChars = 4
  TabSize = 4
  MaxNodes = 4
  Tags = {"a"}
  MaxAttrs = 3
  AttrNames = {"k", "l", "m"}
  Contents = {"u", "v"}
INVARIANTS StreamIsRead UrlsAreCut TablesAgree TextIsKept CursorCountsLines ListsAnswer
PROPERTY KeepsKids
CHECK_DEADLOCK FALSE
