SPECIFICATION Spec
CONSTANTS
  c1 = c1
  t1 = t1
  t2 = t2
  Cmd = {c1}
  Token = {t1, t2}
  NoKey = NoKey
  NoFile = NoFile
  Flag <- MCFlag
INVARIANTS
  NoProcessOutlivesItsCommand
  DevTokenWorks
PROPERTIES
  CommandsEnd
  BootstrappedKeyWorks
