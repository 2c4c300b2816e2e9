SPECIFICATION Spec
CONSTANTS
  Names = {"admin", "olga", "pasha"}
  Descrs = {"a", "b"}
  Groups = {"all", "staff"}
  Kinds = {"remove"}
  Docs <- MCDocs
  MaxMutations = 1
PROPERTY RemovalKeepsTheRest
CHECK_DEADLOCK FALSE
