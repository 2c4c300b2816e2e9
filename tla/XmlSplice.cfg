SPECIFICATION Spec
CONSTANTS
  Names = {"admin", "olga", "pasha"}
  Descrs = {"a", "b"}
  Groups = {"all", "staff"}
  Kinds = {"append", "replace", "remove", "addMember", "removeMember", "setNextUid"}
  Docs <- MCDocs
  MaxMutations = 3
PROPERTIES
  DoesWhatIsMeant
  RemovedIsGone
CHECK_DEADLOCK FALSE
