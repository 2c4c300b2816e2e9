SPECIFICATION Spec

CONSTANTS
  r1 = r1
  r2 = r2
  olga = olga
  tunnel = tunnel
  shell = shell
  k1 = k1
  k2 = k2
  Hosts = {r1, r2}
  Names = {olga}
  Datas = {tunnel, shell}
  NoName = NoName
  NoKey = NoKey
  NoList = NoList
  KeyOf <- MCKeyOf
  Default = r1
  Routers <- MCRouters
  MaxTasks = 2
  MaxClicks = 2

INVARIANTS
  TypeOK
  SignsHonest
  ListIsCurrent
  SettingsAgree

PROPERTIES
  SignsClear

CHECK_DEADLOCK FALSE
