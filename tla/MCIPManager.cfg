SPECIFICATION Spec
CONSTANTS
  IP = {ip1, ip2}
  Other = other
  NoCall = NoCall
  Configs <- MCConfigs
INVARIANT
  TypeOK
PROPERTY
  CallsAreAtomic
