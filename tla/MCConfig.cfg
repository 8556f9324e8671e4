SPECIFICATION Spec
CONSTANTS
  Tournaments = {t1, t2}
  Settings = {s0, s1}
  DEFAULT_CONFIG = s0
  MAXIMUM_RECENT_LIST_SIZE = 2
  SettingTabs = {k1, k2}
  Absent = Absent
  Torn = Torn
  MaxEntries = 4
  MaxRead = 3
SYMMETRY Symmetry
INVARIANTS
  RecentsAreLatest
  StringsAreOwned
  FileIsMemory
