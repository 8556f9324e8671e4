SPECIFICATION Spec
CONSTANTS
  Tournaments = {t1, t2}
  Paths = {p1, p2}
  Dashboard = Dashboard
  SettingsTab = SettingsTab
  Unreadable = Unreadable
  NoPath = NoPath
  MaxVersion = 1
  MaxTabs = 4
PROPERTIES
  CloseOnlySelf
