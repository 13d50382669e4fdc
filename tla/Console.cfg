SPECIFICATION Spec
CONSTANTS
  a1 = a1 a2 = a2 u1 = u1 u2 = u2 s1 = s1 s2 = s2 v1 = v1
  e1 = e1 t1 = t1 p1 = p1 p2 = p2 w1 = w1 w2 = w2
  MaxRows = 3
  MaxCreatedAt = 2
  Limit = {2}
  User <- MC_User
  Admin <- MC_Admin
  MaxFlags = 2
  Sender <- MC_Sender
  MaxRequests = 3
  Viewer <- MC_Viewer
  MaxDisputes = 2
  MaxTime = 2
  Escrowed <- MC_Escrowed
  Transfer <- MC_Transfer
  MaxQuarrels = 1
  MaxMonths = 6
  MaxRevenue = 2
  Script <- MC_Script
  Command <- MC_Command
  Newest = 3
  Rerunnable = {1}
  NoDown = {3}
  Seeder <- MC_Seeder
  LastKey = 3
CONSTRAINTS MC_Undecided MC_OneSwitched
INVARIANTS
  TypeOK
  WalkComplete
  ResolvedOnce
  FlagsAgree
  SentArrives
  ViewsAgree
  MoneyCountedOnce
  ForecastFits
  TrackingTells
  SeedComplete
