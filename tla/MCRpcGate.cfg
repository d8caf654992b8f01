SPECIFICATION Spec
CONSTANTS
  r1 = r1
  r2 = r2
  r3 = r3
  r4 = r4
  api = api
  html = html
  Requests = {r1, r2, r3, r4}
  Routes = {api, html}
  RouteOf <- MCRouteOf
  Plans <- MCPlans
  MaxStage = 3
  MaxConcurrent = 2
  Given = {0, 2}
INVARIANTS PermitsConserved NoOrphanCalls
PROPERTIES EveryRequestEnds ShutdownDrains
