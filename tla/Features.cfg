SPECIFICATION FeaturesSpec
CONSTANTS
  Nil = Nil
  Unset = Unset
  NoDate = NoDate
  Everything = Everything
  Shoppers = {u1, u2}
  Goods = {g1}
  Entries = {e1, e2}
  Readers = {r1, r2}
  Stock = {item}
  Chores = {task}
  Soon = 1
  Lead = 1
  MaxToday = 1
  MaxDate = 2
  MaxMoves = 1
  Planners = {p1, p2}
  PlanItems = {i1, i2}
  Linkable = {l1}
  Adopters = {a1, a2}
  TargetIds = {t1, t2}
  water = water
  Recommended = {water}
  RuleOf <- MCRuleOf
  Bases <- MCBases
  NoBasis = NoBasis
  Amounts = {0}
  Requirements = {q1}
  Own = Own
  NotGiven = NotGiven
  Callers = {c1, c2}
  Tokens = {k1}
  Credentials = {x1, x2}
  NoToken = NoToken
  NoCredential = NoCredential
  Lifetime = 1
  MaxNow = 2
  Supplies = {supply}
  Boxes = {b1}
  Contents <- MCContents
  Gear = {asset}
  Duties = {d1}
  Guides = {guide}
  Needs = {need}
  Minimum = 1
  Desired = 2
  Never = Never
  Reminder = 1
  LastDay = 1
  Writers = {w1, w2}
  Houses = {h1, h2}
  Values = {1, 2}
  NoProfile = NoProfile
  MaxProfileRevision = 3
INVARIANTS FeaturesTypeOK
PROPERTIES SyncAddsNoDuplicate SyncListsEveryExpired LoneNoteSyncSucceeds LoneNoteSyncAnnouncesAll CommittedLinksAreLive ItemRequestKeepsOthers LoneAdoptionIsExact LoneExchangeIsSingleUse RevocationIsFinal WaitingNeverHelps CareNeverHurts LoneHouseholdWritesHold
SYMMETRY FeatureSymmetry
