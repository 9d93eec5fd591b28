SPECIFICATION RecordsSpec
CONSTANTS
  w1 = w1
  w2 = w2
  x1 = x1
  x2 = x2
  g1 = g1
  k1 = k1
  f1 = f1
  v1 = v1
  ReviewBatches = {x1, x2}
  Members = {w1, w2, v1}
  Unbatched = Unbatched
  MaxDay = 2
  DayLimit = 3
  MaxResolutions = 3
  ImportWorkers = {w1, w2}
  Mappings = {"m1", "m2"}
  RowCount = 2
  EmailAt <- MCEmailAt
  TagAt <- MCTagAt
  BadEmail = "bad"
  NoMapping = NoMapping
  KnownContacts = {}
  KnownTags = {"t"}
  MaxTries = 2
  MaxValidations = 2
  Listings = {"l1", "l2"}
  Syncers = {w1, w2}
  PageSize = 1
  MaxPages = 2
  MaxPublished = 3
  Nobody = Nobody
  AgentIds = {x1, x2}
  Roster = {"m1", "m2"}
  Mails = {"e1", "e2"}
  Requests = {w1, w2}
  MaxEdits = 2
  Copiers = {w1, w2}
  Photos = 2
  MaxPhotoEdits = 2
  Subscribers = {1, 2, 3, 4}
  MailOf <- MCMailOf
  StatusOf <- MCStatusOf
  BadMail = "bad"
  LegacyTags = {g1}
  TagsOf <- MCTagsOf
  LegacyCampaigns = {k1}
  AssetsOf <- MCAssetsOf
  Files = {f1}
  MaxRuns = 2
  MaxChanges = 1
  Accounts = {1, 2, 3, 4}
  PortalAgents = {x1, x2}
  Identities = {"o1", "o2"}
  Addresses = {"m1", "m2"}
  BootstrapMail = {"m1"}
  AutoProvision = FALSE
  Nil = Nil
  MaxAdministration = 2
  Windows = {"window"}
  Texts = {"t1", "t2"}
  Links = {"x"}
  Nothing = Nothing
  MaxRevision = 2
  MaxTyped = 2
  Reducers = {w1, w2}
  Recomputers = {"c"}
  MinSampleSize = 1
  BouncePercent = 50
  NoSnapshot = NoSnapshot
  MaxFacts = 1
  MaxBucket = 2
  MaxFaults = 1
  ContactCount = 3
  ContactsAtFirst = 2
  ListLimit = 1
  MaxContactChanges = 2
INVARIANTS RecordsTypeOK  ImportAccounted SyncLosesNothing ImportedListingCoherent GalleryOnce LegacyCovered AccountNotShared SavedMeansStored StatsCatchUp PagingComplete
SYMMETRY MCSymmetry
CHECK_DEADLOCK FALSE
