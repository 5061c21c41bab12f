SPECIFICATION LSpec
CONSTANTS
  Names = {"fish", "zoom"}
  Mounts = {"Generic"}
  Cameras = {"dc", "new"}
  Files = {"user", "other"}
  Focals = {10}
  Factors = {1}
  Vectors <- MCVectors
  Installed <- MCInstalled
  UserFile = "user"
  Contents <- MCContents
  NoMount = NoMount
  Null = Null
  MaxCalls = 4
INVARIANTS
  MemorySafe
  CalibratedOnce
  AnswersAboutAsked
PROPERTIES
  RestOfFileKept
