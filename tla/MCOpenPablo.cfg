SPECIFICATION OPSpec
CONSTANTS
  ImageTags = {"Vendor", "Model"}
  Values = {"v"}
  NoKey = NoKey
  NoValue = NoValue
  Absent = Absent
  Tickets <- MCTickets
  Filenames = {"cmyk.jpg", "/data/cmyk.jpg"}
  AbsoluteNames = {"/data/cmyk.jpg"}
  NoName = NoName
  Formats = {"JPEG", "PSD", "PDF"}
  ExivFormats = {"JPEG", "PSD"}
  Profiles = {"iso", "other"}
  Installed = {"iso"}
  Paths = {"web", "print"}
  Sizes = {"small", "large"}
  NoImage = NoImage
  NoFile = NoFile
  Documents <- MCDocuments
  MaxLayers = 2
INVARIANTS
  DeliveredPrefix
  EnhancedExactlyOnce
  NoSinkLost
  FileIsUniform
  CleanExit
  ReportIsComplete
PROPERTIES
  PromiseKept
  RunEnds
