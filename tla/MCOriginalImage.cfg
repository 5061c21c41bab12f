SPECIFICATION OPSpec
CONSTANTS
  ImageTags = {"Vendor", "Model"}
  Values = {"v"}
  NoKey = NoKey
  NoValue = NoValue
  Absent = Absent
  Tickets <- TicketOfTests
  Filenames = {"cmyk.jpg"}
  AbsoluteNames = {}
  NoName = NoName
  Formats = {"JPEG", "PSD", "PDF"}
  ExivFormats = {"JPEG", "PSD"}
  Profiles = {"iso", "other"}
  Installed = {"iso"}
  Paths = {"web", "print"}
  Sizes = {"small", "large"}
  NoImage = NoImage
  NoFile = NoFile
  Documents <- MCDocuments
  MaxLayers = 2
PROPERTIES
  OriginalImageUnchanged
