CONSTANTS
  Images = {i1, i2, i3}
  Tagged = {i2, i3}
  Existing = Existing
  None = None
  Threads = {t1, t2}
  Patterns <- MCPatterns
  FullSize = 600
  ThumbSize = 200
  TeamSizes = {1, 2}
  a1 = a1
  a2 = a2
  b1 = b1
  a3 = a3
  AttachmentRoom = 2
  NoImage = NoImage
  Users = {alice, bob}
  MaxAlbums = 2
  Contexts = {c1, c2, c3}
  NoContext = NoContext
  NewAlbum = NewAlbum
  NoAlbum = NoAlbum
  NoUser = NoUser
SPECIFICATION MCSpec
SYMMETRY Interchangeable
INVARIANT StoragesTyped
INVARIANT SizesKeptApart
INVARIANT PagesFormRing
INVARIANT ZeroLeavesNothing
INVARIANT AlbumsAsChosen
INVARIANT OneAlbum
INVARIANT ResultTellsUpload
INVARIANT MailAsExported
INVARIANT AlbumAsShown
PROPERTY ContextsOwned
PROPERTY JobsPresented
