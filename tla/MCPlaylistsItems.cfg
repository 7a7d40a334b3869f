CONSTANTS
  Clients = {c1, c2}
  Calls <- MCCalls
  a = a
  b = b
  Characters = {a, b}
  Names <- MCNames
  t1 = t1
  t2 = t2
  Tracks = {t1, t2}
  Infinite = 9
  ActivePlaylist = ActivePlaylist
  None = None
  MaxPlaylists = 2
  MaxItems = 2
SYMMETRY ClientSymmetry
SPECIFICATION Spec
PROPERTIES AskedItemsReturned
