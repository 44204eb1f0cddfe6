CONSTANTS
  NumPlaylists = 1
  TrackCounts = {2}
  FragLens <- MCFragLens
  MaxResponse <- MCMaxResponse
  MaxErrors = 1
  CanDisconnect = FALSE
SPECIFICATION Spec
INVARIANT BrowseErrorSticky
