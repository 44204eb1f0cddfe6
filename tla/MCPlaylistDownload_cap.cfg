CONSTANTS
  NumPlaylists = 1
  TrackCounts = {129}
  FragLens <- MCFragLens
  MaxResponse <- MCMaxResponse
  MaxErrors = 0
  CanDisconnect = FALSE
SPECIFICATION Spec
INVARIANT BrowseIdsInitialized
