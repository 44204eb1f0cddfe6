CONSTANTS
  NumPlaylists = 2
  TrackCounts = {0, 2}
  FragLens <- MCFragLens
  MaxResponse <- MCMaxResponse
  MaxErrors = 1
  CanDisconnect = TRUE
SPECIFICATION Spec
INVARIANT TypeOK
INVARIANT ResponseIsPayload
INVARIANT RequestSettledOnce
PROPERTY DownloadCompletes
