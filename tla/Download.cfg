\* Three downloads of one run, two members and a directory in the archive.
SPECIFICATION DownloadSpec
CONSTANTS
  Requests = {1, 2, 3}
  Parts = 3
INVARIANTS
  LastIsWhole
  TornOnlyByOverlap
