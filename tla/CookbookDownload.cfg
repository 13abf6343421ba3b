SPECIFICATION Spec
CONSTANTS
  d1 = d1
  d2 = d2
  d3 = d3
  d4 = d4
  b1 = b1
  b2 = b2
  Bytes <- MCBytes
  Downloads <- MCDownloads
  DirOf <- MCDirOf
  AllFilesManifest <- MCAllFiles
  Segments <- MCSegments
INVARIANTS
  AllOrNothingChecked
  NilMeansWhole
