SPECIFICATION FairSpec
CONSTANTS
  Client = {a, b, c}
  Other = {c}
  v1 = v1
  v2 = v2
  NomsVersion <- MCNomsVersion
  Root = {EmptyHash, r1}
  Specs = {s1}
  EmptyHash = EmptyHash
  Absent = Absent
  NoOne = NoOne
PROPERTIES ImplementsManifest CallsReturn
