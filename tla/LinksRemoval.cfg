\* The removal of a category meets a restoration.
CONSTANTS
  Link = {l1}
  h1 = h1
  h2 = h2
  m1 = m1
  m2 = m2
  m3 = m3
  Host = {h1}
  Category = {c1}
  Message = {m2}
  HostsOf <- MCHostsOf
  SentAt <- MCSentAt
  Defaults <- DefaultsNone
  Editor = {e1}
  Patches <- PatchesOfState
  Null = Null
  Keep = Keep
SPECIFICATION Spec
SYMMETRY Rows
PROPERTY RemovalArchives
