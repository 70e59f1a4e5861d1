\* Who writes the URL: two links, two hosts, three messages, one edit, no categories.
CONSTANTS
  Link = {l1, l2}
  h1 = h1
  h2 = h2
  m1 = m1
  m2 = m2
  m3 = m3
  Host = {h1, h2}
  Category = {}
  Message = {m1, m2, m3}
  HostsOf <- MCHostsOf
  SentAt <- MCSentAt
  Defaults <- DefaultsNone
  Editor = {e1}
  Patches <- PatchesOfUrl
  Null = Null
  Keep = Keep
SPECIFICATION Spec
SYMMETRY Rows
INVARIANTS
  TypeOK
  NewestUnlessEdited
