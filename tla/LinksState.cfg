\* Who writes status and category: one link, two categories, a scan, two edits, removals.
CONSTANTS
  Link = {l1}
  h1 = h1
  h2 = h2
  m1 = m1
  m2 = m2
  m3 = m3
  Host = {h1}
  Category = {c1, c2}
  Message = {m2}
  HostsOf <- MCHostsOf
  SentAt <- MCSentAt
  Defaults <- DefaultsComplete
  Editor = {e1, e2}
  Patches <- PatchesOfState
  Null = Null
  Keep = Keep
SPECIFICATION Spec
SYMMETRY Rows
INVARIANTS
  OrganizedHasCategory
