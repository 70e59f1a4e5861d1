\* The repair of up to three sources on up to three links, beside one edit and one scanned message.
CONSTANTS
  a = a
  b = b
  x = x
  i = i
  la = la
  lb = lb
  lx = lx
  li = li
  a1 = a1
  a2 = a2
  b1 = b1
  x1 = x1
  x2 = x2
  x3 = x3
  i1 = i1
  toA = toA
  inA = inA
  inX = inX
  noA = noA
  bad = bad
  m1 = m1
  m2 = m2
  j1 = j1
  j2 = j2
  c = c
  t = t
  Link = {la, lb, lx, li}
  MaxSource = 4
  Message = {m1, m2}
  Job = {j1, j2}
  Host = {a, b, x, i}
  Category = {c}
  Tag = {t}
  Url = {a1, a2, b1, x1, x2, x3, i1}
  Dirty = {toA, inA, inX, noA, bad}
  StoredAs <- MCStoredAs
  CleanOf <- MCCleanOf
  HostOf <- MCHostOf
  SentAt <- MCSentAt
  LinkOf <- MCLinkOf
  Histories <- MCHistories
  Organized <- MCOrganized
  MaxRuns = 1
  MaxOthers = 1
  Null = Null
SPECIFICATION Spec
CHECK_DEADLOCK FALSE
INVARIANTS
  TypeOK
  SourcesArePlaced
  OrganizationIsKept
  OrganizedHasCategory
  MainUrlIsNewest
  StatisticsAddUp
