\* Three sessions, two challenges, two concurrent requests, failures and restarts.
CONSTANTS
  Session = {s1, s2, s3}
  Challenge = {h1, h2}
  Call = {r1, r2}
  Null = Null
SPECIFICATION Spec
SYMMETRY Rows
INVARIANTS
  TypeOK
  LogoutIsFinal
  LoginIsKept
  PasswordFollowsCode
