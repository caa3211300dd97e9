SPECIFICATION FairSessionsSpec
CONSTANTS
  c1 = c1  c2 = c2  p1 = p1  p2 = p2
  Cpr = {c1, c2}  Phone = {p1}  None = None
  Seed <- OneImported
  MaxApp = 1  MaxMember = 2
  Token = {t1, t2}
  Registrant = {r1}  Clerk = {a1}  Browser = {b1}
  Duties = {"approve", "status", "delete", "window"}
INVARIANTS SessionsTypeOK
PROPERTIES FreshMember WithdrawnRunOut WithdrawnLoseAccess RegistrationSettles
