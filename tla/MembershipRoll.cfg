\* One admin who waits for answers, beside the form, over a list in which two members
\* share a phone number.
SPECIFICATION MembershipSpec
CONSTANTS
  c1 = c1  c2 = c2  c3 = c3  p1 = p1  p2 = p2
  Cpr = {c1, c2, c3}  Phone = {p1, p2}  None = None
  Seed <- TwoImported
  MaxApp = 2  MaxMember = 4
  Token = {}
  Registrant = {r1}  Clerk = {a1}
  Duties = {"approve", "app_status", "delete_app", "update", "delete"}
INVARIANTS PhoneSharedByImports
PROPERTIES RollSpec
