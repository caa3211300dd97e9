\* Two admins at once decide the same application, put it back, delete it or its
\* member, and open and shut the form while it takes more.
SPECIFICATION MembershipSpec
CONSTANTS
  c1 = c1  c2 = c2  c3 = c3  p1 = p1  p2 = p2
  Cpr = {c1, c2}  Phone = {p1, p2}  None = None
  Seed <- NoneImported
  MaxApp = 2  MaxMember = 2
  Token = {}
  Registrant = {r1}  Clerk = {a1, a2}
  Duties = {"approve", "app_status", "delete_app", "status", "delete", "window"}
SYMMETRY DeskSymmetry
INVARIANTS ApprovedHasMember OneMemberPerApplication
PROPERTIES LateRegistrations
