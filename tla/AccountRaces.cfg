CONSTANTS
    a = a  b = b  c = c
    r1 = r1  r2 = r2
    admin = admin  bob = bob
    changeme = changeme  long = long
    i1 = i1
    Nobody = Nobody
    Ids = {a, b, c}
    Names = {admin, bob}
    Passwords = {changeme, long}
    Weak = {}
    AdminName = admin
    AdminPassword = changeme
    Items = {i1}
    Requests = {r1, r2}
    MaxRestarts = 1
SPECIFICATION Spec
SYMMETRY Symmetry
\* The last two users may delete each other: nobody can log in any more.
CHECK_DEADLOCK FALSE
INVARIANTS TypeOK OneUserPerName OwnersExist
PROPERTIES OnlyRaceEmpties NoRevival PasswordOwn StartsUsable
