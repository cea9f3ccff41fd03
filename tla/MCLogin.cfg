SPECIFICATION Spec
CONSTANTS
    c1 = c1  c2 = c2  c3 = c3
    t1 = t1  t2 = t2
    Conns = {c1, c2, c3}
    Threads = {t1, t2}
    ThreadOf <- MCThreadOf
    Addrs = {a1, a2}
    Users = {u1, u2}
    k0 = k0
    Keys = {k0, k1, k2}
    EmptyKey = k0
    MaxMessages = 3
    NoConn = NoConn  NoAddr = NoAddr  NoUser = NoUser  NoKey = NoKey  NoCert = NoCert
SYMMETRY MCSymmetry
INVARIANTS
    TypeOK
    NameIsProved
    GreetingDecides
