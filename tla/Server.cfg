SPECIFICATION Spec
CONSTANTS
    Clients = {t1, t2}
    Main = t1
    Fds <- MCFds
    Fns <- MCFns
    ClientFds <- MCClientFds
    ClientFns = {fn1}
    OwnerOf <- MCOwnerOf
    kNoAffinity = 99
    Racing = FALSE
    MaxSilos = 2
    MaxSheds = 1
    Conns = {c1, c2}
    Listen = listen
    f1 = f1
    f2 = f2
    fn1 = fn1
    A = A
    Foci = {"epoller", "server"}
INVARIANT HandlerInOneSilo
PROPERTIES
    ItemsSettle
    PrimeFindsSocket
    ConnectionsSettle
CHECK_DEADLOCK FALSE
