INIT ProxyInit
NEXT ProxyNext

CONSTANTS
    Conns = {c1}
    Hosts = {"api", "other"}
    Allowed = {"api", "other"}
    Addresses = {"public"}
    Permitted = {"public"}
    MaxRequests = 2

INVARIANT RequestsReachTheirHost

CHECK_DEADLOCK FALSE
