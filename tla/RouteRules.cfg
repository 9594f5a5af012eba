SPECIFICATION WalkSpec
CONSTANTS
    Width = 2
    h1 = h1
    h2 = h2
    Hosts = {h1, h2}
    Ports = {22, 80}
    RuleLists <- MCRuleLists
    DNSAnswers <- MCDNSAnswers
    Fails = Fails
    V6 = V6
    None = None
INVARIANTS WalkTypeOK AddressTypeFits HostPartKept FirstMatchDecides
CHECK_DEADLOCK FALSE
