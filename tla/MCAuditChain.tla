---------------------------- MODULE MCAuditChain ----------------------------
EXTENDS AuditChain

CONSTANTS t1, t2, t3, lower, upper

MCRequests == {t1, t2, t3}

MCAddresses == {lower, upper}

MCInet == [a \in MCAddresses |-> lower]

=============================================================================
