---------------------------- MODULE MCDomainScan ----------------------------
EXTENDS DomainScan

MCLimit == [k \in Kind |-> 1]
=============================================================================
