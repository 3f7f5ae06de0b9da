---------------------------- MODULE MCCandidateBuild ----------------------------
(* Small bounds for CandidateBuild.                                        *)
EXTENDS CandidateBuild

MCMaxRounds == [author |-> 2, remediation |-> 2, reviewer |-> 2]
MCRoleLimit == [author |-> 2, remediation |-> 2, reviewer |-> 2]
MCMaxStarts == <<3, 1>>
===============================================================================
