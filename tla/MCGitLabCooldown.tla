------------------------- MODULE MCGitLabCooldown -------------------------
(* Instances of GitLabCooldown for TLC.                                    *)
EXTENDS GitLabCooldown

CONSTANTS a, b, org

OneOrg == <<a, b>>
OrgOf == [s \in {a, b} |-> org]
===========================================================================
