--------------------------- MODULE MCProvisioning ---------------------------
(* Instances of Provisioning for TLC and for the proofs, under names that  *)
(* no other module has. Tenants but for Home are interchangeable, and so   *)
(* are requests.                                                           *)
EXTENDS Naturals, TLC

CONSTANTS
    People,       \* Users of Provisioning
    PlatformAdmins, Tenants, Home,
    Visitors,     \* Clients of Provisioning
    MaxCuts       \* MaxFailures of Provisioning

VARIABLES
    tenants, claim, account, identity, keycard, role, recent, founder,
    memberRow,   \* member of Provisioning
    cuts,         \* failures of Provisioning
    joinRequest   \* request of Provisioning

Accounts == INSTANCE Provisioning
    WITH Users <- People, Clients <- Visitors, MaxFailures <- MaxCuts,
         member <- memberRow, failures <- cuts, request <- joinRequest

ASSUME AccountsAssumption == Accounts!HomeAssumption

AccountsSpec == Accounts!Spec

(* The properties of Provisioning.                                         *)
AccountsTypeOK == Accounts!TypeOK
AdminsAreFounders == Accounts!AdminsAreFounders
RegisteredCanLogin == Accounts!RegisteredCanLogin
CutOffCanLogin == Accounts!CutOffCanLogin
TenantsHaveMembers == Accounts!TenantsHaveMembers
LoginPicksMostRecent == Accounts!LoginPicksMostRecent
PlatformAdminsAreElevated == Accounts!PlatformAdminsAreElevated

AccountSymmetry == Permutations(Tenants \ {Home}) \cup Permutations(Visitors)
=============================================================================
