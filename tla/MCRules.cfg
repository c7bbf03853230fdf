CONSTANTS
 Zones <- MCZones
 Losses <- MCLosses
 MaxLookups = 2
 People <- MCPeople
 Production = {"p"}
 Organizations <- MCOrganizations
 Cuts <- MCCuts
 Sites <- MCSites
 WebLosses <- MCWebLosses
 Persons <- MCPersons
 Privileges <- MCPrivileges
 Declared <- MCDeclared
 Tenants <- MCTenants
 TenantLosses <- MCTenantLosses
 Hosts <- MCHosts
 Captures <- MCCaptures
 Services <- MCServices
 Exposure = "internet"
 DbPorts = {1}
SPECIFICATION Spec
INVARIANT AccessLossSafe
INVARIANT MailLossSafe
INVARIANT WebLossSafe
INVARIANT TenantLossSafe
INVARIANT HostLossSafe
CHECK_DEADLOCK FALSE
