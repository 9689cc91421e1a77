SPECIFICATION CpSpec
CONSTANTS
  Tenants = {t1, t2}
  ApiKeys = {a1, a2}
  Requests = {r1, r2}
  Names = {n1}
  Keys = {k1}
  None = None
  MaxWorkflows = 2
  MaxEvents = 4
SYMMETRY Symmetry
INVARIANTS
  CpTypeOK
  TenantsApart
  AuditTrail
PROPERTIES
  RevokedStaysOut
  ImplementsRunStore
