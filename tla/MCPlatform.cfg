SPECIFICATION Spec
CONSTANTS
  Requests = {r1, r2}
  Ids = {1, 2}
  Emails = {e1, e2}
  Clients = {x1, x2}
  NoValue = NoValue
  MaxRequests = 3
  MaxCustomerFaults = 1
  VMs = {v1}
  Names = {1, 2}
  Admins = {a1, a2}
  NoObject = NoObject
  MaxAdmin = 2
  Hooks = {1, 2}
  Deliveries = {1}
  Creators = {c1, c2}
  Tasks = {t1}
  Processors = {p1}
  Nil = Nil
  MaxWebhooks = 1
  MaxAttempts = 2
  MaxFailCount = 2
  MaxWebhookFaults = 1
  MaxEdits = 1
  MaxSessions = 1
  MaxFailedLogins = 1
  MaxCodes = 1
  MaxAsked = 3
  MaxSessionFaults = 1
CHECK_DEADLOCK FALSE
INVARIANT SessionsAreSound
PROPERTIES  CatalogueIsSound  
