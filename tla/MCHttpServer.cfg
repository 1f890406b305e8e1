CONSTANTS
  NumReloads = 2
  Endpoints <- EndpointSet
  Templates = {"t1", "t2", "bad"}
  BadTemplates = {"bad"}
  SnmpPaths = {"/snmp/get"}
  Requests = {q1, q2}
  Inputs <- InputSet
SPECIFICATION FairSpec
INVARIANTS
  TypeOK
  PublishedRoutersAreComplete
  HandlerMatchesConfig
  AnswersFromOneConfig
PROPERTIES
  ImplementsServedConfig
  ReloadsFinish
  RequestsFinish
CHECK_DEADLOCK FALSE
