SPECIFICATION Spec
CONSTANTS
    Requests = {r1}
    Clients = {alice}
    NoClient = NoClient
    RqOrders <- MCRqOrders
INVARIANTS TypeOK SavesPerRequest RowsTellTheTruth RowBeforeUpdate
PROPERTIES NeverRewritten EveryRequestEnds UpdatesEnd
CHECK_DEADLOCK FALSE
