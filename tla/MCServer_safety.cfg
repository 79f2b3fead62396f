\* A server with room for two sessions and four addresses for its objects.
SPECIFICATION FairSpec
CONSTANTS
  MAX_CONNECTIONS_TCP_SERVER = 2
  MAX_TX_QUEUE_DEPTH = 1
  TCP_SND_BUF = 1
  MaxOrders = 2
INVARIANTS ServerIsConsistent OrdersKeepTheirOrder
PROPERTIES SessionsAreUntouched ListensAgain
