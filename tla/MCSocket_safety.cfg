\* A TCP client, three control blocks, a queue and a send buffer of three orders.
SPECIFICATION FairSpec
CONSTANTS
  Pcbs = {p1, p2, p3}
  null = null
  MAX_TX_QUEUE_DEPTH = 3
  TCP_SND_BUF = 3
  ConnectPollLimit = 3
  MaxOrders = 8
INVARIANTS SocketIsConsistent OrdersKeepTheirOrder
PROPERTIES SendingAndClosingEnd Reconnects
