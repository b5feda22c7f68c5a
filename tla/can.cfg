SPECIFICATION Spec
CONSTANTS
  c1 = c1  c2 = c2  s1 = s1  s2 = s2  s3 = s3  s4 = s4  o1 = o1  k1 = k1  k2 = k2  k3 = k3  d1 = d1  d2 = d2
  any = any  j1 = j1  j2 = j2  m1 = m1  m2 = m2  m3 = m3  txop = txop  rxop = rxop  sync = sync
  NIL = NIL
  Cpus = {c1, c2}
  Devs = {d1, d2}
  AllDevs = any
  Slots = {s1, s2, s3, s4}
  Owners = {o1, k1, k2, k3, j1, j2, rxop}
  Socks = {k1, k2, k3}
  Deferred = {j1, j2, m1, m2, m3, txop, rxop, sync}
  Ids <- MCIds
  Filters <- MCFilterSet
  RawSocks = {k1, k2}
  RawCalls = 1
  Jobs = {j1, j2}
  Mods = {m1, m2, m3}
  JobSpecs <- MCJobSpecs
  max_hops = 3
  InFlight = 2
  BcmSock = k3
  TxOp = txop
  RxOp = rxop
  Sync = sync
  TxReqs <- MCTxReqs
  RxReqs <- MCRxReqs
  BcmFilter <- One
  BcmDev = d1
  Scenes <- MCScenes
INVARIANTS
  DeliveryExact CallbackAlive RawDelivery RawRegistered NotifierSafe HopsLimited JobAlive
  JobsListed TxIndex TxRunning OpQuiet ThrottledWatched
