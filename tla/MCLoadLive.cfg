CONSTANTS
  Paths = {p1, p2}
  cert1 = cert1
  cert2 = cert2
  key1 = key1
  chain12 = chain12
  chain1 = chain1
  Contents <- MCLoadContents
  NoFile = NoFile
  None = None
  Addresses = {a1}
  ValidAddrs = {a1}
  HexInputs <- MCLoadHexInputs
  MaxWritesPerCall = 1
  FPWidth = 1
  Hash <- MCHash
  SplitChain <- MCLoadSplitChain
  ClusterIds = {c1}
  BackendIds = {b1}
  Hostnames = {h1}
  Methods = {m1}
  TagMaps = {t1}
  LBPolicies = {RoundRobin}
  TlsVersions = {"TLSv1_3"}
  DefaultTlsVersions = {"TLSv1_3"}
  CipherLists = {ciphers1, defaultCiphers}
  DefaultCipherList = defaultCiphers
  MetricsCmds = {"Enable", "Disable", "Clear", "Get"}
  StickyIds = {s1}
  PathValues = {v1}
  LoggingLevels = {"Info", "Debug"}
  LevelFilter <- MCLevelFilter
SPECIFICATION LoadSpec
PROPERTY CallReturns
