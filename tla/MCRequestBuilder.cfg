CONSTANTS
  Paths = {p1, p2}
  cert1 = cert1
  cert2 = cert2
  key1 = key1
  chain12 = chain12
  Contents <- MCContents
  NoFile = NoFile
  None = None
  Addresses = {a1, bad}
  ValidAddrs = {a1}
  HexInputs <- MCDispatchHexInputs
  FPWidth = 1
  Hash <- MCHash
  SplitChain <- MCSplitChain
  ClusterIds = {c1}
  BackendIds = {b1}
  Hostnames = {h1}
  Methods = {m1}
  TagMaps = {t1}
  LBPolicies = {RoundRobin}
  TlsVersions = {"TLSv1_3"}
  DefaultTlsVersions = {"TLSv1_3"}
  CipherLists = {ciphers1, defaultCiphers}
  DefaultCipherList = defaultCiphers
  MetricsCmds = {"Enable", "Disable", "Clear", "Get"}
  StickyIds = {s1}
  PathValues = {v1}
  LoggingLevels = {"Info", "Debug"}
  LevelFilter <- MCLevelFilter
SYMMETRY PathSymmetry
INIT Init
NEXT Next
INVARIANTS
  TypeOK
  IdentityFlowsAgree
