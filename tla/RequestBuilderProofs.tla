------------------------ MODULE RequestBuilderProofs ------------------------
(***************************************************************************)
(* Machine-checked proofs about RequestBuilder, for every value of its    *)
(* constants that satisfies the module's assumptions.                      *)
(***************************************************************************)
EXTENDS RequestBuilder, TLAPS

(***************************************************************************)
(* What the fingerprint and certificate helpers return: a success record  *)
(* with a value of the right type, or a failure record naming an error.   *)
(***************************************************************************)
IdResults == [fp : Fingerprints, ok : {TRUE}] \cup [err : Errors, ok : {FALSE}]
LoadResults == [bundle : Bundles, ok : {TRUE}] \cup [err : Errors, ok : {FALSE}]
BuildResults == [listener : ListenerConfigs, ok : {TRUE}] \cup [err : Errors, ok : {FALSE}]

\* A hex digit has a nibble value.
LEMMA NibbleType ==
  ASSUME NEW ch, IsHexDigit(ch)
  PROVE  NibbleValue(ch) \in 0 .. 15
BY DEF IsHexDigit, NibbleValue

\* Two nibbles make a byte.
LEMMA NibblesMakeByte ==
  ASSUME NEW hi \in 0 .. 15, NEW lo \in 0 .. 15
  PROVE  16 * hi + lo \in Bytes
BY DEF Bytes

\* decode_fingerprint returns bytes or the decoding error.
LEMMA DecodeType ==
  ASSUME NEW s \in Seq(STRING)
  PROVE  DecodeFingerprint(s) \in IdResults
<1> DEFINE n == Len(s) \div 2
<1>1. CASE /\ Len(s) % 2 = 0
           /\ \A i \in 1 .. n : IsHexDigit(s[2 * i - 1]) /\ IsHexDigit(s[2 * i])
  <2>1. \A i \in 1 .. n : HexByte(s, i) \in Bytes
    <3> SUFFICES ASSUME NEW i \in 1 .. n PROVE HexByte(s, i) \in Bytes
      OBVIOUS
    <3>1. NibbleValue(s[2 * i - 1]) \in 0 .. 15 /\ NibbleValue(s[2 * i]) \in 0 .. 15
      BY <1>1, NibbleType
    <3>2. QED
      BY <3>1, NibblesMakeByte DEF HexByte
  <2>2. [i \in 1 .. n |-> HexByte(s, i)] \in Fingerprints
    BY <2>1 DEF Fingerprints
  <2>3. QED
    BY <1>1, <2>2 DEF DecodeFingerprint, IdResults
<1>2. CASE ~(/\ Len(s) % 2 = 0
             /\ \A i \in 1 .. n : IsHexDigit(s[2 * i - 1]) /\ IsHexDigit(s[2 * i]))
  BY <1>2 DEF DecodeFingerprint, IdResults, Errors
<1>3. QED
  BY <1>1, <1>2

\* get_fingerprint_from_certificate_path returns a fingerprint or an error.
LEMMA FromPathType ==
  ASSUME TypeOK, NEW p \in Paths
  PROVE  FingerprintFromPath(p) \in IdResults
<1>1. CASE fs[p] = NoFile
  BY <1>1 DEF FingerprintFromPath, IdResults, Errors
<1>2. CASE fs[p] # NoFile
  <2>1. fs[p] \in Contents
    BY <1>2 DEF TypeOK
  <2>2. Hash(fs[p]) \in Fingerprints
    BY <2>1, HashAssumption DEF Fingerprints
  <2>3. QED
    BY <1>2, <2>2 DEF FingerprintFromPath, IdResults
<1>3. QED
  BY <1>1, <1>2

\* Both "path XOR fingerprint" resolutions return a fingerprint or an error.
LEMMA IdentityType ==
  ASSUME TypeOK, NEW path \in Opt(Paths), NEW f \in Opt(HexInputs)
  PROVE  /\ ReplaceOldFingerprint(path, f) \in IdResults
         /\ RemoveFingerprint(path, f) \in IdResults
<1>1. CASE (path = None) = (f = None)
  BY <1>1 DEF ReplaceOldFingerprint, RemoveFingerprint, IdResults, Errors
<1>2. CASE path # None /\ f = None
  <2>1. path \in Paths
    BY <1>2 DEF Opt
  <2>2. QED
    BY <1>2, <2>1, FromPathType DEF ReplaceOldFingerprint, RemoveFingerprint
<1>3. CASE path = None /\ f # None
  <2>1. f \in Seq(STRING)
    BY <1>3, HexAssumption DEF Opt
  <2>2. QED
    BY <1>3, <2>1, DecodeType DEF ReplaceOldFingerprint, RemoveFingerprint
<1>4. QED
  BY <1>1, <1>2, <1>3

\* load_full_certificate returns a bundle or an error.
LEMMA LoadType ==
  ASSUME TypeOK, NEW cert \in Paths, NEW chain \in Paths, NEW key \in Paths,
         NEW v \in SUBSET TlsVersions
  PROVE  LoadFullCertificate(cert, chain, key, v) \in LoadResults
<1>1. CASE fs[cert] = NoFile \/ fs[chain] = NoFile \/ fs[key] = NoFile
  BY <1>1 DEF LoadFullCertificate, LoadResults, Errors
<1>2. CASE ~(fs[cert] = NoFile \/ fs[chain] = NoFile \/ fs[key] = NoFile)
  <2>1. fs[cert] \in Contents /\ fs[chain] \in Contents /\ fs[key] \in Contents
    BY <1>2 DEF TypeOK
  <2>2. SplitChain(fs[chain]) \in Seq(Contents)
    BY <2>1, SplitAssumption
  <2>3. QED
    BY <1>2, <2>1, <2>2 DEF LoadFullCertificate, LoadResults, Bundles
<1>3. QED
  BY <1>1, <1>2

\* Finalising a listener returns a descriptor or an error.
LEMMA BuildType ==
  ASSUME NEW proto \in ListenerTypes, NEW a \in Addresses, NEW e \in BOOLEAN,
         NEW v \in SUBSET TlsVersions, NEW c \in Opt(CipherLists)
  PROVE  BuildListener(proto, a, e, v, c) \in BuildResults
BY TlsAssumption DEF BuildListener, BuildResults, ListenerConfigs, Errors, Opt

(***************************************************************************)
(* The three ways an invocation ends keep out and result typed.           *)
(***************************************************************************)
OutType == {NoRequest} \cup [req : Requests, to : {"one", "all"}]

LEMMA OrderType ==
  ASSUME NEW req \in Requests, OrderRequest(req) \/ OrderRequestToAllWorkers(req)
  PROVE  out' \in OutType /\ result' \in {"Ok"} \cup Errors
BY DEF OrderRequest, OrderRequestToAllWorkers, OutType

LEMMA FailType ==
  ASSUME NEW err \in Errors, Fail(err)
  PROVE  out' \in OutType /\ result' \in {"Ok"} \cup Errors
BY DEF Fail, OutType

(***************************************************************************)
(* Type correctness: in every reachable state the disk maps paths to      *)
(* contents, the last request handed to the transport is a well-formed    *)
(* protocol message (listener requests carry a parsed SocketAddr,        *)
(* certificate requests a loaded bundle and a byte fingerprint), and the  *)
(* result is Ok or one of the layer's errors.                              *)
(***************************************************************************)
THEOREM TypeCorrect == Spec => []TypeOK
<1>1. Init => TypeOK
  BY DEF Init, TypeOK, NoRequest, Opt
<1>2. TypeOK /\ [Next]_vars => TypeOK'
  <2> SUFFICES ASSUME TypeOK, [Next]_vars PROVE TypeOK'
    OBVIOUS
  <2> USE DEF TypeOK
  <2> DEFINE OK == out' \in OutType /\ result' \in {"Ok"} \cup Errors
  <2>a. OK /\ OtherCall => TypeOK'
    BY DEF OutType, OtherCall, Opt
  <2>1. ASSUME NEW p \in Paths, SaveState(p) \/ LoadState(p) PROVE TypeOK'
    BY <2>1, <2>a, OrderType DEF SaveState, LoadState, Requests
  <2>2. CASE DumpState \/ SoftStop \/ HardStop \/ Status \/ Events \/ ListListeners
    BY <2>2, <2>a, OrderType
       DEF DumpState, SoftStop, HardStop, Status, Events, ListListeners, Requests
  <2>3. ASSUME NEW m \in MetricsCmds, ConfigureMetrics(m) PROVE TypeOK'
    <3>1. CASE m \in {"Enable", "Disable", "Clear"}
      BY <2>3, <3>1, <2>a, OrderType DEF ConfigureMetrics, Requests
    <3>2. CASE m \notin {"Enable", "Disable", "Clear"}
      BY <2>3, <3>2, <2>a, FailType DEF ConfigureMetrics, Errors
    <3>3. QED
      BY <3>1, <3>2
  <2>4. ASSUME NEW p \in Opt(Paths), ReloadConfiguration(p) PROVE TypeOK'
    BY <2>4, <2>a, OrderType DEF ReloadConfiguration, Requests
  <2>5. ASSUME NEW h \in BOOLEAN, NEW hs \in BOOLEAN, NEW t \in BOOLEAN,
               NEW d \in Opt(Hostnames), ListFrontends(h, hs, t, d)
        PROVE TypeOK'
    BY <2>5, <2>a, OrderType DEF ListFrontends, Requests
  <2>6. ASSUME NEW id \in ClusterIds, NEW b \in BackendIds, NEW a \in Addresses,
               \/ \E st \in Opt(StickyIds), bk \in Opt(BOOLEAN) : BackendAdd(id, b, a, st, bk)
               \/ BackendRemove(id, b, a)
        PROVE TypeOK'
    BY <2>6, <2>a, OrderType DEF BackendAdd, BackendRemove, Requests
  <2>7. ASSUME NEW id \in ClusterIds,
               \/ \E ss, hr, sp, ep \in BOOLEAN, lb \in LBPolicies :
                     ClusterAdd(id, ss, hr, sp, ep, lb)
               \/ ClusterRemove(id)
        PROVE TypeOK'
    <3>1. \A sp, ep \in BOOLEAN : ProxyProtocol(sp, ep) \in ProxyModes
      BY DEF ProxyProtocol, ProxyModes
    <3>2. CASE \E ss, hr, sp, ep \in BOOLEAN, lb \in LBPolicies :
                 ClusterAdd(id, ss, hr, sp, ep, lb)
      <4>1. PICK ss, hr, sp, ep \in BOOLEAN, lb \in LBPolicies :
                 ClusterAdd(id, ss, hr, sp, ep, lb)
        BY <3>2
      <4>2. [cluster_id |-> id, https_redirect |-> hr, load_balancing |-> lb,
             proxy_protocol |-> ProxyProtocol(sp, ep), sticky_session |-> ss,
             type |-> "AddCluster"] \in Requests
        BY <3>1 DEF Requests
      <4>3. QED
        BY <4>1, <4>2, <2>a, OrderType DEF ClusterAdd
    <3>3. CASE ClusterRemove(id)
      BY <3>3, <2>a, OrderType DEF ClusterRemove, Requests
    <3>4. QED
      BY <2>7, <3>2, <3>3
  <2>8. ASSUME NEW id \in ClusterIds, NEW a \in Addresses,
               \/ \E t \in Opt(TagMaps) : TcpFrontendAdd(id, a, t)
               \/ TcpFrontendRemove(id, a)
        PROVE TypeOK'
    BY <2>8, <2>a, OrderType DEF TcpFrontendAdd, TcpFrontendRemove, Requests, Opt
  <2>9. CASE FrontendCommand
    <3>1. \A pr, rg, eq \in Opt(PathValues) : PathRuleFromCliOptions(pr, rg, eq) \in PathRules
      BY DEF PathRuleFromCliOptions, PathRules, Opt
    <3>2. \A po \in PathOptions : po[1] \in Opt(PathValues) /\ po[2] \in Opt(PathValues)
                                 /\ po[3] \in Opt(PathValues)
      BY DEF PathOptions, Opt
    <3>3. \A ty \in {"AddHttpFrontend", "RemoveHttpFrontend", "AddHttpsFrontend",
                    "RemoveHttpsFrontend"},
             r \in ClusterIds, a \in Addresses, h \in Hostnames, po \in PathOptions,
             m \in Opt(Methods), t \in Opt(TagMaps) :
            HttpFrontendRequest(ty, r, a, h, po[1], po[2], po[3], m, t) \in Requests
      BY <3>1, <3>2 DEF HttpFrontendRequest, Requests, Opt
    <3>4. PICK op \in {"Add", "Remove"}, r \in ClusterIds, a \in Addresses, h \in Hostnames,
               po \in PathOptions, m \in Opt(Methods), t \in Opt(TagMaps) :
            \/ HttpFrontendCommand(op, r, a, h, po[1], po[2], po[3], m, t)
            \/ HttpsFrontendCommand(op, r, a, h, po[1], po[2], po[3], m, t)
      BY <2>9 DEF FrontendCommand
    <3>5. None \in Opt(TagMaps)
      BY DEF Opt
    <3>6. QED
      BY <3>3, <3>4, <3>5, <2>a, OrderType DEF HttpFrontendCommand, HttpsFrontendCommand
  <2>10. ASSUME NEW a \in Addresses, NEW ty \in {"RemoveListener", "ActivateListener",
                                                  "DeactivateListener"},
                NEW pr \in ListenerTypes, ListenerRequest(ty, a, pr)
         PROVE TypeOK'
    BY <2>10, <2>a, OrderType, FailType DEF ListenerRequest, Requests, Errors
  <2>11. ASSUME NEW ty \in {"AddHttpsListener", "AddHttpListener", "AddTcpListener"},
                NEW built \in BuildResults, AddListener(ty, built)
         PROVE TypeOK'
    BY <2>11, <2>a, OrderType, FailType DEF AddListener, BuildResults, Requests
  <2>12. CASE HttpsListenerCommand \/ HttpListenerCommand \/ TcpListenerCommand
    <3>1. {} \in SUBSET TlsVersions /\ None \in Opt(CipherLists)
      BY DEF Opt
    <3>2. QED
      BY <2>12, <2>10, <2>11, <3>1, BuildType
         DEF HttpsListenerCommand, HttpListenerCommand, TcpListenerCommand,
             RemoveListener, ActivateListener, DeactivateListener,
             HttpsListenerAdd, HttpListenerAdd, TcpListenerAdd, ListenerTypes
  <2>13. ASSUME NEW l \in LoggingLevels, LoggingFilter(l) PROVE TypeOK'
    BY <2>13, <2>a, OrderType, LoggingAssumption DEF LoggingFilter, Requests
  <2>14. ASSUME NEW a \in Addresses, NEW cert \in Paths, NEW chain \in Paths,
                NEW key \in Paths, NEW v \in SUBSET TlsVersions,
                AddCertificate(a, cert, chain, key, v)
         PROVE TypeOK'
    BY <2>14, <2>a, OrderType, FailType, LoadType
       DEF AddCertificate, LoadResults, Requests
  <2>15. ASSUME NEW a \in Addresses, NEW cert \in Paths, NEW chain \in Paths,
                NEW key \in Paths, NEW v \in SUBSET TlsVersions,
                NEW op \in Opt(Paths), NEW of \in Opt(HexInputs),
                ReplaceCertificate(a, cert, chain, key, op, of, v)
         PROVE TypeOK'
    <3>1. ReplaceOldFingerprint(op, of) \in IdResults
      BY IdentityType
    <3>2. LoadFullCertificate(cert, chain, key, v) \in LoadResults
      BY LoadType
    <3>3. out' \in OutType /\ result' \in {"Ok"} \cup Errors
      BY <2>15, <3>1, <3>2, OrderType, FailType
         DEF ReplaceCertificate, IdResults, LoadResults, Requests
    <3>4. QED
      BY <2>15, <3>3 DEF ReplaceCertificate, OutType
  <2>16. ASSUME NEW a \in Addresses, NEW op \in Opt(Paths), NEW of \in Opt(HexInputs),
                RemoveCertificate(a, op, of)
         PROVE TypeOK'
    <3>1. RemoveFingerprint(op, of) \in IdResults
      BY IdentityType
    <3>2. out' \in OutType /\ result' \in {"Ok"} \cup Errors
      BY <2>16, <3>1, OrderType, FailType DEF RemoveCertificate, IdResults, Requests
    <3>3. QED
      BY <2>16, <3>2 DEF RemoveCertificate, OutType
  <2>17. CASE CertificateCommand
    BY <2>17, <2>14, <2>15, <2>16 DEF CertificateCommand
  <2>18. ASSUME NEW p \in Paths, NEW c \in Contents \cup {NoFile}, WriteFile(p, c)
         PROVE TypeOK'
    BY <2>18 DEF WriteFile
  <2>19. CASE UNCHANGED vars
    BY <2>19 DEF vars
  <2>20. QED
    BY <2>1, <2>2, <2>3, <2>4, <2>5, <2>6, <2>7, <2>8, <2>9, <2>12, <2>13, <2>17,
       <2>18, <2>19 DEF Next
<1>3. QED
  BY <1>1, <1>2, PTL DEF Spec

=============================================================================
