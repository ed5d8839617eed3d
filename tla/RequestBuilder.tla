--------------------------- MODULE RequestBuilder ---------------------------
(***************************************************************************)
(* The request-translation layer of the sozu control client               *)
(* (src/bin/src/ctl/request_builder.rs).  Each public method of           *)
(* CommandManager takes one operator command, possibly reads certificate  *)
(* files from the local disk, and either hands exactly one Request to the *)
(* transport (order_request / order_request_to_all_workers) or returns an *)
(* error before anything is handed over.                                   *)
(*                                                                         *)
(* One invocation of a method is one atomic step: the layer is            *)
(* single-threaded and keeps no state between invocations.  What persists *)
(* between steps is the disk (fs), which other processes (an operator, a  *)
(* certificate-renewal tool) may rewrite between two invocations, and the *)
(* last request handed to the transport (out) together with the method's  *)
(* result.                                                                 *)
(***************************************************************************)
EXTENDS Naturals, Sequences, FiniteSets

CONSTANTS
  Paths,            \* file paths an operator may name
  Contents,         \* possible contents of a file
  NoFile,           \* fs[p] = NoFile: p cannot be read
  None,             \* the Option::None of every optional argument
  Addresses,        \* address strings an operator may type
  ValidAddrs,       \* the ones that parse as a SocketAddr
  HexInputs,        \* fingerprint strings (tuples of 1-char strings)
  FPWidth,          \* byte length of a real certificate fingerprint
  Hash(_),          \* calculate_fingerprint: content -> fingerprint bytes
  SplitChain(_),    \* split_certificate_chain: content -> certificates
  ClusterIds, BackendIds, Hostnames, Methods, TagMaps, LBPolicies,
  TlsVersions, DefaultTlsVersions, CipherLists, DefaultCipherList,
  MetricsCmds,      \* variants of MetricsCmd
  StickyIds, PathValues,
  LoggingLevels,    \* variants of LoggingLevel
  LevelFilter(_)    \* filter.to_string().to_lowercase()

Bytes == 0 .. 255

ASSUME ContentsAssumption == NoFile \notin Contents /\ None \notin Contents
ASSUME AddrAssumption == ValidAddrs \subseteq Addresses /\ None \notin Addresses
ASSUME HashAssumption ==
  /\ FPWidth \in Nat \ {0}
  /\ \A c \in Contents : Hash(c) \in [1 .. FPWidth -> Bytes]
ASSUME SplitAssumption == \A c \in Contents : SplitChain(c) \in Seq(Contents)
ASSUME HexAssumption == HexInputs \subseteq Seq(STRING)
ASSUME MetricsAssumption == {"Enable", "Disable", "Clear"} \subseteq MetricsCmds
ASSUME LoggingAssumption == \A l \in LoggingLevels : LevelFilter(l) \in STRING
ASSUME TlsAssumption ==
  /\ DefaultTlsVersions \in SUBSET TlsVersions
  /\ DefaultCipherList \in CipherLists

VARIABLES
  fs,       \* the local disk: path -> content, or NoFile
  out,      \* the request handed to the transport by the last invocation
  result,   \* "Ok", or the error the last invocation returned
  identity  \* history: the (old path, old fingerprint) options of the last
            \* call if it was replace_certificate or remove_certificate

vars == << fs, out, result, identity >>

NoRequest == [kind |-> "NoRequest"]
Opt(S) == S \cup {None}

ListenerTypes == {"HTTP", "HTTPS", "TCP"}
ProxyModes == {"RelayHeader", "SendHeader", "ExpectHeader", None}
Errors == {"MetricsCmdWrong", "ListenerBuild", "WrongSocketAddress",
           "EitherPathOrFingerprint", "FingerprintFromPath",
           "FingerprintDecode", "LoadCertificate"}

(***************************************************************************)
(* Hexadecimal decoding of an operator-supplied fingerprint (hex::decode  *)
(* as called by decode_fingerprint): an odd length is rejected, then each *)
(* pair of characters is one byte, high nibble first, both cases allowed. *)
(***************************************************************************)
LowerDigits == <<"0","1","2","3","4","5","6","7","8","9","a","b","c","d","e","f">>
UpperDigits == <<"0","1","2","3","4","5","6","7","8","9","A","B","C","D","E","F">>
IsHexDigit(ch) == \E v \in 0 .. 15 : ch = LowerDigits[v + 1] \/ ch = UpperDigits[v + 1]
NibbleValue(ch) == CHOOSE v \in 0 .. 15 : ch = LowerDigits[v + 1] \/ ch = UpperDigits[v + 1]

HexByte(s, i) == 16 * NibbleValue(s[2 * i - 1]) + NibbleValue(s[2 * i])

\* Defect for validation: the two nibbles of a byte taken low first.
DecodeFingerprintLowNibbleFirst(s) ==
  IF /\ Len(s) % 2 = 0
     /\ \A i \in 1 .. Len(s) \div 2 : IsHexDigit(s[2 * i - 1]) /\ IsHexDigit(s[2 * i])
  THEN [fp |-> [i \in 1 .. Len(s) \div 2 |->
                              NibbleValue(s[2 * i - 1]) + 16 * NibbleValue(s[2 * i])], ok |-> TRUE]
  ELSE [err |-> "FingerprintDecode", ok |-> FALSE]

DecodeFingerprint(s) ==
  IF /\ Len(s) % 2 = 0
     /\ \A i \in 1 .. Len(s) \div 2 : IsHexDigit(s[2 * i - 1]) /\ IsHexDigit(s[2 * i])
  THEN [fp |-> [i \in 1 .. Len(s) \div 2 |-> HexByte(s, i)], ok |-> TRUE]
  ELSE [err |-> "FingerprintDecode", ok |-> FALSE]

(***************************************************************************)
(* get_fingerprint_from_certificate_path: read the file, hash its bytes.  *)
(***************************************************************************)
FingerprintFromPath(p) ==
  IF fs[p] = NoFile THEN [err |-> "FingerprintFromPath", ok |-> FALSE]
  ELSE [fp |-> Hash(fs[p]), ok |-> TRUE]

(***************************************************************************)
(* load_full_certificate: read certificate, chain and key in that order;  *)
(* the chain file is split into its certificates.                          *)
(***************************************************************************)
LoadFullCertificate(cert, chain, key, versions) ==
  IF fs[cert] = NoFile \/ fs[chain] = NoFile \/ fs[key] = NoFile
  THEN [err |-> "LoadCertificate", ok |-> FALSE]
  ELSE [bundle |-> [certificate |-> fs[cert],
                    certificate_chain |-> SplitChain(fs[chain]),
                    key |-> fs[key], versions |-> versions],
        ok |-> TRUE]

(***************************************************************************)
(* The two places where the old certificate is designated by path XOR     *)
(* fingerprint.  The code writes the match twice, once in                  *)
(* replace_certificate and once in remove_certificate.                     *)
(***************************************************************************)
ReplaceOldFingerprint(path, fingerprint) ==
  CASE (path = None) = (fingerprint = None) -> [err |-> "EitherPathOrFingerprint", ok |-> FALSE]
    [] path # None /\ fingerprint = None -> FingerprintFromPath(path)
    [] path = None /\ fingerprint # None -> DecodeFingerprint(fingerprint)

\* Defect for validation: the (Some, Some) arm dropped, the path winning.
RemoveFingerprintPathFirst(path, fingerprint) ==
  CASE path # None -> FingerprintFromPath(path)
    [] path = None /\ fingerprint # None -> DecodeFingerprint(fingerprint)
    [] path = None /\ fingerprint = None -> [err |-> "EitherPathOrFingerprint", ok |-> FALSE]

RemoveFingerprint(path, fingerprint) ==
  CASE (path = None) = (fingerprint = None) -> [err |-> "EitherPathOrFingerprint", ok |-> FALSE]
    [] path # None /\ fingerprint = None -> FingerprintFromPath(path)
    [] path = None /\ fingerprint # None -> DecodeFingerprint(fingerprint)

(***************************************************************************)
(* Descriptor builders of the command library (ListenerBuilder,           *)
(* PathRule::from_cli_options).  Finalising a listener parses its address *)
(* and replaces unset optional fields by their defaults.                   *)
(***************************************************************************)
BuildListener(proto, address, expect_proxy, versions, cipher) ==
  IF address \notin ValidAddrs THEN [err |-> "ListenerBuild", ok |-> FALSE]
  ELSE [listener |-> [address |-> address,
                      cipher_list |-> IF cipher = None THEN DefaultCipherList ELSE cipher,
                      expect_proxy |-> expect_proxy,
                      protocol |-> proto,
                      versions |-> IF versions = {} THEN DefaultTlsVersions ELSE versions],
        ok |-> TRUE]

PathRuleFromCliOptions(prefix, regex, equals) ==
  CASE prefix # None                                 -> [kind |-> "Prefix", value |-> prefix]
    [] prefix = None /\ regex # None                  -> [kind |-> "Regex", value |-> regex]
    [] prefix = None /\ regex = None /\ equals # None -> [kind |-> "Equals", value |-> equals]
    [] prefix = None /\ regex = None /\ equals = None -> [kind |-> "Prefix", value |-> None]

(***************************************************************************)
(* Outcomes of an invocation.                                              *)
(***************************************************************************)
OrderRequest(req) == out' = [req |-> req, to |-> "one"] /\ result' = "Ok"
OrderRequestToAllWorkers(req) == out' = [req |-> req, to |-> "all"] /\ result' = "Ok"
Fail(err) == out' = NoRequest /\ result' = err

\* A call that names no old certificate and, like every call, leaves the disk.
OtherCall == identity' = << None, None >> /\ UNCHANGED fs

(***************************************************************************)
(* One action per method of CommandManager.  The disk is left unchanged   *)
(* by every one of them.                                                   *)
(***************************************************************************)
SaveState(path) == OrderRequest([path |-> path, type |-> "SaveState"]) /\ OtherCall
LoadState(path) == OrderRequest([path |-> path, type |-> "LoadState"]) /\ OtherCall
DumpState == OrderRequestToAllWorkers([type |-> "DumpState"]) /\ OtherCall
SoftStop == OrderRequestToAllWorkers([type |-> "SoftStop"]) /\ OtherCall
HardStop == OrderRequestToAllWorkers([type |-> "HardStop"]) /\ OtherCall
Status == OrderRequestToAllWorkers([type |-> "Status"]) /\ OtherCall

ConfigureMetrics(cmd) ==
  /\ \/ /\ cmd \in {"Enable", "Disable", "Clear"}
        /\ OrderRequest([config |-> cmd, type |-> "ConfigureMetrics"])
     \/ /\ cmd \notin {"Enable", "Disable", "Clear"}
        /\ Fail("MetricsCmdWrong")
  /\ OtherCall

ReloadConfiguration(path) ==
  OrderRequestToAllWorkers([path |-> path, type |-> "ReloadConfiguration"]) /\ OtherCall

ListFrontends(http, https, tcp, domain) ==
  /\ OrderRequest([domain |-> domain, http |-> http, https |-> https,
                   tcp |-> tcp, type |-> "ListFrontends"])
  /\ OtherCall

Events == OrderRequest([type |-> "SubscribeEvents"]) /\ OtherCall
ListListeners == OrderRequest([type |-> "ListListeners"]) /\ OtherCall

\* backend_command: both arms forward the address string without parsing it.
BackendAdd(id, backend_id, address, sticky_id, backup) ==
  /\ OrderRequest([address |-> address, backend_id |-> backend_id, backup |-> backup,
                   cluster_id |-> id, sticky_id |-> sticky_id, type |-> "AddBackend"])
  /\ OtherCall

BackendRemove(id, backend_id, address) ==
  /\ OrderRequest([address |-> address, backend_id |-> backend_id, cluster_id |-> id,
                   type |-> "RemoveBackend"])
  /\ OtherCall

\* The (send_proxy, expect_proxy) table of cluster_command.
ProxyProtocol(send_proxy, expect_proxy) ==
  CASE send_proxy /\ expect_proxy   -> "RelayHeader"
    [] send_proxy /\ ~expect_proxy  -> "SendHeader"
    [] ~send_proxy /\ expect_proxy  -> "ExpectHeader"
    [] OTHER                        -> None

ClusterAdd(id, sticky_session, https_redirect, send_proxy, expect_proxy, lb) ==
  /\ OrderRequest([cluster_id |-> id, https_redirect |-> https_redirect,
                   load_balancing |-> lb,
                   proxy_protocol |-> ProxyProtocol(send_proxy, expect_proxy),
                   sticky_session |-> sticky_session,
                   type |-> "AddCluster"])
  /\ OtherCall

ClusterRemove(id) == OrderRequest([cluster_id |-> id, type |-> "RemoveCluster"]) /\ OtherCall

TcpFrontendAdd(id, address, tags) ==
  OrderRequest([address |-> address, cluster_id |-> id, tags |-> tags,
                type |-> "AddTcpFrontend"]) /\ OtherCall

TcpFrontendRemove(id, address) ==
  OrderRequest([address |-> address, cluster_id |-> id, tags |-> None,
                type |-> "RemoveTcpFrontend"]) /\ OtherCall

\* The RequestHttpFrontend both frontend commands build; a missing tag map
\* becomes the empty one.
HttpFrontendRequest(type, route, address, hostname, prefix, regex, equals, method, tags) ==
  [address |-> address, cluster_id |-> route, hostname |-> hostname, method |-> method,
   path |-> PathRuleFromCliOptions(prefix, regex, equals),
   tags |-> IF tags = None THEN {} ELSE tags,
   type |-> type]

HttpFrontendCommand(op, route, address, hostname, prefix, regex, equals, method, tags) ==
  /\ \/ op = "Add" /\ OrderRequest(HttpFrontendRequest("AddHttpFrontend", route, address,
                                     hostname, prefix, regex, equals, method, tags))
     \/ op = "Remove" /\ OrderRequest(HttpFrontendRequest("RemoveHttpFrontend", route,
                                        address, hostname, prefix, regex, equals, method, None))
  /\ OtherCall

HttpsFrontendCommand(op, route, address, hostname, prefix, regex, equals, method, tags) ==
  /\ \/ op = "Add" /\ OrderRequest(HttpFrontendRequest("AddHttpsFrontend", route, address,
                                     hostname, prefix, regex, equals, method, tags))
     \/ op = "Remove" /\ OrderRequest(HttpFrontendRequest("RemoveHttpsFrontend", route,
                                        address, hostname, prefix, regex, equals, method, None))
  /\ OtherCall

\* remove_listener, activate_listener, deactivate_listener: the address
\* string is parsed into a SocketAddr before the request is built.
\* Defect for validation: the address string forwarded without parsing.
ListenerRequestUnparsed(type, address, proxy) ==
  OrderRequest([address |-> address, proxy |-> proxy, type |-> type]) /\ OtherCall

ListenerRequest(type, address, proxy) ==
  /\ \/ address \in ValidAddrs /\ OrderRequest([address |-> address, proxy |-> proxy, type |-> type])
     \/ address \notin ValidAddrs /\ Fail("WrongSocketAddress")
  /\ OtherCall

RemoveListener(address, proxy) == ListenerRequest("RemoveListener", address, proxy)
ActivateListener(address, proxy) == ListenerRequest("ActivateListener", address, proxy)
DeactivateListener(address, proxy) == ListenerRequest("DeactivateListener", address, proxy)

AddListener(type, built) ==
  /\ \/ built.ok /\ OrderRequest([listener |-> built.listener, type |-> type])
     \/ ~built.ok /\ Fail(built.err)
  /\ OtherCall

HttpsListenerAdd(address, expect_proxy, versions, cipher) ==
  AddListener("AddHttpsListener", BuildListener("HTTPS", address, expect_proxy, versions, cipher))
HttpListenerAdd(address, expect_proxy) ==
  AddListener("AddHttpListener", BuildListener("HTTP", address, expect_proxy, {}, None))
TcpListenerAdd(address, expect_proxy) ==
  AddListener("AddTcpListener", BuildListener("TCP", address, expect_proxy, {}, None))

LoggingFilter(level) ==
  OrderRequest([filter |-> LevelFilter(level), type |-> "Logging"]) /\ OtherCall

AddCertificate(address, cert, chain, key, versions) ==
  LET loaded == LoadFullCertificate(cert, chain, key, versions) IN
  /\ \/ loaded.ok /\ OrderRequest([address |-> address, certificate |-> loaded.bundle,
                                   type |-> "AddCertificate"])
     \/ ~loaded.ok /\ Fail(loaded.err)
  /\ OtherCall

\* replace_certificate resolves the old fingerprint before it loads the
\* new certificate; either failure stops it before anything is sent.
ReplaceCertificate(address, cert, chain, key, old_path, old_fingerprint, versions) ==
  LET old == ReplaceOldFingerprint(old_path, old_fingerprint)
      new == LoadFullCertificate(cert, chain, key, versions)
  IN /\ \/ ~old.ok /\ Fail(old.err)
        \/ old.ok /\ ~new.ok /\ Fail(new.err)
        \/ old.ok /\ new.ok /\ OrderRequest([address |-> address, new_certificate |-> new.bundle,
                                             old_fingerprint |-> old.fp,
                                             type |-> "ReplaceCertificate"])
     /\ identity' = << old_path, old_fingerprint >>
     /\ UNCHANGED fs

RemoveCertificate(address, path, fingerprint) ==
  LET id == RemoveFingerprint(path, fingerprint) IN
  /\ \/ id.ok /\ OrderRequest([address |-> address, fingerprint |-> id.fp,
                               type |-> "RemoveCertificate"])
     \/ ~id.ok /\ Fail(id.err)
  /\ identity' = << path, fingerprint >>
  /\ UNCHANGED fs

(***************************************************************************)
(* The environment: another process rewrites or deletes a file between    *)
(* two invocations (for example a certificate renewed in place).          *)
(***************************************************************************)
WriteFile(p, c) == fs' = [fs EXCEPT ![p] = c] /\ UNCHANGED << out, result, identity >>

Init ==
  /\ fs \in [Paths -> Contents \cup {NoFile}]
  /\ out = NoRequest
  /\ result = "Ok"
  /\ identity = << None, None >>

HttpsListenerCommand ==
  \/ \E a \in Addresses, e \in BOOLEAN, v \in SUBSET TlsVersions, c \in Opt(CipherLists) :
        HttpsListenerAdd(a, e, v, c)
  \/ \E a \in Addresses :
        \/ RemoveListener(a, "HTTPS")
        \/ ActivateListener(a, "HTTPS")
        \/ DeactivateListener(a, "HTTPS")

HttpListenerCommand ==
  \/ \E a \in Addresses, e \in BOOLEAN : HttpListenerAdd(a, e)
  \/ \E a \in Addresses :
        \/ RemoveListener(a, "HTTP")
        \/ ActivateListener(a, "HTTP")
        \/ DeactivateListener(a, "HTTP")

TcpListenerCommand ==
  \/ \E a \in Addresses, e \in BOOLEAN : TcpListenerAdd(a, e)
  \/ \E a \in Addresses :
        \/ RemoveListener(a, "TCP")
        \/ ActivateListener(a, "TCP")
        \/ DeactivateListener(a, "TCP")

\* At most one of the three path options is given on a command line.
PathOptions ==
  {<<None, None, None>>} \cup {<<v, None, None>> : v \in PathValues}
    \cup {<<None, v, None>> : v \in PathValues} \cup {<<None, None, v>> : v \in PathValues}

FrontendCommand ==
  \E op \in {"Add", "Remove"}, r \in ClusterIds, a \in Addresses, h \in Hostnames,
     po \in PathOptions, m \in Opt(Methods), t \in Opt(TagMaps) :
    \/ HttpFrontendCommand(op, r, a, h, po[1], po[2], po[3], m, t)
    \/ HttpsFrontendCommand(op, r, a, h, po[1], po[2], po[3], m, t)

\* The TLS version list is passed through untouched; one value suffices.
CertificateCommand ==
  \E a \in Addresses, cert, chain, key \in Paths, v \in {TlsVersions} :
    \/ AddCertificate(a, cert, chain, key, v)
    \/ \E op \in Opt(Paths), of \in Opt(HexInputs) :
          ReplaceCertificate(a, cert, chain, key, op, of, v)
    \/ \E op \in Opt(Paths), of \in Opt(HexInputs) :
          /\ cert = chain /\ chain = key   \* remove takes no new certificate
          /\ RemoveCertificate(a, op, of)

Next ==
  \/ \E p \in Paths, c \in Contents \cup {NoFile} : WriteFile(p, c)
  \/ CertificateCommand
  \/ \E p \in Paths : SaveState(p) \/ LoadState(p)
  \/ DumpState \/ SoftStop \/ HardStop \/ Status \/ Events \/ ListListeners
  \/ \E m \in MetricsCmds : ConfigureMetrics(m)
  \/ \E p \in Opt(Paths) : ReloadConfiguration(p)
  \/ \E h, hs, t \in BOOLEAN, d \in Opt(Hostnames) : ListFrontends(h, hs, t, d)
  \/ \E id \in ClusterIds, b \in BackendIds, a \in Addresses :
        \/ \E s \in Opt(StickyIds), bk \in Opt(BOOLEAN) : BackendAdd(id, b, a, s, bk)
        \/ BackendRemove(id, b, a)
  \/ \E id \in ClusterIds :
        \/ \E ss, hr, sp, ep \in BOOLEAN, lb \in LBPolicies : ClusterAdd(id, ss, hr, sp, ep, lb)
        \/ ClusterRemove(id)
  \/ \E id \in ClusterIds, a \in Addresses :
        \/ \E t \in Opt(TagMaps) : TcpFrontendAdd(id, a, t)
        \/ TcpFrontendRemove(id, a)
  \/ FrontendCommand
  \/ HttpsListenerCommand \/ HttpListenerCommand \/ TcpListenerCommand
  \/ \E l \in LoggingLevels : LoggingFilter(l)

Spec == Init /\ [][Next]_vars

-----------------------------------------------------------------------------
(***************************************************************************)
(* Types of the values the layer builds.                                   *)
(***************************************************************************)
Fingerprints == Seq(Bytes)
Bundles == [certificate : Contents, certificate_chain : Seq(Contents),
            key : Contents, versions : SUBSET TlsVersions]
PathRules == [kind : {"Prefix", "Regex", "Equals"}, value : Opt(PathValues)]
ListenerConfigs == [address : ValidAddrs, cipher_list : CipherLists, expect_proxy : BOOLEAN,
                    protocol : ListenerTypes, versions : SUBSET TlsVersions]

\* Fields are listed in alphabetical order, as in the records the layer builds.
Requests ==
  [path : Paths, type : {"SaveState", "LoadState"}]
  \cup [type : {"DumpState", "SoftStop", "HardStop", "Status", "SubscribeEvents",
                "ListListeners"}]
  \cup [config : {"Enable", "Disable", "Clear"}, type : {"ConfigureMetrics"}]
  \cup [path : Opt(Paths), type : {"ReloadConfiguration"}]
  \cup [domain : Opt(Hostnames), http : BOOLEAN, https : BOOLEAN, tcp : BOOLEAN,
        type : {"ListFrontends"}]
  \cup [address : Addresses, backend_id : BackendIds, backup : Opt(BOOLEAN),
        cluster_id : ClusterIds, sticky_id : Opt(StickyIds), type : {"AddBackend"}]
  \cup [address : Addresses, backend_id : BackendIds, cluster_id : ClusterIds,
        type : {"RemoveBackend"}]
  \cup [cluster_id : ClusterIds, https_redirect : BOOLEAN, load_balancing : LBPolicies,
        proxy_protocol : ProxyModes, sticky_session : BOOLEAN, type : {"AddCluster"}]
  \cup [cluster_id : ClusterIds, type : {"RemoveCluster"}]
  \cup [address : Addresses, cluster_id : ClusterIds, tags : Opt(TagMaps),
        type : {"AddTcpFrontend", "RemoveTcpFrontend"}]
  \cup [address : Addresses, cluster_id : ClusterIds, hostname : Hostnames,
        method : Opt(Methods), path : PathRules, tags : TagMaps \cup {{}},
        type : {"AddHttpFrontend", "RemoveHttpFrontend", "AddHttpsFrontend",
                "RemoveHttpsFrontend"}]
  \cup [address : ValidAddrs, proxy : ListenerTypes,
        type : {"RemoveListener", "ActivateListener", "DeactivateListener"}]
  \cup [listener : ListenerConfigs,
        type : {"AddHttpsListener", "AddHttpListener", "AddTcpListener"}]
  \cup [filter : STRING, type : {"Logging"}]
  \cup [address : Addresses, certificate : Bundles, type : {"AddCertificate"}]
  \cup [address : Addresses, new_certificate : Bundles, old_fingerprint : Fingerprints,
        type : {"ReplaceCertificate"}]
  \cup [address : Addresses, fingerprint : Fingerprints, type : {"RemoveCertificate"}]

(***************************************************************************)
(* Type invariant.  Every request handed over has the shape of its        *)
(* protocol message; in particular the listener requests carry a parsed  *)
(* SocketAddr, never the raw string the operator typed.                    *)
(***************************************************************************)
TypeOK ==
  /\ fs \in [Paths -> Contents \cup {NoFile}]
  /\ out \in {NoRequest} \cup [req : Requests, to : {"one", "all"}]
  /\ result \in {"Ok"} \cup Errors
  /\ identity \in Opt(Paths) \X Opt(HexInputs)

HandedOver == out # NoRequest

(***************************************************************************)
(* replace_certificate and remove_certificate each spell out the "path    *)
(* XOR fingerprint" match.  The design requires the two flows never to    *)
(* diverge: on every disk and every pair of options they designate the   *)
(* same certificate, or fail at the same point.                           *)
(***************************************************************************)
IdentityFlowsAgree ==
  \A path \in Opt(Paths), fingerprint \in Opt(HexInputs) :
    ReplaceOldFingerprint(path, fingerprint) = RemoveFingerprint(path, fingerprint)

(***************************************************************************)
(* Reference definitions for hexadecimal fingerprints: a string is a      *)
(* fingerprint iff it has even length and only hex digits; the canonical  *)
(* encoding of bytes is two lower-case digits per byte, high nibble first.*)
(***************************************************************************)
IsHexString(s) == Len(s) % 2 = 0 /\ \A i \in 1 .. Len(s) : IsHexDigit(s[i])
LowerCased(s) == [i \in 1 .. Len(s) |-> LowerDigits[NibbleValue(s[i]) + 1]]
EncodeLower(b) ==
  [i \in 1 .. 2 * Len(b) |->
     IF i % 2 = 1 THEN LowerDigits[(b[(i + 1) \div 2] \div 16) + 1]
     ELSE LowerDigits[(b[i \div 2] % 16) + 1]]

(***************************************************************************)
(* When the last replace or remove named the old certificate by           *)
(* fingerprint string alone, the call got past decoding iff the string is *)
(* hexadecimal, and the fingerprint it sent re-encodes to that string up  *)
(* to case.                                                                *)
(***************************************************************************)
HexRoundTrip ==
  LET f == identity[2]
      sent == IF ~HandedOver THEN << >>
              ELSE IF out.req.type = "RemoveCertificate" THEN out.req.fingerprint
              ELSE out.req.old_fingerprint
  IN identity[1] = None /\ f # None =>
       /\ result = "FingerprintDecode" => ~IsHexString(f)
       /\ HandedOver /\ out.req.type \in {"RemoveCertificate", "ReplaceCertificate"} =>
            IsHexString(f) /\ EncodeLower(sent) = LowerCased(f)

(***************************************************************************)
(* A fingerprint sent to the proxy to designate an installed certificate  *)
(* has the width of a certificate fingerprint (a SHA-256 digest).         *)
(***************************************************************************)
FingerprintWidth ==
  HandedOver =>
    /\ out.req.type = "RemoveCertificate" => Len(out.req.fingerprint) = FPWidth
    /\ out.req.type = "ReplaceCertificate" => Len(out.req.old_fingerprint) = FPWidth

(***************************************************************************)
(* A replacement names, as the certificate to replace, a certificate other*)
(* than the one it installs.                                               *)
(***************************************************************************)
ReplaceIsChange ==
  HandedOver /\ out.req.type = "ReplaceCertificate" =>
    out.req.old_fingerprint # Hash(out.req.new_certificate.certificate)

=============================================================================
