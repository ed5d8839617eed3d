# TLA+ verification of the sozu control client's request builder

This directory models `src/bin/src/ctl/request_builder.rs`, the layer of the
`sozu` control client that turns one parsed operator command into one
request of the proxy's control protocol. Every part of the layer that changes
state is modelled as a TLA+ action. A second module takes the certificate
calls apart into their file reads. TLC checks both on small instances. TLAPS
proves, for all values of the constants:
* the type invariant;
* the fingerprint round trip for every string, also while files are
  rewritten;
* that the two identity flows agree;
* that the read-by-read calls send bundles that were on disk together when
  no file changes during a call, and more generally when a rewrite during a
  call only touches files the call has not consulted yet.

## 1. Inventory

### Components

| Component | Code | State it keeps | Operations |
|---|---|---|---|
| FingerprintCodec | `decode_fingerprint` (531-535), `get_fingerprint_from_certificate_path` (520-529) | none | hex-decode a string; read a file and hash it |
| CertificateLoader | `load_full_certificate` (537-560); the path-XOR-fingerprint matches in `replace_certificate` (462-473) and `remove_certificate` (500-511) | none; it reads the disk | load certificate, chain and key; resolve the old certificate |
| DescriptorBuilders | `ListenerBuilder`, `PathRule::from_cli_options` (command library, outside `src/`) | the builder's optional fields during one call | accumulate options; finalise (parse the address, apply defaults) |
| RequestDispatchMapper | every `pub fn` of `CommandManager` (27-517) | none | one method per command family, 30 in all |
| Transport (outside `src/`) | `order_request`, `order_request_to_all_workers` | the channel to the proxy | deliver one request to one worker or to all |
| CLI and proxy workers | outside `src/` | — | produce the commands; execute the requests |

### Interactions

An operator runs `sozu` once per command. The dispatcher calls the builders
or the certificate loader, which may call the codec. It then hands exactly one
request to the transport, or returns an error before handing anything. The
layer keeps nothing between calls. The state that outlives a call is shared
with other processes: the **local disk**, which an operator or a
certificate-renewal tool may rewrite at any time between two calls (and in
principle during one), and the request last handed to the transport.

### What is hard here

The code is single-threaded and synchronous. There is no internal concurrency,
no retry and no timeout. The hard parts are these:

* **Stale disk state.** A certificate named by path is identified by the file's
  content *now*, not by the certificate that was installed from that path.
  After an in-place renewal, the path names the new certificate.
* **Duplicated validation.** The mutual exclusion "old path XOR old
  fingerprint" is written out twice, once in replace and once in remove. The
  spec (section 9) requires the two flows never to diverge.
* **Edge inputs of the codec.** `hex::decode` rejects odd lengths and non-hex
  characters. It accepts the empty string and strings of any even length.
* **Non-atomic reads.** Certificate, chain and key are read one after another.
  A concurrent rewrite can pair a new certificate with an old key.

### Properties checked, per component

* **FingerprintCodec:** it accepts exactly the even-length hex strings, and
  the bytes it returns re-encode to the input, ignoring case (spec 8.2,
  `HexRoundTrip`). A fingerprint sent to name an installed certificate
  should have a digest's width (`FingerprintWidth`, violated: finding 1).
* **CertificateLoader:** both flows designate the same certificate for the
  same options and the same disk (`IdentityFlowsAgree`). A replace names a
  certificate other than the new one (`ReplaceIsChange`, violated: finding
  2). A sent bundle was on disk as a whole (`BundleWasOnDisk`, violated
  under arbitrary rewrites: finding 3). A started call returns
  (`CallReturns`).
* **DescriptorBuilders and RequestDispatchMapper:** the roughly 25 other
  methods (listener commands and their defaults, the proxy-protocol table of
  spec 4.4, the path rule, clusters, backends, frontends, state and metrics
  commands) are modelled as actions, but only `TypeOK` checks them: a
  listener request carries a parsed address (spec 8.5) and every request
  has its message's shape. That the proxy-protocol mode follows the table,
  or that unset TLS versions get their defaults, is not checked by any
  property; section 6 plans an abstract client for it.

## 2. Modules

### `RequestBuilder.tla`: the whole layer

* **Constants:** paths, file contents, address strings (and which of them
  parse), fingerprint strings (tuples of 1-character strings), and the width
  of a fingerprint. Three conversions of the command library are given as
  constant operators: `Hash` (calculate_fingerprint), `SplitChain`
  (split_certificate_chain) and `LevelFilter` (`to_string().to_lowercase()`).
  The small identifier sets are constants too. Named `ASSUME`s give each
  constant its type; the proofs rely on them.
* **Variables:**
  * `fs`: the disk, mapping each path to a content or `NoFile`.
  * `out`: the request the last call handed over. It records whether it went
    to one worker (`order_request`) or to all of them
    (`order_request_to_all_workers`). It is `NoRequest` after an error.
  * `result`: `"Ok"`, or the error the last call returned, named after the
    code's context.
  * `identity`: a history variable, not program state. It holds the
    `(old path, old fingerprint)` options of the last call if that call was
    replace or remove, and `(None, None)` otherwise. Properties use it to
    relate a sent fingerprint to the string the operator typed.
* **Actions:** one per method: `SaveState` … `RemoveCertificate`. Each is
  the whole method:
  * its guards are the match arms and the `?` returns, in the code's order;
  * the request it builds is its effect;
  * it leaves the disk unchanged.

  `replace_certificate` resolves the old fingerprint *before* loading the new
  bundle, and the model keeps that order. `WriteFile` is the environment: it
  rewrites or deletes one file between two calls.
* **Helpers:** these follow the code line by line.
  * `DecodeFingerprint`: checks the length, then turns each pair of characters
    into a byte, high nibble first, accepting both cases.
  * `FingerprintFromPath` and `LoadFullCertificate`.
  * `ReplaceOldFingerprint` and `RemoveFingerprint`: the two copies of the
    match.
  * `ProxyProtocol`: the (send, expect) table.
* **Modelled from the spec**, because the code is in the command library
  outside `src/`: `BuildListener` (finalising fails exactly when the address
  does not parse; unset versions and cipher list take their defaults) and
  `PathRuleFromCliOptions`.
* **Data left out.** Constant fields of requests are left out: `names: vec![]`,
  `expired_at: None`, `position: Tree`, `from_scm: false`. So are listener
  fields that are only passed through: error-page paths, sticky name and the
  four timeouts. So are the `println!`s and the `json` output flag. No
  property tells these apart.

Map of definitions to code lines: `PROJECT.json`, `"map"`.

### `MCRequestBuilder.tla` and its configurations

The instance has these elements:
* two paths;
* four contents: two certificates, a key, and a chain file that splits into
  the two certificates;
* one parseable address and one unparseable one;
* one-byte fingerprints (`FPWidth = 1` stands for 32);
* fingerprint strings chosen to cover the edge cases: `""`, `"0"`, `"g0"`
  (non-hex), `"0a"` and `"aF"` (the fingerprints of the two certificates,
  mixed case), and `"0a0a"` (twice the width). The `fingerprint_width` and
  `replace_self` runs use all six (`MCHexInputs`).
* The `dispatch` run uses four of them (`MCDispatchHexInputs`): `""`, `"0"`,
  `"g0"` and `"aF"`, one for each outcome of decoding. Every certificate
  command ranges over all addresses, three paths and two options, so each
  string multiplies its branching. With all six strings it needed over two
  minutes alone.
* The `dispatch` run also declares `SYMMETRY PathSymmetry`, the permutations
  of the paths. This is sound there. `Init` ranges over every disk, no action
  names a particular path, and both invariants quantify over all paths.

`Init` lets every path hold any content or none, and `WriteFile` reaches every
other disk. Every method can therefore meet every combination of present,
missing and swapped files. The depth of the state graph is small, because the
layer keeps nothing between calls. The interesting cases are the pairs
(disk, command), and the instance enumerates all of them.

### `CertificateLoad.tla`: certificate calls read by read

`RequestBuilder` treats a call as one step. Here `add_certificate` and
`replace_certificate` run as a small process, and the disk may be rewritten
between any two of its steps. The module `EXTENDS RequestBuilder`, so it shares
the disk, the output, the result and `identity`. It adds these variables:
* `pc`: `"Idle"` between calls, otherwise the next read (`"Cert"`, `"Chain"`,
  `"Key"`);
* `call`: the call's arguments, and for a replace the resolved old
  fingerprint;
* `got`: the certificate and the split chain read so far;
* `views`: a history variable. It holds the (certificate, chain, key) files
  at each disk state the call has lived through.

The actions follow the code:
* `StartAdd` is the entry of `add_certificate` (lines 432-442), which reads
  nothing before `load_full_certificate`.
* `StartReplace` (452-473) resolves the old fingerprint, reading the old
  file if it is named by path, and returns at once on failure.
* `ReadCert`, `ReadChain` and `ReadKey` (537-560) are the three
  `Config::load_file` calls. A missing file ends the call with the loader's
  error. The key read builds the bundle and hands the request over
  (`Completed`, 483-489).
* `EndCall` is the return.
* `Write` is the other process rewriting one file. While a call is in
  progress it may write at most `MaxWritesPerCall` times, a bound that keeps
  `views` finite.

There are three specifications of the environment:
* `LoadSpec` lets files change at any time. It assumes weak fairness of the
  client's reads (`Load`). The client is one synchronous process, and a read
  of a local file returns, so a started call keeps taking steps.
* `QuietSpec` lets files change only between calls.
* `LinearSpec` lets files change at any time, except a file the call in
  progress has already *consulted* (`Consulted`): the old certificate's
  file, which a replace hashes before its first read, and the certificate
  and chain files once read. A renewal tool that writes the key while the
  client is still reading the certificate is such an environment.

`Consulted` and `Write` model the environment (the renewal tool), not code
of the repository; the map marks them as such.

### `MCCertificateLoad.tla` and its configurations

The instance has a certificate, its key and a chain file holding one
certificate (`chain1`, which splits into `<<cert1>>`). It has one address and
the one fingerprint string that names the certificate. It uses two paths, or
three in the torn-bundle run, where the constraint `SeparateFiles` makes each
call name three different files, as a renewal tool writes them. The content
set is kept this small because the previous request stays in `out` while
the next call runs. Every extra content multiplies the bundles that `out`
can hold.

### Proof modules

These modules hold the TLAPS proofs; see section 4.
* `RequestBuilderProofs.tla`: type correctness.
* `FingerprintProofs.tla` extends it: the fingerprint codec and the two
  identity flows.
* `CertificateLoadProofs.tla`: the bundle when files change only between
  calls.
* `LinearLoadProofs.tla` extends it: the bundle when files the call has not
  consulted change during the call.
* `LoadFingerprintProofs.tla` extends `CertificateLoad` and
  `FingerprintProofs`: the round trip under concurrent rewrites.

## 3. Runs

| Run | Config | Expect | Checks |
|---|---|---|---|
| `dispatch` | `MCRequestBuilder.cfg` | pass | `TypeOK`, `IdentityFlowsAgree` |
| `hex_decode` | `MCHexDecode.cfg` | pass | `HexRoundTrip` |
| `fingerprint_width` | `MCFingerprintWidth.cfg` | violation | `FingerprintWidth` |
| `replace_self` | `MCReplaceIsChange.cfg` | violation | `ReplaceIsChange` |
| `load_linearizable` | `MCLoadLinear.cfg` | pass | `BundleWasOnDisk` |
| `load_returns` | `MCLoadLive.cfg` | pass | `CallReturns` |
| `torn_bundle` | `MCLoadTorn.cfg` | violation | `BundleWasOnDisk` |

* **`TypeOK`:** every request handed over has its message's shape. Listener
  remove, activate and deactivate carry a *parsed* address. Certificate
  requests carry a bundle made only of contents that were read.
* **`IdentityFlowsAgree`:** on every reachable disk, and for every pair of
  optional path and fingerprint, the two copies of the path-XOR-fingerprint
  code return the same result.
* **`HexRoundTrip`:** whenever remove or replace was given a fingerprint
  string, the call failed with `FingerprintDecode` only if the string is not
  even-length hex. If it sent a request, the string is even-length hex and the
  sent bytes re-encode to the lower-cased string. The fingerprint inputs are
  all 341 strings of length at most 4 over `{0, a, F, g}`. To keep the state
  space small (1,990 states, under a minute), the run uses one path, one
  certificate content and one address.
* **`BundleWasOnDisk`** is an action property about the key read that hands
  a certificate request over. The bundle it sends must equal, for some disk
  state the call lived through (the history variable `views`), the
  certificate, the split chain and the key of that state.
  * The `torn_bundle` run breaks it.
  * The guard names the sending step, the key read that ends the call
    (`pc = "Key" /\ pc' = "Idle"`). It does not name every step with a
    request in `out`. The request of a previous call stays in `out` while
    the next call runs, and a rewrite at `pc = "Key"` leaves it there. Such a
    request must not be compared with the new call's files.
  * On `load_linearizable` (`LinearSpec`, one rewrite per call, 389,268
    states up to symmetry) it holds: the bundle is the newest disk state in
    `views`. Together with `torn_bundle`, this run shows where the line is.
    A rewrite of a file not yet read is harmless. A rewrite of a file
    already read is not.
* **`CallReturns`** (`LoadSpec`, one write per call, 1.66 million states):
  under weak fairness of the reads, a started call returns while the other
  process keeps writing.
* **Mutants.** Each property of a passing run is broken by a plausible defect
  of the code (see `"mutants"`):
  * the listener address forwarded unparsed breaks `TypeOK`;
  * the `(Some, Some)` arm dropped in remove breaks `IdentityFlowsAgree`;
  * the nibbles swapped breaks `HexRoundTrip`;
  * the chain file sent without `split_certificate_chain` breaks
    `BundleWasOnDisk` in `load_linearizable`;
  * retrying the key read instead of returning the error breaks
    `CallReturns`.

**Findings** (both violation runs; see `"findings"`):

1. **Wrong-width fingerprints are accepted.** `decode_fingerprint` accepts
   `""` and any even-length hex string, so remove and replace can send a
   fingerprint that no certificate has. The zero-length one comes from `""`.
2. **A replace can name its own new certificate.** `replace_certificate`
   identifies the old certificate by the *current* content of the path. If
   that file already holds the new certificate, the request names the new
   certificate as the one to replace. This happens when the same path is
   given twice, or after an in-place renewal.
3. **A bundle can be torn by a concurrent renewal.** `load_full_certificate`
   reads three files one after another. Suppose a renewal tool writes the new
   chain and then the new key after the client has read the chain. Then
   `add_certificate` sends the old chain with the new key. That bundle was
   never on disk as a whole. The spec (section 5) describes the layer as
   single-threaded with no shared mutable state. It treats the load as a
   function of the paths, and nothing guards against the files changing
   during a call.

`RequestBuilder` assumes no fairness: every call there is one step.
`CertificateLoad` assumes weak fairness of the client's reads only, never of
the other process that writes files.

## 4. Proofs

`RequestBuilderProofs.tla` proves `THEOREM TypeCorrect == Spec => []TypeOK`
for all constants that satisfy the `ASSUME`s of `RequestBuilder`. Those
assumptions are:
* `Hash` returns `FPWidth` bytes;
* `SplitChain` returns a sequence of contents;
* fingerprint inputs are strings;
* the default TLS versions and cipher list are well typed;
* `NoFile` and `None` are not contents.

`TypeOK` is inductive as it stands. It includes the type of the history
variable `identity`. Five lemmas, each about what one helper
returns, carry the argument:
* `DecodeType`: a decoded fingerprint is a byte sequence. It rests on
  `NibbleType` and `NibblesMakeByte`: two nibbles below 16 make a byte.
* `FromPathType`;
* `IdentityType`, for both copies of the match;
* `LoadType`;
* `BuildType`.

`OrderType` and `FailType` cover the three ways a call ends. The step proof has
one case per method of `Next`.

The `CASE` expressions of the model use mutually exclusive guards, as TLA+
`CASE` requires for a determinate value. The code's first-match `match` on
`(path, fingerprint)` is written out that way.

### The fingerprint codec, for every string

`FingerprintProofs.tla` proves two theorems. They are what the `dispatch` and
`hex_decode` runs check on small instances, and here they hold for every
string and every disk.
* **`HexRoundTripHolds`**: `Spec => []HexRoundTrip`.
* **`FlowsAgree`**: `Spec => []IdentityFlowsAgree`. The two copies of the
  path-XOR-fingerprint match have the same arms in the same order, so they
  agree on every disk. The `dispatch` run shows that dropping an arm of one
  copy breaks this.

The argument for `HexRoundTripHolds` rests on three data lemmas, proved
character by character with no induction:
* `PairsAreChars`: the pairwise digit test of `decode_fingerprint` is the
  character-wise test, for an even-length string.
* `DecodeOk`: decoding succeeds exactly on the hexadecimal strings and
  otherwise fails with `FingerprintDecode`.
* `RoundTrip`: encoding the decoded bytes gives the lower-cased string. At
  an odd position `j` the byte `(j+1) \div 2` is `16*hi + lo`, and
  `\div 16` gives back the digit at `j`. At an even position `% 16` does
  the same (lemma `ByteNibbles`).

`HexRoundTrip` needs no strengthening. The lemma `NextShape` sorts every
step into one of three kinds:
* it records no fingerprint option (`identity' = <<None, None>>`), which
  makes the premise false;
* it leaves `out`, `result` and `identity` alone, which a disk rewrite does;
* it is a replace or a remove, which re-establishes the property from the
  string it decodes (lemmas `ReplaceRoundTrip` and `RemoveRoundTrip`).

### The round trip under concurrent rewrites

`LoadFingerprintProofs.tla` proves `LoadHexRoundTrip`:
`LoadSpec => []HexRoundTrip`. Files may be rewritten between any two reads.
Here `HexRoundTrip` alone is not inductive: at the key read the request
carries `call.old_fp`, which was computed when the call started. The
strengthening is `CallIdInv`, which TLC checked first on the `load_returns`
instance. No run checks `HexRoundTrip` under `LoadSpec`: the route reads no
file, so on the small instance it would hold by construction. The theorem
carries the `hex_decode` result over to concurrent rewrites:
* an add names no old certificate;
* a replace named by fingerprint string has decoded it successfully and
  holds exactly the decoded bytes.

`CallIdInv` mentions no file, so every read and every rewrite keeps it
(`CallIdInvStep`). The theorem needs no fairness.

### The bundle when files change only between calls

`CertificateLoadProofs.tla` proves `QuietBundle`:
`QuietSpec => BundleWasOnDisk`, the quiet-disk half of finding 3. It rests
on two invariants, both checked with TLC first:
* `CallInv` (lemma `QuietCallInv`):
  * a call in progress has the arguments its handler accepts;
  * for a replace, `ReplaceOldFingerprint` of its options is still ok and
    still equals the stored fingerprint;
  * the certificate and chain it has read are what the files hold.

  It is inductive only because the disk does not change during a call. The
  lemma `OldFingerprintStable` carries that fact.
* `QuietViews` (theorem `QuietViewsHold`): during a call, `views` is the
  single view `View(call, fs)`.

The only step from `pc = "Key"` to `"Idle"` that hands a request over is
the successful key read. Its bundle is the certificate and chain `CallInv`
says were read, together with the key now on disk, and that is `views[1]`.

### The bundle while unconsulted files change

`LinearLoadProofs.tla` proves `LinearBundle`:
`LinearSpec => BundleWasOnDisk`, the property of the `load_linearizable`
run. A rewrite may fall anywhere inside a call, as long as it spares the
files the call has already consulted. `QuietSpec` is the special case with
no rewrite inside a call. The `torn_bundle` run rewrites a file after it was
read, and breaks `BundleWasOnDisk`. Together these results mark exactly
which concurrent rewrites are harmless: those of files not yet read.

The argument:
* **`CallInv` is still inductive** (lemma `LinearCallInv`, step
  `LinearCallInvStep`). The files it speaks of are exactly `Consulted`:
  * the old certificate's file, through `ReplaceOldFingerprint`;
  * the certificate file from `"Chain"` on;
  * the chain file at `"Key"`.
  The lemma `OldFingerprintLocal` shows that the resolved fingerprint reads
  the old certificate's file alone. The steps `QuietSpec` also takes are
  handled by the quiet lemma `CallInvStep`.
* **`LastView` is the second invariant** (theorem `LinearLastView`): while
  a call is in progress, the newest entry of `views` is `View(call, fs)`,
  and `views` is a sequence of file triples. TLC checked it on the
  `load_linearizable` instance first. A rewrite appends the view of the new
  disk (`AppendProperties` of the library).
* At the sending key read, `CallInv` and `LastView` give the witness
  `i = Len(views)`.

## 5. Not modelled, and why

* **Transport and proxy.** The answer of `order_request` and the transport's
  errors are outside the layer. The model stops at the hand-over.
* **Hash internals.** `Hash` is an injective table in the instance.
  `calculate_fingerprint`'s own failure path (line 524) is not reached,
  because the spec describes the hash as a total function of the bytes.
* **Non-atomic reads of the other commands.** `remove_certificate` and the
  old-path read of `replace_certificate` read one file each, so splitting
  them would add nothing. Only the three-file load is split, in
  `CertificateLoad`.
* **Liveness, ENABLED, and what a recursive definition computes for every
  input.** These are out of TLAPS's reach and stay with TLC.
  * `CallReturns` (a leads-to under weak fairness) is only model-checked.
  * The model uses no recursion. The codec lemmas need none: they reason
    about each position of a string, not by induction on its length.
* **Only model-checked.** `TypeOK`, `HexRoundTrip`, `IdentityFlowsAgree`
  and `BundleWasOnDisk` are also proved, the last for `QuietSpec` and for
  `LinearSpec`. Only `CallReturns` is not proved; it
  is a liveness property, out of the prover's reach.

## 6. Plan

1. **Done.**
   * First sitting: `RequestBuilder` (every method), `MCRequestBuilder`, the
     four runs, and `TypeCorrect`.
   * Second sitting:
     * `CertificateLoad`, the certificate calls read by read;
     * the liveness of a call under fairness;
     * the torn-bundle finding.
2. **Abstract client.** Write `CtlSpec.tla`, the layer as the spec promises
   it: a single `ResolveIdentity`, the proxy-mode table of 4.4, "one request
   or none". Add a `cmd` history variable so that a request can be related to
   the command that produced it. Check `RequestBuilder` against it with
   `INSTANCE CtlSpec WITH ...` as a `PROPERTY`.
   A refinement of `RequestBuilder` by `CertificateLoad` was stated and proved
   earlier and then dropped: both modules translate the same lines, so it
   could not catch a defect in them. An abstract client written from the
   spec's promises is the refinement worth checking.
3. **More proofs.**
   * Done in the first proof sitting: `HexRoundTripHolds`, `FlowsAgree`,
     `QuietBundle` and `LoadHexRoundTrip`.
   * Done in the second proof sitting: `LinearBundle` and `LinearLastView`,
     the bundle property for rewrites of unconsulted files.
   * That every sent fingerprint obtained from a path has `FPWidth` bytes,
     which separates the path route from the decode route that finding 1
     shows to be wrong.
   * `CallInv` under `LoadSpec`, weakened to what survives a rewrite.
