------------------------ MODULE CertificateLoadProofs ------------------------
(***************************************************************************)
(* Proofs about CertificateLoad: when files are rewritten only between    *)
(* calls, the bundle add_certificate and replace_certificate send is one  *)
(* that was on disk as a whole.                                            *)
(***************************************************************************)
EXTENDS CertificateLoad, TLAPS

\* The old fingerprint resolved by replace_certificate depends on the disk
\* only: a step that leaves the disk alone leaves it alone.
LEMMA OldFingerprintStable ==
  ASSUME NEW p, NEW f, fs' = fs
  PROVE  ReplaceOldFingerprint(p, f)' = ReplaceOldFingerprint(p, f)
BY DEF ReplaceOldFingerprint, FingerprintFromPath

(***************************************************************************)
(* CallInv is inductive for QuietSpec.  A call in progress only reads, and *)
(* the disk changes only between calls, so what it has read stays what the *)
(* files hold and its resolved old fingerprint stays the one the atomic    *)
(* handler would compute.                                                  *)
(***************************************************************************)
LEMMA CallInvInit == LoadInit => CallInv
BY DEF LoadInit, Init, CallInv, NotRead

LEMMA CallInvStep == CallInv /\ [QuietNext]_allvars => CallInv'
<1> SUFFICES ASSUME CallInv, [QuietNext]_allvars PROVE CallInv'
  OBVIOUS
<1>a. NotRead \in [certificate : Contents \cup {NoFile}, certificate_chain : Seq(Contents)]
  BY DEF NotRead
<1>1. CASE Calls
  <2> PICK a \in Addresses, cert \in Paths, chain \in Paths, key \in Paths, v \in {TlsVersions} :
             \/ StartAdd(a, cert, chain, key, v)
             \/ \E op \in Opt(Paths), of \in Opt(HexInputs) :
                   StartReplace(a, cert, chain, key, op, of, v)
    BY <1>1 DEF Calls
  <2>1. CASE StartAdd(a, cert, chain, key, v)
    BY <2>1, <1>a DEF StartAdd, CallInv
  <2>2. CASE \E op \in Opt(Paths), of \in Opt(HexInputs) :
               StartReplace(a, cert, chain, key, op, of, v)
    <3> PICK op \in Opt(Paths), of \in Opt(HexInputs) :
               StartReplace(a, cert, chain, key, op, of, v)
      BY <2>2
    <3>1. ReplaceOldFingerprint(op, of)' = ReplaceOldFingerprint(op, of)
      BY OldFingerprintStable DEF StartReplace
    <3>2. QED
      BY <3>1, <1>a DEF StartReplace, CallInv
  <2>3. QED
    BY <2>1, <2>2
<1>2. CASE ReadCert \/ ReadChain
  <2>1. CASE pc' = "Idle"
    BY <1>2, <2>1, <1>a DEF ReadCert, ReadChain, EndCall, CallInv
  <2>2. CASE pc' # "Idle"
    <3>1. UNCHANGED << fs, call >>
      BY <1>2, <2>2 DEF ReadCert, ReadChain, EndCall
    <3>2. (ReplaceOldFingerprint(call.id[1], call.id[2]))'
            = ReplaceOldFingerprint(call.id[1], call.id[2])
      BY <3>1, OldFingerprintStable
    <3>3. CASE ReadCert
      BY <2>2, <3>1, <3>2, <3>3 DEF ReadCert, EndCall, CallInv
    <3>4. CASE ReadChain
      BY <2>2, <3>1, <3>2, <3>4, SplitAssumption DEF ReadChain, EndCall, CallInv
    <3>5. QED
      BY <1>2, <3>3, <3>4
  <2>3. QED
    BY <2>1, <2>2
<1>3. CASE ReadKey
  BY <1>3, <1>a DEF ReadKey, EndCall, CallInv
<1>4. CASE \E p \in Paths, c \in Contents \cup {NoFile} : QuietWrite(p, c)
  BY <1>4 DEF QuietWrite, Write, WriteFile, CallInv
<1>5. CASE UNCHANGED allvars
  <2>1. (ReplaceOldFingerprint(call.id[1], call.id[2]))'
          = ReplaceOldFingerprint(call.id[1], call.id[2])
    BY <1>5, OldFingerprintStable DEF allvars
  <2>2. QED
    BY <1>5, <2>1 DEF allvars, CallInv
<1>6. QED
  BY <1>1, <1>2, <1>3, <1>4, <1>5 DEF QuietNext, Load

\* In every state of QuietSpec a call in progress is consistent with the disk.
LEMMA QuietCallInv == QuietSpec => []CallInv
BY CallInvInit, CallInvStep, PTL DEF QuietSpec

(***************************************************************************)
(* When files change only between calls, a call in progress has seen one  *)
(* disk state, the current one: the history views holds View(call, fs).   *)
(***************************************************************************)
LEMMA QuietViewsStep == QuietViews /\ [QuietNext]_allvars => QuietViews'
<1> SUFFICES ASSUME QuietViews, [QuietNext]_allvars PROVE QuietViews'
  OBVIOUS
<1>1. CASE Calls
  BY <1>1 DEF Calls, StartAdd, StartReplace, QuietViews
<1>2. CASE Load
  <2>1. CASE pc' = "Idle"
    BY <2>1 DEF QuietViews
  <2>2. CASE pc' # "Idle"
    <3>1. UNCHANGED << fs, call, views >>
      BY <1>2, <2>2 DEF Load, ReadCert, ReadChain, ReadKey, EndCall
    <3>2. pc # "Idle"
      BY <1>2 DEF Load, ReadCert, ReadChain, ReadKey
    <3>3. QED
      BY <3>1, <3>2 DEF QuietViews
  <2>3. QED
    BY <2>1, <2>2
<1>3. CASE \E p \in Paths, c \in Contents \cup {NoFile} : QuietWrite(p, c)
  BY <1>3 DEF QuietWrite, Write, QuietViews
<1>4. CASE UNCHANGED allvars
  BY <1>4 DEF allvars, QuietViews
<1>5. QED
  BY <1>1, <1>2, <1>3, <1>4 DEF QuietNext

THEOREM QuietViewsHold == QuietSpec => []QuietViews
<1>1. LoadInit => QuietViews
  BY DEF LoadInit, QuietViews
<1>2. QED
  BY <1>1, QuietViewsStep, PTL DEF QuietSpec

(***************************************************************************)
(* BundleWasOnDisk under QuietSpec: when no file is rewritten during a    *)
(* call, the bundle add_certificate or replace_certificate sends is the   *)
(* certificate, split chain and key that were on disk together, namely    *)
(* the one disk state the call has seen.  The torn_bundle run shows that  *)
(* this fails as soon as a rewrite can fall between two reads.            *)
(***************************************************************************)
THEOREM QuietBundle == QuietSpec => BundleWasOnDisk
<1> DEFINE Sent ==
      LET b == IF out'.req.type = "AddCertificate" THEN out'.req.certificate
               ELSE out'.req.new_certificate
      IN \E i \in 1 .. Len(views) :
           << b.certificate, b.certificate_chain, b.key >>
             = << views[i][1], SplitChain(views[i][2]), views[i][3] >>
<1>1. CallInv /\ QuietViews /\ [QuietNext]_allvars
        => [pc = "Key" /\ pc' = "Idle" /\ HandedOver' => Sent]_allvars
  <2> SUFFICES ASSUME CallInv, QuietViews, [QuietNext]_allvars
               PROVE  [pc = "Key" /\ pc' = "Idle" /\ HandedOver' => Sent]_allvars
    OBVIOUS
  <2>1. CASE UNCHANGED allvars
    BY <2>1
  <2>2. CASE QuietNext /\ pc = "Key" /\ pc' = "Idle" /\ HandedOver'
    \* Only the key read is enabled at pc = "Key", and only its success
    \* branch hands a request over.
    <3>1. ReadKey
      BY <2>2 DEF QuietNext, Calls, StartAdd, StartReplace, Load, ReadCert, ReadChain,
                  QuietWrite
    <3>2. fs[call.key] # NoFile
      BY <2>2, <3>1 DEF ReadKey, Fail, HandedOver
    <3> DEFINE bundle == [certificate |-> got.certificate,
                          certificate_chain |-> got.certificate_chain,
                          key |-> fs[call.key], versions |-> call.versions]
    <3>3. out'.req = Completed(bundle)
      BY <3>1, <3>2 DEF ReadKey, OrderRequest
    <3>4. (IF out'.req.type = "AddCertificate" THEN out'.req.certificate
           ELSE out'.req.new_certificate) = bundle
      BY <2>2, <3>3 DEF Completed, CallInv
    <3>5. views = << View(call, fs) >>
      BY <2>2 DEF QuietViews
    <3>6. /\ got.certificate = fs[call.cert]
          /\ got.certificate_chain = SplitChain(fs[call.chain])
      BY <2>2 DEF CallInv
    <3>7. QED
      BY <3>4, <3>5, <3>6 DEF View
  <2>3. CASE QuietNext /\ ~(pc = "Key" /\ pc' = "Idle" /\ HandedOver')
    BY <2>3
  <2>4. QED
    BY <2>1, <2>2, <2>3
<1>2. QED
  BY <1>1, QuietCallInv, QuietViewsHold, PTL DEF QuietSpec, BundleWasOnDisk

=============================================================================
