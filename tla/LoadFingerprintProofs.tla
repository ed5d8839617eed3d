------------------------ MODULE LoadFingerprintProofs ------------------------
(***************************************************************************)
(* The fingerprint round trip of replace_certificate survives concurrent  *)
(* rewrites of the disk.  Under LoadSpec the certificate, chain and key    *)
(* may be torn (the torn_bundle run), but an old certificate named by     *)
(* fingerprint string involves no file: the string is decoded before the  *)
(* first read and the bytes are kept until the request is sent.            *)
(***************************************************************************)
EXTENDS CertificateLoad, FingerprintProofs, TLAPS

\* A replace named by fingerprint string alone resolves it by decoding.
LEMMA ByStringIsDecode ==
  ASSUME NEW op, NEW of, op = None, of # None
  PROVE  ReplaceOldFingerprint(op, of) = DecodeFingerprint(of)
BY DEF ReplaceOldFingerprint

(***************************************************************************)
(* CallIdInv is inductive for LoadSpec: it speaks of the call's arguments *)
(* alone, which no read and no rewrite changes.                            *)
(***************************************************************************)
LEMMA CallIdInvStep == CallIdInv /\ [LoadNext]_allvars => CallIdInv'
<1> SUFFICES ASSUME CallIdInv, [LoadNext]_allvars PROVE CallIdInv'
  OBVIOUS
<1>1. CASE Calls
  <2> PICK a \in Addresses, cert \in Paths, chain \in Paths, key \in Paths, v \in {TlsVersions} :
             \/ StartAdd(a, cert, chain, key, v)
             \/ \E op \in Opt(Paths), of \in Opt(HexInputs) :
                   StartReplace(a, cert, chain, key, op, of, v)
    BY <1>1 DEF Calls
  <2>1. CASE StartAdd(a, cert, chain, key, v)
    BY <2>1 DEF StartAdd, CallIdInv
  <2>2. CASE \E op \in Opt(Paths), of \in Opt(HexInputs) :
               StartReplace(a, cert, chain, key, op, of, v)
    <3> PICK op \in Opt(Paths), of \in Opt(HexInputs) :
               StartReplace(a, cert, chain, key, op, of, v)
      BY <2>2
    <3>1. CASE ~ReplaceOldFingerprint(op, of).ok
      BY <3>1 DEF StartReplace, CallIdInv
    <3>2. CASE ReplaceOldFingerprint(op, of).ok
      <4>1. call' = [address |-> a, cert |-> cert, chain |-> chain, id |-> << op, of >>,
                     key |-> key, kind |-> "Replace",
                     old_fp |-> ReplaceOldFingerprint(op, of).fp, versions |-> v]
            /\ pc' = "Cert"
        BY <3>2 DEF StartReplace
      <4>2. op = None /\ of # None =>
              /\ DecodeFingerprint(of).ok
              /\ ReplaceOldFingerprint(op, of).fp = DecodeFingerprint(of).fp
        BY <3>2, ByStringIsDecode
      <4>3. QED
        BY <4>1, <4>2 DEF CallIdInv
    <3>3. QED
      BY <3>1, <3>2
  <2>3. QED
    BY <2>1, <2>2
<1>2. CASE Load
  <2>1. CASE pc' = "Idle"
    BY <2>1 DEF CallIdInv
  <2>2. CASE pc' # "Idle"
    <3>1. UNCHANGED call /\ pc # "Idle"
      BY <1>2, <2>2 DEF Load, ReadCert, ReadChain, ReadKey, EndCall
    <3>2. QED
      BY <3>1 DEF CallIdInv
  <2>3. QED
    BY <2>1, <2>2
<1>3. CASE \E p \in Paths, c \in Contents \cup {NoFile} : Write(p, c)
  BY <1>3 DEF Write, CallIdInv
<1>4. CASE UNCHANGED allvars
  BY <1>4 DEF allvars, CallIdInv
<1>5. QED
  BY <1>1, <1>2, <1>3, <1>4 DEF LoadNext

\* A step that hands nothing over and fails other than by decoding keeps
\* HexRoundTrip, whatever options it records.
LEMMA NothingSent ==
  ASSUME out' = NoRequest, result' # "FingerprintDecode"
  PROVE  HexRoundTrip'
BY DEF HexRoundTrip, HandedOver

\* A step that leaves the outcome of the last call alone keeps HexRoundTrip.
LEMMA OutcomeKept ==
  ASSUME HexRoundTrip, UNCHANGED << out, result, identity >>
  PROVE  HexRoundTrip'
BY DEF HexRoundTrip, HandedOver

\* A load that ends on a missing file sends nothing.
LEMMA FailedLoadKeeps ==
  ASSUME Fail("LoadCertificate") PROVE HexRoundTrip'
BY NothingSent DEF Fail

LEMMA HexStep ==
  CallIdInv /\ HexRoundTrip /\ [LoadNext]_allvars => HexRoundTrip'
<1> SUFFICES ASSUME CallIdInv, HexRoundTrip, [LoadNext]_allvars PROVE HexRoundTrip'
  OBVIOUS
<1>1. CASE Calls
  <2> PICK a \in Addresses, cert \in Paths, chain \in Paths, key \in Paths, v \in {TlsVersions} :
             \/ StartAdd(a, cert, chain, key, v)
             \/ \E op \in Opt(Paths), of \in Opt(HexInputs) :
                   StartReplace(a, cert, chain, key, op, of, v)
    BY <1>1 DEF Calls
  <2>1. CASE StartAdd(a, cert, chain, key, v)
    BY <2>1, OutcomeKept DEF StartAdd
  <2>2. CASE \E op \in Opt(Paths), of \in Opt(HexInputs) :
               StartReplace(a, cert, chain, key, op, of, v)
    <3> PICK op \in Opt(Paths), of \in Opt(HexInputs) :
               StartReplace(a, cert, chain, key, op, of, v)
      BY <2>2
    <3>1. CASE ReplaceOldFingerprint(op, of).ok
      BY <3>1, OutcomeKept DEF StartReplace
    \* replace_certificate returns at once: the options are recorded and
    \* the resolution error is the result.
    <3>2. CASE ~ReplaceOldFingerprint(op, of).ok
      <4>1. identity' = << op, of >> /\ out' = NoRequest
            /\ result' = ReplaceOldFingerprint(op, of).err
        BY <3>2 DEF StartReplace, Fail
      <4>2. CASE op = None /\ of # None
        <5>1. of \in Seq(STRING)
          BY <4>2, HexAssumption DEF Opt
        <5>2. ~DecodeFingerprint(of).ok
          BY <3>2, <4>2, ByStringIsDecode
        <5>3. ~IsHexString(of)
          BY <5>1, <5>2, DecodeOk
        <5>4. QED
          BY <4>1, <5>3 DEF HexRoundTrip, HandedOver
      <4>3. CASE ~(op = None /\ of # None)
        BY <4>1, <4>3 DEF HexRoundTrip
      <4>4. QED
        BY <4>2, <4>3
    <3>3. QED
      BY <3>1, <3>2
  <2>3. QED
    BY <2>1, <2>2
<1>2. CASE ReadCert \/ ReadChain
  <2>1. CASE Fail("LoadCertificate")
    BY <2>1, FailedLoadKeeps
  <2>2. CASE ~Fail("LoadCertificate")
    BY <1>2, <2>2, OutcomeKept DEF ReadCert, ReadChain
  <2>3. QED
    BY <2>1, <2>2
<1>3. CASE ReadKey
  <2>1. CASE fs[call.key] = NoFile
    BY <1>3, <2>1, FailedLoadKeeps DEF ReadKey
  <2>2. CASE fs[call.key] # NoFile
    <3> DEFINE bundle == [certificate |-> got.certificate,
                          certificate_chain |-> got.certificate_chain,
                          key |-> fs[call.key], versions |-> call.versions]
    <3>1. /\ out' = [req |-> Completed(bundle), to |-> "one"]
          /\ result' = "Ok"
          /\ identity' = call.id
          /\ pc = "Key"
      BY <1>3, <2>2 DEF ReadKey, OrderRequest, EndCall
    <3>2. out' # NoRequest
      BY <3>1 DEF NoRequest
    <3>3. CASE call.id[1] = None /\ call.id[2] # None
      <4> DEFINE f == call.id[2]
      \* Only a replace can name an old certificate.
      <4>1. /\ call.kind = "Replace"
            /\ f \in Seq(STRING)
            /\ DecodeFingerprint(f).ok
            /\ call.old_fp = DecodeFingerprint(f).fp
        BY <3>1, <3>3, HexAssumption DEF CallIdInv, Opt
      <4>2. out'.req.type = "ReplaceCertificate" /\ out'.req.old_fingerprint = call.old_fp
        BY <3>1, <4>1 DEF Completed
      <4>3. IsHexString(f) /\ EncodeLower(DecodeFingerprint(f).fp) = LowerCased(f)
        BY <4>1, DecodeOk, RoundTrip
      <4>4. QED
        BY <3>1, <3>2, <4>1, <4>2, <4>3 DEF HexRoundTrip, HandedOver
    <3>4. CASE ~(call.id[1] = None /\ call.id[2] # None)
      BY <3>1, <3>4 DEF HexRoundTrip
    <3>5. QED
      BY <3>3, <3>4
  <2>3. QED
    BY <2>1, <2>2
<1>4. CASE \E p \in Paths, c \in Contents \cup {NoFile} : Write(p, c)
  BY <1>4, OutcomeKept DEF Write, WriteFile
<1>5. CASE UNCHANGED allvars
  BY <1>5, OutcomeKept DEF allvars
<1>6. QED
  BY <1>1, <1>2, <1>3, <1>4, <1>5 DEF LoadNext, Load

(***************************************************************************)
(* HexRoundTrip holds in every state of LoadSpec, with files rewritten at *)
(* any moment and fairness or not: a fingerprint string that              *)
(* replace_certificate rejected is not hexadecimal, and one it accepted is *)
(* sent as bytes that encode back to it up to case.  CallIdInv is the      *)
(* strengthening: the bytes are decoded when the call starts and carried  *)
(* through the three reads.                                                *)
(***************************************************************************)
THEOREM LoadHexRoundTrip == LoadSpec => []HexRoundTrip
<1>1. LoadInit => CallIdInv /\ HexRoundTrip
  BY DEF LoadInit, Init, CallIdInv, HexRoundTrip
<1>2. CallIdInv /\ HexRoundTrip /\ [LoadNext]_allvars => CallIdInv' /\ HexRoundTrip'
  BY CallIdInvStep, HexStep
<1>3. QED
  BY <1>1, <1>2, PTL DEF LoadSpec

====
