--------------------------- MODULE FingerprintProofs ---------------------------
(***************************************************************************)
(* Proofs about the fingerprint codec of request_builder.rs and the two   *)
(* flows that resolve an old certificate: decode_fingerprint accepts      *)
(* exactly the hexadecimal strings, and the bytes it returns re-encode to *)
(* the string it was given, up to case; replace_certificate and           *)
(* remove_certificate designate the same certificate.  These hold for     *)
(* every string, not only the ones a TLC run enumerates.                   *)
(***************************************************************************)
EXTENDS RequestBuilderProofs, SequenceTheorems, TLAPS

\* A byte made of two nibbles gives them back by division and remainder.
LEMMA ByteNibbles ==
  ASSUME NEW hi \in 0 .. 15, NEW lo \in 0 .. 15
  PROVE  /\ (16 * hi + lo) \div 16 = hi
         /\ (16 * hi + lo) % 16 = lo
BY SMT

\* The pairwise test of decode_fingerprint (both characters of every byte
\* are hex digits) is the character-wise test of IsHexString, for a string
\* of even length.
LEMMA PairsAreChars ==
  ASSUME NEW s \in Seq(STRING), Len(s) % 2 = 0
  PROVE  (\A i \in 1 .. Len(s) \div 2 : IsHexDigit(s[2 * i - 1]) /\ IsHexDigit(s[2 * i]))
           <=> \A j \in 1 .. Len(s) : IsHexDigit(s[j])
<1> DEFINE n == Len(s) \div 2
<1>0. Len(s) \in Nat /\ Len(s) = 2 * n
  BY LenProperties
<1>1. ASSUME \A i \in 1 .. n : IsHexDigit(s[2 * i - 1]) /\ IsHexDigit(s[2 * i]),
             NEW j \in 1 .. Len(s)
      PROVE  IsHexDigit(s[j])
  <2> DEFINE i == (j + 1) \div 2
  <2>1. i \in 1 .. n /\ (j = 2 * i - 1 \/ j = 2 * i)
    BY <1>0
  <2>2. QED
    BY <1>1, <2>1
<1>2. ASSUME \A j \in 1 .. Len(s) : IsHexDigit(s[j]), NEW i \in 1 .. n
      PROVE  IsHexDigit(s[2 * i - 1]) /\ IsHexDigit(s[2 * i])
  <2>1. 2 * i - 1 \in 1 .. Len(s) /\ 2 * i \in 1 .. Len(s)
    BY <1>0
  <2>2. QED
    BY <1>2, <2>1
<1>3. QED
  BY <1>1, <1>2

\* decode_fingerprint succeeds exactly on the hexadecimal strings, and
\* fails with its own error otherwise.
LEMMA DecodeOk ==
  ASSUME NEW s \in Seq(STRING)
  PROVE  /\ DecodeFingerprint(s).ok <=> IsHexString(s)
         /\ ~DecodeFingerprint(s).ok => DecodeFingerprint(s).err = "FingerprintDecode"
<1>1. CASE Len(s) % 2 = 0
  BY <1>1, PairsAreChars DEF DecodeFingerprint, IsHexString
<1>2. CASE Len(s) % 2 # 0
  BY <1>2 DEF DecodeFingerprint, IsHexString
<1>3. QED
  BY <1>1, <1>2

\* The bytes decode_fingerprint returns for a hexadecimal string, written
\* back as two lower-case digits per byte, high nibble first, are that
\* string with its letters lower-cased: no nibble is lost, swapped or moved.
LEMMA RoundTrip ==
  ASSUME NEW s \in Seq(STRING), IsHexString(s)
  PROVE  EncodeLower(DecodeFingerprint(s).fp) = LowerCased(s)
<1> DEFINE n == Len(s) \div 2
           b == [i \in 1 .. n |-> HexByte(s, i)]
<1>0. Len(s) \in Nat /\ Len(s) = 2 * n /\ n \in Nat
  BY LenProperties DEF IsHexString
<1>1. \A j \in 1 .. Len(s) : IsHexDigit(s[j])
  BY DEF IsHexString
<1>2. DecodeFingerprint(s).fp = b
  BY <1>1, PairsAreChars DEF DecodeFingerprint, IsHexString
<1>3. b \in Seq(Bytes) /\ Len(b) = n
  <2>1. \A i \in 1 .. n : HexByte(s, i) \in Bytes
    <3> SUFFICES ASSUME NEW i \in 1 .. n PROVE HexByte(s, i) \in Bytes
      OBVIOUS
    <3>1. 2 * i - 1 \in 1 .. Len(s) /\ 2 * i \in 1 .. Len(s)
      BY <1>0
    <3>2. NibbleValue(s[2 * i - 1]) \in 0 .. 15 /\ NibbleValue(s[2 * i]) \in 0 .. 15
      BY <1>1, <3>1, NibbleType
    <3>3. QED
      BY <3>2, NibblesMakeByte DEF HexByte
  <2>2. b \in Seq(Bytes)
    BY <1>0, <2>1, IsASeq
  <2>3. QED
    BY <1>0, <2>2, LenProperties
\* Each character of the encoding is the lower-case form of the character
\* at the same place of s.
<1>4. ASSUME NEW j \in 1 .. Len(s)
      PROVE  (IF j % 2 = 1 THEN LowerDigits[(b[(j + 1) \div 2] \div 16) + 1]
              ELSE LowerDigits[(b[j \div 2] % 16) + 1])
             = LowerDigits[NibbleValue(s[j]) + 1]
  <2>1. CASE j % 2 = 1
    <3> DEFINE i == (j + 1) \div 2
    <3>1. i \in 1 .. n /\ 2 * i - 1 = j /\ 2 * i \in 1 .. Len(s)
      BY <1>0, <2>1
    <3>2. NibbleValue(s[j]) \in 0 .. 15 /\ NibbleValue(s[2 * i]) \in 0 .. 15
      BY <1>1, <3>1, NibbleType
    <3>3. b[i] = 16 * NibbleValue(s[j]) + NibbleValue(s[2 * i])
      BY <3>1 DEF HexByte
    <3>4. b[i] \div 16 = NibbleValue(s[j])
      BY <3>2, <3>3, ByteNibbles
    <3>5. QED
      BY <2>1, <3>4
  <2>2. CASE j % 2 # 1
    <3> DEFINE i == j \div 2
    <3>1. i \in 1 .. n /\ 2 * i = j /\ 2 * i - 1 \in 1 .. Len(s)
      BY <1>0, <2>2
    <3>2. NibbleValue(s[j]) \in 0 .. 15 /\ NibbleValue(s[2 * i - 1]) \in 0 .. 15
      BY <1>1, <3>1, NibbleType
    <3>3. b[i] = 16 * NibbleValue(s[2 * i - 1]) + NibbleValue(s[j])
      BY <3>1 DEF HexByte
    <3>4. b[i] % 16 = NibbleValue(s[j])
      BY <3>2, <3>3, ByteNibbles
    <3>5. QED
      BY <2>2, <3>4
  <2>3. QED
    BY <2>1, <2>2
<1>5. QED
  BY <1>0, <1>2, <1>3, <1>4 DEF EncodeLower, LowerCased

(***************************************************************************)
(* What one invocation does to identity: only replace_certificate and     *)
(* remove_certificate record old-certificate options; every other method  *)
(* records none, and a rewrite of the disk leaves the outcome of the last *)
(* invocation alone.                                                       *)
(***************************************************************************)
ReplaceStep ==
  \E a \in Addresses, cert, chain, key \in Paths, v \in {TlsVersions},
     op \in Opt(Paths), of \in Opt(HexInputs) :
    ReplaceCertificate(a, cert, chain, key, op, of, v)
RemoveStep ==
  \E a \in Addresses, op \in Opt(Paths), of \in Opt(HexInputs) : RemoveCertificate(a, op, of)

LEMMA NextShape ==
  ASSUME [Next]_vars
  PROVE  \/ UNCHANGED << out, result, identity >>
         \/ identity' = << None, None >>
         \/ ReplaceStep
         \/ RemoveStep
<1>1. CASE \/ \E p \in Paths : SaveState(p) \/ LoadState(p)
           \/ DumpState \/ SoftStop \/ HardStop \/ Status \/ Events \/ ListListeners
           \/ \E m \in MetricsCmds : ConfigureMetrics(m)
           \/ \E p \in Opt(Paths) : ReloadConfiguration(p)
           \/ \E h, hs, t \in BOOLEAN, d \in Opt(Hostnames) : ListFrontends(h, hs, t, d)
  BY <1>1 DEF SaveState, LoadState, DumpState, SoftStop, HardStop, Status, Events,
              ListListeners, ConfigureMetrics, ReloadConfiguration, ListFrontends, OtherCall
<1>2. CASE \/ \E id \in ClusterIds, b \in BackendIds, a \in Addresses :
                \/ \E st \in Opt(StickyIds), bk \in Opt(BOOLEAN) : BackendAdd(id, b, a, st, bk)
                \/ BackendRemove(id, b, a)
           \/ \E id \in ClusterIds :
                \/ \E ss, hr, sp, ep \in BOOLEAN, lb \in LBPolicies :
                      ClusterAdd(id, ss, hr, sp, ep, lb)
                \/ ClusterRemove(id)
           \/ \E id \in ClusterIds, a \in Addresses :
                \/ \E t \in Opt(TagMaps) : TcpFrontendAdd(id, a, t)
                \/ TcpFrontendRemove(id, a)
  BY <1>2 DEF BackendAdd, BackendRemove, ClusterAdd, ClusterRemove, TcpFrontendAdd,
              TcpFrontendRemove, OtherCall
<1>3. CASE FrontendCommand
  BY <1>3 DEF FrontendCommand, HttpFrontendCommand, HttpsFrontendCommand, OtherCall
<1>4. CASE HttpsListenerCommand \/ HttpListenerCommand \/ TcpListenerCommand
  BY <1>4 DEF HttpsListenerCommand, HttpListenerCommand, TcpListenerCommand,
              HttpsListenerAdd, HttpListenerAdd, TcpListenerAdd, AddListener,
              RemoveListener, ActivateListener, DeactivateListener, ListenerRequest,
              OtherCall
<1>5. CASE \E l \in LoggingLevels : LoggingFilter(l)
  BY <1>5 DEF LoggingFilter, OtherCall
<1>6. CASE CertificateCommand
  BY <1>6 DEF CertificateCommand, AddCertificate, OtherCall, ReplaceStep, RemoveStep
<1>7. CASE \E p \in Paths, c \in Contents \cup {NoFile} : WriteFile(p, c)
  BY <1>7 DEF WriteFile
<1>8. CASE UNCHANGED vars
  BY <1>8 DEF vars
<1>9. QED
  BY <1>1, <1>2, <1>3, <1>4, <1>5, <1>6, <1>7, <1>8 DEF Next

\* A replace_certificate that names the old certificate by fingerprint
\* string alone leaves HexRoundTrip true, whatever it read from disk.
LEMMA ReplaceRoundTrip ==
  ASSUME ReplaceStep PROVE HexRoundTrip'
<1>1. PICK a \in Addresses, cert, chain, key \in Paths, v \in {TlsVersions},
           op \in Opt(Paths), of \in Opt(HexInputs) :
        ReplaceCertificate(a, cert, chain, key, op, of, v)
  BY DEF ReplaceStep
<1> DEFINE d == DecodeFingerprint(of)
           new == LoadFullCertificate(cert, chain, key, v)
<1>2. identity' = << op, of >>
  BY <1>1 DEF ReplaceCertificate
<1>3. CASE ~(op = None /\ of # None)
  BY <1>2, <1>3 DEF HexRoundTrip
<1>4. CASE op = None /\ of # None
  <2>1. of \in Seq(STRING)
    BY <1>4, HexAssumption DEF Opt
  <2>2. ReplaceOldFingerprint(op, of) = d
    BY <1>4 DEF ReplaceOldFingerprint
  <2>3. ~new.ok => new.err = "LoadCertificate"
    BY DEF LoadFullCertificate
  <2>4. CASE ~d.ok
    <3>1. out' = NoRequest /\ result' = "FingerprintDecode" /\ ~IsHexString(of)
      BY <1>1, <2>1, <2>2, <2>4, DecodeOk DEF ReplaceCertificate, Fail
    <3>2. QED
      BY <1>2, <3>1 DEF HexRoundTrip, HandedOver
  <2>5. CASE d.ok /\ ~new.ok
    <3>1. out' = NoRequest /\ result' = "LoadCertificate"
      BY <1>1, <2>2, <2>3, <2>5 DEF ReplaceCertificate, Fail
    <3>2. QED
      BY <1>2, <3>1 DEF HexRoundTrip, HandedOver
  <2>6. CASE d.ok /\ new.ok
    <3>1. out' = [req |-> [address |-> a, new_certificate |-> new.bundle,
                           old_fingerprint |-> d.fp, type |-> "ReplaceCertificate"],
                  to |-> "one"]
          /\ result' = "Ok"
      BY <1>1, <2>2, <2>6 DEF ReplaceCertificate, OrderRequest
    <3>2. IsHexString(of) /\ EncodeLower(d.fp) = LowerCased(of)
      BY <2>1, <2>6, DecodeOk, RoundTrip
    <3>3. out' # NoRequest
      BY <3>1 DEF NoRequest
    <3>4. QED
      BY <1>2, <3>1, <3>2, <3>3 DEF HexRoundTrip, HandedOver
  <2>7. QED
    BY <2>4, <2>5, <2>6
<1>5. QED
  BY <1>3, <1>4

\* The same for remove_certificate.
LEMMA RemoveRoundTrip ==
  ASSUME RemoveStep PROVE HexRoundTrip'
<1>1. PICK a \in Addresses, op \in Opt(Paths), of \in Opt(HexInputs) :
        RemoveCertificate(a, op, of)
  BY DEF RemoveStep
<1> DEFINE d == DecodeFingerprint(of)
<1>2. identity' = << op, of >>
  BY <1>1 DEF RemoveCertificate
<1>3. CASE ~(op = None /\ of # None)
  BY <1>2, <1>3 DEF HexRoundTrip
<1>4. CASE op = None /\ of # None
  <2>1. of \in Seq(STRING)
    BY <1>4, HexAssumption DEF Opt
  <2>2. RemoveFingerprint(op, of) = d
    BY <1>4 DEF RemoveFingerprint
  <2>3. CASE ~d.ok
    <3>1. out' = NoRequest /\ result' = "FingerprintDecode" /\ ~IsHexString(of)
      BY <1>1, <2>1, <2>2, <2>3, DecodeOk DEF RemoveCertificate, Fail
    <3>2. QED
      BY <1>2, <3>1 DEF HexRoundTrip, HandedOver
  <2>4. CASE d.ok
    <3>1. out' = [req |-> [address |-> a, fingerprint |-> d.fp, type |-> "RemoveCertificate"],
                  to |-> "one"]
          /\ result' = "Ok"
      BY <1>1, <2>2, <2>4 DEF RemoveCertificate, OrderRequest
    <3>2. IsHexString(of) /\ EncodeLower(d.fp) = LowerCased(of)
      BY <2>1, <2>4, DecodeOk, RoundTrip
    <3>3. out' # NoRequest
      BY <3>1 DEF NoRequest
    <3>4. QED
      BY <1>2, <3>1, <3>2, <3>3 DEF HexRoundTrip, HandedOver
  <2>5. QED
    BY <2>3, <2>4
<1>5. QED
  BY <1>3, <1>4

(***************************************************************************)
(* HexRoundTrip holds in every reachable state: a fingerprint string that *)
(* replace_certificate or remove_certificate rejected is not hexadecimal, *)
(* and one they accepted is hexadecimal and is sent as bytes that encode  *)
(* back to it up to case.  It needs no strengthening: each invocation     *)
(* either records no fingerprint string or re-establishes the property    *)
(* from the string it decodes, and a disk rewrite touches neither.        *)
(***************************************************************************)
THEOREM HexRoundTripHolds == Spec => []HexRoundTrip
<1>1. Init => HexRoundTrip
  BY DEF Init, HexRoundTrip
<1>2. HexRoundTrip /\ [Next]_vars => HexRoundTrip'
  <2> SUFFICES ASSUME HexRoundTrip, [Next]_vars PROVE HexRoundTrip'
    OBVIOUS
  <2>1. CASE UNCHANGED << out, result, identity >>
    BY <2>1 DEF HexRoundTrip, HandedOver
  <2>2. CASE identity' = << None, None >>
    BY <2>2 DEF HexRoundTrip
  <2>3. QED
    BY <2>1, <2>2, NextShape, ReplaceRoundTrip, RemoveRoundTrip
<1>3. QED
  BY <1>1, <1>2, PTL DEF Spec

(***************************************************************************)
(* replace_certificate and remove_certificate, which each spell out the   *)
(* path-XOR-fingerprint match, designate the same certificate (or fail    *)
(* with the same error) for every pair of options and every disk, so in   *)
(* every reachable state.                                                  *)
(***************************************************************************)
THEOREM FlowsAgree == Spec => []IdentityFlowsAgree
<1>1. IdentityFlowsAgree
  BY DEF IdentityFlowsAgree, ReplaceOldFingerprint, RemoveFingerprint
<1>2. QED
  BY <1>1, PTL

====
