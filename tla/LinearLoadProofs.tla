------------------------- MODULE LinearLoadProofs -------------------------
(***************************************************************************)
(* add_certificate and replace_certificate send a bundle that was on disk *)
(* as a whole even under concurrent rewrites, as long as no file the call *)
(* in progress has already hashed or read is rewritten before it returns: *)
(* the bundle is then the disk's content at the key read.  QuietSpec,     *)
(* where nothing is rewritten during a call, is the special case with no  *)
(* rewrite inside a call; the torn_bundle run shows that rewriting a file *)
(* already read breaks this.                                               *)
(***************************************************************************)
EXTENDS CertificateLoadProofs, SequenceTheorems, TLAPS

\* The old fingerprint a replace resolves reads the old certificate's file
\* alone: it is the same on any disk that agrees on that file.
LEMMA OldFingerprintLocal ==
  ASSUME NEW q, NEW f, q # None => fs'[q] = fs[q]
  PROVE  ReplaceOldFingerprint(q, f)' = ReplaceOldFingerprint(q, f)
BY DEF ReplaceOldFingerprint, FingerprintFromPath

\* A rewrite of an unconsulted file is a rewrite of the disk alone.
LEMMA UnconsultedWriteFacts ==
  ASSUME NEW p, NEW c, UnconsultedWrite(p, c)
  PROVE  /\ WriteFile(p, c)
         /\ UNCHANGED << pc, call, got >>
         /\ p \notin Consulted
         /\ views' = IF pc = "Idle" THEN views ELSE Append(views, View(call, fs'))
BY DEF UnconsultedWrite, Write

(***************************************************************************)
(* CallInv stays inductive when files the call has not consulted may be   *)
(* rewritten: the old certificate's file, the certificate file once read  *)
(* and the chain file once read are exactly the files CallInv speaks of.   *)
(***************************************************************************)
LEMMA LinearCallInvStep == CallInv /\ [LinearNext]_allvars => CallInv'
<1> SUFFICES ASSUME CallInv, [LinearNext]_allvars PROVE CallInv'
  OBVIOUS
<1>1. CASE Calls \/ Load \/ UNCHANGED allvars
  BY <1>1, CallInvStep DEF QuietNext
<1>2. CASE \E p \in Paths, c \in Contents \cup {NoFile} : UnconsultedWrite(p, c)
  <2> PICK p \in Paths, c \in Contents \cup {NoFile} : UnconsultedWrite(p, c)
    BY <1>2
  <2>1. /\ fs' = [fs EXCEPT ![p] = c]
        /\ UNCHANGED << pc, call, got >>
        /\ p \notin Consulted
    BY UnconsultedWriteFacts DEF WriteFile
  <2>2. fs' \in [Paths -> Contents \cup {NoFile}]
    BY <2>1 DEF CallInv
  <2>3. \A q \in Paths : q # p => fs'[q] = fs[q]
    BY <2>1 DEF CallInv
  <2>4. ASSUME pc # "Idle"
        PROVE  ReplaceOldFingerprint(call.id[1], call.id[2])'
                 = ReplaceOldFingerprint(call.id[1], call.id[2])
    <3>1. call.id[1] # None => call.id[1] \in Paths /\ call.id[1] # p
      <4>1. CASE call.kind = "Add"
        BY <2>4, <4>1 DEF CallInv
      <4>2. CASE call.kind = "Replace"
        BY <2>1, <2>4, <4>2 DEF CallInv, Consulted, Opt
      <4>3. QED
        BY <2>4, <4>1, <4>2 DEF CallInv
    <3>2. call.id[1] # None => fs'[call.id[1]] = fs[call.id[1]]
      BY <3>1, <2>3
    <3>3. QED
      BY <2>1, <3>2, OldFingerprintLocal
  <2>5. pc \in {"Chain", "Key"} => fs'[call.cert] = fs[call.cert]
    BY <2>1, <2>3 DEF CallInv, Consulted
  <2>6. pc = "Key" => fs'[call.chain] = fs[call.chain]
    BY <2>1, <2>3 DEF CallInv, Consulted
  <2>7. QED
    BY <2>1, <2>2, <2>4, <2>5, <2>6 DEF CallInv
<1>3. QED
  BY <1>1, <1>2 DEF LinearNext

\* In every state of LinearSpec a call in progress is consistent with the
\* files it has consulted.
LEMMA LinearCallInv == LinearSpec => []CallInv
BY CallInvInit, LinearCallInvStep, PTL DEF LinearSpec

\* A one-element sequence.
LEMMA SingletonSeq ==
  ASSUME NEW S, NEW x \in S
  PROVE  << x >> \in Seq(S) /\ Len(<< x >>) = 1 /\ << x >>[1] = x
<1>1. << x >> \in [1 .. 1 -> S]
  OBVIOUS
<1>2. QED
  BY <1>1, IsASeq

\* The three files of a call in progress, read on a typed disk, form a view.
LEMMA ViewType ==
  ASSUME NEW d \in [Paths -> FileStates], NEW k, {k.cert, k.chain, k.key} \subseteq Paths
  PROVE  View(k, d) \in FileStates \X FileStates \X FileStates
BY DEF View

(***************************************************************************)
(* LastView is inductive under LinearSpec: a call starts with the view of *)
(* the disk it starts on, a read changes neither the disk nor the history, *)
(* and a rewrite during the call appends the view of the new disk.         *)
(***************************************************************************)
LEMMA LastViewStep == CallInv /\ LastView /\ [LinearNext]_allvars => LastView'
<1> SUFFICES ASSUME CallInv, LastView, [LinearNext]_allvars PROVE LastView'
  OBVIOUS
<1>a. fs \in [Paths -> FileStates]
  BY DEF CallInv, FileStates
<1>1. CASE Calls
  <2> PICK a \in Addresses, cert \in Paths, chain \in Paths, key \in Paths, v \in {TlsVersions} :
             \/ StartAdd(a, cert, chain, key, v)
             \/ \E op \in Opt(Paths), of \in Opt(HexInputs) :
                   StartReplace(a, cert, chain, key, op, of, v)
    BY <1>1 DEF Calls
  <2>1. CASE pc' = "Idle"
    BY <1>1, <2>1 DEF Calls, StartAdd, StartReplace, LastView
  <2>2. CASE pc' # "Idle"
    <3>1. /\ views' = << View(call', fs) >>
          /\ fs' = fs
          /\ {call'.cert, call'.chain, call'.key} \subseteq Paths
      BY <2>2 DEF StartAdd, StartReplace
    <3>2. View(call', fs) \in FileStates \X FileStates \X FileStates
      BY <1>a, <3>1, ViewType
    <3>3. QED
      BY <2>2, <3>1, <3>2, SingletonSeq DEF LastView
  <2>3. QED
    BY <2>1, <2>2
<1>2. CASE Load
  <2>1. CASE pc' = "Idle"
    <3>1. views' = << >>
      BY <1>2, <2>1 DEF Load, ReadCert, ReadChain, ReadKey, EndCall
    <3>2. QED
      BY <2>1, <3>1, EmptySeq DEF LastView
  <2>2. CASE pc' # "Idle"
    <3>1. UNCHANGED << fs, call, views >> /\ pc # "Idle"
      BY <1>2, <2>2 DEF Load, ReadCert, ReadChain, ReadKey, EndCall
    <3>2. QED
      BY <2>2, <3>1 DEF LastView
  <2>3. QED
    BY <2>1, <2>2
<1>3. CASE \E p \in Paths, c \in Contents \cup {NoFile} : UnconsultedWrite(p, c)
  <2> PICK p \in Paths, c \in Contents \cup {NoFile} : UnconsultedWrite(p, c)
    BY <1>3
  <2>1. /\ fs' = [fs EXCEPT ![p] = c]
        /\ UNCHANGED << pc, call >>
        /\ views' = IF pc = "Idle" THEN views ELSE Append(views, View(call, fs'))
    BY UnconsultedWriteFacts DEF WriteFile
  <2>2. CASE pc = "Idle"
    BY <2>1, <2>2 DEF LastView
  <2>3. CASE pc # "Idle"
    <3>1. fs' \in [Paths -> FileStates]
      BY <1>a, <2>1 DEF FileStates
    <3>2. View(call, fs') \in FileStates \X FileStates \X FileStates
      BY <2>3, <3>1, ViewType DEF CallInv
    <3>3. views \in Seq(FileStates \X FileStates \X FileStates)
      BY DEF LastView
    <3>4. /\ views' \in Seq(FileStates \X FileStates \X FileStates)
          /\ Len(views') = Len(views) + 1
          /\ views'[Len(views) + 1] = View(call, fs')
      BY <2>1, <2>3, <3>2, <3>3, AppendProperties
    <3>5. Len(views) \in Nat
      BY <3>3, LenProperties
    <3>6. QED
      BY <2>1, <2>3, <3>4, <3>5 DEF LastView
  <2>4. QED
    BY <2>2, <2>3
<1>4. CASE UNCHANGED allvars
  BY <1>4 DEF allvars, LastView
<1>5. QED
  BY <1>1, <1>2, <1>3, <1>4 DEF LinearNext

\* In every state of LinearSpec the newest view a call has recorded is the
\* current content of its three files.
THEOREM LinearLastView == LinearSpec => []LastView
<1>1. LoadInit => LastView
  BY EmptySeq DEF LoadInit, LastView
<1>2. QED
  BY <1>1, CallInvInit, LinearCallInvStep, LastViewStep, PTL DEF LinearSpec

(***************************************************************************)
(* BundleWasOnDisk, the second property of the load_linearizable run:     *)
(* when only files a call has not consulted are rewritten during it, the  *)
(* bundle add_certificate or replace_certificate sends was on disk as a   *)
(* whole at the key read, the newest disk state the call has seen.        *)
(* CallInv says the certificate and the split chain it sends are what the *)
(* files hold then, and LastView that this disk state is recorded last in *)
(* views.                                                                  *)
(***************************************************************************)
THEOREM LinearBundle == LinearSpec => BundleWasOnDisk
<1> DEFINE Sent ==
      LET b == IF out'.req.type = "AddCertificate" THEN out'.req.certificate
               ELSE out'.req.new_certificate
      IN \E i \in 1 .. Len(views) :
           << b.certificate, b.certificate_chain, b.key >>
             = << views[i][1], SplitChain(views[i][2]), views[i][3] >>
<1>1. CallInv /\ LastView /\ [LinearNext]_allvars
        => [pc = "Key" /\ pc' = "Idle" /\ HandedOver' => Sent]_allvars
  <2> SUFFICES ASSUME CallInv, LastView, [LinearNext]_allvars
               PROVE  [pc = "Key" /\ pc' = "Idle" /\ HandedOver' => Sent]_allvars
    OBVIOUS
  <2>1. CASE UNCHANGED allvars
    BY <2>1
  <2>2. CASE LinearNext /\ pc = "Key" /\ pc' = "Idle" /\ HandedOver'
    \* At pc = "Key" a call starts nothing, a rewrite keeps pc, and only the
    \* success branch of the key read hands a request over.
    <3>1. ReadKey
      BY <2>2 DEF LinearNext, Calls, StartAdd, StartReplace, Load, ReadCert, ReadChain,
                  UnconsultedWrite, Write
    <3>2. fs[call.key] # NoFile
      BY <2>2, <3>1 DEF ReadKey, Fail, HandedOver
    <3> DEFINE bundle == [certificate |-> got.certificate,
                          certificate_chain |-> got.certificate_chain,
                          key |-> fs[call.key], versions |-> call.versions]
    <3>3. out'.req = Completed(bundle)
      BY <3>1, <3>2 DEF ReadKey, OrderRequest
    <3>4. (IF out'.req.type = "AddCertificate" THEN out'.req.certificate
           ELSE out'.req.new_certificate) = bundle
      BY <2>2, <3>3 DEF Completed, CallInv
    <3>5. /\ Len(views) \in Nat
          /\ Len(views) >= 1
          /\ views[Len(views)] = View(call, fs)
      BY <2>2, LenProperties DEF LastView
    <3>6. /\ got.certificate = fs[call.cert]
          /\ got.certificate_chain = SplitChain(fs[call.chain])
      BY <2>2 DEF CallInv
    <3>7. QED
      BY <3>4, <3>5, <3>6 DEF View
  <2>3. CASE LinearNext /\ ~(pc = "Key" /\ pc' = "Idle" /\ HandedOver')
    BY <2>3
  <2>4. QED
    BY <2>1, <2>2, <2>3
<1>2. QED
  BY <1>1, LinearCallInv, LinearLastView, PTL DEF LinearSpec, BundleWasOnDisk

====
