--------------------------- MODULE CertificateLoad ---------------------------
(***************************************************************************)
(* add_certificate and replace_certificate with load_full_certificate     *)
(* taken apart into its three file reads.  RequestBuilder treats a call as *)
(* one atomic step; here the client reads the certificate, then the chain, *)
(* then the key, and another process (a certificate-renewal tool, an       *)
(* operator) may rewrite files between any two of those reads.             *)
(*                                                                         *)
(* The history variable views records what the call has seen of the disk, *)
(* so that a sent bundle can be compared with the disk states it lived in. *)
(***************************************************************************)
EXTENDS RequestBuilder

\* How many times the disk may be rewritten while one call is in progress.
CONSTANT MaxWritesPerCall

ASSUME WritesAssumption == MaxWritesPerCall \in Nat

VARIABLES
  pc,     \* "Idle" between calls, else the read the call does next
  call,   \* the arguments of the call in progress
  got,    \* what the call has read so far
  views   \* history: the (certificate, chain, key) files at each disk
          \* state the call in progress has lived through, in order

lvars == << pc, call, got, views >>
allvars == << fs, out, result, identity, pc, call, got, views >>

NoCall == [kind |-> "None"]
NotRead == [certificate |-> NoFile, certificate_chain |-> << >>]

\* What the files named by call c hold on disk d.
View(c, d) == << d[c.cert], d[c.chain], d[c.key] >>

\* Every call ends by recording its old-certificate options (see identity);
\* the client forgets its arguments and what it read.
EndCall ==
  /\ pc' = "Idle" /\ call' = NoCall /\ got' = NotRead /\ views' = << >>
  /\ identity' = call.id
  /\ UNCHANGED fs

(***************************************************************************)
(* add_certificate: nothing happens before the first read.                 *)
(***************************************************************************)
StartAdd(address, cert, chain, key, versions) ==
  /\ pc = "Idle"
  /\ pc' = "Cert"
  /\ call' = [address |-> address, cert |-> cert, chain |-> chain, id |-> << None, None >>,
              key |-> key, kind |-> "Add", versions |-> versions]
  /\ got' = NotRead
  /\ views' = << View(call', fs) >>
  /\ UNCHANGED << fs, out, result, identity >>

(***************************************************************************)
(* replace_certificate resolves the old fingerprint first (reading the    *)
(* old certificate's file when it is named by path) and returns at once   *)
(* if that fails.                                                          *)
(***************************************************************************)
StartReplace(address, cert, chain, key, old_path, old_fingerprint, versions) ==
  LET old == ReplaceOldFingerprint(old_path, old_fingerprint) IN
  /\ pc = "Idle"
  /\ \/ /\ ~old.ok
        /\ Fail(old.err)
        /\ identity' = << old_path, old_fingerprint >>
        /\ UNCHANGED << fs, pc, call, got, views >>
     \/ /\ old.ok
        /\ pc' = "Cert"
        /\ call' = [address |-> address, cert |-> cert, chain |-> chain,
                    id |-> << old_path, old_fingerprint >>, key |-> key, kind |-> "Replace",
                    old_fp |-> old.fp, versions |-> versions]
        /\ got' = NotRead
        /\ views' = << View(call', fs) >>
        /\ UNCHANGED << fs, out, result, identity >>

(***************************************************************************)
(* load_full_certificate, one read per step.  A missing file ends the     *)
(* call with the loader's error and nothing is sent.                       *)
(***************************************************************************)
ReadCert ==
  /\ pc = "Cert"
  /\ \/ fs[call.cert] = NoFile /\ Fail("LoadCertificate") /\ EndCall
     \/ /\ fs[call.cert] # NoFile
        /\ got' = [got EXCEPT !.certificate = fs[call.cert]]
        /\ pc' = "Chain"
        /\ UNCHANGED << fs, out, result, identity, call, views >>

\* Defect for validation: the chain file is forwarded without being split.
ReadChainUnsplit ==
  /\ pc = "Chain"
  /\ \/ fs[call.chain] = NoFile /\ Fail("LoadCertificate") /\ EndCall
     \/ /\ fs[call.chain] # NoFile
        /\ got' = [got EXCEPT !.certificate_chain = << fs[call.chain] >>]
        /\ pc' = "Key"
        /\ UNCHANGED << fs, out, result, identity, call, views >>

ReadChain ==
  /\ pc = "Chain"
  /\ \/ fs[call.chain] = NoFile /\ Fail("LoadCertificate") /\ EndCall
     \/ /\ fs[call.chain] # NoFile
        /\ got' = [got EXCEPT !.certificate_chain = SplitChain(fs[call.chain])]
        /\ pc' = "Key"
        /\ UNCHANGED << fs, out, result, identity, call, views >>

\* The request the call hands over once the bundle is complete.
Completed(bundle) ==
  IF call.kind = "Add"
  THEN [address |-> call.address, certificate |-> bundle, type |-> "AddCertificate"]
  ELSE [address |-> call.address, new_certificate |-> bundle,
        old_fingerprint |-> call.old_fp, type |-> "ReplaceCertificate"]

\* Defect for validation: a missing key makes the client try the read again.
ReadKeyRetrying ==
  /\ pc = "Key"
  /\ \/ fs[call.key] = NoFile /\ Fail("LoadCertificate")
        /\ UNCHANGED << fs, identity, pc, call, got, views >>
     \/ /\ fs[call.key] # NoFile
        /\ OrderRequest(Completed([certificate |-> got.certificate,
                                   certificate_chain |-> got.certificate_chain,
                                   key |-> fs[call.key], versions |-> call.versions]))
        /\ EndCall

ReadKey ==
  /\ pc = "Key"
  /\ \/ fs[call.key] = NoFile /\ Fail("LoadCertificate") /\ EndCall
     \/ /\ fs[call.key] # NoFile
        /\ OrderRequest(Completed([certificate |-> got.certificate,
                                   certificate_chain |-> got.certificate_chain,
                                   key |-> fs[call.key], versions |-> call.versions]))
        /\ EndCall

Load == ReadCert \/ ReadChain \/ ReadKey

(***************************************************************************)
(* The environment rewrites or deletes one file, at most MaxWritesPerCall *)
(* times while a call is in progress.                                      *)
(***************************************************************************)
Write(p, c) ==
  /\ pc = "Idle" \/ Len(views) <= MaxWritesPerCall
  /\ WriteFile(p, c)
  /\ views' = IF pc = "Idle" THEN views ELSE Append(views, View(call, fs'))
  /\ UNCHANGED << pc, call, got >>

\* Files are rewritten only while no call is in progress.
QuietWrite(p, c) == pc = "Idle" /\ Write(p, c)

\* The files the call in progress has consulted so far: a replace hashes the
\* old certificate's file before its first read, then the certificate and
\* the chain files are read in turn.
Consulted ==
  {p \in Paths : \/ pc # "Idle" /\ call.kind = "Replace" /\ p = call.id[1]
                 \/ pc \in {"Chain", "Key"} /\ p = call.cert
                 \/ pc = "Key" /\ p = call.chain}

\* Files are rewritten at any moment, but never one the call in progress has
\* already consulted: a renewal tool that writes the key last, say, while
\* the client is still reading the certificate.
UnconsultedWrite(p, c) == p \notin Consulted /\ Write(p, c)

LoadInit ==
  /\ Init
  /\ pc = "Idle"
  /\ call = NoCall
  /\ got = NotRead
  /\ views = << >>

Calls ==
  \E a \in Addresses, cert, chain, key \in Paths, v \in {TlsVersions} :
    \/ StartAdd(a, cert, chain, key, v)
    \/ \E op \in Opt(Paths), of \in Opt(HexInputs) :
          StartReplace(a, cert, chain, key, op, of, v)

LoadNext == Calls \/ Load \/ \E p \in Paths, c \in Contents \cup {NoFile} : Write(p, c)

QuietNext == Calls \/ Load \/ \E p \in Paths, c \in Contents \cup {NoFile} : QuietWrite(p, c)

LinearNext ==
  Calls \/ Load \/ \E p \in Paths, c \in Contents \cup {NoFile} : UnconsultedWrite(p, c)

\* The client runs each call to its end: it is a single synchronous process
\* and a read of a local file returns.
LoadSpec == LoadInit /\ [][LoadNext]_allvars /\ WF_allvars(Load)

QuietSpec == LoadInit /\ [][QuietNext]_allvars

LinearSpec == LoadInit /\ [][LinearNext]_allvars

-----------------------------------------------------------------------------
(***************************************************************************)
(* Properties.                                                             *)
(***************************************************************************)

\* What a call in progress knows: its arguments are inputs the atomic
\* handler accepts, a replace has resolved its old fingerprint, and what it
\* has read so far is what the files hold.  Inductive for QuietSpec only:
\* a rewrite during the call breaks the last two conjuncts.
CallInv ==
  /\ fs \in [Paths -> Contents \cup {NoFile}]
  /\ pc \in {"Idle", "Cert", "Chain", "Key"}
  /\ got \in [certificate : Contents \cup {NoFile}, certificate_chain : Seq(Contents)]
  /\ pc # "Idle" =>
       /\ call.address \in Addresses
       /\ {call.cert, call.chain, call.key} \subseteq Paths
       /\ call.versions = TlsVersions
       /\ \/ call.kind = "Add" /\ call.id = << None, None >>
          \/ /\ call.kind = "Replace"
             /\ call.id \in Opt(Paths) \X Opt(HexInputs)
             /\ ReplaceOldFingerprint(call.id[1], call.id[2]).ok
             /\ call.old_fp = ReplaceOldFingerprint(call.id[1], call.id[2]).fp
  /\ pc \in {"Chain", "Key"} => fs[call.cert] # NoFile /\ got.certificate = fs[call.cert]
  /\ pc = "Key" =>
       fs[call.chain] # NoFile /\ got.certificate_chain = SplitChain(fs[call.chain])

\* The old-certificate options of a call in progress: an add names none, and
\* a replace that names the old certificate by fingerprint string alone has
\* decoded it before its first read and keeps the bytes.  It involves no
\* file, so it holds whatever is rewritten during the call.
CallIdInv ==
  pc # "Idle" =>
    \/ call.kind = "Add" /\ call.id = << None, None >>
    \/ /\ call.kind = "Replace"
       /\ call.id \in Opt(Paths) \X Opt(HexInputs)
       /\ call.id[1] = None /\ call.id[2] # None =>
            /\ DecodeFingerprint(call.id[2]).ok
            /\ call.old_fp = DecodeFingerprint(call.id[2]).fp

\* What a call in progress has seen of the disk.  When files change only
\* between calls it has seen one disk state, the current one.
QuietViews == pc # "Idle" => views = << View(call, fs) >>

\* The disk states a call in progress has lived through, the current one
\* last, with the three files it names.  Whatever is rewritten meanwhile,
\* the newest entry of views is what those files hold now.
FileStates == Contents \cup {NoFile}
LastView ==
  /\ views \in Seq(FileStates \X FileStates \X FileStates)
  /\ pc = "Idle" => views = << >>
  /\ pc # "Idle" => Len(views) >= 1 /\ views[Len(views)] = View(call, fs)

\* Liveness of load_full_certificate: a call that has started returns (with
\* a request or an error), whatever the renewal tool does meanwhile.
CallReturns == pc # "Idle" ~> pc = "Idle"

\* A certificate request sent by add_certificate or replace_certificate
\* (the key read that completes the bundle) carries a bundle that was on
\* disk as a whole at some moment of the call: the certificate, chain and
\* key it sends were in their files together.
BundleWasOnDisk ==
  [][pc = "Key" /\ pc' = "Idle" /\ HandedOver' =>
       LET b == IF out'.req.type = "AddCertificate" THEN out'.req.certificate
                ELSE out'.req.new_certificate
       IN \E i \in 1 .. Len(views) :
            << b.certificate, b.certificate_chain, b.key >>
              = << views[i][1], SplitChain(views[i][2]), views[i][3] >>]_allvars

=============================================================================
