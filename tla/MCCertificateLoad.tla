-------------------------- MODULE MCCertificateLoad --------------------------
(***************************************************************************)
(* CertificateLoad on a certificate, its key and a chain file holding one *)
(* certificate, over two paths, with the one fingerprint string that names *)
(* the certificate.                                                        *)
(***************************************************************************)
EXTENDS CertificateLoad, MCRequestBuilder

CONSTANT chain1

MCLoadContents == {cert1, key1, chain1}

MCLoadSplitChain(c) == IF c = chain1 THEN <<cert1>> ELSE <<c>>

MCLoadHexInputs == { <<"0", "a">> }

\* The torn-bundle run: calls that name three different files for the
\* certificate, the chain and the key, as a renewal tool writes them.
SeparateFiles ==
  call.kind = "None" \/ Cardinality({call.cert, call.chain, call.key}) = 3

=============================================================================
