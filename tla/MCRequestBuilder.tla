-------------------------- MODULE MCRequestBuilder --------------------------
(***************************************************************************)
(* A small instance of RequestBuilder for TLC: two paths, two            *)
(* certificates, a key and a two-certificate chain file, one address that *)
(* parses and one that does not, and fingerprint strings that cover the    *)
(* empty string, odd length, a non-hex digit, both letter cases and a      *)
(* string of twice the fingerprint width.                                  *)
(***************************************************************************)
EXTENDS RequestBuilder, TLC

CONSTANTS cert1, cert2, key1, chain12

MCContents == {cert1, cert2, key1, chain12}

\* The hex_decode run needs a single certificate.
MCHexContents == {cert1}

\* Fingerprints are one byte wide here (FPWidth = 1) instead of 32.
MCHash(c) ==
  CASE c = cert1 -> <<10>>        \* "0a"
    [] c = cert2 -> <<175>>       \* "aF"
    [] c = key1  -> <<240>>
    [] OTHER     -> <<0>>

MCSplitChain(c) ==
  CASE c = chain12 -> <<cert1, cert2>>
    [] c = key1    -> << >>
    [] OTHER       -> <<c>>

MCLevelFilter(l) == IF l = "Info" THEN "info" ELSE "debug"

MCHexInputs ==
  { << >>, <<"0">>, <<"g", "0">>, <<"0", "a">>, <<"a", "F">>,
    <<"0", "a", "0", "a">> }

\* The fingerprint strings of the dispatch run: one per outcome of
\* decoding (empty, odd length, a non-hex digit, a mixed-case fingerprint
\* of cert2).  The dispatch run draws a certificate command from every
\* address, three paths and two options, so each string here multiplies
\* its branching.
MCDispatchHexInputs == { << >>, <<"0">>, <<"g", "0">>, <<"a", "F">> }

\* Init starts from every disk and no action or invariant of the dispatch
\* run tells one path from another, so its states are explored up to a
\* permutation of the paths.
PathSymmetry == Permutations(Paths)

\* Every string of length at most 4 over a small alphabet: the fingerprint
\* inputs of the hex_decode run.
HexAlphabet == {"0", "a", "F", "g"}
AllHexStrings == UNION {[1 .. n -> HexAlphabet] : n \in 0 .. 4}

=============================================================================
