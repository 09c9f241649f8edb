------------------------------ MODULE MCSha256 ------------------------------
EXTENDS Sha256

\* The three letters "abc", the first example of FIPS 180-4, whose digest is
\* published there.
Abc == <<97, 98, 99>>

AbcDigest ==
  <<<<\hba78, \h16bf>>, <<\h8f01, \hcfea>>, <<\h4141, \h40de>>, <<\h5dae, \h2223>>,
    <<\hb003, \h61a3>>, <<\h9617, \h7a9c>>, <<\hb410, \hff61>>, <<\hf200, \h15ad>>>>

Examples == {Abc}

\* sha256.hpp calls itself an implementation of the SHA256 hashing algorithm,
\* a reliable way to verify the integrity of downloaded files: even when the
\* bytes behind the literal happen to be zeros, the digest of "abc" is the one
\* that is published.
DigestIsSha256 ==
  round = 64 /\ file = Abc /\ stray = 0 => state = [i \in 1..8 |-> Word(AbcDigest[i])]
=============================================================================
