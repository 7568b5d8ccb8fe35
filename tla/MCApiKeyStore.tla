---------------------------- MODULE MCApiKeyStore ----------------------------
\* Three keys, of which two share a prefix, and a name longer than the first.
EXTENDS ApiKeyStore, TLC

CONSTANTS k1, k2, k3, p1, p12, p3, p1x, t1, t2

MCKey == {k1, k2, k3}
MCPrefix == {p1, p12, p3, p1x}
MCStartsWith == (k1 :> {p1, p12}) @@ (k2 :> {p12}) @@ (k3 :> {p3})
MCLonger == (k1 :> {p1x}) @@ (k2 :> {}) @@ (k3 :> {})
MCInitKeys == {{}, {k1}, {k1, k2}}
MCSymmetry == Permutations({t1, t2})
===============================================================================
