----------------------------- MODULE MCIstio ------------------------------
EXTENDS IstioInvariant, TLC
CONSTANTS n1, n2
MCNamespaces == {n1, n2}
MCSymmetry   == Permutations(MCNamespaces)
=============================================================================
