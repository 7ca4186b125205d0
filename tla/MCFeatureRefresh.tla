--------------------------- MODULE MCFeatureRefresh ---------------------------
EXTENDS FeatureRefresh, TLC

CONSTANTS exposure, close, j1, j2, j3

MCCatalog == <<exposure, close>>
MCSymmetry == Permutations({j1, j2, j3})
=============================================================================
