---------------------------- MODULE MCInstanceLock ----------------------------
EXTENDS InstanceLock, TLC

CONSTANTS i1, i2, i3

MCInstance == {i1, i2, i3}
MCSymmetry == Permutations(MCInstance)
===============================================================================
