------------------------------ MODULE MCDiskQ ------------------------------
EXTENDS DiskQ, TLC
=============================================================================
