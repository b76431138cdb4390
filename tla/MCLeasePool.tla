---------------------------- MODULE MCLeasePool -----------------------------
EXTENDS LeasePool
=============================================================================
