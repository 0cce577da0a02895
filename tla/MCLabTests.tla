---------------------------- MODULE MCLabTests ----------------------------
EXTENDS LabTests
=============================================================================
