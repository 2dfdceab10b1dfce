---------------------------- MODULE MCApprovalStore ----------------------------
EXTENDS ApprovalStore, TLC

CONSTANTS a, b
=============================================================================
