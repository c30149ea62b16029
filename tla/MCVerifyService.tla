-------------------------- MODULE MCVerifyService ---------------------------
(* A small instance of VerifyService for TLC.                              *)
EXTENDS VerifyServiceProofs
CONSTANTS a, b
MCCalls == {a, b}
=============================================================================
