---------------------------- MODULE MCCertStore ----------------------------
(* An instance of CertStore for TLC.  Four keys are one more than the files *)
(* and the servers can hold at a time; the second CA is for a gateway that  *)
(* makes one although it has one.                                           *)
EXTENDS CertStore

CONSTANT w1

OneWriter == {w1}
=============================================================================
