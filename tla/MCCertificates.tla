---------------------------- MODULE MCCertificates ----------------------------
(* Certificates for TLC.                                                     *)
EXTENDS Certificates

MCUnparsable == {2}
MCRsa == {3}
=============================================================================
