-------------------------- MODULE MCCsRunAdmission --------------------------
(* Instance of CsRunAdmission for TLC.  Its run checks a temporal property,  *)
(* so the symmetry of the requests is not used.                              *)
EXTENDS CsRunAdmission
=============================================================================
