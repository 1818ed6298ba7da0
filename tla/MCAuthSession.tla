---------------------------- MODULE MCAuthSession ----------------------------
(* Instances of AuthSession for TLC: one sign-in, one login as a member, and  *)
(* as many rotations of each session's tokens as the configuration says.     *)
EXTENDS AuthSession
=============================================================================
