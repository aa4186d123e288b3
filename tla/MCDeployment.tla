---------------------------- MODULE MCDeployment ----------------------------
(* Instances of Deployment for TLC: two addresses of a network and the     *)
(* loopback address, names a user may choose.                              *)
EXTENDS Deployment

MCNames == {"chat", "db"}

=============================================================================
