---------------------------- MODULE MCDeployment ----------------------------
(* The host of two paths: 1 is declared in server.xml, 2 only ever on disk. *)
EXTENDS Deployment
=============================================================================
