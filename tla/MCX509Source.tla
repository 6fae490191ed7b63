---------------------------- MODULE MCX509Source ----------------------------
(* Two lifetimes, one root change, evidence that lasts or runs out.        *)
EXTENDS X509Source
=============================================================================
