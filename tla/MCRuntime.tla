------------------------------ MODULE MCRuntime ------------------------------
(* Values for the constants of Runtime that a .cfg cannot write.            *)
EXTENDS RuntimeInvariant

Strings == {EXTERNAL}
=============================================================================
