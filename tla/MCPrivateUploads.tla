-------------------------- MODULE MCPrivateUploads --------------------------
(* Small instances of PrivateUploads: one batch of two files, one of one.    *)
EXTENDS PrivateUploads

CONSTANTS f1, f2, f3, h1, h2

MCHandlerOf == [f \in Files |-> IF f = f3 THEN h2 ELSE h1]
=============================================================================
