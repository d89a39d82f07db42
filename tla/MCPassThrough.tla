--------------------------- MODULE MCPassThrough ---------------------------
(* The browser sends one byte and the site two: one more than the window. *)
EXTENDS PassThrough

MCMaxBytes == [e \in Ends |-> IF e = "client" THEN 1 ELSE 2]
=============================================================================
