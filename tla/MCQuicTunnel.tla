---------------------------- MODULE MCQuicTunnel ----------------------------
(* Requests as model values. *)
EXTENDS QuicTunnel
CONSTANTS r1, r2
=============================================================================
