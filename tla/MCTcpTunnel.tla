---------------------------- MODULE MCTcpTunnel ----------------------------
(* Requests and one-way frames as model values. *)
EXTENDS TcpTunnel
CONSTANTS r1, r2, n1
=============================================================================
