---- MODULE MCTcpServices ----
(* Three clients, each one of two or more programs; two share a port. *)
EXTENDS TcpServices, TLC

MCKinds == (1 :> {"TCPdaytime_nonblk", "TCPchargen2", "TCP_xdr_client"})
        @@ (2 :> {"exc_10_6", "UDPdaytime", "TCPtime", "TCPecho", "TCP_xdr_client"})
        @@ (3 :> {"TCPdaytime", "TCPchargen", "TCP_xdr_client"})
MCPort  == <<1, 2, 1>>
====
