---------------------------- MODULE MCUdpServices ----------------------------
(* A client of each service; the ECHO client sends a short and a longer line. *)
EXTENDS UdpServices, TLC
CONSTANTS ce, cd, ct
MCClients == {ce, cd, ct}
MCWanted == (ce :> Echo) @@ (cd :> Daytime) @@ (ct :> Time)
MCClientKinds == (ce :> (EchoKinds \cup {"UDPtime"})) @@ (cd :> {"UDPtime", "UDP_xdr_client"}) @@ (ct :> {"timed"})
MCLines   == (ce :> <<1, 2>>) @@ (cd :> <<1>>) @@ (ct :> <<1>>)
=============================================================================
