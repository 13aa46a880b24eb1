------------------------- MODULE MCEchoServers -------------------------
(* Of two clients one can fill its connection and one cannot.  Of three,   *)
(* one can have its slave, one leave and one come as the other's slave     *)
(* ends.                                                                   *)
EXTENDS EchoServers, TLC
CONSTANTS c1, c2, c3, c4
MCClients == {c1, c2, c3, c4}
MCMaxSent == (c1 :> 3) @@ (c2 :> 1) @@ (c3 :> 0) @@ (c4 :> 0)
MCParties == {{c1, c2}, {c2, c3, c4}}
=============================================================================
