--------------------------- MODULE MCImageChannel ---------------------------
(* Connections open one after the other or overlap; a message is one unit  *)
(* of header and two of payload, written in two fragments.                 *)
EXTENDS ImageChannel
CONSTANTS c1, c2
MCOneClient == {c1}
MCTwoClients == {c1, c2}
=============================================================================
