------------------------------- MODULE MCTCP -------------------------------
(* Constants of the TCP runs: the initial sequence numbers, and how many     *)
(* units <<the client, the server>> may send.                                *)
EXTENDS TCPTransfer

Units(c, s) == [e \in Endpoint |-> IF e = Client THEN c ELSE s]

MCIss == Units(1, 4)
Send_1_0 == Units(1, 0)
Send_1_1 == Units(1, 1)
Send_2_0 == Units(2, 0)
=============================================================================
