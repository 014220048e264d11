------------------------------- MODULE MCIPv4 -------------------------------
(* Two hosts and a router between their links.  Host h1 finds h2 by proxy    *)
(* ARP, h2 reaches h1 through its gateway; the second link carries half as   *)
(* much in a datagram as the first.                                          *)
EXTENDS IPv4Safety, TLC

CONSTANTS h1, r, h2, a1, r1, r2, b2, none

MCNodeOf == a1 :> h1 @@ r1 :> r @@ r2 :> r @@ b2 :> h2
MCLinkOf == a1 :> 1 @@ r1 :> 1 @@ r2 :> 2 @@ b2 :> 2
Left == {a1, r1}
MCOutIe == h1 :> [d \in Interface |-> a1]
        @@ r :> [d \in Interface |-> IF d \in Left THEN r1 ELSE r2]
        @@ h2 :> [d \in Interface |-> b2]
MCGateway == [n \in Node |-> [d \in Interface |->
                IF n = h2 /\ d \in Left THEN r2 ELSE none]]
MCMtu == a1 :> 2 @@ r1 :> 2 @@ r2 :> 1 @@ b2 :> 1
MCFlow == {<<a1, b2, 2>>, <<b2, a1, 1>>}

(* What the theorem about BindingReachable assumes.                          *)
ASSUME RoutesAreConsistent == ConsistentRoutes

(* What the theorem about ReassemblyExact assumes: h1's datagram goes whole  *)
(* to the router and in halves to h2, that of h2 is short enough to stay as  *)
(* it is.                                                                    *)
MCPiece(off, len, more) == [off |-> off, len |-> len, more |-> more]
MCCut == <<a1, b2, 2>> :> (h1 :> {} @@ r :> {MCPiece(0, 2, FALSE)}
                           @@ h2 :> {MCPiece(0, 1, TRUE), MCPiece(1, 1, FALSE)})
      @@ <<b2, a1, 1>> :> (h2 :> {} @@ r :> {MCPiece(0, 1, FALSE)}
                           @@ h1 :> {MCPiece(0, 1, FALSE)})
ASSUME FragmentsCutAlike == CutAlike(MCCut)
=============================================================================
