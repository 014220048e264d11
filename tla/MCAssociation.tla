---------------------------- MODULE MCAssociation ----------------------------
(* One station that roams between two access points on two channels.       *)
EXTENDS AssociationSafety, TLC

CONSTANTS sta1, ap1, ap2

TwoChannels == <<1, 2>>
Apart == (ap1 :> 1) @@ (ap2 :> 2)

(* What the theorems about Association assume.                             *)
ASSUME ChannelsAreApart == OneAPPerChannel
=============================================================================
