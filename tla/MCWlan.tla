------------------------------- MODULE MCWlan -------------------------------
(***************************************************************************)
(* Two stations a and b that do not hear each other, and an access point p *)
(* that hears both.                                                        *)
(***************************************************************************)
EXTENDS WlanInvariant, TLC

CONSTANTS a, b, p, all

HiddenHears == (a :> {p}) @@ (b :> {p}) @@ (p :> {a, b})
BothWays == (a :> <<p>>) @@ (b :> <<p>>) @@ (p :> <<a>>)
Uplink == (a :> <<p, all>>) @@ (b :> <<p>>) @@ (p :> <<>>)

(* What the theorems about the delivery of frames assume holds in the runs. *)
ASSUME DeliveryAssumption == Spaced /\ Numbered
=============================================================================
