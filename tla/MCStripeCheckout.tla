------------------------- MODULE MCStripeCheckout -------------------------
(***************************************************************************)
(* One customer who buys twice at the same time.                           *)
(***************************************************************************)
EXTENDS StripeCheckout

CONSTANTS u, o1, o2, d1, d2

MCOrderUser == [o \in {o1, o2} |-> u]

=============================================================================
