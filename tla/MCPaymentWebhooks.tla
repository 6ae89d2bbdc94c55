-------------------------- MODULE MCPaymentWebhooks --------------------------
(***************************************************************************)
(* Small instances of PaymentWebhooks.                                     *)
(***************************************************************************)
EXTENDS PaymentWebhooks

CONSTANT b1

=============================================================================
