------------------------- MODULE MCOutboundWebhooks -------------------------
(***************************************************************************)
(* Small instances of OutboundWebhooks.                                    *)
(***************************************************************************)
EXTENDS OutboundWebhooks

CONSTANTS h1, h2, e1

(* h1 answers, if not always well; h2 cannot be reached or hangs. *)
Mixed == [h \in Hook |-> IF h = h1 THEN { "ok", "bad" } ELSE { "refused", "hang" }]

=============================================================================
