----------------------- MODULE MCCalendarIntegrations -----------------------
(* Small instances of CalendarIntegrations. *)
EXTENDS CalendarIntegrations

CONSTANTS w1, w2

=============================================================================
