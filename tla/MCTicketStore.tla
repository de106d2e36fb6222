--------------------------- MODULE MCTicketStore ----------------------------
(* TicketStore on a small instance.  Payloads are interchangeable, so one  *)
(* stands for all.                                                         *)
EXTENDS TicketStore

CONSTANTS read, srvA, input
=============================================================================
