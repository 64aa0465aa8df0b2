----------------------------- MODULE MCLauncher -----------------------------
(* Three controllers: a ticket, its retry, and another ticket of run_ticket. *)
EXTENDS TicketLauncher

MCControllers == {"first", "retry", "other"}
MCRepoControllers == {"first", "retry"}
MCTickets == {"t1", "t2"}
MCTicketOf == [c \in MCControllers |-> IF c = "other" THEN "t2" ELSE "t1"]
=============================================================================
