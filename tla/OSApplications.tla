--------------------------- MODULE OSApplications ---------------------------
(***************************************************************************)
(* Two applications on the kernel: one whose threads wait, notify, lock,   *)
(* yield and make whatever other calls Ops has, and one whose threads are  *)
(* suspended, constructed and change their priorities, with notifications  *)
(* in turn.  A behaviour is of one of them.                                *)
(***************************************************************************)
EXTENDS OSScheduler

CONSTANTS ControlOps, ControlInitial   \* Ops and Initial of the second one

VARIABLE application   \* chosen at the beginning

applicationVars == <<vars, application>>

Control == INSTANCE OSScheduler
  WITH Ops <- ControlOps, Initial <- ControlInitial, RoundRobinNotify <- TRUE

ApplicationsInit == Init /\ application \in {"events", "control"}

ApplicationsNext ==
  /\ \/ application = "events" /\ Next
     \/ application = "control" /\ Control!Next
  /\ UNCHANGED application

ApplicationsSpec == ApplicationsInit /\ [][ApplicationsNext]_applicationVars

(***************************************************************************)
(* What suspend(), resume() and setPriority() may break is said of the     *)
(* first application only.                                                 *)
(***************************************************************************)

\* A wait returns only because of a notification.
EventsNoSpuriousWake == application = "events" => NoSpuriousWake

\* A switch picks a thread no ready thread is better than.
EventsBestRuns == [][application = "events" => EntersBest]_applicationVars

\* A ready thread is overtaken only when it gives up the processor to one of
\* at least its priority.
EventsNoOvertaking == [][application = "events" => KeepsOrder]_applicationVars
=============================================================================
