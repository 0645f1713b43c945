------------------------ MODULE MCNotificationStream ------------------------
(* The instance of NotificationStream that TLC checks: the creators are not
   declared symmetric, because the run has a liveness property. *)
EXTENDS NotificationStream
=============================================================================
