----------------------- MODULE MCNotificationElection -----------------------
(* Instances of NotificationElection for TLC. *)
EXTENDS NotificationElection
=============================================================================
