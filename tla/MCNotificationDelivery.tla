---------------------- MODULE MCNotificationDelivery ----------------------
(* Instances of NotificationDelivery: two events, two channels. *)
EXTENDS NotificationDelivery

CONSTANTS e1, e2, c1, c2, o1, o2
=============================================================================
