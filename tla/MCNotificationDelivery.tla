----------------------- MODULE MCNotificationDelivery ------------------------
(* Small instances of NotificationDelivery.                                *)
EXTENDS NotificationDelivery, TLC

CONSTANTS n1, n2

Symmetry == Permutations(Notification)
=============================================================================
