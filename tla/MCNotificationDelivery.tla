----------------------- MODULE MCNotificationDelivery -----------------------
(***************************************************************************)
(* Small instances of NotificationDelivery: one thing changes that the     *)
(* delivery depends on, which is the occurrence, the preferences or a      *)
(* device that is registered and may be disabled.                          *)
(***************************************************************************)
EXTENDS NotificationDelivery, FiniteSets

Changes ==
    (occurrence.revision - 1) + (preference.version - 1)
        + Cardinality({d \in Devices : device[d] # "absent"})

OneChange ==
    /\ Init /\ [][Next /\ Changes' <= 1]_vars
    /\ Fairness
=============================================================================
