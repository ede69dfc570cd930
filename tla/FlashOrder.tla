------------------------------ MODULE FlashOrder ------------------------------
(***************************************************************************)
(* What a bty-flash-once binding promises the operator who saved it ("the   *)
(* reimage this box now, then leave it alone"), with no rows, bits,         *)
(* handlers or POSTs: the save is an order, the order is worked off on its  *)
(* disk and with its image, it is closed only when the image is there, a    *)
(* closed one is never worked off again, and the box boots its disk only    *)
(* with the order closed, or while its image cannot be resolved.            *)
(***************************************************************************)
CONSTANTS Images, Serials, Disks, None

VARIABLES
  order,   \* what the operator has ordered, and whether it is done
  known,   \* the images that can be resolved
  booted,  \* the box runs from its disk
  disk     \* disk[s]: what the disk with serial s holds

vars == <<order, known, booted, disk>>

NoOrder == [image |-> None, serial |-> None, done |-> FALSE]
NewOrders == [image : Images, serial : Serials, done : {FALSE}]

Carried == order.serial \in Disks /\ disk[order.serial] = order.image

Init ==
  /\ order = NoOrder
  /\ known = Images
  /\ booted = FALSE
  /\ disk = [s \in Disks |-> "blank"]

Place ==
  /\ order' \in NewOrders \cup {NoOrder}
  /\ UNCHANGED <<known, booted, disk>>

\* A box without an order may be flashed with anything.
Write(s, what) ==
  /\ ~booted
  /\ order # NoOrder =>
       ~order.done /\ s = order.serial /\ what \in {"partial", order.image}
  /\ disk' = [disk EXCEPT ![s] = what]
  /\ UNCHANGED <<order, known, booted>>

Close ==
  /\ order # NoOrder /\ Carried
  /\ order' = [image |-> order.image, serial |-> order.serial, done |-> TRUE]
  /\ UNCHANGED <<known, booted, disk>>

Boot ==
  /\ order # NoOrder /\ order.image \in known => order.done /\ Carried
  /\ booted' = TRUE
  /\ UNCHANGED <<order, known, disk>>

Leave ==
  /\ booted' = FALSE
  /\ UNCHANGED <<order, known, disk>>

Resolve ==
  /\ known' \in SUBSET Images
  /\ UNCHANGED <<order, booted, disk>>

Next ==
  \/ Place \/ Close \/ Boot \/ Leave \/ Resolve
  \/ \E s \in Disks, what \in Images \cup {"partial"} : Write(s, what)

Spec == Init /\ [][Next]_vars
=============================================================================
