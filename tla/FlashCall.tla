------------------------------- MODULE FlashCall -------------------------------
(***************************************************************************)
(* What a call of execute_plan promises about the disks, one call after the *)
(* other: it refuses and leaves the disk alone, or it opens one disk that   *)
(* was not in use, writes to that disk and to no other, and reports success *)
(* only for a disk that holds the image.                                    *)
(***************************************************************************)
CONSTANTS Disks, NoDisk

VARIABLES
  phase,     \* what the call does, or how the last one ended
  target,    \* the disk it has opened
  checked,   \* the source has committed to a digest
  content    \* content[d]: what disk d holds

vars == <<phase, target, checked, content>>

Init ==
  /\ phase = "idle"
  /\ target = NoDisk
  /\ checked \in BOOLEAN
  /\ content = [d \in Disks |-> "old"]

Begin ==
  /\ phase # "open"
  /\ phase' = "open"
  /\ target' = NoDisk
  /\ checked' \in BOOLEAN
  /\ UNCHANGED content

\* The target is looked at again.
Open(d) ==
  /\ phase = "open" /\ target = NoDisk
  /\ target' = d
  /\ UNCHANGED <<phase, checked, content>>

Write(what) ==
  /\ phase = "open" /\ target # NoDisk
  /\ content' = [content EXCEPT ![target] = what]
  /\ UNCHANGED <<phase, target, checked>>

Succeed ==
  /\ phase = "open" /\ target # NoDisk
  /\ content[target] = "image" \/ ~checked
  /\ phase' = "ok"
  /\ UNCHANGED <<target, checked, content>>

GiveUp ==
  /\ phase = "open"
  /\ phase' \in {"failed", "cancelled"}
  /\ UNCHANGED <<target, checked, content>>

Next ==
  \/ Begin
  \/ \E d \in Disks : Open(d)
  \/ \E what \in {"partial", "image"} : Write(what)
  \/ Succeed
  \/ GiveUp

Spec == Init /\ [][Next]_vars
=============================================================================
