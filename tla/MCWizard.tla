------------------------------- MODULE MCWizard -------------------------------
(* The wizard on two disks, one of them too small for the image. *)
EXTENDS Wizard, TLC

CONSTANTS d1, d2, nodisk

\* The large disk beside one that is in use; the small disk alone.
MCSetups == {[at |-> [sda |-> d1, sdb |-> d2], mounted |-> {d2}],
             [at |-> [sda |-> d2, sdb |-> nodisk], mounted |-> {}]}

MCCapacity == (d1 :> 2) @@ (d2 :> 1)

Img(url, fmt, digest) == [url |-> url, fmt |-> fmt, digest |-> digest]
MCLocal == {Img(FALSE, "packed", FALSE)}
MCAssigned == {Img(TRUE, "img", FALSE)}
MCImages == MCAssigned \cup MCLocal \cup
  {Img(TRUE, "packed", FALSE), Img(TRUE, "img", TRUE), Img(TRUE, "qcow2", TRUE)}
=============================================================================
