------------------------------ MODULE MCNetboot ------------------------------
(***************************************************************************)
(* Instances of Netboot for TLC.                                            *)
(***************************************************************************)
EXTENDS Netboot, TLC

CONSTANTS i1, i2, d1, d2

\* The threads that serve GET /pxe/{mac} are interchangeable.
Threads == Permutations(Handlers)

Save(mode, ref, serial) ==
  [boot_mode |-> mode, bty_image_ref |-> ref, target_disk_serial |-> serial]

\* One save per boot mode; the two flash policies share neither image nor
\* disk, and d2 is not in the box.
AllModes ==
  {Save("bty-flash-once", i1, d1), Save("bty-flash-always", i2, d2),
   Save("bty-flash-once", None, d1), Save("bty-flash-always", i1, None),
   Save("bty-inventory", None, None), Save("bty-tui", None, None),
   Save("ipxe-exit", None, None), Save("ramboot", i1, None)}

\* Flashing one of two images on one disk.
Once == {Save("bty-flash-once", i1, d1), Save("bty-flash-once", i2, d1)}
OnceAndExit == Once \cup {Save("ipxe-exit", i1, d1)}
Always == {Save("bty-flash-always", i1, d1)}
OnceAlwaysExit == OnceAndExit \cup Always

Anything == {"power", "retry", "lose", "late", "timeout", "rebind", "hand",
             "flash", "plan", "artifact", "restart"}
=============================================================================
