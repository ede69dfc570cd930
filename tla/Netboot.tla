------------------------------- MODULE Netboot -------------------------------
(***************************************************************************)
(* The netboot control loop of bty-web for one MAC address: the machine     *)
(* row in state.db, the handlers of /pxe/{mac}, /pxe/{mac}/plan, /status,   *)
(* /inventory, /boot/{name}?mac= and the operator's edits of the row, with  *)
(* the box that PXE-boots, runs the bty live env and writes a disk.         *)
(*                                                                          *)
(* One action is one SQLite transaction of a handler, or one step of the    *)
(* box.  GET /pxe/{mac} has two transactions (PxeTouch, then PxeOffer), so  *)
(* everything else can happen between them; every other handler has one.    *)
(* A POST of the live env is a message that may be delivered after the box  *)
(* has moved on.  Rows of different MACs never meet, so one MAC is enough.  *)
(*                                                                          *)
(* Environment names what the surroundings of the server may do in a run:   *)
(*   "power"    the box loses power at any point                            *)
(*   "retry"    iPXE repeats GET /pxe/{mac} before the first is answered    *)
(*   "lose"     a POST never reaches the server                             *)
(*   "late"     a POST may be delivered after the box has rebooted          *)
(*   "timeout"  the answer of a POST done does not arrive in time           *)
(*   "rebind"   the operator edits the row at any time, not only while the  *)
(*              box rests                                                   *)
(*   "hand"     an operator at the wizard flashes a disk by hand            *)
(*   "flash"    the write or its verification fails                         *)
(*   "plan"     GET /pxe/{mac}/plan is not answered                         *)
(*   "artifact" a /boot artifact cannot be served                           *)
(*   "restart"  bty-web is killed and started again                         *)
(***************************************************************************)
EXTENDS Naturals, FiniteSets

CONSTANTS
  Images,       \* bty_image_ref values of catalog entries
  Serials,      \* disk serials an operator can name
  Disks,        \* the serials of the disks the box really has
  None,         \* SQL NULL, and "no handler"
  Handlers,     \* threads that serve GET /pxe/{mac}
  Policies,     \* the <boot_mode, ref, serial> triples the operator saves
  Environment,  \* see above
  MaxFaults,    \* bound on the faults of a behaviour
  MaxEdits,     \* bound on the edits of a behaviour
  MaxPosts      \* bound on equal POSTs in flight

FlashModes == {"bty-flash-always", "bty-flash-once"}
CycleModes == FlashModes \cup {"bty-inventory"}
BootModes == CycleModes \cup {"ipxe-exit", "bty-tui", "ramboot"}
Signals == {"done", "failed", "inventory"}
Evidence == {"arm", "done", "inventory", "import"}

Policy == [boot_mode : BootModes,
           bty_image_ref : Images \cup {None},
           target_disk_serial : Serials \cup {None}]

ASSUME NetbootAssumption ==
  /\ None \notin Images \cup Serials \cup Handlers
  /\ "blank" \notin Images /\ "partial" \notin Images
  /\ Disks \subseteq Serials
  /\ Policies \subseteq Policy
  /\ MaxFaults \in Nat /\ MaxEdits \in Nat
  /\ MaxPosts \in Nat \ {0}

VARIABLES
  row,      \* the machines row; NoRow when there is none
  req,      \* req[h]: what handler h of GET /pxe/{mac} is doing
  net,      \* net[k]: POSTs of kind k in flight
  box,      \* the box: where it is, the handler it waits for, its job
  disk,     \* disk[s]: "blank", "partial" (half-written) or an image
  catalog,  \* refs the in-memory withcache catalog resolves
  exports,  \* refs nbdmux has a ready export for
  faults, edits

server == <<row, req, catalog, exports>>
vars == <<row, req, net, box, disk, catalog, exports, faults, edits>>

(***************************************************************************)
(* Types.                                                                   *)
(***************************************************************************)
\* A row; `since` is history, not a column: the evidence recorded since the
\* row was created or its policy last changed.
Row == [exists : BOOLEAN,
        boot_mode : BootModes,
        bty_image_ref : Images \cup {None},
        target_disk_serial : Serials \cup {None},
        saw_flasher_boot : BOOLEAN,
        last_flashed_at : BOOLEAN,     \* NOT NULL
        known_disks_at : BOOLEAN,      \* NOT NULL
        since : SUBSET Evidence]

\* The row GET /pxe/{mac} and GET /pxe/{mac}/plan insert for an unknown MAC.
Discovered == [exists |-> TRUE, boot_mode |-> "bty-inventory",
               bty_image_ref |-> None, target_disk_serial |-> None,
               saw_flasher_boot |-> FALSE, last_flashed_at |-> FALSE,
               known_disks_at |-> FALSE, since |-> {}]
NoRow == [Discovered EXCEPT !.exists = FALSE]

BoxPlaces == {"off", "wait", "kernel", "initrd", "ramkernel", "boot", "live",
              "planned", "flashing", "posted", "reposted", "ack", "report",
              "wizard", "idle", "os"}
Job == [image : Images, serial : Serials]
NoJob == [image |-> None, serial |-> None]
Box == [pc : BoxPlaces, conn : Handlers \cup {None}, job : Job \cup {NoJob},
        auto : BOOLEAN]
Request == [pc : {"idle", "new", "touched"}, row : Row]
IdleRequest == [pc |-> "idle", row |-> NoRow]

TypeOK ==
  /\ row \in Row
  /\ req \in [Handlers -> Request]
  /\ net \in [Signals -> 0..MaxPosts]
  /\ box \in Box
  /\ disk \in [Disks -> Images \cup {"blank", "partial"}]
  /\ catalog \subseteq Images
  /\ exports \subseteq Images
  /\ faults \in 0..MaxFaults
  /\ edits \in 0..MaxEdits

(***************************************************************************)
(* The decision of GET /pxe/{mac} on a row r it has read.                   *)
(***************************************************************************)
\* Mutant: the gate on a picked target disk is missing.
FlashableWithoutDisk(r) ==
  r.boot_mode \in FlashModes /\ r.bty_image_ref \in catalog

\* A flash policy whose image resolves and whose target disk is picked.
Flashable(r) ==
  /\ r.boot_mode \in FlashModes
  /\ r.bty_image_ref \in catalog
  /\ r.target_disk_serial # None

\* nbdmux has a ready export for the src of the catalog entry.  (An export of
\* an nbdmux old enough to name it by the ref is left out.)
Exported(ref) == ref \in catalog \cap exports

\* Mutant: the bit alone lets the box boot its disk.
ArmedIsEnough(r) == r.saw_flasher_boot

\* The live env of the last cycle armed the bit and reported completion.
FlashedSinceArmed(r) == r.saw_flasher_boot /\ r.last_flashed_at
ListedSinceArmed(r) == r.saw_flasher_boot /\ r.known_disks_at

OfferFor(r) ==
  CASE r.boot_mode = "bty-tui" -> "bty-tui"
    [] r.boot_mode = "bty-inventory" ->
         IF ListedSinceArmed(r) THEN "exit-after-inventory" ELSE "bty-inventory"
    [] r.boot_mode = "ipxe-exit" -> "ipxe-exit"
    [] r.boot_mode = "ramboot" ->
         IF Exported(r.bty_image_ref) THEN "ramboot" ELSE "bty-tui"
    [] Flashable(r) ->
         IF FlashedSinceArmed(r) THEN "exit-after-flash" ELSE "flash"
    [] r.boot_mode \in FlashModes /\ ~Flashable(r) /\ r.bty_image_ref # None ->
         "exit-fallback"
    [] r.boot_mode \in FlashModes /\ r.bty_image_ref = None -> "unknown"

\* Mutant: the bit is cleared after every flash.
ClearsEveryBit(r) == OfferFor(r) \in {"exit-after-inventory", "exit-after-flash"}

\* clear_saw_flasher_boot: bty-flash-once keeps the bit, its terminal state.
ClearsBit(r) ==
  \/ OfferFor(r) = "exit-after-inventory"
  \/ OfferFor(r) = "exit-after-flash" /\ r.boot_mode = "bty-flash-always"

\* What iPXE does with the script it was offered.
PlaceAfter(offer) ==
  CASE offer \in {"bty-tui", "bty-inventory", "flash"} -> "kernel"
    [] offer = "ramboot" -> "ramkernel"
    [] OTHER -> "os"

(***************************************************************************)
(* Helpers of the transactions.                                             *)
(***************************************************************************)
\* INSERT ... ON CONFLICT DO NOTHING, then the last_seen UPDATE.
Touched == IF row.exists THEN row ELSE Discovered

\* Mutant: the UPDATE has no condition on boot_mode.
ArmedAnyMode ==
  IF row.exists
  THEN [row EXCEPT !.saw_flasher_boot = TRUE, !.since = @ \cup {"arm"}]
  ELSE row

\* _arm_flasher_boot: the 0 -> 1 transition is confined to CycleModes.
Armed ==
  IF row.exists /\ row.boot_mode \in CycleModes
  THEN [row EXCEPT !.saw_flasher_boot = TRUE, !.since = @ \cup {"arm"}]
  ELSE row

SamePolicy(r, p) ==
  /\ r.boot_mode = p.boot_mode
  /\ r.bty_image_ref = p.bty_image_ref
  /\ r.target_disk_serial = p.target_disk_serial

\* Mutant: a change of the policy clears the bit but not the completion.
UpsertedKeepsFlashed(p) ==
  IF row.exists /\ SamePolicy(row, p) THEN row
  ELSE [Discovered EXCEPT !.boot_mode = p.boot_mode,
                          !.bty_image_ref = p.bty_image_ref,
                          !.target_disk_serial = p.target_disk_serial,
                          !.last_flashed_at = row.last_flashed_at]

\* Mutant: the disk of an existing row is not updated.
UpsertedKeepsDisk(p) ==
  IF row.exists /\ SamePolicy(row, p) THEN row
  ELSE [Discovered EXCEPT !.boot_mode = p.boot_mode,
                          !.bty_image_ref = p.bty_image_ref,
                          !.target_disk_serial =
                             IF row.exists THEN row.target_disk_serial
                             ELSE p.target_disk_serial]

\* INSERT ... ON CONFLICT(mac) DO UPDATE with its three CASE resets: any
\* change of the policy clears the bit and both completion signals.
Upserted(p) ==
  IF row.exists /\ SamePolicy(row, p) THEN row
  ELSE [Discovered EXCEPT !.boot_mode = p.boot_mode,
                          !.bty_image_ref = p.bty_image_ref,
                          !.target_disk_serial = p.target_disk_serial]

Sent(k) == [net EXCEPT ![k] = IF @ < MaxPosts THEN @ + 1 ELSE @]

AllIdle == \A h \in Handlers : req[h].pc = "idle"
Quiet == \A k \in Signals : net[k] = 0
Resting == box.pc \in {"off", "os"} /\ AllIdle /\ Quiet

Fault(kind) ==
  /\ kind \in Environment
  /\ faults < MaxFaults
  /\ faults' = faults + 1

Edit ==
  /\ "rebind" \in Environment \/ Resting
  /\ edits < MaxEdits
  /\ edits' = edits + 1

(***************************************************************************)
(* The server.                                                              *)
(***************************************************************************)
\* First transaction of GET /pxe/{mac}: discover, touch, read the row.
PxeTouch(h) ==
  /\ req[h].pc = "new"
  /\ row' = Touched
  /\ req' = [req EXCEPT ![h] = [pc |-> "touched", row |-> Touched]]
  /\ UNCHANGED <<net, box, disk, catalog, exports, faults, edits>>

\* The decision on the row read before, the second transaction (the bit is
\* cleared by MAC, whatever the row has become) and the answer.
PxeOffer(h) ==
  /\ req[h].pc = "touched"
  /\ row' = IF ClearsBit(req[h].row) /\ row.exists
            THEN [row EXCEPT !.saw_flasher_boot = FALSE] ELSE row
  /\ req' = [req EXCEPT ![h] = IdleRequest]
  /\ box' = IF box.conn = h
            THEN [box EXCEPT !.conn = None,
                             !.pc = PlaceAfter(OfferFor(req[h].row))]
            ELSE box
  /\ UNCHANGED <<net, disk, catalog, exports, faults, edits>>

\* Mutant: done is logged but last_flashed_at is not set.
RecordDoneAsEvent ==
  /\ net["done"] > 0
  /\ net' = [net EXCEPT !["done"] = @ - 1]
  /\ UNCHANGED <<server, box, disk, faults, edits>>

\* POST /pxe/{mac}/status {"status": "done"}; without a row only an event.
RecordDone ==
  /\ net["done"] > 0
  /\ net' = [net EXCEPT !["done"] = @ - 1]
  /\ row' = IF row.exists
            THEN [row EXCEPT !.last_flashed_at = TRUE, !.since = @ \cup {"done"}]
            ELSE row
  /\ UNCHANGED <<req, box, disk, catalog, exports, faults, edits>>

\* POST /pxe/{mac}/status {"status": "failed"}: an event, the row is kept.
RecordFailed ==
  /\ net["failed"] > 0
  /\ net' = [net EXCEPT !["failed"] = @ - 1]
  /\ UNCHANGED <<server, box, disk, faults, edits>>

\* POST /pxe/{mac}/inventory.
RecordInventory ==
  /\ net["inventory"] > 0
  /\ net' = [net EXCEPT !["inventory"] = @ - 1]
  /\ row' = IF row.exists
            THEN [row EXCEPT !.known_disks_at = TRUE,
                             !.since = @ \cup {"inventory"}]
            ELSE row
  /\ UNCHANGED <<req, box, disk, catalog, exports, faults, edits>>

\* PUT /machines/{mac}: refuses an unready ramboot binding.
PutMachine(p) ==
  /\ Edit
  /\ p.boot_mode = "ramboot" /\ p.bty_image_ref # None => Exported(p.bty_image_ref)
  /\ row' = Upserted(p)
  /\ UNCHANGED <<req, net, box, disk, catalog, exports, faults>>

\* POST /ui/machines/{mac}: refuses a flash policy without a target disk.
UiMachineUpsert(p) ==
  /\ Edit
  /\ p.boot_mode \in FlashModes => p.target_disk_serial # None
  /\ row' = Upserted(p)
  /\ UNCHANGED <<req, net, box, disk, catalog, exports, faults>>

DeleteMachine ==
  /\ Edit
  /\ row.exists
  /\ row' = NoRow
  /\ UNCHANGED <<req, net, box, disk, catalog, exports, faults>>

\* import_bundle: INSERT OR REPLACE as bty-inventory, the disk list kept.
ImportMachine(listed) ==
  /\ Edit
  /\ row' = [Discovered EXCEPT !.known_disks_at = listed,
                               !.since = IF listed THEN {"import"} ELSE {}]
  /\ UNCHANGED <<req, net, box, disk, catalog, exports, faults>>

\* A refresh of the withcache catalog finds the images that are cached now.
RefreshCatalog(found) ==
  /\ Edit
  /\ catalog' = found
  /\ UNCHANGED <<row, req, net, box, disk, exports, faults>>

\* nbdmux finishes warming an export, or drops one.
ChangeExports(ready) ==
  /\ Edit
  /\ exports' = ready
  /\ UNCHANGED <<row, req, net, box, disk, catalog, faults>>

\* Requests in progress die with the process, POSTs in flight may; the catalog is read again and
\* stays empty when withcache cannot be reached.
ServerRestart ==
  /\ Fault("restart")
  /\ req' = [h \in Handlers |-> IdleRequest]
  /\ net' \in {net, [k \in Signals |-> 0]}
  /\ box' = IF box.pc = "wait" THEN [box EXCEPT !.pc = "off", !.conn = None]
            ELSE box
  /\ catalog' \in {catalog, {}}
  /\ UNCHANGED <<row, disk, exports, edits>>
(***************************************************************************)
(* The box.  Off means that the firmware is about to PXE-boot.              *)
(***************************************************************************)
\* iPXE chains to GET /pxe/{mac}.  Unless posts can be late, a reboot takes
\* longer than the POSTs of the previous boot.
BoxRequest(h) ==
  /\ box.pc = "off"
  /\ "late" \in Environment \/ Quiet
  /\ req[h].pc = "idle"
  /\ req' = [req EXCEPT ![h] = [pc |-> "new", row |-> NoRow]]
  /\ box' = [box EXCEPT !.pc = "wait", !.conn = h]
  /\ UNCHANGED <<row, net, disk, catalog, exports, faults, edits>>

\* iPXE gives up on the first request and sends another.
BoxRetry(h) ==
  /\ Fault("retry")
  /\ box.pc = "wait"
  /\ req[h].pc = "idle"
  /\ req' = [req EXCEPT ![h] = [pc |-> "new", row |-> NoRow]]
  /\ box' = [box EXCEPT !.conn = h]
  /\ UNCHANGED <<row, net, disk, catalog, exports, edits>>

PowerCycle ==
  /\ Fault("power")
  /\ box.pc # "off"
  /\ box' = [pc |-> "off", conn |-> None, job |-> NoJob, auto |-> FALSE]
  /\ UNCHANGED <<server, net, disk, edits>>

\* GET /boot/{kernel,initrd}?mac=: arms first, then serves the file.  The
\* kernel of a ramboot may come from nbdmux instead, which arms nothing.
FetchBoot ==
  /\ box.pc \in {"kernel", "initrd", "ramkernel"}
  /\ row' \in IF box.pc = "ramkernel" THEN {Armed, row} ELSE {Armed}
  /\ \/ /\ box' = [box EXCEPT !.pc = CASE @ = "kernel" -> "initrd"
                                       [] @ = "initrd" -> "boot"
                                       [] @ = "ramkernel" -> "os"]
        /\ UNCHANGED faults
     \/ /\ Fault("artifact")
        /\ box' = [box EXCEPT !.pc = "off"]
  /\ UNCHANGED <<req, net, disk, catalog, exports, edits>>

\* bty --server --mac starts and posts the disk list from a thread.
StartBty ==
  /\ box.pc = "boot"
  /\ net' = Sent("inventory")
  /\ box' = [box EXCEPT !.pc = "live", !.job = NoJob, !.auto = FALSE]
  /\ UNCHANGED <<server, disk, faults, edits>>

\* GET /pxe/{mac}/plan, and bty's dispatch on its mode.  The plan does not
\* look at last_flashed_at.
FetchPlan ==
  /\ box.pc = "live"
  /\ row' = Touched
  /\ box' =
       CASE Flashable(Touched) ->
              [box EXCEPT !.pc = "planned", !.auto = TRUE,
                          !.job = [image |-> Touched.bty_image_ref,
                                   serial |-> Touched.target_disk_serial]]
         [] Touched.boot_mode = "bty-inventory" -> [box EXCEPT !.pc = "report"]
         [] \/ Touched.boot_mode = "bty-tui"
            \/ /\ Touched.boot_mode \in FlashModes
               /\ Touched.bty_image_ref # None
               /\ ~Flashable(Touched) -> [box EXCEPT !.pc = "wizard"]
         [] OTHER -> [box EXCEPT !.pc = "idle"]
  /\ UNCHANGED <<req, net, disk, catalog, exports, faults, edits>>

\* No answer: bty falls back to the wizard.
MissPlan ==
  /\ Fault("plan")
  /\ box.pc = "live"
  /\ row' \in {row, Touched}
  /\ box' = [box EXCEPT !.pc = "wizard"]
  /\ UNCHANGED <<req, net, disk, catalog, exports, edits>>

\* mode=inventory: post the disk list and wait for it, then reboot.
ReportInventory ==
  /\ box.pc = "report"
  /\ net' = Sent("inventory")
  /\ box' = [box EXCEPT !.pc = "off"]
  /\ UNCHANGED <<server, disk, faults, edits>>

\* _run_auto finds the disk with the planned serial and starts to write it.
StartFlash ==
  /\ box.pc = "planned"
  /\ box.job.serial \in Disks
  /\ disk' = [disk EXCEPT ![box.job.serial] = "partial"]
  /\ box' = [box EXCEPT !.pc = "flashing"]
  /\ UNCHANGED <<server, net, faults, edits>>

\* ... or reports that no disk has it, or that the probe or the validation of
\* the flash plan fails, and falls back to the wizard.
RefuseFlash ==
  /\ box.pc = "planned"
  /\ \/ box.job.serial \notin Disks /\ UNCHANGED faults
     \/ Fault("flash")
  /\ net' = Sent("failed")
  /\ box' = [box EXCEPT !.pc = "wizard", !.job = NoJob, !.auto = FALSE]
  /\ UNCHANGED <<server, disk, edits>>

\* The disk holds the image; _screen_flash_running posts done.
FinishFlash ==
  /\ box.pc = "flashing"
  /\ disk' = [disk EXCEPT ![box.job.serial] = box.job.image]
  /\ net' = Sent("done")
  /\ box' = [box EXCEPT !.pc = "posted"]
  /\ UNCHANGED <<server, faults, edits>>

\* The write or the verification fails: _screen_flash_running waits for a
\* key before it returns.
FailFlash ==
  /\ Fault("flash")
  /\ box.pc = "flashing"
  /\ box' = [box EXCEPT !.pc = "ack"]
  /\ UNCHANGED <<server, net, disk, edits>>

\* Somebody presses Enter; only now _run_auto posts the failure.
AckFailure ==
  /\ box.pc = "ack"
  /\ net' = IF box.auto THEN Sent("failed") ELSE net
  /\ box' = [box EXCEPT !.pc = "wizard", !.job = NoJob, !.auto = FALSE]
  /\ UNCHANGED <<server, disk, faults, edits>>

\* The first POST done is answered or refused.  _run_auto posts a second
\* one; the wizard shows its last screen.
PostAnswered ==
  /\ box.pc = "posted"
  /\ net' = IF box.auto THEN Sent("done") ELSE net
  /\ box' = IF box.auto THEN [box EXCEPT !.pc = "reposted"]
            ELSE [box EXCEPT !.pc = "wizard", !.job = NoJob]
  /\ UNCHANGED <<server, disk, faults, edits>>

\* The answer does not come in time: the TimeoutError is not a URLError, so
\* bty exits with it and bty-on-tty1.service starts bty again.
PostTimesOut ==
  /\ Fault("timeout")
  /\ box.pc = "posted"
  /\ box' = [box EXCEPT !.pc = "boot"]
  /\ UNCHANGED <<server, net, disk, edits>>

AutoReboot ==
  /\ box.pc = "reposted"
  /\ box' = [box EXCEPT !.pc = "off", !.job = NoJob, !.auto = FALSE]
  /\ UNCHANGED <<server, net, disk, faults, edits>>

\* Somebody, or the installed system, reboots the box.
Reboot ==
  /\ box.pc \in {"wizard", "idle", "os"}
  /\ box' = [box EXCEPT !.pc = "off"]
  /\ UNCHANGED <<server, net, disk, faults, edits>>

\* The wizard flashes what the operator picks.
HandFlash(j) ==
  /\ "hand" \in Environment
  /\ box.pc = "wizard"
  /\ j.serial \in Disks
  /\ disk' = [disk EXCEPT ![j.serial] = "partial"]
  /\ box' = [box EXCEPT !.pc = "flashing", !.job = j, !.auto = FALSE]
  /\ UNCHANGED <<server, net, faults, edits>>

\* A POST does not reach the server.
LosePost(k) ==
  /\ Fault("lose")
  /\ net[k] > 0
  /\ net' = [net EXCEPT ![k] = @ - 1]
  /\ UNCHANGED <<server, box, disk, edits>>

(***************************************************************************)
(* The specification.                                                       *)
(***************************************************************************)
Init ==
  /\ row = NoRow
  /\ req = [h \in Handlers |-> IdleRequest]
  /\ net = [k \in Signals |-> 0]
  /\ box = [pc |-> "off", conn |-> None, job |-> NoJob, auto |-> FALSE]
  /\ disk = [s \in Disks |-> "blank"]
  /\ catalog = Images
  /\ exports = {}
  /\ faults = 0
  /\ edits = 0

Handle(h) == PxeTouch(h) \/ PxeOffer(h)

Deliver == RecordDone \/ RecordFailed \/ RecordInventory

Operator ==
  \/ \E p \in Policies : PutMachine(p) \/ UiMachineUpsert(p)
  \/ DeleteMachine
  \/ \E listed \in BOOLEAN : ImportMachine(listed)
  \/ \E found \in SUBSET Images : RefreshCatalog(found)
  \/ \E ready \in SUBSET Images : ChangeExports(ready)

\* What the box does by itself, without a person.
BoxStep ==
  \/ \E h \in Handlers : BoxRequest(h)
  \/ FetchBoot \/ StartBty \/ FetchPlan \/ ReportInventory
  \/ StartFlash \/ RefuseFlash \/ FinishFlash \/ PostAnswered \/ AutoReboot

Surroundings ==
  \/ \E h \in Handlers : BoxRetry(h)
  \/ PowerCycle \/ MissPlan \/ FailFlash \/ PostTimesOut \/ ServerRestart
  \/ AckFailure \/ Reboot
  \/ \E j \in Job : HandFlash(j)
  \/ \E k \in Signals : LosePost(k)

Next ==
  \/ \E h \in Handlers : Handle(h)
  \/ Deliver
  \/ Operator
  \/ BoxStep
  \/ Surroundings

Spec == Init /\ [][Next]_vars

\* Handlers and live-env threads run to their end; a box that is on goes on.
\* Nothing is assumed of people, of faults or of the installed system.
Fairness ==
  /\ \A h \in Handlers : WF_vars(Handle(h))
  /\ WF_vars(RecordDone) /\ WF_vars(RecordFailed) /\ WF_vars(RecordInventory)
  /\ WF_vars(BoxStep)

FairSpec == Spec /\ Fairness
(***************************************************************************)
(* Safety in every environment.                                             *)
(***************************************************************************)
\* The one-shot bit is set only under the three policies that consume it:
\* no interleaving of a /boot fetch, a save and an import leaks it into
\* another one ("confines arming to those three policies so the bit's
\* lifecycle can't leak into others", _arm_flasher_boot).
ArmedOnlyInCycleModes ==
  row.saw_flasher_boot => row.exists /\ row.boot_mode \in CycleModes

\* GET /pxe/{mac} sends a box to its disk after a flash only if, since the
\* policy of the row it read was saved, the box fetched a /boot artifact and
\* a done was recorded (upsert_machine: the signals of the old cycle are
\* cleared on a policy change).
ExitNeedsEvidence ==
  \A h \in Handlers :
    req[h].pc = "touched" /\ OfferFor(req[h].row) = "exit-after-flash"
      => {"arm", "done"} \subseteq req[h].row.since

\* An unattended flash writes an image and a disk that the operator saved
\* together: however saves, deletions, imports and plans interleave, the
\* image of one save never meets the disk of another (pxe_plan reads the row
\* in one statement, _run_auto picks the disk by the planned serial).
AutoFlashIsSaved ==
  box.auto =>
    \E p \in Policies :
      /\ p.boot_mode \in FlashModes
      /\ p.bty_image_ref = box.job.image
      /\ p.target_disk_serial = box.job.serial

(***************************************************************************)
(* Safety in disciplined environments.                                      *)
(***************************************************************************)
\* A bty-flash-once box that is sent to its disk finds the bound image on
\* it, complete, after any number of crashes in the middle of a flash (pxe:
\* "armed-without-last_flashed_at now re-serves the flash chain so the
\* crashed flasher retries until /done lands").
NoHalfFlashedBoot ==
  \A h \in Handlers :
    LET r == req[h].row IN
      /\ box.conn = h
      /\ req[h].pc = "touched"
      /\ r.boot_mode = "bty-flash-once"
      /\ OfferFor(r) = "exit-after-flash"
      => /\ r.target_disk_serial \in Disks
         /\ disk[r.target_disk_serial] = r.bty_image_ref

\* The same for bty-flash-always (pxe: the done since the flash chain was
\* served is "proof it actually flashed (not just iPXE-armed)").  From the
\* second cycle on the code breaks it: netboot_cycle_crash expects that.
NoHalfFlashedCycle ==
  \A h \in Handlers :
    LET r == req[h].row IN
      /\ box.conn = h
      /\ req[h].pc = "touched"
      /\ r.boot_mode = "bty-flash-always"
      /\ OfferFor(r) = "exit-after-flash"
      => /\ r.target_disk_serial \in Disks
         /\ disk[r.target_disk_serial] = r.bty_image_ref

\* What the row has ordered: a flash policy that names an image and a disk.
OrderOf(r) ==
  IF /\ r.exists /\ r.boot_mode = "bty-flash-once"
     /\ r.bty_image_ref # None /\ r.target_disk_serial # None
  THEN [image |-> r.bty_image_ref, serial |-> r.target_disk_serial,
        done |-> r.last_flashed_at]
  ELSE [image |-> None, serial |-> None, done |-> FALSE]

Promise == INSTANCE FlashOrder WITH
  order <- OrderOf(row), known <- catalog, booted <- (box.pc = "os")

\* A bty-flash-once save is carried out as FlashOrder promises: recorded as
\* done only with the image on the disk, never flashed again after that by
\* any crash, retry or slow handler, and booted from only when done (pxe:
\* "KEEP the bit. Terminal state: the box boots its disk (via ipxe-exit)
\* from now on").
FlashedOnce == Promise!Spec

(***************************************************************************)
(* Liveness.                                                                *)
(***************************************************************************)
Bound ==
  /\ row.exists
  /\ row.boot_mode = "bty-flash-once"
  /\ row.target_disk_serial \in Disks
  /\ Flashable(row)

\* A box that PXE-boots under a bty-flash-once policy that can be carried
\* out ends on its disk with the image written, however often it crashes and
\* its POSTs get lost, unless the policy stops being one that can be.
FlashOnceCompletes ==
  (Bound /\ box.pc = "off")
    ~> (\/ ~Bound
        \/ box.pc = "os" /\ disk[row.target_disk_serial] = row.bty_image_ref)
=============================================================================
