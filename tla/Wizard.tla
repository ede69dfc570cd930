-------------------------------- MODULE Wizard --------------------------------
(***************************************************************************)
(* The wizard of the live env with the flash it runs in a thread of its own: *)
(* the screens, what the operator has committed to, Ctrl+C, the unattended   *)
(* flash of a server's plan.  What the server is told is in Netboot.         *)
(*                                                                          *)
(* A disk is picked from a listing, as a name; the record keeps the disk     *)
(* that had the name then.  An image is picked from the local ones or from   *)
(* those of the catalog that is loaded.                                      *)
(***************************************************************************)
EXTENDS FlashPipeline

CONSTANTS
  Local,      \* the images of the image root; the others are the catalog's
  Assigned,   \* the images a server's plan may name
  MaxRuns     \* bound on the calls of execute_plan in a behaviour

ASSUME WizardAssumption ==
  /\ Local \subseteq {img \in Images : ~img.url}
  /\ Assigned \subseteq {img \in Images : img.url}
  /\ MaxRuns \in Nat

VARIABLES
  wizard,     \* the fields of _State, and where its loop is
  runs

allvars == <<vars, wizard, runs>>

NoAim == [path |-> CHOOSE p \in Paths : TRUE, disk |-> NoDisk]

Fields == [
  at    : {"left", "screen", "flash", "ack"},
  auto  : BOOLEAN,                    \* _auto: the server's plan is being run
  source : BOOLEAN,                   \* catalog_source is set
  chosen : BOOLEAN,                   \* catalog_chosen
  image : Images \cup {NoImage},      \* selected_image
  aim   : [path : Paths, disk : Disks \cup {NoDisk}],  \* selected_disk
  plan  : {"none", "valid", "rejected"},  \* of the confirm screen
  post_flash : BOOLEAN]

WizardTypeOK ==
  /\ FlashTypeOK
  /\ wizard \in Fields
  /\ runs \in 0..MaxRuns

Stage ==
  IF wizard.post_flash THEN "reboot"
  ELSE IF ~wizard.chosen THEN "catalog"
  ELSE IF wizard.image = NoImage THEN "image"
  ELSE IF wizard.aim = NoAim THEN "disk"
  ELSE "confirm"

On(stg) == wizard.at = "screen" /\ ~wizard.auto /\ Stage = stg

(***************************************************************************)
(* Starting, and the screens.                                               *)
(***************************************************************************)
Fresh(source) ==
  [at |-> "screen", auto |-> FALSE, source |-> source,
   chosen |-> (source \/ Local # {}), image |-> NoImage, aim |-> NoAim,
   plan |-> "none", post_flash |-> FALSE]

Set(w) == wizard' = w /\ UNCHANGED <<vars, runs>>

\* By hand, with or without --catalog; or driven by a server whose plan (or the
\* lack of one) leads to the screens.
Launch(source) == wizard.at = "left" /\ Set(Fresh(source))

ChooseCatalog(source) ==
  /\ On("catalog")
  /\ Set([wizard EXCEPT !.chosen = TRUE, !.source = source])

\* _refresh_images: a catalog that cannot be loaded leaves the local ones.
Listed == Local \cup (IF wizard.source THEN Images ELSE {})

PickImage(img) ==
  /\ On("image")
  /\ img \in Listed
  /\ Set([wizard EXCEPT !.image = img])

PickDisk(path) ==
  /\ On("disk")
  /\ at[path] # NoDisk
  /\ Set([wizard EXCEPT !.aim = [path |-> path, disk |-> at[path]]])

\* What a probe takes for the size of an image: bz2 has none, gzip's wraps, and
\* of a URL only that of a raw image is known, if the server says it.
ProbedSizes(img) ==
  IF img.fmt \in {"img", "qcow2"} /\ ~img.url THEN {Chunks} ELSE {0, Chunks}

\* probe_target, make_plan, validate_plan; 0 stands for an unknown size.
Validated(img, path) ==
  {IF img.fmt # "other" /\ Usable(path) /\ (n = 0 \/ n <= Capacity[at[path]])
   THEN "valid" ELSE "rejected" : n \in ProbedSizes(img)}
  \cup (IF img.url THEN {"rejected"} ELSE {})

\* Entering the confirm screen probes both ends.
Probe ==
  /\ On("confirm") /\ wizard.plan = "none"
  /\ \E plan \in Validated(wizard.image, wizard.aim.path) :
       Set([wizard EXCEPT !.plan = plan])

\* back() from the plan, or from a plan that was rejected.
BackToDisk ==
  /\ On("confirm") /\ wizard.plan # "none"
  /\ Set([wizard EXCEPT !.plan = "none", !.aim = NoAim])

BackToImage == On("disk") /\ Set([wizard EXCEPT !.image = NoImage])
BackToCatalog == On("image") /\ Set([wizard EXCEPT !.chosen = FALSE])

BackFromReboot ==
  /\ On("reboot")
  /\ Set([wizard EXCEPT !.post_flash = FALSE, !.aim = NoAim])

\* q on any screen, and a reboot.
Quit ==
  /\ wizard.at = "screen" /\ ~wizard.auto
  /\ Set([wizard EXCEPT !.at = "left"])

(***************************************************************************)
(* The flash.                                                               *)
(***************************************************************************)
Start(img, path) ==
  /\ runs < MaxRuns
  /\ runs' = runs + 1
  /\ Execute(img, path)

Confirm ==
  /\ On("confirm") /\ wizard.plan = "valid"
  /\ Start(wizard.image, wizard.aim.path)
  /\ wizard' = [wizard EXCEPT !.at = "flash", !.plan = "none"]

\* The results that set post_flash.
Good == {"ok"}

\* The thread has ended: post_flash, or a message that waits for a key.
EndFlash ==
  /\ wizard.at = "flash"
  /\ Returned
  /\ wizard' = IF call.pc \in Good THEN [wizard EXCEPT !.at = "screen", !.post_flash = TRUE]
               ELSE [wizard EXCEPT !.at = "ack"]
  /\ UNCHANGED runs

\* The key: back to the confirm screen.  An unattended flash is reported now.
Acknowledge ==
  /\ wizard.at = "ack"
  /\ Set([wizard EXCEPT !.at = "screen", !.auto = FALSE])

(***************************************************************************)
(* The unattended flash of a plan.                                          *)
(***************************************************************************)
\* The plan names an image and the serial of a disk.
LaunchAuto(img, disk) ==
  /\ wizard.at = "left"
  /\ Set([Fresh(TRUE) EXCEPT !.auto = TRUE, !.image = img, !.aim.disk = disk])

Unattended == wizard.at = "screen" /\ wizard.auto /\ ~wizard.post_flash

\* The disk with that serial is looked up, and its name goes to the plan.
RunAuto ==
  /\ Unattended
  /\ \E path \in Paths :
       /\ at[path] = wizard.aim.disk
       /\ \/ /\ "valid" \in Validated(wizard.image, path)
             /\ Start(wizard.image, path)
             /\ wizard' = [wizard EXCEPT !.at = "flash", !.aim.path = path]
          \/ /\ "rejected" \in Validated(wizard.image, path)
             /\ Set([wizard EXCEPT !.auto = FALSE, !.aim.path = path])

\* No disk has the serial: reported, and the screens take over.
MissDisk ==
  /\ Unattended
  /\ \A path \in Paths : at[path] # wizard.aim.disk
  /\ Set([wizard EXCEPT !.auto = FALSE, !.aim = NoAim])

\* Done is posted once more, then the box reboots.
EndAuto ==
  /\ wizard.at = "screen" /\ wizard.auto /\ wizard.post_flash
  /\ Set([wizard EXCEPT !.at = "left"])

(***************************************************************************)
(* The specification.                                                       *)
(***************************************************************************)
WizardInit ==
  /\ FlashInit
  /\ wizard = [Fresh(FALSE) EXCEPT !.at = "left"]
  /\ runs = 0

Operator ==
  \/ \E source \in BOOLEAN : Launch(source) \/ ChooseCatalog(source)
  \/ \E img \in Images : PickImage(img)
  \/ \E img \in Assigned, disk \in Disks : LaunchAuto(img, disk)
  \/ \E path \in Paths : PickDisk(path)
  \/ BackToDisk \/ BackToImage \/ BackToCatalog \/ BackFromReboot \/ Quit
  \/ Confirm \/ Acknowledge

Machine == Probe \/ EndFlash \/ RunAuto \/ MissDisk \/ EndAuto

FlashThread ==
  /\ \/ Caller
     \/ \E s \in Stages : Process(s) \/ Die(s)
     \/ Watch \/ Interrupt \/ SetCancel
     \/ Trouble
  /\ UNCHANGED <<wizard, runs>>

WizardNext == Operator \/ Machine \/ FlashThread

WizardSpec == WizardInit /\ [][WizardNext]_allvars

WizardFairSpec == WizardSpec /\ FlashFairness

(***************************************************************************)
(* Properties.                                                              *)
(***************************************************************************)
\* Nothing in the image or in its transport gives damage away.
Undetectable(img) ==
  /\ img.url /\ ~img.digest
  /\ "corrupt" \in faults \/ ("short" \in faults /\ img.fmt # "packed")

\* The screen that offers the reboot speaks of the disk that was picked, and that
\* disk holds the image, whatever processes died on the way and although some
\* image sizes are unknown or wrong when the plan is validated
\* (_screen_reboot_or_done: "Image written to").  Excepted are damage that
\* nothing can detect, and names of disks that change meanwhile.
ShownIsWritten ==
  wizard.post_flash /\ "swap" \notin faults /\ ~Undetectable(wizard.image)
    => content[wizard.aim.disk] = "image"

\* A disk is written only while the flash screen is up and it is the one that is
\* picked, so that no process of an earlier flash, cancelled or failed, still
\* writes when the operator has moved on; and never one that was in use from the
\* start (validate_plan and the second probe of execute_plan).
OnlyPickedDiskWritten ==
  [][\A d \in Disks :
       content'[d] # content[d] /\ "swap" \notin faults =>
         /\ wizard.at = "flash" /\ d = wizard.aim.disk
         /\ d \in mounted => "mount" \in faults]_allvars

\* Ctrl+C ends a flash although the server stalls or a process hangs on a pipe:
\* no call waits for ever for a process nobody terminates (the cancel watchdog).
\* A program that is missing is excepted: it is missed before the watchdog runs.
InterruptEnds ==
  asked = "set" /\ "missing" \notin faults
    ~> call.pc \notin Busy \/ "missing" \in faults
=============================================================================
