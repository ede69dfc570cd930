---------------------------- MODULE NetbootProofs ----------------------------
(***************************************************************************)
(* What holds of Netboot for every value of its constants: any number of    *)
(* images, disks, handlers and edits; in every environment but for the last *)
(* two theorems, which are about disciplined ones.                          *)
(*                                                                          *)
(* TypeOK is not inductive alone: a finished flash writes box.job.image, so *)
(* that a box with a job to do has one (HasJob) goes with it.  The safety   *)
(* theorems rest on SoundRow, which the row and every copy a slow handler   *)
(* holds of an earlier row satisfy.                                         *)
(***************************************************************************)
EXTENDS Netboot, TLAPS

HasJob == box.pc \in {"planned", "flashing"} => box.job \in Job

Typed == TypeOK /\ HasJob

USE NetbootAssumption

(***************************************************************************)
(* The helpers.                                                             *)
(***************************************************************************)
\* A row that is not there, and a discovered one, are rows.
LEMMA NoRowTyped == NoRow \in Row /\ Discovered \in Row
  BY DEF NoRow, Discovered, Row, BootModes, CycleModes, FlashModes, Evidence

\* The touch of a row by GET /pxe/{mac} keeps its type.
LEMMA TouchedTyped == ASSUME row \in Row PROVE Touched \in Row
  BY NoRowTyped DEF Touched

\* Arming keeps the type of a row.
LEMMA ArmedTyped == ASSUME row \in Row PROVE Armed \in Row
  BY DEF Armed, Row, Evidence

\* A save of a typed policy gives a typed row.
LEMMA UpsertedTyped ==
  ASSUME row \in Row, NEW p \in Policies PROVE Upserted(p) \in Row
<1>1. p \in Policy
  OBVIOUS
<1>. QED  BY <1>1, NoRowTyped DEF Upserted, Policy, Row

\* What the live env puts on its way is a request.
LEMMA SentTyped ==
  ASSUME net \in [Signals -> 0..MaxPosts], NEW k \in Signals
  PROVE  Sent(k) \in [Signals -> 0..MaxPosts]
  BY DEF Sent

\* The box comes to a place there is.
LEMMA PlaceAfterTyped ==
  ASSUME NEW offer PROVE PlaceAfter(offer) \in {"kernel", "ramkernel", "os"}
  BY DEF PlaceAfter

\* A handler at rest is typed.
LEMMA IdleRequestTyped == IdleRequest \in Request
  BY NoRowTyped DEF IdleRequest, Request

(***************************************************************************)
(* Typing.                                                                  *)
(***************************************************************************)
\* The initial states are typed.
LEMMA TypedInit == Init => Typed
  BY NoRowTyped, IdleRequestTyped
  DEF Init, Typed, TypeOK, HasJob, Box, BoxPlaces, Signals

\* The two transactions of GET /pxe/{mac} keep the types.
LEMMA TypedHandler ==
  ASSUME Typed, NEW h \in Handlers, Handle(h) PROVE Typed'
<1>. USE DEF Typed, TypeOK, HasJob
<1>1. CASE PxeTouch(h)
  BY <1>1, TouchedTyped DEF PxeTouch, Request
<1>2. CASE PxeOffer(h)
  <2>1. row' \in Row
    BY <1>2 DEF PxeOffer, Row
  <2>2. req' \in [Handlers -> Request]
    BY <1>2, IdleRequestTyped DEF PxeOffer
  <2>3. box' \in Box /\ HasJob'
    BY <1>2, PlaceAfterTyped DEF PxeOffer, Box, BoxPlaces
  <2>. QED  BY <1>2, <2>1, <2>2, <2>3 DEF PxeOffer
<1>. QED  BY <1>1, <1>2 DEF Handle

\* What arrives was sent, so it is typed.
LEMMA ReceivedTyped ==
  ASSUME net \in [Signals -> 0..MaxPosts], NEW k \in Signals, net[k] > 0
  PROVE  [net EXCEPT ![k] = @ - 1] \in [Signals -> 0..MaxPosts]
<1>1. net[k] - 1 \in 0..MaxPosts
  OBVIOUS
<1>. QED  BY <1>1

\* The POSTs of the live env keep the types.
LEMMA TypedDeliver == ASSUME Typed, Deliver PROVE Typed'
<1>. USE DEF Typed, TypeOK, HasJob
<1>. "done" \in Signals /\ "failed" \in Signals /\ "inventory" \in Signals
  BY DEF Signals
<1>1. CASE RecordDone
  <2>1. row' \in Row
    BY <1>1 DEF RecordDone, Row, Evidence
  <2>2. net' \in [Signals -> 0..MaxPosts]
    BY <1>1, ReceivedTyped DEF RecordDone
  <2>. QED  BY <1>1, <2>1, <2>2 DEF RecordDone
<1>2. CASE RecordFailed
  BY <1>2, ReceivedTyped DEF RecordFailed, server
<1>3. CASE RecordInventory
  <2>1. row' \in Row
    BY <1>3 DEF RecordInventory, Row, Evidence
  <2>2. net' \in [Signals -> 0..MaxPosts]
    BY <1>3, ReceivedTyped DEF RecordInventory
  <2>. QED  BY <1>3, <2>1, <2>2 DEF RecordInventory
<1>. QED  BY <1>1, <1>2, <1>3 DEF Deliver

\* The edits of the operator keep the types.
LEMMA TypedOperator == ASSUME Typed, Operator PROVE Typed'
<1>. USE DEF Typed, TypeOK, HasJob, Edit
<1>1. ASSUME NEW p \in Policies, PutMachine(p) PROVE Typed'
  BY <1>1, UpsertedTyped DEF PutMachine
<1>2. ASSUME NEW p \in Policies, UiMachineUpsert(p) PROVE Typed'
  BY <1>2, UpsertedTyped DEF UiMachineUpsert
<1>3. CASE DeleteMachine
  BY <1>3, NoRowTyped DEF DeleteMachine
<1>4. ASSUME NEW listed \in BOOLEAN, ImportMachine(listed) PROVE Typed'
  <2>1. row' \in Row
    BY <1>4, NoRowTyped DEF ImportMachine, Row, Evidence
  <2>. QED  BY <1>4, <2>1 DEF ImportMachine
<1>5. ASSUME NEW found \in SUBSET Images, RefreshCatalog(found) PROVE Typed'
  BY <1>5 DEF RefreshCatalog
<1>6. ASSUME NEW ready \in SUBSET Images, ChangeExports(ready) PROVE Typed'
  BY <1>6 DEF ChangeExports
<1>. QED  BY <1>1, <1>2, <1>3, <1>4, <1>5, <1>6 DEF Operator

\* The steps of the box keep the types.
LEMMA TypedBoxStep == ASSUME Typed, BoxStep PROVE Typed'
<1>. USE DEF Typed, TypeOK, HasJob
<1>. "done" \in Signals /\ "failed" \in Signals /\ "inventory" \in Signals
  BY DEF Signals
<1>1. ASSUME NEW h \in Handlers, BoxRequest(h) PROVE Typed'
  <2>1. req' \in [Handlers -> Request]
    BY <1>1, NoRowTyped DEF BoxRequest, Request
  <2>2. box' \in Box /\ HasJob'
    BY <1>1 DEF BoxRequest, Box, BoxPlaces
  <2>. QED  BY <1>1, <2>1, <2>2 DEF BoxRequest
<1>2. CASE FetchBoot
  <2>1. row' \in Row
    BY <1>2, ArmedTyped DEF FetchBoot
  <2>2. box' \in Box /\ HasJob'
    BY <1>2 DEF FetchBoot, Box, BoxPlaces
  <2>3. faults' \in 0..MaxFaults
    BY <1>2 DEF FetchBoot, Fault
  <2>. QED  BY <1>2, <2>1, <2>2, <2>3 DEF FetchBoot
<1>3. CASE StartBty
  <2>1. box' \in Box /\ HasJob'
    BY <1>3 DEF StartBty, Box, BoxPlaces
  <2>. QED  BY <1>3, <2>1, SentTyped DEF StartBty, server
<1>4. CASE FetchPlan
  <2>1. Touched \in Row
    BY TouchedTyped
  <2>2. CASE Flashable(Touched)
    <3>1. [image |-> Touched.bty_image_ref,
           serial |-> Touched.target_disk_serial] \in Job
      BY <2>1, <2>2 DEF Flashable, Row, Job
    <3>2. box' = [box EXCEPT !.pc = "planned", !.auto = TRUE,
                             !.job = [image |-> Touched.bty_image_ref,
                                      serial |-> Touched.target_disk_serial]]
      BY <1>4, <2>2 DEF FetchPlan, Flashable, FlashModes
    <3>3. box' \in Box /\ HasJob'
      BY <3>1, <3>2 DEF Box, BoxPlaces
    <3>. QED  BY <1>4, <2>1, <3>3 DEF FetchPlan
  <2>3. CASE ~Flashable(Touched)
    <3>1. \E place \in {"report", "wizard", "idle"} :
            box' = [box EXCEPT !.pc = place]
      BY <1>4, <2>3 DEF FetchPlan, FlashModes
    <3>2. box' \in Box /\ HasJob'
      BY <3>1 DEF Box, BoxPlaces
    <3>. QED  BY <1>4, <2>1, <3>2 DEF FetchPlan
  <2>. QED  BY <2>2, <2>3
<1>5. CASE ReportInventory
  <2>1. box' \in Box /\ HasJob'
    BY <1>5 DEF ReportInventory, Box, BoxPlaces
  <2>. QED  BY <1>5, <2>1, SentTyped DEF ReportInventory, server
<1>6. CASE StartFlash
  <2>1. box' \in Box /\ HasJob'
    BY <1>6 DEF StartFlash, Box, BoxPlaces
  <2>. QED  BY <1>6, <2>1 DEF StartFlash, server
<1>7. CASE RefuseFlash
  <2>1. box' \in Box /\ HasJob'
    BY <1>7 DEF RefuseFlash, Box, BoxPlaces
  <2>2. faults' \in 0..MaxFaults
    BY <1>7 DEF RefuseFlash, Fault
  <2>. QED  BY <1>7, <2>1, <2>2, SentTyped DEF RefuseFlash, server
<1>8. CASE FinishFlash
  <2>1. box' \in Box /\ HasJob'
    BY <1>8 DEF FinishFlash, Box, BoxPlaces
  <2>2. disk' \in [Disks -> Images \cup {"blank", "partial"}]
    BY <1>8 DEF FinishFlash, Job
  <2>. QED  BY <1>8, <2>1, <2>2, SentTyped DEF FinishFlash, server
<1>9. CASE PostAnswered
  <2>1. box' \in Box /\ HasJob'
    BY <1>9 DEF PostAnswered, Box, BoxPlaces
  <2>2. net' \in [Signals -> 0..MaxPosts]
    BY <1>9, SentTyped DEF PostAnswered
  <2>. QED  BY <1>9, <2>1, <2>2 DEF PostAnswered, server
<1>10. CASE AutoReboot
  <2>1. box' \in Box /\ HasJob'
    BY <1>10 DEF AutoReboot, Box, BoxPlaces
  <2>. QED  BY <1>10, <2>1 DEF AutoReboot, server
<1>. QED  BY <1>1, <1>2, <1>3, <1>4, <1>5, <1>6, <1>7, <1>8, <1>9, <1>10
          DEF BoxStep

\* Faults and changes from outside keep the types.
LEMMA TypedSurroundings == ASSUME Typed, Surroundings PROVE Typed'
<1>. USE DEF Typed, TypeOK, HasJob, Fault
<1>. "failed" \in Signals
  BY DEF Signals
<1>1. ASSUME NEW h \in Handlers, BoxRetry(h) PROVE Typed'
  <2>1. req' \in [Handlers -> Request]
    BY <1>1, NoRowTyped DEF BoxRetry, Request
  <2>2. box' \in Box /\ HasJob'
    BY <1>1 DEF BoxRetry, Box
  <2>. QED  BY <1>1, <2>1, <2>2 DEF BoxRetry
<1>2. CASE PowerCycle
  <2>1. box' \in Box /\ HasJob'
    BY <1>2 DEF PowerCycle, Box, BoxPlaces
  <2>. QED  BY <1>2, <2>1 DEF PowerCycle, server
<1>3. CASE MissPlan
  <2>1. box' \in Box /\ HasJob'
    BY <1>3 DEF MissPlan, Box, BoxPlaces
  <2>. QED  BY <1>3, <2>1, TouchedTyped DEF MissPlan
<1>4. CASE FailFlash
  <2>1. box' \in Box /\ HasJob'
    BY <1>4 DEF FailFlash, Box, BoxPlaces
  <2>. QED  BY <1>4, <2>1 DEF FailFlash, server
<1>5. CASE PostTimesOut
  <2>1. box' \in Box /\ HasJob'
    BY <1>5 DEF PostTimesOut, Box, BoxPlaces
  <2>. QED  BY <1>5, <2>1 DEF PostTimesOut, server
<1>6. CASE ServerRestart
  <2>1. req' \in [Handlers -> Request] /\ net' \in [Signals -> 0..MaxPosts]
    BY <1>6, IdleRequestTyped DEF ServerRestart
  <2>2. box' \in Box /\ HasJob'
    BY <1>6 DEF ServerRestart, Box, BoxPlaces
  <2>3. catalog' \subseteq Images
    BY <1>6 DEF ServerRestart
  <2>. QED  BY <1>6, <2>1, <2>2, <2>3 DEF ServerRestart
<1>7. CASE AckFailure
  <2>1. box' \in Box /\ HasJob'
    BY <1>7 DEF AckFailure, Box, BoxPlaces
  <2>2. net' \in [Signals -> 0..MaxPosts]
    BY <1>7, SentTyped DEF AckFailure
  <2>. QED  BY <1>7, <2>1, <2>2 DEF AckFailure, server
<1>8. CASE Reboot
  <2>1. box' \in Box /\ HasJob'
    BY <1>8 DEF Reboot, Box, BoxPlaces
  <2>. QED  BY <1>8, <2>1 DEF Reboot, server
<1>9. ASSUME NEW j \in Job, HandFlash(j) PROVE Typed'
  <2>1. box' \in Box /\ HasJob'
    BY <1>9 DEF HandFlash, Box, BoxPlaces
  <2>2. disk' \in [Disks -> Images \cup {"blank", "partial"}]
    BY <1>9 DEF HandFlash
  <2>. QED  BY <1>9, <2>1, <2>2 DEF HandFlash, server
<1>10. ASSUME NEW k \in Signals, LosePost(k) PROVE Typed'
  BY <1>10, ReceivedTyped DEF LosePost, server
<1>. QED  BY <1>1, <1>2, <1>3, <1>4, <1>5, <1>6, <1>7, <1>8, <1>9, <1>10
          DEF Surroundings

\* Every step keeps the types.
LEMMA TypedStep == Typed /\ [Next]_vars => Typed'
<1>1. ASSUME Typed, UNCHANGED vars PROVE Typed'
  BY <1>1 DEF vars, Typed, TypeOK, HasJob
<1>. QED  BY <1>1, TypedHandler, TypedDeliver, TypedOperator, TypedBoxStep,
             TypedSurroundings DEF Next

\* The types hold in every reachable state.
LEMMA AlwaysTyped == Spec => []Typed
  BY TypedInit, TypedStep, PTL DEF Spec

\* Every variable keeps its type, the row and every handler's copy of it
\* included, whatever the environment does.
THEOREM TypeCorrect == Spec => []TypeOK
<1>1. Typed => TypeOK
  BY DEF Typed
<1>. QED  BY <1>1, AlwaysTyped, PTL

(***************************************************************************)
(* What a step can do to the row and to a handler's copy of it.             *)
(***************************************************************************)
Cleared == [row EXCEPT !.saw_flasher_boot = FALSE]
Flashed == [row EXCEPT !.last_flashed_at = TRUE, !.since = @ \cup {"done"}]
Listed == [row EXCEPT !.known_disks_at = TRUE, !.since = @ \cup {"inventory"}]
Imported(listed) == [Discovered EXCEPT !.known_disks_at = listed,
                                       !.since = IF listed THEN {"import"} ELSE {}]

RowChange ==
  \/ row' \in {row, NoRow, Touched, Armed, Cleared}
  \/ row.exists /\ row' \in {Flashed, Listed}
  \/ \E p \in Policies : row' = Upserted(p)
  \/ \E listed \in BOOLEAN : row' = Imported(listed)

\* Whatever the step, the row changes in one of a few ways.
LEMMA RowChanges == ASSUME [Next]_vars PROVE RowChange
<1>. USE DEF RowChange
<1>1. ASSUME NEW h \in Handlers, Handle(h) PROVE RowChange
  BY <1>1 DEF Handle, PxeTouch, PxeOffer, Cleared
<1>2. CASE Deliver
  BY <1>2 DEF Deliver, RecordDone, RecordFailed, RecordInventory, server,
              Flashed, Listed
<1>3. CASE Operator
  BY <1>3 DEF Operator, PutMachine, UiMachineUpsert, DeleteMachine,
              ImportMachine, RefreshCatalog, ChangeExports, Imported
<1>4. CASE BoxStep
  BY <1>4 DEF BoxStep, BoxRequest, FetchBoot, StartBty, FetchPlan,
              ReportInventory, StartFlash, RefuseFlash, FinishFlash,
              PostAnswered, AutoReboot, server
<1>5. CASE Surroundings
  BY <1>5 DEF Surroundings, BoxRetry, PowerCycle, MissPlan, FailFlash,
              PostTimesOut, ServerRestart, AckFailure, Reboot, HandFlash,
              LosePost, server
<1>6. CASE UNCHANGED vars
  BY <1>6 DEF vars
<1>. QED  BY <1>1, <1>2, <1>3, <1>4, <1>5, <1>6 DEF Next

CopyChange(h) == req'[h].row \in {req[h].row, NoRow, Touched}

\* A handler's copy of the row is the row of some moment.
LEMMA CopyChanges ==
  ASSUME Typed, [Next]_vars, NEW h \in Handlers PROVE CopyChange(h)
<1>. USE DEF CopyChange, Typed, TypeOK
<1>1. ASSUME NEW g \in Handlers, PxeTouch(g) PROVE CopyChange(h)
  BY <1>1 DEF PxeTouch
<1>2. ASSUME NEW g \in Handlers, PxeOffer(g) PROVE CopyChange(h)
  BY <1>2 DEF PxeOffer, IdleRequest
<1>3. ASSUME NEW g \in Handlers, BoxRequest(g) \/ BoxRetry(g)
      PROVE  CopyChange(h)
  BY <1>3 DEF BoxRequest, BoxRetry
<1>4. CASE ServerRestart
  BY <1>4 DEF ServerRestart, IdleRequest
<1>5. CASE UNCHANGED req
  BY <1>5
<1>6. Deliver => UNCHANGED req
  BY DEF Deliver, RecordDone, RecordFailed, RecordInventory, server
<1>7. Operator => UNCHANGED req
  BY DEF Operator, PutMachine, UiMachineUpsert, DeleteMachine,
         ImportMachine, RefreshCatalog, ChangeExports
<1>8. BoxStep => (\E g \in Handlers : BoxRequest(g)) \/ UNCHANGED req
  BY DEF BoxStep, FetchBoot, StartBty, FetchPlan, ReportInventory, StartFlash,
         RefuseFlash, FinishFlash, PostAnswered, AutoReboot, server
<1>9. Surroundings => \/ \E g \in Handlers : BoxRetry(g)
                      \/ ServerRestart
                      \/ UNCHANGED req
  BY DEF Surroundings, PowerCycle, MissPlan, FailFlash, PostTimesOut,
         AckFailure, Reboot, HandFlash, LosePost, server
<1>. QED  BY <1>1, <1>2, <1>3, <1>4, <1>5, <1>6, <1>7, <1>8, <1>9
          DEF Next, Handle, vars

(***************************************************************************)
(* The bit and the completion signal are never older than the policy.       *)
(***************************************************************************)
SoundRow(r) ==
  /\ r.saw_flasher_boot =>
       r.exists /\ r.boot_mode \in CycleModes /\ "arm" \in r.since
  /\ r.last_flashed_at => "done" \in r.since

Sound == SoundRow(row) /\ \A h \in Handlers : SoundRow(req[h].row)

\* A new row is sound.
LEMMA SoundNew == SoundRow(NoRow) /\ SoundRow(Discovered)
  BY DEF SoundRow, NoRow, Discovered

\* Every change of the row keeps it sound.
LEMMA SoundRowStep ==
  ASSUME Typed, SoundRow(row), RowChange PROVE SoundRow(row')
<1>. USE DEF Typed, TypeOK
<1>1. CASE row' \in {row, NoRow, Touched}
  BY <1>1, SoundNew DEF Touched
<1>2. CASE row' = Armed
  <2>1. CASE row.exists /\ row.boot_mode \in CycleModes
    <3>1. /\ row'.exists = row.exists
          /\ row'.boot_mode = row.boot_mode
          /\ row'.last_flashed_at = row.last_flashed_at
          /\ row'.since = row.since \cup {"arm"}
      BY <1>2, <2>1 DEF Armed, Row
    <3>. QED  BY <2>1, <3>1 DEF SoundRow
  <2>. QED  BY <1>2, <2>1 DEF Armed
<1>3. CASE row' \in {Cleared, Flashed, Listed}
  <2>1. /\ row'.exists = row.exists
        /\ row'.boot_mode = row.boot_mode
        /\ row'.saw_flasher_boot => row.saw_flasher_boot
        /\ row.since \subseteq row'.since
    <3>1. CASE row' = Cleared
      BY <3>1 DEF Cleared, Row
    <3>2. CASE row' = Flashed
      BY <3>2 DEF Flashed, Row
    <3>3. CASE row' = Listed
      BY <3>3 DEF Listed, Row
    <3>. QED  BY <1>3, <3>1, <3>2, <3>3
  <2>2. row'.last_flashed_at => row.last_flashed_at \/ "done" \in row'.since
    <3>1. CASE row' = Cleared
      BY <3>1 DEF Cleared, Row
    <3>2. CASE row' = Flashed
      BY <3>2 DEF Flashed, Row
    <3>3. CASE row' = Listed
      BY <3>3 DEF Listed, Row
    <3>. QED  BY <1>3, <3>1, <3>2, <3>3
  <2>. QED  BY <2>1, <2>2 DEF SoundRow
<1>4. ASSUME NEW p \in Policies, row' = Upserted(p) PROVE SoundRow(row')
  BY <1>4 DEF Upserted, SoundRow, Discovered
<1>5. ASSUME NEW listed \in BOOLEAN, row' = Imported(listed)
      PROVE  SoundRow(row')
  BY <1>5 DEF Imported, SoundRow, Discovered
<1>. QED  BY <1>1, <1>2, <1>3, <1>4, <1>5 DEF RowChange

\* Every step keeps the row and the handlers' copies sound.
LEMMA SoundStep == Typed /\ Sound /\ [Next]_vars => Sound'
<1>. SUFFICES ASSUME Typed, Sound, [Next]_vars PROVE Sound'
  OBVIOUS
<1>1. SoundRow(row')
  BY RowChanges, SoundRowStep DEF Sound
<1>2. ASSUME NEW h \in Handlers PROVE SoundRow(req'[h].row)
  BY CopyChanges, SoundNew DEF CopyChange, Touched, Sound
<1>. QED  BY <1>1, <1>2 DEF Sound

\* Soundness holds in every reachable state.
LEMMA AlwaysSound == Spec => []Sound
<1>1. Init => Sound
  BY SoundNew DEF Init, Sound, IdleRequest
<1>. QED  BY <1>1, AlwaysTyped, SoundStep, PTL DEF Spec

\* However fetches of /boot, saves, imports and requests interleave, the bit
\* is set only under a policy that consumes it (_arm_flasher_boot).
THEOREM ArmedOnlyInCycleModesHolds == Spec => []ArmedOnlyInCycleModes
<1>1. Sound => ArmedOnlyInCycleModes
  BY DEF Sound, SoundRow, ArmedOnlyInCycleModes
<1>. QED  BY <1>1, AlwaysSound, PTL

\* However many handlers of GET /pxe/{mac} hold rows read long ago, each
\* sends its box to the disk after a flash only on a bit and a done recorded
\* under the policy it read.
THEOREM ExitNeedsEvidenceHolds == Spec => []ExitNeedsEvidence
<1>1. ASSUME Typed, NEW r \in Row, OfferFor(r) = "exit-after-flash"
      PROVE  FlashedSinceArmed(r)
  BY <1>1 DEF OfferFor, Flashable, FlashModes, BootModes, CycleModes, Row,
              Typed, TypeOK
<1>2. Typed /\ Sound => ExitNeedsEvidence
  BY <1>1 DEF Sound, SoundRow, ExitNeedsEvidence, FlashedSinceArmed, Typed,
              TypeOK, Request
<1>. QED  BY <1>2, AlwaysTyped, AlwaysSound, PTL

(***************************************************************************)
(* An unattended flash follows one save.                                    *)
(***************************************************************************)
Saved(r) ==
  r.boot_mode \in FlashModes => \E p \in Policies : SamePolicy(r, p)

SavedJob == Saved(row) /\ AutoFlashIsSaved

\* A new row holds no pair of image and disk that was not saved.
LEMMA SavedNew == Saved(NoRow) /\ Saved(Discovered)
  BY DEF Saved, NoRow, Discovered, FlashModes

\* Every change of the row leaves it with a saved pair.
LEMMA SavedRowStep == ASSUME Typed, Saved(row), RowChange PROVE Saved(row')
<1>. USE DEF Typed, TypeOK
<1>1. CASE row' \in {row, NoRow, Touched}
  BY <1>1, SavedNew DEF Touched
<1>2. CASE row' \in {Armed, Cleared, Flashed, Listed}
  BY <1>2 DEF Armed, Cleared, Flashed, Listed, Saved, SamePolicy, Row
<1>3. ASSUME NEW p \in Policies, row' = Upserted(p) PROVE Saved(row')
  BY <1>3 DEF Upserted, Saved, SamePolicy, Discovered
<1>4. ASSUME NEW listed \in BOOLEAN, row' = Imported(listed) PROVE Saved(row')
  BY <1>4 DEF Imported, Saved, Discovered, FlashModes
<1>. QED  BY <1>1, <1>2, <1>3, <1>4 DEF RowChange

\* Every step leaves the plan of the box a saved pair.
LEMMA SavedJobStep == Typed /\ SavedJob /\ [Next]_vars => SavedJob'
<1>. SUFFICES ASSUME Typed, SavedJob, [Next]_vars PROVE SavedJob'
  OBVIOUS
<1>. USE DEF SavedJob, AutoFlashIsSaved
<1>1. Saved(row')
  BY RowChanges, SavedRowStep
<1>2. CASE FetchPlan /\ Flashable(Touched)
  <2>1. box'.job = [image |-> Touched.bty_image_ref,
                    serial |-> Touched.target_disk_serial]
    BY <1>2 DEF FetchPlan, Flashable, FlashModes, Typed, TypeOK, Box
  <2>2. Saved(Touched) /\ Touched.boot_mode \in FlashModes
    BY <1>2, SavedNew DEF Touched, Flashable
  <2>. QED  BY <1>1, <2>1, <2>2 DEF Saved, SamePolicy
<1>3. CASE ~(FetchPlan /\ Flashable(Touched))
  <2>1. box'.auto => box.auto /\ box'.job = box.job
    <3>. USE DEF Typed, TypeOK, Box
    <3>1. ASSUME NEW h \in Handlers, Handle(h) \/ BoxRequest(h) \/ BoxRetry(h)
          PROVE  box'.auto = box.auto /\ box'.job = box.job
      BY <3>1 DEF Handle, PxeTouch, PxeOffer, BoxRequest, BoxRetry
    <3>2. CASE Deliver \/ Operator \/ UNCHANGED vars
      BY <3>2 DEF Deliver, RecordDone, RecordFailed, RecordInventory, Operator,
                  PutMachine, UiMachineUpsert, DeleteMachine, ImportMachine,
                  RefreshCatalog, ChangeExports, vars
    <3>3. CASE FetchPlan
      BY <1>3, <3>3 DEF FetchPlan, FlashModes
    <3>4. CASE FetchBoot
      BY <3>4 DEF FetchBoot
    <3>5. CASE StartBty \/ RefuseFlash \/ AutoReboot
      BY <3>5 DEF StartBty, RefuseFlash, AutoReboot
    <3>6. CASE ReportInventory \/ StartFlash \/ FinishFlash
      BY <3>6 DEF ReportInventory, StartFlash, FinishFlash
    <3>7. CASE PostAnswered
      <4>1. CASE box.auto
        BY <3>7, <4>1 DEF PostAnswered
      <4>2. CASE ~box.auto
        BY <3>7, <4>2 DEF PostAnswered
      <4>. QED  BY <4>1, <4>2
    <3>8. CASE MissPlan \/ FailFlash \/ PostTimesOut \/ Reboot
      <4>1. \E place \in BoxPlaces : box' = [box EXCEPT !.pc = place]
        BY <3>8 DEF MissPlan, FailFlash, PostTimesOut, Reboot, BoxPlaces
      <4>. QED  BY <4>1
    <3>9. CASE PowerCycle \/ AckFailure
      <4>1. CASE PowerCycle
        BY <4>1 DEF PowerCycle
      <4>2. CASE AckFailure
        BY <4>2 DEF AckFailure
      <4>. QED  BY <3>9, <4>1, <4>2
    <3>10. CASE ServerRestart
      BY <3>10 DEF ServerRestart
    <3>11. ASSUME NEW j \in Job, HandFlash(j) PROVE ~box'.auto
      BY <3>11 DEF HandFlash
    <3>12. ASSUME NEW k \in Signals, LosePost(k) PROVE box' = box
      BY <3>12 DEF LosePost
    <3>. QED  BY <3>1, <3>2, <3>3, <3>4, <3>5, <3>6, <3>7, <3>8, <3>9, <3>10,
                 <3>11, <3>12
              DEF Next, BoxStep, Surroundings
  <2>. QED  BY <1>1, <2>1
<1>. QED  BY <1>2, <1>3

\* No interleaving of saves, imports and plans makes the live env write the
\* image of one save on the disk of another.
THEOREM AutoFlashIsSavedHolds == Spec => []AutoFlashIsSaved
<1>1. Init => SavedJob
  BY SavedNew DEF Init, SavedJob, AutoFlashIsSaved
<1>2. SavedJob => AutoFlashIsSaved
  BY DEF SavedJob
<1>. QED  BY <1>1, <1>2, AlwaysTyped, SavedJobStep, PTL DEF Spec

(***************************************************************************)
(* A bty-flash-once box and its disk, when edits wait until the box rests,  *)
(* POSTs come before the next boot, an answered POST is heard in time and   *)
(* nobody flashes by hand.                                                  *)
(***************************************************************************)
Disciplined == {"rebind", "late", "timeout", "hand"} \cap Environment = {}

\* The disk that r names holds the image that r names.
Written(r) ==
  /\ r.target_disk_serial \in Disks
  /\ disk[r.target_disk_serial] = r.bty_image_ref

\* What a handler read is still the policy, and a completion it saw still
\* stands: nobody edits the row under a request.
CopiesAgree ==
  \A h \in Handlers : req[h].pc = "touched" =>
    /\ row.exists
    /\ SamePolicy(req[h].row, row)
    /\ req[h].row.last_flashed_at => row.last_flashed_at

\* The places of a box that has been sent to flash and has not finished.
ToFlash == {"kernel", "initrd", "boot", "live", "planned", "flashing"}
Served == (ToFlash \ {"kernel"}) \cup {"posted", "reposted"}
AtWork == {"planned", "flashing", "posted", "reposted"}

\* A box waits for one handler at most, and its done is on the way only after
\* a flash.
BoxAgrees ==
  /\ box.conn # None => box.pc = "wait"
  /\ net["done"] > 0 => box.pc \in {"posted", "reposted", "wizard", "off"}
  /\ box.pc \in AtWork \ {"planned"} => box.job.serial \in Disks

\* Under bty-flash-once: a box that is served is armed, works for the row, and
\* says done, or is recorded as done, only when the disk is written; then it
\* is not sent to flash again.
OnceAgrees ==
  row.boot_mode = "bty-flash-once" =>
    /\ row.exists
    /\ box.pc \in Served => row.saw_flasher_boot
    /\ net["done"] > 0 => row.saw_flasher_boot /\ Written(row)
    /\ row.last_flashed_at =>
         row.saw_flasher_boot /\ Written(row) /\ box.pc \notin ToFlash
    /\ box.pc \in AtWork => /\ box.job.image = row.bty_image_ref
                            /\ box.job.serial = row.target_disk_serial
    /\ box.pc \in {"posted", "reposted"} => Written(row)
    /\ \A h \in Handlers :
         box.conn = h /\ req[h].pc = "touched" /\ row.last_flashed_at =>
           req[h].row.last_flashed_at /\ req[h].row.saw_flasher_boot

OnceInv == CopiesAgree /\ BoxAgrees /\ OnceAgrees

\* The row as it goes on while nobody edits it.
Kept ==
  \/ row' \in {row, Touched, Armed, Cleared}
  \/ row.exists /\ row' \in {Flashed, Listed}

\* What a disciplined environment rules out.
LEMMA NoOther ==
  ASSUME Disciplined
  PROVE  /\ ~PostTimesOut /\ \A j \in Job : ~HandFlash(j)
         /\ \A h \in Handlers : BoxRequest(h) => Quiet
<1>1. "timeout" \notin Environment /\ "hand" \notin Environment /\ "late" \notin Environment
  BY DEF Disciplined
<1>2. ~PostTimesOut
  BY <1>1 DEF PostTimesOut, Fault
<1>3. ASSUME NEW j \in Job PROVE ~HandFlash(j)
  BY <1>1 DEF HandFlash
<1>4. ASSUME NEW h \in Handlers, BoxRequest(h) PROVE Quiet
  BY <1>1, <1>4 DEF BoxRequest
<1>. QED  BY <1>2, <1>3, <1>4

\* What edits leave alone.
LEMMA EditFrame == Operator => UNCHANGED <<req, net, box, disk>>
<1>1. ASSUME NEW p \in Policies, PutMachine(p) \/ UiMachineUpsert(p)
      PROVE  UNCHANGED <<req, net, box, disk>>
  BY <1>1 DEF PutMachine, UiMachineUpsert
<1>2. DeleteMachine => UNCHANGED <<req, net, box, disk>>
  BY DEF DeleteMachine
<1>3. ASSUME NEW listed \in BOOLEAN, ImportMachine(listed)
      PROVE  UNCHANGED <<req, net, box, disk>>
  BY <1>3 DEF ImportMachine
<1>4. ASSUME NEW s \in SUBSET Images, RefreshCatalog(s) \/ ChangeExports(s)
      PROVE  UNCHANGED <<req, net, box, disk>>
  BY <1>4 DEF RefreshCatalog, ChangeExports
<1>. QED  BY <1>1, <1>2, <1>3, <1>4 DEF Operator

\* An edit changes the row by a save, a deletion or an import, or not at all.
LEMMA EditedRow ==
  Operator => \/ row' \in {row, NoRow}
              \/ \E p \in Policies : row' = Upserted(p)
              \/ \E listed \in BOOLEAN : row' = Imported(listed)
<1>1. ASSUME NEW p \in Policies, PutMachine(p) \/ UiMachineUpsert(p)
      PROVE  row' = Upserted(p)
  BY <1>1 DEF PutMachine, UiMachineUpsert
<1>2. DeleteMachine => row' = NoRow
  BY DEF DeleteMachine
<1>3. ASSUME NEW listed \in BOOLEAN, ImportMachine(listed)
      PROVE  row' = Imported(listed)
  BY <1>3 DEF ImportMachine, Imported
<1>4. ASSUME NEW s \in SUBSET Images, RefreshCatalog(s) \/ ChangeExports(s)
      PROVE  row' = row
  BY <1>4 DEF RefreshCatalog, ChangeExports
<1>. QED  BY <1>1, <1>2, <1>3, <1>4 DEF Operator

\* In a disciplined environment the operator edits while the box rests.
LEMMA EditRests == ASSUME Disciplined, Operator PROVE Resting
<1>1. Edit => Resting
  BY DEF Edit, Disciplined
<1>2. ASSUME NEW p \in Policies, PutMachine(p) \/ UiMachineUpsert(p) PROVE Edit
  BY <1>2 DEF PutMachine, UiMachineUpsert
<1>3. DeleteMachine => Edit
  BY DEF DeleteMachine
<1>4. ASSUME NEW listed \in BOOLEAN, ImportMachine(listed) PROVE Edit
  BY <1>4 DEF ImportMachine
<1>5. ASSUME NEW s \in SUBSET Images, RefreshCatalog(s) \/ ChangeExports(s) PROVE Edit
  BY <1>5 DEF RefreshCatalog, ChangeExports
<1>. QED  BY <1>1, <1>2, <1>3, <1>4, <1>5 DEF Operator

\* What the box and its surroundings do to the row.
LEMMA QuietRow ==
  /\ BoxStep => row' \in {row, Touched, Armed}
  /\ Surroundings => row' \in {row, Touched}
<1>1. ASSUME NEW h \in Handlers, BoxRequest(h) \/ BoxRetry(h) PROVE row' = row
  BY <1>1 DEF BoxRequest, BoxRetry
<1>2. FetchBoot => row' \in {row, Armed}
  BY DEF FetchBoot
<1>3. FetchPlan \/ MissPlan => row' \in {row, Touched}
  BY DEF FetchPlan, MissPlan
<1>4. \/ StartBty \/ ReportInventory \/ StartFlash \/ RefuseFlash \/ FinishFlash
      \/ PostAnswered \/ AutoReboot
      => row' = row
  BY DEF StartBty, ReportInventory, StartFlash, RefuseFlash, FinishFlash,
         PostAnswered, AutoReboot, server
<1>5. PowerCycle \/ FailFlash \/ PostTimesOut \/ ServerRestart \/ AckFailure \/ Reboot
      => row' = row
  BY DEF PowerCycle, FailFlash, PostTimesOut, ServerRestart, AckFailure, Reboot, server
<1>6. ASSUME NEW j \in Job, HandFlash(j) PROVE row' = row
  BY <1>6 DEF HandFlash, server
<1>7. ASSUME NEW k \in Signals, LosePost(k) PROVE row' = row
  BY <1>7 DEF LosePost, server
<1>. QED  BY <1>1, <1>2, <1>3, <1>4, <1>5, <1>6, <1>7 DEF BoxStep, Surroundings

\* An edit finds the box at rest; every other step lets the row go on.
LEMMA EditOrKept ==
  ASSUME Disciplined, [Next]_vars
  PROVE  (Operator /\ Resting) \/ Kept
<1>1. ASSUME NEW h \in Handlers, Handle(h) PROVE Kept
  BY <1>1 DEF Handle, PxeTouch, PxeOffer, Cleared, Kept
<1>2. CASE Deliver
  BY <1>2 DEF Deliver, RecordDone, RecordFailed, RecordInventory, server,
              Flashed, Listed, Kept
<1>3. CASE Operator
  BY <1>3, EditRests
<1>4. CASE BoxStep \/ Surroundings
  BY <1>4, QuietRow DEF Kept
<1>6. CASE UNCHANGED vars
  BY <1>6 DEF vars, Kept
<1>. QED  BY <1>1, <1>2, <1>3, <1>4, <1>6 DEF Next

\* A row that goes on keeps its policy and its completion.
LEMMA KeptRow ==
  ASSUME Typed, Kept
  PROVE  /\ row.exists =>
              /\ row'.exists
              /\ SamePolicy(row, row')
              /\ row.last_flashed_at => row'.last_flashed_at
         /\ ~row.exists => row' \in {row, Discovered, Cleared}
<1>. USE DEF Typed, TypeOK, SamePolicy
<1>1. CASE row' \in {row, Touched}
  BY <1>1 DEF Touched
<1>2. CASE row' = Armed
  BY <1>2 DEF Armed, Row
<1>3. CASE row' = Cleared
  BY <1>3 DEF Cleared, Row
<1>4. CASE row.exists /\ row' = Flashed
  BY <1>4 DEF Flashed, Row
<1>5. CASE row.exists /\ row' = Listed
  BY <1>5 DEF Listed, Row
<1>. QED  BY <1>1, <1>2, <1>3, <1>4, <1>5 DEF Kept

\* A handler's copy is one it had, or the row it reads now.
LEMMA TouchedCopy ==
  ASSUME Typed, [Next]_vars, NEW h \in Handlers, req'[h].pc = "touched"
  PROVE  \/ req[h].pc = "touched" /\ req'[h].row = req[h].row
         \/ row' = Touched /\ req'[h].row = Touched /\ UNCHANGED <<box, net, disk>>
<1>. USE DEF Typed, TypeOK
<1>1. ASSUME NEW g \in Handlers, PxeTouch(g)
      PROVE  \/ req[h].pc = "touched" /\ req'[h].row = req[h].row
             \/ row' = Touched /\ req'[h].row = Touched /\ UNCHANGED <<box, net, disk>>
  BY <1>1 DEF PxeTouch
<1>2. ASSUME NEW g \in Handlers, PxeOffer(g) \/ BoxRequest(g) \/ BoxRetry(g)
      PROVE  req[h].pc = "touched" /\ req'[h].row = req[h].row
  BY <1>2 DEF PxeOffer, BoxRequest, BoxRetry, IdleRequest
<1>3. ~ServerRestart
  BY DEF ServerRestart, IdleRequest
<1>4. CASE UNCHANGED req
  BY <1>4
<1>6. Deliver => UNCHANGED req
  BY DEF Deliver, RecordDone, RecordFailed, RecordInventory, server
<1>7. Operator => UNCHANGED req
  BY EditFrame
<1>8. BoxStep => (\E g \in Handlers : BoxRequest(g)) \/ UNCHANGED req
  BY DEF BoxStep, FetchBoot, StartBty, FetchPlan, ReportInventory, StartFlash,
         RefuseFlash, FinishFlash, PostAnswered, AutoReboot, server
<1>9. Surroundings => \/ \E g \in Handlers : BoxRetry(g)
                      \/ ServerRestart
                      \/ UNCHANGED req
  <2>1. ASSUME NEW j \in Job, HandFlash(j) PROVE UNCHANGED req
    BY <2>1 DEF HandFlash, server
  <2>2. ASSUME NEW k \in Signals, LosePost(k) PROVE UNCHANGED req
    BY <2>2 DEF LosePost, server
  <2>3. PowerCycle \/ MissPlan \/ FailFlash \/ PostTimesOut \/ AckFailure \/ Reboot
          => UNCHANGED req
    BY DEF PowerCycle, MissPlan, FailFlash, PostTimesOut, AckFailure, Reboot, server
  <2>. QED  BY <2>1, <2>2, <2>3 DEF Surroundings
<1>. QED  BY <1>1, <1>2, <1>3, <1>4, <1>6, <1>7, <1>8, <1>9
          DEF Next, Handle, vars

\* Every step leaves what the handlers read in agreement with the row.
LEMMA CopiesStep ==
  ASSUME Disciplined, Typed, CopiesAgree, [Next]_vars
  PROVE  CopiesAgree'
<1>. SUFFICES ASSUME NEW h \in Handlers, req'[h].pc = "touched"
              PROVE  /\ row'.exists
                     /\ SamePolicy(req'[h].row, row')
                     /\ req'[h].row.last_flashed_at => row'.last_flashed_at
  BY DEF CopiesAgree, SamePolicy
<1>1. CASE row' = Touched /\ req'[h].row = Touched
  BY <1>1 DEF Touched, Discovered, SamePolicy
<1>2. CASE req[h].pc = "touched" /\ req'[h].row = req[h].row
  <2>1. ~(Operator /\ Resting)
    BY <1>2 DEF Resting, AllIdle
  <2>2. Kept
    BY <2>1, EditOrKept
  <2>. QED  BY <1>2, <2>2, KeptRow DEF CopiesAgree, SamePolicy
<1>. QED  BY <1>1, <1>2, TouchedCopy

\* The bit of a finished flash-once machine is kept by every step that leaves
\* its policy alone.
LEMMA TerminalStep ==
  ASSUME Disciplined, Typed, CopiesAgree, OnceAgrees, [Next]_vars,
         row.boot_mode = "bty-flash-once", row.saw_flasher_boot, row'.exists,
         SamePolicy(row, row')
  PROVE  row'.saw_flasher_boot
<1>. USE DEF Typed, TypeOK
<1>1. ASSUME NEW h \in Handlers, PxeOffer(h) PROVE row'.saw_flasher_boot
  BY <1>1 DEF PxeOffer, CopiesAgree, SamePolicy, ClearsBit, OfferFor, Flashable,
              FlashModes
<1>2. CASE row' \in {row, Touched}
  BY <1>2 DEF Touched, Discovered, SamePolicy
<1>3. CASE row' = Armed
  BY <1>3 DEF Armed, Row
<1>4. CASE row' \in {Flashed, Listed}
  BY <1>4 DEF Flashed, Listed, Row
<1>5. CASE Operator
  <2>1. CASE row' = row
    BY <2>1
  <2>2. ASSUME NEW p \in Policies, row' = Upserted(p) PROVE row'.saw_flasher_boot
    <3>1. CASE SamePolicy(row, p) /\ row.exists
      BY <2>2, <3>1 DEF Upserted
    <3>2. CASE ~(SamePolicy(row, p) /\ row.exists)
      <4>1. SamePolicy(row', p)
        BY <2>2, <3>2 DEF Upserted, SamePolicy, Discovered
      <4>. QED  BY <3>2, <4>1 DEF SamePolicy, OnceAgrees
    <3>. QED  BY <3>1, <3>2
  <2>3. ASSUME NEW listed \in BOOLEAN, row' = Imported(listed) PROVE FALSE
    BY <2>3 DEF Imported, SamePolicy, Discovered
  <2>4. row' # NoRow
    BY DEF NoRow, Discovered
  <2>. QED  BY <1>5, <2>1, <2>2, <2>3, <2>4, EditedRow
<1>6. ASSUME NEW h \in Handlers, PxeTouch(h) PROVE row' \in {row, Touched}
  BY <1>6 DEF PxeTouch
<1>7. Deliver => row' \in {row, Flashed, Listed}
  BY DEF Deliver, RecordDone, RecordFailed, RecordInventory, server, Flashed, Listed
<1>. QED  BY <1>1, <1>2, <1>3, <1>4, <1>5, <1>6, <1>7, QuietRow
          DEF Next, Handle, vars

\* Every step keeps box, handlers and POSTs in agreement.
LEMMA BoxAgreesStep ==
  ASSUME Disciplined, Typed, BoxAgrees, [Next]_vars
  PROVE  BoxAgrees'
<1>. USE DEF BoxAgrees, Typed, TypeOK, Box, Disciplined, Signals, AtWork
<1>1. ASSUME NEW h \in Handlers, Handle(h) PROVE BoxAgrees'
  BY <1>1 DEF Handle, PxeTouch, PxeOffer, PlaceAfter
<1>2. CASE Deliver
  BY <1>2 DEF Deliver, RecordDone, RecordFailed, RecordInventory, server
<1>3. CASE Operator
  BY <1>3, EditFrame
<1>4. ASSUME NEW h \in Handlers, BoxRequest(h) PROVE BoxAgrees'
  BY <1>4 DEF BoxRequest, Quiet
<1>5. CASE FetchBoot \/ FetchPlan \/ StartFlash \/ AutoReboot
  <2>1. CASE FetchBoot
    BY <2>1 DEF FetchBoot
  <2>2. CASE FetchPlan
    BY <2>2 DEF FetchPlan
  <2>3. CASE StartFlash
    BY <2>3 DEF StartFlash
  <2>4. CASE AutoReboot
    BY <2>4 DEF AutoReboot
  <2>. QED  BY <1>5, <2>1, <2>2, <2>3, <2>4
<1>6. CASE StartBty
  BY <1>6 DEF StartBty, Sent
<1>7. CASE ReportInventory
  BY <1>7 DEF ReportInventory, Sent
<1>8. CASE RefuseFlash
  BY <1>8 DEF RefuseFlash, Sent
<1>9. CASE FinishFlash
  BY <1>9 DEF FinishFlash, Sent
<1>10. CASE PostAnswered
  BY <1>10 DEF PostAnswered, Sent
<1>11. ASSUME NEW h \in Handlers, BoxRetry(h) PROVE BoxAgrees'
  BY <1>11 DEF BoxRetry
<1>12. CASE PowerCycle \/ MissPlan \/ FailFlash \/ Reboot
  <2>1. CASE PowerCycle
    BY <2>1 DEF PowerCycle
  <2>2. CASE MissPlan
    BY <2>2 DEF MissPlan
  <2>3. CASE FailFlash
    BY <2>3 DEF FailFlash
  <2>4. CASE Reboot
    BY <2>4 DEF Reboot
  <2>. QED  BY <1>12, <2>1, <2>2, <2>3, <2>4
<1>13. CASE AckFailure
  BY <1>13 DEF AckFailure, Sent
<1>14. CASE ServerRestart
  BY <1>14 DEF ServerRestart
<1>15. ~PostTimesOut /\ \A j \in Job : ~HandFlash(j)
  BY NoOther
<1>16. ASSUME NEW k \in Signals, LosePost(k) PROVE BoxAgrees'
  BY <1>16 DEF LosePost
<1>17. CASE UNCHANGED vars
  BY <1>17 DEF vars
<1>. QED  BY <1>1, <1>2, <1>3, <1>4, <1>5, <1>6, <1>7, <1>8, <1>9, <1>10, <1>11, <1>12,
             <1>13, <1>14, <1>15, <1>16, <1>17
          DEF Next, BoxStep, Surroundings

\* Steps that leave the row of a bty-flash-once box as it is.
LEMMA OnceRow ==
  ASSUME Typed, OnceAgrees, row.boot_mode = "bty-flash-once"
  PROVE  Touched = row
  BY DEF OnceAgrees, Touched

\* Every step keeps the row of a bty-flash-once box in agreement with the box.
LEMMA OnceStep ==
  ASSUME Disciplined, Typed, OnceInv, [Next]_vars
  PROVE  OnceAgrees'
<1>. USE DEF OnceInv
<1>b. /\ row \in Row /\ box \in Box /\ req \in [Handlers -> Request]
      /\ net \in [Signals -> 0..MaxPosts]
      /\ disk \in [Disks -> Images \cup {"blank", "partial"}]
  BY DEF Typed, TypeOK
<1>c. box.conn # None => box.pc = "wait"
  BY DEF BoxAgrees
<1>1. CASE Operator
  <2>1. Resting /\ UNCHANGED <<req, net, box, disk>>
    BY <1>1, EditRests, EditFrame
  <2>2. CASE row' = row
    BY <2>1, <2>2 DEF OnceAgrees, Written
  <2>3. CASE row'.boot_mode = "bty-flash-once" => row'.exists /\ ~row'.last_flashed_at
    BY <2>1, <2>3 DEF OnceAgrees, Resting, Quiet, Served, ToFlash, AtWork, Signals
  <2>4. ASSUME NEW p \in Policies, row' = Upserted(p), row' # row
        PROVE  row'.exists /\ ~row'.last_flashed_at
    BY <2>4 DEF Upserted, Discovered
  <2>5. ASSUME NEW listed \in BOOLEAN, row' = Imported(listed)
        PROVE  row'.boot_mode # "bty-flash-once"
    BY <2>5 DEF Imported, Discovered
  <2>6. row' = NoRow => row'.boot_mode # "bty-flash-once"
    BY DEF NoRow, Discovered
  <2>. QED  BY <1>1, <2>2, <2>3, <2>4, <2>5, <2>6, EditedRow
<1>2. ASSUME ~Operator, row'.boot_mode = "bty-flash-once" PROVE OnceAgrees'
  <2>1. Kept
    BY <1>2, EditOrKept
  <2>2. row.boot_mode = "bty-flash-once" /\ row.exists
    <3>1. CASE row.exists
      BY <1>2, <2>1, <3>1, KeptRow DEF SamePolicy
    <3>2. CASE ~row.exists
      <4>1. row'.boot_mode \in {row.boot_mode, "bty-inventory"}
        BY <1>b, <2>1, <3>2, KeptRow DEF Discovered, Cleared, Row
      <4>. QED  BY <1>2, <3>2, <4>1 DEF OnceAgrees
    <3>. QED  BY <3>1, <3>2
  <2>3. /\ Touched = row /\ SamePolicy(row, row') /\ row'.exists
        /\ row.last_flashed_at => row'.last_flashed_at
    BY <2>1, <2>2, OnceRow, KeptRow
  <2>4. row.saw_flasher_boot => row'.saw_flasher_boot
    BY <2>2, <2>3, TerminalStep
  <2>5. \A h \in Handlers : req[h].pc = "touched" =>
          SamePolicy(req[h].row, row)
    BY DEF CopiesAgree
  <2>. USE DEF OnceAgrees, Written
  <2>6. ASSUME NEW h \in Handlers, PxeTouch(h) PROVE OnceAgrees'
    BY <1>b, <2>2, <2>3, <2>6 DEF PxeTouch
  <2>7. ASSUME NEW h \in Handlers, PxeOffer(h) PROVE OnceAgrees'
    <3>1. /\ req[h].pc = "touched" /\ row' = row /\ UNCHANGED <<net, disk>>
          /\ req' = [req EXCEPT ![h] = IdleRequest]
      BY <2>2, <2>5, <2>7
         DEF PxeOffer, SamePolicy, ClearsBit, OfferFor, Flashable, FlashModes
    <3>2. CASE box.conn # h
      <4>1. box' = box
        BY <2>7, <3>2 DEF PxeOffer
      <4>. QED  BY <1>b, <2>2, <3>1, <4>1 DEF IdleRequest
    <3>3. CASE box.conn = h
      <4>1. box.pc = "wait"
        BY <1>c, <3>3
      <4>2. /\ box'.conn = None /\ box'.pc = PlaceAfter(OfferFor(req[h].row))
        BY <1>b, <2>7, <3>3 DEF PxeOffer, Box
      <4>3. box'.pc \in {"kernel", "ramkernel", "os"}
        BY <4>2 DEF PlaceAfter
      <4>4. net["done"] = 0
        BY <1>b, <4>1 DEF BoxAgrees, Signals
      <4>5. row.last_flashed_at => box'.pc # "kernel"
        <5>1. SUFFICES ASSUME row.last_flashed_at
                       PROVE  PlaceAfter(OfferFor(req[h].row)) # "kernel"
          BY <4>2
        <5>2. req[h].row.last_flashed_at /\ req[h].row.saw_flasher_boot
          BY <2>2, <3>1, <3>3, <5>1
        <5>3. req[h].row.boot_mode = "bty-flash-once"
          BY <2>2, <2>5, <3>1 DEF SamePolicy
        <5>4. OfferFor(req[h].row) \in {"exit-after-flash", "exit-fallback", "unknown"}
          BY <5>2, <5>3 DEF OfferFor, FlashedSinceArmed, FlashModes, Flashable
        <5>. QED  BY <5>4 DEF PlaceAfter
      <4>6. \A g \in Handlers : box'.conn # g
        BY <4>2, NetbootAssumption
      <4>. QED  BY <2>2, <3>1, <4>3, <4>4, <4>5, <4>6 DEF Served, ToFlash, AtWork
    <3>. QED  BY <3>2, <3>3
  <2>8. ASSUME RecordDone PROVE OnceAgrees'
    <3>1. row' = Flashed /\ UNCHANGED <<req, box, disk>>
      BY <2>2, <2>8 DEF RecordDone, Flashed
    <3>2. /\ row'.exists /\ row'.saw_flasher_boot = row.saw_flasher_boot
          /\ row'.target_disk_serial = row.target_disk_serial
          /\ row'.bty_image_ref = row.bty_image_ref
      BY <1>b, <2>2, <3>1 DEF Flashed, Row
    <3>3. net["done"] > 0 /\ (net'["done"] > 0 => net["done"] > 0)
      BY <2>8 DEF RecordDone
    <3>4. box.pc \in {"posted", "reposted", "wizard", "off"}
      BY <3>3 DEF BoxAgrees
    <3>5. \A h \in Handlers : box.conn # h
      BY <1>c, <3>4, NetbootAssumption
    <3>. QED  BY <2>2, <3>1, <3>2, <3>3, <3>4, <3>5 DEF Served, ToFlash, AtWork
  <2>9. ASSUME RecordFailed \/ \E k \in Signals : LosePost(k) PROVE OnceAgrees'
    <3>1. /\ UNCHANGED <<row, req, box, disk>>
          /\ net'["done"] > 0 => net["done"] > 0
      <4>1. CASE RecordFailed
        BY <1>b, <4>1 DEF RecordFailed, server, Signals
      <4>2. ASSUME NEW k \in Signals, LosePost(k)
            PROVE  /\ UNCHANGED <<row, req, box, disk>>
                   /\ net'["done"] > 0 => net["done"] > 0
        BY <1>b, <4>2 DEF LosePost, server, Signals
      <4>. QED  BY <2>9, <4>1, <4>2
    <3>. QED  BY <2>2, <3>1
  <2>10. ASSUME RecordInventory PROVE OnceAgrees'
    <3>1. row' = Listed /\ UNCHANGED <<req, box, disk>> /\ net'["done"] = net["done"]
      BY <1>b, <2>2, <2>10 DEF RecordInventory, Listed, Signals
    <3>2. /\ row'.exists /\ row'.saw_flasher_boot = row.saw_flasher_boot
          /\ row'.target_disk_serial = row.target_disk_serial
          /\ row'.bty_image_ref = row.bty_image_ref
          /\ row'.last_flashed_at = row.last_flashed_at
      BY <1>b, <2>2, <3>1 DEF Listed, Row
    <3>. QED  BY <2>2, <3>1, <3>2
  <2>11. ASSUME NEW h \in Handlers, BoxRequest(h) \/ BoxRetry(h) PROVE OnceAgrees'
    <3>1. /\ UNCHANGED <<row, net, disk>> /\ box'.pc = "wait" /\ box'.conn = h
          /\ req' = [req EXCEPT ![h] = [pc |-> "new", row |-> NoRow]]
      BY <1>b, <2>11 DEF BoxRequest, BoxRetry, Box
    <3>2. req'[h].pc = "new"
      BY <1>b, <3>1
    <3>. QED  BY <2>2, <3>1, <3>2 DEF Served, ToFlash, AtWork
  <2>12. ASSUME FetchBoot PROVE OnceAgrees'
    <3>1. row'.saw_flasher_boot \/ box.pc = "ramkernel"
      BY <1>b, <2>2, <2>12 DEF FetchBoot, Armed, CycleModes, FlashModes, Row
    <3>2. /\ row'.target_disk_serial = row.target_disk_serial
          /\ row'.bty_image_ref = row.bty_image_ref
          /\ row'.last_flashed_at = row.last_flashed_at
      BY <1>b, <2>2, <2>12 DEF FetchBoot, Armed, Row
    <3>3. /\ UNCHANGED <<req, net, disk>> /\ box.pc \in {"kernel", "initrd", "ramkernel"}
          /\ box'.conn = box.conn
          /\ \/ box.pc = "kernel" /\ box'.pc = "initrd"
             \/ box.pc = "initrd" /\ box'.pc = "boot"
             \/ box'.pc \in {"os", "off"}
      BY <1>b, <2>12 DEF FetchBoot, Box
    <3>4. \A h \in Handlers : box'.conn # h
      BY <1>c, <3>3, NetbootAssumption
    <3>. QED  BY <2>2, <2>3, <2>4, <3>1, <3>2, <3>3, <3>4 DEF Served, ToFlash, AtWork
  <2>13. ASSUME FetchPlan PROVE OnceAgrees'
    <3>1. row' = row /\ UNCHANGED <<req, net, disk>> /\ box.pc = "live"
          /\ box'.conn = box.conn
      BY <1>b, <2>3, <2>13 DEF FetchPlan, Box
    <3>2. \/ /\ box'.pc = "planned" /\ box'.job.image = row.bty_image_ref
             /\ box'.job.serial = row.target_disk_serial
          \/ box'.pc \in {"report", "wizard", "idle"}
      BY <1>b, <2>3, <2>13 DEF FetchPlan, Box
    <3>3. \A h \in Handlers : box'.conn # h
      BY <1>c, <3>1, NetbootAssumption
    <3>. QED  BY <2>2, <3>1, <3>2, <3>3 DEF Served, ToFlash, AtWork
  <2>14. ASSUME StartBty PROVE OnceAgrees'
    BY <1>b, <1>c, <2>2, <2>14 DEF StartBty, server, Sent, Box, Signals, Served, ToFlash, AtWork
  <2>15. ASSUME ReportInventory \/ RefuseFlash \/ AckFailure PROVE OnceAgrees'
    <3>1. UNCHANGED <<row, req, disk>>
      BY <2>15 DEF ReportInventory, RefuseFlash, AckFailure, server
    <3>2. net'["done"] = net["done"]
      BY <1>b, <2>15 DEF ReportInventory, RefuseFlash, AckFailure, Sent, Signals
    <3>3. box'.pc \in {"off", "wizard"} /\ box'.conn = box.conn
      BY <1>b, <2>15 DEF ReportInventory, RefuseFlash, AckFailure, Box
    <3>. QED  BY <2>2, <3>1, <3>2, <3>3 DEF Served, ToFlash, AtWork
  <2>16. ASSUME StartFlash PROVE OnceAgrees'
    <3>1. /\ UNCHANGED <<row, req, net>> /\ box.pc = "planned"
          /\ box'.pc = "flashing" /\ box'.conn = box.conn /\ box'.job = box.job
      BY <1>b, <2>16 DEF StartFlash, server, Box
    <3>2. ~row.last_flashed_at /\ ~(net["done"] > 0)
      BY <2>2, <3>1 DEF BoxAgrees, ToFlash
    <3>. QED  BY <2>2, <3>1, <3>2 DEF Served, ToFlash, AtWork
  <2>17. ASSUME FinishFlash PROVE OnceAgrees'
    <3>1. /\ UNCHANGED <<row, req>> /\ box.pc = "flashing" /\ box'.pc = "posted"
          /\ box'.conn = box.conn /\ box'.job = box.job
          /\ disk' = [disk EXCEPT ![box.job.serial] = box.job.image]
      BY <1>b, <2>17 DEF FinishFlash, server, Box
    <3>2. /\ box.job.image = row.bty_image_ref /\ box.job.serial = row.target_disk_serial
          /\ box.job.serial \in Disks /\ row.saw_flasher_boot /\ ~row.last_flashed_at
      BY <2>2, <3>1 DEF BoxAgrees, Served, ToFlash, AtWork
    <3>3. Written(row)'
      BY <1>b, <3>1, <3>2
    <3>. QED  BY <2>2, <3>1, <3>2, <3>3 DEF Served, ToFlash, AtWork
  <2>18. ASSUME PostAnswered PROVE OnceAgrees'
    <3>1. /\ UNCHANGED <<row, req, disk>> /\ box.pc = "posted" /\ box'.conn = box.conn
          /\ \/ box'.pc = "reposted" /\ box'.job = box.job
             \/ box'.pc = "wizard"
      BY <1>b, <2>18 DEF PostAnswered, server, Box
    <3>2. row.saw_flasher_boot /\ Written(row)
      BY <2>2, <3>1 DEF Served, ToFlash
    <3>. QED  BY <2>2, <3>1, <3>2 DEF Served, ToFlash, AtWork
  <2>19. ASSUME AutoReboot \/ PowerCycle \/ FailFlash \/ Reboot PROVE OnceAgrees'
    <3>1. UNCHANGED <<row, req, net, disk>>
      BY <2>19 DEF AutoReboot, PowerCycle, FailFlash, Reboot, server
    <3>2. box'.pc \in {"off", "ack"} /\ (box'.conn = box.conn \/ box'.conn = None)
      <4>1. AutoReboot => box'.pc = "off" /\ box'.conn = box.conn
        BY <1>b DEF AutoReboot, Box
      <4>2. PowerCycle => box'.pc = "off" /\ box'.conn = None
        BY DEF PowerCycle
      <4>3. FailFlash => box'.pc = "ack" /\ box'.conn = box.conn
        BY <1>b DEF FailFlash, Box
      <4>4. Reboot => box'.pc = "off" /\ box'.conn = box.conn
        BY <1>b DEF Reboot, Box
      <4>. QED  BY <2>19, <4>1, <4>2, <4>3, <4>4
    <3>3. \A h \in Handlers : box'.conn = h => box.conn = h
      BY <3>2, NetbootAssumption
    <3>. QED  BY <2>2, <3>1, <3>2, <3>3 DEF Served, ToFlash, AtWork
  <2>20. ASSUME MissPlan PROVE OnceAgrees'
    <3>1. /\ row' = row /\ UNCHANGED <<req, net, disk>>
          /\ box'.pc = "wizard" /\ box'.conn = box.conn
      BY <1>b, <2>3, <2>20 DEF MissPlan, Box
    <3>. QED  BY <2>2, <3>1 DEF Served, ToFlash, AtWork
  <2>21. ASSUME ServerRestart PROVE OnceAgrees'
    <3>1. /\ UNCHANGED <<row, disk>> /\ \A h \in Handlers : req'[h].pc = "idle"
          /\ net'["done"] > 0 => net["done"] > 0
          /\ box' = box \/ box'.pc = "off"
      BY <1>b, <2>21 DEF ServerRestart, IdleRequest, Box, Signals
    <3>. QED  BY <2>2, <3>1 DEF Served, ToFlash, AtWork
  <2>22. ASSUME UNCHANGED vars PROVE OnceAgrees'
    BY <2>22 DEF vars
  <2>. HIDE DEF OnceAgrees, Written
  <2>. QED  BY <1>2, <2>6, <2>7, <2>8, <2>9, <2>10, <2>11, <2>12, <2>13, <2>14, <2>15,
               <2>16, <2>17, <2>18, <2>19, <2>20, <2>21, <2>22, NoOther
            DEF Next, Handle, Deliver, BoxStep, Surroundings
<1>3. CASE row'.boot_mode # "bty-flash-once"
  BY <1>3 DEF OnceAgrees
<1>. QED  BY <1>1, <1>2, <1>3

\* The invariant of a disciplined environment.
LEMMA AlwaysOnce == ASSUME Disciplined PROVE Spec => []OnceInv
<1>1. Init => OnceInv
  <2>. SUFFICES ASSUME Init PROVE OnceInv
    OBVIOUS
  <2>1. CopiesAgree
    BY DEF Init, CopiesAgree, IdleRequest
  <2>2. BoxAgrees
    BY DEF Init, BoxAgrees, Signals, AtWork
  <2>3. OnceAgrees
    BY DEF Init, OnceAgrees, NoRow, Discovered
  <2>. QED  BY <2>1, <2>2, <2>3 DEF OnceInv
<1>2. Typed /\ OnceInv /\ [Next]_vars => OnceInv'
  BY CopiesStep, BoxAgreesStep, OnceStep DEF OnceInv
<1>. QED  BY <1>1, <1>2, AlwaysTyped, PTL DEF Spec

\* Whatever the power, lost POSTs, repeated requests and restarts of the
\* server do to a bty-flash-once box, for any images, disks and threads: it is
\* sent to its disk only when the bound image is on it, complete (pxe).
THEOREM NoHalfFlashedBootHolds ==
  ASSUME Disciplined
  PROVE  Spec => []NoHalfFlashedBoot
<1>1. ASSUME Typed, NEW r \in Row, OfferFor(r) = "exit-after-flash"
      PROVE  r.last_flashed_at
  BY <1>1 DEF OfferFor, Flashable, FlashModes, BootModes, CycleModes, Row,
              Typed, TypeOK, FlashedSinceArmed
<1>2. ASSUME Typed, OnceInv PROVE NoHalfFlashedBoot
  <2>. SUFFICES ASSUME NEW h \in Handlers, req[h].pc = "touched",
                       req[h].row.boot_mode = "bty-flash-once",
                       OfferFor(req[h].row) = "exit-after-flash"
                PROVE  Written(req[h].row)
    BY DEF NoHalfFlashedBoot, Written
  <2>1. req[h].row \in Row
    BY <1>2 DEF Typed, TypeOK, Request
  <2>2. /\ req[h].row.last_flashed_at /\ SamePolicy(req[h].row, row)
        /\ row.last_flashed_at
    BY <1>1, <1>2, <2>1 DEF OnceInv, CopiesAgree
  <2>. QED  BY <1>2, <2>2 DEF OnceInv, OnceAgrees, Written, SamePolicy
<1>. QED  BY <1>2, AlwaysTyped, AlwaysOnce, PTL

\* The bit of a bty-flash-once row is kept until the operator changes the policy.
TerminalBitKept ==
  [][ /\ row.boot_mode = "bty-flash-once"
      /\ row.saw_flasher_boot
      /\ row'.exists
      /\ SamePolicy(row, row')
      => row'.saw_flasher_boot ]_vars

\* The bit that ends the cycle of a bty-flash-once box is kept until its policy
\* changes, however slow a handler is (pxe, "KEEP the bit").
THEOREM TerminalBitKeptHolds ==
  ASSUME Disciplined
  PROVE  Spec => TerminalBitKept
<1> DEFINE Keeps == /\ row.boot_mode = "bty-flash-once"
                    /\ row.saw_flasher_boot
                    /\ row'.exists
                    /\ SamePolicy(row, row')
                    => row'.saw_flasher_boot
<1>1. Typed /\ OnceInv /\ [Next]_vars => [Keeps]_vars
  BY TerminalStep DEF OnceInv
<1>2. TerminalBitKept <=> [][Keeps]_vars
  BY DEF TerminalBitKept
<1>. QED  BY <1>1, <1>2, AlwaysTyped, AlwaysOnce, PTL DEF Spec

(***************************************************************************)
(* What a bty-flash-once save promises.                                     *)
(***************************************************************************)
\* A box that boots from its export is not bound to be flashed.
RamAgrees == box.pc = "ramkernel" => row.boot_mode # "bty-flash-once"

\* The order of a row names an image and a disk, or there is none.
LEMMA OrderTyped ==
  ASSUME NEW r \in Row
  PROVE  \/ OrderOf(r) = Promise!NoOrder
         \/ /\ OrderOf(r) # Promise!NoOrder
            /\ r.exists /\ r.boot_mode = "bty-flash-once"
            /\ r.bty_image_ref \in Images /\ r.target_disk_serial \in Serials
            /\ OrderOf(r) = [image |-> r.bty_image_ref, serial |-> r.target_disk_serial,
                             done |-> r.last_flashed_at]
<1>1. CASE /\ r.exists /\ r.boot_mode = "bty-flash-once"
           /\ r.bty_image_ref # None /\ r.target_disk_serial # None
  <2>1. r.bty_image_ref \in Images /\ r.target_disk_serial \in Serials
    BY <1>1 DEF Row
  <2>2. OrderOf(r) = [image |-> r.bty_image_ref, serial |-> r.target_disk_serial,
                      done |-> r.last_flashed_at]
    BY <1>1 DEF OrderOf
  <2>3. OrderOf(r) # Promise!NoOrder
    BY <1>1, <2>2 DEF Promise!NoOrder
  <2>. QED  BY <1>1, <2>1, <2>2, <2>3
<1>2. CASE ~(/\ r.exists /\ r.boot_mode = "bty-flash-once"
             /\ r.bty_image_ref # None /\ r.target_disk_serial # None)
  BY <1>2 DEF OrderOf, Promise!NoOrder
<1>. QED  BY <1>1, <1>2

\* Arming, clearing, a disk list and a request of a new box leave the order
\* as it is.
LEMMA OrderStays ==
  ASSUME Typed, row' \in {row, Touched, Armed, Cleared} \/ (row.exists /\ row' = Listed)
  PROVE  OrderOf(row') = OrderOf(row)
<1>. USE DEF Typed, TypeOK, OrderOf
<1>1. CASE row' \in {row, Touched}
  BY <1>1 DEF Touched, Discovered
<1>2. CASE row' = Armed
  BY <1>2 DEF Armed, Row
<1>3. CASE row' = Cleared
  BY <1>3 DEF Cleared, Row
<1>4. CASE row' = Listed
  BY <1>4 DEF Listed, Row
<1>. QED  BY <1>1, <1>2, <1>3, <1>4

\* No step brings a box that is bound to be flashed to an export.
LEMMA RamStep ==
  ASSUME Disciplined, Typed, OnceInv, RamAgrees, [Next]_vars
  PROVE  RamAgrees'
<1>. SUFFICES ASSUME box'.pc = "ramkernel" PROVE row'.boot_mode # "bty-flash-once"
  BY DEF RamAgrees
<1>a. row \in Row /\ box \in Box
  BY DEF Typed, TypeOK
<1>1. \/ box.pc = "ramkernel"
      \/ \E h \in Handlers : PxeOffer(h) /\ OfferFor(req[h].row) = "ramboot"
  <2>1. ASSUME NEW h \in Handlers, PxeOffer(h), box.pc # "ramkernel"
        PROVE  OfferFor(req[h].row) = "ramboot"
    BY <1>a, <2>1 DEF PxeOffer, Box, PlaceAfter
  <2>2. ASSUME NEW h \in Handlers, PxeTouch(h) \/ BoxRequest(h) \/ BoxRetry(h)
        PROVE  box.pc = "ramkernel"
    BY <1>a, <2>2 DEF PxeTouch, BoxRequest, BoxRetry, Box
  <2>3. Deliver \/ UNCHANGED vars => box.pc = "ramkernel"
    BY DEF Deliver, RecordDone, RecordFailed, RecordInventory, vars
  <2>4. Operator => box.pc = "ramkernel"
    BY EditFrame
  <2>5. ~FetchBoot /\ ~FetchPlan
    BY <1>a DEF FetchBoot, FetchPlan, Box
  <2>6. ~(StartBty \/ ReportInventory \/ StartFlash \/ RefuseFlash \/ FinishFlash)
    BY <1>a DEF StartBty, ReportInventory, StartFlash, RefuseFlash, FinishFlash, Box
  <2>7. ~(PostAnswered \/ AutoReboot \/ FailFlash \/ AckFailure \/ Reboot)
    BY <1>a DEF PostAnswered, AutoReboot, FailFlash, AckFailure, Reboot, Box
  <2>10. ~PowerCycle /\ ~MissPlan
    BY <1>a DEF PowerCycle, MissPlan, Box
  <2>8. ServerRestart => box.pc = "ramkernel"
    BY <1>a DEF ServerRestart, Box
  <2>9. ASSUME NEW k \in Signals, LosePost(k) PROVE box.pc = "ramkernel"
    BY <2>9 DEF LosePost
  <2>. QED  BY <2>1, <2>2, <2>3, <2>4, <2>5, <2>6, <2>7, <2>8, <2>9, <2>10, NoOther
            DEF Next, Handle, BoxStep, Surroundings
<1>2. row.boot_mode # "bty-flash-once" /\ Kept
  <2>1. CASE box.pc = "ramkernel"
    BY <2>1, EditOrKept DEF RamAgrees, Resting
  <2>2. ASSUME NEW h \in Handlers, PxeOffer(h), OfferFor(req[h].row) = "ramboot"
        PROVE  row.boot_mode # "bty-flash-once" /\ Kept
    <3>1. req[h].pc = "touched" /\ row' \in {row, Cleared}
      BY <2>2 DEF PxeOffer, Cleared
    <3>2. req[h].row.boot_mode # "bty-flash-once"
      BY <2>2 DEF OfferFor, FlashModes
    <3>. QED  BY <3>1, <3>2 DEF OnceInv, CopiesAgree, SamePolicy, Kept
  <2>. QED  BY <1>1, <2>1, <2>2
<1>3. row'.boot_mode \in {row.boot_mode, "bty-inventory"}
  BY <1>a, <1>2, KeptRow DEF SamePolicy, Discovered, Cleared, Row
<1>. QED  BY <1>2, <1>3

\* A step that leaves disks, orders and images alone, and the box not on its
\* disk, is at most a box that leaves it.
LEMMA QuietPromise ==
  ASSUME OrderOf(row') = OrderOf(row), UNCHANGED <<disk, catalog>>, box'.pc # "os"
  PROVE  Promise!Next
  BY DEF Promise!Next, Promise!Leave

\* A box that is sent to its disk by GET /pxe/{mac}.
LEMMA OfferPromise ==
  ASSUME Typed, OnceInv, NEW h \in Handlers, PxeOffer(h)
  PROVE  Promise!Next \/ UNCHANGED Promise!vars
<1>. USE DEF Typed, TypeOK
<1>1. /\ req[h].pc = "touched" /\ row' \in {row, Cleared}
      /\ UNCHANGED <<disk, catalog>> /\ OrderOf(row') = OrderOf(row)
  <2>1. req[h].pc = "touched" /\ row' \in {row, Cleared} /\ UNCHANGED <<disk, catalog>>
    BY DEF PxeOffer, Cleared
  <2>. QED  BY <2>1, OrderStays
<1>2. CASE box.conn # h
  BY <1>1, <1>2 DEF PxeOffer, Promise!vars
<1>3. CASE box.conn = h /\ box'.pc # "os"
  BY <1>1, <1>3, QuietPromise
<1>4. CASE box.conn = h /\ box'.pc = "os"
  <2> DEFINE r == req[h].row
  <2>1. r \in Row /\ SamePolicy(r, row) /\ (r.last_flashed_at => row.last_flashed_at)
    BY <1>1 DEF OnceInv, CopiesAgree, Request
  <2>2. PlaceAfter(OfferFor(r)) = "os"
    BY <1>4 DEF PxeOffer, Box
  <2>3. OfferFor(r) \notin {"bty-tui", "bty-inventory", "flash", "ramboot"}
    BY <2>2 DEF PlaceAfter
  <2>4. ASSUME OrderOf(row) # Promise!NoOrder, OrderOf(row).image \in catalog
        PROVE  OrderOf(row).done /\ Promise!Carried
    <3>1. /\ row.boot_mode = "bty-flash-once" /\ row.bty_image_ref \in catalog
          /\ row.target_disk_serial \in Serials
          /\ OrderOf(row) = [image |-> row.bty_image_ref, serial |-> row.target_disk_serial,
                             done |-> row.last_flashed_at]
      BY <2>4, OrderTyped
    <3>2. /\ r.boot_mode = "bty-flash-once" /\ r.target_disk_serial # None
          /\ r.bty_image_ref \in catalog
      BY <2>1, <3>1 DEF SamePolicy
    <3>3. Flashable(r)
      BY <3>2 DEF Flashable, FlashModes
    <3>4. FlashedSinceArmed(r)
      BY <2>3, <3>2, <3>3 DEF OfferFor
    <3>5. row.last_flashed_at
      BY <2>1, <3>4 DEF FlashedSinceArmed
    <3>6. Written(row)
      BY <3>1, <3>5 DEF OnceInv, OnceAgrees
    <3>. QED  BY <3>1, <3>5, <3>6 DEF Written, Promise!Carried
  <2>5. Promise!Boot
    BY <1>1, <1>4, <2>4 DEF Promise!Boot
  <2>. QED  BY <2>5 DEF Promise!Next
<1>. QED  BY <1>2, <1>3, <1>4

\* A completion that is recorded.
LEMMA DonePromise ==
  ASSUME Typed, OnceInv, RecordDone
  PROVE  Promise!Next \/ UNCHANGED Promise!vars
<1>. USE DEF Typed, TypeOK
<1>1. UNCHANGED <<disk, catalog, box>> /\ net["done"] > 0
      /\ row' = IF row.exists THEN Flashed ELSE row
  BY DEF RecordDone, Flashed
<1>2. CASE OrderOf(row) = Promise!NoOrder
  <2>1. OrderOf(row') = OrderOf(row)
    <3>1. CASE row.exists
      <4>1. ~(row.boot_mode = "bty-flash-once" /\ row.bty_image_ref # None
              /\ row.target_disk_serial # None)
        BY <1>2, <3>1 DEF OrderOf, Promise!NoOrder
      <4>2. /\ row'.boot_mode = row.boot_mode /\ row'.bty_image_ref = row.bty_image_ref
            /\ row'.target_disk_serial = row.target_disk_serial
        BY <1>1, <3>1 DEF Flashed, Row
      <4>. QED  BY <4>1, <4>2 DEF OrderOf
    <3>2. CASE ~row.exists
      BY <1>1, <3>2
    <3>. QED  BY <3>1, <3>2
  <2>. QED  BY <1>1, <2>1 DEF Promise!vars
<1>3. CASE OrderOf(row) # Promise!NoOrder
  <2>1. /\ row.exists /\ row.boot_mode = "bty-flash-once"
        /\ row.bty_image_ref \in Images /\ row.target_disk_serial \in Serials
        /\ OrderOf(row) = [image |-> row.bty_image_ref, serial |-> row.target_disk_serial,
                           done |-> row.last_flashed_at]
    BY <1>3, OrderTyped
  <2>2. row' = Flashed
    BY <1>1, <2>1
  <2>3. OrderOf(row') = [image |-> OrderOf(row).image, serial |-> OrderOf(row).serial,
                         done |-> TRUE]
    <3>1. /\ row'.exists /\ row'.boot_mode = "bty-flash-once"
          /\ row'.bty_image_ref = row.bty_image_ref
          /\ row'.target_disk_serial = row.target_disk_serial /\ row'.last_flashed_at = TRUE
      BY <2>1, <2>2 DEF Flashed, Row
    <3>2. OrderOf(row') = [image |-> row.bty_image_ref, serial |-> row.target_disk_serial,
                           done |-> TRUE]
      BY <2>1, <3>1 DEF OrderOf
    <3>. QED  BY <2>1, <3>2
  <2>4. Written(row)
    BY <1>1, <2>1 DEF OnceInv, OnceAgrees
  <2>5. Promise!Close
    BY <1>1, <1>3, <2>1, <2>3, <2>4 DEF Promise!Close, Promise!Carried, Written
  <2>. QED  BY <2>5 DEF Promise!Next
<1>. QED  BY <1>2, <1>3

\* An edit of the operator.
LEMMA EditPromise ==
  ASSUME Typed, Typed', Operator
  PROVE  Promise!Next \/ UNCHANGED Promise!vars
<1>. USE DEF Typed, TypeOK
<1>1. UNCHANGED <<box, disk>>
  BY EditFrame
<1>2. ASSUME NEW found \in SUBSET Images, RefreshCatalog(found)
      PROVE  Promise!Resolve
  BY <1>1, <1>2 DEF RefreshCatalog, Promise!Resolve
<1>3. CASE catalog' = catalog
  <2>1. CASE row' = row
    BY <1>1, <1>3, <2>1 DEF Promise!vars
  <2>2. CASE row' # row
    <3>1. ~row'.last_flashed_at
      <4>1. ASSUME NEW p \in Policies, row' = Upserted(p) PROVE ~row'.last_flashed_at
        BY <2>2, <4>1 DEF Upserted, Discovered
      <4>2. ASSUME NEW listed \in BOOLEAN, row' = Imported(listed)
            PROVE  ~row'.last_flashed_at
        BY <4>2 DEF Imported, Discovered
      <4>3. ~NoRow.last_flashed_at
        BY DEF NoRow, Discovered
      <4>. QED  BY <2>2, <4>1, <4>2, <4>3, EditedRow
    <3>2. ASSUME NEW r \in Row, ~r.last_flashed_at
          PROVE  OrderOf(r) \in Promise!NewOrders \cup {Promise!NoOrder}
      <4>1. CASE OrderOf(r) = Promise!NoOrder
        BY <4>1
      <4>2. CASE OrderOf(r) # Promise!NoOrder
        <5>1. r.last_flashed_at = FALSE
          BY <3>2 DEF Row
        <5>2. /\ r.bty_image_ref \in Images /\ r.target_disk_serial \in Serials
              /\ OrderOf(r) = [image |-> r.bty_image_ref, serial |-> r.target_disk_serial,
                               done |-> FALSE]
          BY <3>2, <4>2, <5>1, OrderTyped
        <5>. QED  BY <5>2 DEF Promise!NewOrders
      <4>. QED  BY <4>1, <4>2
    <3>4. OrderOf(row') \in Promise!NewOrders \cup {Promise!NoOrder}
      BY <3>1, <3>2
    <3>3. Promise!Place
      BY <1>1, <1>3, <3>4 DEF Promise!Place
    <3>. QED  BY <3>3 DEF Promise!Next
  <2>. QED  BY <2>1, <2>2
<1>4. catalog' = catalog \/ \E found \in SUBSET Images : RefreshCatalog(found)
  <2>1. ASSUME NEW p \in Policies, PutMachine(p) \/ UiMachineUpsert(p) PROVE catalog' = catalog
    BY <2>1 DEF PutMachine, UiMachineUpsert
  <2>2. ASSUME NEW listed \in BOOLEAN, ImportMachine(listed) PROVE catalog' = catalog
    BY <2>2 DEF ImportMachine
  <2>3. ASSUME NEW ready \in SUBSET Images, ChangeExports(ready) PROVE catalog' = catalog
    BY <2>3 DEF ChangeExports
  <2>4. DeleteMachine => catalog' = catalog
    BY DEF DeleteMachine
  <2>. QED  BY <2>1, <2>2, <2>3, <2>4 DEF Operator
<1>. QED  BY <1>2, <1>3, <1>4 DEF Promise!Next

\* A write of the disk begins or ends.
LEMMA WritePromise ==
  ASSUME Typed, OnceInv, StartFlash \/ FinishFlash
  PROVE  Promise!Next
<1>. USE DEF Typed, TypeOK
<1>1. PICK what \in {"partial", box.job.image} :
        /\ disk' = [disk EXCEPT ![box.job.serial] = what]
        /\ UNCHANGED <<row, catalog>>
  BY DEF StartFlash, FinishFlash, server
<1>2. /\ box.pc \in {"planned", "flashing"} /\ box'.pc \in {"flashing", "posted"}
      /\ box.job.serial \in Disks
  BY DEF StartFlash, FinishFlash, Box, OnceInv, BoxAgrees, AtWork
<1>3. box.job \in Job
  BY <1>2 DEF HasJob
<1>4. ASSUME OrderOf(row) # Promise!NoOrder
      PROVE  ~OrderOf(row).done /\ box.job.serial = OrderOf(row).serial
             /\ box.job.image = OrderOf(row).image
  <2>1. /\ row.boot_mode = "bty-flash-once"
        /\ OrderOf(row) = [image |-> row.bty_image_ref, serial |-> row.target_disk_serial,
                           done |-> row.last_flashed_at]
    BY <1>4, OrderTyped
  <2>. QED  BY <1>2, <2>1 DEF OnceInv, OnceAgrees, AtWork, ToFlash
<1>5. what \in Images \cup {"partial"}
  BY <1>3 DEF Job
<1>6. Promise!Write(box.job.serial, what)
  BY <1>1, <1>2, <1>4 DEF Promise!Write
<1>. QED  BY <1>2, <1>5, <1>6 DEF Promise!Next

\* Every step of a disciplined environment is a step of the promise, or
\* changes nothing it speaks of.
LEMMA PromiseStep ==
  ASSUME Disciplined, Typed, Typed', OnceInv, RamAgrees, [Next]_vars
  PROVE  Promise!Next \/ UNCHANGED Promise!vars
<1>a. row \in Row /\ box \in Box
  BY DEF Typed, TypeOK
<1>1. ASSUME NEW h \in Handlers, PxeTouch(h) PROVE UNCHANGED Promise!vars
  BY <1>1, OrderStays DEF PxeTouch, Promise!vars
<1>2. CASE RecordFailed
  BY <1>2 DEF RecordFailed, server, Promise!vars
<1>3. CASE RecordInventory
  BY <1>3, OrderStays DEF RecordInventory, Listed, Promise!vars
<1>4. ASSUME NEW h \in Handlers, BoxRequest(h) \/ BoxRetry(h) PROVE UNCHANGED Promise!vars
  BY <1>a, <1>4 DEF BoxRequest, BoxRetry, Box, Promise!vars
<1>5. CASE FetchBoot
  <2>1. OrderOf(row') = OrderOf(row) /\ UNCHANGED <<disk, catalog>>
    BY <1>5, OrderStays DEF FetchBoot
  <2>2. CASE box'.pc = "os"
    <3>1. row.boot_mode # "bty-flash-once"
      BY <1>5, <1>a, <2>2 DEF FetchBoot, Box, RamAgrees
    <3>2. OrderOf(row) = Promise!NoOrder
      BY <1>a, <3>1, OrderTyped
    <3>3. Promise!Boot
      BY <2>1, <2>2, <3>2 DEF Promise!Boot
    <3>. QED  BY <3>3 DEF Promise!Next
  <2>. QED  BY <2>1, <2>2, QuietPromise
<1>6. CASE StartBty \/ ReportInventory \/ RefuseFlash \/ PostAnswered \/ AutoReboot
  <2>1. UNCHANGED <<row, disk, catalog>>
    BY <1>6 DEF StartBty, ReportInventory, RefuseFlash, PostAnswered, AutoReboot, server
  <2>2. box'.pc # "os"
    BY <1>6, <1>a DEF StartBty, ReportInventory, RefuseFlash, PostAnswered, AutoReboot, Box
  <2>. QED  BY <2>1, <2>2, QuietPromise
<1>7. CASE FetchPlan
  <2>1. OrderOf(row') = OrderOf(row) /\ UNCHANGED <<disk, catalog>>
    BY <1>7, OrderStays DEF FetchPlan
  <2>2. box'.pc # "os"
    BY <1>7, <1>a DEF FetchPlan, Box
  <2>. QED  BY <2>1, <2>2, QuietPromise
<1>8. CASE MissPlan
  <2>1. OrderOf(row') = OrderOf(row) /\ UNCHANGED <<disk, catalog>>
    BY <1>8, OrderStays DEF MissPlan
  <2>2. box'.pc # "os"
    BY <1>8, <1>a DEF MissPlan, Box
  <2>. QED  BY <2>1, <2>2, QuietPromise
<1>9. CASE PowerCycle \/ FailFlash \/ AckFailure \/ Reboot
  <2>1. UNCHANGED <<row, disk, catalog>>
    BY <1>9 DEF PowerCycle, FailFlash, AckFailure, Reboot, server
  <2>2. box'.pc # "os"
    <3>1. PowerCycle => box'.pc # "os"
      BY DEF PowerCycle
    <3>2. FailFlash \/ AckFailure \/ Reboot => box'.pc # "os"
      BY <1>a DEF FailFlash, AckFailure, Reboot, Box
    <3>. QED  BY <1>9, <3>1, <3>2
  <2>. QED  BY <2>1, <2>2, QuietPromise
<1>10. CASE ServerRestart
  <2>1. UNCHANGED <<row, disk>> /\ ((box'.pc = "os") <=> (box.pc = "os"))
    BY <1>10, <1>a DEF ServerRestart, Box
  <2>2. catalog' \in SUBSET Images
    BY DEF Typed, TypeOK
  <2>3. Promise!Resolve
    BY <2>1, <2>2 DEF Promise!Resolve
  <2>. QED  BY <2>3 DEF Promise!Next
<1>11. ASSUME NEW k \in Signals, LosePost(k) PROVE UNCHANGED Promise!vars
  BY <1>11 DEF LosePost, server, Promise!vars
<1>12. CASE UNCHANGED vars
  BY <1>12 DEF vars, Promise!vars
<1>. QED  BY <1>1, <1>2, <1>3, <1>4, <1>5, <1>6, <1>7, <1>8, <1>9, <1>10, <1>11, <1>12,
             OfferPromise, DonePromise, EditPromise, WritePromise, NoOther
          DEF Next, Handle, Deliver, BoxStep, Surroundings

\* A bty-flash-once save is carried out as FlashOrder promises, for any images,
\* disks and threads, whatever power losses, lost POSTs, repeated requests,
\* failed writes and restarts of the server do in between (pxe, the terminal
\* state of bty-flash-once).
THEOREM FlashedOnceHolds ==
  ASSUME Disciplined
  PROVE  Spec => FlashedOnce
<1>1. Init => Promise!Init /\ RamAgrees
  BY DEF Init, NoRow, Discovered, OrderOf, Promise!Init, Promise!NoOrder, RamAgrees
<1>2. Typed /\ OnceInv /\ RamAgrees /\ [Next]_vars => RamAgrees'
  BY RamStep
<1>3. Typed /\ Typed' /\ OnceInv /\ RamAgrees /\ [Next]_vars => [Promise!Next]_(Promise!vars)
  BY PromiseStep
<1>. QED  BY <1>1, <1>2, <1>3, AlwaysTyped, AlwaysOnce, PTL
          DEF Spec, FlashedOnce, Promise!Spec
=============================================================================
