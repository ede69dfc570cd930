----------------------------- MODULE FlashPipeline -----------------------------
(***************************************************************************)
(* One call of execute_plan after the other: the processes of a streaming   *)
(* write and the pipes between them, the watchdog, the verdict.            *)
(*                                                                          *)
(* An image is Chunks long; a pipe holds Cap chunks.  A process that writes *)
(* to a pipe nobody reads is killed by SIGPIPE; one that reads from a pipe  *)
(* nobody writes to sees its end.  The caller keeps a read end of a pipe    *)
(* until it has handed the pipe over, so that until then nobody sees a      *)
(* SIGPIPE there.                                                           *)
(*                                                                          *)
(* Environment names the faults: "net" curl fails, "short" the server ends  *)
(* the body early and curl does not notice, "corrupt" the bytes are damaged *)
(* on the way, "kill" a process is killed, "disk" the disk cannot be        *)
(* written, "missing" a program or the registry is missing, "mount" a disk  *)
(* gets mounted, "swap" the names of the disks change.                      *)
(***************************************************************************)
EXTENDS Naturals, FiniteSets

CONSTANTS
  Paths,        \* the names of disks: /dev/sda, ...
  Disks, NoDisk,
  Capacity,     \* Capacity[d]: the chunks disk d has room for
  Images,       \* records [url, fmt, digest]
  Setups,       \* the names and the mounts a behaviour may start with
  Chunks, Cap,
  Environment,
  MaxFaults     \* bound on the faults of a behaviour, each of another kind

Formats == {"img", "packed", "qcow2", "other"}

ASSUME FlashAssumption ==
  /\ NoDisk \notin Disks
  /\ Capacity \in [Disks -> Nat]
  /\ Setups \subseteq [at : [Paths -> Disks \cup {NoDisk}], mounted : SUBSET Disks]
  /\ Images \subseteq [url : BOOLEAN, fmt : Formats, digest : BOOLEAN]
  /\ Chunks \in Nat \ {0} /\ Cap \in Nat \ {0} /\ MaxFaults \in Nat

VARIABLES
  call,      \* pc, img, path and the disk that was opened
  stage,     \* stage[s]: the process s of the pipeline
  sent,      \* sent[s]: the chunks it has passed on
  held,      \* the processes whose output the caller still holds a read end of
  corrupt,   \* the bytes are not the image's
  watchdog,  \* "off", "on", or it has seen the request and kills
  asked,     \* "no", "signalled" (Ctrl+C), or cancel() is true
  content,   \* content[d]: what disk d holds
  at,        \* at[p]: the disk named p
  mounted,   \* the disks in use
  faults

pipeline == <<stage, sent, held, corrupt>>
surroundings == <<at, mounted>>
vars == <<call, pipeline, watchdog, asked, content, surroundings, faults>>

Line == {"curl", "meter", "tee", "unpack", "dd"}
Stages == Line \cup {"sha"}
Rank == [curl |-> 1, meter |-> 2, tee |-> 3, sha |-> 3, unpack |-> 4, dd |-> 5]
Ended == {"ok", "bad"}
Busy == {"probe", "spawn", "unwind", "run", "convert", "converted", "settle"}
Verdicts == {"ok", "failed", "cancelled", "crashed"}
NoImage == [url |-> FALSE, fmt |-> "other", digest |-> FALSE]

FlashTypeOK ==
  /\ call \in [pc : {"idle"} \cup Busy \cup Verdicts, img : Images \cup {NoImage},
               path : Paths, disk : Disks \cup {NoDisk}]
  /\ stage \in [Stages -> {"absent", "running"} \cup Ended]
  /\ sent \in [Stages -> 0..Chunks]
  /\ held \subseteq Stages
  /\ corrupt \in BOOLEAN
  /\ watchdog \in {"off", "on", "kill"}
  /\ asked \in {"no", "signalled", "set"}
  /\ content \in [Disks -> {"old", "partial", "image"}]
  /\ at \in [Paths -> Disks \cup {NoDisk}]
  /\ mounted \subseteq Disks
  /\ faults \subseteq Environment

Fault(kind) ==
  /\ kind \in Environment \ faults
  /\ Cardinality(faults) < MaxFaults
  /\ faults' = faults \cup {kind}

(***************************************************************************)
(* The pipeline of an image.                                                *)
(***************************************************************************)
Streams(img) == img.fmt \in {"img", "packed"}

Uses(img) ==
  {s \in Line : CASE s = "curl"   -> img.url
                  [] s = "meter"  -> img.url /\ Streams(img)
                  [] s = "tee"    -> img.url /\ Streams(img) /\ img.digest
                  [] s = "unpack" -> img.fmt = "packed"
                  [] s = "dd"     -> Streams(img)}

\* The processes in front of s in the pipeline of an image, and those behind it
\* (of the constants alone, so that they are worked out once).
InFront ==
  [img \in Images \cup {NoImage} |-> [s \in Stages |-> {t \in Uses(img) : Rank[t] < Rank[s]}]]
Behind ==
  [img \in Images \cup {NoImage} |-> [s \in Stages |-> {t \in Uses(img) : Rank[t] > Rank[s]}]]

Before(s) == InFront[call.img][s]
After(s) == Behind[call.img][s]
Up(s) == CHOOSE t \in Before(s) : \A u \in Before(s) : Rank[u] <= Rank[t]
Down(s) == CHOOSE t \in After(s) : \A u \in After(s) : Rank[u] >= Rank[t]

\* What process s has got to read.
Input(s) == IF Before(s) = {} THEN Chunks ELSE sent[Up(s)]
InputEnds(s) == IF Before(s) = {} THEN TRUE ELSE stage[Up(s)] \in Ended

\* Nobody reads what process s writes: tee writes to sha256sum as well.
Unread(s) ==
  \/ After(s) # {} /\ stage[Down(s)] \in Ended /\ s \notin held
  \/ s = "tee" /\ stage["sha"] \in Ended

Room(s) == IF After(s) = {} THEN TRUE ELSE sent[s] < sent[Down(s)] + Cap

Wants(s) == stage[s] = "running" /\ sent[s] < Input(s)

\* The disk the image is written to is full.
Full(s) == s = "dd" /\ Wants(s) /\ sent[s] = Capacity[call.disk]

Written(n) == IF n = Chunks /\ ~corrupt THEN "image" ELSE "partial"

Goes(pc) == call' = [call EXCEPT !.pc = pc]
Ends(s, how) == stage' = [stage EXCEPT ![s] = how]

(***************************************************************************)
(* The processes.                                                           *)
(***************************************************************************)
\* A chunk goes one process further; sha256sum keeps up with tee.
Move(s) ==
  /\ Wants(s) /\ Room(s) /\ ~Unread(s) /\ ~Full(s)
  /\ sent' = [sent EXCEPT ![s] = @ + 1]
  /\ content' = IF s = "dd"
                THEN [content EXCEPT ![call.disk] = Written(sent[s] + 1)] ELSE content
  /\ \/ UNCHANGED <<corrupt, faults>>
     \/ s = "curl" /\ corrupt' = TRUE /\ Fault("corrupt")
  /\ UNCHANGED <<call, stage, held, watchdog, asked, surroundings>>

\* The input has ended.  A decompressor notices that some of it is missing, and
\* may notice damage.
Finish(s) ==
  /\ stage[s] = "running" /\ InputEnds(s) /\ sent[s] = Input(s)
  /\ \E how \in Ended :
       /\ Ends(s, how)
       /\ how = "ok" => s # "unpack" \/ sent[s] = Chunks
       /\ how = "bad" => s = "unpack" /\ (sent[s] < Chunks \/ corrupt)
  /\ UNCHANGED <<call, sent, held, corrupt, watchdog, asked, content, surroundings, faults>>

\* SIGPIPE, or the disk is full.
Break(s) ==
  /\ Wants(s)
  /\ Unread(s) \/ Full(s)
  /\ Ends(s, "bad")
  /\ UNCHANGED <<call, sent, held, corrupt, watchdog, asked, content, surroundings, faults>>

\* sha256sum reads to the end of what tee copies.
Hash ==
  /\ stage["sha"] = "running" /\ stage["tee"] \in Ended
  /\ Ends("sha", "ok")
  /\ UNCHANGED <<call, sent, held, corrupt, watchdog, asked, content, surroundings, faults>>

\* The Ctrl+C reaches the process as well, or the watchdog terminates it.
Die(s) ==
  /\ stage[s] = "running"
  /\ watchdog = "kill" \/ asked # "no"
  /\ Ends(s, "bad")
  /\ UNCHANGED <<call, sent, held, corrupt, watchdog, asked, content, surroundings, faults>>

\* The process fails, or curl takes a short body for the whole.
Fail(s) ==
  /\ stage[s] = "running"
  /\ \/ Fault("kill") /\ Ends(s, "bad")
     \/ s = "dd" /\ Fault("disk") /\ Ends(s, "bad")
     \/ s = "curl" /\ Fault("net") /\ Ends(s, "bad")
     \/ s = "curl" /\ Fault("short") /\ Ends(s, "ok")
  /\ UNCHANGED <<call, sent, held, corrupt, watchdog, asked, content, surroundings>>

(***************************************************************************)
(* The call.                                                                *)
(***************************************************************************)
Execute(img, path) ==
  /\ call.pc \notin Busy
  /\ call' = [pc |-> "probe", img |-> img, path |-> path, disk |-> NoDisk]
  /\ stage' = [s \in Stages |-> "absent"]
  /\ sent' = [s \in Stages |-> 0]
  /\ held' = {} /\ corrupt' = FALSE
  /\ watchdog' = "off" /\ asked' = "no"
  /\ UNCHANGED <<content, surroundings, faults>>

\* Mutant: mounted partitions are not looked at.
Present(path) == at[path] # NoDisk

\* probe_target once more: a disk of that name, and nothing on it in use.
Usable(path) == at[path] # NoDisk /\ at[path] \notin mounted

Reprobe ==
  /\ call.pc = "probe"
  /\ Goes(IF ~Usable(call.path) \/ call.img.fmt = "other" THEN "failed"
          ELSE IF Uses(call.img) = {} THEN "convert" ELSE "spawn")
  /\ UNCHANGED <<pipeline, watchdog, asked, content, surroundings, faults>>

Unspawned == {s \in Uses(call.img) : stage[s] = "absent"}

\* Popen of the next process; dd opens the disk (without one it fails).
Spawn(s) ==
  /\ call.pc = "spawn"
  /\ s \in Unspawned /\ \A t \in Unspawned : Rank[s] <= Rank[t]
  /\ stage' = [t \in Stages |->
                 IF t = s THEN IF s = "dd" /\ at[call.path] = NoDisk THEN "bad" ELSE "running"
                 ELSE IF t = "sha" /\ s = "tee" THEN "running" ELSE stage[t]]
  /\ held' = IF After(s) = {} THEN held ELSE held \cup {s}
  /\ call' = IF s = "dd" THEN [call EXCEPT !.disk = at[call.path]] ELSE call
  /\ UNCHANGED <<sent, corrupt, watchdog, asked, content, surroundings, faults>>

\* The processes the call waits for: all, but not the download meter in front
\* of a decompressor.
Waited ==
  (Uses(call.img) \ (IF call.img.fmt = "packed" THEN {"meter"} ELSE {}))
    \cup (IF "tee" \in Uses(call.img) THEN {"sha"} ELSE {})

\* Popen, or the registry, raises: whatever runs already is waited for.
SpawnFails ==
  /\ Fault("missing")
  /\ call.pc = "spawn" /\ Unspawned # {}
  /\ Goes("unwind")
  /\ UNCHANGED <<pipeline, watchdog, asked, content, surroundings>>

Unwind ==
  /\ call.pc = "unwind"
  /\ \A s \in Waited : stage[s] # "running"
  /\ Goes("crashed")
  /\ UNCHANGED <<pipeline, watchdog, asked, content, surroundings, faults>>

\* Mutant: no watchdog.
NoGuard(img) == "off"

\* The watchdog of a call: downloads only.
Guard(img) == IF img.url THEN "on" ELSE "off"

\* The watchdog starts; the caller closes its read ends.
HandOver ==
  /\ call.pc = "spawn" /\ Unspawned = {}
  /\ Goes("run")
  /\ held' = {}
  /\ watchdog' = Guard(call.img)
  /\ UNCHANGED <<stage, sent, corrupt, asked, content, surroundings, faults>>

\* A poll of the watchdog that sees the request.
Watch ==
  /\ watchdog = "on" /\ asked = "set"
  /\ \E s \in Stages : stage[s] = "running"
  /\ watchdog' = "kill"
  /\ UNCHANGED <<call, pipeline, asked, content, surroundings, faults>>

\* Mutant: the download meter's exit code is looked at nowhere.
AllButMeterFine == \A s \in Waited \ {"meter"} : stage[s] = "ok"

AllFine == \A s \in Waited : stage[s] = "ok"

\* Mutant: no digest is compared.
Unverified == TRUE

\* _verify_digest, on what went through tee or what curl has stored.
Verified ==
  call.img.digest /\ call.img.url =>
    ~corrupt /\ sent[IF Streams(call.img) THEN "tee" ELSE "curl"] = Chunks

HashDied == "sha" \in Waited /\ stage["sha"] = "bad"

\* Mutant: a verdict the wizard has no case for.
NewVerdict == IF AllFine THEN "settle" ELSE "broken"

Verdict ==
  IF HashDied THEN "crashed"
  ELSE IF call.img.url /\ asked = "set" THEN "cancelled"
  ELSE IF ~(AllFine /\ Verified) THEN "failed"
  ELSE IF call.img.fmt = "qcow2" THEN "convert" ELSE "settle"

\* Everything has ended: the digest is read (an empty one raises IndexError),
\* then cancel() goes before the exit codes, and those before the digest.
Collect ==
  /\ call.pc = "run"
  /\ \A s \in Waited : stage[s] \in Ended
  /\ Goes(Verdict)
  /\ UNCHANGED <<pipeline, watchdog, asked, content, surroundings, faults>>

\* qemu-img convert opens the disk.
OpenConvert ==
  /\ call.pc = "convert" /\ call.disk = NoDisk
  /\ call' = IF at[call.path] = NoDisk THEN [call EXCEPT !.pc = "failed"]
             ELSE [call EXCEPT !.disk = at[call.path]]
  /\ UNCHANGED <<pipeline, watchdog, asked, content, surroundings, faults>>

\* The source as qemu-img finds it.
Sound == ~corrupt /\ (call.img.url => sent["curl"] = Chunks)

\* It writes the image, or what it takes for it.
Convert ==
  /\ call.pc = "convert" /\ call.disk # NoDisk
  /\ content' = [content EXCEPT ![call.disk] =
                   IF Sound /\ Capacity[call.disk] >= Chunks THEN "image" ELSE "partial"]
  /\ Goes("converted")
  /\ UNCHANGED <<pipeline, watchdog, asked, surroundings, faults>>

\* It has ended: by itself, on a full disk, a bad source or a Ctrl+C.
EndConvert ==
  /\ call.pc = "converted"
  /\ \/ Capacity[call.disk] >= Chunks /\ Goes("settle") /\ UNCHANGED faults
     \/ /\ Capacity[call.disk] < Chunks \/ ~Sound \/ asked # "no"
        /\ Goes("failed") /\ UNCHANGED faults
     \/ Fault("disk") /\ Goes("failed")
  /\ UNCHANGED <<pipeline, watchdog, asked, content, surroundings>>

\* sync and partprobe, both bounded.
Settle ==
  /\ call.pc = "settle"
  /\ Goes("ok")
  /\ UNCHANGED <<pipeline, watchdog, asked, content, surroundings, faults>>

\* The call has returned, and with it what it knew of processes that have ended.
Returned ==
  /\ call.pc \in Verdicts
  /\ stage' = [s \in Stages |-> IF stage[s] = "running" THEN "running" ELSE "absent"]
  /\ sent' = [s \in Stages |-> 0]
  /\ held' = {} /\ corrupt' = FALSE
  /\ watchdog' = "off" /\ asked' = "no"
  /\ UNCHANGED <<call, content, surroundings, faults>>

(***************************************************************************)
(* Whoever asks to stop, and the surroundings.                              *)
(***************************************************************************)
\* Ctrl+C: the terminal signals, then the main thread sets the event.
Interrupt ==
  /\ call.pc \in Busy /\ asked = "no"
  /\ asked' = "signalled"
  /\ UNCHANGED <<call, pipeline, watchdog, content, surroundings, faults>>

SetCancel ==
  /\ asked = "signalled"
  /\ asked' = "set"
  /\ UNCHANGED <<call, pipeline, watchdog, content, surroundings, faults>>

Mount(d) ==
  /\ d \notin mounted /\ Fault("mount")
  /\ mounted' = mounted \cup {d}
  /\ UNCHANGED <<call, pipeline, watchdog, asked, content, at>>

\* Two disks swap their names, or one is unplugged.
Rename ==
  /\ Fault("swap")
  /\ \E p, q \in Paths :
       at' = IF p = q THEN [at EXCEPT ![p] = NoDisk]
             ELSE [at EXCEPT ![p] = at[q], ![q] = at[p]]
  /\ at' # at
  /\ UNCHANGED <<call, pipeline, watchdog, asked, content, mounted>>

(***************************************************************************)
(* The specification.                                                       *)
(***************************************************************************)
FlashInit ==
  /\ call \in [pc : {"idle"}, img : {NoImage}, path : Paths, disk : {NoDisk}]
  /\ stage = [s \in Stages |-> "absent"]
  /\ sent = [s \in Stages |-> 0]
  /\ held = {} /\ corrupt = FALSE
  /\ watchdog = "off" /\ asked = "no"
  /\ content = [d \in Disks |-> "old"]
  /\ \E setup \in Setups : at = setup.at /\ mounted = setup.mounted
  /\ faults = {}

Process(s) ==
  \/ s \in Line /\ (Move(s) \/ Finish(s) \/ Break(s))
  \/ s = "sha" /\ Hash

Caller ==
  \/ Reprobe \/ HandOver \/ Unwind \/ Collect \/ OpenConvert \/ Convert \/ EndConvert
  \/ Settle
  \/ \E s \in Line : Spawn(s)

Trouble ==
  \/ SpawnFails \/ Rename
  \/ \E s \in Stages : Fail(s)
  \/ \E d \in Disks : Mount(d)

FlashNext ==
  \/ \E img \in Images, path \in Paths : Execute(img, path)
  \/ Returned
  \/ Caller
  \/ \E s \in Stages : Process(s) \/ Die(s)
  \/ Watch \/ Interrupt \/ SetCancel
  \/ Trouble

FlashSpec == FlashInit /\ [][FlashNext]_vars

\* The processes run, but a server may stall: nothing is assumed of curl.  What
\* the watchdog kills dies.
FlashFairness ==
  /\ WF_vars(Caller)
  /\ \A s \in Stages \ {"curl"} : WF_vars(Process(s))
  /\ WF_vars(watchdog = "kill" /\ \E s \in Stages : Die(s))
  /\ WF_vars(Watch)
  /\ WF_vars(SetCancel)

(***************************************************************************)
(* What a call promises.                                                    *)
(***************************************************************************)
Phase ==
  IF call.pc \in Busy THEN "open" ELSE IF call.pc = "crashed" THEN "failed" ELSE call.pc

Contract == INSTANCE FlashCall WITH
  phase <- Phase, target <- call.disk, checked <- (call.img.url => call.img.digest)

\* Whatever its processes do, in whatever order they end, a call of execute_plan
\* keeps the contract of FlashCall: it writes to one disk, while it runs and not
\* after, and a source that has committed to a digest, or a local file, is not
\* reported as written unless the disk holds the image.
ContractKept == Contract!Spec
=============================================================================
