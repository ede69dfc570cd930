----------------------------- MODULE WizardProofs -----------------------------
(***************************************************************************)
(* Proofs about FlashPipeline and about Wizard, for any disks, images,      *)
(* length of an image, capacity of the pipes, plans and faults.  First, a   *)
(* call of execute_plan keeps the contract of FlashCall.  Then, the flash    *)
(* of the wizard is such a call, it writes to the disk that was picked and   *)
(* to no other, and what the reboot screen says is true.                    *)
(***************************************************************************)
EXTENDS Wizard, TLAPS

(***************************************************************************)
(* The order of the processes.                                              *)
(***************************************************************************)
\* The ranks, one by one.
LEMMA RankValues ==
  /\ Rank["curl"] = 1 /\ Rank["meter"] = 2 /\ Rank["tee"] = 3
  /\ Rank["unpack"] = 4 /\ Rank["dd"] = 5
BY DEF Rank

\* Any processes of the line have a last one among them.
LEMMA LastOne ==
  ASSUME NEW S \in SUBSET Line, S # {}
  PROVE  \E t \in S : \A u \in S : Rank[u] <= Rank[t]
<1>1. CASE "dd" \in S
  BY <1>1, RankValues DEF Line
<1>2. CASE "dd" \notin S /\ "unpack" \in S
  BY <1>2, RankValues DEF Line
<1>3. CASE "dd" \notin S /\ "unpack" \notin S /\ "tee" \in S
  BY <1>3, RankValues DEF Line
<1>4. CASE "dd" \notin S /\ "unpack" \notin S /\ "tee" \notin S /\ "meter" \in S
  BY <1>4, RankValues DEF Line
<1>5. CASE S = {"curl"}
  BY <1>5, RankValues
<1> QED BY <1>1, <1>2, <1>3, <1>4, <1>5 DEF Line

\* The image of a call is an image, or none.
LEMMA ImageTyped ==
  ASSUME FlashTypeOK
  PROVE  call.img \in [url : BOOLEAN, fmt : Formats, digest : BOOLEAN]
<1>1. call.img \in Images \cup {NoImage}
  BY DEF FlashTypeOK
<1>2. NoImage \in [url : BOOLEAN, fmt : Formats, digest : BOOLEAN]
  BY DEF NoImage, Formats
<1> HIDE DEF NoImage
<1> QED BY <1>1, <1>2, FlashAssumption

\* The processes before another one are those of lower rank.
LEMMA BeforeOf ==
  ASSUME FlashTypeOK, NEW s \in Stages
  PROVE  Before(s) = {t \in Uses(call.img) : Rank[t] < Rank[s]}
<1>1. call.img \in Images \cup {NoImage}
  BY DEF FlashTypeOK
<1> HIDE DEF NoImage
<1> QED BY <1>1 DEF Before, InFront

\* The process a process reads from is the last of those before it.
LEMMA UpIsLast ==
  ASSUME FlashTypeOK, NEW s \in Stages, Before(s) # {}
  PROVE  /\ Up(s) \in Before(s) /\ Up(s) \in Line
         /\ \A u \in Before(s) : Rank[u] <= Rank[Up(s)]
<1>1. Before(s) \in SUBSET Line
  BY BeforeOf DEF Uses
<1> QED BY <1>1, LastOne DEF Up

\* What dd reads from, by the kind of image.
LEMMA WhatDdReads ==
  ASSUME FlashTypeOK
  PROVE  /\ call.img.fmt = "packed" => Before("dd") # {} /\ Up("dd") = "unpack"
         /\ call.img.fmt = "img" /\ ~call.img.url => Before("dd") = {}
         /\ call.img.fmt = "img" /\ call.img.url /\ call.img.digest
              => Before("dd") # {} /\ Up("dd") = "tee"
<1>s. "dd" \in Stages /\ "meter" \in Stages /\ "curl" \in Stages
  BY DEF Stages, Line
<1>b. /\ Before("dd") = {t \in Uses(call.img) : Rank[t] < 5}
      /\ Before("meter") = {t \in Uses(call.img) : Rank[t] < 2}
      /\ Before("curl") = {t \in Uses(call.img) : Rank[t] < 1}
  BY BeforeOf, RankValues, <1>s
<1>1. ASSUME call.img.fmt = "packed" PROVE Before("dd") # {} /\ Up("dd") = "unpack"
  <2>1. "unpack" \in Uses(call.img)
    BY <1>1 DEF Uses, Line
  <2>2. "unpack" \in Before("dd") /\ "dd" \notin Before("dd")
    BY <2>1, <1>b, RankValues
  <2> QED BY <2>2, UpIsLast, <1>s, RankValues DEF Line
<1>2. ASSUME call.img.fmt = "img", ~call.img.url PROVE Before("dd") = {}
  <2>1. ASSUME NEW s \in Uses(call.img) PROVE s = "dd"
    BY <1>2 DEF Uses, Line
  <2> QED BY <2>1, RankValues, <1>b
<1>3. ASSUME call.img.fmt = "img", call.img.url, call.img.digest
      PROVE  Before("dd") # {} /\ Up("dd") = "tee"
  <2>1. "tee" \in Uses(call.img) /\ "unpack" \notin Uses(call.img)
    BY <1>3 DEF Uses, Line, Streams
  <2>2. "tee" \in Before("dd") /\ "dd" \notin Before("dd") /\ "unpack" \notin Before("dd")
    BY <2>1, <1>b, RankValues
  <2> QED BY <2>2, UpIsLast, <1>s, RankValues DEF Line
<1> QED BY <1>1, <1>2, <1>3

(***************************************************************************)
(* Types.                                                                   *)
(***************************************************************************)
\* A process has never more to read than the image is long.
LEMMA InputTyped ==
  ASSUME FlashTypeOK, NEW s \in Line
  PROVE  Input(s) \in 0..Chunks
BY UpIsLast, FlashAssumption DEF FlashTypeOK, Input, Stages

\* No process has passed anything on.
LEMMA NothingSent == [s \in Stages |-> 0] \in [Stages -> 0..Chunks]
<1>1. 0 \in 0..Chunks
  BY FlashAssumption
<1> QED BY <1>1

\* A fault is one of the environment.
LEMMA FaultTyped ==
  ASSUME FlashTypeOK, NEW kind, Fault(kind)
  PROVE  faults' \subseteq Environment
BY DEF FlashTypeOK, Fault

\* The types are kept by the processes.
LEMMA ProcessTyped ==
  ASSUME FlashTypeOK, NEW s \in Stages, Process(s) \/ Die(s) \/ Fail(s)
  PROVE  FlashTypeOK'
<1> USE FlashAssumption DEF Ended
<1>1. CASE s \in Line /\ Move(s)
  <2>1. sent[s] + 1 \in 0..Chunks
    BY <1>1, InputTyped DEF FlashTypeOK, Move, Wants
  <2>2. Written(sent[s] + 1) \in {"partial", "image"}
    BY DEF Written
  <2>3. faults' \subseteq Environment
    BY <1>1, FaultTyped DEF Move, FlashTypeOK
  <2> QED BY <1>1, <2>1, <2>2, <2>3 DEF FlashTypeOK, Move, surroundings
<1>2. CASE s \in Line /\ Finish(s)
  BY <1>2 DEF FlashTypeOK, Finish, Ends, surroundings
<1>3. CASE s \in Line /\ Break(s)
  BY <1>3 DEF FlashTypeOK, Break, Ends, surroundings
<1>4. CASE Hash
  BY <1>4 DEF FlashTypeOK, Hash, Ends, surroundings
<1>5. CASE Die(s)
  BY <1>5 DEF FlashTypeOK, Die, Ends, surroundings
<1>6. CASE Fail(s)
  <2>1. faults' \subseteq Environment
    BY <1>6, FaultTyped DEF Fail
  <2> QED BY <1>6, <2>1 DEF FlashTypeOK, Fail, Ends, surroundings
<1> QED BY <1>1, <1>2, <1>3, <1>4, <1>5, <1>6 DEF Process

\* ... by the caller, ...
LEMMA CallerTyped ==
  ASSUME FlashTypeOK, Caller
  PROVE  FlashTypeOK'
<1> USE FlashAssumption DEF FlashTypeOK, Goes, pipeline, surroundings, Busy, Verdicts
<1>1. CASE Reprobe
  BY <1>1 DEF Reprobe
<1>2. CASE HandOver
  BY <1>2 DEF HandOver, Guard
<1>3. CASE Unwind
  BY <1>3 DEF Unwind
<1>4. CASE Collect
  BY <1>4 DEF Collect, Verdict
<1>5. CASE OpenConvert
  BY <1>5 DEF OpenConvert
<1>6. CASE Convert
  BY <1>6 DEF Convert
<1>7. CASE EndConvert
  <2>1. faults' \subseteq Environment
    BY <1>7, FaultTyped DEF EndConvert
  <2> QED BY <1>7, <2>1 DEF EndConvert
<1>8. CASE Settle
  BY <1>8 DEF Settle
<1>9. ASSUME NEW s \in Line, Spawn(s) PROVE FlashTypeOK'
  <2>1. stage' \in [Stages -> {"absent", "running"} \cup Ended]
    BY <1>9 DEF Spawn, Ended
  <2>2. held' \subseteq Stages
    BY <1>9 DEF Spawn, Stages
  <2>3. call' \in [pc : {"idle"} \cup Busy \cup Verdicts, img : Images \cup {NoImage},
                   path : Paths, disk : Disks \cup {NoDisk}]
    BY <1>9 DEF Spawn
  <2> QED BY <1>9, <2>1, <2>2, <2>3 DEF Spawn
<1> QED BY <1>1, <1>2, <1>3, <1>4, <1>5, <1>6, <1>7, <1>8, <1>9 DEF Caller

\* ... and by everything.
LEMMA TypeStep == FlashTypeOK /\ [FlashNext]_vars => FlashTypeOK'
<1> SUFFICES ASSUME FlashTypeOK, [FlashNext]_vars PROVE FlashTypeOK'
  OBVIOUS
<1> USE FlashAssumption DEF pipeline, surroundings
<1>1. ASSUME NEW img \in Images, NEW path \in Paths, Execute(img, path)
      PROVE  FlashTypeOK'
  <2>1. call' \in [pc : {"idle"} \cup Busy \cup Verdicts, img : Images \cup {NoImage},
                   path : Paths, disk : Disks \cup {NoDisk}]
    BY <1>1 DEF Execute, Busy
  <2>2. stage' \in [Stages -> {"absent", "running"} \cup Ended]
    BY <1>1 DEF Execute
  <2> QED BY <1>1, <2>1, <2>2, NothingSent DEF Execute, FlashTypeOK
<1>2. CASE Returned
  <2>1. stage' \in [Stages -> {"absent", "running"} \cup Ended]
    BY <1>2 DEF Returned
  <2> QED BY <1>2, <2>1, NothingSent DEF Returned, FlashTypeOK
<1>3. CASE Watch
  BY <1>3 DEF Watch, FlashTypeOK
<1>4. CASE Interrupt \/ SetCancel
  BY <1>4 DEF Interrupt, SetCancel, FlashTypeOK
<1>5. CASE SpawnFails
  BY <1>5, FaultTyped DEF SpawnFails, Goes, FlashTypeOK, Busy
<1>6. CASE Rename
  BY <1>6, FaultTyped DEF Rename, FlashTypeOK
<1>7. ASSUME NEW d \in Disks, Mount(d) PROVE FlashTypeOK'
  BY <1>7, FaultTyped DEF Mount, FlashTypeOK
<1>8. CASE UNCHANGED vars
  BY <1>8 DEF vars, FlashTypeOK
<1> QED BY <1>1, <1>2, <1>3, <1>4, <1>5, <1>6, <1>7, <1>8, ProcessTyped, CallerTyped
        DEF FlashNext, Trouble

\* The types at the start.
LEMMA InitTyped == FlashInit => FlashTypeOK
<1> SUFFICES ASSUME FlashInit PROVE FlashTypeOK
  OBVIOUS
<1>1. call \in [pc : {"idle"} \cup Busy \cup Verdicts, img : Images \cup {NoImage},
                path : Paths, disk : Disks \cup {NoDisk}]
  BY DEF FlashInit
<1>2. at \in [Paths -> Disks \cup {NoDisk}] /\ mounted \subseteq Disks
  BY FlashAssumption DEF FlashInit
<1> QED BY <1>1, <1>2, NothingSent DEF FlashInit, FlashTypeOK

\* Every reachable state of a flash is well typed.
THEOREM FlashTypeCorrect == FlashSpec => []FlashTypeOK
BY InitTyped, TypeStep, PTL DEF FlashSpec

(***************************************************************************)
(* The inductive invariant of the contract.                                 *)
(***************************************************************************)
\* Only the processes of the image's line run, and dd only while it has a disk
\* and the call is in the middle of it.
Placed ==
  /\ \A s \in Line : stage[s] # "absent" => s \in Uses(call.img)
  /\ stage["dd"] = "absent" => sent["dd"] = 0
  /\ stage["dd"] = "running" => call.pc \in {"spawn", "unwind", "run"}
  /\ stage["dd"] \in {"running", "ok"} => call.disk # NoDisk
  /\ call.pc \in {"probe", "spawn"} /\ stage["dd"] = "absent" => call.disk = NoDisk
  /\ call.pc = "probe" => stage["dd"] = "absent"

\* What a process that ended well has passed on, and what dd leaves on the disk.
Passed ==
  /\ corrupt => call.img.url
  /\ stage["unpack"] = "ok" => sent["unpack"] = Chunks
  /\ stage["dd"] = "ok" =>
       IF Before("dd") = {} THEN sent["dd"] = Chunks
       ELSE stage[Up("dd")] \in Ended /\ sent["dd"] = sent[Up("dd")]
  /\ sent["dd"] = Chunks /\ ~corrupt => content[call.disk] = "image"

\* A source that gives damage away: a local file, or one with a digest.
Checked == call.img.url => call.img.digest

\* What holds of the disk at the end of the call.
Secured ==
  /\ call.pc \in {"spawn", "unwind", "run"} => call.img.fmt # "other" /\ Uses(call.img) # {}
  /\ call.pc \in {"convert", "converted"} =>
       /\ stage["curl"] # "running" /\ stage["dd"] = "absent"
       /\ Checked => Sound
  /\ call.pc = "converted" =>
       /\ call.disk # NoDisk
       /\ Checked /\ Capacity[call.disk] >= Chunks => content[call.disk] = "image"
  /\ call.pc = "settle" =>
       /\ call.disk # NoDisk
       /\ Checked => content[call.disk] = "image"

FlashInv == FlashTypeOK /\ Placed /\ Passed /\ Secured

\* The processes keep the invariant.
LEMMA ProcessKeeps ==
  ASSUME FlashInv, NEW s \in Stages, Process(s) \/ Die(s) \/ Fail(s)
  PROVE  Placed' /\ Passed' /\ Secured'
<1> USE FlashAssumption
<1>0. /\ UNCHANGED call
      /\ \A t : Before(t)' = Before(t) /\ Up(t)' = Up(t)
      /\ Checked' = Checked /\ Uses(call.img)' = Uses(call.img)
  <2>1. UNCHANGED call
    BY DEF Process, Move, Finish, Break, Hash, Die, Fail
  <2> QED BY <2>1 DEF Before, Up, Checked
<1>d. "dd" \in Line /\ "curl" \in Line /\ "unpack" \in Line /\ "dd" \in Stages
      /\ "curl" \in Stages /\ "unpack" \in Stages
  BY DEF Line, Stages
<1>1. CASE s \in Line /\ Move(s)
  <2>1. stage[s] = "running" /\ UNCHANGED stage /\ sent' = [sent EXCEPT ![s] = @ + 1]
    BY <1>1 DEF Move, Wants
  <2>2. Placed'
    BY <1>0, <1>1, <2>1 DEF FlashInv, Placed, FlashTypeOK
  <2>3. corrupt' => call.img.url
    <3>1. s = "curl" => call.img.url
      BY <2>1, <1>1 DEF FlashInv, Placed, Uses
    <3> QED BY <1>1, <3>1 DEF FlashInv, Passed, Move
  <2>4. corrupt => corrupt'
    BY <1>1 DEF Move
  <2>5. stage["dd"] = "ok" =>
          IF Before("dd") = {} THEN sent'["dd"] = Chunks
          ELSE stage[Up("dd")] \in Ended /\ sent'["dd"] = sent'[Up("dd")]
    <3>1. Before("dd") # {} => Up("dd") \in Stages
      BY UpIsLast, <1>d DEF FlashInv, Stages
    <3> QED BY <2>1, <3>1, <1>d DEF FlashInv, Passed, FlashTypeOK, Ended
  <2>6. sent'["dd"] = Chunks /\ ~corrupt' => content'[call.disk] = "image"
    <3>1. CASE s = "dd"
      <4>1. call.disk \in Disks /\ content' = [content EXCEPT ![call.disk] = Written(sent["dd"] + 1)]
        BY <1>1, <2>1, <3>1 DEF Move, FlashInv, Placed, FlashTypeOK
      <4>2. sent'["dd"] = sent["dd"] + 1
        BY <2>1, <3>1, <1>d DEF FlashInv, FlashTypeOK
      <4> QED BY <2>4, <4>1, <4>2 DEF Written, FlashInv, FlashTypeOK
    <3>2. CASE s # "dd"
      BY <1>1, <2>1, <2>4, <3>2 DEF Move, FlashInv, Passed, FlashTypeOK
    <3> QED BY <3>1, <3>2
  <2>7. stage["unpack"] = "ok" => sent'["unpack"] = Chunks
    BY <2>1, <1>d DEF FlashInv, Passed, FlashTypeOK
  <2>8. Passed'
    BY <1>0, <2>1, <2>3, <2>5, <2>6, <2>7 DEF Passed
  <2>9. Secured'
    <3>1. call.pc \in {"convert", "converted"} => s # "curl" /\ s # "dd"
      BY <2>1 DEF FlashInv, Secured
    <3>2. s # "dd" => UNCHANGED content
      BY <1>1 DEF Move
    <3>3. s # "curl" => UNCHANGED corrupt /\ sent'["curl"] = sent["curl"]
      BY <1>1, <2>1, <1>d DEF Move, FlashInv, FlashTypeOK
    <3>4. call.pc = "settle" => s # "dd"
      BY <2>1 DEF FlashInv, Placed
    <3> QED BY <1>0, <2>1, <3>1, <3>2, <3>3, <3>4 DEF FlashInv, Secured, Sound
  <2> QED BY <2>2, <2>8, <2>9
<1>2. CASE \E how \in Ended : stage[s] = "running" /\ Ends(s, how)
                             /\ UNCHANGED <<sent, corrupt, content>>
                             /\ (how = "ok" /\ s = "unpack" => sent[s] = Chunks)
                             /\ (how = "ok" /\ s = "dd" => Finish(s))
  <2>1. PICK how \in Ended : stage[s] = "running" /\ Ends(s, how)
                             /\ UNCHANGED <<sent, corrupt, content>>
                             /\ (how = "ok" /\ s = "unpack" => sent[s] = Chunks)
                             /\ (how = "ok" /\ s = "dd" => Finish(s))
    BY <1>2
  <2>2. stage' = [stage EXCEPT ![s] = how] /\ how \in {"ok", "bad"}
    BY <2>1 DEF Ends, Ended
  <2>3. Placed'
    BY <1>0, <2>1, <2>2, <1>d DEF FlashInv, Placed, FlashTypeOK
  <2>4. stage'["unpack"] = "ok" => sent["unpack"] = Chunks
    BY <2>1, <2>2, <1>d DEF FlashInv, Passed, FlashTypeOK
  <2>5. stage'["dd"] = "ok" =>
          IF Before("dd") = {} THEN sent["dd"] = Chunks
          ELSE stage'[Up("dd")] \in Ended /\ sent["dd"] = sent[Up("dd")]
    <3>1. Before("dd") # {} => Up("dd") \in Stages
      BY UpIsLast, <1>d DEF FlashInv, Stages
    <3>2. CASE s = "dd" /\ how = "ok"
      <4>1. InputEnds("dd") /\ sent["dd"] = Input("dd")
        BY <2>1, <3>2 DEF Finish
      <4>2. Before("dd") # {} => Up("dd") # "dd"
        BY UpIsLast, BeforeOf, RankValues, <1>d DEF FlashInv
      <4>3. CASE Before("dd") = {}
        BY <4>1, <4>3 DEF Input
      <4>4. CASE Before("dd") # {}
        <5>1. stage[Up("dd")] \in Ended /\ sent["dd"] = sent[Up("dd")]
          BY <4>1, <4>4 DEF InputEnds, Input
        <5>2. stage'[Up("dd")] = stage[Up("dd")]
          BY <2>2, <3>1, <3>2, <4>2, <4>4 DEF FlashInv, FlashTypeOK
        <5> QED BY <4>4, <5>1, <5>2
      <4> QED BY <4>3, <4>4
    <3>3. CASE ~(s = "dd" /\ how = "ok")
      <4>1. stage'["dd"] = "ok" => stage["dd"] = "ok"
        BY <2>2, <3>3, <1>d DEF FlashInv, FlashTypeOK
      <4>2. Before("dd") # {} /\ stage[Up("dd")] \in Ended => stage'[Up("dd")] \in Ended
        BY <2>1, <2>2, <3>1 DEF FlashInv, FlashTypeOK, Ended
      <4> QED BY <4>1, <4>2 DEF FlashInv, Passed
    <3> QED BY <3>2, <3>3
  <2>6. Passed'
    BY <1>0, <2>1, <2>4, <2>5 DEF FlashInv, Passed
  <2>7. Secured'
    BY <1>0, <2>1, <2>2, <1>d DEF FlashInv, Secured, Sound, FlashTypeOK
  <2> QED BY <2>3, <2>6, <2>7
<1>3. ASSUME ~(s \in Line /\ Move(s))
      PROVE  \E how \in Ended : stage[s] = "running" /\ Ends(s, how)
                             /\ UNCHANGED <<sent, corrupt, content>>
                             /\ (how = "ok" /\ s = "unpack" => sent[s] = Chunks)
                             /\ (how = "ok" /\ s = "dd" => Finish(s))
  <2>1. CASE Finish(s)
    BY <2>1 DEF Finish
  <2>2. CASE Break(s)
    BY <2>2 DEF Break, Wants, Ended
  <2>3. CASE s = "sha" /\ Hash
    BY <2>3 DEF Hash, Ended
  <2>4. CASE Die(s)
    BY <2>4 DEF Die, Ended
  <2>5. CASE Fail(s)
    BY <2>5 DEF Fail, Ended
  <2> QED BY <1>3, <2>1, <2>2, <2>3, <2>4, <2>5 DEF Process
<1> QED BY <1>1, <1>2, <1>3

\* The caller keeps the invariant.
LEMMA CallerKeeps ==
  ASSUME FlashInv, Caller
  PROVE  Placed' /\ Passed' /\ Secured'
<1> USE FlashAssumption DEF Goes
<1>d. "dd" \in Line /\ "curl" \in Line /\ "dd" \in Stages /\ "curl" \in Stages
  BY DEF Line, Stages
<1>i. /\ call \in [pc : {"idle"} \cup Busy \cup Verdicts, img : Images \cup {NoImage},
                   path : Paths, disk : Disks \cup {NoDisk}]
      /\ call.img \in [url : BOOLEAN, fmt : Formats, digest : BOOLEAN]
  <2>1. call \in [pc : {"idle"} \cup Busy \cup Verdicts, img : Images \cup {NoImage},
                  path : Paths, disk : Disks \cup {NoDisk}]
    BY DEF FlashInv, FlashTypeOK
  <2>2. NoImage \in [url : BOOLEAN, fmt : Formats, digest : BOOLEAN]
    BY DEF NoImage, Formats
  <2>3. Images \subseteq [url : BOOLEAN, fmt : Formats, digest : BOOLEAN]
    OBVIOUS
  <2> HIDE DEF NoImage
  <2>4. call.img \in Images \cup {NoImage}
    BY <2>1
  <2> QED BY <2>1, <2>2, <2>3, <2>4
\* Steps that only move the program counter.
<1>g. ASSUME call' = [call EXCEPT !.pc = call'.pc], UNCHANGED <<stage, sent, corrupt>>
      PROVE  /\ call'.img = call.img /\ call'.disk = call.disk
             /\ \A t : Before(t)' = Before(t) /\ Up(t)' = Up(t)
             /\ Checked' = Checked /\ Uses(call.img)' = Uses(call.img) /\ Sound' = Sound
  <2>1. call'.img = call.img /\ call'.disk = call.disk
    BY <1>g, <1>i
  <2> QED BY <1>g, <2>1 DEF Before, Up, Checked, Sound
<1>1. CASE Reprobe
  <2>1. /\ call' = [call EXCEPT !.pc = call'.pc] /\ UNCHANGED <<stage, sent, corrupt, content>>
        /\ call.pc = "probe" /\ call'.pc \in {"failed", "convert", "spawn"}
        /\ call'.pc = "convert" => Uses(call.img) = {}
        /\ call'.pc = "spawn" => call.img.fmt # "other" /\ Uses(call.img) # {}
    BY <1>1, <1>i DEF Reprobe, pipeline
  <2>2. Placed'
    BY <1>g, <2>1, <1>d DEF FlashInv, Placed
  <2>3. Passed'
    BY <1>g, <2>1 DEF FlashInv, Passed
  <2>4. Secured'
    <3>1. Uses(call.img) = {} => ~call.img.url /\ stage["curl"] = "absent"
      BY <1>d, <1>i DEF FlashInv, Placed, Uses, FlashTypeOK
    <3>2. Uses(call.img) = {} => Sound
      BY <3>1 DEF FlashInv, Passed, Sound
    <3>3. stage["dd"] = "absent"
      BY <2>1 DEF FlashInv, Placed
    <3> QED BY <1>g, <2>1, <3>1, <3>2, <3>3 DEF Secured
  <2> QED BY <2>2, <2>3, <2>4
<1>2. CASE HandOver
  <2>1. call' = [call EXCEPT !.pc = "run"] /\ UNCHANGED <<stage, sent, corrupt, content>>
        /\ call.pc = "spawn" /\ call'.pc = "run"
    BY <1>2, <1>i DEF HandOver
  <2>2. call' = [call EXCEPT !.pc = call'.pc]
    BY <2>1
  <2>3. Placed' /\ Passed' /\ Secured'
    BY <1>g, <2>1, <2>2 DEF FlashInv, Placed, Passed, Secured
  <2> QED BY <2>3
<1>3. CASE Unwind
  <2>1. call' = [call EXCEPT !.pc = call'.pc] /\ UNCHANGED <<stage, sent, corrupt, content>>
        /\ call'.pc = "crashed" /\ \A s \in Waited : stage[s] # "running"
    BY <1>3, <1>i DEF Unwind, pipeline
  <2>2. stage["dd"] # "running"
    BY <2>1, <1>d DEF FlashInv, Placed, Waited
  <2> QED BY <1>g, <2>1, <2>2 DEF FlashInv, Placed, Passed, Secured
<1>4. CASE Collect
  <2>1. /\ call' = [call EXCEPT !.pc = call'.pc] /\ UNCHANGED <<stage, sent, corrupt, content>>
        /\ call.pc = "run" /\ call'.pc = Verdict /\ \A s \in Waited : stage[s] \in Ended
    BY <1>4, <1>i DEF Collect, pipeline
  <2>2. call'.pc \in {"crashed", "cancelled", "failed", "convert", "settle"}
    BY <2>1 DEF Verdict
  <2>3. /\ call'.pc = "convert" => AllFine /\ Verified /\ call.img.fmt = "qcow2"
        /\ call'.pc = "settle" => AllFine /\ Verified /\ call.img.fmt # "qcow2"
    BY <2>1 DEF Verdict
  <2>4. stage["dd"] # "running" /\ (call.img.fmt # "packed" => stage["curl"] # "running")
    BY <2>1, <1>d DEF FlashInv, Placed, Waited, Ended
  <2>5. Placed'
    BY <1>g, <2>1, <2>2, <2>4 DEF FlashInv, Placed
  <2>6. Passed'
    BY <1>g, <2>1 DEF FlashInv, Passed
  <2>7. ASSUME call'.pc = "convert"
        PROVE  stage["curl"] # "running" /\ stage["dd"] = "absent" /\ (Checked => Sound)
    <3>1. stage["dd"] = "absent"
      BY <2>3, <2>7, <1>d DEF FlashInv, Placed, Uses, Streams
    <3>2. Checked => Sound
      BY <2>3, <2>7 DEF Checked, Sound, Verified, FlashInv, Passed, Streams
    <3> QED BY <2>3, <2>4, <2>7, <3>1, <3>2
  <2>8. ASSUME call'.pc = "settle"
        PROVE  call.disk # NoDisk /\ (Checked => content[call.disk] = "image")
    <3>1. call.img.fmt \in {"img", "packed"}
      BY <2>1, <2>3, <2>8, <1>i DEF FlashInv, Secured, Formats
    <3>2. "dd" \in Waited /\ stage["dd"] = "ok"
      BY <2>3, <2>8, <3>1, <1>d DEF Waited, Uses, Streams, AllFine
    <3>3. call.disk # NoDisk
      BY <3>2 DEF FlashInv, Placed
    <3>4. ASSUME Checked PROVE ~corrupt /\ sent["dd"] = Chunks
      <4>1. ~corrupt
        BY <2>3, <2>8, <3>4 DEF Checked, Verified, FlashInv, Passed
      <4>2. CASE call.img.fmt = "packed"
        <5>1. "unpack" \in Waited
          BY <4>2 DEF Waited, Uses, Line
        <5>2. sent["unpack"] = Chunks
          BY <2>3, <2>8, <5>1 DEF AllFine, FlashInv, Passed
        <5> QED BY <4>1, <4>2, <5>2, <3>2, <1>i, WhatDdReads DEF FlashInv, Passed
      <4>3. CASE call.img.fmt = "img" /\ ~call.img.url
        BY <4>1, <4>3, <3>2, <1>i, WhatDdReads DEF FlashInv, Passed
      <4>4. CASE call.img.fmt = "img" /\ call.img.url
        <5>1. sent["tee"] = Chunks /\ call.img.digest
          BY <2>3, <2>8, <3>4, <4>4 DEF Checked, Verified, Streams
        <5> QED BY <4>1, <4>4, <5>1, <3>2, <1>i, WhatDdReads DEF FlashInv, Passed
      <4> QED BY <3>1, <4>2, <4>3, <4>4, <1>i
    <3> QED BY <3>3, <3>4 DEF FlashInv, Passed
  <2>9. Secured'
    BY <1>g, <2>1, <2>2, <2>7, <2>8 DEF Secured
  <2> QED BY <2>5, <2>6, <2>9
<1>5. CASE OpenConvert
  <2>1. /\ UNCHANGED <<stage, sent, corrupt, content>> /\ call'.img = call.img
        /\ call.pc = "convert" /\ call'.pc \in {"failed", "convert"}
    BY <1>5, <1>i DEF OpenConvert, pipeline
  <2>2. /\ \A t : Before(t)' = Before(t) /\ Up(t)' = Up(t)
        /\ Checked' = Checked /\ Uses(call.img)' = Uses(call.img) /\ Sound' = Sound
    BY <2>1 DEF Before, Up, Checked, Sound
  <2>3. stage["dd"] = "absent" /\ sent["dd"] = 0 /\ Chunks # 0
    BY <2>1 DEF FlashInv, Placed, Secured
  <2>4. Placed'
    BY <2>1, <2>2, <2>3 DEF FlashInv, Placed
  <2>5. Passed'
    BY <2>1, <2>2, <2>3 DEF FlashInv, Passed
  <2>6. Secured'
    BY <2>1, <2>2 DEF FlashInv, Secured
  <2> QED BY <2>4, <2>5, <2>6
<1>6. CASE Convert
  <2>1. /\ call' = [call EXCEPT !.pc = call'.pc] /\ UNCHANGED <<stage, sent, corrupt>>
        /\ call.pc = "convert" /\ call'.pc = "converted" /\ call.disk \in Disks
        /\ content' = [content EXCEPT ![call.disk] =
                         IF Sound /\ Capacity[call.disk] >= Chunks THEN "image" ELSE "partial"]
    BY <1>6, <1>i DEF Convert, pipeline
  <2>2. stage["dd"] = "absent" /\ sent["dd"] = 0 /\ Chunks # 0
    BY <2>1 DEF FlashInv, Placed, Secured
  <2>3. Placed'
    BY <1>g, <2>1, <2>2 DEF FlashInv, Placed
  <2>4. Passed'
    BY <1>g, <2>1, <2>2 DEF FlashInv, Passed
  <2>5. Sound /\ Capacity[call.disk] >= Chunks => content'[call.disk] = "image"
    BY <2>1 DEF FlashInv, FlashTypeOK
  <2>6. Secured'
    BY <1>g, <2>1, <2>5 DEF FlashInv, Secured
  <2> QED BY <2>3, <2>4, <2>6
<1>7. CASE EndConvert
  <2>1. /\ call' = [call EXCEPT !.pc = call'.pc] /\ UNCHANGED <<stage, sent, corrupt, content>>
        /\ call.pc = "converted" /\ call'.pc \in {"settle", "failed"}
        /\ call'.pc = "settle" => Capacity[call.disk] >= Chunks
    BY <1>7, <1>i DEF EndConvert, pipeline
  <2>2. Placed' /\ Passed'
    BY <1>g, <2>1 DEF FlashInv, Placed, Passed
  <2>3. Secured'
    BY <1>g, <2>1 DEF FlashInv, Secured
  <2> QED BY <2>2, <2>3
<1>8. CASE Settle
  <2>1. /\ call' = [call EXCEPT !.pc = call'.pc] /\ UNCHANGED <<stage, sent, corrupt, content>>
        /\ call.pc = "settle" /\ call'.pc = "ok"
    BY <1>8, <1>i DEF Settle, pipeline
  <2> QED BY <1>g, <2>1 DEF FlashInv, Placed, Passed, Secured
<1>9. ASSUME NEW s \in Line, Spawn(s) PROVE Placed' /\ Passed' /\ Secured'
  <2>1. /\ call'.img = call.img /\ call'.pc = call.pc /\ call.pc = "spawn"
        /\ call'.disk = IF s = "dd" THEN at[call.path] ELSE call.disk
        /\ UNCHANGED <<sent, corrupt, content>>
        /\ s \in Uses(call.img) /\ stage[s] = "absent"
    BY <1>9, <1>i DEF Spawn, Unspawned
  <2>2. \A t \in Stages : stage'[t] =
          IF t = s THEN IF s = "dd" /\ at[call.path] = NoDisk THEN "bad" ELSE "running"
          ELSE IF t = "sha" /\ s = "tee" THEN "running" ELSE stage[t]
    BY <1>9 DEF Spawn
  <2>3. /\ \A t : Before(t)' = Before(t) /\ Up(t)' = Up(t)
        /\ Checked' = Checked /\ Uses(call.img)' = Uses(call.img)
    BY <2>1 DEF Before, Up, Checked
  <2>4. \A t \in Line : t \in Stages /\ t # "sha"
    BY DEF Line, Stages
  <2>5. \A t \in Line : stage'[t] # stage[t] => t = s
    BY <2>2, <2>4
  <2>6. Placed'
    BY <2>1, <2>2, <2>3, <2>4, <2>5, <1>d DEF FlashInv, Placed
  <2>7. Passed'
    <3>1. stage'["unpack"] = "ok" => stage["unpack"] = "ok"
      BY <2>2, <2>4 DEF Line
    <3>2. stage'["dd"] = "ok" => stage["dd"] = "ok"
      BY <2>2, <1>d
    <3>3. Before("dd") # {} => Up("dd") \in Line
      BY UpIsLast, <1>d DEF FlashInv
    <3>4. Before("dd") # {} /\ stage[Up("dd")] \in Ended => stage'[Up("dd")] = stage[Up("dd")]
      BY <2>1, <2>5, <3>3 DEF Ended
    <3>5. sent["dd"] = Chunks => call'.disk = call.disk
      BY <2>1 DEF FlashInv, Placed
    <3> QED BY <2>1, <2>3, <3>1, <3>2, <3>4, <3>5 DEF FlashInv, Passed
  <2>8. Secured'
    BY <2>1, <2>3 DEF FlashInv, Secured
  <2> QED BY <2>6, <2>7, <2>8
<1> QED BY <1>1, <1>2, <1>3, <1>4, <1>5, <1>6, <1>7, <1>8, <1>9 DEF Caller

\* Every step keeps the invariant.
LEMMA StepKeeps == FlashInv /\ [FlashNext]_vars => FlashInv'
<1> SUFFICES ASSUME FlashInv, [FlashNext]_vars PROVE Placed' /\ Passed' /\ Secured'
  BY TypeStep DEF FlashInv
<1> USE FlashAssumption
<1>d. "dd" \in Line /\ "dd" \in Stages /\ "curl" \in Stages /\ "unpack" \in Stages
      /\ Line \subseteq Stages
  BY DEF Line, Stages
<1>1. ASSUME NEW img \in Images, NEW path \in Paths, Execute(img, path)
      PROVE  Placed' /\ Passed' /\ Secured'
  <2>1. \A s \in Stages : stage'[s] = "absent" /\ sent'[s] = 0
    BY <1>1 DEF Execute
  <2>2. call'.pc = "probe" /\ call'.disk = NoDisk /\ corrupt' = FALSE
    BY <1>1 DEF Execute
  <2> QED BY <2>1, <2>2, <1>d DEF Placed, Passed, Secured
<1>2. CASE Returned
  <2>1. /\ \A s \in Stages : sent'[s] = 0
        /\ \A s \in Stages : stage'[s] \in {"absent", "running"}
        /\ \A s \in Stages : stage'[s] = "running" => stage[s] = "running"
    BY <1>2 DEF Returned
  <2>2. UNCHANGED call /\ call.pc \in Verdicts /\ corrupt' = FALSE
    BY <1>2 DEF Returned
  <2>3. Uses(call.img)' = Uses(call.img)
    BY <2>2
  <2>4. stage["dd"] # "running"
    BY <2>2 DEF FlashInv, Placed, Verdicts
  <2>5. Placed'
    BY <2>1, <2>2, <2>3, <2>4, <1>d DEF FlashInv, Placed, Verdicts
  <2> QED BY <2>1, <2>2, <2>4, <2>5, <1>d DEF Passed, Secured, Verdicts
<1>3. ASSUME UNCHANGED <<call, stage, sent, corrupt, content>>
      PROVE  Placed' /\ Passed' /\ Secured'
  <2>1. /\ \A t : Before(t)' = Before(t) /\ Up(t)' = Up(t)
        /\ Checked' = Checked /\ Uses(call.img)' = Uses(call.img) /\ Sound' = Sound
    BY <1>3 DEF Before, Up, Checked, Sound
  <2> QED BY <1>3, <2>1 DEF FlashInv, Placed, Passed, Secured
<1>4. CASE Watch \/ Interrupt \/ SetCancel \/ Rename \/ (\E d \in Disks : Mount(d))
           \/ UNCHANGED vars
  BY <1>3, <1>4 DEF Watch, Interrupt, SetCancel, Rename, Mount, vars, pipeline
<1>5. CASE SpawnFails
  <2>1. /\ call.pc = "spawn" /\ call' = [call EXCEPT !.pc = "unwind"]
        /\ UNCHANGED <<stage, sent, corrupt, content>>
    BY <1>5 DEF SpawnFails, Goes, pipeline
  <2>2. call'.pc = "unwind" /\ call'.img = call.img /\ call'.disk = call.disk
    BY <2>1 DEF FlashInv, FlashTypeOK
  <2>3. /\ \A t : Before(t)' = Before(t) /\ Up(t)' = Up(t)
        /\ Uses(call.img)' = Uses(call.img)
    BY <2>1, <2>2 DEF Before, Up
  <2> QED BY <2>1, <2>2, <2>3 DEF FlashInv, Placed, Passed, Secured
<1> QED BY <1>1, <1>2, <1>4, <1>5, ProcessKeeps, CallerKeeps DEF FlashNext, Trouble

(***************************************************************************)
(* The contract.                                                            *)
(***************************************************************************)
\* A step of the pipeline is a step of the contract, or changes nothing of it.
LEMMA StepKeepsContract ==
  FlashInv /\ [FlashNext]_vars => [Contract!Next]_(Contract!vars)
<1> SUFFICES ASSUME FlashInv, [FlashNext]_vars PROVE [Contract!Next]_(Contract!vars)
  OBVIOUS
<1> USE FlashAssumption
<1> DEFINE Sees == <<call.pc, call.disk, call.img, content>>
<1>i. call \in [pc : {"idle"} \cup Busy \cup Verdicts, img : Images \cup {NoImage},
                path : Paths, disk : Disks \cup {NoDisk}]
  BY DEF FlashInv, FlashTypeOK
<1>q. ASSUME UNCHANGED <<call, content>> PROVE UNCHANGED Contract!vars
  BY <1>q DEF Contract!vars, Phase
<1>b. ASSUME call.pc \in Busy, call' = [call EXCEPT !.pc = call'.pc], call'.pc \in Busy,
             UNCHANGED content
      PROVE  UNCHANGED Contract!vars
  <2>1. call'.disk = call.disk /\ call'.img = call.img
    BY <1>b, <1>i
  <2> QED BY <1>b, <2>1 DEF Contract!vars, Phase
<1>f. ASSUME call.pc \in Busy, call' = [call EXCEPT !.pc = call'.pc],
             call'.pc \in {"failed", "cancelled", "crashed"}, UNCHANGED content
      PROVE  Contract!GiveUp
  <2>1. call'.disk = call.disk /\ call'.img = call.img
    BY <1>f, <1>i
  <2> QED BY <1>f, <2>1 DEF Contract!GiveUp, Phase, Busy
<1>1. ASSUME NEW img \in Images, NEW path \in Paths, Execute(img, path)
      PROVE  Contract!Begin
  <2>1. call.pc \notin Busy /\ call'.pc = "probe" /\ call'.disk = NoDisk
        /\ call'.img = img /\ UNCHANGED content
    BY <1>1 DEF Execute
  <2>2. (call'.img.url => call'.img.digest) \in BOOLEAN
    BY <2>1
  <2>3. Phase # "open" /\ Phase' = "open"
    BY <2>1, <1>i DEF Phase, Busy, Verdicts
  <2> QED BY <2>1, <2>2, <2>3 DEF Contract!Begin
<1>2. CASE Returned \/ Watch \/ Interrupt \/ SetCancel \/ Rename
           \/ (\E d \in Disks : Mount(d)) \/ UNCHANGED vars
  BY <1>2, <1>q DEF Returned, Watch, Interrupt, SetCancel, Rename, Mount, vars
<1>3. CASE SpawnFails
  BY <1>3, <1>b, <1>i DEF SpawnFails, Goes, Busy
<1>4. ASSUME NEW s \in Stages, Process(s) \/ Die(s) \/ Fail(s)
      PROVE  [Contract!Next]_(Contract!vars)
  <2>1. CASE s = "dd" /\ Move(s)
    <3>1. /\ UNCHANGED call
          /\ content' = [content EXCEPT ![call.disk] = Written(sent[s] + 1)]
      BY <2>1 DEF Move
    <3>2. stage["dd"] = "running"
      BY <2>1 DEF Move, Wants
    <3>3. call.pc \in Busy /\ call.disk # NoDisk
      BY <3>2 DEF FlashInv, Placed, Busy
    <3>4. Written(sent[s] + 1) \in {"partial", "image"}
      BY DEF Written
    <3>5. Contract!Write(Written(sent[s] + 1))
      BY <3>1, <3>3 DEF Contract!Write, Phase
    <3> QED BY <3>4, <3>5 DEF Contract!Next
  <2>2. CASE ~(s = "dd" /\ Move(s))
    <3>1. UNCHANGED <<call, content>>
      BY <1>4, <2>2 DEF Process, Move, Finish, Break, Hash, Die, Fail
    <3> QED BY <3>1, <1>q
  <2> QED BY <2>1, <2>2
<1>5. CASE Caller
  <2>1. CASE Reprobe
    BY <2>1, <1>b, <1>f, <1>i DEF Reprobe, Goes, Busy, Contract!Next
  <2>2. CASE HandOver
    BY <2>2, <1>b, <1>i DEF HandOver, Goes, Busy
  <2>3. CASE Unwind
    BY <2>3, <1>f, <1>i DEF Unwind, Goes, Busy, Contract!Next
  <2>4. CASE Collect
    <3>1. call' = [call EXCEPT !.pc = call'.pc] /\ call.pc \in Busy /\ UNCHANGED content
      BY <2>4, <1>i DEF Collect, Goes, Busy
    <3>2. call'.pc \in Busy \/ call'.pc \in {"failed", "cancelled", "crashed"}
      BY <2>4, <1>i DEF Collect, Goes, Busy, Verdict
    <3> QED BY <3>1, <3>2, <1>b, <1>f DEF Contract!Next
  <2>5. CASE OpenConvert
    <3>1. CASE at[call.path] = NoDisk
      BY <2>5, <3>1, <1>f, <1>i DEF OpenConvert, Busy, Contract!Next
    <3>2. CASE at[call.path] # NoDisk
      <4>1. at[call.path] \in Disks
        BY <3>2, <1>i DEF FlashInv, FlashTypeOK
      <4>2. call'.pc = call.pc /\ call'.img = call.img /\ call'.disk = at[call.path]
            /\ call.pc = "convert" /\ call.disk = NoDisk /\ UNCHANGED content
        BY <2>5, <3>2, <1>i DEF OpenConvert
      <4>3. Contract!Open(at[call.path])
        BY <4>2 DEF Contract!Open, Phase, Busy
      <4> QED BY <4>1, <4>3 DEF Contract!Next
    <3> QED BY <3>1, <3>2
  <2>6. CASE Convert
    <3> DEFINE what == IF Sound /\ Capacity[call.disk] >= Chunks THEN "image" ELSE "partial"
    <3>1. /\ call.pc = "convert" /\ call.disk # NoDisk /\ call'.pc = "converted"
          /\ call'.disk = call.disk /\ call'.img = call.img
          /\ content' = [content EXCEPT ![call.disk] = what]
      BY <2>6, <1>i DEF Convert, Goes
    <3>2. Contract!Write(what)
      BY <3>1 DEF Contract!Write, Phase, Busy
    <3> QED BY <3>2 DEF Contract!Next
  <2>7. CASE EndConvert
    <3>1. call' = [call EXCEPT !.pc = call'.pc] /\ call.pc \in Busy /\ UNCHANGED content
          /\ call'.pc \in {"settle", "failed"}
      BY <2>7, <1>i DEF EndConvert, Goes, Busy
    <3> QED BY <3>1, <1>b, <1>f DEF Busy, Contract!Next
  <2>8. CASE Settle
    <3>1. call.pc = "settle" /\ call'.pc = "ok" /\ call'.disk = call.disk
          /\ call'.img = call.img /\ UNCHANGED content
      BY <2>8, <1>i DEF Settle, Goes
    <3>2. call.disk # NoDisk /\ (Checked => content[call.disk] = "image")
      BY <3>1 DEF FlashInv, Secured
    <3>3. Contract!Succeed
      BY <3>1, <3>2 DEF Contract!Succeed, Phase, Busy, Checked
    <3> QED BY <3>3 DEF Contract!Next
  <2>9. ASSUME NEW s \in Line, Spawn(s) PROVE [Contract!Next]_(Contract!vars)
    <3>1. CASE s # "dd" \/ at[call.path] = NoDisk
      <4>1. call.pc = "spawn" /\ (s = "dd" => stage["dd"] = "absent")
        BY <2>9 DEF Spawn, Unspawned
      <4>2. s = "dd" => call.disk = NoDisk
        BY <4>1 DEF FlashInv, Placed
      <4>3. UNCHANGED <<call.pc, call.img, call.disk, content>>
        BY <2>9, <3>1, <4>2, <1>i DEF Spawn
      <4> QED BY <4>3 DEF Contract!vars, Phase
    <3>2. CASE s = "dd" /\ at[call.path] # NoDisk
      <4>1. at[call.path] \in Disks
        BY <3>2, <1>i DEF FlashInv, FlashTypeOK
      <4>2. call.pc = "spawn" /\ stage["dd"] = "absent" /\ call'.pc = call.pc
            /\ call'.img = call.img /\ call'.disk = at[call.path] /\ UNCHANGED content
        BY <2>9, <3>2, <1>i DEF Spawn, Unspawned
      <4>3. call.disk = NoDisk
        BY <4>2 DEF FlashInv, Placed
      <4>4. Contract!Open(at[call.path])
        BY <4>2, <4>3 DEF Contract!Open, Phase, Busy
      <4> QED BY <4>1, <4>4 DEF Contract!Next
    <3> QED BY <3>1, <3>2
  <2> QED BY <1>5, <2>1, <2>2, <2>3, <2>4, <2>5, <2>6, <2>7, <2>8, <2>9 DEF Caller
<1> QED BY <1>1, <1>2, <1>3, <1>4, <1>5 DEF FlashNext, Trouble, Contract!Next

\* A flash starts with the invariant.
LEMMA InitHolds == FlashInit => FlashInv
<1> SUFFICES ASSUME FlashInit PROVE FlashInv
  OBVIOUS
<1>1. call.pc = "idle" /\ corrupt = FALSE /\ call.disk = NoDisk
  BY DEF FlashInit
<1>2. \A s \in Stages : stage[s] = "absent" /\ sent[s] = 0
  BY DEF FlashInit
<1>3. Placed /\ Passed /\ Secured
  BY <1>1, <1>2, FlashAssumption DEF Placed, Passed, Secured, Line, Stages
<1> QED BY <1>3, InitTyped DEF FlashInv

\* It holds of every reachable state of a flash.
LEMMA FlashInvariant == FlashSpec => []FlashInv
BY InitHolds, StepKeeps, PTL DEF FlashSpec

\* A streaming write keeps the contract of a call of execute_plan, whatever
\* fails, for any disks, images and lengths.
THEOREM FlashKeepsContract == FlashSpec => ContractKept
<1>1. FlashInit => Contract!Init
  BY DEF FlashInit, Contract!Init, Phase, Busy, NoImage
<1> QED BY <1>1, FlashInvariant, StepKeepsContract, PTL
        DEF FlashSpec, ContractKept, Contract!Spec

-----------------------------------------------------------------------------

(***************************************************************************)
(* What nothing can detect.                                                 *)
(***************************************************************************)
\* Faults only add up.
LEMMA FaultsGrow == [FlashNext]_vars => faults \subseteq faults'
<1> SUFFICES ASSUME [FlashNext]_vars PROVE faults \subseteq faults'
  OBVIOUS
<1> USE DEF Fault
<1>1. ASSUME NEW img \in Images, NEW path \in Paths, Execute(img, path)
      PROVE  faults \subseteq faults'
  BY <1>1 DEF Execute
<1>2. CASE Returned \/ Watch \/ Interrupt \/ SetCancel \/ UNCHANGED vars
  BY <1>2 DEF Returned, Watch, Interrupt, SetCancel, vars
<1>3. CASE Caller
  BY <1>3 DEF Caller, Reprobe, HandOver, Unwind, Collect, OpenConvert, Convert,
              EndConvert, Settle, Spawn
<1>4. ASSUME NEW s \in Stages, Process(s) \/ Die(s) PROVE faults \subseteq faults'
  BY <1>4 DEF Process, Move, Finish, Break, Hash, Die
<1>5. CASE Trouble
  BY <1>5 DEF Trouble, SpawnFails, Rename, Fail, Mount
<1> QED BY <1>1, <1>2, <1>3, <1>4, <1>5 DEF FlashNext

\* What could not be detected before cannot be detected now.
LEMMA StaysUndetectable ==
  ASSUME [FlashNext]_vars, NEW img, Undetectable(img)
  PROVE  Undetectable(img)'
BY FaultsGrow DEF Undetectable

(***************************************************************************)
(* What comes through the pipeline when nothing that cannot be detected      *)
(* has happened.                                                            *)
(***************************************************************************)
Flowed ==
  /\ corrupt => "corrupt" \in faults
  /\ stage["curl"] = "ok" => sent["curl"] = Chunks \/ "short" \in faults
  /\ stage["meter"] = "ok" => stage["curl"] \in Ended /\ sent["meter"] = sent["curl"]

\* What holds of the disk, then, when the call ends.
Landed ==
  ~Undetectable(call.img) =>
    /\ call.pc \in {"convert", "converted"} => Sound
    /\ call.pc = "converted" /\ Capacity[call.disk] >= Chunks => content[call.disk] = "image"
    /\ call.pc \in {"settle", "ok"} => content[call.disk] = "image"

\* The download meter reads from curl, and dd of a raw image from the meter.
LEMMA MeterReadsCurl ==
  ASSUME FlashTypeOK
  PROVE  /\ Before("curl") = {}
         /\ "meter" \in Uses(call.img) => Before("meter") # {} /\ Up("meter") = "curl"
         /\ call.img.fmt = "img" /\ call.img.url /\ ~call.img.digest
              => Before("dd") # {} /\ Up("dd") = "meter"
<1>t. call.img \in [url : BOOLEAN, fmt : Formats, digest : BOOLEAN]
  BY ImageTyped
<1>s. "dd" \in Stages /\ "meter" \in Stages /\ "curl" \in Stages
  BY DEF Stages, Line
<1>b. /\ Before("dd") = {t \in Uses(call.img) : Rank[t] < 5}
      /\ Before("meter") = {t \in Uses(call.img) : Rank[t] < 2}
      /\ Before("curl") = {t \in Uses(call.img) : Rank[t] < 1}
  BY BeforeOf, RankValues, <1>s
<1>1. Before("curl") = {}
  <2>1. ASSUME NEW t \in Line PROVE ~(Rank[t] < 1)
    BY RankValues DEF Line
  <2> QED BY <2>1, RankValues, <1>b, <1>t DEF Uses
<1>2. ASSUME "meter" \in Uses(call.img) PROVE Before("meter") # {} /\ Up("meter") = "curl"
  <2>0. "curl" \in Uses(call.img)
    BY <1>2 DEF Uses, Line
  <2>1. "curl" \in Before("meter")
    BY <2>0, <1>b, RankValues
  <2>2. \A t \in {"meter", "tee", "unpack", "dd"} : t \notin Before("meter")
    BY RankValues, <1>b
  <2> QED BY <2>1, <2>2, UpIsLast, <1>s DEF Line
<1>3. ASSUME call.img.fmt = "img", call.img.url, ~call.img.digest
      PROVE  Before("dd") # {} /\ Up("dd") = "meter"
  <2>1. "meter" \in Uses(call.img) /\ "unpack" \notin Uses(call.img) /\ "tee" \notin Uses(call.img)
    BY <1>3 DEF Uses, Line, Streams
  <2>2. "meter" \in Before("dd") /\ "dd" \notin Before("dd") /\ "unpack" \notin Before("dd")
        /\ "tee" \notin Before("dd")
    BY <2>1, <1>b, RankValues
  <2> QED BY <2>2, UpIsLast, <1>s, RankValues DEF Line
<1> QED BY <1>1, <1>2, <1>3

\* Every step keeps what is known of the flow.
LEMMA FlowStep ==
  ASSUME FlashInv, Flowed, [FlashNext]_vars
  PROVE  Flowed'
<1> USE FlashAssumption
<1>d. "curl" \in Line /\ "meter" \in Line /\ "curl" \in Stages /\ "meter" \in Stages
  BY DEF Line, Stages
<1>s. ASSUME UNCHANGED <<stage, sent, corrupt>> PROVE Flowed'
  BY <1>s, FaultsGrow DEF Flowed
<1>1. ASSUME NEW img \in Images, NEW path \in Paths, Execute(img, path) PROVE Flowed'
  BY <1>1, <1>d DEF Execute, Flowed
<1>2. CASE Returned
  BY <1>2, <1>d DEF Returned, Flowed
<1>3. CASE Watch \/ Interrupt \/ SetCancel \/ UNCHANGED vars
  BY <1>3, <1>s DEF Watch, Interrupt, SetCancel, vars, pipeline
<1>4. CASE SpawnFails \/ Rename \/ \E d \in Disks : Mount(d)
  BY <1>4, <1>s DEF SpawnFails, Rename, Mount, pipeline
<1>5. CASE Caller
  <2>1. CASE \E s \in Line : Spawn(s)
    <3>1. PICK s \in Line : Spawn(s)
      BY <2>1
    <3>2. \A t \in {"curl", "meter"} : stage'[t] = "ok" => stage[t] = "ok"
      BY <3>1, <1>d DEF Spawn
    <3>3. stage["curl"] \in Ended => stage'["curl"] = stage["curl"]
      BY <3>1, <1>d DEF Spawn, Unspawned, Ended
    <3> QED BY <3>1, <3>2, <3>3 DEF Spawn, Flowed
  <2>2. CASE ~\E s \in Line : Spawn(s)
    BY <1>5, <2>2, <1>s DEF Caller, Reprobe, HandOver, Unwind, Collect, OpenConvert,
                            Convert, EndConvert, Settle, pipeline
  <2> QED BY <2>1, <2>2
<1>6. ASSUME NEW s \in Stages, s \in Line, Move(s) PROVE Flowed'
  <2>1. stage[s] = "running" /\ UNCHANGED stage /\ sent' = [sent EXCEPT ![s] = @ + 1]
    BY <1>6 DEF Move, Wants
  <2>2. corrupt' => "corrupt" \in faults'
    BY <1>6, FaultsGrow DEF Move, Flowed, Fault
  <2>3. \A t \in {"curl", "meter"} : t # s => sent'[t] = sent[t]
    BY <2>1, <1>d DEF FlashInv, FlashTypeOK
  <2> QED BY <2>1, <2>2, <2>3, FaultsGrow DEF Flowed, Ended
<1>7. ASSUME NEW s \in Stages, NEW how \in Ended, stage[s] = "running", Ends(s, how),
             UNCHANGED <<sent, corrupt>>,
             how = "ok" /\ s \in {"curl", "meter"} =>
               Finish(s) \/ (s = "curl" /\ "short" \in faults')
      PROVE  Flowed'
  <2>1. stage' = [stage EXCEPT ![s] = how]
    BY <1>7 DEF Ends
  <2>2. ASSUME stage'["curl"] = "ok" PROVE sent["curl"] = Chunks \/ "short" \in faults'
    <3>1. CASE s = "curl"
      BY <1>7, <2>1, <2>2, <3>1, <1>d, MeterReadsCurl, ImageTyped
         DEF FlashInv, FlashTypeOK, Finish, Input
    <3>2. CASE s # "curl"
      BY <2>1, <2>2, <3>2, <1>d, FaultsGrow DEF FlashInv, FlashTypeOK, Flowed
    <3> QED BY <3>1, <3>2
  <2>3. ASSUME stage'["meter"] = "ok"
        PROVE  stage'["curl"] \in Ended /\ sent["meter"] = sent["curl"]
    <3>1. CASE s = "meter"
      <4>1. how = "ok" /\ stage'["curl"] = stage["curl"]
        BY <2>1, <2>3, <3>1, <1>d DEF FlashInv, FlashTypeOK
      <4>2. Before("meter") # {} /\ Up("meter") = "curl"
        <5>1. "meter" \in Uses(call.img)
          BY <1>7, <3>1, <1>d DEF FlashInv, Placed
        <5> QED BY <5>1, MeterReadsCurl, ImageTyped DEF FlashInv
      <4> QED BY <1>7, <3>1, <4>1, <4>2 DEF Finish, InputEnds, Input
    <3>2. CASE s # "meter"
      <4>1. stage["meter"] = "ok"
        BY <2>1, <2>3, <3>2, <1>d DEF FlashInv, FlashTypeOK
      <4>2. stage["curl"] \in Ended /\ sent["meter"] = sent["curl"] /\ s # "curl"
        BY <1>7, <4>1 DEF Flowed, Ended
      <4> QED BY <2>1, <4>2, <1>d DEF FlashInv, FlashTypeOK
    <3> QED BY <3>1, <3>2
  <2> QED BY <1>7, <2>2, <2>3, FaultsGrow DEF Flowed
<1>8. ASSUME NEW s \in Stages, Process(s) \/ Die(s) \/ Fail(s), ~(s \in Line /\ Move(s))
      PROVE  Flowed'
  <2>1. \E how \in Ended :
          /\ stage[s] = "running" /\ Ends(s, how)
          /\ UNCHANGED <<sent, corrupt>>
          /\ how = "ok" /\ s \in {"curl", "meter"} =>
               Finish(s) \/ (s = "curl" /\ "short" \in faults')
    <3>1. CASE Finish(s)
      BY <3>1 DEF Finish
    <3>2. CASE Break(s)
      BY <3>2 DEF Break, Wants, Ended
    <3>3. CASE s = "sha" /\ Hash
      BY <3>3 DEF Hash, Ended
    <3>4. CASE Die(s)
      BY <3>4 DEF Die, Ended
    <3>5. CASE Fail(s)
      BY <3>5 DEF Fail, Ended, Fault
    <3> QED BY <1>8, <3>1, <3>2, <3>3, <3>4, <3>5 DEF Process
  <2> QED BY <2>1, <1>7
<1> QED BY <1>1, <1>2, <1>3, <1>4, <1>5, <1>6, <1>8 DEF FlashNext, Trouble, Process

\* When a call ends the disk holds the image, or nothing could have told.
LEMMA LandStep ==
  ASSUME FlashInv, Flowed, Landed, [FlashNext]_vars
  PROVE  Landed'
<1> USE FlashAssumption
<1>d. "dd" \in Line /\ "curl" \in Line /\ "meter" \in Line /\ "unpack" \in Line
      /\ "dd" \in Stages /\ "curl" \in Stages
  BY DEF Line, Stages
<1>t. call.img \in [url : BOOLEAN, fmt : Formats, digest : BOOLEAN]
  BY ImageTyped DEF FlashInv
<1>c. call \in [pc : {"idle"} \cup Busy \cup Verdicts, img : Images \cup {NoImage},
                path : Paths, disk : Disks \cup {NoDisk}]
  BY DEF FlashInv, FlashTypeOK
<1>q. ASSUME UNCHANGED <<call, sent, corrupt, content>> PROVE Landed'
  BY <1>q, StaysUndetectable DEF Landed, Sound
<1>g. ASSUME call' = [call EXCEPT !.pc = call'.pc],
             call'.pc \notin {"convert", "converted", "settle", "ok"}
      PROVE  Landed'
  BY <1>g DEF Landed
<1>1. ASSUME NEW img \in Images, NEW path \in Paths, Execute(img, path) PROVE Landed'
  <2>1. call'.pc = "probe"
    BY <1>1 DEF Execute
  <2> QED BY <2>1 DEF Landed
<1>2. CASE Returned
  <2>1. UNCHANGED <<call, content>> /\ call.pc \in Verdicts
    BY <1>2 DEF Returned
  <2> QED BY <2>1, StaysUndetectable DEF Landed, Verdicts
<1>3. CASE Watch \/ Interrupt \/ SetCancel \/ Rename \/ (\E d \in Disks : Mount(d))
           \/ UNCHANGED vars
  BY <1>3, <1>q DEF Watch, Interrupt, SetCancel, Rename, Mount, vars, pipeline
<1>4. CASE SpawnFails
  BY <1>4, <1>g, <1>c DEF SpawnFails, Goes
<1>5. ASSUME NEW s \in Stages, s \in Line, Move(s) PROVE Landed'
  <2>1. /\ stage[s] = "running" /\ sent' = [sent EXCEPT ![s] = @ + 1] /\ UNCHANGED call
        /\ s # "dd" => UNCHANGED content
        /\ s # "curl" => UNCHANGED corrupt
    BY <1>5 DEF Move, Wants
  <2>2. call.pc \in {"convert", "converted"} => s # "curl" /\ s # "dd"
    BY <2>1 DEF FlashInv, Secured
  <2>3. call.pc \in {"settle", "ok"} => s # "dd"
    BY <2>1 DEF FlashInv, Placed
  <2>4. s # "curl" => sent'["curl"] = sent["curl"]
    BY <2>1, <1>d DEF FlashInv, FlashTypeOK
  <2>5. s # "curl" => Sound' = Sound
    BY <2>1, <2>4 DEF Sound
  <2> QED BY <2>1, <2>2, <2>3, <2>5, StaysUndetectable DEF Landed
<1>6. ASSUME NEW s \in Stages, Process(s) \/ Die(s) \/ Fail(s), ~(s \in Line /\ Move(s))
      PROVE  Landed'
  <2>1. UNCHANGED <<call, sent, corrupt, content>>
    BY <1>6 DEF Process, Finish, Break, Hash, Die, Fail
  <2> QED BY <2>1, <1>q
<1>7. CASE Caller
  \* A source that gives damage away is secured already.
  <2>c. ASSUME Checked', call'.pc # "ok" PROVE Landed'
    BY <2>c, StepKeeps DEF FlashInv, Secured, Landed
  <2>1. CASE Reprobe
    <3>1. call' = [call EXCEPT !.pc = call'.pc] /\ call'.pc \in {"failed", "convert", "spawn"}
          /\ (call'.pc = "convert" => Uses(call.img) = {})
      BY <2>1, <1>c DEF Reprobe, Goes
    <3>2. Uses(call.img) = {} => ~call.img.url
      BY <1>d, <1>t DEF Uses
    <3>3. call'.img = call.img
      BY <3>1, <1>c
    <3> QED BY <3>1, <3>2, <3>3, <2>c, <1>g DEF Checked
  <2>2. CASE HandOver \/ Unwind
    BY <2>2, <1>g, <1>c DEF HandOver, Unwind, Goes
  <2>3. CASE Collect
    <3>1. /\ call' = [call EXCEPT !.pc = Verdict] /\ call'.img = call.img
          /\ call'.disk = call.disk /\ call'.pc = Verdict
          /\ UNCHANGED <<stage, sent, corrupt, content, faults>>
          /\ call.pc = "run"
      BY <2>3, <1>c DEF Collect, Goes, pipeline
    <3>2. Verdict \in {"crashed", "cancelled", "failed", "convert", "settle"}
      BY DEF Verdict
    <3>3. /\ Verdict = "convert" => AllFine /\ call.img.fmt = "qcow2"
          /\ Verdict = "settle" => AllFine /\ call.img.fmt # "qcow2"
      BY DEF Verdict
    <3>4. CASE Checked'
      BY <3>1, <3>2, <3>4, <2>c
    <3>5. CASE ~Checked' /\ ~Undetectable(call.img)
      <4>1. call.img.url /\ ~call.img.digest
        BY <3>1, <3>5, <1>t DEF Checked
      <4>2. ~corrupt /\ ("short" \notin faults \/ call.img.fmt = "packed")
        BY <3>5, <4>1 DEF Undetectable, Flowed
      <4>3. ASSUME Verdict = "convert" PROVE Sound
        <5>0. "curl" \in Waited
          BY <3>3, <4>1, <4>3, <1>d DEF Waited, Uses
        <5>1. stage["curl"] = "ok"
          BY <3>3, <4>3, <5>0 DEF AllFine
        <5> QED BY <3>3, <4>2, <4>3, <5>1 DEF Flowed, Sound
      <4>4. ASSUME Verdict = "settle" PROVE content[call.disk] = "image"
        <5>1. call.img.fmt \in {"img", "packed"}
          BY <3>1, <3>3, <4>4, <1>t DEF FlashInv, Secured, Formats
        <5>2. "dd" \in Waited /\ stage["dd"] = "ok"
          BY <3>3, <4>4, <5>1, <1>d DEF Waited, Uses, Streams, AllFine
        <5>3. CASE call.img.fmt = "packed"
          <6>1. "unpack" \in Waited
            BY <5>3 DEF Waited, Uses, Line
          <6>2. sent["unpack"] = Chunks
            BY <3>3, <4>4, <6>1 DEF AllFine, FlashInv, Passed
          <6> QED BY <4>2, <5>2, <5>3, <6>2, <1>t, WhatDdReads DEF FlashInv, Passed
        <5>4. CASE call.img.fmt = "img"
          <6>1. "curl" \in Waited /\ "meter" \in Waited
            BY <4>1, <5>4, <1>d DEF Waited, Uses, Streams
          <6>2. stage["curl"] = "ok" /\ stage["meter"] = "ok"
            BY <3>3, <4>4, <6>1 DEF AllFine
          <6>3. sent["meter"] = Chunks
            BY <4>2, <5>4, <6>2 DEF Flowed
          <6> QED BY <4>1, <4>2, <5>2, <5>4, <6>3, <1>t, MeterReadsCurl
                  DEF FlashInv, Passed
        <5> QED BY <5>1, <5>3, <5>4
      <4>5. Sound' = Sound
        BY <3>1 DEF Sound
      <4> QED BY <3>1, <3>2, <4>3, <4>4, <4>5 DEF Landed
    <3>6. CASE Undetectable(call.img)
      BY <3>1, <3>6 DEF Landed, Undetectable
    <3> QED BY <3>4, <3>5, <3>6
  <2>4. CASE OpenConvert
    <3>1. /\ UNCHANGED <<sent, corrupt, content>> /\ call'.img = call.img
          /\ call.pc = "convert" /\ call'.pc \in {"failed", "convert"}
      BY <2>4, <1>c DEF OpenConvert, pipeline
    <3>2. Sound' = Sound
      BY <3>1 DEF Sound
    <3> QED BY <3>1, <3>2, StaysUndetectable DEF Landed
  <2>5. CASE Convert
    <3>1. /\ UNCHANGED <<sent, corrupt>> /\ call'.img = call.img /\ call'.disk = call.disk
          /\ call.pc = "convert" /\ call'.pc = "converted" /\ call.disk \in Disks
          /\ content' = [content EXCEPT ![call.disk] =
                           IF Sound /\ Capacity[call.disk] >= Chunks THEN "image" ELSE "partial"]
      BY <2>5, <1>c DEF Convert, Goes, pipeline
    <3>2. Sound' = Sound
      BY <3>1 DEF Sound
    <3>3. Sound /\ Capacity[call.disk] >= Chunks => content'[call.disk] = "image"
      BY <3>1 DEF FlashInv, FlashTypeOK
    <3> QED BY <3>1, <3>2, <3>3, StaysUndetectable DEF Landed
  <2>6. CASE EndConvert
    <3>1. /\ UNCHANGED <<sent, corrupt, content>> /\ call'.img = call.img
          /\ call'.disk = call.disk /\ call.pc = "converted" /\ call'.pc \in {"settle", "failed"}
          /\ call'.pc = "settle" => Capacity[call.disk] >= Chunks
      BY <2>6, <1>c DEF EndConvert, Goes, pipeline
    <3> QED BY <3>1, StaysUndetectable DEF Landed
  <2>7. CASE Settle
    <3>1. /\ UNCHANGED content /\ call'.img = call.img
          /\ call'.disk = call.disk /\ call.pc = "settle" /\ call'.pc = "ok"
      BY <2>7, <1>c DEF Settle, Goes, pipeline
    <3> QED BY <3>1, StaysUndetectable DEF Landed
  <2>8. ASSUME NEW s \in Line, Spawn(s) PROVE Landed'
    <3>1. call.pc = "spawn" /\ call'.pc = call.pc
      BY <2>8, <1>c DEF Spawn
    <3> QED BY <3>1 DEF Landed
  <2> QED BY <1>7, <2>1, <2>2, <2>3, <2>4, <2>5, <2>6, <2>7, <2>8 DEF Caller
<1> QED BY <1>1, <1>2, <1>3, <1>4, <1>5, <1>6, <1>7 DEF FlashNext, Trouble, Process

\* A flash starts with all of it.
LEMMA FlashStarts == FlashInit => FlashTypeOK /\ FlashInv /\ Flowed /\ Landed
<1> SUFFICES ASSUME FlashInit PROVE FlashTypeOK /\ FlashInv /\ Flowed /\ Landed
  OBVIOUS
<1>1. call.pc = "idle" /\ corrupt = FALSE
  BY DEF FlashInit
<1>2. stage["curl"] = "absent" /\ stage["meter"] = "absent"
  BY DEF FlashInit, Stages, Line
<1>3. FlashInv
  BY InitHolds
<1> QED BY <1>1, <1>2, <1>3 DEF FlashInv, Flowed, Landed

(***************************************************************************)
(* The wizard.                                                              *)
(***************************************************************************)
\* Whatever the wizard does, the flash sees a flash or nothing; an unattended
\* run has an image, and a flash runs only while its screen is up.
Hosted ==
  /\ WizardTypeOK
  /\ wizard.auto => wizard.image \in Images
  /\ call.pc \in Busy => wizard.at = "flash"

\* The name and the disk that are picked belong together.
Aimed ==
  /\ wizard.aim.disk = NoDisk => wizard.aim = NoAim
  /\ Unattended => wizard.aim.disk # NoDisk
  /\ wizard.aim.disk # NoDisk /\ ~Unattended /\ "swap" \notin faults
       => at[wizard.aim.path] = wizard.aim.disk

\* What the flash of the wizard's screen is about.
Flashing ==
  wizard.at = "flash" =>
    /\ ~wizard.post_flash
    /\ wizard.aim.disk # NoDisk
    /\ call.img = wizard.image /\ call.path = wizard.aim.path
    /\ "swap" \notin faults => call.disk \in {NoDisk, wizard.aim.disk}
    /\ call.pc = "ok" => call.disk # NoDisk
    /\ {"swap", "mount"} \cap faults = {} /\ call.pc \notin {"probe", "failed"}
         => wizard.aim.disk \notin mounted

WizardInv == Hosted /\ Aimed /\ Flashing /\ ShownIsWritten

\* There is a name to aim at.
LEMMA NoAimTyped ==
  ASSUME FlashTypeOK
  PROVE  NoAim \in [path : Paths, disk : Disks \cup {NoDisk}] /\ NoAim.disk = NoDisk
<1>1. call.path \in Paths
  BY DEF FlashTypeOK
<1>2. (CHOOSE p \in Paths : TRUE) \in Paths
  BY <1>1
<1> QED BY <1>2 DEF NoAim

\* A wizard that starts.
LEMMA FreshTyped ==
  ASSUME FlashTypeOK, NEW source \in BOOLEAN
  PROVE  /\ Fresh(source) \in Fields
         /\ Fresh(source).aim = NoAim /\ ~Fresh(source).post_flash
         /\ ~Fresh(source).auto /\ Fresh(source).at = "screen"
<1>1. NoImage \in Images \cup {NoImage}
  OBVIOUS
<1> HIDE DEF NoImage, NoAim
<1> QED BY <1>1, NoAimTyped DEF Fresh, Fields

\* Every step of the wizard is a step of a flash or leaves it alone.
LEMMA WizardFlashStep ==
  ASSUME Hosted, [WizardNext]_allvars
  PROVE  [FlashNext]_vars
<1>1. CASE FlashThread
  BY <1>1 DEF FlashThread, FlashNext
<1>2. CASE EndFlash
  BY <1>2 DEF EndFlash, FlashNext
<1>3. CASE Confirm
  <2>1. wizard.image \in Images /\ wizard.aim.path \in Paths
    BY <1>3 DEF Confirm, On, Stage, Hosted, WizardTypeOK, Fields
  <2> QED BY <1>3, <2>1 DEF Confirm, Start, FlashNext
<1>4. CASE RunAuto
  <2>1. wizard.image \in Images
    BY <1>4 DEF RunAuto, Unattended, Hosted
  <2> QED BY <1>4, <2>1 DEF RunAuto, Start, Set, FlashNext
<1>5. CASE Operator
  BY <1>3, <1>5 DEF Operator, Launch, ChooseCatalog, PickImage, LaunchAuto, PickDisk,
                    BackToDisk, BackToImage, BackToCatalog, BackFromReboot, Quit,
                    Acknowledge, Set
<1>6. CASE Probe \/ MissDisk \/ EndAuto
  BY <1>6 DEF Probe, MissDisk, EndAuto, Set
<1>7. CASE UNCHANGED allvars
  BY <1>7 DEF allvars
<1> QED BY <1>1, <1>2, <1>4, <1>5, <1>6, <1>7 DEF WizardNext, Machine

\* The screens keep the types and what they know of the aim.
LEMMA ScreenKeeps ==
  ASSUME WizardInv, UNCHANGED <<vars, runs>>, wizard' \in Fields,
         wizard'.auto => wizard'.image \in Images,
         wizard'.at # "flash", call.pc \notin Busy,
         Aimed', wizard'.post_flash => wizard.post_flash /\ wizard'.aim = wizard.aim
                                         /\ wizard'.image = wizard.image
  PROVE  WizardInv'
<1>1. WizardTypeOK'
  BY DEF WizardInv, Hosted, WizardTypeOK, FlashTypeOK, vars, pipeline, surroundings
<1>2. Hosted'
  BY <1>1 DEF Hosted, vars
<1>3. ShownIsWritten'
  BY DEF WizardInv, ShownIsWritten, Undetectable, vars
<1> QED BY <1>2, <1>3 DEF WizardInv, Flashing

\* The screens, one by one.
LEMMA OperatorKeeps ==
  ASSUME WizardInv, wizard.at # "flash",
         Operator \/ Probe \/ MissDisk \/ EndAuto, ~Confirm
  PROVE  WizardInv'
<1> USE FlashAssumption, WizardAssumption
<1>0. /\ wizard \in Fields /\ FlashTypeOK /\ call.pc \notin Busy
      /\ wizard.auto => wizard.image \in Images
      /\ NoAim \in [path : Paths, disk : Disks \cup {NoDisk}] /\ NoAim.disk = NoDisk
  BY NoAimTyped DEF WizardInv, Hosted, WizardTypeOK
<1> HIDE DEF NoImage, NoAim
\* Steps that leave the aim alone, and those that drop it.
<1>a. ASSUME NEW w \in Fields, Set(w), w.at # "flash", w.aim = wizard.aim,
             ~Unattended, w.at = "screen" /\ w.auto => w.post_flash,
             w.auto => wizard.auto /\ w.image = wizard.image,
             w.post_flash => wizard.post_flash /\ w.image = wizard.image
      PROVE  WizardInv'
  <2>1. UNCHANGED <<vars, runs>> /\ wizard' = w
    BY <1>a DEF Set
  <2>2. Aimed'
    BY <1>a, <2>1 DEF WizardInv, Aimed, Unattended, vars, surroundings
  <2> QED BY <1>a, <2>1, <2>2, <1>0, ScreenKeeps
<1>b. ASSUME NEW w \in Fields, Set(w), w.at # "flash", w.aim = NoAim,
             ~w.auto, ~w.post_flash
      PROVE  WizardInv'
  <2>1. UNCHANGED <<vars, runs>> /\ wizard' = w
    BY <1>b DEF Set
  <2>2. Aimed'
    BY <1>b, <2>1, <1>0 DEF Aimed, Unattended
  <2> QED BY <1>b, <2>1, <2>2, <1>0, ScreenKeeps
<1>1. ASSUME NEW source \in BOOLEAN, Launch(source) PROVE WizardInv'
  <2>1. Fresh(source) \in Fields /\ Fresh(source).aim = NoAim /\ ~Fresh(source).post_flash
        /\ ~Fresh(source).auto /\ Fresh(source).at = "screen"
    BY <1>0, FreshTyped
  <2> QED BY <1>1, <2>1, <1>b DEF Launch
<1>2. ASSUME NEW source \in BOOLEAN, ChooseCatalog(source) PROVE WizardInv'
  <2> DEFINE w == [wizard EXCEPT !.chosen = TRUE, !.source = source]
  <2>1. w \in Fields /\ w.at = wizard.at /\ w.aim = wizard.aim /\ w.auto = wizard.auto
        /\ w.image = wizard.image /\ w.post_flash = wizard.post_flash
    BY <1>0 DEF Fields
  <2>2. ~wizard.auto /\ Set(w) /\ wizard.at = "screen"
    BY <1>2 DEF ChooseCatalog, On
  <2> HIDE DEF w
  <2> QED BY <2>1, <2>2, <1>a DEF Unattended
<1>3. ASSUME NEW img \in Images, PickImage(img) PROVE WizardInv'
  <2> DEFINE w == [wizard EXCEPT !.image = img]
  <2>1. w \in Fields /\ w.at = wizard.at /\ w.aim = wizard.aim /\ w.auto = wizard.auto
        /\ w.post_flash = wizard.post_flash
    BY <1>0 DEF Fields
  <2>2. ~wizard.auto /\ Set(w) /\ wizard.at = "screen" /\ ~wizard.post_flash
    BY <1>3, <1>0 DEF PickImage, On, Stage, Fields
  <2> HIDE DEF w
  <2> QED BY <2>1, <2>2, <1>a DEF Unattended
<1>4. ASSUME NEW img \in Assigned, NEW dsk \in Disks, LaunchAuto(img, dsk)
      PROVE  WizardInv'
  <2> DEFINE w == [Fresh(TRUE) EXCEPT !.auto = TRUE, !.image = img, !.aim.disk = dsk]
  <2>1. Fresh(TRUE) \in Fields /\ Fresh(TRUE).at = "screen" /\ ~Fresh(TRUE).post_flash
    BY <1>0, FreshTyped
  <2>2. w \in Fields /\ w.at = "screen" /\ w.auto /\ w.image = img /\ w.aim.disk = dsk
        /\ ~w.post_flash /\ img \in Images
    BY <2>1 DEF Fields
  <2>3. UNCHANGED <<vars, runs>> /\ wizard' = w
    BY <1>4 DEF LaunchAuto, Set
  <2> HIDE DEF w
  <2>4. Aimed'
    BY <2>2, <2>3 DEF Aimed, Unattended
  <2> QED BY <2>2, <2>3, <2>4, <1>0, ScreenKeeps
<1>5. ASSUME NEW path \in Paths, PickDisk(path) PROVE WizardInv'
  <2> DEFINE w == [wizard EXCEPT !.aim = [path |-> path, disk |-> at[path]]]
  <2>1. at[path] \in Disks
    BY <1>0, <1>5 DEF PickDisk, FlashTypeOK
  <2>2. w \in Fields /\ w.at = wizard.at /\ w.auto = wizard.auto /\ w.image = wizard.image
        /\ w.post_flash = wizard.post_flash /\ w.aim.disk = at[path] /\ w.aim.path = path
    BY <1>0, <2>1 DEF Fields
  <2>3. UNCHANGED <<vars, runs>> /\ wizard' = w /\ wizard.at = "screen" /\ ~wizard.auto
        /\ ~wizard.post_flash
    BY <1>5, <1>0 DEF PickDisk, Set, On, Stage, Fields
  <2> HIDE DEF w
  <2>4. Aimed'
    BY <2>1, <2>2, <2>3 DEF Aimed, Unattended, vars, surroundings
  <2> QED BY <2>2, <2>3, <2>4, <1>0, ScreenKeeps
<1>6. CASE BackToDisk
  <2> DEFINE w == [wizard EXCEPT !.plan = "none", !.aim = NoAim]
  <2>1. w \in Fields /\ w.at = wizard.at /\ w.aim = NoAim /\ w.auto = wizard.auto
        /\ w.post_flash = wizard.post_flash
    BY <1>0 DEF Fields
  <2>2. ~wizard.auto /\ Set(w) /\ wizard.at = "screen" /\ ~wizard.post_flash
    BY <1>6, <1>0 DEF BackToDisk, On, Stage, Fields
  <2> HIDE DEF w
  <2> QED BY <2>1, <2>2, <1>b
<1>7. CASE BackToImage
  <2> DEFINE w == [wizard EXCEPT !.image = NoImage]
  <2>1. w \in Fields /\ w.at = wizard.at /\ w.aim = wizard.aim /\ w.auto = wizard.auto
        /\ w.post_flash = wizard.post_flash
    BY <1>0 DEF Fields
  <2>2. ~wizard.auto /\ Set(w) /\ wizard.at = "screen" /\ ~wizard.post_flash
    BY <1>7, <1>0 DEF BackToImage, On, Stage, Fields
  <2> HIDE DEF w
  <2> QED BY <2>1, <2>2, <1>a DEF Unattended
<1>8. CASE BackToCatalog
  <2> DEFINE w == [wizard EXCEPT !.chosen = FALSE]
  <2>1. w \in Fields /\ w.at = wizard.at /\ w.aim = wizard.aim /\ w.auto = wizard.auto
        /\ w.image = wizard.image /\ w.post_flash = wizard.post_flash
    BY <1>0 DEF Fields
  <2>2. ~wizard.auto /\ Set(w) /\ wizard.at = "screen"
    BY <1>8 DEF BackToCatalog, On
  <2> HIDE DEF w
  <2> QED BY <2>1, <2>2, <1>a DEF Unattended
<1>9. CASE BackFromReboot
  <2> DEFINE w == [wizard EXCEPT !.post_flash = FALSE, !.aim = NoAim]
  <2>1. w \in Fields /\ w.at = wizard.at /\ w.aim = NoAim /\ w.auto = wizard.auto
        /\ ~w.post_flash
    BY <1>0 DEF Fields
  <2>2. ~wizard.auto /\ Set(w) /\ wizard.at = "screen"
    BY <1>9 DEF BackFromReboot, On
  <2> HIDE DEF w
  <2> QED BY <2>1, <2>2, <1>b
<1>10. CASE Quit \/ EndAuto
  <2> DEFINE w == [wizard EXCEPT !.at = "left"]
  <2>1. w \in Fields /\ w.at = "left" /\ w.aim = wizard.aim /\ w.auto = wizard.auto
        /\ w.image = wizard.image /\ w.post_flash = wizard.post_flash
    BY <1>0 DEF Fields
  <2>2. ~Unattended /\ Set(w)
    BY <1>10 DEF Quit, EndAuto, Unattended
  <2> HIDE DEF w
  <2> QED BY <2>1, <2>2, <1>a
<1>11. CASE Acknowledge
  <2> DEFINE w == [wizard EXCEPT !.at = "screen", !.auto = FALSE]
  <2>1. w \in Fields /\ w.at = "screen" /\ w.aim = wizard.aim /\ ~w.auto
        /\ w.image = wizard.image /\ w.post_flash = wizard.post_flash
    BY <1>0 DEF Fields
  <2>2. ~Unattended /\ Set(w)
    BY <1>11 DEF Acknowledge, Unattended
  <2> HIDE DEF w
  <2> QED BY <2>1, <2>2, <1>a
<1>12. CASE Probe
  <2>1. PICK plan \in Validated(wizard.image, wizard.aim.path) :
          Set([wizard EXCEPT !.plan = plan])
    BY <1>12 DEF Probe
  <2> DEFINE w == [wizard EXCEPT !.plan = plan]
  <2>2. plan \in {"valid", "rejected"}
    BY <2>1 DEF Validated
  <2>3. w \in Fields /\ w.at = wizard.at /\ w.aim = wizard.aim /\ w.auto = wizard.auto
        /\ w.image = wizard.image /\ w.post_flash = wizard.post_flash
    BY <1>0, <2>2 DEF Fields
  <2>4. ~wizard.auto /\ Set(w) /\ wizard.at = "screen"
    BY <1>12, <2>1 DEF Probe, On
  <2> HIDE DEF w
  <2> QED BY <2>3, <2>4, <1>a DEF Unattended
<1>13. CASE MissDisk
  <2> DEFINE w == [wizard EXCEPT !.auto = FALSE, !.aim = NoAim]
  <2>1. w \in Fields /\ w.at = wizard.at /\ w.aim = NoAim /\ ~w.auto
        /\ w.post_flash = wizard.post_flash
    BY <1>0 DEF Fields
  <2>2. Set(w) /\ wizard.at = "screen" /\ ~wizard.post_flash
    BY <1>13 DEF MissDisk, Unattended
  <2> HIDE DEF w
  <2> QED BY <2>1, <2>2, <1>b
<1> QED BY <1>1, <1>2, <1>3, <1>4, <1>5, <1>6, <1>7, <1>8, <1>9, <1>10, <1>11, <1>12, <1>13
        DEF Operator

\* A flash that starts, by hand or by the plan.
LEMMA StartKeeps ==
  ASSUME WizardInv, NEW img \in Images, NEW path \in Paths, Start(img, path),
         wizard' \in Fields, wizard'.at = "flash", ~wizard'.post_flash,
         wizard'.image = img, wizard'.aim = [path |-> path, disk |-> wizard.aim.disk],
         wizard.aim.disk # NoDisk, "swap" \notin faults => at[path] = wizard.aim.disk
  PROVE  WizardInv'
<1>1. /\ call' = [pc |-> "probe", img |-> img, path |-> path, disk |-> NoDisk]
      /\ UNCHANGED <<content, at, mounted, faults>> /\ runs < MaxRuns /\ runs' = runs + 1
  BY DEF Start, Execute, surroundings
<1>2. FlashTypeOK'
  <2>1. [FlashNext]_vars
    BY DEF Start, FlashNext
  <2> QED BY <2>1, TypeStep DEF WizardInv, Hosted, WizardTypeOK
<1>3. runs' \in 0..MaxRuns
  BY <1>1, WizardAssumption DEF WizardInv, Hosted, WizardTypeOK
<1>4. Hosted'
  BY <1>2, <1>3 DEF Hosted, WizardTypeOK
<1>5. wizard'.aim.path = path /\ wizard'.aim.disk = wizard.aim.disk
  OBVIOUS
<1>6. Aimed'
  BY <1>1, <1>5 DEF Aimed, Unattended
<1>7. Flashing'
  BY <1>1, <1>5 DEF Flashing
<1> QED BY <1>4, <1>6, <1>7 DEF WizardInv, ShownIsWritten

\* Confirming, and the unattended run.
LEMMA RunKeeps ==
  ASSUME WizardInv, Confirm \/ RunAuto
  PROVE  WizardInv'
<1> USE FlashAssumption
<1>0. /\ wizard \in Fields /\ FlashTypeOK
      /\ wizard.auto => wizard.image \in Images
      /\ NoAim.disk = NoDisk
  BY NoAimTyped DEF WizardInv, Hosted, WizardTypeOK
<1> HIDE DEF NoImage, NoAim
<1>1. CASE Confirm
  <2> DEFINE w == [wizard EXCEPT !.at = "flash", !.plan = "none"]
  <2>1. /\ ~wizard.auto /\ ~wizard.post_flash /\ wizard.image \in Images
        /\ wizard.aim # NoAim /\ Start(wizard.image, wizard.aim.path) /\ wizard' = w
        /\ wizard.at = "screen"
    BY <1>0, <1>1 DEF Confirm, On, Stage, Fields
  <2>2. /\ w \in Fields /\ w.at = "flash" /\ w.aim = wizard.aim /\ w.image = wizard.image
        /\ w.post_flash = wizard.post_flash
    BY <1>0 DEF Fields
  <2>3. wizard.aim.path \in Paths
        /\ wizard.aim = [path |-> wizard.aim.path, disk |-> wizard.aim.disk]
    BY <1>0 DEF Fields
  <2>4. wizard.aim.disk # NoDisk
        /\ ("swap" \notin faults => at[wizard.aim.path] = wizard.aim.disk)
    BY <2>1 DEF WizardInv, Aimed, Unattended
  <2> HIDE DEF w
  <2> QED BY <2>1, <2>2, <2>3, <2>4, StartKeeps
<1>2. CASE RunAuto
  <2>1. PICK path \in Paths :
          /\ at[path] = wizard.aim.disk
          /\ \/ /\ Start(wizard.image, path)
                /\ wizard' = [wizard EXCEPT !.at = "flash", !.aim.path = path]
             \/ Set([wizard EXCEPT !.auto = FALSE, !.aim.path = path])
    BY <1>2 DEF RunAuto
  <2>2. wizard.at = "screen" /\ wizard.auto /\ ~wizard.post_flash /\ wizard.image \in Images
        /\ wizard.aim.disk # NoDisk
    BY <1>0, <1>2 DEF RunAuto, Unattended, WizardInv, Aimed
  <2>3. CASE /\ Start(wizard.image, path)
             /\ wizard' = [wizard EXCEPT !.at = "flash", !.aim.path = path]
    <3> DEFINE w == [wizard EXCEPT !.at = "flash", !.aim.path = path]
    <3>1. /\ w \in Fields /\ w.at = "flash" /\ w.image = wizard.image
          /\ w.aim = [path |-> path, disk |-> wizard.aim.disk]
          /\ w.post_flash = wizard.post_flash
      BY <1>0 DEF Fields
    <3>2. wizard' = w /\ Start(wizard.image, path)
      BY <2>3
    <3> HIDE DEF w
    <3> QED BY <2>1, <2>2, <3>1, <3>2, StartKeeps
  <2>4. CASE Set([wizard EXCEPT !.auto = FALSE, !.aim.path = path])
    <3> DEFINE w == [wizard EXCEPT !.auto = FALSE, !.aim.path = path]
    <3>1. /\ w \in Fields /\ w.at = wizard.at /\ w.image = wizard.image /\ ~w.auto
          /\ w.aim.path = path /\ w.aim.disk = wizard.aim.disk
          /\ w.post_flash = wizard.post_flash
      BY <1>0 DEF Fields
    <3>2. UNCHANGED <<vars, runs>> /\ wizard' = w
      BY <2>4 DEF Set
    <3> HIDE DEF w
    <3>3. Aimed'
      BY <2>1, <2>2, <3>1, <3>2 DEF Aimed, Unattended, vars, surroundings
    <3>4. call.pc \notin Busy
      BY <2>2 DEF WizardInv, Hosted
    <3> QED BY <2>2, <3>1, <3>2, <3>3, <3>4, ScreenKeeps
  <2> QED BY <2>1, <2>3, <2>4
<1> QED BY <1>1, <1>2

\* The end of a flash: the reboot screen comes up only for a disk that holds the
\* image.
LEMMA EndKeeps ==
  ASSUME WizardInv, Landed, EndFlash
  PROVE  WizardInv'
<1>0. wizard \in Fields /\ FlashTypeOK
  BY DEF WizardInv, Hosted, WizardTypeOK
<1>1. /\ wizard.at = "flash" /\ call.pc \in Verdicts /\ UNCHANGED <<call, content, at, mounted, faults, runs>>
      /\ wizard' = IF call.pc = "ok" THEN [wizard EXCEPT !.at = "screen", !.post_flash = TRUE]
                   ELSE [wizard EXCEPT !.at = "ack"]
  BY DEF EndFlash, Returned, Good, surroundings
<1>2. /\ wizard' \in Fields /\ wizard'.aim = wizard.aim /\ wizard'.image = wizard.image
      /\ wizard'.auto = wizard.auto
      /\ wizard'.at = IF call.pc = "ok" THEN "screen" ELSE "ack"
      /\ wizard'.post_flash = (call.pc = "ok" \/ wizard.post_flash)
  <2> HIDE DEF NoImage
  <2> QED BY <1>0, <1>1 DEF Fields
<1>3. FlashTypeOK'
  <2>1. [FlashNext]_vars
    BY DEF EndFlash, FlashNext
  <2> QED BY <2>1, <1>0, TypeStep
<1>4. Hosted'
  BY <1>1, <1>2, <1>3 DEF WizardInv, Hosted, WizardTypeOK, Busy, Verdicts
<1>5. Aimed'
  BY <1>1, <1>2 DEF WizardInv, Aimed, Unattended
<1>6. Flashing'
  BY <1>2 DEF Flashing
<1>7. ShownIsWritten'
  <2> SUFFICES ASSUME wizard'.post_flash, "swap" \notin faults, ~Undetectable(wizard.image)
               PROVE  content[wizard.aim.disk] = "image"
    BY <1>1, <1>2 DEF ShownIsWritten, Undetectable
  <2>1. ~wizard.post_flash /\ call.img = wizard.image
        /\ (call.pc = "ok" => call.disk = wizard.aim.disk)
    BY <1>1 DEF WizardInv, Flashing
  <2> QED BY <1>2, <2>1 DEF Landed
<1> QED BY <1>4, <1>5, <1>6, <1>7 DEF WizardInv

\* A step of the flash that is running.
Running ==
  \/ Caller
  \/ \E s \in Stages : Process(s) \/ Die(s)
  \/ Watch \/ Interrupt \/ SetCancel
  \/ Trouble

\* A disk is written by the flash that is up, and it is the one that was opened.
LEMMA WhoWrites ==
  ASSUME FlashInv, Running, NEW d \in Disks, content'[d] # content[d]
  PROVE  d = call.disk /\ call.pc \in Busy \ {"probe"} /\ call.disk # NoDisk
<1> USE FlashAssumption
<1>1. CASE \E s \in Stages : Process(s) \/ Die(s)
  <2>1. stage["dd"] = "running"
        /\ content' = [content EXCEPT ![call.disk] = Written(sent["dd"] + 1)]
    BY <1>1 DEF Process, Move, Finish, Break, Hash, Die, Wants
  <2> QED BY <2>1 DEF FlashInv, Placed, FlashTypeOK, Busy
<1>2. CASE Convert
  BY <1>2 DEF Convert, FlashInv, FlashTypeOK, Busy
<1>3. CASE Caller /\ ~Convert
  BY <1>3 DEF Caller, Reprobe, HandOver, Unwind, Collect, OpenConvert, EndConvert, Settle,
              Spawn
<1>4. CASE Watch \/ Interrupt \/ SetCancel \/ Trouble
  BY <1>4 DEF Watch, Interrupt, SetCancel, Trouble, SpawnFails, Rename, Fail, Mount
<1> QED BY <1>1, <1>2, <1>3, <1>4 DEF Running

\* What a step of the flash does to the call, the names and the mounts.
LEMMA RunningMoves ==
  ASSUME FlashInv, Running
  PROVE  /\ call'.img = call.img /\ call'.path = call.path
         /\ call'.pc \in Busy => call.pc \in Busy
         /\ call'.disk = call.disk \/ call'.disk = at[call.path]
         /\ call'.pc = "ok" => \/ call.pc = "ok" /\ call'.disk = call.disk
                              \/ call'.disk # NoDisk
         /\ "swap" \notin faults' => UNCHANGED at
         /\ "mount" \notin faults' => UNCHANGED mounted
         /\ call'.pc \notin {"probe", "failed"} =>
              call.pc \notin {"probe", "failed"} \/ at[call.path] \notin mounted
<1> USE FlashAssumption
<1>c. call \in [pc : {"idle"} \cup Busy \cup Verdicts, img : Images \cup {NoImage},
                path : Paths, disk : Disks \cup {NoDisk}]
  BY DEF FlashInv, FlashTypeOK
<1>1. CASE \E s \in Stages : Process(s) \/ Die(s) \/ Fail(s)
  BY <1>1 DEF Process, Move, Finish, Break, Hash, Die, Fail, surroundings
<1>2. CASE Watch \/ Interrupt \/ SetCancel
  BY <1>2 DEF Watch, Interrupt, SetCancel, surroundings
<1>3. CASE Rename \/ \E d \in Disks : Mount(d)
  BY <1>3 DEF Rename, Mount, Fault
<1>4. CASE SpawnFails
  BY <1>4, <1>c DEF SpawnFails, Goes, surroundings, Busy
<1>5. CASE Reprobe
  BY <1>5, <1>c DEF Reprobe, Goes, surroundings, Busy, Usable
<1>6. CASE HandOver \/ Unwind
  BY <1>6, <1>c DEF HandOver, Unwind, Goes, surroundings, Busy
<1>7. CASE Collect
  <2>1. Verdict # "ok" /\ call.pc = "run"
    BY <1>7 DEF Verdict, Collect
  <2> QED BY <1>7, <2>1, <1>c DEF Collect, Goes, surroundings, Busy
<1>8. CASE OpenConvert
  BY <1>8, <1>c DEF OpenConvert, surroundings, Busy
<1>9. CASE Convert \/ EndConvert
  BY <1>9, <1>c DEF Convert, EndConvert, Goes, surroundings, Busy
<1>10. CASE Settle
  <2>1. call.disk # NoDisk
    BY <1>10 DEF Settle, FlashInv, Secured
  <2> QED BY <1>10, <2>1, <1>c DEF Settle, Goes, surroundings, Busy
<1>11. CASE \E s \in Line : Spawn(s)
  BY <1>11, <1>c DEF Spawn, surroundings, Busy
<1> QED BY <1>1, <1>2, <1>3, <1>4, <1>5, <1>6, <1>7, <1>8, <1>9, <1>10, <1>11
        DEF Running, Caller, Trouble

\* The flash keeps the invariant of the wizard.
LEMMA ThreadKeeps ==
  ASSUME WizardInv, FlashInv, FlashThread
  PROVE  WizardInv'
<1>0. Running /\ UNCHANGED <<wizard, runs>> /\ [FlashNext]_vars
  BY DEF FlashThread, Running, FlashNext
<1>1. faults \subseteq faults'
  BY <1>0, FaultsGrow
<1>2. Hosted'
  BY <1>0, TypeStep, RunningMoves DEF WizardInv, Hosted, WizardTypeOK
<1>3. Aimed'
  BY <1>0, <1>1, RunningMoves DEF WizardInv, Aimed, Unattended
<1>4. Flashing'
  <2> SUFFICES ASSUME wizard.at = "flash"
               PROVE  /\ call'.img = wizard.image /\ call'.path = wizard.aim.path
                      /\ "swap" \notin faults' => call'.disk \in {NoDisk, wizard.aim.disk}
                      /\ call'.pc = "ok" => call'.disk # NoDisk
                      /\ {"swap", "mount"} \cap faults' = {} /\ call'.pc \notin {"probe", "failed"}
                           => wizard.aim.disk \notin mounted'
    BY <1>0 DEF WizardInv, Flashing
  <2>1. "swap" \notin faults => at[call.path] = wizard.aim.disk
    BY DEF WizardInv, Flashing, Aimed, Unattended
  <2> QED BY <1>0, <1>1, <2>1, RunningMoves DEF WizardInv, Flashing
<1>5. ShownIsWritten'
  <2> SUFFICES ASSUME wizard.post_flash, "swap" \notin faults', ~Undetectable(wizard.image)'
               PROVE  content'[wizard.aim.disk] = "image"
    BY <1>0 DEF ShownIsWritten, Undetectable
  <2>1. content[wizard.aim.disk] = "image"
    BY <1>0, <1>1 DEF WizardInv, ShownIsWritten, Undetectable
  <2>2. call.pc \notin Busy
    BY DEF WizardInv, Hosted, Flashing
  <2>3. CASE wizard.aim.disk \in Disks
    BY <1>0, <2>1, <2>2, <2>3, WhoWrites
  <2>4. CASE wizard.aim.disk \notin Disks
    <3>1. UNCHANGED content
      <4>1. \A d \in Disks : content'[d] = content[d]
        BY <1>0, <2>2, WhoWrites
      <4>2. content \in [Disks -> {"old", "partial", "image"}]
            /\ content' \in [Disks -> {"old", "partial", "image"}]
        BY <1>2 DEF FlashInv, FlashTypeOK, Hosted, WizardTypeOK
      <4> QED BY <4>1, <4>2
    <3> QED BY <2>1, <3>1
  <2> QED BY <2>3, <2>4
<1> QED BY <1>2, <1>3, <1>4, <1>5 DEF WizardInv

\* Every step keeps the invariant of the wizard.
LEMMA WizardStep ==
  ASSUME WizardInv, FlashInv, Landed, [WizardNext]_allvars
  PROVE  WizardInv'
<1>1. CASE UNCHANGED allvars
  BY <1>1 DEF allvars, vars, pipeline, surroundings, WizardInv, Hosted, WizardTypeOK,
              FlashTypeOK, Aimed, Unattended, Flashing, ShownIsWritten, Undetectable
<1>2. ASSUME Operator \/ Probe \/ MissDisk \/ EndAuto, ~Confirm PROVE wizard.at # "flash"
  BY <1>2 DEF Operator, Probe, MissDisk, EndAuto, Launch, ChooseCatalog, PickImage,
              LaunchAuto, PickDisk, BackToDisk, BackToImage, BackToCatalog, BackFromReboot,
              Quit, Acknowledge, On, Unattended
<1> QED BY <1>1, <1>2, OperatorKeeps, RunKeeps, EndKeeps, ThreadKeeps
        DEF WizardNext, Machine, Operator

(***************************************************************************)
(* The theorems.                                                            *)
(***************************************************************************)
\* The flash the wizard runs is a flash of FlashPipeline.
LEMMA WizardFlashes == WizardSpec => FlashSpec /\ []WizardInv
<1>1. WizardInit => FlashInit
  BY DEF WizardInit
<1>2. WizardInit /\ FlashTypeOK => WizardInv
  <2> SUFFICES ASSUME WizardInit, FlashTypeOK PROVE WizardInv
    OBVIOUS
  <2>1. Fresh(FALSE) \in Fields /\ Fresh(FALSE).aim = NoAim /\ ~Fresh(FALSE).post_flash
        /\ ~Fresh(FALSE).auto
    BY FreshTyped
  <2> HIDE DEF NoAim, NoImage
  <2>2. wizard \in Fields /\ wizard.at = "left" /\ wizard.aim = NoAim
        /\ ~wizard.post_flash /\ ~wizard.auto
    BY <2>1 DEF WizardInit, Fields
  <2>3. NoAim.disk = NoDisk
    BY NoAimTyped
  <2>4. call.pc = "idle" /\ runs = 0
    BY DEF WizardInit, FlashInit
  <2> QED BY <2>2, <2>3, <2>4, WizardAssumption
          DEF WizardInv, Hosted, WizardTypeOK, Aimed, Unattended, Flashing, ShownIsWritten, Busy
<1>3. WizardInv /\ [WizardNext]_allvars => [FlashNext]_vars
  BY WizardFlashStep DEF WizardInv
<1>4. WizardInv /\ FlashInv /\ Flowed /\ Landed /\ [WizardNext]_allvars
        => WizardInv' /\ FlashInv' /\ Flowed' /\ Landed'
  BY <1>3, WizardStep, StepKeeps, FlowStep, LandStep
<1>5. FlashInit => FlashTypeOK /\ FlashInv /\ Flowed /\ Landed
  BY FlashStarts
<1> QED BY <1>1, <1>2, <1>3, <1>4, <1>5, PTL DEF WizardSpec, FlashSpec

\* Every reachable state of the wizard and its flash is well typed.
THEOREM WizardTypeCorrect == WizardSpec => []WizardTypeOK
<1>1. WizardInv => WizardTypeOK
  BY DEF WizardInv, Hosted
<1> QED BY <1>1, WizardFlashes, PTL

\* The flash of the wizard keeps the contract of a call of execute_plan.
THEOREM WizardKeepsContract == WizardSpec => ContractKept
BY WizardFlashes, FlashKeepsContract, PTL

\* The reboot screen speaks the truth, but for what nothing can detect and for
\* names that change.
THEOREM ShownIsTrue == WizardSpec => []ShownIsWritten
<1>1. WizardInv => ShownIsWritten
  BY DEF WizardInv
<1> QED BY <1>1, WizardFlashes, PTL

\* No disk is written but the one that was picked, while its screen is up, and
\* none that was in use from the start.
THEOREM PickedDiskOnly == WizardSpec => OnlyPickedDiskWritten
<1> DEFINE Picked ==
      \A d \in Disks :
        content'[d] # content[d] /\ "swap" \notin faults =>
          /\ wizard.at = "flash" /\ d = wizard.aim.disk
          /\ d \in mounted => "mount" \in faults
<1>1. ASSUME WizardInv, FlashInv, [WizardNext]_allvars PROVE [Picked]_allvars
  <2> SUFFICES ASSUME NEW d \in Disks, content'[d] # content[d], "swap" \notin faults
               PROVE  /\ wizard.at = "flash" /\ d = wizard.aim.disk
                      /\ d \in mounted => "mount" \in faults
    OBVIOUS
  <2>1. Running
    BY <1>1 DEF WizardNext, Operator, Machine, Launch, ChooseCatalog, PickImage, LaunchAuto,
                PickDisk, BackToDisk, BackToImage, BackToCatalog, BackFromReboot, Quit,
                Confirm, Acknowledge, Probe, EndFlash, RunAuto, MissDisk, EndAuto, Set, Start,
                Execute, Returned, vars, allvars, FlashThread, Running
  <2>2. d = call.disk /\ call.pc \in Busy \ {"probe"} /\ call.disk # NoDisk
    BY <1>1, <2>1, WhoWrites
  <2> QED BY <1>1, <2>2 DEF WizardInv, Hosted, Flashing, Busy
<1>2. OnlyPickedDiskWritten <=> [][Picked]_allvars
  BY DEF OnlyPickedDiskWritten
<1>3. FlashSpec => []FlashInv
  BY FlashInvariant
<1> QED BY <1>1, <1>2, <1>3, WizardFlashes, PTL DEF WizardSpec

=============================================================================
