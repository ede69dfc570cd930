---------------------------- MODULE ConfigProofs ----------------------------
(***************************************************************************)
(* What the Settings page shows, and what a save may do to the primary file *)
(* and achieves, for every search list, every number of overlapping saves   *)
(* and every kill.                                                          *)
(*                                                                         *)
(* The primary file is the same one in the whole life of an installation,  *)
(* since a save creates no file that was no candidate before.  A save that *)
(* runs alone finds at each place of its way either the file or the         *)
(* temporary file beside it in agreement, while nothing is agreed about     *)
(* saves that overlap.  The merge of the layers, a recursion over the       *)
(* search list, is a function that can be written down for all keys and     *)
(* numbers of files at once; the primary file is the highest of them, so    *)
(* what it says is what a load shows.                                       *)
(***************************************************************************)
EXTENDS Config, NaturalsInduction, WellFoundedInduction, TLAPS

All == Values \cup {Unset}
Fields == {"pc", "key", "val", "path", "body", "fd", "alone", "view"}
Kept(b) == \A k \in Keys : b[k] \in agreed[k]

(***************************************************************************)
(* The primary file.                                                       *)
(***************************************************************************)
\* Any natural numbers have a least one among them.
LEMMA Least ==
  ASSUME NEW S \in SUBSET Nat, S # {}
  PROVE  \E n \in S : \A m \in S : ~(m < n)
<1>1. IsWellFoundedOn(OpToRel(<, Nat), Nat)
  BY NatLessThanWellFounded
<1>2. PICK n \in S : \A m \in S : <<m, n>> \notin OpToRel(<, Nat)
  BY <1>1, WFMin
<1>3. \A m \in S : ~(m < n)
  BY <1>2 DEF OpToRel
<1> QED BY <1>3

\* A bounded set of numbers that is not empty has a greatest element.
LEMMA Greatest ==
  ASSUME NEW n \in Nat, NEW S \in SUBSET (1..n), S # {}
  PROVE  \E i \in S : \A j \in S : j <= i
<1> DEFINE T == {n - i : i \in S}
<1>1. T \in SUBSET Nat /\ T # {}
  <2>1. \A i \in S : i \in Int /\ i <= n
    OBVIOUS
  <2>2. \A i \in S : n - i \in Nat
    BY <2>1
  <2> QED BY <2>2
<1>2. PICK t \in T : \A u \in T : ~(u < t)
  <2> HIDE DEF T
  <2> QED BY <1>1, Least
<1>3. PICK i \in S : t = n - i
  OBVIOUS
<1>4. ASSUME NEW j \in S PROVE j <= i
  <2>1. n - j \in T
    OBVIOUS
  <2>2. ~(n - j < n - i)
    BY <1>2, <1>3, <2>1
  <2>3. i \in Int /\ j \in Int
    OBVIOUS
  <2> QED BY <2>2, <2>3
<1> QED BY <1>4

\* The primary file can be written: it is no directory, and it is there or may
\* be made.
LEMMA PrimaryIsCandidate ==
  ASSUME deployment \in Deployments, Primary # NoPath
  PROVE  Primary \in Paths /\ Candidate(Primary)
<1> DEFINE list == deployment.search
           ranks == {i \in DOMAIN list : Candidate(list[i])}
<1>1. list \in Seq(Paths)
  BY ConfigAssumption
<1>2. Len(list) \in Nat /\ DOMAIN list = 1..Len(list) /\ \A i \in DOMAIN list : list[i] \in Paths
  BY <1>1
<1>3. ranks # {} /\ Primary = list[CHOOSE i \in ranks : \A j \in ranks : j <= i]
  BY DEF Primary
<1>4. ranks \in SUBSET (1..Len(list))
  BY <1>2
<1> HIDE DEF ranks
<1>5. \E i \in ranks : \A j \in ranks : j <= i
  BY <1>2, <1>3, <1>4, Greatest
<1>6. (CHOOSE i \in ranks : \A j \in ranks : j <= i) \in ranks
  BY <1>5
<1> QED BY <1>2, <1>3, <1>6 DEF ranks

\* As long as the candidates are the same ones, so is the primary file.
LEMMA PrimaryStays ==
  ASSUME UNCHANGED deployment, \A p : Candidate(p)' <=> Candidate(p)
  PROVE  Primary' = Primary
<1> DEFINE list == deployment.search
           ranks == {i \in DOMAIN list : Candidate(list[i])}
<1>1. list' = list
  OBVIOUS
<1>2. ranks' = ranks
  BY <1>1
<1>3. Primary = IF ranks = {} THEN NoPath
                ELSE list[CHOOSE i \in ranks : \A j \in ranks : j <= i]
  BY DEF Primary
<1>4. Primary' = IF ranks' = {} THEN NoPath
                 ELSE list'[CHOOSE i \in ranks' : \A j \in ranks' : j <= i]
  BY DEF Primary
<1> HIDE DEF list, ranks
<1> QED BY <1>1, <1>2, <1>3, <1>4

(***************************************************************************)
(* The invariant.                                                          *)
(***************************************************************************)
\* What the argument needs to know of the shape of the state.
Shaped ==
  /\ deployment \in Deployments
  /\ there \subseteq Paths
  /\ text \in [Paths -> Bodies] /\ tmp \in [there : BOOLEAN, text : Bodies]
  /\ agreed \in [Keys -> SUBSET All]
  /\ saver = [s \in Savers |-> saver[s]]
  /\ \A s \in Savers :
       /\ DOMAIN saver[s] = Fields
       /\ saver[s].pc \in {"idle", "read", "open", "write", "rename", "fill",
                           "reload", "set"}
       /\ saver[s].body \in Bodies /\ saver[s].alone \in BOOLEAN

\* A save that is under way is one of the primary file, the same for all.
Routed ==
  /\ active.primary = Primary
  /\ Primary \notin there => Primary = NoPath \/ text[Primary] = Empty
  /\ \A s \in Savers : saver[s].pc # "idle" =>
       /\ saver[s].path = Primary /\ Primary # NoPath
       /\ saver[s].key \in Keys /\ saver[s].val \in All
       /\ saver[s].fd = "path" => Primary \in there
       /\ saver[s].pc = "fill" => Primary \in there
       /\ saver[s].pc = "set" => saver[s].view.primary = Primary
  /\ \A s \in Savers : saver[s].pc = "idle" => saver[s].fd = "none"

\* Nothing is agreed about saves that overlap; one that is alone has no other
\* beside it.
Apart ==
  /\ \A s, o \in Savers :
       saver[s].alone /\ saver[s].pc # "idle" /\ o # s => saver[o].pc = "idle"
  /\ \A s \in Savers :
       saver[s].pc # "idle" /\ ~saver[s].alone => \A k \in Keys : agreed[k] = All

\* What a save that is alone finds at each place of its way.
Progress(s) ==
  LET me == saver[s]
      meant == Kept(me.body) /\ me.body[me.key] = me.val
  IN  /\ me.pc = "read" => Kept(text[Primary]) /\ me.val \in agreed[me.key]
      /\ me.pc \in {"open", "write", "rename"} => Kept(text[Primary]) /\ meant
      /\ me.pc \in {"write", "rename"} => me.fd = "tmp" /\ tmp.there
      /\ me.pc \in {"rename", "fill"} => tmp.text = me.body
      /\ me.pc = "fill" => Primary \in deployment.mounted /\ tmp.there /\ meant
      /\ me.pc \in {"reload", "set"} =>
           Kept(text[Primary]) /\ text[Primary][me.key] = me.val

Safe ==
  Primary # NoPath =>
    Kept(text[Primary]) \/ (Primary \in deployment.mounted /\ tmp.there /\ Kept(tmp.text))

ConfigInv ==
  /\ Shaped /\ Routed /\ Apart /\ Safe
  /\ \A s \in Savers : saver[s].alone => Progress(s)

LEMMA InvIsWanted == ConfigInv => NothingWiped
  BY DEF ConfigInv, Routed, Safe, NothingWiped, Kept

\* A body is one; the loaded configuration names the primary file.
LEMMA Basics ==
  /\ Empty \in Bodies /\ Unset \in All
  /\ LoadConfig.primary = Primary
  /\ DOMAIN Idle = Fields /\ Idle.pc = "idle" /\ Idle.fd = "none" /\ Idle.alone = FALSE
  /\ Idle.body = Empty
BY DEF Empty, Bodies, All, LoadConfig, Idle, Fields

\* A body that sets one key otherwise is one.
LEMMA BodyTyped ==
  ASSUME NEW b \in Bodies, NEW k \in Keys, NEW v \in All
  PROVE  /\ [b EXCEPT ![k] = v] \in Bodies /\ [b EXCEPT ![k] = v][k] = v
         /\ \A l \in Keys : l # k => [b EXCEPT ![k] = v][l] = b[l]
BY DEF Bodies, All

LEMMA InvInit == Init => ConfigInv
<1> SUFFICES ASSUME Init PROVE ConfigInv
  OBVIOUS
<1>1. /\ deployment \in Deployments /\ there \subseteq Paths
      /\ active = LoadConfig /\ saver = [s \in Savers |-> Idle]
      /\ tmp = [there |-> FALSE, text |-> Empty]
      /\ agreed = [k \in Keys |-> IF Primary = NoPath THEN Values \cup {Unset}
                                  ELSE {text[Primary][k]}]
  BY ConfigAssumption DEF Init
<1>2. text \in [Paths -> Bodies] /\ \A p \in Paths : p \notin there => text[p] = Empty
  BY Basics DEF Init
<1>3. Primary # NoPath => Primary \in Paths
  BY <1>1, PrimaryIsCandidate
<1>4. \A s \in Savers : saver[s] = Idle
  BY <1>1
<1>5. agreed \in [Keys -> SUBSET All]
  <2>1. ASSUME NEW k \in Keys, Primary # NoPath PROVE text[Primary][k] \in All
    BY <1>2, <1>3, <2>1 DEF Bodies, All
  <2> QED BY <1>1, <2>1 DEF All
<1>6. Shaped
  BY <1>1, <1>2, <1>4, <1>5, Basics DEF Shaped
<1>7. Routed
  BY <1>1, <1>2, <1>3, <1>4, Basics DEF Routed
<1>8. Apart /\ \A s \in Savers : saver[s].alone => Progress(s)
  BY <1>4, Basics DEF Apart
<1>9. Safe
  BY <1>1 DEF Safe, Kept
<1> QED BY <1>6, <1>7, <1>8, <1>9 DEF ConfigInv

(***************************************************************************)
(* One step.                                                               *)
(***************************************************************************)
\* A step makes at most the primary file, which stays the primary file.
LEMMA PrimaryKept ==
  ASSUME Shaped, UNCHANGED deployment,
         there' = there \/ (Primary # NoPath /\ there' = there \cup {Primary})
  PROVE  Primary' = Primary
<1>1. Primary # NoPath => Candidate(Primary)
  BY PrimaryIsCandidate DEF Shaped
<1>2. ASSUME NEW p PROVE Candidate(p)' <=> Candidate(p)
  <2>1. CASE there' = there
    BY <2>1 DEF Candidate
  <2>2. CASE Primary # NoPath /\ there' = there \cup {Primary}
    BY <1>1, <2>2 DEF Candidate
  <2> QED BY <2>1, <2>2
<1> QED BY <1>2, PrimaryStays

\* The shape of the savers.
Savings ==
  /\ saver = [s \in Savers |-> saver[s]]
  /\ \A s \in Savers :
       /\ DOMAIN saver[s] = Fields
       /\ saver[s].pc \in {"idle", "read", "open", "write", "rename", "fill",
                           "reload", "set"}
       /\ saver[s].body \in Bodies /\ saver[s].alone \in BOOLEAN

\* A saver that goes on changes its place and nothing else.
LEMMA OnlyPlace ==
  ASSUME Savings, NEW s \in Savers, Go(s, "fill") \/ Go(s, "rename")
  PROVE  /\ Savings'
         /\ \A o \in Savers \ {s} : saver'[o] = saver[o]
         /\ \A f \in Fields \ {"pc"} : saver'[s][f] = saver[s][f]
         /\ Go(s, "fill") => saver'[s].pc = "fill"
         /\ Go(s, "rename") => saver'[s].pc = "rename"
<1>1. PICK pc \in {"fill", "rename"} : saver' = [saver EXCEPT ![s].pc = pc]
  BY DEF Go
<1>2. saver'[s] = [saver[s] EXCEPT !.pc = pc] /\ \A o \in Savers \ {s} : saver'[o] = saver[o]
  BY <1>1 DEF Savings
<1>3. /\ DOMAIN saver'[s] = Fields /\ saver'[s].pc = pc
      /\ \A f \in Fields \ {"pc"} : saver'[s][f] = saver[s][f]
  BY <1>2 DEF Savings, Fields
<1>4. saver'[s].body = saver[s].body /\ saver'[s].alone = saver[s].alone
  BY <1>3 DEF Fields
<1>5. saver' = [o \in Savers |-> saver'[o]]
  BY <1>1 DEF Savings
<1>6. Savings'
  BY <1>2, <1>3, <1>4, <1>5 DEF Savings
<1>7. ASSUME NEW c, saver' = [saver EXCEPT ![s].pc = c] PROVE saver'[s].pc = c
  BY <1>7 DEF Savings, Fields
<1> QED BY <1>2, <1>3, <1>6, <1>7 DEF Go

\* A step of one save that has not ended keeps the invariant, if it keeps the
\* shape and, alone, its progress.
LEMMA OneSaveGoes ==
  ASSUME ConfigInv, NEW s \in Savers, saver[s].pc # "idle", saver'[s].pc # "idle",
         Shaped', Routed', Primary' = Primary, UNCHANGED agreed, saver'[s].alone = saver[s].alone,
         \A o \in Savers \ {s} : saver'[o].pc = saver[o].pc /\ saver'[o].alone = saver[o].alone,
         saver[s].alone => Progress(s)' /\ Safe'
  PROVE  ConfigInv'
<1>1. Apart'
  BY DEF ConfigInv, Apart
<1>2. CASE saver[s].alone
  <2>1. \A o \in Savers \ {s} : saver'[o].pc = "idle"
    BY <1>2 DEF ConfigInv, Apart
  <2>2. \A o \in Savers \ {s} : Progress(o)'
    BY <2>1 DEF Progress
  <2> QED BY <1>1, <1>2, <2>2 DEF ConfigInv
<1>3. CASE ~saver[s].alone
  <2>1. \A k \in Keys : agreed'[k] = All
    BY <1>3 DEF ConfigInv, Apart
  <2>2. ASSUME Primary # NoPath PROVE text'[Primary] \in Bodies
    BY <2>2, PrimaryIsCandidate DEF ConfigInv, Shaped
  <2>3. Safe'
    BY <2>1, <2>2 DEF Safe, Kept, Bodies, All
  <2>4. \A o \in Savers \ {s} : saver'[o].alone => saver'[o].pc = "idle"
    BY DEF ConfigInv, Apart
  <2>5. \A o \in Savers \ {s} : saver'[o].alone => Progress(o)'
    BY <2>4 DEF Progress
  <2> QED BY <1>1, <1>3, <2>3, <2>5 DEF ConfigInv
<1> QED BY <1>2, <1>3

LEMMA BeginStep ==
  ASSUME ConfigInv, NEW s \in Savers, BeginSave(s)
  PROVE  ConfigInv'
<1> USE DEF ConfigInv
<1>1. PICK k \in Keys, v \in All :
        /\ saver' = [t \in Savers |->
             IF t = s THEN [Idle EXCEPT !.pc = "read", !.key = k, !.val = v,
                              !.path = active.primary, !.alone = AllIdle]
             ELSE [saver[t] EXCEPT !.alone = FALSE]]
        /\ agreed' = [l \in Keys |->
             IF ~AllIdle \/ text[active.primary][l] \notin agreed[l]
             THEN Values \cup {Unset}
             ELSE IF l = k THEN {text[active.primary][k], v} ELSE agreed[l]]
  BY DEF BeginSave, All
<1>2. /\ UNCHANGED <<deployment, there, text, tmp, active>> /\ saver[s].pc = "idle"
      /\ active.primary = Primary /\ Primary # NoPath /\ Primary' = Primary
  BY PrimaryKept DEF BeginSave, disk, Routed
<1>3. text[Primary] \in Bodies /\ Primary \in Paths
  BY <1>2, PrimaryIsCandidate DEF Shaped
<1>4. AllIdle \in BOOLEAN
  BY DEF AllIdle
<1>5. /\ DOMAIN saver'[s] = Fields /\ saver'[s].pc = "read" /\ saver'[s].key = k
      /\ saver'[s].val = v /\ saver'[s].path = Primary /\ saver'[s].alone = AllIdle
      /\ saver'[s].body = Empty /\ saver'[s].fd = "none"
  <2>1. saver'[s] = [Idle EXCEPT !.pc = "read", !.key = k, !.val = v,
                       !.path = Primary, !.alone = AllIdle]
    BY <1>1, <1>2
  <2> QED BY <2>1 DEF Idle, Fields
<1>6. ASSUME NEW o \in Savers \ {s}
      PROVE  /\ DOMAIN saver'[o] = Fields /\ saver'[o].alone = FALSE
             /\ \A f \in Fields \ {"alone"} : saver'[o][f] = saver[o][f]
  <2>1. saver'[o] = [saver[o] EXCEPT !.alone = FALSE]
    BY <1>1
  <2> QED BY <2>1 DEF Shaped, Fields
<1>7. \A o \in Savers \ {s} :
        /\ saver'[o].pc = saver[o].pc /\ saver'[o].body = saver[o].body
        /\ saver'[o].key = saver[o].key /\ saver'[o].val = saver[o].val
        /\ saver'[o].path = saver[o].path /\ saver'[o].fd = saver[o].fd
        /\ saver'[o].view = saver[o].view
  BY <1>6 DEF Fields
<1>8. agreed' \in [Keys -> SUBSET All] /\ \A l \in Keys : text[Primary][l] \in agreed'[l]
  <2>1. \A l \in Keys : text[Primary][l] \in All
    BY <1>3 DEF Bodies, All
  <2>2. /\ agreed' = [l \in Keys |-> agreed'[l]]
        /\ \A l \in Keys : agreed'[l] = IF ~AllIdle \/ text[Primary][l] \notin agreed[l] THEN All
                         ELSE IF l = k THEN {text[Primary][k], v} ELSE agreed[l]
    BY <1>1, <1>2 DEF All
  <2>3. \A l \in Keys : agreed[l] \subseteq All
    BY DEF Shaped
  <2> QED BY <2>1, <2>2, <2>3
<1>9. v \in agreed'[k]
  BY <1>1, <1>2 DEF All
<1>10. ~AllIdle => \A l \in Keys : agreed'[l] = All
  BY <1>1 DEF All
<1>11. Shaped'
  <2>1. saver' = [o \in Savers |-> saver'[o]]
    BY <1>1
  <2> QED BY <1>2, <1>4, <1>5, <1>6, <1>7, <1>8, <2>1, Basics DEF Shaped
<1>12. Routed'
  BY <1>2, <1>5, <1>7 DEF Routed
<1>13. Apart'
  <2>1. AllIdle => \A o \in Savers \ {s} : saver'[o].pc = "idle"
    BY <1>7 DEF AllIdle
  <2>2. ~AllIdle => \A o \in Savers : ~saver'[o].alone
    BY <1>5, <1>6
  <2>3. \A o \in Savers : saver'[o].alone => o = s
    BY <1>6
  <2> QED BY <1>5, <1>10, <2>1, <2>2, <2>3 DEF Apart
<1>14. Safe' /\ \A o \in Savers : saver'[o].alone => Progress(o)'
  BY <1>2, <1>5, <1>6, <1>8, <1>9 DEF Safe, Progress, Kept
<1> QED BY <1>11, <1>12, <1>13, <1>14

LEMMA ReadStep ==
  ASSUME ConfigInv, NEW s \in Savers, ReadDoc(s)
  PROVE  ConfigInv'
<1> DEFINE me == saver[s]
           old == IF me.path \in there THEN text[me.path] ELSE Empty
           body == [old EXCEPT ![me.key] = me.val]
           pc == IF me.val = Unset /\ old[me.key] = Unset THEN "reload" ELSE "open"
<1>1. /\ me.pc = "read" /\ saver' = [saver EXCEPT ![s].pc = pc, ![s].body = body]
      /\ UNCHANGED <<deployment, there, text, tmp, active, agreed>>
  BY DEF ReadDoc, disk, ghosts
<1>2. /\ me.path = Primary /\ Primary # NoPath /\ me.key \in Keys /\ me.val \in All
      /\ Primary' = Primary
  BY <1>1, PrimaryKept DEF ConfigInv, Routed
<1>3. text[Primary] \in Bodies /\ old = text[Primary]
  BY <1>2, PrimaryIsCandidate DEF ConfigInv, Shaped, Routed
<1>4. body \in Bodies /\ body[me.key] = me.val /\ \A l \in Keys : l # me.key => body[l] = old[l]
  BY <1>2, <1>3, BodyTyped
<1>5. pc \in {"reload", "open"}
  OBVIOUS
<1>6. /\ DOMAIN saver'[s] = Fields /\ saver'[s].pc = pc /\ saver'[s].body = body
      /\ saver'[s].key = me.key /\ saver'[s].val = me.val /\ saver'[s].path = me.path
      /\ saver'[s].fd = me.fd /\ saver'[s].alone = me.alone /\ saver'[s].view = me.view
      /\ \A o \in Savers \ {s} : saver'[o] = saver[o]
      /\ saver' = [o \in Savers |-> saver'[o]]
  <2> HIDE DEF pc, body
  <2>1. /\ saver'[s] = [me EXCEPT !.pc = pc, !.body = body]
        /\ \A o \in Savers \ {s} : saver'[o] = saver[o]
        /\ saver' = [o \in Savers |-> saver'[o]]
    BY <1>1 DEF ConfigInv, Shaped
  <2> QED BY <2>1 DEF ConfigInv, Shaped, Fields
<1>7. me.val = Unset /\ old[me.key] = Unset => text[Primary][me.key] = me.val
  BY <1>3
<1> HIDE DEF me, old, body
<1>8. Shaped'
  BY <1>1, <1>4, <1>5, <1>6 DEF ConfigInv, Shaped, me
<1>9. Routed'
  <2> HIDE DEF pc
  <2>1. ASSUME NEW o \in Savers PROVE saver'[o].fd = saver[o].fd /\ saver'[o].path = saver[o].path
    BY <1>6 DEF me
  <2>2. ASSUME NEW o \in Savers
        PROVE  /\ saver'[o].pc # "idle" => saver[o].pc # "idle"
               /\ saver'[o].pc = "idle" => saver[o].pc = "idle"
               /\ saver'[o].pc = "fill" => saver[o].pc = "fill"
               /\ saver'[o].pc = "set" => saver[o].pc = "set" /\ saver'[o].view = saver[o].view
               /\ saver'[o].key = saver[o].key /\ saver'[o].val = saver[o].val
    BY <1>1, <1>5, <1>6 DEF me
  <2>3. active' = active /\ there' = there /\ text' = text /\ Primary' = Primary
    BY <1>1, <1>2
  <2>4. ASSUME NEW o \in Savers, saver'[o].pc # "idle"
        PROVE  /\ saver[o].path = Primary /\ Primary # NoPath
               /\ saver[o].key \in Keys /\ saver[o].val \in All
               /\ saver[o].fd = "path" => Primary \in there
               /\ saver[o].pc = "fill" => Primary \in there
               /\ saver[o].pc = "set" => saver[o].view.primary = Primary
    <3>1. saver[o].pc # "idle"
      BY <2>2, <2>4
    <3> QED BY <3>1 DEF ConfigInv, Routed
  <2>5. ASSUME NEW o \in Savers, saver'[o].pc = "idle"
        PROVE  saver[o].fd = "none"
    BY <2>2, <2>5 DEF ConfigInv, Routed
  <2>6. /\ active.primary = Primary
        /\ Primary \notin there => Primary = NoPath \/ text[Primary] = Empty
    BY DEF ConfigInv, Routed
  <2> QED BY <2>1, <2>2, <2>3, <2>4, <2>5, <2>6 DEF Routed
<1>10. ASSUME saver[s].alone PROVE Progress(s)' /\ Safe'
  <2>1. Kept(text[Primary]) /\ me.val \in agreed[me.key]
    BY <1>1, <1>10 DEF ConfigInv, Progress, me
  <2>2. Kept(body)
    BY <1>2, <1>3, <1>4, <2>1 DEF Kept
  <2> QED BY <1>1, <1>2, <1>4, <1>5, <1>6, <1>7, <2>1, <2>2 DEF Progress, Safe, Kept, me
<1> QED BY <1>1, <1>2, <1>5, <1>6, <1>8, <1>9, <1>10, OneSaveGoes DEF me

\* The two steps that fill the temporary file.
LEMMA TmpStep ==
  ASSUME ConfigInv, NEW s \in Savers, OpenTmp(s) \/ WriteTmp(s)
  PROVE  ConfigInv'
<1> DEFINE me == saver[s]
<1>1. CASE OpenTmp(s)
  <2>1. /\ me.pc = "open" /\ saver' = [saver EXCEPT ![s].pc = "write", ![s].fd = "tmp"]
        /\ UNCHANGED <<deployment, there, text, active, agreed>>
        /\ tmp' = [there |-> TRUE, text |-> Empty]
    BY <1>1 DEF OpenTmp, ghosts
  <2>2. /\ saver'[s] = [me EXCEPT !.pc = "write", !.fd = "tmp"]
        /\ \A o \in Savers \ {s} : saver'[o] = saver[o]
        /\ saver' = [o \in Savers |-> saver'[o]]
    BY <2>1 DEF ConfigInv, Shaped
  <2>3. /\ DOMAIN saver'[s] = Fields /\ saver'[s].pc = "write" /\ saver'[s].fd = "tmp"
        /\ saver'[s].key = me.key /\ saver'[s].val = me.val /\ saver'[s].path = me.path
        /\ saver'[s].body = me.body /\ saver'[s].alone = me.alone
    BY <2>2 DEF ConfigInv, Shaped, Fields
  <2>4. Primary' = Primary
    BY <2>1, PrimaryKept DEF ConfigInv
  <2>5. Shaped'
    BY <2>1, <2>2, <2>3, Basics DEF ConfigInv, Shaped
  <2>6. Routed'
    BY <2>1, <2>2, <2>3, <2>4 DEF ConfigInv, Routed
  <2>7. ASSUME me.alone PROVE Progress(s)' /\ Safe'
    BY <2>1, <2>3, <2>4, <2>7 DEF ConfigInv, Progress, Safe, Kept
  <2> QED BY <2>1, <2>2, <2>3, <2>4, <2>5, <2>6, <2>7, OneSaveGoes
<1>2. CASE WriteTmp(s)
  <2>1. /\ me.pc = "write" /\ Go(s, "rename")
        /\ tmp' = IF me.fd = "tmp" THEN [tmp EXCEPT !.text = me.body] ELSE tmp
        /\ text' = IF me.fd = "path" THEN [text EXCEPT ![me.path] = me.body] ELSE text
        /\ UNCHANGED <<deployment, there, active, agreed>>
    BY <1>2 DEF WriteTmp, ghosts
  <2>2. /\ Savings' /\ saver'[s].pc = "rename"
        /\ \A o \in Savers \ {s} : saver'[o] = saver[o]
        /\ \A f \in Fields \ {"pc"} : saver'[s][f] = me[f]
    BY <2>1, OnlyPlace DEF ConfigInv, Shaped, Savings
  <2>3. /\ saver'[s].key = me.key /\ saver'[s].val = me.val /\ saver'[s].path = me.path
        /\ saver'[s].body = me.body /\ saver'[s].alone = me.alone /\ saver'[s].fd = me.fd
    BY <2>2 DEF Fields
  <2>4. Primary' = Primary
    BY <2>1, PrimaryKept DEF ConfigInv
  <2>5. me.path = Primary /\ Primary \in Paths /\ me.body \in Bodies
        /\ (me.fd = "path" => Primary \in there)
    BY <2>1, PrimaryIsCandidate DEF ConfigInv, Routed, Shaped
  <2>6. text' \in [Paths -> Bodies] /\ tmp' \in [there : BOOLEAN, text : Bodies]
    BY <2>1, <2>5 DEF ConfigInv, Shaped
  <2>7. Shaped'
    BY <2>1, <2>2, <2>6 DEF ConfigInv, Shaped, Savings
  <2>8. Routed'
    <3>1. Primary \notin there => Primary = NoPath \/ text'[Primary] = Empty
      BY <2>1, <2>5 DEF ConfigInv, Routed
    <3> QED BY <2>1, <2>2, <2>3, <2>4, <3>1 DEF ConfigInv, Routed
  <2>9. ASSUME me.alone PROVE Progress(s)' /\ Safe'
    <3>1. me.fd = "tmp" /\ tmp.there /\ Kept(text[Primary]) /\ Kept(me.body)
          /\ me.body[me.key] = me.val
      BY <2>1, <2>9 DEF ConfigInv, Progress
    <3>2. UNCHANGED text /\ tmp'.there /\ tmp'.text = me.body
      BY <2>1, <3>1 DEF ConfigInv, Shaped
    <3> QED BY <2>1, <2>2, <2>3, <2>4, <3>1, <3>2 DEF Progress, Safe, Kept
  <2> QED BY <2>1, <2>2, <2>3, <2>4, <2>7, <2>8, <2>9, OneSaveGoes
<1> QED BY <1>1, <1>2

\* The rename, and what becomes of the other descriptors.
LEMMA RenameStep ==
  ASSUME ConfigInv, NEW s \in Savers, Rename(s)
  PROVE  ConfigInv'
<1> DEFINE me == saver[s]
<1>1. /\ me.pc = "rename" /\ tmp.there /\ saver' = AfterRename(s)
      /\ there' = there \cup {me.path} /\ text' = [text EXCEPT ![me.path] = tmp.text]
      /\ tmp' = [tmp EXCEPT !.there = FALSE]
      /\ UNCHANGED <<deployment, active, agreed>>
  BY DEF Rename, ghosts
<1>2. /\ me.path = Primary /\ Primary # NoPath /\ Primary \in Paths
  BY <1>1, PrimaryIsCandidate DEF ConfigInv, Routed, Shaped
<1>3. Primary' = Primary
  BY <1>1, <1>2, PrimaryKept DEF ConfigInv
<1>4. /\ saver'[s] = [me EXCEPT !.pc = "reload"] /\ saver' = [o \in Savers |-> saver'[o]]
  BY <1>1 DEF AfterRename
<1>5. /\ DOMAIN saver'[s] = Fields /\ saver'[s].pc = "reload" /\ saver'[s].fd = me.fd
      /\ saver'[s].key = me.key /\ saver'[s].val = me.val /\ saver'[s].path = me.path
      /\ saver'[s].body = me.body /\ saver'[s].alone = me.alone /\ saver'[s].view = me.view
  BY <1>4 DEF ConfigInv, Shaped, Fields
<1>6. ASSUME NEW o \in Savers \ {s}
      PROVE  /\ DOMAIN saver'[o] = Fields
             /\ saver'[o].pc = saver[o].pc /\ saver'[o].key = saver[o].key
             /\ saver'[o].val = saver[o].val /\ saver'[o].path = saver[o].path
             /\ saver'[o].body = saver[o].body /\ saver'[o].alone = saver[o].alone
             /\ saver'[o].view = saver[o].view
             /\ saver[o].fd = "none" => saver'[o].fd = "none"
  <2>1. PICK fd : saver'[o] = [saver[o] EXCEPT !.fd = fd] /\ (saver[o].fd = "none" => fd = "none")
    BY <1>1 DEF AfterRename
  <2> QED BY <2>1 DEF ConfigInv, Shaped, Fields
<1>7. Shaped'
  <2>1. text' \in [Paths -> Bodies] /\ tmp' \in [there : BOOLEAN, text : Bodies]
        /\ there' \subseteq Paths
    BY <1>1, <1>2 DEF ConfigInv, Shaped
  <2>2. ASSUME NEW o \in Savers
        PROVE  /\ DOMAIN saver'[o] = Fields /\ saver'[o].body = saver[o].body
               /\ saver'[o].alone = saver[o].alone
               /\ saver'[o].pc = "reload" \/ saver'[o].pc = saver[o].pc
    BY <1>5, <1>6
  <2> QED BY <1>1, <1>4, <2>1, <2>2 DEF ConfigInv, Shaped
<1>8. Routed'
  BY <1>1, <1>2, <1>3, <1>5, <1>6 DEF ConfigInv, Routed
<1>9. ASSUME me.alone PROVE Progress(s)' /\ Safe'
  <2>1. /\ Kept(me.body) /\ me.body[me.key] = me.val /\ tmp.text = me.body
    BY <1>1, <1>9 DEF ConfigInv, Progress
  <2>2. text'[Primary] = me.body
    BY <1>1, <1>2, <2>1 DEF ConfigInv, Shaped
  <2> QED BY <1>1, <1>3, <1>5, <2>1, <2>2 DEF Progress, Safe, Kept
<1> QED BY <1>1, <1>3, <1>5, <1>6, <1>7, <1>8, <1>9, OneSaveGoes

\* A file that cannot be replaced is opened in place, and then filled.
LEMMA BusyStep ==
  ASSUME ConfigInv, NEW s \in Savers, RenameBusy(s) \/ Fill(s)
  PROVE  ConfigInv'
<1> DEFINE me == saver[s]
<1>1. me.pc \in {"rename", "fill"} /\ UNCHANGED <<deployment, active, agreed>>
  BY DEF RenameBusy, Fill, ghosts
<1>2. /\ me.path = Primary /\ Primary # NoPath /\ Primary \in Paths
      /\ (me.pc = "fill" => Primary \in there)
  BY <1>1, PrimaryIsCandidate DEF ConfigInv, Routed, Shaped
<1>3. there' = there \/ there' = there \cup {Primary}
  BY <1>2 DEF RenameBusy, Fill
<1>4. Primary' = Primary
  BY <1>1, <1>2, <1>3, PrimaryKept DEF ConfigInv
<1>5. Savings
  BY DEF ConfigInv, Shaped, Savings
<1>6. CASE RenameBusy(s)
  <2>1. /\ me.pc = "rename" /\ tmp.there /\ Primary \in deployment.mounted
        /\ Go(s, "fill") /\ text' = [text EXCEPT ![Primary] = Empty]
        /\ there' = there \cup {Primary} /\ UNCHANGED tmp
    BY <1>2, <1>6 DEF RenameBusy
  <2>2. /\ Savings' /\ saver'[s].pc = "fill"
        /\ \A o \in Savers \ {s} : saver'[o] = saver[o]
        /\ \A f \in Fields \ {"pc"} : saver'[s][f] = me[f]
    BY <1>5, <2>1, OnlyPlace
  <2>3. /\ saver'[s].key = me.key /\ saver'[s].val = me.val /\ saver'[s].path = me.path
        /\ saver'[s].body = me.body /\ saver'[s].alone = me.alone /\ saver'[s].fd = me.fd
    BY <2>2 DEF Fields
  <2>4. Shaped'
    <3>1. text' \in [Paths -> Bodies] /\ there' \subseteq Paths
      BY <1>2, <2>1, Basics DEF ConfigInv, Shaped
    <3> QED BY <1>1, <2>1, <2>2, <3>1 DEF ConfigInv, Shaped, Savings
  <2>5. Routed'
    BY <1>1, <1>2, <1>4, <2>1, <2>2, <2>3 DEF ConfigInv, Routed
  <2>6. ASSUME me.alone PROVE Progress(s)' /\ Safe'
    <3>1. Kept(me.body) /\ me.body[me.key] = me.val /\ tmp.text = me.body
      BY <2>1, <2>6 DEF ConfigInv, Progress
    <3> QED BY <1>1, <1>4, <2>1, <2>2, <2>3, <3>1 DEF Progress, Safe, Kept
  <2> QED BY <1>1, <1>4, <2>1, <2>2, <2>3, <2>4, <2>5, <2>6, OneSaveGoes
<1>7. CASE Fill(s)
  <2>1. /\ me.pc = "fill" /\ saver' = [saver EXCEPT ![s].pc = "reload"]
        /\ text' = [text EXCEPT ![Primary] = me.body]
        /\ tmp' = [tmp EXCEPT !.there = FALSE] /\ UNCHANGED there
    BY <1>2, <1>7 DEF Fill, Go
  <2>2. /\ saver'[s] = [me EXCEPT !.pc = "reload"] /\ saver' = [o \in Savers |-> saver'[o]]
        /\ \A o \in Savers \ {s} : saver'[o] = saver[o]
    BY <2>1 DEF ConfigInv, Shaped
  <2>3. /\ DOMAIN saver'[s] = Fields /\ saver'[s].pc = "reload" /\ saver'[s].fd = me.fd
        /\ saver'[s].key = me.key /\ saver'[s].val = me.val /\ saver'[s].path = me.path
        /\ saver'[s].body = me.body /\ saver'[s].alone = me.alone
    BY <2>2 DEF ConfigInv, Shaped, Fields
  <2>4. text' \in [Paths -> Bodies] /\ tmp' \in [there : BOOLEAN, text : Bodies]
        /\ text'[Primary] = me.body
    BY <1>2, <2>1 DEF ConfigInv, Shaped
  <2>5. Shaped'
    BY <1>1, <2>1, <2>2, <2>3, <2>4 DEF ConfigInv, Shaped
  <2>6. Routed'
    BY <1>1, <1>2, <1>4, <2>1, <2>2, <2>3 DEF ConfigInv, Routed
  <2>7. ASSUME me.alone PROVE Progress(s)' /\ Safe'
    <3>1. Kept(me.body) /\ me.body[me.key] = me.val
      BY <2>1, <2>7 DEF ConfigInv, Progress
    <3> QED BY <1>1, <1>4, <2>3, <2>4, <3>1 DEF Progress, Safe, Kept
  <2> QED BY <1>1, <1>4, <2>1, <2>2, <2>3, <2>5, <2>6, <2>7, OneSaveGoes
<1> QED BY <1>6, <1>7

\* The configuration is loaded again.
LEMMA ReloadStep ==
  ASSUME ConfigInv, NEW s \in Savers, Reload(s)
  PROVE  ConfigInv'
<1> DEFINE me == saver[s]
<1>1. /\ me.pc = "reload"
      /\ saver' = [saver EXCEPT ![s].pc = "set", ![s].view = LoadConfig]
      /\ UNCHANGED <<deployment, there, text, tmp, active, agreed>>
  BY DEF Reload, disk, ghosts
<1>2. Primary' = Primary
  BY <1>1, PrimaryKept DEF ConfigInv
<1>3. /\ saver'[s] = [me EXCEPT !.pc = "set", !.view = LoadConfig]
      /\ \A o \in Savers \ {s} : saver'[o] = saver[o]
      /\ saver' = [o \in Savers |-> saver'[o]]
  BY <1>1 DEF ConfigInv, Shaped
<1>4. /\ DOMAIN saver'[s] = Fields /\ saver'[s].pc = "set" /\ saver'[s].fd = me.fd
      /\ saver'[s].key = me.key /\ saver'[s].val = me.val /\ saver'[s].path = me.path
      /\ saver'[s].body = me.body /\ saver'[s].alone = me.alone
      /\ saver'[s].view = LoadConfig
  BY <1>3 DEF ConfigInv, Shaped, Fields
<1>5. Shaped'
  BY <1>1, <1>3, <1>4 DEF ConfigInv, Shaped
<1>6. Routed'
  <2>1. LoadConfig.primary = Primary
    BY Basics
  <2>2. saver'[s].view.primary = Primary
    BY <1>4, <2>1
  <2>3. ASSUME NEW o \in Savers \ {s} PROVE saver'[o] = saver[o]
    BY <1>3
  <2>4. me.fd = "path" => Primary \in there
    BY <1>1 DEF ConfigInv, Routed
  <2>5. /\ me.path = Primary /\ Primary # NoPath /\ me.key \in Keys /\ me.val \in All
    BY <1>1 DEF ConfigInv, Routed
  <2>6. ASSUME NEW o \in Savers, saver'[o].pc # "idle"
        PROVE  /\ saver'[o].path = Primary
               /\ saver'[o].key \in Keys /\ saver'[o].val \in All
               /\ saver'[o].fd = "path" => Primary \in there
               /\ saver'[o].pc = "fill" => Primary \in there
               /\ saver'[o].pc = "set" => saver'[o].view.primary = Primary
    <3>1. CASE o = s
      BY <1>4, <2>2, <2>4, <2>5, <3>1
    <3>2. CASE o # s
      BY <2>3, <2>6, <3>2 DEF ConfigInv, Routed
    <3> QED BY <3>1, <3>2
  <2>7. \A o \in Savers : saver'[o].pc = "idle" => saver'[o].fd = "none"
    BY <1>4, <2>3 DEF ConfigInv, Routed
  <2> QED BY <1>1, <1>2, <2>5, <2>6, <2>7 DEF ConfigInv, Routed
<1>7. ASSUME me.alone PROVE Progress(s)' /\ Safe'
  BY <1>1, <1>2, <1>4, <1>7 DEF ConfigInv, Progress, Safe, Kept
<1> QED BY <1>1, <1>2, <1>3, <1>4, <1>5, <1>6, <1>7, OneSaveGoes

\* A save ends, as it should or not, and the next state has no trace of it.
LEMMA EndStep ==
  ASSUME ConfigInv, NEW s \in Savers, EndSave(s) \/ SaveFails(s)
  PROVE  ConfigInv'
<1> DEFINE me == saver[s]
<1>1. /\ me.pc \in {"set", "rename"} /\ saver' = [saver EXCEPT ![s] = Idle]
      /\ UNCHANGED <<deployment, there, text, tmp>>
      /\ active' = active \/ (me.pc = "set" /\ active' = me.view)
      /\ ~me.alone => UNCHANGED agreed
  BY DEF EndSave, SaveFails, disk, ConfigInv, Shaped
<1>2. /\ Primary # NoPath /\ Primary \in Paths /\ me.key \in Keys /\ me.val \in All
      /\ me.path = Primary /\ text[Primary] \in Bodies /\ Primary' = Primary
  BY <1>1, PrimaryKept, PrimaryIsCandidate DEF ConfigInv, Routed, Shaped
<1>3. /\ saver'[s] = Idle /\ \A o \in Savers \ {s} : saver'[o] = saver[o]
      /\ saver' = [o \in Savers |-> saver'[o]]
  BY <1>1 DEF ConfigInv, Shaped
<1>4. me.alone => agreed' = [agreed EXCEPT ![me.key] = {text[Primary][me.key]}]
  <2>1. CASE EndSave(s)
    <3>1. me.alone => text[Primary][me.key] = me.val
      BY <2>1 DEF EndSave, ConfigInv, Progress
    <3> QED BY <2>1, <3>1 DEF EndSave
  <2>2. CASE SaveFails(s)
    BY <1>2, <2>2 DEF SaveFails
  <2> QED BY <2>1, <2>2
<1>5. agreed' \in [Keys -> SUBSET All]
  <2>1. text[Primary][me.key] \in All
    BY <1>2 DEF Bodies, All
  <2>2. CASE me.alone
    BY <1>2, <1>4, <2>1, <2>2 DEF ConfigInv, Shaped
  <2>3. CASE ~me.alone
    BY <1>1, <2>3 DEF ConfigInv, Shaped
  <2> QED BY <2>2, <2>3
<1>6. Shaped'
  BY <1>1, <1>3, <1>5, Basics DEF ConfigInv, Shaped
<1>7. active'.primary = Primary
  BY <1>1 DEF ConfigInv, Routed
<1>8. Routed'
  BY <1>1, <1>2, <1>3, <1>7, Basics DEF ConfigInv, Routed
<1>9. Apart'
  <2>1. CASE me.alone
    <3>1. \A o \in Savers : saver'[o].pc = "idle"
      BY <1>1, <1>3, <2>1, Basics DEF ConfigInv, Apart
    <3> QED BY <3>1 DEF Apart
  <2>2. CASE ~me.alone
    BY <1>1, <1>3, <2>2, Basics DEF ConfigInv, Apart
  <2> QED BY <2>1, <2>2
<1>10. CASE me.alone
  <2>1. Kept(text[Primary])
    <3>1. CASE EndSave(s)
      BY <1>10, <3>1 DEF EndSave, ConfigInv, Progress
    <3>2. CASE SaveFails(s)
      BY <1>10, <3>2 DEF SaveFails, ConfigInv, Progress
    <3> QED BY <3>1, <3>2
  <2>2. Safe'
    <3>1. \A l \in Keys : text[Primary][l] \in agreed'[l]
      BY <1>2, <1>4, <1>10, <2>1 DEF Kept, ConfigInv, Shaped
    <3> QED BY <1>1, <1>2, <3>1 DEF Safe, Kept
  <2>3. \A o \in Savers : saver'[o].pc = "idle"
    BY <1>1, <1>3, <1>10, Basics DEF ConfigInv, Apart
  <2> QED BY <1>6, <1>8, <1>9, <2>2, <2>3 DEF ConfigInv, Progress
<1>11. CASE ~me.alone
  <2>1. Safe'
    <3>1. \A l \in Keys : agreed'[l] = All /\ text[Primary][l] \in All
      BY <1>1, <1>2, <1>11 DEF ConfigInv, Apart, Bodies, All
    <3> QED BY <1>1, <1>2, <3>1 DEF Safe, Kept
  <2>2. \A o \in Savers : saver'[o].alone => saver'[o].pc = "idle"
    BY <1>1, <1>3, <1>11, Basics DEF ConfigInv, Apart
  <2> QED BY <1>6, <1>8, <1>9, <2>1, <2>2 DEF ConfigInv, Progress
<1> QED BY <1>10, <1>11

\* The operator edits the primary file only while nothing is saved, and then
\* every value of that key is agreed; another file is no matter.
LEMMA EditStep ==
  ASSUME ConfigInv, HandEdit
  PROVE  ConfigInv'
<1>1. PICK p \in there, k \in Keys, v \in All :
        /\ text' = [text EXCEPT ![p][k] = v]
        /\ IF p = Primary
           THEN /\ agreed' = [agreed EXCEPT ![k] = Values \cup {Unset}]
                /\ AllIdle
           ELSE UNCHANGED agreed
  BY DEF HandEdit, ghosts, All
<1>2. /\ UNCHANGED <<deployment, there, tmp, active, saver>> /\ p \in Paths
  BY DEF HandEdit, ConfigInv, Shaped
<1>3. Primary' = Primary
  BY <1>2, PrimaryKept DEF ConfigInv
<1>4. /\ text' = [text EXCEPT ![p] = [text[p] EXCEPT ![k] = v]] /\ text[p] \in Bodies
  BY <1>1, <1>2 DEF ConfigInv, Shaped
<1>5. text' \in [Paths -> Bodies]
  BY <1>2, <1>4, BodyTyped DEF ConfigInv, Shaped
<1>6. agreed' \in [Keys -> SUBSET All]
  BY <1>1 DEF ConfigInv, Shaped, All
<1>7. Shaped'
  BY <1>2, <1>5, <1>6 DEF ConfigInv, Shaped
<1>8. CASE p # Primary
  <2>1. UNCHANGED agreed /\ (Primary # NoPath => text'[Primary] = text[Primary])
    BY <1>1, <1>2, <1>4, <1>8, PrimaryIsCandidate DEF ConfigInv, Shaped
  <2>2. Routed'
    BY <1>2, <1>3, <2>1 DEF ConfigInv, Routed
  <2>3. Apart' /\ Safe'
    BY <1>2, <1>3, <2>1 DEF ConfigInv, Apart, Safe, Kept
  <2>4. ASSUME NEW s \in Savers, saver'[s].alone PROVE Progress(s)'
    <3>1. CASE saver[s].pc = "idle"
      BY <1>2, <3>1 DEF Progress
    <3>2. CASE saver[s].pc # "idle"
      <4>1. Primary # NoPath /\ Progress(s)
        BY <1>2, <2>4, <3>2 DEF ConfigInv, Routed
      <4> QED BY <1>2, <1>3, <2>1, <4>1 DEF Progress, Kept
    <3> QED BY <3>1, <3>2
  <2> QED BY <1>7, <2>2, <2>3, <2>4 DEF ConfigInv
<1>9. CASE p = Primary
  <2>1. /\ \A s \in Savers : saver'[s].pc = "idle"
        /\ agreed' = [agreed EXCEPT ![k] = All]
    BY <1>1, <1>2, <1>9 DEF AllIdle, All
  <2>2. Routed'
    BY <1>2, <1>3, <1>9, <2>1 DEF ConfigInv, Routed
  <2>3. Apart'
    BY <2>1 DEF Apart
  <2>4. ASSUME NEW b \in Bodies, Kept(b) PROVE \A l \in Keys : b[l] \in agreed'[l]
    BY <2>1, <2>4 DEF Kept, Bodies, All, ConfigInv, Shaped
  <2>5. Kept(text[p]) => \A l \in Keys : text'[p][l] \in agreed'[l]
    <3>1. /\ \A l \in Keys : l # k => text'[p][l] = text[p][l]
          /\ text'[p][k] = v
      BY <1>2, <1>4, BodyTyped DEF ConfigInv, Shaped
    <3>2. /\ \A l \in Keys : l # k => agreed'[l] = agreed[l]
          /\ agreed'[k] = All
      BY <2>1 DEF ConfigInv, Shaped
    <3> QED BY <3>1, <3>2 DEF Kept
  <2>6. Safe'
    <3>1. tmp.text \in Bodies
      BY DEF ConfigInv, Shaped
    <3>2. Kept(tmp.text) => \A l \in Keys : tmp.text[l] \in agreed'[l]
      BY <2>4, <3>1
    <3> QED BY <1>2, <1>3, <1>9, <2>5, <3>2 DEF ConfigInv, Safe, Kept
  <2> QED BY <1>7, <2>1, <2>2, <2>3, <2>6 DEF ConfigInv, Progress
<1> QED BY <1>8, <1>9

\* A kill leaves the files as they are; a new process loads them.
LEMMA KillStep ==
  ASSUME ConfigInv, Kill \/ Restart \/ UNCHANGED vars
  PROVE  ConfigInv'
<1>1. /\ UNCHANGED <<deployment, there, text, tmp, agreed>>
      /\ saver' = saver \/ saver' = [s \in Savers |-> Idle]
      /\ active' = active \/ active' = LoadConfig
  BY DEF Kill, Restart, vars, disk, ghosts
<1>2. Primary' = Primary
  BY <1>1, PrimaryKept DEF ConfigInv
<1>3. active'.primary = Primary
  BY <1>1, Basics DEF ConfigInv, Routed
<1>4. Safe'
  BY <1>1, <1>2 DEF ConfigInv, Safe, Kept
<1>5. CASE saver' = saver
  <2>1. Shaped' /\ Routed' /\ Apart'
    BY <1>1, <1>2, <1>3, <1>5 DEF ConfigInv, Shaped, Routed, Apart
  <2>2. \A s \in Savers : Progress(s) => Progress(s)'
    BY <1>1, <1>2, <1>5 DEF Progress, Kept
  <2> QED BY <1>4, <1>5, <2>1, <2>2 DEF ConfigInv
<1>6. CASE saver' = [s \in Savers |-> Idle]
  <2>1. Shaped' /\ Apart' /\ \A s \in Savers : Progress(s)'
    BY <1>1, <1>6, Basics DEF ConfigInv, Shaped, Apart, Progress
  <2>2. Routed'
    BY <1>1, <1>2, <1>3, <1>6, Basics DEF ConfigInv, Routed
  <2> QED BY <1>4, <2>1, <2>2 DEF ConfigInv
<1> QED BY <1>1, <1>5, <1>6

(***************************************************************************)
(* The theorem.                                                            *)
(***************************************************************************)
LEMMA ConfigStep ==
  ASSUME ConfigInv, [Next]_vars
  PROVE  ConfigInv'
<1>1. ASSUME NEW s \in Savers, BeginSave(s) \/ SaveStep(s) PROVE ConfigInv'
  BY <1>1, BeginStep, ReadStep, TmpStep, RenameStep, BusyStep, ReloadStep, EndStep
  DEF SaveStep
<1> QED BY <1>1, EditStep, KillStep DEF Next

\* Whatever is saved, edited and killed, in any order and with any number of
\* overlapping saves: a save that no other overlaps leaves every key of the
\* primary file but its own, or leaves all of them in the temporary file
\* beside a file that can only be written in place (_config.write_toml_key).
THEOREM NothingWipedHolds == Spec => []NothingWiped
<1>1. ConfigInv /\ [Next]_vars => ConfigInv'
  BY ConfigStep
<1> QED BY InvInit, InvIsWanted, <1>1, PTL DEF Spec

(***************************************************************************)
(* The layers.                                                             *)
(***************************************************************************)
\* The first n candidates that set key k, and what the last of them says.
SetBy(k, n) ==
  {i \in 1..n : deployment.search[i] \in there /\ text[deployment.search[i]][k] # Unset}

LastOf(S) == CHOOSE i \in S : \A j \in S : j <= i

Says(k, i) == [val |-> text[deployment.search[i]][k], from |-> deployment.search[i]]

Shown(k, n) ==
  IF SetBy(k, n) = {} THEN [val |-> Unset, from |-> "default"] ELSE Says(k, LastOf(SetBy(k, n)))

LEMMA LastIs ==
  ASSUME NEW n \in Nat, NEW S \in SUBSET (1..n), S # {}
  PROVE  /\ LastOf(S) \in S /\ \A j \in S : j <= LastOf(S)
         /\ \A i \in S : (\A j \in S : j <= i) => LastOf(S) = i
<1>1. \E i \in S : \A j \in S : j <= i
  BY Greatest
<1>2. LastOf(S) \in S /\ \A j \in S : j <= LastOf(S)
  BY <1>1 DEF LastOf
<1>3. ASSUME NEW i \in S, \A j \in S : j <= i PROVE LastOf(S) = i
  <2>1. i <= LastOf(S) /\ LastOf(S) <= i
    BY <1>2, <1>3
  <2>2. \A j \in S : j \in Int
    OBVIOUS
  <2>3. i \in Int /\ LastOf(S) \in Int
    BY <1>2, <2>2
  <2> QED BY <2>1, <2>3
<1> QED BY <1>2, <1>3

\* A candidate more: it has the word if it is there and sets the key.
LEMMA ShownNext ==
  ASSUME NEW k \in Keys, NEW n \in Nat \ {0}
  PROVE  Shown(k, n) =
           IF deployment.search[n] \in there /\ text[deployment.search[n]][k] # Unset
           THEN Says(k, n) ELSE Shown(k, n - 1)
<1> DEFINE sets == deployment.search[n] \in there /\ text[deployment.search[n]][k] # Unset
<1>1. n - 1 \in Nat /\ SetBy(k, n) \in SUBSET (1..n)
  BY DEF SetBy
<1>2. CASE sets
  <2>1. n \in SetBy(k, n) /\ \A j \in SetBy(k, n) : j <= n
    BY <1>2 DEF SetBy
  <2>2. LastOf(SetBy(k, n)) = n
    BY <1>1, <2>1, LastIs
  <2> QED BY <1>2, <2>1, <2>2 DEF Shown
<1>3. CASE ~sets
  <2>1. ASSUME NEW i PROVE i \in SetBy(k, n) <=> i \in SetBy(k, n - 1)
    <3>1. i \in 1..n <=> (i \in 1..(n - 1) \/ i = n)
      OBVIOUS
    <3> QED BY <1>3, <3>1 DEF SetBy
  <2>2. SetBy(k, n) = SetBy(k, n - 1)
    BY <2>1
  <2> QED BY <1>3, <2>2 DEF Shown
<1> QED BY <1>2, <1>3

\* The merge, said at once for all keys and all numbers of candidates: it is a
\* function that obeys the recursion of Layered.
Ranked == [n \in 0..Len(deployment.search) |-> [k \in Keys |-> Shown(k, n)]]

LEMMA RankedObeys ==
  ASSUME Len(deployment.search) \in Nat
  PROVE  Ranked = [n \in 0..Len(deployment.search) |->
                     IF n = 0 THEN Defaults
                     ELSE LET p == deployment.search[n]
                          IN  IF p \in there THEN Over(Ranked[n - 1], p) ELSE Ranked[n - 1]]
<1> SUFFICES ASSUME NEW n \in 0..Len(deployment.search)
             PROVE  [k \in Keys |-> Shown(k, n)] =
                      IF n = 0 THEN Defaults
                      ELSE IF deployment.search[n] \in there
                           THEN Over(Ranked[n - 1], deployment.search[n]) ELSE Ranked[n - 1]
  BY DEF Ranked
<1>1. CASE n = 0
  <2>1. ASSUME NEW k \in Keys PROVE Shown(k, 0) = [val |-> Unset, from |-> "default"]
    <3>1. SetBy(k, 0) = {}
      BY DEF SetBy
    <3> QED BY <3>1 DEF Shown
  <2> QED BY <1>1, <2>1 DEF Defaults
<1>2. CASE n # 0
  <2>1. n \in Nat \ {0} /\ n - 1 \in 0..Len(deployment.search)
    BY <1>2
  <2>2. Ranked[n - 1] = [k \in Keys |-> Shown(k, n - 1)]
    BY <2>1 DEF Ranked
  <2>3. CASE deployment.search[n] \in there
    <3>1. ASSUME NEW k \in Keys
          PROVE  Shown(k, n) = IF text[deployment.search[n]][k] = Unset THEN Ranked[n - 1][k]
                               ELSE Says(k, n)
      BY <2>1, <2>2, <2>3, ShownNext
    <3>2. Over(Ranked[n - 1], deployment.search[n]) =
            [k \in Keys |-> IF text[deployment.search[n]][k] = Unset THEN Ranked[n - 1][k]
                            ELSE Says(k, n)]
      BY DEF Over, Says
    <3> QED BY <1>2, <2>3, <3>1, <3>2
  <2>4. CASE deployment.search[n] \notin there
    <3>1. ASSUME NEW k \in Keys PROVE Shown(k, n) = Shown(k, n - 1)
      BY <2>1, <2>4, ShownNext
    <3> QED BY <1>2, <2>2, <2>4, <3>1
  <2> QED BY <2>3, <2>4
<1> QED BY <1>1, <1>2

\* So Layered, which exists then, is that function: a first number of
\* candidates at which they differ would have one before it.
LEMMA LayeredIsRanked ==
  ASSUME Len(deployment.search) \in Nat
  PROVE  \A n \in 0..Len(deployment.search) : Layered[n] = [k \in Keys |-> Shown(k, n)]
<1> DEFINE top == Len(deployment.search)
           obeys(f) == f = [n \in 0..top |->
                              IF n = 0 THEN Defaults
                              ELSE LET p == deployment.search[n]
                                   IN  IF p \in there THEN Over(f[n - 1], p) ELSE f[n - 1]]
<1>1. obeys(Ranked)
  BY RankedObeys
<1>2. Layered = CHOOSE f : obeys(f)
  BY DEF Layered
<1>3. obeys(Layered)
  <2> HIDE DEF obeys
  <2> QED BY <1>1, <1>2
<1> DEFINE odd == {n \in 0..top : Layered[n] # Ranked[n]}
<1>4. odd = {}
  <2> SUFFICES ASSUME odd # {} PROVE FALSE
    OBVIOUS
  <2>1. odd \in SUBSET Nat
    OBVIOUS
  <2>2. PICK n \in odd : \A m \in odd : ~(m < n)
    <3> HIDE DEF odd
    <3> QED BY <2>1, Least
  <2>3. n \in 0..top /\ \A m \in odd : ~(m < n)
    BY <2>2
  <2>4. n # 0
    <3>1. 0 \in 0..top
      OBVIOUS
    <3>2. Layered[0] = Defaults /\ Ranked[0] = Defaults
      BY <1>1, <1>3, <3>1
    <3> QED BY <3>2
  <2>5. n - 1 \in 0..top /\ n - 1 \notin odd
    BY <2>3, <2>4
  <2>6. Layered[n - 1] = Ranked[n - 1]
    BY <2>5
  <2>7. /\ Layered[n] = LET p == deployment.search[n]
                        IN  IF p \in there THEN Over(Layered[n - 1], p) ELSE Layered[n - 1]
        /\ Ranked[n] = LET p == deployment.search[n]
                       IN  IF p \in there THEN Over(Ranked[n - 1], p) ELSE Ranked[n - 1]
    BY <1>1, <1>3, <2>3, <2>4
  <2> QED BY <2>6, <2>7
<1>5. ASSUME NEW n \in 0..top PROVE Layered[n] = Ranked[n]
  BY <1>4
<1> QED BY <1>5 DEF Ranked

\* What a load shows for a key.
LEMMA LoadShows ==
  ASSUME deployment \in Deployments
  PROVE  /\ Len(deployment.search) \in Nat
         /\ LoadConfig.see = [k \in Keys |->
              IF deployment.env[k] = Unset THEN Shown(k, Len(deployment.search))
              ELSE [val |-> deployment.env[k], from |-> "env"]]
<1>1. deployment.search \in Seq(Paths)
  BY ConfigAssumption
<1>2. Len(deployment.search) \in Nat /\ Len(deployment.search) \in 0..Len(deployment.search)
  BY <1>1
<1>3. Merged = [k \in Keys |-> Shown(k, Len(deployment.search))]
  BY <1>2, LayeredIsRanked DEF Merged
<1>4. \A k \in Keys : Merged[k] = Shown(k, Len(deployment.search))
  BY <1>3
<1>5. LoadConfig.see = WithEnv(Merged)
  BY DEF LoadConfig
<1> QED BY <1>2, <1>4, <1>5 DEF WithEnv

LEMMA LayersAreRanked == deployment \in Deployments => LayersRanked
<1> SUFFICES ASSUME deployment \in Deployments, NEW k \in Keys
             PROVE  LET list == deployment.search
                        setters == {i \in DOMAIN list : list[i] \in there /\ text[list[i]][k] # Unset}
                        got == LoadConfig.see[k]
                    IN  CASE deployment.env[k] # Unset ->
                               got = [val |-> deployment.env[k], from |-> "env"]
                          [] deployment.env[k] = Unset /\ setters # {} ->
                               \E i \in setters : /\ \A j \in setters : j <= i
                                                  /\ got = [val |-> text[list[i]][k], from |-> list[i]]
                          [] OTHER -> got.from = "default"
  BY DEF LayersRanked
<1> DEFINE n == Len(deployment.search)
           setters == SetBy(k, n)
           got == LoadConfig.see[k]
<1>1. deployment.search \in Seq(Paths)
  BY ConfigAssumption
<1>2. n \in Nat /\ DOMAIN deployment.search = 1..n
  BY <1>1
<1>3. setters = {i \in DOMAIN deployment.search :
                   deployment.search[i] \in there /\ text[deployment.search[i]][k] # Unset}
  BY <1>2 DEF SetBy
<1>4. got = IF deployment.env[k] = Unset THEN Shown(k, n) ELSE [val |-> deployment.env[k], from |-> "env"]
  BY LoadShows
<1>5. CASE deployment.env[k] # Unset
  BY <1>4, <1>5
<1>6. CASE deployment.env[k] = Unset /\ setters # {}
  <2>1. LastOf(setters) \in setters /\ \A j \in setters : j <= LastOf(setters)
    BY <1>2, <1>6, LastIs DEF SetBy
  <2>2. PICK i \in setters : i = LastOf(setters)
    BY <2>1
  <2>3. got = Says(k, i)
    BY <1>4, <1>6, <2>2 DEF Shown
  <2>4. /\ \A j \in setters : j <= i
        /\ got = [val |-> text[deployment.search[i]][k], from |-> deployment.search[i]]
    BY <2>1, <2>2, <2>3 DEF Says
  <2> HIDE DEF setters, got
  <2>5. \E m \in setters :
          /\ \A j \in setters : j <= m
          /\ got = [val |-> text[deployment.search[m]][k], from |-> deployment.search[m]]
    BY <2>4
  <2> QED BY <1>3, <1>6, <2>5 DEF got
<1>7. CASE deployment.env[k] = Unset /\ setters = {}
  <2>1. got.from = "default"
    BY <1>4, <1>7 DEF Shown
  <2> QED BY <1>3, <1>7, <2>1
<1> QED BY <1>5, <1>6, <1>7

\* For each key by itself the environment, else the last file that sets it,
\* else the default: whatever the files are and however they are edited and
\* saved at the same time (load_config).
THEOREM LayersRankedHolds == Spec => []LayersRanked
<1>1. ConfigInv => LayersRanked
  BY LayersAreRanked DEF ConfigInv, Shaped
<1>2. ConfigInv /\ [Next]_vars => ConfigInv'
  BY ConfigStep
<1> QED BY InvInit, <1>1, <1>2, PTL DEF Spec

(***************************************************************************)
(* Types.                                                                  *)
(***************************************************************************)
\* A loaded configuration marks what is a default and what the environment set.
Marks(view) ==
  /\ view \in Loaded
  /\ \A k \in Keys : /\ view.see[k].from = "default" <=> view.see[k].val = Unset
                     /\ view.see[k].from = "env" <=> deployment.env[k] # Unset

LEMMA LoadMarks == ASSUME Shaped PROVE Marks(LoadConfig)
<1> DEFINE n == Len(deployment.search)
<1>1. deployment.search \in Seq(Paths) /\ deployment.env \in Bodies
  BY ConfigAssumption DEF Shaped
<1>2. n \in Nat /\ \A i \in 1..n : deployment.search[i] \in Paths
  BY <1>1
<1>3. ASSUME NEW k \in Keys
      PROVE  \/ SetBy(k, n) = {} /\ Shown(k, n) = [val |-> Unset, from |-> "default"]
             \/ \E p \in Paths : /\ Shown(k, n) = [val |-> text[p][k], from |-> p]
                                 /\ text[p][k] \in Values
  <2>1. CASE SetBy(k, n) = {}
    BY <2>1 DEF Shown
  <2>2. CASE SetBy(k, n) # {}
    <3>1. PICK i \in SetBy(k, n) : i = LastOf(SetBy(k, n))
      BY <1>2, <2>2, LastIs DEF SetBy
    <3>2. deployment.search[i] \in Paths /\ text[deployment.search[i]][k] # Unset
      BY <1>2, <3>1 DEF SetBy
    <3>3. text[deployment.search[i]][k] \in Values
      BY <3>2 DEF Shaped, Bodies
    <3>4. Shown(k, n) = Says(k, i)
      BY <2>2, <3>1 DEF Shown
    <3> QED BY <3>2, <3>3, <3>4 DEF Says
  <2> QED BY <2>1, <2>2
<1>4. ASSUME NEW k \in Keys
      PROVE  /\ LoadConfig.see[k] \in [val : Values \cup {Unset}, from : Sources]
             /\ LoadConfig.see[k].from = "default" <=> LoadConfig.see[k].val = Unset
             /\ LoadConfig.see[k].from = "env" <=> deployment.env[k] # Unset
  <2>1. LoadConfig.see[k] = IF deployment.env[k] = Unset THEN Shown(k, n)
                            ELSE [val |-> deployment.env[k], from |-> "env"]
    BY LoadShows DEF Shaped
  <2>2. CASE deployment.env[k] # Unset
    <3>1. deployment.env[k] \in Values
      BY <1>1, <2>2 DEF Bodies
    <3> QED BY <2>1, <2>2, <3>1 DEF Sources
  <2>3. CASE deployment.env[k] = Unset
    <3>1. \A p \in Paths : p \notin {"default", "env"}
      BY ConfigAssumption
    <3>2. Unset \notin Values
      BY ConfigAssumption
    <3>3. CASE Shown(k, n) = [val |-> Unset, from |-> "default"]
      BY <1>1, <2>1, <2>3, <3>3 DEF Sources
    <3>4. ASSUME NEW p \in Paths, Shown(k, n) = [val |-> text[p][k], from |-> p], text[p][k] \in Values
          PROVE  /\ LoadConfig.see[k] = [val |-> text[p][k], from |-> p]
                 /\ p # "default" /\ p # "env" /\ text[p][k] # Unset /\ p \in Sources
      BY <2>1, <2>3, <3>1, <3>2, <3>4 DEF Sources
    <3>5. CASE \E p \in Paths : /\ Shown(k, n) = [val |-> text[p][k], from |-> p]
                                /\ text[p][k] \in Values
      <4>1. PICK p \in Paths : /\ Shown(k, n) = [val |-> text[p][k], from |-> p]
                               /\ text[p][k] \in Values
        BY <3>5
      <4>2. /\ LoadConfig.see[k] = [val |-> text[p][k], from |-> p]
            /\ p # "default" /\ p # "env" /\ text[p][k] # Unset /\ p \in Sources
        BY <3>4, <4>1
      <4>3. LoadConfig.see[k].val = text[p][k] /\ LoadConfig.see[k].from = p
        BY <4>2
      <4> QED BY <2>3, <4>1, <4>2, <4>3
    <3> QED BY <1>3, <3>3, <3>5
  <2> QED BY <2>2, <2>3
<1>5. LoadConfig.see \in [Keys -> [val : Values \cup {Unset}, from : Sources]]
  <2>1. LoadConfig.see = [k \in Keys |-> LoadConfig.see[k]]
    BY LoadShows DEF Shaped
  <2> QED BY <1>4, <2>1
<1>6. LoadConfig.primary \in Paths \cup {NoPath}
  BY Basics, PrimaryIsCandidate DEF Shaped
<1>7. LoadConfig = [see |-> LoadConfig.see, primary |-> LoadConfig.primary]
  BY DEF LoadConfig
<1> QED BY <1>4, <1>5, <1>6, <1>7 DEF Marks, Loaded

\* What a step of a save does to the saves and to what they show.
Fds == {"none", "tmp", "path", "gone"}

LEMMA Effects ==
  ASSUME Shaped, NEW s \in Savers, SaveStep(s)
  PROVE  /\ saver[s].pc # "idle" /\ UNCHANGED <<deployment, up>>
         /\ \A t \in Savers \ {s} :
              /\ saver'[t].pc = saver[t].pc /\ saver'[t].key = saver[t].key
              /\ saver'[t].val = saver[t].val /\ saver'[t].alone = saver[t].alone
              /\ saver'[t].view = saver[t].view
              /\ saver[t].fd \in Fds => saver'[t].fd \in Fds
         /\ saver[s].fd \in Fds => saver'[s].fd \in Fds
         /\ saver'[s].pc = "idle" => EndSave(s) \/ SaveFails(s)
         /\ saver'[s].pc # "idle" =>
              /\ saver'[s].key = saver[s].key /\ saver'[s].val = saver[s].val
              /\ saver'[s].alone = saver[s].alone /\ UNCHANGED <<active, agreed, saved>>
         /\ saver'[s].pc = "set" =>
              saver[s].pc = "reload" /\ saver'[s].view = LoadConfig /\ UNCHANGED text
<1> DEFINE me == saver[s]
           goes(pc, body, fd, view) ==
             /\ saver'[s].pc = pc /\ saver'[s].body = body /\ saver'[s].fd = fd
             /\ saver'[s].view = view
             /\ saver'[s].key = me.key /\ saver'[s].val = me.val /\ saver'[s].alone = me.alone
           others == \A t \in Savers \ {s} : saver'[t] = saver[t]
<1>1. DOMAIN me = Fields /\ saver = [t \in Savers |-> saver[t]] /\ "none" \in Fds
  BY DEF Shaped, Fds
<1>2. CASE ReadDoc(s)
  <2> DEFINE old == IF me.path \in there THEN text[me.path] ELSE Empty
             pc == IF me.val = Unset /\ old[me.key] = Unset THEN "reload" ELSE "open"
             body == [old EXCEPT ![me.key] = me.val]
  <2>1. saver' = [saver EXCEPT ![s].pc = pc, ![s].body = body] /\ pc \in {"reload", "open"}
    BY <1>2 DEF ReadDoc
  <2>2. me.pc = "read" /\ UNCHANGED <<deployment, up, active, agreed, saved>>
    BY <1>2 DEF ReadDoc, ghosts
  <2> HIDE DEF pc, body
  <2>3. saver'[s] = [me EXCEPT !.pc = pc, !.body = body] /\ others
    BY <1>1, <2>1
  <2>4. goes(pc, body, me.fd, me.view)
    BY <1>1, <2>3 DEF Fields
  <2>5. saver'[s].pc \notin {"set", "idle"}
    BY <2>1, <2>4
  <2> QED BY <2>2, <2>3, <2>4, <2>5
<1>3. CASE OpenTmp(s)
  <2>1. saver'[s] = [me EXCEPT !.pc = "write", !.fd = "tmp"] /\ others
    BY <1>1, <1>3 DEF OpenTmp
  <2>2. goes("write", me.body, "tmp", me.view)
    BY <1>1, <2>1 DEF Fields
  <2> QED BY <1>3, <2>1, <2>2 DEF OpenTmp, ghosts, Fds
<1>4. CASE WriteTmp(s)
  <2>1. saver'[s] = [me EXCEPT !.pc = "rename"] /\ others
    BY <1>1, <1>4 DEF WriteTmp, Go
  <2>2. goes("rename", me.body, me.fd, me.view)
    BY <1>1, <2>1 DEF Fields
  <2> QED BY <1>4, <2>1, <2>2 DEF WriteTmp, ghosts
<1>5. CASE Rename(s)
  <2>1. saver'[s] = [me EXCEPT !.pc = "reload"]
    BY <1>5 DEF Rename, AfterRename
  <2>2. goes("reload", me.body, me.fd, me.view)
    BY <1>1, <2>1 DEF Fields
  <2>3. ASSUME NEW t \in Savers \ {s}
        PROVE  /\ saver'[t].pc = saver[t].pc /\ saver'[t].key = saver[t].key
               /\ saver'[t].val = saver[t].val /\ saver'[t].alone = saver[t].alone
               /\ saver'[t].view = saver[t].view
               /\ saver[t].fd \in Fds => saver'[t].fd \in Fds
    <3>1. PICK fd : /\ saver'[t] = [saver[t] EXCEPT !.fd = fd]
                    /\ fd \in {"path", "gone", saver[t].fd}
      BY <1>5 DEF Rename, AfterRename
    <3>2. DOMAIN saver[t] = Fields
      BY DEF Shaped
    <3> QED BY <3>1, <3>2 DEF Fields, Fds
  <2> QED BY <1>5, <2>2, <2>3 DEF Rename, ghosts
<1>6. CASE RenameBusy(s)
  <2>1. saver'[s] = [me EXCEPT !.pc = "fill"] /\ others
    BY <1>1, <1>6 DEF RenameBusy, Go
  <2>2. goes("fill", me.body, me.fd, me.view)
    BY <1>1, <2>1 DEF Fields
  <2> QED BY <1>6, <2>1, <2>2 DEF RenameBusy, ghosts
<1>7. CASE Fill(s)
  <2>1. saver'[s] = [me EXCEPT !.pc = "reload"] /\ others
    BY <1>1, <1>7 DEF Fill, Go
  <2>2. goes("reload", me.body, me.fd, me.view)
    BY <1>1, <2>1 DEF Fields
  <2> QED BY <1>7, <2>1, <2>2 DEF Fill, ghosts
<1>8. CASE Reload(s)
  <2>1. PICK view : view = LoadConfig
    OBVIOUS
  <2>2. saver'[s] = [me EXCEPT !.pc = "set", !.view = view] /\ others
    BY <1>1, <1>8, <2>1 DEF Reload
  <2>3. goes("set", me.body, me.fd, view)
    BY <1>1, <2>2 DEF Fields
  <2> QED BY <1>8, <2>1, <2>2, <2>3 DEF Reload, ghosts, disk
<1>9. CASE EndSave(s) \/ SaveFails(s)
  <2>1. saver'[s] = Idle /\ others
    BY <1>1, <1>9 DEF EndSave, SaveFails
  <2>2. me.pc \in {"set", "rename"} /\ UNCHANGED <<deployment, up>>
    BY <1>9 DEF EndSave, SaveFails
  <2> QED BY <1>1, <1>9, <2>1, <2>2, Basics
<1> QED BY <1>2, <1>3, <1>4, <1>5, <1>6, <1>7, <1>8, <1>9 DEF SaveStep

LEMMA BeginEffects ==
  ASSUME Shaped, NEW s \in Savers, BeginSave(s)
  PROVE  /\ saver'[s].pc = "read" /\ saver'[s].fd = "none" /\ saver'[s].alone = AllIdle
         /\ Editable(saver'[s].key) /\ saver'[s].key \in Keys
         /\ \A t \in Savers \ {s} :
              /\ saver'[t].pc = saver[t].pc /\ saver'[t].fd = saver[t].fd /\ ~saver'[t].alone
              /\ saver'[t].key = saver[t].key /\ saver'[t].view = saver[t].view
         /\ AllIdle => \A l \in saved' :
              /\ l \in saved /\ l # saver'[s].key /\ text[active.primary][l] \in agreed[l]
              /\ l \in Keys => agreed'[l] = agreed[l]
<1>1. PICK k \in Keys, v \in Values \cup {Unset} :
        /\ Editable(k)
        /\ saver' = [t \in Savers |->
             IF t = s THEN [Idle EXCEPT !.pc = "read", !.key = k, !.val = v,
                              !.path = active.primary, !.alone = AllIdle]
             ELSE [saver[t] EXCEPT !.alone = FALSE]]
        /\ agreed' = [l \in Keys |->
             IF ~AllIdle \/ text[active.primary][l] \notin agreed[l]
             THEN Values \cup {Unset}
             ELSE IF l = k THEN {text[active.primary][k], v} ELSE agreed[l]]
        /\ saved' = IF ~AllIdle THEN {}
                    ELSE {l \in saved \ {k} : text[active.primary][l] \in agreed[l]}
  BY Zenon DEF BeginSave
<1>2. /\ saver'[s].pc = "read" /\ saver'[s].fd = "none" /\ saver'[s].alone = AllIdle
      /\ saver'[s].key = k
  <2>1. PICK path : path = active.primary
    OBVIOUS
  <2>2. PICK alone : alone = AllIdle
    OBVIOUS
  <2>3. saver'[s] = [Idle EXCEPT !.pc = "read", !.key = k, !.val = v, !.path = path,
                       !.alone = alone]
    BY <1>1, <2>1, <2>2
  <2> QED BY <2>2, <2>3 DEF Idle
<1>3. ASSUME NEW t \in Savers \ {s}
      PROVE  /\ saver'[t].pc = saver[t].pc /\ saver'[t].fd = saver[t].fd /\ ~saver'[t].alone
             /\ saver'[t].key = saver[t].key /\ saver'[t].view = saver[t].view
  <2>1. saver'[t] = [saver[t] EXCEPT !.alone = FALSE] /\ DOMAIN saver[t] = Fields
    BY <1>1 DEF Shaped
  <2> QED BY <2>1 DEF Fields
<1>4. ASSUME AllIdle, NEW l \in saved'
      PROVE  /\ l \in saved /\ l # k /\ text[active.primary][l] \in agreed[l]
             /\ l \in Keys => agreed'[l] = agreed[l]
  BY <1>1, <1>4
<1> QED BY <1>1, <1>2, <1>3, <1>4

\* Whatever is loaded, is being installed or is in force is a configuration
\* that marks its layers.
Views ==
  /\ Marks(active) /\ up \in BOOLEAN /\ saved \subseteq Keys
  /\ \A s \in Savers : /\ saver[s].fd \in Fds
                       /\ saver[s].pc = "set" => Marks(saver[s].view)

LEMMA ViewsInit == ASSUME Init, Shaped PROVE Views
<1>1. saver = [s \in Savers |-> Idle] /\ active = LoadConfig /\ up = TRUE /\ saved = {}
  BY DEF Init
<1>2. \A s \in Savers : saver[s] = Idle
  BY <1>1
<1>3. Marks(active)
  BY <1>1, LoadMarks
<1> QED BY <1>1, <1>2, <1>3, Basics DEF Views, Fds

\* Who installs a configuration, and what a step leaves alone.
LEMMA Installs ==
  ASSUME ConfigInv, [Next]_vars
  PROVE  /\ UNCHANGED deployment
         /\ up' = up \/ up' \in BOOLEAN
         /\ saved' \subseteq saved \/ \E k \in Keys : saved' \subseteq saved \cup {k}
         /\ \/ active' = active \/ active' = LoadConfig
            \/ \E s \in Savers : saver[s].pc = "set" /\ active' = saver[s].view
<1>1. CASE \E s \in Savers : SaveStep(s)
  <2>1. PICK s \in Savers : SaveStep(s)
    BY <1>1
  <2>2. UNCHANGED <<deployment, up>> /\ (saver'[s].pc # "idle" => UNCHANGED <<active, saved>>)
        /\ (saver'[s].pc = "idle" => EndSave(s) \/ SaveFails(s))
    BY <2>1, Effects DEF ConfigInv
  <2>3. CASE EndSave(s)
    <3>1. saver[s].pc = "set" /\ active' = saver[s].view
          /\ (saved' = saved \/ saved' = saved \cup {saver[s].key})
      BY <2>3 DEF EndSave
    <3>2. saver[s].key \in Keys
      BY <3>1 DEF ConfigInv, Routed
    <3> QED BY <2>2, <3>1, <3>2
  <2>4. CASE SaveFails(s)
    BY <2>2, <2>4 DEF SaveFails
  <2> QED BY <2>2, <2>3, <2>4
<1>2. CASE \E s \in Savers : BeginSave(s)
  BY <1>2 DEF BeginSave
<1>3. CASE HandEdit
  BY <1>3 DEF HandEdit, ghosts
<1>4. CASE Kill
  BY <1>4 DEF Kill, ghosts
<1>5. CASE Restart
  BY <1>5 DEF Restart, ghosts
<1>6. CASE UNCHANGED vars
  BY <1>6 DEF vars
<1> QED BY <1>1, <1>2, <1>3, <1>4, <1>5, <1>6 DEF Next

LEMMA ViewsStep ==
  ASSUME ConfigInv, Views, [Next]_vars
  PROVE  Views'
<1>1. UNCHANGED deployment /\ Shaped
  BY Installs DEF ConfigInv
<1>2. ASSUME NEW view, Marks(view) PROVE Marks(view)'
  BY <1>1, <1>2 DEF Marks, Loaded
<1>3. Marks(active)'
  <2>1. Marks(active')
    BY <1>1, Installs, LoadMarks DEF Views
  <2>2. PICK view : view = active'
    OBVIOUS
  <2>3. Marks(view)'
    BY <1>2, <2>1, <2>2
  <2> QED BY <2>2, <2>3
<1>4. up' \in BOOLEAN
  BY Installs DEF Views
<1>5. saved' \subseteq Keys
  BY Installs DEF Views
<1>6. ASSUME NEW t \in Savers
      PROVE  /\ saver'[t].fd \in Fds
             /\ saver'[t].pc = "set" => Marks(saver'[t].view)
  <2>1. ASSUME NEW s \in Savers, SaveStep(s) PROVE saver'[t].fd \in Fds
    BY <1>1, <2>1, Effects DEF Views
  <2>2. ASSUME NEW s \in Savers, SaveStep(s), saver'[t].pc = "set" PROVE Marks(saver'[t].view)
    <3>1. CASE t = s
      BY <2>2, <3>1, Effects, LoadMarks, <1>1
    <3>2. CASE t # s
      BY <1>1, <2>2, <3>2, Effects DEF Views
    <3> QED BY <3>1, <3>2
  <2>3. ASSUME NEW s \in Savers, BeginSave(s)
        PROVE  saver'[t].fd \in Fds /\ (saver'[t].pc = "set" => Marks(saver'[t].view))
    <3>1. CASE t = s
      BY <2>3, <3>1, BeginEffects, <1>1 DEF Fds
    <3>2. CASE t # s
      BY <2>3, <3>2, BeginEffects, <1>1 DEF Views
    <3> QED BY <3>1, <3>2
  <2>4. CASE HandEdit \/ Restart \/ UNCHANGED vars
    BY <2>4 DEF HandEdit, Restart, vars, Views
  <2>5. CASE Kill
    BY <2>5, Basics DEF Kill, Fds
  <2> QED BY <2>1, <2>2, <2>3, <2>4, <2>5 DEF Next
<1>7. ASSUME NEW t \in Savers, saver'[t].pc = "set" PROVE Marks(saver[t].view)'
  <2>1. PICK view : view = saver'[t].view
    OBVIOUS
  <2>2. Marks(view)'
    BY <1>2, <1>6, <1>7, <2>1
  <2> QED BY <2>1, <2>2
<1> QED BY <1>3, <1>4, <1>5, <1>6, <1>7 DEF Views

\* Types, and no value of a file is taken for a default: for every search list.
THEOREM ConfigTypeCorrect == Spec => []ConfigTypeOK
<1>1. ConfigInv /\ Views /\ [Next]_vars => ConfigInv' /\ Views'
  BY ConfigStep, ViewsStep
<1>2. Init => ConfigInv /\ Views
  BY InvInit, ViewsInit DEF ConfigInv
<1>3. ConfigInv /\ Views => ConfigTypeOK
  BY DEF ConfigInv, Shaped, Views, Marks, Fds, All, ConfigTypeOK
<1> QED BY <1>1, <1>2, <1>3, PTL DEF Spec

(***************************************************************************)
(* What is stored is in force.                                             *)
(***************************************************************************)
\* Every drop-in directory has a file above it that is there or can be made.
\* It is so of the default search list as long as <state_dir>/bty.toml, which
\* is the last of it, can be written.
FilesOnTop ==
  \A d \in Deployments : \A i \in DOMAIN d.search :
    d.search[i] \in Dirs =>
      \E j \in DOMAIN d.search : j > i /\ d.search[j] \in (d.there \cup d.creatable) \ Dirs

\* The primary file is the highest candidate.
LEMMA PrimaryRank ==
  ASSUME deployment \in Deployments, Primary # NoPath
  PROVE  \E r \in 1..Len(deployment.search) :
           /\ deployment.search[r] = Primary
           /\ \A j \in 1..Len(deployment.search) : Candidate(deployment.search[j]) => j <= r
<1> DEFINE list == deployment.search
           ranks == {i \in DOMAIN list : Candidate(list[i])}
           r == CHOOSE i \in ranks : \A j \in ranks : j <= i
<1>1. list \in Seq(Paths)
  BY ConfigAssumption
<1>2. Len(list) \in Nat /\ DOMAIN list = 1..Len(list)
  BY <1>1
<1>3. ranks # {} /\ Primary = list[r]
  BY DEF Primary
<1>4. ranks \in SUBSET (1..Len(list))
  BY <1>2
<1>5. r \in ranks /\ \A j \in ranks : j <= r
  <2> HIDE DEF ranks
  <2> QED BY <1>2, <1>3, <1>4, Greatest
<1> HIDE DEF r
<1> QED BY <1>2, <1>3, <1>5

\* So what it says is what a load shows, where the environment does not.
LEMMA PrimaryShows ==
  ASSUME FilesOnTop, Shaped, Routed, deployment.there \subseteq there, Primary # NoPath,
         NEW k \in Keys, text[Primary][k] # Unset, deployment.env[k] = Unset
  PROVE  LoadConfig.see[k] = [val |-> text[Primary][k], from |-> Primary]
<1> DEFINE list == deployment.search
           n == Len(list)
<1>1. deployment \in Deployments /\ list \in Seq(Paths) /\ n \in Nat /\ DOMAIN list = 1..n
  <2>1. deployment \in Deployments /\ list \in Seq(Paths)
    BY ConfigAssumption DEF Shaped
  <2> QED BY <2>1
<1>2. PICK r \in 1..n : list[r] = Primary /\ \A j \in 1..n : Candidate(list[j]) => j <= r
  BY <1>1, PrimaryRank
<1>3. Primary \in there
  BY DEF Routed, Empty
<1>4. r \in SetBy(k, n)
  BY <1>2, <1>3 DEF SetBy
<1>5. PICK m \in SetBy(k, n) : m = LastOf(SetBy(k, n)) /\ \A j \in SetBy(k, n) : j <= m
  BY <1>1, <1>4, LastIs DEF SetBy
<1>6. m \in 1..n /\ list[m] \in there /\ r <= m
  BY <1>4, <1>5 DEF SetBy
<1>7. list[m] \notin Dirs
  <2> SUFFICES ASSUME list[m] \in Dirs PROVE FALSE
    OBVIOUS
  <2>1. PICK j \in 1..n : j > m /\ list[j] \in (deployment.there \cup deployment.creatable) \ Dirs
    BY <1>1, <1>6 DEF FilesOnTop
  <2>2. Candidate(list[j])
    BY <2>1 DEF Candidate
  <2>3. j <= r
    BY <1>2, <2>2
  <2> QED BY <1>6, <2>1, <2>3
<1>8. m = r
  <2>1. Candidate(list[m])
    BY <1>6, <1>7 DEF Candidate
  <2>2. m <= r
    BY <1>2, <1>6, <2>1
  <2> QED BY <1>6, <2>2
<1>9. Shown(k, n) = [val |-> text[Primary][k], from |-> Primary]
  BY <1>2, <1>4, <1>5, <1>8 DEF Shown, Says
<1> QED BY <1>1, <1>9, LoadShows

Stored(view, l, v) == view.see[l] = [val |-> v, from |-> Primary]

\* Value v of key l has been stored: it is in force, or lost from a file that
\* had to be written in place, and whoever is about to install a configuration
\* has it.
Standing(l, v) ==
  /\ agreed[l] = {v} /\ deployment.env[l] = Unset
  /\ up => Stored(active, l, v) \/ (AllIdle /\ text[Primary][l] # v)
  /\ \A s \in Savers : saver[s].pc = "set" => Stored(saver[s].view, l, v)

\* A save under way is of a key that the environment leaves alone; what it is
\* about to install, alone, has its value.
Saving(s) ==
  saver[s].pc # "idle" =>
    /\ deployment.env[saver[s].key] = Unset
    /\ saver[s].alone \/ saved = {}
    /\ saver[s].key \notin saved
    /\ saver[s].alone /\ saver[s].pc = "set" /\ saver[s].val # Unset =>
         Stored(saver[s].view, saver[s].key, saver[s].val)

Steady == deployment.there \subseteq there /\ saved \subseteq Keys

ForceInv ==
  /\ Steady
  /\ ~up => AllIdle
  /\ \A s \in Savers : Saving(s)
  /\ \A l \in saved : Primary # NoPath /\ \E v \in Values : Standing(l, v)

LEMMA ForceIsWanted ==
  ASSUME ConfigInv, ForceInv
  PROVE  SavedInForce
<1> SUFFICES ASSUME NEW l \in saved, up, text[active.primary][l] \in agreed[l]
             PROVE  active.see[l] = [val |-> text[active.primary][l], from |-> active.primary]
  BY DEF SavedInForce
<1>1. active.primary = Primary
  BY DEF ConfigInv, Routed
<1>2. PICK v \in Values : Standing(l, v)
  BY DEF ForceInv
<1>3. text[Primary][l] = v
  BY <1>1, <1>2 DEF Standing
<1> QED BY <1>1, <1>2, <1>3 DEF Standing, Stored

LEMMA PrimaryNext ==
  ASSUME ConfigInv, ConfigInv', [Next]_vars
  PROVE  Primary' = Primary
<1>1. active.primary = Primary /\ active'.primary = Primary'
  BY DEF ConfigInv, Routed
<1>2. active'.primary = Primary
  BY <1>1, Installs, Basics DEF ConfigInv, Routed
<1> QED BY <1>1, <1>2

\* No file goes away.
LEMMA ThereGrows == ASSUME [Next]_vars PROVE there \subseteq there'
<1>1. ASSUME NEW s \in Savers, SaveStep(s) PROVE there \subseteq there'
  BY <1>1 DEF SaveStep, ReadDoc, OpenTmp, WriteTmp, Rename, RenameBusy, SaveFails, Fill, Reload,
              EndSave, disk
<1>2. CASE \E s \in Savers : BeginSave(s)
  BY <1>2 DEF BeginSave, disk
<1>3. CASE HandEdit \/ Kill \/ Restart \/ UNCHANGED vars
  BY <1>3 DEF HandEdit, Kill, Restart, vars, disk
<1> QED BY <1>1, <1>2, <1>3 DEF Next

\* A save that goes on.
LEMMA GoingKeepsForce ==
  ASSUME FilesOnTop, ConfigInv, ConfigInv', ForceInv, Primary' = Primary,
         Steady',
         NEW s \in Savers, SaveStep(s), saver'[s].pc # "idle"
  PROVE  ForceInv'
<1>1. /\ saver[s].pc # "idle" /\ ~AllIdle /\ up
      /\ UNCHANGED <<deployment, up, active, agreed, saved>>
      /\ saver'[s].key = saver[s].key /\ saver'[s].val = saver[s].val
      /\ saver'[s].alone = saver[s].alone
      /\ saver'[s].pc = "set" => saver[s].pc = "reload" /\ saver'[s].view = LoadConfig
      /\ \A t \in Savers \ {s} :
           /\ saver'[t].pc = saver[t].pc /\ saver'[t].key = saver[t].key
           /\ saver'[t].val = saver[t].val /\ saver'[t].alone = saver[t].alone
           /\ saver'[t].view = saver[t].view
  BY Effects DEF ConfigInv, AllIdle, ForceInv
<1>2. /\ Primary # NoPath /\ saver[s].key \in Keys /\ saver[s].val \in All
      /\ deployment.env[saver[s].key] = Unset /\ (saver[s].alone \/ saved = {})
      /\ saver[s].key \notin saved
  BY <1>1 DEF ConfigInv, Routed, ForceInv, Saving
<1>3. ASSUME NEW l \in Keys, NEW v \in Values, saver'[s].pc = "set", text[Primary][l] = v,
             deployment.env[l] = Unset
      PROVE  Stored(saver'[s].view, l, v)
  <2>1. v # Unset
    BY ConfigAssumption
  <2> QED BY <1>1, <1>2, <1>3, <2>1, PrimaryShows DEF ConfigInv, ForceInv, Steady, Stored
<1>4. ASSUME NEW t \in Savers PROVE Saving(t)'
  <2>1. CASE t # s
    BY <1>1, <2>1 DEF ForceInv, Saving, Stored
  <2>2. CASE t = s
    <3>1. ASSUME saver[s].alone, saver'[s].pc = "set", saver[s].val # Unset
          PROVE  Stored(saver'[s].view, saver[s].key, saver[s].val)
      <4>1. text[Primary][saver[s].key] = saver[s].val
        BY <1>1, <3>1 DEF ConfigInv, Progress
      <4>2. saver[s].val \in Values
        BY <1>2, <3>1 DEF All
      <4> QED BY <1>2, <1>3, <3>1, <4>1, <4>2
    <3> QED BY <1>1, <1>2, <2>2, <3>1 DEF Saving, Stored
  <2> QED BY <2>1, <2>2
<1>5. ASSUME NEW l \in saved, NEW v \in Values, Standing(l, v) PROVE Standing(l, v)'
  <2>1. Stored(active, l, v) /\ saver[s].alone /\ agreed[l] = {v} /\ deployment.env[l] = Unset
    BY <1>1, <1>2, <1>5 DEF Standing
  <2>2. ASSUME saver'[s].pc = "set" PROVE Stored(saver'[s].view, l, v)
    <3>1. l \in Keys /\ Kept(text[Primary])
      BY <1>1, <1>5, <2>1, <2>2 DEF ConfigInv, Progress, ForceInv, Steady
    <3>2. text[Primary][l] = v
      BY <2>1, <3>1 DEF Kept
    <3> QED BY <1>3, <2>1, <2>2, <3>1, <3>2
  <2>3. ASSUME NEW t \in Savers, saver'[t].pc = "set" PROVE Stored(saver'[t].view, l, v)
    BY <1>1, <1>5, <2>2, <2>3 DEF Standing
  <2> QED BY <1>1, <2>1, <2>3 DEF Standing, Stored
<1>6. \A l \in saved' : Primary' # NoPath /\ \E v \in Values : Standing(l, v)'
  BY <1>1, <1>2, <1>5 DEF ForceInv
<1> QED BY <1>1, <1>4, <1>6 DEF ForceInv

\* A save that ends.
LEMMA EndingKeepsForce ==
  ASSUME ConfigInv, ConfigInv', ForceInv, Primary' = Primary, Steady',
         NEW s \in Savers, EndSave(s) \/ SaveFails(s)
  PROVE  ForceInv'
<1> DEFINE me == saver[s]
<1>1. /\ me.pc # "idle" /\ ~AllIdle /\ up /\ UNCHANGED <<deployment, up, text>>
      /\ saver'[s] = Idle /\ \A t \in Savers \ {s} : saver'[t] = saver[t]
  <2>1. saver' = [saver EXCEPT ![s] = Idle] /\ me.pc \in {"set", "rename"}
        /\ UNCHANGED <<deployment, up, text>>
    BY DEF EndSave, SaveFails, disk
  <2> QED BY <2>1 DEF ConfigInv, Shaped, AllIdle, ForceInv
<1>2. /\ Primary # NoPath /\ me.key \in Keys /\ me.val \in All
      /\ deployment.env[me.key] = Unset /\ (me.alone \/ saved = {}) /\ me.key \notin saved
      /\ me.alone /\ me.pc = "set" /\ me.val # Unset => Stored(me.view, me.key, me.val)
  BY <1>1 DEF ConfigInv, Routed, ForceInv, Saving
<1>3. CASE ~me.alone
  <2>1. saved' = {}
    BY <1>2, <1>3 DEF EndSave, SaveFails
  <2>2. ASSUME NEW t \in Savers PROVE Saving(t)'
    <3>1. CASE t = s
      BY <1>1, <3>1, Basics DEF Saving
    <3>2. CASE t # s
      BY <1>1, <2>1, <3>2 DEF ForceInv, Saving, Stored
    <3> QED BY <3>1, <3>2
  <2> QED BY <1>1, <2>1, <2>2 DEF ForceInv
<1>4. CASE me.alone
  <2>1. \A t \in Savers : saver'[t].pc = "idle"
    BY <1>1, <1>4, Basics DEF ConfigInv, Apart
  <2>2. \A t \in Savers : Saving(t)'
    BY <2>1 DEF Saving
  <2>3. ASSUME NEW l \in saved
        PROVE  \E v \in Values : Standing(l, v)'
    <3>1. PICK v \in Values : Standing(l, v)
      BY DEF ForceInv
    <3>2. agreed'[l] = {v}
      <4>1. agreed'[l] = agreed[l]
        BY <1>2, <1>4 DEF EndSave, SaveFails, ConfigInv, Shaped, ForceInv, Steady
      <4> QED BY <3>1, <4>1 DEF Standing
    <3>3. Stored(active, l, v) /\ (me.pc = "set" => Stored(me.view, l, v))
      BY <1>1, <3>1 DEF Standing
    <3>4. Stored(active', l, v)
      BY <3>3 DEF EndSave, SaveFails
    <3> QED BY <1>1, <2>1, <3>1, <3>2, <3>4 DEF Standing, Stored
  <2>4. ASSUME NEW k \in Keys, k = me.key, EndSave(s), me.val # Unset
        PROVE  \E v \in Values : Standing(k, v)'
    <3>1. PICK v \in Values : v = me.val
      BY <1>2, <2>4 DEF All
    <3>2. agreed'[k] = {v}
      BY <1>2, <1>4, <2>4, <3>1 DEF EndSave, ConfigInv, Shaped
    <3>3. Stored(active', k, v)
      BY <1>2, <1>4, <2>4, <3>1 DEF EndSave
    <3> QED BY <1>1, <1>2, <2>1, <2>4, <3>2, <3>3 DEF Standing, Stored
  <2>5. saved' = saved \/ (EndSave(s) /\ me.val # Unset /\ saved' = saved \cup {me.key})
    BY DEF EndSave, SaveFails
  <2>6. ASSUME NEW l \in saved' PROVE Primary' # NoPath /\ \E v \in Values : Standing(l, v)'
    <3>1. CASE l \in saved
      BY <1>2, <2>3, <3>1
    <3>2. CASE EndSave(s) /\ me.val # Unset /\ l = me.key
      BY <1>2, <2>4, <3>2
    <3> QED BY <2>5, <3>1, <3>2
  <2> QED BY <1>1, <2>2, <2>6 DEF ForceInv
<1> QED BY <1>3, <1>4

\* A save that begins: of a key that the environment leaves alone.
LEMMA BeginKeepsForce ==
  ASSUME ConfigInv, ConfigInv', Views, ForceInv, Primary' = Primary,
         Steady', NEW s \in Savers, BeginSave(s)
  PROVE  ForceInv'
<1>1. /\ saver'[s].pc = "read" /\ saver'[s].alone = AllIdle
      /\ saver'[s].key \in Keys /\ active.see[saver'[s].key].from # "env"
      /\ \A t \in Savers \ {s} :
           saver'[t].pc = saver[t].pc /\ ~saver'[t].alone /\ saver'[t].key = saver[t].key
  BY BeginEffects DEF ConfigInv, Editable
<1>2. /\ up /\ UNCHANGED <<deployment, text, active, up>> /\ active.primary = Primary
      /\ Primary # NoPath
  BY DEF BeginSave, disk, ConfigInv, Routed
<1>3. deployment.env[saver'[s].key] = Unset
  BY <1>1 DEF Views, Marks
<1>4. CASE ~AllIdle
  <2>1. saved' = {}
    BY <1>4 DEF BeginSave
  <2>2. ASSUME NEW t \in Savers PROVE Saving(t)'
    <3>1. CASE t = s
      BY <1>1, <1>2, <1>3, <2>1, <3>1 DEF Saving
    <3>2. CASE t # s
      BY <1>1, <1>2, <2>1, <3>2 DEF ForceInv, Saving
    <3> QED BY <3>1, <3>2
  <2> QED BY <1>2, <2>1, <2>2 DEF ForceInv
<1>5. CASE AllIdle
  <2>1. ASSUME NEW l \in saved'
        PROVE  /\ l \in saved /\ l # saver'[s].key /\ text[Primary][l] \in agreed[l]
               /\ agreed'[l] = agreed[l]
    BY <1>2, <1>5, <2>1, BeginEffects DEF ConfigInv, ForceInv, Steady
  <2>2. ASSUME NEW t \in Savers PROVE Saving(t)'
    <3>1. CASE t = s
      BY <1>1, <1>2, <1>3, <1>5, <2>1, <3>1 DEF Saving
    <3>2. CASE t # s
      BY <1>1, <1>5, <3>2 DEF AllIdle, Saving
    <3> QED BY <3>1, <3>2
  <2>3. ASSUME NEW l \in saved' PROVE \E v \in Values : Standing(l, v)'
    <3>1. PICK v \in Values : Standing(l, v)
      BY <2>1 DEF ForceInv
    <3>2. agreed'[l] = {v} /\ Stored(active, l, v) /\ deployment.env[l] = Unset
      BY <1>2, <2>1, <3>1 DEF Standing
    <3>3. \A t \in Savers : saver'[t].pc # "set"
      BY <1>1, <1>5 DEF AllIdle
    <3> QED BY <1>2, <3>2, <3>3 DEF Standing, Stored
  <2> QED BY <1>2, <2>2, <2>3 DEF ForceInv
<1> QED BY <1>4, <1>5

\* The editor, a kill, a new process.
LEMMA OthersKeepForce ==
  ASSUME FilesOnTop, ConfigInv, ConfigInv', ForceInv, Primary' = Primary,
         Steady', HandEdit \/ Kill \/ Restart \/ UNCHANGED vars
  PROVE  ForceInv'
<1>1. CASE UNCHANGED vars
  BY <1>1 DEF vars, disk, ghosts, bounds, ForceInv, Saving, Standing, Stored, AllIdle
<1>2. CASE Kill
  <2>1. /\ ~up' /\ \A s \in Savers : saver'[s].pc = "idle"
        /\ UNCHANGED <<deployment, agreed, saved>>
    BY <1>2, Basics DEF Kill, ghosts
  <2>2. AllIdle' /\ \A s \in Savers : Saving(s)'
    BY <2>1 DEF AllIdle, Saving
  <2>3. ASSUME NEW l \in saved', NEW v \in Values, Standing(l, v) PROVE Standing(l, v)'
    BY <2>1, <2>3 DEF Standing
  <2> QED BY <2>1, <2>2, <2>3 DEF ForceInv
<1>3. CASE Restart
  <2>1. /\ ~up /\ up' /\ active' = LoadConfig
        /\ UNCHANGED <<deployment, there, text, saver, agreed, saved>>
    BY <1>3 DEF Restart, disk, ghosts
  <2>2. AllIdle /\ AllIdle' /\ \A s \in Savers : Saving(s)'
    BY <2>1 DEF ForceInv, AllIdle, Saving
  <2>3. ASSUME NEW l \in saved', NEW v \in Values, Primary # NoPath, Standing(l, v)
        PROVE  Standing(l, v)'
    <3>1. ASSUME text[Primary][l] = v PROVE Stored(active', l, v)
      <4>1. v # Unset /\ l \in Keys /\ deployment.env[l] = Unset
        BY <2>1, <2>3, ConfigAssumption DEF Standing, ForceInv, Steady
      <4> QED BY <2>1, <2>3, <3>1, <4>1, PrimaryShows DEF ConfigInv, ForceInv, Steady, Stored
    <3>2. \A t \in Savers : saver'[t].pc # "set"
      BY <2>2 DEF AllIdle
    <3> QED BY <2>1, <2>2, <2>3, <3>1, <3>2 DEF Standing, Stored
  <2> QED BY <2>1, <2>2, <2>3 DEF ForceInv
<1>4. CASE HandEdit
  <2>1. PICK p \in there, k \in Keys, w \in Values \cup {Unset} :
          /\ text' = [text EXCEPT ![p][k] = w]
          /\ IF p = Primary
             THEN /\ agreed' = [agreed EXCEPT ![k] = Values \cup {Unset}]
                  /\ saved' = saved \ {k}
             ELSE UNCHANGED <<agreed, saved>>
    BY <1>4 DEF HandEdit, ghosts
  <2>2. UNCHANGED <<deployment, active, up, saver>>
    BY <1>4 DEF HandEdit
  <2>3. /\ saved' \subseteq saved
        /\ \A l \in saved' : agreed'[l] = agreed[l]
        /\ Primary # NoPath => \A l \in saved' : text'[Primary][l] = text[Primary][l]
    <3>1. p \in Paths /\ text \in [Paths -> Bodies] /\ (Primary # NoPath => Primary \in Paths)
      BY PrimaryIsCandidate DEF ConfigInv, Shaped
    <3>2. CASE p = Primary
      <4>1. text'[Primary] = [text[Primary] EXCEPT ![k] = w]
        BY <2>1, <3>1, <3>2
      <4>2. \A l \in Keys \ {k} : text'[Primary][l] = text[Primary][l]
        BY <3>1, <3>2, <4>1 DEF Bodies
      <4>3. saved' = saved \ {k} /\ \A l \in saved' : agreed'[l] = agreed[l]
        BY <2>1, <3>2 DEF ConfigInv, Shaped, ForceInv, Steady
      <4> QED BY <3>2, <4>2, <4>3 DEF ForceInv, Steady
    <3>3. CASE p # Primary
      BY <2>1, <3>1, <3>3
    <3> QED BY <3>2, <3>3
  <2>4. ~up' => AllIdle'
    BY <2>2 DEF ForceInv, AllIdle
  <2>5. \A s \in Savers : Saving(s)'
    BY <2>2, <2>3 DEF ForceInv, Saving, Stored
  <2>6. ASSUME NEW l \in saved', NEW v \in Values, Primary # NoPath, Standing(l, v)
        PROVE  Standing(l, v)'
    BY <2>2, <2>3, <2>6 DEF Standing, Stored, AllIdle
  <2> QED BY <2>2, <2>3, <2>4, <2>5, <2>6 DEF ForceInv
<1> QED BY <1>1, <1>2, <1>3, <1>4

\* What a save has reported as stored is in force until the file loses it, in
\* the process that saved it and in every later one, whatever is edited, killed
\* and saved in between (ui_settings_config_edit).
THEOREM SavedInForceHolds == ASSUME FilesOnTop PROVE Spec => []SavedInForce
<1>1. Init => ConfigInv /\ Views /\ ForceInv
  <2> SUFFICES ASSUME Init PROVE ConfigInv /\ Views /\ ForceInv
    OBVIOUS
  <2>1. saver = [s \in Savers |-> Idle] /\ up = TRUE /\ saved = {} /\ there = deployment.there
    BY DEF Init
  <2>2. \A s \in Savers : saver[s].pc = "idle"
    BY <2>1, Basics
  <2>3. ForceInv
    BY <2>1, <2>2 DEF ForceInv, Steady, Saving
  <2> QED BY <2>3, InvInit, ViewsInit DEF ConfigInv
<1>2. ConfigInv /\ Views /\ ForceInv /\ [Next]_vars => ConfigInv' /\ Views' /\ ForceInv'
  <2> SUFFICES ASSUME ConfigInv, Views, ForceInv, [Next]_vars
               PROVE  ConfigInv' /\ Views' /\ ForceInv'
    OBVIOUS
  <2>1. ConfigInv' /\ Views'
    BY ConfigStep, ViewsStep
  <2>2. Primary' = Primary
    BY <2>1, PrimaryNext
  <2>3. Steady'
    BY <2>1, ThereGrows, Installs DEF ForceInv, Steady, Views
  <2>4. ASSUME NEW s \in Savers, SaveStep(s) PROVE ForceInv'
    <3>1. CASE saver'[s].pc # "idle"
      BY <2>1, <2>2, <2>3, <2>4, <3>1, GoingKeepsForce
    <3>2. CASE saver'[s].pc = "idle"
      <4>1. EndSave(s) \/ SaveFails(s)
        BY <2>4, <3>2, Effects DEF ConfigInv
      <4> QED BY <2>1, <2>2, <2>3, <4>1, EndingKeepsForce
    <3> QED BY <3>1, <3>2
  <2>5. ASSUME NEW s \in Savers, BeginSave(s) PROVE ForceInv'
    BY <2>1, <2>2, <2>3, <2>5, BeginKeepsForce
  <2> QED BY <2>1, <2>2, <2>3, <2>4, <2>5, OthersKeepForce DEF Next
<1> QED BY <1>1, <1>2, ForceIsWanted, PTL DEF Spec
=============================================================================
