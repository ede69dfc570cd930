---------------------------- MODULE DeployProofs ----------------------------
(***************************************************************************)
(* What no sequence of bty-lab commands can do to a host, for any number of *)
(* versions, directories, commands and faults: lose a save that nobody has *)
(* deleted, or let a server answer from tables that are not its own; and,   *)
(* where one user gives all commands, hide a stack from purge other than    *)
(* one that a purge has failed to stop.                                     *)
(***************************************************************************)
EXTENDS Deploy, NaturalsInduction, WellFoundedInduction, TLAPS

UnitSpecs == [Units -> Specs \cup {None}]

(***************************************************************************)
(* Types.                                                                  *)
(***************************************************************************)
\* There is a version and a directory, so a server that is down has both.
LEMMA SomeServer ==
  /\ Down \in Servers /\ Down.pc = "down"
  /\ \A version \in Versions, dir \in Dirs :
       /\ Booted(version, dir) \in Servers /\ Booted(version, dir).pc = "probe"
       /\ Booted(version, dir).version = version /\ Booted(version, dir).dir = dir
<1>1. (CHOOSE v \in Versions : TRUE) \in Versions /\ (CHOOSE d \in Dirs : TRUE) \in Dirs
  BY StateDbAssumption, DeployAssumption
<1> QED BY <1>1 DEF Down, Booted, Servers

\* A file that is not there is a database without tables.
LEMMA NoFileTyped == NoFile \in Databases /\ NoFile.tables = 0 /\ NoFile.marker = NoMarker /\ NoFile.saves = {}
BY DEF NoFile, Databases

\* The specification of a unit that is not None is one of a version.
LEMMA RealSpec ==
  ASSUME NEW spec \in Specs \cup {None}, spec # None
  PROVE  spec.version \in Versions /\ spec.dir \in Dirs
BY DEF Specs

\* The steps of a plan are steps.
LEMMA PlanTyped ==
  ASSUME NEW args \in Args
  PROVE  Plan(args) \in Seq(Steps)
<1> DEFINE emit == Emit(args)
<1>1. emit \in Seq(Steps)
  <2>1. <<"compose.yml">> \in Seq(Steps) /\ <<"quadlets">> \in Seq(Steps) /\ <<>> \in Seq(Steps)
    BY DEF Steps
  <2>2. CASE args.root
    BY <2>1, <2>2 DEF Emit
  <2>3. CASE ~args.root
    BY <2>1, <2>3 DEF Emit
  <2> QED BY <2>2, <2>3
<1>2. Install \in Seq(Steps)
  BY DEF Install, Steps
<1>3. /\ <<"compose.yml", "prepare">> \in Seq(Steps)
      /\ <<"envvars", "toml", "prepare", "pull">> \in Seq(Steps)
      /\ <<"kept", "prepare", "pull">> \in Seq(Steps)
      /\ <<"down">> \in Seq(Steps) /\ <<"start">> \in Seq(Steps) /\ <<"up">> \in Seq(Steps)
      /\ <<"restart">> \in Seq(Steps) /\ <<"wipe">> \in Seq(Steps)
      /\ <<"rmdir">> \in Seq(Steps) /\ <<>> \in Seq(Steps)
      /\ <<"stop", "remove_web", "remove_tftp", "unpin", "reload">> \in Seq(Steps)
  BY DEF Steps
<1>4. /\ <<"down">> \o Install \o <<"start">> \in Seq(Steps)
      /\ Install \o <<"restart">> \in Seq(Steps)
  BY <1>2, <1>3
<1> HIDE DEF emit
<1>5. CASE args.name = "init"
  BY <1>3, <1>5 DEF Plan
<1>6. CASE args.name = "deploy"
  <2>1. Plan(args) = emit \o <<"envvars", "toml", "prepare", "pull">>
           \o (IF args.root THEN <<"down">> \o Install \o <<"start">> ELSE <<"up">>)
    BY <1>6 DEF Plan, emit
  <2>2. CASE args.root
    BY <1>1, <1>3, <1>4, <2>1, <2>2
  <2>3. CASE ~args.root
    BY <1>1, <1>3, <2>1, <2>3
  <2> QED BY <2>2, <2>3
<1>7. CASE args.name = "upgrade"
  <2>1. Plan(args) = emit \o <<"kept", "prepare", "pull">>
           \o (IF Managed THEN Install \o <<"restart">> ELSE <<"up">>)
    BY <1>7 DEF Plan, emit
  <2>2. CASE Managed
    BY <1>1, <1>3, <1>4, <2>1, <2>2
  <2>3. CASE ~Managed
    BY <1>1, <1>3, <2>1, <2>3
  <2> QED BY <2>2, <2>3
<1>8. CASE args.name = "purge"
  <2> DEFINE off == IF Managed THEN <<"stop", "remove_web", "remove_tftp", "unpin", "reload">>
                    ELSE <<"down">>
             data == IF args.data THEN <<"wipe">> ELSE <<>>
             all == IF args.all THEN <<"rmdir">> ELSE <<>>
  <2>1. off \in Seq(Steps) /\ data \in Seq(Steps) /\ all \in Seq(Steps)
    BY <1>3
  <2>2. Plan(args) = off \o data \o all
    BY <1>8 DEF Plan
  <2> HIDE DEF off, data, all
  <2> QED BY <2>1, <2>2
<1> QED BY <1>5, <1>6, <1>7, <1>8 DEF Args

\* A command that goes on, ends or is cut off stays a command.
LEMMA CommandTyped ==
  ASSUME DeployTypeOK, Abort \/ (~Idle /\ Advance)
  PROVE  /\ cmd' \in [args : Args, todo : Seq(Steps), end : {"none", "done", "failed"}]
         /\ cmd'.args = cmd.args
         /\ Abort => cmd'.todo = <<>>
         /\ cmd'.todo = <<>> \/ cmd'.todo = Tail(cmd.todo)
<1>1. /\ cmd.args \in Args /\ cmd.todo \in Seq(Steps)
      /\ cmd = [args |-> cmd.args, todo |-> cmd.todo, end |-> cmd.end]
  BY DEF DeployTypeOK
<1>2. CASE Abort
  <2>1. cmd' = [args |-> cmd.args, todo |-> <<>>, end |-> "failed"]
    BY <1>1, <1>2 DEF Abort, Does
  <2> QED BY <1>1, <2>1
<1>3. CASE ~Idle /\ Advance
  <2>1. PICK end \in {"none", "done"} :
          cmd' = [args |-> cmd.args, todo |-> Tail(cmd.todo), end |-> end]
    BY <1>1, <1>3 DEF Advance, Does
  <2>2. Tail(cmd.todo) \in Seq(Steps)
    BY <1>1, <1>3 DEF Idle
  <2>3. Abort => Tail(cmd.todo) = <<>>
    BY <1>1, <2>1 DEF Abort, Does
  <2> QED BY <1>1, <2>1, <2>2, <2>3
<1> QED BY <1>2, <1>3

\* The parts of the type invariant that go together.
Running ==
  /\ web \in Servers /\ owner \in Owners /\ (owner = "none" <=> web.pc = "down")
  /\ spared \in BOOLEAN
Stored ==
  /\ db \in [Dirs -> Databases] /\ archive \in [Dirs -> [Names -> Databases]]
  /\ acked \subseteq Saves
Places ==
  /\ dest \in [compose : Versions \cup {0}, quadlets : UnitSpecs,
               envvars : BOOLEAN, toml : BOOLEAN]
  /\ host \in [unit : UnitSpecs, loaded : UnitSpecs, pinned : BOOLEAN]
  /\ dirs \subseteq Dirs /\ home \in [root : BOOLEAN, dir : Dirs, nft : BOOLEAN]
Commanded == cmd \in [args : Args, todo : Seq(Steps), end : {"none", "done", "failed"}]

LEMMA TypeParts == DeployTypeOK <=> Running /\ Stored /\ Places /\ Commanded
BY DEF DeployTypeOK, DbTypeOK, Running, Stored, Places, Commanded, UnitSpecs

LEMMA TypePartsNext == Running' /\ Stored' /\ Places' /\ Commanded' => DeployTypeOK'
BY DEF DeployTypeOK, DbTypeOK, Running, Stored, Places, Commanded, UnitSpecs

\* Whoever starts a stack, its server has a version and a directory.
LEMMA BootTyped ==
  ASSUME NEW who \in Owners \ {"none"}, NEW spec \in Specs, Boot(who, spec)
  PROVE  Running' /\ web'.pc = "probe" /\ owner' = who /\ spared' = FALSE
<1>1. web' \in Servers /\ web'.pc = "probe"
  BY SomeServer DEF Boot, Specs
<1>2. owner' = who /\ spared' = FALSE
  BY DEF Boot
<1> QED BY <1>1, <1>2 DEF Running

LEMMA StopTyped ==
  ASSUME Stop
  PROVE  Running' /\ owner' = "none" /\ web'.pc = "down" /\ spared' = FALSE
BY SomeServer DEF Stop, Running, Owners

LEMMA ComposedTyped == ASSUME DeployTypeOK, dest.compose # 0 PROVE Composed \in Specs
BY DeployAssumption DEF DeployTypeOK, Composed, Specs

LEMMA BringUpTyped ==
  ASSUME DeployTypeOK, NEW who \in Owners \ {"none"}, dest.compose # 0, BringUp(who)
  PROVE  Running' /\ owner' = who
<1>1. CASE UNCHANGED stackvars /\ owner = who
  BY <1>1 DEF DeployTypeOK, DbTypeOK, Running, stackvars
<1>2. CASE Boot(who, Composed)
  BY <1>2, ComposedTyped, BootTyped
<1> QED BY <1>1, <1>2 DEF BringUp

LEMMA MeTyped == Me \in {"root", "user"} /\ Me \in Owners \ {"none"}
BY DEF Me, Owners

\* The steps that write to the deploy directory.
LEMMA WriteTyped ==
  ASSUME DeployTypeOK,
         \/ WriteCompose \/ WriteQuadlets \/ WriteEnvvars \/ WriteToml
  PROVE  DeployTypeOK'
<1>1. ~Idle /\ (Abort \/ Advance) /\ UNCHANGED <<dbvars, host, owner, spared, dirs, home>>
  BY DEF WriteCompose, WriteQuadlets, WriteEnvvars, WriteToml, Write, At
<1>2. cmd.args.version \in Versions /\ Given \in Specs
  BY DEF DeployTypeOK, Args, Given, Specs
<1>3. \/ UNCHANGED dest
      \/ dest' = [dest EXCEPT !.compose = cmd.args.version]
      \/ dest' = [dest EXCEPT !.quadlets = [u \in Units |-> Given]]
      \/ dest' = [dest EXCEPT !.envvars = TRUE]
      \/ dest' = [dest EXCEPT !.toml = TRUE]
  BY DEF WriteCompose, WriteQuadlets, WriteEnvvars, WriteToml, Write
<1>4. dest' \in [compose : Versions \cup {0}, quadlets : UnitSpecs,
                envvars : BOOLEAN, toml : BOOLEAN]
  <2>1. dest.quadlets \in UnitSpecs /\ [u \in Units |-> Given] \in UnitSpecs
    BY <1>2 DEF DeployTypeOK, UnitSpecs
  <2>2. dest \in [compose : Versions \cup {0}, quadlets : UnitSpecs,
                 envvars : BOOLEAN, toml : BOOLEAN]
    BY DEF DeployTypeOK, UnitSpecs
  <2>3. CASE dest' = [dest EXCEPT !.compose = cmd.args.version]
    BY <1>2, <2>2, <2>3
  <2>4. CASE dest' = [dest EXCEPT !.quadlets = [u \in Units |-> Given]]
    BY <2>1, <2>2, <2>4
  <2>5. CASE dest' = [dest EXCEPT !.envvars = TRUE] \/ dest' = [dest EXCEPT !.toml = TRUE]
    BY <2>2, <2>5
  <2> QED BY <1>3, <2>2, <2>3, <2>4, <2>5
<1> QED BY <1>1, <1>4, CommandTyped, TypeParts, TypePartsNext DEF Running, Stored, Places, Commanded, dbvars

\* The steps that touch the units and the data directories.
LEMMA PlaceTyped ==
  ASSUME DeployTypeOK,
         \/ KeepToml \/ PrepareDirs \/ Pull \/ Pin \/ DaemonReload
         \/ \E unit \in Units : InstallUnit(unit) \/ RemoveUnit(unit)
  PROVE  DeployTypeOK'
<1>1. ~Idle /\ (Abort \/ Advance) /\ UNCHANGED <<dbvars, dest, owner, spared, home>>
  BY DEF KeepToml, PrepareDirs, Pull, Pin, DaemonReload, InstallUnit, RemoveUnit, At, hostvars
<1>2. /\ host.unit \in UnitSpecs /\ dest.quadlets \in UnitSpecs /\ cmd.args.dir \in Dirs
      /\ None \in Specs \cup {None}
  BY DEF DeployTypeOK, Args, UnitSpecs
<1>3. \/ UNCHANGED host \/ host' = [host EXCEPT !.loaded = host.unit]
      \/ \E b \in BOOLEAN : host' = [host EXCEPT !.pinned = b]
      \/ \E u \in Units, spec \in Specs \cup {None} : host' = [host EXCEPT !.unit[u] = spec]
  <2>1. ASSUME NEW u \in Units, InstallUnit(u)
        PROVE  UNCHANGED host \/ host' = [host EXCEPT !.unit[u] = dest.quadlets[u]]
    BY <2>1 DEF InstallUnit
  <2>2. \A u \in Units : dest.quadlets[u] \in Specs \cup {None}
    BY <1>2 DEF UnitSpecs
  <2>3. ASSUME NEW u \in Units, RemoveUnit(u) PROVE host' = [host EXCEPT !.unit[u] = None]
    BY <2>3 DEF RemoveUnit
  <2>4. CASE KeepToml \/ PrepareDirs \/ Pull \/ DaemonReload
    BY <2>4 DEF KeepToml, PrepareDirs, Pull, DaemonReload, hostvars
  <2>5. CASE Pin
    <3>1. At("pin") \in BOOLEAN
      BY DEF At, Idle
    <3> QED BY <2>5, <3>1 DEF Pin
  <2>6. None \in Specs \cup {None}
    OBVIOUS
  <2>7. CASE \E unit \in Units : InstallUnit(unit) \/ RemoveUnit(unit)
    <3>1. PICK u \in Units : InstallUnit(u) \/ RemoveUnit(u)
      BY <2>7
    <3>2. CASE InstallUnit(u)
      BY <2>1, <2>2, <3>2
    <3>3. CASE RemoveUnit(u)
      BY <2>3, <2>6, <3>3
    <3> QED BY <3>1, <3>2, <3>3
  <2> QED BY <2>4, <2>5, <2>7
<1>4. host' \in [unit : UnitSpecs, loaded : UnitSpecs, pinned : BOOLEAN]
  BY <1>2, <1>3 DEF DeployTypeOK, UnitSpecs
<1>5. dirs' \subseteq Dirs
  BY <1>2 DEF DeployTypeOK, KeepToml, PrepareDirs, Pull, Pin, DaemonReload, InstallUnit,
              RemoveUnit, hostvars
<1> QED BY <1>1, <1>4, <1>5, CommandTyped, TypeParts, TypePartsNext DEF Running, Stored, Places, Commanded, dbvars

\* The steps that stop or start a stack.
LEMMA StackTyped ==
  ASSUME DeployTypeOK, ComposeDown \/ StopServices \/ ComposeUp \/ StartServices
  PROVE  DeployTypeOK'
<1>1. ~Idle /\ (Abort \/ Advance) /\ UNCHANGED <<db, archive, acked, dest, host, dirs, home>>
  BY DEF ComposeDown, StopServices, TakeDown, ComposeUp, StartServices, At
<1>2. UNCHANGED stackvars => Running'
  BY DEF Running, DeployTypeOK, DbTypeOK, stackvars
<1>3. ASSUME ComposeDown \/ StopServices PROVE Running'
  <2>1. Stop \/ UNCHANGED stackvars
    BY <1>3 DEF ComposeDown, StopServices, TakeDown
  <2> QED BY <1>2, <2>1, StopTyped
<1>4. ASSUME ComposeUp PROVE Running'
  <2>1. UNCHANGED stackvars \/ (dest.compose # 0 /\ BringUp(Me))
    BY <1>4 DEF ComposeUp, CanCompose
  <2> QED BY <1>2, <2>1, BringUpTyped, MeTyped
<1>5. ASSUME StartServices PROVE Running'
  <2>1. host.loaded["web"] # None => host.loaded["web"] \in Specs
    BY DEF DeployTypeOK, Units
  <2>2. "systemd" \in Owners \ {"none"} /\ "web" \in Units
    BY DEF Owners, Units
  <2>3. \/ UNCHANGED stackvars
        \/ host.loaded["web"] # None /\ Boot("systemd", host.loaded["web"])
    BY <1>5, <2>2 DEF StartServices
  <2> QED BY <1>2, <2>1, <2>2, <2>3, BootTyped
<1>6. Running'
  BY <1>3, <1>4, <1>5
<1> QED BY <1>1, <1>6, CommandTyped, TypeParts, TypePartsNext DEF Stored, Places, Commanded

\* Deleting leaves databases, and no more archives than there were.
LEMMA ForgetTyped ==
  ASSUME Stored, dirs \subseteq Dirs, NEW gone, Forget(gone)
  PROVE  Stored' /\ dirs' \subseteq Dirs
BY NoFileTyped DEF Stored, Forget

\* A server whose directory is deleted is lost, and not down.
LEMMA ForgottenRuns ==
  ASSUME Running, NEW gone, Forget(gone), UNCHANGED <<owner, spared>>
  PROVE  Running'
<1>1. web' = web \/ (web.pc # "down" /\ web' = [web EXCEPT !.pc = "lost"])
  BY DEF Forget
<1> QED BY <1>1 DEF Running, Servers

LEMMA DeleteTyped ==
  ASSUME DeployTypeOK, WipeData \/ RemoveDest
  PROVE  DeployTypeOK'
<1>1. ~Idle /\ Advance /\ UNCHANGED <<host, owner, spared, home>>
  BY DEF WipeData, RemoveDest, At
<1>2. Stored' /\ dirs' \subseteq Dirs /\ Running'
  <2>1. \E gone : Forget(gone)
    BY DEF WipeData, RemoveDest
  <2> QED BY <1>1, <2>1, ForgetTyped, ForgottenRuns, TypeParts DEF Places
<1>3. dest' \in [compose : Versions \cup {0}, quadlets : UnitSpecs,
                envvars : BOOLEAN, toml : BOOLEAN]
  <2>1. CASE WipeData
    BY <2>1 DEF WipeData, DeployTypeOK, UnitSpecs
  <2>2. CASE RemoveDest
    <3>1. NoUnits \in UnitSpecs
      BY DEF NoUnits, UnitSpecs
    <3> QED BY <2>2, <3>1 DEF RemoveDest, NoDest
  <2> QED BY <2>1, <2>2
<1> QED BY <1>1, <1>2, <1>3, CommandTyped, TypeParts, TypePartsNext DEF Places, Commanded

(***************************************************************************)
(* The server and its archives.                                            *)
(***************************************************************************)
\* Any natural numbers have a least one among them.
LEMMA LeastOne ==
  ASSUME NEW S \in SUBSET Nat, S # {}
  PROVE  \E n \in S : \A m \in S : n <= m
<1>1. PICK n \in S : \A m \in S : <<m, n>> \notin OpToRel(<, Nat)
  BY NatLessThanWellFounded, WFMin
<1>2. \A m \in S : ~(m < n)
  BY <1>1 DEF OpToRel
<1> QED BY <1>2

\* As long as one is free, a rotation finds a name that no archive has.
LEMMA TargetIsFree ==
  ASSUME DeployTypeOK, ~Taken(MaxArchives)
  PROVE  Target \in Names /\ archive[web.dir][Target] = NoFile
<1> DEFINE free == {n \in 0..MaxArchives : ~Taken(n)}
           first(n) == ~Taken(n) /\ \A m \in 0..MaxArchives : m < n => Taken(m)
           chosen == CHOOSE n \in 0..MaxArchives : first(n)
<1>1. MaxArchives \in free /\ free \in SUBSET Nat
  BY StateDbAssumption
<1>2. PICK n \in free : \A m \in free : n <= m
  BY <1>1, LeastOne
<1>3. n \in 0..MaxArchives /\ first(n)
  BY <1>2
<1> HIDE DEF first
<1>4. chosen \in 0..MaxArchives /\ first(chosen)
  BY <1>3
<1> HIDE DEF chosen
<1>5. Target = <<web.from, chosen>>
  BY DEF Target, chosen, first
<1>6. web.from \in Versions \cup {NoMarker}
  BY DEF DeployTypeOK, DbTypeOK, Servers
<1> QED BY <1>4, <1>5, <1>6 DEF Names, Taken, first

LEMMA CurrentTyped ==
  ASSUME DeployTypeOK
  PROVE  /\ Current \in Databases /\ web.dir \in Dirs /\ web.version \in Versions
         /\ Current = db[web.dir]
BY DEF DeployTypeOK, DbTypeOK, Servers, Current

LEMMA ServeTyped ==
  ASSUME DeployTypeOK, Server
  PROVE  DeployTypeOK'
<1>1. Places' /\ Commanded'
  BY TypeParts DEF Server, Places, Commanded, hostvars
<1>2. /\ web \in Servers /\ (owner = "none" <=> web.pc = "down") /\ owner \in Owners
      /\ spared \in BOOLEAN /\ spared' = spared
  BY DEF DeployTypeOK, DbTypeOK, Server, hostvars
<1>3. Stored
  BY TypeParts
<1>4. CASE Probe
  <2>1. PICK pc \in {"rotate", "create"}, from \in Versions \cup {NoMarker} :
          web' = [web EXCEPT !.pc = pc, !.from = from]
    <3>1. CASE Stale
      BY <1>4, <3>1, CurrentTyped DEF Probe, Databases
    <3>2. CASE ~Stale
      <4>1. web' = [web EXCEPT !.pc = "create", !.from = web.from]
        BY <1>2, <1>4, <3>2 DEF Probe, Servers
      <4> QED BY <1>2, <4>1 DEF Servers
    <3> QED BY <3>1, <3>2
  <2>2. web.pc = "probe" /\ UNCHANGED <<db, archive, acked, owner>>
    BY <1>4 DEF Probe, Server, hostvars
  <2>3. Running'
    BY <1>2, <2>1, <2>2 DEF Running, Servers
  <2>4. Stored'
    BY <1>3, <2>2 DEF Stored
  <2> QED BY <1>1, <2>3, <2>4, TypePartsNext
<1>5. CASE Rotate
  <2>1. /\ web.pc = "rotate" /\ web' = [web EXCEPT !.pc = "create"] /\ UNCHANGED <<acked, owner>>
        /\ archive' = [archive EXCEPT ![web.dir][Target] = Current]
        /\ db' = [db EXCEPT ![web.dir] = NoFile]
    BY <1>5 DEF Rotate, Server, hostvars
  <2>2. Running'
    BY <1>2, <2>1 DEF Running, Servers
  <2>3. Stored'
    BY <1>3, <2>1, CurrentTyped, NoFileTyped DEF Stored
  <2> QED BY <1>1, <2>2, <2>3, TypePartsNext
<1>6. CASE Create \/ Mark
  <2>1. PICK pc \in {"mark", "up"}, from \in Versions \cup {NoMarker} :
          web' = [web EXCEPT !.pc = pc, !.from = from]
    <3>1. CASE Create
      <4>1. web' = [web EXCEPT !.pc = "mark", !.from = web.from]
        BY <1>2, <3>1 DEF Create, Servers
      <4> QED BY <1>2, <4>1 DEF Servers
    <3>2. CASE Mark
      BY <3>2 DEF Mark
    <3> QED BY <1>6, <3>1, <3>2
  <2>2. web.pc \in {"create", "mark"} /\ UNCHANGED <<archive, acked, owner>>
    BY <1>6 DEF Create, Mark, Server, hostvars
  <2>3. Running'
    BY <1>2, <2>1, <2>2 DEF Running, Servers
  <2>4. db' \in [Dirs -> Databases]
    <3>1. db \in [Dirs -> Databases] /\ web.version \in Versions
      BY <1>3, CurrentTyped DEF Stored
    <3>2. CASE Create
      <4>1. PICK tables \in Versions \cup {0} :
              db' = [db EXCEPT ![web.dir] = [db[web.dir] EXCEPT !.tables = tables]]
        BY <3>1, <3>2, CurrentTyped DEF Create, Databases
      <4> QED BY <3>1, <4>1, CurrentTyped DEF Databases
    <3>3. CASE Mark
      <4>1. PICK marker \in Versions \cup {NoMarker} :
              db' = [db EXCEPT ![web.dir] = [db[web.dir] EXCEPT !.marker = marker]]
        BY <3>1, <3>3, CurrentTyped DEF Mark, Databases
      <4> QED BY <3>1, <4>1, CurrentTyped DEF Databases
    <3> QED BY <1>6, <3>2, <3>3
  <2>5. Stored'
    BY <1>3, <2>2, <2>4 DEF Stored
  <2> QED BY <1>1, <2>3, <2>5, TypePartsNext
<1>7. CASE \E s \in Saves : Save(s)
  <2>1. PICK s \in Saves : Save(s)
    BY <1>7
  <2>2. /\ UNCHANGED <<archive, web, owner>> /\ acked' = acked \cup {s}
        /\ db' = [db EXCEPT ![web.dir] = [db[web.dir] EXCEPT !.saves = @ \cup {s}]]
    BY <2>1 DEF Save, Server, hostvars
  <2>3. [db[web.dir] EXCEPT !.saves = @ \cup {s}] \in Databases
    BY CurrentTyped DEF Databases
  <2>4. Stored'
    BY <1>3, <2>2, <2>3 DEF Stored
  <2>5. Running'
    BY <1>2, <2>2 DEF Running
  <2> QED BY <1>1, <2>4, <2>5, TypePartsNext
<1> QED BY <1>4, <1>5, <1>6, <1>7 DEF Server, Serve

(***************************************************************************)
(* What else happens.                                                      *)
(***************************************************************************)
LEMMA OtherTyped ==
  ASSUME DeployTypeOK, ByHand \/ Kill \/ ProgramFails \/ PurgeGoesOn \/ Reboot \/ Crash
  PROVE  DeployTypeOK'
<1>1. Running /\ Stored /\ Places /\ Commanded
  BY TypeParts
<1>2. Stored'
  BY <1>1 DEF Stored, ByHand, Kill, ProgramFails, PurgeGoesOn, Reboot, Crash, dbvars
<1>3. Commanded'
  <2>1. UNCHANGED cmd \/ Abort \/ (~Idle /\ Advance)
    BY DEF ByHand, Kill, ProgramFails, PurgeGoesOn, Reboot, Crash, At
  <2>2. UNCHANGED cmd => Commanded'
    BY <1>1 DEF Commanded
  <2>3. Abort \/ (~Idle /\ Advance) => Commanded'
    BY CommandTyped DEF Commanded
  <2> QED BY <2>1, <2>2, <2>3
<1>4. Places'
  <2>1. UNCHANGED <<dest, dirs, home>> /\ (UNCHANGED host \/ host' = [host EXCEPT !.loaded = host.unit])
    BY DEF ByHand, Kill, ProgramFails, PurgeGoesOn, Reboot, Crash, hostvars
  <2>2. host.unit \in UnitSpecs
    BY <1>1 DEF Places
  <2> QED BY <1>1, <2>1, <2>2 DEF Places
<1>5. Running'
  <2>1. UNCHANGED stackvars => Running'
    BY <1>1 DEF Running, stackvars
  <2>2. ASSUME ByHand PROVE Running'
    <3>1. PICK who \in {"root", "user"} : dest.compose # 0 /\ BringUp(who)
      BY <2>2 DEF ByHand, CanCompose
    <3>2. who \in Owners \ {"none"}
      BY DEF Owners
    <3> QED BY <3>1, <3>2, BringUpTyped
  <2>3. ASSUME Kill PROVE Running'
    BY <2>1, <2>3 DEF Kill, hostvars, dbvars, stackvars
  <2>4. ASSUME ProgramFails PROVE Running'
    <3>1. UNCHANGED stackvars \/ Stop
      BY <2>4 DEF ProgramFails
    <3> QED BY <2>1, <3>1, StopTyped
  <2>5. ASSUME Reboot PROVE Running'
    <3>1. \/ host.unit["web"] # None /\ Boot("systemd", host.unit["web"])
          \/ Stop
      BY <2>5 DEF Reboot, Startable
    <3>2. "systemd" \in Owners \ {"none"} /\ host.unit["web"] \in Specs \cup {None}
      BY <1>1 DEF Owners, Places, UnitSpecs, Units
    <3> QED BY <3>1, <3>2, BootTyped, StopTyped
  <2>6. ASSUME Crash PROVE Running'
    <3>1. PICK spec : /\ spec = IF owner = "systemd" THEN host.loaded["web"]
                               ELSE [version |-> web.version, dir |-> web.dir]
                      /\ \/ /\ spec # None /\ web' = Booted(spec.version, spec.dir)
                            /\ UNCHANGED <<owner, spared>>
                         \/ Stop
      BY <2>6 DEF Crash, Startable
    <3>2. spec # None => spec.version \in Versions /\ spec.dir \in Dirs
      <4>1. CASE owner = "systemd"
        <5>1. host.loaded["web"] \in Specs \cup {None}
          BY <1>1 DEF Places, UnitSpecs, Units
        <5> QED BY <3>1, <4>1, <5>1, RealSpec
      <4>2. CASE owner # "systemd"
        BY <3>1, <4>2, CurrentTyped
      <4> QED BY <4>1, <4>2
    <3>3. web.pc # "down"
      BY <2>6 DEF Crash
    <3>4. CASE Stop
      BY <3>4, StopTyped
    <3>5. CASE spec # None /\ web' = Booted(spec.version, spec.dir) /\ UNCHANGED <<owner, spared>>
      <4>1. web' \in Servers /\ web'.pc = "probe"
        BY <3>2, <3>5, SomeServer
      <4> QED BY <1>1, <3>3, <3>5, <4>1 DEF Running
    <3> QED BY <3>1, <3>4, <3>5
  <2>7. ASSUME PurgeGoesOn PROVE Running'
    <3>1. UNCHANGED <<owner, web>> /\ spared' \in BOOLEAN
      BY <1>1, <2>7 DEF PurgeGoesOn, dbvars, Running, At, Idle
    <3> QED BY <1>1, <3>1 DEF Running
  <2> QED BY <2>2, <2>3, <2>4, <2>5, <2>6, <2>7
<1> QED BY <1>2, <1>3, <1>4, <1>5, TypePartsNext

LEMMA CommandStepTyped ==
  ASSUME DeployTypeOK,
         Check \/ (\E args \in Args : Command(args)) \/ UNCHANGED vars
  PROVE  DeployTypeOK'
<1>1. UNCHANGED <<dbvars, hostvars, home>>
  BY DEF Check, Command, vars
<1>2. Commanded'
  <2>1. cmd = [args |-> cmd.args, todo |-> cmd.todo, end |-> cmd.end] /\ cmd.args \in Args
    BY DEF DeployTypeOK
  <2>2. ASSUME Check PROVE Commanded'
    <3>1. CASE Abort
      BY <3>1, CommandTyped DEF Commanded
    <3>2. CASE Does(Plan(cmd.args), "none")
      <4>1. cmd' = [args |-> cmd.args, todo |-> Plan(cmd.args), end |-> "none"]
        BY <2>1, <3>2 DEF Does
      <4> QED BY <2>1, <4>1, PlanTyped DEF Commanded
    <3> QED BY <2>2, <3>1, <3>2 DEF Check
  <2>3. ASSUME NEW args \in Args, Command(args) PROVE Commanded'
    <3>1. <<"check">> \in Seq(Steps)
      BY DEF Steps
    <3> QED BY <2>3, <3>1 DEF Command, Commanded
  <2>4. ASSUME UNCHANGED vars PROVE Commanded'
    BY <2>4 DEF vars, Commanded, DeployTypeOK
  <2> QED BY <2>2, <2>3, <2>4
<1> QED BY <1>1, <1>2, TypeParts, TypePartsNext DEF Running, Stored, Places, hostvars, dbvars

LEMMA InitTyped == DeployInit => DeployTypeOK
<1> SUFFICES ASSUME DeployInit PROVE DeployTypeOK
  OBVIOUS
<1>1. Stored
  <2>1. PICK saves \in {{}, Brought}, tables \in Versions, marker \in Versions \cup {NoMarker} :
          /\ db = [d \in Dirs |-> IF d = home.dir /\ saves # {}
                    THEN [tables |-> tables, marker |-> marker, saves |-> saves] ELSE NoFile]
          /\ acked = saves
    BY DEF DeployInit, DbInit
  <2>2. saves \subseteq Saves
    BY StateDbAssumption
  <2>3. [tables |-> tables, marker |-> marker, saves |-> saves] \in Databases
    BY <2>2 DEF Databases
  <2>4. archive \in [Dirs -> [Names -> Databases]]
    BY NoFileTyped DEF DeployInit, DbInit
  <2> QED BY <2>1, <2>2, <2>3, <2>4, NoFileTyped DEF Stored
<1>2. Running
  BY SomeServer DEF DeployInit, DbInit, Running, Owners
<1>3. Places
  <2>1. NoUnits \in UnitSpecs
    BY DEF NoUnits, UnitSpecs
  <2> QED BY <2>1 DEF DeployInit, NoDest, Places
<1>4. Commanded
  <2> DEFINE first == [name |-> "init", root |-> FALSE, force |-> FALSE,
                       version |-> CHOOSE v \in Versions : TRUE, dir |-> Default,
                       data |-> FALSE, all |-> FALSE]
  <2>1. (CHOOSE v \in Versions : TRUE) \in Versions
    BY StateDbAssumption
  <2>2. first \in Args /\ Sensible(first)
    BY <2>1, DeployAssumption DEF Args, Sensible
  <2>3. NoCommand \in Args
    BY <2>2 DEF NoCommand
  <2>4. <<>> \in Seq(Steps)
    OBVIOUS
  <2> QED BY <2>3, <2>4 DEF DeployInit, Commanded
<1> QED BY <1>1, <1>2, <1>3, <1>4, TypeParts

LEMMA StepTyped == DeployTypeOK /\ [DeployNext]_vars => DeployTypeOK'
BY WriteTyped, PlaceTyped, StackTyped, DeleteTyped, ServeTyped, OtherTyped, CommandStepTyped
DEF DeployNext, Step

\* Every variable keeps its shape, and a stack that runs has somebody who runs
\* it (deploy.py, _db.py).
THEOREM DeployTypeCorrect == DeploySpec => []DeployTypeOK
BY InitTyped, StepTyped, PTL DEF DeploySpec

(***************************************************************************)
(* No save is lost.                                                        *)
(***************************************************************************)
\* Where a save is.
KeptIn(d, s) == s \in db[d].saves \/ \E n \in Names : s \in archive[d][n].saves

LEMMA WhereKept == NothingLost <=> \A s \in acked : \E d \in Dirs : KeptIn(d, s)
<1>1. ASSUME NEW d, NEW s PROVE s \in Kept(d) <=> KeptIn(d, s)
  BY DEF Kept, KeptIn
<1> QED BY <1>1 DEF NothingLost

\* A step that keeps every save where it is, or adds one to the database in
\* use, loses none.
LEMMA ServeKeeps ==
  ASSUME DeployTypeOK, Serve, NEW d \in Dirs, NEW s, KeptIn(d, s)
  PROVE  KeptIn(d, s)'
<1>1. db \in [Dirs -> Databases] /\ archive \in [Dirs -> [Names -> Databases]]
  BY DEF DeployTypeOK, DbTypeOK
<1>2. CASE Probe
  BY <1>2 DEF Probe, KeptIn
<1>3. CASE Rotate
  <2>1. /\ archive' = [archive EXCEPT ![web.dir][Target] = Current]
        /\ db' = [db EXCEPT ![web.dir] = NoFile]
        /\ Target \in Names /\ archive[web.dir][Target] = NoFile
    BY <1>3, TargetIsFree DEF Rotate
  <2> HIDE DEF Target
  <2>2. CASE d # web.dir
    BY <1>1, <2>1, <2>2 DEF KeptIn
  <2>3. CASE d = web.dir
    <3>1. /\ archive'[d][Target] = db[d]
          /\ \A n \in Names \ {Target} : archive'[d][n] = archive[d][n]
      BY <1>1, <2>1, <2>3, CurrentTyped
    <3>2. CASE s \in db[d].saves
      BY <2>1, <3>1, <3>2 DEF KeptIn
    <3>3. CASE \E n \in Names : s \in archive[d][n].saves
      BY <2>1, <2>3, <3>1, <3>3, NoFileTyped DEF KeptIn
    <3> QED BY <3>2, <3>3 DEF KeptIn
  <2> QED BY <2>2, <2>3
<1>4. CASE Create \/ Mark \/ \E t \in Saves : Save(t)
  <2>1. UNCHANGED archive /\ db[d].saves \subseteq db'[d].saves
    <3>1. ASSUME Create PROVE UNCHANGED archive /\ db[d].saves \subseteq db'[d].saves
      BY <1>1, <3>1 DEF Create, Databases
    <3>2. ASSUME Mark PROVE UNCHANGED archive /\ db[d].saves \subseteq db'[d].saves
      BY <1>1, <3>2 DEF Mark, Databases
    <3>3. ASSUME NEW t \in Saves, Save(t)
          PROVE  UNCHANGED archive /\ db[d].saves \subseteq db'[d].saves
      BY <1>1, <3>3 DEF Save, Databases
    <3> QED BY <1>4, <3>1, <3>2, <3>3
  <2> QED BY <2>1 DEF KeptIn
<1> QED BY <1>2, <1>3, <1>4 DEF Serve

\* What a deletion deletes is not owed any more.
LEMMA ForgetKeeps ==
  ASSUME NothingLost, NEW gone, Forget(gone), NEW s \in acked'
  PROVE  \E d \in Dirs : KeptIn(d, s)'
<1>1. s \in acked /\ \A d \in gone : s \notin Kept(d)
  BY DEF Forget
<1>2. PICK d \in Dirs : KeptIn(d, s)
  BY <1>1, WhereKept
<1>3. d \notin gone
  BY <1>1, <1>2 DEF Kept, KeptIn
<1>4. db'[d] = db[d] /\ archive'[d] = archive[d]
  BY <1>3 DEF Forget
<1> QED BY <1>2, <1>4 DEF KeptIn

LEMMA StepLosesNothing ==
  ASSUME DeployTypeOK, NothingLost, [DeployNext]_vars, NEW s \in acked'
  PROVE  \E d \in Dirs : KeptIn(d, s)'
<1>1. CASE WipeData \/ RemoveDest
  BY <1>1, ForgetKeeps DEF WipeData, RemoveDest
<1>2. CASE Server
  <2>1. s \in acked \/ \E t \in Saves : Save(t) /\ s = t
    BY <1>2 DEF Server, Serve, Probe, Rotate, Create, Mark, Save
  <2>2. CASE s \in acked
    BY <1>2, <2>2, ServeKeeps, WhereKept DEF Server
  <2>3. CASE \E t \in Saves : Save(t) /\ s = t
    <3>1. db'[web.dir].saves = db[web.dir].saves \cup {s}
      BY <2>3, CurrentTyped DEF Save, DeployTypeOK, DbTypeOK, Databases
    <3> QED BY <3>1, CurrentTyped DEF KeptIn
  <2> QED BY <2>1, <2>2, <2>3
<1>3. ASSUME UNCHANGED <<db, archive, acked>> PROVE \E d \in Dirs : KeptIn(d, s)'
  BY <1>3, WhereKept DEF KeptIn
<1>4. CASE \/ WriteCompose \/ WriteQuadlets \/ WriteEnvvars \/ WriteToml \/ KeepToml
           \/ PrepareDirs \/ Pull \/ Pin \/ DaemonReload
           \/ \E unit \in Units : InstallUnit(unit) \/ RemoveUnit(unit)
  BY <1>3, <1>4 DEF WriteCompose, WriteQuadlets, WriteEnvvars, WriteToml, Write, KeepToml,
                    PrepareDirs, Pull, Pin, DaemonReload, InstallUnit, RemoveUnit, dbvars
<1>5. CASE ComposeDown \/ StopServices \/ ComposeUp \/ StartServices
  BY <1>3, <1>5 DEF ComposeDown, StopServices, TakeDown, ComposeUp, StartServices
<1>6. CASE ByHand \/ Kill \/ ProgramFails \/ PurgeGoesOn \/ Reboot \/ Crash
  BY <1>3, <1>6 DEF ByHand, Kill, ProgramFails, PurgeGoesOn, Reboot, Crash, dbvars
<1>7. CASE Check \/ (\E args \in Args : Command(args)) \/ UNCHANGED vars
  BY <1>3, <1>7 DEF Check, Command, vars, dbvars
<1> QED BY <1>1, <1>2, <1>4, <1>5, <1>6, <1>7 DEF DeployNext, Step

\* However versions change, servers die and commands are cut off: what was
\* answered, and nobody has deleted, is in a database or an archive
\* (_rotate_to_bak: "The old DB is preserved on disk").
THEOREM NothingLostHolds == DeploySpec => []NothingLost
<1>1. DeployInit => NothingLost
  <2> SUFFICES ASSUME DeployInit, NEW s \in acked PROVE \E d \in Dirs : KeptIn(d, s)
    BY WhereKept
  <2>1. home.dir \in Dirs /\ db[home.dir].saves = acked
    BY NoFileTyped DEF DeployInit, DbInit
  <2> QED BY <2>1 DEF KeptIn
<1>2. NothingLost /\ DeployTypeOK /\ [DeployNext]_vars => NothingLost'
  <2> SUFFICES ASSUME NothingLost, DeployTypeOK, [DeployNext]_vars PROVE NothingLost'
    OBVIOUS
  <2>1. \A s \in acked' : \E d \in Dirs : KeptIn(d, s)'
    BY StepLosesNothing
  <2>2. NothingLost' <=> \A s \in acked' : \E d \in Dirs : KeptIn(d, s)'
    <3>1. ASSUME NEW d, NEW s PROVE s \in Kept(d)' <=> KeptIn(d, s)'
      BY DEF Kept, KeptIn
    <3> QED BY <3>1 DEF NothingLost
  <2> QED BY <2>1, <2>2
<1> QED BY <1>1, <1>2, DeployTypeCorrect, PTL DEF DeploySpec

(***************************************************************************)
(* Commands that are all given by one user: what follows what.             *)
(***************************************************************************)
OneUser == "mixed" \notin Habits

InstallSteps == {"install_tftp", "install_web", "pin", "reload", "start", "restart"}
EmitSteps == {"compose.yml", "quadlets", "envvars", "toml", "kept", "prepare", "pull"}
PurgeSteps == {"stop", "down", "remove_web", "remove_tftp", "unpin", "reload", "wipe", "rmdir"}

\* The steps that a command has.
Words(args) ==
  IF args.name = "purge" THEN {"check"} \cup PurgeSteps
  ELSE {"check"} \cup EmitSteps
       \cup (IF args.name = "deploy" /\ args.root THEN {"down"} ELSE {})
       \cup (IF (args.name = "deploy" /\ args.root) \/ args.name = "upgrade"
             THEN InstallSteps ELSE {})
       \cup (IF (args.name = "deploy" /\ ~args.root) \/ args.name = "upgrade"
             THEN {"up"} ELSE {})

\* Step y comes right after step x.
Follows(args, x, y) ==
  /\ args.name = "purge" => y \notin {"check", "stop", "down"}
  /\ args.name # "purge" =>
       /\ y # "check"
       /\ args.name # "init" /\ args.root /\ x = "compose.yml" => y = "quadlets"
       /\ args.name = "deploy" /\ y = "install_tftp" => x = "down"
       /\ y = "install_web" => x = "install_tftp"
       /\ y = "pin" => x = "install_web"
       /\ y = "reload" => x = "pin"
       /\ y \in {"start", "restart"} => x = "reload"

Orderly(args, s) ==
  \A i \in 1..Len(s) : s[i] \in Words(args) /\ (i < Len(s) => Follows(args, s[i], s[i + 1]))

\* An upgrade, which chooses its way at the start, is still on the right one.
OnTrack(args, s) ==
  \A i \in 1..Len(s) :
    /\ s[i] = "up" => ~Managed
    /\ args.name = "upgrade" /\ s[i] \in InstallSteps => Managed

Opening(args) ==
  IF args.name # "purge" THEN "compose.yml" ELSE IF Managed THEN "stop" ELSE "down"

LEMMA PlanFlows ==
  ASSUME NEW args \in Args, ~args.root => ~Managed
  PROVE  /\ Orderly(args, Plan(args)) /\ OnTrack(args, Plan(args))
         /\ Plan(args) # <<>> /\ Head(Plan(args)) = Opening(args)
<1> SUFFICES ASSUME NEW s \in Seq(Steps), s = Plan(args)
             PROVE  Orderly(args, s) /\ OnTrack(args, s) /\ s # <<>> /\ Head(s) = Opening(args)
  BY PlanTyped
<1> USE DEF Words, Follows, EmitSteps, InstallSteps, PurgeSteps
<1>1. CASE args.name = "init"
  <2>1. s = <<"compose.yml", "prepare">>
    BY <1>1 DEF Plan
  <2>2. Orderly(args, s) /\ OnTrack(args, s)
    BY <1>1, <2>1 DEF Orderly, OnTrack
  <2>3. s # <<>> /\ Head(s) = "compose.yml"
    BY <2>1
  <2> QED BY <1>1, <2>2, <2>3 DEF Opening
<1>2. CASE args.name = "deploy" /\ args.root
  <2>1. s = <<"compose.yml">> \o <<"quadlets">> \o <<"envvars", "toml", "prepare", "pull">>
            \o (<<"down">> \o <<"install_tftp", "install_web", "pin", "reload">> \o <<"start">>)
    BY <1>2 DEF Plan, Emit, Install
  <2>2. /\ Len(s) = 12
        /\ s[1] = "compose.yml" /\ s[2] = "quadlets" /\ s[3] = "envvars" /\ s[4] = "toml"
        /\ s[5] = "prepare" /\ s[6] = "pull" /\ s[7] = "down" /\ s[8] = "install_tftp"
        /\ s[9] = "install_web" /\ s[10] = "pin" /\ s[11] = "reload" /\ s[12] = "start"
    BY <2>1
  <2>3. Orderly(args, s)
    BY <1>2, <2>2 DEF Orderly
  <2>4. OnTrack(args, s)
    <3>1. \A i \in 1..12 : s[i] # "up"
      BY <2>2
    <3> QED BY <1>2, <2>2, <3>1 DEF OnTrack
  <2>5. s # <<>>
    <3>1. Len(s) # 0
      BY <2>2
    <3> QED BY <3>1
  <2>6. Head(s) = s[1] /\ Opening(args) = "compose.yml"
    BY <1>2, <2>5 DEF Opening
  <2> QED BY <2>2, <2>3, <2>4, <2>5, <2>6
<1>3. CASE args.name = "deploy" /\ ~args.root
  <2>1. s = <<"compose.yml">> \o <<>> \o <<"envvars", "toml", "prepare", "pull">> \o <<"up">>
    BY <1>3 DEF Plan, Emit
  <2>2. /\ Len(s) = 6
        /\ s[1] = "compose.yml" /\ s[2] = "envvars" /\ s[3] = "toml"
        /\ s[4] = "prepare" /\ s[5] = "pull" /\ s[6] = "up"
    BY <2>1
  <2>3. Orderly(args, s)
    BY <1>3, <2>2 DEF Orderly
  <2>4. OnTrack(args, s)
    <3>1. ~Managed
      BY <1>3
    <3> QED BY <1>3, <3>1 DEF OnTrack
  <2>5. s # <<>>
    <3>1. Len(s) # 0
      BY <2>2
    <3> QED BY <3>1
  <2>6. Head(s) = s[1] /\ Opening(args) = "compose.yml"
    BY <1>3, <2>5 DEF Opening
  <2> QED BY <2>2, <2>3, <2>4, <2>5, <2>6
<1>4. CASE args.name = "upgrade"
  <2>1. \/ /\ args.root
           /\ s = <<"compose.yml">> \o <<"quadlets">> \o <<"kept", "prepare", "pull">>
                  \o (<<"install_tftp", "install_web", "pin", "reload">> \o <<"restart">>)
           /\ Managed
        \/ args.root /\ s = <<"compose.yml">> \o <<"quadlets">> \o <<"kept", "prepare", "pull">>
                           \o <<"up">> /\ ~Managed
        \/ ~args.root /\ s = <<"compose.yml">> \o <<>> \o <<"kept", "prepare", "pull">>
                            \o <<"up">> /\ ~Managed
    BY <1>4 DEF Plan, Emit, Install
  <2>2. \/ /\ Len(s) = 10 /\ Managed
           /\ s[1] = "compose.yml" /\ s[2] = "quadlets" /\ s[3] = "kept" /\ s[4] = "prepare"
           /\ s[5] = "pull" /\ s[6] = "install_tftp" /\ s[7] = "install_web" /\ s[8] = "pin"
           /\ s[9] = "reload" /\ s[10] = "restart"
        \/ /\ Len(s) = 6 /\ ~Managed
           /\ s[1] = "compose.yml" /\ s[2] = "quadlets" /\ s[3] = "kept" /\ s[4] = "prepare"
           /\ s[5] = "pull" /\ s[6] = "up"
        \/ /\ Len(s) = 5 /\ ~Managed /\ ~args.root
           /\ s[1] = "compose.yml" /\ s[2] = "kept" /\ s[3] = "prepare"
           /\ s[4] = "pull" /\ s[5] = "up"
    BY <2>1
  <2>3. Orderly(args, s)
    <3>1. CASE Len(s) = 10
      <4>1. /\ s[1] = "compose.yml" /\ s[2] = "quadlets" /\ s[3] = "kept" /\ s[4] = "prepare"
            /\ s[5] = "pull" /\ s[6] = "install_tftp" /\ s[7] = "install_web" /\ s[8] = "pin"
            /\ s[9] = "reload" /\ s[10] = "restart"
        BY <2>2, <3>1
      <4> QED BY <1>4, <3>1, <4>1 DEF Orderly
    <3>2. CASE Len(s) = 6
      <4>1. /\ s[1] = "compose.yml" /\ s[2] = "quadlets" /\ s[3] = "kept" /\ s[4] = "prepare"
            /\ s[5] = "pull" /\ s[6] = "up"
        BY <2>2, <3>2
      <4> QED BY <1>4, <3>2, <4>1 DEF Orderly
    <3>3. CASE Len(s) = 5
      <4>1. /\ ~args.root /\ s[1] = "compose.yml" /\ s[2] = "kept" /\ s[3] = "prepare"
            /\ s[4] = "pull" /\ s[5] = "up"
        BY <2>2, <3>3
      <4> QED BY <1>4, <3>3, <4>1 DEF Orderly
    <3> QED BY <2>2, <3>1, <3>2, <3>3
  <2>4. OnTrack(args, s)
    <3>1. CASE Managed
      <4>1. Len(s) = 10
        BY <2>2, <3>1
      <4>2. \A i \in 1..10 : s[i] # "up"
        BY <2>2, <3>1
      <4> QED BY <3>1, <4>1, <4>2 DEF OnTrack
    <3>2. CASE ~Managed
      <4>1. \A i \in 1..Len(s) : s[i] \in EmitSteps \cup {"up"}
        BY <2>2, <3>2 DEF EmitSteps
      <4>2. \A x \in EmitSteps \cup {"up"} : x \notin InstallSteps
        BY DEF EmitSteps, InstallSteps
      <4> QED BY <3>2, <4>1, <4>2 DEF OnTrack
    <3> QED BY <3>1, <3>2
  <2>5. s # <<>> /\ s[1] = "compose.yml"
    BY <2>2
  <2>6. Head(s) = s[1] /\ Opening(args) = "compose.yml"
    BY <1>4, <2>5 DEF Opening
  <2> QED BY <2>3, <2>4, <2>5, <2>6
<1>5. CASE args.name = "purge"
  <2> DEFINE off == IF Managed THEN <<"stop", "remove_web", "remove_tftp", "unpin", "reload">>
                    ELSE <<"down">>
             data == IF args.data THEN <<"wipe">> ELSE <<>>
             all == IF args.all THEN <<"rmdir">> ELSE <<>>
             rest == {"remove_web", "remove_tftp", "unpin", "reload", "wipe", "rmdir"}
  <2>1. s = off \o data \o all
    <3>1. Plan(args) = off \o data \o all
      BY <1>5 DEF Plan
    <3> QED BY <3>1
  <2>2. off \in Seq(Steps) /\ data \in Seq(Steps) /\ all \in Seq(Steps)
    <3>1. /\ <<"stop", "remove_web", "remove_tftp", "unpin", "reload">> \in Seq(Steps)
          /\ <<"down">> \in Seq(Steps) /\ <<"wipe">> \in Seq(Steps)
          /\ <<"rmdir">> \in Seq(Steps) /\ <<>> \in Seq(Steps)
      BY DEF Steps
    <3> QED BY <3>1
  <2>3. /\ Len(off) >= 1 /\ off[1] = Opening(args)
        /\ \A i \in 2..Len(off) : off[i] \in rest
        /\ \A i \in 1..Len(data) : data[i] \in rest
        /\ \A i \in 1..Len(all) : all[i] \in rest
    BY <1>5 DEF Opening
  <2>4. Opening(args) \in {"stop", "down"}
    BY <1>5 DEF Opening
  <2> HIDE DEF off, data, all, rest
  <2>5. Len(s) >= 1 /\ s[1] = Opening(args) /\ \A i \in 2..Len(s) : s[i] \in rest
    BY <2>1, <2>2, <2>3
  <2>6. Orderly(args, s)
    BY <1>5, <2>4, <2>5 DEF Orderly, rest
  <2>7. OnTrack(args, s)
    BY <1>5, <2>4, <2>5 DEF OnTrack, rest
  <2>8. s # <<>>
    BY <2>5
  <2>9. Head(s) = s[1]
    BY <2>8
  <2> QED BY <2>5, <2>6, <2>7, <2>8, <2>9
<1> QED BY <1>1, <1>2, <1>3, <1>4, <1>5 DEF Args

\* Who the operator is, and what the stack and the units have to do with it.
Mine == IF home.root THEN "root" ELSE "user"

\* A stack that a purge has failed to stop is an exception to the first part only.
Owned ==
  /\ PurgeFindsIt
  /\ owner \in {"root", "user"} => ~Managed /\ owner = Mine
  /\ ~home.root => ~Managed

\* What holds when step x is the next one of a command.
Ready(args, x) ==
  /\ args.name = "purge" =>
       /\ x \notin {"check", "stop", "down"} => owner = "none" \/ spared
       /\ x = "stop" => Managed
       /\ x = "down" => ~Managed
  /\ args.name \in {"deploy", "upgrade"} =>
       /\ args.root /\ x \notin {"check", "compose.yml", "quadlets"} =>
            \A u \in Units : dest.quadlets[u] # None
       /\ x \in InstallSteps => owner \in {"none", "systemd"}
       /\ x \in InstallSteps \ {"install_tftp"} => Managed

Flowing ==
  ~Idle =>
    /\ cmd.args.root = home.root
    /\ Orderly(cmd.args, cmd.todo) /\ OnTrack(cmd.args, cmd.todo)
    /\ Ready(cmd.args, Head(cmd.todo))

HostInv == Owned /\ Flowing

LEMMA HostInvIsWanted == HostInv => PurgeFindsIt
BY DEF HostInv, Owned

\* A command that ends, or is cut off, owes nothing more.
LEMMA Ends == ASSUME cmd'.todo = <<>> PROVE Flowing'
BY DEF Flowing, Idle

\* The step that a command is at.
LEMMA Here ==
  ASSUME DeployTypeOK, Flowing, ~Idle
  PROVE  /\ cmd.args \in Args /\ cmd.args.root = home.root
         /\ Head(cmd.todo) \in Words(cmd.args) /\ Ready(cmd.args, Head(cmd.todo))
         /\ Head(cmd.todo) = "up" => ~Managed
         /\ cmd.args.name = "upgrade" /\ Head(cmd.todo) \in InstallSteps => Managed
<1>1. cmd.args \in Args /\ cmd.todo \in Seq(Steps) /\ cmd.todo # <<>>
  BY DEF DeployTypeOK, Idle
<1>2. Head(cmd.todo) = cmd.todo[1] /\ 1 \in 1..Len(cmd.todo)
  BY <1>1
<1>3. Orderly(cmd.args, cmd.todo) /\ OnTrack(cmd.args, cmd.todo)
  BY DEF Flowing
<1>4. Head(cmd.todo) \in Words(cmd.args)
  BY <1>2, <1>3 DEF Orderly
<1>5. /\ Head(cmd.todo) = "up" => ~Managed
      /\ cmd.args.name = "upgrade" /\ Head(cmd.todo) \in InstallSteps => Managed
  BY <1>2, <1>3 DEF OnTrack
<1> QED BY <1>1, <1>4, <1>5 DEF Flowing

\* A command that goes on: what is left is in order, and its next step is the
\* one after this one.
LEMMA GoesOn ==
  ASSUME DeployTypeOK, Flowing, ~Idle, NEW args, NEW s, cmd.args = args, cmd.todo = s,
         cmd'.args = args, cmd'.todo = Tail(s), home' = home,
         args.name \notin {"purge", "deploy"} \/ (args.name = "deploy" /\ ~args.root) =>
           (Managed' <=> Managed),
         \A y : /\ Follows(args, Head(s), y) /\ y \in Words(args)
                /\ (args.name = "upgrade" /\ y \in InstallSteps => Managed)
                => Ready(args, y)'
  PROVE  Flowing'
<1>1. s \in Seq(Steps) /\ s # <<>> /\ Head(s) = s[1]
  BY DEF DeployTypeOK, Idle
<1>2. /\ Tail(s) \in Seq(Steps) /\ Len(Tail(s)) = Len(s) - 1
      /\ \A i \in 1..Len(Tail(s)) : Tail(s)[i] = s[i + 1]
  BY <1>1
<1>3. Orderly(args, s) /\ OnTrack(args, s) /\ args.root = home.root
  BY DEF Flowing
<1>4. Len(s) \in Nat /\ Len(s) >= 1
  BY <1>1
<1>5. Orderly(args, Tail(s))
  <2> SUFFICES ASSUME NEW i \in 1..Len(Tail(s))
               PROVE  /\ Tail(s)[i] \in Words(args)
                      /\ i < Len(Tail(s)) => Follows(args, Tail(s)[i], Tail(s)[i + 1])
    BY DEF Orderly
  <2>1. i + 1 \in 1..Len(s) /\ Tail(s)[i] = s[i + 1] /\ (i < Len(Tail(s)) => i + 1 < Len(s))
    BY <1>2, <1>4
  <2>2. i < Len(Tail(s)) => Tail(s)[i + 1] = s[(i + 1) + 1]
    BY <1>2, <1>4
  <2> QED BY <1>3, <2>1, <2>2 DEF Orderly
<1>6. OnTrack(args, Tail(s))'
  <2> SUFFICES ASSUME NEW i \in 1..Len(Tail(s))
               PROVE  /\ Tail(s)[i] = "up" => ~Managed'
                      /\ args.name = "upgrade" /\ Tail(s)[i] \in InstallSteps => Managed'
    BY DEF OnTrack, InstallSteps
  <2>1. i + 1 \in 1..Len(s) /\ Tail(s)[i] = s[i + 1]
    BY <1>2, <1>4
  <2>2. /\ Tail(s)[i] = "up" => ~Managed
        /\ args.name = "upgrade" /\ Tail(s)[i] \in InstallSteps => Managed
        /\ Tail(s)[i] \in Words(args)
    BY <1>3, <2>1 DEF OnTrack, Orderly
  <2>3. CASE args.name = "purge" \/ (args.name = "deploy" /\ args.root)
    <3>1. Tail(s)[i] # "up"
      BY <2>2, <2>3 DEF Words, PurgeSteps, EmitSteps, InstallSteps
    <3> QED BY <2>3, <3>1
  <2>4. CASE ~(args.name = "purge" \/ (args.name = "deploy" /\ args.root))
    <3>1. Managed' <=> Managed
      BY <2>4
    <3> QED BY <2>2, <3>1
  <2> QED BY <2>3, <2>4
<1>7. CASE Tail(s) = <<>>
  BY <1>7, Ends
<1>8. CASE Tail(s) # <<>>
  <2>1. Head(Tail(s)) = s[2] /\ 1 < Len(s) /\ 1 \in 1..Len(s) /\ 2 \in 1..Len(s)
    BY <1>2, <1>4, <1>8
  <2>2. PICK y : y = s[2]
    OBVIOUS
  <2>3. /\ Follows(args, Head(s), y) /\ y \in Words(args)
        /\ (args.name = "upgrade" /\ y \in InstallSteps => Managed)
    BY <1>1, <1>3, <2>1, <2>2 DEF Orderly, OnTrack
  <2>4. Ready(args, y)'
    BY <2>3
  <2>5. Orderly(cmd'.args, cmd'.todo) /\ cmd'.args.root = home'.root
    BY <1>3, <1>5
  <2>6. OnTrack(cmd.args, cmd.todo)'
    BY <1>6
  <2>7. Head(cmd'.todo) = y
    BY <2>1, <2>2
  <2>8. Ready(cmd.args, Head(cmd.todo))'
    BY <2>4, <2>7
  <2>9. Orderly(cmd.args, cmd.todo)'
    BY <2>5 DEF Orderly, Words, Follows, EmitSteps, InstallSteps, PurgeSteps
  <2> QED BY <2>5, <2>6, <2>8, <2>9 DEF Flowing
<1> QED BY <1>7, <1>8

\* What a step owes to the one after it.
LEMMA Onward ==
  ASSUME DeployTypeOK, HostInv, ~Idle, Advance, home' = home, DeployTypeOK', Owned',
         NEW args, NEW x, cmd.args = args, Head(cmd.todo) = x,
         args.name \notin {"purge", "deploy"} \/ (args.name = "deploy" /\ ~args.root) =>
           (Managed' <=> Managed),
         args.name = "purge" => owner' = "none" \/ spared',
         args.name \in {"deploy", "upgrade"} /\ args.root /\ x # "compose.yml" =>
           \A u \in Units : dest'.quadlets[u] # None,
         args.name # "purge" /\ x = "down" => owner' \in {"none", "systemd"},
         args.name # "purge" /\ x \in InstallSteps => owner' \in {"none", "systemd"} /\ Managed'
  PROVE  HostInv'
<1>1. Flowing
  BY DEF HostInv
<1>2. PICK s : s = cmd.todo
  OBVIOUS
<1>3. cmd \in [args : Args, todo : Seq(Steps), end : {"none", "done", "failed"}]
  BY DEF DeployTypeOK
<1>4. cmd'.args = args /\ cmd'.todo = Tail(s)
  BY <1>2, <1>3 DEF Advance, Does
<1>5. ASSUME NEW y, Follows(args, x, y), y \in Words(args),
             args.name = "upgrade" /\ y \in InstallSteps => Managed
      PROVE  Ready(args, y)'
  <2>1. args.name = "purge" => y \notin {"check", "stop", "down"} /\ (owner' = "none" \/ spared')
    BY <1>5 DEF Follows
  <2>2. ASSUME args.name \in {"deploy", "upgrade"}, args.root,
               y \notin {"check", "compose.yml", "quadlets"}
        PROVE  \A u \in Units : dest'.quadlets[u] # None
    <3>1. x # "compose.yml"
      BY <1>5, <2>2 DEF Follows
    <3> QED BY <2>2, <3>1
  <2>3. ASSUME args.name \in {"deploy", "upgrade"}, y \in InstallSteps
        PROVE  owner' \in {"none", "systemd"} /\ (y # "install_tftp" => Managed')
    <3>1. CASE x \in InstallSteps
      BY <2>3, <3>1
    <3>2. CASE x \notin InstallSteps
      <4>1. y = "install_tftp"
        BY <1>5, <2>3, <3>2 DEF Follows, InstallSteps
      <4>2. CASE args.name = "deploy"
        <5>1. x = "down"
          BY <1>5, <4>1, <4>2 DEF Follows
        <5> QED BY <2>3, <4>1, <5>1
      <4>3. CASE args.name = "upgrade"
        <5>1. Managed'
          BY <1>5, <2>3, <4>3
        <5>2. owner' \in {"none", "systemd"}
          BY <5>1 DEF Owned, DeployTypeOK, Owners
        <5> QED BY <4>1, <5>2
      <4> QED BY <2>3, <4>2, <4>3
    <3> QED BY <3>1, <3>2
  <2> QED BY <2>1, <2>2, <2>3 DEF Ready, InstallSteps
<1>6. Flowing'
  BY <1>1, <1>2, <1>4, <1>5, GoesOn
<1> QED BY <1>6 DEF HostInv

\* A command that only writes files, or gives up at it.
LEMMA QuietGoesOn ==
  ASSUME DeployTypeOK, DeployTypeOK', HostInv, ~Idle, Head(cmd.todo) \in EmitSteps,
         UNCHANGED <<home, host, owner, spared>>,
         dest.compose # 0 => dest'.compose # 0,
         Head(cmd.todo) = "quadlets" => Abort \/ \A u \in Units : dest'.quadlets[u] # None,
         Head(cmd.todo) # "quadlets" => dest'.quadlets = dest.quadlets,
         Advance \/ Abort
  PROVE  HostInv'
<1> SUFFICES ASSUME NEW args, args = cmd.args, NEW x, x = Head(cmd.todo) PROVE HostInv'
  OBVIOUS
<1>1. /\ args \in Args /\ x \in Words(args) /\ Ready(args, x)
  BY Here DEF HostInv
<1>2. Owned' /\ (Managed' <=> Managed)
  BY DEF HostInv, Owned, PurgeFindsIt, Managed, Mine
<1>3. CASE Abort
  <2>1. Flowing'
    BY <1>3, Ends DEF Abort, Does, DeployTypeOK
  <2> QED BY <1>2, <2>1 DEF HostInv
<1>4. CASE Advance /\ ~Abort
  <2>1. args.name # "purge" /\ x \notin InstallSteps /\ x \notin {"check", "down"}
    BY <1>1 DEF Words, EmitSteps, PurgeSteps, InstallSteps
  <2>2. ASSUME args.name \in {"deploy", "upgrade"}, args.root, x # "compose.yml"
        PROVE  \A u \in Units : dest'.quadlets[u] # None
    BY <1>1, <1>4, <2>1, <2>2 DEF Ready
  <2>3. home' = home /\ Advance
    BY <1>4
  <2>4. args.name \notin {"purge", "deploy"} \/ (args.name = "deploy" /\ ~args.root) =>
          (Managed' <=> Managed)
    BY <1>2
  <2> QED BY <1>2, <2>1, <2>2, <2>3, <2>4, Onward
<1> QED BY <1>3, <1>4

LEMMA WritesKeepHost ==
  ASSUME DeployTypeOK, DeployTypeOK', HostInv,
         \/ WriteCompose \/ WriteQuadlets \/ WriteEnvvars \/ WriteToml \/ KeepToml
         \/ PrepareDirs \/ Pull
  PROVE  HostInv'
<1> USE DEF At, EmitSteps, hostvars
<1>0. /\ dest \in [compose : Versions \cup {0}, quadlets : [Units -> Specs \cup {None}],
                   envvars : BOOLEAN, toml : BOOLEAN]
      /\ cmd.args.version \in Versions /\ cmd.args.version # 0
  BY StateDbAssumption DEF DeployTypeOK, Args
<1>1. CASE WriteCompose
  <2>1. Head(cmd.todo) = "compose.yml" /\ ~Idle /\ UNCHANGED <<home, host, owner, spared>>
    BY <1>1 DEF WriteCompose, Write
  <2>2. \/ Abort /\ UNCHANGED dest
        \/ Advance /\ dest' = [dest EXCEPT !.compose = cmd.args.version]
    BY <1>1 DEF WriteCompose, Write
  <2>3. (dest.compose # 0 => dest'.compose # 0) /\ dest'.quadlets = dest.quadlets
    BY <1>0, <2>2
  <2> QED BY <2>1, <2>2, <2>3, QuietGoesOn
<1>2. CASE WriteQuadlets
  <2>1. Head(cmd.todo) = "quadlets" /\ ~Idle /\ UNCHANGED <<home, host, owner, spared>>
    BY <1>2 DEF WriteQuadlets, Write
  <2>2. \/ Abort /\ UNCHANGED dest
        \/ Advance /\ dest' = [dest EXCEPT !.quadlets = [u \in Units |-> Given]]
    BY <1>2 DEF WriteQuadlets, Write
  <2>3. dest'.compose = dest.compose
    BY <1>0, <2>2
  <2>4. Given # None
    BY <1>0 DEF Given, None
  <2>5. Abort \/ \A u \in Units : dest'.quadlets[u] # None
    BY <1>0, <2>2, <2>4
  <2> QED BY <2>1, <2>2, <2>3, <2>5, QuietGoesOn
<1>3. CASE WriteEnvvars
  <2>1. Head(cmd.todo) = "envvars" /\ ~Idle /\ UNCHANGED <<home, host, owner, spared>>
    BY <1>3 DEF WriteEnvvars, Write
  <2>2. \/ Abort /\ UNCHANGED dest
        \/ Advance /\ dest' = [dest EXCEPT !.envvars = TRUE]
    BY <1>3 DEF WriteEnvvars, Write
  <2>3. dest'.compose = dest.compose /\ dest'.quadlets = dest.quadlets
    BY <1>0, <2>2
  <2> QED BY <2>1, <2>2, <2>3, QuietGoesOn
<1>4. CASE WriteToml
  <2>1. Head(cmd.todo) = "toml" /\ ~Idle /\ UNCHANGED <<home, host, owner, spared>>
    BY <1>4 DEF WriteToml, Write
  <2>2. \/ Abort /\ UNCHANGED dest
        \/ Advance /\ dest' = [dest EXCEPT !.toml = TRUE]
    BY <1>4 DEF WriteToml, Write
  <2>3. dest'.compose = dest.compose /\ dest'.quadlets = dest.quadlets
    BY <1>0, <2>2
  <2> QED BY <2>1, <2>2, <2>3, QuietGoesOn
<1>5. CASE KeepToml
  <2>1. /\ Head(cmd.todo) = "kept" /\ ~Idle /\ UNCHANGED <<home, host, owner, spared, dest>>
        /\ Advance \/ Abort
    BY <1>5 DEF KeepToml
  <2> QED BY <2>1, QuietGoesOn
<1>6. CASE PrepareDirs
  <2>1. /\ Head(cmd.todo) = "prepare" /\ ~Idle /\ UNCHANGED <<home, host, owner, spared, dest>>
        /\ Advance
    BY <1>6 DEF PrepareDirs
  <2> QED BY <2>1, QuietGoesOn
<1>7. CASE Pull
  <2>1. /\ Head(cmd.todo) = "pull" /\ ~Idle /\ UNCHANGED <<home, host, owner, spared, dest>>
        /\ Advance
    BY <1>7 DEF Pull
  <2> QED BY <2>1, QuietGoesOn
<1> QED BY <1>1, <1>2, <1>3, <1>4, <1>5, <1>6, <1>7

\* A command that is cut off, or gives up, with the stack and the units untouched.
LEMMA AbortKeepsHost ==
  ASSUME DeployTypeOK, HostInv, Abort, UNCHANGED <<home, host, owner, spared>>,
         dest'.compose = dest.compose
  PROVE  HostInv'
<1>1. Owned'
  BY DEF HostInv, Owned, PurgeFindsIt, Managed, Mine
<1>2. cmd'.todo = <<>>
  <2>1. cmd \in [args : Args, todo : Seq(Steps), end : {"none", "done", "failed"}]
    BY DEF DeployTypeOK
  <2> QED BY <2>1 DEF Abort, Does
<1> QED BY <1>1, <1>2, Ends DEF HostInv

\* down is of a deployment of root or of a purge; what it leaves is not a compose
\* stack.  stop is of a purge of what systemd manages.
LEMMA TakeDownKeepsHost ==
  ASSUME DeployTypeOK, DeployTypeOK', HostInv, ComposeDown \/ StopServices
  PROVE  HostInv'
<1> SUFFICES ASSUME NEW args, args = cmd.args, NEW x, x = Head(cmd.todo) PROVE HostInv'
  OBVIOUS
<1>1. /\ ~Idle /\ x \in {"down", "stop"} /\ Advance /\ home' = home /\ host' = host
      /\ dest' = dest
      /\ \/ owner' = "none"
         \/ owner' = owner /\ spared' = spared /\ x = "down" /\ owner # Me
         \/ owner' = owner /\ spared' = spared /\ x = "stop" /\ owner # "systemd"
  BY DEF ComposeDown, StopServices, TakeDown, At, Stop, stackvars
<1>2. /\ args \in Args /\ args.root = home.root /\ x \in Words(args) /\ Ready(args, x)
  BY <1>1, Here DEF HostInv
<1>3. Owned' /\ (Managed' <=> Managed)
  BY <1>1 DEF HostInv, Owned, PurgeFindsIt, Managed, Mine
<1>4. Me = Mine /\ owner \in Owners
  BY <1>2 DEF Me, Mine, DeployTypeOK
<1>5. owner' \in {"none", "systemd"}
  <2>1. CASE x = "down"
    BY <1>1, <1>4, <2>1 DEF HostInv, Owned, Owners
  <2>2. CASE x = "stop"
    <3>1. Managed
      BY <1>2, <2>2 DEF Ready, Words, EmitSteps, InstallSteps, PurgeSteps
    <3> QED BY <1>1, <1>4, <3>1 DEF HostInv, Owned, Owners
  <2> QED BY <1>1, <2>1, <2>2
<1>6. args.name = "purge" => owner' = "none" \/ spared'
  <2> SUFFICES ASSUME args.name = "purge" PROVE owner' = "none" \/ spared'
    OBVIOUS
  <2>1. CASE x = "down"
    <3>1. ~Managed
      BY <1>2, <2>1 DEF Ready
    <3> QED BY <1>3, <1>5, <3>1 DEF Owned, PurgeFindsIt
  <2>2. CASE x = "stop"
    BY <1>1, <1>5, <2>2
  <2> QED BY <1>1, <2>1, <2>2
<1>7. args.name \notin {"purge", "deploy"} \/ (args.name = "deploy" /\ ~args.root) =>
        (Managed' <=> Managed)
  BY <1>3
<1>8. args.name \in {"deploy", "upgrade"} /\ args.root /\ x # "compose.yml" =>
        \A u \in Units : dest'.quadlets[u] # None
  <2> SUFFICES ASSUME args.name \in {"deploy", "upgrade"}, args.root
               PROVE  \A u \in Units : dest.quadlets[u] # None
    BY <1>1
  <2> QED BY <1>1, <1>2 DEF Ready
<1>9. x \notin InstallSteps
  BY <1>1 DEF InstallSteps
<1> QED BY <1>1, <1>3, <1>5, <1>6, <1>7, <1>8, <1>9, Onward

\* The stack of the operator, where systemd manages none.
LEMMA BringUpKeepsOwned ==
  ASSUME HostInv, ~Managed, NEW who, who = Mine, BringUp(who), CanCompose(who),
         UNCHANGED <<home, host, dest>>
  PROVE  Owned'
<1>1. owner' = who /\ dest.compose # 0
  BY DEF BringUp, Boot, CanCompose, stackvars
<1>2. ~Managed' /\ Mine' = Mine /\ Mine \in {"root", "user"}
  BY DEF Managed, Mine
<1> QED BY <1>1, <1>2 DEF HostInv, Owned, PurgeFindsIt

LEMMA ComposeUpKeepsHost ==
  ASSUME DeployTypeOK, DeployTypeOK', HostInv, ComposeUp
  PROVE  HostInv'
<1> SUFFICES ASSUME NEW args, args = cmd.args, NEW x, x = Head(cmd.todo) PROVE HostInv'
  OBVIOUS
<1>1. /\ ~Idle /\ x = "up" /\ home' = home /\ host' = host /\ dest' = dest
      /\ \/ Advance /\ CanCompose(Me) /\ BringUp(Me)
         \/ Abort /\ UNCHANGED <<owner, spared>>
  BY DEF ComposeUp, At, stackvars
<1>2. /\ args \in Args /\ args.root = home.root /\ x \in Words(args) /\ Ready(args, x)
      /\ ~Managed
  BY <1>1, Here DEF HostInv
<1>3. CASE Abort /\ UNCHANGED <<owner, spared>>
  BY <1>1, <1>3, AbortKeepsHost
<1>4. CASE Advance /\ CanCompose(Me) /\ BringUp(Me)
  <2>1. Me = Mine
    BY <1>2 DEF Me, Mine
  <2>2. Owned'
    BY <1>1, <1>2, <1>4, <2>1, BringUpKeepsOwned
  <2>3. Managed' <=> Managed
    BY <1>1 DEF Managed
  <2>4. args.name # "purge" /\ x \notin InstallSteps /\ x # "down"
    BY <1>1, <1>2 DEF Words, PurgeSteps, InstallSteps
  <2>5. args.name \in {"deploy", "upgrade"} /\ args.root /\ x # "compose.yml" =>
          \A u \in Units : dest'.quadlets[u] # None
    BY <1>1, <1>2 DEF Ready
  <2>6. args.name \notin {"purge", "deploy"} \/ (args.name = "deploy" /\ ~args.root) =>
          (Managed' <=> Managed)
    BY <2>3
  <2> QED BY <1>1, <1>4, <2>2, <2>4, <2>5, <2>6, Onward
<1> QED BY <1>1, <1>3, <1>4

LEMMA StartKeepsHost ==
  ASSUME DeployTypeOK, DeployTypeOK', HostInv, StartServices
  PROVE  HostInv'
<1> SUFFICES ASSUME NEW args, args = cmd.args, NEW x, x = Head(cmd.todo) PROVE HostInv'
  OBVIOUS
<1>1. /\ ~Idle /\ x \in {"start", "restart"} /\ home' = home /\ host' = host /\ dest' = dest
      /\ \/ Advance /\ owner \in {"none", "systemd"} /\ (owner' = owner \/ owner' = "systemd")
         \/ Abort /\ UNCHANGED <<owner, spared>>
  BY DEF StartServices, At, Boot, stackvars
<1>2. /\ args \in Args /\ args.root = home.root /\ x \in Words(args) /\ Ready(args, x)
  BY <1>1, Here DEF HostInv
<1>3. CASE Abort /\ UNCHANGED <<owner, spared>>
  BY <1>1, <1>3, AbortKeepsHost
<1>4. CASE Advance /\ owner \in {"none", "systemd"} /\ (owner' = owner \/ owner' = "systemd")
  <2>1. args.name \in {"deploy", "upgrade"} /\ x \in InstallSteps \ {"install_tftp"}
    BY <1>1, <1>2 DEF Words, PurgeSteps, EmitSteps, InstallSteps
  <2>2. Managed
    BY <1>2, <2>1 DEF Ready
  <2>3. Managed'
    BY <1>1, <2>2 DEF Managed
  <2>4. Owned'
    BY <1>1, <1>4, <2>2, <2>3 DEF HostInv, Owned, PurgeFindsIt
  <2>5. args.name \in {"deploy", "upgrade"} /\ args.root /\ x # "compose.yml" =>
          \A u \in Units : dest'.quadlets[u] # None
    BY <1>1, <1>2 DEF Ready
  <2>6. owner' \in {"none", "systemd"} /\ args.name # "purge"
    BY <1>4, <2>1
  <2> QED BY <1>1, <1>4, <2>1, <2>2, <2>3, <2>4, <2>5, <2>6, Onward
<1> QED BY <1>1, <1>3, <1>4

\* Only root installs units, from files that are there; after the first the host
\* is managed, and an upgrade installs only where it was before.
LEMMA InstallKeepsHost ==
  ASSUME DeployTypeOK, DeployTypeOK', HostInv, NEW unit \in Units, InstallUnit(unit)
  PROVE  HostInv'
<1> SUFFICES ASSUME NEW args, args = cmd.args, NEW x, x = Head(cmd.todo) PROVE HostInv'
  OBVIOUS
<1>1. /\ ~Idle /\ x = InstallOf(unit) /\ UNCHANGED <<home, dest, owner, spared>>
      /\ \/ Advance /\ host' = [host EXCEPT !.unit[unit] = dest.quadlets[unit]]
         \/ Abort /\ host' = host
  BY DEF InstallUnit, At
<1>2. /\ args \in Args /\ args.root = home.root /\ x \in Words(args) /\ Ready(args, x)
      /\ args.name = "upgrade" /\ x \in InstallSteps => Managed
  BY <1>1, Here DEF HostInv
<1>3. CASE Abort /\ host' = host
  BY <1>1, <1>3, AbortKeepsHost
<1>4. CASE Advance /\ host' = [host EXCEPT !.unit[unit] = dest.quadlets[unit]]
  <2>1. x \in InstallSteps
    BY <1>1 DEF InstallOf, InstallSteps
  <2>2. args.name \in {"deploy", "upgrade"}
    BY <1>1, <1>2 DEF Words, PurgeSteps, EmitSteps, InstallOf
  <2>3. args.root
    <3>1. CASE args.name = "deploy"
      BY <1>1, <1>2, <3>1 DEF Words, EmitSteps, InstallOf
    <3>2. CASE args.name = "upgrade"
      <4>1. Managed /\ home.root \in BOOLEAN
        BY <1>2, <2>1, <3>2 DEF DeployTypeOK
      <4> QED BY <1>2, <4>1 DEF HostInv, Owned
    <3> QED BY <2>2, <3>1, <3>2
  <2>4. \A u \in Units : dest.quadlets[u] # None
    BY <1>1, <1>2, <2>2, <2>3 DEF Ready, InstallOf
  <2>5. host'.unit[unit] = dest.quadlets[unit]
    <3>1. host.unit \in [Units -> Specs \cup {None}]
      BY DEF DeployTypeOK
    <3>2. host \in [unit : [Units -> Specs \cup {None}], loaded : [Units -> Specs \cup {None}],
                    pinned : BOOLEAN]
      BY DEF DeployTypeOK
    <3> QED BY <1>4, <3>1, <3>2
  <2>6. Managed'
    BY <2>4, <2>5 DEF Managed
  <2>7. owner' \in {"none", "systemd"}
    BY <1>1, <1>2, <2>1, <2>2 DEF Ready
  <2>8. Owned'
    BY <1>1, <1>2, <2>3, <2>6, <2>7 DEF Owned, PurgeFindsIt
  <2>9. args.name = "upgrade" => Managed
    BY <1>2, <2>1
  <2>10. args.name \notin {"purge", "deploy"} \/ (args.name = "deploy" /\ ~args.root) =>
          (Managed' <=> Managed)
    BY <2>2, <2>3, <2>6, <2>9
  <2>11. \A u \in Units : dest'.quadlets[u] # None
    BY <1>1, <2>4
  <2>12. args.name # "purge" /\ x # "down"
    BY <1>1, <2>2 DEF InstallOf
  <2> QED BY <1>1, <1>4, <2>6, <2>7, <2>8, <2>10, <2>11, <2>12, Onward
<1> QED BY <1>1, <1>3, <1>4

\* Purge, with nothing running any more but what it could not stop.
LEMMA PurgeKeepsHost ==
  ASSUME DeployTypeOK, DeployTypeOK', HostInv, Advance, UNCHANGED <<home, owner, spared>>, ~Idle,
         cmd.args.name = "purge",
         Head(cmd.todo) \in {"remove_web", "remove_tftp", "unpin", "reload", "wipe", "rmdir"},
         Managed' => Managed
  PROVE  HostInv'
<1> SUFFICES ASSUME NEW args, args = cmd.args, NEW x, x = Head(cmd.todo) PROVE HostInv'
  OBVIOUS
<1>1. Ready(args, x)
  BY Here DEF HostInv
<1>2. (owner' = "none" \/ spared') /\ home' = home
  BY <1>1 DEF Ready
<1>3. Owned'
  BY <1>2 DEF HostInv, Owned, PurgeFindsIt, Mine
<1>4. x \notin {"down", "install_tftp", "install_web", "pin", "start", "restart"}
      /\ args.name = "purge"
  OBVIOUS
<1>5. x \in InstallSteps => x = "reload"
  BY <1>4 DEF InstallSteps
<1>6. Flowing'
  <2>1. cmd'.args = args /\ cmd'.todo = Tail(cmd.todo)
    <3>1. cmd \in [args : Args, todo : Seq(Steps), end : {"none", "done", "failed"}]
      BY DEF DeployTypeOK
    <3> QED BY <3>1 DEF Advance, Does
  <2>2. ASSUME NEW y, Follows(args, x, y) PROVE Ready(args, y)'
    BY <1>2, <1>4, <2>2 DEF Follows, Ready
  <2>3. PICK s : s = cmd.todo
    OBVIOUS
  <2>4. args.name \notin {"purge", "deploy"} \/ (args.name = "deploy" /\ ~args.root) =>
          (Managed' <=> Managed)
    BY <1>4
  <2>5. \A y : /\ Follows(args, Head(s), y) /\ y \in Words(args)
               /\ (args.name = "upgrade" /\ y \in InstallSteps => Managed)
               => Ready(args, y)'
    BY <2>2, <2>3
  <2> QED BY <1>2, <2>1, <2>3, <2>4, <2>5, GoesOn DEF HostInv
<1> QED BY <1>3, <1>6 DEF HostInv

LEMMA RemoveKeepsHost ==
  ASSUME DeployTypeOK, DeployTypeOK', HostInv, NEW unit \in Units, RemoveUnit(unit)
  PROVE  HostInv'
<1>1. /\ ~Idle /\ Head(cmd.todo) = RemoveOf(unit) /\ Advance /\ UNCHANGED <<home, owner, spared>>
      /\ host' = [host EXCEPT !.unit[unit] = None]
  BY DEF RemoveUnit, At
<1>2. Head(cmd.todo) \in Words(cmd.args) /\ cmd.args \in Args
  BY <1>1, Here DEF HostInv
<1>3. cmd.args.name = "purge" /\ Head(cmd.todo) \in {"remove_web", "remove_tftp"}
  BY <1>1, <1>2 DEF Words, EmitSteps, InstallSteps, RemoveOf
<1>4. Managed' => Managed
  <2>1. host \in [unit : [Units -> Specs \cup {None}], loaded : [Units -> Specs \cup {None}],
                  pinned : BOOLEAN]
    BY DEF DeployTypeOK
  <2>2. host'.unit = [host.unit EXCEPT ![unit] = None]
    BY <1>1, <2>1
  <2>3. \A u \in Units : host'.unit[u] = None \/ host'.unit[u] = host.unit[u]
    BY <2>1, <2>2
  <2> QED BY <2>3 DEF Managed
<1> QED BY <1>1, <1>3, <1>4, PurgeKeepsHost

\* The firewall drop-in and daemon-reload, of an installation and of a purge.
LEMMA ReloadKeepsHost ==
  ASSUME DeployTypeOK, DeployTypeOK', HostInv, Pin \/ DaemonReload
  PROVE  HostInv'
<1> SUFFICES ASSUME NEW args, args = cmd.args, NEW x, x = Head(cmd.todo) PROVE HostInv'
  OBVIOUS
<1>1. /\ ~Idle /\ x \in {"pin", "unpin", "reload"} /\ Advance /\ UNCHANGED <<home, owner, spared>>
      /\ dest' = dest /\ \/ host' = [host EXCEPT !.pinned = At("pin")]
                         \/ host' = [host EXCEPT !.loaded = host.unit]
  BY DEF Pin, DaemonReload, At
<1>2. /\ args \in Args /\ args.root = home.root /\ x \in Words(args) /\ Ready(args, x)
  BY <1>1, Here DEF HostInv
<1>3. Managed' <=> Managed
  <2>1. host \in [unit : [Units -> Specs \cup {None}], loaded : [Units -> Specs \cup {None}],
                  pinned : BOOLEAN]
    BY DEF DeployTypeOK
  <2>2. host'.unit = host.unit
    BY <1>1, <2>1
  <2> QED BY <2>2 DEF Managed
<1>4. CASE args.name = "purge"
  <2>1. x \in {"unpin", "reload"}
    BY <1>1, <1>2, <1>4 DEF Words, PurgeSteps
  <2> QED BY <1>1, <1>3, <1>4, <2>1, PurgeKeepsHost
<1>5. CASE args.name # "purge"
  <2>1. x \in InstallSteps \ {"install_tftp"} /\ args.name \in {"deploy", "upgrade"}
    BY <1>1, <1>2, <1>5 DEF Words, EmitSteps, InstallSteps
  <2>2. Managed /\ owner \in {"none", "systemd"}
    BY <1>2, <2>1 DEF Ready
  <2>3. Managed' /\ owner' \in {"none", "systemd"} /\ home' = home
    BY <1>1, <1>3, <2>2
  <2>4. Owned'
    BY <1>1, <2>2, <2>3 DEF HostInv, Owned, PurgeFindsIt
  <2>5. args.name \in {"deploy", "upgrade"} /\ args.root /\ x # "compose.yml" =>
          \A u \in Units : dest'.quadlets[u] # None
    BY <1>1, <1>2 DEF Ready
  <2>6. args.name \notin {"purge", "deploy"} \/ (args.name = "deploy" /\ ~args.root) =>
          (Managed' <=> Managed)
    BY <1>3
  <2>7. x # "down"
    BY <1>1
  <2> QED BY <1>1, <1>5, <2>3, <2>4, <2>5, <2>6, <2>7, Onward
<1> QED BY <1>4, <1>5

LEMMA DeletingKeepsHost ==
  ASSUME DeployTypeOK, DeployTypeOK', HostInv, WipeData \/ RemoveDest
  PROVE  HostInv'
<1>1. /\ ~Idle /\ Head(cmd.todo) \in {"wipe", "rmdir"} /\ Advance
      /\ UNCHANGED <<home, owner, spared>> /\ host' = host
  BY DEF WipeData, RemoveDest, At
<1>2. Head(cmd.todo) \in Words(cmd.args)
  BY <1>1, Here DEF HostInv
<1>3. cmd.args.name = "purge"
  BY <1>1, <1>2 DEF Words, EmitSteps, InstallSteps
<1>4. Managed' => Managed
  BY <1>1 DEF Managed
<1> QED BY <1>1, <1>3, <1>4, PurgeKeepsHost

\* A purge that goes on after a failure: what it should have stopped is spared.
LEMMA GoingOnKeepsHost ==
  ASSUME DeployTypeOK, DeployTypeOK', HostInv, PurgeGoesOn
  PROVE  HostInv'
<1> SUFFICES ASSUME NEW args, args = cmd.args, NEW x, x = Head(cmd.todo) PROVE HostInv'
  OBVIOUS
<1>1. /\ ~Idle /\ args.name = "purge" /\ x \in {"stop", "down", "reload", "wipe", "rmdir"}
      /\ Advance /\ UNCHANGED <<home, host, dest, owner>>
      /\ spared' = (spared \/ (x = "stop" /\ owner = "systemd") \/ (x = "down" /\ owner = Me))
  BY DEF PurgeGoesOn, At
<1>2. args.root = home.root /\ Ready(args, x)
  BY <1>1, Here DEF HostInv
<1>3. /\ Me = Mine /\ owner \in {"none", "root", "user", "systemd"} /\ spared \in BOOLEAN
      /\ Mine \in {"root", "user"}
  BY <1>2 DEF Me, Mine, DeployTypeOK, Owners
<1>4. Owned' /\ (Managed' <=> Managed)
  BY <1>1 DEF HostInv, Owned, PurgeFindsIt, Managed, Mine
<1>5. owner' = "none" \/ spared'
  <2>1. CASE x = "stop"
    <3>1. Managed
      BY <1>1, <1>2, <2>1 DEF Ready
    <3> QED BY <1>1, <1>3, <2>1, <3>1 DEF HostInv, Owned
  <2>2. CASE x = "down"
    <3>1. ~Managed
      BY <1>1, <1>2, <2>2 DEF Ready
    <3> QED BY <1>1, <1>3, <2>2, <3>1 DEF HostInv, Owned, PurgeFindsIt
  <2>3. CASE x \notin {"stop", "down"}
    BY <1>1, <1>2, <2>3 DEF Ready
  <2> QED BY <2>1, <2>2, <2>3
<1> QED BY <1>1, <1>4, <1>5, Onward

LEMMA CommandKeepsHost ==
  ASSUME OneUser, DeployTypeOK, HostInv, NEW args \in Args, Command(args)
  PROVE  HostInv'
<1>1. /\ args.root = home.root /\ UNCHANGED <<home, host, owner, spared, dest>>
      /\ cmd' = [args |-> args, todo |-> <<"check">>, end |-> "none"]
  BY DEF Command, Customary, OneUser, hostvars
<1>2. Owned'
  BY <1>1 DEF HostInv, Owned, PurgeFindsIt, Managed, Mine
<1>3. cmd'.args = args /\ cmd'.todo = <<"check">> /\ home' = home
  BY <1>1
<1>4. Orderly(args, <<"check">>)'
  BY DEF Orderly, Words
<1>5. OnTrack(args, <<"check">>)'
  BY DEF OnTrack, InstallSteps
<1>6. Ready(args, "check")'
  BY DEF Ready, InstallSteps
<1>7. Head(<<"check">>) = "check"
  OBVIOUS
<1>8. /\ Orderly(cmd.args, cmd.todo)' /\ OnTrack(cmd.args, cmd.todo)'
      /\ Ready(cmd.args, Head(cmd.todo))'
  <2> SUFFICES ASSUME NEW a, a = cmd'.args, NEW s, s = cmd'.todo
               PROVE  Orderly(a, s)' /\ OnTrack(a, s)' /\ Ready(a, Head(s))'
    OBVIOUS
  <2>1. a = args /\ s = <<"check">> /\ Head(s) = "check"
    BY <1>3, <1>7
  <2> QED BY <1>4, <1>5, <1>6, <2>1
<1>9. Flowing'
  BY <1>1, <1>3, <1>8 DEF Flowing
<1> QED BY <1>2, <1>9 DEF HostInv

LEMMA CheckKeepsHost ==
  ASSUME DeployTypeOK, HostInv, Check
  PROVE  HostInv'
<1>1. /\ ~Idle /\ UNCHANGED <<home, host, owner, spared, dest>>
      /\ Abort \/ Does(Plan(cmd.args), "none")
  BY DEF Check, At, hostvars
<1>2. Owned' /\ (Managed' <=> Managed)
  BY <1>1 DEF HostInv, Owned, PurgeFindsIt, Managed, Mine
<1>3. CASE Abort
  BY <1>1, <1>3, AbortKeepsHost
<1>4. CASE Does(Plan(cmd.args), "none")
  <2> SUFFICES ASSUME NEW args, args = cmd.args PROVE HostInv'
    OBVIOUS
  <2>1. args \in Args /\ args.root = home.root
    BY <1>1, Here DEF HostInv
  <2>2. ~args.root => ~Managed
    BY <2>1 DEF HostInv, Owned
  <2>3. /\ Orderly(args, Plan(args)) /\ OnTrack(args, Plan(args))
        /\ Plan(args) # <<>> /\ Head(Plan(args)) = Opening(args)
    BY <2>1, <2>2, PlanFlows
  <2>4. cmd'.args = args /\ cmd'.todo = Plan(args)
    <3>1. cmd \in [args : Args, todo : Seq(Steps), end : {"none", "done", "failed"}]
      BY DEF DeployTypeOK
    <3> QED BY <1>4, <3>1 DEF Does
  <2>5. PICK s : s = Plan(args)
    OBVIOUS
  <2>6. PICK x : x = Head(s)
    OBVIOUS
  <2>7. Orderly(args, s) /\ OnTrack(args, s)
    BY <2>3, <2>5
  <2>8. Orderly(args, s)'
    BY <2>7 DEF Orderly, Words, Follows, EmitSteps, InstallSteps, PurgeSteps
  <2>9. OnTrack(args, s)'
    BY <1>2, <2>7 DEF OnTrack, InstallSteps
  <2>10. Ready(args, x)'
    <3>1. /\ args.name # "purge" => x = "compose.yml"
          /\ args.name = "purge" => x = IF Managed THEN "stop" ELSE "down"
      BY <2>3, <2>5, <2>6 DEF Opening
    <3> QED BY <1>2, <3>1 DEF Ready, InstallSteps
  <2>11. /\ Orderly(cmd.args, cmd.todo)' /\ OnTrack(cmd.args, cmd.todo)'
         /\ Ready(cmd.args, Head(cmd.todo))'
    <3> SUFFICES ASSUME NEW a, a = cmd'.args, NEW t, t = cmd'.todo
                 PROVE  Orderly(a, t)' /\ OnTrack(a, t)' /\ Ready(a, Head(t))'
      OBVIOUS
    <3>1. a = args /\ t = s /\ Head(t) = x
      BY <2>4, <2>5, <2>6
    <3> QED BY <2>8, <2>9, <2>10, <3>1
  <2>12. Flowing'
    BY <1>1, <2>1, <2>4, <2>11 DEF Flowing
  <2> QED BY <1>2, <2>12 DEF HostInv
<1> QED BY <1>1, <1>3, <1>4

\* The host and the command as they are, but for a stack that is gone.
LEMMA StaysPut ==
  ASSUME HostInv, UNCHANGED <<cmd, dest, host, home>>,
         UNCHANGED <<owner, spared>> \/ owner' = "none"
  PROVE  HostInv'
<1>1. Owned'
  BY DEF HostInv, Owned, PurgeFindsIt, Managed, Mine
<1>2. Flowing'
  BY DEF HostInv, Flowing, Idle, Ready, Managed, Orderly, OnTrack, Words, Follows,
         EmitSteps, InstallSteps, PurgeSteps
<1> QED BY <1>1, <1>2 DEF HostInv

LEMMA ByHandKeepsHost ==
  ASSUME OneUser, HostInv, ByHand
  PROVE  HostInv'
<1>1. /\ Idle /\ ~Managed /\ UNCHANGED <<cmd, dest, host, home>>
      /\ CanCompose(Mine) /\ BringUp(Mine)
  BY DEF ByHand, OneUser, Mine
<1>2. Owned'
  BY <1>1, BringUpKeepsOwned
<1>3. Flowing'
  BY <1>1 DEF Flowing, Idle
<1> QED BY <1>2, <1>3 DEF HostInv

LEMMA FaultKeepsHost ==
  ASSUME DeployTypeOK, DeployTypeOK', HostInv, Kill \/ ProgramFails \/ PurgeGoesOn \/ Reboot \/ Crash
  PROVE  HostInv'
<1>1. CASE Kill
  BY <1>1, AbortKeepsHost DEF Kill, hostvars
<1>2. CASE Crash
  <2>1. UNCHANGED <<cmd, dest, host, home>> /\ (UNCHANGED <<owner, spared>> \/ owner' = "none")
    BY <1>2 DEF Crash, Stop
  <2> QED BY <2>1, StaysPut
<1>3. cmd \in [args : Args, todo : Seq(Steps), end : {"none", "done", "failed"}]
  BY DEF DeployTypeOK
<1>4. CASE ProgramFails
  <2>1. /\ Abort /\ UNCHANGED <<dest, host, home>>
        /\ UNCHANGED <<owner, spared>> \/ owner' = "none"
    BY <1>4 DEF ProgramFails, Stop, stackvars
  <2>2. Owned'
    BY <2>1 DEF HostInv, Owned, PurgeFindsIt, Managed, Mine
  <2>3. cmd'.todo = <<>>
    BY <1>3, <2>1 DEF Abort, Does
  <2> QED BY <2>2, <2>3, Ends DEF HostInv
<1>5. CASE Reboot
  <2>1. /\ (Idle /\ cmd' = cmd) \/ Abort
        /\ UNCHANGED <<dest, home>> /\ host' = [host EXCEPT !.loaded = host.unit]
        /\ \/ owner' = "systemd" /\ host.unit["web"] # None
           \/ owner' = "none"
    BY <1>5 DEF Reboot, Boot, Stop, Startable
  <2>2. host'.unit = host.unit
    <3>1. host \in [unit : [Units -> Specs \cup {None}], loaded : [Units -> Specs \cup {None}],
                    pinned : BOOLEAN]
      BY DEF DeployTypeOK
    <3> QED BY <2>1, <3>1
  <2>3. Managed' <=> Managed
    BY <2>2 DEF Managed
  <2>4. owner' = "systemd" => Managed
    BY <2>1 DEF Managed, Units
  <2>5. Owned'
    BY <2>1, <2>3, <2>4 DEF HostInv, Owned, PurgeFindsIt
  <2>6. cmd'.todo = <<>>
    BY <1>3, <2>1 DEF Abort, Does, Idle
  <2> QED BY <2>5, <2>6, Ends DEF HostInv
<1> QED BY <1>1, <1>2, <1>4, <1>5, GoingOnKeepsHost

LEMMA HostHolds == ASSUME OneUser PROVE DeploySpec => []HostInv
<1>1. DeployInit => HostInv
  <2> SUFFICES ASSUME DeployInit PROVE HostInv
    OBVIOUS
  <2>1. ~Managed
    BY DEF DeployInit, Managed, NoUnits
  <2>2. Owned
    BY <2>1 DEF DeployInit, Owned, PurgeFindsIt
  <2>3. Flowing
    BY DEF DeployInit, Flowing, Idle
  <2> QED BY <2>2, <2>3 DEF HostInv
<1>2. DeployTypeOK /\ DeployTypeOK' /\ HostInv /\ [DeployNext]_vars => HostInv'
  <2> SUFFICES ASSUME DeployTypeOK, DeployTypeOK', HostInv, [DeployNext]_vars PROVE HostInv'
    OBVIOUS
  <2>1. CASE UNCHANGED vars
    BY <2>1, StaysPut DEF vars, hostvars
  <2>2. CASE \E args \in Args : Command(args)
    BY <2>2, CommandKeepsHost
  <2>3. CASE Step
    BY <2>3, CheckKeepsHost, WritesKeepHost, TakeDownKeepsHost, ComposeUpKeepsHost,
       StartKeepsHost, InstallKeepsHost, RemoveKeepsHost, ReloadKeepsHost, DeletingKeepsHost
       DEF Step
  <2>4. CASE Server
    BY <2>4, StaysPut DEF Server, hostvars
  <2>5. CASE ByHand
    BY <2>5, ByHandKeepsHost
  <2>6. CASE Kill \/ ProgramFails \/ PurgeGoesOn \/ Reboot \/ Crash
    BY <2>6, FaultKeepsHost
  <2> QED BY <2>1, <2>2, <2>3, <2>4, <2>5, <2>6 DEF DeployNext
<1> QED BY <1>1, <1>2, DeployTypeCorrect, PTL DEF DeploySpec

\* With one user, purge finds whatever runs, but for what a purge has left running
\* because its own stop failed: for any number of versions, directories, commands
\* and faults, among them purges that go on after any failure (purge_main, _run).
THEOREM PurgeFindsItHolds == ASSUME OneUser PROVE DeploySpec => []PurgeFindsIt
BY HostHolds, HostInvIsWanted, PTL

(***************************************************************************)
(* The server's own database.                                              *)
(***************************************************************************)
\* What the server knows of the database it works on, at each of its steps.
Opened ==
  /\ web.pc = "create" => (Current.tables # 0 => Current.marker = web.version)
  /\ web.pc = "mark" => Current.tables = web.version
  /\ web.pc = "up" => Current.tables = web.version /\ Current.marker = web.version

\* A database that has a version has its tables.
Marked == \A d \in Dirs : db[d].marker \in {NoMarker, db[d].tables}

SchemaInv == Opened /\ Marked

LEMMA ServeKeepsSchema ==
  ASSUME DeployTypeOK, SchemaInv, Serve
  PROVE  SchemaInv'
<1> USE DEF SchemaInv
<1>1. /\ db \in [Dirs -> Databases] /\ web \in Servers /\ web.dir \in Dirs
      /\ web.version \in Versions /\ Current = db[web.dir] /\ Current \in Databases
      /\ web.version # NoMarker
  BY CurrentTyped, StateDbAssumption DEF DeployTypeOK, DbTypeOK, NoMarker
<1>2. CASE Probe
  <2>1. db' = db /\ web'.dir = web.dir /\ web'.version = web.version
        /\ web'.pc = IF Stale THEN "rotate" ELSE "create"
    BY <1>1, <1>2 DEF Probe, Servers
  <2>2. Opened'
    BY <2>1 DEF Opened, Current, Stale
  <2> QED BY <2>1, <2>2 DEF Marked
<1>3. CASE Rotate
  <2>1. /\ web' = [web EXCEPT !.pc = "create"]
        /\ db' = [db EXCEPT ![web.dir] = NoFile]
    BY <1>3 DEF Rotate
  <2>2. web'.dir = web.dir /\ web'.version = web.version /\ web'.pc = "create"
    BY <1>1, <2>1 DEF Servers
  <2>3. db'[web.dir].tables = 0
    BY <1>1, <2>1, NoFileTyped
  <2>4. Opened'
    BY <2>2, <2>3 DEF Opened, Current
  <2>5. Marked'
    BY <1>1, <2>1, NoFileTyped DEF Marked
  <2> QED BY <2>4, <2>5
<1>4. CASE Create
  <2>1. /\ web' = [web EXCEPT !.pc = "mark"] /\ web.pc = "create"
        /\ db' = [db EXCEPT ![web.dir] = [db[web.dir] EXCEPT !.tables =
                    IF @ = 0 THEN web.version ELSE @]]
    BY <1>4 DEF Create
  <2>2. web'.dir = web.dir /\ web'.version = web.version /\ web'.pc = "mark"
    BY <1>1, <2>1 DEF Servers
  <2>3. db'[web.dir] = [db[web.dir] EXCEPT !.tables =
                          IF db[web.dir].tables = 0 THEN web.version ELSE db[web.dir].tables]
    BY <1>1, <2>1
  <2>4. \/ db[web.dir].tables = 0 /\ db[web.dir].marker = NoMarker
        \/ db[web.dir].tables = web.version
    BY <1>1, <2>1 DEF Opened, Marked, NoMarker
  <2>5. db'[web.dir].tables = web.version /\ db'[web.dir].marker = db[web.dir].marker
    BY <1>1, <2>3, <2>4 DEF Databases
  <2>6. Opened'
    BY <2>2, <2>5 DEF Opened, Current
  <2>7. Marked'
    BY <1>1, <2>1, <2>4, <2>5 DEF Marked
  <2> QED BY <2>6, <2>7
<1>5. CASE Mark
  <2>1. /\ web' = [web EXCEPT !.pc = "up", !.from = NoMarker] /\ web.pc = "mark"
        /\ db' = [db EXCEPT ![web.dir] = [db[web.dir] EXCEPT !.marker =
                    IF @ = NoMarker THEN web.version ELSE @]]
    BY <1>5 DEF Mark
  <2>2. web'.dir = web.dir /\ web'.version = web.version /\ web'.pc = "up"
    BY <1>1, <2>1 DEF Servers
  <2>3. db'[web.dir] = [db[web.dir] EXCEPT !.marker =
                          IF db[web.dir].marker = NoMarker THEN web.version
                          ELSE db[web.dir].marker]
    BY <1>1, <2>1
  <2>4. db[web.dir].tables = web.version /\ db[web.dir].marker \in {NoMarker, web.version}
    BY <1>1, <2>1 DEF Opened, Marked
  <2>5. db'[web.dir].tables = web.version /\ db'[web.dir].marker = web.version
    BY <1>1, <2>3, <2>4 DEF Databases
  <2>6. Opened'
    BY <2>2, <2>5 DEF Opened, Current
  <2>7. Marked'
    BY <1>1, <2>1, <2>5 DEF Marked
  <2> QED BY <2>6, <2>7
<1>6. CASE \E s \in Saves : Save(s)
  <2>1. PICK s \in Saves : Save(s)
    BY <1>6
  <2>2. /\ web' = web
        /\ db' = [db EXCEPT ![web.dir] = [db[web.dir] EXCEPT !.saves = @ \cup {s}]]
    BY <2>1 DEF Save
  <2>3. db'[web.dir] = [db[web.dir] EXCEPT !.saves = @ \cup {s}]
    BY <1>1, <2>2
  <2>4. /\ db'[web.dir].tables = db[web.dir].tables
        /\ db'[web.dir].marker = db[web.dir].marker
    BY <1>1, <2>3 DEF Databases
  <2>5. Opened'
    BY <1>1, <2>2, <2>4 DEF Opened, Current
  <2>6. Marked'
    BY <1>1, <2>2, <2>4 DEF Marked
  <2> QED BY <2>5, <2>6
<1> QED BY <1>2, <1>3, <1>4, <1>5, <1>6 DEF Serve

\* A server whose directory is deleted answers nothing; another has its own.
LEMMA DeletingKeepsSchema ==
  ASSUME DeployTypeOK, SchemaInv, WipeData \/ RemoveDest
  PROVE  SchemaInv'
<1>1. PICK gone : Forget(gone)
  BY DEF WipeData, RemoveDest
<1>2. db \in [Dirs -> Databases] /\ web \in Servers /\ web.dir \in Dirs
  BY CurrentTyped DEF DeployTypeOK, DbTypeOK
<1>3. /\ \A d \in Dirs : db'[d] = IF d \in gone THEN NoFile ELSE db[d]
      /\ web' = IF web.pc # "down" /\ web.dir \in gone THEN [web EXCEPT !.pc = "lost"] ELSE web
  BY <1>1 DEF Forget
<1>4. \/ web'.pc \in {"down", "lost"}
      \/ web' = web /\ db'[web.dir] = db[web.dir]
  BY <1>2, <1>3 DEF Servers
<1>5. Opened'
  BY <1>4 DEF Opened, Current, SchemaInv
<1>6. Marked'
  BY <1>3, NoFileTyped DEF Marked, SchemaInv
<1> QED BY <1>5, <1>6 DEF SchemaInv

\* A server that was started, or stopped, has looked at nothing yet.
LEMMA RestartKeepsSchema ==
  ASSUME SchemaInv, UNCHANGED db, web' = web \/ web'.pc \in {"down", "probe"}
  PROVE  SchemaInv'
BY DEF SchemaInv, Opened, Marked, Current

LEMMA StackKeepsSchema ==
  ASSUME DeployTypeOK, SchemaInv,
         \/ ComposeDown \/ StopServices \/ ComposeUp \/ StartServices
         \/ ByHand \/ Kill \/ ProgramFails \/ PurgeGoesOn \/ Reboot \/ Crash
  PROVE  SchemaInv'
<1>1. \A v, d : Booted(v, d).pc = "probe"
  BY DEF Booted
<1>2. Down.pc = "down"
  BY SomeServer DEF Down, Booted
<1>3. UNCHANGED db
  BY DEF ComposeDown, StopServices, TakeDown, ComposeUp, StartServices, ByHand, Kill,
         ProgramFails, PurgeGoesOn, Reboot, Crash, dbvars
<1>4. web' = web \/ web' = Down \/ \E v, d : web' = Booted(v, d)
  BY DEF ComposeDown, StopServices, TakeDown, ComposeUp, BringUp, StartServices, ByHand, Kill,
         ProgramFails, PurgeGoesOn, Reboot, Crash, dbvars, stackvars, Stop, Boot
<1> QED BY <1>1, <1>2, <1>3, <1>4, RestartKeepsSchema

\* A server that answers works on tables of its own version, and never on ones that
\* came without a version: for any number of versions, directories, commands and
\* faults, whatever the habits of the operators (init_db).
THEOREM ServesOwnSchemaHolds == DeploySpec => []ServesOwnSchema
<1>1. DeployInit => SchemaInv
  <2> SUFFICES ASSUME DeployInit PROVE SchemaInv
    OBVIOUS
  <2>1. web.pc = "down"
    BY SomeServer DEF DeployInit, DbInit, Down, Booted
  <2>2. Marked
    BY NoFileTyped DEF DeployInit, DbInit, Marked
  <2> QED BY <2>1, <2>2 DEF SchemaInv, Opened
<1>2. DeployTypeOK /\ SchemaInv /\ [DeployNext]_vars => SchemaInv'
  <2> SUFFICES ASSUME DeployTypeOK, SchemaInv, [DeployNext]_vars PROVE SchemaInv'
    OBVIOUS
  <2>1. CASE Server
    BY <2>1, ServeKeepsSchema DEF Server
  <2>2. CASE WipeData \/ RemoveDest
    BY <2>2, DeletingKeepsSchema
  <2>3. CASE \/ WriteCompose \/ WriteQuadlets \/ WriteEnvvars \/ WriteToml \/ KeepToml
             \/ PrepareDirs \/ Pull \/ Pin \/ DaemonReload
             \/ \E unit \in Units : InstallUnit(unit) \/ RemoveUnit(unit)
    BY <2>3, RestartKeepsSchema
       DEF WriteCompose, WriteQuadlets, WriteEnvvars, WriteToml, Write, KeepToml,
           PrepareDirs, Pull, Pin, DaemonReload, InstallUnit, RemoveUnit, dbvars
  <2>4. CASE \/ ComposeDown \/ StopServices \/ ComposeUp \/ StartServices
             \/ ByHand \/ Kill \/ ProgramFails \/ PurgeGoesOn \/ Reboot \/ Crash
    BY <2>4, StackKeepsSchema
  <2>5. CASE Check \/ (\E args \in Args : Command(args)) \/ UNCHANGED vars
    BY <2>5, RestartKeepsSchema DEF Check, Command, vars, dbvars
  <2> QED BY <2>1, <2>2, <2>3, <2>4, <2>5 DEF DeployNext, Step
<1>3. SchemaInv => ServesOwnSchema
  BY DEF SchemaInv, Opened, ServesOwnSchema
<1> QED BY <1>1, <1>2, <1>3, DeployTypeCorrect, PTL DEF DeploySpec

(***************************************************************************)
(* What has been done when the stack is started.                            *)
(***************************************************************************)
Starting == {"start", "restart", "up"}

\* The last step, and no other, starts something; an upgrade has a restart.
StartsLast(args, s) ==
  \A i \in 1..Len(s) :
    /\ s[i] \in Starting <=> i = Len(s)
    /\ s[i] = "start" => args.name = "deploy"

\* Nothing runs that systemd has started, but for what a purge has spared.
Unserved == owner # "systemd" \/ spared

Wanted(args) == [version |-> args.version, dir |-> args.dir]

\* What has been written, installed and read by systemd when step x is next.
Laid(args, x) ==
  /\ x # "compose.yml" => dest.compose = args.version
  /\ args.root /\ x \notin {"compose.yml", "quadlets"} => dest.quadlets["web"] = Wanted(args)
  /\ x \in {"pin", "reload", "start", "restart"} => host.unit["web"] = Wanted(args)
  /\ x \in {"start", "restart"} => host.loaded["web"] = Wanted(args)

StartInv ==
  ~Idle /\ cmd.args.name \in {"deploy", "upgrade"} =>
    /\ cmd.args.dir = home.dir
    /\ cmd.args.name = "deploy" /\ cmd.args.root => Unserved
    /\ Head(cmd.todo) # "check" => StartsLast(cmd.args, cmd.todo) /\ Laid(cmd.args, Head(cmd.todo))

\* In every plan of a deploy or an upgrade.
LEMMA PlanStartsLast ==
  ASSUME NEW args \in Args, args.name \in {"deploy", "upgrade"}, ~args.root => ~Managed
  PROVE  StartsLast(args, Plan(args)) /\ Head(Plan(args)) = "compose.yml"
<1> SUFFICES ASSUME NEW s \in Seq(Steps), s = Plan(args)
             PROVE  StartsLast(args, s) /\ Head(s) = "compose.yml"
  BY PlanTyped
<1>1. Head(s) = "compose.yml"
  BY PlanFlows DEF Opening
<1> USE DEF Starting
<1>2. CASE args.name = "deploy" /\ args.root
  <2>1. s = <<"compose.yml">> \o <<"quadlets">> \o <<"envvars", "toml", "prepare", "pull">>
            \o (<<"down">> \o <<"install_tftp", "install_web", "pin", "reload">> \o <<"start">>)
    BY <1>2 DEF Plan, Emit, Install
  <2>2. /\ Len(s) = 12
        /\ s[1] = "compose.yml" /\ s[2] = "quadlets" /\ s[3] = "envvars" /\ s[4] = "toml"
        /\ s[5] = "prepare" /\ s[6] = "pull" /\ s[7] = "down" /\ s[8] = "install_tftp"
        /\ s[9] = "install_web" /\ s[10] = "pin" /\ s[11] = "reload" /\ s[12] = "start"
    BY <2>1
  <2> QED BY <1>1, <1>2, <2>2 DEF StartsLast
<1>3. CASE args.name = "deploy" /\ ~args.root
  <2>1. s = <<"compose.yml">> \o <<>> \o <<"envvars", "toml", "prepare", "pull">> \o <<"up">>
    BY <1>3 DEF Plan, Emit
  <2>2. /\ Len(s) = 6
        /\ s[1] = "compose.yml" /\ s[2] = "envvars" /\ s[3] = "toml"
        /\ s[4] = "prepare" /\ s[5] = "pull" /\ s[6] = "up"
    BY <2>1
  <2> QED BY <1>1, <2>2 DEF StartsLast
<1>4. CASE args.name = "upgrade" /\ Managed
  <2>1. s = <<"compose.yml">> \o <<"quadlets">> \o <<"kept", "prepare", "pull">>
            \o (<<"install_tftp", "install_web", "pin", "reload">> \o <<"restart">>)
    BY <1>4 DEF Plan, Emit, Install
  <2>2. /\ Len(s) = 10
        /\ s[1] = "compose.yml" /\ s[2] = "quadlets" /\ s[3] = "kept" /\ s[4] = "prepare"
        /\ s[5] = "pull" /\ s[6] = "install_tftp" /\ s[7] = "install_web" /\ s[8] = "pin"
        /\ s[9] = "reload" /\ s[10] = "restart"
    BY <2>1
  <2> QED BY <1>1, <2>2 DEF StartsLast
<1>5. CASE args.name = "upgrade" /\ ~Managed /\ args.root
  <2>1. s = <<"compose.yml">> \o <<"quadlets">> \o <<"kept", "prepare", "pull">> \o <<"up">>
    BY <1>5 DEF Plan, Emit
  <2>2. /\ Len(s) = 6
        /\ s[1] = "compose.yml" /\ s[2] = "quadlets" /\ s[3] = "kept" /\ s[4] = "prepare"
        /\ s[5] = "pull" /\ s[6] = "up"
    BY <2>1
  <2> QED BY <1>1, <2>2 DEF StartsLast
<1>6. CASE args.name = "upgrade" /\ ~Managed /\ ~args.root
  <2>1. s = <<"compose.yml">> \o <<>> \o <<"kept", "prepare", "pull">> \o <<"up">>
    BY <1>6 DEF Plan, Emit
  <2>2. /\ Len(s) = 5
        /\ s[1] = "compose.yml" /\ s[2] = "kept" /\ s[3] = "prepare"
        /\ s[4] = "pull" /\ s[5] = "up"
    BY <2>1
  <2> QED BY <1>1, <2>2 DEF StartsLast
<1> QED BY <1>2, <1>3, <1>4, <1>5, <1>6

\* A command that is over has nothing left to say.
LEMMA NothingLaid == ASSUME cmd'.todo = <<>> PROVE StartInv'
BY DEF StartInv, Idle

LEMMA AbortEnds == ASSUME DeployTypeOK, Abort PROVE cmd'.todo = <<>> /\ cmd'.end = "failed"
<1>1. cmd \in [args : Args, todo : Seq(Steps), end : {"none", "done", "failed"}]
  BY DEF DeployTypeOK
<1> QED BY <1>1 DEF Abort, Does

\* Only root has steps that install.
LEMMA InstallIsRoot ==
  ASSUME DeployTypeOK, HostInv, ~Idle, cmd.args.name \in {"deploy", "upgrade"},
         Head(cmd.todo) \in InstallSteps
  PROVE  cmd.args.root
<1>1. /\ cmd.args.root = home.root /\ Head(cmd.todo) \in Words(cmd.args)
      /\ cmd.args.name = "upgrade" => Managed
  BY Here DEF HostInv
<1>2. CASE cmd.args.name = "deploy"
  BY <1>1, <1>2 DEF Words, EmitSteps, InstallSteps
<1>3. CASE cmd.args.name = "upgrade"
  BY <1>1, <1>3 DEF HostInv, Owned, DeployTypeOK
<1> QED BY <1>2, <1>3

\* What a step has to leave behind for the one after it.
LEMMA LaidOnward ==
  ASSUME DeployTypeOK, HostInv, StartInv, ~Idle, Advance, home' = home,
         NEW args, NEW x, cmd.args = args, Head(cmd.todo) = x, x # "check",
         args.name \in {"deploy", "upgrade"} =>
           /\ dest'.compose = args.version
           /\ args.root /\ x # "compose.yml" => dest'.quadlets["web"] = Wanted(args)
           /\ x \in {"install_web", "pin", "reload"} => host'.unit["web"] = Wanted(args)
           /\ x = "reload" => host'.loaded["web"] = Wanted(args)
           /\ args.name = "deploy" /\ args.root => Unserved' \/ x \in Starting
  PROVE  StartInv'
<1> SUFFICES ASSUME NEW s, s = cmd.todo PROVE StartInv'
  OBVIOUS
<1>1. cmd \in [args : Args, todo : Seq(Steps), end : {"none", "done", "failed"}]
  BY DEF DeployTypeOK
<1>2. s \in Seq(Steps) /\ s # <<>> /\ cmd'.args = args /\ cmd'.todo = Tail(s)
  BY <1>1 DEF Advance, Does, Idle
<1>3. CASE Tail(s) = <<>> \/ args.name \notin {"deploy", "upgrade"}
  BY <1>2, <1>3 DEF StartInv, Idle
<1>4. CASE Tail(s) # <<>> /\ args.name \in {"deploy", "upgrade"}
  <2>1. /\ Len(s) \in Nat /\ Len(s) > 1 /\ s[1] = x /\ Head(Tail(s)) = s[2]
        /\ Len(Tail(s)) = Len(s) - 1 /\ \A i \in 1..Len(Tail(s)) : Tail(s)[i] = s[i + 1]
    BY <1>2, <1>4
  <2>2. /\ args.dir = home.dir /\ StartsLast(args, s)
        /\ args.name = "deploy" /\ args.root => Unserved
    BY <1>2, <1>4 DEF StartInv
  <2>3. x \notin Starting
    BY <2>1, <2>2 DEF StartsLast
  <2>4. StartsLast(args, Tail(s))
    <3> SUFFICES ASSUME NEW i \in 1..Len(Tail(s))
                 PROVE  /\ Tail(s)[i] \in Starting <=> i = Len(Tail(s))
                        /\ Tail(s)[i] = "start" => args.name = "deploy"
      BY DEF StartsLast
    <3>1. i + 1 \in 1..Len(s) /\ Tail(s)[i] = s[i + 1]
      BY <2>1
    <3> QED BY <2>1, <2>2, <3>1 DEF StartsLast
  <2>5. PICK y : y = s[2]
    OBVIOUS
  <2>6. Follows(args, x, y)
    <3>1. Orderly(args, s)
      BY DEF HostInv, Flowing
    <3> QED BY <2>1, <2>5, <3>1 DEF Orderly
  <2>7. Laid(args, y)'
    <3>1. args.root /\ x = "compose.yml" => y = "quadlets"
      BY <1>4, <2>6 DEF Follows
    <3>2. /\ y = "pin" => x = "install_web"
          /\ y = "reload" => x = "pin"
          /\ y \in {"start", "restart"} => x = "reload"
      BY <1>4, <2>6 DEF Follows
    <3> QED BY <1>4, <3>1, <3>2 DEF Laid, Wanted
  <2>8. Laid(cmd.args, Head(cmd.todo))'
    <3> SUFFICES ASSUME NEW a, a = cmd'.args, NEW z, z = Head(cmd'.todo) PROVE Laid(a, z)'
      OBVIOUS
    <3>1. a = args /\ z = y
      BY <1>2, <2>1, <2>5
    <3> QED BY <2>7, <3>1
  <2>9. StartsLast(cmd.args, cmd.todo)'
    BY <1>2, <2>4 DEF StartsLast, Starting
  <2> QED BY <1>2, <1>4, <2>2, <2>3, <2>8, <2>9 DEF StartInv
<1> QED BY <1>3, <1>4

\* What has been laid out at the step that a command is at.
LEMMA LaidHere ==
  ASSUME StartInv, ~Idle, cmd.args.name \in {"deploy", "upgrade"}, Head(cmd.todo) # "check"
  PROVE  /\ Laid(cmd.args, Head(cmd.todo)) /\ StartsLast(cmd.args, cmd.todo) /\ cmd.args.dir = home.dir
         /\ cmd.args.name = "deploy" /\ cmd.args.root => Unserved
BY DEF StartInv

\* The files.
LEMMA WritesLay ==
  ASSUME DeployTypeOK, HostInv, StartInv,
         \/ WriteCompose \/ WriteQuadlets \/ WriteEnvvars \/ WriteToml \/ KeepToml
         \/ PrepareDirs \/ Pull
  PROVE  StartInv'
<1> SUFFICES ASSUME NEW args, args = cmd.args, NEW x, x = Head(cmd.todo) PROVE StartInv'
  OBVIOUS
<1> USE DEF At, EmitSteps, hostvars
<1>1. /\ ~Idle /\ x \in EmitSteps /\ UNCHANGED <<home, host, owner, spared>>
      /\ Advance \/ Abort
  BY DEF WriteCompose, WriteQuadlets, WriteEnvvars, WriteToml, KeepToml, PrepareDirs, Pull, Write
<1>2. dest \in [compose : Versions \cup {0}, quadlets : [Units -> Specs \cup {None}],
                envvars : BOOLEAN, toml : BOOLEAN]
  BY DEF DeployTypeOK
<1>3. ASSUME Advance, ~Abort
      PROVE  /\ x = "compose.yml" => dest'.compose = args.version
             /\ x # "compose.yml" => dest'.compose = dest.compose
             /\ x = "quadlets" => dest'.quadlets["web"] = Wanted(args)
             /\ x # "quadlets" => dest'.quadlets = dest.quadlets
  <2>1. CASE WriteCompose
    <3>1. x = "compose.yml" /\ dest' = [dest EXCEPT !.compose = args.version]
      BY <1>3, <2>1 DEF WriteCompose, Write
    <3> QED BY <1>2, <3>1
  <2>2. CASE WriteQuadlets
    <3>1. x = "quadlets" /\ dest' = [dest EXCEPT !.quadlets = [u \in Units |-> Wanted(args)]]
      BY <1>3, <2>2 DEF WriteQuadlets, Write, Given, Wanted
    <3> QED BY <1>2, <3>1 DEF Units
  <2>3. CASE WriteEnvvars
    <3>1. x = "envvars" /\ dest' = [dest EXCEPT !.envvars = TRUE]
      BY <1>3, <2>3 DEF WriteEnvvars, Write
    <3> QED BY <1>2, <3>1
  <2>4. CASE WriteToml
    <3>1. x = "toml" /\ dest' = [dest EXCEPT !.toml = TRUE]
      BY <1>3, <2>4 DEF WriteToml, Write
    <3> QED BY <1>2, <3>1
  <2>5. CASE KeepToml \/ PrepareDirs \/ Pull
    BY <2>5 DEF KeepToml, PrepareDirs, Pull
  <2> QED BY <2>1, <2>2, <2>3, <2>4, <2>5
<1>4. CASE Abort
  BY <1>4, AbortEnds, NothingLaid
<1>5. CASE Advance /\ ~Abort
  <2>1. x \notin {"check", "install_web", "pin", "reload"}
    BY <1>1
  <2>2. ASSUME args.name \in {"deploy", "upgrade"}
        PROVE  /\ dest'.compose = args.version
               /\ args.root /\ x # "compose.yml" => dest'.quadlets["web"] = Wanted(args)
               /\ args.name = "deploy" /\ args.root => Unserved'
    BY <1>1, <1>3, <1>5, <2>1, <2>2, LaidHere DEF Laid, Unserved
  <2> QED BY <1>1, <1>5, <2>1, <2>2, LaidOnward
<1> QED BY <1>1, <1>4, <1>5

\* The units of a deploy or an upgrade, and what systemd reads of them; a purge
\* starts nothing.
LEMMA UnitsLay ==
  ASSUME DeployTypeOK, HostInv, StartInv,
         Pin \/ DaemonReload \/ \E unit \in Units : InstallUnit(unit) \/ RemoveUnit(unit)
  PROVE  StartInv'
<1> SUFFICES ASSUME NEW args, args = cmd.args, NEW x, x = Head(cmd.todo) PROVE StartInv'
  OBVIOUS
<1> USE DEF At
<1>1. /\ ~Idle /\ UNCHANGED <<home, dest, owner, spared>>
      /\ Advance \/ Abort
      /\ x \in {"install_tftp", "install_web", "remove_tftp", "remove_web", "pin", "unpin", "reload"}
  BY DEF Pin, DaemonReload, InstallUnit, RemoveUnit, InstallOf, RemoveOf
<1>2. host \in [unit : [Units -> Specs \cup {None}], loaded : [Units -> Specs \cup {None}],
                pinned : BOOLEAN] /\ Units = {"tftp", "web"}
  BY DEF DeployTypeOK, Units
<1>3. CASE Abort
  BY <1>3, AbortEnds, NothingLaid
<1>4. CASE Advance /\ ~Abort
  <2>1. ASSUME args.name \in {"deploy", "upgrade"}
        PROVE  /\ Laid(args, x) /\ args.root
               /\ x \in {"install_tftp", "install_web", "pin", "reload"}
               /\ args.name = "deploy" => Unserved
    <3>1. x \in Words(args)
      BY <1>1, Here DEF HostInv
    <3>2. x \in {"install_tftp", "install_web", "pin", "reload"}
      BY <1>1, <2>1, <3>1 DEF Words, EmitSteps, InstallSteps
    <3>3. args.root
      BY <1>1, <2>1, <3>2, InstallIsRoot DEF InstallSteps
    <3> QED BY <1>1, <2>1, <3>2, <3>3, LaidHere
  <2>2. ASSUME args.name \in {"deploy", "upgrade"}
        PROVE  /\ x \in {"install_web", "pin", "reload"} => host'.unit["web"] = Wanted(args)
               /\ x = "reload" => host'.loaded["web"] = Wanted(args)
    <3>1. Laid(args, x) /\ args.root
      BY <2>1, <2>2
    <3>2. CASE x = "install_web"
      <4>1. host' = [host EXCEPT !.unit["web"] = dest.quadlets["web"]]
        BY <1>2, <1>4, <3>2 DEF Pin, DaemonReload, InstallUnit, RemoveUnit, InstallOf, RemoveOf
      <4>2. host'.unit = [host.unit EXCEPT !["web"] = dest.quadlets["web"]]
        BY <1>2, <4>1
      <4> QED BY <1>2, <3>1, <3>2, <4>2 DEF Laid
    <3>3. CASE x = "pin"
      <4>1. host' = [host EXCEPT !.pinned = TRUE]
        BY <1>2, <3>3 DEF Pin, DaemonReload, InstallUnit, RemoveUnit, InstallOf, RemoveOf
      <4>2. host'.unit = host.unit
        BY <1>2, <4>1
      <4> QED BY <3>1, <3>3, <4>2 DEF Laid
    <3>4. CASE x = "reload"
      <4>1. host' = [host EXCEPT !.loaded = host.unit]
        BY <1>2, <3>4 DEF Pin, DaemonReload, InstallUnit, RemoveUnit, InstallOf, RemoveOf
      <4>2. host'.unit = host.unit /\ host'.loaded = host.unit
        BY <1>2, <4>1
      <4> QED BY <3>1, <3>4, <4>2 DEF Laid
    <3> QED BY <3>2, <3>3, <3>4
  <2>3. ASSUME args.name \in {"deploy", "upgrade"}
        PROVE  /\ dest'.compose = args.version /\ dest'.quadlets["web"] = Wanted(args)
               /\ args.name = "deploy" => Unserved'
    BY <1>1, <2>1, <2>3 DEF Laid, Unserved
  <2>4. x # "check" /\ home' = home /\ Advance
    BY <1>1, <1>4
  <2> QED BY <1>1, <2>2, <2>3, <2>4, LaidOnward
<1> QED BY <1>1, <1>3, <1>4

\* The stacks.
LEMMA StacksLay ==
  ASSUME DeployTypeOK, HostInv, StartInv,
         ComposeDown \/ StopServices \/ ComposeUp \/ StartServices
  PROVE  StartInv'
<1> SUFFICES ASSUME NEW args, args = cmd.args, NEW x, x = Head(cmd.todo) PROVE StartInv'
  OBVIOUS
<1> USE DEF At
<1>1. /\ ~Idle /\ UNCHANGED <<home, dest, host>>
      /\ Advance \/ Abort
      /\ x \in {"down", "stop", "up", "start", "restart"}
      /\ x \in {"down", "stop"} => UNCHANGED <<owner, spared>> \/ owner' = "none"
  BY DEF ComposeDown, StopServices, TakeDown, Stop, ComposeUp, StartServices, stackvars
<1>2. CASE Abort
  BY <1>2, AbortEnds, NothingLaid
<1>3. CASE Advance
  <2>1. ASSUME args.name \in {"deploy", "upgrade"}
        PROVE  /\ dest'.compose = args.version
               /\ args.root => dest'.quadlets["web"] = Wanted(args)
               /\ args.name = "deploy" /\ args.root => Unserved' \/ x \in Starting
    BY <1>1, <2>1, LaidHere DEF Laid, Starting, Unserved
  <2>2. x \notin {"check", "install_web", "pin", "reload"}
    BY <1>1
  <2> QED BY <1>1, <1>3, <2>1, <2>2, LaidOnward
<1> QED BY <1>1, <1>2, <1>3

\* A purge deletes.
LEMMA DeletingLays ==
  ASSUME DeployTypeOK, HostInv, StartInv, WipeData \/ RemoveDest
  PROVE  StartInv'
<1>1. ~Idle /\ Advance /\ Head(cmd.todo) \in {"wipe", "rmdir"} /\ home' = home
  BY DEF WipeData, RemoveDest, At
<1>2. cmd.args.name \notin {"deploy", "upgrade"}
  <2>1. Head(cmd.todo) \in Words(cmd.args)
    BY <1>1, Here DEF HostInv
  <2> QED BY <1>1, <2>1 DEF Words, EmitSteps, InstallSteps
<1>3. cmd'.args = cmd.args
  <2>1. cmd \in [args : Args, todo : Seq(Steps), end : {"none", "done", "failed"}]
    BY DEF DeployTypeOK
  <2> QED BY <1>1, <2>1 DEF Advance, Does
<1> QED BY <1>2, <1>3 DEF StartInv

(***************************************************************************)
(* Operators who keep to one user, one --data-dir, and upgrade for what     *)
(* runs.                                                                    *)
(***************************************************************************)
Careful == Habits = {}

LEMMA CommandLays ==
  ASSUME Careful, DeployTypeOK, NEW args \in Args, Command(args)
  PROVE  StartInv'
<1>1. /\ args.dir = home.dir /\ UNCHANGED <<home, host, owner, spared, dest>>
      /\ args.name = "deploy" /\ args.root => Unserved
      /\ cmd' = [args |-> args, todo |-> <<"check">>, end |-> "none"]
  BY DEF Command, Customary, Careful, Unserved, hostvars
<1>2. cmd'.args = args /\ cmd'.todo = <<"check">> /\ Head(<<"check">>) = "check"
  BY <1>1
<1>3. Head(cmd'.todo) = "check"
  BY <1>2
<1>4. Unserved' <=> Unserved
  BY <1>1 DEF Unserved
<1> QED BY <1>1, <1>2, <1>3, <1>4 DEF StartInv

\* A step to a plan, with nothing written yet.
LEMMA CheckLays ==
  ASSUME DeployTypeOK, HostInv, StartInv, Check
  PROVE  StartInv'
<1>1. /\ ~Idle /\ UNCHANGED <<home, host, owner, spared, dest>>
      /\ Abort \/ Does(Plan(cmd.args), "none")
  BY DEF Check, At, hostvars
<1>2. CASE Abort
  BY <1>2, AbortEnds, NothingLaid
<1>3. CASE Does(Plan(cmd.args), "none")
  <2> SUFFICES ASSUME NEW args, args = cmd.args, args.name \in {"deploy", "upgrade"} PROVE StartInv'
    <3>1. cmd'.args = cmd.args
      <4>1. cmd \in [args : Args, todo : Seq(Steps), end : {"none", "done", "failed"}]
        BY DEF DeployTypeOK
      <4> QED BY <1>3, <4>1 DEF Does
    <3> QED BY <3>1 DEF StartInv
  <2>1. args \in Args /\ args.root = home.root
    BY <1>1, Here DEF HostInv
  <2>2. StartsLast(args, Plan(args)) /\ Head(Plan(args)) = "compose.yml"
    BY <2>1, PlanStartsLast DEF HostInv, Owned
  <2>3. PICK s : s = Plan(args)
    OBVIOUS
  <2>4. cmd'.args = args /\ cmd'.todo = s
    <3>1. cmd \in [args : Args, todo : Seq(Steps), end : {"none", "done", "failed"}]
      BY DEF DeployTypeOK
    <3> QED BY <1>3, <2>3, <3>1 DEF Does
  <2>5. StartsLast(args, s)'
    BY <2>2, <2>3 DEF StartsLast, Starting
  <2>6. Laid(args, "compose.yml")'
    BY DEF Laid
  <2>7. /\ StartsLast(cmd.args, cmd.todo)' /\ Laid(cmd.args, Head(cmd.todo))'
    <3> SUFFICES ASSUME NEW a, a = cmd'.args, NEW t, t = cmd'.todo
                 PROVE  StartsLast(a, t)' /\ Laid(a, Head(t))'
      OBVIOUS
    <3>1. a = args /\ t = s /\ Head(t) = "compose.yml"
      BY <2>2, <2>3, <2>4
    <3> QED BY <2>5, <2>6, <3>1
  <2> QED BY <1>1, <2>4, <2>7 DEF StartInv, Unserved
<1> QED BY <1>1, <1>2, <1>3

\* Nothing that a command has done is undone behind its back, but by what ends it.
LEMMA OthersLay ==
  ASSUME DeployTypeOK, StartInv,
         Server \/ ByHand \/ Kill \/ ProgramFails \/ PurgeGoesOn \/ Reboot \/ Crash
  PROVE  StartInv'
<1>1. CASE Server \/ Crash
  <2>1. /\ UNCHANGED <<cmd, dest, host, home>>
        /\ UNCHANGED <<owner, spared>> \/ owner' = "none"
    BY <1>1 DEF Server, Crash, Stop, hostvars
  <2>2. Unserved => Unserved'
    BY <2>1 DEF Unserved
  <2> QED BY <2>1, <2>2 DEF StartInv, Idle, StartsLast, Laid
<1>2. CASE Abort
  BY <1>2, AbortEnds, NothingLaid
<1>3. CASE Idle /\ cmd' = cmd
  BY <1>3, NothingLaid DEF Idle
<1>4. CASE PurgeGoesOn
  <2>1. cmd'.args = cmd.args
    <3>1. cmd \in [args : Args, todo : Seq(Steps), end : {"none", "done", "failed"}]
      BY DEF DeployTypeOK
    <3> QED BY <1>4, <3>1 DEF PurgeGoesOn, Advance, Does
  <2> QED BY <1>4, <2>1 DEF PurgeGoesOn, StartInv
<1> QED BY <1>1, <1>2, <1>3, <1>4 DEF ByHand, Kill, ProgramFails, Reboot

LEMMA StartHolds == ASSUME Careful PROVE DeploySpec => []StartInv
<1>1. OneUser
  BY DEF Careful, OneUser
<1>2. DeployInit => StartInv
  BY DEF DeployInit, StartInv, Idle
<1>3. DeployTypeOK /\ HostInv /\ StartInv /\ [DeployNext]_vars => StartInv'
  <2> SUFFICES ASSUME DeployTypeOK, HostInv, StartInv, [DeployNext]_vars PROVE StartInv'
    OBVIOUS
  <2>1. CASE UNCHANGED vars
    BY <2>1 DEF vars, hostvars, StartInv, Idle, StartsLast, Laid, Unserved
  <2>2. CASE \E args \in Args : Command(args)
    BY <2>2, CommandLays
  <2>3. CASE Step
    BY <2>3, CheckLays, WritesLay, UnitsLay, StacksLay, DeletingLays DEF Step
  <2> QED BY <2>1, <2>2, <2>3, OthersLay DEF DeployNext
<1> QED BY <1>1, <1>2, <1>3, DeployTypeCorrect, HostHolds, PTL DEF DeploySpec

\* No step of the server loses it.
LEMMA LostServes == ASSUME DeployTypeOK, Server PROVE web'.pc # "lost"
<1>1. web \in Servers
  BY DEF DeployTypeOK, DbTypeOK
<1> QED BY <1>1 DEF Server, Serve, Probe, Rotate, Create, Mark, Save, Servers

\* Only a purge that could not stop a server deletes its directory.
LostIsSpared == web.pc = "lost" => spared

LEMMA LostHolds == ASSUME OneUser PROVE DeploySpec => []LostIsSpared
<1>1. DeployInit => LostIsSpared
  BY SomeServer DEF DeployInit, DbInit, LostIsSpared
<1>2. DeployTypeOK /\ HostInv /\ LostIsSpared /\ [DeployNext]_vars => LostIsSpared'
  <2> SUFFICES ASSUME DeployTypeOK, HostInv, LostIsSpared, [DeployNext]_vars PROVE LostIsSpared'
    OBVIOUS
  <2>1. Down.pc # "lost" /\ \A v, d : Booted(v, d).pc # "lost"
    BY SomeServer DEF Booted
  <2>2. CASE WipeData \/ RemoveDest
    <3>1. ~Idle /\ Head(cmd.todo) \in {"wipe", "rmdir"} /\ spared' = spared /\ \E gone : Forget(gone)
      BY <2>2 DEF WipeData, RemoveDest, At
    <3>2. Head(cmd.todo) \in Words(cmd.args) /\ Ready(cmd.args, Head(cmd.todo))
      BY <3>1, Here DEF HostInv
    <3>3. cmd.args.name = "purge"
      BY <3>1, <3>2 DEF Words, EmitSteps, InstallSteps
    <3>4. owner = "none" \/ spared
      BY <3>1, <3>2, <3>3 DEF Ready
    <3>5. web.pc = "down" => web' = web
      BY <3>1 DEF Forget
    <3> QED BY <3>1, <3>4, <3>5 DEF LostIsSpared, DeployTypeOK
  <2>3. CASE Server
    <3>1. web'.pc # "lost"
      BY <2>3, LostServes
    <3> QED BY <3>1 DEF LostIsSpared
  <2>4. CASE \/ WriteCompose \/ WriteQuadlets \/ WriteEnvvars \/ WriteToml \/ KeepToml
             \/ PrepareDirs \/ Pull \/ Pin \/ DaemonReload \/ Check
             \/ (\E args \in Args : Command(args)) \/ UNCHANGED vars
             \/ \E unit \in Units : InstallUnit(unit) \/ RemoveUnit(unit)
    <3>1. UNCHANGED <<web, spared>>
      BY <2>4 DEF WriteCompose, WriteQuadlets, WriteEnvvars, WriteToml, Write, KeepToml,
                  PrepareDirs, Pull, Pin, DaemonReload, InstallUnit, RemoveUnit, Check, Command,
                  vars, hostvars, dbvars
    <3> QED BY <3>1 DEF LostIsSpared
  <2>5. CASE \/ ComposeDown \/ StopServices \/ ComposeUp \/ StartServices
             \/ ByHand \/ Kill \/ ProgramFails \/ Reboot \/ Crash
    <3>1. UNCHANGED <<web, spared>> \/ web' = Down \/ \E v, d : web' = Booted(v, d)
      BY <2>5 DEF ComposeDown, StopServices, TakeDown, ComposeUp, BringUp, StartServices, ByHand,
                  Kill, ProgramFails, Reboot, Crash, Stop, Boot, stackvars, hostvars, dbvars
    <3> QED BY <2>1, <3>1 DEF LostIsSpared
  <2>6. CASE PurgeGoesOn
    <3>1. web' = web /\ (spared => spared')
      BY <2>6 DEF PurgeGoesOn, dbvars
    <3> QED BY <3>1 DEF LostIsSpared
  <2> QED BY <2>2, <2>3, <2>4, <2>5, <2>6 DEF DeployNext, Step
<1> QED BY <1>1, <1>2, DeployTypeCorrect, HostHolds, PTL DEF DeploySpec

LEMMA OneLeft ==
  ASSUME NEW s \in Seq(Steps), s # <<>>, Tail(s) = <<>>
  PROVE  Len(s) = 1 /\ Head(s) = s[1]
<1>1. Len(Tail(s)) = Len(s) - 1 /\ Len(s) \in Nat
  OBVIOUS
<1>2. ASSUME NEW t, t = <<>> PROVE Len(t) = 0
  BY <1>2
<1>3. Len(Tail(s)) = 0
  BY <1>2
<1>4. ASSUME NEW n \in Nat, n - 1 = 0 PROVE n = 1
  BY <1>4
<1>5. Len(s) = 1
  BY <1>1, <1>3, <1>4
<1>6. Head(s) = s[1]
  OBVIOUS
<1> QED BY <1>5, <1>6

\* A deploy or an upgrade succeeds at a step that starts the stack.
LEMMA SuccessIsStart ==
  ASSUME DeployTypeOK, HostInv, StartInv, DeployNext, cmd'.end = "done", cmd.end # "done",
         cmd'.args.name \in {"deploy", "upgrade"}
  PROVE  /\ ComposeUp \/ StartServices
         /\ Advance /\ cmd'.args = cmd.args /\ cmd.args.name \in {"deploy", "upgrade"}
         /\ Head(cmd.todo) # "check" /\ Head(cmd.todo) = cmd.todo[Len(cmd.todo)]
         /\ Head(cmd.todo) = "start" => cmd.args.name = "deploy"
<1>1. cmd \in [args : Args, todo : Seq(Steps), end : {"none", "done", "failed"}]
  BY DEF DeployTypeOK
<1>2. ~Abort /\ ~Does(Plan(cmd.args), "none") /\ cmd' # cmd
  BY <1>1 DEF Abort, Does
<1>3. \A args \in Args : ~Command(args)
  BY DEF Command
<1>4. ~PurgeGoesOn /\ Step
  <2>1. ~PurgeGoesOn
    BY <1>1 DEF PurgeGoesOn, Advance, Does
  <2> QED BY <1>2, <1>3, <2>1 DEF DeployNext, Server, ByHand, Kill, ProgramFails, Reboot, Crash
<1>5. ~Check
  BY <1>2 DEF Check
<1>6. /\ ~Idle /\ Advance /\ Head(cmd.todo) # "check"
      /\ Head(cmd.todo) \in Starting => ComposeUp \/ StartServices
  BY <1>2, <1>4, <1>5
     DEF Step, WriteCompose, WriteQuadlets, WriteEnvvars, WriteToml, Write, KeepToml, PrepareDirs,
         Pull, ComposeDown, StopServices, TakeDown, ComposeUp, StartServices, InstallUnit,
         RemoveUnit, InstallOf, RemoveOf, Pin, DaemonReload, WipeData, RemoveDest, At, Starting
<1>7. cmd'.args = cmd.args /\ Tail(cmd.todo) = <<>>
  BY <1>1, <1>6 DEF Advance, Does
<1>8. Len(cmd.todo) = 1 /\ Head(cmd.todo) = cmd.todo[1]
  <2>1. cmd.todo \in Seq(Steps) /\ cmd.todo # <<>>
    BY <1>1, <1>6 DEF Idle
  <2> QED BY <1>7, <2>1, OneLeft
<1>9. StartsLast(cmd.args, cmd.todo)
  BY <1>6, <1>7, LaidHere
<1>10. /\ Head(cmd.todo) \in Starting
       /\ Head(cmd.todo) = "start" => cmd.args.name = "deploy"
  BY <1>8, <1>9 DEF StartsLast
<1> QED BY <1>6, <1>7, <1>8, <1>10

LEMMA SuccessIsRunning ==
  ASSUME DeployTypeOK, HostInv, StartInv, LostIsSpared, DeployNext,
         cmd'.end = "done", cmd.end # "done", cmd'.args.name \in {"deploy", "upgrade"}, ~spared'
  PROVE  /\ web'.pc \notin {"down", "lost"} /\ web'.version = cmd.args.version
         /\ owner' = "systemd" => web'.dir = home.dir
         /\ cmd.args.name = "deploy" => owner' = IF cmd.args.root THEN "systemd" ELSE "user"
<1> SUFFICES ASSUME NEW args, args = cmd.args, NEW x, x = Head(cmd.todo)
             PROVE  /\ web'.pc \notin {"down", "lost"} /\ web'.version = args.version
                    /\ owner' = "systemd" => web'.dir = home.dir
                    /\ args.name = "deploy" => owner' = IF args.root THEN "systemd" ELSE "user"
  OBVIOUS
<1>1. /\ ComposeUp \/ StartServices
      /\ Advance /\ ~Idle /\ args.name \in {"deploy", "upgrade"} /\ x # "check"
      /\ x = "start" => args.name = "deploy"
  BY SuccessIsStart DEF ComposeUp, StartServices, At
<1>2. ~Abort
  <2>1. cmd \in [args : Args, todo : Seq(Steps), end : {"none", "done", "failed"}]
    BY DEF DeployTypeOK
  <2> QED BY <2>1 DEF Abort, Does
<1>3. /\ Laid(args, x) /\ args.dir = home.dir
      /\ args.name = "deploy" /\ args.root => Unserved
  BY <1>1, LaidHere
<1>4. args \in Args /\ x \in Words(args)
  BY <1>1, Here DEF HostInv
<1>5. CASE ComposeUp
  <2>1. x = "up" /\ BringUp(Me) /\ dest.compose # 0
    BY <1>2, <1>5 DEF ComposeUp, CanCompose, At
  <2>2. dest.compose = args.version /\ args.version \in Versions /\ Default \in Dirs
    BY <1>3, <1>4, <2>1, DeployAssumption DEF Laid, Args
  <2>3. args.name = "deploy" => ~args.root
    BY <1>4, <2>1 DEF Words, EmitSteps, InstallSteps
  <2>4. owner' = Me /\ web'.version = args.version /\ web'.pc \notin {"down", "lost"}
    <3>1. CASE owner = Me /\ web.version = dest.compose /\ UNCHANGED stackvars
      BY <2>2, <3>1, MeTyped DEF DeployTypeOK, LostIsSpared, stackvars
    <3>2. CASE Boot(Me, Composed)
      <4>1. owner' = Me /\ web' = Booted(args.version, Default)
        BY <2>2, <3>2 DEF Boot, Composed
      <4> QED BY <2>2, <4>1, SomeServer
    <3> QED BY <2>1, <3>1, <3>2 DEF BringUp
  <2> QED BY <2>3, <2>4 DEF Me
<1>6. CASE StartServices
  <2>1. /\ x \in {"start", "restart"} /\ owner \in {"none", "systemd"}
        /\ IF Boots THEN Boot("systemd", host.loaded["web"]) ELSE UNCHANGED stackvars
    BY <1>2, <1>6 DEF StartServices, At
  <2>2. host.loaded["web"] = Wanted(args) /\ args.version \in Versions /\ args.dir \in Dirs
    BY <1>3, <1>4, <2>1 DEF Laid, Args
  <2>3. args.name = "deploy" => args.root
    BY <1>4, <2>1 DEF Words, EmitSteps, InstallSteps
  <2>4. Boots
    <3>1. CASE x = "start"
      <4>1. owner = "none" \/ spared
        BY <1>1, <1>3, <2>1, <2>3, <3>1 DEF Unserved
      <4>2. ~Boots => spared' = spared
        BY <2>1 DEF stackvars
      <4> QED BY <4>1, <4>2 DEF Boots
    <3>2. CASE x = "restart"
      BY <1>1, <3>2 DEF Boots, At
    <3> QED BY <2>1, <3>1, <3>2
  <2>5. owner' = "systemd" /\ web' = Booted(args.version, args.dir)
    BY <2>1, <2>2, <2>4 DEF Boot, Wanted
  <2> QED BY <1>3, <2>2, <2>3, <2>5, SomeServer
<1> QED BY <1>1, <1>5, <1>6

\* Operators of one user, with one --data-dir, who upgrade what runs, get what they
\* asked for when they are told so, also after faults, reboots and commands that were
\* cut off, for any number of versions and directories; but not over a stack that
\* a purge has failed to stop (deploy_main, upgrade_main).
THEOREM SuccessRunsHolds == ASSUME Careful PROVE DeploySpec => SuccessRuns
<1>1. OneUser
  BY DEF Careful, OneUser
<1>2. DeployTypeOK /\ HostInv /\ StartInv /\ LostIsSpared /\ [DeployNext]_vars =>
        [cmd'.end = "done" /\ cmd.end = "none" /\ cmd'.args.name \in {"deploy", "upgrade"}
         /\ ~spared' =>
           /\ web'.pc \notin {"down", "lost"} /\ web'.version = cmd.args.version
           /\ owner' = "systemd" => web'.dir = home.dir
           /\ cmd.args.name = "deploy" => owner' = IF cmd.args.root THEN "systemd" ELSE "user"]_vars
  BY SuccessIsRunning
<1> QED BY <1>1, <1>2, DeployTypeCorrect, HostHolds, StartHolds, LostHolds, PTL DEF DeploySpec, SuccessRuns
=============================================================================
