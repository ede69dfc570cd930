-------------------------------- MODULE Deploy --------------------------------
(***************************************************************************)
(* bty-lab on one host: init, deploy, upgrade and purge, one at a time, as   *)
(* steps that can be refused, fail or be cut off; the deploy directory, the *)
(* units of systemd, the stack that runs, and the server in it (StateDb).   *)
(*                                                                          *)
(* A stack is one set of containers on fixed ports, so that only one runs:  *)
(* one that systemd has started from the units, or a compose stack of root  *)
(* or of the user, which does not survive a reboot.  Root's podman does not *)
(* see the containers of a user.  compose.yml has its data in ./data, here  *)
(* Default; the units have the directory that was given with --data-dir.    *)
(***************************************************************************)
EXTENDS StateDb, Sequences

CONSTANTS
  Default,
  Habits,       \* what the operators do beside keeping to one user, one --data-dir
                \* and upgrade for what runs: "mixed", "forget", "redeploy"
  Environment,  \* faults: "kill" a command is cut off, "fail" a program fails,
                \* "reboot" the host restarts, "crash" the server dies
  MaxFaults, MaxRuns   \* bounds on the faults and the commands of a behaviour

ASSUME DeployAssumption ==
  /\ Default \in Dirs
  /\ Habits \subseteq {"mixed", "forget", "redeploy"}
  /\ Environment \subseteq {"kill", "fail", "reboot", "crash"}
  /\ MaxFaults \in Nat /\ MaxRuns \in Nat

VARIABLES
  cmd,      \* the command, its arguments and what it still has to do
  dest,     \* the deploy directory
  host,     \* installed units, what systemd has read of them, the firewall drop-in
  owner,    \* who runs the stack
  spared,   \* a purge went on although it could not stop what still runs
  dirs,     \* the data directories that are there
  home,     \* the operator: root or not, the --data-dir in use; whether there is nft
  faults, runs

hostvars == <<dest, host, owner, spared, dirs>>
vars == <<dbvars, cmd, hostvars, home, faults, runs>>

\* Two units stand for four, in the order in which they are installed.
Units == {"tftp", "web"}
Specs == [version : Versions, dir : Dirs]
None == [version |-> 0, dir |-> Default]
NoUnits == [u \in Units |-> None]
Owners == {"none", "user", "root", "systemd"}

Args == [name : {"init", "deploy", "upgrade", "purge"}, root : BOOLEAN, force : BOOLEAN,
         version : Versions, dir : Dirs, data : BOOLEAN, all : BOOLEAN]

\* Arguments that a command does not have are left at their defaults; --all
\* includes --data.
Sensible(args) ==
  /\ args.force => args.name \in {"init", "deploy"}
  /\ (args.data => args.name = "purge") /\ (args.all => args.data)
  /\ args.name = "purge" => args.version = CHOOSE v \in Versions : TRUE

Steps == {"check", "compose.yml", "quadlets", "envvars", "toml", "kept", "prepare", "pull",
          "down", "install_tftp", "install_web", "pin", "reload", "start", "restart", "up",
          "stop", "remove_web", "remove_tftp", "unpin", "wipe", "rmdir"}

DeployTypeOK ==
  /\ DbTypeOK
  /\ cmd \in [args : Args, todo : Seq(Steps), end : {"none", "done", "failed"}]
  /\ dest \in [compose : Versions \cup {0}, quadlets : [Units -> Specs \cup {None}],
               envvars : BOOLEAN, toml : BOOLEAN]
  /\ host \in [unit : [Units -> Specs \cup {None}], loaded : [Units -> Specs \cup {None}],
               pinned : BOOLEAN]
  /\ owner \in Owners /\ (owner = "none" <=> web.pc = "down") /\ spared \in BOOLEAN
  /\ dirs \subseteq Dirs /\ home \in [root : BOOLEAN, dir : Dirs, nft : BOOLEAN]

Fault(kind) == kind \in Environment /\ faults < MaxFaults /\ faults' = faults + 1

(***************************************************************************)
(* The commands.                                                            *)
(***************************************************************************)
\* Any of the units is installed.
Managed == \E u \in Units : host.unit[u] # None

Emit(args) == <<"compose.yml">> \o (IF args.root THEN <<"quadlets">> ELSE <<>>)
Install == <<"install_tftp", "install_web", "pin", "reload">>

\* What a command does once it has looked at what there is.
Plan(args) ==
  CASE args.name = "init" -> <<"compose.yml", "prepare">>
    [] args.name = "deploy" ->
         Emit(args) \o <<"envvars", "toml", "prepare", "pull">>
         \o (IF args.root THEN <<"down">> \o Install \o <<"start">> ELSE <<"up">>)
    [] args.name = "upgrade" ->
         Emit(args) \o <<"kept", "prepare", "pull">>
         \o (IF Managed THEN Install \o <<"restart">> ELSE <<"up">>)
    [] args.name = "purge" ->
         (IF Managed THEN <<"stop", "remove_web", "remove_tftp", "unpin", "reload">> ELSE <<"down">>)
         \o (IF args.data THEN <<"wipe">> ELSE <<>>)
         \o (IF args.all THEN <<"rmdir">> ELSE <<>>)

\* The refusals that come before anything is changed.
Refused(args) ==
  CASE args.name = "upgrade" ->
         dest.compose = 0 \/ ~dest.envvars \/ (Managed /\ ~args.root)
    [] args.name = "purge" -> (dest.compose = 0 /\ ~Managed) \/ (Managed /\ ~args.root)
    [] OTHER -> FALSE

Idle == cmd.todo = <<>>
At(step) == ~Idle /\ Head(cmd.todo) = step
Does(todo, end) == cmd' = [cmd EXCEPT !.todo = todo, !.end = end]
Advance == LET rest == Tail(cmd.todo) IN Does(rest, IF rest = <<>> THEN "done" ELSE "none")
Abort == Does(<<>>, "failed")

\* What the operators hold to, as far as they do; one does not know what a purge
\* has spared.
Customary(args) ==
  /\ args.root = home.root \/ "mixed" \in Habits
  /\ args.dir = home.dir \/ "forget" \in Habits
  /\ args.name = "deploy" /\ args.root /\ owner = "systemd" /\ ~spared => "redeploy" \in Habits

Command(args) ==
  /\ Idle /\ runs < MaxRuns /\ Sensible(args) /\ Customary(args)
  /\ cmd' = [args |-> args, todo |-> <<"check">>, end |-> "none"]
  /\ runs' = runs + 1
  /\ UNCHANGED <<dbvars, hostvars, home, faults>>

\* _require_prereqs and the guards before the first step; purge is confirmed.
Check ==
  /\ At("check")
  /\ IF Refused(cmd.args) THEN Abort ELSE Does(Plan(cmd.args), "none")
  /\ UNCHANGED <<dbvars, hostvars, home, faults, runs>>

Forced == cmd.args.force \/ cmd.args.name = "upgrade"

\* Writes dest.field, or refuses because it is there.
Write(step, new, there) ==
  /\ At(step)
  /\ IF there /\ ~Forced THEN Abort /\ UNCHANGED dest ELSE Advance /\ dest' = new
  /\ UNCHANGED <<dbvars, host, owner, spared, dirs, home, faults, runs>>

Given == [version |-> cmd.args.version, dir |-> cmd.args.dir]

WriteCompose ==
  Write("compose.yml", [dest EXCEPT !.compose = cmd.args.version], dest.compose # 0)
WriteQuadlets ==
  Write("quadlets", [dest EXCEPT !.quadlets = [u \in Units |-> Given]], dest.quadlets # NoUnits)
WriteEnvvars == Write("envvars", [dest EXCEPT !.envvars = TRUE], dest.envvars)
WriteToml == Write("toml", [dest EXCEPT !.toml = TRUE], dest.toml)

\* An upgrade wants bty.toml, by now with the new files beside it.
KeepToml ==
  /\ At("kept")
  /\ IF dest.toml THEN Advance ELSE Abort
  /\ UNCHANGED <<dbvars, hostvars, home, faults, runs>>

PrepareDirs ==
  /\ At("prepare")
  /\ Advance
  /\ dirs' = dirs \cup {cmd.args.dir}
  /\ UNCHANGED <<dbvars, dest, host, owner, spared, home, faults, runs>>

Pull ==
  /\ At("pull")
  /\ Advance
  /\ UNCHANGED <<dbvars, hostvars, home, faults, runs>>

(***************************************************************************)
(* Stacks.                                                                  *)
(***************************************************************************)
Me == IF cmd.args.root THEN "root" ELSE "user"

\* Mutant: the server goes on under no owner.
StopNot == owner' = "none" /\ UNCHANGED <<web, spared>>

stackvars == <<owner, web, spared>>
Stop == owner' = "none" /\ web' = Down /\ spared' = FALSE
Boot(who, spec) == owner' = who /\ web' = Booted(spec.version, spec.dir) /\ spared' = FALSE

\* That nothing runs is no failure of a stop.
TakeDown(step, who) ==
  /\ At(step)
  /\ Advance
  /\ IF owner = who THEN Stop ELSE UNCHANGED stackvars
  /\ UNCHANGED <<db, archive, acked, dest, host, dirs, home, faults, runs>>

ComposeDown == TakeDown("down", Me)

\* Mutant: purge stops what compose runs, whoever manages the stack.
StopCompose == TakeDown("stop", "root")

StopServices == TakeDown("stop", "systemd")

\* Podman mounts what is there, and its firewall backend has to be there too.
Startable(who, spec) ==
  /\ spec # None /\ spec.dir \in dirs /\ dest.toml
  /\ who = "user" \/ home.nft \/ host.pinned

\* compose up -d: the containers are made again when compose.yml has changed.
Composed == [version |-> dest.compose, dir |-> Default]

CanCompose(who) ==
  /\ owner \in {"none", who}
  /\ dest.compose # 0 /\ dest.envvars
  /\ Startable(who, Composed)

BringUp(who) ==
  IF owner = who /\ web.version = dest.compose THEN UNCHANGED stackvars
  ELSE Boot(who, Composed)

ComposeUp ==
  /\ At("up")
  /\ IF CanCompose(Me) THEN Advance /\ BringUp(Me) ELSE Abort /\ UNCHANGED stackvars
  /\ UNCHANGED <<db, archive, acked, dest, host, dirs, home, faults, runs>>

\* Mutant: --force does not reach the units.
NeverOver(unit) == host.unit[unit] = None

InstallOf(unit) == IF unit = "tftp" THEN "install_tftp" ELSE "install_web"
RemoveOf(unit) == IF unit = "tftp" THEN "remove_tftp" ELSE "remove_web"

\* A unit is copied over one that is there only when told to.
MayInstall(unit) == host.unit[unit] = None \/ Forced

InstallUnit(unit) ==
  /\ At(InstallOf(unit))
  /\ IF MayInstall(unit)
     THEN Advance /\ host' = [host EXCEPT !.unit[unit] = dest.quadlets[unit]]
     ELSE Abort /\ UNCHANGED host
  /\ UNCHANGED <<dbvars, dest, owner, spared, dirs, home, faults, runs>>

RemoveUnit(unit) ==
  /\ At(RemoveOf(unit))
  /\ Advance
  /\ host' = [host EXCEPT !.unit[unit] = None]
  /\ UNCHANGED <<dbvars, dest, owner, spared, dirs, home, faults, runs>>

\* The netavark drop-in, without which no rootful container starts on some hosts.
Pin ==
  /\ At("pin") \/ At("unpin")
  /\ Advance
  /\ host' = [host EXCEPT !.pinned = At("pin")]
  /\ UNCHANGED <<dbvars, dest, owner, spared, dirs, home, faults, runs>>

DaemonReload ==
  /\ At("reload")
  /\ Advance
  /\ host' = [host EXCEPT !.loaded = host.unit]
  /\ UNCHANGED <<dbvars, dest, owner, spared, dirs, home, faults, runs>>

\* Mutant: an upgrade starts its services instead of restarting them.
BootsIfDown == owner = "none"

\* start leaves alone what runs, restart does not.
Boots == owner = "none" \/ At("restart")

StartServices ==
  /\ At("start") \/ At("restart")
  /\ IF /\ owner \in {"none", "systemd"}
        /\ \A u \in Units : host.loaded[u] # None
        /\ Startable("systemd", host.loaded["web"])
     THEN Advance /\ IF Boots THEN Boot("systemd", host.loaded["web"]) ELSE UNCHANGED stackvars
     ELSE Abort /\ UNCHANGED stackvars
  /\ UNCHANGED <<db, archive, acked, dest, host, dirs, home, faults, runs>>

(***************************************************************************)
(* Deleting.                                                                *)
(***************************************************************************)
\* A server that works on what is deleted goes on without it.
Forget(gone) ==
  /\ dirs' = dirs \ gone
  /\ web' = IF web.pc # "down" /\ web.dir \in gone THEN [web EXCEPT !.pc = "lost"] ELSE web
  /\ db' = [d \in Dirs |-> IF d \in gone THEN NoFile ELSE db[d]]
  /\ archive' = [d \in Dirs |-> IF d \in gone THEN [n \in Names |-> NoFile] ELSE archive[d]]
  /\ acked' = acked \ UNION {Kept(d) : d \in gone}

WipeData ==
  /\ At("wipe")
  /\ Advance
  /\ Forget({cmd.args.dir})
  /\ UNCHANGED <<dest, host, owner, spared, home, faults, runs>>

NoDest == [compose |-> 0, quadlets |-> NoUnits, envvars |-> FALSE, toml |-> FALSE]

\* The deploy directory, with its own data/.
RemoveDest ==
  /\ At("rmdir")
  /\ Advance
  /\ dest' = NoDest
  /\ Forget({Default})
  /\ UNCHANGED <<host, owner, spared, home, faults, runs>>

(***************************************************************************)
(* What else happens to the host.                                           *)
(***************************************************************************)
\* cp envvars.example envvars, podman compose up: the way init and a reboot leave.
ByHand ==
  /\ Idle /\ (Managed => "mixed" \in Habits)
  /\ LET who == IF home.root THEN "root" ELSE "user"
     IN  CanCompose(who) /\ BringUp(who)
  /\ UNCHANGED <<db, archive, acked, cmd, dest, host, dirs, home, faults, runs>>

\* Ctrl+C, or the terminal is closed.
Kill ==
  /\ ~Idle /\ Fault("kill")
  /\ Abort
  /\ UNCHANGED <<dbvars, hostvars, home, runs>>

\* A program exits non-zero, which ends every command but a purge; the stack that
\* was to be replaced may be gone by then.
ProgramFails ==
  /\ Fault("fail")
  /\ cmd.args.name # "purge"
  /\ \E step \in {"pull", "down", "reload", "start", "restart", "up"} : At(step)
  /\ Abort
  /\ \/ UNCHANGED stackvars
     \/ owner = (IF At("up") THEN Me ELSE "systemd") /\ (At("up") \/ At("restart")) /\ Stop
  /\ UNCHANGED <<db, archive, acked, dest, host, dirs, home, runs>>

\* A purge ignores what fails: it goes on, and removes and deletes the rest, also
\* when the stack was not stopped (check=False, ignore_errors).
PurgeGoesOn ==
  /\ Fault("fail")
  /\ cmd.args.name = "purge"
  /\ \E step \in {"stop", "down", "reload", "wipe", "rmdir"} : At(step)
  /\ Advance
  /\ spared' = (spared \/ (At("stop") /\ owner = "systemd") \/ (At("down") /\ owner = Me))
  /\ UNCHANGED <<dbvars, dest, host, owner, dirs, home, runs>>

\* systemd starts what is installed.
Reboot ==
  /\ Fault("reboot")
  /\ IF Idle THEN UNCHANGED cmd ELSE Abort
  /\ host' = [host EXCEPT !.loaded = host.unit]
  /\ IF Startable("systemd", host.unit["web"]) THEN Boot("systemd", host.unit["web"]) ELSE Stop
  /\ UNCHANGED <<db, archive, acked, dest, dirs, home, runs>>

\* The server dies; its container is started again as it was, or by systemd as the
\* units are that it has read, when what it mounts is still there.
Crash ==
  /\ Fault("crash")
  /\ web.pc # "down"
  /\ LET spec == IF owner = "systemd" THEN host.loaded["web"]
                 ELSE [version |-> web.version, dir |-> web.dir]
     IN  IF Startable(owner, spec)
         THEN web' = Booted(spec.version, spec.dir) /\ UNCHANGED <<owner, spared>>
         ELSE Stop
  /\ UNCHANGED <<db, archive, acked, cmd, dest, host, dirs, home, runs>>

(***************************************************************************)
(* The specification.                                                       *)
(***************************************************************************)
NoCommand == CHOOSE args \in Args : Sensible(args)

DeployInit ==
  /\ cmd = [args |-> NoCommand, todo |-> <<>>, end |-> "none"]
  /\ dest = NoDest
  /\ host = [unit |-> NoUnits, loaded |-> NoUnits, pinned |-> FALSE]
  /\ home \in [root : BOOLEAN, dir : Dirs, nft : BOOLEAN]
  /\ DbInit(home.dir)
  /\ owner = "none" /\ spared = FALSE /\ dirs = {d \in Dirs : db[d] # NoFile}
  \* Without root --data-dir is of no use (see ComposeUp), and nft no matter.
  /\ home.root \/ (home.dir = Default /\ home.nft)
  /\ faults = 0 /\ runs = 0

Step ==
  \/ Check \/ WriteCompose \/ WriteQuadlets \/ WriteEnvvars \/ WriteToml \/ KeepToml
  \/ PrepareDirs \/ Pull
  \/ ComposeDown \/ StopServices \/ ComposeUp \/ StartServices
  \/ \E unit \in Units : InstallUnit(unit) \/ RemoveUnit(unit)
  \/ Pin \/ DaemonReload \/ WipeData \/ RemoveDest

Server == Serve /\ UNCHANGED <<cmd, hostvars, home, faults, runs>>

DeployNext ==
  \/ \E args \in Args : Command(args)
  \/ Step
  \/ Server
  \/ ByHand
  \/ Kill \/ ProgramFails \/ PurgeGoesOn \/ Reboot \/ Crash

DeploySpec == DeployInit /\ [][DeployNext]_vars

\* A command that has begun goes on.
DeployFairSpec == DeploySpec /\ WF_vars(Step)

(***************************************************************************)
(* Properties.                                                              *)
(***************************************************************************)
\* A deploy or an upgrade that reports success has its own version running, on
\* the data that is in use, from systemd when it has been told to be a system
\* install: also after commands that were cut off at any step, faults and reboots
\* ("moves the image-tag pin forward, preserves data/, restarts the stack").  For
\* operators without the habits above, and not over what a purge could not stop:
\* that goes on running, and start and compose up leave it as it is.
SuccessRuns ==
  [][cmd'.end = "done" /\ cmd.end = "none" /\ cmd'.args.name \in {"deploy", "upgrade"} /\ ~spared' =>
       /\ web'.pc \notin {"down", "lost"} /\ web'.version = cmd.args.version
       /\ owner' = "systemd" => web'.dir = home.dir
       /\ cmd.args.name = "deploy" => owner' = IF cmd.args.root THEN "systemd" ELSE "user"]_vars

\* Whatever runs, purge still finds it: no sequence of commands, each of them cut
\* off at any step, leaves containers that purge calls "nothing to purge", but for
\* those that a purge itself has failed to stop and left behind.
PurgeFindsIt ==
  ~spared =>
    /\ owner = "systemd" => Managed
    /\ owner \in {"root", "user"} => dest.compose # 0

\* However many commands were cut off before, deploy --force puts the stack up
\* once nothing fails any more ("-f: overwrite existing").
ForcedDeployWorks ==
  cmd.args.name = "deploy" /\ cmd.args.force /\ ~Idle /\ faults = MaxFaults ~> cmd.end = "done"
=============================================================================
