-------------------------------- MODULE StateDb --------------------------------
(***************************************************************************)
(* state.db and the server that opens it: a database that another version   *)
(* has made, or one without a version, is renamed and a new one is made.    *)
(*                                                                          *)
(* One server runs at a time.  It can end between any two steps, and the    *)
(* next one may be of another version or work on another directory.  The    *)
(* sidecars of a database hold nothing once the probe has read it, so that  *)
(* removing them is no step of its own.                                     *)
(***************************************************************************)
EXTENDS Naturals

CONSTANTS
  Versions,     \* bty.__version__
  Dirs,         \* the directories state.db may be in
  Saves,        \* what the server is asked to keep
  Brought,      \* the saves of a database that comes from another host
  MaxArchives   \* bound on the archived databases of one name

ASSUME StateDbAssumption ==
  /\ Versions \subseteq Nat \ {0} /\ Versions # {}
  /\ Brought \subseteq Saves /\ MaxArchives \in Nat

VARIABLES
  db,        \* db[d]: state.db in d, or NoFile
  archive,   \* archive[d]: the .bak files in d, by name
  web,       \* the server: where it is, its version, its directory, what it rotates
  acked      \* the saves that were answered and that nobody has asked to delete

dbvars == <<db, archive, web, acked>>

\* No marker: the tables are there and no version.
NoMarker == 0
\* Tables are those of a version, or 0.
NoFile == [tables |-> 0, marker |-> NoMarker, saves |-> {}]
Databases ==
  [tables : Versions \cup {0}, marker : Versions \cup {NoMarker}, saves : SUBSET Saves]

\* state.db.<from>.<ts>.bak with a counter: all rotations in one second; "from"
\* is NoMarker for a database of before versions.
Names == (Versions \cup {NoMarker}) \X (0..MaxArchives)

\* "lost": its directory was deleted under it, and it answers nothing.
Servers == [pc : {"down", "probe", "rotate", "create", "mark", "up", "lost"},
            version : Versions, dir : Dirs, from : Versions \cup {NoMarker}]

DbTypeOK ==
  /\ db \in [Dirs -> Databases]
  /\ archive \in [Dirs -> [Names -> Databases]]
  /\ web \in Servers
  /\ acked \subseteq Saves

Booted(version, dir) ==
  [pc |-> "probe", version |-> version, dir |-> dir, from |-> NoMarker]

Down == [Booted(CHOOSE v \in Versions : TRUE, CHOOSE d \in Dirs : TRUE) EXCEPT !.pc = "down"]

Current == db[web.dir]

\* Mutant: a database without a version is taken for a new one.
OnlyMarked == Current.tables # 0 /\ Current.marker \notin {NoMarker, web.version}

\* A database that has to go: data and no version, or another version.
Stale == Current.tables # 0 /\ Current.marker # web.version

Probe ==
  /\ web.pc = "probe"
  /\ web' = IF Stale THEN [web EXCEPT !.pc = "rotate", !.from = Current.marker]
            ELSE [web EXCEPT !.pc = "create"]
  /\ UNCHANGED <<db, archive, acked>>

\* Mutant: the name is not looked up first.
FirstName == <<web.from, 0>>

Taken(n) == archive[web.dir][<<web.from, n>>] # NoFile

\* _bak_path with the counter of _rotate_to_bak: the first name that no file has.
Target ==
  <<web.from, CHOOSE n \in 0..MaxArchives : ~Taken(n) /\ \A m \in 0..MaxArchives : m < n => Taken(m)>>

Rotate ==
  /\ web.pc = "rotate"
  /\ ~Taken(MaxArchives)   \* bound
  /\ archive' = [archive EXCEPT ![web.dir][Target] = Current]
  /\ db' = [db EXCEPT ![web.dir] = NoFile]
  /\ web' = [web EXCEPT !.pc = "create"]
  /\ UNCHANGED acked

\* executescript commits the tables, where there are none, before there is a marker.
Create ==
  /\ web.pc = "create"
  /\ db' = [db EXCEPT ![web.dir].tables = IF @ = 0 THEN web.version ELSE @]
  /\ web' = [web EXCEPT !.pc = "mark"]
  /\ UNCHANGED <<archive, acked>>

\* The marker of a new database, with the event of its rotation, is one
\* transaction.
Mark ==
  /\ web.pc = "mark"
  /\ db' = [db EXCEPT ![web.dir].marker = IF @ = NoMarker THEN web.version ELSE @]
  /\ web' = [web EXCEPT !.pc = "up", !.from = NoMarker]
  /\ UNCHANGED <<archive, acked>>

\* A handler commits and answers; open_db finds its own version again.
Save(s) ==
  /\ web.pc = "up" /\ s \notin acked
  /\ db' = [db EXCEPT ![web.dir].saves = @ \cup {s}]
  /\ acked' = acked \cup {s}
  /\ UNCHANGED <<archive, web>>

\* Nothing anywhere, or a database in dir that was brought from elsewhere.
DbInit(dir) ==
  /\ \E saves \in {{}, Brought}, tables \in Versions, marker \in Versions \cup {NoMarker} :
       /\ marker \in {NoMarker, tables}
       /\ db = [d \in Dirs |-> IF d = dir /\ saves # {}
                              THEN [tables |-> tables, marker |-> marker, saves |-> saves] ELSE NoFile]
       /\ acked = saves
  /\ archive = [d \in Dirs |-> [n \in Names |-> NoFile]]
  /\ web = Down

Serve == Probe \/ Rotate \/ Create \/ Mark \/ (\E s \in Saves : Save(s))

(***************************************************************************)
(* Properties.                                                              *)
(***************************************************************************)
Kept(d) == db[d].saves \cup UNION {archive[d][n].saves : n \in Names}

\* Whatever was answered is in state.db or in one of its archives, however often
\* versions change, servers die half way through a rotation and rotations fall
\* into one second ("The old DB is preserved on disk").
NothingLost == acked \subseteq UNION {Kept(d) : d \in Dirs}

\* A server that answers has the tables of its own version in its own directory,
\* and they say so: it does not stamp tables of an older program that came without
\* a version, whoever died between the tables and the marker, and whatever was
\* deleted meanwhile.
ServesOwnSchema == web.pc = "up" => Current.tables = web.version /\ Current.marker = web.version
=============================================================================
