------------------------------- MODULE Config -------------------------------
(***************************************************************************)
(* The layered configuration of bty-web (_config.py) and the form of the   *)
(* Settings page that edits it (_ui.py, ui_settings_config_edit).          *)
(*                                                                         *)
(* TOML files are merged key by key in the order of a search list, and     *)
(* environment variables go on top.  A save rewrites the primary file      *)
(* through a temporary file beside it and loads the configuration again.   *)
(* The handlers run in threads of their own, so two saves can overlap; the *)
(* process can be killed between any two steps.                            *)
(*                                                                         *)
(* A drop-in directory stands for the merge of its files.  A file that is  *)
(* opened for writing is empty until it is written, which is what these    *)
(* small files look like to a reader and after a kill.                     *)
(***************************************************************************)
EXTENDS Naturals, Sequences

CONSTANTS
  Paths,        \* candidates of the search list
  Dirs,         \* those that are drop-in directories
  Keys,         \* <section>.<key> of the schema
  Values,       \* what a key can be set to
  Unset,        \* the key is not in the file, or not in the environment
  Savers,       \* threads that answer POST /ui/settings/config/edit
  Deployments,  \* [search, mounted, creatable, there, env] of an installation
  MaxSaves, MaxEdits   \* bounds of the exploration

Bodies == [Keys -> Values \cup {Unset}]
Empty == [k \in Keys |-> Unset]
Sources == Paths \cup {"default", "env"}
NoPath == "none"

ASSUME ConfigAssumption ==
  /\ Unset \notin Values
  /\ Dirs \subseteq Paths
  /\ {"default", "env", NoPath} \cap Paths = {}
  /\ \A d \in Deployments :
       /\ d.search \in Seq(Paths)
       /\ d.mounted \subseteq Paths /\ d.creatable \subseteq Paths
       /\ d.there \subseteq Paths
       /\ d.env \in Bodies

VARIABLES
  deployment,  \* the installation, which does not change
  there,       \* the files that exist
  text,        \* [Paths -> Bodies]: what a reader would parse from each
  tmp,         \* .<name>.tmp beside the primary file
  active,      \* the LoadedConfig of the process: [see, primary]
  up,          \* the process runs
  saver,       \* the progress of each save
  saves, edits,
  agreed,      \* ghost: what the primary file may hold for a key
  saved        \* ghost: keys last written by a save that was answered, not lost since

vars == <<deployment, there, text, tmp, active, up, saver, saves, edits,
          agreed, saved>>
disk == <<there, text, tmp>>
ghosts == <<agreed, saved>>
bounds == <<saves, edits>>

-----------------------------------------------------------------------------
(* Loading.                                                                *)

\* Mutant: a file replaces what earlier files said, whole.
OverWhole(see, p) ==
  [k \in Keys |-> IF text[p][k] = Unset THEN [val |-> Unset, from |-> "default"]
                  ELSE [val |-> text[p][k], from |-> p]]

Over(see, p) ==
  [k \in Keys |-> IF text[p][k] = Unset THEN see[k]
                  ELSE [val |-> text[p][k], from |-> p]]

Defaults == [k \in Keys |-> [val |-> Unset, from |-> "default"]]

\* Mutant: the provenance of an earlier file is kept.
WithEnvUnnamed(see) ==
  [k \in Keys |-> IF deployment.env[k] = Unset THEN see[k]
                  ELSE [see[k] EXCEPT !.val = deployment.env[k]]]

WithEnv(see) ==
  [k \in Keys |-> IF deployment.env[k] = Unset THEN see[k]
                  ELSE [val |-> deployment.env[k], from |-> "env"]]

\* The first n candidates, those that are there, each over the ones before.
Layered[n \in 0..Len(deployment.search)] ==
  IF n = 0 THEN Defaults
  ELSE LET p == deployment.search[n]
       IN  IF p \in there THEN Over(Layered[n - 1], p) ELSE Layered[n - 1]

Merged == Layered[Len(deployment.search)]

Candidate(p) == p \notin Dirs /\ p \in there \cup deployment.creatable

Primary ==
  LET list == deployment.search
      ranks == {i \in DOMAIN list : Candidate(list[i])}
  IN  IF ranks = {} THEN NoPath
      ELSE list[CHOOSE i \in ranks : \A j \in ranks : j <= i]

LoadConfig == [see |-> WithEnv(Merged), primary |-> Primary]

-----------------------------------------------------------------------------
(* A save.                                                                 *)

Idle == [pc |-> "idle", key |-> Unset, val |-> Unset, path |-> NoPath,
         body |-> Empty, fd |-> "none", alone |-> FALSE, view |-> Unset]

Others(s) == Savers \ {s}
AllIdle == \A s \in Savers : saver[s].pc = "idle"
Go(s, pc) == saver' = [saver EXCEPT ![s].pc = pc]

\* Mutant: the form writes keys that the environment overrides.
EditableAlways(k) == TRUE

Editable(k) == active.see[k].from # "env"

\* A field of another type, an unknown key and a missing primary file are
\* answered at once and change nothing.
BeginSave(s) ==
  /\ up
  /\ saver[s].pc = "idle"
  /\ saves < MaxSaves
  /\ active.primary # NoPath
  /\ \E k \in Keys, v \in Values \cup {Unset} :
       /\ Editable(k)
       /\ saver' = [t \in Savers |->
            IF t = s THEN [Idle EXCEPT !.pc = "read", !.key = k, !.val = v,
                             !.path = active.primary, !.alone = AllIdle]
            ELSE [saver[t] EXCEPT !.alone = FALSE]]
       /\ agreed' = [l \in Keys |->
            IF ~AllIdle \/ text[active.primary][l] \notin agreed[l]
            THEN Values \cup {Unset}
            ELSE IF l = k THEN {text[active.primary][k], v} ELSE agreed[l]]
       /\ saved' = IF ~AllIdle THEN {}
                   ELSE {l \in saved \ {k} : text[active.primary][l] \in agreed[l]}
  /\ saves' = saves + 1
  /\ UNCHANGED <<deployment, disk, active, up, edits>>

\* Clearing a key that is not in the file writes nothing.
ReadDoc(s) ==
  LET me == saver[s]
      old == IF me.path \in there THEN text[me.path] ELSE Empty
  IN  /\ me.pc = "read"
      /\ saver' = [saver EXCEPT
           ![s].pc = IF me.val = Unset /\ old[me.key] = Unset
                     THEN "reload" ELSE "open",
           ![s].body = [old EXCEPT ![me.key] = me.val]]
      /\ UNCHANGED <<deployment, disk, active, up, bounds, ghosts>>

\* Mutant: the file itself is truncated and written, without a temporary file.
OpenInPlace(s) ==
  /\ saver[s].pc = "open"
  /\ text' = [text EXCEPT ![saver[s].path] = Empty]
  /\ there' = there \cup {saver[s].path}
  /\ Go(s, "fill")
  /\ UNCHANGED <<deployment, tmp, active, up, bounds, ghosts>>

OpenTmp(s) ==
  /\ saver[s].pc = "open"
  /\ tmp' = [there |-> TRUE, text |-> Empty]
  /\ saver' = [saver EXCEPT ![s].pc = "write", ![s].fd = "tmp"]
  /\ UNCHANGED <<deployment, there, text, active, up, bounds, ghosts>>

\* The descriptor follows the file: another save may have renamed it.
WriteTmp(s) ==
  LET me == saver[s] IN
  /\ me.pc = "write"
  /\ tmp' = IF me.fd = "tmp" THEN [tmp EXCEPT !.text = me.body] ELSE tmp
  /\ text' = IF me.fd = "path" THEN [text EXCEPT ![me.path] = me.body] ELSE text
  /\ Go(s, "rename")
  /\ UNCHANGED <<deployment, there, active, up, bounds, ghosts>>

\* What becomes of the descriptors when the temporary file is renamed.
AfterRename(s) ==
  [t \in Savers |->
     IF t = s THEN [saver[s] EXCEPT !.pc = "reload"]
     ELSE [saver[t] EXCEPT !.fd = CASE @ = "tmp" -> "path"
                                    [] @ = "path" -> "gone"
                                    [] OTHER -> @]]

Rename(s) ==
  /\ saver[s].pc = "rename"
  /\ tmp.there
  /\ saver[s].path \notin deployment.mounted
  /\ there' = there \cup {saver[s].path}
  /\ text' = [text EXCEPT ![saver[s].path] = tmp.text]
  /\ tmp' = [tmp EXCEPT !.there = FALSE]
  /\ saver' = AfterRename(s)
  /\ UNCHANGED <<deployment, active, up, bounds, ghosts>>

\* EBUSY: the file is a bind mount, and the body is written in place.
RenameBusy(s) ==
  /\ saver[s].pc = "rename"
  /\ tmp.there
  /\ saver[s].path \in deployment.mounted
  /\ saver[s].val # Unset
  /\ text' = [text EXCEPT ![saver[s].path] = Empty]
  /\ there' = there \cup {saver[s].path}
  /\ Go(s, "fill")
  /\ UNCHANGED <<deployment, tmp, active, up, bounds, ghosts>>

\* The answer is an error and an event settings.config.failed: another save
\* has taken the temporary file, or a key of a mounted file is cleared.
SaveFails(s) ==
  /\ saver[s].pc = "rename"
  /\ ~tmp.there \/ (saver[s].path \in deployment.mounted /\ saver[s].val = Unset)
  /\ saver' = [saver EXCEPT ![s] = Idle]
  /\ agreed' = [agreed EXCEPT ![saver[s].key] =
                  IF saver[s].alone THEN {text[saver[s].path][saver[s].key]} ELSE @]
  /\ UNCHANGED <<deployment, disk, active, up, bounds, saved>>

Fill(s) ==
  /\ saver[s].pc = "fill"
  /\ text' = [text EXCEPT ![saver[s].path] = saver[s].body]
  /\ tmp' = [tmp EXCEPT !.there = FALSE]
  /\ Go(s, "reload")
  /\ UNCHANGED <<deployment, there, active, up, bounds, ghosts>>

Reload(s) ==
  /\ saver[s].pc = "reload"
  /\ saver' = [saver EXCEPT ![s].pc = "set", ![s].view = LoadConfig]
  /\ UNCHANGED <<deployment, disk, active, up, bounds, ghosts>>

\* set_active_config, the event and the answer.
EndSave(s) ==
  LET me == saver[s] IN
  /\ me.pc = "set"
  /\ active' = me.view
  /\ saver' = [saver EXCEPT ![s] = Idle]
  /\ agreed' = IF me.alone THEN [agreed EXCEPT ![me.key] = {me.val}] ELSE agreed
  /\ saved' = IF me.alone /\ me.val # Unset THEN saved \cup {me.key} ELSE saved
  /\ UNCHANGED <<deployment, disk, up, bounds>>

-----------------------------------------------------------------------------
(* The operator's editor, kills and restarts.                              *)

HandEdit ==
  /\ edits < MaxEdits
  /\ \E p \in there, k \in Keys, v \in Values \cup {Unset} :
       /\ v # text[p][k]
       /\ text' = [text EXCEPT ![p][k] = v]
       /\ IF p = Primary
          THEN /\ agreed' = [agreed EXCEPT ![k] = Values \cup {Unset}]
               /\ saved' = saved \ {k}
               /\ AllIdle
          ELSE UNCHANGED ghosts
  /\ edits' = edits + 1
  /\ UNCHANGED <<deployment, there, tmp, active, up, saver, saves>>

Kill ==
  /\ up
  /\ up' = FALSE
  /\ saver' = [s \in Savers |-> Idle]
  /\ UNCHANGED <<deployment, disk, active, bounds, ghosts>>

\* create_app loads the default search list, whatever main was given.
Restart ==
  /\ ~up
  /\ up' = TRUE
  /\ active' = LoadConfig
  /\ UNCHANGED <<deployment, disk, saver, bounds, ghosts>>

Init ==
  /\ deployment \in Deployments
  /\ there = deployment.there
  /\ \E b \in Bodies : text = [p \in Paths |-> IF p \in there THEN b ELSE Empty]
  /\ tmp = [there |-> FALSE, text |-> Empty]
  /\ active = LoadConfig
  /\ up = TRUE
  /\ saver = [s \in Savers |-> Idle]
  /\ saves = 0 /\ edits = 0
  /\ agreed = [k \in Keys |->
       IF Primary = NoPath THEN Values \cup {Unset} ELSE {text[Primary][k]}]
  /\ saved = {}

SaveStep(s) ==
  \/ ReadDoc(s) \/ OpenTmp(s) \/ WriteTmp(s)
  \/ Rename(s) \/ RenameBusy(s) \/ SaveFails(s) \/ Fill(s)
  \/ Reload(s) \/ EndSave(s)

Next ==
  \/ \E s \in Savers : BeginSave(s) \/ SaveStep(s)
  \/ HandEdit
  \/ Kill
  \/ Restart

Spec == Init /\ [][Next]_vars

-----------------------------------------------------------------------------
(* Properties.                                                             *)

Loaded ==
  [see : [Keys -> [val : Values \cup {Unset}, from : Sources]],
   primary : Paths \cup {NoPath}]

\* Every variable keeps its shape; a value shown as a default is not one of a
\* file (the badges of the Settings page, _config_row).
ConfigTypeOK ==
  /\ deployment \in Deployments
  /\ there \subseteq Paths
  /\ text \in [Paths -> Bodies]
  /\ tmp \in [there : BOOLEAN, text : Bodies]
  /\ active \in Loaded
  /\ \A k \in Keys : active.see[k].from = "default" <=> active.see[k].val = Unset
  /\ up \in BOOLEAN
  /\ \A s \in Savers :
       /\ saver[s].pc \in {"idle", "read", "open", "write", "rename", "fill",
                           "reload", "set"}
       /\ saver[s].fd \in {"none", "tmp", "path", "gone"}
       /\ saver[s].body \in Bodies
       /\ saver[s].pc = "set" => saver[s].view \in Loaded
  /\ agreed \in [Keys -> SUBSET (Values \cup {Unset})]
  /\ saved \subseteq Keys

\* The imperative merge gives what the documentation of load_config promises:
\* for each key by itself, the environment, else the last file of the search
\* list that sets it, else the default; and the provenance names that layer.
LayersRanked ==
  \A k \in Keys :
    LET list == deployment.search
        setters == {i \in DOMAIN list : list[i] \in there /\ text[list[i]][k] # Unset}
        got == LoadConfig.see[k]
    IN  CASE deployment.env[k] # Unset ->
               got = [val |-> deployment.env[k], from |-> "env"]
          [] deployment.env[k] = Unset /\ setters # {} ->
               \E i \in setters : /\ \A j \in setters : j <= i
                                  /\ got = [val |-> text[list[i]][k], from |-> list[i]]
          [] OTHER -> got.from = "default"

\* A save that no other save overlaps, killed anywhere, leaves every key of
\* the primary file as it was, except the one it sets, which is as before or
\* as asked for; a file that has to be written in place may be lost, but then
\* the temporary file beside it holds the whole body.
NothingWiped ==
  active.primary # NoPath =>
    LET p == active.primary
        Kept(b) == \A k \in Keys : b[k] \in agreed[k]
    IN  Kept(text[p]) \/ (p \in deployment.mounted /\ tmp.there /\ Kept(tmp.text))

\* A value that a save reported as stored is in force, in the running process
\* and in every later one, and is shown as coming from the file it was written
\* to: no environment variable and no file of a higher rank hides it.
SavedInForce ==
  \A k \in saved :
    /\ up
    /\ text[active.primary][k] \in agreed[k]
    => active.see[k] = [val |-> text[active.primary][k], from |-> active.primary]

=============================================================================
