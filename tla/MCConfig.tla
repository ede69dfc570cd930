------------------------------ MODULE MCConfig ------------------------------
(* Installations for Config: a container whose bty.toml is mounted at       *)
(* /etc/bty, one with a drop-in directory and an environment variable, and  *)
(* one whose file of the highest rank is itself a bind mount.               *)
EXTENDS Config

MCPaths == {"confd", "etc", "state"}
MCDirs == {"confd"}

NoEnv == [k \in Keys |-> Unset]
OneEnv(v) == LET l == CHOOSE k \in Keys : TRUE IN [NoEnv EXCEPT ![l] = v]
MCSearch == <<"confd", "etc", "etc", "state">>

MCDeployments ==
  { [search |-> MCSearch, mounted |-> {"etc"}, creatable |-> {"state"},
     there |-> {"etc"}, env |-> NoEnv],
    [search |-> <<"confd", "etc", "state">>, mounted |-> {}, creatable |-> {"state"},
     there |-> {"confd", "etc", "state"}, env |-> OneEnv(1)],
    [search |-> <<"confd", "etc", "state">>, mounted |-> {"state"}, creatable |-> {},
     there |-> {"confd", "state"}, env |-> NoEnv],
    [search |-> <<"confd", "etc">>, mounted |-> {}, creatable |-> {},
     there |-> {"confd", "etc"}, env |-> NoEnv] }
=============================================================================
