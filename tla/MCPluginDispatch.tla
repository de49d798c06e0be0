-------------------------- MODULE MCPluginDispatch --------------------------
(***************************************************************************)
(* PluginDispatch with 3 threads, a plugin and 4 requests: two users and   *)
(* a client without a login tag ask the same plugin, so that all the       *)
(* threads compete for its mutex and its globals; a fourth request names a *)
(* plugin no DLL provides.                                                 *)
(***************************************************************************)
EXTENDS PluginDispatch, TLC

CONSTANTS t1, t2, t3,      \* threads
          FProcess,        \* the loaded plugin
          Missing,         \* a type no DLL has
          ann, bob,        \* users
          r1, r2, r3, r4   \* requests

Threads == {t1, t2, t3}
Plugins == {FProcess}
Users == {ann, bob}
Requests == {r1, r2, r3, r4}
RequestedPlugin == [r \in Requests |-> IF r = r4 THEN Missing ELSE FProcess]
RequestingUser == r1 :> ann @@ r2 :> bob @@ r3 :> NoUser @@ r4 :> ann
=============================================================================
