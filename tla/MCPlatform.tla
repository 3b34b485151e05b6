----------------------------- MODULE MCPlatform -----------------------------
(***************************************************************************)
(* Two identities with three memberships, one role that can be edited, two *)
(* tenants that want the same slug, and five requests, two at a time.      *)
(***************************************************************************)
EXTENDS Platform, TLC

MCKeys == {"members", "roles", "permissions", "modules", "tenants"}
MCKeySets == {{"members"}, {"tenants"}}
MCRoleSets == {{o} : o \in Roles \cup {Owner}}
Symmetry == Permutations(Requests) \cup Permutations(Identities) \cup Permutations(Members)
               \cup Permutations(Tenants)
==============================================================================
