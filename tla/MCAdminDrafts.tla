---------------------------- MODULE MCAdminDrafts ----------------------------
(***************************************************************************)
(* TLC instances of AdminDrafts: every editor alone, and the role being    *)
(* created next to a role being edited, which share a page and its dialog. *)
(***************************************************************************)
EXTENDS AdminDrafts, TLC

TestSets == {{s} : s \in AllSlots \ {"role2"}} \union {{"roleCreate", "role1"}}
Symm == Permutations(Accounts)
=============================================================================
