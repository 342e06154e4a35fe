----------------------------- MODULE MCSession -----------------------------
EXTENDS Session, TLC

CONSTANTS root, ann

Symmetric == Permutations(Tabs)

MCRoleOf == root :> "system_admin" @@ ann :> "farmer"
=============================================================================
