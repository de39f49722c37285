---------------------------- MODULE MCVaultSync -----------------------------
(* VaultSync for TLC: a project with one module, an index page and one      *)
(* article of its wiki.                                                    *)
EXTENDS VaultSync

CONSTANTS p1, f1, a1

MCOwner == f1 :> p1
MCDir == f1 :> "apps"
MCImports == f1 :> {f1}
MCChurn == f1 :> 5
MCCommits == f1 :> 21
MCWords == (a1 :> <<"apps", "cli">>) @@ ("INDEX" :> <<"INDEX">>)
MCWikis == {"INDEX", a1}

=============================================================================
