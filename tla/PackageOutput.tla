--------------------------- MODULE PackageOutput ---------------------------
(***************************************************************************)
(* What package_cemod.py promises about the file at --output: it is either *)
(* missing or one whole package, it changes only when some run publishes,  *)
(* a run publishes at most once, only a run that has published reports     *)
(* success, and a run that ends before publishes nothing.  A run may end   *)
(* in an error with its package published.                                 *)
(* (docs/getting-started.md: "Packaging is transactional: the output is    *)
(* replaced only after the manifest, payload, optional UI tree, and        *)
(* optional signature all validate.")                                      *)
(***************************************************************************)
CONSTANTS
    Runs,       \* the executions of the packager
    Acceptable, \* the packages that may be published
    NoPackage   \* nothing at --output

VARIABLES
    package,    \* the package at --output
    outcome     \* what each run has come to

TypeOK ==
    /\ package \in Acceptable \cup {NoPackage}
    /\ outcome \in [Runs -> {"running", "published", "succeeded", "unreported", "failed"}]

Init ==
    /\ package = NoPackage
    /\ outcome = [r \in Runs |-> "running"]

\* the output changes at once from one whole package to another
Publish(r) ==
    /\ outcome[r] = "running"
    /\ outcome' = [outcome EXCEPT ![r] = "published"]
    /\ package' \in Acceptable

Succeed(r) ==
    /\ outcome[r] = "published"
    /\ outcome' = [outcome EXCEPT ![r] = "succeeded"]
    /\ UNCHANGED package

\* an error or a kill after the package was put in place
EndUnreported(r) ==
    /\ outcome[r] = "published"
    /\ outcome' = [outcome EXCEPT ![r] = "unreported"]
    /\ UNCHANGED package

GiveUp(r) ==
    /\ outcome[r] = "running"
    /\ outcome' = [outcome EXCEPT ![r] = "failed"]
    /\ UNCHANGED package

\* the output tree is removed
Remove ==
    /\ package' = NoPackage
    /\ UNCHANGED outcome

Next ==
    \/ \E r \in Runs : Publish(r) \/ Succeed(r) \/ EndUnreported(r) \/ GiveUp(r)
    \/ Remove

Spec == Init /\ [][Next]_<<package, outcome>>
=============================================================================
