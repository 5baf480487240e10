------------------------------ MODULE Release ------------------------------
(***************************************************************************)
(* What cemod.mk and the Docker scripts do around package_cemod.py.  Each  *)
(* run of the packager belongs to one "make": the recipe of "package" runs *)
(* the packager and then verify-package, "install" copies the package into *)
(* the mods directory of Cemu, and docker-install does so with a script of *)
(* its own, on the host, after the container has packaged.                 *)
(*                                                                         *)
(* Every command opens the package by its path again.  Makes may overlap,  *)
(* any command may fail, and any make may be killed; a packager that       *)
(* outlives its make goes on.  A package is known by the run that          *)
(* published it.                                                           *)
(*                                                                         *)
(* Left out: compiling the payload (here an edit of the input files), and  *)
(* the recipe's own mkdir of the output directory, which main repeats.     *)
(***************************************************************************)
EXTENDS CemodPackager

CONSTANTS
    Goals,            \* the goals the makes are started with
    SuffixConfigured, \* CEMOD_NAME is PROJECT_NAME plus the installer's suffix
    LeftoverExists,   \* a package at the path the installer makes up, otherwise
    VerifierRefuses,  \* payloads validate_elf takes and verify_elf does not
    Blocks,           \* the blocks cp copies a package in
    Hole              \* a block of a file nothing was written to

AllGoals == {"package", "install", "docker-install"}

ASSUME ReleaseAssumption ==
    /\ Goals \subseteq AllGoals
    /\ SuffixConfigured \in BOOLEAN /\ LeftoverExists \in BOOLEAN
    /\ Blocks \in Nat \ {0}
    /\ Hole \notin Runs \cup {NoRun}

VARIABLES
    goal,       \* what each make was started for
    stage,      \* the command of the recipes each make is at
    source,     \* the package the cp of each make has open
    copied,     \* how many blocks it has written
    installed,  \* the blocks of the two files in the mods directory
    overlapped, \* history: two makes were active at once
    disturbed   \* history: the last cp was cut short or met another one

release == <<goal, stage, source, copied, installed, overlapped, disturbed>>
release_vars == <<vars, release>>

\* the name cemod.mk gives a package, and the name the installer looks for
Names == {"own", "suffixed"}

EndedStages == {"done", "failed"}
Stages == {"idle", "package", "verify", "test", "mkdir", "open", "copy"} \cup EndedStages

MakesTypeOK ==
    /\ goal \in [Runs -> Goals]
    /\ stage \in [Runs -> Stages]
    /\ source \in [Runs -> Runs \cup {NoRun}]
    /\ copied \in [Runs -> 0..Blocks]
    /\ installed \in [Names -> [1..Blocks -> Runs \cup {NoRun, Hole}]]
    /\ overlapped \in BOOLEAN
    /\ disturbed \in [Names -> BOOLEAN]

ReleaseTypeOK == TypeOK /\ MakesTypeOK

Empty == [b \in 1..Blocks |-> Hole]

ReleaseInit ==
    /\ Init
    /\ goal \in [Runs -> Goals]
    /\ stage = [r \in Runs |-> "idle"]
    /\ source = [r \in Runs |-> NoRun]
    /\ copied = [r \in Runs |-> 0]
    /\ installed = [n \in Names |-> Empty]
    /\ overlapped = FALSE
    /\ disturbed = [n \in Names |-> FALSE]

-----------------------------------------------------------------------------
\* a make that has not ended, or whose packager has outlived it
Active(r) ==
    /\ stage[r] # "idle"
    /\ stage[r] \notin EndedStages \/ pc[r] \notin Ended

GotoStage(r, next) == stage' = [stage EXCEPT ![r] = next]

\* one command of a recipe, which only looks
Command(r) == UNCHANGED <<vars, goal, source, copied, installed, overlapped, disturbed>>

StartMake(r) ==
    /\ stage[r] = "idle"
    /\ GotoStage(r, "package")
    /\ overlapped' = (overlapped \/ \E q \in Runs : Active(q))
    /\ UNCHANGED <<vars, goal, source, copied, installed, disturbed>>

\* make waits for the packager and goes by its exit status
PackagerEnds(r) ==
    /\ stage[r] = "package" /\ pc[r] \in Ended
    /\ GotoStage(r, IF pc[r] = "exited" /\ status[r] = "ok" THEN "verify" ELSE "failed")
    /\ Command(r)

\* verify_cemod.py, on the package at the path: container, payload, signature,
\* and what verify_elf adds to the validators of the packager
Verifies(e) ==
    verify_cemod(e) /\ e[PayloadPath[e["manifest.json"].format]] \notin VerifierRefuses

AfterVerify(r) ==
    CASE goal[r] = "package" -> "done"
      [] goal[r] = "install" -> "mkdir"
      [] goal[r] = "docker-install" -> "test"

\* mutant: the recipe ignores the exit status of verify-package
VerifyPackage_Ignored(r) ==
    /\ stage[r] = "verify"
    /\ GotoStage(r, AfterVerify(r))
    /\ Command(r)

VerifyPackage(r) ==
    /\ stage[r] = "verify"
    /\ GotoStage(r, IF output # NoFile /\ Verifies(output.entries) THEN AfterVerify(r) ELSE "failed")
    /\ Command(r)

-----------------------------------------------------------------------------
(* Installing.                                                              *)

\* the installer adds "-wups" to PROJECT_NAME, cemod.mk adds nothing to CEMOD_NAME
Name(r) ==
    IF goal[r] = "docker-install" /\ job[r].format = "wups" /\ ~SuffixConfigured
    THEN "suffixed" ELSE "own"

PackageExists(name) == IF name = "own" THEN output # NoFile ELSE LeftoverExists

\* test -s, in the installer only
TestArtifact(r) ==
    /\ stage[r] = "test"
    /\ GotoStage(r, IF PackageExists(Name(r)) THEN "mkdir" ELSE "failed")
    /\ Command(r)

MakeDestination(r) ==
    /\ stage[r] = "mkdir"
    /\ GotoStage(r, "open")
    /\ Command(r)

Copying(name) == {r \in Runs : stage[r] = "copy" /\ Name(r) = name}

\* cp opens the package, and truncates the installed file
OpenCopy(r) ==
    /\ stage[r] = "open"
    /\ IF PackageExists(Name(r))
       THEN /\ source' = [source EXCEPT ![r] = IF Name(r) = "own" THEN publisher ELSE NoRun]
            /\ installed' = [installed EXCEPT ![Name(r)] = Empty]
            /\ disturbed' = [disturbed EXCEPT ![Name(r)] = Copying(Name(r)) # {}]
            /\ copied' = [copied EXCEPT ![r] = 0]
            /\ GotoStage(r, "copy")
            /\ UNCHANGED <<vars, goal, overlapped>>
       ELSE GotoStage(r, "failed") /\ Command(r)

\* mutant: the loop does not stop at the end of the package
CopyBlock_PastEnd(r) ==
    /\ stage[r] = "copy"
    /\ installed' = [installed EXCEPT ![Name(r)][copied[r] + 1] = source[r]]
    /\ copied' = [copied EXCEPT ![r] = @ + 1]
    /\ UNCHANGED <<vars, goal, stage, source, overlapped, disturbed>>

\* mutant: cp opens the package by name for every block
CopyBlock_Reopen(r) ==
    /\ stage[r] = "copy" /\ copied[r] < Blocks
    /\ installed' = [installed EXCEPT ![Name(r)][copied[r] + 1] = publisher]
    /\ copied' = [copied EXCEPT ![r] = @ + 1]
    /\ UNCHANGED <<vars, goal, stage, source, overlapped, disturbed>>

\* cp reads the file it has open and writes at its own offset
CopyBlock(r) ==
    /\ stage[r] = "copy" /\ copied[r] < Blocks
    /\ installed' = [installed EXCEPT ![Name(r)][copied[r] + 1] = source[r]]
    /\ copied' = [copied EXCEPT ![r] = @ + 1]
    /\ UNCHANGED <<vars, goal, stage, source, overlapped, disturbed>>

EndCopy(r) ==
    /\ stage[r] = "copy" /\ copied[r] = Blocks
    /\ GotoStage(r, "done")
    /\ Command(r)

\* a command fails, or somebody kills the make, whose packager may go on; a cp
\* leaves what it has written
StopMake(r) ==
    /\ stage[r] \notin {"idle"} \cup EndedStages
    /\ GotoStage(r, "failed")
    /\ disturbed' = IF stage[r] = "copy" THEN [disturbed EXCEPT ![Name(r)] = TRUE] ELSE disturbed
    /\ UNCHANGED <<vars, goal, source, copied, installed, overlapped>>

-----------------------------------------------------------------------------
Make(r) ==
    \/ StartMake(r) \/ PackagerEnds(r) \/ VerifyPackage(r) \/ TestArtifact(r)
    \/ MakeDestination(r) \/ OpenCopy(r) \/ CopyBlock(r) \/ EndCopy(r)

\* the packager of a make that was started, with everything around it
Packager(r) ==
    /\ stage[r] # "idle"
    /\ Step(r) \/ Abort(r) \/ Crash(r)
    /\ UNCHANGED release

ReleaseNext ==
    \/ \E r \in Runs : Make(r) \/ StopMake(r) \/ Packager(r)
    \/ Environment /\ UNCHANGED release

ReleaseSpec == ReleaseInit /\ [][ReleaseNext]_release_vars

-----------------------------------------------------------------------------
(* Properties.                                                              *)

Whole(name, p) == installed[name] = [b \in 1..Blocks |-> p]

(* A cp that no other cp met and that was not cut short leaves one whole    *)
(* package, although it writes in place, over whatever was there, while the *)
(* package it copies is replaced or removed at its path.                    *)
InstalledWhole ==
    \A name \in Names :
        Copying(name) = {} /\ ~disturbed[name] =>
            \E p \in Runs \cup {NoRun, Hole} : Whole(name, p)

(* Where one make runs at a time, what lies in the mods directory is a      *)
(* whole package, copied by the very make that built it, after              *)
(* verify_cemod.py had taken it.  No command holds on to the package        *)
(* between the packager, the verifier and cp: each opens the path again,    *)
(* and a package that the verifier refused still lies there.                *)
InstalledVerified ==
    ~overlapped =>
        \A name \in Names :
            Copying(name) = {} /\ ~disturbed[name] /\ installed[name] # Empty =>
                \E p \in Runs : /\ Whole(name, p)
                                /\ stage[p] = "done" /\ goal[p] # "package"
                                /\ Verifies(file[p].entries)

(* docker-install "installs the .cemod that build just produced [...] not   *)
(* any other package already sitting in out/dist".                          *)
InstallsOwnBuild ==
    \A r \in Runs :
        ~overlapped /\ goal[r] = "docker-install" /\ stage[r] = "done" => source[r] = r
=============================================================================
