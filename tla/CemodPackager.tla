--------------------------- MODULE CemodPackager ---------------------------
(***************************************************************************)
(* Executions of tools/package_cemod.py that share a file system.          *)
(*                                                                         *)
(* Each run reads its input files one by one into a dict of entries,       *)
(* optionally signs it or checks a detached signature, writes the dict to  *)
(* a temporary ZIP beside the output, and renames it over the output.      *)
(* Between any two steps of a run another run may take steps, a user or a  *)
(* detached signer may replace an input file, "make clean" may remove the  *)
(* output tree, and the run may be killed.                                 *)
(*                                                                         *)
(* Left out: the order of the entries inside the ZIP (the names pending in *)
(* a loop are a set, of which the sorted order of the code is one          *)
(* enumeration), the scanning of the UI tree by rglob (one step), FIFOs in *)
(* it, and the private /tmp files handed to OpenSSL.                       *)
(***************************************************************************)
EXTENDS CemodFormat

CONSTANTS
    Runs,           \* the executions of package_cemod.py
    Jobs,           \* the command lines they are started with
    InitialInputs,  \* the input files the runs may find
    UiEdits,        \* what an edit may leave at a UI path
    Directory,      \* a directory: rglob lists it and the loop skips it
    Special,        \* a socket or a device
    Oversized,      \* a regular file longer than MAX_UI_FILE_BYTES
    WrongSize,      \* a key or signature file of the wrong kind or length
    NoFile,         \* no file at a path
    NoRun,          \* nobody has published
    MaxEdits,       \* bound: changes of input files
    MaxCleans       \* bound: executions of make clean

SigningModes == {"none", "private", "detached", "conflict"}

\* "conflict": options that argparse accepts and main rejects
JobRecords == [format: PayloadFormats \cup {"conflict"}, ui: BOOLEAN,
               signing: SigningModes]

(* What stat finds at a UI path, and what may be there.                     *)
UiTargets == UiContents \cup {Absent, Directory, Special, Oversized}
UiLinks == [to: UiTargets]
UiPaths == UiTargets \cup UiLinks

InputRecords ==
    [manifest: Manifests \cup {Absent},
     payload: Payloads \cup {Absent},
     ui: [UiNames -> UiPaths],
     private_key: Keys \cup {Absent, WrongSize},
     public_key: Keys \cup {Absent, WrongSize},
     signature: Signatures \cup {Absent, WrongSize}]

ASSUME PackagerAssumption ==
    /\ Jobs \subseteq JobRecords
    /\ InitialInputs \subseteq InputRecords
    /\ UiEdits \subseteq UiPaths
    /\ UiTargets \cap UiLinks = {}
    /\ {Absent, Directory, Special, Oversized} \cap UiContents = {}
    /\ Absent \notin UiNames
    /\ WrongSize \notin Keys \cup Signatures
    /\ NoRun \notin Runs
    /\ MaxEdits \in Nat /\ MaxCleans \in Nat

(* "private": as NamedTemporaryFile creates it (0600); "umask": as open()    *)
(* creates it; "public": after chmod (0644).                                 *)
Modes == {"private", "umask", "public"}

Files == [entries: Entries, closed: BOOLEAN, mode: Modes]

ASSUME NoFileAssumption == NoFile \notin Files

VARIABLES
    input,      \* the input files, shared by all runs
    output,     \* the file at --output
    out_dir,    \* whether the directory of --output exists
    pc,         \* the step each run takes next
    job,        \* the command line of each run
    entries,    \* "entries" of main, for each run
    pending,    \* names the current loop of the run has still to visit
    path,       \* the UI path the current turn of read_ui looks at
    key,        \* "public_key" of main or sign, once the run has it
    file,       \* the file each run opened as its temporary ZIP
    linked,     \* whether temporary_path still names a file
    status,     \* how each run ends: its exit status, once main has decided it
    published,  \* history: the runs that renamed their ZIP over --output
    publisher,  \* history: the run whose ZIP is at --output
    edits,      \* counter for MaxEdits
    cleans      \* counter for MaxCleans

shared == <<input, output, out_dir>>
history == <<status, published, publisher>>
counters == <<edits, cleans>>
vars == <<shared, pc, job, entries, pending, path, key, file, linked, history, counters>>

(* The steps before the try of line 191, and those under its "finally".     *)
Preparing == {"readManifest", "readPayload", "enumerateUi", "readUi", "isDirectory",
              "isFile", "readFile", "checkInputs",
              "deriveKey", "sign", "readPublicKey", "verifyDetached",
              "makeParent", "createTemp", "enterTry"}
Writing == {"openZip", "writeEntries", "replace", "chmod"}
PcValues == Preparing \cup Writing \cup {"unlink", "exited", "crashed"}
Ended == {"exited", "crashed"}

(* "ok": nothing was raised; "error": an exception was, before the temporary *)
(* file was made or where the finally clause removes it; "unguarded": it was *)
(* raised between the two, or by the removal itself.                         *)
Statuses == {"running", "ok", "error", "unguarded"}

EmptyFile == [entries |-> NoEntries, closed |-> FALSE, mode |-> "private"]

TypeOK ==
    /\ input \in InputRecords
    /\ output \in Files \cup {NoFile}
    /\ out_dir \in BOOLEAN
    /\ pc \in [Runs -> PcValues]
    /\ job \in [Runs -> Jobs]
    /\ entries \in [Runs -> Entries]
    /\ pending \in [Runs -> SUBSET EntryNames]
    /\ path \in [Runs -> UiNames \cup {Absent}]
    /\ key \in [Runs -> Keys \cup {Absent, WrongSize}]
    /\ file \in [Runs -> Files]
    /\ linked \in [Runs -> BOOLEAN]
    /\ status \in [Runs -> Statuses]
    /\ published \subseteq Runs
    /\ publisher \in Runs \cup {NoRun}
    /\ edits \in 0..MaxEdits
    /\ cleans \in 0..MaxCleans

Init ==
    /\ input \in InitialInputs
    /\ output = NoFile
    /\ out_dir = FALSE
    /\ pc = [r \in Runs |-> "readManifest"]
    /\ job \in [Runs -> Jobs]
    /\ entries = [r \in Runs |-> NoEntries]
    /\ pending = [r \in Runs |-> {}]
    /\ path = [r \in Runs |-> Absent]
    /\ key = [r \in Runs |-> Absent]
    /\ file = [r \in Runs |-> EmptyFile]
    /\ linked = [r \in Runs |-> FALSE]
    /\ status = [r \in Runs |-> "running"]
    /\ published = {}
    /\ publisher = NoRun
    /\ edits = 0
    /\ cleans = 0

-----------------------------------------------------------------------------
(* Control of a run.                                                        *)

Goto(r, step) == pc' = [pc EXCEPT ![r] = step]

\* mutant: no finally clause
Fail_NoFinally(r) ==
    /\ Goto(r, "exited")
    /\ status' = [status EXCEPT ![r] = "error"]
    /\ UNCHANGED <<shared, job, entries, pending, path, key, file, linked,
                   published, publisher, counters>>

(* CemodError, OSError or KeyboardInterrupt: under the try of line 191 the   *)
(* finally clause unlinks the temporary file, elsewhere the process ends.    *)
Fail(r) ==
    /\ Goto(r, IF pc[r] \in Writing THEN "unlink" ELSE "exited")
    /\ status' = [status EXCEPT ![r] =
                    IF pc[r] \in {"enterTry", "unlink"} THEN "unguarded" ELSE "error"]
    /\ UNCHANGED <<shared, job, entries, pending, path, key, file, linked,
                   published, publisher, counters>>

\* the run goes on in memory: nothing another run can see changes
Private == UNCHANGED <<shared, job, file, linked, history, counters>>

SetEntry(r, name, data) == entries' = [entries EXCEPT ![r][name] = data]

-----------------------------------------------------------------------------
(* Reading the inputs.                                                      *)

(* The manifest is read, loaded and validated, and its payload descriptor   *)
(* compared with the one selected on the command line.                      *)
ReadManifest(r) ==
    /\ pc[r] = "readManifest"
    /\ LET m == input.manifest
       IN  IF m \in Manifests /\ Loads(m) /\ m.valid /\ m.format = job[r].format
           THEN /\ SetEntry(r, "manifest.json", m)
                /\ Goto(r, "readPayload")
                /\ Private /\ UNCHANGED <<pending, path, key>>
           ELSE Fail(r)

(* The payload is read and checked by the validator of its format; after    *)
(* it, --ui-dir must be given exactly for package_version 4.  The entries   *)
(* begin with the payload and the manifest, which is encoded again.         *)
ReadPayload(r) ==
    /\ pc[r] = "readPayload"
    /\ LET m == entries[r]["manifest.json"]
       IN  IF /\ input.payload \in Payloads
              /\ m.format \in input.payload.validAs
              /\ m.version = 4 <=> job[r].ui
              /\ m.text # "unencodable"
           THEN /\ entries' = [entries EXCEPT ![r]["manifest.json"] = Encoded(m),
                                              ![r][PayloadPath[m.format]] = input.payload]
                /\ Goto(r, IF job[r].ui THEN "enumerateUi" ELSE "checkInputs")
                /\ Private /\ UNCHANGED <<pending, path, key>>
           ELSE Fail(r)

(* rglob fixes the list of paths; the files are looked at one by one later. *)
EnumerateUi(r) ==
    /\ pc[r] = "enumerateUi"
    /\ pending' = [pending EXCEPT ![r] = {n \in UiNames : input.ui[n] # Absent}]
    /\ Goto(r, "readUi")
    /\ Private /\ UNCHANGED <<entries, path, key>>

\* is_dir, is_file and read_bytes follow symbolic links
Followed(n) == IF input.ui[n] \in UiLinks THEN input.ui[n].to ELSE input.ui[n]

EndTurn(r) ==
    /\ path' = [path EXCEPT ![r] = Absent]
    /\ Goto(r, "readUi")
    /\ Private /\ UNCHANGED key

(* A turn of the loop of read_ui, for a path listed before: is_symlink,     *)
(* which is false of a path that has vanished, ...                          *)
VisitPath(r) ==
    /\ pc[r] = "readUi"
    /\ \E n \in pending[r] :
          IF input.ui[n] \in UiLinks
          THEN Fail(r)
          ELSE /\ path' = [path EXCEPT ![r] = n]
               /\ pending' = [pending EXCEPT ![r] = @ \ {n}]
               /\ Goto(r, "isDirectory")
               /\ Private /\ UNCHANGED <<entries, key>>

\* mutant: the directory is put back in the list
IsDirectory_Rescan(r) ==
    /\ pc[r] = "isDirectory"
    /\ IF Followed(path[r]) = Directory
       THEN /\ pending' = [pending EXCEPT ![r] = @ \cup {path[r]}]
            /\ EndTurn(r) /\ UNCHANGED entries
       ELSE Goto(r, "isFile") /\ Private /\ UNCHANGED <<entries, pending, path, key>>

\* ... is_dir, which ends the turn, ...
IsDirectory(r) ==
    /\ pc[r] = "isDirectory"
    /\ IF Followed(path[r]) = Directory
       THEN EndTurn(r) /\ UNCHANGED <<entries, pending>>
       ELSE Goto(r, "isFile") /\ Private /\ UNCHANGED <<entries, pending, path, key>>

\* ... is_file ...
IsFile(r) ==
    /\ pc[r] = "isFile"
    /\ IF Followed(path[r]) \in UiContents \cup {Oversized}
       THEN Goto(r, "readFile") /\ Private /\ UNCHANGED <<entries, pending, path, key>>
       ELSE Fail(r)

\* ... and read_bytes: what is there by now, if it is a file within the limit.
ReadUiFile(r) ==
    /\ pc[r] = "readFile"
    /\ IF Followed(path[r]) \in UiContents
       THEN /\ SetEntry(r, path[r], Followed(path[r]))
            /\ EndTurn(r) /\ UNCHANGED pending
       ELSE Fail(r)

ReadUiDone(r) ==
    /\ pc[r] = "readUi" /\ pending[r] = {}
    /\ IF Present(entries[r]) \cap UiNames # {}
       THEN /\ Goto(r, "checkInputs")
            /\ Private /\ UNCHANGED <<entries, pending, path, key>>
       ELSE Fail(r)

\* mutant: the entries of the views are not looked up
CheckInputs_NoViews(r) ==
    /\ pc[r] = "checkInputs"
    /\ IF job[r].signing = "conflict"
       THEN Fail(r)
       ELSE /\ Goto(r, CASE job[r].signing = "private"  -> "deriveKey"
                         [] job[r].signing = "detached" -> "readPublicKey"
                         [] job[r].signing = "none"     -> "makeParent")
            /\ Private /\ UNCHANGED <<entries, pending, path, key>>

(* Every view has its entry, and the signing options agree.                 *)
CheckInputs(r) ==
    /\ pc[r] = "checkInputs"
    /\ IF /\ job[r].ui => entries[r]["manifest.json"].views \subseteq Present(entries[r])
          /\ job[r].signing # "conflict"
       THEN /\ Goto(r, CASE job[r].signing = "private"  -> "deriveKey"
                         [] job[r].signing = "detached" -> "readPublicKey"
                         [] job[r].signing = "none"     -> "makeParent")
            /\ Private /\ UNCHANGED <<entries, pending, path, key>>
       ELSE Fail(r)

-----------------------------------------------------------------------------
(* Signing.                                                                 *)

\* "openssl pkey -pubout" opens the private key file ...
DeriveKey(r) ==
    /\ pc[r] = "deriveKey"
    /\ IF input.private_key \in Keys
       THEN /\ key' = [key EXCEPT ![r] = input.private_key]
            /\ Goto(r, "sign")
            /\ Private /\ UNCHANGED <<entries, pending, path>>
       ELSE Fail(r)

\* mutant: the digest is taken before the public key is added
Sign_DigestFirst(r) ==
    /\ pc[r] = "sign" /\ input.private_key \in Keys
    /\ entries' = [entries EXCEPT
          ![r]["public_key.ed25519"] = key[r],
          ![r]["signature.ed25519"] =
             [key |-> input.private_key, digest |-> canonical_signature_digest(entries[r])]]
    /\ Goto(r, "makeParent")
    /\ Private /\ UNCHANGED <<pending, path, key>>

\* ... and "openssl pkeyutl -sign" opens it again.
Sign(r) ==
    /\ pc[r] = "sign"
    /\ IF input.private_key \in Keys
       THEN /\ LET signed == [entries[r] EXCEPT !["public_key.ed25519"] = key[r]]
               IN  entries' = [entries EXCEPT ![r] =
                     [signed EXCEPT !["signature.ed25519"] =
                        [key |-> input.private_key,
                         digest |-> canonical_signature_digest(signed)]]]
            /\ Goto(r, "makeParent")
            /\ Private /\ UNCHANGED <<pending, path, key>>
       ELSE Fail(r)

ReadPublicKey(r) ==
    /\ pc[r] = "readPublicKey"
    /\ IF input.public_key # Absent
       THEN /\ key' = [key EXCEPT ![r] = input.public_key]
            /\ Goto(r, "verifyDetached")
            /\ Private /\ UNCHANGED <<entries, pending, path>>
       ELSE Fail(r)

\* mutant: only the lengths are checked
VerifyDetached_LengthsOnly(r) ==
    /\ pc[r] = "verifyDetached"
    /\ key[r] \in Keys /\ input.signature \in Signatures
    /\ entries' = [entries EXCEPT ![r]["public_key.ed25519"] = key[r],
                                  ![r]["signature.ed25519"] = input.signature]
    /\ Goto(r, "makeParent")
    /\ Private /\ UNCHANGED <<pending, path, key>>

(* The signature file is read, both lengths are checked, and OpenSSL        *)
(* verifies the pair against the entries read before.                       *)
VerifyDetached(r) ==
    /\ pc[r] = "verifyDetached"
    /\ LET signed == [entries[r] EXCEPT !["public_key.ed25519"] = key[r],
                                       !["signature.ed25519"] = input.signature]
       IN  IF /\ key[r] \in Keys /\ input.signature \in Signatures
              /\ SignatureVerifies(signed)
           THEN /\ entries' = [entries EXCEPT ![r] = signed]
                /\ Goto(r, "makeParent")
                /\ Private /\ UNCHANGED <<pending, path, key>>
           ELSE Fail(r)

-----------------------------------------------------------------------------
(* Writing the output.                                                      *)

MakeParent(r) ==
    /\ pc[r] = "makeParent"
    /\ out_dir' = TRUE
    /\ Goto(r, "createTemp")
    /\ UNCHANGED <<input, output, job, entries, pending, path, key, file, linked,
                   history, counters>>

\* an error here is not under the try: there is nothing to unlink yet
CreateTemp(r) ==
    /\ pc[r] = "createTemp"
    /\ IF out_dir
       THEN /\ file' = [file EXCEPT ![r] = EmptyFile]
            /\ linked' = [linked EXCEPT ![r] = TRUE]
            /\ Goto(r, "enterTry")
            /\ UNCHANGED <<shared, job, entries, pending, path, key, history, counters>>
       ELSE Fail(r)

\* the file is closed, and temporary_path known, before the try begins
EnterTry(r) ==
    /\ pc[r] = "enterTry"
    /\ Goto(r, "openZip")
    /\ Private /\ UNCHANGED <<entries, pending, path, key>>

\* mutant: the ZIP is opened at --output
OpenZip_InPlace(r) ==
    /\ pc[r] = "openZip" /\ out_dir
    /\ output' = EmptyFile
    /\ pending' = [pending EXCEPT ![r] = Present(entries[r])]
    /\ Goto(r, "writeEntries")
    /\ UNCHANGED <<input, out_dir, job, entries, path, key, file, linked, history, counters>>

(* ZipFile opens temporary_path by name: it truncates the file, or makes    *)
(* another one if the path has gone and the directory has not.              *)
OpenZip(r) ==
    /\ pc[r] = "openZip"
    /\ IF linked[r] \/ out_dir
       THEN /\ file' = [file EXCEPT ![r] =
                          [EmptyFile EXCEPT !.mode = IF linked[r] THEN @ ELSE "umask"]]
            /\ linked' = [linked EXCEPT ![r] = TRUE]
            /\ pending' = [pending EXCEPT ![r] = Present(entries[r])]
            /\ Goto(r, "writeEntries")
            /\ UNCHANGED <<shared, job, entries, path, key, history, counters>>
       ELSE Fail(r)

\* the writes go to the open file, linked or not
WriteEntry(r) ==
    /\ pc[r] = "writeEntries"
    /\ \E n \in pending[r] :
          /\ file' = [file EXCEPT ![r].entries[n] = entries[r][n]]
          /\ pending' = [pending EXCEPT ![r] = @ \ {n}]
    /\ UNCHANGED <<shared, pc, job, entries, path, key, linked, history, counters>>

CloseZip(r) ==
    /\ pc[r] = "writeEntries" /\ pending[r] = {}
    /\ file' = [file EXCEPT ![r].closed = TRUE]
    /\ Goto(r, "replace")
    /\ UNCHANGED <<shared, job, entries, pending, path, key, linked, history, counters>>

Replace(r) ==
    /\ pc[r] = "replace"
    /\ IF linked[r]
       THEN /\ output' = file[r]
            /\ linked' = [linked EXCEPT ![r] = FALSE]
            /\ published' = published \cup {r}
            /\ publisher' = r
            /\ Goto(r, "chmod")
            /\ UNCHANGED <<input, out_dir, job, entries, pending, path, key, file,
                           status, counters>>
       ELSE Fail(r)

\* mutant: success is reported without the chmod
Chmod_Skipped(r) ==
    /\ pc[r] = "chmod"
    /\ status' = [status EXCEPT ![r] = "ok"]
    /\ Goto(r, "unlink")
    /\ UNCHANGED <<shared, job, entries, pending, path, key, file, linked, published,
                   publisher, counters>>

\* by path: the file may by now be the one of another run, or gone
Chmod(r) ==
    /\ pc[r] = "chmod"
    /\ IF output # NoFile
       THEN /\ output' = [output EXCEPT !.mode = "public"]
            /\ status' = [status EXCEPT ![r] = "ok"]
            /\ Goto(r, "unlink")
            /\ UNCHANGED <<input, out_dir, job, entries, pending, path, key, file,
                           linked, published, publisher, counters>>
       ELSE Fail(r)

\* the finally clause, with missing_ok
Unlink(r) ==
    /\ pc[r] = "unlink"
    /\ linked' = [linked EXCEPT ![r] = FALSE]
    /\ Goto(r, "exited")
    /\ UNCHANGED <<shared, job, entries, pending, path, key, file, history, counters>>

-----------------------------------------------------------------------------
(* What may go wrong around the runs.                                       *)

(* A read, a write, a removal or OpenSSL fails, a limit on the UI tree is   *)
(* exceeded, a name in it is unsafe, or the user interrupts: any step may   *)
(* raise instead of doing its work.                                         *)
Abort(r) ==
    /\ pc[r] \notin Ended
    /\ Fail(r)

(* Killed: no finally clause runs.                                          *)
Crash(r) ==
    /\ pc[r] \notin Ended
    /\ Goto(r, "crashed")
    /\ UNCHANGED <<shared, job, entries, pending, path, key, file, linked, history, counters>>

Edit(inputs) ==
    /\ edits < MaxEdits /\ edits' = edits + 1
    /\ input' \in inputs \ {input}
    /\ UNCHANGED <<output, out_dir, pc, job, entries, pending, path, key, file, linked,
                   history, cleans>>

EditManifest == Edit({[input EXCEPT !.manifest = m] : m \in Manifests})
EditPayload == Edit({[input EXCEPT !.payload = p] : p \in Payloads})
EditUi == Edit({[input EXCEPT !.ui[n] = f] : n \in UiNames, f \in UiEdits})
RotateKey == Edit({[input EXCEPT !.private_key = k] : k \in Keys})
ReplacePublicKey == Edit({[input EXCEPT !.public_key = k] : k \in Keys})

\* the entries a detached signer makes of the inputs for the command line j
Staged(j, k) ==
    [n \in EntryNames |->
        CASE n = "manifest.json" /\ input.manifest \in Manifests -> Encoded(input.manifest)
          [] n = PayloadPath[j.format] -> input.payload
          [] n = "public_key.ed25519" -> k
          [] n \in UiNames /\ j.ui /\ Followed(n) \in UiContents -> Followed(n)
          [] OTHER -> Absent]

(* A detached signer signs the inputs as they are now.                      *)
SignDetached ==
    \E r \in {q \in Runs : job[q].signing = "detached" /\ job[q].format \in PayloadFormats},
       k \in Keys :
      Edit({[input EXCEPT !.signature =
               [key |-> k, digest |-> canonical_signature_digest(Staged(job[r], k))]]})

(* "make clean": rm -rf of the output tree, temporary files included.       *)
Clean ==
    /\ cleans < MaxCleans /\ cleans' = cleans + 1
    /\ output' = NoFile /\ publisher' = NoRun
    /\ out_dir' = FALSE
    /\ linked' = [r \in Runs |-> FALSE]
    /\ UNCHANGED <<input, pc, job, entries, pending, path, key, file, status, published, edits>>

-----------------------------------------------------------------------------
Step(r) ==
    \/ ReadManifest(r) \/ ReadPayload(r)
    \/ EnumerateUi(r) \/ VisitPath(r) \/ IsDirectory(r) \/ IsFile(r) \/ ReadUiFile(r)
    \/ ReadUiDone(r) \/ CheckInputs(r)
    \/ DeriveKey(r) \/ Sign(r) \/ ReadPublicKey(r) \/ VerifyDetached(r)
    \/ MakeParent(r) \/ CreateTemp(r) \/ EnterTry(r) \/ OpenZip(r)
    \/ WriteEntry(r) \/ CloseZip(r) \/ Replace(r) \/ Chmod(r) \/ Unlink(r)

Environment ==
    \/ EditManifest \/ EditPayload \/ EditUi
    \/ RotateKey \/ ReplacePublicKey \/ SignDetached \/ Clean

Next ==
    \/ \E r \in Runs : Step(r) \/ Abort(r) \/ Crash(r)
    \/ Environment

Spec == Init /\ [][Next]_vars

\* the operating system runs every process; nothing else is owed
FairSpec == Spec /\ \A r \in Runs : WF_vars(Step(r))
-----------------------------------------------------------------------------
(* Properties.                                                              *)

\* A signature in e commits to every other entry of e.
SignatureCovers(e) ==
    Signed(e) => e["signature.ed25519"].digest = canonical_signature_digest(e)

\* The manifest in e is what json.dumps made of one that json.loads took.
ManifestEncoded(e) ==
    \E m \in Manifests : Loads(m) /\ m.text # "unencodable" /\ e["manifest.json"] = Encoded(m)

(* Whatever the runs, the edits and the kills did, the file at --output is   *)
(* never partial, and it has the structure read_package demands: a manifest  *)
(* encoded again from an object that validate_manifest accepts, exactly the  *)
(* payload it selects, a UI tree exactly for version 4 with an entry for     *)
(* each view, the signature pair or neither.  (That the reader takes it is   *)
(* more: see OutputAccepted.)                                                *)
OutputComplete ==
    output # NoFile =>
        /\ output.closed
        /\ WellFormed(output.entries) /\ ManifestEncoded(output.entries)

(* A signature in the published archive was made over exactly the entries   *)
(* that were written with it, even if the input files changed between the   *)
(* time they were read, the time they were signed and the time they were    *)
(* written.                                                                 *)
SignatureCoversOutput ==
    output # NoFile => SignatureCovers(output.entries)

(* A package published from a detached signature passes the verifier's      *)
(* signature check: a signature made before the last edit of an input, or   *)
(* with another key, is never published.                                    *)
DetachedOutputVerifies ==
    /\ output # NoFile
    /\ publisher \in Runs /\ job[publisher].signing = "detached"
    => SignatureVerifies(output.entries)

(* A run that ends, without error or with one, has left no temporary file    *)
(* beside the output: whatever is raised under the try, at any step, the     *)
(* rename has taken the file away or the finally clause removes it.  What it *)
(* does not cover: a killed run, an exception between the creation of the    *)
(* file and the try (lines 189 to 191), and one raised by the removal.       *)
NoTemporaryLeft ==
    \A r \in Runs : pc[r] = "exited" /\ status[r] # "unguarded" => ~linked[r]

(* When a run has reported success, the package that is at --output thanks  *)
(* to it has mode 0644, although the temporary file was created 0600 and    *)
(* the chmod of every run goes by path.                                     *)
SuccessIsReadable ==
    publisher \in Runs /\ status[publisher] = "ok" => output.mode = "public"

(* Every run ends: the loops over the UI tree and the entries are over the  *)
(* names fixed before them.                                                 *)
RunsEnd == \A r \in Runs : <>(pc[r] \in Ended)

(* A package that a run publishes is accepted by read_package.  Neither the *)
(* limits of the scan, nor that of the manifest once it is encoded again,   *)
(* nor that json.loads takes what json.dumps wrote is looked at before.     *)
OutputAccepted == output # NoFile => ReaderAccepts(output.entries)

-----------------------------------------------------------------------------
(* The promise: module PackageOutput.                                       *)

Acceptable ==
    {f \in [entries: Entries, closed: {TRUE}] :
        WellFormed(f.entries) /\ ManifestEncoded(f.entries) /\ SignatureCovers(f.entries)}

package ==
    IF output = NoFile THEN NoFile
    ELSE [entries |-> output.entries, closed |-> output.closed]

outcome ==
    [r \in Runs |->
        IF pc[r] \notin Ended
        THEN IF r \in published THEN "published" ELSE "running"
        ELSE IF r \notin published THEN "failed"
        ELSE IF pc[r] = "exited" /\ status[r] = "ok" THEN "succeeded" ELSE "unreported"]

Promise == INSTANCE PackageOutput WITH NoPackage <- NoFile

(* Every execution of the packagers is one the promise allows: the output   *)
(* passes from whole package to whole package, each run publishes at most   *)
(* once, success is reported only by a run that has published, and a run    *)
(* that ends before its rename publishes nothing.  One that fails after it, *)
(* at the chmod or the unlink, reports an error with its package in place.  *)
ImplementsPromise == Promise!Spec
=============================================================================
