--------------------------- MODULE Release_proof ---------------------------
(***************************************************************************)
(* Proofs about Release and CemodPackager, which it extends, for any       *)
(* number of runs, makes, edits and clean-ups.  First the packager; then,  *)
(* as every behaviour of Release is one of the packagers, what is proved   *)
(* of them carries over, and what lies in the mods directory is a whole    *)
(* and verified package.                                                   *)
(***************************************************************************)
EXTENDS Release, TLAPS

-----------------------------------------------------------------------------
(* The inductive invariant.                                                 *)

Unsigned(e) ==
    e["public_key.ed25519"] = Absent /\ e["signature.ed25519"] = Absent

\* manifest and payload are in, nothing is signed
Vetted(e) ==
    ManifestAccepted(e) /\ ManifestEncoded(e) /\ PayloadAccepted(e) /\ Unsigned(e)

\* fit to be signed
Ready(e) == WellFormed(e) /\ ManifestEncoded(e) /\ Unsigned(e)

\* fit to be published by a run with command line j
Publishable(j, e) ==
    /\ WellFormed(e) /\ ManifestEncoded(e) /\ SignatureCovers(e)
    /\ j.signing = "detached" => SignatureVerifies(e)

Turn == {"isDirectory", "isFile", "readFile"}
ReadingUi == {"enumerateUi", "readUi"} \cup Turn
Signing == {"deriveKey", "sign", "readPublicKey", "verifyDetached"}
Finishing == {"makeParent", "createTemp", "enterTry"} \cup Writing

\* what the entries of a run satisfy, by the step it is at
EntriesInv(r) ==
    LET e == entries[r]
    IN  /\ pc[r] = "readManifest" => e = NoEntries
        /\ pc[r] = "readPayload" =>
              /\ ManifestAccepted(e) /\ Loads(e["manifest.json"])
              /\ Present(e) = {"manifest.json"}
        /\ pc[r] \in ReadingUi \cup {"checkInputs"} =>
              /\ Vetted(e)
              /\ e["manifest.json"].version = 4 <=> job[r].ui
        /\ pc[r] \in ReadingUi => job[r].ui
        /\ pc[r] \in {"readUi"} \cup Turn => pending[r] \subseteq UiNames
        /\ pc[r] \in Turn => path[r] \in UiNames
        /\ pc[r] = "checkInputs" => (job[r].ui <=> Present(e) \cap UiNames # {})
        /\ pc[r] \in Signing => Ready(e)
        /\ pc[r] \in {"deriveKey", "sign"} => job[r].signing = "private"
        /\ pc[r] = "sign" => key[r] \in Keys
        /\ pc[r] \in Finishing => Publishable(job[r], e)

\* what the temporary file of a run holds
FileInv(r) ==
    /\ linked[r] => \/ pc[r] \in {"enterTry", "unlink", "crashed"} \cup Writing
                    \/ pc[r] = "exited" /\ status[r] = "unguarded"
    /\ pc[r] = "writeEntries" =>
          \A n \in EntryNames \ pending[r] : file[r].entries[n] = entries[r][n]
    /\ pc[r] = "replace" => file[r].closed /\ file[r].entries = entries[r]

\* the histories follow the control
HistoryInv(r) ==
    /\ r \in published => pc[r] \in {"chmod", "unlink"} \cup Ended
    /\ pc[r] = "chmod" => r \in published
    /\ pc[r] \in Preparing \cup Writing => status[r] = "running"
    /\ status[r] = "ok" => r \in published

OutputInv ==
    /\ output # NoFile => /\ output.closed
                          /\ WellFormed(output.entries)
                          /\ ManifestEncoded(output.entries)
                          /\ SignatureCovers(output.entries)
    /\ publisher \in Runs => /\ output # NoFile
                             /\ Publishable(job[publisher], output.entries)
                             /\ status[publisher] = "ok" => output.mode = "public"

RunInv(r) == EntriesInv(r) /\ FileInv(r) /\ HistoryInv(r)

IInv == TypeOK /\ (\A r \in Runs : RunInv(r)) /\ OutputInv
-----------------------------------------------------------------------------
(* Facts about entries.                                                     *)

(* The names of the format are entry names, and none of them is below ui/.  *)
LEMMA FormatNames ==
    /\ {"manifest.json", "mod.elf", "plugin.wps", "public_key.ed25519",
        "signature.ed25519"} \subseteq EntryNames
    /\ UiNames \subseteq EntryNames
    /\ \A n \in UiNames : n \notin {"manifest.json", "mod.elf", "plugin.wps",
                                    "public_key.ed25519", "signature.ed25519"}
BY NamesAssumption DEF EntryNames, FixedNames

(* Setting an entry to data of its kind keeps the entries well typed.       *)
LEMMA SetTyped ==
    ASSUME NEW e \in Entries, NEW n \in EntryNames \ {"signature.ed25519"},
           NEW d \in FileData
    PROVE  /\ [e EXCEPT ![n] = d] \in Entries
           /\ Present([e EXCEPT ![n] = d]) = Present(e) \cup {n}
<1> DEFINE f == [e EXCEPT ![n] = d]
<1>1. /\ f \in [EntryNames -> FileData \cup Signatures \cup {Absent}]
      /\ f["signature.ed25519"] = e["signature.ed25519"]
      /\ \A m \in EntryNames : f[m] = IF m = n THEN d ELSE e[m]
  BY DEF Entries
<1>2. f \in Entries
  BY <1>1 DEF Entries
<1>3. d # Absent
  BY AbsentAssumption
<1>4. Present(f) = Present(e) \cup {n}
  BY <1>1, <1>3 DEF Present
<1> QED
  BY <1>2, <1>4

(* The digest of well typed entries is a digest.                            *)
LEMMA DigestTyped ==
    ASSUME NEW e \in Entries
    PROVE  canonical_signature_digest(e) \in Digests
BY DEF canonical_signature_digest, Digests, Entries

(* Adding a key and a signature to well-formed unsigned entries keeps them  *)
(* well formed, and does not change what the digest is computed from.       *)
LEMMA SignTyped ==
    ASSUME NEW e \in Entries, NEW k \in Keys, NEW s \in Signatures,
           Ready(e)
    PROVE  LET signed == [e EXCEPT !["public_key.ed25519"] = k]
               f == [signed EXCEPT !["signature.ed25519"] = s]
           IN  /\ f \in Entries
               /\ WellFormed(f) /\ ManifestEncoded(f)
               /\ signed \in Entries
               /\ canonical_signature_digest(f) = canonical_signature_digest(signed)
               /\ f["public_key.ed25519"] = k
               /\ f["signature.ed25519"] = s
<1> DEFINE signed == [e EXCEPT !["public_key.ed25519"] = k]
           f == [signed EXCEPT !["signature.ed25519"] = s]
<1>0. WellFormed(e) /\ ManifestEncoded(e) /\ Unsigned(e)
  BY DEF Ready
<1>1. /\ signed \in Entries
      /\ Present(signed) = Present(e) \cup {"public_key.ed25519"}
  BY SetTyped, FormatNames DEF FileData
<1>2. /\ f \in [EntryNames -> FileData \cup Signatures \cup {Absent}]
      /\ f["signature.ed25519"] = s
      /\ \A m \in EntryNames \ {"signature.ed25519"} : f[m] = signed[m]
  BY <1>1, FormatNames DEF Entries
<1>3. \A m \in EntryNames \ {"signature.ed25519", "public_key.ed25519"} : f[m] = e[m]
  BY <1>2 DEF Entries
<1>4. f["public_key.ed25519"] = k
  BY <1>2, FormatNames DEF Entries
<1>5. f \in Entries
  BY <1>1, <1>2 DEF Entries
<1>6. canonical_signature_digest(f) = canonical_signature_digest(signed)
  BY <1>2 DEF canonical_signature_digest
<1>7. s # Absent /\ k # Absent
  BY AbsentAssumption DEF FileData
<1>8. Present(f) = Present(e) \cup {"public_key.ed25519", "signature.ed25519"}
  BY <1>2, <1>3, <1>4, <1>7, FormatNames DEF Present
<1>9. WellFormed(f) /\ ManifestEncoded(f)
  <2>1. f["manifest.json"] = e["manifest.json"]
    BY <1>3, FormatNames
  <2>2. ManifestAccepted(f) /\ ManifestAccepted(e)
    BY <1>0, <2>1 DEF WellFormed, ManifestAccepted
  <2>3. PayloadPath[e["manifest.json"].format] \in {"mod.elf", "plugin.wps"}
    BY <2>2, ContentsAssumption DEF ManifestAccepted, ManifestRecords, PayloadFormats, PayloadPath
  <2>4. PayloadAccepted(f)
    BY <1>0, <2>1, <2>3, <1>3, <1>8, FormatNames DEF WellFormed, PayloadAccepted
  <2>5. UiAccepted(f)
    BY <1>0, <2>1, <1>8, FormatNames DEF WellFormed, UiAccepted
  <2>6. SignaturePaired(f)
    BY <1>8 DEF SignaturePaired
  <2>7. ManifestEncoded(f)
    BY <1>0, <2>1 DEF ManifestEncoded
  <2> QED
    BY <2>2, <2>4, <2>5, <2>6, <2>7 DEF WellFormed
<1> QED
  BY <1>1, <1>2, <1>4, <1>5, <1>6, <1>9
-----------------------------------------------------------------------------
(* Steps of one run leave the invariants of the others alone.               *)

OthersKeep(r) ==
    /\ job' = job
    /\ \A q \in Runs \ {r} :
          /\ pc'[q] = pc[q] /\ entries'[q] = entries[q] /\ pending'[q] = pending[q]
          /\ path'[q] = path[q] /\ key'[q] = key[q] /\ file'[q] = file[q] /\ status'[q] = status[q]
          /\ linked'[q] = linked[q]
          /\ q \in published' <=> q \in published

LEMMA Frame ==
    ASSUME IInv, NEW r \in Runs, OthersKeep(r), RunInv(r)'
    PROVE  (\A q \in Runs : RunInv(q))'
<1> SUFFICES ASSUME NEW q \in Runs PROVE RunInv(q)'
  OBVIOUS
<1>1. CASE q = r
  BY <1>1
<1>2. CASE q # r
  <2>1. RunInv(q)
    BY DEF IInv
  <2>2. EntriesInv(q)'
    BY <1>2, <2>1 DEF OthersKeep, RunInv, EntriesInv
  <2>3. FileInv(q)'
    BY <1>2, <2>1 DEF OthersKeep, RunInv, FileInv
  <2>4. HistoryInv(q)'
    BY <1>2, <2>1 DEF OthersKeep, RunInv, HistoryInv
  <2> QED
    BY <2>2, <2>3, <2>4 DEF RunInv
<1> QED
  BY <1>1, <1>2

(* The output is as good as it was if nobody publishes, and nobody reports  *)
(* success.                                                                 *)
LEMMA OutputFrame ==
    ASSUME IInv, UNCHANGED <<output, publisher, job>>,
           \A q \in Runs : status'[q] = "ok" => status[q] = "ok"
    PROVE  OutputInv'
BY DEF IInv, OutputInv

(* A run that fails has no temporary file linked, or goes to unlink it.     *)
LEMMA FailKeeps ==
    ASSUME IInv, NEW r \in Runs, pc[r] \notin Ended, Fail(r)
    PROVE  IInv'
<1> DEFINE l == IF pc[r] \in Writing THEN "unlink" ELSE "exited"
           end == IF pc[r] \in {"enterTry", "unlink"} THEN "unguarded" ELSE "error"
<1>1. TypeOK /\ RunInv(r)
  BY DEF IInv
<1>2. /\ pc' = [pc EXCEPT ![r] = l] /\ l \in PcValues
      /\ status' = [status EXCEPT ![r] = end] /\ end \in Statuses
      /\ UNCHANGED <<input, output, out_dir, job, entries, pending, path, key, file,
                     linked, published, publisher, edits, cleans>>
  BY DEF Fail, Goto, shared, counters, PcValues, Statuses
<1>3. TypeOK'
  BY <1>1, <1>2 DEF TypeOK
<1>4. pc'[r] = l /\ status'[r] = end /\ pc[r] \in Preparing \cup Writing \cup {"unlink"}
  BY <1>1, <1>2 DEF TypeOK, PcValues, Ended
<1>5. RunInv(r)'
  <2>1. EntriesInv(r)'
    BY <1>4 DEF EntriesInv, ReadingUi, Turn, Signing, Finishing, Writing
  <2>2. FileInv(r)'
    BY <1>1, <1>2, <1>4 DEF RunInv, FileInv, Writing, Preparing
  <2>3. HistoryInv(r)'
    BY <1>1, <1>2, <1>4 DEF RunInv, HistoryInv, Preparing, Writing, Ended
  <2> QED
    BY <2>1, <2>2, <2>3 DEF RunInv
<1>6. OthersKeep(r)
  BY <1>1, <1>2 DEF OthersKeep, TypeOK
<1>7. \A q \in Runs : status'[q] = "ok" => status[q] = "ok"
  BY <1>1, <1>2 DEF TypeOK
<1> QED
  BY <1>2, <1>3, <1>5, <1>6, <1>7, Frame, OutputFrame DEF IInv

(* A step before the temporary file that only changes the run's own memory. *)
LEMMA PrivateKeeps ==
    ASSUME IInv, NEW r \in Runs, NEW l \in Preparing,
           pc[r] \in Preparing, pc' = [pc EXCEPT ![r] = l], Private,
           entries' \in [Runs -> Entries], pending' \in [Runs -> SUBSET EntryNames],
           path' \in [Runs -> UiNames \cup {Absent}],
           key' \in [Runs -> Keys \cup {Absent, WrongSize}],
           \A q \in Runs \ {r} : /\ entries'[q] = entries[q] /\ path'[q] = path[q]
                                 /\ pending'[q] = pending[q] /\ key'[q] = key[q],
           pc[r] # "enterTry",
           EntriesInv(r)'
    PROVE  IInv'
<1>1. TypeOK /\ RunInv(r)
  BY DEF IInv
<1>2. UNCHANGED <<input, output, out_dir, job, file, linked, status, published,
                 publisher, edits, cleans>>
  BY DEF Private, shared, history, counters
<1>3. TypeOK'
  BY <1>1, <1>2 DEF TypeOK, PcValues
<1>4. pc'[r] = l
  BY <1>1 DEF TypeOK
<1>5. FileInv(r)'
  BY <1>1, <1>2, <1>4 DEF RunInv, FileInv, Preparing, Writing
<1>6. HistoryInv(r)'
  BY <1>1, <1>2, <1>4 DEF RunInv, HistoryInv, Preparing, Writing, Ended
<1>7. OthersKeep(r)
  BY <1>1, <1>2 DEF OthersKeep, TypeOK
<1>8. OutputInv'
  BY <1>2, OutputFrame
<1> QED
  BY <1>3, <1>5, <1>6, <1>7, <1>8, Frame DEF IInv, RunInv

LEMMA ReadManifestKeeps ==
    ASSUME IInv, NEW r \in Runs, ReadManifest(r)
    PROVE  IInv'
<1> DEFINE m == input.manifest
           e == entries[r]
<1>1. TypeOK /\ EntriesInv(r) /\ pc[r] = "readManifest" /\ pc[r] \in Preparing
  BY DEF IInv, RunInv, ReadManifest, Preparing
<1>2. CASE ~(m \in Manifests /\ Loads(m) /\ m.valid /\ m.format = job[r].format)
  BY <1>1, <1>2, FailKeeps DEF ReadManifest, Ended
<1>3. CASE m \in Manifests /\ Loads(m) /\ m.valid /\ m.format = job[r].format
  <2>1. /\ entries' = [entries EXCEPT ![r]["manifest.json"] = m]
        /\ pc' = [pc EXCEPT ![r] = "readPayload"]
        /\ Private /\ UNCHANGED <<pending, path, key>>
    BY <1>3 DEF ReadManifest, SetEntry, Goto
  <2>2. e = NoEntries /\ e \in Entries /\ Present(e) = {}
    BY <1>1 DEF EntriesInv, TypeOK, NoEntries, Present
  <2>3. /\ [e EXCEPT !["manifest.json"] = m] \in Entries
        /\ Present([e EXCEPT !["manifest.json"] = m]) = {"manifest.json"}
        /\ [e EXCEPT !["manifest.json"] = m]["manifest.json"] = m
    <3>1. m \in FileData /\ "manifest.json" \in EntryNames \ {"signature.ed25519"}
      BY <1>3, FormatNames DEF FileData
    <3>2. [e EXCEPT !["manifest.json"] = m]["manifest.json"] = m
      BY <2>2, <3>1 DEF Entries
    <3> QED
      BY <2>2, <3>1, <3>2, SetTyped
  <2>4. /\ entries'[r] = [e EXCEPT !["manifest.json"] = m]
        /\ entries' \in [Runs -> Entries]
        /\ \A q \in Runs \ {r} : entries'[q] = entries[q]
        /\ pc'[r] = "readPayload"
    BY <1>1, <2>1, <2>3 DEF TypeOK
  <2>5. EntriesInv(r)'
    BY <1>3, <2>3, <2>4 DEF EntriesInv, ManifestAccepted, ReadingUi, Turn, Signing, Finishing, Writing
  <2> QED
    BY <1>1, <2>1, <2>4, <2>5, PrivateKeeps DEF TypeOK, Preparing
<1> QED
  BY <1>2, <1>3

(* Encoding a manifest again changes its text only.                         *)
LEMMA EncodedManifest ==
    ASSUME NEW m \in Manifests
    PROVE  /\ Encoded(m) \in Manifests
           /\ Encoded(m).valid = m.valid /\ Encoded(m).format = m.format
           /\ Encoded(m).version = m.version /\ Encoded(m).views = m.views
BY ContentsAssumption DEF Encoded, ManifestRecords

LEMMA ReadPayloadKeeps ==
    ASSUME IInv, NEW r \in Runs, ReadPayload(r)
    PROVE  IInv'
<1> DEFINE e == entries[r]
           m == e["manifest.json"]
           n == PayloadPath[m.format]
           Good == /\ input.payload \in Payloads
                   /\ m.format \in input.payload.validAs
                   /\ m.version = 4 <=> job[r].ui
                   /\ m.text # "unencodable"
           l == IF job[r].ui THEN "enumerateUi" ELSE "checkInputs"
<1>1. TypeOK /\ EntriesInv(r) /\ pc[r] = "readPayload" /\ pc[r] \in Preparing
  BY DEF IInv, RunInv, ReadPayload, Preparing
<1>2. CASE ~Good
  BY <1>1, <1>2, FailKeeps DEF ReadPayload, Ended
<1>3. CASE Good
  <2> DEFINE g == [e EXCEPT !["manifest.json"] = Encoded(m)]
             f == [g EXCEPT ![n] = input.payload]
  <2>1. /\ entries' = [entries EXCEPT ![r]["manifest.json"] = Encoded(m), ![r][n] = input.payload]
        /\ pc' = [pc EXCEPT ![r] = l]
        /\ Private /\ UNCHANGED <<pending, path, key>>
    BY <1>3 DEF ReadPayload, Goto
  <2>2. /\ ManifestAccepted(e) /\ Loads(m) /\ Present(e) = {"manifest.json"} /\ e \in Entries
        /\ m \in Manifests /\ m \in ManifestRecords
    BY <1>1, ContentsAssumption DEF EntriesInv, TypeOK, ManifestAccepted
  <2>3. Encoded(m) \in Manifests /\ Encoded(m).valid /\ Encoded(m).format = m.format
        /\ Encoded(m).version = m.version
    BY <2>2, EncodedManifest DEF ManifestAccepted
  <2>4. n \in {"mod.elf", "plugin.wps"}
    BY <2>2 DEF ManifestRecords, PayloadFormats, PayloadPath
  <2>5. n \in EntryNames \ {"signature.ed25519"} /\ n \notin UiNames
    BY <2>4, FormatNames
  <2>6. g \in Entries /\ Present(g) = {"manifest.json"} /\ g["manifest.json"] = Encoded(m)
    <3>1. Encoded(m) \in FileData /\ "manifest.json" \in EntryNames \ {"signature.ed25519"}
      BY <2>3, FormatNames DEF FileData
    <3>2. g \in Entries /\ Present(g) = Present(e) \cup {"manifest.json"}
      BY <2>2, <3>1, SetTyped
    <3>3. g["manifest.json"] = Encoded(m)
      BY <2>2, <3>1 DEF Entries
    <3> QED
      BY <2>2, <3>2, <3>3
  <2>7. f \in Entries /\ Present(f) = {"manifest.json", n}
    BY <1>3, <2>5, <2>6, SetTyped DEF FileData
  <2>8. f["manifest.json"] = Encoded(m) /\ f[n] = input.payload
    BY <2>4, <2>5, <2>6 DEF Entries
  <2>9. ManifestAccepted(f) /\ ManifestEncoded(f)
    BY <1>3, <2>2, <2>3, <2>8 DEF ManifestAccepted, ManifestEncoded
  <2>10. PayloadAccepted(f)
    BY <1>3, <2>3, <2>4, <2>7, <2>8 DEF PayloadAccepted
  <2>11. Unsigned(f)
    BY <2>4, <2>7, FormatNames DEF Unsigned, Present
  <2>12. Present(f) \cap UiNames = {}
    BY <2>5, <2>7, FormatNames
  <2>13. /\ entries'[r] = f
         /\ entries' \in [Runs -> Entries]
         /\ \A q \in Runs \ {r} : entries'[q] = entries[q]
         /\ pc'[r] = l /\ job' = job
    BY <1>1, <2>1, <2>7 DEF TypeOK, Private
  <2>14. Vetted(f) /\ (f["manifest.json"].version = 4 <=> job[r].ui)
    BY <1>3, <2>3, <2>8, <2>9, <2>10, <2>11 DEF Vetted
  <2>15. EntriesInv(r)'
    BY <2>12, <2>13, <2>14 DEF EntriesInv, ReadingUi, Turn, Signing, Finishing, Writing
  <2>16. l \in Preparing /\ pc[r] # "enterTry"
    BY <1>1 DEF Preparing
  <2> QED
    BY <1>1, <2>1, <2>13, <2>15, <2>16, PrivateKeeps DEF TypeOK
<1> QED
  BY <1>2, <1>3

LEMMA EnumerateUiKeeps ==
    ASSUME IInv, NEW r \in Runs, EnumerateUi(r)
    PROVE  IInv'
<1>1. TypeOK /\ EntriesInv(r) /\ pc[r] = "enumerateUi" /\ pc[r] \in Preparing
  BY DEF IInv, RunInv, EnumerateUi, Preparing
<1> DEFINE listed == {n \in UiNames : input.ui[n] # Absent}
<1>2. /\ pending' = [pending EXCEPT ![r] = listed]
      /\ pc' = [pc EXCEPT ![r] = "readUi"]
      /\ Private /\ UNCHANGED <<entries, path, key>>
  BY DEF EnumerateUi, Goto
<1>3. /\ pending'[r] = listed /\ listed \subseteq UiNames
      /\ pending' \in [Runs -> SUBSET EntryNames]
      /\ \A q \in Runs \ {r} : pending'[q] = pending[q]
      /\ pc'[r] = "readUi" /\ job' = job
  BY <1>1, <1>2, FormatNames DEF TypeOK, Private
<1>4. EntriesInv(r)'
  BY <1>1, <1>2, <1>3 DEF EntriesInv, ReadingUi, Turn, Signing, Finishing, Writing
<1> QED
  BY <1>1, <1>2, <1>3, <1>4, PrivateKeeps DEF TypeOK, Preparing

(* A UI entry changes neither the manifest nor the payload of the entries.  *)
LEMMA UiEntryVetted ==
    ASSUME NEW e \in Entries, NEW n \in UiNames, NEW d \in UiContents, Vetted(e)
    PROVE  LET f == [e EXCEPT ![n] = d]
           IN  /\ f \in Entries /\ Vetted(f)
               /\ f["manifest.json"] = e["manifest.json"]
<1> DEFINE f == [e EXCEPT ![n] = d]
           m == e["manifest.json"]
<1>1. n \in EntryNames \ {"signature.ed25519"}
  BY FormatNames
<1>2. f \in Entries /\ Present(f) = Present(e) \cup {n}
  BY <1>1, SetTyped DEF FileData
<1>3. \A x \in FixedNames : f[x] = e[x]
  BY FormatNames DEF Entries, FixedNames
<1>4. m \in ManifestRecords
  BY ContentsAssumption DEF Vetted, ManifestAccepted
<1>5. PayloadPath[m.format] \in {"mod.elf", "plugin.wps"}
  BY <1>4 DEF ManifestRecords, PayloadFormats, PayloadPath
<1>6. ManifestAccepted(f) /\ ManifestEncoded(f) /\ Unsigned(f)
  BY <1>3 DEF Vetted, ManifestAccepted, ManifestEncoded, Unsigned, FixedNames
<1>7. PayloadAccepted(f)
  BY <1>2, <1>3, <1>5, FormatNames DEF Vetted, PayloadAccepted, FixedNames
<1> QED
  BY <1>2, <1>3, <1>6, <1>7 DEF Vetted, FixedNames

LEMMA VisitPathKeeps ==
    ASSUME IInv, NEW r \in Runs, VisitPath(r)
    PROVE  IInv'
<1>1. TypeOK /\ EntriesInv(r) /\ pc[r] = "readUi" /\ pc[r] \in Preparing
  BY DEF IInv, RunInv, VisitPath, Preparing
<1>2. CASE Fail(r)
  BY <1>1, <1>2, FailKeeps DEF Ended
<1>3. ASSUME NEW n \in pending[r],
             path' = [path EXCEPT ![r] = n], pending' = [pending EXCEPT ![r] = @ \ {n}],
             Goto(r, "isDirectory"), Private, UNCHANGED <<entries, key>>
      PROVE  IInv'
  <2>1. n \in UiNames /\ pending[r] \subseteq UiNames
    BY <1>1 DEF EntriesInv
  <2>2. /\ pending' \in [Runs -> SUBSET EntryNames] /\ pending'[r] \subseteq UiNames
        /\ path' \in [Runs -> UiNames \cup {Absent}] /\ path'[r] \in UiNames
        /\ \A q \in Runs \ {r} : pending'[q] = pending[q] /\ path'[q] = path[q]
    BY <1>1, <1>3, <2>1 DEF TypeOK
  <2>3. /\ pc' = [pc EXCEPT ![r] = "isDirectory"] /\ pc'[r] = "isDirectory"
        /\ job' = job /\ entries' = entries
    BY <1>1, <1>3 DEF TypeOK, Private, Goto
  <2>4. EntriesInv(r)'
    BY <1>1, <2>2, <2>3 DEF EntriesInv, ReadingUi, Turn, Signing, Finishing, Writing
  <2> QED
    BY <1>1, <1>3, <2>2, <2>3, <2>4, PrivateKeeps DEF TypeOK, Preparing
<1> QED
  BY <1>2, <1>3 DEF VisitPath

(* A test of the turn goes on to the next one, or ends the turn.            *)
LEMMA TurnKeeps ==
    ASSUME IInv, NEW r \in Runs, pc[r] \in Turn,
           \/ EndTurn(r)
           \/ \E l \in Turn : Goto(r, l) /\ Private /\ UNCHANGED <<path, key>>,
           UNCHANGED <<entries, pending>>
    PROVE  IInv'
<1>1. TypeOK /\ EntriesInv(r) /\ pc[r] \in Preparing /\ pc[r] # "enterTry"
  BY DEF IInv, RunInv, Preparing, Turn
<1>2. /\ path' \in [Runs -> UiNames \cup {Absent}]
      /\ path' = path \/ pc'[r] = "readUi"
      /\ \A q \in Runs \ {r} : path'[q] = path[q]
      /\ Private /\ key' = key /\ job' = job
  BY <1>1 DEF EndTurn, TypeOK, Private, Goto
<1>3. PICK l \in {"readUi"} \cup Turn : pc' = [pc EXCEPT ![r] = l] /\ pc'[r] = l
  BY <1>1 DEF EndTurn, Goto, TypeOK
<1>4. EntriesInv(r)'
  BY <1>1, <1>2, <1>3 DEF EntriesInv, ReadingUi, Turn, Signing, Finishing, Writing
<1> QED
  BY <1>1, <1>2, <1>3, <1>4, PrivateKeeps DEF TypeOK, Preparing, Turn

LEMMA IsDirectoryKeeps ==
    ASSUME IInv, NEW r \in Runs, IsDirectory(r)
    PROVE  IInv'
BY TurnKeeps DEF IsDirectory, Turn

LEMMA IsFileKeeps ==
    ASSUME IInv, NEW r \in Runs, IsFile(r)
    PROVE  IInv'
BY TurnKeeps, FailKeeps DEF IsFile, Turn, Ended

(* Whatever is read is the contents of a file.                              *)
LEMMA ReadUiFileKeeps ==
    ASSUME IInv, NEW r \in Runs, ReadUiFile(r)
    PROVE  IInv'
<1> DEFINE e == entries[r]
           n == path[r]
           d == Followed(n)
<1>1. TypeOK /\ EntriesInv(r) /\ pc[r] = "readFile" /\ pc[r] \in Preparing
  BY DEF IInv, RunInv, ReadUiFile, Preparing
<1>2. CASE d \notin UiContents
  BY <1>1, <1>2, FailKeeps DEF ReadUiFile, Ended
<1>3. CASE d \in UiContents
  <2>1. /\ n \in UiNames /\ Vetted(e) /\ e \in Entries
        /\ entries' = [entries EXCEPT ![r][n] = d]
        /\ path' = [path EXCEPT ![r] = Absent]
        /\ pc' = [pc EXCEPT ![r] = "readUi"]
        /\ Private /\ UNCHANGED <<pending, key>>
    BY <1>1, <1>3 DEF EntriesInv, Turn, ReadingUi, TypeOK, ReadUiFile, SetEntry, EndTurn, Goto
  <2>2. /\ [e EXCEPT ![n] = d] \in Entries /\ Vetted([e EXCEPT ![n] = d])
        /\ [e EXCEPT ![n] = d]["manifest.json"] = e["manifest.json"]
    BY <1>3, <2>1, UiEntryVetted
  <2>3. /\ entries' \in [Runs -> Entries]
        /\ entries'[r] = [e EXCEPT ![n] = d]
        /\ \A q \in Runs \ {r} : entries'[q] = entries[q]
    BY <1>1, <2>1, <2>2 DEF TypeOK
  <2>4. /\ path' \in [Runs -> UiNames \cup {Absent}]
        /\ \A q \in Runs \ {r} : path'[q] = path[q]
        /\ pc'[r] = "readUi" /\ job' = job
    BY <1>1, <2>1 DEF TypeOK, Private
  <2>5. EntriesInv(r)'
    BY <1>1, <2>1, <2>2, <2>3, <2>4 DEF EntriesInv, ReadingUi, Turn, Signing, Finishing, Writing
  <2> QED
    BY <1>1, <2>1, <2>3, <2>4, <2>5, PrivateKeeps DEF TypeOK, Preparing
<1> QED
  BY <1>2, <1>3

LEMMA ReadUiDoneKeeps ==
    ASSUME IInv, NEW r \in Runs, ReadUiDone(r)
    PROVE  IInv'
<1>1. TypeOK /\ EntriesInv(r) /\ pc[r] = "readUi" /\ pc[r] \in Preparing
  BY DEF IInv, RunInv, ReadUiDone, Preparing
<1>2. CASE Present(entries[r]) \cap UiNames = {}
  BY <1>1, <1>2, FailKeeps DEF ReadUiDone, Ended
<1>3. CASE Present(entries[r]) \cap UiNames # {}
  <2>1. /\ pc' = [pc EXCEPT ![r] = "checkInputs"] /\ pc'[r] = "checkInputs"
        /\ Private /\ UNCHANGED <<entries, pending, path, key>> /\ job' = job
    BY <1>1, <1>3 DEF ReadUiDone, Goto, Private, TypeOK
  <2>2. EntriesInv(r)'
    BY <1>1, <1>3, <2>1 DEF EntriesInv, ReadingUi, Turn, Signing, Finishing, Writing
  <2> QED
    BY <1>1, <2>1, <2>2, PrivateKeeps DEF TypeOK, Preparing
<1> QED
  BY <1>2, <1>3

(* Past the checks the entries are well formed: without a UI tree there are *)
(* no views to look for, because only version 4 has views.                  *)
LEMMA CheckInputsKeeps ==
    ASSUME IInv, NEW r \in Runs, CheckInputs(r)
    PROVE  IInv'
<1> DEFINE e == entries[r]
           m == e["manifest.json"]
           Good == /\ job[r].ui => m.views \subseteq Present(e)
                   /\ job[r].signing # "conflict"
           l == CASE job[r].signing = "private"  -> "deriveKey"
                  [] job[r].signing = "detached" -> "readPublicKey"
                  [] job[r].signing = "none"     -> "makeParent"
<1>1. TypeOK /\ EntriesInv(r) /\ pc[r] = "checkInputs" /\ pc[r] \in Preparing
  BY DEF IInv, RunInv, CheckInputs, Preparing
<1>2. CASE ~Good
  BY <1>1, <1>2, FailKeeps DEF CheckInputs, Ended
<1>3. CASE Good
  <2>1. job[r].signing \in {"private", "detached", "none"}
    BY <1>1, <1>3, PackagerAssumption DEF TypeOK, JobRecords, SigningModes
  <2>2. /\ l \in {"deriveKey", "readPublicKey", "makeParent"}
        /\ l = "deriveKey" => job[r].signing = "private"
        /\ l = "readPublicKey" => job[r].signing = "detached"
        /\ l = "makeParent" => job[r].signing = "none"
    BY <2>1
  <2>3. /\ pc' = [pc EXCEPT ![r] = l] /\ pc'[r] = l
        /\ Private /\ UNCHANGED <<entries, pending, path, key>> /\ job' = job
    BY <1>1, <1>3 DEF CheckInputs, Goto, Private, TypeOK
  <2>4. /\ Vetted(e)
        /\ m.version = 4 <=> job[r].ui
        /\ job[r].ui <=> Present(e) \cap UiNames # {}
    BY <1>1 DEF EntriesInv
  <2>5. m.version = 4 <=> m.views # {}
    BY <2>4, ContentsAssumption DEF Vetted, ManifestAccepted, ManifestRules
  <2>6. UiAccepted(e)
    BY <1>3, <2>4, <2>5 DEF UiAccepted
  <2>7. Ready(e)
    BY <2>4, <2>6 DEF WellFormed, Ready, Vetted, SignaturePaired, Unsigned, Present
  <2>8. l = "makeParent" => Publishable(job[r], e)
    BY <2>2, <2>7 DEF Publishable, Ready, SignatureCovers, Signed, Unsigned
  <2>9. EntriesInv(r)'
    BY <2>2, <2>3, <2>7, <2>8 DEF EntriesInv, ReadingUi, Turn, Signing, Finishing, Writing
  <2> QED
    BY <1>1, <2>2, <2>3, <2>9, PrivateKeeps DEF TypeOK, Preparing
<1> QED
  BY <1>2, <1>3

LEMMA DeriveKeyKeeps ==
    ASSUME IInv, NEW r \in Runs, DeriveKey(r)
    PROVE  IInv'
<1>1. TypeOK /\ EntriesInv(r) /\ pc[r] = "deriveKey" /\ pc[r] \in Preparing
  BY DEF IInv, RunInv, DeriveKey, Preparing
<1>2. CASE input.private_key \notin Keys
  BY <1>1, <1>2, FailKeeps DEF DeriveKey, Ended
<1>3. CASE input.private_key \in Keys
  <2>1. /\ pc' = [pc EXCEPT ![r] = "sign"] /\ pc'[r] = "sign"
        /\ key' = [key EXCEPT ![r] = input.private_key]
        /\ Private /\ UNCHANGED <<entries, pending, path>> /\ job' = job
    BY <1>1, <1>3 DEF DeriveKey, Goto, Private, TypeOK
  <2>2. /\ key'[r] \in Keys /\ key' \in [Runs -> Keys \cup {Absent, WrongSize}]
        /\ \A q \in Runs \ {r} : key'[q] = key[q]
    BY <1>1, <1>3, <2>1 DEF TypeOK
  <2>3. EntriesInv(r)'
    BY <1>1, <2>1, <2>2 DEF EntriesInv, ReadingUi, Turn, Signing, Finishing, Writing
  <2> QED
    BY <1>1, <2>1, <2>2, <2>3, PrivateKeeps DEF TypeOK, Preparing
<1> QED
  BY <1>2, <1>3

(* The signature is over the entries the run holds, whichever key made it.  *)
LEMMA SignKeeps ==
    ASSUME IInv, NEW r \in Runs, Sign(r)
    PROVE  IInv'
<1> DEFINE e == entries[r]
           signed == [e EXCEPT !["public_key.ed25519"] = key[r]]
           s == [key |-> input.private_key, digest |-> canonical_signature_digest(signed)]
           f == [signed EXCEPT !["signature.ed25519"] = s]
<1>1. TypeOK /\ EntriesInv(r) /\ pc[r] = "sign" /\ pc[r] \in Preparing
  BY DEF IInv, RunInv, Sign, Preparing
<1>2. CASE input.private_key \notin Keys
  BY <1>1, <1>2, FailKeeps DEF Sign, Ended
<1>3. CASE input.private_key \in Keys
  <2>1. /\ pc' = [pc EXCEPT ![r] = "makeParent"] /\ pc'[r] = "makeParent"
        /\ entries' = [entries EXCEPT ![r] = f]
        /\ Private /\ UNCHANGED <<pending, path, key>> /\ job' = job
    BY <1>1, <1>3 DEF Sign, Goto, Private, TypeOK
  <2>2. /\ e \in Entries /\ key[r] \in Keys /\ Ready(e)
        /\ job[r].signing = "private"
    BY <1>1 DEF EntriesInv, Signing, TypeOK
  <2>3. signed \in Entries
    BY <2>2, SetTyped, FormatNames DEF FileData
  <2>4. s \in Signatures
    BY <1>3, <2>3, DigestTyped DEF Signatures
  <2>5. /\ f \in Entries /\ WellFormed(f) /\ ManifestEncoded(f) /\ f["signature.ed25519"] = s
        /\ canonical_signature_digest(f) = canonical_signature_digest(signed)
    BY <2>2, <2>4, SignTyped
  <2>6. Publishable(job[r], f)
    BY <2>2, <2>5 DEF Publishable, SignatureCovers
  <2>7. /\ entries'[r] = f /\ entries' \in [Runs -> Entries]
        /\ \A q \in Runs \ {r} : entries'[q] = entries[q]
    BY <1>1, <2>1, <2>5 DEF TypeOK
  <2>8. EntriesInv(r)'
    BY <2>1, <2>6, <2>7 DEF EntriesInv, ReadingUi, Turn, Signing, Finishing, Writing
  <2> QED
    BY <1>1, <2>1, <2>7, <2>8, PrivateKeeps DEF TypeOK, Preparing
<1> QED
  BY <1>2, <1>3

LEMMA ReadPublicKeyKeeps ==
    ASSUME IInv, NEW r \in Runs, ReadPublicKey(r)
    PROVE  IInv'
<1>1. TypeOK /\ EntriesInv(r) /\ pc[r] = "readPublicKey" /\ pc[r] \in Preparing
  BY DEF IInv, RunInv, ReadPublicKey, Preparing
<1>2. CASE input.public_key = Absent
  BY <1>1, <1>2, FailKeeps DEF ReadPublicKey, Ended
<1>3. CASE input.public_key # Absent
  <2>1. /\ pc' = [pc EXCEPT ![r] = "verifyDetached"] /\ pc'[r] = "verifyDetached"
        /\ key' = [key EXCEPT ![r] = input.public_key]
        /\ Private /\ UNCHANGED <<entries, pending, path>> /\ job' = job
    BY <1>1, <1>3 DEF ReadPublicKey, Goto, Private, TypeOK
  <2>2. input.public_key \in Keys \cup {Absent, WrongSize}
    BY <1>1 DEF TypeOK, InputRecords
  <2>3. /\ key' \in [Runs -> Keys \cup {Absent, WrongSize}]
        /\ \A q \in Runs \ {r} : key'[q] = key[q]
    BY <1>1, <2>1, <2>2 DEF TypeOK
  <2>4. EntriesInv(r)'
    BY <1>1, <2>1 DEF EntriesInv, ReadingUi, Turn, Signing, Finishing, Writing
  <2> QED
    BY <1>1, <2>1, <2>3, <2>4, PrivateKeeps DEF TypeOK, Preparing
<1> QED
  BY <1>2, <1>3

(* A detached signature goes in only if it verifies against the entries.    *)
LEMMA VerifyDetachedKeeps ==
    ASSUME IInv, NEW r \in Runs, VerifyDetached(r)
    PROVE  IInv'
<1> DEFINE e == entries[r]
           s == input.signature
           f == [e EXCEPT !["public_key.ed25519"] = key[r], !["signature.ed25519"] = s]
           Good == key[r] \in Keys /\ s \in Signatures /\ SignatureVerifies(f)
<1>1. TypeOK /\ EntriesInv(r) /\ pc[r] = "verifyDetached" /\ pc[r] \in Preparing
  BY DEF IInv, RunInv, VerifyDetached, Preparing
<1>2. CASE ~Good
  BY <1>1, <1>2, FailKeeps DEF VerifyDetached, Ended
<1>3. CASE Good
  <2>1. /\ pc' = [pc EXCEPT ![r] = "makeParent"] /\ pc'[r] = "makeParent"
        /\ entries' = [entries EXCEPT ![r] = f]
        /\ Private /\ UNCHANGED <<pending, path, key>> /\ job' = job
    BY <1>1, <1>3 DEF VerifyDetached, Goto, Private, TypeOK
  <2>2. e \in Entries /\ Ready(e)
    BY <1>1 DEF EntriesInv, Signing, TypeOK
  <2>3. f \in Entries /\ WellFormed(f) /\ ManifestEncoded(f)
    BY <1>3, <2>2, SignTyped
  <2>4. Publishable(job[r], f)
    BY <1>3, <2>3 DEF Publishable, SignatureCovers, SignatureVerifies
  <2>5. /\ entries'[r] = f /\ entries' \in [Runs -> Entries]
        /\ \A q \in Runs \ {r} : entries'[q] = entries[q]
    BY <1>1, <2>1, <2>3 DEF TypeOK
  <2>6. EntriesInv(r)'
    BY <2>1, <2>4, <2>5 DEF EntriesInv, ReadingUi, Turn, Signing, Finishing, Writing
  <2> QED
    BY <1>1, <2>1, <2>5, <2>6, PrivateKeeps DEF TypeOK, Preparing
<1> QED
  BY <1>2, <1>3

(* A step of the writing phase that leaves output, histories and the memory *)
(* of other runs alone.                                                     *)
LEMMA WritingKeeps ==
    ASSUME IInv, NEW r \in Runs, TypeOK', OthersKeep(r),
           UNCHANGED <<output, publisher, status>>, RunInv(r)'
    PROVE  IInv'
BY Frame, OutputFrame DEF OthersKeep, IInv

LEMMA MakeParentKeeps ==
    ASSUME IInv, NEW r \in Runs, MakeParent(r)
    PROVE  IInv'
<1>1. TypeOK /\ RunInv(r) /\ pc[r] = "makeParent"
  BY DEF IInv, MakeParent
<1>2. /\ pc' = [pc EXCEPT ![r] = "createTemp"] /\ out_dir' = TRUE
      /\ UNCHANGED <<input, output, job, entries, pending, path, key, file, linked,
                     status, published, publisher, edits, cleans>>
  BY DEF MakeParent, Goto, history, counters
<1>3. TypeOK'
  BY <1>1, <1>2 DEF TypeOK, PcValues, Preparing
<1>4. OthersKeep(r) /\ pc'[r] = "createTemp"
  BY <1>1, <1>2 DEF OthersKeep, TypeOK
<1>5. RunInv(r)'
  BY <1>1, <1>2, <1>4
     DEF RunInv, EntriesInv, FileInv, HistoryInv, ReadingUi, Turn, Signing, Finishing, Writing,
         Preparing, Ended
<1> QED
  BY <1>2, <1>3, <1>4, <1>5, WritingKeeps

(* An empty file is a file.                                                 *)
LEMMA EmptyFileTyped ==
    ASSUME NEW mode \in Modes
    PROVE  [EmptyFile EXCEPT !.mode = mode] \in Files /\ EmptyFile \in Files
BY DEF EmptyFile, Files, Entries, NoEntries, Modes, EntryNames, FixedNames

LEMMA CreateTempKeeps ==
    ASSUME IInv, NEW r \in Runs, CreateTemp(r)
    PROVE  IInv'
<1>1. TypeOK /\ RunInv(r) /\ pc[r] = "createTemp" /\ pc[r] \in Preparing
  BY DEF IInv, CreateTemp, Preparing
<1>2. CASE ~out_dir
  BY <1>1, <1>2, FailKeeps DEF CreateTemp, Ended
<1>3. CASE out_dir
  <2>1. /\ pc' = [pc EXCEPT ![r] = "enterTry"]
        /\ file' = [file EXCEPT ![r] = EmptyFile]
        /\ linked' = [linked EXCEPT ![r] = TRUE]
        /\ UNCHANGED <<input, output, out_dir, job, entries, pending, path, key,
                       status, published, publisher, edits, cleans>>
    BY <1>3 DEF CreateTemp, Goto, shared, history, counters
  <2>2. TypeOK'
    BY <1>1, <2>1, EmptyFileTyped DEF TypeOK, PcValues, Preparing, Modes
  <2>3. OthersKeep(r) /\ pc'[r] = "enterTry"
    BY <1>1, <2>1 DEF OthersKeep, TypeOK
  <2>4. RunInv(r)'
    BY <1>1, <2>1, <2>3
       DEF RunInv, EntriesInv, FileInv, HistoryInv, ReadingUi, Turn, Signing, Finishing, Writing,
           Preparing, Ended
  <2> QED
    BY <2>1, <2>2, <2>3, <2>4, WritingKeeps
<1> QED
  BY <1>2, <1>3

LEMMA EnterTryKeeps ==
    ASSUME IInv, NEW r \in Runs, EnterTry(r)
    PROVE  IInv'
<1>1. TypeOK /\ RunInv(r) /\ pc[r] = "enterTry"
  BY DEF IInv, EnterTry
<1>2. /\ pc' = [pc EXCEPT ![r] = "openZip"]
      /\ UNCHANGED <<input, output, out_dir, job, entries, pending, path, key, file, linked,
                     status, published, publisher, edits, cleans>>
  BY DEF EnterTry, Goto, Private, shared, history, counters
<1>3. TypeOK'
  BY <1>1, <1>2 DEF TypeOK, PcValues, Writing
<1>4. OthersKeep(r) /\ pc'[r] = "openZip"
  BY <1>1, <1>2 DEF OthersKeep, TypeOK
<1>5. RunInv(r)'
  BY <1>1, <1>2, <1>4
     DEF RunInv, EntriesInv, FileInv, HistoryInv, ReadingUi, Turn, Signing, Finishing, Writing,
         Preparing, Ended
<1> QED
  BY <1>2, <1>3, <1>4, <1>5, WritingKeeps

LEMMA OpenZipKeeps ==
    ASSUME IInv, NEW r \in Runs, OpenZip(r)
    PROVE  IInv'
<1> DEFINE zip == [EmptyFile EXCEPT !.mode = IF linked[r] THEN @ ELSE "umask"]
<1>1. TypeOK /\ RunInv(r) /\ pc[r] = "openZip" /\ pc[r] \in Writing
  BY DEF IInv, OpenZip, Writing
<1>2. CASE ~(linked[r] \/ out_dir)
  BY <1>1, <1>2, FailKeeps DEF OpenZip, Ended
<1>3. CASE linked[r] \/ out_dir
  <2>1. /\ pc' = [pc EXCEPT ![r] = "writeEntries"]
        /\ file' = [file EXCEPT ![r] = zip]
        /\ linked' = [linked EXCEPT ![r] = TRUE]
        /\ pending' = [pending EXCEPT ![r] = Present(entries[r])]
        /\ UNCHANGED <<input, output, out_dir, job, entries, path, key,
                       status, published, publisher, edits, cleans>>
    BY <1>3 DEF OpenZip, Goto, shared, history, counters
  <2>2. zip \in Files /\ zip.entries = NoEntries
    BY EmptyFileTyped DEF Modes, EmptyFile
  <2>3. TypeOK'
    BY <1>1, <2>1, <2>2 DEF TypeOK, PcValues, Writing, Present
  <2>4. OthersKeep(r) /\ pc'[r] = "writeEntries"
    BY <1>1, <2>1 DEF OthersKeep, TypeOK
  <2>5. \A n \in EntryNames \ pending'[r] : file'[r].entries[n] = entries'[r][n]
    BY <1>1, <2>1, <2>2 DEF TypeOK, Present, NoEntries
  <2>6. RunInv(r)'
    BY <1>1, <2>1, <2>4, <2>5
       DEF RunInv, EntriesInv, FileInv, HistoryInv, ReadingUi, Turn, Signing, Finishing, Writing,
           Preparing, Ended
  <2> QED
    BY <2>1, <2>3, <2>4, <2>6, WritingKeeps
<1> QED
  BY <1>2, <1>3

LEMMA WriteEntryKeeps ==
    ASSUME IInv, NEW r \in Runs, WriteEntry(r)
    PROVE  IInv'
<1>1. TypeOK /\ RunInv(r) /\ pc[r] = "writeEntries"
  BY DEF IInv, WriteEntry
<1>2. PICK n \in pending[r] :
        /\ file' = [file EXCEPT ![r].entries[n] = entries[r][n]]
        /\ pending' = [pending EXCEPT ![r] = @ \ {n}]
  BY DEF WriteEntry
<1>3. UNCHANGED <<input, output, out_dir, pc, job, entries, path, key, linked,
                 status, published, publisher, edits, cleans>>
  BY DEF WriteEntry, shared, history, counters
<1>4. n \in EntryNames /\ entries[r] \in Entries /\ file[r] \in Files
  BY <1>1 DEF TypeOK
<1> DEFINE old == file[r].entries
           new == [old EXCEPT ![n] = entries[r][n]]
<1>5. /\ new \in Entries
      /\ \A m \in EntryNames : new[m] = IF m = n THEN entries[r][n] ELSE old[m]
  <2>1. old \in Entries
    BY <1>4 DEF Files
  <2>2. /\ new \in [EntryNames -> FileData \cup Signatures \cup {Absent}]
        /\ \A m \in EntryNames : new[m] = IF m = n THEN entries[r][n] ELSE old[m]
    BY <1>4, <2>1 DEF Entries
  <2> QED
    BY <1>4, <2>1, <2>2, FormatNames DEF Entries
<1>6. file'[r] = [file[r] EXCEPT !.entries = new] /\ file'[r].entries = new
  BY <1>1, <1>2, <1>4 DEF TypeOK, Files
<1>7. /\ file' \in [Runs -> Files]
      /\ \A q \in Runs \ {r} : file'[q] = file[q]
  <2>1. file'[r] \in Files
    BY <1>4, <1>5, <1>6 DEF Files
  <2> QED
    BY <1>1, <1>2, <2>1 DEF TypeOK
<1>8. TypeOK'
  BY <1>1, <1>2, <1>3, <1>7 DEF TypeOK
<1>9. OthersKeep(r) /\ pc'[r] = "writeEntries" /\ pending'[r] = pending[r] \ {n}
  BY <1>1, <1>2, <1>3, <1>7 DEF OthersKeep, TypeOK
<1>10. \A m \in EntryNames \ pending'[r] : file'[r].entries[m] = entries'[r][m]
  BY <1>1, <1>3, <1>5, <1>6, <1>9 DEF RunInv, FileInv
<1>11. RunInv(r)'
  BY <1>1, <1>3, <1>9, <1>10
     DEF RunInv, EntriesInv, FileInv, HistoryInv, ReadingUi, Turn, Signing, Finishing, Writing,
         Preparing, Ended
<1> QED
  BY <1>3, <1>8, <1>9, <1>11, WritingKeeps

(* A closed ZIP holds every entry of the run: the loop has visited all that *)
(* are present, and the others are absent from both.                        *)
LEMMA CloseZipKeeps ==
    ASSUME IInv, NEW r \in Runs, CloseZip(r)
    PROVE  IInv'
<1>1. TypeOK /\ RunInv(r) /\ pc[r] = "writeEntries" /\ pending[r] = {}
  BY DEF IInv, CloseZip
<1>2. /\ pc' = [pc EXCEPT ![r] = "replace"]
      /\ file' = [file EXCEPT ![r].closed = TRUE]
      /\ UNCHANGED <<input, output, out_dir, job, entries, pending, path, key, linked,
                     status, published, publisher, edits, cleans>>
  BY DEF CloseZip, Goto, shared, history, counters
<1>3. /\ file'[r] \in Files /\ file'[r].closed
      /\ file'[r].entries = file[r].entries
      /\ \A q \in Runs \ {r} : file'[q] = file[q]
      /\ file' \in [Runs -> Files]
  BY <1>1, <1>2 DEF TypeOK, Files
<1>4. TypeOK'
  BY <1>1, <1>2, <1>3 DEF TypeOK, PcValues, Writing
<1>5. OthersKeep(r) /\ pc'[r] = "replace"
  BY <1>1, <1>2, <1>3 DEF OthersKeep, TypeOK
<1>6. file'[r].entries = entries'[r]
  <2>1. file[r].entries \in Entries /\ entries[r] \in Entries
    BY <1>1 DEF TypeOK, Files
  <2>2. \A n \in EntryNames : file[r].entries[n] = entries[r][n]
    BY <1>1 DEF RunInv, FileInv
  <2> QED
    BY <1>2, <1>3, <2>1, <2>2 DEF Entries
<1>7. RunInv(r)'
  BY <1>1, <1>2, <1>3, <1>5, <1>6
     DEF RunInv, EntriesInv, FileInv, HistoryInv, ReadingUi, Turn, Signing, Finishing, Writing,
         Preparing, Ended
<1> QED
  BY <1>2, <1>4, <1>5, <1>7, WritingKeeps

LEMMA ReplaceKeeps ==
    ASSUME IInv, NEW r \in Runs, Replace(r)
    PROVE  IInv'
<1>1. TypeOK /\ RunInv(r) /\ OutputInv /\ pc[r] = "replace" /\ pc[r] \in Writing
  BY DEF IInv, Replace, Writing
<1>2. CASE ~linked[r]
  BY <1>1, <1>2, FailKeeps DEF Replace, Ended
<1>3. CASE linked[r]
  <2>1. /\ pc' = [pc EXCEPT ![r] = "chmod"]
        /\ output' = file[r]
        /\ linked' = [linked EXCEPT ![r] = FALSE]
        /\ published' = published \cup {r} /\ publisher' = r
        /\ UNCHANGED <<input, out_dir, job, entries, pending, path, key, file, status, edits, cleans>>
    BY <1>3 DEF Replace, Goto, counters
  <2>2. TypeOK'
    BY <1>1, <2>1 DEF TypeOK, PcValues, Writing
  <2>3. OthersKeep(r) /\ pc'[r] = "chmod"
    BY <1>1, <2>1 DEF OthersKeep, TypeOK
  <2>4. RunInv(r)'
    BY <1>1, <2>1, <2>3
       DEF RunInv, EntriesInv, FileInv, HistoryInv, ReadingUi, Turn, Signing, Finishing, Writing,
           Preparing, Ended
  <2>5. /\ file[r] \in Files /\ file[r].closed
        /\ Publishable(job[r], file[r].entries)
    BY <1>1 DEF RunInv, FileInv, EntriesInv, Finishing, TypeOK
  <2>6. status[r] = "running"
    BY <1>1 DEF RunInv, HistoryInv
  <2>7. OutputInv'
    BY <2>1, <2>5, <2>6, NoFileAssumption DEF OutputInv, Publishable
  <2> QED
    BY <2>2, <2>3, <2>4, <2>7, Frame DEF IInv
<1> QED
  BY <1>2, <1>3

LEMMA ChmodKeeps ==
    ASSUME IInv, NEW r \in Runs, Chmod(r)
    PROVE  IInv'
<1>1. TypeOK /\ RunInv(r) /\ OutputInv /\ pc[r] = "chmod" /\ pc[r] \in Writing
  BY DEF IInv, Chmod, Writing
<1>2. CASE output = NoFile
  BY <1>1, <1>2, FailKeeps DEF Chmod, Ended
<1>3. CASE output # NoFile
  <2>1. /\ pc' = [pc EXCEPT ![r] = "unlink"]
        /\ output' = [output EXCEPT !.mode = "public"]
        /\ status' = [status EXCEPT ![r] = "ok"]
        /\ UNCHANGED <<input, out_dir, job, entries, pending, path, key, file, linked,
                       published, publisher, edits, cleans>>
    BY <1>3 DEF Chmod, Goto, counters
  <2>2. /\ output' \in Files /\ output'.mode = "public"
        /\ output'.entries = output.entries /\ output'.closed = output.closed
    BY <1>1, <1>3, <2>1 DEF TypeOK, Files, Modes
  <2>3. TypeOK'
    BY <1>1, <2>1, <2>2 DEF TypeOK, PcValues, Statuses
  <2>4. OthersKeep(r) /\ pc'[r] = "unlink"
    BY <1>1, <2>1 DEF OthersKeep, TypeOK
  <2>5. RunInv(r)'
    BY <1>1, <2>1, <2>4
       DEF RunInv, EntriesInv, FileInv, HistoryInv, ReadingUi, Turn, Signing, Finishing, Writing,
           Preparing, Ended
  <2>6. OutputInv'
    BY <1>1, <1>3, <2>1, <2>2, NoFileAssumption DEF OutputInv
  <2> QED
    BY <2>3, <2>4, <2>5, <2>6, Frame DEF IInv
<1> QED
  BY <1>2, <1>3

LEMMA UnlinkKeeps ==
    ASSUME IInv, NEW r \in Runs, Unlink(r)
    PROVE  IInv'
<1>1. TypeOK /\ RunInv(r) /\ pc[r] = "unlink"
  BY DEF IInv, Unlink
<1>2. /\ pc' = [pc EXCEPT ![r] = "exited"]
      /\ linked' = [linked EXCEPT ![r] = FALSE]
      /\ UNCHANGED <<input, output, out_dir, job, entries, pending, path, key, file,
                     status, published, publisher, edits, cleans>>
  BY DEF Unlink, Goto, shared, history, counters
<1>3. TypeOK'
  BY <1>1, <1>2 DEF TypeOK, PcValues
<1>4. OthersKeep(r) /\ pc'[r] = "exited"
  BY <1>1, <1>2 DEF OthersKeep, TypeOK
<1>5. RunInv(r)'
  BY <1>1, <1>2, <1>4
     DEF RunInv, EntriesInv, FileInv, HistoryInv, ReadingUi, Turn, Signing, Finishing, Writing,
         Preparing, Ended, TypeOK
<1> QED
  BY <1>2, <1>3, <1>4, <1>5, WritingKeeps

LEMMA CrashKeeps ==
    ASSUME IInv, NEW r \in Runs, Crash(r)
    PROVE  IInv'
<1>1. TypeOK /\ RunInv(r)
  BY DEF IInv
<1>2. /\ pc' = [pc EXCEPT ![r] = "crashed"]
      /\ UNCHANGED <<input, output, out_dir, job, entries, pending, path, key, file, linked,
                     status, published, publisher, edits, cleans>>
  BY DEF Crash, Goto, shared, history, counters
<1>3. TypeOK'
  BY <1>1, <1>2 DEF TypeOK, PcValues
<1>4. OthersKeep(r) /\ pc'[r] = "crashed"
  BY <1>1, <1>2 DEF OthersKeep, TypeOK
<1>5. RunInv(r)'
  BY <1>1, <1>2, <1>4
     DEF RunInv, EntriesInv, FileInv, HistoryInv, ReadingUi, Turn, Signing, Finishing, Writing,
         Preparing, Ended
<1> QED
  BY <1>2, <1>3, <1>4, <1>5, WritingKeeps

-----------------------------------------------------------------------------
(* The environment.                                                         *)

(* Changing an input file disturbs no run: what a run has read is its own.  *)
LEMMA EditKeeps ==
    ASSUME IInv, NEW inputs \in SUBSET InputRecords, Edit(inputs)
    PROVE  IInv'
<1>1. /\ input' \in InputRecords /\ edits < MaxEdits /\ edits' = edits + 1
      /\ UNCHANGED <<output, out_dir, pc, job, entries, pending, path, key, file, linked,
                     status, published, publisher, cleans>>
  BY DEF Edit, history
<1>2. TypeOK'
  BY <1>1, PackagerAssumption DEF IInv, TypeOK
<1>3. \A q \in Runs : RunInv(q)'
  BY <1>1 DEF IInv, RunInv, EntriesInv, FileInv, HistoryInv
<1>4. OutputInv'
  BY <1>1, OutputFrame
<1> QED
  BY <1>2, <1>3, <1>4 DEF IInv

LEMMA SignDetachedKeeps ==
    ASSUME IInv, SignDetached
    PROVE  IInv'
<1>1. PICK r \in Runs, k \in Keys :
        /\ job[r].format \in PayloadFormats
        /\ Edit({[input EXCEPT !.signature =
                  [key |-> k, digest |-> canonical_signature_digest(Staged(job[r], k))]]})
  BY DEF SignDetached
<1> DEFINE d == canonical_signature_digest(Staged(job[r], k))
<1>2. input \in InputRecords
  BY DEF IInv, TypeOK
<1>3. \A n \in EntryNames : Staged(job[r], k)[n] \in FileData \cup {Absent}
  <2> SUFFICES ASSUME NEW n \in EntryNames
               PROVE  Staged(job[r], k)[n] \in FileData \cup {Absent}
    OBVIOUS
  <2>1. /\ input.manifest \in FileData \cup {Absent}
        /\ input.payload \in FileData \cup {Absent}
        /\ k \in FileData /\ UiContents \subseteq FileData
        /\ input.manifest \in Manifests => Encoded(input.manifest) \in FileData
    BY <1>2, ContentsAssumption DEF InputRecords, FileData
  <2> QED
    BY <2>1 DEF Staged
<1>4. d \in Digests
  BY <1>3 DEF canonical_signature_digest, Digests
<1>5. {[input EXCEPT !.signature = [key |-> k, digest |-> d]]} \in SUBSET InputRecords
  <2>1. [key |-> k, digest |-> d] \in Signatures
    BY <1>4 DEF Signatures
  <2> QED
    BY <1>2, <2>1 DEF InputRecords
<1> QED
  BY <1>1, <1>5, EditKeeps

LEMMA CleanKeeps ==
    ASSUME IInv, Clean
    PROVE  IInv'
<1>1. /\ output' = NoFile /\ publisher' = NoRun /\ out_dir' = FALSE
      /\ linked' = [q \in Runs |-> FALSE]
      /\ cleans < MaxCleans /\ cleans' = cleans + 1
      /\ UNCHANGED <<input, pc, job, entries, pending, path, key, file, status, published, edits>>
  BY DEF Clean
<1>2. TypeOK'
  <2>1. TypeOK
    BY DEF IInv
  <2>2. linked' \in [Runs -> BOOLEAN]
    BY <1>1
  <2>3. cleans' \in 0..MaxCleans
    BY <1>1, <2>1, PackagerAssumption DEF TypeOK
  <2> QED
    BY <1>1, <2>1, <2>2, <2>3 DEF TypeOK
<1>3. \A q \in Runs : RunInv(q)'
  BY <1>1 DEF IInv, RunInv, EntriesInv, FileInv, HistoryInv
<1>4. OutputInv'
  BY <1>1, PackagerAssumption DEF OutputInv
<1> QED
  BY <1>2, <1>3, <1>4 DEF IInv

LEMMA EnvironmentKeeps ==
    ASSUME IInv, Environment
    PROVE  IInv'
<1>1. input \in InputRecords
  BY DEF IInv, TypeOK
<1>2. ASSUME EditManifest PROVE IInv'
  <2>1. {[input EXCEPT !.manifest = m] : m \in Manifests} \in SUBSET InputRecords
    BY <1>1 DEF InputRecords
  <2> QED
    BY <1>2, <2>1, EditKeeps DEF EditManifest
<1>3. ASSUME EditPayload PROVE IInv'
  <2>1. {[input EXCEPT !.payload = p] : p \in Payloads} \in SUBSET InputRecords
    BY <1>1 DEF InputRecords
  <2> QED
    BY <1>3, <2>1, EditKeeps DEF EditPayload
<1>4. ASSUME EditUi PROVE IInv'
  <2>1. {[input EXCEPT !.ui[n] = f] : n \in UiNames, f \in UiEdits} \in SUBSET InputRecords
    BY <1>1, PackagerAssumption DEF InputRecords
  <2> QED
    BY <1>4, <2>1, EditKeeps DEF EditUi
<1>5. ASSUME RotateKey PROVE IInv'
  <2>1. {[input EXCEPT !.private_key = k] : k \in Keys} \in SUBSET InputRecords
    BY <1>1 DEF InputRecords
  <2> QED
    BY <1>5, <2>1, EditKeeps DEF RotateKey
<1>6. ASSUME ReplacePublicKey PROVE IInv'
  <2>1. {[input EXCEPT !.public_key = k] : k \in Keys} \in SUBSET InputRecords
    BY <1>1 DEF InputRecords
  <2> QED
    BY <1>6, <2>1, EditKeeps DEF ReplacePublicKey
<1> QED
  BY <1>2, <1>3, <1>4, <1>5, <1>6, SignDetachedKeeps, CleanKeeps DEF Environment

-----------------------------------------------------------------------------
(* The theorems.                                                            *)

LEMMA InitInv == Init => IInv
<1> SUFFICES ASSUME Init PROVE IInv
  OBVIOUS
<1>1. NoEntries \in Entries
  BY DEF NoEntries, Entries, EntryNames, FixedNames
<1>2. TypeOK
  <2>1. EmptyFile \in Files
    BY EmptyFileTyped DEF Modes
  <2>2. /\ file \in [Runs -> Files] /\ entries \in [Runs -> Entries]
        /\ pending \in [Runs -> SUBSET EntryNames]
        /\ path \in [Runs -> UiNames \cup {Absent}]
        /\ key \in [Runs -> Keys \cup {Absent, WrongSize}]
        /\ linked \in [Runs -> BOOLEAN]
    BY <1>1, <2>1 DEF Init
  <2>3. /\ pc \in [Runs -> PcValues]
        /\ status \in [Runs -> Statuses]
    BY DEF Init, PcValues, Preparing, Statuses
  <2>4. /\ input \in InputRecords /\ out_dir \in BOOLEAN
        /\ job \in [Runs -> Jobs] /\ output \in Files \cup {NoFile}
        /\ published \subseteq Runs /\ publisher \in Runs \cup {NoRun}
    BY PackagerAssumption DEF Init
  <2>5. edits \in 0..MaxEdits /\ cleans \in 0..MaxCleans
    BY PackagerAssumption DEF Init
  <2> QED
    BY <2>2, <2>3, <2>4, <2>5 DEF TypeOK
<1>3. \A r \in Runs : RunInv(r)
  BY DEF Init, RunInv, EntriesInv, FileInv, HistoryInv, ReadingUi, Turn, Signing, Finishing,
         Writing, Preparing, Ended
<1>4. OutputInv
  BY PackagerAssumption DEF Init, OutputInv
<1> QED
  BY <1>2, <1>3, <1>4 DEF IInv

LEMMA NextInv == IInv /\ [Next]_vars => IInv'
<1> SUFFICES ASSUME IInv, [Next]_vars PROVE IInv'
  OBVIOUS
<1>1. ASSUME NEW r \in Runs, Step(r) PROVE IInv'
  BY <1>1, ReadManifestKeeps, ReadPayloadKeeps, EnumerateUiKeeps, VisitPathKeeps,
     IsDirectoryKeeps, IsFileKeeps, ReadUiFileKeeps, ReadUiDoneKeeps, CheckInputsKeeps, DeriveKeyKeeps, SignKeeps, ReadPublicKeyKeeps,
     VerifyDetachedKeeps, MakeParentKeeps, CreateTempKeeps, EnterTryKeeps, OpenZipKeeps, WriteEntryKeeps,
     CloseZipKeeps, ReplaceKeeps, ChmodKeeps, UnlinkKeeps
     DEF Step
<1>2. ASSUME NEW r \in Runs, Abort(r) PROVE IInv'
  BY <1>2, FailKeeps DEF Abort
<1>3. ASSUME NEW r \in Runs, Crash(r) PROVE IInv'
  BY <1>3, CrashKeeps
<1>4. CASE Environment
  BY <1>4, EnvironmentKeeps
<1>5. CASE UNCHANGED vars
  <2>1. UNCHANGED <<input, output, out_dir, pc, job, entries, pending, path, key, file, linked,
                   status, published, publisher, edits, cleans>>
    BY <1>5 DEF vars, shared, history, counters
  <2>2. TypeOK'
    BY <2>1 DEF IInv, TypeOK
  <2>3. \A q \in Runs : RunInv(q)'
    BY <2>1 DEF IInv, RunInv, EntriesInv, FileInv, HistoryInv
  <2>4. OutputInv'
    BY <2>1, OutputFrame
  <2> QED
    BY <2>2, <2>3, <2>4 DEF IInv
<1> QED
  BY <1>1, <1>2, <1>3, <1>4, <1>5 DEF Next

(* The inductive invariant holds in every reachable state.                  *)
THEOREM Invariance == Spec => []IInv
<1>1. IInv /\ [Next]_vars => IInv'
  BY NextInv
<1> QED
  BY InitInv, <1>1, PTL DEF Spec

(* Type correctness, for every set of runs, command lines and contents.     *)
THEOREM TypeCorrect == Spec => []TypeOK
<1>1. IInv => TypeOK
  BY DEF IInv
<1> QED
  BY <1>1, Invariance, PTL

(* The output is missing, or closed and well formed with a manifest encoded *)
(* from a valid one: see OutputComplete.                                    *)
THEOREM OutputIsComplete == Spec => []OutputComplete
<1>1. IInv => OutputComplete
  BY DEF IInv, OutputInv, OutputComplete
<1> QED
  BY <1>1, Invariance, PTL

(* What read_package may refuse in a package is the text of a number in its *)
(* manifest, or its size or density: without such inputs it takes them all. *)
THEOREM PlainOutputIsAccepted ==
    ASSUME \A m \in Manifests : m.text \notin {"swells", "overflows"} /\ m.dense,
           \A d \in Payloads \cup UiContents : d.dense
    PROVE  Spec => []OutputAccepted
<1>1. ASSUME OutputComplete, output # NoFile
      PROVE  ReaderAccepts(output.entries)
  <2> DEFINE e == output.entries
  <2>1. PICK m \in Manifests :
           /\ Loads(m) /\ m.text # "unencodable"
           /\ e["manifest.json"] = Encoded(m)
    BY <1>1 DEF OutputComplete, ManifestEncoded
  <2>2. e["manifest.json"].text \notin {"constant", "oversized"}
    BY <2>1 DEF Loads, Encoded
  <2> QED
    BY <1>1, <2>2 DEF OutputComplete, ReaderAccepts, ManifestLoads, WithinReaderLimits
<1> QED
  BY <1>1, OutputIsComplete, PTL DEF OutputAccepted

(* A published signature was made over exactly the published entries.       *)
THEOREM SignatureIsOverOutput == Spec => []SignatureCoversOutput
<1>1. IInv => SignatureCoversOutput
  BY DEF IInv, OutputInv, SignatureCoversOutput
<1> QED
  BY <1>1, Invariance, PTL

(* A package published with a detached signature verifies.                  *)
THEOREM DetachedVerifies == Spec => []DetachedOutputVerifies
<1>1. IInv => DetachedOutputVerifies
  BY DEF IInv, OutputInv, Publishable, DetachedOutputVerifies
<1> QED
  BY <1>1, Invariance, PTL

(* A run that exits by itself has left no temporary file, unless something  *)
(* was raised between its creation and the try, or by its removal.          *)
THEOREM TemporaryIsRemoved == Spec => []NoTemporaryLeft
<1>1. IInv => NoTemporaryLeft
  BY DEF IInv, RunInv, FileInv, Writing, NoTemporaryLeft
<1> QED
  BY <1>1, Invariance, PTL

(* The package of a run that reported success has mode 0644.                *)
THEOREM SuccessHasMode == Spec => []SuccessIsReadable
<1>1. IInv => SuccessIsReadable
  BY DEF IInv, OutputInv, SuccessIsReadable
<1> QED
  BY <1>1, Invariance, PTL

-----------------------------------------------------------------------------
(* The packager keeps the promise of module PackageOutput.                  *)

(* A step that ends no run and publishes nothing is not seen; nor is what   *)
(* happens to the status of a run before it ends.                           *)
Unseen(q) ==
    \/ pc[q] \notin Ended /\ pc'[q] \notin Ended
    \/ pc'[q] = pc[q] /\ status'[q] = status[q]

LEMMA OutcomeSame ==
    ASSUME UNCHANGED <<output, published>>, \A q \in Runs : Unseen(q)
    PROVE  UNCHANGED <<package, outcome>>
<1>1. package' = package
  BY DEF package
<1>2. outcome' = outcome
  BY DEF outcome, Unseen
<1> QED
  BY <1>1, <1>2

\* How a run may end, seen from outside.
PromiseEnd(r) == Promise!GiveUp(r) \/ Promise!Succeed(r) \/ Promise!EndUnreported(r)

(* A run that ends without having published gives up; one that has          *)
(* published has succeeded, or ends without reporting it.                   *)
LEMMA EndStep ==
    ASSUME IInv, NEW r \in Runs, NEW l \in Ended, pc[r] \notin Ended,
           pc' = [pc EXCEPT ![r] = l], UNCHANGED <<output, published>>,
           \A q \in Runs \ {r} : status'[q] = status[q]
    PROVE  PromiseEnd(r)
<1> DEFINE end == IF r \notin published THEN "failed"
                  ELSE IF l = "exited" /\ status'[r] = "ok" THEN "succeeded" ELSE "unreported"
<1>1. pc'[r] = l /\ \A q \in Runs \ {r} : pc'[q] = pc[q]
  BY DEF IInv, TypeOK
<1>2. outcome[r] = IF r \in published THEN "published" ELSE "running"
  BY DEF outcome
<1>3. outcome' = [outcome EXCEPT ![r] = end]
  BY <1>1 DEF outcome
<1>4. package' = package
  BY DEF package
<1> QED
  BY <1>2, <1>3, <1>4 DEF PromiseEnd, Promise!GiveUp, Promise!Succeed, Promise!EndUnreported

LEMMA FailStep ==
    ASSUME IInv, NEW r \in Runs, pc[r] \notin Ended, Fail(r)
    PROVE  PromiseEnd(r) \/ UNCHANGED <<package, outcome>>
<1> DEFINE l == IF pc[r] \in Writing THEN "unlink" ELSE "exited"
<1>1. /\ pc' = [pc EXCEPT ![r] = l] /\ UNCHANGED <<output, published>>
      /\ \A q \in Runs \ {r} : status'[q] = status[q]
  BY DEF Fail, Goto, shared, IInv, TypeOK
<1>2. CASE l = "exited"
  BY <1>1, <1>2, EndStep DEF Ended
<1>3. CASE l = "unlink"
  <2>1. \A q \in Runs : Unseen(q)
    BY <1>1, <1>3 DEF Unseen, IInv, TypeOK, Ended
  <2> QED
    BY <1>1, <2>1, OutcomeSame
<1> QED
  BY <1>2, <1>3

(* The steps that move a run on, without publishing or ending it.           *)
LEMMA MoveStep ==
    ASSUME IInv, NEW r \in Runs, NEW l \in PcValues \ Ended, pc[r] \notin Ended,
           pc' = [pc EXCEPT ![r] = l], UNCHANGED <<output, published>>,
           \A q \in Runs \ {r} : status'[q] = status[q]
    PROVE  UNCHANGED <<package, outcome>>
<1>1. \A q \in Runs : Unseen(q)
  BY DEF Unseen, IInv, TypeOK
<1> QED
  BY <1>1, OutcomeSame

(* The rename publishes a whole package at once, and chmod changes none.    *)
LEMMA ReplaceStep ==
    ASSUME IInv, NEW r \in Runs, Replace(r)
    PROVE  Promise!Publish(r) \/ PromiseEnd(r) \/ UNCHANGED <<package, outcome>>
<1>1. pc[r] = "replace" /\ pc[r] \in Writing
  BY DEF Replace, Writing
<1>2. CASE ~linked[r]
  BY <1>1, <1>2, FailStep DEF Replace, Ended
<1>3. CASE linked[r]
  <2>1. /\ pc' = [pc EXCEPT ![r] = "chmod"]
        /\ output' = file[r] /\ published' = published \cup {r} /\ status' = status
        /\ pc'[r] = "chmod" /\ \A q \in Runs \ {r} : pc'[q] = pc[q]
    BY <1>3 DEF Replace, Goto, IInv, TypeOK
  <2>2. r \notin published
    BY <1>1 DEF IInv, RunInv, HistoryInv, Ended
  <2>3. outcome[r] = "running"
    BY <1>1, <2>2 DEF outcome, Ended
  <2>4. outcome' = [outcome EXCEPT ![r] = "published"]
    BY <2>1 DEF outcome, Ended
  <2>5. /\ file[r] \in Files /\ file[r].closed
        /\ Publishable(job[r], file[r].entries)
    BY <1>1 DEF IInv, RunInv, FileInv, EntriesInv, Finishing, Writing, TypeOK
  <2>6. package' = [entries |-> file[r].entries, closed |-> TRUE]
    BY <2>1, <2>5, NoFileAssumption DEF package, Files
  <2>7. package' \in Acceptable
    BY <2>5, <2>6 DEF Acceptable, Publishable, Files
  <2> QED
    BY <2>3, <2>4, <2>7 DEF Promise!Publish
<1> QED
  BY <1>2, <1>3

LEMMA ChmodStep ==
    ASSUME IInv, NEW r \in Runs, Chmod(r)
    PROVE  PromiseEnd(r) \/ UNCHANGED <<package, outcome>>
<1>1. pc[r] = "chmod" /\ pc[r] \in Writing
  BY DEF Chmod, Writing
<1>2. CASE output = NoFile
  BY <1>1, <1>2, FailStep DEF Chmod, Ended
<1>3. CASE output # NoFile
  <2>1. /\ pc' = [pc EXCEPT ![r] = "unlink"] /\ published' = published
        /\ output' = [output EXCEPT !.mode = "public"]
        /\ pc'[r] = "unlink"
        /\ \A q \in Runs \ {r} : pc'[q] = pc[q] /\ status'[q] = status[q]
    BY <1>3 DEF Chmod, Goto, IInv, TypeOK
  <2>2. output \in Files
    BY <1>3 DEF IInv, TypeOK
  <2>3. output' \in Files /\ output'.entries = output.entries /\ output'.closed = output.closed
    BY <2>1, <2>2 DEF Files, Modes
  <2>4. package' = package
    BY <1>3, <2>3, NoFileAssumption DEF package
  <2>5. outcome' = outcome
    BY <1>1, <2>1 DEF outcome, Ended
  <2> QED
    BY <2>4, <2>5
<1> QED
  BY <1>2, <1>3

(* What the other steps of a run do, seen from outside.                     *)
LEMMA QuietStep ==
    ASSUME IInv, NEW r \in Runs,
           \/ ReadManifest(r) \/ ReadPayload(r) \/ EnumerateUi(r)
           \/ VisitPath(r) \/ IsDirectory(r) \/ IsFile(r) \/ ReadUiFile(r)
           \/ ReadUiDone(r) \/ CheckInputs(r) \/ DeriveKey(r) \/ Sign(r)
           \/ ReadPublicKey(r) \/ VerifyDetached(r) \/ MakeParent(r) \/ CreateTemp(r)
           \/ EnterTry(r) \/ OpenZip(r) \/ WriteEntry(r) \/ CloseZip(r)
    PROVE  PromiseEnd(r) \/ UNCHANGED <<package, outcome>>
<1>1. pc[r] \in Preparing \cup Writing /\ pc[r] \notin Ended
  BY DEF ReadManifest, ReadPayload, EnumerateUi, VisitPath, IsDirectory, IsFile, ReadUiFile,
         ReadUiDone, CheckInputs, DeriveKey, Sign, ReadPublicKey, VerifyDetached, MakeParent,
         CreateTemp, EnterTry, OpenZip, WriteEntry, CloseZip, Preparing, Writing, Ended
<1>2. CASE Fail(r)
  BY <1>1, <1>2, FailStep
<1>3. job[r].signing # "conflict" => job[r].signing \in {"private", "detached", "none"}
  BY PackagerAssumption DEF IInv, TypeOK, JobRecords, SigningModes
<1>4. \/ Fail(r)
      \/ /\ \E l \in PcValues \ Ended : pc' = [pc EXCEPT ![r] = l]
         /\ UNCHANGED <<output, published, status>>
  <2> USE DEF Goto, Private, shared, history, PcValues, Preparing, Writing, Ended
  <2>1. CASE ReadManifest(r)
    BY <2>1 DEF ReadManifest
  <2>2. CASE ReadPayload(r)
    BY <2>2 DEF ReadPayload
  <2>3. CASE EnumerateUi(r)
    BY <2>3 DEF EnumerateUi
  <2>4. CASE VisitPath(r)
    BY <2>4 DEF VisitPath
  <2>16. CASE IsDirectory(r)
    BY <2>16 DEF IsDirectory, EndTurn
  <2>17. CASE IsFile(r)
    BY <2>17 DEF IsFile
  <2>18. CASE ReadUiFile(r)
    BY <2>18 DEF ReadUiFile, EndTurn
  <2>19. CASE EnterTry(r)
    BY <2>19 DEF EnterTry
  <2>5. CASE ReadUiDone(r)
    BY <2>5 DEF ReadUiDone
  <2>6. CASE CheckInputs(r)
    BY <1>3, <2>6 DEF CheckInputs
  <2>7. CASE DeriveKey(r)
    BY <2>7 DEF DeriveKey
  <2>8. CASE Sign(r)
    BY <2>8 DEF Sign
  <2>9. CASE ReadPublicKey(r)
    BY <2>9 DEF ReadPublicKey
  <2>10. CASE VerifyDetached(r)
    BY <2>10 DEF VerifyDetached
  <2>11. CASE MakeParent(r)
    BY <2>11 DEF MakeParent
  <2>12. CASE CreateTemp(r)
    BY <2>12 DEF CreateTemp
  <2>13. CASE OpenZip(r)
    BY <2>13 DEF OpenZip
  <2>14. CASE WriteEntry(r)
    <3>1. pc = [pc EXCEPT ![r] = "writeEntries"]
      BY <2>14 DEF WriteEntry, IInv, TypeOK
    <3> QED
      BY <2>14, <3>1 DEF WriteEntry
  <2>15. CASE CloseZip(r)
    BY <2>15 DEF CloseZip
  <2> QED
    BY <2>1, <2>2, <2>3, <2>4, <2>5, <2>6, <2>7, <2>8, <2>9, <2>10, <2>11, <2>12,
       <2>13, <2>14, <2>15, <2>16, <2>17, <2>18, <2>19
<1> QED
  BY <1>1, <1>2, <1>4, MoveStep

LEMMA UnlinkOrCrashStep ==
    ASSUME IInv, NEW r \in Runs, Unlink(r) \/ Crash(r)
    PROVE  PromiseEnd(r) \/ UNCHANGED <<package, outcome>>
<1>1. /\ \E l \in Ended : pc' = [pc EXCEPT ![r] = l]
      /\ pc[r] \notin Ended
      /\ UNCHANGED <<output, published, status>>
  BY DEF Unlink, Crash, Goto, shared, history, Ended
<1> QED
  BY <1>1, EndStep

LEMMA EnvironmentStep ==
    ASSUME IInv, Environment
    PROVE  Promise!Remove \/ UNCHANGED <<package, outcome>>
<1>1. CASE Clean
  BY <1>1 DEF Clean, Promise!Remove, package, outcome
<1>2. CASE ~Clean
  <2>1. UNCHANGED <<output, published>> /\ \A q \in Runs : Unseen(q)
    BY <1>2 DEF Environment, EditManifest, EditPayload, EditUi, RotateKey,
                ReplacePublicKey, SignDetached, Edit, history, Unseen
  <2> QED
    BY <2>1, OutcomeSame
<1> QED
  BY <1>1, <1>2

(* Every execution of the packagers is one of PackageOutput: the output is  *)
(* replaced at once by a whole package, at most once by each run, never by  *)
(* a run that ends before its rename, and success is reported only of a     *)
(* package that was put in place.                                           *)
THEOREM KeepsPromise == Spec => ImplementsPromise
<1>1. Init => Promise!Init
  BY DEF Init, Promise!Init, package, outcome, Ended
<1>2. IInv /\ [Next]_vars => [Promise!Next]_<<package, outcome>>
  <2> SUFFICES ASSUME IInv, [Next]_vars
               PROVE  Promise!Next \/ UNCHANGED <<package, outcome>>
    OBVIOUS
  <2>1. ASSUME NEW r \in Runs, Step(r)
        PROVE  Promise!Next \/ UNCHANGED <<package, outcome>>
    BY <2>1, QuietStep, ReplaceStep, ChmodStep, UnlinkOrCrashStep DEF Step, PromiseEnd, Promise!Next
  <2>2. ASSUME NEW r \in Runs, Abort(r)
        PROVE  Promise!Next \/ UNCHANGED <<package, outcome>>
    BY <2>2, FailStep DEF Abort, PromiseEnd, Promise!Next
  <2>3. ASSUME NEW r \in Runs, Crash(r)
        PROVE  Promise!Next \/ UNCHANGED <<package, outcome>>
    BY <2>3, UnlinkOrCrashStep DEF PromiseEnd, Promise!Next
  <2>4. CASE Environment
    BY <2>4, EnvironmentStep DEF Promise!Next
  <2>5. CASE UNCHANGED vars
    BY <2>5, OutcomeSame DEF vars, shared, history, Unseen
  <2> QED
    BY <2>1, <2>2, <2>3, <2>4, <2>5 DEF Next
<1> QED
  BY <1>1, <1>2, Invariance, PTL DEF Spec, ImplementsPromise, Promise!Spec

-----------------------------------------------------------------------------
(* The makes around the packagers.                                          *)

\* The commands of the recipes look at the files of the packagers only.
LEMMA MakeLooks ==
    ASSUME NEW r \in Runs, Make(r) \/ StopMake(r)
    PROVE  UNCHANGED vars
BY DEF Make, StopMake, StartMake, PackagerEnds, VerifyPackage, TestArtifact, MakeDestination,
       OpenCopy, CopyBlock, EndCopy, Command

LEMMA ReleaseStep == [ReleaseNext]_release_vars => [Next]_vars
BY MakeLooks DEF ReleaseNext, release_vars, Packager, Next

(* The recipes around it do not change what the packager does: every        *)
(* theorem about Spec is one about ReleaseSpec.                             *)
THEOREM ReleaseIsPackaging == ReleaseSpec => Spec
<1>1. ReleaseInit => Init
  BY DEF ReleaseInit
<1> QED
  BY <1>1, ReleaseStep, PTL DEF ReleaseSpec, Spec

(* In the presence of makes, verifiers, copies and kills the output stays   *)
(* complete, a packager that ends leaves its temporary file only where      *)
(* NoTemporaryLeft says so, and a package of a successful run can be read.  *)
THEOREM ReleaseKeepsPackager ==
    ReleaseSpec => [](OutputComplete /\ NoTemporaryLeft /\ SuccessIsReadable)
BY ReleaseIsPackaging, OutputIsComplete, TemporaryIsRemoved, SuccessHasMode, PTL

(* ... and the output is what module PackageOutput promises of it.          *)
THEOREM ReleaseKeepsPromise == ReleaseSpec => ImplementsPromise
BY ReleaseIsPackaging, KeepsPromise

-----------------------------------------------------------------------------
(* Type correctness.                                                        *)

LEMMA NameTyped == \A r \in Runs : Name(r) \in Names
BY DEF Name, Names

LEMMA EmptyTyped == Empty \in [1..Blocks -> Runs \cup {NoRun, Hole}]
BY DEF Empty

LEMMA AfterVerifyTyped ==
    ASSUME MakesTypeOK, NEW r \in Runs
    PROVE  AfterVerify(r) \in {"done", "mkdir", "test"}
BY ReleaseAssumption DEF MakesTypeOK, AfterVerify, AllGoals

LEMMA GotoTyped ==
    ASSUME MakesTypeOK, NEW r \in Runs, NEW next \in Stages, GotoStage(r, next),
           UNCHANGED <<goal, source, copied, installed>>, overlapped' \in BOOLEAN,
           disturbed' \in [Names -> BOOLEAN]
    PROVE  MakesTypeOK'
BY DEF MakesTypeOK, GotoStage

LEMMA ReleaseTypeStep == IInv /\ MakesTypeOK /\ [ReleaseNext]_release_vars => MakesTypeOK'
<1> SUFFICES ASSUME IInv, MakesTypeOK, [ReleaseNext]_release_vars PROVE MakesTypeOK'
  OBVIOUS
<1>0. Blocks \in Nat /\ publisher \in Runs \cup {NoRun}
  BY ReleaseAssumption DEF IInv, TypeOK
<1>1. ASSUME NEW r \in Runs, Make(r) PROVE MakesTypeOK'
  <2>1. ASSUME NEW next \in Stages, GotoStage(r, next), Command(r) PROVE MakesTypeOK'
    BY <2>1, GotoTyped DEF Command, MakesTypeOK
  <2>2. CASE StartMake(r)
    BY <2>2, GotoTyped DEF StartMake, MakesTypeOK, Stages, Active
  <2>3. CASE PackagerEnds(r)
    BY <2>1, <2>3 DEF PackagerEnds, Stages, EndedStages
  <2>4. CASE VerifyPackage(r)
    BY <2>1, <2>4, AfterVerifyTyped DEF VerifyPackage, Stages, EndedStages
  <2>5. CASE TestArtifact(r)
    BY <2>1, <2>5 DEF TestArtifact, Stages, EndedStages
  <2>6. CASE MakeDestination(r)
    BY <2>1, <2>6 DEF MakeDestination, Stages
  <2>7. CASE OpenCopy(r)
    <3>1. CASE PackageExists(Name(r))
      <4>1. /\ source' = [source EXCEPT ![r] = IF Name(r) = "own" THEN publisher ELSE NoRun]
            /\ installed' = [installed EXCEPT ![Name(r)] = Empty]
            /\ disturbed' = [disturbed EXCEPT ![Name(r)] = Copying(Name(r)) # {}]
            /\ copied' = [copied EXCEPT ![r] = 0]
            /\ stage' = [stage EXCEPT ![r] = "copy"]
            /\ UNCHANGED <<goal, overlapped>>
        BY <2>7, <3>1 DEF OpenCopy, GotoStage
      <4>2. source' \in [Runs -> Runs \cup {NoRun}]
        BY <1>0, <4>1 DEF MakesTypeOK
      <4>3. installed' \in [Names -> [1..Blocks -> Runs \cup {NoRun, Hole}]]
        BY <4>1, EmptyTyped, NameTyped DEF MakesTypeOK
      <4>4. disturbed' \in [Names -> BOOLEAN]
        BY <4>1 DEF MakesTypeOK
      <4> QED
        BY <1>0, <4>1, <4>2, <4>3, <4>4 DEF MakesTypeOK, Stages
    <3>2. CASE ~PackageExists(Name(r))
      BY <2>1, <2>7, <3>2 DEF OpenCopy, Stages, EndedStages
    <3> QED
      BY <3>1, <3>2
  <2>8. CASE CopyBlock(r)
    <3>1. /\ copied[r] \in 0..Blocks /\ copied[r] < Blocks
          /\ source[r] \in Runs \cup {NoRun, Hole}
      BY <2>8 DEF CopyBlock, MakesTypeOK
    <3>2. installed' \in [Names -> [1..Blocks -> Runs \cup {NoRun, Hole}]]
      BY <2>8, <3>1 DEF CopyBlock, MakesTypeOK
    <3>3. copied' \in [Runs -> 0..Blocks]
      BY <1>0, <2>8, <3>1 DEF CopyBlock, MakesTypeOK
    <3> QED
      BY <2>8, <3>2, <3>3 DEF CopyBlock, MakesTypeOK
  <2>9. CASE EndCopy(r)
    BY <2>1, <2>9 DEF EndCopy, Stages, EndedStages
  <2> QED
    BY <1>1, <2>2, <2>3, <2>4, <2>5, <2>6, <2>7, <2>8, <2>9 DEF Make
<1>2. ASSUME NEW r \in Runs, StopMake(r) PROVE MakesTypeOK'
  BY <1>2, GotoTyped DEF StopMake, MakesTypeOK, Stages, EndedStages
<1>3. CASE UNCHANGED release
  BY <1>3 DEF release, MakesTypeOK
<1> QED
  BY <1>1, <1>2, <1>3 DEF ReleaseNext, Packager, release_vars

LEMMA MakesTyped == ReleaseSpec => []MakesTypeOK
<1>1. ASSUME ReleaseInit PROVE MakesTypeOK
  <2>1. copied \in [Runs -> 0..Blocks]
    BY <1>1, ReleaseAssumption DEF ReleaseInit
  <2>2. installed \in [Names -> [1..Blocks -> Runs \cup {NoRun, Hole}]]
    BY <1>1, EmptyTyped DEF ReleaseInit
  <2> QED
    BY <1>1, <2>1, <2>2 DEF ReleaseInit, MakesTypeOK, Stages
<1>2. ReleaseSpec => []IInv
  BY ReleaseIsPackaging, Invariance
<1> QED
  BY <1>1, <1>2, ReleaseTypeStep, PTL DEF ReleaseSpec

(* The recipes keep to their types: no copy writes past the package.        *)
THEOREM ReleaseTypeCorrect == ReleaseSpec => []ReleaseTypeOK
BY MakesTyped, ReleaseIsPackaging, TypeCorrect, PTL DEF ReleaseTypeOK

-----------------------------------------------------------------------------
(* What a packager may do to the others and to the output.                  *)

\* Once it has published, a packager writes no file any more; the output is
\* what somebody published, or it has been removed.
PackagerEffect(r) ==
    /\ job' = job
    /\ pc[r] \notin Ended
    /\ \A q \in Runs \ {r} : pc'[q] = pc[q] /\ file'[q] = file[q] /\ status'[q] = status[q]
    /\ r \in published => file'[r] = file[r]
    /\ status'[r] = "ok" => status[r] = "ok" \/ r \in published
    /\ \/ UNCHANGED <<output, publisher, published>>
       \/ /\ output' = file[r] /\ publisher' = r /\ published' = published \cup {r}
          /\ file' = file
       \/ /\ output # NoFile /\ output' # NoFile /\ output'.entries = output.entries
          /\ UNCHANGED <<publisher, published>>

LEMMA FailEffect ==
    ASSUME IInv, NEW r \in Runs, pc[r] \notin Ended, Fail(r)
    PROVE  PackagerEffect(r)
BY DEF Fail, Goto, IInv, TypeOK, PackagerEffect, shared, counters

LEMMA PrivateEffect ==
    ASSUME IInv, NEW r \in Runs, pc[r] \notin Ended, NEW l, Goto(r, l) \/ pc' = pc,
           UNCHANGED <<output, job, file, status, published, publisher>>
    PROVE  PackagerEffect(r)
BY DEF Goto, IInv, TypeOK, PackagerEffect

LEMMA StepEffect ==
    ASSUME IInv, NEW r \in Runs, Step(r) \/ Abort(r) \/ Crash(r)
    PROVE  PackagerEffect(r)
<1>0. TypeOK /\ HistoryInv(r)
  BY DEF IInv, RunInv
<1>1. CASE \/ ReadManifest(r) \/ ReadPayload(r) \/ EnumerateUi(r) \/ VisitPath(r)
           \/ IsDirectory(r) \/ IsFile(r) \/ ReadUiFile(r) \/ ReadUiDone(r) \/ EnterTry(r)
           \/ CheckInputs(r) \/ DeriveKey(r) \/ Sign(r) \/ ReadPublicKey(r) \/ VerifyDetached(r)
  <2>1. pc[r] \notin Ended
    BY <1>1 DEF ReadManifest, ReadPayload, EnumerateUi, VisitPath, IsDirectory, IsFile,
       ReadUiFile, ReadUiDone, EnterTry, CheckInputs, DeriveKey, Sign, ReadPublicKey,
       VerifyDetached, Ended
  <2>2. \/ Fail(r)
        \/ /\ pc' = pc \/ \E l : Goto(r, l)
           /\ UNCHANGED <<output, job, file, status, published, publisher>>
    BY <1>1 DEF ReadManifest, ReadPayload, EnumerateUi, VisitPath, IsDirectory, IsFile,
       ReadUiFile, ReadUiDone, EndTurn, EnterTry, CheckInputs, DeriveKey, Sign, ReadPublicKey,
       VerifyDetached, Private, shared, history
  <2> QED
    BY <2>1, <2>2, FailEffect, PrivateEffect
<1>2. CASE MakeParent(r) \/ Unlink(r) \/ Crash(r)
  <2>1. pc[r] \notin Ended
    BY <1>2 DEF MakeParent, Unlink, Crash, Ended
  <2>2. /\ \E l : Goto(r, l)
        /\ UNCHANGED <<output, job, file, status, published, publisher>>
    BY <1>2 DEF MakeParent, Unlink, Crash, shared, history
  <2> QED
    BY <2>1, <2>2, PrivateEffect
<1>3. CASE Abort(r)
  BY <1>3, FailEffect DEF Abort, Preparing, Writing, Ended
<1>4. CASE CreateTemp(r) \/ OpenZip(r) \/ WriteEntry(r) \/ CloseZip(r)
  <2>1. pc[r] \in {"createTemp", "openZip", "writeEntries"}
    BY <1>4 DEF CreateTemp, OpenZip, WriteEntry, CloseZip
  <2>2. r \notin published /\ pc[r] \notin Ended
    BY <1>0, <2>1 DEF HistoryInv, Ended
  <2>3. CASE Fail(r)
    BY <2>2, <2>3, FailEffect
  <2>4. CASE ~Fail(r)
    <3>1. /\ UNCHANGED <<output, job, status, published, publisher>>
          /\ pc' = pc \/ \E l : pc' = [pc EXCEPT ![r] = l]
          /\ \E f : file' = [file EXCEPT ![r] = f]
      <4>1. CASE CreateTemp(r)
        BY <2>4, <4>1 DEF CreateTemp, Goto, shared, history
      <4>2. CASE OpenZip(r)
        BY <2>4, <4>2 DEF OpenZip, Goto, shared, history
      <4>3. CASE WriteEntry(r)
        BY <4>3 DEF WriteEntry, shared, history
      <4>4. CASE CloseZip(r)
        BY <4>4 DEF CloseZip, Goto, shared, history
      <4> QED
        BY <1>4, <4>1, <4>2, <4>3, <4>4
    <3> QED
      BY <1>0, <2>2, <3>1 DEF PackagerEffect, TypeOK
  <2> QED
    BY <2>3, <2>4
<1>5. CASE Replace(r)
  <2>1. pc[r] = "replace" /\ pc[r] \notin Ended
    BY <1>5 DEF Replace, Ended
  <2>2. CASE Fail(r)
    BY <2>1, <2>2, FailEffect
  <2>3. CASE ~Fail(r)
    BY <1>0, <1>5, <2>1, <2>3 DEF Replace, Goto, PackagerEffect, TypeOK
  <2> QED
    BY <2>2, <2>3
<1>6. CASE Chmod(r)
  <2>1. pc[r] = "chmod" /\ pc[r] \notin Ended /\ r \in published
    BY <1>0, <1>6 DEF Chmod, Ended, HistoryInv
  <2>2. CASE Fail(r)
    BY <2>1, <2>2, FailEffect
  <2>3. CASE ~Fail(r)
    <3>1. output # NoFile /\ output' = [output EXCEPT !.mode = "public"]
      BY <1>6, <2>3 DEF Chmod
    <3>2. output' \in Files /\ output'.entries = output.entries
      BY <1>0, <3>1 DEF TypeOK, Files, Modes
    <3> QED
      BY <1>0, <1>6, <2>1, <2>3, <3>1, <3>2, NoFileAssumption DEF Chmod, Goto, PackagerEffect, TypeOK
  <2> QED
    BY <2>2, <2>3
<1> QED
  BY <1>1, <1>2, <1>3, <1>4, <1>5, <1>6 DEF Step

LEMMA EnvironmentEffect ==
    ASSUME Environment
    PROVE  /\ UNCHANGED <<job, pc, file, status, published>>
           /\ \/ UNCHANGED <<output, publisher>>
              \/ output' = NoFile /\ publisher' = NoRun
BY DEF Environment, EditManifest, EditPayload, EditUi, RotateKey, ReplacePublicKey, SignDetached,
   Clean, Edit, history

\* The command lines are fixed, and with them the name each make installs.
LEMMA JobFixed == IInv /\ [ReleaseNext]_release_vars => job' = job /\ goal' = goal
<1> SUFFICES ASSUME IInv, [ReleaseNext]_release_vars PROVE job' = job /\ goal' = goal
  OBVIOUS
<1>1. ASSUME NEW r \in Runs, Make(r) \/ StopMake(r) PROVE job' = job /\ goal' = goal
  <2>1. job' = job
    BY <1>1, MakeLooks DEF vars
  <2>2. goal' = goal
    BY <1>1 DEF Make, StopMake, StartMake, PackagerEnds, VerifyPackage, TestArtifact,
       MakeDestination, OpenCopy, CopyBlock, EndCopy, Command
  <2> QED
    BY <2>1, <2>2
<1>2. ASSUME NEW r \in Runs, Packager(r) PROVE job' = job /\ goal' = goal
  BY <1>2, StepEffect DEF Packager, PackagerEffect, release
<1>3. CASE Environment /\ UNCHANGED release
  BY <1>3, EnvironmentEffect DEF release
<1>4. CASE UNCHANGED release_vars
  BY <1>4 DEF release_vars, release, vars
<1> QED
  BY <1>1, <1>2, <1>3, <1>4 DEF ReleaseNext

LEMMA NameFixed ==
    ASSUME IInv, [ReleaseNext]_release_vars
    PROVE  \A r \in Runs : Name(r)' = Name(r)
BY JobFixed DEF Name

-----------------------------------------------------------------------------
(* What lies in the mods directory is whole.                                *)

\* The file is whole, or one cp has written the first blocks of it.
CopyOf(name) ==
    \/ Copying(name) = {} /\ \E p \in Runs \cup {NoRun, Hole} : Whole(name, p)
    \/ \E r \in Runs : /\ Copying(name) = {r}
                       /\ \A b \in 1..copied[r] : installed[name][b] = source[r]

CopyInv == \A name \in Names : ~disturbed[name] => CopyOf(name)

\* A step that neither starts nor ends a cp on a file, nor writes to it.
LEMMA CopyFrame ==
    ASSUME CopyInv, NEW name \in Names, Copying(name)' = Copying(name),
           installed'[name] = installed[name], disturbed'[name] = disturbed[name],
           \A q \in Copying(name) : copied'[q] = copied[q] /\ source'[q] = source[q],
           ~disturbed'[name]
    PROVE  CopyOf(name)'
<1>1. CASE Copying(name) = {} /\ \E p \in Runs \cup {NoRun, Hole} : Whole(name, p)
  BY <1>1 DEF Whole, CopyOf
<1>2. ASSUME NEW r \in Runs, Copying(name) = {r},
             \A b \in 1..copied[r] : installed[name][b] = source[r]
      PROVE  /\ Copying(name)' = {r}
             /\ \A b \in 1..copied'[r] : installed'[name][b] = source'[r]
  BY <1>2
<1> QED
  BY <1>1, <1>2 DEF CopyInv, CopyOf

LEMMA CopyStep ==
    IInv /\ MakesTypeOK /\ CopyInv /\ [ReleaseNext]_release_vars => CopyInv'
<1> SUFFICES ASSUME IInv, MakesTypeOK, CopyInv, [ReleaseNext]_release_vars,
                    NEW name \in Names, ~disturbed'[name]
             PROVE  CopyOf(name)'
  BY DEF CopyInv
<1>0. \A q \in Runs : Name(q)' = Name(q)
  BY NameFixed
<1>1. ASSUME NEW r \in Runs, stage[r] # "copy", NEW next \in Stages \ {"copy"}, GotoStage(r, next),
             UNCHANGED <<source, copied, installed, disturbed>>
      PROVE  CopyOf(name)'
  <2>1. Copying(name)' = Copying(name)
    BY <1>0, <1>1 DEF Copying, GotoStage, MakesTypeOK
  <2> QED
    BY <1>1, <2>1, CopyFrame
<1>2. ASSUME NEW r \in Runs, name # Name(r), \A q \in Runs \ {r} : stage'[q] = stage[q],
             \A q \in Runs \ {r} : copied'[q] = copied[q] /\ source'[q] = source[q],
             installed'[name] = installed[name], disturbed'[name] = disturbed[name]
      PROVE  CopyOf(name)'
  <2>1. Copying(name)' = Copying(name) /\ r \notin Copying(name)
    BY <1>0, <1>2 DEF Copying
  <2>2. Copying(name) \subseteq Runs
    BY DEF Copying
  <2> QED
    BY <1>2, <2>1, <2>2, CopyFrame
<1>3. ASSUME NEW r \in Runs, Make(r) PROVE CopyOf(name)'
  <2>1. CASE \/ StartMake(r) \/ PackagerEnds(r) \/ VerifyPackage(r) \/ TestArtifact(r)
             \/ MakeDestination(r)
    BY <2>1, <1>1, AfterVerifyTyped DEF StartMake, PackagerEnds, VerifyPackage, TestArtifact,
       MakeDestination, Command, Stages, EndedStages
  <2>2. CASE OpenCopy(r)
    <3>1. CASE PackageExists(Name(r))
      <4>1. /\ source' = [source EXCEPT ![r] = IF Name(r) = "own" THEN publisher ELSE NoRun]
            /\ installed' = [installed EXCEPT ![Name(r)] = Empty]
            /\ disturbed' = [disturbed EXCEPT ![Name(r)] = Copying(Name(r)) # {}]
            /\ copied' = [copied EXCEPT ![r] = 0]
            /\ stage' = [stage EXCEPT ![r] = "copy"]
            /\ stage[r] = "open"
        BY <2>2, <3>1 DEF OpenCopy, GotoStage
      <4>2. CASE name = Name(r)
        <5>1. Copying(name) = {}
          BY <4>1, <4>2 DEF MakesTypeOK
        <5>2. Copying(name)' = {r}
          BY <1>0, <4>1, <4>2, <5>1 DEF Copying, MakesTypeOK
        <5>3. copied'[r] = 0 /\ 1..0 = {}
          BY <4>1 DEF MakesTypeOK
        <5> QED
          BY <5>2, <5>3 DEF CopyOf
      <4>3. CASE name # Name(r)
        BY <1>2, <4>1, <4>3 DEF MakesTypeOK
      <4> QED
        BY <4>2, <4>3
    <3>2. CASE ~PackageExists(Name(r))
      BY <2>2, <3>2, <1>1 DEF OpenCopy, Command, Stages, EndedStages
    <3> QED
      BY <3>1, <3>2
  <2>3. CASE CopyBlock(r)
    <3>1. /\ stage[r] = "copy" /\ copied[r] \in 0..Blocks /\ copied[r] < Blocks
          /\ installed' = [installed EXCEPT ![Name(r)][copied[r] + 1] = source[r]]
          /\ copied' = [copied EXCEPT ![r] = copied[r] + 1]
          /\ UNCHANGED <<stage, source, disturbed>>
      BY <2>3 DEF CopyBlock, MakesTypeOK
    <3>2. CASE name = Name(r)
      <4>1. r \in Copying(name)
        BY <3>1, <3>2 DEF Copying
      <4>2. /\ Copying(name) = {r}
            /\ \A b \in 1..copied[r] : installed[name][b] = source[r]
        BY <3>1, <4>1 DEF CopyInv, CopyOf
      <4>3. Copying(name)' = {r}
        BY <1>0, <3>1, <4>2 DEF Copying
      <4>4. ASSUME NEW b \in 1..copied'[r] PROVE installed'[name][b] = source'[r]
        <5>1. copied'[r] = copied[r] + 1 /\ Blocks \in Nat
          BY <3>1, ReleaseAssumption DEF MakesTypeOK
        <5>2. b \in 1..copied[r] \/ b = copied[r] + 1
          BY <3>1, <5>1
        <5>3. b \in 1..Blocks /\ copied[r] + 1 \in 1..Blocks
          BY <3>1, <5>1
        <5>4. installed[name] \in [1..Blocks -> Runs \cup {NoRun, Hole}]
          BY DEF MakesTypeOK
        <5>5. installed'[name] = [installed[name] EXCEPT ![copied[r] + 1] = source[r]]
          BY <3>1, <3>2 DEF MakesTypeOK
        <5> QED
          BY <3>1, <4>2, <5>2, <5>3, <5>4, <5>5
      <4> QED
        BY <4>3, <4>4 DEF CopyOf
    <3>3. CASE name # Name(r)
      BY <1>2, <3>1, <3>3 DEF MakesTypeOK
    <3> QED
      BY <3>2, <3>3
  <2>4. CASE EndCopy(r)
    <3>1. /\ stage[r] = "copy" /\ copied[r] = Blocks
          /\ stage' = [stage EXCEPT ![r] = "done"]
          /\ UNCHANGED <<source, copied, installed, disturbed>>
      BY <2>4 DEF EndCopy, GotoStage, Command
    <3>2. CASE name = Name(r)
      <4>1. /\ Copying(name) = {r}
            /\ \A b \in 1..Blocks : installed[name][b] = source[r]
        BY <3>1, <3>2 DEF CopyInv, CopyOf, Copying
      <4>2. Copying(name)' = {}
        BY <1>0, <3>1, <4>1 DEF Copying, MakesTypeOK
      <4>3. installed[name] = [b \in 1..Blocks |-> source[r]] /\ source[r] \in Runs \cup {NoRun}
        BY <4>1 DEF MakesTypeOK
      <4> QED
        BY <3>1, <4>2, <4>3 DEF CopyOf, Whole
    <3>3. CASE name # Name(r)
      BY <1>2, <3>1, <3>3 DEF MakesTypeOK
    <3> QED
      BY <3>2, <3>3
  <2> QED
    BY <1>3, <2>1, <2>2, <2>3, <2>4 DEF Make
<1>4. ASSUME NEW r \in Runs, StopMake(r) PROVE CopyOf(name)'
  <2>1. CASE stage[r] = "copy"
    <3>1. name # Name(r)
      BY <1>4, <2>1 DEF StopMake, MakesTypeOK
    <3> QED
      BY <1>2, <1>4, <2>1, <3>1 DEF StopMake, GotoStage, MakesTypeOK
  <2>2. CASE stage[r] # "copy"
    BY <1>1, <1>4, <2>2 DEF StopMake, Stages, EndedStages
  <2> QED
    BY <2>1, <2>2
<1>5. CASE UNCHANGED release
  <2>1. Copying(name)' = Copying(name)
    BY <1>0, <1>5 DEF Copying, release
  <2> QED
    BY <1>5, <2>1, CopyFrame DEF release
<1> QED
  BY <1>3, <1>4, <1>5 DEF ReleaseNext, Packager, release_vars

LEMMA CopyInvariance == ReleaseSpec => [](IInv /\ MakesTypeOK /\ CopyInv)
<1>1. ASSUME ReleaseInit PROVE CopyInv
  BY <1>1 DEF ReleaseInit, CopyInv, CopyOf, Copying, Whole, Empty
<1>2. ReleaseSpec => []IInv
  BY ReleaseIsPackaging, Invariance
<1> QED
  BY <1>1, <1>2, MakesTyped, CopyStep, PTL DEF ReleaseSpec

(* A copy that was neither cut short nor met by another one has left one    *)
(* whole package in the mods directory, whatever happened to the package at *)
(* its path meanwhile.                                                      *)
THEOREM InstalledStaysWhole == ReleaseSpec => []InstalledWhole
<1>1. CopyInv => InstalledWhole
  BY DEF CopyInv, CopyOf, InstalledWhole
<1> QED
  BY <1>1, CopyInvariance, PTL

-----------------------------------------------------------------------------
(* What lies in the mods directory has been verified.                       *)

\* the commands after verify-package
Past == {"test", "mkdir", "open", "copy", "done"}

\* A make is past the packager only when its own run published and succeeded.
StageInv(r) ==
    /\ stage[r] = "idle" => r \notin published
    /\ stage[r] \in Past \cup {"verify"} => pc[r] = "exited" /\ status[r] = "ok"
    /\ status[r] = "ok" => r \in published
    /\ stage[r] \in Past \ {"done"} => goal[r] # "package"

StagesInv == (\A r \in Runs : StageInv(r)) /\ (output # NoFile => publisher \in Runs)

LEMMA PackagerKeepsStages ==
    ASSUME IInv, MakesTypeOK, StagesInv, NEW r \in Runs, Packager(r)
    PROVE  StagesInv'
<1>1. PackagerEffect(r) /\ stage[r] # "idle" /\ UNCHANGED release
  BY StepEffect DEF Packager
<1>2. ASSUME NEW q \in Runs PROVE StageInv(q)'
  <2>0. StageInv(q) /\ stage'[q] = stage[q] /\ goal'[q] = goal[q]
    BY <1>1 DEF StagesInv, release
  <2>1. CASE q = r
    <3>1. pc[r] # "exited" /\ stage[r] \notin Past \cup {"verify"}
      BY <1>1, <2>0, <2>1 DEF PackagerEffect, Ended, StageInv
    <3>2. r \in published => r \in published'
      BY <1>1 DEF PackagerEffect
    <3>3. status'[r] = "ok" => r \in published'
      BY <1>1, <2>0, <2>1, <3>2 DEF PackagerEffect, StageInv
    <3> QED
      BY <1>1, <2>0, <2>1, <3>1, <3>3 DEF StageInv
  <2>2. CASE q # r
    <3>1. /\ pc'[q] = pc[q] /\ status'[q] = status[q]
          /\ q \in published' <=> q \in published
      BY <1>1, <2>2 DEF PackagerEffect
    <3> QED
      BY <2>0, <3>1 DEF StageInv
  <2> QED
    BY <2>1, <2>2
<1>3. (output # NoFile => publisher \in Runs)'
  BY <1>1 DEF StagesInv, PackagerEffect
<1> QED
  BY <1>2, <1>3 DEF StagesInv

LEMMA StagesStep ==
    IInv /\ MakesTypeOK /\ StagesInv /\ [ReleaseNext]_release_vars => StagesInv'
<1> SUFFICES ASSUME IInv, MakesTypeOK, StagesInv, [ReleaseNext]_release_vars
             PROVE  StagesInv'
  OBVIOUS
<1>0. goal' = goal
  BY JobFixed
<1>1. ASSUME NEW r \in Runs, UNCHANGED vars, NEW next \in Stages, GotoStage(r, next),
             stage[r] # "idle", next # "idle",
             next \in Past \cup {"verify"} => pc[r] = "exited" /\ status[r] = "ok",
             next \in Past \ {"done"} => goal[r] # "package"
      PROVE  StagesInv'
  <2>1. ASSUME NEW q \in Runs PROVE StageInv(q)'
    <3>1. StageInv(q) /\ stage'[q] = IF q = r THEN next ELSE stage[q]
      BY <1>1 DEF StagesInv, GotoStage, MakesTypeOK
    <3>2. pc' = pc /\ status' = status /\ published' = published
      BY <1>1 DEF vars, history
    <3> QED
      BY <1>0, <1>1, <3>1, <3>2 DEF StageInv
  <2> QED
    BY <1>1, <2>1 DEF StagesInv, vars, shared, history
<1>2. ASSUME NEW r \in Runs, UNCHANGED <<vars, stage>> PROVE StagesInv'
  BY <1>0, <1>2 DEF StagesInv, StageInv, vars, shared, history
<1>3. ASSUME NEW r \in Runs, Make(r) PROVE StagesInv'
  <2>0. UNCHANGED vars /\ StageInv(r)
    BY <1>3, MakeLooks DEF StagesInv
  <2>1. CASE StartMake(r)
    <3>1. ASSUME NEW q \in Runs PROVE StageInv(q)'
      <4>1. StageInv(q) /\ stage'[q] = IF q = r THEN "package" ELSE stage[q]
        BY <2>1 DEF StagesInv, StartMake, GotoStage, MakesTypeOK
      <4>2. pc' = pc /\ status' = status /\ published' = published
        BY <2>0 DEF vars, history
      <4> QED
        BY <1>0, <4>1, <4>2 DEF StageInv, Past
    <3> QED
      BY <2>0, <3>1 DEF StagesInv, vars, shared, history
  <2>2. CASE PackagerEnds(r)
    BY <1>1, <2>0, <2>2 DEF PackagerEnds, Stages, EndedStages, Past
  <2>3. CASE VerifyPackage(r)
    <3>1. goal[r] \in AllGoals
      BY ReleaseAssumption DEF MakesTypeOK
    <3>2. AfterVerify(r) \in {"done", "mkdir", "test"}
      BY AfterVerifyTyped
    <3>3. AfterVerify(r) # "done" => goal[r] # "package"
      BY <3>1 DEF AfterVerify, AllGoals
    <3>4. pc[r] = "exited" /\ status[r] = "ok" /\ stage[r] = "verify"
      BY <2>0, <2>3 DEF VerifyPackage, StageInv
    <3>5. CASE GotoStage(r, "failed")
      BY <1>1, <2>0, <3>4, <3>5 DEF Stages, EndedStages, Past
    <3>6. CASE GotoStage(r, AfterVerify(r))
      BY <1>1, <2>0, <3>2, <3>3, <3>4, <3>6 DEF Stages, EndedStages, Past
    <3> QED
      BY <2>3, <3>5, <3>6 DEF VerifyPackage
  <2>4. CASE TestArtifact(r) \/ MakeDestination(r) \/ EndCopy(r)
    <3>1. pc[r] = "exited" /\ status[r] = "ok" /\ goal[r] # "package"
      BY <2>0, <2>4 DEF TestArtifact, MakeDestination, EndCopy, StageInv, Past
    <3> QED
      BY <1>1, <2>0, <2>4, <3>1 DEF TestArtifact, MakeDestination, EndCopy, Stages, EndedStages,
         Past
  <2>5. CASE OpenCopy(r)
    <3>1. pc[r] = "exited" /\ status[r] = "ok" /\ goal[r] # "package"
      BY <2>0, <2>5 DEF OpenCopy, StageInv, Past
    <3> QED
      BY <1>1, <2>0, <2>5, <3>1 DEF OpenCopy, Stages, EndedStages, Past
  <2>6. CASE CopyBlock(r)
    BY <1>2, <2>0, <2>6 DEF CopyBlock
  <2> QED
    BY <1>3, <2>1, <2>2, <2>3, <2>4, <2>5, <2>6 DEF Make
<1>4. ASSUME NEW r \in Runs, StopMake(r) PROVE StagesInv'
  <2>1. UNCHANGED vars
    BY <1>4, MakeLooks
  <2> QED
    BY <1>1, <1>4, <2>1 DEF StopMake, Stages, EndedStages, Past
<1>5. ASSUME NEW r \in Runs, Packager(r) PROVE StagesInv'
  BY <1>5, PackagerKeepsStages
<1>6. CASE Environment /\ UNCHANGED release
  <2>1. /\ UNCHANGED <<pc, status, published, stage, goal>>
        /\ UNCHANGED <<output, publisher>> \/ output' = NoFile
    BY <1>6, EnvironmentEffect DEF release
  <2> QED
    BY <2>1 DEF StagesInv, StageInv
<1>7. CASE UNCHANGED release_vars
  BY <1>7 DEF release_vars, release, vars, shared, history, StagesInv, StageInv
<1> QED
  BY <1>3, <1>4, <1>5, <1>6, <1>7 DEF ReleaseNext

LEMMA StagesInvariance == ReleaseSpec => []StagesInv
<1>1. ASSUME ReleaseInit PROVE StagesInv
  BY <1>1 DEF ReleaseInit, Init, StagesInv, StageInv, Past
<1> QED
  BY <1>1, CopyInvariance, StagesStep, PTL DEF ReleaseSpec

\* Every make installs the package at the path that cemod.mk writes.
OwnNames == SuffixConfigured \/ "docker-install" \notin Goals

\* the output is what r published, if r has published and nobody removed it
Owned(r) ==
    r \in published /\ output # NoFile => publisher = r /\ output.entries = file[r].entries

AloneInv ==
    ~overlapped =>
        /\ \A r, q \in Runs : Active(r) /\ Active(q) => r = q
        /\ \A r \in Runs : Active(r) => Owned(r)
        /\ \A r \in Runs : stage[r] \in Past => Verifies(file[r].entries)
        /\ \A r \in Runs : stage[r] = "copy" => source[r] = r

InstalledInv ==
    /\ \A r \in Runs : Name(r) = "own"
    /\ installed["suffixed"] = Empty
    /\ InstalledVerified

VerifiedInv == AloneInv /\ InstalledInv

\* What holds before each step.
Before == IInv /\ MakesTypeOK /\ CopyInv /\ StagesInv

LEMMA PackagerKeepsAlone ==
    ASSUME Before, AloneInv, NEW r \in Runs, Packager(r)
    PROVE  AloneInv'
<1>0. PackagerEffect(r) /\ stage[r] # "idle" /\ UNCHANGED release
  BY StepEffect DEF Packager, Before
<1> SUFFICES ASSUME ~overlapped PROVE AloneInv'
  BY <1>0 DEF release, AloneInv
<1>1. \A q \in Runs : Active(q)' => Active(q)
  BY <1>0 DEF Active, release, PackagerEffect
<1>2. Active(r) /\ pc[r] \notin Ended
  BY <1>0 DEF Active, PackagerEffect
<1>3. ASSUME NEW q \in Runs, Active(q)' PROVE Owned(q)'
  <2>1. q = r /\ Owned(r)
    BY <1>1, <1>2, <1>3 DEF AloneInv
  <2>2. CASE UNCHANGED <<output, publisher, published>>
    BY <1>0, <2>1, <2>2 DEF Owned, PackagerEffect
  <2>3. CASE output' = file[r] /\ publisher' = r /\ file' = file
    BY <2>1, <2>3 DEF Owned
  <2>4. CASE /\ output # NoFile /\ output' # NoFile /\ output'.entries = output.entries
             /\ UNCHANGED <<publisher, published>>
    BY <1>0, <2>1, <2>4 DEF Owned, PackagerEffect
  <2> QED
    BY <1>0, <2>2, <2>3, <2>4 DEF PackagerEffect
<1>4. ASSUME NEW q \in Runs, stage'[q] \in Past PROVE Verifies(file'[q].entries)
  <2>1. stage[q] \in Past /\ pc[q] \in Ended
    BY <1>0, <1>4 DEF release, Before, StagesInv, StageInv, Ended
  <2>2. q # r
    BY <1>2, <2>1
  <2>3. file'[q] = file[q]
    BY <1>0, <2>2 DEF PackagerEffect
  <2> QED
    BY <2>1, <2>3 DEF AloneInv
<1> QED
  BY <1>0, <1>1, <1>3, <1>4 DEF AloneInv, release

\* One command of a make that goes on to another one.
LEMMA GotoKeepsAlone ==
    ASSUME Before, AloneInv, ~overlapped, NEW r \in Runs, UNCHANGED vars, NEW next \in Stages,
           GotoStage(r, next), stage[r] \notin {"idle"} \cup EndedStages,
           next \in Past => Verifies(file[r].entries),
           \A q \in Runs : stage'[q] = "copy" => source'[q] = q
    PROVE  AloneInv'
<1>1. \A q \in Runs : stage'[q] = IF q = r THEN next ELSE stage[q]
  BY DEF GotoStage, Before, MakesTypeOK
<1>2. UNCHANGED <<pc, output, publisher, published, file>>
  BY DEF vars, shared, history
<1>3. \A q \in Runs : Active(q)' => Active(q)
  BY <1>1, <1>2 DEF Active
<1>4. \A q \in Runs : Owned(q)' = Owned(q)
  BY <1>2 DEF Owned
<1>5. ASSUME NEW q \in Runs, stage'[q] \in Past PROVE Verifies(file'[q].entries)
  BY <1>1, <1>2, <1>5 DEF AloneInv
<1> QED
  BY <1>1, <1>3, <1>4, <1>5 DEF AloneInv

LEMMA AloneStep == Before /\ VerifiedInv /\ [ReleaseNext]_release_vars => AloneInv'
<1> SUFFICES ASSUME Before, VerifiedInv, [ReleaseNext]_release_vars, ~overlapped'
             PROVE  AloneInv'
  BY DEF AloneInv
<1>0. AloneInv
  BY DEF VerifiedInv
<1>1. ASSUME NEW r \in Runs, Make(r) PROVE AloneInv'
  <2>0. UNCHANGED vars /\ StageInv(r)
    BY <1>1, MakeLooks DEF StagesInv, Before
  <2>1. CASE StartMake(r)
    <3>1. /\ \A q \in Runs : stage'[q] = IF q = r THEN "package" ELSE stage[q]
          /\ UNCHANGED <<pc, output, publisher, published, file, source>>
          /\ stage[r] = "idle" /\ ~overlapped /\ \A q \in Runs : ~Active(q)
      BY <2>0, <2>1 DEF StartMake, GotoStage, Before, MakesTypeOK, vars, shared, history
    <3>2. \A q \in Runs : Active(q)' => q = r
      BY <3>1 DEF Active
    <3>3. r \notin published'
      BY <2>0, <3>1 DEF StageInv
    <3>4. \A q \in Runs : stage'[q] \in Past => stage[q] \in Past /\ q # r
      BY <3>1 DEF Past
    <3>5. \A q \in Runs : stage'[q] = "copy" => stage[q] = "copy"
      BY <3>1
    <3> QED
      BY <1>0, <3>1, <3>2, <3>3, <3>4, <3>5 DEF AloneInv, Owned
  <2>2. CASE ~StartMake(r)
    <3>0. ~overlapped
      BY <1>1, <2>2 DEF Make, StartMake, PackagerEnds, VerifyPackage, TestArtifact,
         MakeDestination, OpenCopy, CopyBlock, EndCopy, Command
    <3>1. stage[r] \in Past => Verifies(file[r].entries)
      BY <1>0, <3>0 DEF AloneInv
    <3>2. ASSUME NEW next \in Stages \ {"copy"}, GotoStage(r, next), source' = source
          PROVE  \A q \in Runs : stage'[q] = "copy" => source'[q] = q
      BY <1>0, <3>0, <3>2 DEF AloneInv, GotoStage, Before, MakesTypeOK
    <3>3. CASE PackagerEnds(r)
      BY <1>0, <2>0, <3>0, <3>2, <3>3, GotoKeepsAlone DEF PackagerEnds, Command, Stages,
         EndedStages, Past
    <3>4. CASE VerifyPackage(r)
      <4>1. stage[r] = "verify" /\ status[r] = "ok" /\ r \in published /\ Active(r)
        BY <2>0, <3>4 DEF VerifyPackage, StageInv, Active, EndedStages
      <4>2. output # NoFile => output.entries = file[r].entries
        BY <1>0, <3>0, <4>1 DEF AloneInv, Owned
      <4>3. AfterVerify(r) \in {"done", "mkdir", "test"}
        BY AfterVerifyTyped DEF Before
      <4> QED
        BY <1>0, <2>0, <3>0, <3>2, <3>4, <4>1, <4>2, <4>3, GotoKeepsAlone DEF VerifyPackage,
           Command, Stages, EndedStages, Past
    <3>5. CASE TestArtifact(r) \/ MakeDestination(r) \/ EndCopy(r)
      BY <1>0, <2>0, <3>0, <3>1, <3>2, <3>5, GotoKeepsAlone DEF TestArtifact, MakeDestination,
         EndCopy, Command, Stages, EndedStages, Past
    <3>6. CASE OpenCopy(r)
      <4>1. CASE PackageExists(Name(r))
        <5>1. /\ stage[r] = "open" /\ GotoStage(r, "copy") /\ output # NoFile
              /\ source' = [source EXCEPT ![r] = publisher]
          BY <3>6, <4>1 DEF OpenCopy, PackageExists, VerifiedInv, InstalledInv
        <5>2. r \in published /\ Active(r)
          BY <2>0, <5>1 DEF StageInv, Past, Active, EndedStages
        <5>3. publisher = r
          BY <1>0, <3>0, <5>1, <5>2 DEF AloneInv, Owned
        <5>4. \A q \in Runs : stage'[q] = "copy" => source'[q] = q
          BY <1>0, <3>0, <5>1, <5>3 DEF AloneInv, GotoStage, Before, MakesTypeOK
        <5> QED
          BY <1>0, <2>0, <3>0, <3>1, <5>1, <5>4, GotoKeepsAlone DEF Stages, EndedStages, Past
      <4>2. CASE ~PackageExists(Name(r))
        BY <1>0, <2>0, <3>0, <3>1, <3>2, <3>6, <4>2, GotoKeepsAlone DEF OpenCopy, Command,
           Stages, EndedStages, Past
      <4> QED
        BY <4>1, <4>2
    <3>7. CASE CopyBlock(r)
      BY <1>0, <2>0, <3>7 DEF CopyBlock, AloneInv, Active, Owned, vars, shared, history
    <3> QED
      BY <1>1, <2>2, <3>3, <3>4, <3>5, <3>6, <3>7 DEF Make
  <2> QED
    BY <2>1, <2>2
<1>2. ASSUME NEW r \in Runs, StopMake(r) PROVE AloneInv'
  <2>1. UNCHANGED vars /\ ~overlapped /\ GotoStage(r, "failed") /\ source' = source
    BY <1>2, MakeLooks DEF StopMake
  <2>2. \A q \in Runs : stage'[q] = "copy" => source'[q] = q
    BY <1>0, <2>1 DEF AloneInv, GotoStage, Before, MakesTypeOK
  <2> QED
    BY <1>0, <1>2, <2>1, <2>2, GotoKeepsAlone DEF StopMake, Stages, EndedStages, Past
<1>3. ASSUME NEW r \in Runs, Packager(r) PROVE AloneInv'
  BY <1>0, <1>3, PackagerKeepsAlone
<1>4. CASE Environment /\ UNCHANGED release
  <2>1. /\ UNCHANGED <<pc, status, published, file, stage, source, overlapped>>
        /\ UNCHANGED <<output, publisher>> \/ output' = NoFile
    BY <1>4, EnvironmentEffect DEF release
  <2> QED
    BY <1>0, <2>1 DEF AloneInv, Active, Owned
<1>5. CASE UNCHANGED release_vars
  BY <1>0, <1>5 DEF release_vars, release, vars, shared, history, AloneInv, Active, Owned
<1> QED
  BY <1>1, <1>2, <1>3, <1>4, <1>5 DEF ReleaseNext

\* A make that is done stays so, and its run writes no more.
LEMMA DoneStays ==
    ASSUME Before, [ReleaseNext]_release_vars, NEW p \in Runs, stage[p] = "done"
    PROVE  stage'[p] = "done" /\ file'[p] = file[p] /\ goal'[p] = goal[p]
<1>0. goal' = goal /\ pc[p] = "exited"
  BY JobFixed DEF Before, StagesInv, StageInv, Past
<1>1. ASSUME NEW r \in Runs, Make(r) \/ StopMake(r)
      PROVE  stage'[p] = "done" /\ file'[p] = file[p]
  <2>1. file' = file
    BY <1>1, MakeLooks DEF vars
  <2>2. r # p
    BY <1>1 DEF Make, StopMake, StartMake, PackagerEnds, VerifyPackage, TestArtifact,
       MakeDestination, OpenCopy, CopyBlock, EndCopy, EndedStages
  <2>3. stage' = stage \/ \E next : stage' = [stage EXCEPT ![r] = next]
    BY <1>1 DEF Make, StopMake, StartMake, PackagerEnds, VerifyPackage, TestArtifact,
       MakeDestination, OpenCopy, CopyBlock, EndCopy, GotoStage, Command
  <2> QED
    BY <2>1, <2>2, <2>3 DEF Before, MakesTypeOK
<1>2. ASSUME NEW r \in Runs, Packager(r) PROVE stage'[p] = "done" /\ file'[p] = file[p]
  BY <1>0, <1>2, StepEffect DEF Packager, PackagerEffect, release, Ended, Before
<1>3. CASE Environment /\ UNCHANGED release
  BY <1>3, EnvironmentEffect DEF release
<1>4. CASE UNCHANGED release_vars
  BY <1>4 DEF release_vars, release, vars
<1> QED
  BY <1>0, <1>1, <1>2, <1>3, <1>4 DEF ReleaseNext

\* the file in the mods directory, if a cp left one there
VerifiedFile ==
    Copying("own") = {} /\ ~disturbed["own"] /\ installed["own"] # Empty =>
        \E p \in Runs : /\ Whole("own", p)
                        /\ stage[p] = "done" /\ goal[p] # "package"
                        /\ Verifies(file[p].entries)

LEMMA InstalledStep == Before /\ VerifiedInv /\ [ReleaseNext]_release_vars => InstalledInv'
<1> SUFFICES ASSUME Before, VerifiedInv, [ReleaseNext]_release_vars PROVE InstalledInv'
  OBVIOUS
<1>0. /\ \A q \in Runs : Name(q) = "own" /\ Name(q)' = "own"
      /\ installed["suffixed"] = Empty /\ InstalledVerified
      /\ {"own", "suffixed"} = Names
  BY NameFixed DEF VerifiedInv, InstalledInv, Before, Names
<1>1. installed'["suffixed"] = Empty
  <2>1. installed' = installed \/ \E f : installed' = [installed EXCEPT !["own"] = f]
    <3>1. ASSUME NEW r \in Runs, Make(r)
          PROVE  installed' = installed \/ \E f : installed' = [installed EXCEPT !["own"] = f]
      BY <1>0, <3>1 DEF Make, StartMake, PackagerEnds, VerifyPackage, TestArtifact,
         MakeDestination, OpenCopy, CopyBlock, EndCopy, Command
    <3> QED
      BY <3>1 DEF ReleaseNext, StopMake, Packager, release, release_vars
  <2> QED
    BY <1>0, <2>1 DEF Before, MakesTypeOK
<1>2. ASSUME ~overlapped' PROVE VerifiedFile'
  <2>0. ~overlapped /\ VerifiedFile
    <3>1. ~overlapped
      BY <1>2 DEF ReleaseNext, Make, StartMake, PackagerEnds, VerifyPackage, TestArtifact,
         MakeDestination, OpenCopy, CopyBlock, EndCopy, Command, StopMake, Packager, release,
         release_vars
    <3> QED
      BY <1>0, <3>1 DEF InstalledVerified, VerifiedFile
  <2>1. ASSUME installed' = installed, disturbed'["own"] = disturbed["own"],
               Copying("own")' = {} => Copying("own") = {}
        PROVE  VerifiedFile'
    <3> SUFFICES ASSUME Copying("own")' = {}, ~disturbed'["own"], installed'["own"] # Empty
                 PROVE  \E p \in Runs : /\ Whole("own", p)'
                                        /\ stage'[p] = "done" /\ goal'[p] # "package"
                                        /\ Verifies(file'[p].entries)
      BY DEF VerifiedFile, Empty
    <3>1. PICK p \in Runs : /\ Whole("own", p)
                            /\ stage[p] = "done" /\ goal[p] # "package"
                            /\ Verifies(file[p].entries)
      BY <2>0, <2>1 DEF VerifiedFile
    <3> QED
      BY <2>1, <3>1, DoneStays DEF Whole
  <2>2. ASSUME \/ stage' = stage
               \/ \E r \in Runs : stage[r] # "copy"
                                  /\ \E next : stage' = [stage EXCEPT ![r] = next]
        PROVE  Copying("own")' = {} => Copying("own") = {}
    BY <1>0, <2>2 DEF Copying, Before, MakesTypeOK
  <2>3. ASSUME NEW r \in Runs, Make(r) PROVE VerifiedFile'
    <3>1. CASE \/ StartMake(r) \/ PackagerEnds(r) \/ VerifyPackage(r) \/ TestArtifact(r)
               \/ MakeDestination(r)
      BY <2>1, <2>2, <3>1 DEF StartMake, PackagerEnds, VerifyPackage, TestArtifact,
         MakeDestination, Command, GotoStage
    <3>2. CASE OpenCopy(r) \/ CopyBlock(r)
      <4>1. \/ stage'[r] = "copy"
            \/ GotoStage(r, "failed") /\ Command(r) /\ stage[r] = "open"
        <5>1. CASE CopyBlock(r)
          BY <5>1 DEF CopyBlock
        <5>2. CASE OpenCopy(r) /\ PackageExists(Name(r))
          BY <5>2 DEF OpenCopy, GotoStage, Before, MakesTypeOK
        <5>3. CASE OpenCopy(r) /\ ~PackageExists(Name(r))
          BY <5>3 DEF OpenCopy
        <5> QED
          BY <3>2, <5>1, <5>2, <5>3
      <4>2. CASE stage'[r] = "copy"
        <5>1. r \in Copying("own")'
          BY <1>0, <4>2 DEF Copying
        <5> QED
          BY <5>1 DEF VerifiedFile
      <4>3. CASE GotoStage(r, "failed") /\ Command(r) /\ stage[r] = "open"
        BY <2>1, <2>2, <4>3 DEF GotoStage, Command
      <4> QED
        BY <4>1, <4>2, <4>3
    <3>3. CASE EndCopy(r)
      <4>1. /\ stage[r] = "copy" /\ copied[r] = Blocks /\ stage'[r] = "done"
            /\ UNCHANGED <<source, installed, disturbed>>
        BY <3>3 DEF EndCopy, GotoStage, Command, Before, MakesTypeOK
      <4>2. source[r] = r /\ Verifies(file[r].entries)
        BY <2>0, <4>1 DEF VerifiedInv, AloneInv, Past
      <4>3. file' = file /\ goal' = goal /\ goal[r] # "package"
        BY <2>3, <4>1, MakeLooks, JobFixed DEF vars, Before, StagesInv, StageInv, Past
      <4>4. r \in Copying("own")
        BY <1>0, <4>1 DEF Copying
      <4>5. ~disturbed["own"] => \A b \in 1..Blocks : installed["own"][b] = r
        BY <1>0, <4>1, <4>2, <4>4 DEF Before, CopyInv, CopyOf
      <4>6. ~disturbed'["own"] => Whole("own", r)'
        BY <4>1, <4>5, <1>0 DEF Whole, Before, MakesTypeOK
      <4> QED
        BY <4>1, <4>2, <4>3, <4>6 DEF VerifiedFile
    <3> QED
      BY <2>3, <3>1, <3>2, <3>3 DEF Make
  <2>4. ASSUME NEW r \in Runs, StopMake(r) PROVE VerifiedFile'
    <3>1. CASE stage[r] = "copy"
      <4>1. disturbed'["own"]
        BY <1>0, <2>4, <3>1 DEF StopMake, Before, MakesTypeOK
      <4> QED
        BY <4>1 DEF VerifiedFile
    <3>2. CASE stage[r] # "copy"
      BY <2>1, <2>2, <2>4, <3>2 DEF StopMake, GotoStage
    <3> QED
      BY <3>1, <3>2
  <2>5. CASE UNCHANGED release
    BY <2>1, <2>2, <2>5 DEF release
  <2> QED
    BY <2>3, <2>4, <2>5 DEF ReleaseNext, Packager, release_vars
<1>3. InstalledVerified'
  BY <1>0, <1>1, <1>2 DEF InstalledVerified, VerifiedFile, Empty
<1> QED
  BY <1>0, <1>1, <1>3 DEF InstalledInv

(* Where every make installs what lies at its own path and makes do not     *)
(* overlap, each package in the mods directory was built by a make whose    *)
(* verifier took that very package, and it is whole.                        *)
THEOREM InstalledIsVerified ==
    ASSUME OwnNames
    PROVE  ReleaseSpec => []InstalledVerified
<1>1. ASSUME ReleaseInit PROVE VerifiedInv
  <2>1. \A r \in Runs : goal[r] \in Goals /\ Name(r) = "own"
    BY <1>1 DEF ReleaseInit, OwnNames, Name
  <2>2. AloneInv
    BY <1>1 DEF ReleaseInit, AloneInv, Active, Past
  <2>3. installed["suffixed"] = Empty /\ InstalledVerified
    BY <1>1 DEF ReleaseInit, InstalledVerified, Names
  <2> QED
    BY <2>1, <2>2, <2>3 DEF VerifiedInv, InstalledInv
<1>2. Before /\ VerifiedInv /\ [ReleaseNext]_release_vars => VerifiedInv'
  BY AloneStep, InstalledStep DEF VerifiedInv
<1>3. ReleaseSpec => []Before
  BY CopyInvariance, StagesInvariance, PTL DEF Before
<1>4. VerifiedInv => InstalledVerified
  BY DEF VerifiedInv, InstalledInv
<1> QED
  BY <1>1, <1>2, <1>3, <1>4, PTL DEF ReleaseSpec
=============================================================================
