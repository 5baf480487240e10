---------------------------- MODULE ArchiveScan ----------------------------
(***************************************************************************)
(* read_package in tools/cemodlib.py: the scan of an archive whose central *)
(* directory may hold anything, then the checks across entries.            *)
(*                                                                         *)
(* A file name is the sequence of its components, as name.split("/")       *)
(* gives them: "/a" starts, and "a/" ends, with the component "".  The     *)
(* contents of entries are those of CemodFormat: an element of Keys is any *)
(* file of 32 bytes, one of Signatures any file of 64.                     *)
(***************************************************************************)
EXTENDS CemodFormat, Sequences, FiniteSetsExt

CONSTANTS
    Components,    \* the components of the names in archives
    Fold,          \* str.casefold on components
    BadComponents, \* with a control, backslash or non-ASCII character, or too long
    Drives,        \* a letter and a colon at the beginning
    PathOf,        \* how the names of CemodFormat are spelled
    Archives,      \* the archives that may be read
    Escaping,      \* manifest texts on which json.loads or validate_manifest
                   \* raises something that read_package does not catch
    MAX_PACKAGE_ENTRIES, MAX_EXPANDED_BYTES, MAX_UI_FILES, MAX_UI_FILE_BYTES,
    MAX_UI_BYTES, MAX_MANIFEST_BYTES, MAX_PAYLOAD_BYTES,
    MAX_COMPRESSION_RATIO,
    RATIO_FLOOR    \* 4096: the ratio of smaller files is not looked at

Names == Seq(Components) \ {<<>>}

(* How archive.read ends: with the declared number of bytes ("whole"), with *)
(* fewer ("short"), in an exception read_package turns into a rejection     *)
(* ("bad": BadZipFile on a wrong CRC), or in another one ("raises":         *)
(* zlib.error on a corrupt deflate stream).                                 *)
Infos == [name: Names, regular: BOOLEAN, supported: BOOLEAN,
          size: Nat, csize: Nat,
          read: {"whole", "short", "bad", "raises"},
          data: FileData \cup Signatures]

ASSUME LimitsAssumption ==
    /\ {MAX_PACKAGE_ENTRIES, MAX_EXPANDED_BYTES, MAX_UI_FILES, MAX_UI_FILE_BYTES,
        MAX_UI_BYTES, MAX_MANIFEST_BYTES, MAX_PAYLOAD_BYTES,
        MAX_COMPRESSION_RATIO, RATIO_FLOOR} \subseteq Nat \ {0}

ASSUME NamingAssumption ==
    /\ FixedNames \cup {"ui", "", ".", ".."} \subseteq Components
    /\ Fold \in [Components -> Components]
    /\ \A c \in FixedNames \cup {"ui", "", ".", ".."} : Fold[c] = c
    /\ (BadComponents \cup Drives) \cap (FixedNames \cup {"ui", "", ".", ".."}) = {}

\* The size of a text is that of its entry here, and what json.loads raises
\* ValueError for is in Escaping.
ASSUME TextsAssumption ==
    /\ Escaping \cap Manifests = {}
    /\ \A m \in Manifests : m.text = "plain"

ArchiveRecords == [readable: BOOLEAN, infos: Seq(Infos)]

ASSUME ArchivesAssumption == Archives \subseteq ArchiveRecords

VARIABLES
    archive,     \* the file: a readable ZIP or not, and its directory
    i,           \* the index in infos of the entry to scan next
    entries,     \* the dict of entries taken, by name (the info stands for the data)
    normalized,  \* the normalised names of the entries taken
    expanded, ui_files, ui_bytes,   \* the counters of the scan
    verdict

vars == <<archive, i, entries, normalized, expanded, ui_files, ui_bytes, verdict>>

Verdicts == {"opening", "scanning", "accepted", "rejected", "uncaught"}

-----------------------------------------------------------------------------
(* Names.                                                                   *)

FoldName(name) == [k \in DOMAIN name |-> Fold[name[k]]]

\* the components the loop does not skip, by their places
Parts(name) == {k \in DOMAIN name : name[k] \notin {"", "."}}

\* what _normalize_entry returns
Canonical(name) ==
    LET place(j) == CHOOSE k \in Parts(name) : Cardinality(Parts(name) \cap 1..k) = j
    IN  [j \in 1..Cardinality(Parts(name)) |-> Fold[name[place(j)]]]

\* the names on which _normalize_entry raises
UnsafeName(name) ==
    \/ name[1] \in {""} \cup Drives
    \/ name[Len(name)] = ""
    \/ \E k \in DOMAIN name : name[k] \in {".."} \cup BadComponents
    \/ Canonical(name) = <<>>

\* name.startswith("ui/")
IsUi(name) == Len(name) > 1 /\ name[1] = "ui"

Fixed == {<<n>> : n \in FixedNames}

AllowedEntry(name) == name \in Fixed \/ IsUi(name)

-----------------------------------------------------------------------------
(* One entry of the directory.                                              *)

OverUiLimits(info) ==
    /\ IsUi(info.name)
    /\ \/ ui_files + 1 > MAX_UI_FILES
       \/ info.size > MAX_UI_FILE_BYTES
       \/ ui_bytes + info.size > MAX_UI_BYTES

\* mutant: each entry is compared with the limit, not their total
OverSizeLimits_NoTotal(info) ==
    \/ info.size > MAX_EXPANDED_BYTES
    \/ info.size > 0 /\ info.csize = 0
    \/ /\ info.size > RATIO_FLOOR /\ info.csize > 0
       /\ (info.size - 1) \div info.csize >= MAX_COMPRESSION_RATIO

OverSizeLimits(info) ==
    \/ info.size > MAX_EXPANDED_BYTES - expanded
    \/ info.size > 0 /\ info.csize = 0
    \/ /\ info.size > RATIO_FLOOR /\ info.csize > 0
       /\ (info.size - 1) \div info.csize >= MAX_COMPRESSION_RATIO

\* mutant: only equal names are duplicates
Refused_ExactNames(info) ==
    \/ UnsafeName(info.name)
    \/ IsUi(info.name) /\ Canonical(info.name) # FoldName(info.name)
    \/ info.name \in DOMAIN entries
    \/ ~AllowedEntry(info.name)
    \/ ~info.regular
    \/ ~info.supported
    \/ OverUiLimits(info)
    \/ OverSizeLimits(info)

\* everything that is looked at before the entry is read
Refused(info) ==
    \/ UnsafeName(info.name)
    \/ IsUi(info.name) /\ Canonical(info.name) # FoldName(info.name)
    \/ Canonical(info.name) \in normalized
    \/ info.name \in DOMAIN entries
    \/ ~AllowedEntry(info.name)
    \/ ~info.regular
    \/ ~info.supported
    \/ OverUiLimits(info)
    \/ OverSizeLimits(info)

-----------------------------------------------------------------------------
(* The checks across entries.                                               *)

EntryData(n) == entries[<<n>>].data
UiEntries == {name \in DOMAIN entries : IsUi(name)}
PayloadName(m) == <<PayloadPath[m.format]>>

WrongManifestSize == entries[<<"manifest.json">>].size > MAX_MANIFEST_BYTES

WrongPayload(m) ==
    \/ {name \in DOMAIN entries : name \in {<<"mod.elf">>, <<"plugin.wps">>}} # {PayloadName(m)}
    \/ entries[PayloadName(m)].size \notin 1..MAX_PAYLOAD_BYTES
    \/ entries[PayloadName(m)].data \notin Payloads
    \/ m.format \notin entries[PayloadName(m)].data.validAs

\* mutant: only a missing signature is noticed, not a missing key
WrongSignature_OneWay ==
    /\ <<"public_key.ed25519">> \in DOMAIN entries
    /\ \/ <<"signature.ed25519">> \notin DOMAIN entries
       \/ EntryData("public_key.ed25519") \notin Keys
       \/ EntryData("signature.ed25519") \notin Signatures

WrongSignature ==
    \/ (<<"public_key.ed25519">> \in DOMAIN entries)
          # (<<"signature.ed25519">> \in DOMAIN entries)
    \/ /\ <<"public_key.ed25519">> \in DOMAIN entries
       /\ EntryData("public_key.ed25519") \notin Keys
          \/ EntryData("signature.ed25519") \notin Signatures

WrongUi(m) ==
    \/ m.version # 4 /\ UiEntries # {}
    \/ m.version = 4 /\ UiEntries = {}
    \/ \E view \in m.views : PathOf[view] \notin UiEntries

-----------------------------------------------------------------------------
Init ==
    /\ archive \in Archives
    /\ i = 1
    /\ entries = [name \in {} |-> Absent]
    /\ normalized = {}
    /\ expanded = 0 /\ ui_files = 0 /\ ui_bytes = 0
    /\ verdict = "opening"

Decide(v) ==
    /\ verdict' = v
    /\ UNCHANGED <<archive, i, entries, normalized, expanded, ui_files, ui_bytes>>

\* stat, the suffix, ZipFile() and the number of entries
Open ==
    /\ verdict = "opening"
    /\ Decide(IF archive.readable /\ Len(archive.infos) \in 1..MAX_PACKAGE_ENTRIES
              THEN "scanning" ELSE "rejected")

Scanning == verdict = "scanning" /\ i <= Len(archive.infos)

RefuseEntry ==
    /\ Scanning
    /\ \/ Refused(archive.infos[i])
       \/ archive.infos[i].read \in {"short", "bad"}
    /\ Decide("rejected")

ReadRaises ==
    /\ Scanning
    /\ ~Refused(archive.infos[i])
    /\ archive.infos[i].read = "raises"
    /\ Decide("uncaught")

TakeEntry ==
    /\ Scanning
    /\ LET info == archive.infos[i]
       IN  /\ ~Refused(info)
           /\ info.read = "whole"
           /\ entries' = [name \in DOMAIN entries \cup {info.name} |->
                             IF name = info.name THEN info ELSE entries[name]]
           /\ normalized' = normalized \cup {Canonical(info.name)}
           /\ expanded' = expanded + info.size
           /\ ui_files' = IF IsUi(info.name) THEN ui_files + 1 ELSE ui_files
           /\ ui_bytes' = IF IsUi(info.name) THEN ui_bytes + info.size ELSE ui_bytes
    /\ i' = i + 1
    /\ UNCHANGED <<archive, verdict>>

CheckEntries ==
    /\ verdict = "scanning"
    /\ i > Len(archive.infos)
    /\ Decide(
         IF <<"manifest.json">> \notin DOMAIN entries THEN "rejected"
         ELSE LET m == EntryData("manifest.json")
              IN  IF WrongManifestSize THEN "rejected"
                  ELSE IF m \in Escaping THEN "uncaught"
                  ELSE IF \/ m \notin Manifests
                          \/ ~m.valid
                          \/ WrongPayload(m) \/ WrongSignature \/ WrongUi(m)
                  THEN "rejected" ELSE "accepted")

Next == Open \/ RefuseEntry \/ ReadRaises \/ TakeEntry \/ CheckEntries

Spec == Init /\ [][Next]_vars

-----------------------------------------------------------------------------
(* Properties.                                                              *)

\* the bytes of the entries of infos with these indices
TotalSize(infos, indices) == MapThenSumSet(LAMBDA k : infos[k].size, indices)

UiIndices(infos) == {k \in DOMAIN infos : infos[k].name[1] = "ui"}

\* A fixed name, or a path of plain components below ui/.
WellNamed(name) ==
    \/ name \in Fixed
    \/ /\ name[1] = "ui" /\ Len(name) > 1
       /\ \A k \in 2..Len(name) : name[k] \notin {"", ".", ".."} \cup BadComponents

\* UiNames has a name for every proper path in the archives.
ASSUME SpellingAssumption ==
    /\ PathOf \in [EntryNames -> Names]
    /\ \A n \in FixedNames : PathOf[n] = <<n>>
    /\ \A m, n \in EntryNames : PathOf[m] = PathOf[n] => m = n
    /\ \A a \in Archives : \A k \in DOMAIN a.infos :
          WellNamed(a.infos[k].name) => \E n \in EntryNames : PathOf[n] = a.infos[k].name

AcceptableEntry(info) ==
    /\ WellNamed(info.name)
    /\ info.regular /\ info.supported /\ info.read = "whole"
    /\ info.size > 0 => info.csize > 0
    /\ info.size > RATIO_FLOOR => info.size <= MAX_COMPRESSION_RATIO * info.csize

\* The archive as CemodFormat sees one.
Contents(infos) ==
    [n \in EntryNames |->
        IF \E k \in DOMAIN infos : infos[k].name = PathOf[n]
        THEN infos[CHOOSE k \in DOMAIN infos : infos[k].name = PathOf[n]].data
        ELSE Absent]

SizesFit(infos) ==
    \A k \in DOMAIN infos :
        /\ infos[k].name = <<"manifest.json">> => infos[k].size <= MAX_MANIFEST_BYTES
        /\ infos[k].name \in {<<"mod.elf">>, <<"plugin.wps">>} =>
              infos[k].size \in 1..MAX_PAYLOAD_BYTES
        /\ infos[k].name = <<"public_key.ed25519">> => infos[k].data \in Keys
        /\ infos[k].name = <<"signature.ed25519">> => infos[k].data \in Signatures
        /\ IsUi(infos[k].name) => infos[k].size <= MAX_UI_FILE_BYTES

\* The archives read_package is meant to take, said of the directory as a
\* whole: nothing in it depends on the order of the entries.
Acceptable(a) ==
    LET infos == a.infos
        ui == UiIndices(a.infos)
    IN  /\ a.readable
        /\ Len(infos) \in 1..MAX_PACKAGE_ENTRIES
        /\ \A k \in DOMAIN infos : AcceptableEntry(infos[k])
        /\ \A j, k \in DOMAIN infos : FoldName(infos[j].name) = FoldName(infos[k].name) => j = k
        /\ TotalSize(infos, DOMAIN infos) <= MAX_EXPANDED_BYTES
        /\ Cardinality(ui) <= MAX_UI_FILES
        /\ TotalSize(infos, ui) <= MAX_UI_BYTES
        /\ SizesFit(infos)
        /\ WellFormed(Contents(infos))

\* Types, with the bounds of the counters.
TypeOK ==
    /\ archive \in ArchiveRecords
    /\ i \in 1..(Len(archive.infos) + 1)
    /\ DOMAIN entries \subseteq Names
    /\ \A name \in DOMAIN entries : entries[name] \in Infos
    /\ normalized = {Canonical(name) : name \in DOMAIN entries}
    /\ expanded \in 0..MAX_EXPANDED_BYTES
    /\ ui_files \in 0..MAX_UI_FILES
    /\ ui_bytes \in 0..MAX_UI_BYTES
    /\ verdict \in Verdicts

\* The early returns, the running counters and the set of normalised names
\* of the scan decide exactly what the directory as a whole deserves: every
\* archive that is accepted is acceptable, in whatever order its entries
\* stand, and no acceptable archive is turned away.
AcceptsExactly ==
    verdict \in {"accepted", "rejected", "uncaught"} =>
        (verdict = "accepted" <=> Acceptable(archive))

\* At every point of the scan the counters are the bytes and files really
\* taken, so that the limits hold of what has been expanded so far and not
\* only of an archive that is accepted at the end.
ScanBounds ==
    LET taken == 1..(i - 1)
        ui == UiIndices(archive.infos) \cap taken
    IN  /\ expanded = TotalSize(archive.infos, taken)
        /\ ui_files = Cardinality(ui)
        /\ ui_bytes = TotalSize(archive.infos, ui)
        /\ expanded <= MAX_EXPANDED_BYTES
        /\ ui_files <= MAX_UI_FILES /\ ui_bytes <= MAX_UI_BYTES

\* No two entries taken differ only in case or in how their path is spelled,
\* and none leaves the package: they can be unpacked side by side on a file
\* system that ignores case.
NamesDistinct ==
    /\ \A m, n \in DOMAIN entries :
          FoldName(m) = FoldName(n) \/ Canonical(m) = Canonical(n) => m = n
    /\ \A n \in DOMAIN entries : \A k \in DOMAIN n : n[k] # ".."

\* tests/fuzz_driver.py: "Every malformed input is a normal rejection".
MalformedIsRejected == verdict # "uncaught"
=============================================================================
