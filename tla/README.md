# A verification of cemod-sdk

`cemod-sdk` builds, signs, packages, inspects and verifies `.cemod` packages
(plugins for CemuExtend).  This directory holds TLA+ models of its tools, the
TLC configurations that check them on small instances, and TLAPS proofs of the
results that should hold for every instance.

## 1. The system

| Part | Source | State it keeps | Operations |
|---|---|---|---|
| Packager | `tools/package_cemod.py` | the dict of entries in memory, a temporary ZIP, the file at `--output` | read and validate manifest, payload, UI tree; sign or check a detached signature; write ZIP, rename, chmod, unlink |
| Package reader | `tools/cemodlib.py` `read_package`, `_normalize_entry`, `_allowed_entry` | entries, normalised names, expanded and UI counters | scan the ZIP directory, then the checks across entries |
| Manifest rules | `cemodlib.py` `validate_manifest`, `_validate_web_ui`, `_canonical_origin` | none | accept or refuse a JSON object |
| Signature digest | `cemodlib.py` `canonical_signature_digest`; `verify_cemod.py` `verify_signature` | none | hash the sorted entries; ask OpenSSL |
| WPS inspector | `cemodlib.py` `inspect_wups` | section list, file ranges, virtual ranges, metadata, descriptor lists | section scan, region checks, metadata loop, hooks, load descriptors, symbols, relocations, exports |
| Legacy ELF validator | `cemodlib.py` `validate_elf`; `verify_cemod.py` `bootstrap_section`, `verify_elf` | segments, byte totals | segment scan, section and relocation checks, CMB1 records |
| Permission report | `tools/inspect_wups.py` | none | compare the permissions a plugin seems to need with those of a manifest |
| Relocation rewriter | `tools/normalize_relocations.py` | one ELF file, in place | check the tables, rewrite relocation types |
| Build rules | `cemod.mk`, `cmake/CemodPackage.cmake` | `out/` tree, package path, the mods directory | link, build, package, verify-package, install, clean |
| Docker orchestration | `infra/docker/` | image, caches, markers, exported `out/` | build the image and the 16-bit stdlib, run the build, install the package |
| Raw plugin verifier | `tools/verify_wups.py` | none | call `inspect_wups`, print |

How they interact: `make package` runs the packager and then the verifier on
the same path; `make install` copies that path.  The packager and the reader
share `cemodlib`: the manifest rules, the payload validators and the digest
are the same code, the limits on sizes are not.  Everything is a sequential
process; what makes the system hard is that the processes share files: inputs
that others edit, an output path that several runs may write, a directory that
`make clean` removes, and runs that are killed.  The rest is parsing of
untrusted bytes with counters, offsets and overlap checks.

What makes each part correct:

- *Packager*: the output is a whole, well-formed package or missing; a run that
  fails before its rename leaves it alone, and only one that has published
  reports success (a failing `chmod` reports an error for a package that is in
  place); a signature covers exactly what is published; whatever is raised under
  the `try`, no temporary file is left behind; every run ends.
- *Reader*: the verdict of the scan is the intended one whatever the order of
  the entries; accepted names are canonical, distinct and inside the package;
  the limits hold at every step, not only at the end.
- *WPS inspector, ELF validator*: ranges that were checked one against the
  earlier ones are pairwise disjoint; totals stay within their bounds; each
  accepted pointer lies in one section; the metadata are those of the file.
- *Manifest rules*: rules across fields hold whatever branch a field is checked
  in; a field that must be known to be hashable is; versions build on one
  another.
- *Permission report*: what it asks for can be declared, and is then enough.
- *Relocation rewriter and its rule*: an image that was cut short or not
  rewritten is never accepted.
- *Build, install*: what is installed is the whole package that was built and
  verified.

## 2. Modules

| Module | What it is | Code |
|---|---|---|
| `CemodFormat` | contents of archives, the digest, which archives the reader and the verifier take | `cemodlib.py`, `verify_cemod.py` |
| `CemodPackager` | state machine of any number of packager runs, with the users, signers, kills and `make clean` around them | `package_cemod.py` |
| `PackageOutput` | abstract specification: what the packager promises about its output path | (stated of `package_cemod.py`) |
| `Release` | the makes around the packagers: package, verify-package, install, docker-install; extends `CemodPackager` | `cemod.mk`, `docker-build.sh`, `install-cemu-pack.sh` |
| `ArchiveScan` | the reader on a ZIP directory that may hold anything; extends `CemodFormat` | `cemodlib.py` `read_package` |
| `Manifest` | the manifest rules check by check, then the permission report; extends `CemodFormat` | `cemodlib.py` `validate_manifest`, `inspect_wups.py` |
| `WpsSections` | first half of the WPS inspector: sections, ranges, regions | `cemodlib.py` `inspect_wups` |
| `WpsImage` | the whole WPS inspector: extends `WpsSections` with the tables inside the sections | `cemodlib.py` `inspect_wups` |
| `WpsMetadata` | the loop over `.wups.meta`, byte by byte | `cemodlib.py` `inspect_wups` |
| `TrustedElf` | the legacy ELF validator, then the verifier's own look at the bootstrap records | `cemodlib.py` `validate_elf`, `verify_cemod.py` `verify_elf` |
| `ElfBuild` | the rule that links, copies and rewrites `mod.elf`, and may be interrupted; extends `TrustedElf` | `cemod.mk`, `normalize_relocations.py` |
| `MC*` | small instances for TLC: model values and the inputs to enumerate | |
| `*_proof` | inductive invariants and theorems, checked by TLAPS; those about `CemodPackager` open `Release_proof` | |
| `FiniteSums` | lemmas on sums over finite sets, for `ArchiveScan_proof` and `WpsSections_proof` | |

`CemodPackager` and `ArchiveScan` share `CemodFormat`, so that what is written
and what is read are judged by the same operators.  `CemodPackager` implements
`PackageOutput` (`Promise == INSTANCE PackageOutput`).  `WpsImage` extends
`WpsSections`, and its proofs use the theorems of that module through the
projection `ImageSpec => Spec`.  `WpsImage` takes the outcome of `WpsMetadata`
as an input (`metadata_ok`), since the metadata share no state with the tables.
`Release` composes the packagers with the makes that call them
(`ReleaseSpec => Spec`), `ElfBuild` the validator with the rule that makes its
input.  `Manifest` shows what `CemodFormat` assumes of a valid manifest
(`ManifestRules`, in `AcceptedIsConsistent`).

### CemodPackager

A run is one process.  `pc[r]` is where its `main` is; `entries[r]`, `key[r]`
are its local variables, `path[r]` the UI path the turn of `read_ui` looks at;
`file[r]`, `linked[r]` the temporary ZIP as an open file and
as a name.  `input`, `output` and `out_dir` are the file system that all runs
share.  One action is one access to the file system or one call of OpenSSL, as
that is where others can come between.  Two accesses are coarser: `rglob`, which
reads one directory after the other, and a read, which is the whole of `read_bytes`.

| Actions | Code |
|---|---|
| `ReadManifest`, `ReadPayload` | 127-164: read, validate, compare with the options, encode the manifest again |
| `EnumerateUi` | `read_ui` 27-36: `rglob` |
| `VisitPath`, `IsDirectory`, `IsFile`, `ReadUiFile` | 37-56: `is_symlink`, `is_dir`, `is_file` and the read of one path, each looking at what is there by now |
| `ReadUiDone` | 57-59: there was a file |
| `CheckInputs` | views present, signing options consistent |
| `DeriveKey`, `Sign` | `sign`: OpenSSL opens the key file twice |
| `ReadPublicKey`, `VerifyDetached` | the detached pair is read and verified |
| `MakeParent`, `CreateTemp`, `EnterTry`, `OpenZip`, `WriteEntry`, `CloseZip`, `Replace`, `Chmod`, `Unlink` | the publication, with its `try`/`finally` |
| `Abort`, `Crash` | an exception at any step, the `finally` clause included; a kill at any step |
| `EditManifest` ... `SignDetached`, `Clean` | users, detached signers, `make clean` |

`Fail` is the one error path: to the `finally` clause when the step is under
the `try`, to the end of the process otherwise.  `status` is "unguarded" where
no `finally` clause protects the temporary file: between its creation and the
`try` (189-191), and in the unlink itself (208).  `published` and `publisher`
are history variables.

A UI path is a content, nothing, a directory, something special, a file that is
too long, or a link to one of these; edits change it between any two looks.  A
FIFO, from which a read would wait, is left out.  A manifest carries what JSON
makes of its text: `Loads` says whether `json.loads` returns, `Encoded` what
`json.dumps` writes of the object.  Most texts come back in
meaning, but a number may grow, become `Infinity`, or a lone surrogate may have
no UTF-8 form.

### Release

A make is a process with a run of the packager of its own.  `stage[r]` is the
command of the recipes it is at; `source[r]` and `copied[r]` are the open file
and the progress of its `cp`; `installed` is the mods directory, block by
block.  A package is identified by the run that published it (`publisher`), and
a block by the package it came from.  `overlapped` and `disturbed` are history.

| Actions | Code |
|---|---|
| `StartMake`, `PackagerEnds` | `cemod.mk` 304-309: `package` calls the packager and goes by its exit status |
| `VerifyPackage` | 312-314, `verify_cemod.py` 125-141: whatever is at the path now |
| `TestArtifact`, `MakeDestination` | `install-cemu-pack.sh` 34-41; `cemod.mk` 325 |
| `OpenCopy`, `CopyBlock`, `EndCopy` | `cp`, at `cemod.mk` 326 and `install-cemu-pack.sh` 43 |
| `StopMake` | a command fails or make is killed; the packager may live on |
| `Packager`, `Environment` | every step of `CemodPackager` |

`Name` is the file name the installer makes up: `PROJECT_NAME` and a suffix for
WUPS, while `cemod.mk` names the package after `CEMOD_NAME`.
`SuffixConfigured` says that the project bridges the two itself.

### Manifest

A manifest is a record of what `json.loads` may return: every field may be
missing, null, of a wrong type that Python can hash (`Other`) or one that it cannot
(`Nested`).  `stage` is the check that comes next, `view` the turn of the loop
over the views.  Each `Check...` action is one paragraph of the code: it raises
`TypeError`, refuses, or goes on.  Rules that look at one field alone and cannot
raise (identifiers, title IDs, texts, sizes, unknown fields) are the Boolean
`well` of their object.  An origin is a scheme, a host, the notation it is
written in, and a port that may not be written; `CanonicalOrigin` is the string
`_canonical_origin` makes, in which capitals and long forms of an address are
folded and hexadecimal or shortened addresses are not.  `Report` is what `inspect_wups.py` does next with an accepted manifest
and a plugin that imports from some modules and patches functions or not.

### ArchiveScan

A directory is a sequence of entries (`Infos`): a name as a sequence of
components, the declared sizes, what kind of file it is, how reading it ends,
and its contents.  `Open`, `TakeEntry`, `RefuseEntry`, `ReadRaises` and
`CheckEntries` are the opening, one turn of the loop (taken, refused, or left by an
exception no handler names) and the checks after the loop.  `Refused` lists the checks of a turn
in the order of the code; their order is not observable, as each ends in the
same rejection.

### WpsSections, WpsImage

`phase` and `index` are the loop `inspect_wups` is in and the section it is at:
`scan` (contents, file ranges, total), `names`, `tables` (CRC and FILEINFO),
`addresses` (guest ranges), `regions`.  When they are done, `stage`, `table`
and `row` are the loop over tables: the metadata, hooks, load descriptors,
symbols and imports, each relocation section, each export section.  A header
keeps the fields that decisions are made on; the bytes behind it are
abstracted to what is asked of them (`inflated` and `ends`: how many bytes zlib
makes of them, and whether the stream ends there; `crc_matches`, `terminated`).
`RefuseSection` and `RefuseRow` are the `raise` statements.

### WpsMetadata

The section is a sequence of bytes, of which some lead or continue a UTF-8
character.  `ReadString` is one turn of the loop; `Advance` adds the number of
*characters* of the string to an offset in *bytes*, as the code does.

### TrustedElf

`stage` and `index` are the loop of `validate_elf`: header, program headers
(`SkipSegment`, `LoadSegment`), totals, names, sections with their symbols and relocations, bootstrap
records.  `Verify` is what `verify_elf` adds in another process.
`readelf` and `nm` are external: `entry` says that they have nothing to object to.

### ElfBuild

`linked` is what `objcopy` makes of the linker's output, `elf` the file at the
target, `make` where the rule is.  `Normalize` rewrites the file or raises;
`Killed` leaves a prefix of what `objcopy` or the rewriter was writing.  After a
refusal or a kill the target is newer than the objects and nothing deletes it:
`MakeAgain` takes it for built, `Clean` starts over.  `CheckElf` is
`validate_elf` and `verify_elf` on what is there.

## 3. Runs

| Run | What it asks | What it shows |
|---|---|---|
| `packager_concurrent` | two makes package, verify and install to the same paths, at once or one after the other, with an edit, a clean, aborts, failing commands and kills at every step | the output passes from whole package to whole package, a run that exits leaves no temporary file (but for the two places no `finally` guards), success means mode 0644, `PackageOutput` is implemented; a `cp` nobody met leaves one whole package, and where makes do not overlap it is the verified one of the make that copied it |
| `packager_inputs` | one run with every command line, against missing, wrong and changing inputs, keys and signatures, and UI paths that change between any two looks | nothing malformed is published, signatures are over what is published, a detached signature verifies, every run ends |
| `packager_limits` | does the reader take what the packager publishes? | not beyond its limits, and not with a number that became `Infinity`: see findings |
| `release_docker_install` | does docker-install install what it built? | not for WUPS, when a package is left over under the suffixed name |
| `archive_scan` | 9898 directories, at and beyond each limit | the scan accepts exactly what the directory as a whole deserves, its counters are right at every step, names are distinct |
| `archive_uncaught` | is every malformed archive a normal rejection? | no: exceptions other than `CemodError` leave `read_package` |
| `wps_image` | sections that abut, overlap, nest, leave the file, inflate around the limit, at every edge of every window; a plugin of fourteen sections, each table in its variants | exactly the legal section tables come through; ranges are disjoint, bounded, in their windows; code and call-through storage never share a byte, patches stay in their section, exactly the legal tables are accepted |
| `wps_metadata` | all texts of up to five characters of one, two and four bytes | the loop ends, loses no string, is exact for ASCII |
| `wps_metadata_exact` | are the metadata those of the section? | not after a character of more than one byte |
| `trusted_elf` | the rule that makes `mod.elf`, interrupted and repeated; segments at every distance, symbols, patches and records at every edge | what is accepted is the whole rewritten image; the rewriter refuses nothing that would be accepted; segments are disjoint, totals count addresses, handlers are code, exactly the legal images are accepted |
| `trusted_elf_verifier` | does the verifier take what the validator let into the package? | not a record with target 0 |
| `manifest` | manifests of every version, mode and format, with groups of related fields in all their variants | accepted manifests are consistent across fields and stay accepted in the next version; only five fields raise `TypeError`; the report can be followed, and raises for null fields only |

`AcceptsExactly`, `ImageAcceptsExactly`, `ElfAcceptsExactly` and `AsciiExact`
compare the sequential code with a reference definition that quantifies over
the whole input and has no loops, counters or early returns.  They catch both a
wrong input that comes through and a right one that is turned away.

### Bounds

- *Packager.*  `MaxEdits` bounds the edits of the inputs, `MaxCleans` the
  executions of `make clean`.  Two runs show every interference through the
  output, as a run only touches its own temporary file; one edit and one clean
  may fall between any two steps of either.  With one run two edits are
  allowed, and some initial states hold a genuine signature, so that a signed input can
  be changed, or changed and restored, while it is read.  Two UI names make an
  order of reading and a missing view possible; two keys a wrong one.  An edit
  may put another content, nothing, a directory, a link or a file beyond the
  limit at a UI path: two of them can fall between the looks at one path.
- *Release.*  Two makes and two blocks per package: one more make would meet
  the same two others only one at a time, and two blocks tell a whole package
  from a mixed one.  The payload may be edited once, into one that the reader
  refuses, before or between the makes; the output may be cleaned once.
- *Manifest.*  Groups of fields that some rule relates vary together, the others
  stay valid.  Lists have up to three elements, limits are 2 origins, 2 views and 3
  modules, so that each is reached and exceeded; ports are 0, 1, the default
  and the values around the limit; there are a name in two cases and an
  address in two notations.  The imports are one module at a time, two, or
  all of them.
- *Archive.*  Directories have up to four entries, and limits are a few bytes,
  so that each limit is reached, exceeded by one, and reached by a sum.
  Every pair of entries of the pool occurs, alone and after or before a valid package.
- *Sections.*  Six sections, of which two vary over kinds, flags, sizes and
  positions: every check compares one section with a constant or with one
  earlier section.  Files have 14 bytes, and sections expand to 18 to 21 bytes where 20 are
  allowed.  The windows are 20 addresses wide, the narrowest width the
  assumption on the constants allows.
- *Metadata.*  `MAX_STRING` is 8 bytes.  Five characters allow two pairs and a
  string between them; wider characters shift the offset by up to three.
- *Image.*  Pointers have two bytes, so that one can straddle an edge; text
  memory ends where data memory begins.  Each table takes its variants in turn,
  hooks, replacements and exports also together, since `CodeIsNotStorage`
  relates them.
- *ELF.*  36 addresses, 24 bytes of codecave, pointers of two bytes, up to
  four program headers and six sections.  A killed writer leaves nothing, all,
  or the image without its last one, two or four bytes: enough to lose the
  end of a section, of a table or nothing that counts.

`CHECK_DEADLOCK FALSE` stands in every configuration because every program
modelled here ends: the last state of a finished run has no successor.

### Fairness

`packager_inputs` assumes `WF_vars(Step(r))` for each run: the operating
system runs every process that can go on.  It assumes nothing of aborts, kills,
edits and cleans: they may or may not happen.  No action of a run waits for another run, so strong
fairness is not needed.  `wps_metadata` assumes `WF_vars(Next)`: the loop is
sequential code.  The other runs check safety only.

## 4. Findings

Each is a run that must find a violation; `PROJECT.json` quotes both sides.

1. `packager_limits`: the packager applies to what it writes neither the reader's
   compression ratio, nor its limit on the manifest, nor its rule on numbers:
   `1e400` in a field nobody looks into is loaded as an infinity and written as
   `Infinity`, on which `read_package` ends in a `ValueError`.  It replaces a good
   package by one that `read_package` does not take.
2. `release_docker_install`: `docker-install` of a WUPS project looks for
   `PROJECT_NAME-wups.cemod`, `cemod.mk` writes `CEMOD_NAME.cemod`.
3. `archive_uncaught`: line 940 turns `OSError`, `BadZipFile` and `RuntimeError`
   into a rejection, line 948 the errors of decoding.  `zlib.error`, `EOFError`, the
   `ValueError` of a JSON constant or of an integer with too many digits, and the
   `TypeError` of an unhashable field leave `read_package` as they are, where
   `tests/fuzz_driver.py` 5-6 and 37-40 expects only `CemodError`.
4. `wps_metadata_exact`: an offset in bytes is advanced by a length in
   characters.
5. `trusted_elf_verifier`: the validator takes a CMB1 record with target 0, the
   verifier refuses it.

More things the models show.  A key file replaced between the two calls of
OpenSSL in `sign` gives a published package whose signature does not verify
(`DeriveKey`, `RotateKey`, `Sign`).  An exception between the creation of the
temporary file and the `try`, or in the `unlink`, leaves the file (status
"unguarded").  Five fields of a manifest make `validate_manifest` raise
`TypeError` (`RaisesOnlyUnhashable` names them): the fuzz driver tolerates that of
`validate_manifest` itself (line 31), but not of `read_package` (37-40).
A null in `permissions`, which the validator takes for a missing field, ends
`inspect_wups.py` in a traceback (`NullMeansMissing` says when).  An address in
hexadecimal, in octal or in fewer than four numbers is a host name to
`_canonical_origin` and keeps an identity of its own, so that a list may name one
endpoint twice (`HostIdentity`).  And `flush` inflates the rest of a stream
without a limit before its length is compared with the declared one, so that
what is bounded is the sections let through, not each one on its way
(`BadContents`).

## 5. Proofs

The theorems hold for every value of the constants under the named
assumptions of the modules: contents are typed and disjoint kinds of values
(`ContentsAssumption`, `AbsentAssumption`), a valid manifest obeys what
`validate_manifest` guarantees (`ManifestRules`), limits are positive naturals
(`SizesAssumption`, `LimitsAssumption`), memory windows are at least
`MAX_EXPANDED_BYTES` wide (`WindowsAssumption`; in the code the narrowest has
224 MiB and the limit is 97 MiB), fixed components fold to themselves
(`NamingAssumption`), a byte that ends or separates strings does not continue
a character (`BytesAssumption`), a value of a wrong type is of no right type
(`WrongAssumption`), a package has at least one block, and a block nothing was
written to belongs to none (`ReleaseAssumption`).  What the exactness theorems
below add to them is as plain: an invalid path component and a drive letter are
none of the fixed names (`NamingAssumption`); the two section names the loops
look for are names, a section of imported functions is not one of imported data
(the code tells them apart by prefix), and the fixed library name obeys the length
limit, which is the very same 66 bytes in the code (`ContentsAssumption` of
`WpsImage`); the import table a permission report reads is finite
(`ManifestAssumption`).  TLC evaluates them all.  None bounds the number of runs,
edits, entries, sections, segments or rows.

Every safety and action property of a passing run is stated by a theorem, and
`PlainOutputIsAccepted` says where the property of `packager_limits` holds.

**Packager** (first part of `Release_proof`).  `OutputComplete` is not inductive: it
says nothing about a file that is about to be renamed.  `IInv` is `TypeOK`,
`RunInv(r)` for every run and `OutputInv`.  `RunInv` follows the
data of a run step by step: what its entries satisfy at each `pc` (`EntriesInv`), that its
file holds exactly the entries no longer pending (`FileInv`), and how its history relates to its
`pc` (`HistoryInv`).  One lemma per action shows `RunInv` of the acting run; `Frame`
shows the others undisturbed; `Clean` is the one action that changes all runs
at once.  From `IInv`: `TypeCorrect`, `OutputIsComplete`,
`SignatureIsOverOutput`, `DetachedVerifies`, `TemporaryIsRemoved`,
`SuccessHasMode`; and, with one lemma per kind of step, the refinement
`KeepsPromise == Spec => ImplementsPromise`.  In it a run that ends in an error
or a kill after its rename is `EndUnreported`: the promise says that its package
is whole like any other, and that it never came from a run that failed earlier.  `OutputIsComplete` says of the
manifest that it is what `json.dumps` made of an accepted one, not that the reader
loads it; `PlainOutputIsAccepted` proves that where no text grows, overflows
or deflates beyond the ratio, everything published is accepted: the first
finding is all that stands between the packager and its reader.

**Release** (rest of `Release_proof`).  `ReleaseIsPackaging` projects the pipeline to
`CemodPackager`, whose theorems thus hold in it (`ReleaseKeepsPackager`,
`ReleaseKeepsPromise`).  `InstalledStaysWhole` rests on `CopyInv`: the file a
single `cp` writes to holds its source up to the block it is at.
`InstalledIsVerified` needs three invariants more: `StagesInv` (a make is behind
its packager only after that packager succeeded), `AloneInv` (where makes do not
overlap, at most one is active, the output is its own package or missing, and
it is past the verifier only with a package the verifier takes) and
`InstalledInv`.  It assumes `OwnNames`: the installer knows the package by its name, or is
not used.  The finding shows that it fails otherwise.

**Manifest** (`Manifest_proof`).  A manifest at some check has passed those
before it; `Inv` says so check by check, and for the loop over the views view
by view.  An accepted manifest has then passed them all (`AcceptedPasses`), and
the rest is about manifests and not about steps: `AcceptedStaysConsistent`,
`UpgradesAreKept`, `NullsAreMissing`.
`RaisesStayUnhashable` is an invariant of the steps that raise.
`WarningsStayHeedable` (what the report asks for can be declared, and is then
enough) builds the manifest that heeds the warnings and shows check by check
that it still passes: a list made longer by the missing names has no name twice
(`ListsMore`), and the flags it sets change nothing another check reads.

**Archive** (`ArchiveScan_proof`).  `ScanTypeCorrect` needs that the limits
are compared before the counters grow.  `NamesStayDistinct` rests on
`ScanInv`: the entries taken have distinct canonical names, and a name below
`ui/` is its own canonical form, so that equal folded names are equal names.
`CountersAreTotals` proves the counters to be the sums of the sizes of the
entries behind `i`.  The library defines such a sum by a fold that picks the elements
in an arbitrary order; `FiniteSums` proves, by well-founded induction on
subsets, that sums over finite sets of indices can be split, extended and compared.
`ScanIsExact` (an archive is accepted if and only if its directory is legal)
rests on `ExactInv`: while the scan goes on, every entry before `i` is one a legal
archive may hold, and a scan that stopped met one it may not.  `ChecksDecide` then equates
the final checks on the dict with the checks of `CemodFormat` on the contents.

**Sections** (`WpsSections_proof`).  The invariant says that the ranges
recorded so far are those of the sections scanned so far and that these are
pairwise disjoint; each new section is disjoint from all recorded ones.  From it
`FileBytesStayDisjoint`, `GuestBytesStayDisjoint`; with the region checks and
`WindowsAssumption`, `WindowsStayRespected`.  `ExpansionStaysBounded` is about
the running total, again through `FiniteSums`.  `SectionsAcceptExactly` (accepted if and
only if legal) needs a second invariant, `LegalInv`: what each loop has read so
far satisfies its part of `Legal`.  One lemma per loop shows the converse: in a
legal image no check of that loop fires.

**Metadata** (`WpsMetadata_proof`).  `NoStringIsLost`: a string has no more
characters than bytes, so the offset never passes the NUL that ends the string
it is in, and never jumps over the beginning of one.  `AsciiIsExact`: where every
byte is one character, the loop reads exactly the pairs the reference definition
finds, and refuses exactly where the reference does (`AsciiInv`).  It says nothing of
sections with longer characters: there the code may read a string again from its
middle, which `wps_metadata_exact` shows.

**Image** (`WpsImage_proof`).  `ImplementsSections` projects every behaviour to
one of `WpsSections`, whose invariant is thus available.  `CodeStaysApart` and
`PatchesStay` combine it with what each row was checked for (`PointerInv`): a pointer lies in
one section, sections are disjoint, no section is both writable and executable.
`ImageAcceptsTheLegal` states that an image is accepted if and only if it is
legal.  `ReadInv` says for each table whether it is still to be
read, read up to `row`, or done, and that the rows read are legal; the lemmas
`HookRow`, `LoadRow`, `SymbolRow`, `RelocationRow` and `ExportRow` equate one
check of the code with one row of the reference.  The reference looks sections
up by name, the code by position: that both find the same section
needs unique names, and these come from `SectionsAcceptExactly` by the projection.

**ELF** (`TrustedElf_proof`).  `SegmentInv` says that segments are disjoint and
the totals are cardinalities of sets of addresses, by the theorems on
finite sets; `ElfInv` adds what the sections behind `index` were checked for.
From them `SegmentsStayDisjoint`, `MemoryStaysCounted`, `ImageStaysFitting`,
`PatchesStayInImage`, `HandlersStayCode`.  `BuildKeepsChecks` states them of
whatever the rule leaves.  `AcceptedStaysNormalized`: the file is always a
prefix of the linked or the rewritten image; the relocation types the validator
takes leave nothing to rewrite, and its bounds leave out nothing of a section or a
segment.  `ElfAcceptsTheLegal` (`validate_elf` accepts
exactly the legal images) follows the loops with `LegalInv`; one lemma per stage, from
`SegmentVerdict` to `BootstrapVerdict`, equates its checks with a part of the reference.
`BuildAcceptsTheLegal` carries it over to whatever the rule leaves, and
`RaisesStayJustified` shows that `normalize_relocations.py` raises only on an
image that would not be legal once rewritten.

**Type invariants.**  `ReleaseTypeOK`, `ImageTypeOK` and `BuildTypeOK` include
those of the modules they extend, and are checked by TLC as well; `TypeOK` of
`ArchiveScan` and `Manifest` and `ImageFits` are proved and not checked again.

**Only model-checked**: `RunsEnd` (every run of the packager ends) and `Terminates`
(the loop over the metadata ends).  They are liveness under weak fairness, which the prover does not
handle; TLC checks them on the instances of section 3.

## 6. Not modelled

- *Raw plugin verifier*: `verify_wups.py` calls `inspect_wups` and prints; what
  `WpsSections`, `WpsMetadata` and `WpsImage` show is all it does.
- *Output of the inspector*: the result record and its printing
  (`cemodlib.py` 870-889, `inspect_wups.py` 50-75) hold no decision.
- *Rules on one field*: identifiers, title IDs, texts, resource limits, and the
  syntax of hosts, are Booleans.  Fields behind a `well` of FALSE are refused,
  whichever of them it was.
- *Compiling, the Docker image, the container scripts*: sequences of calls of
  external tools.  That an interrupted `fetch` leaves a partial download
  (`build-short-wchar-stdlib.sh` 26) is listed as a hazard without a property.
- *Relocation tables that overlap another structure of the image*: the rewriter
  and the validator see the same entries only if no table lies over a header;
  `ElfBuild` takes sections and their contents as apart.
- *`rglob` step by step, FIFOs*: the enumeration of the UI tree is one step, and
  that it ends in a tree that grows is assumed.
- *OpenSSL, zlib, readelf, nm, cp*: external; modelled by their answers.
  SHA-256 is free of collisions.
- *Byte layouts*: struct fields, hexadecimal forms, CRC arithmetic and JSON text are
  abstracted to the outcomes the code distinguishes.
- *Headers, linker script, examples, tests*: no state of the tools.

## 7. Plan

Done, in this order: packager and promise; archive scan; WPS sections,
metadata and tables; trusted ELF; the release pipeline; manifest rules and
permission report; the build rule of `mod.elf`; a proof module for each.

Done since: the exactness of every validator, the totals of its counters, the
justification of its errors and the permission report as theorems.

What could follow:

1. An abstract specification of the inspectors (a single step from an image to a
   verdict) that `WpsImage` and `TrustedElf` implement, with their exactness
   theorems as the refinement.
2. A theorem across the two state machines: what the packager publishes,
   `ArchiveScan` accepts, but for the first finding.  Today
   `PlainOutputIsAccepted` says it of the operators of `CemodFormat`, which both share.
3. The fetch and marker files of the Docker image build as a crash model, should
   the SDK take over more of that work from external tools.
