---------------------------- MODULE WpsSections ----------------------------
(***************************************************************************)
(* The first half of inspect_wups in tools/cemodlib.py: the section table  *)
(* of a .wps payload, its compressed contents, the file ranges and the     *)
(* guest address ranges of its sections.                                   *)
(*                                                                         *)
(* A section header keeps the fields the decisions are made on.  The bytes *)
(* behind it are abstracted to what is asked of them: how many bytes they  *)
(* inflate to, whether the stream ends there, and whether the CRC table    *)
(* agrees.                                                                 *)
(***************************************************************************)
EXTENDS Integers, Sequences, FiniteSetsExt

CONSTANTS
    SectionNames,     \* the names in the string table
    Images,           \* the payloads that may be inspected
    Unnamed,          \* the empty section name
    BadName,          \* a name_offset on which _cstring raises
    load_bounds,      \* ".wut_load_bounds"
    HEADER,           \* 52, the bytes of the ELF header
    ENTRY,            \* 40, the bytes of a section header
    MIN_SECTIONS, MAX_SECTIONS,
    MIN_DEFLATED,     \* 5, the bytes of the smallest compressed section
    MAX_PAYLOAD_BYTES, MAX_EXPANDED_BYTES,
    TEXT_BASE, DATA_BASE, LOADER_BASE, GUEST_TOP

Kinds == {"null", "progbits", "symtab", "strtab", "nobits", "dynsym", "relocs",
          "import", "exports", "crc", "fileinfo", "other"}
Flags == {"write", "alloc", "exec", "deflated"}

(* aligned: the alignment is a power of two and, if allocated, the address  *)
(* a multiple of it.  declared: what a compressed section says it expands   *)
(* to; inflated: the bytes that decompress and flush make of it together;   *)
(* ends: they raise no error and the stream ends with the section.          *)
(* terminated: the contents end in NUL.                                     *)
Headers == [kind: Kinds, flags: SUBSET Flags, name: SectionNames \cup {Unnamed, BadName},
            address: 0..(GUEST_TOP - 1), offset: Nat, stored: Nat,
            aligned: BOOLEAN, declared: Nat, inflated: Nat, ends: BOOLEAN,
            terminated: BOOLEAN, crc_matches: BOOLEAN]

(* rpl: the fixed fields of the ELF header.  name_index counts from 1.      *)
(* well_formed: the size of the CRC table, the length, magic, alignments    *)
(* and adjustments of the FILEINFO record.                                  *)
ImageRecords == [length: Nat, rpl: BOOLEAN, table: Nat, name_index: Nat \ {0},
                 sections: Seq(Headers), well_formed: BOOLEAN,
                 text_size: Nat, data_size: Nat, loader_size: Nat]

ASSUME SizesAssumption ==
    /\ {HEADER, ENTRY, MIN_SECTIONS, MAX_SECTIONS, MIN_DEFLATED, MAX_PAYLOAD_BYTES,
        MAX_EXPANDED_BYTES} \subseteq Nat \ {0}
    /\ MIN_SECTIONS > 2
    /\ {TEXT_BASE, DATA_BASE, LOADER_BASE, GUEST_TOP} \subseteq Nat

\* 0x02000000, 0x10000000, 0xC0000000 and 2^32 are more than 97 MiB apart.
ASSUME WindowsAssumption ==
    /\ TEXT_BASE + MAX_EXPANDED_BYTES <= DATA_BASE
    /\ DATA_BASE + MAX_EXPANDED_BYTES <= LOADER_BASE
    /\ LOADER_BASE + MAX_EXPANDED_BYTES <= GUEST_TOP

ASSUME ImagesAssumption ==
    /\ Images \subseteq ImageRecords
    /\ load_bounds \in SectionNames /\ Unnamed \notin SectionNames
    /\ BadName \notin SectionNames \cup {Unnamed}

VARIABLES
    image,
    phase,           \* the loop inspect_wups is in, or its outcome
    index,           \* the section the loop is at
    ranges,          \* file ranges of the sections scanned
    expanded_total,
    seen_names,
    virtual_ranges   \* guest ranges of the allocated sections

vars == <<image, phase, index, ranges, expanded_total, seen_names, virtual_ranges>>

Phases == {"header", "scan", "names", "tables", "addresses", "regions",
           "accepted", "rejected"}

-----------------------------------------------------------------------------
\* two ranges of addresses, as the code compares them
Overlap(start1, size1, start2, size2) ==
    start1 < start2 + size2 /\ start2 < start1 + size1

Allocated(s) == "alloc" \in s.flags

expanded_size(s) ==
    IF s.kind # "nobits" /\ "deflated" \in s.flags THEN s.declared ELSE s.stored

Occupies(s) == Allocated(s) /\ expanded_size(s) > 0

TableEnd == image.table + Len(image.sections) * ENTRY

BadHeader ==
    \/ image.length \notin HEADER..MAX_PAYLOAD_BYTES
    \/ ~image.rpl
    \/ Len(image.sections) \notin MIN_SECTIONS..MAX_SECTIONS
    \/ image.name_index > Len(image.sections)
    \/ TableEnd > image.length

\* mutant: a section may begin inside the section table
OverlapsStructure_StartOnly(s) ==
    /\ s.stored > 0
    /\ s.offset < HEADER \/ (s.offset < image.table /\ image.table < s.offset + s.stored)

OverlapsStructure(s) ==
    /\ s.stored > 0
    /\ s.offset < HEADER \/ Overlap(s.offset, s.stored, image.table, TableEnd - image.table)

\* mutant: only sections that begin inside an earlier one are noticed
OverlapsSection_Start(s) ==
    s.stored > 0 /\ \E r \in ranges : s.offset \in r.start .. (r.start + r.size - 1)

OverlapsSection(s) ==
    s.stored > 0 /\ \E r \in ranges : Overlap(s.offset, s.stored, r.start, r.size)

\* what is refused before the stream of the section is looked at
BadStored(s) ==
    \/ s.offset + s.stored > image.length
    \/ OverlapsStructure(s)
    \/ OverlapsSection(s)
    \/ /\ "deflated" \in s.flags
       /\ s.stored < MIN_DEFLATED \/ s.declared \notin 1..MAX_EXPANDED_BYTES

Inflates(s) == s.ends /\ s.inflated = s.declared

BadContents(s) ==
    IF s.kind = "nobits"
    THEN "deflated" \in s.flags
    ELSE BadStored(s) \/ ("deflated" \in s.flags /\ ~Inflates(s))

BadFields(s) ==
    \/ index = 1 /\ (s.kind # "null" \/ s.stored > 0)
    \/ ~s.aligned
    \/ {"write", "exec"} \subseteq s.flags

\* mutant: the running total is not compared with the limit
BadSection_NoTotal(s) == BadFields(s) \/ BadContents(s)

BadSection(s) ==
    \/ BadFields(s)
    \/ BadContents(s)
    \/ expanded_total + expanded_size(s) > MAX_EXPANDED_BYTES

-----------------------------------------------------------------------------
Init ==
    /\ image \in Images
    /\ phase = "header" /\ index = 1
    /\ ranges = {} /\ expanded_total = 0 /\ seen_names = {} /\ virtual_ranges = {}

Current == image.sections[index]

Enter(next) == phase' = next /\ index' = 1

\* the current section passes: on to the next one, or to the next loop
Advance(next) ==
    IF index < Len(image.sections)
    THEN index' = index + 1 /\ UNCHANGED phase
    ELSE Enter(next)

Reject ==
    /\ phase' = "rejected"
    /\ UNCHANGED <<image, index, ranges, expanded_total, seen_names, virtual_ranges>>

CheckHeader ==
    /\ phase = "header"
    /\ IF BadHeader
       THEN Reject
       ELSE /\ Enter("scan")
            /\ UNCHANGED <<image, ranges, expanded_total, seen_names, virtual_ranges>>

ScanSection ==
    /\ phase = "scan"
    /\ ~BadSection(Current)
    /\ ranges' = IF Current.kind # "nobits" /\ Current.stored > 0
                 THEN ranges \cup {[start |-> Current.offset, size |-> Current.stored]}
                 ELSE ranges
    /\ expanded_total' = expanded_total + expanded_size(Current)
    /\ Advance("names")
    /\ UNCHANGED <<image, seen_names, virtual_ranges>>

BadNameTable ==
    LET names == image.sections[image.name_index]
    IN  names.kind # "strtab" \/ expanded_size(names) = 0 \/ ~names.terminated

NameSection ==
    /\ phase = "names"
    /\ ~BadNameTable
    /\ Current.name # BadName
    /\ Current.name = Unnamed \/ Current.name \notin seen_names
    /\ seen_names' = seen_names \cup {Current.name}
    /\ Advance("tables")
    /\ UNCHANGED <<image, ranges, expanded_total, virtual_ranges>>

\* mutant: the region sizes of FILEINFO are not limited
BadTables_AnySize ==
    LET n == Len(image.sections)
    IN  \/ image.sections[n - 1].kind # "crc" \/ image.sections[n].kind # "fileinfo"
        \/ ~image.well_formed \/ image.text_size = 0
        \/ \E k \in 1..n : /\ image.sections[k].kind \notin {"nobits", "crc"}
                           /\ ~image.sections[k].crc_matches

\* the CRC and FILEINFO sections, and the CRC of every section
BadTables ==
    LET n == Len(image.sections)
    IN  \/ image.sections[n - 1].kind # "crc" \/ image.sections[n].kind # "fileinfo"
        \/ ~image.well_formed \/ image.text_size = 0
        \/ \E size \in {image.text_size, image.data_size, image.loader_size} :
              size > MAX_EXPANDED_BYTES
        \/ \E k \in 1..n : /\ image.sections[k].kind \notin {"nobits", "crc"}
                           /\ ~image.sections[k].crc_matches

CheckTables ==
    /\ phase = "tables"
    /\ IF BadTables
       THEN Reject
       ELSE /\ Enter("addresses")
            /\ UNCHANGED <<image, ranges, expanded_total, seen_names, virtual_ranges>>

\* the window a section must begin in, by its kind and flags
BadAddress(s) ==
    \/ s.address + expanded_size(s) > GUEST_TOP
    \/ IF s.kind = "import" THEN s.address < LOADER_BASE
       ELSE IF "exec" \in s.flags THEN s.address \notin TEXT_BASE..(DATA_BASE - 1)
       ELSE IF s.address >= LOADER_BASE
            THEN s.name # load_bounds /\ s.kind \notin {"symtab", "strtab", "dynsym"}
            ELSE s.address < DATA_BASE

\* mutant: the sizes are those in the file, not the expanded ones
BadRange_Stored(s) ==
    \/ BadAddress(s)
    \/ \E r \in virtual_ranges : Overlap(s.address, s.stored, r.start, r.size)

BadRange(s) ==
    \/ BadAddress(s)
    \/ \E r \in virtual_ranges : Overlap(s.address, expanded_size(s), r.start, r.size)

PlaceSection ==
    /\ phase = "addresses"
    /\ ~(Occupies(Current) /\ BadRange(Current))
    /\ virtual_ranges' =
          IF Occupies(Current)
          THEN virtual_ranges \cup {[start |-> Current.address, size |-> expanded_size(Current)]}
          ELSE virtual_ranges
    /\ Advance("regions")
    /\ UNCHANGED <<image, ranges, expanded_total, seen_names>>

\* the FILEINFO region a section belongs to
region(s) ==
    IF s.address >= LOADER_BASE THEN [base |-> LOADER_BASE, size |-> image.loader_size]
    ELSE IF "exec" \in s.flags THEN [base |-> TEXT_BASE, size |-> image.text_size]
    ELSE [base |-> DATA_BASE, size |-> image.data_size]

ExceedsRegion(s) ==
    LET relative == s.address - region(s).base
    IN  \/ relative < 0 \/ relative > region(s).size
        \/ expanded_size(s) > region(s).size - relative

CheckRegion ==
    /\ phase = "regions"
    /\ ~(Occupies(Current) /\ ExceedsRegion(Current))
    /\ Advance("accepted")
    /\ UNCHANGED <<image, ranges, expanded_total, seen_names, virtual_ranges>>

RefuseSection ==
    /\ \/ phase = "scan" /\ BadSection(Current)
       \/ /\ phase = "names"
          /\ \/ BadNameTable
             \/ Current.name = BadName
             \/ Current.name # Unnamed /\ Current.name \in seen_names
       \/ phase = "addresses" /\ Occupies(Current) /\ BadRange(Current)
       \/ phase = "regions" /\ Occupies(Current) /\ ExceedsRegion(Current)
    /\ Reject

Next ==
    \/ CheckHeader \/ ScanSection \/ NameSection \/ CheckTables
    \/ PlaceSection \/ CheckRegion \/ RefuseSection

Spec == Init /\ [][Next]_vars

-----------------------------------------------------------------------------
(* Properties.                                                              *)

Sections == image.sections
Loops == {"scan", "names", "tables", "addresses", "regions"}

\* the sections a loop has let through, seen from the current phase
ScannedIndices ==
    CASE phase = "scan" -> 1..(index - 1)
      [] phase \in {"names", "tables", "addresses", "regions", "accepted"} -> DOMAIN Sections
      [] OTHER -> {}

PlacedIndices ==
    CASE phase = "addresses" -> 1..(index - 1)
      [] phase \in {"regions", "accepted"} -> DOMAIN Sections
      [] OTHER -> {}

FileBytes(s) ==
    IF s.kind = "nobits" THEN {} ELSE s.offset .. (s.offset + s.stored - 1)

GuestBytes(s) ==
    IF Allocated(s) THEN s.address .. (s.address + expanded_size(s) - 1) ELSE {}

TypeOK ==
    /\ image \in ImageRecords
    /\ phase \in Phases
    /\ index \in 1..MAX_SECTIONS
    /\ phase \in Loops \cup {"accepted"} =>
          Len(Sections) \in MIN_SECTIONS..MAX_SECTIONS /\ index <= Len(Sections)
    /\ ranges \subseteq [start: Nat, size: Nat]
    /\ expanded_total \in 0..MAX_EXPANDED_BYTES
    /\ seen_names \subseteq SectionNames \cup {Unnamed}
    /\ virtual_ranges \subseteq [start: Nat, size: Nat]

\* No byte of the file is claimed twice: not by two sections, nor by a
\* section and the ELF header or the section table, nor past the end.
\* The scan compares each section with the earlier ones only.
FileBytesDisjoint ==
    /\ \A j, k \in ScannedIndices :
          j # k => FileBytes(Sections[j]) \cap FileBytes(Sections[k]) = {}
    /\ \A k \in ScannedIndices :
          /\ FileBytes(Sections[k]) \subseteq HEADER..(image.length - 1)
          /\ FileBytes(Sections[k]) \cap image.table..(TableEnd - 1) = {}

\* No guest address belongs to two allocated sections, so that a pointer the
\* later checks look up in any section is a pointer into one section.
GuestBytesDisjoint ==
    \A j, k \in PlacedIndices :
        j # k => GuestBytes(Sections[j]) \cap GuestBytes(Sections[k]) = {}

\* In an accepted image the whole of each allocated section, and not only its
\* first byte, lies in one window: code in text memory or loader memory, data
\* in data memory or loader memory.  This takes the address check of one loop,
\* the region check of another and the limit on the sizes in FILEINFO.
WindowsRespected ==
    phase = "accepted" =>
        \A k \in DOMAIN Sections :
            LET s == Sections[k]
            IN  \/ GuestBytes(s) \subseteq LOADER_BASE..(GUEST_TOP - 1)
                \/ /\ "exec" \in s.flags
                   /\ GuestBytes(s) \subseteq TEXT_BASE..(DATA_BASE - 1)
                \/ /\ "exec" \notin s.flags
                   /\ GuestBytes(s) \subseteq DATA_BASE..(LOADER_BASE - 1)

\* what the sections with these indices expand to, together
TotalExpanded(sections, indices) ==
    MapThenSumSet(LAMBDA k : expanded_size(sections[k]), indices)

\* The sections the scan has let through never hold more than the limit
\* together, in the sizes they declare and, so far as they are compressed,
\* have been found to inflate to.  (What flush makes of a section that is
\* refused for it can be more: inflated is any number in BadContents.)
ExpansionBounded == TotalExpanded(Sections, ScannedIndices) <= MAX_EXPANDED_BYTES

LegalContents(s) ==
    /\ s.aligned
    /\ ~({"write", "exec"} \subseteq s.flags)
    /\ "deflated" \in s.flags =>
          /\ s.kind # "nobits" /\ s.stored >= MIN_DEFLATED
          /\ s.declared \in 1..MAX_EXPANDED_BYTES /\ Inflates(s)
    /\ s.kind # "nobits" => s.offset + s.stored <= image.length
    /\ FileBytes(s) \cap (0..(HEADER - 1) \cup image.table..(TableEnd - 1)) = {}

\* the loader memory holds imports, tables and the load bounds only; each
\* section lies in the part of its window that FILEINFO announces
LegalPlace(s) ==
    GuestBytes(s) # {} =>
        \/ /\ s.kind = "import" \/ "exec" \notin s.flags
           /\ s.kind \in {"import", "symtab", "strtab", "dynsym"} \/ s.name = load_bounds
           /\ GuestBytes(s) \subseteq LOADER_BASE..(LOADER_BASE + image.loader_size - 1)
        \/ /\ s.kind # "import" /\ "exec" \in s.flags
           /\ GuestBytes(s) \subseteq TEXT_BASE..(TEXT_BASE + image.text_size - 1)
        \/ /\ s.kind # "import" /\ "exec" \notin s.flags
           /\ GuestBytes(s) \subseteq DATA_BASE..(DATA_BASE + image.data_size - 1)

\* The images the section checks are meant to let through, without the loops.
Legal ==
    LET n == Len(Sections)
        names == Sections[image.name_index]
    IN  /\ ~BadHeader
        /\ Sections[1].kind = "null" /\ Sections[1].stored = 0
        /\ \A k \in 1..n : LegalContents(Sections[k]) /\ LegalPlace(Sections[k])
        /\ \A j, k \in 1..n : j # k =>
              /\ FileBytes(Sections[j]) \cap FileBytes(Sections[k]) = {}
              /\ GuestBytes(Sections[j]) \cap GuestBytes(Sections[k]) = {}
              /\ Sections[j].name = Sections[k].name => Sections[j].name = Unnamed
        /\ \A k \in 1..n : Sections[k].name # BadName
        /\ TotalExpanded(Sections, 1..n) <= MAX_EXPANDED_BYTES
        /\ names.kind = "strtab" /\ expanded_size(names) > 0 /\ names.terminated
        /\ ~BadTables

\* The five loops, with their early exits and with every section compared
\* only with the earlier ones, accept exactly the legal images.
AcceptsExactly ==
    /\ phase = "accepted" => Legal
    /\ phase = "rejected" => ~Legal
=============================================================================
