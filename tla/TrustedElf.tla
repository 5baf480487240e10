----------------------------- MODULE TrustedElf -----------------------------
(***************************************************************************)
(* The two checks a trusted-native mod.elf goes through: validate_elf in    *)
(* tools/cemodlib.py, which the packager and the reader call, and then      *)
(* bootstrap_section and verify_elf in tools/verify_cemod.py.               *)
(*                                                                         *)
(* What keeps state is the loop over the program headers; a check that      *)
(* only reads is one step.  Indices that count from 0 in the file count     *)
(* from 1 here.                                                             *)
(***************************************************************************)
EXTENDS Integers, Sequences, FiniteSets

CONSTANTS
    Elfs,                 \* the images that may be checked
    Names, Unnamed, BadName, bootstrap_name,
    HEADER,               \* 52
    MIN_PROGRAM, MIN_SECTION,   \* 32 and 40, the least bytes of a table's entry
    MAX_PROGRAM, MAX_SECTIONS, MAX_RECORDS,
    CMB_HEADER, CMB_RECORD,     \* 12 and 24
    MAX_TRUSTED_ELF_BYTES, GUEST_TOP,
    POINTER               \* 4

ProgramHeaders == [load: BOOLEAN, address: Nat, offset: Nat, stored: Nat, memory: Nat,
                   flags: SUBSET {"exec", "write", "read"}]

\* R_PPC_UADDR32, which only normalize_relocations.py knows
UNALIGNED == -4

\* width: the bytes patched, 0 for R_PPC_NONE and -1 for a type nobody supports
Relocations == [target: Nat, symbol: Nat, width: {UNALIGNED, -1, 0, 2, 4}]
Records == [module_hash: Nat, target: Nat, mask: Nat, handler: Nat, flags: Nat]

(* whole: sh_entsize is large enough and divides the size.  defined: for    *)
(* each symbol of a table, whether it has a section.  entries: the rows of  *)
(* a RELA section.  magic, count, records: what the CMB1 header says and    *)
(* the records behind it, in a section that has room for them.              *)
SectionHeaders == [kind: {"null", "progbits", "symtab", "strtab", "rela", "nobits", "rel", "other"},
                   alloc: BOOLEAN, name: Names \cup {Unnamed, BadName},
                   address: Nat, offset: Nat, size: Nat, link: Nat, whole: BOOLEAN,
                   defined: Seq(BOOLEAN), entries: Seq(Relocations),
                   magic: BOOLEAN, count: Nat, records: Seq(Records)]

\* entry: readelf and nm find nothing to object to, and nm finds the symbol "entry"
ElfRecords == [length: Nat, identified: BOOLEAN, program_offset: Nat, program_size: Nat,
               section_offset: Nat, section_size: Nat, names_index: Nat \ {0},
               program: Seq(ProgramHeaders), sections: Seq(SectionHeaders), entry: BOOLEAN]

ASSUME ElfsAssumption ==
    /\ Elfs \subseteq ElfRecords
    /\ bootstrap_name \in Names /\ {Unnamed, BadName} \cap Names = {} /\ Unnamed # BadName
    /\ \A e \in Elfs : \A k \in DOMAIN e.sections :
          LET s == e.sections[k]
          IN  s.size = CMB_HEADER + s.count * CMB_RECORD => Len(s.records) = s.count

ASSUME SizesAssumption ==
    /\ {HEADER, MIN_PROGRAM, MIN_SECTION, CMB_HEADER, CMB_RECORD, POINTER} \subseteq Nat \ {0}
    /\ {MAX_PROGRAM, MAX_SECTIONS, MAX_RECORDS, MAX_TRUSTED_ELF_BYTES, GUEST_TOP} \subseteq Nat

VARIABLES
    elf,
    stage,                  \* the check at hand, or the outcome
    index,                  \* where the loop of the stage is
    segments,               \* the load segments let through
    code_bytes, data_bytes  \* what they take

vars == <<elf, stage, index, segments, code_bytes, data_bytes>>

\* accepted: by validate_elf; verified and refused: by verify_cemod
Stages == {"header", "segments", "names", "sections", "bootstrap",
           "accepted", "rejected", "verified", "refused"}

Program == elf.program
Sections == elf.sections

-----------------------------------------------------------------------------
Outside(offset, size) == offset > elf.length \/ size > elf.length - offset

BadHeader ==
    \/ elf.length \notin HEADER..MAX_TRUSTED_ELF_BYTES
    \/ ~elf.identified
    \/ elf.program_size < MIN_PROGRAM \/ Len(Program) \notin 1..MAX_PROGRAM
    \/ elf.section_size < MIN_SECTION \/ Len(Sections) \notin 1..MAX_SECTIONS
    \/ elf.names_index > Len(Sections)
    \/ Outside(elf.program_offset, Len(Program) * elf.program_size)
    \/ Outside(elf.section_offset, Len(Sections) * elf.section_size)

\* mutant: only a segment that begins inside an earlier one is noticed
OverlapsSegment_Start(p) ==
    \E s \in segments : p.address >= s.address /\ p.address < s.address + s.memory

OverlapsSegment(p) ==
    \E s \in segments : p.address < s.address + s.memory /\ s.address < p.address + p.memory

BadSegment(p) ==
    \/ p.stored > p.memory \/ Outside(p.offset, p.stored)
    \/ {"exec", "write"} \subseteq p.flags
    \/ p.address + p.memory > GUEST_TOP
    \/ OverlapsSegment(p)

BadImage ==
    \/ segments = {} \/ code_bytes = 0
    \/ code_bytes + data_bytes > MAX_TRUSTED_ELF_BYTES

BadNames ==
    \/ LET names == Sections[elf.names_index]
       IN  names.kind # "strtab" \/ Outside(names.offset, names.size)
    \/ \E k \in DOMAIN Sections : Sections[k].name = BadName
    \/ \E j, k \in DOMAIN Sections :
          j # k /\ Sections[j].name = Sections[k].name /\ Sections[j].name # Unnamed

\* contains, for a region that must have the flags
contains(address, size, flags) ==
    \E s \in segments :
        /\ flags \subseteq s.flags
        /\ address >= s.address
        /\ address - s.address <= s.memory
        /\ size <= s.memory - (address - s.address)

\* mutant: the null symbol must be defined too
BadSymbols_FromZero(s) == ~s.whole \/ \E n \in DOMAIN s.defined : ~s.defined[n]

BadSymbols(s) == ~s.whole \/ \E n \in DOMAIN s.defined \ {1} : ~s.defined[n]

\* mutant: only the first byte of a patch must be in the image
BadRelocation_Start(r, symbols) ==
    \/ r.width < 0 \/ r.symbol >= Len(symbols.defined)
    \/ r.width # 0 /\ ~contains(r.target, 1, {})

\* mutant: an unaligned patch is let through
BadRelocation_Unaligned(r, symbols) ==
    \/ r.width = -1 \/ r.symbol >= Len(symbols.defined)
    \/ r.width # 0 /\ ~contains(r.target, 4, {})

BadRelocation(r, symbols) ==
    \/ r.width < 0 \/ r.symbol >= Len(symbols.defined)
    \/ r.width # 0 /\ ~contains(r.target, r.width, {})

BadRelocations(s) ==
    \/ ~s.whole \/ s.link \notin DOMAIN Sections
    \/ LET symbols == Sections[s.link]
       IN  \/ symbols.kind # "symtab" \/ ~symbols.whole
           \/ \E n \in DOMAIN s.entries : BadRelocation(s.entries[n], symbols)

BadSection(s) ==
    \/ s.kind # "nobits" /\ Outside(s.offset, s.size)
    \/ s.kind = "rel"
    \/ s.kind = "symtab" /\ BadSymbols(s)
    \/ s.kind = "rela" /\ BadRelocations(s)

Bootstraps == {k \in DOMAIN Sections : Sections[k].name = bootstrap_name}
Bootstrap == Sections[CHOOSE k \in Bootstraps : TRUE]

\* mutant: a handler may be in any segment
BadRecord_AnyMemory(r) ==
    \/ r.module_hash = 0 \/ r.mask = 0 \/ r.flags # 0
    \/ r.target % POINTER # 0
    \/ ~contains(r.handler, POINTER, {})

BadRecord(r) ==
    \/ r.module_hash = 0 \/ r.mask = 0 \/ r.flags # 0
    \/ r.target % POINTER # 0
    \/ ~contains(r.handler, POINTER, {"exec"})

BadCount(b) == b.count \notin 1..MAX_RECORDS \/ b.size # CMB_HEADER + b.count * CMB_RECORD

BadBootstrap ==
    \/ Cardinality(Bootstraps) # 1
    \/ LET b == Bootstrap
       IN  \/ b.kind # "progbits" \/ ~b.alloc \/ b.size < CMB_HEADER \/ ~b.magic
           \/ ~contains(b.address, b.size, {}) \/ b.offset + b.size > elf.length
           \/ BadCount(b)
           \/ \E n \in DOMAIN b.records : BadRecord(b.records[n])

\* verify_elf parses the section again, with rules of its own
Refused ==
    \/ Cardinality(Bootstraps) # 1
    \/ LET b == Bootstrap
       IN  \/ ~b.alloc \/ b.offset + b.size > elf.length
           \/ b.size < CMB_HEADER \/ ~b.magic \/ BadCount(b)
           \/ \E n \in DOMAIN b.records :
                 LET r == b.records[n]
                 IN  r.module_hash = 0 \/ r.target = 0 \/ r.mask = 0 \/ r.flags # 0
    \/ ~elf.entry

-----------------------------------------------------------------------------
Init ==
    /\ elf \in Elfs
    /\ stage = "header" /\ index = 1
    /\ segments = {} /\ code_bytes = 0 /\ data_bytes = 0

Read == UNCHANGED <<elf, segments, code_bytes, data_bytes>>

\* a check that leads to the next stage or to the verdict "rejected"
Check(here, bad, next) ==
    /\ stage = here
    /\ stage' = IF bad THEN "rejected" ELSE next
    /\ index' = 1 /\ Read

CheckHeader == Check("header", BadHeader, "segments")

InLoop(here, length) == stage = here /\ index \in 1..length

RejectHere == stage' = "rejected" /\ UNCHANGED index /\ Read

SkipSegment ==
    /\ InLoop("segments", Len(Program)) /\ ~Program[index].load
    /\ index' = index + 1 /\ UNCHANGED stage /\ Read

\* mutant: a segment counts with the bytes it has in the file
LoadSegment_Stored ==
    LET p == Program[index]
    IN  /\ InLoop("segments", Len(Program)) /\ p.load
        /\ IF BadSegment(p) THEN RejectHere
           ELSE /\ segments' = segments \cup
                     {[address |-> p.address, memory |-> p.memory, flags |-> p.flags]}
                /\ code_bytes' = code_bytes + IF "exec" \in p.flags THEN p.stored ELSE 0
                /\ data_bytes' = data_bytes + IF "exec" \in p.flags THEN 0 ELSE p.stored
                /\ index' = index + 1 /\ UNCHANGED <<elf, stage>>

LoadSegment ==
    LET p == Program[index]
    IN  /\ InLoop("segments", Len(Program)) /\ p.load
        /\ IF BadSegment(p) THEN RejectHere
           ELSE /\ segments' = segments \cup
                     {[address |-> p.address, memory |-> p.memory, flags |-> p.flags]}
                /\ code_bytes' = code_bytes + IF "exec" \in p.flags THEN p.memory ELSE 0
                /\ data_bytes' = data_bytes + IF "exec" \in p.flags THEN 0 ELSE p.memory
                /\ index' = index + 1 /\ UNCHANGED <<elf, stage>>

CheckImage == index > Len(Program) /\ Check("segments", BadImage, "names")

CheckNames == Check("names", BadNames, "sections")

\* mutant: the loop ends one section late
CheckSection_Late ==
    /\ stage = "sections" /\ index \in 1..(Len(Sections) + 1)
    /\ IF index <= Len(Sections) /\ BadSection(Sections[index]) THEN RejectHere
       ELSE index' = index + 1 /\ UNCHANGED stage /\ Read

CheckSection ==
    /\ InLoop("sections", Len(Sections))
    /\ IF BadSection(Sections[index]) THEN RejectHere
       ELSE index' = index + 1 /\ UNCHANGED stage /\ Read

SectionsDone == index > Len(Sections) /\ Check("sections", FALSE, "bootstrap")

CheckBootstrap == Check("bootstrap", BadBootstrap, "accepted")

Verify ==
    /\ stage = "accepted"
    /\ stage' = IF Refused THEN "refused" ELSE "verified"
    /\ UNCHANGED index /\ Read

Next ==
    \/ CheckHeader \/ SkipSegment \/ LoadSegment \/ CheckImage
    \/ CheckNames \/ CheckSection \/ SectionsDone \/ CheckBootstrap \/ Verify

Spec == Init /\ [][Next]_vars

-----------------------------------------------------------------------------
(* Properties.                                                              *)

Segments == [address: Nat, memory: Nat, flags: SUBSET {"exec", "write", "read"}]

Checked == {"names", "sections", "bootstrap", "accepted", "verified", "refused"}

\* Types; the loops stay inside their tables, and no segment enters after the
\* loop over the program headers.
TypeOK ==
    /\ elf \in ElfRecords
    /\ stage \in Stages /\ (stage = "header" => segments = {})
    /\ index \in Nat \ {0}
    /\ stage = "segments" => index <= Len(Program) + 1
    /\ stage = "sections" => index <= Len(Sections) + 1
    /\ segments \subseteq Segments
    /\ code_bytes \in Nat /\ data_bytes \in Nat

Bytes(s) == s.address .. (s.address + s.memory - 1)

Memory(set) == UNION {Bytes(s) : s \in set}

Code == {s \in segments : "exec" \in s.flags}

\* The loader maps each segment over the addresses it names: no two segments
\* that were let through, in whatever order, claim the same byte.
SegmentsDisjoint ==
    \A s, t \in segments : s # t => Bytes(s) \cap Bytes(t) = {}

\* The totals the limit of the shared codecave is compared with are the
\* number of addresses the image takes, code and data apart.  No code counts
\* addresses: it adds up sizes, of segments compared pair by pair.
MemoryCounted ==
    /\ code_bytes = Cardinality(Memory(Code))
    /\ data_bytes = Cardinality(Memory(segments \ Code))

\* An image that goes on to the next checks takes no more addresses than the
\* codecave has, and none beyond 2^32.
ImageFits ==
    /\ Memory(segments) \subseteq 0..(GUEST_TOP - 1)
    /\ stage \in Checked => Cardinality(Memory(segments)) <= MAX_TRUSTED_ELF_BYTES

\* Whether address .. address + size - 1 is one segment's, and no other's.
InOneSegment(address, size, flags) ==
    \E s \in segments :
        /\ flags \subseteq s.flags
        /\ address .. (address + size - 1) \subseteq Bytes(s)
        /\ \A t \in segments \ {s} : address .. (address + size - 1) \cap Bytes(t) = {}

\* Every byte a relocation patches is in the image, and a patch never
\* straddles two segments, even when these adjoin.
PatchesInImage ==
    stage \in {"bootstrap", "accepted", "verified", "refused"} =>
        \A k \in DOMAIN Sections : Sections[k].kind = "rela" =>
            \A n \in DOMAIN Sections[k].entries :
                LET r == Sections[k].entries[n]
                IN  r.width # 0 => InOneSegment(r.target, r.width, {})

\* The handler of every bootstrap record is code: it lies in one executable
\* segment, and none of its bytes can be written.
HandlersExecute ==
    stage \in {"accepted", "verified", "refused"} =>
        \A n \in DOMAIN Bootstrap.records :
            LET r == Bootstrap.records[n]
            IN  /\ InOneSegment(r.handler, POINTER, {"exec"})
                /\ \A s \in segments :
                      "write" \in s.flags =>
                          r.handler .. (r.handler + POINTER - 1) \cap Bytes(s) = {}

-----------------------------------------------------------------------------
(* What a legal mod.elf is, without the loops.                              *)

Loads == {k \in DOMAIN Program : Program[k].load}

LegalProgram ==
    /\ \A k \in Loads :
          LET p == Program[k]
          IN  /\ p.stored <= p.memory /\ p.offset + p.stored <= elf.length
              /\ ~({"exec", "write"} \subseteq p.flags)
              /\ p.address + p.memory <= GUEST_TOP
    /\ \A j, k \in Loads : j < k =>
          LET p == Program[j]
              q == Program[k]
          IN  IF p.memory > 0 /\ q.memory > 0
              THEN p.address .. (p.address + p.memory - 1)
                      \cap q.address .. (q.address + q.memory - 1) = {}
              ELSE \* an empty segment may lie at the edge of another, not within
                   /\ q.address \notin (p.address + 1) .. (p.address + p.memory - 1)
                   /\ p.address \notin (q.address + 1) .. (q.address + q.memory - 1)
    /\ \E k \in Loads : "exec" \in Program[k].flags /\ Program[k].memory > 0
    /\ Cardinality(UNION {Program[k].address .. (Program[k].address + Program[k].memory - 1) :
                             k \in Loads}) <= MAX_TRUSTED_ELF_BYTES

\* an address range in one load segment with the flags
Loaded(address, size, flags) ==
    \E k \in Loads :
        /\ flags \subseteq Program[k].flags
        /\ Program[k].address <= address
        /\ address + size <= Program[k].address + Program[k].memory

LegalSection(s) ==
    /\ s.kind = "nobits" \/ s.offset + s.size <= elf.length
    /\ s.kind # "rel"
    /\ s.kind = "symtab" => s.whole /\ \A n \in 2..Len(s.defined) : s.defined[n]
    /\ s.kind = "rela" =>
          /\ s.whole /\ s.link <= Len(Sections) /\ s.link > 0
          /\ Sections[s.link].kind = "symtab"
          /\ \A n \in DOMAIN s.entries :
                LET r == s.entries[n]
                IN  /\ r.width >= 0 /\ r.symbol + 1 \in DOMAIN Sections[s.link].defined
                    /\ r.width > 0 => Loaded(r.target, r.width, {})

LegalBootstrap(b) ==
    /\ b.kind = "progbits" /\ b.alloc /\ b.magic
    /\ Loaded(b.address, b.size, {})
    /\ b.count >= 1 /\ b.count <= MAX_RECORDS /\ b.size = CMB_HEADER + b.count * CMB_RECORD
    /\ \A n \in DOMAIN b.records :
          LET r == b.records[n]
          IN  /\ r.module_hash > 0 /\ r.mask > 0 /\ r.flags = 0 /\ r.target % POINTER = 0
              /\ Loaded(r.handler, POINTER, {"exec"})

LegalElf ==
    /\ ~BadHeader /\ LegalProgram
    /\ ~BadNames
    /\ \A k \in DOMAIN Sections : LegalSection(Sections[k])
    /\ \E k \in DOMAIN Sections :
          Sections[k].name = bootstrap_name /\ LegalBootstrap(Sections[k])

\* validate_elf, which compares a segment with the ones before it, adds up
\* totals and looks targets up among the segments that came through, accepts
\* exactly the legal images.
ElfAcceptsExactly ==
    /\ stage = "accepted" => LegalElf
    /\ stage = "rejected" => ~LegalElf

\* "verify_cemod.py applies the same manifest, payload, path, size, and
\* signature rules used by the SDK" (docs/package-format.md): when readelf and
\* nm have nothing to object to, it takes what validate_elf took.
VerifierAgrees == elf.entry => stage # "refused"
=============================================================================
