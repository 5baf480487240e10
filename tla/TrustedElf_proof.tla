-------------------------- MODULE TrustedElf_proof --------------------------
(***************************************************************************)
(* Proofs about TrustedElf for every image: the segments that come through  *)
(* the loop are disjoint and counted exactly, and what the later checks     *)
(* find in one of them is in no other.  ElfBuild keeps all of it, and what  *)
(* it lets through is normalized and whole.                                 *)
(***************************************************************************)
EXTENDS ElfBuild, TLAPS, FiniteSetTheorems

LEMMA ConstantTypes ==
    /\ MAX_TRUSTED_ELF_BYTES \in Nat /\ GUEST_TOP \in Nat
    /\ POINTER \in Nat /\ POINTER > 0
BY SizesAssumption

LEMMA ProgramTypes ==
    ASSUME TypeOK, NEW k \in DOMAIN Program
    PROVE  /\ Program[k] \in ProgramHeaders
           /\ Program[k].address \in Nat /\ Program[k].memory \in Nat
           /\ Program[k].stored \in Nat
           /\ Program[k].flags \in SUBSET {"exec", "write", "read"}
<1>1. Program \in Seq(ProgramHeaders)
  BY DEF TypeOK, ElfRecords, Program
<1>2. Program[k] \in ProgramHeaders
  BY <1>1
<1> QED
  BY <1>2 DEF ProgramHeaders

LEMMA SectionTypes ==
    ASSUME TypeOK
    PROVE  /\ Sections \in Seq(SectionHeaders)
           /\ Len(Sections) \in Nat /\ DOMAIN Sections = 1..Len(Sections)
<1>1. Sections \in Seq(SectionHeaders)
  BY DEF TypeOK, ElfRecords, Sections
<1> QED
  BY <1>1

LEMMA SegmentTypes ==
    ASSUME TypeOK, NEW s \in segments
    PROVE  s.address \in Nat /\ s.memory \in Nat /\ s.flags \in SUBSET {"exec", "write", "read"}
BY DEF TypeOK, Segments

\* the segment the loop is at, as it is kept
New == [address |-> Program[index].address, memory |-> Program[index].memory,
        flags |-> Program[index].flags]

\* What a step of the loop over the program headers does.
LEMMA LoadCases ==
    ASSUME LoadSegment
    PROVE  /\ elf' = elf
           /\ stage = "segments" /\ index \in DOMAIN Program
           /\ \/ stage' = "rejected" /\ UNCHANGED <<index, segments, code_bytes, data_bytes>>
              \/ /\ ~BadSegment(Program[index])
                 /\ segments' = segments \cup {New}
                 /\ code_bytes' = code_bytes +
                       IF "exec" \in New.flags THEN New.memory ELSE 0
                 /\ data_bytes' = data_bytes +
                       IF "exec" \in New.flags THEN 0 ELSE New.memory
                 /\ index' = index + 1 /\ stage' = stage
BY DEF LoadSegment, InLoop, RejectHere, Read, New

LEMMA NewType ==
    ASSUME TypeOK, index \in DOMAIN Program
    PROVE  New \in Segments /\ New.address \in Nat /\ New.memory \in Nat
BY ProgramTypes DEF New, Segments

-----------------------------------------------------------------------------
(* Type correctness.                                                        *)

LEMMA TypeInit == Init => TypeOK
BY ElfsAssumption DEF Init, TypeOK, Stages

LEMMA CheckKeepsType ==
    ASSUME TypeOK, NEW here \in Stages, NEW bad, NEW next \in Stages \ {"header"},
           Check(here, bad, next)
    PROVE  TypeOK'
<1>1. stage' \in Stages \ {"header"} /\ index' = 1
  BY DEF Check, Stages
<1>2. Len(Program) \in Nat /\ Len(Sections) \in Nat
  BY DEF TypeOK, ElfRecords, Program, Sections
<1> QED
  BY <1>1, <1>2 DEF TypeOK, Check, Read, Program, Sections

LEMMA TypeStep == TypeOK /\ [Next]_vars => TypeOK'
<1> SUFFICES ASSUME TypeOK, [Next]_vars PROVE TypeOK'
  OBVIOUS
<1>0. Len(Program) \in Nat /\ Len(Sections) \in Nat
  BY DEF TypeOK, ElfRecords, Program, Sections
<1>1. CASE CheckHeader
  BY <1>1, CheckKeepsType DEF CheckHeader, Stages
<1>2. CASE SkipSegment
  BY <1>0, <1>2 DEF SkipSegment, InLoop, Read, TypeOK, Program, Sections
<1>3. CASE LoadSegment
  <2>1. index \in DOMAIN Program /\ elf' = elf /\ stage = "segments"
    BY <1>3, LoadCases
  <2>2. New \in Segments /\ New.memory \in Nat
    BY <2>1, NewType
  <2>3. index \in 1..Len(Program)
    BY <1>3 DEF LoadSegment, InLoop
  <2> QED
    BY <1>0, <1>3, <2>1, <2>2, <2>3, LoadCases DEF TypeOK, Stages, Program, Sections
<1>4. CASE CheckImage
  BY <1>4, CheckKeepsType DEF CheckImage, Stages
<1>5. CASE CheckNames
  BY <1>5, CheckKeepsType DEF CheckNames, Stages
<1>6. CASE CheckSection
  BY <1>0, <1>6 DEF CheckSection, InLoop, RejectHere, Read, TypeOK, Stages, Program, Sections
<1>7. CASE SectionsDone
  BY <1>7, CheckKeepsType DEF SectionsDone, Stages
<1>8. CASE CheckBootstrap
  BY <1>8, CheckKeepsType DEF CheckBootstrap, Stages
<1>9. CASE Verify
  BY <1>9 DEF Verify, Read, TypeOK, Stages, Program, Sections
<1>10. CASE UNCHANGED vars
  BY <1>10 DEF vars, TypeOK, Program, Sections
<1> QED
  BY <1>1, <1>2, <1>3, <1>4, <1>5, <1>6, <1>7, <1>8, <1>9, <1>10 DEF Next

\* Every state of the checks is of its type: the loops never leave the program
\* header table and the section table, whatever the image holds.
THEOREM ElfTypeCorrect == Spec => []TypeOK
BY TypeInit, TypeStep, PTL DEF Spec

-----------------------------------------------------------------------------
(* The segments.                                                            *)

SegmentLegal(s) ==
    ~({"exec", "write"} \subseteq s.flags) /\ s.address + s.memory <= GUEST_TOP

\* what the loop keeps of the segments
SegmentInv ==
    /\ TypeOK
    /\ SegmentsDisjoint
    /\ \A s \in segments : SegmentLegal(s)
    /\ MemoryCounted
    /\ stage \in Checked => code_bytes + data_bytes <= MAX_TRUSTED_ELF_BYTES

\* Legal segments take a finite number of addresses.
LEMMA MemoryFinite ==
    ASSUME TypeOK, \A s \in segments : SegmentLegal(s), NEW set \in SUBSET segments
    PROVE  /\ Memory(set) \subseteq 0..(GUEST_TOP - 1)
           /\ IsFiniteSet(Memory(set))
<1>1. Memory(set) \subseteq 0..(GUEST_TOP - 1)
  <2> SUFFICES ASSUME NEW s \in set, NEW x \in Bytes(s) PROVE x \in 0..(GUEST_TOP - 1)
    BY DEF Memory
  <2>1. s \in segments /\ s.address \in Nat /\ s.memory \in Nat
    BY SegmentTypes
  <2> QED
    BY <2>1, ConstantTypes DEF Bytes, SegmentLegal
<1>2. IsFiniteSet(0..(GUEST_TOP - 1))
  BY FS_Interval, ConstantTypes
<1> QED
  BY <1>1, <1>2, FS_Subset

LEMMA BytesCount ==
    ASSUME NEW s, s.address \in Nat, s.memory \in Nat
    PROVE  IsFiniteSet(Bytes(s)) /\ Cardinality(Bytes(s)) = s.memory
<1> DEFINE last == s.address + s.memory - 1
<1>1. s.address \in Int /\ last \in Int
  OBVIOUS
<1>2. Bytes(s) = s.address .. last
  BY DEF Bytes
<1> HIDE DEF last
<1>3. /\ IsFiniteSet(s.address .. last)
      /\ Cardinality(s.address .. last) = IF s.address > last THEN 0 ELSE last - s.address + 1
  BY <1>1, FS_Interval
<1> QED
  BY <1>2, <1>3 DEF last

\* A segment that passes shares no byte with the ones before it.
LEMMA NewIsApart ==
    ASSUME TypeOK, index \in DOMAIN Program, ~BadSegment(Program[index]), NEW s \in segments
    PROVE  Bytes(New) \cap Bytes(s) = {}
<1>1. /\ New.address \in Nat /\ New.memory \in Nat
      /\ New.address = Program[index].address /\ New.memory = Program[index].memory
  BY NewType DEF New
<1>2. s.address \in Nat /\ s.memory \in Nat
  BY SegmentTypes
<1>3. ~(New.address < s.address + s.memory /\ s.address < New.address + New.memory)
  BY <1>1 DEF BadSegment, OverlapsSegment
<1> QED
  BY <1>1, <1>2, <1>3 DEF Bytes

\* Adding a set of segments' bytes, apart from the others, adds its size.
LEMMA MemoryGrows ==
    ASSUME TypeOK, \A s \in segments : SegmentLegal(s), NEW set \in SUBSET segments,
           NEW n, n.address \in Nat, n.memory \in Nat,
           \A s \in segments : Bytes(n) \cap Bytes(s) = {}
    PROVE  Cardinality(Memory(set \cup {n})) = Cardinality(Memory(set)) + n.memory
<1>1. Memory(set \cup {n}) = Memory(set) \cup Bytes(n)
  BY DEF Memory
<1>2. Memory(set) \cap Bytes(n) = {}
  BY DEF Memory
<1>3. IsFiniteSet(Memory(set)) /\ Cardinality(Memory(set)) \in Nat
  BY MemoryFinite, FS_CardinalityType
<1>4. IsFiniteSet(Bytes(n)) /\ Cardinality(Bytes(n)) = n.memory
  BY BytesCount
<1>5. Cardinality(Memory(set) \cup Bytes(n)) =
         Cardinality(Memory(set)) + Cardinality(Bytes(n)) - Cardinality(Memory(set) \cap Bytes(n))
  BY <1>3, <1>4, FS_Union
<1>6. Cardinality(Memory(set) \cap Bytes(n)) = 0
  BY <1>2, FS_EmptySet
<1>7. Cardinality(Memory(set) \cup Bytes(n)) = Cardinality(Memory(set)) + n.memory
  BY <1>3, <1>4, <1>5, <1>6
<1> QED
  BY <1>1, <1>7

LEMMA SegmentInit == Init => SegmentInv
<1> SUFFICES ASSUME Init PROVE SegmentInv
  OBVIOUS
<1>1. TypeOK
  BY TypeInit
<1>2. Memory(Code) = {} /\ Memory(segments \ Code) = {}
  BY DEF Init, Memory, Code
<1> QED
  BY <1>1, <1>2, FS_EmptySet DEF Init, SegmentInv, SegmentsDisjoint, MemoryCounted, Checked

LEMMA LoadKeepsSegments == SegmentInv /\ LoadSegment => SegmentInv'
<1> SUFFICES ASSUME SegmentInv, LoadSegment PROVE SegmentInv'
  OBVIOUS
<1>0. TypeOK /\ TypeOK'
  BY TypeStep DEF SegmentInv, Next
<1>1. stage = "segments" /\ index \in DOMAIN Program /\ elf' = elf
  BY LoadCases
<1>2. CASE stage' = "rejected" /\ UNCHANGED <<index, segments, code_bytes, data_bytes>>
  BY <1>0, <1>1, <1>2 DEF SegmentInv, SegmentsDisjoint, MemoryCounted, Code, Memory, Checked
<1>3. CASE /\ ~BadSegment(Program[index])
           /\ segments' = segments \cup {New}
           /\ code_bytes' = code_bytes + IF "exec" \in New.flags THEN New.memory ELSE 0
           /\ data_bytes' = data_bytes + IF "exec" \in New.flags THEN 0 ELSE New.memory
           /\ stage' = stage
  <2>1. New.address \in Nat /\ New.memory \in Nat
    BY <1>0, <1>1, NewType
  <2>2. \A s \in segments : Bytes(New) \cap Bytes(s) = {}
    BY <1>0, <1>1, <1>3, NewIsApart
  <2>3. SegmentsDisjoint'
    BY <1>3, <2>2 DEF SegmentInv, SegmentsDisjoint
  <2>4. SegmentLegal(New)
    <3>1. Program[index].address \in Nat /\ Program[index].memory \in Nat
      BY <1>0, <1>1, ProgramTypes
    <3> QED
      BY <1>3, <3>1, ConstantTypes DEF BadSegment, SegmentLegal, New
  <2>5. \A s \in segments' : SegmentLegal(s)
    BY <1>3, <2>4 DEF SegmentInv
  <2>6. \A s \in segments : SegmentLegal(s)
    BY DEF SegmentInv
  <2>7. /\ code_bytes = Cardinality(Memory(Code))
        /\ data_bytes = Cardinality(Memory(segments \ Code))
        /\ code_bytes \in Nat /\ data_bytes \in Nat
    BY <1>0 DEF SegmentInv, MemoryCounted, TypeOK
  <2>8. CASE "exec" \in New.flags
    <3>1. Code' = Code \cup {New} /\ segments' \ Code' = segments \ Code
      BY <1>3, <2>8 DEF Code
    <3>2. Cardinality(Memory(Code \cup {New})) = Cardinality(Memory(Code)) + New.memory
      BY <1>0, <2>1, <2>2, <2>6, MemoryGrows DEF Code
    <3>3. MemoryCounted'
      BY <1>3, <2>7, <2>8, <3>1, <3>2 DEF MemoryCounted
    <3> QED
      BY <1>0, <1>1, <1>3, <2>3, <2>5, <3>3 DEF SegmentInv, Checked
  <2>9. CASE "exec" \notin New.flags
    <3>1. Code' = Code /\ segments' \ Code' = (segments \ Code) \cup {New}
      BY <1>3, <2>9 DEF Code
    <3>2. Cardinality(Memory((segments \ Code) \cup {New})) =
             Cardinality(Memory(segments \ Code)) + New.memory
      BY <1>0, <2>1, <2>2, <2>6, MemoryGrows
    <3>3. MemoryCounted'
      <4>1. code_bytes' = code_bytes /\ data_bytes' = data_bytes + New.memory
        BY <1>3, <2>7, <2>9
      <4>2. (segments \ Code)' = (segments \ Code) \cup {New}
        BY <3>1
      <4> QED
        BY <2>7, <3>1, <3>2, <4>1, <4>2 DEF MemoryCounted
    <3> QED
      BY <1>0, <1>1, <1>3, <2>3, <2>5, <3>3 DEF SegmentInv, Checked
  <2> QED
    BY <2>8, <2>9
<1> QED
  BY <1>2, <1>3, LoadCases

\* The other steps leave the segments alone.
LEMMA OtherSteps ==
    ASSUME [Next]_vars, ~LoadSegment
    PROVE  UNCHANGED <<elf, segments, code_bytes, data_bytes>>
BY DEF Next, vars, CheckHeader, SkipSegment, CheckImage, CheckNames, CheckSection, SectionsDone,
       CheckBootstrap, Verify, Check, RejectHere, Read

\* Only CheckImage leads to the checks that follow the loop.
LEMMA CheckedBefore ==
    ASSUME [Next]_vars, ~LoadSegment, stage' \in Checked
    PROVE  stage \in Checked \/ CheckImage
BY DEF Next, vars, CheckHeader, SkipSegment, CheckImage, CheckNames, CheckSection, SectionsDone,
       CheckBootstrap, Verify, Check, InLoop, RejectHere, Checked

LEMMA SegmentStep == SegmentInv /\ [Next]_vars => SegmentInv'
<1> SUFFICES ASSUME SegmentInv, [Next]_vars, ~LoadSegment PROVE SegmentInv'
  BY LoadKeepsSegments
<1>0. TypeOK /\ TypeOK'
  BY TypeStep DEF SegmentInv
<1>1. UNCHANGED <<elf, segments, code_bytes, data_bytes>>
  BY OtherSteps
<1>2. /\ SegmentsDisjoint'
      /\ \A s \in segments' : SegmentLegal(s)
      /\ MemoryCounted'
  BY <1>1 DEF SegmentInv, SegmentsDisjoint, MemoryCounted, Code, Memory
<1>3. ASSUME stage' \in Checked PROVE code_bytes + data_bytes <= MAX_TRUSTED_ELF_BYTES
  <2>1. CASE stage \in Checked
    BY <2>1 DEF SegmentInv
  <2>2. CASE CheckImage
    <3>1. ~BadImage
      BY <1>3, <2>2 DEF CheckImage, Check, Checked
    <3> QED
      BY <1>0, <3>1, ConstantTypes DEF BadImage, TypeOK
  <2> QED
    BY <1>3, <2>1, <2>2, CheckedBefore
<1> QED
  BY <1>0, <1>1, <1>2, <1>3 DEF SegmentInv

LEMMA SegmentInvariance == Spec => []SegmentInv
BY SegmentInit, SegmentStep, PTL DEF Spec

\* The load segments validate_elf lets through never share an address.
THEOREM SegmentsStayDisjoint == Spec => []SegmentsDisjoint
<1>1. SegmentInv => SegmentsDisjoint
  BY DEF SegmentInv
<1> QED
  BY <1>1, SegmentInvariance, PTL

\* The totals validate_elf adds up are the numbers of addresses the image takes.
THEOREM MemoryStaysCounted == Spec => []MemoryCounted
<1>1. SegmentInv => MemoryCounted
  BY DEF SegmentInv
<1> QED
  BY <1>1, SegmentInvariance, PTL

\* The sum of the two totals is the number of addresses of the image.
LEMMA MemoryIsCounted ==
    ASSUME SegmentInv
    PROVE  Cardinality(Memory(segments)) = code_bytes + data_bytes
<1>1. TypeOK /\ \A s \in segments : SegmentLegal(s)
  BY DEF SegmentInv
<1>2. /\ IsFiniteSet(Memory(Code)) /\ IsFiniteSet(Memory(segments \ Code))
      /\ Cardinality(Memory(Code)) \in Nat /\ Cardinality(Memory(segments \ Code)) \in Nat
  BY <1>1, MemoryFinite, FS_CardinalityType DEF Code
<1>3. Memory(segments) = Memory(Code) \cup Memory(segments \ Code)
  BY DEF Memory, Code
<1>4. Cardinality(Memory(segments)) =
         Cardinality(Memory(Code)) + Cardinality(Memory(segments \ Code))
            - Cardinality(Memory(Code) \cap Memory(segments \ Code))
  BY <1>2, <1>3, FS_Union
<1>5. Memory(Code) \cap Memory(segments \ Code) = {}
  BY DEF SegmentInv, SegmentsDisjoint, Memory, Code
<1>6. Cardinality(Memory(Code) \cap Memory(segments \ Code)) = 0
  BY <1>5, FS_EmptySet
<1> QED
  BY <1>2, <1>4, <1>6 DEF SegmentInv, MemoryCounted

LEMMA ImageFitsByCount == SegmentInv => ImageFits
<1> SUFFICES ASSUME SegmentInv PROVE ImageFits
  OBVIOUS
<1>1. Memory(segments) \subseteq 0..(GUEST_TOP - 1)
  BY MemoryFinite DEF SegmentInv
<1> QED
  BY <1>1, MemoryIsCounted DEF ImageFits, SegmentInv

\* An image whose totals were let through fits into the codecave and into the
\* guest's addresses.
THEOREM ImageStaysFitting == Spec => []ImageFits
BY ImageFitsByCount, SegmentInvariance, PTL

-----------------------------------------------------------------------------
(* The checks that look targets up among the segments.                      *)

Passed == {"bootstrap", "accepted", "verified", "refused"}
Bootable == {"accepted", "verified", "refused"}

ElfInv ==
    /\ SegmentInv
    /\ stage = "sections" => \A k \in 1..(index - 1) : ~BadSection(Sections[k])
    /\ stage \in Passed => \A k \in DOMAIN Sections : ~BadSection(Sections[k])
    /\ stage \in Bootable => ~BadBootstrap

\* The verdicts depend on the image and the segments alone.
LEMMA VerdictsFrozen ==
    ASSUME UNCHANGED <<elf, segments>>
    PROVE  /\ Sections' = Sections
           /\ \A k : BadSection(Sections[k])' <=> BadSection(Sections[k])
           /\ BadBootstrap' <=> BadBootstrap
<1>1. Sections' = Sections
  BY DEF Sections
<1>2. \A a, n, f : contains(a, n, f)' <=> contains(a, n, f)
  BY DEF contains
<1>3. \A a, n : Outside(a, n)' <=> Outside(a, n)
  BY DEF Outside
<1>4. \A r, s : BadRelocation(r, s)' <=> BadRelocation(r, s)
  BY <1>2 DEF BadRelocation
<1>5. \A k : BadSection(Sections[k])' <=> BadSection(Sections[k])
  BY <1>1, <1>3, <1>4 DEF BadSection, BadSymbols, BadRelocations
<1>6. \A r : BadRecord(r)' <=> BadRecord(r)
  BY <1>2 DEF BadRecord
<1>7. Bootstraps' = Bootstraps /\ Bootstrap' = Bootstrap
  BY <1>1 DEF Bootstraps, Bootstrap
<1>8. BadBootstrap' <=> BadBootstrap
  BY <1>2, <1>6, <1>7 DEF BadBootstrap, BadCount
<1> QED
  BY <1>1, <1>5, <1>8

LEMMA ElfStep == ElfInv /\ [Next]_vars => ElfInv'
<1> SUFFICES ASSUME ElfInv, [Next]_vars PROVE ElfInv'
  OBVIOUS
<1>0. SegmentInv' /\ TypeOK
  BY SegmentStep DEF ElfInv, SegmentInv
<1>1. CASE LoadSegment
  BY <1>0, <1>1, LoadCases DEF ElfInv, Passed, Bootable
<1>2. CASE ~LoadSegment
  <2>0. /\ Sections' = Sections
        /\ \A k : BadSection(Sections[k])' <=> BadSection(Sections[k])
        /\ BadBootstrap' <=> BadBootstrap
    BY <1>2, OtherSteps, VerdictsFrozen
  <2>1. ASSUME stage' = "sections" PROVE \A k \in 1..(index' - 1) : ~BadSection(Sections[k])
    <3>1. CASE CheckNames
      BY <3>1 DEF CheckNames, Check
    <3>2. CASE CheckSection
      <4>1. /\ stage = "sections" /\ index \in 1..Len(Sections)
            /\ index' = index + 1 /\ ~BadSection(Sections[index])
        BY <2>1, <3>2 DEF CheckSection, InLoop, RejectHere
      <4>2. \A k \in 1..(index - 1) : ~BadSection(Sections[k])
        BY <4>1 DEF ElfInv
      <4>3. \A k \in 1..(index' - 1) : k \in 1..(index - 1) \/ k = index
        BY <4>1, <1>0, SectionTypes
      <4> QED
        BY <4>1, <4>2, <4>3
    <3>3. CASE UNCHANGED vars
      BY <2>1, <3>3 DEF ElfInv, vars
    <3> QED
      BY <1>2, <2>1, <3>1, <3>2, <3>3 DEF Next, CheckHeader, SkipSegment, CheckImage, SectionsDone,
         CheckBootstrap, Verify, Check, InLoop
  <2>2. ASSUME stage' \in Passed PROVE \A k \in DOMAIN Sections : ~BadSection(Sections[k])
    <3>1. CASE SectionsDone
      <4>1. stage = "sections" /\ index > Len(Sections)
        BY <3>1 DEF SectionsDone, Check
      <4>2. \A k \in DOMAIN Sections : k \in 1..(index - 1)
        BY <4>1, <1>0, SectionTypes DEF TypeOK
      <4> QED
        BY <4>1, <4>2 DEF ElfInv
    <3>2. CASE stage \in Passed
      BY <3>2 DEF ElfInv
    <3> QED
      BY <1>2, <2>2, <3>1, <3>2 DEF Next, vars, CheckHeader, SkipSegment, CheckImage, CheckNames,
         CheckSection, CheckBootstrap, Verify, Check, InLoop, RejectHere, Passed
  <2>3. ASSUME stage' \in Bootable PROVE ~BadBootstrap
    <3>1. CASE CheckBootstrap
      BY <2>3, <3>1 DEF CheckBootstrap, Check, Bootable
    <3>2. CASE stage \in Bootable
      BY <3>2 DEF ElfInv
    <3> QED
      BY <1>2, <2>3, <3>1, <3>2 DEF Next, vars, CheckHeader, SkipSegment, CheckImage, CheckNames,
         CheckSection, SectionsDone, Verify, Check, InLoop, RejectHere, Bootable
  <2> QED
    BY <1>0, <2>0, <2>1, <2>2, <2>3 DEF ElfInv
<1> QED
  BY <1>1, <1>2

LEMMA ElfInvariance == Spec => []ElfInv
<1>1. Init => ElfInv
  BY SegmentInit DEF Init, ElfInv, Passed, Bootable
<1> QED
  BY <1>1, ElfStep, PTL DEF Spec

\* What contains finds in a segment is in that one only.
LEMMA FoundInOne ==
    ASSUME SegmentInv, NEW address \in Nat, NEW size \in Nat, NEW flags,
           contains(address, size, flags)
    PROVE  InOneSegment(address, size, flags)
<1>1. PICK s \in segments :
          /\ flags \subseteq s.flags
          /\ address >= s.address
          /\ address - s.address <= s.memory
          /\ size <= s.memory - (address - s.address)
  BY DEF contains
<1>2. s.address \in Nat /\ s.memory \in Nat
  BY SegmentTypes DEF SegmentInv
<1>3. address .. (address + size - 1) \subseteq Bytes(s)
  BY <1>1, <1>2 DEF Bytes
<1>4. \A t \in segments \ {s} : Bytes(s) \cap Bytes(t) = {}
  BY DEF SegmentInv, SegmentsDisjoint
<1> QED
  BY <1>1, <1>3, <1>4 DEF InOneSegment

\* The sections that were checked patch what contains found.
LEMMA PatchesFound == ElfInv => PatchesInImage
<1> SUFFICES ASSUME ElfInv PROVE PatchesInImage
  OBVIOUS
<1> SUFFICES ASSUME stage \in Passed,
                    NEW k \in DOMAIN Sections, Sections[k].kind = "rela",
                    NEW n \in DOMAIN Sections[k].entries, Sections[k].entries[n].width # 0
             PROVE  InOneSegment(Sections[k].entries[n].target, Sections[k].entries[n].width, {})
  BY DEF PatchesInImage, Passed
<1> DEFINE r == Sections[k].entries[n]
<1>1. SegmentInv /\ TypeOK
  BY DEF ElfInv, SegmentInv
<1>2. Sections[k] \in SectionHeaders
  BY <1>1, SectionTypes
<1>3. Sections[k].entries \in Seq(Relocations)
  BY <1>2 DEF SectionHeaders
<1>4. r \in Relocations
  BY <1>3
<1>5. ~BadRelocations(Sections[k])
  BY DEF ElfInv, BadSection
<1>6. ~BadRelocation(r, Sections[Sections[k].link])
  BY <1>5 DEF BadRelocations
<1>7. r.target \in Nat /\ r.width \in Nat /\ contains(r.target, r.width, {})
  BY <1>4, <1>6 DEF BadRelocation, Relocations, UNALIGNED
<1> QED
  BY <1>1, <1>7, FoundInOne

\* Every byte a relocation patches lies in the image, in one segment.
THEOREM PatchesStayInImage == Spec => []PatchesInImage
BY PatchesFound, ElfInvariance, PTL

\* contains found each handler in a segment that is not written.
LEMMA HandlersFound == ElfInv => HandlersExecute
<1> SUFFICES ASSUME ElfInv PROVE HandlersExecute
  OBVIOUS
<1> SUFFICES ASSUME stage \in Bootable, NEW n \in DOMAIN Bootstrap.records
             PROVE  LET r == Bootstrap.records[n]
                    IN  /\ InOneSegment(r.handler, POINTER, {"exec"})
                        /\ \A s \in segments : "write" \in s.flags =>
                              r.handler .. (r.handler + POINTER - 1) \cap Bytes(s) = {}
  BY DEF HandlersExecute, Bootable
<1> DEFINE r == Bootstrap.records[n]
<1>1. SegmentInv /\ TypeOK /\ ~BadBootstrap
  BY DEF ElfInv, SegmentInv
<1>2. Cardinality(Bootstraps) = 1
  BY <1>1 DEF BadBootstrap
<1>3. Bootstraps # {}
  BY <1>2, FS_EmptySet
<1>4. Bootstrap \in SectionHeaders
  BY <1>1, <1>3, SectionTypes DEF Bootstrap, Bootstraps
<1>5. r \in Records
  <2>1. Bootstrap.records \in Seq(Records)
    BY <1>4 DEF SectionHeaders
  <2> QED
    BY <2>1
<1>6. r.handler \in Nat /\ contains(r.handler, POINTER, {"exec"})
  BY <1>1, <1>5 DEF BadBootstrap, BadRecord, Records
<1>7. InOneSegment(r.handler, POINTER, {"exec"})
  BY <1>1, <1>6, FoundInOne, ConstantTypes
<1>8. PICK s \in segments :
          /\ {"exec"} \subseteq s.flags
          /\ \A t \in segments \ {s} : r.handler .. (r.handler + POINTER - 1) \cap Bytes(t) = {}
  BY <1>7 DEF InOneSegment
<1>9. "write" \notin s.flags
  BY <1>1, <1>8 DEF SegmentInv, SegmentLegal
<1> QED
  BY <1>7, <1>8, <1>9

\* The handler of every accepted bootstrap record is code that nothing writes.
THEOREM HandlersStayCode == Spec => []HandlersExecute
BY HandlersFound, ElfInvariance, PTL

-----------------------------------------------------------------------------
(* Exactly the legal images.  The loops and LegalElf say the same of the    *)
(* program headers, of the sections and of the bootstrap section, but one   *)
(* part leans on another: a relocation's symbol table is a section too, and *)
(* the bytes of the bootstrap section are those of a legal section.         *)

\* a program header as it is kept, and what is legal of one and of two
Kept(k) == [address |-> Program[k].address, memory |-> Program[k].memory,
            flags |-> Program[k].flags]

SoundSegment(k) ==
    /\ Program[k].stored <= Program[k].memory
    /\ Program[k].offset + Program[k].stored <= elf.length
    /\ ~({"exec", "write"} \subseteq Program[k].flags)
    /\ Program[k].address + Program[k].memory <= GUEST_TOP

Overlap(j, k) ==
    /\ Program[k].address < Program[j].address + Program[j].memory
    /\ Program[j].address < Program[k].address + Program[k].memory

ReadOK(n) ==
    /\ segments = {Kept(k) : k \in {l \in Loads : l < n}}
    /\ \A k \in Loads : k < n =>
          SoundSegment(k) /\ \A j \in Loads : j < k => ~Overlap(j, k)

\* Arithmetic on the bounds of two ranges says whether they meet.
LEMMA RangesApart ==
    ASSUME NEW a \in Nat, NEW m \in Nat, NEW b \in Nat, NEW n \in Nat
    PROVE  ~(b < a + m /\ a < b + n) <=>
              IF m > 0 /\ n > 0
              THEN a .. (a + m - 1) \cap b .. (b + n - 1) = {}
              ELSE b \notin (a + 1) .. (a + m - 1) /\ a \notin (b + 1) .. (b + n - 1)
<1>1. CASE m > 0 /\ n > 0
  <2>1. ASSUME b < a + m, a < b + n PROVE a .. (a + m - 1) \cap b .. (b + n - 1) # {}
    <3>1. CASE a <= b
      <4>1. b \in a .. (a + m - 1) /\ b \in b .. (b + n - 1)
        BY <1>1, <2>1, <3>1
      <4> QED
        BY <4>1
    <3>2. CASE b < a
      <4>1. a \in a .. (a + m - 1) /\ a \in b .. (b + n - 1)
        BY <1>1, <2>1, <3>2
      <4> QED
        BY <4>1
    <3> QED
      BY <3>1, <3>2
  <2>2. ASSUME NEW x \in a .. (a + m - 1) \cap b .. (b + n - 1) PROVE b < a + m /\ a < b + n
    OBVIOUS
  <2> QED
    BY <1>1, <2>1, <2>2
<1>2. CASE ~(m > 0 /\ n > 0)
  BY <1>2
<1> QED
  BY <1>1, <1>2

LEMMA LoadTypes ==
    ASSUME TypeOK, NEW k \in Loads
    PROVE  /\ k \in DOMAIN Program /\ k \in Nat /\ k \in 1..Len(Program)
           /\ Program[k].address \in Nat /\ Program[k].memory \in Nat
           /\ Program[k].stored \in Nat /\ Program[k].offset \in Nat
           /\ elf.length \in Nat
<1>1. Program \in Seq(ProgramHeaders) /\ elf.length \in Nat
  BY DEF TypeOK, ElfRecords, Program
<1>2. k \in DOMAIN Program /\ DOMAIN Program = 1..Len(Program) /\ Len(Program) \in Nat
  BY <1>1 DEF Loads
<1>3. Program[k] \in ProgramHeaders
  BY <1>1, <1>2
<1> QED
  BY <1>1, <1>2, <1>3 DEF ProgramHeaders

LEMMA LegalProgramParts ==
    ASSUME TypeOK
    PROVE  LegalProgram <=>
              /\ \A k \in Loads : SoundSegment(k) /\ \A j \in Loads : j < k => ~Overlap(j, k)
              /\ \E k \in Loads : "exec" \in Program[k].flags /\ Program[k].memory > 0
              /\ Cardinality(UNION {Program[k].address ..
                                       (Program[k].address + Program[k].memory - 1) :
                                    k \in Loads}) <= MAX_TRUSTED_ELF_BYTES
<1>1. \A j, k \in Loads :
         ~Overlap(j, k) <=>
            LET p == Program[j]
                q == Program[k]
            IN  IF p.memory > 0 /\ q.memory > 0
                THEN p.address .. (p.address + p.memory - 1)
                        \cap q.address .. (q.address + q.memory - 1) = {}
                ELSE /\ q.address \notin (p.address + 1) .. (p.address + p.memory - 1)
                     /\ p.address \notin (q.address + 1) .. (q.address + q.memory - 1)
  <2> TAKE j, k \in Loads
  <2>1. /\ Program[j].address \in Nat /\ Program[j].memory \in Nat
        /\ Program[k].address \in Nat /\ Program[k].memory \in Nat
    BY LoadTypes
  <2> QED
    BY <2>1, RangesApart DEF Overlap
<1>2. (\A j, k \in Loads : j < k => ~Overlap(j, k)) <=>
         \A j, k \in Loads : j < k =>
            LET p == Program[j]
                q == Program[k]
            IN  IF p.memory > 0 /\ q.memory > 0
                THEN p.address .. (p.address + p.memory - 1)
                        \cap q.address .. (q.address + q.memory - 1) = {}
                ELSE /\ q.address \notin (p.address + 1) .. (p.address + p.memory - 1)
                     /\ p.address \notin (q.address + 1) .. (q.address + q.memory - 1)
  BY <1>1
<1>3. (\A k \in Loads : SoundSegment(k)) <=>
         \A k \in Loads :
            LET p == Program[k]
            IN  /\ p.stored <= p.memory /\ p.offset + p.stored <= elf.length
                /\ ~({"exec", "write"} \subseteq p.flags)
                /\ p.address + p.memory <= GUEST_TOP
  BY DEF SoundSegment
<1> QED
  BY <1>2, <1>3 DEF LegalProgram

LEMMA KeptFields ==
    \A k : /\ Kept(k).address = Program[k].address /\ Kept(k).memory = Program[k].memory
           /\ Kept(k).flags = Program[k].flags
BY DEF Kept

\* What BadSegment finds, of the header at hand.
LEMMA SegmentVerdict ==
    ASSUME TypeOK, index \in Loads, ReadOK(index)
    PROVE  BadSegment(Program[index]) <=>
              ~(SoundSegment(index) /\ \A j \in Loads : j < index => ~Overlap(j, index))
<1>1. /\ Program[index].stored \in Nat /\ Program[index].memory \in Nat
      /\ Program[index].address \in Nat /\ Program[index].offset \in Nat /\ elf.length \in Nat
  BY LoadTypes
<1>2. Outside(Program[index].offset, Program[index].stored) <=>
         ~(Program[index].offset + Program[index].stored <= elf.length)
  BY <1>1 DEF Outside
<1>3. OverlapsSegment(Program[index]) <=> \E j \in Loads : j < index /\ Overlap(j, index)
  <2>1. segments = {Kept(j) : j \in {l \in Loads : l < index}}
    BY DEF ReadOK
  <2> QED
    BY <2>1, KeptFields DEF OverlapsSegment, Overlap
<1> QED
  BY <1>1, <1>2, <1>3, ConstantTypes DEF BadSegment, SoundSegment

\* A header more is read.
LEMMA ReadMore ==
    ASSUME TypeOK, index \in DOMAIN Program, ReadOK(index), UNCHANGED elf, index' = index + 1,
           \/ ~Program[index].load /\ segments' = segments
           \/ /\ Program[index].load /\ segments' = segments \cup {New}
              /\ SoundSegment(index) /\ \A j \in Loads : j < index => ~Overlap(j, index)
    PROVE  ReadOK(index)'
<1>1. /\ Program' = Program /\ Loads' = Loads
      /\ \A k : Kept(k)' = Kept(k) /\ (SoundSegment(k)' <=> SoundSegment(k))
      /\ \A j, k : Overlap(j, k)' <=> Overlap(j, k)
  BY DEF Program, Loads, Kept, SoundSegment, Overlap
<1>2. index \in Nat /\ \A k \in Loads : k \in Nat
  BY LoadTypes DEF TypeOK
<1>3. {k \in Loads : k < index + 1} =
         IF Program[index].load THEN {k \in Loads : k < index} \cup {index}
         ELSE {k \in Loads : k < index}
  BY <1>2 DEF Loads
<1>4. New = Kept(index)
  BY DEF New, Kept
<1>5. segments' = {Kept(k) : k \in {l \in Loads : l < index + 1}}
  BY <1>3, <1>4 DEF ReadOK
<1>6. \A k \in Loads : k < index + 1 =>
         SoundSegment(k) /\ \A j \in Loads : j < k => ~Overlap(j, k)
  BY <1>2 DEF ReadOK, Loads
<1> QED
  BY <1>1, <1>5, <1>6 DEF ReadOK

\* The image is what the segments say.
LEMMA MemoryOfLoads ==
    ASSUME segments = {Kept(k) : k \in Loads}
    PROVE  Memory(segments) =
              UNION {Program[k].address .. (Program[k].address + Program[k].memory - 1) :
                        k \in Loads}
<1>1. \A k \in Loads :
         Bytes(Kept(k)) = Program[k].address .. (Program[k].address + Program[k].memory - 1)
  BY KeptFields DEF Bytes
<1>2. {Bytes(s) : s \in segments} =
         {Program[k].address .. (Program[k].address + Program[k].memory - 1) : k \in Loads}
  BY <1>1
<1> QED
  BY <1>2 DEF Memory

LEMMA ImageVerdict ==
    ASSUME SegmentInv, segments = {Kept(k) : k \in Loads}
    PROVE  ~BadImage <=>
              /\ \E k \in Loads : "exec" \in Program[k].flags /\ Program[k].memory > 0
              /\ Cardinality(Memory(segments)) <= MAX_TRUSTED_ELF_BYTES
<1>1. TypeOK /\ MemoryCounted /\ \A s \in segments : SegmentLegal(s)
  BY DEF SegmentInv
<1>2. IsFiniteSet(Memory(Code)) /\ Cardinality(Memory(Code)) \in Nat
  BY <1>1, MemoryFinite, FS_CardinalityType DEF Code
<1>3. code_bytes = 0 <=> Memory(Code) = {}
  BY <1>1, <1>2, FS_EmptySet DEF MemoryCounted
<1>4. Memory(Code) # {} <=> \E k \in Loads : "exec" \in Program[k].flags /\ Program[k].memory > 0
  <2>1. Memory(Code) # {} <=> \E s \in segments : "exec" \in s.flags /\ Bytes(s) # {}
    BY DEF Memory, Code
  <2>2. \A s \in segments : Bytes(s) # {} <=> s.memory > 0
    BY <1>1, SegmentTypes DEF Bytes
  <2>3. Memory(Code) # {} <=> \E s \in segments : "exec" \in s.flags /\ s.memory > 0
    BY <2>1, <2>2
  <2> QED
    BY <2>3, KeptFields
<1>5. code_bytes # 0 => segments # {}
  BY <1>3 DEF Memory, Code
<1>6. Cardinality(Memory(segments)) = code_bytes + data_bytes
  BY MemoryIsCounted
<1> QED
  BY <1>1, <1>3, <1>4, <1>5, <1>6, ConstantTypes DEF BadImage, TypeOK

\* contains looks among the segments for what Loaded looks for in the image.
LEMMA ContainsIsLoaded ==
    ASSUME TypeOK, segments = {Kept(k) : k \in Loads},
           NEW address \in Nat, NEW size \in Nat, NEW flags
    PROVE  contains(address, size, flags) <=> Loaded(address, size, flags)
<1>1. \A k \in Loads :
         /\ Kept(k).address = Program[k].address /\ Kept(k).memory = Program[k].memory
         /\ Kept(k).flags = Program[k].flags
         /\ Program[k].address \in Nat /\ Program[k].memory \in Nat
  BY LoadTypes, KeptFields
<1>2. \A a, m \in Nat :
         (address >= a /\ address - a <= m /\ size <= m - (address - a))
         <=> (a <= address /\ address + size <= a + m)
  OBVIOUS
<1> QED
  BY <1>1, <1>2 DEF contains, Loaded

LEMMA SectionFields ==
    ASSUME TypeOK, NEW k \in DOMAIN Sections
    PROVE  LET s == Sections[k]
           IN  /\ s \in SectionHeaders /\ elf.length \in Nat
               /\ s.offset \in Nat /\ s.size \in Nat /\ s.link \in Nat /\ s.address \in Nat
               /\ s.count \in Nat /\ s.whole \in BOOLEAN
               /\ s.defined \in Seq(BOOLEAN) /\ s.entries \in Seq(Relocations)
               /\ s.records \in Seq(Records)
<1>1. Sections[k] \in SectionHeaders
  BY SectionTypes
<1> QED
  BY <1>1 DEF SectionHeaders, TypeOK, ElfRecords

\* One relocation, against the symbol table it names.
LEMMA RelocationVerdict ==
    ASSUME TypeOK, segments = {Kept(k) : k \in Loads},
           NEW r \in Relocations, NEW j \in DOMAIN Sections
    PROVE  ~BadRelocation(r, Sections[j]) <=>
              /\ r.width >= 0 /\ r.symbol + 1 \in DOMAIN Sections[j].defined
              /\ r.width > 0 => Loaded(r.target, r.width, {})
<1>1. /\ r.target \in Nat /\ r.symbol \in Nat /\ r.width \in {-4, -1, 0, 2, 4}
  BY DEF Relocations, UNALIGNED
<1>2. /\ Len(Sections[j].defined) \in Nat
      /\ DOMAIN Sections[j].defined = 1..Len(Sections[j].defined)
  BY SectionFields
<1>3. r.symbol >= Len(Sections[j].defined) <=> r.symbol + 1 \notin DOMAIN Sections[j].defined
  BY <1>1, <1>2
<1>4. CASE r.width > 0
  <2>1. r.width \in Nat
    BY <1>1, <1>4
  <2>2. contains(r.target, r.width, {}) <=> Loaded(r.target, r.width, {})
    BY <1>1, <2>1, ContainsIsLoaded
  <2> QED
    BY <1>1, <1>3, <1>4, <2>2 DEF BadRelocation
<1>5. CASE ~(r.width > 0)
  BY <1>1, <1>3, <1>5 DEF BadRelocation
<1> QED
  BY <1>4, <1>5

\* A section by itself, as far as the symbol table it names is whole.
LEMMA SectionVerdict ==
    ASSUME TypeOK, segments = {Kept(k) : k \in Loads}, NEW k \in DOMAIN Sections
    PROVE  /\ ~BadSection(Sections[k]) => LegalSection(Sections[k])
           /\ /\ LegalSection(Sections[k])
              /\ \A j \in DOMAIN Sections : LegalSection(Sections[j])
              => ~BadSection(Sections[k])
<1> DEFINE s == Sections[k]
<1>1. /\ s.offset \in Nat /\ s.size \in Nat /\ s.link \in Nat /\ elf.length \in Nat
      /\ s.defined \in Seq(BOOLEAN) /\ s.entries \in Seq(Relocations) /\ s.whole \in BOOLEAN
  BY SectionFields
<1>2. DOMAIN Sections = 1..Len(Sections) /\ Len(Sections) \in Nat
  BY SectionTypes
<1> HIDE DEF s
<1>3. Outside(s.offset, s.size) <=> ~(s.offset + s.size <= elf.length)
  BY <1>1 DEF Outside
<1>4. BadSymbols(s) <=> ~(s.whole /\ \A n \in 2..Len(s.defined) : s.defined[n])
  <2>1. DOMAIN s.defined \ {1} = 2..Len(s.defined)
    BY <1>1
  <2> QED
    BY <2>1 DEF BadSymbols
<1>5. s.link \in DOMAIN Sections <=> (s.link <= Len(Sections) /\ s.link > 0)
  BY <1>1, <1>2
<1>6. ASSUME s.link \in DOMAIN Sections
      PROVE  (\E n \in DOMAIN s.entries : BadRelocation(s.entries[n], Sections[s.link])) <=>
                ~\A n \in DOMAIN s.entries :
                    LET r == s.entries[n]
                    IN  /\ r.width >= 0 /\ r.symbol + 1 \in DOMAIN Sections[s.link].defined
                        /\ r.width > 0 => Loaded(r.target, r.width, {})
  <2>1. \A n \in DOMAIN s.entries : s.entries[n] \in Relocations
    BY <1>1
  <2> QED
    BY <1>6, <2>1, RelocationVerdict
<1>7. ASSUME ~BadSection(s) PROVE LegalSection(s)
  <2>1. s.kind = "rela" => ~BadRelocations(s)
    BY <1>7 DEF BadSection
  <2> QED
    BY <1>3, <1>4, <1>5, <1>6, <1>7, <2>1 DEF BadSection, LegalSection, BadRelocations
<1>8. ASSUME LegalSection(s), \A j \in DOMAIN Sections : LegalSection(Sections[j])
      PROVE  ~BadSection(s)
  <2>1. ASSUME s.kind = "rela" PROVE ~BadRelocations(s)
    <3>1. s.link \in DOMAIN Sections /\ s.whole /\ Sections[s.link].kind = "symtab"
      BY <1>5, <1>8, <2>1 DEF LegalSection
    <3>2. Sections[s.link].whole
      BY <1>8, <3>1 DEF LegalSection
    <3>3. ~\E n \in DOMAIN s.entries : BadRelocation(s.entries[n], Sections[s.link])
      BY <1>6, <1>8, <2>1, <3>1 DEF LegalSection
    <3> QED
      BY <3>1, <3>2, <3>3 DEF BadRelocations
  <2> QED
    BY <1>3, <1>4, <1>8, <2>1 DEF BadSection, LegalSection
<1> QED
  BY <1>7, <1>8 DEF s

\* The bootstrap section, among legal sections whose names are distinct.
LEMMA BootstrapVerdict ==
    ASSUME TypeOK, segments = {Kept(k) : k \in Loads}, ~BadNames,
           \A k \in DOMAIN Sections : LegalSection(Sections[k])
    PROVE  ~BadBootstrap <=>
              \E k \in DOMAIN Sections :
                 Sections[k].name = bootstrap_name /\ LegalBootstrap(Sections[k])
<1>1. bootstrap_name # Unnamed
  BY ElfsAssumption
<1>2. \A j, k \in Bootstraps : j = k
  BY <1>1 DEF BadNames, Bootstraps
<1>3. ASSUME NEW k \in DOMAIN Sections
      PROVE  LegalBootstrap(Sections[k]) <=>
                LET b == Sections[k]
                IN  ~(\/ b.kind # "progbits" \/ ~b.alloc \/ b.size < CMB_HEADER \/ ~b.magic
                      \/ ~contains(b.address, b.size, {}) \/ b.offset + b.size > elf.length
                      \/ BadCount(b)
                      \/ \E n \in DOMAIN b.records : BadRecord(b.records[n]))
  <2> DEFINE b == Sections[k]
  <2>1. /\ b.offset \in Nat /\ b.size \in Nat /\ b.address \in Nat /\ b.count \in Nat
        /\ elf.length \in Nat /\ b.records \in Seq(Records)
    BY SectionFields
  <2>2. b.kind = "nobits" \/ b.offset + b.size <= elf.length
    BY DEF LegalSection
  <2>3. contains(b.address, b.size, {}) <=> Loaded(b.address, b.size, {})
    BY <2>1, ContainsIsLoaded
  <2> HIDE DEF b
  <2>4. BadCount(b) <=>
           ~(b.count >= 1 /\ b.count <= MAX_RECORDS /\ b.size = CMB_HEADER + b.count * CMB_RECORD)
    BY <2>1, SizesAssumption DEF BadCount
  <2>5. (\E n \in DOMAIN b.records : BadRecord(b.records[n])) <=>
           ~\A n \in DOMAIN b.records :
               LET r == b.records[n]
               IN  /\ r.module_hash > 0 /\ r.mask > 0 /\ r.flags = 0 /\ r.target % POINTER = 0
                   /\ Loaded(r.handler, POINTER, {"exec"})
    <3>1. ASSUME NEW n \in DOMAIN b.records
          PROVE  LET r == b.records[n]
                 IN  BadRecord(r) <=>
                        ~(/\ r.module_hash > 0 /\ r.mask > 0 /\ r.flags = 0
                          /\ r.target % POINTER = 0 /\ Loaded(r.handler, POINTER, {"exec"}))
      <4>1. b.records[n] \in Records
        BY <2>1
      <4>2. /\ b.records[n].module_hash \in Nat /\ b.records[n].mask \in Nat
            /\ b.records[n].handler \in Nat
        BY <4>1 DEF Records
      <4>3. contains(b.records[n].handler, POINTER, {"exec"}) <=>
               Loaded(b.records[n].handler, POINTER, {"exec"})
        BY <4>2, ContainsIsLoaded, ConstantTypes
      <4>4. /\ b.records[n].module_hash = 0 <=> ~(b.records[n].module_hash > 0)
            /\ b.records[n].mask = 0 <=> ~(b.records[n].mask > 0)
        BY <4>2
      <4> QED
        BY <4>3, <4>4 DEF BadRecord
    <3> QED
      BY <3>1
  <2>6. b.size = CMB_HEADER + b.count * CMB_RECORD => ~(b.size < CMB_HEADER)
    <3>1. b.count * CMB_RECORD \in Nat
      BY <2>1, SizesAssumption, SMTT(30)
    <3> QED
      BY <2>1, <3>1, SizesAssumption
  <2>7. b.kind = "progbits" => ~(b.offset + b.size > elf.length)
    BY <2>1, <2>2
  <2> QED
    BY <2>3, <2>4, <2>5, <2>6, <2>7 DEF LegalBootstrap, b
<1>4. ASSUME NEW k \in Bootstraps
      PROVE  ~BadBootstrap <=> LegalBootstrap(Sections[k])
  <2>1. Bootstraps = {k}
    BY <1>2
  <2>2. Cardinality(Bootstraps) = 1 /\ Bootstrap = Sections[k]
    BY <2>1, FS_Singleton DEF Bootstrap
  <2>3. k \in DOMAIN Sections
    BY DEF Bootstraps
  <2> QED
    BY <1>3, <2>2, <2>3 DEF BadBootstrap
<1>5. ASSUME Bootstraps = {} PROVE BadBootstrap
  BY <1>5, FS_EmptySet DEF BadBootstrap
<1> QED
  BY <1>2, <1>4, <1>5 DEF Bootstraps

\* All headers are read.
LEMMA AllRead ==
    ASSUME TypeOK, ReadOK(index), index > Len(Program)
    PROVE  /\ segments = {Kept(k) : k \in Loads}
           /\ \A k \in Loads : SoundSegment(k) /\ \A j \in Loads : j < k => ~Overlap(j, k)
<1>1. index \in Nat /\ Len(Program) \in Nat
  BY DEF TypeOK, ElfRecords, Program
<1>2. \A k \in Loads : k < index
  BY <1>1, LoadTypes
<1>3. {l \in Loads : l < index} = Loads
  BY <1>2
<1> QED
  BY <1>2, <1>3 DEF ReadOK

LEMMA ReadSame ==
    ASSUME ReadOK(index), UNCHANGED <<elf, segments, index>>
    PROVE  ReadOK(index)'
<1>1. /\ Program' = Program /\ Loads' = Loads
      /\ \A k : Kept(k)' = Kept(k) /\ (SoundSegment(k)' <=> SoundSegment(k))
      /\ \A j, k : Overlap(j, k)' <=> Overlap(j, k)
  BY DEF Program, Loads, Kept, SoundSegment, Overlap
<1> QED
  BY <1>1 DEF ReadOK

-----------------------------------------------------------------------------
\* what has been found legal, stage by stage
LegalInv ==
    /\ ElfInv
    /\ stage \notin {"header", "rejected"} => ~BadHeader
    /\ stage = "segments" => ReadOK(index)
    /\ stage \in Checked => segments = {Kept(k) : k \in Loads} /\ LegalProgram
    /\ stage \in Checked \ {"names"} => ~BadNames
    /\ stage = "rejected" => ~LegalElf

LEMMA LegalFrozen ==
    ASSUME UNCHANGED elf
    PROVE  /\ Program' = Program /\ Sections' = Sections /\ Loads' = Loads
           /\ BadHeader' <=> BadHeader
           /\ BadNames' <=> BadNames
           /\ LegalProgram' <=> LegalProgram
           /\ LegalElf' <=> LegalElf
           /\ \A k : Kept(k)' = Kept(k)
<1>1. /\ Program' = Program /\ Sections' = Sections /\ Loads' = Loads
      /\ \A a, n : Outside(a, n)' <=> Outside(a, n)
  BY DEF Program, Sections, Loads, Outside
<1>2. (BadHeader' <=> BadHeader) /\ (BadNames' <=> BadNames) /\ \A k : Kept(k)' = Kept(k)
  BY <1>1 DEF BadHeader, BadNames, Kept
<1>3. (LegalProgram' <=> LegalProgram)
  BY <1>1 DEF LegalProgram
<1>4. \A a, n, f : Loaded(a, n, f)' <=> Loaded(a, n, f)
  BY <1>1 DEF Loaded
<1>5. \A k : /\ LegalSection(Sections[k])' <=> LegalSection(Sections[k])
             /\ LegalBootstrap(Sections[k])' <=> LegalBootstrap(Sections[k])
  BY <1>1, <1>4 DEF LegalSection, LegalBootstrap
<1>6. LegalElf' <=> LegalElf
  BY <1>1, <1>2, <1>3, <1>5 DEF LegalElf
<1> QED
  BY <1>1, <1>2, <1>3, <1>6

\* An image is refused for a reason.
LEMMA RejectedIsIllegal ==
    ASSUME LegalInv, Next, stage' = "rejected"
    PROVE  ~LegalElf
<1>0. ElfInv /\ SegmentInv /\ TypeOK
  BY DEF LegalInv, ElfInv, SegmentInv
<1>1. CASE CheckHeader
  BY <1>1 DEF CheckHeader, Check, LegalElf
<1>2. CASE SkipSegment
  BY <1>2 DEF SkipSegment, InLoop
<1>3. CASE LoadSegment
  <2>1. stage = "segments" /\ index \in Loads /\ BadSegment(Program[index])
    BY <1>3 DEF LoadSegment, InLoop, Loads, TypeOK, ElfRecords, Program
  <2>2. ~(SoundSegment(index) /\ \A j \in Loads : j < index => ~Overlap(j, index))
    BY <1>0, <2>1, SegmentVerdict DEF LegalInv
  <2> QED
    BY <1>0, <2>1, <2>2, LegalProgramParts DEF LegalElf
<1>4. CASE CheckImage
  <2>1. stage = "segments" /\ index > Len(Program) /\ BadImage
    BY <1>4 DEF CheckImage, Check
  <2>2. segments = {Kept(k) : k \in Loads}
    BY <1>0, <2>1, AllRead DEF LegalInv
  <2> QED
    BY <1>0, <2>1, <2>2, ImageVerdict, MemoryOfLoads, LegalProgramParts DEF LegalElf
<1>5. CASE CheckNames
  BY <1>5 DEF CheckNames, Check, LegalElf
<1>6. CASE CheckSection
  <2>1. stage = "sections" /\ index \in DOMAIN Sections /\ BadSection(Sections[index])
    BY <1>0, <1>6, SectionTypes DEF CheckSection, InLoop
  <2>2. segments = {Kept(k) : k \in Loads}
    BY <2>1 DEF LegalInv, Checked
  <2> QED
    BY <1>0, <2>1, <2>2, SectionVerdict DEF LegalElf
<1>7. CASE SectionsDone
  BY <1>7 DEF SectionsDone, Check
<1>8. CASE CheckBootstrap
  <2>1. stage = "bootstrap" /\ BadBootstrap
    BY <1>8 DEF CheckBootstrap, Check
  <2>2. segments = {Kept(k) : k \in Loads} /\ ~BadNames
    BY <2>1 DEF LegalInv, Checked
  <2>3. \A k \in DOMAIN Sections : LegalSection(Sections[k])
    BY <1>0, <2>1, <2>2, SectionVerdict DEF ElfInv, Passed
  <2> QED
    BY <1>0, <2>1, <2>2, <2>3, BootstrapVerdict DEF LegalElf
<1>9. CASE Verify
  BY <1>9 DEF Verify
<1> QED
  BY <1>1, <1>2, <1>3, <1>4, <1>5, <1>6, <1>7, <1>8, <1>9 DEF Next

LEMMA LegalStep == LegalInv /\ [Next]_vars => LegalInv'
<1> SUFFICES ASSUME LegalInv, [Next]_vars PROVE LegalInv'
  OBVIOUS
<1>0. ElfInv' /\ ElfInv /\ SegmentInv /\ TypeOK
  BY ElfStep DEF LegalInv, ElfInv, SegmentInv
<1>1. elf' = elf
  BY LoadCases, OtherSteps
<1>2. /\ Program' = Program /\ Sections' = Sections /\ Loads' = Loads
      /\ BadHeader' <=> BadHeader
      /\ BadNames' <=> BadNames
      /\ LegalProgram' <=> LegalProgram
      /\ LegalElf' <=> LegalElf
      /\ \A k : Kept(k)' = Kept(k)
  BY <1>1, LegalFrozen
<1>3. stage' \notin {"header", "rejected"} => ~BadHeader
  BY DEF LegalInv, Next, vars, CheckHeader, SkipSegment, LoadSegment, CheckImage, CheckNames,
     CheckSection, SectionsDone, CheckBootstrap, Verify, Check, InLoop, RejectHere
<1>4. ASSUME stage' = "segments" PROVE ReadOK(index)'
  <2>1. CASE CheckHeader
    <3>1. index' = 1 /\ segments' = segments /\ stage = "header"
      BY <1>4, <2>1 DEF CheckHeader, Check, Read
    <3>2. segments = {} /\ \A k \in Loads : ~(k < 1)
      BY <1>0, <3>1, LoadTypes DEF TypeOK
    <3> QED
      BY <1>2, <3>1, <3>2 DEF ReadOK
  <2>2. CASE SkipSegment
    BY <1>0, <1>1, <2>2, ReadMore DEF SkipSegment, InLoop, Read, LegalInv, TypeOK, ElfRecords,
       Program
  <2>3. CASE LoadSegment
    <3>1. /\ stage = "segments" /\ index \in DOMAIN Program /\ Program[index].load
          /\ ~BadSegment(Program[index]) /\ segments' = segments \cup {New} /\ index' = index + 1
      BY <1>4, <2>3, LoadCases DEF LoadSegment
    <3>2. index \in Loads
      BY <3>1 DEF Loads
    <3>3. SoundSegment(index) /\ \A j \in Loads : j < index => ~Overlap(j, index)
      BY <1>0, <3>1, <3>2, SegmentVerdict DEF LegalInv
    <3> QED
      BY <1>0, <1>1, <3>1, <3>3, ReadMore DEF LegalInv
  <2>4. CASE UNCHANGED vars
    BY <1>1, <1>4, <2>4, ReadSame DEF LegalInv, vars
  <2> QED
    BY <1>4, <2>1, <2>2, <2>3, <2>4 DEF Next, CheckImage, CheckNames, CheckSection, SectionsDone,
       CheckBootstrap, Verify, Check, InLoop, RejectHere
<1>5. ASSUME stage' \in Checked
      PROVE  segments' = {Kept(k) : k \in Loads} /\ LegalProgram
  <2>1. ~LoadSegment
    BY <1>5, LoadCases DEF Checked
  <2>2. segments' = segments
    BY <2>1, OtherSteps
  <2>3. CASE CheckImage
    <3>1. stage = "segments" /\ index > Len(Program) /\ ~BadImage
      BY <1>5, <2>3 DEF CheckImage, Check, Checked
    <3>2. /\ segments = {Kept(k) : k \in Loads}
          /\ \A k \in Loads : SoundSegment(k) /\ \A j \in Loads : j < k => ~Overlap(j, k)
      BY <1>0, <3>1, AllRead DEF LegalInv
    <3>3. LegalProgram
      BY <1>0, <3>1, <3>2, ImageVerdict, MemoryOfLoads, LegalProgramParts
    <3> QED
      BY <2>2, <3>2, <3>3
  <2>4. CASE stage \in Checked
    BY <2>2, <2>4 DEF LegalInv
  <2> QED
    BY <1>5, <2>1, <2>3, <2>4, CheckedBefore
<1>6. ASSUME stage' \in Checked \ {"names"} PROVE ~BadNames
  <2>1. CASE CheckNames
    BY <1>6, <2>1 DEF CheckNames, Check, Checked
  <2>2. CASE stage \in Checked \ {"names"}
    BY <2>2 DEF LegalInv
  <2> QED
    BY <1>6, <2>1, <2>2 DEF Next, vars, CheckHeader, SkipSegment, LoadSegment, CheckImage,
       CheckSection, SectionsDone, CheckBootstrap, Verify, Check, InLoop, RejectHere, Checked
<1>7. ASSUME stage' = "rejected" PROVE ~LegalElf
  <2>1. CASE Next
    BY <1>7, <2>1, RejectedIsIllegal
  <2>2. CASE UNCHANGED vars
    BY <1>7, <2>2 DEF vars, LegalInv
  <2> QED
    BY <2>1, <2>2
<1> QED
  BY <1>0, <1>2, <1>3, <1>4, <1>5, <1>6, <1>7 DEF LegalInv

\* Once every check has passed, nothing illegal is left.
LEMMA AcceptedIsLegal == LegalInv => ElfAcceptsExactly
<1> SUFFICES ASSUME LegalInv, stage = "accepted" PROVE LegalElf
  BY DEF LegalInv, ElfAcceptsExactly
<1>1. /\ TypeOK /\ segments = {Kept(k) : k \in Loads} /\ LegalProgram /\ ~BadNames /\ ~BadHeader
  BY DEF LegalInv, ElfInv, SegmentInv, Checked
<1>2. /\ \A k \in DOMAIN Sections : LegalSection(Sections[k])
      /\ ~BadBootstrap
  BY <1>1, SectionVerdict DEF LegalInv, ElfInv, Passed, Bootable
<1> QED
  BY <1>1, <1>2, BootstrapVerdict DEF LegalElf

\* validate_elf accepts exactly the legal images: it misses nothing in one
\* that it accepts and refuses none that is legal.
THEOREM ElfAcceptsTheLegal == Spec => []ElfAcceptsExactly
<1>1. Init => LegalInv
  BY SegmentInit DEF Init, LegalInv, ElfInv, Passed, Bootable, Checked
<1>2. Spec => []LegalInv
  BY <1>1, LegalStep, PTL DEF Spec
<1> QED
  BY <1>2, AcceptedIsLegal, PTL

-----------------------------------------------------------------------------
(* The build.                                                               *)

\* The program headers that were let through are those with their bytes in the file.
LoadedPart ==
    /\ stage = "segments" => \A k \in 1..(index - 1) :
          Program[k].load => ~Outside(Program[k].offset, Program[k].stored)
    /\ stage \in Checked => \A k \in DOMAIN Program :
          Program[k].load => ~Outside(Program[k].offset, Program[k].stored)

LEMMA LoadedStep == TypeOK /\ LoadedPart /\ [Next]_vars => LoadedPart'
<1> SUFFICES ASSUME TypeOK, LoadedPart, [Next]_vars PROVE LoadedPart'
  OBVIOUS
<1>0. /\ Len(Program) \in Nat /\ DOMAIN Program = 1..Len(Program) /\ index \in Nat
      /\ stage \in Stages
  BY DEF TypeOK, ElfRecords, Program
<1>1. elf' = elf
  BY LoadCases, OtherSteps
<1>2. /\ Program' = Program
      /\ \A a, n : Outside(a, n)' <=> Outside(a, n)
  BY <1>1 DEF Program, Outside
<1>3. ASSUME stage' = "segments"
      PROVE  \A k \in 1..(index' - 1) :
                Program[k].load => ~Outside(Program[k].offset, Program[k].stored)
  <2>1. CASE CheckHeader
    BY <2>1 DEF CheckHeader, Check
  <2>2. CASE SkipSegment
    <3>1. index' = index + 1 /\ ~Program[index].load /\ stage = "segments"
      BY <2>2 DEF SkipSegment, InLoop
    <3> QED
      BY <1>0, <3>1 DEF LoadedPart
  <2>3. CASE LoadSegment
    <3>1. index' = index + 1 /\ ~BadSegment(Program[index]) /\ stage = "segments"
      BY <1>3, <2>3, LoadCases
    <3> QED
      BY <1>0, <3>1 DEF LoadedPart, BadSegment
  <2>4. CASE UNCHANGED vars
    BY <1>3, <2>4 DEF LoadedPart, vars
  <2> QED
    BY <1>3, <2>1, <2>2, <2>3, <2>4 DEF Next, CheckImage, CheckNames, CheckSection, SectionsDone,
       CheckBootstrap, Verify, Check, InLoop, RejectHere
<1>4. ASSUME stage' \in Checked
      PROVE  \A k \in DOMAIN Program :
                Program[k].load => ~Outside(Program[k].offset, Program[k].stored)
  <2>1. CASE LoadSegment
    BY <1>4, <2>1, LoadCases DEF Checked
  <2>2. CASE CheckImage
    <3>1. stage = "segments" /\ index > Len(Program)
      BY <2>2 DEF CheckImage, Check
    <3>2. \A k \in DOMAIN Program : k \in 1..(index - 1)
      BY <1>0, <3>1
    <3> QED
      BY <3>1, <3>2 DEF LoadedPart
  <2>3. CASE stage \in Checked
    BY <2>3 DEF LoadedPart
  <2> QED
    BY <1>4, <2>1, <2>2, <2>3, CheckedBefore
<1> QED
  BY <1>2, <1>3, <1>4 DEF LoadedPart

\* before the checks
Untouched ==
    stage = "header" /\ index = 1 /\ segments = {} /\ code_bytes = 0 /\ data_bytes = 0

\* what the file is: the linker's output, or that rewritten, or a part of either
Made ==
    \/ elf = [linked EXCEPT !.length = elf.length]
    \/ elf = [Normalized(linked) EXCEPT !.length = elf.length]

BuildInv ==
    /\ ElfInv /\ LoadedPart
    /\ linked \in ElfRecords
    /\ make \in MakeStates /\ (make # "built" => Untouched)
    /\ make = "copied" => elf = linked
    /\ Made

\* The checks may begin with any image.
LEMMA UntouchedInv == elf \in ElfRecords /\ Untouched => ElfInv /\ LoadedPart
<1> SUFFICES ASSUME elf \in ElfRecords, Untouched PROVE ElfInv /\ LoadedPart
  OBVIOUS
<1>1. TypeOK
  BY DEF Untouched, TypeOK, Stages
<1>2. Memory(Code) = {} /\ Memory(segments \ Code) = {}
  BY DEF Untouched, Memory, Code
<1>3. SegmentInv
  BY <1>1, <1>2, FS_EmptySet DEF Untouched, SegmentInv, SegmentsDisjoint, MemoryCounted, Checked
<1> QED
  BY <1>3 DEF Untouched, ElfInv, LoadedPart, Passed, Bootable, Checked

\* Rewriting keeps the type of an image.
LEMMA NormalizedType ==
    ASSUME NEW e \in ElfRecords
    PROVE  Normalized(e) \in ElfRecords
<1>1. e.sections \in Seq(SectionHeaders)
  BY DEF ElfRecords
<1>2. ASSUME NEW s \in SectionHeaders PROVE Rewrite(s) \in SectionHeaders
  <2>1. s.entries \in Seq(Relocations)
    BY DEF SectionHeaders
  <2>2. \A r \in Relocations : Aligned(r) \in Relocations
    BY DEF Aligned, Relocations, UNALIGNED
  <2>3. [n \in DOMAIN s.entries |-> Aligned(s.entries[n])] \in Seq(Relocations)
    BY <2>1, <2>2
  <2> QED
    BY <2>3 DEF SectionHeaders, Rewrite
<1>3. [k \in DOMAIN e.sections |-> Rewrite(e.sections[k])] \in Seq(SectionHeaders)
  BY <1>1, <1>2
<1> QED
  BY <1>3 DEF ElfRecords, Normalized

LEMMA ShorterType ==
    ASSUME NEW e \in ElfRecords, NEW n \in Nat
    PROVE  [e EXCEPT !.length = n] \in ElfRecords
BY DEF ElfRecords

LEMMA LengthSame == ASSUME NEW e \in ElfRecords PROVE e = [e EXCEPT !.length = e.length]
BY DEF ElfRecords

LEMMA BuildStepInv == BuildInv /\ [BuildNext]_build_vars => BuildInv'
<1> SUFFICES ASSUME BuildInv, [BuildNext]_build_vars PROVE BuildInv'
  OBVIOUS
<1>0. /\ linked \in ElfRecords /\ Normalized(linked) \in ElfRecords
      /\ elf \in ElfRecords
  BY NormalizedType DEF BuildInv, ElfInv, SegmentInv, TypeOK
<1>1. ASSUME make # "built", Unchecked, make' \in MakeStates, elf' \in ElfRecords,
             Made', make' = "copied" => elf' = linked
      PROVE  BuildInv'
  <2>1. linked' = linked /\ Untouched'
    BY <1>1 DEF BuildInv, Untouched, Unchecked
  <2>2. (elf \in ElfRecords /\ Untouched)'
    BY <1>1, <2>1
  <2>3. (ElfInv /\ LoadedPart)'
    BY <2>2, UntouchedInv, PTL
  <2> QED
    BY <1>0, <1>1, <2>1, <2>3 DEF BuildInv
<1>2. CASE LinkElf
  <2>1. elf' = linked /\ linked' = linked
    BY <1>2 DEF LinkElf, Unchecked
  <2>2. Made'
    BY <1>0, <2>1, LengthSame DEF Made
  <2> QED
    BY <1>0, <1>1, <1>2, <2>1, <2>2 DEF LinkElf, MakeStates
<1>3. CASE Normalize
  <2>0. make = "copied" /\ elf = linked /\ linked' = linked
    BY <1>3 DEF Normalize, BuildInv, Unchecked
  <2>1. \/ make' = "refused" /\ elf' = elf
        \/ make' = "built" /\ elf' = Normalized(linked)
    BY <1>3, <2>0 DEF Normalize
  <2>2. Made'
    BY <1>0, <2>0, <2>1, LengthSame DEF Made
  <2> QED
    BY <1>0, <1>1, <1>3, <2>0, <2>1, <2>2 DEF Normalize, MakeStates
<1>4. CASE Killed
  <2>0. linked' = linked /\ make # "built" /\ make' = "killed"
    BY <1>4 DEF Killed, Unchecked
  <2>1. PICK written \in {linked, Normalized(linked)} :
           \E n \in Truncations \cup {written.length} :
              elf' = [written EXCEPT !.length = n]
    BY <1>4 DEF Killed, LeavesPartOf
  <2>2. PICK n \in Nat : elf' = [written EXCEPT !.length = n]
    BY <1>0, <2>1, TruncationsAssumption DEF ElfRecords
  <2>3. elf' \in ElfRecords /\ elf'.length = n
    BY <1>0, <2>2, ShorterType DEF ElfRecords
  <2>4. Made'
    BY <2>0, <2>1, <2>2, <2>3 DEF Made
  <2> QED
    BY <1>1, <1>4, <2>0, <2>3, <2>4 DEF Killed, MakeStates
<1>5. CASE MakeAgain
  <2>1. elf' = elf /\ linked' = linked
    BY <1>5 DEF MakeAgain, Unchecked
  <2>2. Made'
    BY <2>1 DEF Made, BuildInv
  <2> QED
    BY <1>0, <1>1, <1>5, <2>1, <2>2 DEF MakeAgain, MakeStates
<1>6. CASE Clean
  <2>1. elf' = linked /\ linked' = linked
    BY <1>6 DEF Clean, Unchecked
  <2>2. Made'
    BY <1>0, <2>1, LengthSame DEF Made
  <2> QED
    BY <1>0, <1>1, <1>6, <2>1, <2>2 DEF Clean, MakeStates
<1>7. CASE CheckElf
  <2>1. ElfInv' /\ LoadedPart' /\ elf' = elf
    BY <1>7, ElfStep, LoadedStep, LoadCases, OtherSteps
       DEF CheckElf, BuildInv, ElfInv, SegmentInv
  <2>2. linked' = linked /\ make' = make /\ make = "built"
    BY <1>7 DEF CheckElf
  <2> QED
    BY <2>1, <2>2 DEF BuildInv, Made
<1>8. CASE UNCHANGED build_vars
  <2>1. UNCHANGED <<vars, linked, make>>
    BY <1>8 DEF build_vars
  <2>2. ElfInv' /\ LoadedPart'
    BY <2>1, ElfStep, LoadedStep DEF BuildInv, ElfInv, SegmentInv
  <2> QED
    BY <2>1, <2>2 DEF BuildInv, Made, Untouched, vars
<1> QED
  BY <1>2, <1>3, <1>4, <1>5, <1>6, <1>7, <1>8 DEF BuildNext

LEMMA BuildBegins == BuildInit => BuildInv
<1> SUFFICES ASSUME BuildInit PROVE BuildInv
  OBVIOUS
<1>1. Untouched /\ elf \in ElfRecords /\ linked = elf /\ make = "absent"
  BY ElfsAssumption DEF BuildInit, Init, Untouched
<1> QED
  BY <1>1, UntouchedInv, LengthSame DEF BuildInv, Made, MakeStates

LEMMA BuildInvariance == BuildSpec => []BuildInv
BY BuildBegins, BuildStepInv, PTL DEF BuildSpec

\* The rule and the checks together keep to their types: the checks never
\* begin before make takes the file for finished.
THEOREM BuildTypeCorrect == BuildSpec => []BuildTypeOK
<1>1. BuildInv => BuildTypeOK
  BY DEF BuildInv, BuildTypeOK, ElfInv, SegmentInv, Untouched
<1> QED
  BY <1>1, BuildInvariance, PTL

\* What is proved of the checks holds for whatever the rule leaves: after a
\* failed command, a killed build, or a make that goes on from there.
THEOREM BuildKeepsChecks ==
    BuildSpec => [](SegmentsDisjoint /\ MemoryCounted /\ ImageFits /\ PatchesInImage /\ HandlersExecute)
<1>1. BuildInv => SegmentsDisjoint /\ MemoryCounted /\ ImageFits /\ PatchesInImage /\ HandlersExecute
  BY ImageFitsByCount, PatchesFound, HandlersFound DEF BuildInv, ElfInv, SegmentInv
<1> QED
  BY <1>1, BuildInvariance, PTL

\* Rewriting changes nothing in an image whose sections were accepted.
LEMMA NothingToRewrite ==
    ASSUME TypeOK, \A k \in DOMAIN Sections : ~BadSection(Sections[k])
    PROVE  Normalized(elf) = elf
<1>1. elf \in ElfRecords /\ Sections \in Seq(SectionHeaders)
  BY SectionTypes DEF TypeOK
<1>2. ASSUME NEW k \in DOMAIN Sections, Sections[k].kind = "rela"
      PROVE  Rewrite(Sections[k]) = Sections[k]
  <2> DEFINE s == Sections[k]
  <2>1. s \in SectionHeaders
    BY <1>1
  <2>2. s.entries \in Seq(Relocations)
    BY <2>1 DEF SectionHeaders
  <2>3. ~BadRelocations(s)
    BY <1>2 DEF BadSection
  <2>4. ASSUME NEW n \in DOMAIN s.entries PROVE Aligned(s.entries[n]) = s.entries[n]
    <3>1. s.entries[n] \in Relocations
      BY <2>2
    <3>2. ~BadRelocation(s.entries[n], Sections[s.link])
      BY <2>3 DEF BadRelocations
    <3>3. s.entries[n].width # UNALIGNED
      BY <3>1, <3>2 DEF BadRelocation, UNALIGNED, Relocations
    <3> QED
      BY <3>1, <3>3 DEF Aligned, Relocations
  <2>5. [n \in DOMAIN s.entries |-> Aligned(s.entries[n])] = s.entries
    BY <2>2, <2>4
  <2> QED
    BY <2>1, <2>5 DEF Rewrite, SectionHeaders
<1>3. \A k \in DOMAIN Sections : Rewrite(Sections[k]) = Sections[k]
  BY <1>2 DEF Rewrite
<1>4. [k \in DOMAIN elf.sections |-> Rewrite(elf.sections[k])] = elf.sections
  BY <1>1, <1>3 DEF Sections
<1> QED
  BY <1>1, <1>4 DEF Normalized, ElfRecords

\* What validate_elf accepts is the linker's output as normalize writes it,
\* with all bytes of its sections and segments, however the build went.
THEOREM AcceptedStaysNormalized == BuildSpec => []AcceptedIsNormalized
<1>1. BuildInv => AcceptedIsNormalized
  <2> SUFFICES ASSUME BuildInv, stage \in Bootable PROVE AcceptedIsNormalized
    BY DEF AcceptedIsNormalized, Bootable
  <2>1. /\ TypeOK /\ linked \in ElfRecords /\ elf \in ElfRecords
        /\ Normalized(linked) \in ElfRecords /\ elf.length \in Nat
    BY NormalizedType DEF BuildInv, ElfInv, SegmentInv, TypeOK, ElfRecords
  <2>2. \A k \in DOMAIN Sections : ~BadSection(Sections[k])
    BY DEF BuildInv, ElfInv, Passed, Bootable
  <2>3. Normalized(elf) = elf
    BY <2>1, <2>2, NothingToRewrite
  <2>4. elf = [Normalized(linked) EXCEPT !.length = elf.length]
    <3>1. CASE elf = [linked EXCEPT !.length = elf.length]
      <4>1. Normalized([linked EXCEPT !.length = elf.length]) =
               [Normalized(linked) EXCEPT !.length = elf.length]
        BY <2>1 DEF Normalized, ElfRecords
      <4> QED
        BY <2>3, <3>1, <4>1
    <3> QED
      BY <3>1 DEF BuildInv, Made
  <2>5. ASSUME NEW k \in DOMAIN Sections, Sections[k].kind # "nobits"
        PROVE  Sections[k].offset + Sections[k].size <= elf.length
    <3>1. Sections[k] \in SectionHeaders
      BY <2>1, SectionTypes
    <3>2. ~Outside(Sections[k].offset, Sections[k].size)
      BY <2>2, <2>5 DEF BadSection
    <3> QED
      BY <2>1, <3>1, <3>2 DEF Outside, SectionHeaders
  <2>6. ASSUME NEW k \in DOMAIN Program, Program[k].load
        PROVE  Program[k].offset + Program[k].stored <= elf.length
    <3>1. Program[k] \in ProgramHeaders
      BY <2>1, ProgramTypes
    <3>2. ~Outside(Program[k].offset, Program[k].stored)
      BY <2>6 DEF BuildInv, LoadedPart, Bootable, Checked
    <3> QED
      BY <2>1, <3>1, <3>2 DEF Outside, ProgramHeaders
  <2> QED
    BY <2>4, <2>5, <2>6 DEF AcceptedIsNormalized
<1> QED
  BY <1>1, BuildInvariance, PTL

\* The rule stops at normalize only with the linker's output in place.
RefusedInv ==
    make = "refused" => elf = linked /\ (~linked.identified \/ NormalizeRaises)

LEMMA RefusedStep == BuildInv /\ RefusedInv /\ [BuildNext]_build_vars => RefusedInv'
<1> SUFFICES ASSUME BuildInv, RefusedInv, [BuildNext]_build_vars, make' = "refused"
             PROVE  RefusedInv'
  BY DEF RefusedInv
<1>1. \/ Normalize
      \/ make = "refused" /\ elf' = elf /\ linked' = linked
  BY DEF BuildNext, LinkElf, Killed, MakeAgain, Clean, CheckElf, BuildInv, build_vars, vars
<1>2. elf' = elf /\ linked' = linked /\ elf = linked
  BY <1>1 DEF Normalize, Normalized, Unchecked, BuildInv, RefusedInv
<1>3. ~linked.identified \/ NormalizeRaises
  BY <1>1, <1>2 DEF Normalize, RefusedInv
<1>4. NormalizeRaises' <=> NormalizeRaises
  BY <1>2 DEF NormalizeRaises, Outside, Sections
<1> QED
  BY <1>2, <1>3, <1>4 DEF RefusedInv

\* What makes normalize raise is in the rewritten image too, and illegal there.
LEMMA RaisesForIllegal ==
    ASSUME elf = linked, linked \in ElfRecords, ~linked.identified \/ NormalizeRaises
    PROVE  ~Rewritten!LegalElf
<1> DEFINE e == Normalized(linked)
<1>1. /\ e.length = elf.length /\ e.identified = elf.identified
      /\ e.section_offset = elf.section_offset /\ e.section_size = elf.section_size
      /\ Len(e.sections) = Len(Sections) /\ DOMAIN e.sections = DOMAIN Sections
      /\ \A k \in DOMAIN Sections : e.sections[k] = Rewrite(Sections[k])
  BY DEF Normalized, ElfRecords, Sections
<1>2. \A k \in DOMAIN Sections : Sections[k] \in SectionHeaders
  BY DEF ElfRecords, Sections
<1>3. \A k \in DOMAIN Sections :
         LET s == Sections[k]
             t == e.sections[k]
         IN  /\ t.kind = s.kind /\ t.whole = s.whole /\ t.offset = s.offset /\ t.size = s.size
             /\ t.offset \in Nat /\ t.size \in Nat
  BY <1>1, <1>2 DEF Rewrite, SectionHeaders
<1>4. elf.length \in Nat
  BY DEF ElfRecords
<1> HIDE DEF e
<1>5. CASE ~linked.identified
  BY <1>1, <1>5 DEF Rewritten!LegalElf, Rewritten!BadHeader, e
<1>6. CASE NormalizeRaises
  <2>1. CASE elf.length < HEADER \/ elf.section_size < MIN_SECTION
    BY <1>1, <1>4, <2>1, SizesAssumption DEF Rewritten!LegalElf, Rewritten!BadHeader, e
  <2>2. CASE Outside(elf.section_offset, Len(Sections) * elf.section_size)
    BY <1>1, <2>2 DEF Rewritten!LegalElf, Rewritten!BadHeader, Outside, Rewritten!Outside, Rewritten!Sections, e
  <2>3. ASSUME NEW k \in DOMAIN Sections, Sections[k].kind = "rela",
               ~Sections[k].whole \/ Outside(Sections[k].offset, Sections[k].size)
        PROVE  ~Rewritten!LegalElf
    <3>1. ~Rewritten!LegalSection(e.sections[k])
      BY <1>1, <1>3, <1>4, <2>3 DEF Rewritten!LegalSection, Outside, e
    <3> QED
      BY <1>1, <3>1 DEF Rewritten!LegalElf, Rewritten!Sections, e
  <2> QED
    BY <1>6, <2>1, <2>2, <2>3 DEF NormalizeRaises
<1> QED
  BY <1>5, <1>6

\* normalize stops the build only for an image that validate_elf would refuse
\* if it were rewritten: whatever the linker makes, no good mod.elf is lost.
THEOREM RaisesStayJustified == BuildSpec => []RaisesOnlyForIllegal
<1>1. BuildInit => RefusedInv
  BY DEF BuildInit, RefusedInv
<1>2. BuildSpec => []RefusedInv
  BY <1>1, RefusedStep, BuildInvariance, PTL DEF BuildSpec
<1>3. BuildInv /\ RefusedInv => RaisesOnlyForIllegal
  BY RaisesForIllegal DEF BuildInv, RefusedInv, RaisesOnlyForIllegal
<1> QED
  BY <1>2, <1>3, BuildInvariance, PTL
\* However the build went, validate_elf accepts what make takes for finished
\* exactly if it is legal.
THEOREM BuildAcceptsTheLegal == BuildSpec => []ElfAcceptsExactly
<1>1. BuildInv /\ stage = "header" => LegalInv
  BY DEF BuildInv, LegalInv, Checked
<1>2. BuildInit => BuildInv /\ stage = "header"
  BY BuildBegins DEF BuildInit, Init
<1>3. ASSUME BuildInv, BuildInv', LegalInv, [BuildNext]_build_vars PROVE LegalInv'
  <2>1. CASE CheckElf \/ UNCHANGED build_vars
    BY <1>3, <2>1, LegalStep DEF CheckElf, build_vars
  <2>2. CASE LinkElf \/ Normalize \/ Killed \/ MakeAgain \/ Clean
    <3>1. make # "built" /\ stage' = stage
      BY <2>2 DEF LinkElf, Normalize, Killed, MakeAgain, Clean, Unchecked
    <3>2. stage' = "header"
      BY <1>3, <3>1 DEF BuildInv, Untouched
    <3> QED
      BY <1>3, <3>2 DEF BuildInv, LegalInv, Checked
  <2> QED
    BY <1>3, <2>1, <2>2 DEF BuildNext
<1>4. BuildSpec => []LegalInv
  BY <1>1, <1>2, <1>3, BuildInvariance, PTL DEF BuildSpec
<1> QED
  BY <1>4, AcceptedIsLegal, PTL
=============================================================================
