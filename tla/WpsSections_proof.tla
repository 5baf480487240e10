------------------------- MODULE WpsSections_proof -------------------------
(***************************************************************************)
(* Proofs about WpsSections for every image, every number of sections and  *)
(* all sizes: each section is compared with the earlier ones only, and yet *)
(* all of them are pairwise disjoint.                                      *)
(***************************************************************************)
EXTENDS WpsSections, FiniteSums

LEMMA ConstantTypes ==
    /\ HEADER \in Nat \ {0} /\ ENTRY \in Nat \ {0}
    /\ MIN_SECTIONS \in Nat \ {0} /\ MIN_SECTIONS > 2
    /\ MAX_SECTIONS \in Nat \ {0} /\ MAX_EXPANDED_BYTES \in Nat \ {0}
    /\ TEXT_BASE \in Nat /\ DATA_BASE \in Nat /\ LOADER_BASE \in Nat /\ GUEST_TOP \in Nat
BY SizesAssumption

\* In the loops the current section is a header of the image.
LEMMA SectionTypes ==
    ASSUME TypeOK, NEW k \in DOMAIN Sections
    PROVE  /\ Sections[k] \in Headers
           /\ Sections[k].address \in Nat /\ Sections[k].offset \in Nat
           /\ Sections[k].stored \in Nat /\ Sections[k].declared \in Nat
           /\ expanded_size(Sections[k]) \in Nat
<1>1. Sections[k] \in Headers
  BY DEF TypeOK, Sections, ImageRecords
<1>2. /\ Sections[k].address \in Nat /\ Sections[k].offset \in Nat
      /\ Sections[k].stored \in Nat /\ Sections[k].declared \in Nat
  BY <1>1, ConstantTypes DEF Headers
<1> QED
  BY <1>1, <1>2 DEF expanded_size

LEMMA LoopTypes ==
    ASSUME TypeOK, phase \in Loops \cup {"accepted"}
    PROVE  /\ Len(Sections) \in Nat /\ Len(Sections) > 2
           /\ DOMAIN Sections = 1..Len(Sections)
           /\ index \in 1..Len(Sections)
           /\ index \in DOMAIN Sections /\ Current = Sections[index]
<1>1. Sections \in Seq(Headers)
  BY DEF TypeOK, Sections, ImageRecords
<1> QED
  BY <1>1, ConstantTypes DEF TypeOK, Current, Sections

LEMMA AdvanceTypes ==
    ASSUME TypeOK, phase \in Loops, NEW next \in Phases, Advance(next)
    PROVE  /\ phase' \in {phase, next}
           /\ index' \in 1..Len(Sections)
<1>1. index \in 1..Len(Sections) /\ Len(Sections) \in Nat
  BY LoopTypes
<1> QED
  BY <1>1 DEF Advance, Enter, Sections

-----------------------------------------------------------------------------
(* Type correctness.                                                        *)

LEMMA TypeInit == Init => TypeOK
<1> SUFFICES ASSUME Init PROVE TypeOK
  OBVIOUS
<1>1. image \in ImageRecords
  BY ImagesAssumption DEF Init
<1>2. index \in 1..MAX_SECTIONS
  BY ConstantTypes DEF Init
<1>3. phase \in Phases /\ phase \notin Loops \cup {"accepted"}
  BY DEF Init, Phases, Loops
<1>4. expanded_total \in 0..MAX_EXPANDED_BYTES
  BY ConstantTypes DEF Init
<1> QED
  BY <1>1, <1>2, <1>3, <1>4 DEF Init, TypeOK

LEMMA RejectKeepsType == TypeOK /\ Reject => TypeOK'
BY DEF TypeOK, Reject, Phases, Loops, Sections

LEMMA HeaderKeepsType ==
    ASSUME TypeOK, phase = "header", ~BadHeader, Enter("scan"),
           UNCHANGED <<image, ranges, expanded_total, seen_names, virtual_ranges>>
    PROVE  TypeOK'
<1>1. Len(Sections) \in MIN_SECTIONS..MAX_SECTIONS
  BY DEF BadHeader, Sections
<1>2. index' = 1 /\ phase' = "scan"
  BY DEF Enter
<1>3. index' \in 1..MAX_SECTIONS /\ index' <= Len(Sections)
  BY <1>1, <1>2, ConstantTypes
<1> QED
  BY <1>1, <1>2, <1>3 DEF TypeOK, Phases, Loops, Sections

LEMMA ScanKeepsType ==
    ASSUME TypeOK, ScanSection
    PROVE  TypeOK'
<1>1. phase \in Loops /\ phase = "scan"
  BY DEF ScanSection, Loops
<1>2. phase' \in {"scan", "names"} /\ index' \in 1..Len(Sections)
  BY <1>1, AdvanceTypes DEF ScanSection, Phases
<1>3. /\ Current.offset \in Nat /\ Current.stored \in Nat
      /\ expanded_size(Current) \in Nat
  BY <1>1, LoopTypes, SectionTypes
<1>4. expanded_total' \in 0..MAX_EXPANDED_BYTES
  <2>1. /\ ~(expanded_total + expanded_size(Current) > MAX_EXPANDED_BYTES)
        /\ expanded_total' = expanded_total + expanded_size(Current)
    BY DEF ScanSection, BadSection
  <2>2. expanded_total \in Nat /\ MAX_EXPANDED_BYTES \in Nat
    BY ConstantTypes DEF TypeOK
  <2> QED
    BY <2>1, <2>2, <1>3
<1>5. ranges' \subseteq [start: Nat, size: Nat]
  BY <1>3 DEF ScanSection, TypeOK
<1>6. Len(Sections) \in MIN_SECTIONS..MAX_SECTIONS
  BY <1>1 DEF TypeOK
<1>7. index' \in 1..MAX_SECTIONS /\ index' <= Len(Sections)
  BY <1>2, <1>6, ConstantTypes
<1>8. UNCHANGED <<image, seen_names, virtual_ranges>>
  BY DEF ScanSection
<1> QED
  BY <1>2, <1>4, <1>5, <1>6, <1>7, <1>8 DEF TypeOK, Phases, Loops, Sections

LEMMA NameKeepsType ==
    ASSUME TypeOK, NameSection
    PROVE  TypeOK'
<1>1. phase \in Loops /\ phase = "names"
  BY DEF NameSection, Loops
<1>2. phase' \in {"names", "tables"} /\ index' \in 1..Len(Sections)
  BY <1>1, AdvanceTypes DEF NameSection, Phases
<1>3. Current \in Headers
  BY <1>1, LoopTypes, SectionTypes
<1>4. seen_names' \subseteq SectionNames \cup {Unnamed}
  BY <1>3 DEF NameSection, Headers, TypeOK
<1>5. Len(Sections) \in MIN_SECTIONS..MAX_SECTIONS
  BY <1>1 DEF TypeOK
<1>6. index' \in 1..MAX_SECTIONS /\ index' <= Len(Sections)
  BY <1>2, <1>5, ConstantTypes
<1>7. UNCHANGED <<image, ranges, expanded_total, virtual_ranges>>
  BY DEF NameSection
<1> QED
  BY <1>2, <1>4, <1>5, <1>6, <1>7 DEF TypeOK, Phases, Loops, Sections

LEMMA TablesKeepType ==
    ASSUME TypeOK, phase = "tables", Enter("addresses"),
           UNCHANGED <<image, ranges, expanded_total, seen_names, virtual_ranges>>
    PROVE  TypeOK'
<1>1. Len(Sections) \in MIN_SECTIONS..MAX_SECTIONS
  BY DEF TypeOK, Loops
<1>2. index' = 1 /\ phase' = "addresses"
  BY DEF Enter
<1>3. index' \in 1..MAX_SECTIONS /\ index' <= Len(Sections)
  BY <1>1, <1>2, ConstantTypes
<1> QED
  BY <1>1, <1>2, <1>3 DEF TypeOK, Phases, Loops, Sections

LEMMA PlaceKeepsType ==
    ASSUME TypeOK, PlaceSection
    PROVE  TypeOK'
<1>1. phase \in Loops /\ phase = "addresses"
  BY DEF PlaceSection, Loops
<1>2. phase' \in {"addresses", "regions"} /\ index' \in 1..Len(Sections)
  BY <1>1, AdvanceTypes DEF PlaceSection, Phases
<1>3. Current.address \in Nat /\ expanded_size(Current) \in Nat
  BY <1>1, LoopTypes, SectionTypes
<1>4. virtual_ranges' \subseteq [start: Nat, size: Nat]
  BY <1>3 DEF PlaceSection, TypeOK
<1>5. Len(Sections) \in MIN_SECTIONS..MAX_SECTIONS
  BY <1>1 DEF TypeOK
<1>6. index' \in 1..MAX_SECTIONS /\ index' <= Len(Sections)
  BY <1>2, <1>5, ConstantTypes
<1>7. UNCHANGED <<image, ranges, expanded_total, seen_names>>
  BY DEF PlaceSection
<1> QED
  BY <1>2, <1>4, <1>5, <1>6, <1>7 DEF TypeOK, Phases, Loops, Sections

LEMMA RegionKeepsType ==
    ASSUME TypeOK, CheckRegion
    PROVE  TypeOK'
<1>1. phase \in Loops /\ phase = "regions"
  BY DEF CheckRegion, Loops
<1>2. phase' \in {"regions", "accepted"} /\ index' \in 1..Len(Sections)
  BY <1>1, AdvanceTypes DEF CheckRegion, Phases
<1>3. Len(Sections) \in MIN_SECTIONS..MAX_SECTIONS
  BY <1>1 DEF TypeOK
<1>4. index' \in 1..MAX_SECTIONS /\ index' <= Len(Sections)
  BY <1>2, <1>3, ConstantTypes
<1>5. UNCHANGED <<image, ranges, expanded_total, seen_names, virtual_ranges>>
  BY DEF CheckRegion
<1> QED
  BY <1>2, <1>3, <1>4, <1>5 DEF TypeOK, Phases, Loops, Sections

LEMMA TypeStep == TypeOK /\ [Next]_vars => TypeOK'
<1> SUFFICES ASSUME TypeOK, [Next]_vars PROVE TypeOK'
  OBVIOUS
<1>1. CASE CheckHeader
  BY <1>1, RejectKeepsType, HeaderKeepsType DEF CheckHeader
<1>2. CASE ScanSection
  BY <1>2, ScanKeepsType
<1>3. CASE NameSection
  BY <1>3, NameKeepsType
<1>4. CASE CheckTables
  BY <1>4, RejectKeepsType, TablesKeepType DEF CheckTables
<1>5. CASE PlaceSection
  BY <1>5, PlaceKeepsType
<1>6. CASE CheckRegion
  BY <1>6, RegionKeepsType
<1>7. CASE RefuseSection
  BY <1>7, RejectKeepsType DEF RefuseSection
<1>8. CASE UNCHANGED vars
  BY <1>8 DEF vars, TypeOK, Sections
<1> QED
  BY <1>1, <1>2, <1>3, <1>4, <1>5, <1>6, <1>7, <1>8 DEF Next

\* The loops stay inside the section table and the running total inside the
\* limit, for images of any length.
THEOREM SectionsTypeCorrect == Spec => []TypeOK
BY TypeInit, TypeStep, PTL DEF Spec

-----------------------------------------------------------------------------
(* Disjointness.  ranges and virtual_ranges hold the range of every section *)
(* let through, so a section compared with them is compared with all.       *)

InFile(s) == s.kind # "nobits" /\ s.stored > 0

FileInv ==
    /\ \A k \in ScannedIndices :
          InFile(Sections[k]) =>
             /\ [start |-> Sections[k].offset, size |-> Sections[k].stored] \in ranges
             /\ HEADER <= Sections[k].offset
             /\ Sections[k].offset + Sections[k].stored <= image.length
             /\ ~Overlap(Sections[k].offset, Sections[k].stored,
                         image.table, TableEnd - image.table)
    /\ \A j, k \in ScannedIndices :
          j # k /\ InFile(Sections[j]) /\ InFile(Sections[k]) =>
             ~Overlap(Sections[j].offset, Sections[j].stored,
                      Sections[k].offset, Sections[k].stored)

GuestInv ==
    /\ \A k \in PlacedIndices :
          Occupies(Sections[k]) =>
             /\ [start |-> Sections[k].address, size |-> expanded_size(Sections[k])]
                   \in virtual_ranges
             /\ ~BadAddress(Sections[k])
    /\ \A j, k \in PlacedIndices :
          j # k /\ Occupies(Sections[j]) /\ Occupies(Sections[k]) =>
             ~Overlap(Sections[j].address, expanded_size(Sections[j]),
                      Sections[k].address, expanded_size(Sections[k]))

\* the sections that passed the region check
RegionIndices ==
    CASE phase = "regions" -> 1..(index - 1)
      [] phase = "accepted" -> DOMAIN Sections
      [] OTHER -> {}

RegionInv ==
    /\ phase \in {"addresses", "regions", "accepted"} => ~BadTables
    /\ \A k \in RegionIndices : Occupies(Sections[k]) => ~ExceedsRegion(Sections[k])

SectionInv == TypeOK /\ FileInv /\ GuestInv /\ RegionInv

\* What the comparison of the code says about bytes.
LEMMA OverlapIsIntersection ==
    ASSUME NEW a \in Int, NEW m \in Nat, NEW b \in Int, NEW n \in Nat, ~Overlap(a, m, b, n)
    PROVE  (m > 0 /\ n > 0) => (a .. (a + m - 1)) \cap (b .. (b + n - 1)) = {}
BY DEF Overlap

LEMMA OverlapSymmetric ==
    ASSUME NEW a \in Int, NEW m \in Int, NEW b \in Int, NEW n \in Int
    PROVE  Overlap(a, m, b, n) <=> Overlap(b, n, a, m)
BY DEF Overlap

\* How the loops move the sets of indices.
LEMMA ScanIndices ==
    ASSUME TypeOK, ScanSection
    PROVE  ScannedIndices' = ScannedIndices \cup {index} /\ PlacedIndices' = {} /\ RegionIndices' = {}
<1>1. phase = "scan" /\ phase \in Loops
  BY DEF ScanSection, Loops
<1>2. index \in 1..Len(Sections) /\ Len(Sections) \in Nat /\ DOMAIN Sections = 1..Len(Sections)
  BY <1>1, LoopTypes
<1>3. Sections' = Sections
  BY DEF ScanSection, Sections
<1>4. CASE index < Len(Sections)
  <2>1. phase' = "scan" /\ index' = index + 1
    BY <1>1, <1>4 DEF ScanSection, Advance, Sections
  <2> QED
    BY <1>1, <1>2, <2>1 DEF ScannedIndices, PlacedIndices, RegionIndices
<1>5. CASE ~(index < Len(Sections))
  <2>1. phase' = "names" /\ index = Len(Sections)
    BY <1>1, <1>2, <1>5 DEF ScanSection, Advance, Enter, Sections
  <2> QED
    BY <1>1, <1>2, <1>3, <2>1 DEF ScannedIndices, PlacedIndices, RegionIndices
<1> QED
  BY <1>4, <1>5

LEMMA PlaceIndices ==
    ASSUME TypeOK, PlaceSection
    PROVE  /\ PlacedIndices' = PlacedIndices \cup {index}
           /\ ScannedIndices' = ScannedIndices /\ RegionIndices' = {}
<1>1. phase = "addresses" /\ phase \in Loops
  BY DEF PlaceSection, Loops
<1>2. index \in 1..Len(Sections) /\ Len(Sections) \in Nat /\ DOMAIN Sections = 1..Len(Sections)
  BY <1>1, LoopTypes
<1>3. Sections' = Sections
  BY DEF PlaceSection, Sections
<1>4. CASE index < Len(Sections)
  <2>1. phase' = "addresses" /\ index' = index + 1
    BY <1>1, <1>4 DEF PlaceSection, Advance, Sections
  <2> QED
    BY <1>1, <1>2, <1>3, <2>1 DEF ScannedIndices, PlacedIndices, RegionIndices
<1>5. CASE ~(index < Len(Sections))
  <2>1. phase' = "regions" /\ index' = 1 /\ index = Len(Sections)
    BY <1>1, <1>2, <1>5 DEF PlaceSection, Advance, Enter, Sections
  <2>2. RegionIndices' = {}
    BY <2>1 DEF RegionIndices
  <2> QED
    BY <1>1, <1>2, <1>3, <2>1, <2>2 DEF ScannedIndices, PlacedIndices
<1> QED
  BY <1>4, <1>5

LEMMA RegionStepIndices ==
    ASSUME TypeOK, CheckRegion
    PROVE  /\ RegionIndices' = RegionIndices \cup {index}
           /\ ScannedIndices' = ScannedIndices /\ PlacedIndices' = PlacedIndices
<1>1. phase = "regions" /\ phase \in Loops
  BY DEF CheckRegion, Loops
<1>2. index \in 1..Len(Sections) /\ Len(Sections) \in Nat /\ DOMAIN Sections = 1..Len(Sections)
  BY <1>1, LoopTypes
<1>3. Sections' = Sections
  BY DEF CheckRegion, Sections
<1>4. CASE index < Len(Sections)
  <2>1. phase' = "regions" /\ index' = index + 1
    BY <1>1, <1>4 DEF CheckRegion, Advance, Sections
  <2> QED
    BY <1>1, <1>2, <1>3, <2>1 DEF ScannedIndices, PlacedIndices, RegionIndices
<1>5. CASE ~(index < Len(Sections))
  <2>1. phase' = "accepted" /\ index = Len(Sections)
    BY <1>1, <1>2, <1>5 DEF CheckRegion, Advance, Enter, Sections
  <2> QED
    BY <1>1, <1>2, <1>3, <2>1 DEF ScannedIndices, PlacedIndices, RegionIndices
<1> QED
  BY <1>4, <1>5

\* The other steps do not add to the sets of indices.
LEMMA OtherIndices ==
    ASSUME TypeOK,
           \/ CheckHeader \/ NameSection \/ CheckTables \/ RefuseSection \/ UNCHANGED vars
    PROVE  /\ ScannedIndices' \subseteq ScannedIndices
           /\ PlacedIndices' \subseteq PlacedIndices
           /\ RegionIndices' \subseteq RegionIndices
           /\ UNCHANGED <<image, ranges, virtual_ranges>>
<1>1. CASE Reject
  BY <1>1 DEF Reject, ScannedIndices, PlacedIndices, RegionIndices
<1>2. CASE CheckHeader /\ ~Reject
  BY <1>2 DEF CheckHeader, Enter, ScannedIndices, PlacedIndices, RegionIndices
<1>3. CASE NameSection
  <2>1. phase' \in {"names", "tables"} /\ phase = "names"
    BY <1>3 DEF NameSection, Advance, Enter
  <2> QED
    BY <1>3, <2>1 DEF NameSection, ScannedIndices, PlacedIndices, RegionIndices, Sections
<1>4. CASE CheckTables /\ ~Reject
  BY <1>4 DEF CheckTables, Enter, ScannedIndices, PlacedIndices, RegionIndices, Sections
<1>5. CASE UNCHANGED vars
  BY <1>5 DEF vars, ScannedIndices, PlacedIndices, RegionIndices, Sections
<1> QED
  BY <1>1, <1>2, <1>3, <1>4, <1>5 DEF RefuseSection

LEMMA ScanKeepsFile ==
    ASSUME SectionInv, ScanSection
    PROVE  FileInv'
<1> DEFINE s == Sections[index]
<1>1. phase \in Loops /\ TypeOK /\ FileInv
  BY DEF ScanSection, Loops, SectionInv
<1>2. Current = s /\ index \in DOMAIN Sections
  BY <1>1, LoopTypes
<1>3. s.offset \in Nat /\ s.stored \in Nat
  BY <1>1, <1>2, SectionTypes
<1>4. Sections' = Sections /\ image' = image /\ TableEnd' = TableEnd
  BY DEF ScanSection, Sections, TableEnd
<1>5. ScannedIndices' = ScannedIndices \cup {index}
  BY <1>1, ScanIndices
<1>6. \A k \in ScannedIndices : k \in DOMAIN Sections
  BY <1>1, LoopTypes DEF ScannedIndices, ScanSection
<1>7. ~BadSection(s)
  BY <1>2 DEF ScanSection
<1>8. ASSUME InFile(s)
      PROVE  /\ ranges' = ranges \cup {[start |-> s.offset, size |-> s.stored]}
             /\ ~(s.offset + s.stored > image.length)
             /\ ~(s.offset < HEADER)
             /\ ~Overlap(s.offset, s.stored, image.table, TableEnd - image.table)
             /\ \A r \in ranges : ~Overlap(s.offset, s.stored, r.start, r.size)
  BY <1>2, <1>7, <1>8 DEF InFile, ScanSection, BadSection, BadContents, BadStored, OverlapsStructure,
                          OverlapsSection
<1>9. ranges \subseteq ranges'
  BY DEF ScanSection
<1>10. image.length \in Nat /\ HEADER \in Nat
  BY <1>1, ConstantTypes DEF TypeOK, ImageRecords
<1>11. ASSUME NEW j \in ScannedIndices, InFile(s), InFile(Sections[j])
       PROVE  /\ ~Overlap(s.offset, s.stored, Sections[j].offset, Sections[j].stored)
              /\ ~Overlap(Sections[j].offset, Sections[j].stored, s.offset, s.stored)
  <2>1. [start |-> Sections[j].offset, size |-> Sections[j].stored] \in ranges
    BY <1>1, <1>11 DEF FileInv
  <2>2. ~Overlap(s.offset, s.stored, Sections[j].offset, Sections[j].stored)
    BY <1>8, <1>11, <2>1
  <2>3. Sections[j].offset \in Nat /\ Sections[j].stored \in Nat
    BY <1>1, <1>6, <1>11, SectionTypes
  <2> QED
    BY <1>3, <2>2, <2>3, OverlapSymmetric
<1> HIDE DEF s
<1>12. \A k \in ScannedIndices' :
          InFile(Sections[k]) =>
             /\ [start |-> Sections[k].offset, size |-> Sections[k].stored] \in ranges'
             /\ HEADER <= Sections[k].offset
             /\ Sections[k].offset + Sections[k].stored <= image.length
             /\ ~Overlap(Sections[k].offset, Sections[k].stored,
                         image.table, TableEnd - image.table)
  <2> SUFFICES ASSUME NEW k \in ScannedIndices', InFile(Sections[k])
               PROVE  /\ [start |-> Sections[k].offset, size |-> Sections[k].stored] \in ranges'
                      /\ HEADER <= Sections[k].offset
                      /\ Sections[k].offset + Sections[k].stored <= image.length
                      /\ ~Overlap(Sections[k].offset, Sections[k].stored,
                                  image.table, TableEnd - image.table)
    OBVIOUS
  <2>1. CASE k \in ScannedIndices
    BY <1>1, <1>9, <2>1 DEF FileInv
  <2>2. CASE k = index
    BY <1>3, <1>8, <1>10, <2>2 DEF s
  <2> QED
    BY <1>5, <2>1, <2>2
<1>13. \A j, k \in ScannedIndices' :
          j # k /\ InFile(Sections[j]) /\ InFile(Sections[k]) =>
             ~Overlap(Sections[j].offset, Sections[j].stored,
                      Sections[k].offset, Sections[k].stored)
  BY <1>1, <1>5, <1>11 DEF FileInv, s
<1> QED
  BY <1>4, <1>12, <1>13 DEF FileInv

LEMMA PlaceKeepsGuest ==
    ASSUME SectionInv, PlaceSection
    PROVE  GuestInv'
<1> DEFINE s == Sections[index]
<1>1. phase \in Loops /\ TypeOK /\ GuestInv
  BY DEF PlaceSection, Loops, SectionInv
<1>2. Current = s /\ index \in DOMAIN Sections
  BY <1>1, LoopTypes
<1>3. s.address \in Nat /\ expanded_size(s) \in Nat
  BY <1>1, <1>2, SectionTypes
<1>4. Sections' = Sections
  BY DEF PlaceSection, Sections
<1>5. PlacedIndices' = PlacedIndices \cup {index}
  BY <1>1, PlaceIndices
<1>6. \A k \in PlacedIndices : k \in DOMAIN Sections
  BY <1>1, LoopTypes DEF PlacedIndices, PlaceSection
<1>7. ASSUME Occupies(s)
      PROVE  /\ virtual_ranges' = virtual_ranges \cup
                   {[start |-> s.address, size |-> expanded_size(s)]}
             /\ ~BadAddress(s)
             /\ \A r \in virtual_ranges : ~Overlap(s.address, expanded_size(s), r.start, r.size)
  BY <1>2, <1>7 DEF PlaceSection, BadRange
<1>8. virtual_ranges \subseteq virtual_ranges'
  BY DEF PlaceSection
<1>9. ASSUME NEW j \in PlacedIndices, Occupies(s), Occupies(Sections[j])
      PROVE  /\ ~Overlap(s.address, expanded_size(s),
                         Sections[j].address, expanded_size(Sections[j]))
             /\ ~Overlap(Sections[j].address, expanded_size(Sections[j]),
                         s.address, expanded_size(s))
  <2>1. [start |-> Sections[j].address, size |-> expanded_size(Sections[j])] \in virtual_ranges
    BY <1>1, <1>9 DEF GuestInv
  <2>2. ~Overlap(s.address, expanded_size(s), Sections[j].address, expanded_size(Sections[j]))
    BY <1>7, <1>9, <2>1
  <2>3. Sections[j].address \in Nat /\ expanded_size(Sections[j]) \in Nat
    BY <1>1, <1>6, <1>9, SectionTypes
  <2> QED
    BY <1>3, <2>2, <2>3, OverlapSymmetric
<1> HIDE DEF s
<1>10. \A k \in PlacedIndices' :
          Occupies(Sections[k]) =>
             /\ [start |-> Sections[k].address, size |-> expanded_size(Sections[k])]
                   \in virtual_ranges'
             /\ ~BadAddress(Sections[k])
  BY <1>1, <1>5, <1>7, <1>8 DEF GuestInv, s
<1>11. \A j, k \in PlacedIndices' :
          j # k /\ Occupies(Sections[j]) /\ Occupies(Sections[k]) =>
             ~Overlap(Sections[j].address, expanded_size(Sections[j]),
                      Sections[k].address, expanded_size(Sections[k]))
  BY <1>1, <1>5, <1>9 DEF GuestInv, s
<1> QED
  BY <1>4, <1>10, <1>11 DEF GuestInv

\* Index sets that do not grow, over the same image and ranges.
LEMMA SmallerSetsKeepInv ==
    ASSUME SectionInv,
           ScannedIndices' \subseteq ScannedIndices, PlacedIndices' \subseteq PlacedIndices,
           UNCHANGED image, ranges \subseteq ranges', virtual_ranges \subseteq virtual_ranges'
    PROVE  FileInv' /\ GuestInv'
<1>1. Sections' = Sections /\ TableEnd' = TableEnd /\ image' = image
  BY DEF Sections, TableEnd
<1>2. FileInv'
  BY <1>1 DEF SectionInv, FileInv
<1>3. GuestInv'
  BY <1>1 DEF SectionInv, GuestInv
<1> QED
  BY <1>2, <1>3

LEMMA CheckKeepsRegion ==
    ASSUME SectionInv, CheckRegion
    PROVE  RegionInv'
<1>1. TypeOK /\ RegionInv /\ phase \in Loops /\ phase = "regions"
  BY DEF SectionInv, CheckRegion, Loops
<1>2. RegionIndices' = RegionIndices \cup {index}
  BY <1>1, RegionStepIndices
<1>3. Current = Sections[index]
  BY <1>1, LoopTypes
<1>4. Occupies(Sections[index]) => ~ExceedsRegion(Sections[index])
  BY <1>3 DEF CheckRegion
<1>5. image' = image
  BY DEF CheckRegion
<1>6. Sections' = Sections
  BY <1>5 DEF Sections
<1>7. \A k \in RegionIndices' : Occupies(Sections[k]) => ~ExceedsRegion(Sections[k])
  BY <1>1, <1>2, <1>4 DEF RegionInv
<1>8. ~BadTables'
  BY <1>1, <1>5 DEF RegionInv, BadTables
<1> QED
  BY <1>5, <1>6, <1>7, <1>8 DEF RegionInv, ExceedsRegion, region

LEMMA OtherKeepRegion ==
    ASSUME SectionInv, [Next]_vars, ~CheckRegion
    PROVE  RegionInv'
<1>1. TypeOK /\ RegionInv
  BY DEF SectionInv
<1>2. image' = image
  BY DEF Next, CheckHeader, ScanSection, NameSection, CheckTables, PlaceSection, RefuseSection,
         Reject, vars
<1>3. Sections' = Sections /\ (BadTables' <=> BadTables)
  BY <1>2 DEF Sections, BadTables
<1>4. RegionIndices' \subseteq RegionIndices
  BY <1>1, ScanIndices, PlaceIndices, OtherIndices DEF Next
<1>5. phase' \in {"addresses", "regions", "accepted"} => ~BadTables
  <2>1. CASE phase \in {"addresses", "regions", "accepted"}
    BY <1>1, <2>1 DEF RegionInv
  <2>2. CASE CheckTables
    BY <2>2 DEF CheckTables, Reject
  <2>3. CASE CheckHeader
    BY <2>3 DEF CheckHeader, Reject, Enter
  <2>4. CASE ScanSection
    BY <2>4 DEF ScanSection, Advance, Enter
  <2>5. CASE NameSection
    BY <2>5 DEF NameSection, Advance, Enter
  <2>6. CASE RefuseSection
    BY <2>6 DEF RefuseSection, Reject
  <2>7. CASE UNCHANGED vars /\ phase \notin {"addresses", "regions", "accepted"}
    BY <2>7 DEF vars
  <2>8. PlaceSection => phase \in {"addresses", "regions", "accepted"}
    BY DEF PlaceSection
  <2> QED
    BY <2>1, <2>2, <2>3, <2>4, <2>5, <2>6, <2>7, <2>8 DEF Next
<1> QED
  BY <1>1, <1>2, <1>3, <1>4, <1>5 DEF RegionInv, ExceedsRegion, region

LEMMA InvInit == Init => SectionInv
<1> SUFFICES ASSUME Init PROVE SectionInv
  OBVIOUS
<1>1. ScannedIndices = {} /\ PlacedIndices = {} /\ RegionIndices = {}
  BY DEF Init, ScannedIndices, PlacedIndices, RegionIndices
<1> QED
  BY <1>1, TypeInit DEF Init, SectionInv, FileInv, GuestInv, RegionInv

LEMMA InvStep == SectionInv /\ [Next]_vars => SectionInv'
<1> SUFFICES ASSUME SectionInv, [Next]_vars PROVE SectionInv'
  OBVIOUS
<1>1. TypeOK /\ TypeOK'
  BY TypeStep DEF SectionInv
<1>2. RegionInv'
  BY CheckKeepsRegion, OtherKeepRegion
<1>3. CASE ScanSection
  <2>1. PlacedIndices' = {}
    BY <1>1, <1>3, ScanIndices
  <2>2. GuestInv'
    BY <2>1 DEF GuestInv
  <2> QED
    BY <1>1, <1>2, <1>3, <2>2, ScanKeepsFile DEF SectionInv
<1>4. CASE PlaceSection
  <2>1. ScannedIndices' = ScannedIndices
    BY <1>1, <1>4, PlaceIndices
  <2>2. Sections' = Sections /\ TableEnd' = TableEnd /\ image' = image /\ ranges' = ranges
    BY <1>4 DEF PlaceSection, Sections, TableEnd
  <2>3. FileInv'
    BY <2>1, <2>2 DEF SectionInv, FileInv
  <2> QED
    BY <1>1, <1>2, <1>4, <2>3, PlaceKeepsGuest DEF SectionInv
<1>5. CASE CheckRegion
  <2>1. /\ ScannedIndices' = ScannedIndices /\ PlacedIndices' = PlacedIndices
        /\ UNCHANGED <<image, ranges, virtual_ranges>>
    BY <1>1, <1>5, RegionStepIndices DEF CheckRegion
  <2> QED
    BY <1>1, <1>2, <2>1, SmallerSetsKeepInv DEF SectionInv
<1>6. CASE CheckHeader \/ NameSection \/ CheckTables \/ RefuseSection \/ UNCHANGED vars
  BY <1>1, <1>2, <1>6, OtherIndices, SmallerSetsKeepInv DEF SectionInv
<1> QED
  BY <1>3, <1>4, <1>5, <1>6 DEF Next

LEMMA Invariance == Spec => []SectionInv
BY InvInit, InvStep, PTL DEF Spec

-----------------------------------------------------------------------------
(* The theorems.                                                            *)

LEMMA IndicesInDomain ==
    ASSUME TypeOK
    PROVE  ScannedIndices \subseteq DOMAIN Sections /\ PlacedIndices \subseteq DOMAIN Sections
<1>1. CASE phase \in Loops \cup {"accepted"}
  BY <1>1, LoopTypes DEF ScannedIndices, PlacedIndices
<1>2. CASE phase \notin Loops \cup {"accepted"}
  BY <1>2 DEF ScannedIndices, PlacedIndices, Loops
<1> QED
  BY <1>1, <1>2

LEMMA FileDisjoint == SectionInv => FileBytesDisjoint
<1> SUFFICES ASSUME SectionInv PROVE FileBytesDisjoint
  OBVIOUS
<1>1. TypeOK /\ FileInv
  BY DEF SectionInv
<1>2. \A k \in ScannedIndices :
         Sections[k].offset \in Nat /\ Sections[k].stored \in Nat
  BY <1>1, IndicesInDomain, SectionTypes
<1>3. \A k \in ScannedIndices : ~InFile(Sections[k]) => FileBytes(Sections[k]) = {}
  BY <1>2 DEF InFile, FileBytes
<1>4. ASSUME NEW j \in ScannedIndices, NEW k \in ScannedIndices, j # k
      PROVE  FileBytes(Sections[j]) \cap FileBytes(Sections[k]) = {}
  <2>1. CASE InFile(Sections[j]) /\ InFile(Sections[k])
    <3>1. ~Overlap(Sections[j].offset, Sections[j].stored,
                   Sections[k].offset, Sections[k].stored)
      BY <1>1, <1>4, <2>1 DEF FileInv
    <3>2. /\ Sections[j].offset \in Int /\ Sections[j].stored \in Nat /\ Sections[j].stored > 0
          /\ Sections[k].offset \in Int /\ Sections[k].stored \in Nat /\ Sections[k].stored > 0
      BY <1>2, <2>1 DEF InFile
    <3>3. /\ FileBytes(Sections[j]) =
               Sections[j].offset .. (Sections[j].offset + Sections[j].stored - 1)
          /\ FileBytes(Sections[k]) =
               Sections[k].offset .. (Sections[k].offset + Sections[k].stored - 1)
      BY <2>1 DEF InFile, FileBytes
    <3>4. (Sections[j].offset .. (Sections[j].offset + Sections[j].stored - 1))
            \cap (Sections[k].offset .. (Sections[k].offset + Sections[k].stored - 1)) = {}
      BY <3>1, <3>2, OverlapIsIntersection
    <3> QED
      BY <3>3, <3>4
  <2> QED
    BY <1>3, <2>1
<1>5. image.table \in Nat /\ image.length \in Nat
  BY <1>1 DEF TypeOK, ImageRecords
<1>6. TableEnd - image.table \in Nat
  <2>1. Len(image.sections) \in Nat
    BY <1>1 DEF TypeOK, ImageRecords
  <2>2. Len(image.sections) * ENTRY \in Nat
    BY <2>1, ConstantTypes
  <2> QED
    BY <1>5, <2>2 DEF TableEnd
<1>7. TableEnd \in Int
  <2>1. Len(image.sections) \in Nat
    BY <1>1 DEF TypeOK, ImageRecords
  <2>2. Len(image.sections) * ENTRY \in Nat
    BY <2>1, ConstantTypes
  <2> QED
    BY <1>5, <2>2 DEF TableEnd
<1>8. ASSUME NEW k \in ScannedIndices
      PROVE  /\ FileBytes(Sections[k]) \subseteq HEADER..(image.length - 1)
             /\ FileBytes(Sections[k]) \cap image.table..(TableEnd - 1) = {}
  <2>1. CASE InFile(Sections[k])
    <3> DEFINE a == Sections[k].offset
               n == Sections[k].stored
    <3>1. /\ HEADER <= a /\ a + n <= image.length
          /\ ~Overlap(a, n, image.table, TableEnd - image.table)
      BY <1>1, <2>1 DEF FileInv
    <3>2. FileBytes(Sections[k]) = a .. (a + n - 1) /\ n > 0
      BY <2>1 DEF InFile, FileBytes
    <3>3. a \in Nat /\ n \in Nat
      BY <1>2
    <3> HIDE DEF a, n
    <3>4. a .. (a + n - 1) \subseteq HEADER..(image.length - 1)
      BY <1>5, <3>1, <3>3, ConstantTypes
    <3>5. (a .. (a + n - 1)) \cap (image.table..(TableEnd - 1)) = {}
      BY <1>5, <1>6, <1>7, <3>1, <3>3 DEF Overlap
    <3> QED
      BY <3>2, <3>4, <3>5
  <2> QED
    BY <1>3, <2>1
<1> QED
  BY <1>4, <1>8 DEF FileBytesDisjoint

LEMMA GuestDisjoint == SectionInv => GuestBytesDisjoint
<1> SUFFICES ASSUME SectionInv, NEW j \in PlacedIndices, NEW k \in PlacedIndices, j # k
             PROVE  GuestBytes(Sections[j]) \cap GuestBytes(Sections[k]) = {}
  BY DEF GuestBytesDisjoint
<1>1. TypeOK /\ GuestInv
  BY DEF SectionInv
<1>2. \A l \in {j, k} : Sections[l].address \in Nat /\ expanded_size(Sections[l]) \in Nat
  BY <1>1, IndicesInDomain, SectionTypes
<1>3. \A l \in {j, k} : ~Occupies(Sections[l]) => GuestBytes(Sections[l]) = {}
  BY <1>2 DEF Occupies, GuestBytes
<1>4. CASE Occupies(Sections[j]) /\ Occupies(Sections[k])
  <2>1. ~Overlap(Sections[j].address, expanded_size(Sections[j]),
                 Sections[k].address, expanded_size(Sections[k]))
    BY <1>1, <1>4 DEF GuestInv
  <2>2. \A l \in {j, k} :
           /\ Sections[l].address \in Int
           /\ expanded_size(Sections[l]) \in Nat /\ expanded_size(Sections[l]) > 0
           /\ GuestBytes(Sections[l]) =
                 Sections[l].address .. (Sections[l].address + expanded_size(Sections[l]) - 1)
    BY <1>2, <1>4 DEF Occupies, GuestBytes
  <2>3. (Sections[j].address .. (Sections[j].address + expanded_size(Sections[j]) - 1))
          \cap (Sections[k].address .. (Sections[k].address + expanded_size(Sections[k]) - 1)) = {}
    BY <2>1, <2>2, OverlapIsIntersection
  <2> QED
    BY <2>2, <2>3
<1> QED
  BY <1>3, <1>4

LEMMA Windows == SectionInv => WindowsRespected
<1> SUFFICES ASSUME SectionInv, phase = "accepted", NEW k \in DOMAIN Sections
             PROVE  LET s == Sections[k]
                    IN  \/ GuestBytes(s) \subseteq LOADER_BASE..(GUEST_TOP - 1)
                        \/ /\ "exec" \in s.flags
                           /\ GuestBytes(s) \subseteq TEXT_BASE..(DATA_BASE - 1)
                        \/ /\ "exec" \notin s.flags
                           /\ GuestBytes(s) \subseteq DATA_BASE..(LOADER_BASE - 1)
  BY DEF WindowsRespected
<1> DEFINE s == Sections[k]
<1>1. TypeOK /\ GuestInv /\ RegionInv
  BY DEF SectionInv
<1>2. s.address \in Nat /\ expanded_size(s) \in Nat
  BY <1>1, SectionTypes
<1>3. k \in PlacedIndices /\ k \in RegionIndices
  BY DEF PlacedIndices, RegionIndices
<1>4. Occupies(s) => ~BadAddress(s) /\ ~ExceedsRegion(s)
  BY <1>1, <1>3 DEF GuestInv, RegionInv
<1>5. /\ image.text_size \in Nat /\ image.data_size \in Nat /\ image.loader_size \in Nat
      /\ ~(image.text_size > MAX_EXPANDED_BYTES)
      /\ ~(image.data_size > MAX_EXPANDED_BYTES)
      /\ ~(image.loader_size > MAX_EXPANDED_BYTES)
  BY <1>1 DEF TypeOK, ImageRecords, RegionInv, BadTables
<1> HIDE DEF s
<1>6. CASE ~Occupies(s)
  <2>1. GuestBytes(s) = {}
    BY <1>2, <1>6 DEF Occupies, GuestBytes
  <2> QED
    BY <2>1 DEF s
<1>7. CASE Occupies(s)
  <2>1. GuestBytes(s) = s.address .. (s.address + expanded_size(s) - 1)
    BY <1>7 DEF Occupies, GuestBytes
  <2>2. CASE s.address >= LOADER_BASE
    <3>1. region(s) = [base |-> LOADER_BASE, size |-> image.loader_size]
      BY <2>2 DEF region
    <3>2. expanded_size(s) <= image.loader_size - (s.address - LOADER_BASE)
      BY <1>2, <1>4, <1>5, <1>7, <3>1, ConstantTypes DEF ExceedsRegion
    <3>3. s.address .. (s.address + expanded_size(s) - 1) \subseteq LOADER_BASE..(GUEST_TOP - 1)
      BY <1>2, <1>5, <2>2, <3>2, ConstantTypes, WindowsAssumption
    <3> QED
      BY <2>1, <3>3 DEF s
  <2>3. CASE ~(s.address >= LOADER_BASE) /\ "exec" \in s.flags
    <3>1. region(s) = [base |-> TEXT_BASE, size |-> image.text_size]
      BY <2>3 DEF region
    <3>2. s.address \in TEXT_BASE..(DATA_BASE - 1)
      BY <1>2, <1>4, <1>7, <2>3, ConstantTypes DEF BadAddress
    <3>3. expanded_size(s) <= image.text_size - (s.address - TEXT_BASE)
      BY <1>2, <1>4, <1>5, <1>7, <3>1, ConstantTypes DEF ExceedsRegion
    <3>4. s.address .. (s.address + expanded_size(s) - 1) \subseteq TEXT_BASE..(DATA_BASE - 1)
      BY <1>2, <1>5, <3>2, <3>3, ConstantTypes, WindowsAssumption
    <3> QED
      BY <2>1, <2>3, <3>4 DEF s
  <2>4. CASE ~(s.address >= LOADER_BASE) /\ "exec" \notin s.flags
    <3>1. region(s) = [base |-> DATA_BASE, size |-> image.data_size]
      BY <2>4 DEF region
    <3>2. s.address >= DATA_BASE
      BY <1>2, <1>4, <1>7, <2>4, ConstantTypes DEF BadAddress
    <3>3. expanded_size(s) <= image.data_size - (s.address - DATA_BASE)
      BY <1>2, <1>4, <1>5, <1>7, <3>1, ConstantTypes DEF ExceedsRegion
    <3>4. s.address .. (s.address + expanded_size(s) - 1) \subseteq DATA_BASE..(LOADER_BASE - 1)
      BY <1>2, <1>5, <3>2, <3>3, ConstantTypes, WindowsAssumption
    <3> QED
      BY <2>1, <2>4, <3>4 DEF s
  <2> QED
    BY <2>2, <2>3, <2>4
<1> QED
  BY <1>6, <1>7

\* Of the bytes of the file none is used by two sections, or by a section and
\* the header or the section table, at any point of the scan.
THEOREM FileBytesStayDisjoint == Spec => []FileBytesDisjoint
BY Invariance, FileDisjoint, PTL

\* Of the guest addresses none is in two allocated sections.
THEOREM GuestBytesStayDisjoint == Spec => []GuestBytesDisjoint
BY Invariance, GuestDisjoint, PTL

\* Every allocated section of an accepted image is in one window to its last
\* byte, as long as the windows are further apart than the largest region.
THEOREM WindowsStayRespected == Spec => []WindowsRespected
BY Invariance, Windows, PTL

-----------------------------------------------------------------------------
(* The running total is the sum of what the scanned sections expand to.     *)

Expanded(sections) == [k \in DOMAIN sections |-> expanded_size(sections[k])]

LEMMA ExpandedTypes ==
    ASSUME NEW sections \in Seq(Headers)
    PROVE  /\ DOMAIN sections = 1..Len(sections) /\ Len(sections) \in Nat
           /\ IsFiniteSet(DOMAIN sections)
           /\ \A k \in DOMAIN sections :
                 /\ Expanded(sections)[k] = expanded_size(sections[k])
                 /\ Expanded(sections)[k] \in Nat
<1>1. DOMAIN sections = 1..Len(sections) /\ Len(sections) \in Nat
  OBVIOUS
<1>2. IsFiniteSet(1..Len(sections))
  BY <1>1, FS_Interval
<1>3. \A k \in DOMAIN sections : sections[k] \in Headers
  OBVIOUS
<1>4. \A k \in DOMAIN sections : expanded_size(sections[k]) \in Nat
  BY <1>3 DEF expanded_size, Headers
<1> QED
  BY <1>1, <1>2, <1>4 DEF Expanded

LEMMA TotalIsSum ==
    ASSUME NEW sections \in Seq(Headers), NEW S \in SUBSET DOMAIN sections
    PROVE  TotalExpanded(sections, S) = Sum(Expanded(sections), S)
<1> DEFINE fold == CHOOSE g : g = [s \in SUBSET S |->
                      IF s = {} THEN 0
                      ELSE expanded_size(sections[CHOOSE x \in s : TRUE])
                              + g[s \ {CHOOSE x \in s : TRUE}]]
<1>1. IsFiniteSet(S)
  BY ExpandedTypes, FS_Subset
<1>2. PICK g : IsSum(Expanded(sections), S, g)
  BY <1>1, SumExists
<1>3. ASSUME NEW f
      PROVE  IsSum(Expanded(sections), S, f) <=>
                f = [s \in SUBSET S |->
                        IF s = {} THEN 0
                        ELSE expanded_size(sections[CHOOSE x \in s : TRUE])
                                + f[s \ {CHOOSE x \in s : TRUE}]]
  <2>1. \A s \in SUBSET S : s # {} =>
           Expanded(sections)[CHOOSE x \in s : TRUE]
              = expanded_size(sections[CHOOSE x \in s : TRUE])
    BY DEF Expanded
  <2> QED
    BY <2>1 DEF IsSum
<1>4. fold = [s \in SUBSET S |->
                 IF s = {} THEN 0
                 ELSE expanded_size(sections[CHOOSE x \in s : TRUE])
                         + fold[s \ {CHOOSE x \in s : TRUE}]]
  <2>1. g = [s \in SUBSET S |->
                IF s = {} THEN 0
                ELSE expanded_size(sections[CHOOSE x \in s : TRUE])
                        + g[s \ {CHOOSE x \in s : TRUE}]]
    BY <1>2, <1>3
  <2> QED
    BY <2>1
<1>5. TotalExpanded(sections, S) = fold[S]
  BY DEF TotalExpanded, MapThenSumSet, MapThenFoldSet
<1> HIDE DEF fold
<1>6. IsSum(Expanded(sections), S, fold)
  BY <1>3, <1>4
<1> QED
  BY <1>1, <1>5, <1>6, SumIs

\* Totals of parts of the section table.
LEMMA Totals ==
    ASSUME NEW sections \in Seq(Headers), NEW S \in SUBSET DOMAIN sections
    PROVE  /\ TotalExpanded(sections, {}) = 0
           /\ TotalExpanded(sections, S) \in Nat
           /\ \A T \in SUBSET S : TotalExpanded(sections, T) <= TotalExpanded(sections, S)
           /\ \A e \in DOMAIN sections : e \notin S =>
                 TotalExpanded(sections, S \cup {e})
                    = TotalExpanded(sections, S) + expanded_size(sections[e])
<1> DEFINE w == Expanded(sections)
<1>1. IsFiniteSet(S) /\ \A x \in S : w[x] \in Nat
  BY ExpandedTypes, FS_Subset
<1>2. \A T \in SUBSET DOMAIN sections : TotalExpanded(sections, T) = Sum(w, T)
  BY TotalIsSum
<1>3. \A e \in DOMAIN sections : w[e] = expanded_size(sections[e]) /\ w[e] \in Nat
  BY ExpandedTypes
<1> HIDE DEF w
<1>4. TotalExpanded(sections, {}) = 0
  BY <1>2, SumOfNothing
<1>5. TotalExpanded(sections, S) \in Nat
  BY <1>1, <1>2, SumType
<1>6. \A T \in SUBSET S : TotalExpanded(sections, T) <= TotalExpanded(sections, S)
  BY <1>1, <1>2, SumOfPart
<1>7. ASSUME NEW e \in DOMAIN sections, e \notin S
      PROVE  TotalExpanded(sections, S \cup {e})
                = TotalExpanded(sections, S) + expanded_size(sections[e])
  BY <1>1, <1>2, <1>3, <1>7, SumAdd
<1> QED
  BY <1>4, <1>5, <1>6, <1>7

TotalInv == phase # "rejected" => expanded_total = TotalExpanded(Sections, ScannedIndices)

LEMMA SectionsSequence ==
    ASSUME TypeOK
    PROVE  Sections \in Seq(Headers) /\ DOMAIN Sections = 1..Len(Sections)
BY DEF TypeOK, Sections, ImageRecords

\* The index of the scan is not among the scanned ones.
LEMMA ScanIsNew ==
    ASSUME TypeOK, phase = "scan"
    PROVE  index \in DOMAIN Sections /\ index \notin ScannedIndices
<1>1. index \in DOMAIN Sections /\ index \in 1..Len(Sections) /\ Len(Sections) \in Nat
  BY LoopTypes DEF Loops
<1>2. ScannedIndices = 1..(index - 1)
  BY DEF ScannedIndices
<1> QED
  BY <1>1, <1>2

LEMMA TotalInit == Init => TotalInv
<1> SUFFICES ASSUME Init PROVE TotalInv
  OBVIOUS
<1>1. TypeOK /\ ScannedIndices = {} /\ expanded_total = 0
  BY TypeInit DEF Init, ScannedIndices
<1>2. TotalExpanded(Sections, {}) = 0
  BY <1>1, SectionsSequence, Totals
<1> QED
  BY <1>1, <1>2 DEF TotalInv

\* Every other step that does not reject leaves the scanned sections alone.
LEMMA ScannedStay ==
    ASSUME TypeOK, [Next]_vars, ~ScanSection, phase' # "rejected"
    PROVE  /\ Sections' = Sections /\ expanded_total' = expanded_total /\ phase # "rejected"
           /\ ScannedIndices' = ScannedIndices
<1>1. CASE CheckHeader
  <2>1. /\ phase = "header" /\ phase' = "scan" /\ index' = 1
        /\ image' = image /\ expanded_total' = expanded_total
    BY <1>1 DEF CheckHeader, Reject, Enter
  <2>2. ScannedIndices = {} /\ ScannedIndices' = {}
    BY <2>1 DEF ScannedIndices
  <2> QED
    BY <2>1, <2>2 DEF Sections
<1>2. CASE NameSection \/ PlaceSection \/ CheckRegion \/ CheckTables
  <2>1. /\ phase \in {"names", "tables", "addresses", "regions"}
        /\ phase' \in {"names", "tables", "addresses", "regions", "accepted"}
        /\ image' = image /\ expanded_total' = expanded_total
    BY <1>2 DEF NameSection, PlaceSection, CheckRegion, CheckTables, Advance, Enter, Reject
  <2> QED
    BY <2>1 DEF ScannedIndices, Sections
<1>3. CASE RefuseSection
  BY <1>3 DEF RefuseSection, Reject
<1>4. CASE UNCHANGED vars
  BY <1>4 DEF vars, Sections, ScannedIndices
<1> QED
  BY <1>1, <1>2, <1>3, <1>4 DEF Next

LEMMA TotalStep == TypeOK /\ TotalInv /\ [Next]_vars => TotalInv'
<1> SUFFICES ASSUME TypeOK, TotalInv, [Next]_vars, phase' # "rejected"
             PROVE  expanded_total' = TotalExpanded(Sections', ScannedIndices')
  BY DEF TotalInv
<1>1. CASE ScanSection
  <2>1. /\ phase = "scan" /\ Sections' = Sections
        /\ expanded_total' = expanded_total + expanded_size(Current)
    BY <1>1 DEF ScanSection, Sections
  <2>2. index \in DOMAIN Sections /\ index \notin ScannedIndices /\ Current = Sections[index]
    BY <2>1, ScanIsNew DEF Current, Sections
  <2>3. ScannedIndices' = ScannedIndices \cup {index} /\ ScannedIndices \in SUBSET DOMAIN Sections
    BY <1>1, ScanIndices, IndicesInDomain
  <2>4. expanded_total = TotalExpanded(Sections, ScannedIndices)
    BY <2>1 DEF TotalInv
  <2> QED
    BY <2>1, <2>2, <2>3, <2>4, SectionsSequence, Totals
<1>2. CASE ~ScanSection
  BY <1>2, ScannedStay DEF TotalInv
<1> QED
  BY <1>1, <1>2

\* What has been inflated at any point of the inspection is within the limit
\* as a sum over sections, for any number of them.
THEOREM ExpansionStaysBounded == Spec => []ExpansionBounded
<1>1. TypeOK /\ TotalInv => ExpansionBounded
  <2> SUFFICES ASSUME TypeOK, TotalInv PROVE ExpansionBounded
    OBVIOUS
  <2>1. CASE phase = "rejected"
    <3>1. ScannedIndices = {} /\ TotalExpanded(Sections, {}) = 0
      BY <2>1, SectionsSequence, Totals DEF ScannedIndices
    <3> QED
      BY <3>1, ConstantTypes DEF ExpansionBounded
  <2>2. CASE phase # "rejected"
    BY <2>2, ConstantTypes DEF TotalInv, TypeOK, ExpansionBounded
  <2> QED
    BY <2>1, <2>2
<1> QED
  BY <1>1, TypeInit, TypeStep, TotalInit, TotalStep, PTL DEF Spec

-----------------------------------------------------------------------------
(* The loops accept exactly the legal images.                               *)

\* The images read from are those of the constant Images, so their sizes fit.
LEMMA TableBytes ==
    ASSUME TypeOK, ~BadHeader
    PROVE  /\ image.table \in Nat /\ image.length \in Nat /\ TableEnd \in Nat
           /\ TableEnd - image.table \in Nat /\ image.table < TableEnd
<1>1. image.table \in Nat /\ image.length \in Nat /\ image.sections \in Seq(Headers)
  BY DEF TypeOK, ImageRecords
<1>2. Len(image.sections) \in Nat /\ Len(image.sections) > 0
  BY <1>1, ConstantTypes DEF BadHeader
<1>3. Len(image.sections) * ENTRY \in Nat /\ Len(image.sections) * ENTRY > 0
  BY <1>2, ConstantTypes
<1> QED
  BY <1>1, <1>3 DEF TableEnd

\* What the comparison of the code says about bytes, the other way round.
LEMMA OverlapHasByte ==
    ASSUME NEW p \in Int, NEW m \in Int, NEW q \in Int, NEW n \in Int,
           m > 0, n > 0, Overlap(p, m, q, n)
    PROVE  \E x \in Int : x \in p .. (p + m - 1) /\ x \in q .. (q + n - 1)
<1>1. CASE p <= q
  <2>1. q \in p .. (p + m - 1) /\ q \in q .. (q + n - 1)
    BY <1>1 DEF Overlap
  <2> QED
    BY <2>1
<1>2. CASE ~(p <= q)
  <2>1. p \in p .. (p + m - 1) /\ p \in q .. (q + n - 1)
    BY <1>2 DEF Overlap
  <2> QED
    BY <2>1
<1> QED
  BY <1>1, <1>2

LEMMA OverlapIsMeeting ==
    ASSUME NEW p \in Nat, NEW m \in Nat, NEW q \in Nat, NEW n \in Nat, m > 0, n > 0
    PROVE  Overlap(p, m, q, n) <=> (p .. (p + m - 1)) \cap (q .. (q + n - 1)) # {}
<1>1. ASSUME Overlap(p, m, q, n) PROVE (p .. (p + m - 1)) \cap (q .. (q + n - 1)) # {}
  <2>1. \E x \in Int : x \in p .. (p + m - 1) /\ x \in q .. (q + n - 1)
    BY <1>1, OverlapHasByte
  <2> QED
    BY <2>1
<1>2. ASSUME ~Overlap(p, m, q, n) PROVE (p .. (p + m - 1)) \cap (q .. (q + n - 1)) = {}
  BY <1>2 DEF Overlap
<1> QED
  BY <1>1, <1>2

\* The checks on one section, apart from the comparison with earlier ones.
BadAlone(s) ==
    \/ ~s.aligned
    \/ {"write", "exec"} \subseteq s.flags
    \/ IF s.kind = "nobits"
       THEN "deflated" \in s.flags
       ELSE \/ s.offset + s.stored > image.length
            \/ OverlapsStructure(s)
            \/ /\ "deflated" \in s.flags
               /\ \/ s.stored < MIN_DEFLATED
                  \/ s.declared \notin 1..MAX_EXPANDED_BYTES
                  \/ ~Inflates(s)

LEMMA ContentsChecked ==
    ASSUME TypeOK, ~BadHeader, NEW k \in DOMAIN Sections
    PROVE  ~BadAlone(Sections[k]) <=> LegalContents(Sections[k])
<1> DEFINE s == Sections[k]
           structure == 0..(HEADER - 1) \cup image.table..(TableEnd - 1)
<1>1. s.offset \in Nat /\ s.stored \in Nat /\ s.declared \in Nat
  BY SectionTypes
<1>2. /\ image.table \in Nat /\ image.length \in Nat /\ TableEnd \in Nat
      /\ TableEnd - image.table \in Nat /\ image.table < TableEnd
  BY TableBytes
<1>3. MIN_DEFLATED \in Nat /\ HEADER \in Nat
  BY SizesAssumption
<1>4. s.kind # "nobits" => (~OverlapsStructure(s) <=> FileBytes(s) \cap structure = {})
  <2> SUFFICES ASSUME s.kind # "nobits"
               PROVE  ~OverlapsStructure(s) <=> FileBytes(s) \cap structure = {}
    OBVIOUS
  <2> DEFINE a == s.offset
             m == s.stored
  <2>1. FileBytes(s) = a .. (a + m - 1)
    BY DEF FileBytes
  <2>2. OverlapsStructure(s) <=>
           m > 0 /\ (a < HEADER \/ Overlap(a, m, image.table, TableEnd - image.table))
    BY DEF OverlapsStructure
  <2> HIDE DEF s
  <2>3. CASE m = 0
    <3>1. a .. (a + m - 1) = {}
      BY <1>1, <2>3
    <3> QED
      BY <2>1, <2>2, <2>3, <3>1
  <2>4. CASE m > 0
    <3>1. a < HEADER <=> (a .. (a + m - 1)) \cap (0..(HEADER - 1)) # {}
      <4>1. a < HEADER => a \in a .. (a + m - 1) /\ a \in 0..(HEADER - 1)
        BY <1>1, <1>3, <2>4 DEF s
      <4>2. ASSUME NEW x \in a .. (a + m - 1), x \in 0..(HEADER - 1) PROVE a < HEADER
        BY <1>1, <1>3, <4>2 DEF s
      <4> QED
        BY <4>1, <4>2
    <3>2. Overlap(a, m, image.table, TableEnd - image.table)
            <=> (a .. (a + m - 1)) \cap (image.table..(TableEnd - 1)) # {}
      <4> DEFINE q == image.table
                 n == TableEnd - image.table
      <4>1. q + n - 1 = TableEnd - 1 /\ n > 0 /\ n \in Nat /\ q \in Nat
        BY <1>2
      <4>2. a \in Nat /\ m \in Nat /\ m > 0
        BY <1>1, <2>4 DEF s
      <4> HIDE DEF q, n, a, m
      <4>3. Overlap(a, m, q, n) <=> (a .. (a + m - 1)) \cap (q .. (q + n - 1)) # {}
        BY <4>1, <4>2, OverlapIsMeeting
      <4> QED
        BY <4>1, <4>3 DEF q, n
    <3> HIDE DEF a, m
    <3> QED
      BY <2>1, <2>2, <2>4, <3>1, <3>2
  <2> QED
    BY <1>1, <2>3, <2>4 DEF s
<1>5. s.kind = "nobits" => FileBytes(s) = {}
  BY DEF FileBytes
<1>6. ~(s.offset + s.stored > image.length) <=> s.offset + s.stored <= image.length
  BY <1>1, <1>2
<1>7. ~(s.stored < MIN_DEFLATED) <=> s.stored >= MIN_DEFLATED
  BY <1>1, <1>3
<1> HIDE DEF s
<1>8. ~BadAlone(s) <=>
        /\ s.aligned /\ ~({"write", "exec"} \subseteq s.flags)
        /\ s.kind = "nobits" => "deflated" \notin s.flags
        /\ s.kind # "nobits" =>
              /\ s.offset + s.stored <= image.length
              /\ FileBytes(s) \cap structure = {}
              /\ "deflated" \in s.flags =>
                    s.stored >= MIN_DEFLATED /\ s.declared \in 1..MAX_EXPANDED_BYTES /\ Inflates(s)
  BY <1>4, <1>6, <1>7 DEF BadAlone
<1>9. LegalContents(s) <=>
        /\ s.aligned /\ ~({"write", "exec"} \subseteq s.flags)
        /\ "deflated" \in s.flags =>
              /\ s.kind # "nobits" /\ s.stored >= MIN_DEFLATED
              /\ s.declared \in 1..MAX_EXPANDED_BYTES /\ Inflates(s)
        /\ s.kind # "nobits" => s.offset + s.stored <= image.length
        /\ FileBytes(s) \cap structure = {}
  BY DEF LegalContents
<1> HIDE DEF structure
<1> QED
  BY <1>5, <1>8, <1>9 DEF s

LEMMA RangeWithin ==
    ASSUME NEW p \in Int, NEW m \in Int, NEW q \in Int, NEW n \in Int, m > 0
    PROVE  p .. (p + m - 1) \subseteq q .. (q + n - 1) <=> q <= p /\ p + m <= q + n
<1>1. ASSUME p .. (p + m - 1) \subseteq q .. (q + n - 1) PROVE q <= p /\ p + m <= q + n
  <2>1. p \in q .. (q + n - 1) /\ p + m - 1 \in q .. (q + n - 1)
    BY <1>1
  <2> QED
    BY <2>1
<1> QED
  BY <1>1

LEMMA GuestBytesOf ==
    ASSUME TypeOK, NEW k \in DOMAIN Sections
    PROVE  /\ GuestBytes(Sections[k]) # {} <=> Occupies(Sections[k])
           /\ Occupies(Sections[k]) =>
                 GuestBytes(Sections[k]) =
                    Sections[k].address .. (Sections[k].address + expanded_size(Sections[k]) - 1)
<1>1. Sections[k].address \in Nat /\ expanded_size(Sections[k]) \in Nat
  BY SectionTypes
<1> DEFINE p == Sections[k].address
           m == expanded_size(Sections[k])
<1>2. m > 0 => p \in p .. (p + m - 1)
  <2> HIDE DEF p, m
  <2> QED
    BY <1>1 DEF p, m
<1>3. ~(m > 0) => p .. (p + m - 1) = {}
  <2> HIDE DEF p, m
  <2> QED
    BY <1>1 DEF p, m
<1> QED
  BY <1>2, <1>3 DEF GuestBytes, Occupies

\* The address check of one loop and the region check of the next one say
\* together where a section may lie.
LEMMA PlaceChecked ==
    ASSUME TypeOK, ~BadTables, NEW k \in DOMAIN Sections
    PROVE  (Occupies(Sections[k]) => ~BadAddress(Sections[k]) /\ ~ExceedsRegion(Sections[k]))
              <=> LegalPlace(Sections[k])
<1> DEFINE s == Sections[k]
           p == s.address
           m == expanded_size(s)
<1>1. p \in Nat /\ m \in Nat
  BY SectionTypes
<1>2. /\ image.text_size \in 0..MAX_EXPANDED_BYTES
      /\ image.data_size \in 0..MAX_EXPANDED_BYTES
      /\ image.loader_size \in 0..MAX_EXPANDED_BYTES
  <2>1. /\ image.text_size \in Nat /\ image.data_size \in Nat /\ image.loader_size \in Nat
        /\ ~(image.text_size > MAX_EXPANDED_BYTES)
        /\ ~(image.data_size > MAX_EXPANDED_BYTES)
        /\ ~(image.loader_size > MAX_EXPANDED_BYTES)
    BY DEF TypeOK, ImageRecords, BadTables
  <2> QED
    BY <2>1, ConstantTypes
<1>3. GuestBytes(s) # {} <=> Occupies(s)
  BY GuestBytesOf
<1> SUFFICES ASSUME Occupies(s)
             PROVE  ~BadAddress(s) /\ ~ExceedsRegion(s) <=> LegalPlace(s)
  BY <1>3 DEF LegalPlace
<1>4. GuestBytes(s) = p .. (p + m - 1) /\ m > 0
  BY GuestBytesOf DEF Occupies
<1> DEFINE In(base, size) == base <= p /\ p + m <= base + size
<1>5. \A base \in Nat, size \in Nat :
         GuestBytes(s) \subseteq base .. (base + size - 1) <=> In(base, size)
  <2> TAKE base \in Nat, size \in Nat
  <2> HIDE DEF s, p, m
  <2>1. p \in Int /\ m \in Int /\ base \in Int /\ size \in Int /\ m > 0
    BY <1>1, <1>4
  <2>2. p .. (p + m - 1) \subseteq base .. (base + size - 1)
          <=> base <= p /\ p + m <= base + size
    BY ONLY <2>1, RangeWithin
  <2> QED
    BY <1>4, <2>2
<1> DEFINE loader == s.kind \in {"import", "symtab", "strtab", "dynsym"} \/ s.name = load_bounds
           code == "exec" \in s.flags
           import == s.kind = "import"
<1>6. LegalPlace(s) <=>
        \/ (import \/ ~code) /\ loader /\ In(LOADER_BASE, image.loader_size)
        \/ ~import /\ code /\ In(TEXT_BASE, image.text_size)
        \/ ~import /\ ~code /\ In(DATA_BASE, image.data_size)
  <2> HIDE DEF In, p, m
  <2>1. GuestBytes(s) # {}
    BY <1>3
  <2>2. /\ GuestBytes(s) \subseteq LOADER_BASE..(LOADER_BASE + image.loader_size - 1)
             <=> In(LOADER_BASE, image.loader_size)
        /\ GuestBytes(s) \subseteq TEXT_BASE..(TEXT_BASE + image.text_size - 1)
             <=> In(TEXT_BASE, image.text_size)
        /\ GuestBytes(s) \subseteq DATA_BASE..(DATA_BASE + image.data_size - 1)
             <=> In(DATA_BASE, image.data_size)
    BY <1>2, <1>5, ConstantTypes
  <2> HIDE DEF s
  <2> QED
    BY <2>1, <2>2 DEF LegalPlace
<1>7. ~BadAddress(s) <=>
        /\ p + m <= GUEST_TOP
        /\ IF import THEN p >= LOADER_BASE
           ELSE IF code THEN p >= TEXT_BASE /\ p < DATA_BASE
           ELSE IF p >= LOADER_BASE THEN loader ELSE p >= DATA_BASE
  <2> HIDE DEF s
  <2> QED
    BY <1>1, ConstantTypes DEF BadAddress
<1>8. ~ExceedsRegion(s) <=>
        IF p >= LOADER_BASE THEN In(LOADER_BASE, image.loader_size)
        ELSE IF code THEN In(TEXT_BASE, image.text_size)
        ELSE In(DATA_BASE, image.data_size)
  <2>1. ASSUME NEW base \in Nat, NEW size \in Nat, region(s) = [base |-> base, size |-> size]
        PROVE  ~ExceedsRegion(s) <=> In(base, size)
    <3>1. ExceedsRegion(s) <=> p - base < 0 \/ p - base > size \/ m > size - (p - base)
      BY <2>1 DEF ExceedsRegion
    <3> HIDE DEF s, p, m
    <3> QED
      BY <1>1, <1>4, <3>1
  <2>2. region(s) = IF p >= LOADER_BASE THEN [base |-> LOADER_BASE, size |-> image.loader_size]
                    ELSE IF code THEN [base |-> TEXT_BASE, size |-> image.text_size]
                    ELSE [base |-> DATA_BASE, size |-> image.data_size]
    BY DEF region
  <2> HIDE DEF s, p, In
  <2> QED
    BY <1>2, <2>1, <2>2, ConstantTypes
<1>9. import => loader
  OBVIOUS
<1> HIDE DEF s, p, m, loader, code, import
<1> QED
  BY <1>1, <1>2, <1>4, <1>6, <1>7, <1>8, <1>9, ConstantTypes, WindowsAssumption

\* the sections whose names were compared with the earlier ones
NamedIndices ==
    CASE phase = "names" -> 1..(index - 1)
      [] phase \in {"tables", "addresses", "regions", "accepted"} -> DOMAIN Sections
      [] OTHER -> {}

\* The sets of the loops hold nothing but what the sections let through brought
\* in, and those sections are legal as far as the loops have looked.
ContentsInv ==
    /\ phase \in Loops \cup {"accepted"} => ~BadHeader
    /\ \A k \in ScannedIndices : LegalContents(Sections[k])
    /\ 1 \in ScannedIndices => Sections[1].kind = "null" /\ Sections[1].stored = 0
    /\ phase \in {"header", "scan"} =>
          \A r \in ranges : \E k \in ScannedIndices :
             /\ InFile(Sections[k])
             /\ r = [start |-> Sections[k].offset, size |-> Sections[k].stored]

NamesInv ==
    /\ phase \in {"header", "scan", "names"} =>
          seen_names = {Sections[k].name : k \in NamedIndices}
    /\ NamedIndices # {} => ~BadNameTable
    /\ \A k \in NamedIndices : Sections[k].name # BadName
    /\ \A j, k \in NamedIndices :
          j # k /\ Sections[j].name = Sections[k].name => Sections[j].name = Unnamed

PlacesInv ==
    phase \in {"header", "scan", "names", "tables", "addresses"} =>
        \A r \in virtual_ranges : \E k \in PlacedIndices :
            /\ Occupies(Sections[k])
            /\ r = [start |-> Sections[k].address, size |-> expanded_size(Sections[k])]

LegalInv == SectionInv /\ TotalInv /\ ContentsInv /\ NamesInv /\ PlacesInv

LEMMA ImageStays == [Next]_vars => image' = image /\ Sections' = Sections
BY DEF Next, CheckHeader, ScanSection, NameSection, CheckTables, PlaceSection, CheckRegion,
       RefuseSection, Reject, vars, Sections

\* Whether an image is legal does not change while it is read.
LEMMA LegalStays ==
    ASSUME image' = image
    PROVE  /\ BadHeader' <=> BadHeader
           /\ BadNameTable' <=> BadNameTable
           /\ \A k \in DOMAIN Sections : LegalContents(Sections[k])' <=> LegalContents(Sections[k])
           /\ Legal' <=> Legal
<1>1. Sections' = Sections /\ TableEnd' = TableEnd
  BY DEF Sections, TableEnd
<1>2. (BadHeader' <=> BadHeader) /\ (BadTables' <=> BadTables)
  BY <1>1 DEF BadHeader, BadTables, Sections
<1>3. BadNameTable' <=> BadNameTable
  BY DEF BadNameTable
<1>4. \A k \in DOMAIN Sections : LegalContents(Sections[k])' <=> LegalContents(Sections[k])
  BY <1>1 DEF LegalContents
<1>5. Legal' <=> Legal
  BY <1>1, <1>2, ZenonT(60) DEF Legal, LegalContents, LegalPlace
<1> QED
  BY <1>2, <1>3, <1>4, <1>5

LEMMA LegalInit == Init => LegalInv
<1> SUFFICES ASSUME Init PROVE LegalInv
  OBVIOUS
<1>1. ScannedIndices = {} /\ PlacedIndices = {} /\ NamedIndices = {}
  BY DEF Init, ScannedIndices, PlacedIndices, NamedIndices
<1>2. SectionInv /\ TotalInv
  BY InvInit, TotalInit
<1> QED
  BY <1>1, <1>2 DEF Init, LegalInv, ContentsInv, NamesInv, PlacesInv, Loops

-----------------------------------------------------------------------------
(* The scan of contents.                                                    *)

LEMMA BadSectionParts ==
    ASSUME NEW s
    PROVE  BadSection(s) <=>
              \/ index = 1 /\ (s.kind # "null" \/ s.stored > 0)
              \/ BadAlone(s)
              \/ s.kind # "nobits" /\ OverlapsSection(s)
              \/ expanded_total + expanded_size(s) > MAX_EXPANDED_BYTES
BY DEF BadSection, BadAlone, BadFields, BadContents, BadStored

LEMMA ScanKeepsContents ==
    ASSUME LegalInv, ScanSection
    PROVE  ContentsInv'
<1> DEFINE s == Sections[index]
<1>1. TypeOK /\ ContentsInv /\ phase = "scan" /\ phase \in Loops /\ ~BadHeader
  BY DEF LegalInv, SectionInv, ScanSection, ContentsInv, Loops
<1>2. Current = s /\ index \in DOMAIN Sections /\ index \in Nat
  BY <1>1, LoopTypes
<1>3. image' = image /\ Sections' = Sections
  BY DEF ScanSection, Sections
<1>4. ScannedIndices' = ScannedIndices \cup {index} /\ ScannedIndices \subseteq DOMAIN Sections
  BY <1>1, ScanIndices, IndicesInDomain
<1>5. ~BadAlone(s) /\ (index = 1 => s.kind = "null" /\ ~(s.stored > 0))
  BY <1>2, BadSectionParts DEF ScanSection
<1>6. LegalContents(s)
  BY <1>1, <1>2, <1>5, ContentsChecked
<1>7. s.stored \in Nat
  BY <1>1, <1>2, SectionTypes
<1>8. \A k \in ScannedIndices' : LegalContents(Sections[k])'
  BY <1>1, <1>2, <1>3, <1>4, <1>6, LegalStays DEF ContentsInv
<1>9. 1 \in ScannedIndices' => Sections[1].kind = "null" /\ Sections[1].stored = 0
  BY <1>1, <1>4, <1>5, <1>7 DEF ContentsInv
<1>10. ASSUME NEW r \in ranges'
       PROVE  \E k \in ScannedIndices' :
                 /\ InFile(Sections[k])
                 /\ r = [start |-> Sections[k].offset, size |-> Sections[k].stored]
  <2>1. CASE r \in ranges
    BY <1>1, <1>4, <2>1 DEF ContentsInv
  <2>2. CASE r \notin ranges
    <3>1. InFile(s) /\ r = [start |-> s.offset, size |-> s.stored]
      BY <1>2, <2>2 DEF ScanSection, InFile
    <3> QED
      BY <1>4, <3>1
  <2> QED
    BY <2>1, <2>2
<1>11. ~BadHeader'
  BY <1>1, <1>3, LegalStays
<1> QED
  BY <1>3, <1>8, <1>9, <1>10, <1>11 DEF ContentsInv

LEMMA OtherKeepContents ==
    ASSUME LegalInv, [Next]_vars, ~ScanSection
    PROVE  ContentsInv'
<1>1. TypeOK /\ ContentsInv
  BY DEF LegalInv, SectionInv
<1>2. image' = image /\ Sections' = Sections
  BY ImageStays
<1>3. ScannedIndices \subseteq DOMAIN Sections
  BY <1>1, IndicesInDomain
<1>4. CASE phase' = "rejected"
  <2>1. ScannedIndices' = {}
    BY <1>4 DEF ScannedIndices
  <2> QED
    BY <1>4, <2>1 DEF ContentsInv, Loops
<1>5. CASE phase' # "rejected"
  <2>1. ScannedIndices' = ScannedIndices
    BY <1>1, <1>5, ScannedStay
  <2>2. phase' \in Loops \cup {"accepted"} => ~BadHeader
    BY <1>1, <1>5 DEF ContentsInv, Next, CheckHeader, ScanSection, NameSection, CheckTables,
       PlaceSection, CheckRegion, RefuseSection, Reject, vars, Loops
  <2>3. phase' \in {"header", "scan"} => phase \in {"header", "scan"} /\ ranges' = ranges
    BY <1>5 DEF Next, CheckHeader, ScanSection, NameSection, CheckTables, PlaceSection,
       CheckRegion, RefuseSection, Reject, Advance, Enter, vars
  <2>4. /\ \A k \in ScannedIndices' : LegalContents(Sections[k])'
        /\ BadHeader' <=> BadHeader
    BY <1>1, <1>2, <1>3, <2>1, LegalStays DEF ContentsInv
  <2> QED
    BY <1>1, <1>2, <2>1, <2>2, <2>3, <2>4 DEF ContentsInv
<1> QED
  BY <1>4, <1>5

\* The scan lets every section of a legal image through.
LEMMA LegalIsScanned ==
    ASSUME LegalInv, Legal, phase = "scan"
    PROVE  ~BadSection(Current)
<1> DEFINE s == Sections[index]
<1>1. TypeOK /\ ContentsInv /\ TotalInv /\ ~BadHeader
  BY DEF LegalInv, SectionInv, Legal
<1>2. /\ Current = s /\ index \in DOMAIN Sections /\ index \notin ScannedIndices
      /\ ScannedIndices \subseteq DOMAIN Sections /\ DOMAIN Sections = 1..Len(Sections)
      /\ Sections \in Seq(Headers)
  BY <1>1, ScanIsNew, LoopTypes, IndicesInDomain, SectionsSequence DEF Loops
<1>3. s.offset \in Nat /\ s.stored \in Nat /\ expanded_size(s) \in Nat
  BY <1>1, <1>2, SectionTypes
<1>4. index = 1 => s.kind = "null" /\ ~(s.stored > 0)
  BY DEF Legal
<1>5. ~BadAlone(s)
  <2>1. LegalContents(s)
    BY <1>2 DEF Legal
  <2> QED
    BY <1>1, <1>2, <2>1, ContentsChecked
<1>6. ASSUME s.kind # "nobits", OverlapsSection(s) PROVE FALSE
  <2>1. PICK r \in ranges : Overlap(s.offset, s.stored, r.start, r.size)
    BY <1>6 DEF OverlapsSection
  <2>2. PICK k \in ScannedIndices :
           /\ InFile(Sections[k])
           /\ r = [start |-> Sections[k].offset, size |-> Sections[k].stored]
    BY <1>1 DEF ContentsInv
  <2>3. k \in DOMAIN Sections /\ k # index
    BY <1>2
  <2>4. /\ Sections[k].offset \in Nat /\ Sections[k].stored \in Nat
        /\ Sections[k].stored > 0 /\ s.stored > 0
    BY <1>1, <1>6, <2>2, <2>3, SectionTypes DEF InFile, OverlapsSection
  <2>5. /\ FileBytes(s) = s.offset .. (s.offset + s.stored - 1)
        /\ FileBytes(Sections[k]) =
              Sections[k].offset .. (Sections[k].offset + Sections[k].stored - 1)
    BY <1>6, <2>2 DEF FileBytes, InFile
  <2>6. FileBytes(s) \cap FileBytes(Sections[k]) = {}
    BY <1>2, <2>3 DEF Legal
  <2>7. Overlap(s.offset, s.stored, Sections[k].offset, Sections[k].stored)
    BY <2>1, <2>2
  <2> HIDE DEF s
  <2> QED
    BY <1>3, <2>4, <2>5, <2>6, <2>7, OverlapIsMeeting
<1>7. expanded_total + expanded_size(s) <= MAX_EXPANDED_BYTES
  <2> DEFINE S == ScannedIndices \cup {index}
  <2>1. expanded_total = TotalExpanded(Sections, ScannedIndices)
    BY <1>1 DEF TotalInv
  <2>2. TotalExpanded(Sections, S) = TotalExpanded(Sections, ScannedIndices) + expanded_size(s)
    BY <1>2, Totals
  <2>3. TotalExpanded(Sections, S) <= TotalExpanded(Sections, DOMAIN Sections)
    BY <1>2, Totals
  <2>4. TotalExpanded(Sections, DOMAIN Sections) <= MAX_EXPANDED_BYTES
    BY <1>2 DEF Legal
  <2>5. /\ TotalExpanded(Sections, ScannedIndices) \in Nat
        /\ TotalExpanded(Sections, DOMAIN Sections) \in Nat
    BY <1>2, Totals
  <2> HIDE DEF s, S
  <2> QED
    BY <1>3, <2>1, <2>2, <2>3, <2>4, <2>5, ConstantTypes
<1>8. ~(expanded_total + expanded_size(s) > MAX_EXPANDED_BYTES)
  <2>1. expanded_total \in Nat
    BY <1>1, ConstantTypes DEF TypeOK
  <2> HIDE DEF s
  <2> QED
    BY <1>3, <1>7, <2>1, ConstantTypes
<1> QED
  BY <1>2, <1>4, <1>5, <1>6, <1>8, BadSectionParts

-----------------------------------------------------------------------------
(* Names.                                                                   *)

LEMMA NameKeepsNames ==
    ASSUME LegalInv, NameSection
    PROVE  NamesInv'
<1>1. TypeOK /\ NamesInv /\ phase = "names" /\ phase \in Loops
  BY DEF LegalInv, SectionInv, NameSection, Loops
<1>2. /\ Current = Sections[index] /\ index \in 1..Len(Sections) /\ Len(Sections) \in Nat
      /\ DOMAIN Sections = 1..Len(Sections)
  BY <1>1, LoopTypes
<1>3. image' = image /\ Sections' = Sections
  BY DEF NameSection, Sections
<1>4. NamedIndices' = NamedIndices \cup {index}
  <2>1. CASE index < Len(Sections)
    <3>1. phase' = "names" /\ index' = index + 1
      BY <1>1, <2>1 DEF NameSection, Advance, Sections
    <3> QED
      BY <1>1, <1>2, <3>1 DEF NamedIndices
  <2>2. CASE ~(index < Len(Sections))
    <3>1. phase' = "tables" /\ index = Len(Sections)
      BY <1>1, <1>2, <2>2 DEF NameSection, Advance, Enter, Sections
    <3> QED
      BY <1>1, <1>2, <1>3, <3>1 DEF NamedIndices
  <2> QED
    BY <2>1, <2>2
<1>5. seen_names = {Sections[k].name : k \in NamedIndices}
  BY <1>1 DEF NamesInv
<1>6. seen_names' = {Sections[k].name : k \in NamedIndices'}
  BY <1>2, <1>4, <1>5 DEF NameSection
<1>7. ~BadNameTable'
  BY <1>3, LegalStays DEF NameSection
<1>8. Sections[index].name # BadName
  BY <1>2 DEF NameSection
<1>9. \A k \in NamedIndices :
         Sections[k].name = Sections[index].name => Sections[k].name = Unnamed
  BY <1>2, <1>5 DEF NameSection
<1> QED
  BY <1>1, <1>3, <1>4, <1>6, <1>7, <1>8, <1>9 DEF NamesInv

LEMMA OtherKeepNames ==
    ASSUME LegalInv, [Next]_vars, ~NameSection
    PROVE  NamesInv'
<1>1. TypeOK /\ NamesInv
  BY DEF LegalInv, SectionInv
<1>2. image' = image /\ Sections' = Sections
  BY ImageStays
<1>3. CASE phase' = "rejected"
  <2>1. NamedIndices' = {}
    BY <1>3 DEF NamedIndices
  <2> QED
    BY <1>3, <2>1 DEF NamesInv
<1>4. CASE phase' # "rejected"
  <2>1. NamedIndices' = NamedIndices
    <3>1. CASE CheckHeader \/ ScanSection
      <4>1. /\ phase \in {"header", "scan"}
            /\ phase' = "scan" \/ (phase' = "names" /\ index' = 1)
        BY <1>4, <3>1 DEF CheckHeader, ScanSection, Advance, Enter, Reject
      <4> QED
        BY <4>1 DEF NamedIndices
    <3>2. CASE CheckTables \/ PlaceSection \/ CheckRegion
      <4>1. /\ phase \in {"tables", "addresses", "regions"}
            /\ phase' \in {"tables", "addresses", "regions", "accepted"}
        BY <1>4, <3>2 DEF CheckTables, PlaceSection, CheckRegion, Advance, Enter, Reject
      <4> QED
        BY <1>2, <4>1 DEF NamedIndices
    <3>3. CASE UNCHANGED vars
      BY <1>2, <3>3 DEF vars, NamedIndices
    <3> QED
      BY <1>4, <3>1, <3>2, <3>3 DEF Next, RefuseSection, Reject
  <2>2. phase' \in {"header", "scan", "names"} =>
           phase \in {"header", "scan", "names"} /\ seen_names' = seen_names
    BY <1>4 DEF Next, CheckHeader, ScanSection, NameSection, CheckTables, PlaceSection,
       CheckRegion, RefuseSection, Reject, Advance, Enter, vars
  <2>3. BadNameTable' <=> BadNameTable
    BY <1>2, LegalStays
  <2> QED
    BY <1>1, <1>2, <2>1, <2>2, <2>3 DEF NamesInv
<1> QED
  BY <1>3, <1>4

\* No name of a legal image is refused.
LEMMA LegalIsNamed ==
    ASSUME LegalInv, Legal, phase = "names"
    PROVE  /\ ~BadNameTable /\ Current.name # BadName
           /\ Current.name = Unnamed \/ Current.name \notin seen_names
<1>1. TypeOK /\ NamesInv /\ phase \in Loops
  BY DEF LegalInv, SectionInv, Loops
<1>2. /\ Current = Sections[index] /\ index \in 1..Len(Sections) /\ Len(Sections) \in Nat
      /\ DOMAIN Sections = 1..Len(Sections)
  BY <1>1, LoopTypes
<1>3. NamedIndices = 1..(index - 1)
  BY DEF NamedIndices
<1>4. ASSUME Current.name # Unnamed, Current.name \in seen_names PROVE FALSE
  <2>1. PICK k \in NamedIndices : Sections[k].name = Current.name
    BY <1>1, <1>4 DEF NamesInv
  <2>2. k \in 1..Len(Sections) /\ k # index
    BY <1>2, <1>3
  <2> QED
    BY <1>2, <1>4, <2>1, <2>2 DEF Legal
<1>5. ~BadNameTable
  BY DEF Legal, BadNameTable, Sections
<1> QED
  BY <1>2, <1>4, <1>5 DEF Legal

-----------------------------------------------------------------------------
(* Guest addresses.                                                         *)

LEMMA PlaceKeepsPlaces ==
    ASSUME LegalInv, PlaceSection
    PROVE  PlacesInv'
<1>1. TypeOK /\ PlacesInv /\ phase = "addresses" /\ phase \in Loops
  BY DEF LegalInv, SectionInv, PlaceSection, Loops
<1>2. Current = Sections[index]
  BY <1>1, LoopTypes
<1>3. Sections' = Sections
  BY DEF PlaceSection, Sections
<1>4. PlacedIndices' = PlacedIndices \cup {index}
  BY <1>1, PlaceIndices
<1> SUFFICES ASSUME NEW r \in virtual_ranges'
             PROVE  \E k \in PlacedIndices' :
                       /\ Occupies(Sections[k])
                       /\ r = [start |-> Sections[k].address, size |-> expanded_size(Sections[k])]
  BY <1>3 DEF PlacesInv
<1>5. CASE r \in virtual_ranges
  BY <1>1, <1>4, <1>5 DEF PlacesInv
<1>6. CASE r \notin virtual_ranges
  BY <1>2, <1>4, <1>6 DEF PlaceSection
<1> QED
  BY <1>5, <1>6

LEMMA OtherKeepPlaces ==
    ASSUME LegalInv, [Next]_vars, ~PlaceSection
    PROVE  PlacesInv'
<1>1. TypeOK /\ PlacesInv
  BY DEF LegalInv, SectionInv
<1>2. image' = image /\ Sections' = Sections
  BY ImageStays
<1> SUFFICES ASSUME phase' \in {"header", "scan", "names", "tables", "addresses"}
             PROVE  PlacesInv'
  BY DEF PlacesInv
<1>3. phase \in {"header", "scan", "names", "tables", "addresses"}
      /\ virtual_ranges' = virtual_ranges
  BY DEF Next, CheckHeader, ScanSection, NameSection, CheckTables, PlaceSection,
         CheckRegion, RefuseSection, Reject, Advance, Enter, vars
<1>4. PlacedIndices' = PlacedIndices
  <2>1. CASE phase = "addresses"
    <3>1. UNCHANGED vars
      BY <2>1 DEF Next, CheckHeader, ScanSection, NameSection, CheckTables, PlaceSection,
                  CheckRegion, RefuseSection, Reject
    <3> QED
      BY <1>2, <3>1 DEF vars, PlacedIndices
  <2>2. CASE phase # "addresses"
    <3>1. PlacedIndices = {}
      BY <1>3, <2>2 DEF PlacedIndices
    <3>2. phase' = "addresses" => index' = 1
      BY <2>2 DEF Next, CheckHeader, ScanSection, NameSection, CheckTables, PlaceSection,
                  CheckRegion, RefuseSection, Reject, Advance, Enter, vars
    <3>3. PlacedIndices' = {}
      BY <3>2 DEF PlacedIndices
    <3> QED
      BY <3>1, <3>3
  <2> QED
    BY <2>1, <2>2
<1> QED
  BY <1>1, <1>2, <1>3, <1>4 DEF PlacesInv

\* No place of a legal image is refused.
LEMMA LegalIsPlaced ==
    ASSUME LegalInv, Legal, phase = "addresses", Occupies(Current)
    PROVE  ~BadRange(Current)
<1> DEFINE s == Sections[index]
<1>1. TypeOK /\ PlacesInv /\ phase \in Loops /\ ~BadTables
  BY DEF LegalInv, SectionInv, Loops, Legal
<1>2. /\ Current = s /\ index \in DOMAIN Sections /\ index \in 1..Len(Sections)
      /\ Len(Sections) \in Nat /\ DOMAIN Sections = 1..Len(Sections)
  BY <1>1, LoopTypes
<1>3. ~BadAddress(s)
  <2>1. LegalPlace(s)
    BY <1>2 DEF Legal
  <2> QED
    BY <1>1, <1>2, <2>1, PlaceChecked
<1>4. ASSUME NEW r \in virtual_ranges, Overlap(s.address, expanded_size(s), r.start, r.size)
      PROVE  FALSE
  <2>1. PICK k \in PlacedIndices :
           /\ Occupies(Sections[k])
           /\ r = [start |-> Sections[k].address, size |-> expanded_size(Sections[k])]
    BY <1>1 DEF PlacesInv
  <2>2. k \in DOMAIN Sections /\ k # index
    BY <1>2 DEF PlacedIndices
  <2>3. /\ s.address \in Nat /\ expanded_size(s) \in Nat /\ expanded_size(s) > 0
        /\ Sections[k].address \in Nat
        /\ expanded_size(Sections[k]) \in Nat /\ expanded_size(Sections[k]) > 0
    BY <1>1, <1>2, <2>1, <2>2, SectionTypes DEF Occupies
  <2>4. /\ GuestBytes(s) = s.address .. (s.address + expanded_size(s) - 1)
        /\ GuestBytes(Sections[k]) =
              Sections[k].address .. (Sections[k].address + expanded_size(Sections[k]) - 1)
    BY <1>1, <1>2, <2>1, <2>2, GuestBytesOf
  <2>5. GuestBytes(s) \cap GuestBytes(Sections[k]) = {}
    BY <1>2, <2>2 DEF Legal
  <2>6. Overlap(s.address, expanded_size(s), Sections[k].address, expanded_size(Sections[k]))
    BY <1>4, <2>1
  <2> HIDE DEF s
  <2> QED
    BY <2>3, <2>4, <2>5, <2>6, OverlapIsMeeting
<1> QED
  BY <1>2, <1>3, <1>4 DEF BadRange

LEMMA LegalIsInRegion ==
    ASSUME LegalInv, Legal, phase = "regions", Occupies(Current)
    PROVE  ~ExceedsRegion(Current)
<1>1. TypeOK /\ phase \in Loops /\ ~BadTables
  BY DEF LegalInv, SectionInv, Loops, Legal
<1>2. /\ Current = Sections[index] /\ index \in DOMAIN Sections
      /\ DOMAIN Sections = 1..Len(Sections)
  BY <1>1, LoopTypes
<1>3. LegalPlace(Sections[index])
  BY <1>2 DEF Legal
<1> QED
  BY <1>1, <1>2, <1>3, PlaceChecked

-----------------------------------------------------------------------------
(* Both directions.                                                         *)

LEMMA AcceptedIsLegal ==
    ASSUME LegalInv, phase = "accepted"
    PROVE  Legal
<1>1. TypeOK /\ SectionInv /\ ContentsInv /\ NamesInv /\ TotalInv /\ ~BadHeader
  BY DEF LegalInv, SectionInv, ContentsInv
<1>2. /\ ScannedIndices = DOMAIN Sections /\ PlacedIndices = DOMAIN Sections
      /\ NamedIndices = DOMAIN Sections /\ RegionIndices = DOMAIN Sections
  BY DEF ScannedIndices, PlacedIndices, NamedIndices, RegionIndices
<1>3. /\ DOMAIN Sections = 1..Len(Sections) /\ Len(Sections) \in Nat /\ Len(Sections) > 2
  BY <1>1, LoopTypes
<1>4. 1 \in DOMAIN Sections
  BY <1>3
<1>5. Sections[1].kind = "null" /\ Sections[1].stored = 0
      /\ \A k \in DOMAIN Sections : LegalContents(Sections[k])
  BY <1>1, <1>2, <1>4 DEF ContentsInv
<1>6. ~BadTables /\ GuestInv /\ RegionInv
  BY <1>1 DEF SectionInv, RegionInv
<1>7. ASSUME NEW k \in DOMAIN Sections PROVE LegalPlace(Sections[k])
  <2>1. Occupies(Sections[k]) => ~BadAddress(Sections[k]) /\ ~ExceedsRegion(Sections[k])
    BY <1>2, <1>6 DEF GuestInv, RegionInv
  <2> QED
    BY <1>1, <1>6, <2>1, PlaceChecked
<1>8. \A j, k \in DOMAIN Sections : j # k =>
         /\ FileBytes(Sections[j]) \cap FileBytes(Sections[k]) = {}
         /\ GuestBytes(Sections[j]) \cap GuestBytes(Sections[k]) = {}
         /\ Sections[j].name = Sections[k].name => Sections[j].name = Unnamed
  BY <1>1, <1>2, FileDisjoint, GuestDisjoint DEF FileBytesDisjoint, GuestBytesDisjoint, NamesInv
<1>9. TotalExpanded(Sections, DOMAIN Sections) <= MAX_EXPANDED_BYTES
  BY <1>1, <1>2, ConstantTypes DEF TotalInv, TypeOK
<1>10. ~BadNameTable /\ \A k \in DOMAIN Sections : Sections[k].name # BadName
  BY <1>1, <1>2, <1>4 DEF NamesInv
<1>11. /\ Sections[image.name_index].kind = "strtab"
       /\ expanded_size(Sections[image.name_index]) > 0
       /\ Sections[image.name_index].terminated
  <2>1. image.name_index \in DOMAIN Sections
    <3>1. image.name_index \in Nat \ {0}
      BY <1>1 DEF TypeOK, ImageRecords
    <3>2. ~(image.name_index > Len(Sections))
      BY <1>1 DEF BadHeader, Sections
    <3> QED
      BY <1>3, <3>1, <3>2
  <2>2. expanded_size(Sections[image.name_index]) \in Nat
    BY <1>1, <2>1, SectionTypes
  <2>3. /\ Sections[image.name_index].kind = "strtab"
        /\ expanded_size(Sections[image.name_index]) # 0
        /\ Sections[image.name_index].terminated
    BY <1>10 DEF BadNameTable, Sections
  <2> QED
    BY <2>2, <2>3
<1> QED
  BY <1>1, <1>3, <1>5, <1>6, <1>7, <1>8, <1>9, <1>10, <1>11 DEF Legal

\* A step that rejects has found what no legal image has.
LEMMA RejectedIsIllegal ==
    ASSUME LegalInv, Next, phase' = "rejected", phase # "rejected"
    PROVE  ~Legal
<1>1. CASE CheckHeader
  BY <1>1 DEF CheckHeader, Enter, Legal
<1>2. CASE CheckTables
  BY <1>2 DEF CheckTables, Enter, Legal
<1>3. CASE RefuseSection
  BY <1>3, LegalIsScanned, LegalIsNamed, LegalIsPlaced, LegalIsInRegion DEF RefuseSection
<1>4. CASE ScanSection \/ NameSection \/ PlaceSection \/ CheckRegion
  BY <1>4 DEF ScanSection, NameSection, PlaceSection, CheckRegion, Advance, Enter
<1> QED
  BY <1>1, <1>2, <1>3, <1>4 DEF Next

ExactInv == LegalInv /\ AcceptsExactly

LEMMA ExactInit == Init => ExactInv
BY LegalInit DEF Init, ExactInv, AcceptsExactly

LEMMA ExactStep == ExactInv /\ [Next]_vars => ExactInv'
<1> SUFFICES ASSUME ExactInv, [Next]_vars PROVE ExactInv'
  OBVIOUS
<1>1. LegalInv /\ TypeOK
  BY DEF ExactInv, LegalInv, SectionInv
<1>2. LegalInv'
  <2>1. SectionInv' /\ TotalInv'
    BY <1>1, InvStep, TotalStep DEF LegalInv
  <2>2. ContentsInv' /\ NamesInv' /\ PlacesInv'
    BY <1>1, ScanKeepsContents, OtherKeepContents, NameKeepsNames, OtherKeepNames,
       PlaceKeepsPlaces, OtherKeepPlaces
  <2> QED
    BY <2>1, <2>2 DEF LegalInv
<1>3. Legal' <=> Legal
  BY ImageStays, LegalStays
<1>4. phase' = "accepted" => Legal'
  <2>1. (LegalInv /\ phase = "accepted" => Legal)'
    BY AcceptedIsLegal, PTL
  <2> QED
    BY <1>2, <2>1
<1>5. phase' = "rejected" => ~Legal'
  <2>1. CASE phase = "rejected"
    BY <1>3, <2>1 DEF ExactInv, AcceptsExactly
  <2>2. CASE phase # "rejected"
    BY <1>1, <1>3, <2>2, RejectedIsIllegal DEF vars
  <2> QED
    BY <2>1, <2>2
<1> QED
  BY <1>2, <1>4, <1>5 DEF ExactInv, AcceptsExactly

\* The loops over the section table accept exactly the images that are legal
\* as a whole: no order of the sections hides an overlap, a name used twice or a
\* total beyond the limit, and no legal image of any size is refused.
THEOREM SectionsAcceptExactly == Spec => []AcceptsExactly
<1>1. ExactInv => AcceptsExactly
  BY DEF ExactInv
<1> QED
  BY <1>1, ExactInit, ExactStep, PTL DEF Spec
=============================================================================
