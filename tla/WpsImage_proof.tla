--------------------------- MODULE WpsImage_proof ---------------------------
(***************************************************************************)
(* Proofs about WpsImage for every image and all of its tables.  The        *)
(* section checks are those of WpsSections: an execution of WpsImage is one *)
(* of WpsSections in which the tables are read after the sections, so what  *)
(* WpsSections_proof shows holds here, and the tables build on it.          *)
(***************************************************************************)
EXTENDS WpsImage, WpsSections_proof, FiniteSetTheorems, WellFoundedInduction

\* The image never changes, and sections that were accepted are done with.
LEMMA SectionsFrozen == Next => image' = image /\ phase # "accepted"
BY DEF Next, CheckHeader, ScanSection, NameSection, CheckTables, PlaceSection, CheckRegion,
       RefuseSection, Reject

LEMMA TableStepKeepsSections == TableStep => UNCHANGED <<vars, tables, metadata_ok>>
BY DEF TableStep, CheckMetadata, OpenLoad, OpenSymbols, OpenRelocations, OpenExports, Accept,
       ReadHook, ReadReplacement, ReadSymbol, ReadRelocation, ReadExport, RefuseRow,
       RejectImage, EnterTable, SkipTo, NextRow, Unmoved

LEMMA StepProjects == [ImageNext]_image_vars => [Next]_vars
BY TableStepKeepsSections DEF ImageNext, SectionStep, image_vars

LEMMA InitProjects == ImageInit => Init
BY DEF ImageInit

\* The section checks inside WpsImage are WpsSections.
THEOREM ImplementsSections == ImageSpec => Spec
BY InitProjects, StepProjects, PTL DEF ImageSpec, Spec

LEMMA SectionsInvariant == ImageSpec => []SectionInv
BY ImplementsSections, Invariance, PTL

-----------------------------------------------------------------------------
(* Type correctness.                                                        *)

\* the table a stage is in has the rows the stage reads
StageInv ==
    /\ stage \in {"metadata", "hooks", "symbols"} => (table = 0 <=> stage = "metadata")
    /\ stage = "hooks" => Sections[table].kind = "progbits" /\ Sections[table].name = hooks_name
    /\ stage = "load" /\ table # 0 =>
          Sections[table].kind = "progbits" /\ Sections[table].name = load_name
    /\ stage = "symbols" => Sections[table].kind \in {"symtab", "dynsym"}
    /\ stage = "relocations" /\ table # 0 =>
          Sections[table].kind = "relocs" /\ tables[table].info \in DOMAIN Sections
    /\ stage = "exports" /\ table # 0 => Sections[table].kind = "exports"

ImageInv == ImageTypeOK /\ StageInv

LEMMA RowsAre ==
    ASSUME NEW s
    PROVE  /\ s.kind = "progbits" /\ s.name = hooks_name => RowsIn(s) = Hooks
           /\ s.kind = "progbits" /\ s.name = load_name => RowsIn(s) = Replacements
           /\ s.kind \in {"symtab", "dynsym"} => RowsIn(s) = SymbolRows
           /\ s.kind = "relocs" => RowsIn(s) = Relocations
           /\ s.kind = "exports" => RowsIn(s) = Exports
BY ContentsAssumption DEF RowsIn

\* The row a stage is at.
LEMMA HereType ==
    ASSUME ImageTypeOK, NEW s, InRow(s)
    PROVE  /\ table \in DOMAIN Sections
           /\ Here \in RowsIn(Sections[table])
           /\ Rows = tables[table].rows
           /\ row + 1 \in 1..(Len(Rows) + 1)
<1>1. table # 0
  BY DEF InRow, Rows
<1>2. table \in DOMAIN Sections /\ Rows = tables[table].rows
  BY <1>1 DEF ImageTypeOK, Rows
<1>3. Rows \in Seq(RowsIn(Sections[table]))
  BY <1>2 DEF ImageTypeOK, Tables
<1>4. row \in 1..Len(Rows) /\ Len(Rows) \in Nat
  BY <1>3 DEF InRow
<1> QED
  BY <1>2, <1>3, <1>4 DEF Here

\* Moving the cursor.
LEMMA NextRowKeepsType ==
    ASSUME ImageTypeOK, NEW s, InRow(s), NextRow
    PROVE  /\ table' \in {0} \cup DOMAIN Sections /\ row' \in 1..(Len(Rows') + 1)
           /\ stage' = stage /\ table' = table /\ tables' = tables
           /\ Sections' = Sections /\ phase' = phase /\ metadata_ok' = metadata_ok
           /\ UNCHANGED vars
<1>1. row' = row + 1 /\ UNCHANGED <<vars, tables, metadata_ok, stage, table>>
  BY DEF NextRow
<1>2. Rows' = Rows
  BY <1>1 DEF Rows
<1>3. row + 1 \in 1..(Len(Rows) + 1) /\ table \in DOMAIN Sections
  BY HereType
<1> QED
  BY <1>1, <1>2, <1>3 DEF Sections, vars

\* Everything but the cursor stays.
LEMMA UnmovedKeepsType ==
    ASSUME ImageTypeOK, Unmoved, stage' \in Stages \ {"metadata"}, phase = "accepted",
           table' \in {0} \cup DOMAIN Sections, row' \in 1..(Len(Rows') + 1)
    PROVE  ImageTypeOK'
<1>1. UNCHANGED vars /\ UNCHANGED <<tables, metadata_ok, found>>
  BY DEF Unmoved
<1>2. TypeOK' /\ Sections' = Sections /\ phase' = phase
  BY <1>1, TypeStep DEF ImageTypeOK, Sections, vars
<1> QED
  BY <1>1, <1>2 DEF ImageTypeOK, found

LEMMA EnterKeepsInv ==
    ASSUME ImageInv, phase = "accepted", NEW next \in Stages \ {"metadata"},
           NEW k \in DOMAIN Sections, NEW bad, ~bad, EnterTable(next, k, bad)
    PROVE  /\ ImageTypeOK' /\ stage' = next /\ table' = k
           /\ Sections' = Sections /\ tables' = tables
<1>1. stage' = next /\ table' = k /\ row' = 1 /\ Unmoved
  BY DEF EnterTable
<1>2. tables' = tables /\ Sections' = Sections
  BY <1>1 DEF Unmoved, vars, Sections
<1>3. tables[k].rows \in Seq(RowsIn(Sections[k]))
  BY DEF ImageInv, ImageTypeOK, Tables
<1>4. Len(Rows') \in Nat
  BY <1>1, <1>2, <1>3 DEF Rows
<1>5. row' \in 1..(Len(Rows') + 1)
  BY <1>1, <1>4
<1> QED
  BY <1>1, <1>2, <1>5, UnmovedKeepsType DEF ImageInv

LEMMA SkipKeepsInv ==
    ASSUME ImageInv, phase = "accepted", NEW next \in {"load", "relocations", "exports"},
           SkipTo(next)
    PROVE  ImageInv'
<1>1. stage' = next /\ table' = 0 /\ row' = 1 /\ Unmoved
  BY DEF SkipTo
<1>2. Rows' = <<>>
  BY <1>1 DEF Rows
<1>3. row' \in 1..(Len(Rows') + 1)
  BY <1>1, <1>2
<1>4. ImageTypeOK'
  BY <1>1, <1>3, UnmovedKeepsType DEF ImageInv, Stages
<1> QED
  BY <1>1, <1>4 DEF ImageInv, StageInv

LEMMA RejectKeepsInv ==
    ASSUME ImageInv, phase = "accepted", RejectImage
    PROVE  ImageInv'
<1>1. stage' = "rejected" /\ Unmoved /\ table' = table /\ row' = row
  BY DEF RejectImage
<1>2. Rows' = Rows
  BY <1>1 DEF Rows, Unmoved
<1>3. table' \in {0} \cup DOMAIN Sections /\ row' \in 1..(Len(Rows') + 1)
  BY <1>1, <1>2 DEF ImageInv, ImageTypeOK
<1>4. ImageTypeOK'
  BY <1>1, <1>3, UnmovedKeepsType DEF ImageInv, Stages
<1> QED
  BY <1>1, <1>4 DEF ImageInv, StageInv

NatOrder == {r \in Nat \X Nat : r[1] < r[2]}

\* Every nonempty set of naturals has a smallest element.
LEMMA SmallestElement ==
    ASSUME NEW S \in SUBSET Nat, S # {}
    PROVE  \E x \in S : \A y \in S : x <= y
<1>1. OpToRel(<, Nat) = NatOrder
  BY DEF OpToRel, NatOrder
<1>2. IsWellFoundedOn(NatOrder, Nat)
  BY <1>1, NatLessThanWellFounded
<1>3. \E x \in S : \A y \in S : <<y, x>> \notin NatOrder
  BY <1>2, WFMin
<1>4. PICK x \in S : \A y \in S : <<y, x>> \notin NatOrder
  BY <1>3
<1>5. ASSUME NEW y \in S
      PROVE  x <= y
  <2>1. <<y, x>> \notin {r \in Nat \X Nat : r[1] < r[2]}
    BY <1>4 DEF NatOrder
  <2>2. ~(y < x) /\ x \in Nat /\ y \in Nat
    BY <2>1
  <2> QED
    BY <2>2
<1> QED
  BY <1>5

\* The loop over the tables of a kind goes to the first one that is left.
LEMMA FirstAfter ==
    ASSUME ImageTypeOK, NEW kind, After(kind) # {}
    PROVE  /\ Min(After(kind)) \in After(kind)
           /\ \A n \in After(kind) : Min(After(kind)) <= n
<1>1. After(kind) \subseteq DOMAIN Sections
  BY DEF After, OfKind, Sections
<1>2. Sections \in Seq(Headers)
  BY DEF ImageTypeOK, TypeOK, ImageRecords, Sections
<1>3. DOMAIN Sections = 1..Len(Sections) /\ Len(Sections) \in Nat
  BY <1>2
<1>4. PICK first \in After(kind) : \A n \in After(kind) : first <= n
  <2>1. After(kind) \in SUBSET Nat
    BY <1>1, <1>3
  <2> QED
    BY <2>1, SmallestElement
<1>5. \E m \in After(kind) : \A n \in After(kind) : m =< n
  BY <1>4
<1> QED
  BY <1>5 DEF Min

LEMMA SectionsFromOne == ImageTypeOK => 0 \notin DOMAIN Sections
<1> SUFFICES ASSUME ImageTypeOK PROVE 0 \notin DOMAIN Sections
  OBVIOUS
<1>1. Sections \in Seq(Headers)
  BY DEF ImageTypeOK, TypeOK, ImageRecords, Sections
<1> QED
  BY <1>1

\* Each stage opens a table of its own kind.
LEMMA OpenKeepsInv ==
    ASSUME ImageInv, stage # "metadata" => phase = "accepted",
           CheckMetadata \/ OpenLoad \/ OpenSymbols \/ OpenRelocations \/ OpenExports
    PROVE  ImageInv'
<1>1. phase = "accepted"
  BY DEF CheckMetadata, OpenLoad, OpenSymbols, OpenRelocations, OpenExports, RowsDone
<1>2. CASE CheckMetadata
  <2> DEFINE k == CHOOSE k \in Named(hooks_name) : TRUE
  <2>1. CASE RejectImage
    BY <1>1, <2>1, RejectKeepsInv
  <2>2. CASE Named(hooks_name) # {} /\ EnterTable("hooks", k, BadHooks(k)) /\ ~BadHooks(k)
    <3>1. k \in DOMAIN Sections /\ Sections[k].name = hooks_name
      BY <2>2 DEF Named, Sections
    <3>2. Sections[k].kind = "progbits"
      BY <2>2 DEF BadHooks, Sections
    <3> HIDE DEF k
    <3>3. ImageTypeOK' /\ stage' = "hooks" /\ table' = k /\ Sections' = Sections
      BY <1>1, <2>2, <3>1, EnterKeepsInv DEF Stages
    <3>4. table' # 0
      BY <3>1, <3>3, SectionsFromOne DEF ImageInv
    <3> QED
      BY <3>1, <3>2, <3>3, <3>4 DEF ImageInv, StageInv
  <2> QED
    BY <1>2, <2>1, <2>2 DEF CheckMetadata, EnterTable
<1>3. CASE OpenLoad
  <2> DEFINE k == CHOOSE k \in Named(load_name) : TRUE
  <2>1. CASE RejectImage
    BY <1>1, <2>1, RejectKeepsInv
  <2>2. CASE SkipTo("load")
    BY <1>1, <2>2, SkipKeepsInv
  <2>3. CASE Named(load_name) # {} /\ EnterTable("load", k, BadLoad(k)) /\ ~BadLoad(k)
    <3>1. k \in DOMAIN Sections /\ Sections[k].name = load_name
      BY <2>3 DEF Named, Sections
    <3>2. Sections[k].kind = "progbits"
      BY <2>3 DEF BadLoad, Sections
    <3> HIDE DEF k
    <3>3. ImageTypeOK' /\ stage' = "load" /\ table' = k /\ Sections' = Sections
      BY <1>1, <2>3, <3>1, EnterKeepsInv DEF Stages
    <3> QED
      BY <3>1, <3>2, <3>3 DEF ImageInv, StageInv
  <2> QED
    BY <1>3, <2>1, <2>2, <2>3 DEF OpenLoad, EnterTable
<1>4. CASE OpenSymbols
  <2> DEFINE k == SymbolTable
  <2>1. CASE RejectImage
    BY <1>1, <2>1, RejectKeepsInv
  <2>2. CASE /\ Cardinality(SymbolTables) = 1
             /\ EnterTable("symbols", k, BadSymbols(k)) /\ ~BadSymbols(k)
    <3>1. SymbolTables # {}
      BY <2>2, FS_EmptySet
    <3>2. k \in DOMAIN Sections /\ Sections[k].kind \in {"symtab", "dynsym"}
      BY <3>1 DEF SymbolTable, SymbolTables, OfKind, Sections
    <3> HIDE DEF k
    <3>3. ImageTypeOK' /\ stage' = "symbols" /\ table' = k /\ Sections' = Sections
      BY <1>1, <2>2, <3>2, EnterKeepsInv DEF Stages
    <3>4. table' # 0
      BY <3>2, <3>3, SectionsFromOne DEF ImageInv
    <3> QED
      BY <3>2, <3>3, <3>4 DEF ImageInv, StageInv
  <2> QED
    BY <1>4, <2>1, <2>2 DEF OpenSymbols, EnterTable
<1>5. CASE OpenRelocations
  <2> DEFINE k == Min(After("relocs"))
  <2>1. CASE RejectImage
    BY <1>1, <2>1, RejectKeepsInv
  <2>2. CASE SkipTo("relocations")
    BY <1>1, <2>2, SkipKeepsInv
  <2>3. CASE /\ After("relocs") # {}
             /\ EnterTable("relocations", k, BadRelocations(k)) /\ ~BadRelocations(k)
    <3>1. k \in After("relocs")
      BY <2>3, FirstAfter DEF ImageInv
    <3>2. k \in DOMAIN Sections /\ Sections[k].kind = "relocs"
      BY <3>1 DEF After, OfKind, Sections
    <3>3. tables[k].info \in DOMAIN Sections
      BY <2>3 DEF BadRelocations, Sections
    <3> HIDE DEF k
    <3>4. /\ ImageTypeOK' /\ stage' = "relocations" /\ table' = k
          /\ Sections' = Sections /\ tables' = tables
      BY <1>1, <2>3, <3>2, EnterKeepsInv DEF Stages
    <3> QED
      BY <3>2, <3>3, <3>4 DEF ImageInv, StageInv
  <2> QED
    BY <1>5, <2>1, <2>2, <2>3 DEF OpenRelocations, EnterTable
<1>6. CASE OpenExports
  <2> DEFINE k == Min(After("exports"))
  <2>1. CASE RejectImage
    BY <1>1, <2>1, RejectKeepsInv
  <2>2. CASE SkipTo("exports")
    BY <1>1, <2>2, SkipKeepsInv
  <2>3. CASE /\ After("exports") # {}
             /\ EnterTable("exports", k, BadExports(k)) /\ ~BadExports(k)
    <3>1. k \in After("exports")
      BY <2>3, FirstAfter DEF ImageInv
    <3>2. k \in DOMAIN Sections /\ Sections[k].kind = "exports"
      BY <3>1 DEF After, OfKind, Sections
    <3> HIDE DEF k
    <3>3. ImageTypeOK' /\ stage' = "exports" /\ table' = k /\ Sections' = Sections
      BY <1>1, <2>3, <3>2, EnterKeepsInv DEF Stages
    <3> QED
      BY <3>2, <3>3 DEF ImageInv, StageInv
  <2> QED
    BY <1>6, <2>1, <2>2, <2>3 DEF OpenExports, EnterTable
<1> QED
  BY <1>2, <1>3, <1>4, <1>5, <1>6

LEMMA AcceptKeepsInv == ImageInv /\ Accept => ImageInv'
<1> SUFFICES ASSUME ImageInv, Accept PROVE ImageInv'
  OBVIOUS
<1>1. stage' = "accepted" /\ Unmoved /\ table' = table /\ row' = row /\ stage = "exports"
  BY DEF Accept, RowsDone
<1>2. Rows' = Rows /\ phase = "accepted"
  BY <1>1 DEF Rows, Unmoved, ImageInv, ImageTypeOK
<1>3. table' \in {0} \cup DOMAIN Sections /\ row' \in 1..(Len(Rows') + 1)
  BY <1>1, <1>2 DEF ImageInv, ImageTypeOK
<1>4. ImageTypeOK'
  BY <1>1, <1>2, <1>3, UnmovedKeepsType DEF ImageInv, Stages
<1> QED
  BY <1>1, <1>4 DEF ImageInv, StageInv

\* A row that is read adds a record of its type.
LEMMA ReadKeepsInv ==
    ASSUME ImageInv, NEW s, InRow(s), NextRow, s \in Stages \ {"metadata"},
           hooks' \subseteq Hooks, replacements' \subseteq Replacements,
           imports' \subseteq [section: Nat, name: Symbols, value: Nat, function: BOOLEAN],
           relocations' \subseteq [section: DOMAIN Sections, target: Nat, width: {0, 2, 4}],
           exports' \subseteq [name: Symbols, address: Nat, function: BOOLEAN]
    PROVE  ImageInv'
<1>1. /\ table' \in {0} \cup DOMAIN Sections /\ row' \in 1..(Len(Rows') + 1)
      /\ stage' = stage /\ table' = table /\ tables' = tables
      /\ Sections' = Sections /\ phase' = phase /\ metadata_ok' = metadata_ok
      /\ UNCHANGED vars
  BY NextRowKeepsType DEF ImageInv
<1>2. TypeOK'
  BY <1>1, TypeStep DEF ImageInv, ImageTypeOK
<1>3. ImageTypeOK'
  BY <1>1, <1>2 DEF ImageInv, ImageTypeOK
<1>4. StageInv'
  BY <1>1 DEF ImageInv, StageInv
<1> QED
  BY <1>3, <1>4 DEF ImageInv

LEMMA ReadHookKeepsInv == ImageInv /\ ReadHook => ImageInv'
<1> SUFFICES ASSUME ImageInv, ReadHook PROVE ImageInv'
  OBVIOUS
<1>1. InRow("hooks") /\ NextRow /\ hooks' = hooks \cup {Here}
      /\ UNCHANGED <<replacements, imports, relocations, exports>>
  BY DEF ReadHook
<1>2. Here \in Hooks
  BY <1>1, HereType, RowsAre DEF InRow, ImageInv, StageInv
<1>3. hooks' \subseteq Hooks
  BY <1>1, <1>2 DEF ImageInv, ImageTypeOK
<1> QED
  BY <1>1, <1>3, ReadKeepsInv DEF ImageInv, ImageTypeOK, Stages

LEMMA ReadReplacementKeepsInv == ImageInv /\ ReadReplacement => ImageInv'
<1> SUFFICES ASSUME ImageInv, ReadReplacement PROVE ImageInv'
  OBVIOUS
<1>1. InRow("load") /\ NextRow /\ replacements' = replacements \cup {Here}
      /\ UNCHANGED <<hooks, imports, relocations, exports>>
  BY DEF ReadReplacement
<1>2. Here \in Replacements
  BY <1>1, HereType, RowsAre DEF InRow, ImageInv, StageInv, Rows
<1>3. replacements' \subseteq Replacements
  BY <1>1, <1>2 DEF ImageInv, ImageTypeOK
<1> QED
  BY <1>1, <1>3, ReadKeepsInv DEF ImageInv, ImageTypeOK, Stages

LEMMA ReadSymbolKeepsInv == ImageInv /\ ReadSymbol => ImageInv'
<1> SUFFICES ASSUME ImageInv, ReadSymbol PROVE ImageInv'
  OBVIOUS
<1>1. /\ InRow("symbols") /\ NextRow /\ ~BadSymbol(Here)
      /\ imports' = IF IsImport(Here) THEN imports \cup {Import(Here)} ELSE imports
      /\ UNCHANGED <<hooks, replacements, relocations, exports>>
  BY DEF ReadSymbol
<1>2. Here \in SymbolRows
  BY <1>1, HereType, RowsAre DEF InRow, ImageInv, StageInv
<1>3. IsImport(Here) => Here.name \in Symbols
  BY <1>1, <1>2 DEF BadSymbol, BadImport, SymbolRows
<1>4. IsImport(Here) =>
         Import(Here) \in [section: Nat, name: Symbols, value: Nat, function: BOOLEAN]
  BY <1>2, <1>3 DEF Import, SymbolRows
<1>5. imports' \subseteq [section: Nat, name: Symbols, value: Nat, function: BOOLEAN]
  BY <1>1, <1>4 DEF ImageInv, ImageTypeOK
<1> QED
  BY <1>1, <1>5, ReadKeepsInv DEF ImageInv, ImageTypeOK, Stages

LEMMA ReadRelocationKeepsInv == ImageInv /\ ReadRelocation => ImageInv'
<1> SUFFICES ASSUME ImageInv, ReadRelocation PROVE ImageInv'
  OBVIOUS
<1>1. /\ InRow("relocations") /\ NextRow /\ ~BadRelocation(Here)
      /\ relocations' = relocations \cup {Relocation(Here)}
      /\ UNCHANGED <<hooks, replacements, imports, exports>>
  BY DEF ReadRelocation
<1>2. table \in DOMAIN Sections /\ table # 0
  BY <1>1, HereType DEF ImageInv, InRow, Rows
<1>3. Here \in Relocations /\ tables[table].info \in DOMAIN Sections
  BY <1>1, <1>2, HereType, RowsAre DEF InRow, ImageInv, StageInv
<1>4. Here.target \in Nat /\ Here.width \in {0, 2, 4}
  BY <1>1, <1>3 DEF BadRelocation, Relocations
<1>5. Relocation(Here) \in [section: DOMAIN Sections, target: Nat, width: {0, 2, 4}]
  BY <1>3, <1>4 DEF Relocation
<1>6. relocations' \subseteq [section: DOMAIN Sections, target: Nat, width: {0, 2, 4}]
  BY <1>1, <1>5 DEF ImageInv, ImageTypeOK
<1> QED
  BY <1>1, <1>6, ReadKeepsInv DEF ImageInv, ImageTypeOK, Stages

LEMMA ReadExportKeepsInv == ImageInv /\ ReadExport => ImageInv'
<1> SUFFICES ASSUME ImageInv, ReadExport PROVE ImageInv'
  OBVIOUS
<1>1. /\ InRow("exports") /\ NextRow /\ ~BadExport(Here)
      /\ exports' = exports \cup {ExportOf(Here)}
      /\ UNCHANGED <<hooks, replacements, imports, relocations>>
  BY DEF ReadExport
<1>2. table # 0
  BY <1>1 DEF InRow, Rows
<1>3. Here \in Exports
  BY <1>1, <1>2, HereType, RowsAre DEF InRow, ImageInv, StageInv
<1>4. ExportOf(Here) \in [name: Symbols, address: Nat, function: BOOLEAN]
  BY <1>1, <1>3 DEF BadExport, ExportOf, Exports
<1>5. exports' \subseteq [name: Symbols, address: Nat, function: BOOLEAN]
  BY <1>1, <1>4 DEF ImageInv, ImageTypeOK
<1> QED
  BY <1>1, <1>5, ReadKeepsInv DEF ImageInv, ImageTypeOK, Stages

LEMMA ImageInvInit == ImageInit => ImageInv
<1> SUFFICES ASSUME ImageInit PROVE ImageInv
  OBVIOUS
<1>1. TypeOK
  BY TypeInit DEF ImageInit
<1>2. image \in Images /\ tables \in Contents[image]
  BY DEF ImageInit, Init
<1>3. DOMAIN tables = DOMAIN Sections /\ \A k \in DOMAIN tables : tables[k] \in Tables(Sections[k])
  BY <1>2, ContentsAssumption DEF Sections
<1>4. Rows = <<>> /\ row = 1 /\ table = 0
  BY DEF ImageInit, Rows
<1>5. row \in 1..(Len(Rows) + 1)
  BY <1>4
<1> QED
  BY <1>1, <1>3, <1>4, <1>5 DEF ImageInit, ImageInv, ImageTypeOK, StageInv, Stages

LEMMA SectionStepKeepsInv ==
    ASSUME ImageInv, SectionStep
    PROVE  ImageInv'
<1>1. Next /\ UNCHANGED <<tables, metadata_ok, stage, table, row, found>>
  BY DEF SectionStep
<1>2. image' = image /\ phase # "accepted"
  BY <1>1, SectionsFrozen
<1>3. TypeOK' /\ Sections' = Sections
  BY <1>1, <1>2, TypeStep DEF ImageInv, ImageTypeOK, Sections
<1>4. stage = "metadata" /\ Rows' = Rows
  BY <1>1, <1>2 DEF ImageInv, ImageTypeOK, Rows
<1> QED
  BY <1>1, <1>3, <1>4 DEF ImageInv, ImageTypeOK, StageInv, found

LEMMA ImageInvStep == ImageInv /\ [ImageNext]_image_vars => ImageInv'
<1> SUFFICES ASSUME ImageInv, [ImageNext]_image_vars PROVE ImageInv'
  OBVIOUS
<1>1. stage # "metadata" => phase = "accepted"
  BY DEF ImageInv, ImageTypeOK
<1>2. CASE SectionStep
  BY <1>2, SectionStepKeepsInv
<1>3. CASE CheckMetadata \/ OpenLoad \/ OpenSymbols \/ OpenRelocations \/ OpenExports
  BY <1>1, <1>3, OpenKeepsInv
<1>4. CASE RefuseRow
  BY <1>1, <1>4, RejectKeepsInv DEF RefuseRow, InRow
<1>5. CASE UNCHANGED image_vars
  <2>1. /\ UNCHANGED <<vars, tables, metadata_ok, stage, table, row>>
        /\ UNCHANGED <<hooks, replacements, imports, relocations, exports>>
    BY <1>5 DEF image_vars, found
  <2>2. TypeOK' /\ Sections' = Sections /\ Rows' = Rows /\ phase' = phase
    BY <2>1, TypeStep DEF ImageInv, ImageTypeOK, Sections, Rows, vars
  <2> QED
    BY <2>1, <2>2 DEF ImageInv, ImageTypeOK, StageInv
<1> QED
  BY <1>2, <1>3, <1>4, <1>5, AcceptKeepsInv, ReadHookKeepsInv, ReadReplacementKeepsInv,
     ReadSymbolKeepsInv, ReadRelocationKeepsInv, ReadExportKeepsInv DEF ImageNext, TableStep

LEMMA ImageInvariance == ImageSpec => []ImageInv
BY ImageInvInit, ImageInvStep, PTL DEF ImageSpec

\* Type correctness, for every image and all of its tables.
THEOREM ImageTypeCorrect == ImageSpec => []ImageTypeOK
<1>1. ImageInv => ImageTypeOK
  BY DEF ImageInv
<1> QED
  BY <1>1, ImageInvariance, PTL

-----------------------------------------------------------------------------
(* Code and storage.                                                        *)

\* The scan lets no section through that is both writable and executable.
WriteOrExec == \A k \in ScannedIndices : ~({"write", "exec"} \subseteq Sections[k].flags)

LEMMA WriteOrExecStep == TypeOK /\ WriteOrExec /\ [Next]_vars => WriteOrExec'
<1> SUFFICES ASSUME TypeOK, WriteOrExec, [Next]_vars PROVE WriteOrExec'
  OBVIOUS
<1>1. Sections' = Sections
  BY SectionsFrozen DEF vars, Sections
<1>2. CASE ScanSection
  <2>1. ScannedIndices' = ScannedIndices \cup {index}
    BY <1>2, ScanIndices
  <2>2. Current = Sections[index]
    BY DEF Current, Sections
  <2>3. ~({"write", "exec"} \subseteq Sections[index].flags)
    BY <1>2, <2>2 DEF ScanSection, BadSection, BadFields
  <2> QED
    BY <1>1, <2>1, <2>3 DEF WriteOrExec
<1>3. CASE ~ScanSection
  <2>1. ScannedIndices' \subseteq ScannedIndices
    BY <1>3, PlaceIndices, RegionStepIndices, OtherIndices DEF Next
  <2> QED
    BY <1>1, <2>1 DEF WriteOrExec
<1> QED
  BY <1>2, <1>3

LEMMA WriteOrExecInvariance == Spec => []WriteOrExec
<1>1. Init => WriteOrExec
  BY DEF Init, WriteOrExec, ScannedIndices
<1> QED
  BY <1>1, WriteOrExecStep, SectionsTypeCorrect, PTL DEF Spec

\* what has been checked of every record that was found
PointerInv ==
    /\ stage = "metadata" => replacements = {} /\ relocations = {}
    /\ \A h \in hooks : guest_range(h.target, POINTER, Exec)
    /\ \A r \in replacements :
          /\ guest_range(r.target, POINTER, Exec)
          /\ guest_range(r.call_addr, POINTER, Write)
    /\ \A e \in exports : e.function => guest_range(e.address, POINTER, Exec)
    /\ \A p \in relocations :
          /\ Sections[p.section].address <= p.target
          /\ p.width <= expanded_size(Sections[p.section])
                           - (p.target - Sections[p.section].address)

LEMMA SameRange ==
    ASSUME image' = image, NEW address, NEW size, NEW flags
    PROVE  guest_range(address, size, flags)' = guest_range(address, size, flags)
BY DEF guest_range

\* A step that finds nothing new.
LEMMA NothingFound ==
    ASSUME PointerInv, image' = image, UNCHANGED found,
           stage' = "metadata" => stage = "metadata"
    PROVE  PointerInv'
<1>1. Sections' = Sections
  BY DEF Sections
<1> QED
  BY <1>1, SameRange DEF PointerInv, found

LEMMA PointerStep == ImageInv /\ PointerInv /\ [ImageNext]_image_vars => PointerInv'
<1> SUFFICES ASSUME ImageInv, PointerInv, [ImageNext]_image_vars PROVE PointerInv'
  OBVIOUS
<1>1. image' = image /\ Sections' = Sections
  BY StepProjects, SectionsFrozen DEF vars, Sections
<1>2. CASE SectionStep
  BY <1>1, <1>2, NothingFound DEF SectionStep
<1>3. CASE \/ CheckMetadata \/ OpenLoad \/ OpenSymbols \/ OpenRelocations \/ OpenExports
           \/ Accept \/ RefuseRow
  BY <1>1, <1>3, NothingFound
     DEF CheckMetadata, OpenLoad, OpenSymbols, OpenRelocations, OpenExports, Accept, RefuseRow,
         RejectImage, EnterTable, SkipTo, Unmoved
<1>4. CASE ReadHook
  <2>1. /\ hooks' = hooks \cup {Here} /\ guest_range(Here.target, POINTER, Exec)
        /\ UNCHANGED <<replacements, imports, relocations, exports, stage>>
    BY <1>4 DEF ReadHook, BadHook, NextRow
  <2> QED
    BY <1>1, <2>1, SameRange DEF PointerInv
<1>5. CASE ReadReplacement
  <2>1. /\ replacements' = replacements \cup {Here} /\ stage' # "metadata"
        /\ guest_range(Here.target, POINTER, Exec) /\ guest_range(Here.call_addr, POINTER, Write)
        /\ UNCHANGED <<hooks, imports, relocations, exports>>
    BY <1>5 DEF ReadReplacement, BadReplacement, NextRow, InRow
  <2> QED
    BY <1>1, <2>1, SameRange DEF PointerInv
<1>6. CASE ReadSymbol
  <2>1. UNCHANGED <<hooks, replacements, relocations, exports, stage>>
    BY <1>6 DEF ReadSymbol, NextRow
  <2> QED
    BY <1>1, <2>1, SameRange DEF PointerInv
<1>7. CASE ReadRelocation
  <2> DEFINE t == Sections[tables[table].info]
  <2>1. /\ relocations' = relocations \cup {Relocation(Here)} /\ stage' # "metadata"
        /\ UNCHANGED <<hooks, replacements, imports, exports>>
    BY <1>7 DEF ReadRelocation, NextRow, InRow
  <2>2. /\ ~(Here.target < t.address)
        /\ ~(Here.width > expanded_size(t) - (Here.target - t.address))
    BY <1>7 DEF ReadRelocation, BadRelocation, Sections
  <2>3. Relocation(Here) \in [section: DOMAIN Sections, target: Nat, width: {0, 2, 4}]
    BY <1>7, <2>1, ReadRelocationKeepsInv, <1>1 DEF ImageInv, ImageTypeOK
  <2>4. /\ tables[table].info \in DOMAIN Sections /\ Here.target \in Nat /\ Here.width \in Nat
    BY <2>3 DEF Relocation
  <2>5. t.address \in Nat /\ expanded_size(t) \in Nat
    BY <2>4, SectionTypes DEF ImageInv, ImageTypeOK
  <2> HIDE DEF t
  <2>6. t.address <= Here.target /\ Here.width <= expanded_size(t) - (Here.target - t.address)
    BY <2>2, <2>4, <2>5
  <2>7. /\ Sections[Relocation(Here).section] = t
        /\ Relocation(Here).target = Here.target /\ Relocation(Here).width = Here.width
    BY DEF Relocation, t
  <2> QED
    BY <1>1, <2>1, <2>6, <2>7, SameRange DEF PointerInv
<1>8. CASE ReadExport
  <2>1. /\ exports' = exports \cup {ExportOf(Here)}
        /\ UNCHANGED <<hooks, replacements, imports, relocations, stage>>
    BY <1>8 DEF ReadExport, NextRow
  <2>2. ExportOf(Here).function => guest_range(ExportOf(Here).address, POINTER, Exec)
    BY <1>8 DEF ReadExport, BadExport, ExportOf
  <2> QED
    BY <1>1, <2>1, <2>2, SameRange DEF PointerInv
<1>9. CASE UNCHANGED image_vars
  BY <1>1, <1>9, NothingFound DEF image_vars
<1> QED
  BY <1>2, <1>3, <1>4, <1>5, <1>6, <1>7, <1>8, <1>9 DEF ImageNext, TableStep

LEMMA PointerInvariance == ImageSpec => []PointerInv
<1>1. ImageInit => PointerInv
  BY DEF ImageInit, PointerInv
<1> QED
  BY <1>1, PointerStep, ImageInvariance, PTL DEF ImageSpec

\* guest_range says that all the bytes lie in one section with the flags.
LEMMA RangeInSection ==
    ASSUME TypeOK, NEW address \in Nat, NEW size \in Nat, NEW flags, "alloc" \in flags,
           guest_range(address, size, flags)
    PROVE  \E k \in DOMAIN Sections :
              /\ flags \subseteq Sections[k].flags
              /\ Pointed(address, size) \subseteq GuestBytes(Sections[k])
<1>1. PICK k \in DOMAIN Sections :
         /\ flags \subseteq Sections[k].flags
         /\ address >= Sections[k].address
         /\ size <= expanded_size(Sections[k]) - (address - Sections[k].address)
  BY DEF guest_range, Sections
<1> DEFINE n == expanded_size(Sections[k])
           b == Sections[k].address
<1>2. b \in Nat /\ n \in Nat
  BY SectionTypes
<1>3. GuestBytes(Sections[k]) = b .. (b + n - 1)
  BY <1>1 DEF GuestBytes, Allocated
<1>4. address >= b /\ size <= n - (address - b)
  BY <1>1
<1> HIDE DEF b, n
<1>5. address .. (address + size - 1) \subseteq b .. (b + n - 1)
  BY <1>2, <1>4
<1> QED
  BY <1>1, <1>3, <1>5 DEF Pointed

LEMMA CodeNotStorage ==
    ImageInv /\ SectionInv /\ WriteOrExec /\ PointerInv => CodeIsNotStorage
<1> SUFFICES ASSUME ImageInv, SectionInv, WriteOrExec, PointerInv,
                    NEW a \in CodeAddresses, NEW r \in replacements
             PROVE  Pointed(a, POINTER) \cap Pointed(r.call_addr, POINTER) = {}
  BY DEF CodeIsNotStorage
<1>1. phase = "accepted" /\ TypeOK
  BY DEF PointerInv, ImageInv, ImageTypeOK
<1>2. ScannedIndices = DOMAIN Sections /\ PlacedIndices = DOMAIN Sections
  BY <1>1 DEF ScannedIndices, PlacedIndices
<1>3. POINTER \in Nat /\ r.call_addr \in Nat
  BY ContentsAssumption DEF ImageInv, ImageTypeOK, Replacements
<1>4. a \in Nat /\ guest_range(a, POINTER, Exec)
  <2>1. CASE \E h \in hooks : a = h.target
    BY <2>1 DEF PointerInv, ImageInv, ImageTypeOK, Hooks
  <2>2. CASE \E q \in replacements : a = q.target
    BY <2>2 DEF PointerInv, ImageInv, ImageTypeOK, Replacements
  <2>3. CASE \E e \in exports : e.function /\ a = e.address
    BY <2>3 DEF PointerInv, ImageInv, ImageTypeOK
  <2> QED
    BY <2>1, <2>2, <2>3 DEF CodeAddresses
<1>5. guest_range(r.call_addr, POINTER, Write)
  BY DEF PointerInv
<1>6. PICK k \in DOMAIN Sections :
         Exec \subseteq Sections[k].flags /\ Pointed(a, POINTER) \subseteq GuestBytes(Sections[k])
  BY <1>1, <1>3, <1>4, RangeInSection DEF Exec
<1>7. PICK j \in DOMAIN Sections :
         /\ Write \subseteq Sections[j].flags
         /\ Pointed(r.call_addr, POINTER) \subseteq GuestBytes(Sections[j])
  BY <1>1, <1>3, <1>5, RangeInSection DEF Write
<1>8. j # k
  BY <1>2, <1>6, <1>7 DEF WriteOrExec, Exec, Write
<1>9. GuestBytes(Sections[j]) \cap GuestBytes(Sections[k]) = {}
  BY <1>2, <1>8, GuestDisjoint DEF GuestBytesDisjoint
<1> QED
  BY <1>6, <1>7, <1>9

\* No hook, replacement or exported function of an inspected image shares a
\* byte with a call-through storage.
THEOREM CodeStaysApart == ImageSpec => []CodeIsNotStorage
BY ImageInvariance, SectionsInvariant, WriteOrExecInvariance, PointerInvariance, CodeNotStorage,
   ImplementsSections, PTL

LEMMA PatchesInside == ImageInv /\ SectionInv /\ PointerInv => PatchesStayInside
<1> SUFFICES ASSUME ImageInv, SectionInv, PointerInv,
                    NEW p \in relocations, Allocated(Sections[p.section])
             PROVE  /\ Pointed(p.target, p.width) \subseteq GuestBytes(Sections[p.section])
                    /\ \A k \in DOMAIN Sections \ {p.section} :
                          Pointed(p.target, p.width) \cap GuestBytes(Sections[k]) = {}
  BY DEF PatchesStayInside
<1>1. phase = "accepted" /\ TypeOK
  BY DEF PointerInv, ImageInv, ImageTypeOK
<1>2. PlacedIndices = DOMAIN Sections
  BY <1>1 DEF PlacedIndices
<1>3. p.section \in DOMAIN Sections /\ p.target \in Nat /\ p.width \in {0, 2, 4}
  BY DEF ImageInv, ImageTypeOK
<1> DEFINE b == Sections[p.section].address
           n == expanded_size(Sections[p.section])
<1>4. b \in Nat /\ n \in Nat
  BY <1>1, <1>3, SectionTypes
<1>5. b <= p.target /\ p.width <= n - (p.target - b)
  BY DEF PointerInv
<1>6. GuestBytes(Sections[p.section]) = b .. (b + n - 1)
  BY DEF GuestBytes
<1> HIDE DEF b, n
<1>7. Pointed(p.target, p.width) \subseteq b .. (b + n - 1)
  BY <1>3, <1>4, <1>5 DEF Pointed
<1>8. ASSUME NEW k \in DOMAIN Sections \ {p.section}
      PROVE  GuestBytes(Sections[p.section]) \cap GuestBytes(Sections[k]) = {}
  BY <1>2, <1>3, GuestDisjoint DEF GuestBytesDisjoint
<1> QED
  BY <1>6, <1>7, <1>8

\* No relocation of an inspected image reaches into another section.
THEOREM PatchesStay == ImageSpec => []PatchesStayInside
BY ImageInvariance, SectionsInvariant, PointerInvariance, PatchesInside, PTL

-----------------------------------------------------------------------------
(* The tables as a whole.  A table that is being read is legal up to the    *)
(* row before the current one, and what was collected is what these rows    *)
(* say; the tables of the stages before are legal.                          *)

GoodHook(h) ==
    h.kind <= MAX_HOOK /\ h.target % POINTER = 0 /\ PointsTo(h.target, POINTER, Exec)

GoodReplacement(r) ==
    /\ r.kind <= MAX_REPLACEMENT /\ r.process \in Processes
    /\ r.target % POINTER = 0 /\ PointsTo(r.target, POINTER, Exec)
    /\ r.call_addr % POINTER = 0 /\ PointsTo(r.call_addr, POINTER, Write)
    /\ IF r.fixed THEN r.library = FIXED ELSE r.library <= MAX_LIBRARY /\ r.library # FIXED
    /\ PointsToString(r.name) /\ PointsToString(r.replacement) /\ r.named

GoodSymbol(s) ==
    /\ s.name # BadName
    /\ IsImport(s) =>
          /\ s.name # Unnamed /\ Sections[s.section].name \notin BadModules
          /\ \/ Sections[s.section].name \in FunctionImports /\ s.type = "function"
             \/ Sections[s.section].name \in DataImports /\ s.type = "object"
          /\ s.value \in Pointed(Sections[s.section].address, expanded_size(Sections[s.section]))

GoodRelocation(k, r) ==
    LET s == Sections[tables[k].info]
    IN  /\ r.symbol \in DOMAIN tables[SymbolTable].rows /\ r.width # -1
        /\ s.address <= r.target
        /\ r.target + r.width <= s.address + expanded_size(s)

GoodExport(k, e) ==
    /\ e.name \in Symbols
    /\ IF "exec" \in Sections[k].flags
       THEN e.address % POINTER = 0 /\ PointsTo(e.address, POINTER, Exec)
       ELSE PointsTo(e.address, 1, {"alloc"})

\* The rows of table k before row n are good, and none repeats another.
HooksRead(k, n) ==
    \A m \in 1..(n - 1) :
        /\ GoodHook(tables[k].rows[m])
        /\ \A l \in 1..(m - 1) : tables[k].rows[l].kind # tables[k].rows[m].kind

LoadRead(k, n) == \A m \in 1..(n - 1) : GoodReplacement(tables[k].rows[m])

SameImport(s, t) == IsImport(s) /\ s.section = t.section /\ s.name = t.name

SymbolsRead(k, n) ==
    \A m \in 1..(n - 1) :
        /\ GoodSymbol(tables[k].rows[m])
        /\ \A l \in 1..(m - 1) : ~SameImport(tables[k].rows[l], tables[k].rows[m])

RelocationsRead(k, n) == \A m \in 1..(n - 1) : GoodRelocation(k, tables[k].rows[m])

ExportsRead(k, n) == \A m \in 1..(n - 1) : GoodExport(k, tables[k].rows[m])

\* the exports before row n of table k
ExportsBefore(k, n) ==
    {p \in (DOMAIN Sections) \X Nat :
        /\ Sections[p[1]].kind = "exports"
        /\ p[2] \in DOMAIN tables[p[1]].rows
        /\ p[1] < k \/ (p[1] = k /\ p[2] < n)}

ExportAt(p) ==
    [name |-> tables[p[1]].rows[p[2]].name, address |-> tables[p[1]].rows[p[2]].address,
     function |-> "exec" \in Sections[p[1]].flags]

SameExport(p, q) ==
    ExportAt(p).name = ExportAt(q).name /\ ExportAt(p).function = ExportAt(q).function

\* The five parts of LegalTables.
HooksLegal ==
    /\ metadata_ok
    /\ Named(hooks_name) # {} /\ \A k \in Named(hooks_name) : LegalHooks(k)
LoadLegal == \A k \in Named(load_name) : LegalLoad(k)
SymbolsLegal == Cardinality(SymbolTables) = 1 /\ \A k \in SymbolTables : LegalSymbols(k)
RelocationsLegal(n) == \A k \in OfKind({"relocs"}) : k < n => LegalRelocations(k)
ExportsLegal(n) == \A k \in OfKind({"exports"}) : k < n => LegalExports(k)

HooksAt(k, n) == metadata_ok /\ k \in Named(hooks_name) /\ ~BadHooks(k) /\ HooksRead(k, n)

LoadAt(k, n) ==
    IF k = 0 THEN Named(load_name) = {}
    ELSE k \in Named(load_name) /\ ~BadLoad(k) /\ LoadRead(k, n)

SymbolsAt(k, n) ==
    Cardinality(SymbolTables) = 1 /\ k = SymbolTable /\ ~BadSymbols(k) /\ SymbolsRead(k, n)

RelocationsAt(k, n) ==
    /\ RelocationsLegal(k)
    /\ k # 0 => k \in OfKind({"relocs"}) /\ ~BadRelocations(k) /\ RelocationsRead(k, n)

ExportsAt(k, n) ==
    /\ ExportsLegal(k)
    /\ k # 0 => k \in OfKind({"exports"}) /\ ~BadExports(k) /\ ExportsRead(k, n)
    /\ \A p, q \in ExportsBefore(k, n) : SameExport(p, q) => p = q

HooksSeen(k, n) == {tables[k].rows[m] : m \in 1..(n - 1)}
ImportsSeen(k, n) ==
    {Import(tables[k].rows[m]) : m \in {m \in 1..(n - 1) : IsImport(tables[k].rows[m])}}
ExportsSeen(k, n) == {ExportAt(p) : p \in ExportsBefore(k, n)}

ReadInv ==
    /\ stage = "metadata" => hooks = {}
    /\ stage \in {"metadata", "hooks", "load"} => imports = {}
    /\ stage \in Stages \ {"exports", "accepted", "rejected"} => exports = {}
    /\ \A k \in {table}, n \in {row} :
          /\ stage = "hooks" => HooksAt(k, n) /\ hooks = HooksSeen(k, n)
          /\ stage = "load" => HooksLegal /\ LoadAt(k, n)
          /\ stage = "symbols" =>
                HooksLegal /\ LoadLegal /\ SymbolsAt(k, n) /\ imports = ImportsSeen(k, n)
          /\ stage = "relocations" =>
                HooksLegal /\ LoadLegal /\ SymbolsLegal /\ RelocationsAt(k, n)
          /\ stage = "exports" =>
                /\ HooksLegal /\ LoadLegal /\ SymbolsLegal /\ RelocationsLegal(Len(Sections) + 1)
                /\ ExportsAt(k, n) /\ exports = ExportsSeen(k, n)
    /\ ImageAcceptsExactly

-----------------------------------------------------------------------------
(* A row is refused when it is not good or repeats an earlier one.          *)

\* guest_range asks for what the tables need of a pointer.
LEMMA RangeIsPointsTo ==
    ASSUME TypeOK, NEW address \in Nat, NEW size \in Nat \ {0}, NEW flags, "alloc" \in flags
    PROVE  guest_range(address, size, flags) <=> PointsTo(address, size, flags)
<1>1. guest_range(address, size, flags) => PointsTo(address, size, flags)
  BY RangeInSection DEF PointsTo
<1>2. ASSUME PointsTo(address, size, flags) PROVE guest_range(address, size, flags)
  <2>1. PICK k \in DOMAIN Sections :
           /\ flags \subseteq Sections[k].flags
           /\ Pointed(address, size) \subseteq GuestBytes(Sections[k])
    BY <1>2 DEF PointsTo
  <2> DEFINE n == expanded_size(Sections[k])
             b == Sections[k].address
  <2>2. b \in Nat /\ n \in Nat
    BY SectionTypes
  <2>3. GuestBytes(Sections[k]) = b .. (b + n - 1)
    BY <2>1 DEF GuestBytes, Allocated
  <2>4. /\ guest_range(address, size, flags) <=> 
              \E j \in DOMAIN Sections :
                 /\ flags \subseteq Sections[j].flags
                 /\ address >= Sections[j].address
                 /\ address - Sections[j].address <= expanded_size(Sections[j])
                 /\ size <= expanded_size(Sections[j]) - (address - Sections[j].address)
    BY DEF guest_range, Sections
  <2>5. address >= b /\ address - b <= n /\ size <= n - (address - b)
    <3> HIDE DEF b, n
    <3>1. address \in address .. (address + size - 1)
      OBVIOUS
    <3>2. address + size - 1 \in address .. (address + size - 1)
      OBVIOUS
    <3>3. address \in b .. (b + n - 1) /\ address + size - 1 \in b .. (b + n - 1)
      BY <2>1, <2>3, <3>1, <3>2 DEF Pointed
    <3> QED
      BY <2>2, <3>3
  <2> QED
    BY <2>1, <2>4, <2>5
<1> QED
  BY <1>1, <1>2

\* guest_string asks for what the tables need of a name.
LEMMA StringIsPointsTo ==
    ASSUME TypeOK, NEW address \in Nat
    PROVE  guest_string(address) <=> PointsToString(address)
<1>1. ASSUME NEW k \in DOMAIN Sections
      PROVE  address \in GuestBytes(Sections[k]) <=>
                /\ Allocated(Sections[k])
                /\ address >= Sections[k].address
                /\ address - Sections[k].address < expanded_size(Sections[k])
  <2> DEFINE n == expanded_size(Sections[k])
             b == Sections[k].address
  <2>1. b \in Nat /\ n \in Nat
    BY SectionTypes
  <2>2. GuestBytes(Sections[k]) = IF Allocated(Sections[k]) THEN b .. (b + n - 1) ELSE {}
    BY DEF GuestBytes
  <2> HIDE DEF b, n
  <2>3. address \in b .. (b + n - 1) <=> address >= b /\ address - b < n
    BY <2>1
  <2> QED
    BY <2>2, <2>3 DEF b, n
<1> QED
  BY <1>1 DEF guest_string, PointsToString, Sections

LEMMA BadHookIs ==
    ASSUME ImageTypeOK, NEW h \in Hooks
    PROVE  BadHook(h) <=> ~GoodHook(h) \/ \E g \in hooks : g.kind = h.kind
<1>1. h.kind \in Nat /\ h.target \in Nat /\ MAX_HOOK \in Nat /\ POINTER \in Nat \ {0}
  BY ContentsAssumption DEF Hooks
<1>2. guest_range(h.target, POINTER, Exec) <=> PointsTo(h.target, POINTER, Exec)
  BY <1>1, RangeIsPointsTo DEF Exec, ImageTypeOK
<1> QED
  BY <1>1, <1>2 DEF BadHook, GoodHook

LEMMA BadReplacementIs ==
    ASSUME ImageTypeOK, NEW r \in Replacements
    PROVE  BadReplacement(r) <=> ~GoodReplacement(r)
<1>1. /\ r.kind \in Nat /\ r.library \in Nat /\ r.target \in Nat /\ r.call_addr \in Nat
      /\ r.name \in Nat /\ r.replacement \in Nat /\ r.fixed \in BOOLEAN /\ r.named \in BOOLEAN
      /\ {MAX_REPLACEMENT, MAX_LIBRARY, FIXED} \subseteq Nat /\ POINTER \in Nat \ {0}
      /\ FIXED <= MAX_LIBRARY
  BY ContentsAssumption DEF Replacements
<1>2. /\ guest_range(r.target, POINTER, Exec) <=> PointsTo(r.target, POINTER, Exec)
      /\ guest_range(r.call_addr, POINTER, Write) <=> PointsTo(r.call_addr, POINTER, Write)
      /\ guest_string(r.name) <=> PointsToString(r.name)
      /\ guest_string(r.replacement) <=> PointsToString(r.replacement)
  BY <1>1, RangeIsPointsTo, StringIsPointsTo DEF Exec, Write, ImageTypeOK
<1>3. (r.library > MAX_LIBRARY \/ r.fixed # (r.library = FIXED)) <=>
         ~(IF r.fixed THEN r.library = FIXED ELSE r.library <= MAX_LIBRARY /\ r.library # FIXED)
  <2>1. CASE r.fixed = TRUE
    BY <1>1, <2>1
  <2>2. CASE r.fixed = FALSE
    BY <1>1, <2>2
  <2> QED
    BY <1>1, <2>1, <2>2
<1>4. r.kind > MAX_REPLACEMENT <=> ~(r.kind <= MAX_REPLACEMENT)
  BY <1>1
<1> QED
  BY <1>2, <1>3, <1>4 DEF BadReplacement, GoodReplacement

LEMMA BadSymbolIs ==
    ASSUME ImageTypeOK, NEW s \in SymbolRows
    PROVE  BadSymbol(s) <=>
              \/ ~GoodSymbol(s)
              \/ IsImport(s) /\ \E i \in imports : i.section = s.section /\ i.name = s.name
<1>1. CASE ~IsImport(s)
  BY <1>1 DEF BadSymbol, GoodSymbol
<1>2. CASE IsImport(s)
  <2> DEFINE stub == Sections[s.section]
             n == expanded_size(stub)
             b == stub.address
  <2>1. s.section \in DOMAIN Sections
    BY <1>2 DEF IsImport, OfKind, Sections
  <2>2. b \in Nat /\ n \in Nat /\ s.value \in Nat
    BY <2>1, SectionTypes DEF ImageTypeOK, SymbolRows
  <2>3. s.value \in Pointed(b, n) <=> ~(s.value < b \/ s.value - b >= n)
    <3> HIDE DEF b, n
    <3> QED
      BY <2>2 DEF Pointed
  <2>4. /\ stub.name \notin FunctionImports \cup DataImports
           \/ s.type # (IF stub.name \in FunctionImports THEN "function" ELSE "object")
        <=> ~(\/ stub.name \in FunctionImports /\ s.type = "function"
              \/ stub.name \in DataImports /\ s.type = "object")
    BY ContentsAssumption
  <2>5. stub = image.sections[s.section]
    BY DEF Sections
  <2>6. BadImport(s) <=>
           \/ stub.name \notin FunctionImports \cup DataImports
           \/ s.name = Unnamed
           \/ s.type # (IF stub.name \in FunctionImports THEN "function" ELSE "object")
           \/ stub.name \in BadModules
           \/ s.value < b \/ s.value - b >= n
           \/ \E i \in imports : i.section = s.section /\ i.name = s.name
    BY <2>5 DEF BadImport
  <2>7. GoodSymbol(s) <=>
           /\ s.name # BadName /\ s.name # Unnamed /\ stub.name \notin BadModules
           /\ \/ stub.name \in FunctionImports /\ s.type = "function"
              \/ stub.name \in DataImports /\ s.type = "object"
           /\ s.value \in Pointed(b, n)
    BY <1>2 DEF GoodSymbol
  <2> HIDE DEF stub, n, b
  <2> QED
    BY <1>2, <2>3, <2>4, <2>6, <2>7 DEF BadSymbol
<1> QED
  BY <1>1, <1>2

LEMMA BadRelocationIs ==
    ASSUME ImageTypeOK, tables[table].info \in DOMAIN Sections, NEW r \in Relocations
    PROVE  BadRelocation(r) <=> ~GoodRelocation(table, r)
<1> DEFINE s == Sections[tables[table].info]
           n == expanded_size(s)
           b == s.address
<1>1. b \in Nat /\ n \in Nat
  BY SectionTypes DEF ImageTypeOK
<1>2. r.target \in Nat /\ r.width \in {-1, 0, 2, 4}
  BY DEF Relocations
<1>3. s = image.sections[tables[table].info]
  BY DEF Sections
<1>4. BadRelocation(r) <=>
         \/ r.symbol \notin DOMAIN tables[SymbolTable].rows \/ r.width = -1
         \/ r.target < b \/ r.target - b > n \/ r.width > n - (r.target - b)
  BY <1>3 DEF BadRelocation
<1>5. GoodRelocation(table, r) <=>
         /\ r.symbol \in DOMAIN tables[SymbolTable].rows /\ r.width # -1
         /\ b <= r.target /\ r.target + r.width <= b + n
  BY DEF GoodRelocation
<1> HIDE DEF s, n, b
<1>6. r.width = -1 \/ r.target < b \/ r.target - b > n \/ r.width > n - (r.target - b)
         <=> ~(r.width # -1 /\ b <= r.target /\ r.target + r.width <= b + n)
  BY <1>1, <1>2
<1> QED
  BY <1>4, <1>5, <1>6

LEMMA BadExportIs ==
    ASSUME ImageTypeOK, NEW e \in Exports
    PROVE  BadExport(e) <=>
              \/ ~GoodExport(table, e)
              \/ \E y \in exports : y.name = e.name /\ y.function = ("exec" \in Sections[table].flags)
<1>1. /\ e.address \in Nat /\ e.name \in Symbols \cup {Unnamed, BadName}
      /\ POINTER \in Nat \ {0} /\ 1 \in Nat \ {0}
  BY ContentsAssumption DEF Exports
<1>2. /\ guest_range(e.address, POINTER, Exec) <=> PointsTo(e.address, POINTER, Exec)
      /\ guest_range(e.address, 1, {"alloc"}) <=> PointsTo(e.address, 1, {"alloc"})
  BY <1>1, RangeIsPointsTo DEF Exec, ImageTypeOK
<1>3. e.name \in {BadName, Unnamed} <=> e.name \notin Symbols
  BY <1>1, ContentsAssumption
<1>4. ExportOf(e).name = e.name /\ ExportOf(e).function = ("exec" \in Sections[table].flags)
  BY DEF ExportOf, Sections
<1> DEFINE exec == "exec" \in Sections[table].flags
<1>5. BadExport(e) <=>
         \/ e.name \in {BadName, Unnamed}
         \/ IF exec THEN e.address % POINTER # 0 \/ ~guest_range(e.address, POINTER, Exec)
                    ELSE ~guest_range(e.address, 1, {"alloc"})
         \/ \E y \in exports : y.name = e.name /\ y.function = exec
  BY <1>4 DEF BadExport
<1>6. GoodExport(table, e) <=>
         /\ e.name \in Symbols
         /\ IF exec THEN e.address % POINTER = 0 /\ PointsTo(e.address, POINTER, Exec)
                    ELSE PointsTo(e.address, 1, {"alloc"})
  BY DEF GoodExport
<1> HIDE DEF exec
<1>7. BadExport(e) <=> ~GoodExport(table, e) \/ \E y \in exports : y.name = e.name /\ y.function = exec
  BY <1>2, <1>3, <1>5, <1>6
<1> QED
  BY <1>7 DEF exec

-----------------------------------------------------------------------------
(* A table is legal when it is not bad and all of its rows have been read.  *)

LEMMA RowsOf ==
    ASSUME ImageTypeOK, NEW k \in DOMAIN Sections
    PROVE  /\ tables[k].rows \in Seq(RowsIn(Sections[k]))
           /\ Len(tables[k].rows) \in Nat
           /\ DOMAIN tables[k].rows = 1 .. Len(tables[k].rows)
           /\ Len(tables[k].rows) + 1 - 1 = Len(tables[k].rows)
<1>1. tables[k].rows \in Seq(RowsIn(Sections[k]))
  BY DEF ImageTypeOK, Tables
<1> QED
  BY <1>1

LEMMA LegalHooksIs ==
    ASSUME ImageTypeOK, NEW k \in DOMAIN Sections
    PROVE  LegalHooks(k) <=> ~BadHooks(k) /\ HooksRead(k, Len(tables[k].rows) + 1)
<1> DEFINE rows == tables[k].rows
           L == Len(rows)
<1>1. L \in Nat /\ DOMAIN rows = 1..L /\ L + 1 - 1 = L
  BY RowsOf
<1>2. LegalHooks(k) <=>
         /\ ~BadHooks(k)
         /\ \A m \in DOMAIN rows : GoodHook(rows[m])
         /\ \A m, n \in DOMAIN rows : rows[m].kind = rows[n].kind => m = n
  BY DEF LegalHooks, GoodHook, Distinct
<1>3. HooksRead(k, L + 1) <=>
         \A m \in 1..L : GoodHook(rows[m]) /\ \A l \in 1..(m - 1) : rows[l].kind # rows[m].kind
  BY <1>1 DEF HooksRead
<1> HIDE DEF rows, L
<1>4. (\A m, n \in 1..L : rows[m].kind = rows[n].kind => m = n) <=>
         \A m \in 1..L : \A l \in 1..(m - 1) : rows[l].kind # rows[m].kind
  <2>1. ASSUME \A m \in 1..L : \A l \in 1..(m - 1) : rows[l].kind # rows[m].kind,
               NEW m \in 1..L, NEW n \in 1..L, rows[m].kind = rows[n].kind
        PROVE  m = n
    <3>1. ~(m < n) /\ ~(n < m)
      BY <1>1, <2>1
    <3> QED
      BY <1>1, <3>1
  <2> QED
    BY <1>1, <2>1
<1> QED
  BY <1>1, <1>2, <1>3, <1>4 DEF rows, L

LEMMA LegalLoadIs ==
    ASSUME ImageTypeOK, NEW k \in DOMAIN Sections
    PROVE  LegalLoad(k) <=> ~BadLoad(k) /\ LoadRead(k, Len(tables[k].rows) + 1)
<1>1. /\ DOMAIN tables[k].rows = 1 .. Len(tables[k].rows)
      /\ Len(tables[k].rows) + 1 - 1 = Len(tables[k].rows)
  BY RowsOf
<1> QED
  BY <1>1 DEF LegalLoad, LoadRead, GoodReplacement

LEMMA LegalSymbolsIs ==
    ASSUME ImageTypeOK, NEW k \in DOMAIN Sections
    PROVE  LegalSymbols(k) <=> ~BadSymbols(k) /\ SymbolsRead(k, Len(tables[k].rows) + 1)
<1> DEFINE rows == tables[k].rows
           L == Len(rows)
<1>1. L \in Nat /\ DOMAIN rows = 1..L /\ L + 1 - 1 = L
  BY RowsOf
<1>2. LegalSymbols(k) <=>
         /\ ~BadSymbols(k)
         /\ \A m \in DOMAIN rows : GoodSymbol(rows[m])
         /\ \A m, n \in DOMAIN rows : SameImport(rows[m], rows[n]) => m = n
  BY DEF LegalSymbols, GoodSymbol, SameImport, IsImport
<1>3. SymbolsRead(k, L + 1) <=>
         \A m \in 1..L : GoodSymbol(rows[m]) /\ \A l \in 1..(m - 1) : ~SameImport(rows[l], rows[m])
  BY <1>1 DEF SymbolsRead
<1>4. ASSUME NEW s, NEW t PROVE SameImport(s, t) <=> SameImport(t, s)
  BY DEF SameImport, IsImport
<1> HIDE DEF rows, L
<1>5. (\A m, n \in 1..L : SameImport(rows[m], rows[n]) => m = n) <=>
         \A m \in 1..L : \A l \in 1..(m - 1) : ~SameImport(rows[l], rows[m])
  <2>1. ASSUME \A m \in 1..L : \A l \in 1..(m - 1) : ~SameImport(rows[l], rows[m]),
               NEW m \in 1..L, NEW n \in 1..L, SameImport(rows[m], rows[n])
        PROVE  m = n
    <3>1. ~(m < n) /\ ~(n < m)
      BY <1>1, <1>4, <2>1
    <3> QED
      BY <1>1, <3>1
  <2>2. ASSUME \A m, n \in 1..L : SameImport(rows[m], rows[n]) => m = n,
               NEW m \in 1..L, NEW l \in 1..(m - 1)
        PROVE  ~SameImport(rows[l], rows[m])
    <3>1. l \in 1..L /\ l # m
      BY <1>1
    <3> QED
      BY <2>2, <3>1
  <2> QED
    BY <2>1, <2>2
<1> QED
  BY <1>1, <1>2, <1>3, <1>5 DEF rows, L

LEMMA LegalRelocationsIs ==
    ASSUME ImageTypeOK, NEW k \in DOMAIN Sections
    PROVE  LegalRelocations(k) <=>
              ~BadRelocations(k) /\ RelocationsRead(k, Len(tables[k].rows) + 1)
<1>1. /\ DOMAIN tables[k].rows = 1 .. Len(tables[k].rows)
      /\ Len(tables[k].rows) + 1 - 1 = Len(tables[k].rows)
  BY RowsOf
<1> QED
  BY <1>1 DEF LegalRelocations, RelocationsRead, GoodRelocation

LEMMA LegalExportsIs ==
    ASSUME ImageTypeOK, NEW k \in DOMAIN Sections
    PROVE  LegalExports(k) <=> ~BadExports(k) /\ ExportsRead(k, Len(tables[k].rows) + 1)
<1>1. /\ DOMAIN tables[k].rows = 1 .. Len(tables[k].rows)
      /\ Len(tables[k].rows) + 1 - 1 = Len(tables[k].rows)
  BY RowsOf
<1> QED
  BY <1>1 DEF LegalExports, ExportsRead, GoodExport

\* the exports of all tables
LEMMA DistinctExportsIs ==
    ASSUME ImageTypeOK
    PROVE  Distinct(OfKind({"exports"}),
                    LAMBDA k, e : <<e.name, "exec" \in Sections[k].flags>>) <=>
              \A p, q \in ExportsBefore(Len(Sections) + 1, 1) : SameExport(p, q) => p = q
<1> DEFINE E == OfKind({"exports"})
           Key(k, m) == <<tables[k].rows[m].name, "exec" \in Sections[k].flags>>
           P == ExportsBefore(Len(Sections) + 1, 1)
<1>1. Distinct(E, LAMBDA k, e : <<e.name, "exec" \in Sections[k].flags>>) <=>
         \A j, k \in E : \A m \in DOMAIN tables[j].rows : \A n \in DOMAIN tables[k].rows :
            Key(j, m) = Key(k, n) => j = k /\ m = n
  BY DEF Distinct
<1>2. Sections \in Seq(Headers)
  BY DEF ImageTypeOK, TypeOK, ImageRecords, Sections
<1>3. DOMAIN Sections = 1..Len(Sections) /\ Len(Sections) \in Nat
  BY <1>2
<1>4. ASSUME NEW k, NEW m
      PROVE  <<k, m>> \in P <=> k \in E /\ m \in DOMAIN tables[k].rows
  <2>1. k \in E <=> k \in DOMAIN Sections /\ Sections[k].kind = "exports"
    BY DEF OfKind, Sections
  <2>2. k \in DOMAIN Sections => DOMAIN tables[k].rows \subseteq Nat
    BY RowsOf
  <2>3. k \in DOMAIN Sections => k < Len(Sections) + 1
    BY <1>3
  <2> QED
    BY <2>1, <2>2, <2>3 DEF ExportsBefore
<1>5. ASSUME NEW j, NEW m, NEW k, NEW n
      PROVE  SameExport(<<j, m>>, <<k, n>>) <=> Key(j, m) = Key(k, n)
  BY DEF SameExport, ExportAt
<1>6. \A p \in P : p = <<p[1], p[2]>>
  BY DEF ExportsBefore
<1> HIDE DEF E, Key, P
<1>7. ASSUME \A j, k \in E : \A m \in DOMAIN tables[j].rows : \A n \in DOMAIN tables[k].rows :
                Key(j, m) = Key(k, n) => j = k /\ m = n,
             NEW p \in P, NEW q \in P, SameExport(p, q)
      PROVE  p = q
  <2>1. p = <<p[1], p[2]>> /\ q = <<q[1], q[2]>>
    BY <1>6
  <2>2. /\ p[1] \in E /\ p[2] \in DOMAIN tables[p[1]].rows
        /\ q[1] \in E /\ q[2] \in DOMAIN tables[q[1]].rows
    BY <1>4, <2>1
  <2>3. Key(p[1], p[2]) = Key(q[1], q[2])
    BY <1>5, <1>7, <2>1
  <2> QED
    BY <1>7, <2>1, <2>2, <2>3
<1>8. ASSUME \A p, q \in P : SameExport(p, q) => p = q,
             NEW j \in E, NEW k \in E,
             NEW m \in DOMAIN tables[j].rows, NEW n \in DOMAIN tables[k].rows,
             Key(j, m) = Key(k, n)
      PROVE  j = k /\ m = n
  <2>1. <<j, m>> \in P /\ <<k, n>> \in P
    BY <1>4
  <2>2. <<j, m>> = <<k, n>>
    BY <1>5, <1>8, <2>1
  <2> QED
    BY <2>2
<1> QED
  BY <1>1, <1>7, <1>8 DEF E, P

-----------------------------------------------------------------------------
(* What the loops do to the parts of LegalTables.                           *)

\* names are unique once the section checks have accepted an image
UniqueNames ==
    \A j, k \in DOMAIN Sections :
        Sections[j].name = Sections[k].name => j = k \/ Sections[j].name = Unnamed

LEMMA SectionsAreOrdered ==
    ASSUME ImageTypeOK
    PROVE  /\ DOMAIN Sections = 1..Len(Sections) /\ Len(Sections) \in Nat
           /\ DOMAIN Sections \subseteq Nat /\ 0 \notin DOMAIN Sections
<1>1. Sections \in Seq(Headers)
  BY DEF ImageTypeOK, TypeOK, ImageRecords, Sections
<1> QED
  BY <1>1

LEMMA LegalNamesUnique == ImageTypeOK /\ Legal => UniqueNames
<1> SUFFICES ASSUME ImageTypeOK, Legal PROVE UniqueNames
  OBVIOUS
<1>1. \A j, k \in 1..Len(Sections) : j # k =>
         (Sections[j].name = Sections[k].name => Sections[j].name = Unnamed)
  BY DEF Legal
<1> QED
  BY <1>1, SectionsAreOrdered DEF UniqueNames

LEMMA TheOnlyNamed ==
    ASSUME UniqueNames, NEW name \in {hooks_name, load_name}, NEW k \in Named(name)
    PROVE  Named(name) = {k} /\ k \in DOMAIN Sections
<1>1. name \in SectionNames /\ Unnamed \notin SectionNames
  BY ContentsAssumption, ImagesAssumption
<1>2. k \in DOMAIN Sections /\ Sections[k].name = name
  BY DEF Named, Sections
<1>3. ASSUME NEW j \in Named(name) PROVE j = k
  <2>1. j \in DOMAIN Sections /\ Sections[j].name = name
    BY DEF Named, Sections
  <2> QED
    BY <1>1, <1>2, <2>1 DEF UniqueNames
<1> QED
  BY <1>2, <1>3

LEMMA TheSymbolTable ==
    ASSUME ImageTypeOK, Cardinality(SymbolTables) = 1
    PROVE  SymbolTables = {SymbolTable} /\ SymbolTable \in DOMAIN Sections
<1>1. SymbolTables \subseteq 1..Len(Sections) /\ Len(Sections) \in Nat
  BY SectionsAreOrdered DEF SymbolTables, OfKind, Sections
<1>2. IsFiniteSet(SymbolTables)
  <2>1. IsFiniteSet(1..Len(Sections))
    BY <1>1, FS_Interval
  <2> QED
    BY <1>1, <2>1, FS_Subset
<1>3. PICK x : SymbolTables = {x}
  BY <1>2, FS_Singleton
<1>4. SymbolTable = x
  BY <1>3 DEF SymbolTable
<1> QED
  BY <1>1, <1>3, <1>4, SectionsAreOrdered

LEMMA LegalTablesIs ==
    ASSUME ImageTypeOK
    PROVE  LegalTables <=>
              /\ HooksLegal /\ LoadLegal /\ SymbolsLegal
              /\ RelocationsLegal(Len(Sections) + 1) /\ ExportsLegal(Len(Sections) + 1)
              /\ \A p, q \in ExportsBefore(Len(Sections) + 1, 1) : SameExport(p, q) => p = q
<1>1. \A kinds : \A k \in OfKind(kinds) : k < Len(Sections) + 1
  BY SectionsAreOrdered DEF OfKind, Sections
<1>2. /\ RelocationsLegal(Len(Sections) + 1) <=> \A k \in OfKind({"relocs"}) : LegalRelocations(k)
      /\ ExportsLegal(Len(Sections) + 1) <=> \A k \in OfKind({"exports"}) : LegalExports(k)
  BY <1>1 DEF RelocationsLegal, ExportsLegal
<1> QED
  BY <1>2, DistinctExportsIs DEF LegalTables, HooksLegal, LoadLegal, SymbolsLegal

\* The loop is at a row of its table ...
LEMMA AtRow ==
    ASSUME ImageTypeOK, NEW s, InRow(s)
    PROVE  /\ table # 0 /\ table \in DOMAIN Sections /\ Here = tables[table].rows[row]
           /\ row \in 1..Len(tables[table].rows) /\ row + 1 - 1 = row
           /\ Len(tables[table].rows) \in Nat
           /\ Here \in RowsIn(Sections[table])
<1>1. table \in DOMAIN Sections /\ Here \in RowsIn(Sections[table]) /\ Rows = tables[table].rows
  BY HereType
<1>2. Rows \in Seq(RowsIn(Sections[table]))
  BY <1>1, RowsOf
<1> QED
  BY <1>1, <1>2, SectionsAreOrdered DEF InRow, Here

\* ... or behind the last one.
LEMMA BehindRows ==
    ASSUME ImageTypeOK, NEW s, RowsDone(s), table # 0
    PROVE  table \in DOMAIN Sections /\ row = Len(tables[table].rows) + 1
<1>1. table \in DOMAIN Sections /\ Rows = tables[table].rows
  BY DEF ImageTypeOK, Rows
<1>2. row \in 1..(Len(Rows) + 1) /\ Len(Rows) \in Nat
  BY <1>1, RowsOf DEF ImageTypeOK
<1> QED
  BY <1>1, <1>2 DEF RowsDone

LEMMA HookRow ==
    ASSUME ImageInv, InRow("hooks"), HooksAt(table, row), hooks = HooksSeen(table, row)
    PROVE  /\ ~BadHook(Here) =>
                 HooksAt(table, row + 1) /\ hooks \cup {Here} = HooksSeen(table, row + 1)
           /\ BadHook(Here) => ~LegalTables
<1> DEFINE rows == tables[table].rows
           L == Len(rows)
<1>1. /\ table \in DOMAIN Sections /\ Here = rows[row] /\ row \in 1..L /\ row + 1 - 1 = row
      /\ L \in Nat /\ L + 1 - 1 = L
  BY AtRow, RowsOf DEF ImageInv
<1>2. Here \in Hooks
  BY AtRow, RowsAre DEF InRow, ImageInv, StageInv
<1>3. BadHook(Here) <=> ~GoodHook(rows[row]) \/ \E l \in 1..(row - 1) : rows[l].kind = rows[row].kind
  BY <1>1, <1>2, BadHookIs DEF ImageInv, HooksSeen
<1>4. HooksRead(table, row + 1) <=>
         \A m \in 1..row : GoodHook(rows[m]) /\ \A l \in 1..(m - 1) : rows[l].kind # rows[m].kind
  BY <1>1, SMTT(30) DEF HooksRead
<1>5. HooksRead(table, row) <=>
         \A m \in 1..(row - 1) :
            GoodHook(rows[m]) /\ \A l \in 1..(m - 1) : rows[l].kind # rows[m].kind
  BY DEF HooksRead
<1>6. HooksRead(table, L + 1) => HooksRead(table, row + 1)
  BY <1>1, <1>4 DEF HooksRead
<1>7. 1..row = 1..(row - 1) \cup {row}
  BY <1>1
<1>8. HooksRead(table, row + 1) <=> ~BadHook(Here)
  BY <1>1, <1>3, <1>4, <1>5, <1>7 DEF HooksAt
<1>9. hooks \cup {Here} = HooksSeen(table, row + 1)
  BY <1>1, <1>7 DEF HooksSeen
<1>10. BadHook(Here) => ~LegalHooks(table)
  BY <1>1, <1>6, <1>8, LegalHooksIs DEF ImageInv
<1> QED
  BY <1>8, <1>9, <1>10 DEF HooksAt, LegalTables

LEMMA HooksDone ==
    ASSUME ImageInv, UniqueNames, RowsDone("hooks"), HooksAt(table, row)
    PROVE  HooksLegal
<1>1. table # 0
  BY DEF ImageInv, StageInv, RowsDone
<1>2. table \in DOMAIN Sections /\ row = Len(tables[table].rows) + 1
  BY <1>1, BehindRows DEF ImageInv
<1>3. LegalHooks(table)
  BY <1>2, LegalHooksIs DEF ImageInv, HooksAt
<1>4. Named(hooks_name) = {table}
  BY TheOnlyNamed DEF HooksAt
<1> QED
  BY <1>3, <1>4 DEF HooksAt, HooksLegal

LEMMA LoadRow ==
    ASSUME ImageInv, InRow("load"), LoadAt(table, row)
    PROVE  /\ ~BadReplacement(Here) => LoadAt(table, row + 1)
           /\ BadReplacement(Here) => ~LegalTables
<1> DEFINE rows == tables[table].rows
           L == Len(rows)
<1>1. /\ table \in DOMAIN Sections /\ Here = rows[row] /\ row \in 1..L /\ row + 1 - 1 = row
      /\ L \in Nat /\ L + 1 - 1 = L /\ table # 0
  BY AtRow, RowsOf DEF ImageInv
<1>2. Here \in Replacements
  BY <1>1, AtRow, RowsAre DEF InRow, ImageInv, StageInv
<1>3. BadReplacement(Here) <=> ~GoodReplacement(rows[row])
  BY <1>1, <1>2, BadReplacementIs DEF ImageInv
<1>4. 1..row = 1..(row - 1) \cup {row}
  BY <1>1
<1>5. LoadRead(table, row + 1) <=> ~BadReplacement(Here)
  BY <1>1, <1>3, <1>4 DEF LoadRead, LoadAt
<1>6. BadReplacement(Here) => ~LegalLoad(table)
  BY <1>1, <1>3, LegalLoadIs DEF ImageInv, LoadRead
<1> QED
  BY <1>1, <1>5, <1>6 DEF LoadAt, LegalTables

LEMMA LoadDone ==
    ASSUME ImageInv, UniqueNames, RowsDone("load"), LoadAt(table, row)
    PROVE  LoadLegal
<1>1. CASE table = 0
  BY <1>1 DEF LoadAt, LoadLegal
<1>2. CASE table # 0
  <2>1. table \in DOMAIN Sections /\ row = Len(tables[table].rows) + 1
    BY <1>2, BehindRows DEF ImageInv
  <2>2. LegalLoad(table)
    BY <1>2, <2>1, LegalLoadIs DEF ImageInv, LoadAt
  <2>3. Named(load_name) = {table}
    BY <1>2, TheOnlyNamed DEF LoadAt
  <2> QED
    BY <2>2, <2>3 DEF LoadLegal
<1> QED
  BY <1>1, <1>2

LEMMA SymbolRow ==
    ASSUME ImageInv, InRow("symbols"), SymbolsAt(table, row), imports = ImportsSeen(table, row)
    PROVE  /\ ~BadSymbol(Here) =>
                 /\ SymbolsAt(table, row + 1)
                 /\ (IF IsImport(Here) THEN imports \cup {Import(Here)} ELSE imports)
                       = ImportsSeen(table, row + 1)
           /\ BadSymbol(Here) => ~LegalTables
<1> DEFINE rows == tables[table].rows
           L == Len(rows)
<1>1. /\ table \in DOMAIN Sections /\ Here = rows[row] /\ row \in 1..L /\ row + 1 - 1 = row
      /\ L \in Nat /\ L + 1 - 1 = L
  BY AtRow, RowsOf DEF ImageInv
<1>2. Here \in SymbolRows
  BY AtRow, RowsAre DEF InRow, ImageInv, StageInv
<1>3. IsImport(Here) =>
         ((\E j \in imports : j.section = Here.section /\ j.name = Here.name) <=>
             \E l \in 1..(row - 1) : SameImport(rows[l], rows[row]))
  <2>1. ASSUME IsImport(Here), NEW l \in 1..(row - 1)
        PROVE  SameImport(rows[l], rows[row]) <=>
                  /\ IsImport(rows[l])
                  /\ Import(rows[l]).section = Here.section /\ Import(rows[l]).name = Here.name
    BY <1>1 DEF SameImport, Import
  <2> QED
    BY <1>1, <2>1 DEF ImportsSeen, SameImport
<1>4. ~IsImport(Here) => \A l \in 1..(row - 1) : ~SameImport(rows[l], rows[row])
  BY <1>1 DEF SameImport, IsImport
<1>5. BadSymbol(Here) <=>
         ~GoodSymbol(rows[row]) \/ \E l \in 1..(row - 1) : SameImport(rows[l], rows[row])
  BY <1>1, <1>2, <1>3, <1>4, BadSymbolIs DEF ImageInv
<1>6. SymbolsRead(table, row + 1) <=>
         \A m \in 1..row : GoodSymbol(rows[m]) /\ \A l \in 1..(m - 1) : ~SameImport(rows[l], rows[m])
  <2>1. ASSUME NEW n, n = row + 1
        PROVE  SymbolsRead(table, n) <=>
                  \A m \in 1..row :
                     GoodSymbol(rows[m]) /\ \A l \in 1..(m - 1) : ~SameImport(rows[l], rows[m])
    <3>1. n - 1 = row
      BY <1>1, <2>1
    <3> QED
      BY ONLY <3>1 DEF SymbolsRead
  <2> QED
    BY ONLY <2>1
<1>7. SymbolsRead(table, row) <=>
         \A m \in 1..(row - 1) :
            GoodSymbol(rows[m]) /\ \A l \in 1..(m - 1) : ~SameImport(rows[l], rows[m])
  BY DEF SymbolsRead
<1>8. SymbolsRead(table, L + 1) => SymbolsRead(table, row + 1)
  BY <1>1, <1>6 DEF SymbolsRead
<1>9. 1..row = 1..(row - 1) \cup {row}
  BY <1>1
<1>10. SymbolsRead(table, row + 1) <=> ~BadSymbol(Here)
  BY <1>1, <1>5, <1>6, <1>7, <1>9 DEF SymbolsAt
<1>11. (IF IsImport(Here) THEN imports \cup {Import(Here)} ELSE imports)
          = ImportsSeen(table, row + 1)
  BY <1>1, <1>9 DEF ImportsSeen
<1>12. BadSymbol(Here) => ~LegalSymbols(table)
  BY <1>1, <1>8, <1>10, LegalSymbolsIs DEF ImageInv
<1>13. table \in SymbolTables
  BY TheSymbolTable DEF SymbolsAt, ImageInv
<1> QED
  BY <1>10, <1>11, <1>12, <1>13 DEF SymbolsAt, LegalTables

LEMMA SymbolsDone ==
    ASSUME ImageInv, RowsDone("symbols"), SymbolsAt(table, row)
    PROVE  SymbolsLegal
<1>1. SymbolTables = {table} /\ table \in DOMAIN Sections
  BY TheSymbolTable DEF ImageInv, SymbolsAt
<1>2. row = Len(tables[table].rows) + 1
  BY <1>1, BehindRows, SectionsAreOrdered DEF ImageInv
<1>3. LegalSymbols(table)
  BY <1>1, <1>2, LegalSymbolsIs DEF ImageInv, SymbolsAt
<1> QED
  BY <1>1, <1>3 DEF SymbolsAt, SymbolsLegal

LEMMA RelocationRow ==
    ASSUME ImageInv, InRow("relocations"), RelocationsAt(table, row)
    PROVE  /\ ~BadRelocation(Here) => RelocationsAt(table, row + 1)
           /\ BadRelocation(Here) => ~LegalTables
<1> DEFINE rows == tables[table].rows
           L == Len(rows)
<1>1. /\ table \in DOMAIN Sections /\ Here = rows[row] /\ row \in 1..L /\ row + 1 - 1 = row
      /\ L \in Nat /\ L + 1 - 1 = L /\ table # 0
  BY AtRow, RowsOf DEF ImageInv
<1>2. Here \in Relocations /\ tables[table].info \in DOMAIN Sections
  BY <1>1, AtRow, RowsAre DEF InRow, ImageInv, StageInv
<1>3. BadRelocation(Here) <=> ~GoodRelocation(table, rows[row])
  BY <1>1, <1>2, BadRelocationIs DEF ImageInv
<1>4. 1..row = 1..(row - 1) \cup {row}
  BY <1>1
<1>5. RelocationsRead(table, row + 1) <=> ~BadRelocation(Here)
  BY <1>1, <1>3, <1>4 DEF RelocationsRead, RelocationsAt
<1>6. BadRelocation(Here) => ~LegalRelocations(table)
  BY <1>1, <1>3, LegalRelocationsIs DEF ImageInv, RelocationsRead
<1> QED
  BY <1>1, <1>5, <1>6 DEF RelocationsAt, LegalTables

\* The loop over the tables of a kind leaves none out.
LEMMA NoneBetween ==
    ASSUME ImageTypeOK, NEW kind, NEW k \in OfKind({kind})
    PROVE  /\ After(kind) = {} => k <= table /\ k < Len(Sections) + 1
           /\ After(kind) # {} => (k < Min(After(kind)) <=> k <= table)
<1>1. k \in DOMAIN Sections /\ k \in Nat /\ k < Len(Sections) + 1
  BY SectionsAreOrdered DEF OfKind, Sections
<1>2. table \in Nat
  BY SectionsAreOrdered DEF ImageTypeOK
<1>3. ~(k <= table) <=> k \in After(kind)
  BY <1>1, <1>2 DEF After
<1>4. ASSUME After(kind) # {} PROVE k < Min(After(kind)) <=> k <= table
  <2>1. /\ Min(After(kind)) \in After(kind)
        /\ \A n \in After(kind) : Min(After(kind)) <= n
    BY <1>4, FirstAfter
  <2>2. Min(After(kind)) \in Nat /\ Min(After(kind)) > table
    BY <2>1, SectionsAreOrdered DEF After, OfKind, Sections
  <2> QED
    BY <1>1, <1>2, <1>3, <2>1, <2>2
<1> QED
  BY <1>1, <1>3, <1>4

LEMMA RelocationsDone ==
    ASSUME ImageInv, RowsDone("relocations"), RelocationsAt(table, row)
    PROVE  /\ After("relocs") = {} => RelocationsLegal(Len(Sections) + 1)
           /\ After("relocs") # {} => RelocationsLegal(Min(After("relocs")))
<1>1. ASSUME NEW k \in OfKind({"relocs"}), k <= table PROVE LegalRelocations(k)
  <2>1. k \in Nat /\ table \in Nat /\ k # 0
    BY SectionsAreOrdered DEF OfKind, Sections, ImageInv, ImageTypeOK
  <2>2. CASE k < table
    BY <2>2 DEF RelocationsAt, RelocationsLegal
  <2>3. CASE k = table
    <3>1. table \in DOMAIN Sections /\ row = Len(tables[table].rows) + 1
      BY <2>1, <2>3, BehindRows DEF ImageInv
    <3> QED
      BY <2>1, <2>3, <3>1, LegalRelocationsIs DEF ImageInv, RelocationsAt
  <2> QED
    BY <1>1, <2>1, <2>2, <2>3
<1> QED
  BY <1>1, NoneBetween DEF RelocationsLegal, ImageInv

LEMMA ExportRow ==
    ASSUME ImageInv, InRow("exports"), ExportsAt(table, row), exports = ExportsSeen(table, row)
    PROVE  /\ ~BadExport(Here) =>
                 /\ ExportsAt(table, row + 1)
                 /\ exports \cup {ExportOf(Here)} = ExportsSeen(table, row + 1)
           /\ BadExport(Here) => ~LegalTables
<1> DEFINE rows == tables[table].rows
           L == Len(rows)
           now == <<table, row>>
           seen == ExportsBefore(table, row)
           all == ExportsBefore(Len(Sections) + 1, 1)
<1>1. /\ table \in DOMAIN Sections /\ Here = rows[row] /\ row \in 1..L /\ row + 1 - 1 = row
      /\ L \in Nat /\ L + 1 - 1 = L /\ table # 0 /\ DOMAIN rows = 1..L /\ table \in Nat
      /\ table < Len(Sections) + 1
  BY AtRow, RowsOf, SectionsAreOrdered DEF ImageInv
<1>2. Here \in Exports /\ Sections[table].kind = "exports"
  BY <1>1, AtRow, RowsAre DEF InRow, ImageInv, StageInv
<1>3. ExportAt(now) = ExportOf(Here)
  BY <1>1 DEF ExportAt, ExportOf, Sections
<1>4. ExportsBefore(table, row + 1) = seen \cup {now}
  <2>1. now \in ExportsBefore(table, row + 1)
    BY <1>1, <1>2 DEF ExportsBefore
  <2>2. ASSUME NEW p \in ExportsBefore(table, row + 1), p # now PROVE p \in seen
    <3>1. p = <<p[1], p[2]>> /\ p[1] \in Nat /\ p[2] \in Nat
      BY SectionsAreOrdered DEF ExportsBefore, ImageInv
    <3>2. p[1] # table \/ p[2] # row
      BY <2>2, <3>1
    <3> QED
      BY <1>1, <2>2, <3>1, <3>2 DEF ExportsBefore
  <2>3. seen \subseteq ExportsBefore(table, row + 1)
    BY <1>1 DEF ExportsBefore
  <2> QED
    BY <2>1, <2>2, <2>3
<1>5. now \notin seen
  BY <1>1 DEF ExportsBefore
<1>6. seen \cup {now} \subseteq all
  <2>1. now \in all
    BY <1>1, <1>2 DEF ExportsBefore
  <2>2. ASSUME NEW p \in seen PROVE p \in all
    <3>1. p[1] < Len(Sections) + 1
      BY SectionsAreOrdered DEF ExportsBefore, ImageInv
    <3> QED
      BY <3>1 DEF ExportsBefore
  <2> QED
    BY <2>1, <2>2
<1>7. /\ ExportOf(Here).name = Here.name
      /\ ExportOf(Here).function = ("exec" \in Sections[table].flags)
  BY DEF ExportOf, Sections
<1>8. BadExport(Here) <=> ~GoodExport(table, rows[row]) \/ \E p \in seen : SameExport(p, now)
  <2>1. BadExport(Here) <=>
           \/ ~GoodExport(table, Here)
           \/ \E y \in exports : y.name = Here.name /\ y.function = ("exec" \in Sections[table].flags)
    BY <1>2, BadExportIs DEF ImageInv
  <2>2. (\E y \in exports : y.name = Here.name /\ y.function = ("exec" \in Sections[table].flags))
           <=> \E p \in seen : SameExport(p, now)
    BY <1>3, <1>7 DEF ExportsSeen, SameExport
  <2> QED
    BY <1>1, <2>1, <2>2
<1>9. 1..row = 1..(row - 1) \cup {row}
  BY <1>1
<1>10. /\ ~BadExport(Here) => ExportsRead(table, row + 1)
       /\ ~GoodExport(table, rows[row]) => ~LegalExports(table)
  <2>1. ~BadExport(Here) => ExportsRead(table, row + 1)
    BY <1>1, <1>8, <1>9 DEF ExportsRead, ExportsAt
  <2>2. ~GoodExport(table, rows[row]) => ~LegalExports(table)
    BY <1>1, LegalExportsIs DEF ExportsRead, ImageInv
  <2> QED
    BY <2>1, <2>2
<1>11. \A p, q : SameExport(p, q) <=> SameExport(q, p)
  BY DEF SameExport
<1> HIDE DEF rows, L, now, seen, all
<1>12. ASSUME ~BadExport(Here)
       PROVE  \A p, q \in seen \cup {now} : SameExport(p, q) => p = q
  BY <1>8, <1>11, <1>12 DEF ExportsAt, seen
<1>13. ASSUME NEW p \in seen, SameExport(p, now)
       PROVE  ~(\A g, h \in all : SameExport(g, h) => g = h)
  BY <1>5, <1>6, <1>13
<1>14. exports \cup {ExportOf(Here)} = ExportsSeen(table, row + 1)
  BY <1>3, <1>4 DEF ExportsSeen, seen
<1>15. ~BadExport(Here) => ExportsAt(table, row + 1)
  BY <1>1, <1>4, <1>10, <1>12 DEF ExportsAt, seen
<1>16. BadExport(Here) => ~LegalTables
  <2>1. ~LegalExports(table) => ~ExportsLegal(Len(Sections) + 1)
    BY <1>1, <1>2 DEF ExportsLegal, OfKind, Sections
  <2> QED
    BY <1>8, <1>10, <1>13, <2>1, LegalTablesIs DEF ImageInv, all
<1> QED
  BY <1>14, <1>15, <1>16

LEMMA ExportsDone ==
    ASSUME ImageInv, RowsDone("exports"), ExportsAt(table, row)
    PROVE  /\ After("exports") = {} => ExportsLegal(Len(Sections) + 1)
           /\ After("exports") # {} => ExportsLegal(Min(After("exports")))
<1>1. ASSUME NEW k \in OfKind({"exports"}), k <= table PROVE LegalExports(k)
  <2>1. k \in Nat /\ table \in Nat /\ k # 0
    BY SectionsAreOrdered DEF OfKind, Sections, ImageInv, ImageTypeOK
  <2>2. CASE k < table
    BY <2>2 DEF ExportsAt, ExportsLegal
  <2>3. CASE k = table
    <3>1. table \in DOMAIN Sections /\ row = Len(tables[table].rows) + 1
      BY <2>1, <2>3, BehindRows DEF ImageInv
    <3> QED
      BY <2>1, <2>3, <3>1, LegalExportsIs DEF ImageInv, ExportsAt
  <2> QED
    BY <1>1, <2>1, <2>2, <2>3
<1> QED
  BY <1>1, NoneBetween DEF ExportsLegal, ImageInv

\* The exports before the next table are those up to the end of this one.
LEMMA ExportsUpTo ==
    ASSUME ImageInv, RowsDone("exports"), NEW k,
           \A j \in OfKind({"exports"}) : j < k <=> j <= table
    PROVE  ExportsBefore(k, 1) = ExportsBefore(table, row)
<1>1. ASSUME NEW p \in (DOMAIN Sections) \X Nat,
             Sections[p[1]].kind = "exports", p[2] \in DOMAIN tables[p[1]].rows
      PROVE  (p[1] < k \/ (p[1] = k /\ p[2] < 1)) <=> (p[1] < table \/ (p[1] = table /\ p[2] < row))
  <2>1. p[1] \in OfKind({"exports"}) /\ p[1] \in DOMAIN Sections /\ p[2] \in Nat
    BY <1>1 DEF OfKind, Sections
  <2>2. ~(p[2] < 1)
    BY <1>1, <2>1, RowsOf DEF ImageInv
  <2>3. p[1] \in Nat /\ p[1] # 0 /\ table \in Nat
    BY <2>1, SectionsAreOrdered DEF ImageInv, ImageTypeOK
  <2>4. p[1] = table => p[2] < row
    <3> SUFFICES ASSUME p[1] = table PROVE p[2] < row
      OBVIOUS
    <3>1. row = Len(tables[table].rows) + 1 /\ table \in DOMAIN Sections
      BY <2>3, BehindRows DEF ImageInv
    <3>2. p[2] \in 1..Len(tables[table].rows) /\ Len(tables[table].rows) \in Nat
      BY <1>1, <3>1, RowsOf DEF ImageInv
    <3> QED
      BY <3>1, <3>2
  <2>5. p[1] < k <=> p[1] <= table
    BY <2>1
  <2> QED
    BY <2>2, <2>3, <2>4, <2>5
<1> QED
  BY <1>1 DEF ExportsBefore

-----------------------------------------------------------------------------
(* The image and its tables stay the same, and so does what is said of them.*)

Same == image' = image /\ tables' = tables /\ metadata_ok' = metadata_ok

LEMMA SamePlaces ==
    ASSUME Same
    PROVE  /\ Sections' = Sections
           /\ \A name : Named(name)' = Named(name)
           /\ \A kinds : OfKind(kinds)' = OfKind(kinds)
           /\ SymbolTables' = SymbolTables /\ SymbolTable' = SymbolTable
<1>1. SymbolTables' = SymbolTables
  BY DEF Same, SymbolTables, OfKind
<1> QED
  BY <1>1 DEF Same, Sections, Named, OfKind, SymbolTable

LEMMA SameHooks ==
    ASSUME Same, NEW k, NEW n
    PROVE  /\ BadHooks(k)' <=> BadHooks(k)
           /\ HooksRead(k, n)' <=> HooksRead(k, n)
           /\ LegalHooks(k)' <=> LegalHooks(k)
<1>1. image' = image /\ tables' = tables
  BY DEF Same
<1>2. BadHooks(k)' <=> BadHooks(k)
  BY <1>1 DEF BadHooks
<1>3. HooksRead(k, n)' <=> HooksRead(k, n)
  BY <1>1 DEF HooksRead, GoodHook, PointsTo, Sections
<1>4. LegalHooks(k)' <=> LegalHooks(k)
  BY <1>1, <1>2, SMTT(30) DEF LegalHooks, PointsTo, Distinct, Sections
<1> QED
  BY <1>2, <1>3, <1>4

LEMMA SameLoad ==
    ASSUME Same, NEW k, NEW n
    PROVE  /\ BadLoad(k)' <=> BadLoad(k)
           /\ LoadRead(k, n)' <=> LoadRead(k, n)
           /\ LegalLoad(k)' <=> LegalLoad(k)
<1>1. image' = image /\ tables' = tables
  BY DEF Same
<1>2. BadLoad(k)' <=> BadLoad(k)
  BY <1>1 DEF BadLoad
<1>3. LoadRead(k, n)' <=> LoadRead(k, n)
  BY <1>1 DEF LoadRead, GoodReplacement, PointsTo, PointsToString, Sections
<1>4. LegalLoad(k)' <=> LegalLoad(k)
  BY <1>1, <1>2 DEF LegalLoad, PointsTo, PointsToString, Sections
<1> QED
  BY <1>2, <1>3, <1>4

LEMMA SameSymbols ==
    ASSUME Same, NEW k, NEW n
    PROVE  /\ BadSymbols(k)' <=> BadSymbols(k)
           /\ SymbolsRead(k, n)' <=> SymbolsRead(k, n)
           /\ LegalSymbols(k)' <=> LegalSymbols(k)
           /\ ImportsSeen(k, n)' = ImportsSeen(k, n)
<1>1. image' = image /\ tables' = tables
  BY DEF Same
<1>2. BadSymbols(k)' <=> BadSymbols(k)
  BY <1>1 DEF BadSymbols
<1>3. SymbolsRead(k, n)' <=> SymbolsRead(k, n)
  BY <1>1 DEF SymbolsRead, GoodSymbol, SameImport, IsImport, OfKind, Sections
<1>4. LegalSymbols(k)' <=> LegalSymbols(k)
  BY <1>1, <1>2 DEF LegalSymbols, OfKind, Sections
<1>5. ImportsSeen(k, n)' = ImportsSeen(k, n)
  BY <1>1 DEF ImportsSeen, Import, IsImport, OfKind
<1> QED
  BY <1>2, <1>3, <1>4, <1>5

LEMMA SameRelocations ==
    ASSUME Same, NEW k, NEW n
    PROVE  /\ BadRelocations(k)' <=> BadRelocations(k)
           /\ RelocationsRead(k, n)' <=> RelocationsRead(k, n)
           /\ LegalRelocations(k)' <=> LegalRelocations(k)
<1>1. image' = image /\ tables' = tables /\ SymbolTable' = SymbolTable
  BY SamePlaces DEF Same
<1>2. BadRelocations(k)' <=> BadRelocations(k)
  BY <1>1 DEF BadRelocations
<1>3. RelocationsRead(k, n)' <=> RelocationsRead(k, n)
  BY <1>1 DEF RelocationsRead, GoodRelocation, Sections
<1>4. LegalRelocations(k)' <=> LegalRelocations(k)
  BY <1>1, <1>2 DEF LegalRelocations, Sections
<1> QED
  BY <1>2, <1>3, <1>4

LEMMA SameExports ==
    ASSUME Same, NEW k, NEW n
    PROVE  /\ BadExports(k)' <=> BadExports(k)
           /\ ExportsRead(k, n)' <=> ExportsRead(k, n)
           /\ LegalExports(k)' <=> LegalExports(k)
           /\ ExportsBefore(k, n)' = ExportsBefore(k, n)
           /\ ExportsSeen(k, n)' = ExportsSeen(k, n)
           /\ \A p, q : SameExport(p, q)' <=> SameExport(p, q)
<1>1. image' = image /\ tables' = tables
  BY DEF Same
<1>2. BadExports(k)' <=> BadExports(k)
  BY <1>1 DEF BadExports
<1>3. ExportsRead(k, n)' <=> ExportsRead(k, n)
  BY <1>1 DEF ExportsRead, GoodExport, PointsTo, Sections
<1>4. LegalExports(k)' <=> LegalExports(k)
  BY <1>1, <1>2 DEF LegalExports, PointsTo, Sections
<1>5. ExportsBefore(k, n)' = ExportsBefore(k, n)
  BY <1>1 DEF ExportsBefore, Sections
<1>6. ExportsSeen(k, n)' = ExportsSeen(k, n)
  BY <1>1, <1>5 DEF ExportsSeen, ExportAt, Sections
<1>7. \A p, q : SameExport(p, q)' <=> SameExport(p, q)
  BY <1>1 DEF SameExport, ExportAt, Sections
<1> QED
  BY <1>2, <1>3, <1>4, <1>5, <1>6, <1>7

LEMMA SameReading ==
    ASSUME Same
    PROVE  /\ HooksLegal' <=> HooksLegal
           /\ LoadLegal' <=> LoadLegal
           /\ SymbolsLegal' <=> SymbolsLegal
           /\ \A k : RelocationsLegal(k)' <=> RelocationsLegal(k)
           /\ \A k : ExportsLegal(k)' <=> ExportsLegal(k)
           /\ \A k, n :
                 /\ HooksAt(k, n)' <=> HooksAt(k, n)
                 /\ LoadAt(k, n)' <=> LoadAt(k, n)
                 /\ SymbolsAt(k, n)' <=> SymbolsAt(k, n)
                 /\ RelocationsAt(k, n)' <=> RelocationsAt(k, n)
                 /\ ExportsAt(k, n)' <=> ExportsAt(k, n)
                 /\ HooksSeen(k, n)' = HooksSeen(k, n)
                 /\ ImportsSeen(k, n)' = ImportsSeen(k, n)
                 /\ ExportsSeen(k, n)' = ExportsSeen(k, n)
<1>1. metadata_ok' = metadata_ok /\ tables' = tables
  BY DEF Same
<1>2. /\ HooksLegal' <=> HooksLegal
      /\ \A k, n : (HooksAt(k, n)' <=> HooksAt(k, n)) /\ HooksSeen(k, n)' = HooksSeen(k, n)
  BY <1>1, SameHooks, SamePlaces DEF HooksLegal, HooksAt, HooksSeen
<1>3. /\ LoadLegal' <=> LoadLegal
      /\ \A k, n : LoadAt(k, n)' <=> LoadAt(k, n)
  BY SameLoad, SamePlaces DEF LoadLegal, LoadAt
<1>4. /\ SymbolsLegal' <=> SymbolsLegal
      /\ \A k, n : SymbolsAt(k, n)' <=> SymbolsAt(k, n)
  BY SameSymbols, SamePlaces DEF SymbolsLegal, SymbolsAt
<1>5. \A k : RelocationsLegal(k)' <=> RelocationsLegal(k)
  BY SameRelocations, SamePlaces DEF RelocationsLegal
<1>6. \A k, n : RelocationsAt(k, n)' <=> RelocationsAt(k, n)
  BY <1>5, SameRelocations, SamePlaces DEF RelocationsAt
<1>7. \A k : ExportsLegal(k)' <=> ExportsLegal(k)
  BY SameExports, SamePlaces DEF ExportsLegal
<1>8. \A k, n : ExportsAt(k, n)' <=> ExportsAt(k, n)
  BY <1>7, SameExports, SamePlaces DEF ExportsAt
<1> QED
  BY <1>2, <1>3, <1>4, <1>5, <1>6, <1>7, <1>8, SameSymbols, SameExports

LEMMA SameTables == ASSUME Same PROVE LegalTables' <=> LegalTables
<1>1. /\ \A k : /\ LegalHooks(k)' <=> LegalHooks(k)
                /\ LegalLoad(k)' <=> LegalLoad(k)
                /\ LegalSymbols(k)' <=> LegalSymbols(k)
                /\ LegalRelocations(k)' <=> LegalRelocations(k)
                /\ LegalExports(k)' <=> LegalExports(k)
      /\ metadata_ok' = metadata_ok
  BY SameHooks, SameLoad, SameSymbols, SameRelocations, SameExports DEF Same
<1>2. Distinct(OfKind({"exports"}), LAMBDA k, e : <<e.name, "exec" \in Sections[k].flags>>)'
         <=> Distinct(OfKind({"exports"}), LAMBDA k, e : <<e.name, "exec" \in Sections[k].flags>>)
  BY DEF Same, Distinct, OfKind, Sections
<1> QED
  BY <1>1, <1>2, SamePlaces DEF LegalTables

-----------------------------------------------------------------------------
(* Each step keeps ReadInv.                                                 *)

\* A stage is entered or goes on when what it has read is legal.
LEMMA ReadingHooks ==
    ASSUME Same, stage' = "hooks", imports' = {}, exports' = {},
           NEW k, NEW n, table' = k, row' = n, HooksAt(k, n), hooks' = HooksSeen(k, n)
    PROVE  ReadInv'
<1>1. HooksAt(k, n)' /\ HooksSeen(k, n)' = hooks'
  BY SameReading
<1>2. ImageAcceptsExactly'
  BY DEF ImageAcceptsExactly
<1> QED
  BY <1>1, <1>2 DEF ReadInv

LEMMA ReadingLoad ==
    ASSUME Same, stage' = "load", imports' = {}, exports' = {}, HooksLegal,
           NEW k, NEW n, table' = k, row' = n, LoadAt(k, n)
    PROVE  ReadInv'
<1>1. HooksLegal' /\ LoadAt(k, n)'
  BY SameReading
<1>2. ImageAcceptsExactly'
  BY DEF ImageAcceptsExactly
<1> QED
  BY <1>1, <1>2 DEF ReadInv

LEMMA ReadingSymbols ==
    ASSUME Same, stage' = "symbols", exports' = {}, HooksLegal, LoadLegal,
           NEW k, NEW n, table' = k, row' = n, SymbolsAt(k, n), imports' = ImportsSeen(k, n)
    PROVE  ReadInv'
<1>1. HooksLegal' /\ LoadLegal' /\ SymbolsAt(k, n)' /\ ImportsSeen(k, n)' = imports'
  BY SameReading
<1>2. ImageAcceptsExactly'
  BY DEF ImageAcceptsExactly
<1> QED
  BY <1>1, <1>2 DEF ReadInv

LEMMA ReadingRelocations ==
    ASSUME Same, stage' = "relocations", exports' = {}, HooksLegal, LoadLegal, SymbolsLegal,
           NEW k, NEW n, table' = k, row' = n, RelocationsAt(k, n)
    PROVE  ReadInv'
<1>1. HooksLegal' /\ LoadLegal' /\ SymbolsLegal' /\ RelocationsAt(k, n)'
  BY SameReading
<1>2. ImageAcceptsExactly'
  BY DEF ImageAcceptsExactly
<1> QED
  BY <1>1, <1>2 DEF ReadInv

LEMMA ReadingExports ==
    ASSUME Same, stage' = "exports", HooksLegal, LoadLegal, SymbolsLegal,
           RelocationsLegal(Len(Sections) + 1),
           NEW k, NEW n, table' = k, row' = n, ExportsAt(k, n), exports' = ExportsSeen(k, n)
    PROVE  ReadInv'
<1>1. /\ HooksLegal' /\ LoadLegal' /\ SymbolsLegal'
      /\ ExportsAt(k, n)' /\ ExportsSeen(k, n)' = exports'
  BY SameReading
<1>2. RelocationsLegal(Len(Sections) + 1)'
  <2>1. \A m : m = Len(Sections) + 1 => RelocationsLegal(m)'
    BY SameReading
  <2>2. Sections' = Sections
    BY SamePlaces
  <2>3. ASSUME NEW j \in OfKind({"relocs"})', j < Len(Sections') + 1
        PROVE  LegalRelocations(j)'
    BY <2>1, <2>2, <2>3 DEF RelocationsLegal
  <2> QED
    BY <2>3 DEF RelocationsLegal
<1>3. ImageAcceptsExactly'
  BY DEF ImageAcceptsExactly
<1> QED
  BY <1>1, <1>2, <1>3 DEF ReadInv

LEMMA Rejecting == ASSUME RejectImage, ~LegalTables PROVE ReadInv'
<1>1. stage' = "rejected" /\ Same
  BY DEF RejectImage, Unmoved, Same, vars
<1>2. ~LegalTables'
  BY <1>1, SameTables
<1> QED
  BY <1>1, <1>2 DEF ReadInv, ImageAcceptsExactly

LEMMA CheckMetadataReads ==
    ASSUME ImageInv, UniqueNames, ReadInv, CheckMetadata
    PROVE  ReadInv'
<1> DEFINE k == CHOOSE k \in Named(hooks_name) : TRUE
<1>1. CASE ~(metadata_ok /\ Named(hooks_name) # {})
  BY <1>1, Rejecting DEF CheckMetadata, LegalTables
<1>2. CASE metadata_ok /\ Named(hooks_name) # {}
  <2>1. EnterTable("hooks", k, BadHooks(k)) /\ stage = "metadata"
    BY <1>2 DEF CheckMetadata
  <2>2. k \in Named(hooks_name)
    BY <1>2
  <2> HIDE DEF k
  <2>3. CASE BadHooks(k)
    BY <2>1, <2>2, <2>3, Rejecting DEF EnterTable, LegalTables, LegalHooks
  <2>4. CASE ~BadHooks(k)
    <3>1. /\ stage' = "hooks" /\ table' = k /\ row' = 1 /\ Same
          /\ hooks' = {} /\ imports' = {} /\ exports' = {}
      BY <2>1, <2>4 DEF EnterTable, Unmoved, Same, vars, found, ReadInv, Stages
    <3>2. HooksAt(k, 1) /\ HooksSeen(k, 1) = {}
      BY <1>2, <2>2, <2>4 DEF HooksAt, HooksRead, HooksSeen
    <3> QED
      BY <3>1, <3>2, ReadingHooks
  <2> QED
    BY <2>3, <2>4
<1> QED
  BY <1>1, <1>2

LEMMA OpenLoadReads ==
    ASSUME ImageInv, UniqueNames, ReadInv, OpenLoad
    PROVE  ReadInv'
<1> DEFINE k == CHOOSE k \in Named(load_name) : TRUE
<1>1. RowsDone("hooks") /\ stage = "hooks"
  BY DEF OpenLoad, RowsDone
<1>2. HooksLegal
  BY <1>1, HooksDone DEF ReadInv
<1>3. imports = {} /\ exports = {}
  BY <1>1 DEF ReadInv, Stages
<1>4. CASE Named(load_name) = {}
  <2>1. /\ stage' = "load" /\ table' = 0 /\ row' = 1 /\ Same
        /\ imports' = {} /\ exports' = {}
    BY <1>3, <1>4 DEF OpenLoad, SkipTo, Unmoved, Same, vars, found
  <2>2. LoadAt(0, 1)
    BY <1>4 DEF LoadAt
  <2> QED
    BY <1>2, <2>1, <2>2, ReadingLoad
<1>5. CASE Named(load_name) # {}
  <2>1. EnterTable("load", k, BadLoad(k))
    BY <1>5 DEF OpenLoad
  <2>2. k \in Named(load_name)
    BY <1>5
  <2> HIDE DEF k
  <2>3. CASE BadLoad(k)
    BY <2>1, <2>2, <2>3, Rejecting DEF EnterTable, LegalTables, LegalLoad
  <2>4. CASE ~BadLoad(k)
    <3>1. /\ stage' = "load" /\ table' = k /\ row' = 1 /\ Same
          /\ imports' = {} /\ exports' = {}
      BY <1>3, <2>1, <2>4 DEF EnterTable, Unmoved, Same, vars, found
    <3>2. k # 0
      BY <2>2, SectionsAreOrdered DEF Named, Sections, ImageInv
    <3>3. LoadAt(k, 1)
      BY <2>2, <2>4, <3>2 DEF LoadAt, LoadRead
    <3> QED
      BY <1>2, <3>1, <3>3, ReadingLoad
  <2> QED
    BY <2>3, <2>4
<1> QED
  BY <1>4, <1>5

LEMMA OpenSymbolsReads ==
    ASSUME ImageInv, UniqueNames, ReadInv, OpenSymbols
    PROVE  ReadInv'
<1>1. RowsDone("load") /\ stage = "load"
  BY DEF OpenSymbols, RowsDone
<1>2. HooksLegal /\ LoadLegal
  BY <1>1, LoadDone DEF ReadInv
<1>3. imports = {} /\ exports = {}
  BY <1>1 DEF ReadInv, Stages
<1>4. CASE Cardinality(SymbolTables) # 1
  BY <1>4, Rejecting DEF OpenSymbols, LegalTables
<1>5. CASE Cardinality(SymbolTables) = 1
  <2>1. EnterTable("symbols", SymbolTable, BadSymbols(SymbolTable))
    BY <1>5 DEF OpenSymbols
  <2>2. SymbolTable \in SymbolTables
    BY <1>5, TheSymbolTable DEF ImageInv
  <2>3. CASE BadSymbols(SymbolTable)
    BY <2>1, <2>2, <2>3, Rejecting DEF EnterTable, LegalTables, LegalSymbols
  <2>4. CASE ~BadSymbols(SymbolTable)
    <3>1. /\ stage' = "symbols" /\ table' = SymbolTable /\ row' = 1 /\ Same
          /\ imports' = {} /\ exports' = {}
      BY <1>3, <2>1, <2>4 DEF EnterTable, Unmoved, Same, vars, found
    <3>2. SymbolsAt(SymbolTable, 1) /\ ImportsSeen(SymbolTable, 1) = {}
      BY <1>5, <2>4 DEF SymbolsAt, SymbolsRead, ImportsSeen
    <3> QED
      BY <1>2, <3>1, <3>2, ReadingSymbols
  <2> QED
    BY <2>3, <2>4
<1> QED
  BY <1>4, <1>5

LEMMA OpenRelocationsReads ==
    ASSUME ImageInv, ReadInv, OpenRelocations
    PROVE  ReadInv'
<1> DEFINE k == Min(After("relocs"))
<1>1. CASE RowsDone("symbols") /\ SkipTo("relocations")
  <2>1. stage = "symbols"
    BY <1>1 DEF RowsDone
  <2>2. HooksLegal /\ LoadLegal /\ SymbolsLegal /\ exports = {}
    BY <1>1, <2>1, SymbolsDone DEF ReadInv, Stages
  <2>3. stage' = "relocations" /\ table' = 0 /\ row' = 1 /\ Same /\ exports' = {}
    BY <1>1, <2>2 DEF SkipTo, Unmoved, Same, vars, found
  <2>4. RelocationsAt(0, 1)
    BY SectionsAreOrdered DEF RelocationsAt, RelocationsLegal, OfKind, Sections, ImageInv
  <2> QED
    BY <2>2, <2>3, <2>4, ReadingRelocations
<1>2. CASE /\ RowsDone("relocations") /\ After("relocs") # {}
           /\ EnterTable("relocations", k, BadRelocations(k))
  <2>1. stage = "relocations"
    BY <1>2 DEF RowsDone
  <2>2. HooksLegal /\ LoadLegal /\ SymbolsLegal /\ exports = {} /\ RelocationsAt(table, row)
    BY <2>1 DEF ReadInv, Stages
  <2>3. RelocationsLegal(k)
    BY <1>2, <2>2, RelocationsDone
  <2>4. k \in OfKind({"relocs"})
    BY <1>2, FirstAfter DEF After, ImageInv
  <2> HIDE DEF k
  <2>5. CASE BadRelocations(k)
    BY <1>2, <2>4, <2>5, Rejecting DEF EnterTable, LegalTables, LegalRelocations
  <2>6. CASE ~BadRelocations(k)
    <3>1. stage' = "relocations" /\ table' = k /\ row' = 1 /\ Same /\ exports' = {}
      BY <1>2, <2>2, <2>6 DEF EnterTable, Unmoved, Same, vars, found
    <3>2. RelocationsAt(k, 1)
      BY <2>3, <2>4, <2>6 DEF RelocationsAt, RelocationsRead
    <3> QED
      BY <2>2, <3>1, <3>2, ReadingRelocations
  <2> QED
    BY <2>5, <2>6
<1> QED
  BY <1>1, <1>2 DEF OpenRelocations

LEMMA OpenExportsReads ==
    ASSUME ImageInv, ReadInv, OpenExports
    PROVE  ReadInv'
<1> DEFINE k == Min(After("exports"))
<1>1. CASE RowsDone("relocations") /\ After("relocs") = {} /\ SkipTo("exports")
  <2>1. stage = "relocations"
    BY <1>1 DEF RowsDone
  <2>2. HooksLegal /\ LoadLegal /\ SymbolsLegal /\ exports = {} /\ RelocationsAt(table, row)
    BY <2>1 DEF ReadInv, Stages
  <2>3. RelocationsLegal(Len(Sections) + 1)
    BY <1>1, <2>2, RelocationsDone
  <2>4. stage' = "exports" /\ table' = 0 /\ row' = 1 /\ Same /\ exports' = {}
    BY <1>1, <2>2 DEF SkipTo, Unmoved, Same, vars, found
  <2>5. ExportsBefore(0, 1) = {}
    BY SectionsAreOrdered DEF ExportsBefore, ImageInv
  <2>6. ExportsAt(0, 1) /\ ExportsSeen(0, 1) = {}
    BY <2>5, SectionsAreOrdered DEF ExportsAt, ExportsLegal, ExportsSeen, OfKind, Sections, ImageInv
  <2> QED
    BY <2>2, <2>3, <2>4, <2>6, ReadingExports
<1>2. CASE /\ RowsDone("exports") /\ After("exports") # {}
           /\ EnterTable("exports", k, BadExports(k))
  <2>1. stage = "exports"
    BY <1>2 DEF RowsDone
  <2>2. /\ HooksLegal /\ LoadLegal /\ SymbolsLegal /\ RelocationsLegal(Len(Sections) + 1)
        /\ ExportsAt(table, row) /\ exports = ExportsSeen(table, row)
    BY <2>1 DEF ReadInv
  <2>3. ExportsLegal(k)
    BY <1>2, <2>2, ExportsDone
  <2>4. k \in OfKind({"exports"})
    BY <1>2, FirstAfter DEF After, ImageInv
  <2>5. ExportsBefore(k, 1) = ExportsBefore(table, row)
    BY <1>2, NoneBetween, ExportsUpTo DEF ImageInv
  <2> HIDE DEF k
  <2>6. CASE BadExports(k)
    BY <1>2, <2>4, <2>6, Rejecting DEF EnterTable, LegalTables, LegalExports
  <2>7. CASE ~BadExports(k)
    <3>1. stage' = "exports" /\ table' = k /\ row' = 1 /\ Same /\ exports' = exports
      BY <1>2, <2>7 DEF EnterTable, Unmoved, Same, vars, found
    <3>2. ExportsAt(k, 1) /\ ExportsSeen(k, 1) = exports
      BY <2>2, <2>3, <2>4, <2>5, <2>7 DEF ExportsAt, ExportsRead, ExportsSeen
    <3> QED
      BY <2>2, <3>1, <3>2, ReadingExports
  <2> QED
    BY <2>6, <2>7
<1> QED
  BY <1>1, <1>2 DEF OpenExports

LEMMA AcceptReads ==
    ASSUME ImageInv, ReadInv, Accept
    PROVE  ReadInv'
<1>1. RowsDone("exports") /\ After("exports") = {} /\ stage = "exports"
  BY DEF Accept, RowsDone
<1>2. /\ HooksLegal /\ LoadLegal /\ SymbolsLegal /\ RelocationsLegal(Len(Sections) + 1)
      /\ ExportsAt(table, row)
  BY <1>1 DEF ReadInv
<1>3. ExportsLegal(Len(Sections) + 1)
  BY <1>1, <1>2, ExportsDone
<1>4. ExportsBefore(Len(Sections) + 1, 1) = ExportsBefore(table, row)
  BY <1>1, NoneBetween, ExportsUpTo DEF ImageInv
<1>5. LegalTables
  BY <1>2, <1>3, <1>4, LegalTablesIs DEF ImageInv, ExportsAt
<1>6. stage' = "accepted" /\ Same
  BY DEF Accept, Unmoved, Same, vars
<1> QED
  BY <1>5, <1>6, SameTables DEF ReadInv, ImageAcceptsExactly

LEMMA RowReads ==
    ASSUME ImageInv, ReadInv,
           ReadHook \/ ReadReplacement \/ ReadSymbol \/ ReadRelocation \/ ReadExport
    PROVE  ReadInv'
<1>1. Same /\ stage' = stage /\ table' = table /\ row' = row + 1
  BY DEF ReadHook, ReadReplacement, ReadSymbol, ReadRelocation, ReadExport, NextRow, Same, vars
<1>2. CASE ReadHook
  <2>1. /\ InRow("hooks") /\ stage = "hooks" /\ ~BadHook(Here) /\ hooks' = hooks \cup {Here}
        /\ UNCHANGED <<imports, exports>>
    BY <1>2 DEF ReadHook, InRow
  <2>2. HooksAt(table, row) /\ hooks = HooksSeen(table, row) /\ imports = {} /\ exports = {}
    BY <2>1 DEF ReadInv, Stages
  <2> QED
    BY <1>1, <2>1, <2>2, HookRow, ReadingHooks
<1>3. CASE ReadReplacement
  <2>1. /\ InRow("load") /\ stage = "load" /\ ~BadReplacement(Here)
        /\ UNCHANGED <<imports, exports>>
    BY <1>3 DEF ReadReplacement, InRow
  <2>2. HooksLegal /\ LoadAt(table, row) /\ imports = {} /\ exports = {}
    BY <2>1 DEF ReadInv, Stages
  <2> QED
    BY <1>1, <2>1, <2>2, LoadRow, ReadingLoad
<1>4. CASE ReadSymbol
  <2>1. /\ InRow("symbols") /\ stage = "symbols" /\ ~BadSymbol(Here)
        /\ imports' = IF IsImport(Here) THEN imports \cup {Import(Here)} ELSE imports
        /\ exports' = exports
    BY <1>4 DEF ReadSymbol, InRow
  <2>2. /\ HooksLegal /\ LoadLegal /\ SymbolsAt(table, row)
        /\ imports = ImportsSeen(table, row) /\ exports = {}
    BY <2>1 DEF ReadInv, Stages
  <2> QED
    BY <1>1, <2>1, <2>2, SymbolRow, ReadingSymbols
<1>5. CASE ReadRelocation
  <2>1. /\ InRow("relocations") /\ stage = "relocations" /\ ~BadRelocation(Here)
        /\ exports' = exports
    BY <1>5 DEF ReadRelocation, InRow
  <2>2. HooksLegal /\ LoadLegal /\ SymbolsLegal /\ RelocationsAt(table, row) /\ exports = {}
    BY <2>1 DEF ReadInv, Stages
  <2> QED
    BY <1>1, <2>1, <2>2, RelocationRow, ReadingRelocations
<1>6. CASE ReadExport
  <2>1. /\ InRow("exports") /\ stage = "exports" /\ ~BadExport(Here)
        /\ exports' = exports \cup {ExportOf(Here)}
    BY <1>6 DEF ReadExport, InRow
  <2>2. /\ HooksLegal /\ LoadLegal /\ SymbolsLegal /\ RelocationsLegal(Len(Sections) + 1)
        /\ ExportsAt(table, row) /\ exports = ExportsSeen(table, row)
    BY <2>1 DEF ReadInv
  <2> QED
    BY <1>1, <2>1, <2>2, ExportRow, ReadingExports
<1> QED
  BY <1>2, <1>3, <1>4, <1>5, <1>6

LEMMA RefuseReads ==
    ASSUME ImageInv, ReadInv, RefuseRow
    PROVE  ReadInv'
<1>1. CASE InRow("hooks") /\ BadHook(Here)
  <2>1. stage = "hooks"
    BY <1>1 DEF InRow
  <2>2. HooksAt(table, row) /\ hooks = HooksSeen(table, row)
    BY <2>1 DEF ReadInv
  <2> QED
    BY <1>1, <2>2, HookRow, Rejecting DEF RefuseRow
<1>2. CASE InRow("load") /\ BadReplacement(Here)
  <2>1. stage = "load"
    BY <1>2 DEF InRow
  <2>2. LoadAt(table, row)
    BY <2>1 DEF ReadInv
  <2> QED
    BY <1>2, <2>2, LoadRow, Rejecting DEF RefuseRow
<1>3. CASE InRow("symbols") /\ BadSymbol(Here)
  <2>1. stage = "symbols"
    BY <1>3 DEF InRow
  <2>2. SymbolsAt(table, row) /\ imports = ImportsSeen(table, row)
    BY <2>1 DEF ReadInv
  <2> QED
    BY <1>3, <2>2, SymbolRow, Rejecting DEF RefuseRow
<1>4. CASE InRow("relocations") /\ BadRelocation(Here)
  <2>1. stage = "relocations"
    BY <1>4 DEF InRow
  <2>2. RelocationsAt(table, row)
    BY <2>1 DEF ReadInv
  <2> QED
    BY <1>4, <2>2, RelocationRow, Rejecting DEF RefuseRow
<1>5. CASE InRow("exports") /\ BadExport(Here)
  <2>1. stage = "exports"
    BY <1>5 DEF InRow
  <2>2. ExportsAt(table, row) /\ exports = ExportsSeen(table, row)
    BY <2>1 DEF ReadInv
  <2> QED
    BY <1>5, <2>2, ExportRow, Rejecting DEF RefuseRow
<1> QED
  BY <1>1, <1>2, <1>3, <1>4, <1>5 DEF RefuseRow

\* Steps that neither open a table nor read a row.
LEMMA IdleReads ==
    ASSUME ReadInv, Same, UNCHANGED <<stage, table, row, found>>
    PROVE  ReadInv'
<1>1. UNCHANGED <<stage, table, row, hooks, imports, exports>>
  BY DEF found
<1>2. RelocationsLegal(Len(Sections) + 1)' <=> RelocationsLegal(Len(Sections) + 1)
  <2>1. Sections' = Sections
    BY SamePlaces
  <2>2. \A k : (k \in OfKind({"relocs"}))' <=> k \in OfKind({"relocs"})
    BY SamePlaces
  <2>3. \A k : LegalRelocations(k)' <=> LegalRelocations(k)
    BY SameRelocations
  <2> QED
    BY <2>1, <2>2, <2>3 DEF RelocationsLegal
<1>3. ImageAcceptsExactly'
  BY <1>1, SameTables DEF ReadInv, ImageAcceptsExactly
<1>4. CASE stage = "metadata"
  BY <1>1, <1>3, <1>4 DEF ReadInv, Stages
<1>5. CASE stage = "hooks"
  <2>1. HooksAt(table, row) /\ hooks = HooksSeen(table, row) /\ imports = {} /\ exports = {}
    BY <1>5 DEF ReadInv, Stages
  <2> QED
    BY <1>1, <1>5, <2>1, ReadingHooks
<1>6. CASE stage = "load"
  <2>1. HooksLegal /\ LoadAt(table, row) /\ imports = {} /\ exports = {}
    BY <1>6 DEF ReadInv, Stages
  <2> QED
    BY <1>1, <1>6, <2>1, ReadingLoad
<1>7. CASE stage = "symbols"
  <2>1. /\ HooksLegal /\ LoadLegal /\ SymbolsAt(table, row)
        /\ imports = ImportsSeen(table, row) /\ exports = {}
    BY <1>7 DEF ReadInv, Stages
  <2> QED
    BY <1>1, <1>7, <2>1, ReadingSymbols
<1>8. CASE stage = "relocations"
  <2>1. HooksLegal /\ LoadLegal /\ SymbolsLegal /\ RelocationsAt(table, row) /\ exports = {}
    BY <1>8 DEF ReadInv, Stages
  <2> QED
    BY <1>1, <1>8, <2>1, ReadingRelocations
<1>9. CASE stage = "exports"
  <2>1. /\ HooksLegal /\ LoadLegal /\ SymbolsLegal /\ RelocationsLegal(Len(Sections) + 1)
        /\ ExportsAt(table, row) /\ exports = ExportsSeen(table, row)
    BY <1>9 DEF ReadInv
  <2> QED
    BY <1>1, <1>9, <2>1, ReadingExports
<1>10. CASE stage \notin {"metadata", "hooks", "load", "symbols", "relocations", "exports"}
  BY <1>1, <1>3, <1>10 DEF ReadInv, Stages
<1> QED
  BY <1>4, <1>5, <1>6, <1>7, <1>8, <1>9, <1>10

LEMMA ReadStep ==
    ImageInv /\ AcceptsExactly /\ ReadInv /\ [ImageNext]_image_vars => ReadInv'
<1> SUFFICES ASSUME ImageInv, AcceptsExactly, ReadInv, [ImageNext]_image_vars PROVE ReadInv'
  OBVIOUS
<1>1. phase = "accepted" => UniqueNames
  BY LegalNamesUnique DEF AcceptsExactly, ImageInv
<1>2. CASE SectionStep
  <2>1. image' = image /\ UNCHANGED <<tables, metadata_ok, stage, table, row, found>>
    BY <1>2, SectionsFrozen DEF SectionStep
  <2> QED
    BY <2>1, IdleReads DEF Same
<1>3. CASE CheckMetadata
  BY <1>1, <1>3, CheckMetadataReads DEF CheckMetadata
<1>4. CASE OpenLoad
  BY <1>1, <1>4, OpenLoadReads DEF OpenLoad, RowsDone, ImageInv, ImageTypeOK
<1>5. CASE OpenSymbols
  BY <1>1, <1>5, OpenSymbolsReads DEF OpenSymbols, RowsDone, ImageInv, ImageTypeOK
<1>6. CASE UNCHANGED image_vars
  BY <1>6, IdleReads DEF image_vars, vars, Same
<1> QED
  BY <1>2, <1>3, <1>4, <1>5, <1>6, OpenRelocationsReads, OpenExportsReads, AcceptReads, RowReads,
     RefuseReads DEF ImageNext, TableStep

\* The loops over the tables, which stop at the first bad row and compare a
\* row with the rows before it, accept exactly the images whose tables are
\* legal as a whole.
THEOREM ImageAcceptsTheLegal == ImageSpec => []ImageAcceptsExactly
<1>1. ImageInit => ReadInv
  BY DEF ImageInit, ReadInv, ImageAcceptsExactly
<1>2. ImageSpec => []AcceptsExactly
  BY ImplementsSections, SectionsAcceptExactly, PTL
<1>3. ImageSpec => []ReadInv
  BY <1>1, <1>2, ReadStep, ImageInvariance, PTL DEF ImageSpec
<1>4. ReadInv => ImageAcceptsExactly
  BY DEF ReadInv
<1> QED
  BY <1>3, <1>4, PTL
=============================================================================
