------------------------------ MODULE WpsImage ------------------------------
(***************************************************************************)
(* The whole of inspect_wups in tools/cemodlib.py: the section checks of    *)
(* WpsSections, then the tables inside the sections: hooks, replacements,   *)
(* symbols and imports, relocations, exports.                               *)
(*                                                                         *)
(* The rows of a table are records of the fields the checks look at.  An    *)
(* index that counts from 0 in the file counts from 1 here.                 *)
(***************************************************************************)
EXTENDS WpsSections

CONSTANTS
    Contents,          \* for each image, what its tables may hold
    hooks_name, load_name,             \* ".wups.hooks", ".wups.load"
    FunctionImports, DataImports,      \* ".fimport_*", ".dimport_*"
    BadModules,        \* import section names with a bad module name
    Symbols,           \* symbol, import and export names
    MAX_HOOK, MAX_HOOKS, MAX_REPLACEMENT, MAX_REPLACEMENTS, MAX_LIBRARY, FIXED,
    Processes,         \* PROCESS_TARGETS
    MAX_EXPORTS,
    POINTER            \* the bytes of a pointer's target: 4

(* named: a non-empty string is read at the pointer, or at the two pointers *)
Hooks == [kind: Nat, target: Nat]
Replacements == [kind: Nat, fixed: BOOLEAN, library: Nat, process: Nat, target: Nat,
                 call_addr: Nat, name: Nat, replacement: Nat, named: BOOLEAN]
SymbolRows == [name: Symbols \cup {Unnamed, BadName}, value: Nat, section: Nat,
               type: {"object", "function", "other"}]
\* width: the bytes a relocation of that type patches, -1 for a type that is not known
Relocations == [target: Nat, symbol: Nat, width: {-1, 0, 2, 4}]
Exports == [address: Nat, name: Symbols \cup {Unnamed, BadName}]

RowsIn(s) ==
    CASE s.kind = "progbits" /\ s.name = hooks_name -> Hooks
      [] s.kind = "progbits" /\ s.name = load_name -> Replacements
      [] s.kind \in {"symtab", "dynsym"} -> SymbolRows
      [] s.kind = "relocs" -> Relocations
      [] s.kind = "exports" -> Exports
      [] OTHER -> {}

(* whole: the size of the section fits its rows, and the size the header   *)
(* gives for a row is that of its type                                      *)
Tables(s) == [whole: BOOLEAN, link: Nat, info: Nat, rows: Seq(RowsIn(s))]

ASSUME ContentsAssumption ==
    /\ DOMAIN Contents = Images
    /\ \A i \in Images : \A t \in Contents[i] :
          /\ DOMAIN t = DOMAIN i.sections
          /\ \A k \in DOMAIN t : t[k] \in Tables(i.sections[k])
    /\ hooks_name # load_name /\ {hooks_name, load_name} \subseteq SectionNames
    /\ FunctionImports \cap DataImports = {}
    /\ {Unnamed, BadName} \cap Symbols = {}
    /\ {MAX_HOOK, MAX_HOOKS, MAX_REPLACEMENT, MAX_REPLACEMENTS, MAX_LIBRARY, FIXED, MAX_EXPORTS}
          \subseteq Nat
    /\ FIXED <= MAX_LIBRARY
    /\ POINTER \in Nat \ {0}

VARIABLES
    tables,       \* the tables of the image, by section
    metadata_ok,  \* what WpsMetadata decides about ".wups.meta"
    stage,        \* the loop over tables, or the outcome
    table, row,   \* where it is
    hooks, replacements, imports, relocations, exports

found == <<hooks, replacements, imports, relocations, exports>>
image_vars == <<vars, tables, metadata_ok, stage, table, row, found>>

Stages == {"metadata", "hooks", "load", "symbols", "relocations", "exports",
           "accepted", "rejected"}

-----------------------------------------------------------------------------
DataOf(s) == s.kind # "nobits" /\ expanded_size(s) > 0

\* guest_range, for pointers that must lie in a section with the flags
guest_range(address, size, flags) ==
    \E k \in DOMAIN image.sections :
        LET s == image.sections[k]
        IN  /\ flags \subseteq s.flags
            /\ address >= s.address
            /\ address - s.address <= expanded_size(s)
            /\ size <= expanded_size(s) - (address - s.address)

\* guest_string finds a section, before it looks for a string there
guest_string(address) ==
    \E k \in DOMAIN image.sections :
        LET s == image.sections[k]
        IN  /\ Allocated(s) /\ DataOf(s)
            /\ address >= s.address /\ address - s.address < expanded_size(s)

Exec == {"alloc", "exec"}
Write == {"alloc", "write"}

Named(name) == {k \in DOMAIN image.sections : image.sections[k].name = name}
OfKind(kinds) == {k \in DOMAIN image.sections : image.sections[k].kind \in kinds}

Rows == IF table = 0 THEN <<>> ELSE tables[table].rows
Here == Rows[row]

-----------------------------------------------------------------------------
(* The checks on a table as a whole.                                        *)

BadHooks(k) ==
    \/ image.sections[k].kind # "progbits" \/ ~Allocated(image.sections[k])
    \/ ~tables[k].whole
    \/ Len(tables[k].rows) \notin 1..MAX_HOOKS

BadLoad(k) ==
    \/ image.sections[k].kind # "progbits" \/ ~Allocated(image.sections[k])
    \/ ~tables[k].whole
    \/ Len(tables[k].rows) > MAX_REPLACEMENTS

BadSymbols(k) ==
    \/ ~tables[k].whole
    \/ tables[k].link \notin DOMAIN image.sections
    \/ LET strings == image.sections[tables[k].link]
       IN  strings.kind # "strtab" \/ ~DataOf(strings) \/ ~strings.terminated

SymbolTables == OfKind({"symtab", "dynsym"})
SymbolTable == CHOOSE k \in SymbolTables : TRUE

BadRelocations(k) ==
    \/ ~tables[k].whole
    \/ tables[k].link # SymbolTable
    \/ tables[k].info \notin DOMAIN image.sections

BadExports(k) == ~tables[k].whole \/ Len(tables[k].rows) > MAX_EXPORTS

-----------------------------------------------------------------------------
(* The checks on a row.                                                     *)

\* mutant: a hook needs only allocated memory
BadHook_AnyMemory(h) ==
    \/ h.kind > MAX_HOOK
    \/ \E g \in hooks : g.kind = h.kind
    \/ h.target % POINTER # 0 \/ ~guest_range(h.target, POINTER, {"alloc"})

BadHook(h) ==
    \/ h.kind > MAX_HOOK
    \/ \E g \in hooks : g.kind = h.kind
    \/ h.target % POINTER # 0 \/ ~guest_range(h.target, POINTER, Exec)

BadReplacement(r) ==
    \/ r.kind > MAX_REPLACEMENT \/ r.library > MAX_LIBRARY \/ r.process \notin Processes
    \/ r.target % POINTER # 0 \/ ~guest_range(r.target, POINTER, Exec)
    \/ r.call_addr % POINTER # 0 \/ ~guest_range(r.call_addr, POINTER, Write)
    \/ r.fixed # (r.library = FIXED)
    \/ ~guest_string(r.name) \/ ~guest_string(r.replacement) \/ ~r.named

IsImport(s) == s.section \in OfKind({"import"})

Import(s) ==
    [section |-> s.section, name |-> s.name, value |-> s.value,
     function |-> image.sections[s.section].name \in FunctionImports]

BadImport(s) ==
    LET stub == image.sections[s.section]
    IN  \/ stub.name \notin FunctionImports \cup DataImports
        \/ s.name = Unnamed
        \/ s.type # (IF stub.name \in FunctionImports THEN "function" ELSE "object")
        \/ stub.name \in BadModules
        \/ s.value < stub.address \/ s.value - stub.address >= expanded_size(stub)
        \/ \E i \in imports : i.section = s.section /\ i.name = s.name

BadSymbol(s) == s.name = BadName \/ (IsImport(s) /\ BadImport(s))

\* mutant: only the first byte of a patch is compared with the section
BadRelocation_Start(r) ==
    LET s == image.sections[tables[table].info]
    IN  \/ r.symbol \notin DOMAIN tables[SymbolTable].rows \/ r.width = -1
        \/ r.target < s.address
        \/ r.target - s.address > expanded_size(s)

BadRelocation(r) ==
    LET s == image.sections[tables[table].info]
    IN  \/ r.symbol \notin DOMAIN tables[SymbolTable].rows \/ r.width = -1
        \/ r.target < s.address
        \/ r.target - s.address > expanded_size(s)
        \/ r.width > expanded_size(s) - (r.target - s.address)

Relocation(r) == [section |-> tables[table].info, target |-> r.target, width |-> r.width]

ExportOf(e) ==
    [name |-> e.name, address |-> e.address, function |-> "exec" \in image.sections[table].flags]

\* mutant: the name alone identifies an export
BadExport_NameOnly(e) ==
    LET x == ExportOf(e)
    IN  \/ e.name \in {BadName, Unnamed}
        \/ IF x.function
           THEN e.address % POINTER # 0 \/ ~guest_range(e.address, POINTER, Exec)
           ELSE ~guest_range(e.address, 1, {"alloc"})
        \/ \E y \in exports : y.name = x.name

BadExport(e) ==
    LET x == ExportOf(e)
    IN  \/ e.name \in {BadName, Unnamed}
        \/ IF x.function
           THEN e.address % POINTER # 0 \/ ~guest_range(e.address, POINTER, Exec)
           ELSE ~guest_range(e.address, 1, {"alloc"})
        \/ \E y \in exports : y.name = x.name /\ y.function = x.function

-----------------------------------------------------------------------------
ImageInit ==
    /\ Init
    /\ tables \in Contents[image]
    /\ metadata_ok \in BOOLEAN
    /\ stage = "metadata" /\ table = 0 /\ row = 1
    /\ hooks = {} /\ replacements = {} /\ imports = {} /\ relocations = {} /\ exports = {}

\* the section checks
SectionStep == Next /\ UNCHANGED <<tables, metadata_ok, stage, table, row, found>>

Unmoved == UNCHANGED <<vars, tables, metadata_ok, found>>

RejectImage == stage' = "rejected" /\ Unmoved /\ UNCHANGED <<table, row>>

\* mutant: the row is not reset
EnterTable_KeepRow(next, k, bad) ==
    IF bad THEN RejectImage
    ELSE stage' = next /\ table' = k /\ row' = row /\ Unmoved

\* the loop of a stage enters table k, unless the table is bad
EnterTable(next, k, bad) ==
    IF bad THEN RejectImage
    ELSE stage' = next /\ table' = k /\ row' = 1 /\ Unmoved

\* a stage without a table
SkipTo(next) == stage' = next /\ table' = 0 /\ row' = 1 /\ Unmoved

RowsDone(s) == stage = s /\ row > Len(Rows)

CheckMetadata ==
    /\ stage = "metadata" /\ phase = "accepted"
    /\ IF metadata_ok /\ Named(hooks_name) # {}
       THEN LET k == CHOOSE k \in Named(hooks_name) : TRUE
            IN  EnterTable("hooks", k, BadHooks(k))
       ELSE RejectImage

OpenLoad ==
    /\ RowsDone("hooks")
    /\ IF Named(load_name) = {}
       THEN SkipTo("load")
       ELSE LET k == CHOOSE k \in Named(load_name) : TRUE
            IN  EnterTable("load", k, BadLoad(k))

OpenSymbols ==
    /\ RowsDone("load")
    /\ IF Cardinality(SymbolTables) # 1
       THEN RejectImage
       ELSE EnterTable("symbols", SymbolTable, BadSymbols(SymbolTable))

\* the tables of a kind, in the order of the section table
After(kind) == {k \in OfKind({kind}) : k > table}

OpenRelocations ==
    \/ RowsDone("symbols") /\ SkipTo("relocations")
    \/ /\ RowsDone("relocations") /\ After("relocs") # {}
       /\ LET k == Min(After("relocs")) IN EnterTable("relocations", k, BadRelocations(k))

OpenExports ==
    \/ RowsDone("relocations") /\ After("relocs") = {} /\ SkipTo("exports")
    \/ /\ RowsDone("exports") /\ After("exports") # {}
       /\ LET k == Min(After("exports")) IN EnterTable("exports", k, BadExports(k))

Accept ==
    /\ RowsDone("exports") /\ After("exports") = {}
    /\ stage' = "accepted" /\ Unmoved /\ UNCHANGED <<table, row>>

InRow(s) == stage = s /\ row \in DOMAIN Rows

NextRow == row' = row + 1 /\ UNCHANGED <<vars, tables, metadata_ok, stage, table>>

ReadHook ==
    /\ InRow("hooks") /\ ~BadHook(Here)
    /\ hooks' = hooks \cup {Here}
    /\ NextRow /\ UNCHANGED <<replacements, imports, relocations, exports>>

ReadReplacement ==
    /\ InRow("load") /\ ~BadReplacement(Here)
    /\ replacements' = replacements \cup {Here}
    /\ NextRow /\ UNCHANGED <<hooks, imports, relocations, exports>>

ReadSymbol ==
    /\ InRow("symbols") /\ ~BadSymbol(Here)
    /\ imports' = IF IsImport(Here) THEN imports \cup {Import(Here)} ELSE imports
    /\ NextRow /\ UNCHANGED <<hooks, replacements, relocations, exports>>

ReadRelocation ==
    /\ InRow("relocations") /\ ~BadRelocation(Here)
    /\ relocations' = relocations \cup {Relocation(Here)}
    /\ NextRow /\ UNCHANGED <<hooks, replacements, imports, exports>>

ReadExport ==
    /\ InRow("exports") /\ ~BadExport(Here)
    /\ exports' = exports \cup {ExportOf(Here)}
    /\ NextRow /\ UNCHANGED <<hooks, replacements, imports, relocations>>

RefuseRow ==
    /\ \/ InRow("hooks") /\ BadHook(Here)
       \/ InRow("load") /\ BadReplacement(Here)
       \/ InRow("symbols") /\ BadSymbol(Here)
       \/ InRow("relocations") /\ BadRelocation(Here)
       \/ InRow("exports") /\ BadExport(Here)
    /\ RejectImage

TableStep ==
    \/ CheckMetadata \/ OpenLoad \/ OpenSymbols \/ OpenRelocations \/ OpenExports \/ Accept
    \/ ReadHook \/ ReadReplacement \/ ReadSymbol \/ ReadRelocation \/ ReadExport \/ RefuseRow

ImageNext == SectionStep \/ TableStep

ImageSpec == ImageInit /\ [][ImageNext]_image_vars

-----------------------------------------------------------------------------
(* Properties.                                                              *)

ImageTypeOK ==
    /\ TypeOK
    /\ DOMAIN tables = DOMAIN Sections
    /\ \A k \in DOMAIN tables : tables[k] \in Tables(Sections[k])
    /\ metadata_ok \in BOOLEAN
    /\ stage \in Stages /\ (stage # "metadata" => phase = "accepted")
    /\ table \in {0} \cup DOMAIN Sections /\ row \in 1..(Len(Rows) + 1)
    /\ hooks \subseteq Hooks /\ replacements \subseteq Replacements
    /\ imports \subseteq [section: Nat, name: Symbols, value: Nat, function: BOOLEAN]
    /\ relocations \subseteq [section: DOMAIN Sections, target: Nat, width: {0, 2, 4}]
    /\ exports \subseteq [name: Symbols, address: Nat, function: BOOLEAN]

Pointed(address, size) == address .. (address + size - 1)

\* the addresses at which the plugin says that it has code
CodeAddresses ==
    {h.target : h \in hooks} \cup {r.target : r \in replacements}
        \cup {e.address : e \in {e \in exports : e.function}}

\* Code the runtime will call never shares a byte with the storage it will
\* write call-through pointers to.  No line compares the two: it follows from
\* the flags of a section, checked in the scan, and from the guest ranges of
\* sections being disjoint, checked in another loop.
CodeIsNotStorage ==
    \A a \in CodeAddresses : \A r \in replacements :
        Pointed(a, POINTER) \cap Pointed(r.call_addr, POINTER) = {}

\* The bytes a relocation patches belong to the section its table names, and
\* to no other allocated section.
PatchesStayInside ==
    \A p \in relocations :
        Allocated(Sections[p.section]) =>
            /\ Pointed(p.target, p.width) \subseteq GuestBytes(Sections[p.section])
            /\ \A k \in DOMAIN Sections \ {p.section} :
                  Pointed(p.target, p.width) \cap GuestBytes(Sections[k]) = {}

\* what a pointer of a table must point to
PointsTo(address, size, flags) ==
    \E k \in DOMAIN Sections :
        flags \subseteq Sections[k].flags /\ Pointed(address, size) \subseteq GuestBytes(Sections[k])

PointsToString(address) ==
    \E k \in DOMAIN Sections : DataOf(Sections[k]) /\ address \in GuestBytes(Sections[k])

\* distinct rows of the tables differ in a key
Distinct(indices, Key(_, _)) ==
    \A j, k \in indices : \A m \in DOMAIN tables[j].rows : \A n \in DOMAIN tables[k].rows :
        Key(j, tables[j].rows[m]) = Key(k, tables[k].rows[n]) => j = k /\ m = n

LegalHooks(k) ==
    /\ ~BadHooks(k)
    /\ \A n \in DOMAIN tables[k].rows :
          LET h == tables[k].rows[n]
          IN  h.kind <= MAX_HOOK /\ h.target % POINTER = 0 /\ PointsTo(h.target, POINTER, Exec)
    /\ Distinct({k}, LAMBDA t, h : h.kind)

LegalLoad(k) ==
    /\ ~BadLoad(k)
    /\ \A n \in DOMAIN tables[k].rows :
          LET r == tables[k].rows[n]
          IN  /\ r.kind <= MAX_REPLACEMENT /\ r.process \in Processes
              /\ r.target % POINTER = 0 /\ PointsTo(r.target, POINTER, Exec)
              /\ r.call_addr % POINTER = 0 /\ PointsTo(r.call_addr, POINTER, Write)
              /\ IF r.fixed THEN r.library = FIXED
                            ELSE r.library <= MAX_LIBRARY /\ r.library # FIXED
              /\ PointsToString(r.name) /\ PointsToString(r.replacement) /\ r.named

LegalSymbols(k) ==
    /\ ~BadSymbols(k)
    /\ \A n \in DOMAIN tables[k].rows :
          LET s == tables[k].rows[n]
              stub == Sections[s.section]
          IN  /\ s.name # BadName
              /\ s.section \in OfKind({"import"}) =>
                    /\ s.name # Unnamed /\ stub.name \notin BadModules
                    /\ \/ stub.name \in FunctionImports /\ s.type = "function"
                       \/ stub.name \in DataImports /\ s.type = "object"
                    /\ s.value \in Pointed(stub.address, expanded_size(stub))
    /\ \A m, n \in DOMAIN tables[k].rows :
          LET s == tables[k].rows[m]
              t == tables[k].rows[n]
          IN  s.section \in OfKind({"import"}) /\ s.section = t.section /\ s.name = t.name => m = n

LegalRelocations(k) ==
    /\ ~BadRelocations(k)
    /\ \A n \in DOMAIN tables[k].rows :
          LET r == tables[k].rows[n]
              s == Sections[tables[k].info]
          IN  /\ r.symbol \in DOMAIN tables[SymbolTable].rows /\ r.width # -1
              /\ s.address <= r.target
              /\ r.target + r.width <= s.address + expanded_size(s)

LegalExports(k) ==
    /\ ~BadExports(k)
    /\ \A n \in DOMAIN tables[k].rows :
          LET e == tables[k].rows[n]
          IN  /\ e.name \in Symbols
              /\ IF "exec" \in Sections[k].flags
                 THEN e.address % POINTER = 0 /\ PointsTo(e.address, POINTER, Exec)
                 ELSE PointsTo(e.address, 1, {"alloc"})

LegalTables ==
    /\ metadata_ok
    /\ Named(hooks_name) # {} /\ \A k \in Named(hooks_name) : LegalHooks(k)
    /\ \A k \in Named(load_name) : LegalLoad(k)
    /\ Cardinality(SymbolTables) = 1 /\ \A k \in SymbolTables : LegalSymbols(k)
    /\ \A k \in OfKind({"relocs"}) : LegalRelocations(k)
    /\ \A k \in OfKind({"exports"}) : LegalExports(k)
    /\ Distinct(OfKind({"exports"}),
                LAMBDA k, e : <<e.name, "exec" \in Sections[k].flags>>)

\* The loops, which compare a row with the rows before it and stop at the
\* first bad one, accept exactly the images whose tables are legal as a whole.
ImageAcceptsExactly ==
    /\ stage = "accepted" => LegalTables
    /\ stage = "rejected" => ~LegalTables
=============================================================================
