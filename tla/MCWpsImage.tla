----------------------------- MODULE MCWpsImage -----------------------------
(* Small instances of WpsImage: the images of MCWpsSections, without        *)
(* tables, and a plugin of fourteen sections, with pointers of two bytes.   *)
(* Text ends where data begins, so that a pointer or a patch can straddle   *)
(* the two.  Each table takes its variants in turn; hooks, replacements and *)
(* exports also take them together.                                         *)
EXTENDS WpsImage, MCWpsSections

CONSTANTS n_hooks, n_load, n_symbols, n_fimport,
          n_dimport, n_relocs, n_fexports, n_dexports, n_other, a, b

MCSectionNames == {n_text, n_data, n_bounds, n_names, n_hooks, n_load, n_symbols, n_fimport,
                   n_dimport, n_relocs, n_fexports, n_dexports, n_other}

TEXT == 3
DATA == 4
HOOKS == 5
LOAD == 6
SYMBOLS == 7
FIMPORT == 8
DIMPORT == 9
RELOCS == 10
FEXPORTS == 11
DEXPORTS == 12

Plugin ==
    [length |-> 40, rpl |-> TRUE, table |-> 2, name_index |-> 2, well_formed |-> TRUE,
     text_size |-> 20, data_size |-> 10, loader_size |-> 10,
     sections |-> <<Section("null", Unnamed, {}, 0, 0, 0),
                    Section("strtab", n_names, {}, 0, 16, 1),
                    Section("progbits", n_text, {"alloc", "exec"}, 18, 17, 4),
                    Section("progbits", n_data, {"alloc", "write"}, 22, 21, 4),
                    Section("progbits", n_hooks, {"alloc"}, 26, 25, 1),
                    Section("progbits", n_load, {"alloc"}, 27, 26, 1),
                    Section("symtab", n_symbols, {}, 0, 27, 1),
                    Section("import", n_fimport, {"alloc", "exec"}, 42, 28, 2),
                    Section("import", n_dimport, {"alloc"}, 44, 30, 2),
                    Section("relocs", n_relocs, {}, 0, 32, 1),
                    Section("exports", n_fexports, {"exec"}, 0, 33, 1),
                    Section("exports", n_dexports, {}, 0, 34, 1),
                    Section("crc", Unnamed, {}, 0, 0, 0),
                    Section("fileinfo", Unnamed, {}, 0, 0, 0)>>]

With(k, s) == [Plugin EXCEPT !.sections[k] = s]
Of(k) == Plugin.sections[k]

\* the same plugin with one section changed: some fail the section checks
Variants ==
    {With(HOOKS, [Of(HOOKS) EXCEPT !.flags = {}]),
     With(HOOKS, [Of(HOOKS) EXCEPT !.kind = "other"]),
     With(HOOKS, [Of(HOOKS) EXCEPT !.name = n_other]),
     With(LOAD, [Of(LOAD) EXCEPT !.name = n_other]),
     With(LOAD, [Of(LOAD) EXCEPT !.flags = {}]),
     With(DATA, [Of(DATA) EXCEPT !.kind = "nobits"]),
     With(DATA, [Of(DATA) EXCEPT !.address = 20]),
     With(DATA, [Of(DATA) EXCEPT !.flags = {"alloc", "write", "exec"}]),
     With(FIMPORT, [Of(FIMPORT) EXCEPT !.name = n_other]),
     With(FIMPORT, [Of(FIMPORT) EXCEPT !.name = n_bounds]),
     With(FIMPORT, [Of(FIMPORT) EXCEPT !.flags = {}]),
     With(SYMBOLS, [Of(SYMBOLS) EXCEPT !.kind = "other"]),
     With(DEXPORTS, [Of(DEXPORTS) EXCEPT !.kind = "dynsym"]),
     With(2, [Of(2) EXCEPT !.stored = 0])}

MCImages == {Plugin} \cup Variants \cup OddImages \cup SectionImages

-----------------------------------------------------------------------------
Table(rows) == [whole |-> TRUE, link |-> 2, info |-> 1, rows |-> rows]

Hook(kind, target) == [kind |-> kind, target |-> target]
Replacement ==
    [kind |-> 0, fixed |-> FALSE, library |-> 1, process |-> 1, target |-> 18,
     call_addr |-> 22, name |-> 22, replacement |-> 27, named |-> TRUE]
Symbol(name, value, section, type) ==
    [name |-> name, value |-> value, section |-> section, type |-> type]
Reloc(target, symbol, width) == [target |-> target, symbol |-> symbol, width |-> width]
Export(name, address) == [name |-> name, address |-> address]

Base(k) ==
    CASE k = HOOKS -> Table(<<Hook(0, 18)>>)
      [] k = LOAD -> Table(<<Replacement>>)
      [] k = SYMBOLS -> Table(<<Symbol(a, 42, FIMPORT, "function"), Symbol(Unnamed, 0, 0, "other")>>)
      [] k = RELOCS -> [Table(<<Reloc(20, 1, 2)>>) EXCEPT !.link = SYMBOLS, !.info = TEXT]
      [] k = FEXPORTS -> Table(<<Export(a, 20)>>)
      [] k = DEXPORTS -> Table(<<Export(a, 25)>>)
      [] OTHER -> Table(<<>>)

Broken(t) == {[t EXCEPT !.whole = FALSE], [t EXCEPT !.rows = <<>>],
              [t EXCEPT !.link = 15], [t EXCEPT !.link = TEXT], [t EXCEPT !.info = 15]}

Targets == {16, 18, 20, 21, 22, 42, 60}

SomeHooks == {Hook(kind, target) : kind \in {0, 1, 2}, target \in Targets}

SomeReplacements ==
    {[Replacement EXCEPT !.fixed = f, !.library = l] : f \in BOOLEAN, l \in 0..3}
        \cup {[Replacement EXCEPT !.target = t, !.call_addr = c] : t, c \in Targets}
        \cup {[Replacement EXCEPT !.name = p, !.replacement = q] :
                 p, q \in {17, 18, 22, 25, 27, 28, 60}}
        \cup {[Replacement EXCEPT !.kind = k, !.process = p, !.named = n] :
                 k \in 0..3, p \in 0..1, n \in BOOLEAN}

SomeSymbols ==
    {Symbol(n, v, s, t) : n \in {a, Unnamed, BadName}, v \in {41, 42, 43, 44, 46},
                          s \in {0, TEXT, FIMPORT, DIMPORT, 15},
                          t \in {"object", "function", "other"}}

SomeRelocs ==
    {Reloc(t, s, w) : t \in {17, 18, 20, 21, 22, 24, 26}, s \in 0..3, w \in {-1, 0, 2, 4}}

SomeExports == {Export(n, p) : n \in {a, b, Unnamed, BadName}, p \in Targets \cup {25, 26, 28}}

MCTables(k) ==
    LET t == Base(k)
    IN  Broken(t) \cup
        CASE k = HOOKS -> {Table(<<g, h>>) : g, h \in SomeHooks}
          [] k = LOAD -> {Table(<<Replacement, r>>) : r \in SomeReplacements}
          [] k = SYMBOLS ->
                {Table(<<s, u>>) : s \in SomeSymbols,
                    u \in {Symbol(a, 43, FIMPORT, "function"), Symbol(a, 44, DIMPORT, "object")}}
          [] k = RELOCS ->
                {[t EXCEPT !.rows = <<Reloc(20, 1, 0), r>>, !.info = i] :
                    r \in SomeRelocs, i \in {1, TEXT, DATA, HOOKS}}
          [] k \in {FEXPORTS, DEXPORTS} -> {Table(<<e, Export(b, 18)>>) : e \in SomeExports}
          [] OTHER -> {}

\* one table takes its variants
OneTable ==
    UNION {{[k \in 1..14 |-> IF k = v THEN t ELSE Base(k)] : t \in MCTables(v)} : v \in HOOKS..DEXPORTS}

\* code and storage, at every pair of places
CodeAndStorage ==
    {[k \in 1..14 |->
        CASE k = HOOKS -> Table(<<Hook(0, h)>>)
          [] k = LOAD -> Table(<<[Replacement EXCEPT !.target = t, !.call_addr = c]>>)
          [] k = FEXPORTS -> Table(<<Export(a, e)>>)
          [] OTHER -> Base(k)] :
        h \in Targets, t \in {18, 20, 22}, c \in {18, 20, 22, 24, 26}, e \in {18, 20, 22, 42}}

\* the tables of a section that has another kind or name in this image are empty
Fitting(i, t) ==
    [k \in 1..14 |->
        IF i.sections[k].kind = Of(k).kind /\ i.sections[k].name = Of(k).name THEN t[k]
        ELSE [t[k] EXCEPT !.rows = <<>>]]

MCContents ==
    [i \in MCImages |->
        IF i = Plugin THEN OneTable \cup CodeAndStorage
        ELSE IF i \in Variants
        THEN {Fitting(i, t) : t \in {[k \in 1..14 |-> Base(k)]} \cup
                {[k \in 1..14 |-> IF k = HOOKS THEN Table(<<Hook(0, h)>>) ELSE Base(k)] :
                    h \in Targets}}
        ELSE {[k \in DOMAIN i.sections |-> Table(<<>>)]}]
=============================================================================
