---------------------------- MODULE MCTrustedElf ----------------------------
(* Small instances of TrustedElf and ElfBuild: sizes of a few bytes,        *)
(* pointers of two.                                                         *)
EXTENDS ElfBuild

CONSTANTS n_names, n_symbols, n_rela, n_boot, n_other

Segment(address, memory, flags) ==
    [load |-> TRUE, address |-> address, offset |-> 0, stored |-> memory, memory |-> memory,
     flags |-> flags]

RX == {"read", "exec"}
RW == {"read", "write"}

TEXT == Segment(8, 8, RX)
DATA == Segment(16, 6, RW)

Section(kind, name, offset, size) ==
    [kind |-> kind, alloc |-> FALSE, name |-> name, address |-> 0, offset |-> offset,
     size |-> size, link |-> 1, whole |-> TRUE, defined |-> <<>>, entries |-> <<>>,
     magic |-> FALSE, count |-> 0, records |-> <<>>]

Reloc(target, symbol, width) == [target |-> target, symbol |-> symbol, width |-> width]
Record(target, handler) ==
    [module_hash |-> 1, target |-> target, mask |-> 1, handler |-> handler, flags |-> 0]

SYMBOLS == 3
RELA == 4
BOOT == 5

Mod ==
    [length |-> 24, identified |-> TRUE, program_offset |-> 2, program_size |-> 1,
     section_offset |-> 6, section_size |-> 1, names_index |-> 2,
     program |-> <<TEXT, DATA>>, entry |-> TRUE,
     sections |-> <<Section("null", Unnamed, 0, 0),
                    Section("strtab", n_names, 12, 2),
                    [Section("symtab", n_symbols, 14, 2) EXCEPT !.defined = <<FALSE, TRUE>>],
                    [Section("rela", n_rela, 16, 2) EXCEPT
                        !.link = SYMBOLS, !.entries = <<Reloc(14, 1, 2)>>],
                    [Section("progbits", n_boot, 18, 3) EXCEPT
                        !.alloc = TRUE, !.address = 17, !.magic = TRUE, !.count = 1,
                        !.records = <<Record(2, 8)>>]>>]

With(k, s) == [Mod EXCEPT !.sections[k] = s]
Of(k) == Mod.sections[k]

-----------------------------------------------------------------------------
\* program headers: two loads at every distance, a third one, other headers
Places == {Segment(a, m, f) : a \in {6, 8, 10, 14, 16, 20, 22}, m \in {0, 2, 6, 12}, f \in {RX, RW}}

Odd == {[DATA EXCEPT !.load = FALSE], [DATA EXCEPT !.flags = RX \cup RW],
        [DATA EXCEPT !.stored = 7], [DATA EXCEPT !.stored = 2],
        [DATA EXCEPT !.offset = 18], [DATA EXCEPT !.offset = 19], [DATA EXCEPT !.offset = 25],
        Segment(32, 4, RW), Segment(32, 5, RW), Segment(33, 4, RX)}

Programs ==
    {<<p, q>> : p, q \in Places} \cup {<<p, TEXT, q>> : p \in Odd, q \in Places \cup Odd}
        \cup {<<p, DATA, TEXT>> : p \in Places} \cup {<<>>, <<TEXT>>, <<DATA>>, <<TEXT, TEXT, TEXT, DATA>>}

Layouts ==
    {[Mod EXCEPT !.program = p] : p \in Programs} \cup
    {[Mod EXCEPT !.program = <<TEXT, DATA>>, !.sections[RELA].entries = <<Reloc(t, 1, 2)>>,
                 !.sections[BOOT].address = a] : t \in {7, 8, 14, 15, 16, 20, 21}, a \in {7, 8, 13, 14, 16, 19, 20}}

-----------------------------------------------------------------------------
Headers ==
    {[Mod EXCEPT !.length = n] : n \in {1, 2, 10, 11, 13, 20, 21, 30, 31}} \cup
    {[Mod EXCEPT !.identified = FALSE], [Mod EXCEPT !.program_size = 0],
     [Mod EXCEPT !.section_size = 0], [Mod EXCEPT !.names_index = 6], [Mod EXCEPT !.names_index = 3],
     [Mod EXCEPT !.program_offset = 22], [Mod EXCEPT !.program_offset = 23],
     [Mod EXCEPT !.section_offset = 19], [Mod EXCEPT !.section_offset = 20],
     [Mod EXCEPT !.sections = Append(@, Section("other", n_other, 0, 0))],
     [Mod EXCEPT !.sections = <<>>, !.names_index = 1], [Mod EXCEPT !.entry = FALSE]}

Several ==
    {With(k, [Of(k) EXCEPT !.kind = s]) :
        k \in 1..5, s \in {"null", "progbits", "symtab", "strtab", "rela", "nobits", "rel", "other"}} \cup
    {With(k, [Of(k) EXCEPT !.name = n]) : k \in 1..5, n \in {n_boot, n_names, n_other, Unnamed, BadName}} \cup
    {With(k, [Of(k) EXCEPT !.offset = o]) : k \in 1..5, o \in {21, 22, 23, 24, 25}} \cup
    {With(k, [Of(k) EXCEPT !.whole = FALSE]) : k \in 1..5} \cup
    {With(k, [Of(k) EXCEPT !.kind = "nobits", !.size = 30]) : k \in {1, 5}} \cup
    {With(SYMBOLS, [Of(SYMBOLS) EXCEPT !.defined = d]) :
        d \in {<<>>, <<FALSE>>, <<TRUE, FALSE>>, <<FALSE, TRUE, TRUE>>, <<FALSE, FALSE, TRUE>>}} \cup
    {With(RELA, [Of(RELA) EXCEPT !.link = l]) : l \in 0..6}

Relocated ==
    {With(RELA, [Of(RELA) EXCEPT !.entries = <<Reloc(14, 1, 0), Reloc(t, s, w)>>]) :
        t \in {6, 7, 8, 12, 13, 14, 15, 16, 18, 19, 20, 21, 22, 23}, s \in 0..2, w \in {UNALIGNED, -1, 0, 2, 4}}

Boots ==
    {With(BOOT, [Of(BOOT) EXCEPT !.alloc = FALSE]), With(BOOT, [Of(BOOT) EXCEPT !.magic = FALSE]),
     With(BOOT, [Of(BOOT) EXCEPT !.size = 2]), With(BOOT, [Of(BOOT) EXCEPT !.size = 0]),
     With(BOOT, [Of(BOOT) EXCEPT !.size = 1, !.count = 0, !.records = <<>>]),
     With(BOOT, [Of(BOOT) EXCEPT !.size = 7, !.count = 3,
                 !.records = <<Record(2, 8), Record(2, 8), Record(2, 8)>>])} \cup
    {With(BOOT, [Of(BOOT) EXCEPT !.size = 5, !.count = 2, !.records = <<Record(2, 8), r>>]) :
        r \in [module_hash: 0..1, target: 0..2, mask: 0..1, flags: 0..1,
               handler: {6, 7, 8, 13, 14, 15, 16, 20, 21, 22}]}

\* relocations before the symbols they are checked against, in any state
Reordered ==
    {[Mod EXCEPT !.sections[SYMBOLS] = [Of(RELA) EXCEPT !.link = RELA], !.sections[RELA] = s] :
        s \in {[Of(SYMBOLS) EXCEPT !.defined = d, !.whole = w, !.offset = o] :
                  d \in {<<>>, <<FALSE>>, <<FALSE, TRUE>>, <<FALSE, FALSE>>, <<FALSE, TRUE, FALSE>>},
                  w \in BOOLEAN, o \in {16, 22, 23}}
               \cup {[Of(SYMBOLS) EXCEPT !.kind = "other"], Of(RELA)}}

MCElfs == Layouts \cup Headers \cup Several \cup Relocated \cup Reordered \cup Boots
=============================================================================
