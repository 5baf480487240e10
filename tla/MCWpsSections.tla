--------------------------- MODULE MCWpsSections ---------------------------
(* Images of six sections for WpsSections: an ELF header of 2 bytes,        *)
(* section headers of 1, a file of 14 and three guest windows of 20.  The   *)
(* string table expands to 14 bytes and leaves 6 of the limit to the rest.  *)
(* Two sections of an image take all file ranges, then all guest ranges.    *)
EXTENDS WpsSections

CONSTANTS n_text, n_data, n_bounds, n_names

Section(kind, name, flags, address, offset, stored) ==
    [kind |-> kind, flags |-> flags, name |-> name, address |-> address, offset |-> offset,
     stored |-> stored, aligned |-> TRUE, declared |-> 0, inflated |-> 0, ends |-> TRUE,
     terminated |-> TRUE, crc_matches |-> TRUE]

Deflated(s, size) ==
    [s EXCEPT !.flags = s.flags \cup {"deflated"}, !.declared = size, !.inflated = size]

FileSection(kind, name, offset, stored) == Section(kind, name, {}, 0, offset, stored)

Null == FileSection("null", Unnamed, 0, 0)
StringTable == Deflated(FileSection("strtab", n_names, 8, 2), 14)
Crc == FileSection("crc", Unnamed, 2, 0)
FileInfo == FileSection("fileinfo", Unnamed, 2, 0)

ImageOf(table, x, y) ==
    [length |-> 14, rpl |-> TRUE, table |-> table, name_index |-> 2,
     sections |-> <<Null, StringTable, x, y, Crc, FileInfo>>, well_formed |-> TRUE,
     text_size |-> 3, data_size |-> 4, loader_size |-> 3]

\* every file range in and around a file of 14 bytes
FileSections(name, sizes) ==
    {FileSection("progbits", name, offset, stored) : offset \in 0..14, stored \in sizes}

OddSections ==
    LET s == FileSection("progbits", n_data, 10, 2)
    IN  {[Deflated(s, d) EXCEPT !.ends = b] : d \in {0, 2, 4, 5}, b \in BOOLEAN}
        \cup {[Deflated(s, 4) EXCEPT !.inflated = i] : i \in {3, 5, 21}}
        \cup {[Deflated(s, 1) EXCEPT !.stored = 1],
              [Deflated(s, 1) EXCEPT !.kind = "nobits"],
              [s EXCEPT !.kind = "nobits", !.stored = 4],
              [s EXCEPT !.flags = {"write", "exec"}],
              [s EXCEPT !.aligned = FALSE], [s EXCEPT !.crc_matches = FALSE],
              [s EXCEPT !.name = n_text], [s EXCEPT !.name = BadName],
              [s EXCEPT !.name = Unnamed], [s EXCEPT !.kind = "null"]}

OddImages ==
    {ImageOf(t, x, y) : t \in {2, 8, 9}, y \in OddSections,
        x \in {FileSection("progbits", n_text, 12, 1),
               Deflated(FileSection("progbits", n_text, 12, 2), 3),
               [FileSection("progbits", Unnamed, 12, 1) EXCEPT !.kind = "nobits"]}}
        \cup {[ImageOf(2, FileSection("progbits", n_text, 12, 1),
                       FileSection("strtab", n_data, 10, 1))
                  EXCEPT !.name_index = n, !.rpl = b, !.well_formed = w, !.text_size = t] :
                 n \in 1..7, b \in BOOLEAN, w \in BOOLEAN, t \in {0, 3, 21}}

\* every guest range in and around the windows 2..21, 22..41 and 42..61
GuestSection(name, offset, kind, flags, address, size) ==
    Section(kind, name, flags \cup {"alloc"}, address, offset, size)

Addresses == {0, 2, 4, 21, 22, 23, 26, 41, 42, 44, 61}

TextSections ==
    {GuestSection(n_text, 12, "progbits", {"exec"}, p, size) : p \in Addresses, size \in {1, 2}}
        \cup {GuestSection(n_text, 12, "import", {"exec"}, p, 2) : p \in Addresses}
        \cup {GuestSection(n_text, 12, "progbits", {}, 23, 2)}

DataSections ==
    {GuestSection(n_data, 10, kind, {}, p, size) :
        kind \in {"progbits", "nobits", "import", "symtab"}, p \in Addresses, size \in {0, 1, 2}}
        \cup {GuestSection(n_bounds, 10, "progbits", {"write"}, p, 2) : p \in Addresses}
        \cup {Deflated(GuestSection(n_data, 10, "progbits", {}, p, 2), 4) : p \in Addresses}

\* 21 is more than the limit
Regions == {<<3, 4, 3>>, <<20, 20, 20>>, <<21, 4, 3>>}

Texts == FileSections(n_text, 0..3) \cup TextSections
Datas == FileSections(n_data, {1, 3}) \cup DataSections

\* file ranges with file ranges, guest ranges with guest ranges
Fits(x, y, r) ==
    /\ Allocated(x) = Allocated(y)
    /\ ~Allocated(x) => r[1] = 3
    /\ r[1] = 21 => x.address = 21 /\ x.stored = 2

SectionImages ==
    {[ImageOf(2, t[1], t[2]) EXCEPT !.text_size = t[3][1], !.data_size = t[3][2],
                                    !.loader_size = t[3][3]] :
        t \in {u \in Texts \X Datas \X Regions : Fits(u[1], u[2], u[3])}}
=============================================================================
