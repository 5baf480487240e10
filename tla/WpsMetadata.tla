---------------------------- MODULE WpsMetadata ----------------------------
(***************************************************************************)
(* The metadata loop of inspect_wups in tools/cemodlib.py: ".wups.meta"    *)
(* holds NUL-terminated UTF-8 strings, most of them key=value.  The loop   *)
(* decodes the string at its offset and advances the offset, which counts  *)
(* bytes, by the length of the decoded string, which counts characters.    *)
(*                                                                         *)
(* The section is a sequence of bytes.  A character of one byte is itself; *)
(* a longer one is a lead byte and continuation bytes.  Offsets count      *)
(* from 1.                                                                 *)
(***************************************************************************)
EXTENDS Integers, Sequences, FiniteSets

CONSTANTS
    Sections,       \* the contents ".wups.meta" may have
    Bytes,          \* the byte values
    NUL, EQUALS,    \* two of them
    Continuation,   \* the bytes that continue a character
    Width,          \* the bytes of the character that begins with a byte
    IdentifierBytes, ControlBytes,
    NAME, WUPS, STORAGE_ID, DEBUG,   \* the keys the inspector knows
    Supported,      \* SUPPORTED_WUPS_VERSIONS
    DebugFlags,
    MAX_STRING, MAX_KEY, MAX_NAME, MAX_STORAGE_ID

ASSUME BytesAssumption ==
    /\ {NUL, EQUALS} \subseteq Bytes /\ NUL # EQUALS
    /\ Continuation \subseteq Bytes \ {NUL, EQUALS}
    /\ Width \in [Bytes -> 1..4]
    /\ \A b \in Continuation \cup {NUL, EQUALS} \cup IdentifierBytes : Width[b] = 1
    /\ IdentifierBytes \subseteq Bytes \ (Continuation \cup {NUL, EQUALS})
    /\ Sections \subseteq Seq(Bytes)
    /\ {MAX_STRING, MAX_KEY, MAX_NAME, MAX_STORAGE_ID} \subseteq Nat

VARIABLES
    data,       \* metadata_data
    offset,     \* metadata_offset
    metadata,
    verdict

vars == <<data, offset, metadata, verdict>>

-----------------------------------------------------------------------------
(* Strings.                                                                 *)

\* data.find(b"\0", p)
End(p) == CHOOSE e \in p..Len(data) : data[e] = NUL /\ \A q \in p..(e - 1) : data[q] # NUL

String(p) == SubSeq(data, p, End(p) - 1)

\* the bytes are the encoding of some text
Decodes(s) ==
    \A k \in DOMAIN s :
        /\ k + Width[s[k]] - 1 <= Len(s)
        /\ \A l \in (k + 1)..(k + Width[s[k]] - 1) : s[l] \in Continuation
        /\ s[k] \in Continuation =>
              \E j \in 1..(k - 1) : k - j < Width[s[j]]

\* len() of the decoded string
Characters(s) == Cardinality({k \in DOMAIN s : s[k] \notin Continuation})

\* what _cstring raises on
BadString(s) == Len(s) > MAX_STRING \/ ~Decodes(s)

HasPair(s) == \E k \in DOMAIN s : s[k] = EQUALS

FirstEquals(s) == CHOOSE k \in DOMAIN s : s[k] = EQUALS /\ \A j \in 1..(k - 1) : s[j] # EQUALS

Key(s) == SubSeq(s, 1, FirstEquals(s) - 1)
Value(s) == SubSeq(s, FirstEquals(s) + 1, Len(s))

\* _identifier
Identifier(s, maximum) ==
    /\ Len(s) \in 1..maximum
    /\ \A k \in DOMAIN s : s[k] \in IdentifierBytes

\* _safe_text
SafeText(s, maximum) ==
    /\ Characters(s) \in 1..maximum
    /\ \A k \in DOMAIN s : s[k] \notin ControlBytes

-----------------------------------------------------------------------------
Init ==
    /\ data \in Sections
    /\ offset = 1
    /\ metadata = [k \in {} |-> <<>>]
    /\ verdict = "opening"

Decide(v) == verdict' = v /\ UNCHANGED <<data, offset, metadata>>

\* the section must not be empty and must end in NUL
OpenSection ==
    /\ verdict = "opening"
    /\ Decide(IF data = <<>> \/ data[Len(data)] # NUL THEN "rejected" ELSE "scanning")

Scanning == verdict = "scanning" /\ offset <= Len(data)

\* mutant: a second value replaces the first
BadPair_Duplicates(s) == ~Identifier(Key(s), MAX_KEY)

\* mutant: any key is taken
BadPair_AnyKey(s) == Key(s) \in DOMAIN metadata

BadPair(s) == ~Identifier(Key(s), MAX_KEY) \/ Key(s) \in DOMAIN metadata

\* mutant: a string without "=" is skipped before the offset advances
Advance_Late(s) == offset' = IF HasPair(s) THEN offset + Characters(s) + 1 ELSE offset

\* mutant: the length of every character is taken for two bytes
Advance_TwoBytes(s) == offset' = offset + 2 * Characters(s) + 1

Advance(s) == offset' = offset + Characters(s) + 1

ReadString ==
    /\ Scanning
    /\ LET s == String(offset)
       IN  /\ ~BadString(s)
           /\ Advance(s)
           /\ IF HasPair(s)
              THEN /\ ~BadPair(s)
                   /\ metadata' = [k \in DOMAIN metadata \cup {Key(s)} |->
                                      IF k = Key(s) THEN Value(s) ELSE metadata[k]]
              ELSE UNCHANGED metadata
    /\ UNCHANGED <<data, verdict>>

RefuseString ==
    /\ Scanning
    /\ LET s == String(offset)
       IN  BadString(s) \/ (HasPair(s) /\ BadPair(s))
    /\ Decide("rejected")

\* the checks on the keys the inspector knows
BadMetadata(m) ==
    \/ NAME \notin DOMAIN m \/ WUPS \notin DOMAIN m
    \/ ~SafeText(m[NAME], MAX_NAME)
    \/ m[WUPS] \notin Supported
    \/ /\ STORAGE_ID \in DOMAIN m
       /\ m[STORAGE_ID] # <<>> /\ ~Identifier(m[STORAGE_ID], MAX_STORAGE_ID)
    \/ DEBUG \in DOMAIN m /\ m[DEBUG] \notin DebugFlags

CheckMetadata ==
    /\ verdict = "scanning"
    /\ offset > Len(data)
    /\ Decide(IF BadMetadata(metadata) THEN "rejected" ELSE "accepted")

Next == OpenSection \/ ReadString \/ RefuseString \/ CheckMetadata

Spec == Init /\ [][Next]_vars

\* the loop is sequential code: it runs until it ends
FairSpec == Spec /\ WF_vars(Next)

-----------------------------------------------------------------------------
(* Properties.                                                              *)

\* where the strings of the section begin
Starts == {p \in DOMAIN data : p = 1 \/ data[p - 1] = NUL}

PairStarts == {p \in Starts : HasPair(String(p))}

TypeOK ==
    /\ data \in Seq(Bytes)
    /\ offset \in 1..(Len(data) + 1)
    /\ verdict \in {"opening", "scanning", "accepted", "rejected"}
    /\ \A k \in DOMAIN metadata : k \in Seq(Bytes) /\ metadata[k] \in Seq(Bytes)
    /\ verdict \in {"scanning", "accepted"} => data # <<>> /\ data[Len(data)] = NUL

\* Every key=value string of the section that the loop has passed is in
\* metadata with its own value: counting characters for bytes may read a
\* string again from its middle, it never jumps over the beginning of one.
NothingLost ==
    verdict \in {"scanning", "accepted"} =>
        \A p \in PairStarts : p < offset =>
            /\ Key(String(p)) \in DOMAIN metadata
            /\ metadata[Key(String(p))] = Value(String(p))

\* The loop ends for every section, although its step depends on the data.
Terminates == <>(verdict \in {"accepted", "rejected"})

\* The metadata the section really holds.
Reference ==
    [k \in {Key(String(p)) : p \in PairStarts} |->
        Value(String(CHOOSE p \in PairStarts : Key(String(p)) = k))]

ReferenceAccepts ==
    /\ data # <<>> /\ data[Len(data)] = NUL
    /\ \A p \in Starts : ~BadString(String(p))
    /\ \A p \in PairStarts : Identifier(Key(String(p)), MAX_KEY)
    /\ \A p, q \in PairStarts : Key(String(p)) = Key(String(q)) => p = q
    /\ ~BadMetadata(Reference)

Exact ==
    /\ verdict = "accepted" => ReferenceAccepts /\ metadata = Reference
    /\ verdict = "rejected" => ~ReferenceAccepts

\* Sections in ASCII are accepted exactly when they should be, with the
\* metadata they hold.
AsciiExact == (\A k \in DOMAIN data : Width[data[k]] = 1) => Exact

\* docs/wups-support-design.md: "Metadata is copied into ordinary host-owned
\* values", with duplicate keys, termination and unknown keys "handled
\* explicitly".
MetadataExact == Exact
=============================================================================
