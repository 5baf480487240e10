---------------------------- MODULE CemodFormat ----------------------------
(***************************************************************************)
(* What a .cemod archive contains, and which archives the reader takes.    *)
(*                                                                         *)
(* File contents are abstracted to what the tools tell apart: a manifest   *)
(* is a record of the fields the packager and the reader decide on, a      *)
(* payload knows which validators accept it, and SHA-256 is free of        *)
(* collisions, so that a digest IS the function it was computed from.      *)
(***************************************************************************)

EXTENDS Naturals

CONSTANTS
    UiNames,     \* the entry names below ui/
    Manifests,   \* the manifest texts, valid and invalid
    Payloads,    \* the payload images
    UiContents,  \* the contents of UI files
    Keys,        \* Ed25519 key pairs; the public half stands for the pair
    Absent       \* the value of an entry that is not in an archive

PayloadFormats == {"cemod_elf", "wups"}

\* _the_ payload entry of each format ("expected" in validate_manifest)
PayloadPath == [cemod_elf |-> "mod.elf", wups |-> "plugin.wps"]

FixedNames == {"manifest.json", "mod.elf", "plugin.wps",
               "public_key.ed25519", "signature.ed25519"}

EntryNames == FixedNames \cup UiNames

(* What json.loads takes a manifest for, and json.dumps makes of it again:  *)
(* "plain" text means the same and fits MAX_MANIFEST_BYTES when it is       *)
(* encoded again; "swells" is longer than the limit then (1e15 becomes      *)
(* 1000000000000000.0); "overflows" holds a number such as 1e400 that is    *)
(* loaded as an infinity and written as Infinity; "unencodable" holds half  *)
(* a surrogate pair, which UTF-8 has no code for; "constant" is refused by  *)
(* json.loads (Infinity, NaN, a syntax error); "oversized" is longer than   *)
(* MAX_MANIFEST_BYTES.                                                      *)
Texts == {"plain", "swells", "overflows", "unencodable", "constant", "oversized"}

(* valid: validate_manifest accepts the object.  dense: the content deflates *)
(* by less than MAX_COMPRESSION_RATIO.                                       *)
ManifestRecords ==
    [valid: BOOLEAN, version: 1..4, format: PayloadFormats,
     views: SUBSET UiNames, text: Texts, dense: BOOLEAN]

\* json.loads returns the object, for a text within MAX_MANIFEST_BYTES
Loads(m) == m.text \notin {"constant", "oversized"}

\* json.dumps and encode("utf-8"), of an object that can be encoded
Encoded(m) ==
    CASE m.text = "swells" -> [m EXCEPT !.text = "oversized"]
      [] m.text = "overflows" -> [m EXCEPT !.text = "constant"]
      [] OTHER -> m

PayloadRecords == [rev: Nat, validAs: SUBSET PayloadFormats, dense: BOOLEAN]

UiRecords == [rev: Nat, dense: BOOLEAN]

\* What validate_manifest guarantees of a manifest it accepts.
ManifestRules(m) ==
    /\ m.version = 1 => m.format = "cemod_elf"
    /\ m.version = 4 <=> m.views # {}

ASSUME NamesAssumption == UiNames \cap FixedNames = {}

ASSUME ContentsAssumption ==
    /\ Manifests \subseteq ManifestRecords
    /\ Payloads \subseteq PayloadRecords
    /\ UiContents \subseteq UiRecords
    /\ \A m \in Manifests : m.valid => ManifestRules(m)
    /\ \A m \in Manifests : Encoded(m) \in Manifests

FileData == Manifests \cup Payloads \cup UiContents \cup Keys

(* The digest leaves out the signature and nothing else, so it is the rest  *)
(* of the archive: names, lengths and contents.                             *)
Digests == [EntryNames \ {"signature.ed25519"} -> FileData \cup {Absent}]

Signatures == [key: Keys, digest: Digests]

ASSUME AbsentAssumption ==
    Absent \notin FileData \cup Signatures

(* The entries of an archive, as a function of all names.                   *)
Entries ==
    {e \in [EntryNames -> FileData \cup Signatures \cup {Absent}] :
        /\ e["signature.ed25519"] \in Signatures \cup {Absent}
        /\ \A n \in EntryNames \ {"signature.ed25519"} :
              e[n] \in FileData \cup {Absent}}

NoEntries == [n \in EntryNames |-> Absent]

Present(e) == {n \in EntryNames : e[n] # Absent}

canonical_signature_digest(e) ==
    [n \in EntryNames \ {"signature.ed25519"} |-> e[n]]

Signed(e) == e["signature.ed25519"] # Absent

(* verify_signature in verify_cemod.py and verify_detached in               *)
(* package_cemod.py: OpenSSL is asked about the key in the archive and the  *)
(* digest of the archive.                                                   *)
SignatureVerifies(e) ==
    e["signature.ed25519"] =
        [key |-> e["public_key.ed25519"], digest |-> canonical_signature_digest(e)]

-----------------------------------------------------------------------------
(* The reader, read_package, on an archive written by zipfile from a dict:  *)
(* names are unique, regular and known.  (The scan of an archive with       *)
(* arbitrary names is in module ArchiveScan.)                               *)

\* validate_manifest accepts the object the manifest was written from
ManifestAccepted(e) ==
    /\ e["manifest.json"] \in Manifests
    /\ e["manifest.json"].valid

\* exactly the payload the manifest selects, and the format's validator takes it
PayloadAccepted(e) ==
    LET m == e["manifest.json"]
    IN  /\ Present(e) \cap {"mod.elf", "plugin.wps"} = {PayloadPath[m.format]}
        /\ e[PayloadPath[m.format]] \in Payloads
        /\ m.format \in e[PayloadPath[m.format]].validAs

UiAccepted(e) ==
    LET m == e["manifest.json"]
    IN  /\ m.version = 4 <=> Present(e) \cap UiNames # {}
        /\ m.views \subseteq Present(e)

SignaturePaired(e) ==
    "public_key.ed25519" \in Present(e) <=> "signature.ed25519" \in Present(e)

WellFormed(e) ==
    ManifestAccepted(e) /\ PayloadAccepted(e) /\ UiAccepted(e) /\ SignaturePaired(e)

\* json.loads raises ValueError for Infinity, and read_package does not catch it
ManifestLoads(e) == e["manifest.json"].text # "constant"

\* the limits of the reader that the packager does not apply to what it writes
WithinReaderLimits(e) ==
    /\ e["manifest.json"].text # "oversized"
    /\ \A n \in Present(e) : e[n] \in Manifests \cup Payloads \cup UiContents => e[n].dense

ReaderAccepts(e) == WellFormed(e) /\ ManifestLoads(e) /\ WithinReaderLimits(e)

verify_cemod(e) == ReaderAccepts(e) /\ (Signed(e) => SignatureVerifies(e))
=============================================================================
