--------------------------- MODULE MCArchiveScan ---------------------------
(* Small instances of ArchiveScan: limits of a few bytes, and directories   *)
(* made of entries that stand at or just beyond each limit.                 *)
EXTENDS ArchiveScan, TLC

CONSTANTS page_a, page_A, page_b, k1

MCUiNames == {page_a, page_A, page_b}

MCComponents == FixedNames \cup {"ui", "", ".", "..", "a", "A", "b", "C:", "unsafe"}
MCFold == [c \in MCComponents |-> IF c = "A" THEN "a" ELSE c]
MCPathOf == (page_a :> <<"ui", "a">>) @@ (page_A :> <<"ui", "A">>) @@ (page_b :> <<"ui", "b">>) @@
            [n \in FixedNames |-> <<n>>]

Manifest(version, format, views) ==
    [valid |-> TRUE, version |-> version, format |-> format, views |-> views,
     text |-> "plain", dense |-> TRUE]
PlainWups == Manifest(3, "wups", {})
PlainElf == Manifest(1, "cemod_elf", {})
UiWups == Manifest(4, "wups", {page_a})
Rejected == [PlainWups EXCEPT !.valid = FALSE]
MCManifests == {PlainWups, PlainElf, UiWups, Rejected}

Wps == [rev |-> 1, validAs |-> {"wups"}, dense |-> TRUE]
MCPayloads == {Wps}
Page == [rev |-> 9, dense |-> TRUE]
NotANumber == [rev |-> 8, dense |-> TRUE]
MCUiContents == {Page, NotANumber}
MCEscaping == {NotANumber}

Signature == [key |-> k1, digest |-> [n \in EntryNames \ {"signature.ed25519"} |-> Absent]]

Info(name, data) ==
    [name |-> name, regular |-> TRUE, supported |-> TRUE, size |-> 2, csize |-> 1,
     read |-> "whole", data |-> data]

ManifestInfo(m) == Info(<<"manifest.json">>, m)
WpsInfo == Info(<<"plugin.wps">>, Wps)
UiInfo(rest) == Info(<<"ui">> \o rest, Page)
KeyInfo == Info(<<"public_key.ed25519">>, k1)
SignatureInfo == Info(<<"signature.ed25519">>, Signature)

\* names in every spelling
Spellings ==
    {UiInfo(rest) : rest \in {<<"a">>, <<"A">>, <<".", "a">>, <<"", "a">>, <<"b">>, <<"">>,
                              <<"..", "a">>, <<"unsafe">>}}
        \cup {Info(name, Page) : name \in {<<"", "ui", "a">>, <<"C:", "a">>, <<".">>,
                                           <<"ui">>, <<"b">>, <<".", "plugin.wps">>}}

\* sizes at and beyond the limits, entries that cannot be read
Variants ==
    {[UiInfo(<<"b">>) EXCEPT !.size = s, !.csize = c] : s \in {0, 3, 4, 5}, c \in {0, 1, 2}}
        \cup {[UiInfo(<<"b">>) EXCEPT !.read = r] : r \in {"short", "bad", "raises"}}
        \cup {[UiInfo(<<"a">>) EXCEPT !.size = 4, !.csize = 2],
              [UiInfo(<<"b">>) EXCEPT !.regular = FALSE],
              [UiInfo(<<"b">>) EXCEPT !.supported = FALSE]}

\* the entries outside ui/, also with the wrong contents
FixedInfos ==
    {ManifestInfo(m) : m \in MCManifests \cup {Page, NotANumber}}
        \cup {KeyInfo, SignatureInfo, Info(<<"public_key.ed25519">>, Page), WpsInfo,
              [WpsInfo EXCEPT !.size = 0], Info(<<"mod.elf">>, Wps), Info(<<"plugin.wps">>, Page),
              [WpsInfo EXCEPT !.size = 6, !.csize = 3], [WpsInfo EXCEPT !.size = 7, !.csize = 4],
              [ManifestInfo(PlainWups) EXCEPT !.size = 4, !.csize = 2],
              [ManifestInfo(PlainWups) EXCEPT !.size = 5, !.csize = 4]}

AllInfos == Spellings \cup Variants \cup FixedInfos
MCInfos(n) == UNION {[1..k -> AllInfos] : k \in 0..n}

\* every directory of at most two entries; every manifest with a payload and
\* two more entries, in two orders; a signed package with one more
MCArchives ==
    {[readable |-> TRUE, infos |-> s] : s \in MCInfos(2)}
        \cup {[readable |-> FALSE, infos |-> <<>>]}
        \cup {[readable |-> TRUE, infos |-> <<ManifestInfo(m), WpsInfo>> \o s] :
                 m \in {PlainWups, UiWups}, s \in MCInfos(2)}
        \cup {[readable |-> TRUE, infos |-> s \o <<WpsInfo, ManifestInfo(UiWups)>>] :
                 s \in MCInfos(2)}
        \cup {[readable |-> TRUE,
               infos |-> <<KeyInfo, WpsInfo, SignatureInfo, ManifestInfo(m)>> \o s] :
                 m \in {PlainWups, UiWups}, s \in MCInfos(1)}
=============================================================================
