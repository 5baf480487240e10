--------------------------- MODULE MCWpsMetadata ---------------------------
(* Small instances of WpsMetadata: every text of up to five characters of   *)
(* one, two and four bytes after the string "w=k".                          *)
EXTENDS WpsMetadata, SequencesExt

\* "orphan": a continuation byte without its lead byte
Text == [nul |-> <<"nul">>, equals |-> <<"=">>, n |-> <<"n">>, w |-> <<"w">>, k |-> <<"k">>,
         bell |-> <<"bell">>, two |-> <<"lead2", "cont">>,
         four |-> <<"lead4", "cont", "cont", "cont">>, orphan |-> <<"cont">>]

MCBytes == {"nul", "=", "n", "w", "k", "bell", "lead2", "lead4", "cont"}
MCWidth == [b \in MCBytes |-> CASE b = "lead2" -> 2 [] b = "lead4" -> 4 [] OTHER -> 1]

Texts(symbols, n) == UNION {[1..l -> symbols] : l \in 0..n}
Encoded(t) == FlattenSeq([l \in DOMAIN t |-> Text[t[l]]])

WupsString == <<"w", "=", "k", "nul">>

MCSections ==
    {WupsString \o Encoded(t) \o <<"nul">> : t \in Texts(DOMAIN Text \ {"bell", "orphan"}, 5)}
        \cup {WupsString \o Encoded(t) : t \in Texts(DOMAIN Text, 3)}
        \cup {Encoded(t) \o <<"nul">> : t \in Texts(DOMAIN Text, 3)}

MCSupported == {<<"k">>}
MCDebugFlags == {<<"n", "k">>}
MCName == <<"n">>
MCWups == <<"w">>
MCStorageId == <<"k">>
MCDebug == <<"n", "k">>
=============================================================================
