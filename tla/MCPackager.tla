----------------------------- MODULE MCPackager -----------------------------
(* Small instances of CemodPackager.                                        *)
EXTENDS CemodPackager, TLC

CONSTANTS r1, r2, main_html, extra_js, k1, k2

MCUiNames == {main_html, extra_js}

Manifest(version, format, views) ==
    [valid |-> TRUE, version |-> version, format |-> format, views |-> views,
     text |-> "plain", dense |-> TRUE]

PlainWups == Manifest(3, "wups", {})
PlainElf == Manifest(1, "cemod_elf", {})
UiWups == Manifest(4, "wups", {main_html})
Rejected == [PlainWups EXCEPT !.valid = FALSE]
Text(text) == [PlainWups EXCEPT !.text = text]

\* with what json.dumps makes of them
WithEncoded(manifests) == manifests \cup {Encoded(m) : m \in manifests}

Payload(rev, formats) == [rev |-> rev, validAs |-> formats, dense |-> TRUE]
Wps1 == Payload(1, {"wups"})
Wps2 == Payload(2, {"wups"})
Elf == Payload(3, {"cemod_elf"})
\* a plugin with a large zero-filled table
Sparse == [Wps1 EXCEPT !.rev = 4, !.dense = FALSE]

Page(rev) == [rev |-> rev, dense |-> TRUE]
MCUiContents == {Page(1), Page(2)}
LinkTo(target) == [to |-> target]
MCUiEdits == {Page(2), Absent, Directory, Oversized, LinkTo(Page(2))}

Job(format, ui, signing) == [format |-> format, ui |-> ui, signing |-> signing]

Inputs(manifests, payloads) ==
    {[manifest |-> m, payload |-> p,
      ui |-> [n \in MCUiNames |-> Page(1)],
      private_key |-> k1, public_key |-> k1, signature |-> Absent] :
        m \in manifests, p \in payloads}

\* inputs: every reason to reject them or the options, and signatures made
\* over the inputs as they are, with either key
Genuine(i, k) ==
    [key |-> k,
     digest |-> canonical_signature_digest(
        [n \in EntryNames |->
            CASE n = "manifest.json" -> Encoded(i.manifest)
              [] n = "plugin.wps" -> i.payload
              [] n = "public_key.ed25519" -> k
              [] n \in UiNames /\ i.manifest.version = 4 -> i.ui[n]
              [] OTHER -> Absent])]

AllManifests ==
    WithEncoded({PlainWups, PlainElf, UiWups, Rejected,
                 Text("overflows"), Text("unencodable")})
AllPayloads == {Wps1, Wps2, Elf}
AllInputs ==
    Inputs({PlainElf, UiWups, Absent}, {Wps1, Elf, Absent})
        \cup {[i EXCEPT !.signature = Genuine(i, k)] :
                 i \in Inputs({UiWups}, {Wps1}), k \in Keys}
AllJobs == JobRecords

\* beyond the limits of the reader: a text that grows, or a sparse payload;
\* and a number the reader does not load
LimitManifests == WithEncoded({PlainWups, Text("swells"), Text("overflows")})
LimitPayloads == {Wps1, Sparse}
LimitInputs == Inputs(LimitManifests, LimitPayloads)
LimitJobs == {Job("wups", FALSE, "none")}
=============================================================================
