----------------------------- MODULE MCManifest -----------------------------
(* Small instances of Manifest: a valid manifest of each kind, and groups of *)
(* fields that rules relate, each in all its variants.                       *)
EXTENDS Manifest, TLC

MCUiNames == {"ui/main.html", "ui/hud.html"}
MCHosts == {"name", "address"}
MCPorts == {0, 1, 3, 4, 5}

MCMentions ==
    [homebrew_content_redirection |-> {"content_redirection", "homebrew_"},
     homebrew_sdutils |-> {"sdutils", "homebrew_"},
     homebrew_memorymapping |-> {"homebrew_"},
     homebrew_notifications |-> {"homebrew_"},
     nn_socket |-> {"socket"},
     coreinit |-> {}]
MCModules == DOMAIN MCMentions

Lists(S, n) == UNION {[1..l -> S] : l \in 0..n}

NoUsage == [imports |-> {}, patches |-> FALSE, fixed |-> FALSE]

Payload(format, path) == [well |-> TRUE, format |-> format, path |-> path]
Wups == Payload("wups", "plugin.wps")
Elf == Payload("cemod_elf", "mod.elf")

Memory(well, only, expansion) == [well |-> well, only_expansion |-> only, expansion |-> expansion]
Isolated == Memory(TRUE, FALSE, Other)

Size(width, min) ==
    [l \in Lengths |-> CASE l = "width" -> width [] l = "min_width" -> min [] OTHER -> Missing]
Window(width, min) == [well |-> TRUE, size |-> Size(width, min)]
Overlay(surfaces, z_order) ==
    [known |-> TRUE, well |-> TRUE, surfaces |-> surfaces, z_order |-> z_order]

MainView == [well |-> TRUE, entry |-> "ui/main.html", modes |-> <<"window">>,
             window |-> Window(Missing, Missing), overlay |-> Missing]
Ui(views, network) == [well |-> TRUE, views |-> views, network |-> network]

Trusted(version) ==
    [well |-> TRUE, package_version |-> version, execution_mode |-> "trusted_native",
     requested_permissions |-> IF version = 4 THEN <<"ui">> ELSE <<"read">>,
     web_ui |-> IF version = 4 THEN Ui(<<MainView>>, Missing) ELSE Missing,
     payload |-> IF version = 1 THEN Missing ELSE Wups,
     scope |-> Missing, permissions |-> Missing,
     memory |-> Missing, cpu |-> Missing, entrypoint |-> Missing]

\* versions, execution modes and everything that depends on them
Kinds ==
    {[Trusted(4) EXCEPT !.package_version = v, !.execution_mode = mode, !.payload = p,
                        !.memory = mem, !.cpu = isolated[1], !.entrypoint = isolated[2],
                        !.web_ui = ui[1], !.requested_permissions = ui[2], !.permissions = perm] :
        v \in 1..4, mode \in {"isolated", "trusted_native"},
        p \in {Missing, Wups, Elf, Payload("wups", "mod.elf"), Payload(Nested, "mod.elf")},
        mem \in {Missing, Isolated, Memory(FALSE, TRUE, 4), Memory(FALSE, TRUE, 5)},
        isolated \in {<<Missing, Missing>>, <<[well |-> TRUE], "cemod_init">>, <<Missing, "cemod_init">>},
        ui \in {<<Missing, <<>>>>, <<Ui(<<MainView>>, Missing), <<"ui">>>>,
                <<Missing, <<"ui">>>>, <<Ui(<<MainView>>, Missing), <<>>>>},
        perm \in {Missing, Null}}

\* single fields of the wrong type or value
Fields ==
    UNION {{[Trusted(v) EXCEPT !.well = FALSE], [Trusted(v) EXCEPT !.package_version = Other],
            [Trusted(v) EXCEPT !.execution_mode = Null],
            [Trusted(v) EXCEPT !.memory = Memory(FALSE, TRUE, 0)],
            [Trusted(v) EXCEPT !.memory = Memory(FALSE, TRUE, 12)],
            [Trusted(v) EXCEPT !.memory = Memory(FALSE, TRUE, Other)],
            [Trusted(v) EXCEPT !.cpu = Null, !.execution_mode = "isolated", !.memory = Isolated]}
           \cup {[Trusted(v) EXCEPT !.requested_permissions = r] :
                    r \in Wrong \cup Lists({"read", "ui", "network", Other, Nested}, 3)}
           \cup {[Trusted(v) EXCEPT !.payload = p] : p \in Wrong \cup {[Wups EXCEPT !.well = FALSE]}}
           \cup {[Trusted(v) EXCEPT !.web_ui = w] : w \in Wrong \cup {Ui(Null, Missing), Ui(<<>>, Missing)}} :
           v \in 1..4}

ViewVariants ==
    {[MainView EXCEPT !.well = well, !.modes = modes, !.window = w, !.overlay = o] :
        well \in BOOLEAN,
        modes \in Wrong \cup Lists({"window", "overlay", Other, Nested}, 2),
        w \in {Missing, Null, Window(4, 3), Window(4, 5), Window(9, Missing), Window(0, Missing)},
        o \in {Missing, Null, Overlay(<<"tv", "drc">>, "below_builtin"), Overlay(<<"tv">>, Nested),
               Overlay(<<"tv", "tv">>, Nested), Overlay(<<"tv", Nested>>, Null),
               [Overlay(<<Nested>>, Nested) EXCEPT !.known = FALSE]}}

ViewInputs ==
    LET hud == [MainView EXCEPT !.entry = "ui/hud.html", !.modes = <<"overlay">>, !.window = Missing,
                                !.overlay = Overlay(<<"drc">>, "above_builtin")]
    IN  {[Trusted(4) EXCEPT !.web_ui.views = views] :
            views \in {<<v, hud>> : v \in ViewVariants} \cup {<<hud, v>> : v \in ViewVariants}
                        \cup {<<hud, hud, MainView>>}}

Origin(scheme, host, notation, port) ==
    [scheme |-> scheme, host |-> host, notation |-> notation, port |-> port, well |-> TRUE]

SomeOrigins ==
    {Origin("https", "name", "plain", Missing), Origin("https", "name", "capitals", 3),
     Origin("https", "name", "plain", 4), Origin("wss", "name", "plain", 3),
     Origin("https", "address", "plain", 3), Origin("https", "address", "short", Missing),
     Origin("https", "name", "plain", 0), Origin("https", "name", "plain", 5),
     Origin("http", "name", "plain", 1), [Origin("https", "name", "plain", 1) EXCEPT !.well = FALSE],
     Other}

NetworkInputs ==
    {[Trusted(4) EXCEPT
        !.requested_permissions = requested,
        !.web_ui.network = [well |-> TRUE, connect |-> c, resources |-> r, credentials |-> flags[1],
                            persistent_storage |-> flags[2], allow_private_network |-> flags[3]]] :
        requested \in {<<"ui">>, <<"network", "ui">>},
        c \in {Missing, Null} \cup Lists(SomeOrigins, 2) \cup [1..3 -> {Origin("https", "name", "plain", 1)}],
        r \in {Missing, Nested, <<Origin("wss", "name", "plain", Missing)>>}
                \cup Lists({Origin("https", "name", "plain", Missing),
                            Origin("https", "name", "capitals", 3)}, 2),
        flags \in {<<Missing, Missing, Missing>>, <<FALSE, TRUE, FALSE>>, <<TRUE, FALSE, FALSE>>,
                   <<FALSE, FALSE, TRUE>>, <<Missing, Other, Missing>>}}

ScopeInputs ==
    {[Trusted(v) EXCEPT !.scope = s] : v \in 1..3,
        s \in Wrong \cup {[type |-> type, targets |-> targets, extra |-> extra] :
                             type \in {"process", "aroma_native"} \cup Wrong,
                             targets \in Wrong \cup Lists({"all", "game", Other, Nested}, 2),
                             extra \in BOOLEAN}}

Flag(n, value) == [c \in Capabilities \cup {"plugin_management"} |-> IF c = n THEN value ELSE Missing]

FlagVariants ==
    {Flag(n, value) : n \in Capabilities \cup {"plugin_management"}, value \in {Missing, FALSE, TRUE, Other}}
        \cup {[c \in Capabilities \cup {"plugin_management"} |-> c # "plugin_management"]}

Filesystem(read, write) == [well |-> TRUE, read |-> read, write |-> write]

FilesystemVariants == {Missing, Null, Other} \cup {Filesystem(r, w) : r, w \in {Missing, TRUE, FALSE}}
ModuleLists ==
    {Missing, Null, Other, <<Other>>, <<Nested>>, <<"homebrew_sdutils">>,
     <<"homebrew_sdutils", "homebrew_sdutils">>, <<"coreinit", "nn_socket", "homebrew_sdutils">>,
     <<"coreinit", "nn_socket", "homebrew_sdutils", "homebrew_notifications">>}

Permission(flags, filesystems, lists) ==
    {[well |-> TRUE, flags |-> f, filesystem |-> fs, modules |-> l] :
        f \in flags, fs \in filesystems, l \in lists}

PermissionVariants ==
    Wrong \cup Permission({Flag("network", TRUE)}, FilesystemVariants, ModuleLists)
          \cup Permission(FlagVariants, {Missing, Null, Filesystem(TRUE, FALSE)}, {Missing, Null})
          \cup {[well |-> FALSE, flags |-> Flag("network", TRUE), filesystem |-> Null, modules |-> Null]}

SomeUsages ==
    {[imports |-> {m}, patches |-> p, fixed |-> FALSE] : m \in MCModules, p \in BOOLEAN}
        \cup {[imports |-> MCModules, patches |-> TRUE, fixed |-> TRUE],
              [imports |-> {"homebrew_sdutils", "homebrew_notifications"}, patches |-> FALSE, fixed |-> TRUE]}

MCInputs ==
    UNION {Kinds \X {NoUsage}, Fields \X {NoUsage}, ViewInputs \X {NoUsage},
           NetworkInputs \X {NoUsage}, ScopeInputs \X {NoUsage},
           {<<[Trusted(v) EXCEPT !.permissions = p], u>> :
               v \in 2..4, u \in {NoUsage} \cup SomeUsages, p \in PermissionVariants}}
=============================================================================
