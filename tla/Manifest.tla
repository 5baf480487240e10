------------------------------ MODULE Manifest ------------------------------
(***************************************************************************)
(* validate_manifest in tools/cemodlib.py, check by check, and then what   *)
(* tools/inspect_wups.py reports of an accepted manifest and the plugin it *)
(* is compared with.                                                       *)
(*                                                                         *)
(* A manifest is what json.loads returned: a field may be missing, null or *)
(* of any type.  Where Python hashes a value (in a set or a dict) a list   *)
(* or an object raises TypeError, so these are told apart from the other   *)
(* values of a wrong type.  "well" stands for the rules of an object that  *)
(* look at one field each and cannot raise: unknown fields, identifiers,   *)
(* texts, booleans, ranges.                                                *)
(***************************************************************************)
EXTENDS CemodFormat, SequencesExt

CONSTANTS
    Missing,         \* a field that is not there
    Null,            \* null
    Other,           \* a wrong value that Python can hash, of any type
    Nested,          \* a list or an object where something else belongs
    Hosts, Ports,    \* the hosts, and the ports written, in origins
    MAX_PORT, DEFAULT_PORT, MAX_ORIGINS, MAX_VIEWS, MAX_MODULES,
    MAX_WINDOW, MAX_EXPANSION, PAGE,
    Modules,         \* the modules a plugin may import from
    Mentions,        \* what inspect_wups looks for in the name of each module
    Inputs           \* the manifests, each with the plugin it is compared with

Wrong == {Missing, Null, Other, Nested}
Flags == BOOLEAN \cup {Missing, Other}

Requests == {"read", "write", "inject", "clipboard", "capture", "network", "ui", "microphone"}

\* three of the 14 names in PROCESS_TARGET_NAMES: there are no 16 distinct ones
Targets == {"all", "game", "home_menu"}

\* how the host of an origin is written: "capitals" in either case, "long" with
\* the zeros of an IPv6 address, the last two as in 0x7f000001 and in 127.1
Notations == {"plain", "capitals", "long", "hexadecimal", "short"}

(* An origin is well when urlsplit takes it, it has no user, path, query or *)
(* fragment, and its host is an address or has the form of a name.  host is *)
(* the machine it names.                                                    *)
Origins == [scheme: {"https", "wss", "http"}, host: Hosts, notation: Notations,
            port: Ports \cup {Missing}, well: BOOLEAN]

Lengths == {"width", "height", "min_width", "min_height"}
Windows == [well: BOOLEAN, size: [Lengths -> Nat \cup {Missing, Other}]]

\* known: no unknown field; well: the rules that come after z_order
Overlays == [known: BOOLEAN, well: BOOLEAN,
             surfaces: Wrong \cup Seq({"tv", "drc", Other, Nested}),
             z_order: {"below_builtin", "above_builtin"} \cup Wrong]

Views == [well: BOOLEAN, entry: UiNames,
          modes: Wrong \cup Seq({"window", "overlay", Other, Nested}),
          window: Windows \cup Wrong, overlay: Overlays \cup Wrong]

Networks == [well: BOOLEAN, connect: Wrong \cup Seq(Origins \cup {Other}),
             resources: Wrong \cup Seq(Origins \cup {Other}),
             credentials: Flags, persistent_storage: Flags, allow_private_network: Flags]

WebUis == [well: BOOLEAN, views: Wrong \cup Seq(Views), network: Networks \cup Wrong]

PayloadDescriptors == [well: BOOLEAN, format: PayloadFormats \cup Wrong,
                       path: {"mod.elf", "plugin.wps"} \cup Wrong]

\* extra: a field besides type and targets
Scopes == [type: {"process", "aroma_native"} \cup Wrong,
           targets: Wrong \cup Seq(Targets \cup {Other, Nested}), extra: BOOLEAN]

\* the permissions that are booleans in every version
Capabilities == {"native_memory", "function_patching", "physical_address_patching", "network",
                 "mapped_memory", "notifications", "content_redirection"}

Filesystems == [well: BOOLEAN, read: BOOLEAN \cup {Missing}, write: BOOLEAN \cup {Missing}]

Permissions == [well: BOOLEAN, flags: [Capabilities \cup {"plugin_management"} -> Flags],
                filesystem: Filesystems \cup Wrong,
                modules: Wrong \cup Seq(Modules \cup {Other, Nested})]

\* well: what an isolated mod needs is there, and each size within its limit
Memories == [well: BOOLEAN, only_expansion: BOOLEAN, expansion: Nat \cup {Other}]

\* well: api_version, mod_id and title_ids
ManifestObjects ==
    [well: BOOLEAN, package_version: (1..4) \cup Wrong,
     execution_mode: {"isolated", "trusted_native"} \cup Wrong,
     requested_permissions: Wrong \cup Seq(Requests \cup {Other, Nested}),
     web_ui: WebUis \cup Wrong, payload: PayloadDescriptors \cup Wrong,
     scope: Scopes \cup Wrong, permissions: Permissions \cup Wrong,
     memory: Memories \cup Wrong, cpu: [well: BOOLEAN] \cup Wrong,
     entrypoint: {"cemod_init"} \cup Wrong]

Phrases == {"content_redirection", "sdutils", "socket", "network", "homebrew_"}

\* what a plugin imports from, and whether it patches functions, fixed addresses
Usages == [imports: SUBSET Modules, patches: BOOLEAN, fixed: BOOLEAN]

ASSUME ManifestAssumption ==
    /\ Inputs \subseteq ManifestObjects \X Usages
    /\ \A input \in Inputs : IsFiniteSet(input[2].imports)
    /\ Mentions \in [Modules -> SUBSET Phrases]
    /\ MAX_VIEWS \in Nat \ {0} /\ MAX_MODULES \in Nat /\ MAX_PORT \in Nat /\ DEFAULT_PORT \in 1..MAX_PORT

\* wrong values are of no right type, and null is not the absence of a field
ASSUME WrongAssumption ==
    /\ UiNames # {} /\ Missing \notin {Null, Other}
    /\ \A w \in Wrong :
          /\ w \notin 1..4 /\ w \notin WebUis /\ w \notin Windows /\ w \notin Permissions
          /\ w \notin Seq(Views) /\ w \notin Seq(Requests) /\ w \notin Seq(Modules)
          /\ w \notin Filesystems /\ w \notin BOOLEAN
          /\ w \notin {"window"} /\ w \notin Seq({"window"})

VARIABLES
    manifest,  \* the object given to validate_manifest
    usage,     \* the plugin inspect_wups compares it with
    stage,     \* the check that comes next, or how it ended
    view,      \* the index of the view the loop over views is at
    warnings   \* what permission_warnings returns

vars == <<manifest, usage, stage, view, warnings>>

Checks == {"fields", "requested", "version", "webUi", "viewModes", "viewWindow", "viewOverlay",
           "network", "payload", "scope", "permissions", "execution"}
Accepted == stage \in {"accepted", "reported", "crashed"}

-----------------------------------------------------------------------------
(* What each check refuses, and where it raises TypeError instead.          *)

\* "in" on a dict
Has(field) == field # Missing

\* a list of distinct values, all of them allowed
ListOf(list, allowed) == list \notin Wrong /\ Range(list) \subseteq allowed /\ IsInjective(list)

Bool(flag) == flag # Other

BadFields(m) ==
    ~m.well \/ m.package_version \in Wrong \/ m.execution_mode \in Wrong

\* each value is known to be a string before a set is made of them
BadRequested(m) == ~ListOf(m.requested_permissions, Requests)

Asks(m, permission) == permission \in Range(m.requested_permissions)

\* mutant: a web_ui may stand in any version
BadVersion_AnyUi(m) ==
    \/ Asks(m, "ui") /\ m.package_version < 4
    \/ m.package_version = 4 /\ ~(Asks(m, "ui") /\ Has(m.web_ui))

BadVersion(m) ==
    \/ Asks(m, "ui") /\ m.package_version < 4
    \/ m.package_version < 4 /\ Has(m.web_ui)
    \/ m.package_version = 4 /\ ~(Asks(m, "ui") /\ Has(m.web_ui))

BadWebUi(m) ==
    \/ m.web_ui \in Wrong
    \/ ~m.web_ui.well
    \/ m.web_ui.views \in Wrong
    \/ Len(m.web_ui.views) \notin 1..MAX_VIEWS

\* set(modes) is built before each mode is looked at
ModesRaise(v) == v.well /\ v.modes \notin Wrong /\ Nested \in Range(v.modes)

BadModes(v) ==
    \/ ~v.well
    \/ ~ListOf(v.modes, {"window", "overlay"}) \/ v.modes = <<>>
    \/ ("window" \in Range(v.modes)) # Has(v.window)
    \/ ("overlay" \in Range(v.modes)) # Has(v.overlay)

Exceeds(window, min, initial) ==
    /\ Has(window.size[min]) /\ Has(window.size[initial])
    /\ window.size[min] > window.size[initial]

BadWindow(v) ==
    /\ Has(v.window)
    /\ \/ v.window \in Wrong
       \/ ~v.window.well
       \/ \E l \in Lengths : v.window.size[l] \notin {Missing} \cup 1..MAX_WINDOW
       \/ Exceeds(v.window, "min_width", "width") \/ Exceeds(v.window, "min_height", "height")

BadSurfaces(o) == ~ListOf(o.surfaces, {"tv", "drc"}) \/ o.surfaces = <<>>

OverlayRaises(v) ==
    /\ v.overlay \notin Wrong /\ v.overlay.known
    /\ \/ v.overlay.surfaces \notin Wrong /\ Nested \in Range(v.overlay.surfaces)
       \/ ~BadSurfaces(v.overlay) /\ v.overlay.z_order = Nested

BadOverlay(v) ==
    /\ Has(v.overlay)
    /\ \/ v.overlay \in Wrong
       \/ ~v.overlay.known
       \/ BadSurfaces(v.overlay)
       \/ v.overlay.z_order \in Wrong
       \/ ~v.overlay.well

EffectivePort(o) == IF o.port = Missing THEN DEFAULT_PORT ELSE o.port

\* lower() and ip_address give most notations one text.  An address in
\* hexadecimal or in fewer than four numbers is no address to ip_address, but
\* has the form of a name, and stays what it is.
HostIdentity(o) ==
    <<o.host, IF o.notation \in {"hexadecimal", "short"} THEN o.notation ELSE "plain">>

\* _canonical_origin, of an origin it takes
CanonicalOrigin(o) == <<o.scheme, HostIdentity(o), EffectivePort(o)>>

BadOrigins(list, schemes) ==
    /\ Has(list)
    /\ \/ list \in Wrong
       \/ Len(list) > MAX_ORIGINS
       \/ \E i \in DOMAIN list :
             \/ list[i] = Other
             \/ ~list[i].well \/ list[i].scheme \notin schemes
             \/ EffectivePort(list[i]) \notin 1..MAX_PORT
       \/ ~IsInjective([i \in DOMAIN list |-> CanonicalOrigin(list[i])])

\* bool(...) of lists and flags: an empty list and FALSE count as nothing
UsesNetwork(n) ==
    \/ n.connect \notin {Missing, <<>>} \/ n.resources \notin {Missing, <<>>}
    \/ n.credentials = TRUE \/ n.allow_private_network = TRUE

BadNetwork(m) ==
    LET n == m.web_ui.network
    IN  /\ n \notin {Missing, Null}
        /\ \/ n \in Wrong
           \/ ~n.well
           \/ BadOrigins(n.connect, {"https", "wss"}) \/ BadOrigins(n.resources, {"https"})
           \/ ~(Bool(n.credentials) /\ Bool(n.persistent_storage) /\ Bool(n.allow_private_network))
           \/ UsesNetwork(n) /\ ~Asks(m, "network")

-----------------------------------------------------------------------------
\* mutant: that payload is an object is not checked
PayloadRaises_Unchecked(m) ==
    /\ m.package_version # 1
    /\ m.payload \in Wrong \/ (m.payload.well /\ m.payload.format = Nested)

\* a lookup of the format in a dict
PayloadRaises(m) ==
    /\ m.package_version # 1 /\ m.payload \notin Wrong
    /\ m.payload.well /\ m.payload.format = Nested

BadPayload(m) ==
    IF m.package_version = 1
    THEN Has(m.payload) \/ Has(m.scope) \/ Has(m.permissions)
    ELSE \/ m.payload \in Wrong
         \/ ~m.payload.well
         \/ m.payload.format \notin PayloadFormats
         \/ m.payload.path # PayloadPath[m.payload.format]

PayloadFormat(m) == IF m.package_version = 1 THEN "cemod_elf" ELSE m.payload.format

\* a lookup of the type in a set
ScopeRaises(m) == m.scope \notin Wrong /\ m.scope.type = Nested

BadScope(m) ==
    /\ m.scope \notin {Missing, Null}
    /\ \/ m.scope \in Wrong
       \/ m.scope.type \in Wrong
       \/ m.scope.extra
       \/ m.scope.type = "aroma_native" /\ Has(m.scope.targets)
       \/ /\ m.scope.type = "process"
          /\ ~ListOf(m.scope.targets, Targets) \/ m.scope.targets = <<>>

BadFilesystem(f) == f \notin {Missing, Null} /\ (f \in Wrong \/ ~f.well)

BadModules(list) ==
    list \notin {Missing, Null} /\ (~ListOf(list, Modules) \/ Len(list) > MAX_MODULES)

\* mutant: plugin_management belongs to version 3 alone
BadPermissions_OneVersion(m) ==
    LET p == m.permissions
    IN  /\ p \notin {Missing, Null}
        /\ \/ p \in Wrong
           \/ ~p.well
           \/ m.package_version # 3 /\ Has(p.flags["plugin_management"])
           \/ \E name \in DOMAIN p.flags : ~Bool(p.flags[name])
           \/ BadFilesystem(p.filesystem) \/ BadModules(p.modules)

BadPermissions(m) ==
    LET p == m.permissions
    IN  /\ p \notin {Missing, Null}
        /\ \/ p \in Wrong
           \/ ~p.well
           \/ m.package_version < 3 /\ Has(p.flags["plugin_management"])
           \/ \E name \in DOMAIN p.flags : ~Bool(p.flags[name])
           \/ BadFilesystem(p.filesystem) \/ BadModules(p.modules)

\* mutant: native code may ask for memory in every version
BadExpansion_AnyVersion(m) ==
    /\ m.memory \notin {Missing, Null}
    /\ \/ m.memory \in Wrong
       \/ ~m.memory.only_expansion
       \/ m.memory.expansion \notin 1..MAX_EXPANSION
       \/ m.memory.expansion % PAGE # 0

BadExpansion(m) ==
    /\ m.memory \notin {Missing, Null}
    /\ \/ m.package_version < 3
       \/ m.memory \in Wrong
       \/ ~m.memory.only_expansion
       \/ m.memory.expansion \notin 1..MAX_EXPANSION
       \/ m.memory.expansion % PAGE # 0

BadExecution(m) ==
    \/ PayloadFormat(m) = "wups" /\ m.execution_mode # "trusted_native"
    \/ /\ m.execution_mode = "trusted_native"
       /\ Has(m.cpu) \/ Has(m.entrypoint) \/ BadExpansion(m)
    \/ /\ m.execution_mode = "isolated"
       /\ \/ m.memory \in Wrong \/ m.cpu \in Wrong \/ m.entrypoint # "cemod_init"
          \/ ~m.memory.well \/ ~m.cpu.well

-----------------------------------------------------------------------------
(* The report of inspect_wups.py.                                           *)

Names(phrases, u) == {i \in u.imports : Mentions[i] \cap phrases # {}}

Reported == Capabilities \cup {"filesystem_read", "filesystem_write"}

\* required_permissions, without modules
Required(u) ==
    [name \in Reported |->
        CASE name \in {"native_memory", "function_patching"} -> u.patches
          [] name = "physical_address_patching" -> u.patches /\ u.fixed
          [] name \in {"filesystem_read", "filesystem_write"} ->
                Names({"content_redirection", "sdutils"}, u) # {}
          [] name = "network" -> Names({"socket", "network"}, u) # {}
          [] name = "mapped_memory" -> "homebrew_memorymapping" \in u.imports
          [] name = "notifications" -> "homebrew_notifications" \in u.imports
          [] name = "content_redirection" -> Names({"content_redirection"}, u) # {}]

\* mutant: permissions is subscripted, not asked for
ReportRaises_Subscript(m) ==
    \/ m.permissions \in {Missing, Null}
    \/ m.permissions.filesystem = Null \/ m.permissions.modules = Null

\* None has no "get", and no set can be made of it
ReportRaises(m) ==
    \/ m.permissions = Null
    \/ m.permissions # Missing /\ (m.permissions.filesystem = Null \/ m.permissions.modules = Null)

\* mutant: both halves of filesystem are looked up as "read"
Declares_ReadTwice(m, name) ==
    /\ Has(m.permissions)
    /\ IF name \in Capabilities THEN m.permissions.flags[name] = TRUE
       ELSE Has(m.permissions.filesystem) /\ m.permissions.filesystem.read = TRUE

Declares(m, name) ==
    /\ Has(m.permissions)
    /\ CASE name \in Capabilities -> m.permissions.flags[name] = TRUE
         [] name = "filesystem_read" ->
               Has(m.permissions.filesystem) /\ m.permissions.filesystem.read = TRUE
         [] name = "filesystem_write" ->
               Has(m.permissions.filesystem) /\ m.permissions.filesystem.write = TRUE

DeclaredModules(m) ==
    IF Has(m.permissions) /\ Has(m.permissions.modules) THEN Range(m.permissions.modules) ELSE {}

permission_warnings(m, u) ==
    [names |-> {name \in Reported : Required(u)[name] /\ ~Declares(m, name)},
     modules |-> Names({"homebrew_"}, u) \ DeclaredModules(m)]

-----------------------------------------------------------------------------
None == [names |-> {}, modules |-> {}]

Init ==
    /\ \E input \in Inputs : manifest = input[1] /\ usage = input[2]
    /\ stage = "fields" /\ view = 1 /\ warnings = None

\* one check: it raises, it refuses, or the next one follows
Check(here, raises, refuses, next) ==
    /\ stage = here
    /\ stage' = IF raises THEN "raised" ELSE IF refuses THEN "rejected" ELSE next
    /\ UNCHANGED <<manifest, usage, warnings>>

CheckFields == Check("fields", FALSE, BadFields(manifest), "requested") /\ UNCHANGED view

CheckRequested == Check("requested", FALSE, BadRequested(manifest), "version") /\ UNCHANGED view

CheckVersion ==
    /\ Check("version", FALSE, BadVersion(manifest),
             IF manifest.package_version = 4 THEN "webUi" ELSE "payload")
    /\ UNCHANGED view

CheckWebUi == Check("webUi", FALSE, BadWebUi(manifest), "viewModes") /\ UNCHANGED view

View == manifest.web_ui.views[view]

CheckModes ==
    Check("viewModes", ModesRaise(View), BadModes(View), "viewWindow") /\ UNCHANGED view

CheckWindow == Check("viewWindow", FALSE, BadWindow(View), "viewOverlay") /\ UNCHANGED view

\* the last check of a view: the next view follows
CheckOverlay ==
    /\ Check("viewOverlay", OverlayRaises(View), BadOverlay(View),
             IF view < Len(manifest.web_ui.views) THEN "viewModes" ELSE "network")
    /\ view' = IF stage' = "viewModes" THEN view + 1 ELSE view

CheckNetwork == Check("network", FALSE, BadNetwork(manifest), "payload") /\ UNCHANGED view

CheckPayload ==
    /\ Check("payload", PayloadRaises(manifest), BadPayload(manifest),
             IF manifest.package_version = 1 THEN "execution" ELSE "scope")
    /\ UNCHANGED view

CheckScope ==
    Check("scope", ScopeRaises(manifest), BadScope(manifest), "permissions") /\ UNCHANGED view

CheckPermissions ==
    Check("permissions", FALSE, BadPermissions(manifest), "execution") /\ UNCHANGED view

CheckExecution == Check("execution", FALSE, BadExecution(manifest), "accepted") /\ UNCHANGED view

\* inspect_wups.py goes on with the manifest that validate_manifest took
Report ==
    /\ stage = "accepted"
    /\ IF ReportRaises(manifest)
       THEN stage' = "crashed" /\ UNCHANGED warnings
       ELSE stage' = "reported" /\ warnings' = permission_warnings(manifest, usage)
    /\ UNCHANGED <<manifest, usage, view>>

Next ==
    \/ CheckFields \/ CheckRequested \/ CheckVersion \/ CheckWebUi
    \/ CheckModes \/ CheckWindow \/ CheckOverlay \/ CheckNetwork
    \/ CheckPayload \/ CheckScope \/ CheckPermissions \/ CheckExecution
    \/ Report

Spec == Init /\ [][Next]_vars

-----------------------------------------------------------------------------
(* Properties.                                                              *)

TypeOK ==
    /\ stage \in Checks \cup {"accepted", "rejected", "raised", "reported", "crashed"}
    /\ stage \in {"viewModes", "viewWindow", "viewOverlay"} =>
          view \in DOMAIN manifest.web_ui.views
    /\ warnings \in [names: SUBSET Reported, modules: SUBSET Modules]

\* what the packager and the reader see of a manifest
Summary(m) ==
    [version |-> m.package_version, format |-> PayloadFormat(m),
     views |-> IF m.package_version = 4
               THEN {m.web_ui.views[i].entry : i \in DOMAIN m.web_ui.views} ELSE {}]

UsesUi(m) == m.web_ui \notin Wrong

(* The rules across fields hold of an accepted manifest, although each is    *)
(* checked inside the branch of one version, format or mode and some fields *)
(* are not looked at in the others: what the packager and the reader rely   *)
(* on (ManifestRules), native code only as trusted code, a network policy   *)
(* that is used only with the network permission, a Web UI only with the ui *)
(* permission, and only from version 3 on the permission to manage plugins  *)
(* and memory for trusted code.                                             *)
AcceptedIsConsistent ==
    Accepted =>
        /\ ManifestRules(Summary(manifest))
        /\ PayloadFormat(manifest) = "wups" =>
              manifest.execution_mode = "trusted_native" /\ manifest.cpu = Missing
        /\ UsesUi(manifest) => Asks(manifest, "ui")
        /\ UsesUi(manifest) /\ manifest.web_ui.network \notin {Missing, Null}
              /\ UsesNetwork(manifest.web_ui.network) => Asks(manifest, "network")
        /\ manifest.permissions \notin {Missing, Null}
              /\ Has(manifest.permissions.flags["plugin_management"])
              => manifest.package_version \in {3, 4}
        /\ manifest.execution_mode = "trusted_native"
              /\ manifest.memory \notin {Missing, Null}
              => manifest.package_version \in {3, 4}

(* validate_manifest ends in an exception that is not a CemodError only for *)
(* a list or an object among modes, surfaces, a z_order, a payload format   *)
(* or a scope type.  Everywhere else the type is known before it is hashed. *)
RaisesOnlyUnhashable ==
    stage = "raised" =>
        \/ /\ UsesUi(manifest)
           /\ \E i \in DOMAIN manifest.web_ui.views :
                 LET v == manifest.web_ui.views[i]
                 IN  \/ v.modes \notin Wrong /\ Nested \in Range(v.modes)
                     \/ /\ v.overlay \notin Wrong
                        /\ \/ v.overlay.z_order = Nested
                           \/ /\ v.overlay.surfaces \notin Wrong
                              /\ Nested \in Range(v.overlay.surfaces)
        \/ manifest.payload \notin Wrong /\ manifest.payload.format = Nested
        \/ manifest.scope \notin Wrong /\ manifest.scope.type = Nested

ViewPasses(v) ==
    ~ModesRaise(v) /\ ~BadModes(v) /\ ~BadWindow(v) /\ ~OverlayRaises(v) /\ ~BadOverlay(v)

UiPasses(m) ==
    /\ ~BadWebUi(m)
    /\ \A i \in DOMAIN m.web_ui.views : ViewPasses(m.web_ui.views[i])
    /\ ~BadNetwork(m)

\* the verdict on another manifest
Passes(m) ==
    /\ ~BadFields(m) /\ ~BadRequested(m) /\ ~BadVersion(m)
    /\ m.package_version = 4 => UiPasses(m)
    /\ ~PayloadRaises(m) /\ ~BadPayload(m)
    /\ m.package_version # 1 => ~ScopeRaises(m) /\ ~BadScope(m) /\ ~BadPermissions(m)
    /\ ~BadExecution(m)

AnyUi == [well |-> TRUE, network |-> Missing,
          views |-> <<[well |-> TRUE, entry |-> CHOOSE n \in UiNames : TRUE,
                       modes |-> <<"window">>, overlay |-> Missing,
                       window |-> [well |-> TRUE, size |-> [l \in Lengths |-> Missing]]]>>]

(* What a version accepts the next one accepts too: a version 2 manifest as *)
(* version 3, and a version 3 manifest as version 4 once a UI and the ui    *)
(* permission are added.  New permissions are gated by "at least".          *)
UpgradeKeeps ==
    stage = "accepted" =>
        /\ manifest.package_version = 2 => Passes([manifest EXCEPT !.package_version = 3])
        /\ manifest.package_version = 3 =>
              Passes([manifest EXCEPT !.package_version = 4, !.web_ui = AnyUi,
                                      !.requested_permissions = Append(@, "ui")])

\* the permissions of m, with everything the warnings name
Heeded(m) ==
    LET p == IF m.permissions = Missing
             THEN [well |-> TRUE, flags |-> [n \in Capabilities \cup {"plugin_management"} |-> Missing],
                   filesystem |-> Missing, modules |-> Missing]
             ELSE m.permissions
        fs == IF p.filesystem = Missing
              THEN [well |-> TRUE, read |-> Missing, write |-> Missing] ELSE p.filesystem
        list == IF p.modules = Missing THEN <<>> ELSE p.modules
    IN  [m EXCEPT !.permissions =
           [p EXCEPT !.flags = [n \in DOMAIN @ |-> IF n \in warnings.names THEN TRUE ELSE @[n]],
                     !.filesystem =
                        [fs EXCEPT !.read = IF "filesystem_read" \in warnings.names THEN TRUE ELSE @,
                                   !.write = IF "filesystem_write" \in warnings.names THEN TRUE ELSE @],
                     !.modules = list \o SetToSeq(warnings.modules)]]

(* Whoever adds to the manifest of a plugin what inspect_wups.py warns of   *)
(* gets a manifest that validate_manifest accepts, that it warns of no more *)
(* and that declares both directions of every file access the imports may   *)
(* make, unless the manifest is of version 1 or the list of modules full.   *)
WarningsCanBeHeeded ==
    /\ stage = "reported" /\ manifest.package_version # 1
    /\ Cardinality(DeclaredModules(manifest) \cup warnings.modules) <= MAX_MODULES
    => LET m == Heeded(manifest)
       IN  /\ Passes(m)
           /\ permission_warnings(m, usage) = None
           /\ Names({"content_redirection", "sdutils"}, usage) # {} =>
                 m.permissions.filesystem = [well |-> TRUE, read |-> TRUE, write |-> TRUE]

Optional(field) == IF field = Null THEN Missing ELSE field

UiWithoutNull(ui) ==
    IF ui \in Wrong THEN ui ELSE [ui EXCEPT !.network = Optional(ui.network)]

PermissionsWithoutNulls(p) ==
    IF p \in {Missing, Null} THEN Missing
    ELSE [p EXCEPT !.filesystem = Optional(p.filesystem), !.modules = Optional(p.modules)]

\* the manifest without the fields that are null and may be missing
WithoutNulls(m) ==
    [m EXCEPT !.scope = Optional(@), !.memory = Optional(@), !.web_ui = UiWithoutNull(@),
              !.permissions = PermissionsWithoutNulls(@)]

(* validate_manifest treats a null as a missing field: without its nulls an *)
(* accepted manifest is accepted too.  inspect_wups.py does not: its report *)
(* ends in an exception that main does not catch for a null in permissions, *)
(* and for no manifest without one.                                         *)
NullMeansMissing ==
    Accepted =>
        LET m == WithoutNulls(manifest)
        IN  /\ Passes(m) /\ ~ReportRaises(m)
            /\ stage = "reported" => m.permissions = manifest.permissions
            /\ stage = "crashed" => m.permissions # manifest.permissions
=============================================================================
