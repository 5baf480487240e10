--------------------------- MODULE Manifest_proof ---------------------------
(***************************************************************************)
(* Proofs about Manifest, for every set of manifests and every limit.  A   *)
(* manifest at some check has passed the checks before it, so an accepted  *)
(* one has passed them all.                                                *)
(***************************************************************************)
EXTENDS Manifest, FiniteSetTheorems, FunctionTheorems, TLAPS

\* the checks that come after each of the others, and the ends of the way through
Ends == {"accepted", "reported", "crashed"}
Later == {"payload", "scope", "permissions", "execution"} \cup Ends
Loop == {"viewModes", "viewWindow", "viewOverlay"}
UiChecks == {"webUi", "network"} \cup Loop

PassedHead ==
    /\ stage \in {"requested", "version"} \cup UiChecks \cup Later => ~BadFields(manifest)
    /\ stage \in {"version"} \cup UiChecks \cup Later => ~BadRequested(manifest)
    /\ stage \in UiChecks \cup Later => ~BadVersion(manifest)

PassedUi ==
    /\ stage \in {"fields", "requested", "version", "webUi"} => view = 1
    /\ stage \in UiChecks => manifest.package_version = 4
    /\ stage \in Loop \cup {"network"} =>
          /\ ~BadWebUi(manifest)
          /\ \A i \in DOMAIN manifest.web_ui.views :
                (i < view \/ stage = "network") => ViewPasses(manifest.web_ui.views[i])
    /\ stage \in {"viewWindow", "viewOverlay"} => ~ModesRaise(View) /\ ~BadModes(View)
    /\ stage = "viewOverlay" => ~BadWindow(View)
    /\ stage \in Later => (manifest.package_version = 4 => UiPasses(manifest))

PassedTail ==
    /\ stage \in Later \ {"payload"} => ~PayloadRaises(manifest) /\ ~BadPayload(manifest)
    /\ stage \in {"scope", "permissions"} => manifest.package_version # 1
    /\ stage \in Later \ {"payload", "scope"} =>
          (manifest.package_version # 1 => ~ScopeRaises(manifest) /\ ~BadScope(manifest))
    /\ stage \in Later \ {"payload", "scope", "permissions"} =>
          (manifest.package_version # 1 => ~BadPermissions(manifest))
    /\ stage \in Ends => ~BadExecution(manifest)

InputOK == manifest \in ManifestObjects /\ usage \in Usages

Inv == InputOK /\ TypeOK /\ PassedHead /\ PassedUi /\ PassedTail

LEMMA ViewsTyped ==
    ASSUME InputOK, ~BadWebUi(manifest)
    PROVE  /\ manifest.web_ui \in WebUis
           /\ manifest.web_ui.views \in Seq(Views)
           /\ Len(manifest.web_ui.views) \in Nat \ {0}
           /\ DOMAIN manifest.web_ui.views = 1..Len(manifest.web_ui.views)
<1>1. manifest.web_ui \in WebUis
  BY DEF InputOK, ManifestObjects, BadWebUi
<1>2. manifest.web_ui.views \in Seq(Views)
  BY <1>1 DEF WebUis, BadWebUi
<1> QED
  BY <1>1, <1>2, ManifestAssumption DEF BadWebUi

LEMMA WarningsTyped ==
    ASSUME NEW m, NEW u \in Usages
    PROVE  permission_warnings(m, u) \in [names: SUBSET Reported, modules: SUBSET Modules]
<1>1. Names({"homebrew_"}, u) \subseteq Modules
  BY DEF Names, Usages
<1> QED
  BY <1>1 DEF permission_warnings

LEMMA InvInit == Init => Inv
<1> SUFFICES ASSUME Init PROVE Inv
  OBVIOUS
<1>1. InputOK
  BY ManifestAssumption DEF Init, InputOK
<1> QED
  BY <1>1 DEF Init, Inv, TypeOK, None, Checks, PassedHead, PassedUi, PassedTail, Later, Ends, Loop,
     UiChecks

LEMMA InvNext == Inv /\ [Next]_vars => Inv'
<1> SUFFICES ASSUME Inv, [Next]_vars PROVE Inv'
  OBVIOUS
<1> USE DEF Check, Later, Ends, Loop, UiChecks
<1>0. InputOK' /\ TypeOK /\ PassedHead /\ PassedUi /\ PassedTail
  BY DEF Inv, InputOK, Next, vars, CheckFields, CheckRequested, CheckVersion, CheckWebUi,
     CheckModes, CheckWindow, CheckOverlay, CheckNetwork, CheckPayload, CheckScope,
     CheckPermissions, CheckExecution, Report
<1>1. CASE CheckFields \/ CheckRequested \/ CheckVersion
  BY <1>0, <1>1 DEF CheckFields, CheckRequested, CheckVersion, Inv, TypeOK, PassedHead, PassedUi,
     PassedTail, Checks
<1>2. CASE CheckWebUi
  <2>1. manifest' = manifest /\ view' = 1 /\ stage = "webUi" /\ usage' = usage
    BY <1>0, <1>2 DEF CheckWebUi, PassedUi
  <2>2. CASE BadWebUi(manifest)
    BY <1>0, <1>2, <2>2 DEF CheckWebUi, Inv, TypeOK, PassedHead, PassedUi, PassedTail, Checks
  <2>3. CASE ~BadWebUi(manifest)
    <3>1. /\ stage' = "viewModes" /\ warnings' = warnings
          /\ DOMAIN manifest.web_ui.views = 1..Len(manifest.web_ui.views)
          /\ Len(manifest.web_ui.views) \in Nat \ {0}
      BY <1>0, <1>2, <2>3, ViewsTyped DEF CheckWebUi, Inv
    <3> QED
      BY <1>0, <2>1, <2>3, <3>1 DEF Inv, TypeOK, PassedHead, PassedUi, PassedTail, Checks
  <2> QED
    BY <2>2, <2>3
<1>3. CASE CheckModes \/ CheckWindow
  BY <1>0, <1>3 DEF CheckModes, CheckWindow, Inv, TypeOK, PassedHead, PassedUi, PassedTail,
     Checks, View
<1>4. CASE CheckOverlay
  BY <1>0, <1>4, ViewsTyped DEF CheckOverlay, Inv, TypeOK, PassedHead, PassedUi, PassedTail,
     Checks, View, ViewPasses
<1>5. CASE CheckNetwork
  BY <1>0, <1>5 DEF CheckNetwork, Inv, TypeOK, PassedHead, PassedUi, PassedTail, Checks, UiPasses
<1>6. CASE CheckPayload \/ CheckScope \/ CheckPermissions \/ CheckExecution
  BY <1>0, <1>6 DEF CheckPayload, CheckScope, CheckPermissions, CheckExecution, Inv, TypeOK,
     PassedHead, PassedUi, PassedTail, Checks
<1>7. CASE Report
  BY <1>0, <1>7, WarningsTyped DEF Report, Inv, InputOK, TypeOK, PassedHead, PassedUi, PassedTail,
     Checks
<1>8. CASE UNCHANGED vars
  BY <1>0, <1>8 DEF vars, Inv, TypeOK, PassedHead, PassedUi, PassedTail, View
<1> QED
  BY <1>1, <1>2, <1>3, <1>4, <1>5, <1>6, <1>7, <1>8 DEF Next

LEMMA Invariance == Spec => []Inv
BY InvInit, InvNext, PTL DEF Spec

(* The loop over the views stays within them, and a report names only what  *)
(* the manifest format has names for.                                       *)
THEOREM TypeCorrect == Spec => []TypeOK
BY Invariance, PTL DEF Inv

-----------------------------------------------------------------------------
(* An accepted manifest.                                                    *)

LEMMA AcceptedPasses == Inv /\ Accepted => Passes(manifest)
BY DEF Inv, Accepted, Passes, PassedHead, PassedUi, PassedTail, Later, Ends

(* The rules across fields hold of every accepted manifest.                 *)
THEOREM AcceptedStaysConsistent == Spec => []AcceptedIsConsistent
<1>1. Inv => AcceptedIsConsistent
  <2> SUFFICES ASSUME Inv, Accepted
               PROVE  /\ ManifestRules(Summary(manifest))
                      /\ PayloadFormat(manifest) = "wups" =>
                            manifest.execution_mode = "trusted_native" /\ manifest.cpu = Missing
                      /\ UsesUi(manifest) => Asks(manifest, "ui")
                      /\ /\ UsesUi(manifest) /\ manifest.web_ui.network \notin {Missing, Null}
                         /\ UsesNetwork(manifest.web_ui.network)
                         => Asks(manifest, "network")
                      /\ /\ manifest.permissions \notin {Missing, Null}
                         /\ Has(manifest.permissions.flags["plugin_management"])
                         => manifest.package_version \in {3, 4}
                      /\ /\ manifest.execution_mode = "trusted_native"
                         /\ manifest.memory \notin {Missing, Null}
                         => manifest.package_version \in {3, 4}
    BY DEF AcceptedIsConsistent
  <2>1. Passes(manifest) /\ manifest \in ManifestObjects
    BY AcceptedPasses DEF Inv, InputOK
  <2>2. manifest.package_version \in 1..4
    BY <2>1 DEF Passes, BadFields, ManifestObjects
  <2>3. PayloadFormat(manifest) \in PayloadFormats
    BY <2>1 DEF Passes, BadPayload, PayloadFormat, PayloadFormats
  <2>4. UsesUi(manifest) <=> manifest.package_version = 4
    BY <2>1, <2>2 DEF Passes, UiPasses, BadWebUi, BadVersion, UsesUi, Has, Wrong, ManifestObjects
  <2>5. ManifestRules(Summary(manifest))
    <3>1. /\ Summary(manifest).version = manifest.package_version
          /\ Summary(manifest).format = PayloadFormat(manifest)
      BY DEF Summary
    <3>2. CASE manifest.package_version = 4
      <4>1. ~BadWebUi(manifest)
        BY <2>1, <3>2 DEF Passes, UiPasses
      <4>2. 1 \in DOMAIN manifest.web_ui.views
        BY <4>1, ViewsTyped DEF Inv
      <4>3. manifest.web_ui.views[1].entry \in Summary(manifest).views
        BY <3>2, <4>2 DEF Summary
      <4> QED
        BY <3>1, <3>2, <4>3 DEF ManifestRules
    <3>3. CASE manifest.package_version # 4
      BY <3>1, <3>3 DEF ManifestRules, Summary, PayloadFormat
    <3> QED
      BY <3>2, <3>3
  <2>6. PayloadFormat(manifest) = "wups" =>
           manifest.execution_mode = "trusted_native" /\ manifest.cpu = Missing
    BY <2>1 DEF Passes, BadExecution, Has
  <2>7. UsesUi(manifest) => Asks(manifest, "ui")
    BY <2>1, <2>4 DEF Passes, BadVersion
  <2>8. /\ UsesUi(manifest) /\ manifest.web_ui.network \notin {Missing, Null}
        /\ UsesNetwork(manifest.web_ui.network)
        => Asks(manifest, "network")
    BY <2>1, <2>4 DEF Passes, UiPasses, BadNetwork
  <2>9. /\ manifest.permissions \notin {Missing, Null}
        /\ Has(manifest.permissions.flags["plugin_management"])
        => manifest.package_version \in {3, 4}
    BY <2>1, <2>2 DEF Passes, BadPayload, BadPermissions, Has
  <2>10. /\ manifest.execution_mode = "trusted_native"
         /\ manifest.memory \notin {Missing, Null}
         => manifest.package_version \in {3, 4}
    BY <2>1, <2>2 DEF Passes, BadExecution, BadExpansion
  <2> QED
    BY <2>5, <2>6, <2>7, <2>8, <2>9, <2>10
<1> QED
  BY <1>1, Invariance, PTL

(* An exception that is not a CemodError has one of the five causes.        *)
THEOREM RaisesStayUnhashable == Spec => []RaisesOnlyUnhashable
<1>1. ASSUME RaisesOnlyUnhashable, Inv, [Next]_vars PROVE RaisesOnlyUnhashable'
  <2> USE DEF Check
  <2>0. manifest' = manifest
    BY <1>1 DEF Next, vars, CheckFields, CheckRequested, CheckVersion, CheckWebUi, CheckModes,
       CheckWindow, CheckOverlay, CheckNetwork, CheckPayload, CheckScope, CheckPermissions,
       CheckExecution, Report
  <2>1. CASE stage' # "raised" \/ stage' = stage
    BY <1>1, <2>0, <2>1 DEF RaisesOnlyUnhashable
  <2>2. CASE CheckModes \/ CheckOverlay
    <3>1. UsesUi(manifest) /\ view \in DOMAIN manifest.web_ui.views
      BY <1>1, <2>2 DEF CheckModes, CheckOverlay, Inv, TypeOK, PassedUi, Loop, BadWebUi, UsesUi
    <3>2. CASE ModesRaise(View)
      BY <2>0, <3>1, <3>2 DEF View, ModesRaise, RaisesOnlyUnhashable, UsesUi
    <3>3. CASE OverlayRaises(View)
      BY <2>0, <3>1, <3>3 DEF View, OverlayRaises, RaisesOnlyUnhashable, UsesUi
    <3>4. CASE stage' # "raised"
      BY <2>1, <3>4
    <3> QED
      BY <2>2, <3>2, <3>3, <3>4 DEF CheckModes, CheckOverlay
  <2>3. CASE CheckPayload
    BY <1>1, <2>0, <2>1, <2>3 DEF CheckPayload, PayloadRaises, RaisesOnlyUnhashable
  <2>4. CASE CheckScope
    BY <1>1, <2>0, <2>1, <2>4 DEF CheckScope, ScopeRaises, RaisesOnlyUnhashable
  <2>5. CASE UNCHANGED vars
    BY <2>1, <2>5 DEF vars
  <2>6. CASE CheckFields \/ CheckRequested \/ CheckVersion \/ CheckWebUi \/ CheckWindow
             \/ CheckNetwork \/ CheckPermissions \/ CheckExecution \/ Report
    BY <2>1, <2>6 DEF CheckFields, CheckRequested, CheckVersion, CheckWebUi, CheckWindow,
       CheckNetwork, CheckPermissions, CheckExecution, Report
  <2> QED
    BY <1>1, <2>2, <2>3, <2>4, <2>5, <2>6 DEF Next
<1>2. Init => RaisesOnlyUnhashable
  BY DEF Init, RaisesOnlyUnhashable
<1> QED
  BY <1>1, <1>2, Invariance, PTL DEF Spec

-----------------------------------------------------------------------------
(* The next version.                                                        *)

LEMMA AnyUiIsWell ==
    /\ AnyUi \in WebUis
    /\ AnyUi.well = TRUE /\ AnyUi.network = Missing
    /\ AnyUi.views \in Seq(Views) /\ Len(AnyUi.views) = 1
    /\ ViewPasses(AnyUi.views[1])
<1> DEFINE v == AnyUi.views[1]
<1>1. /\ v = [well |-> TRUE, entry |-> CHOOSE n \in UiNames : TRUE,
               modes |-> <<"window">>, overlay |-> Missing,
               window |-> [well |-> TRUE, size |-> [l \in Lengths |-> Missing]]]
      /\ AnyUi.views = <<v>> /\ AnyUi.network = Missing /\ AnyUi.well = TRUE
      /\ AnyUi = [well |-> TRUE, network |-> Missing, views |-> <<v>>]
  BY DEF AnyUi
<1> HIDE DEF v
<1>2. /\ v.well = TRUE /\ v.entry \in UiNames /\ v.modes = <<"window">> /\ v.overlay = Missing
      /\ v.window \in Windows /\ v.window.well = TRUE
      /\ \A l \in Lengths : v.window.size[l] = Missing
  BY <1>1, WrongAssumption DEF Windows
<1>3. v \in Views
  <2>1. <<"window">> \in Seq({"window", "overlay", Other, Nested})
    OBVIOUS
  <2> QED
    BY <1>1, <1>2, <2>1 DEF Views, Wrong
<1>4. Range(v.modes) = {"window"} /\ IsInjective(v.modes) /\ v.modes \in Seq({"window"})
  BY <1>2 DEF Range, IsInjective
<1>5. ~ModesRaise(v)
  BY <1>4, WrongAssumption DEF ModesRaise, Wrong
<1>6. ~BadModes(v)
  <2>1. v.modes # <<>> /\ v.modes \notin Wrong
    <3>1. Len(v.modes) = 1 /\ Len(<<>>) = 0
      BY <1>2
    <3>2. v.modes \notin Wrong
      BY <1>4, WrongAssumption
    <3> QED
      BY <3>1, <3>2
  <2>2. v.window # Missing
    BY <1>2, WrongAssumption DEF Wrong
  <2> QED
    BY <1>2, <1>4, <2>1, <2>2 DEF BadModes, ListOf, Has
<1>7. ~BadWindow(v)
  BY <1>2, WrongAssumption DEF BadWindow, Exceeds, Has, Lengths
<1>8. ~OverlayRaises(v) /\ ~BadOverlay(v)
  BY <1>2 DEF OverlayRaises, BadOverlay, Has, Wrong
<1>9. <<v>> \in Seq(Views) /\ Len(<<v>>) = 1
  BY <1>3
<1>10. AnyUi \in WebUis
  BY <1>1, <1>9 DEF WebUis, Wrong
<1> QED
  BY <1>1, <1>5, <1>6, <1>7, <1>8, <1>9, <1>10 DEF ViewPasses, v

LEMMA WithUi ==
    ASSUME NEW list, list \in Wrong \cup Seq(Requests \cup {Other, Nested}),
           ListOf(list, Requests), "ui" \notin Range(list)
    PROVE  /\ ListOf(Append(list, "ui"), Requests)
           /\ Range(Append(list, "ui")) = Range(list) \cup {"ui"}
<1> DEFINE longer == Append(list, "ui")
<1>1. list \in Seq(Requests \cup {Other, Nested}) /\ "ui" \in Requests
  BY DEF ListOf, Requests
<1>2. /\ DOMAIN list = 1..Len(list) /\ Len(list) \in Nat
      /\ DOMAIN longer = 1..(Len(list) + 1)
      /\ longer[Len(list) + 1] = "ui" /\ \A i \in 1..Len(list) : longer[i] = list[i]
  BY <1>1
<1>3. Range(longer) = Range(list) \cup {"ui"}
  BY <1>2 DEF Range
<1>4. IsInjective(longer)
  BY <1>2 DEF IsInjective, Range, ListOf
<1>5. longer \in Seq(Requests)
  <2>1. \A i \in 1..Len(list) : list[i] \in Requests
    BY <1>2 DEF ListOf, Range
  <2>2. list \in Seq(Requests)
    BY <1>1, <2>1
  <2> QED
    BY <1>1, <2>2
<1> QED
  BY <1>1, <1>3, <1>4, <1>5, WrongAssumption DEF ListOf

(* A manifest accepted in version 2 or 3 is accepted in the next version.   *)
THEOREM UpgradesAreKept == Spec => []UpgradeKeeps
<1>1. Inv => UpgradeKeeps
  <2> SUFFICES ASSUME Inv, Accepted, NEW m \in ManifestObjects, m = manifest, Passes(m)
               PROVE  /\ m.package_version = 2 => Passes([m EXCEPT !.package_version = 3])
                      /\ m.package_version = 3 =>
                            Passes([m EXCEPT !.package_version = 4, !.web_ui = AnyUi,
                                    !.requested_permissions = Append(@, "ui")])
    BY AcceptedPasses DEF UpgradeKeeps, Accepted, Inv, InputOK
  <2>1. ASSUME m.package_version = 2 PROVE Passes([m EXCEPT !.package_version = 3])
    <3> DEFINE n == [m EXCEPT !.package_version = 3]
    <3>1. /\ n.package_version = 3 /\ n.well = m.well /\ n.execution_mode = m.execution_mode
          /\ n.requested_permissions = m.requested_permissions /\ n.web_ui = m.web_ui
          /\ n.payload = m.payload /\ n.scope = m.scope /\ n.permissions = m.permissions
          /\ n.memory = m.memory /\ n.cpu = m.cpu /\ n.entrypoint = m.entrypoint
      BY DEF ManifestObjects
    <3> HIDE DEF n
    <3>2. ~BadFields(n) /\ ~BadRequested(n) /\ ~BadVersion(n)
      BY <2>1, <3>1, WrongAssumption DEF Passes, BadFields, BadRequested, BadVersion, Asks
    <3>3. ~PayloadRaises(n) /\ ~BadPayload(n) /\ ~ScopeRaises(n) /\ ~BadScope(n)
      BY <2>1, <3>1 DEF Passes, PayloadRaises, BadPayload, ScopeRaises, BadScope
    <3>4. ~BadPermissions(n)
      BY <2>1, <3>1 DEF Passes, BadPermissions
    <3>5. ~BadExecution(n)
      BY <2>1, <3>1 DEF Passes, BadExecution, PayloadFormat, BadExpansion
    <3> QED
      BY <3>1, <3>2, <3>3, <3>4, <3>5 DEF Passes, n
  <2>2. ASSUME m.package_version = 3
        PROVE  Passes([m EXCEPT !.package_version = 4, !.web_ui = AnyUi,
                                !.requested_permissions = Append(@, "ui")])
    <3> DEFINE n == [m EXCEPT !.package_version = 4, !.web_ui = AnyUi,
                              !.requested_permissions = Append(@, "ui")]
    <3>1. /\ n.package_version = 4 /\ n.well = m.well /\ n.execution_mode = m.execution_mode
          /\ n.requested_permissions = Append(m.requested_permissions, "ui") /\ n.web_ui = AnyUi
          /\ n.payload = m.payload /\ n.scope = m.scope /\ n.permissions = m.permissions
          /\ n.memory = m.memory /\ n.cpu = m.cpu /\ n.entrypoint = m.entrypoint
      BY DEF ManifestObjects
    <3> HIDE DEF n
    <3>2. ListOf(n.requested_permissions, Requests) /\ Asks(n, "ui")
      BY <2>2, <3>1, WithUi DEF Passes, BadRequested, BadVersion, Asks, ManifestObjects
    <3>3. n.web_ui # Missing
      BY <3>1, AnyUiIsWell, WrongAssumption DEF Wrong
    <3>4. ~BadFields(n) /\ ~BadRequested(n) /\ ~BadVersion(n)
      BY <2>2, <3>1, <3>2, <3>3, WrongAssumption
      DEF Passes, BadFields, BadRequested, BadVersion, Has
    <3>5. UiPasses(n)
      <4>1. ~BadWebUi(n)
        BY <3>1, AnyUiIsWell, WrongAssumption, ManifestAssumption DEF BadWebUi
      <4>2. DOMAIN AnyUi.views = {1}
        BY AnyUiIsWell
      <4>3. ~BadNetwork(n)
        BY <3>1, AnyUiIsWell DEF BadNetwork
      <4> QED
        BY <3>1, <4>1, <4>2, <4>3, AnyUiIsWell DEF UiPasses
    <3>6. ~PayloadRaises(n) /\ ~BadPayload(n) /\ ~ScopeRaises(n) /\ ~BadScope(n)
      BY <2>2, <3>1 DEF Passes, PayloadRaises, BadPayload, ScopeRaises, BadScope
    <3>7. ~BadPermissions(n)
      BY <2>2, <3>1 DEF Passes, BadPermissions
    <3>8. ~BadExecution(n)
      BY <2>2, <3>1 DEF Passes, BadExecution, PayloadFormat, BadExpansion
    <3> QED
      BY <3>1, <3>4, <3>5, <3>6, <3>7, <3>8 DEF Passes, n
  <2> QED
    BY <2>1, <2>2
<1> QED
  BY <1>1, Invariance, PTL

-----------------------------------------------------------------------------
(* Null.                                                                    *)

\* a report is made where it does not raise
Judged ==
    /\ stage = "reported" => ~ReportRaises(manifest)
    /\ stage = "crashed" => ReportRaises(manifest)

LEMMA ReportsJudged == Spec => []Judged
<1>1. Init => Judged
  BY DEF Init, Judged
<1>2. Judged /\ [Next]_vars => Judged'
  BY DEF Judged, Next, vars, Check, CheckFields, CheckRequested, CheckVersion, CheckWebUi,
     CheckModes, CheckWindow, CheckOverlay, CheckNetwork, CheckPayload, CheckScope,
     CheckPermissions, CheckExecution, Report
<1> QED
  BY <1>1, <1>2, PTL DEF Spec

LEMMA NullsOfPermissions ==
    ASSUME NEW p \in Permissions \cup Wrong, p \in {Missing, Null} \/ p \notin Wrong
    PROVE  LET q == PermissionsWithoutNulls(p)
           IN  /\ p \in {Missing, Null} <=> q = Missing
               /\ q # Null
               /\ q # Missing => /\ q.well = p.well /\ q.flags = p.flags
                                 /\ q.filesystem = Optional(p.filesystem)
                                 /\ q.modules = Optional(p.modules)
                                 /\ q \notin Wrong
               /\ q = p <=> (p = Missing \/ (p # Null /\ p.filesystem # Null /\ p.modules # Null))
<1>1. CASE p \in {Missing, Null}
  BY <1>1, WrongAssumption DEF PermissionsWithoutNulls
<1>2. CASE p \in Permissions /\ p \notin {Missing, Null}
  <2> DEFINE q == PermissionsWithoutNulls(p)
  <2>1. q = [p EXCEPT !.filesystem = Optional(p.filesystem), !.modules = Optional(p.modules)]
    BY <1>2 DEF PermissionsWithoutNulls
  <2>2. /\ q.well = p.well /\ q.flags = p.flags
        /\ q.filesystem = Optional(p.filesystem) /\ q.modules = Optional(p.modules)
    BY <1>2, <2>1 DEF Permissions
  <2>3. q \in Permissions
    BY <1>2, <2>1 DEF Permissions, Optional, Wrong
  <2>4. q \notin Wrong
    BY <2>3, WrongAssumption
  <2>5. q = p <=> (p.filesystem # Null /\ p.modules # Null)
    BY <1>2, <2>1, <2>2, WrongAssumption DEF Permissions, Optional
  <2> HIDE DEF q
  <2>6. q # Missing /\ q # Null
    BY <2>4 DEF Wrong
  <2> QED
    BY <1>2, <2>2, <2>4, <2>5, <2>6 DEF q
<1> QED
  BY <1>1, <1>2 DEF Wrong

LEMMA NullOfUi ==
    ASSUME NEW ui \in WebUis \cup Wrong
    PROVE  LET q == UiWithoutNull(ui)
           IN  /\ ui \in Wrong => q = ui
               /\ ui \notin Wrong => /\ q \notin Wrong /\ q.well = ui.well /\ q.views = ui.views
                                     /\ q.network = Optional(ui.network)
<1>1. CASE ui \in Wrong
  BY <1>1 DEF UiWithoutNull
<1>2. CASE ui \in WebUis /\ ui \notin Wrong
  <2> DEFINE q == [ui EXCEPT !.network = Optional(ui.network)]
  <2>1. UiWithoutNull(ui) = q
    BY <1>2 DEF UiWithoutNull
  <2>2. q.well = ui.well /\ q.views = ui.views /\ q.network = Optional(ui.network)
    BY <1>2 DEF WebUis
  <2>3. q \in WebUis
    BY <1>2 DEF WebUis, Optional, Wrong
  <2> QED
    BY <1>2, <2>1, <2>2, <2>3, WrongAssumption
<1> QED
  BY <1>1, <1>2

LEMMA PassesWithoutNulls ==
    ASSUME NEW m \in ManifestObjects, Passes(m)
    PROVE  LET n == WithoutNulls(m)
           IN  /\ Passes(n) /\ ~ReportRaises(n)
               /\ n.permissions = m.permissions <=> ~ReportRaises(m)
<1> DEFINE n == WithoutNulls(m)
<1>1. /\ n.package_version = m.package_version /\ n.well = m.well
      /\ n.execution_mode = m.execution_mode
      /\ n.requested_permissions = m.requested_permissions /\ n.payload = m.payload
      /\ n.cpu = m.cpu /\ n.entrypoint = m.entrypoint
      /\ n.scope = Optional(m.scope) /\ n.memory = Optional(m.memory)
      /\ n.web_ui = UiWithoutNull(m.web_ui)
      /\ n.permissions = PermissionsWithoutNulls(m.permissions)
  BY DEF WithoutNulls, ManifestObjects
<1> HIDE DEF n
<1>2. m.permissions \in Permissions \cup Wrong /\ m.web_ui \in WebUis \cup Wrong
  BY DEF ManifestObjects
<1>3. m.permissions \in {Missing, Null} \/ m.permissions \notin Wrong
  BY DEF Passes, BadPayload, BadPermissions, Has
<1>4. LET p == m.permissions
          q == n.permissions
      IN  /\ p \in {Missing, Null} <=> q = Missing
          /\ q # Null
          /\ q # Missing => /\ q.well = p.well /\ q.flags = p.flags
                            /\ q.filesystem = Optional(p.filesystem)
                            /\ q.modules = Optional(p.modules)
                            /\ q \notin Wrong
          /\ q = p <=> (p = Missing \/ (p # Null /\ p.filesystem # Null /\ p.modules # Null))
  BY <1>1, <1>2, <1>3, NullsOfPermissions
<1>5. /\ m.web_ui \in Wrong => n.web_ui = m.web_ui
      /\ m.web_ui \notin Wrong =>
            /\ n.web_ui \notin Wrong /\ n.web_ui.well = m.web_ui.well
            /\ n.web_ui.views = m.web_ui.views
            /\ n.web_ui.network = Optional(m.web_ui.network)
  BY <1>1, <1>2, NullOfUi
<1>6. ~BadFields(n) /\ ~BadRequested(n)
  BY <1>1 DEF Passes, BadFields, BadRequested
<1>7. ~BadVersion(n)
  BY <1>1, <1>5 DEF Passes, BadVersion, Has, Asks, Wrong
<1>8. n.package_version = 4 => UiPasses(n)
  <2> SUFFICES ASSUME n.package_version = 4 PROVE UiPasses(n)
    OBVIOUS
  <2>1. UiPasses(m) /\ ~BadWebUi(m) /\ m.web_ui \notin Wrong
    BY <1>1 DEF Passes, UiPasses, BadWebUi
  <2>2. ~BadWebUi(n)
    BY <1>5, <2>1 DEF BadWebUi
  <2>3. ~BadNetwork(n)
    BY <1>1, <1>5, <2>1, WrongAssumption DEF UiPasses, BadNetwork, Optional, Asks
  <2> QED
    BY <1>5, <2>1, <2>2, <2>3 DEF UiPasses
<1>9. ~PayloadRaises(n) /\ ~BadPayload(n)
  BY <1>1, <1>4, WrongAssumption DEF Passes, PayloadRaises, BadPayload, Has, Optional
<1>10. n.package_version # 1 => ~ScopeRaises(n) /\ ~BadScope(n)
  BY <1>1 DEF Passes, ScopeRaises, BadScope, Optional, Wrong
<1>11. n.package_version # 1 => ~BadPermissions(n)
  <2> SUFFICES ASSUME n.package_version # 1, n.permissions \notin {Missing, Null}
               PROVE  ~BadPermissions(n)
    BY DEF BadPermissions
  <2>1. ~BadPermissions(m) /\ m.permissions \notin {Missing, Null}
    BY <1>1, <1>4 DEF Passes
  <2>2. ~BadFilesystem(n.permissions.filesystem) /\ ~BadModules(n.permissions.modules)
    BY <1>4, <2>1 DEF BadPermissions, BadFilesystem, BadModules, Optional
  <2> QED
    BY <1>1, <1>4, <2>1, <2>2 DEF BadPermissions
<1>12. ~BadExecution(n)
  BY <1>1 DEF Passes, BadExecution, PayloadFormat, BadExpansion, Optional, Wrong
<1>13. ~ReportRaises(n)
  BY <1>4, WrongAssumption DEF ReportRaises, Optional
<1>14. n.permissions = m.permissions <=> ~ReportRaises(m)
  BY <1>4, WrongAssumption DEF ReportRaises
<1> QED
  BY <1>6, <1>7, <1>8, <1>9, <1>10, <1>11, <1>12, <1>13, <1>14 DEF Passes, n

(* A null in an accepted manifest means what a missing field means to the   *)
(* validator, and is what the report raises for.                            *)
THEOREM NullsAreMissing == Spec => []NullMeansMissing
<1>1. Inv /\ Judged => NullMeansMissing
  BY AcceptedPasses, PassesWithoutNulls DEF NullMeansMissing, Judged, Inv, InputOK
<1> QED
  BY <1>1, Invariance, ReportsJudged, PTL
-----------------------------------------------------------------------------
(* Heeding the warnings.                                                    *)

\* a report is of the manifest at hand
Told ==
    /\ IsFiniteSet(usage.imports)
    /\ stage = "reported" => warnings = permission_warnings(manifest, usage)

LEMMA ReportsTold == Spec => []Told
<1>1. Init => Told
  BY ManifestAssumption DEF Init, Told
<1>2. Told /\ [Next]_vars => Told'
  BY DEF Told, Next, vars, Check, CheckFields, CheckRequested, CheckVersion, CheckWebUi,
     CheckModes, CheckWindow, CheckOverlay, CheckNetwork, CheckPayload, CheckScope,
     CheckPermissions, CheckExecution, Report
<1> QED
  BY <1>1, <1>2, PTL DEF Spec

\* The sequence made of a finite set lists each of its elements once.
LEMMA ListsOnce ==
    ASSUME NEW S, IsFiniteSet(S)
    PROVE  /\ Cardinality(S) \in Nat
           /\ SetToSeq(S) \in [1..Cardinality(S) -> S] /\ IsInjective(SetToSeq(S))
           /\ Range(SetToSeq(S)) = S
<1> DEFINE n == Cardinality(S)
           f == SetToSeq(S)
<1>1. n \in Nat /\ ExistsBijection(1..n, S)
  BY FS_CardinalityType
<1>2. PICK b : b \in Bijection(1..n, S)
  BY <1>1 DEF ExistsBijection
<1>3. b \in [1..n -> S] /\ \A i, j \in 1..n : b[i] = b[j] => i = j
  BY <1>2, Fun_BijectionProperties
<1>4. IsInjective(b)
  BY <1>3 DEF IsInjective
<1>5. f \in [1..n -> S] /\ IsInjective(f)
  BY <1>3, <1>4 DEF SetToSeq
<1> HIDE DEF f
<1>6. f \in Injection(1..n, S)
  BY <1>5, Fun_IsInj DEF IsInjective
<1>7. IsFiniteSet(1..n) /\ Cardinality(1..n) = n
  BY <1>1, FS_Interval
<1>8. f \in Surjection(1..n, S)
  BY <1>6, <1>7, FS_Injection
<1>9. Range(f) = S
  BY <1>8, Fun_SurjectionProperties
<1> QED
  BY <1>1, <1>5, <1>9 DEF f

\* A list without repetitions, and after it what a set adds.
LEMMA ListsMore ==
    ASSUME NEW T, NEW list \in Seq(T), IsInjective(list),
           NEW S, IsFiniteSet(S), Range(list) \cap S = {}
    PROVE  /\ list \o SetToSeq(S) \in Seq(T \cup S) /\ IsInjective(list \o SetToSeq(S))
           /\ Range(list \o SetToSeq(S)) = Range(list) \cup S
           /\ Len(list \o SetToSeq(S)) = Cardinality(Range(list) \cup S)
<1> DEFINE tail == SetToSeq(S)
           longer == list \o tail
           n == Len(list)
           k == Cardinality(S)
<1>1. k \in Nat /\ tail \in [1..k -> S] /\ IsInjective(tail) /\ Range(tail) = S
  BY ListsOnce
<1>2. n \in Nat /\ list \in [1..n -> T] /\ DOMAIN list = 1..n
  OBVIOUS
<1> HIDE DEF tail, k, n
<1>3. tail \in Seq(S) /\ Len(tail) = k
  BY <1>1
<1>4. /\ list \in Seq(T \cup S) /\ tail \in Seq(T \cup S)
      /\ longer \in Seq(T \cup S) /\ Len(longer) = n + k
      /\ \A i \in 1..n : longer[i] = list[i]
      /\ \A i \in 1..k : longer[n + i] = tail[i]
  BY <1>1, <1>2, <1>3 DEF n
<1> HIDE DEF longer
<1>5. \A i \in 1..(n + k) : i \in 1..n \/ (i - n \in 1..k /\ longer[i] = tail[i - n])
  BY <1>1, <1>2, <1>4
<1>6. /\ \A i \in 1..n : longer[i] \in Range(list)
      /\ \A i \in 1..(n + k) : i \notin 1..n => longer[i] \in S
  BY <1>1, <1>2, <1>4, <1>5 DEF Range
<1>7. Range(longer) = Range(list) \cup S
  <2>1. DOMAIN longer = 1..(n + k)
    BY <1>4
  <2>2. Range(longer) \subseteq Range(list) \cup S
    BY <1>6, <2>1 DEF Range
  <2>3. Range(list) \subseteq Range(longer)
    BY <1>1, <1>2, <1>4, <2>1 DEF Range
  <2>4. ASSUME NEW x \in S PROVE x \in Range(longer)
    <3>1. PICK i \in 1..k : tail[i] = x
      BY <1>1 DEF Range
    <3>2. n + i \in 1..(n + k) /\ longer[n + i] = x
      BY <1>1, <1>2, <1>4, <3>1
    <3> QED
      BY <2>1, <3>2 DEF Range
  <2> QED
    BY <2>2, <2>3, <2>4
<1>8. ASSUME NEW i \in 1..(n + k), NEW j \in 1..(n + k), longer[i] = longer[j] PROVE i = j
  <2>1. CASE i \in 1..n /\ j \in 1..n
    BY <1>2, <1>4, <1>8, <2>1 DEF IsInjective
  <2>2. CASE i \notin 1..n /\ j \notin 1..n
    <3>1. i - n \in 1..k /\ j - n \in 1..k /\ tail[i - n] = tail[j - n]
      BY <1>5, <1>8, <2>2
    <3>2. i - n = j - n
      BY <1>1, <3>1 DEF IsInjective
    <3> QED
      BY <1>2, <3>2
  <2> QED
    BY <1>6, <1>8, <2>1, <2>2
<1>9. DOMAIN longer = 1..(n + k)
  BY <1>4
<1>10. IsInjective(longer)
  BY <1>8, <1>9 DEF IsInjective
<1>11. Len(longer) = Cardinality(Range(list) \cup S)
  <2>1. longer \in [1..(n + k) -> T \cup S]
    BY <1>4
  <2>2. longer \in Surjection(1..(n + k), Range(longer)) /\ longer \in [1..(n + k) -> Range(longer)]
    BY <2>1, Fun_RangeProperties, Fun_SurjectionProperties, ZenonT(60)
  <2>3. longer \in Injection(1..(n + k), Range(longer))
    BY <1>8, <2>2, Fun_IsInj
  <2>4. IsFiniteSet(1..(n + k)) /\ Cardinality(1..(n + k)) = n + k
    BY <1>1, <1>2, FS_Interval
  <2>5. Cardinality(Range(longer)) = n + k
    BY <2>2, <2>3, <2>4, FS_Surjection
  <2> QED
    BY <1>4, <1>7, <2>5
<1> QED
  BY <1>4, <1>7, <1>10, <1>11 DEF longer, tail

\* the permissions that Heeded adds to, and what it makes of them
Given(m) ==
    IF m.permissions = Missing
    THEN [well |-> TRUE, flags |-> [n \in Capabilities \cup {"plugin_management"} |-> Missing],
          filesystem |-> Missing, modules |-> Missing]
    ELSE m.permissions
GivenFiles(m) ==
    IF Given(m).filesystem = Missing
    THEN [well |-> TRUE, read |-> Missing, write |-> Missing] ELSE Given(m).filesystem
GivenModules(m) == IF Given(m).modules = Missing THEN <<>> ELSE Given(m).modules

\* Declares, for each kind of permission
LEMMA DeclaresWhat ==
    ASSUME NEW m
    PROVE  /\ \A name \in Capabilities :
                 Declares(m, name) <=> Has(m.permissions) /\ m.permissions.flags[name] = TRUE
           /\ Declares(m, "filesystem_read") <=>
                 /\ Has(m.permissions) /\ Has(m.permissions.filesystem)
                 /\ m.permissions.filesystem.read = TRUE
           /\ Declares(m, "filesystem_write") <=>
                 /\ Has(m.permissions) /\ Has(m.permissions.filesystem)
                 /\ m.permissions.filesystem.write = TRUE
<1>1. \A name \in Capabilities :
         Declares(m, name) <=> Has(m.permissions) /\ m.permissions.flags[name] = TRUE
  BY DEF Declares, Capabilities
<1>2. Declares(m, "filesystem_read") <=>
         /\ Has(m.permissions) /\ Has(m.permissions.filesystem)
         /\ m.permissions.filesystem.read = TRUE
  BY DEF Declares, Capabilities
<1>3. Declares(m, "filesystem_write") <=>
         /\ Has(m.permissions) /\ Has(m.permissions.filesystem)
         /\ m.permissions.filesystem.write = TRUE
  BY DEF Declares, Capabilities
<1> QED
  BY <1>1, <1>2, <1>3

LEMMA GivenIsGood ==
    ASSUME NEW m \in ManifestObjects, Passes(m), m.package_version # 1, ~ReportRaises(m)
    PROVE  /\ Given(m) \in Permissions /\ Given(m).well
           /\ m.package_version < 3 => Given(m).flags["plugin_management"] = Missing
           /\ \A name \in DOMAIN Given(m).flags : Given(m).flags[name] # Other
           /\ GivenFiles(m) \in Filesystems /\ GivenFiles(m).well
           /\ GivenModules(m) \in Seq(Modules) /\ IsInjective(GivenModules(m))
           /\ Range(GivenModules(m)) = DeclaredModules(m)
           /\ \A name \in Capabilities :
                 Given(m).flags[name] = TRUE <=> Declares(m, name)
           /\ GivenFiles(m).read = TRUE <=> Declares(m, "filesystem_read")
           /\ GivenFiles(m).write = TRUE <=> Declares(m, "filesystem_write")
<1>1. ~BadPermissions(m) /\ m.permissions \in Permissions \cup Wrong
  BY DEF Passes, ManifestObjects
<1>2. Range(<<>>) = {} /\ IsInjective(<<>>)
  BY DEF Range, IsInjective
<1>4. Missing \notin {TRUE, Other}
  BY WrongAssumption DEF Wrong
<1>5. CASE m.permissions = Missing
  <2> DEFINE p == Given(m)
  <2>1. /\ p = [well |-> TRUE, filesystem |-> Missing, modules |-> Missing,
                flags |-> [n \in Capabilities \cup {"plugin_management"} |-> Missing]]
        /\ GivenFiles(m) = [well |-> TRUE, read |-> Missing, write |-> Missing]
        /\ GivenModules(m) = <<>> /\ DeclaredModules(m) = {}
    BY <1>5 DEF Given, GivenFiles, GivenModules, DeclaredModules, Has
  <2>2. p \in Permissions
    BY <2>1 DEF Permissions, Flags, Wrong
  <2>3. GivenFiles(m) \in Filesystems
    BY <2>1 DEF Filesystems
  <2> HIDE DEF p
  <2>4. /\ p.well /\ p.flags["plugin_management"] = Missing
        /\ \A name \in Capabilities : p.flags[name] = Missing
        /\ \A name \in DOMAIN p.flags : p.flags[name] # Other
    BY <1>4, <2>1
  <2>5. /\ GivenFiles(m).well /\ GivenFiles(m).read = Missing /\ GivenFiles(m).write = Missing
    BY <2>1
  <2>6. /\ GivenModules(m) \in Seq(Modules) /\ IsInjective(GivenModules(m))
        /\ Range(GivenModules(m)) = DeclaredModules(m)
    BY <1>2, <2>1
  <2>7. /\ \A name \in Capabilities : ~Declares(m, name)
        /\ ~Declares(m, "filesystem_read") /\ ~Declares(m, "filesystem_write")
    BY <1>5, DeclaresWhat DEF Has
  <2>8. /\ \A name \in Capabilities : p.flags[name] = TRUE <=> Declares(m, name)
        /\ GivenFiles(m).read = TRUE <=> Declares(m, "filesystem_read")
        /\ GivenFiles(m).write = TRUE <=> Declares(m, "filesystem_write")
    BY <1>4, <2>4, <2>5, <2>7
  <2> QED
    BY <2>2, <2>3, <2>4, <2>5, <2>6, <2>8 DEF p
<1>6. CASE m.permissions # Missing
  <2>1. /\ m.permissions \notin {Missing, Null} /\ Given(m) = m.permissions
        /\ m.permissions.filesystem # Null /\ m.permissions.modules # Null
    BY <1>6 DEF ReportRaises, Given
  <2>2. m.permissions \in Permissions /\ m.permissions \notin Wrong
    BY <1>1, <2>1 DEF BadPermissions
  <2>3. /\ m.permissions.well
        /\ m.package_version < 3 => m.permissions.flags["plugin_management"] = Missing
        /\ \A name \in DOMAIN m.permissions.flags : m.permissions.flags[name] # Other
    BY <1>1, <2>1 DEF BadPermissions, Has, Bool
  <2>4. GivenFiles(m) \in Filesystems /\ GivenFiles(m).well
    BY <1>1, <2>1, <2>2 DEF GivenFiles, BadPermissions, BadFilesystem, Permissions, Filesystems
  <2>5. /\ GivenModules(m) \in Seq(Modules) /\ IsInjective(GivenModules(m))
        /\ Range(GivenModules(m)) = DeclaredModules(m)
    <3>1. CASE m.permissions.modules = Missing
      BY <1>2, <2>1, <3>1 DEF GivenModules, DeclaredModules, Has
    <3>2. CASE m.permissions.modules # Missing
      <4> DEFINE list == m.permissions.modules
      <4>1. ListOf(list, Modules)
        BY <1>1, <2>1, <3>2 DEF BadPermissions, BadModules
      <4>2. list \in Seq(Modules \cup {Other, Nested})
        BY <2>2, <4>1 DEF Permissions, ListOf
      <4>3. \A i \in 1..Len(list) : list[i] \in Modules
        BY <4>1, <4>2 DEF ListOf, Range
      <4>4. list \in Seq(Modules)
        BY <4>2, <4>3
      <4> QED
        BY <2>1, <3>2, <4>1, <4>4 DEF GivenModules, DeclaredModules, Has, ListOf
    <3> QED
      BY <3>1, <3>2
  <2>6. \A name \in Capabilities : Given(m).flags[name] = TRUE <=> Declares(m, name)
    BY <1>6, <2>1, DeclaresWhat DEF Has
  <2>7. /\ GivenFiles(m).read = TRUE <=> Declares(m, "filesystem_read")
        /\ GivenFiles(m).write = TRUE <=> Declares(m, "filesystem_write")
    BY <1>4, <1>6, <2>1, DeclaresWhat DEF Has, GivenFiles
  <2> QED
    BY <2>1, <2>2, <2>3, <2>4, <2>5, <2>6, <2>7
<1> QED
  BY <1>5, <1>6

LEMMA FilesExcept ==
    ASSUME NEW fs \in Filesystems, NEW a, NEW b
    PROVE  [fs EXCEPT !.read = a, !.write = b] = [well |-> fs.well, read |-> a, write |-> b]
<1> DEFINE r == [fs EXCEPT !.read = a, !.write = b]
<1>1. r \in [well: {fs.well}, read: {a}, write: {b}]
  BY DEF Filesystems
<1> HIDE DEF r
<1>2. r = [well |-> fs.well, read |-> a, write |-> b]
  BY <1>1
<1> QED
  BY <1>2 DEF r

LEMMA PermissionsExcept ==
    ASSUME NEW p \in Permissions, NEW a, NEW b, NEW c
    PROVE  [p EXCEPT !.flags = a, !.filesystem = b, !.modules = c] =
              [well |-> p.well, flags |-> a, filesystem |-> b, modules |-> c]
<1> DEFINE q == [p EXCEPT !.flags = a, !.filesystem = b, !.modules = c]
<1>1. q \in [well: {p.well}, flags: {a}, filesystem: {b}, modules: {c}]
  BY DEF Permissions
<1> HIDE DEF q
<1>2. q = [well |-> p.well, flags |-> a, filesystem |-> b, modules |-> c]
  BY <1>1
<1> QED
  BY <1>2 DEF q

\* What Heeded makes of the permissions, part by part.
LEMMA HeededParts ==
    ASSUME NEW m \in ManifestObjects, Passes(m), m.package_version # 1, ~ReportRaises(m)
    PROVE  LET h == Heeded(m)
               p == h.permissions
           IN  /\ h.package_version = m.package_version /\ h.well = m.well
               /\ h.execution_mode = m.execution_mode
               /\ h.requested_permissions = m.requested_permissions /\ h.web_ui = m.web_ui
               /\ h.payload = m.payload /\ h.scope = m.scope /\ h.memory = m.memory
               /\ h.cpu = m.cpu /\ h.entrypoint = m.entrypoint
               /\ p.well = Given(m).well
               /\ p.flags = [n \in DOMAIN Given(m).flags |->
                                IF n \in warnings.names THEN TRUE ELSE Given(m).flags[n]]
               /\ p.filesystem =
                     [well |-> GivenFiles(m).well,
                      read |-> IF "filesystem_read" \in warnings.names THEN TRUE
                               ELSE GivenFiles(m).read,
                      write |-> IF "filesystem_write" \in warnings.names THEN TRUE
                                ELSE GivenFiles(m).write]
               /\ p.modules = GivenModules(m) \o SetToSeq(warnings.modules)
               /\ DOMAIN p = {"well", "flags", "filesystem", "modules"}
               /\ p = [well |-> p.well, flags |-> p.flags, filesystem |-> p.filesystem,
                       modules |-> p.modules]
<1> DEFINE p == Given(m)
           fs == GivenFiles(m)
           files == [fs EXCEPT !.read = IF "filesystem_read" \in warnings.names THEN TRUE ELSE @,
                               !.write = IF "filesystem_write" \in warnings.names THEN TRUE ELSE @]
           flags == [n \in DOMAIN p.flags |-> IF n \in warnings.names THEN TRUE ELSE p.flags[n]]
           list == GivenModules(m) \o SetToSeq(warnings.modules)
           q == [p EXCEPT !.flags = flags, !.filesystem = files, !.modules = list]
<1>1. p \in Permissions /\ fs \in Filesystems
  BY GivenIsGood
<1>2. Heeded(m) = [m EXCEPT !.permissions = q]
  BY DEF Heeded, Given, GivenFiles, GivenModules
<1>3. files = [well |-> fs.well,
               read |-> IF "filesystem_read" \in warnings.names THEN TRUE ELSE fs.read,
               write |-> IF "filesystem_write" \in warnings.names THEN TRUE ELSE fs.write]
  <2> DEFINE a == IF "filesystem_read" \in warnings.names THEN TRUE ELSE fs.read
             b == IF "filesystem_write" \in warnings.names THEN TRUE ELSE fs.write
  <2>1. files = [fs EXCEPT !.read = a, !.write = b]
    OBVIOUS
  <2> HIDE DEF a, b
  <2>2. files = [well |-> fs.well, read |-> a, write |-> b]
    BY <1>1, <2>1, FilesExcept
  <2> QED
    BY <2>2 DEF a, b
<1> HIDE DEF files, flags, list
<1>4. /\ q.well = p.well /\ q.flags = flags /\ q.filesystem = files /\ q.modules = list
      /\ q = [well |-> p.well, flags |-> flags, filesystem |-> files, modules |-> list]
  <2>1. q = [well |-> p.well, flags |-> flags, filesystem |-> files, modules |-> list]
    BY <1>1, PermissionsExcept
  <2> HIDE DEF q
  <2> QED
    BY <2>1
<1> HIDE DEF q, p, fs
<1>5. LET h == Heeded(m)
      IN  /\ h.permissions = q
          /\ h.package_version = m.package_version /\ h.well = m.well
          /\ h.execution_mode = m.execution_mode
          /\ h.requested_permissions = m.requested_permissions /\ h.web_ui = m.web_ui
          /\ h.payload = m.payload /\ h.scope = m.scope /\ h.memory = m.memory
          /\ h.cpu = m.cpu /\ h.entrypoint = m.entrypoint
  BY <1>2 DEF ManifestObjects
<1> QED
  BY <1>3, <1>4, <1>5 DEF p, fs, flags, list

\* Heeding the warnings of a manifest keeps every check content.
LEMMA HeededPasses ==
    ASSUME Inv, Told, Judged, stage = "reported", manifest.package_version # 1,
           Cardinality(DeclaredModules(manifest) \cup warnings.modules) <= MAX_MODULES
    PROVE  LET m == Heeded(manifest)
           IN  /\ Passes(m)
               /\ permission_warnings(m, usage) = None
               /\ Names({"content_redirection", "sdutils"}, usage) # {} =>
                     m.permissions.filesystem = [well |-> TRUE, read |-> TRUE, write |-> TRUE]
<1> DEFINE m == manifest
           h == Heeded(manifest)
           p == Given(manifest)
           q == h.permissions
           fs == GivenFiles(manifest)
<1>1. /\ m \in ManifestObjects /\ Passes(m) /\ ~ReportRaises(m) /\ usage \in Usages
      /\ warnings = permission_warnings(m, usage)
  BY AcceptedPasses DEF Inv, InputOK, Accepted, Told, Judged
<1>2. /\ p \in Permissions /\ p.well
      /\ m.package_version < 3 => p.flags["plugin_management"] = Missing
      /\ \A name \in DOMAIN p.flags : p.flags[name] # Other
      /\ fs \in Filesystems /\ fs.well
      /\ GivenModules(m) \in Seq(Modules) /\ IsInjective(GivenModules(m))
      /\ Range(GivenModules(m)) = DeclaredModules(m)
      /\ \A name \in Capabilities : p.flags[name] = TRUE <=> Declares(m, name)
      /\ fs.read = TRUE <=> Declares(m, "filesystem_read")
      /\ fs.write = TRUE <=> Declares(m, "filesystem_write")
  BY <1>1, GivenIsGood
<1>3. /\ h.package_version = m.package_version /\ h.well = m.well
      /\ h.execution_mode = m.execution_mode
      /\ h.requested_permissions = m.requested_permissions /\ h.web_ui = m.web_ui
      /\ h.payload = m.payload /\ h.scope = m.scope /\ h.memory = m.memory
      /\ h.cpu = m.cpu /\ h.entrypoint = m.entrypoint
  BY <1>1, HeededParts
<1>4. /\ q.well = p.well
      /\ q.flags = [n \in DOMAIN p.flags |-> IF n \in warnings.names THEN TRUE ELSE p.flags[n]]
      /\ q.filesystem = [well |-> fs.well,
                         read |-> IF "filesystem_read" \in warnings.names THEN TRUE ELSE fs.read,
                         write |-> IF "filesystem_write" \in warnings.names THEN TRUE ELSE fs.write]
      /\ q.modules = GivenModules(m) \o SetToSeq(warnings.modules)
      /\ q = [well |-> q.well, flags |-> q.flags, filesystem |-> q.filesystem,
              modules |-> q.modules]
  BY <1>1, HeededParts
<1>5. /\ warnings.names = {name \in Reported : Required(usage)[name] /\ ~Declares(m, name)}
      /\ warnings.modules = Names({"homebrew_"}, usage) \ DeclaredModules(m)
      /\ warnings.modules \subseteq Modules /\ IsFiniteSet(warnings.modules)
  <2>1. /\ warnings.names = {name \in Reported : Required(usage)[name] /\ ~Declares(m, name)}
        /\ warnings.modules = Names({"homebrew_"}, usage) \ DeclaredModules(m)
    BY <1>1 DEF permission_warnings
  <2>2. warnings.modules \subseteq usage.imports /\ usage.imports \subseteq Modules
    BY <1>1, <2>1 DEF Names, Usages
  <2> QED
    BY <2>1, <2>2, FS_Subset DEF Told
<1> HIDE DEF h, p, fs
<1>6. DOMAIN p.flags = Capabilities \cup {"plugin_management"} /\ DOMAIN q.flags = DOMAIN p.flags
  BY <1>2, <1>4 DEF Permissions
<1>7. /\ q.modules \in Seq(Modules) /\ IsInjective(q.modules)
      /\ Range(q.modules) = DeclaredModules(m) \cup warnings.modules
      /\ Len(q.modules) <= MAX_MODULES
  <2>1. Range(GivenModules(m)) \cap warnings.modules = {} /\ Modules \cup warnings.modules = Modules
    BY <1>2, <1>5
  <2>2. /\ q.modules \in Seq(Modules \cup warnings.modules) /\ IsInjective(q.modules)
        /\ Range(q.modules) = Range(GivenModules(m)) \cup warnings.modules
        /\ Len(q.modules) = Cardinality(Range(GivenModules(m)) \cup warnings.modules)
    <3>1. GivenModules(m) \in Seq(Modules) /\ IsInjective(GivenModules(m))
      BY <1>2
    <3>2. IsFiniteSet(warnings.modules)
      BY <1>5
    <3>3. q.modules = GivenModules(m) \o SetToSeq(warnings.modules)
      BY <1>4
    <3> DEFINE list == GivenModules(m)
               S == warnings.modules
               longer == list \o SetToSeq(S)
    <3>4. list \in Seq(Modules) /\ IsInjective(list) /\ IsFiniteSet(S) /\ Range(list) \cap S = {}
      BY <2>1, <3>1, <3>2
    <3> HIDE DEF list, S
    <3>5. /\ longer \in Seq(Modules \cup S) /\ IsInjective(longer)
          /\ Range(longer) = Range(list) \cup S /\ Len(longer) = Cardinality(Range(list) \cup S)
      BY ONLY <3>4, ListsMore
    <3> QED
      BY <3>3, <3>5 DEF list, S
  <2> QED
    BY <1>2, <2>1, <2>2
<1>8. q.filesystem \in Filesystems /\ q.filesystem.well
  BY <1>2, <1>4 DEF Filesystems
<1>9. q \in Permissions
  <2>1. q.flags \in [Capabilities \cup {"plugin_management"} -> Flags]
    BY <1>2, <1>4, <1>6 DEF Permissions, Flags
  <2>2. q.well \in BOOLEAN /\ q.modules \in Seq(Modules \cup {Other, Nested})
    BY <1>2, <1>4, <1>7 DEF Permissions
  <2> QED
    BY <1>4, <1>8, <2>1, <2>2 DEF Permissions
<1>10. /\ q \notin Wrong /\ q.filesystem \notin Wrong /\ q.modules \notin Wrong
  BY <1>7, <1>8, <1>9, WrongAssumption
<1>11. ~BadPermissions(h)
  <2>1. "plugin_management" \notin warnings.names
    BY <1>5 DEF Reported, Capabilities
  <2>2. h.package_version < 3 => q.flags["plugin_management"] = Missing
    BY <1>2, <1>3, <1>4, <1>6, <2>1
  <2>3. \A name \in DOMAIN q.flags : q.flags[name] # Other
    BY <1>2, <1>4, <1>6, WrongAssumption DEF Wrong
  <2>4. ~BadFilesystem(q.filesystem)
    BY <1>8, <1>10 DEF BadFilesystem
  <2>5. ~BadModules(q.modules)
    <3>1. Range(q.modules) \subseteq Modules
      BY <1>7 DEF Range
    <3> QED
      BY <1>7, <1>10, <3>1, ManifestAssumption DEF BadModules, ListOf
  <2> QED
    BY <1>2, <1>4, <1>10, <2>2, <2>3, <2>4, <2>5 DEF BadPermissions, Has, Bool
<1>12. Passes(h)
  <2>1. ~BadFields(h) /\ ~BadRequested(h) /\ ~BadVersion(h)
    BY <1>1, <1>3 DEF Passes, BadFields, BadRequested, BadVersion, Asks
  <2>2. h.package_version = 4 => UiPasses(h)
    BY <1>1, <1>3 DEF Passes, UiPasses, BadWebUi, BadNetwork, Asks
  <2>3. ~PayloadRaises(h) /\ ~BadPayload(h) /\ ~ScopeRaises(h) /\ ~BadScope(h)
    BY <1>1, <1>3 DEF Passes, PayloadRaises, BadPayload, ScopeRaises, BadScope
  <2>4. ~BadExecution(h)
    BY <1>1, <1>3 DEF Passes, BadExecution, PayloadFormat, BadExpansion
  <2> QED
    BY <1>11, <2>1, <2>2, <2>3, <2>4 DEF Passes
<1>13. /\ Has(q) /\ Has(q.filesystem) /\ Has(q.modules)
  BY <1>10 DEF Has, Wrong
<1>14. ASSUME NEW name \in Reported, Required(usage)[name] PROVE Declares(h, name)
  <2>1. name \in warnings.names \/ Declares(m, name)
    BY <1>5, <1>14
  <2>2. CASE name \in Capabilities
    <3>1. q.flags[name] = TRUE
      BY <1>2, <1>4, <1>6, <2>1, <2>2
    <3> QED
      BY <1>13, <2>2, <3>1, DeclaresWhat
  <2>3. CASE name = "filesystem_read"
    <3>1. q.filesystem.read = TRUE
      <4>1. CASE name \in warnings.names
        BY <1>4, <2>3, <4>1
      <4>2. CASE name \notin warnings.names
        <5>1. fs.read = TRUE
          BY <1>2, <2>1, <2>3, <4>2
        <5> QED
          BY <1>4, <2>3, <4>2, <5>1
      <4> QED
        BY <4>1, <4>2
    <3> QED
      BY <1>13, <2>3, <3>1, DeclaresWhat
  <2>4. CASE name = "filesystem_write"
    <3>1. q.filesystem.write = TRUE
      <4>1. CASE name \in warnings.names
        BY <1>4, <2>4, <4>1
      <4>2. CASE name \notin warnings.names
        <5>1. fs.write = TRUE
          BY <1>2, <2>1, <2>4, <4>2
        <5> QED
          BY <1>4, <2>4, <4>2, <5>1
      <4> QED
        BY <4>1, <4>2
    <3> QED
      BY <1>13, <2>4, <3>1, DeclaresWhat
  <2> QED
    BY <2>2, <2>3, <2>4 DEF Reported
<1>15. permission_warnings(h, usage) = None
  <2>1. DeclaredModules(h) = DeclaredModules(m) \cup warnings.modules
    BY <1>7, <1>13 DEF DeclaredModules
  <2> QED
    BY <1>5, <1>14, <2>1 DEF permission_warnings, None
<1>16. ASSUME Names({"content_redirection", "sdutils"}, usage) # {}
       PROVE  q.filesystem = [well |-> TRUE, read |-> TRUE, write |-> TRUE]
  <2>1. {"filesystem_read", "filesystem_write"} \subseteq Reported \ Capabilities
    BY DEF Reported, Capabilities
  <2>2. Required(usage)["filesystem_read"] /\ Required(usage)["filesystem_write"]
    BY <1>16, <2>1 DEF Required, Capabilities
  <2>3. Declares(h, "filesystem_read") /\ Declares(h, "filesystem_write")
    BY <1>14, <2>1, <2>2
  <2>4. q.filesystem.read = TRUE /\ q.filesystem.write = TRUE
    BY <2>3, DeclaresWhat
  <2> QED
    BY <1>4, <1>8, <2>4 DEF Filesystems
<1> QED
  BY <1>12, <1>15, <1>16 DEF h

(* Adding what the report names is all there is to do: the manifest is      *)
(* accepted again, nothing is warned of any more, and every file access the *)
(* imports may make is declared in both directions.                         *)
THEOREM WarningsStayHeedable == Spec => []WarningsCanBeHeeded
<1>1. Inv /\ Told /\ Judged => WarningsCanBeHeeded
  BY HeededPasses DEF WarningsCanBeHeeded
<1> QED
  BY <1>1, Invariance, ReportsTold, ReportsJudged, PTL
=============================================================================
