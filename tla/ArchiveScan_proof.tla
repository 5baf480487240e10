------------------------- MODULE ArchiveScan_proof -------------------------
(***************************************************************************)
(* Proofs about ArchiveScan for every set of archives, every alphabet of   *)
(* names and all limits.                                                   *)
(***************************************************************************)
EXTENDS ArchiveScan, FiniteSums

\* What the scan keeps of each name it takes.
TakenName(n) ==
    /\ AllowedEntry(n)
    /\ IsUi(n) => Canonical(n) = FoldName(n)
    /\ \A k \in DOMAIN n : n[k] # ".."

\* The inductive invariant: the keys of the names taken are in normalized,
\* and a name can be told from its key.
ScanInv ==
    /\ TypeOK
    /\ \A n \in DOMAIN entries : TakenName(n)
    /\ \A m, n \in DOMAIN entries : Canonical(m) = Canonical(n) => m = n

\* The entry a scanning step looks at is a proper info.
LEMMA ScannedInfo ==
    ASSUME TypeOK, Scanning
    PROVE  archive.infos[i] \in Infos
BY DEF TypeOK, Scanning, ArchiveRecords

\* Taking an entry that is not refused keeps the counters within the limits.
LEMMA CountersBounded ==
    ASSUME TypeOK, NEW info \in Infos, ~Refused(info)
    PROVE  /\ expanded + info.size \in 0..MAX_EXPANDED_BYTES
           /\ IsUi(info.name) => /\ ui_files + 1 \in 0..MAX_UI_FILES
                                 /\ ui_bytes + info.size \in 0..MAX_UI_BYTES
<1>1. info.size \in Nat
  BY DEF Infos
<1>2. MAX_EXPANDED_BYTES \in Nat /\ MAX_UI_FILES \in Nat /\ MAX_UI_BYTES \in Nat
  BY LimitsAssumption
<1>3. ~OverSizeLimits(info) /\ ~OverUiLimits(info)
  BY DEF Refused
<1>4. expanded \in Nat /\ ui_files \in Nat /\ ui_bytes \in Nat
  BY <1>2 DEF TypeOK
<1>5. expanded + info.size \in 0..MAX_EXPANDED_BYTES
  BY <1>1, <1>2, <1>3, <1>4 DEF OverSizeLimits
<1>6. IsUi(info.name) => ui_files + 1 \in 0..MAX_UI_FILES
  BY <1>1, <1>2, <1>3, <1>4 DEF OverUiLimits
<1>7. IsUi(info.name) => ui_bytes + info.size \in 0..MAX_UI_BYTES
  BY <1>1, <1>2, <1>3, <1>4 DEF OverUiLimits
<1> QED
  BY <1>5, <1>6, <1>7

LEMMA TypeInit == Init => TypeOK
<1> SUFFICES ASSUME Init PROVE TypeOK
  OBVIOUS
<1>1. archive \in ArchiveRecords
  BY ArchivesAssumption DEF Init
<1>2. i \in 1..(Len(archive.infos) + 1)
  BY <1>1 DEF Init, ArchiveRecords
<1>3. DOMAIN entries = {} /\ normalized = {}
  BY DEF Init
<1>4. /\ expanded \in 0..MAX_EXPANDED_BYTES
      /\ ui_files \in 0..MAX_UI_FILES
      /\ ui_bytes \in 0..MAX_UI_BYTES
  BY LimitsAssumption DEF Init
<1>5. verdict \in Verdicts
  BY DEF Init, Verdicts
<1> QED
  BY <1>1, <1>2, <1>3, <1>4, <1>5 DEF TypeOK

\* A step that only decides the verdict.
LEMMA DecideKeepsType ==
    ASSUME TypeOK, NEW v \in Verdicts, Decide(v)
    PROVE  TypeOK'
BY DEF TypeOK, Decide, Verdicts

LEMMA TakeKeepsType ==
    ASSUME TypeOK, TakeEntry
    PROVE  TypeOK'
<1> DEFINE info == archive.infos[i]
<1>1. Scanning /\ ~Refused(info)
  BY DEF TakeEntry
<1>2. info \in Infos
  BY <1>1, ScannedInfo
<1> HIDE DEF info
<1>3. /\ entries' = [name \in DOMAIN entries \cup {info.name} |->
                       IF name = info.name THEN info ELSE entries[name]]
      /\ normalized' = normalized \cup {Canonical(info.name)}
      /\ expanded' = expanded + info.size
      /\ ui_files' = IF IsUi(info.name) THEN ui_files + 1 ELSE ui_files
      /\ ui_bytes' = IF IsUi(info.name) THEN ui_bytes + info.size ELSE ui_bytes
      /\ i' = i + 1 /\ archive' = archive /\ verdict' = verdict
  BY DEF TakeEntry, info
<1>4. info.name \in Names
  BY <1>2 DEF Infos
<1>5. i' \in 1..(Len(archive'.infos) + 1)
  BY <1>1, <1>3 DEF TypeOK, Scanning, ArchiveRecords
<1>6. /\ DOMAIN entries' \subseteq Names
      /\ \A name \in DOMAIN entries' : entries'[name] \in Infos
  BY <1>2, <1>3, <1>4 DEF TypeOK
<1>7. normalized' = {Canonical(name) : name \in DOMAIN entries'}
  BY <1>3 DEF TypeOK
<1>8. /\ expanded' \in 0..MAX_EXPANDED_BYTES
      /\ ui_files' \in 0..MAX_UI_FILES
      /\ ui_bytes' \in 0..MAX_UI_BYTES
  BY <1>1, <1>2, <1>3, CountersBounded DEF TypeOK, info
<1>9. archive' \in ArchiveRecords /\ verdict' \in Verdicts
  BY <1>3 DEF TypeOK
<1> QED
  BY <1>5, <1>6, <1>7, <1>8, <1>9 DEF TypeOK

LEMMA TypeStep == TypeOK /\ [Next]_vars => TypeOK'
<1> SUFFICES ASSUME TypeOK, [Next]_vars PROVE TypeOK'
  OBVIOUS
<1>1. CASE Open
  BY <1>1, DecideKeepsType DEF Open, Verdicts
<1>2. CASE RefuseEntry
  BY <1>2, DecideKeepsType DEF RefuseEntry, Verdicts
<1>3. CASE ReadRaises
  BY <1>3, DecideKeepsType DEF ReadRaises, Verdicts
<1>4. CASE TakeEntry
  BY <1>4, TakeKeepsType
<1>5. CASE CheckEntries
  <2>1. \E v \in Verdicts : Decide(v)
    BY <1>5 DEF CheckEntries, Verdicts
  <2> QED
    BY <2>1, DecideKeepsType
<1>6. CASE UNCHANGED vars
  BY <1>6 DEF vars, TypeOK
<1> QED
  BY <1>1, <1>2, <1>3, <1>4, <1>5, <1>6 DEF Next

\* The counters of the scan never pass the limits of the package format,
\* whatever the directory of the archive says.
THEOREM ScanTypeCorrect == Spec => []TypeOK
BY TypeInit, TypeStep, PTL DEF Spec

-----------------------------------------------------------------------------

LEMMA InvInit == Init => ScanInv
BY TypeInit DEF Init, ScanInv

\* Decisions do not touch the entries.
LEMMA DecideKeepsInv ==
    ASSUME ScanInv, TypeOK', UNCHANGED entries
    PROVE  ScanInv'
BY DEF ScanInv, TakenName, AllowedEntry, IsUi, Fixed

LEMMA TakeKeepsInv ==
    ASSUME ScanInv, TakeEntry
    PROVE  ScanInv'
<1> DEFINE info == archive.infos[i]
<1>1. ~Refused(info)
  BY DEF TakeEntry
<1>2. TypeOK'
  BY TakeKeepsType DEF ScanInv
<1>3. DOMAIN entries' = DOMAIN entries \cup {info.name}
  BY DEF TakeEntry
<1>4. TakenName(info.name)
  BY <1>1 DEF Refused, UnsafeName, TakenName
<1>5. Canonical(info.name) \notin normalized
  BY <1>1 DEF Refused
<1>6. \A n \in DOMAIN entries : Canonical(n) # Canonical(info.name)
  BY <1>5 DEF ScanInv, TypeOK
<1>7. \A n \in DOMAIN entries' : TakenName(n)
  BY <1>3, <1>4 DEF ScanInv
<1>8. \A m, n \in DOMAIN entries' : Canonical(m) = Canonical(n) => m = n
  BY <1>3, <1>6 DEF ScanInv
<1> QED
  BY <1>2, <1>7, <1>8 DEF ScanInv, TakenName, AllowedEntry, IsUi, Fixed

LEMMA InvStep == ScanInv /\ [Next]_vars => ScanInv'
<1> SUFFICES ASSUME ScanInv, [Next]_vars PROVE ScanInv'
  OBVIOUS
<1>1. TypeOK'
  BY TypeStep DEF ScanInv
<1>2. CASE TakeEntry
  BY <1>2, TakeKeepsInv
<1>3. CASE ~TakeEntry
  <2>1. UNCHANGED entries
    BY <1>3 DEF Next, Open, RefuseEntry, ReadRaises, CheckEntries, Decide, vars
  <2> QED
    BY <2>1, <1>1, DecideKeepsInv
<1> QED
  BY <1>2, <1>3

\* Two fixed names that fold to the same name are equal; a fixed name and a
\* path below ui/ differ in length; two paths below ui/ are their own keys.
LEMMA FoldTellsApart ==
    ASSUME ScanInv, NEW m \in DOMAIN entries, NEW n \in DOMAIN entries,
           FoldName(m) = FoldName(n)
    PROVE  m = n
<1>1. m \in Names /\ n \in Names /\ TakenName(m) /\ TakenName(n)
  BY DEF ScanInv, TypeOK
<1>2. m \in Seq(Components) /\ n \in Seq(Components)
  BY <1>1 DEF Names
<1>3. DOMAIN m = DOMAIN n
  BY DEF FoldName
<1>4. Len(m) = Len(n)
  BY <1>2, <1>3
<1>5. CASE IsUi(m) /\ IsUi(n)
  BY <1>1, <1>5 DEF TakenName, ScanInv
<1>6. CASE m \in Fixed /\ n \in Fixed
  <2>1. PICK a \in FixedNames : m = <<a>>
    BY <1>6 DEF Fixed
  <2>2. PICK b \in FixedNames : n = <<b>>
    BY <1>6 DEF Fixed
  <2>3. FoldName(m)[1] = Fold[a] /\ FoldName(n)[1] = Fold[b]
    BY <2>1, <2>2 DEF FoldName
  <2>4. Fold[a] = a /\ Fold[b] = b
    BY NamingAssumption
  <2> QED
    BY <2>1, <2>2, <2>3, <2>4
<1>7. m \in Fixed => Len(m) = 1
  BY DEF Fixed
<1>8. n \in Fixed => Len(n) = 1
  BY DEF Fixed
<1>9. (m \in Fixed \/ IsUi(m)) /\ (n \in Fixed \/ IsUi(n))
  BY <1>1 DEF TakenName, AllowedEntry
<1> QED
  BY <1>4, <1>5, <1>6, <1>7, <1>8, <1>9 DEF IsUi

\* The entries the scan has taken can be told apart by a reader that ignores
\* case and the spelling of paths, and none of them climbs out of the package.
THEOREM NamesStayDistinct == Spec => []NamesDistinct
<1>1. ScanInv => NamesDistinct
  BY FoldTellsApart DEF ScanInv, NamesDistinct, TakenName
<1> QED
  BY <1>1, InvInit, InvStep, PTL DEF Spec

-----------------------------------------------------------------------------
(* The totals of a directory are sums in the sense of FiniteSums.           *)

Sizes(infos) == [k \in DOMAIN infos |-> infos[k].size]

LEMMA InfoTypes ==
    ASSUME NEW infos \in Seq(Infos)
    PROVE  /\ DOMAIN infos = 1..Len(infos) /\ Len(infos) \in Nat
           /\ IsFiniteSet(DOMAIN infos)
           /\ \A k \in DOMAIN infos : infos[k] \in Infos /\ Sizes(infos)[k] = infos[k].size
                                       /\ Sizes(infos)[k] \in Nat
<1>1. DOMAIN infos = 1..Len(infos) /\ Len(infos) \in Nat
  OBVIOUS
<1>2. IsFiniteSet(1..Len(infos))
  BY <1>1, FS_Interval
<1>3. \A k \in DOMAIN infos : infos[k] \in Infos
  OBVIOUS
<1> QED
  BY <1>1, <1>2, <1>3 DEF Sizes, Infos

LEMMA TotalIsSum ==
    ASSUME NEW infos \in Seq(Infos), NEW S \in SUBSET DOMAIN infos
    PROVE  TotalSize(infos, S) = Sum(Sizes(infos), S)
<1> DEFINE fold == CHOOSE g : g = [s \in SUBSET S |->
                      IF s = {} THEN 0
                      ELSE infos[CHOOSE x \in s : TRUE].size + g[s \ {CHOOSE x \in s : TRUE}]]
<1>1. IsFiniteSet(S)
  BY InfoTypes, FS_Subset
<1>2. PICK g : IsSum(Sizes(infos), S, g)
  BY <1>1, SumExists
<1>3. ASSUME NEW f
      PROVE  IsSum(Sizes(infos), S, f) <=>
                f = [s \in SUBSET S |->
                        IF s = {} THEN 0
                        ELSE infos[CHOOSE x \in s : TRUE].size + f[s \ {CHOOSE x \in s : TRUE}]]
  <2>1. \A s \in SUBSET S : s # {} =>
           Sizes(infos)[CHOOSE x \in s : TRUE] = infos[CHOOSE x \in s : TRUE].size
    BY DEF Sizes
  <2> QED
    BY <2>1, SMTT(30) DEF IsSum
<1>4. fold = [s \in SUBSET S |->
                 IF s = {} THEN 0
                 ELSE infos[CHOOSE x \in s : TRUE].size + fold[s \ {CHOOSE x \in s : TRUE}]]
  <2>1. g = [s \in SUBSET S |->
                IF s = {} THEN 0
                ELSE infos[CHOOSE x \in s : TRUE].size + g[s \ {CHOOSE x \in s : TRUE}]]
    BY <1>2, <1>3
  <2> QED
    BY <2>1
<1>5. TotalSize(infos, S) = fold[S]
  BY DEF TotalSize, MapThenSumSet, MapThenFoldSet
<1> HIDE DEF fold
<1>6. IsSum(Sizes(infos), S, fold)
  BY <1>3, <1>4
<1> QED
  BY <1>1, <1>5, <1>6, SumIs

\* Totals of parts of a directory.
LEMMA Totals ==
    ASSUME NEW infos \in Seq(Infos), NEW S \in SUBSET DOMAIN infos
    PROVE  /\ TotalSize(infos, {}) = 0
           /\ TotalSize(infos, S) \in Nat
           /\ \A T \in SUBSET S : TotalSize(infos, T) <= TotalSize(infos, S)
           /\ \A e \in DOMAIN infos : e \notin S =>
                 TotalSize(infos, S \cup {e}) = TotalSize(infos, S) + infos[e].size
<1> DEFINE w == Sizes(infos)
<1>1. IsFiniteSet(S) /\ \A x \in S : w[x] \in Nat
  BY InfoTypes, FS_Subset
<1>2. \A T \in SUBSET DOMAIN infos : TotalSize(infos, T) = Sum(w, T)
  BY TotalIsSum
<1>3. \A e \in DOMAIN infos : w[e] = infos[e].size /\ w[e] \in Nat
  BY InfoTypes
<1> HIDE DEF w
<1>4. TotalSize(infos, {}) = 0
  BY <1>2, SumOfNothing
<1>5. TotalSize(infos, S) \in Nat
  BY <1>1, <1>2, SumType
<1>6. \A T \in SUBSET S : TotalSize(infos, T) <= TotalSize(infos, S)
  BY <1>1, <1>2, SumOfPart
<1>7. ASSUME NEW e \in DOMAIN infos, e \notin S
      PROVE  TotalSize(infos, S \cup {e}) = TotalSize(infos, S) + infos[e].size
  BY <1>1, <1>2, <1>3, <1>7, SumAdd
<1> QED
  BY <1>4, <1>5, <1>6, <1>7

-----------------------------------------------------------------------------
(* The counters are the totals of what the scan has taken.                  *)

Taken == 1..(i - 1)
UiTaken == UiIndices(archive.infos) \cap Taken

\* What is known of the entries behind i, by their places in the directory.
TakenInv ==
    /\ archive \in Archives
    /\ verdict = "opening" => i = 1
    /\ verdict = "scanning" =>
          archive.readable /\ Len(archive.infos) \in 1..MAX_PACKAGE_ENTRIES
    /\ DOMAIN entries = {archive.infos[k].name : k \in Taken}
    /\ \A k \in Taken :
          /\ entries[archive.infos[k].name] = archive.infos[k]
          /\ AcceptableEntry(archive.infos[k])
          /\ IsUi(archive.infos[k].name) => archive.infos[k].size <= MAX_UI_FILE_BYTES
    /\ \A j, k \in Taken : archive.infos[j].name = archive.infos[k].name => j = k

ExactInv == ScanInv /\ TakenInv /\ ScanBounds /\ AcceptsExactly

LEMMA TakenTypes ==
    ASSUME TypeOK
    PROVE  /\ archive.infos \in Seq(Infos) /\ i \in Nat
           /\ Taken \subseteq DOMAIN archive.infos /\ i \notin Taken
           /\ UiTaken \subseteq DOMAIN archive.infos
           /\ IsFiniteSet(Taken) /\ IsFiniteSet(UiTaken)
           /\ Scanning => i \in DOMAIN archive.infos
<1>1. archive.infos \in Seq(Infos) /\ i \in 1..(Len(archive.infos) + 1)
  BY DEF TypeOK, ArchiveRecords
<1>2. i \in Nat /\ DOMAIN archive.infos = 1..Len(archive.infos) /\ Len(archive.infos) \in Nat
  BY <1>1
<1>3. Taken \subseteq DOMAIN archive.infos /\ i \notin Taken
  BY <1>1, <1>2 DEF Taken
<1>4. IsFiniteSet(DOMAIN archive.infos)
  BY <1>1, InfoTypes
<1>5. IsFiniteSet(Taken) /\ IsFiniteSet(UiTaken)
  BY <1>3, <1>4, FS_Subset DEF UiTaken
<1> QED
  BY <1>1, <1>2, <1>3, <1>5 DEF UiTaken, Scanning

\* An allowed name begins with the component ui if and only if it is below ui/.
LEMMA UiNamesBegin ==
    ASSUME NEW name, AllowedEntry(name)
    PROVE  IsUi(name) <=> name[1] = "ui"
BY DEF AllowedEntry, IsUi, Fixed, FixedNames

LEMMA ScanBoundsInit == Init => ScanBounds
<1> SUFFICES ASSUME Init PROVE ScanBounds
  OBVIOUS
<1>1. TypeOK /\ i = 1
  BY TypeInit DEF Init
<1>2. 1..(i - 1) = {}
  BY <1>1
<1>3. TotalSize(archive.infos, {}) = 0
  BY <1>1, TakenTypes, Totals
<1>4. Cardinality({}) = 0
  BY FS_EmptySet
<1> QED
  BY <1>2, <1>3, <1>4, LimitsAssumption DEF Init, ScanBounds

\* Taking an entry adds it to the counters and to the totals.
LEMMA TakeKeepsBounds ==
    ASSUME ScanInv, ScanBounds, TakeEntry
    PROVE  ScanBounds'
<1> DEFINE infos == archive.infos
           info == infos[i]
<1>1. TypeOK /\ TypeOK' /\ Scanning /\ ~Refused(info)
  BY TakeKeepsType DEF ScanInv, TakeEntry
<1>2. infos \in Seq(Infos) /\ i \in DOMAIN infos /\ i \in Nat
  BY <1>1, TakenTypes
<1>3. archive' = archive /\ i' = i + 1 /\ expanded' = expanded + info.size
  BY DEF TakeEntry
<1>4. Taken' = Taken \cup {i}
  BY <1>1, <1>2, <1>3 DEF Taken, TypeOK
<1>5. IsUi(info.name) <=> i \in UiIndices(infos)
  <2>1. AllowedEntry(info.name)
    BY <1>1 DEF Refused
  <2> QED
    BY <1>2, <2>1, UiNamesBegin DEF UiIndices
<1>6. UiTaken' = IF IsUi(info.name) THEN UiTaken \cup {i} ELSE UiTaken
  BY <1>3, <1>4, <1>5 DEF UiTaken
<1>7. /\ expanded = TotalSize(infos, Taken)
      /\ ui_files = Cardinality(UiTaken)
      /\ ui_bytes = TotalSize(infos, UiTaken)
  BY DEF ScanBounds, Taken, UiTaken
<1>8. Taken \in SUBSET DOMAIN infos /\ UiTaken \in SUBSET DOMAIN infos /\ i \notin Taken
      /\ i \notin UiTaken /\ IsFiniteSet(UiTaken)
  BY <1>1, TakenTypes DEF UiTaken
<1> HIDE DEF infos
<1>9. expanded' = TotalSize(infos, Taken')
  BY <1>2, <1>3, <1>4, <1>7, <1>8, Totals
<1>10. ui_files' = Cardinality(UiTaken')
  <2>1. ui_files' = IF IsUi(info.name) THEN ui_files + 1 ELSE ui_files
    BY DEF TakeEntry, infos
  <2> QED
    BY <1>6, <1>7, <1>8, <2>1, FS_AddElement
<1>11. ui_bytes' = TotalSize(infos, UiTaken')
  <2>1. ui_bytes' = IF IsUi(info.name) THEN ui_bytes + info.size ELSE ui_bytes
    BY DEF TakeEntry, infos
  <2> QED
    BY <1>2, <1>6, <1>7, <1>8, <2>1, Totals
<1>12. /\ expanded' <= MAX_EXPANDED_BYTES
       /\ ui_files' <= MAX_UI_FILES /\ ui_bytes' <= MAX_UI_BYTES
  BY <1>1, LimitsAssumption DEF TypeOK
<1> QED
  BY <1>3, <1>9, <1>10, <1>11, <1>12 DEF ScanBounds, Taken, UiTaken, infos

LEMMA OtherKeepBounds ==
    ASSUME ScanBounds, [Next]_vars, ~TakeEntry
    PROVE  ScanBounds'
<1>1. UNCHANGED <<archive, i, entries, normalized, expanded, ui_files, ui_bytes>>
  BY DEF Next, Open, RefuseEntry, ReadRaises, CheckEntries, Decide, vars
<1> QED
  BY <1>1 DEF ScanBounds

\* At every point of the scan the counters are the totals of the entries
\* taken, for directories of any length and entries of any size.
THEOREM CountersAreTotals == Spec => []ScanBounds
<1>1. ScanInv /\ ScanBounds /\ [Next]_vars => ScanBounds'
  BY TakeKeepsBounds, OtherKeepBounds
<1> QED
  BY <1>1, InvInit, InvStep, ScanBoundsInit, PTL DEF Spec

-----------------------------------------------------------------------------
(* One entry: what the checks of a turn let through is what a directory may *)
(* hold.                                                                    *)

\* A name without components to skip is its own canonical form ...
LEMMA AllPartsCount ==
    ASSUME NEW name \in Names, Parts(name) = DOMAIN name
    PROVE  Canonical(name) = FoldName(name)
<1> DEFINE n == Len(name)
<1>1. n \in Nat /\ DOMAIN name = 1..n
  BY DEF Names
<1>2. \A k \in 1..n : Parts(name) \cap 1..k = 1..k /\ Cardinality(1..k) = k
  BY <1>1, CountUpTo
<1>3. \A k \in 1..n : Cardinality(Parts(name) \cap 1..k) = k
  <2> HIDE DEF n
  <2> QED
    BY <1>2
<1>4. Cardinality(Parts(name)) = n
  <2>1. Parts(name) = 1..n
    BY <1>1
  <2> HIDE DEF n
  <2> QED
    BY <1>1, <2>1, CountUpTo
<1> HIDE DEF n
<1>5. \A j \in 1..n : (CHOOSE k \in Parts(name) : Cardinality(Parts(name) \cap 1..k) = j) = j
  BY <1>1, <1>3
<1>6. Canonical(name) = [j \in 1..n |->
         Fold[name[CHOOSE k \in Parts(name) : Cardinality(Parts(name) \cap 1..k) = j]]]
  BY <1>4 DEF Canonical
<1>7. Canonical(name) = [j \in 1..n |-> Fold[name[j]]]
  BY <1>5, <1>6
<1> QED
  BY <1>1, <1>7 DEF FoldName

\* ... and no other name is.
LEMMA OnlyPartsCount ==
    ASSUME NEW name \in Names, Canonical(name) = FoldName(name)
    PROVE  Parts(name) = DOMAIN name
<1> DEFINE n == Len(name)
           p == Cardinality(Parts(name))
<1>1. n \in Nat /\ DOMAIN name = 1..n /\ n > 0
  BY DEF Names
<1>2. IsFiniteSet(1..n) /\ Cardinality(1..n) = n
  BY <1>1, CountUpTo
<1>3. Parts(name) \subseteq 1..n
  BY <1>1 DEF Parts
<1>4. p \in Nat
  BY <1>2, <1>3, FS_Subset, FS_CardinalityType
<1>5. 1..p = 1..n
  <2>1. DOMAIN Canonical(name) = 1..p /\ DOMAIN FoldName(name) = 1..n
    BY <1>1 DEF Canonical, FoldName
  <2> QED
    BY <2>1
<1> HIDE DEF p, n
<1>6. p = n
  BY <1>1, <1>4, <1>5
<1> QED
  BY <1>1, <1>2, <1>3, <1>6, FS_Subset DEF p

LEMMA RatioCheck ==
    ASSUME NEW size \in Nat, NEW csize \in Nat, size > 0, csize > 0,
           NEW ratio \in Nat
    PROVE  (size - 1) \div csize >= ratio <=> ~(size <= ratio * csize)
<1>1. ASSUME (size - 1) \div csize >= ratio PROVE size > ratio * csize
  BY <1>1
<1>2. ASSUME ~((size - 1) \div csize >= ratio) PROVE size <= ratio * csize
  BY <1>2
<1> QED
  BY <1>1, <1>2

LEMMA InfoFields ==
    ASSUME NEW info \in Infos
    PROVE  /\ info.name \in Names /\ info.size \in Nat /\ info.csize \in Nat
           /\ Len(info.name) \in Nat /\ Len(info.name) > 0
           /\ DOMAIN info.name = 1..Len(info.name)
BY DEF Infos, Names

\* The declared sizes of an entry and its compression ratio.
LEMMA SizesChecked ==
    ASSUME NEW info \in Infos, NEW room \in Int
    PROVE  ~(\/ info.size > room
             \/ info.size > 0 /\ info.csize = 0
             \/ /\ info.size > RATIO_FLOOR /\ info.csize > 0
                /\ (info.size - 1) \div info.csize >= MAX_COMPRESSION_RATIO)
           <=> /\ info.size <= room
               /\ info.size > 0 => info.csize > 0
               /\ info.size > RATIO_FLOOR => info.size <= MAX_COMPRESSION_RATIO * info.csize
<1>1. info.size \in Nat /\ info.csize \in Nat
  BY InfoFields
<1>2. RATIO_FLOOR \in Nat \ {0} /\ MAX_COMPRESSION_RATIO \in Nat
  BY LimitsAssumption
<1>3. info.size > 0 /\ info.csize > 0 =>
        ((info.size - 1) \div info.csize >= MAX_COMPRESSION_RATIO
            <=> ~(info.size <= MAX_COMPRESSION_RATIO * info.csize))
  BY <1>1, <1>2, RatioCheck
<1> QED
  BY <1>1, <1>2, <1>3

LEMMA NamesChecked ==
    ASSUME NEW name \in Names
    PROVE  /\ ~UnsafeName(name)
           /\ IsUi(name) => Canonical(name) = FoldName(name)
           /\ AllowedEntry(name)
           <=> WellNamed(name)
<1>1. Len(name) \in Nat /\ Len(name) > 0 /\ DOMAIN name = 1..Len(name)
      /\ \A k \in DOMAIN name : name[k] \in Components
  BY DEF Names
<1>2. ASSUME ~UnsafeName(name), IsUi(name) => Canonical(name) = FoldName(name),
             AllowedEntry(name)
      PROVE  WellNamed(name)
  <2>1. CASE name \in Fixed
    BY <2>1 DEF WellNamed
  <2>2. CASE IsUi(name)
    <3>1. Parts(name) = DOMAIN name
      BY <1>2, <2>2, OnlyPartsCount
    <3>2. \A k \in DOMAIN name : name[k] \notin {"", ".", ".."} \cup BadComponents
      BY <1>2, <3>1 DEF UnsafeName, Parts
    <3>3. \A k \in 2..Len(name) : k \in DOMAIN name
      BY <1>1
    <3> QED
      BY <2>2, <3>2, <3>3 DEF WellNamed, IsUi
  <2> QED
    BY <1>2, <2>1, <2>2 DEF AllowedEntry
<1>3. ASSUME WellNamed(name)
      PROVE  /\ ~UnsafeName(name) /\ AllowedEntry(name)
             /\ Canonical(name) = FoldName(name)
  <2>1. name \in Fixed \/ IsUi(name)
    BY <1>3 DEF WellNamed, IsUi
  <2>2. ASSUME NEW k \in DOMAIN name
        PROVE  name[k] \notin {"", ".", ".."} \cup BadComponents
    <3>1. CASE name \in Fixed
      <4>1. name[k] \in FixedNames
        BY <3>1 DEF Fixed
      <4> QED
        BY <4>1, NamingAssumption DEF FixedNames
    <3>2. CASE name \notin Fixed
      <4>1. k = 1 \/ k \in 2..Len(name)
        BY <1>1
      <4>2. name[1] = "ui"
        BY <1>3, <3>2 DEF WellNamed
      <4> QED
        BY <1>3, <3>2, <4>1, <4>2, NamingAssumption DEF WellNamed
    <3> QED
      BY <3>1, <3>2
  <2>3. name[1] \notin {""} \cup Drives
    <3>1. name[1] \in FixedNames \cup {"ui"}
      BY <2>1 DEF Fixed, IsUi
    <3> QED
      BY <3>1, NamingAssumption DEF FixedNames
  <2>4. Parts(name) = DOMAIN name
    BY <2>2 DEF Parts
  <2>5. Canonical(name) = FoldName(name)
    BY <2>4, AllPartsCount
  <2>6. Canonical(name) # <<>>
    <3>1. 1 \in DOMAIN Canonical(name)
      BY <1>1, <2>5 DEF FoldName
    <3> QED
      BY <3>1
  <2>7. name[Len(name)] # ""
    <3>1. Len(name) \in DOMAIN name
      BY <1>1
    <3> QED
      BY <2>2, <3>1
  <2> QED
    BY <2>1, <2>2, <2>3, <2>5, <2>6, <2>7 DEF UnsafeName, AllowedEntry
<1> QED
  BY <1>2, <1>3

LEMMA OwnCanonical ==
    ASSUME NEW name \in Names, WellNamed(name)
    PROVE  Canonical(name) = FoldName(name)
<1>1. \A k \in DOMAIN name : name[k] \notin {"", "."}
  <2>1. Len(name) \in Nat /\ DOMAIN name = 1..Len(name)
    BY DEF Names
  <2>2. CASE name \in Fixed
    <3>1. \A k \in DOMAIN name : name[k] \in FixedNames
      BY <2>2 DEF Fixed
    <3> QED
      BY <3>1 DEF FixedNames
  <2>3. CASE name \notin Fixed
    <3>1. \A k \in DOMAIN name : k = 1 \/ k \in 2..Len(name)
      BY <2>1
    <3> QED
      BY <2>3, <3>1 DEF WellNamed
  <2> QED
    BY <2>2, <2>3
<1>2. Parts(name) = DOMAIN name
  BY <1>1 DEF Parts
<1> QED
  BY <1>2, AllPartsCount

\* What is taken is good, whatever else the directory holds.
LEMMA TakenIsGood ==
    ASSUME NEW info \in Infos, ~Refused(info), info.read = "whole", expanded \in Int
    PROVE  /\ AcceptableEntry(info)
           /\ IsUi(info.name) => info.size <= MAX_UI_FILE_BYTES
<1>1. info.name \in Names /\ info.size \in Nat
  BY InfoFields
<1>2. WellNamed(info.name)
  BY <1>1, NamesChecked DEF Refused
<1>3. MAX_EXPANDED_BYTES - expanded \in Int /\ ~OverSizeLimits(info)
  BY LimitsAssumption DEF Refused
<1>4. /\ info.size > 0 => info.csize > 0
      /\ info.size > RATIO_FLOOR => info.size <= MAX_COMPRESSION_RATIO * info.csize
  BY <1>3, SizesChecked DEF OverSizeLimits
<1>5. IsUi(info.name) => info.size <= MAX_UI_FILE_BYTES
  BY <1>1, LimitsAssumption DEF Refused, OverUiLimits
<1> QED
  BY <1>2, <1>4, <1>5 DEF Refused, AcceptableEntry

\* An entry of an acceptable archive is taken, whatever was taken before it.
LEMMA GoodIsTaken ==
    ASSUME ScanInv, TakenInv, ScanBounds, Scanning, Acceptable(archive)
    PROVE  ~Refused(archive.infos[i]) /\ archive.infos[i].read = "whole"
<1> DEFINE infos == archive.infos
           info == infos[i]
           n == info.name
<1>1. TypeOK /\ infos \in Seq(Infos) /\ i \in DOMAIN infos /\ i \in Nat
  BY TakenTypes DEF ScanInv
<1>2. info \in Infos /\ n \in Names /\ info.size \in Nat
  BY <1>1, InfoTypes, InfoFields
<1>3. AcceptableEntry(info)
  BY <1>1 DEF Acceptable
<1>4. /\ ~UnsafeName(n) /\ (IsUi(n) => Canonical(n) = FoldName(n)) /\ AllowedEntry(n)
  BY <1>2, <1>3, NamesChecked DEF AcceptableEntry
<1>5. \A k \in Taken : k \in DOMAIN infos /\ infos[k] \in Infos /\ infos[k].name \in Names
  BY <1>1, TakenTypes, InfoTypes, InfoFields
<1>6. ASSUME NEW k \in Taken PROVE FoldName(infos[k].name) # FoldName(n)
  <2>1. k # i /\ k \in DOMAIN infos
    BY <1>1, <1>5, TakenTypes
  <2> QED
    BY <1>1, <2>1 DEF Acceptable
<1>7. ASSUME NEW k \in Taken PROVE Canonical(infos[k].name) # Canonical(n)
  <2>1. Canonical(infos[k].name) = FoldName(infos[k].name)
    BY <1>5, OwnCanonical DEF TakenInv, AcceptableEntry
  <2>2. Canonical(n) = FoldName(n)
    BY <1>2, <1>3, OwnCanonical DEF AcceptableEntry
  <2> QED
    BY <1>6, <2>1, <2>2
<1>8. Canonical(n) \notin normalized /\ n \notin DOMAIN entries
  <2>1. \A m \in DOMAIN entries : \E k \in Taken : m = infos[k].name
    BY DEF TakenInv
  <2>2. normalized = {Canonical(m) : m \in DOMAIN entries}
    BY <1>1 DEF TypeOK
  <2> QED
    BY <1>6, <1>7, <2>1, <2>2
<1>9. ~OverUiLimits(info)
  <2> SUFFICES ASSUME IsUi(n)
               PROVE  /\ ui_files + 1 <= MAX_UI_FILES
                      /\ info.size <= MAX_UI_FILE_BYTES
                      /\ ui_bytes + info.size <= MAX_UI_BYTES
    <3>1. /\ ui_files \in Int /\ ui_bytes \in Int /\ MAX_UI_FILES \in Int /\ MAX_UI_BYTES \in Int
          /\ MAX_UI_FILE_BYTES \in Int /\ info.size \in Int
      BY <1>1, <1>2, LimitsAssumption, SMTT(30) DEF TypeOK
    <3> HIDE DEF info
    <3> QED
      BY <3>1 DEF OverUiLimits, n
  <2> DEFINE ui == UiIndices(infos)
  <2>1. ui \in SUBSET DOMAIN infos /\ i \in ui
    BY <1>1, <1>4, UiNamesBegin DEF UiIndices
  <2>2. UiTaken \cup {i} \in SUBSET ui /\ i \notin UiTaken /\ UiTaken \in SUBSET DOMAIN infos
    BY <1>1, <2>1, TakenTypes DEF UiTaken
  <2>3. IsFiniteSet(ui) /\ IsFiniteSet(UiTaken) /\ IsFiniteSet(DOMAIN infos)
    BY <1>1, <2>1, TakenTypes, InfoTypes, FS_Subset
  <2>4. ui_files + 1 <= MAX_UI_FILES
    <3>1. ui_files = Cardinality(UiTaken)
      BY DEF ScanBounds, UiTaken, Taken
    <3>2. Cardinality(UiTaken \cup {i}) = Cardinality(UiTaken) + 1
      BY <2>2, <2>3, FS_AddElement
    <3>3. Cardinality(UiTaken \cup {i}) <= Cardinality(ui)
      BY <2>2, <2>3, FS_Subset
    <3>4. Cardinality(ui) <= MAX_UI_FILES
      BY DEF Acceptable
    <3>5. Cardinality(UiTaken) \in Nat /\ Cardinality(ui) \in Nat /\ MAX_UI_FILES \in Nat
      BY <2>3, FS_CardinalityType, LimitsAssumption
    <3> HIDE DEF ui
    <3> QED
      BY <3>1, <3>2, <3>3, <3>4, <3>5
  <2>5. ui_bytes + info.size <= MAX_UI_BYTES
    <3>1. ui_bytes = TotalSize(infos, UiTaken)
      BY DEF ScanBounds, UiTaken, Taken
    <3>2. TotalSize(infos, UiTaken \cup {i}) = TotalSize(infos, UiTaken) + info.size
      BY <1>1, <2>2, Totals
    <3>3. TotalSize(infos, UiTaken \cup {i}) <= TotalSize(infos, ui)
      BY <1>1, <2>1, <2>2, Totals
    <3>4. TotalSize(infos, ui) <= MAX_UI_BYTES
      BY DEF Acceptable
    <3>5. TotalSize(infos, UiTaken) \in Nat /\ TotalSize(infos, ui) \in Nat /\ MAX_UI_BYTES \in Nat
      BY <1>1, <2>1, <2>2, Totals, LimitsAssumption
    <3> HIDE DEF ui, info
    <3> QED
      BY <1>2, <3>1, <3>2, <3>3, <3>4, <3>5
  <2>6. info.size <= MAX_UI_FILE_BYTES
    BY <1>1 DEF Acceptable, SizesFit
  <2> QED
    BY <2>4, <2>5, <2>6
<1>10. ~OverSizeLimits(info)
  <2>1. expanded = TotalSize(infos, Taken)
    BY DEF ScanBounds, Taken
  <2>2. Taken \in SUBSET DOMAIN infos /\ i \notin Taken /\ Taken \cup {i} \in SUBSET DOMAIN infos
    BY <1>1, TakenTypes
  <2>3. TotalSize(infos, Taken \cup {i}) = TotalSize(infos, Taken) + info.size
    BY <1>1, <2>2, Totals
  <2>4. TotalSize(infos, Taken \cup {i}) <= TotalSize(infos, DOMAIN infos)
    BY <1>1, <2>2, Totals
  <2>5. TotalSize(infos, DOMAIN infos) <= MAX_EXPANDED_BYTES
    BY DEF Acceptable
  <2>6. /\ TotalSize(infos, Taken) \in Nat /\ TotalSize(infos, DOMAIN infos) \in Nat
        /\ MAX_EXPANDED_BYTES \in Nat
    BY <1>1, <2>2, Totals, LimitsAssumption
  <2>7. info.size <= MAX_EXPANDED_BYTES - expanded /\ MAX_EXPANDED_BYTES - expanded \in Int
    <3> HIDE DEF info, infos
    <3> QED
      BY <1>2, <2>1, <2>3, <2>4, <2>5, <2>6
  <2> QED
    BY <1>2, <1>3, <2>7, SizesChecked DEF AcceptableEntry, OverSizeLimits
<1> QED
  BY <1>3, <1>4, <1>8, <1>9, <1>10 DEF Refused, AcceptableEntry

-----------------------------------------------------------------------------
(* The checks across entries, on a directory all of which was taken.        *)

Passes ==
    LET m == EntryData("manifest.json")
    IN  /\ <<"manifest.json">> \in DOMAIN entries
        /\ ~WrongManifestSize
        /\ m \in Manifests /\ m.valid
        /\ ~WrongPayload(m) /\ ~WrongSignature /\ ~WrongUi(m)

AllTaken == ScanInv /\ TakenInv /\ ScanBounds /\ verdict = "scanning" /\ i > Len(archive.infos)

LEMMA AllAreTaken ==
    ASSUME AllTaken
    PROVE  /\ archive.infos \in Seq(Infos) /\ TypeOK
           /\ DOMAIN archive.infos = Taken /\ UiIndices(archive.infos) = UiTaken
           /\ \A k \in DOMAIN archive.infos :
                 /\ archive.infos[k].name \in Names
                 /\ archive.infos[k].data \in FileData \cup Signatures
                 /\ archive.infos[k].name \in Fixed \/ IsUi(archive.infos[k].name)
<1>1. TypeOK /\ archive.infos \in Seq(Infos) /\ i \in 1..(Len(archive.infos) + 1)
  BY TakenTypes DEF AllTaken, ScanInv, TypeOK
<1>2. Len(archive.infos) \in Nat /\ DOMAIN archive.infos = 1..Len(archive.infos)
  BY <1>1
<1>3. i = Len(archive.infos) + 1
  BY <1>1, <1>2 DEF AllTaken
<1>4. DOMAIN archive.infos = Taken
  BY <1>2, <1>3 DEF Taken
<1>5. UiIndices(archive.infos) = UiTaken
  BY <1>4 DEF UiTaken, UiIndices
<1>6. \A k \in DOMAIN archive.infos :
         /\ archive.infos[k].name \in Names
         /\ archive.infos[k].data \in FileData \cup Signatures
  BY <1>1, InfoTypes DEF Infos
<1>7. \A k \in DOMAIN archive.infos :
         archive.infos[k].name \in Fixed \/ IsUi(archive.infos[k].name)
  BY <1>4 DEF AllTaken, TakenInv, AcceptableEntry, WellNamed, IsUi
<1> QED
  BY <1>1, <1>4, <1>5, <1>6, <1>7

\* What the scan has checked of the directory as a whole.
LEMMA ScanIsAcceptable ==
    ASSUME AllTaken
    PROVE  /\ archive.readable /\ Len(archive.infos) \in 1..MAX_PACKAGE_ENTRIES
           /\ \A k \in DOMAIN archive.infos :
                 /\ AcceptableEntry(archive.infos[k])
                 /\ IsUi(archive.infos[k].name) => archive.infos[k].size <= MAX_UI_FILE_BYTES
           /\ \A j, k \in DOMAIN archive.infos :
                 FoldName(archive.infos[j].name) = FoldName(archive.infos[k].name) => j = k
           /\ TotalSize(archive.infos, DOMAIN archive.infos) <= MAX_EXPANDED_BYTES
           /\ Cardinality(UiIndices(archive.infos)) <= MAX_UI_FILES
           /\ TotalSize(archive.infos, UiIndices(archive.infos)) <= MAX_UI_BYTES
<1>1. DOMAIN archive.infos = Taken /\ UiIndices(archive.infos) = UiTaken
  BY AllAreTaken
<1>2. \A j, k \in Taken :
         FoldName(archive.infos[j].name) = FoldName(archive.infos[k].name) => j = k
  <2> SUFFICES ASSUME NEW j \in Taken, NEW k \in Taken,
                      FoldName(archive.infos[j].name) = FoldName(archive.infos[k].name)
               PROVE  j = k
    OBVIOUS
  <2>1. archive.infos[j].name \in DOMAIN entries /\ archive.infos[k].name \in DOMAIN entries
    BY DEF AllTaken, TakenInv
  <2>2. archive.infos[j].name = archive.infos[k].name
    BY <2>1, FoldTellsApart DEF AllTaken
  <2> QED
    BY <2>2 DEF AllTaken, TakenInv
<1>3. /\ TotalSize(archive.infos, Taken) <= MAX_EXPANDED_BYTES
      /\ Cardinality(UiTaken) <= MAX_UI_FILES
      /\ TotalSize(archive.infos, UiTaken) <= MAX_UI_BYTES
  BY DEF AllTaken, ScanBounds, UiTaken, Taken
<1> QED
  BY <1>1, <1>2, <1>3 DEF AllTaken, TakenInv

\* The dict of entries and the archive as CemodFormat sees it.
LEMMA ContentsAreEntries ==
    ASSUME AllTaken
    PROVE  /\ \A n \in EntryNames :
                 /\ PathOf[n] \in DOMAIN entries =>
                       /\ Contents(archive.infos)[n] = entries[PathOf[n]].data
                       /\ Contents(archive.infos)[n] # Absent
                 /\ PathOf[n] \notin DOMAIN entries => Contents(archive.infos)[n] = Absent
           /\ \A n \in FixedNames : n \in EntryNames /\ PathOf[n] = <<n>>
           /\ Present(Contents(archive.infos)) = {n \in EntryNames : PathOf[n] \in DOMAIN entries}
<1> DEFINE infos == archive.infos
<1>1. DOMAIN infos = Taken
  BY AllAreTaken
<1>2. DOMAIN entries = {infos[k].name : k \in DOMAIN infos}
  BY <1>1 DEF AllTaken, TakenInv
<1>3. \A k \in DOMAIN infos : entries[infos[k].name] = infos[k] /\ infos[k].data # Absent
  BY <1>1, AllAreTaken, AbsentAssumption DEF AllTaken, TakenInv
<1> HIDE DEF infos
<1>4. ASSUME NEW n \in EntryNames, PathOf[n] \in DOMAIN entries
      PROVE  Contents(infos)[n] = entries[PathOf[n]].data /\ Contents(infos)[n] # Absent
  <2> DEFINE k == CHOOSE l \in DOMAIN infos : infos[l].name = PathOf[n]
  <2>1. \E l \in DOMAIN infos : infos[l].name = PathOf[n]
    BY <1>2, <1>4
  <2>2. k \in DOMAIN infos /\ infos[k].name = PathOf[n]
    BY <2>1
  <2>3. Contents(infos)[n] = infos[k].data
    BY <2>1 DEF Contents
  <2> HIDE DEF k
  <2> QED
    BY <1>3, <2>2, <2>3
<1>5. ASSUME NEW n \in EntryNames, PathOf[n] \notin DOMAIN entries
      PROVE  Contents(infos)[n] = Absent
  BY <1>2, <1>5 DEF Contents
<1>6. \A n \in FixedNames : n \in EntryNames /\ PathOf[n] = <<n>>
  BY SpellingAssumption DEF EntryNames
<1>7. Present(Contents(infos)) = {n \in EntryNames : PathOf[n] \in DOMAIN entries}
  BY <1>4, <1>5 DEF Present
<1> QED
  BY <1>4, <1>5, <1>6, <1>7 DEF infos

\* Entries below ui/ are the names of UiNames, and the fixed names the others.
LEMMA UiEntriesAreUiNames ==
    ASSUME AllTaken
    PROVE  /\ \A n \in UiNames : PathOf[n] \in DOMAIN entries => PathOf[n] \in UiEntries
           /\ \A name \in UiEntries : \E n \in UiNames : PathOf[n] = name
<1>1. DOMAIN entries = {archive.infos[k].name : k \in DOMAIN archive.infos}
  BY AllAreTaken DEF AllTaken, TakenInv
<1>2. ASSUME NEW n \in UiNames, PathOf[n] \in DOMAIN entries
      PROVE  PathOf[n] \in UiEntries
  <2>1. PathOf[n] \in Fixed \/ IsUi(PathOf[n])
    BY <1>1, <1>2, AllAreTaken
  <2>2. ASSUME PathOf[n] \in Fixed PROVE FALSE
    <3>1. PICK f \in FixedNames : PathOf[n] = <<f>>
      BY <2>2 DEF Fixed
    <3>2. f = n
      BY <3>1, SpellingAssumption DEF EntryNames
    <3> QED
      BY <3>2, NamesAssumption
  <2> QED
    BY <1>2, <2>1, <2>2 DEF UiEntries
<1>3. ASSUME NEW name \in UiEntries
      PROVE  \E n \in UiNames : PathOf[n] = name
  <2>1. PICK k \in DOMAIN archive.infos : archive.infos[k].name = name
    BY <1>1 DEF UiEntries
  <2>2. archive \in Archives /\ WellNamed(name)
    BY <2>1, AllAreTaken DEF AllTaken, TakenInv, AcceptableEntry
  <2>3. PICK n \in EntryNames : PathOf[n] = name
    BY <2>1, <2>2, SpellingAssumption
  <2>4. n \notin FixedNames
    <3>1. IsUi(name)
      BY DEF UiEntries
    <3>2. ASSUME n \in FixedNames PROVE FALSE
      <4>1. name = <<n>>
        BY <2>3, <3>2, SpellingAssumption
      <4>2. Len(<<n>>) = 1
        OBVIOUS
      <4> QED
        BY <3>1, <4>1, <4>2 DEF IsUi
    <3> QED
      BY <3>2
  <2> QED
    BY <2>3, <2>4 DEF EntryNames
<1> QED
  BY <1>2, <1>3

\* The limits on sizes and the kinds of the fixed entries, of the dict and of
\* the directory.
LEMMA SizesAreEntrySizes ==
    ASSUME AllTaken
    PROVE  SizesFit(archive.infos) <=>
              /\ <<"manifest.json">> \in DOMAIN entries =>
                    entries[<<"manifest.json">>].size <= MAX_MANIFEST_BYTES
              /\ \A n \in {<<"mod.elf">>, <<"plugin.wps">>} : n \in DOMAIN entries =>
                    entries[n].size \in 1..MAX_PAYLOAD_BYTES
              /\ <<"public_key.ed25519">> \in DOMAIN entries =>
                    entries[<<"public_key.ed25519">>].data \in Keys
              /\ <<"signature.ed25519">> \in DOMAIN entries =>
                    entries[<<"signature.ed25519">>].data \in Signatures
<1> DEFINE infos == archive.infos
<1>1. DOMAIN entries = {infos[k].name : k \in DOMAIN infos}
  BY AllAreTaken DEF AllTaken, TakenInv
<1>2. \A k \in DOMAIN infos :
         /\ entries[infos[k].name] = infos[k]
         /\ IsUi(infos[k].name) => infos[k].size <= MAX_UI_FILE_BYTES
  BY AllAreTaken DEF AllTaken, TakenInv
<1> HIDE DEF infos
<1>3. \A name \in DOMAIN entries : \E k \in DOMAIN infos : infos[k].name = name /\ entries[name] = infos[k]
  BY <1>1, <1>2
<1>4. \A k \in DOMAIN infos : infos[k].name \in DOMAIN entries
  BY <1>1
<1>5. SizesFit(infos) <=>
        \A name \in DOMAIN entries :
            /\ name = <<"manifest.json">> => entries[name].size <= MAX_MANIFEST_BYTES
            /\ name \in {<<"mod.elf">>, <<"plugin.wps">>} =>
                  entries[name].size \in 1..MAX_PAYLOAD_BYTES
            /\ name = <<"public_key.ed25519">> => entries[name].data \in Keys
            /\ name = <<"signature.ed25519">> => entries[name].data \in Signatures
  <2>1. ASSUME SizesFit(infos), NEW name \in DOMAIN entries
        PROVE  /\ name = <<"manifest.json">> => entries[name].size <= MAX_MANIFEST_BYTES
               /\ name \in {<<"mod.elf">>, <<"plugin.wps">>} =>
                     entries[name].size \in 1..MAX_PAYLOAD_BYTES
               /\ name = <<"public_key.ed25519">> => entries[name].data \in Keys
               /\ name = <<"signature.ed25519">> => entries[name].data \in Signatures
    <3>1. PICK k \in DOMAIN infos : infos[k].name = name /\ entries[name] = infos[k]
      BY <1>3
    <3> QED
      BY <2>1, <3>1 DEF SizesFit
  <2>2. ASSUME \A name \in DOMAIN entries :
                  /\ name = <<"manifest.json">> => entries[name].size <= MAX_MANIFEST_BYTES
                  /\ name \in {<<"mod.elf">>, <<"plugin.wps">>} =>
                        entries[name].size \in 1..MAX_PAYLOAD_BYTES
                  /\ name = <<"public_key.ed25519">> => entries[name].data \in Keys
                  /\ name = <<"signature.ed25519">> => entries[name].data \in Signatures,
               NEW k \in DOMAIN infos
        PROVE  /\ infos[k].name = <<"manifest.json">> => infos[k].size <= MAX_MANIFEST_BYTES
               /\ infos[k].name \in {<<"mod.elf">>, <<"plugin.wps">>} =>
                     infos[k].size \in 1..MAX_PAYLOAD_BYTES
               /\ infos[k].name = <<"public_key.ed25519">> => infos[k].data \in Keys
               /\ infos[k].name = <<"signature.ed25519">> => infos[k].data \in Signatures
               /\ IsUi(infos[k].name) => infos[k].size <= MAX_UI_FILE_BYTES
    <3>1. infos[k].name \in DOMAIN entries /\ entries[infos[k].name] = infos[k]
      BY <1>2, <1>4
    <3> QED
      BY <1>2, <2>2, <3>1
  <2> QED
    BY <2>1, <2>2 DEF SizesFit
<1> QED
  BY <1>5 DEF infos

\* The checks across entries accept the directories that fit and are well
\* formed, and no others.
LEMMA ChecksDecide ==
    ASSUME AllTaken
    PROVE  Passes <=> SizesFit(archive.infos) /\ WellFormed(Contents(archive.infos))
<1> DEFINE e == Contents(archive.infos)
           m == EntryData("manifest.json")
           mf == "manifest.json"
           pk == "public_key.ed25519"
           sg == "signature.ed25519"
<1>0. /\ \A n \in EntryNames :
            /\ PathOf[n] \in DOMAIN entries => e[n] = entries[PathOf[n]].data /\ e[n] # Absent
            /\ PathOf[n] \notin DOMAIN entries => e[n] = Absent
      /\ \A n \in FixedNames : n \in EntryNames /\ PathOf[n] = <<n>>
      /\ Present(e) = {n \in EntryNames : PathOf[n] \in DOMAIN entries}
  BY ContentsAreEntries
<1> HIDE DEF e
<1>1. \A n \in FixedNames :
         /\ n \in Present(e) <=> <<n>> \in DOMAIN entries
         /\ <<n>> \in DOMAIN entries => e[n] = entries[<<n>>].data
         /\ <<n>> \notin DOMAIN entries => e[n] = Absent
  BY <1>0
<1>2. ManifestAccepted(e) <=> <<mf>> \in DOMAIN entries /\ m \in Manifests /\ m.valid
  <2>1. Absent \notin Manifests
    BY AbsentAssumption DEF FileData
  <2>2. mf \in FixedNames
    BY DEF FixedNames
  <2> QED
    BY <1>1, <2>1, <2>2 DEF ManifestAccepted, EntryData
<1> SUFFICES ASSUME <<mf>> \in DOMAIN entries, m \in Manifests, m.valid
             PROVE  Passes <=> SizesFit(archive.infos) /\ WellFormed(e)
  BY <1>2 DEF Passes, WellFormed, e
<1>3. e[mf] = m
  BY <1>1 DEF EntryData, FixedNames
<1>4. m.format \in PayloadFormats /\ m.views \in SUBSET UiNames
  BY ContentsAssumption DEF ManifestRecords
<1>5. PayloadPath[m.format] \in {"mod.elf", "plugin.wps"}
  BY <1>4 DEF PayloadFormats, PayloadPath
<1> DEFINE p == PayloadPath[m.format]
<1>6. PayloadName(m) = <<p>> /\ p \in FixedNames
  BY <1>5 DEF PayloadName, FixedNames
<1>7. /\ {name \in DOMAIN entries : name \in {<<"mod.elf">>, <<"plugin.wps">>}} = {<<p>>}
      <=> Present(e) \cap {"mod.elf", "plugin.wps"} = {p}
  <2>1. /\ "mod.elf" \in Present(e) <=> <<"mod.elf">> \in DOMAIN entries
        /\ "plugin.wps" \in Present(e) <=> <<"plugin.wps">> \in DOMAIN entries
    BY <1>1 DEF FixedNames
  <2>2. <<"mod.elf">> # <<"plugin.wps">>
    OBVIOUS
  <2> HIDE DEF p
  <2>3. p = "mod.elf" \/ p = "plugin.wps"
    BY <1>5 DEF p
  <2> QED
    BY <2>1, <2>2, <2>3
<1> HIDE DEF m
<1>8. ~WrongPayload(m) <=> PayloadAccepted(e) /\ entries[<<p>>].size \in 1..MAX_PAYLOAD_BYTES
  <2>1. ASSUME Present(e) \cap {"mod.elf", "plugin.wps"} = {p}
        PROVE  e[p] = entries[<<p>>].data
    BY <1>1, <1>6, <2>1
  <2> HIDE DEF p
  <2>2. PayloadAccepted(e) <=>
          /\ Present(e) \cap {"mod.elf", "plugin.wps"} = {p}
          /\ e[p] \in Payloads /\ m.format \in e[p].validAs
    BY <1>3 DEF PayloadAccepted, p
  <2>3. WrongPayload(m) <=>
          \/ {name \in DOMAIN entries : name \in {<<"mod.elf">>, <<"plugin.wps">>}} # {<<p>>}
          \/ entries[<<p>>].size \notin 1..MAX_PAYLOAD_BYTES
          \/ entries[<<p>>].data \notin Payloads
          \/ m.format \notin entries[<<p>>].data.validAs
    BY <1>6 DEF WrongPayload
  <2> QED
    BY <1>7, <2>1, <2>2, <2>3
<1>9. ~WrongSignature <=>
        /\ SignaturePaired(e)
        /\ <<pk>> \in DOMAIN entries => entries[<<pk>>].data \in Keys
        /\ <<sg>> \in DOMAIN entries => entries[<<sg>>].data \in Signatures
  <2>1. /\ pk \in Present(e) <=> <<pk>> \in DOMAIN entries
        /\ sg \in Present(e) <=> <<sg>> \in DOMAIN entries
    BY <1>1 DEF FixedNames
  <2> QED
    BY <2>1 DEF WrongSignature, SignaturePaired, EntryData
<1>10. ~WrongUi(m) <=> UiAccepted(e)
  <2>1. UiEntries # {} <=> Present(e) \cap UiNames # {}
    BY <1>0, UiEntriesAreUiNames DEF EntryNames, UiEntries
  <2>2. \A view \in m.views : PathOf[view] \in UiEntries <=> view \in Present(e)
    BY <1>0, <1>4, UiEntriesAreUiNames DEF EntryNames, UiEntries, m
  <2> QED
    BY <1>3, <2>1, <2>2 DEF WrongUi, UiAccepted
<1>11. SizesFit(archive.infos) <=>
         /\ entries[<<mf>>].size <= MAX_MANIFEST_BYTES
         /\ \A n \in {<<"mod.elf">>, <<"plugin.wps">>} : n \in DOMAIN entries =>
               entries[n].size \in 1..MAX_PAYLOAD_BYTES
         /\ <<pk>> \in DOMAIN entries => entries[<<pk>>].data \in Keys
         /\ <<sg>> \in DOMAIN entries => entries[<<sg>>].data \in Signatures
  BY SizesAreEntrySizes
<1>12. PayloadAccepted(e) =>
         ((\A n \in {<<"mod.elf">>, <<"plugin.wps">>} : n \in DOMAIN entries =>
               entries[n].size \in 1..MAX_PAYLOAD_BYTES)
          <=> entries[<<p>>].size \in 1..MAX_PAYLOAD_BYTES)
  <2>1. PayloadAccepted(e) =>
          {name \in DOMAIN entries : name \in {<<"mod.elf">>, <<"plugin.wps">>}} = {<<p>>}
    BY <1>3, <1>7 DEF PayloadAccepted
  <2> HIDE DEF p
  <2> QED
    BY <2>1
<1>13. ~WrongManifestSize <=> entries[<<mf>>].size <= MAX_MANIFEST_BYTES
  <2>1. entries[<<mf>>].size \in Nat /\ MAX_MANIFEST_BYTES \in Nat
    BY AllAreTaken, LimitsAssumption DEF TypeOK, Infos
  <2> QED
    BY <2>1 DEF WrongManifestSize
<1>14. Passes <=> ~WrongManifestSize /\ ~WrongPayload(m) /\ ~WrongSignature /\ ~WrongUi(m)
  BY DEF Passes, m
<1>15. WellFormed(e) <=> PayloadAccepted(e) /\ UiAccepted(e) /\ SignaturePaired(e)
  BY <1>2 DEF WellFormed, m
<1> QED
  BY <1>8, <1>9, <1>10, <1>11, <1>12, <1>13, <1>14, <1>15

-----------------------------------------------------------------------------
(* The scan decides exactly.                                                *)

LEMMA ExactInit == Init => ExactInv
<1> SUFFICES ASSUME Init PROVE ExactInv
  OBVIOUS
<1>1. ScanInv /\ ScanBounds
  BY InvInit, ScanBoundsInit
<1>2. Taken = {} /\ DOMAIN entries = {}
  BY DEF Init, Taken
<1>3. TakenInv
  BY <1>2 DEF Init, TakenInv
<1>4. AcceptsExactly
  BY DEF Init, AcceptsExactly
<1> QED
  BY <1>1, <1>3, <1>4 DEF ExactInv

\* A decision leaves what was taken as it is.
LEMMA DecideKeepsTaken ==
    ASSUME TakenInv, UNCHANGED <<archive, i, entries>>,
           verdict' # "opening",
           verdict' = "scanning" =>
              archive.readable /\ Len(archive.infos) \in 1..MAX_PACKAGE_ENTRIES
    PROVE  TakenInv'
<1>1. Taken' = Taken
  BY DEF Taken
<1>2. /\ archive' \in Archives
      /\ DOMAIN entries' = {archive'.infos[k].name : k \in Taken'}
      /\ \A j, k \in Taken' : archive'.infos[j].name = archive'.infos[k].name => j = k
  BY <1>1 DEF TakenInv
<1>3. \A k \in Taken' :
         /\ entries'[archive'.infos[k].name] = archive'.infos[k]
         /\ AcceptableEntry(archive.infos[k])
         /\ IsUi(archive'.infos[k].name) => archive'.infos[k].size <= MAX_UI_FILE_BYTES
  BY <1>1 DEF TakenInv
<1> QED
  BY <1>2, <1>3 DEF TakenInv

LEMMA TakeKeepsTaken ==
    ASSUME ScanInv, TakenInv, TakeEntry
    PROVE  TakenInv'
<1> DEFINE infos == archive.infos
           info == infos[i]
<1>1. TypeOK /\ Scanning /\ ~Refused(info) /\ info.read = "whole"
  BY DEF ScanInv, TakeEntry
<1>2. infos \in Seq(Infos) /\ i \in DOMAIN infos /\ i \in Nat /\ info \in Infos
  BY <1>1, TakenTypes, ScannedInfo
<1>3. archive' = archive /\ i' = i + 1 /\ verdict' = verdict /\ verdict = "scanning"
      /\ entries' = [name \in DOMAIN entries \cup {info.name} |->
                        IF name = info.name THEN info ELSE entries[name]]
  BY DEF TakeEntry, Scanning
<1>4. Taken' = Taken \cup {i} /\ i \notin Taken
  <2>1. i \in 1..(Len(infos) + 1)
    BY <1>1 DEF TypeOK
  <2> QED
    BY <1>2, <1>3, <2>1 DEF Taken
<1>5. expanded \in Int
  BY <1>1, LimitsAssumption DEF TypeOK
<1>6. AcceptableEntry(info) /\ (IsUi(info.name) => info.size <= MAX_UI_FILE_BYTES)
  BY <1>1, <1>2, <1>5, TakenIsGood
<1>7. info.name \notin DOMAIN entries
  BY <1>1 DEF Refused
<1>8. DOMAIN entries = {infos[k].name : k \in Taken}
  BY DEF TakenInv
<1>9. \A k \in Taken : infos[k].name # info.name
  BY <1>7, <1>8
<1> HIDE DEF info
<1>10. DOMAIN entries' = {infos[k].name : k \in Taken'}
  BY <1>3, <1>4, <1>8 DEF info
<1>11. ASSUME NEW k \in Taken'
       PROVE  /\ entries'[infos[k].name] = infos[k]
              /\ AcceptableEntry(infos[k])
              /\ IsUi(infos[k].name) => infos[k].size <= MAX_UI_FILE_BYTES
  <2>1. CASE k = i
    BY <1>3, <1>6, <2>1 DEF info
  <2>2. CASE k # i
    <3>1. k \in Taken
      BY <1>4, <2>2
    <3>2. infos[k].name \in DOMAIN entries /\ infos[k].name # info.name
      BY <1>8, <1>9, <3>1
    <3> QED
      BY <1>3, <3>1, <3>2 DEF TakenInv
  <2> QED
    BY <2>1, <2>2
<1>12. \A j, k \in Taken' : infos[j].name = infos[k].name => j = k
  BY <1>4, <1>9 DEF TakenInv, info
<1>13. /\ archive' \in Archives
       /\ verdict' = "opening" => i' = 1
       /\ verdict' = "scanning" =>
             archive'.readable /\ Len(archive'.infos) \in 1..MAX_PACKAGE_ENTRIES
  BY <1>3 DEF TakenInv
<1> HIDE DEF infos
<1>14. /\ DOMAIN entries' = {archive'.infos[k].name : k \in Taken'}
       /\ \A k \in Taken' :
             /\ entries'[archive'.infos[k].name] = archive'.infos[k]
             /\ AcceptableEntry(archive'.infos[k])
             /\ IsUi(archive'.infos[k].name) => archive'.infos[k].size <= MAX_UI_FILE_BYTES
       /\ \A j, k \in Taken' : archive'.infos[j].name = archive'.infos[k].name => j = k
  <2>1. archive'.infos = infos
    BY <1>3 DEF infos
  <2> QED
    BY <2>1, <1>10, <1>11, <1>12
<1> QED
  BY <1>13, <1>14 DEF TakenInv

\* Files that are no archives, or hold no entry or too many, are turned away.
LEMMA OpenIsExact ==
    ASSUME ExactInv, Open
    PROVE  TakenInv' /\ AcceptsExactly'
<1>1. TakenInv /\ UNCHANGED <<archive, i, entries>>
  BY DEF ExactInv, Open, Decide
<1>2. verdict' = IF archive.readable /\ Len(archive.infos) \in 1..MAX_PACKAGE_ENTRIES
                 THEN "scanning" ELSE "rejected"
  BY DEF Open, Decide
<1>3. TakenInv'
  BY <1>1, <1>2, DecideKeepsTaken
<1>4. verdict' = "rejected" => ~Acceptable(archive)
  BY <1>2 DEF Acceptable
<1> QED
  BY <1>1, <1>2, <1>3, <1>4
     DEF AcceptsExactly, Acceptable, AcceptableEntry, WellNamed, IsUi, Fixed

\* An entry at which the scan stops is one no acceptable archive has there.
LEMMA StopIsExact ==
    ASSUME ExactInv, RefuseEntry \/ ReadRaises
    PROVE  TakenInv' /\ AcceptsExactly'
<1>1. /\ ScanInv /\ TakenInv /\ ScanBounds /\ Scanning
      /\ UNCHANGED <<archive, i, entries>>
      /\ verdict' \in {"rejected", "uncaught"}
  BY DEF ExactInv, RefuseEntry, ReadRaises, Decide
<1>2. Refused(archive.infos[i]) \/ archive.infos[i].read # "whole"
  BY DEF RefuseEntry, ReadRaises
<1>3. ~Acceptable(archive)
  BY <1>1, <1>2, GoodIsTaken
<1>4. TakenInv'
  BY <1>1, DecideKeepsTaken
<1> QED
  BY <1>1, <1>3, <1>4 DEF AcceptsExactly

\* At the end the checks across entries decide.
LEMMA CheckIsExact ==
    ASSUME ExactInv, CheckEntries
    PROVE  TakenInv' /\ AcceptsExactly'
<1> DEFINE m == EntryData("manifest.json")
<1>1. AllTaken /\ TakenInv /\ UNCHANGED <<archive, i, entries>>
  BY DEF ExactInv, AllTaken, CheckEntries, Decide
<1>2. verdict' =
         IF <<"manifest.json">> \notin DOMAIN entries THEN "rejected"
         ELSE IF WrongManifestSize THEN "rejected"
         ELSE IF m \in Escaping THEN "uncaught"
         ELSE IF \/ m \notin Manifests \/ ~m.valid
                 \/ WrongPayload(m) \/ WrongSignature \/ WrongUi(m)
         THEN "rejected" ELSE "accepted"
  BY DEF CheckEntries, Decide
<1>3. m \in Escaping => m \notin Manifests
  BY TextsAssumption
<1>4. verdict' = "accepted" <=> Passes
  <2> HIDE DEF m
  <2> QED
    BY <1>2, <1>3 DEF Passes, m
<1>5. Passes <=> Acceptable(archive)
  BY <1>1, ChecksDecide, ScanIsAcceptable DEF Acceptable
<1>6. verdict' \in {"accepted", "rejected", "uncaught"}
  BY <1>2
<1>7. TakenInv'
  BY <1>1, <1>6, DecideKeepsTaken
<1> QED
  BY <1>1, <1>4, <1>5, <1>7 DEF AcceptsExactly

LEMMA ExactStep == ExactInv /\ [Next]_vars => ExactInv'
<1> SUFFICES ASSUME ExactInv, [Next]_vars PROVE ExactInv'
  OBVIOUS
<1>1. ScanInv' /\ ScanBounds'
  BY InvStep, TakeKeepsBounds, OtherKeepBounds DEF ExactInv
<1> SUFFICES TakenInv' /\ AcceptsExactly'
  BY <1>1 DEF ExactInv
<1>2. CASE Open
  BY <1>2, OpenIsExact
<1>3. CASE RefuseEntry \/ ReadRaises
  BY <1>3, StopIsExact
<1>4. CASE TakeEntry
  <2>1. TakenInv'
    BY <1>4, TakeKeepsTaken DEF ExactInv
  <2>2. verdict' = "scanning"
    BY <1>4 DEF TakeEntry, Scanning
  <2> QED
    BY <2>1, <2>2 DEF AcceptsExactly
<1>5. CASE CheckEntries
  BY <1>5, CheckIsExact
<1>6. CASE UNCHANGED vars
  BY <1>6 DEF ExactInv, vars, TakenInv, AcceptsExactly, Taken
<1> QED
  BY <1>2, <1>3, <1>4, <1>5, <1>6 DEF Next

\* read_package accepts an archive if and only if the directory as a whole is
\* acceptable: the running counters, the set of normalised names and the early
\* returns of the scan lose nothing and let nothing through, whatever the order
\* and the number of the entries.
THEOREM ScanIsExact == Spec => []AcceptsExactly
<1>1. ExactInv => AcceptsExactly
  BY DEF ExactInv
<1> QED
  BY <1>1, ExactInit, ExactStep, PTL DEF Spec
=============================================================================
