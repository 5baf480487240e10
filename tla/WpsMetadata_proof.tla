------------------------- MODULE WpsMetadata_proof -------------------------
(***************************************************************************)
(* Proofs about WpsMetadata for every section and every encoding: the      *)
(* offset of the loop, advanced by a count of characters, stays inside the *)
(* section and never passes the beginning of a string unread.              *)
(***************************************************************************)
EXTENDS WpsMetadata, FiniteSetTheorems, SequenceTheorems, WellFoundedInduction, TLAPS

NatOrder == {r \in Nat \X Nat : r[1] < r[2]}

\* Every nonempty set of naturals has a smallest element.
LEMMA SmallestElement ==
    ASSUME NEW S \in SUBSET Nat, S # {}
    PROVE  \E x \in S : \A y \in S : x <= y
<1>1. OpToRel(<, Nat) = NatOrder
  BY DEF OpToRel, NatOrder
<1>2. IsWellFoundedOn(NatOrder, Nat)
  BY <1>1, NatLessThanWellFounded
<1>3. \E x \in S : \A y \in S : <<y, x>> \notin NatOrder
  BY <1>2, WFMin
<1>4. PICK x \in S : \A y \in S : <<y, x>> \notin NatOrder
  BY <1>3
<1>5. ASSUME NEW y \in S
      PROVE  x <= y
  <2>1. <<y, x>> \notin {r \in Nat \X Nat : r[1] < r[2]}
    BY <1>4 DEF NatOrder
  <2>2. ~(y < x) /\ x \in Nat /\ y \in Nat
    BY <2>1
  <2> QED
    BY <2>2
<1> QED
  BY <1>5

\* A section that inspect_wups begins to read.
Terminated == data \in Seq(Bytes) /\ data # <<>> /\ data[Len(data)] = NUL

\* The string at p ends at the first NUL behind it.
LEMMA EndIsFirstNul ==
    ASSUME Terminated, NEW p \in 1..Len(data)
    PROVE  /\ End(p) \in p..Len(data)
           /\ data[End(p)] = NUL
           /\ \A q \in p..(End(p) - 1) : data[q] # NUL
<1> DEFINE Nuls == {e \in p..Len(data) : data[e] = NUL}
<1>1. Len(data) \in Nat
  BY DEF Terminated
<1>2. Nuls \in SUBSET Nat /\ Nuls # {}
  <2>1. Len(data) \in Nuls
    BY <1>1 DEF Terminated
  <2> QED
    BY <1>1, <2>1
<1>3. PICK e \in Nuls : \A f \in Nuls : e <= f
  BY <1>2, SmallestElement
<1>4. \A q \in p..(e - 1) : data[q] # NUL
  BY <1>1, <1>3
<1>5. \E f \in p..Len(data) : data[f] = NUL /\ \A q \in p..(f - 1) : data[q] # NUL
  BY <1>3, <1>4
<1> QED
  BY <1>5 DEF End

LEMMA StringLength ==
    ASSUME Terminated, NEW p \in 1..Len(data)
    PROVE  /\ String(p) \in Seq(Bytes)
           /\ Len(String(p)) = End(p) - p
<1>1. End(p) \in p..Len(data) /\ Len(data) \in Nat
  BY EndIsFirstNul DEF Terminated
<1>2. data \in Seq(Bytes) /\ p \in 1..(Len(data) + 1) /\ End(p) - 1 \in (p - 1)..Len(data)
  BY <1>1 DEF Terminated
<1> QED
  BY <1>1, <1>2, SubSeqProperties DEF String

\* A text has at most as many characters as bytes.
LEMMA CharactersBound ==
    ASSUME NEW s \in Seq(Bytes)
    PROVE  Characters(s) \in 0..Len(s)
<1> DEFINE S == {k \in DOMAIN s : s[k] \notin Continuation}
<1>1. Len(s) \in Nat /\ DOMAIN s = 1..Len(s)
  BY LenProperties
<1>2. IsFiniteSet(1..Len(s)) /\ Cardinality(1..Len(s)) = Len(s)
  BY <1>1, FS_Interval
<1>3. S \subseteq 1..Len(s)
  BY <1>1
<1>4. IsFiniteSet(S) /\ Cardinality(S) <= Cardinality(1..Len(s))
  BY <1>2, <1>3, FS_Subset
<1>5. Cardinality(S) \in Nat
  BY <1>4, FS_CardinalityType
<1> QED
  BY <1>1, <1>2, <1>4, <1>5 DEF Characters

LEMMA PairTypes ==
    ASSUME NEW s \in Seq(Bytes), HasPair(s)
    PROVE  Key(s) \in Seq(Bytes) /\ Value(s) \in Seq(Bytes)
<1> DEFINE S == {k \in DOMAIN s : s[k] = EQUALS}
<1>1. Len(s) \in Nat /\ DOMAIN s = 1..Len(s)
  BY LenProperties
<1>2. S \in SUBSET Nat /\ S # {}
  BY <1>1 DEF HasPair
<1>3. PICK e \in S : \A f \in S : e <= f
  BY <1>2, SmallestElement
<1>4. \A j \in 1..(e - 1) : s[j] # EQUALS
  BY <1>1, <1>3
<1>5. \E k \in DOMAIN s : s[k] = EQUALS /\ \A j \in 1..(k - 1) : s[j] # EQUALS
  BY <1>3, <1>4
<1>6. FirstEquals(s) \in 1..Len(s)
  BY <1>1, <1>5 DEF FirstEquals
<1>7. /\ 1 \in 1..(Len(s) + 1) /\ FirstEquals(s) - 1 \in 0..Len(s)
      /\ FirstEquals(s) + 1 \in 1..(Len(s) + 1) /\ Len(s) \in FirstEquals(s)..Len(s)
  BY <1>1, <1>6
<1>8. Key(s) \in Seq(Bytes)
  BY <1>7, SubSeqProperties DEF Key
<1>9. Value(s) \in Seq(Bytes)
  <2> DEFINE m == FirstEquals(s) + 1
  <2>1. m \in 1..(Len(s) + 1) /\ Len(s) \in (m - 1)..Len(s)
    BY <1>1, <1>6
  <2> HIDE DEF m
  <2>2. SubSeq(s, m, Len(s)) \in Seq(Bytes)
    BY <2>1, SubSeqProperties
  <2> QED
    BY <2>2 DEF m, Value
<1> QED
  BY <1>8, <1>9

\* Where the loop goes from a string: forward, and not past the next one.
LEMMA StepBound ==
    ASSUME TypeOK, ReadString
    PROVE  /\ Terminated
           /\ offset \in 1..Len(data) /\ Len(data) \in Nat
           /\ String(offset) \in Seq(Bytes)
           /\ offset' \in (offset + 1)..(End(offset) + 1)
           /\ End(offset) \in offset..Len(data)
<1>1. Terminated /\ offset \in 1..Len(data) /\ Len(data) \in Nat
  BY DEF TypeOK, ReadString, Scanning, Terminated
<1>2. String(offset) \in Seq(Bytes) /\ Len(String(offset)) = End(offset) - offset
  BY <1>1, StringLength
<1>3. End(offset) \in offset..Len(data)
  BY <1>1, EndIsFirstNul
<1>4. Characters(String(offset)) \in 0..(End(offset) - offset)
  BY <1>2, CharactersBound
<1>5. offset' = offset + Characters(String(offset)) + 1
  BY DEF ReadString, Advance
<1>6. offset' \in (offset + 1)..(End(offset) + 1)
  BY <1>1, <1>3, <1>4, <1>5
<1> QED
  BY <1>1, <1>2, <1>3, <1>6

LEMMA TypeInit == Init => TypeOK
<1> SUFFICES ASSUME Init PROVE TypeOK
  OBVIOUS
<1>1. data \in Seq(Bytes)
  BY BytesAssumption DEF Init
<1>2. offset \in 1..(Len(data) + 1)
  BY <1>1 DEF Init
<1> QED
  BY <1>1, <1>2 DEF Init, TypeOK

LEMMA TypeStep == TypeOK /\ [Next]_vars => TypeOK'
<1> SUFFICES ASSUME TypeOK, [Next]_vars PROVE TypeOK'
  OBVIOUS
<1>1. CASE OpenSection
  BY <1>1 DEF OpenSection, Decide, TypeOK
<1>2. CASE ReadString
  <2>1. offset' \in 1..(Len(data) + 1)
    BY <1>2, StepBound
  <2> DEFINE s == String(offset)
  <2>2. s \in Seq(Bytes)
    BY <1>2, StepBound
  <2>3. CASE HasPair(s)
    <3>1. Key(s) \in Seq(Bytes) /\ Value(s) \in Seq(Bytes)
      BY <2>2, <2>3, PairTypes
    <3>2. metadata' = [k \in DOMAIN metadata \cup {Key(s)} |->
                          IF k = Key(s) THEN Value(s) ELSE metadata[k]]
      BY <1>2, <2>3 DEF ReadString
    <3>3. \A k \in DOMAIN metadata' : k \in Seq(Bytes) /\ metadata'[k] \in Seq(Bytes)
      BY <3>1, <3>2 DEF TypeOK
    <3> QED
      BY <1>2, <2>1, <3>3 DEF ReadString, TypeOK
  <2>4. CASE ~HasPair(s)
    BY <1>2, <2>1, <2>4 DEF ReadString, TypeOK
  <2> QED
    BY <2>3, <2>4
<1>3. CASE RefuseString
  BY <1>3 DEF RefuseString, Decide, TypeOK
<1>4. CASE CheckMetadata
  BY <1>4 DEF CheckMetadata, Decide, TypeOK
<1>5. CASE UNCHANGED vars
  BY <1>5 DEF vars, TypeOK
<1> QED
  BY <1>1, <1>2, <1>3, <1>4, <1>5 DEF Next

\* The offset never leaves the section, whatever characters it holds.
THEOREM MetadataTypeCorrect == Spec => []TypeOK
BY TypeInit, TypeStep, PTL DEF Spec

-----------------------------------------------------------------------------

\* No string begins strictly between the offset and its next value.
LEMMA NoStartSkipped ==
    ASSUME TypeOK, ReadString, NEW p \in Starts, p < offset'
    PROVE  p <= offset
<1>1. /\ Terminated /\ offset \in 1..Len(data) /\ Len(data) \in Nat
      /\ offset' \in (offset + 1)..(End(offset) + 1)
      /\ End(offset) \in offset..Len(data)
  BY StepBound
<1>2. \A q \in offset..(End(offset) - 1) : data[q] # NUL
  BY <1>1, EndIsFirstNul
<1>3. p \in 1..Len(data) /\ (p = 1 \/ data[p - 1] = NUL)
  BY <1>1, LenProperties DEF Starts, Terminated
<1> QED
  BY <1>1, <1>2, <1>3

\* NothingLost is inductive once it is known that the loop starts at the
\* first string.
LostInv == NothingLost /\ (verdict = "opening" => offset = 1)

\* What ReadString does to metadata.
LEMMA ReadEffect ==
    ASSUME ReadString
    PROVE  /\ data' = data /\ verdict' = verdict /\ verdict = "scanning"
           /\ HasPair(String(offset)) =>
                /\ Key(String(offset)) \notin DOMAIN metadata
                /\ metadata' = [k \in DOMAIN metadata \cup {Key(String(offset))} |->
                                   IF k = Key(String(offset)) THEN Value(String(offset))
                                                              ELSE metadata[k]]
           /\ ~HasPair(String(offset)) => metadata' = metadata
BY DEF ReadString, Scanning, BadPair

\* A key=value string keeps its entry, and the one just read gets it.
LEMMA ReadKeeps ==
    ASSUME TypeOK, LostInv, ReadString, NEW p \in PairStarts, p < offset'
    PROVE  /\ Key(String(p)) \in DOMAIN metadata'
           /\ metadata'[Key(String(p))] = Value(String(p))
<1> DEFINE s == String(offset)
           k == Key(s)
<1>1. p \in Starts /\ HasPair(String(p))
  BY DEF PairStarts
<1>2. p <= offset
  BY <1>1, NoStartSkipped
<1>3. offset \in Nat /\ p \in Nat
  BY <1>1, StepBound, LenProperties DEF Starts, Terminated
<1>4. CASE p = offset
  <2>1. HasPair(s) /\ String(p) = s
    BY <1>1, <1>4
  <2>2. metadata' = [j \in DOMAIN metadata \cup {k} |-> IF j = k THEN Value(s) ELSE metadata[j]]
    BY <2>1, ReadEffect
  <2> HIDE DEF s, k
  <2>3. k \in DOMAIN metadata' /\ metadata'[k] = Value(s)
    BY <2>2
  <2> QED
    BY <2>1, <2>3 DEF k
<1>5. CASE p < offset
  <2> DEFINE old == Key(String(p))
  <2>1. old \in DOMAIN metadata /\ metadata[old] = Value(String(p))
    BY <1>5, ReadEffect DEF LostInv, NothingLost
  <2>2. CASE HasPair(s)
    <3>1. k \notin DOMAIN metadata
          /\ metadata' = [j \in DOMAIN metadata \cup {k} |->
                             IF j = k THEN Value(s) ELSE metadata[j]]
      BY <2>2, ReadEffect
    <3> HIDE DEF s, k, old
    <3>2. old \in DOMAIN metadata' /\ metadata'[old] = metadata[old]
      BY <2>1, <3>1
    <3> QED
      BY <2>1, <3>2 DEF old
  <2>3. CASE ~HasPair(s)
    BY <2>1, <2>3, ReadEffect
  <2> QED
    BY <2>2, <2>3
<1> QED
  BY <1>2, <1>3, <1>4, <1>5

\* A step that leaves the section alone leaves its strings alone.
LEMMA SameString == ASSUME data' = data, NEW p PROVE String(p)' = String(p)
<1>1. End(p)' = End(p)
  BY DEF End
<1> QED
  BY <1>1 DEF String

LEMMA SamePair ==
    ASSUME data' = data, NEW p
    PROVE  Key(String(p))' = Key(String(p)) /\ Value(String(p))' = Value(String(p))
<1>1. String(p)' = String(p)
  BY SameString
<1>2. FirstEquals(String(p))' = FirstEquals(String(p))
  BY <1>1 DEF FirstEquals
<1>3. Key(String(p))' = Key(String(p))
  BY <1>1, <1>2 DEF Key
<1>4. Value(String(p))' = Value(String(p))
  BY <1>1, <1>2 DEF Value
<1> QED
  BY <1>3, <1>4

LEMMA SamePairStarts == ASSUME data' = data PROVE PairStarts' = PairStarts
<1>1. ASSUME NEW p PROVE HasPair(String(p))' = HasPair(String(p))
  BY SameString DEF HasPair
<1> QED
  BY <1>1 DEF PairStarts, Starts

LEMMA SameLost ==
    ASSUME data' = data,
           \A p \in PairStarts : p < offset' =>
              /\ Key(String(p)) \in DOMAIN metadata'
              /\ metadata'[Key(String(p))] = Value(String(p))
    PROVE  NothingLost'
<1> SUFFICES ASSUME NEW p \in PairStarts', p < offset'
             PROVE  /\ Key(String(p))' \in DOMAIN metadata'
                    /\ metadata'[Key(String(p))'] = Value(String(p))'
  BY DEF NothingLost
<1> QED
  BY SamePair, SamePairStarts

LEMMA LostInit == Init => LostInv
BY DEF Init, NothingLost, LostInv

LEMMA LostStep == TypeOK /\ LostInv /\ [Next]_vars => LostInv'
<1> SUFFICES ASSUME TypeOK, LostInv, [Next]_vars PROVE LostInv'
  OBVIOUS
<1>1. CASE OpenSection
  <2>1. offset' = 1 /\ verdict' # "opening"
    BY <1>1 DEF OpenSection, Decide, LostInv
  <2>2. data' = data /\ data \in Seq(Bytes)
    BY <1>1 DEF OpenSection, Decide, TypeOK
  <2>3. \A p \in PairStarts' : ~(p < offset')
    BY <2>1, <2>2, LenProperties DEF PairStarts, Starts
  <2> QED
    BY <2>1, <2>3 DEF NothingLost, LostInv
<1>2. CASE ReadString
  <2>1. data' = data /\ verdict' = "scanning"
    BY <1>2, ReadEffect
  <2>2. \A p \in PairStarts : p < offset' =>
            /\ Key(String(p)) \in DOMAIN metadata'
            /\ metadata'[Key(String(p))] = Value(String(p))
    BY <1>2, ReadKeeps
  <2>3. NothingLost'
    BY <2>1, <2>2, SameLost
  <2> QED
    BY <2>1, <2>3 DEF LostInv
<1>3. CASE RefuseString
  BY <1>3 DEF RefuseString, Decide, NothingLost, LostInv
<1>4. CASE CheckMetadata
  <2>1. /\ data' = data /\ offset' = offset /\ metadata' = metadata
        /\ verdict = "scanning" /\ verdict' # "opening"
    BY <1>4 DEF CheckMetadata, Decide
  <2> QED
    BY <2>1, SameLost DEF NothingLost, LostInv
<1>5. CASE UNCHANGED vars
  <2>1. data' = data /\ offset' = offset /\ metadata' = metadata /\ verdict' = verdict
    BY <1>5 DEF vars
  <2>2. CASE verdict \in {"scanning", "accepted"}
    BY <2>1, <2>2, SameLost DEF NothingLost, LostInv
  <2> QED
    BY <2>1, <2>2 DEF NothingLost, LostInv
<1> QED
  BY <1>1, <1>2, <1>3, <1>4, <1>5 DEF Next

\* Whatever characters the section holds, no key=value string the loop has
\* passed is missing from metadata or has another value there.
THEOREM NoStringIsLost == Spec => []NothingLost
<1>1. LostInv => NothingLost
  BY DEF LostInv
<1> QED
  BY <1>1, LostInit, LostStep, MetadataTypeCorrect, PTL DEF Spec
-----------------------------------------------------------------------------
(* Sections in ASCII.  There a string has as many characters as bytes, so   *)
(* the loop goes from each string to the next one.                          *)

Ascii == \A k \in DOMAIN data : Width[data[k]] = 1

\* a string that is no reason to refuse the section
Sound(p) ==
    /\ ~BadString(String(p))
    /\ HasPair(String(p)) => Identifier(Key(String(p)), MAX_KEY)

Passed == {p \in PairStarts : p < offset}

\* In ASCII the offset is where a string begins, and every string before it
\* is sound, has a key of its own and is in metadata.
AsciiRead ==
    /\ offset = 1 \/ data[offset - 1] = NUL
    /\ \A p \in Starts : p < offset => Sound(p)
    /\ \A p, q \in Passed : Key(String(p)) = Key(String(q)) => p = q
    /\ DOMAIN metadata = {Key(String(p)) : p \in Passed}

AsciiInv ==
    /\ metadata = [k \in DOMAIN metadata |-> metadata[k]]
    /\ verdict = "opening" => DOMAIN metadata = {}
    /\ Ascii /\ verdict = "scanning" => AsciiRead
    /\ AsciiExact

LEMMA SameReference ==
    ASSUME data' = data
    PROVE  /\ Starts' = Starts /\ PairStarts' = PairStarts
           /\ \A p : Sound(p)' <=> Sound(p)
           /\ ReferenceAccepts' <=> ReferenceAccepts
           /\ Reference' = Reference
           /\ Ascii' <=> Ascii
<1>1. Starts' = Starts /\ PairStarts' = PairStarts
  BY SamePairStarts DEF Starts
<1>2. \A p : /\ BadString(String(p))' <=> BadString(String(p))
             /\ HasPair(String(p))' <=> HasPair(String(p))
  BY SameString DEF BadString, Decodes, HasPair
<1>3. \A p : /\ Key(String(p))' = Key(String(p)) /\ Value(String(p))' = Value(String(p))
             /\ Identifier(Key(String(p)), MAX_KEY)' <=> Identifier(Key(String(p)), MAX_KEY)
  BY SamePair DEF Identifier
<1>4. \A p : Sound(p)' <=> Sound(p)
  BY <1>2, <1>3 DEF Sound
<1>5. Reference' = Reference
  BY <1>1, <1>3 DEF Reference
<1>6. BadMetadata(Reference)' <=> BadMetadata(Reference)
  BY <1>5 DEF BadMetadata
<1>7. ReferenceAccepts' <=> ReferenceAccepts
  BY <1>1, <1>2, <1>3, <1>6 DEF ReferenceAccepts
<1> QED
  BY <1>1, <1>4, <1>5, <1>7 DEF Ascii

\* A decoded string of single bytes has a character for each of them.
LEMMA AsciiCharacters ==
    ASSUME NEW s \in Seq(Bytes), Decodes(s), \A k \in DOMAIN s : Width[s[k]] = 1
    PROVE  Characters(s) = Len(s)
<1>1. Len(s) \in Nat /\ DOMAIN s = 1..Len(s)
  BY LenProperties
<1>2. \A k \in DOMAIN s : s[k] \notin Continuation
  <2> SUFFICES ASSUME NEW k \in DOMAIN s, s[k] \in Continuation PROVE FALSE
    OBVIOUS
  <2>1. PICK j \in 1..(k - 1) : k - j < Width[s[j]]
    BY DEF Decodes
  <2>2. j \in DOMAIN s /\ k - j >= 1
    BY <1>1
  <2> QED
    BY <2>1, <2>2
<1>3. {k \in DOMAIN s : s[k] \notin Continuation} = 1..Len(s)
  BY <1>1, <1>2
<1>4. Cardinality(1..Len(s)) = Len(s)
  BY ONLY <1>1, FS_Interval
<1> QED
  BY <1>3, <1>4 DEF Characters

\* In ASCII the loop goes to the byte behind the NUL.
LEMMA AsciiStep ==
    ASSUME TypeOK, Ascii, ReadString
    PROVE  offset' = End(offset) + 1 /\ data[offset' - 1] = NUL
<1>1. /\ Terminated /\ offset \in 1..Len(data) /\ Len(data) \in Nat
      /\ String(offset) \in Seq(Bytes) /\ End(offset) \in offset..Len(data)
  BY StepBound
<1>2. Len(String(offset)) = End(offset) - offset /\ data[End(offset)] = NUL
  BY <1>1, StringLength, EndIsFirstNul
<1>3. ASSUME NEW k \in DOMAIN String(offset) PROVE Width[String(offset)[k]] = 1
  <2>1. k \in 1..(End(offset) - offset)
    BY <1>1, <1>2, LenProperties
  <2>2. String(offset)[k] = data[offset + k - 1] /\ offset + k - 1 \in DOMAIN data
    <3> DEFINE last == End(offset) - 1
    <3>1. /\ data \in Seq(Bytes) /\ offset \in 1..(Len(data) + 1)
          /\ last \in (offset - 1)..Len(data) /\ k \in 1..(last - offset + 1)
      BY <1>1, <2>1 DEF Terminated
    <3> HIDE DEF last
    <3>2. SubSeq(data, offset, last)[k] = data[offset + k - 1]
      BY <3>1, SubSeqProperties
    <3>3. offset + k - 1 \in 1..Len(data)
      BY <1>1, <2>1
    <3> QED
      BY <3>1, <3>2, <3>3, LenProperties DEF String, last
  <2> QED
    BY <2>2 DEF Ascii
<1>4. Decodes(String(offset)) /\ offset' = offset + Characters(String(offset)) + 1
  BY DEF ReadString, BadString, Advance
<1>5. Characters(String(offset)) = End(offset) - offset
  BY <1>1, <1>2, <1>3, <1>4, AsciiCharacters
<1>6. offset' = End(offset) + 1
  BY <1>1, <1>4, <1>5
<1> QED
  BY <1>1, <1>2, <1>6

LEMMA StartTypes == ASSUME TypeOK, NEW p \in Starts PROVE p \in 1..Len(data) /\ p \in Nat
BY LenProperties DEF TypeOK, Starts

\* Reading a string in ASCII: its entry is the only one that is new.
LEMMA AsciiReads ==
    ASSUME TypeOK, AsciiInv, Ascii, ReadString
    PROVE  /\ offset' = 1 \/ data[offset' - 1] = NUL
           /\ \A p \in Starts : p < offset' => Sound(p)
           /\ \A p, q \in PairStarts :
                 p < offset' /\ q < offset' /\ Key(String(p)) = Key(String(q)) => p = q
           /\ DOMAIN metadata' = {Key(String(p)) : p \in {q \in PairStarts : q < offset'}}
<1>1. /\ offset \in 1..Len(data) /\ Len(data) \in Nat /\ offset' \in Nat /\ offset < offset'
      /\ verdict = "scanning" /\ data \in Seq(Bytes)
  BY StepBound, ReadEffect DEF Terminated
<1>2. offset \in Starts
  <2>1. offset \in DOMAIN data
    BY <1>1, LenProperties
  <2> QED
    BY <1>1, <2>1 DEF AsciiInv, AsciiRead, Starts
<1>3. \A p \in Starts : p < offset' <=> p < offset \/ p = offset
  BY <1>1, NoStartSkipped, StartTypes
<1>4. /\ \A p \in Starts : p < offset => Sound(p)
      /\ \A p, q \in Passed : Key(String(p)) = Key(String(q)) => p = q
      /\ DOMAIN metadata = {Key(String(p)) : p \in Passed}
  BY <1>1 DEF AsciiInv, AsciiRead
<1>5. Sound(offset)
  BY DEF ReadString, BadPair, Sound
<1>6. \A p \in Starts : p < offset' => Sound(p)
  BY <1>3, <1>4, <1>5
<1>7. PairStarts \subseteq Starts
  BY DEF PairStarts
<1>8. CASE HasPair(String(offset))
  <2>1. {q \in PairStarts : q < offset'} = Passed \cup {offset}
    BY <1>2, <1>3, <1>7, <1>8 DEF PairStarts, Passed
  <2>2. /\ Key(String(offset)) \notin DOMAIN metadata
        /\ DOMAIN metadata' = DOMAIN metadata \cup {Key(String(offset))}
    BY <1>8, ReadEffect
  <2>3. DOMAIN metadata' = {Key(String(p)) : p \in {q \in PairStarts : q < offset'}}
    BY <1>4, <2>1, <2>2
  <2>4. \A p \in Passed : Key(String(p)) # Key(String(offset))
    BY <1>4, <2>2
  <2>5. \A p, q \in {r \in PairStarts : r < offset'} :
           Key(String(p)) = Key(String(q)) => p = q
    BY <1>4, <2>1, <2>4
  <2> QED
    BY <1>6, <2>3, <2>5, AsciiStep
<1>9. CASE ~HasPair(String(offset))
  <2>1. {q \in PairStarts : q < offset'} = Passed
    BY <1>2, <1>3, <1>7, <1>9 DEF PairStarts, Passed
  <2>2. metadata' = metadata
    BY <1>9, ReadEffect
  <2>3. \A p, q \in {r \in PairStarts : r < offset'} :
           Key(String(p)) = Key(String(q)) => p = q
    BY <1>4, <2>1
  <2> QED
    BY <1>4, <1>6, <2>1, <2>2, <2>3, AsciiStep
<1> QED
  BY <1>8, <1>9

\* Where the loop gives up, the reference does.
LEMMA AsciiRefuses ==
    ASSUME TypeOK, AsciiInv, Ascii, RefuseString
    PROVE  ~ReferenceAccepts
<1>1. verdict = "scanning" /\ offset <= Len(data) /\ data \in Seq(Bytes)
      /\ offset \in 1..(Len(data) + 1)
  BY DEF RefuseString, Scanning, TypeOK
<1>2. offset \in Starts
  <2>1. Len(data) \in Nat /\ DOMAIN data = 1..Len(data)
    BY <1>1, LenProperties
  <2> QED
    BY <1>1, <2>1 DEF AsciiInv, AsciiRead, Starts
<1>3. CASE BadString(String(offset))
  BY <1>2, <1>3 DEF ReferenceAccepts
<1>4. CASE HasPair(String(offset)) /\ BadPair(String(offset))
  <2>1. offset \in PairStarts
    BY <1>2, <1>4 DEF PairStarts
  <2>2. CASE ~Identifier(Key(String(offset)), MAX_KEY)
    BY <2>1, <2>2 DEF ReferenceAccepts
  <2>3. CASE Key(String(offset)) \in DOMAIN metadata
    <3>1. PICK p \in Passed : Key(String(p)) = Key(String(offset))
      BY <1>1, <2>3 DEF AsciiInv, AsciiRead
    <3>2. p \in PairStarts /\ p # offset
      BY <1>1 DEF Passed
    <3> QED
      BY <2>1, <3>1, <3>2 DEF ReferenceAccepts
  <2> QED
    BY <1>4, <2>2, <2>3 DEF BadPair
<1> QED
  BY <1>3, <1>4 DEF RefuseString

\* Behind the last string the metadata are the reference.
LEMMA AsciiCollected ==
    ASSUME TypeOK, AsciiInv, NothingLost, Ascii, verdict = "scanning", offset > Len(data)
    PROVE  /\ metadata = Reference
           /\ ReferenceAccepts <=> ~BadMetadata(Reference)
<1>1. data \in Seq(Bytes) /\ Len(data) \in Nat /\ offset \in Nat
      /\ data # <<>> /\ data[Len(data)] = NUL
  BY LenProperties DEF TypeOK
<1>2. \A p \in Starts : p < offset
  BY <1>1, StartTypes
<1>3. Passed = PairStarts /\ PairStarts \subseteq Starts
  BY <1>2 DEF Passed, PairStarts
<1>4. \A p, q \in PairStarts : Key(String(p)) = Key(String(q)) => p = q
  BY <1>3 DEF AsciiInv, AsciiRead
<1>5. DOMAIN metadata = {Key(String(p)) : p \in PairStarts}
  BY <1>3 DEF AsciiInv, AsciiRead
<1>6. ASSUME NEW k \in DOMAIN metadata
      PROVE  metadata[k] = Value(String(CHOOSE p \in PairStarts : Key(String(p)) = k))
  <2>1. PICK p \in PairStarts : Key(String(p)) = k
    BY <1>5
  <2>2. (CHOOSE q \in PairStarts : Key(String(q)) = k) = p
    BY <1>4, <2>1
  <2>3. metadata[Key(String(p))] = Value(String(p))
    BY <1>2, <1>3 DEF NothingLost
  <2> QED
    BY <2>1, <2>2, <2>3
<1>7. metadata = [k \in {Key(String(p)) : p \in PairStarts} |->
                    Value(String(CHOOSE p \in PairStarts : Key(String(p)) = k))]
  <2>1. metadata = [k \in DOMAIN metadata |-> metadata[k]]
    BY DEF AsciiInv, AsciiRead
  <2>2. [k \in DOMAIN metadata |-> metadata[k]] =
           [k \in DOMAIN metadata |->
              Value(String(CHOOSE p \in PairStarts : Key(String(p)) = k))]
    BY <1>6
  <2> QED
    BY <1>5, <2>1, <2>2
<1>8. metadata = Reference
  BY <1>7 DEF Reference
<1>9. /\ \A p \in Starts : ~BadString(String(p))
      /\ \A p \in PairStarts : Identifier(Key(String(p)), MAX_KEY)
  BY <1>2, <1>3 DEF AsciiInv, AsciiRead, Sound, PairStarts
<1> QED
  BY <1>1, <1>4, <1>8, <1>9 DEF ReferenceAccepts

LEMMA AsciiStays == TypeOK /\ LostInv /\ AsciiInv /\ [Next]_vars => AsciiInv'
<1> SUFFICES ASSUME TypeOK, LostInv, AsciiInv, [Next]_vars PROVE AsciiInv'
  OBVIOUS
<1>0. data' = data
  BY DEF Next, vars, OpenSection, ReadString, RefuseString, CheckMetadata, Decide
<1>1. /\ Starts' = Starts /\ PairStarts' = PairStarts
      /\ \A p : Sound(p)' <=> Sound(p)
      /\ ReferenceAccepts' <=> ReferenceAccepts
      /\ Reference' = Reference
      /\ Ascii' <=> Ascii
  BY <1>0, SameReference
<1>2. \A p : Key(String(p))' = Key(String(p))
  BY <1>0, SamePair
<1>3. CASE OpenSection
  <2>1. /\ verdict = "opening" /\ UNCHANGED <<data, offset, metadata>>
        /\ verdict' = IF data = <<>> \/ data[Len(data)] # NUL THEN "rejected" ELSE "scanning"
    BY <1>3 DEF OpenSection, Decide
  <2>2. offset = 1 /\ DOMAIN metadata = {}
    BY <2>1 DEF LostInv, AsciiInv, AsciiRead
  <2>3. \A p \in Starts : ~(p < offset)
    BY <2>2, StartTypes
  <2>4. Passed' = {}
    BY <1>1, <2>1, <2>3 DEF Passed, PairStarts
  <2>5. verdict' = "rejected" => ~ReferenceAccepts
    BY <2>1 DEF ReferenceAccepts
  <2> QED
    BY <1>1, <2>1, <2>2, <2>3, <2>4, <2>5 DEF AsciiInv, AsciiRead, AsciiExact, Exact, Ascii
<1>4. CASE ReadString
  <2>1. verdict = "scanning" /\ verdict' = verdict
    BY <1>4, ReadEffect
  <2>2. metadata' = [k \in DOMAIN metadata' |-> metadata'[k]]
    BY <1>4, ReadEffect DEF AsciiInv, AsciiRead
  <2>3. Passed' = {q \in PairStarts : q < offset'}
    BY <1>1 DEF Passed
  <2>4. ASSUME Ascii
        PROVE  /\ offset' = 1 \/ data'[offset' - 1] = NUL
               /\ \A p \in Starts' : p < offset' => Sound(p)'
               /\ \A p, q \in Passed' : Key(String(p))' = Key(String(q))' => p = q
               /\ DOMAIN metadata' = {Key(String(p))' : p \in Passed'}
    BY <1>0, <1>1, <1>2, <1>4, <2>3, <2>4, AsciiReads
  <2>5. AsciiExact'
    BY <2>1 DEF AsciiExact, Exact
  <2>6. verdict' # "opening"
    BY <2>1
  <2>7. Ascii' => AsciiRead'
    BY <1>1, <2>4 DEF AsciiRead
  <2> QED
    BY <2>2, <2>5, <2>6, <2>7 DEF AsciiInv
<1>5. CASE RefuseString
  <2>1. verdict' = "rejected" /\ metadata' = metadata
    BY <1>5 DEF RefuseString, Decide
  <2>2. Ascii => ~ReferenceAccepts
    BY <1>5, AsciiRefuses
  <2>3. metadata' = [k \in DOMAIN metadata' |-> metadata'[k]]
    BY <2>1 DEF AsciiInv
  <2>4. AsciiExact'
    BY <1>1, <2>1, <2>2 DEF AsciiExact, Exact, Ascii
  <2> QED
    BY <2>1, <2>3, <2>4 DEF AsciiInv
<1>6. CASE CheckMetadata
  <2>1. /\ verdict = "scanning" /\ offset > Len(data) /\ metadata' = metadata
        /\ verdict' = IF BadMetadata(metadata) THEN "rejected" ELSE "accepted"
    BY <1>6 DEF CheckMetadata, Decide
  <2>2. Ascii => /\ metadata = Reference
                 /\ ReferenceAccepts <=> ~BadMetadata(Reference)
    BY <2>1, AsciiCollected DEF LostInv
  <2>3. metadata' = [k \in DOMAIN metadata' |-> metadata'[k]]
    BY <2>1 DEF AsciiInv
  <2>4. Ascii => Exact'
    BY <1>1, <2>1, <2>2 DEF Exact
  <2>5. AsciiExact' <=> (Ascii' => Exact')
    BY DEF AsciiExact, Ascii
  <2> QED
    BY <1>1, <2>1, <2>3, <2>4, <2>5 DEF AsciiInv
<1>7. CASE UNCHANGED vars
  <2>1. UNCHANGED <<data, offset, metadata, verdict>>
    BY <1>7 DEF vars
  <2>2. Passed' = Passed
    BY <1>1, <2>1 DEF Passed
  <2>3. AsciiRead' <=> AsciiRead
    BY <1>0, <1>1, <1>2, <2>1, <2>2 DEF AsciiRead
  <2>4. AsciiExact' <=> AsciiExact
    BY <1>1, <2>1 DEF AsciiExact, Exact, Ascii
  <2> QED
    BY <1>1, <2>1, <2>3, <2>4 DEF AsciiInv
<1> QED
  BY <1>3, <1>4, <1>5, <1>6, <1>7 DEF Next

\* For every section in ASCII the loop accepts exactly what it should, and
\* what it collects is what the section holds.
THEOREM AsciiIsExact == Spec => []AsciiExact
<1>1. Init => AsciiInv
  BY DEF Init, AsciiInv, AsciiRead, AsciiExact, Exact
<1>2. Spec => []LostInv
  BY LostInit, LostStep, MetadataTypeCorrect, PTL DEF Spec
<1>3. Spec => []AsciiInv
  BY <1>1, <1>2, AsciiStays, MetadataTypeCorrect, PTL DEF Spec
<1>4. AsciiInv => AsciiExact
  BY DEF AsciiInv, AsciiRead
<1> QED
  BY <1>3, <1>4, PTL
=============================================================================
