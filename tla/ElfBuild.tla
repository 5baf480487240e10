------------------------------ MODULE ElfBuild ------------------------------
(***************************************************************************)
(* How mod.elf comes to be: the %.elf rule of cemod.mk, which links, copies *)
(* with objcopy and lets normalize_relocations.py rewrite the copy in       *)
(* place, and the checks of TrustedElf on what the rule leaves.             *)
(*                                                                         *)
(* cemod.mk has no .DELETE_ON_ERROR: when a command of the rule fails, or   *)
(* the build is killed, the file stays, newer than the objects, and the     *)
(* next make takes it for finished.                                         *)
(***************************************************************************)
EXTENDS TrustedElf

CONSTANT Truncations   \* the lengths at which a killed writer may leave the file

ASSUME TruncationsAssumption == Truncations \subseteq Nat

VARIABLES
    linked,   \* what objcopy makes of the linker's output
    make      \* where the rule is, or how it ended

build_vars == <<vars, linked, make>>

MakeStates == {"absent", "copied", "refused", "killed", "built"}

-----------------------------------------------------------------------------
\* the loop over the relocations: R_PPC_UADDR32 becomes R_PPC_ADDR32
Aligned(r) == [r EXCEPT !.width = IF @ = UNALIGNED THEN 4 ELSE @]

\* a SHT_RELA section, and an image, rewritten
Rewrite(s) ==
    IF s.kind = "rela"
    THEN [s EXCEPT !.entries = [n \in DOMAIN s.entries |-> Aligned(s.entries[n])]]
    ELSE s

Normalized(e) ==
    [e EXCEPT !.sections = [k \in DOMAIN e.sections |-> Rewrite(e.sections[k])]]

\* mutant: sections of every type are compared with the file
NormalizeRaises_AnyType ==
    \/ elf.length < HEADER
    \/ elf.section_size < MIN_SECTION
    \/ Outside(elf.section_offset, Len(Sections) * elf.section_size)
    \/ \E k \in DOMAIN Sections :
          LET s == Sections[k]
          IN  (s.kind = "rela" /\ ~s.whole) \/ Outside(s.offset, s.size)

NormalizeRaises ==
    \/ elf.length < HEADER
    \/ elf.section_size < MIN_SECTION
    \/ Outside(elf.section_offset, Len(Sections) * elf.section_size)
    \/ \E k \in DOMAIN Sections :
          LET s == Sections[k]
          IN  s.kind = "rela" /\ (~s.whole \/ Outside(s.offset, s.size))

-----------------------------------------------------------------------------
BuildInit == Init /\ linked = elf /\ make = "absent"

Unchecked == UNCHANGED <<stage, index, segments, code_bytes, data_bytes, linked>>

LinkElf ==
    /\ make = "absent" /\ make' = "copied"
    /\ elf' = linked /\ Unchecked

(* The first seven bytes are less than validate_elf identifies an image by: *)
(* normalize may go on where it would not.                                  *)
Normalize ==
    /\ make = "copied"
    /\ \E identified \in {TRUE, elf.identified} :
          IF ~identified \/ NormalizeRaises
          THEN make' = "refused" /\ UNCHANGED elf
          ELSE make' = "built" /\ elf' = Normalized(elf)
    /\ Unchecked

LeavesPartOf(written) ==
    \E n \in Truncations \cup {written.length} :
        n <= written.length /\ elf' = [written EXCEPT !.length = n]

\* the build is killed: objcopy, or normalize, leaves a part of its file
Killed ==
    /\ \/ make = "absent" /\ LeavesPartOf(linked)
       \/ make = "copied" /\ LeavesPartOf(Normalized(linked))
    /\ make' = "killed" /\ Unchecked

\* make again: the file is newer than what it is made from
MakeAgain ==
    /\ make \in {"refused", "killed"} /\ make' = "built"
    /\ UNCHANGED elf /\ Unchecked

\* make clean, or an interrupt that lets make delete the file it was making
Clean ==
    /\ make \in {"copied", "refused", "killed"} /\ make' = "absent"
    /\ elf' = linked /\ Unchecked

\* the packager and the verifier read the file
CheckElf == make = "built" /\ Next /\ UNCHANGED <<linked, make>>

BuildNext == LinkElf \/ Normalize \/ Killed \/ MakeAgain \/ Clean \/ CheckElf

BuildSpec == BuildInit /\ [][BuildNext]_build_vars

-----------------------------------------------------------------------------
(* Properties.                                                              *)

BuildTypeOK ==
    /\ TypeOK
    /\ linked \in ElfRecords
    /\ make \in MakeStates /\ (make # "built" => stage = "header")

\* Whatever make takes for a finished mod.elf, one that validate_elf accepts
\* has all the contents of the sections and segments that were linked, and
\* each relocation as normalize_relocations.py writes it.  This is what makes
\* the missing .DELETE_ON_ERROR harmless.
AcceptedIsNormalized ==
    stage \in {"accepted", "verified", "refused"} =>
        /\ elf = [Normalized(linked) EXCEPT !.length = elf.length]
        /\ \A k \in DOMAIN Sections :
              Sections[k].kind # "nobits" => Sections[k].offset + Sections[k].size <= elf.length
        /\ \A k \in DOMAIN Program :
              Program[k].load => Program[k].offset + Program[k].stored <= elf.length

Rewritten == INSTANCE TrustedElf WITH elf <- Normalized(linked)

\* normalize_relocations.py never stands in the way of an image that would be
\* accepted once rewritten: where it raises, validate_elf would refuse.
RaisesOnlyForIllegal == make = "refused" => ~Rewritten!LegalElf
=============================================================================
