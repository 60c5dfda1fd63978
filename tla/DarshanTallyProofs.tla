-------------------------- MODULE DarshanTallyProofs --------------------------
(***************************************************************************)
(* The file tally of *_calc_file counts every file of the hash as unique  *)
(* or as shared: the count half of FileTallyConsistent, for every number   *)
(* of processes and every record set.  (Its byte half is a SumFunction    *)
(* fold and stays with TLC.)                                               *)
(*                                                                         *)
(* The argument: *_accum_file never leaves an entry with none of the       *)
(* UNIQUE, SHARED and PARTSHARED bits, which follows from the             *)
(* classification of ClassInv (an entry exists only for an id with a       *)
(* record; its first record is shared, or per-rank and alone, or followed *)
(* by another per-rank one); and the hash holds finitely many entries,     *)
(* one added per fold, so the two tallied sets cover the counted one.     *)
(***************************************************************************)
EXTENDS DarshanEntryProofs, FiniteSetTheorems

\* the hash is a finite table (one entry is added per record folded)
TableFinite == IsFiniteSet(DOMAIN file_hash_table)

\* an entry of the hash is tallied as unique or as shared by *_calc_file
Tallied(e) == "UNIQUE" \in e.type \/ e.type \cap {"SHARED", "PARTSHARED"} # {}

(* The count half of FileTallyConsistent: the unique and the shared counts *)
(* of *_calc_file add up to at least the total count.                     *)
EveryFileTallied ==
    LET t == CalcFile(file_hash_table)
    IN  t.unique.count + t.shared.count >= t.total.count

-----------------------------------------------------------------------------
LEMMA InitTableFinite == Init => TableFinite
BY FS_EmptySet DEF Init, TableFinite

LEMMA NextTableFinite == TableFinite /\ [Next]_vars => TableFinite'
<1>. SUFFICES ASSUME TableFinite, [Next]_vars PROVE TableFinite'
  OBVIOUS
<1>1. ASSUME NEW r \in Recs, Fold(r) PROVE TableFinite'
  <2>1. DOMAIN file_hash_table' = DOMAIN file_hash_table \cup {r.id}
    BY <1>1 DEF Fold
  <2>. QED
    BY <2>1, FS_AddElement DEF TableFinite
<1>2. ASSUME Reset PROVE TableFinite'
  BY <1>2, FS_EmptySet DEF Reset, TableFinite
<1>3. CASE ReadRecord
  BY <1>1, <1>3 DEF ReadRecord, accums, TableFinite
<1>4. CASE EndOfRecords
  BY <1>2, <1>4 DEF EndOfRecords, accums, TableFinite
<1>. QED
  BY <1>3, <1>4
  DEF Next, SkipModule, AbortIncomplete, EnterModule, HashAllocFail,
      DecodeError, Finish, Terminated, vars, accums, TableFinite

(* Every entry of the hash carries UNIQUE, SHARED or PARTSHARED. *)
LEMMA EntryTallied ==
    ASSUME ClassInv, NEW i \in DOMAIN file_hash_table
    PROVE  Tallied(file_hash_table[i])
<1>. DEFINE hist == folded[i]
            ent == file_hash_table[i]
<1>1. i \in Ids /\ hist # <<>> /\ hist \in Seq(RecordType)
  BY RecsAssumption DEF ClassInv, IInv, TypeOK
<1>2. Len(hist) \in Nat /\ Len(hist) >= 1
  BY <1>1
<1>3. PICK ls \in 0 .. Len(hist) : LastSharedIs(hist, ls)
  BY <1>1 DEF ClassInv, HasLastShared
<1>4. LastShared(hist) = ls
  BY <1>1, <1>3, LastSharedUnique
<1>5. Classified(ent, hist, ls)
  BY <1>4 DEF ClassInv, EntryFaithful
<1>6. CASE ls # 0
  BY <1>5, <1>6 DEF Classified, Tallied
<1>7. CASE ls = 0 /\ Len(hist) = 1
  <2>1. ~IsShared(hist[1]) /\ \A k \in 2 .. Len(hist) : IsShared(hist[k])
    BY <1>3, <1>7 DEF LastSharedIs
  <2>. QED
    BY <1>5, <2>1 DEF Classified, Tallied
<1>8. CASE ls = 0 /\ Len(hist) # 1
  <2>0. \A n \in Nat : n >= 1 /\ n # 1 => 2 \in 1 .. n /\ 2 \in 2 .. n
    OBVIOUS
  <2>1. 2 \in 1 .. Len(hist) /\ 2 \in 2 .. Len(hist)
    BY <1>2, <1>8, <2>0, Zenon
  <2>2. \A k \in 1 .. Len(hist) : ~IsShared(hist[k])
    BY <1>3, <1>8 DEF LastSharedIs
  <2>3. \E k \in 2 .. Len(hist) : ~IsShared(hist[k])
    BY <2>1, <2>2
  <2>. QED
    BY <1>5, <2>3 DEF Classified, Tallied
<1>. QED
  BY <1>6, <1>7, <1>8

(* Two sets that cover a finite set count at least as many elements. *)
LEMMA CoverCount ==
    ASSUME NEW D, IsFiniteSet(D), NEW U \in SUBSET D, NEW S \in SUBSET D,
           D \subseteq U \cup S
    PROVE  Cardinality(U) + Cardinality(S) >= Cardinality(D)
<1>1. IsFiniteSet(U) /\ IsFiniteSet(S) /\ IsFiniteSet(U \cap S)
  BY FS_Subset
<1>2. Cardinality(U) \in Nat /\ Cardinality(S) \in Nat /\ Cardinality(U \cap S) \in Nat
  BY <1>1, FS_CardinalityType
<1>3. Cardinality(U \cup S) = Cardinality(U) + Cardinality(S) - Cardinality(U \cap S)
  BY <1>1, FS_Union
<1>4. U \cup S = D
  OBVIOUS
<1>5. Cardinality(D) = Cardinality(U) + Cardinality(S) - Cardinality(U \cap S)
  BY <1>3, <1>4
<1>. QED
  BY <1>2, <1>5

(* The file tally of *_calc_file counts every file of the hash as unique  *)
(* or as shared (the count half of FileTallyConsistent, checked by        *)
(* parser_fold): the bit updates of *_accum_file never leave a file with  *)
(* no type, whatever the order of its shared and per-rank records.        *)
THEOREM TallyCountsEveryFile == Spec => []EveryFileTallied
<1>1. ClassInv /\ TableFinite => EveryFileTallied
  <2>. SUFFICES ASSUME ClassInv, TableFinite
                PROVE  EveryFileTallied
    OBVIOUS
  <2>. DEFINE H == file_hash_table
              D == DOMAIN H
              U == {i \in D : "UNIQUE" \in H[i].type}
              S == {i \in D : H[i].type \cap {"SHARED", "PARTSHARED"} # {}}
  <2>1. D \subseteq U \cup S
    BY EntryTallied DEF Tallied
  <2>2. Cardinality(U) + Cardinality(S) >= Cardinality(D)
    BY <2>1, CoverCount DEF TableFinite
  <2>. QED
    BY <2>2 DEF EveryFileTallied, CalcFile, Tally
<1>. QED
  BY <1>1, InitClassInv, NextClassInv, InitTableFinite, NextTableFinite, PTL DEF Spec
=============================================================================
