-------------------------- MODULE MainProgramProofs --------------------------
(***************************************************************************)
(* Safety of MainProgram for every build configuration, demo configuration *)
(* and machine, and every number of runs.                                  *)
(***************************************************************************)
EXTENDS MainProgram, FiniteSetTheorems, SequenceTheorems, TLAPS

(***************************************************************************)
(* The rank is a bijection between a finite set of indices and 1..n, n     *)
(* being the number of indices, and keeps their order.                     *)
(***************************************************************************)
LEMMA RankBijection ==
    ASSUME NEW n \in Nat, NEW I \in SUBSET (1..n)
    PROVE  /\ Cardinality(I) \in Nat /\ (Cardinality(I) = 0 <=> I = {})
           /\ \A i \in I : Rank(I, i) \in 1..Cardinality(I)
           /\ \A i, j \in I : i < j => Rank(I, i) < Rank(I, j)
           /\ \A m \in 1..Cardinality(I) : \E i \in I : Rank(I, i) = m
<1> DEFINE Up(i) == {j \in I : j <= i}
<1>1. IsFiniteSet(I) /\ Cardinality(I) \in Nat /\ (Cardinality(I) = 0 <=> I = {})
  <2>1. IsFiniteSet(1..n)
    BY FS_Interval
  <2>2. IsFiniteSet(I)
    BY <2>1, FS_Subset
  <2>3. QED
    BY <2>2, FS_CardinalityType, FS_EmptySet
<1>2. \A i \in I : Rank(I, i) \in 1..Cardinality(I)
  <2> SUFFICES ASSUME NEW i \in I
               PROVE  Rank(I, i) \in 1..Cardinality(I)
    OBVIOUS
  <2>1. Up(i) \in SUBSET I /\ Up(i) # {}
    OBVIOUS
  <2>2. IsFiniteSet(Up(i)) /\ Cardinality(Up(i)) <= Cardinality(I)
    BY <1>1, <2>1, FS_Subset
  <2>3. Cardinality(Up(i)) \in Nat /\ Cardinality(Up(i)) # 0
    BY <2>1, <2>2, FS_CardinalityType, FS_EmptySet
  <2>4. QED
    BY <1>1, <2>2, <2>3 DEF Rank
<1>3. \A i, j \in I : i < j => Rank(I, i) < Rank(I, j)
  <2> SUFFICES ASSUME NEW i \in I, NEW j \in I, i < j
               PROVE  Rank(I, i) < Rank(I, j)
    OBVIOUS
  <2>1. Up(j) \in SUBSET I /\ Up(i) \in SUBSET Up(j) /\ Up(i) # Up(j)
    <3>1. j \in Up(j) /\ j \notin Up(i)
      OBVIOUS
    <3>2. Up(i) # Up(j)
      <4> HIDE DEF Up
      <4> QED  BY <3>1
    <3>3. Up(j) \in SUBSET I /\ Up(i) \in SUBSET Up(j)
      <4>1. \A k \in I : k \in Int /\ (k <= i => k <= j)
        OBVIOUS
      <4>2. QED
        BY <4>1
    <3> HIDE DEF Up
    <3>4. QED
      BY <3>2, <3>3
  <2>2. IsFiniteSet(Up(j))
    BY <1>1, <2>1, FS_Subset
  <2>3. Cardinality(Up(i)) <= Cardinality(Up(j)) /\ Cardinality(Up(i)) # Cardinality(Up(j))
    BY <2>1, <2>2, FS_Subset
  <2>4. QED
    BY <1>2, <2>3 DEF Rank
<1>4. \A m \in 1..Cardinality(I) : \E i \in I : Rank(I, i) = m
  <2> DEFINE f == [i \in I |-> Rank(I, i)]
  <2>1. f \in Injection(I, 1..Cardinality(I))
    <3>1. \A i, j \in I : i # j => Rank(I, i) # Rank(I, j)
      <4> SUFFICES ASSUME NEW i \in I, NEW j \in I, i # j
                   PROVE  Rank(I, i) # Rank(I, j)
        OBVIOUS
      <4>1. i < j \/ j < i
        OBVIOUS
      <4>2. QED
        BY <4>1, <1>2, <1>3
    <3>2. f \in [I -> 1..Cardinality(I)]
      BY <1>2
    <3>3. QED
      BY <3>1, <3>2 DEF Injection, IsInjective
  <2>2. IsFiniteSet(1..Cardinality(I)) /\ Cardinality(1..Cardinality(I)) = Cardinality(I)
    BY <1>1, FS_Interval
  <2>3. f \in Surjection(I, 1..Cardinality(I))
    BY <2>1, <2>2, FS_Injection
  <2>4. QED
    BY <2>3 DEF Surjection
<1>5. QED
  BY <1>1, <1>2, <1>3, <1>4

(***************************************************************************)
(* What SelectSeq promises, of Filtered: the elements at the indices of I, *)
(* all of them, in their order.                                            *)
(***************************************************************************)
LEMMA FilteredProperties ==
    ASSUME NEW S, NEW s \in Seq(S), NEW I \in SUBSET DOMAIN s
    PROVE  /\ Filtered(s, I) \in Seq(S)
           /\ Filtered(s, I) = <<>> <=> I = {}
           /\ \A m \in DOMAIN Filtered(s, I) : \E i \in I : Filtered(s, I)[m] = s[i]
           /\ \A i \in I : \E m \in DOMAIN Filtered(s, I) : Filtered(s, I)[m] = s[i]
           /\ \A m, n \in DOMAIN Filtered(s, I) :
                 m < n => \E i, j \in I : i < j /\ Filtered(s, I)[m] = s[i]
                                                /\ Filtered(s, I)[n] = s[j]
<1> DEFINE c == Cardinality(I)
           At(m) == CHOOSE i \in I : Rank(I, i) = m
           t == [m \in 1..c |-> s[At(m)]]
<1>1. Len(s) \in Nat /\ I \in SUBSET (1..Len(s)) /\ \A i \in I : s[i] \in S /\ i \in Int
  OBVIOUS
<1>2. /\ c \in Nat /\ (c = 0 <=> I = {})
      /\ \A i \in I : Rank(I, i) \in 1..c
      /\ \A i, j \in I : i < j => Rank(I, i) < Rank(I, j)
      /\ \A m \in 1..c : \E i \in I : Rank(I, i) = m
  BY <1>1, RankBijection
<1>3. \A m \in 1..c : At(m) \in I /\ Rank(I, At(m)) = m
  BY <1>2
<1>4. Filtered(s, I) = t
  BY DEF Filtered
<1> HIDE DEF c, At
<1>5. t \in Seq(S)
  BY <1>1, <1>2, <1>3
<1>6. t = <<>> <=> I = {}
  <2>1. DOMAIN t = 1..c
    OBVIOUS
  <2>2. QED
    BY <1>2, <1>5, <2>1
<1>7. \A i \in I : \E m \in 1..c : t[m] = s[i]
  <2> SUFFICES ASSUME NEW i \in I
               PROVE  \E m \in 1..c : t[m] = s[i]
    OBVIOUS
  <2>1. Rank(I, i) \in 1..c
    BY <1>2
  <2>2. At(Rank(I, i)) = i
    <3>1. At(Rank(I, i)) \in I /\ Rank(I, At(Rank(I, i))) = Rank(I, i)
      BY <1>3, <2>1
    <3>2. ~(At(Rank(I, i)) < i) /\ ~(i < At(Rank(I, i)))
      BY <1>2, <2>1, <3>1
    <3>3. QED
      BY <1>1, <3>1, <3>2
  <2>3. QED
    BY <2>1, <2>2
<1>8. \A m, n \in 1..c : m < n => \E i, j \in I : i < j /\ t[m] = s[i] /\ t[n] = s[j]
  <2> SUFFICES ASSUME NEW m \in 1..c, NEW n \in 1..c, m < n
               PROVE  At(m) < At(n)
    BY <1>3
  <2>1. At(m) \in I /\ At(n) \in I /\ Rank(I, At(m)) = m /\ Rank(I, At(n)) = n
    BY <1>3
  <2>2. At(m) # At(n) /\ ~(At(n) < At(m))
    BY <1>2, <2>1
  <2>3. QED
    BY <1>1, <2>1, <2>2
<1>9. QED
  <2>1. DOMAIN t = 1..c
    OBVIOUS
  <2>2. \A m \in 1..c : \E i \in I : t[m] = s[i]
    BY <1>3
  <2> HIDE DEF t
  <2>3. \A m \in DOMAIN t : \E i \in I : t[m] = s[i]
    BY <2>1, <2>2
  <2>4. \A i \in I : \E m \in DOMAIN t : t[m] = s[i]
    BY <1>7, <2>1
  <2>5. \A m, n \in DOMAIN t : m < n => \E i, j \in I : i < j /\ t[m] = s[i] /\ t[n] = s[j]
    BY <1>8, <2>1
  <2>6. QED
    BY ONLY <1>4, <1>5, <1>6, <2>3, <2>4, <2>5

-----------------------------------------------------------------------------
(***************************************************************************)
(* A concatenation has the elements of both, and no duplicates of f if     *)
(* neither has any and they share none; f is what one compares.            *)
(***************************************************************************)
LEMMA ElementsOfConcat ==
    ASSUME NEW S, NEW s \in Seq(S), NEW t \in Seq(S)
    PROVE  s \o t \in Seq(S) /\ Elements(s \o t) = Elements(s) \cup Elements(t)
<1>1. /\ s \o t \in Seq(S) /\ Len(s \o t) = Len(s) + Len(t)
      /\ Len(s) \in Nat /\ Len(t) \in Nat
      /\ DOMAIN s = 1..Len(s) /\ DOMAIN t = 1..Len(t) /\ DOMAIN (s \o t) = 1..Len(s) + Len(t)
      /\ \A i \in 1..Len(s) + Len(t) :
            (s \o t)[i] = IF i <= Len(s) THEN s[i] ELSE t[i - Len(s)]
  BY ConcatProperties
<1>2. \A i \in 1..Len(s) : i \in 1..Len(s) + Len(t) /\ (s \o t)[i] = s[i]
  BY <1>1
<1>3. \A i \in 1..Len(t) : i + Len(s) \in 1..Len(s) + Len(t) /\ (s \o t)[i + Len(s)] = t[i]
  BY <1>1
<1>4. ASSUME NEW x \in Elements(s) \cup Elements(t)
      PROVE  x \in Elements(s \o t)
  <2>1. CASE x \in Elements(s)
    BY <1>1, <1>2, <2>1 DEF Elements
  <2>2. CASE x \in Elements(t)
    <3>1. PICK i \in 1..Len(t) : x = t[i]
      BY <1>1, <2>2 DEF Elements
    <3>2. QED
      BY <1>1, <1>3, <3>1 DEF Elements
  <2>3. QED
    BY <1>4, <2>1, <2>2
<1>5. ASSUME NEW x \in Elements(s \o t)
      PROVE  x \in Elements(s) \cup Elements(t)
  <2>1. PICK i \in 1..Len(s) + Len(t) : x = (s \o t)[i]
    BY <1>1 DEF Elements
  <2>2. CASE i <= Len(s)
    BY <1>1, <2>1, <2>2 DEF Elements
  <2>3. CASE ~(i <= Len(s))
    <3>1. i - Len(s) \in 1..Len(t)
      BY <1>1, <2>1, <2>3
    <3>2. x = t[i - Len(s)]
      BY <1>1, <2>1, <2>3
    <3>3. QED
      BY <1>1, <3>1, <3>2 DEF Elements
  <2>4. QED
    BY <2>2, <2>3
<1>6. QED
  BY <1>1, <1>4, <1>5

\* No two programs of the sequence have one name.
Distinct(s) == \A i, j \in DOMAIN s : i < j => s[i].name # s[j].name

LEMMA DistinctConcat ==
    ASSUME NEW S, NEW s \in Seq(S), NEW t \in Seq(S), Distinct(s), Distinct(t),
           \A x \in Elements(s) : \A y \in Elements(t) : x.name # y.name
    PROVE  Distinct(s \o t)
<1>1. /\ Len(s) \in Nat /\ Len(t) \in Nat
      /\ DOMAIN s = 1..Len(s) /\ DOMAIN t = 1..Len(t) /\ DOMAIN (s \o t) = 1..Len(s) + Len(t)
      /\ \A i \in 1..Len(s) + Len(t) :
            (s \o t)[i] = IF i <= Len(s) THEN s[i] ELSE t[i - Len(s)]
  BY ConcatProperties
<1> SUFFICES ASSUME NEW i \in 1..Len(s) + Len(t), NEW j \in 1..Len(s) + Len(t), i < j
             PROVE  (s \o t)[i].name # (s \o t)[j].name
  BY <1>1 DEF Distinct
<1>2. CASE j <= Len(s)
  <2>1. i \in DOMAIN s /\ j \in DOMAIN s /\ (s \o t)[i] = s[i] /\ (s \o t)[j] = s[j]
    BY <1>1, <1>2
  <2>2. QED
    BY <2>1 DEF Distinct
<1>3. CASE i <= Len(s) /\ ~(j <= Len(s))
  <2>1. /\ i \in DOMAIN s /\ j - Len(s) \in DOMAIN t
        /\ (s \o t)[i] = s[i] /\ (s \o t)[j] = t[j - Len(s)]
    BY <1>1, <1>3
  <2>2. QED
    BY <2>1 DEF Elements
<1>4. CASE ~(i <= Len(s))
  <2>1. /\ i - Len(s) \in DOMAIN t /\ j - Len(s) \in DOMAIN t /\ i - Len(s) < j - Len(s)
        /\ (s \o t)[i] = t[i - Len(s)] /\ (s \o t)[j] = t[j - Len(s)]
    BY <1>1, <1>4
  <2>2. QED
    BY <2>1 DEF Distinct
<1>5. QED
  BY <1>1, <1>2, <1>3, <1>4

(***************************************************************************)
(* _get_programs_of_group returns the programs of a group of the type, or  *)
(* none if there is no such group.                                         *)
(***************************************************************************)
LEMMA ProgramsOfGroup ==
    ASSUME NEW file \in ProgramDescriptionCfg, NEW type
    PROVE  /\ ProgramsOf(file, type) \in Seq(ProgramDescription)
           /\ \/ /\ ProgramsOf(file, type) = <<>>
                 /\ \A g \in DOMAIN file.groups : GroupType(file.groups[g].key) # type
              \/ \E g \in DOMAIN file.groups :
                    /\ GroupType(file.groups[g].key) = type
                    /\ ProgramsOf(file, type) = file.groups[g].programs
<1> DEFINE groups == {g \in DOMAIN file.groups : GroupType(file.groups[g].key) = type}
           first  == Filtered(file.groups, groups)
<1>1. file.groups \in Seq(ProgramGroup) /\ groups \in SUBSET DOMAIN file.groups
  BY DEF ProgramDescriptionCfg
<1>2. CASE groups = {}
  BY <1>2 DEF ProgramsOf
<1>3. CASE groups # {}
  <2>1. /\ first \in Seq(ProgramGroup) /\ first # <<>>
        /\ \A m \in DOMAIN first : \E i \in groups : first[m] = file.groups[i]
    <3>1. SUFFICES ASSUME NEW s \in Seq(ProgramGroup), s = file.groups,
                          NEW I \in SUBSET DOMAIN s, I = groups
                   PROVE  /\ Filtered(s, I) \in Seq(ProgramGroup) /\ Filtered(s, I) # <<>>
                          /\ \A m \in DOMAIN Filtered(s, I) :
                                \E i \in I : Filtered(s, I)[m] = s[i]
      BY <1>1
    <3>2. I # {}
      BY <1>3, <3>1
    <3> HIDE DEF groups
    <3>3. QED
      BY <3>2, FilteredProperties
  <2>2. 1 \in DOMAIN first
    BY <2>1
  <2>3. PICK g \in groups : first[1] = file.groups[g]
    BY <2>1, <2>2
  <2>4. ProgramsOf(file, type) = file.groups[g].programs
    BY <1>3, <2>3 DEF ProgramsOf, First
  <2>5. file.groups[g] \in ProgramGroup
    BY <1>1
  <2>6. QED
    BY <2>4, <2>5 DEF ProgramGroup
<1>4. QED
  BY <1>2, <1>3

\* _create_ric and its likes: at most one program of the type, for the folder.
LEMMA FirstMatchingProperties ==
    ASSUME NEW file \in ProgramDescriptionCfg, NEW type, NEW folder
    PROVE  /\ FirstMatching(file, type, folder) \in Seq(ProgramDescription)
           /\ Distinct(FirstMatching(file, type, folder))
           /\ \A p \in Elements(FirstMatching(file, type, folder)) :
                 p \in Elements(ProgramsOf(file, type)) /\ Implementation(type, p) = folder
           /\ (\E p \in Elements(ProgramsOf(file, type)) : Implementation(type, p) = folder) =>
                 \E p \in Elements(FirstMatching(file, type, folder)) : TRUE
<1> DEFINE programs == ProgramsOf(file, type)
           I == {i \in DOMAIN programs : Implementation(type, programs[i]) = folder}
           matching == Filtered(programs, I)
<1>1. programs \in Seq(ProgramDescription)
  BY ProgramsOfGroup
<1>2. I \in SUBSET DOMAIN programs
  OBVIOUS
<1> HIDE DEF programs
<1>5. /\ (\E p \in Elements(programs) : Implementation(type, p) = folder) => I # {}
      /\ \A i \in I : programs[i] \in Elements(programs) /\ Implementation(type, programs[i]) = folder
  BY DEF Elements
<1>4. Matching(file, type, folder) = matching
  BY DEF Matching, programs
<1> HIDE DEF I
<1>3. /\ matching \in Seq(ProgramDescription) /\ (matching = <<>> <=> I = {})
      /\ \A m \in DOMAIN matching : \E i \in I : matching[m] = programs[i]
  BY <1>1, <1>2, FilteredProperties
<1> DEFINE fm == FirstMatching(file, type, folder)
<1> HIDE DEF matching
<1>6. CASE matching = <<>>
  <2>1. fm = <<>>
    BY <1>4, <1>6 DEF FirstMatching
  <2>2. DOMAIN fm = {} /\ fm \in Seq(ProgramDescription)
    BY <2>1
  <2>3. QED
    BY <1>3, <1>5, <1>6, <2>2 DEF Distinct, Elements, programs
<1>7. CASE matching # <<>>
  <2>1. 1 \in DOMAIN matching /\ matching[1] \in ProgramDescription
    BY <1>3, <1>7
  <2>2. PICK i \in I : matching[1] = programs[i]
    BY <1>3, <2>1
  <2>3. fm = <<programs[i]>>
    BY <1>4, <1>7, <2>2 DEF FirstMatching, First
  <2>4. DOMAIN fm = {1} /\ fm[1] = programs[i] /\ fm \in Seq(ProgramDescription)
    BY <2>1, <2>2, <2>3
  <2>5. Distinct(fm) /\ Elements(fm) = {programs[i]}
    BY <2>4 DEF Distinct, Elements
  <2>6. QED
    BY <1>5, <2>4, <2>5 DEF programs
<1>8. QED
  BY <1>6, <1>7

\* _create_ues: all programs for a UE that is built, and no others.
IsForUE(p, ues) ==
    \E n \in DOMAIN ues : p.name = ues[n].name /\ Implementation("run_ue", p) = ues[n].folder

LEMMA MatchingUEsProperties ==
    ASSUME NEW file \in ProgramDescriptionCfg, NEW ues
    PROVE  /\ MatchingUEs(file, ues) \in Seq(ProgramDescription)
           /\ \A p : p \in Elements(MatchingUEs(file, ues)) <=>
                        p \in Elements(ProgramsOf(file, "run_ue")) /\ IsForUE(p, ues)
           /\ Distinct(ProgramsOf(file, "run_ue")) => Distinct(MatchingUEs(file, ues))
<1> DEFINE programs == ProgramsOf(file, "run_ue")
           I == {i \in DOMAIN programs : IsForUE(programs[i], ues)}
           matching == Filtered(programs, I)
<1>1. programs \in Seq(ProgramDescription)
  BY ProgramsOfGroup
<1>2. /\ I \in SUBSET DOMAIN programs
      /\ \A i \in DOMAIN programs : i \in I <=> IsForUE(programs[i], ues)
  OBVIOUS
<1>3. MatchingUEs(file, ues) = matching
  BY DEF MatchingUEs, IsForUE
<1> HIDE DEF programs, I
<1>4. /\ matching \in Seq(ProgramDescription)
      /\ \A m \in DOMAIN matching : \E i \in I : matching[m] = programs[i]
      /\ \A i \in I : \E m \in DOMAIN matching : matching[m] = programs[i]
      /\ \A m, n \in DOMAIN matching :
            m < n => \E i, j \in I : i < j /\ matching[m] = programs[i] /\ matching[n] = programs[j]
  BY <1>1, <1>2, FilteredProperties
<1> HIDE DEF matching
<1>5. \A p : p \in Elements(matching) <=> p \in Elements(programs) /\ IsForUE(p, ues)
  BY <1>2, <1>4 DEF Elements
<1>6. Distinct(programs) => Distinct(matching)
  BY <1>2, <1>4 DEF Distinct
<1>7. QED
  BY <1>3, <1>4, <1>5, <1>6 DEF programs

(***************************************************************************)
(* Of a configuration that passes the checks, programs of different types  *)
(* have different names; programs of a type differ among UEs and others.   *)
(***************************************************************************)
LEMMA TypesAreDisjoint ==
    ASSUME NEW file \in ProgramDescriptionCfg, ProgramsAreValid(file), NEW t, NEW u, t # u,
           NEW p \in Elements(ProgramsOf(file, t)), NEW q \in Elements(ProgramsOf(file, u))
    PROVE  p.name # q.name
<1>1. ~(ProgramsOf(file, t) = <<>>) /\ ~(ProgramsOf(file, u) = <<>>)
  BY DEF Elements
<1>2. PICK g \in DOMAIN file.groups :
         GroupType(file.groups[g].key) = t /\ ProgramsOf(file, t) = file.groups[g].programs
  BY <1>1, ProgramsOfGroup
<1>3. PICK h \in DOMAIN file.groups :
         GroupType(file.groups[h].key) = u /\ ProgramsOf(file, u) = file.groups[h].programs
  BY <1>1, ProgramsOfGroup
<1>4. p.name \in NamesOf(file.groups[g]) /\ q.name \in NamesOf(file.groups[h])
  BY <1>2, <1>3 DEF NamesOf, Elements
<1>5. NamesOf(file.groups[g]) \cap NamesOf(file.groups[h]) = {}
  BY <1>2, <1>3 DEF ProgramsAreValid
<1>6. QED
  BY <1>4, <1>5

LEMMA TypeIsDistinct ==
    ASSUME NEW file \in ProgramDescriptionCfg, ProgramsAreValid(file),
           NEW type \in {"run_ue", "run_misc"}
    PROVE  Distinct(ProgramsOf(file, type))
<1>1. CASE ProgramsOf(file, type) = <<>>
  BY <1>1 DEF Distinct
<1>2. CASE ProgramsOf(file, type) # <<>>
  <2>1. PICK g \in DOMAIN file.groups :
           GroupType(file.groups[g].key) = type /\ ProgramsOf(file, type) = file.groups[g].programs
    BY <1>2, ProgramsOfGroup
  <2> DEFINE programs == file.groups[g].programs
             names    == [i \in DOMAIN programs |-> programs[i].name]
  <2>2. ~HasDuplicates(names)
    BY <2>1 DEF ProgramsAreValid, GroupIsValid
  <2>3. QED
    BY <2>1, <2>2 DEF HasDuplicates, Distinct
<1>3. QED
  BY <1>1, <1>2

(***************************************************************************)
(* create_programs: what is selected, and that no two of it share a name.  *)
(***************************************************************************)
LEMMA SelectedProperties ==
    ASSUME NEW file \in ProgramDescriptionCfg, NEW ric, NEW core, NEW gnb, NEW ues
    PROVE  /\ SelectedPrograms(file, ric, core, gnb, ues) \in Seq(ProgramDescription)
           /\ Elements(SelectedPrograms(file, ric, core, gnb, ues)) =
                   Elements(FirstMatching(file, "run_ric", ric))
              \cup Elements(FirstMatching(file, "run_core", core))
              \cup Elements(FirstMatching(file, "run_gnb", gnb))
              \cup Elements(MatchingUEs(file, ues))
              \cup Elements(ProgramsOf(file, "run_misc"))
           /\ ProgramsAreValid(file) => Distinct(SelectedPrograms(file, ric, core, gnb, ues))
<1> DEFINE a == FirstMatching(file, "run_ric", ric)
           b == FirstMatching(file, "run_core", core)
           c == FirstMatching(file, "run_gnb", gnb)
           d == MatchingUEs(file, ues)
           e == ProgramsOf(file, "run_misc")
<1>1. /\ a \in Seq(ProgramDescription) /\ b \in Seq(ProgramDescription)
      /\ c \in Seq(ProgramDescription) /\ d \in Seq(ProgramDescription)
      /\ e \in Seq(ProgramDescription)
  BY FirstMatchingProperties, MatchingUEsProperties, ProgramsOfGroup
<1>2. /\ \A p \in Elements(a) : p \in Elements(ProgramsOf(file, "run_ric"))
      /\ \A p \in Elements(b) : p \in Elements(ProgramsOf(file, "run_core"))
      /\ \A p \in Elements(c) : p \in Elements(ProgramsOf(file, "run_gnb"))
      /\ \A p \in Elements(d) : p \in Elements(ProgramsOf(file, "run_ue"))
  BY FirstMatchingProperties, MatchingUEsProperties
<1>3. ASSUME ProgramsAreValid(file)
      PROVE  Distinct(a) /\ Distinct(b) /\ Distinct(c) /\ Distinct(d) /\ Distinct(e)
  BY <1>3, FirstMatchingProperties, MatchingUEsProperties, TypeIsDistinct
<1>4. ASSUME ProgramsAreValid(file), NEW t, NEW u, t # u,
             NEW p \in Elements(ProgramsOf(file, t)), NEW q \in Elements(ProgramsOf(file, u))
      PROVE  p.name # q.name
  BY <1>4, TypesAreDisjoint
<1>5. SelectedPrograms(file, ric, core, gnb, ues) = (((a \o b) \o c) \o d) \o e
  BY <1>1 DEF SelectedPrograms
<1> DEFINE ab == a \o b  abc == ab \o c  abcd == abc \o d  abcde == abcd \o e
<1>6. e = ProgramsOf(file, "run_misc")
  OBVIOUS
<1> HIDE DEF a, b, c, d, e
<1>7. ab \in Seq(ProgramDescription) /\ Elements(ab) = Elements(a) \cup Elements(b)
  BY <1>1, ElementsOfConcat
<1>8. ASSUME ProgramsAreValid(file)
      PROVE  Distinct(ab)
  <2>1. \A x \in Elements(a) : \A y \in Elements(b) : x.name # y.name
    BY <1>2, <1>4, <1>8
  <2>2. QED
    BY <1>1, <1>3, <1>8, <2>1, DistinctConcat
<1> HIDE DEF ab
<1>9. abc \in Seq(ProgramDescription) /\ Elements(abc) = Elements(ab) \cup Elements(c)
  BY <1>1, <1>7, ElementsOfConcat
<1>10. ASSUME ProgramsAreValid(file)
       PROVE  Distinct(abc)
  <2>1. \A x \in Elements(ab) : \A y \in Elements(c) : x.name # y.name
    BY <1>2, <1>4, <1>7, <1>10
  <2>2. QED
    BY <1>1, <1>3, <1>7, <1>8, <1>10, <2>1, DistinctConcat
<1> HIDE DEF abc
<1>11. abcd \in Seq(ProgramDescription) /\ Elements(abcd) = Elements(abc) \cup Elements(d)
  BY <1>1, <1>9, ElementsOfConcat
<1>12. ASSUME ProgramsAreValid(file)
       PROVE  Distinct(abcd)
  <2>1. \A x \in Elements(abc) : \A y \in Elements(d) : x.name # y.name
    BY <1>2, <1>4, <1>7, <1>9, <1>12
  <2>2. QED
    BY <1>1, <1>3, <1>9, <1>10, <1>12, <2>1, DistinctConcat
<1> HIDE DEF abcd
<1>13. abcde \in Seq(ProgramDescription) /\ Elements(abcde) = Elements(abcd) \cup Elements(e)
  BY <1>1, <1>11, ElementsOfConcat
<1>14. ASSUME ProgramsAreValid(file)
       PROVE  Distinct(abcde)
  <2>1. \A x \in Elements(abcd) : \A y \in Elements(e) : x.name # y.name
    BY <1>2, <1>4, <1>6, <1>7, <1>9, <1>11, <1>14
  <2>2. QED
    BY <1>1, <1>3, <1>11, <1>12, <1>14, <2>1, DistinctConcat
<1> HIDE DEF abcde
<1>15. SelectedPrograms(file, ric, core, gnb, ues) = abcde
  BY <1>5 DEF abcde, abcd, abc, ab
<1>16. Elements(abcde) = Elements(a) \cup Elements(b) \cup Elements(c) \cup Elements(d) \cup Elements(e)
  BY <1>7, <1>9, <1>11, <1>13
<1>17. QED
  BY <1>13, <1>14, <1>15, <1>16 DEF a, b, c, d, e

-----------------------------------------------------------------------------
(***************************************************************************)
(* The inductive invariant.  Wanted(f) is what a folder holds once its     *)
(* kinds are checked out; Settled(i) says that of the i-th kind.           *)
(***************************************************************************)
BeforeCheckout == {"start", "api", "load", "read demo"}
AfterCheckout  == {"patch", "build", "select", "demo"}

Wanted(f) == IF found[f] # "absent" THEN found[f] ELSE AskedFor(f)

FolderOf(i) == Used(CheckedOutKinds[i]).folder

Settled(i) == Used(CheckedOutKinds[i]) # Nothing => folders[FolderOf(i)] = Wanted(FolderOf(i))

\* Nothing has happened to the folders, and the configuration is that of the file.
LoadedInv ==
    /\ stage \in BeforeCheckout => at = 1 /\ folders = found
    /\ stage \in {"read demo", "checkout", "clone"} \cup AfterCheckout =>
          /\ \A k \in Configurable : configs[k] = IF HasSection(k) THEN setup.configs[k] ELSE <<>>
          /\ selected["ue"] = IF configs["ue"] = <<>> THEN "none" ELSE configs["ue"][1].folder

(***************************************************************************)
(* A folder that was there is never written to; the folder that is being   *)
(* cloned is that of the kind at hand and of none before it; a folder that *)
(* is there and was not is that of a kind that has been checked out.       *)
(***************************************************************************)
FolderInv ==
    /\ \A f \in Folders :
          /\ found[f] # "cloning"
          /\ found[f] # "absent" => folders[f] = found[f]
          /\ folders[f] = "cloning" => stage = "clone" /\ f = FolderOf(at)
    /\ stage = "clone" =>
          Used(Kind) # Nothing /\ folders[FolderOf(at)] = "cloning" /\ found[FolderOf(at)] = "absent"
    /\ stage \in {"checkout", "clone"} =>
          \A f \in Folders :
             found[f] = "absent" => \/ folders[f] = "absent"
                                    \/ stage = "clone" /\ f = FolderOf(at)
                                    \/ \E i \in 1..(at - 1) : FolderOf(i) = f

SettledInv ==
    /\ stage \in {"checkout", "clone"} => \A i \in 1..(at - 1) : Settled(i)
    /\ stage \in AfterCheckout => \A i \in 1..4 : Settled(i)
    /\ stage \in AfterCheckout => request.patching /\ HasSection("ue")

\* What is to be built for a kind.
MadeFor(k) == IF k = "ue" THEN Elements(setup.names) ELSE {k}

IsBuilt(k, c) == images[c] = [folder |-> Used(k).folder, commit |-> Wanted(Used(k).folder)]

\* Whatever the dialog asks for has been built, or is in the list of what is left.
BuildInv ==
    /\ stage \in {"build", "select", "demo"} =>
          \A k \in {"near_rt_ric", "5gc", "gnb"} : Used(k) # Nothing
    /\ stage = "build" =>
          /\ request.build
          /\ \A i \in DOMAIN todo :
                LET k == todo[i][1]  n == todo[i][2]
                IN  /\ n \in DOMAIN configs[k] /\ configs[k][n].folder = Used(k).folder
                    /\ Used(k) # Nothing
    /\ stage \in {"build", "select", "demo"} /\ request.build =>
          \A k \in Configurable : (Used(k) # Nothing /\ dialog[k]) =>
              \A c \in MadeFor(k) :
                  \/ IsBuilt(k, c)
                  \/ /\ stage = "build"
                     /\ \E i \in DOMAIN todo : todo[i][1] = k /\ c \in BuiltBy(k, todo[i][2])

\* What TerminalIsUsable says, from the reading of the demo configuration on.
TerminalFits ==
    (IsValid(demoFile) /\ machine.system # "unknown") =>
        LET usable == {t \in Elements(demoFile.terminals) :
                          /\ t.system = machine.system
                          /\ machine.system = "linux" => IsInstalled(t, machine.installed)}
        IN  usable # {} =>
              /\ terminal \in usable
              /\ (machine.system = "linux" /\ \E t \in usable : t.name = demoFile.default) =>
                    terminal.name = demoFile.default

DemoInv ==
    /\ (stage \in {"checkout", "clone"} \cup AfterCheckout /\ request.run_demo) => TerminalFits
    /\ stage \in {"select", "demo"} => request.run_demo
    /\ stage = "demo" =>
          pool = SelectedPrograms(demoFile, Used("near_rt_ric").folder, Used("5gc").folder,
                                  Used("gnb").folder, UsedUEs)

\* Nothing is built without the sources, and not while they are being cloned.
ImagesInv == \A c \in Components : images[c] # Nothing => images[c].commit \in Commits \cup {"latest"}

IndInv == TypeOK /\ LoadedInv /\ FolderInv /\ SettledInv /\ BuildInv /\ ImagesInv /\ DemoInv

-----------------------------------------------------------------------------
(***************************************************************************)
(* The configuration in use: of the kind, and unique.                      *)
(***************************************************************************)
LEMMA UsedProperties ==
    ASSUME configs \in [Configurable -> Seq(Config)], NEW k \in Configurable
    PROVE  /\ Used(k) # Nothing =>
                 /\ Used(k) \in Config
                 /\ UsedNumber(k) \in DOMAIN configs[k] /\ configs[k][UsedNumber(k)] = Used(k)
                 /\ Used(k).folder = selected[k]
           /\ \A n \in DOMAIN configs[k] : IsUsed(k, n) => Used(k) = configs[k][n]
<1>1. configs[k] \in Seq(Config) /\ \A n \in DOMAIN configs[k] : n \in Nat /\ configs[k][n] \in Config
  OBVIOUS
<1>2. CASE \E n \in DOMAIN configs[k] : IsUsed(k, n)
  <2>1. UsedNumber(k) \in DOMAIN configs[k] /\ IsUsed(k, UsedNumber(k))
    BY <1>2 DEF UsedNumber
  <2>2. Used(k) = configs[k][UsedNumber(k)]
    BY <1>2 DEF Used, UsedNumber
  <2>3. ASSUME NEW n \in DOMAIN configs[k], IsUsed(k, n)
        PROVE  n = UsedNumber(k)
    <3>1. UsedNumber(k) \in 1..Len(configs[k]) /\ n \in 1..Len(configs[k])
      BY <1>1, <2>1
    <3>2. ~(n \in 1..UsedNumber(k) - 1) /\ ~(UsedNumber(k) \in 1..n - 1)
      BY <2>1, <2>3 DEF IsUsed
    <3>3. QED
      BY <3>1, <3>2
  <2>4. QED
    BY <1>1, <2>1, <2>2, <2>3 DEF IsUsed
<1>3. CASE ~\E n \in DOMAIN configs[k] : IsUsed(k, n)
  BY <1>3 DEF Used
<1>4. QED
  BY <1>2, <1>3

\* A folder in use is one of the folders; without a configuration there is none.
LEMMA UsedFolder ==
    ASSUME configs \in [Configurable -> Seq(Config)], NEW k \in Configurable
    PROVE  /\ Used(k) # Nothing <=> Used(k).folder \in Folders
           /\ Used(k) # Nothing => Used(k).commit \in Commits \cup {"latest"}
           /\ Used(k) = Nothing <=> Used(k).folder = "none"
<1>1. Used(k) # Nothing => Used(k) \in Config
  BY UsedProperties
<1>2. QED
  BY <1>1, FoldersAssumption DEF Nothing, Config

\* checkout_ue clones for the first UE.
LEMMA UsedUE ==
    ASSUME configs \in [Configurable -> Seq(Config)],
           selected["ue"] = IF configs["ue"] = <<>> THEN "none" ELSE configs["ue"][1].folder
    PROVE  Used("ue") = IF configs["ue"] = <<>> THEN Nothing ELSE configs["ue"][1]
<1>1. "ue" \in Configurable
  BY DEF Configurable
<1>2. CASE configs["ue"] = <<>>
  BY <1>1, <1>2 DEF Used
<1>3. CASE configs["ue"] # <<>>
  <2>1. configs["ue"] \in Seq(Config) /\ 1 \in DOMAIN configs["ue"]
    BY <1>1, <1>3
  <2>2. IsUsed("ue", 1)
    BY <1>3, <2>1 DEF IsUsed
  <2>3. QED
    BY <1>1, <1>3, <2>1, <2>2, UsedProperties
<1>4. QED
  BY <1>2, <1>3

(***************************************************************************)
(* The commit a folder is asked for with is that of the first kind that    *)
(* uses it.                                                                *)
(***************************************************************************)
LEMMA KindsInOrder ==
    /\ DOMAIN CheckedOutKinds = 1..4 /\ \A i \in 1..4 : CheckedOutKinds[i] \in Configurable
    /\ \A k \in Configurable : \E i \in 1..4 : CheckedOutKinds[i] = k
<1>1. /\ CheckedOutKinds[1] = "near_rt_ric" /\ CheckedOutKinds[2] = "5gc"
      /\ CheckedOutKinds[3] = "gnb" /\ CheckedOutKinds[4] = "ue"
      /\ DOMAIN CheckedOutKinds = 1..4
  BY DEF CheckedOutKinds
<1>2. 1..4 = {1, 2, 3, 4}
  OBVIOUS
<1>3. QED
  BY <1>1, <1>2 DEF Configurable

LEMMA AskedForFirst ==
    ASSUME configs \in [Configurable -> Seq(Config)], NEW i \in 1..4, NEW f,
           FolderOf(i) = f, \A j \in 1..(i - 1) : FolderOf(j) # f
    PROVE  AskedFor(f) = Used(CheckedOutKinds[i]).commit
<1> DEFINE IsFirst(n) == FolderOf(n) = f /\ \A j \in 1..(n - 1) : FolderOf(j) # f
           c == CHOOSE n \in 1..4 : IsFirst(n)
<1>1. IsFirst(i)
  OBVIOUS
<1>2. c \in 1..4 /\ IsFirst(c)
  BY <1>1
<1>3. c = i
  <2>1. ~(c \in 1..(i - 1)) /\ ~(i \in 1..(c - 1))
    BY <1>2
  <2>2. QED
    BY <1>2, <2>1
<1>4. AskedFor(f) = Used(CheckedOutKinds[c]).commit
  BY KindsInOrder DEF AskedFor, FolderOf
<1>5. QED
  BY <1>3, <1>4

LEMMA AskedForType ==
    ASSUME configs \in [Configurable -> Seq(Config)], NEW f \in Folders,
           \E i \in 1..4 : FolderOf(i) = f
    PROVE  AskedFor(f) \in Commits \cup {"latest"}
<1>1. PICK i \in 1..4 : FolderOf(i) = f /\ \A j \in 1..(i - 1) : FolderOf(j) # f
  <2>1. 1..4 = {1, 2, 3, 4} /\ 1..(1 - 1) = {} /\ 1..(2 - 1) = {1} /\ 1..(3 - 1) = {1, 2}
        /\ 1..(4 - 1) = {1, 2, 3}
    OBVIOUS
  <2>2. CASE FolderOf(1) = f
    BY <2>1, <2>2
  <2>3. CASE FolderOf(1) # f /\ FolderOf(2) = f
    BY <2>1, <2>3
  <2>4. CASE FolderOf(1) # f /\ FolderOf(2) # f /\ FolderOf(3) = f
    BY <2>1, <2>4
  <2>5. CASE FolderOf(1) # f /\ FolderOf(2) # f /\ FolderOf(3) # f
    BY <2>1, <2>5
  <2>6. QED
    BY <2>2, <2>3, <2>4, <2>5
<1>2. AskedFor(f) = Used(CheckedOutKinds[i]).commit
  BY <1>1, AskedForFirst
<1>3. CheckedOutKinds[i] \in Configurable /\ Used(CheckedOutKinds[i]).folder \in Folders
  BY <1>1, KindsInOrder DEF FolderOf
<1>4. QED
  BY <1>2, <1>3, UsedFolder

(***************************************************************************)
(* A step that leaves the configuration alone leaves what it means alone.  *)
(***************************************************************************)
LEMMA SameConfiguration ==
    ASSUME UNCHANGED <<configs, selected>>
    PROVE  /\ \A k : Used(k)' = Used(k)
           /\ \A i : FolderOf(i)' = FolderOf(i)
           /\ FolderOf(at)' = FolderOf(at') /\ Used(Kind)' = Used(CheckedOutKinds[at'])
           /\ \A f : AskedFor(f)' = AskedFor(f)
           /\ found' = found => \A f : Wanted(f)' = Wanted(f)
<1>1. \A k : Used(k)' = Used(k)
  BY DEF Used, IsUsed
<1>2. \A i : FolderOf(i)' = FolderOf(i)
  BY <1>1 DEF FolderOf
<1>3. \A f : AskedFor(f)' = AskedFor(f)
  BY <1>1 DEF AskedFor
<1>4. FolderOf(at)' = FolderOf(at') /\ Used(Kind)' = Used(CheckedOutKinds[at'])
  BY DEF FolderOf, Kind, Used, IsUsed
<1>5. QED
  BY <1>1, <1>2, <1>3, <1>4 DEF Wanted

-----------------------------------------------------------------------------
(***************************************************************************)
(* Types.                                                                  *)
(***************************************************************************)
LEMMA CallTypes ==
    ASSUME NEW r \in Calls
    PROVE  /\ r = [request |-> r.request, setup |-> r.setup, dialog |-> r.dialog]
           /\ r.request \in Request /\ r.setup \in SetupCfg /\ r.dialog \in [Configurable -> BOOLEAN]
  BY MainAssumption

LEMMA FileTypes ==
    ASSUME demoFile \in DemoFiles
    PROVE  /\ demoFile \in ProgramDescriptionCfg
           /\ demoFile.terminals \in Seq(TerminalDescription)
  BY MainAssumption DEF ProgramDescriptionCfg

LEMMA ContentTypes ==
    /\ Content \ {"cloning"} \subseteq Content
    /\ {"absent", "patched", "cloning", "latest"} \cup Commits = Content
  BY DEF Content

LEMMA InitType == Init => TypeOK
<1> SUFFICES ASSUME Init
             PROVE  TypeOK
  OBVIOUS
<1>1. PICK r \in FirstRuns : request = r.request /\ setup = r.setup /\ dialog = r.dialog
  BY DEF Init
<1>2. [request |-> request, setup |-> setup, dialog |-> dialog] \in Calls
  BY <1>1, CallTypes DEF Calls
<1>3. /\ configs \in [Configurable -> Seq(Config)]
      /\ selected \in [Configurable -> Folders \cup {"none"}]
      /\ folders \in [Folders -> Content] /\ found \in [Folders -> Content]
  BY OnDiskAssumption DEF Init, CheckoutInit, Content
<1>4. /\ images \in [Components -> {Nothing} \cup [folder : Folders, commit : Content]]
      /\ todo \in Seq(Configurable \X (Nat \ {0})) /\ Elements(pool) = {}
  BY DEF Init, Elements
<1>5. /\ runs \in 1..MaxRuns /\ at \in 1..4 /\ toPush \in BOOLEAN /\ code = "none"
      /\ stage \in Stages /\ terminal = NoTerminal
  <2>1. MaxRuns \in Nat \ {0}
    BY MainAssumption
  <2>2. /\ runs = 1 /\ at = 1 /\ toPush = FALSE /\ code = "none"
        /\ stage = "start" /\ terminal = NoTerminal
    BY DEF Init
  <2>3. runs \in 1..MaxRuns /\ at \in 1..4
    BY <2>1, <2>2
  <2>4. QED
    BY <2>2, <2>3 DEF Stages
<1>6. demoFile \in DemoFiles /\ machine \in Machines
  BY DEF Init
<1>7. QED
  BY <1>2, <1>3, <1>4, <1>5, <1>6, KindsInOrder DEF TypeOK

(***************************************************************************)
(* The terminals that are looked for are terminals of the file.            *)
(***************************************************************************)
LEMMA FilteredElements ==
    ASSUME NEW S, NEW s \in Seq(S), NEW I \in SUBSET DOMAIN s, I # {}
    PROVE  \E i \in I : First(Filtered(s, I)) = s[i]
<1>1. /\ Filtered(s, I) \in Seq(S) /\ Filtered(s, I) # <<>>
      /\ \A m \in DOMAIN Filtered(s, I) : \E i \in I : Filtered(s, I)[m] = s[i]
  BY FilteredProperties
<1>2. 1 \in DOMAIN Filtered(s, I)
  BY <1>1
<1>3. QED
  BY <1>1, <1>2 DEF First

LEMMA ParsedTerminalProperties ==
    ASSUME NEW file \in ProgramDescriptionCfg
    PROVE  \/ /\ ParsedTerminal(file) = NoTerminal
              /\ \A i \in DOMAIN file.terminals : file.terminals[i].name # file.default
           \/ \E i \in DOMAIN file.terminals : /\ ParsedTerminal(file) = file.terminals[i]
                                               /\ file.terminals[i].name = file.default
<1> DEFINE I == {i \in DOMAIN file.terminals : file.terminals[i].name = file.default}
<1>1. file.terminals \in Seq(TerminalDescription) /\ I \in SUBSET DOMAIN file.terminals
  BY DEF ProgramDescriptionCfg
<1>2. Filtered(file.terminals, I) = <<>> <=> I = {}
  BY <1>1, FilteredProperties
<1>3. I # {} => \E i \in I : First(Filtered(file.terminals, I)) = file.terminals[i]
  BY <1>1, FilteredElements
<1>4. QED
  BY <1>2, <1>3 DEF ParsedTerminal

LEMMA SuitableProperties ==
    ASSUME NEW file \in ProgramDescriptionCfg, NEW system
    PROVE  \/ /\ Suitable(file, system) = <<>>
              /\ \A i \in DOMAIN file.terminals : file.terminals[i].system # system
           \/ /\ Suitable(file, system) # <<>>
              /\ \E i \in DOMAIN file.terminals : /\ First(Suitable(file, system)) = file.terminals[i]
                                                  /\ file.terminals[i].system = system
<1> DEFINE I == {i \in DOMAIN file.terminals : file.terminals[i].system = system}
<1>1. file.terminals \in Seq(TerminalDescription) /\ I \in SUBSET DOMAIN file.terminals
  BY DEF ProgramDescriptionCfg
<1>2. Filtered(file.terminals, I) = <<>> <=> I = {}
  BY <1>1, FilteredProperties
<1>3. I # {} => \E i \in I : First(Filtered(file.terminals, I)) = file.terminals[i]
  BY <1>1, FilteredElements
<1>4. QED
  BY <1>2, <1>3 DEF Suitable

LEMMA UsedTerminalType ==
    ASSUME NEW file \in ProgramDescriptionCfg, file.terminals # <<>>, NEW system, NEW installed
    PROVE  UsedTerminal(file, system, installed) \in Elements(file.terminals)
<1>1. file.terminals \in Seq(TerminalDescription) /\ 1 \in DOMAIN file.terminals
  BY DEF ProgramDescriptionCfg
<1>2. First(file.terminals) \in Elements(file.terminals)
  BY <1>1 DEF First, Elements
<1>3. Suitable(file, system) # <<>> => First(Suitable(file, system)) \in Elements(file.terminals)
  BY SuitableProperties DEF Elements
<1>4. ParsedTerminal(file) # NoTerminal => ParsedTerminal(file) \in Elements(file.terminals)
  BY ParsedTerminalProperties DEF Elements
<1>5. Fallback(file, system) \in Elements(file.terminals)
  BY <1>2, <1>3, <1>4 DEF Fallback
<1>6. ASSUME system = "linux"
      PROVE  LinuxTerminal(file, installed) \in Elements(file.terminals)
  <2> DEFINE candidates == {i \in DOMAIN file.terminals :
                               /\ file.terminals[i].system = "linux"
                               /\ IsInstalled(file.terminals[i], installed)}
             preferred == {i \in candidates : file.terminals[i].name = ParsedTerminal(file).name}
  <2>1. candidates # {} => First(Filtered(file.terminals, candidates)) \in Elements(file.terminals)
    BY <1>1, FilteredElements DEF Elements
  <2>2. preferred # {} => First(Filtered(file.terminals, preferred)) \in Elements(file.terminals)
    BY <1>1, FilteredElements DEF Elements
  <2>3. QED
    BY <1>5, <1>6, <2>1, <2>2 DEF LinuxTerminal
<1>7. QED
  BY <1>2, <1>3, <1>5, <1>6 DEF UsedTerminal

(***************************************************************************)
(* The builds are of configurations that there are.                        *)
(***************************************************************************)
LEMMA BuildsProperties ==
    ASSUME configs \in [Configurable -> Seq(Config)], CanPatch
    PROVE  /\ Builds \in Seq(Configurable \X (Nat \ {0}))
           /\ \A i \in DOMAIN Builds :
                 LET k == Builds[i][1]  n == Builds[i][2]
                 IN  /\ n \in DOMAIN configs[k] /\ k \in Configurable
                     /\ k # "ue" => n = UsedNumber(k)
           /\ \A k \in {"near_rt_ric", "5gc", "gnb"} : dialog[k] =>
                 \E i \in DOMAIN Builds : Builds[i] = <<k, UsedNumber(k)>>
           /\ \A n \in DOMAIN configs["ue"] :
                 (dialog["ue"] /\ (~IsNative("ue", n) \/ FirstNative(n))) =>
                     \E i \in DOMAIN Builds : Builds[i] = <<"ue", n>>
<1> DEFINE components == [i \in 1..3 |-> <<CheckedOutKinds[i], UsedNumber(CheckedOutKinds[i])>>]
           ues == [n \in DOMAIN configs["ue"] |-> <<"ue", n>>]
           asked == {i \in 1..3 : dialog[CheckedOutKinds[i]]}
           built == {n \in DOMAIN ues :
                        dialog["ue"] /\ (~IsNative("ue", n) \/ FirstNative(n))}
           S == Configurable \X (Nat \ {0})
<1>1. /\ CheckedOutKinds[1] = "near_rt_ric" /\ CheckedOutKinds[2] = "5gc"
      /\ CheckedOutKinds[3] = "gnb" /\ 1..3 = {1, 2, 3}
      /\ {"near_rt_ric", "5gc", "gnb", "ue"} = Configurable
  BY DEF CheckedOutKinds, Configurable
<1>2. \A i \in 1..3 : /\ CheckedOutKinds[i] \in Configurable \ {"ue"}
                      /\ UsedNumber(CheckedOutKinds[i]) \in DOMAIN configs[CheckedOutKinds[i]]
  BY <1>1, UsedProperties DEF CanPatch
<1>3. \A k \in Configurable : configs[k] \in Seq(Config) /\ DOMAIN configs[k] \subseteq Nat \ {0}
  OBVIOUS
<1>4. components \in Seq(S) /\ DOMAIN components = 1..3
  BY <1>2, <1>3
<1>5. ues \in Seq(S) /\ DOMAIN ues = DOMAIN configs["ue"]
  <2>1. configs["ue"] \in Seq(Config) /\ "ue" \in Configurable
    BY <1>1
  <2>2. DOMAIN ues = 1..Len(configs["ue"]) /\ Len(configs["ue"]) \in Nat
    BY <2>1
  <2>3. \A n \in 1..Len(configs["ue"]) : ues[n] \in S
    BY <2>1
  <2>4. QED
    BY <2>1, <2>2, <2>3
<1> DEFINE first == Filtered(components, asked)  second == Filtered(ues, built)
<1>6. Builds = first \o second
  BY DEF Builds
<1>7. /\ \A i \in 1..3 : components[i] = <<CheckedOutKinds[i], UsedNumber(CheckedOutKinds[i])>>
      /\ \A n \in DOMAIN ues : ues[n] = <<"ue", n>>
      /\ \A i \in 1..3 : i \in asked <=> dialog[CheckedOutKinds[i]]
      /\ \A n \in DOMAIN ues :
            n \in built <=> (dialog["ue"] /\ (~IsNative("ue", n) \/ FirstNative(n)))
      /\ asked \in SUBSET DOMAIN components /\ built \in SUBSET DOMAIN ues
  OBVIOUS
<1> HIDE DEF components, ues, asked, built, S
<1>8. /\ first \in Seq(S)
      /\ \A m \in DOMAIN first : \E i \in asked : first[m] = components[i]
      /\ \A i \in asked : \E m \in DOMAIN first : first[m] = components[i]
  BY <1>4, <1>7, FilteredProperties
<1>9. /\ second \in Seq(S)
      /\ \A m \in DOMAIN second : \E i \in built : second[m] = ues[i]
      /\ \A i \in built : \E m \in DOMAIN second : second[m] = ues[i]
  <2>1. ues \in Seq(S) /\ built \in SUBSET DOMAIN ues
    BY <1>5, <1>7
  <2>2. QED
    BY ONLY <2>1, FilteredProperties
<1> HIDE DEF first, second
<1>10. Builds \in Seq(S) /\ Elements(Builds) = Elements(first) \cup Elements(second)
  BY <1>6, <1>8, <1>9, ElementsOfConcat
<1>11. ASSUME NEW b \in Elements(Builds)
       PROVE  /\ b[2] \in DOMAIN configs[b[1]] /\ b[1] \in Configurable
              /\ b[1] # "ue" => b[2] = UsedNumber(b[1])
  <2>1. CASE b \in Elements(first)
    <3>1. PICK m \in DOMAIN first : b = first[m]
      BY <2>1 DEF Elements
    <3>2. PICK i \in asked : first[m] = components[i]
      BY <1>8
    <3>3. i \in 1..3
      BY <1>4, <1>7
    <3>4. b = <<CheckedOutKinds[i], UsedNumber(CheckedOutKinds[i])>>
      BY <1>7, <3>1, <3>2, <3>3
    <3>5. QED
      BY <1>2, <3>3, <3>4
  <2>2. CASE b \in Elements(second)
    <3>1. PICK n \in DOMAIN ues : b = <<"ue", n>>
      BY <1>7, <1>9, <2>2 DEF Elements
    <3>2. QED
      BY <1>1, <1>5, <3>1
  <2>3. QED
    BY <1>10, <1>11, <2>1, <2>2
<1>12. ASSUME NEW k \in {"near_rt_ric", "5gc", "gnb"}, dialog[k]
       PROVE  <<k, UsedNumber(k)>> \in Elements(Builds)
  <2>1. PICK i \in 1..3 : CheckedOutKinds[i] = k
    BY <1>1
  <2>2. i \in asked /\ components[i] = <<k, UsedNumber(k)>>
    BY <1>7, <1>12, <2>1
  <2>3. components[i] \in Elements(first)
    BY <1>8, <2>2 DEF Elements
  <2>4. QED
    BY <1>10, <2>2, <2>3
<1>13. ASSUME NEW n \in DOMAIN configs["ue"], dialog["ue"], ~IsNative("ue", n) \/ FirstNative(n)
       PROVE  <<"ue", n>> \in Elements(Builds)
  <2>1. n \in built /\ ues[n] = <<"ue", n>>
    BY <1>5, <1>7, <1>13
  <2>2. ues[n] \in Elements(second)
    BY <1>9, <2>1 DEF Elements
  <2>3. QED
    BY <1>10, <2>1, <2>2
<1>14. QED
  BY <1>10, <1>11, <1>12, <1>13 DEF Elements, S

(***************************************************************************)
(* Where a kind is done with, the index goes on, or back to the first.     *)
(***************************************************************************)
LEMMA NextKindProperties ==
    ASSUME at \in 1..4, NextKind
    PROVE  /\ at' \in 1..4 /\ stage' \in {"checkout", "patch", "ended"}
           /\ stage' = "checkout" => at < 4 /\ at' = at + 1
           /\ stage' = "patch" => at = 4 /\ request.patching
           /\ code' \in {code, "ok"}
<1>1. Len(CheckedOutKinds) = 4
  BY DEF CheckedOutKinds
<1>2. CASE at < 4
  BY <1>1, <1>2 DEF NextKind, Enter, End
<1>3. CASE at = 4
  BY <1>1, <1>3 DEF NextKind, Enter, End
<1>4. QED
  BY <1>2, <1>3

LEMMA TypeStep == IndInv /\ [Next]_vars => TypeOK'
<1> SUFFICES ASSUME IndInv, [Next]_vars
             PROVE  TypeOK'
  OBVIOUS
<1> USE DEF TypeOK
<1>0. TypeOK /\ at \in 1..4 /\ DOMAIN CheckedOutKinds = 1..4 /\ Kind \in Configurable
  BY KindsInOrder DEF IndInv, Kind
<1>1. CASE Start
  BY <1>0, <1>1 DEF Start, End, Enter, Stages, checkoutVars
<1>2. CASE Load
  <2>0. /\ setup \in SetupCfg /\ setup.env \in EnvironmentCfg
        /\ setup.configs \in [Configurable -> Seq(Config)]
    BY <1>0, CallTypes DEF SetupCfg
  <2>4. UNCHANGED <<request, dialog, setup, demoFile, machine, at, todo, toPush, images,
                    terminal, pool, runs, found, folders>>
    BY <1>2 DEF Load
  <2>1. CASE configs' = configs /\ selected' = selected /\ End("raised")
    BY <1>0, <2>1, <2>4 DEF End, Stages
  <2>2. CASE ~(configs' = configs /\ selected' = selected /\ End("raised"))
    <3>1. /\ stage' \in {"read demo", "checkout"} /\ code' = code
          /\ configs' = [k \in Configurable |-> IF HasSection(k) THEN setup.configs[k] ELSE <<>>]
          /\ selected' = [k \in Configurable |->
                CASE k = "ue" -> IF configs'[k] = <<>> THEN "none" ELSE configs'[k][1].folder
                  [] k # "ue" /\ HasSection("environment") -> setup.env.selected[k]
                  [] OTHER -> "none"]
          /\ ~(HasSection("environment") /\ EnvironmentRaises(setup.env))
      BY <1>2, <2>2 DEF Load, Enter
    <3>2. configs' \in [Configurable -> Seq(Config)]
      <4>1. \A k \in Configurable : setup.configs[k] \in Seq(Config) /\ <<>> \in Seq(Config)
        BY <2>0
      <4>2. QED
        BY <3>1, <4>1
    <3>3. ASSUME NEW k \in Configurable
          PROVE  selected'[k] \in Folders \cup {"none"}
      <4>1. CASE k = "ue"
        <5>1. configs'[k] \in Seq(Config)
          BY <3>2
        <5>2. configs'[k] # <<>> => configs'[k][1] \in Config
          BY <5>1
        <5>3. QED
          BY <3>1, <4>1, <5>2 DEF Config
      <4>2. CASE k # "ue" /\ HasSection("environment")
        <5>1. k \in {"near_rt_ric", "5gc", "gnb"}
          BY <4>2 DEF Configurable
        <5>2. setup.env.selected[k] \in (Folders \cup {"none", "invalid"}) \ {"invalid"}
          BY <2>0, <3>1, <4>2, <5>1 DEF EnvironmentCfg, EnvironmentRaises
        <5>3. QED
          BY <3>1, <4>2, <5>2
      <4>3. CASE k # "ue" /\ ~HasSection("environment")
        BY <3>1, <4>3
      <4>4. QED
        BY <4>1, <4>2, <4>3
    <3>4. selected' \in [Configurable -> Folders \cup {"none"}]
      BY <3>1, <3>3
    <3>5. QED
      BY <1>0, <2>4, <3>1, <3>2, <3>4 DEF Stages
  <2>3. QED
    BY <2>1, <2>2
<1>3. CASE ReadDemoFile
  <2>1. terminal' \in Elements(demoFile.terminals) \cup {NoTerminal}
    <3>1. demoFile \in ProgramDescriptionCfg
      BY <1>0, FileTypes
    <3>2. SearchesTerminal(demoFile) => demoFile.terminals # <<>>
      BY DEF SearchesTerminal
    <3>3. \/ terminal' = terminal \/ terminal' = ParsedTerminal(demoFile)
          \/ /\ SearchesTerminal(demoFile)
             /\ terminal' = UsedTerminal(demoFile, machine.system, machine.installed)
      BY <1>3 DEF ReadDemoFile
    <3>4. ParsedTerminal(demoFile) \in Elements(demoFile.terminals) \cup {NoTerminal}
      BY <3>1, ParsedTerminalProperties DEF Elements
    <3>5. QED
      BY <1>0, <3>1, <3>2, <3>3, <3>4, UsedTerminalType
  <2>2. stage' \in {"ended", "checkout"} /\ code' \in {code, "raised"}
    BY <1>3 DEF ReadDemoFile, End, Enter
  <2>3. QED
    BY <1>0, <1>3, <2>1, <2>2 DEF ReadDemoFile, Stages, checkoutVars
<1>4. CASE CheckoutKind
  <2>1. \/ stage' = "ended" /\ code' = "raised" /\ at' = at /\ folders' = folders
        \/ NextKind /\ folders' = folders
        \/ /\ stage' = "clone" /\ code' = code /\ at' = at
           /\ folders' = [folders EXCEPT ![Used(Kind).folder] = "cloning"]
    BY <1>4 DEF CheckoutKind, End, Enter, BeginsToClone
  <2>2. folders' \in [Folders -> Content] /\ stage' \in Stages /\ at' \in 1..4
        /\ code' \in {"none", "ok", "failed", "raised"}
    BY <1>0, <2>1, NextKindProperties DEF Content, Stages
  <2>3. QED
    BY <1>0, <1>4, <2>2 DEF CheckoutKind
<1>5. CASE Clone
  <2>1. PICK result \in CloneResults(Used(Kind)) :
           folders' = [folders EXCEPT ![Used(Kind).folder] = result.content] /\ EndsClone(result)
    BY <1>5 DEF Clone
  <2>2. Used(Kind) # Nothing
    BY <1>5 DEF Clone, IndInv, FolderInv
  <2>3. result.content \in Content
    BY <1>0, <2>2, UsedFolder DEF CloneResults, Content
  <2>4. stage' \in Stages /\ at' \in 1..4 /\ code' \in {"none", "ok", "failed", "raised"}
    BY <1>0, <2>1, NextKindProperties DEF EndsClone, End, Stages
  <2>5. folders' \in [Folders -> Content]
    BY <1>0, <2>1, <2>3
  <2>6. UNCHANGED <<request, dialog, setup, demoFile, machine, todo, toPush, images,
                    terminal, pool, runs, found, configs, selected>>
    BY <1>5 DEF Clone
  <2>7. QED
    BY <1>0, <2>4, <2>5, <2>6
<1>6. CASE Patch
  <2>1. folders' \in [Folders -> Content]
    BY <1>0, <1>6 DEF Patch, CopyFiles, Content
  <2>2. todo' \in Seq(Configurable \X (Nat \ {0})) /\ toPush' \in BOOLEAN
    <3>1. CanPatch => Builds \in Seq(Configurable \X (Nat \ {0}))
      BY <1>0, BuildsProperties
    <3>2. QED
      BY <1>0, <1>6, <3>1 DEF Patch
  <2>3. stage' \in Stages /\ code' \in {"none", "ok", "failed", "raised"}
    BY <1>0, <1>6 DEF Patch, End, Enter, Finish, Stages
  <2>4. QED
    BY <1>0, <1>6, <2>1, <2>2, <2>3 DEF Patch
<1>7. CASE Build
  <2> DEFINE k == Head(todo)[1]  n == Head(todo)[2]  f == configs[k][n].folder
  <2>1. todo # <<>> /\ 1 \in DOMAIN todo /\ Head(todo) = todo[1]
    BY <1>0, <1>7 DEF Build
  <2>2. k \in Configurable /\ n \in DOMAIN configs[k] /\ f \in Folders
    <3>1. k \in Configurable /\ n \in DOMAIN configs[k]
      BY <1>0, <1>7, <2>1 DEF Build, IndInv, BuildInv
    <3>2. configs[k] \in Seq(Config)
      BY <1>0, <3>1
    <3>3. configs[k][n] \in Config
      BY <3>1, <3>2
    <3>4. QED
      BY <3>1, <3>3 DEF Config
  <2>3. [folder |-> f, commit |-> folders[f]] \in [folder : Folders, commit : Content]
    BY <1>0, <2>2
  <2> HIDE DEF f
  <2>4. images' \in [Components -> {Nothing} \cup [folder : Folders, commit : Content]]
    <3>1. \/ images' = images
          \/ images' = [c \in Components |->
                           IF c \in BuiltBy(k, n) THEN [folder |-> f, commit |-> folders[f]]
                           ELSE images[c]]
      BY <1>7 DEF Build, f
    <3>2. QED
      BY <1>0, <2>3, <3>1
  <2>5. todo' \in Seq(Configurable \X (Nat \ {0})) /\ stage' \in Stages
        /\ code' \in {"none", "ok", "failed", "raised"}
    <3>1. Tail(todo) \in Seq(Configurable \X (Nat \ {0}))
      BY <1>0, <2>1
    <3>2. \E result \in BuildResults(k, n) : EndsBuild(result)
      BY <1>7 DEF Build
    <3>3. BuildResults(k, n) \subseteq {"built", "raised", "failed"}
      BY DEF BuildResults
    <3>4. QED
      BY <1>0, <3>1, <3>2, <3>3 DEF EndsBuild, End, Enter, Stages
  <2>6. QED
    BY <1>0, <1>7, <2>4, <2>5 DEF Build, checkoutVars
<1>8. CASE Push
  BY <1>0, <1>8 DEF Push, Finish, End, Enter, Stages, checkoutVars
<1>9. CASE Select
  <2>1. Elements(pool') \subseteq
           UNION {Elements(demoFile.groups[g].programs) : g \in DOMAIN demoFile.groups}
    <3>1. demoFile \in ProgramDescriptionCfg
      BY <1>0, FileTypes
    <3>2. \A type : Elements(ProgramsOf(demoFile, type)) \subseteq
             UNION {Elements(demoFile.groups[g].programs) : g \in DOMAIN demoFile.groups}
      BY <3>1, ProgramsOfGroup DEF Elements
    <3>3. \A p \in Elements(pool') : \E type : p \in Elements(ProgramsOf(demoFile, type))
      BY <1>9, <3>1, SelectedProperties, FirstMatchingProperties, MatchingUEsProperties DEF Select
    <3>4. QED
      BY <3>2, <3>3
  <2>2. stage' \in {"ended", "demo"} /\ code' \in {code, "raised"}
    BY <1>9 DEF Select, End, Enter
  <2>3. QED
    BY <1>0, <1>9, <2>1, <2>2 DEF Select, Stages, checkoutVars
<1>10. CASE Again
  <2>1. PICK r \in LaterRuns : request' = r.request /\ setup' = r.setup /\ dialog' = r.dialog
    BY <1>10 DEF Again
  <2>2. [request |-> request', setup |-> setup', dialog |-> dialog'] \in Calls
    BY <2>1, CallTypes DEF Calls
  <2>3. /\ configs' \in [Configurable -> Seq(Config)]
        /\ selected' \in [Configurable -> Folders \cup {"none"}]
        /\ folders' \in [Folders -> Content] /\ found' \in [Folders -> Content]
    BY <1>0, <1>10 DEF Again
  <2>4. runs' \in 1..MaxRuns /\ at' \in 1..4
    <3>1. MaxRuns \in Nat
      BY MainAssumption
    <3>2. QED
      BY <1>0, <1>10, <3>1 DEF Again
  <2>5. todo' \in Seq(Configurable \X (Nat \ {0})) /\ Elements(pool') = {}
    BY <1>10 DEF Again, Elements
  <2>6. QED
    BY <1>0, <1>10, <2>2, <2>3, <2>4, <2>5 DEF Again, Stages
<1>11. CASE UNCHANGED vars
  BY <1>0, <1>11 DEF vars, mainVars, checkoutVars
<1>12. QED
  BY <1>1, <1>2, <1>3, <1>4, <1>5, <1>6, <1>7, <1>8, <1>9, <1>10, <1>11 DEF Next

-----------------------------------------------------------------------------
(***************************************************************************)
(* Until the checkout begins nothing happens to the folders; from Load on  *)
(* the configuration is that of the file.                                  *)
(***************************************************************************)
LEMMA LoadedInit == Init => LoadedInv
  BY DEF Init, CheckoutInit, LoadedInv, BeforeCheckout, AfterCheckout

\* Stages from "checkout" on follow one of "read demo" or later.
LEMMA StageStep ==
    ASSUME TypeOK, [Next]_vars, ~Load, ~Again
    PROVE  /\ UNCHANGED <<configs, selected, setup, request, dialog, demoFile, machine, found>>
           /\ stage' \in BeforeCheckout =>
                 stage \in BeforeCheckout /\ UNCHANGED <<at, folders>>
           /\ stage' \in {"read demo", "checkout", "clone"} \cup AfterCheckout =>
                 stage \in {"read demo", "checkout", "clone"} \cup AfterCheckout
           /\ stage' \in AfterCheckout =>
                 stage \in AfterCheckout \/ CheckoutKind \/ Clone
           /\ stage' \in {"build", "select", "demo"} =>
                 stage \in {"build", "select", "demo"} \/ Patch
<1> USE DEF BeforeCheckout, AfterCheckout
<1>0. at \in 1..4
  BY KindsInOrder DEF TypeOK
<1>1. CASE Start
  BY <1>1 DEF Start, End, Enter, checkoutVars
<1>2. CASE ReadDemoFile
  <2>1. /\ UNCHANGED <<configs, selected, setup, request, dialog, demoFile, machine, found>>
        /\ stage = "read demo" /\ stage' \in {"ended", "checkout"}
    BY <1>2 DEF ReadDemoFile, End, Enter, checkoutVars
  <2>2. QED
    BY <2>1
<1>3. CASE CheckoutKind
  <2>1. /\ UNCHANGED <<configs, selected, setup, request, dialog, demoFile, machine, found>>
        /\ stage = "checkout" /\ stage' \in {"ended", "checkout", "patch", "clone"}
    BY <1>0, <1>3, NextKindProperties DEF CheckoutKind, End, Enter
  <2>2. QED
    BY <1>3, <2>1
<1>4. CASE Clone
  <2>1. /\ UNCHANGED <<configs, selected, setup, request, dialog, demoFile, machine, found>>
        /\ stage = "clone" /\ stage' \in {"ended", "checkout", "patch"}
    BY <1>0, <1>4, NextKindProperties DEF Clone, EndsClone, End
  <2>2. QED
    BY <1>4, <2>1
<1>5. CASE Patch
  <2>1. /\ UNCHANGED <<configs, selected, setup, request, dialog, demoFile, machine, found>>
        /\ stage = "patch" /\ stage' \in {"ended", "build", "select"}
    BY <1>5 DEF Patch, End, Enter, Finish
  <2>2. QED
    BY <1>5, <2>1
<1>6. CASE Build
  <2>1. /\ UNCHANGED <<configs, selected, setup, request, dialog, demoFile, machine, found>>
        /\ stage = "build"
    BY <1>6 DEF Build, checkoutVars
  <2>2. PICK result \in BuildResults(Head(todo)[1], Head(todo)[2]) : EndsBuild(result)
    BY <1>6 DEF Build
  <2>3. stage' \in {"ended", "build"}
    BY <2>2 DEF EndsBuild, BuildResults, End, Enter
  <2>4. QED
    BY <2>1, <2>3
<1>7. CASE Push
  BY <1>7 DEF Push, Finish, End, Enter, checkoutVars
<1>8. CASE Select
  <2>1. /\ UNCHANGED <<configs, selected, setup, request, dialog, demoFile, machine, found>>
        /\ stage = "select" /\ stage' \in {"ended", "demo"}
    BY <1>8 DEF Select, End, Enter, checkoutVars
  <2>2. QED
    BY <2>1
<1>9. CASE UNCHANGED vars
  BY <1>9 DEF vars, mainVars, checkoutVars
<1>10. QED
  BY <1>1, <1>2, <1>3, <1>4, <1>5, <1>6, <1>7, <1>8, <1>9 DEF Next

LEMMA LoadedStep == IndInv /\ [Next]_vars => LoadedInv'
<1> SUFFICES ASSUME IndInv, [Next]_vars
             PROVE  LoadedInv'
  OBVIOUS
<1>0. TypeOK /\ LoadedInv
  BY DEF IndInv
<1>1. CASE Load
  <2>1. UNCHANGED <<at, folders, found, setup>> /\ stage = "load"
    BY <1>1 DEF Load
  <2>2. \/ stage' = "ended"
        \/ /\ stage' \in {"read demo", "checkout"}
           /\ configs' = [k \in Configurable |-> IF HasSection(k) THEN setup.configs[k] ELSE <<>>]
           /\ selected' = [k \in Configurable |->
                 CASE k = "ue" -> IF configs'[k] = <<>> THEN "none" ELSE configs'[k][1].folder
                   [] k # "ue" /\ HasSection("environment") -> setup.env.selected[k]
                   [] OTHER -> "none"]
    BY <1>1 DEF Load, End, Enter
  <2>3. stage' = "ended" => LoadedInv'
    BY DEF LoadedInv, BeforeCheckout, AfterCheckout
  <2>4. "ue" \in Configurable /\ \A k : HasSection(k)' = HasSection(k)
    BY <2>1 DEF Configurable, HasSection
  <2>5. QED
    BY <1>0, <2>1, <2>2, <2>3, <2>4 DEF LoadedInv, BeforeCheckout, AfterCheckout
<1>2. CASE Again
  BY <1>2 DEF Again, LoadedInv, BeforeCheckout, AfterCheckout
<1>3. CASE ~Load /\ ~Again
  <2>1. /\ UNCHANGED <<configs, selected, setup, found>>
        /\ stage' \in BeforeCheckout => stage \in BeforeCheckout /\ UNCHANGED <<at, folders>>
        /\ stage' \in {"read demo", "checkout", "clone"} \cup AfterCheckout =>
              stage \in {"read demo", "checkout", "clone"} \cup AfterCheckout
    BY <1>0, <1>3, StageStep
  <2>2. \A k : HasSection(k)' = HasSection(k)
    BY <2>1 DEF HasSection
  <2>3. QED
    BY <1>0, <2>1, <2>2 DEF LoadedInv
<1>4. QED
  BY <1>1, <1>2, <1>3

-----------------------------------------------------------------------------
(***************************************************************************)
(* The folders.                                                            *)
(***************************************************************************)
LEMMA WantedType ==
    ASSUME TypeOK, FolderInv, NEW i \in 1..4, Used(CheckedOutKinds[i]) # Nothing
    PROVE  /\ FolderOf(i) \in Folders
           /\ Wanted(FolderOf(i)) \in Content \ {"absent", "cloning"}
<1>1. configs \in [Configurable -> Seq(Config)] /\ found \in [Folders -> Content]
  BY DEF TypeOK
<1>2. FolderOf(i) \in Folders
  BY <1>1, KindsInOrder, UsedFolder DEF FolderOf
<1>3. AskedFor(FolderOf(i)) \in Commits \cup {"latest"}
  BY <1>1, <1>2, AskedForType
<1>4. found[FolderOf(i)] \in Content \ {"cloning"}
  BY <1>1, <1>2 DEF FolderInv
<1>5. QED
  BY <1>2, <1>3, <1>4, CommitsAssumption DEF Wanted, Content

LEMMA FolderInit == Init => FolderInv
<1> SUFFICES ASSUME Init
             PROVE  FolderInv
  OBVIOUS
<1>1. folders = OnDisk /\ found = folders /\ stage = "start"
  BY DEF Init, CheckoutInit
<1>2. \A f \in Folders : OnDisk[f] # "cloning"
  BY OnDiskAssumption
<1>3. QED
  BY <1>1, <1>2 DEF FolderInv

\* A kind that needs no clone, or whose clone has succeeded, is settled.
LEMMA PassesAreSettled ==
    ASSUME TypeOK, FolderInv, stage = "checkout", NothingToClone(Used(Kind)),
           \A i \in 1..(at - 1) : Settled(i)
    PROVE  Settled(at)
<1> SUFFICES ASSUME Used(Kind) # Nothing
             PROVE  folders[FolderOf(at)] = Wanted(FolderOf(at))
  BY DEF Settled, Kind
<1> DEFINE f == FolderOf(at)
<1>1. at \in 1..4 /\ f \in Folders
  BY WantedType, KindsInOrder DEF TypeOK, Kind
<1>2. folders[f] # "absent"
  BY DEF NothingToClone, FolderOf, Kind
<1>3. CASE found[f] # "absent"
  BY <1>1, <1>3 DEF FolderInv, Wanted
<1>4. CASE found[f] = "absent"
  <2>1. PICK i \in 1..(at - 1) : FolderOf(i) = f
    BY <1>1, <1>2, <1>4 DEF FolderInv
  <2>2. i \in 1..4 /\ CheckedOutKinds[i] \in Configurable /\ configs \in [Configurable -> Seq(Config)]
    BY <1>1, KindsInOrder DEF TypeOK
  <2>3. Used(CheckedOutKinds[i]) # Nothing
    BY <1>1, <2>1, <2>2, UsedFolder DEF FolderOf
  <2>4. QED
    BY <2>1, <2>3 DEF Settled
<1>5. QED
  BY <1>3, <1>4

LEMMA ClonesAreSettled ==
    ASSUME TypeOK, FolderInv, stage = "clone", \A i \in 1..(at - 1) : Settled(i)
    PROVE  /\ at \in 1..4 /\ FolderOf(at) \in Folders /\ Used(Kind) # Nothing
           /\ \A i \in 1..(at - 1) :
                 Used(CheckedOutKinds[i]) # Nothing => FolderOf(i) # FolderOf(at)
           /\ Wanted(FolderOf(at)) = Used(Kind).commit
<1> DEFINE f == FolderOf(at)
<1>1. /\ at \in 1..4 /\ configs \in [Configurable -> Seq(Config)] /\ Used(Kind) # Nothing
      /\ folders[f] = "cloning" /\ found[f] = "absent"
  BY KindsInOrder DEF TypeOK, FolderInv
<1>2. f \in Folders
  BY <1>1, WantedType DEF Kind
<1>3. ASSUME NEW i \in 1..(at - 1), FolderOf(i) = f
      PROVE  FALSE
  <2>1. i \in 1..4 /\ CheckedOutKinds[i] \in Configurable
    BY <1>1, KindsInOrder
  <2>2. Used(CheckedOutKinds[i]) # Nothing
    BY <1>1, <1>2, <1>3, <2>1, UsedFolder DEF FolderOf
  <2>3. folders[f] = Wanted(f)
    BY <1>3, <2>2 DEF Settled
  <2>4. Wanted(f) # "cloning"
    BY <1>3, <2>1, <2>2, WantedType
  <2>5. QED
    BY <1>1, <2>3, <2>4
<1>4. AskedFor(f) = Used(CheckedOutKinds[at]).commit
  BY <1>1, <1>3, AskedForFirst
<1>5. QED
  BY <1>1, <1>2, <1>3, <1>4 DEF Wanted, Kind

LEMMA FolderStep == IndInv /\ [Next]_vars => FolderInv'
<1> SUFFICES ASSUME IndInv, [Next]_vars
             PROVE  FolderInv'
  OBVIOUS
<1>0. /\ TypeOK /\ LoadedInv /\ FolderInv /\ SettledInv
      /\ at \in 1..4 /\ folders \in [Folders -> Content] /\ found \in [Folders -> Content]
  BY KindsInOrder DEF IndInv, TypeOK
\* Outside the checkout there is nothing to say but that found folders stay.
<1>1. ASSUME stage # "clone", stage' \notin {"checkout", "clone"}, UNCHANGED <<folders, found>>
      PROVE  FolderInv'
  BY <1>0, <1>1 DEF FolderInv
<1>2. ASSUME stage \in BeforeCheckout, stage' = "checkout", UNCHANGED <<folders, found>>
      PROVE  FolderInv'
  <2>1. folders = found
    BY <1>0, <1>2 DEF LoadedInv
  <2>2. QED
    BY <1>0, <1>2, <2>1 DEF FolderInv, BeforeCheckout
<1>3. CASE Start
  BY <1>1, <1>3 DEF Start, End, Enter, checkoutVars
<1>4. CASE Load
  <2>1. stage = "load" /\ UNCHANGED <<folders, found>> /\ stage' \in {"ended", "read demo", "checkout"}
    BY <1>4 DEF Load, End, Enter
  <2>2. QED
    BY <1>1, <1>2, <2>1 DEF BeforeCheckout
<1>5. CASE ReadDemoFile
  <2>1. stage = "read demo" /\ UNCHANGED <<folders, found>> /\ stage' \in {"ended", "checkout"}
    BY <1>5 DEF ReadDemoFile, End, Enter, checkoutVars
  <2>2. QED
    BY <1>1, <1>2, <2>1 DEF BeforeCheckout
<1>6. CASE CheckoutKind
  <2>1. stage = "checkout" /\ UNCHANGED <<found, configs, selected>>
    BY <1>6 DEF CheckoutKind
  <2>2. \/ stage' = "ended" /\ folders' = folders
        \/ NextKind /\ folders' = folders
        \/ /\ ~NothingToClone(Used(Kind)) /\ stage' = "clone" /\ at' = at
           /\ folders' = [folders EXCEPT ![Used(Kind).folder] = "cloning"]
    BY <1>6 DEF CheckoutKind, End, Enter, BeginsToClone
  <2>3. /\ \A i : FolderOf(i)' = FolderOf(i)
        /\ FolderOf(at)' = FolderOf(at') /\ Used(Kind)' = Used(CheckedOutKinds[at'])
    BY <2>1, SameConfiguration
  <2>4. CASE stage' \in {"ended", "patch"} /\ folders' = folders
    BY <1>1, <2>1, <2>4
  <2>5. CASE stage' = "checkout" /\ at' = at + 1 /\ folders' = folders
    <3>1. \A i \in 1..(at - 1) : i \in 1..(at' - 1)
      BY <1>0, <2>5
    <3>2. QED
      BY <1>0, <2>1, <2>3, <2>5, <3>1 DEF FolderInv
  <2>6. CASE /\ ~NothingToClone(Used(Kind)) /\ stage' = "clone" /\ at' = at
             /\ folders' = [folders EXCEPT ![Used(Kind).folder] = "cloning"]
    <3> DEFINE f == FolderOf(at)
    <3>1. Used(Kind) # Nothing /\ folders[f] = "absent" /\ folders' = [folders EXCEPT ![f] = "cloning"]
      BY <2>6 DEF NothingToClone, FolderOf, Kind
    <3>2. f \in Folders
      BY <1>0, <3>1, WantedType DEF Kind
    <3>3. found[f] = "absent"
      BY <1>0, <3>1, <3>2 DEF FolderInv
    <3>4. FolderOf(at)' = f /\ Used(Kind)' = Used(Kind)
      BY <2>3, <2>6 DEF Kind
    <3> HIDE DEF f
    <3>5. folders'[f] = "cloning" /\ \A g \in Folders \ {f} : folders'[g] = folders[g]
      BY <1>0, <3>1, <3>2
    <3>6. QED
      BY <1>0, <2>1, <2>3, <2>6, <3>1, <3>2, <3>3, <3>4, <3>5 DEF FolderInv
  <2>7. QED
    BY <1>0, <2>2, <2>4, <2>5, <2>6, NextKindProperties
<1>7. CASE Clone
  <2> DEFINE f == FolderOf(at)
  <2>1. stage = "clone" /\ UNCHANGED <<found, configs, selected>>
    BY <1>7 DEF Clone
  <2>2. PICK result \in CloneResults(Used(Kind)) :
           folders' = [folders EXCEPT ![f] = result.content] /\ EndsClone(result)
    BY <1>7 DEF Clone, FolderOf, Kind
  <2>3. f \in Folders /\ Used(Kind) # Nothing /\ found[f] = "absent"
    BY <1>0, <2>1, WantedType DEF FolderInv, Kind
  <2>4. result.content # "cloning"
    <3>1. Used(Kind).commit \in Commits \cup {"latest"}
      BY <1>0, <2>3, KindsInOrder, UsedFolder DEF TypeOK, Kind
    <3>2. QED
      BY <2>2, <3>1, CommitsAssumption DEF CloneResults
  <2>5. /\ \A i : FolderOf(i)' = FolderOf(i)
        /\ FolderOf(at)' = FolderOf(at')
    BY <2>1, SameConfiguration
  <2> HIDE DEF f
  <2>6. folders'[f] # "cloning" /\ \A g \in Folders \ {f} : folders'[g] = folders[g]
    BY <1>0, <2>2, <2>3, <2>4
  <2>7. \A g \in Folders : folders'[g] # "cloning" /\ (found[g] # "absent" => folders'[g] = found[g])
    BY <1>0, <2>1, <2>3, <2>6 DEF FolderInv, f
  <2>8. stage' \in {"patch", "ended"} \/ (stage' = "checkout" /\ at' = at + 1)
    BY <1>0, <2>2, NextKindProperties DEF EndsClone, End
  <2>9. CASE stage' \in {"patch", "ended"}
    BY <1>0, <2>1, <2>7, <2>9 DEF FolderInv
  <2>10. CASE stage' = "checkout" /\ at' = at + 1
    <3>1. \A g \in Folders : found[g] = "absent" =>
             folders'[g] = "absent" \/ \E i \in 1..at : FolderOf(i) = g
      <4> SUFFICES ASSUME NEW g \in Folders, found[g] = "absent", folders'[g] # "absent"
                   PROVE  \E i \in 1..at : FolderOf(i) = g
        OBVIOUS
      <4>1. CASE g = f
        BY <1>0, <4>1 DEF f
      <4>2. CASE g # f
        <5>1. PICK i \in 1..(at - 1) : FolderOf(i) = g
          BY <1>0, <2>1, <2>6, <4>2 DEF FolderInv, f
        <5>2. i \in 1..at
          BY <1>0
        <5>3. QED
          BY <5>1, <5>2
      <4>3. QED
        BY <4>1, <4>2
    <3>2. at' - 1 = at
      BY <1>0, <2>10
    <3>3. QED
      BY <1>0, <2>1, <2>5, <2>7, <2>10, <3>1, <3>2 DEF FolderInv
  <2>11. QED
    BY <2>8, <2>9, <2>10
<1>8. CASE Patch
  <2>1. /\ stage = "patch" /\ UNCHANGED found /\ stage' \notin {"checkout", "clone"}
        /\ folders' = folders \/ CopyFiles
    BY <1>8 DEF Patch, End, Enter, Finish
  <2>2. CASE CopyFiles
    <3>1. \A f \in Folders : /\ folders[f] # "absent" => folders'[f] = folders[f]
                             /\ folders[f] = "absent" => folders'[f] \in {"absent", "patched"}
      BY <2>2 DEF CopyFiles
    <3>2. \A f \in Folders : found[f] # "absent" => folders'[f] = found[f]
      BY <1>0, <3>1 DEF FolderInv
    <3>3. \A f \in Folders : folders'[f] # "cloning" /\ found[f] # "cloning"
      BY <1>0, <2>1, <3>1 DEF FolderInv
    <3>4. QED
      BY <2>1, <3>2, <3>3 DEF FolderInv
  <2>3. QED
    BY <1>1, <2>1, <2>2
<1>9. CASE Build
  <2>1. PICK result \in BuildResults(Head(todo)[1], Head(todo)[2]) : EndsBuild(result)
    BY <1>9 DEF Build
  <2>2. stage' \in {"ended", "build"}
    BY <2>1 DEF EndsBuild, BuildResults, End, Enter
  <2>3. stage = "build" /\ UNCHANGED <<folders, found>>
    BY <1>9 DEF Build, checkoutVars
  <2>4. QED
    BY <1>1, <2>2, <2>3
<1>10. CASE Push
  BY <1>1, <1>10 DEF Push, Finish, End, Enter, checkoutVars
<1>11. CASE Select
  <2>1. stage = "select" /\ stage' \in {"ended", "demo"} /\ UNCHANGED <<folders, found>>
    BY <1>11 DEF Select, End, Enter, checkoutVars
  <2>2. QED
    BY <1>1, <2>1
<1>12. CASE Again
  <2>1. stage \in {"demo", "ended"} /\ stage' = "start" /\ found' = folders /\ folders' = folders
    BY <1>12 DEF Again
  <2>2. QED
    BY <1>0, <2>1 DEF FolderInv
<1>13. CASE UNCHANGED vars
  <2>1. UNCHANGED <<stage, at, folders, found, configs, selected>>
    BY <1>13 DEF vars, mainVars, checkoutVars
  <2>2. /\ \A i : FolderOf(i)' = FolderOf(i)
        /\ FolderOf(at)' = FolderOf(at') /\ Used(Kind)' = Used(CheckedOutKinds[at'])
    BY <2>1, SameConfiguration
  <2>3. QED
    BY <1>0, <2>1, <2>2 DEF FolderInv, Kind
<1>14. QED
  BY <1>3, <1>4, <1>5, <1>6, <1>7, <1>8, <1>9, <1>10, <1>11, <1>12, <1>13 DEF Next

-----------------------------------------------------------------------------
(***************************************************************************)
(* What is checked out stays as it is until the program is started again.  *)
(***************************************************************************)
LEMMA SettledInit == Init => SettledInv
  BY DEF Init, SettledInv, AfterCheckout

\* No folder of a settled kind is written to.
LEMMA SettledStays ==
    ASSUME TypeOK, FolderInv, UNCHANGED <<configs, selected, found>>,
           NEW i \in 1..4, Settled(i),
           Used(CheckedOutKinds[i]) # Nothing => folders'[FolderOf(i)] = folders[FolderOf(i)]
    PROVE  Settled(i)'
<1>1. /\ Used(CheckedOutKinds[i])' = Used(CheckedOutKinds[i]) /\ FolderOf(i)' = FolderOf(i)
      /\ \A f : Wanted(f)' = Wanted(f)
  <2>1. \A k : Used(k)' = Used(k)
    BY SameConfiguration
  <2>2. CheckedOutKinds' = CheckedOutKinds
    OBVIOUS
  <2>3. QED
    BY <2>1, <2>2, SameConfiguration
<1>2. Settled(i)' <=> (Used(CheckedOutKinds[i])' # Nothing =>
                           folders'[FolderOf(i)'] = Wanted(FolderOf(i)'))
  BY <1>1, SameConfiguration DEF Settled
<1>3. QED
  BY <1>1, <1>2 DEF Settled

LEMMA SettledStep == IndInv /\ [Next]_vars => SettledInv'
<1> SUFFICES ASSUME IndInv, [Next]_vars
             PROVE  SettledInv'
  OBVIOUS
<1>0. /\ TypeOK /\ LoadedInv /\ FolderInv /\ SettledInv
      /\ at \in 1..4 /\ folders \in [Folders -> Content] /\ found \in [Folders -> Content]
  BY KindsInOrder DEF IndInv, TypeOK
<1>1. ASSUME stage' \notin {"checkout", "clone"} \cup AfterCheckout
      PROVE  SettledInv'
  BY <1>1 DEF SettledInv, AfterCheckout
<1>2. ASSUME stage \in BeforeCheckout, stage' = "checkout", at' = at
      PROVE  SettledInv'
  <2>1. at' = 1
    BY <1>0, <1>2 DEF LoadedInv
  <2>2. 1..(at' - 1) = {}
    BY <2>1
  <2>3. QED
    BY <1>2, <2>2 DEF SettledInv, AfterCheckout
\* After the checkout only the patchers write, to folders that are not there.
<1>3. ASSUME stage \in AfterCheckout, UNCHANGED <<configs, selected, found, request, setup>>,
             \A f \in Folders : folders[f] # "absent" => folders'[f] = folders[f],
             stage' \in AfterCheckout \cup {"ended"}
      PROVE  SettledInv'
  <2>1. ASSUME NEW i \in 1..4
        PROVE  Settled(i)'
    <3>1. Settled(i)
      BY <1>0, <1>3 DEF SettledInv
    <3>2. ASSUME Used(CheckedOutKinds[i]) # Nothing
          PROVE  folders'[FolderOf(i)] = folders[FolderOf(i)]
      <4>1. FolderOf(i) \in Folders /\ Wanted(FolderOf(i)) # "absent"
        BY <1>0, <3>2, WantedType
      <4>2. folders[FolderOf(i)] = Wanted(FolderOf(i))
        BY <3>1, <3>2 DEF Settled
      <4>3. QED
        BY <1>3, <4>1, <4>2
    <3>3. QED
      BY <1>0, <1>3, <3>1, <3>2, SettledStays
  <2>2. request' = request /\ HasSection("ue")' = HasSection("ue")
    BY <1>3 DEF HasSection
  <2>3. QED
    BY <1>0, <1>3, <2>1, <2>2 DEF SettledInv, AfterCheckout
<1>4. CASE Start
  BY <1>1, <1>4 DEF Start, End, Enter, AfterCheckout
<1>5. CASE Load
  <2>1. stage = "load" /\ at' = at /\ stage' \in {"ended", "read demo", "checkout"}
    BY <1>5 DEF Load, End, Enter
  <2>2. QED
    BY <1>1, <1>2, <2>1 DEF BeforeCheckout, AfterCheckout
<1>6. CASE ReadDemoFile
  <2>1. stage = "read demo" /\ at' = at /\ stage' \in {"ended", "checkout"}
    BY <1>6 DEF ReadDemoFile, End, Enter
  <2>2. QED
    BY <1>1, <1>2, <2>1 DEF BeforeCheckout, AfterCheckout
<1>7. ASSUME NextKind, UNCHANGED <<configs, selected, found, request, setup>>,
             \A i \in 1..at : Settled(i)', at = 4 => HasSection("ue")
      PROVE  SettledInv'
  <2>1. CASE stage' = "ended"
    BY <1>1, <2>1 DEF AfterCheckout
  <2>2. CASE stage' = "checkout" /\ at' = at + 1
    <3>1. 1..(at' - 1) = 1..at
      BY <1>0, <2>2
    <3>2. QED
      BY <1>7, <2>2, <3>1 DEF SettledInv, AfterCheckout
  <2>3. CASE stage' = "patch" /\ at = 4 /\ request.patching
    <3>1. HasSection("ue")' /\ request'.patching
      BY <1>7, <2>3 DEF HasSection
    <3>2. QED
      BY <1>7, <2>3, <3>1 DEF SettledInv, AfterCheckout
  <2>4. QED
    BY <1>0, <1>7, <2>1, <2>2, <2>3, NextKindProperties
<1>8. CASE CheckoutKind
  <2>1. stage = "checkout" /\ UNCHANGED <<found, configs, selected, request, setup>>
    BY <1>8 DEF CheckoutKind
  <2>2. \/ stage' = "ended"
        \/ /\ NextKind /\ folders' = folders /\ NothingToClone(Used(Kind))
           /\ Kind = "ue" => HasSection("ue")
        \/ /\ ~NothingToClone(Used(Kind)) /\ stage' = "clone" /\ at' = at
           /\ folders' = [folders EXCEPT ![Used(Kind).folder] = "cloning"]
    BY <1>8 DEF CheckoutKind, End, Enter, BeginsToClone
  <2>3. \A i \in 1..(at - 1) : Settled(i)
    BY <1>0, <2>1 DEF SettledInv
  <2>4. CASE stage' = "ended"
    BY <1>1, <2>4 DEF AfterCheckout
  <2>5. CASE /\ NextKind /\ folders' = folders /\ NothingToClone(Used(Kind))
             /\ Kind = "ue" => HasSection("ue")
    <3>1. Settled(at)
      BY <1>0, <2>1, <2>3, <2>5, PassesAreSettled
    <3>2. ASSUME NEW i \in 1..at
          PROVE  Settled(i)'
      <4>1. i \in 1..4 /\ Settled(i)
        BY <1>0, <2>3, <3>1
      <4>2. QED
        BY <1>0, <2>1, <2>5, <4>1, SettledStays
    <3>3. at = 4 => Kind = "ue"
      BY DEF Kind, CheckedOutKinds
    <3>4. QED
      BY <1>7, <2>1, <2>5, <3>2, <3>3
  <2>6. CASE /\ ~NothingToClone(Used(Kind)) /\ stage' = "clone" /\ at' = at
             /\ folders' = [folders EXCEPT ![Used(Kind).folder] = "cloning"]
    <3> DEFINE f == Used(Kind).folder
    <3>1. folders[f] = "absent"
      BY <2>6 DEF NothingToClone
    <3>2. ASSUME NEW i \in 1..(at - 1)
          PROVE  Settled(i)'
      <4>1. i \in 1..4 /\ Settled(i)
        BY <1>0, <2>3
      <4>2. ASSUME Used(CheckedOutKinds[i]) # Nothing
            PROVE  folders'[FolderOf(i)] = folders[FolderOf(i)]
        <5>1. FolderOf(i) \in Folders /\ Wanted(FolderOf(i)) # "absent"
          BY <1>0, <4>1, <4>2, WantedType
        <5>2. folders[FolderOf(i)] = Wanted(FolderOf(i))
          BY <4>1, <4>2 DEF Settled
        <5>3. FolderOf(i) # f
          BY <3>1, <5>1, <5>2
        <5> HIDE DEF f
        <5>4. folders' = [folders EXCEPT ![f] = "cloning"]
          BY <2>6 DEF f
        <5>5. QED
          BY <1>0, <5>1, <5>3, <5>4
      <4>3. QED
        BY <1>0, <2>1, <4>1, <4>2, SettledStays
    <3>3. \A i \in 1..(at' - 1) : Settled(i)'
      BY <2>6, <3>2
    <3>4. QED
      BY <2>6, <3>3 DEF SettledInv, AfterCheckout
  <2>7. QED
    BY <2>2, <2>4, <2>5, <2>6
<1>9. CASE Clone
  <2> DEFINE f == FolderOf(at)
  <2>1. stage = "clone" /\ UNCHANGED <<found, configs, selected, request, setup>>
    BY <1>9 DEF Clone
  <2>2. PICK result \in CloneResults(Used(Kind)) :
           folders' = [folders EXCEPT ![f] = result.content] /\ EndsClone(result)
    BY <1>9 DEF Clone, FolderOf, Kind
  <2>3. \A i \in 1..(at - 1) : Settled(i)
    BY <1>0, <2>1 DEF SettledInv
  <2>4. /\ f \in Folders /\ Used(Kind) # Nothing
        /\ \A i \in 1..(at - 1) : Used(CheckedOutKinds[i]) # Nothing => FolderOf(i) # f
        /\ Wanted(f) = Used(Kind).commit
    BY <1>0, <2>1, <2>3, ClonesAreSettled
  <2>5. CASE stage' = "ended"
    BY <1>1, <2>5 DEF AfterCheckout
  <2>6. CASE NextKind /\ result.content = Used(Kind).commit
    <3>1. ASSUME NEW i \in 1..(at - 1)
          PROVE  Settled(i)'
      <4>1. i \in 1..4 /\ Settled(i)
        BY <1>0, <2>3
      <4>2. Used(CheckedOutKinds[i]) # Nothing => FolderOf(i) # f /\ FolderOf(i) \in Folders
        BY <1>0, <2>4, <4>1, WantedType
      <4> HIDE DEF f
      <4>3. Used(CheckedOutKinds[i]) # Nothing => folders'[FolderOf(i)] = folders[FolderOf(i)]
        BY <1>0, <2>2, <4>2
      <4>4. QED
        BY <1>0, <2>1, <4>1, <4>3, SettledStays
    <3>2. ASSUME NEW i \in 1..at, i = at
          PROVE  Settled(i)'
      <4>1. folders'[f] = Wanted(f)
        <5> HIDE DEF f
        <5> QED  BY <1>0, <2>2, <2>4, <2>6
      <4>2. /\ \A j : FolderOf(j)' = FolderOf(j)
            /\ \A g : Wanted(g)' = Wanted(g)
        BY <2>1, SameConfiguration
      <4>3. QED
        BY <3>2, <4>1, <4>2, SameConfiguration DEF Settled
    <3>3. \A i \in 1..at : i \in 1..(at - 1) \/ i = at
      BY <1>0
    <3>4. \A i \in 1..at : Settled(i)'
      BY <3>1, <3>2, <3>3
    <3>5. at = 4 => HasSection("ue")
      <4>1. at = 4 => Kind = "ue"
        BY DEF Kind, CheckedOutKinds
      <4>2. Used("ue") # Nothing => HasSection("ue")
        <5>1. /\ "ue" \in Configurable /\ configs \in [Configurable -> Seq(Config)]
              /\ configs["ue"] = IF HasSection("ue") THEN setup.configs["ue"] ELSE <<>>
              /\ selected["ue"] = IF configs["ue"] = <<>> THEN "none" ELSE configs["ue"][1].folder
          BY <1>0, <2>1 DEF LoadedInv, TypeOK, Configurable
        <5>2. QED
          BY <5>1, UsedUE
      <4>3. QED
        BY <2>4, <4>1, <4>2
    <3>6. QED
      BY <1>7, <2>1, <2>6, <3>4, <3>5
  <2>7. stage' = "ended" \/ (NextKind /\ result.content = Used(Kind).commit)
    BY <2>2 DEF EndsClone, CloneResults, End
  <2>8. QED
    BY <2>5, <2>6, <2>7
<1>10. CASE Patch
  <2>1. /\ stage = "patch" /\ UNCHANGED <<configs, selected, found, request, setup>>
        /\ stage' \in {"ended", "build", "select"}
        /\ folders' = folders \/ CopyFiles
    BY <1>10 DEF Patch, End, Enter, Finish
  <2>2. \A f \in Folders : folders[f] # "absent" => folders'[f] = folders[f]
    BY <2>1 DEF CopyFiles
  <2>3. QED
    BY <1>3, <2>1, <2>2 DEF AfterCheckout
<1>11. CASE Build
  <2>1. PICK result \in BuildResults(Head(todo)[1], Head(todo)[2]) : EndsBuild(result)
    BY <1>11 DEF Build
  <2>2. stage' \in {"ended", "build"}
    BY <2>1 DEF EndsBuild, BuildResults, End, Enter
  <2>3. stage = "build" /\ UNCHANGED <<configs, selected, folders, found, request, setup>>
    BY <1>11 DEF Build, checkoutVars
  <2>4. QED
    BY <1>3, <2>2, <2>3 DEF AfterCheckout
<1>12. CASE Push
  <2>1. /\ stage = "build" /\ UNCHANGED <<configs, selected, folders, found, request, setup>>
        /\ stage' \in {"ended", "select"}
    BY <1>12 DEF Push, Finish, End, Enter, checkoutVars
  <2>2. QED
    BY <1>3, <2>1 DEF AfterCheckout
<1>13. CASE Select
  <2>1. /\ stage = "select" /\ UNCHANGED <<configs, selected, folders, found, request, setup>>
        /\ stage' \in {"ended", "demo"}
    BY <1>13 DEF Select, End, Enter, checkoutVars
  <2>2. QED
    BY <1>3, <2>1 DEF AfterCheckout
<1>14. CASE Again
  BY <1>1, <1>14 DEF Again, AfterCheckout
<1>15. CASE UNCHANGED vars
  <2>1. UNCHANGED <<stage, at, request, setup, configs, selected, folders, found>>
    BY <1>15 DEF vars, mainVars, checkoutVars
  <2>2. CASE stage \in AfterCheckout
    BY <1>3, <2>1, <2>2
  <2>3. CASE stage \in {"checkout", "clone"}
    <3>1. ASSUME NEW i \in 1..(at - 1)
          PROVE  Settled(i)'
      <4>1. i \in 1..4 /\ Settled(i)
        BY <1>0, <2>3 DEF SettledInv
      <4>2. QED
        BY <1>0, <2>1, <4>1, SettledStays
    <3>2. \A i \in 1..(at' - 1) : Settled(i)'
      BY <2>1, <3>1
    <3>3. QED
      BY <2>1, <2>3, <3>2 DEF SettledInv, AfterCheckout
  <2>4. QED
    BY <1>1, <2>1, <2>2, <2>3
<1>16. QED
  BY <1>4, <1>5, <1>6, <1>8, <1>9, <1>10, <1>11, <1>12, <1>13, <1>14, <1>15 DEF Next

-----------------------------------------------------------------------------
(***************************************************************************)
(* The builds.                                                             *)
(***************************************************************************)
LEMMA SameSetup ==
    ASSUME UNCHANGED setup
    PROVE  /\ \A k : MadeFor(k)' = MadeFor(k)
           /\ \A k, n : BuiltBy(k, n)' = BuiltBy(k, n)
  BY DEF MadeFor, BuiltBy, IsNative

\* If any UE is native, one is the first: the index of the lowest rank.
LEMMA FirstNativeExists ==
    ASSUME NEW n \in Nat \ {0}, IsNative("ue", n)
    PROVE  \E m \in 1..n : FirstNative(m)
<1> DEFINE S == {m \in 1..n : IsNative("ue", m)}
<1>1. n \in S /\ S \in SUBSET (1..n)
  OBVIOUS
<1>2. /\ Cardinality(S) \in Nat /\ Cardinality(S) # 0
      /\ \A i \in S : Rank(S, i) \in 1..Cardinality(S)
      /\ \A i, j \in S : i < j => Rank(S, i) < Rank(S, j)
      /\ \A m \in 1..Cardinality(S) : \E i \in S : Rank(S, i) = m
  BY <1>1, RankBijection
<1>3. 1 \in 1..Cardinality(S)
  BY <1>2
<1>4. PICK m \in S : Rank(S, m) = 1
  BY <1>2, <1>3
<1>5. ASSUME NEW j \in 1..(m - 1), IsNative("ue", j)
      PROVE  FALSE
  <2>1. j \in S /\ j < m
    BY <1>1, <1>5
  <2>2. Rank(S, j) < 1 /\ Rank(S, j) \in 1..Cardinality(S)
    BY <1>2, <1>4, <2>1
  <2>3. QED
    BY <1>2, <2>2
<1>6. QED
  BY <1>4, <1>5 DEF FirstNative

\* The UEs of the configuration: each has a name, and one folder for all.
LEMMA UEProperties ==
    ASSUME TypeOK, LoadedInv, SettledInv, stage \in AfterCheckout
    PROVE  /\ configs["ue"] \in Seq(Config) /\ setup.names \in Seq(UENames)
           /\ DOMAIN setup.names = DOMAIN configs["ue"]
           /\ \A n \in DOMAIN configs["ue"] : configs["ue"][n].folder = "srsRAN_4G"
           /\ \A n \in DOMAIN configs["ue"] :
                 Used("ue") # Nothing /\ Used("ue").folder = "srsRAN_4G"
<1>1. /\ configs \in [Configurable -> Seq(Config)] /\ "ue" \in Configurable
      /\ [request |-> request, setup |-> setup, dialog |-> dialog] \in Calls
  BY DEF TypeOK, Configurable
<1>2. /\ configs["ue"] = setup.configs["ue"]
      /\ selected["ue"] = IF configs["ue"] = <<>> THEN "none" ELSE configs["ue"][1].folder
  BY <1>1 DEF LoadedInv, SettledInv
<1>3. setup \in SetupCfg
  BY <1>1, CallTypes
<1>4. /\ DOMAIN setup.names = DOMAIN configs["ue"]
      /\ \A n \in DOMAIN configs["ue"] : configs["ue"][n].folder = "srsRAN_4G"
  BY <1>1, <1>2, MainAssumption
<1>5. ASSUME NEW n \in DOMAIN configs["ue"]
      PROVE  Used("ue") # Nothing /\ Used("ue").folder = "srsRAN_4G"
  <2>1. configs["ue"] \in Seq(Config)
    BY <1>1
  <2>2. 1 \in DOMAIN configs["ue"] /\ configs["ue"] # <<>> /\ configs["ue"][1] \in Config
    BY <1>5, <2>1
  <2>3. Used("ue") = configs["ue"][1]
    BY <1>1, <1>2, <2>2, UsedUE
  <2>4. QED
    BY <1>1, <1>4, <2>2, <2>3, UsedProperties, FoldersAssumption DEF Config, Nothing
<1>6. QED
  BY <1>1, <1>3, <1>4, <1>5 DEF SetupCfg

\* What one build makes is of its own kind, and no other kind makes it.
LEMMA MadeForOneKind ==
    ASSUME TypeOK, LoadedInv, SettledInv, stage \in AfterCheckout
    PROVE  /\ \A k \in Configurable : \A n \in DOMAIN configs[k] : BuiltBy(k, n) \subseteq MadeFor(k)
           /\ \A k \in Configurable : MadeFor(k) \subseteq Components
           /\ \A k, l \in Configurable : \A c \in MadeFor(k) \cap MadeFor(l) : k = l
<1>1. /\ setup.names \in Seq(UENames) /\ DOMAIN setup.names = DOMAIN configs["ue"]
      /\ UENames \cap Configurable = {}
  BY UEProperties, MainAssumption
<1>2. Elements(setup.names) \subseteq UENames
  BY <1>1 DEF Elements
<1>3. \A k \in Configurable : \A n \in DOMAIN configs[k] : BuiltBy(k, n) \subseteq MadeFor(k)
  BY <1>1 DEF BuiltBy, MadeFor, Elements
<1>4. \A k \in Configurable : MadeFor(k) \subseteq Components
  BY <1>2 DEF MadeFor, Components, Configurable
<1>5. \A k, l \in Configurable : \A c \in MadeFor(k) \cap MadeFor(l) : k = l
  BY <1>1, <1>2 DEF MadeFor
<1>6. QED
  BY <1>3, <1>4, <1>5

(***************************************************************************)
(* build_firmware's list: of configurations in use, and whatever is asked  *)
(* for is in it.  A native UE is made by the build of the first of them.   *)
(***************************************************************************)
LEMMA BuildsAll ==
    ASSUME TypeOK, LoadedInv, SettledInv, stage \in AfterCheckout, CanPatch
    PROVE  /\ \A i \in DOMAIN Builds :
                 LET k == Builds[i][1]  n == Builds[i][2]
                 IN  /\ n \in DOMAIN configs[k] /\ configs[k][n].folder = Used(k).folder
                     /\ Used(k) # Nothing
           /\ \A k \in Configurable : dialog[k] =>
                 \A c \in MadeFor(k) :
                    \E i \in DOMAIN Builds : Builds[i][1] = k /\ c \in BuiltBy(k, Builds[i][2])
<1>0. /\ configs \in [Configurable -> Seq(Config)]
      /\ Configurable = {"near_rt_ric", "5gc", "gnb"} \cup {"ue"}
  BY DEF TypeOK, Configurable
<1>1. ASSUME NEW i \in DOMAIN Builds
      PROVE  LET k == Builds[i][1]  n == Builds[i][2]
             IN  /\ n \in DOMAIN configs[k] /\ configs[k][n].folder = Used(k).folder
                 /\ Used(k) # Nothing
  <2> DEFINE k == Builds[i][1]  n == Builds[i][2]
  <2>1. n \in DOMAIN configs[k] /\ k \in Configurable /\ (k # "ue" => n = UsedNumber(k))
    BY <1>0, BuildsProperties
  <2> SUFFICES n \in DOMAIN configs[k] /\ configs[k][n].folder = Used(k).folder /\ Used(k) # Nothing
    OBVIOUS
  <2> HIDE DEF k, n
  <2>2. CASE k = "ue"
    BY <2>1, <2>2, UEProperties
  <2>3. CASE k # "ue"
    <3>1. Used(k) # Nothing
      BY <1>0, <2>1, <2>3 DEF CanPatch
    <3>2. configs[k][n] = Used(k)
      BY <1>0, <2>1, <2>3, <3>1, UsedProperties
    <3>3. QED
      BY <2>1, <3>1, <3>2
  <2>4. QED
    BY <2>2, <2>3
<1>2. ASSUME NEW k \in {"near_rt_ric", "5gc", "gnb"}, dialog[k], NEW c \in MadeFor(k)
      PROVE  \E i \in DOMAIN Builds : Builds[i][1] = k /\ c \in BuiltBy(k, Builds[i][2])
  <2>1. PICK i \in DOMAIN Builds : Builds[i] = <<k, UsedNumber(k)>>
    BY <1>0, <1>2, BuildsProperties
  <2>2. k # "ue" /\ c = k
    BY <1>2 DEF MadeFor
  <2>3. Builds[i][1] = k /\ c \in BuiltBy(k, Builds[i][2])
    BY <2>1, <2>2 DEF BuiltBy
  <2>4. QED
    BY <2>3
<1>3. ASSUME dialog["ue"], NEW c \in MadeFor("ue")
      PROVE  \E i \in DOMAIN Builds : Builds[i][1] = "ue" /\ c \in BuiltBy("ue", Builds[i][2])
  <2>0. /\ configs["ue"] \in Seq(Config) /\ DOMAIN setup.names = DOMAIN configs["ue"]
        /\ DOMAIN configs["ue"] = 1..Len(configs["ue"]) /\ Len(configs["ue"]) \in Nat
    <3>1. configs["ue"] \in Seq(Config) /\ DOMAIN setup.names = DOMAIN configs["ue"]
      BY UEProperties
    <3>2. QED
      BY <3>1
  <2>1. PICK n \in DOMAIN setup.names : c = setup.names[n]
    BY <1>3 DEF MadeFor, Elements
  <2>2. CASE ~IsNative("ue", n)
    <3>1. PICK i \in DOMAIN Builds : Builds[i] = <<"ue", n>>
      BY <1>0, <1>3, <2>0, <2>1, <2>2, BuildsProperties
    <3>2. QED
      BY <2>1, <2>2, <3>1 DEF BuiltBy
  <2>3. CASE IsNative("ue", n)
    <3>1. PICK m \in 1..n : FirstNative(m)
      BY <2>0, <2>1, <2>3, FirstNativeExists
    <3>2. m \in DOMAIN configs["ue"] /\ IsNative("ue", m)
      BY <2>0, <2>1, <3>1 DEF FirstNative
    <3>3. PICK i \in DOMAIN Builds : Builds[i] = <<"ue", m>>
      BY <1>0, <1>3, <3>1, <3>2, BuildsProperties
    <3>4. c \in BuiltBy("ue", m)
      BY <2>1, <2>3, <3>2 DEF BuiltBy
    <3>5. QED
      BY <3>3, <3>4
  <2>4. QED
    BY <2>2, <2>3
<1>4. QED
  BY <1>0, <1>1, <1>2, <1>3

LEMMA BuildInit == Init => BuildInv
  BY DEF Init, BuildInv

LEMMA BuildStep == IndInv /\ [Next]_vars => BuildInv'
<1> SUFFICES ASSUME IndInv, [Next]_vars
             PROVE  BuildInv'
  OBVIOUS
<1>0. /\ TypeOK /\ LoadedInv /\ FolderInv /\ SettledInv /\ BuildInv
      /\ configs \in [Configurable -> Seq(Config)]
  BY DEF IndInv, TypeOK
<1>1. ASSUME stage' \notin {"build", "select", "demo"}
      PROVE  BuildInv'
  BY <1>1 DEF BuildInv
\* What is built stays so.
<1>2. ASSUME stage \in {"build", "select", "demo"}, stage' \in {stage, "select", "demo"},
             UNCHANGED <<configs, selected, found, request, setup, dialog, images, todo>>,
             stage = "build" /\ stage' # "build" => todo = <<>>
      PROVE  BuildInv'
  <2>1. /\ \A k : Used(k)' = Used(k) /\ MadeFor(k)' = MadeFor(k)
        /\ \A f : Wanted(f)' = Wanted(f)
        /\ \A k, n : BuiltBy(k, n)' = BuiltBy(k, n)
    BY <1>2, SameConfiguration, SameSetup
  <2>2. \A k, c : IsBuilt(k, c)' <=> IsBuilt(k, c)
    BY <1>2, <2>1 DEF IsBuilt
  <2>3. stage' = "build" => stage = "build"
    BY <1>2
  <2>4. stage = "build" /\ stage' # "build" => DOMAIN todo = {}
    BY <1>2
  <2>5. QED
    BY <1>0, <1>2, <2>1, <2>2, <2>3, <2>4 DEF BuildInv
<1>3. CASE Patch
  <2>1. /\ stage = "patch" /\ stage \in AfterCheckout
        /\ UNCHANGED <<configs, selected, found, request, setup, dialog>>
    BY <1>3 DEF Patch, AfterCheckout
  <2>2. \/ stage' = "ended"
        \/ CanPatch /\ ~request.build /\ stage' \in {"select", "ended"}
        \/ CanPatch /\ request.build /\ stage' = "build" /\ todo' = Builds
    BY <1>3 DEF Patch, End, Enter, Finish
  <2>3. /\ \A k : Used(k)' = Used(k) /\ MadeFor(k)' = MadeFor(k)
        /\ \A k, n : BuiltBy(k, n)' = BuiltBy(k, n)
    BY <2>1, SameConfiguration, SameSetup
  <2>4. CASE CanPatch /\ ~request.build /\ stage' \in {"select", "ended"}
    BY <2>1, <2>3, <2>4 DEF BuildInv, CanPatch
  <2>5. CASE CanPatch /\ request.build /\ stage' = "build" /\ todo' = Builds
    <3>1. /\ \A i \in DOMAIN Builds :
                LET k == Builds[i][1]  n == Builds[i][2]
                IN  /\ n \in DOMAIN configs[k] /\ configs[k][n].folder = Used(k).folder
                    /\ Used(k) # Nothing
          /\ \A k \in Configurable : dialog[k] =>
                \A c \in MadeFor(k) :
                   \E i \in DOMAIN Builds : Builds[i][1] = k /\ c \in BuiltBy(k, Builds[i][2])
      BY <1>0, <2>1, <2>5, BuildsAll
    <3>2. \A k \in {"near_rt_ric", "5gc", "gnb"} : Used(k) # Nothing
      BY <2>5 DEF CanPatch
    <3>3. QED
      BY <2>1, <2>3, <2>5, <3>1, <3>2 DEF BuildInv
  <2>6. QED
    BY <1>1, <2>2, <2>4, <2>5
<1>4. CASE Build
  <2> DEFINE k == todo[1][1]  n == todo[1][2]  f == configs[k][n].folder
  <2>1. /\ stage = "build" /\ stage \in AfterCheckout /\ todo # <<>> /\ Head(todo) = todo[1]
        /\ UNCHANGED <<configs, selected, found, folders, request, setup, dialog>>
    BY <1>4 DEF Build, AfterCheckout, checkoutVars
  <2>2. PICK result \in BuildResults(k, n) :
           /\ EndsBuild(result)
           /\ images' = IF result # "built" THEN images
                        ELSE [c \in Components |->
                                IF c \in BuiltBy(k, n) THEN [folder |-> f, commit |-> folders[f]]
                                ELSE images[c]]
    BY <1>4, <2>1 DEF Build
  <2>3. CASE stage' = "ended"
    BY <1>1, <2>3
  <2>4. CASE result = "built" /\ stage' = "build" /\ todo' = Tail(todo)
    <3>1. /\ todo \in Seq(Configurable \X (Nat \ {0})) /\ 1 \in DOMAIN todo
          /\ DOMAIN todo = 1..Len(todo) /\ Len(todo) \in Nat
          /\ DOMAIN Tail(todo) = 1..(Len(todo) - 1)
          /\ \A i \in 1..(Len(todo) - 1) : Tail(todo)[i] = todo[i + 1]
      BY <1>0, <2>1 DEF TypeOK
    <3>2. /\ k \in Configurable /\ n \in DOMAIN configs[k] /\ f = Used(k).folder
          /\ Used(k) # Nothing
      BY <1>0, <2>1, <3>1 DEF BuildInv
    <3>3. folders[f] = Wanted(f)
      <4>1. PICK i \in 1..4 : CheckedOutKinds[i] = k
        BY <3>2, KindsInOrder
      <4>2. Settled(i) /\ FolderOf(i) = f
        BY <1>0, <2>1, <3>2, <4>1 DEF SettledInv, FolderOf
      <4>3. QED
        BY <3>2, <4>1, <4>2 DEF Settled
    <3>4. /\ \A l : Used(l)' = Used(l) /\ MadeFor(l)' = MadeFor(l)
          /\ \A g : Wanted(g)' = Wanted(g)
          /\ \A l, m : BuiltBy(l, m)' = BuiltBy(l, m)
      BY <2>1, SameConfiguration, SameSetup
    <3>5. /\ BuiltBy(k, n) \subseteq MadeFor(k)
          /\ \A l \in Configurable : MadeFor(l) \subseteq Components
          /\ \A l \in Configurable : \A c \in MadeFor(k) \cap MadeFor(l) : k = l
      BY <1>0, <2>1, <3>2, MadeForOneKind
    <3>6. images' = [c \in Components |->
                        IF c \in BuiltBy(k, n) THEN [folder |-> f, commit |-> folders[f]]
                        ELSE images[c]]
      BY <2>2, <2>4
    <3>7. ASSUME NEW i \in DOMAIN todo'
          PROVE  i + 1 \in DOMAIN todo /\ todo'[i] = todo[i + 1]
      BY <2>4, <3>1, <3>7
    <3>8. ASSUME NEW i \in DOMAIN todo, i # 1
          PROVE  i - 1 \in DOMAIN todo' /\ todo'[i - 1] = todo[i]
      BY <2>4, <3>1, <3>8
    <3> HIDE DEF k, n, f
    <3>9. ASSUME request.build, NEW l \in Configurable, Used(l) # Nothing, dialog[l],
                 NEW c \in MadeFor(l)
          PROVE  \/ IsBuilt(l, c)'
                 \/ \E i \in DOMAIN todo' : todo'[i][1] = l /\ c \in BuiltBy(l, todo'[i][2])
      <4>1. CASE c \in BuiltBy(k, n)
        <5>1. k = l
          BY <3>5, <3>9, <4>1
        <5>2. images'[c] = [folder |-> f, commit |-> folders[f]]
          BY <3>5, <3>6, <3>9, <4>1
        <5>3. QED
          BY <3>2, <3>3, <3>4, <5>1, <5>2 DEF IsBuilt
      <4>2. CASE c \notin BuiltBy(k, n) /\ IsBuilt(l, c)
        <5>1. images'[c] = images[c]
          BY <3>5, <3>6, <3>9, <4>2
        <5>2. QED
          BY <3>4, <4>2, <5>1 DEF IsBuilt
      <4>3. CASE c \notin BuiltBy(k, n) /\ ~IsBuilt(l, c)
        <5>1. PICK i \in DOMAIN todo : todo[i][1] = l /\ c \in BuiltBy(l, todo[i][2])
          BY <1>0, <2>1, <3>9, <4>3 DEF BuildInv
        <5>2. i # 1
          BY <4>3, <5>1 DEF k, n
        <5>3. QED
          BY <3>8, <5>1, <5>2
      <4>4. QED
        BY <4>1, <4>2, <4>3
    <3>10. ASSUME NEW i \in DOMAIN todo'
           PROVE  LET l == todo'[i][1]  m == todo'[i][2]
                  IN  /\ m \in DOMAIN configs[l] /\ configs[l][m].folder = Used(l).folder
                      /\ Used(l) # Nothing
      BY <1>0, <2>1, <3>7 DEF BuildInv
    <3>11. /\ request.build /\ \A l \in {"near_rt_ric", "5gc", "gnb"} : Used(l) # Nothing
      BY <1>0, <2>1 DEF BuildInv
    <3>12. QED
      BY <2>1, <2>4, <3>4, <3>9, <3>10, <3>11 DEF BuildInv
  <2>5. QED
    BY <2>2, <2>3, <2>4 DEF EndsBuild, BuildResults, End, Enter
<1>5. CASE Push
  <2>1. /\ UNCHANGED <<configs, selected, found, request, setup, dialog, images, todo>>
        /\ stage = "build" /\ todo = <<>> /\ stage' \in {"select", "ended"}
    BY <1>5 DEF Push, Finish, End, Enter, checkoutVars
  <2>2. QED
    BY <1>1, <1>2, <2>1
<1>6. CASE Select
  <2>1. /\ UNCHANGED <<configs, selected, found, request, setup, dialog, images, todo>>
        /\ stage = "select" /\ stage' \in {"demo", "ended"}
    BY <1>6 DEF Select, End, Enter, checkoutVars
  <2>2. QED
    BY <1>1, <1>2, <2>1
<1>7. CASE UNCHANGED vars
  <2>1. UNCHANGED <<stage, configs, selected, found, request, setup, dialog, images, todo>>
    BY <1>7 DEF vars, mainVars, checkoutVars
  <2>2. QED
    BY <1>1, <1>2, <2>1
<1>8. CASE Load
  BY <1>1, <1>8 DEF Load, End, Enter
<1>9. CASE Again
  BY <1>1, <1>9 DEF Again
<1>10. CASE ReadDemoFile
  BY <1>1, <1>10 DEF ReadDemoFile, End, Enter
<1>11. CASE Start
  BY <1>1, <1>11 DEF Start, End, Enter
<1>12. CASE CheckoutKind
  <2>1. stage' \in {"ended", "clone"} \/ NextKind
    BY <1>12 DEF CheckoutKind, End, Enter
  <2>2. QED
    BY <1>0, <1>1, <2>1, KindsInOrder, NextKindProperties DEF TypeOK
<1>13. CASE Clone
  <2>1. stage' = "ended" \/ NextKind
    BY <1>13 DEF Clone, EndsClone, End
  <2>2. QED
    BY <1>0, <1>1, <2>1, KindsInOrder, NextKindProperties DEF TypeOK
<1>14. QED
  BY <1>3, <1>4, <1>5, <1>6, <1>7, <1>8, <1>9, <1>10, <1>11, <1>12, <1>13 DEF Next

LEMMA ImagesInit == Init => ImagesInv
  BY DEF Init, ImagesInv

LEMMA ImagesStep == IndInv /\ [Next]_vars => ImagesInv'
<1> SUFFICES ASSUME IndInv, [Next]_vars
             PROVE  ImagesInv'
  OBVIOUS
<1>0. /\ TypeOK /\ FolderInv /\ BuildInv /\ ImagesInv
      /\ configs \in [Configurable -> Seq(Config)] /\ folders \in [Folders -> Content]
  BY DEF IndInv, TypeOK
<1>1. CASE UNCHANGED images
  BY <1>0, <1>1 DEF ImagesInv
<1>2. CASE Build
  <2> DEFINE k == Head(todo)[1]  n == Head(todo)[2]  f == configs[k][n].folder
  <2>1. /\ stage = "build" /\ todo # <<>> /\ 1 \in DOMAIN todo /\ Head(todo) = todo[1]
        /\ todo \in Seq(Configurable \X (Nat \ {0}))
    BY <1>0, <1>2 DEF Build, TypeOK
  <2>2. k \in Configurable /\ n \in DOMAIN configs[k]
    BY <1>0, <2>1 DEF BuildInv
  <2>3. configs[k][n] \in Config
    <3>1. configs[k] \in Seq(Config)
      BY <1>0, <2>2
    <3>2. QED
      BY <2>2, <3>1
  <2>4. f \in Folders /\ folders[f] \in Content /\ folders[f] # "cloning"
    <3>1. f \in Folders
      BY <2>3 DEF Config
    <3>2. QED
      BY <1>0, <2>1, <3>1 DEF FolderInv
  <2>5. PICK result \in BuildResults(k, n) :
           /\ result = "built" => HasRepository(configs[k][n])
           /\ images' = IF result # "built" THEN images
                        ELSE [c \in Components |->
                                IF c \in BuiltBy(k, n) THEN [folder |-> f, commit |-> folders[f]]
                                ELSE images[c]]
    BY <1>2 DEF Build
  <2>6. CASE result # "built"
    BY <1>1, <2>5, <2>6
  <2>7. CASE result = "built"
    <3>1. folders[f] \in Commits \cup {"latest"}
      BY <2>4, <2>5, <2>7 DEF HasRepository, Content
    <3> HIDE DEF f
    <3>2. ASSUME NEW c \in Components, images'[c] # Nothing
          PROVE  images'[c].commit \in Commits \cup {"latest"}
      <4>1. CASE c \in BuiltBy(k, n)
        <5>1. images'[c] = [folder |-> f, commit |-> folders[f]]
          BY <2>5, <2>7, <4>1
        <5>2. QED
          BY <3>1, <5>1
      <4>2. CASE c \notin BuiltBy(k, n)
        <5>1. images'[c] = images[c]
          BY <2>5, <2>7, <4>2
        <5>2. QED
          BY <1>0, <3>2, <5>1 DEF ImagesInv
      <4>3. QED
        BY <4>1, <4>2
    <3>3. QED
      BY <3>2 DEF ImagesInv
  <2>8. QED
    BY <2>6, <2>7
<1>3. CASE Start \/ Load \/ ReadDemoFile \/ CheckoutKind \/ Clone
  BY <1>1, <1>3 DEF Start, Load, ReadDemoFile, CheckoutKind, Clone
<1>4. CASE Patch \/ Push \/ Select \/ Again
  BY <1>1, <1>4 DEF Patch, Push, Select, Again
<1>5. CASE UNCHANGED vars
  BY <1>1, <1>5 DEF vars, mainVars
<1>6. QED
  BY <1>2, <1>3, <1>4, <1>5 DEF Next

-----------------------------------------------------------------------------
(***************************************************************************)
(* The terminal, and the pool.                                             *)
(***************************************************************************)
LEMMA UsedTerminalFits ==
    ASSUME NEW file \in ProgramDescriptionCfg, NEW system, system # "unknown", NEW installed,
           NEW u \in Elements(file.terminals), u.system = system,
           system = "linux" => IsInstalled(u, installed)
    PROVE  LET t == UsedTerminal(file, system, installed)
           IN  /\ t \in Elements(file.terminals) /\ t.system = system
               /\ system = "linux" => IsInstalled(t, installed)
               /\ (system = "linux" /\ u.name = file.default) => t.name = file.default
<1>1. /\ file.terminals \in Seq(TerminalDescription)
  BY DEF ProgramDescriptionCfg
<1>2. PICK n \in DOMAIN file.terminals : u = file.terminals[n]
  BY DEF Elements
<1>3. CASE system = "linux"
  <2> DEFINE candidates == {i \in DOMAIN file.terminals :
                               /\ file.terminals[i].system = "linux"
                               /\ IsInstalled(file.terminals[i], installed)}
             preferred == {i \in candidates : file.terminals[i].name = ParsedTerminal(file).name}
  <2>1. n \in candidates /\ candidates \in SUBSET DOMAIN file.terminals
    BY <1>2, <1>3
  <2>2. u.name = file.default => ParsedTerminal(file).name = file.default /\ n \in preferred
    BY <1>2, <2>1, ParsedTerminalProperties
  <2>3. CASE preferred # {}
    <3>1. PICK i \in preferred : First(Filtered(file.terminals, preferred)) = file.terminals[i]
      BY <1>1, <2>1, <2>3, FilteredElements
    <3>2. UsedTerminal(file, system, installed) = file.terminals[i]
      BY <1>3, <2>3, <3>1 DEF UsedTerminal, LinuxTerminal
    <3>3. QED
      BY <1>3, <2>2, <3>1, <3>2 DEF Elements
  <2>4. CASE preferred = {}
    <3>1. PICK i \in candidates : First(Filtered(file.terminals, candidates)) = file.terminals[i]
      BY <1>1, <2>1, FilteredElements
    <3>2. UsedTerminal(file, system, installed) = file.terminals[i]
      BY <1>3, <2>1, <2>4, <3>1 DEF UsedTerminal, LinuxTerminal
    <3>3. QED
      BY <1>3, <2>2, <2>4, <3>1, <3>2 DEF Elements
  <2>5. QED
    BY <2>3, <2>4
<1>4. CASE system # "linux"
  <2>1. PICK i \in DOMAIN file.terminals : /\ First(Suitable(file, system)) = file.terminals[i]
                                           /\ file.terminals[i].system = system
                                           /\ Suitable(file, system) # <<>>
    BY <1>2, SuitableProperties
  <2>2. UsedTerminal(file, system, installed) = file.terminals[i]
    BY <1>4, <2>1 DEF UsedTerminal
  <2>3. QED
    BY <1>4, <2>1, <2>2 DEF Elements
<1>5. QED
  BY <1>3, <1>4

LEMMA DemoInit == Init => DemoInv
  BY DEF Init, DemoInv, AfterCheckout

\* The search leaves a terminal that fits, if there is any.
LEMMA ReadingFits ==
    ASSUME TypeOK, ReadDemoFile, stage' = "checkout"
    PROVE  TerminalFits'
<1>1. /\ demoFile \in ProgramDescriptionCfg
      /\ UNCHANGED <<demoFile, machine>>
  BY FileTypes DEF TypeOK, ReadDemoFile
<1>2. terminal' = IF SearchesTerminal(demoFile)
                  THEN UsedTerminal(demoFile, machine.system, machine.installed)
                  ELSE ParsedTerminal(demoFile)
  BY DEF ReadDemoFile, End, Enter
<1> DEFINE usable == {t \in Elements(demoFile.terminals) :
                         /\ t.system = machine.system
                         /\ machine.system = "linux" => IsInstalled(t, machine.installed)}
<1>3. ASSUME IsValid(demoFile), machine.system # "unknown", NEW u \in usable
      PROVE  /\ terminal' \in usable
             /\ (machine.system = "linux" /\ u.name = demoFile.default) =>
                    terminal'.name = demoFile.default
  <2>1. demoFile.terminals # <<>>
    BY <1>3 DEF Elements
  <2>2. terminal' = UsedTerminal(demoFile, machine.system, machine.installed)
    BY <1>2, <1>3, <2>1 DEF SearchesTerminal, IsValid
  <2>3. QED
    BY <1>1, <1>3, <2>2, UsedTerminalFits
<1>4. QED
  BY <1>1, <1>3 DEF TerminalFits

LEMMA DemoStep == IndInv /\ [Next]_vars => DemoInv'
<1> SUFFICES ASSUME IndInv, [Next]_vars
             PROVE  DemoInv'
  OBVIOUS
<1>0. TypeOK /\ LoadedInv /\ DemoInv
  BY DEF IndInv
<1> DEFINE Later == {"checkout", "clone"} \cup AfterCheckout
<1>1. ASSUME stage' \notin Later
      PROVE  DemoInv'
  BY <1>1 DEF DemoInv, AfterCheckout
<1>2. ASSUME UNCHANGED <<terminal, demoFile, machine, request>>, stage \in Later,
             stage' \in {"checkout", "clone", "patch", "build", "ended"}
      PROVE  DemoInv'
  BY <1>0, <1>2 DEF DemoInv, TerminalFits, AfterCheckout
<1>3. CASE Start
  BY <1>1, <1>3 DEF Start, End, Enter, AfterCheckout
<1>4. CASE Load
  <2>1. stage' \in {"ended", "read demo"} \/ (stage' = "checkout" /\ ~request.run_demo)
    BY <1>4 DEF Load, End, Enter
  <2>2. request' = request
    BY <1>4 DEF Load
  <2>3. QED
    BY <1>1, <2>1, <2>2 DEF DemoInv, AfterCheckout
<1>5. CASE ReadDemoFile
  <2>1. stage' \in {"ended", "checkout"}
    BY <1>5 DEF ReadDemoFile, End, Enter
  <2>2. stage' = "checkout" => TerminalFits'
    BY <1>0, <1>5, ReadingFits
  <2>3. QED
    BY <1>1, <2>1, <2>2 DEF DemoInv, AfterCheckout
<1>6. CASE CheckoutKind
  <2>1. stage = "checkout" /\ UNCHANGED <<terminal, demoFile, machine, request>>
    BY <1>6 DEF CheckoutKind
  <2>2. stage' \in {"ended", "clone"} \/ NextKind
    BY <1>6 DEF CheckoutKind, End, Enter
  <2>3. QED
    BY <1>0, <1>2, <2>1, <2>2, KindsInOrder, NextKindProperties DEF TypeOK
<1>7. CASE Clone
  <2>1. stage = "clone" /\ UNCHANGED <<terminal, demoFile, machine, request>>
    BY <1>7 DEF Clone
  <2>2. stage' = "ended" \/ NextKind
    BY <1>7 DEF Clone, EndsClone, End
  <2>3. QED
    BY <1>0, <1>2, <2>1, <2>2, KindsInOrder, NextKindProperties DEF TypeOK
\* The demo is entered by Finish only.
<1>8. ASSUME stage \in AfterCheckout, Finish, UNCHANGED <<terminal, demoFile, machine, request>>
      PROVE  DemoInv'
  <2>1. stage' = "ended" \/ (stage' = "select" /\ request.run_demo)
    BY <1>8 DEF Finish, End, Enter
  <2>2. QED
    BY <1>0, <1>1, <1>8, <2>1 DEF DemoInv, TerminalFits, AfterCheckout
<1>9. CASE Patch
  <2>1. stage = "patch" /\ UNCHANGED <<terminal, demoFile, machine, request>>
    BY <1>9 DEF Patch
  <2>2. stage' \in {"ended", "build"} \/ Finish
    BY <1>9 DEF Patch, End, Enter
  <2>3. QED
    BY <1>2, <1>8, <2>1, <2>2 DEF AfterCheckout
<1>10. CASE Build
  <2>1. stage = "build" /\ UNCHANGED <<terminal, demoFile, machine, request>>
    BY <1>10 DEF Build
  <2>2. PICK result \in BuildResults(Head(todo)[1], Head(todo)[2]) : EndsBuild(result)
    BY <1>10 DEF Build
  <2>3. stage' \in {"ended", "build"}
    BY <2>2 DEF EndsBuild, BuildResults, End, Enter
  <2>4. QED
    BY <1>2, <2>1, <2>3 DEF AfterCheckout
<1>11. CASE Push
  <2>1. stage = "build" /\ UNCHANGED <<terminal, demoFile, machine, request>>
    BY <1>11 DEF Push
  <2>2. stage' = "ended" \/ Finish
    BY <1>11 DEF Push, End
  <2>3. QED
    BY <1>1, <1>8, <2>1, <2>2 DEF AfterCheckout
<1>12. CASE Select
  <2>1. /\ stage = "select" /\ UNCHANGED <<terminal, demoFile, machine, request>>
        /\ UNCHANGED <<configs, selected, setup>>
        /\ stage' \in {"ended", "demo"}
        /\ pool' = SelectedPrograms(demoFile, Used("near_rt_ric").folder, Used("5gc").folder,
                                    Used("gnb").folder, UsedUEs)
    BY <1>12 DEF Select, End, Enter, checkoutVars
  <2>2. UsedUEs' = UsedUEs /\ \A k : Used(k)' = Used(k)
    BY <2>1, SameConfiguration DEF UsedUEs
  <2>3. request.run_demo /\ TerminalFits
    BY <1>0, <2>1 DEF DemoInv, AfterCheckout
  <2>4. TerminalFits'
    BY <2>1, <2>3 DEF TerminalFits
  <2>5. QED
    BY <2>1, <2>2, <2>3, <2>4 DEF DemoInv
<1>13. CASE Again
  BY <1>1, <1>13 DEF Again, AfterCheckout
<1>14. CASE UNCHANGED vars
  <2>1. UNCHANGED <<stage, terminal, demoFile, machine, request, setup, configs, selected, pool>>
    BY <1>14 DEF vars, mainVars, checkoutVars
  <2>2. UsedUEs' = UsedUEs /\ \A k : Used(k)' = Used(k)
    BY <2>1, SameConfiguration DEF UsedUEs
  <2>3. TerminalFits' <=> TerminalFits
    BY <2>1 DEF TerminalFits
  <2>4. QED
    BY <1>0, <2>1, <2>2, <2>3 DEF DemoInv, AfterCheckout
<1>15. QED
  BY <1>3, <1>4, <1>5, <1>6, <1>7, <1>9, <1>10, <1>11, <1>12, <1>13, <1>14 DEF Next

-----------------------------------------------------------------------------
(***************************************************************************)
(* The inductive invariant holds of every run of the program: main.py with *)
(* any arguments, build configuration, demo configuration and machine.     *)
(***************************************************************************)
THEOREM Invariance == Spec => []IndInv
<1>1. Init => IndInv
  BY InitType, LoadedInit, FolderInit, SettledInit, BuildInit, ImagesInit, DemoInit DEF IndInv
<1>2. IndInv /\ [Next]_vars => IndInv'
  BY TypeStep, LoadedStep, FolderStep, SettledStep, BuildStep, ImagesStep, DemoStep DEF IndInv
<1>3. QED
  BY <1>1, <1>2, PTL DEF Spec

\* Every variable keeps its type, whatever the configurations hold.
THEOREM TypeCorrect == Spec => []TypeOK
<1>1. IndInv => TypeOK
  BY DEF IndInv
<1>2. QED
  BY <1>1, Invariance, PTL

(***************************************************************************)
(* A demo starts only if all before it has succeeded: main_utils.py stops  *)
(* at the first failure, whichever step it is.  The folders in use are as  *)
(* the run found or was asked to clone them, and what it was asked to      *)
(* build is made of repositories.                                          *)
(***************************************************************************)
THEOREM DemoEarned == Spec => []DemoIsEarned
<1>1. ASSUME IndInv, stage = "demo"
      PROVE  DemoIsEarned
  <2>1. /\ TypeOK /\ LoadedInv /\ SettledInv /\ BuildInv /\ ImagesInv
        /\ stage \in AfterCheckout
        /\ configs \in [Configurable -> Seq(Config)]
    BY <1>1 DEF IndInv, TypeOK, AfterCheckout
  <2>2. request.patching
    BY <2>1 DEF SettledInv
  <2>3. ASSUME NEW k \in Configurable, Used(k) # Nothing
        PROVE  folders[Used(k).folder] = Wanted(Used(k).folder)
    <3>1. PICK i \in 1..4 : CheckedOutKinds[i] = k
      BY KindsInOrder
    <3>2. Settled(i) /\ FolderOf(i) = Used(k).folder
      BY <2>1, <3>1 DEF SettledInv, FolderOf
    <3>3. QED
      BY <2>3, <3>1, <3>2 DEF Settled
  <2>4. ASSUME NEW k \in Configurable, Used(k) # Nothing, request.build, dialog[k],
               NEW c \in MadeFor(k)
        PROVE  IsBuilt(k, c)
    BY <1>1, <2>1, <2>4 DEF BuildInv
  <2>5. ASSUME NEW k \in Configurable, Used(k) # Nothing, request.build, dialog[k]
        PROVE  Wanted(Used(k).folder) \in Commits \cup {"latest"}
    <3>1. \E c \in MadeFor(k) : c \in Components
      <4>1. MadeFor(k) \subseteq Components
        BY <2>1, MadeForOneKind
      <4>2. CASE k # "ue"
        BY <4>1, <4>2 DEF MadeFor
      <4>3. CASE k = "ue"
        <5>1. /\ configs["ue"] \in Seq(Config) /\ DOMAIN setup.names = DOMAIN configs["ue"]
              /\ selected["ue"] = IF configs["ue"] = <<>> THEN "none" ELSE configs["ue"][1].folder
          BY <2>1, UEProperties DEF LoadedInv
        <5>2. configs["ue"] # <<>>
          BY <2>1, <2>5, <4>3, <5>1, UsedUE
        <5>3. 1 \in DOMAIN setup.names
          BY <5>1, <5>2
        <5>4. QED
          BY <4>1, <4>3, <5>3 DEF MadeFor, Elements
      <4>4. QED
        BY <4>2, <4>3
    <3>2. PICK c \in MadeFor(k) : c \in Components
      BY <3>1
    <3>3. images[c] = [folder |-> Used(k).folder, commit |-> Wanted(Used(k).folder)]
      BY <2>4, <2>5, <3>2 DEF IsBuilt
    <3>4. Used(k).folder \in Folders /\ "none" \notin Folders
      BY <2>1, <2>5, UsedFolder, FoldersAssumption
    <3>5. images[c] # Nothing /\ images[c].commit = Wanted(Used(k).folder)
      BY <3>3, <3>4 DEF Nothing
    <3>6. QED
      BY <2>1, <3>2, <3>5 DEF ImagesInv
  <2>6. QED
    BY <2>2, <2>3, <2>4, <2>5 DEF DemoIsEarned, MadeFor, IsBuilt, Wanted
<1>2. IndInv => DemoIsEarned
  BY <1>1 DEF DemoIsEarned
<1>3. QED
  BY <1>2, Invariance, PTL

(***************************************************************************)
(* The managers look programs up by name, and create_programs gives them   *)
(* no two of the same one if the demo configuration has passed the checks. *)
(***************************************************************************)
THEOREM UniquePool == Spec => []PoolIsUnique
<1>1. ASSUME IndInv, stage = "demo", IsValid(demoFile)
      PROVE  ~HasDuplicates(PoolNames)
  <2>1. /\ demoFile \in ProgramDescriptionCfg /\ ProgramsAreValid(demoFile)
        /\ pool = SelectedPrograms(demoFile, Used("near_rt_ric").folder, Used("5gc").folder,
                                   Used("gnb").folder, UsedUEs)
    BY <1>1, FileTypes DEF IndInv, TypeOK, DemoInv, IsValid
  <2>2. Distinct(pool)
    BY <2>1, SelectedProperties
  <2>3. QED
    BY <2>2 DEF Distinct, HasDuplicates, PoolNames
<1>2. IndInv => PoolIsUnique
  BY <1>1 DEF PoolIsUnique
<1>3. QED
  BY <1>2, Invariance, PTL

\* What _check_valid_terminal leaves is in use when the demo starts.
THEOREM UsableTerminal == Spec => []TerminalIsUsable
<1>1. IndInv => TerminalIsUsable
  BY DEF IndInv, DemoInv, TerminalFits, TerminalIsUsable, AfterCheckout
<1>2. QED
  BY <1>1, Invariance, PTL

-----------------------------------------------------------------------------
(***************************************************************************)
(* The starter of a selected program waits for programs that are selected, *)
(* if the demo configuration has passed the checks and fits the build.     *)
(***************************************************************************)
THEOREM ClosedPool == Spec => []PoolIsClosed
<1>1. ASSUME IndInv, stage = "demo", IsValid(demoFile), FitsTheBuild,
             NEW i \in DOMAIN pool, NEW d \in Dependencies(pool[i])
      PROVE  d \in Elements(PoolNames)
  <2>1. /\ TypeOK /\ LoadedInv /\ SettledInv /\ stage \in AfterCheckout
        /\ demoFile \in ProgramDescriptionCfg /\ ProgramsAreValid(demoFile)
        /\ pool = SelectedPrograms(demoFile, Used("near_rt_ric").folder, Used("5gc").folder,
                                   Used("gnb").folder, UsedUEs)
    BY <1>1, FileTypes DEF IndInv, TypeOK, DemoInv, IsValid, AfterCheckout
  <2>2. \A q \in Elements(pool) : q.name \in Elements(PoolNames)
    BY DEF Elements, PoolNames
  <2>3. PICK g \in DOMAIN demoFile.groups : pool[i] \in Elements(demoFile.groups[g].programs)
    <3>1. pool[i] \in Elements(pool)
      BY <1>1 DEF Elements
    <3>2. pool[i] \in UNION {Elements(demoFile.groups[g].programs) : g \in DOMAIN demoFile.groups}
      BY <2>1, <3>1 DEF TypeOK
    <3>3. QED
      BY <3>2
  <2>4. PICK h \in DOMAIN demoFile.groups : d \in NamesOf(demoFile.groups[h])
    BY <2>1, <2>3 DEF ProgramsAreValid, Elements, AllNames
  <2> DEFINE programs == demoFile.groups[h].programs
             type     == GroupType(demoFile.groups[h].key)
  <2>5. PICK j \in DOMAIN programs : d = programs[j].name
    BY <2>4 DEF NamesOf
  <2>6. type \in ProgramGroupIdentifier /\ h \in Group(type)
    BY DEF GroupType, ProgramGroupIdentifier, Group
  <2>7. ProgramsOf(demoFile, type) = programs
    <3>1. PICK e \in DOMAIN demoFile.groups :
             /\ GroupType(demoFile.groups[e].key) = type
             /\ ProgramsOf(demoFile, type) = demoFile.groups[e].programs
      BY <2>1, ProgramsOfGroup
    <3>2. e \in Group(type)
      BY <3>1 DEF Group
    <3>3. e = h
      BY <1>1, <2>6, <3>2 DEF FitsTheBuild
    <3>4. QED
      BY <3>1, <3>3
  <2>8. programs[j] \in Elements(ProgramsOf(demoFile, type))
    BY <2>5, <2>7 DEF Elements
  <2>9. Elements(pool) =
                Elements(FirstMatching(demoFile, "run_ric", Used("near_rt_ric").folder))
           \cup Elements(FirstMatching(demoFile, "run_core", Used("5gc").folder))
           \cup Elements(FirstMatching(demoFile, "run_gnb", Used("gnb").folder))
           \cup Elements(MatchingUEs(demoFile, UsedUEs))
           \cup Elements(ProgramsOf(demoFile, "run_misc"))
    BY <2>1, SelectedProperties
  <2>10. CASE type = "run_misc"
    BY <2>2, <2>5, <2>8, <2>9, <2>10
  <2>11. CASE type = "run_ue"
    <3> DEFINE p == programs[j]
    <3>1. p.name \in Elements(setup.names) /\ Implementation("run_ue", p) # "none"
      BY <1>1, <2>5, <2>6, <2>11 DEF FitsTheBuild
    <3>2. PICK n \in DOMAIN configs["ue"] : p.name = setup.names[n]
      BY <2>1, <3>1, UEProperties DEF Elements
    <3>3. Implementation("run_ue", p) = "srsRAN_4G"
      BY <3>1 DEF Implementation, Implementations
    <3>4. Implementation("run_ue", p) = configs["ue"][n].folder
      BY <2>1, <3>3, UEProperties
    <3>5. IsForUE(p, UsedUEs)
      BY <3>2, <3>4 DEF IsForUE, UsedUEs
    <3>6. p \in Elements(MatchingUEs(demoFile, UsedUEs))
      BY <2>1, <2>8, <2>11, <3>5, MatchingUEsProperties
    <3>7. QED
      BY <2>2, <2>5, <2>9, <3>6
  <2>12. CASE type \in {"run_ric", "run_core", "run_gnb"}
    <3> DEFINE folder == Used(KindOf(type)).folder
    <3>1. /\ \A a, b \in DOMAIN programs : programs[a].name = programs[b].name
          /\ \E a \in DOMAIN programs : Implementation(type, programs[a]) = folder
      BY <1>1, <2>6, <2>12 DEF FitsTheBuild
    <3>2. \E q \in Elements(programs) : Implementation(type, q) = folder
      BY <3>1 DEF Elements
    <3>3. PICK p \in Elements(FirstMatching(demoFile, type, folder)) : TRUE
      BY <2>1, <2>7, <3>2, FirstMatchingProperties
    <3>4. p \in Elements(programs)
      BY <2>1, <2>7, <3>3, FirstMatchingProperties
    <3>5. p.name = d
      BY <2>5, <3>1, <3>4 DEF Elements
    <3>6. p \in Elements(pool)
      BY <2>9, <2>12, <3>3 DEF KindOf
    <3>7. QED
      BY <2>2, <3>5, <3>6
  <2>13. QED
    BY <2>6, <2>10, <2>11, <2>12 DEF ProgramGroupIdentifier
<1>2. IndInv => PoolIsClosed
  BY <1>1 DEF PoolIsClosed
<1>3. QED
  BY <1>2, Invariance, PTL

=============================================================================
