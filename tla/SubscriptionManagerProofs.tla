---------------------- MODULE SubscriptionManagerProofs ----------------------
(***************************************************************************)
(* What holds of the reference counts for any number of holders, keys,     *)
(* faults and crashes.                                                     *)
(***************************************************************************)
EXTENDS SubscriptionManager, FiniteSetTheorems, TLAPS

(***************************************************************************)
(* How the number of holders of a key changes with one holder.             *)
(***************************************************************************)
LEMMA AddHolder ==
  ASSUME NEW S \in SUBSET Holder, NEW h \in Holder, h \notin S
  PROVE  /\ Cardinality(S) \in Nat
         /\ Cardinality(S \cup {h}) = Cardinality(S) + 1
<1>1. IsFiniteSet(S)
  BY HolderAssumption, FS_Subset
<1> QED BY <1>1, FS_CardinalityType, FS_AddElement

(***************************************************************************)
(* A set of holders that loses a member loses one.                         *)
(***************************************************************************)
LEMMA RemoveHolder ==
  ASSUME NEW S \in SUBSET Holder, NEW h \in S
  PROVE  /\ Cardinality(S) \in Nat \ {0}
         /\ Cardinality(S \ {h}) = Cardinality(S) - 1
<1>1. IsFiniteSet(S)
  BY HolderAssumption, FS_Subset
<1>2. Cardinality(S) \in Nat /\ Cardinality(S) # 0
  BY <1>1, FS_CardinalityType, FS_EmptySet
<1> QED BY <1>1, <1>2, FS_RemoveElement

(***************************************************************************)
(* A set of holders has a natural number of members, zero when it is       *)
(* empty.                                                                  *)
(***************************************************************************)
LEMMA HolderCount ==
  ASSUME NEW S \in SUBSET Holder
  PROVE  /\ Cardinality(S) \in Nat
         /\ Cardinality(S) = 0 <=> S = {}
<1>1. IsFiniteSet(S)
  BY HolderAssumption, FS_Subset
<1> QED BY <1>1, FS_CardinalityType, FS_EmptySet

(***************************************************************************)
(* A key stands for a natural number of holders, none of them when it has  *)
(* none, alive or dead.                                                    *)
(***************************************************************************)
LEMMA CountedFacts ==
  ASSUME TypeOK, NEW k \in Key
  PROVE  /\ Counted(k) \in Nat
         /\ Counted(k) = 0 <=> refs[k] = {} /\ lost[k] = 0
BY HolderCount DEF TypeOK, Counted

(***************************************************************************)
(* What the invariant says of a state in which nothing has failed.         *)
(***************************************************************************)
FaultlessInv ==
  /\ NeverOvercounts /\ ExactUnlessOverlap /\ NoStaleField /\ DeletedHasNoHolder

(***************************************************************************)
(* A step that is a fault owes nothing to the claims about faultless runs. *)
(***************************************************************************)
LEMMA FaultsExcuse ==
  ASSUME faults \in Nat, Fault
  PROVE  FaultlessInv'
<1>1. faults' # 0
  BY DEF Fault
<1> QED BY <1>1 DEF FaultlessInv, NeverOvercounts, ExactUnlessOverlap,
                    NoStaleField, DeletedHasNoHolder

-----------------------------------------------------------------------------
(***************************************************************************)
(* An empty hash satisfies the inductive invariant.                        *)
(***************************************************************************)
LEMMA InitCount == Init => CountInv
<1> SUFFICES ASSUME Init PROVE CountInv
  OBVIOUS
<1> USE DEF Init
<1>1. TypeOK
  BY FaultsAssumption DEF TypeOK
<1>2. AbsentCountsZero /\ NoStaleField /\ DeletedHasNoHolder
  BY DEF AbsentCountsZero, NoStaleField, DeletedHasNoHolder
<1>3. Cardinality({}) = 0
  BY FS_EmptySet
<1>4. NeverOvercounts /\ ExactUnlessOverlap /\ LockExclusive
  BY <1>3 DEF NeverOvercounts, ExactUnlessOverlap, LockExclusive, Counted
<1> QED BY <1>1, <1>2, <1>4 DEF CountInv

(***************************************************************************)
(* HINCRBY changes the count of its own key, by n, and leaves a field      *)
(* there.                                                                  *)
(***************************************************************************)
LEMMA HincrbyFacts ==
  ASSUME CountInv, NEW k \in Key, NEW n \in Int, Hincrby(k, n)
  PROVE  /\ count' \in [Key -> Int]
         /\ count'[k] = count[k] + n
         /\ \A j \in Key \ {k} : count'[j] = count[j]
         /\ fields' \subseteq Key
         /\ AbsentCountsZero'
BY DEF CountInv, TypeOK, Hincrby, AbsentCountsZero

(***************************************************************************)
(* HDEL makes the counts of its keys zero and removes their fields.        *)
(***************************************************************************)
LEMMA HdelFacts ==
  ASSUME CountInv, NEW ks \in SUBSET Key, Hdel(ks)
  PROVE  /\ count' \in [Key -> Int]
         /\ \A j \in Key : count'[j] = IF j \in ks THEN 0 ELSE count[j]
         /\ fields' = fields \ ks
         /\ AbsentCountsZero'
BY DEF CountInv, TypeOK, Hdel, AbsentCountsZero

(***************************************************************************)
(* Every way an increment can run, fault or not, keeps the types and       *)
(* leaves absent fields at zero.                                           *)
(***************************************************************************)
LEMMA IncrementingTyped ==
  ASSUME CountInv, NEW h \in Holder, NEW k \in Key, NEW n \in Int,
         Incrementing(h, k, n), faults' = faults \/ Fault
  PROVE  TypeOK' /\ AbsentCountsZero'
<1> USE DEF Incrementing
<1>1. /\ count' \in [Key -> Int] /\ fields' \subseteq Key /\ AbsentCountsZero'
  BY HincrbyFacts
<1>2. faults' \in Nat /\ faults' + crashes' <= MaxFaults
  BY FaultsAssumption DEF CountInv, TypeOK, Fault
<1> QED BY <1>1, <1>2 DEF CountInv, TypeOK

(***************************************************************************)
(* increment keeps the inductive invariant: the new holder is counted, or  *)
(* the step was a fault.                                                   *)
(***************************************************************************)
LEMMA IncrementStep ==
  ASSUME CountInv, NEW h \in Holder, NEW k \in Key, Increment(h, k)
  PROVE  CountInv'
<1>1. TypeOK' /\ AbsentCountsZero'
  <2>1. Incrementing(h, k, 1) /\ faults' = faults
    BY DEF Increment
  <2> QED BY <2>1, IncrementingTyped
<1> USE DEF Increment, Incrementing
<1>2. /\ count'[k] = count[k] + 1
      /\ \A j \in Key \ {k} : count'[j] = count[j]
  BY HincrbyFacts
<1>3. /\ refs'[k] = refs[k] \cup {h}
      /\ \A j \in Key \ {k} : refs'[j] = refs[j]
      /\ Counted(k) \in Nat
      /\ Counted(k)' = Counted(k) + 1
      /\ \A j \in Key \ {k} : Counted(j)' = Counted(j)
      /\ lost' = lost
  BY AddHolder DEF CountInv, TypeOK, Counted
<1>4. /\ overlapped' = IF BeingDeleted(k) THEN overlapped \cup {k} ELSE overlapped
      /\ \A j \in Key : BeingDeleted(j)' = BeingDeleted(j)
  BY DEF BeingDeleted
<1>5. count \in [Key -> Int] /\ (faults' = 0 => faults = 0)
  BY DEF CountInv, TypeOK
<1>6. NeverOvercounts'
  <2>1. ASSUME faults = 0, NEW j \in Key
        PROVE  count'[j] <= Counted(j)'
    <3>1. count[j] <= Counted(j)
      BY <2>1 DEF CountInv, NeverOvercounts
    <3>2. CASE j = k
      BY <1>2, <1>3, <1>5, <3>1, <3>2
    <3>3. CASE j # k
      BY <1>2, <1>3, <3>1, <3>3
    <3> QED BY <3>2, <3>3
  <2> QED BY <1>5, <2>1 DEF NeverOvercounts
<1>7. ExactUnlessOverlap'
  BY <1>2, <1>3, <1>4, <1>5 DEF CountInv, ExactUnlessOverlap
<1>8. NoStaleField'
  <2>1. fields' = fields \cup {k}
    BY DEF Hincrby
  <2>2. ASSUME faults = 0, Serving, ~BeingDeleted(k) PROVE count'[k] > 0
    <3>1. CASE k \in fields
      BY <1>2, <1>5, <2>2, <3>1 DEF CountInv, NoStaleField
    <3>2. CASE k \notin fields
      BY <1>2, <1>5, <3>2 DEF CountInv, AbsentCountsZero
    <3> QED BY <3>1, <3>2
  <2>3. ASSUME faults = 0, Serving, NEW j \in fields', j # k
        PROVE  count'[j] > 0 \/ BeingDeleted(j)
    <3>1. j \in fields /\ j \in Key
      BY <2>1, <2>3 DEF CountInv, TypeOK
    <3> QED BY <1>2, <2>3, <3>1 DEF CountInv, NoStaleField
  <2>4. fields' \subseteq Key
    BY <1>1 DEF TypeOK
  <2> QED BY <1>4, <1>5, <2>2, <2>3, <2>4 DEF NoStaleField, Serving
<1>9. DeletedHasNoHolder'
  BY <1>3, <1>4, <1>5 DEF CountInv, DeletedHasNoHolder
<1>10. LockExclusive'
  BY DEF CountInv, LockExclusive
<1> QED BY <1>1, <1>6, <1>7, <1>8, <1>9, <1>10 DEF CountInv

(***************************************************************************)
(* Every way the HINCRBY of a decrement can run keeps the types and leaves *)
(* absent fields at zero.                                                  *)
(***************************************************************************)
LEMMA DecrementingTyped ==
  ASSUME CountInv, NEW h \in Holder, NEW k \in Key, NEW n \in Int,
         Decrementing(h, k, n), deleting' \subseteq Deletion,
         faults' = faults \/ Fault
  PROVE  TypeOK' /\ AbsentCountsZero'
<1> USE DEF Decrementing
<1>1. -n \in Int
  OBVIOUS
<1>2. /\ count' \in [Key -> Int] /\ fields' \subseteq Key /\ AbsentCountsZero'
  BY <1>1, HincrbyFacts
<1>3. faults' \in Nat /\ faults' + crashes' <= MaxFaults
  BY FaultsAssumption DEF CountInv, TypeOK, Fault
<1> QED BY <1>2, <1>3 DEF CountInv, TypeOK

(***************************************************************************)
(* The HINCRBY of decrement keeps the inductive invariant: the holder      *)
(* leaves with its unit, and a deletion starts only at zero.               *)
(***************************************************************************)
LEMMA DecrementStep ==
  ASSUME CountInv, NEW h \in Holder, NEW k \in Key, Decrement(h, k)
  PROVE  CountInv'
<1> DEFINE d == [holder |-> h, key |-> k, stage |-> "hdel"]
<1>1. TypeOK' /\ AbsentCountsZero'
  <2>1. Decrementing(h, k, 1) /\ faults' = faults
    BY DEF Decrement
  <2>2. deleting' \subseteq Deletion
    BY DEF Decrement, DeleteAt, Deletion
  <2> QED BY <2>1, <2>2, DecrementingTyped
<1> USE DEF Decrement, Decrementing, DeleteAt
<1>2. /\ count'[k] = count[k] - 1
      /\ \A j \in Key \ {k} : count'[j] = count[j]
      /\ count \in [Key -> Int]
  <2>1. Hincrby(k, -1)
    OBVIOUS
  <2> QED BY <2>1, HincrbyFacts DEF CountInv, TypeOK
<1>3. /\ refs'[k] = refs[k] \ {h}
      /\ \A j \in Key \ {k} : refs'[j] = refs[j]
      /\ Counted(k) \in Nat \ {0}
      /\ Counted(k)' = Counted(k) - 1
      /\ \A j \in Key \ {k} : Counted(j)' = Counted(j)
  <2>1. /\ refs[k] \in SUBSET Holder /\ h \in refs[k]
        /\ lost[k] \in Nat /\ lost' = lost
        /\ refs'[k] = refs[k] \ {h}
        /\ \A j \in Key \ {k} : refs'[j] = refs[j]
    BY DEF CountInv, TypeOK
  <2>2. /\ Cardinality(refs[k]) \in Nat \ {0}
        /\ Cardinality(refs'[k]) = Cardinality(refs[k]) - 1
    BY <2>1, RemoveHolder
  <2> HIDE DEF Decrement, Decrementing, DeleteAt
  <2> QED BY <2>1, <2>2 DEF Counted
<1>4. /\ \A j \in Key : ~BeingDeleted(j)
      /\ \A j \in Key \ {k} : ~BeingDeleted(j)'
      /\ count'[k] <= 0 => BeingDeleted(k)'
      /\ BeingDeleted(k)' => count'[k] <= 0
  <2>1. deleting = {} /\ deleting' = IF count'[k] <= 0 THEN {d} ELSE {}
    BY DEF Unlocked
  <2>2. d.key = k /\ d.stage = "hdel"
    OBVIOUS
  <2> HIDE DEF d, Decrement, Decrementing, DeleteAt
  <2> QED BY <2>1, <2>2 DEF BeingDeleted
<1>5. faults' = faults /\ overlapped' = overlapped
  OBVIOUS
<1>6. NeverOvercounts'
  <2>1. ASSUME faults = 0, NEW j \in Key
        PROVE  count'[j] <= Counted(j)'
    <3>1. count[j] <= Counted(j)
      BY <2>1 DEF CountInv, NeverOvercounts
    <3>2. CASE j = k
      BY <1>2, <1>3, <1>5, <3>1, <3>2
    <3>3. CASE j # k
      BY <1>2, <1>3, <3>1, <3>3
    <3> QED BY <3>2, <3>3
  <2> QED BY <1>5, <2>1 DEF NeverOvercounts
<1>7. ExactUnlessOverlap'
  BY <1>2, <1>3, <1>5 DEF CountInv, ExactUnlessOverlap
<1>8. NoStaleField'
  <2>1. fields' = fields \cup {k}
    BY DEF Hincrby
  <2>2. ~BeingDeleted(k)' => count'[k] > 0
    BY <1>1, <1>4 DEF TypeOK
  <2>3. ASSUME faults = 0, Serving, NEW j \in fields, j # k PROVE count'[j] > 0
    <3>1. j \in Key
      BY DEF CountInv, TypeOK
    <3> QED BY <1>2, <1>4, <2>3, <3>1 DEF CountInv, NoStaleField
  <2> QED BY <1>5, <2>1, <2>2, <2>3 DEF NoStaleField, Serving
<1>9. DeletedHasNoHolder'
  <2>1. /\ Counted(k)' \in Nat
        /\ Counted(k)' = 0 <=> refs'[k] = {} /\ lost'[k] = 0
    <3> HIDE DEF Decrement, Decrementing, DeleteAt
    <3>1. /\ refs'[k] \in SUBSET Holder /\ lost'[k] \in Nat
      BY <1>1 DEF TypeOK
    <3>2. /\ Cardinality(refs'[k]) \in Nat
          /\ Cardinality(refs'[k]) = 0 <=> refs'[k] = {}
      BY <3>1, HolderCount
    <3>3. Counted(k)' = Cardinality(refs'[k]) + lost'[k]
      BY DEF Counted
    <3> QED BY <3>1, <3>2, <3>3
  <2> QED BY <1>4, <1>5, <1>7, <2>1 DEF DeletedHasNoHolder, ExactUnlessOverlap
<1>10. LockExclusive'
  BY DEF CountInv, LockExclusive
<1> QED BY <1>1, <1>6, <1>7, <1>8, <1>9, <1>10 DEF CountInv

(***************************************************************************)
(* The HDEL and the SREM of decrement keep the inductive invariant;        *)
(* increments that overlapped the HDEL are the ones it loses.              *)
(***************************************************************************)
LEMMA DeletionStep ==
  ASSUME CountInv, NEW d \in deleting, DecrementHdel(d) \/ DecrementSrem(d)
  PROVE  CountInv'
<1>1. d \in Deletion /\ d.key \in Key
  BY DEF CountInv, TypeOK, Deletion
<1>2. /\ UNCHANGED <<process, refs, overlapped, lost, faults, crashes>>
      /\ marked' \subseteq Key
      /\ \A j \in Key : Counted(j)' = Counted(j)
  BY DEF DecrementHdel, DecrementSrem, ghostVars, CountInv, TypeOK,
     Counted
<1>3. CASE DecrementHdel(d)
  <2> USE <1>3 DEF DecrementHdel
  <2>1. /\ count' \in [Key -> Int] /\ AbsentCountsZero'
        /\ \A j \in Key : count'[j] = IF j = d.key THEN 0 ELSE count[j]
        /\ fields' = fields \ {d.key}
    BY <1>1, HdelFacts
  <2>2. \A j \in Key : ~BeingDeleted(j)'
    BY DEF BeingDeleted
  <2>3. BeingDeleted(d.key)
    BY DEF BeingDeleted
  <2>4. TypeOK'
    <3>1. deleting' \subseteq Deletion
      BY <1>1 DEF Deletion
    <3> QED BY <1>2, <2>1, <3>1 DEF CountInv, TypeOK
  <2>5. \A j \in Key : Counted(j) \in Nat
    BY CountedFacts DEF CountInv
  <2>6. NeverOvercounts'
    <3>1. ASSUME faults = 0, NEW j \in Key PROVE count'[j] <= Counted(j)
      BY <2>1, <2>5, <3>1 DEF CountInv, NeverOvercounts
    <3> QED BY <1>2, <3>1 DEF NeverOvercounts
  <2>7. ExactUnlessOverlap'
    <3>1. ASSUME faults = 0, NEW j \in Key \ overlapped
          PROVE  count'[j] = Counted(j)
      <4>1. CASE j = d.key
        BY <1>1, <2>1, <2>3, <3>1, <4>1, CountedFacts
        DEF CountInv, DeletedHasNoHolder
      <4>2. CASE j # d.key
        BY <2>1, <3>1, <4>2 DEF CountInv, ExactUnlessOverlap
      <4> QED BY <4>1, <4>2
    <3> QED BY <1>2, <3>1 DEF ExactUnlessOverlap
  <2>8. NoStaleField'
    <3>1. ASSUME faults = 0, Serving, NEW j \in fields' PROVE count'[j] > 0
      <4>1. j \in fields /\ j \in Key /\ j # d.key
        BY <2>1, <3>1 DEF CountInv, TypeOK
      <4>2. CASE BeingDeleted(j)
        <5>1. PICK e \in deleting : e.key = j
          BY <4>2 DEF BeingDeleted
        <5>2. e = d
          BY DEF CountInv, LockExclusive
        <5> QED BY <4>1, <5>1, <5>2
      <4>3. CASE ~BeingDeleted(j)
        BY <2>1, <3>1, <4>1, <4>3 DEF CountInv, NoStaleField
      <4> QED BY <4>2, <4>3
    <3> QED BY <1>2, <3>1 DEF NoStaleField, Serving
  <2>9. DeletedHasNoHolder' /\ LockExclusive'
    BY <2>2 DEF DeletedHasNoHolder, LockExclusive
  <2> QED BY <2>1, <2>4, <2>6, <2>7, <2>8, <2>9 DEF CountInv
<1>4. CASE DecrementSrem(d)
  <2> USE <1>4 DEF DecrementSrem
  <2>1. \A j \in Key : ~BeingDeleted(j) /\ ~BeingDeleted(j)'
    BY DEF BeingDeleted, CountInv, LockExclusive
  <2>2. TypeOK' /\ AbsentCountsZero' /\ LockExclusive'
    BY <1>2 DEF CountInv, TypeOK, AbsentCountsZero, LockExclusive
  <2>3. NeverOvercounts' /\ ExactUnlessOverlap'
    BY <1>2 DEF CountInv, NeverOvercounts, ExactUnlessOverlap
  <2>4. NoStaleField'
    <3>1. ASSUME faults = 0, Serving, NEW j \in fields PROVE count[j] > 0
      BY <2>1, <3>1 DEF CountInv, NoStaleField, TypeOK
    <3> QED BY <1>2, <3>1 DEF NoStaleField, Serving
  <2>5. DeletedHasNoHolder'
    BY <2>1 DEF DeletedHasNoHolder
  <2> QED BY <2>2, <2>3, <2>4, <2>5 DEF CountInv
<1> QED BY <1>3, <1>4

(***************************************************************************)
(* A step with a fault only has to keep the types and the absent fields.   *)
(***************************************************************************)
LEMMA FaultStep ==
  ASSUME CountInv,
         \/ \E h \in Holder, k \in Key : IncrementFault(h, k) \/ DecrementFault(h, k)
         \/ \E d \in deleting : DeletionFault(d)
  PROVE  CountInv'
<1>1. Fault
  BY DEF IncrementFault, DecrementFault, DeletionFault
<1>2. FaultlessInv'
  BY <1>1, FaultsExcuse DEF CountInv, TypeOK
<1>3. /\ faults' \in Nat
      /\ crashes' = crashes => faults' + crashes' <= MaxFaults
  BY <1>1, FaultsAssumption DEF Fault, CountInv, TypeOK
<1>4. TypeOK' /\ AbsentCountsZero' /\ LockExclusive'
  <2>1. ASSUME NEW h \in Holder, NEW k \in Key, IncrementFault(h, k)
        PROVE  TypeOK' /\ AbsentCountsZero' /\ LockExclusive'
    <3>1. PICK n \in {0, 2} : Incrementing(h, k, n)
      BY <2>1 DEF IncrementFault
    <3>2. LockExclusive'
      BY <3>1 DEF Incrementing, CountInv, LockExclusive
    <3>3. n \in Int
      OBVIOUS
    <3> QED BY <1>1, <3>1, <3>2, <3>3, IncrementingTyped
  <2>2. ASSUME NEW h \in Holder, NEW k \in Key, DecrementFault(h, k)
        PROVE  TypeOK' /\ AbsentCountsZero' /\ LockExclusive'
    <3>1. /\ \E n \in Int : Decrementing(h, k, n)
          /\ deleting' \subseteq Deletion
          /\ LockExclusive'
      BY <2>2 DEF DecrementFault, DeleteAt, Deletion, LockExclusive, CountInv, TypeOK
    <3> QED BY <1>1, <3>1, DecrementingTyped
  <2>3. ASSUME NEW d \in deleting, DeletionFault(d)
        PROVE  TypeOK' /\ AbsentCountsZero' /\ LockExclusive'
    <3>1. d.key \in Key
      BY DEF CountInv, TypeOK, Deletion
    <3>2. CASE UNCHANGED <<fields, count>>
      BY <1>3, <2>3, <3>2 DEF DeletionFault, redisVars, CountInv, TypeOK,
         AbsentCountsZero, LockExclusive
    <3>3. CASE Hdel({d.key}) /\ UNCHANGED marked
      <4>1. count' \in [Key -> Int] /\ AbsentCountsZero' /\ fields' \subseteq Key
        BY <3>1, <3>3, HdelFacts DEF CountInv, TypeOK
      <4> QED BY <1>3, <2>3, <3>3, <4>1 DEF DeletionFault, CountInv, TypeOK,
                 LockExclusive
    <3> QED BY <2>3, <3>2, <3>3 DEF DeletionFault, redisVars
  <2> QED BY <2>1, <2>2, <2>3
<1> QED BY <1>2, <1>4 DEF CountInv, FaultlessInv

(***************************************************************************)
(* A crash turns the holders of a key into lost ones, one for one.         *)
(***************************************************************************)
LEMMA CrashStep ==
  ASSUME CountInv, Crash
  PROVE  CountInv'
<1> USE DEF Crash
<1>1. \A k \in Key : Cardinality(refs[k]) \in Nat
  BY HolderCount DEF CountInv, TypeOK
<1>2. TypeOK'
  <2>1. lost' \in [Key -> Nat]
    BY <1>1 DEF CountInv, TypeOK
  <2>2. /\ crashes' \in Nat /\ faults' + crashes' <= MaxFaults
    BY FaultsAssumption DEF CountInv, TypeOK
  <2> QED BY <2>1, <2>2 DEF CountInv, TypeOK, redisVars
<1>3. \A k \in Key : Counted(k)' = Counted(k)
  BY <1>1, FS_EmptySet DEF CountInv, TypeOK, Counted
<1>4. NeverOvercounts' /\ ExactUnlessOverlap'
  BY <1>3 DEF CountInv, NeverOvercounts, ExactUnlessOverlap, redisVars
<1>5. AbsentCountsZero' /\ NoStaleField' /\ DeletedHasNoHolder' /\ LockExclusive'
  BY DEF CountInv, AbsentCountsZero, NoStaleField, Serving, DeletedHasNoHolder,
     BeingDeleted, LockExclusive, redisVars
<1> QED BY <1>2, <1>4, <1>5 DEF CountInv

(***************************************************************************)
(* Reading a count and marking a key leave the hash and the lock alone.    *)
(***************************************************************************)
LEMMA ReadAndMarkStep ==
  ASSUME CountInv, NEW k \in Key,
         \/ \E n \in Int : GetCount(k, n)
         \/ MarkUpstreamSubscribed(k) \/ MarkUpstreamUnsubscribed(k)
  PROVE  CountInv'
<1>1. /\ UNCHANGED <<fields, count, deleting, process, refs, overlapped, lost,
                    crashes>>
      /\ marked' \subseteq Key
      /\ faults' = faults \/ Fault
  BY DEF GetCount, MarkUpstreamSubscribed, MarkUpstreamUnsubscribed, redisVars,
         CountInv, TypeOK
<1>2. faults' \in Nat /\ faults' + crashes' <= MaxFaults
  BY <1>1, FaultsAssumption DEF Fault, CountInv, TypeOK
<1>3. TypeOK' /\ AbsentCountsZero' /\ LockExclusive'
  BY <1>1, <1>2 DEF CountInv, TypeOK, AbsentCountsZero, LockExclusive
<1>4. CASE faults' = faults
  BY <1>1, <1>3, <1>4 DEF CountInv, NeverOvercounts, ExactUnlessOverlap,
     NoStaleField, DeletedHasNoHolder, BeingDeleted, Counted, Serving
<1>5. CASE Fault
  BY <1>3, <1>5, FaultsExcuse DEF CountInv, FaultlessInv, TypeOK
<1> QED BY <1>1, <1>4, <1>5

(***************************************************************************)
(* cleanup_stale removes only fields that count nobody.                    *)
(***************************************************************************)
LEMMA CleanupStep ==
  ASSUME CountInv, CleanupStale
  PROVE  CountInv'
<1> DEFINE stale == {k \in fields : count[k] <= 0}
<1>1. /\ UNCHANGED <<marked, deleting, refs, overlapped, lost, crashes>>
      /\ process' = "serving"
      /\ \A k \in Key : Counted(k)' = Counted(k)
  BY DEF CleanupStale, CleaningUp, Counted
<1>2. CASE Hdel(stale) /\ faults' = faults
  <2>1. stale \in SUBSET Key
    BY DEF CountInv, TypeOK
  <2>2. /\ count' \in [Key -> Int] /\ AbsentCountsZero'
        /\ \A j \in Key : count'[j] = IF j \in stale THEN 0 ELSE count[j]
        /\ fields' = fields \ stale
    BY <1>2, <2>1, HdelFacts
  <2>3. TypeOK' /\ LockExclusive' /\ DeletedHasNoHolder'
    BY <1>1, <1>2, <2>2 DEF CountInv, TypeOK, LockExclusive, DeletedHasNoHolder,
       BeingDeleted
  <2>4. \A j \in Key : Counted(j) \in Nat
    BY CountedFacts DEF CountInv
  <2>5. ASSUME faults = 0, NEW j \in Key
        PROVE  /\ count'[j] <= Counted(j)
               /\ j \notin overlapped => count'[j] = Counted(j)
    <3>1. CASE j \in stale
      <4>1. count[j] <= 0 /\ count'[j] = 0 /\ count[j] \in Int
        BY <2>2, <3>1 DEF CountInv, TypeOK
      <4>2. j \notin overlapped => count[j] = Counted(j)
        BY <2>5 DEF CountInv, ExactUnlessOverlap
      <4> QED BY <2>4, <4>1, <4>2
    <3>2. CASE j \notin stale
      BY <2>2, <2>5, <3>2 DEF CountInv, NeverOvercounts, ExactUnlessOverlap
    <3> QED BY <3>1, <3>2
  <2>6. NeverOvercounts' /\ ExactUnlessOverlap'
    BY <1>1, <1>2, <2>5 DEF NeverOvercounts, ExactUnlessOverlap
  <2>7. NoStaleField'
    BY <1>1, <1>2, <2>1, <2>2 DEF CountInv, TypeOK, NoStaleField, BeingDeleted
  <2> QED BY <2>2, <2>3, <2>6, <2>7 DEF CountInv
<1>3. CASE UNCHANGED <<fields, count>> /\ Fault
  <2>1. faults' \in Nat /\ faults' + crashes' <= MaxFaults
    BY <1>1, <1>3, FaultsAssumption DEF Fault, CountInv, TypeOK
  <2>2. TypeOK' /\ AbsentCountsZero' /\ LockExclusive'
    BY <1>1, <1>3, <2>1 DEF CountInv, TypeOK, AbsentCountsZero, LockExclusive
  <2> QED BY <1>3, <2>2, FaultsExcuse DEF CountInv, FaultlessInv, TypeOK
<1> QED BY <1>2, <1>3 DEF CleanupStale, CleaningUp

(***************************************************************************)
(* Every step of the counts keeps the inductive invariant.                 *)
(***************************************************************************)
LEMMA NextCount == CountInv /\ [Next]_vars => CountInv'
<1> SUFFICES ASSUME CountInv, [Next]_vars PROVE CountInv'
  OBVIOUS
<1>1. ASSUME NEW h \in Holder, NEW k \in Key, Increment(h, k) \/ Decrement(h, k)
      PROVE  CountInv'
  BY <1>1, IncrementStep, DecrementStep
<1>2. ASSUME \/ \E h \in Holder, k \in Key : IncrementFault(h, k) \/ DecrementFault(h, k)
             \/ \E d \in deleting : DeletionFault(d)
      PROVE  CountInv'
  BY <1>2, FaultStep
<1>3. ASSUME NEW d \in deleting, DecrementHdel(d) \/ DecrementSrem(d)
      PROVE  CountInv'
  BY <1>3, DeletionStep
<1>4. ASSUME NEW k \in Key,
             \/ \E n \in {0, count[k]} : GetCount(k, n)
             \/ MarkUpstreamSubscribed(k) \/ MarkUpstreamUnsubscribed(k)
      PROVE  CountInv'
  <2>1. count[k] \in Int
    BY DEF CountInv, TypeOK
  <2> QED BY <1>4, <2>1, ReadAndMarkStep
<1>5. ASSUME CleanupStale \/ Crash PROVE CountInv'
  BY <1>5, CleanupStep, CrashStep
<1>6. ASSUME UNCHANGED vars PROVE CountInv'
  BY <1>6 DEF vars, redisVars, ghostVars, CountInv, TypeOK, LockExclusive,
     AbsentCountsZero, NeverOvercounts, ExactUnlessOverlap, NoStaleField,
     DeletedHasNoHolder, BeingDeleted, Counted, Serving
<1> QED BY <1>1, <1>2, <1>3, <1>4, <1>5, <1>6 DEF Next

(***************************************************************************)
(* CountInv holds in every state, for any set of holders and keys and any  *)
(* number of faults and crashes.                                           *)
(***************************************************************************)
THEOREM CountInvariant == Spec => []CountInv
<1>1. Init => CountInv
  BY InitCount
<1>2. CountInv /\ [Next]_vars => CountInv'
  BY NextCount
<1> QED BY <1>1, <1>2, PTL DEF Spec

(***************************************************************************)
(* Type correctness of the hash, the set of marks and the calls.           *)
(***************************************************************************)
THEOREM TypeCorrect == Spec => []TypeOK
<1>1. CountInv => TypeOK
  BY DEF CountInv
<1> QED BY <1>1, CountInvariant, PTL

(***************************************************************************)
(* No interleaving of increments, decrements and crashes leaves a count    *)
(* above the number of holders, present and dead.                          *)
(***************************************************************************)
THEOREM CountsNeverExceedHolders == Spec => []NeverOvercounts
<1>1. CountInv => NeverOvercounts
  BY DEF CountInv
<1> QED BY <1>1, CountInvariant, PTL

(***************************************************************************)
(* A count goes wrong only when an increment falls between the HINCRBY and *)
(* the HDEL of one decrement.                                              *)
(***************************************************************************)
THEOREM CountsExactUnlessOverlap == Spec => []ExactUnlessOverlap
<1>1. CountInv => ExactUnlessOverlap
  BY DEF CountInv
<1> QED BY <1>1, CountInvariant, PTL

(***************************************************************************)
(* cleanup_stale removes every field at or below zero that a crash left,   *)
(* and without a fault no other comes to be.                               *)
(***************************************************************************)
THEOREM StaleFieldsAreCleaned == Spec => []NoStaleField
<1>1. CountInv => NoStaleField
  BY DEF CountInv
<1> QED BY <1>1, CountInvariant, PTL

(***************************************************************************)
(* What the pool relies on when it keeps a topic because of its count: a   *)
(* positive count means that some client uses the key, or used it when its *)
(* process died.                                                           *)
(***************************************************************************)
PositiveIsHeld ==
  faults = 0 => \A k \in Key : count[k] > 0 => refs[k] # {} \/ lost[k] > 0

(***************************************************************************)
(* While no command failed, a count above zero has a holder: what          *)
(* ensure_unsubscribed reads as "still needed" is true, or was when the    *)
(* process died.  The pool's proofs use it.                                *)
(***************************************************************************)
THEOREM PositiveCountsAreHeld == Spec => []PositiveIsHeld
<1>1. CountInv => PositiveIsHeld
  <2> SUFFICES ASSUME CountInv, faults = 0, NEW k \in Key, refs[k] = {},
                      ~(lost[k] > 0)
               PROVE  ~(count[k] > 0)
    BY DEF PositiveIsHeld
  <2>1. count[k] <= Counted(k) /\ count[k] \in Int /\ lost[k] \in Nat
    BY DEF CountInv, NeverOvercounts, TypeOK
  <2>2. Counted(k) = 0
    BY <2>1, CountedFacts DEF CountInv
  <2> QED BY <2>1, <2>2
<1> QED BY <1>1, CountInvariant, PTL

=============================================================================
