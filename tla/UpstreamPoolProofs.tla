-------------------------- MODULE UpstreamPoolProofs --------------------------
(***************************************************************************)
(* What holds of the pool, the reference counts and the Bybit client       *)
(* together, for every set of handlers and keys and any number of faults.  *)
(***************************************************************************)
EXTENDS UpstreamPool, TLAPS

C == INSTANCE SubscriptionManagerProofs WITH Holder <- Task
D == INSTANCE BybitClientProofs WITH Topic <- Key, Caller <- Task

-----------------------------------------------------------------------------
(***************************************************************************)
(* The pool uses the counts as SubscriptionManager allows: each step of    *)
(* the pool is a step of the counts or leaves them alone.                  *)
(***************************************************************************)
LEMMA CountsInit == Init => C!Init
BY DEF Init, S!Init, C!Init

(***************************************************************************)
(* Every step of the pool is a step of the counts, or leaves them alone:   *)
(* the tasks use SubscriptionManager only through its own operations.      *)
(***************************************************************************)
LEMMA CountsNext ==
  ASSUME TypeOK, [Next]_vars
  PROVE  [C!Next]_(C!vars)
<1>1. ASSUME UNCHANGED countVars PROVE UNCHANGED C!vars
  BY <1>1 DEF countVars, C!vars, C!redisVars, C!ghostVars
<1>2. ASSUME NEW s \in Task, NEW k \in Key, Count(s, k) PROVE C!Next
  <2>1. C!Increment(s, k) \/ C!IncrementFault(s, k)
    BY <1>2 DEF Count, S!Increment, S!IncrementFault, S!Incrementing, S!Serving,
       S!Fault, S!Hincrby, C!Increment, C!IncrementFault, C!Incrementing,
       C!Serving, C!Fault, C!Hincrby
  <2> QED BY <2>1 DEF C!Next
<1>3. ASSUME NEW s \in Task, Discount(s) PROVE C!Next
  <2>1. C!Decrement(s, task[s].key) \/ C!DecrementFault(s, task[s].key)
    BY <1>3 DEF Discount, S!Decrement, S!DecrementFault, S!Decrementing,
       S!DeleteAt, S!Serving, S!Unlocked, S!Fault, S!Hincrby, C!Decrement,
       C!DecrementFault, C!Decrementing, C!DeleteAt, C!Serving, C!Unlocked,
       C!Fault, C!Hincrby
  <2> QED BY <2>1 DEF C!Next, TypeOK
<1>4. ASSUME NEW d \in deleting, Delete(d) \/ DeleteEnds(d) PROVE C!Next
  <2>1. C!DecrementHdel(d) \/ C!DecrementSrem(d) \/ C!DeletionFault(d)
    BY <1>4 DEF Delete, DeleteEnds, S!DecrementHdel, S!DecrementSrem,
       S!DeletionFault, S!Hdel, S!Fault, S!ghostVars, S!redisVars,
       C!DecrementHdel, C!DecrementSrem, C!DeletionFault, C!Hdel, C!Fault,
       C!ghostVars, C!redisVars
  <2> QED BY <2>1 DEF C!Next
<1>5. ASSUME NEW s \in Task, ReadCount(s) \/ MarkSubscribed(s) \/ MarkUnsubscribed(s)
      PROVE  C!Next
  <2>1. \/ \E n \in {0, count[task[s].key]} : C!GetCount(task[s].key, n)
        \/ C!MarkUpstreamSubscribed(task[s].key)
        \/ C!MarkUpstreamUnsubscribed(task[s].key)
    BY <1>5 DEF ReadCount, MarkSubscribed, MarkUnsubscribed, S!GetCount,
       S!MarkUpstreamSubscribed, S!MarkUpstreamUnsubscribed, S!Serving, S!Fault,
       S!redisVars, C!GetCount, C!MarkUpstreamSubscribed,
       C!MarkUpstreamUnsubscribed, C!Serving, C!Fault, C!redisVars
  <2> QED BY <2>1 DEF C!Next, TypeOK
<1>6. ASSUME Startup \/ Restart PROVE C!Next
  <2>0. \A k \in Key : S!Cardinality(refs[k]) = C!Cardinality(refs[k])
    BY DEF S!Cardinality, C!Cardinality
  <2>1. C!CleanupStale \/ C!Crash
    BY <1>6, <2>0 DEF Startup, Restart, S!CleanupStale, S!CleaningUp, S!Crash, S!Hdel, S!Fault,
       S!Serving, S!redisVars, C!CleanupStale, C!CleaningUp, C!Crash,
       C!Hdel, C!Fault,
       C!Serving, C!redisVars
  <2> QED BY <2>1 DEF C!Next
<1>7. ASSUME NEW s \in Task, Progress(s) PROVE [C!Next]_(C!vars)
  <2>1. CASE \/ EnsureSubscribedKnown(s) \/ EnsureSubscribed(s)
             \/ \E send \in sending : ClientSubscribed(s, send) \/ ClientUnsubscribed(s, send)
             \/ AddUpstream(s) \/ EnsureUnsubscribedUnknown(s) \/ EnsureUnsubscribed(s)
    BY <1>1, <2>1 DEF EnsureSubscribedKnown, EnsureSubscribed, Claim,
       ClientSubscribed, ClientUnsubscribed, AddUpstream,
       EnsureUnsubscribedUnknown, EnsureUnsubscribed, countVars
  <2>2. CASE \/ \E d \in deleting : d.holder = s /\ (Delete(d) \/ DeleteEnds(d))
             \/ ReadCount(s) \/ MarkSubscribed(s) \/ MarkUnsubscribed(s)
    BY <1>4, <1>5, <2>2
  <2> QED BY <1>7, <2>1, <2>2 DEF Progress
<1>8. CASE ConnectionStep \/ UNCHANGED vars
  BY <1>1, <1>8 DEF ConnectionStep, vars
<1> QED BY <1>2, <1>3, <1>6, <1>7, <1>8 DEF Next

(***************************************************************************)
(* A handler goes on to another place, for the same key.                   *)
(***************************************************************************)
LEMMA Moved ==
  ASSUME TypeOK, NEW s \in Task, NEW pc \in Place, Goto(s, pc)
  PROVE  /\ task' \in [Task -> [pc : Place, key : Key]]
         /\ task'[s].pc = pc /\ task'[s].key = task[s].key
         /\ \A r \in Task \ {s} : task'[r] = task[r]
BY DEF TypeOK, Goto

(***************************************************************************)
(* Type correctness of the pool needs nothing but the pool.                *)
(***************************************************************************)
LEMMA TypeStep == TypeOK /\ [Next]_vars => TypeOK'
<1> SUFFICES ASSUME TypeOK, [Next]_vars PROVE TypeOK'
  OBVIOUS
<1>1. ASSUME NEW s \in Task, NEW k \in Key, Count(s, k) PROVE TypeOK'
  BY <1>1 DEF Count, TypeOK, poolVars, Place
<1>2. ASSUME NEW s \in Task, NEW pc \in Place, Goto(s, pc),
             upstream' \subseteq upstream \cup {task[s].key},
             inFlight' \subseteq inFlight \cup {task[s].key}
      PROVE  TypeOK'
  <2>1. task' \in [Task -> [pc : Place, key : Key]]
    BY <1>2, Moved
  <2>2. task[s].key \in Key
    BY DEF TypeOK
  <2> QED BY <1>2, <2>1, <2>2 DEF TypeOK
<1>3. ASSUME NEW s \in Task, Discount(s) PROVE TypeOK'
  BY <1>2, <1>3 DEF Discount, poolVars, Place
<1>4. ASSUME NEW s \in Task, Progress(s) PROVE TypeOK'
  <2>1. CASE \E d \in deleting : d.holder = s /\ (Delete(d) \/ DeleteEnds(d))
    BY <1>2, <2>1 DEF Delete, DeleteEnds, poolVars, Place, TypeOK
  <2>2. CASE ReadCount(s) \/ MarkSubscribed(s) \/ MarkUnsubscribed(s)
    BY <1>2, <2>2 DEF ReadCount, MarkSubscribed, MarkUnsubscribed, poolVars, Place
  <2>3. CASE \/ EnsureSubscribedKnown(s) \/ EnsureSubscribed(s)
             \/ AddUpstream(s) \/ EnsureUnsubscribedUnknown(s) \/ EnsureUnsubscribed(s)
    BY <1>2, <2>3 DEF EnsureSubscribedKnown, EnsureSubscribed, Claim, AddUpstream,
       EnsureUnsubscribedUnknown, EnsureUnsubscribed, poolVars, Place
  <2>4. CASE \E send \in sending : ClientSubscribed(s, send) \/ ClientUnsubscribed(s, send)
    BY <1>2, <2>4 DEF ClientSubscribed, ClientUnsubscribed, poolVars, Place
  <2> QED BY <1>4, <2>1, <2>2, <2>3, <2>4 DEF Progress
<1>5. CASE ConnectionStep \/ Startup \/ UNCHANGED vars
  BY <1>5 DEF ConnectionStep, Startup, vars, poolVars, TypeOK
<1>6. CASE Restart
  BY <1>6 DEF Restart, TypeOK, Place
<1> QED BY <1>1, <1>3, <1>4, <1>5, <1>6 DEF Next

(***************************************************************************)
(* The pool's state stays of its types.                                    *)
(***************************************************************************)
THEOREM TypeCorrect == Spec => []TypeOK
<1>1. Init => TypeOK
  BY DEF Init, TypeOK, Place
<1> QED BY <1>1, TypeStep, PTL DEF Spec

(***************************************************************************)
(* The pool composed with the counts implements the specification of the   *)
(* counts, so that every theorem about them holds here.                    *)
(***************************************************************************)
THEOREM CountsAreUsedAsSpecified == Spec => C!Spec
<1>1. Init => C!Init
  BY CountsInit
<1>2. TypeOK /\ [Next]_vars => [C!Next]_(C!vars)
  BY CountsNext
<1> QED BY <1>1, <1>2, TypeCorrect, PTL DEF Spec, C!Spec

(***************************************************************************)
(* What the pool's proofs need to know of the counts.                      *)
(***************************************************************************)
LEMMA CountFacts == Spec => [](C!TypeOK /\ C!PositiveIsHeld)
<1>0. C!IsFiniteSet(Task)
  BY TaskAssumption DEF IsFiniteSet, C!IsFiniteSet
<1>1. C!Spec => []C!TypeOK
  BY <1>0, FaultsAssumption, C!TypeCorrect
<1>2. C!Spec => []C!PositiveIsHeld
  BY <1>0, FaultsAssumption, C!PositiveCountsAreHeld
<1> QED BY <1>1, <1>2, CountsAreUsedAsSpecified, PTL

-----------------------------------------------------------------------------
(***************************************************************************)
(* What a step of the pool finds of the counts.                            *)
(***************************************************************************)
Counts == C!TypeOK /\ C!PositiveIsHeld

(***************************************************************************)
(* A fault excuses a leak.                                                 *)
(***************************************************************************)
LEMMA FaultsExcuse ==
  ASSUME Counts, faults' = faults + 1
  PROVE  NoLeak'
<1>1. faults \in Nat
  BY FaultsAssumption DEF Counts, C!TypeOK
<1> QED BY <1>1 DEF NoLeak

(***************************************************************************)
(* A client subscribes.                                                    *)
(***************************************************************************)
LEMMA CountStep ==
  ASSUME PoolInv, Counts, TypeOK', NEW s \in Task, NEW k \in Key, Count(s, k)
  PROVE  PoolInv'
<1>1. /\ task[s].pc = "idle" /\ task'[s].pc = "ensure" /\ task'[s].key = k
      /\ \A r \in Task \ {s} : task'[r] = task[r]
      /\ UNCHANGED <<upstream, inFlight, deleting, lost>>
      /\ refs' = [refs EXCEPT ![k] = @ \cup {s}]
      /\ faults' = faults \/ faults' = faults + 1
  BY DEF Count, At, poolVars, PoolInv, TypeOK, S!Increment, S!IncrementFault,
     S!Incrementing, S!Fault
<1>2. /\ refs \in [Key -> SUBSET Task] /\ deleting \subseteq C!Deletion
  BY DEF Counts, C!TypeOK
<1>3. /\ \A j \in Key : refs[j] \subseteq refs'[j]
      /\ s \in refs'[k]
  BY <1>1, <1>2
<1>4. DeletersInPlace'
  BY <1>1, <1>2 DEF PoolInv, DeletersInPlace, C!Deletion, At
<1>5. HoldersInPlace'
  BY <1>1, <1>3 DEF PoolInv, HoldersInPlace, TypeOK
<1>6. ClaimsInFlight'
  BY <1>1 DEF PoolInv, ClaimsInFlight, Claims
<1>7. OneSubscriber'
  BY <1>1 DEF PoolInv, OneSubscriber, Claims
<1>8. NoLeak'
  <2>1. CASE faults' = faults
    BY <1>1, <1>3, <2>1 DEF PoolInv, NoLeak, Leaving, TypeOK
  <2> QED BY <1>1, <2>1, FaultsExcuse
<1> QED BY <1>4, <1>5, <1>6, <1>7, <1>8 DEF PoolInv

(***************************************************************************)
(* A handler goes on without touching the pool's sets or the counts.       *)
(***************************************************************************)
LEMMA QuietStep ==
  ASSUME PoolInv, Counts, TypeOK', NEW s \in Task, NEW pc \in Place, Goto(s, pc),
         UNCHANGED <<upstream, inFlight, deleting, refs, lost>>,
         faults' = faults \/ faults' = faults + 1,
         \/ At(s, "ensure") /\ pc = "on"
         \/ At(s, "subscribing") /\ pc = "mark"
         \/ At(s, "mark") /\ pc = "add"
         \/ At(s, "unsubscribing") /\ pc = "unmark"
         \/ At(s, "unmark") /\ pc = "idle"
         \/ At(s, "count") /\ pc = "drop"
         \/ At(s, "count") /\ pc = "idle" 
            /\ (faults' = 0 => refs[task[s].key] # {} \/ lost[task[s].key] > 0)
         \/ At(s, "drop") /\ pc = "idle" /\ task[s].key \notin upstream
  PROVE  PoolInv'
<1>1. /\ task'[s].pc = pc /\ task'[s].key = task[s].key
      /\ \A r \in Task \ {s} : task'[r] = task[r]
  BY Moved DEF PoolInv
<1>2. /\ \A d \in deleting : d.holder \in Task
      /\ \A r \in Task : task[r].key \in Key
  BY DEF Counts, C!TypeOK, C!Deletion, PoolInv, TypeOK
<1>3. DeletersInPlace'
  BY <1>1, <1>2 DEF PoolInv, DeletersInPlace, At
<1>4. HoldersInPlace'
  BY <1>1 DEF PoolInv, HoldersInPlace, At
<1>5. ClaimsInFlight'
  BY <1>1 DEF PoolInv, ClaimsInFlight, Claims, At
<1>6. OneSubscriber'
  <2>1. \A r \in Task, k \in Key : Claims(r, k)' <=> Claims(r, k)
    BY <1>1 DEF Claims, At
  <2> QED BY <2>1 DEF PoolInv, OneSubscriber
<1>7. NoLeak'
  <2>1. ASSUME faults' = 0, NEW k \in upstream \cup inFlight, refs[k] = {},
               ~(lost[k] > 0)
        PROVE  \E r \in Task : Leaving(r, k)'
    <3>1. faults = 0
      BY <2>1, FaultsAssumption DEF Counts, C!TypeOK
    <3>2. PICK r \in Task : Leaving(r, k)
      BY <2>1, <3>1 DEF PoolInv, NoLeak
    <3>3. CASE r # s
      BY <1>1, <3>2, <3>3 DEF Leaving
    <3>4. CASE r = s
      <4>1. \A q \in Task : ~Claims(q, k)
        BY <2>1 DEF PoolInv, HoldersInPlace, Claims
      <4>2. k \in upstream
        BY <2>1, <4>1 DEF PoolInv, OneSubscriber, TypeOK
      <4> QED BY <1>1, <2>1, <3>2, <3>4, <4>2 DEF Leaving, At
    <3> QED BY <3>3, <3>4
  <2> QED BY <2>1 DEF NoLeak
<1> QED BY <1>3, <1>4, <1>5, <1>6, <1>7 DEF PoolInv

(***************************************************************************)
(* ensure_subscribed claims a topic and gives the claim up.                *)
(***************************************************************************)
LEMMA EnsureSubscribedStep ==
  ASSUME PoolInv, Counts, TypeOK', NEW s \in Task, EnsureSubscribed(s)
  PROVE  PoolInv'
<1> DEFINE k == task[s].key
<1>1. PICK pc \in {"mark", "subscribing"} : Goto(s, pc)
  BY DEF EnsureSubscribed, Claim
<1>2. /\ task[s].pc = "ensure" /\ k \notin upstream \cup inFlight
      /\ inFlight' = inFlight \cup {k}
      /\ UNCHANGED <<upstream, deleting, refs, lost, faults>>
  BY DEF EnsureSubscribed, Claim, At, countVars
<1>3. /\ task'[s].pc = pc /\ task'[s].key = k
      /\ \A r \in Task \ {s} : task'[r] = task[r]
  BY <1>1, Moved DEF PoolInv, Place
<1>4. /\ \A d \in deleting : d.holder \in Task
      /\ \A r \in Task : task[r].key \in Key
  BY DEF Counts, C!TypeOK, C!Deletion, PoolInv, TypeOK
<1>5. s \in refs[k]
  BY <1>2 DEF PoolInv, HoldersInPlace
<1> HIDE DEF k
<1>6. DeletersInPlace'
  BY <1>2, <1>3, <1>4 DEF PoolInv, DeletersInPlace, At
<1>7. HoldersInPlace'
  BY <1>2, <1>3, <1>5 DEF PoolInv, HoldersInPlace
<1>8. ClaimsInFlight'
  BY <1>2, <1>3 DEF PoolInv, ClaimsInFlight, Claims
<1>9. OneSubscriber'
  BY <1>2, <1>3 DEF PoolInv, OneSubscriber, ClaimsInFlight, Claims
<1>10. NoLeak'
  <2>1. \A r \in Task, j \in Key : Leaving(r, j)' <=> Leaving(r, j)
    BY <1>2, <1>3 DEF Leaving
  <2>2. upstream \cup inFlight \subseteq Key
    BY DEF PoolInv, TypeOK
  <2> QED BY <1>2, <1>5, <2>1, <2>2 DEF PoolInv, NoLeak
<1> QED BY <1>6, <1>7, <1>8, <1>9, <1>10 DEF PoolInv

(***************************************************************************)
(* The owner of a topic in flight adds it to _upstream_subs: the claim it  *)
(* had becomes the pool's.                                                 *)
(***************************************************************************)
LEMMA AddUpstreamStep ==
  ASSUME PoolInv, Counts, TypeOK', NEW s \in Task, AddUpstream(s)
  PROVE  PoolInv'
<1> DEFINE k == task[s].key
<1>1. /\ task[s].pc = "add" /\ Goto(s, "on")
      /\ inFlight' = inFlight \ {k} /\ upstream' = upstream \cup {k}
      /\ UNCHANGED <<deleting, refs, lost, faults>>
  BY DEF AddUpstream, At, countVars
<1>2. /\ task'[s].pc = "on" /\ task'[s].key = k
      /\ \A r \in Task \ {s} : task'[r] = task[r]
  BY <1>1, Moved DEF PoolInv, Place
<1>3. /\ \A d \in deleting : d.holder \in Task
      /\ \A r \in Task : task[r].key \in Key
  BY DEF Counts, C!TypeOK, C!Deletion, PoolInv, TypeOK
<1>4. s \in refs[k] /\ Claims(s, k)
  BY <1>1 DEF PoolInv, HoldersInPlace, Claims
<1>5. k \in Key
  BY <1>3
<1> HIDE DEF k
<1>6. DeletersInPlace'
  BY <1>1, <1>2, <1>3 DEF PoolInv, DeletersInPlace, At
<1>7. HoldersInPlace'
  BY <1>1, <1>2, <1>4 DEF PoolInv, HoldersInPlace
<1>8. \A r \in Task, j \in Key : Claims(r, j)' <=> Claims(r, j) /\ j # k
  <2>1. \A r \in Task : Claims(r, k) => r = s
    BY <1>4, <1>5 DEF PoolInv, OneSubscriber
  <2>2. \A r \in Task \ {s}, j \in Key : Claims(r, j)' <=> Claims(r, j)
    BY <1>2 DEF Claims
  <2>3. \A j \in Key : ~Claims(s, j)' /\ (Claims(s, j) => j = k)
    BY <1>2, <1>4 DEF Claims
  <2> QED BY <2>1, <2>2, <2>3
<1>9. ClaimsInFlight'
  BY <1>1, <1>8 DEF PoolInv, ClaimsInFlight
<1>10. OneSubscriber'
  BY <1>1, <1>8 DEF PoolInv, OneSubscriber
<1>11. NoLeak'
  <2>1. \A r \in Task, j \in Key : Leaving(r, j)' <=> Leaving(r, j)
    BY <1>1, <1>2 DEF Leaving
  <2>2. upstream \cup inFlight \subseteq Key
    BY DEF PoolInv, TypeOK
  <2> QED BY <1>1, <1>4, <2>1, <2>2 DEF PoolInv, NoLeak
<1> QED BY <1>6, <1>7, <1>9, <1>10, <1>11 DEF PoolInv

(***************************************************************************)
(* ensure_unsubscribed forgets a topic, and never one that is in flight.   *)
(***************************************************************************)
LEMMA EnsureUnsubscribedStep ==
  ASSUME PoolInv, Counts, TypeOK', NEW s \in Task, EnsureUnsubscribed(s)
  PROVE  PoolInv'
<1> DEFINE k == task[s].key
<1>1. PICK pc \in {"unmark", "unsubscribing"} : Goto(s, pc)
  BY DEF EnsureUnsubscribed
<1>2. /\ task[s].pc = "drop" /\ k \in upstream /\ upstream' = upstream \ {k}
      /\ UNCHANGED <<inFlight, deleting, refs, lost, faults>>
  BY DEF EnsureUnsubscribed, At, countVars
<1>3. /\ task'[s].pc = pc /\ task'[s].key = k
      /\ \A r \in Task \ {s} : task'[r] = task[r]
  BY <1>1, Moved DEF PoolInv, Place
<1>4. \A d \in deleting : d.holder \in Task
  BY DEF Counts, C!TypeOK, C!Deletion
<1> HIDE DEF k
<1>5. DeletersInPlace' /\ HoldersInPlace'
  BY <1>2, <1>3, <1>4 DEF PoolInv, DeletersInPlace, HoldersInPlace, At
<1>6. \A r \in Task, j \in Key : Claims(r, j)' <=> Claims(r, j)
  BY <1>2, <1>3 DEF Claims
<1>7. ClaimsInFlight' /\ OneSubscriber'
  BY <1>2, <1>6 DEF PoolInv, ClaimsInFlight, OneSubscriber
<1>8. NoLeak'
  <2>1. \A j \in upstream' \cup inFlight' : j \in upstream \cup inFlight /\ j # k
    BY <1>2 DEF PoolInv, OneSubscriber, TypeOK
  <2>2. \A r \in Task, j \in Key : Leaving(r, j) /\ j # k => Leaving(r, j)'
    BY <1>3 DEF Leaving, k
  <2>3. upstream \cup inFlight \subseteq Key
    BY DEF PoolInv, TypeOK
  <2> QED BY <1>2, <2>1, <2>2, <2>3 DEF PoolInv, NoLeak
<1> QED BY <1>5, <1>7, <1>8 DEF PoolInv

(***************************************************************************)
(* A client leaves: its handler is on its way to dropping the topic.       *)
(***************************************************************************)
LEMMA DiscountStep ==
  ASSUME PoolInv, Counts, TypeOK', NEW s \in Task, Discount(s)
  PROVE  PoolInv'
<1>0. PICK k \in Key : k = task[s].key
  BY DEF PoolInv, TypeOK
<1>1. PICK pc \in {"count", "deleting"} :
        /\ Goto(s, pc)
        /\ pc = IF deleting' = {} THEN "count" ELSE "deleting"
  BY DEF Discount
<1>2. /\ task[s].pc = "on" /\ refs' = [refs EXCEPT ![k] = @ \ {s}]
      /\ UNCHANGED <<upstream, inFlight, lost>>
      /\ faults' = faults \/ faults' = faults + 1
      /\ \A d \in deleting' : d.holder = s /\ d.key = k
  BY <1>0 DEF Discount, At, poolVars, S!Decrement, S!DecrementFault, S!Decrementing,
     S!DeleteAt, S!Fault, S!Unlocked
<1>3. /\ task'[s].pc = pc /\ task'[s].key = k
      /\ \A r \in Task \ {s} : task'[r] = task[r]
  BY <1>0, <1>1, Moved DEF PoolInv, Place
<1>4. /\ \A r \in Task : task[r].key \in Key
      /\ refs \in [Key -> SUBSET Task]
  BY DEF Counts, C!TypeOK, PoolInv, TypeOK
<1>5. \A r \in Task \ {s}, j \in Key : r \in refs[j] => r \in refs'[j]
  BY <1>2, <1>4
<1>6. \A j \in Key \ {k} : refs'[j] = refs[j]
  BY <1>2, <1>4
<1>7. DeletersInPlace'
  BY <1>1, <1>2, <1>3 DEF DeletersInPlace, At
<1>8. HoldersInPlace'
  BY <1>3, <1>4, <1>5 DEF PoolInv, HoldersInPlace
<1>9. \A r \in Task, j \in Key : Claims(r, j)' <=> Claims(r, j)
  BY <1>2, <1>3 DEF Claims
<1>10. ClaimsInFlight' /\ OneSubscriber'
  BY <1>2, <1>9 DEF PoolInv, ClaimsInFlight, OneSubscriber
<1>11. NoLeak'
  <2>1. Leaving(s, k)'
    BY <1>3 DEF Leaving
  <2>2. \A r \in Task, j \in Key : Leaving(r, j) => Leaving(r, j)'
    BY <1>2, <1>3 DEF Leaving
  <2>3. upstream \cup inFlight \subseteq Key
    BY DEF PoolInv, TypeOK
  <2>4. CASE faults' = faults
    BY <1>2, <1>6, <2>1, <2>2, <2>3, <2>4 DEF PoolInv, NoLeak
  <2> QED BY <1>2, <2>4, FaultsExcuse
<1> QED BY <1>7, <1>8, <1>10, <1>11 DEF PoolInv

(***************************************************************************)
(* The deletion of a count goes on, and ends.                              *)
(***************************************************************************)
LEMMA DeleteStep ==
  ASSUME PoolInv, Counts, TypeOK', NEW d \in deleting, Delete(d)
  PROVE  PoolInv'
<1>1. /\ UNCHANGED <<upstream, inFlight, task, refs, lost, faults>>
      /\ \A e \in deleting' : e.holder = d.holder /\ e.key = d.key
  BY DEF Delete, poolVars, S!DecrementHdel, S!ghostVars
<1>2. DeletersInPlace'
  BY <1>1 DEF PoolInv, DeletersInPlace, At
<1>3. HoldersInPlace' /\ ClaimsInFlight' /\ OneSubscriber' /\ NoLeak'
  BY <1>1 DEF PoolInv, HoldersInPlace, ClaimsInFlight, OneSubscriber, NoLeak,
     Claims, Leaving
<1> QED BY <1>2, <1>3 DEF PoolInv

(***************************************************************************)
(* The task whose decrement has finished deleting goes on to read the      *)
(* count.                                                                  *)
(***************************************************************************)
LEMMA DeleteEndsStep ==
  ASSUME PoolInv, Counts, TypeOK', NEW d \in deleting, DeleteEnds(d)
  PROVE  PoolInv'
<1> DEFINE s == d.holder
<1>1. s \in Task
  BY DEF Counts, C!TypeOK, C!Deletion
<1>2. /\ Goto(s, "count") /\ deleting' = {}
      /\ UNCHANGED <<upstream, inFlight, refs, lost>>
      /\ faults' = faults \/ faults' = faults + 1
  BY DEF DeleteEnds, poolVars, S!DecrementSrem, S!DeletionFault, S!ghostVars,
     S!Fault
<1>3. task[s].pc = "deleting"
  BY DEF PoolInv, DeletersInPlace, At
<1> HIDE DEF s
<1>4. /\ task'[s].pc = "count" /\ task'[s].key = task[s].key
      /\ \A r \in Task \ {s} : task'[r] = task[r]
  BY <1>1, <1>2, Moved DEF PoolInv, Place
<1>5. DeletersInPlace' /\ HoldersInPlace'
  BY <1>2, <1>4 DEF PoolInv, DeletersInPlace, HoldersInPlace
<1>6. \A r \in Task, j \in Key : Claims(r, j)' <=> Claims(r, j)
  BY <1>3, <1>4 DEF Claims
<1>7. ClaimsInFlight' /\ OneSubscriber'
  BY <1>2, <1>6 DEF PoolInv, ClaimsInFlight, OneSubscriber
<1>8. NoLeak'
  <2>1. \A r \in Task, j \in Key : Leaving(r, j)' <=> Leaving(r, j)
    BY <1>3, <1>4 DEF Leaving
  <2>2. upstream \cup inFlight \subseteq Key
    BY DEF PoolInv, TypeOK
  <2>3. CASE faults' = faults
    BY <1>2, <2>1, <2>2, <2>3 DEF PoolInv, NoLeak
  <2> QED BY <1>2, <2>3, FaultsExcuse
<1> QED BY <1>5, <1>7, <1>8 DEF PoolInv

(***************************************************************************)
(* Nobody holds anything after a restart.                                  *)
(***************************************************************************)
LEMMA RestartStep ==
  ASSUME PoolInv, Counts, TypeOK', Restart
  PROVE  PoolInv'
<1>1. /\ deleting' = {} /\ upstream' = {} /\ inFlight' = {}
      /\ \A r \in Task : task'[r].pc = "idle"
  BY DEF Restart, S!Crash
<1> QED BY <1>1 DEF PoolInv, DeletersInPlace, HoldersInPlace, ClaimsInFlight,
           OneSubscriber, NoLeak, Claims

-----------------------------------------------------------------------------
(***************************************************************************)
(* PoolInv is inductive, given what the counts promise.                    *)
(***************************************************************************)
LEMMA PoolNext == PoolInv /\ Counts /\ [Next]_vars => PoolInv'
<1> SUFFICES ASSUME PoolInv, Counts, [Next]_vars PROVE PoolInv'
  OBVIOUS
<1>1. TypeOK'
  BY TypeStep DEF PoolInv
<1>2. ASSUME NEW s \in Task, NEW k \in Key, Count(s, k) PROVE PoolInv'
  BY <1>1, <1>2, CountStep
<1>3. ASSUME NEW s \in Task, Discount(s) PROVE PoolInv'
  BY <1>1, <1>3, DiscountStep
<1>4. ASSUME NEW s \in Task, Progress(s) PROVE PoolInv'
  <2>1. CASE EnsureSubscribed(s) \/ AddUpstream(s) \/ EnsureUnsubscribed(s)
    BY <1>1, <2>1, EnsureSubscribedStep, AddUpstreamStep, EnsureUnsubscribedStep
  <2>2. CASE \E d \in deleting : d.holder = s /\ (Delete(d) \/ DeleteEnds(d))
    BY <1>1, <2>2, DeleteStep, DeleteEndsStep
  <2>3. CASE EnsureSubscribedKnown(s) \/ EnsureUnsubscribedUnknown(s)
    BY <1>1, <2>3, QuietStep DEF EnsureSubscribedKnown, EnsureUnsubscribedUnknown,
       poolVars, countVars, Place
  <2>4. CASE \E send \in sending : ClientSubscribed(s, send) \/ ClientUnsubscribed(s, send)
    BY <1>1, <2>4, QuietStep DEF ClientSubscribed, ClientUnsubscribed, poolVars,
       countVars, Place
  <2>5. CASE MarkSubscribed(s) \/ MarkUnsubscribed(s)
    BY <1>1, <2>5, QuietStep DEF MarkSubscribed, MarkUnsubscribed, poolVars, Place,
       S!MarkUpstreamSubscribed, S!MarkUpstreamUnsubscribed, S!Fault
  <2>6. CASE ReadCount(s)
    <3>1. PICK n \in {0, count[task[s].key]} :
            S!GetCount(task[s].key, n) /\ Goto(s, IF n > 0 THEN "idle" ELSE "drop")
      BY <2>6 DEF ReadCount
    <3>2. /\ UNCHANGED <<upstream, inFlight, deleting, refs, lost>>
          /\ faults' = faults \/ faults' = faults + 1
          /\ At(s, "count")
      BY <2>6, <3>1 DEF ReadCount, poolVars, S!GetCount, S!Fault, S!redisVars
    <3>3. task[s].key \in Key /\ faults \in Nat
      BY FaultsAssumption DEF PoolInv, TypeOK, Counts, C!TypeOK
    <3>4. CASE n > 0
      <4>1. faults' = 0 => refs[task[s].key] # {} \/ lost[task[s].key] > 0
        BY <3>1, <3>2, <3>3, <3>4 DEF Counts, C!PositiveIsHeld
      <4>2. Goto(s, "idle")
        BY <3>1, <3>4
      <4> QED BY <1>1, <3>2, <4>1, <4>2, QuietStep DEF Place
    <3>5. CASE ~(n > 0)
      <4>1. Goto(s, "drop")
        BY <3>1, <3>5
      <4> QED BY <1>1, <3>2, <4>1, QuietStep DEF Place
    <3> QED BY <3>4, <3>5
  <2> QED BY <1>4, <2>1, <2>2, <2>3, <2>4, <2>5, <2>6 DEF Progress
<1>5. CASE ConnectionStep \/ Startup \/ UNCHANGED vars
  <2>1. /\ UNCHANGED <<upstream, inFlight, task, deleting, refs, lost>>
        /\ faults' = faults \/ faults' = faults + 1
    BY <1>5 DEF ConnectionStep, Startup, vars, poolVars, countVars,
       S!CleanupStale, S!CleaningUp, S!Fault
  <2>2. DeletersInPlace' /\ HoldersInPlace' /\ ClaimsInFlight' /\ OneSubscriber'
    BY <2>1 DEF PoolInv, DeletersInPlace, HoldersInPlace, ClaimsInFlight,
       OneSubscriber, Claims, At
  <2>3. CASE faults' = faults
    BY <1>1, <2>1, <2>2, <2>3 DEF PoolInv, NoLeak, Leaving
  <2>4. CASE faults' = faults + 1
    BY <1>1, <2>2, <2>4, FaultsExcuse DEF PoolInv
  <2> QED BY <2>1, <2>3, <2>4
<1>6. CASE Restart
  BY <1>1, <1>6, RestartStep
<1> QED BY <1>2, <1>3, <1>4, <1>5, <1>6 DEF Next

(***************************************************************************)
(* Every handler of the pool is where the counts, the topics in flight and *)
(* the topics subscribed say it is.                                        *)
(***************************************************************************)
THEOREM PoolInvariant == Spec => []PoolInv
<1>1. Init => PoolInv
  <2>1. Init => TypeOK
    BY DEF Init, TypeOK, Place
  <2> QED BY <2>1 DEF Init, S!Init, PoolInv, DeletersInPlace, HoldersInPlace,
             ClaimsInFlight, OneSubscriber, NoLeak, Claims
<1>2. Spec => []Counts
  BY CountFacts, PTL DEF Counts
<1>3. PoolInv /\ Counts /\ [Next]_vars => PoolInv'
  BY PoolNext
<1> QED BY <1>1, <1>2, <1>3, PTL DEF Spec

(***************************************************************************)
(* Two handlers of pool.py never subscribe the same topic at once.         *)
(***************************************************************************)
THEOREM ClaimsAreExclusive == Spec => []OneSubscriber
<1>1. PoolInv => OneSubscriber
  BY DEF PoolInv
<1> QED BY <1>1, PoolInvariant, PTL

(***************************************************************************)
(* Without a fault the pool holds no topic that nobody uses and nobody is  *)
(* about to drop.                                                          *)
(***************************************************************************)
THEOREM UpstreamNeverLeaks == Spec => []NoLeak
<1>1. PoolInv => NoLeak
  BY DEF PoolInv
<1> QED BY <1>1, PoolInvariant, PTL

-----------------------------------------------------------------------------
(***************************************************************************)
(* Until a send suspends, a topic the pool holds is subscribed, or waits   *)
(* for a batch of the resubscription, and there is no other time at which  *)
(* a topic waits.                                                          *)
(***************************************************************************)
InHand ==
  /\ suspensions \in Nat
  /\ suspensions = 0 =>
       /\ sending = {}
       /\ loop # "resubscribing" => rest = {}
       /\ upstream \cup inFlight \subseteq subscribed \cup rest

(***************************************************************************)
(* A batch of the resubscription leaves no topic behind: what it does not  *)
(* send waits for the next one.                                            *)
(***************************************************************************)
LEMMA ResendInHand ==
  ASSUME InHand, NEW ts, NEW subs, NEW pend, NEW up,
         B!Resend(ts, subs, pend, up),
         subscribed \cup rest \subseteq subs \cup ts,
         UNCHANGED poolVars
  PROVE  InHand'
<1>1. /\ suspensions' \in Nat
      /\ suspensions' = 0 => suspensions = 0
  BY DEF InHand, B!Resend, B!Suspend, B!sendVars
<1>2. ASSUME suspensions' = 0
      PROVE  /\ sending' = {}
             /\ loop' # "resubscribing" => rest' = {}
             /\ subs \cup ts \subseteq subscribed' \cup rest'
  <2>1. suspensions' # suspensions + 1
    BY <1>1, <1>2
  <2>2. PICK batch \in B!Batches(ts) :
          /\ rest' = ts \ batch
          /\ subscribed' = subs \cup batch
          /\ loop' = IF rest' = {} THEN "listening" ELSE "resubscribing"
          /\ UNCHANGED B!sendVars
    BY <2>1 DEF B!Resend, B!Suspend
  <2> QED BY <1>1, <1>2, <2>2 DEF InHand, B!sendVars
<1> QED BY <1>1, <1>2 DEF InHand, poolVars

(***************************************************************************)
(* What the connect loop does to the topics in hand, and a call that is    *)
(* suspended nothing, since there is none.                                 *)
(***************************************************************************)
LEMMA ConnectionInHand ==
  ASSUME InHand, ConnectionStep
  PROVE  InHand'
<1>1. UNCHANGED poolVars
  BY DEF ConnectionStep
<1>2. CASE B!ConnectSucceeds
  <2>1. CASE UNCHANGED <<B!topicVars, rest, B!sendVars>> /\ loop' = "listening"
             /\ loop = "connecting"
    BY <1>1, <2>1 DEF InHand, B!topicVars, B!sendVars, poolVars
  <2>2. CASE B!Resend(subscribed \cup pending, {}, {}, TRUE) /\ loop = "connecting"
    <3>1. CASE suspensions = 0
      BY <1>1, <2>2, <3>1, ResendInHand DEF InHand
    <3>2. CASE suspensions # 0
      BY <2>2, <3>2 DEF InHand, B!Resend, B!Suspend, B!sendVars
    <3> QED BY <3>1, <3>2
  <2> QED BY <1>2, <2>1, <2>2 DEF B!ConnectSucceeds
<1>3. CASE B!ResubscribeNext
  BY <1>1, <1>3, ResendInHand DEF B!ResubscribeNext
<1>4. CASE B!ConnectFails \/ B!Drop \/ B!ListenerEnds \/ B!Wake
  BY <1>1, <1>4 DEF InHand, B!ConnectFails, B!Drop, B!ListenerEnds, B!Wake,
     B!topicVars, B!loopVars, B!sendVars, poolVars
<1>5. CASE \E send \in sending, raised \in BOOLEAN : B!SendEnds(send, raised)
  BY <1>5 DEF InHand, B!SendEnds
<1> QED BY <1>2, <1>3, <1>4, <1>5 DEF ConnectionStep, B!Connection

(***************************************************************************)
(* Every step of the pool keeps its topics in the Bybit client's hands.    *)
(***************************************************************************)
LEMMA InHandNext == InHand /\ PoolInv /\ [Next]_vars => InHand'
<1> SUFFICES ASSUME InHand, PoolInv, [Next]_vars PROVE InHand'
  OBVIOUS
<1>1. ASSUME UNCHANGED <<poolVars, clientVars>> PROVE InHand'
  BY <1>1 DEF InHand, poolVars, clientVars
<1>2. ASSUME NEW s \in Task, EnsureSubscribed(s) PROVE InHand'
  <2>1. CASE B!SubscribeReturns(task[s].key)
    BY <1>2, <2>1 DEF EnsureSubscribed, Claim, InHand, B!SubscribeReturns,
       B!loopVars, B!sendVars
  <2>2. CASE B!SubscribeSuspends(task[s].key, s)
    BY <2>2 DEF InHand, B!SubscribeSuspends, B!Suspend
  <2> QED BY <1>2, <2>1, <2>2 DEF EnsureSubscribed, Claim
<1>3. ASSUME NEW s \in Task, EnsureUnsubscribed(s) PROVE InHand'
  <2>1. CASE B!UnsubscribeReturns(task[s].key)
    <3>1. task[s].key \in Key /\ task[s].key \notin inFlight
      BY <1>3 DEF EnsureUnsubscribed, PoolInv, TypeOK, OneSubscriber
    <3> QED BY <1>3, <2>1, <3>1 DEF EnsureUnsubscribed, InHand,
               B!UnsubscribeReturns, B!loopVars, B!sendVars
  <2>2. CASE B!UnsubscribeSuspends(task[s].key, s)
    BY <2>2 DEF InHand, B!UnsubscribeSuspends, B!Suspend
  <2> QED BY <1>3, <2>1, <2>2 DEF EnsureUnsubscribed
<1>4. ASSUME NEW s \in Task, AddUpstream(s) PROVE InHand'
  <2>1. task[s].key \in inFlight
    BY <1>4 DEF AddUpstream, At, PoolInv, ClaimsInFlight, Claims, TypeOK
  <2> QED BY <1>4, <2>1 DEF AddUpstream, InHand, clientVars
<1>5. ASSUME NEW s \in Task, NEW send \in sending,
             ClientSubscribed(s, send) \/ ClientUnsubscribed(s, send)
      PROVE  InHand'
  BY <1>5 DEF ClientSubscribed, ClientUnsubscribed, InHand, B!SendEnds
<1>6. ASSUME NEW s \in Task, Progress(s) PROVE InHand'
  BY <1>1, <1>2, <1>3, <1>4, <1>5, <1>6 DEF Progress, EnsureSubscribedKnown,
     MarkSubscribed, Delete, DeleteEnds, ReadCount, EnsureUnsubscribedUnknown,
     MarkUnsubscribed
<1>7. ASSUME NEW s \in Task, Discount(s) \/ \E k \in Key : Count(s, k)
      PROVE  InHand'
  BY <1>1, <1>7 DEF Discount, Count
<1>8. CASE Startup \/ UNCHANGED vars
  BY <1>1, <1>8 DEF Startup, vars
<1>9. CASE Restart
  BY <1>9 DEF Restart, InHand
<1> QED BY <1>6, <1>7, <1>8, <1>9, ConnectionInHand DEF Next

-----------------------------------------------------------------------------
(***************************************************************************)
(* The pool uses the Bybit client as BybitClient allows, but for the death *)
(* of the process, after which the client starts anew.                     *)
(***************************************************************************)

(***************************************************************************)
(* A handler that is suspended in a send is in the client's subscribe or   *)
(* unsubscribe, and in one send only.                                      *)
(***************************************************************************)
SendsInPlace ==
  /\ \A send \in sending :
       \/ send.caller = ConnectLoop
       \/ /\ send.caller \in Task
          /\ task[send.caller].pc \in {"subscribing", "unsubscribing"}
  /\ \A a, b \in sending : a.caller \in Task /\ a.caller = b.caller => a = b

(***************************************************************************)
(* Other handlers' sends stay in place when a handler goes elsewhere.      *)
(***************************************************************************)
LEMMA SendsStay ==
  ASSUME TypeOK, SendsInPlace, NEW s \in Task, NEW pc \in Place, Goto(s, pc),
         sending' \subseteq {send \in sending : send.caller # s}
  PROVE  SendsInPlace'
BY DEF SendsInPlace, TypeOK, Goto

(***************************************************************************)
(* The client's operations are the same in the pool's instance of          *)
(* BybitClient and in that of its theorems.                                *)
(***************************************************************************)
LEMMA SameCalls ==
  ASSUME NEW t, NEW c
  PROVE  /\ B!SubscribeReturns(t) => D!SubscribeReturns(t)
         /\ B!UnsubscribeReturns(t) => D!UnsubscribeReturns(t)
         /\ B!SubscribeSuspends(t, c) => D!SubscribeSuspends(t, c)
         /\ B!UnsubscribeSuspends(t, c) => D!UnsubscribeSuspends(t, c)
<1>1. B!SubscribeReturns(t) => D!SubscribeReturns(t)
  BY DEF B!SubscribeReturns, D!SubscribeReturns, B!CanSend, D!CanSend, B!loopVars,
     D!loopVars, B!sendVars, D!sendVars
<1>2. B!UnsubscribeReturns(t) => D!UnsubscribeReturns(t)
  BY DEF B!UnsubscribeReturns, D!UnsubscribeReturns, B!CanSend, D!CanSend,
     B!loopVars, D!loopVars, B!sendVars, D!sendVars
<1>3. B!SubscribeSuspends(t, c) => D!SubscribeSuspends(t, c)
  BY DEF B!SubscribeSuspends, D!SubscribeSuspends, B!CanSend, D!CanSend,
     B!loopVars, D!loopVars, B!Suspend, D!Suspend
<1>4. B!UnsubscribeSuspends(t, c) => D!UnsubscribeSuspends(t, c)
  BY DEF B!UnsubscribeSuspends, D!UnsubscribeSuspends, B!CanSend, D!CanSend,
     B!loopVars, D!loopVars, B!Suspend, D!Suspend
<1> QED BY <1>1, <1>2, <1>3, <1>4

(***************************************************************************)
(* So are the end of a suspended send and the steps of the connect loop.   *)
(***************************************************************************)
LEMMA SameConnection ==
  /\ B!Connection => D!Connection
  /\ \A send, raised : B!SendEnds(send, raised) => D!SendEnds(send, raised)
<1>1. \A ts : B!Cardinality(ts) = D!Cardinality(ts)
  BY DEF B!Cardinality, D!Cardinality
<1>2. \A ts : B!Batches(ts) = D!Batches(ts)
  BY <1>1 DEF B!Batches, D!Batches
<1>3. ASSUME NEW ts, NEW subs, NEW pend, NEW up, B!Resend(ts, subs, pend, up)
      PROVE  D!Resend(ts, subs, pend, up)
  BY <1>2, <1>3 DEF B!Resend, D!Resend, B!Suspend, D!Suspend, B!sendVars, D!sendVars
<1>4. B!ConnectSucceeds => D!ConnectSucceeds
  BY <1>3 DEF B!ConnectSucceeds, D!ConnectSucceeds, B!topicVars, D!topicVars,
     B!sendVars, D!sendVars
<1>5. B!ResubscribeNext => D!ResubscribeNext
  BY <1>3 DEF B!ResubscribeNext, D!ResubscribeNext, B!Suspended, D!Suspended
<1>6. B!ConnectFails \/ B!Drop \/ B!ListenerEnds \/ B!Wake
        => D!ConnectFails \/ D!Drop \/ D!ListenerEnds \/ D!Wake
  BY DEF B!ConnectFails, D!ConnectFails, B!Drop, D!Drop, B!ListenerEnds,
     D!ListenerEnds, B!Wake, D!Wake, B!Failure, D!Failure, B!topicVars, D!topicVars,
     B!sendVars, D!sendVars, B!loopVars, D!loopVars
<1>7. \A send, raised : B!SendEnds(send, raised) => D!SendEnds(send, raised)
  BY DEF B!SendEnds, D!SendEnds
<1> QED BY <1>4, <1>5, <1>6, <1>7 DEF B!Connection, D!Connection

(***************************************************************************)
(* A handler that is neither subscribing nor unsubscribing has no send     *)
(* under way, so it may make one.                                          *)
(***************************************************************************)
LEMMA CallIsAllowed ==
  ASSUME TypeOK, SendsInPlace, ConnectLoop \notin Task, NEW s \in Task,
         task[s].pc \notin {"subscribing", "unsubscribing"},
         \/ B!SubscribeReturns(task[s].key) \/ B!SubscribeSuspends(task[s].key, s)
         \/ B!UnsubscribeReturns(task[s].key) \/ B!UnsubscribeSuspends(task[s].key, s)
  PROVE  D!Next
<1>1. task[s].key \in Key
  BY DEF TypeOK
<1>2. ~D!Suspended(s)
  BY DEF SendsInPlace, D!Suspended
<1>3. D!Calls
  BY <1>1, <1>2, SameCalls DEF D!Calls
<1> QED BY <1>3 DEF D!Next

(***************************************************************************)
(* Every step of the pool is a step of the client, leaves it alone, or is  *)
(* the death of the process.                                               *)
(***************************************************************************)
LEMMA ClientNext ==
  ASSUME TypeOK, SendsInPlace, [Next]_vars
  PROVE  [D!Next \/ Restart]_(D!vars)
<1>0. ConnectLoop \notin Task
  BY ConnectLoopAssumption
<1>1. ASSUME UNCHANGED clientVars PROVE UNCHANGED D!vars
  BY <1>1 DEF clientVars, D!vars, D!topicVars, D!loopVars, D!sendVars
<1>2. ASSUME NEW s \in Task, EnsureSubscribed(s) \/ EnsureUnsubscribed(s)
      PROVE  D!Next
  <2>1. task[s].pc \notin {"subscribing", "unsubscribing"}
    BY <1>2 DEF EnsureSubscribed, EnsureUnsubscribed, Claim, At
  <2> QED BY <1>0, <1>2, <2>1, CallIsAllowed DEF EnsureSubscribed, EnsureUnsubscribed, Claim
<1>3. ASSUME NEW send \in sending, NEW raised \in BOOLEAN, B!SendEnds(send, raised)
      PROVE  D!Next
  <2>1. D!Resumptions
    BY <1>3, SameConnection DEF D!Resumptions
  <2> QED BY <2>1 DEF D!Next
<1>4. ASSUME NEW s \in Task, NEW send \in sending,
             ClientSubscribed(s, send) \/ ClientUnsubscribed(s, send)
      PROVE  D!Next
  BY <1>3, <1>4 DEF ClientSubscribed, ClientUnsubscribed
<1>5. ASSUME NEW s \in Task, Progress(s)
      PROVE  [D!Next]_(D!vars)
  BY <1>1, <1>2, <1>4, <1>5 DEF Progress, EnsureSubscribedKnown, MarkSubscribed,
     AddUpstream, Delete, DeleteEnds, ReadCount, EnsureUnsubscribedUnknown,
     MarkUnsubscribed
<1>6. CASE ConnectionStep
  BY <1>3, <1>6, SameConnection DEF ConnectionStep, D!Next
<1>7. CASE \/ \E s \in Task, k \in Key : Count(s, k)
           \/ \E s \in Task : Discount(s)
           \/ Startup \/ UNCHANGED vars
  BY <1>1, <1>7 DEF Count, Discount, Startup, vars
<1> QED BY <1>5, <1>6, <1>7 DEF Next

(***************************************************************************)
(* Every step keeps the sends in place.                                    *)
(***************************************************************************)
LEMMA SendsNext ==
  ASSUME PoolInv, SendsInPlace, [Next]_vars
  PROVE  SendsInPlace'
<1> USE DEF PoolInv
<1>0. ConnectLoop \notin Task
  BY ConnectLoopAssumption
<1>1. ASSUME NEW s \in Task, NEW pc \in Place, Goto(s, pc), sending' = sending,
             task[s].pc \notin {"subscribing", "unsubscribing"}
      PROVE  SendsInPlace'
  <2>1. sending' \subseteq {send \in sending : send.caller # s}
    BY <1>0, <1>1 DEF SendsInPlace
  <2> QED BY <1>1, <2>1, SendsStay
<1>2. ASSUME NEW s \in Task, NEW k \in Key, Count(s, k)
      PROVE  SendsInPlace'
  BY <1>2 DEF Count, SendsInPlace, TypeOK, clientVars, At
<1>3. ASSUME NEW s \in Task, Discount(s)
      PROVE  SendsInPlace'
  BY <1>1, <1>3 DEF Discount, At, Place, clientVars
<1>4. ASSUME NEW s \in Task, EnsureSubscribed(s) \/ EnsureUnsubscribed(s)
      PROVE  SendsInPlace'
  <2>1. task[s].pc \in {"ensure", "drop"}
    BY <1>4 DEF EnsureSubscribed, EnsureUnsubscribed, Claim, At
  <2>2. CASE sending' = sending
    <3>1. \E pc \in Place : Goto(s, pc)
      BY <1>4 DEF EnsureSubscribed, EnsureUnsubscribed, Claim, Place
    <3> QED BY <1>1, <2>1, <2>2, <3>1
  <2>3. CASE sending' # sending
    <3>1. /\ \E pc \in {"subscribing", "unsubscribing"} : Goto(s, pc)
          /\ \E op, ts : B!Suspend(op, ts, s)
      BY <1>4, <2>3 DEF EnsureSubscribed, EnsureUnsubscribed, Claim,
         B!SubscribeReturns, B!UnsubscribeReturns, B!SubscribeSuspends,
         B!UnsubscribeSuspends, B!sendVars
    <3>2. PICK op, ts : B!Suspend(op, ts, s)
      BY <3>1
    <3> DEFINE new == [op |-> op, topics |-> ts, caller |-> s]
    <3>3. sending' = sending \cup {new} /\ new.caller = s
      BY <3>2 DEF B!Suspend
    <3>4. \A send \in sending : send.caller # s
      BY <1>0, <2>1 DEF SendsInPlace
    <3>5. /\ task'[s].pc \in {"subscribing", "unsubscribing"}
          /\ \A r \in Task \ {s} : task'[r] = task[r]
      BY <3>1 DEF TypeOK, Goto
    <3> HIDE DEF new
    <3> QED BY <3>3, <3>4, <3>5 DEF SendsInPlace
  <2> QED BY <2>2, <2>3
<1>5. ASSUME NEW s \in Task, NEW send \in sending,
             ClientSubscribed(s, send) \/ ClientUnsubscribed(s, send)
      PROVE  SendsInPlace'
  <2>1. /\ send.caller = s /\ sending' = sending \ {send}
        /\ \E pc \in Place : Goto(s, pc)
    BY <1>5 DEF ClientSubscribed, ClientUnsubscribed, B!SendEnds, Place
  <2>2. sending' \subseteq {x \in sending : x.caller # s}
    BY <2>1 DEF SendsInPlace
  <2> QED BY <2>1, <2>2, SendsStay
<1>6. ASSUME NEW s \in Task, EnsureSubscribedKnown(s) \/ MarkSubscribed(s)
                                \/ AddUpstream(s) \/ ReadCount(s)
                                \/ EnsureUnsubscribedUnknown(s) \/ MarkUnsubscribed(s)
      PROVE  SendsInPlace'
  <2>1. /\ sending' = sending /\ task[s].pc \notin {"subscribing", "unsubscribing"}
        /\ \E pc \in Place : Goto(s, pc)
    BY <1>6 DEF EnsureSubscribedKnown, MarkSubscribed, AddUpstream, ReadCount,
       EnsureUnsubscribedUnknown, MarkUnsubscribed, At, Place, clientVars
  <2> QED BY <1>1, <2>1
<1>7. ASSUME NEW d \in deleting, DeletersInPlace, d.holder \in Task, Delete(d) \/ DeleteEnds(d)
      PROVE  SendsInPlace'
  <2>1. At(d.holder, "deleting")
    BY <1>7 DEF DeletersInPlace
  <2>2. CASE Delete(d)
    BY <2>2 DEF Delete, clientVars, SendsInPlace
  <2>3. CASE DeleteEnds(d)
    BY <1>1, <1>7, <2>1, <2>3 DEF DeleteEnds, clientVars, At, Place
  <2> QED BY <1>7, <2>2, <2>3
<1>8. ASSUME NEW s \in Task, Progress(s)
      PROVE  SendsInPlace'
  BY <1>4, <1>5, <1>6, <1>7, <1>8 DEF Progress, PoolInv
<1>9. CASE ConnectionStep
  <2>1. UNCHANGED task
    BY <1>9 DEF ConnectionStep
  <2>2. \A send \in sending' : send \in sending \/ send.caller = ConnectLoop
    BY <1>9 DEF ConnectionStep, B!Connection, B!ConnectSucceeds, B!ConnectFails,
       B!ResubscribeNext, B!Drop, B!ListenerEnds, B!Wake, B!Resend, B!Suspend,
       B!SendEnds, B!sendVars
  <2> QED BY <1>0, <2>1, <2>2 DEF SendsInPlace
<1>10. CASE Restart
  BY <1>10 DEF Restart, SendsInPlace
<1>11. CASE Startup \/ UNCHANGED vars
  BY <1>11 DEF Startup, vars, clientVars, SendsInPlace
<1> QED BY <1>2, <1>3, <1>8, <1>9, <1>10, <1>11 DEF Next

(***************************************************************************)
(* The pool's system uses the client through its operations only: whatever *)
(* is known of the client's steps holds between two deaths of the process. *)
(***************************************************************************)
THEOREM ClientIsUsedAsSpecified ==
  Spec => D!Init /\ [][D!Next \/ Restart]_(D!vars)
<1>1. Init => D!Init /\ SendsInPlace
  BY DEF Init, B!Init, D!Init, SendsInPlace
<1>2. PoolInv /\ SendsInPlace /\ [Next]_vars
        => SendsInPlace' /\ [D!Next \/ Restart]_(D!vars)
  BY SendsNext, ClientNext DEF PoolInv
<1> QED BY <1>1, <1>2, PoolInvariant, PTL DEF Spec

(***************************************************************************)
(* So the client's inductive invariant holds in the composed system; a     *)
(* client that starts anew satisfies it.                                   *)
(***************************************************************************)
LEMMA ClientHolds == Spec => []D!ClientInv
<1>0. /\ D!IsFiniteSet(Key) /\ BATCH \in Nat \ {0} /\ ConnectLoop \notin Task
      /\ MaxFailures \in Nat /\ MaxSuspensions \in Nat
  BY KeyAssumption, BatchAssumption, ConnectLoopAssumption, BoundsAssumption
     DEF IsFiniteSet, D!IsFiniteSet
<1>1. D!Init => D!ClientInv
  BY <1>0, D!InitClient
<1>2. D!ClientInv /\ [D!Next]_(D!vars) => D!ClientInv'
  BY <1>0, D!NextClient
<1>3. ASSUME D!ClientInv, Restart
      PROVE  D!ClientInv'
  <2>1. D!TypeOK'
    BY <1>3 DEF Restart, D!ClientInv, D!TypeOK
  <2>2. D!ConnectionKnown' /\ D!SendsKnown' /\ D!TrackedIsLive'
    BY <1>3 DEF Restart, D!ConnectionKnown, D!SendsKnown, D!TrackedIsLive, D!CanSend
  <2> QED BY <2>1, <2>2 DEF D!ClientInv
<1>4. D!ClientInv /\ [D!Next \/ Restart]_(D!vars) => D!ClientInv'
  BY <1>2, <1>3
<1> QED BY <1>1, <1>4, ClientIsUsedAsSpecified, PTL

(***************************************************************************)
(* As long as no send suspends, Bybit streams every topic the pool holds,  *)
(* or the topic waits for a batch of the resubscription, or for a          *)
(* connection that will restore it.                                        *)
(***************************************************************************)
THEOREM PoolTopicsAreStreamed == Spec => []UpstreamIsStreamed
<1>1. Init => InHand
  BY DEF Init, B!Init, InHand
<1>2. InHand /\ PoolInv /\ [Next]_vars => InHand'
  BY InHandNext
<1>3. InHand /\ D!ClientInv => UpstreamIsStreamed
  BY DEF InHand, UpstreamIsStreamed, B!Tracked, B!CanSend, D!ClientInv,
     D!TrackedIsLive, D!CanSend
<1> QED BY <1>1, <1>2, <1>3, PoolInvariant, ClientHolds, PTL DEF Spec

=============================================================================
