------------------------- MODULE SubscriptionManager -------------------------
(***************************************************************************)
(* The reference counts kept in Redis, app/redis/subscriptions.py.         *)
(*                                                                         *)
(* A Redis command executes atomically at the server, and every await of   *)
(* one suspends the coroutine: one action is one command.  decrement holds *)
(* self._lock over its three commands, increment takes no lock.            *)
(*                                                                         *)
(* A holder is a client's use of one stream: it increments when it         *)
(* subscribes and decrements when it unsubscribes or disconnects.          *)
(***************************************************************************)
EXTENDS Integers, FiniteSets

CONSTANTS
  Holder,    \* a client's use of a stream
  Key,       \* "stream_type:symbol"
  MaxFaults  \* bound on Redis faults and crashes together

ASSUME HolderAssumption == IsFiniteSet(Holder)
ASSUME FaultsAssumption == MaxFaults \in Nat

VARIABLES
  fields,     \* the fields present in the hash HASH_KEY
  count,      \* their values; an absent field counts 0
  marked,     \* the set UPSTREAM_KEY
  deleting,   \* the decrement that holds self._lock, if any
  process,    \* "startup" until cleanup_stale has run, then "serving"
  refs,       \* refs[k]: holders whose increment ran and decrement did not
  overlapped, \* keys an increment hit while a decrement was deleting them
  lost,       \* lost[k]: holders of k that died with their process
  faults,     \* Redis faults so far
  crashes     \* crashes so far

redisVars == <<fields, count, marked>>
ghostVars == <<refs, overlapped, lost, faults, crashes>>
vars == <<redisVars, deleting, process, ghostVars>>

Deletion == [holder : Holder, key : Key, stage : {"hdel", "srem"}]

TypeOK ==
  /\ fields \subseteq Key
  /\ count \in [Key -> Int]
  /\ marked \subseteq Key
  /\ deleting \subseteq Deletion
  /\ process \in {"startup", "serving"}
  /\ refs \in [Key -> SUBSET Holder]
  /\ overlapped \subseteq Key
  /\ lost \in [Key -> Nat]
  /\ faults \in Nat /\ crashes \in Nat
  /\ faults + crashes <= MaxFaults

Init ==
  /\ fields = {}
  /\ count = [k \in Key |-> 0]
  /\ marked = {}
  /\ deleting = {}
  /\ process = "startup"
  /\ refs = [k \in Key |-> {}]
  /\ overlapped = {}
  /\ lost = [k \in Key |-> 0]
  /\ faults = 0 /\ crashes = 0

Serving == process = "serving"
Unlocked == deleting = {}
Fault == faults + crashes < MaxFaults /\ faults' = faults + 1

-----------------------------------------------------------------------------
(***************************************************************************)
(* The two commands that change the hash                                   *)
(***************************************************************************)
Hincrby(k, n) ==
  /\ fields' = IF n = 0 THEN fields ELSE fields \cup {k}
  /\ count' = [count EXCEPT ![k] = @ + n]

Hdel(ks) ==
  /\ fields' = fields \ ks
  /\ count' = [k \in Key |-> IF k \in ks THEN 0 ELSE count[k]]

-----------------------------------------------------------------------------
(***************************************************************************)
(* increment                                                               *)
(***************************************************************************)
Incrementing(h, k, n) ==
  /\ Serving
  /\ h \notin refs[k]
  /\ \A d \in deleting : d.holder # h
  /\ Hincrby(k, n)
  /\ refs' = [refs EXCEPT ![k] = @ \cup {h}]
  /\ overlapped' = IF \E d \in deleting : d.key = k /\ d.stage = "hdel"
                   THEN overlapped \cup {k} ELSE overlapped
  /\ UNCHANGED <<marked, deleting, process, lost, crashes>>

(***************************************************************************)
(* Mutant: the client is counted twice.                                    *)
(***************************************************************************)
IncrementTwice(h, k) == Incrementing(h, k, 2) /\ UNCHANGED faults

Increment(h, k) == Incrementing(h, k, 1) /\ UNCHANGED faults

(***************************************************************************)
(* The command raised without effect (increment then returns 1 and its     *)
(* caller goes on), or timed out after its effect and was sent again:      *)
(* client.py sets retry_on_timeout.                                        *)
(***************************************************************************)
IncrementFault(h, k) == Fault /\ \E n \in {0, 2} : Incrementing(h, k, n)

-----------------------------------------------------------------------------
(***************************************************************************)
(* decrement: HINCRBY, and HDEL and SREM when it brings the count to zero  *)
(***************************************************************************)
Decrementing(h, k, n) ==
  /\ Serving
  /\ h \in refs[k]
  /\ Unlocked
  /\ Hincrby(k, -n)
  /\ refs' = [refs EXCEPT ![k] = @ \ {h}]
  /\ UNCHANGED <<marked, process, overlapped, lost, crashes>>

(***************************************************************************)
(* The next command of a decrement whose HINCRBY has run: the HDEL when    *)
(* the count is down to limit, none otherwise.                             *)
(***************************************************************************)
DeleteAt(limit, h, k) ==
  deleting' = IF count'[k] <= limit
              THEN {[holder |-> h, key |-> k, stage |-> "hdel"]} ELSE {}

(***************************************************************************)
(* Mutant: the key is deleted one holder too early.                        *)
(***************************************************************************)
DecrementEarly(h, k) ==
  /\ Decrementing(h, k, 1)
  /\ DeleteAt(1, h, k)
  /\ UNCHANGED faults

Decrement(h, k) ==
  /\ Decrementing(h, k, 1)
  /\ DeleteAt(0, h, k)
  /\ UNCHANGED faults

(***************************************************************************)
(* The HINCRBY raised, with or without effect, and decrement returned 0;   *)
(* or it was applied twice by the retry.                                   *)
(***************************************************************************)
DecrementFault(h, k) ==
  /\ Fault
  /\ \/ \E n \in {0, 1} : Decrementing(h, k, n) /\ UNCHANGED deleting
     \/ Decrementing(h, k, 2) /\ DeleteAt(0, h, k)

DecrementHdel(d) ==
  /\ d.stage = "hdel"
  /\ Hdel({d.key})
  /\ deleting' = {[holder |-> d.holder, key |-> d.key, stage |-> "srem"]}
  /\ UNCHANGED <<marked, process, ghostVars>>

DecrementSrem(d) ==
  /\ d.stage = "srem"
  /\ marked' = marked \ {d.key}
  /\ deleting' = {}
  /\ UNCHANGED <<fields, count, process, ghostVars>>

(***************************************************************************)
(* HDEL or SREM raised, with or without effect: the lock is released and   *)
(* decrement returns 0.                                                    *)
(***************************************************************************)
DeletionFault(d) ==
  /\ Fault
  /\ deleting' = {}
  /\ \/ UNCHANGED redisVars
     \/ d.stage = "hdel" /\ Hdel({d.key}) /\ UNCHANGED marked
     \/ d.stage = "srem" /\ marked' = marked \ {d.key} /\ UNCHANGED <<fields, count>>
  /\ UNCHANGED <<process, refs, overlapped, lost, crashes>>

-----------------------------------------------------------------------------
(***************************************************************************)
(* The other operations                                                    *)
(***************************************************************************)

(***************************************************************************)
(* get_count: HGET, or 0 when the command raises.                          *)
(***************************************************************************)
GetCount(k, n) ==
  /\ Serving
  /\ \/ n = count[k] /\ UNCHANGED faults
     \/ n = 0 /\ Fault
  /\ UNCHANGED <<redisVars, deleting, process, refs, overlapped, lost, crashes>>

MarkUpstreamSubscribed(k) ==
  /\ Serving
  /\ \/ marked' = marked \cup {k} /\ UNCHANGED faults
     \/ UNCHANGED marked /\ Fault
  /\ UNCHANGED <<fields, count, deleting, process, refs, overlapped, lost, crashes>>

MarkUpstreamUnsubscribed(k) ==
  /\ Serving
  /\ \/ marked' = marked \ {k} /\ UNCHANGED faults
     \/ UNCHANGED marked /\ Fault
  /\ UNCHANGED <<fields, count, deleting, process, refs, overlapped, lost, crashes>>

(***************************************************************************)
(* cleanup_stale runs once, at startup and before the first client: HGETALL *)
(* and HDEL are one step.  Raising is swallowed.                           *)
(***************************************************************************)
CleaningUp(stale) ==
  /\ process = "startup"
  /\ process' = "serving"
  /\ \/ Hdel(stale) /\ UNCHANGED faults
     \/ UNCHANGED <<fields, count>> /\ Fault
  /\ UNCHANGED <<marked, deleting, refs, overlapped, lost, crashes>>

(***************************************************************************)
(* Mutant: a count of zero is not taken for stale.                         *)
(***************************************************************************)
CleanupNegative == CleaningUp({k \in fields : count[k] < 0})

CleanupStale == CleaningUp({k \in fields : count[k] <= 0})

(***************************************************************************)
(* The process dies and is started again; Redis keeps what it has, and the *)
(* counts of the clients that were connected with it.                      *)
(***************************************************************************)
Crash ==
  /\ Serving
  /\ faults + crashes < MaxFaults
  /\ crashes' = crashes + 1
  /\ process' = "startup"
  /\ deleting' = {}
  /\ refs' = [k \in Key |-> {}]
  /\ lost' = [k \in Key |-> lost[k] + Cardinality(refs[k])]
  /\ UNCHANGED <<redisVars, overlapped, faults>>

Next ==
  \/ \E h \in Holder, k \in Key :
       \/ Increment(h, k) \/ IncrementFault(h, k)
       \/ Decrement(h, k) \/ DecrementFault(h, k)
  \/ \E d \in deleting : DecrementHdel(d) \/ DecrementSrem(d) \/ DeletionFault(d)
  \/ \E k \in Key :
       \/ \E n \in {0, count[k]} : GetCount(k, n)
       \/ MarkUpstreamSubscribed(k) \/ MarkUpstreamUnsubscribed(k)
  \/ CleanupStale
  \/ Crash

Spec == Init /\ [][Next]_vars

-----------------------------------------------------------------------------
(***************************************************************************)
(* Properties                                                              *)
(***************************************************************************)
BeingDeleted(k) == \E d \in deleting : d.key = k /\ d.stage = "hdel"

(***************************************************************************)
(* Who the count of a key stands for: its holders, and those that died     *)
(* without a decrement.                                                    *)
(***************************************************************************)
Counted(k) == Cardinality(refs[k]) + lost[k]

(***************************************************************************)
(* While no command failed, the count of a key never exceeds its holders,  *)
(* present and dead, whatever increments, decrements and crashes overlap:  *)
(* only a crash makes a count keep a topic subscribed that nobody holds.   *)
(***************************************************************************)
NeverOvercounts ==
  faults = 0 => \A k \in Key : count[k] <= Counted(k)

(***************************************************************************)
(* The only way to lose a count is an increment between the HINCRBY of a   *)
(* decrement that reached zero and its HDEL.  In particular the holders    *)
(* that died with a process stay counted for good, for a key at a positive *)
(* count is not stale to cleanup_stale, and the live ones are counted on   *)
(* top of them.                                                            *)
(***************************************************************************)
ExactUnlessOverlap ==
  faults = 0 => \A k \in Key \ overlapped : count[k] = Counted(k)

(***************************************************************************)
(* cleanup_stale removes what a crash between the HINCRBY and the HDEL of  *)
(* a decrement has left: no process that serves clients finds a field at   *)
(* or below zero, save the one it is deleting.                             *)
(***************************************************************************)
NoStaleField ==
  (faults = 0 /\ Serving) => \A k \in fields : count[k] > 0 \/ BeingDeleted(k)

(***************************************************************************)
(* The inductive invariant.                                                *)
(***************************************************************************)
AbsentCountsZero == \A k \in Key \ fields : count[k] = 0

DeletedHasNoHolder ==
  faults = 0 =>
    \A k \in Key \ overlapped : BeingDeleted(k) => refs[k] = {} /\ lost[k] = 0

LockExclusive == \A d, e \in deleting : d = e

CountInv ==
  /\ TypeOK
  /\ LockExclusive
  /\ AbsentCountsZero
  /\ NeverOvercounts
  /\ ExactUnlessOverlap
  /\ NoStaleField
  /\ DeletedHasNoHolder

=============================================================================
