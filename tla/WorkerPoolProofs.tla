-------------------------- MODULE WorkerPoolProofs --------------------------
(***************************************************************************)
(* Proofs about WorkerPool, for any workers, jobs, capacities and number   *)
(* of faults: where the messages are and how often ProcessJob runs for     *)
(* one of them.                                                            *)
(*                                                                         *)
(* Every place is a list, a set or the workers; how many messages of an id *)
(* are there, and what the operations on them change of it, is stated      *)
(* first.  Each step of the pool is then an addition.                      *)
(***************************************************************************)
EXTENDS WorkerPool, FiniteSetTheorems, SequenceTheorems, TLAPS

Is(m, id) == IF m.id = id THEN 1 ELSE 0
Acknowledged(id) == IF id \in acked THEN 1 ELSE 0
Due(id) == IF id \in Published THEN 1 ELSE 0

Indices(s, id) == {i \in DOMAIN s : s[i].id = id}
InList(s, id) == Cardinality(Indices(s, id))

Of(S, id) == {m \in S : m.id = id}
InSet(S, id) == Cardinality(Of(S, id))

Bearers(f, id) == {w \in Workers : f[w].msg.id = id}
AtWorkers(f, id) == Cardinality(Bearers(f, id))

-----------------------------------------------------------------------------
\* Lists.

LEMMA IndicesFinite ==
  ASSUME NEW s \in Seq(Message), NEW id
  PROVE  IsFiniteSet(Indices(s, id)) /\ InList(s, id) \in Nat
<1>1. IsFiniteSet(1 .. Len(s))
  BY FS_Interval, LenProperties
<1>2. Indices(s, id) \in SUBSET (1 .. Len(s))
  BY LenProperties DEF Indices
<1> QED
  BY <1>1, <1>2, FS_Subset, FS_CardinalityType DEF InList

\* A concatenation has the messages of both lists.
LEMMA InConcat ==
  ASSUME NEW s \in Seq(Message), NEW t \in Seq(Message), NEW id
  PROVE  InList(s \o t, id) = InList(s, id) + InList(t, id)
<1> DEFINE shift == [i \in Indices(t, id) |-> i + Len(s)]
           moved == {i + Len(s) : i \in Indices(t, id)}
<1>1. /\ Len(s) \in Nat /\ DOMAIN s = 1 .. Len(s)
      /\ Len(t) \in Nat /\ DOMAIN t = 1 .. Len(t)
  BY LenProperties
<1>2. /\ DOMAIN (s \o t) = 1 .. Len(s) + Len(t)
      /\ \A i \in 1 .. Len(s) + Len(t) :
           (s \o t)[i] = IF i <= Len(s) THEN s[i] ELSE t[i - Len(s)]
  BY ConcatProperties, LenProperties
<1>3. Indices(s \o t, id) = Indices(s, id) \cup moved
  <2>1. ASSUME NEW i \in Indices(s \o t, id), i > Len(s) PROVE i \in moved
    <3>1. i - Len(s) \in Indices(t, id)
      BY <1>1, <1>2, <2>1 DEF Indices
    <3>2. i = (i - Len(s)) + Len(s)
      BY <1>1, <1>2, <2>1 DEF Indices
    <3> QED BY <3>1, <3>2
  <2>2. ASSUME NEW i \in Indices(s \o t, id), ~(i > Len(s)) PROVE i \in Indices(s, id)
    BY <1>1, <1>2, <2>2 DEF Indices
  <2>3. Indices(s, id) \subseteq Indices(s \o t, id)
    BY <1>1, <1>2 DEF Indices
  <2>4. ASSUME NEW i \in Indices(t, id) PROVE i + Len(s) \in Indices(s \o t, id)
    BY <1>1, <1>2 DEF Indices
  <2> QED BY <2>1, <2>2, <2>3, <2>4
<1>4. Indices(s, id) \cap moved = {}
  BY <1>1 DEF Indices
<1>5. IsFiniteSet(moved) /\ Cardinality(moved) = InList(t, id)
  <2>1. shift \in Bijection(Indices(t, id), moved)
    <3>1. shift \in [Indices(t, id) -> moved]
      OBVIOUS
    <3>2. \A a, b \in Indices(t, id) : shift[a] = shift[b] => a = b
      BY <1>1 DEF Indices
    <3>3. \A m \in moved : \E a \in Indices(t, id) : shift[a] = m
      OBVIOUS
    <3> QED
      BY <3>1, <3>2, <3>3 DEF Bijection, Injection, Surjection, IsInjective
  <2> HIDE DEF shift, moved
  <2> QED
    BY <2>1, IndicesFinite, FS_Bijection DEF ExistsBijection, InList
<1> HIDE DEF moved
<1>6. Cardinality(Indices(s, id) \cap moved) = 0
  BY <1>4, FS_EmptySet, Zenon
<1>7. InList(s, id) \in Nat /\ InList(t, id) \in Nat
  BY IndicesFinite
<1>8. IsFiniteSet(Indices(s, id))
  BY IndicesFinite
<1>9. Cardinality(Indices(s, id) \cup moved)
        = InList(s, id) + InList(t, id) - Cardinality(Indices(s, id) \cap moved)
  BY <1>5, <1>8, FS_Union DEF InList
<1>10. Cardinality(Indices(s, id) \cup moved) = InList(s, id) + InList(t, id)
  BY <1>6, <1>7, <1>9
<1> QED
  BY <1>3, <1>10 DEF InList

LEMMA InEmpty == \A id : InList(<<>>, id) = 0
<1>1. \A id : Indices(<<>>, id) = {}
  BY DEF Indices
<1> QED BY <1>1, FS_EmptySet DEF InList

LEMMA InSingle ==
  ASSUME NEW m \in Message, NEW id
  PROVE  InList(<<m>>, id) = Is(m, id)
<1>1. Indices(<<m>>, id) = IF m.id = id THEN {1} ELSE {}
  BY DEF Indices
<1> QED BY <1>1, FS_EmptySet, FS_Singleton DEF InList, Is

\* RPUSH and BLPOP.
LEMMA InAppend ==
  ASSUME NEW s \in Seq(Message), NEW m \in Message, NEW id
  PROVE  InList(Append(s, m), id) = InList(s, id) + Is(m, id)
<1>1. <<m>> \in Seq(Message) /\ Append(s, m) = s \o <<m>>
  BY AppendIsConcat
<1>2. InList(s \o <<m>>, id) = InList(s, id) + InList(<<m>>, id)
  BY <1>1, InConcat
<1> QED BY <1>1, <1>2, InSingle

LEMMA HeadAndTail ==
  ASSUME NEW s \in Seq(Message), s # <<>>
  PROVE  /\ Head(s) \in Message /\ Tail(s) \in Seq(Message)
         /\ Len(Tail(s)) = Len(s) - 1
         /\ Members(Tail(s)) \subseteq Members(s) /\ Head(s) \in Members(s)
         /\ s = <<Head(s)>> \o Tail(s)
<1>1. /\ Head(s) \in Message /\ Tail(s) \in Seq(Message)
      /\ Len(s) \in Nat \ {0} /\ DOMAIN s = 1 .. Len(s)
      /\ Len(Tail(s)) = Len(s) - 1 /\ DOMAIN Tail(s) = 1 .. Len(s) - 1
      /\ Head(s) = s[1] /\ \A i \in 1 .. Len(s) - 1 : Tail(s)[i] = s[i + 1]
  BY HeadTailProperties, LenProperties, EmptySeq
<1>2. s = <<Head(s)>> \o Tail(s)
  <2>1. <<Head(s)>> \in Seq(Message) /\ Len(<<Head(s)>>) = 1
    BY <1>1
  <2> DEFINE t == <<Head(s)>> \o Tail(s)
  <2>2. t \in Seq(Message) /\ Len(t) = Len(s)
    BY <1>1, <2>1, ConcatProperties
  <2>3. \A i \in 1 .. Len(s) : s[i] = t[i]
    BY <1>1, <2>1, ConcatProperties
  <2> HIDE DEF t
  <2>4. s = t
    BY <2>2, <2>3, SeqEqual
  <2> QED BY <2>4 DEF t
<1>3. Members(Tail(s)) \subseteq Members(s) /\ Head(s) \in Members(s)
  BY <1>1 DEF Members
<1> QED BY <1>1, <1>2, <1>3

LEMMA InTail ==
  ASSUME NEW s \in Seq(Message), s # <<>>, NEW id
  PROVE  InList(s, id) = Is(Head(s), id) + InList(Tail(s), id)
<1>1. /\ Head(s) \in Message /\ Tail(s) \in Seq(Message)
      /\ s = <<Head(s)>> \o Tail(s) /\ <<Head(s)>> \in Seq(Message)
  BY HeadAndTail
<1>2. InList(<<Head(s)>> \o Tail(s), id) = InList(<<Head(s)>>, id) + InList(Tail(s), id)
  BY <1>1, InConcat
<1> QED BY <1>1, <1>2, InSingle

\* A message of the list is counted there.
LEMMA InListMember ==
  ASSUME NEW s \in Seq(Message), NEW m \in Members(s)
  PROVE  InList(s, m.id) >= 1
<1>1. Indices(s, m.id) # {}
  BY DEF Members, Indices
<1>2. IsFiniteSet(Indices(s, m.id)) /\ InList(s, m.id) \in Nat
  BY IndicesFinite
<1> QED BY <1>1, <1>2, FS_EmptySet DEF InList

-----------------------------------------------------------------------------
\* Sets: the retry set and the dead letters.

LEMMA OfFinite ==
  ASSUME NEW S, IsFiniteSet(S), NEW id
  PROVE  IsFiniteSet(Of(S, id)) /\ InSet(S, id) \in Nat
<1>1. Of(S, id) \in SUBSET S
  BY DEF Of
<1> QED BY <1>1, FS_Subset, FS_CardinalityType DEF InSet

LEMMA InSetMember ==
  ASSUME NEW S, IsFiniteSet(S), NEW m \in S
  PROVE  InSet(S, m.id) >= 1
<1>1. Of(S, m.id) # {}
  BY DEF Of
<1>2. IsFiniteSet(Of(S, m.id)) /\ InSet(S, m.id) \in Nat
  BY OfFinite
<1> QED BY <1>1, <1>2, FS_EmptySet DEF InSet

\* ZADD, or the RPUSH of the dead-letter list, of a message that is not there.
LEMMA InAdded ==
  ASSUME NEW S, IsFiniteSet(S), NEW m, m \notin S, NEW id
  PROVE  InSet(S \cup {m}, id) = InSet(S, id) + Is(m, id)
<1>1. IsFiniteSet(Of(S, id)) /\ InSet(S, id) \in Nat
  BY OfFinite
<1>2. CASE m.id = id
  <2>1. Of(S \cup {m}, id) = Of(S, id) \cup {m} /\ m \notin Of(S, id)
    BY <1>2 DEF Of
  <2>2. Cardinality(Of(S, id) \cup {m}) = Cardinality(Of(S, id)) + 1
    BY <1>1, <2>1, FS_AddElement
  <2> QED BY <1>2, <2>1, <2>2 DEF InSet, Is
<1>3. CASE m.id # id
  <2>1. Of(S \cup {m}, id) = Of(S, id)
    BY <1>3 DEF Of
  <2> QED BY <1>1, <1>3, <2>1 DEF InSet, Is
<1> QED BY <1>2, <1>3

\* ZREM of some of them.
LEMMA InRemoved ==
  ASSUME NEW S, IsFiniteSet(S), NEW T \in SUBSET S, NEW id
  PROVE  InSet(S \ T, id) = InSet(S, id) - InSet(T, id)
<1>1. IsFiniteSet(Of(S, id))
  BY OfFinite
<1>2. Of(S \ T, id) = Of(S, id) \ Of(T, id) /\ Of(S, id) \cap Of(T, id) = Of(T, id)
  BY DEF Of
<1>3. Cardinality(Of(S, id) \ Of(T, id))
        = Cardinality(Of(S, id)) - Cardinality(Of(S, id) \cap Of(T, id))
  BY <1>1, FS_Difference
<1> QED BY <1>2, <1>3 DEF InSet

\* What a sweep of the promoter moves is in the list as often as in the set.
LEMMA BatchIsList ==
  ASSUME NEW S \in SUBSET Message, NEW s \in Batches(S, RetryMoveBatch)
  PROVE  /\ s \in Seq(Message) /\ Members(s) \subseteq S
         /\ \A i, k \in DOMAIN s : i # k => s[i] # s[k]
<1>1. PICK n \in 1 .. RetryMoveBatch : s \in [1 .. n -> S]
  BY DEF Batches
<1>2. n \in Nat
  BY <1>1, PoolAssumption
<1> QED BY <1>1, <1>2 DEF Batches, Members

LEMMA InBatch ==
  ASSUME NEW S \in SUBSET Message, NEW s \in Batches(S, RetryMoveBatch), NEW id
  PROVE  InSet(Members(s), id) = InList(s, id)
<1> DEFINE f == [i \in Indices(s, id) |-> s[i]]
<1>1. f \in Bijection(Indices(s, id), Of(Members(s), id))
  <2>1. f \in [Indices(s, id) -> Of(Members(s), id)]
    BY DEF Indices, Of, Members
  <2>2. \A a, b \in Indices(s, id) : f[a] = f[b] => a = b
    BY BatchIsList DEF Indices
  <2>3. \A m \in Of(Members(s), id) : \E a \in Indices(s, id) : f[a] = m
    BY DEF Indices, Of, Members
  <2> QED
    BY <2>1, <2>2, <2>3 DEF Bijection, Injection, Surjection, IsInjective
<1>2. IsFiniteSet(Indices(s, id))
  BY BatchIsList, IndicesFinite
<1> HIDE DEF f
<1> QED
  BY <1>1, <1>2, FS_Bijection DEF ExistsBijection, InList, InSet

-----------------------------------------------------------------------------
\* The workers.

LEMMA BearersFinite ==
  ASSUME NEW f \in [Workers -> Task], NEW id
  PROVE  IsFiniteSet(Bearers(f, id)) /\ AtWorkers(f, id) \in Nat
<1>1. Bearers(f, id) \in SUBSET Workers /\ IsFiniteSet(Workers)
  BY PoolAssumption DEF Bearers
<1> QED BY <1>1, FS_Subset, FS_CardinalityType DEF AtWorkers

\* A worker puts a message down and takes up another.
LEMMA AtWorkersChange ==
  ASSUME NEW f \in [Workers -> Task], NEW w \in Workers, NEW t \in Task, NEW id
  PROVE  AtWorkers([f EXCEPT ![w] = t], id)
           = AtWorkers(f, id) - Is(f[w].msg, id) + Is(t.msg, id)
<1> DEFINE g == [f EXCEPT ![w] = t]
           rest == Bearers(f, id) \ {w}
<1>1. IsFiniteSet(Bearers(f, id)) /\ AtWorkers(f, id) \in Nat
  BY BearersFinite
<1>2. /\ IsFiniteSet(rest)
      /\ Cardinality(rest) = AtWorkers(f, id) - Is(f[w].msg, id)
  <2>1. w \in Bearers(f, id) <=> f[w].msg.id = id
    BY DEF Bearers
  <2> QED BY <1>1, <2>1, FS_RemoveElement DEF AtWorkers, Is
<1>3. Cardinality(rest \cup {w}) = Cardinality(rest) + 1
  BY <1>2, FS_AddElement
<1>4. Bearers(g, id) = IF t.msg.id = id THEN rest \cup {w} ELSE rest
  BY DEF Bearers
<1>5. Cardinality(rest) \in Nat
  BY <1>2, FS_CardinalityType
<1> HIDE DEF rest, g
<1>6. AtWorkers(g, id) = Cardinality(rest) + Is(t.msg, id)
  BY <1>3, <1>4, <1>5 DEF AtWorkers, Is
<1> QED BY <1>2, <1>6 DEF g

LEMMA AtWorkersMember ==
  ASSUME NEW f \in [Workers -> Task], NEW w \in Workers
  PROVE  AtWorkers(f, f[w].msg.id) >= 1
<1>1. Bearers(f, f[w].msg.id) # {}
  BY DEF Bearers
<1>2. IsFiniteSet(Bearers(f, f[w].msg.id)) /\ AtWorkers(f, f[w].msg.id) \in Nat
  BY BearersFinite
<1> QED BY <1>1, <1>2, FS_EmptySet DEF AtWorkers

LEMMA NobodyBusy ==
  ASSUME NEW id \in Ids
  PROVE  AtWorkers([w \in Workers |-> Waiting], id) = 0
<1>1. id # NoMessage.id
  BY RedisAssumption DEF Ids, NoMessage
<1>2. Bearers([w \in Workers |-> Waiting], id) = {}
  BY <1>1 DEF Bearers, Waiting
<1> QED BY <1>2, FS_EmptySet DEF AtWorkers

-----------------------------------------------------------------------------
(***************************************************************************)
(* The inductive invariant.  The limits on runs rest on a message being in *)
(* one place only; that no fault means no loss rests on what only a Stop   *)
(* makes possible.                                                         *)
(***************************************************************************)
Finite == IsFiniteSet(retry) /\ IsFiniteSet(dead)

Conserved ==
  \A id \in Ids :
    /\ Occurrences(id) <= Due(id)
    /\ upsets = 0 => Occurrences(id) = Due(id)

\* A goroutine returns only after a Stop.
Causes == (exited # {} => cancelled) /\ (cancelled => upsets > 0)

Untried(m) == m.attempts <= MaxRetries /\ runs[m.id] = m.attempts
InTry(m) == m.attempts <= MaxRetries /\ runs[m.id] = m.attempts + 1
Spent(m) == m.attempts = MaxRetries + 1 /\ runs[m.id] = m.attempts

\* The messages nobody is trying and that are not dead.
Queued == retry \cup Members(main) \cup Members(hand) \cup Members(channel)

Tries ==
  /\ \A m \in Queued : Untried(m)
  /\ \A w \in Workers : worker[w].msg # NoMessage => InTry(worker[w].msg)
  /\ \A m \in dead : Spent(m)
  /\ \A id \in Ids : runs[id] <= MaxRetries + 1 /\ (id \notin Published => runs[id] = 0)

PoolInv == TypeOK /\ Finite /\ Conserved /\ Causes /\ Tries

-----------------------------------------------------------------------------
\* Before and after a step, the occurrences of an id are the sum over the
\* places.
LEMMA OccurrencesSum ==
  ASSUME NEW id
  PROVE  /\ Occurrences(id)
              = InList(main, id) + InSet(retry \cup dead, id) + InList(hand, id)
                  + InList(channel, id) + AtWorkers(worker, id) + Acknowledged(id)
         /\ Occurrences(id)'
              = InList(main', id) + InSet(retry' \cup dead', id) + InList(hand', id)
                  + InList(channel', id) + AtWorkers(worker', id) + Acknowledged(id)'
BY DEF Occurrences, InList, Indices, InSet, Of, AtWorkers, Bearers, Acknowledged

LEMMA CountsTyped ==
  ASSUME PoolInv, NEW id
  PROVE  /\ InList(main, id) \in Nat /\ InSet(retry \cup dead, id) \in Nat
         /\ InList(hand, id) \in Nat /\ InList(channel, id) \in Nat
         /\ AtWorkers(worker, id) \in Nat
         /\ Acknowledged(id) \in {0, 1} /\ Due(id) \in {0, 1}
         /\ IsFiniteSet(retry \cup dead)
<1>1. IsFiniteSet(retry \cup dead)
  BY FS_Union DEF PoolInv, Finite
<1> QED
  BY <1>1, IndicesFinite, OfFinite, BearersFinite DEF PoolInv, TypeOK, Acknowledged, Due

LEMMA OnePlace ==
  ASSUME PoolInv, NEW id \in Ids
  PROVE  /\ AtWorkers(worker, id) >= 1 =>
              /\ AtWorkers(worker, id) = 1
              /\ InList(main, id) = 0 /\ InList(hand, id) = 0 /\ InList(channel, id) = 0
              /\ InSet(retry \cup dead, id) = 0 /\ id \notin acked /\ id \in Published
         /\ InList(channel, id) >= 1 =>
              /\ InList(channel, id) = 1
              /\ InList(main, id) = 0 /\ InList(hand, id) = 0 /\ AtWorkers(worker, id) = 0
              /\ InSet(retry \cup dead, id) = 0 /\ id \notin acked /\ id \in Published
<1>1. InList(main, id) + InSet(retry \cup dead, id) + InList(hand, id)
        + InList(channel, id) + AtWorkers(worker, id) + Acknowledged(id)
        <= Due(id)
  BY OccurrencesSum DEF PoolInv, Conserved
<1>2. /\ InList(main, id) \in Nat /\ InSet(retry \cup dead, id) \in Nat
      /\ InList(hand, id) \in Nat /\ InList(channel, id) \in Nat
      /\ AtWorkers(worker, id) \in Nat
  BY CountsTyped
<1>3. /\ Acknowledged(id) \in {0, 1} /\ Due(id) \in {0, 1}
      /\ Acknowledged(id) = 0 => id \notin acked
      /\ Due(id) = 1 => id \in Published
  BY DEF Acknowledged, Due
<1>4. ASSUME AtWorkers(worker, id) >= 1
      PROVE  /\ AtWorkers(worker, id) = 1
             /\ InList(main, id) = 0 /\ InList(hand, id) = 0 /\ InList(channel, id) = 0
             /\ InSet(retry \cup dead, id) = 0
             /\ Acknowledged(id) = 0 /\ Due(id) = 1
  BY <1>1, <1>2, <1>3, <1>4
<1>5. ASSUME InList(channel, id) >= 1
      PROVE  /\ InList(channel, id) = 1
             /\ InList(main, id) = 0 /\ InList(hand, id) = 0 /\ AtWorkers(worker, id) = 0
             /\ InSet(retry \cup dead, id) = 0
             /\ Acknowledged(id) = 0 /\ Due(id) = 1
  BY <1>1, <1>2, <1>3, <1>5
<1> QED BY <1>3, <1>4, <1>5

LEMMA Sums ==
  ASSUME PoolInv, NEW id
  PROVE  /\ Occurrences(id)
              = InList(main, id) + InSet(retry \cup dead, id) + InList(hand, id)
                  + InList(channel, id) + AtWorkers(worker, id) + Acknowledged(id)
         /\ Occurrences(id)'
              = InList(main', id) + InSet(retry' \cup dead', id) + InList(hand', id)
                  + InList(channel', id) + AtWorkers(worker', id) + Acknowledged(id)'
         /\ Occurrences(id) \in Nat
         /\ InList(main, id) \in Nat /\ InSet(retry \cup dead, id) \in Nat
         /\ InList(hand, id) \in Nat /\ InList(channel, id) \in Nat
         /\ AtWorkers(worker, id) \in Nat /\ Acknowledged(id) \in Nat
<1>1. /\ InList(main, id) \in Nat /\ InSet(retry \cup dead, id) \in Nat
      /\ InList(hand, id) \in Nat /\ InList(channel, id) \in Nat
      /\ AtWorkers(worker, id) \in Nat /\ Acknowledged(id) \in Nat
  BY CountsTyped
<1>2. /\ Occurrences(id)
           = InList(main, id) + InSet(retry \cup dead, id) + InList(hand, id)
               + InList(channel, id) + AtWorkers(worker, id) + Acknowledged(id)
      /\ Occurrences(id)'
           = InList(main', id) + InSet(retry' \cup dead', id) + InList(hand', id)
               + InList(channel', id) + AtWorkers(worker', id) + Acknowledged(id)'
  BY OccurrencesSum
<1>3. Occurrences(id) \in Nat
  BY <1>1, <1>2
<1> QED BY <1>1, <1>2, <1>3

\* Members of the lists a step makes.
LEMMA MembersOf ==
  /\ Members(<<>>) = {}
  /\ \A m : Members(<<m>>) = {m}
  /\ \A s \in Seq(Message), t \in Seq(Message) : Members(s \o t) \subseteq Members(s) \cup Members(t)
  /\ \A s \in Seq(Message), m \in Message : Members(Append(s, m)) \subseteq Members(s) \cup {m}
  /\ \A s \in Seq(Message) : Members(s) \subseteq Message
<1>1. ASSUME NEW s \in Seq(Message), NEW t \in Seq(Message)
      PROVE  Members(s \o t) \subseteq Members(s) \cup Members(t)
  <2>1. /\ DOMAIN s = 1 .. Len(s) /\ DOMAIN t = 1 .. Len(t)
        /\ DOMAIN (s \o t) = 1 .. Len(s) + Len(t)
        /\ Len(s) \in Nat /\ Len(t) \in Nat
        /\ \A i \in 1 .. Len(s) + Len(t) :
             (s \o t)[i] = IF i <= Len(s) THEN s[i] ELSE t[i - Len(s)]
    BY ConcatProperties, LenProperties
  <2>2. ASSUME NEW i \in 1 .. Len(s) + Len(t)
        PROVE  (s \o t)[i] \in Members(s) \cup Members(t)
    <3>1. CASE i <= Len(s)
      BY <2>1, <3>1 DEF Members
    <3>2. CASE ~(i <= Len(s))
      <4>1. i - Len(s) \in 1 .. Len(t)
        BY <2>1, <3>2
      <4> QED BY <2>1, <3>2, <4>1 DEF Members
    <3> QED BY <3>1, <3>2
  <2> QED BY <2>1, <2>2 DEF Members
<1>2. Members(<<>>) = {} /\ \A m : Members(<<m>>) = {m}
  BY DEF Members
<1>3. ASSUME NEW s \in Seq(Message), NEW m \in Message
      PROVE  Members(Append(s, m)) \subseteq Members(s) \cup {m}
  <2>1. <<m>> \in Seq(Message) /\ Append(s, m) = s \o <<m>>
    BY AppendIsConcat
  <2> QED BY <1>1, <1>2, <2>1
<1>4. ASSUME NEW s \in Seq(Message) PROVE Members(s) \subseteq Message
  BY LenProperties DEF Members
<1> QED BY <1>1, <1>2, <1>3, <1>4

\* Where there is none of an id, no message has it.
LEMMA Absence ==
  ASSUME PoolInv, NEW id \in Ids
  PROVE  /\ InList(main, id) = 0 => \A m \in Members(main) : m.id # id
         /\ InList(hand, id) = 0 => \A m \in Members(hand) : m.id # id
         /\ InList(channel, id) = 0 => \A m \in Members(channel) : m.id # id
         /\ InSet(retry \cup dead, id) = 0 => \A m \in retry \cup dead : m.id # id
         /\ AtWorkers(worker, id) = 0 => \A w \in Workers : worker[w].msg.id # id
<1>1. ASSUME NEW s \in Seq(Message), InList(s, id) = 0, NEW m \in Members(s)
      PROVE  m.id # id
  BY <1>1, InListMember
<1>2. InSet(retry \cup dead, id) = 0 => \A m \in retry \cup dead : m.id # id
  BY CountsTyped, InSetMember
<1>3. ASSUME AtWorkers(worker, id) = 0, NEW w \in Workers, worker[w].msg.id = id PROVE FALSE
  <2>1. AtWorkers(worker, worker[w].msg.id) >= 1
    BY AtWorkersMember DEF PoolInv, TypeOK
  <2> QED BY <1>3, <2>1
<1> QED
  BY <1>1, <1>2, <1>3 DEF PoolInv, TypeOK

\* A message at a worker is nowhere else, and another worker has another.
LEMMA BusyAlone ==
  ASSUME PoolInv, NEW w \in Workers, worker[w].msg # NoMessage
  PROVE  LET m == worker[w].msg IN
         /\ m \in Message /\ m.id \in Ids
         /\ InList(main, m.id) = 0 /\ InList(hand, m.id) = 0 /\ InList(channel, m.id) = 0
         /\ InSet(retry \cup dead, m.id) = 0 /\ m.id \notin acked
         /\ m.id \in Published
         /\ \A v \in Workers \ {w} : worker[v].msg.id # m.id
<1> DEFINE m == worker[w].msg
<1>1. m \in Message /\ m.id \in Ids
  BY DEF PoolInv, TypeOK, Task, Message
<1>2. AtWorkers(worker, m.id) >= 1
  BY AtWorkersMember DEF PoolInv, TypeOK
<1>3. PICK id \in Ids : id = m.id
  BY <1>1
<1>4. /\ InList(main, m.id) = 0 /\ InList(hand, m.id) = 0 /\ InList(channel, m.id) = 0
      /\ InSet(retry \cup dead, m.id) = 0 /\ AtWorkers(worker, m.id) = 1
      /\ m.id \notin acked /\ m.id \in Published
  <2>1. AtWorkers(worker, id) >= 1
    BY <1>2, <1>3
  <2> HIDE DEF m
  <2>2. /\ InList(main, id) = 0 /\ InList(hand, id) = 0 /\ InList(channel, id) = 0
        /\ InSet(retry \cup dead, id) = 0 /\ AtWorkers(worker, id) = 1
        /\ id \notin acked /\ id \in Published
    BY <2>1, OnePlace
  <2> QED BY <1>3, <2>2
<1>6. ASSUME NEW v \in Workers \ {w} PROVE worker[v].msg.id # m.id
  <2>1. IsFiniteSet(Bearers(worker, m.id)) /\ Cardinality(Bearers(worker, m.id)) = 1
    BY <1>4, BearersFinite DEF PoolInv, TypeOK, AtWorkers
  <2>2. PICK x : Bearers(worker, m.id) = {x}
    BY <2>1, FS_Singleton
  <2> QED BY <2>2 DEF Bearers
<1> QED BY <1>1, <1>4, <1>6

\* So is the message at the head of the channel.
LEMMA HeadAlone ==
  ASSUME PoolInv, channel # <<>>
  PROVE  LET m == Head(channel) IN
         /\ m \in Message /\ m.id \in Ids /\ m \in Members(channel)
         /\ Tail(channel) \in Seq(Message) /\ Len(Tail(channel)) = Len(channel) - 1
         /\ Members(Tail(channel)) \subseteq Members(channel)
         /\ m.id \in Published
         /\ \A k \in retry \cup dead \cup Members(main) \cup Members(hand)
                     \cup Members(Tail(channel)) : k.id # m.id
         /\ \A v \in Workers : worker[v].msg.id # m.id
<1> DEFINE m == Head(channel)
<1>0. channel \in Seq(Message)
  BY DEF PoolInv, TypeOK
<1>1. /\ m \in Message /\ m.id \in Ids /\ m \in Members(channel)
      /\ Tail(channel) \in Seq(Message) /\ Len(Tail(channel)) = Len(channel) - 1
      /\ Members(Tail(channel)) \subseteq Members(channel)
  BY <1>0, HeadAndTail DEF Message
<1>2. InList(channel, m.id) = 1 + InList(Tail(channel), m.id)
  BY <1>0, InTail DEF Is
<1>3. PICK id \in Ids : id = m.id
  BY <1>1
<1> HIDE DEF m
<1>4. /\ InList(channel, id) = 1 + InList(Tail(channel), id)
      /\ InList(Tail(channel), id) \in Nat /\ InList(channel, id) >= 1
  <2>1. InList(Tail(channel), id) \in Nat
    BY <1>1, IndicesFinite
  <2>2. InList(channel, id) = 1 + InList(Tail(channel), id)
    BY <1>2, <1>3
  <2> QED BY <2>1, <2>2
<1>5. /\ InList(main, id) = 0 /\ InList(hand, id) = 0 /\ InList(Tail(channel), id) = 0
      /\ InSet(retry \cup dead, id) = 0 /\ AtWorkers(worker, id) = 0
      /\ id \in Published
  <2>1. /\ InList(channel, id) = 1
        /\ InList(main, id) = 0 /\ InList(hand, id) = 0 /\ AtWorkers(worker, id) = 0
        /\ InSet(retry \cup dead, id) = 0 /\ id \in Published
    BY <1>4, OnePlace
  <2> QED BY <1>4, <2>1
<1>6. ASSUME NEW k \in Members(Tail(channel)) PROVE k.id # id
  <2>1. InList(Tail(channel), k.id) >= 1
    BY <1>1, InListMember
  <2> QED BY <1>5, <2>1
<1>8. /\ \A k \in retry \cup dead \cup Members(main) \cup Members(hand) : k.id # id
      /\ \A v \in Workers : worker[v].msg.id # id
  BY <1>5, Absence
<1>9. \A k \in retry \cup dead \cup Members(main) \cup Members(hand)
              \cup Members(Tail(channel)) : k.id # m.id
  BY <1>3, <1>6, <1>8
<1> QED
  BY <1>1, <1>3, <1>5, <1>8, <1>9 DEF m

-----------------------------------------------------------------------------
\* A step that loses nothing, and one that may after something went wrong.
LEMMA Lossless ==
  ASSUME PoolInv, upsets' = 0 => upsets = 0,
         \A id \in Ids : Occurrences(id)' = Occurrences(id) + Due(id)' - Due(id)
  PROVE  Conserved'
<1> SUFFICES ASSUME NEW id \in Ids
             PROVE  /\ Occurrences(id)' <= Due(id)'
                    /\ upsets' = 0 => Occurrences(id)' = Due(id)'
  BY DEF Conserved, Due
<1>1. Occurrences(id) \in Nat
  BY Sums
<1>2. Due(id) \in Nat /\ Due(id)' \in Nat
  BY DEF Due
<1>3. Occurrences(id) <= Due(id) /\ (upsets = 0 => Occurrences(id) = Due(id))
  BY DEF PoolInv, Conserved
<1> QED BY <1>1, <1>2, <1>3

LEMMA Lossy ==
  ASSUME PoolInv, upsets' # 0, sent' = sent,
         \A id \in Ids : \E n \in Nat : Occurrences(id)' = Occurrences(id) - n
  PROVE  Conserved'
<1> SUFFICES ASSUME NEW id \in Ids
             PROVE  Occurrences(id)' <= Due(id)'
  BY DEF Conserved
<1>1. Occurrences(id) \in Nat
  BY Sums
<1>2. Due(id) \in Nat /\ Due(id)' = Due(id)
  BY DEF Due, Published
<1>3. Occurrences(id) <= Due(id)
  BY DEF PoolInv, Conserved
<1> QED BY <1>1, <1>2, <1>3

\* A step that runs nothing, and queues only what was queued.
LEMMA TriesKept ==
  ASSUME PoolInv, runs' = runs, dead' = dead, Queued' \subseteq Queued,
         \A w \in Workers : worker'[w].msg \in {worker[w].msg, NoMessage},
         Published \subseteq Published'
  PROVE  Tries'
BY DEF PoolInv, Tries, Untried, InTry, Spent

-----------------------------------------------------------------------------
\* An RPUSH of a new message.  It may be a sweep's whose error hides that it was
\* done, which is an upset too.
Push(j) ==
  /\ sent[j] < MaxSent
  /\ sent' = [sent EXCEPT ![j] = @ + 1]
  /\ main' = RPush(main, NewMessage(<<j, sent[j] + 1>>))
  /\ UNCHANGED <<retry, dead, pool, acked, runs>>

LEMMA PushStep ==
  ASSUME PoolInv, NEW j \in Jobs, Push(j),
         upsets' \in {upsets, upsets + 1}, upsets' \in 0 .. MaxUpsets
  PROVE  PoolInv'
<1> DEFINE new == <<j, sent[j] + 1>>
           m == NewMessage(new)
<1>1. new \in Ids /\ m \in Message /\ m.id = new /\ m.attempts = 0
  BY RedisAssumption DEF PoolInv, TypeOK, Push, Ids, Message, NewMessage
<1>2. main \in Seq(Message) /\ main' = Append(main, m) /\ main' \in Seq(Message)
  BY <1>1, AppendProperties DEF PoolInv, TypeOK, Push, RPush
<1>3. \A id \in Ids : id \in Published' <=> id \in Published \/ id = new
  BY DEF PoolInv, TypeOK, Push, Published, Ids
<1>4. new \notin Published
  BY <1>1 DEF PoolInv, TypeOK, Published
<1> HIDE DEF new, m
<1>5. TypeOK'
  <2>1. sent' \in [Jobs -> 0 .. MaxSent]
    BY RedisAssumption DEF PoolInv, TypeOK, Push
  <2> QED BY <1>2, <2>1 DEF PoolInv, TypeOK, Push, pool
<1>6. Finite' /\ Causes'
  BY DEF PoolInv, Finite, Causes, Push, pool
<1>7. Conserved'
  <2>1. ASSUME NEW id \in Ids
        PROVE  Occurrences(id)' = Occurrences(id) + Due(id)' - Due(id)
    <3>1. InList(main', id) = InList(main, id) + Is(m, id)
      BY <1>1, <1>2, InAppend
    <3>2. Due(id)' - Due(id) = Is(m, id)
      BY <1>1, <1>3, <1>4 DEF Due, Is
    <3>3. Acknowledged(id)' = Acknowledged(id)
      BY DEF Push, Acknowledged
    <3>4. Is(m, id) \in Nat /\ Due(id) \in Nat /\ Due(id)' \in Nat
      BY DEF Is, Due
    <3> QED BY <3>1, <3>2, <3>3, <3>4, Sums DEF Push, pool
  <2>2. upsets \in Nat
    BY PoolAssumption DEF PoolInv, TypeOK
  <2>3. upsets' = 0 => upsets = 0
    BY <2>2
  <2> QED BY <2>1, <2>3, Lossless
<1>8. Tries'
  <2>1. Members(main') \subseteq Members(main) \cup {m}
    BY <1>1, <1>2, MembersOf
  <2>2. runs[m.id] = 0
    BY <1>1, <1>4 DEF PoolInv, Tries
  <2> QED
    BY <1>1, <1>3, <2>1, <2>2, RedisAssumption
    DEF PoolInv, Tries, Queued, Untried, InTry, Spent, Push, pool
<1> QED BY <1>5, <1>6, <1>7, <1>8 DEF PoolInv

LEMMA EnqueueStep ==
  ASSUME PoolInv, NEW j \in Jobs, Enqueue(j) PROVE PoolInv'
<1>1. Push(j) /\ upsets' = upsets /\ upsets \in 0 .. MaxUpsets
  BY DEF Enqueue, Push, PoolInv, TypeOK
<1> QED BY <1>1, PushStep

-----------------------------------------------------------------------------
\* The dispatcher.

LEMMA DequeueStep ==
  ASSUME PoolInv, Dequeue PROVE PoolInv'
<1> DEFINE m == Head(main)
<1>1. /\ main \in Seq(Message) /\ main # <<>> /\ main' = Tail(main)
      /\ hand = <<>> /\ hand' = <<m>>
  BY DEF PoolInv, TypeOK, Dequeue
<1>2. /\ m \in Message /\ main' \in Seq(Message)
      /\ Members(main') \subseteq Members(main) /\ m \in Members(main)
  BY <1>1, HeadAndTail
<1> HIDE DEF m
<1>3. hand' \in Seq(Message) /\ Len(hand') = 1
  BY <1>1, <1>2
<1>4. TypeOK'
  BY <1>2, <1>3 DEF PoolInv, TypeOK, Dequeue
<1>5. Finite' /\ Causes'
  BY DEF PoolInv, Finite, Causes, Dequeue
<1>6. Conserved'
  <2>1. ASSUME NEW id \in Ids
        PROVE  Occurrences(id)' = Occurrences(id) + Due(id)' - Due(id)
    <3>1. InList(main, id) = Is(m, id) + InList(main', id) /\ InList(main', id) \in Nat
      BY <1>1, <1>2, InTail, IndicesFinite DEF m
    <3>2. InList(hand', id) = Is(m, id) /\ InList(hand, id) = 0
      BY <1>1, <1>2, InSingle, InEmpty
    <3>3. Acknowledged(id)' = Acknowledged(id) /\ Due(id)' = Due(id)
      BY DEF Dequeue, Acknowledged, Due, Published
    <3>4. Is(m, id) \in Nat /\ Due(id) \in Nat
      BY DEF Is, Due
    <3>5. retry' = retry /\ dead' = dead /\ channel' = channel /\ worker' = worker
      BY DEF Dequeue
    <3> QED BY <3>1, <3>2, <3>3, <3>4, <3>5, Sums
  <2> QED BY <2>1, Lossless DEF Dequeue
<1>7. Tries'
  <2>1. Members(hand') = {m}
    BY <1>1, MembersOf
  <2> QED
    BY <1>2, <2>1, TriesKept DEF Dequeue, Queued, Published
<1> QED BY <1>4, <1>5, <1>6, <1>7 DEF PoolInv

LEMMA DequeueErrorStep ==
  ASSUME PoolInv, DequeueError PROVE PoolInv'
<1>1. main \in Seq(Message) /\ main # <<>> /\ main' = Tail(main)
  BY DEF PoolInv, TypeOK, DequeueError
<1>2. main' \in Seq(Message) /\ Members(main') \subseteq Members(main)
  BY <1>1, HeadAndTail
<1>3. TypeOK' /\ upsets' # 0
  BY <1>2, PoolAssumption DEF PoolInv, TypeOK, DequeueError, Upset, pool
<1>4. Finite' /\ Causes'
  BY <1>3 DEF PoolInv, TypeOK, Finite, Causes, DequeueError, Upset, pool
<1>5. Conserved'
  <2>1. ASSUME NEW id \in Ids
        PROVE  \E n \in Nat : Occurrences(id)' = Occurrences(id) - n
    <3>1. InList(main, id) = Is(Head(main), id) + InList(main', id) /\ InList(main', id) \in Nat
      BY <1>1, <1>2, InTail, IndicesFinite
    <3>2. Acknowledged(id)' = Acknowledged(id)
      BY DEF DequeueError, Acknowledged
    <3>3. Is(Head(main), id) \in Nat
      BY DEF Is
    <3>4. /\ retry' = retry /\ dead' = dead
          /\ hand' = hand /\ channel' = channel /\ worker' = worker
      BY DEF DequeueError, pool
    <3>5. Occurrences(id)' = Occurrences(id) - Is(Head(main), id)
      BY <3>1, <3>2, <3>3, <3>4, Sums
    <3> QED BY <3>3, <3>5
  <2> QED BY <1>3, <2>1, Lossy DEF DequeueError
<1>6. Tries'
  BY <1>2, TriesKept DEF DequeueError, Queued, Published, pool
<1> QED BY <1>3, <1>4, <1>5, <1>6 DEF PoolInv

LEMMA DispatchStep ==
  ASSUME PoolInv, Dispatch PROVE PoolInv'
<1>1. /\ hand \in Seq(Message) /\ Len(hand) = 1 /\ channel \in Seq(Message)
      /\ channel' = channel \o hand /\ hand' = <<>>
  <2>1. hand # <<>> => Len(hand) \in Nat \ {0}
    BY EmptySeq DEF PoolInv, TypeOK
  <2>2. hand # <<>>
    BY DEF Dispatch
  <2>3. Len(hand) \in Nat \ {0}
    BY <2>1, <2>2, Zenon
  <2>4. hand \in Seq(Message) /\ channel \in Seq(Message) /\ Len(hand) <= 1
    BY DEF PoolInv, TypeOK
  <2>5. Len(hand) = 1
    <3>1. \A n \in Nat \ {0} : n <= 1 => n = 1
      OBVIOUS
    <3> QED BY <2>3, <2>4, <3>1, Zenon
  <2>6. channel' = channel \o hand /\ hand' = <<>>
    BY DEF Dispatch
  <2> QED BY <2>4, <2>5, <2>6
<1>2. /\ channel' \in Seq(Message) /\ Len(channel') <= BufferSize
      /\ Members(channel') \subseteq Members(channel) \cup Members(hand)
  <2>1. channel' \in Seq(Message) /\ Len(channel') = Len(channel) + 1
    <3>1. channel \o hand \in Seq(Message) /\ Len(channel \o hand) = Len(channel) + Len(hand)
      BY <1>1, ConcatProperties
    <3> QED BY <1>1, <3>1
  <2>2. Len(channel) < BufferSize /\ Len(channel) \in Nat
    BY <1>1, LenProperties DEF Dispatch
  <2> QED BY <1>1, <2>1, <2>2, MembersOf, PoolAssumption
<1>3. hand' \in Seq(Message) /\ Len(hand') <= 1
  BY <1>1
<1>4. TypeOK'
  BY <1>2, <1>3 DEF PoolInv, TypeOK, Dispatch, redis
<1>5. Finite' /\ Causes'
  BY DEF PoolInv, Finite, Causes, Dispatch, redis
<1>6. Conserved'
  <2>1. ASSUME NEW id \in Ids
        PROVE  Occurrences(id)' = Occurrences(id) + Due(id)' - Due(id)
    <3>1. InList(channel', id) = InList(channel, id) + InList(hand, id)
      BY <1>1, InConcat
    <3>2. InList(hand', id) = 0
      BY <1>1, InEmpty
    <3>3. Acknowledged(id)' = Acknowledged(id) /\ Due(id)' = Due(id) /\ Due(id) \in Nat
      BY DEF Dispatch, Acknowledged, Due, Published
    <3> QED BY <3>1, <3>2, <3>3, Sums DEF Dispatch, redis
  <2> QED BY <2>1, Lossless DEF Dispatch
<1>7. Tries'
  <2>1. Members(hand') = {}
    BY <1>1, MembersOf
  <2> QED
    BY <1>2, <2>1, TriesKept DEF Dispatch, Queued, Published, redis
<1> QED BY <1>4, <1>5, <1>6, <1>7 DEF PoolInv

LEMMA DispatcherExitStep ==
  ASSUME PoolInv, DispatcherExit PROVE PoolInv'
<1>1. hand' = <<>> /\ hand' \in Seq(Message) /\ Len(hand') <= 1
  BY DEF DispatcherExit
<1>2. TypeOK' /\ upsets' # 0
  BY <1>1 DEF PoolInv, TypeOK, Causes, DispatcherExit, redis
<1>3. Finite' /\ Causes'
  BY DEF PoolInv, Finite, Causes, DispatcherExit, redis
<1>4. Conserved'
  <2>1. ASSUME NEW id \in Ids
        PROVE  \E n \in Nat : Occurrences(id)' = Occurrences(id) - n
    <3>1. InList(hand', id) = 0
      BY <1>1, InEmpty
    <3>2. Acknowledged(id)' = Acknowledged(id)
      BY DEF DispatcherExit, Acknowledged
    <3>3. Occurrences(id)' = Occurrences(id) - InList(hand, id)
      BY <3>1, <3>2, Sums DEF DispatcherExit, redis
    <3> QED BY <3>3, Sums
  <2> QED BY <1>2, <2>1, Lossy DEF DispatcherExit
<1>5. Tries'
  <2>1. Members(hand') = {}
    BY <1>1, MembersOf
  <2> QED
    BY <2>1, TriesKept DEF DispatcherExit, Queued, Published, redis
<1> QED BY <1>2, <1>3, <1>4, <1>5 DEF PoolInv

-----------------------------------------------------------------------------
\* The workers.

LEMMA NoMessageIsNone ==
  /\ \A id \in Ids : Is(NoMessage, id) = 0
  /\ NoMessage \notin Message /\ Waiting \in Task
<1>1. ASSUME NEW id \in Ids PROVE NoMessage.id # id
  BY RedisAssumption DEF Ids, NoMessage
<1>2. NoMessage \notin Message
  BY <1>1 DEF Message
<1> QED BY <1>1, <1>2 DEF Is, Waiting, Task

\* A worker goes on with the message it has.
LEMMA PcChange ==
  ASSUME NEW f \in [Workers -> Task], NEW w \in Workers,
         NEW p \in {"idle", "processing", "failing", "exited"}
  PROVE  LET t == [pc |-> p, msg |-> f[w].msg] IN
         /\ [f EXCEPT ![w].pc = p] = [f EXCEPT ![w] = t]
         /\ t \in Task /\ t.pc = p /\ t.msg = f[w].msg
<1>1. f[w] \in Task
  OBVIOUS
<1>2. [f[w] EXCEPT !.pc = p] = [pc |-> p, msg |-> f[w].msg]
  BY <1>1 DEF Task
<1>3. [pc |-> p, msg |-> f[w].msg] \in Task
  BY <1>1 DEF Task
<1> QED BY <1>2, <1>3

LEMMA TakeStep ==
  ASSUME PoolInv, NEW w \in Workers, Take(w) PROVE PoolInv'
<1> DEFINE m == Head(channel)
           t == [pc |-> "processing", msg |-> m]
<1>1. /\ channel \in Seq(Message) /\ channel # <<>> /\ channel' = Tail(channel)
      /\ worker \in [Workers -> Task] /\ worker[w].msg = NoMessage
      /\ worker' = [worker EXCEPT ![w] = t]
      /\ runs \in [Ids -> Nat] /\ runs' = [runs EXCEPT ![m.id] = @ + 1]
  BY DEF PoolInv, TypeOK, Task, Take
<1>2. /\ m \in Message /\ m.id \in Ids /\ m \in Members(channel)
      /\ channel' \in Seq(Message) /\ Len(channel') = Len(channel) - 1
      /\ Members(channel') \subseteq Members(channel)
      /\ m.id \in Published
      /\ \A k \in retry \cup dead \cup Members(main) \cup Members(hand)
                  \cup Members(channel') : k.id # m.id
      /\ \A v \in Workers : worker[v].msg.id # m.id
  BY <1>1, HeadAlone
<1>3. t \in Task /\ t.msg = m /\ t.pc = "processing"
  BY <1>2 DEF Task
<1> HIDE DEF m, t
<1>4. TypeOK'
  <2>1. Len(channel') <= BufferSize
    <3>1. Len(channel) \in Nat /\ Len(channel) <= BufferSize /\ BufferSize \in Nat
      BY <1>1, LenProperties, PoolAssumption DEF PoolInv, TypeOK
    <3> QED BY <1>2, <3>1
  <2>2. worker' \in [Workers -> Task]
    BY <1>1, <1>3
  <2>3. \A v \in Workers : worker'[v].pc \in {"processing", "failing"} <=> worker'[v].msg # NoMessage
    BY <1>1, <1>2, <1>3, NoMessageIsNone DEF PoolInv, TypeOK
  <2>4. runs' \in [Ids -> Nat]
    BY <1>1, <1>2
  <2> QED BY <1>2, <2>1, <2>2, <2>3, <2>4 DEF PoolInv, TypeOK, Take, redis
<1>5. Finite' /\ Causes'
  BY DEF PoolInv, Finite, Causes, Take, redis
<1>6. Conserved'
  <2>1. ASSUME NEW id \in Ids
        PROVE  Occurrences(id)' = Occurrences(id) + Due(id)' - Due(id)
    <3>1. InList(channel, id) = Is(m, id) + InList(channel', id) /\ InList(channel', id) \in Nat
      BY <1>1, <1>2, InTail, IndicesFinite DEF m
    <3>2. AtWorkers(worker', id) = AtWorkers(worker, id) - Is(worker[w].msg, id) + Is(t.msg, id)
      BY <1>1, <1>3, AtWorkersChange
    <3>3. Is(worker[w].msg, id) = 0 /\ Is(t.msg, id) = Is(m, id)
      BY <1>1, <1>3, NoMessageIsNone
    <3>4. Acknowledged(id)' = Acknowledged(id) /\ Due(id)' = Due(id)
      BY DEF Take, Acknowledged, Due, Published
    <3>5. Is(m, id) \in Nat /\ Due(id) \in Nat
      BY DEF Is, Due
    <3>6. main' = main /\ retry' = retry /\ dead' = dead /\ hand' = hand
      BY DEF Take, redis
    <3> QED BY <3>1, <3>2, <3>3, <3>4, <3>5, <3>6, Sums
  <2> QED BY <2>1, Lossless DEF Take
<1>7. Tries'
  <2>1. Untried(m)
    BY <1>2 DEF PoolInv, Tries, Queued
  <2>2. /\ main' = main /\ retry' = retry /\ dead' = dead /\ hand' = hand /\ sent' = sent
    BY DEF Take, redis
  <2>3. \A id \in Ids : runs'[id] = IF id = m.id THEN runs[id] + 1 ELSE runs[id]
    BY <1>1, <1>2
  <2>4. Queued' \subseteq Queued /\ \A k \in Queued' : k \in Message /\ k.id # m.id
    BY <1>2, <2>2, MembersOf DEF PoolInv, TypeOK, Queued
  <2>5. \A k \in Queued' : Untried(k)'
    BY <2>3, <2>4 DEF PoolInv, Tries, Untried, Message
  <2>6. \A k \in dead' : Spent(k)'
    BY <1>2, <2>2, <2>3 DEF PoolInv, TypeOK, Tries, Spent, Message
  <2>7. ASSUME NEW v \in Workers, worker'[v].msg # NoMessage PROVE InTry(worker[v].msg)'
    <3>1. CASE v = w
      BY <1>1, <1>2, <1>3, <2>1, <2>3, <3>1 DEF Untried, InTry
    <3>2. CASE v # w
      <4>1. worker'[v] = worker[v] /\ worker[v].msg \in Message
        BY <1>1, <2>7, <3>2 DEF Task
      <4>2. runs'[worker[v].msg.id] = runs[worker[v].msg.id]
        BY <1>2, <2>3, <4>1 DEF Message
      <4> QED BY <2>7, <4>1, <4>2 DEF PoolInv, Tries, InTry
    <3> QED BY <3>1, <3>2
  <2>8. \A id \in Ids :
          runs'[id] <= MaxRetries + 1 /\ (id \notin Published' => runs'[id] = 0)
    <3>1. Published' = Published
      BY <2>2 DEF Published
    <3>2. runs[m.id] = m.attempts /\ m.attempts <= MaxRetries
      BY <2>1 DEF Untried
    <3>3. m.attempts \in Nat
      BY <1>2, RedisAssumption DEF Message
    <3> QED
      BY <1>2, <2>3, <3>1, <3>2, <3>3, RedisAssumption DEF PoolInv, Tries
  <2> QED BY <2>5, <2>6, <2>7, <2>8 DEF Tries
<1> QED BY <1>4, <1>5, <1>6, <1>7 DEF PoolInv

LEMMA WorkerExitStep ==
  ASSUME PoolInv, NEW w \in Workers, WorkerExit(w) PROVE PoolInv'
<1> DEFINE t == [pc |-> "exited", msg |-> worker[w].msg]
<1>1. /\ worker \in [Workers -> Task] /\ worker[w].msg = NoMessage
      /\ t \in Task /\ t.msg = NoMessage /\ t.pc = "exited"
      /\ worker' = [worker EXCEPT ![w] = t]
  <2>1. worker \in [Workers -> Task] /\ worker[w].msg = NoMessage
    BY DEF PoolInv, TypeOK, WorkerExit
  <2>2. worker' = [worker EXCEPT ![w].pc = "exited"]
    BY DEF WorkerExit
  <2>3. /\ [worker EXCEPT ![w].pc = "exited"] = [worker EXCEPT ![w] = t]
        /\ t \in Task /\ t.pc = "exited" /\ t.msg = worker[w].msg
    BY <2>1, PcChange
  <2> HIDE DEF t
  <2> QED BY <2>1, <2>2, <2>3
<1> HIDE DEF t
<1>2. TypeOK'
  <2>1. worker' \in [Workers -> Task]
    BY <1>1
  <2>2. \A v \in Workers : worker'[v].pc \in {"processing", "failing"} <=> worker'[v].msg # NoMessage
    BY <1>1 DEF PoolInv, TypeOK
  <2> QED BY <2>1, <2>2 DEF PoolInv, TypeOK, WorkerExit, redis
<1>3. Finite' /\ Causes'
  BY DEF PoolInv, Finite, Causes, WorkerExit, redis
<1>4. Conserved'
  <2>1. ASSUME NEW id \in Ids
        PROVE  Occurrences(id)' = Occurrences(id) + Due(id)' - Due(id)
    <3>1. AtWorkers(worker', id) = AtWorkers(worker, id) - Is(worker[w].msg, id) + Is(t.msg, id)
      <4>1. /\ worker \in [Workers -> Task] /\ t \in Task
            /\ worker' = [worker EXCEPT ![w] = t]
        BY <1>1
      <4> QED BY <4>1, AtWorkersChange
    <3>2. Is(worker[w].msg, id) = 0 /\ Is(t.msg, id) = 0
      BY <1>1, NoMessageIsNone
    <3>3. Acknowledged(id)' = Acknowledged(id) /\ Due(id)' = Due(id) /\ Due(id) \in Nat
      BY DEF WorkerExit, Acknowledged, Due, Published
    <3>4. /\ main' = main /\ retry' = retry /\ dead' = dead /\ hand' = hand
          /\ channel' = channel
      BY DEF WorkerExit, redis
    <3> QED BY <3>1, <3>2, <3>3, <3>4, Sums
  <2> QED BY <2>1, Lossless DEF WorkerExit
<1>5. Tries'
  BY <1>1, TriesKept DEF WorkerExit, Queued, Published, redis
<1> QED BY <1>2, <1>3, <1>4, <1>5 DEF PoolInv

\* A worker has no message any more.
LEMMA PutDown ==
  ASSUME PoolInv, NEW w \in Workers, worker' = [worker EXCEPT ![w] = Waiting]
  PROVE  /\ worker' \in [Workers -> Task]
         /\ \A v \in Workers :
              worker'[v].pc \in {"processing", "failing"} <=> worker'[v].msg # NoMessage
         /\ \A v \in Workers : worker'[v].msg \in {worker[v].msg, NoMessage}
         /\ \A id \in Ids : AtWorkers(worker', id) = AtWorkers(worker, id) - Is(worker[w].msg, id)
<1>1. worker \in [Workers -> Task] /\ Waiting \in Task
  BY NoMessageIsNone DEF PoolInv, TypeOK
<1>2. /\ Waiting.pc = "idle" /\ Waiting.msg = NoMessage
      /\ \A v \in Workers :
           worker[v].pc \in {"processing", "failing"} <=> worker[v].msg # NoMessage
  BY DEF PoolInv, TypeOK, Waiting
<1>3. ASSUME NEW id \in Ids
      PROVE  AtWorkers(worker', id) = AtWorkers(worker, id) - Is(worker[w].msg, id)
  <2>1. AtWorkers(worker', id)
          = AtWorkers(worker, id) - Is(worker[w].msg, id) + Is(Waiting.msg, id)
    BY <1>1, AtWorkersChange
  <2>2. Is(Waiting.msg, id) = 0
    BY <1>2, NoMessageIsNone
  <2>3. AtWorkers(worker, id) \in Nat /\ Is(worker[w].msg, id) \in Nat
    BY Sums DEF Is
  <2> QED BY <2>1, <2>2, <2>3
<1>4. \A v \in Workers : worker'[v] = IF v = w THEN Waiting ELSE worker[v]
  BY <1>1
<1>5. worker' \in [Workers -> Task]
  BY <1>1
<1> HIDE DEF Waiting
<1> QED BY <1>2, <1>3, <1>4, <1>5

LEMMA ProcessedStep ==
  ASSUME PoolInv, NEW w \in Workers, NEW ok \in BOOLEAN, Processed(w, ok)
  PROVE  PoolInv'
<1> DEFINE m == worker[w].msg
<1>0. worker \in [Workers -> Task] /\ m # NoMessage
  BY DEF PoolInv, TypeOK, Processed
<1>1. m \in Message /\ m.id \in Ids /\ m.id \notin acked
  BY <1>0, BusyAlone
<1>2. Finite' /\ Causes'
  BY DEF PoolInv, Finite, Causes, Processed, redis
<1>3. /\ main' = main /\ retry' = retry /\ dead' = dead /\ hand' = hand
      /\ channel' = channel /\ sent' = sent /\ upsets' = upsets /\ runs' = runs
  BY DEF Processed, redis
<1>4. CASE ok
  <2>1. worker' = [worker EXCEPT ![w] = Waiting] /\ acked' = acked \cup {m.id}
    BY <1>4 DEF Processed
  <2> HIDE DEF m
  <2>2. TypeOK'
    <3>1. acked' \subseteq Ids
      BY <1>1, <2>1 DEF PoolInv, TypeOK
    <3> QED BY <2>1, <3>1, PutDown DEF PoolInv, TypeOK, Processed, redis
  <2>3. Conserved'
    <3>1. ASSUME NEW id \in Ids
          PROVE  Occurrences(id)' = Occurrences(id) + Due(id)' - Due(id)
      <4>1. AtWorkers(worker', id) = AtWorkers(worker, id) - Is(m, id)
        BY <2>1, PutDown DEF m
      <4>2. Acknowledged(id)' = Acknowledged(id) + Is(m, id)
        BY <1>1, <2>1 DEF Acknowledged, Is
      <4>3. Due(id)' = Due(id) /\ Due(id) \in Nat /\ Is(m, id) \in Nat
        BY <1>3 DEF Due, Published, Is
      <4> QED BY <1>3, <4>1, <4>2, <4>3, Sums
    <3> QED BY <1>3, <3>1, Lossless
  <2>4. Tries'
    BY <1>3, <2>1, PutDown, TriesKept DEF Queued, Published
  <2> QED BY <1>2, <2>2, <2>3, <2>4 DEF PoolInv
<1>5. CASE ~ok
  <2> DEFINE t == [pc |-> "failing", msg |-> worker[w].msg]
  <2>1. worker' = [worker EXCEPT ![w].pc = "failing"] /\ acked' = acked
    BY <1>5 DEF Processed
  <2>2. /\ [worker EXCEPT ![w].pc = "failing"] = [worker EXCEPT ![w] = t]
        /\ t \in Task /\ t.pc = "failing" /\ t.msg = worker[w].msg
    BY <1>0, PcChange
  <2> HIDE DEF m, t
  <2>3. worker' = [worker EXCEPT ![w] = t]
    BY <2>1, <2>2
  <2>4. TypeOK'
    <3>1. worker' \in [Workers -> Task]
      BY <1>0, <2>2, <2>3
    <3>2. \A v \in Workers : worker'[v].pc \in {"processing", "failing"} <=> worker'[v].msg # NoMessage
      BY <1>0, <2>2, <2>3 DEF PoolInv, TypeOK, m
    <3> QED BY <2>1, <3>1, <3>2 DEF PoolInv, TypeOK, Processed, redis
  <2>5. Conserved'
    <3>1. ASSUME NEW id \in Ids
          PROVE  Occurrences(id)' = Occurrences(id) + Due(id)' - Due(id)
      <4>1. AtWorkers(worker', id) = AtWorkers(worker, id) - Is(worker[w].msg, id) + Is(t.msg, id)
        <5>1. worker \in [Workers -> Task] /\ t \in Task
          BY <1>0, <2>2
        <5> QED BY <2>3, <5>1, AtWorkersChange
      <4>2. Is(t.msg, id) = Is(worker[w].msg, id) /\ Is(worker[w].msg, id) \in Nat
        BY <2>2 DEF Is
      <4>3. Acknowledged(id)' = Acknowledged(id) /\ Due(id)' = Due(id) /\ Due(id) \in Nat
        BY <1>3, <2>1 DEF Due, Published, Acknowledged
      <4> QED BY <1>3, <4>1, <4>2, <4>3, Sums
    <3> QED BY <1>3, <3>1, Lossless
  <2>6. Tries'
    <3>1. \A v \in Workers : worker'[v].msg = worker[v].msg
      BY <1>0, <2>2, <2>3
    <3> QED BY <1>3, <3>1, TriesKept DEF Queued, Published
  <2> QED BY <1>2, <2>4, <2>5, <2>6 DEF PoolInv
<1> QED BY <1>4, <1>5

\* What handleFailure's enqueue does to the message at a worker, whether or not
\* the worker hears of it.
HandedBack(w) ==
  /\ worker[w].pc = "failing"
  /\ PutBack(Bumped(worker[w].msg))
  /\ worker' = [worker EXCEPT ![w] = Waiting]
  /\ upsets' \in 0 .. MaxUpsets /\ (upsets' = 0 => upsets = 0)
  /\ UNCHANGED <<hand, channel, exited, cancelled, sent, acked, runs>>

LEMMA HandedBackKeeps ==
  ASSUME PoolInv, NEW w \in Workers, HandedBack(w)
  PROVE  TypeOK' /\ Finite' /\ Conserved' /\ Tries'
<1> DEFINE m == worker[w].msg
           b == Bumped(m)
<1>1. m # NoMessage
  BY DEF PoolInv, TypeOK, HandedBack
<1>2. /\ m \in Message /\ m.id \in Ids /\ InSet(retry \cup dead, m.id) = 0
  BY <1>1, BusyAlone
<1>3. m.attempts <= MaxRetries /\ runs[m.id] = m.attempts + 1
  BY <1>1 DEF PoolInv, Tries, InTry
<1>4. b \in Message /\ b.id = m.id /\ b.attempts = m.attempts + 1 /\ m.attempts \in Nat
  BY <1>2, <1>3, RedisAssumption DEF Message, Bumped
<1>5. b \notin retry \cup dead
  BY <1>2, <1>4, Absence
<1>6. PutBack(b)
  BY DEF HandedBack
<1>a. \A id \in Ids : AtWorkers(worker', id) = AtWorkers(worker, id) - Is(m, id)
  BY PutDown DEF HandedBack
<1>b. main' = main /\ hand' = hand /\ channel' = channel /\ sent' = sent /\ acked' = acked
  BY DEF HandedBack, PutBack
<1> HIDE DEF m, b
<1>7. main' = main /\ retry' \cup dead' = (retry \cup dead) \cup {b}
  BY <1>6 DEF PutBack
<1>8. retry' \in SUBSET Message /\ dead' \in SUBSET Message
  BY <1>4, <1>6 DEF PutBack, PoolInv, TypeOK
<1>9. TypeOK'
  BY <1>7, <1>8, PutDown DEF PoolInv, TypeOK, HandedBack
<1>10. Finite'
  BY <1>6, FS_AddElement DEF PoolInv, Finite, PutBack
<1>11. Conserved'
  <2>1. ASSUME NEW id \in Ids
        PROVE  Occurrences(id)' = Occurrences(id) + Due(id)' - Due(id)
    <3>1. AtWorkers(worker', id) = AtWorkers(worker, id) - Is(m, id)
      BY <1>a
    <3>2. InSet(retry' \cup dead', id) = InSet(retry \cup dead, id) + Is(b, id)
      <4>1. InSet((retry \cup dead) \cup {b}, id) = InSet(retry \cup dead, id) + Is(b, id)
        BY <1>5, CountsTyped, InAdded
      <4> QED BY <1>7, <4>1, Zenon
    <3>3. Is(b, id) = Is(m, id) /\ Is(m, id) \in Nat
      BY <1>4 DEF Is
    <3>4. Acknowledged(id)' = Acknowledged(id) /\ Due(id)' = Due(id) /\ Due(id) \in Nat
      BY <1>b DEF Due, Published, Acknowledged
    <3>5. InList(main', id) = InList(main, id) /\ InList(hand', id) = InList(hand, id)
            /\ InList(channel', id) = InList(channel, id)
      BY <1>b
    <3>6. /\ Occurrences(id)
               = InList(main, id) + InSet(retry \cup dead, id) + InList(hand, id)
                   + InList(channel, id) + AtWorkers(worker, id) + Acknowledged(id)
          /\ Occurrences(id)'
               = InList(main', id) + InSet(retry' \cup dead', id) + InList(hand', id)
                   + InList(channel', id) + AtWorkers(worker', id) + Acknowledged(id)'
          /\ InList(main, id) \in Nat /\ InSet(retry \cup dead, id) \in Nat
          /\ InList(hand, id) \in Nat /\ InList(channel, id) \in Nat
          /\ AtWorkers(worker, id) \in Nat /\ Acknowledged(id) \in Nat
      BY Sums
    <3>7. Occurrences(id)' = Occurrences(id)
      BY <3>1, <3>2, <3>3, <3>4, <3>5, <3>6
    <3> QED BY <3>4, <3>6, <3>7
  <2> QED BY <2>1, Lossless DEF HandedBack
<1>12. Tries'
  <2>1. CASE b.attempts > MaxRetries
    <3>1. dead' = dead \cup {b} /\ retry' = retry
      BY <1>6, <2>1 DEF PutBack
    <3>2. Spent(b)
      BY <1>3, <1>4, <2>1, RedisAssumption DEF Spent
    <3>3. \A k \in dead' : Spent(k)'
      BY <3>1, <3>2 DEF PoolInv, Tries, Spent, HandedBack
    <3>4. Queued' = Queued
      BY <1>7, <3>1 DEF Queued, HandedBack
    <3> QED BY <3>3, <3>4, PutDown DEF PoolInv, Tries, Untried, InTry, Published, HandedBack
  <2>2. CASE ~(b.attempts > MaxRetries)
    <3>1. retry' = retry \cup {b} /\ dead' = dead
      BY <1>6, <2>2 DEF PutBack
    <3>2. Untried(b)
      BY <1>3, <1>4, <2>2, RedisAssumption DEF Untried
    <3>3. Queued' = Queued \cup {b}
      BY <1>7, <3>1 DEF Queued, HandedBack
    <3>4. \A k \in Queued' : Untried(k)'
      BY <3>2, <3>3 DEF PoolInv, Tries, Untried, HandedBack
    <3> QED BY <3>1, <3>4, PutDown DEF PoolInv, Tries, Spent, InTry, Published, HandedBack
  <2> QED BY <2>1, <2>2
<1> QED BY <1>9, <1>10, <1>11, <1>12

LEMMA HandleFailureStep ==
  ASSUME PoolInv, NEW w \in Workers, HandleFailure(w) PROVE PoolInv'
<1>1. HandedBack(w)
  BY DEF PoolInv, TypeOK, HandleFailure, HandedBack
<1>2. Causes'
  BY DEF PoolInv, Causes, HandleFailure
<1> QED BY <1>1, <1>2, HandedBackKeeps DEF PoolInv

\* The message is dropped: something went wrong, or there was a Stop.
LEMMA HandleFailureErrorStep ==
  ASSUME PoolInv, NEW w \in Workers, HandleFailureError(w) PROVE PoolInv'
<1>1. upsets' # 0 /\ upsets' \in 0 .. MaxUpsets
  BY PoolAssumption DEF PoolInv, TypeOK, Causes, HandleFailureError, Upset
<1>2. Causes'
  BY <1>1 DEF PoolInv, TypeOK, Causes, HandleFailureError, Upset
<1>3. CASE PutBack(Bumped(worker[w].msg))
  <2>1. HandedBack(w)
    BY <1>1, <1>3 DEF HandleFailureError, HandedBack
  <2> QED BY <1>2, <2>1, HandedBackKeeps DEF PoolInv
<1>4. CASE UNCHANGED redis
  <2> DEFINE m == worker[w].msg
  <2>1. worker' = [worker EXCEPT ![w] = Waiting]
    BY DEF HandleFailureError
  <2>2. /\ main' = main /\ retry' = retry /\ dead' = dead /\ hand' = hand
        /\ channel' = channel /\ sent' = sent /\ acked' = acked /\ runs' = runs
    BY <1>4 DEF HandleFailureError, redis
  <2>3. TypeOK' /\ Finite'
    BY <1>1, <2>1, <2>2, PutDown DEF PoolInv, TypeOK, Finite, HandleFailureError
  <2>4. Conserved'
    <3>1. ASSUME NEW id \in Ids
          PROVE  \E n \in Nat : Occurrences(id)' = Occurrences(id) - n
      <4>1. AtWorkers(worker', id) = AtWorkers(worker, id) - Is(m, id)
        BY <2>1, PutDown
      <4>2. Acknowledged(id)' = Acknowledged(id) /\ Is(m, id) \in Nat
        BY <2>2 DEF Acknowledged, Is
      <4> HIDE DEF m
      <4>3. Occurrences(id)' = Occurrences(id) - Is(m, id)
        BY <2>2, <4>1, <4>2, Sums
      <4> QED BY <4>2, <4>3
    <3> QED BY <1>1, <2>2, <3>1, Lossy
  <2>5. Tries'
    BY <2>1, <2>2, PutDown, TriesKept DEF Queued, Published
  <2> QED BY <1>2, <2>3, <2>4, <2>5 DEF PoolInv
<1> QED BY <1>3, <1>4 DEF HandleFailureError

-----------------------------------------------------------------------------
\* The promoter, Stop, and the next process.

LEMMA PromoteStep ==
  ASSUME PoolInv, Promote PROVE PoolInv'
<1>1. PICK s \in Batches(retry, RetryMoveBatch) :
        retry' = retry \ Members(s) /\ main' = main \o s
  BY DEF Promote
<1>2. /\ retry \in SUBSET Message /\ dead \in SUBSET Message /\ main \in Seq(Message)
  BY DEF PoolInv, TypeOK
<1>3. s \in Seq(Message) /\ Members(s) \subseteq retry
  BY <1>2, BatchIsList
<1>4. retry' \cup dead' = (retry \cup dead) \ Members(s)
  <2>1. dead \cap retry = {}
    BY <1>2, RedisAssumption DEF PoolInv, Tries, Queued, Untried, Spent, Message
  <2>2. dead' = dead
    BY DEF Promote
  <2> QED BY <1>1, <1>3, <2>1, <2>2
<1>5. main \o s \in Seq(Message) /\ Members(main \o s) \subseteq Members(main) \cup Members(s)
  BY <1>2, <1>3, ConcatProperties, MembersOf
<1>6. main' \in Seq(Message) /\ Members(main') \subseteq Members(main) \cup Members(s)
  BY <1>1, <1>5
<1>7. retry' \subseteq retry
  BY <1>1
<1>8. /\ dead' = dead /\ hand' = hand /\ channel' = channel /\ worker' = worker
      /\ exited' = exited /\ cancelled' = cancelled
      /\ sent' = sent /\ upsets' = upsets /\ acked' = acked /\ runs' = runs
  BY DEF Promote, pool
<1>9. TypeOK'
  BY <1>2, <1>6, <1>7, <1>8 DEF PoolInv, TypeOK
<1>10. Finite' /\ Causes'
  <2>1. IsFiniteSet(retry')
    BY <1>7, FS_Subset DEF PoolInv, Finite
  <2> QED BY <1>8, <2>1 DEF PoolInv, Finite, Causes
<1>11. Conserved'
  <2>1. ASSUME NEW id \in Ids
        PROVE  Occurrences(id)' = Occurrences(id) + Due(id)' - Due(id)
    <3>1. InList(main', id) = InList(main, id) + InList(s, id)
      <4>1. InList(main \o s, id) = InList(main, id) + InList(s, id)
        BY <1>2, <1>3, InConcat
      <4> QED BY <1>1, <4>1, Zenon
    <3>2. InSet(retry' \cup dead', id) = InSet(retry \cup dead, id) - InSet(Members(s), id)
      <4>1. Members(s) \in SUBSET (retry \cup dead) /\ IsFiniteSet(retry \cup dead)
        BY <1>3, CountsTyped
      <4>2. InSet((retry \cup dead) \ Members(s), id)
              = InSet(retry \cup dead, id) - InSet(Members(s), id)
        BY <4>1, InRemoved
      <4> QED BY <1>4, <4>2, Zenon
    <3>3. InSet(Members(s), id) = InList(s, id) /\ InList(s, id) \in Nat
      BY <1>2, <1>3, InBatch, IndicesFinite
    <3>4. Acknowledged(id)' = Acknowledged(id) /\ Due(id)' = Due(id) /\ Due(id) \in Nat
      BY <1>8 DEF Due, Published, Acknowledged
    <3>5. /\ InList(hand', id) = InList(hand, id) /\ InList(channel', id) = InList(channel, id)
          /\ AtWorkers(worker', id) = AtWorkers(worker, id)
      BY <1>8
    <3>6. /\ Occurrences(id)
               = InList(main, id) + InSet(retry \cup dead, id) + InList(hand, id)
                   + InList(channel, id) + AtWorkers(worker, id) + Acknowledged(id)
          /\ Occurrences(id)'
               = InList(main', id) + InSet(retry' \cup dead', id) + InList(hand', id)
                   + InList(channel', id) + AtWorkers(worker', id) + Acknowledged(id)'
          /\ InList(main, id) \in Nat /\ InSet(retry \cup dead, id) \in Nat
          /\ InList(hand, id) \in Nat /\ InList(channel, id) \in Nat
          /\ AtWorkers(worker, id) \in Nat /\ Acknowledged(id) \in Nat
      BY Sums
    <3>7. Occurrences(id)' = Occurrences(id)
      BY <3>1, <3>2, <3>3, <3>4, <3>5, <3>6
    <3> QED BY <3>4, <3>6, <3>7
  <2> QED BY <1>8, <2>1, Lossless
<1>12. Tries'
  <2>1. Queued' \subseteq Queued
    BY <1>3, <1>6, <1>7, <1>8 DEF Queued
  <2> QED BY <1>8, <2>1, TriesKept DEF Published
<1> QED BY <1>9, <1>10, <1>11, <1>12 DEF PoolInv

\* Steps that move no message.
LEMMA NothingMoves ==
  ASSUME PoolInv,
         UNCHANGED <<main, retry, dead, hand, channel, worker, sent, acked, runs>>,
         upsets' = 0 => upsets = 0
  PROVE  Finite' /\ Conserved' /\ Tries'
<1>1. ASSUME NEW id \in Ids
      PROVE  Occurrences(id)' = Occurrences(id) + Due(id)' - Due(id)
  <2>1. Occurrences(id)' = Occurrences(id) /\ Due(id)' = Due(id)
    BY DEF Occurrences, Due, Published
  <2>2. Occurrences(id) \in Nat /\ Due(id) \in Nat
    BY Sums DEF Due
  <2> QED BY <2>1, <2>2
<1>2. Tries'
  BY TriesKept DEF Queued, Published
<1> QED BY <1>1, <1>2, Lossless DEF PoolInv, Finite

LEMMA StutterStep ==
  ASSUME PoolInv, UNCHANGED vars PROVE PoolInv'
<1>1. Finite' /\ Conserved' /\ Tries'
  BY NothingMoves DEF vars, redis, pool
<1> QED BY <1>1 DEF PoolInv, TypeOK, Causes, vars, redis, pool

\* Something went wrong elsewhere.
LEMMA UpsetStep ==
  ASSUME PoolInv, UNCHANGED <<redis, pool, sent, acked, runs>>,
         upsets' \in {upsets, upsets + 1}, upsets' \in 0 .. MaxUpsets
  PROVE  PoolInv'
<1>1. upsets \in Nat /\ (upsets' = 0 => upsets = 0) /\ (upsets > 0 => upsets' > 0)
  BY PoolAssumption DEF PoolInv, TypeOK
<1>2. Finite' /\ Conserved' /\ Tries'
  BY <1>1, NothingMoves DEF redis, pool
<1> QED BY <1>1, <1>2 DEF PoolInv, TypeOK, Causes, redis, pool

LEMMA PromoterExitStep ==
  ASSUME PoolInv, PromoterExit PROVE PoolInv'
<1>1. Finite' /\ Conserved' /\ Tries'
  BY NothingMoves DEF PromoterExit, redis
<1> QED BY <1>1 DEF PoolInv, TypeOK, Causes, PromoterExit, redis

LEMMA StopStep ==
  ASSUME PoolInv, Stop PROVE PoolInv'
<1>1. upsets' # 0 /\ upsets' \in 0 .. MaxUpsets /\ upsets' > 0
  BY PoolAssumption DEF PoolInv, TypeOK, Stop, Upset
<1>2. Finite' /\ Conserved' /\ Tries'
  BY <1>1, NothingMoves DEF Stop, redis
<1> QED BY <1>1, <1>2 DEF PoolInv, TypeOK, Causes, Stop, redis

\* What the process held is gone.
LEMMA FreshKeeps ==
  ASSUME PoolInv, Fresh, upsets' # 0, upsets' \in 0 .. MaxUpsets,
         UNCHANGED <<redis, sent, acked, runs>>
  PROVE  PoolInv'
<1>1. /\ hand' = <<>> /\ channel' = <<>> /\ worker' = [w \in Workers |-> Waiting]
      /\ exited' = {} /\ cancelled' = FALSE
      /\ main' = main /\ retry' = retry /\ dead' = dead
      /\ sent' = sent /\ acked' = acked /\ runs' = runs
  BY DEF Fresh, redis
<1>2. TypeOK'
  <2>1. /\ hand' \in Seq(Message) /\ Len(hand') <= 1
        /\ channel' \in Seq(Message) /\ Len(channel') <= BufferSize
    BY <1>1, PoolAssumption
  <2>2. worker' \in [Workers -> Task]
    BY <1>1, NoMessageIsNone
  <2>3. \A w \in Workers : worker'[w].pc \in {"processing", "failing"} <=> worker'[w].msg # NoMessage
    BY <1>1 DEF Waiting
  <2> QED BY <1>1, <2>1, <2>2, <2>3 DEF PoolInv, TypeOK
<1>3. Finite' /\ Causes'
  BY <1>1 DEF PoolInv, Finite, Causes
<1>4. Conserved'
  <2>1. ASSUME NEW id \in Ids
        PROVE  \E n \in Nat : Occurrences(id)' = Occurrences(id) - n
    <3> DEFINE gone == InList(hand, id) + InList(channel, id) + AtWorkers(worker, id)
    <3>1. InList(hand', id) = 0 /\ InList(channel', id) = 0
      BY <1>1, InEmpty
    <3>2. AtWorkers(worker', id) = 0
      BY <1>1, NobodyBusy
    <3>3. Acknowledged(id)' = Acknowledged(id)
      BY <1>1 DEF Acknowledged
    <3>4. /\ InList(main', id) = InList(main, id)
          /\ InSet(retry' \cup dead', id) = InSet(retry \cup dead, id)
      BY <1>1
    <3>5. /\ Occurrences(id)
               = InList(main, id) + InSet(retry \cup dead, id) + InList(hand, id)
                   + InList(channel, id) + AtWorkers(worker, id) + Acknowledged(id)
          /\ Occurrences(id)'
               = InList(main', id) + InSet(retry' \cup dead', id) + InList(hand', id)
                   + InList(channel', id) + AtWorkers(worker', id) + Acknowledged(id)'
          /\ InList(main, id) \in Nat /\ InSet(retry \cup dead, id) \in Nat
          /\ InList(hand, id) \in Nat /\ InList(channel, id) \in Nat
          /\ AtWorkers(worker, id) \in Nat /\ Acknowledged(id) \in Nat
      BY Sums
    <3>6. Occurrences(id)' = Occurrences(id) - gone /\ gone \in Nat
      BY <3>1, <3>2, <3>3, <3>4, <3>5
    <3> QED BY <3>6
  <2> QED BY <1>1, <2>1, Lossy
<1>5. Tries'
  <2>1. Members(hand') = {} /\ Members(channel') = {}
    BY <1>1, MembersOf
  <2>2. \A w \in Workers : worker'[w].msg = NoMessage
    BY <1>1 DEF Waiting
  <2> QED BY <1>1, <2>1, <2>2, TriesKept DEF Queued, Published
<1> QED BY <1>2, <1>3, <1>4, <1>5 DEF PoolInv

LEMMA RestartStep ==
  ASSUME PoolInv, Restart PROVE PoolInv'
<1>1. upsets' # 0 /\ upsets' \in 0 .. MaxUpsets
  BY DEF PoolInv, TypeOK, Causes, Restart, Stopped
<1> QED BY <1>1, FreshKeeps DEF Restart

LEMMA CrashStep ==
  ASSUME PoolInv, Crash PROVE PoolInv'
<1>1. upsets' # 0 /\ upsets' \in 0 .. MaxUpsets
  BY PoolAssumption DEF PoolInv, TypeOK, Crash, Upset
<1> QED BY <1>1, FreshKeeps DEF Crash

-----------------------------------------------------------------------------
LEMMA InitInv == Init => PoolInv
<1> SUFFICES ASSUME Init PROVE PoolInv
  OBVIOUS
<1>1. /\ main = <<>> /\ retry = {} /\ dead = {} /\ hand = <<>> /\ channel = <<>>
      /\ worker = [w \in Workers |-> Waiting] /\ exited = {} /\ cancelled = FALSE
      /\ sent = [j \in Jobs |-> 0] /\ upsets = 0 /\ acked = {} /\ runs = [i \in Ids |-> 0]
  BY DEF Init
<1>2. TypeOK
  <2>1. worker \in [Workers -> Task]
    BY <1>1, NoMessageIsNone
  <2>2. \A w \in Workers : worker[w].pc \in {"processing", "failing"} <=> worker[w].msg # NoMessage
    BY <1>1 DEF Waiting
  <2>3. /\ main \in Seq(Message) /\ hand \in Seq(Message) /\ channel \in Seq(Message)
        /\ Len(hand) <= 1 /\ Len(channel) <= BufferSize
    BY <1>1, PoolAssumption
  <2>4. sent \in [Jobs -> 0 .. MaxSent] /\ runs \in [Ids -> Nat] /\ upsets \in 0 .. MaxUpsets
    BY <1>1, PoolAssumption, RedisAssumption
  <2> QED BY <1>1, <2>1, <2>2, <2>3, <2>4 DEF TypeOK
<1>3. Finite /\ Causes
  BY <1>1, FS_EmptySet DEF Finite, Causes
<1>4. Conserved
  <2>1. ASSUME NEW id \in Ids PROVE Occurrences(id) = 0 /\ Due(id) = 0
    <3>1. id \notin Published
      BY <1>1, RedisAssumption DEF Published, Ids
    <3>2. InList(main, id) = 0 /\ InList(hand, id) = 0 /\ InList(channel, id) = 0
      BY <1>1, InEmpty
    <3>3. AtWorkers(worker, id) = 0
      BY <1>1, NobodyBusy
    <3>4. InSet(retry \cup dead, id) = 0
      <4>1. Of(retry \cup dead, id) = {}
        BY <1>1 DEF Of
      <4> QED BY <4>1, FS_EmptySet DEF InSet
    <3>5. Acknowledged(id) = 0
      BY <1>1 DEF Acknowledged
    <3>6. Occurrences(id)
            = InList(main, id) + InSet(retry \cup dead, id) + InList(hand, id)
                + InList(channel, id) + AtWorkers(worker, id) + Acknowledged(id)
      BY OccurrencesSum
    <3> QED BY <3>1, <3>2, <3>3, <3>4, <3>5, <3>6 DEF Due
  <2> QED BY <2>1 DEF Conserved
<1>5. Tries
  <2>1. Queued = {}
    BY <1>1, MembersOf DEF Queued
  <2>2. \A w \in Workers : worker[w].msg = NoMessage
    BY <1>1 DEF Waiting
  <2> QED BY <1>1, <2>1, <2>2, RedisAssumption DEF Tries
<1> QED BY <1>2, <1>3, <1>4, <1>5 DEF PoolInv

LEMMA StepInv == PoolInv /\ [Next]_vars => PoolInv'
<1> SUFFICES ASSUME PoolInv, [Next]_vars PROVE PoolInv'
  OBVIOUS
<1>1. CASE \E j \in Jobs : Enqueue(j)
  BY <1>1, EnqueueStep
<1>2. CASE Dispatcher
  <2>1. CASE DequeueTimeout
    BY <2>1, StutterStep DEF DequeueTimeout
  <2> QED
    BY <1>2, <2>1, DequeueStep, DequeueErrorStep, DispatchStep, DispatcherExitStep
    DEF Dispatcher
<1>3. CASE \E w \in Workers : WorkerLoop(w)
  BY <1>3, TakeStep, WorkerExitStep, ProcessedStep, HandleFailureStep, HandleFailureErrorStep
  DEF WorkerLoop
<1>4. CASE Promote \/ PromoterExit
  BY <1>4, PromoteStep, PromoterExitStep
<1>5. CASE Stop \/ Restart \/ Crash
  BY <1>5, StopStep, RestartStep, CrashStep
<1>6. CASE UNCHANGED vars
  BY <1>6, StutterStep
<1> QED BY <1>1, <1>2, <1>3, <1>4, <1>5, <1>6 DEF Next

LEMMA Invariance == Spec => []PoolInv
BY InitInv, StepInv, PTL DEF Spec

\* As long as nothing went wrong, a message that no worker acknowledged can be
\* pointed at.
LEMMA Somewhere ==
  ASSUME PoolInv, upsets = 0, NEW id \in Published, id \notin acked
  PROVE  \/ \E m \in retry \cup dead \cup Members(main) \cup Members(hand) \cup Members(channel) :
              m.id = id
         \/ \E w \in Workers : worker[w].msg.id = id
<1>1. Cardinality({}) = 0
  BY FS_EmptySet
<1>2. /\ InList(main, id) # 0 => Indices(main, id) # {}
      /\ InList(hand, id) # 0 => Indices(hand, id) # {}
      /\ InList(channel, id) # 0 => Indices(channel, id) # {}
      /\ InSet(retry \cup dead, id) # 0 => Of(retry \cup dead, id) # {}
      /\ AtWorkers(worker, id) # 0 => Bearers(worker, id) # {}
  BY <1>1 DEF InList, InSet, AtWorkers
<1>3. /\ \A s : Indices(s, id) # {} => \E m \in Members(s) : m.id = id
      /\ Of(retry \cup dead, id) # {} => \E m \in retry \cup dead : m.id = id
      /\ Bearers(worker, id) # {} => \E w \in Workers : worker[w].msg.id = id
  BY DEF Indices, Members, Of, Bearers
<1>4. id \in Ids /\ Occurrences(id) = 1 /\ Acknowledged(id) = 0
  BY DEF PoolInv, Conserved, Due, Published, Acknowledged
<1>5. Occurrences(id) = InList(main, id) + InSet(retry \cup dead, id) + InList(hand, id)
                          + InList(channel, id) + AtWorkers(worker, id) + Acknowledged(id)
  BY Sums
<1>6. \/ InList(main, id) # 0 \/ InList(hand, id) # 0 \/ InList(channel, id) # 0
      \/ InSet(retry \cup dead, id) # 0 \/ AtWorkers(worker, id) # 0
  BY <1>4, <1>5
<1> QED BY <1>2, <1>3, <1>6

\* The variables keep their types: the channel never holds more than its
\* capacity and the dispatcher never more than one message, and a worker has a
\* message exactly while it processes it or handles its failure.
THEOREM TypeCorrect == Spec => []TypeOK
<1>1. PoolInv => TypeOK
  BY DEF PoolInv
<1> QED BY <1>1, Invariance, PTL

LEMMA Promises ==
  ASSUME PoolInv
  PROVE  AtMostOnePlace /\ NothingLost /\ RetryLimit
<1>1. AtMostOnePlace
  <2> SUFFICES ASSUME NEW id \in Ids PROVE Occurrences(id) <= 1
    BY DEF AtMostOnePlace
  <2>1. Occurrences(id) \in Nat
    BY Sums
  <2>2. Occurrences(id) <= Due(id)
    BY DEF PoolInv, Conserved
  <2> QED BY <2>1, <2>2 DEF Due
<1>2. NothingLost
  <2>1. \A id \in Published : id \in Ids /\ Due(id) = 1
    BY DEF Published, Due
  <2> QED BY <2>1 DEF PoolInv, Conserved, NothingLost
<1>3. RetryLimit
  BY DEF PoolInv, Tries, Queued, Untried, Spent, RetryLimit
<1> QED BY <1>1, <1>2, <1>3

\* For any number of workers, jobs and faults: no message is ever in two
\* places, through retries, lost replies, stops, crashes and restarts.
THEOREM NeverTwice == Spec => []AtMostOnePlace
BY Promises, Invariance, PTL

\* Until something goes wrong around the pool, every published message is in
\* exactly one of the places.
THEOREM NeverLost == Spec => []NothingLost
BY Promises, Invariance, PTL

\* ProcessJob runs MaxRetries + 1 times at most for a message whatever the
\* faults, exactly as often for one that is dead-lettered, and the attempts of a
\* queued message are the runs of it so far.
THEOREM RetriesLimited == Spec => []RetryLimit
BY Promises, Invariance, PTL

-----------------------------------------------------------------------------
(***************************************************************************)
(* The life of a message, MessageLife.  By the invariant the places of a   *)
(* message exclude one another, so its life is known from any of them; a   *)
(* step then moves one message on, loses some, or moves none.              *)
(***************************************************************************)
Buried(id) == \E m \in dead : m.id = id
Tried(id) == \E w \in Workers : worker[w].msg.id = id
Waits(id) == \E m \in Queued : m.id = id

LifeFacts ==
  \A id \in Ids :
    /\ Life(id) = "unsent" <=> id \notin Published
    /\ Life(id) = "acked" <=> id \in acked
    /\ Life(id) = "dead" <=> Buried(id)
    /\ Life(id) = "tried" <=> Tried(id)
    /\ Life(id) = "waiting" <=> Waits(id)
    /\ Life(id) \in {"unsent", "acked", "dead", "tried", "waiting", "lost"}

\* A message that is somewhere is counted there.
LEMMA Presence ==
  ASSUME PoolInv, NEW id \in Ids
  PROVE  /\ Buried(id) => InSet(retry \cup dead, id) >= 1
         /\ Tried(id) => AtWorkers(worker, id) >= 1
         /\ Waits(id) => \/ InList(main, id) >= 1 \/ InList(hand, id) >= 1
                         \/ InList(channel, id) >= 1 \/ InSet(retry \cup dead, id) >= 1
<1>1. \A n \in Nat : n # 0 => n >= 1
  OBVIOUS
<1> QED
  BY <1>1, Absence, CountsTyped DEF Buried, Tried, Waits, Queued

LEMMA Apart ==
  ASSUME PoolInv, NEW id \in Ids
  PROVE  /\ id \in acked => id \in Published /\ ~Buried(id) /\ ~Tried(id) /\ ~Waits(id)
         /\ Buried(id) => id \in Published /\ ~Tried(id) /\ ~Waits(id)
         /\ Tried(id) => id \in Published /\ ~Waits(id)
         /\ Waits(id) => id \in Published
<1>1. InList(main, id) + InSet(retry \cup dead, id) + InList(hand, id)
        + InList(channel, id) + AtWorkers(worker, id) + Acknowledged(id) <= Due(id)
  BY OccurrencesSum DEF PoolInv, Conserved
<1>2. /\ InList(main, id) \in Nat /\ InSet(retry \cup dead, id) \in Nat
      /\ InList(hand, id) \in Nat /\ InList(channel, id) \in Nat
      /\ AtWorkers(worker, id) \in Nat
      /\ Acknowledged(id) \in {0, 1} /\ Due(id) \in {0, 1}
  BY CountsTyped
<1>3. (Due(id) = 1 => id \in Published) /\ (id \in acked => Acknowledged(id) = 1)
  BY DEF Due, Acknowledged
<1>4. ~(Buried(id) /\ Waits(id))
  <2> SUFFICES ASSUME NEW d \in dead, d.id = id, NEW m \in Queued, m.id = id PROVE FALSE
    BY DEF Buried, Waits
  <2>1. runs[id] = d.attempts /\ d.attempts = MaxRetries + 1
    BY DEF PoolInv, Tries, Spent
  <2>2. runs[id] = m.attempts /\ m.attempts <= MaxRetries
    BY DEF PoolInv, Tries, Untried
  <2> QED BY <2>1, <2>2, RedisAssumption
<1>5. ASSUME id \in acked PROVE id \in Published /\ ~Buried(id) /\ ~Tried(id) /\ ~Waits(id)
  <2>1. /\ InList(main, id) = 0 /\ InSet(retry \cup dead, id) = 0 /\ InList(hand, id) = 0
        /\ InList(channel, id) = 0 /\ AtWorkers(worker, id) = 0 /\ Due(id) = 1
    <3>1. Acknowledged(id) = 1
      BY <1>3, <1>5
    <3> QED BY <1>1, <1>2, <3>1
  <2> QED BY <1>3, <2>1, Presence
<1>6. ASSUME Buried(id) PROVE id \in Published /\ ~Tried(id)
  <2>1. AtWorkers(worker, id) = 0 /\ Due(id) = 1
    <3>1. InSet(retry \cup dead, id) >= 1
      BY <1>6, Presence
    <3> QED BY <1>1, <1>2, <3>1
  <2> QED BY <1>3, <2>1, Presence
<1>7. ASSUME Tried(id) PROVE id \in Published /\ ~Waits(id)
  <2>1. /\ InList(main, id) = 0 /\ InSet(retry \cup dead, id) = 0 /\ InList(hand, id) = 0
        /\ InList(channel, id) = 0 /\ Due(id) = 1
    BY <1>1, <1>2, <1>7, Presence
  <2> QED BY <1>3, <2>1, Presence
<1>8. ASSUME Waits(id) PROVE id \in Published
  <2>1. Due(id) = 1
    <3>1. \/ InList(main, id) >= 1 \/ InList(hand, id) >= 1
          \/ InList(channel, id) >= 1 \/ InSet(retry \cup dead, id) >= 1
      BY <1>8, Presence
    <3> QED BY <1>1, <1>2, <3>1
  <2> QED BY <1>3, <2>1
<1> QED BY <1>4, <1>5, <1>6, <1>7, <1>8

LEMMA LifeIs == PoolInv => LifeFacts
<1> SUFFICES ASSUME PoolInv, NEW id \in Ids
             PROVE  /\ Life(id) = "unsent" <=> id \notin Published
                    /\ Life(id) = "acked" <=> id \in acked
                    /\ Life(id) = "dead" <=> Buried(id)
                    /\ Life(id) = "tried" <=> Tried(id)
                    /\ Life(id) = "waiting" <=> Waits(id)
                    /\ Life(id) \in {"unsent", "acked", "dead", "tried", "waiting", "lost"}
  BY DEF LifeFacts
<1>1. Life(id) = IF id \notin Published THEN "unsent"
                 ELSE IF id \in acked THEN "acked"
                 ELSE IF Buried(id) THEN "dead"
                 ELSE IF Tried(id) THEN "tried"
                 ELSE IF Waits(id) THEN "waiting" ELSE "lost"
  BY Zenon DEF Life, Buried, Tried, Waits, Queued
<1> QED BY <1>1, Apart

LEMMA LifeNext == PoolInv' => LifeFacts'
BY LifeIs, PTL

\* A message about which nothing changed lives on as it did.
LEMMA LivesOn ==
  ASSUME PoolInv, PoolInv', NEW id \in Ids,
         id \in Published' <=> id \in Published, id \in acked' <=> id \in acked,
         Buried(id)' <=> Buried(id), Tried(id)' <=> Tried(id), Waits(id)' <=> Waits(id)
  PROVE  Life(id)' = Life(id)
<1>1. LifeFacts /\ LifeFacts'
  BY LifeIs, LifeNext
<1> QED BY <1>1 DEF LifeFacts

\* One message moves on, and the others live on.
LEMMA Moves ==
  ASSUME NEW id \in Ids, NEW from, Life(id) \in from,
         \A k \in Ids \ {id} : Life(k)' = Life(k)
  PROVE  Lives!Become({id}, from, Life(id)')
<1>1. [k \in Ids |-> Life(k)]' = [k \in Ids |-> Life(k)']
  OBVIOUS
<1>2. [k \in Ids |-> Life(k)'] = [k \in Ids |-> IF k \in {id} THEN Life(id)' ELSE [i \in Ids |-> Life(i)][k]]
  OBVIOUS
<1> QED
  BY <1>1, <1>2 DEF Lives!Become, Lives!Ids, Ids

\* A step that leaves every message where it is.
LEMMA Stays ==
  ASSUME PoolInv, PoolInv', runs' = runs, upsets' = upsets, \A k \in Ids : Life(k)' = Life(k)
  PROVE  UNCHANGED Lives!progress
BY DEF Lives!progress

\* A step after which only a fault can be responsible.
LEMMA Loses ==
  ASSUME PoolInv, PoolInv', runs' = runs, upsets' > 0,
         sent' = sent, acked' = acked, dead' = dead, Queued' \subseteq Queued,
         \A w \in Workers : worker'[w].msg \in {worker[w].msg, NoMessage}
  PROVE  Lives!Next
<1> DEFINE S == {id \in Ids : Life(id)' # Life(id)}
<1>1. LifeFacts /\ LifeFacts'
  BY LifeIs, LifeNext
<1>2. ASSUME NEW id \in Ids
      PROVE  Life(id)' # Life(id) => Life(id) \in {"waiting", "tried"} /\ Life(id)' = "lost"
  <2>1. (id \in Published' <=> id \in Published) /\ (Buried(id)' <=> Buried(id))
    BY DEF Published, Buried
  <2>2. Waits(id)' => Waits(id)
    BY DEF Waits
  <2>3. NoMessage.id # id
    BY RedisAssumption DEF Ids, NoMessage
  <2>4. Tried(id)' => Tried(id)
    BY <2>3 DEF Tried
  <2> QED BY <1>1, <2>1, <2>2, <2>4 DEF LifeFacts
<1>3. S \in SUBSET Lives!Ids
  BY DEF Lives!Ids, Ids
<1>4. Lives!Become(S, {"waiting", "tried"}, "lost")
  <2>1. \A id \in S : [k \in Ids |-> Life(k)][id] \in {"waiting", "tried"}
    BY <1>2
  <2>2. [k \in Ids |-> Life(k)]' = [k \in Ids |-> Life(k)']
    OBVIOUS
  <2>3. [k \in Ids |-> Life(k)'] = [k \in Ids |-> IF k \in S THEN "lost" ELSE [i \in Ids |-> Life(i)][k]]
    BY <1>2
  <2> HIDE DEF S
  <2> QED BY <2>1, <2>2, <2>3 DEF Lives!Become, Lives!Ids, Ids
<1> HIDE DEF S
<1>5. Lives!Fault(S)
  BY <1>4 DEF Lives!Fault
<1> QED BY <1>3, <1>5 DEF Lives!Next

\* What exactly the lists a step makes have.
LEMMA MembersAre ==
  /\ \A s \in Seq(Message), t \in Seq(Message) : Members(s \o t) = Members(s) \cup Members(t)
  /\ \A s \in Seq(Message), m \in Message : Members(Append(s, m)) = Members(s) \cup {m}
  /\ \A s \in Seq(Message) : s # <<>> => Members(s) = {Head(s)} \cup Members(Tail(s))
<1>1. ASSUME NEW s \in Seq(Message), NEW t \in Seq(Message)
      PROVE  Members(s \o t) = Members(s) \cup Members(t)
  <2>1. /\ DOMAIN s = 1 .. Len(s) /\ DOMAIN t = 1 .. Len(t)
        /\ DOMAIN (s \o t) = 1 .. Len(s) + Len(t)
        /\ Len(s) \in Nat /\ Len(t) \in Nat
        /\ \A i \in 1 .. Len(s) + Len(t) :
             (s \o t)[i] = IF i <= Len(s) THEN s[i] ELSE t[i - Len(s)]
    BY ConcatProperties, LenProperties
  <2>2. ASSUME NEW i \in 1 .. Len(s) PROVE s[i] \in Members(s \o t)
    <3>1. i \in DOMAIN (s \o t) /\ (s \o t)[i] = s[i]
      BY <2>1
    <3> QED BY <3>1 DEF Members
  <2>3. ASSUME NEW i \in 1 .. Len(t) PROVE t[i] \in Members(s \o t)
    <3>1. i + Len(s) \in DOMAIN (s \o t) /\ (s \o t)[i + Len(s)] = t[i]
      BY <2>1
    <3> QED BY <3>1 DEF Members
  <2>4. Members(s) \subseteq Members(s \o t) /\ Members(t) \subseteq Members(s \o t)
    BY <2>1, <2>2, <2>3 DEF Members
  <2> QED BY <2>4, MembersOf
<1>2. ASSUME NEW s \in Seq(Message), NEW m \in Message
      PROVE  Members(Append(s, m)) = Members(s) \cup {m}
  <2>1. <<m>> \in Seq(Message) /\ Append(s, m) = s \o <<m>>
    BY AppendIsConcat
  <2>2. Members(s \o <<m>>) = Members(s) \cup Members(<<m>>)
    BY <1>1, <2>1
  <2>3. Members(<<m>>) = {m}
    BY MembersOf
  <2> QED BY <2>1, <2>2, <2>3, Zenon
<1>3. ASSUME NEW s \in Seq(Message), s # <<>>
      PROVE  Members(s) = {Head(s)} \cup Members(Tail(s))
  <2>1. <<Head(s)>> \in Seq(Message) /\ Tail(s) \in Seq(Message) /\ s = <<Head(s)>> \o Tail(s)
    BY <1>3, HeadAndTail
  <2>2. Members(<<Head(s)>> \o Tail(s)) = Members(<<Head(s)>>) \cup Members(Tail(s))
    BY <1>1, <2>1
  <2> QED BY <2>1, <2>2, MembersOf, Zenon
<1> QED BY <1>1, <1>2, <1>3

\* A step that may move messages between the places where they wait, only.
LEMMA Waited ==
  ASSUME PoolInv, PoolInv', UNCHANGED <<sent, upsets, acked, runs, dead>>,
         Queued' = Queued, \A w \in Workers : worker'[w].msg = worker[w].msg
  PROVE  UNCHANGED Lives!progress
<1>1. ASSUME NEW id \in Ids PROVE Life(id)' = Life(id)
  <2>1. /\ id \in Published' <=> id \in Published
        /\ id \in acked' <=> id \in acked
        /\ Buried(id)' <=> Buried(id)
    BY DEF Published, Buried
  <2>2. Waits(id)' <=> Waits(id)
    BY DEF Waits
  <2>3. Tried(id)' <=> Tried(id)
    BY DEF Tried
  <2> QED BY <2>1, <2>2, <2>3, LivesOn
<1> QED BY <1>1, Stays

LEMMA PublishLives ==
  ASSUME PoolInv, PoolInv', NEW j \in Jobs, Push(j), upsets' \in {upsets, upsets + 1}
  PROVE  Lives!Next
<1>0. <<j, sent[j] + 1>> \in Ids
  BY RedisAssumption DEF PoolInv, TypeOK, Push, Ids
<1> PICK new \in Ids : new = <<j, sent[j] + 1>>
  BY <1>0
<1> DEFINE m == NewMessage(new)
<1>1. m \in Message /\ m.id = new
  BY RedisAssumption DEF Message, NewMessage
<1>2. main \in Seq(Message) /\ main' = Append(main, m)
  BY DEF PoolInv, TypeOK, Push, RPush
<1>3. \A id \in Ids : id \in Published' <=> id \in Published \/ id = new
  BY DEF PoolInv, TypeOK, Push, Published, Ids
<1>4. new \notin Published
  BY DEF PoolInv, TypeOK, Published
<1> HIDE DEF m
<1>5. Queued' = Queued \cup {m}
  <2>1. Members(main') = Members(main) \cup {m}
    BY <1>1, <1>2, MembersAre
  <2> QED BY <2>1 DEF Push, pool, Queued
<1>6. LifeFacts /\ LifeFacts'
  BY LifeIs, LifeNext
<1>7. ASSUME NEW id \in Ids \ {new} PROVE Life(id)' = Life(id)
  <2>1. /\ id \in Published' <=> id \in Published
        /\ id \in acked' <=> id \in acked
    BY <1>3 DEF Push
  <2>2. (Buried(id)' <=> Buried(id)) /\ (Tried(id)' <=> Tried(id))
    BY DEF Push, pool, Buried, Tried
  <2>3. Waits(id)' <=> Waits(id)
    BY <1>1, <1>5 DEF Waits
  <2> QED BY <2>1, <2>2, <2>3, LivesOn
<1>8. Life(new) \in {"unsent"} /\ Life(new)' = "waiting"
  <2>1. Waits(new)'
    BY <1>1, <1>5 DEF Waits
  <2> QED BY <1>4, <1>6, <2>1 DEF LifeFacts
<1>9. Lives!Become({new}, {"unsent"}, Life(new)')
  BY <1>7, <1>8, Moves
<1>10. Lives!Publish(new)
  BY <1>8, <1>9 DEF Push, Lives!Publish
<1>11. upsets > 0 => upsets' > 0
  BY PoolAssumption DEF PoolInv, TypeOK
<1>12. new \in Lives!Ids
  BY DEF Lives!Ids, Ids
<1> QED BY <1>10, <1>11, <1>12 DEF Lives!Next

LEMMA TakeLives ==
  ASSUME PoolInv, PoolInv', NEW w \in Workers, Take(w)
  PROVE  Lives!Next
<1> DEFINE m == Head(channel)
<1>1. /\ channel \in Seq(Message) /\ channel # <<>> /\ channel' = Tail(channel)
      /\ worker \in [Workers -> Task] /\ worker[w].msg = NoMessage
      /\ worker' = [worker EXCEPT ![w] = [pc |-> "processing", msg |-> m]]
      /\ runs \in [Ids -> Nat] /\ runs' = [runs EXCEPT ![m.id] = @ + 1]
  BY DEF PoolInv, TypeOK, Task, Take
<1>2. /\ m \in Message /\ m.id \in Ids
      /\ Members(channel) = {m} \cup Members(channel')
  BY <1>1, HeadAlone, MembersAre
<1> PICK id \in Ids : id = m.id
  BY <1>2
<1> HIDE DEF m
<1>3. /\ main' = main /\ retry' = retry /\ dead' = dead /\ hand' = hand
      /\ sent' = sent /\ acked' = acked /\ upsets' = upsets
  BY DEF Take, redis
<1>4. Queued = Queued' \cup {m}
  BY <1>2, <1>3 DEF Queued
<1>5. \A v \in Workers : worker'[v].msg = IF v = w THEN m ELSE worker[v].msg
  BY <1>1
<1>6. LifeFacts /\ LifeFacts'
  BY LifeIs, LifeNext
<1>7. ASSUME NEW k \in Ids \ {id} PROVE Life(k)' = Life(k)
  <2>1. /\ k \in Published' <=> k \in Published
        /\ k \in acked' <=> k \in acked
        /\ Buried(k)' <=> Buried(k)
    BY <1>3 DEF Published, Buried
  <2>2. Tried(k)' <=> Tried(k)
    <3>1. NoMessage.id # k
      BY RedisAssumption DEF Ids, NoMessage
    <3> QED BY <1>1, <1>5, <3>1 DEF Tried
  <2>3. Waits(k)' <=> Waits(k)
    BY <1>4 DEF Waits
  <2> QED BY <2>1, <2>2, <2>3, LivesOn
<1>8. Life(id) \in {"waiting"} /\ Life(id)' = "tried"
  <2>1. Waits(id)
    BY <1>4 DEF Waits
  <2>2. Tried(id)'
    BY <1>5 DEF Tried
  <2> QED BY <1>2, <1>6, <2>1, <2>2 DEF LifeFacts
<1>9. Lives!Become({id}, {"waiting"}, Life(id)')
  BY <1>2, <1>7, <1>8, Moves
<1>10. runs[id] <= MaxRetries
  <2>1. Untried(m)
    BY <1>4 DEF PoolInv, Tries
  <2> QED BY <2>1 DEF Untried
<1>11. Lives!Try(id)
  BY <1>1, <1>8, <1>9, <1>10 DEF Lives!Try
<1>12. id \in Lives!Ids
  BY <1>2 DEF Lives!Ids, Ids
<1> QED BY <1>3, <1>11, <1>12 DEF Lives!Next

\* The message a worker puts down was tried, and nothing else ends with it.
LEMMA PutDownLives ==
  ASSUME PoolInv, PoolInv', NEW w \in Workers, worker[w].msg # NoMessage,
         worker' = [worker EXCEPT ![w] = Waiting],
         NEW id \in Ids, id = worker[w].msg.id
  PROVE  /\ Life(id) \in {"tried"}
         /\ \A k \in Ids \ {id} : Tried(k)' <=> Tried(k)
<1>1. Tried(id)
  BY DEF Tried
<1>2. worker \in [Workers -> Task]
  BY DEF PoolInv, TypeOK
<1>3. \A v \in Workers : worker'[v].msg = IF v = w THEN NoMessage ELSE worker[v].msg
  BY <1>2 DEF Waiting
<1>4. ASSUME NEW k \in Ids \ {id} PROVE Tried(k)' <=> Tried(k)
  <2>1. NoMessage.id # k
    BY RedisAssumption DEF Ids, NoMessage
  <2> QED BY <1>3, <2>1 DEF Tried
<1> QED BY <1>1, <1>4, LifeIs DEF LifeFacts

LEMMA ProcessedLives ==
  ASSUME PoolInv, PoolInv', NEW w \in Workers, NEW ok \in BOOLEAN, Processed(w, ok)
  PROVE  [Lives!Next]_(Lives!progress)
<1>1. /\ worker \in [Workers -> Task] /\ worker[w].msg # NoMessage
      /\ main' = main /\ retry' = retry /\ dead' = dead /\ hand' = hand
      /\ channel' = channel /\ sent' = sent /\ upsets' = upsets /\ runs' = runs
  BY DEF PoolInv, TypeOK, Processed, redis
<1>2. PICK id \in Ids : id = worker[w].msg.id
  BY <1>1, BusyAlone
<1>3. Queued' = Queued
  BY <1>1 DEF Queued
<1>4. CASE ok
  <2>1. worker' = [worker EXCEPT ![w] = Waiting] /\ acked' = acked \cup {id}
    BY <1>2, <1>4 DEF Processed
  <2>2. Life(id) \in {"tried"} /\ \A k \in Ids \ {id} : Tried(k)' <=> Tried(k)
    BY <1>1, <1>2, <2>1, PutDownLives
  <2>3. ASSUME NEW k \in Ids \ {id} PROVE Life(k)' = Life(k)
    <3>1. /\ k \in Published' <=> k \in Published
          /\ k \in acked' <=> k \in acked
          /\ Buried(k)' <=> Buried(k)
          /\ Waits(k)' <=> Waits(k)
      BY <1>1, <1>3, <2>1 DEF Published, Buried, Waits
    <3> QED BY <2>2, <3>1, LivesOn
  <2>4. Life(id)' = "acked"
    <3>1. LifeFacts' /\ id \in acked'
      BY <2>1, LifeNext
    <3> QED BY <3>1 DEF LifeFacts
  <2>5. Lives!Become({id}, {"tried"}, Life(id)')
    BY <2>2, <2>3, Moves
  <2>6. Lives!Acknowledge(id)
    BY <1>1, <2>4, <2>5 DEF Lives!Acknowledge
  <2>7. id \in Lives!Ids
    BY DEF Lives!Ids, Ids
  <2> QED BY <1>1, <2>6, <2>7 DEF Lives!Next
<1>5. CASE ~ok
  <2>1. \A v \in Workers : worker'[v].msg = worker[v].msg
    <3>1. worker' = [worker EXCEPT ![w].pc = "failing"]
      BY <1>5 DEF Processed
    <3> DEFINE s == [pc |-> "failing", msg |-> worker[w].msg]
    <3>2. /\ [worker EXCEPT ![w].pc = "failing"] = [worker EXCEPT ![w] = s]
          /\ s \in Task /\ s.pc = "failing" /\ s.msg = worker[w].msg
      BY <1>1, PcChange
    <3> HIDE DEF s
    <3> QED BY <1>1, <3>1, <3>2
  <2>2. acked' = acked
    BY <1>5 DEF Processed
  <2> QED BY <1>1, <1>3, <2>1, <2>2, Waited
<1> QED BY <1>4, <1>5

LEMMA HandedBackLives ==
  ASSUME PoolInv, PoolInv', NEW w \in Workers, HandedBack(w)
  PROVE  Lives!Next
<1> DEFINE b == Bumped(worker[w].msg)
<1>1. /\ worker[w].msg # NoMessage /\ worker' = [worker EXCEPT ![w] = Waiting]
      /\ main' = main /\ hand' = hand /\ channel' = channel
      /\ sent' = sent /\ acked' = acked /\ runs' = runs
      /\ upsets' \in Nat /\ (upsets' = 0 => upsets = 0) /\ upsets \in Nat
      /\ PutBack(b)
  BY PoolAssumption DEF PoolInv, TypeOK, HandedBack, PutBack
<1>2. PICK id \in Ids : id = worker[w].msg.id
  BY <1>1, BusyAlone
<1>3. InTry(worker[w].msg) /\ worker[w].msg \in Message
  BY <1>1, BusyAlone DEF PoolInv, Tries
<1>4. b.id = id /\ b.attempts = runs[id] /\ runs[id] \in Nat /\ runs[id] <= MaxRetries + 1
  <2>1. b.id = id /\ b.attempts = worker[w].msg.attempts + 1
    BY <1>2 DEF Bumped
  <2>2. runs[id] = worker[w].msg.attempts + 1
    BY <1>2, <1>3 DEF InTry
  <2>3. runs[id] \in Nat /\ runs[id] <= MaxRetries + 1
    BY DEF PoolInv, TypeOK, Tries
  <2> HIDE DEF b
  <2> QED BY <2>1, <2>2, <2>3
<1> HIDE DEF b
<1>5. Life(id) \in {"tried"} /\ \A k \in Ids \ {id} : Tried(k)' <=> Tried(k)
  BY <1>1, <1>2, PutDownLives
<1>6. LifeFacts'
  BY LifeNext
<1>7. id \in Lives!Ids /\ (upsets > 0 => upsets' > 0)
  BY <1>1 DEF Lives!Ids, Ids
<1>8. CASE b.attempts > MaxRetries
  <2>1. dead' = dead \cup {b} /\ retry' = retry
    BY <1>1, <1>8 DEF PutBack
  <2>2. Queued' = Queued
    BY <1>1, <2>1 DEF Queued
  <2>3. ASSUME NEW k \in Ids \ {id} PROVE Life(k)' = Life(k)
    <3>1. /\ k \in Published' <=> k \in Published
          /\ k \in acked' <=> k \in acked
      BY <1>1 DEF Published
    <3>2. (Buried(k)' <=> Buried(k)) /\ (Waits(k)' <=> Waits(k))
      BY <1>4, <2>1, <2>2 DEF Buried, Waits
    <3> QED BY <1>5, <3>1, <3>2, LivesOn
  <2>4. Life(id)' = "dead"
    <3>1. Buried(id)'
      BY <1>4, <2>1 DEF Buried
    <3> QED BY <1>6, <3>1 DEF LifeFacts
  <2>5. Lives!Become({id}, {"tried"}, Life(id)')
    BY <1>5, <2>3, Moves
  <2>6. runs[id] = MaxRetries + 1
    BY <1>4, <1>8, RedisAssumption
  <2>7. Lives!Bury(id)
    BY <1>1, <2>4, <2>5, <2>6 DEF Lives!Bury
  <2> QED BY <1>7, <2>7 DEF Lives!Next
<1>9. CASE ~(b.attempts > MaxRetries)
  <2>1. retry' = retry \cup {b} /\ dead' = dead
    BY <1>1, <1>9 DEF PutBack
  <2>2. Queued' = Queued \cup {b}
    BY <1>1, <2>1 DEF Queued
  <2>3. ASSUME NEW k \in Ids \ {id} PROVE Life(k)' = Life(k)
    <3>1. /\ k \in Published' <=> k \in Published
          /\ k \in acked' <=> k \in acked
      BY <1>1 DEF Published
    <3>2. (Buried(k)' <=> Buried(k)) /\ (Waits(k)' <=> Waits(k))
      BY <1>4, <2>1, <2>2 DEF Buried, Waits
    <3> QED BY <1>5, <3>1, <3>2, LivesOn
  <2>4. Life(id)' = "waiting"
    <3>1. Waits(id)'
      BY <1>4, <2>2 DEF Waits
    <3> QED BY <1>6, <3>1 DEF LifeFacts
  <2>5. Lives!Become({id}, {"tried"}, Life(id)')
    BY <1>5, <2>3, Moves
  <2>6. runs[id] <= MaxRetries
    BY <1>4, <1>9, RedisAssumption
  <2>7. Lives!Return(id)
    BY <1>1, <2>4, <2>5, <2>6 DEF Lives!Return
  <2> QED BY <1>7, <2>7 DEF Lives!Next
<1> QED BY <1>8, <1>9

LEMMA DispatcherLives ==
  ASSUME PoolInv, PoolInv', Dispatcher
  PROVE  [Lives!Next]_(Lives!progress)
<1>1. CASE Dequeue
  <2>1. /\ main \in Seq(Message) /\ main # <<>> /\ main' = Tail(main)
        /\ hand = <<>> /\ hand' = <<Head(main)>>
    BY <1>1 DEF PoolInv, TypeOK, Dequeue
  <2>2. /\ Members(main) = {Head(main)} \cup Members(main')
        /\ Members(hand) = {} /\ Members(hand') = {Head(main)}
    BY <2>1, MembersAre, MembersOf
  <2>3. Queued' = Queued
    BY <1>1, <2>2 DEF Dequeue, Queued
  <2> QED BY <1>1, <2>3, Waited DEF Dequeue
<1>2. CASE DequeueError
  <2>1. main \in Seq(Message) /\ main # <<>> /\ main' = Tail(main)
    BY <1>2 DEF PoolInv, TypeOK, DequeueError
  <2>2. Queued' \subseteq Queued
    BY <1>2, <2>1, HeadAndTail DEF DequeueError, pool, Queued
  <2>3. upsets' > 0
    BY <1>2, PoolAssumption DEF PoolInv, TypeOK, DequeueError, Upset
  <2> QED BY <1>2, <2>2, <2>3, Loses DEF DequeueError, pool
<1>3. CASE DequeueTimeout
  <2>1. Queued' = Queued
    BY <1>3 DEF DequeueTimeout, vars, redis, pool, Queued
  <2> QED BY <1>3, <2>1, Waited DEF DequeueTimeout, vars, redis, pool
<1>4. CASE Dispatch
  <2>1. /\ channel \in Seq(Message) /\ hand \in Seq(Message)
        /\ channel' = channel \o hand /\ hand' = <<>>
    BY <1>4 DEF PoolInv, TypeOK, Dispatch
  <2>2. Members(channel') = Members(channel) \cup Members(hand) /\ Members(hand') = {}
    BY <2>1, MembersAre, MembersOf
  <2>3. Queued' = Queued
    BY <1>4, <2>2 DEF Dispatch, redis, Queued
  <2> QED BY <1>4, <2>3, Waited DEF Dispatch, redis
<1>5. CASE DispatcherExit
  <2>1. Members(hand') = {}
    BY <1>5, MembersOf DEF DispatcherExit
  <2>2. Queued' \subseteq Queued
    BY <1>5, <2>1 DEF DispatcherExit, redis, Queued
  <2>3. upsets' > 0
    BY <1>5 DEF PoolInv, Causes, DispatcherExit
  <2> QED BY <1>5, <2>2, <2>3, Loses DEF DispatcherExit, redis
<1> QED BY <1>1, <1>2, <1>3, <1>4, <1>5 DEF Dispatcher

LEMMA WorkerLives ==
  ASSUME PoolInv, PoolInv', NEW w \in Workers, WorkerLoop(w)
  PROVE  [Lives!Next]_(Lives!progress)
<1>1. CASE Take(w)
  BY <1>1, TakeLives
<1>2. CASE WorkerExit(w)
  <2>1. worker \in [Workers -> Task] /\ worker' = [worker EXCEPT ![w].pc = "exited"]
    BY <1>2 DEF PoolInv, TypeOK, WorkerExit
  <2> DEFINE s == [pc |-> "exited", msg |-> worker[w].msg]
  <2>2. /\ [worker EXCEPT ![w].pc = "exited"] = [worker EXCEPT ![w] = s]
        /\ s \in Task /\ s.pc = "exited" /\ s.msg = worker[w].msg
    BY <2>1, PcChange
  <2> HIDE DEF s
  <2>3. \A v \in Workers : worker'[v].msg = worker[v].msg
    BY <2>1, <2>2
  <2>4. Queued' = Queued
    BY <1>2 DEF WorkerExit, redis, Queued
  <2> QED BY <1>2, <2>3, <2>4, Waited DEF WorkerExit, redis
<1>3. CASE HandleFailure(w)
  <2>1. HandedBack(w)
    BY <1>3 DEF PoolInv, TypeOK, HandleFailure, HandedBack
  <2> QED BY <2>1, HandedBackLives
<1>4. CASE HandleFailureError(w)
  <2>1. upsets' > 0 /\ upsets' \in 0 .. MaxUpsets
    BY <1>4, PoolAssumption DEF PoolInv, TypeOK, Causes, HandleFailureError, Upset
  <2>2. CASE PutBack(Bumped(worker[w].msg))
    <3>1. HandedBack(w)
      BY <1>4, <2>1, <2>2 DEF HandleFailureError, HandedBack
    <3> QED BY <3>1, HandedBackLives
  <2>3. CASE UNCHANGED redis
    <3>1. Queued' \subseteq Queued
      BY <1>4, <2>3 DEF HandleFailureError, redis, Queued
    <3>2. \A v \in Workers : worker'[v].msg \in {worker[v].msg, NoMessage}
      BY <1>4, PutDown DEF HandleFailureError
    <3> QED BY <1>4, <2>1, <2>3, <3>1, <3>2, Loses DEF HandleFailureError, redis
  <2> QED BY <1>4, <2>2, <2>3 DEF HandleFailureError
<1>5. CASE \E ok \in BOOLEAN : Processed(w, ok)
  BY <1>5, ProcessedLives
<1> QED BY <1>1, <1>2, <1>3, <1>4, <1>5 DEF WorkerLoop

LEMMA PromoterLives ==
  ASSUME PoolInv, PoolInv', Promote \/ PromoterExit
  PROVE  UNCHANGED Lives!progress
<1>1. CASE Promote
  <2>1. PICK s \in Batches(retry, RetryMoveBatch) :
          retry' = retry \ Members(s) /\ main' = main \o s
    BY <1>1 DEF Promote
  <2>2. main \in Seq(Message) /\ s \in Seq(Message) /\ Members(s) \subseteq retry
    BY BatchIsList DEF PoolInv, TypeOK
  <2>3. Members(main') = Members(main) \cup Members(s)
    BY <2>1, <2>2, MembersAre
  <2>4. Queued' = Queued
    BY <1>1, <2>1, <2>2, <2>3 DEF Promote, pool, Queued
  <2> QED BY <1>1, <2>4, Waited DEF Promote, pool
<1>2. CASE PromoterExit
  <2>1. Queued' = Queued
    BY <1>2 DEF PromoterExit, redis, Queued
  <2> QED BY <1>2, <2>1, Waited DEF PromoterExit, redis
<1> QED BY <1>1, <1>2

\* What a process held when it ended is lost.
LEMMA FreshLives ==
  ASSUME PoolInv, PoolInv', Fresh, upsets' > 0, UNCHANGED <<redis, sent, acked, runs>>
  PROVE  Lives!Next
<1>1. Members(hand') = {} /\ Members(channel') = {}
  BY MembersOf DEF Fresh
<1>2. Queued' \subseteq Queued
  BY <1>1 DEF redis, Queued
<1>3. \A w \in Workers : worker'[w].msg = NoMessage
  BY DEF Fresh, Waiting
<1> QED BY <1>2, <1>3, Loses DEF redis

\* Each step of the pool is one of MessageLife, or none.
LEMMA MessageStep ==
  ASSUME PoolInv, [Next]_vars
  PROVE  [Lives!Next]_(Lives!progress)
<1>1. PoolInv'
  BY StepInv
<1>2. ASSUME NEW j \in Jobs, Enqueue(j) PROVE Lives!Next
  <2>1. Push(j) /\ upsets' \in {upsets, upsets + 1}
    BY <1>2 DEF Enqueue, Push
  <2> QED BY <1>1, <2>1, PublishLives
<1>3. CASE Dispatcher
  BY <1>1, <1>3, DispatcherLives
<1>4. CASE \E w \in Workers : WorkerLoop(w)
  BY <1>1, <1>4, WorkerLives
<1>5. CASE Promote \/ PromoterExit
  BY <1>1, <1>5, PromoterLives
<1>6. CASE Stop
  <2>1. upsets' > 0 /\ Queued' = Queued
    BY <1>6, PoolAssumption DEF PoolInv, TypeOK, Stop, Upset, redis, Queued
  <2> QED BY <1>1, <1>6, <2>1, Loses DEF Stop, redis
<1>7. CASE Restart
  <2>1. upsets' > 0
    BY <1>7 DEF PoolInv, Causes, Restart, Stopped
  <2> QED BY <1>1, <1>7, <2>1, FreshLives DEF Restart
<1>8. CASE Crash
  <2>1. upsets' > 0
    BY <1>8, PoolAssumption DEF PoolInv, TypeOK, Crash, Upset
  <2> QED BY <1>1, <1>8, <2>1, FreshLives DEF Crash
<1>9. CASE UNCHANGED vars
  <2>1. Queued' = Queued
    BY <1>9 DEF vars, redis, pool, Queued
  <2> QED BY <1>1, <1>9, <2>1, Waited DEF vars, redis, pool
<1> QED BY <1>2, <1>3, <1>4, <1>5, <1>6, <1>7, <1>8, <1>9 DEF Next

LEMMA InitLives == Init => Lives!Init
<1> SUFFICES ASSUME Init PROVE Lives!Init
  OBVIOUS
<1>1. PoolInv
  BY InitInv
<1>2. ASSUME NEW id \in Ids PROVE Life(id) = "unsent"
  <2>1. id \notin Published
    BY RedisAssumption DEF Init, Published, Ids
  <2> QED BY <2>1 DEF Life
<1> QED BY <1>2 DEF Init, Lives!Init, Lives!Ids, Ids

\* For any number of workers, jobs and faults: every message lives the life
\* MessageLife promises.  It is tried by one worker at a time and MaxRetries + 1
\* times at most, after a failed try it waits again until the last one buries it,
\* it is lost only if something went wrong, and no stop, crash or sweep brings
\* back a message that was acknowledged, dead-lettered or lost.
THEOREM ImplementsMessageLife == Spec => MessageSpec
<1>1. Init => Lives!Init
  BY InitLives
<1>2. PoolInv /\ [Next]_vars => [Lives!Next]_(Lives!progress)
  BY MessageStep
<1> QED BY <1>1, <1>2, Invariance, PTL DEF Spec, MessageSpec, Lives!Spec
=============================================================================
