----------------------------- MODULE RedisQueue -----------------------------
(***************************************************************************)
(* The messages and the three Redis keys behind queue.Adapter              *)
(* (internal/queue): the main list (RPUSH at the tail, BLPOP at the head), *)
(* the retry sorted set and the dead-letter list, as operators on values.  *)
(* A command is one atomic step of Redis, the Lua script of RequeueDue     *)
(* included.                                                               *)
(*                                                                         *)
(* A message keeps its job, its attempts and which of the job's messages   *)
(* it is: FailedAt makes the payloads of failed messages unique, so the    *)
(* retry set never merges two of them.  An RPUSH that the client repeats   *)
(* after a lost reply makes two elements of the list, which are two        *)
(* messages of the job here.  Scores are not modelled: any message of the  *)
(* retry set may be due.  Nobody reads the dead-letter list, so it is kept *)
(* as a set.                                                               *)
(***************************************************************************)
EXTENDS Integers, Sequences, FiniteSets

CONSTANTS
  Jobs,             \* the jobs messages are about
  MaxSent,          \* bound: messages enqueued for a job, by upload and recovery
  MaxRetries        \* Config.MaxRetries

ASSUME RedisAssumption == /\ Jobs \subseteq Nat
                          /\ MaxSent \in Nat \ {0}
                          /\ MaxRetries \in Nat \ {0}

Ids == Jobs \X (1 .. MaxSent)

Message == [id : Ids, attempts : 0 .. MaxRetries + 1]

\* PublishJob's and Recover's message.
NewMessage(id) == [id |-> id, attempts |-> 0]

Bumped(m) == [id |-> m.id, attempts |-> m.attempts + 1]

RPush(list, m) == Append(list, m)

\* RequeueDue: the due messages, at most `batch` of them in the order of
\* their scores, move to the tail of the main list.
Batches(retry, batch) ==
  {s \in UNION {[1 .. n -> retry] : n \in 1 .. batch} :
     \A i, k \in DOMAIN s : i # k => s[i] # s[k]}

Members(s) == {s[i] : i \in DOMAIN s}
=============================================================================
