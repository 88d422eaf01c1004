----------------------------- MODULE DurableStore -----------------------------
(***************************************************************************)
(* What the runtime is promised by a durable store (class DurableStore,    *)
(* src/include/av/persistence.hpp) under the commit protocol of            *)
(* runtime.cpp: an acknowledged mutation survives, a mutation that was not *)
(* acknowledged survives up to some record of it or not at all, and once a *)
(* mutation has failed nothing more is acknowledged by that process.       *)
(*                                                                         *)
(* There are no files, no journal and no compaction here; FileStore        *)
(* implements this specification.                                          *)
(***************************************************************************)
EXTENDS Naturals, Sequences, SequencesExt

CONSTANTS
  Batches,      \* what one mutation may write: sequences of
                \* records [kind |-> entity, value |-> record]
  Empty,        \* the entity records of a store that holds nothing
  Down          \* the view of a process that is not running

VARIABLES
  content,      \* the entity records that have been acknowledged
  limbo,        \* the batches written since, oldest first, none acknowledged
  view          \* what the running process serves, or Down

dvars == <<content, limbo, view>>

\* The records of a batch replace those of the same entity, in order.
Put(entities, record) == [entities EXCEPT ![record.kind] = record.value]
PutAll(entities, batch) == FoldLeft(Put, entities, batch)

\* What may remain of unacknowledged batches: of each, in order, a prefix.
Cut(states, batch) ==
  {PutAll(s, SubSeq(batch, 1, n)) : s \in states, n \in 0..Len(batch)}
Remains(entities, batches) == FoldLeft(Cut, {entities}, batches)

DurableInit ==
  /\ content = Empty
  /\ limbo = <<>>
  /\ view = Down

\* A batch goes to the store; nobody can tell yet whether it will be kept.
Write(batch) ==
  /\ limbo' = Append(limbo, batch)
  /\ UNCHANGED <<content, view>>

\* The batch is reported as a success, which only a process without an
\* earlier failure does.
Acknowledge ==
  /\ view # Down
  /\ Len(limbo) = 1
  /\ content' = PutAll(content, limbo[1])
  /\ view' = content'
  /\ limbo' = <<>>

\* A process comes up over what the store kept, or closes the store.
Settle ==
  /\ content' \in Remains(content, limbo)
  /\ limbo' = <<>>
  /\ \/ view = Down /\ view' = content'
     \/ view # Down /\ view' = Down

\* The process dies.
Die ==
  /\ view # Down
  /\ view' = Down
  /\ UNCHANGED <<content, limbo>>

DurableNext ==
  \/ \E batch \in Batches : Write(batch)
  \/ Acknowledge
  \/ Settle
  \/ Die

DurableSpec == DurableInit /\ [][DurableNext]_dvars
=============================================================================
