------------------------------ MODULE FileStore ------------------------------
(***************************************************************************)
(* The file store (class FileDurableStore, src/src/persistence.cpp) and    *)
(* the commit protocol that drives it (begin_op, commit, rollback,         *)
(* finalize, guard_store, start and shutdown, src/src/runtime.cpp).        *)
(*                                                                         *)
(* Every write to a file is a step of its own: the process may die before, *)
(* after or in the middle of it and the write may fail.  An entity record  *)
(* is one of two, a tenant and an accelerator it owns, and its value is    *)
(* the sequence number of the mutation that wrote it.  A journal is a      *)
(* sequence of records after its file header; an incomplete record is      *)
(* Torn.  The audit and the decision log are written and replayed as the   *)
(* window of processed requests is, which stands for the three.            *)
(***************************************************************************)
EXTENDS Naturals, Sequences, SequencesExt, FiniteSetsExt

CONSTANTS
  CompactionThreshold,    \* journal records beyond which apply compacts
  RequestWindowCapacity,  \* kRequestWindowCapacity
  TornTail,               \* the torn-tail option, "reject" or "discard"
  MaxSequence,            \* bound on the sequence numbers issued
  MaxStarts,              \* bound on the starts of the coordinator
  MaxFaults               \* bound on the writes that fail

VARIABLES
  snapshot,     \* state.avs: a state, or EmptyState without the file
  journal_exists, journal,  \* state.avj: is there one, and its records
  mem,          \* the state of the process (VirtualizationState)
  undo,         \* the state at begin_op (UndoLog)
  batch,        \* the records of the mutation being persisted
  pc,           \* the write that is next: append, snapshot, truncate; or
                \* idle between operations, down without a process
  doing,        \* the operation being persisted
  store_failed, \* the process is in its fail-stop state
  starts, faults,         \* counted against their bounds
  content, limbo,         \* acknowledged records and unacknowledged batches
  fenced                  \* the epochs under which a process has run

files == <<snapshot, journal_exists, journal>>
process == <<mem, undo, batch, pc, doing, store_failed>>
history == <<content, limbo, fenced>>
vars == <<files, process, starts, faults, history>>

Torn == [kind |-> "torn"]

Order == <<"tenant", "virtual">>
Entities == ToSet(Order)
Absent == [id |-> 0, owned |-> FALSE]
Empty == [e \in Entities |-> Absent]

\* VirtualizationState: epoch 0 is the invalid epoch.
EmptyState == [epoch |-> 0, next_sequence |-> 1, entity |-> Empty, requests |-> <<>>]

-----------------------------------------------------------------------------
(* Records, batches and replay.                                            *)

\* Both commit and replay keep the newest requests only.
Window(requests) ==
  SubSeq(requests, Len(requests) + 1 - Min({Len(requests), RequestWindowCapacity}), Len(requests))

\* apply_record: upserts, except the logs, which grow.
apply_record(state, record) ==
  CASE record.kind = "header" ->
         [state EXCEPT !.epoch = record.value.epoch,
                       !.next_sequence = record.value.next_sequence]
    [] record.kind = "request" ->
         [state EXCEPT !.requests = Window(Append(@, record.value))]
    [] OTHER -> [state EXCEPT !.entity[record.kind] = record.value]

Replay(state, records) == FoldLeft(apply_record, state, records)

\* encode_changes: the header, the touched entities in map order, the logs.
EntityRecords(state, touched) ==
  LET record(e) == [kind |-> e, value |-> state.entity[e]]
  IN  [i \in 1..Len(SelectSeq(Order, LAMBDA e : e \in touched)) |->
         record(SelectSeq(Order, LAMBDA e : e \in touched)[i])]
encode_changes(state, touched, requests) ==
  <<[kind |-> "header",
     value |-> [epoch |-> state.epoch, next_sequence |-> state.next_sequence]]>>
  \o EntityRecords(state, touched)
  \o [i \in 1..Len(requests) |-> [kind |-> "request", value |-> requests[i]]]

\* What an append that dies or fails part way may leave of its bytes.
Parts(records) ==
  LET cuts == {SubSeq(records, 1, n) : n \in 0..Len(records)}
  IN  cuts \cup {Append(c, Torn) : c \in cuts \ {records}}

-----------------------------------------------------------------------------
(* open and load.                                                          *)

Refused == [refused |-> TRUE]

\* Mutant: a store that was compacted to its snapshot counts as new.
presentInJournal == journal # <<>>

\* present(): something beyond the journal's file header is on disk.
present == snapshot # EmptyState \/ journal # <<>>

\* validate_state, on the fields kept here: an epoch is set, and no tenant
\* owns more accelerators than exist.
validate_state(state) ==
  /\ state.epoch # 0
  /\ state.entity["tenant"].owned => state.entity["virtual"] # Absent

\* replay_journal stops at a torn tail, as the torn-tail option says
\* (handle_torn).  Torn bytes that were appended to are read as a record
\* with a foreign length: one that fails its integrity check, or one that
\* seems to end beyond the file and so looks like a torn tail.
Replays(state) ==
  LET torn == {i \in DOMAIN journal : journal[i] = Torn}
      first == Min(torn)
      tail == IF TornTail = "discard" THEN {Replay(state, SubSeq(journal, 1, first - 1))}
              ELSE {Refused}
  IN  IF torn = {} THEN {Replay(state, journal)}
      ELSE tail \cup (IF first = Len(journal) THEN {} ELSE {Refused})

\* load: the journal over the snapshot, validated unless there is neither.
load ==
  LET nothing == snapshot = EmptyState /\ ~journal_exists
      trusted(state) == nothing \/ (state # Refused /\ validate_state(state))
  IN  {IF trusted(state) THEN state ELSE Refused : state \in Replays(snapshot)}

-----------------------------------------------------------------------------
(* One operation: begin_op saves the state, the operation changes it and   *)
(* commit hands the changes to the store.                                  *)

\* The state after an operation that touches some entities under the next
\* sequence number and, for a client's operation, records its request.
Mutated(state, touched, requests) ==
  [state EXCEPT
     !.next_sequence = @ + 1,
     !.requests = Window(@ \o requests),
     !.entity = [e \in Entities |->
                   IF e \notin touched THEN @[e]
                   ELSE [id |-> state.next_sequence,
                         owned |-> e = "tenant" /\ ("virtual" \in touched
                                                     \/ @["virtual"] # Absent)]]]

\* begin_op, the operation on the given state, and the start of commit.
Persist(operation, state, touched, requests) ==
  /\ state.next_sequence < MaxSequence
  /\ LET next == Mutated(state, touched, requests)
         records == encode_changes(next, touched, requests)
     IN  /\ mem' = next
         /\ batch' = records
         /\ limbo' = IF touched = {} THEN limbo
                     ELSE Append(limbo, EntityRecords(next, touched))
  /\ undo' = mem
  /\ pc' = "append"
  /\ doing' = operation

\* The entities an operation may touch: what exists, a new tenant, or a new
\* accelerator together with the tenant that owns it.
Existing(state) == {e \in Entities : state.entity[e] # Absent}
Touchable(state) ==
  (SUBSET Existing(state)) \cup {{"tenant"}, {"tenant", "virtual"}}

Request == <<[epoch |-> mem.epoch, id |-> mem.next_sequence]>>

\* A mutation that succeeds; guard_store lets none pass after a failure.
Mutate ==
  /\ pc = "idle" /\ ~store_failed
  /\ \E touched \in Touchable(mem) \ {{}} : Persist("mutate", mem, touched, Request)
  /\ UNCHANGED <<files, store_failed, starts, faults, content, fenced>>

\* A refusal is recorded and persisted too, in the fail-stop state as well.
Refuse ==
  /\ pc = "idle"
  /\ Persist("refuse", mem, {}, Request)
  /\ UNCHANGED <<files, store_failed, starts, faults, content, fenced>>

\* Mutant: the replay window of the last process is kept.
RecoveredWithWindow(loaded) ==
  [loaded EXCEPT !.epoch = IF @ = 0 THEN 1 ELSE IF present THEN @ + 1 ELSE @]

\* start: load, advance the epoch, forget the requests of the last process
\* and withdraw what was process-local (some of the entities change).
Recovered(loaded) ==
  [loaded EXCEPT !.epoch = IF @ = 0 THEN 1 ELSE IF present THEN @ + 1 ELSE @,
                 !.requests = <<>>]

Start ==
  /\ pc = "down" /\ starts < MaxStarts
  /\ starts' = starts + 1
  /\ \E loaded \in load :
       \/ loaded = Refused /\ UNCHANGED <<mem, undo, batch, pc, doing, limbo>>
       \/ /\ loaded # Refused
          /\ \E touched \in SUBSET Existing(loaded) :
               Persist("start", Recovered(loaded), touched, <<>>)
  /\ UNCHANGED <<files, store_failed, faults, content, fenced>>

\* shutdown withdraws process-local authority; it is not guarded.
Shutdown ==
  /\ pc = "idle"
  /\ \E touched \in SUBSET Existing(mem) : Persist("shutdown", mem, touched, <<>>)
  /\ UNCHANGED <<files, store_failed, starts, faults, content, fenced>>

-----------------------------------------------------------------------------
(* The writes of apply and compact, and what follows the last of them.     *)

\* The process is gone, by its own exit or not.
Exit ==
  /\ mem' = EmptyState /\ undo' = EmptyState /\ batch' = <<>>
  /\ pc' = "down" /\ doing' = "none" /\ store_failed' = FALSE

\* The operation returns success and the mutex is free.
Return ==
  /\ undo' = EmptyState /\ batch' = <<>>
  /\ pc' = "idle" /\ doing' = "none"
  /\ UNCHANGED <<mem, store_failed>>

\* start and shutdown end with a compaction of their own.
CompactNext(operation) ==
  /\ pc' = "snapshot" /\ doing' = operation
  /\ UNCHANGED <<mem, undo, batch, store_failed, history>>

Settled == content' = mem.entity /\ limbo' = <<>>

\* The store has returned success to the operation that called it.
Committed ==
  \/ /\ doing = "mutate"
     /\ Return /\ Settled
     /\ UNCHANGED fenced
  \/ /\ doing = "refuse"
     /\ Return
     /\ UNCHANGED history
  \/ /\ doing = "start"                  \* do_classify_recovered_migrations
     /\ \E touched \in (SUBSET Existing(mem)) \ {{}} :
          Persist("classify", mem, touched, <<>>)
     /\ UNCHANGED <<store_failed, content, fenced>>
  \/ /\ doing \in {"start", "classify"}
     /\ CompactNext("ready")
  \/ /\ doing = "ready"
     /\ Return /\ Settled
     /\ fenced' = Append(fenced, mem.epoch)
  \/ /\ doing = "shutdown"
     /\ CompactNext("closing")
  \/ /\ doing = "closing"
     /\ Exit /\ Settled
     /\ UNCHANGED fenced

\* The first apply to a directory without a journal writes its file header.
InitJournal ==
  /\ pc = "append" /\ ~journal_exists
  /\ journal_exists' = TRUE
  /\ UNCHANGED <<snapshot, journal, process, starts, faults, history>>

\* One append and one sync for the whole batch, then perhaps a compaction.
AppendBatch ==
  /\ pc = "append" /\ journal_exists
  /\ journal' = journal \o batch
  /\ IF Len(journal') > CompactionThreshold
       THEN CompactNext(doing)
       ELSE Committed
  /\ UNCHANGED <<snapshot, journal_exists, starts, faults>>

\* Mutant: the journal is cut before the snapshot has been replaced.
WriteSnapshotLast ==
  /\ pc = "snapshot"
  /\ journal' = <<>>
  /\ pc' = "truncate"
  /\ UNCHANGED <<snapshot, journal_exists, mem, undo, batch, doing, store_failed,
                 starts, faults, history>>

\* compact: the snapshot is replaced, then the journal by a bare header.
WriteSnapshot ==
  /\ pc = "snapshot"
  /\ snapshot' = mem
  /\ pc' = "truncate"
  /\ UNCHANGED <<journal_exists, journal, mem, undo, batch, doing, store_failed,
                 starts, faults, history>>

ResetJournal ==
  /\ pc = "truncate"
  /\ journal' = <<>> /\ journal_exists' = TRUE
  /\ Committed
  /\ UNCHANGED <<snapshot, starts, faults>>

\* rollback: the touched entities and the header are as begin_op found them;
\* the logs are only cut when they are longer than they were.
rollback ==
  [undo EXCEPT !.requests = IF Len(mem.requests) > Len(@)
                              THEN SubSeq(mem.requests, 1, Len(@)) ELSE mem.requests]

\* Mutant: commit fails and the process goes on taking mutations.
FailedGoesOn ==
  IF doing \in {"mutate", "refuse"}
    THEN /\ mem' = rollback
         /\ undo' = EmptyState /\ batch' = <<>>
         /\ pc' = "idle" /\ doing' = "none" /\ UNCHANGED store_failed
    ELSE Exit

\* commit fails: a client's operation is undone and the process refuses
\* mutations from now on; start and shutdown end the process.
Failed ==
  IF doing \in {"mutate", "refuse"}
    THEN /\ mem' = rollback
         /\ undo' = EmptyState /\ batch' = <<>>
         /\ pc' = "idle" /\ doing' = "none" /\ store_failed' = TRUE
    ELSE Exit

\* An append may leave part of its bytes, or all of them and no sync; a
\* write of a whole file leaves the old file (write_file_atomic).
Leftover ==
  IF pc = "append" /\ journal_exists
    THEN \E part \in Parts(batch) : journal' = journal \o part
    ELSE UNCHANGED journal

WriteFails ==
  /\ pc \in {"append", "snapshot", "truncate"}
  /\ faults < MaxFaults /\ faults' = faults + 1
  /\ Leftover /\ Failed
  /\ UNCHANGED <<snapshot, journal_exists, starts, history>>

Crash ==
  /\ pc # "down"
  /\ Leftover /\ Exit
  /\ UNCHANGED <<snapshot, journal_exists, starts, faults, history>>

-----------------------------------------------------------------------------

Init ==
  /\ snapshot = EmptyState /\ journal_exists = FALSE /\ journal = <<>>
  /\ mem = EmptyState /\ undo = EmptyState /\ batch = <<>>
  /\ pc = "down" /\ doing = "none" /\ store_failed = FALSE
  /\ starts = 0 /\ faults = 0
  /\ content = Empty /\ limbo = <<>> /\ fenced = <<>>

Next ==
  \/ Start \/ Mutate \/ Refuse \/ Shutdown
  \/ InitJournal \/ AppendBatch \/ WriteSnapshot \/ ResetJournal
  \/ WriteFails \/ Crash

Spec == Init /\ [][Next]_vars

-----------------------------------------------------------------------------

Running == pc # "down" /\ doing \notin {"start", "classify", "ready"}

\* What the process serves: an operation holds the mutex until commit
\* returns, so nobody sees the state it is persisting.
View ==
  IF ~Running THEN [down |-> TRUE]
  ELSE IF pc = "idle" THEN mem.entity ELSE undo.entity

EntityBatches ==
  LET value == [id : 1..MaxSequence, owned : BOOLEAN]
  IN  {<<[kind |-> e, value |-> v]>> : e \in Entities, v \in value}
        \cup {<<[kind |-> "tenant", value |-> v], [kind |-> "virtual", value |-> w]>> :
                v \in value, w \in value}

Promise == INSTANCE DurableStore
             WITH Batches <- EntityBatches, Down <- [down |-> TRUE], view <- View

(***************************************************************************)
(* Journal, snapshot, compaction and replay implement the durable store:   *)
(* across failed writes and crashes between any two writes, a started      *)
(* coordinator serves every acknowledged mutation, of the others a prefix  *)
(* of their records, and acknowledges nothing after a failure (commit and  *)
(* rollback in runtime.cpp, apply, compact and load in persistence.cpp).   *)
(***************************************************************************)
ImplementsDurableStore == Promise!DurableSpec

(***************************************************************************)
(* A store that holds acknowledged mutations only, with no torn record,    *)
(* can be opened and loads exactly them, at any moment at which the        *)
(* process may die (load after apply and compact).                         *)
(***************************************************************************)
AcknowledgedStoreLoads ==
  limbo = <<>> /\ present /\ Torn \notin ToSet(journal)
    => \A loaded \in load : loaded # Refused /\ loaded.entity = content

(***************************************************************************)
(* Each coordinator that runs does so under a larger epoch than every one  *)
(* before it, however the ones between died (start persists the advanced   *)
(* epoch before it sets running).                                          *)
(***************************************************************************)
EpochsFence == \A i, j \in DOMAIN fenced : i < j => fenced[i] < fenced[j]

(***************************************************************************)
(* The replay window of a running coordinator holds requests of its own    *)
(* epoch only, even when the journal still holds those of a process that   *)
(* died (start clears the window it has loaded).                           *)
(***************************************************************************)
WindowIsOfThisProcess ==
  Running => \A i \in DOMAIN mem.requests : mem.requests[i].epoch = mem.epoch
=============================================================================
