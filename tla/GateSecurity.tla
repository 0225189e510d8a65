---------------------------- MODULE GateSecurity ----------------------------
(***************************************************************************)
(* The security helpers of the correlation gate: the guard that makes      *)
(* operations atomic, and the audit log with its writer thread.            *)
(***************************************************************************)
EXTENDS Naturals, Sequences, SequencesExt, FiniteSets, FiniteSetsExt

-----------------------------------------------------------------------------
(***************************************************************************)
(* AtomicGateGuard and StateVersionTracker of the gate's                   *)
(* security/atomic.py.                                                     *)
(*                                                                         *)
(* execute_atomic waits for a re-entrant lock up to a timeout, runs the    *)
(* operation, which may call execute_atomic again, and restores the        *)
(* operation id of its thread.  The tracker has a lock of its own.         *)
(***************************************************************************)

CONSTANTS GuardThreads,
          MaxOperations,  \* bound on the operations begun
          MaxVersion      \* bound on the state version

VARIABLES guard_owner,    \* owner of the guard's lock
          operation_id,   \* _operation_local.operation_id of each thread
          stack,          \* each thread's nested operations: their ids with the ids they restore
          waiting,        \* threads waiting for the lock
          version,        \* StateVersionTracker._version
          expected,       \* each thread's version read, to check against
          matched,        \* history: the expected versions that matched, in order
          operations

guardVars == <<guard_owner, operation_id, stack, waiting, version, expected, matched,
               operations>>

NoOwner == "none"
NoOperation == 0

ASSUME GuardAssumption == NoOwner \notin GuardThreads

GuardInit ==
  /\ guard_owner = NoOwner /\ operation_id = [t \in GuardThreads |-> NoOperation]
  /\ stack = [t \in GuardThreads |-> <<>>] /\ waiting = {}
  /\ version = 0 /\ expected = [t \in GuardThreads |-> 0] /\ matched = <<>>
  /\ operations = 0

\* execute_atomic
GuardWait(t) ==
  /\ t \notin waiting /\ operations < MaxOperations
  /\ waiting' = waiting \cup {t} /\ operations' = operations + 1
  /\ UNCHANGED <<guard_owner, operation_id, stack, version, expected, matched>>

\* The lock is re-entrant; the operation gets an id of its own.
GuardAcquire(t) ==
  /\ t \in waiting /\ guard_owner \in {NoOwner, t}
  /\ guard_owner' = t /\ waiting' = waiting \ {t}
  /\ stack' = [stack EXCEPT ![t] = Append(@, [id |-> operations, old |-> operation_id[t]])]
  /\ operation_id' = [operation_id EXCEPT ![t] = operations]
  /\ UNCHANGED <<version, expected, matched, operations>>

\* AtomicOperationTimeout, of a thread that does not hold the lock; the
\* operation that was to be nested never fails so.
GuardTimeout(t) ==
  /\ t \in waiting /\ guard_owner \notin {NoOwner, t}
  /\ waiting' = waiting \ {t}
  /\ UNCHANGED <<guard_owner, operation_id, stack, version, expected, matched, operations>>

\* Mutant: the id is cleared instead of restored.
RestoredNone(t) == NoOperation

Restored(t) == Last(stack[t]).old

\* The operation returns or raises: the id is restored, the lock released.
GuardRelease(t) ==
  /\ stack[t] # <<>> /\ t \notin waiting
  /\ operation_id' = [operation_id EXCEPT ![t] = Restored(t)]
  /\ stack' = [stack EXCEPT ![t] = Front(@)]
  /\ guard_owner' = IF Len(stack[t]) = 1 THEN NoOwner ELSE t
  /\ UNCHANGED <<waiting, version, expected, matched, operations>>

-----------------------------------------------------------------------------
\* get and increment
GetVersion(t) ==
  /\ expected' = [expected EXCEPT ![t] = version]
  /\ UNCHANGED <<guard_owner, operation_id, stack, waiting, version, matched, operations>>
Increment ==
  /\ version < MaxVersion /\ version' = version + 1
  /\ UNCHANGED <<guard_owner, operation_id, stack, waiting, expected, matched, operations>>

\* The version moves whether it matched or not.
NextVersion(t) == version + 1

check_and_increment(t) ==
  /\ version < MaxVersion
  /\ matched' = IF version = expected[t] THEN Append(matched, version) ELSE matched
  /\ version' = NextVersion(t)
  /\ UNCHANGED <<guard_owner, operation_id, stack, waiting, expected, operations>>

GuardNext ==
  \/ Increment
  \/ \E t \in GuardThreads : \/ GuardWait(t) \/ GuardAcquire(t) \/ GuardTimeout(t) \/ GuardRelease(t)
                             \/ GetVersion(t) \/ check_and_increment(t)

GuardSpec == GuardInit /\ [][GuardNext]_guardVars

-----------------------------------------------------------------------------
\* Operations of two threads never overlap, and a thread's operation id is
\* that of its innermost operation, none outside: a nested operation that has
\* ended or timed out leaves the id of the one around it.
OperationsAtomic ==
  /\ \A t \in GuardThreads : stack[t] # <<>> <=> guard_owner = t
  /\ \A t \in GuardThreads :
       operation_id[t] = IF stack[t] = <<>> THEN NoOperation ELSE Last(stack[t]).id

\* Of the threads that saw one version, at most one is told that it matched.
OneMatches == \A i, k \in DOMAIN matched : matched[i] = matched[k] => i = k

-----------------------------------------------------------------------------
(***************************************************************************)
(* AsyncFileAuditLogger and RotatingAuditLogger of the gate's              *)
(* security/audit.py: callers queue entries, a writer thread drains the    *)
(* queue into the current file, shutdown waits for the writer and writes   *)
(* what is left.                                                           *)
(*                                                                         *)
(* An entry is its number.  A file is the record of its entries and of its *)
(* name, which is the second in which that was made.                       *)
(***************************************************************************)

CONSTANTS BufferSize,   \* maxsize of the queue
          MaxSize,      \* entries a file may hold before it is rotated
          MaxFiles,     \* max_files
          MaxEntries,   \* bound on the entries logged
          MaxSeconds    \* bound on the time

ASSUME AuditAssumption == BufferSize \in Nat /\ MaxSize \in Nat /\ MaxFiles \in Nat

VARIABLES audit_buffer, \* _buffer
          writer,       \* the writer thread
          closer,       \* the call of shutdown
          shutdown_event,
          files,        \* the files in the directory, in the order of their last change
          current_file, \* _current_file, _log_path
          second,
          logged,       \* history: the entries logged so far
          queued_before,\* history: entries logged before shutdown was called
          dropped,      \* history: entries that found the queue full
          failed,       \* history: entries whose write failed
          removed,      \* history: entries of files that were removed
          late          \* history: shutdown stopped waiting for the writer

auditVars == <<audit_buffer, writer, closer, shutdown_event, files, current_file, second,
               logged, queued_before, dropped, failed, removed, late>>

Worker(at) == [at |-> at, batch |-> <<>>]

AuditInit ==
  /\ audit_buffer = <<>> /\ writer = Worker("loop") /\ closer = Worker("none")
  /\ shutdown_event = FALSE
  /\ files = <<>> /\ current_file = 0 /\ second = 0
  /\ logged = 0 /\ queued_before = 0 /\ dropped = {} /\ failed = {} /\ removed = {} /\ late = FALSE

AuditSecond ==
  /\ second < MaxSeconds /\ second' = second + 1
  /\ UNCHANGED <<audit_buffer, writer, closer, shutdown_event, files, current_file,
                 logged, queued_before, dropped, failed, removed, late>>

\* log_decision, log_state_change and log_error; _queue_entry drops an entry
\* that finds the queue full.
LogEntry ==
  /\ logged < MaxEntries /\ logged' = logged + 1
  /\ IF Len(audit_buffer) < BufferSize
     THEN audit_buffer' = Append(audit_buffer, logged + 1) /\ UNCHANGED dropped
     ELSE dropped' = dropped \cup {logged + 1} /\ UNCHANGED audit_buffer
  /\ UNCHANGED <<writer, closer, shutdown_event, files, current_file, second,
                 queued_before, failed, removed, late>>

-----------------------------------------------------------------------------
\* Files

Entries(fs) == UNION {ToSet(fs[i].entries) : i \in DOMAIN fs}

\* _check_rotation
NeedsRotation == \E i \in DOMAIN files : files[i].name = current_file /\ Len(files[i].entries) > MaxSize

\* _cleanup_old_files: how many to remove, of those changed longest ago.
Surplus == IF Len(files) > MaxFiles THEN Len(files) - MaxFiles ELSE 0

\* The file is opened to append, and made if it is not there.  Names only
\* grow, so the file of that name is the one changed last or none.
Appended(fs, name, entries) ==
  IF fs # <<>> /\ Last(fs).name = name
  THEN Append(Front(fs), [name |-> name, entries |-> Last(fs).entries \o entries])
  ELSE Append(fs, [name |-> name, entries |-> entries])

\* RotatingAuditLogger._write_entries: rotate if the file is too large, then
\* append the entries; after an error the last of them are missing, and the
\* file too if it could not be opened.
WriteEntries(batch) ==
  LET gone == IF NeedsRotation THEN Surplus ELSE 0
      name == IF NeedsRotation THEN second ELSE current_file
      kept == SubSeq(files, gone + 1, Len(files))
  IN  /\ current_file' = name
      /\ removed' = removed \cup Entries(SubSeq(files, 1, gone))
      /\ \E k \in 0 .. Len(batch) :
           /\ failed' = failed \cup ToSet(SubSeq(batch, k + 1, Len(batch)))
           /\ \/ files' = Appended(kept, name, SubSeq(batch, 1, k))
              \/ k = 0 /\ files' = kept

-----------------------------------------------------------------------------
\* _writer_loop

WriterStarts ==
  /\ writer.at = "loop"
  /\ writer' = IF shutdown_event THEN Worker("over") ELSE Worker("drain")
  /\ UNCHANGED <<audit_buffer, closer, shutdown_event, files, current_file, second,
                 logged, queued_before, dropped, failed, removed, late>>

WriterTakes ==
  /\ writer.at = "drain" /\ audit_buffer # <<>>
  /\ writer' = [writer EXCEPT !.batch = Append(@, Head(audit_buffer))]
  /\ audit_buffer' = Tail(audit_buffer)
  /\ UNCHANGED <<closer, shutdown_event, files, current_file, second, logged,
                 queued_before, dropped, failed, removed, late>>

NextRound == Worker("loop")

\* The queue is empty: write, and wait for the interval or for shutdown.
WriterWrites ==
  /\ writer.at = "drain" /\ audit_buffer = <<>>
  /\ writer' = IF writer.batch = <<>> THEN NextRound ELSE [writer EXCEPT !.at = "write"]
  /\ UNCHANGED <<audit_buffer, closer, shutdown_event, files, current_file, second,
                 logged, queued_before, dropped, failed, removed, late>>

WriterWritten ==
  /\ writer.at = "write"
  /\ WriteEntries(writer.batch) /\ writer' = NextRound
  /\ UNCHANGED <<audit_buffer, closer, shutdown_event, second, logged, queued_before, dropped, late>>

-----------------------------------------------------------------------------
\* shutdown

ShutdownBegins ==
  /\ closer.at = "none" /\ closer' = Worker("join")
  /\ shutdown_event' = TRUE /\ queued_before' = logged
  /\ UNCHANGED <<audit_buffer, writer, files, current_file, second, logged, dropped,
                 failed, removed, late>>

\* Mutant: shutdown does not wait for the writer.
JoinedAtOnce == ~late'

\* The writer is over, or the timeout has passed.
Joined == late' <=> writer.at # "over"

ShutdownJoins ==
  /\ closer.at = "join"
  /\ late' \in BOOLEAN
  /\ Joined
  /\ closer' = Worker("drain")
  /\ UNCHANGED <<audit_buffer, writer, shutdown_event, files, current_file, second,
                 logged, queued_before, dropped, failed, removed>>

ShutdownTakes ==
  /\ closer.at = "drain" /\ audit_buffer # <<>>
  /\ closer' = [closer EXCEPT !.batch = Append(@, Head(audit_buffer))]
  /\ audit_buffer' = Tail(audit_buffer)
  /\ UNCHANGED <<writer, shutdown_event, files, current_file, second, logged,
                 queued_before, dropped, failed, removed, late>>

Drained == audit_buffer = <<>>

ShutdownWrites ==
  /\ closer.at = "drain" /\ Drained
  /\ closer' = Worker("done")
  /\ IF closer.batch = <<>> THEN UNCHANGED <<files, current_file, failed, removed>>
     ELSE WriteEntries(closer.batch)
  /\ UNCHANGED <<audit_buffer, writer, shutdown_event, second, logged, queued_before, dropped, late>>

WriterStep == WriterStarts \/ WriterTakes \/ WriterWrites \/ WriterWritten
CloserStep == ShutdownJoins \/ ShutdownTakes \/ ShutdownWrites

AuditNext == AuditSecond \/ LogEntry \/ WriterStep \/ ShutdownBegins \/ CloserStep

AuditSpec == AuditInit /\ [][AuditNext]_auditVars

-----------------------------------------------------------------------------
\* Where an entry may be.
Whereabouts ==
  [queue |-> ToSet(audit_buffer), writer |-> ToSet(writer.batch), closer |-> ToSet(closer.batch),
   files |-> Entries(files), dropped |-> dropped, failed |-> failed, removed |-> removed]

\* Every entry is in exactly one place: waiting, in one file once, or lost
\* to a full queue, a failed write or the removal of an old file.
AuditAccounted ==
  /\ UNION {Whereabouts[p] : p \in DOMAIN Whereabouts} = 1 .. logged
  /\ \A p, q \in DOMAIN Whereabouts : p # q => Whereabouts[p] \cap Whereabouts[q] = {}
  /\ \A i, j \in DOMAIN files : \A k \in DOMAIN files[i].entries, l \in DOMAIN files[j].entries :
       files[i].entries[k] = files[j].entries[l] => i = j /\ k = l

\* The files hold the entries in the order in which they were logged, and an
\* old file is removed before a newer one, as long as shutdown has waited for
\* the writer.
AuditOrdered ==
  ~late =>
    /\ \A i, j \in DOMAIN files : \A k \in DOMAIN files[i].entries, l \in DOMAIN files[j].entries :
         i < j \/ (i = j /\ k < l) => files[i].entries[k] < files[j].entries[l]
    /\ \A r \in removed, e \in Entries(files) : r < e

\* When shutdown returns, an entry that was logged before it was called is in
\* no queue any more.
ShutdownFlushes ==
  closer.at = "done" => \A e \in ToSet(audit_buffer) : e > queued_before

\* An entry is not kept waiting: unless it was logged too late for shutdown,
\* it leaves the queue.
EntriesLeave ==
  \A e \in 1 .. MaxEntries : (e \in ToSet(audit_buffer)) ~> (e \notin ToSet(audit_buffer) \/ closer.at = "done")

\* At most one file more than max_files: the new one does not exist when the
\* old ones are removed.  No two files have one name.
FilesBounded ==
  /\ Len(files) <= MaxFiles + 1
  /\ \A i, j \in DOMAIN files : files[i].name = files[j].name => i = j

\* Guarded operations exclude each other, also nested and timed out, and of
\* those that saw one version at most one goes ahead.
GuardAtomic == OperationsAtomic /\ OneMatches

\* The audit log keeps its entries: each is accounted for, they are in order
\* unless shutdown overtook the writer, shutdown leaves none queued, and old
\* files go as new ones come.
AuditKept == AuditAccounted /\ AuditOrdered /\ ShutdownFlushes /\ FilesBounded
=============================================================================
