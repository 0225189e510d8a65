---------------------------- MODULE Verification ----------------------------
(***************************************************************************)
(* blackbox verify/: VerifyingReplayEngine drives a ReplayEngine, feeds    *)
(* its callback every frame and compares the state hash of each checkpoint *)
(* with the one the callback computes; ComparisonReport tells the verdict. *)
(*                                                                         *)
(* The recorded application is any that depends on every data frame it     *)
(* sees: its state is the sequence of their numbers and its hash is        *)
(* that sequence itself (equal hashes for equal states only).  A           *)
(* checkpoint whose payload is too short to parse carries Malformed.       *)
(***************************************************************************)
EXTENDS ReplayEngine, Naturals, Sequences, SequencesExt

CONSTANTS StopOnMismatch, StopOnError   \* VerifyConfig

VARIABLES app,        \* the callback's state
          vstats,     \* VerificationStats
          results,    \* the VerificationResults
          compared,   \* ReplayComparator: checkpoints compared and matched
          stale,      \* history: a reset kept what the callback had seen
          mark        \* history: the number of results when the call began

verifyOnly == <<app, vstats, results, compared, stale, mark>>
verifyVars == <<engineVars, verifyOnly>>

\* What CheckpointData::from_bytes makes of a payload: too short, or a hash.
Malformed == <<0>>
Parses(f) == f.hash # Malformed

\* Checkpoint::verify
Verifies(f, hash) == f.hash = hash

\* first is an Option: a sequence of at most one number.
NoVerification == [events |-> 0, found |-> 0, matched |-> 0, mismatched |-> 0, errors |-> 0,
                   first |-> <<>>]

VerifyInit ==
  /\ app = <<>> /\ results = <<>> /\ stale = FALSE /\ mark = 0
  /\ vstats = NoVerification
  /\ compared = [all |-> 0, matched |-> 0]

\* ReplayComparator::compare and verify_checkpoint, for a checkpoint that
\* parses.
Compared(f, hash) ==
  LET same == Verifies(f, hash)
  IN  /\ compared' = [all |-> compared.all + 1,
                      matched |-> compared.matched + (IF same THEN 1 ELSE 0)]
      /\ vstats' = [vstats EXCEPT
                      !.events = @ + 1, !.found = @ + 1,
                      !.matched = @ + (IF same THEN 1 ELSE 0),
                      !.mismatched = @ + (IF same THEN 0 ELSE 1),
                      !.first = IF same \/ @ # <<>> THEN @ ELSE <<f.id>>]
      /\ results' = Append(results, IF same THEN "match" ELSE "mismatch")

\* verify_checkpoint; Checkpoint::from_bytes refuses a short payload.
verify_checkpoint(f) ==
  IF ~Parses(f)
  THEN /\ vstats' = [vstats EXCEPT !.events = @ + 1, !.found = @ + 1, !.errors = @ + 1]
       /\ results' = Append(results, "error")
       /\ UNCHANGED compared
  ELSE Compared(f, app)

\* VerificationCallback::on_frame of the recorded application.
on_frame(f) == IF f.kind = "data" THEN Append(app, f.id) ELSE app

\* Mutant: the checkpoint is compared before the frames of its step are fed,
\* one data frame late.
SeenLate(f) ==
  /\ app' = IF f.kind = "data" /\ f.id > 1 THEN Append(app, f.id) ELSE app
  /\ IF f.kind = "checkpoint" THEN verify_checkpoint(f)
     ELSE vstats' = [vstats EXCEPT !.events = @ + 1] /\ UNCHANGED <<results, compared>>

\* step, for a frame that was delivered: on_frame, then the comparison.
Seen(f) ==
  /\ app' = on_frame(f)
  /\ IF f.kind = "checkpoint" THEN verify_checkpoint(f)
     ELSE vstats' = [vstats EXCEPT !.events = @ + 1] /\ UNCHANGED <<results, compared>>

\* run_with_verification: play, then step until completed or stopped.  The
\* step of an engine that play did not start does nothing, and the loop
\* repeats it: no step of the model, and no end of the call.
VerifyBegin ==
  /\ Free
  /\ driving' = "verify"
  /\ PlayEffect
  /\ mark' = Len(results)
  /\ UNCHANGED <<current, warp_enabled, user, clock_calls, mode, sched, loaded, src, warps, events,
                 trace, begin, past, session, switches, sent, lost, app, vstats, results, compared,
                 stale>>

Stops(r) == (r = "mismatch" /\ StopOnMismatch) \/ (r = "error" /\ StopOnError)

VerifyStep ==
  LET next == peek(src)
  IN  /\ driving = "verify" /\ CanStep
      /\ StepEffect
      /\ IF next = <<>> THEN driving' = "none" /\ UNCHANGED <<app, vstats, results, compared>>
         ELSE /\ Seen(next[1])
              /\ driving' = IF results' # results /\ Stops(results'[Len(results')])
                            THEN "none" ELSE driving
      /\ UNCHANGED <<paused, warp_enabled, user, clock_calls, mode, sched, loaded, begin,
                     past, session, switches, sent, lost, stale, mark>>

\* VerifyingReplayEngine::reset leaves the callback alone.
VerifyReset ==
  /\ Free /\ session < MaxSessions
  /\ ResetEffect
  /\ vstats' = NoVerification /\ results' = <<>> /\ compared' = [all |-> 0, matched |-> 0]
  /\ stale' = (app # <<>>) /\ mark' = 0
  /\ UNCHANGED <<warp_enabled, user, clock_calls, mode, sched, loaded, driving, switches, sent, app>>

\* The caller starts its application anew (callback_mut), before a session.
ResetCallback ==
  /\ Free /\ trace = <<>>
  /\ app' = <<>> /\ stale' = FALSE
  /\ UNCHANGED <<engineVars, vstats, results, compared, mark>>

VerifyNext == VerifyBegin \/ VerifyStep \/ VerifyReset \/ ResetCallback

-----------------------------------------------------------------------------
\* The report

is_successful == vstats.mismatched = 0 /\ vstats.errors = 0

\* match_rate is at least a percentage: a checkpoint that cannot be read is
\* not a match, and without checkpoints the rate is 100.
match_rate(percent) == vstats.matched * 100 >= percent * vstats.found

\* ReportEntry::info, warning, error and critical, and the severities that
\* tell of a failure.
Severities == {"info", "warning", "error", "critical"}
Failing == {"error", "critical"}

\* The results a report gives details of.
Details(kind) == {i \in DOMAIN results : results[i] = kind}

\* ComparisonReport::from_stats: the severities of its entries.
Entries ==
  {"info", IF match_rate(100) THEN "info" ELSE IF match_rate(95) THEN "warning" ELSE "error"}
  \cup {"error" : i \in Details("mismatch")} \cup {"critical" : i \in Details("error")}

report_status == IF is_successful THEN "Pass" ELSE "Fail"

\* generate_recommendations
Recommendations ==
  (IF vstats.mismatched > 0 THEN {"review", "debug_from_first"} ELSE {})
  \cup (IF vstats.mismatched > 5 THEN {"systematic"} ELSE {})
  \cup (IF vstats.errors > 0 THEN {"check_journal", "check_format"} ELSE {})
  \cup (IF is_successful /\ vstats.found = 0 THEN {"add_checkpoints"} ELSE {})

-----------------------------------------------------------------------------
\* What the recorded application had seen after the first frames of a journal.
SeenAfter(frames) ==
  LET seen[k \in 0 .. Len(frames)] ==
        IF k = 0 THEN <<>>
        ELSE IF frames[k].kind = "data" THEN Append(seen[k - 1], frames[k].id) ELSE seen[k - 1]
  IN  seen

\* The checkpoints of a journal that cannot be read, and those whose hash is
\* not that of the data frames before them.
Unreadable(frames) ==
  {i \in 1 .. Len(frames) : frames[i].kind = "checkpoint" /\ frames[i].hash = Malformed}
Diverging(frames) ==
  {i \in 1 .. Len(frames) : /\ frames[i].kind = "checkpoint"
                            /\ frames[i].hash \notin {Malformed, SeenAfter(frames)[i]}}

\* The verdict of a session is right about the recording: it passes iff at
\* each checkpoint met the journal held exactly the data frames recorded
\* before it and every checkpoint could be read; and it names the first
\* checkpoint from which a frame is missing.
VerdictSound ==
  (src.kind = "journal" /\ vstats.events = Len(trace) /\ ~stale) =>
    LET bad == {i \in Unreadable(src.frames) : i <= src.position}
        off == {i \in Diverging(src.frames) : i <= src.position}
    IN  /\ is_successful <=> (bad = {} /\ off = {})
        /\ off = {} => vstats.first = <<>>
        /\ off # {} => \E i \in off : /\ \A k \in off : i <= k
                                     /\ vstats.first = <<src.frames[i].id>>

\* A call of run_with_verification goes past no result it should stop at.
StopsInTime ==
  \A i \in (mark + 1) .. Len(results) :
    Stops(results[i]) => (i = Len(results) /\ driving # "verify")

\* The report's lines agree with its verdict: it passes iff none of them is an
\* error, it recommends something unless it passes on some checkpoint, and
\* the engine's and the comparator's counts are one.
ReportFaithful ==
  /\ report_status = "Pass" <=> Entries \subseteq Severities \ Failing
  /\ Recommendations = {} <=> (report_status = "Pass" /\ vstats.found > 0)
  /\ compared.all = vstats.matched + vstats.mismatched /\ compared.matched = vstats.matched
  /\ vstats.found = compared.all + vstats.errors

\* A verification can be believed: its verdict is right about the recording, it
\* stops where it was told to, and the report agrees with the verdict.
VerificationSound == VerdictSound /\ StopsInTime /\ ReportFaithful

\* run_to_completion returns, and so does run_with_verification of an engine
\* that play starts, if their steps are scheduled.
RunsReturn ==
  (driving = "run" \/ (driving = "verify" /\ Playable)) ~> (driving = "none")

\* run_with_verification returns its statistics, as its comment says.  It does
\* not for a source that is empty from the start: play leaves the engine Idle,
\* step then does nothing and does not report completion, and the loop has no
\* other end.
VerificationReturns == (driving = "verify") ~> (driving = "none")

ReplayFairness == WF_engineVars(RunStep \/ RunEnd) /\ WF_verifyVars(VerifyStep)

-----------------------------------------------------------------------------
(***************************************************************************)
(* StateHash of blackbox verify/state_hash.rs: what each update feeds the  *)
(* hasher, for the recorded and for the replayed state.  A byte is a       *)
(* token, and a fixed-width integer is one token, which may look like the  *)
(* newline or a label.  Sha256 is taken to be injective.                   *)
(***************************************************************************)

CONSTANTS HashLabels,  \* labels of update, update_orderbook, update_position, update_orders
          Texts,       \* their data: text that callers serialize, without a newline
          Bytes,       \* fixed-width integers
          LevelLists,  \* levels of a book side: sequences of <<price, quantity>>
          MaxUpdates   \* bound on the updates of one hash

ASSUME TextAssumption == \A t \in Texts : \A i \in DOMAIN t : t[i] # "nl"

VARIABLES recorded, replayed   \* the updates made for the two states

hashVars == <<recorded, replayed>>

HashInit == recorded = <<>> /\ replayed = <<>>

Updates ==
  [op : {"text"}, label : HashLabels, data : Texts]
  \cup [op : {"SEQ", "TS", "HASH"}, value : Bytes]
  \cup [op : {"LVL"}, price : Bytes, qty : Bytes]
  \cup [op : {"BIDS", "ASKS"}, levels : LevelLists]

\* The bytes of one update: label, data, newline; the levels of a side are
\* preceded by their number.
UpdateBytes(u) ==
  CASE u.op = "text" -> <<u.label, ":">> \o u.data \o <<"nl">>
    [] u.op \in {"SEQ", "TS", "HASH"} -> <<u.op, ":", u.value, "nl">>
    [] u.op = "LVL" -> <<"LVL", ":", u.price, u.qty, "nl">>
    [] u.op \in {"BIDS", "ASKS"} ->
         <<u.op, ":", ToString(Len(u.levels))>> \o FlattenSeq(u.levels) \o <<"nl">>

\* What finalize has been fed.
Fed(updates) == FlattenSeq([i \in DOMAIN updates |-> UpdateBytes(updates[i])])

UpdateRecorded(u) ==
  /\ Len(recorded) < MaxUpdates
  /\ recorded' = Append(recorded, u) /\ UNCHANGED replayed

UpdateReplayed(u) ==
  /\ Len(replayed) < MaxUpdates
  /\ replayed' = Append(replayed, u) /\ UNCHANGED recorded

HashNext == \E u \in Updates : UpdateRecorded(u) \/ UpdateReplayed(u)

-----------------------------------------------------------------------------
\* Two states are hashed from the same bytes only if they are the same
\* updates in the same order: no label, integer or book side can be mistaken
\* for a part of its neighbours, as long as no text holds a newline.
HashUnambiguous == Fed(recorded) = Fed(replayed) => recorded = replayed
=============================================================================
