------------------------------ MODULE MCReplay ------------------------------
(***************************************************************************)
(* Replay and its verification: a behaviour exercises the shared clock,    *)
(* the engine on some source, the verification of a recorded journal, the  *)
(* hash of the state, or the codec of the records.                         *)
(***************************************************************************)
EXTENDS Verification, Codec

CONSTANTS Setups,           \* sources, WarpConfigs and start times of the engine's part
          Recordings        \* the journals verified

\* Frames are numbered and have a time; a source begins at its first frame.
Recorded(frames) ==
  /\ frames \in Seq(Range(frames))
  /\ \A i \in DOMAIN frames : frames[i].id \in Nat /\ frames[i].ts \in Int

ASSUME SetupAssumption ==
  \A s \in Setups :
    /\ s[1] = Source(s[1].kind, s[1].frames, s[1].active) /\ s[1].active \in BOOLEAN
    /\ s[1].kind \in {"null", "buffered", "live", "journal"} /\ Recorded(s[1].frames)
    /\ s[2] \in [idle_threshold_us : Nat, factor : Nat] /\ s[3] \in Int

ASSUME RecordingAssumption == \A r \in Recordings : Recorded(r)

VARIABLE part

replayVars == <<part, verifyVars, hashVars, codecVars>>

ReplayInit ==
  /\ HashInit /\ VerifyInit /\ CodecInit
  /\ \/ part = "engine" /\ \E s \in Setups : EngineInit(s[1], s[2], s[3])
     \/ part = "verify" /\ \E r \in Recordings :
                              EngineInit(JournalDataSource(r), WarpConfig(1, 0), 0)
     \/ part \in {"clock", "hash", "codec"} /\ EngineInit(NullDataSource, WarpConfig(1, 0), 0)

ReplayNext ==
  /\ UNCHANGED part
  /\ \/ part = "clock" /\ ClockNext /\ UNCHANGED <<engineOnly, verifyOnly, hashVars, codecVars>>
     \/ part = "engine" /\ EngineNext /\ UNCHANGED <<verifyOnly, hashVars, codecVars>>
     \/ part = "verify" /\ VerifyNext /\ UNCHANGED <<hashVars, codecVars>>
     \/ part = "hash" /\ HashNext /\ UNCHANGED <<verifyVars, codecVars>>
     \/ part = "codec" /\ CodecNext /\ UNCHANGED <<verifyVars, hashVars>>

ReplaySpec == ReplayInit /\ [][ReplayNext]_replayVars /\ ReplayFairness

\* Bytes stand for one thing: a message that was encoded is decoded as it was or,
\* cut short, refused, and equal hashes mean equal states.
EncodingsExact == CodecExact /\ HashUnambiguous

-----------------------------------------------------------------------------
\* The instance for TLC.

MCFrame(id, ts) == Frame(id, ts, "data", <<>>)

\* Timestamps that rise, leave an idle gap, and fall back.
Regular == <<MCFrame(1, 1), MCFrame(2, 2), MCFrame(3, 7)>>
Disordered == <<MCFrame(1, 6), MCFrame(2, 2), MCFrame(3, 7)>>

Default == WarpConfig(1, 0)

\* Every source under the default configuration; a disordered journal under
\* with_threshold, instant, real_time and fast_forward, from a later start.
MCSetups ==
  ({NullDataSource, JournalDataSource(<<>>), JournalDataSource(Regular),
    BufferedDataSource(Disordered, TRUE), BufferedDataSource(Regular, FALSE),
    LiveDataSource(TRUE)} \X {Default} \X {0})
  \cup ({JournalDataSource(Disordered)}
        \X {Default, WarpConfig(0, 0), WarpConfig(9, 0), WarpConfig(1, 2)} \X {0, 3})

\* What the tap recorded in a session: data frames and checkpoints, of which
\* some never reached the journal and some checkpoints were cut short; of some
\* sessions nothing reached it, and the journal is empty.  The
\* hash of a checkpoint is that of the data frames recorded before it.
Recording(kinds, kept, cut) ==
  LET all == [i \in DOMAIN kinds |->
                Frame(i, i, kinds[i],
                      IF kinds[i] = "data" THEN <<>>
                      ELSE IF i \in cut THEN Malformed
                      ELSE SelectSeq([k \in 1 .. i |-> k], LAMBDA k : kinds[k] = "data"))]
  IN  SelectSeq(all, LAMBDA f : f.id \in kept)

MCRecordings ==
  UNION {{Recording(kinds, kept, cut) :
            kinds \in [1 .. n -> {"data", "checkpoint"}],
            kept \in SUBSET (1 .. n), cut \in {{}} \cup {{i} : i \in 1 .. n}}
         : n \in 1 .. 4}

MCVersions == {<<1, 0>>, <<1, 3>>, <<2, 0>>, <<0, 1>>}
MCSlacks == {-1, -5, 0, 2}

MCTexts == {<<"a">>, <<"POS", ":">>}
MCLevelLists == {<<>>, <<<<"a", "a">>>>, <<<<"a", "a">>, <<"nl", "OB">>, <<":", "a">>>>}
=============================================================================
