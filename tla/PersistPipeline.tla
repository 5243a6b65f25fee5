-------------------------- MODULE PersistPipeline --------------------------
(***************************************************************************)
(* The persist stream from the desks to Postgres: the sequencing thread of *)
(* a desk (src/src/bin/desk_server.rs), the archive that records the       *)
(* stream, the receive thread and the main loop of the writer              *)
(* (src/src/bin/pg_writer.rs) and its batch with the checkpoint floors     *)
(* (src/src/desk/pg_store.rs, PgWriteBatch).                               *)
(*                                                                         *)
(* A "data" frame stands for all frames that insert rows or carry absolute *)
(* state (orders, accounts, trades, positions, ...); a "funding" frame is  *)
(* a settlement, which the writer computes from the positions it finds.    *)
(***************************************************************************)
EXTENDS Integers, Sequences, FiniteSets, FiniteSetsExt, SequencesExt

CONSTANTS
  Publishers,        \* the desks
  Kinds,             \* kinds of frames published, a subset of {"data", "funding"}
  BridgeCap,         \* capacity of the queue between the two writer threads
  MaxBatch,          \* PG_WRITER_BATCH: frames that trigger a flush
  MaxFrames,         \* bound on the frames published
  MaxFailures,       \* bound on failing transactions
  MaxLoadFailures,   \* bound on failing loads of the checkpoints
  MaxCrashes         \* bound on crashes of the writer

ASSUME PipelineAssumption ==
  /\ Kinds \subseteq {"data", "funding"}
  /\ BridgeCap \in Nat \ {0} /\ MaxBatch \in Nat \ {0}
  /\ MaxFrames \in Nat /\ MaxFailures \in Nat
  /\ MaxLoadFailures \in Nat /\ MaxCrashes \in Nat

VARIABLES
  seq,       \* seq[p]: persist_seq of desk p
  journal,   \* journal[p]: the recorded frames of desk p
  phase,     \* the writer: "down", "replay" or "live"
  bound,     \* bound[p]: frames of p's recording to replay, NotYet before
  played,    \* played[p]: frames of p's recording replayed
  image,     \* frames waiting in the live subscription
  bridge,    \* the queue between the receive thread and the main loop
  pc,        \* where the main loop is
  frame,     \* the frame it has popped
  batch,     \* PgWriteBatch: rows, funding, max (pending_max_seq), floor (applied_seq)
  rows,      \* the tables: data frames inserted
  latest,    \* the tables: latest[p], the frame of p whose absolute state they hold
  ckpt,      \* the tables: persist_checkpoints.last_seq
  settled,   \* the tables: settlements applied, with the positions they saw
  dropped,   \* frames that found the bridge full
  failures, loadFailures, crashes

deskVars == <<seq, journal>>
recvVars == <<phase, bound, played, image>>
loopVars == <<pc, frame, batch>>
tables == <<rows, latest, ckpt, settled>>
faultVars == <<failures, loadFailures, crashes>>
vars == <<deskVars, recvVars, bridge, loopVars, tables, dropped, faultVars>>

NotYet == -1
NoFrame == [pub |-> "none", seq |-> 0, kind |-> "none"]
Frame(p, n, k) == [pub |-> p, seq |-> n, kind |-> k]
None == [p \in Publishers |-> 0]
EmptyBatch(floor) == [rows |-> << >>, funding |-> NoFrame, max |-> None, floor |-> floor]

Init ==
  /\ seq = None /\ journal = [p \in Publishers |-> << >>]
  /\ phase = "live" /\ bound = None /\ played = None
  /\ image = << >> /\ bridge = << >>
  /\ pc = "idle" /\ frame = NoFrame /\ batch = EmptyBatch(None)
  /\ rows = {} /\ latest = None /\ ckpt = None /\ settled = << >>
  /\ dropped = {}
  /\ failures = 0 /\ loadFailures = 0 /\ crashes = 0

-----------------------------------------------------------------------------
(* The desk.                                                               *)

Sent == MapThenSumSet(LAMBDA p : seq[p], Publishers)

(* persist-send stamps the next sequence number and publishes; the archive *)
(* records the frame, and a running writer has it in its subscription.     *)
Publish(p, k) ==
  LET f == Frame(p, seq[p] + 1, k) IN
  /\ Sent < MaxFrames
  /\ seq' = [seq EXCEPT ![p] = @ + 1]
  /\ journal' = [journal EXCEPT ![p] = Append(@, f)]
  /\ image' = IF phase = "down" THEN image ELSE Append(image, f)
  /\ UNCHANGED <<phase, bound, played, bridge, loopVars, tables, dropped, faultVars>>

(* The publication is refused; the number is used up all the same.         *)
PublishFails(p) ==
  /\ Sent < MaxFrames
  /\ seq' = [seq EXCEPT ![p] = @ + 1]
  /\ UNCHANGED <<journal, recvVars, bridge, loopVars, tables, dropped, faultVars>>

-----------------------------------------------------------------------------
(* The receive thread of the writer.                                       *)

Playing(p) == bound[p] # NotYet /\ played[p] < bound[p]

(* The replay of the next recording starts; it ends at what is recorded    *)
(* now.                                                                    *)
ReplayRecording(p) ==
  /\ phase = "replay" /\ bound[p] = NotYet
  /\ \A q \in Publishers : ~Playing(q)
  /\ bound' = [bound EXCEPT ![p] = Len(journal[p])]
  /\ UNCHANGED <<deskVars, phase, played, image, bridge, loopVars, tables, dropped, faultVars>>

(* A replayed frame waits until the bridge has room.                       *)
RecvReplayed(p) ==
  /\ phase = "replay" /\ Playing(p) /\ Len(bridge) < BridgeCap
  /\ played' = [played EXCEPT ![p] = @ + 1]
  /\ bridge' = Append(bridge, journal[p][played[p] + 1])
  /\ UNCHANGED <<deskVars, phase, bound, image, loopVars, tables, dropped, faultVars>>

(* All recordings have been replayed.                                      *)
GoLive ==
  /\ phase = "replay"
  /\ \A p \in Publishers : bound[p] # NotYet /\ ~Playing(p)
  /\ phase' = "live"
  /\ UNCHANGED <<deskVars, bound, played, image, bridge, loopVars, tables, dropped, faultVars>>

(* A live frame is dropped when the bridge is full.                        *)
RecvLive ==
  /\ phase = "live" /\ image # << >>
  /\ image' = Tail(image)
  /\ IF Len(bridge) < BridgeCap
     THEN bridge' = Append(bridge, Head(image)) /\ UNCHANGED dropped
     ELSE dropped' = dropped \cup {Head(image)} /\ UNCHANGED bridge
  /\ UNCHANGED <<deskVars, phase, bound, played, loopVars, tables, faultVars>>

-----------------------------------------------------------------------------
(* The main loop and its batch.                                            *)

Size(b) == Len(b.rows) + (IF b.funding = NoFrame THEN 0 ELSE 1)
BatchLen == Size(batch)

MutantPending(p) == batch.floor[p]

(* The highest sequence number of p admitted so far.                       *)
Pending(p) == IF batch.max[p] # 0 THEN batch.max[p] ELSE batch.floor[p]

(* admit_seq: a number at or below the checkpoint or the batch is a        *)
(* duplicate.                                                              *)
Admits(f) == f.seq > Pending(f.pub)

(* push: rows accumulate, a settlement takes the one place there is.       *)
Pushed(f) ==
  LET b == [batch EXCEPT !.max[f.pub] = f.seq] IN
  IF ~Admits(f) THEN batch
  ELSE IF f.kind = "funding" THEN [b EXCEPT !.funding = f]
  ELSE [b EXCEPT !.rows = Append(@, f)]

(* The loop pops a frame; a settlement is preceded by a flush of what the  *)
(* batch holds.                                                            *)
Pop ==
  /\ pc = "idle" /\ bridge # << >>
  /\ frame' = Head(bridge) /\ bridge' = Tail(bridge)
  /\ pc' = IF Head(bridge).kind = "funding" /\ BatchLen > 0 THEN "before" ELSE "push"
  /\ UNCHANGED <<deskVars, recvVars, batch, tables, dropped, faultVars>>

SizeOr(next, b) == IF Size(b) >= MaxBatch THEN "size" ELSE next

MutantPush ==
  /\ pc = "push"
  /\ batch' = Pushed(frame)
  /\ pc' = SizeOr("idle", batch')
  /\ frame' = NoFrame
  /\ UNCHANGED <<deskVars, recvVars, bridge, tables, dropped, faultVars>>

(* The frame enters the batch; a settlement is flushed at once.            *)
Push ==
  /\ pc = "push"
  /\ batch' = Pushed(frame)
  /\ pc' = IF frame.kind = "funding" THEN "after" ELSE SizeOr("idle", batch')
  /\ frame' = IF frame.kind = "funding" THEN frame ELSE NoFrame
  /\ UNCHANGED <<deskVars, recvVars, bridge, tables, dropped, faultVars>>


(* The queue was drained and the flush interval has passed.                *)
FlushDue ==
  /\ pc = "idle" /\ bridge = << >> /\ BatchLen > 0
  /\ pc' = "timed"
  /\ UNCHANGED <<deskVars, recvVars, bridge, frame, batch, tables, dropped, faultVars>>

(* Where the loop goes after a flush, whether it succeeded or not.         *)
Resume(b) ==
  CASE pc = "before" -> pc' = "push" /\ UNCHANGED frame
    [] pc = "after" -> pc' = SizeOr("idle", b) /\ frame' = NoFrame
    [] OTHER -> pc' = "idle" /\ frame' = NoFrame

(* The absolute state the transaction leaves behind: the last frame of     *)
(* each desk in the batch.                                                 *)
LatestAfter ==
  [p \in Publishers |->
     LET own == SelectSeq(batch.rows, LAMBDA f : f.pub = p)
     IN  IF own = << >> THEN latest[p] ELSE Last(own).seq]

(* Inserts and upserts by key: applying a row again changes nothing.       *)
RowsAfter == rows \cup Range(batch.rows)

(* apply_funding_settlement: the deltas come from the positions as the     *)
(* rows of the same transaction have left them.                            *)
SettledAfter ==
  IF batch.funding = NoFrame THEN settled
  ELSE Append(settled, [frame |-> batch.funding, saw |-> LatestAfter])

MutantFloorAfter == [p \in Publishers |-> batch.max[p] - 1]

(* persist_checkpoints: GREATEST of the old and the new number.            *)
FloorAfter == [p \in Publishers |-> Max({ckpt[p], batch.max[p]})]

(* The transaction takes effect: rows first, then the settlement, then the *)
(* checkpoints.                                                            *)
CommitTx ==
  /\ rows' = RowsAfter /\ latest' = LatestAfter
  /\ settled' = SettledAfter /\ ckpt' = FloorAfter

MutantPromoted == EmptyBatch(batch.floor)

(* The batch after COMMIT: empty, the floors promoted.                     *)
Promoted == EmptyBatch([p \in Publishers |-> Max({batch.floor[p], batch.max[p]})])

FlushPoint == pc \in {"before", "after", "size", "timed"}

(* flush_now on an empty batch returns at once.                            *)
FlushNothing ==
  /\ FlushPoint /\ BatchLen = 0
  /\ Resume(batch)
  /\ UNCHANGED <<deskVars, recvVars, bridge, batch, tables, dropped, faultVars>>

FlushCommits ==
  /\ FlushPoint /\ BatchLen > 0
  /\ CommitTx
  /\ batch' = Promoted
  /\ Resume(batch')
  /\ UNCHANGED <<deskVars, recvVars, bridge, dropped, faultVars>>


(* What a flush that failed after the settlement was taken out of the      *)
(* batch leaves in it.                                                     *)
Taken == [batch EXCEPT !.funding = NoFrame]

(* begin or one of the row statements fails: the batch is retained.        *)
FlushFailsEarly ==
  /\ FlushPoint /\ BatchLen > 0 /\ failures < MaxFailures
  /\ failures' = failures + 1
  /\ Resume(batch)
  /\ UNCHANGED <<deskVars, recvVars, bridge, batch, tables, dropped, loadFailures, crashes>>

(* The settlement, the checkpoints or the commit fails: flush has taken    *)
(* the settlement out of the batch already.                                *)
FlushFailsLate ==
  /\ FlushPoint /\ BatchLen > 0 /\ failures < MaxFailures
  /\ failures' = failures + 1
  /\ batch' = Taken
  /\ Resume(batch')
  /\ UNCHANGED <<deskVars, recvVars, bridge, tables, dropped, loadFailures, crashes>>

(* The transaction commits but the answer is lost.                         *)
FlushAckLost ==
  /\ FlushPoint /\ BatchLen > 0 /\ failures < MaxFailures
  /\ failures' = failures + 1
  /\ CommitTx
  /\ batch' = Taken
  /\ Resume(batch')
  /\ UNCHANGED <<deskVars, recvVars, bridge, dropped, loadFailures, crashes>>

-----------------------------------------------------------------------------
(* The writer process.                                                     *)

Crash ==
  /\ phase # "down" /\ crashes < MaxCrashes
  /\ crashes' = crashes + 1
  /\ phase' = "down"
  /\ image' = << >> /\ bridge' = << >>
  /\ pc' = "idle" /\ frame' = NoFrame /\ batch' = EmptyBatch(None)
  /\ bound' = None /\ played' = None
  /\ UNCHANGED <<deskVars, tables, dropped, failures, loadFailures>>

(* The writer starts: it subscribes, loads the floors and will replay      *)
(* every recording before it goes live.                                    *)
Start(floor) ==
  /\ phase = "down"
  /\ phase' = "replay"
  /\ bound' = [p \in Publishers |-> NotYet]
  /\ batch' = EmptyBatch(floor)
  /\ UNCHANGED <<deskVars, played, image, bridge, pc, frame, tables, dropped, failures, crashes>>

StartLoaded == Start(ckpt) /\ UNCHANGED loadFailures

(* The checkpoints cannot be loaded: the writer warns and starts at zero.  *)
StartAtZero ==
  /\ loadFailures < MaxLoadFailures
  /\ loadFailures' = loadFailures + 1
  /\ Start(None)

DeskNext == \E p \in Publishers : (\E k \in Kinds : Publish(p, k)) \/ PublishFails(p)
RecvNext == GoLive \/ RecvLive \/ \E p \in Publishers : ReplayRecording(p) \/ RecvReplayed(p)
LoopNext == Pop \/ Push \/ FlushDue \/ FlushNothing \/ FlushCommits
FaultNext == FlushFailsEarly \/ FlushFailsLate \/ FlushAckLost \/ Crash

Next == DeskNext \/ RecvNext \/ LoopNext \/ FaultNext \/ StartLoaded \/ StartAtZero

Spec == Init /\ [][Next]_vars

(* Both threads of the writer keep running and the service manager starts  *)
(* it again; the desk may stop publishing, and failures are bounded.       *)
FairSpec ==
  Spec /\ WF_vars(RecvNext) /\ WF_vars(LoopNext) /\ WF_vars(StartLoaded \/ StartAtZero)

-----------------------------------------------------------------------------
Journaled == UNION {Range(journal[p]) : p \in Publishers}
OfKind(k) == {f \in Journaled : f.kind = k}
Settlements == {settled[i].frame : i \in 1 .. Len(settled)}

(* Types of the variables.                                                 *)
Frames == [pub : Publishers, seq : Nat \ {0}, kind : {"data", "funding"}]
TypeOK ==
  /\ seq \in [Publishers -> Nat] /\ journal \in [Publishers -> Seq(Frames)]
  /\ phase \in {"down", "replay", "live"}
  /\ bound \in [Publishers -> Nat \cup {NotYet}] /\ played \in [Publishers -> Nat]
  /\ image \in Seq(Frames) /\ bridge \in Seq(Frames)
  /\ pc \in {"idle", "push", "before", "after", "size", "timed"}
  /\ frame \in Frames \cup {NoFrame}
  /\ batch.rows \in Seq(Frames) /\ batch.funding \in Frames \cup {NoFrame}
  /\ batch.max \in [Publishers -> Nat] /\ batch.floor \in [Publishers -> Nat]
  /\ rows \subseteq Frames /\ latest \in [Publishers -> Nat]
  /\ ckpt \in [Publishers -> Nat] /\ dropped \subseteq Frames
  /\ Settlements \subseteq Frames

(* A checkpoint never runs ahead of the tables: every recorded frame at or *)
(* below it is in them, unless the full bridge dropped it; whatever        *)
(* transactions fail, answers are lost and processes die.                  *)
NothingSkipped ==
  \A f \in OfKind("data") : f.seq <= ckpt[f.pub] => f \in rows \cup dropped

(* The same for settlements.  flush's contract: "a failed flush can be     *)
(* retried without losing accepted frames" (pg_store.rs).                  *)
FundingNotLost ==
  \A f \in OfKind("funding") : f.seq <= ckpt[f.pub] => f \in Settlements \cup dropped

(* A settlement moves money by deltas, so it is applied at most once       *)
(* whatever is replayed or retried (funding.rs: "exactly-once by the       *)
(* existing (publisher, seq) floor"), as long as every start of the writer *)
(* could read the floors.                                                  *)
FundingAtMostOnce ==
  loadFailures = 0 =>
  \A i, j \in 1 .. Len(settled) : settled[i].frame = settled[j].frame => i = j

(* A settlement sees exactly the positions as of its sequence point: all   *)
(* frames of its desk before it and none after it (pg_writer.rs: "so later *)
(* fills can't slip underneath it"), as long as no transaction has failed, *)
(* no frame was dropped and the floors could be read.                      *)
FundingSeesItsPoint ==
  failures = 0 /\ dropped = {} /\ loadFailures = 0 =>
  \A i \in 1 .. Len(settled) :
    LET s == settled[i]
        before == {f.seq : f \in {g \in OfKind("data") :
                                    g.pub = s.frame.pub /\ g.seq < s.frame.seq}}
    IN  s.saw[s.frame.pub] = IF before = {} THEN 0 ELSE Max(before)

(* Rows with absolute state never go back to an older frame of the same    *)
(* desk, also when a batch is retried or a recording replayed from the     *)
(* checkpoint on.                                                          *)
StateNeverRegresses ==
  [][loadFailures = 0 => \A p \in Publishers : latest'[p] >= latest[p]]_vars

=============================================================================
