--------------------------- MODULE EngineRecovery ---------------------------
(***************************************************************************)
(* A symbol thread in journal mode: the archive records the orders stream, *)
(* the engine crashes and a new process rebuilds the book from the last    *)
(* snapshot and the recordings before it serves the live stream            *)
(* (src/src/bin/exchange_engine.rs, transport/journal.rs,                  *)
(* matching/engine_snapshot.rs).                                           *)
(*                                                                         *)
(* Every desk publishes in a session of its own, and the archive keeps one *)
(* recording per session, numbered in the order the sessions began.  The   *)
(* desks outlive the engine, so the recordings are active.  The archive    *)
(* records a frame when it is published.                                   *)
(***************************************************************************)
EXTENDS SymbolThread

CONSTANTS
  Sessions,      \* number of publication sessions
  Frames,        \* requests the desks may publish
  MaxFrames,     \* bound on the frames published
  MaxCrashes,    \* bound on crashes
  MaxSnapshots,  \* bound on snapshots; 0 is SNAPSHOT_INTERVAL_SECS=0
  MaxNow         \* bound on the clock

ASSUME RecoveryAssumption ==
  /\ Sessions \in Nat \ {0}
  /\ MaxFrames \in Nat /\ MaxCrashes \in Nat /\ MaxSnapshots \in Nat /\ MaxNow \in Nat

VARIABLES
  recording,  \* recording[s]: the frames of session s
  phase,      \* "down", "replay" or "live"
  thread,     \* the state of the symbol thread
  applied,    \* history: the frames in the state of the thread, in order
  joined,     \* joined[s]: live position of session s, past the join position
  pending,    \* journal_pending: recordings still to be replayed
  replay,     \* the bounded replay in flight
  base,       \* the snapshot this process started from
  snapshot,   \* the last snapshot saved
  before,     \* history: the state of the last process that crashed while live
  crashes, snapshots, now

vars == <<recording, phase, thread, applied, joined, pending, replay, base,
          snapshot, before, crashes, snapshots, now>>
procVars == <<phase, thread, applied, joined, pending, replay, base>>

-----------------------------------------------------------------------------
SessionIds == 1 .. Sessions
None == [found |-> FALSE]
NoReplay == [session |-> 0, next |-> 1, upto |-> 0]

Apply(st, f, ts) ==
  (IF f.cancel THEN OnCancel(st, f) ELSE OnNewOrder(st, f, ts)).st

Published == UNION {ToSet(recording[s]) : s \in SessionIds}
FrameCount == MapThenSumSet(LAMBDA s : Len(recording[s]), SessionIds)

Init ==
  /\ recording = [s \in SessionIds |-> << >>]
  /\ phase = "live" /\ thread = StartedThread(<< >>, << >>) /\ applied = << >>
  /\ joined = [s \in SessionIds |-> 0]
  /\ pending = << >> /\ replay = NoReplay
  /\ base = None /\ snapshot = None /\ before = None
  /\ crashes = 0 /\ snapshots = 0 /\ now = 1

(* A desk publishes a request: a new order, with an id of its own, or the  *)
(* cancellation of an order that was published.                            *)
Publish(s, f) ==
  /\ FrameCount < MaxFrames
  /\ f \notin Published
  /\ f.cancel => \E g \in Published : ~g.cancel /\ g.id = f.id
  /\ ~f.cancel => \A g \in Published : g.id # f.id
  /\ recording' = [recording EXCEPT ![s] = Append(@, f)]
  /\ UNCHANGED <<procVars, snapshot, before, crashes, snapshots, now>>

(* The thread handles frame k of session s.                                *)
Handle(s, k) ==
  /\ thread' = Apply(thread, recording[s][k], now)
  /\ applied' = Append(applied, <<s, k>>)

(* The live subscriber polls the image of session s.                       *)
LiveFrame(s) ==
  /\ phase = "live" /\ joined[s] < Len(recording[s])
  /\ Handle(s, joined[s] + 1)
  /\ joined' = [joined EXCEPT ![s] = @ + 1]
  /\ UNCHANGED <<recording, phase, pending, replay, base, snapshot, before,
                 crashes, snapshots, now>>

(* The periodic snapshot: the resting book, tagged with the last recording *)
(* and the position the archive has recorded there.                        *)
TakeSnapshot ==
  /\ phase = "live" /\ snapshots < MaxSnapshots
  /\ snapshot' = [found |-> TRUE, book |-> thread.book, applied |-> applied,
                  session |-> Sessions, position |-> Len(recording[Sessions])]
  /\ snapshots' = snapshots + 1
  /\ UNCHANGED <<recording, procVars, before, crashes, now>>

Crash ==
  /\ phase # "down" /\ crashes < MaxCrashes
  /\ crashes' = crashes + 1
  /\ before' = IF phase = "live"
               THEN [found |-> TRUE, book |-> thread.book, applied |-> applied]
               ELSE before
  /\ phase' = "down"
  /\ thread' = StartedThread(<< >>, << >>) /\ applied' = << >>
  /\ joined' = [s \in SessionIds |-> 0]
  /\ pending' = << >> /\ replay' = NoReplay /\ base' = None
  /\ UNCHANGED <<recording, snapshot, snapshots, now>>

MutantJoinPosition(s) == Len(recording[s]) + 1

(* Where the image of session s joins the live subscription.               *)
JoinPosition(s) == Len(recording[s])

(* The start of a process: load_latest and restore_resting, the live       *)
(* subscriber, which joins every session where it now is, and the list of  *)
(* recordings.  The snapshot holds the resting orders only.                *)
Start ==
  /\ phase = "down"
  /\ phase' = "replay"
  /\ base' = snapshot
  /\ thread' = StartedThread(IF snapshot.found THEN snapshot.book ELSE << >>, << >>)
  /\ applied' = IF snapshot.found THEN snapshot.applied ELSE << >>
  /\ joined' = [s \in SessionIds |-> JoinPosition(s)]
  /\ pending' = [s \in SessionIds |-> s]
  /\ UNCHANGED <<recording, replay, snapshot, before, crashes, snapshots, now>>

MutantReplayRange(s) ==
  [session |-> s, next |-> 1, upto |-> Len(recording[s])]

MutantReplayTail(s) ==
  [session |-> s, next |-> base.position + 2, upto |-> Len(recording[s])]

(* replay_from: from the position of the snapshot to what is recorded.     *)
ReplayTail(s) ==
  [session |-> s, next |-> base.position + 1, upto |-> Len(recording[s])]

(* The part of recording s that is replayed: nothing of a recording older  *)
(* than the snapshot's, replay_from for the snapshot's own, and            *)
(* replay_bounded_to the join position for the others.                     *)
ReplayRange(s) ==
  IF base.found /\ s < base.session THEN NoReplay
  ELSE IF base.found /\ s = base.session
  THEN ReplayTail(s)
  ELSE [session |-> s, next |-> 1, upto |-> AtMost(joined[s], Len(recording[s]))]

ReplayDone == replay.next > replay.upto

(* The next pending recording is taken up.                                 *)
BeginReplay ==
  /\ phase = "replay" /\ ReplayDone /\ pending # << >>
  /\ replay' = ReplayRange(Head(pending))
  /\ pending' = Tail(pending)
  /\ UNCHANGED <<recording, phase, thread, applied, joined, base, snapshot,
                 before, crashes, snapshots, now>>

MutantReplayFrame ==
  /\ phase = "replay" /\ ~ReplayDone
  /\ IF recording[replay.session][replay.next].cancel
     THEN /\ applied' = Append(applied, <<replay.session, replay.next>>)
          /\ UNCHANGED thread
     ELSE Handle(replay.session, replay.next)
  /\ replay' = [replay EXCEPT !.next = @ + 1]
  /\ UNCHANGED <<recording, phase, joined, pending, base, snapshot, before,
                 crashes, snapshots, now>>

(* The replay subscriber delivers a frame to the same handlers.            *)
ReplayFrame ==
  /\ phase = "replay" /\ ~ReplayDone
  /\ Handle(replay.session, replay.next)
  /\ replay' = [replay EXCEPT !.next = @ + 1]
  /\ UNCHANGED <<recording, phase, joined, pending, base, snapshot, before,
                 crashes, snapshots, now>>

MutantGoLive ==
  /\ phase = "replay" /\ ReplayDone /\ pending = << >>
  /\ phase' = "live"
  /\ joined' = [s \in SessionIds |-> Len(recording[s])]
  /\ replay' = NoReplay
  /\ UNCHANGED <<recording, thread, applied, pending, base, snapshot,
                 before, crashes, snapshots, now>>

(* The last replay is drained: live input from the join positions on.      *)
GoLive ==
  /\ phase = "replay" /\ ReplayDone /\ pending = << >>
  /\ phase' = "live"
  /\ replay' = NoReplay
  /\ UNCHANGED <<recording, thread, applied, joined, pending, base, snapshot,
                 before, crashes, snapshots, now>>

Tick ==
  /\ now < MaxNow
  /\ now' = now + 1
  /\ UNCHANGED <<recording, procVars, snapshot, before, crashes, snapshots>>

Next ==
  \/ \E s \in SessionIds : (\E f \in Frames : Publish(s, f)) \/ LiveFrame(s)
  \/ TakeSnapshot \/ Crash \/ Start \/ BeginReplay \/ ReplayFrame \/ GoLive
  \/ Tick

Spec == Init /\ [][Next]_vars

-----------------------------------------------------------------------------
(* Types of the variables.                                                 *)
TypeOK ==
  /\ recording \in [SessionIds -> Seq(Frames)]
  /\ phase \in {"down", "replay", "live"}
  /\ \A s \in SessionIds : joined[s] \in 0 .. Len(recording[s])
  /\ replay.session \in 0 .. Sessions
  /\ replay.session > 0 => replay.upto <= Len(recording[replay.session])

(* No frame is applied twice to one book: the replay of an active          *)
(* recording stops where the live subscription took over.                  *)
AppliedOnce == Cardinality(ToSet(applied)) = Len(applied)

(* Once live, the book reflects every frame the live subscription will not *)
(* deliver any more, also those published while no engine ran.             *)
NothingSkipped ==
  phase = "live" =>
    \A s \in SessionIds : \A k \in 1 .. joined[s] : <<s, k>> \in ToSet(applied)

(* A process that starts from a snapshot of the only session misses no     *)
(* frame but those that were recorded and not yet consumed when the        *)
(* snapshot was taken.                                                     *)
LossBoundedBySnapshot ==
  phase = "live" /\ base.found /\ Sessions = 1 =>
    \A k \in 1 .. joined[1] :
      \/ <<1, k>> \in ToSet(applied)
      \/ k <= base.position /\ <<1, k>> \notin ToSet(base.applied)

(* Two books have the same orders, in the same order at every price.       *)
SameBook(b, c) ==
  /\ ToSet(b) = ToSet(c)
  /\ \A m \in ToSet(b) :
       LET AtLevel(n) == n.side = m.side /\ n.price = m.price
       IN  SelectSeq(b, AtLevel) = SelectSeq(c, AtLevel)

(* A rebuilt book that reflects the frames the crashed engine had applied  *)
(* is the book of that engine.                                             *)
BookRebuilt ==
  /\ before.found /\ phase # "down"
  /\ ToSet(applied) = ToSet(before.applied) /\ Len(applied) = Len(before.applied)
  => SameBook(thread.book, before.book)
=============================================================================
