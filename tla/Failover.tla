------------------------------ MODULE Failover ------------------------------
(***************************************************************************)
(* Leader and standby engines of one symbol and the desk that consumes     *)
(* their output: LeaderLease composed with the symbol thread of every      *)
(* process (src/src/bin/exchange_engine.rs, spawn_symbol_thread and        *)
(* publish_order_update) and the two receive loops of the desk             *)
(* (src/src/bin/desk_server.rs).                                           *)
(*                                                                         *)
(* Every process applies the same input frames in the same order, from the *)
(* journal and then live; only a process that takes itself for the leader  *)
(* publishes.  A frame has one order update, and some frames have a trade, *)
(* published before it on a stream of its own.                             *)
(***************************************************************************)
EXTENDS LeaderLease, Sequences

CONSTANTS
  MaxFrames,     \* bound on the input frames
  TradeFrames    \* the frames whose order trades

ASSUME FramesAssumption == MaxFrames \in Nat

VARIABLES
  sent,       \* frames the desk has published on the orders stream
  joinAt,     \* joinAt[p]: frames to replay from the journal before going live
  applied,    \* applied[p]: frames the symbol thread has applied
  batch,      \* batch[p]: leadership read at the head of the loop
  updates,    \* updates[p]: order updates of p the desk has not polled yet
  trades,     \* trades[p]: trades of p the desk has not polled yet; the
              \* epoch they were published under is not part of the message
  lastEpoch,  \* last_order_update_epoch of the desk
  accepted,   \* order updates the desk has applied, in that order
  settled     \* settled[f]: how often the desk has settled the trade of f

threadVars == <<joinAt, applied, batch>>
streamVars == <<updates, trades>>
deskVars == <<lastEpoch, accepted, settled>>
vars == <<leaseVars, sent, threadVars, streamVars, deskVars>>

Frames == 1 .. MaxFrames
Replaying == -2      \* batch[p] while replay_sub is set

Init ==
  /\ LeaseInit
  /\ sent = 0
  /\ joinAt = [p \in Procs |-> 0] /\ applied = [p \in Procs |-> 0]
  /\ batch = [p \in Procs |-> NoEpoch]
  /\ updates = [p \in Procs |-> << >>] /\ trades = [p \in Procs |-> << >>]
  /\ lastEpoch = 0 /\ accepted = << >> /\ settled = [f \in Frames |-> 0]

(* The desk publishes an order or a cancel; the archive records it and all *)
(* running engines receive it.                                             *)
SendFrame ==
  /\ sent < MaxFrames
  /\ sent' = sent + 1
  /\ UNCHANGED <<leaseVars, threadVars, streamVars, deskVars>>

(* An engine starts: what the archive holds is to be replayed, up to the   *)
(* position at which the live subscription joins.                          *)
Start(p) ==
  /\ StartTask(p)
  /\ joinAt' = [joinAt EXCEPT ![p] = sent]
  /\ batch' = [batch EXCEPT ![p] = Replaying]
  /\ UNCHANGED <<sent, applied, streamVars, deskVars>>

(* The head of the loop: publishing needs the replay to be finished and    *)
(* the epoch atomic to be set.                                             *)
BeginBatch(p) ==
  /\ Up(p)
  /\ batch' = [batch EXCEPT ![p] =
                 IF applied[p] < joinAt[p] THEN Replaying ELSE epochOf[p]]
  /\ UNCHANGED <<leaseVars, sent, joinAt, applied, streamVars, deskVars>>

MutantLive(p) == batch[p] # Replaying

(* The local variable `live` of the symbol thread.                         *)
Live(p) == batch[p] # Replaying /\ batch[p] # NoEpoch

(* The thread applies its next frame, from the journal or live, and        *)
(* publishes if the batch is live: the trade first, then the order update  *)
(* stamped with the epoch read at the head of the loop.                    *)
ApplyFrame(p) ==
  LET f == applied[p] + 1 IN
  /\ Up(p) /\ f <= sent
  /\ f <= joinAt[p] <=> batch[p] = Replaying
  /\ applied' = [applied EXCEPT ![p] = f]
  /\ IF Live(p)
     THEN /\ updates' = [updates EXCEPT ![p] =
                           Append(@, [proc |-> p, frame |-> f, epoch |-> batch[p]])]
          /\ trades' = IF f \in TradeFrames
                       THEN [trades EXCEPT ![p] =
                               Append(@, [frame |-> f, epoch |-> batch[p]])]
                       ELSE trades
     ELSE UNCHANGED streamVars
  /\ UNCHANGED <<leaseVars, sent, joinAt, batch, deskVars>>

(* The driver closes the publications of a process that is gone; what the  *)
(* desk has not polled by then is lost.                                    *)
LoseOutput(p) ==
  /\ status[p] = "exited"
  /\ updates' = [updates EXCEPT ![p] = << >>]
  /\ trades' = [trades EXCEPT ![p] = << >>]
  /\ UNCHANGED <<leaseVars, sent, threadVars, deskVars>>

MutantFenced(e) == e + 1 < lastEpoch

(* The epoch check of recv-private.                                        *)
Fenced(e) == e < lastEpoch

(* recv-private polls an order update of p: dropped when it is from a      *)
(* lower epoch than the highest seen, applied otherwise.  A gap in the     *)
(* sequence is only counted.                                               *)
DeskUpdate(p) ==
  /\ updates[p] # << >>
  /\ LET m == Head(updates[p])
     IN  IF Fenced(m.epoch)
         THEN UNCHANGED <<lastEpoch, accepted>>
         ELSE lastEpoch' = m.epoch /\ accepted' = Append(accepted, m)
  /\ updates' = [updates EXCEPT ![p] = Tail(@)]
  /\ UNCHANGED <<leaseVars, sent, threadVars, trades, settled>>

(* recv-public polls a trade of p and settles it; trades carry no epoch.   *)
DeskTrade(p) ==
  /\ trades[p] # << >>
  /\ settled' = [settled EXCEPT ![Head(trades[p]).frame] = @ + 1]
  /\ trades' = [trades EXCEPT ![p] = Tail(@)]
  /\ UNCHANGED <<leaseVars, sent, threadVars, updates, lastEpoch, accepted>>

LeaseStep ==
  /\ \/ \E p \in Procs : TaskStep(p) \/ Fault(p)
     \/ ExpireAbandoned
     \/ ExpireLate
  /\ UNCHANGED <<sent, threadVars, streamVars, deskVars>>

Next ==
  \/ SendFrame
  \/ LeaseStep
  \/ \E p \in Procs :
       \/ Start(p) \/ BeginBatch(p) \/ ApplyFrame(p) \/ LoseOutput(p)
       \/ DeskUpdate(p) \/ DeskTrade(p)

Spec == Init /\ [][Next]_vars

-----------------------------------------------------------------------------
Update == [proc : Procs, frame : Frames, epoch : Nat]
TradeMsg == [frame : Frames, epoch : Nat]

(* Types of the variables.                                                 *)
TypeOK ==
  /\ LeaseTypeOK
  /\ sent \in 0 .. MaxFrames
  /\ joinAt \in [Procs -> 0 .. MaxFrames] /\ applied \in [Procs -> 0 .. MaxFrames]
  /\ batch \in [Procs -> Nat \cup {NoEpoch, Replaying}]
  /\ updates \in [Procs -> Seq(Update)] /\ trades \in [Procs -> Seq(TradeMsg)]
  /\ lastEpoch \in Nat /\ accepted \in Seq(Update)
  /\ settled \in [Frames -> Nat]

(* The order updates the desk applies never mix two leaders: they come in  *)
(* blocks, one process per block, and a process whose block has ended is   *)
(* heard again only under a newer epoch.                                   *)
FencedStream ==
  \A i, j \in 1 .. Len(accepted) : i < j =>
    /\ accepted[i].epoch <= accepted[j].epoch
    /\ accepted[i].epoch = accepted[j].epoch => accepted[i].proc = accepted[j].proc

(* Under one epoch the desk applies the updates in the order of the input  *)
(* frames, none twice.                                                     *)
FramesInOrder ==
  \A i, j \in 1 .. Len(accepted) :
    i < j /\ accepted[i].epoch = accepted[j].epoch =>
      accepted[i].frame < accepted[j].frame

(* leader.rs on the epoch: "stamped into the leader's output stream;       *)
(* consumers drop anything from a lower epoch".  No trade that an          *)
(* ex-leader published is settled once the desk knows a newer epoch.       *)
NoZombieTrades ==
  [][\A p \in Procs :
       /\ trades[p] # << >> /\ trades'[p] = Tail(trades[p])
       /\ Head(trades[p]).epoch < lastEpoch
       => settled' = settled]_vars
=============================================================================
