--------------------------- MODULE FailoverProofs ---------------------------
(***************************************************************************)
(* Fencing works for every number of engine processes, faults and frames:  *)
(* epochs tell all leaders apart (EpochsUnique), and the order updates the *)
(* desk applies never mix two leaders (FencedStream) and follow the input  *)
(* (FramesInOrder).                                                        *)
(*                                                                         *)
(* The argument is about claims.  A process claims an epoch when the epoch *)
(* is in its atomic, in a granted answer that is still under way, in the   *)
(* batch its thread is working on, in an update it has published or in one *)
(* the desk has applied.  Only Execute creates a claim, on an epoch above  *)
(* all others or on the one its process holds already.                     *)
(***************************************************************************)
EXTENDS Failover, TLAPS, SequenceTheorems

Claims(p, e) ==
  \/ epochOf[p] = e
  \/ reply[p] = Granted(e)
  \/ batch[p] = e
  \/ \E k \in 1 .. Len(updates[p]) : updates[p][k].epoch = e
  \/ \E k \in 1 .. Len(accepted) : accepted[k].proc = p /\ accepted[k].epoch = e

(* A claimed epoch is at most the epoch of the row, and the current epoch  *)
(* is claimed by its holder alone.                                         *)
ClaimsBounded ==
  \A p \in Procs, e \in Nat :
    Claims(p, e) => e <= epoch /\ (e = epoch => holder = p)

ClaimsDisjoint ==
  \A p, q \in Procs, e \in Nat : Claims(p, e) /\ Claims(q, e) => p = q

(* Updates under way carry their publisher's name, in the order of frames. *)
StreamsSound ==
  \A p \in Procs :
    /\ \A k \in 1 .. Len(updates[p]) :
         updates[p][k].proc = p /\ updates[p][k].frame <= applied[p]
    /\ \A k, l \in 1 .. Len(updates[p]) :
         k < l => updates[p][k].frame < updates[p][l].frame

AcceptedSound ==
  \A i \in 1 .. Len(accepted) :
    /\ accepted[i].epoch <= lastEpoch
    /\ accepted[i].frame <= applied[accepted[i].proc]
    /\ \A k \in 1 .. Len(updates[accepted[i].proc]) :
         accepted[i].frame < updates[accepted[i].proc][k].frame

Inv ==
  /\ TypeOK
  /\ ClaimsBounded /\ ClaimsDisjoint
  /\ StreamsSound /\ AcceptedSound
  /\ FencedStream /\ FramesInOrder

-----------------------------------------------------------------------------
(* Taking the first element off a sequence, as polling a stream does.      *)
LEMMA TailFacts ==
  ASSUME NEW S, NEW s \in Seq(S), s # << >>
  PROVE  /\ Head(s) = s[1] /\ s[1] \in S /\ Len(s) >= 1
         /\ Tail(s) \in Seq(S) /\ Len(Tail(s)) = Len(s) - 1
         /\ \A k \in 1 .. Len(Tail(s)) : k + 1 \in 1 .. Len(s) /\ Tail(s)[k] = s[k + 1]
  OBVIOUS

(* Publishing at the end of a stream.                                      *)
LEMMA AppendFacts ==
  ASSUME NEW S, NEW s \in Seq(S), NEW x \in S
  PROVE  /\ Append(s, x) \in Seq(S) /\ Len(Append(s, x)) = Len(s) + 1
         /\ Append(s, x)[Len(s) + 1] = x
         /\ \A k \in 1 .. Len(s) : Append(s, x)[k] = s[k]
  OBVIOUS

(* The fields of the updates in a stream.                                  *)
LEMMA UpdateFields ==
  ASSUME NEW s \in Seq(Update)
  PROVE  /\ Len(s) \in Nat
         /\ \A k \in 1 .. Len(s) :
              s[k].proc \in Procs /\ s[k].frame \in Nat /\ s[k].epoch \in Nat
<1> SUFFICES ASSUME NEW k \in 1 .. Len(s)
             PROVE s[k].proc \in Procs /\ s[k].frame \in Nat /\ s[k].epoch \in Nat
  OBVIOUS
<1>1. s[k] \in Update
  OBVIOUS
<1>2. \A f \in Frames : f \in Nat
  BY FramesAssumption DEF Frames
<1> QED
  BY <1>1, <1>2 DEF Update

-----------------------------------------------------------------------------
(* Types are kept by every step.                                           *)
LEMMA TypesStep == TypeOK /\ [Next]_vars => TypeOK'
<1> SUFFICES ASSUME TypeOK, [Next]_vars PROVE TypeOK'
  OBVIOUS
<1> USE FramesAssumption, FaultsAssumption
<1>1. CASE SendFrame
  BY <1>1 DEF TypeOK, LeaseTypeOK, SendFrame, leaseVars, rowVars, taskVars,
     threadVars, streamVars, deskVars
<1>2. CASE LeaseStep
  <2>1. LeaseTypeOK'
    <3>1. ASSUME NEW p \in Procs, Ask(p) PROVE LeaseTypeOK'
      BY <3>1 DEF TypeOK, LeaseTypeOK, Ask, rowVars, Asked, Replies
    <3>2. ASSUME NEW p \in Procs, Execute(p) PROVE LeaseTypeOK'
      <4>1. EpochAfter(p) \in Nat
        BY DEF TypeOK, LeaseTypeOK, EpochAfter
      <4>2. Granted(EpochAfter(p)) \in Replies /\ Denied \in Replies
        BY <4>1 DEF Granted, Denied, Replies
      <4> QED
        BY <3>2, <4>1, <4>2 DEF TypeOK, LeaseTypeOK, Execute, rowVars
    <3>3. ASSUME NEW p \in Procs, OnGranted(p) PROVE LeaseTypeOK'
      BY <3>3 DEF TypeOK, LeaseTypeOK, OnGranted, rowVars, None, Replies
    <3>4. ASSUME NEW p \in Procs, OnRefused(p) PROVE LeaseTypeOK'
      BY <3>4 DEF TypeOK, LeaseTypeOK, OnRefused, rowVars, None, Replies, NoEpoch
    <3>5. ASSUME NEW p \in Procs, QueryFails(p) PROVE LeaseTypeOK'
      BY <3>5 DEF TypeOK, LeaseTypeOK, QueryFails, rowVars, Failed, Replies
    <3>6. ASSUME NEW p \in Procs, Crash(p) PROVE LeaseTypeOK'
      BY <3>6 DEF TypeOK, LeaseTypeOK, Crash, rowVars
    <3>7. CASE ExpireAbandoned
      BY <3>7 DEF TypeOK, LeaseTypeOK, ExpireAbandoned, taskVars
    <3>8. CASE ExpireLate
      BY <3>8 DEF TypeOK, LeaseTypeOK, ExpireLate, taskVars
    <3> QED
      BY <1>2, <3>1, <3>2, <3>3, <3>4, <3>5, <3>6, <3>7, <3>8
         DEF LeaseStep, TaskStep, Fault
  <2> QED
    BY <1>2, <2>1 DEF TypeOK, LeaseStep, threadVars, streamVars, deskVars
<1>3. ASSUME NEW p \in Procs, Start(p) PROVE TypeOK'
  BY <1>3 DEF TypeOK, LeaseTypeOK, Start, StartTask, rowVars, streamVars, deskVars,
     Replaying
<1>4. ASSUME NEW p \in Procs, BeginBatch(p) PROVE TypeOK'
  BY <1>4 DEF TypeOK, LeaseTypeOK, BeginBatch, leaseVars, rowVars, taskVars,
     streamVars, deskVars, Replaying, NoEpoch
<1>5. ASSUME NEW p \in Procs, ApplyFrame(p) PROVE TypeOK'
  <2>1. applied[p] + 1 \in Frames /\ applied' \in [Procs -> 0 .. MaxFrames]
    BY <1>5 DEF TypeOK, ApplyFrame, Frames
  <2>2. CASE Live(p)
    <3>1. batch[p] \in Nat
      BY <2>2 DEF TypeOK, Live
    <3>2. [proc |-> p, frame |-> applied[p] + 1, epoch |-> batch[p]] \in Update
      BY <2>1, <3>1 DEF Update
    <3>3. [frame |-> applied[p] + 1, epoch |-> batch[p]] \in TradeMsg
      BY <2>1, <3>1 DEF TradeMsg
    <3>4. updates' \in [Procs -> Seq(Update)] /\ trades' \in [Procs -> Seq(TradeMsg)]
      <4>1. updates \in [Procs -> Seq(Update)] /\ trades \in [Procs -> Seq(TradeMsg)]
        BY DEF TypeOK
      <4>2. Append(updates[p], [proc |-> p, frame |-> applied[p] + 1, epoch |-> batch[p]])
              \in Seq(Update)
        BY <3>2, <4>1, AppendFacts
      <4>3. Append(trades[p], [frame |-> applied[p] + 1, epoch |-> batch[p]])
              \in Seq(TradeMsg)
        BY <3>3, <4>1, AppendFacts
      <4> QED
        BY <1>5, <2>2, <4>1, <4>2, <4>3 DEF ApplyFrame
    <3> QED
      BY <1>5, <2>1, <3>4 DEF TypeOK, LeaseTypeOK, ApplyFrame, leaseVars, rowVars,
         taskVars, deskVars
  <2>3. CASE ~Live(p)
    BY <1>5, <2>1, <2>3 DEF TypeOK, LeaseTypeOK, ApplyFrame, leaseVars, rowVars,
       taskVars, deskVars, streamVars
  <2> QED
    BY <2>2, <2>3
<1>6. ASSUME NEW p \in Procs, LoseOutput(p) PROVE TypeOK'
  BY <1>6 DEF TypeOK, LeaseTypeOK, LoseOutput, leaseVars, rowVars, taskVars,
     threadVars, deskVars
<1>7. ASSUME NEW p \in Procs, DeskUpdate(p) PROVE TypeOK'
  <2>1. updates[p] \in Seq(Update) /\ updates[p] # << >>
    BY <1>7 DEF TypeOK, DeskUpdate
  <2>2. Head(updates[p]) \in Update /\ Tail(updates[p]) \in Seq(Update)
    BY <2>1, TailFacts
  <2>3. accepted' \in Seq(Update) /\ lastEpoch' \in Nat
    <3>1. accepted \in Seq(Update) /\ lastEpoch \in Nat
      BY DEF TypeOK
    <3>2. Append(accepted, Head(updates[p])) \in Seq(Update)
      BY <2>2, <3>1, AppendFacts
    <3>3. Head(updates[p]).epoch \in Nat
      BY <2>2 DEF Update
    <3> QED
      BY <1>7, <3>1, <3>2, <3>3 DEF DeskUpdate
  <2> QED
    BY <1>7, <2>2, <2>3 DEF TypeOK, LeaseTypeOK, DeskUpdate, leaseVars, rowVars,
       taskVars, threadVars
<1>8. ASSUME NEW p \in Procs, DeskTrade(p) PROVE TypeOK'
  <2>1. trades[p] \in Seq(TradeMsg) /\ trades[p] # << >>
    BY <1>8 DEF TypeOK, DeskTrade
  <2>2. Head(trades[p]) \in TradeMsg /\ Tail(trades[p]) \in Seq(TradeMsg)
    BY <2>1, TailFacts
  <2>3. Head(trades[p]).frame \in Frames
    BY <2>2 DEF TradeMsg
  <2>4. settled' \in [Frames -> Nat] /\ trades' \in [Procs -> Seq(TradeMsg)]
    BY <1>8, <2>2, <2>3 DEF TypeOK, DeskTrade
  <2> QED
    BY <1>8, <2>4 DEF TypeOK, LeaseTypeOK, DeskTrade, leaseVars, rowVars, taskVars,
       threadVars
<1>9. CASE UNCHANGED vars
  BY <1>9 DEF TypeOK, LeaseTypeOK, vars, leaseVars, rowVars, taskVars, threadVars,
     streamVars, deskVars
<1> QED
  BY <1>1, <1>2, <1>3, <1>4, <1>5, <1>6, <1>7, <1>8, <1>9 DEF Next
-----------------------------------------------------------------------------
(* What every process claims after a step that is not Execute it claimed   *)
(* before: claims move from the answer to the atomic, to the batch, to the *)
(* stream and to the desk.                                                 *)
NoNewClaims == \A p \in Procs, e \in Nat : Claims(p, e)' => Claims(p, e)

(* Claims stay bounded and disjoint when none is added and the row keeps   *)
(* its epoch and holder.                                                   *)
LEMMA ClaimsKept ==
  ASSUME ClaimsBounded, ClaimsDisjoint, NoNewClaims, UNCHANGED <<holder, epoch>>
  PROVE  ClaimsBounded' /\ ClaimsDisjoint'
  BY DEF ClaimsBounded, ClaimsDisjoint, NoNewClaims

(* A step that changes nothing but the row's expiry, the status of         *)
(* processes, faults, the frame count and trades makes no claim.           *)
LEMMA ClaimVarsKept ==
  ASSUME UNCHANGED <<epochOf, reply, batch, updates, accepted>>
  PROVE  NoNewClaims
  BY DEF NoNewClaims, Claims

LEMMA ClaimsStep ==
  ASSUME Inv, [Next]_vars
  PROVE  ClaimsBounded' /\ ClaimsDisjoint'
<1> USE DEF Inv
<1>1. CASE SendFrame
  BY <1>1, ClaimVarsKept, ClaimsKept DEF SendFrame, leaseVars, rowVars, taskVars,
     threadVars, streamVars, deskVars
<1>2. CASE LeaseStep
  <2>0. UNCHANGED <<batch, updates, accepted>>
    BY <1>2 DEF LeaseStep, threadVars, streamVars, deskVars
  <2>1. ASSUME NEW p \in Procs, Ask(p) PROVE ClaimsBounded' /\ ClaimsDisjoint'
    <3>1. NoNewClaims
      BY <2>0, <2>1 DEF NoNewClaims, Claims, Ask, Asked, Granted, TypeOK, LeaseTypeOK
    <3> QED
      BY <2>1, <3>1, ClaimsKept DEF Ask, rowVars
  <2>2. ASSUME NEW p \in Procs, Execute(p) PROVE ClaimsBounded' /\ ClaimsDisjoint'
    <3>0. epoch \in Nat /\ EpochAfter(p) \in Nat
      BY DEF TypeOK, LeaseTypeOK, EpochAfter
    <3>1. CASE MayHold(p)
      <4>1. holder' = p /\ epoch' = EpochAfter(p)
        BY <2>2, <3>1 DEF Execute
      <4>2. \A q \in Procs, e \in Nat :
              Claims(q, e)' => Claims(q, e) \/ (q = p /\ e = EpochAfter(p))
        BY <2>0, <2>2, <3>1 DEF Claims, Execute, Granted, TypeOK, LeaseTypeOK
      <4>3. CASE holder = p
        BY <3>0, <4>1, <4>2, <4>3 DEF EpochAfter, ClaimsBounded, ClaimsDisjoint
      <4>4. CASE holder # p
        BY <3>0, <4>1, <4>2, <4>4 DEF EpochAfter, ClaimsBounded, ClaimsDisjoint
      <4> QED
        BY <4>3, <4>4
    <3>2. CASE ~MayHold(p)
      <4>0. /\ reply' = [reply EXCEPT ![p] = Denied] /\ epochOf' = epochOf
            /\ reply \in [Procs -> Replies]
        BY <2>2, <3>2 DEF Execute, TypeOK, LeaseTypeOK
      <4>1. NoNewClaims
        BY <2>0, <4>0 DEF NoNewClaims, Claims, Denied, Granted
      <4> QED
        BY <2>2, <3>2, <4>1, ClaimsKept DEF Execute, rowVars
    <3> QED
      BY <3>1, <3>2
  <2>3. ASSUME NEW p \in Procs, OnGranted(p) PROVE ClaimsBounded' /\ ClaimsDisjoint'
    <3>1. reply[p] = Granted(reply[p].epoch)
      BY <2>3 DEF OnGranted, Granted, TypeOK, LeaseTypeOK, Replies
    <3>2. NoNewClaims
      BY <2>0, <2>3, <3>1 DEF NoNewClaims, Claims, OnGranted, None, Granted, TypeOK,
         LeaseTypeOK
    <3> QED
      BY <2>3, <3>2, ClaimsKept DEF OnGranted, rowVars
  <2>4. ASSUME NEW p \in Procs, OnRefused(p) PROVE ClaimsBounded' /\ ClaimsDisjoint'
    <3>1. NoNewClaims
      BY <2>0, <2>4 DEF NoNewClaims, Claims, OnRefused, None, Granted, NoEpoch, TypeOK,
         LeaseTypeOK
    <3> QED
      BY <2>4, <3>1, ClaimsKept DEF OnRefused, rowVars
  <2>5. ASSUME NEW p \in Procs, QueryFails(p) PROVE ClaimsBounded' /\ ClaimsDisjoint'
    <3>1. NoNewClaims
      BY <2>0, <2>5 DEF NoNewClaims, Claims, QueryFails, Failed, Granted, TypeOK,
         LeaseTypeOK
    <3> QED
      BY <2>5, <3>1, ClaimsKept DEF QueryFails, rowVars
  <2>6. ASSUME NEW p \in Procs, Crash(p) PROVE ClaimsBounded' /\ ClaimsDisjoint'
    BY <2>0, <2>6, ClaimVarsKept, ClaimsKept DEF Crash, rowVars
  <2>7. CASE ExpireAbandoned
    BY <2>0, <2>7, ClaimVarsKept, ClaimsKept DEF ExpireAbandoned, taskVars
  <2>8. CASE ExpireLate
    BY <2>0, <2>8, ClaimVarsKept, ClaimsKept DEF ExpireLate, taskVars
  <2> QED
    BY <1>2, <2>1, <2>2, <2>3, <2>4, <2>5, <2>6, <2>7, <2>8
       DEF LeaseStep, TaskStep, Fault
<1>3. ASSUME NEW p \in Procs, Start(p) PROVE ClaimsBounded' /\ ClaimsDisjoint'
  <2>1. NoNewClaims
    BY <1>3 DEF NoNewClaims, Claims, Start, StartTask, streamVars, deskVars, Replaying,
       TypeOK
  <2> QED
    BY <1>3, <2>1, ClaimsKept DEF Start, StartTask, rowVars
<1>4. ASSUME NEW p \in Procs, BeginBatch(p) PROVE ClaimsBounded' /\ ClaimsDisjoint'
  <2>1. NoNewClaims
    BY <1>4 DEF NoNewClaims, Claims, BeginBatch, leaseVars, taskVars, streamVars,
       deskVars, Replaying, TypeOK
  <2> QED
    BY <1>4, <2>1, ClaimsKept DEF BeginBatch, leaseVars, rowVars
<1>5. ASSUME NEW p \in Procs, ApplyFrame(p) PROVE ClaimsBounded' /\ ClaimsDisjoint'
  <2>0. UNCHANGED <<epochOf, reply, batch, accepted, holder, epoch>>
    BY <1>5 DEF ApplyFrame, leaseVars, rowVars, taskVars, deskVars
  <2>1. CASE Live(p)
    <3> DEFINE m == [proc |-> p, frame |-> applied[p] + 1, epoch |-> batch[p]]
    <3>1. m.epoch = batch[p] /\ m \in Update
      BY <1>5, <2>1, FramesAssumption DEF Live, TypeOK, Update, ApplyFrame, Frames
    <3>2. updates' = [updates EXCEPT ![p] = Append(@, m)]
      BY <1>5, <2>1 DEF ApplyFrame
    <3> HIDE DEF m
    <3>3. updates[p] \in Seq(Update) /\ updates \in [Procs -> Seq(Update)]
      BY DEF TypeOK
    <3>4. \A k \in 1 .. Len(updates[p]') :
            updates[p]'[k] = m \/ (k \in 1 .. Len(updates[p]) /\ updates[p]'[k] = updates[p][k])
      BY <3>1, <3>2, <3>3, AppendFacts
    <3>5. \A q \in Procs : q # p => updates'[q] = updates[q]
      BY <3>2, <3>3
    <3>6. NoNewClaims
      BY <2>0, <3>1, <3>4, <3>5 DEF NoNewClaims, Claims
    <3> QED
      BY <2>0, <3>6, ClaimsKept
  <2>2. CASE ~Live(p)
    BY <1>5, <2>0, <2>2, ClaimVarsKept, ClaimsKept DEF ApplyFrame, streamVars
  <2> QED
    BY <2>1, <2>2
<1>6. ASSUME NEW p \in Procs, LoseOutput(p) PROVE ClaimsBounded' /\ ClaimsDisjoint'
  <2>0. UNCHANGED <<epochOf, reply, batch, accepted>>
    BY <1>6 DEF LoseOutput, leaseVars, taskVars, threadVars, deskVars
  <2>2. /\ Len(updates'[p]) = 0
        /\ \A q \in Procs : q # p => updates'[q] = updates[q]
    BY <1>6 DEF LoseOutput, TypeOK
  <2>1. NoNewClaims
    BY <2>0, <2>2 DEF NoNewClaims, Claims
  <2> QED
    BY <1>6, <2>1, ClaimsKept DEF LoseOutput, leaseVars, rowVars
<1>7. ASSUME NEW p \in Procs, DeskUpdate(p) PROVE ClaimsBounded' /\ ClaimsDisjoint'
  <2>0. UNCHANGED <<epochOf, reply, batch, holder, epoch>>
    BY <1>7 DEF DeskUpdate, leaseVars, rowVars, taskVars, threadVars
  <2> DEFINE m == Head(updates[p])
             t == Tail(updates[p])
  <2>1. updates[p] \in Seq(Update) /\ updates[p] # << >> /\ updates \in [Procs -> Seq(Update)]
        /\ accepted \in Seq(Update)
    BY <1>7 DEF TypeOK, DeskUpdate
  <2>2. /\ m = updates[p][1] /\ m \in Update /\ 1 \in 1 .. Len(updates[p])
        /\ \A k \in 1 .. Len(t) : k + 1 \in 1 .. Len(updates[p]) /\ t[k] = updates[p][k + 1]
    BY <2>1, TailFacts
  <2>3. m.proc = p
    BY <2>2 DEF StreamsSound
  <2>4. updates' = [updates EXCEPT ![p] = t]
    BY <1>7 DEF DeskUpdate
  <2>5. accepted' = accepted \/ accepted' = Append(accepted, m)
    BY <1>7 DEF DeskUpdate
  <2> HIDE DEF m, t
  <2>6. updates'[p] = t /\ \A q \in Procs : q # p => updates'[q] = updates[q]
    BY <2>1, <2>4
  <2>7. \A k \in 1 .. Len(accepted') :
          accepted'[k] = m \/ (k \in 1 .. Len(accepted) /\ accepted'[k] = accepted[k])
    BY <2>1, <2>2, <2>5, AppendFacts
  <2>8. ASSUME NEW q \in Procs, NEW e \in Nat, Claims(q, e)' PROVE Claims(q, e)
    <3>1. ASSUME NEW k \in 1 .. Len(updates[q]'), updates[q]'[k].epoch = e
          PROVE \E j \in 1 .. Len(updates[q]) : updates[q][j].epoch = e
      BY <2>2, <2>6, <3>1
    <3>2. ASSUME NEW k \in 1 .. Len(accepted'), accepted'[k].proc = q, accepted'[k].epoch = e
          PROVE Claims(q, e)
      BY <2>2, <2>3, <2>7, <3>2 DEF Claims
    <3> QED
      BY <2>0, <2>8, <3>1, <3>2 DEF Claims
  <2> QED
    BY <2>0, <2>8, ClaimsKept DEF NoNewClaims
<1>8. ASSUME NEW p \in Procs, DeskTrade(p) PROVE ClaimsBounded' /\ ClaimsDisjoint'
  BY <1>8, ClaimVarsKept, ClaimsKept DEF DeskTrade, leaseVars, rowVars, taskVars,
     threadVars
<1>9. CASE UNCHANGED vars
  BY <1>9, ClaimVarsKept, ClaimsKept DEF vars, leaseVars, rowVars, taskVars,
     threadVars, streamVars, deskVars
<1> QED
  BY <1>1, <1>2, <1>3, <1>4, <1>5, <1>6, <1>7, <1>8, <1>9 DEF Next
-----------------------------------------------------------------------------
(* The streams and the applied updates, over one step.                     *)
DeskInv == StreamsSound /\ AcceptedSound /\ FencedStream /\ FramesInOrder

LEMMA DeskVarsKept ==
  ASSUME DeskInv, UNCHANGED <<applied, updates, accepted, lastEpoch>>
  PROVE  DeskInv'
  BY DEF DeskInv, StreamsSound, AcceptedSound, FencedStream, FramesInOrder

LEMMA DeskApplyFrame ==
  ASSUME Inv, NEW p \in Procs, ApplyFrame(p)
  PROVE  DeskInv'
<1> USE DEF Inv
<1>0. UNCHANGED <<accepted, lastEpoch>> /\ accepted \in Seq(Update)
  BY DEF ApplyFrame, deskVars, TypeOK
<1>1. /\ applied' = [applied EXCEPT ![p] = applied[p] + 1]
      /\ applied \in [Procs -> Nat]
  BY DEF ApplyFrame, TypeOK
<1>2. \A i \in 1 .. Len(accepted) :
        accepted[i].proc \in Procs /\ accepted[i].frame \in Nat /\ accepted[i].epoch \in Nat
  BY <1>0, UpdateFields
<1>3. FencedStream' /\ FramesInOrder'
  BY <1>0 DEF FencedStream, FramesInOrder
<1>4. CASE Live(p)
  <2> DEFINE m == [proc |-> p, frame |-> applied[p] + 1, epoch |-> batch[p]]
  <2>1. /\ m.proc = p /\ m.frame = applied[p] + 1 /\ m \in Update
        /\ updates' = [updates EXCEPT ![p] = Append(@, m)]
    BY <1>4, FramesAssumption, SMTT(30) DEF ApplyFrame, Live, TypeOK, Update, Frames
  <2> HIDE DEF m
  <2>2. updates \in [Procs -> Seq(Update)] /\ updates[p] \in Seq(Update)
    BY DEF TypeOK
  <2>3. /\ \A q \in Procs : q # p => updates'[q] = updates[q]
        /\ Len(updates'[p]) = Len(updates[p]) + 1
        /\ updates'[p][Len(updates[p]) + 1] = m
        /\ \A k \in 1 .. Len(updates[p]) : updates'[p][k] = updates[p][k]
    BY <2>1, <2>2, AppendFacts
  <2>4. \A q \in Procs : Len(updates[q]) \in Nat /\ Len(updates'[q]) \in Nat
                         /\ \A k \in 1 .. Len(updates[q]) : updates[q][k].frame \in Nat
    <3> SUFFICES ASSUME NEW q \in Procs
                 PROVE Len(updates[q]) \in Nat /\ Len(updates'[q]) \in Nat
                       /\ \A k \in 1 .. Len(updates[q]) : updates[q][k].frame \in Nat
      OBVIOUS
    <3>1. updates[q] \in Seq(Update)
      BY <2>2
    <3> QED
      BY <2>3, <3>1, UpdateFields
  <2>5. StreamsSound'
    <3> SUFFICES ASSUME NEW q \in Procs
                 PROVE  /\ \A k \in 1 .. Len(updates'[q]) :
                             updates'[q][k].proc = q /\ updates'[q][k].frame <= applied'[q]
                        /\ \A k, l \in 1 .. Len(updates'[q]) :
                             k < l => updates'[q][k].frame < updates'[q][l].frame
      BY DEF StreamsSound
    <3>1. CASE q # p
      BY <1>1, <2>3, <3>1 DEF StreamsSound
    <3>2. CASE q = p
      BY <1>1, <2>1, <2>3, <2>4, <3>2 DEF StreamsSound
    <3> QED
      BY <3>1, <3>2
  <2>6. AcceptedSound'
    <3> SUFFICES ASSUME NEW i \in 1 .. Len(accepted)
                 PROVE  /\ accepted[i].epoch <= lastEpoch
                        /\ accepted[i].frame <= applied'[accepted[i].proc]
                        /\ \A k \in 1 .. Len(updates'[accepted[i].proc]) :
                             accepted[i].frame < updates'[accepted[i].proc][k].frame
      BY <1>0 DEF AcceptedSound
    <3>1. CASE accepted[i].proc # p
      BY <1>1, <1>2, <2>3, <3>1 DEF AcceptedSound
    <3>2. CASE accepted[i].proc = p
      <4>1. /\ accepted[i].epoch <= lastEpoch /\ accepted[i].frame <= applied[p]
            /\ accepted[i].frame \in Nat /\ applied[p] \in Nat
        BY <1>1, <1>2, <3>2 DEF AcceptedSound
      <4>2. ASSUME NEW k \in 1 .. Len(updates'[p]) PROVE accepted[i].frame < updates'[p][k].frame
        <5>1. CASE k = Len(updates[p]) + 1
          BY <2>1, <2>3, <4>1, <5>1
        <5>2. CASE k \in 1 .. Len(updates[p])
          BY <2>3, <3>2, <5>2 DEF AcceptedSound
        <5> QED
          BY <2>3, <2>4, <5>1, <5>2
      <4> QED
        BY <1>1, <3>2, <4>1, <4>2
    <3> QED
      BY <3>1, <3>2
  <2> QED
    BY <1>3, <2>5, <2>6 DEF DeskInv
<1>5. CASE ~Live(p)
  <2>1. updates' = updates
    BY <1>5 DEF ApplyFrame, streamVars
  <2>2. \A q \in Procs : Len(updates[q]) \in Nat
                         /\ \A k \in 1 .. Len(updates[q]) : updates[q][k].frame \in Nat
    <3> SUFFICES ASSUME NEW q \in Procs
                 PROVE Len(updates[q]) \in Nat
                       /\ \A k \in 1 .. Len(updates[q]) : updates[q][k].frame \in Nat
      OBVIOUS
    <3>1. updates[q] \in Seq(Update)
      BY DEF TypeOK
    <3> QED
      BY <3>1, UpdateFields
  <2>3. StreamsSound' /\ AcceptedSound'
    BY <1>0, <1>1, <1>2, <2>1, <2>2 DEF StreamsSound, AcceptedSound
  <2> QED
    BY <1>3, <2>3 DEF DeskInv
<1> QED
  BY <1>4, <1>5

LEMMA DeskLoseOutput ==
  ASSUME Inv, NEW p \in Procs, LoseOutput(p)
  PROVE  DeskInv'
<1>1. UNCHANGED <<applied, accepted, lastEpoch>>
  BY DEF LoseOutput, threadVars, deskVars
<1>2. Len(updates'[p]) = 0 /\ \A q \in Procs : q # p => updates'[q] = updates[q]
  BY DEF LoseOutput, Inv, TypeOK
<1>3. \A i \in 1 .. Len(accepted) : accepted[i].proc \in Procs
  BY UpdateFields DEF Inv, TypeOK
<1>4. StreamsSound'
  <2> SUFFICES ASSUME NEW q \in Procs
               PROVE  /\ \A k \in 1 .. Len(updates'[q]) :
                           updates'[q][k].proc = q /\ updates'[q][k].frame <= applied[q]
                      /\ \A k, l \in 1 .. Len(updates'[q]) :
                           k < l => updates'[q][k].frame < updates'[q][l].frame
    BY <1>1 DEF StreamsSound
  <2> QED
    BY <1>2 DEF Inv, StreamsSound
<1>5. AcceptedSound'
  <2> SUFFICES ASSUME NEW i \in 1 .. Len(accepted)
               PROVE  \A k \in 1 .. Len(updates'[accepted[i].proc]) :
                        accepted[i].frame < updates'[accepted[i].proc][k].frame
    BY <1>1 DEF Inv, AcceptedSound
  <2> QED
    BY <1>2, <1>3 DEF Inv, AcceptedSound
<1> QED
  BY <1>1, <1>4, <1>5 DEF Inv, DeskInv, FencedStream, FramesInOrder

LEMMA DeskDeskUpdate ==
  ASSUME Inv, NEW p \in Procs, DeskUpdate(p)
  PROVE  DeskInv'
<1> USE DEF Inv
<1>0. /\ applied' = applied /\ accepted \in Seq(Update) /\ lastEpoch \in Nat
      /\ updates \in [Procs -> Seq(Update)] /\ updates[p] \in Seq(Update)
      /\ updates[p] # << >>
  BY DEF DeskUpdate, threadVars, TypeOK
<1> DEFINE m == Head(updates[p])
           t == Tail(updates[p])
<1>1. /\ m = updates[p][1] /\ m \in Update /\ 1 \in 1 .. Len(updates[p])
      /\ Len(t) \in Nat /\ Len(updates[p]) \in Nat
      /\ \A k \in 1 .. Len(t) : k + 1 \in 1 .. Len(updates[p]) /\ t[k] = updates[p][k + 1]
  BY <1>0, TailFacts
<1>2. updates' = [updates EXCEPT ![p] = t]
  BY DEF DeskUpdate
<1>3. \/ Fenced(m.epoch) /\ UNCHANGED <<lastEpoch, accepted>>
      \/ ~Fenced(m.epoch) /\ lastEpoch' = m.epoch /\ accepted' = Append(accepted, m)
  BY DEF DeskUpdate
<1> HIDE DEF m, t
<1>4. updates'[p] = t /\ \A q \in Procs : q # p => updates'[q] = updates[q]
  BY <1>0, <1>2
<1>5. /\ m.proc = p /\ m.frame \in Nat /\ m.epoch \in Nat /\ m.frame <= applied[p]
      /\ \A k \in 1 .. Len(t) : m.frame < t[k].frame /\ t[k].frame \in Nat
  <2>1. \A k \in 1 .. Len(updates[p]) : updates[p][k].frame \in Nat
    BY <1>0, UpdateFields
  <2>2. m.proc = p /\ m.frame <= applied[p]
    BY <1>1 DEF StreamsSound
  <2>3. \A k \in 1 .. Len(t) : m.frame < t[k].frame
    BY <1>1 DEF StreamsSound
  <2> QED
    BY <1>1, <2>1, <2>2, <2>3 DEF Update, Frames
<1>6. \A i \in 1 .. Len(accepted) :
        accepted[i].proc \in Procs /\ accepted[i].frame \in Nat /\ accepted[i].epoch \in Nat
  BY <1>0, UpdateFields
<1>7. StreamsSound'
  <2> SUFFICES ASSUME NEW q \in Procs
               PROVE  /\ \A k \in 1 .. Len(updates'[q]) :
                           updates'[q][k].proc = q /\ updates'[q][k].frame <= applied[q]
                      /\ \A k, l \in 1 .. Len(updates'[q]) :
                           k < l => updates'[q][k].frame < updates'[q][l].frame
    BY <1>0 DEF StreamsSound
  <2>1. CASE q # p
    BY <1>4, <2>1 DEF StreamsSound
  <2>2. CASE q = p
    <3>1. ASSUME NEW k \in 1 .. Len(t), NEW l \in 1 .. Len(t), k < l
          PROVE t[k].frame < t[l].frame
      <4>1. k + 1 \in 1 .. Len(updates[p]) /\ l + 1 \in 1 .. Len(updates[p]) /\ k + 1 < l + 1
        BY <1>1, <3>1
      <4>2. updates[p][k + 1].frame < updates[p][l + 1].frame
        BY <4>1 DEF StreamsSound
      <4> QED
        BY <1>1, <4>2
    <3>2. ASSUME NEW k \in 1 .. Len(t) PROVE t[k].proc = p /\ t[k].frame <= applied[p]
      BY <1>1 DEF StreamsSound
    <3> QED
      BY <1>4, <2>2, <3>1, <3>2
  <2> QED
    BY <2>1, <2>2
<1>8. CASE accepted' = accepted /\ lastEpoch' = lastEpoch
  <2>1. AcceptedSound'
    <3> SUFFICES ASSUME NEW i \in 1 .. Len(accepted)
                 PROVE  \A k \in 1 .. Len(updates'[accepted[i].proc]) :
                          accepted[i].frame < updates'[accepted[i].proc][k].frame
      BY <1>0, <1>8 DEF AcceptedSound
    <3>1. CASE accepted[i].proc = p
      <4>1. ASSUME NEW k \in 1 .. Len(t) PROVE accepted[i].frame < t[k].frame
        BY <1>1, <3>1 DEF AcceptedSound
      <4> QED
        BY <1>4, <3>1, <4>1
    <3>2. CASE accepted[i].proc # p
      BY <1>4, <1>6, <3>2 DEF AcceptedSound
    <3> QED
      BY <3>1, <3>2
  <2> QED
    BY <1>7, <1>8, <2>1 DEF DeskInv, FencedStream, FramesInOrder
<1>9. CASE ~Fenced(m.epoch) /\ lastEpoch' = m.epoch /\ accepted' = Append(accepted, m)
  <2>1. lastEpoch <= m.epoch
    BY <1>0, <1>5, <1>9 DEF Fenced
  <2>2. /\ Len(accepted') = Len(accepted) + 1 /\ Len(accepted) \in Nat
        /\ accepted'[Len(accepted) + 1] = m
        /\ \A k \in 1 .. Len(accepted) : accepted'[k] = accepted[k]
    BY <1>0, <1>1, <1>9, AppendFacts
  <2>3. ASSUME NEW i \in 1 .. Len(accepted)
        PROVE  /\ accepted[i].epoch <= m.epoch
               /\ accepted[i].epoch = m.epoch => accepted[i].proc = p
               /\ accepted[i].epoch = m.epoch => accepted[i].frame < m.frame
    <3>1. accepted[i].epoch <= m.epoch
      BY <1>0, <1>5, <1>6, <2>1 DEF AcceptedSound
    <3>2. accepted[i].epoch = m.epoch => accepted[i].proc = p
      <4>1. Claims(p, m.epoch)
        BY <1>1 DEF Claims
      <4>2. Claims(accepted[i].proc, accepted[i].epoch)
        BY DEF Claims
      <4> QED
        BY <1>5, <1>6, <4>1, <4>2 DEF ClaimsDisjoint
    <3>3. accepted[i].proc = p => accepted[i].frame < m.frame
      BY <1>1 DEF AcceptedSound
    <3> QED
      BY <3>1, <3>2, <3>3
  <2>4. AcceptedSound'
    <3> SUFFICES ASSUME NEW i \in 1 .. Len(accepted')
                 PROVE  /\ accepted'[i].epoch <= m.epoch
                        /\ accepted'[i].frame <= applied[accepted'[i].proc]
                        /\ \A k \in 1 .. Len(updates'[accepted'[i].proc]) :
                             accepted'[i].frame < updates'[accepted'[i].proc][k].frame
      BY <1>0, <1>9 DEF AcceptedSound
    <3>1. CASE i = Len(accepted) + 1
      BY <1>4, <1>5, <2>2, <3>1
    <3>2. CASE i \in 1 .. Len(accepted)
      <4>1. accepted'[i] = accepted[i]
        BY <2>2, <3>2
      <4>2. CASE accepted[i].proc = p
        <5>1. ASSUME NEW k \in 1 .. Len(t) PROVE accepted[i].frame < t[k].frame
          BY <1>1, <3>2, <4>2 DEF AcceptedSound
        <5>2. accepted[i].epoch <= m.epoch /\ accepted[i].frame <= applied[p]
          BY <2>3, <3>2, <4>2 DEF AcceptedSound
        <5> QED
          BY <1>4, <4>1, <4>2, <5>1, <5>2
      <4>3. CASE accepted[i].proc # p
        BY <1>4, <1>6, <2>3, <3>2, <4>1, <4>3 DEF AcceptedSound
      <4> QED
        BY <4>2, <4>3
    <3> QED
      BY <2>2, <3>1, <3>2
  <2>5. FencedStream' /\ FramesInOrder'
    <3> SUFFICES ASSUME NEW i \in 1 .. Len(accepted'), NEW j \in 1 .. Len(accepted'), i < j
                 PROVE  /\ accepted'[i].epoch <= accepted'[j].epoch
                        /\ accepted'[i].epoch = accepted'[j].epoch =>
                             /\ accepted'[i].proc = accepted'[j].proc
                             /\ accepted'[i].frame < accepted'[j].frame
      BY DEF FencedStream, FramesInOrder
    <3>1. i \in 1 .. Len(accepted) /\ accepted'[i] = accepted[i]
      BY <2>2
    <3>2. CASE j = Len(accepted) + 1
      BY <1>5, <2>2, <2>3, <3>1, <3>2
    <3>3. CASE j \in 1 .. Len(accepted)
      BY <2>2, <3>1, <3>3 DEF FencedStream, FramesInOrder
    <3> QED
      BY <2>2, <3>2, <3>3
  <2> QED
    BY <1>7, <2>4, <2>5 DEF DeskInv
<1> QED
  BY <1>3, <1>8, <1>9

-----------------------------------------------------------------------------
LEMMA InvInit == Init => Inv
<1> SUFFICES ASSUME Init PROVE Inv
  OBVIOUS
<1> USE FramesAssumption DEF Init, LeaseInit
<1>1. TypeOK
  BY DEF TypeOK, LeaseTypeOK, None, Replies, NoEpoch, Frames
<1>2. \A p \in Procs, e \in Nat : ~Claims(p, e)
  BY DEF Claims, None, Granted, NoEpoch
<1>3. DeskInv
  BY DEF DeskInv, StreamsSound, AcceptedSound, FencedStream, FramesInOrder
<1> QED
  BY <1>1, <1>2, <1>3 DEF Inv, ClaimsBounded, ClaimsDisjoint, DeskInv

LEMMA InvStep == Inv /\ [Next]_vars => Inv'
<1> SUFFICES ASSUME Inv, [Next]_vars PROVE Inv'
  OBVIOUS
<1>1. TypeOK'
  BY TypesStep DEF Inv
<1>2. ClaimsBounded' /\ ClaimsDisjoint'
  BY ClaimsStep
<1>3. DeskInv'
  <2>0. DeskInv
    BY DEF Inv, DeskInv
  <2>1. CASE SendFrame
    BY <2>0, <2>1, DeskVarsKept DEF SendFrame, threadVars, streamVars, deskVars
  <2>2. CASE LeaseStep
    BY <2>0, <2>2, DeskVarsKept DEF LeaseStep, threadVars, streamVars, deskVars
  <2>3. ASSUME NEW p \in Procs, Start(p) \/ BeginBatch(p) PROVE DeskInv'
    BY <2>0, <2>3, DeskVarsKept DEF Start, BeginBatch, streamVars, deskVars
  <2>4. ASSUME NEW p \in Procs, ApplyFrame(p) PROVE DeskInv'
    BY <2>4, DeskApplyFrame
  <2>5. ASSUME NEW p \in Procs, LoseOutput(p) PROVE DeskInv'
    BY <2>5, DeskLoseOutput
  <2>6. ASSUME NEW p \in Procs, DeskUpdate(p) PROVE DeskInv'
    BY <2>6, DeskDeskUpdate
  <2>7. ASSUME NEW p \in Procs, DeskTrade(p) PROVE DeskInv'
    BY <2>0, <2>7, DeskVarsKept DEF DeskTrade, threadVars
  <2>8. CASE UNCHANGED vars
    BY <2>0, <2>8, DeskVarsKept DEF vars, threadVars, streamVars, deskVars
  <2> QED
    BY <2>1, <2>2, <2>3, <2>4, <2>5, <2>6, <2>7, <2>8 DEF Next
<1> QED
  BY <1>1, <1>2, <1>3 DEF Inv, DeskInv

LEMMA InvAlways == Spec => []Inv
  BY InvInit, InvStep, PTL DEF Spec

(* Type correctness of leaders, standbys, streams and desk.                *)
THEOREM FailoverTypes == Spec => []TypeOK
<1>1. Inv => TypeOK
  BY DEF Inv
<1> QED
  BY <1>1, InvAlways, PTL

(* The lease hands every epoch to one process only: no two processes ever  *)
(* believe in the same epoch, whatever the delays and faults.              *)
THEOREM EpochsAlwaysUnique == Spec => []EpochsUnique
<1>1. Inv => EpochsUnique
  BY DEF Inv, TypeOK, LeaseTypeOK, ClaimsDisjoint, Claims, EpochsUnique
<1> QED
  BY <1>1, InvAlways, PTL

(* The order updates the desk applies never mix two leaders.               *)
THEOREM StreamAlwaysFenced == Spec => []FencedStream
<1>1. Inv => FencedStream
  BY DEF Inv
<1> QED
  BY <1>1, InvAlways, PTL

(* Under one epoch no update is applied out of order or twice.             *)
THEOREM FramesAlwaysInOrder == Spec => []FramesInOrder
<1>1. Inv => FramesInOrder
  BY DEF Inv
<1> QED
  BY <1>1, InvAlways, PTL
=============================================================================
