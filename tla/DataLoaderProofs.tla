-------------------------- MODULE DataLoaderProofs --------------------------
(***************************************************************************)
(* Theorems about DataLoader, for every number of examples, micro-batch    *)
(* size, channel capacity and number of calls.                             *)
(***************************************************************************)
EXTENDS DataLoader, FiniteSetTheorems, SequenceTheorems, TLAPS

(* What each channel holds, and how far each loader is.                     *)
Delivered(c) ==
  /\ got[c] \in Seq(Nat) /\ channel[c] \in Seq(Nat) /\ next[c] \in Nat
  /\ \A i \in 1 .. Len(got[c]) : got[c][i] = i
  /\ Len(got[c]) < next[c]
  /\ rx[c] => /\ next[c] <= MicroBatches + 1
              /\ Len(got[c]) + Len(channel[c]) = next[c] - 1
              /\ \A i \in 1 .. Len(channel[c]) : channel[c][i] = Len(got[c]) + i
              /\ loader[c] = "sending" => next[c] <= MicroBatches
              /\ loader[c] = "exited" => next[c] > MicroBatches

(* Which call is being served.                                              *)
Control ==
  /\ calls \in 0 .. MaxCalls
  /\ trainer \in {"idle", "recv", "busy"}
  /\ trainer # "idle" => calls # 0
  /\ trainer = "busy" => got[calls] # << >>
  /\ loader \in [Calls -> {"none", "working", "sending", "exited", "panicked"}]
  /\ rx \in [Calls -> BOOLEAN]
  /\ got = [c \in Calls |-> got[c]]
  /\ channel = [c \in Calls |-> channel[c]]
  /\ next = [c \in Calls |-> next[c]]
  /\ \A c \in Calls : rx[c] <=> c = calls /\ trainer # "idle"
  /\ \A c \in Calls : c > calls =>
       /\ loader[c] = "none" /\ next[c] = 1
       /\ got[c] = << >> /\ channel[c] = << >>

LoaderInv == Control /\ \A c \in Calls : Delivered(c)

LEMMA MicroBatchesType == MicroBatches \in Nat /\ MicroBatches > 0
BY LoaderAssumption DEF MicroBatches

LEMMA InitLoaderInv == Init => LoaderInv
<1> SUFFICES ASSUME Init PROVE LoaderInv
  OBVIOUS
<1>1. Control
  BY LoaderAssumption DEF Init, Control, Calls
<1>2. ASSUME NEW c \in Calls PROVE Delivered(c)
  BY <1>2, MicroBatchesType DEF Init, Delivered
<1> QED
  BY <1>1, <1>2 DEF LoaderInv

LEMMA CallStep == LoaderInv /\ CallTrainEpoch => LoaderInv'
<1> SUFFICES ASSUME LoaderInv, CallTrainEpoch PROVE LoaderInv'
  OBVIOUS
<1>1. calls + 1 \in Calls /\ calls' = calls + 1
  BY LoaderAssumption DEF CallTrainEpoch, LoaderInv, Control, Calls
<1>2. Control'
  BY <1>1, LoaderAssumption DEF CallTrainEpoch, LoaderInv, Control, Calls
<1>3. ASSUME NEW c \in Calls PROVE Delivered(c)'
  <2>1. CASE c = calls + 1
    <3>1. got[c] = << >> /\ channel[c] = << >> /\ next[c] = 1
      BY <1>1, <2>1 DEF LoaderInv, Control, Calls
    <3>2. loader'[c] = "working"
      BY <1>1, <2>1 DEF CallTrainEpoch, LoaderInv, Control
    <3> QED
      BY <3>1, <3>2, MicroBatchesType DEF CallTrainEpoch, Delivered
  <2>2. CASE c # calls + 1
    BY <1>1, <2>2 DEF CallTrainEpoch, LoaderInv, Control, Delivered
  <2> QED
    BY <2>1, <2>2
<1> QED
  BY <1>2, <1>3 DEF LoaderInv

(* A step of one loader thread.  Only Send touches a channel.               *)
LEMMA LoaderStepInv ==
  ASSUME LoaderInv, NEW l \in Calls, LoaderStep(l)
  PROVE  LoaderInv'
<1> USE DEF LoaderInv
<1>1. UNCHANGED <<calls, trainer, rx, got>>
  BY DEF LoaderStep, Prepare, Send, SendFails, Finish, Panics
<1>2. l <= calls
  <2>1. loader[l] # "none" /\ l \in Int /\ calls \in Int
    BY LoaderAssumption
    DEF LoaderStep, Prepare, Send, SendFails, Finish, Panics, Control, Calls
  <2> QED
    BY <2>1 DEF Control
<1>3. Control'
  <2>1. /\ loader' \in [Calls -> {"none", "working", "sending", "exited", "panicked"}]
        /\ channel' = [c \in Calls |-> channel'[c]]
        /\ next' = [c \in Calls |-> next'[c]]
    BY DEF LoaderStep, Prepare, Send, SendFails, Finish, Panics, Control
  <2>2. \A c \in Calls : c # l =>
          loader'[c] = loader[c] /\ next'[c] = next[c] /\ channel'[c] = channel[c]
    BY DEF LoaderStep, Prepare, Send, SendFails, Finish, Panics, Control
  <2>3. \A c \in Calls : c > calls =>
          /\ loader'[c] = "none" /\ next'[c] = 1
          /\ got[c] = << >> /\ channel'[c] = << >>
    BY <1>2, <2>2, LoaderAssumption DEF Control, Calls
  <2> QED
    BY <1>1, <2>1, <2>3 DEF Control
<1>4. ASSUME NEW c \in Calls PROVE Delivered(c)'
  <2>1. Delivered(c) /\ rx[c] \in BOOLEAN
    BY DEF Control
  <2>2. CASE c # l
    <3>1. loader'[c] = loader[c] /\ next'[c] = next[c] /\ channel'[c] = channel[c]
      BY <2>2 DEF LoaderStep, Prepare, Send, SendFails, Finish, Panics, Control
    <3> QED
      BY <1>1, <2>1, <3>1 DEF Delivered
  <2>3. CASE c = l /\ Send(l)
    <3>1. /\ loader'[c] = "working" /\ next'[c] = next[c] + 1
          /\ channel'[c] = Append(channel[c], next[c])
          /\ loader[c] = "sending" /\ rx[c]
      BY <2>3 DEF Send, Control
    <3>2. /\ Len(channel'[c]) = Len(channel[c]) + 1 /\ channel'[c] \in Seq(Nat)
          /\ \A i \in 1 .. Len(channel[c]) : channel'[c][i] = channel[c][i]
          /\ channel'[c][Len(channel[c]) + 1] = next[c]
      BY <2>1, <3>1 DEF Delivered
    <3>3. next[c] <= MicroBatches /\ Len(got[c]) + Len(channel[c]) = next[c] - 1
      BY <2>1, <3>1 DEF Delivered
    <3>4. Len(got[c]) \in Nat /\ Len(channel[c]) \in Nat /\ next[c] \in Nat
      BY <2>1 DEF Delivered
    <3>5. /\ next[c] = Len(got[c]) + (Len(channel[c]) + 1)
          /\ next[c] + 1 \in Nat /\ next[c] + 1 <= MicroBatches + 1
          /\ Len(got[c]) + (Len(channel[c]) + 1) = (next[c] + 1) - 1
          /\ Len(got[c]) < next[c] + 1
      <4> DEFINE g == Len(got[c])
                 b == Len(channel[c])
                 n == next[c]
                 m == MicroBatches
      <4>1. /\ g \in Nat /\ b \in Nat /\ n \in Nat /\ m \in Nat
            /\ n <= m /\ g + b = n - 1
        BY <3>3, <3>4, MicroBatchesType
      <4>2. /\ n = g + (b + 1)
            /\ n + 1 \in Nat /\ n + 1 <= m + 1
            /\ g + (b + 1) = (n + 1) - 1 /\ g < n + 1
        <5> HIDE DEF g, b, n, m
        <5> QED
          BY <4>1
      <4> QED
        BY <4>2, Zenon
    <3>6. \A i \in 1 .. Len(channel'[c]) : channel'[c][i] = Len(got[c]) + i
      <4>1. \A i \in 1 .. Len(channel[c]) : channel'[c][i] = Len(got[c]) + i
        BY <2>1, <3>1, <3>2 DEF Delivered
      <4>2. channel'[c][Len(channel[c]) + 1] = Len(got[c]) + (Len(channel[c]) + 1)
        BY <3>2, <3>5
      <4>3. \A i \in 1 .. Len(channel'[c]) :
              i \in 1 .. Len(channel[c]) \/ i = Len(channel[c]) + 1
        BY <2>1, <3>2 DEF Delivered
      <4> QED
        BY <4>1, <4>2, <4>3
    <3> QED
      <4>1. /\ got'[c] = got[c] /\ rx'[c] = rx[c]
            /\ got[c] \in Seq(Nat) /\ \A i \in 1 .. Len(got[c]) : got[c][i] = i
        BY <1>1, <2>1 DEF Delivered
      <4>4. Len(got[c]) < next'[c]
        BY <3>1, <3>5
      <4>2. /\ next'[c] \in Nat /\ next'[c] <= MicroBatches + 1
            /\ Len(got[c]) + Len(channel'[c]) = next'[c] - 1
        BY <3>1, <3>2, <3>5
      <4>3. loader'[c] # "sending" /\ loader'[c] # "exited"
        BY <3>1
      <4> QED
        BY <3>2, <3>6, <4>1, <4>2, <4>3, <4>4 DEF Delivered
  <2>4. CASE c = l /\ Prepare(l)
    BY <1>1, <2>1, <2>4 DEF Prepare, Control, Delivered
  <2>5. CASE c = l /\ SendFails(l)
    BY <1>1, <2>1, <2>5 DEF SendFails, Control, Delivered
  <2>6. CASE c = l /\ Finish(l)
    BY <1>1, <2>1, <2>6 DEF Finish, Control, Delivered
  <2>7. CASE c = l /\ Panics(l)
    BY <1>1, <2>1, <2>7 DEF Panics, Control, Delivered
  <2> QED
    BY <2>2, <2>3, <2>4, <2>5, <2>6, <2>7 DEF LoaderStep
<1> QED
  BY <1>3, <1>4

(* A step of the trainer: the head of the channel moves to what it got, or  *)
(* it drops the receiver.                                                   *)
LEMMA TrainerStepInv ==
  ASSUME LoaderInv, TrainerStep
  PROVE  LoaderInv'
<1> USE DEF LoaderInv
<1>1. UNCHANGED <<calls, loader, next>>
  BY DEF TrainerStep, Recv, Processed, Leave, Disconnected
<1>2. trainer # "idle" /\ calls \in Calls /\ rx[calls] /\ Delivered(calls)
  BY LoaderAssumption
  DEF TrainerStep, Recv, Processed, Leave, Disconnected, Control, Calls
<1>3. \A c \in Calls : c # calls =>
        /\ got'[c] = got[c] /\ channel'[c] = channel[c] /\ rx'[c] = rx[c]
  BY DEF TrainerStep, Recv, Processed, Leave, Disconnected, DropReceiver, Control
<1>4. Control'
  <2>1. /\ got' = [c \in Calls |-> got'[c]]
        /\ channel' = [c \in Calls |-> channel'[c]]
        /\ next' = [c \in Calls |-> next'[c]]
        /\ rx' \in [Calls -> BOOLEAN]
        /\ trainer' \in {"idle", "recv", "busy"}
    BY DEF TrainerStep, Recv, Processed, Leave, Disconnected, DropReceiver, Control
  <2>2. rx'[calls] <=> trainer' # "idle"
    BY <1>2 DEF TrainerStep, Recv, Processed, Leave, Disconnected, DropReceiver, Control
  <2>3. \A c \in Calls : rx'[c] <=> c = calls /\ trainer' # "idle"
    BY <1>2, <1>3, <2>2 DEF Control
  <2>4. \A c \in Calls : c > calls =>
          /\ loader[c] = "none" /\ next[c] = 1
          /\ got'[c] = << >> /\ channel'[c] = << >>
    BY <1>2, <1>3 DEF Control, Calls
  <2>5. ASSUME trainer' = "busy" PROVE got'[calls] # << >>
    <3>1. Recv
      BY <2>5 DEF TrainerStep, Recv, Processed, Leave, Disconnected, DropReceiver
    <3>2. got[calls] \in Seq(Nat) /\ channel[calls] # << >> /\ channel[calls] \in Seq(Nat)
      BY <1>2, <3>1 DEF Recv, Delivered
    <3>3. got'[calls] = Append(got[calls], Head(channel[calls]))
      BY <1>2, <3>1 DEF Recv, Control
    <3> QED
      <4>1. Head(channel[calls]) \in Nat
        BY <3>2, HeadTailProperties
      <4>2. Len(got'[calls]) = Len(got[calls]) + 1 /\ Len(got[calls]) \in Nat
        BY <3>2, <3>3, <4>1, LenProperties
      <4> QED
        BY <4>2
  <2> QED
    BY <1>1, <1>2, <2>1, <2>3, <2>4, <2>5 DEF Control, Calls
<1>5. ASSUME NEW c \in Calls PROVE Delivered(c)'
  <2>1. CASE c # calls
    BY <1>1, <1>3, <2>1 DEF Delivered
  <2>2. CASE c = calls /\ Recv
    <3> DEFINE g == got[c]
               b == channel[c]
    <3>1. /\ g \in Seq(Nat) /\ b \in Seq(Nat) /\ b # << >>
          /\ \A i \in 1 .. Len(g) : g[i] = i
          /\ \A i \in 1 .. Len(b) : b[i] = Len(g) + i
          /\ Len(g) + Len(b) = next[c] - 1
      BY <1>2, <2>2 DEF Recv, Delivered
    <3>2. got'[c] = Append(g, Head(b)) /\ channel'[c] = Tail(b) /\ rx'[c] = rx[c]
      BY <2>2 DEF Recv, Control
    <3>3. next[c] \in Nat /\ next'[c] = next[c] /\ loader'[c] = loader[c]
      BY <1>1, <1>2, <2>2 DEF Delivered
    <3> HIDE DEF g, b
    <3>4. Head(b) = Len(g) + 1 /\ Len(g) \in Nat /\ Len(b) \in Nat /\ Len(b) > 0
      BY <3>1
    <3>5. got'[c] \in Seq(Nat) /\ Len(got'[c]) = Len(g) + 1
          /\ \A i \in 1 .. Len(got'[c]) : got'[c][i] = i
      <4> DEFINE h == Append(g, Head(b))
      <4>1. Head(b) \in Nat
        BY <3>4
      <4>2. /\ h \in Seq(Nat) /\ Len(h) = Len(g) + 1
            /\ \A i \in 1 .. Len(g) : h[i] = g[i]
            /\ h[Len(g) + 1] = Head(b)
        BY <3>1, <4>1, AppendProperties
      <4>3. got'[c] = h
        BY <3>2
      <4> HIDE DEF h
      <4>4. \A i \in 1 .. Len(h) : i \in 1 .. Len(g) \/ i = Len(g) + 1
        BY <3>4, <4>2
      <4>5. \A i \in 1 .. Len(h) : h[i] = i
        BY <3>1, <3>4, <4>2, <4>4
      <4> QED
        BY <4>2, <4>3, <4>5
    <3>6. channel'[c] \in Seq(Nat) /\ Len(channel'[c]) = Len(b) - 1
          /\ \A i \in 1 .. Len(b) - 1 : channel'[c][i] = b[i + 1]
      BY <3>1, <3>2, <3>4
    <3>7. \A i \in 1 .. Len(channel'[c]) : channel'[c][i] = Len(got'[c]) + i
      BY <3>1, <3>4, <3>5, <3>6
    <3>8. Len(got'[c]) + Len(channel'[c]) = next'[c] - 1
      BY <3>1, <3>3, <3>4, <3>5, <3>6
    <3>10. Len(got'[c]) < next'[c]
      BY <3>1, <3>3, <3>4, <3>5
    <3>9. /\ next'[c] \in Nat /\ next'[c] <= MicroBatches + 1
          /\ loader'[c] = "sending" => next'[c] <= MicroBatches
          /\ loader'[c] = "exited" => next'[c] > MicroBatches
      BY <1>2, <2>2, <3>3 DEF Delivered
    <3> QED
      BY <3>5, <3>6, <3>7, <3>8, <3>9, <3>10 DEF Delivered
  <2>3. CASE c = calls /\ Processed
    BY <1>2, <2>3 DEF Processed, Delivered
  <2>4. CASE c = calls /\ DropReceiver /\ UNCHANGED got
    <3>1. ~ rx'[c] /\ channel'[c] = << >>
      BY <2>4 DEF DropReceiver, Control
    <3> QED
      BY <1>1, <1>2, <2>4, <3>1 DEF Delivered
  <2> QED
    BY <2>1, <2>2, <2>3, <2>4 DEF TrainerStep, Leave, Disconnected
<1> QED
  BY <1>4, <1>5

LEMMA StepLoaderInv == LoaderInv /\ [Next]_vars => LoaderInv'
<1> SUFFICES ASSUME LoaderInv, [Next]_vars PROVE LoaderInv'
  OBVIOUS
<1>1. CASE UNCHANGED vars
  BY <1>1 DEF vars, LoaderInv, Control, Delivered
<1> QED
  BY <1>1, CallStep, LoaderStepInv, TrainerStepInv DEF Next

(* At every step of both threads: control, and what each loader has sent,  *)
(* what is buffered and what train_epoch got fit together.                  *)
THEOREM LoaderInvariant == Spec => []LoaderInv
BY InitLoaderInv, StepLoaderInv, PTL DEF Spec

-----------------------------------------------------------------------------
LEMMA InvInOrder == LoaderInv => InOrder
<1> SUFFICES ASSUME LoaderInv, NEW c \in Calls, rx[c]
             PROVE  got[c] \o channel[c] = [i \in 1 .. next[c] - 1 |-> i]
  BY DEF InOrder
<1> DEFINE g == got[c]
           b == channel[c]
           n == next[c]
<1>1. /\ g \in Seq(Nat) /\ b \in Seq(Nat) /\ n \in Nat
      /\ \A i \in 1 .. Len(g) : g[i] = i
      /\ \A i \in 1 .. Len(b) : b[i] = Len(g) + i
      /\ Len(g) + Len(b) = n - 1
  BY DEF LoaderInv, Delivered
<1> HIDE DEF g, b, n
<1>2. /\ g \o b \in Seq(Nat) /\ Len(g) \in Nat /\ Len(b) \in Nat
      /\ Len(g \o b) = n - 1
      /\ \A i \in 1 .. n - 1 :
           (g \o b)[i] = IF i <= Len(g) THEN g[i] ELSE b[i - Len(g)]
  BY <1>1, ConcatProperties, LenProperties
<1>3. ASSUME NEW i \in 1 .. n - 1 PROVE (g \o b)[i] = i
  <2>1. i \in Int /\ i >= 1 /\ i <= Len(g) + Len(b)
    BY <1>1, <1>2
  <2>2. CASE i <= Len(g)
    BY <1>1, <1>2, <2>1, <2>2
  <2>3. CASE i > Len(g)
    <3>1. i - Len(g) \in 1 .. Len(b) /\ Len(g) + (i - Len(g)) = i
      BY <1>2, <2>1, <2>3
    <3>2. (g \o b)[i] = b[i - Len(g)]
      BY <1>2, <2>1, <2>3
    <3> QED
      BY <1>1, <3>1, <3>2
  <2> QED
    BY <1>2, <2>1, <2>2, <2>3
<1>4. g \o b = [i \in 1 .. n - 1 |-> (g \o b)[i]]
  <2>1. g \o b \in [1 .. n - 1 -> Nat]
    BY <1>2, LenProperties
  <2> QED
    BY <2>1, Zenon
<1>5. g \o b = [i \in 1 .. n - 1 |-> i]
  BY <1>3, <1>4
<1> QED
  BY <1>5 DEF g, b, n

(* Whatever the two threads do, what train_epoch received followed by what  *)
(* is buffered is what the loader sent, in order (InOrder).                 *)
THEOREM LoaderInOrder == Spec => []InOrder
BY LoaderInvariant, InvInOrder, PTL

-----------------------------------------------------------------------------
(* No channel holds more than it has room for, and a dropped one nothing.   *)
ChannelInv ==
  \A c \in Calls : Len(channel[c]) <= Capacity /\ (~ rx[c] => channel[c] = << >>)

LEMMA InitChannelInv == Init => ChannelInv
BY LoaderAssumption DEF Init, ChannelInv

LEMMA StepChannelInv == LoaderInv /\ ChannelInv /\ [Next]_vars => ChannelInv'
<1> SUFFICES ASSUME LoaderInv, ChannelInv, [Next]_vars,
                    NEW c \in Calls
             PROVE  Len(channel'[c]) <= Capacity /\ (~ rx'[c] => channel'[c] = << >>)
  BY DEF ChannelInv
<1>1. /\ channel[c] \in Seq(Nat) /\ next[c] \in Nat /\ Capacity \in Nat
      /\ Len(channel[c]) <= Capacity /\ (~ rx[c] => channel[c] = << >>)
      /\ DOMAIN channel = Calls /\ rx \in [Calls -> BOOLEAN]
  <2>1. channel = [d \in Calls |-> channel[d]] /\ rx \in [Calls -> BOOLEAN] /\ Delivered(c)
    BY DEF LoaderInv, Control
  <2>2. DOMAIN channel = Calls
    BY <2>1, Zenon
  <2> QED
    BY <2>1, <2>2, LoaderAssumption DEF Delivered, ChannelInv
<1>2. CASE UNCHANGED <<channel, rx>>
  BY <1>1, <1>2
<1>3. CASE CallTrainEpoch
  BY <1>1, <1>3 DEF CallTrainEpoch
<1>4. ASSUME NEW l \in Calls, Send(l)
      PROVE  Len(channel'[c]) <= Capacity /\ (~ rx'[c] => channel'[c] = << >>)
  <2>1. CASE l = c
    <3>1. channel'[c] = Append(channel[c], next[c]) /\ rx'[c] /\ Len(channel[c]) < Capacity
      BY <1>1, <1>4, <2>1 DEF Send, HasRoom
    <3>2. Len(channel'[c]) = Len(channel[c]) + 1
      BY <1>1, <3>1
    <3> QED
      BY <1>1, <3>1, <3>2
  <2>2. CASE l # c
    BY <1>1, <1>4, <2>2 DEF Send
  <2> QED
    BY <2>1, <2>2
<1>5. CASE Recv
  <2>1. rx' = rx /\ (channel'[c] = channel[c]
                       \/ (channel[c] # << >> /\ channel'[c] = Tail(channel[c])))
    <3>1. CASE c = calls
      BY <1>1, <1>5, <3>1 DEF Recv
    <3>2. CASE c # calls
      BY <1>1, <1>5, <3>2 DEF Recv
    <3> QED
      BY <3>1, <3>2
  <2>2. \A s \in Seq(Nat) : s # << >> => Len(Tail(s)) = Len(s) - 1 /\ Len(s) \in Nat
    OBVIOUS
  <2> QED
    BY <1>1, <2>1, <2>2
<1>6. CASE DropReceiver
  <2>1. channel'[c] = << >> \/ (channel'[c] = channel[c] /\ rx'[c] = rx[c])
    <3>1. CASE c = calls
      BY <1>1, <1>6, <3>1 DEF DropReceiver
    <3>2. CASE c # calls
      BY <1>1, <1>6, <3>2 DEF DropReceiver
    <3> QED
      BY <3>1, <3>2
  <2> QED
    BY <1>1, <2>1, <1>6 DEF DropReceiver
<1> QED
  BY <1>2, <1>3, <1>4, <1>5, <1>6
  DEF Next, TrainerStep, LoaderStep, Prepare, SendFails, Finish, Panics, Processed,
      Leave, Disconnected, vars

(* Also when its receiver is gone: a loader leaves behind what it has sent, *)
(* at most one channel full, and sends nothing more.                        *)
PrefetchInv == \A c \in Calls : next[c] - 1 <= Len(got[c]) + Capacity

LEMMA InitPrefetchInv == Init => PrefetchInv
BY LoaderAssumption DEF Init, PrefetchInv

LEMMA StepPrefetchInv ==
  LoaderInv /\ LoaderInv' /\ ChannelInv' /\ PrefetchInv /\ [Next]_vars => PrefetchInv'
<1> SUFFICES ASSUME LoaderInv, LoaderInv', ChannelInv', PrefetchInv, [Next]_vars,
                    NEW c \in Calls
             PROVE  next'[c] - 1 <= Len(got'[c]) + Capacity
  BY DEF PrefetchInv, Calls
<1>1. CASE rx'[c]
  <2> DEFINE g == Len(got'[c])
             b == Len(channel'[c])
             n == next'[c]
  <2>1. got'[c] \in Seq(Nat) /\ channel'[c] \in Seq(Nat) /\ n \in Nat /\ g + b = n - 1
    BY <1>1 DEF LoaderInv, Delivered
  <2>2. g \in Nat /\ b \in Nat /\ b <= Capacity /\ Capacity \in Nat
    BY <2>1, LoaderAssumption DEF ChannelInv
  <2> HIDE DEF g, b, n
  <2>3. n - 1 <= g + Capacity
    BY <2>1, <2>2
  <2> QED
    BY <2>3 DEF g, n
<1>2. CASE ~ rx'[c]
  <2>1. next'[c] = next[c] /\ got'[c] = got[c]
    BY <1>2
    DEF Next, vars, CallTrainEpoch, TrainerStep, Recv, Processed, Leave, Disconnected,
        DropReceiver, LoaderStep, Prepare, Send, SendFails, Finish, Panics, LoaderInv, Control
  <2> QED
    BY <2>1 DEF PrefetchInv
<1> QED
  BY <1>1, <1>2

(* Over its whole life a loader prepares at most one channel full and the   *)
(* one micro-batch it is blocked with more than train_epoch takes from it   *)
(* (AsyncDataLoader::start), also one that train_epoch walked away from.    *)
THEOREM PrefetchIsBounded == Spec => []BoundedPrefetch
<1>1. LoaderInv /\ PrefetchInv => BoundedPrefetch
  <2> SUFFICES ASSUME LoaderInv, PrefetchInv, NEW c \in Calls
               PROVE  Prepared(c) <= Len(got[c]) + Capacity + 1
    BY DEF BoundedPrefetch
  <2>1. got[c] \in Seq(Nat) /\ next[c] \in Nat
    BY DEF LoaderInv, Delivered
  <2>3. /\ Len(got[c]) \in Nat /\ Capacity \in Nat
        /\ next[c] - 1 <= Len(got[c]) + Capacity
    BY <2>1, LoaderAssumption DEF PrefetchInv
  <2>2. Prepared(c) = next[c] \/ Prepared(c) = next[c] - 1
    BY DEF Prepared
  <2> QED
    BY <2>1, <2>2, <2>3
<1> QED
  BY <1>1, InitLoaderInv, StepLoaderInv, InitChannelInv, StepChannelInv,
     InitPrefetchInv, StepPrefetchInv, PTL DEF Spec

-----------------------------------------------------------------------------
(* The threads and the channel implement the stream of EpochStream.         *)
LEMMA InitStream == Init => Stream!Init
BY DEF Init, Stream!Init

(* Reading the head of the channel delivers the next micro-batch: there is  *)
(* one left, because the loader sends no more than there are.               *)
LEMMA RecvDelivers == LoaderInv /\ Recv => Stream!Deliver
<1> SUFFICES ASSUME LoaderInv, Recv PROVE Stream!Deliver
  OBVIOUS
<1>1. /\ calls \in Calls /\ calls # 0 /\ rx[calls] /\ Delivered(calls)
      /\ trainer = "recv" /\ trainer' = "busy" /\ UNCHANGED <<calls, loader>>
  BY LoaderAssumption DEF LoaderInv, Control, Recv, Calls
<1> DEFINE g == got[calls]
           b == channel[calls]
<1>2. /\ g \in Seq(Nat) /\ b \in Seq(Nat) /\ b # << >> /\ next[calls] \in Nat
      /\ Len(g) + Len(b) = next[calls] - 1 /\ next[calls] <= MicroBatches + 1
      /\ got'[calls] = Append(g, Head(b))
  <2>1. b # << >> /\ got'[calls] = Append(g, Head(b))
    BY <1>1 DEF Recv, LoaderInv, Control
  <2> QED
    BY <1>1, <2>1 DEF Delivered
<1>3. Len(got'[calls]) = Len(g) + 1 /\ Len(g) < MicroBatches
  <2> DEFINE n == next[calls]
             m == MicroBatches
  <2>1. /\ n \in Nat /\ m \in Nat /\ n <= m + 1 /\ Len(g) + Len(b) = n - 1
    BY <1>2, MicroBatchesType
  <2> HIDE DEF g, b, n, m
  <2>2. Len(g) \in Nat /\ Len(b) \in Nat /\ Len(b) > 0 /\ Head(b) \in Nat
    BY <1>2
  <2>3. Len(got'[calls]) = Len(g) + 1
    BY <1>2, <2>2
  <2>4. Len(g) < m
    BY <2>1, <2>2
  <2> QED
    BY <2>3, <2>4 DEF m
<1> QED
  BY <1>1, <1>3 DEF Stream!Deliver

(* The stream ends only after the last micro-batch: the loader has left     *)
(* nothing unsent, since the receiver was there, and nothing in the channel.*)
(* A loader that panicked ends it early.                                    *)
LEMMA DisconnectedEnds == LoaderInv /\ Disconnected => Stream!End \/ Stream!Abandon
<1> SUFFICES ASSUME LoaderInv, Disconnected PROVE Stream!End \/ Stream!Abandon
  OBVIOUS
<1>1. /\ calls \in Calls /\ calls # 0 /\ rx[calls] /\ Delivered(calls)
      /\ loader[calls] \in {"exited", "panicked"} /\ channel[calls] = << >>
      /\ trainer = "recv" /\ trainer' = "idle" /\ UNCHANGED <<calls, got, loader>>
  BY LoaderAssumption
  DEF LoaderInv, Control, Disconnected, DropReceiver, Calls
<1>2. CASE loader[calls] = "exited"
  <2> DEFINE g == Len(got[calls])
             n == next[calls]
             m == MicroBatches
  <2>1. /\ g \in Nat /\ n \in Nat /\ m \in Nat
        /\ n <= m + 1 /\ n > m /\ g + 0 = n - 1
    BY <1>1, <1>2, MicroBatchesType DEF Delivered
  <2>2. g = m
    <3> HIDE DEF g, n, m
    <3> QED
      BY <2>1
  <2> QED
    BY <1>1, <2>2 DEF Stream!End
<1>3. CASE loader[calls] = "panicked"
  BY <1>1, <1>3 DEF Stream!Abandon
<1> QED
  BY <1>1, <1>2, <1>3

(* A panic of the loader of this call breaks the stream before its end; one *)
(* of a loader that was left behind is not seen.                            *)
LEMMA LoaderBreaks ==
  ASSUME LoaderInv, NEW l \in Calls, LoaderStep(l)
  PROVE  Stream!Break \/ UNCHANGED Stream!vars
<1>1. UNCHANGED <<calls, trainer, got>> /\ Delivered(l)
  BY DEF LoaderStep, Prepare, Send, SendFails, Finish, Panics, LoaderInv
<1>4. calls \in Calls
  <2>1. loader[l] # "none" /\ l \in Int /\ l >= 1 /\ calls \in 0 .. MaxCalls
    BY LoaderAssumption
    DEF LoaderStep, Prepare, Send, SendFails, Finish, Panics, LoaderInv, Control, Calls
  <2>2. l <= calls
    BY <2>1 DEF LoaderInv, Control
  <2> QED
    BY <2>1, <2>2, LoaderAssumption DEF Calls
<1>2. CASE loader'[calls] = "panicked" <=> loader[calls] = "panicked"
  BY <1>1, <1>2 DEF Stream!vars
<1>3. CASE ~ (loader'[calls] = "panicked" <=> loader[calls] = "panicked")
  <2>1. calls = l /\ Panics(l) /\ loader'[l] = "panicked"
    BY <1>3, <1>4 DEF LoaderStep, Prepare, Send, SendFails, Finish, Panics, LoaderInv, Control
  <2>2. calls # 0 /\ calls \in Nat /\ loader[calls] # "panicked" /\ calls > 0
    BY <2>1, LoaderAssumption DEF Panics, Calls
  <2>3. Len(got[calls]) < MicroBatches
    <3> DEFINE g == Len(got[calls])
               n == next[calls]
               m == MicroBatches
    <3>1. g \in Nat /\ n \in Nat /\ m \in Nat /\ g < n /\ n <= m
      BY <1>1, <2>1, MicroBatchesType DEF Delivered, Panics
    <3>2. g < m
      <4> HIDE DEF g, n, m
      <4> QED
        BY <3>1
    <3> QED
      BY <3>2
  <2> QED
    BY <1>1, <2>1, <2>2, <2>3 DEF Stream!Break
<1> QED
  BY <1>2, <1>3

LEMMA StepStream == LoaderInv /\ [Next]_vars => [Stream!Next]_(Stream!vars)
<1> SUFFICES ASSUME LoaderInv, [Next]_vars
             PROVE  Stream!Next \/ UNCHANGED Stream!vars
  OBVIOUS
<1>0. calls \in 0 .. MaxCalls /\ (trainer # "idle" => calls # 0) /\ MaxCalls \in Nat
  BY LoaderAssumption DEF LoaderInv, Control
<1>1. CASE UNCHANGED vars
  BY <1>1 DEF vars, Stream!vars
<1>2. CASE CallTrainEpoch
  <2>1. calls + 1 \in Calls /\ calls + 1 > calls /\ calls' = calls + 1 /\ calls' # 0
    BY <1>0, <1>2 DEF CallTrainEpoch, Calls
  <2>2. got'[calls'] = << >> /\ loader'[calls'] = "working"
    BY <1>2, <2>1 DEF CallTrainEpoch, LoaderInv, Control
  <2> QED
    BY <1>0, <1>2, <2>1, <2>2 DEF CallTrainEpoch, Stream!Next, Stream!Begin
<1>3. CASE Recv
  BY <1>3, RecvDelivers DEF Stream!Next
<1>4. CASE Processed
  BY <1>4 DEF Processed, Stream!vars
<1>5. CASE Leave
  <2>1. got[calls] # << >>
    BY <1>5 DEF Leave, LoaderInv, Control
  <2> QED
    BY <1>0, <1>5, <2>1 DEF Leave, DropReceiver, Stream!Next, Stream!Abandon
<1>6. CASE Disconnected
  BY <1>6, DisconnectedEnds DEF Stream!Next
<1>7. CASE \E c \in Calls : LoaderStep(c)
  BY <1>7, LoaderBreaks DEF Stream!Next
<1> QED
  BY <1>1, <1>2, <1>3, <1>4, <1>5, <1>6, <1>7 DEF Next, TrainerStep

(* Every behaviour of the two threads and the channel is one of the stream  *)
(* that train_epoch relies on.                                              *)
THEOREM LoaderIsAStream == Spec => StreamSpec
<1>1. Init /\ [][Next]_vars => Stream!Init /\ [][Stream!Next]_(Stream!vars)
  BY InitLoaderInv, StepLoaderInv, InitStream, StepStream, PTL
<1> QED
  BY <1>1, PTL DEF Spec, StreamSpec, Stream!Spec

-----------------------------------------------------------------------------
(* Types, also of the loaders that train_epoch walked away from.            *)
TypeInv ==
  /\ TypeOK
  /\ trainer # "idle" => calls \in Calls
  /\ \A c \in Calls : loader[c] = "sending" => next[c] <= MicroBatches

LEMMA InitTypeInv == Init => TypeInv
BY MicroBatchesType, LoaderAssumption DEF Init, TypeInv, TypeOK

LEMMA StepTypeInv == TypeInv /\ [Next]_vars => TypeInv'
<1> SUFFICES ASSUME TypeInv, [Next]_vars PROVE TypeInv'
  OBVIOUS
<1>0. MicroBatches \in Nat /\ MicroBatches > 0
  BY MicroBatchesType
<1>1. CASE CallTrainEpoch
  <2>1. calls + 1 \in Calls /\ calls + 1 \in 0 .. MaxCalls
    BY <1>1, LoaderAssumption DEF CallTrainEpoch, TypeInv, TypeOK, Calls
  <2> QED
    BY <1>1, <2>1 DEF CallTrainEpoch, TypeInv, TypeOK
<1>2. ASSUME NEW c \in Calls, Prepare(c) \/ SendFails(c) \/ Finish(c) \/ Panics(c)
      PROVE  TypeInv'
  BY <1>2 DEF Prepare, SendFails, Finish, Panics, TypeInv, TypeOK
<1>3. ASSUME NEW c \in Calls, Send(c) PROVE TypeInv'
  <2>1. next[c] \in 1 .. MicroBatches /\ next[c] + 1 \in 1 .. MicroBatches + 1
    BY <1>0, <1>3 DEF Send, TypeInv, TypeOK
  <2>2. /\ channel' = [channel EXCEPT ![c] = Append(channel[c], next[c])]
        /\ next' = [next EXCEPT ![c] = next[c] + 1]
        /\ loader' = [loader EXCEPT ![c] = "working"]
        /\ UNCHANGED <<calls, trainer, order, rx, got, drained>>
    BY <1>3 DEF Send
  <2>3. channel' \in [Calls -> Seq(1 .. MicroBatches)]
    BY <2>1, <2>2 DEF TypeInv, TypeOK
  <2>4. next' \in [Calls -> 1 .. MicroBatches + 1]
    BY <2>1, <2>2 DEF TypeInv, TypeOK
  <2> QED
    BY <2>2, <2>3, <2>4 DEF TypeInv, TypeOK
<1>4. CASE Recv
  <2>1. calls \in Calls /\ channel[calls] \in Seq(1 .. MicroBatches)
        /\ got[calls] \in Seq(1 .. MicroBatches)
    BY <1>4 DEF Recv, TypeInv, TypeOK
  <2>2. /\ Append(got[calls], Head(channel[calls])) \in Seq(1 .. MicroBatches)
        /\ Tail(channel[calls]) \in Seq(1 .. MicroBatches)
    <3>1. channel[calls] # << >>
      BY <1>4 DEF Recv
    <3>2. Head(channel[calls]) \in 1 .. MicroBatches
      BY <2>1, <3>1, HeadTailProperties
    <3>3. Tail(channel[calls]) \in Seq(1 .. MicroBatches)
      BY <2>1, <3>1, HeadTailProperties
    <3> QED
      BY <2>1, <3>2, <3>3, AppendProperties
  <2>3. /\ got' \in [Calls -> Seq(1 .. MicroBatches)]
        /\ channel' \in [Calls -> Seq(1 .. MicroBatches)]
    BY <1>4, <2>2 DEF Recv, TypeInv, TypeOK
  <2> QED
    BY <1>4, <2>1, <2>3 DEF Recv, TypeInv, TypeOK
<1>5. CASE Processed
  BY <1>5 DEF Processed, TypeInv, TypeOK
<1>6. CASE Leave \/ Disconnected
  <2>1. << >> \in Seq(1 .. MicroBatches)
    OBVIOUS
  <2> QED
    BY <1>6, <2>1 DEF Leave, Disconnected, DropReceiver, TypeInv, TypeOK
<1>7. CASE UNCHANGED vars
  BY <1>7 DEF vars, TypeInv, TypeOK
<1> QED
  BY <1>1, <1>2, <1>3, <1>4, <1>5, <1>6, <1>7 DEF Next, TrainerStep, LoaderStep

(* Every variable keeps its type.                                           *)
THEOREM DataLoaderType == Spec => []TypeOK
<1>1. TypeInv => TypeOK
  BY DEF TypeInv
<1> QED
  BY <1>1, InitTypeInv, StepTypeInv, PTL DEF Spec

-----------------------------------------------------------------------------
(* Completeness of a drained epoch counts: it needs the least element of a   *)
(* set of positions, and the one chunk each position lies in.                *)
LEMMA LeastElement ==
  ASSUME NEW S \in SUBSET Nat, S # {}
  PROVE  \E x \in S : \A y \in S : x <= y
<1> DEFINE R == {p \in Nat \X Nat : p[1] < p[2]}
<1>1. R = OpToRel(<, Nat)
  BY DEF OpToRel
<1>2. IsWellFoundedOn(R, Nat)
  BY <1>1, NatLessThanWellFounded
<1>3. PICK x \in S : \A y \in S : <<y, x>> \notin R
  <2> HIDE DEF R
  <2> QED
    BY <1>2, WFMin
<1>4. ASSUME NEW y \in S PROVE x <= y
  <2>1. x \in Nat /\ y \in Nat /\ <<y, x>> \in Nat \X Nat
    OBVIOUS
  <2>2. ~ y < x
    BY <1>3, <2>1
  <2> QED
    BY <2>1, <2>2
<1> QED
  BY <1>4

LEMMA Multiples ==
  ASSUME NEW m \in Nat \ {0}, NEW a \in Int, NEW b \in Int, a < b
  PROVE  a * m \in Int /\ b * m \in Int /\ (a + 1) * m = a * m + m /\ a * m + m <= b * m
<1>1. a * m \in Int /\ b * m \in Int /\ (a + 1) * m = a * m + m
  BY SMT
<1>2. b * m = a * m + (b - a) * m /\ (b - a) * m = (b - a - 1) * m + m
  BY SMT
<1>3. (b - a - 1) * m >= 0
  <2>1. b - a - 1 \in Nat
    OBVIOUS
  <2> QED
    BY <2>1, SMT
<1> QED
  BY <1>1, <1>2, <1>3

LEMMA Quotient ==
  ASSUME NEW n \in Nat, NEW m \in Nat \ {0}
  PROVE  \E k \in Nat : /\ k = n \div m /\ k * m \in Nat
                        /\ k * m <= n /\ n < k * m + m
<1> DEFINE k == n \div m
<1>1. n % m \in 0 .. m - 1 /\ k \in Int
  BY SMT
<1>2. n = m * k + (n % m)
  BY SMT
<1>3. m * k = k * m /\ k * m \in Int
  BY <1>1, SMT
<1> HIDE DEF k
<1>4. k * m <= n /\ n < k * m + m
  BY <1>1, <1>2, <1>3
<1>5. k \in Nat
  <2> SUFFICES ASSUME k < 0 PROVE FALSE
    BY <1>1
  <2>1. k * m + m <= 0 * m /\ 0 * m = 0
    BY <1>1, Multiples
  <2> QED
    BY <1>3, <1>4, <2>1
<1>6. k * m \in Nat
  BY <1>5
<1> QED
  BY <1>4, <1>5, <1>6 DEF k

(* Every position of the shuffled indices lies in one chunk.                *)
LEMMA OneChunk ==
  ASSUME NEW p \in Indices
  PROVE  \E k \in 1 .. MicroBatches : p \in Chunk(k) /\ \A j \in Int : p \in Chunk(j) => j = k
<1> DEFINE m == MicroBatchSize
           e == Examples
<1>1. m \in Nat \ {0} /\ e \in Nat \ {0} /\ p \in 1 .. e
  BY LoaderAssumption DEF Indices
<1>2. PICK d \in Nat : d * m \in Nat /\ d * m <= p - 1 /\ p - 1 < d * m + m
  <2>1. p - 1 \in Nat
    BY <1>1
  <2> QED
    BY <1>1, <2>1, Quotient
<1>3. PICK n \in Nat : n = MicroBatches /\ n * m \in Nat /\ n * m <= e + m - 1
                       /\ e + m - 1 < n * m + m
  <2>1. e + m - 1 \in Nat
    BY <1>1
  <2> QED
    BY <1>1, <2>1, Quotient DEF MicroBatches
<1>4. d < n
  <2> SUFFICES ASSUME n <= d PROVE FALSE
    OBVIOUS
  <2>1. n * m <= d * m
    BY <1>1, <1>2, <1>3, Multiples
  <2> QED
    BY <1>1, <1>2, <1>3, <2>1
<1> DEFINE k == d + 1
<1>5. k \in 1 .. MicroBatches /\ k - 1 = d
  BY <1>3, <1>4
<1>6. k * m = d * m + m
  <2>1. d < k /\ d \in Int /\ k \in Int
    OBVIOUS
  <2> QED
    BY <1>1, <2>1, Multiples
<1>7. p \in Chunk(k)
  <2>1. ChunkEnd(k) = IF k * m < e THEN k * m ELSE e
    BY DEF ChunkEnd
  <2>2. p \in d * m + 1 .. ChunkEnd(k)
    <3> HIDE DEF k
    <3> QED
      BY <1>1, <1>2, <1>6, <2>1
  <2> HIDE DEF k
  <2> QED
    BY <1>5, <2>2 DEF Chunk
<1>8. ASSUME NEW j \in Int, p \in Chunk(j) PROVE j = k
  <2>1. /\ j * m \in Int /\ (j - 1) * m \in Int /\ (j - 1) * m + m = j * m
    <3>1. j - 1 \in Int /\ j - 1 < j /\ (j - 1) + 1 = j
      OBVIOUS
    <3> QED
      BY <1>1, <3>1, Multiples
  <2>2. (j - 1) * m + 1 <= p /\ p <= j * m
    <3>1. p \in (j - 1) * m + 1 .. ChunkEnd(j)
      BY <1>8 DEF Chunk
    <3>2. ChunkEnd(j) = IF j * m < e THEN j * m ELSE e
      BY DEF ChunkEnd
    <3> QED
      BY <1>1, <2>1, <3>1, <3>2
  <2>3. ~ j < k
    <3> SUFFICES ASSUME j < k PROVE FALSE
      OBVIOUS
    <3>1. j = d \/ j < d
      BY <1>8
    <3>2. j * m <= d * m
      BY <1>1, <1>2, <2>1, <3>1, Multiples
    <3> QED
      BY <1>1, <1>2, <2>1, <2>2, <3>2
  <2>4. ~ k < j
    <3> SUFFICES ASSUME k < j PROVE FALSE
      OBVIOUS
    <3>1. d + 1 = j - 1 \/ d + 1 < j - 1
      BY <1>8
    <3>2. d * m + m <= (j - 1) * m
      <4>1. d \in Int /\ j - 1 \in Int /\ d < j - 1
        BY <1>8, <3>1
      <4> QED
        BY <1>1, <4>1, Multiples
    <3> QED
      BY <1>1, <1>2, <2>1, <2>2, <3>2
  <2> QED
    BY <1>8, <2>3, <2>4
<1> QED
  BY <1>5, <1>7, <1>8

(* A drained call has received every chunk, or its loader has panicked.     *)
DrainInv ==
  \A c \in Calls : drained[c] =>
    /\ ~ rx[c] /\ loader[c] \in {"exited", "panicked"}
    /\ loader[c] = "exited" => Len(got[c]) = MicroBatches

(* A drained call keeps what it received, and its loader has ended.         *)
LEMMA DrainedStays ==
  ASSUME TypeInv, LoaderInv, DrainInv, [Next]_vars, NEW c \in Calls, drained[c]
  PROVE  ~ rx'[c] /\ got'[c] = got[c] /\ loader'[c] = loader[c]
<1>1. ~ rx[c] /\ loader[c] \in {"exited", "panicked"}
  BY DEF DrainInv
<1>2. CASE CallTrainEpoch
  <2>1. c # calls + 1
    <3> SUFFICES ASSUME c = calls + 1 PROVE FALSE
      OBVIOUS
    <3>1. loader[c] = "none"
      BY LoaderAssumption DEF LoaderInv, Control, Calls
    <3> QED
      BY <1>1, <3>1
  <2> QED
    BY <1>1, <1>2, <2>1 DEF CallTrainEpoch, LoaderInv, Control
<1>3. ASSUME NEW l \in Calls, LoaderStep(l)
      PROVE  ~ rx'[c] /\ got'[c] = got[c] /\ loader'[c] = loader[c]
  BY <1>1, <1>3
  DEF LoaderStep, Prepare, Send, SendFails, Finish, Panics, LoaderInv, Control
<1>4. CASE TrainerStep
  <2>1. calls \in Calls /\ rx[calls] /\ c # calls
    BY <1>1, <1>4
    DEF TrainerStep, Recv, Processed, Leave, Disconnected, LoaderInv, Control, TypeInv
  <2> QED
    BY <1>1, <1>4, <2>1
    DEF TrainerStep, Recv, Processed, Leave, Disconnected, DropReceiver, LoaderInv, Control
<1>5. CASE UNCHANGED vars
  BY <1>1, <1>5 DEF vars
<1> QED
  BY <1>2, <1>3, <1>4, <1>5 DEF Next

LEMMA StepDrainInv == TypeInv /\ LoaderInv /\ DrainInv /\ [Next]_vars => DrainInv'
<1> SUFFICES ASSUME TypeInv, LoaderInv, DrainInv, [Next]_vars,
                    NEW c \in Calls, drained'[c]
             PROVE  /\ ~ rx'[c] /\ loader'[c] \in {"exited", "panicked"}
                    /\ loader'[c] = "exited" => Len(got'[c]) = MicroBatches
  BY DEF DrainInv, MicroBatches, Calls
<1>1. CASE drained[c]
  <2>1. ~ rx'[c] /\ got'[c] = got[c] /\ loader'[c] = loader[c]
    BY <1>1, DrainedStays
  <2> QED
    BY <1>1, <2>1 DEF DrainInv
<1>2. CASE ~ drained[c]
  <2>1. Disconnected /\ c = calls
    BY <1>2
    DEF Next, vars, CallTrainEpoch, TrainerStep, Recv, Processed, Leave, Disconnected,
        LoaderStep, Prepare, Send, SendFails, Finish, Panics, TypeInv, TypeOK
  <2>2. ~ rx'[c] /\ UNCHANGED <<got, loader>>
    BY <2>1 DEF Disconnected, DropReceiver, LoaderInv, Control
  <2>3. rx[c] /\ channel[c] = << >> /\ loader[c] \in {"exited", "panicked"}
    BY <2>1 DEF Disconnected, LoaderInv, Control
  <2>4. ASSUME loader[c] = "exited" PROVE Len(got[c]) = MicroBatches
    <3>1. /\ got[c] \in Seq(Nat) /\ next[c] \in Nat /\ next[c] <= MicroBatches + 1
          /\ next[c] > MicroBatches /\ Len(got[c]) + Len(channel[c]) = next[c] - 1
      BY <2>3, <2>4 DEF LoaderInv, Delivered
    <3>2. Len(channel[c]) = 0 /\ Len(got[c]) \in Nat
      BY <2>3, <3>1
    <3> QED
      BY <3>1, <3>2, MicroBatchesType
  <2> QED
    BY <2>2, <2>3, <2>4
<1> QED
  BY <1>1, <1>2

-----------------------------------------------------------------------------
(* AugmentCache: all positions of the pairs of a puzzle get the grids of    *)
(* the first of them in the order of the call.                              *)
LEMMA OrderIsOnto ==
  ASSUME NEW o \in Orders
  PROVE  o \in [Indices -> Indices] /\ \A y \in Indices : \E p \in Indices : o[p] = y
<1>1. o \in Injection(Indices, Indices)
  BY LoaderAssumption DEF Injection, IsInjective
<1>2. IsFiniteSet(Indices)
  BY LoaderAssumption, FS_Interval DEF Indices
<1>3. o \in Surjection(Indices, Indices)
  BY <1>1, <1>2, FS_Injection
<1> QED
  BY <1>3 DEF Surjection

LEMMA FirstOfPuzzle ==
  ASSUME NEW c, order[c] \in Orders, NEW x \in Indices
  PROVE  \E y \in Pairs(x) : \A p \in Indices : GridsOf(c, p) = y <=> order[c][p] \in Pairs(x)
<1> DEFINE o == order[c]
           At == {p \in Indices : o[p] \in Pairs(x)}
<1>1. o \in [Indices -> Indices] /\ \A y \in Indices : \E p \in Indices : o[p] = y
  BY OrderIsOnto
<1>2. Indices = 1 .. Examples /\ Examples \in Nat
  BY LoaderAssumption DEF Indices
<1>3. At # {} /\ At \in SUBSET Nat
  <2>1. x \in Pairs(x)
    BY DEF Pairs
  <2>2. PICK p \in Indices : o[p] = x
    BY <1>1
  <2>3. At \in SUBSET Nat
    BY <1>2
  <2> QED
    BY <2>1, <2>2, <2>3
<1>4. PICK m \in At : \A p \in At : m <= p
  BY <1>3, LeastElement
<1>5. o[m] \in Pairs(x) /\ m \in Indices
  OBVIOUS
<1>6. ASSUME NEW p \in Indices PROVE GridsOf(c, p) = o[m] <=> o[p] \in Pairs(x)
  <2> DEFINE E == {q \in 1 .. p : o[q] \in Pairs(o[p])}
             first == CHOOSE q \in E : \A r \in E : q <= r
  <2>1. E \in SUBSET Nat /\ p \in E
    <3>1. p \in Nat /\ p \in 1 .. p /\ 1 .. p \subseteq Nat
      BY <1>2
    <3>2. o[p] \in Pairs(o[p])
      BY <1>1 DEF Pairs
    <3> QED
      BY <3>1, <3>2
  <2>2. \E q \in E : \A r \in E : q <= r
    <3> HIDE DEF E
    <3> QED
      BY <2>1, LeastElement
  <2>3. first \in E /\ \A r \in E : first <= r
    <3> HIDE DEF E
    <3> QED
      BY <2>2
  <2>4. GridsOf(c, p) = o[first]
    BY DEF GridsOf
  <2>5. first \in Indices /\ o[first] \in Pairs(o[p])
    BY <1>2, <2>3
  <2>6. CASE o[p] \in Pairs(x)
    <3>1. Pairs(o[p]) = Pairs(x)
      BY <2>6 DEF Pairs
    <3>2. m <= p /\ m \in E
      BY <1>2, <1>4, <1>5, <2>6, <3>1
    <3>3. first \in At
      BY <2>5, <3>1
    <3>4. first = m
      <4>1. first \in Nat /\ m \in Nat
        BY <1>2, <1>5, <2>5
      <4> HIDE DEF first, E, At
      <4> QED
        BY <1>4, <2>3, <3>2, <3>3, <4>1
    <3> QED
      BY <2>4, <2>6, <3>4
  <2>7. CASE o[p] \notin Pairs(x)
    <3>1. o[p] \in Indices
      BY <1>1
    <3>2. o[first] # o[m]
      BY <1>5, <2>5, <2>7, <3>1 DEF Pairs
    <3> QED
      BY <2>4, <2>7, <3>2
  <2> QED
    BY <2>6, <2>7
<1> QED
  BY <1>5, <1>6

(* A drained call has every position once, in its chunk.                    *)
LEMMA DrainedIsComplete == TypeInv /\ LoaderInv /\ DrainInv => DrainedEpochIsComplete
<1> SUFFICES ASSUME TypeInv, LoaderInv, DrainInv, NEW c \in Calls,
                    drained[c], loader[c] # "panicked", NEW x \in Indices
             PROVE  LET received == {p \in (1 .. Len(got[c])) \X Indices : p[2] \in Chunk(got[c][p[1]])}
                        count(y) == Cardinality({p \in received : GridsOf(c, p[2]) = y})
                    IN \E y \in Pairs(x) : count(y) = Cardinality(Pairs(x))
  BY DEF DrainedEpochIsComplete
<1> DEFINE received == {p \in (1 .. Len(got[c])) \X Indices : p[2] \in Chunk(got[c][p[1]])}
           o == order[c]
           At == {p \in Indices : o[p] \in Pairs(x)}
<1>1. o \in Orders
  BY DEF TypeInv, TypeOK
<1>2. PICK y \in Pairs(x) : \A p \in Indices : GridsOf(c, p) = y <=> o[p] \in Pairs(x)
  BY <1>1, FirstOfPuzzle
<1> DEFINE Got == {p \in received : GridsOf(c, p[2]) = y}
<1>3. received = {p \in (1 .. MicroBatches) \X Indices : p[2] \in Chunk(p[1])}
  <2>1. Len(got[c]) = MicroBatches /\ \A i \in 1 .. Len(got[c]) : got[c][i] = i
    BY DEF LoaderInv, Delivered, DrainInv
  <2> QED
    BY <2>1
<1>4. Got = {p \in (1 .. MicroBatches) \X Indices : p[2] \in Chunk(p[1]) /\ p[2] \in At}
  <2> HIDE DEF received
  <2> QED
    BY <1>2, <1>3
<1> HIDE DEF received, Got
<1>5. IsFiniteSet(Indices) /\ IsFiniteSet(At)
  <2>1. IsFiniteSet(Indices)
    BY LoaderAssumption, FS_Interval DEF Indices
  <2>2. At \in SUBSET Indices
    OBVIOUS
  <2> HIDE DEF At
  <2> QED
    BY <2>1, <2>2, FS_Subset
<1>6. Cardinality(Got) = Cardinality(At)
  <2> DEFINE place == [p \in At |-> <<CHOOSE k \in 1 .. MicroBatches : p \in Chunk(k), p>>]
  <2>1. ASSUME NEW p \in At PROVE place[p] \in Got /\ place[p][2] = p
    <3>1. \E k \in 1 .. MicroBatches : p \in Chunk(k)
      BY OneChunk
    <3> QED
      BY <1>4, <3>1
  <2>2. ASSUME NEW g \in Got PROVE \E p \in At : place[p] = g
    <3>1. g = <<g[1], g[2]>> /\ g[2] \in At /\ g[1] \in 1 .. MicroBatches /\ g[2] \in Chunk(g[1])
      BY <1>4
    <3>2. place[g[2]] \in Got /\ place[g[2]][2] = g[2]
      BY <2>1, <3>1
    <3>3. place[g[2]] = <<place[g[2]][1], g[2]>> /\ place[g[2]][1] \in 1 .. MicroBatches
          /\ g[2] \in Chunk(place[g[2]][1])
      <4> HIDE DEF place
      <4> QED
        BY <1>4, <3>2
    <3>4. place[g[2]][1] = g[1]
      <4>1. g[2] \in Indices /\ g[1] \in Int /\ place[g[2]][1] \in Int
        BY <3>1, <3>3, MicroBatchesType
      <4> HIDE DEF place
      <4> QED
        BY <3>1, <3>3, <4>1, OneChunk
    <3> QED
      BY <3>1, <3>3, <3>4
  <2>3. place \in Bijection(At, Got)
    <3>1. place \in [At -> Got]
      BY <2>1
    <3>2. DOMAIN place = At
      OBVIOUS
    <3> HIDE DEF place
    <3> QED
      BY <2>1, <2>2, <3>1, <3>2 DEF Bijection, Injection, Surjection, IsInjective
  <2>4. ExistsBijection(At, Got)
    BY <2>3, Zenon DEF ExistsBijection
  <2> HIDE DEF At
  <2> QED
    BY <1>5, <2>4, FS_Bijection
<1>7. Cardinality(Pairs(x)) = Cardinality(At)
  <2> DEFINE f == [p \in At |-> o[p]]
  <2>1. /\ o \in [Indices -> Indices] /\ \A z \in Indices : \E p \in Indices : o[p] = z
        /\ \A i, j \in Indices : o[i] = o[j] => i = j
    BY <1>1, OrderIsOnto, LoaderAssumption
  <2>2. f \in Bijection(At, Pairs(x))
    <3>1. f \in [At -> Pairs(x)] /\ DOMAIN f = At
      OBVIOUS
    <3>2. \A z \in Pairs(x) : \E p \in At : f[p] = z
      BY <2>1 DEF Pairs
    <3>3. \A p, q \in At : f[p] = f[q] => p = q
      BY <2>1
    <3> HIDE DEF f
    <3> QED
      BY <3>1, <3>2, <3>3 DEF Bijection, Injection, Surjection, IsInjective
  <2>3. ExistsBijection(At, Pairs(x))
    BY <2>2, Zenon DEF ExistsBijection
  <2> HIDE DEF At
  <2> QED
    BY <1>5, <2>3, FS_Bijection
<1> QED
  BY <1>6, <1>7, Zenon DEF received, Got

(* What train_epoch has received when the stream ends (src/train/trainer.rs *)
(* AsyncDataLoader::start): for every puzzle as many micro-batch places as  *)
(* it has pairs, all of the pair that came first, unless the loader panicked.*)
THEOREM DrainedIsEverything == Spec => []DrainedEpochIsComplete
<1>1. Init => DrainInv
  BY DEF Init, DrainInv
<1> QED
  BY <1>1, InitLoaderInv, StepLoaderInv, InitTypeInv, StepTypeInv, StepDrainInv,
     DrainedIsComplete, PTL DEF Spec
=============================================================================
