--------------------------- MODULE MailboxProofs ---------------------------
(***************************************************************************)
(* Theorems about the mailbox, for any number of slots, any size of the    *)
(* messages, and any producers and consumers.                              *)
(***************************************************************************)
EXTENDS Mailbox, SequenceTheorems, TLAPS

Byte == (Payload \X Offset) \cup {NULL}

Call == [at : {"idle", "check", "copy", "notify"}, atomic : BOOLEAN, msgs : Seq(Payload),
         num : 0 .. Batch, done : 0 .. Batch, i : 0 .. MsgSize]

RingOK ==
  /\ msg_buf \in [Slot -> [Offset -> Byte]]
  /\ read_pos \in Slot /\ write_pos \in Slot
  /\ call \in [Producer \cup Consumer -> Call]
  /\ masked \in Producer \cup Consumer \cup {NULL}
  /\ out \in [Offset -> Byte]
  /\ notified \in BOOLEAN

\* Who is in an atomic call has masked the interrupts, and each side is in one
\* call at most.
Alone ==
  /\ \A p \in Producer \cup Consumer : call[p].at # "idle" /\ call[p].atomic => masked = p
  /\ \A p, q \in Producer : call[p].at # "idle" /\ call[q].at # "idle" => p = q
  /\ \A p, q \in Consumer : call[p].at # "idle" /\ call[q].at # "idle" => p = q

\* A producer that copies has room, and has copied the first i bytes.
ProducerOK(p) ==
  /\ Len(call[p].msgs) + call[p].done <= Batch
  /\ call[p].at = "copy" =>
       /\ call[p].msgs # <<>>
       /\ Next1(write_pos) # read_pos
       /\ \A j \in Offset : j < call[p].i =>
            msg_buf[write_pos][j] = <<Head(call[p].msgs), j>>

\* A consumer that copies has a message, and has copied the first i bytes.
ConsumerOK(c) ==
  /\ call[c].at # "notify"
  /\ call[c].done <= call[c].num
  /\ call[c].at = "copy" =>
       /\ call[c].done < call[c].num
       /\ read_pos # write_pos
       /\ \A j \in Offset : j < call[c].i => out[j] = msg_buf[read_pos][j]

\* While there are messages, data_added has been called or is going to be.
Told ==
  read_pos # write_pos =>
    \/ notified
    \/ \E p \in Producer : /\ call[p].at # "idle"
                           /\ call[p].at = "notify" \/ call[p].done > 0

MInv ==
  /\ RingOK
  /\ Alone
  /\ \A p \in Producer : ProducerOK(p)
  /\ \A c \in Consumer : ConsumerOK(c)
  /\ Told

-----------------------------------------------------------------------------
(* Positions in the ring.                                                  *)

\* The next position is another slot of the ring, and no two have the same.
LEMMA NextSlot ==
  ASSUME NEW s \in Slot, NEW t \in Slot
  PROVE  Next1(s) \in Slot /\ (Next1(s) = Next1(t) => s = t)
  BY MailboxAssumption DEF Slot, Next1

\* The remainders that occur.
LEMMA Remainder ==
  /\ \A x \in 0 .. NumMsgs - 1 : x % NumMsgs = x
  /\ \A x \in NumMsgs .. NumMsgs + NumMsgs - 1 : x % NumMsgs = x - NumMsgs
  /\ \A x \in -NumMsgs .. -1 : x % NumMsgs = x + NumMsgs
  <1> USE MailboxAssumption
  <1>1. ASSUME NEW x \in 0 .. NumMsgs - 1 PROVE x % NumMsgs = x
    OBVIOUS
  <1>2. ASSUME NEW x \in NumMsgs .. NumMsgs + NumMsgs - 1 PROVE x % NumMsgs = x - NumMsgs
    OBVIOUS
  <1>3. ASSUME NEW x \in -NumMsgs .. -1 PROVE x % NumMsgs = x + NumMsgs
    OBVIOUS
  <1> QED BY <1>1, <1>2, <1>3

\* A position beyond the end of the ring is one before it.
LEMMA Wraps ==
  ASSUME NEW x \in 0 .. NumMsgs + NumMsgs - 1
  PROVE  x % NumMsgs = IF x < NumMsgs THEN x ELSE x - NumMsgs
  BY MailboxAssumption, Remainder

\* How many messages there are, without the remainder.
CountOK ==
  /\ read_pos <= write_pos => Count = write_pos - read_pos
  /\ read_pos > write_pos => Count = write_pos - read_pos + NumMsgs

\* Count takes the remainder of the right number.
LEMMA CountIs == RingOK => CountOK
  <1> SUFFICES ASSUME RingOK PROVE CountOK
    OBVIOUS
  <1>1. /\ read_pos \in 0 .. NumMsgs - 1 /\ write_pos \in 0 .. NumMsgs - 1
        /\ NumMsgs \in Nat
    BY MailboxAssumption DEF RingOK, Slot
  <1>2. ASSUME read_pos <= write_pos PROVE Count = write_pos - read_pos
    <2>1. write_pos - read_pos \in 0 .. NumMsgs - 1
      BY <1>1, <1>2
    <2> QED BY <2>1, Remainder DEF Count
  <1>3. ASSUME read_pos > write_pos PROVE Count = write_pos - read_pos + NumMsgs
    <2>1. write_pos - read_pos \in -NumMsgs .. -1
      BY <1>1, <1>3
    <2> QED BY <2>1, Remainder DEF Count
  <1> QED BY <1>2, <1>3 DEF CountOK

\* And after a step.
LEMMA CountIsNext == RingOK' => CountOK'
  BY CountIs, PTL

-----------------------------------------------------------------------------
(* The steps.                                                              *)

\* All are idle, and the ring is empty.
LEMMA MInvInit == Init => MInv
  <1> SUFFICES ASSUME Init PROVE MInv
    OBVIOUS
  <1> USE MailboxAssumption
  <1>1. Idle \in Call
    BY DEF Idle, Call
  <1>2. RingOK
    <2>1. call \in [Producer \cup Consumer -> Call]
      BY <1>1 DEF Init
    <2>2. 0 \in Slot
      BY DEF Slot
    <2>3. out \in [Offset -> Byte] /\ msg_buf \in [Slot -> [Offset -> Byte]]
      BY DEF Init, Byte
    <2> QED BY <2>1, <2>2, <2>3 DEF RingOK, Init
  <1>3. \A p \in Producer \cup Consumer : call[p].at = "idle" /\ call[p].msgs = <<>> /\ call[p].num = 0
                                          /\ call[p].done = 0
    BY DEF Init, Idle
  <1>4. read_pos = write_pos
    BY DEF Init
  <1> QED BY <1>2, <1>3, <1>4 DEF MInv, Alone, ProducerOK, ConsumerOK, Told

\* What makes a call.
LEMMA FieldsOfCall ==
  ASSUME NEW y, DOMAIN y = DOMAIN Idle, y = [k \in DOMAIN y |-> y[k]],
         y.at \in {"idle", "check", "copy", "notify"}, y.atomic \in BOOLEAN,
         y.msgs \in Seq(Payload), y.num \in 0 .. Batch, y.done \in 0 .. Batch,
         y.i \in 0 .. MsgSize
  PROVE  y \in Call
  <1> DEFINE x == [at |-> y.at, atomic |-> y.atomic, msgs |-> y.msgs, num |-> y.num,
                   done |-> y.done, i |-> y.i]
  <1>1. DOMAIN y = {"at", "atomic", "msgs", "num", "done", "i"}
    BY DEF Idle
  <1>2. x = y
    BY <1>1
  <1>3. x \in Call
    BY DEF Call
  <1> QED BY <1>2, <1>3

\* Who is idle cares about nothing.
LEMMA IdleProducer ==
  ASSUME NEW q \in Producer, ProducerOK(q), call[q].at = "idle", call'[q] = call[q]
  PROVE  ProducerOK(q)'
  BY DEF ProducerOK

\* So is a consumer.
LEMMA IdleConsumer ==
  ASSUME NEW q \in Consumer, ConsumerOK(q), call[q].at = "idle", call'[q] = call[q]
  PROVE  ConsumerOK(q)'
  BY DEF ConsumerOK

\* A call may begin only when its side is in none.
LEMMA SideIdle ==
  ASSUME MInv, NEW side, side = Producer \/ side = Consumer,
         NEW p \in side, NEW atomic, Runs(p), MayCall(p, side, atomic), call[p].at = "idle"
  PROVE  \A q \in side : call[q].at = "idle"
  BY MailboxAssumption DEF MInv, Alone, MayCall, Runs

\* A call of os_mailbox_write begins.
LEMMA WriteCallInv ==
  ASSUME MInv, NEW p \in Producer, NEW msgs \in Messages, NEW atomic \in BOOLEAN,
         WriteCall(p, msgs, atomic)
  PROVE  MInv'
  <1> USE MailboxAssumption
  <1> DEFINE new == [Idle EXCEPT !.at = "check", !.atomic = atomic, !.msgs = msgs]
  <1>1. PICK n \in 1 .. Batch : msgs \in [1 .. n -> Payload]
    BY DEF Messages
  <1>2. msgs \in Seq(Payload) /\ Len(msgs) <= Batch
    BY <1>1
  <1>3. /\ new.at = "check" /\ new.atomic = atomic /\ new.msgs = msgs
        /\ new.num = 0 /\ new.done = 0 /\ new.i = 0
        /\ DOMAIN new = DOMAIN Idle /\ new = [k \in DOMAIN new |-> new[k]]
    BY DEF Idle
  <1>5. /\ call' = [call EXCEPT ![p] = new] /\ call'[p] = new
        /\ \A q \in Producer \cup Consumer : q # p => call'[q] = call[q]
        /\ masked' = IF atomic THEN p ELSE NULL
        /\ UNCHANGED <<msg_buf, read_pos, write_pos, out, last, notified>>
    BY DEF WriteCall, MInv, RingOK
  <1> HIDE DEF new
  <1>4. new \in Call
    BY <1>2, <1>3, FieldsOfCall
  <1>6. \A q \in Producer : call[q].at = "idle"
    BY SideIdle DEF WriteCall
  <1>7. RingOK'
    BY <1>4, <1>5 DEF MInv, RingOK
  <1>8. Alone'
    BY <1>3, <1>5, <1>6 DEF MInv, Alone, WriteCall, Runs
  <1>9. \A q \in Producer : ProducerOK(q)'
    <2>1. ProducerOK(p)'
      BY <1>2, <1>3, <1>5 DEF ProducerOK
    <2> QED BY <1>5, <1>6, <2>1, IdleProducer DEF MInv
  <1>10. \A c \in Consumer : ConsumerOK(c)'
    BY <1>5 DEF MInv, ConsumerOK
  <1>11. Told'
    BY <1>5, <1>6 DEF MInv, Told
  <1> QED BY <1>7, <1>8, <1>9, <1>10, <1>11 DEF MInv

\* A call of os_mailbox_read begins.
LEMMA ReadCallInv ==
  ASSUME MInv, NEW c \in Consumer, NEW num \in 1 .. Batch, NEW atomic \in BOOLEAN,
         ReadCall(c, num, atomic)
  PROVE  MInv'
  <1> USE MailboxAssumption
  <1> DEFINE new == [Idle EXCEPT !.at = "check", !.atomic = atomic, !.num = num]
  <1>3. /\ new.at = "check" /\ new.atomic = atomic /\ new.msgs = <<>>
        /\ new.num = num /\ new.done = 0 /\ new.i = 0
        /\ DOMAIN new = DOMAIN Idle /\ new = [k \in DOMAIN new |-> new[k]]
    BY DEF Idle
  <1>5. /\ call' = [call EXCEPT ![c] = new] /\ call'[c] = new
        /\ \A q \in Producer \cup Consumer : q # c => call'[q] = call[q]
        /\ masked' = IF atomic THEN c ELSE NULL
        /\ UNCHANGED <<msg_buf, read_pos, write_pos, out, last, notified>>
    BY DEF ReadCall, MInv, RingOK
  <1> HIDE DEF new
  <1>4. new \in Call
    <2>1. <<>> \in Seq(Payload) /\ num \in 0 .. Batch /\ 0 \in 0 .. Batch /\ 0 \in 0 .. MsgSize
      OBVIOUS
    <2>2. /\ new.at \in {"idle", "check", "copy", "notify"} /\ new.atomic \in BOOLEAN
          /\ new.num \in 0 .. Batch /\ new.done \in 0 .. Batch /\ new.i \in 0 .. MsgSize
      BY <1>3, <2>1
    <2>3. new.msgs \in Seq(Payload)
      BY <1>3, <2>1, Zenon
    <2> QED BY <1>3, <2>2, <2>3, FieldsOfCall, Zenon
  <1>6. \A q \in Consumer : call[q].at = "idle"
    BY SideIdle DEF ReadCall
  <1>7. RingOK'
    BY <1>4, <1>5 DEF MInv, RingOK
  <1>8. Alone'
    BY <1>3, <1>5, <1>6 DEF MInv, Alone, ReadCall, Runs
  <1>9. \A q \in Producer : ProducerOK(q)'
    BY <1>5 DEF MInv, ProducerOK
  <1>10. \A q \in Consumer : ConsumerOK(q)'
    <2>1. ConsumerOK(c)'
      BY <1>3, <1>5 DEF ConsumerOK
    <2> QED BY <1>5, <1>6, <2>1, IdleConsumer DEF MInv
  <1>11. Told'
    BY <1>5, <1>6 DEF MInv, Told
  <1> QED BY <1>7, <1>8, <1>9, <1>10, <1>11 DEF MInv

\* Going on in a call, and returning from it.
LEMMA GoToDoes ==
  ASSUME MInv, NEW p \in Producer \cup Consumer,
         NEW at \in {"idle", "check", "copy", "notify"}, GoTo(p, at)
  PROVE  /\ call' \in [Producer \cup Consumer -> Call]
         /\ \A q \in Producer \cup Consumer : q # p => call'[q] = call[q]
         /\ call'[p].at = at /\ call'[p].i = 0 /\ call'[p].atomic = call[p].atomic
         /\ call'[p].msgs = call[p].msgs /\ call'[p].num = call[p].num
         /\ call'[p].done = call[p].done
  <1> DEFINE y == [call[p] EXCEPT !.at = at, !.i = 0]
  <1>1. call[p] \in Call /\ DOMAIN call = Producer \cup Consumer
    BY DEF MInv, RingOK
  <1>2. call' = [call EXCEPT ![p] = y]
    BY <1>1 DEF GoTo
  <1>3. /\ y.at = at /\ y.i = 0 /\ y.atomic = call[p].atomic
        /\ y.msgs = call[p].msgs /\ y.num = call[p].num /\ y.done = call[p].done
    BY <1>1 DEF Call
  <1>4. /\ call[p].at \in {"idle", "check", "copy", "notify"} /\ call[p].atomic \in BOOLEAN
        /\ call[p].msgs \in Seq(Payload) /\ call[p].num \in 0 .. Batch
        /\ call[p].done \in 0 .. Batch /\ 0 \in 0 .. MsgSize
    BY <1>1, MailboxAssumption DEF Call
  <1>5. DOMAIN y = DOMAIN Idle /\ y = [k \in DOMAIN y |-> y[k]]
    BY <1>1 DEF Call, Idle
  <1> HIDE DEF y
  <1>6. y \in Call
    BY <1>3, <1>4, <1>5, FieldsOfCall
  <1> QED BY <1>1, <1>2, <1>3, <1>6 DEF MInv, RingOK

\* A return leaves the others in their calls.
LEMMA ReturnDoes ==
  ASSUME MInv, NEW p \in Producer \cup Consumer, Return(p)
  PROVE  /\ call' \in [Producer \cup Consumer -> Call]
         /\ \A q \in Producer \cup Consumer : q # p => call'[q] = call[q]
         /\ call'[p].at = "idle" /\ call'[p].done = 0 /\ call'[p].num = 0
         /\ call'[p].msgs = <<>>
         /\ masked' = NULL
  <1>1. DOMAIN call = Producer \cup Consumer
    BY DEF MInv, RingOK
  <1>2. Idle \in Call
    BY MailboxAssumption DEF Idle, Call
  <1>3. call' = [call EXCEPT ![p] = Idle] /\ masked' = NULL
    BY DEF Return
  <1>4. /\ call' \in [Producer \cup Consumer -> Call] /\ call'[p] = Idle
        /\ \A q \in Producer \cup Consumer : q # p => call'[q] = call[q]
    BY <1>1, <1>2, <1>3 DEF MInv, RingOK
  <1> QED BY <1>3, <1>4 DEF Idle

\* A step inside a call, or its end, leaves each side alone.
LEMMA StepAlone ==
  ASSUME MInv, NEW p \in Producer \cup Consumer, Runs(p), call[p].at # "idle",
         \A q \in Producer \cup Consumer : q # p => call'[q] = call[q],
         \/ call'[p].at # "idle" /\ masked' = masked /\ call'[p].atomic = call[p].atomic
         \/ call'[p].at = "idle" /\ masked' = NULL
  PROVE  /\ Alone'
         /\ p \in Producer => \A q \in Producer \ {p} : call[q].at = "idle"
         /\ p \in Consumer => \A q \in Consumer \ {p} : call[q].at = "idle"
  BY MailboxAssumption DEF MInv, Alone, Runs

\* The producer finds room, or ends its loop.
LEMMA WriteCheckInv ==
  ASSUME MInv, NEW p \in Producer, WriteCheck(p)
  PROVE  MInv'
  <1> USE MailboxAssumption
  <1>1. /\ Runs(p) /\ call[p].at = "check"
        /\ UNCHANGED <<msg_buf, read_pos, write_pos, out, last, notified>>
    BY DEF WriteCheck
  <1>2. ASSUME NEW at \in {"copy", "notify"}, GoTo(p, at), masked' = masked,
               at = "copy" => call[p].msgs # <<>> /\ Next1(write_pos) # read_pos
        PROVE  MInv'
    <2>1. /\ call' \in [Producer \cup Consumer -> Call]
          /\ \A q \in Producer \cup Consumer : q # p => call'[q] = call[q]
          /\ call'[p].at = at /\ call'[p].i = 0 /\ call'[p].atomic = call[p].atomic
          /\ call'[p].msgs = call[p].msgs /\ call'[p].done = call[p].done
      BY <1>2, GoToDoes
    <2>2. Alone' /\ \A q \in Producer \ {p} : call[q].at = "idle"
      BY <1>1, <1>2, <2>1, StepAlone
    <2>3. RingOK'
      BY <1>1, <1>2, <2>1 DEF MInv, RingOK
    <2>4. ProducerOK(p)'
      BY <1>1, <1>2, <2>1 DEF MInv, ProducerOK, Offset
    <2>5. \A q \in Producer : ProducerOK(q)'
      BY <2>1, <2>2, <2>4, IdleProducer DEF MInv
    <2>6. \A c \in Consumer : ConsumerOK(c)'
      BY <1>1, <2>1 DEF MInv, ConsumerOK
    <2>7. Told'
      BY <1>1, <1>2, <2>1 DEF MInv, Told
    <2> QED BY <2>2, <2>3, <2>5, <2>6, <2>7 DEF MInv
  <1>3. ASSUME Return(p), ~(call[p].done > 0)
        PROVE  MInv'
    <2>1. /\ call' \in [Producer \cup Consumer -> Call]
          /\ \A q \in Producer \cup Consumer : q # p => call'[q] = call[q]
          /\ call'[p].at = "idle" /\ call'[p].done = 0 /\ call'[p].msgs = <<>>
          /\ masked' = NULL
      BY <1>3, ReturnDoes
    <2>2. Alone' /\ \A q \in Producer \ {p} : call[q].at = "idle"
      BY <1>1, <2>1, StepAlone
    <2>3. RingOK'
      BY <1>1, <2>1 DEF MInv, RingOK
    <2>4. ProducerOK(p)'
      BY <2>1 DEF ProducerOK
    <2>5. \A q \in Producer : ProducerOK(q)'
      BY <2>1, <2>2, <2>4, IdleProducer DEF MInv
    <2>6. \A c \in Consumer : ConsumerOK(c)'
      BY <1>1, <2>1 DEF MInv, ConsumerOK
    <2>7. Told'
      BY <1>1, <1>3, <2>1 DEF MInv, Told
    <2> QED BY <2>2, <2>3, <2>5, <2>6, <2>7 DEF MInv
  <1> QED BY <1>2, <1>3 DEF WriteCheck

\* The call of data_added.
LEMMA WriteNotifyInv ==
  ASSUME MInv, NEW p \in Producer, WriteNotify(p)
  PROVE  MInv'
  <1> USE MailboxAssumption
  <1>1. /\ Runs(p) /\ call[p].at = "notify" /\ notified' = TRUE
        /\ UNCHANGED <<msg_buf, read_pos, write_pos, out, last>>
    BY DEF WriteNotify
  <1>2. /\ call' \in [Producer \cup Consumer -> Call]
        /\ \A q \in Producer \cup Consumer : q # p => call'[q] = call[q]
        /\ call'[p].at = "idle" /\ call'[p].done = 0 /\ call'[p].msgs = <<>>
        /\ masked' = NULL
    BY ReturnDoes DEF WriteNotify
  <1>3. Alone' /\ \A q \in Producer \ {p} : call[q].at = "idle"
    BY <1>1, <1>2, StepAlone
  <1>4. RingOK'
    BY <1>1, <1>2 DEF MInv, RingOK
  <1>5. ProducerOK(p)'
    BY <1>2 DEF ProducerOK
  <1>6. \A q \in Producer : ProducerOK(q)'
    BY <1>2, <1>3, <1>5, IdleProducer DEF MInv
  <1>7. \A c \in Consumer : ConsumerOK(c)'
    BY <1>1, <1>2 DEF MInv, ConsumerOK
  <1>8. Told'
    BY <1>1 DEF Told
  <1> QED BY <1>3, <1>4, <1>6, <1>7, <1>8 DEF MInv

\* The counter of the byte loops wraps around, but never skips a byte.
LEMMA Counter ==
  ASSUME NEW i \in 0 .. MsgSize, i < MsgSize
  PROVE  /\ Increment(i) \in 0 .. MsgSize
         /\ \A j \in Offset : j < Increment(i) => j < i \/ j = i
  <1>1. i \in Nat /\ Increment(i) \in Nat /\ Increment(i) <= i + 1
    BY MailboxAssumption DEF Increment
  <1> QED BY <1>1, MailboxAssumption DEF Offset

\* A step of a byte loop.
LEMMA LoopDoes ==
  ASSUME MInv, NEW p \in Producer \cup Consumer, call[p].i < MsgSize,
         call' = [call EXCEPT ![p].i = Increment(call[p].i)]
  PROVE  /\ call' \in [Producer \cup Consumer -> Call]
         /\ \A q \in Producer \cup Consumer : q # p => call'[q] = call[q]
         /\ call'[p].at = call[p].at /\ call'[p].i = Increment(call[p].i)
         /\ call'[p].atomic = call[p].atomic
         /\ call'[p].msgs = call[p].msgs /\ call'[p].num = call[p].num
         /\ call'[p].done = call[p].done
         /\ call[p].i \in Offset
  <1> DEFINE y == [call[p] EXCEPT !.i = Increment(call[p].i)]
  <1>1. call[p] \in Call /\ DOMAIN call = Producer \cup Consumer
    BY DEF MInv, RingOK
  <1>2. call' = [call EXCEPT ![p] = y]
    BY <1>1
  <1>3. /\ y.at = call[p].at /\ y.i = Increment(call[p].i) /\ y.atomic = call[p].atomic
        /\ y.msgs = call[p].msgs /\ y.num = call[p].num /\ y.done = call[p].done
    BY <1>1 DEF Call
  <1>4. /\ call[p].at \in {"idle", "check", "copy", "notify"} /\ call[p].atomic \in BOOLEAN
        /\ call[p].msgs \in Seq(Payload) /\ call[p].num \in 0 .. Batch
        /\ call[p].done \in 0 .. Batch /\ call[p].i \in 0 .. MsgSize
    BY <1>1 DEF Call
  <1>5. DOMAIN y = DOMAIN Idle /\ y = [k \in DOMAIN y |-> y[k]]
    BY <1>1 DEF Call, Idle
  <1>6. Increment(call[p].i) \in 0 .. MsgSize
    BY <1>4, Counter
  <1> HIDE DEF y
  <1>7. y \in Call
    BY <1>3, <1>4, <1>5, <1>6, FieldsOfCall
  <1>8. call[p].i \in Offset
    BY <1>4, MailboxAssumption DEF Offset
  <1> QED BY <1>1, <1>2, <1>3, <1>7, <1>8 DEF MInv, RingOK

\* The copied bytes stay, and one is added: the slot is nobody else's.
LEMMA WriteByteInv ==
  ASSUME MInv, NEW p \in Producer, WriteByte(p)
  PROVE  MInv'
  <1> USE MailboxAssumption
  <1> DEFINE i == call[p].i
             m == Head(call[p].msgs)
  <1>1. /\ Runs(p) /\ call[p].at = "copy" /\ i < MsgSize
        /\ call' = [call EXCEPT ![p].i = Increment(i)]
        /\ UNCHANGED <<read_pos, write_pos, masked, out, last, notified>>
    BY DEF WriteByte
  <1>2. /\ call' \in [Producer \cup Consumer -> Call]
        /\ \A q \in Producer \cup Consumer : q # p => call'[q] = call[q]
        /\ call'[p].at = "copy" /\ call'[p].i = Increment(i)
        /\ call'[p].atomic = call[p].atomic /\ call'[p].msgs = call[p].msgs
        /\ call'[p].done = call[p].done
        /\ i \in Offset
    BY <1>1, LoopDoes
  <1>3. Alone' /\ \A q \in Producer \ {p} : call[q].at = "idle"
    BY <1>1, <1>2, StepAlone
  <1>4. msg_buf' = [msg_buf EXCEPT ![write_pos][i] = <<m, i>>]
    BY <1>2 DEF WriteByte, Bytes
  <1>5. call[p].msgs # <<>> /\ call[p].msgs \in Seq(Payload) /\ i \in 0 .. MsgSize
    BY <1>1 DEF MInv, ProducerOK, RingOK, Call
  <1>6. m \in Payload
    BY <1>5
  <1>7. /\ msg_buf' \in [Slot -> [Offset -> Byte]]
        /\ msg_buf'[write_pos][i] = <<m, i>>
        /\ \A j \in Offset : j # i => msg_buf'[write_pos][j] = msg_buf[write_pos][j]
        /\ \A s \in Slot : s # write_pos => msg_buf'[s] = msg_buf[s]
    <2>1. <<m, i>> \in Byte
      BY <1>2, <1>6 DEF Byte
    <2> HIDE DEF i, m
    <2> QED BY <1>2, <1>4, <2>1 DEF MInv, RingOK
  <1>8. RingOK'
    BY <1>1, <1>2, <1>7 DEF MInv, RingOK
  <1>9. ProducerOK(p)'
    <2>1. \A j \in Offset : j < Increment(i) => j < i \/ j = i
      BY <1>1, <1>5, Counter
    <2>2. \A j \in Offset : j < Increment(i) => msg_buf'[write_pos][j] = <<m, j>>
      BY <1>1, <1>7, <2>1 DEF MInv, ProducerOK
    <2> QED BY <1>1, <1>2, <2>2 DEF MInv, ProducerOK
  <1>10. \A q \in Producer : ProducerOK(q)'
    BY <1>2, <1>3, <1>9, IdleProducer DEF MInv
  <1>11. \A c \in Consumer : ConsumerOK(c)'
    <2> SUFFICES ASSUME NEW c \in Consumer PROVE ConsumerOK(c)'
      OBVIOUS
    <2>1. call'[c] = call[c] /\ ConsumerOK(c)
      BY <1>2 DEF MInv
    <2>2. call[c].at = "copy" => msg_buf'[read_pos] = msg_buf[read_pos]
      BY <1>7, <2>1 DEF MInv, RingOK, ConsumerOK
    <2> QED BY <1>1, <2>1, <2>2 DEF ConsumerOK
  <1>12. Told'
    BY <1>1, <1>2 DEF MInv, Told
  <1> QED BY <1>3, <1>8, <1>10, <1>11, <1>12 DEF MInv

\* The position moves only after all bytes of the slot.
LEMMA WriteCommitInv ==
  ASSUME MInv, NEW p \in Producer, WriteCommit(p)
  PROVE  MInv'
  <1> USE MailboxAssumption
  <1> DEFINE y == [call[p] EXCEPT !.at = "check", !.i = 0, !.msgs = Tail(@), !.done = @ + 1]
  <1>1. /\ Runs(p) /\ call[p].at = "copy" /\ write_pos' = Next1(write_pos)
        /\ UNCHANGED <<msg_buf, read_pos, masked, out, notified>>
    BY DEF WriteCommit
  <1>2. call[p] \in Call /\ DOMAIN call = Producer \cup Consumer
    BY DEF MInv, RingOK
  <1>3. call' = [call EXCEPT ![p] = y]
    BY DEF WriteCommit
  <1>4. /\ y.at = "check" /\ y.i = 0 /\ y.atomic = call[p].atomic
        /\ y.msgs = Tail(call[p].msgs) /\ y.num = call[p].num /\ y.done = call[p].done + 1
    BY <1>2 DEF Call
  <1>5. /\ call[p].atomic \in BOOLEAN /\ call[p].msgs \in Seq(Payload)
        /\ call[p].num \in 0 .. Batch /\ call[p].done \in 0 .. Batch
    BY <1>2 DEF Call
  <1>6. DOMAIN y = DOMAIN Idle /\ y = [k \in DOMAIN y |-> y[k]]
    BY <1>2 DEF Call, Idle
  <1> HIDE DEF y
  <1>7. /\ call[p].msgs # <<>> /\ Len(call[p].msgs) + call[p].done <= Batch
        /\ Next1(write_pos) # read_pos
    BY <1>1 DEF MInv, ProducerOK
  <1>8. /\ y.msgs \in Seq(Payload) /\ Len(y.msgs) + y.done <= Batch
        /\ y.done \in 0 .. Batch /\ y.done > 0
    <2>1. /\ Tail(call[p].msgs) \in Seq(Payload)
          /\ Len(Tail(call[p].msgs)) = Len(call[p].msgs) - 1 /\ Len(call[p].msgs) \in Nat
      BY <1>5, <1>7, HeadTailProperties
    <2>2. y.msgs \in Seq(Payload) /\ Len(y.msgs) = Len(call[p].msgs) - 1
      BY <1>4, <2>1
    <2>3. Len(y.msgs) \in Nat
      BY <2>2
    <2>4. /\ Len(y.msgs) + y.done <= Batch /\ y.done \in 0 .. Batch /\ y.done > 0
      <3> DEFINE n == Len(y.msgs)
                 l == Len(call[p].msgs)
                 d == call[p].done
      <3>1. n \in Nat /\ l \in Nat /\ d \in 0 .. Batch /\ n = l - 1 /\ l + d <= Batch
            /\ y.done = d + 1 /\ Batch \in Nat
        BY <1>4, <1>5, <1>7, <2>1, <2>2, <2>3
      <3> HIDE DEF n, l, d
      <3>2. n + y.done <= Batch /\ y.done \in 0 .. Batch /\ y.done > 0
        BY <3>1
      <3> QED BY <3>2 DEF n
    <2> QED BY <2>2, <2>4
  <1>9. y \in Call
    <2>1. y.i \in 0 .. MsgSize /\ y.at \in {"idle", "check", "copy", "notify"}
      BY <1>4
    <2> QED BY <1>4, <1>5, <1>6, <1>8, <2>1, FieldsOfCall
  <1>10. /\ call' \in [Producer \cup Consumer -> Call] /\ call'[p] = y
         /\ \A q \in Producer \cup Consumer : q # p => call'[q] = call[q]
    BY <1>3, <1>9 DEF MInv, RingOK
  <1>11. Alone' /\ \A q \in Producer \ {p} : call[q].at = "idle"
    BY <1>1, <1>4, <1>10, StepAlone
  <1>12. RingOK'
    BY <1>1, <1>10, NextSlot DEF MInv, RingOK
  <1>13. ProducerOK(p)'
    BY <1>4, <1>8, <1>10 DEF ProducerOK
  <1>14. \A q \in Producer : ProducerOK(q)'
    BY <1>10, <1>11, <1>13, IdleProducer DEF MInv
  <1>15. \A c \in Consumer : ConsumerOK(c)'
    BY <1>1, <1>7, <1>10 DEF MInv, ConsumerOK
  <1>16. Told'
    BY <1>4, <1>8, <1>10 DEF Told
  <1> QED BY <1>11, <1>12, <1>14, <1>15, <1>16 DEF MInv

\* A consumer ends its loop early only when the mailbox is empty, so that it may
\* forget the call of data_added.
LEMMA ReadCheckInv ==
  ASSUME MInv, NEW c \in Consumer, ReadCheck(c)
  PROVE  MInv'
  <1> USE MailboxAssumption
  <1>1. /\ Runs(c) /\ call[c].at = "check"
        /\ UNCHANGED <<msg_buf, read_pos, write_pos, out, last>>
    BY DEF ReadCheck
  <1>2. ASSUME GoTo(c, "copy"), masked' = masked, notified' = notified,
               call[c].done < call[c].num, read_pos # write_pos
        PROVE  MInv'
    <2>1. /\ call' \in [Producer \cup Consumer -> Call]
          /\ \A q \in Producer \cup Consumer : q # c => call'[q] = call[q]
          /\ call'[c].at = "copy" /\ call'[c].i = 0 /\ call'[c].atomic = call[c].atomic
          /\ call'[c].num = call[c].num /\ call'[c].done = call[c].done
      BY <1>2, GoToDoes
    <2>2. Alone' /\ \A q \in Consumer \ {c} : call[q].at = "idle"
      BY <1>1, <1>2, <2>1, StepAlone
    <2>3. RingOK'
      BY <1>1, <1>2, <2>1 DEF MInv, RingOK
    <2>4. ConsumerOK(c)'
      BY <1>1, <1>2, <2>1 DEF MInv, ConsumerOK, Offset
    <2>5. \A q \in Consumer : ConsumerOK(q)'
      BY <2>1, <2>2, <2>4, IdleConsumer DEF MInv
    <2>6. \A p \in Producer : ProducerOK(p)'
      BY <1>1, <2>1 DEF MInv, ProducerOK
    <2>7. Told'
      BY <1>1, <1>2, <2>1 DEF MInv, Told
    <2> QED BY <2>2, <2>3, <2>5, <2>6, <2>7 DEF MInv
  <1>3. ASSUME Return(c), notified' = (notified /\ call[c].done = call[c].num),
               ~(call[c].done < call[c].num /\ read_pos # write_pos)
        PROVE  MInv'
    <2>1. /\ call' \in [Producer \cup Consumer -> Call]
          /\ \A q \in Producer \cup Consumer : q # c => call'[q] = call[q]
          /\ call'[c].at = "idle" /\ call'[c].done = 0 /\ call'[c].num = 0
          /\ masked' = NULL
      BY <1>3, ReturnDoes
    <2>2. Alone' /\ \A q \in Consumer \ {c} : call[q].at = "idle"
      BY <1>1, <2>1, StepAlone
    <2>3. notified' \in BOOLEAN
      BY <1>3 DEF MInv, RingOK
    <2>4. RingOK'
      BY <1>1, <2>1, <2>3 DEF MInv, RingOK
    <2>5. ConsumerOK(c)'
      BY <2>1 DEF ConsumerOK
    <2>6. \A q \in Consumer : ConsumerOK(q)'
      BY <2>1, <2>2, <2>5, IdleConsumer DEF MInv
    <2>7. \A p \in Producer : ProducerOK(p)'
      BY <1>1, <2>1 DEF MInv, ProducerOK
    <2>8. read_pos # write_pos => (notified' <=> notified)
      <3>1. call[c].done \in 0 .. Batch /\ call[c].num \in 0 .. Batch /\ call[c].done <= call[c].num
        BY DEF MInv, RingOK, Call, ConsumerOK
      <3>2. read_pos # write_pos => call[c].done = call[c].num
        BY <1>3, <3>1
      <3> QED BY <1>3, <3>2
    <2>9. Told'
      <3> SUFFICES ASSUME read_pos # write_pos, ~notified
                   PROVE  \E p \in Producer : /\ call'[p].at # "idle"
                                              /\ call'[p].at = "notify" \/ call'[p].done > 0
        BY <1>1, <2>8 DEF Told
      <3> QED BY <2>1 DEF MInv, Told
    <2> QED BY <2>2, <2>4, <2>6, <2>7, <2>9 DEF MInv
  <1> QED BY <1>2, <1>3 DEF ReadCheck

\* The slot that is read is not the one that is written.
LEMMA ReadByteInv ==
  ASSUME MInv, NEW c \in Consumer, ReadByte(c)
  PROVE  MInv'
  <1> USE MailboxAssumption
  <1> DEFINE i == call[c].i
  <1>1. /\ Runs(c) /\ call[c].at = "copy" /\ i < MsgSize
        /\ call' = [call EXCEPT ![c].i = Increment(i)]
        /\ out' = [out EXCEPT ![i] = msg_buf[read_pos][i]]
        /\ UNCHANGED <<msg_buf, read_pos, write_pos, masked, last, notified>>
    BY DEF ReadByte
  <1>2. /\ call' \in [Producer \cup Consumer -> Call]
        /\ \A q \in Producer \cup Consumer : q # c => call'[q] = call[q]
        /\ call'[c].at = "copy" /\ call'[c].i = Increment(i)
        /\ call'[c].atomic = call[c].atomic
        /\ call'[c].num = call[c].num /\ call'[c].done = call[c].done
        /\ i \in Offset
    BY <1>1, LoopDoes
  <1>3. Alone' /\ \A q \in Consumer \ {c} : call[q].at = "idle"
    BY <1>1, <1>2, StepAlone
  <1>4. i \in 0 .. MsgSize
    BY DEF MInv, RingOK, Call
  <1>5. /\ out' \in [Offset -> Byte] /\ out'[i] = msg_buf[read_pos][i]
        /\ \A j \in Offset : j # i => out'[j] = out[j]
    <2>1. msg_buf[read_pos][i] \in Byte
      BY <1>2 DEF MInv, RingOK
    <2> QED BY <1>1, <1>2, <2>1 DEF MInv, RingOK
  <1>6. RingOK'
    BY <1>1, <1>2, <1>5 DEF MInv, RingOK
  <1>7. ConsumerOK(c)'
    <2>1. \A j \in Offset : j < Increment(i) => j < i \/ j = i
      BY <1>1, <1>4, Counter
    <2>2. \A j \in Offset : j < Increment(i) => out'[j] = msg_buf[read_pos][j]
      BY <1>1, <1>5, <2>1 DEF MInv, ConsumerOK
    <2> QED BY <1>1, <1>2, <2>2 DEF MInv, ConsumerOK
  <1>8. \A q \in Consumer : ConsumerOK(q)'
    BY <1>2, <1>3, <1>7, IdleConsumer DEF MInv
  <1>9. \A p \in Producer : ProducerOK(p)'
    BY <1>1, <1>2 DEF MInv, ProducerOK
  <1>10. Told'
    BY <1>1, <1>2 DEF MInv, Told
  <1> QED BY <1>3, <1>6, <1>8, <1>9, <1>10 DEF MInv

\* The producer finds more room than before.
LEMMA ReadCommitInv ==
  ASSUME MInv, NEW c \in Consumer, ReadCommit(c)
  PROVE  MInv'
  <1> USE MailboxAssumption
  <1> DEFINE y == [call[c] EXCEPT !.at = "check", !.i = 0, !.done = @ + 1]
  <1>1. /\ Runs(c) /\ call[c].at = "copy" /\ read_pos' = Next1(read_pos)
        /\ UNCHANGED <<msg_buf, write_pos, masked, out, notified>>
    BY DEF ReadCommit
  <1>2. call[c] \in Call /\ DOMAIN call = Producer \cup Consumer
    BY DEF MInv, RingOK
  <1>3. call' = [call EXCEPT ![c] = y]
    BY <1>2 DEF ReadCommit
  <1>4. /\ y.at = "check" /\ y.i = 0 /\ y.atomic = call[c].atomic
        /\ y.msgs = call[c].msgs /\ y.num = call[c].num /\ y.done = call[c].done + 1
    BY <1>2 DEF Call
  <1>5. /\ call[c].atomic \in BOOLEAN /\ call[c].msgs \in Seq(Payload)
        /\ call[c].num \in 0 .. Batch /\ call[c].done \in 0 .. Batch
    BY <1>2 DEF Call
  <1>6. DOMAIN y = DOMAIN Idle /\ y = [k \in DOMAIN y |-> y[k]]
    BY <1>2 DEF Call, Idle
  <1> HIDE DEF y
  <1>7. call[c].done < call[c].num /\ read_pos # write_pos
    BY <1>1 DEF MInv, ConsumerOK
  <1>8. y.done \in 0 .. Batch /\ y.done <= y.num
    BY <1>4, <1>5, <1>7
  <1>9. y \in Call
    <2>1. y.i \in 0 .. MsgSize /\ y.at \in {"idle", "check", "copy", "notify"}
      BY <1>4
    <2> QED BY <1>4, <1>5, <1>6, <1>8, <2>1, FieldsOfCall
  <1>10. /\ call' \in [Producer \cup Consumer -> Call] /\ call'[c] = y
         /\ \A q \in Producer \cup Consumer : q # c => call'[q] = call[q]
    BY <1>3, <1>9 DEF MInv, RingOK
  <1>11. Alone' /\ \A q \in Consumer \ {c} : call[q].at = "idle"
    BY <1>1, <1>4, <1>10, StepAlone
  <1>12. RingOK'
    BY <1>1, <1>10, NextSlot DEF MInv, RingOK
  <1>13. ConsumerOK(c)'
    BY <1>4, <1>8, <1>10 DEF ConsumerOK
  <1>14. \A q \in Consumer : ConsumerOK(q)'
    BY <1>10, <1>11, <1>13, IdleConsumer DEF MInv
  <1>15. \A p \in Producer : ProducerOK(p)'
    <2>1. Next1(write_pos) # Next1(read_pos)
      BY <1>7, NextSlot DEF MInv, RingOK
    <2> QED BY <1>1, <1>10, <2>1 DEF MInv, ProducerOK
  <1>16. Told'
    BY <1>1, <1>7, <1>10 DEF MInv, Told
  <1> QED BY <1>11, <1>12, <1>14, <1>15, <1>16 DEF MInv

\* Every step keeps the invariant.
LEMMA MInvInductive == MInv /\ [Next]_vars => MInv'
  <1> SUFFICES ASSUME MInv, [Next]_vars PROVE MInv'
    OBVIOUS
  <1>1. CASE UNCHANGED vars
    BY <1>1 DEF vars, MInv, RingOK, Alone, ProducerOK, ConsumerOK, Told
  <1>2. ASSUME NEW p \in Producer, InCall(p) PROVE MInv'
    BY <1>2, WriteCheckInv, WriteByteInv, WriteCommitInv, WriteNotifyInv DEF InCall
  <1>3. ASSUME NEW c \in Consumer, InRead(c) PROVE MInv'
    BY <1>3, ReadCheckInv, ReadByteInv, ReadCommitInv DEF InRead
  <1> QED BY <1>1, <1>2, <1>3, WriteCallInv, ReadCallInv DEF Next

\* The invariant holds in every state of every mailbox.
THEOREM Invariance == Spec => []MInv
  BY MInvInit, MInvInductive, PTL DEF Spec

-----------------------------------------------------------------------------
(* What a mailbox promises.                                                *)

\* Positions stay in the ring, loop counters in a message, and the number of
\* messages moved in the call.
THEOREM TypeCorrect == Spec => []TypeOK
  <1>1. MInv => TypeOK
    <2> SUFFICES ASSUME MInv PROVE TypeOK
      OBVIOUS
    <2>1. \A p \in Producer \cup Consumer :
            /\ call[p].at \in {"idle", "check", "copy", "notify"}
            /\ call[p].i \in 0 .. MsgSize /\ call[p].done \in 0 .. Batch
      BY DEF MInv, RingOK, Call
    <2> QED BY <2>1 DEF MInv, RingOK, Byte, TypeOK
  <1> QED BY <1>1, Invariance, PTL

\* A producer and a consumer never copy into and out of the same slot, without a
\* lock between them.
THEOREM CopiesAreApart == Spec => []SlotsApart
  <1>1. MInv => SlotsApart
    BY DEF MInv, ConsumerOK, SlotsApart
  <1> QED BY <1>1, Invariance, PTL

\* data_added is called for every message that a consumer has not seen.
THEOREM MessagesAreAnnounced == Spec => []NothingUnnoticed
  <1>1. MInv => NothingUnnoticed
    <2> SUFFICES ASSUME MInv, Count > 0, \A p \in Producer \cup Consumer : call[p].at = "idle"
                 PROVE  notified
      BY DEF NothingUnnoticed
    <2>1. read_pos # write_pos
      <3>1. read_pos \in Int /\ write_pos \in Int
        BY DEF MInv, RingOK, Slot
      <3> QED BY <3>1, CountIs DEF CountOK, MInv
    <2> QED BY <2>1 DEF MInv, Told
  <1> QED BY <1>1, Invariance, PTL

\* A step of one call leaves the others alone.
LEMMA OthersKept ==
  ASSUME MInv, Next
  PROVE  \/ \E p \in Producer :
              /\ \A q \in Producer \cup Consumer : q # p => call'[q] = call[q]
              /\ InCall(p) \/ call[p].at = "idle"
         \/ \E c \in Consumer :
              /\ \A q \in Producer \cup Consumer : q # c => call'[q] = call[q]
              /\ InRead(c) \/ call[c].at = "idle"
  <1>1. DOMAIN call = Producer \cup Consumer
    BY DEF MInv, RingOK
  <1>2. ASSUME NEW p \in Producer, InCall(p)
        PROVE  \A q \in Producer \cup Consumer : q # p => call'[q] = call[q]
    BY <1>1, <1>2 DEF InCall, WriteCheck, WriteByte, WriteCommit, WriteNotify, GoTo, Return
  <1>3. ASSUME NEW p \in Producer, NEW msgs, NEW atomic, WriteCall(p, msgs, atomic)
        PROVE  /\ \A q \in Producer \cup Consumer : q # p => call'[q] = call[q]
               /\ call[p].at = "idle"
    BY <1>1, <1>3 DEF WriteCall
  <1>4. ASSUME NEW c \in Consumer, InRead(c)
        PROVE  \A q \in Producer \cup Consumer : q # c => call'[q] = call[q]
    BY <1>1, <1>4 DEF InRead, ReadCheck, ReadByte, ReadCommit, GoTo, Return
  <1>5. ASSUME NEW c \in Consumer, NEW num, NEW atomic, ReadCall(c, num, atomic)
        PROVE  /\ \A q \in Producer \cup Consumer : q # c => call'[q] = call[q]
               /\ call[c].at = "idle"
    BY <1>1, <1>5 DEF ReadCall
  <1> QED BY <1>2, <1>3, <1>4, <1>5 DEF Next

\* A full ring has a message in every slot but one.
LEMMA FullIs ==
  ASSUME RingOK
  PROVE  /\ Next1(write_pos) = read_pos <=> Count = NumMsgs - 1
         /\ write_pos = read_pos <=> Count = 0
         /\ Count \in 0 .. NumMsgs - 1
  <1>1. /\ read_pos \in 0 .. NumMsgs - 1 /\ write_pos \in 0 .. NumMsgs - 1
        /\ NumMsgs \in Nat \ {0}
    BY MailboxAssumption DEF RingOK, Slot
  <1>2. CASE read_pos <= write_pos
    BY <1>1, <1>2, CountIs DEF CountOK, Next1
  <1>3. CASE read_pos > write_pos
    BY <1>1, <1>3, CountIs DEF CountOK, Next1
  <1> QED BY <1>1, <1>2, <1>3

\* A call gives up only when there is no room, or no message, at that moment.
THEOREM RefusalsAreTrue == Spec => NoFalseRefusal
  <1>1. ASSUME MInv, [Next]_vars, NEW p \in Producer \cup Consumer,
               call[p].at = "check", call'[p].at \in {"idle", "notify"}
        PROVE  /\ p \in Producer => call[p].msgs = <<>> \/ Count = NumMsgs - 1
               /\ p \in Consumer => call[p].done = call[p].num \/ Count = 0
    <2>1. Next
      BY <1>1 DEF vars
    <2>2. (p \in Producer /\ InCall(p)) \/ (p \in Consumer /\ InRead(p))
      BY <1>1, <2>1, OthersKept
    <2>3. CASE p \in Producer /\ InCall(p)
      <3>1. WriteCheck(p)
        BY <1>1, <2>3 DEF InCall, WriteByte, WriteCommit, WriteNotify
      <3>2. ~GoTo(p, "copy")
        BY <1>1, GoToDoes
      <3>3. call[p].msgs = <<>> \/ Next1(write_pos) = read_pos
        BY <3>1, <3>2 DEF WriteCheck
      <3> QED BY <1>1, <2>3, <3>3, FullIs, MailboxAssumption DEF MInv
    <2>4. CASE p \in Consumer /\ InRead(p)
      <3>1. ReadCheck(p)
        BY <1>1, <2>4 DEF InRead, ReadByte, ReadCommit
      <3>2. ~GoTo(p, "copy")
        BY <1>1, GoToDoes
      <3>3. ~(call[p].done < call[p].num) \/ read_pos = write_pos
        BY <3>1, <3>2 DEF ReadCheck
      <3>4. call[p].done \in 0 .. Batch /\ call[p].num \in 0 .. Batch /\ call[p].done <= call[p].num
        BY <1>1, <2>4 DEF MInv, RingOK, Call, ConsumerOK
      <3> QED BY <1>1, <2>4, <3>3, <3>4, FullIs, MailboxAssumption DEF MInv
    <2> QED BY <2>2, <2>3, <2>4
  <1>2. MInv /\ [Next]_vars
          => [\A p \in Producer \cup Consumer :
                (call[p].at = "check" /\ call'[p].at \in {"idle", "notify"})
                  => /\ p \in Producer => call[p].msgs = <<>> \/ Count = NumMsgs - 1
                     /\ p \in Consumer => call[p].done = call[p].num \/ Count = 0]_vars
    BY <1>1
  <1> QED BY <1>2, Invariance, PTL DEF Spec, NoFalseRefusal

-----------------------------------------------------------------------------
(* The queue.                                                              *)

\* The slot of the k-th message.
Place(k) == (read_pos + k - 1) % NumMsgs

\* The stored messages are in other slots than the one that is written.
LEMMA Places ==
  ASSUME RingOK
  PROVE  /\ \A k \in 1 .. Count : Place(k) \in Slot /\ Place(k) # write_pos
         /\ Place(1) = read_pos
         /\ Place(Count + 1) = write_pos
  <1>1. /\ read_pos \in 0 .. NumMsgs - 1 /\ write_pos \in 0 .. NumMsgs - 1
        /\ NumMsgs \in Nat \ {0} /\ Slot = 0 .. NumMsgs - 1
    BY MailboxAssumption DEF RingOK, Slot
  <1>2. Count \in 0 .. NumMsgs - 1
    BY FullIs
  <1>3. ASSUME NEW k \in 1 .. Count + 1
        PROVE  \/ read_pos + k - 1 < NumMsgs /\ Place(k) = read_pos + k - 1
               \/ read_pos + k - 1 >= NumMsgs /\ Place(k) = read_pos + k - 1 - NumMsgs
    <2>1. PICK x \in 0 .. NumMsgs + NumMsgs - 1 : x = read_pos + k - 1
      BY <1>1, <1>2
    <2>2. Place(k) = x % NumMsgs
      BY <2>1 DEF Place
    <2>3. x % NumMsgs = IF x < NumMsgs THEN x ELSE x - NumMsgs
      BY Wraps
    <2>4. \/ x < NumMsgs /\ Place(k) = x
          \/ x >= NumMsgs /\ Place(k) = x - NumMsgs
      BY <1>1, <2>1, <2>2, <2>3
    <2> QED BY <1>1, <1>2, <2>1, <2>4
  <1>4. CASE read_pos <= write_pos
    <2>1. Count = write_pos - read_pos
      BY <1>4, CountIs DEF CountOK
    <2> QED BY <1>1, <1>2, <1>3, <1>4, <2>1
  <1>5. CASE read_pos > write_pos
    <2>1. Count = write_pos - read_pos + NumMsgs
      BY <1>5, CountIs DEF CountOK
    <2> QED BY <1>1, <1>2, <1>3, <1>5, <2>1
  <1> QED BY <1>1, <1>4, <1>5

\* The queue is a sequence of messages.
StoredOK ==
  /\ Stored \in Seq([Offset -> Byte]) /\ Len(Stored) = Count /\ Count \in Nat
  /\ \A k \in 1 .. Count : Stored[k] = msg_buf[Place(k)]

\* It has as many messages as the positions tell, in the slots between them.
LEMMA StoredIs == RingOK => StoredOK
  <1> SUFFICES ASSUME RingOK PROVE StoredOK
    OBVIOUS
  <1>1. Count \in Nat
    BY FullIs, MailboxAssumption
  <1>2. Stored = [k \in 1 .. Count |-> msg_buf[Place(k)]]
    BY DEF Stored, Place
  <1>3. \A k \in 1 .. Count : msg_buf[Place(k)] \in [Offset -> Byte]
    BY Places DEF RingOK
  <1>4. Stored \in [1 .. Count -> [Offset -> Byte]]
    BY <1>2, <1>3
  <1> QED BY <1>1, <1>2, <1>4 DEF StoredOK

\* And after a step.
LEMMA StoredIsNext == RingOK' => StoredOK'
  BY StoredIs, PTL

\* Two queues with the same messages.
LEMMA SameQueue ==
  ASSUME NEW S, NEW s \in Seq(S), NEW t \in Seq(S), Len(s) = Len(t),
         \A k \in 1 .. Len(s) : s[k] = t[k]
  PROVE  s = t
  OBVIOUS

\* A step that moves no position and writes into no stored message.
LEMMA StoredKept ==
  ASSUME RingOK, RingOK', read_pos' = read_pos, write_pos' = write_pos,
         \A s \in Slot : s # write_pos => msg_buf'[s] = msg_buf[s]
  PROVE  Stored' = Stored
  <1>1. StoredOK /\ StoredOK'
    BY StoredIs, StoredIsNext
  <1>2. Count' = Count
    BY DEF Count
  <1>3. \A k \in 1 .. Count : Place(k)' = Place(k)
    BY DEF Place
  <1>4. \A k \in 1 .. Count : Stored'[k] = Stored[k]
    BY <1>1, <1>2, <1>3, Places DEF StoredOK
  <1> HIDE DEF Stored, Count
  <1> QED BY <1>1, <1>2, <1>4, SameQueue DEF StoredOK

\* The step that a write takes effect in.
LEMMA CommitPuts ==
  ASSUME MInv, RingOK', NEW p \in Producer, WriteCommit(p)
  PROVE  \E m \in {Bytes(m) : m \in Payload} : F!Put(m)
  <1> USE MailboxAssumption
  <1> DEFINE m == Head(call[p].msgs)
  <1>1. /\ call[p].at = "copy" /\ call[p].i >= MsgSize /\ write_pos' = Next1(write_pos)
        /\ UNCHANGED <<msg_buf, read_pos, last>>
    BY DEF WriteCommit
  <1>2. /\ call[p].msgs # <<>> /\ Next1(write_pos) # read_pos
        /\ \A j \in Offset : j < call[p].i => msg_buf[write_pos][j] = <<m, j>>
    BY <1>1 DEF MInv, ProducerOK
  <1>3. m \in Payload
    BY <1>2 DEF MInv, RingOK, Call
  <1>4. msg_buf[write_pos] = Bytes(m)
    <2>1. msg_buf[write_pos] \in [Offset -> Byte]
      BY DEF MInv, RingOK
    <2>2. \A j \in Offset : j < call[p].i
      BY <1>1 DEF Offset, MInv, RingOK, Call
    <2>3. \A j \in Offset : msg_buf[write_pos][j] = <<m, j>>
      BY <1>2, <2>2
    <2> HIDE DEF m
    <2> QED BY <2>1, <2>3 DEF Bytes
  <1>5. StoredOK /\ StoredOK' /\ RingOK
    BY StoredIs, StoredIsNext DEF MInv
  <1>6. Count \in 0 .. NumMsgs - 1 /\ Count # NumMsgs - 1
    BY <1>2, <1>5, FullIs
  <1>7. Count' = Count + 1
    <2>1. /\ read_pos \in 0 .. NumMsgs - 1 /\ write_pos \in 0 .. NumMsgs - 1
          /\ NumMsgs \in Nat \ {0}
      BY <1>5 DEF RingOK, Slot
    <2>2. CountOK /\ CountOK'
      BY <1>5, CountIs, CountIsNext
    <2> QED BY <1>1, <1>2, <1>6, <2>1, <2>2 DEF CountOK, Next1
  <1>8. \A k \in 1 .. Count + 1 : Place(k)' = Place(k)
    BY <1>1 DEF Place
  <1>9. \A k \in 1 .. Count : Stored'[k] = Stored[k]
    BY <1>1, <1>5, <1>6, <1>7, <1>8 DEF StoredOK
  <1>10. Stored'[Count + 1] = Bytes(m)
    <2>1. PICK n \in Nat : n = Count + 1
      BY <1>6
    <2>2. Stored'[n] = msg_buf'[Place(n)'] /\ Place(n)' = Place(n)
      BY <1>5, <1>6, <1>7, <1>8, <2>1 DEF StoredOK
    <2>3. Place(n) = write_pos
      BY <1>5, <2>1, Places
    <2> QED BY <1>1, <1>4, <2>1, <2>2, <2>3
  <1>11. Bytes(m) \in [Offset -> Byte]
    BY <1>4 DEF MInv, RingOK
  <1> HIDE DEF m
  <1>12. Stored' = Append(Stored, Bytes(m))
    <2> DEFINE t == Append(Stored, Bytes(m))
    <2>1. /\ t \in Seq([Offset -> Byte]) /\ Len(t) = Count + 1
          /\ \A k \in 1 .. Count : t[k] = Stored[k]
          /\ t[Count + 1] = Bytes(m)
      BY <1>5, <1>11, AppendProperties DEF StoredOK
    <2> HIDE DEF t
    <2>2. \A k \in 1 .. Count + 1 : Stored'[k] = t[k]
      BY <1>6, <1>9, <1>10, <2>1
    <2>3. Stored' = t
      BY <1>5, <1>7, <2>1, <2>2, SameQueue DEF StoredOK
    <2> QED BY <2>3 DEF t
  <1>13. Len(Stored) < NumMsgs - 1
    BY <1>5, <1>6 DEF StoredOK
  <1> QED BY <1>1, <1>3, <1>12, <1>13 DEF F!Put

\* The step that a read takes effect in.
LEMMA CommitGets ==
  ASSUME MInv, RingOK', NEW c \in Consumer, ReadCommit(c)
  PROVE  F!Get
  <1> USE MailboxAssumption
  <1>1. /\ call[c].at = "copy" /\ call[c].i >= MsgSize /\ read_pos' = Next1(read_pos)
        /\ last' = out /\ UNCHANGED <<msg_buf, write_pos>>
    BY DEF ReadCommit
  <1>2. /\ read_pos # write_pos
        /\ \A j \in Offset : j < call[c].i => out[j] = msg_buf[read_pos][j]
    BY <1>1 DEF MInv, ConsumerOK
  <1>3. out = msg_buf[read_pos]
    <2>1. msg_buf[read_pos] \in [Offset -> Byte] /\ out \in [Offset -> Byte]
      BY DEF MInv, RingOK
    <2>2. \A j \in Offset : j < call[c].i
      BY <1>1 DEF Offset, MInv, RingOK, Call
    <2> QED BY <1>2, <2>1, <2>2
  <1>4. StoredOK /\ StoredOK' /\ RingOK
    BY StoredIs, StoredIsNext DEF MInv
  <1>5. Count \in 1 .. NumMsgs - 1
    BY <1>2, <1>4, FullIs
  <1>6. /\ read_pos \in 0 .. NumMsgs - 1 /\ write_pos \in 0 .. NumMsgs - 1
        /\ NumMsgs \in Nat \ {0}
    BY <1>4 DEF RingOK, Slot
  <1>7. Count' = Count - 1
    <2>1. CountOK /\ CountOK'
      BY <1>4, CountIs, CountIsNext
    <2> QED BY <1>1, <1>2, <1>5, <1>6, <2>1 DEF CountOK, Next1
  <1>8. ASSUME NEW k \in 1 .. Count - 1 PROVE Place(k)' = Place(k + 1)
    <2>1. /\ Place(k)' = (Next1(read_pos) + k - 1) % NumMsgs
          /\ Place(k + 1) = (read_pos + k) % NumMsgs
      <3>1. read_pos + (k + 1) - 1 = read_pos + k
        BY <1>6
      <3> QED BY <1>1, <3>1 DEF Place
    <2>2. CASE read_pos + 1 # NumMsgs
      <3>1. Next1(read_pos) + k - 1 = read_pos + k
        BY <1>6, <2>2 DEF Next1
      <3> QED BY <2>1, <3>1
    <2>3. CASE read_pos + 1 = NumMsgs
      <3>1. PICK x \in 0 .. NumMsgs - 1 : x = k - 1
        BY <1>5
      <3>2. PICK z \in NumMsgs .. NumMsgs + NumMsgs - 1 : z = read_pos + k
        BY <1>5, <1>6, <2>3
      <3>3. x % NumMsgs = x /\ z % NumMsgs = z - NumMsgs
        BY Remainder
      <3>4. Next1(read_pos) + k - 1 = x /\ z - NumMsgs = x
        BY <1>6, <2>3, <3>1, <3>2 DEF Next1
      <3> QED BY <2>1, <3>2, <3>3, <3>4
    <2> QED BY <2>2, <2>3
  <1>9. Stored # <<>> /\ Head(Stored) = out
    <2>1. Stored[1] = msg_buf[Place(1)] /\ Place(1) = read_pos
      BY <1>4, <1>5, Places DEF StoredOK
    <2>2. Stored \in Seq([Offset -> Byte]) /\ Len(Stored) # 0
      BY <1>4, <1>5 DEF StoredOK
    <2> HIDE DEF Stored
    <2> QED BY <1>3, <2>1, <2>2
  <1>10. Stored' = Tail(Stored)
    <2> DEFINE t == Tail(Stored)
    <2>1. /\ t \in Seq([Offset -> Byte]) /\ Len(t) = Count - 1
          /\ \A k \in 1 .. Count - 1 : t[k] = Stored[k + 1]
      BY <1>4, <1>5, <1>9, HeadTailProperties DEF StoredOK
    <2> HIDE DEF t
    <2>2. \A k \in 1 .. Count - 1 : Stored'[k] = Stored[k + 1]
      <3> SUFFICES ASSUME NEW k \in 1 .. Count - 1 PROVE Stored'[k] = Stored[k + 1]
        OBVIOUS
      <3>1. k \in 1 .. Count' /\ k + 1 \in 1 .. Count
        BY <1>5, <1>7
      <3>2. Stored'[k] = msg_buf'[Place(k)'] /\ Stored[k + 1] = msg_buf[Place(k + 1)]
        BY <1>4, <3>1 DEF StoredOK
      <3> QED BY <1>1, <1>8, <3>2
    <2>3. Stored' = t
      BY <1>4, <1>7, <2>1, <2>2, SameQueue DEF StoredOK
    <2> QED BY <2>3 DEF t
  <1> QED BY <1>1, <1>9, <1>10 DEF F!Get

\* The steps that take no message in or out.
LEMMA OtherSteps ==
  ASSUME MInv, MInv', NEW p \in Producer \cup Consumer,
         \/ p \in Producer /\ InCall(p) /\ ~WriteCommit(p)
         \/ p \in Consumer /\ InRead(p) /\ ~ReadCommit(p)
         \/ \E msgs, atomic : WriteCall(p, msgs, atomic)
         \/ \E num, atomic : ReadCall(p, num, atomic)
  PROVE  UNCHANGED <<Stored, last>>
  <1>1. UNCHANGED <<read_pos, write_pos, last>>
    BY DEF InCall, InRead, WriteCheck, WriteByte, WriteNotify, WriteCall,
           ReadCheck, ReadByte, ReadCall
  <1>2. WriteByte(p) \/ UNCHANGED msg_buf
    BY DEF InCall, InRead, WriteCheck, WriteNotify, WriteCall, ReadCheck, ReadByte, ReadCall
  <1>3. \A s \in Slot : s # write_pos => msg_buf'[s] = msg_buf[s]
    BY <1>2 DEF WriteByte, MInv, RingOK
  <1>4. Stored' = Stored
    BY <1>1, <1>3, StoredKept DEF MInv
  <1> QED BY <1>1, <1>4

\* os_mailbox_* implement a bounded queue: the commit of a write puts a message,
\* the commit of a read gets one, and no other step is seen from outside.
THEOREM ImplementsAQueue == Spec => ImplementsFifo
  <1>1. Init => Stored = <<>>
    <2> SUFFICES ASSUME Init PROVE Stored = <<>>
      OBVIOUS
    <2>1. RingOK /\ read_pos = write_pos
      BY MInvInit DEF MInv, Init
    <2>2. Count = 0 /\ StoredOK
      BY <2>1, FullIs, StoredIs
    <2> HIDE DEF Stored
    <2> QED BY <2>2 DEF StoredOK
  <1>2. MInv /\ MInv' /\ [Next]_vars
          => [F!Get \/ \E m \in {Bytes(m) : m \in Payload} : F!Put(m)]_<<Stored, last>>
    <2> SUFFICES ASSUME MInv, MInv', [Next]_vars
                 PROVE  \/ F!Get \/ \E m \in {Bytes(m) : m \in Payload} : F!Put(m)
                        \/ UNCHANGED <<Stored, last>>
      OBVIOUS
    <2>1. CASE UNCHANGED vars
      BY <2>1, StoredKept DEF vars, MInv
    <2>2. CASE \E p \in Producer : WriteCommit(p)
      BY <2>2, CommitPuts DEF MInv
    <2>3. CASE \E c \in Consumer : ReadCommit(c)
      BY <2>3, CommitGets DEF MInv
    <2>4. CASE /\ Next
               /\ \A p \in Producer : ~WriteCommit(p)
               /\ \A c \in Consumer : ~ReadCommit(c)
      <3>1. PICK p \in Producer \cup Consumer :
              \/ p \in Producer /\ InCall(p) /\ ~WriteCommit(p)
              \/ p \in Consumer /\ InRead(p) /\ ~ReadCommit(p)
              \/ \E msgs, atomic : WriteCall(p, msgs, atomic)
              \/ \E num, atomic : ReadCall(p, num, atomic)
        BY <2>4 DEF Next
      <3> QED BY <3>1, OtherSteps
    <2> QED BY <2>1, <2>2, <2>3, <2>4
  <1> QED BY <1>1, <1>2, Invariance, PTL DEF Spec, ImplementsFifo, F!Spec
=============================================================================
