------------------------------ MODULE Mailbox ------------------------------
(***************************************************************************)
(* A mailbox (mailbox.c): a ring of message slots that producers fill and  *)
(* consumers empty byte by byte.                                           *)
(*                                                                         *)
(* read_pos and write_pos are always multiples of msg_size, and are counted*)
(* in messages here.  Every access to them and to a byte of the buffer is  *)
(* one step, in the order of the code: the stores into the buffer are of   *)
(* type uint8_t, which may alias any field of the mailbox, so the compiler *)
(* keeps them before the store to the position.                            *)
(*                                                                         *)
(* A call of one of the *_atomic functions has the processor from its begin*)
(* to its end.  Producers that do not use them write one after the other,  *)
(* and so do consumers that read.  os_mailbox_write is                     *)
(* os_mailbox_write_multiple of one message, and os_mailbox_read is        *)
(* os_mailbox_read_multiple of one.                                        *)
(*                                                                         *)
(* Definitions whose names end in Bug are mistakes, as in Kernel.          *)
(***************************************************************************)
EXTENDS Integers, Sequences

CONSTANTS
  NumMsgs,       (* num_msgs: the slots of the ring                        *)
  MsgSize,       (* msg_size: the bytes of a slot                          *)
  Payload,       (* what distinguishes one message from another            *)
  Producer, Consumer,
  Batch,         (* bound: the largest number of messages in a call        *)
  NULL

ASSUME MailboxAssumption ==
  /\ NumMsgs \in Nat \ {0} /\ MsgSize \in Nat \ {0} /\ Batch \in Nat \ {0}
  /\ Producer \cap Consumer = {}
  /\ NULL \notin Producer \cup Consumer \cup Payload

Slot   == 0 .. NumMsgs - 1
Offset == 0 .. MsgSize - 1

\* The bytes of a message.
Bytes(m) == [i \in Offset |-> <<m, i>>]

VARIABLES
  msg_buf, read_pos, write_pos,
  call,      (* the call each producer and consumer is in                  *)
  masked,    (* who has masked the interrupts                              *)
  out,       (* the message being read, and the last one that was          *)
  last,      (* what the last successful read returned                     *)
  notified   (* data_added was called since a consumer found no message    *)

vars == <<msg_buf, read_pos, write_pos, call, masked, out, last, notified>>

\* Where a call is, whether it is one of an atomic function, the messages it
\* still has to write, how many it wants to read, how many it has moved, and the
\* loop counter i.
Idle == [at |-> "idle", atomic |-> FALSE, msgs |-> <<>>, num |-> 0, done |-> 0, i |-> 0]

Init ==
  /\ msg_buf = [s \in Slot |-> [i \in Offset |-> NULL]]
  /\ read_pos = 0
  /\ write_pos = 0
  /\ call = [p \in Producer \cup Consumer |-> Idle]
  /\ masked = NULL
  /\ out = [i \in Offset |-> NULL]
  /\ last = out
  /\ notified = FALSE

Next1Bug(pos) == IF pos = NumMsgs THEN 0 ELSE pos + 1
Next1(pos) == IF pos + 1 = NumMsgs THEN 0 ELSE pos + 1

\* The loop counters are of type uint8_t.
Increment(i) == (i + 1) % 256

RunsBug(p) == TRUE
Runs(p) == masked \in {NULL, p}

\* p goes on in its call, or returns from it.
GoTo(p, at) == call' = [call EXCEPT ![p].at = at, ![p].i = 0]
Return(p) ==
  /\ call' = [call EXCEPT ![p] = Idle]
  /\ masked' = NULL

\* Calls of one side overlap only if all of them are atomic.
MayCall(p, side, atomic) ==
  \A q \in side \ {p} : call[q].at # "idle" => atomic /\ call[q].atomic

-----------------------------------------------------------------------------
(* os_mailbox_write, os_mailbox_write_multiple and their atomic versions.  *)

WriteCall(p, msgs, atomic) ==
  /\ Runs(p)
  /\ call[p].at = "idle"
  /\ MayCall(p, Producer, atomic)
  /\ call' = [call EXCEPT ![p] = [Idle EXCEPT !.at = "check", !.atomic = atomic, !.msgs = msgs]]
  /\ masked' = IF atomic THEN p ELSE NULL
  /\ UNCHANGED <<msg_buf, read_pos, write_pos, out, last, notified>>

\* Does not see that the mailbox is full.
NoRoomBug(p) ==
  /\ Runs(p)
  /\ call[p].at = "check"
  /\ IF call[p].msgs # <<>>
       THEN GoTo(p, "copy") /\ UNCHANGED masked
       ELSE GoTo(p, "notify") /\ UNCHANGED masked
  /\ UNCHANGED <<msg_buf, read_pos, write_pos, out, last, notified>>

\* Calls data_added only if all messages were added.
PartialBug(p) ==
  /\ Runs(p)
  /\ call[p].at = "check"
  /\ IF call[p].msgs # <<>> /\ Next1(write_pos) # read_pos
       THEN GoTo(p, "copy") /\ UNCHANGED masked
       ELSE IF call[p].msgs = <<>>
              THEN GoTo(p, "notify") /\ UNCHANGED masked
              ELSE Return(p)
  /\ UNCHANGED <<msg_buf, read_pos, write_pos, out, last, notified>>

WriteCheck(p) ==
  /\ Runs(p)
  /\ call[p].at = "check"
  /\ IF call[p].msgs # <<>> /\ Next1(write_pos) # read_pos
       THEN GoTo(p, "copy") /\ UNCHANGED masked
       ELSE IF call[p].done > 0
              THEN GoTo(p, "notify") /\ UNCHANGED masked
              ELSE Return(p)
  /\ UNCHANGED <<msg_buf, read_pos, write_pos, out, last, notified>>

WriteByte(p) ==
  LET i == call[p].i IN
  /\ Runs(p)
  /\ call[p].at = "copy"
  /\ i < MsgSize
  /\ msg_buf' = [msg_buf EXCEPT ![write_pos][i] = Bytes(Head(call[p].msgs))[i]]
  /\ call' = [call EXCEPT ![p].i = Increment(i)]
  /\ UNCHANGED <<read_pos, write_pos, masked, out, last, notified>>

WriteCommitBug(p) ==
  /\ Runs(p)
  /\ call[p].at = "copy"
  /\ call[p].i >= MsgSize - 1
  /\ write_pos' = Next1(write_pos)
  /\ call' = [call EXCEPT ![p].at = "check", ![p].i = 0,
                           ![p].msgs = Tail(@), ![p].done = @ + 1]
  /\ UNCHANGED <<msg_buf, read_pos, masked, out, last, notified>>

WriteCommit(p) ==
  /\ Runs(p)
  /\ call[p].at = "copy"
  /\ call[p].i >= MsgSize
  /\ write_pos' = Next1(write_pos)
  /\ call' = [call EXCEPT ![p].at = "check", ![p].i = 0,
                           ![p].msgs = Tail(@), ![p].done = @ + 1]
  /\ UNCHANGED <<msg_buf, read_pos, masked, out, last, notified>>

\* data_added, at the end of a call that has added data.
WriteNotify(p) ==
  /\ Runs(p)
  /\ call[p].at = "notify"
  /\ notified' = TRUE
  /\ Return(p)
  /\ UNCHANGED <<msg_buf, read_pos, write_pos, out, last>>

-----------------------------------------------------------------------------
(* os_mailbox_read, os_mailbox_read_multiple and their atomic versions.    *)

ReadCall(c, num, atomic) ==
  /\ Runs(c)
  /\ call[c].at = "idle"
  /\ MayCall(c, Consumer, atomic)
  /\ call' = [call EXCEPT ![c] = [Idle EXCEPT !.at = "check", !.atomic = atomic, !.num = num]]
  /\ masked' = IF atomic THEN c ELSE NULL
  /\ UNCHANGED <<msg_buf, read_pos, write_pos, out, last, notified>>

\* Takes one message for none.
ReadCheckBug(c) ==
  /\ Runs(c)
  /\ call[c].at = "check"
  /\ IF call[c].done < call[c].num /\ Next1(read_pos) # write_pos
       THEN GoTo(c, "copy") /\ UNCHANGED <<masked, notified>>
       ELSE Return(c) /\ notified' = (notified /\ call[c].done = call[c].num)
  /\ UNCHANGED <<msg_buf, read_pos, write_pos, out, last>>

ReadCheck(c) ==
  /\ Runs(c)
  /\ call[c].at = "check"
  /\ IF call[c].done < call[c].num /\ read_pos # write_pos
       THEN GoTo(c, "copy") /\ UNCHANGED <<masked, notified>>
       ELSE Return(c) /\ notified' = (notified /\ call[c].done = call[c].num)
  /\ UNCHANGED <<msg_buf, read_pos, write_pos, out, last>>

ReadByte(c) ==
  LET i == call[c].i IN
  /\ Runs(c)
  /\ call[c].at = "copy"
  /\ i < MsgSize
  /\ out' = [out EXCEPT ![i] = msg_buf[read_pos][i]]
  /\ call' = [call EXCEPT ![c].i = Increment(i)]
  /\ UNCHANGED <<msg_buf, read_pos, write_pos, masked, last, notified>>

ReadCommit(c) ==
  /\ Runs(c)
  /\ call[c].at = "copy"
  /\ call[c].i >= MsgSize
  /\ read_pos' = Next1(read_pos)
  /\ last' = out
  /\ call' = [call EXCEPT ![c].at = "check", ![c].i = 0, ![c].done = @ + 1]
  /\ UNCHANGED <<msg_buf, write_pos, masked, out, notified>>

-----------------------------------------------------------------------------
Messages == UNION {[1 .. n -> Payload] : n \in 1 .. Batch}

InCall(p) ==
  \/ WriteCheck(p) \/ WriteByte(p) \/ WriteCommit(p) \/ WriteNotify(p)

InRead(c) == ReadCheck(c) \/ ReadByte(c) \/ ReadCommit(c)

Next ==
  \/ \E p \in Producer :
       InCall(p) \/ \E msgs \in Messages, atomic \in BOOLEAN : WriteCall(p, msgs, atomic)
  \/ \E c \in Consumer :
       InRead(c) \/ \E num \in 1 .. Batch, atomic \in BOOLEAN : ReadCall(c, num, atomic)

Spec == Init /\ [][Next]_vars

\* Whoever is in a call gets the processor again and again.
FairSpec ==
  /\ Spec
  /\ \A p \in Producer : SF_vars(InCall(p))
  /\ \A c \in Consumer : SF_vars(InRead(c))

-----------------------------------------------------------------------------
TypeOK ==
  /\ msg_buf \in [Slot -> [Offset -> (Payload \X Offset) \cup {NULL}]]
  /\ read_pos \in Slot
  /\ write_pos \in Slot
  /\ \A p \in Producer \cup Consumer :
       /\ call[p].at \in {"idle", "check", "copy", "notify"}
       /\ call[p].i \in 0 .. MsgSize
       /\ call[p].done \in 0 .. Batch
  /\ masked \in Producer \cup Consumer \cup {NULL}
  /\ notified \in BOOLEAN

\* The slots between read_pos and write_pos, in the order in which they are read.
Count  == (write_pos - read_pos) % NumMsgs
Stored == [k \in 1 .. Count |-> msg_buf[(read_pos + k - 1) % NumMsgs]]

\* The producer never fills the slot that the consumer empties, although no
\* lock keeps them apart.
SlotsApart ==
  \A p \in Producer, c \in Consumer :
    (call[p].at = "copy" /\ call[c].at = "copy") => write_pos # read_pos

\* The consumer gets every message once, whole and in order, and the mailbox
\* holds at most num_msgs - 1 of them: os_mailbox_* implement a bounded queue,
\* although a read and a write copy at the same time.
F == INSTANCE Fifo WITH
       Message  <- {Bytes(m) : m \in Payload},
       Capacity <- NumMsgs - 1,
       queue    <- Stored

ImplementsFifo == F!Spec

\* A call returns before it has moved all it was asked to only when there is
\* no room, or no message, at that moment.
NoFalseRefusal ==
  [][\A p \in Producer \cup Consumer :
       (call[p].at = "check" /\ call'[p].at \in {"idle", "notify"})
         => /\ p \in Producer => call[p].msgs = <<>> \/ Count = NumMsgs - 1
            /\ p \in Consumer => call[p].done = call[p].num \/ Count = 0]_vars

\* Data that a consumer has not seen is never left without a call of
\* data_added: one that goes to sleep on an empty mailbox is woken.
NothingUnnoticed ==
  (Count > 0 /\ \A p \in Producer \cup Consumer : call[p].at = "idle") => notified

\* Every call returns: os_mailbox_write returns true or false, whatever the
\* other side does.
CallsReturn ==
  \A p \in Producer \cup Consumer : call[p].at # "idle" ~> call[p].at = "idle"
=============================================================================
