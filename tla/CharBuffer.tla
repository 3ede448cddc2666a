----------------------------- MODULE CharBuffer -----------------------------
(***************************************************************************)
(* Character buffers (char_buffer.c): a mailbox of one-byte messages, and  *)
(* calls that write and read many characters, some of which retry until    *)
(* they have moved them all.  The Rust channels (rust/src/mailbox.rs) are  *)
(* the same with one message a call: try_send and try_recv are "write_ch"  *)
(* and "read_ch", whereas send and recv go on for as long as they succeed. *)
(*                                                                         *)
(* The mailbox is the queue of Fifo, which Mailbox implements: a write or  *)
(* a read of one character is one step, between any two of which the other *)
(* side may run.  There is one writer and one reader, of one priority, or  *)
(* one of which preempts the other: no call yields or sleeps.              *)
(*                                                                         *)
(* Definitions whose names end in Bug are mistakes, as in Kernel.          *)
(***************************************************************************)
EXTENDS Fifo, Integers, SequencesExt

CONSTANTS
  WriteOps,   (* the writing functions that the application calls          *)
  ReadOps,    (* the reading functions                                     *)
  MaxLen,     (* bound: the characters in a call                           *)
  NULL

ASSUME CharBufferAssumption ==
  /\ Capacity \in Nat /\ MaxLen \in Nat
  /\ NULL \notin Message
  /\ WriteOps \subseteq {"write_ch", "write_ch_blocking", "write_buf",
                         "write_buf_blocking", "write_str", "write_str_blocking", "send"}
  /\ ReadOps \subseteq {"read_ch", "read_ch_blocking", "read_buf", "read_buf_blocking", "recv"}

VARIABLES
  w,   (* the call of the writer: its function, its characters, the        *)
       (* position in them, and what it has put into the buffer            *)
  r,   (* the call of the reader: its function, how many characters it is  *)
       (* to read, and what it has got                                     *)
  outranks   (* the side with the higher priority, or "nobody"             *)

vars == <<queue, last, w, r, outranks>>

\* The result of a call stays in pos, or in got, after its return.  What a call
\* that never advances puts is recorded for MaxLen characters.
WriterCall == [op : WriteOps, str : BoundedSeq(Message, MaxLen), pos : 0 .. MaxLen,
               put : BoundedSeq(Message, MaxLen), in : BOOLEAN]
ReaderCall == [op : ReadOps, num : 0 .. MaxLen, got : BoundedSeq(Message, MaxLen), in : BOOLEAN]

Init ==
  /\ queue = <<>>
  /\ last = NULL
  /\ w = [op |-> NULL, str |-> <<>>, pos |-> 0, put |-> <<>>, in |-> FALSE]
  /\ r = [op |-> NULL, num |-> 0, got |-> <<>>, in |-> FALSE]
  /\ outranks \in {"nobody", "writer", "reader"}

Blocking(op) == op \in {"write_ch_blocking", "write_buf_blocking", "write_str_blocking",
                        "read_ch_blocking", "read_buf_blocking"}
OneChar(op)  == op \in {"write_ch", "write_ch_blocking", "send",
                        "read_ch", "read_ch_blocking", "recv"}

\* The side has the processor: the other does not keep it inside a call.
WriterRuns == ~(outranks = "reader" /\ r.in)
ReaderRuns == ~(outranks = "writer" /\ w.in)

-----------------------------------------------------------------------------
(* The writer.                                                             *)

WriteCall(op, str) ==
  /\ WriterRuns /\ ~w.in
  /\ OneChar(op) => Len(str) = 1
  /\ w' = [op |-> op, str |-> str, pos |-> 0, put |-> <<>>, in |-> TRUE]
  /\ UNCHANGED <<queue, last, r, outranks>>

AdvanceBug(op, pos) == IF Blocking(op) THEN pos ELSE pos + 1

\* The position after a character has been written: all functions advance,
\* except os_char_buffer_write_str_blocking and send.
Advance(op, pos) == IF op \in {"write_str_blocking", "send"} THEN pos ELSE pos + 1

Record(put, ch) == IF Len(put) < MaxLen THEN Append(put, ch) ELSE put

\* Writes only what fits as a whole.
WriteCharBug ==
  /\ WriterRuns /\ w.in
  /\ w.pos < Len(w.str)
  /\ Len(queue) + Len(w.str) - w.pos <= Capacity
  /\ Put(w.str[w.pos + 1])
  /\ w' = [w EXCEPT !.pos = Advance(w.op, @), !.put = Record(@, w.str[w.pos + 1])]
  /\ UNCHANGED <<r, outranks>>

WriteChar ==
  /\ WriterRuns /\ w.in
  /\ w.pos < Len(w.str)
  /\ Put(w.str[w.pos + 1])
  /\ w' = [w EXCEPT !.pos = Advance(w.op, @), !.put = Record(@, w.str[w.pos + 1])]
  /\ UNCHANGED <<r, outranks>>

\* Does not retry.
WriteReturnBug ==
  /\ WriterRuns /\ w.in
  /\ w.pos = Len(w.str) \/ Len(queue) >= Capacity
  /\ w' = [w EXCEPT !.in = FALSE]
  /\ UNCHANGED <<queue, last, r, outranks>>

\* All written, or no room and no retry.
WriteReturn ==
  /\ WriterRuns /\ w.in
  /\ \/ w.pos = Len(w.str)
     \/ Len(queue) >= Capacity /\ ~Blocking(w.op)
  /\ w' = [w EXCEPT !.in = FALSE]
  /\ UNCHANGED <<queue, last, r, outranks>>

-----------------------------------------------------------------------------
(* The reader.                                                             *)

ReadCall(op, num) ==
  /\ ReaderRuns /\ ~r.in
  /\ OneChar(op) => num = 1
  /\ r' = [op |-> op, num |-> num, got |-> <<>>, in |-> TRUE]
  /\ UNCHANGED <<queue, last, w, outranks>>

\* Reads one character too many.
ReadCharBug ==
  /\ ReaderRuns /\ r.in
  /\ Len(r.got) <= r.num
  /\ Get
  /\ r' = [r EXCEPT !.got = Append(@, Head(queue))]
  /\ UNCHANGED <<w, outranks>>

\* Waits for as many characters as were asked for.
ReadAllBug ==
  /\ ReaderRuns /\ r.in
  /\ Len(r.got) < r.num
  /\ Len(queue) >= r.num - Len(r.got)
  /\ Get
  /\ r' = [r EXCEPT !.got = Append(@, Head(queue))]
  /\ UNCHANGED <<w, outranks>>

\* recv reads each message over the last one.
Keep(op, got, ch) == IF op = "recv" THEN <<ch>> ELSE Append(got, ch)

ReadChar ==
  /\ ReaderRuns /\ r.in
  /\ Len(r.got) < r.num \/ r.op = "recv"
  /\ Get
  /\ r' = [r EXCEPT !.got = Keep(r.op, @, Head(queue))]
  /\ UNCHANGED <<w, outranks>>

ReadReturn ==
  /\ ReaderRuns /\ r.in
  /\ \/ Len(r.got) = r.num /\ r.op # "recv"
     \/ queue = <<>> /\ ~Blocking(r.op)
  /\ r' = [r EXCEPT !.in = FALSE]
  /\ UNCHANGED <<queue, last, w, outranks>>

-----------------------------------------------------------------------------
Next ==
  \/ \E op \in WriteOps, str \in BoundedSeq(Message, MaxLen) : WriteCall(op, str)
  \/ WriteChar \/ WriteReturn
  \/ \E op \in ReadOps, num \in 0 .. MaxLen : ReadCall(op, num)
  \/ ReadChar \/ ReadReturn

CharSpec == Init /\ [][Next]_vars

\* Tasks of one priority take turns.  A side that outranks the other does
\* something else between its calls, and the other gets on with its own.
FairSpec ==
  /\ CharSpec
  /\ SF_vars(WriteChar \/ WriteReturn)
  /\ SF_vars(ReadChar \/ ReadReturn)

-----------------------------------------------------------------------------
TypeOK ==
  /\ queue \in BoundedSeq(Message, Capacity)
  /\ w.op # NULL => w \in WriterCall
  /\ r.op # NULL => r \in ReaderCall

\* What a call has put into the buffer is always the beginning of what it was
\* given, each character once, and its result is how much.  send does not
\* promise that.
PutsAPrefix ==
  w.op # "send" => IsPrefix(w.put, w.str) /\ (~w.in => w.pos = Len(w.put))

\* A call that retries has moved everything when it returns, although the
\* buffer may be smaller.
BlockingMovesAll ==
  /\ Blocking(w.op) /\ ~w.in => w.put = w.str
  /\ Blocking(r.op) /\ ~r.in => Len(r.got) = r.num

Writing == w.in /\ w.pos < Len(w.str)
Reading == r.in /\ (Len(r.got) < r.num \/ r.op = "recv")

\* A side that outranks the other waits for it, and so keeps it from running.
Stuck ==
  \/ outranks = "writer" /\ Writing /\ Blocking(w.op) /\ Len(queue) >= Capacity
  \/ outranks = "reader" /\ Reading /\ Blocking(r.op) /\ queue = <<>>

\* A write returns if the other side reads again and again, unless a side that
\* outranks the other is stuck for ever; but send returns if nobody reads.
WritesReturn ==
  /\ []<>Reading => (w.in /\ w.op # "send" ~> ~w.in) \/ <>[]Stuck
  /\ <>[]~r.in => (w.in /\ w.op = "send" ~> ~w.in)

\* A read returns if the other side writes again and again, unless a side that
\* outranks the other is stuck for ever; but recv returns if nobody writes.
ReadsReturn ==
  /\ []<>Writing => (r.in /\ r.op # "recv" ~> ~r.in) \/ <>[]Stuck
  /\ <>[]~w.in => (r.in /\ r.op = "recv" ~> ~r.in)
=============================================================================
