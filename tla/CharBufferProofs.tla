-------------------------- MODULE CharBufferProofs --------------------------
(***************************************************************************)
(* Theorems about character buffers and channels, for any capacity, any    *)
(* length of the calls and any choice of the functions that are called.    *)
(***************************************************************************)
EXTENDS CharBuffer, SequenceTheorems, TLAPS

BufferOK == queue \in Seq(Message) /\ Len(queue) <= Capacity

\* Functions that advance have put in the beginning of str.  The one that does
\* not, write_str_blocking, is never done if there is anything to write.
WriterOK ==
  /\ w \in [op : WriteOps \cup {NULL}, str : Seq(Message), pos : Nat, put : Seq(Message),
            in : BOOLEAN]
  /\ Len(w.str) <= MaxLen /\ w.pos <= Len(w.str) /\ Len(w.put) <= MaxLen
  /\ w.op \notin WriteOps => w.put = <<>> /\ w.pos = 0 /\ ~w.in
  /\ w.op \notin {"send", "write_str_blocking"} =>
       w.pos = Len(w.put) /\ \A k \in 1 .. w.pos : w.put[k] = w.str[k]
  /\ w.op = "write_str_blocking" => w.pos = 0 /\ (w.str = <<>> => w.put = <<>>)
  /\ Blocking(w.op) /\ ~w.in => w.pos = Len(w.str)

ReaderOK ==
  /\ r \in [op : ReadOps \cup {NULL}, num : 0 .. MaxLen, got : Seq(Message), in : BOOLEAN]
  /\ Len(r.got) <= r.num
  /\ r.op = "recv" /\ r.in => r.num = 1
  /\ Blocking(r.op) /\ ~r.in => Len(r.got) = r.num

CharInv == BufferOK /\ WriterOK /\ ReaderOK

-----------------------------------------------------------------------------
\* The sequences of at most n elements.
LEMMA Bounded ==
  ASSUME NEW S, NEW n \in Nat, NEW s
  PROVE  s \in BoundedSeq(S, n) <=> s \in Seq(S) /\ Len(s) <= n
  <1>1. ASSUME s \in BoundedSeq(S, n) PROVE s \in Seq(S) /\ Len(s) <= n
    <2>1. PICK m \in 0 .. n : s \in [1 .. m -> S]
      BY <1>1 DEF BoundedSeq, SeqOf
    <2> QED BY <2>1, IsASeq, LenProperties
  <1>2. ASSUME s \in Seq(S), Len(s) <= n PROVE s \in BoundedSeq(S, n)
    <2>1. s \in [1 .. Len(s) -> S] /\ Len(s) \in 0 .. n
      BY <1>2, LenProperties
    <2> QED BY <2>1 DEF BoundedSeq, SeqOf
  <1> QED BY <1>1, <1>2

\* Two sequences with the same elements.
LEMMA SameElements ==
  ASSUME NEW S, NEW s \in Seq(S), NEW t \in Seq(S), Len(s) = Len(t),
         \A k \in 1 .. Len(s) : s[k] = t[k]
  PROVE  s = t
  OBVIOUS

\* A prefix by its elements.
LEMMA PrefixIs ==
  ASSUME NEW S, NEW s \in Seq(S), NEW t \in Seq(S), Len(s) <= Len(t),
         \A k \in 1 .. Len(s) : s[k] = t[k]
  PROVE  IsPrefix(s, t)
  <1>1. /\ SubSeq(s, 1, Len(s)) \in Seq(S) /\ SubSeq(t, 1, Len(s)) \in Seq(S)
        /\ Len(SubSeq(s, 1, Len(s))) = Len(s) /\ Len(SubSeq(t, 1, Len(s))) = Len(s)
        /\ \A k \in 1 .. Len(s) : /\ SubSeq(s, 1, Len(s))[k] = s[k]
                                  /\ SubSeq(t, 1, Len(s))[k] = t[k]
    OBVIOUS
  <1>2. SubSeq(s, 1, Len(s)) = SubSeq(t, 1, Len(s))
    BY <1>1, SameElements
  <1> QED BY <1>2 DEF IsPrefix

-----------------------------------------------------------------------------
\* Nobody has called anything.
LEMMA CharInvInit == Init => CharInv
  BY CharBufferAssumption DEF Init, CharInv, BufferOK, WriterOK, ReaderOK

\* A call of a writing function begins.
LEMMA WriteCallInv ==
  ASSUME CharInv, NEW op \in WriteOps, NEW str \in BoundedSeq(Message, MaxLen),
         WriteCall(op, str)
  PROVE  CharInv'
  <1>1. str \in Seq(Message) /\ Len(str) <= MaxLen
    BY Bounded, CharBufferAssumption
  <1>2. w' = [op |-> op, str |-> str, pos |-> 0, put |-> <<>>, in |-> TRUE]
    BY DEF WriteCall
  <1>3. WriterOK'
    BY <1>1, <1>2, CharBufferAssumption DEF WriterOK
  <1>4. BufferOK' /\ ReaderOK'
    BY DEF WriteCall, CharInv, BufferOK, ReaderOK
  <1> QED BY <1>3, <1>4 DEF CharInv

\* A character is put, and the call that advances keeps count of it.
LEMMA WriteCharInv ==
  ASSUME CharInv, WriteChar
  PROVE  CharInv'
  <1> USE CharBufferAssumption
  <1> DEFINE ch == w.str[w.pos + 1]
             put == Record(w.put, ch)
  <1>1. /\ w.in /\ w.pos < Len(w.str) /\ Len(queue) < Capacity
        /\ queue' = Append(queue, ch) /\ r' = r
        /\ w' = [w EXCEPT !.pos = Advance(w.op, w.pos), !.put = put]
    BY DEF WriteChar, Put
  <1>2. /\ w \in [op : WriteOps \cup {NULL}, str : Seq(Message), pos : Nat, put : Seq(Message),
                  in : BOOLEAN]
        /\ Len(w.str) <= MaxLen /\ Len(w.put) <= MaxLen /\ w.op \in WriteOps
        /\ w.str # <<>>
    BY <1>1 DEF CharInv, WriterOK
  <1>3. ch \in Message
    BY <1>1, <1>2
  <1>4. put \in Seq(Message) /\ Len(put) <= MaxLen
    <2> HIDE DEF ch
    <2> QED BY <1>2, <1>3, AppendProperties DEF Record
  <1>5. /\ w'.op = w.op /\ w'.str = w.str /\ w'.pos = Advance(w.op, w.pos) /\ w'.put = put
        /\ w'.in = w.in
        /\ w' \in [op : WriteOps \cup {NULL}, str : Seq(Message), pos : Nat, put : Seq(Message),
                   in : BOOLEAN]
    <2> HIDE DEF put
    <2>1. Advance(w.op, w.pos) \in Nat
      BY <1>2 DEF Advance
    <2> QED BY <1>1, <1>2, <1>4, <2>1
  <1>6. BufferOK'
    <2> HIDE DEF ch
    <2> QED BY <1>1, <1>3, AppendProperties DEF CharInv, BufferOK
  <1>7. ReaderOK'
    BY <1>1 DEF CharInv, ReaderOK
  <1>8. CASE w.op \in {"send", "write_str_blocking"}
    <2>1. w'.pos = w.pos
      BY <1>5, <1>8 DEF Advance
    <2> HIDE DEF put
    <2> QED BY <1>1, <1>2, <1>4, <1>5, <1>6, <1>7, <1>8, <2>1 DEF CharInv, WriterOK
  <1>9. CASE w.op \notin {"send", "write_str_blocking"}
    <2>1. w'.pos = w.pos + 1
      BY <1>5, <1>9 DEF Advance
    <2>2. w.pos = Len(w.put) /\ \A k \in 1 .. w.pos : w.put[k] = w.str[k]
      BY <1>9 DEF CharInv, WriterOK
    <2>3. put = Append(w.put, ch)
      BY <1>1, <1>2, <2>2 DEF Record
    <2> HIDE DEF put
    <2>4. /\ Len(put) = w.pos + 1 /\ put[w.pos + 1] = ch
          /\ \A k \in 1 .. w.pos : put[k] = w.str[k]
      <3> HIDE DEF ch
      <3> QED BY <1>2, <1>3, <2>2, <2>3, AppendProperties
    <2>5. \A k \in 1 .. w.pos + 1 : put[k] = w.str[k]
      BY <1>2, <2>4
    <2>6. WriterOK'
      BY <1>1, <1>2, <1>4, <1>5, <1>9, <2>1, <2>4, <2>5 DEF WriterOK
    <2> QED BY <1>6, <1>7, <2>6 DEF CharInv
  <1> QED BY <1>8, <1>9

\* A function that retries returns only at the end.
LEMMA WriteReturnInv ==
  ASSUME CharInv, WriteReturn
  PROVE  CharInv'
  <1>1. /\ w' = [w EXCEPT !.in = FALSE] /\ UNCHANGED <<queue, r>>
        /\ w.pos = Len(w.str) \/ ~Blocking(w.op)
    BY DEF WriteReturn
  <1>2. WriterOK'
    BY <1>1 DEF CharInv, WriterOK
  <1> QED BY <1>1, <1>2 DEF CharInv, BufferOK, ReaderOK

\* A call of a reading function begins.
LEMMA ReadCallInv ==
  ASSUME CharInv, NEW op \in ReadOps, NEW num \in 0 .. MaxLen, ReadCall(op, num)
  PROVE  CharInv'
  <1>1. r' = [op |-> op, num |-> num, got |-> <<>>, in |-> TRUE] /\ UNCHANGED <<queue, w>>
        /\ (op = "recv" => num = 1)
    BY DEF ReadCall, OneChar
  <1>2. ReaderOK'
    BY <1>1, CharBufferAssumption DEF ReaderOK
  <1> QED BY <1>1, <1>2 DEF CharInv, BufferOK, WriterOK

\* A character is got; recv keeps one only.
LEMMA ReadCharInv ==
  ASSUME CharInv, ReadChar
  PROVE  CharInv'
  <1> USE CharBufferAssumption
  <1> DEFINE got == Keep(r.op, r.got, Head(queue))
  <1>1. /\ r.in /\ (Len(r.got) < r.num \/ r.op = "recv")
        /\ queue # <<>> /\ queue' = Tail(queue) /\ w' = w
        /\ r' = [r EXCEPT !.got = got]
    BY DEF ReadChar, Get
  <1>2. /\ r \in [op : ReadOps \cup {NULL}, num : 0 .. MaxLen, got : Seq(Message), in : BOOLEAN]
        /\ Len(r.got) <= r.num /\ (r.op = "recv" => r.num = 1)
        /\ queue \in Seq(Message) /\ Len(queue) <= Capacity
    BY <1>1 DEF CharInv, ReaderOK, BufferOK
  <1>3. Head(queue) \in Message /\ Tail(queue) \in Seq(Message) /\ Len(Tail(queue)) = Len(queue) - 1
    BY <1>1, <1>2, HeadTailProperties
  <1>4. got \in Seq(Message) /\ Len(got) <= r.num
    <2>1. CASE r.op = "recv"
      BY <1>2, <1>3, <2>1 DEF Keep
    <2>2. CASE r.op # "recv"
      <3> DEFINE ch == Head(queue)
      <3>1. got = Append(r.got, ch) /\ Len(r.got) < r.num
        BY <1>1, <2>2 DEF Keep
      <3>2. ch \in Message
        BY <1>3
      <3> HIDE DEF got, ch
      <3>3. got \in Seq(Message) /\ Len(got) = Len(r.got) + 1
        BY <1>2, <3>1, <3>2, AppendProperties
      <3> QED BY <1>2, <3>1, <3>3
    <2> QED BY <2>1, <2>2
  <1> HIDE DEF got
  <1>5. ReaderOK'
    BY <1>1, <1>2, <1>4 DEF ReaderOK
  <1>6. BufferOK'
    BY <1>1, <1>2, <1>3 DEF BufferOK
  <1> QED BY <1>1, <1>5, <1>6 DEF CharInv, WriterOK

\* A function that retries returns only with all it was asked for.
LEMMA ReadReturnInv ==
  ASSUME CharInv, ReadReturn
  PROVE  CharInv'
  <1>1. /\ r' = [r EXCEPT !.in = FALSE] /\ UNCHANGED <<queue, w>>
        /\ Len(r.got) = r.num \/ ~Blocking(r.op)
    BY DEF ReadReturn
  <1>2. ReaderOK'
    BY <1>1 DEF CharInv, ReaderOK
  <1> QED BY <1>1, <1>2 DEF CharInv, BufferOK, WriterOK

\* The invariant holds in every state of every buffer.
THEOREM Invariance == CharSpec => []CharInv
  <1>1. CharInv /\ [Next]_vars => CharInv'
    <2> SUFFICES ASSUME CharInv, [Next]_vars PROVE CharInv'
      OBVIOUS
    <2>1. CASE UNCHANGED vars
      BY <2>1 DEF vars, CharInv, BufferOK, WriterOK, ReaderOK
    <2>2. CASE Next
      BY <2>2, WriteCallInv, WriteCharInv, WriteReturnInv, ReadCallInv, ReadCharInv, ReadReturnInv
         DEF Next
    <2> QED BY <2>1, <2>2
  <1> QED BY <1>1, CharInvInit, PTL DEF CharSpec

-----------------------------------------------------------------------------
(* What the functions promise.                                             *)

\* The buffer never holds more than fits, and no call moves more than it was
\* asked to.
THEOREM TypeCorrect == CharSpec => []TypeOK
  <1>1. CharInv => TypeOK
    <2> SUFFICES ASSUME CharInv PROVE TypeOK
      OBVIOUS
    <2> USE CharBufferAssumption
    <2>1. queue \in BoundedSeq(Message, Capacity)
      BY Bounded DEF CharInv, BufferOK
    <2>2. ASSUME w.op # NULL PROVE w \in WriterCall
      <3>1. w.str \in BoundedSeq(Message, MaxLen) /\ w.put \in BoundedSeq(Message, MaxLen)
        BY Bounded DEF CharInv, WriterOK
      <3>2. w.pos \in 0 .. MaxLen
        BY DEF CharInv, WriterOK
      <3> QED BY <2>2, <3>1, <3>2 DEF CharInv, WriterOK, WriterCall
    <2>3. ASSUME r.op # NULL PROVE r \in ReaderCall
      <3>1. r.got \in Seq(Message) /\ Len(r.got) <= MaxLen
        BY DEF CharInv, ReaderOK
      <3>2. r.got \in BoundedSeq(Message, MaxLen)
        BY <3>1, Bounded
      <3> QED BY <2>3, <3>2 DEF CharInv, ReaderOK, ReaderCall
    <2> QED BY <2>1, <2>2, <2>3 DEF TypeOK
  <1> QED BY <1>1, Invariance, PTL

\* Each character of a call goes into the buffer once and in order, unless the
\* application calls os_char_buffer_write_str_blocking.
THEOREM CharactersInOrder ==
  ASSUME "write_str_blocking" \notin WriteOps
  PROVE  CharSpec => []PutsAPrefix
  <1>1. CharInv => PutsAPrefix
    <2> SUFFICES ASSUME CharInv, w.op # "send"
                 PROVE  IsPrefix(w.put, w.str) /\ w.pos = Len(w.put)
      BY DEF PutsAPrefix
    <2>1. /\ w.put \in Seq(Message) /\ w.str \in Seq(Message) /\ w.pos <= Len(w.str)
          /\ w.pos = Len(w.put) /\ \A k \in 1 .. Len(w.put) : w.put[k] = w.str[k]
      <3>1. CASE w.op # "write_str_blocking"
        BY <3>1 DEF CharInv, WriterOK
      <3>2. CASE w.op = "write_str_blocking"
        BY <3>2 DEF CharInv, WriterOK
      <3> QED BY <3>1, <3>2
    <2> QED BY <2>1, PrefixIs
  <1> QED BY <1>1, Invariance, PTL

\* A call that retries has moved all of its characters when it returns, however
\* small the buffer is.
THEOREM RetriesMoveAll == CharSpec => []BlockingMovesAll
  <1>1. CharInv => BlockingMovesAll
    <2> SUFFICES ASSUME CharInv PROVE BlockingMovesAll
      OBVIOUS
    <2>1. ASSUME Blocking(w.op), ~w.in PROVE w.put = w.str
      <3>1. /\ w.put \in Seq(Message) /\ w.str \in Seq(Message) /\ w.pos = Len(w.str)
            /\ w.op # "send"
        BY <2>1 DEF CharInv, WriterOK, Blocking
      <3>2. CASE w.op = "write_str_blocking"
        BY <3>1, <3>2 DEF CharInv, WriterOK
      <3>3. CASE w.op # "write_str_blocking"
        <4>1. Len(w.put) = Len(w.str) /\ \A k \in 1 .. Len(w.put) : w.put[k] = w.str[k]
          BY <3>1, <3>3 DEF CharInv, WriterOK
        <4> QED BY <3>1, <4>1, SameElements
      <3> QED BY <3>2, <3>3
    <2>2. Blocking(r.op) /\ ~r.in => Len(r.got) = r.num
      BY DEF CharInv, ReaderOK
    <2> QED BY <2>1, <2>2 DEF BlockingMovesAll
  <1> QED BY <1>1, Invariance, PTL
=============================================================================
