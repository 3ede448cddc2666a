----------------------------- MODULE PoolProofs -----------------------------
(***************************************************************************)
(* Proofs about PoolAlloc, for every number of blocks and every set of     *)
(* users, in C and in Rust: the free list stays intact, a take is          *)
(* exclusive, a critical section of a user is not broken by its calls, and *)
(* the linked blocks implement Pool.                                       *)
(***************************************************************************)
EXTENDS PoolAlloc, TaskLists

\* What the masked interrupts guarantee to a call: nobody else is in one or in
\* a section of its own, and what it has read or written first still holds.
Calls ==
  \A u \in User :
    /\ masked = u <=> call[u] # "none" \/ section[u]
    /\ call[u] # "none" => saved[u] = section[u]
    /\ call[u] = "take" => block[u] = first_block
    /\ (call[u] = "give" /\ impl = "C")
         => block[u] \in Block /\ holder[block[u]] = u /\ word[block[u]] = first_block
    /\ (call[u] = "give" /\ impl = "Rust")
         => first_block \in Block /\ holder[first_block] = u

IInv == TypeOK /\ FreeListIntact /\ Calls

\* The blocks nobody holds, and a list of them.
Free == {b \in Block : holder[b] = NULL}

IsListOf(set, s) == s \in Seq(Block) /\ IsInjective(s) /\ Range(s) = set

\* A list of different blocks is not longer than the pool.
LEMMA ListIsShort ==
  ASSUME NEW set, NEW s, IsListOf(set, s)
  PROVE  Len(s) \in 0 .. NumBlocks
  <1>1. NumBlocks \in Nat
    BY PoolAssumption
  <1>2. IsFiniteSet(Block) /\ Cardinality(Block) = NumBlocks
    BY <1>1, FS_Interval DEF Block
  <1>3. Len(s) <= NumBlocks
    BY <1>2, InjectiveIsShort DEF IsListOf
  <1> QED BY <1>1, <1>3, LenProperties DEF IsListOf

\* Such a list, linked, is what FreeListIntact asks for,
LEMMA ListFound ==
  ASSUME NEW set, NEW s, NEW first, NEW next,
         IsListOf(set, s), IsChain(first, next, NULL, s)
  PROVE  \E n \in 0 .. NumBlocks : \E q \in [1 .. n -> Block] :
           /\ IsInjective(q)
           /\ Range(q) = set
           /\ first = IF n = 0 THEN NULL ELSE q[1]
           /\ \A i \in 1 .. n : next[q[i]] = IF i = n THEN NULL ELSE q[i + 1]
  <1> DEFINE n == Len(s)
  <1>1. n \in 0 .. NumBlocks
    BY ListIsShort
  <1>2. s \in [1 .. n -> Block] /\ (s = <<>> <=> n = 0)
    BY LenProperties, EmptySeq DEF IsListOf
  <1>3. /\ first = IF n = 0 THEN NULL ELSE s[1]
        /\ \A i \in 1 .. n : next[s[i]] = IF i = n THEN NULL ELSE s[i + 1]
    BY <1>2 DEF IsChain
  <1> HIDE DEF n
  <1> QED BY <1>1, <1>2, <1>3 DEF IsListOf

\* and it says that there is one.
LEMMA ListExists ==
  FreeListIntact <=> \E s : IsListOf(Free, s) /\ IsChain(Top, word, NULL, s)
  <1>1. ASSUME FreeListIntact
        PROVE  \E s : IsListOf(Free, s) /\ IsChain(Top, word, NULL, s)
    <2>1. PICK n \in 0 .. NumBlocks : \E s \in [1 .. n -> Block] :
            IsInjective(s) /\ Range(s) = Free /\ IsFreeList(s, n)
      BY <1>1 DEF FreeListIntact, Free
    <2>2. PICK s \in [1 .. n -> Block] :
            IsInjective(s) /\ Range(s) = Free /\ IsFreeList(s, n)
      BY <2>1
    <2>3. n \in Nat
      BY PoolAssumption
    <2>4. s \in Seq(Block) /\ Len(s) = n /\ (s = <<>> <=> n = 0)
      BY <2>3
    <2>5. IsListOf(Free, s) /\ IsChain(Top, word, NULL, s)
      BY <2>2, <2>4 DEF IsListOf, IsFreeList, IsChain
    <2> QED BY <2>5
  <1>2. ASSUME NEW s, IsListOf(Free, s), IsChain(Top, word, NULL, s)
        PROVE  FreeListIntact
    BY <1>2, ListFound DEF FreeListIntact, IsFreeList, Free
  <1> QED BY <1>1, <1>2

\* The order is the one that FreeList finds.
LEMMA ListIsFreeList ==
  ASSUME NEW set, NEW s, NEW first, NEW next,
         IsListOf(set, s), IsChain(first, next, NULL, s)
  PROVE  Walk(first, next, Block, NULL, NumBlocks + 1) = s
  <1>1. NumBlocks + 1 \in Nat /\ Len(s) <= NumBlocks + 1 /\ NULL \notin Block
    BY ListIsShort, PoolAssumption
  <1> QED BY <1>1, WalkIs DEF IsListOf

\* A take removes the first block, and the rest of the list stays linked.
LEMMA TakeFromList ==
  ASSUME NEW set, NEW s, NEW first, NEW next,
         IsListOf(set, s), IsChain(first, next, NULL, s), first # NULL
  PROVE  /\ s # <<>>
         /\ first = Head(s) /\ first \in set /\ first \in Block
         /\ IsListOf(set \ {first}, Tail(s))
         /\ IsChain(next[first], next, NULL, Tail(s))
  <1>1. s # <<>>
    BY DEF IsChain
  <1>2. first = Head(s) /\ IsChain(next[first], next, NULL, Tail(s))
    BY <1>1, ChainTail DEF IsListOf
  <1>3. /\ Head(s) \in Range(s) /\ Range(s) \subseteq Block
        /\ Tail(s) \in Seq(Block) /\ IsInjective(Tail(s))
        /\ Range(Tail(s)) = Range(s) \ {Head(s)}
    BY <1>1, TailRemoves DEF IsListOf
  <1> QED BY <1>1, <1>2, <1>3 DEF IsListOf

\* A give puts a block that was not free in front, and links it.
LEMMA GiveToList ==
  ASSUME NEW set, NEW s, NEW first, NEW next, NEW b \in Block, b \notin set,
         IsListOf(set, s), IsChain(first, next, NULL, s),
         NEW next2, next2[b] = first, \A x \in set : next2[x] = next[x]
  PROVE  /\ IsListOf(set \cup {b}, <<b>> \o s)
         /\ IsChain(b, next2, NULL, <<b>> \o s)
  <1> DEFINE q == <<b>> \o s
  <1>1. Inserted(Block, s, q, 1, b)
    BY ConsInserts DEF IsListOf
  <1> HIDE DEF q
  <1>2. Range(q) = set \cup {b} /\ IsInjective(q) /\ q \in Seq(Block)
    BY <1>1, InsertedRange DEF IsListOf, Inserted
  <1>3. s \in Seq(Block) /\ Len(s) \in Nat /\ (s = <<>> <=> Len(s) = 0)
    BY LenProperties, EmptySeq DEF IsListOf
  <1>4. next2[b] = IF 1 = Len(s) + 1 THEN NULL ELSE s[1]
    BY <1>3 DEF IsChain
  <1>5. \A j \in 1 .. Len(s) : next2[s[j]] = IF j = 1 - 1 THEN b ELSE next[s[j]]
    <2>1. \A j \in 1 .. Len(s) : s[j] \in set
      BY RangeEquality DEF IsListOf
    <2> QED BY <1>3, <2>1
  <1>6. IsChain(b, next2, NULL, q)
    <2>1. IsInjective(s) /\ b \notin Range(s)
      BY DEF IsListOf
    <2> QED BY <1>1, <1>3, <1>4, <1>5, <2>1, ChainInserted
  <1> QED BY <1>2, <1>6 DEF q, IsListOf

-----------------------------------------------------------------------------
\* All blocks, in the order of their addresses.
ByAddress(s) == s = [i \in 1 .. NumBlocks |-> i - 1]

\* os_pool_alloc_init links them so.
LEMMA InitList ==
  ASSUME Init, NEW s, ByAddress(s)
  PROVE  IsListOf(Free, s) /\ IsChain(Top, word, NULL, s)
  <1>1. NumBlocks \in Nat \ {0} /\ 0 \in Block /\ NULL \notin Block
    BY PoolAssumption DEF Block
  <1>2. s \in [1 .. NumBlocks -> Block] /\ IsInjective(s)
    BY <1>1 DEF Block, IsInjective, ByAddress
  <1>3. /\ s \in Seq(Block) /\ Len(s) = NumBlocks /\ s # <<>>
        /\ \A i \in 1 .. NumBlocks : s[i] = i - 1
    BY <1>1, <1>2 DEF ByAddress
  <1>4. Range(s) = Free
    <2>1. Free = Block
      BY DEF Init, Free
    <2>2. Range(s) = {s[i] : i \in 1 .. NumBlocks}
      BY <1>3, RangeEquality
    <2>3. ASSUME NEW b \in Block PROVE b \in Range(s)
      <3>1. b + 1 \in 1 .. NumBlocks /\ (b + 1) - 1 = b
        BY <1>1 DEF Block
      <3> QED BY <1>3, <2>2, <3>1
    <2>4. ASSUME NEW b \in Range(s) PROVE b \in Block
      BY <1>2, <2>2
    <2> QED BY <2>1, <2>3, <2>4
  <1>5. Top = s[1]
    <2>1. 1 \in 1 .. NumBlocks /\ 1 - 1 = 0
      BY <1>1
    <2> QED BY <1>3, <2>1 DEF Init, Top
  <1>6. ASSUME NEW i \in 1 .. Len(s)
        PROVE  word[s[i]] = IF i = Len(s) THEN NULL ELSE s[i + 1]
    BY <1>1, <1>3 DEF Init, Block
  <1>7. IsListOf(Free, s)
    BY <1>2, <1>3, <1>4 DEF IsListOf
  <1>8. IsChain(Top, word, NULL, s)
    BY <1>3, <1>5, <1>6 DEF IsChain
  <1> QED BY <1>7, <1>8

\* os_pool_alloc_init, with no call in progress.
LEMMA InitInv == Init => IInv
  <1> SUFFICES ASSUME Init PROVE IInv
    OBVIOUS
  <1>1. NumBlocks \in Nat \ {0} /\ 0 \in Block /\ NULL \notin Block
    BY PoolAssumption DEF Block
  <1>2. TypeOK
    BY <1>1 DEF Init, TypeOK, Pointer
  <1>3. Calls
    BY PoolAssumption DEF Init, Calls
  <1>4. FreeListIntact
    <2> DEFINE s == [i \in 1 .. NumBlocks |-> i - 1]
    <2>1. ByAddress(s)
      BY DEF ByAddress
    <2> HIDE DEF s
    <2> QED BY <2>1, InitList, ListExists
  <1> QED BY <1>2, <1>3, <1>4 DEF IInv

\* Only the stores of a Rust give come between first_block and the free list.
LEMMA TopOfList ==
  ASSUME Calls
  PROVE  /\ (impl = "C" \/ \A u \in User : call[u] # "give") => Top = first_block
         /\ \A u \in User : (call[u] = "give" /\ impl = "Rust") => Top = block[u]
  <1>1. \A u, v \in User : call[u] = "give" /\ call[v] = "give" => u = v
    BY DEF Calls
  <1>2. ASSUME NEW u \in User, call[u] = "give", impl = "Rust" PROVE Top = block[u]
    <2>1. (CHOOSE v \in User : call[v] = "give") \in User
      BY <1>2
    <2>2. call[CHOOSE v \in User : call[v] = "give"] = "give"
      BY <1>2
    <2>3. (CHOOSE v \in User : call[v] = "give") = u
      BY <1>1, <1>2, <2>1, <2>2
    <2> QED BY <1>2, <2>3 DEF Top
  <1> QED BY <1>2 DEF Top

\* A call masks the interrupts: nobody else is in a call.
LEMMA CallMasks ==
  ASSUME TypeOK, Calls, NEW u \in User, Runs(u)
  PROVE  \A v \in User : call[v] # "none" \/ section[v] => v = u
  BY PoolAssumption DEF Calls, Runs

\* The end of a call: nobody is in one, and only the user itself may go on in
\* its critical section.
LEMMA ReturnInv ==
  ASSUME TypeOK, Calls, NEW u \in User, Runs(u), call[u] # "none",
         Return(u), Unmask(u), UNCHANGED section
  PROVE  Calls' /\ Top' = first_block'
  <1>1. \A v \in User : call'[v] = "none"
    BY CallMasks DEF TypeOK, Return
  <1>2. ASSUME NEW v \in User PROVE masked' = v <=> section[v]
    <2>1. section[v] => v = u
      BY CallMasks
    <2>2. saved[u] = section[u]
      BY DEF Calls
    <2>3. section[v] \in BOOLEAN /\ section[u] \in BOOLEAN /\ NULL # v
      BY PoolAssumption DEF TypeOK
    <2> QED BY <2>1, <2>2, <2>3 DEF Unmask
  <1>3. Calls'
    BY <1>1, <1>2 DEF Calls
  <1> QED BY <1>1, <1>3 DEF Top

-----------------------------------------------------------------------------
(* What the steps do to the free list.                                     *)

\* The end of a take removes the first free block, if there is one.
LEMMA Taken ==
  ASSUME IInv, NEW u \in User, TakeUnlink(u),
         NEW s, IsListOf(Free, s), IsChain(Top, word, NULL, s)
  PROVE  \/ /\ s = <<>>
            /\ UNCHANGED <<first_block, holder>>
            /\ answer' = [answer EXCEPT ![u] = NULL]
            /\ IsListOf(Free', s) /\ IsChain(Top', word', NULL, s)
         \/ /\ s # <<>>
            /\ Head(s) \in Block /\ Head(s) = first_block
            /\ first_block' = word[first_block]
            /\ holder' = [holder EXCEPT ![Head(s)] = u]
            /\ answer' = [answer EXCEPT ![u] = Head(s)]
            /\ IsListOf(Free', Tail(s)) /\ IsChain(Top', word', NULL, Tail(s))
  <1>1. TypeOK /\ Calls /\ NULL \notin Block /\ NULL \notin User
    BY PoolAssumption DEF IInv
  <1>2. /\ block[u] = first_block /\ word' = word
        /\ answer' = [answer EXCEPT ![u] = first_block]
    BY <1>1 DEF Calls, TakeUnlink
  <1>3. Top' = first_block'
    BY <1>1, ReturnInv DEF TakeUnlink
  <1>4. Top = first_block
    BY <1>1, CallMasks DEF Top, TakeUnlink
  <1>5. CASE first_block = NULL
    <2>1. UNCHANGED <<first_block, holder>>
      BY <1>2, <1>5 DEF TakeUnlink
    <2>2. s = <<>>
      <3>1. s \in Seq(Block) /\ \A i \in 1 .. Len(s) : s[i] \in Block
        BY ElementOfSeq DEF IsListOf
      <3>2. s # <<>> => 1 \in 1 .. Len(s)
        BY <3>1, EmptySeq, LenProperties
      <3> QED BY <1>1, <1>4, <1>5, <3>1, <3>2 DEF IsChain
    <2> QED BY <1>2, <1>3, <1>4, <1>5, <2>1, <2>2 DEF Free
  <1>6. CASE first_block # NULL
    <2>1. /\ first_block' = word[first_block]
          /\ holder' = [holder EXCEPT ![first_block] = u]
      BY <1>2, <1>6 DEF TakeUnlink
    <2>2. /\ s # <<>> /\ first_block = Head(s)
          /\ first_block \in Free /\ first_block \in Block
          /\ IsListOf(Free \ {first_block}, Tail(s))
          /\ IsChain(word[first_block], word, NULL, Tail(s))
      <3>1. IsChain(first_block, word, NULL, s)
        BY <1>4
      <3> QED BY <1>6, <3>1, TakeFromList DEF IsListOf
    <2>3. Free' = Free \ {first_block}
      BY <1>1, <2>1, <2>2 DEF TypeOK, Free
    <2> QED BY <1>2, <1>3, <2>1, <2>2, <2>3
  <1> QED BY <1>5, <1>6

\* The end of a give puts the block in front.
LEMMA Given ==
  ASSUME IInv, NEW u \in User, GiveFirst(u) \/ RustGiveLink(u),
         NEW s, IsListOf(Free, s), IsChain(Top, word, NULL, s)
  PROVE  \E b \in Block :
           /\ holder[b] = u
           /\ holder' = [holder EXCEPT ![b] = NULL]
           /\ answer' = answer
           /\ first_block' = b
           /\ IsListOf(Free', <<b>> \o s) /\ IsChain(Top', word', NULL, <<b>> \o s)
  <1>1. TypeOK /\ Calls /\ NULL \notin Block /\ NULL \notin User
    BY PoolAssumption DEF IInv
  <1>2. Top' = first_block'
    BY <1>1, ReturnInv DEF GiveFirst, RustGiveLink
  <1>3. PICK b \in Block :
          /\ holder[b] = u /\ first_block' = b
          /\ holder' = [holder EXCEPT ![b] = NULL] /\ answer' = answer
          /\ word'[b] = Top /\ \A x \in Block \ {b} : word'[x] = word[x]
    <2>1. CASE GiveFirst(u)
      <3>1. /\ block[u] \in Block /\ holder[block[u]] = u /\ word[block[u]] = first_block
            /\ first_block' = block[u] /\ word' = word /\ answer' = answer
            /\ holder' = [holder EXCEPT ![block[u]] = NULL]
        BY <1>1, <2>1 DEF Calls, GiveFirst
      <3>2. Top = first_block
        BY <2>1 DEF Top, GiveFirst
      <3> QED BY <3>1, <3>2
    <2>2. CASE RustGiveLink(u)
      <3>1. /\ first_block \in Block /\ holder[first_block] = u
            /\ word' = [word EXCEPT ![first_block] = Top]
            /\ first_block' = first_block /\ answer' = answer
            /\ holder' = [holder EXCEPT ![first_block] = NULL]
        BY <1>1, <2>2, TopOfList DEF Calls, RustGiveLink
      <3> QED BY <1>1, <3>1 DEF TypeOK
    <2> QED BY <2>1, <2>2
  <1>4. b \notin Free /\ Free \subseteq Block /\ Free' = Free \cup {b}
    BY <1>1, <1>3 DEF TypeOK, Free
  <1>5. IsListOf(Free \cup {b}, <<b>> \o s) /\ IsChain(b, word', NULL, <<b>> \o s)
    <2>1. \A x \in Free : word'[x] = word[x]
      BY <1>3, <1>4
    <2> QED BY <1>3, <1>4, <2>1, GiveToList
  <1> QED BY <1>2, <1>3, <1>4, <1>5

\* The other steps leave it alone, although they may write in blocks, or move
\* first_block.
LEMMA Stays ==
  ASSUME IInv, NEW u \in User, NEW b \in Block, NEW data \in Pointer,
         \/ TakeFirst(u) \/ GiveLink(u, b) \/ RustGiveFirst(u, b) \/ Use(u, b, data)
         \/ CriticalEnter(u) \/ CriticalLeave(u),
         NEW s, IsListOf(Free, s), IsChain(Top, word, NULL, s)
  PROVE  /\ UNCHANGED <<holder, answer>>
         /\ IsListOf(Free', s) /\ IsChain(Top', word', NULL, s)
  <1>1. TypeOK /\ Calls /\ NULL \notin Block /\ NULL \notin User
    BY PoolAssumption DEF IInv
  <1>2. UNCHANGED <<holder, answer>>
    BY DEF TakeFirst, GiveLink, RustGiveFirst, Gives, Use, CriticalEnter, CriticalLeave
  <1>3. Top' = Top
    <2>1. \A v \in User : v # u => call[v] = "none" /\ ~section[v]
      BY <1>1, CallMasks
         DEF TakeFirst, GiveLink, RustGiveFirst, Gives, Use, CriticalEnter, CriticalLeave, TypeOK
    <2>2. CASE TakeFirst(u)
      BY <1>1, <2>1, <2>2 DEF Top, TakeFirst, Begin, TypeOK
    <2>3. CASE GiveLink(u, b)
      BY <2>3 DEF Top, GiveLink, Gives
    <2>4. CASE RustGiveFirst(u, b)
      <3>1. Top = first_block
        BY <1>1, <2>1, <2>4 DEF Top, RustGiveFirst, Gives
      <3>2. \A v \in User : call'[v] = "give" <=> v = u
        BY <1>1, <2>1, <2>4 DEF RustGiveFirst, Gives, Begin, TypeOK
      <3>3. (CHOOSE v \in User : call'[v] = "give") = u
        BY <3>2
      <3> QED BY <1>1, <2>4, <3>1, <3>2, <3>3 DEF Top, RustGiveFirst, Gives, Begin, TypeOK
    <2>5. CASE Use(u, b, data) \/ CriticalEnter(u) \/ CriticalLeave(u)
      BY <2>5 DEF Top, Use, CriticalEnter, CriticalLeave
    <2> QED BY <2>2, <2>3, <2>4, <2>5
  <1>4. \A x \in Free : word'[x] = word[x]
    <2>1. \/ word' = word
          \/ holder[b] = u /\ \A x \in Block \ {b} : word'[x] = word[x]
      BY <1>1 DEF TakeFirst, GiveLink, RustGiveFirst, Gives, Use, CriticalEnter,
                  CriticalLeave, TypeOK
    <2> QED BY <1>1, <2>1 DEF Free
  <1>5. IsChain(Top, word', NULL, s)
    BY <1>4, ChainFrame DEF IsListOf
  <1> QED BY <1>2, <1>3, <1>5 DEF Free

-----------------------------------------------------------------------------
\* Every step keeps the invariant.
LEMMA NextInv == IInv /\ [Next]_vars => IInv'
  <1> SUFFICES ASSUME IInv, [Next]_vars PROVE IInv'
    OBVIOUS
  <1>1. TypeOK /\ FreeListIntact /\ Calls
    BY DEF IInv
  <1>2. NULL \notin Block /\ NULL \notin User
    BY PoolAssumption
  <1>3. PICK s : IsListOf(Free, s) /\ IsChain(Top, word, NULL, s)
    BY <1>1, ListExists
  <1>4. ASSUME NEW q, IsListOf(Free', q), IsChain(Top', word', NULL, q)
        PROVE  FreeListIntact'
    BY <1>4, ListFound DEF FreeListIntact, IsFreeList, Free
  <1>5. ASSUME NEW u \in User, TakeFirst(u) PROVE IInv'
    <2>1. TypeOK'
      BY <1>1, <1>5 DEF TypeOK, TakeFirst, Mask, Begin
    <2>2. \A v \in User : v # u => call[v] = "none" /\ ~section[v]
      BY <1>1, <1>5, CallMasks DEF TakeFirst, TypeOK
    <2>3. Calls'
      BY <1>1, <1>2, <1>5, <2>2 DEF TypeOK, Calls, TakeFirst, Mask, Begin
    <2>4. FreeListIntact'
      <3>1. 0 \in Block /\ NULL \in Pointer
        BY PoolAssumption DEF Block, Pointer
      <3> QED BY <1>3, <1>4, <1>5, <3>1, Stays
    <2> QED BY <2>1, <2>3, <2>4 DEF IInv
  <1>6. ASSUME NEW u \in User, TakeUnlink(u) PROVE IInv'
    <2>1. Calls'
      BY <1>1, <1>6, ReturnInv DEF TakeUnlink
    <2>2. FreeListIntact'
      BY <1>3, <1>4, <1>6, Taken
    <2>3. TypeOK'
      <3>1. first_block' \in Pointer /\ holder' \in [Block -> User \cup {NULL}]
        BY <1>1, <1>3, <1>6, Taken DEF TypeOK
      <3>2. /\ call' = [call EXCEPT ![u] = "none"] /\ block' = [block EXCEPT ![u] = NULL]
            /\ answer' = [answer EXCEPT ![u] = block[u]]
            /\ UNCHANGED <<impl, word, section, saved>>
            /\ masked' = IF saved[u] THEN u ELSE NULL
        BY <1>6 DEF TakeUnlink, Return, Unmask
      <3> QED BY <1>1, <3>1, <3>2 DEF TypeOK, Pointer
    <2> QED BY <2>1, <2>2, <2>3 DEF IInv
  <1>7. ASSUME NEW u \in User, NEW b \in Block, GiveLink(u, b) PROVE IInv'
    <2>1. TypeOK'
      BY <1>1, <1>7 DEF TypeOK, GiveLink, Gives, Mask, Begin, Pointer
    <2>2. \A v \in User : v # u => call[v] = "none" /\ ~section[v]
      BY <1>1, <1>7, CallMasks DEF GiveLink, Gives, TypeOK
    <2>3. Calls'
      BY <1>1, <1>2, <1>7, <2>2 DEF TypeOK, Calls, GiveLink, Gives, Mask, Begin
    <2>4. FreeListIntact'
      BY <1>3, <1>4, <1>7, Stays DEF Pointer
    <2> QED BY <2>1, <2>3, <2>4 DEF IInv
  <1>8. ASSUME NEW u \in User, GiveFirst(u) \/ RustGiveLink(u) PROVE IInv'
    <2>1. Calls'
      BY <1>1, <1>8, ReturnInv DEF GiveFirst, RustGiveLink
    <2>2. FreeListIntact'
      BY <1>3, <1>4, <1>8, Given
    <2>3. TypeOK'
      <3>1. /\ first_block' \in Pointer /\ holder' \in [Block -> User \cup {NULL}]
            /\ answer' = answer
        BY <1>1, <1>3, <1>8, Given DEF TypeOK, Pointer
      <3>2. /\ call' = [call EXCEPT ![u] = "none"] /\ block' = [block EXCEPT ![u] = NULL]
            /\ UNCHANGED <<impl, section, saved>>
            /\ masked' = IF saved[u] THEN u ELSE NULL
            /\ word' \in {word, [word EXCEPT ![first_block] = block[u]]}
        BY <1>8 DEF GiveFirst, RustGiveLink, Return, Unmask
      <3>3. word' \in [Block -> Pointer]
        BY <1>1, <3>2 DEF TypeOK
      <3> QED BY <1>1, <3>1, <3>2, <3>3 DEF TypeOK, Pointer
    <2> QED BY <2>1, <2>2, <2>3 DEF IInv
  <1>9. ASSUME NEW u \in User, NEW b \in Block, RustGiveFirst(u, b) PROVE IInv'
    <2>1. TypeOK'
      BY <1>1, <1>9 DEF TypeOK, RustGiveFirst, Gives, Mask, Begin, Pointer
    <2>2. \A v \in User : v # u => call[v] = "none" /\ ~section[v]
      BY <1>1, <1>9, CallMasks DEF RustGiveFirst, Gives, TypeOK
    <2>3. Calls'
      BY <1>1, <1>2, <1>9, <2>2 DEF TypeOK, Calls, RustGiveFirst, Gives, Mask, Begin
    <2>4. FreeListIntact'
      BY <1>3, <1>4, <1>9, Stays DEF Pointer
    <2> QED BY <2>1, <2>3, <2>4 DEF IInv
  <1>10. ASSUME NEW u \in User, NEW b \in Block, NEW data \in Pointer, Use(u, b, data)
        PROVE  IInv'
    <2>1. TypeOK'
      BY <1>1, <1>10 DEF TypeOK, Use
    <2>2. \A v \in User : call[v] = "none"
      BY <1>1, <1>10, CallMasks DEF Use, TypeOK
    <2>3. Calls'
      BY <1>1, <1>10, <2>2 DEF TypeOK, Calls, Use
    <2>4. FreeListIntact'
      BY <1>3, <1>4, <1>10, Stays
    <2> QED BY <2>1, <2>3, <2>4 DEF IInv
  <1>11. ASSUME NEW u \in User, CriticalEnter(u) \/ CriticalLeave(u) PROVE IInv'
    <2>1. UNCHANGED <<impl, first_block, word, call, block, saved, holder, answer>>
      BY <1>11 DEF CriticalEnter, CriticalLeave
    <2>2. TypeOK'
      BY <1>1, <1>11, <2>1 DEF TypeOK, CriticalEnter, CriticalLeave
    <2>3. \A v \in User : v # u => call[v] = "none" /\ ~section[v]
      BY <1>1, <1>11, CallMasks DEF CriticalEnter, CriticalLeave, TypeOK
    <2>4. Calls'
      BY <1>1, <1>2, <1>11, <2>1, <2>3 DEF TypeOK, Calls, CriticalEnter, CriticalLeave
    <2>5. FreeListIntact'
      BY <1>3, <1>4, <2>1 DEF Top, Free
    <2> QED BY <2>2, <2>4, <2>5 DEF IInv
  <1>12. CASE UNCHANGED vars
    BY <1>1, <1>12 DEF IInv, TypeOK, FreeListIntact, IsFreeList, Top, Calls, vars
  <1> QED BY <1>5, <1>6, <1>7, <1>8, <1>9, <1>10, <1>11, <1>12 DEF Next

\* The invariant holds throughout.
THEOREM Invariance == Spec => []IInv
  BY InitInv, NextInv, PTL DEF Spec

\* Every pointer of the allocator is a block or NULL.
THEOREM TypeCorrect == Spec => []TypeOK
  <1>1. IInv => TypeOK
    BY DEF IInv
  <1> QED BY Invariance, <1>1, PTL

\* The free list holds exactly the blocks without a holder, each once.
THEOREM FreeListStaysIntact == Spec => []FreeListIntact
  <1>1. IInv => FreeListIntact
    BY DEF IInv
  <1> QED BY Invariance, <1>1, PTL

\* os_pool_alloc_take returns a block that nobody holds, or NULL when all are
\* held.
THEOREM TakesAreExclusive == Spec => TakeIsExclusive
  <1> DEFINE Exclusive == \A u \in User : TakeUnlink(u) =>
                            IF answer'[u] = NULL
                              THEN \A b \in Block : holder[b] # NULL
                              ELSE holder[answer'[u]] = NULL
  <1>1. ASSUME IInv PROVE Exclusive
    <2> SUFFICES ASSUME NEW u \in User, TakeUnlink(u)
                 PROVE  IF answer'[u] = NULL
                          THEN \A b \in Block : holder[b] # NULL
                          ELSE holder[answer'[u]] = NULL
      OBVIOUS
    <2>1. PICK s : IsListOf(Free, s) /\ IsChain(Top, word, NULL, s)
      BY <1>1, ListExists DEF IInv
    <2>2. answer \in [User -> Pointer] /\ NULL \notin Block
      BY <1>1, PoolAssumption DEF IInv, TypeOK
    <2>3. CASE s = <<>>
      <3>1. Free = {}
        BY <2>1, <2>3, EmptyRange DEF IsListOf
      <3>2. answer'[u] = NULL
        BY <1>1, <2>1, <2>2, <2>3, Taken
      <3> QED BY <3>1, <3>2 DEF Free
    <2>4. CASE s # <<>>
      <3>1. Head(s) \in Free
        BY <2>1, <2>4, TailRemoves DEF IsListOf
      <3>2. answer'[u] = Head(s) /\ Head(s) \in Block
        BY <1>1, <2>1, <2>2, <2>4, Taken
      <3> QED BY <2>2, <3>1, <3>2 DEF Free
    <2> QED BY <2>3, <2>4
  <1>2. IInv /\ [Next]_vars => [Exclusive]_vars
    BY <1>1
  <1> HIDE DEF Exclusive
  <1>3. Spec => [][Exclusive]_vars
    BY Invariance, <1>2, PTL DEF Spec
  <1> QED BY <1>3 DEF Exclusive, TakeIsExclusive

\* A critical section of a user masks the others out until the user leaves it.
THEOREM CriticalSectionsHold == Spec => SectionsHold
  <1> DEFINE Undisturbed == \A u, v \in User :
               (section[u] /\ v # u)
                 => UNCHANGED <<call[v], block[v], section[v], answer[v]>>
  <1>1. ASSUME IInv, [Next]_vars PROVE Undisturbed
    <2> SUFFICES ASSUME NEW u \in User, NEW v \in User, section[u], v # u
                 PROVE  UNCHANGED <<call[v], block[v], section[v], answer[v]>>
      OBVIOUS
    <2>1. TypeOK /\ masked = u /\ NULL \notin User
      BY <1>1, PoolAssumption DEF IInv, Calls
    <2>2. \A other \in User : Runs(other) => other = u
      BY <2>1 DEF Runs
    <2>3. ASSUME NEW other \in User, TakeFirst(other) \/ TakeUnlink(other)
          PROVE  UNCHANGED <<call[v], block[v], section[v], answer[v]>>
      BY <2>1, <2>2, <2>3 DEF TypeOK, TakeFirst, TakeUnlink, Begin, Return
    <2>4. ASSUME NEW other \in User, GiveFirst(other) \/ RustGiveLink(other)
          PROVE  UNCHANGED <<call[v], block[v], section[v], answer[v]>>
      BY <2>1, <2>2, <2>4 DEF TypeOK, GiveFirst, RustGiveLink, Return
    <2>5. ASSUME NEW other \in User, NEW b \in Block,
                 \/ GiveLink(other, b) \/ RustGiveFirst(other, b)
                 \/ \E data \in Pointer : Use(other, b, data)
          PROVE  UNCHANGED <<call[v], block[v], section[v], answer[v]>>
      BY <2>1, <2>2, <2>5 DEF TypeOK, GiveLink, RustGiveFirst, Gives, Use, Begin
    <2>6. ASSUME NEW other \in User, CriticalEnter(other) \/ CriticalLeave(other)
          PROVE  UNCHANGED <<call[v], block[v], section[v], answer[v]>>
      BY <2>1, <2>2, <2>6 DEF TypeOK, CriticalEnter, CriticalLeave
    <2>7. CASE UNCHANGED vars
      BY <2>7 DEF vars
    <2> QED BY <1>1, <2>3, <2>4, <2>5, <2>6, <2>7 DEF Next
  <1>2. IInv /\ [Next]_vars => [Undisturbed]_vars
    BY <1>1
  <1> HIDE DEF Undisturbed
  <1>3. Spec => [][Undisturbed]_vars
    BY Invariance, <1>2, PTL DEF Spec
  <1> QED BY <1>3 DEF Undisturbed, SectionsHold

-----------------------------------------------------------------------------
\* A step of the allocator that ends a call is the operation of Pool, the others
\* change nothing that Pool sees.
LEMMA PoolStep == IInv /\ [Next]_vars => [P!Next]_<<FreeList, holder, answer>>
  <1> SUFFICES ASSUME IInv, [Next]_vars
               PROVE  P!Next \/ UNCHANGED <<FreeList, holder, answer>>
    OBVIOUS
  <1>1. PICK s : IsListOf(Free, s) /\ IsChain(Top, word, NULL, s)
    BY ListExists DEF IInv
  <1>2. FreeList = s
    BY <1>1, ListIsFreeList DEF FreeList
  <1>3. \A q : IsListOf(Free', q) /\ IsChain(Top', word', NULL, q) => FreeList' = q
    BY ListIsFreeList DEF FreeList
  <1>4. ASSUME NEW u \in User, TakeUnlink(u) PROVE P!Next
    <2>1. CASE s = <<>>
      <3>1. /\ holder' = holder /\ answer' = [answer EXCEPT ![u] = NULL]
            /\ IsListOf(Free', s) /\ IsChain(Top', word', NULL, s)
        BY <1>1, <1>4, <2>1, Taken
      <3>2. Free = {}
        BY <1>1, <2>1, EmptyRange DEF IsListOf
      <3>3. P!TakeNothing(u)
        BY <1>2, <1>3, <3>1, <3>2 DEF P!TakeNothing, Free
      <3> QED BY <3>3 DEF P!Next
    <2>2. CASE s # <<>>
      <3>1. /\ holder' = [holder EXCEPT ![Head(s)] = u]
            /\ answer' = [answer EXCEPT ![u] = Head(s)]
            /\ IsListOf(Free', Tail(s)) /\ IsChain(Top', word', NULL, Tail(s))
        BY <1>1, <1>4, <2>2, Taken
      <3>2. P!Take(u)
        BY <1>2, <1>3, <2>2, <3>1 DEF P!Take
      <3> QED BY <3>2 DEF P!Next
    <2> QED BY <2>1, <2>2
  <1>5. ASSUME NEW u \in User, GiveFirst(u) \/ RustGiveLink(u) PROVE P!Next
    <2>1. PICK b \in Block :
            /\ holder[b] = u
            /\ holder' = [holder EXCEPT ![b] = NULL]
            /\ answer' = answer
            /\ IsListOf(Free', <<b>> \o s) /\ IsChain(Top', word', NULL, <<b>> \o s)
      BY <1>1, <1>5, Given
    <2>2. P!Give(u, b)
      BY <1>2, <1>3, <2>1 DEF P!Give
    <2> QED BY <2>2 DEF P!Next
  <1>6. ASSUME NEW u \in User, NEW b \in Block, NEW data \in Pointer,
               \/ TakeFirst(u) \/ GiveLink(u, b) \/ RustGiveFirst(u, b) \/ Use(u, b, data)
               \/ CriticalEnter(u) \/ CriticalLeave(u)
        PROVE  UNCHANGED <<FreeList, holder, answer>>
    BY <1>1, <1>2, <1>3, <1>6, Stays
  <1>7. CASE UNCHANGED vars
    BY <1>7 DEF FreeList, Top, vars
  <1>8. 0 \in Block /\ NULL \in Pointer
    BY PoolAssumption DEF Block, Pointer
  <1> QED BY <1>4, <1>5, <1>6, <1>7, <1>8 DEF Next

\* The linked blocks implement a stack of free blocks, whatever calls preempt
\* each other: os_pool_alloc_take and os_pool_alloc_give, and their Rust
\* counterparts, appear to happen at once.
THEOREM ImplementsTheStack == Spec => ImplementsPool
  <1>1. Init => P!Init
    <2> SUFFICES ASSUME Init PROVE P!Init
      OBVIOUS
    <2> DEFINE s == [i \in 1 .. NumBlocks |-> i - 1]
    <2>1. IsListOf(Free, s) /\ IsChain(Top, word, NULL, s)
      BY InitList DEF ByAddress
    <2>2. FreeList = s
      BY <2>1, ListIsFreeList DEF FreeList
    <2> QED BY <2>2 DEF Init, P!Init
  <1> QED BY <1>1, Invariance, PoolStep, PTL DEF Spec, ImplementsPool, P!Spec
=============================================================================
