----------------------------- MODULE PoolAlloc -----------------------------
(***************************************************************************)
(* The pool allocators, in C (pool_alloc.c) and in Rust (pool_alloc.rs).   *)
(* The first word of a free block points to the next free block; the       *)
(* holder of a block overwrites that word with data.                       *)
(*                                                                         *)
(* The users are tasks and interrupt handlers that preempt each other      *)
(* between any two steps, except while one has masked the interrupts: the  *)
(* C functions do that themselves, a Rust pool is shared in a CriticalLock *)
(* (tasks.rs).  Either restores the mask it found, so that a call may be   *)
(* made inside a critical section of the user.  Blocks are counted from    *)
(* the start of the backing memory.                                        *)
(*                                                                         *)
(* Definitions whose names end in Bug are mistakes, as in Kernel.          *)
(***************************************************************************)
EXTENDS Chains, Functions

CONSTANTS NumBlocks, User, NULL

Block == 0 .. NumBlocks - 1

ASSUME PoolAssumption ==
  /\ NumBlocks \in Nat \ {0}
  /\ NULL \notin Block \cup User

VARIABLES
  impl,     (* which of the two allocators it is                           *)
  first_block,
  word,     (* the first word of each block                                *)
  call,     (* the call each user is in, after its first access            *)
  block,    (* ret of a take, the block of a give, or second of a Rust one *)
  section,  (* whether each user is in a critical section of its own       *)
  saved,    (* whether the call of each user found the interrupts masked   *)
  masked,   (* who has masked the interrupts                               *)
  holder,   (* who may use each block, or NULL                             *)
  answer    (* what the last take of each user returned                    *)

vars == <<impl, first_block, word, call, block, section, saved, masked, holder,
          answer>>

Pointer == Block \cup {NULL}

InitBug ==
  /\ impl \in {"C", "Rust"}
  /\ first_block = 0
  /\ word = [b \in Block |-> b + 1]
  /\ call = [u \in User |-> "none"]
  /\ block = [u \in User |-> NULL]
  /\ section = [u \in User |-> FALSE]
  /\ saved = [u \in User |-> FALSE]
  /\ masked = NULL
  /\ holder = [b \in Block |-> NULL]
  /\ answer = [u \in User |-> NULL]

\* os_pool_alloc_init, and Pool::new, link the blocks in the order of their
\* addresses.
Init ==
  /\ impl \in {"C", "Rust"}
  /\ first_block = 0
  /\ word = [b \in Block |-> IF b + 1 \in Block THEN b + 1 ELSE NULL]
  /\ call = [u \in User |-> "none"]
  /\ block = [u \in User |-> NULL]
  /\ section = [u \in User |-> FALSE]
  /\ saved = [u \in User |-> FALSE]
  /\ masked = NULL
  /\ holder = [b \in Block |-> NULL]
  /\ answer = [u \in User |-> NULL]

RunsBug(u) == TRUE
Runs(u) == masked \in {NULL, u}

MaskBug(u) == UNCHANGED <<masked, saved>>

\* CM_ATOMIC_CONTEXT of a call that begins, or the lock of a CriticalLock.
Mask(u) ==
  /\ saved' = [saved EXCEPT ![u] = masked = u]
  /\ masked' = u

UnmaskBug(u) == masked' = NULL /\ UNCHANGED saved

\* The end of the scope: the mask is what it was at its beginning.
Unmask(u) ==
  /\ masked' = IF saved[u] THEN u ELSE NULL
  /\ UNCHANGED saved

Begin(u, name, b) ==
  /\ call' = [call EXCEPT ![u] = name]
  /\ block' = [block EXCEPT ![u] = b]

Return(u) ==
  /\ call' = [call EXCEPT ![u] = "none"]
  /\ block' = [block EXCEPT ![u] = NULL]

\* os_pool_alloc_take, or take of a Rust pool: ret = first_block,
TakeFirst(u) ==
  /\ Runs(u)
  /\ call[u] = "none"
  /\ Mask(u)
  /\ Begin(u, "take", first_block)
  /\ UNCHANGED <<impl, first_block, word, section, holder, answer>>

\* first_block = *ret, and return ret.
TakeUnlink(u) ==
  /\ Runs(u)
  /\ call[u] = "take"
  /\ IF block[u] = NULL
       THEN UNCHANGED <<first_block, holder>>
       ELSE /\ first_block' = word[block[u]]
            /\ holder' = [holder EXCEPT ![block[u]] = u]
  /\ answer' = [answer EXCEPT ![u] = block[u]]
  /\ Return(u)
  /\ Unmask(u)
  /\ UNCHANGED <<impl, word, section>>

\* A call that gives back a block the user holds.
Gives(u, b, kind) ==
  /\ impl = kind
  /\ Runs(u)
  /\ call[u] = "none"
  /\ holder[b] = u
  /\ Mask(u)

GiveLinkBug(u, b) ==
  /\ Gives(u, b, "C")
  /\ Begin(u, "give", b)
  /\ UNCHANGED <<impl, first_block, word, section, holder, answer>>

\* os_pool_alloc_give: *block = first_block,
GiveLink(u, b) ==
  /\ Gives(u, b, "C")
  /\ word' = [word EXCEPT ![b] = first_block]
  /\ Begin(u, "give", b)
  /\ UNCHANGED <<impl, first_block, section, holder, answer>>

\* first_block = block.
GiveFirst(u) ==
  /\ impl = "C"
  /\ Runs(u)
  /\ call[u] = "give"
  /\ first_block' = block[u]
  /\ holder' = [holder EXCEPT ![block[u]] = NULL]
  /\ Return(u)
  /\ Unmask(u)
  /\ UNCHANGED <<impl, word, section, answer>>

\* give of a Rust pool: second = first_block; first_block = block,
RustGiveFirst(u, b) ==
  /\ Gives(u, b, "Rust")
  /\ first_block' = b
  /\ Begin(u, "give", first_block)
  /\ UNCHANGED <<impl, word, section, holder, answer>>

\* *first_block = second.
RustGiveLink(u) ==
  /\ impl = "Rust"
  /\ Runs(u)
  /\ call[u] = "give"
  /\ word' = [word EXCEPT ![first_block] = block[u]]
  /\ holder' = [holder EXCEPT ![first_block] = NULL]
  /\ Return(u)
  /\ Unmask(u)
  /\ UNCHANGED <<impl, first_block, section, answer>>

\* A user stores data in a block it holds; data may look like a pointer.
Use(u, b, data) ==
  /\ Runs(u)
  /\ call[u] = "none"
  /\ holder[b] = u
  /\ word' = [word EXCEPT ![b] = data]
  /\ UNCHANGED <<impl, first_block, call, block, section, saved, masked, holder, answer>>

\* A critical! block, or a CM_ATOMIC_BLOCK, around what the user does next.
CriticalEnter(u) ==
  /\ Runs(u)
  /\ call[u] = "none" /\ ~section[u]
  /\ section' = [section EXCEPT ![u] = TRUE]
  /\ masked' = u
  /\ UNCHANGED <<impl, first_block, word, call, block, saved, holder, answer>>

\* The guard that CriticalSection::new returned is dropped.
CriticalLeave(u) ==
  /\ Runs(u)
  /\ call[u] = "none" /\ section[u]
  /\ section' = [section EXCEPT ![u] = FALSE]
  /\ masked' = NULL
  /\ UNCHANGED <<impl, first_block, word, call, block, saved, holder, answer>>

Next ==
  \E u \in User :
    \/ TakeFirst(u) \/ TakeUnlink(u) \/ GiveFirst(u) \/ RustGiveLink(u)
    \/ \E b \in Block : \/ GiveLink(u, b) \/ RustGiveFirst(u, b)
                       \/ \E data \in Pointer : Use(u, b, data)
    \/ CriticalEnter(u) \/ CriticalLeave(u)

Spec == Init /\ [][Next]_vars

-----------------------------------------------------------------------------
TypeOK ==
  /\ impl \in {"C", "Rust"}
  /\ first_block \in Pointer
  /\ word \in [Block -> Pointer]
  /\ call \in [User -> {"none", "take", "give"}]
  /\ block \in [User -> Pointer]
  /\ section \in [User -> BOOLEAN]
  /\ saved \in [User -> BOOLEAN]
  /\ masked \in User \cup {NULL}
  /\ holder \in [Block -> User \cup {NULL}]
  /\ answer \in [User -> Pointer]

\* The first free block.  During a Rust give first_block is ahead of it.
Top ==
  IF impl = "Rust" /\ \E u \in User : call[u] = "give"
    THEN block[CHOOSE u \in User : call[u] = "give"]
    ELSE first_block

\* s is what one meets when following the free list.
IsFreeList(s, n) ==
  /\ Top = IF n = 0 THEN NULL ELSE s[1]
  /\ \A i \in 1 .. n : word[s[i]] = IF i = n THEN NULL ELSE s[i + 1]

\* The free list ends, and holds exactly the blocks without a holder, each
\* once: whatever users write into their blocks, none of it becomes a link.
FreeListIntact ==
  \E n \in 0 .. NumBlocks : \E s \in [1 .. n -> Block] :
    /\ IsInjective(s)
    /\ Range(s) = {b \in Block : holder[b] = NULL}
    /\ IsFreeList(s, n)

\* A take returns NULL only if every block is held, and never a block that
\* somebody holds already, also when calls of other users come in between.
TakeIsExclusive ==
  [][\A u \in User : TakeUnlink(u) =>
       IF answer'[u] = NULL
         THEN \A b \in Block : holder[b] # NULL
         ELSE holder[answer'[u]] = NULL]_vars

\* While a user is in a critical section of its own nobody else gets to do
\* anything: the calls it makes in there do not unmask the interrupts.
SectionsHold ==
  [][\A u, v \in User :
       (section[u] /\ v # u)
         => UNCHANGED <<call[v], block[v], section[v], answer[v]>>]_vars

\* The free list as a sequence; a cycle shows as more blocks than there are.
FreeList == Walk(Top, word, Block, NULL, NumBlocks + 1)

P == INSTANCE Pool WITH
       free    <- FreeList,
       InOrder <- [i \in 1 .. NumBlocks |-> i - 1]

\* The linked blocks implement a stack of free blocks: the blocks come out in
\* the order of their addresses first, and the block given last comes first.
ImplementsPool == P!Spec
=============================================================================
