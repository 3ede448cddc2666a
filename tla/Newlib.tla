------------------------------- MODULE Newlib -------------------------------
(***************************************************************************)
(* The system calls under newlib (syscalls.c), and what the kernel does    *)
(* for the library: os_task_init makes a struct _reent for each task, and  *)
(* the context switch lets _impure_ptr point to it.                        *)
(*                                                                         *)
(* A library function reads _impure_ptr, and passes it to the system call, *)
(* which stores the error in its _errno; errno is that of _impure_ptr.     *)
(* Tasks are switched between any two of these steps.                      *)
(*                                                                         *)
(* Bound: the tasks of one program compute, or call the files, or grow the *)
(* heap.  The three have nothing in common but the switch, and only to     *)
(* compute do they use registers that differ.                              *)
(*                                                                         *)
(* Definitions whose names end in Bug are mistakes, as in Kernel.          *)
(***************************************************************************)
EXTENDS Context

CONSTANTS
  Global,            (* the struct _reent that newlib starts with          *)
  TasksOf,           (* bound: the tasks that each program creates         *)
  MaxIncrement,      (* bound: what _sbrk_r is asked for                   *)
  MainStackPointer   (* where the heap ends, counted from end              *)

Program == {"compute", "files", "heap"}

ASSUME NewlibAssumption ==
  /\ Global \notin Task \cup {NULL}
  /\ NULL \notin Nat
  /\ TasksOf \in [Program -> SUBSET (Task \ {Idle})]
  /\ MaxIncrement \in Nat /\ MainStackPointer \in Nat

VARIABLES
  program,      (* what the tasks do: "compute", "files" or "heap"         *)
  impure_ptr,   (* _impure_ptr                                             *)
  errno,        (* _errno of each struct _reent                            *)
  reent,        (* the argument of the system call a task is in, or NULL   *)
  via,          (* that of the last call which stored an error             *)
  told,         (* and the error                                           *)
  heap_end,     (* counted from end                                        *)
  prev,         (* prev_heap_end of a task in _sbrk_r, or NULL             *)
  grow,         (* and its increment                                       *)
  owner         (* who got each byte of the heap from _sbrk_r              *)

libVars  == <<program, impure_ptr, errno, reent, via, told, heap_end, prev, grow, owner>>
heapVars == <<heap_end, prev, grow, owner>>

Errno == {"none", "EBADF", "ENOSYS", "ESRCH", "EPERM", "EACCES", "ENOENT", "ECHILD",
          "ENOMEM"}
Byte  == 0 .. MainStackPointer - 1

LibInit ==
  /\ Init
  /\ program \in Program
  /\ program # "compute" => core = "m0"
  /\ impure_ptr = Global
  /\ errno = [r \in Task \cup {Global} |-> "none"]
  /\ reent = [t \in Task |-> NULL]
  /\ via = [t \in Task |-> NULL]
  /\ told = [t \in Task |-> "none"]
  /\ heap_end = 0
  /\ prev = [t \in Task |-> NULL]
  /\ grow = [t \in Task |-> 0]
  /\ owner = [b \in Byte |-> NULL]

-----------------------------------------------------------------------------
(* What the kernel does for the library.                                   *)

\* os_task_init ends with _REENT_INIT_PTR.
ReentInit(t) ==
  /\ t \in TasksOf[program]
  /\ TaskInit(t)
  /\ errno' = [errno EXCEPT ![t] = "none"]
  /\ reent' = [reent EXCEPT ![t] = NULL]
  /\ via' = [via EXCEPT ![t] = NULL]
  /\ told' = [told EXCEPT ![t] = "none"]
  /\ UNCHANGED <<program, impure_ptr, heapVars>>

\* sched_start_tasks leaves _impure_ptr alone.
Start(t) == StartTasks(t) /\ UNCHANGED libVars

MaskedBug == FALSE

\* A task is in the CM_ATOMIC_CONTEXT of _sbrk_r.
Masked == \E t \in Task : prev[t] # NULL

SetImpureBug(next) == UNCHANGED impure_ptr

\* _impure_ptr = &current_task->reent, in both handlers.
SetImpure(next) == impure_ptr' = next

SwitchTo(next) ==
  /\ ~Masked
  /\ Switch(next)
  /\ SetImpure(next)
  /\ UNCHANGED <<program, errno, reent, via, told, heapVars>>

ReturnFrom(t) == Return(t) /\ reent[t] = NULL /\ UNCHANGED libVars

-----------------------------------------------------------------------------
(* The system calls that always fail.                                      *)

\* The library function.  idle_task calls none.
Enter(t) ==
  /\ Runs(t) /\ t # Idle
  /\ program # "compute"
  /\ reent[t] = NULL
  /\ reent' = [reent EXCEPT ![t] = impure_ptr]
  /\ UNCHANGED <<vars, program, impure_ptr, errno, via, told, heapVars>>

Store_errno(t, e) ==
  /\ errno' = [errno EXCEPT ![reent[t]] = e]
  /\ reent' = [reent EXCEPT ![t] = NULL]
  /\ via' = [via EXCEPT ![t] = reent[t]]
  /\ told' = [told EXCEPT ![t] = e]

Called(t) == Runs(t) /\ program = "files" /\ reent[t] # NULL

Fails(t, e) ==
  /\ Called(t)
  /\ Store_errno(t, e)
  /\ UNCHANGED <<vars, program, impure_ptr, heapVars>>

close(t)  == Fails(t, "EBADF")
execve(t) == Fails(t, "EBADF")
fcntl(t)  == Fails(t, "EBADF")
fork(t)   == Fails(t, "ENOSYS")
fstat(t)  == Fails(t, "EBADF")
isatty(t) == Fails(t, "EBADF")   \* although it returns 1
kill(t)   == Fails(t, "ESRCH")
link(t)   == Fails(t, "EBADF")
lseek(t)  == Fails(t, "EBADF")
mkdir(t)  == Fails(t, "EPERM")
open(t)   == Fails(t, "EACCES")
read(t)   == Fails(t, "EBADF")
rename(t) == Fails(t, "EBADF")
stat(t)   == Fails(t, "EBADF")
times(t)  == Fails(t, "ENOSYS")
unlink(t) == Fails(t, "ENOENT")
wait(t)   == Fails(t, "ECHILD")
write(t)  == Fails(t, "EBADF")

\* Returns 1, and leaves errno alone.
getpid(t) ==
  /\ Called(t)
  /\ reent' = [reent EXCEPT ![t] = NULL]
  /\ UNCHANGED <<vars, program, impure_ptr, errno, via, told, heapVars>>

Files(t) ==
  \/ close(t) \/ execve(t) \/ fcntl(t) \/ fork(t) \/ fstat(t) \/ getpid(t) \/ isatty(t)
  \/ kill(t) \/ link(t) \/ lseek(t) \/ mkdir(t) \/ open(t) \/ read(t) \/ rename(t)
  \/ stat(t) \/ times(t) \/ unlink(t) \/ wait(t) \/ write(t)

-----------------------------------------------------------------------------
(* The heap.                                                               *)

\* _sbrk_r up to its test of the new end of the heap.  malloc gives back only
\* what it got last.
SbrkTest(t, increment) ==
  /\ Runs(t) /\ program = "heap" /\ reent[t] # NULL
  /\ prev[t] = NULL /\ ~Masked
  /\ \A b \in heap_end + increment .. heap_end - 1 : b >= 0 /\ owner[b] = t
  /\ IF heap_end + increment > MainStackPointer
       THEN /\ Store_errno(t, "ENOMEM")
            /\ UNCHANGED <<prev, grow>>
       ELSE /\ prev' = [prev EXCEPT ![t] = heap_end]
            /\ grow' = [grow EXCEPT ![t] = increment]
            /\ UNCHANGED <<errno, reent, via, told>>
  /\ UNCHANGED <<vars, program, impure_ptr, heap_end, owner>>

\* heap_end += increment, and return prev_heap_end.
SbrkMove(t) ==
  /\ Runs(t) /\ prev[t] # NULL
  /\ heap_end' = heap_end + grow[t]
  /\ owner' = [b \in Byte |-> IF b \in prev[t] .. prev[t] + grow[t] - 1 THEN t
                              ELSE IF b \in prev[t] + grow[t] .. prev[t] - 1 THEN NULL
                              ELSE owner[b]]
  /\ prev' = [prev EXCEPT ![t] = NULL]
  /\ grow' = [grow EXCEPT ![t] = 0]
  /\ reent' = [reent EXCEPT ![t] = NULL]
  /\ UNCHANGED <<vars, program, impure_ptr, errno, via, told>>

-----------------------------------------------------------------------------
LibNext ==
  \/ program = "compute" /\ Computes /\ UNCHANGED libVars
  \/ \E t \in Task :
       \/ ReentInit(t) \/ Start(t) \/ SwitchTo(t) \/ ReturnFrom(t)
       \/ Enter(t) \/ Files(t)
       \/ \E n \in -1 .. MaxIncrement : SbrkTest(t, n)
       \/ SbrkMove(t)

LibSpec == LibInit /\ [][LibNext]_<<vars, libVars>>

-----------------------------------------------------------------------------
LibTypeOK ==
  /\ TypeOK
  /\ program \in Program
  /\ impure_ptr \in Task \cup {Global}
  /\ errno \in [Task \cup {Global} -> Errno]
  /\ reent \in [Task -> Task \cup {Global, NULL}]
  /\ via \in [Task -> Task \cup {Global, NULL}]
  /\ told \in [Task -> Errno]
  /\ heap_end \in 0 .. MainStackPointer
  /\ prev \in [Task -> 0 .. MainStackPointer \cup {NULL}]
  /\ owner \in [Byte -> Task \cup {NULL}]

\* A task that looks at errno sees the error of its own last call, whatever the
\* others called since, with one exception: the task that is started first calls
\* with the struct _reent of main(), and looks at its own after a switch.
ErrnoLostOnlyAtStart ==
  \A t \in Task :
    (Runs(t) /\ errno[impure_ptr] # told[t]) => via[t] = Global /\ impure_ptr = t

\* _sbrk_r never hands out memory that it has handed out before, and that was
\* not given back, also when the tasks that call it are switched.
SbrkExclusive ==
  [][\A t \in Task : SbrkMove(t) =>
       \A b \in prev[t] .. prev[t] + grow[t] - 1 : owner[b] = NULL]_<<vars, libVars>>
=============================================================================
