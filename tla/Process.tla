------------------------------ MODULE Process ------------------------------
(* The life of a user process: kern/main/menu.c starts a program, waits    *)
(* for it and destroys it; the program's own thread runs runprogram, the   *)
(* program and sys__exit (kern/syscall/runprogram.c, proc_syscall.c) and   *)
(* dies in thread_exit.  kern/proc/proc.c is in between.                   *)
(*                                                                         *)
(* The menu runs one program at a time, so there is one struct proc; the   *)
(* thread of an earlier program may still be on its way to the zombie list *)
(* when the next process, which may get the same memory, is created.       *)
(* kmalloc does not return NULL in this kernel (an exhausted coremap       *)
(* panics), so the ENOMEM branches of the code are not taken.              *)
EXTENDS Semaphore

CONSTANTS
  menu,        \* the kernel menu's thread
  Users,       \* threads forked to run programs
  NULL,
  ExitCodes,   \* arguments of _exit
  Failures,    \* which of vfs_open, load_elf may report an error, and trap
  Regions      \* how many PT_LOAD headers an executable may have

ASSUME ProcessAssumption ==
  /\ Threads = Users \cup {menu}
  /\ menu \notin Users
  /\ NULL \notin Users \cup Int
  /\ initial_count = 0
  /\ ExitCodes \subseteq Int
  /\ Failures \subseteq {"vfs_open", "load_elf", "trap"}
  /\ Regions \subseteq Nat

VARIABLES
  at,            \* the function each thread is in (P and V are in pc)
  user,          \* the thread forked for the current process, or NULL
  proc,          \* is the struct proc (and its p_sem) allocated?
  p_numthreads,
  t_proc,        \* t_proc[u]: is thread u attached to the process?
  p_addrspace,   \* NULL, or how many regions are defined, or Complete
  p_vnode,       \* is p_vnode set to the open executable?
  elf_opens,     \* vfs_open minus vfs_close calls on the executable
  cwd_refs,      \* references to the menu's current directory by programs
  status,        \* proc->status; NULL when nothing was stored in it yet
  exit_status,   \* what common_prog got from proc_wait
  exited         \* auxiliary: what the process passed to _exit

procvars == <<proc, p_numthreads, t_proc, p_addrspace, p_vnode, elf_opens,
              cwd_refs, status, exit_status, exited>>
vars == <<semvars, at, user, procvars>>

MenuLabels == {"prompt", "fork", "wait", "status", "close", "as_destroy",
               "free"}
UserLabels == {"none", "vfs_open", "as_create", "load_elf", "define", "user",
               "remthread", "V", "thread_exit", "zombie", "panic"}

(* Both regions, the stack and the page table are defined.                 *)
Complete == 3

Init ==
  /\ sem_create
  /\ at = [t \in Threads |-> IF t = menu THEN "prompt" ELSE "none"]
  /\ user = NULL
  /\ proc = FALSE
  /\ p_numthreads = 0
  /\ t_proc = [u \in Users |-> FALSE]
  /\ p_addrspace = NULL
  /\ p_vnode = FALSE
  /\ elf_opens = 0
  /\ cwd_refs = 0
  /\ status = NULL
  /\ exit_status = NULL
  /\ exited = NULL

(* t has returned from any P or V and goes from one function to another.   *)
Goto(t, from, to) ==
  /\ at[t] = from
  /\ pc[t] = "out"
  /\ at' = [at EXCEPT ![t] = to]

Panic(u) == at' = [at EXCEPT ![u] = "panic"]

----------------------------------------------------------------------------
(* The menu.                                                               *)

(* proc_create with its semaphore, and a reference to the menu's cwd.      *)
proc_create_runprogram ==
  /\ Goto(menu, "prompt", "fork")
  /\ proc' = TRUE
  /\ p_numthreads' = 0
  /\ p_addrspace' = NULL
  /\ p_vnode' = FALSE
  /\ cwd_refs' = cwd_refs + 1
  /\ sem_count' = 0
  /\ sem_lock' = NoThread
  /\ sem_wchan' = << >>
  /\ status' = NULL
  /\ exited' = NULL
  /\ UNCHANGED <<pc, user, t_proc, elf_opens, exit_status>>

(* thread_fork: the new thread is attached before it is made runnable.     *)
thread_fork(u) ==
  /\ at[menu] = "fork"
  /\ at[u] = "none"
  /\ at' = [at EXCEPT ![menu] = "wait", ![u] = "vfs_open"]
  /\ user' = u
  /\ p_numthreads' = p_numthreads + 1
  /\ t_proc' = [t_proc EXCEPT ![u] = TRUE]
  /\ UNCHANGED <<semvars, proc, p_addrspace, p_vnode, elf_opens, cwd_refs,
                 status, exit_status, exited>>

(* Mutant: the menu does not wait for the program.                         *)
proc_wait_NoP ==
  /\ Goto(menu, "wait", "status")
  /\ UNCHANGED <<semvars, user, procvars>>

proc_wait ==
  /\ Goto(menu, "wait", "status")
  /\ P(menu)
  /\ UNCHANGED <<user, procvars>>

ReadStatus ==
  /\ Goto(menu, "status", "close")
  /\ exit_status' = status
  /\ UNCHANGED <<semvars, user, proc, p_numthreads, t_proc, p_addrspace,
                 p_vnode, elf_opens, cwd_refs, status, exited>>

(* Mutant: the executable stays open.                                      *)
proc_destroy_LeaveOpen ==
  /\ Goto(menu, "close", "as_destroy")
  /\ cwd_refs' = cwd_refs - 1
  /\ UNCHANGED <<semvars, user, proc, p_numthreads, t_proc, p_addrspace,
                 p_vnode, elf_opens, status, exit_status, exited>>

(* The VFS fields go first ...                                             *)
proc_destroy ==
  /\ Goto(menu, "close", "as_destroy")
  /\ elf_opens' = elf_opens - 1
  /\ cwd_refs' = cwd_refs - 1
  /\ UNCHANGED <<semvars, user, proc, p_numthreads, t_proc, p_addrspace,
                 p_vnode, status, exit_status, exited>>

(* ... then the address space ...                                          *)
as_destroy ==
  /\ Goto(menu, "as_destroy", "free")
  /\ p_addrspace' = NULL
  /\ UNCHANGED <<semvars, user, proc, p_numthreads, t_proc, p_vnode,
                 elf_opens, cwd_refs, status, exit_status, exited>>

(* ... then the semaphore and the structure itself.                        *)
proc_end_waitpid ==
  /\ Goto(menu, "free", "prompt")
  /\ proc' = FALSE
  /\ user' = NULL
  /\ UNCHANGED <<semvars, p_numthreads, t_proc, p_addrspace, p_vnode,
                 elf_opens, cwd_refs, status, exit_status, exited>>

----------------------------------------------------------------------------
(* The program's thread.                                                   *)

(* An error: runprogram returns, cmd_progthread returns, and thread_startup *)
(* calls thread_exit.                                                      *)
runprogram_fails(u) ==
  \/ /\ "vfs_open" \in Failures
     /\ Goto(u, "vfs_open", "thread_exit")
     /\ UNCHANGED elf_opens
  \/ /\ "load_elf" \in Failures
     /\ Goto(u, "load_elf", "thread_exit")
     /\ elf_opens' = elf_opens - 1

RunprogramFails(u) ==
  /\ runprogram_fails(u)
  /\ UNCHANGED <<semvars, user, proc, p_numthreads, t_proc, p_addrspace,
                 p_vnode, cwd_refs, status, exit_status, exited>>

vfs_open(u) ==
  /\ Goto(u, "vfs_open", "as_create")
  /\ elf_opens' = elf_opens + 1
  /\ UNCHANGED <<semvars, user, proc, p_numthreads, t_proc, p_addrspace,
                 p_vnode, cwd_refs, status, exit_status, exited>>

as_create(u) ==
  /\ Goto(u, "as_create", "load_elf")
  /\ p_addrspace' = 0
  /\ UNCHANGED <<semvars, user, proc, p_numthreads, t_proc, p_vnode, elf_opens,
                 cwd_refs, status, exit_status, exited>>

(* One PT_LOAD header of load_elf's loop; a third one panics.              *)
as_define_region(u) ==
  /\ at[u] = "load_elf"
  /\ \E n \in Regions : n > p_addrspace
  /\ IF p_addrspace < 2
     THEN p_addrspace' = p_addrspace + 1 /\ UNCHANGED at
     ELSE Panic(u) /\ UNCHANGED p_addrspace
  /\ UNCHANGED <<semvars, user, proc, p_numthreads, t_proc, p_vnode, elf_opens,
                 cwd_refs, status, exit_status, exited>>

(* load_elf succeeds; the vnode now belongs to the process.                *)
load_elf(u) ==
  /\ Goto(u, "load_elf", "define")
  /\ p_addrspace \in Regions
  /\ p_vnode' = TRUE
  /\ UNCHANGED <<semvars, user, proc, p_numthreads, t_proc, p_addrspace,
                 elf_opens, cwd_refs, status, exit_status, exited>>

(* as_define_stack and as_define_pt.  With fewer than two regions as_data  *)
(* is NULL and is dereferenced.                                            *)
as_define_pt(u) ==
  /\ at[u] = "define"
  /\ IF p_addrspace = 2
     THEN at' = [at EXCEPT ![u] = "user"] /\ p_addrspace' = Complete
     ELSE Panic(u) /\ UNCHANGED p_addrspace
  /\ UNCHANGED <<semvars, user, proc, p_numthreads, t_proc, p_vnode, elf_opens,
                 cwd_refs, status, exit_status, exited>>

(* A fatal fault of the program ends in kill_curthread.                    *)
kill_curthread(u) ==
  /\ "trap" \in Failures
  /\ at[u] = "user"
  /\ Panic(u)
  /\ UNCHANGED <<semvars, user, procvars>>

(* Mutant: the semaphore is raised before the thread is detached.          *)
sys__exit_SignalFirst(u, code) ==
  /\ Goto(u, "user", "thread_exit")
  /\ status' = code % 256
  /\ exited' = code
  /\ V(u)
  /\ UNCHANGED <<user, proc, p_numthreads, t_proc, p_addrspace, p_vnode,
                 elf_opens, cwd_refs, exit_status>>

(* Mutant: the exit status is not stored.                                  *)
sys__exit_NoStatus(u, code) ==
  /\ Goto(u, "user", "remthread")
  /\ exited' = code
  /\ UNCHANGED <<semvars, user, proc, p_numthreads, t_proc, p_addrspace,
                 p_vnode, elf_opens, cwd_refs, status, exit_status>>

sys__exit(u, code) ==
  /\ Goto(u, "user", "remthread")
  /\ status' = code % 256
  /\ exited' = code
  /\ UNCHANGED <<semvars, user, proc, p_numthreads, t_proc, p_addrspace,
                 p_vnode, elf_opens, cwd_refs, exit_status>>

proc_remthread(u) ==
  /\ p_numthreads' = p_numthreads - 1
  /\ t_proc' = [t_proc EXCEPT ![u] = FALSE]
  /\ UNCHANGED <<proc, p_addrspace, p_vnode, elf_opens, cwd_refs, status,
                 exit_status, exited>>

DetachOnExit(u) ==
  /\ Goto(u, "remthread", "V")
  /\ proc_remthread(u)
  /\ UNCHANGED <<semvars, user>>

(* Mutant: nobody is told that the process has exited.                     *)
SignalExit_NoV(u) ==
  /\ Goto(u, "V", "thread_exit")
  /\ UNCHANGED <<semvars, user, procvars>>

SignalExit(u) ==
  /\ Goto(u, "V", "thread_exit")
  /\ V(u)
  /\ UNCHANGED <<user, procvars>>

(* Mutant: thread_exit detaches a thread that sys__exit already detached.  *)
thread_exit_Always(u) ==
  /\ Goto(u, "thread_exit", "zombie")
  /\ proc_remthread(u)
  /\ UNCHANGED <<semvars, user>>

(* A thread that is still attached, because runprogram failed, detaches    *)
(* here.                                                                   *)
thread_exit(u) ==
  /\ Goto(u, "thread_exit", "zombie")
  /\ IF t_proc[u] THEN proc_remthread(u) ELSE UNCHANGED procvars
  /\ UNCHANGED <<semvars, user>>

(* Some cpu's exorcise destroys the zombie.                                *)
thread_destroy(u) ==
  /\ Goto(u, "zombie", "none")
  /\ UNCHANGED <<semvars, user, procvars>>

----------------------------------------------------------------------------
MenuStep ==
  \/ \E u \in Users : thread_fork(u)
  \/ proc_wait \/ ReadStatus \/ proc_destroy \/ as_destroy \/ proc_end_waitpid
  \/ SemStep(menu) /\ UNCHANGED <<at, user, procvars>>

KernelStep(u) ==
  \/ RunprogramFails(u) \/ vfs_open(u) \/ as_create(u) \/ as_define_region(u)
  \/ load_elf(u) \/ as_define_pt(u)
  \/ DetachOnExit(u) \/ SignalExit(u) \/ thread_exit(u) \/ thread_destroy(u)
  \/ SemStep(u) /\ UNCHANGED <<at, user, procvars>>

(* A panic stops the machine.                                              *)
Running == \A u \in Users : at[u] # "panic"

Next ==
  /\ Running
  /\ \/ proc_create_runprogram
     \/ MenuStep
     \/ \E u \in Users : \/ KernelStep(u)
                         \/ kill_curthread(u)
                         \/ \E code \in ExitCodes : sys__exit(u, code)

Spec == Init /\ [][Next]_vars

(* Kernel code keeps running; what the program does is up to the program.  *)
FairSpec ==
  /\ Spec
  /\ WF_vars(Running /\ MenuStep)
  /\ \A u \in Users : WF_vars(Running /\ KernelStep(u))

----------------------------------------------------------------------------
(* Steps of a program's thread that use the struct proc or its semaphore.  *)
Uses(u) ==
  \/ at[u] \in {"vfs_open", "as_create", "load_elf", "define", "user",
                "remthread", "V"}
  \/ pc[u] # "out"
  \/ t_proc[u]

(* Every variable has its type, and the counts never go below zero.        *)
TypeOK ==
  /\ SemTypeOK
  /\ at[menu] \in MenuLabels
  /\ \A u \in Users : at[u] \in UserLabels
  /\ user \in Users \cup {NULL}
  /\ proc \in BOOLEAN
  /\ p_numthreads \in 0 .. 1
  /\ t_proc \in [Users -> BOOLEAN]
  /\ p_addrspace \in 0 .. Complete \cup {NULL}
  /\ p_vnode \in BOOLEAN
  /\ elf_opens \in 0 .. 1
  /\ cwd_refs \in 0 .. 1
  /\ status \in 0 .. 255 \cup {NULL}
  /\ exit_status \in 0 .. 255 \cup {NULL}

(* The menu frees the process while the exiting thread is still running.   *)
(* That thread never touches the process or its semaphore afterwards: any  *)
(* thread that still will is the current process's, and it is allocated.   *)
NoUseAfterFree == \A u \in Users : Uses(u) => proc /\ user = u

(* What proc_destroy, as_destroy and sem_destroy rely on, from the moment  *)
(* proc_wait is past its P: no thread is left in the process (the KASSERT  *)
(* in proc_destroy), nobody holds or sleeps on the semaphore (spinlock_    *)
(* cleanup and wchan_destroy), the vnode is set and open, and all segments *)
(* and the page table exist.                                               *)
DestroyIsSafe ==
  at[menu] \in {"close", "as_destroy", "free"} =>
    /\ p_numthreads = 0
    /\ \A u \in Users : ~t_proc[u]
    /\ sem_lock = NoThread
    /\ sem_wchan = << >>
    /\ p_vnode
    /\ at[menu] = "close" => elf_opens = 1
    /\ at[menu] \in {"close", "as_destroy"} => p_addrspace = Complete

(* The exiting thread and the menu that destroys its process keep out of   *)
(* each other's way: nothing is used after it is freed, and nothing is     *)
(* freed in a state its destructor does not accept.                        *)
ExitIsSafe == TypeOK /\ NoUseAfterFree /\ DestroyIsSafe

(* When the menu is back at its prompt, everything the program acquired    *)
(* has been released: the executable, the directory, the address space.    *)
NothingLeftBehind ==
  at[menu] = "prompt" =>
    ~proc /\ elf_opens = 0 /\ cwd_refs = 0 /\ p_addrspace = NULL

(* What proc_wait returned is the low byte of what this very program       *)
(* passed to _exit.                                                        *)
StatusDelivered ==
  at[menu] = "close" => exited # NULL /\ exit_status = exited % 256

(* What a run leaves the menu with: the status of this program, and        *)
(* nothing else of it.                                                     *)
RunIsComplete == NothingLeftBehind /\ StatusDelivered

(* Once a program has called _exit, the menu gets its prompt back.         *)
MenuReturns ==
  \A u \in Users : at[u] = "remthread" ~> at[menu] = "prompt"

(* runprogram.c says of its error returns that the address space "will go  *)
(* away when curproc is destroyed": the process of a program that could    *)
(* not be run is eventually destroyed.                                     *)
FailedRunIsDestroyed ==
  \A u \in Users :
    at[u] = "thread_exit" /\ t_proc[u] ~> (~proc \/ ~Running)
============================================================================
