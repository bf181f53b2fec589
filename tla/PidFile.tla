------------------------------- MODULE PidFile -------------------------------
(***************************************************************************)
(* The PID file protocol of src/process/process.c between several starts    *)
(* of the program with one configuration: open, lock, truncate, write; and  *)
(* at the end unlock, close, unlink.  Each system call is one step, and a   *)
(* process can be killed between any two of them.                           *)
(*                                                                          *)
(* The kernel's part: path names at most one inode; an inode lives on,      *)
(* without a name, while it is open; a POSIX lock belongs to a process and  *)
(* an inode and goes away when the process closes the file or dies.         *)
(***************************************************************************)
CONSTANTS Process, Inode, None

ASSUME NoneAssumption == None \notin Process /\ None \notin Inode

VARIABLES
    pc,       \* pc[p]: the next system call of p
    fd,       \* fd[p]: the inode behind g_pid_fd, or None for -1
    path,     \* the inode named pid_file, or None
    lock,     \* lock[i]: the process that holds the write lock
    content,  \* content[i]: the process whose number the file holds
    raced     \* history: a name was removed while another process had it open

vars == <<pc, fd, path, lock, content, raced>>

Init ==
    /\ pc = [p \in Process |-> "off"]
    /\ fd = [p \in Process |-> None]
    /\ path = None
    /\ lock = [i \in Inode |-> None]
    /\ content = [i \in Inode |-> None]
    /\ raced = FALSE

(***************************************************************************)
(* process_pidfile_acquire                                                  *)
(***************************************************************************)
\* An inode number that is neither named nor open can be given to a new file.
Unused(i) == i # path /\ \A p \in Process : fd[p] # i

\* open(pid_file, O_RDWR | O_CREAT).  The faulty variant adds O_TRUNC.
Open_faulty(p) ==
    /\ pc[p] = "off" /\ path # None
    /\ pc' = [pc EXCEPT ![p] = "lock"]
    /\ fd' = [fd EXCEPT ![p] = path]
    /\ content' = [content EXCEPT ![path] = None]
    /\ UNCHANGED <<path, lock, raced>>
Open(p) ==
    /\ pc[p] = "off" /\ path # None
    /\ pc' = [pc EXCEPT ![p] = "lock"]
    /\ fd' = [fd EXCEPT ![p] = path]
    /\ UNCHANGED <<path, lock, content, raced>>

Create(p) ==
    /\ pc[p] = "off" /\ path = None
    /\ \E i \in Inode :
          /\ Unused(i)
          /\ path' = i
          /\ fd' = [fd EXCEPT ![p] = i]
          /\ content' = [content EXCEPT ![i] = None]
    /\ pc' = [pc EXCEPT ![p] = "lock"]
    /\ UNCHANGED <<lock, raced>>

\* F_SETLK of a write lock: refused while another process holds one.
Available_faulty(i) == TRUE
Available(i) == lock[i] = None

Lock(p) ==
    /\ pc[p] = "lock" /\ Available(fd[p])
    /\ lock' = [lock EXCEPT ![fd[p]] = p]
    /\ pc' = [pc EXCEPT ![p] = "truncate"]
    /\ UNCHANGED <<fd, path, content, raced>>

Unlocked(p) == [i \in Inode |-> IF lock[i] = p THEN None ELSE lock[i]]

\* The lock was refused (always, while another process holds one), or ftruncate or write
\* failed: close, and the start fails.
GiveUp_faulty(p) ==
    /\ pc[p] \in {"lock", "truncate", "write"}
    /\ lock' = Unlocked(p)
    /\ pc' = [pc EXCEPT ![p] = "off"]
    /\ UNCHANGED <<fd, path, content, raced>>
GiveUp(p) ==
    /\ pc[p] \in {"lock", "truncate", "write"}
    /\ lock' = Unlocked(p)
    /\ fd' = [fd EXCEPT ![p] = None]
    /\ pc' = [pc EXCEPT ![p] = "off"]
    /\ UNCHANGED <<path, content, raced>>

Truncate(p) ==
    /\ pc[p] = "truncate"
    /\ content' = [content EXCEPT ![fd[p]] = None]
    /\ pc' = [pc EXCEPT ![p] = "write"]
    /\ UNCHANGED <<fd, path, lock, raced>>

Write(p) ==
    /\ pc[p] = "write"
    /\ content' = [content EXCEPT ![fd[p]] = p]
    /\ pc' = [pc EXCEPT ![p] = "run"]
    /\ UNCHANGED <<fd, path, lock, raced>>

(***************************************************************************)
(* process_pidfile_release; "run" is everything main does in between.       *)
(***************************************************************************)
Stop(p) ==
    /\ pc[p] = "run"
    /\ pc' = [pc EXCEPT ![p] = "unlock"]
    /\ UNCHANGED <<fd, path, lock, content, raced>>

Unlock(p) ==
    /\ pc[p] = "unlock"
    /\ lock' = Unlocked(p)
    /\ pc' = [pc EXCEPT ![p] = "close"]
    /\ UNCHANGED <<fd, path, content, raced>>

Close(p) ==
    /\ pc[p] = "close"
    /\ fd' = [fd EXCEPT ![p] = None]
    /\ pc' = [pc EXCEPT ![p] = "unlink"]
    /\ UNCHANGED <<path, lock, content, raced>>

\* unlink removes whatever file has the name by now.
Unlink(p) ==
    /\ pc[p] = "unlink"
    /\ path' = None
    /\ raced' = (raced \/ (path # None /\ \E q \in Process : fd[q] = path))
    /\ pc' = [pc EXCEPT ![p] = "off"]
    /\ UNCHANGED <<fd, lock, content>>

\* SIGKILL or a power cut of the process: the file stays, its lock does not.
Crash(p) ==
    /\ pc[p] # "off"
    /\ pc' = [pc EXCEPT ![p] = "off"]
    /\ fd' = [fd EXCEPT ![p] = None]
    /\ lock' = Unlocked(p)
    /\ UNCHANGED <<path, content, raced>>

Next ==
    \E p \in Process :
        \/ Open(p) \/ Create(p) \/ Lock(p) \/ GiveUp(p) \/ Truncate(p) \/ Write(p)
        \/ Stop(p) \/ Unlock(p) \/ Close(p) \/ Unlink(p) \/ Crash(p)

Spec == Init /\ [][Next]_vars

(***************************************************************************)
(* Properties.                                                              *)
(***************************************************************************)
\* Types; g_pid_fd is open exactly between open and close.
TypeOK ==
    /\ pc \in [Process -> {"off", "lock", "truncate", "write", "run",
                           "unlock", "close", "unlink"}]
    /\ fd \in [Process -> Inode \cup {None}]
    /\ \A p \in Process : fd[p] = None <=> pc[p] \in {"off", "unlink"}
    /\ path \in Inode \cup {None}
    /\ lock \in [Inode -> Process \cup {None}]
    /\ content \in [Inode -> Process \cup {None}]
    /\ raced \in BOOLEAN

\* The lock keeps out a second instance, also after crashes and failed starts, as long as
\* no stopping instance removed the file name under a process that had the file open.
OneInstanceUnlessRaced ==
    ~raced => \A p, q \in Process : pc[p] = "run" /\ pc[q] = "run" => p = q

\* The PID file exists and names the running instance, whatever starts were refused,
\* failed half-way or crashed meanwhile (under the same condition).
PidFileNamesInstance ==
    ~raced => \A p \in Process : pc[p] = "run" => path = fd[p] /\ content[path] = p

\* What process.c:16 says the lock is for: one configuration never runs twice.
OneInstance ==
    \A p, q \in Process : pc[p] = "run" /\ pc[q] = "run" => p = q
============================================================================
