---------------------------- MODULE PidFileProofs ----------------------------
(***************************************************************************)
(* Proofs about PidFile for any number of processes and inodes: the lock    *)
(* separates instances on one file, and the removal of a name that is open  *)
(* elsewhere is the only way two instances come to run.                     *)
(***************************************************************************)
EXTENDS PidFile, TLAPS

Holding == {"truncate", "write", "run", "unlock"}

\* A lock belongs to a live process that has the file open and is past F_SETLK.
Owned ==
    \A p \in Process, i \in Inode :
        lock[i] = p => fd[p] = i /\ pc[p] \in Holding

\* A process past F_SETLK still has its lock.
Held == \A p \in Process : pc[p] \in Holding => lock[fd[p]] = p

\* Without a race every open PID file is the named one.
Named == ~raced => \A p \in Process : fd[p] # None => fd[p] = path

\* Between write and unlock the file holds its owner's number.
Written == \A p \in Process : pc[p] \in {"run", "unlock"} => content[fd[p]] = p

IInv == TypeOK /\ Owned /\ Held /\ Named /\ Written

-----------------------------------------------------------------------------
LEMMA InitIInv == Init => IInv
  BY NoneAssumption DEF Init, IInv, TypeOK, Owned, Held, Named, Written, Holding

\* Which inode a process with an open PID file has.
LEMMA OpenFd ==
    ASSUME TypeOK, NEW p \in Process, pc[p] \notin {"off", "unlink"}
    PROVE  fd[p] \in Inode
  BY NoneAssumption DEF TypeOK

\* close and death: the process loses its lock and no other does.
LEMMA Dropping ==
    ASSUME TypeOK, NEW p \in Process
    PROVE  /\ Unlocked(p) \in [Inode -> Process \cup {None}]
           /\ \A i \in Inode : Unlocked(p)[i] # p
           /\ \A i \in Inode, q \in Process \ {p} : Unlocked(p)[i] = q <=> lock[i] = q
  BY NoneAssumption DEF TypeOK, Unlocked

LEMMA NextIInv == IInv /\ [Next]_vars => IInv'
  <1> SUFFICES ASSUME IInv, [Next]_vars PROVE IInv'
    OBVIOUS
  <1> USE NoneAssumption
  <1> USE DEF IInv
  <1>1. ASSUME NEW p \in Process, Open(p) PROVE IInv'
    <2>1. path \in Inode /\ fd[p] = None
      BY <1>1 DEF Open, TypeOK
    <2> QED
      BY <1>1, <2>1 DEF Open, TypeOK, Owned, Held, Named, Written, Holding
  <1>2. ASSUME NEW p \in Process, Create(p) PROVE IInv'
    <2>1. PICK i \in Inode : /\ Unused(i) /\ path' = i
                             /\ fd' = [fd EXCEPT ![p] = i]
                             /\ content' = [content EXCEPT ![i] = None]
      BY <1>2 DEF Create
    <2>2. /\ pc[p] = "off" /\ path = None /\ fd[p] = None
          /\ pc' = [pc EXCEPT ![p] = "lock"] /\ UNCHANGED <<lock, raced>>
      BY <1>2 DEF Create, TypeOK
    <2>3. \A q \in Process : fd[q] # i
      BY <2>1 DEF Unused
    <2>4. ~raced => \A q \in Process : fd[q] = None
      BY <2>2 DEF Named
    <2>5. TypeOK'
      BY <2>1, <2>2 DEF TypeOK
    <2>6. Owned' /\ Held'
      BY <2>1, <2>2, <2>3 DEF Owned, Held, Holding, TypeOK
    <2>7. Named'
      BY <2>1, <2>2, <2>4 DEF Named, TypeOK
    <2>8. Written'
      BY <2>1, <2>2, <2>3, OpenFd DEF Written, TypeOK
    <2> QED
      BY <2>5, <2>6, <2>7, <2>8
  <1>3. ASSUME NEW p \in Process, Lock(p) PROVE IInv'
    <2>1. /\ pc[p] = "lock" /\ fd[p] \in Inode /\ lock[fd[p]] = None
          /\ lock' = [lock EXCEPT ![fd[p]] = p] /\ pc' = [pc EXCEPT ![p] = "truncate"]
          /\ UNCHANGED <<fd, path, content, raced>>
      BY <1>3, OpenFd DEF Lock, Available
    <2>2. TypeOK'
      BY <2>1 DEF TypeOK
    <2>3. Owned'
      BY <2>1 DEF Owned, Holding, TypeOK
    <2>4. Held'
      BY <2>1, OpenFd DEF Held, Holding, TypeOK
    <2>5. Named' /\ Written'
      BY <2>1 DEF Named, Written, TypeOK
    <2> QED
      BY <2>2, <2>3, <2>4, <2>5
  <1>4. ASSUME NEW p \in Process, GiveUp(p) \/ Crash(p) PROVE IInv'
    <2>1. /\ lock' = Unlocked(p) /\ fd' = [fd EXCEPT ![p] = None]
          /\ pc' = [pc EXCEPT ![p] = "off"]
          /\ UNCHANGED <<path, content, raced>>
      BY <1>4 DEF GiveUp, Crash
    <2>2. TypeOK'
      BY <2>1, Dropping DEF TypeOK
    <2>3. Owned'
      BY <2>1, Dropping DEF Owned, TypeOK
    <2>4. Held'
      BY <2>1, Dropping, OpenFd DEF Held, Holding, TypeOK
    <2>5. Named' /\ Written'
      BY <2>1 DEF Named, Written, TypeOK
    <2> QED
      BY <2>2, <2>3, <2>4, <2>5
  <1>5. ASSUME NEW p \in Process, Truncate(p) \/ Write(p) PROVE IInv'
    <2> DEFINE r == IF pc[p] = "truncate" THEN None ELSE p
               next == IF pc[p] = "truncate" THEN "write" ELSE "run"
    <2>1. /\ pc[p] \in {"truncate", "write"} /\ fd[p] \in Inode
          /\ content' = [content EXCEPT ![fd[p]] = r] /\ pc' = [pc EXCEPT ![p] = next]
          /\ UNCHANGED <<fd, path, lock, raced>>
      BY <1>5, OpenFd DEF Truncate, Write
    <2>2. TypeOK'
      BY <2>1 DEF TypeOK
    <2>3. Owned' /\ Held' /\ Named'
      BY <2>1 DEF Owned, Held, Named, Holding, TypeOK
    <2>4. \A q \in Process : q # p /\ pc[q] \in {"run", "unlock"} => fd[q] # fd[p]
      BY <2>1 DEF Held, Holding
    <2>5. Written'
      BY <2>1, <2>4, OpenFd DEF Written, TypeOK
    <2> QED
      BY <2>2, <2>3, <2>5
  <1>6. ASSUME NEW p \in Process, Stop(p) PROVE IInv'
    BY <1>6 DEF Stop, TypeOK, Owned, Held, Named, Written, Holding
  <1>7. ASSUME NEW p \in Process, Unlock(p) PROVE IInv'
    <2>1. /\ pc[p] = "unlock" /\ lock' = Unlocked(p) /\ pc' = [pc EXCEPT ![p] = "close"]
          /\ UNCHANGED <<fd, path, content, raced>>
      BY <1>7 DEF Unlock
    <2>2. TypeOK'
      BY <2>1, Dropping DEF TypeOK
    <2>3. Owned' /\ Named' /\ Written'
      BY <2>1, Dropping DEF Owned, Named, Written, TypeOK
    <2>4. Held'
      BY <2>1, Dropping, OpenFd DEF Held, Holding, TypeOK
    <2> QED
      BY <2>2, <2>3, <2>4
  <1>8. ASSUME NEW p \in Process, Close(p) PROVE IInv'
    <2>1. \A i \in Inode : lock[i] # p
      BY <1>8 DEF Close, Owned, Holding
    <2> QED
      BY <1>8, <2>1 DEF Close, TypeOK, Owned, Held, Named, Written, Holding
  <1>9. ASSUME NEW p \in Process, Unlink(p) PROVE IInv'
    <2>1. /\ path' = None /\ pc' = [pc EXCEPT ![p] = "off"] /\ pc[p] = "unlink"
          /\ raced' = (raced \/ (path # None /\ \E q \in Process : fd[q] = path))
          /\ UNCHANGED <<fd, lock, content>>
      BY <1>9 DEF Unlink
    <2>2. TypeOK'
      BY <2>1 DEF TypeOK
    <2>3. Owned' /\ Held' /\ Written'
      BY <2>1 DEF Owned, Held, Written, Holding, TypeOK
    <2>4. Named'
      BY <2>1 DEF Named
    <2> QED
      BY <2>2, <2>3, <2>4
  <1>10. CASE UNCHANGED vars
    BY <1>10 DEF vars, TypeOK, Owned, Held, Named, Written, Holding
  <1> QED
    BY <1>1, <1>2, <1>3, <1>4, <1>5, <1>6, <1>7, <1>8, <1>9, <1>10 DEF Next

LEMMA IInvAlways == Spec => []IInv
  BY InitIInv, NextIInv, PTL DEF Spec

\* Types, and g_pid_fd is open exactly between open and close.
THEOREM TypeCorrect == Spec => []TypeOK
  <1>1. IInv => TypeOK
    BY DEF IInv
  <1> QED
    BY <1>1, IInvAlways, PTL

\* Two instances on one file exclude each other without any condition.
OneInstancePerFile ==
    \A p, q \in Process : pc[p] = "run" /\ pc[q] = "run" /\ fd[p] = fd[q] => p = q

\* It holds of any number of processes, crashes and races, also of those a stop causes.
THEOREM ExclusionPerFile == Spec => []OneInstancePerFile
  <1>1. IInv => OneInstancePerFile
    BY DEF IInv, Held, Holding, OneInstancePerFile
  <1> QED
    BY <1>1, IInvAlways, PTL

\* The race at unlink is the only way to a second instance, for any number of starts,
\* stops and crashes.
THEOREM ExclusionUnlessRaced == Spec => []OneInstanceUnlessRaced
  <1>1. IInv => OneInstanceUnlessRaced
    BY DEF IInv, TypeOK, Held, Named, Holding, OneInstanceUnlessRaced
  <1> QED
    BY <1>1, IInvAlways, PTL

\* Without that race the PID file always exists and names the running instance.
THEOREM FileNamesInstance == Spec => []PidFileNamesInstance
  <1>1. IInv => PidFileNamesInstance
    BY DEF IInv, TypeOK, Named, Written, PidFileNamesInstance
  <1> QED
    BY <1>1, IInvAlways, PTL
=============================================================================
