------------------------ MODULE LocalAuthorityProofs ------------------------
(***************************************************************************)
(* What a process signs with is what is on disk, for any number of         *)
(* processes and any time limits: as long as no lock was removed under its *)
(* holder, a pair that a ready process uses and that is still valid is     *)
(* never replaced, neither as a whole nor half.                            *)
(***************************************************************************)
EXTENDS LocalAuthority, TLAPS

(* What a process has in memory: nothing before it is done, and then a       *)
(* certificate with its own key or no key at all.                            *)
MemoryInv ==
  \A p \in Procs :
    /\ pc[p] \notin {"unlock"} \union Ended => key[p] = None
    /\ pc[p] = "readKey" => cert[p] # None
    /\ pc[p] \in {"unlock", "ready"} /\ key[p] # None => cert[p] = key[p]
    /\ pc[p] = "ready" => key[p] # None

(* Whoever uses the files made the lock directory that is there now.         *)
LockInv ==
  ~broken => \A p \in Procs : pc[p] \in Holding => lockDir # None /\ lockDir.by = p

OnDisk(p) == cert[p] \notin lapsed => certFile = cert[p] /\ keyFile = cert[p]

(* A pair that was read or written is still on disk, and one is written only *)
(* when no ready process uses a valid one: the writer found none.            *)
FilesInv ==
  ~broken =>
    \A p \in Procs :
      /\ pc[p] = "readKey" => certFile = cert[p]
      /\ pc[p] = "putKey" => certFile = p
      /\ pc[p] \in {"putCert", "putKey"} =>
           \A q \in Procs : pc[q] = "ready" => cert[q] \in lapsed
      /\ pc[p] = "unlock" /\ key[p] # None => OnDisk(p)
      /\ pc[p] = "ready" => OnDisk(p)

AuthorityInv == TypeOK /\ MemoryInv /\ LockInv /\ FilesInv

(* Nobody holds anything in the initial state.                               *)
LEMMA AuthorityInit == Init => AuthorityInv
<1> SUFFICES ASSUME Init PROVE AuthorityInv
  OBVIOUS
<1> USE DEF Init
<1>1. TypeOK
  <2>1. clock \in 0..MaxClock
    BY AuthorityConstants
  <2>2. broken \in BOOLEAN /\ lapsed \in SUBSET {OldPair}
    OBVIOUS
  <2>3. lockDir \in Locks \union {None}
    BY DEF Locks, Pairs
  <2>4. certFile \in Pairs \union {None} /\ keyFile \in Pairs \union {None}
    BY DEF Pairs
  <2>5. /\ pc \in [Procs -> {"idle"} \union Waiting \union Holding \union Ended]
        /\ deadline \in [Procs -> Nat]
        /\ cert \in [Procs -> Pairs \union {None}]
        /\ key \in [Procs -> Pairs \union {None}]
        /\ leafs \in [Procs -> SUBSET Hosts]
    OBVIOUS
  <2> QED
    BY <2>1, <2>2, <2>3, <2>4, <2>5 DEF TypeOK
<1>2. MemoryInv /\ LockInv /\ FilesInv
  BY DEF MemoryInv, LockInv, FilesInv, Holding, Ended
<1> QED
  BY <1>1, <1>2 DEF AuthorityInv

(* The lock excludes: two holders would both have made the same directory.   *)
LEMMA OneHolder == LockInv => LockExcludes
BY DEF LockInv, LockExcludes

(* Every step has values of the right types.                                 *)
LEMMA TypesKept == TypeOK /\ [Next]_vars => TypeOK'
<1> SUFFICES ASSUME TypeOK, [Next]_vars PROVE TypeOK'
  OBVIOUS
<1> USE DEF TypeOK, Goto, files, memory
<1>1. CASE UNCHANGED vars
  BY <1>1 DEF vars
<1>2. ASSUME NEW p \in Procs, Begin(p) PROVE TypeOK'
  BY <1>2, AuthorityConstants DEF Begin, Waiting
<1>3. ASSUME NEW p \in Procs, TryMkdir(p) PROVE TypeOK'
  BY <1>3, AuthorityConstants DEF TryMkdir, Locks, Pairs, Waiting, Holding
<1>4. ASSUME NEW p \in Procs, StatLock(p) PROVE TypeOK'
  BY <1>4 DEF StatLock, Waiting, Ended
<1>5. ASSUME NEW p \in Procs, RemoveStale(p) PROVE TypeOK'
  BY <1>5 DEF RemoveStale, DropLock, Waiting
<1>6. ASSUME NEW p \in Procs, ReadCert(p) PROVE TypeOK'
  BY <1>6 DEF ReadCert, Holding
<1>7. ASSUME NEW p \in Procs, ReadKey(p) PROVE TypeOK'
  BY <1>7 DEF ReadKey, Holding
<1>8. ASSUME NEW p \in Procs, PutCert(p) PROVE TypeOK'
  BY <1>8 DEF PutCert, Pairs, Holding
<1>9. ASSUME NEW p \in Procs, PutKey(p) PROVE TypeOK'
  BY <1>9 DEF PutKey, Pairs, Holding
<1>10. ASSUME NEW p \in Procs, Unlock(p) PROVE TypeOK'
  BY <1>10 DEF Unlock, DropLock, Ended
<1>11. ASSUME NEW p \in Procs, IssueLeaf(p) PROVE TypeOK'
  BY <1>11 DEF IssueLeaf
<1>12. ASSUME NEW p \in Procs, Stop(p) PROVE TypeOK'
  BY <1>12 DEF Stop, Ended
<1>13. CASE Tick
  BY <1>13, AuthorityConstants DEF Tick
<1>14. CASE Lapse
  BY <1>14 DEF Lapse
<1> QED
  BY <1>1, <1>2, <1>3, <1>4, <1>5, <1>6, <1>7, <1>8, <1>9, <1>10, <1>11, <1>12,
     <1>13, <1>14 DEF Next, Step

(* A step that leaves the directory and the memories alone and takes its     *)
(* process neither to the files nor to its end well keeps the invariant.     *)
LEMMA QuietStep ==
  ASSUME AuthorityInv, TypeOK', NEW p \in Procs,
         NEW label \in Waiting \union {"failed", "stopped"},
         pc' = [pc EXCEPT ![p] = label],
         label \in Waiting => pc[p] \in {"idle"} \union Waiting,
         UNCHANGED <<lockDir, files, memory, broken>>
  PROVE  AuthorityInv'
<1> USE DEF AuthorityInv, TypeOK, files, memory, Waiting, Ended
<1>1. MemoryInv'
  BY DEF MemoryInv
<1>2. LockInv'
  BY DEF LockInv, Holding
<1>3. FilesInv'
  BY DEF FilesInv, OnDisk
<1> QED
  BY <1>1, <1>2, <1>3

(* TryMkdir succeeds when there is no lock: then nobody uses the files.      *)
LEMMA MkdirStep ==
  ASSUME AuthorityInv, TypeOK', NEW p \in Procs, TryMkdir(p)
  PROVE  AuthorityInv'
<1> USE DEF AuthorityInv, TypeOK, TryMkdir, Goto, files, memory
<1>1. CASE lockDir = None
  <2>1. /\ lockDir' # None /\ lockDir'.by = p
        /\ pc' = [pc EXCEPT ![p] = "readCert"]
        /\ UNCHANGED <<certFile, keyFile, lapsed, cert, key, broken>>
    BY <1>1, AuthorityConstants DEF Pairs
  <2>2. ~broken => \A q \in Procs : pc[q] \notin Holding
    BY <1>1 DEF LockInv
  <2>3. MemoryInv'
    BY <2>1 DEF MemoryInv, Ended
  <2>4. LockInv'
    BY <2>1, <2>2 DEF LockInv
  <2>5. FilesInv'
    BY <2>1 DEF FilesInv, OnDisk
  <2> QED
    BY <2>3, <2>4, <2>5
<1>2. CASE lockDir # None
  BY <1>2, QuietStep DEF Waiting
<1> QED
  BY <1>1, <1>2

(* Removing the lock by name leaves the invariant of the holders: either it  *)
(* was nobody else's or it is recorded as broken.                            *)
LEMMA DropStep ==
  ASSUME LockInv, TypeOK, NEW p \in Procs, DropLock(p), pc' = [pc EXCEPT ![p] = pc'[p]],
         pc'[p] \notin Holding
  PROVE  LockInv'
<1> SUFFICES ASSUME ~broken', NEW q \in Procs, pc'[q] \in Holding
             PROVE  lockDir' # None /\ lockDir'.by = q
  BY DEF LockInv
<1>1. q # p /\ pc[q] \in Holding
  BY DEF TypeOK
<1>2. ~broken
  BY DEF DropLock
<1>3. lockDir # None /\ lockDir.by = q
  BY <1>1, <1>2 DEF LockInv
<1> QED
  BY <1>1, <1>3 DEF DropLock

(* The steps of a holder: nobody else uses the files.                        *)
LEMMA HolderSteps ==
  ASSUME AuthorityInv, TypeOK', NEW p \in Procs,
         ReadCert(p) \/ ReadKey(p) \/ PutCert(p) \/ PutKey(p)
  PROVE  AuthorityInv'
<1> USE DEF AuthorityInv, TypeOK, Goto, files, memory
<1>1. pc[p] \in Holding /\ pc' = [pc EXCEPT ![p] = pc'[p]] /\ pc'[p] \in Holding
  BY DEF ReadCert, ReadKey, PutCert, PutKey, Holding
<1>2. UNCHANGED <<lockDir, broken>>
  BY DEF ReadCert, ReadKey, PutCert, PutKey
<1>3. LockInv'
  BY <1>1, <1>2 DEF LockInv
<1>4. ~broken => \A q \in Procs \ {p} : pc'[q] = pc[q] /\ pc[q] \notin Holding
  BY <1>1 DEF LockInv
<1>5. \A q \in Procs : pc'[q] = "ready" => q # p /\ pc[q] = "ready"
  BY <1>1 DEF Holding
<1>6. \A q \in Procs \ {p} : cert'[q] = cert[q] /\ key'[q] = key[q] /\ pc'[q] = pc[q]
  BY <1>1 DEF ReadCert, ReadKey, PutCert, PutKey
<1>7. CASE ReadCert(p)
  <2>1. MemoryInv'
    BY <1>7 DEF ReadCert, MemoryInv, Ended
  <2>2. UNCHANGED <<certFile, keyFile, lapsed, key>>
    BY <1>7 DEF ReadCert
  <2>3. FilesInv'
    <3>1. CASE certFile # None /\ certFile \notin lapsed
      <4>1. pc'[p] = "readKey" /\ cert'[p] = certFile
        BY <1>7, <3>1 DEF ReadCert
      <4> QED
        BY <1>2, <1>4, <1>5, <1>6, <2>2, <4>1 DEF FilesInv, OnDisk, Holding
    <3>2. CASE ~(certFile # None /\ certFile \notin lapsed)
      <4>1. pc'[p] = "putCert" /\ cert' = cert
        BY <1>7, <3>2 DEF ReadCert
      <4>2. ~broken => \A q \in Procs : pc[q] = "ready" => cert[q] \in lapsed
        BY <3>2 DEF FilesInv, OnDisk, MemoryInv
      <4> QED
        BY <1>2, <1>4, <1>5, <1>6, <2>2, <4>1, <4>2 DEF FilesInv, OnDisk, Holding
    <3> QED
      BY <3>1, <3>2
  <2> QED
    BY <1>3, <2>1, <2>3
<1>8. CASE ReadKey(p)
  <2>1. MemoryInv'
    BY <1>8 DEF ReadKey, KeyFits, MemoryInv, Ended
  <2>2. FilesInv'
    BY <1>8, <1>4, <1>5, <1>6 DEF ReadKey, KeyFits, FilesInv, OnDisk, Holding
  <2> QED
    BY <1>3, <2>1, <2>2
<1>9. CASE PutCert(p)
  <2>1. MemoryInv'
    BY <1>9 DEF PutCert, MemoryInv, Ended
  <2>2. key'[p] = None /\ UNCHANGED <<keyFile, lapsed, cert, key>>
    BY <1>9 DEF PutCert, MemoryInv, Ended
  <2>3. ~broken => \A q \in Procs : pc[q] = "ready" => cert[q] \in lapsed
    BY <1>9 DEF PutCert, FilesInv
  <2>4. \/ pc'[p] = "putKey" /\ certFile' = p
        \/ pc'[p] = "unlock" /\ certFile' = certFile
    BY <1>9 DEF PutCert
  <2>5. FilesInv'
    BY <1>2, <1>4, <1>5, <2>2, <2>3, <2>4 DEF FilesInv, OnDisk, Holding
  <2> QED
    BY <1>3, <2>1, <2>5
<1>10. CASE PutKey(p)
  <2>1. MemoryInv'
    BY <1>10 DEF PutKey, MemoryInv, Ended
  <2>2. FilesInv'
    BY <1>10, <1>4, <1>5, <1>6 DEF PutKey, FilesInv, MemoryInv, OnDisk, Holding, Ended
  <2> QED
    BY <1>3, <2>1, <2>2
<1> QED
  BY <1>7, <1>8, <1>9, <1>10

(* The lock is given back with the pair, if there is one, on disk.           *)
LEMMA UnlockStep ==
  ASSUME AuthorityInv, TypeOK', NEW p \in Procs, Unlock(p)
  PROVE  AuthorityInv'
<1> USE DEF AuthorityInv, TypeOK, Goto, files, memory
<1>1. /\ pc[p] = "unlock" /\ pc' = [pc EXCEPT ![p] = pc'[p]]
      /\ pc'[p] = "failed" \/ (pc'[p] = "ready" /\ key[p] # None)
      /\ UNCHANGED <<certFile, keyFile, lapsed, cert, key>>
      /\ broken => broken'
  BY DEF Unlock, DropLock
<1>2. LockInv'
  BY <1>1, DropStep DEF Unlock, Holding
<1>3. MemoryInv'
  BY <1>1 DEF MemoryInv, Ended
<1>4. ~broken => \A q \in Procs \ {p} : pc[q] \notin Holding
  BY <1>1 DEF LockInv, Holding
<1>5. FilesInv'
  BY <1>1, <1>4 DEF FilesInv, OnDisk, Holding
<1> QED
  BY <1>2, <1>3, <1>5

(* Every step keeps the invariant.                                           *)
LEMMA AuthorityNext == AuthorityInv /\ [Next]_vars => AuthorityInv'
<1> SUFFICES ASSUME AuthorityInv, [Next]_vars PROVE AuthorityInv'
  OBVIOUS
<1>1. TypeOK'
  BY TypesKept DEF AuthorityInv
<1>2. CASE UNCHANGED vars
  BY <1>1, <1>2 DEF vars, files, memory, AuthorityInv, MemoryInv, LockInv, FilesInv, OnDisk
<1>3. ASSUME NEW p \in Procs, Begin(p) PROVE AuthorityInv'
  BY <1>1, <1>3, QuietStep DEF Begin, Goto, Waiting, files, memory
<1>4. ASSUME NEW p \in Procs, TryMkdir(p) PROVE AuthorityInv'
  BY <1>1, <1>4, MkdirStep
<1>5. ASSUME NEW p \in Procs, StatLock(p) PROVE AuthorityInv'
  BY <1>1, <1>5, QuietStep DEF StatLock, Goto, Waiting, files, memory
<1>6. ASSUME NEW p \in Procs, RemoveStale(p) PROVE AuthorityInv'
  <2> USE <1>6 DEF AuthorityInv, TypeOK, RemoveStale, Goto, files, memory
  <2>1. LockInv'
    BY DropStep DEF Holding
  <2>2. broken => broken'
    BY DEF DropLock
  <2>3. MemoryInv'
    BY DEF MemoryInv, Ended
  <2>4. FilesInv'
    BY <2>2 DEF FilesInv, OnDisk
  <2> QED
    BY <1>1, <2>1, <2>3, <2>4
<1>7. ASSUME NEW p \in Procs, ReadCert(p) \/ ReadKey(p) \/ PutCert(p) \/ PutKey(p)
      PROVE  AuthorityInv'
  BY <1>1, <1>7, HolderSteps
<1>8. ASSUME NEW p \in Procs, Unlock(p) PROVE AuthorityInv'
  BY <1>1, <1>8, UnlockStep
<1>9. ASSUME NEW p \in Procs, IssueLeaf(p) PROVE AuthorityInv'
  BY <1>1, <1>9 DEF IssueLeaf, files, AuthorityInv, MemoryInv, LockInv, FilesInv, OnDisk
<1>10. ASSUME NEW p \in Procs, Stop(p) PROVE AuthorityInv'
  BY <1>1, <1>10, QuietStep DEF Stop, Goto, Waiting, files, memory
<1>11. CASE Tick
  BY <1>1, <1>11 DEF Tick, files, memory, AuthorityInv, MemoryInv, LockInv, FilesInv, OnDisk
<1>12. CASE Lapse
  BY <1>1, <1>12 DEF Lapse, memory, AuthorityInv, TypeOK, MemoryInv, LockInv, FilesInv, OnDisk
<1> QED
  BY <1>2, <1>3, <1>4, <1>5, <1>6, <1>7, <1>8, <1>9, <1>10, <1>11, <1>12 DEF Next, Step

(* AuthorityOK: types, exclusion, and a ready process signs with the key of  *)
(* the certificate it has, whatever became of the lock.                      *)
THEOREM AuthorityHolds == Spec => []AuthorityOK
<1>1. AuthorityInv => AuthorityOK
  BY OneHolder DEF AuthorityInv, AuthorityOK, MemoryInv
<1> QED
  BY <1>1, AuthorityInit, AuthorityNext, PTL DEF Spec

(* HandedOutIsOnDisk: the certificate a ready process hands to its child is  *)
(* the one on disk, with its key, until it lapses or a lock is broken.       *)
THEOREM HandedOutStays == Spec => []HandedOutIsOnDisk
<1>1. AuthorityInv => HandedOutIsOnDisk
  BY DEF AuthorityInv, HandedOutIsOnDisk, MemoryInv, FilesInv, OnDisk
<1> QED
  BY <1>1, AuthorityInit, AuthorityNext, PTL DEF Spec
=============================================================================
