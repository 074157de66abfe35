--------------------------- MODULE LocalAuthority ---------------------------
(***************************************************************************)
(* The certificate authority kept in the user's configuration directory    *)
(* (internal/mitm/ca.go).  Several pxpipe processes may start at once:     *)
(* each takes a directory lock, loads the pair of files or writes a new    *)
(* one, and gives the lock back.  A process can stop at any step; the lock *)
(* it leaves is removed by whoever sees it older than StaleAfter.          *)
(*                                                                         *)
(* A pair is named after the process that generated it, OldPair being the  *)
(* one an earlier run left, and that run itself.  The two files are        *)
(* renamed into place one after the other, so the directory can hold       *)
(* halves of two pairs.                                                    *)
(***************************************************************************)
EXTENDS Naturals

CONSTANTS
    Procs,          \* the processes that start
    Hosts,          \* the hosts they are asked certificates for
    OldPair,        \* the pair an earlier run left on disk
    None,           \* no file, no lock, nothing in memory
    WaitFor,        \* how long a caller waits for the lock
    StaleAfter,     \* the age past which a lock is taken for abandoned
    MaxClock        \* bound on the clock

ASSUME AuthorityConstants ==
    /\ OldPair \notin Procs /\ None \notin Procs \union {OldPair}
    /\ None \notin [by : Procs \union {OldPair}, at : Nat]
    /\ WaitFor \in Nat /\ StaleAfter \in Nat /\ MaxClock \in Nat
    /\ WaitFor + 1 < MaxClock

Pairs == Procs \union {OldPair}

VARIABLES
    clock,
    lockDir,        \* the lock directory: who made it and when, or None
    certFile,       \* the pair the certificate on disk belongs to, or None
    keyFile,        \* the pair the private key on disk belongs to, or None
    lapsed,         \* the pairs whose certificate is no longer valid
    pc,
    deadline,
    cert, key,      \* what each process has in memory
    leafs,          \* the hosts each process has issued a certificate for
    broken          \* a lock was removed under a process that was using it

vars == <<clock, lockDir, certFile, keyFile, lapsed, pc, deadline, cert, key,
          leafs, broken>>
files == <<certFile, keyFile, lapsed>>
memory == <<cert, key, leafs>>

Waiting == {"mkdir", "stat", "remove"}
Holding == {"readCert", "readKey", "putCert", "putKey", "unlock"}
Ended == {"ready", "failed", "stopped"}

Locks == [by : Pairs, at : Nat]

\* An earlier run may have left a pair, only its certificate, or its lock.
Init ==
    /\ clock = 0 /\ broken = FALSE
    /\ lockDir \in {None, [by |-> OldPair, at |-> 0]}
    /\ certFile \in {None, OldPair} /\ keyFile \in {None, certFile}
    /\ lapsed \in SUBSET {OldPair}
    /\ pc = [p \in Procs |-> "idle"]
    /\ deadline = [p \in Procs |-> 0]
    /\ cert = [p \in Procs |-> None]
    /\ key = [p \in Procs |-> None]
    /\ leafs = [p \in Procs |-> {}]

Goto(p, label) == pc' = [pc EXCEPT ![p] = label]

-----------------------------------------------------------------------------
(* lockAuthorityDirectory                                                  *)

\* LoadOrCreateAuthority is entered: the wait for the lock has a deadline.
Begin(p) ==
    /\ pc[p] = "idle" /\ clock + WaitFor < MaxClock
    /\ Goto(p, "mkdir")
    /\ deadline' = [deadline EXCEPT ![p] = clock + WaitFor]
    /\ UNCHANGED <<clock, lockDir, files, memory, broken>>

\* os.Mkdir is the lock: it succeeds for one caller at a time.
TryMkdir(p) ==
    /\ pc[p] = "mkdir"
    /\ IF lockDir = None
       THEN lockDir' = [by |-> p, at |-> clock] /\ Goto(p, "readCert")
       ELSE lockDir' = lockDir /\ Goto(p, "stat")
    /\ UNCHANGED <<clock, files, deadline, memory, broken>>

Stale(lock) == lock # None /\ clock - lock.at > StaleAfter

\* Mutant of StatLock: the deadline is forgotten.
StatForever(p) ==
    /\ pc[p] = "stat"
    /\ Goto(p, IF Stale(lockDir) THEN "remove" ELSE "mkdir")
    /\ UNCHANGED <<clock, lockDir, files, deadline, memory, broken>>

\* The directory is looked at: too old and it goes; still young, or gone
\* already, and the caller gives up past its deadline or sleeps and retries.
StatLock(p) ==
    /\ pc[p] = "stat"
    /\ Goto(p, IF Stale(lockDir) THEN "remove"
               ELSE IF clock > deadline[p] THEN "failed" ELSE "mkdir")
    /\ UNCHANGED <<clock, lockDir, files, deadline, memory, broken>>

\* Whatever directory has that name now is removed, whoever made it.
DropLock(p) ==
    /\ lockDir' = None
    /\ broken' = (broken \/ \E q \in Procs \ {p} :
                               lockDir # None /\ lockDir.by = q /\ pc[q] \in Holding)

RemoveStale(p) ==
    /\ pc[p] = "remove"
    /\ DropLock(p) /\ Goto(p, "mkdir")
    /\ UNCHANGED <<clock, files, deadline, memory>>

-----------------------------------------------------------------------------
(* loadAuthority, createAuthority                                          *)

\* The certificate is read and must be valid now; otherwise a pair is made.
ReadCert(p) ==
    /\ pc[p] = "readCert"
    /\ IF certFile # None /\ certFile \notin lapsed
       THEN cert' = [cert EXCEPT ![p] = certFile] /\ Goto(p, "readKey")
       ELSE cert' = cert /\ Goto(p, "putCert")
    /\ UNCHANGED <<clock, lockDir, files, deadline, key, leafs, broken>>

\* Mutant of KeyFits: any key that is there will do.
KeyPresent(p) == keyFile # None

KeyFits(p) == keyFile = cert[p]

\* The key is read and must be the certificate's own.
ReadKey(p) ==
    /\ pc[p] = "readKey"
    /\ IF KeyFits(p)
       THEN key' = [key EXCEPT ![p] = keyFile] /\ Goto(p, "unlock")
       ELSE key' = key /\ Goto(p, "putCert")
    /\ cert' = IF KeyFits(p) THEN cert ELSE [cert EXCEPT ![p] = None]
    /\ UNCHANGED <<clock, lockDir, files, deadline, leafs, broken>>

\* writeFileAtomic: the new certificate replaces the old one in one rename,
\* or an error leaves the old one and the call returns it.
PutCert(p) ==
    /\ pc[p] = "putCert"
    /\ \/ certFile' = p /\ Goto(p, "putKey")
       \/ certFile' = certFile /\ Goto(p, "unlock")
    /\ UNCHANGED <<clock, lockDir, keyFile, lapsed, deadline, memory, broken>>

\* Mutant of PutKey: the error of the second rename is swallowed.
PutKeyRegardless(p) ==
    /\ pc[p] = "putKey"
    /\ keyFile' \in {p, keyFile}
    /\ cert' = [cert EXCEPT ![p] = p] /\ key' = [key EXCEPT ![p] = p]
    /\ Goto(p, "unlock")
    /\ UNCHANGED <<clock, lockDir, certFile, lapsed, deadline, leafs, broken>>

\* The key follows; only then does the process hold the pair.  The chmod
\* after the rename can fail with both files in place.
PutKey(p) ==
    /\ pc[p] = "putKey"
    /\ \/ /\ keyFile' = p
          /\ cert' = [cert EXCEPT ![p] = p] /\ key' = [key EXCEPT ![p] = p]
       \/ keyFile' \in {p, keyFile} /\ UNCHANGED <<cert, key>>
    /\ Goto(p, "unlock")
    /\ UNCHANGED <<clock, lockDir, certFile, lapsed, deadline, leafs, broken>>

\* The deferred unlock runs whether the call succeeded or not.
Unlock(p) ==
    /\ pc[p] = "unlock"
    /\ DropLock(p)
    /\ Goto(p, IF key[p] # None THEN "ready" ELSE "failed")
    /\ UNCHANGED <<clock, files, deadline, memory>>

\* certificateFor: one certificate per host, signed by the pair in memory.
IssueLeaf(p) ==
    /\ pc[p] = "ready"
    /\ \E h \in Hosts \ leafs[p] : leafs' = [leafs EXCEPT ![p] = @ \union {h}]
    /\ UNCHANGED <<clock, lockDir, files, pc, deadline, cert, key, broken>>

-----------------------------------------------------------------------------
(* The environment                                                         *)

Tick ==
    /\ clock < MaxClock
    /\ clock' = clock + 1
    /\ UNCHANGED <<lockDir, files, pc, deadline, memory, broken>>

\* A process stops between two steps; its lock and its half pair stay.
Stop(p) ==
    /\ pc[p] \in Waiting \union Holding
    /\ Goto(p, "stopped")
    /\ UNCHANGED <<clock, lockDir, files, deadline, memory, broken>>

\* The certificate an earlier run left runs out.
Lapse ==
    /\ OldPair \notin lapsed
    /\ lapsed' = {OldPair}
    /\ UNCHANGED <<clock, lockDir, certFile, keyFile, pc, deadline, memory, broken>>

Step(p) ==
    \/ TryMkdir(p) \/ StatLock(p) \/ RemoveStale(p)
    \/ ReadCert(p) \/ ReadKey(p) \/ PutCert(p) \/ PutKey(p) \/ Unlock(p)

Next ==
    \/ \E p \in Procs : Begin(p) \/ Step(p) \/ IssueLeaf(p) \/ Stop(p)
    \/ Tick \/ Lapse

Spec == Init /\ [][Next]_vars

\* A running process takes its next step, and time passes.
FairSpec == Spec /\ WF_vars(Tick) /\ \A p \in Procs : WF_vars(Step(p))

-----------------------------------------------------------------------------
TypeOK ==
    /\ clock \in 0..MaxClock
    /\ lockDir \in Locks \union {None}
    /\ certFile \in Pairs \union {None} /\ keyFile \in Pairs \union {None}
    /\ lapsed \in SUBSET {OldPair}
    /\ pc \in [Procs -> {"idle"} \union Waiting \union Holding \union Ended]
    /\ deadline \in [Procs -> Nat]
    /\ cert \in [Procs -> Pairs \union {None}]
    /\ key \in [Procs -> Pairs \union {None}]
    /\ leafs \in [Procs -> SUBSET Hosts]
    /\ broken \in BOOLEAN

\* Two processes use the directory together only after a lock was removed
\* under the one that held it (ca.go:231 removes by name, and so does the
\* deferred unlock).
LockExcludes ==
    ~broken =>
        \A p, q \in Procs : pc[p] \in Holding /\ pc[q] \in Holding => p = q

\* The certificate file a process hands to its child is the one whose key it
\* signs with, from the moment it is ready and for as long as the pair is
\* valid, whatever other processes start, fail or stop half-way through
\* replacing the two files.
HandedOutIsOnDisk ==
    ~broken =>
        \A p \in Procs :
            pc[p] = "ready" /\ cert[p] \notin lapsed =>
                /\ cert[p] = key[p]
                /\ certFile = cert[p] /\ keyFile = key[p]

\* Every variable has its type, the lock excludes, and a process that is ready
\* to sign has a certificate and that certificate's own key, even if the lock
\* failed it.
AuthorityOK ==
    /\ TypeOK /\ LockExcludes
    /\ \A p \in Procs : pc[p] = "ready" => cert[p] = key[p] /\ cert[p] # None

\* Every call ends, even when the holder of the lock stopped without giving
\* it back: it takes the lock over or reports that it waited too long.
EveryCallEnds ==
    \A p \in Procs : pc[p] = "mkdir" ~> pc[p] \in Ended
=============================================================================
