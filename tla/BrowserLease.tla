---------------------------- MODULE BrowserLease ----------------------------
(***************************************************************************)
(* The lease on the one browser profile (lib/instagram/browserProfileLease *)
(* .ts) and the lock file it is made of (lib/fs/exclusiveFileLock.ts).     *)
(* Every system call on the file is a step, so any other process may run   *)
(* between two of them; a process may be killed at any of them.  A pid is  *)
(* given once: a pid given again would make a dead holder look alive.      *)
(*                                                                         *)
(* The other modules take this lease as one atomic step; this module says  *)
(* what that step is worth.                                                *)
(***************************************************************************)
EXTENDS Naturals, FiniteSets

CONSTANTS
    Pids,        \* the processes of one host, each named by its pid
    Mortal,      \* those that may end or be killed
    MaxAttempts, \* maxReclaimAttempts
    MaxDepth     \* bound: layers of one process holding the lease at once

ASSUME LeaseAssumption ==
    /\ Mortal \subseteq Pids
    /\ "absent" \notin Pids
    /\ MaxAttempts \in Nat \ {0}
    /\ MaxDepth \in Nat \ {0}

VARIABLES
    file,  \* the file that bears the lock's name, if any: who created it,
           \* and whether it has been written
    proc   \* the local state of each process

leaseVars == <<file, proc>>

\* `depth` is the count of the process's entry in `held`; `found` is the
\* holder read from the file; `attempt` the loop's counter.
Process == [ pc      : {"out", "creating", "writing", "reading", "judging", "unlinking",
                        "holding", "rereading", "removing", "dead"},
             found   : Pids \cup {"absent"},
             attempt : 0..MaxAttempts,
             depth   : 0..MaxDepth ]

Outside == [pc |-> "out", found |-> "absent", attempt |-> 0, depth |-> 0]

NoFile == [by |-> "absent", written |-> FALSE]

File == [by : Pids, written : BOOLEAN] \cup {NoFile}

Names(p) == file = [by |-> p, written |-> TRUE]

LeaseInit == file = NoFile /\ proc = [p \in Pids |-> Outside]

In(p, step) == proc[p].pc = step
Alive(p) == proc[p].pc # "dead"
Goto(p, step) == proc' = [proc EXCEPT ![p].pc = step]

-----------------------------------------------------------------------------
(* acquireInstagramBrowserLease, acquireExclusiveFileLock *)

Acquire(p) ==
    /\ In(p, "out")
    /\ proc' = [proc EXCEPT ![p].pc = "creating", ![p].attempt = 1]
    /\ UNCHANGED file

\* The process has the lease already: its table is enough.
AcquireAgain(p) ==
    /\ In(p, "holding")
    /\ proc[p].depth < MaxDepth
    /\ proc' = [proc EXCEPT ![p].depth = @ + 1]
    /\ UNCHANGED file

\* Mutated: an empty file is taken for a free one (O_CREAT without O_EXCL).
Create_Opens(p) ==
    /\ In(p, "creating")
    /\ IF ~file.written
       THEN file' = [by |-> p, written |-> FALSE] /\ Goto(p, "writing")
       ELSE Goto(p, "reading") /\ UNCHANGED file

\* openSync(file, 'wx').
Create(p) ==
    /\ In(p, "creating")
    /\ IF file = NoFile
       THEN file' = [by |-> p, written |-> FALSE] /\ Goto(p, "writing")
       ELSE Goto(p, "reading") /\ UNCHANGED file

\* writeSync writes the file that was created, whether or not it still bears
\* the name.
Write(p) ==
    /\ In(p, "writing")
    /\ file' = IF file.by = p THEN [by |-> p, written |-> TRUE] ELSE file
    /\ proc' = [proc EXCEPT ![p] = [Outside EXCEPT !.pc = "holding", !.depth = 1]]

\* readLockHolder.  A file that is gone or not written yet has no holder,
\* which is ExclusiveFileLockUnreadableError.
Read(p) ==
    /\ In(p, "reading")
    /\ proc' = IF file.written
               THEN [proc EXCEPT ![p].pc = "judging", ![p].found = file.by]
               ELSE [proc EXCEPT ![p] = Outside]
    /\ UNCHANGED file

\* Mutated: a pid that may not be signalled (EPERM) is taken for dead.
JudgeHolder_EpermIsDead(p) ==
    /\ In(p, "judging")
    /\ Goto(p, "unlinking")
    /\ UNCHANGED file

\* Mutated: an old lock is never reclaimed.
JudgeHolder_NeverDead(p) ==
    /\ In(p, "judging")
    /\ proc' = [proc EXCEPT ![p] = Outside]
    /\ UNCHANGED file

\* isPidAlive: a living holder ends the attempt, a dead one is reclaimed.
JudgeHolder(p) ==
    /\ In(p, "judging")
    /\ proc' = IF Alive(proc[p].found)
               THEN [proc EXCEPT ![p] = Outside]
               ELSE [proc EXCEPT ![p].pc = "unlinking"]
    /\ UNCHANGED file

\* Mutated: one attempt too many.
Unlink_OffByOne(p) ==
    /\ In(p, "unlinking")
    /\ file' = NoFile
    /\ proc' = IF proc[p].attempt <= MaxAttempts
               THEN [proc EXCEPT ![p] = [Outside EXCEPT !.pc = "creating",
                                                        !.attempt = proc[p].attempt + 1]]
               ELSE [proc EXCEPT ![p] = Outside]

\* unlinkSync(file) removes whatever bears that name by now; then the loop
\* goes round, or gives up.
Unlink(p) ==
    /\ In(p, "unlinking")
    /\ file' = NoFile
    /\ proc' = IF proc[p].attempt < MaxAttempts
               THEN [proc EXCEPT ![p] = [Outside EXCEPT !.pc = "creating",
                                                        !.attempt = proc[p].attempt + 1]]
               ELSE [proc EXCEPT ![p] = Outside]

-----------------------------------------------------------------------------
(* makeReleaser, releaseExclusiveFileLock *)

Release(p) ==
    /\ In(p, "holding")
    /\ proc' = IF proc[p].depth > 1
               THEN [proc EXCEPT ![p].depth = @ - 1]
               ELSE [proc EXCEPT ![p].pc = "rereading", ![p].depth = 0]
    /\ UNCHANGED file

Reread(p) ==
    /\ In(p, "rereading")
    /\ IF Names(p) THEN Goto(p, "removing") ELSE proc' = [proc EXCEPT ![p] = Outside]
    /\ UNCHANGED file

Remove(p) ==
    /\ In(p, "removing")
    /\ file' = NoFile
    /\ proc' = [proc EXCEPT ![p] = Outside]

-----------------------------------------------------------------------------
\* A process that goes away releases nothing it has not released yet.
Kill(p) ==
    /\ p \in Mortal
    /\ Alive(p)
    /\ proc' = [proc EXCEPT ![p] = [Outside EXCEPT !.pc = "dead"]]
    /\ UNCHANGED file

\* What a process does by itself: the runtimes' loops ask for the profile on
\* every turn and give it back at its end.
Progress(p) ==
    \/ Acquire(p) \/ AcquireAgain(p) \/ Create(p) \/ Write(p) \/ Read(p) \/ JudgeHolder(p)
    \/ Unlink(p) \/ Release(p) \/ Reread(p) \/ Remove(p)

LeaseNext == \E p \in Pids : Progress(p) \/ Kill(p)

LeaseSpec == LeaseInit /\ [][LeaseNext]_leaseVars

\* An operating system runs every process that can run, and no layer keeps
\* the lease for ever: each gives it back in a `finally`.
FairLeaseSpec ==
    /\ LeaseSpec
    /\ \A p \in Pids : /\ WF_leaseVars(Progress(p))
                       /\ SF_leaseVars(proc[p].depth = 1 /\ Release(p))

-----------------------------------------------------------------------------
(* Properties *)

\* Types of the lock file and of the processes.
LeaseTypeOK ==
    /\ file \in File
    /\ proc \in [Pids -> Process]

\* What the header of exclusiveFileLock.ts promises: concurrent access is not
\* made safe but impossible - acquireInstagramBrowserLease has returned in at
\* most one process.
OneHolder == \A p, q \in Pids : In(p, "holding") /\ In(q, "holding") => p = q

NobodyDied == \A p \in Pids : Alive(p)

\* And so it is, whatever the interleaving of creations, writes, reads and
\* removals, until some process dies without releasing.
OneHolderUntilADeath == NobodyDied => OneHolder

\* Until then the file tells the truth while the lease is held, so a refusal
\* names the right process and a release removes its own file and no other.
FileNamesItsHolderUntilADeath ==
    NobodyDied =>
        \A p \in Pids : proc[p].pc \in {"holding", "rereading", "removing"} => Names(p)

\* A process killed while it held the profile does not close it for ever:
\* another one that keeps asking retakes the lock.  (A file whose writer died
\* before its first byte is another matter: it has no holder to prove dead,
\* and stays until someone removes it by hand.)
DeadHolderIsReplaced ==
    \A p \in Pids : (Names(p) /\ In(p, "dead")) ~> ~Names(p)
=============================================================================
