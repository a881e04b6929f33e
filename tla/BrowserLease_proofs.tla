------------------------ MODULE BrowserLease_proofs ------------------------
(***************************************************************************)
(* What the profile lease guarantees for any number of processes: its      *)
(* types, and - until some process dies without releasing - that one       *)
(* process at a time holds it and that the lock file names that process.   *)
(* After a death, two processes may both hold it (OneHolder).              *)
(***************************************************************************)
EXTENDS BrowserLease, TLAPS

\* The loop's counter and the depth of nesting stay in their ranges.
LEMMA CountersStayInRange ==
  /\ 0 \in 0..MaxAttempts /\ 1 \in 0..MaxAttempts
  /\ \A n \in 0..MaxAttempts : n < MaxAttempts => n + 1 \in 0..MaxAttempts
  /\ 0 \in 0..MaxDepth /\ 1 \in 0..MaxDepth
  /\ \A n \in 0..MaxDepth : n < MaxDepth => n + 1 \in 0..MaxDepth
  /\ \A n \in 0..MaxDepth : n > 1 => n - 1 \in 0..MaxDepth
  BY LeaseAssumption DEF LeaseAssumption

\* The lock file and the local states keep their types through every system
\* call of every process, deaths included; in particular the attempts to
\* reclaim a dead lock stay within maxReclaimAttempts.
THEOREM LeaseTypes == LeaseSpec => []LeaseTypeOK
<1>1. LeaseInit => LeaseTypeOK
  BY CountersStayInRange DEF LeaseInit, LeaseTypeOK, File, NoFile, Process, Outside
<1>2. LeaseTypeOK /\ [LeaseNext]_leaseVars => LeaseTypeOK'
  <2> SUFFICES ASSUME file \in File, proc \in [Pids -> Process], [LeaseNext]_leaseVars
               PROVE  file' \in File /\ proc' \in [Pids -> Process]
    BY DEF LeaseTypeOK
  <2>1. file' \in File
    <3> USE DEF File, NoFile
    <3>1. ASSUME NEW p \in Pids, Create(p) PROVE file' \in File
      <4>1. [by |-> p, written |-> FALSE] \in File
        OBVIOUS
      <4>2. file' \in {file, [by |-> p, written |-> FALSE]}
        BY <3>1 DEF Create
      <4> HIDE DEF File
      <4> QED
        BY <4>1, <4>2
    <3>2. ASSUME NEW p \in Pids, Write(p) PROVE file' \in File
      BY <3>2 DEF Write
    <3>3. ASSUME NEW p \in Pids, Unlink(p) \/ Remove(p) PROVE file' \in File
      BY <3>3 DEF Unlink, Remove
    <3> QED
      BY <3>1, <3>2, <3>3 DEF LeaseNext, leaseVars, Progress, Acquire, AcquireAgain, Read,
                              JudgeHolder, Release, Reread, Kill
  <2>2. proc' \in [Pids -> Process]
    <3>0. file.by \in Pids \cup {"absent"}
      BY DEF File, NoFile
    <3> USE CountersStayInRange DEF Process, Outside, In, Goto
    <3>1. CASE UNCHANGED leaseVars
      BY <3>1 DEF leaseVars
    <3>2. ASSUME NEW p \in Pids, Acquire(p) PROVE proc' \in [Pids -> Process]
      <4> DEFINE r == [proc[p] EXCEPT !.pc = "creating", !.attempt = 1]
      <4>1. r \in Process
        BY <3>2
      <4>2. proc' = [proc EXCEPT ![p] = r]
        BY <3>2 DEF Acquire
      <4> HIDE DEF r, Process
      <4> QED
        BY <4>1, <4>2
    <3>3. ASSUME NEW p \in Pids, AcquireAgain(p) PROVE proc' \in [Pids -> Process]
      BY <3>3 DEF AcquireAgain
    <3>4. ASSUME NEW p \in Pids, Create(p) PROVE proc' \in [Pids -> Process]
      BY <3>4 DEF Create
    <3>5. ASSUME NEW p \in Pids, Write(p) PROVE proc' \in [Pids -> Process]
      BY <3>5 DEF Write
    <3>6. ASSUME NEW p \in Pids, Read(p) PROVE proc' \in [Pids -> Process]
      <4>1. ASSUME NEW h \in Pids \cup {"absent"},
                   proc' = [proc EXCEPT ![p].pc = "judging", ![p].found = h]
            PROVE  proc' \in [Pids -> Process]
        BY ZenonT(30), <4>1
      <4> QED
        BY <3>0, <3>6, <4>1 DEF Read
    <3>7. ASSUME NEW p \in Pids, JudgeHolder(p) PROVE proc' \in [Pids -> Process]
      BY <3>7 DEF JudgeHolder
    <3>8. ASSUME NEW p \in Pids, Unlink(p) PROVE proc' \in [Pids -> Process]
      BY <3>8 DEF Unlink
    <3>9. ASSUME NEW p \in Pids, Release(p) PROVE proc' \in [Pids -> Process]
      <4>1. CASE proc[p].depth > 1
        BY <3>9, <4>1 DEF Release
      <4>2. CASE ~(proc[p].depth > 1)
        <5> DEFINE r == [proc[p] EXCEPT !.pc = "rereading", !.depth = 0]
        <5>1. r \in Process
          BY <3>9
        <5>2. proc' = [proc EXCEPT ![p] = r]
          BY <3>9, <4>2 DEF Release
        <5> HIDE DEF r, Process
        <5> QED
          BY <5>1, <5>2
      <4> QED
        BY <4>1, <4>2
    <3>10. ASSUME NEW p \in Pids, Reread(p) PROVE proc' \in [Pids -> Process]
      BY <3>10 DEF Reread
    <3>11. ASSUME NEW p \in Pids, Remove(p) PROVE proc' \in [Pids -> Process]
      BY <3>11 DEF Remove
    <3>12. ASSUME NEW p \in Pids, Kill(p) PROVE proc' \in [Pids -> Process]
      BY <3>12 DEF Kill
    <3> QED
      BY <3>1, <3>2, <3>3, <3>4, <3>5, <3>6, <3>7, <3>8, <3>9, <3>10, <3>11, <3>12
      DEF LeaseNext, Progress
  <2> QED
    BY <2>1, <2>2
<1> QED
  BY <1>1, <1>2, PTL DEF LeaseSpec

-----------------------------------------------------------------------------
\* Between the creation of the file and its removal, the file says who is
\* there: its creator, at first without a word.
FileTellsWho ==
    \A p \in Pids :
        /\ In(p, "writing") => file = [by |-> p, written |-> FALSE]
        /\ proc[p].pc \in {"holding", "rereading", "removing"} => Names(p)

\* Nobody who judges a holder believes it dead.
NobodyIsJudgedDead ==
    \A p \in Pids : /\ In(p, "judging") => proc[p].found \in Pids
                    /\ ~In(p, "unlinking")

QuietLease == NobodyDied => FileTellsWho /\ NobodyIsJudgedDead

LEMMA QuietLeaseInvariant == LeaseSpec => []QuietLease
<1>1. LeaseInit => QuietLease
  BY DEF LeaseInit, QuietLease, FileTellsWho, NobodyIsJudgedDead, Outside, In
<1>2. LeaseTypeOK /\ QuietLease /\ [LeaseNext]_leaseVars => QuietLease'
  <2> SUFFICES ASSUME LeaseTypeOK, QuietLease, [LeaseNext]_leaseVars, NobodyDied'
               PROVE  (FileTellsWho /\ NobodyIsJudgedDead)'
    BY DEF QuietLease
  <2>0. "absent" \notin Pids
    BY LeaseAssumption DEF LeaseAssumption
  <2> USE <2>0 DEF LeaseTypeOK, File, NoFile, Process, Outside, In, Goto, Alive, Names
  <2>1. CASE UNCHANGED leaseVars
    BY <2>1 DEF leaseVars, QuietLease, NobodyDied, FileTellsWho, NobodyIsJudgedDead
  <2>2. NobodyDied /\ FileTellsWho /\ NobodyIsJudgedDead
    <3>1. ASSUME NEW p \in Pids, Progress(p) PROVE NobodyDied
      BY <3>1 DEF NobodyDied, Progress, Acquire, AcquireAgain, Create, Write, Read, JudgeHolder,
                  Unlink, Release, Reread, Remove
    <3>2. ASSUME NEW p \in Pids, Kill(p) PROVE FALSE
      BY <3>2 DEF NobodyDied, Kill
    <3> QED
      BY <3>1, <3>2 DEF QuietLease, NobodyDied, LeaseNext, leaseVars
  <2> USE <2>2 DEF NobodyDied, FileTellsWho, NobodyIsJudgedDead
  <2>3. ASSUME NEW p \in Pids, Acquire(p) PROVE (FileTellsWho /\ NobodyIsJudgedDead)'
    BY <2>3 DEF Acquire
  <2>4. ASSUME NEW p \in Pids, AcquireAgain(p) PROVE (FileTellsWho /\ NobodyIsJudgedDead)'
    BY <2>4 DEF AcquireAgain
  <2>5. ASSUME NEW p \in Pids, Create(p) PROVE (FileTellsWho /\ NobodyIsJudgedDead)'
    BY <2>5 DEF Create
  <2>6. ASSUME NEW p \in Pids, Write(p) PROVE (FileTellsWho /\ NobodyIsJudgedDead)'
    <3>1. file = [by |-> p, written |-> FALSE] /\ file' = [by |-> p, written |-> TRUE]
      BY <2>6 DEF Write
    <3>2. \A q \in Pids \ {p} : proc'[q] = proc[q] /\ file.by # q
      BY <2>6, <3>1 DEF Write
    <3>3. \A q \in Pids \ {p} :
             proc[q].pc \notin {"writing", "holding", "rereading", "removing"}
      BY <3>2
    <3>4. proc'[p].pc = "holding"
      BY <2>6 DEF Write
    <3> QED
      BY <3>1, <3>2, <3>3, <3>4
  <2>7. ASSUME NEW p \in Pids, Read(p) PROVE (FileTellsWho /\ NobodyIsJudgedDead)'
    <3>1. file.written => file.by \in Pids
      BY <2>0
    <3>2. \A q \in Pids \ {p} : proc'[q] = proc[q]
      BY <2>7 DEF Read
    <3>3. \/ proc'[p].pc = "out"
          \/ proc'[p].pc = "judging" /\ proc'[p].found \in Pids
      BY <2>7, <3>1 DEF Read
    <3>4. file' = file
      BY <2>7 DEF Read
    <3> QED
      BY <3>2, <3>3, <3>4
  <2>8. ASSUME NEW p \in Pids, JudgeHolder(p) PROVE (FileTellsWho /\ NobodyIsJudgedDead)'
    BY <2>8 DEF JudgeHolder
  <2>9. ASSUME NEW p \in Pids, Unlink(p) PROVE (FileTellsWho /\ NobodyIsJudgedDead)'
    BY <2>9 DEF Unlink
  <2>10. ASSUME NEW p \in Pids, Release(p) PROVE (FileTellsWho /\ NobodyIsJudgedDead)'
    BY <2>10 DEF Release
  <2>11. ASSUME NEW p \in Pids, Reread(p) PROVE (FileTellsWho /\ NobodyIsJudgedDead)'
    BY <2>11 DEF Reread
  <2>12. ASSUME NEW p \in Pids, Remove(p) PROVE (FileTellsWho /\ NobodyIsJudgedDead)'
    BY <2>12 DEF Remove
  <2>13. ASSUME NEW p \in Pids, Kill(p) PROVE (FileTellsWho /\ NobodyIsJudgedDead)'
    BY <2>13 DEF Kill
  <2> QED
    BY <2>1, <2>3, <2>4, <2>5, <2>6, <2>7, <2>8, <2>9, <2>10, <2>11, <2>12, <2>13
    DEF LeaseNext, Progress
<1> QED
  BY <1>1, <1>2, LeaseTypes, PTL DEF LeaseSpec

\* One process at a time has the profile open, whatever their number, their
\* interleaving and the depth of their nesting, until one of them dies.
THEOREM OneHolderTheorem == LeaseSpec => []OneHolderUntilADeath
<1>1. QuietLease => OneHolderUntilADeath
  BY DEF QuietLease, FileTellsWho, OneHolderUntilADeath, OneHolder, In, Names
<1> QED
  BY <1>1, QuietLeaseInvariant, PTL

\* And the lock file names it, so a refusal blames the right process and a
\* release removes its own lock.
THEOREM FileNamesItsHolderTheorem == LeaseSpec => []FileNamesItsHolderUntilADeath
<1>1. QuietLease => FileNamesItsHolderUntilADeath
  BY DEF QuietLease, FileTellsWho, FileNamesItsHolderUntilADeath
<1> QED
  BY <1>1, QuietLeaseInvariant, PTL
=============================================================================
