---------------------------- MODULE ExecutorProofs ----------------------------
(***************************************************************************)
(* Type correctness of Executor, for any orders, processes and bounds, and *)
(* what SUCCESS stands for: the order has a journal batch, whatever        *)
(* overlaps.  One command at a time, SUCCESS is final, and what follows a  *)
(* settlement follows SUCCESS.                                             *)
(***************************************************************************)
EXTENDS Executor, TLAPS

-----------------------------------------------------------------------------
(* Types *)

\* Locations at which a process works on an order.
Working == {"settle", "dedupe", "journal", "leg2", "success", "receipt", "trail", "payout",
            "retry", "fail", "dlq", "action", "rollup", "rollwrite"} \cup ClientPC

\* TypeOK alone is not inductive: the rail's receipt names the current order, so
\* a working process must have one.
TypeInv ==
  /\ TypeOK
  /\ \A p \in Procs : pc[p] \in Working => cur[p] \in Orders

\* Changing one field of a snapshot within its type gives a snapshot.
LEMMA SnapshotType ==
  ASSUME NEW s \in Snapshot
  PROVE  /\ s.status \in Status /\ s.attempts \in 0..MaxAttempts
         /\ Bump(s.attempts) \in 0..MaxAttempts
         /\ \A st \in Status : [s EXCEPT !.status = st] \in Snapshot
         /\ \A n \in 0..MaxAttempts : [s EXCEPT !.attempts = n] \in Snapshot
         /\ \A t \in {"none", "waiting", "due"} : [s EXCEPT !.retryAt = t] \in Snapshot
         /\ \A t \in {"none", "fresh", "expired"} : [s EXCEPT !.since = t] \in Snapshot
BY ExecutorAssumption DEF Snapshot, Bump

\* The initial values and every roll-up are well typed.
LEMMA ConstantType ==
  /\ NoOrder \in Snapshot /\ NewOrder \in Snapshot
  /\ NoCopies \in [Orders -> Snapshot] /\ NoDebits \in [Orders -> Nat]
  /\ \A S : Rollup(S) \in EventStatus
BY ExecutorAssumption DEF Snapshot, NoOrder, NewOrder, NoCopies, NoDebits, Status, Rollup, EventStatus

\* An append keeps the store and the process's copies well typed.
LEMMA UpdateType ==
  ASSUME TypeOK, NEW p \in Procs, NEW o \in Orders, NEW s \in Snapshot, UpdateOrder(p, o, s)
  PROVE  db' \in [Orders -> Snapshot] /\ mem' \in [Procs -> [Orders -> Snapshot]]
BY Zenon DEF TypeOK, UpdateOrder

\* The initial state is well typed.
LEMMA TypeInit == Init => TypeInv
BY ExecutorAssumption, ConstantType, SMTT(40) DEF Init, TypeInv, TypeOK, Working, ClientPC, PassPC,
  EventStatus, Receipt

\* Every step of every process preserves TypeInv.
LEMMA TypeStep == TypeInv /\ [Next]_vars => TypeInv'
<1> SUFFICES ASSUME TypeInv, [Next]_vars PROVE TypeInv'
  OBVIOUS
<1> USE ExecutorAssumption
<1>1. ASSUME NEW p \in Passes, PassOpen(p) PROVE TypeInv'
  BY <1>1, Zenon DEF PassOpen, TypeInv, TypeOK, Working, ClientPC, PassPC, Procs, Goto, store, ghost, local
<1>2. ASSUME NEW p \in Passes, SweepScan(p) PROVE TypeInv'
  BY <1>2, ConstantType, Zenon DEF SweepScan, TypeInv, TypeOK, Working, ClientPC, PassPC, Procs, Goto, Load, store, ghost, local
<1>3. ASSUME NEW p \in Passes, SweepDone(p) PROVE TypeInv'
  BY <1>3, Zenon DEF SweepDone, TypeInv, TypeOK, Working, ClientPC, PassPC, Procs, Goto, store, ghost, local
<1>4. ASSUME NEW p \in Passes, Scan(p) PROVE TypeInv'
  BY <1>4, ConstantType, Zenon DEF Scan, TypeInv, TypeOK, Working, ClientPC, PassPC, Procs, Goto, Load, store, ghost, local
<1>5. ASSUME NEW p \in Passes, PassFinish(p) PROVE TypeInv'
  BY <1>5, ConstantType, Zenon DEF PassFinish, TypeInv, TypeOK, Working, ClientPC, PassPC, Procs, Goto, Forget, Receipt, EventStatus, store, ghost, local
<1>6. ASSUME NEW p \in Passes, Refuse(p) PROVE TypeInv'
  BY <1>6, Zenon DEF Refuse, TypeInv, TypeOK, Working, ClientPC, PassPC, Procs, Goto, store, ghost, local
<1>7. ASSUME NEW p \in Passes, Unavailable(p) PROVE TypeInv'
  BY <1>7, Zenon DEF Unavailable, TypeInv, TypeOK, Working, ClientPC, PassPC, Procs, Goto, store, ghost, local
<1>8. ASSUME NEW p \in Passes, NativePay(p) PROVE TypeInv'
  BY <1>8 DEF NativePay, TypeInv, TypeOK, Working, ClientPC, PassPC, Procs, Goto, Charge, store, ghost, local
<1>9. ASSUME NEW p \in Passes, RemoteSettled(p) PROVE TypeInv'
  BY <1>9 DEF RemoteSettled, TypeInv, TypeOK, Working, ClientPC, PassPC, Procs, Goto, Charge, Receipt, store, ghost, local
<1>10. ASSUME NEW p \in Passes, RemotePending(p) PROVE TypeInv'
  BY <1>10 DEF RemotePending, TypeInv, TypeOK, Working, ClientPC, PassPC, Procs, Goto, Charge, store, ghost, local
<1>11. ASSUME NEW p \in Passes, ReplyLost(p) PROVE TypeInv'
  <2>0. cur[p] \in Orders
    BY <1>11, Zenon DEF ReplyLost, TypeInv, Working, Procs
  <2>1. charges' \in [Orders -> Nat]
    <3>1. charges \in [Orders -> Nat]
      BY Zenon DEF TypeInv, TypeOK
    <3> QED
      BY <1>11, <2>0, <3>1 DEF ReplyLost, Charge
  <2>2. excuse' \in [Orders -> Nat] /\ faults' \in Nat
    <3>1. excuse \in [Orders -> Nat] /\ faults \in Nat
      BY Zenon DEF TypeInv, TypeOK
    <3> QED
      BY <1>11, <2>0, <3>1 DEF ReplyLost, Excuse, Fault
  <2>3. pc' \in [Procs -> {"idle"} \cup PassPC \cup ClientPC] /\ UNCHANGED cur
    BY <1>11, ZenonT(40) DEF ReplyLost, TypeInv, TypeOK, Goto, PassPC
  <2>4. \A q \in Procs : pc'[q] \in Working => cur'[q] \in Orders
    BY <1>11 DEF ReplyLost, TypeInv, TypeOK, Goto, Working
  <2> QED
    BY <1>11, <2>1, <2>2, <2>3, <2>4 DEF ReplyLost, TypeInv, TypeOK, store
<1>12. ASSUME NEW p \in Passes, Dedupe(p) PROVE TypeInv'
  BY <1>12, Zenon DEF Dedupe, TypeInv, TypeOK, Working, ClientPC, PassPC, Procs, Goto, store, ghost, local
<1>13. ASSUME NEW p \in Passes, JournalLeg(p) PROVE TypeInv'
  BY <1>13, SMTT(40) DEF JournalLeg, TypeInv, TypeOK, Working, ClientPC, PassPC, Procs, Goto, store, ghost, local
<1>14. ASSUME NEW p \in Passes, JournalBatch(p) PROVE TypeInv'
  BY <1>14 DEF JournalBatch, TypeInv, TypeOK, Working, ClientPC, PassPC, Procs, Goto, store, ghost, local
<1>15. ASSUME NEW p \in Passes, JournalFails(p) PROVE TypeInv'
  BY <1>15 DEF JournalFails, TypeInv, TypeOK, Working, ClientPC, PassPC, Procs, Goto, Excuse, Fault, store, ghost, local
<1>16. ASSUME NEW p \in Passes, MarkSettled(p) PROVE TypeInv'
  <2>1. cur[p] \in Orders /\ p \in Procs
    BY <1>16, Zenon DEF MarkSettled, TypeInv, Working, ClientPC, Procs
  <2>2. mem[p][cur[p]] \in Snapshot
    BY <2>1 DEF TypeInv, TypeOK
  <2>3. [mem[p][cur[p]] EXCEPT !.status = "Success"] \in Snapshot
    BY <2>2, SnapshotType, Zenon DEF Status
  <2>4. db' \in [Orders -> Snapshot] /\ mem' \in [Procs -> [Orders -> Snapshot]]
    BY <1>16, <2>1, <2>3, UpdateType, Zenon DEF MarkSettled, TypeInv
  <2> QED
    BY <1>16, <2>1, <2>4, Zenon DEF MarkSettled, TypeInv, TypeOK, Working, ClientPC, PassPC, Procs, Goto, store, ghost, local
<1>17. ASSUME NEW p \in Passes, RecordReceipt(p) PROVE TypeInv'
  BY <1>17 DEF RecordReceipt, TypeInv, TypeOK, Working, ClientPC, PassPC, Procs, Goto, Receipt, store, ghost, local
<1>18. ASSUME NEW p \in Passes, Trail(p) PROVE TypeInv'
  BY <1>18, SMTT(40) DEF Trail, TypeInv, TypeOK, Working, ClientPC, PassPC, Procs, Goto, store, ghost, local
<1>19. ASSUME NEW p \in Passes, SpawnPayout(p) PROVE TypeInv'
  <2>1. db' \in [Orders -> Snapshot]
    BY <1>19, ConstantType, Zenon DEF SpawnPayout, TypeInv, TypeOK
  <2> QED
    BY <1>19, <2>1 DEF SpawnPayout, TypeInv, TypeOK, Working, ClientPC, PassPC, Procs, Goto, store, ghost, local
<1>20. ASSUME NEW p \in Passes, ScheduleRetry(p) PROVE TypeInv'
  <2>1. cur[p] \in Orders /\ p \in Procs
    BY <1>20, Zenon DEF ScheduleRetry, TypeInv, Working, ClientPC, Procs
  <2>2. mem[p][cur[p]] \in Snapshot
    BY <2>1 DEF TypeInv, TypeOK
  <2>3. [mem[p][cur[p]] EXCEPT !.status = "Failed", !.retryAt = "waiting"] \in Snapshot
    BY <2>2, ExecutorAssumption, Zenon DEF Snapshot, Status
  <2>4. db' \in [Orders -> Snapshot] /\ mem' \in [Procs -> [Orders -> Snapshot]]
    BY <1>20, <2>1, <2>3, UpdateType, Zenon DEF ScheduleRetry, TypeInv
  <2> QED
    BY <1>20, <2>1, <2>4, Zenon DEF ScheduleRetry, TypeInv, TypeOK, Working, ClientPC, PassPC, Procs, Goto, store, ghost, local
<1>21. ASSUME NEW p \in Passes, RetriesExhausted(p) PROVE TypeInv'
  BY <1>21, Zenon DEF RetriesExhausted, TypeInv, TypeOK, Working, ClientPC, PassPC, Procs, Goto, store, ghost, local
<1>22. ASSUME NEW p \in Passes, MarkFailed(p) PROVE TypeInv'
  <2>1. cur[p] \in Orders /\ p \in Procs
    BY <1>22, Zenon DEF MarkFailed, TypeInv, Working, ClientPC, Procs
  <2>2. mem[p][cur[p]] \in Snapshot
    BY <2>1 DEF TypeInv, TypeOK
  <2>3. [mem[p][cur[p]] EXCEPT !.status = "Failed"] \in Snapshot
    BY <2>2, SnapshotType, Zenon DEF Status
  <2>4. db' \in [Orders -> Snapshot] /\ mem' \in [Procs -> [Orders -> Snapshot]]
    BY <1>22, <2>1, <2>3, UpdateType, Zenon DEF MarkFailed, TypeInv
  <2> QED
    BY <1>22, <2>1, <2>4, Zenon DEF MarkFailed, TypeInv, TypeOK, Working, ClientPC, PassPC, Procs, Goto, store, ghost, local
<1>23. ASSUME NEW p \in Passes, AppendDlq(p) PROVE TypeInv'
  BY <1>23, Zenon DEF AppendDlq, TypeInv, TypeOK, Working, ClientPC, PassPC, Procs, Goto, store, ghost, local
<1>24. ASSUME NEW p \in Passes, AwaitAction(p) PROVE TypeInv'
  <2>1. cur[p] \in Orders /\ p \in Procs
    BY <1>24, Zenon DEF AwaitAction, TypeInv, Working, ClientPC, Procs
  <2>2. mem[p][cur[p]] \in Snapshot
    BY <2>1 DEF TypeInv, TypeOK
  <2>3. [mem[p][cur[p]] EXCEPT !.status = "RequiresAction"] \in Snapshot
    BY <2>2, SnapshotType, Zenon DEF Status
  <2>4. db' \in [Orders -> Snapshot] /\ mem' \in [Procs -> [Orders -> Snapshot]]
    BY <1>24, <2>1, <2>3, UpdateType, Zenon DEF AwaitAction, TypeInv
  <2> QED
    BY <1>24, <2>1, <2>4, Zenon DEF AwaitAction, TypeInv, TypeOK, Working, ClientPC, PassPC, Procs, Goto, store, ghost, local
<1>25. ASSUME NEW p \in Passes, NoEvent(p) PROVE TypeInv'
  BY <1>25, ConstantType, Zenon DEF NoEvent, TypeInv, TypeOK, Working, ClientPC, PassPC, Procs, Goto, NextOrder, Receipt, store, ghost, local
<1>26. ASSUME NEW p \in Passes, RollupRead(p) PROVE TypeInv'
  BY <1>26, ConstantType, Zenon DEF RollupRead, TypeInv, TypeOK, Working, ClientPC, PassPC, Procs, Goto, store, ghost, local
<1>27. ASSUME NEW p \in Passes, RollupWrite(p) PROVE TypeInv'
  <2>1. roll[p] \in EventStatus
    BY Zenon DEF EventStatus, TypeInv, TypeOK, Procs
  <2>2. event' \in [Events -> EventStatus]
    BY <1>27, <2>1, Zenon DEF RollupWrite, TypeInv, TypeOK
  <2>3. "None" \in EventStatus
    BY Zenon DEF EventStatus
  <2> QED
    BY <1>27, <2>2, <2>3, ConstantType, Zenon DEF RollupWrite, TypeInv, TypeOK, Working, ClientPC, PassPC, Procs, Goto, NextOrder, Receipt, store, ghost, local
<1>28. ASSUME NEW p \in Passes, NEW o \in Orders, SweepSkip(p, o) PROVE TypeInv'
  BY <1>28, ConstantType, Zenon DEF SweepSkip, TypeInv, TypeOK, Working, ClientPC, PassPC, Procs, store, ghost, local
<1>29. ASSUME NEW p \in Passes, NEW o \in Orders, SweepRequeue(p, o) PROVE TypeInv'
  <2>1. p \in Procs
    BY Zenon DEF Procs
  <2>2. mem[p][o] \in Snapshot
    BY <2>1 DEF TypeInv, TypeOK
  <2>2a. Bump(mem[p][o].attempts) \in 0..MaxAttempts
    BY <2>2, SnapshotType, Zenon
  <2>3. [status |-> "NotStarted", attempts |-> Bump(mem[p][o].attempts),
         retryAt |-> "none", since |-> "none"] \in Snapshot
    BY <2>2, <2>2a, Zenon DEF Snapshot, Status
  <2>4. db' \in [Orders -> Snapshot] /\ mem' \in [Procs -> [Orders -> Snapshot]]
    BY <1>29, <2>1, <2>3, UpdateType, Zenon DEF SweepRequeue, TypeInv
  <2> QED
    BY <1>29, <2>1, <2>4, Zenon DEF SweepRequeue, TypeInv, TypeOK, Working, ClientPC, PassPC, Procs, Goto, store, ghost, local
<1>30. ASSUME NEW p \in Passes, NEW o \in Orders, SweepDeadLetter(p, o) PROVE TypeInv'
  <2>1. p \in Procs
    BY Zenon DEF Procs
  <2>2. mem[p][o] \in Snapshot
    BY <2>1 DEF TypeInv, TypeOK
  <2>2a. Bump(mem[p][o].attempts) \in 0..MaxAttempts
    BY <2>2, SnapshotType, Zenon
  <2>3. [mem[p][o] EXCEPT !.status = "Failed", !.attempts = Bump(mem[p][o].attempts)] \in Snapshot
    BY <2>2, <2>2a, Zenon DEF Snapshot, Status
  <2>4. db' \in [Orders -> Snapshot] /\ mem' \in [Procs -> [Orders -> Snapshot]]
    BY <1>30, <2>1, <2>3, UpdateType, Zenon DEF SweepDeadLetter, TypeInv
  <2> QED
    BY <1>30, <2>1, <2>4, Zenon DEF SweepDeadLetter, TypeInv, TypeOK, Working, ClientPC, PassPC, Procs, Goto, store, ghost, local
<1>31. ASSUME NEW p \in Passes, NEW o \in Orders, Pick(p, o) PROVE TypeInv'
  <2>1. p \in Procs
    BY Zenon DEF Procs
  <2>2. mem[p][o] \in Snapshot
    BY <2>1 DEF TypeInv, TypeOK
  <2>2a. Bump(mem[p][o].attempts) \in 0..MaxAttempts
    BY <2>2, SnapshotType, Zenon
  <2>3. [mem[p][o] EXCEPT !.status = "Executing", !.since = "fresh",
                                 !.attempts = Bump(@)] \in Snapshot
    BY <2>2, <2>2a, Zenon DEF Snapshot, Status
  <2>4. db' \in [Orders -> Snapshot] /\ mem' \in [Procs -> [Orders -> Snapshot]]
    BY <1>31, <2>1, <2>3, UpdateType, Zenon DEF Pick, TypeInv
  <2> QED
    BY <1>31, <2>1, <2>4, Zenon DEF Pick, TypeInv, TypeOK, Working, ClientPC, PassPC, Procs, Goto, store, ghost, local
<1>32. ASSUME NEW c \in Clients, NEW o \in Orders, CreateOrder(c, o) PROVE TypeInv'
  BY <1>32, ConstantType, Zenon DEF CreateOrder, TypeInv, TypeOK, Working, ClientPC, PassPC, Procs, Goto, store, ghost, local
<1>33. ASSUME NEW c \in Clients, NEW o \in Orders, NEW l \in Commands, LoadOrder(c, o, l) PROVE TypeInv'
  BY <1>33, ConstantType DEF LoadOrder, TypeInv, TypeOK, Working, ClientPC, PassPC, Procs, Goto, store, ghost, local
<1>34. ASSUME NEW c \in Clients, AppendEvent(c) PROVE TypeInv'
  <2>1. "Received" \in EventStatus
    BY Zenon DEF EventStatus, TypeInv, TypeOK, Procs
  <2>2. event' \in [Events -> EventStatus]
    BY <1>34, <2>1, Zenon DEF AppendEvent, TypeInv, TypeOK
  <2>3. "None" \in EventStatus
    BY Zenon DEF EventStatus
  <2> QED
    BY <1>34, <2>2, <2>3, ConstantType, Zenon DEF AppendEvent, TypeInv, TypeOK, Working, ClientPC, PassPC, Procs, Goto, Forget, Receipt, store, ghost, local
<1>35. ASSUME NEW c \in Clients, Requeue(c) PROVE TypeInv'
  <2>1. cur[c] \in Orders /\ c \in Procs
    BY <1>35, Zenon DEF Requeue, TypeInv, Working, ClientPC, Procs
  <2>2. mem[c][cur[c]] \in Snapshot
    BY <2>1 DEF TypeInv, TypeOK
  <2>3. db' \in [Orders -> Snapshot]
    <3> DEFINE s == [status |-> "NotStarted",
                     attempts |-> IF pc[c] = "retrying" THEN Bump(mem[c][cur[c]].attempts)
                                                        ELSE mem[c][cur[c]].attempts,
                     retryAt |-> "none",
                     since |-> IF pc[c] = "settled" THEN "none" ELSE mem[c][cur[c]].since]
    <3>1. db' = [db EXCEPT ![cur[c]] = s]
      BY <1>35, Zenon DEF Requeue
    <3>2. s.attempts \in 0..MaxAttempts
      BY <2>2, SnapshotType, Zenon
    <3>3. s.since \in {"none", "fresh", "expired"}
      BY <2>2, Zenon DEF Snapshot
    <3>4. s \in Snapshot
      BY <3>2, <3>3, Zenon DEF Snapshot, Status
    <3> HIDE DEF s
    <3> QED
      BY <3>1, <3>4, Zenon DEF TypeInv, TypeOK
  <2>4. excuse' \in [Orders -> Nat] /\ letter' \in [Orders -> {"none", "dead", "requeued"}]
    <3>1. excuse \in [Orders -> Nat] /\ letter \in [Orders -> {"none", "dead", "requeued"}]
      BY Zenon DEF TypeInv, TypeOK
    <3>2. excuse' = [excuse EXCEPT ![cur[c]] = @ + 1]
      BY <1>35, Zenon DEF Requeue, Excuse
    <3>3. letter' = [letter EXCEPT ![cur[c]] = IF @ = "dead" THEN "requeued" ELSE @]
      BY <1>35, Zenon DEF Requeue
    <3> QED
      BY <2>1, <3>1, <3>2, <3>3
  <2>5. "None" \in EventStatus
    BY Zenon DEF EventStatus
  <2> QED
    BY <1>35, <2>3, <2>4, <2>5, ConstantType, Zenon DEF Requeue, Forget, Goto, TypeInv, TypeOK, Working, ClientPC, PassPC, Procs, Receipt, store, ghost, local
<1>36. ASSUME NEW c \in Clients, HookFailed(c) PROVE TypeInv'
  <2>1. cur[c] \in Orders /\ c \in Procs
    BY <1>36, Zenon DEF HookFailed, TypeInv, Working, ClientPC, Procs
  <2>2. mem[c][cur[c]] \in Snapshot
    BY <2>1 DEF TypeInv, TypeOK
  <2>3. [mem[c][cur[c]] EXCEPT !.status = "Failed"] \in Snapshot
    BY <2>2, SnapshotType, Zenon DEF Status
  <2>4. db' \in [Orders -> Snapshot] /\ mem' \in [Procs -> [Orders -> Snapshot]]
    BY <1>36, <2>1, <2>3, UpdateType, Zenon DEF HookFailed, TypeInv
  <2>5. excuse' \in [Orders -> Nat]
    <3>1. excuse \in [Orders -> Nat]
      BY Zenon DEF TypeInv, TypeOK
    <3> QED
      BY <1>36, <2>1, <3>1 DEF HookFailed, Excuse
  <2> QED
    BY <1>36, <2>1, <2>4, <2>5, Zenon DEF HookFailed, TypeInv, TypeOK, Working, ClientPC, PassPC, Procs, Goto, store, ghost, local
<1>37. ASSUME NEW c \in Clients, HookDlq(c) PROVE TypeInv'
  BY <1>37, ConstantType, Zenon DEF HookDlq, TypeInv, TypeOK, Working, ClientPC, PassPC, Procs, Goto, Forget, Receipt, EventStatus, store, ghost, local
<1>38. ASSUME NEW o \in Orders, DeadlinePasses(o) PROVE TypeInv'
  <2>1. db' = [db EXCEPT ![o] = [db[o] EXCEPT !.retryAt = "due"]]
    BY <1>38, Zenon DEF DeadlinePasses
  <2>2. db' \in [Orders -> Snapshot]
    BY <2>1, SnapshotType, Zenon DEF TypeInv, TypeOK
  <2> QED
    BY <1>38, <2>2, Zenon DEF DeadlinePasses, TypeInv, TypeOK, Working, ClientPC, PassPC, Procs, store, ghost, local
<1>39. ASSUME NEW o \in Orders, TtlPasses(o) PROVE TypeInv'
  <2>1. db' = [db EXCEPT ![o] = [db[o] EXCEPT !.since = "expired"]]
    BY <1>39, Zenon DEF TtlPasses
  <2>2. db' \in [Orders -> Snapshot]
    BY <2>1, SnapshotType, ZenonT(40) DEF TypeInv, TypeOK
  <2> QED
    BY <1>39, <2>2, Zenon DEF TtlPasses, TypeInv, TypeOK, Working, ClientPC, PassPC, Procs, store, ghost, local
<1>40. ASSUME NEW p \in Procs, Crash(p) PROVE TypeInv'
  BY <1>40, ConstantType DEF Crash, TypeInv, TypeOK, Working, ClientPC, PassPC, Procs, Goto, Forget, Fault, Receipt, EventStatus, store, ghost, local
<1>41. CASE UNCHANGED vars
  BY <1>41, Zenon DEF vars, store, ghost, local, TypeInv, TypeOK, Working, ClientPC
<1> QED
  BY <1>1, <1>2, <1>3, <1>4, <1>5, <1>6, <1>7, <1>8, <1>9, <1>10, <1>11, <1>12, <1>13, <1>14, <1>15, <1>16, <1>17, <1>18, <1>19, <1>20, <1>21, <1>22, <1>23, <1>24, <1>25, <1>26, <1>27, <1>28, <1>29, <1>30, <1>31, <1>32, <1>33, <1>34, <1>35, <1>36, <1>37, <1>38, <1>39, <1>40, <1>41, Zenon
  DEF Next, PassStep, SweepStep, RailStep, OutcomeStep, ClientStart, ClientStep

\* TypeOK is an invariant: every append, crash and requeue keeps the store, the
\* wallet and the processes' copies well typed.
THEOREM TypeCorrect == Spec => []TypeOK
<1>1. TypeInv => TypeOK
  BY ZenonT(40) DEF TypeInv
<1> QED
  BY <1>1, TypeInit, TypeStep, PTL DEF Spec

-----------------------------------------------------------------------------
(* SUCCESS is journaled *)

\* SettledIsJournaled alone is not inductive: a process writes SUCCESS from its
\* location and back from its copies, so these have their batch already.
JournalInv ==
  /\ SettledIsJournaled
  /\ \A p \in Procs, o \in Orders : mem[p][o].status = "Success" => batches[o] >= 1
  /\ \A p \in Procs : pc[p] = "success" => batches[cur[p]] >= 1

\* JournalInv is preserved: no step writes SUCCESS without a batch or removes one.
LEMMA JournalStep == TypeInv /\ JournalInv /\ [Next]_vars => JournalInv'
<1> SUFFICES ASSUME TypeInv, JournalInv, [Next]_vars PROVE JournalInv'
  OBVIOUS
<1>1. ASSUME NEW p \in Passes, PassOpen(p) PROVE JournalInv'
  BY <1>1, Zenon DEF PassOpen, JournalInv, SettledIsJournaled, TypeInv, TypeOK, Working, ClientPC, Procs, Goto, store, ghost, local
<1>2. ASSUME NEW p \in Passes, SweepScan(p) PROVE JournalInv'
  BY <1>2, Zenon DEF SweepScan, JournalInv, SettledIsJournaled, TypeInv, TypeOK, Working, ClientPC, Procs, Goto, Load, NoOrder, store, ghost, local
<1>3. ASSUME NEW p \in Passes, SweepDone(p) PROVE JournalInv'
  BY <1>3, Zenon DEF SweepDone, JournalInv, SettledIsJournaled, TypeInv, TypeOK, Working, ClientPC, Procs, Goto, store, ghost, local
<1>4. ASSUME NEW p \in Passes, Scan(p) PROVE JournalInv'
  BY <1>4, Zenon DEF Scan, JournalInv, SettledIsJournaled, TypeInv, TypeOK, Working, ClientPC, Procs, Goto, Load, NoOrder, store, ghost, local
<1>5. ASSUME NEW p \in Passes, PassFinish(p) PROVE JournalInv'
  BY <1>5, Zenon DEF PassFinish, JournalInv, SettledIsJournaled, TypeInv, TypeOK, Working, ClientPC, Procs, Goto, Forget, NoCopies, NoOrder, store, ghost, local
<1>6. ASSUME NEW p \in Passes, Refuse(p) PROVE JournalInv'
  BY <1>6, Zenon DEF Refuse, JournalInv, SettledIsJournaled, TypeInv, TypeOK, Working, ClientPC, Procs, Goto, store, ghost, local
<1>7. ASSUME NEW p \in Passes, Unavailable(p) PROVE JournalInv'
  BY <1>7, Zenon DEF Unavailable, JournalInv, SettledIsJournaled, TypeInv, TypeOK, Working, ClientPC, Procs, Goto, store, ghost, local
<1>8. ASSUME NEW p \in Passes, NativePay(p) PROVE JournalInv'
  BY <1>8, Zenon DEF NativePay, JournalInv, SettledIsJournaled, TypeInv, TypeOK, Working, ClientPC, Procs, Goto, store, ghost, local
<1>9. ASSUME NEW p \in Passes, RemoteSettled(p) PROVE JournalInv'
  BY <1>9, Zenon DEF RemoteSettled, JournalInv, SettledIsJournaled, TypeInv, TypeOK, Working, ClientPC, Procs, Goto, store, ghost, local
<1>10. ASSUME NEW p \in Passes, RemotePending(p) PROVE JournalInv'
  BY <1>10, Zenon DEF RemotePending, JournalInv, SettledIsJournaled, TypeInv, TypeOK, Working, ClientPC, Procs, Goto, store, ghost, local
<1>11. ASSUME NEW p \in Passes, ReplyLost(p) PROVE JournalInv'
  BY <1>11, Zenon DEF ReplyLost, JournalInv, SettledIsJournaled, TypeInv, TypeOK, Working, ClientPC, Procs, Goto, store, ghost, local
<1>12. ASSUME NEW p \in Passes, Dedupe(p) PROVE JournalInv'
  BY <1>12, Zenon DEF Dedupe, JournalInv, SettledIsJournaled, TypeInv, TypeOK, Working, ClientPC, Procs, Goto, store, ghost, local
<1>13. ASSUME NEW p \in Passes, JournalLeg(p) PROVE JournalInv'
  BY <1>13, Zenon DEF JournalLeg, JournalInv, SettledIsJournaled, TypeInv, TypeOK, Working, ClientPC, Procs, Goto, store, ghost, local
<1>14. ASSUME NEW p \in Passes, JournalBatch(p) PROVE JournalInv'
  BY <1>14 DEF JournalBatch, JournalInv, SettledIsJournaled, TypeInv, TypeOK, Working, ClientPC, Procs, Goto, store, ghost, local
<1>15. ASSUME NEW p \in Passes, JournalFails(p) PROVE JournalInv'
  BY <1>15, Zenon DEF JournalFails, JournalInv, SettledIsJournaled, TypeInv, TypeOK, Working, ClientPC, Procs, Goto, store, ghost, local
<1>16. ASSUME NEW p \in Passes, MarkSettled(p) PROVE JournalInv'
  BY <1>16, Zenon DEF MarkSettled, JournalInv, SettledIsJournaled, TypeInv, TypeOK, Working, ClientPC, Procs, Goto, UpdateOrder, store, ghost, local
<1>17. ASSUME NEW p \in Passes, RecordReceipt(p) PROVE JournalInv'
  BY <1>17, Zenon DEF RecordReceipt, JournalInv, SettledIsJournaled, TypeInv, TypeOK, Working, ClientPC, Procs, Goto, store, ghost, local
<1>18. ASSUME NEW p \in Passes, Trail(p) PROVE JournalInv'
  BY <1>18, Zenon DEF Trail, JournalInv, SettledIsJournaled, TypeInv, TypeOK, Working, ClientPC, Procs, Goto, store, ghost, local
<1>19. ASSUME NEW p \in Passes, SpawnPayout(p) PROVE JournalInv'
  BY <1>19, Zenon DEF SpawnPayout, JournalInv, SettledIsJournaled, TypeInv, TypeOK, Working, ClientPC, Procs, Goto, NewOrder, NoOrder, store, ghost, local
<1>20. ASSUME NEW p \in Passes, ScheduleRetry(p) PROVE JournalInv'
  BY <1>20 DEF ScheduleRetry, JournalInv, SettledIsJournaled, TypeInv, TypeOK, Working, ClientPC, Procs, Goto, UpdateOrder, store, ghost, local
<1>21. ASSUME NEW p \in Passes, RetriesExhausted(p) PROVE JournalInv'
  BY <1>21, Zenon DEF RetriesExhausted, JournalInv, SettledIsJournaled, TypeInv, TypeOK, Working, ClientPC, Procs, Goto, store, ghost, local
<1>22. ASSUME NEW p \in Passes, MarkFailed(p) PROVE JournalInv'
  BY <1>22 DEF MarkFailed, JournalInv, SettledIsJournaled, TypeInv, TypeOK, Working, ClientPC, Procs, Goto, UpdateOrder, store, ghost, local
<1>23. ASSUME NEW p \in Passes, AppendDlq(p) PROVE JournalInv'
  BY <1>23, Zenon DEF AppendDlq, JournalInv, SettledIsJournaled, TypeInv, TypeOK, Working, ClientPC, Procs, Goto, store, ghost, local
<1>24. ASSUME NEW p \in Passes, AwaitAction(p) PROVE JournalInv'
  BY <1>24 DEF AwaitAction, JournalInv, SettledIsJournaled, TypeInv, TypeOK, Working, ClientPC, Procs, Goto, UpdateOrder, store, ghost, local
<1>25. ASSUME NEW p \in Passes, NoEvent(p) PROVE JournalInv'
  BY <1>25, Zenon DEF NoEvent, JournalInv, SettledIsJournaled, TypeInv, TypeOK, Working, ClientPC, Procs, Goto, NextOrder, NoOrder, store, ghost, local
<1>26. ASSUME NEW p \in Passes, RollupRead(p) PROVE JournalInv'
  BY <1>26, Zenon DEF RollupRead, JournalInv, SettledIsJournaled, TypeInv, TypeOK, Working, ClientPC, Procs, Goto, store, ghost, local
<1>27. ASSUME NEW p \in Passes, RollupWrite(p) PROVE JournalInv'
  BY <1>27, Zenon DEF RollupWrite, JournalInv, SettledIsJournaled, TypeInv, TypeOK, Working, ClientPC, Procs, Goto, NextOrder, NoOrder, store, ghost, local
<1>28. ASSUME NEW p \in Passes, NEW o \in Orders, SweepSkip(p, o) PROVE JournalInv'
  BY <1>28, Zenon DEF SweepSkip, JournalInv, SettledIsJournaled, TypeInv, TypeOK, Working, ClientPC, Procs, NoOrder, store, ghost, local
<1>29. ASSUME NEW p \in Passes, NEW o \in Orders, SweepRequeue(p, o) PROVE JournalInv'
  BY <1>29, Zenon DEF SweepRequeue, JournalInv, SettledIsJournaled, TypeInv, TypeOK, Working, ClientPC, Procs, Goto, UpdateOrder, store, ghost, local
<1>30. ASSUME NEW p \in Passes, NEW o \in Orders, SweepDeadLetter(p, o) PROVE JournalInv'
  BY <1>30 DEF SweepDeadLetter, JournalInv, SettledIsJournaled, TypeInv, TypeOK, Working, ClientPC, Procs, Goto, UpdateOrder, store, ghost, local
<1>31. ASSUME NEW p \in Passes, NEW o \in Orders, Pick(p, o) PROVE JournalInv'
  BY <1>31 DEF Pick, JournalInv, SettledIsJournaled, TypeInv, TypeOK, Working, ClientPC, Procs, Goto, UpdateOrder, store, ghost, local
<1>32. ASSUME NEW c \in Clients, NEW o \in Orders, CreateOrder(c, o) PROVE JournalInv'
  BY <1>32, ZenonT(40) DEF CreateOrder, JournalInv, SettledIsJournaled, TypeInv, TypeOK, Working, ClientPC, Procs, Goto, NewOrder, NoOrder, store, ghost, local
<1>33. ASSUME NEW c \in Clients, NEW o \in Orders, NEW l \in Commands, LoadOrder(c, o, l) PROVE JournalInv'
  BY <1>33, ExecutorAssumption DEF LoadOrder, JournalInv, SettledIsJournaled, TypeInv, TypeOK, Working, ClientPC, Procs, Goto, store, ghost, local
<1>34. ASSUME NEW c \in Clients, AppendEvent(c) PROVE JournalInv'
  BY <1>34, Zenon DEF AppendEvent, JournalInv, SettledIsJournaled, TypeInv, TypeOK, Working, ClientPC, Procs, Goto, Forget, NoCopies, NoOrder, store, ghost, local
<1>35. ASSUME NEW c \in Clients, Requeue(c) PROVE JournalInv'
  BY <1>35, Zenon DEF Requeue, JournalInv, SettledIsJournaled, TypeInv, TypeOK, Working, ClientPC, Procs, Goto, Forget, NoCopies, NoOrder, store, ghost, local
<1>36. ASSUME NEW c \in Clients, HookFailed(c) PROVE JournalInv'
  BY <1>36 DEF HookFailed, JournalInv, SettledIsJournaled, TypeInv, TypeOK, Working, ClientPC, Procs, Goto, UpdateOrder, store, ghost, local
<1>37. ASSUME NEW c \in Clients, HookDlq(c) PROVE JournalInv'
  BY <1>37, Zenon DEF HookDlq, JournalInv, SettledIsJournaled, TypeInv, TypeOK, Working, ClientPC, Procs, Goto, Forget, NoCopies, NoOrder, store, ghost, local
<1>38. ASSUME NEW o \in Orders, DeadlinePasses(o) PROVE JournalInv'
  BY <1>38 DEF DeadlinePasses, JournalInv, SettledIsJournaled, TypeInv, TypeOK, Working, ClientPC, Procs, store, ghost, local
<1>39. ASSUME NEW o \in Orders, TtlPasses(o) PROVE JournalInv'
  BY <1>39 DEF TtlPasses, JournalInv, SettledIsJournaled, TypeInv, TypeOK, Working, ClientPC, Procs, store, ghost, local
<1>40. ASSUME NEW p \in Procs, Crash(p) PROVE JournalInv'
  BY <1>40, Zenon DEF Crash, JournalInv, SettledIsJournaled, TypeInv, TypeOK, Working, ClientPC, Procs, Goto, Forget, NoCopies, NoOrder, store, ghost, local
<1>41. CASE UNCHANGED vars
  BY <1>41, Zenon DEF vars, store, ghost, local, JournalInv, SettledIsJournaled
<1> QED
  BY <1>1, <1>2, <1>3, <1>4, <1>5, <1>6, <1>7, <1>8, <1>9, <1>10, <1>11, <1>12, <1>13, <1>14, <1>15, <1>16, <1>17, <1>18, <1>19, <1>20, <1>21, <1>22, <1>23, <1>24, <1>25, <1>26, <1>27, <1>28, <1>29, <1>30, <1>31, <1>32, <1>33, <1>34, <1>35, <1>36, <1>37, <1>38, <1>39, <1>40, <1>41, Zenon
  DEF Next, PassStep, SweepStep, RailStep, OutcomeStep, ClientStart, ClientStep

\* SettledIsJournaled for any number of overlapping passes and commands: an order
\* that reads SUCCESS has a complete journal batch (journal before SUCCESS in
\* every settle_* function, and SUCCESS is only copied from SUCCESS).
THEOREM SettledHasBatch == Spec => []SettledIsJournaled
<1>1. Init => JournalInv
  BY DEF Init, JournalInv, SettledIsJournaled, NoOrder, NoCopies
<1>2. JournalInv => SettledIsJournaled
  BY Zenon DEF JournalInv
<1> QED
  BY <1>1, <1>2, TypeInit, TypeStep, JournalStep, PTL DEF Spec

-----------------------------------------------------------------------------
(* SUCCESS is final *)

\* Locations at which a process will write its copy of an unsettled order.
Writing == {"settle", "dedupe", "journal", "leg2", "success", "retry", "fail", "action",
            "retrying", "resuming", "settled", "failed"}

\* Statuses of an order whose payment went out.
PaidStatus == {"Success", "RequiresAction"}

\* At most one process runs, and what it has still to write is not settled; what
\* a pass has still to write does not wait for its rail either.
SerialInv ==
  /\ \A p, q \in Procs : p # q => pc[p] = "idle" \/ pc[q] = "idle"
  /\ \A p \in Procs : pc[p] = "idle" => todo[p] = {}
  /\ \A p \in Procs : pc[p] \notin Working => cur[p] = None
  /\ \A p \in Procs : cur[p] \notin todo[p]
  /\ \A p \in Procs : \A o \in todo[p] : db[o].status \notin PaidStatus
  /\ \A p \in Procs : pc[p] \in Writing => db[cur[p]].status # "Success"
  /\ \A p \in Procs : pc[p] \in Writing \ ClientPC => db[cur[p]].status \notin PaidStatus

\* p is the only process that runs, and what it has still to write after the step
\* is not settled.
SerialMove(p) ==
  /\ \A q \in Procs \ {p} : /\ pc[q] = "idle" /\ pc'[q] = "idle"
                             /\ cur'[q] = cur[q] /\ todo'[q] = todo[q]
  /\ pc'[p] = "idle" => todo'[p] = {}
  /\ pc'[p] \notin Working => cur'[p] = None
  /\ cur'[p] \notin todo'[p]
  /\ \A o \in todo'[p] : db'[o].status \notin PaidStatus
  /\ pc'[p] \in Writing => db'[cur'[p]].status # "Success"
  /\ pc'[p] \in Writing \ ClientPC => db'[cur'[p]].status \notin PaidStatus

\* A SerialMove preserves SerialInv.
LEMMA SerialMoves ==
  ASSUME SerialInv, NEW p \in Procs, SerialMove(p)
  PROVE  SerialInv'
BY SMTT(40) DEF SerialInv, SerialMove, Writing, PaidStatus, Working, ClientPC

\* One command at a time, every step is a SerialMove or leaves the processes alone.
LEMMA SerialStep ==
  ASSUME Overlap = FALSE
  PROVE  TypeInv /\ SerialInv /\ [Next]_vars => SerialInv'
<1> SUFFICES ASSUME TypeInv, SerialInv, [Next]_vars PROVE SerialInv'
  OBVIOUS
<1> None \notin Orders
  BY ExecutorAssumption, Zenon
<1>1. ASSUME NEW p \in Passes, PassOpen(p) PROVE SerialInv'
  <2>1. SerialMove(p)
    BY <1>1, Zenon DEF PassOpen, SerialMove, SerialInv, TypeInv, TypeOK, Working, Writing, PaidStatus, ClientPC, Procs, Goto, CanStart, store, ghost, local
  <2> QED
    BY <2>1, SerialMoves, Zenon DEF Procs
<1>2. ASSUME NEW p \in Passes, SweepScan(p) PROVE SerialInv'
  <2>1. SerialMove(p)
    BY <1>2, ZenonT(40) DEF SweepScan, SerialMove, SerialInv, TypeInv, TypeOK, Working, Writing, PaidStatus, ClientPC, Procs, Goto, Load, store, ghost, local
  <2> QED
    BY <2>1, SerialMoves, Zenon DEF Procs
<1>3. ASSUME NEW p \in Passes, SweepDone(p) PROVE SerialInv'
  <2>1. SerialMove(p)
    BY <1>3, Zenon DEF SweepDone, SerialMove, SerialInv, TypeInv, TypeOK, Working, Writing, PaidStatus, ClientPC, Procs, Goto, store, ghost, local
  <2> QED
    BY <2>1, SerialMoves, Zenon DEF Procs
<1>4. ASSUME NEW p \in Passes, Scan(p) PROVE SerialInv'
  <2>1. todo'[p] \subseteq Orders /\ cur'[p] = None /\ pc'[p] = "pick"
    BY <1>4, Zenon DEF Scan, SerialInv, TypeInv, TypeOK, Working, ClientPC, Procs, Goto, Load
  <2>2. \A o \in todo'[p] : db'[o].status \notin PaidStatus
    BY <1>4, Zenon DEF Scan, PaidStatus, TypeInv, TypeOK, Procs, Load, store
  <2>3. \A q \in Procs : q # p => UNCHANGED <<todo[q], cur[q], pc[q]>>
    BY <1>4, Zenon DEF Scan, TypeInv, TypeOK, Procs, Goto, Load
  <2> QED
    BY <1>4, <2>1, <2>2, <2>3 DEF Scan, SerialInv, Working, Writing, PaidStatus, ClientPC, store
<1>5. ASSUME NEW p \in Passes, PassFinish(p) PROVE SerialInv'
  <2>1. SerialMove(p)
    BY <1>5, Zenon DEF PassFinish, SerialMove, SerialInv, TypeInv, TypeOK, Working, Writing, PaidStatus, ClientPC, Procs, Goto, Forget, store, ghost, local
  <2> QED
    BY <2>1, SerialMoves, Zenon DEF Procs
<1>6. ASSUME NEW p \in Passes, Refuse(p) PROVE SerialInv'
  <2>1. SerialMove(p)
    BY <1>6, Zenon DEF Refuse, SerialMove, SerialInv, TypeInv, TypeOK, Working, Writing, PaidStatus, ClientPC, Procs, Goto, store, ghost, local
  <2> QED
    BY <2>1, SerialMoves, Zenon DEF Procs
<1>7. ASSUME NEW p \in Passes, Unavailable(p) PROVE SerialInv'
  <2>1. SerialMove(p)
    BY <1>7, Zenon DEF Unavailable, SerialMove, SerialInv, TypeInv, TypeOK, Working, Writing, PaidStatus, ClientPC, Procs, Goto, store, ghost, local
  <2> QED
    BY <2>1, SerialMoves, Zenon DEF Procs
<1>8. ASSUME NEW p \in Passes, NativePay(p) PROVE SerialInv'
  <2>1. /\ UNCHANGED <<db, todo, cur>> /\ pc[p] = "settle" /\ pc'[p] = "journal"
        /\ \A q \in Procs : q # p => pc'[q] = pc[q]
    BY <1>8, Zenon DEF NativePay, TypeInv, TypeOK, Procs, Goto, store
  <2> QED
    BY <2>1 DEF SerialInv, Working, Writing, PaidStatus, ClientPC, Procs
<1>9. ASSUME NEW p \in Passes, RemoteSettled(p) PROVE SerialInv'
  <2>1. SerialMove(p)
    BY <1>9, Zenon DEF RemoteSettled, SerialMove, SerialInv, TypeInv, TypeOK, Working, Writing, PaidStatus, ClientPC, Procs, Goto, store, ghost, local
  <2> QED
    BY <2>1, SerialMoves, Zenon DEF Procs
<1>10. ASSUME NEW p \in Passes, RemotePending(p) PROVE SerialInv'
  <2>1. SerialMove(p)
    BY <1>10, Zenon DEF RemotePending, SerialMove, SerialInv, TypeInv, TypeOK, Working, Writing, PaidStatus, ClientPC, Procs, Goto, store, ghost, local
  <2> QED
    BY <2>1, SerialMoves, Zenon DEF Procs
<1>11. ASSUME NEW p \in Passes, ReplyLost(p) PROVE SerialInv'
  <2>1. PICK l \in {"retry", "fail"} : Goto(p, l)
    BY <1>11, Zenon DEF ReplyLost
  <2>2. UNCHANGED <<db, cur, todo>> /\ pc[p] = "settle"
    BY <1>11, Zenon DEF ReplyLost, store
  <2> QED
    BY <2>1, <2>2 DEF SerialInv, TypeInv, TypeOK, Working, Writing, PaidStatus, ClientPC, Procs, Goto
<1>12. ASSUME NEW p \in Passes, Dedupe(p) PROVE SerialInv'
  <2>1. SerialMove(p)
    BY <1>12, Zenon DEF Dedupe, SerialMove, SerialInv, TypeInv, TypeOK, Working, Writing, PaidStatus, ClientPC, Procs, Goto, store, ghost, local
  <2> QED
    BY <2>1, SerialMoves, Zenon DEF Procs
<1>13. ASSUME NEW p \in Passes, JournalLeg(p) PROVE SerialInv'
  <2>1. SerialMove(p)
    BY <1>13, Zenon DEF JournalLeg, SerialMove, SerialInv, TypeInv, TypeOK, Working, Writing, PaidStatus, ClientPC, Procs, Goto, store, ghost, local
  <2> QED
    BY <2>1, SerialMoves, Zenon DEF Procs
<1>14. ASSUME NEW p \in Passes, JournalBatch(p) PROVE SerialInv'
  <2>1. SerialMove(p)
    BY <1>14, Zenon DEF JournalBatch, SerialMove, SerialInv, TypeInv, TypeOK, Working, Writing, PaidStatus, ClientPC, Procs, Goto, store, ghost, local
  <2> QED
    BY <2>1, SerialMoves, Zenon DEF Procs
<1>15. ASSUME NEW p \in Passes, JournalFails(p) PROVE SerialInv'
  <2>1. SerialMove(p)
    BY <1>15, Zenon DEF JournalFails, SerialMove, SerialInv, TypeInv, TypeOK, Working, Writing, PaidStatus, ClientPC, Procs, Goto, store, ghost, local
  <2> QED
    BY <2>1, SerialMoves, Zenon DEF Procs
<1>16. ASSUME NEW p \in Passes, MarkSettled(p) PROVE SerialInv'
  <2>1. SerialMove(p)
    BY <1>16 DEF MarkSettled, SerialMove, SerialInv, TypeInv, TypeOK, Working, Writing, PaidStatus, ClientPC, Procs, Goto, UpdateOrder, store, ghost, local
  <2> QED
    BY <2>1, SerialMoves, Zenon DEF Procs
<1>17. ASSUME NEW p \in Passes, RecordReceipt(p) PROVE SerialInv'
  <2>1. SerialMove(p)
    BY <1>17, Zenon DEF RecordReceipt, SerialMove, SerialInv, TypeInv, TypeOK, Working, Writing, PaidStatus, ClientPC, Procs, Goto, store, ghost, local
  <2> QED
    BY <2>1, SerialMoves, Zenon DEF Procs
<1>18. ASSUME NEW p \in Passes, Trail(p) PROVE SerialInv'
  <2>1. SerialMove(p)
    BY <1>18, ZenonT(40) DEF Trail, SerialMove, SerialInv, TypeInv, TypeOK, Working, Writing, PaidStatus, ClientPC, Procs, Goto, store, ghost, local
  <2> QED
    BY <2>1, SerialMoves, Zenon DEF Procs
<1>19. ASSUME NEW p \in Passes, SpawnPayout(p) PROVE SerialInv'
  <2>1. SerialMove(p)
    BY <1>19 DEF SpawnPayout, SerialMove, SerialInv, TypeInv, TypeOK, Working, Writing, PaidStatus, ClientPC, Procs, Goto, NewOrder, NoOrder, store, ghost, local
  <2> QED
    BY <2>1, SerialMoves, Zenon DEF Procs
<1>20. ASSUME NEW p \in Passes, ScheduleRetry(p) PROVE SerialInv'
  <2>1. SerialMove(p)
    BY <1>20 DEF ScheduleRetry, SerialMove, SerialInv, TypeInv, TypeOK, Working, Writing, PaidStatus, ClientPC, Procs, Goto, UpdateOrder, store, ghost, local
  <2> QED
    BY <2>1, SerialMoves, Zenon DEF Procs
<1>21. ASSUME NEW p \in Passes, RetriesExhausted(p) PROVE SerialInv'
  <2>1. SerialMove(p)
    BY <1>21, Zenon DEF RetriesExhausted, SerialMove, SerialInv, TypeInv, TypeOK, Working, Writing, PaidStatus, ClientPC, Procs, Goto, store, ghost, local
  <2> QED
    BY <2>1, SerialMoves, Zenon DEF Procs
<1>22. ASSUME NEW p \in Passes, MarkFailed(p) PROVE SerialInv'
  <2>1. SerialMove(p)
    BY <1>22 DEF MarkFailed, SerialMove, SerialInv, TypeInv, TypeOK, Working, Writing, PaidStatus, ClientPC, Procs, Goto, UpdateOrder, store, ghost, local
  <2> QED
    BY <2>1, SerialMoves, Zenon DEF Procs
<1>23. ASSUME NEW p \in Passes, AppendDlq(p) PROVE SerialInv'
  <2>1. SerialMove(p)
    BY <1>23, Zenon DEF AppendDlq, SerialMove, SerialInv, TypeInv, TypeOK, Working, Writing, PaidStatus, ClientPC, Procs, Goto, store, ghost, local
  <2> QED
    BY <2>1, SerialMoves, Zenon DEF Procs
<1>24. ASSUME NEW p \in Passes, AwaitAction(p) PROVE SerialInv'
  <2>1. SerialMove(p)
    BY <1>24 DEF AwaitAction, SerialMove, SerialInv, TypeInv, TypeOK, Working, Writing, PaidStatus, ClientPC, Procs, Goto, UpdateOrder, store, ghost, local
  <2> QED
    BY <2>1, SerialMoves, Zenon DEF Procs
<1>25. ASSUME NEW p \in Passes, NoEvent(p) PROVE SerialInv'
  <2>1. SerialMove(p)
    BY <1>25 DEF NoEvent, SerialMove, SerialInv, TypeInv, TypeOK, Working, Writing, PaidStatus, ClientPC, Procs, Goto, NextOrder, store, ghost, local
  <2> QED
    BY <2>1, SerialMoves, ZenonT(40) DEF Procs
<1>26. ASSUME NEW p \in Passes, RollupRead(p) PROVE SerialInv'
  <2>1. SerialMove(p)
    BY <1>26, Zenon DEF RollupRead, SerialMove, SerialInv, TypeInv, TypeOK, Working, Writing, PaidStatus, ClientPC, Procs, Goto, store, ghost, local
  <2> QED
    BY <2>1, SerialMoves, Zenon DEF Procs
<1>27. ASSUME NEW p \in Passes, RollupWrite(p) PROVE SerialInv'
  <2>1. SerialMove(p)
    BY <1>27, Zenon DEF RollupWrite, SerialMove, SerialInv, TypeInv, TypeOK, Working, Writing, PaidStatus, ClientPC, Procs, Goto, NextOrder, store, ghost, local
  <2> QED
    BY <2>1, SerialMoves, Zenon DEF Procs
<1>28. ASSUME NEW p \in Passes, NEW o \in Orders, SweepSkip(p, o) PROVE SerialInv'
  <2>1. /\ pc[p] = "sweeping" /\ pc' = pc /\ cur' = cur /\ db' = db
        /\ todo' = [todo EXCEPT ![p] = @ \ {o}]
    BY <1>28, Zenon DEF SweepSkip, store
  <2>2. SerialMove(p)
    BY <2>1, Zenon DEF SerialMove, SerialInv, TypeInv, TypeOK, Working, Writing, PaidStatus, ClientPC, Procs
  <2> QED
    BY <2>2, SerialMoves, Zenon DEF Procs
<1>29. ASSUME NEW p \in Passes, NEW o \in Orders, SweepRequeue(p, o) PROVE SerialInv'
  <2>1. SerialMove(p)
    BY <1>29 DEF SweepRequeue, SerialMove, SerialInv, TypeInv, TypeOK, Working, Writing, PaidStatus, ClientPC, Procs, Goto, UpdateOrder, store, ghost, local
  <2> QED
    BY <2>1, SerialMoves, ZenonT(40) DEF Procs
<1>30. ASSUME NEW p \in Passes, NEW o \in Orders, SweepDeadLetter(p, o) PROVE SerialInv'
  <2>1. SerialMove(p)
    BY <1>30 DEF SweepDeadLetter, SerialMove, SerialInv, TypeInv, TypeOK, Working, Writing, PaidStatus, ClientPC, Procs, Goto, UpdateOrder, store, ghost, local
  <2> QED
    BY <2>1, SerialMoves, Zenon DEF Procs
<1>31. ASSUME NEW p \in Passes, NEW o \in Orders, Pick(p, o) PROVE SerialInv'
  <2>1. SerialMove(p)
    BY <1>31 DEF Pick, SerialMove, SerialInv, TypeInv, TypeOK, Working, Writing, PaidStatus, ClientPC, Procs, Goto, UpdateOrder, store, ghost, local
  <2> QED
    BY <2>1, SerialMoves, Zenon DEF Procs
<1>32. ASSUME NEW c \in Clients, NEW o \in Orders, CreateOrder(c, o) PROVE SerialInv'
  <2>1. SerialMove(c)
    BY <1>32, Zenon DEF CreateOrder, SerialMove, SerialInv, TypeInv, TypeOK, Working, Writing, PaidStatus, ClientPC, Procs, Goto, CanStart, NewOrder, NoOrder, store, ghost, local
  <2> QED
    BY <2>1, SerialMoves, Zenon DEF Procs
<1>33. ASSUME NEW c \in Clients, NEW o \in Orders, NEW l \in Commands, LoadOrder(c, o, l) PROVE SerialInv'
  <2>1. SerialMove(c)
    BY <1>33, ExecutorAssumption, Zenon DEF LoadOrder, SerialMove, SerialInv, TypeInv, TypeOK, Working, Writing, PaidStatus, ClientPC, Procs, Goto, CanStart, CanTransition, store, ghost, local
  <2> QED
    BY <2>1, SerialMoves, Zenon DEF Procs
<1>34. ASSUME NEW c \in Clients, AppendEvent(c) PROVE SerialInv'
  <2>1. SerialMove(c)
    BY <1>34, Zenon DEF AppendEvent, SerialMove, SerialInv, TypeInv, TypeOK, Working, Writing, PaidStatus, ClientPC, Procs, Goto, Forget, store, ghost, local
  <2> QED
    BY <2>1, SerialMoves, Zenon DEF Procs
<1>35. ASSUME NEW c \in Clients, Requeue(c) PROVE SerialInv'
  <2>1. SerialMove(c)
    BY <1>35, Zenon DEF Requeue, SerialMove, SerialInv, TypeInv, TypeOK, Working, Writing, PaidStatus, ClientPC, Procs, Goto, Forget, store, ghost, local
  <2> QED
    BY <2>1, SerialMoves, Zenon DEF Procs
<1>36. ASSUME NEW c \in Clients, HookFailed(c) PROVE SerialInv'
  <2>1. SerialMove(c)
    BY <1>36 DEF HookFailed, SerialMove, SerialInv, TypeInv, TypeOK, Working, Writing, PaidStatus, ClientPC, Procs, Goto, UpdateOrder, store, ghost, local
  <2> QED
    BY <2>1, SerialMoves, Zenon DEF Procs
<1>37. ASSUME NEW c \in Clients, HookDlq(c) PROVE SerialInv'
  <2>1. SerialMove(c)
    BY <1>37, Zenon DEF HookDlq, SerialMove, SerialInv, TypeInv, TypeOK, Working, Writing, PaidStatus, ClientPC, Procs, Goto, Forget, store, ghost, local
  <2> QED
    BY <2>1, SerialMoves, Zenon DEF Procs
<1>38. ASSUME NEW o \in Orders, DeadlinePasses(o) PROVE SerialInv'
  BY <1>38 DEF DeadlinePasses, SerialInv, TypeInv, TypeOK, Working, Writing, PaidStatus, ClientPC, Procs, store, ghost, local
<1>39. ASSUME NEW o \in Orders, TtlPasses(o) PROVE SerialInv'
  BY <1>39 DEF TtlPasses, SerialInv, TypeInv, TypeOK, Working, Writing, PaidStatus, ClientPC, Procs, store, ghost, local
<1>40. ASSUME NEW p \in Procs, Crash(p) PROVE SerialInv'
  <2>1. SerialMove(p)
    BY <1>40, Zenon DEF Crash, SerialMove, SerialInv, TypeInv, TypeOK, Working, Writing, PaidStatus, ClientPC, Procs, Goto, Forget, store, ghost, local
  <2> QED
    BY <2>1, SerialMoves, Zenon DEF Procs
<1>41. CASE UNCHANGED vars
  BY <1>41, Zenon DEF vars, store, ghost, local, SerialInv
<1> QED
  BY <1>1, <1>2, <1>3, <1>4, <1>5, <1>6, <1>7, <1>8, <1>9, <1>10, <1>11, <1>12, <1>13, <1>14, <1>15, <1>16, <1>17, <1>18, <1>19, <1>20, <1>21, <1>22, <1>23, <1>24, <1>25, <1>26, <1>27, <1>28, <1>29, <1>30, <1>31, <1>32, <1>33, <1>34, <1>35, <1>36, <1>37, <1>38, <1>39, <1>40, <1>41, Zenon
  DEF Next, PassStep, SweepStep, RailStep, OutcomeStep, ClientStart, ClientStep

\* Nothing runs at first.
LEMMA SerialInit == Init => SerialInv
BY ExecutorAssumption, SMTT(40) DEF Init, SerialInv, NoOrder, Procs, Working, Writing, PaidStatus, ClientPC

\* A settled order reads SUCCESS after the step.
Final == \A o \in Orders : db[o].status = "Success" => db'[o].status = "Success"

\* One command at a time, no step writes over SUCCESS.
LEMMA FinalStep ==
  ASSUME Overlap = FALSE, TypeInv, SerialInv, [Next]_vars
  PROVE  Final
<1>1. ASSUME NEW p \in Procs, PassOpen(p) \/ SweepScan(p) \/ SweepDone(p) \/ Scan(p) PROVE Final
  BY <1>1, Zenon DEF Final, PassOpen, SweepScan, SweepDone, Scan, store
<1>1a. ASSUME NEW p \in Procs, PassFinish(p) \/ Refuse(p) \/ Unavailable(p) \/ NativePay(p) PROVE Final
  BY <1>1a, Zenon DEF Final, PassFinish, Refuse, Unavailable, NativePay, store
<1>1b. ASSUME NEW p \in Procs, RemoteSettled(p) \/ RemotePending(p) \/ ReplyLost(p) \/ Dedupe(p) PROVE Final
  BY <1>1b, Zenon DEF Final, RemoteSettled, RemotePending, ReplyLost, Dedupe, store
<1>1c. ASSUME NEW p \in Procs, JournalLeg(p) \/ JournalBatch(p) \/ JournalFails(p) \/ RecordReceipt(p) PROVE Final
  BY <1>1c, Zenon DEF Final, JournalLeg, JournalBatch, JournalFails, RecordReceipt, store
<1>1d. ASSUME NEW p \in Procs, Trail(p) \/ RetriesExhausted(p) \/ AppendDlq(p) PROVE Final
  BY <1>1d, Zenon DEF Final, Trail, RetriesExhausted, AppendDlq, store
<1>1e. ASSUME NEW p \in Procs, NoEvent(p) \/ RollupRead(p) \/ RollupWrite(p) PROVE Final
  BY <1>1e, Zenon DEF Final, NoEvent, RollupRead, RollupWrite, store
<1>2. ASSUME NEW p \in Procs, AppendEvent(p) \/ HookDlq(p) \/ Crash(p) PROVE Final
  BY <1>2, Zenon DEF Final, AppendEvent, HookDlq, Crash, store
<1>3. ASSUME NEW c \in Clients, NEW o \in Orders, NEW l \in Commands, LoadOrder(c, o, l) PROVE Final
  BY <1>3, Zenon DEF Final, LoadOrder, store
<1>4. ASSUME NEW p \in Passes, NEW o \in Orders, SweepSkip(p, o) PROVE Final
  BY <1>4, Zenon DEF Final, SweepSkip, store
<1>5. ASSUME NEW p \in Passes, MarkSettled(p) PROVE Final
  BY <1>5, Zenon DEF Final, MarkSettled, UpdateOrder, SerialInv, Writing, PaidStatus, TypeInv, TypeOK, Procs
<1>6. ASSUME NEW p \in Passes, ScheduleRetry(p) PROVE Final
  BY <1>6 DEF Final, ScheduleRetry, UpdateOrder, SerialInv, Writing, PaidStatus, TypeInv, TypeOK, Procs
<1>7. ASSUME NEW p \in Passes, MarkFailed(p) PROVE Final
  BY <1>7, Zenon DEF Final, MarkFailed, UpdateOrder, SerialInv, Writing, PaidStatus, TypeInv, TypeOK, Procs
<1>8. ASSUME NEW p \in Passes, AwaitAction(p) PROVE Final
  BY <1>8, ZenonT(40) DEF Final, AwaitAction, UpdateOrder, SerialInv, Writing, PaidStatus, TypeInv, TypeOK, Procs
<1>9. ASSUME NEW p \in Passes, SpawnPayout(p) PROVE Final
  BY <1>9, Zenon DEF Final, SpawnPayout, NewOrder, NoOrder, TypeInv, TypeOK, Procs
<1>10. ASSUME NEW p \in Passes, NEW o \in Orders, SweepRequeue(p, o) PROVE Final
  BY <1>10 DEF Final, SweepRequeue, UpdateOrder, SerialInv, PaidStatus, TypeInv, TypeOK, Procs
<1>11. ASSUME NEW p \in Passes, NEW o \in Orders, SweepDeadLetter(p, o) PROVE Final
  BY <1>11 DEF Final, SweepDeadLetter, UpdateOrder, SerialInv, PaidStatus, TypeInv, TypeOK, Procs
<1>12. ASSUME NEW p \in Passes, NEW o \in Orders, Pick(p, o) PROVE Final
  BY <1>12 DEF Final, Pick, UpdateOrder, SerialInv, PaidStatus, TypeInv, TypeOK, Procs
<1>13. ASSUME NEW c \in Clients, NEW o \in Orders, CreateOrder(c, o) PROVE Final
  BY <1>13, Zenon DEF Final, CreateOrder, TypeInv, TypeOK
<1>14. ASSUME NEW c \in Clients, Requeue(c) PROVE Final
  BY <1>14 DEF Final, Requeue, SerialInv, Writing, PaidStatus, TypeInv, TypeOK, Procs
<1>15. ASSUME NEW c \in Clients, HookFailed(c) PROVE Final
  BY <1>15, Zenon DEF Final, HookFailed, UpdateOrder, SerialInv, Writing, PaidStatus, TypeInv, TypeOK, Procs
<1>16. ASSUME NEW o \in Orders, DeadlinePasses(o) \/ TtlPasses(o) PROVE Final
  <2>1. db[o] \in Snapshot /\ db \in [Orders -> Snapshot]
    BY Zenon DEF TypeInv, TypeOK
  <2>2. \/ db' = [db EXCEPT ![o] = [db[o] EXCEPT !.retryAt = "due"]]
        \/ db' = [db EXCEPT ![o] = [db[o] EXCEPT !.since = "expired"]]
    BY <1>16, Zenon DEF DeadlinePasses, TtlPasses
  <2> QED
    BY <2>1, <2>2 DEF Final, Snapshot
<1>17. CASE UNCHANGED vars
  BY <1>17, Zenon DEF Final, vars, store
<1> QED
  BY <1>1, <1>1a, <1>1b, <1>1c, <1>1d, <1>1e, <1>2, <1>3, <1>4, <1>5, <1>6, <1>7, <1>8, <1>9, <1>10, <1>11, <1>12, <1>13, <1>14, <1>15, <1>16, <1>17, Zenon
  DEF Next, PassStep, SweepStep, RailStep, OutcomeStep, ClientStart, ClientStep, Procs

\* One command at a time, SUCCESS is final: no pass, sweep, command or webhook
\* writes another status over it.
THEOREM SettledIsFinal ==
  ASSUME Overlap = FALSE
  PROVE  Spec => SettledStaysSettled
<1>1. TypeInv /\ SerialInv /\ [Next]_vars => Final
  BY FinalStep, Zenon
<1>2. TypeInv /\ SerialInv /\ [Next]_vars => SerialInv'
  BY SerialStep, Zenon
<1> QED
  BY <1>1, <1>2, SerialInit, TypeInit, TypeStep, PTL DEF Spec, SettledStaysSettled, Final

-----------------------------------------------------------------------------
(* Effects of a settlement *)

\* What an order that is not SUCCESS has not caused.
EffectOf(o) ==
  /\ payouts[o] \in {0, 1}
  /\ db[o].status # "Success" =>
       /\ payouts[o] = 0
       /\ o \notin audited
       /\ \A n \in Nat : <<o, n>> \notin receipts
       /\ EventOf[o] # None => event[EventOf[o]] # "AllSettled"

\* What a process carries: the receipt of its own order, and after SUCCESS no payout
\* yet and a roll-up that is still true.
CarriedBy(p) ==
  /\ pc[p] \in {"dedupe", "receipt"} => Rail[cur[p]] # "native"
  /\ pc[p] \in {"dedupe", "journal", "leg2", "success", "receipt"} /\ Rail[cur[p]] # "native" =>
       \/ rcpt[p] \in {cur[p]} \X Nat
       \/ Rail[cur[p]] = "card" /\ rcpt[p] = NoAuth
  /\ pc[p] \in {"receipt", "trail", "payout"} =>
       db[cur[p]].status = "Success" /\ payouts[cur[p]] = 0
  /\ pc[p] = "rollwrite" /\ roll[p] = "AllSettled" => db[cur[p]].status = "Success"

EffectInv == (\A o \in Orders : EffectOf(o)) /\ (\A p \in Procs : CarriedBy(p))

\* The processes other than p stay idle.
OthersIdle(p) == \A q \in Procs \ {p} : pc[q] = "idle" /\ pc'[q] = "idle"

\* p causes nothing and carries nothing after the step.
Uneventful(p) ==
  /\ OthersIdle(p)
  /\ UNCHANGED <<payouts, audited, receipts>>
  /\ \A e \in Events : event'[e] = "AllSettled" => event[e] = "AllSettled"
  /\ pc'[p] \notin {"dedupe", "journal", "leg2", "success", "receipt", "trail", "payout", "rollwrite"}

\* An idle process carries nothing.
LEMMA IdleCarriesNothing ==
  ASSUME NEW p, OthersIdle(p), CarriedBy(p)'
  PROVE  \A q \in Procs : CarriedBy(q)'
BY Zenon DEF OthersIdle, CarriedBy

\* An uneventful step preserves EffectInv.
LEMMA UneventfulStep ==
  ASSUME EffectInv, Final, NEW p \in Procs, Uneventful(p)
  PROVE  EffectInv'
<1>1. CarriedBy(p)'
  BY Zenon DEF Uneventful, CarriedBy
<1>2. ASSUME NEW o \in Orders PROVE EffectOf(o)'
  <2>1. EventOf[o] # None => EventOf[o] \in Events
    BY ExecutorAssumption, Zenon
  <2> QED
    BY <2>1, Zenon DEF EffectInv, EffectOf, Uneventful, Final
<1> QED
  BY <1>1, <1>2, IdleCarriesNothing, Zenon DEF EffectInv, Uneventful

\* Most steps are uneventful, one command at a time.
LEMMA UneventfulSteps ==
  ASSUME Overlap = FALSE, TypeInv, SerialInv
  PROVE  /\ \A p \in Passes :
              \/ PassOpen(p) \/ SweepScan(p) \/ SweepDone(p) \/ Scan(p) \/ PassFinish(p)
              \/ Refuse(p) \/ Unavailable(p) \/ RemotePending(p) \/ ReplyLost(p)
              \/ JournalFails(p) \/ ScheduleRetry(p) \/ RetriesExhausted(p) \/ MarkFailed(p)
              \/ AppendDlq(p) \/ AwaitAction(p) \/ NoEvent(p)
              \/ (\E o \in Orders : SweepSkip(p, o) \/ SweepRequeue(p, o)
                                      \/ SweepDeadLetter(p, o) \/ Pick(p, o))
              => Uneventful(p)
         /\ \A c \in Clients : ClientStart(c) \/ ClientStep(c) => Uneventful(c)
         /\ \A p \in Procs : Crash(p) => Uneventful(p)
<1> pc \in [Procs -> {"idle"} \cup PassPC \cup ClientPC] /\ event \in [Events -> EventStatus]
  BY Zenon DEF TypeInv, TypeOK
<1> Passes \subseteq Procs /\ Clients \subseteq Procs
  BY Zenon DEF Procs
<1>1. ASSUME NEW p \in Passes, PassOpen(p) PROVE Uneventful(p)
  BY <1>1, Zenon DEF PassOpen, CanStart, Goto, OthersIdle, Uneventful, SerialInv, store, ghost, local
<1>2. ASSUME NEW p \in Passes, SweepScan(p) PROVE Uneventful(p)
  BY <1>2, Zenon DEF SweepScan, Goto, OthersIdle, Uneventful, SerialInv, store, ghost, local
<1>3. ASSUME NEW p \in Passes, SweepDone(p) PROVE Uneventful(p)
  BY <1>3, Zenon DEF SweepDone, Goto, OthersIdle, Uneventful, SerialInv, store, ghost, local
<1>4. ASSUME NEW p \in Passes, Scan(p) PROVE Uneventful(p)
  BY <1>4, Zenon DEF Scan, Goto, OthersIdle, Uneventful, SerialInv, store, ghost, local
<1>5. ASSUME NEW p \in Passes, PassFinish(p) PROVE Uneventful(p)
  BY <1>5, Zenon DEF PassFinish, Forget, Goto, OthersIdle, Uneventful, SerialInv, store, ghost, local
<1>6. ASSUME NEW p \in Passes, Refuse(p) PROVE Uneventful(p)
  BY <1>6, Zenon DEF Refuse, Goto, OthersIdle, Uneventful, SerialInv, store, ghost, local
<1>7. ASSUME NEW p \in Passes, Unavailable(p) PROVE Uneventful(p)
  BY <1>7, Zenon DEF Unavailable, Goto, OthersIdle, Uneventful, SerialInv, store, ghost, local
<1>8. ASSUME NEW p \in Passes, RemotePending(p) PROVE Uneventful(p)
  BY <1>8, Zenon DEF RemotePending, Goto, OthersIdle, Uneventful, SerialInv, store, ghost, local
<1>9. ASSUME NEW p \in Passes, ReplyLost(p) PROVE Uneventful(p)
  BY <1>9, Zenon DEF ReplyLost, Goto, OthersIdle, Uneventful, SerialInv, store, ghost, local
<1>10. ASSUME NEW p \in Passes, JournalFails(p) PROVE Uneventful(p)
  BY <1>10, Zenon DEF JournalFails, Goto, OthersIdle, Uneventful, SerialInv, store, ghost, local
<1>11. ASSUME NEW p \in Passes, ScheduleRetry(p) PROVE Uneventful(p)
  BY <1>11, Zenon DEF ScheduleRetry, Goto, OthersIdle, Uneventful, SerialInv, store, ghost, local
<1>12. ASSUME NEW p \in Passes, RetriesExhausted(p) PROVE Uneventful(p)
  BY <1>12, Zenon DEF RetriesExhausted, Goto, OthersIdle, Uneventful, SerialInv, store, ghost, local
<1>13. ASSUME NEW p \in Passes, MarkFailed(p) PROVE Uneventful(p)
  BY <1>13, Zenon DEF MarkFailed, Goto, OthersIdle, Uneventful, SerialInv, store, ghost, local
<1>14. ASSUME NEW p \in Passes, AppendDlq(p) PROVE Uneventful(p)
  BY <1>14, Zenon DEF AppendDlq, Goto, OthersIdle, Uneventful, SerialInv, store, ghost, local
<1>15. ASSUME NEW p \in Passes, AwaitAction(p) PROVE Uneventful(p)
  BY <1>15, Zenon DEF AwaitAction, Goto, OthersIdle, Uneventful, SerialInv, store, ghost, local
<1>16. ASSUME NEW p \in Passes, NoEvent(p) PROVE Uneventful(p)
  BY <1>16, Zenon DEF NoEvent, NextOrder, Goto, OthersIdle, Uneventful, SerialInv, store, ghost, local
<1>17. ASSUME NEW p \in Passes, NEW o \in Orders, SweepSkip(p, o) PROVE Uneventful(p)
  BY <1>17, Zenon DEF SweepSkip, Goto, OthersIdle, Uneventful, SerialInv, store, ghost, local
<1>18. ASSUME NEW p \in Passes, NEW o \in Orders, SweepRequeue(p, o) PROVE Uneventful(p)
  BY <1>18, Zenon DEF SweepRequeue, UpdateOrder, Goto, OthersIdle, Uneventful, SerialInv, store, ghost, local
<1>19. ASSUME NEW p \in Passes, NEW o \in Orders, SweepDeadLetter(p, o) PROVE Uneventful(p)
  BY <1>19, Zenon DEF SweepDeadLetter, UpdateOrder, Goto, OthersIdle, Uneventful, SerialInv, store, ghost, local
<1>20. ASSUME NEW p \in Passes, NEW o \in Orders, Pick(p, o) PROVE Uneventful(p)
  BY <1>20, Zenon DEF Pick, UpdateOrder, Goto, OthersIdle, Uneventful, SerialInv, store, ghost, local
<1>21. ASSUME NEW c \in Clients, NEW o \in Orders, CreateOrder(c, o) PROVE Uneventful(c)
  BY <1>21, Zenon DEF CreateOrder, CanStart, Goto, OthersIdle, Uneventful, SerialInv, store, ghost, local
<1>22. ASSUME NEW c \in Clients, NEW o \in Orders, NEW l \in Commands, LoadOrder(c, o, l) PROVE Uneventful(c)
  BY <1>22, ExecutorAssumption, Zenon DEF LoadOrder, CanStart, Goto, OthersIdle, Uneventful, SerialInv, store, ghost, local
<1>23. ASSUME NEW c \in Clients, AppendEvent(c) PROVE Uneventful(c)
  BY <1>23, Zenon DEF AppendEvent, Forget, Goto, OthersIdle, Uneventful, SerialInv, store, ghost, local
<1>24. ASSUME NEW c \in Clients, Requeue(c) PROVE Uneventful(c)
  BY <1>24, Zenon DEF Requeue, Forget, Goto, OthersIdle, Uneventful, SerialInv, store, ghost, local
<1>25. ASSUME NEW c \in Clients, HookFailed(c) PROVE Uneventful(c)
  BY <1>25, Zenon DEF HookFailed, Goto, OthersIdle, Uneventful, SerialInv, store, ghost, local
<1>26. ASSUME NEW c \in Clients, HookDlq(c) PROVE Uneventful(c)
  BY <1>26, Zenon DEF HookDlq, Forget, Goto, OthersIdle, Uneventful, SerialInv, store, ghost, local
<1>27. ASSUME NEW p \in Procs, Crash(p) PROVE Uneventful(p)
  BY <1>27, Zenon DEF Crash, Forget, Goto, OthersIdle, Uneventful, SerialInv, store, ghost, local
<1>28. ASSUME NEW c \in Clients, ClientStart(c) \/ ClientStep(c) PROVE Uneventful(c)
  BY <1>28, <1>21, <1>22, <1>23, <1>24, <1>25, <1>26, Zenon DEF ClientStart, ClientStep
<1> QED
  BY <1>1, <1>2, <1>3, <1>4, <1>5, <1>6, <1>7, <1>8, <1>9, <1>10, <1>11, <1>12, <1>13, <1>14, <1>15, <1>16, <1>17, <1>18, <1>19, <1>20, <1>28, <1>27, Zenon

\* EffectInv is preserved, one command at a time.
LEMMA EffectStep ==
  ASSUME Overlap = FALSE, TypeInv, SerialInv, EffectInv, [Next]_vars
  PROVE  EffectInv'
<1> Final
  BY FinalStep, Zenon
<1>0. /\ pc \in [Procs -> {"idle"} \cup PassPC \cup ClientPC] /\ cur \in [Procs -> Orders \cup {None}]
      /\ db \in [Orders -> Snapshot] /\ rcpt \in [Procs -> Receipt] /\ roll \in [Procs -> EventStatus]
      /\ event \in [Events -> EventStatus] /\ payouts \in [Orders -> Nat]
      /\ \A p \in Procs : pc[p] \in Working => cur[p] \in Orders
  BY Zenon DEF TypeInv, TypeOK
<1> Passes \subseteq Procs /\ Clients \subseteq Procs
  BY Zenon DEF Procs
<1>1. ASSUME NEW p \in Procs, Uneventful(p) PROVE EffectInv'
  BY <1>1, UneventfulStep, Zenon
\* A step that only changes what its process carries.
<1>2. ASSUME NEW p \in Procs, pc[p] # "idle", CarriedBy(p)',
             \A q \in Procs \ {p} : pc'[q] = pc[q],
             UNCHANGED <<payouts, audited, receipts, event>>
      PROVE  EffectInv'
  <2>1. OthersIdle(p)
    BY <1>2, Zenon DEF SerialInv, OthersIdle
  <2>2. \A o \in Orders : EffectOf(o)'
    BY <1>2, Zenon DEF EffectInv, EffectOf, Final
  <2> QED
    BY <1>2, <2>1, <2>2, IdleCarriesNothing, Zenon DEF EffectInv
<1>3. ASSUME NEW p \in Passes, NativePay(p) PROVE EffectInv'
  <2>1. pc'[p] = "journal" /\ cur' = cur /\ Rail[cur[p]] = "native"
    BY <1>0, <1>3, Zenon DEF NativePay, Goto
  <2>2. CarriedBy(p)'
    BY <2>1, Zenon DEF CarriedBy
  <2> QED
    BY <1>0, <1>2, <1>3, <2>2, Zenon DEF NativePay, Goto, store
<1>4. ASSUME NEW p \in Passes, RemoteSettled(p) PROVE EffectInv'
  <2> DEFINE o == cur[p]
  <2>1. pc[p] = "settle" /\ pc'[p] = "dedupe" /\ cur' = cur /\ o \in Orders /\ Rail[o] # "native"
    BY <1>0, <1>4, Zenon DEF RemoteSettled, Goto, Working
  <2>2. charges'[o] \in Nat
    BY <1>4, <2>1 DEF RemoteSettled, Charge, TypeInv, TypeOK
  <2>3. rcpt'[p] \in {<<o, charges'[o]>>} \cup (IF Rail[o] = "card" THEN {NoAuth} ELSE {})
    BY <1>0, <1>4, Zenon DEF RemoteSettled
  <2>4. rcpt'[p] \in {o} \X Nat \/ (Rail[o] = "card" /\ rcpt'[p] = NoAuth)
    BY <2>2, <2>3
  <2>5. CarriedBy(p)'
    BY <2>1, <2>4, Zenon DEF CarriedBy
  <2> QED
    BY <1>0, <1>2, <1>4, <2>5, Zenon DEF RemoteSettled, Goto, store
<1>5. ASSUME NEW p \in Passes, Dedupe(p) \/ JournalLeg(p) \/ JournalBatch(p) PROVE EffectInv'
  <2>1. /\ pc[p] \in {"dedupe", "journal", "leg2"} /\ pc'[p] \in {"fail", "journal", "leg2", "success"}
        /\ UNCHANGED <<cur, rcpt>>
    BY <1>0, <1>5, Zenon DEF Dedupe, JournalLeg, JournalBatch, Goto
  <2>2. CarriedBy(p)'
    BY <2>1, Zenon DEF CarriedBy, EffectInv
  <2>3. /\ \A q \in Procs \ {p} : pc'[q] = pc[q]
        /\ UNCHANGED <<payouts, audited, receipts, event>>
    BY <1>0, <1>5, Zenon DEF Dedupe, JournalLeg, JournalBatch, Goto, store, ghost
  <2> QED
    BY <1>2, <2>1, <2>2, <2>3, Zenon
<1>6. ASSUME NEW p \in Passes, MarkSettled(p) PROVE EffectInv'
  <2>1. /\ pc[p] = "success" /\ pc'[p] = (IF Rail[cur[p]] = "native" THEN "trail" ELSE "receipt")
        /\ UNCHANGED <<cur, rcpt, payouts>> /\ cur[p] \in Orders
    BY <1>0, <1>6, Zenon DEF MarkSettled, Goto, Working, ghost
  <2>2. db'[cur[p]].status = "Success"
    BY <1>0, <1>6, <2>1 DEF MarkSettled, UpdateOrder, TypeInv, TypeOK, Snapshot
  <2>3. payouts[cur[p]] = 0
    BY <2>1, Zenon DEF EffectInv, EffectOf, SerialInv, Writing
  <2>4. CarriedBy(p)'
    BY <2>1, <2>2, <2>3, Zenon DEF CarriedBy, EffectInv
  <2> QED
    BY <1>0, <1>2, <1>6, <2>4, Zenon DEF MarkSettled, Goto, ghost
<1>7. ASSUME NEW p \in Passes, RecordReceipt(p) PROVE EffectInv'
  <2>1. /\ pc[p] = "receipt" /\ pc'[p] = "trail" /\ cur[p] \in Orders
        /\ UNCHANGED <<db, cur, payouts, audited, event>> /\ receipts' = receipts \cup {rcpt[p]}
        /\ \A q \in Procs \ {p} : pc'[q] = pc[q]
    BY <1>0, <1>7, Zenon DEF RecordReceipt, Goto, Working, ghost
  <2>2. OthersIdle(p) /\ CarriedBy(p)'
    BY <2>1, ZenonT(40) DEF SerialInv, OthersIdle, CarriedBy, EffectInv
  <2>3. rcpt[p] \in {cur[p]} \X Nat \/ rcpt[p] = NoAuth
    BY <2>1, Zenon DEF EffectInv, CarriedBy
  <2>4. \A o \in Orders, n \in Nat : <<o, n>> = rcpt[p] => db[o].status = "Success"
    <3>1. ASSUME NEW o \in Orders, NEW n \in Nat, <<o, n>> = rcpt[p] PROVE o = cur[p]
      <4>1. rcpt[p] # NoAuth
        BY <3>1, ExecutorAssumption
      <4>2. rcpt[p] \in {cur[p]} \X Nat
        BY <2>3, <4>1, Zenon
      <4> QED
        BY <3>1, <4>2
    <3> QED
      BY <2>1, <3>1, Zenon DEF EffectInv, CarriedBy
  <2>5. \A o \in Orders : EffectOf(o)'
    BY <2>1, <2>4, Zenon DEF EffectInv, EffectOf
  <2> QED
    BY <2>2, <2>5, IdleCarriesNothing, Zenon DEF EffectInv
<1>8. ASSUME NEW p \in Passes, Trail(p) PROVE EffectInv'
  <2>1. /\ pc[p] = "trail" /\ pc'[p] \in {"rollup", "payout"} /\ cur[p] \in Orders
        /\ UNCHANGED <<db, cur, payouts, receipts, event>> /\ audited' = audited \cup {cur[p]}
        /\ \A q \in Procs \ {p} : pc'[q] = pc[q]
    BY <1>0, <1>8, Zenon DEF Trail, Goto, Working, ghost
  <2>2. OthersIdle(p) /\ CarriedBy(p)'
    BY <2>1, ZenonT(40) DEF SerialInv, OthersIdle, CarriedBy, EffectInv
  <2>3. \A o \in Orders : EffectOf(o)'
    BY <2>1, Zenon DEF EffectInv, EffectOf, CarriedBy
  <2> QED
    BY <2>2, <2>3, IdleCarriesNothing, Zenon DEF EffectInv
<1>9. ASSUME NEW p \in Passes, SpawnPayout(p) PROVE EffectInv'
  <2>1. /\ pc[p] = "payout" /\ pc'[p] = "rollup" /\ cur[p] \in Orders
        /\ UNCHANGED <<audited, receipts, event>>
        /\ payouts' = [payouts EXCEPT ![cur[p]] = @ + 1]
        /\ \A q \in Procs \ {p} : pc'[q] = pc[q]
    BY <1>0, <1>9, Zenon DEF SpawnPayout, Goto, Working
  <2>2. OthersIdle(p) /\ CarriedBy(p)'
    BY <2>1, Zenon DEF SerialInv, OthersIdle, CarriedBy
  <2>3. db[cur[p]].status = "Success" /\ payouts[cur[p]] = 0
    BY <2>1, Zenon DEF EffectInv, CarriedBy
  <2>4. ASSUME NEW o \in Orders PROVE EffectOf(o)'
    <3>1. CASE o = cur[p]
      <4>1. payouts'[o] = 1 /\ db'[o].status = "Success"
        BY <1>0, <2>1, <2>3, <3>1 DEF Final
      <4> QED
        BY <4>1, Zenon DEF EffectOf
    <3>2. CASE o # cur[p]
      <4>1. payouts'[o] = payouts[o]
        BY <1>0, <2>1, <3>2, Zenon
      <4> QED
        BY <2>1, <4>1, Zenon DEF EffectInv, EffectOf, Final
    <3> QED
      BY <3>1, <3>2, Zenon
  <2> QED
    BY <2>2, <2>4, IdleCarriesNothing, Zenon DEF EffectInv
<1>10. ASSUME NEW p \in Passes, RollupRead(p) PROVE EffectInv'
  <2> DEFINE held == {o \in Orders : EventOf[o] = EventOf[cur[p]] /\ db[o].status # "Absent"}
  <2>1. /\ pc[p] = "rollup" /\ pc'[p] = "rollwrite" /\ cur[p] \in Orders /\ UNCHANGED <<cur, db>>
        /\ EventOf[cur[p]] # None /\ roll'[p] = Rollup({db[o].status : o \in held})
    BY <1>0, <1>10, Zenon DEF RollupRead, Goto, Working, store
  <2>2. held \subseteq {cur[p]}
    BY <2>1, EventsAssumption, Zenon
  <2>3. roll'[p] = "AllSettled" => {db[o].status : o \in held} = {"Success"}
    <3> DEFINE S == {db[o].status : o \in held}
    <3>1. Rollup(S) = "AllSettled" => S = {"Success"}
      <4> HIDE DEF S
      <4> QED
        BY DEF Rollup
    <3> QED
      BY <2>1, <3>1, Zenon
  <2>4. ASSUME roll'[p] = "AllSettled" PROVE db[cur[p]].status = "Success"
    <3>1. "Success" \in {db[o].status : o \in held}
      BY <2>3, <2>4
    <3>2. PICK o \in held : db[o].status = "Success"
      BY <3>1, Zenon
    <3> QED
      BY <2>2, <3>2, Zenon
  <2>5. CarriedBy(p)'
    BY <2>1, <2>4, Zenon DEF CarriedBy
  <2> QED
    BY <1>0, <1>2, <1>10, <2>5, Zenon DEF RollupRead, Goto, store, ghost
<1>11. ASSUME NEW p \in Passes, RollupWrite(p) PROVE EffectInv'
  <2>1. /\ pc[p] = "rollwrite" /\ pc'[p] \in {"sweeping", "pick"} /\ cur[p] \in Orders
        /\ UNCHANGED <<db, audited, receipts, payouts>>
        /\ event' = [event EXCEPT ![EventOf[cur[p]]] = roll[p]]
        /\ \A q \in Procs \ {p} : pc'[q] = pc[q]
    BY <1>0, <1>11, Zenon DEF RollupWrite, NextOrder, Goto, Working, ghost
  <2>2. OthersIdle(p) /\ CarriedBy(p)'
    BY <2>1, Zenon DEF SerialInv, OthersIdle, CarriedBy
  <2>3. ASSUME NEW o \in Orders PROVE EffectOf(o)'
    <3>1. ASSUME EventOf[o] # None, event'[EventOf[o]] = "AllSettled" PROVE db'[o].status = "Success"
      <4>1. EventOf[o] \in Events
        BY <3>1, ExecutorAssumption, Zenon
      <4>2. CASE EventOf[o] = EventOf[cur[p]]
        <5>1. o = cur[p]
          BY <2>1, <3>1, <4>2, EventsAssumption, Zenon
        <5>2. roll[p] = "AllSettled"
          BY <1>0, <2>1, <3>1, <4>1, <4>2, Zenon
        <5> QED
          BY <2>1, <5>1, <5>2, Zenon DEF EffectInv, CarriedBy
      <4>3. CASE EventOf[o] # EventOf[cur[p]]
        <5>1. event[EventOf[o]] = "AllSettled"
          BY <1>0, <2>1, <3>1, <4>1, <4>3, Zenon
        <5> QED
          BY <2>1, <3>1, <5>1, Zenon DEF EffectInv, EffectOf
      <4> QED
        BY <4>2, <4>3, Zenon
    <3> QED
      BY <2>1, <3>1, Zenon DEF EffectInv, EffectOf
  <2> QED
    BY <2>2, <2>3, IdleCarriesNothing, Zenon DEF EffectInv
<1>12. ASSUME UNCHANGED <<ghost, local, event, receipts, audited>> PROVE EffectInv'
  <2>1. \A p \in Procs : pc[p] \in {"receipt", "trail", "payout", "rollwrite"} => cur[p] \in Orders
    BY <1>0, Zenon DEF Working
  <2>2. \A o \in Orders : EffectOf(o)'
    BY <1>12, Zenon DEF EffectInv, EffectOf, Final, ghost
  <2>3. \A p \in Procs : CarriedBy(p)'
    BY <1>12, <2>1, Zenon DEF EffectInv, CarriedBy, Final, ghost, local
  <2> QED
    BY <2>2, <2>3, Zenon DEF EffectInv
<1>13. ASSUME NEW o \in Orders, DeadlinePasses(o) \/ TtlPasses(o) PROVE EffectInv'
  BY <1>12, <1>13, Zenon DEF DeadlinePasses, TtlPasses
<1>14. CASE UNCHANGED vars
  BY <1>12, <1>14, Zenon DEF vars, store
<1>15. ASSUME NEW p \in Passes, PassOpen(p) \/ PassStep(p) PROVE EffectInv'
  BY <1>1, <1>3, <1>4, <1>5, <1>6, <1>7, <1>8, <1>9, <1>10, <1>11, <1>15, UneventfulSteps, ZenonT(60)
  DEF PassStep, SweepStep, RailStep, OutcomeStep
<1> QED
  BY <1>1, <1>13, <1>14, <1>15, UneventfulSteps, Zenon DEF Next

\* At first nothing was settled.
LEMMA EffectInit == Init => EffectInv
<1>1. \A o \in Orders : EventOf[o] # None => EventOf[o] \in Events
  BY ExecutorAssumption, Zenon
<1> SUFFICES ASSUME Init PROVE EffectInv
  OBVIOUS
<1>2. \A o \in Orders : EffectOf(o)
  BY <1>1 DEF Init, EffectOf
<1>3. \A p \in Procs : CarriedBy(p)
  BY Zenon DEF Init, CarriedBy
<1> QED
  BY <1>2, <1>3, Zenon DEF EffectInv

\* One command at a time, nothing that follows a settlement exists for an order
\* that is not SUCCESS, and an order spawns one payout at most.
THEOREM EffectsAreSettled ==
  ASSUME Overlap = FALSE
  PROVE  Spec => []EffectsFollowSettlement
<1>1. Init => EffectInv
  BY EffectInit
<1>2. TypeInv /\ SerialInv /\ EffectInv /\ [Next]_vars => EffectInv'
  BY EffectStep, Zenon
<1>3. TypeInv /\ SerialInv /\ [Next]_vars => SerialInv'
  BY SerialStep, Zenon
<1>4. TypeInv /\ EffectInv => EffectsFollowSettlement
  <2> SUFFICES ASSUME TypeInv, EffectInv, NEW o \in Orders
               PROVE  /\ payouts[o] <= 1
                      /\ db[o].status # "Success" =>
                           /\ payouts[o] = 0
                           /\ o \notin audited
                           /\ \A n \in 1..charges[o] : <<o, n>> \notin receipts
                           /\ EventOf[o] # None => event[EventOf[o]] # "AllSettled"
    BY Zenon DEF EffectsFollowSettlement
  <2>1. payouts[o] <= 1 /\ 1..charges[o] \subseteq Nat
    BY DEF EffectInv, EffectOf
  <2> QED
    BY <2>1, Zenon DEF EffectInv, EffectOf
<1> QED
  BY <1>1, <1>2, <1>3, <1>4, SerialInit, TypeInit, TypeStep, PTL DEF Spec

-----------------------------------------------------------------------------
(* Every further charge has a cause *)

\* The payment of o went out and stands: it is settled, awaited or still held.
Paid(o) ==
  \/ db[o].status \in PaidStatus
  \/ \E p \in Procs : cur[p] = o /\ pc[p] \in Unsettled

\* A charge that does not stand any more was excused.
CauseOf(o) ==
  /\ charges[o] <= 1 + excuse[o]
  /\ Rail[o] = "card" => charges[o] <= 1
  /\ Rail[o] # "card" /\ ~Paid(o) => charges[o] <= excuse[o]

CauseInv == \A o \in Orders : CauseOf(o)

\* The other processes stay where they are.
OthersStay(p) == \A q \in Procs \ {p} : pc'[q] = pc[q] /\ cur'[q] = cur[q]

\* No charge, and what was paid for still is.
KeepsPaid(p) ==
  /\ OthersStay(p) /\ UNCHANGED <<charges, excuse>>
  /\ \A o \in Orders : db[o].status \in PaidStatus => db'[o].status \in PaidStatus
  /\ pc[p] \in Unsettled => \/ Rail[cur[p]] = "card"
                            \/ pc'[p] \in Unsettled /\ cur'[p] = cur[p]
                            \/ db'[cur[p]].status \in PaidStatus

\* No charge, and a cause for another charge of o, p's order.
GivesCause(p, o) ==
  /\ OthersStay(p) /\ charges' = charges /\ cur[p] = o
  /\ excuse'[o] = excuse[o] + 1
  /\ \A x \in Orders \ {o} : excuse'[x] = excuse[x] /\ db'[x] = db[x]

\* A charge of p's order, which it holds or which gives a cause.
Charges(p) ==
  /\ OthersStay(p) /\ pc[p] = "settle" /\ UNCHANGED <<db, cur>> /\ Charge(cur[p])
  /\ \A x \in Orders \ {cur[p]} : excuse'[x] = excuse[x]
  /\ \/ pc'[p] \in Unsettled /\ excuse'[cur[p]] = excuse[cur[p]]
     \/ excuse'[cur[p]] = excuse[cur[p]] + 1

\* A payment that still stands, or never went out, needs no cause.
LEMMA CauseKept ==
  ASSUME TypeInv, CauseInv, NEW p \in Procs, KeepsPaid(p)
  PROVE  CauseInv'
<1> SUFFICES ASSUME NEW o \in Orders PROVE CauseOf(o)'
  BY Zenon DEF CauseInv
<1>1. Rail[o] = "card" \/ (Paid(o) => Paid(o)')
  BY Zenon DEF KeepsPaid, OthersStay, Paid
<1> QED
  BY <1>1, Zenon DEF KeepsPaid, CauseInv, CauseOf

\* A cause covers the charge that does not stand any more.
LEMMA CauseGiven ==
  ASSUME TypeInv, CauseInv, NEW p \in Procs, NEW r \in Orders, GivesCause(p, r)
  PROVE  CauseInv'
<1> SUFFICES ASSUME NEW o \in Orders PROVE CauseOf(o)'
  BY Zenon DEF CauseInv
<1>1. charges[o] \in Nat /\ excuse[o] \in Nat /\ charges'[o] = charges[o]
  BY Zenon DEF TypeInv, TypeOK, GivesCause
<1>2. CASE o = r
  BY <1>1, <1>2 DEF GivesCause, CauseInv, CauseOf
<1>3. CASE o # r
  <2>1. excuse'[o] = excuse[o] /\ (Paid(o) => Paid(o)')
    BY <1>3, Zenon DEF GivesCause, OthersStay, Paid
  <2> QED
    BY <1>1, <2>1, Zenon DEF CauseInv, CauseOf
<1> QED
  BY <1>2, <1>3, Zenon

\* Only an order whose payment does not stand is charged.
LEMMA CauseOfCharge ==
  ASSUME TypeInv, SerialInv, CauseInv, NEW p \in Procs, Charges(p)
  PROVE  CauseInv'
<1> SUFFICES ASSUME NEW o \in Orders PROVE CauseOf(o)'
  BY Zenon DEF CauseInv
<1>1. charges[o] \in Nat /\ excuse[o] \in Nat
  BY Zenon DEF TypeInv, TypeOK
<1>2. CASE o = cur[p]
  <2>1. ~Paid(o)
    <3>1. db[o].status \notin PaidStatus
      BY <1>2, Zenon DEF Charges, SerialInv, Writing, ClientPC
    <3>2. \A q \in Procs : pc[q] \notin Unsettled
      BY Zenon DEF Charges, SerialInv, Unsettled
    <3> QED
      BY <3>1, <3>2, Zenon DEF Paid
  <2>2. charges'[o] = IF Rail[o] = "card" THEN 1 ELSE charges[o] + 1
    BY <1>2, Zenon DEF Charges, Charge, TypeInv, TypeOK
  <2>3. excuse'[o] = excuse[o] + 1 \/ (excuse'[o] = excuse[o] /\ Paid(o)')
    BY <1>2, Zenon DEF Charges, Paid
  <2>4. Rail[o] # "card" => charges[o] <= excuse[o]
    BY <2>1, Zenon DEF CauseInv, CauseOf
  <2> HIDE DEF Paid
  <2> QED
    BY <1>1, <2>2, <2>3, <2>4 DEF CauseOf
<1>3. CASE o # cur[p]
  <2>1. charges'[o] = charges[o] /\ excuse'[o] = excuse[o]
    BY <1>3, Zenon DEF Charges, Charge, TypeInv, TypeOK
  <2>2. Paid(o) => Paid(o)'
    BY <1>3, ZenonT(40) DEF Charges, OthersStay, Paid
  <2> QED
    BY <2>1, <2>2, Zenon DEF CauseInv, CauseOf
<1> QED
  BY <1>2, <1>3, Zenon

\* CauseInv is preserved, one command at a time: a pass only takes up orders whose
\* payment does not stand.
LEMMA CauseStep ==
  ASSUME Overlap = FALSE, TypeInv, SerialInv, EffectInv, CauseInv, [Next]_vars
  PROVE  CauseInv'
<1>0. /\ pc \in [Procs -> {"idle"} \cup PassPC \cup ClientPC] /\ cur \in [Procs -> Orders \cup {None}]
      /\ db \in [Orders -> Snapshot] /\ excuse \in [Orders -> Nat]
      /\ \A p \in Procs : pc[p] \in Working => cur[p] \in Orders
  BY Zenon DEF TypeInv, TypeOK
<1> Passes \subseteq Procs /\ Clients \subseteq Procs
  BY Zenon DEF Procs
<1>1. ASSUME NEW p \in Passes, PassOpen(p) PROVE CauseInv'
  <2>1. KeepsPaid(p)
    BY <1>0, <1>1, Zenon DEF PassOpen, Goto, KeepsPaid, OthersStay, Unsettled, store, ghost, local
  <2> QED
    BY <2>1, CauseKept, Zenon
<1>2. ASSUME NEW p \in Passes, SweepScan(p) PROVE CauseInv'
  <2>1. KeepsPaid(p)
    BY <1>0, <1>2, Zenon DEF SweepScan, Goto, KeepsPaid, OthersStay, Unsettled, store, ghost, local
  <2> QED
    BY <2>1, CauseKept, Zenon
<1>3. ASSUME NEW p \in Passes, SweepDone(p) PROVE CauseInv'
  <2>1. KeepsPaid(p)
    BY <1>0, <1>3, Zenon DEF SweepDone, Goto, KeepsPaid, OthersStay, Unsettled, store, ghost, local
  <2> QED
    BY <2>1, CauseKept, Zenon
<1>4. ASSUME NEW p \in Passes, Scan(p) PROVE CauseInv'
  <2>1. KeepsPaid(p)
    BY <1>0, <1>4, Zenon DEF Scan, Goto, KeepsPaid, OthersStay, Unsettled, store, ghost, local
  <2> QED
    BY <2>1, CauseKept, Zenon
<1>5. ASSUME NEW p \in Passes, PassFinish(p) PROVE CauseInv'
  <2>1. KeepsPaid(p)
    BY <1>0, <1>5, Zenon DEF PassFinish, Goto, Forget, KeepsPaid, OthersStay, Unsettled, store, ghost, local
  <2> QED
    BY <2>1, CauseKept, Zenon
<1>6. ASSUME NEW p \in Passes, Refuse(p) PROVE CauseInv'
  <2>1. KeepsPaid(p)
    BY <1>0, <1>6, Zenon DEF Refuse, Goto, KeepsPaid, OthersStay, Unsettled, store, ghost, local
  <2> QED
    BY <2>1, CauseKept, Zenon
<1>7. ASSUME NEW p \in Passes, Unavailable(p) PROVE CauseInv'
  <2>1. KeepsPaid(p)
    BY <1>0, <1>7, Zenon DEF Unavailable, Goto, KeepsPaid, OthersStay, Unsettled, store, ghost, local
  <2> QED
    BY <2>1, CauseKept, Zenon
<1>8. ASSUME NEW p \in Passes, JournalLeg(p) PROVE CauseInv'
  <2>1. KeepsPaid(p)
    BY <1>0, <1>8, Zenon DEF JournalLeg, Goto, KeepsPaid, OthersStay, Unsettled, store, ghost, local
  <2> QED
    BY <2>1, CauseKept, Zenon
<1>9. ASSUME NEW p \in Passes, JournalBatch(p) PROVE CauseInv'
  <2>1. KeepsPaid(p)
    BY <1>0, <1>9, Zenon DEF JournalBatch, Goto, KeepsPaid, OthersStay, Unsettled, store, ghost, local
  <2> QED
    BY <2>1, CauseKept, Zenon
<1>10. ASSUME NEW p \in Passes, RecordReceipt(p) PROVE CauseInv'
  <2>1. KeepsPaid(p)
    BY <1>0, <1>10, Zenon DEF RecordReceipt, Goto, KeepsPaid, OthersStay, Unsettled, store, ghost, local
  <2> QED
    BY <2>1, CauseKept, Zenon
<1>11. ASSUME NEW p \in Passes, Trail(p) PROVE CauseInv'
  <2>1. KeepsPaid(p)
    BY <1>0, <1>11, Zenon DEF Trail, Goto, KeepsPaid, OthersStay, Unsettled, store, ghost, local
  <2> QED
    BY <2>1, CauseKept, Zenon
<1>12. ASSUME NEW p \in Passes, RetriesExhausted(p) PROVE CauseInv'
  <2>1. KeepsPaid(p)
    BY <1>0, <1>12, Zenon DEF RetriesExhausted, Goto, KeepsPaid, OthersStay, Unsettled, store, ghost, local
  <2> QED
    BY <2>1, CauseKept, Zenon
<1>13. ASSUME NEW p \in Passes, AppendDlq(p) PROVE CauseInv'
  <2>1. KeepsPaid(p)
    BY <1>0, <1>13, Zenon DEF AppendDlq, Goto, KeepsPaid, OthersStay, Unsettled, store, ghost, local
  <2> QED
    BY <2>1, CauseKept, Zenon
<1>14. ASSUME NEW p \in Passes, NoEvent(p) PROVE CauseInv'
  <2>1. KeepsPaid(p)
    BY <1>0, <1>14, Zenon DEF NoEvent, Goto, NextOrder, KeepsPaid, OthersStay, Unsettled, store, ghost, local
  <2> QED
    BY <2>1, CauseKept, Zenon
<1>15. ASSUME NEW p \in Passes, RollupRead(p) PROVE CauseInv'
  <2>1. KeepsPaid(p)
    BY <1>0, <1>15, Zenon DEF RollupRead, Goto, KeepsPaid, OthersStay, Unsettled, store, ghost, local
  <2> QED
    BY <2>1, CauseKept, Zenon
<1>16. ASSUME NEW p \in Passes, RollupWrite(p) PROVE CauseInv'
  <2>1. KeepsPaid(p)
    BY <1>0, <1>16, Zenon DEF RollupWrite, Goto, NextOrder, KeepsPaid, OthersStay, Unsettled, store, ghost, local
  <2> QED
    BY <2>1, CauseKept, Zenon
<1>17. ASSUME NEW p \in Passes, NEW o \in Orders, SweepSkip(p, o) PROVE CauseInv'
  <2>1. KeepsPaid(p)
    BY <1>0, <1>17, Zenon DEF SweepSkip, KeepsPaid, OthersStay, Unsettled, store, ghost, local
  <2> QED
    BY <2>1, CauseKept, Zenon
<1>18. ASSUME NEW p \in Passes, NEW o \in Orders, SweepRequeue(p, o) PROVE CauseInv'
  <2>1. KeepsPaid(p)
    BY <1>0, <1>18, Zenon DEF SweepRequeue, Goto, UpdateOrder, SerialInv, KeepsPaid, OthersStay, Unsettled, store, ghost, local
  <2> QED
    BY <2>1, CauseKept, Zenon
<1>19. ASSUME NEW p \in Passes, NEW o \in Orders, SweepDeadLetter(p, o) PROVE CauseInv'
  <2>1. KeepsPaid(p)
    BY <1>0, <1>19, Zenon DEF SweepDeadLetter, Goto, UpdateOrder, SerialInv, KeepsPaid, OthersStay, Unsettled, store, ghost, local
  <2> QED
    BY <2>1, CauseKept, Zenon
<1>20. ASSUME NEW p \in Passes, NEW o \in Orders, Pick(p, o) PROVE CauseInv'
  <2>1. KeepsPaid(p)
    BY <1>0, <1>20, Zenon DEF Pick, Goto, UpdateOrder, SerialInv, KeepsPaid, OthersStay, Unsettled, store, ghost, local
  <2> QED
    BY <2>1, CauseKept, Zenon
<1>21. ASSUME NEW p \in Passes, ScheduleRetry(p) PROVE CauseInv'
  <2>1. KeepsPaid(p)
    BY <1>0, <1>21, Zenon DEF ScheduleRetry, Goto, UpdateOrder, SerialInv, Writing, ClientPC, KeepsPaid, OthersStay, Unsettled, store, ghost, local
  <2> QED
    BY <2>1, CauseKept, Zenon
<1>22. ASSUME NEW p \in Passes, MarkFailed(p) PROVE CauseInv'
  <2>1. KeepsPaid(p)
    BY <1>0, <1>22, Zenon DEF MarkFailed, Goto, UpdateOrder, SerialInv, Writing, ClientPC, KeepsPaid, OthersStay, Unsettled, store, ghost, local
  <2> QED
    BY <2>1, CauseKept, Zenon
<1>23. ASSUME NEW p \in Passes, MarkSettled(p) PROVE CauseInv'
  <2>1. KeepsPaid(p)
    BY <1>0, <1>23 DEF MarkSettled, Goto, UpdateOrder, PaidStatus, Working, Snapshot, KeepsPaid, OthersStay, Unsettled, store, ghost, local
  <2> QED
    BY <2>1, CauseKept, Zenon
<1>24. ASSUME NEW p \in Passes, AwaitAction(p) PROVE CauseInv'
  <2>1. KeepsPaid(p)
    BY <1>0, <1>24 DEF AwaitAction, Goto, UpdateOrder, PaidStatus, Working, Snapshot, KeepsPaid, OthersStay, Unsettled, store, ghost, local
  <2> QED
    BY <2>1, CauseKept, Zenon
<1>25. ASSUME NEW p \in Passes, SpawnPayout(p) PROVE CauseInv'
  <2>1. KeepsPaid(p)
    BY <1>0, <1>25 DEF SpawnPayout, Goto, NewOrder, NoOrder, PaidStatus, KeepsPaid, OthersStay, Unsettled, store, ghost, local
  <2> QED
    BY <2>1, CauseKept, Zenon
<1>26. ASSUME NEW c \in Clients, NEW o \in Orders, CreateOrder(c, o) PROVE CauseInv'
  <2>1. KeepsPaid(c)
    BY <1>0, <1>26, Zenon DEF CreateOrder, Goto, PaidStatus, KeepsPaid, OthersStay, Unsettled, store, ghost, local
  <2> QED
    BY <2>1, CauseKept, Zenon
<1>27. ASSUME NEW c \in Clients, NEW o \in Orders, NEW l \in Commands, LoadOrder(c, o, l) PROVE CauseInv'
  <2>1. KeepsPaid(c)
    BY <1>0, <1>27, Zenon DEF LoadOrder, Goto, KeepsPaid, OthersStay, Unsettled, store, ghost, local
  <2> QED
    BY <2>1, CauseKept, Zenon
<1>28. ASSUME NEW c \in Clients, AppendEvent(c) PROVE CauseInv'
  <2>1. KeepsPaid(c)
    BY <1>0, <1>28, Zenon DEF AppendEvent, Goto, Forget, KeepsPaid, OthersStay, Unsettled, store, ghost, local
  <2> QED
    BY <2>1, CauseKept, Zenon
<1>29. ASSUME NEW c \in Clients, HookDlq(c) PROVE CauseInv'
  <2>1. KeepsPaid(c)
    BY <1>0, <1>29, Zenon DEF HookDlq, Goto, Forget, KeepsPaid, OthersStay, Unsettled, store, ghost, local
  <2> QED
    BY <2>1, CauseKept, Zenon
<1>30. ASSUME NEW p \in Passes, Dedupe(p) PROVE CauseInv'
  <2>1. pc[p] = "dedupe" /\ cur[p] \in Orders
    BY <1>0, <1>30, Zenon DEF Dedupe, Working
  <2>2. Rail[cur[p]] # "card" => rcpt[p] \notin receipts
    <3>1. db[cur[p]].status # "Success"
      BY <2>1, Zenon DEF SerialInv, Writing
    <3>2. Rail[cur[p]] # "card" => rcpt[p] \in {cur[p]} \X Nat
      BY <2>1, Zenon DEF EffectInv, CarriedBy
    <3>3. \A n \in Nat : <<cur[p], n>> \notin receipts
      BY <2>1, <3>1, Zenon DEF EffectInv, EffectOf
    <3> QED
      BY <3>2, <3>3
  <2>3. KeepsPaid(p)
    BY <1>0, <1>30, <2>2, Zenon DEF Dedupe, Goto, KeepsPaid, OthersStay, Unsettled, store, ghost
  <2> QED
    BY <2>3, CauseKept, Zenon
<1>31. ASSUME NEW p \in Passes, NativePay(p) \/ RemoteSettled(p) \/ RemotePending(p) PROVE CauseInv'
  <2>1. Charges(p)
    BY <1>0, <1>31, Zenon DEF NativePay, RemoteSettled, RemotePending, Goto, Charges, OthersStay, Unsettled, store
  <2> QED
    BY <2>1, CauseOfCharge, Zenon
<1>32. ASSUME NEW p \in Passes, ReplyLost(p) PROVE CauseInv'
  <2>1. pc[p] = "settle" /\ cur[p] \in Orders
    BY <1>0, <1>32, Zenon DEF ReplyLost, Working
  <2>2. Charges(p)
    BY <1>0, <1>32, <2>1, Zenon DEF ReplyLost, Excuse, Goto, Charges, OthersStay, store
  <2> QED
    BY <2>2, CauseOfCharge, Zenon
<1>33. ASSUME NEW p \in Passes, JournalFails(p) PROVE CauseInv'
  <2>1. cur[p] \in Orders
    BY <1>0, <1>33, Zenon DEF JournalFails, Working, ClientPC
  <2>2. GivesCause(p, cur[p])
    BY <1>0, <1>33, <2>1, Zenon DEF JournalFails, Excuse, Goto, GivesCause, OthersStay, store
  <2> QED
    BY <2>1, <2>2, CauseGiven, Zenon
<1>34. ASSUME NEW c \in Clients, Requeue(c) PROVE CauseInv'
  <2>1. cur[c] \in Orders
    BY <1>0, <1>34, Zenon DEF Requeue, Working, ClientPC
  <2>2. GivesCause(c, cur[c])
    BY <1>0, <1>34, <2>1, Zenon DEF Requeue, Excuse, Forget, Goto, GivesCause, OthersStay, store
  <2> QED
    BY <2>1, <2>2, CauseGiven, Zenon
<1>35. ASSUME NEW c \in Clients, HookFailed(c) PROVE CauseInv'
  <2>1. cur[c] \in Orders
    BY <1>0, <1>35, Zenon DEF HookFailed, Working, ClientPC
  <2>2. GivesCause(c, cur[c])
    BY <1>0, <1>35, <2>1, Zenon DEF HookFailed, Excuse, UpdateOrder, Goto, GivesCause, OthersStay, store
  <2> QED
    BY <2>1, <2>2, CauseGiven, Zenon
<1>36. ASSUME NEW p \in Procs, Crash(p) PROVE CauseInv'
  <2>1. /\ OthersStay(p) /\ UNCHANGED <<db, charges>>
        /\ excuse' = [o \in Orders |-> IF o = cur[p] /\ pc[p] \in Unsettled THEN excuse[o] + 1
                                                                         ELSE excuse[o]]
    BY <1>0, <1>36, Zenon DEF Crash, Forget, Goto, OthersStay, store
  <2>2. CASE pc[p] \in Unsettled
    <3>1. cur[p] \in Orders
      BY <1>0, <2>2, Zenon DEF Working, Unsettled
    <3>2. GivesCause(p, cur[p])
      BY <2>1, <2>2, <3>1, Zenon DEF GivesCause
    <3> QED
      BY <3>1, <3>2, CauseGiven, Zenon
  <2>3. CASE pc[p] \notin Unsettled
    <3>1. excuse' = excuse
      BY <1>0, <2>1, <2>3
    <3>2. KeepsPaid(p)
      BY <2>1, <2>3, <3>1, Zenon DEF KeepsPaid
    <3> QED
      BY <3>2, CauseKept, Zenon
  <2> QED
    BY <2>2, <2>3, Zenon
<1>37. ASSUME UNCHANGED <<pc, cur, charges, excuse>>, \A o \in Orders : db'[o].status = db[o].status
       PROVE  CauseInv'
  BY <1>37, Zenon DEF CauseInv, CauseOf, Paid
<1>38. ASSUME NEW o \in Orders, DeadlinePasses(o) \/ TtlPasses(o) PROVE CauseInv'
  <2>1. \/ db' = [db EXCEPT ![o] = [db[o] EXCEPT !.retryAt = "due"]]
        \/ db' = [db EXCEPT ![o] = [db[o] EXCEPT !.since = "expired"]]
    BY <1>38, Zenon DEF DeadlinePasses, TtlPasses
  <2>2. \A x \in Orders : db'[x].status = db[x].status
    BY <1>0, <2>1 DEF Snapshot
  <2> QED
    BY <1>38, <1>37, <2>2, Zenon DEF DeadlinePasses, TtlPasses, ghost, local
<1>39. CASE UNCHANGED vars
  BY <1>39, <1>37, Zenon DEF vars, store, ghost, local
<1>40. ASSUME NEW p \in Passes, SweepStep(p) PROVE CauseInv'
  BY <1>40, <1>2, <1>3, <1>17, <1>18, <1>19, Zenon DEF SweepStep
<1>41. ASSUME NEW p \in Passes, RailStep(p) PROVE CauseInv'
  BY <1>41, <1>6, <1>7, <1>31, <1>32, Zenon DEF RailStep
<1>42. ASSUME NEW p \in Passes, OutcomeStep(p) PROVE CauseInv'
  BY <1>42, <1>8, <1>9, <1>10, <1>11, <1>12, <1>13, <1>14, <1>15, <1>16, <1>21, <1>22, <1>23, <1>24, <1>25, <1>30, <1>33, Zenon DEF OutcomeStep
<1>43. ASSUME NEW p \in Passes, PassOpen(p) \/ PassStep(p) PROVE CauseInv'
  BY <1>43, <1>1, <1>4, <1>5, <1>20, <1>40, <1>41, <1>42, Zenon DEF PassStep
<1>44. ASSUME NEW c \in Clients, ClientStart(c) \/ ClientStep(c) PROVE CauseInv'
  BY <1>44, <1>26, <1>27, <1>28, <1>29, <1>34, <1>35, Zenon DEF ClientStart, ClientStep
<1> QED
  BY <1>36, <1>38, <1>39, <1>43, <1>44, Zenon DEF Next

\* One command at a time, a rail takes the money of an order once, plus at most once
\* for each crash, lost reply, journal failure or requeue of that order.
THEOREM EveryChargeHasACause ==
  ASSUME Overlap = FALSE
  PROVE  Spec => []ExtraChargesNeedACause
<1>1. Init => EffectInv /\ CauseInv
  <2>1. Init => CauseInv
    BY DEF Init, CauseInv, CauseOf
  <2> QED
    BY <2>1, EffectInit, Zenon
<1>2. TypeInv /\ SerialInv /\ EffectInv /\ CauseInv /\ [Next]_vars => EffectInv' /\ CauseInv'
  BY EffectStep, CauseStep, Zenon
<1>3. TypeInv /\ SerialInv /\ [Next]_vars => SerialInv'
  BY SerialStep, Zenon
<1>4. CauseInv => ExtraChargesNeedACause
  BY Zenon DEF CauseInv, CauseOf, ExtraChargesNeedACause
<1> QED
  BY <1>1, <1>2, <1>3, <1>4, SerialInit, TypeInit, TypeStep, PTL DEF Spec

-----------------------------------------------------------------------------
(* Every journal leg stands for a charge *)

INSTANCE FiniteSetTheorems

\* Processes between the first and the second leg of a batch of o.
Halfway(o) == {p \in Procs : pc[p] = "leg2" /\ cur[p] = o}

\* Processes that hold a charge of o and have not posted a leg for it.
Posting(o) == {p \in Procs : pc[p] \in {"dedupe", "journal"} /\ cur[p] = o}

\* Each process that is about to post a leg holds a charge of its own.
ChargeInvOf(o) ==
  /\ batches[o] + Cardinality(Halfway(o)) <= legs[o]
  /\ Rail[o] # "card" => legs[o] + Cardinality(Posting(o)) <= charges[o]
  /\ Rail[o] = "card" => (legs[o] > 0 \/ Posting(o) # {} => charges[o] > 0)

ChargeInv == \A o \in Orders : ChargeInvOf(o)

\* Only p changes its location or its current order.
OnlyMoves(p) == \A q \in Procs \ {p} : pc'[q] = pc[q] /\ cur'[q] = cur[q]

\* p moves outside the posting locations and the three counters stay.
QuietMove(p) ==
  /\ OnlyMoves(p)
  /\ pc[p] \notin {"dedupe", "journal", "leg2"}
  /\ pc'[p] \notin {"dedupe", "journal", "leg2"}
  /\ UNCHANGED <<batches, legs, charges>>

\* The cardinality of T when it differs from S at most in p.
Differs(T, S, p) ==
  /\ p \in T /\ p \notin S => Cardinality(T) = Cardinality(S) + 1
  /\ p \in S /\ p \notin T => Cardinality(T) = Cardinality(S) - 1
  /\ (p \in S <=> p \in T) => Cardinality(T) = Cardinality(S)

\* Cardinalities of two sets that differ at most in p.
LEMMA Tally ==
  ASSUME NEW S, IsFiniteSet(S), NEW T, NEW p, T \ {p} = S \ {p}
  PROVE  Cardinality(S) \in Nat /\ Cardinality(T) \in Int /\ Differs(T, S, p)
<1>1. Cardinality(S) \in Nat
  BY FS_CardinalityType, Zenon
<1>2. CASE p \in T /\ p \notin S
  <2>1. T = S \cup {p}
    BY <1>2, Zenon
  <2> QED
    BY <1>1, <1>2, <2>1, FS_AddElement DEF Differs
<1>3. CASE p \in S /\ p \notin T
  <2>1. T = S \ {p}
    BY <1>3, Zenon
  <2> QED
    BY <1>1, <1>3, <2>1, FS_RemoveElement DEF Differs
<1>4. CASE (p \in S) <=> (p \in T)
  <2>1. T = S
    BY <1>4
  <2> QED
    BY <1>1, <1>4, <2>1 DEF Differs
<1> QED
  BY <1>2, <1>3, <1>4, Zenon

\* There are finitely many processes, so both tallies are numbers.
LEMMA FiniteTallies ==
  ASSUME NEW o
  PROVE  /\ IsFiniteSet(Halfway(o)) /\ IsFiniteSet(Posting(o))
         /\ Cardinality(Halfway(o)) \in Nat /\ Cardinality(Posting(o)) \in Nat
<1>1. IsFiniteSet(Procs)
  BY FiniteProcs, FS_Union, Zenon DEF Procs
<1>2. IsFiniteSet(Halfway(o)) /\ IsFiniteSet(Posting(o))
  BY <1>1, FS_Subset, Zenon DEF Halfway, Posting
<1> QED
  BY <1>2, FS_CardinalityType, Zenon

\* The two tallies of an order change by at most the process p.
Tallies(p, o) ==
  /\ Cardinality(Halfway(o)) \in Nat /\ Cardinality(Posting(o)) \in Nat
  /\ Cardinality(Halfway(o)') \in Int /\ Cardinality(Posting(o)') \in Int
  /\ Differs(Halfway(o)', Halfway(o), p) /\ Differs(Posting(o)', Posting(o), p)
  /\ Posting(o)' # {} => Posting(o) # {} \/ p \in Posting(o)'

\* How the two tallies of an order change when p moves.
LEMMA Moved ==
  ASSUME NEW p \in Procs, NEW o \in Orders, OnlyMoves(p)
  PROVE  Tallies(p, o)
<1>1. IsFiniteSet(Halfway(o)) /\ IsFiniteSet(Posting(o))
  BY FiniteTallies, Zenon
<1>2. Halfway(o)' \ {p} = Halfway(o) \ {p} /\ Posting(o)' \ {p} = Posting(o) \ {p}
  BY Zenon DEF OnlyMoves, Halfway, Posting
<1>3. Posting(o)' # {} => Posting(o) # {} \/ p \in Posting(o)'
  BY <1>2, Zenon
<1> QED
  BY <1>1, <1>2, <1>3, Tally, Zenon DEF Tallies

\* A quiet move preserves ChargeInv.
LEMMA Quiet ==
  ASSUME ChargeInv, NEW p \in Procs, QuietMove(p)
  PROVE  ChargeInv'
<1>1. \A o \in Orders : Halfway(o)' = Halfway(o) /\ Posting(o)' = Posting(o)
  BY Zenon DEF QuietMove, OnlyMoves, Halfway, Posting
<1> QED
  BY <1>1, Zenon DEF QuietMove, ChargeInv, ChargeInvOf

\* p takes a charge for its order and may go on to post it.
Charging(p) ==
  /\ OnlyMoves(p) /\ cur' = cur /\ Charge(cur[p])
  /\ pc[p] \notin {"dedupe", "journal", "leg2"} /\ pc'[p] # "leg2"
  /\ UNCHANGED <<batches, legs>>

\* p gives up what it holds, or keeps it; the three counters stay.
Releasing(p) ==
  /\ OnlyMoves(p)
  /\ \A o \in Orders : /\ p \in Halfway(o)' => p \in Halfway(o)
                       /\ p \in Posting(o)' => p \in Posting(o)
  /\ UNCHANGED <<batches, legs, charges>>

\* A charge covers the leg its process may post.
LEMMA Charged ==
  ASSUME TypeInv, ChargeInv, NEW p \in Procs, Charging(p)
  PROVE  ChargeInv'
<1> SUFFICES ASSUME NEW o \in Orders PROVE ChargeInvOf(o)'
  BY ZenonT(40) DEF ChargeInv
<1>1. Tallies(p, o)
  BY Moved, Zenon DEF Charging
<1>2. p \notin Halfway(o) /\ p \notin Halfway(o)' /\ p \notin Posting(o) /\ (p \in Posting(o)' => o = cur[p])
  BY Zenon DEF Charging, Halfway, Posting
<1>3. batches[o] \in Nat /\ legs[o] \in Nat /\ charges[o] \in Nat
  BY Zenon DEF TypeInv, TypeOK
<1>4. batches'[o] = batches[o] /\ legs'[o] = legs[o]
  BY Zenon DEF Charging
<1>5. Cardinality(Halfway(o)') = Cardinality(Halfway(o))
  BY <1>1, <1>2, Zenon DEF Tallies, Differs
<1>6. batches'[o] + Cardinality(Halfway(o)') <= legs'[o]
  BY <1>4, <1>5, Zenon DEF ChargeInv, ChargeInvOf
<1>7. CASE o = cur[p]
  <2>1. charges'[o] = IF Rail[o] = "card" THEN 1 ELSE charges[o] + 1
    BY <1>7, Zenon DEF Charging, Charge, TypeInv, TypeOK
  <2>2. CASE Rail[o] = "card"
    BY <1>6, <2>1, <2>2 DEF ChargeInvOf
  <2>3. CASE Rail[o] # "card"
    <3>1. Cardinality(Posting(o)) \in Nat /\ Cardinality(Posting(o)') \in Int
      BY <1>1, Zenon DEF Tallies
    <3>2. \/ Cardinality(Posting(o)') = Cardinality(Posting(o)) + 1
          \/ Cardinality(Posting(o)') = Cardinality(Posting(o))
      BY <1>1, <1>2, Zenon DEF Tallies, Differs
    <3>3. legs[o] + Cardinality(Posting(o)) <= charges[o]
      BY <2>3, Zenon DEF ChargeInv, ChargeInvOf
    <3>4. charges'[o] = charges[o] + 1
      BY <2>1, <2>3, Zenon
    <3>5. legs'[o] + Cardinality(Posting(o)') <= charges'[o]
      BY <1>3, <1>4, <3>1, <3>2, <3>3, <3>4, SMTT(40)
    <3> QED
      BY <1>6, <2>3, <3>5, Zenon DEF ChargeInvOf
  <2> QED
    BY <2>2, <2>3, Zenon
<1>8. CASE o # cur[p]
  <2>1. charges'[o] = charges[o]
    BY <1>8, Zenon DEF Charging, Charge, TypeInv, TypeOK
  <2>2. Cardinality(Posting(o)') = Cardinality(Posting(o)) /\ (Posting(o)' # {} => Posting(o) # {})
    BY <1>1, <1>2, <1>8, Zenon DEF Tallies, Differs
  <2> QED
    BY <1>4, <1>6, <2>1, <2>2, Zenon DEF ChargeInv, ChargeInvOf
<1> QED
  BY <1>7, <1>8, Zenon

\* A charge that is given up only loosens the bounds.
LEMMA Released ==
  ASSUME TypeInv, ChargeInv, NEW p \in Procs, Releasing(p)
  PROVE  ChargeInv'
<1> SUFFICES ASSUME NEW o \in Orders PROVE ChargeInvOf(o)'
  BY ZenonT(40) DEF ChargeInv
<1>1. Tallies(p, o)
  BY Moved, Zenon DEF Releasing
<1>2. batches[o] \in Nat /\ legs[o] \in Nat /\ charges[o] \in Nat
  BY Zenon DEF TypeInv, TypeOK
<1>3. batches'[o] = batches[o] /\ legs'[o] = legs[o] /\ charges'[o] = charges[o]
  BY Zenon DEF Releasing
<1>4. /\ Cardinality(Halfway(o)) \in Nat /\ Cardinality(Halfway(o)') \in Int
      /\ Cardinality(Posting(o)) \in Nat /\ Cardinality(Posting(o)') \in Int
  BY <1>1, Zenon DEF Tallies
<1>5. \/ Cardinality(Halfway(o)') = Cardinality(Halfway(o)) - 1
      \/ Cardinality(Halfway(o)') = Cardinality(Halfway(o))
  BY <1>1, Zenon DEF Tallies, Differs, Releasing
<1>6. \/ Cardinality(Posting(o)') = Cardinality(Posting(o)) - 1
      \/ Cardinality(Posting(o)') = Cardinality(Posting(o))
  BY <1>1, Zenon DEF Tallies, Differs, Releasing
<1>7. batches'[o] + Cardinality(Halfway(o)') <= legs'[o]
  <2>1. batches[o] + Cardinality(Halfway(o)) <= legs[o]
    BY Zenon DEF ChargeInv, ChargeInvOf
  <2> QED
    BY <1>2, <1>3, <1>4, <1>5, <2>1
<1>8. ASSUME Rail[o] # "card" PROVE legs'[o] + Cardinality(Posting(o)') <= charges'[o]
  <2>1. legs[o] + Cardinality(Posting(o)) <= charges[o]
    BY <1>8, Zenon DEF ChargeInv, ChargeInvOf
  <2> QED
    BY <1>2, <1>3, <1>4, <1>6, <2>1
<1>9. Posting(o)' # {} => Posting(o) # {}
  BY <1>1, Zenon DEF Tallies, Releasing
<1> QED
  BY <1>3, <1>7, <1>8, <1>9, Zenon DEF ChargeInv, ChargeInvOf

\* A leg is posted: the process held a charge and is half-way through its batch.
LEMMA LegPosted ==
  ASSUME TypeInv, ChargeInv, NEW p \in Passes, JournalLeg(p)
  PROVE  ChargeInv'
<1> SUFFICES ASSUME NEW o \in Orders PROVE ChargeInvOf(o)'
  BY ZenonT(40) DEF ChargeInv
<1>1. Tallies(p, o)
  BY Moved DEF JournalLeg, OnlyMoves, Goto, Procs
<1>2. p \notin Halfway(o) /\ p \notin Posting(o)' /\ (p \in Halfway(o)' => o = cur[p]) /\ (p \in Posting(o) <=> o = cur[p])
  BY Zenon DEF JournalLeg, Goto, Halfway, Posting, TypeInv, TypeOK, Procs
<1>3. batches[o] \in Nat /\ legs[o] \in Nat /\ charges[o] \in Nat
  BY Zenon DEF TypeInv, TypeOK
<1>4. batches'[o] = batches[o] /\ charges'[o] = charges[o]
  BY Zenon DEF JournalLeg, ghost
<1>5. /\ Cardinality(Halfway(o)) \in Nat /\ Cardinality(Halfway(o)') \in Int
      /\ Cardinality(Posting(o)) \in Nat /\ Cardinality(Posting(o)') \in Int
  BY <1>1, Zenon DEF Tallies
<1>6. CASE o = cur[p]
  <2>1. legs'[o] = legs[o] + 1
    BY <1>6, Zenon DEF JournalLeg, TypeInv, TypeOK
  <2>2. \/ Cardinality(Halfway(o)') = Cardinality(Halfway(o)) + 1
        \/ Cardinality(Halfway(o)') = Cardinality(Halfway(o))
    BY <1>1, <1>2, Zenon DEF Tallies, Differs
  <2>3. Cardinality(Posting(o)') = Cardinality(Posting(o)) - 1
    BY <1>1, <1>2, <1>6, Zenon DEF Tallies, Differs
  <2>4. batches'[o] + Cardinality(Halfway(o)') <= legs'[o]
    <3>1. batches[o] + Cardinality(Halfway(o)) <= legs[o]
      BY Zenon DEF ChargeInv, ChargeInvOf
    <3> QED
      BY <1>3, <1>4, <1>5, <2>1, <2>2, <3>1
  <2>5. ASSUME Rail[o] # "card" PROVE legs'[o] + Cardinality(Posting(o)') <= charges'[o]
    <3>1. legs[o] + Cardinality(Posting(o)) <= charges[o]
      BY <2>5, Zenon DEF ChargeInv, ChargeInvOf
    <3> QED
      BY <1>3, <1>4, <1>5, <2>1, <2>3, <3>1, SMTT(40)
  <2>6. ASSUME Rail[o] = "card" PROVE charges'[o] > 0
    BY <1>2, <1>4, <1>6, <2>6, Zenon DEF ChargeInv, ChargeInvOf
  <2> QED
    BY <2>4, <2>5, <2>6, Zenon DEF ChargeInvOf
<1>7. CASE o # cur[p]
  <2>1. legs'[o] = legs[o]
    BY <1>7, Zenon DEF JournalLeg, TypeInv, TypeOK
  <2>2. Cardinality(Halfway(o)') = Cardinality(Halfway(o)) /\ Cardinality(Posting(o)') = Cardinality(Posting(o))
    BY <1>1, <1>2, <1>7, Zenon DEF Tallies, Differs
  <2>3. Posting(o)' # {} => Posting(o) # {}
    BY <1>1, <1>2, Zenon DEF Tallies
  <2> QED
    BY <1>4, <2>1, <2>2, <2>3, Zenon DEF ChargeInv, ChargeInvOf
<1> QED
  BY <1>6, <1>7, Zenon

\* The last leg is posted: the process was half-way.
LEMMA BatchPosted ==
  ASSUME TypeInv, ChargeInv, NEW p \in Passes, JournalBatch(p)
  PROVE  ChargeInv'
<1> SUFFICES ASSUME NEW o \in Orders PROVE ChargeInvOf(o)'
  BY ZenonT(40) DEF ChargeInv
<1>1. Tallies(p, o)
  BY Moved DEF JournalBatch, OnlyMoves, Goto, Procs
<1>2. p \notin Posting(o) /\ p \notin Posting(o)' /\ p \notin Halfway(o)' /\ (p \in Halfway(o) <=> o = cur[p])
  BY Zenon DEF JournalBatch, Goto, Halfway, Posting, TypeInv, TypeOK, Procs
<1>3. batches[o] \in Nat /\ legs[o] \in Nat
  BY Zenon DEF TypeInv, TypeOK
<1>4. legs'[o] = legs[o] /\ charges'[o] = charges[o]
  BY Zenon DEF JournalBatch, ghost
<1>5. Cardinality(Posting(o)') = Cardinality(Posting(o)) /\ (Posting(o)' # {} => Posting(o) # {})
  BY <1>1, <1>2, Zenon DEF Tallies, Differs
<1>6. CASE o = cur[p]
  <2>1. batches'[o] = batches[o] + 1
    BY <1>6, Zenon DEF JournalBatch, TypeInv, TypeOK
  <2>2. Cardinality(Halfway(o)) \in Nat /\ Cardinality(Halfway(o)') = Cardinality(Halfway(o)) - 1
    BY <1>1, <1>2, <1>6, Zenon DEF Tallies, Differs
  <2>3. batches[o] + Cardinality(Halfway(o)) <= legs[o]
    BY Zenon DEF ChargeInv, ChargeInvOf
  <2>4. batches'[o] + Cardinality(Halfway(o)') <= legs'[o]
    BY <1>3, <1>4, <2>1, <2>2, <2>3, SMTT(40)
  <2> QED
    BY <1>4, <1>5, <2>4, Zenon DEF ChargeInv, ChargeInvOf
<1>7. CASE o # cur[p]
  <2>1. batches'[o] = batches[o]
    BY <1>7, Zenon DEF JournalBatch, TypeInv, TypeOK
  <2>2. Cardinality(Halfway(o)') = Cardinality(Halfway(o))
    <3>1. p \notin Halfway(o) /\ p \notin Halfway(o)'
      BY <1>2, <1>7, Zenon
    <3>2. Differs(Halfway(o)', Halfway(o), p)
      BY <1>1, ZenonT(40) DEF Tallies
    <3> QED
      BY <3>1, <3>2, Zenon DEF Differs
  <2> QED
    BY <1>4, <1>5, <2>1, <2>2, Zenon DEF ChargeInv, ChargeInvOf
<1> QED
  BY <1>6, <1>7, Zenon

-----------------------------------------------------------------------------
\* ChargeInv is preserved: most steps are quiet, four charge, three release, two post.
LEMMA ChargeStep == TypeInv /\ ChargeInv /\ [Next]_vars => ChargeInv'
<1> SUFFICES ASSUME TypeInv, ChargeInv, [Next]_vars PROVE ChargeInv'
  OBVIOUS
<1> pc \in [Procs -> {"idle"} \cup PassPC \cup ClientPC] /\ cur \in [Procs -> Orders \cup {None}]
  BY Zenon DEF TypeInv, TypeOK
<1> Passes \subseteq Procs /\ Clients \subseteq Procs
  BY Zenon DEF Procs
<1>1. ASSUME NEW p \in Passes, PassOpen(p) PROVE ChargeInv'
  <2>1. QuietMove(p)
    BY <1>1, Zenon DEF PassOpen, QuietMove, OnlyMoves, Goto, store, ghost, local
  <2> QED
    BY <2>1, Quiet, Zenon
<1>2. ASSUME NEW p \in Passes, SweepScan(p) PROVE ChargeInv'
  <2>1. QuietMove(p)
    BY <1>2, Zenon DEF SweepScan, QuietMove, OnlyMoves, Goto, store, ghost, local
  <2> QED
    BY <2>1, Quiet, Zenon
<1>3. ASSUME NEW p \in Passes, SweepDone(p) PROVE ChargeInv'
  <2>1. QuietMove(p)
    BY <1>3, Zenon DEF SweepDone, QuietMove, OnlyMoves, Goto, store, ghost, local
  <2> QED
    BY <2>1, Quiet, Zenon
<1>4. ASSUME NEW p \in Passes, Scan(p) PROVE ChargeInv'
  <2>1. QuietMove(p)
    BY <1>4, Zenon DEF Scan, QuietMove, OnlyMoves, Goto, store, ghost, local
  <2> QED
    BY <2>1, Quiet, Zenon
<1>5. ASSUME NEW p \in Passes, PassFinish(p) PROVE ChargeInv'
  <2>1. QuietMove(p)
    BY <1>5, Zenon DEF PassFinish, QuietMove, OnlyMoves, Goto, Forget, store, ghost, local
  <2> QED
    BY <2>1, Quiet, Zenon
<1>6. ASSUME NEW p \in Passes, Refuse(p) PROVE ChargeInv'
  <2>1. QuietMove(p)
    BY <1>6, Zenon DEF Refuse, QuietMove, OnlyMoves, Goto, store, ghost, local
  <2> QED
    BY <2>1, Quiet, Zenon
<1>7. ASSUME NEW p \in Passes, Unavailable(p) PROVE ChargeInv'
  <2>1. QuietMove(p)
    BY <1>7, Zenon DEF Unavailable, QuietMove, OnlyMoves, Goto, store, ghost, local
  <2> QED
    BY <2>1, Quiet, Zenon
<1>8. ASSUME NEW p \in Passes, NativePay(p) PROVE ChargeInv'
  <2>1. Charging(p)
    BY <1>8, Zenon DEF NativePay, Charging, OnlyMoves, Goto, store
  <2> QED
    BY <2>1, Charged, Zenon
<1>9. ASSUME NEW p \in Passes, RemoteSettled(p) PROVE ChargeInv'
  <2>1. Charging(p)
    BY <1>9, Zenon DEF RemoteSettled, Charging, OnlyMoves, Goto, store
  <2> QED
    BY <2>1, Charged, Zenon
<1>10. ASSUME NEW p \in Passes, RemotePending(p) PROVE ChargeInv'
  <2>1. Charging(p)
    BY <1>10, Zenon DEF RemotePending, Charging, OnlyMoves, Goto, store
  <2> QED
    BY <2>1, Charged, Zenon
<1>11. ASSUME NEW p \in Passes, ReplyLost(p) PROVE ChargeInv'
  <2>1. Charging(p)
    BY <1>11, Zenon DEF ReplyLost, Charging, OnlyMoves, Goto, store
  <2> QED
    BY <2>1, Charged, Zenon
<1>12. ASSUME NEW p \in Passes, Dedupe(p) PROVE ChargeInv'
  <2>1. Releasing(p)
    BY <1>12, Zenon DEF Dedupe, Releasing, OnlyMoves, Goto, Halfway, Posting, store, ghost
  <2> QED
    BY <2>1, Released, Zenon
<1>13. ASSUME NEW p \in Passes, JournalLeg(p) PROVE ChargeInv'
  BY <1>13, LegPosted, Zenon
<1>14. ASSUME NEW p \in Passes, JournalBatch(p) PROVE ChargeInv'
  BY <1>14, BatchPosted, Zenon
<1>15. ASSUME NEW p \in Passes, JournalFails(p) PROVE ChargeInv'
  <2>1. Releasing(p)
    BY <1>15, Zenon DEF JournalFails, Releasing, OnlyMoves, Goto, Halfway, Posting, store, ghost
  <2> QED
    BY <2>1, Released, Zenon
<1>16. ASSUME NEW p \in Passes, MarkSettled(p) PROVE ChargeInv'
  <2>1. QuietMove(p)
    BY <1>16, Zenon DEF MarkSettled, QuietMove, OnlyMoves, Goto, store, ghost, local
  <2> QED
    BY <2>1, Quiet, Zenon
<1>17. ASSUME NEW p \in Passes, RecordReceipt(p) PROVE ChargeInv'
  <2>1. QuietMove(p)
    BY <1>17, Zenon DEF RecordReceipt, QuietMove, OnlyMoves, Goto, store, ghost, local
  <2> QED
    BY <2>1, Quiet, Zenon
<1>18. ASSUME NEW p \in Passes, Trail(p) PROVE ChargeInv'
  <2>1. QuietMove(p)
    BY <1>18, Zenon DEF Trail, QuietMove, OnlyMoves, Goto, store, ghost, local
  <2> QED
    BY <2>1, Quiet, Zenon
<1>19. ASSUME NEW p \in Passes, SpawnPayout(p) PROVE ChargeInv'
  <2>1. QuietMove(p)
    BY <1>19, Zenon DEF SpawnPayout, QuietMove, OnlyMoves, Goto, store, ghost, local
  <2> QED
    BY <2>1, Quiet, Zenon
<1>20. ASSUME NEW p \in Passes, ScheduleRetry(p) PROVE ChargeInv'
  <2>1. QuietMove(p)
    BY <1>20, Zenon DEF ScheduleRetry, QuietMove, OnlyMoves, Goto, store, ghost, local
  <2> QED
    BY <2>1, Quiet, Zenon
<1>21. ASSUME NEW p \in Passes, RetriesExhausted(p) PROVE ChargeInv'
  <2>1. QuietMove(p)
    BY <1>21, Zenon DEF RetriesExhausted, QuietMove, OnlyMoves, Goto, store, ghost, local
  <2> QED
    BY <2>1, Quiet, Zenon
<1>22. ASSUME NEW p \in Passes, MarkFailed(p) PROVE ChargeInv'
  <2>1. QuietMove(p)
    BY <1>22, Zenon DEF MarkFailed, QuietMove, OnlyMoves, Goto, store, ghost, local
  <2> QED
    BY <2>1, Quiet, Zenon
<1>23. ASSUME NEW p \in Passes, AppendDlq(p) PROVE ChargeInv'
  <2>1. QuietMove(p)
    BY <1>23, Zenon DEF AppendDlq, QuietMove, OnlyMoves, Goto, store, ghost, local
  <2> QED
    BY <2>1, Quiet, Zenon
<1>24. ASSUME NEW p \in Passes, AwaitAction(p) PROVE ChargeInv'
  <2>1. QuietMove(p)
    BY <1>24, Zenon DEF AwaitAction, QuietMove, OnlyMoves, Goto, store, ghost, local
  <2> QED
    BY <2>1, Quiet, Zenon
<1>25. ASSUME NEW p \in Passes, NoEvent(p) PROVE ChargeInv'
  <2>1. QuietMove(p)
    BY <1>25, Zenon DEF NoEvent, QuietMove, OnlyMoves, Goto, NextOrder, store, ghost, local
  <2> QED
    BY <2>1, Quiet, Zenon
<1>26. ASSUME NEW p \in Passes, RollupRead(p) PROVE ChargeInv'
  <2>1. QuietMove(p)
    BY <1>26, Zenon DEF RollupRead, QuietMove, OnlyMoves, Goto, store, ghost, local
  <2> QED
    BY <2>1, Quiet, Zenon
<1>27. ASSUME NEW p \in Passes, RollupWrite(p) PROVE ChargeInv'
  <2>1. QuietMove(p)
    BY <1>27, Zenon DEF RollupWrite, QuietMove, OnlyMoves, Goto, NextOrder, store, ghost, local
  <2> QED
    BY <2>1, Quiet, Zenon
<1>28. ASSUME NEW p \in Passes, NEW o \in Orders, SweepSkip(p, o) PROVE ChargeInv'
  <2>1. QuietMove(p)
    BY <1>28, Zenon DEF SweepSkip, QuietMove, OnlyMoves, store, ghost, local
  <2> QED
    BY <2>1, Quiet, Zenon
<1>29. ASSUME NEW p \in Passes, NEW o \in Orders, SweepRequeue(p, o) PROVE ChargeInv'
  <2>1. QuietMove(p)
    BY <1>29, Zenon DEF SweepRequeue, QuietMove, OnlyMoves, Goto, store, ghost, local
  <2> QED
    BY <2>1, Quiet, Zenon
<1>30. ASSUME NEW p \in Passes, NEW o \in Orders, SweepDeadLetter(p, o) PROVE ChargeInv'
  <2>1. QuietMove(p)
    BY <1>30, Zenon DEF SweepDeadLetter, QuietMove, OnlyMoves, Goto, store, ghost, local
  <2> QED
    BY <2>1, Quiet, Zenon
<1>31. ASSUME NEW p \in Passes, NEW o \in Orders, Pick(p, o) PROVE ChargeInv'
  <2>1. QuietMove(p)
    BY <1>31, Zenon DEF Pick, QuietMove, OnlyMoves, Goto, store, ghost, local
  <2> QED
    BY <2>1, Quiet, Zenon
<1>32. ASSUME NEW c \in Clients, NEW o \in Orders, CreateOrder(c, o) PROVE ChargeInv'
  <2>1. QuietMove(c)
    BY <1>32, Zenon DEF CreateOrder, QuietMove, OnlyMoves, Goto, store, ghost, local
  <2> QED
    BY <2>1, Quiet, Zenon
<1>33. ASSUME NEW c \in Clients, NEW o \in Orders, NEW l \in Commands, LoadOrder(c, o, l) PROVE ChargeInv'
  <2>1. QuietMove(c)
    BY <1>33, ExecutorAssumption, Zenon DEF LoadOrder, QuietMove, OnlyMoves, Goto, store, ghost, local
  <2> QED
    BY <2>1, Quiet, Zenon
<1>34. ASSUME NEW c \in Clients, AppendEvent(c) PROVE ChargeInv'
  <2>1. QuietMove(c)
    BY <1>34, Zenon DEF AppendEvent, QuietMove, OnlyMoves, Goto, Forget, store, ghost, local
  <2> QED
    BY <2>1, Quiet, Zenon
<1>35. ASSUME NEW c \in Clients, Requeue(c) PROVE ChargeInv'
  <2>1. QuietMove(c)
    BY <1>35, Zenon DEF Requeue, QuietMove, OnlyMoves, Goto, Forget, store, ghost, local
  <2> QED
    BY <2>1, Quiet, Zenon
<1>36. ASSUME NEW c \in Clients, HookFailed(c) PROVE ChargeInv'
  <2>1. QuietMove(c)
    BY <1>36, Zenon DEF HookFailed, QuietMove, OnlyMoves, Goto, store, ghost, local
  <2> QED
    BY <2>1, Quiet, Zenon
<1>37. ASSUME NEW c \in Clients, HookDlq(c) PROVE ChargeInv'
  <2>1. QuietMove(c)
    BY <1>37, Zenon DEF HookDlq, QuietMove, OnlyMoves, Goto, Forget, store, ghost, local
  <2> QED
    BY <2>1, Quiet, Zenon
<1>38. ASSUME NEW o \in Orders, DeadlinePasses(o) PROVE ChargeInv'
  <2>1. \A x \in Orders : Halfway(x)' = Halfway(x) /\ Posting(x)' = Posting(x)
    BY <1>38, Zenon DEF DeadlinePasses, Halfway, Posting, local
  <2> QED
    BY <1>38, <2>1, Zenon DEF DeadlinePasses, ChargeInv, ChargeInvOf, ghost
<1>39. ASSUME NEW o \in Orders, TtlPasses(o) PROVE ChargeInv'
  <2>1. \A x \in Orders : Halfway(x)' = Halfway(x) /\ Posting(x)' = Posting(x)
    BY <1>39, Zenon DEF TtlPasses, Halfway, Posting, local
  <2> QED
    BY <1>39, <2>1, Zenon DEF TtlPasses, ChargeInv, ChargeInvOf, ghost
<1>40. ASSUME NEW p \in Procs, Crash(p) PROVE ChargeInv'
  <2>1. OnlyMoves(p) /\ pc'[p] = "idle"
    BY <1>40, Zenon DEF Crash, Forget, OnlyMoves, Goto
  <2>2. UNCHANGED <<batches, legs, charges>>
    BY <1>40, Zenon DEF Crash, store
  <2>3. Releasing(p)
    BY <2>1, <2>2, Zenon DEF Releasing, Halfway, Posting
  <2> QED
    BY <2>3, Released, Zenon
<1>41. CASE UNCHANGED vars
  <2>1. \A x \in Orders : Halfway(x)' = Halfway(x) /\ Posting(x)' = Posting(x)
    BY <1>41, Zenon DEF vars, Halfway, Posting, local
  <2>2. UNCHANGED <<batches, legs, charges>>
    BY <1>41, Zenon DEF vars, store, ghost
  <2> QED
    BY <2>1, <2>2, Zenon DEF ChargeInv, ChargeInvOf
<1>42. ASSUME NEW p \in Passes, SweepStep(p) PROVE ChargeInv'
  BY <1>42, <1>2, <1>3, <1>28, <1>29, <1>30, Zenon DEF SweepStep
<1>43. ASSUME NEW p \in Passes, RailStep(p) PROVE ChargeInv'
  BY <1>43, <1>6, <1>7, <1>8, <1>9, <1>10, <1>11, Zenon DEF RailStep
<1>44. ASSUME NEW p \in Passes, OutcomeStep(p) PROVE ChargeInv'
  BY <1>44, <1>12, <1>13, <1>14, <1>15, <1>16, <1>17, <1>18, <1>19, <1>20, <1>21, <1>22, <1>23, <1>24, <1>25, <1>26, <1>27, Zenon DEF OutcomeStep
<1>45. ASSUME NEW p \in Passes, PassOpen(p) \/ PassStep(p) PROVE ChargeInv'
  BY <1>45, <1>1, <1>4, <1>5, <1>31, <1>42, <1>43, <1>44, Zenon DEF PassStep
<1>46. ASSUME NEW c \in Clients, ClientStart(c) \/ ClientStep(c) PROVE ChargeInv'
  BY <1>46, <1>32, <1>33, <1>34, <1>35, <1>36, <1>37, Zenon DEF ClientStart, ClientStep
<1> QED
  BY <1>38, <1>39, <1>40, <1>41, <1>45, <1>46, Zenon DEF Next

\* EveryBatchHasItsCharge for any number of overlapping passes: no settle path
\* posts a leg without a charge of its own.
THEOREM JournalNeverAhead == Spec => []EveryBatchHasItsCharge
<1>1. Init => ChargeInv
  <2> SUFFICES ASSUME Init, NEW o \in Orders PROVE ChargeInvOf(o)
    BY ZenonT(40) DEF ChargeInv
  <2>1. Halfway(o) = {} /\ Posting(o) = {}
    BY Zenon DEF Init, Halfway, Posting
  <2> QED
    BY <2>1, FS_EmptySet DEF Init, ChargeInvOf
<1>2. TypeInv /\ ChargeInv => EveryBatchHasItsCharge
  <2> SUFFICES ASSUME TypeInv, ChargeInv, NEW o \in Orders
               PROVE  /\ batches[o] <= legs[o]
                      /\ Rail[o] = "card" => (legs[o] > 0 => charges[o] > 0)
                      /\ Rail[o] # "card" => legs[o] <= charges[o]
    BY Zenon DEF EveryBatchHasItsCharge
  <2> QED
    BY FiniteTallies DEF ChargeInv, ChargeInvOf, TypeInv, TypeOK
<1> QED
  BY <1>1, <1>2, TypeInit, TypeStep, ChargeStep, PTL DEF Spec

=============================================================================
