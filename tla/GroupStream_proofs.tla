------------------------- MODULE GroupStream_proofs -------------------------
(***************************************************************************)
(* For any set of messages and any number of failures and sessions: the    *)
(* live stream and the reconciliation leave no hole between them.          *)
(***************************************************************************)
EXTENDS GroupStream, TLAPS

\* The log holds a message once.
Once == \A i, j \in 1 .. Len(log) : log[i] = log[j] => i = j

Known(k) == log[k] \in rows \cup skipped

\* A position the reconciliation answers for: it lies before the cursor.
BeforeSeed(k) == InLog(seed) /\ k <= PosOf(seed)

\* A stream is open, and has received nothing, before there is a reconciliation.
Order ==
    /\ live.pc \in {"off", "open"} => rec.pc = "off"
    /\ live.pc = "open" => live.at = live.from

\* The live stream resumes at the cursor of the session or where it was, and from where it was
\* opened to where it is everything is known, or the reconciliation's.
Live ==
    live.pc \in {"on", "down"} /\ seed # None =>
        /\ lastID # seed => live.at # 0 /\ lastID = log[live.at]
        /\ \A k \in live.from + 1 .. live.at : Known(k) \/ BeforeSeed(k)

\* The reconciliation reaches past the place where the live stream was opened, and what it
\* has passed is known.
Reconciled ==
    rec.pc \in {"on", "done"} /\ seed # None =>
        /\ InLog(seed) /\ live.from <= rec.to
        /\ rec.pc = "done" => rec.at = rec.to
        /\ \A k \in PosOf(seed) + 1 .. rec.at : Known(k)

IInv == TypeOK /\ Once /\ Order /\ Live /\ Reconciled

---------------------------------------------------------------------------
(* Positions in the log.                                                   *)

LEMMA PosInLog ==
    ASSUME TypeOK, NEW m, InLog(m)
    PROVE  PosOf(m) \in 1 .. Len(log) /\ log[PosOf(m)] = m
BY DEF InLog, PosOf

LEMMA PosUnique ==
    ASSUME TypeOK, Once, NEW k \in 1 .. Len(log)
    PROVE  InLog(log[k]) /\ PosOf(log[k]) = k
<1>1. InLog(log[k])
  BY DEF InLog
<1> QED
  BY <1>1, PosInLog DEF Once

\* Publishing leaves every position as it is.
LEMMA PublishKeeps ==
    ASSUME TypeOK, Once, NEW m \in Msgs, Publish(m)
    PROVE  /\ log' \in Seq(Msgs) /\ Len(log') = Len(log) + 1
           /\ \A k \in 1 .. Len(log) : log'[k] = log[k]
           /\ Once'
           /\ \A n : InLog(n) => InLog(n)' /\ PosOf(n)' = PosOf(n)
<1>1. /\ log' \in Seq(Msgs) /\ Len(log') = Len(log) + 1 /\ Len(log) \in Nat
      /\ \A k \in 1 .. Len(log) : log'[k] = log[k]
      /\ log'[Len(log) + 1] = m
  BY DEF Publish, TypeOK
<1>2. \A k \in 1 .. Len(log) : log[k] # m
  BY DEF Publish, InLog
<1>3. Once'
  BY <1>1, <1>2 DEF Once
<1>4. ASSUME NEW n, InLog(n) PROVE InLog(n)' /\ PosOf(n)' = PosOf(n)
  <2>1. PosOf(n) \in 1 .. Len(log) /\ log[PosOf(n)] = n
    BY <1>4, PosInLog
  <2>2. PosOf(n) \in 1 .. Len(log') /\ log'[PosOf(n)] = n
    BY <1>1, <2>1
  <2>3. InLog(n)'
    BY <2>2 DEF InLog
  <2>4. PosOf(n)' \in 1 .. Len(log') /\ log'[PosOf(n)'] = n
    BY <2>2 DEF PosOf
  <2> QED
    BY <1>3, <2>2, <2>3, <2>4 DEF Once
<1> QED
  BY <1>1, <1>3, <1>4

\* There is a latest of the stored rows.
LEMMA LastIndexedType ==
    ASSUME TypeOK
    PROVE  LastIndexed \in Msgs \cup {None}
<1>1. CASE rows = {}
  BY <1>1 DEF LastIndexed
<1>2. CASE rows # {}
  <2>1. \E m \in rows : \A n \in rows : DateOf[n] <= DateOf[m]
    BY <1>2, MsgsAssumption DEF TypeOK
  <2>2. (CHOOSE m \in rows : \A n \in rows : DateOf[n] <= DateOf[m]) \in rows
    BY <2>1
  <2> QED
    BY <1>2, <2>2 DEF LastIndexed, TypeOK
<1> QED
  BY <1>1, <1>2

\* What a handler leaves: its message is known.
LEMMA HandleKnown ==
    ASSUME TypeOK, NEW m \in Msgs, Handle(m)
    PROVE  /\ m \in rows' \cup skipped'
           /\ rows \subseteq rows' /\ skipped \subseteq skipped'
           /\ rows' \subseteq Msgs /\ skipped' \subseteq Msgs /\ faults' \in 0 .. MaxFaults
BY BoundsAssumption DEF Handle, Fault, TypeOK

---------------------------------------------------------------------------
(* The steps.                                                              *)

LEMMA InitIInv == Init => IInv
<1> SUFFICES ASSUME Init PROVE IInv
  OBVIOUS
<1>1. TypeOK
  <2>1. log \in Seq(Msgs) /\ Len(log) = 0
    BY DEF Init
  <2>2. live \in [pc : {"off", "open", "on", "down"}, at : 0 .. Len(log), from : 0 .. Len(log)]
    BY <2>1 DEF Init, NoLive
  <2>3. rec \in [pc : {"off", "start", "on", "done", "failed"}, at : 0 .. Len(log), to : 0 .. Len(log)]
        /\ rec.at <= rec.to
    BY <2>1 DEF Init, NoRec
  <2>4. 0 \in 0 .. MaxSessions /\ 0 \in 0 .. MaxFaults
    BY BoundsAssumption
  <2> QED
    BY <2>1, <2>2, <2>3, <2>4 DEF Init, TypeOK
<1>2. Once /\ Order /\ Live /\ Reconciled
  BY DEF Init, Once, Order, Live, Reconciled, NoLive, NoRec
<1> QED
  BY <1>1, <1>2 DEF IInv

LEMMA TypesStep ==
    ASSUME IInv, [Next]_vars
    PROVE  TypeOK' /\ Once' /\ Order'
<1> USE BoundsAssumption DEF IInv, TypeOK, Order, goroutines, NoLive, NoRec
<1>0. Len(log) \in Nat
  OBVIOUS
<1>1. ASSUME NEW m \in Msgs, Publish(m) PROVE TypeOK' /\ Once' /\ Order'
  <2>1. log' \in Seq(Msgs) /\ Len(log') = Len(log) + 1 /\ Once'
    BY <1>1, PublishKeeps
  <2> QED
    BY <1>1, <2>1, <1>0 DEF Publish
<1>2. ASSUME NEW m \in Msgs, Push(m) PROVE TypeOK' /\ Once' /\ Order'
  BY <1>2 DEF Push, Once
<1>3. CASE OpenLive
  BY <1>3, <1>0 DEF OpenLive, Once
<1>4. CASE ReadCursor
  BY <1>4, <1>0, LastIndexedType DEF ReadCursor, Once
<1>5. CASE LiveReceive
  <2>1. log[live.at + 1] \in Msgs /\ live.at + 1 \in 0 .. Len(log)
    BY <1>5, <1>0 DEF LiveReceive
  <2>2. /\ rows' \subseteq Msgs /\ skipped' \subseteq Msgs /\ faults' \in 0 .. MaxFaults
        /\ active /\ UNCHANGED <<log, active, seed, rec, sessions>> /\ lastID' \in Msgs
    BY <1>5, <2>1, HandleKnown DEF LiveReceive
  <2>3. live' \in [pc : {"off", "open", "on", "down"}, at : 0 .. Len(log), from : 0 .. Len(log)]
        /\ live'.from = live.from /\ live'.at = live.at + 1 /\ live'.pc = live.pc
    BY <1>5, <2>1 DEF LiveReceive
  <2> QED
    BY <1>5, <2>2, <2>3 DEF LiveReceive, Once
<1>6. CASE LiveFails
  BY <1>6 DEF LiveFails, Fault, Once
<1>7. CASE Reconnect
  <2>1. ResumeAt(lastID) \in 0 .. Len(log)
    BY <1>7, <1>0, PosInLog DEF Reconnect, CanList, ResumeAt
  <2>2. live' \in [pc : {"off", "open", "on", "down"}, at : 0 .. Len(log), from : 0 .. Len(log)]
        /\ live'.pc = "on"
    BY <1>7, <2>1 DEF Reconnect
  <2> QED
    BY <1>7, <2>2 DEF Reconnect, Once
<1>8. CASE OpenReconcile
  <2>1. ReplayFrom(seed) \in 0 .. Len(log)
    BY <1>8, <1>0, PosInLog DEF OpenReconcile, CanList, ReplayFrom
  <2> QED
    BY <1>8, <1>0, <2>1 DEF OpenReconcile, Once
<1>9. CASE ReconcileReceive
  <2>1. log[rec.at + 1] \in Msgs /\ rec.at + 1 \in 0 .. Len(log) /\ rec.at + 1 <= rec.to
    BY <1>9, <1>0 DEF ReconcileReceive
  <2>2. /\ rows' \subseteq Msgs /\ skipped' \subseteq Msgs /\ faults' \in 0 .. MaxFaults
        /\ active /\ UNCHANGED <<log, active, live, lastID, seed, sessions>>
    BY <1>9, <2>1, HandleKnown DEF ReconcileReceive
  <2>3. rec' \in [pc : {"off", "start", "on", "done", "failed"}, at : 0 .. Len(log), to : 0 .. Len(log)]
        /\ rec'.to = rec.to /\ rec'.at = rec.at + 1 /\ rec'.pc = rec.pc
    BY <1>9, <2>1 DEF ReconcileReceive
  <2> QED
    BY <1>9, <2>1, <2>2, <2>3 DEF ReconcileReceive, Once
<1>10. CASE ReconcileEnds
  BY <1>10 DEF ReconcileEnds, Once
<1>11. CASE ReconcileFails
  BY <1>11 DEF ReconcileFails, Fault, Once
<1>12. CASE Leave
  <2>1. live' = NoLive /\ rec' = NoRec /\ 0 \in 0 .. Len(log)
    BY <1>12, <1>0 DEF Leave
  <2>2. /\ live' \in [pc : {"off", "open", "on", "down"}, at : 0 .. Len(log), from : 0 .. Len(log)]
        /\ rec' \in [pc : {"off", "start", "on", "done", "failed"}, at : 0 .. Len(log),
                     to : 0 .. Len(log)]
        /\ rec'.at <= rec'.to
    BY <2>1
  <2>3. sessions' \in 0 .. MaxSessions
    BY <1>12 DEF Leave
  <2>4. Once' /\ Order'
    BY <1>12, <2>1 DEF Leave, Once
  <2>5. active' \in BOOLEAN /\ lastID' \in Msgs \cup {None} /\ seed' \in Msgs \cup {None}
    BY <1>12 DEF Leave
  <2>6. UNCHANGED <<log, rows, skipped, faults>>
    BY <1>12 DEF Leave
  <2>7. TypeOK'
    BY <2>1, <2>2, <2>3, <2>5, <2>6
  <2> QED
    BY <2>4, <2>7
<1>13. CASE Enter
  BY <1>13 DEF Enter, Once
<1>14. CASE UNCHANGED vars
  BY <1>14 DEF vars, Once
<1> QED
  BY <1>1, <1>2, <1>3, <1>4, <1>5, <1>6, <1>7, <1>8, <1>9, <1>10, <1>11, <1>12, <1>13, <1>14
  DEF Next, Subscribe, LiveStream, Reconciliation

\* What is known stays known, and a step that moves neither goroutine keeps both promises.
LEMMA StillStep ==
    ASSUME IInv, UNCHANGED <<log, goroutines>>, rows \subseteq rows', skipped \subseteq skipped'
    PROVE  Live' /\ Reconciled'
BY DEF IInv, goroutines, Live, Reconciled, Known, BeforeSeed, InLog, PosOf

LEMMA GoroutinesStep ==
    ASSUME IInv, [Next]_vars
    PROVE  Live' /\ Reconciled'
<1> USE DEF IInv, goroutines
<1>0. /\ Len(log) \in Nat /\ live.at \in 0 .. Len(log) /\ live.from \in 0 .. Len(log)
      /\ rec.at \in 0 .. Len(log) /\ rec.to \in 0 .. Len(log) /\ rec.at <= rec.to
  BY DEF TypeOK
<1>1. ASSUME NEW m \in Msgs, Publish(m) PROVE Live' /\ Reconciled'
  <2>1. /\ \A k \in 1 .. Len(log) : log'[k] = log[k]
        /\ \A n : InLog(n) => InLog(n)' /\ PosOf(n)' = PosOf(n)
    BY <1>1, PublishKeeps
  <2>2. UNCHANGED <<rows, skipped, live, lastID, seed, rec>>
    BY <1>1 DEF Publish
  <2>3. ASSUME NEW k \in 1 .. Len(log)
        PROVE  (Known(k) => Known(k)') /\ (BeforeSeed(k) => BeforeSeed(k)')
    BY <2>1, <2>2 DEF Known, BeforeSeed
  <2>4. Live'
    BY <1>0, <2>1, <2>2, <2>3 DEF Live
  <2>5. Reconciled'
    <3> SUFFICES ASSUME rec.pc \in {"on", "done"}, seed # None
                 PROVE  /\ InLog(seed)' /\ live.from <= rec.to
                        /\ rec.pc = "done" => rec.at = rec.to
                        /\ \A k \in PosOf(seed) + 1 .. rec.at : Known(k)'
      BY <2>1, <2>2 DEF Reconciled
    <3>1. PosOf(seed) \in 1 .. Len(log)
      BY PosInLog DEF Reconciled
    <3>2. /\ InLog(seed) /\ live.from <= rec.to /\ (rec.pc = "done" => rec.at = rec.to)
          /\ \A k \in PosOf(seed) + 1 .. rec.at : Known(k)
      BY DEF Reconciled
    <3>3. InLog(seed)'
      BY <2>1, <2>2, <3>2
    <3>4. ASSUME NEW k \in PosOf(seed) + 1 .. rec.at PROVE Known(k)'
      <4>1. k \in 1 .. Len(log)
        BY <1>0, <3>1
      <4> QED
        BY <2>3, <3>2, <4>1
    <3> QED
      BY <3>2, <3>3, <3>4
  <2> QED
    BY <2>4, <2>5
<1>2. ASSUME NEW m \in Msgs, Push(m) PROVE Live' /\ Reconciled'
  BY <1>2, StillStep DEF Push
<1>3. CASE OpenLive
  BY <1>3 DEF OpenLive, Order, Live, Reconciled
<1>4. CASE ReadCursor
  <2>1. live'.pc = "on" /\ live'.at = live.at /\ live'.from = live.from /\ lastID' = seed'
        /\ rec'.pc = "start"
    BY <1>4 DEF ReadCursor, TypeOK, NoRec
  <2>2. live.at = live.from
    BY <1>4 DEF ReadCursor, Order
  <2> QED
    BY <1>0, <2>1, <2>2 DEF Live, Reconciled
<1>5. CASE LiveReceive
  <2> DEFINE m == log[live.at + 1]
  <2>1. m \in Msgs /\ live.at + 1 \in 1 .. Len(log)
    BY <1>0, <1>5 DEF LiveReceive, TypeOK
  <2>2. m \in rows' \cup skipped' /\ rows \subseteq rows' /\ skipped \subseteq skipped'
    BY <1>5, <2>1, HandleKnown DEF LiveReceive
  <2>3. /\ live'.pc = live.pc /\ live'.from = live.from /\ live'.at = live.at + 1
        /\ lastID' = m /\ UNCHANGED <<log, seed, rec>> /\ live.pc = "on"
    BY <1>5 DEF LiveReceive, TypeOK
  <2>4. Live'
    BY <1>0, <2>2, <2>3 DEF Live, Known, BeforeSeed, InLog, PosOf
  <2>5. Reconciled'
    BY <2>2, <2>3 DEF Reconciled, Known, InLog, PosOf
  <2> QED
    BY <2>4, <2>5
<1>6. CASE LiveFails
  <2>1. /\ live'.pc = "down" /\ live'.from = live.from /\ live'.at = live.at /\ live.pc = "on"
        /\ UNCHANGED <<log, rows, skipped, lastID, seed, rec>>
    BY <1>6 DEF LiveFails, TypeOK
  <2> QED
    BY <2>1 DEF Live, Reconciled, Known, BeforeSeed, InLog, PosOf
<1>7. CASE Reconnect
  <2>1. /\ live'.pc = "on" /\ live'.from = live.from /\ live'.at = ResumeAt(lastID)
        /\ live.pc = "down" /\ CanList(lastID)
        /\ UNCHANGED <<log, rows, skipped, lastID, seed, rec>>
    BY <1>7 DEF Reconnect, TypeOK
  <2>2. Reconciled'
    BY <2>1 DEF Reconciled, Known, InLog, PosOf
  <2>3. Live'
    <3> SUFFICES ASSUME seed # None
                 PROVE  /\ lastID # seed => live'.at # 0 /\ lastID = log[live'.at]
                        /\ \A k \in live.from + 1 .. live'.at : Known(k) \/ BeforeSeed(k)
      BY <2>1 DEF Live, Known, BeforeSeed, InLog, PosOf
    <3>1. CASE lastID = seed
      <4>1. InLog(seed) /\ live'.at = PosOf(seed) /\ PosOf(seed) \in 1 .. Len(log)
        BY <2>1, <3>1, PosInLog DEF CanList, ResumeAt
      <4> QED
        BY <1>0, <3>1, <4>1 DEF BeforeSeed
    <3>2. CASE lastID # seed
      <4>1. live.at \in 1 .. Len(log) /\ lastID = log[live.at]
        BY <1>0, <2>1, <3>2 DEF Live
      <4>2. lastID \in Msgs
        BY <4>1 DEF TypeOK
      <4>3. live'.at = live.at
        BY <2>1, <4>1, <4>2, PosUnique, MsgsAssumption DEF ResumeAt
      <4> QED
        BY <2>1, <4>1, <4>3 DEF Live
    <3> QED
      BY <3>1, <3>2
  <2> QED
    BY <2>2, <2>3
<1>8. CASE OpenReconcile
  <2>1. /\ rec'.pc = "on" /\ rec'.at = ReplayFrom(seed) /\ rec'.to = Len(log) /\ CanList(seed)
        /\ UNCHANGED <<log, rows, skipped, lastID, seed, live>>
    BY <1>8 DEF OpenReconcile
  <2>2. Live'
    BY <2>1 DEF Live, Known, BeforeSeed, InLog, PosOf
  <2>3. Reconciled'
    <3> SUFFICES ASSUME seed # None
                 PROVE  /\ InLog(seed)' /\ live'.from <= rec'.to
                        /\ \A k \in PosOf(seed)' + 1 .. rec'.at : Known(k)'
      BY <2>1 DEF Reconciled
    <3>1. InLog(seed) /\ PosOf(seed) \in 1 .. Len(log) /\ rec'.at = PosOf(seed)
      BY <2>1, PosInLog DEF CanList, ReplayFrom
    <3>2. InLog(seed)' /\ PosOf(seed)' = PosOf(seed)
      BY <2>1, <3>1 DEF InLog, PosOf
    <3> QED
      BY <1>0, <2>1, <3>1, <3>2
  <2> QED
    BY <2>2, <2>3
<1>9. CASE ReconcileReceive
  <2> DEFINE m == log[rec.at + 1]
  <2>1. m \in Msgs /\ rec.at + 1 \in 1 .. Len(log)
    BY <1>0, <1>9 DEF ReconcileReceive, TypeOK
  <2>2. m \in rows' \cup skipped' /\ rows \subseteq rows' /\ skipped \subseteq skipped'
    BY <1>9, <2>1, HandleKnown DEF ReconcileReceive
  <2>3. /\ rec'.pc = "on" /\ rec'.to = rec.to /\ rec'.at = rec.at + 1
        /\ UNCHANGED <<log, seed, live, lastID>> /\ rec.pc = "on"
    BY <1>9 DEF ReconcileReceive, TypeOK
  <2>4. Live'
    BY <2>2, <2>3 DEF Live, Known, BeforeSeed, InLog, PosOf
  <2>5. Reconciled'
    <3> SUFFICES ASSUME seed # None
                 PROVE  /\ InLog(seed) /\ live.from <= rec.to
                        /\ \A k \in PosOf(seed) + 1 .. rec.at + 1 : log[k] \in rows' \cup skipped'
      BY <2>3 DEF Reconciled, Known, InLog, PosOf
    <3>1. InLog(seed) /\ live.from <= rec.to /\ \A k \in PosOf(seed) + 1 .. rec.at : Known(k)
      BY <2>3 DEF Reconciled
    <3>2. PosOf(seed) \in 1 .. Len(log)
      BY <3>1, PosInLog
    <3> QED
      BY <1>0, <2>2, <3>1, <3>2 DEF Known
  <2> QED
    BY <2>4, <2>5
<1>10. CASE ReconcileEnds
  <2>1. /\ rec'.pc = "done" /\ rec'.to = rec.to /\ rec'.at = rec.at /\ rec.at = rec.to /\ rec.pc = "on"
        /\ UNCHANGED <<log, rows, skipped, seed, live, lastID>>
    BY <1>10 DEF ReconcileEnds, TypeOK
  <2> QED
    BY <2>1 DEF Live, Reconciled, Known, BeforeSeed, InLog, PosOf
<1>11. CASE ReconcileFails
  <2>1. rec'.pc = "failed" /\ UNCHANGED <<log, rows, skipped, seed, live, lastID>>
    BY <1>11 DEF ReconcileFails, TypeOK
  <2> QED
    BY <2>1 DEF Live, Reconciled, Known, BeforeSeed, InLog, PosOf
<1>12. CASE Leave
  BY <1>12 DEF Leave, Live, Reconciled, NoLive, NoRec
<1>13. CASE Enter
  BY <1>13, StillStep DEF Enter
<1>14. CASE UNCHANGED vars
  BY <1>14, StillStep DEF vars
<1> QED
  BY <1>1, <1>2, <1>3, <1>4, <1>5, <1>6, <1>7, <1>8, <1>9, <1>10, <1>11, <1>12, <1>13, <1>14
  DEF Next, Subscribe, LiveStream, Reconciliation

LEMMA NextIInv == IInv /\ [Next]_vars => IInv'
BY TypesStep, GoroutinesStep DEF IInv

LEMMA Invariance == Spec => []IInv
BY InitIInv, NextIInv, PTL DEF Spec

---------------------------------------------------------------------------
\* Types; no goroutine is past the head of what it lists.
THEOREM Typed == Spec => []TypeOK
<1>1. IInv => TypeOK
  BY DEF IInv
<1> QED
  BY <1>1, Invariance, PTL

\* Between the cursor of the session and the position of the live stream everything has been
\* handled once the reconciliation has ended, wherever the stream failed and resumed.
THEOREM NoHole == Spec => []SessionIndexed
<1>1. IInv => SessionIndexed
  <2> SUFFICES ASSUME IInv, rec.pc = "done", seed # None, NEW k \in PosOf(seed) + 1 .. live.at
               PROVE  log[k] \in Handled
    BY DEF SessionIndexed
  <2>1. /\ live.at \in 0 .. Len(log) /\ Len(log) \in Nat /\ live.from \in Nat /\ rec.to \in Nat
        /\ live.pc \in {"off", "open", "on", "down"}
    BY DEF IInv, TypeOK
  <2>2. /\ InLog(seed) /\ live.from <= rec.to /\ rec.at = rec.to
        /\ \A i \in PosOf(seed) + 1 .. rec.at : Known(i)
    BY DEF IInv, Reconciled
  <2>3. PosOf(seed) \in 1 .. Len(log)
    BY <2>2, PosInLog DEF IInv
  <2>4. \A i \in live.from + 1 .. live.at : Known(i) \/ BeforeSeed(i)
    BY <2>1 DEF IInv, Order, Live
  <2>5. Known(k)
    BY <2>1, <2>2, <2>3, <2>4 DEF BeforeSeed
  <2>6. log[k] \in Msgs
    BY <2>1, <2>3 DEF IInv, TypeOK
  <2> QED
    BY <2>5, <2>6 DEF Known, Handled
<1> QED
  BY <1>1, Invariance, PTL
=============================================================================
