----------------------- MODULE AccountService_proofs -----------------------
(***************************************************************************)
(* For any set of ids and any number of creations: whatever fails half-way *)
(* and whatever a deletion leaves, the open account is all there, none is  *)
(* replaced, a generated id is fresh, and an import finds its account.     *)
(***************************************************************************)
EXTENDS AccountService, TLAPS

\* What is in a datastore is in its directory; n creations so far.
Sound(d, n) ==
    /\ d \in Disks
    /\ d.oneRoot => d.app = d.shared
    /\ \A id \in Ids : d.meta[id] # 0 \/ id \in d.netconf => id \in d.shared
    /\ \A id \in Ids : d.meta[id] <= n

Types ==
    /\ Sound(disk, creations)
    /\ creations \in 0 .. MaxCreations
    /\ initManager \in Accounts /\ openedAccountID \in Accounts /\ accountData \in Accounts
    /\ reply.id \in Accounts /\ reply.err \in Errors

IInv == Types /\ OpenIsComplete /\ GeneratedIsFresh /\ ImportFindsItsAccount

\* e holds what d holds, and more directories.
Grown(d, e) ==
    /\ e.oneRoot = d.oneRoot /\ e.meta = d.meta
    /\ d.app \subseteq e.app /\ d.shared \subseteq e.shared

---------------------------------------------------------------------------
(* What the operators on the disk do.                                      *)

LEMMA MkdirSound ==
    ASSUME NEW d, NEW n, Sound(d, n), NEW id \in Ids
    PROVE  /\ Sound(MkdirApp(d, id), n) /\ Grown(d, MkdirApp(d, id))
           /\ id \in MkdirApp(d, id).app
BY DEF Sound, Disks, MkdirApp, Grown

LEMMA OpenSound ==
    ASSUME NEW d, NEW n, Sound(d, n), NEW id \in Ids
    PROVE  /\ Sound(OpenDatastore(d, id), n) /\ Grown(d, OpenDatastore(d, id))
           /\ id \in OpenDatastore(d, id).shared
           /\ d.oneRoot => id \in OpenDatastore(d, id).app
BY DEF Sound, Disks, OpenDatastore, MkdirApp, Grown

LEMMA MigrateSound ==
    ASSUME NEW d, NEW n, Sound(d, n), NEW id \in Ids
    PROVE  /\ Sound(MigrateToLatest(d, id), n) /\ Grown(d, MigrateToLatest(d, id))
           /\ id \in MigrateToLatest(d, id).app /\ id \in MigrateToLatest(d, id).shared
<1> DEFINE m == MkdirApp(d, id)
<1>1. Sound(m, n) /\ Grown(d, m) /\ id \in m.app
  BY MkdirSound
<1> HIDE DEF m
<1>2. Sound(OpenDatastore(m, id), n) /\ Grown(m, OpenDatastore(m, id))
      /\ id \in OpenDatastore(m, id).shared
  BY <1>1, OpenSound
<1>3. MigrateToLatest(d, id) = OpenDatastore(m, id)
  BY DEF MigrateToLatest, m
<1> QED
  BY <1>1, <1>2, <1>3 DEF Grown

LEMMA PutSound ==
    ASSUME NEW d, Sound(d, creations), NEW id \in Ids, creations \in 0 .. MaxCreations,
           creations < MaxCreations
    PROVE  /\ Sound(PutMetadata(d, id), creations + 1)
           /\ PutMetadata(d, id).meta = [d.meta EXCEPT ![id] = creations + 1]
           /\ PutMetadata(d, id).oneRoot = d.oneRoot
           /\ d.app \subseteq PutMetadata(d, id).app
           /\ d.shared \subseteq PutMetadata(d, id).shared
<1> DEFINE o == OpenDatastore(d, id)
<1>1. Sound(o, creations) /\ Grown(d, o) /\ id \in o.shared
  BY OpenSound
<1> HIDE DEF o
<1>2. PutMetadata(d, id) = [o EXCEPT !.meta = [o.meta EXCEPT ![id] = creations + 1]]
  BY DEF PutMetadata, o
<1>3. Sound([o EXCEPT !.meta = [o.meta EXCEPT ![id] = creations + 1]], creations + 1)
  BY <1>1, BoundsAssumption DEF Sound, Disks
<1> QED
  BY <1>1, <1>2, <1>3 DEF Grown, Sound, Disks

LEMMA ConfigSound ==
    ASSUME NEW d, NEW n, Sound(d, n), NEW id \in Ids
    PROVE  /\ Sound(PutNetworkConfig(d, id), n) /\ Grown(d, PutNetworkConfig(d, id))
           /\ id \in PutNetworkConfig(d, id).shared
           /\ d.oneRoot => id \in PutNetworkConfig(d, id).app
<1> DEFINE o == OpenDatastore(d, id)
<1>1. Sound(o, n) /\ Grown(d, o) /\ id \in o.shared /\ (d.oneRoot => id \in o.app)
  BY OpenSound
<1> HIDE DEF o
<1>2. PutNetworkConfig(d, id) = [o EXCEPT !.netconf = o.netconf \cup {id}]
  BY DEF PutNetworkConfig, o
<1> QED
  BY <1>1, <1>2 DEF Grown, Sound, Disks

LEMMA RemoveSound ==
    ASSUME NEW d, NEW n \in Nat, Sound(d, n), NEW id \in Ids,
           NEW e \in {d, RemoveApp(d, id), RemoveFiles(RemoveApp(d, id), id), RemoveBoth(d, id)}
    PROVE  /\ Sound(e, n)
           /\ \A i \in Ids : e.meta[i] \in {d.meta[i], 0}
<1>0. 0 \in 0 .. MaxCreations /\ 0 <= n
  BY BoundsAssumption
<1>1. CASE e = d
  BY <1>1 DEF Sound, Disks
<1>2. ASSUME NEW f, Sound(f, n), NEW g, g = RemoveFiles(f, id)
      PROVE  /\ Sound(g, n) /\ \A i \in Ids : g.meta[i] \in {f.meta[i], 0}
             /\ g.meta[id] = 0 /\ id \notin g.netconf
  <2>1. g = [f EXCEPT !.meta = [f.meta EXCEPT ![id] = 0], !.netconf = f.netconf \ {id}]
    BY <1>2 DEF RemoveFiles
  <2>2. f \in Disks /\ g \in Disks
    <3>1. f \in Disks
      BY <1>2 DEF Sound
    <3>2. [f.meta EXCEPT ![id] = 0] \in [Ids -> 0 .. MaxCreations]
      BY <1>0, <3>1 DEF Disks
    <3> DEFINE cleared == [f.meta EXCEPT ![id] = 0]
    <3> HIDE DEF cleared
    <3>3. g = [f EXCEPT !.meta = cleared, !.netconf = f.netconf \ {id}]
      BY <2>1 DEF cleared
    <3>4. cleared \in [Ids -> 0 .. MaxCreations]
      BY <3>2 DEF cleared
    <3> QED
      BY <3>1, <3>3, <3>4 DEF Disks
  <2>3. /\ g.oneRoot = f.oneRoot /\ g.app = f.app /\ g.shared = f.shared
        /\ g.netconf = f.netconf \ {id} /\ g.meta = [f.meta EXCEPT ![id] = 0]
    BY <2>1, <2>2 DEF Disks
  <2>4. g.meta[id] = 0 /\ \A i \in Ids : i # id => g.meta[i] = f.meta[i]
    BY <2>2, <2>3 DEF Disks
  <2> QED
    BY <1>0, <1>2, <2>2, <2>3, <2>4 DEF Sound
<1>3. ASSUME NEW f, f = RemoveApp(d, id)
      PROVE  /\ Sound(f, n) /\ \A i \in Ids : f.meta[i] \in {d.meta[i], 0}
  <2>1. CASE d.oneRoot
    BY <1>2, <1>3, <2>1 DEF RemoveApp
  <2>2. CASE ~d.oneRoot
    <3>1. f = [d EXCEPT !.app = d.app \ {id}]
      BY <1>3, <2>2 DEF RemoveApp
    <3> QED
      BY <2>2, <3>1 DEF Sound, Disks
  <2> QED
    BY <2>1, <2>2
<1>4. CASE e = RemoveApp(d, id)
  BY <1>3, <1>4
<1>5. CASE e = RemoveFiles(RemoveApp(d, id), id)
  <2> DEFINE f == RemoveApp(d, id)
  <2>1. Sound(f, n) /\ \A i \in Ids : f.meta[i] \in {d.meta[i], 0}
    BY <1>3
  <2> HIDE DEF f
  <2>2. Sound(e, n) /\ \A i \in Ids : e.meta[i] \in {f.meta[i], 0}
    BY <1>2, <1>5, <2>1 DEF f
  <2> QED
    BY <2>1, <2>2
<1>6. CASE e = RemoveBoth(d, id)
  <2> DEFINE g == RemoveFiles(d, id)
  <2>1. /\ Sound(g, n) /\ \A i \in Ids : g.meta[i] \in {d.meta[i], 0}
        /\ g.meta[id] = 0 /\ id \notin g.netconf
    BY <1>2
  <2>2. e = [g EXCEPT !.app = g.app \ {id}, !.shared = g.shared \ {id}]
    BY <1>6 DEF RemoveBoth, g
  <2> HIDE DEF g
  <2> QED
    BY <2>1, <2>2 DEF Sound, Disks
<1> QED
  BY <1>1, <1>4, <1>5, <1>6

\* Whatever a creation leaves, it has written the metadata of an account that had none, or none.
LEMMA CreationsSound ==
    ASSUME Types, creations < MaxCreations, NEW id \in Ids, NEW migrate \in BOOLEAN,
           NEW c \in Creations(id, migrate)
    PROVE  /\ Sound(c.disk, creations + 1) /\ c.disk.oneRoot = disk.oneRoot
           /\ disk.app \subseteq c.disk.app /\ disk.shared \subseteq c.disk.shared
           /\ \/ c.disk.meta = disk.meta /\ Sound(c.disk, creations)
              \/ disk.meta[id] = 0 /\ c.disk.meta = [disk.meta EXCEPT ![id] = creations + 1]
           /\ c.err \in {"none", "fault", "exists"}
           /\ c.err = "exists" => disk.meta[id] # 0
           /\ c.err = "none" => /\ c.disk.meta[id] # 0
                                /\ disk.oneRoot => id \in c.disk.app
<1> DEFINE d0 == MkdirApp(disk, id)
           d1 == IF migrate THEN MigrateToLatest(disk, id) ELSE disk
           d2 == OpenDatastore(d1, id)
           d3 == PutMetadata(d2, id)
           d4 == PutNetworkConfig(d3, id)
<1>0. creations \in Nat /\ creations + 1 \in Nat
  BY BoundsAssumption DEF Types
<1>1. Sound(disk, creations) /\ Grown(disk, disk)
  BY DEF Types, Grown
<1>2. Sound(d0, creations) /\ Grown(disk, d0)
  BY <1>1, MkdirSound
<1>3. Sound(d1, creations) /\ Grown(disk, d1)
  BY <1>1, MigrateSound
<1>4. c \in IF HasMetadata(d2, id) THEN {[disk |-> d2, err |-> "exists"]}
            ELSE {[disk |-> d, err |-> "fault"] :
                     d \in {disk, d1, d2, d3} \cup IF migrate THEN {d0} ELSE {}}
                 \cup {[disk |-> d4, err |-> "none"]}
  BY DEF Creations
<1> HIDE DEF d0, d1
<1>5. Sound(d2, creations) /\ Grown(d1, d2)
  BY <1>3, OpenSound
<1>6. Grown(disk, d2)
  BY <1>3, <1>5 DEF Grown
<1> HIDE DEF d2
<1>7. /\ Sound(d3, creations + 1) /\ d3.oneRoot = disk.oneRoot
      /\ d3.meta = [disk.meta EXCEPT ![id] = creations + 1]
      /\ disk.app \subseteq d3.app /\ disk.shared \subseteq d3.shared
  BY <1>5, <1>6, PutSound DEF Types, Grown
<1> HIDE DEF d3
<1>8. Sound(d4, creations + 1) /\ Grown(d3, d4) /\ (d3.oneRoot => id \in d4.app)
  BY <1>7, ConfigSound
<1> HIDE DEF d4
<1>9. \A d : Sound(d, creations) => Sound(d, creations + 1)
  BY <1>0 DEF Sound, Disks
<1>10. ASSUME NEW d \in {disk, d0, d1, d2}, c.disk = d, c.err = "fault" PROVE c.disk.meta = disk.meta
  BY <1>10, <1>1, <1>2, <1>3, <1>6 DEF Grown
<1>11. HasMetadata(d2, id) <=> disk.meta[id] # 0
  BY <1>6 DEF Grown, HasMetadata
<1>12. CASE c = [disk |-> d2, err |-> "exists"] /\ HasMetadata(d2, id)
  BY <1>12, <1>5, <1>6, <1>9, <1>11 DEF Grown
<1>13. ASSUME NEW d \in {disk, d0, d1, d2}, c = [disk |-> d, err |-> "fault"]
       PROVE  /\ Sound(c.disk, creations) /\ Grown(disk, c.disk) /\ c.err = "fault"
  BY <1>13, <1>1, <1>2, <1>3, <1>5, <1>6
<1>14. CASE \E d \in {disk, d0, d1, d2} : c = [disk |-> d, err |-> "fault"]
  BY <1>14, <1>13, <1>9 DEF Grown
<1>15. CASE c = [disk |-> d3, err |-> "fault"] /\ ~HasMetadata(d2, id)
  BY <1>15, <1>7, <1>11
<1>16. CASE c = [disk |-> d4, err |-> "none"] /\ ~HasMetadata(d2, id)
  <2>1. d4.meta[id] = creations + 1
    BY <1>7, <1>8 DEF Grown, Types, Sound, Disks
  <2> QED
    BY <1>16, <1>7, <1>8, <1>11, <1>0, <2>1 DEF Grown
<1> QED
  BY <1>4, <1>12, <1>14, <1>15, <1>16

\* Whatever an opening leaves, it opens an account that is all there, or none.
LEMMA OpeningsSound ==
    ASSUME NEW d, NEW n, Sound(d, n), NEW id \in Ids, NEW o \in Openings(d, id)
    PROVE  /\ Sound(o.disk, n) /\ Grown(d, o.disk)
           /\ \/ /\ initManager # None /\ o.manager = initManager
                 /\ o.opened = openedAccountID /\ o.data = accountData /\ o.err = "opened"
              \/ /\ initManager = None /\ o.manager = None
                 /\ o.opened \in {openedAccountID, id} /\ o.data \in {accountData, None}
                 /\ o.err \in {"notfound", "fault"}
              \/ /\ initManager = None /\ o.manager = id /\ o.opened = id /\ o.data = id
                 /\ o.err = "none" /\ id \in o.disk.app \cap o.disk.shared /\ o.disk.meta[id] # 0
           /\ id \in d.app /\ d.meta[id] # 0 => o.err # "notfound"
<1> DEFINE m == MigrateToLatest(d, id)
<1>1. Sound(m, n) /\ Grown(d, m) /\ id \in m.app /\ id \in m.shared /\ Grown(d, d)
  BY MigrateSound DEF Grown
<1>2. HasMetadata(m, id) <=> d.meta[id] # 0
  BY <1>1 DEF Grown, HasMetadata
<1> DEFINE Left(dd, i, op, a, err) ==
               [disk |-> dd, manager |-> i, opened |-> op, data |-> a, err |-> err]
<1>3. o \in IF initManager # None
              THEN {Left(d, initManager, openedAccountID, accountData, "opened")}
            ELSE IF id \notin d.app
              THEN {Left(d, None, openedAccountID, accountData, "notfound")}
            ELSE {Left(dd, None, openedAccountID, accountData, "fault") : dd \in {d, m}}
                 \cup {Left(m, None, id, None, IF HasMetadata(m, id) THEN "fault" ELSE "notfound")}
                 \cup IF HasMetadata(m, id) THEN {Left(m, id, id, id, "none")} ELSE {}
  BY DEF Openings, CanOpen
<1> HIDE DEF m
<1>4. CASE initManager # None
  BY <1>1, <1>3, <1>4
<1>5. CASE initManager = None /\ id \notin d.app
  BY <1>1, <1>3, <1>5
<1>6. CASE initManager = None /\ id \in d.app
  <2>1. CASE \E dd \in {d, m} : o = Left(dd, None, openedAccountID, accountData, "fault")
    BY <1>1, <1>6, <2>1
  <2>2. CASE o = Left(m, None, id, None, IF HasMetadata(m, id) THEN "fault" ELSE "notfound")
    BY <1>1, <1>2, <1>6, <2>2
  <2>3. CASE o = Left(m, id, id, id, "none") /\ HasMetadata(m, id)
    BY <1>1, <1>2, <1>6, <2>3 DEF HasMetadata
  <2> QED
    BY <1>3, <1>6, <2>1, <2>2, <2>3
<1> QED
  BY <1>4, <1>5, <1>6

---------------------------------------------------------------------------
(* The calls.                                                              *)

LEMMA TypesAre == Types => TypeOK
BY DEF Types, TypeOK, Sound

LEMMA InitIInv == Init => IInv
<1> SUFFICES ASSUME Init PROVE IInv
  OBVIOUS
<1>1. PICK oneRoot \in BOOLEAN : disk = NoDisk(oneRoot)
  BY DEF Init
<1>2. Sound(NoDisk(oneRoot), 0)
  BY BoundsAssumption DEF Sound, NoDisk, Disks
<1>3. Types
  BY <1>1, <1>2, BoundsAssumption DEF Init, Types, Accounts, Errors
<1> QED
  BY <1>3 DEF Init, IInv, OpenIsComplete, GeneratedIsFresh, ImportFindsItsAccount

\* A call on the files of an account: what is open stays open, and stays all there.
Kept ==
    /\ UNCHANGED service
    /\ \/ initManager = None
       \/ initManager \in disk'.app \cap disk'.shared /\ disk'.meta[initManager] # 0

\* Metadata is only removed, or written where there is none.
Replaces == \E id \in Ids : disk.meta[id] # 0 /\ disk'.meta[id] \notin {disk.meta[id], 0}

\* What every step but the openings does.
LEMMA GrownKept ==
    ASSUME IInv, Sound(disk', creations'),
           disk.app \subseteq disk'.app, disk.shared \subseteq disk'.shared,
           \A id \in Ids : disk.meta[id] # 0 => disk'.meta[id] = disk.meta[id],
           UNCHANGED service
    PROVE  Kept /\ ~Replaces
BY DEF IInv, Types, OpenIsComplete, Kept, Replaces, Accounts

LEMMA AnswerIs ==
    ASSUME NEW call, NEW id, NEW err, Answer(call, id, err)
    PROVE  reply'.call = call /\ reply'.id = id /\ reply'.err = err
BY DEF Answer

LEMMA KeptStep ==
    ASSUME IInv, Kept, Sound(disk', creations'), creations' \in 0 .. MaxCreations,
           NEW call \in {"create", "generate", "delete", "config", "close", "start"},
           NEW id \in Accounts, NEW err \in Errors, Answer(call, id, err),
           call = "generate" => err # "exists"
    PROVE  IInv'
<1>1. reply'.call = call /\ reply'.id = id /\ reply'.err = err
  BY AnswerIs
<1>2. Types'
  BY <1>1 DEF Kept, service, IInv, Types
<1>3. OpenIsComplete'
  BY DEF Kept, service, IInv, OpenIsComplete
<1>4. GeneratedIsFresh' /\ ImportFindsItsAccount'
  BY <1>1 DEF GeneratedIsFresh, ImportFindsItsAccount
<1> QED
  BY <1>2, <1>3, <1>4 DEF IInv

LEMMA CreatedStep ==
    ASSUME IInv, NEW id \in Ids, creations < MaxCreations, NEW c \in Creations(id, TRUE),
           disk' = c.disk, Counted(c.disk), UNCHANGED service
    PROVE  /\ Kept /\ ~Replaces
           /\ Sound(disk', creations') /\ creations' \in 0 .. MaxCreations
           /\ c.err \in Errors /\ (id \notin disk.shared => c.err # "exists")
<1>1. Types /\ creations \in Nat /\ {creations, creations + 1} \subseteq 0 .. MaxCreations
  BY BoundsAssumption DEF IInv, Types
<1>2. disk \in Disks
  BY <1>1 DEF Types, Sound
<1>3. /\ Sound(c.disk, creations + 1)
      /\ disk.app \subseteq c.disk.app /\ disk.shared \subseteq c.disk.shared
      /\ \/ c.disk.meta = disk.meta /\ Sound(c.disk, creations)
         \/ disk.meta[id] = 0 /\ c.disk.meta = [disk.meta EXCEPT ![id] = creations + 1]
      /\ c.err \in {"none", "fault", "exists"} /\ (c.err = "exists" => disk.meta[id] # 0)
  BY <1>1, CreationsSound
<1>4. \A i \in Ids : disk.meta[i] # 0 => c.disk.meta[i] = disk.meta[i]
  BY <1>2, <1>3 DEF Disks
<1>5. Sound(disk', creations') /\ creations' \in 0 .. MaxCreations
  <2>1. CASE c.disk.meta = disk.meta
    <3>1. creations' = creations
      BY <2>1 DEF Counted
    <3>2. Sound(c.disk, creations)
      <4>1. ASSUME disk.meta[id] = 0, c.disk.meta = [disk.meta EXCEPT ![id] = creations + 1]
            PROVE  FALSE
        <5>1. c.disk.meta[id] = creations + 1
          BY <1>2, <4>1 DEF Disks
        <5> QED
          BY <1>1, <2>1, <4>1, <5>1
      <4> QED
        BY <1>3, <4>1
    <3> QED
      BY <1>1, <3>1, <3>2
  <2>2. CASE c.disk.meta # disk.meta
    BY <1>1, <1>3, <2>2 DEF Counted
  <2> QED
    BY <2>1, <2>2
<1>6. Kept /\ ~Replaces
  BY <1>3, <1>4, <1>5, GrownKept
<1>7. id \notin disk.shared => c.err # "exists"
  BY <1>1, <1>3 DEF Types, Sound
<1> QED
  BY <1>3, <1>5, <1>6, <1>7 DEF Errors

\* Files: creations, deletions and configurations.
LEMMA FilesStep ==
    ASSUME IInv, NEW id \in Ids, Files(id)
    PROVE  IInv' /\ ~Replaces
<1> USE DEF Errors, Accounts
<1>0. Types /\ Sound(disk, creations) /\ creations \in 0 .. MaxCreations /\ creations \in Nat
  BY BoundsAssumption DEF IInv, Types
<1>1. CASE CreateAccount(id)
  <2>1. CASE id \in disk.app
    <3>1. Kept /\ ~Replaces
      BY <1>0, <1>1, <2>1, GrownKept DEF CreateAccount
    <3> QED
      BY <1>0, <1>1, <2>1, <3>1, KeptStep DEF CreateAccount
  <2>2. CASE id \notin disk.app
    <3>1. PICK c \in Creations(id, TRUE) :
             disk' = c.disk /\ Counted(c.disk) /\ Answer("create", id, c.err)
      BY <1>1, <2>2 DEF CreateAccount
    <3> QED
      BY <1>1, <3>1, CreatedStep, KeptStep DEF CreateAccount
  <2> QED
    BY <2>1, <2>2
<1>2. CASE CreateGenerated(id)
  <2>1. PICK c \in Creations(id, TRUE) :
           disk' = c.disk /\ Counted(c.disk) /\ Answer("generate", id, c.err)
    BY <1>2 DEF CreateGenerated
  <2> QED
    BY <1>2, <2>1, CreatedStep, KeptStep DEF CreateGenerated, FreeId
<1>3. CASE DeleteAccount(id)
  <2>1. CASE HasMetadata(disk, id)
    <3>1. disk' \in {disk, RemoveApp(disk, id), RemoveFiles(RemoveApp(disk, id), id), RemoveBoth(disk, id)}
          /\ \E err \in {"none", "fault"} : Answer("delete", id, err)
      BY <1>3, <2>1 DEF DeleteAccount
    <3>2. Sound(disk', creations) /\ \A i \in Ids : disk'.meta[i] \in {disk.meta[i], 0}
      BY <1>0, <3>1, RemoveSound
    <3>3. Kept /\ ~Replaces /\ UNCHANGED creations
      BY <1>3, <3>2 DEF DeleteAccount, CanDelete, Kept, Replaces
    <3> QED
      BY <1>0, <3>1, <3>2, <3>3, KeptStep
  <2>2. CASE ~HasMetadata(disk, id)
    <3>1. disk' = OpenDatastore(disk, id) /\ Answer("delete", id, "notfound")
          /\ UNCHANGED <<creations, service>>
      BY <1>3, <2>2 DEF DeleteAccount
    <3>2. Sound(disk', creations') /\ Grown(disk, disk')
      BY <1>0, <3>1, OpenSound
    <3>3. Kept /\ ~Replaces
      BY <3>1, <3>2, GrownKept DEF Grown
    <3> QED
      BY <1>0, <3>1, <3>2, <3>3, KeptStep
  <2> QED
    BY <2>1, <2>2
<1>4. CASE NetworkConfigGet(id) \/ NetworkConfigSet(id)
  <2>1. disk' \in {OpenDatastore(disk, id), PutNetworkConfig(disk, id)}
        /\ Answer("config", id, "none") /\ UNCHANGED <<creations, service>>
    BY <1>4 DEF NetworkConfigGet, NetworkConfigSet
  <2>2. Sound(disk', creations') /\ Grown(disk, disk')
    BY <1>0, <2>1, OpenSound, ConfigSound
  <2>3. Kept /\ ~Replaces
    BY <2>1, <2>2, GrownKept DEF Grown
  <2> QED
    BY <1>0, <2>1, <2>2, <2>3, KeptStep
<1> QED
  BY <1>1, <1>2, <1>3, <1>4 DEF Files

\* What an opening leaves of the service.
LEMMA OpenedStep ==
    ASSUME IInv, NEW id \in Ids, NEW d, NEW n, Sound(d, n), n \in Nat, d.oneRoot = disk.oneRoot,
           disk.app \subseteq d.app, disk.shared \subseteq d.shared,
           \A i \in Ids : disk.meta[i] # 0 => d.meta[i] = disk.meta[i],
           NEW o \in Openings(d, id), Take(o)
    PROVE  /\ Sound(disk', n) /\ disk'.meta = d.meta /\ ~Replaces /\ OpenIsComplete'
           /\ initManager' \in Accounts /\ openedAccountID' \in Accounts /\ accountData' \in Accounts
           /\ initManager # None => initManager' = initManager
           /\ o.err \in Errors
           /\ id \in d.app /\ d.meta[id] # 0 => o.err # "notfound"
<1>1. /\ Sound(o.disk, n) /\ Grown(d, o.disk)
      /\ \/ /\ initManager # None /\ o.manager = initManager
            /\ o.opened = openedAccountID /\ o.data = accountData /\ o.err = "opened"
         \/ /\ initManager = None /\ o.manager = None
            /\ o.opened \in {openedAccountID, id} /\ o.data \in {accountData, None}
            /\ o.err \in {"notfound", "fault"}
         \/ /\ initManager = None /\ o.manager = id /\ o.opened = id /\ o.data = id
            /\ o.err = "none" /\ id \in o.disk.app \cap o.disk.shared /\ o.disk.meta[id] # 0
      /\ id \in d.app /\ d.meta[id] # 0 => o.err # "notfound"
  BY OpeningsSound
<1>2. disk' = o.disk /\ initManager' = o.manager /\ openedAccountID' = o.opened /\ accountData' = o.data
  BY DEF Take
<1>3. ~Replaces /\ disk'.meta = d.meta
  BY <1>1, <1>2 DEF Replaces, Grown
<1>4. None \notin Ids /\ initManager \in Accounts /\ openedAccountID \in Accounts /\ accountData \in Accounts
  BY BoundsAssumption DEF IInv, Types
<1>5. OpenIsComplete'
  <2>1. CASE initManager # None
    BY <1>1, <1>2, <1>4, <2>1 DEF IInv, OpenIsComplete, Grown, Accounts
  <2>2. CASE initManager = None
    BY <1>1, <1>2, <1>4, <2>2 DEF OpenIsComplete, Accounts
  <2> QED
    BY <2>1, <2>2
<1> QED
  BY <1>1, <1>2, <1>3, <1>4, <1>5 DEF Accounts, Errors

LEMMA SessionStep ==
    ASSUME IInv, NEW id \in Ids, Session(id)
    PROVE  IInv' /\ ~Replaces /\ (initManager # None => initManager' \in {initManager, None})
<1>0. /\ Types /\ Sound(disk, creations) /\ creations \in 0 .. MaxCreations /\ creations \in Nat
      /\ disk \in Disks /\ id \in Accounts
  BY BoundsAssumption DEF IInv, Types, Sound, Accounts
<1>1. CASE OpenAccount(id)
  <2>1. PICK o \in Openings(disk, id) : Take(o) /\ Answer("open", id, o.err)
    BY <1>1 DEF OpenAccount
  <2>2. /\ Sound(disk', creations) /\ ~Replaces /\ OpenIsComplete'
        /\ initManager' \in Accounts /\ openedAccountID' \in Accounts /\ accountData' \in Accounts
        /\ initManager # None => initManager' = initManager
        /\ o.err \in Errors
    BY <1>0, <2>1, OpenedStep
  <2>3. reply'.call = "open" /\ reply'.id = id /\ reply'.err = o.err
    BY <2>1, AnswerIs
  <2>4. creations' = creations
    BY <1>1 DEF OpenAccount
  <2> QED
    BY <1>0, <2>2, <2>3, <2>4 DEF IInv, Types, GeneratedIsFresh, ImportFindsItsAccount
<1>2. CASE UpdateAccount(id)
  <2>1. disk' \in {disk, MigrateToLatest(disk, id)} /\ accountData' \in {id, accountData}
        /\ UNCHANGED <<creations, initManager, openedAccountID>>
        /\ \E err \in {"none", "notfound", "fault"} : Answer("update", id, err)
    BY <1>2 DEF UpdateAccount
  <2>2. Sound(disk', creations') /\ Grown(disk, disk')
    BY <1>0, <2>1, MigrateSound DEF Grown
  <2>3. reply'.call = "update" /\ reply'.id = id /\ reply'.err \in Errors
    BY <2>1, AnswerIs DEF Errors
  <2>4. OpenIsComplete'
    BY <2>1, <2>2, BoundsAssumption DEF IInv, OpenIsComplete, Grown
  <2>5. ~Replaces
    BY <2>2 DEF Grown, Replaces
  <2> QED
    BY <1>0, <2>1, <2>2, <2>3, <2>4, <2>5
    DEF IInv, Types, GeneratedIsFresh, ImportFindsItsAccount, Accounts
<1>3. CASE ImportAccount(id)
  <2>1. PICK c \in Creations(id, FALSE) :
           /\ Counted(c.disk)
           /\ IF c.err # "none"
                THEN disk' = c.disk /\ Answer("import", id, c.err) /\ UNCHANGED service
                ELSE \E o \in Openings(c.disk, id) :
                        Take(o) /\ \/ Answer("import", id, o.err)
                                   \/ o.err = "none" /\ Answer("import", id, "fault")
    BY <1>3 DEF ImportAccount
  <2>2. /\ Sound(c.disk, creations + 1) /\ c.disk.oneRoot = disk.oneRoot
        /\ disk.app \subseteq c.disk.app /\ disk.shared \subseteq c.disk.shared
        /\ \/ c.disk.meta = disk.meta /\ Sound(c.disk, creations)
           \/ disk.meta[id] = 0 /\ c.disk.meta = [disk.meta EXCEPT ![id] = creations + 1]
        /\ c.err \in {"none", "fault", "exists"}
        /\ c.err = "none" => /\ c.disk.meta[id] # 0
                             /\ disk.oneRoot => id \in c.disk.app
    BY <1>0, <1>3, CreationsSound DEF ImportAccount
  <2>3. \A i \in Ids : disk.meta[i] # 0 => c.disk.meta[i] = disk.meta[i]
    BY <1>0, <2>2 DEF Disks
  <2>4. Sound(c.disk, creations') /\ creations' \in 0 .. MaxCreations /\ creations' \in Nat
    <3>1. CASE c.disk.meta = disk.meta
      <4>1. creations' = creations
        BY <2>1, <3>1 DEF Counted
      <4>2. Sound(c.disk, creations)
        BY <1>0, <2>2, <3>1 DEF Disks
      <4> QED
        BY <1>0, <4>1, <4>2
    <3>2. CASE c.disk.meta # disk.meta
      BY <1>0, <1>3, <2>1, <2>2, <3>2, BoundsAssumption DEF Counted, ImportAccount
    <3> QED
      BY <3>1, <3>2
  <2>5. CASE c.err # "none"
    <3>1. disk' = c.disk /\ Answer("import", id, c.err) /\ UNCHANGED service
      BY <2>1, <2>5
    <3>2. reply'.call = "import" /\ reply'.id = id /\ reply'.err = c.err
      BY <3>1, AnswerIs
    <3>3. Kept /\ ~Replaces
      BY <2>2, <2>3, <2>4, <3>1, GrownKept
    <3>4. OpenIsComplete'
      BY <3>3 DEF Kept, service, IInv, OpenIsComplete
    <3> QED
      BY <1>0, <2>2, <2>4, <3>1, <3>2, <3>3, <3>4
      DEF IInv, Types, service, Errors, GeneratedIsFresh, ImportFindsItsAccount
  <2>6. CASE c.err = "none"
    <3>1. PICK o \in Openings(c.disk, id) :
             Take(o) /\ \E err \in {o.err, "fault"} : Answer("import", id, err)
      BY <2>1, <2>6
    <3>2. /\ Sound(disk', creations') /\ ~Replaces /\ OpenIsComplete'
          /\ initManager' \in Accounts /\ openedAccountID' \in Accounts /\ accountData' \in Accounts
          /\ initManager # None => initManager' = initManager
          /\ o.err \in Errors
          /\ id \in c.disk.app /\ c.disk.meta[id] # 0 => o.err # "notfound"
      BY <2>2, <2>3, <2>4, <3>1, OpenedStep
    <3>3. reply'.call = "import" /\ reply'.id = id /\ reply'.err \in {o.err, "fault"}
      BY <3>1, AnswerIs
    <3>4. disk'.oneRoot = disk.oneRoot
      BY <2>2, <2>4, <3>1, OpeningsSound DEF Take, Grown
    <3> QED
      BY <1>0, <2>2, <2>4, <2>6, <3>2, <3>3, <3>4
      DEF IInv, Types, Errors, GeneratedIsFresh, ImportFindsItsAccount
  <2> QED
    BY <2>5, <2>6
<1> QED
  BY <1>1, <1>2, <1>3 DEF Session

\* The open account is closed before another one is opened.
OneAtATime == initManager # None => initManager' \in {initManager, None}

LEMMA NextStep ==
    ASSUME IInv, [Next]_vars
    PROVE  IInv' /\ ~Replaces /\ OneAtATime
<1>0. Sound(disk, creations) /\ creations \in 0 .. MaxCreations
  BY DEF IInv, Types
<1>1. ASSUME NEW id \in Ids, Files(id) PROVE IInv' /\ ~Replaces /\ OneAtATime
  <2>1. UNCHANGED service
    BY <1>1 DEF Files, CreateAccount, CreateGenerated, DeleteAccount, NetworkConfigGet, NetworkConfigSet
  <2> QED
    BY <1>1, <2>1, FilesStep DEF OneAtATime, service
<1>2. ASSUME NEW id \in Ids, Session(id) PROVE IInv' /\ ~Replaces /\ OneAtATime
  BY <1>2, SessionStep DEF OneAtATime
<1>3. ASSUME CloseAccount \/ Restart PROVE IInv' /\ ~Replaces /\ OneAtATime
  <2>1. UNCHANGED <<disk, creations>>
        /\ \/ UNCHANGED service
           \/ initManager' = None /\ openedAccountID' = None /\ accountData' = None
    BY <1>3 DEF CloseAccount, Restart
  <2>2. PICK call \in {"close", "start"}, id \in Accounts, err \in Errors : Answer(call, id, err)
    BY <1>3 DEF CloseAccount, Restart, Accounts, Errors, IInv, Types
  <2>3. reply'.call = call /\ reply'.id = id /\ reply'.err = err
    BY <2>2, AnswerIs
  <2>4. Types'
    BY <1>0, <2>1, <2>3 DEF IInv, Types, service, Accounts
  <2>5. OpenIsComplete' /\ OneAtATime
    BY <2>1 DEF IInv, OpenIsComplete, service, OneAtATime
  <2>6. GeneratedIsFresh' /\ ImportFindsItsAccount'
    BY <2>3 DEF GeneratedIsFresh, ImportFindsItsAccount
  <2>7. ~Replaces
    BY <2>1 DEF Replaces
  <2> QED
    BY <2>4, <2>5, <2>6, <2>7 DEF IInv
<1>4. ASSUME UNCHANGED vars PROVE IInv' /\ ~Replaces /\ OneAtATime
  <2>1. UNCHANGED <<disk, creations, initManager, openedAccountID, accountData, reply>>
    BY <1>4 DEF vars, service
  <2> QED
    BY <2>1
    DEF IInv, Types, OpenIsComplete, GeneratedIsFresh, ImportFindsItsAccount, Replaces, OneAtATime
<1> QED
  BY <1>1, <1>2, <1>3, <1>4 DEF Next

LEMMA Invariance == Spec => []IInv
BY InitIInv, NextStep, PTL DEF Spec

---------------------------------------------------------------------------
\* Types; what is in a datastore is in its directory, whatever failed half-way.
THEOREM Typed == Spec => []TypeOK
<1>1. IInv => TypeOK
  BY TypesAre DEF IInv
<1> QED
  BY <1>1, Invariance, PTL

\* The account whose node runs is all there, and the service knows its id and its metadata.
THEOREM OpenedIsComplete == Spec => []OpenIsComplete
<1>1. IInv => OpenIsComplete
  BY DEF IInv
<1> QED
  BY <1>1, Invariance, PTL

\* A generated id is that of no other account and of nothing left behind.
THEOREM FreshIds == Spec => []GeneratedIsFresh
<1>1. IInv => GeneratedIsFresh
  BY DEF IInv
<1> QED
  BY <1>1, Invariance, PTL

\* With one root, an import finds the account it has created.
THEOREM ImportsFind == Spec => []ImportFindsItsAccount
<1>1. IInv => ImportFindsItsAccount
  BY DEF IInv
<1> QED
  BY <1>1, Invariance, PTL

\* One account is closed before another is opened, and no metadata is ever replaced.
THEOREM NoneReplaced == Spec => NothingReplaced
<1>1. IInv /\ [Next]_vars
        => [ /\ initManager # None => initManager' \in {initManager, None}
             /\ \A id \in Ids : disk.meta[id] # 0 => disk'.meta[id] \in {disk.meta[id], 0} ]_vars
  BY NextStep DEF OneAtATime, Replaces
<1> QED
  BY <1>1, Invariance, PTL DEF Spec, NothingReplaced
============================================================================
