-------------------------- MODULE AccountService ---------------------------
(***************************************************************************)
(* The accounts of a device and the one that is opened (bertyaccount). An  *)
(* account has a directory under the application root and one under the    *)
(* shared root (one and the same on some platforms); its metadata and its  *)
(* network configuration are keys of a datastore in the shared directory,  *)
(* and opening that datastore, even to read, creates the directory.        *)
(*                                                                         *)
(* Calls hold muService from start to end, so each is one step; a call may *)
(* fail after any of its writes (a full disk, a rejected configuration),   *)
(* and what it has written stays. The node that an opened account runs and *)
(* the contents of the files are abstracted.                               *)
(***************************************************************************)
EXTENDS Naturals

CONSTANTS
    Ids,           \* account ids
    MaxCreations,  \* bound on accounts created
    None           \* no account

ASSUME BoundsAssumption == MaxCreations \in Nat /\ None \notin Ids

VARIABLES
    disk,         \* the directories and datastores of the accounts, under one root or two
    creations,    \* accounts created so far
    initManager,  \* account whose node runs
    openedAccountID,
    accountData,  \* account whose metadata the service keeps
    reply         \* the last call and its answer

service == <<initManager, openedAccountID, accountData>>
vars == <<disk, creations, service, reply>>

\* oneRoot: the application root is also the shared root. meta: per account, the
\* number of its creation, 0 without metadata.
Disks == [oneRoot : BOOLEAN, app : SUBSET Ids, shared : SUBSET Ids,
          meta : [Ids -> 0 .. MaxCreations], netconf : SUBSET Ids]

NoDisk(oneRoot) == [oneRoot |-> oneRoot, app |-> {}, shared |-> {},
                    meta |-> [id \in Ids |-> 0], netconf |-> {}]

Init ==
    /\ disk \in {NoDisk(oneRoot) : oneRoot \in BOOLEAN} /\ creations = 0
    /\ initManager = None /\ openedAccountID = None /\ accountData = None
    /\ reply = [call |-> "start", id |-> None, err |-> "none"]

Answer(call, id, err) == reply' = [call |-> call, id |-> id, err |-> err]

---------------------------------------------------------------------------
(* What the calls do to the disk.                                          *)

MkdirApp(d, id) ==
    IF d.oneRoot THEN [d EXCEPT !.app = @ \cup {id}, !.shared = @ \cup {id}]
    ELSE [d EXCEPT !.app = @ \cup {id}]

\* GetRootDatastoreForPath, for reading as for writing. (Mutant: the roots are
\* always taken for two.)
OpenDatastoreBug(d, id) == [d EXCEPT !.shared = @ \cup {id}]
OpenDatastore(d, id) ==
    IF d.oneRoot THEN MkdirApp(d, id) ELSE [d EXCEPT !.shared = @ \cup {id}]

MigrateToLatest(d, id) == OpenDatastore(MkdirApp(d, id), id)

PutMetadata(d, id) == [OpenDatastore(d, id) EXCEPT !.meta[id] = creations + 1]
PutNetworkConfig(d, id) == [OpenDatastore(d, id) EXCEPT !.netconf = @ \cup {id}]

\* RemoveAll of the application directory and of the shared one; it may stop
\* half-way, with the files gone and the directory still there.
RemoveFiles(d, id) == [d EXCEPT !.meta[id] = 0, !.netconf = @ \ {id}]
RemoveApp(d, id) == IF d.oneRoot THEN RemoveFiles(d, id) ELSE [d EXCEPT !.app = @ \ {id}]
RemoveBoth(d, id) == [RemoveFiles(d, id) EXCEPT !.app = @ \ {id}, !.shared = @ \ {id}]

\* The check of createAccountMetadata. (Mutant: dropped.)
HasMetadataBug(d, id) == FALSE
HasMetadata(d, id) == d.meta[id] # 0

\* createAccount from the migration on: all it may leave on the disk.
Creations(id, migrate) ==
    LET d1 == IF migrate THEN MigrateToLatest(disk, id) ELSE disk
        d2 == OpenDatastore(d1, id)
        d3 == PutMetadata(d2, id)
        failed == {disk, d1, d2, d3} \cup IF migrate THEN {MkdirApp(disk, id)} ELSE {}
    IN  IF HasMetadata(d2, id)
          THEN {[disk |-> d2, err |-> "exists"]}
          ELSE {[disk |-> d, err |-> "fault"] : d \in failed}
                 \cup {[disk |-> PutNetworkConfig(d3, id), err |-> "none"]}

Counted(d) == creations' = IF d.meta = disk.meta THEN creations ELSE creations + 1

---------------------------------------------------------------------------
(* Creation and deletion.                                                  *)

CreateAccount(id) ==
    /\ creations < MaxCreations
    /\ IF id \in disk.app
         THEN UNCHANGED <<disk, creations>> /\ Answer("create", id, "exists")
         ELSE \E c \in Creations(id, TRUE) :
                 disk' = c.disk /\ Counted(c.disk) /\ Answer("create", id, c.err)
    /\ UNCHANGED service

\* An id that is free under both roots. (Mutant: under the application root.)
FreeIdBug(id) == id \notin disk.app
FreeId(id) == id \notin disk.app /\ id \notin disk.shared

\* CreateAccount without an id: generateNewAccountID.
CreateGenerated(id) ==
    /\ creations < MaxCreations
    /\ FreeId(id)
    /\ \E c \in Creations(id, TRUE) :
          disk' = c.disk /\ Counted(c.disk) /\ Answer("generate", id, c.err)
    /\ UNCHANGED service

\* (Mutant: an account can be deleted while it is open.)
CanDeleteBug == TRUE
CanDelete == initManager = None

DeleteAccount(id) ==
    /\ CanDelete
    /\ IF ~HasMetadata(disk, id)
         THEN disk' = OpenDatastore(disk, id) /\ Answer("delete", id, "notfound")
         ELSE \/ disk' = RemoveBoth(disk, id) /\ Answer("delete", id, "none")
              \/ /\ disk' \in {disk, RemoveApp(disk, id), RemoveFiles(RemoveApp(disk, id), id)}
                 /\ Answer("delete", id, "fault")
    /\ UNCHANGED <<creations, service>>

\* NetworkConfigGet and NetworkConfigSet take no lock and no care of whether the
\* account exists.
NetworkConfigGet(id) ==
    /\ disk' = OpenDatastore(disk, id)
    /\ Answer("config", id, "none")
    /\ UNCHANGED <<creations, service>>

NetworkConfigSet(id) ==
    /\ disk' = PutNetworkConfig(disk, id)
    /\ Answer("config", id, "none")
    /\ UNCHANGED <<creations, service>>

---------------------------------------------------------------------------
(* Opening and closing.                                                    *)

\* (Mutant: an open account does not stand in the way.)
CanOpenBug == TRUE
CanOpen == initManager = None

\* openAccount on the disk d: all it may leave behind. openedAccountID is set
\* before the metadata is read and the node started, and only CloseAccount
\* resets it; accountData is reset on every failure after that.
Openings(d, id) ==
    LET m == MigrateToLatest(d, id)
        Left(dd, i, o, a, err) ==
            [disk |-> dd, manager |-> i, opened |-> o, data |-> a, err |-> err]
    IN  IF ~CanOpen
          THEN {Left(d, initManager, openedAccountID, accountData, "opened")}
        ELSE IF id \notin d.app
          THEN {Left(d, None, openedAccountID, accountData, "notfound")}
        ELSE {Left(dd, None, openedAccountID, accountData, "fault") : dd \in {d, m}}
             \cup {Left(m, None, id, None, IF HasMetadata(m, id) THEN "fault" ELSE "notfound")}
             \cup IF HasMetadata(m, id) THEN {Left(m, id, id, id, "none")} ELSE {}

Take(o) == /\ disk' = o.disk
           /\ initManager' = o.manager
           /\ openedAccountID' = o.opened
           /\ accountData' = o.data

OpenAccount(id) ==
    /\ \E o \in Openings(disk, id) : Take(o) /\ Answer("open", id, o.err)
    /\ UNCHANGED creations

\* CloseAccount; a node that fails to stop stays the opened one.
CloseAccount ==
    /\ initManager # None
    /\ \/ initManager' = None /\ openedAccountID' = None /\ accountData' = None
       \/ UNCHANGED service
    /\ Answer("close", initManager, IF initManager' = None THEN "none" ELSE "fault")
    /\ UNCHANGED <<disk, creations>>

\* UpdateAccount keeps the metadata of whatever account it has updated.
UpdateAccount(id) ==
    /\ id \in disk.app
    /\ \/ /\ disk' = MigrateToLatest(disk, id)
          /\ accountData' = IF HasMetadata(disk, id) THEN id ELSE accountData
          /\ Answer("update", id, IF HasMetadata(disk, id) THEN "none" ELSE "notfound")
       \/ /\ disk' \in {disk, MigrateToLatest(disk, id)}
          /\ Answer("update", id, "fault")
          /\ UNCHANGED accountData
    /\ UNCHANGED <<creations, initManager, openedAccountID>>

\* importAccount: the account is created, without migration, then opened with the
\* backup, then updated with what the backup holds. A failure after the opening
\* leaves the account open.
ImportAccount(id) ==
    /\ creations < MaxCreations
    /\ id \notin disk.app
    /\ \E c \in Creations(id, FALSE) :
          /\ Counted(c.disk)
          /\ IF c.err # "none"
               THEN disk' = c.disk /\ Answer("import", id, c.err) /\ UNCHANGED service
               ELSE \E o \in Openings(c.disk, id) :
                       Take(o) /\ \/ Answer("import", id, o.err)
                                  \/ o.err = "none" /\ Answer("import", id, "fault")

\* The process ends, with or without Close.
Restart ==
    /\ initManager' = None /\ openedAccountID' = None /\ accountData' = None
    /\ Answer("start", None, "none")
    /\ UNCHANGED <<disk, creations>>

---------------------------------------------------------------------------
Files(id) == \/ CreateAccount(id) \/ CreateGenerated(id) \/ DeleteAccount(id)
             \/ NetworkConfigGet(id) \/ NetworkConfigSet(id)

Session(id) == OpenAccount(id) \/ UpdateAccount(id) \/ ImportAccount(id)

Next == CloseAccount \/ Restart \/ \E id \in Ids : Files(id) \/ Session(id)

Spec == Init /\ [][Next]_vars

---------------------------------------------------------------------------
(* Properties.                                                             *)

Accounts == Ids \cup {None}
Errors == {"none", "fault", "exists", "notfound", "opened"}

\* Types; what is in a datastore is in the directory of the shared root, which may
\* be the one of the application root.
TypeOK ==
    /\ disk \in Disks
    /\ disk.oneRoot => disk.app = disk.shared
    /\ \A id \in Ids : disk.meta[id] # 0 \/ id \in disk.netconf => id \in disk.shared
    /\ \A id \in Ids : disk.meta[id] <= creations
    /\ creations \in 0 .. MaxCreations
    /\ initManager \in Accounts /\ openedAccountID \in Accounts /\ accountData \in Accounts
    /\ reply.id \in Accounts /\ reply.err \in Errors

\* A node runs on an account that is all there: nothing deletes, replaces or
\* half-creates the account that is open, and the service knows its id and has
\* metadata at hand.
OpenIsComplete ==
    initManager # None =>
        /\ initManager \in disk.app \cap disk.shared
        /\ disk.meta[initManager] # 0
        /\ openedAccountID = initManager
        /\ accountData # None

\* One account is closed before another is opened, and no creation or import
\* takes the place of an existing account: metadata is only ever removed.
NothingReplaced ==
    [][ /\ initManager # None => initManager' \in {initManager, None}
        /\ \A id \in Ids : disk.meta[id] # 0 => disk'.meta[id] \in {disk.meta[id], 0} ]_vars

\* A generated id is not that of another account, nor of what a deletion or a
\* creation that failed half-way has left.
GeneratedIsFresh == reply.call = "generate" => reply.err # "exists"

\* With one root, an import finds the account that it has just created without
\* the migration.
ImportFindsItsAccount ==
    reply.call = "import" /\ disk.oneRoot => reply.err # "notfound"
============================================================================
