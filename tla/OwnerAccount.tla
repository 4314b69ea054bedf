----------------------------- MODULE OwnerAccount -----------------------------
(***************************************************************************)
(* The accounts of CH-Api-Drive (repository/drive_users.rs) and the pool   *)
(* of database connections (db.rs) that all requests share: the first      *)
(* requests of a user, who has no row yet, and the requests that decide on *)
(* the quota in the owner's row.                                           *)
(*                                                                         *)
(* UploadSession and DriveTree begin when the row is there and take the    *)
(* connection for granted.  Here a request is cut at the awaits that need  *)
(* a connection or wait for another transaction.  A statement run on the   *)
(* pool takes a free connection and gives it back in one step; a           *)
(* transaction, and a statement that waits for a row, keeps its own.       *)
(*                                                                         *)
(* What a request does with nodes, sessions and files is in the other      *)
(* modules: here a resumable upload is the bytes it reserves and a file is *)
(* its size.  Purges, which only give space back, are in DriveTree.        *)
(***************************************************************************)
EXTENDS Integers, FiniteSets, FiniteSetsExt

CONSTANTS
    Users,
    Handlers,       \* request slots
    NoHandler,      \* nobody
    PoolSize,       \* max_connections
    Sizes,          \* the sizes of uploads
    DefaultQuota,   \* default_quota_bytes
    NewQuotas,      \* the values an administrator may set
    Ops             \* which requests arrive, a subset of Operations

\* "read" stands for the requests that only need the account, as me_storage.
Operations == {"read", "open", "upload", "set_quota"}

ASSUME UsersAssumption == Users # {}
ASSUME HandlersAssumption == IsFiniteSet(Handlers) /\ NoHandler \notin Handlers
ASSUME PoolAssumption == PoolSize \in Nat \ {0}
ASSUME SizesAssumption == Sizes \subseteq Nat
ASSUME QuotaAssumption == DefaultQuota \in Nat /\ NewQuotas \subseteq Nat \ {0}
ASSUME ScopeAssumption == Ops \subseteq Operations

VARIABLES
    accounts,     \* users with a committed row in drive_users
    roots,        \* [Users -> Nat], folders without a parent
    quota_bytes,  \* [Users -> Nat]
    used_bytes,   \* [Users -> Nat]
    reserved,     \* [Users -> Nat], sum_reserved_active
    inserting,    \* [Users -> ...], whose open transaction has inserted the row
    rowLock,      \* [Users -> ...], whose open transaction holds the row FOR UPDATE
    conn,         \* the handlers that hold a connection of the pool
    pc,           \* [Handlers -> Labels], the next await
    req           \* [Handlers -> Request], the local variables

rowVars == <<accounts, roots, quota_bytes, used_bytes, reserved>>
lockVars == <<inserting, rowLock>>
vars == <<rowVars, lockVars, conn, pc, req>>

\* The labels of ensure_user.
EnsureLabels == {"find", "begin_user", "insert_user", "commit_user", "find_again"}
\* The labels at which the handler holds the owner's row, or a new row.
LockLabels == {"sum_reserved", "commit_open", "commit_upload"}
TransactionLabels == {"insert_user", "commit_user", "lock_user", "update_quota"}
                     \cup LockLabels
\* "stream": the client sends the file.  "panicked": expect found no user.
Labels == {"idle", "stream", "free_name", "begin", "acquire", "panicked"}
          \cup EnsureLabels \cup TransactionLabels

Request == [op: Operations,
            user: Users,
            amount: Nat,        \* declared_size, size, or the quota to set
            remaining: Nat,     \* of the row that ensure_user returned
            inserted: BOOLEAN]  \* rows_affected() == 1

Arrived(op, u, amount) ==
    [op |-> op, user |-> u, amount |-> amount, remaining |-> 0, inserted |-> FALSE]
NoRequest == Arrived("read", CHOOSE u \in Users : TRUE, 0)

Init ==
    /\ accounts = {}
    /\ roots = [u \in Users |-> 0]
    /\ quota_bytes = [u \in Users |-> 0]
    /\ used_bytes = [u \in Users |-> 0]
    /\ reserved = [u \in Users |-> 0]
    /\ inserting = [u \in Users |-> NoHandler]
    /\ rowLock = [u \in Users |-> NoHandler]
    /\ conn = {}
    /\ pc = [h \in Handlers |-> "idle"]
    /\ req = [h \in Handlers |-> NoRequest]

(***************************************************************************)
(* CONNECTIONS, ROWS AND CONTROL                                           *)
(***************************************************************************)
owner(h) == req[h].user

Goto(h, label) == pc' = [pc EXCEPT ![h] = label]

Return(h) == Goto(h, "idle") /\ req' = [req EXCEPT ![h] = NoRequest]

FreeConnection == Cardinality(conn) < PoolSize

\* Pool::begin, or a statement on the pool that goes on to wait.
Acquire(h) == FreeConnection /\ conn' = conn \cup {h}
Release(h) == conn' = conn \ {h}

RowFree(u) == rowLock[u] = NoHandler

\* Mutant: a plain SELECT, without FOR UPDATE.
LockRow_plain_select(h) == UNCHANGED rowLock

LockRow(h) == rowLock' = [rowLock EXCEPT ![owner(h)] = h]
UnlockRow(h) == rowLock' = [u \in Users |-> IF rowLock[u] = h THEN NoHandler ELSE rowLock[u]]

\* Commit or rollback of the transaction, and the end of the request.
EndOfRequest(h) == UnlockRow(h) /\ Release(h) /\ Return(h)

(***************************************************************************)
(* ARRIVAL                                                                 *)
(***************************************************************************)
\* Only set_quota names a user who need not exist, and does not create one.
Receive(h, op, u, amount) ==
    /\ op \in Ops
    /\ pc[h] = "idle"
    /\ req' = [req EXCEPT ![h] = Arrived(op, u, amount)]
    /\ Goto(h, IF op = "set_quota" THEN "acquire" ELSE "find")
    /\ UNCHANGED <<rowVars, lockVars, conn>>

Arrival(h) == \E u \in Users :
    \/ Receive(h, "read", u, 0)
    \/ \E op \in {"open", "upload"}, size \in Sizes : Receive(h, op, u, size)
    \/ \E quota \in NewQuotas : Receive(h, "set_quota", u, quota)

(***************************************************************************)
(* ENSURE_USER                                                             *)
(***************************************************************************)
\* ensure_user returns the row it has found.
UserFound(h) ==
    IF req[h].op = "read" THEN Return(h)
    ELSE /\ Goto(h, IF req[h].op = "upload" THEN "stream" ELSE "begin")
         /\ req' = [req EXCEPT ![h].remaining = IF req[h].op = "upload"
                                    THEN Max({0, quota_bytes[owner(h)] - used_bytes[owner(h)]})
                                    ELSE 0]

Find(h) ==
    /\ pc[h] = "find"
    /\ FreeConnection
    /\ IF owner(h) \in accounts THEN UserFound(h) ELSE Goto(h, "begin_user") /\ UNCHANGED req
    /\ UNCHANGED <<rowVars, lockVars, conn>>

BeginUser(h) ==
    /\ pc[h] = "begin_user"
    /\ Acquire(h)
    /\ Goto(h, "insert_user")
    /\ UNCHANGED <<rowVars, lockVars, req>>

\* Mutant: the root is inserted whatever rows_affected says.
InsertUser_always_root(h) ==
    LET u == owner(h)
    IN /\ pc[h] = "insert_user"
       /\ inserting[u] = NoHandler
       /\ req' = [req EXCEPT ![h].inserted = TRUE]
       /\ inserting' = [inserting EXCEPT ![u] = h]
       /\ Goto(h, "commit_user")
       /\ UNCHANGED <<rowVars, rowLock, conn>>

\* INSERT ... ON CONFLICT DO NOTHING waits for the end of another transaction that
\* has inserted the user.  When the row is inserted, the root is too.
InsertUser(h) ==
    LET u == owner(h)
        inserted == u \notin accounts
    IN /\ pc[h] = "insert_user"
       /\ inserting[u] = NoHandler
       /\ req' = [req EXCEPT ![h].inserted = inserted]
       /\ inserting' = [inserting EXCEPT ![u] = IF inserted THEN h ELSE NoHandler]
       /\ Goto(h, "commit_user")
       /\ UNCHANGED <<rowVars, rowLock, conn>>

\* What the transaction has inserted becomes visible.
PublishInsertion(h) ==
    LET u == owner(h)
    IN IF req[h].inserted
       THEN /\ accounts' = accounts \cup {u}
            /\ roots' = [roots EXCEPT ![u] = @ + 1]
            /\ quota_bytes' = [quota_bytes EXCEPT ![u] = DefaultQuota]
            /\ used_bytes' = [used_bytes EXCEPT ![u] = 0]
            /\ inserting' = [inserting EXCEPT ![u] = NoHandler]
       ELSE UNCHANGED <<accounts, roots, quota_bytes, used_bytes, inserting>>

\* Mutant: the transaction goes out of scope without a commit.
CommitUser_forgotten(h) ==
    /\ pc[h] = "commit_user"
    /\ inserting' = [u \in Users |-> IF inserting[u] = h THEN NoHandler ELSE inserting[u]]
    /\ req' = [req EXCEPT ![h].inserted = FALSE]
    /\ Release(h)
    /\ Goto(h, "find_again")
    /\ UNCHANGED <<rowVars, rowLock>>

\* Mutant: the row is read on the pool before the commit, for a second connection.
CommitUser_find_inside(h) ==
    /\ pc[h] = "commit_user"
    /\ FreeConnection
    /\ PublishInsertion(h)
    /\ req' = [req EXCEPT ![h].inserted = FALSE]
    /\ Release(h)
    /\ Goto(h, "find_again")
    /\ UNCHANGED <<reserved, rowLock>>

CommitUser(h) ==
    /\ pc[h] = "commit_user"
    /\ PublishInsertion(h)
    /\ req' = [req EXCEPT ![h].inserted = FALSE]
    /\ Release(h)
    /\ Goto(h, "find_again")
    /\ UNCHANGED <<reserved, rowLock>>

\* expect("drive_user présent après upsert")
FindAgain(h) ==
    /\ pc[h] = "find_again"
    /\ FreeConnection
    /\ IF owner(h) \in accounts THEN UserFound(h) ELSE Goto(h, "panicked") /\ UNCHANGED req
    /\ UNCHANGED <<rowVars, lockVars, conn>>

(***************************************************************************)
(* OPEN, UPLOAD AND SET_QUOTA                                              *)
(***************************************************************************)
\* The stream of a direct upload ends, when the client likes; it is refused early
\* by the space that ensure_user found.
StreamEnds(h) ==
    /\ pc[h] = "stream"
    /\ IF req[h].amount > req[h].remaining
       THEN Return(h)
       ELSE Goto(h, "free_name") /\ req' = [req EXCEPT ![h].remaining = 0]
    /\ UNCHANGED <<rowVars, lockVars, conn>>

FreeName(h) ==
    /\ pc[h] = "free_name"
    /\ FreeConnection
    /\ Goto(h, "begin")
    /\ UNCHANGED <<rowVars, lockVars, conn, req>>

Begin(h) ==
    /\ pc[h] = "begin"
    /\ Acquire(h)
    /\ Goto(h, "lock_user")
    /\ UNCHANGED <<rowVars, lockVars, req>>

\* Mutant: the check while the file is streamed is taken to be enough.
over_quota_checked_early(h) == FALSE

over_quota(h) == used_bytes[owner(h)] + req[h].amount > quota_bytes[owner(h)]

\* quota_used_for_update.  upload decides on what it reads; a refusal rolls back.
LockUser(h) ==
    LET u == owner(h)
    IN /\ pc[h] = "lock_user"
       /\ RowFree(u)
       /\ IF req[h].op = "upload" /\ over_quota(h)
          THEN EndOfRequest(h)
          ELSE /\ LockRow(h)
               /\ Goto(h, IF req[h].op = "upload" THEN "commit_upload" ELSE "sum_reserved")
               /\ UNCHANGED <<conn, req>>
       /\ UNCHANGED <<rowVars, inserting>>

space_left(u) == Max({0, quota_bytes[u] - used_bytes[u] - reserved[u]})

\* sum_reserved_active.  The session is inserted in the same transaction.
SumReserved(h) ==
    /\ pc[h] = "sum_reserved"
    /\ IF req[h].amount > space_left(owner(h))
       THEN EndOfRequest(h)
       ELSE Goto(h, "commit_open") /\ UNCHANGED <<rowLock, conn, req>>
    /\ UNCHANGED <<rowVars, inserting>>

CommitOpen(h) ==
    /\ pc[h] = "commit_open"
    /\ reserved' = [reserved EXCEPT ![owner(h)] = @ + req[h].amount]
    /\ EndOfRequest(h)
    /\ UNCHANGED <<accounts, roots, quota_bytes, used_bytes, inserting>>

\* insert_file and add_used_bytes; the rest of the upload needs no connection
\* that this module tells apart.
CommitUpload(h) ==
    /\ pc[h] = "commit_upload"
    /\ used_bytes' = [used_bytes EXCEPT ![owner(h)] = @ + req[h].amount]
    /\ EndOfRequest(h)
    /\ UNCHANGED <<accounts, roots, quota_bytes, reserved, inserting>>

\* set_quota gets a connection for its one UPDATE,
AcquireForQuota(h) ==
    /\ pc[h] = "acquire"
    /\ Acquire(h)
    /\ Goto(h, "update_quota")
    /\ UNCHANGED <<rowVars, lockVars, req>>

\* and waits for the row when there is one; otherwise it answers 404.
SetQuota(h) ==
    LET u == owner(h)
    IN /\ pc[h] = "update_quota"
       /\ u \in accounts => RowFree(u)
       /\ quota_bytes' = IF u \in accounts THEN [quota_bytes EXCEPT ![u] = req[h].amount]
                         ELSE quota_bytes
       /\ EndOfRequest(h)
       /\ UNCHANGED <<accounts, roots, used_bytes, reserved, inserting>>

(***************************************************************************)
(* THE REST OF THE SYSTEM                                                  *)
(***************************************************************************)
\* A session is completed without a file, aborted or collected.
SessionEnds(u) ==
    /\ \E size \in Sizes : size <= reserved[u] /\ reserved' = [reserved EXCEPT ![u] = @ - size]
    /\ UNCHANGED <<accounts, roots, quota_bytes, used_bytes, lockVars, conn, pc, req>>

\* No connection within acquire_timeout: the request answers 500.
AcquireTimesOut(h) ==
    /\ pc[h] \in {"find", "begin_user", "find_again", "free_name", "begin", "acquire"}
    /\ ~FreeConnection
    /\ Return(h)
    /\ UNCHANGED <<rowVars, lockVars, conn>>

\* The future is dropped: what it has begun rolls back.
Drop(h) ==
    /\ pc[h] \notin {"idle", "panicked"}
    /\ inserting' = [u \in Users |-> IF inserting[u] = h THEN NoHandler ELSE inserting[u]]
    /\ EndOfRequest(h)
    /\ UNCHANGED rowVars

(***************************************************************************)
(* SPECIFICATION                                                           *)
(***************************************************************************)
HandlerStep(h) ==
    \/ Find(h) \/ BeginUser(h) \/ InsertUser(h) \/ CommitUser(h) \/ FindAgain(h)
    \/ FreeName(h) \/ Begin(h) \/ LockUser(h) \/ SumReserved(h) \/ CommitOpen(h)
    \/ CommitUpload(h) \/ AcquireForQuota(h) \/ SetQuota(h)

Next ==
    \/ \E h \in Handlers : \/ Arrival(h) \/ HandlerStep(h) \/ StreamEnds(h)
                           \/ AcquireTimesOut(h) \/ Drop(h)
    \/ \E u \in Users : SessionEnds(u)

Spec == Init /\ [][Next]_vars

\* The runtime polls each request, the pool serves its waiters in their order, and
\* so does PostgreSQL.  Nothing is assumed of the client that streams a file, nor
\* that a request that waits for a connection times out.
Fairness == \A h \in Handlers : SF_vars(HandlerStep(h))

FairSpec == Spec /\ Fairness

(***************************************************************************)
(* PROPERTIES                                                              *)
(***************************************************************************)
\* Type invariant, with the discipline of the resources: who is at a label of a
\* transaction holds a connection, who decides on the quota holds the row.
TypeOK ==
    /\ accounts \subseteq Users
    /\ roots \in [Users -> Nat]
    /\ quota_bytes \in [Users -> Nat]
    /\ used_bytes \in [Users -> Nat]
    /\ reserved \in [Users -> Nat]
    /\ inserting \in [Users -> Handlers \cup {NoHandler}]
    /\ rowLock \in [Users -> Handlers \cup {NoHandler}]
    /\ pc \in [Handlers -> Labels]
    /\ req \in [Handlers -> Request]
    /\ conn = {h \in Handlers : pc[h] \in TransactionLabels}
    /\ \A h \in Handlers, u \in Users :
          /\ rowLock[u] = h <=> owner(h) = u /\ pc[h] \in LockLabels
          /\ inserting[u] = h <=> owner(h) = u /\ pc[h] = "commit_user" /\ req[h].inserted

\* First requests in parallel make one account with one root, and no account is
\* ever seen without its root (ensure_user).
OneRootPerUser == \A u \in Users : roots[u] = IF u \in accounts THEN 1 ELSE 0

\* The expect at the end of ensure_user never panics: a user whose insertion did
\* nothing was inserted and committed by somebody else.
UserIsThere == \A h \in Handlers : pc[h] # "panicked"

\* What was checked still holds when it is used, with first requests, uploads and
\* set_quota in parallel: a session is opened only when it fits beside the files and
\* the sessions of that moment, and an upload never takes used_bytes past the quota.
\* (It may take what a session has reserved: over_quota does not look at sessions.)
QuotaIsKept ==
    [][\A u \in Users :
         /\ reserved'[u] > reserved[u] => used_bytes'[u] + reserved'[u] <= quota_bytes'[u]
         /\ used_bytes'[u] > used_bytes[u] => used_bytes'[u] <= quota_bytes'[u]]_vars

\* Every request is answered, with more requests than connections and with clients
\* that stream for ever: nobody who holds a connection waits for a second one, and
\* no connection or row is held while a client is read.
RequestsAreAnswered ==
    \A h \in Handlers : pc[h] \notin {"idle", "stream"} ~> pc[h] \in {"idle", "stream"}

=============================================================================
