-------------------------- MODULE OwnerAccountProofs --------------------------
(***************************************************************************)
(* Proofs about OwnerAccount, for any number of users, requests and        *)
(* connections and any sizes.                                              *)
(***************************************************************************)
EXTENDS OwnerAccount, TLAPS

(***************************************************************************)
(* THE INDUCTIVE INVARIANT                                                 *)
(***************************************************************************)
\* The parts of the type invariant.
RowTypes ==
    /\ accounts \subseteq Users
    /\ roots \in [Users -> Nat]
    /\ quota_bytes \in [Users -> Nat]
    /\ used_bytes \in [Users -> Nat]
    /\ reserved \in [Users -> Nat]

HandlerTypes == pc \in [Handlers -> Labels] /\ req \in [Handlers -> Request]

Resources ==
    /\ inserting \in [Users -> Handlers \cup {NoHandler}]
    /\ rowLock \in [Users -> Handlers \cup {NoHandler}]
    /\ conn = {h \in Handlers : pc[h] \in TransactionLabels}
    /\ \A h \in Handlers, u \in Users :
          /\ rowLock[u] = h <=> owner(h) = u /\ pc[h] \in LockLabels
          /\ inserting[u] = h <=> owner(h) = u /\ pc[h] = "commit_user" /\ req[h].inserted

\* Who inserts a user is the first to do so.
FirstInsertion == \A u \in Users : inserting[u] # NoHandler => u \notin accounts

\* Behind ensure_user the account is there, and it stays.
KnownLabels == {"find_again", "stream", "free_name", "begin", "lock_user"} \cup LockLabels

\* What a request knows: its account, and under the row lock the result of the check.
Sound(h) ==
    /\ pc[h] # "panicked"
    /\ pc[h] \in KnownLabels => owner(h) \in accounts
    /\ pc[h] = "commit_user" /\ ~req[h].inserted => owner(h) \in accounts
    /\ pc[h] = "commit_upload" => ~over_quota(h)
    /\ pc[h] = "commit_open" =>
          req[h].amount = 0
          \/ used_bytes[owner(h)] + reserved[owner(h)] + req[h].amount <= quota_bytes[owner(h)]

IInv ==
    /\ RowTypes /\ HandlerTypes /\ Resources
    /\ OneRootPerUser /\ FirstInsertion
    /\ \A h \in Handlers : Sound(h)

LEMMA TypeParts == TypeOK <=> RowTypes /\ HandlerTypes /\ Resources
BY DEF TypeOK, RowTypes, HandlerTypes, Resources

(***************************************************************************)
(* RECORDS, LABELS AND THE SPACE LEFT                                      *)
(***************************************************************************)
\* The records that the actions make.
LEMMA RequestTypes ==
    /\ NoRequest \in Request
    /\ \A op \in Operations, u \in Users, n \in Nat : Arrived(op, u, n) \in Request
    /\ \A r \in Request, n \in Nat : [r EXCEPT !.remaining = n] \in Request
    /\ \A r \in Request, b \in BOOLEAN : [r EXCEPT !.inserted = b] \in Request
    /\ \A r \in Request : r.user \in Users /\ r.amount \in Nat /\ r.remaining \in Nat
<1>1. (CHOOSE u \in Users : TRUE) \in Users
  BY UsersAssumption
<1> QED BY <1>1 DEF NoRequest, Arrived, Request, Operations

\* Max({0, i}) by the order.
LEMMA MaxWithZero ==
    ASSUME NEW i \in Int
    PROVE  Max({0, i}) = IF i >= 0 THEN i ELSE 0
<1> DEFINE m == IF i >= 0 THEN i ELSE 0
<1>1. m \in {0, i} /\ \A y \in {0, i} : m >= y
  OBVIOUS
<1>2. \A x \in {0, i} : (\A y \in {0, i} : x >= y) => x = m
  OBVIOUS
<1> HIDE DEF m
<1>3. Max({0, i}) \in {0, i} /\ \A y \in {0, i} : Max({0, i}) >= y
  BY <1>1 DEF Max
<1> QED BY <1>2, <1>3 DEF m

\* A step of h that is at no label of the rows' locks, before or after.
LEMMA QuietStep ==
    ASSUME IInv, NEW h \in Handlers, HandlerTypes',
           UNCHANGED <<rowVars, lockVars>>,
           \A g \in Handlers \ {h} : pc'[g] = pc[g] /\ req'[g] = req[g],
           pc[h] \notin LockLabels \cup {"commit_user"},
           pc'[h] \notin LockLabels \cup {"commit_user", "panicked"},
           conn' = {g \in Handlers : pc'[g] \in TransactionLabels},
           pc'[h] \in KnownLabels => owner(h)' \in accounts
    PROVE  IInv'
<1>1. RowTypes' /\ OneRootPerUser' /\ FirstInsertion'
  BY DEF IInv, RowTypes, OneRootPerUser, FirstInsertion, rowVars, lockVars
<1>2. Resources'
  BY DEF IInv, Resources, lockVars, owner
<1>3. Sound(h)'
  BY DEF Sound, LockLabels, owner, rowVars
<1>4. \A g \in Handlers \ {h} : Sound(g)'
  BY DEF IInv, Sound, rowVars, owner, over_quota
<1> QED BY <1>1, <1>2, <1>3, <1>4 DEF IInv

(***************************************************************************)
(* THE INITIAL STATE                                                       *)
(***************************************************************************)
LEMMA InitInv == Init => IInv
<1> SUFFICES ASSUME Init PROVE IInv
  OBVIOUS
<1>1. RowTypes /\ HandlerTypes /\ OneRootPerUser /\ FirstInsertion
  BY RequestTypes DEF Init, RowTypes, HandlerTypes, OneRootPerUser, FirstInsertion, Labels
<1>2. Resources
  BY HandlersAssumption DEF Init, Resources, TransactionLabels, LockLabels
<1>3. ASSUME NEW h \in Handlers PROVE Sound(h)
  BY DEF Init, Sound, KnownLabels, LockLabels
<1> QED BY <1>1, <1>2, <1>3 DEF IInv

(***************************************************************************)
(* STEPS THAT TOUCH NO ROW                                                 *)
(***************************************************************************)
\* What ensure_user does when it has found the row.
LEMMA UserFoundTypes ==
    ASSUME IInv, NEW h \in Handlers, UserFound(h)
    PROVE  /\ HandlerTypes'
           /\ pc'[h] \in {"idle", "stream", "begin"}
           /\ pc'[h] # "idle" => owner(h)' = owner(h)
           /\ \A g \in Handlers \ {h} : pc'[g] = pc[g] /\ req'[g] = req[g]
<1>1. CASE req[h].op = "read"
  BY <1>1, RequestTypes DEF UserFound, Return, Goto, IInv, HandlerTypes, Labels
<1>2. CASE req[h].op # "read"
  <2> DEFINE n == IF req[h].op = "upload"
                  THEN Max({0, quota_bytes[owner(h)] - used_bytes[owner(h)]}) ELSE 0
  <2>1. owner(h) \in Users /\ req[h] \in Request
    BY RequestTypes DEF IInv, HandlerTypes, owner
  <2>2. quota_bytes[owner(h)] - used_bytes[owner(h)] \in Int
    BY <2>1 DEF IInv, RowTypes
  <2>3. n \in Nat
    BY <2>2, MaxWithZero
  <2>4. /\ pc' = [pc EXCEPT ![h] = IF req[h].op = "upload" THEN "stream" ELSE "begin"]
        /\ req' = [req EXCEPT ![h].remaining = n]
    BY <1>2 DEF UserFound, Goto
  <2> HIDE DEF n
  <2>5. [req[h] EXCEPT !.remaining = n] \in Request
        /\ [req[h] EXCEPT !.remaining = n].user = req[h].user
    BY <2>1, <2>3, RequestTypes DEF Request
  <2> QED BY <2>4, <2>5 DEF IInv, HandlerTypes, Labels, owner
<1> QED BY <1>1, <1>2

LEMMA QuietInv ==
    ASSUME IInv, NEW h \in Handlers,
           \/ Arrival(h) \/ Find(h) \/ BeginUser(h) \/ FindAgain(h) \/ StreamEnds(h)
           \/ FreeName(h) \/ Begin(h) \/ AcquireForQuota(h) \/ AcquireTimesOut(h)
    PROVE  IInv'
<1> USE DEF rowVars, lockVars
<1>1. CASE Arrival(h)
  <2>1. PICK op \in Operations, u \in Users, n \in Nat : Receive(h, op, u, n)
    BY <1>1, SizesAssumption, QuotaAssumption DEF Arrival, Operations
  <2>2. HandlerTypes'
    BY <2>1, RequestTypes DEF Receive, Goto, IInv, HandlerTypes, Labels, EnsureLabels
  <2> QED BY <2>1, <2>2, QuietStep
    DEF Receive, Goto, IInv, HandlerTypes, Resources, KnownLabels, LockLabels, TransactionLabels
<1>2. CASE Find(h)
  <2>1. CASE owner(h) \in accounts
    <3>1. UserFound(h) /\ pc[h] = "find" /\ UNCHANGED <<rowVars, lockVars, conn>>
      BY <1>2, <2>1 DEF Find
    <3> QED BY <2>1, <3>1, UserFoundTypes, QuietStep
      DEF IInv, Resources, KnownLabels, LockLabels, TransactionLabels
  <2>2. CASE owner(h) \notin accounts
    <3>1. HandlerTypes'
      BY <1>2, <2>2 DEF Find, Goto, IInv, HandlerTypes, Labels, EnsureLabels
    <3> QED BY <1>2, <2>2, <3>1, QuietStep
      DEF Find, Goto, IInv, HandlerTypes, Resources, KnownLabels, LockLabels, TransactionLabels
  <2> QED BY <2>1, <2>2
<1>3. CASE FindAgain(h)
  <2>1. owner(h) \in accounts
    BY <1>3 DEF FindAgain, IInv, Sound, KnownLabels
  <2>2. UserFound(h) /\ pc[h] = "find_again" /\ UNCHANGED <<rowVars, lockVars, conn>>
    BY <1>3, <2>1 DEF FindAgain
  <2> QED BY <2>1, <2>2, UserFoundTypes, QuietStep
    DEF IInv, Resources, KnownLabels, LockLabels, TransactionLabels
<1>4. CASE BeginUser(h) \/ AcquireForQuota(h)
  <2>1. HandlerTypes'
    BY <1>4 DEF BeginUser, AcquireForQuota, Goto, IInv, HandlerTypes, Labels, EnsureLabels,
                TransactionLabels
  <2> QED BY <1>4, <2>1, QuietStep
    DEF BeginUser, AcquireForQuota, Acquire, Goto, IInv, HandlerTypes, Resources,
        KnownLabels, LockLabels, TransactionLabels
<1>5. CASE StreamEnds(h)
  <2>1. CASE req[h].amount > req[h].remaining
    <3>1. HandlerTypes'
      BY <1>5, <2>1, RequestTypes DEF StreamEnds, Return, Goto, IInv, HandlerTypes, Labels
    <3> QED BY <1>5, <2>1, <3>1, QuietStep
      DEF StreamEnds, Return, Goto, IInv, HandlerTypes, Resources, KnownLabels, LockLabels,
          TransactionLabels
  <2>2. CASE ~(req[h].amount > req[h].remaining)
    <3>1. pc' = [pc EXCEPT ![h] = "free_name"] /\ req' = [req EXCEPT ![h].remaining = 0]
      BY <1>5, <2>2 DEF StreamEnds, Goto
    <3>2. [req[h] EXCEPT !.remaining = 0] \in Request
          /\ [req[h] EXCEPT !.remaining = 0].user = req[h].user
      BY RequestTypes DEF IInv, HandlerTypes, Request
    <3>3. HandlerTypes' /\ owner(h)' = owner(h)
      BY <3>1, <3>2 DEF IInv, HandlerTypes, Labels, owner
    <3>4. owner(h) \in accounts
      BY <1>5 DEF StreamEnds, IInv, Sound, KnownLabels
    <3> QED BY <1>5, <3>1, <3>3, <3>4, QuietStep
      DEF StreamEnds, IInv, HandlerTypes, Resources, LockLabels, TransactionLabels
  <2> QED BY <2>1, <2>2
<1>6. CASE FreeName(h) \/ Begin(h)
  <2>1. HandlerTypes'
    BY <1>6 DEF FreeName, Begin, Goto, IInv, HandlerTypes, Labels, TransactionLabels
  <2>2. owner(h)' = owner(h) /\ owner(h) \in accounts
    BY <1>6 DEF FreeName, Begin, IInv, Sound, KnownLabels, owner
  <2> QED BY <1>6, <2>1, <2>2, QuietStep
    DEF FreeName, Begin, Acquire, Goto, IInv, HandlerTypes, Resources, LockLabels,
        TransactionLabels
<1>7. CASE AcquireTimesOut(h)
  <2>1. HandlerTypes'
    BY <1>7, RequestTypes DEF AcquireTimesOut, Return, Goto, IInv, HandlerTypes, Labels
  <2> QED BY <1>7, <2>1, QuietStep
    DEF AcquireTimesOut, Return, Goto, IInv, HandlerTypes, Resources, KnownLabels, LockLabels,
        TransactionLabels
<1> QED BY <1>1, <1>2, <1>3, <1>4, <1>5, <1>6, <1>7

(***************************************************************************)
(* ENSURE_USER INSERTS                                                     *)
(***************************************************************************)
\* The request that the two steps leave behind.
LEMMA InsertedTypes ==
    ASSUME IInv, NEW h \in Handlers, NEW b \in BOOLEAN, NEW label \in EnsureLabels,
           req' = [req EXCEPT ![h].inserted = b], Goto(h, label)
    PROVE  /\ HandlerTypes' /\ pc'[h] = label /\ req'[h].inserted = b
           /\ req'[h].user = req[h].user
           /\ \A g \in Handlers \ {h} : pc'[g] = pc[g] /\ req'[g] = req[g]
<1>1. /\ [req[h] EXCEPT !.inserted = b] \in Request
      /\ [req[h] EXCEPT !.inserted = b].user = req[h].user
      /\ [req[h] EXCEPT !.inserted = b].inserted = b
  BY RequestTypes DEF IInv, HandlerTypes, Request
<1> QED BY <1>1 DEF Goto, IInv, HandlerTypes, Labels

\* Nobody else inserts the user, who is not there yet when the row is inserted.
LEMMA InsertUserInv ==
    ASSUME IInv, NEW h \in Handlers, InsertUser(h)
    PROVE  IInv'
<1> DEFINE u == owner(h)
           b == u \notin accounts
<1>1. /\ pc[h] = "insert_user" /\ inserting[u] = NoHandler /\ u \in Users
      /\ req' = [req EXCEPT ![h].inserted = b] /\ Goto(h, "commit_user")
      /\ inserting' = [inserting EXCEPT ![u] = IF b THEN h ELSE NoHandler]
      /\ UNCHANGED <<rowVars, rowLock, conn>>
  BY RequestTypes DEF InsertUser, IInv, HandlerTypes, owner
<1>2. /\ HandlerTypes' /\ pc'[h] = "commit_user" /\ req'[h].inserted = b /\ owner(h)' = u
      /\ \A g \in Handlers \ {h} : pc'[g] = pc[g] /\ req'[g] = req[g]
  BY <1>1, InsertedTypes DEF EnsureLabels, owner
<1>3. RowTypes' /\ OneRootPerUser'
  BY <1>1 DEF IInv, RowTypes, OneRootPerUser, rowVars
<1>4. FirstInsertion'
  BY <1>1 DEF IInv, FirstInsertion, Resources, rowVars
<1>5. Resources'
  <2>1. conn' = {g \in Handlers : pc'[g] \in TransactionLabels}
    BY <1>1, <1>2 DEF IInv, Resources, TransactionLabels
  <2>2. /\ inserting' \in [Users -> Handlers \cup {NoHandler}]
        /\ rowLock' \in [Users -> Handlers \cup {NoHandler}]
    BY <1>1 DEF IInv, Resources
  <2>3. ASSUME NEW g \in Handlers, NEW v \in Users
        PROVE  /\ rowLock'[v] = g <=> owner(g)' = v /\ pc'[g] \in LockLabels
               /\ inserting'[v] = g <=> owner(g)' = v /\ pc'[g] = "commit_user" /\ req'[g].inserted
    <3>1. CASE g = h
      <4>1. rowLock'[v] # h /\ pc'[h] \notin LockLabels
        BY <1>1, <1>2 DEF IInv, Resources, LockLabels
      <4>2. inserting[v] # h /\ h # NoHandler
        BY <1>1, HandlersAssumption DEF IInv, Resources
      <4>3. inserting'[v] = h <=> v = u /\ b
        BY <1>1, <4>2 DEF IInv, Resources
      <4> QED BY <1>2, <3>1, <4>1, <4>3
    <3>2. CASE g # h
      <4>1. pc'[g] = pc[g] /\ req'[g] = req[g] /\ owner(g)' = owner(g)
        BY <1>2, <3>2 DEF owner
      <4>2. rowLock'[v] = g <=> owner(g)' = v /\ pc'[g] \in LockLabels
        BY <1>1, <4>1 DEF IInv, Resources
      <4>3. inserting'[v] = g <=> inserting[v] = g
        BY <1>1, <3>2, HandlersAssumption DEF IInv, Resources
      <4>4. inserting[v] = g <=> owner(g) = v /\ pc[g] = "commit_user" /\ req[g].inserted
        BY DEF IInv, Resources
      <4> QED BY <4>1, <4>2, <4>3, <4>4
    <3> QED BY <3>1, <3>2
  <2> QED BY <2>1, <2>2, <2>3 DEF Resources
<1>6. ASSUME NEW g \in Handlers PROVE Sound(g)'
  <2>1. CASE g = h
    BY <1>1, <1>2, <2>1 DEF Sound, KnownLabels, LockLabels, rowVars
  <2>2. CASE g # h
    BY <1>1, <1>2, <2>2 DEF IInv, Sound, rowVars, owner, over_quota
  <2> QED BY <2>1, <2>2
<1> QED BY <1>2, <1>3, <1>4, <1>5, <1>6 DEF IInv

\* The account appears with its root; nobody could have known it before.
LEMMA CommitUserInv ==
    ASSUME IInv, NEW h \in Handlers, CommitUser(h)
    PROVE  IInv'
<1> DEFINE u == owner(h)
           b == req[h].inserted
<1>1. /\ pc[h] = "commit_user" /\ u \in Users /\ b \in BOOLEAN
      /\ PublishInsertion(h) /\ Release(h) /\ UNCHANGED <<reserved, rowLock>>
      /\ req' = [req EXCEPT ![h].inserted = FALSE] /\ Goto(h, "find_again")
  BY RequestTypes DEF CommitUser, IInv, HandlerTypes, owner, Request
<1>2. /\ HandlerTypes' /\ pc'[h] = "find_again" /\ ~req'[h].inserted /\ owner(h)' = u
      /\ \A g \in Handlers \ {h} : pc'[g] = pc[g] /\ req'[g] = req[g]
  BY <1>1, InsertedTypes DEF EnsureLabels, owner
<1>3. /\ inserting[u] = h <=> b
      /\ b => u \notin accounts
      /\ ~b => u \in accounts
  BY <1>1, HandlersAssumption DEF IInv, Resources, FirstInsertion, Sound
<1>4. CASE b
  <2>1. /\ accounts' = accounts \cup {u}
        /\ roots' = [roots EXCEPT ![u] = @ + 1]
        /\ quota_bytes' = [quota_bytes EXCEPT ![u] = DefaultQuota]
        /\ used_bytes' = [used_bytes EXCEPT ![u] = 0]
        /\ inserting' = [inserting EXCEPT ![u] = NoHandler]
    BY <1>1, <1>4 DEF PublishInsertion
  <2>2. RowTypes' /\ OneRootPerUser' /\ FirstInsertion'
    BY <1>1, <1>3, <1>4, <2>1, QuotaAssumption
       DEF IInv, RowTypes, OneRootPerUser, FirstInsertion, Resources
  <2>3. Resources'
    <3>1. conn' = {g \in Handlers : pc'[g] \in TransactionLabels}
      BY <1>1, <1>2 DEF IInv, Resources, TransactionLabels, LockLabels, Release
    <3>2. /\ inserting' \in [Users -> Handlers \cup {NoHandler}]
          /\ rowLock' \in [Users -> Handlers \cup {NoHandler}]
      BY <1>1, <2>1 DEF IInv, Resources
    <3>3. ASSUME NEW g \in Handlers, NEW v \in Users
          PROVE  /\ rowLock'[v] = g <=> owner(g)' = v /\ pc'[g] \in LockLabels
                 /\ inserting'[v] = g <=> owner(g)' = v /\ pc'[g] = "commit_user" /\ req'[g].inserted
      <4>1. CASE g = h
        BY <1>1, <1>2, <1>3, <1>4, <2>1, <4>1, HandlersAssumption DEF IInv, Resources, LockLabels
      <4>2. CASE g # h
        BY <1>1, <1>2, <1>3, <1>4, <2>1, <4>2, HandlersAssumption DEF IInv, Resources, owner
      <4> QED BY <4>1, <4>2
    <3> QED BY <3>1, <3>2, <3>3 DEF Resources
  <2>4. ASSUME NEW g \in Handlers PROVE Sound(g)'
    <3>1. CASE g = h
      BY <1>2, <2>1, <3>1 DEF Sound, KnownLabels, LockLabels
    <3>2. CASE g # h
      <4>1. pc'[g] = pc[g] /\ req'[g] = req[g] /\ Sound(g)
        BY <1>2, <3>2 DEF IInv
      <4>2. pc[g] \in LockLabels => owner(g) # u
        BY <1>3, <1>4, <4>1 DEF Sound, KnownLabels
      <4>3. used_bytes' \in [Users -> Nat] /\ quota_bytes' \in [Users -> Nat]
        BY <2>2 DEF RowTypes
      <4>4. owner(g) \in Users
        BY RequestTypes DEF IInv, HandlerTypes, owner
      <4>5. owner(g) # u => used_bytes'[owner(g)] = used_bytes[owner(g)]
                            /\ quota_bytes'[owner(g)] = quota_bytes[owner(g)]
        BY <2>1, <4>4 DEF IInv, RowTypes
      <4> QED BY <1>1, <2>1, <4>1, <4>2, <4>5 DEF Sound, LockLabels, owner, over_quota
    <3> QED BY <3>1, <3>2
  <2> QED BY <1>2, <2>2, <2>3, <2>4 DEF IInv
<1>5. CASE ~b
  <2>1. UNCHANGED <<accounts, roots, quota_bytes, used_bytes, inserting>>
    BY <1>1, <1>5 DEF PublishInsertion
  <2>2. RowTypes' /\ OneRootPerUser' /\ FirstInsertion'
    BY <1>1, <2>1 DEF IInv, RowTypes, OneRootPerUser, FirstInsertion
  <2>3. Resources'
    <3>1. conn' = {g \in Handlers : pc'[g] \in TransactionLabels}
      BY <1>1, <1>2 DEF IInv, Resources, TransactionLabels, LockLabels, Release
    <3> QED BY <1>1, <1>2, <1>3, <1>5, <2>1, <3>1 DEF IInv, Resources, LockLabels, owner
  <2>4. ASSUME NEW g \in Handlers PROVE Sound(g)'
    BY <1>1, <1>2, <1>3, <1>5, <2>1 DEF IInv, Sound, KnownLabels, LockLabels, owner, over_quota
  <2> QED BY <1>2, <2>2, <2>3, <2>4 DEF IInv
<1> QED BY <1>4, <1>5

(***************************************************************************)
(* STEPS UNDER THE OWNER'S ROW                                             *)
(***************************************************************************)
\* The end of a request gives back what it holds.
LEMMA EndStep ==
    ASSUME IInv, NEW h \in Handlers, EndOfRequest(h),
           inserting' = [u \in Users |-> IF inserting[u] = h THEN NoHandler ELSE inserting[u]]
    PROVE  /\ HandlerTypes' /\ Resources' /\ Sound(h)'
           /\ \A g \in Handlers \ {h} : pc'[g] = pc[g] /\ req'[g] = req[g]
<1>1. /\ HandlerTypes' /\ pc'[h] = "idle"
      /\ \A g \in Handlers \ {h} : pc'[g] = pc[g] /\ req'[g] = req[g]
  BY RequestTypes DEF EndOfRequest, Return, Goto, IInv, HandlerTypes, Labels
<1>2. conn' = {g \in Handlers : pc'[g] \in TransactionLabels}
  BY <1>1 DEF EndOfRequest, Release, IInv, Resources, TransactionLabels, LockLabels
<1>3. rowLock' = [u \in Users |-> IF rowLock[u] = h THEN NoHandler ELSE rowLock[u]]
  BY DEF EndOfRequest, UnlockRow
<1>4. /\ inserting' \in [Users -> Handlers \cup {NoHandler}]
      /\ rowLock' \in [Users -> Handlers \cup {NoHandler}]
  BY <1>3 DEF IInv, Resources
<1>5. ASSUME NEW g \in Handlers, NEW v \in Users
      PROVE  /\ rowLock'[v] = g <=> owner(g)' = v /\ pc'[g] \in LockLabels
             /\ inserting'[v] = g <=> owner(g)' = v /\ pc'[g] = "commit_user" /\ req'[g].inserted
  <2>1. CASE g = h
    BY <1>1, <1>3, <2>1, HandlersAssumption DEF LockLabels
  <2>2. CASE g # h
    BY <1>1, <1>3, <2>2, HandlersAssumption DEF IInv, Resources, owner
  <2> QED BY <2>1, <2>2
<1>6. Sound(h)'
  BY <1>1 DEF Sound, KnownLabels, LockLabels
<1> QED BY <1>1, <1>2, <1>4, <1>5, <1>6 DEF Resources

\* A request that is not inserting has nothing to take back.
LEMMA NotInserting ==
    ASSUME IInv, NEW h \in Handlers, pc[h] # "commit_user", UNCHANGED inserting
    PROVE  inserting' = [u \in Users |-> IF inserting[u] = h THEN NoHandler ELSE inserting[u]]
<1>1. \A u \in Users : inserting[u] # h
  BY DEF IInv, Resources
<1>2. inserting = [u \in Users |-> inserting[u]]
  BY DEF IInv, Resources
<1> QED BY <1>1, <1>2

\* Going on from one label to the next one, with the row before and after.
LEMMA GoOn ==
    ASSUME IInv, NEW h \in Handlers, NEW label \in LockLabels, Goto(h, label),
           UNCHANGED <<conn, req, inserting>>, pc[h] \in {"lock_user"} \cup LockLabels,
           rowLock[owner(h)] \in {NoHandler, h},
           rowLock' = [rowLock EXCEPT ![owner(h)] = h]
    PROVE  /\ HandlerTypes' /\ Resources' /\ pc'[h] = label
           /\ \A g \in Handlers \ {h} : pc'[g] = pc[g]
<1>1. /\ HandlerTypes' /\ pc'[h] = label /\ owner(h) \in Users
      /\ \A g \in Handlers \ {h} : pc'[g] = pc[g]
  BY RequestTypes DEF Goto, IInv, HandlerTypes, Labels, TransactionLabels, owner
<1>2. conn' = {g \in Handlers : pc'[g] \in TransactionLabels}
  BY <1>1 DEF IInv, Resources, TransactionLabels
<1>3. /\ inserting' \in [Users -> Handlers \cup {NoHandler}]
      /\ rowLock' \in [Users -> Handlers \cup {NoHandler}]
  BY <1>1 DEF IInv, Resources
<1>4. ASSUME NEW g \in Handlers, NEW v \in Users
      PROVE  /\ rowLock'[v] = g <=> owner(g)' = v /\ pc'[g] \in LockLabels
             /\ inserting'[v] = g <=> owner(g)' = v /\ pc'[g] = "commit_user" /\ req'[g].inserted
  <2>1. CASE g = h
    BY <1>1, <2>1, HandlersAssumption DEF IInv, Resources, LockLabels, owner
  <2>2. CASE g # h
    BY <1>1, <2>2, HandlersAssumption DEF IInv, Resources, owner
  <2> QED BY <2>1, <2>2
<1> QED BY <1>1, <1>2, <1>3, <1>4 DEF Resources

\* No account, root or lock of another request changes with these.
LEMMA Others ==
    ASSUME IInv, NEW h \in Handlers, UNCHANGED <<accounts, roots, inserting>>, RowTypes',
           HandlerTypes', Resources', Sound(h)',
           \A g \in Handlers \ {h} : pc'[g] = pc[g] /\ req'[g] = req[g],
           \A u \in Users : rowLock[u] \in Handlers \ {h} =>
               /\ quota_bytes'[u] = quota_bytes[u] /\ used_bytes'[u] = used_bytes[u]
               /\ reserved'[u] = reserved[u]
    PROVE  IInv'
<1>1. OneRootPerUser' /\ FirstInsertion'
  BY DEF IInv, OneRootPerUser, FirstInsertion
<1>2. ASSUME NEW g \in Handlers \ {h} PROVE Sound(g)'
  <2>1. owner(g) \in Users /\ (pc[g] \in LockLabels => rowLock[owner(g)] = g)
    BY RequestTypes DEF IInv, HandlerTypes, Resources, owner
  <2> QED BY <2>1 DEF IInv, Sound, LockLabels, owner, over_quota
<1> QED BY <1>1, <1>2 DEF IInv

LEMMA LockUserInv ==
    ASSUME IInv, NEW h \in Handlers, LockUser(h)
    PROVE  IInv'
<1>1. /\ pc[h] = "lock_user" /\ rowLock[owner(h)] = NoHandler /\ owner(h) \in Users
      /\ UNCHANGED <<rowVars, inserting>>
  BY RequestTypes DEF LockUser, RowFree, IInv, HandlerTypes, owner
<1>2. RowTypes'
  BY <1>1 DEF IInv, RowTypes, rowVars
<1>3. CASE req[h].op = "upload" /\ over_quota(h)
  <2>1. EndOfRequest(h)
    BY <1>3 DEF LockUser
  <2> QED BY <1>1, <1>2, <2>1, EndStep, NotInserting, Others DEF rowVars
<1>4. CASE ~(req[h].op = "upload" /\ over_quota(h))
  <2> DEFINE label == IF req[h].op = "upload" THEN "commit_upload" ELSE "sum_reserved"
  <2>1. /\ Goto(h, label) /\ UNCHANGED <<conn, req>>
        /\ rowLock' = [rowLock EXCEPT ![owner(h)] = h]
    BY <1>4 DEF LockUser, LockRow
  <2>2. label \in LockLabels
    BY DEF LockLabels
  <2>3. /\ HandlerTypes' /\ Resources' /\ pc'[h] = label
        /\ \A g \in Handlers \ {h} : pc'[g] = pc[g]
    BY <1>1, <2>1, <2>2, GoOn DEF rowVars
  <2>4. Sound(h)'
    BY <1>1, <1>4, <2>1, <2>3 DEF IInv, Sound, KnownLabels, LockLabels, rowVars, owner, over_quota
  <2> QED BY <1>1, <1>2, <2>1, <2>3, <2>4, Others DEF rowVars
<1> QED BY <1>3, <1>4

LEMMA SumReservedInv ==
    ASSUME IInv, NEW h \in Handlers, SumReserved(h)
    PROVE  IInv'
<1>1. /\ pc[h] = "sum_reserved" /\ owner(h) \in Users /\ req[h].amount \in Nat
      /\ UNCHANGED <<rowVars, inserting>>
  BY RequestTypes DEF SumReserved, IInv, HandlerTypes, owner
<1>2. RowTypes'
  BY <1>1 DEF IInv, RowTypes, rowVars
<1>3. CASE req[h].amount > space_left(owner(h))
  <2>1. EndOfRequest(h)
    BY <1>3 DEF SumReserved
  <2> QED BY <1>1, <1>2, <2>1, EndStep, NotInserting, Others DEF rowVars
<1>4. CASE ~(req[h].amount > space_left(owner(h)))
  <2>1. /\ Goto(h, "commit_open") /\ UNCHANGED <<rowLock, conn, req>>
    BY <1>4 DEF SumReserved
  <2>2. rowLock[owner(h)] = h /\ rowLock' = [rowLock EXCEPT ![owner(h)] = h]
    BY <1>1, <2>1 DEF IInv, Resources, LockLabels
  <2>3. /\ HandlerTypes' /\ Resources' /\ pc'[h] = "commit_open"
        /\ \A g \in Handlers \ {h} : pc'[g] = pc[g]
    BY <1>1, <2>1, <2>2, GoOn DEF LockLabels
  <2>4. req[h].amount = 0
        \/ used_bytes[owner(h)] + reserved[owner(h)] + req[h].amount <= quota_bytes[owner(h)]
    <3> DEFINE i == quota_bytes[owner(h)] - used_bytes[owner(h)] - reserved[owner(h)]
    <3>1. /\ quota_bytes[owner(h)] \in Nat /\ used_bytes[owner(h)] \in Nat
          /\ reserved[owner(h)] \in Nat
      BY <1>1 DEF IInv, RowTypes
    <3>2. i \in Int
      BY <3>1
    <3>3. space_left(owner(h)) = IF i >= 0 THEN i ELSE 0
      BY <3>2, MaxWithZero DEF space_left
    <3> QED BY <1>1, <1>4, <3>1, <3>3
  <2>5. Sound(h)'
    BY <1>1, <2>1, <2>3, <2>4 DEF IInv, Sound, KnownLabels, LockLabels, rowVars, owner
  <2> QED BY <1>1, <1>2, <2>1, <2>3, <2>5, Others DEF rowVars
<1> QED BY <1>3, <1>4

\* The two commits that take space.
LEMMA CommitInv ==
    ASSUME IInv, NEW h \in Handlers, CommitOpen(h) \/ CommitUpload(h)
    PROVE  IInv'
<1>1. /\ pc[h] \in {"commit_open", "commit_upload"} /\ EndOfRequest(h)
      /\ UNCHANGED <<accounts, roots, quota_bytes, inserting>>
      /\ owner(h) \in Users /\ req[h].amount \in Nat
      /\ rowLock[owner(h)] = h
  BY RequestTypes DEF CommitOpen, CommitUpload, IInv, HandlerTypes, Resources, LockLabels, owner
<1>2. /\ RowTypes'
      /\ \A u \in Users : rowLock[u] # h => used_bytes'[u] = used_bytes[u]
                                            /\ reserved'[u] = reserved[u]
  BY <1>1 DEF CommitOpen, CommitUpload, IInv, RowTypes
<1> QED BY <1>1, <1>2, EndStep, NotInserting, Others

\* set_quota waits until nobody decides on the old one.
LEMMA SetQuotaInv ==
    ASSUME IInv, NEW h \in Handlers, SetQuota(h)
    PROVE  IInv'
<1>1. /\ pc[h] = "update_quota" /\ EndOfRequest(h) /\ owner(h) \in Users
      /\ req[h].amount \in Nat
      /\ UNCHANGED <<accounts, roots, used_bytes, reserved, inserting>>
      /\ quota_bytes' \in {quota_bytes, [quota_bytes EXCEPT ![owner(h)] = req[h].amount]}
      /\ quota_bytes' = quota_bytes \/ rowLock[owner(h)] = NoHandler
  BY RequestTypes DEF SetQuota, RowFree, IInv, HandlerTypes, owner
<1>2. /\ RowTypes'
      /\ \A u \in Users : rowLock[u] \in Handlers => quota_bytes'[u] = quota_bytes[u]
  BY <1>1, HandlersAssumption DEF IInv, RowTypes
<1> QED BY <1>1, <1>2, EndStep, NotInserting, Others

LEMMA DropInv ==
    ASSUME IInv, NEW h \in Handlers, Drop(h)
    PROVE  IInv'
<1>1. /\ EndOfRequest(h) /\ UNCHANGED rowVars
      /\ inserting' = [u \in Users |-> IF inserting[u] = h THEN NoHandler ELSE inserting[u]]
  BY DEF Drop
<1>2. RowTypes' /\ OneRootPerUser' /\ FirstInsertion'
  BY <1>1 DEF IInv, RowTypes, OneRootPerUser, FirstInsertion, rowVars
<1>3. /\ HandlerTypes' /\ Resources' /\ Sound(h)'
      /\ \A g \in Handlers \ {h} : pc'[g] = pc[g] /\ req'[g] = req[g]
  BY <1>1, EndStep
<1>4. \A g \in Handlers \ {h} : Sound(g)'
  BY <1>1, <1>3 DEF IInv, Sound, rowVars, owner, over_quota
<1> QED BY <1>2, <1>3, <1>4 DEF IInv

\* Space that is given back is no harm to who has checked.
LEMMA SessionEndsInv ==
    ASSUME IInv, NEW u \in Users, SessionEnds(u)
    PROVE  IInv'
<1>1. PICK size \in Sizes : size <= reserved[u] /\ reserved' = [reserved EXCEPT ![u] = @ - size]
  BY DEF SessionEnds
<1>2. size \in Nat
  BY SizesAssumption
<1>3. UNCHANGED <<accounts, roots, quota_bytes, used_bytes, inserting, rowLock, conn, pc, req>>
  BY DEF SessionEnds, lockVars
<1>4. RowTypes'
  <2>1. reserved[u] \in Nat /\ reserved[u] - size \in Nat
    BY <1>1, <1>2 DEF IInv, RowTypes
  <2> QED BY <1>1, <1>3, <2>1 DEF IInv, RowTypes
<1>5. HandlerTypes' /\ Resources' /\ OneRootPerUser' /\ FirstInsertion'
  BY <1>3 DEF IInv, HandlerTypes, Resources, OneRootPerUser, FirstInsertion, owner
<1>6. ASSUME NEW g \in Handlers PROVE Sound(g)'
  <2>1. owner(g) \in Users /\ req[g].amount \in Nat
    BY RequestTypes DEF IInv, HandlerTypes, owner
  <2>2. /\ reserved'[owner(g)] \in Nat /\ reserved[owner(g)] \in Nat
        /\ reserved'[owner(g)] <= reserved[owner(g)]
        /\ used_bytes[owner(g)] \in Nat /\ quota_bytes[owner(g)] \in Nat
    BY <1>1, <1>2, <1>4, <2>1 DEF IInv, RowTypes
  <2>3. pc[g] = "commit_open" =>
          req[g].amount = 0
          \/ used_bytes[owner(g)] + reserved'[owner(g)] + req[g].amount <= quota_bytes[owner(g)]
    BY <2>1, <2>2 DEF IInv, Sound
  <2> QED BY <1>3, <2>3 DEF IInv, Sound, owner, over_quota
<1> QED BY <1>4, <1>5, <1>6 DEF IInv

(***************************************************************************)
(* THE THEOREMS                                                            *)
(***************************************************************************)
LEMMA StepInv == IInv /\ [Next]_vars => IInv'
<1> SUFFICES ASSUME IInv, [Next]_vars PROVE IInv'
  OBVIOUS
<1>1. ASSUME NEW h \in Handlers,
             Arrival(h) \/ HandlerStep(h) \/ StreamEnds(h) \/ AcquireTimesOut(h) \/ Drop(h)
      PROVE  IInv'
  BY <1>1, QuietInv, InsertUserInv, CommitUserInv, LockUserInv, SumReservedInv, CommitInv,
     SetQuotaInv, DropInv DEF HandlerStep
<1>2. ASSUME NEW u \in Users, SessionEnds(u) PROVE IInv'
  BY <1>2, SessionEndsInv
<1>3. CASE UNCHANGED vars
  BY <1>3 DEF vars, rowVars, lockVars, IInv, RowTypes, HandlerTypes, Resources, OneRootPerUser,
              FirstInsertion, Sound, owner, over_quota
<1> QED BY <1>1, <1>2, <1>3 DEF Next

THEOREM Invariance == Spec => []IInv
BY InitInv, StepInv, PTL DEF Spec

\* The types, and the discipline of connections and locks: whoever is inside a
\* transaction holds a connection, whoever decides on the quota holds the owner's
\* row (quota_used_for_update), and nobody else does.
THEOREM Typing == Spec => []TypeOK
<1>1. IInv => TypeOK
  BY TypeParts DEF IInv
<1> QED BY <1>1, Invariance, PTL

\* However many first requests of a user run at once, ensure_user makes one account
\* with one root.
THEOREM RootSafety == Spec => []OneRootPerUser
<1>1. IInv => OneRootPerUser
  BY DEF IInv
<1> QED BY <1>1, Invariance, PTL

\* The expect of ensure_user never panics.
THEOREM AccountSafety == Spec => []UserIsThere
<1>1. IInv => UserIsThere
  BY DEF IInv, Sound, UserIsThere
<1> QED BY <1>1, Invariance, PTL

\* What open and upload have checked still holds at their commit: the row lock covers
\* the check, the sum of the sessions and the commit.
THEOREM QuotaSafety == Spec => QuotaIsKept
<1> DEFINE Kept == \A u \in Users :
                /\ reserved'[u] > reserved[u] => used_bytes'[u] + reserved'[u] <= quota_bytes'[u]
                /\ used_bytes'[u] > used_bytes[u] => used_bytes'[u] <= quota_bytes'[u]
<1>1. ASSUME IInv, Next PROVE Kept
  <2> SUFFICES ASSUME NEW u \in Users
               PROVE  /\ reserved'[u] > reserved[u] =>
                              used_bytes'[u] + reserved'[u] <= quota_bytes'[u]
                      /\ used_bytes'[u] > used_bytes[u] => used_bytes'[u] <= quota_bytes'[u]
    OBVIOUS
  <2>1. /\ reserved[u] \in Nat /\ used_bytes[u] \in Nat /\ quota_bytes[u] \in Nat
    BY <1>1 DEF IInv, RowTypes
  <2>2. ASSUME NEW h \in Handlers, CommitOpen(h)
        PROVE  /\ reserved'[u] > reserved[u] =>
                       used_bytes'[u] + reserved'[u] <= quota_bytes'[u]
               /\ used_bytes'[u] = used_bytes[u]
    <3>1. /\ reserved' = [reserved EXCEPT ![owner(h)] = @ + req[h].amount]
          /\ UNCHANGED <<used_bytes, quota_bytes>> /\ pc[h] = "commit_open"
      BY <2>2 DEF CommitOpen
    <3>2. req[h].amount = 0 \/
          used_bytes[owner(h)] + reserved[owner(h)] + req[h].amount <= quota_bytes[owner(h)]
      BY <1>1, <3>1 DEF IInv, Sound
    <3>3. req[h].amount \in Nat
      BY <1>1, RequestTypes DEF IInv, HandlerTypes
    <3>4. reserved'[u] = IF u = owner(h) THEN reserved[u] + req[h].amount ELSE reserved[u]
      BY <1>1, <3>1 DEF IInv, RowTypes
    <3> QED BY <2>1, <3>1, <3>2, <3>3, <3>4
  <2>3. ASSUME NEW h \in Handlers, CommitUpload(h)
        PROVE  /\ used_bytes'[u] > used_bytes[u] => used_bytes'[u] <= quota_bytes'[u]
               /\ reserved'[u] = reserved[u]
    <3>1. /\ used_bytes' = [used_bytes EXCEPT ![owner(h)] = @ + req[h].amount]
          /\ UNCHANGED <<reserved, quota_bytes>> /\ pc[h] = "commit_upload"
      BY <2>3 DEF CommitUpload
    <3>2. ~(used_bytes[owner(h)] + req[h].amount > quota_bytes[owner(h)])
      BY <1>1, <3>1 DEF IInv, Sound, over_quota
    <3>3. req[h].amount \in Nat
      BY <1>1, RequestTypes DEF IInv, HandlerTypes
    <3>4. used_bytes'[u] = IF u = owner(h) THEN used_bytes[u] + req[h].amount ELSE used_bytes[u]
      BY <1>1, <3>1 DEF IInv, RowTypes
    <3> QED BY <2>1, <3>1, <3>2, <3>3, <3>4
  <2>4. ASSUME NEW h \in Handlers, CommitUser(h)
        PROVE  ~(used_bytes'[u] > used_bytes[u]) /\ reserved'[u] = reserved[u]
    <3>1. reserved' = reserved /\ used_bytes' \in {used_bytes, [used_bytes EXCEPT ![owner(h)] = 0]}
      BY <2>4 DEF CommitUser, PublishInsertion
    <3>2. used_bytes'[u] \in {used_bytes[u], 0}
      BY <1>1, <3>1 DEF IInv, RowTypes
    <3> QED BY <2>1, <3>1, <3>2
  <2>5. ASSUME NEW v \in Users, SessionEnds(v)
        PROVE  ~(reserved'[u] > reserved[u]) /\ used_bytes'[u] = used_bytes[u]
    <3>1. PICK size \in Sizes : reserved' = [reserved EXCEPT ![v] = @ - size]
      BY <2>5 DEF SessionEnds
    <3>2. size \in Nat /\ used_bytes' = used_bytes
      BY <2>5, SizesAssumption DEF SessionEnds
    <3>3. reserved'[u] = IF u = v THEN reserved[u] - size ELSE reserved[u]
      BY <1>1, <3>1 DEF IInv, RowTypes
    <3> QED BY <2>1, <3>2, <3>3
  <2>6. ASSUME NEW h \in Handlers,
               \/ Arrival(h) \/ Find(h) \/ BeginUser(h) \/ InsertUser(h) \/ FindAgain(h)
               \/ FreeName(h) \/ Begin(h) \/ LockUser(h) \/ SumReserved(h)
               \/ AcquireForQuota(h) \/ SetQuota(h) \/ StreamEnds(h) \/ AcquireTimesOut(h)
               \/ Drop(h)
        PROVE  UNCHANGED <<reserved, used_bytes>>
    BY <2>6 DEF Arrival, Receive, Find, BeginUser, InsertUser, FindAgain, FreeName, Begin,
                LockUser, SumReserved, AcquireForQuota, SetQuota, StreamEnds, AcquireTimesOut,
                Drop, rowVars
  <2>7. UNCHANGED <<reserved, used_bytes>> =>
            ~(reserved'[u] > reserved[u]) /\ ~(used_bytes'[u] > used_bytes[u])
    BY <2>1
  <2> QED BY <1>1, <2>1, <2>2, <2>3, <2>4, <2>5, <2>6, <2>7 DEF Next, HandlerStep
<1>2. IInv /\ [Next]_vars => [Kept]_vars
  BY <1>1
<1>3. [][Kept]_vars => QuotaIsKept
  BY PTL DEF QuotaIsKept
<1> QED BY <1>2, <1>3, Invariance, PTL DEF Spec

=============================================================================
