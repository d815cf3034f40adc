---------------------------- MODULE AccountsProofs ----------------------------
(* Proofs about Accounts, for every value of its constants.                *)
EXTENDS Accounts, TLAPS

(***************************************************************************)
(* The inductive invariant.  Beside what it is for, that names are not     *)
(* shared and owners exist, it says what the steps rely on: a uuid not yet *)
(* generated is nobody's; nothing is in progress before the process        *)
(* serves, so that what the seed counted is still true when it inserts;    *)
(* and a delete is never of the caller as it was when it was accepted.     *)
(***************************************************************************)
FreshUnused == \A id \in fresh : ~ Exists(id) /\ id \notin tokens
Starting    == boot # "serve" => \A r \in Requests : req[r] = IdleReq
SeedIsFirst == boot = "seed" => Empty
NotOneself  == \A r \in Requests : req[r].pc = "delete" => req[r].arg # req[r].caller

Inv == /\ TypeOK /\ OneUserPerName /\ OwnersExist
       /\ FreshUnused /\ Starting /\ SeedIsFirst /\ NotOneself

LEMMA Records ==
  /\ NoRow \notin Rows
  /\ \A id \in Ids : id # Nobody
  /\ \A q \in Pending : /\ q.pc # "idle" /\ q # IdleReq /\ q.caller \in Ids
                        /\ q = [pc |-> q.pc, caller |-> q.caller, arg |-> q.arg]
                        /\ q.pc \in {"create", "insert"} => q.arg \in Rows
                        /\ q.pc = "delete" => q.arg \in Ids
                        /\ q.pc = "password" => q.arg \in Passwords
  BY AccountsAssumption DEF NoRow, Rows, Pending, IdleReq

\* A busy request is a Pending one.
LEMMA Busy ==
  ASSUME TypeOK, NEW r \in Requests, req[r].pc # "idle"
  PROVE  req[r] \in Pending
  BY DEF TypeOK, IdleReq

\* What a step does to the request it is about.
LEMMA Ended ==
  ASSUME Inv, NEW r \in Requests, req' = [req EXCEPT ![r] = IdleReq]
  PROVE  /\ req' \in [Requests -> Pending \cup {IdleReq}]
         /\ NotOneself'
         /\ (\A q \in Requests : req[q] = IdleReq) => \A q \in Requests : req'[q] = IdleReq
  BY DEF Inv, TypeOK, NotOneself, IdleReq

LEMMA Serving ==
  ASSUME Inv, NEW r \in Requests, req[r].pc # "idle"
  PROVE  boot = "serve"
  BY DEF Inv, Starting, IdleReq

\* An account made with a new uuid and a name nobody has.
LEMMA Inserted ==
  ASSUME Inv, NEW id \in Ids, NEW name \in Names, NEW pw \in Passwords,
         Insert(id, name, pw), ~ NameTaken(name), UNCHANGED <<owner, tokens>>
  PROVE  /\ user' \in [Ids -> Rows \cup {NoRow}] /\ fresh' \subseteq Ids
         /\ OneUserPerName' /\ OwnersExist' /\ FreshUnused' /\ Exists(id)'
  <1>1. user' \in [Ids -> Rows \cup {NoRow}] /\ fresh' \subseteq Ids
    BY DEF Inv, TypeOK, Insert, Rows
  <1>2. /\ user'[id] = [name |-> name, pw |-> pw] /\ user'[id] # NoRow
        /\ \A x \in Ids \ {id} : user'[x] = user[x]
    BY Records DEF Inv, TypeOK, Insert, Rows
  <1>3. OneUserPerName'
    BY <1>2 DEF Inv, OneUserPerName, Exists, NameTaken
  <1>4. OwnersExist' BY <1>2 DEF Inv, TypeOK, OwnersExist, Exists
  <1>5. FreshUnused' BY <1>2 DEF Inv, TypeOK, FreshUnused, Exists, Insert
  <1> QED BY <1>1, <1>2, <1>3, <1>4, <1>5 DEF Exists

LEMMA InitInv == Init => Inv
  BY AccountsAssumption
  DEF Init, Inv, TypeOK, OneUserPerName, OwnersExist, FreshUnused, Starting, SeedIsFirst,
      NotOneself, Exists, Empty, IdleReq

LEMMA SeedKeeps == Inv /\ (SeedCount \/ SeedInsert) => Inv'
  <1> SUFFICES ASSUME Inv, SeedCount \/ SeedInsert PROVE Inv' OBVIOUS
  <1>1. CASE SeedCount
    BY <1>1 DEF SeedCount, BootTo, Inv, TypeOK, OneUserPerName, OwnersExist, FreshUnused,
       Starting, SeedIsFirst, NotOneself, Exists, Empty
  <1>2. CASE SeedInsert
    <2>1. PICK id \in Ids : Insert(id, AdminName, AdminPassword) BY <1>2 DEF SeedInsert
    <2>2. ~ NameTaken(AdminName)
      BY <1>2, AccountsAssumption
      DEF SeedInsert, Inv, SeedIsFirst, Empty, Exists, NameTaken, NoRow
    <2>3. /\ user' \in [Ids -> Rows \cup {NoRow}] /\ fresh' \subseteq Ids
          /\ OneUserPerName' /\ OwnersExist' /\ FreshUnused'
      BY <1>2, <2>1, <2>2, Inserted, AccountsAssumption DEF SeedInsert, BootTo
    <2> QED
      BY <1>2, <2>3 DEF SeedInsert, BootTo, Inv, TypeOK, Starting, SeedIsFirst, NotOneself
  <1> QED BY <1>1, <1>2

\* Between requests and at their start: the tables stay as they are, or lose a queue row.
LEMMA OutsideKeeps ==
  ASSUME Inv,
         \/ \E name \in Names, pw \in Passwords : Login(name, pw)
         \/ \E r \in Requests, id \in Ids : Call(r, id)
         \/ \E i \in Items : RemoveItem(i)
         \/ Restart
  PROVE  Inv'
  <1>1. CASE \E name \in Names, pw \in Passwords : Login(name, pw)
    BY <1>1, Records
    DEF Login, make_token, verify_password, Inv, TypeOK, OneUserPerName, OwnersExist, FreshUnused, Starting, SeedIsFirst,
        NotOneself, Exists, Empty, Rows
  <1>2. CASE \E r \in Requests, id \in Ids : Call(r, id)
    <2>1. PICK r \in Requests, id \in Ids : Call(r, id) BY <1>2
    <2>2. PICK q \in Pending : /\ q.pc = "delete" => q.arg # q.caller
                               /\ req' = [req EXCEPT ![r] = q]
      BY <2>1 DEF Call, AcceptCreate, AcceptDelete, AcceptPassword, AcceptAdd, Authenticate,
         Pending, Rows
    <2>3. boot = "serve" /\ UNCHANGED <<user, fresh, owner, tokens, boot, restarts>>
      BY <2>1 DEF Call, AcceptCreate, AcceptDelete, AcceptPassword, AcceptAdd, Authenticate
    <2>4. req' \in [Requests -> Pending \cup {IdleReq}] /\ NotOneself'
      BY <2>2 DEF Inv, TypeOK, NotOneself
    <2> QED
      BY <2>3, <2>4 DEF Inv, TypeOK, OneUserPerName, OwnersExist, FreshUnused, Starting,
         SeedIsFirst, Exists, Empty
  <1>3. CASE \E i \in Items : RemoveItem(i)
    BY <1>3 DEF RemoveItem, Inv, TypeOK, OneUserPerName, OwnersExist, FreshUnused, Starting,
       SeedIsFirst, NotOneself, Exists, Empty
  <1>4. CASE Restart
    BY <1>4, AccountsAssumption
    DEF Restart, Inv, TypeOK, OneUserPerName, OwnersExist, FreshUnused, Starting,
       SeedIsFirst, NotOneself, Exists, Empty, IdleReq
  <1> QED BY <1>1, <1>2, <1>3, <1>4

LEMMA HandlerKeeps == ASSUME Inv, NEW r \in Requests, Handler(r) PROVE Inv'
  <1>0. req[r].pc # "idle" /\ UNCHANGED <<tokens, boot, restarts>>
    BY DEF Handler, CreateCheck, CreateInsert, DeleteUser, ChangePassword, AddItem, Abort, End
  <1>1. req[r] \in Pending /\ boot = "serve" /\ req[r].caller \in Ids
    BY <1>0, Busy, Serving, Records DEF Inv
  <1>s. Starting' /\ SeedIsFirst'
    BY <1>0, <1>1 DEF Starting, SeedIsFirst
  <1>e. ASSUME End(r)
        PROVE req' \in [Requests -> Pending \cup {IdleReq}] /\ NotOneself'
    BY <1>e, Ended DEF End
  <1>2. CASE CreateCheck(r)
    <2>1. PICK q \in Pending \cup {IdleReq} : /\ q.pc # "delete"
                                             /\ req' = [req EXCEPT ![r] = q]
      BY <1>1, <1>2 DEF CreateCheck, Pending, IdleReq
    <2>2. req' \in [Requests -> Pending \cup {IdleReq}] /\ NotOneself'
      BY <2>1 DEF Inv, TypeOK, NotOneself
    <2> QED
      BY <1>2, <1>s, <2>2 DEF CreateCheck, Inv, TypeOK, OneUserPerName, OwnersExist,
         FreshUnused, Exists
  <1>3. CASE CreateInsert(r)
    <2>1. req[r].arg \in Rows BY <1>1, <1>3, Records DEF CreateInsert
    <2>2. /\ user' \in [Ids -> Rows \cup {NoRow}] /\ fresh' \subseteq Ids
          /\ OneUserPerName' /\ OwnersExist' /\ FreshUnused'
      <3>1. CASE NameTaken(req[r].arg.name)
        BY <1>0, <1>3, <3>1
        DEF CreateInsert, Inv, TypeOK, OneUserPerName, OwnersExist, FreshUnused, Exists
      <3>2. CASE ~ NameTaken(req[r].arg.name)
        <4>1. PICK id \in Ids : Insert(id, req[r].arg.name, req[r].arg.pw)
          BY <1>3, <3>2 DEF CreateInsert
        <4>2. req[r].arg.name \in Names /\ req[r].arg.pw \in Passwords BY <2>1 DEF Rows
        <4> QED BY <1>0, <1>3, <3>2, <4>1, <4>2, Inserted DEF CreateInsert
      <3> QED BY <3>1, <3>2
    <2> QED BY <1>0, <1>3, <1>e, <1>s, <2>2 DEF CreateInsert, Inv, TypeOK
  <1>4. CASE DeleteUser(r)
    <2>1. CASE Owns(req[r].arg)
      BY <1>0, <1>4, <1>e, <1>s, <2>1
      DEF DeleteUser, Inv, TypeOK, OneUserPerName, OwnersExist, FreshUnused, Exists
    <2>2. CASE ~ Owns(req[r].arg)
      <3>1. user' = [user EXCEPT ![req[r].arg] = NoRow] BY <1>4, <2>2 DEF DeleteUser, Drop
      <3>2. \A x \in Ids : user'[x] = user[x] \/ user'[x] = NoRow BY <3>1 DEF Inv, TypeOK
      <3>3. \A x \in Ids : x # req[r].arg => user'[x] = user[x] BY <3>1 DEF Inv, TypeOK
      <3>4. OwnersExist'
        BY <1>4, <2>2, <3>3 DEF DeleteUser, Inv, TypeOK, OwnersExist, Owns, Exists
      <3> QED
        BY <1>0, <1>4, <1>e, <1>s, <3>1, <3>2, <3>4
        DEF DeleteUser, Inv, TypeOK, OneUserPerName, FreshUnused, Exists
    <2> QED BY <2>1, <2>2
  <1>5. CASE ChangePassword(r)
    <2> DEFINE id == req[r].caller
    <2>1. CASE ~ Exists(id)
      BY <1>0, <1>5, <1>e, <1>s, <2>1
      DEF ChangePassword, Inv, TypeOK, OneUserPerName, OwnersExist, FreshUnused, Exists
    <2>2. CASE Exists(id)
      <3>1. user[id] \in Rows /\ req[r].arg \in Passwords
        BY <1>1, <1>5, <2>2, Records DEF ChangePassword, Inv, TypeOK, Exists
      <3>2. user' = [user EXCEPT ![id] = [user[id] EXCEPT !.pw = req[r].arg]]
        BY <1>5, <2>2 DEF ChangePassword
      <3>3. PICK row \in Rows : row.name = user[id].name /\ user' = [user EXCEPT ![id] = row]
        BY <3>1, <3>2 DEF Rows
      <3>4. \A x \in Ids : /\ user'[x] = NoRow <=> user[x] = NoRow
                           /\ user'[x].name = user[x].name
        BY <1>1, <2>2, <3>3, Records DEF Exists, Inv, TypeOK
      <3>5. user' \in [Ids -> Rows \cup {NoRow}] BY <3>3 DEF Inv, TypeOK
      <3> QED
        BY <1>0, <1>5, <1>e, <1>s, <3>4, <3>5
        DEF ChangePassword, Inv, TypeOK, OneUserPerName, OwnersExist, FreshUnused, Exists
    <2> QED BY <2>1, <2>2
  <1>6. CASE AddItem(r)
    <2>1. owner' \in [Items -> Ids \cup {Nobody}] /\ OwnersExist'
      BY <1>1, <1>6 DEF AddItem, Inv, TypeOK, OwnersExist, Exists
    <2> QED
      BY <1>0, <1>6, <1>e, <1>s, <2>1
      DEF AddItem, Inv, TypeOK, OneUserPerName, FreshUnused, Exists
  <1>7. CASE Abort(r)
    BY <1>0, <1>7, <1>e, <1>s
    DEF Abort, Inv, TypeOK, OneUserPerName, OwnersExist, FreshUnused, Exists
  <1> QED BY <1>2, <1>3, <1>4, <1>5, <1>6, <1>7 DEF Handler

LEMMA Inductive == Inv /\ [Next]_vars => Inv'
  <1> SUFFICES ASSUME Inv, [Next]_vars PROVE Inv' OBVIOUS
  <1>1. CASE UNCHANGED vars
    BY <1>1 DEF vars, Inv, TypeOK, OneUserPerName, OwnersExist, FreshUnused, Starting,
       SeedIsFirst, NotOneself, Exists, Empty
  <1> QED BY <1>1, SeedKeeps, OutsideKeeps, HandlerKeeps DEF Next

LEMMA Always == Spec => []Inv
  BY InitInv, Inductive, PTL DEF Spec

\* The type invariant: no step writes a row that is no row, and each place of a handler
\* is reached with an argument of its kind.
THEOREM AccountsTypeOK == Spec => []TypeOK
  BY Always, PTL DEF Inv

\* No two users ever share a name: create_user's check and its INSERT are two statements,
\* the seed's count and its INSERT are two more, and any number of each may interleave.
THEOREM NamesAreUnique == Spec => []OneUserPerName
  BY Always, PTL DEF Inv

\* Every queue row has an owner who exists, however deletes and adds interleave.
THEOREM OwnersAreUsers == Spec => []OwnersExist
  BY Always, PTL DEF Inv
-----------------------------------------------------------------------------
\* How a row can change in one step: which actions touch the users table, and how.
LEMMA RowChange ==
  ASSUME Inv, Next, NEW id \in Ids, user'[id] # user[id]
  PROVE  \/ id \in fresh
         \/ \E r \in Requests : /\ req[r].pc = "delete" /\ req[r].arg = id
                                /\ user'[id] = NoRow
                                /\ \A x \in Ids \ {id} : user'[x] = user[x]
         \/ \E r \in Requests : /\ req[r].pc = "password" /\ req[r].caller = id
                                /\ Exists(id) /\ user'[id] # NoRow
                                /\ user'[id] = [user[id] EXCEPT !.pw = req[r].arg]
  <1>1. ASSUME NEW x \in Ids, NEW name, NEW pw, Insert(x, name, pw) PROVE id \in fresh
    BY <1>1 DEF Insert, Inv, TypeOK
  <1>2. CASE SeedCount \/ SeedInsert
    BY <1>1, <1>2 DEF SeedCount, SeedInsert
  <1>3. CASE \E r \in Requests : Handler(r)
    <2>1. PICK r \in Requests : Handler(r) BY <1>3
    <2>2. CASE CreateInsert(r) BY <1>1, <2>2 DEF CreateInsert
    <2>3. CASE DeleteUser(r)
      <3>1. user' = [user EXCEPT ![req[r].arg] = NoRow] BY <2>3 DEF DeleteUser, Drop
      <3> QED BY <2>3, <3>1 DEF DeleteUser, Inv, TypeOK
    <2>4. CASE ChangePassword(r)
      <3>1. /\ req[r].pc = "password" /\ Exists(req[r].caller)
            /\ user' = [user EXCEPT ![req[r].caller] =
                          [user[req[r].caller] EXCEPT !.pw = req[r].arg]]
        BY <2>4 DEF ChangePassword
      <3>2. req[r].caller = id BY <3>1 DEF Inv, TypeOK
      <3>3. user[id] \in Rows /\ req[r].arg \in Passwords
        BY <3>1, <3>2, Busy, Records DEF Inv, TypeOK, Exists
      <3>4. [user[id] EXCEPT !.pw = req[r].arg] \in Rows BY <3>3 DEF Rows
      <3> QED BY <3>1, <3>2, <3>4, Records DEF Inv, TypeOK
    <2> QED
      BY <2>1, <2>2, <2>3, <2>4 DEF Handler, CreateCheck, AddItem, Abort
  <1> QED
    BY <1>2, <1>3 DEF Next, Login, Call, AcceptCreate, AcceptDelete, AcceptPassword,
       AcceptAdd, Authenticate, RemoveItem, Restart

\* A deleted account's token never works again: uuids are not generated twice, and
\* login gives tokens only for accounts that exist.
THEOREM TokensDie == Spec => NoRevival
  <1>1. Inv /\ [Next]_vars => [\A id \in tokens : ~ Exists(id) => ~ Exists(id)']_vars
    <2> SUFFICES ASSUME Inv, Next, NEW id \in tokens, ~ Exists(id) PROVE ~ Exists(id)'
      BY DEF vars
    <2>1. id \in Ids /\ id \notin fresh /\ user[id] = NoRow
      BY DEF Inv, TypeOK, FreshUnused, Exists
    <2>2. CASE user'[id] = user[id] BY <2>1, <2>2 DEF Exists
    <2>3. CASE user'[id] # user[id]
      BY <2>1, <2>3, RowChange DEF Exists
    <2> QED BY <2>2, <2>3
  <1> QED BY <1>1, Always, PTL DEF Spec, NoRevival

\* Only its own user changes a password, and nothing else of a row ever changes.
THEOREM PasswordsAreOwn == Spec => PasswordOwn
  <1>1. Inv /\ [Next]_vars =>
          [\A id \in Ids :
             Exists(id) /\ Exists(id)' /\ user'[id] # user[id] =>
               \E r \in Requests : /\ req[r].pc = "password" /\ req[r].caller = id
                                  /\ user'[id] = [user[id] EXCEPT !.pw = req[r].arg]]_vars
    <2> SUFFICES ASSUME Inv, Next, NEW id \in Ids,
                        Exists(id), Exists(id)', user'[id] # user[id]
                 PROVE  \E r \in Requests :
                          /\ req[r].pc = "password" /\ req[r].caller = id
                          /\ user'[id] = [user[id] EXCEPT !.pw = req[r].arg]
      BY DEF vars
    <2>1. id \notin fresh BY DEF Inv, FreshUnused
    <2>2. user'[id] # NoRow BY DEF Exists
    <2> QED BY <2>1, <2>2, RowChange
  <1> QED BY <1>1, Always, PTL DEF Spec, PasswordOwn

\* The users table is emptied only by a caller deleted since it was authenticated.
THEOREM RaceEmpties == Spec => OnlyRaceEmpties
  <1> DEFINE A == ~ Empty /\ Empty' =>
                    \E r \in Requests : req[r].pc = "delete" /\ ~ Exists(req[r].caller)
  <1>1. Inv /\ [Next]_vars => [A]_vars
    <2> SUFFICES ASSUME Inv, Next, ~ Empty, Empty'
                 PROVE  \E r \in Requests : req[r].pc = "delete" /\ ~ Exists(req[r].caller)
      BY DEF vars
    <2>1. PICK id \in Ids : user[id] # NoRow BY DEF Empty, Exists
    <2>2. user'[id] = NoRow BY DEF Empty, Exists
    <2>3. id \notin fresh BY <2>1 DEF Inv, FreshUnused, Exists
    <2>5. PICK r \in Requests : /\ req[r].pc = "delete" /\ req[r].arg = id
                                /\ \A x \in Ids \ {id} : user'[x] = user[x]
      BY <2>1, <2>2, <2>3, RowChange
    <2>6. req[r].caller \in Ids /\ req[r].caller # id
      BY <2>5, Busy, Records DEF Inv, NotOneself
    <2> QED BY <2>5, <2>6 DEF Empty, Exists
  <1> QED BY <1>1, Always, PTL DEF Spec, OnlyRaceEmpties

\* Whenever the process begins to serve there is an account to log in to.
THEOREM ServesSomeone == Spec => StartsUsable
  <1> DEFINE A == boot # "serve" /\ boot' = "serve" => ~ Empty'
  <1>1. Inv /\ [Next]_vars => [A]_vars
    <2> SUFFICES ASSUME Inv, Next, boot # "serve", boot' = "serve" PROVE ~ Empty'
      BY DEF vars
    <2>1. SeedCount \/ SeedInsert
      <3>1. \A r \in Requests : ~ Handler(r)
        BY Serving DEF Handler, CreateCheck, CreateInsert, DeleteUser, ChangePassword,
           AddItem, Abort
      <3> QED BY <3>1 DEF Next, Login, Call, AcceptCreate, AcceptDelete, AcceptPassword,
       AcceptAdd, Authenticate, RemoveItem, Restart
    <2>2. CASE SeedCount BY <2>2 DEF SeedCount, BootTo, Empty, Exists
    <2>3. CASE SeedInsert
      <3>1. PICK id \in Ids : Insert(id, AdminName, AdminPassword)
        BY <2>3 DEF SeedInsert
      <3>2. user'[id] # NoRow
        BY <3>1, Records, AccountsAssumption DEF Insert, Inv, TypeOK, Rows
      <3> QED BY <3>2 DEF Empty, Exists
    <2> QED BY <2>1, <2>2, <2>3
  <1> QED BY <1>1, Always, PTL DEF Spec, StartsUsable
=============================================================================
