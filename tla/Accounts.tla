------------------------------- MODULE Accounts -------------------------------
(***************************************************************************)
(* Users, their tokens and what they own: the users table, its seed at     *)
(* every start (backend/src/db.rs), login and the AuthUser extractor       *)
(* (auth.rs), the handlers of routes/users.rs, and the user_id of          *)
(* queue_items, whose foreign key SQLite enforces.                         *)
(*                                                                         *)
(* A request is authenticated by one SELECT; what it does to its caller's  *)
(* account, or to another's, comes some awaits later.  A token carries the *)
(* user's id and never expires: the set tokens only grows.  SECRET stays   *)
(* the same from start to start (SocketService models its change).         *)
(***************************************************************************)
EXTENDS Naturals, FiniteSets

CONSTANTS
    Ids,            \* the uuids User::new_id may generate
    Nobody,         \* no user: the caller of an idle request, the owner of no row
    Names,          \* usernames
    Passwords,      \* passwords; their hashes tell them apart
    Weak,           \* passwords of less than 8 characters, the empty name
    AdminName,      \* ADMIN_USERNAME
    AdminPassword,  \* ADMIN_PASSWORD: of any length
    Items,          \* rows queue_items may have
    Requests,       \* HTTP requests that can be in progress at once
    MaxRestarts     \* bound on the number of restarts

ASSUME AccountsAssumption ==
    /\ Nobody \notin Ids
    /\ AdminName \in Names /\ AdminPassword \in Passwords
    /\ "none" \notin Names      \* no name is that of NoRow
    /\ MaxRestarts \in Nat

VARIABLES
    user,       \* the users table: per id its row, or NoRow
    fresh,      \* uuids not generated yet
    owner,      \* queue_items.user_id; Nobody where there is no row
    tokens,     \* the users for whom login has made a token
    req,        \* per request: where its handler stands, for whom, with what
    boot,       \* where main stands before it serves
    restarts    \* restarts so far

vars == <<user, fresh, owner, tokens, req, boot, restarts>>

NoRow   == [name |-> "none", pw |-> "none"]
IdleReq == [pc |-> "idle", caller |-> Nobody, arg |-> Nobody]

Exists(id) == user[id] # NoRow
Empty      == \A id \in Ids : ~ Exists(id)
Owns(id)   == \E i \in Items : owner[i] = id

Init ==
    /\ user = [id \in Ids |-> NoRow]
    /\ fresh = Ids
    /\ owner = [i \in Items |-> Nobody]
    /\ tokens = {}
    /\ req = [r \in Requests |-> IdleReq]
    /\ boot = "count"
    /\ restarts = 0

Insert(id, name, pw) ==
    /\ id \in fresh
    /\ fresh' = fresh \ {id}
    /\ user' = [user EXCEPT ![id] = [name |-> name, pw |-> pw]]
-----------------------------------------------------------------------------
(* main: seed_admin, then serve.                                           *)

BootTo(pc) == boot' = pc /\ UNCHANGED <<owner, tokens, req, restarts>>

\* Mutant: looks at whether this is the first launch, not at the table.
SeedFirstLaunch ==
    /\ boot = "count"
    /\ BootTo(IF restarts = 0 THEN "seed" ELSE "serve")
    /\ UNCHANGED <<user, fresh>>

\* Mutant: sets ADMIN_PASSWORD at every start.
SeedPassword ==
    /\ boot = "count"
    /\ BootTo(IF Empty THEN "seed" ELSE "serve")
    /\ user' = [id \in Ids |-> IF user[id].name = AdminName
                               THEN [user[id] EXCEPT !.pw = AdminPassword]
                               ELSE user[id]]
    /\ UNCHANGED fresh

SeedCount ==
    /\ boot = "count"
    /\ BootTo(IF Empty THEN "seed" ELSE "serve")
    /\ UNCHANGED <<user, fresh>>

\* Mutant: the seeded account always has the same id.
SeedSameId ==
    /\ boot = "seed"
    /\ LET id == CHOOSE id \in Ids : TRUE IN
         /\ fresh' = fresh \ {id}
         /\ user' = [user EXCEPT ![id] = [name |-> AdminName, pw |-> AdminPassword]]
    /\ BootTo("serve")

SeedInsert ==
    /\ boot = "seed"
    /\ \E id \in Ids : Insert(id, AdminName, AdminPassword)
    /\ BootTo("serve")
-----------------------------------------------------------------------------
\* Hashes are salted: two of one password differ, and each verifies it alone.
verify_password(id, pw) == user[id].pw = pw

make_token(id)   == tokens' = tokens \cup {id}
verify_token(id) == id \in tokens

\* login_handler: one SELECT by name, and a token for the row it finds.
Login(name, pw) ==
    /\ boot = "serve"
    /\ \E id \in Ids : /\ Exists(id) /\ user[id].name = name
                      /\ verify_password(id, pw)
                      /\ make_token(id)
    /\ UNCHANGED <<user, fresh, owner, req, boot, restarts>>

\* AuthUser: the token is good and its user is still there.  The handler of the
\* request then starts, with the row as it was read.
Authenticate(r, id, pc, arg) ==
    /\ boot = "serve"
    /\ req[r].pc = "idle"
    /\ verify_token(id)
    /\ Exists(id)
    /\ req' = [req EXCEPT ![r] = [pc |-> pc, caller |-> id, arg |-> arg]]
    /\ UNCHANGED <<user, fresh, owner, tokens, boot, restarts>>

\* The guards of the handlers refuse the rest before anything is read or written: a
\* weak password or an empty name, oneself to delete, another's password.
AcceptCreate(r, id) ==
    \E name \in Names \ Weak, pw \in Passwords \ Weak :
        Authenticate(r, id, "create", [name |-> name, pw |-> pw])

\* Mutant: a user may delete the account it calls with.
DeleteAnyone(r, id) == \E other \in Ids : Authenticate(r, id, "delete", other)

AcceptDelete(r, id) ==
    \E other \in Ids \ {id} : Authenticate(r, id, "delete", other)

AcceptPassword(r, id) ==
    \E pw \in Passwords \ Weak : Authenticate(r, id, "password", pw)
AcceptAdd(r, id) == Authenticate(r, id, "add", Nobody)

Call(r, id) == \/ AcceptCreate(r, id) \/ AcceptDelete(r, id)
               \/ AcceptPassword(r, id) \/ AcceptAdd(r, id)

End(r) == req' = [req EXCEPT ![r] = IdleReq] /\ UNCHANGED <<tokens, boot, restarts>>

NameTaken(name) == \E id \in Ids : user[id].name = name

\* create_user: a name that is taken is refused.
CreateCheck(r) ==
    /\ req[r].pc = "create"
    /\ req' = [req EXCEPT ![r] =
                 IF NameTaken(req[r].arg.name) THEN IdleReq
                 ELSE [req[r] EXCEPT !.pc = "insert"]]
    /\ UNCHANGED <<user, fresh, owner, tokens, boot, restarts>>

\* Mutant: username is not UNIQUE.
CreateAnyway(r) ==
    /\ req[r].pc = "insert"
    /\ \E id \in Ids : Insert(id, req[r].arg.name, req[r].arg.pw)
    /\ End(r)
    /\ UNCHANGED owner

\* The INSERT fails when another request took the name meanwhile (UNIQUE).
CreateInsert(r) ==
    /\ req[r].pc = "insert"
    /\ IF NameTaken(req[r].arg.name)
       THEN UNCHANGED <<user, fresh>>
       ELSE \E id \in Ids : Insert(id, req[r].arg.name, req[r].arg.pw)
    /\ End(r)
    /\ UNCHANGED owner

Drop(id) == user' = [user EXCEPT ![id] = NoRow]

\* Mutant: foreign keys are not enforced.
DeleteAnyway(r) ==
    /\ req[r].pc = "delete"
    /\ Drop(req[r].arg)
    /\ End(r)
    /\ UNCHANGED <<fresh, owner>>

\* delete_user: the DELETE fails while a queue row refers to the user, and answers
\* 404 when there is no such user.
DeleteUser(r) ==
    /\ req[r].pc = "delete"
    /\ IF Owns(req[r].arg) THEN UNCHANGED user ELSE Drop(req[r].arg)
    /\ End(r)
    /\ UNCHANGED <<fresh, owner>>

\* Mutant: change_password as INSERT OR REPLACE.
ChangeAnyway(r) ==
    LET id == req[r].caller IN
    /\ req[r].pc = "password"
    /\ user' = [user EXCEPT ![id].pw = req[r].arg]
    /\ End(r)
    /\ UNCHANGED <<fresh, owner>>

\* change_password, of the caller: no effect when the account is gone.
ChangePassword(r) ==
    LET id == req[r].caller IN
    /\ req[r].pc = "password"
    /\ IF Exists(id) THEN user' = [user EXCEPT ![id].pw = req[r].arg]
                     ELSE UNCHANGED user
    /\ End(r)
    /\ UNCHANGED <<fresh, owner>>

\* The INSERT of add_to_queue fails when the owner's account is gone.
AddItem(r) ==
    /\ req[r].pc = "add"
    /\ IF Exists(req[r].caller)
       THEN \E i \in Items : /\ owner[i] = Nobody
                             /\ owner' = [owner EXCEPT ![i] = req[r].caller]
       ELSE UNCHANGED owner
    /\ End(r)
    /\ UNCHANGED <<user, fresh>>

\* A queue row is deleted (DownloadQueue says when).
RemoveItem(i) ==
    /\ boot = "serve"
    /\ owner[i] # Nobody
    /\ owner' = [owner EXCEPT ![i] = Nobody]
    /\ UNCHANGED <<user, fresh, tokens, req, boot, restarts>>

\* The client goes away, or a statement fails.
Abort(r) == req[r].pc # "idle" /\ End(r) /\ UNCHANGED <<user, fresh, owner>>

\* The process is started again, possibly before it came to serve.
Restart ==
    /\ restarts < MaxRestarts
    /\ fresh # {}               \* the bound Ids leaves one for the seed
    /\ restarts' = restarts + 1
    /\ boot' = "count"
    /\ req' = [r \in Requests |-> IdleReq]
    /\ UNCHANGED <<user, fresh, owner, tokens>>

Handler(r) == \/ CreateCheck(r) \/ CreateInsert(r) \/ DeleteUser(r)
              \/ ChangePassword(r) \/ AddItem(r) \/ Abort(r)

Next ==
    \/ SeedCount \/ SeedInsert
    \/ \E name \in Names, pw \in Passwords : Login(name, pw)
    \/ \E r \in Requests, id \in Ids : Call(r, id)
    \/ \E r \in Requests : Handler(r)
    \/ \E i \in Items : RemoveItem(i)
    \/ Restart

Spec == Init /\ [][Next]_vars
-----------------------------------------------------------------------------
Rows == [name : Names, pw : Passwords]

Pending == [pc : {"create", "insert"}, caller : Ids, arg : Rows]
             \cup [pc : {"delete"}, caller : Ids, arg : Ids]
             \cup [pc : {"password"}, caller : Ids, arg : Passwords]
             \cup [pc : {"add"}, caller : Ids, arg : {Nobody}]

TypeOK ==
    /\ user \in [Ids -> Rows \cup {NoRow}]
    /\ fresh \subseteq Ids
    /\ owner \in [Items -> Ids \cup {Nobody}]
    /\ tokens \subseteq Ids
    /\ req \in [Requests -> Pending \cup {IdleReq}]
    /\ boot \in {"count", "seed", "serve"}
    /\ restarts \in 0..MaxRestarts

\* Two users never have one name, whatever requests and starts create them: login,
\* which takes the row it finds by name, can mean one account only.
OneUserPerName ==
    \A a, b \in Ids : Exists(a) /\ Exists(b) /\ user[a].name = user[b].name => a = b

\* The owner of every queue row is in the users table, though the request that adds the
\* row read its caller's account earlier and another request may delete it meanwhile.
OwnersExist == \A i \in Items : owner[i] = Nobody \/ Exists(owner[i])

\* The table loses its last user only to a request whose own caller was deleted after
\* it was authenticated: the guard of delete_user on the caller is not enough, but
\* nothing less than two users deleting each other gets past it.
OnlyRaceEmpties ==
    [][~ Empty /\ Empty' =>
         \E r \in Requests : req[r].pc = "delete" /\ ~ Exists(req[r].caller)]_vars

\* A token, which nothing can revoke, is of no use once its user is deleted: no later
\* account, created or seeded, is reached with it.
NoRevival == [][\A id \in tokens : ~ Exists(id) => ~ Exists(id)']_vars

\* A password changes only by a request of the account it belongs to: no start brings
\* ADMIN_PASSWORD back, and no request of another user sets it.
PasswordOwn ==
    [][\A id \in Ids :
         Exists(id) /\ Exists(id)' /\ user'[id] # user[id] =>
           \E r \in Requests : /\ req[r].pc = "password" /\ req[r].caller = id
                              /\ user'[id] = [user[id] EXCEPT !.pw = req[r].arg]]_vars

\* The process never comes to serve with nobody who could log in: whatever the last run
\* left in the table, and however often the start itself was cut short.
StartsUsable == [][boot # "serve" /\ boot' = "serve" => ~ Empty']_vars
=============================================================================
